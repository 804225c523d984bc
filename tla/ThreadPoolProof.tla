--------------------------- MODULE ThreadPoolProof ---------------------------
(***************************************************************************)
(* Proofs about ThreadPool, for any number of slots, threads and tasks.    *)
(***************************************************************************)
EXTENDS ThreadPool, TLAPS, FiniteSetTheorems

-----------------------------------------------------------------------------
(* The inductive invariant *)

\* Where a thread is that owns its slot: at its task, or on its way out because
\* the pool has ended; and where it has allocated data and not yet freed it.
Leaving == {"end", "end_unset", "uninit"}
Owning == Serving \cup Leaving
Labels == {"none", "done"} \cup Owning \cup {"uncount", "free", "unset"}
HasData == (Owning \ {"start", "uninit"}) \cup {"free", "unset"}
Intact == HasData \ {"unset", "end_unset"}

TypeInv ==
  /\ continue_flag \in BOOLEAN
  /\ freelist \in Seq(Slots)
  /\ func \in [Slots -> Tasks \cup {None}]
  /\ inited \in [Slots -> BOOLEAN]
  /\ tdata \in [Slots -> Threads \cup {None}]
  /\ running \in Int /\ dealing \in Int
  /\ slot \in [Threads -> Slots]
  /\ pc \in [Threads -> Labels]
  /\ callback \in [Threads -> Tasks \cup {None}]
  /\ \A t \in Threads : callback[t] # None <=> pc[t] \in {"deal", "call"}
  /\ call \in [Tasks -> {"new", "popped", "ok", "refused", "failed"}]
  /\ popped \in [Tasks -> Slots]
  /\ ended \subseteq Tasks /\ live \subseteq Threads /\ shared \subseteq Slots

\* A slot has one owner at most, and inited tells whether it has one, except
\* that a thread that was created for a task has not set it yet.
OwnerInv ==
  /\ \A t, u \in Threads :
       pc[t] \in Owning /\ pc[u] \in Owning /\ slot[t] = slot[u] => t = u
  /\ \A t \in Threads :
       pc[t] \in Owning =>
         \/ inited[slot[t]]
         \/ pc[t] \in {"start", "init"} /\ func[slot[t]] # None
  /\ \A s \in Slots :
       inited[s] => \E t \in Threads : pc[t] \in Owning /\ slot[t] = s
  /\ \A t \in Threads : pc[t] \in Leaving \cup {"uncount"} => ~continue_flag

Listed(s) == \E i \in DOMAIN freelist : freelist[i] = s
Held(s) == \E k \in Tasks : call[k] = "popped" /\ popped[k] = s
Busy(s) == \E t \in Threads : pc[t] \in HasTask /\ slot[t] = s

\* A slot is in the free list, held by a caller, or its thread is busy, unless
\* a task lies in it; and it is there only once.
HandInv ==
  /\ \A i, j \in DOMAIN freelist : freelist[i] = freelist[j] => i = j
  /\ \A j, k \in Tasks :
       call[j] = "popped" /\ call[k] = "popped" /\ popped[j] = popped[k] => j = k
  /\ \A s \in Slots : Listed(s) => ~Held(s) /\ ~Busy(s)
  /\ \A s \in Slots : Held(s) => ~Busy(s)
  /\ \A s \in Slots : func[s] = None <=> Listed(s) \/ Held(s) \/ Busy(s)

\* A task that was accepted is in the slot its caller had, or in the hands of
\* that slot's thread, or has ended; one that has failed may lie in a slot that
\* has no thread.
TaskInv ==
  /\ \A s \in Slots :
       func[s] # None =>
         /\ popped[func[s]] = s
         /\ func[s] \notin ended
         /\ \/ call[func[s]] = "ok"
            \/ /\ call[func[s]] = "failed"
               /\ \A t \in Threads : pc[t] \in Owning => slot[t] # s
  /\ \A t \in Threads :
       callback[t] # None =>
         /\ popped[callback[t]] = slot[t]
         /\ call[callback[t]] = "ok"
         /\ callback[t] \notin ended
  /\ \A k \in ended : call[k] = "ok"

\* A thread's data is where its slot points to, if the slot was never shared.
DataInv ==
  /\ \A t, u \in Threads \ Unused :
       slot[t] = slot[u] /\ slot[t] \notin shared => t = u
  /\ \A s \in Slots :
       tdata[s] # None => slot[tdata[s]] = s /\ pc[tdata[s]] \in HasData
  /\ \A t \in Threads :
       pc[t] \in Intact /\ slot[t] \notin shared => tdata[slot[t]] = t /\ t \in live

PoolInv == TypeInv /\ OwnerInv /\ HandInv /\ TaskInv /\ DataInv /\ CountsRight

-----------------------------------------------------------------------------
(* Types *)

LEMMA TypeInit == Init => TypeInv
<1> SUFFICES ASSUME Init PROVE TypeInv
  OBVIOUS
<1>1. freelist \in Seq(Slots)
  BY PoolAssumption DEF Init, Slots
<1>2. QED
  BY <1>1, PoolAssumption DEF Init, TypeInv, Slots, Labels, Owning, Serving, Starting

\* What Create does with the thread it creates.
CreateFor(k, t) ==
  /\ pc[t] \in {"none", "done"}
  /\ call[k] = "popped" /\ ~inited[popped[k]]
  /\ func' = [func EXCEPT ![popped[k]] = k]
  /\ slot' = [slot EXCEPT ![t] = popped[k]]
  /\ pc' = [pc EXCEPT ![t] = "start"]
  /\ shared' = IF Present(popped[k]) THEN shared \cup {popped[k]} ELSE shared
  /\ call' = [call EXCEPT ![k] = "ok"]
  /\ UNCHANGED <<continue_flag, freelist, inited, tdata, callback, live, running, dealing,
                 popped, ended>>

LEMMA CreateStep ==
  ASSUME NEW k \in Tasks, Create(k) PROVE \E t \in Threads : CreateFor(k, t)
<1> DEFINE t == CHOOSE u \in Unused : TRUE
<1>1. t \in Unused
  BY DEF Create
<1>2. CreateFor(k, t)
  BY <1>1 DEF Create, CreateFor, counts, Unused
<1>3. QED
  BY <1>1, <1>2 DEF Unused

LEMMA TypeRun == TypeInv /\ (Stop \/ \E k \in Tasks : Run(k)) => TypeInv'
<1> SUFFICES ASSUME TypeInv, Stop \/ \E k \in Tasks : Run(k) PROVE TypeInv'
  OBVIOUS
<1> USE DEF TypeInv, slots, threads, counts, calls
<1>1. CASE Stop
  BY <1>1 DEF Stop
<1>2. ASSUME NEW k \in Tasks, Pop(k) PROVE TypeInv'
  <2>1. Head(freelist) \in Slots /\ Tail(freelist) \in Seq(Slots)
    BY <1>2 DEF Pop
  <2>2. QED
    BY <1>2, <2>1 DEF Pop
<1>3. ASSUME NEW k \in Tasks, Refuse(k) \/ Assign(k) \/ CreateFails(k) PROVE TypeInv'
  BY <1>3 DEF Refuse, Assign, CreateFails
<1>4. ASSUME NEW k \in Tasks, Create(k) PROVE TypeInv'
  <2>1. PICK u \in Threads : CreateFor(k, u)
    BY <1>4, CreateStep
  <2>2. QED
    BY <2>1 DEF CreateFor, Labels, Owning, Serving, Starting
<1>5. QED
  BY <1>1, <1>2, <1>3, <1>4 DEF Run

\* A step of a thread moves this thread, and leaves the calls of
\* fc_thread_pool_run and everybody's slot as they are.
LEMMA Moves ==
  ASSUME TypeInv, NEW t \in Threads, Thread(t)
  PROVE  /\ pc' \in [Threads -> Labels]
         /\ \A u \in Threads : u # t => pc'[u] = pc[u]
         /\ UNCHANGED <<continue_flag, slot, call, popped, shared>>
<1>1. \A l \in Labels : Goto(t, l) =>
        /\ pc' \in [Threads -> Labels]
        /\ \A u \in Threads : u # t => pc'[u] = pc[u]
  BY DEF Goto, TypeInv
<1>2. \E l \in Labels : Goto(t, l)
  BY Zenon DEF Thread, Alloc, SetInited, CountIn, Loop, Take, KeepWaiting, IdleOut, CountDeal,
         EndTask, Undeal, Push, Free, Unset, Uninit, Uncount, Labels, Owning, Serving,
         Starting, Counted, Leaving
<1>3. UNCHANGED <<continue_flag, slot, call, popped, shared>>
  BY Zenon DEF Thread, Alloc, SetInited, CountIn, Loop, Take, KeepWaiting, IdleOut, CountDeal,
         EndTask, Undeal, Push, Free, Unset, Uninit, Uncount, slots, counts, calls
<1>4. QED
  BY <1>1, <1>2, <1>3

\* The way of a thread: where every step leads from and to.
LEMMA Places ==
  ASSUME TypeInv, NEW t \in Threads
  PROVE  /\ Alloc(t) => pc[t] = "start" /\ pc'[t] = "init"
         /\ SetInited(t) => pc[t] = "init" /\ pc'[t] = "count"
         /\ CountIn(t) => pc[t] = "count" /\ pc'[t] = "loop"
         /\ Loop(t) => pc[t] = "loop" /\ pc'[t] = IF continue_flag THEN "wait" ELSE "end"
         /\ Take(t) => pc[t] = "wait" /\ pc'[t] = "deal"
         /\ KeepWaiting(t) => pc[t] = "wait" /\ pc'[t] = "loop"
         /\ IdleOut(t) => pc[t] = "wait" /\ pc'[t] = "free"
         /\ CountDeal(t) => pc[t] = "deal" /\ pc'[t] = "call"
         /\ EndTask(t) => pc[t] = "call" /\ pc'[t] = "undeal"
         /\ Undeal(t) => pc[t] = "undeal" /\ pc'[t] = "push"
         /\ Push(t) => pc[t] = "push" /\ pc'[t] = "loop"
         /\ \A l, m : Free(t, l, m) \/ Unset(t, l, m) => pc[t] = l /\ pc'[t] = m
         /\ Uninit(t) => pc[t] = "uninit" /\ pc'[t] = "uncount"
         /\ Uncount(t) => pc[t] = "uncount" /\ pc'[t] = "done"
<1>1. \A l, m : At(t, l) /\ Goto(t, m) => pc[t] = l /\ pc'[t] = m
  BY DEF At, Goto, TypeInv
<1>2. Loop(t) => pc[t] = "loop" /\ pc'[t] = IF continue_flag THEN "wait" ELSE "end"
  BY DEF Loop, At, Goto, TypeInv
<1>3. QED
  BY <1>1, <1>2, Zenon DEF Alloc, SetInited, CountIn, Take, KeepWaiting, IdleOut, CountDeal, EndTask,
         Undeal, Push, Free, Unset, Uninit, Uncount

\* Only these steps change these variables.
LEMMA Frame ==
  ASSUME NEW t \in Threads, Thread(t)
  PROVE  /\ Push(t) \/ UNCHANGED freelist
         /\ Take(t) \/ UNCHANGED func
         /\ SetInited(t) \/ IdleOut(t) \/ Uninit(t) \/ UNCHANGED inited
         /\ Take(t) \/ EndTask(t) \/ UNCHANGED callback
         /\ EndTask(t) \/ UNCHANGED ended
         /\ CountIn(t) \/ IdleOut(t) \/ Uncount(t) \/ UNCHANGED running
         /\ CountDeal(t) \/ Undeal(t) \/ UNCHANGED dealing
         /\ \/ Alloc(t) \/ Unset(t, "unset", "done") \/ Unset(t, "end_unset", "uninit")
            \/ UNCHANGED tdata
         /\ \/ Alloc(t) \/ Free(t, "free", "unset") \/ Free(t, "end", "end_unset")
            \/ UNCHANGED live
BY Zenon DEF Thread, Alloc, SetInited, CountIn, Loop, Take, KeepWaiting, IdleOut, CountDeal,
         EndTask, Undeal, Push, Free, Unset, Uninit, Uncount, slots, counts, calls

LEMMA TypeThread == ASSUME TypeInv, NEW t \in Threads, Thread(t) PROVE TypeInv'
<1>1. freelist' \in Seq(Slots)
  <2>1. <<slot[t]>> \o freelist \in Seq(Slots)
    BY DEF TypeInv
  <2>2. QED
    BY <2>1, Frame DEF Push, TypeInv
<1>2. func' \in [Slots -> Tasks \cup {None}]
  BY Frame DEF Take, TypeInv
<1>3. inited' \in [Slots -> BOOLEAN]
  BY Frame DEF SetInited, IdleOut, Uninit, TypeInv
<1>4. tdata' \in [Slots -> Threads \cup {None}] /\ live' \subseteq Threads
  BY Frame DEF Alloc, Unset, Free, TypeInv
<1>5. running' \in Int /\ dealing' \in Int
  BY Frame DEF CountIn, IdleOut, Uncount, CountDeal, Undeal, TypeInv
<1>6. callback' \in [Threads -> Tasks \cup {None}]
  BY Frame DEF Take, EndTask, TypeInv
<1>7. \A u \in Threads : callback'[u] # None <=> pc'[u] \in {"deal", "call"}
  <2>1. CASE Take(t)
    BY <2>1, Moves DEF Take, At, Goto, TypeInv
  <2>2. CASE EndTask(t)
    BY <2>2, Moves, Places DEF EndTask, TypeInv
  <2>3. CASE ~Take(t) /\ ~EndTask(t)
    <3>1. UNCHANGED callback
      BY <2>3, Frame
    <3>2. pc'[t] \in {"deal", "call"} <=> pc[t] \in {"deal", "call"}
      BY <2>3, Places DEF Thread
    <3>3. QED
      BY <3>1, <3>2, Moves DEF TypeInv
  <2>4. QED
    BY <2>1, <2>2, <2>3
<1>8. ended' \subseteq Tasks
  <2>1. EndTask(t) => callback[t] \in Tasks
    BY DEF EndTask, At, TypeInv
  <2>2. QED
    BY <2>1, Frame DEF EndTask, TypeInv
<1>9. QED
  BY Moves, <1>1, <1>2, <1>3, <1>4, <1>5, <1>6, <1>7, <1>8 DEF TypeInv

LEMMA TypeNext == TypeInv /\ [Next]_vars => TypeInv'
BY TypeRun, TypeThread DEF Next, vars, slots, threads, counts, calls, TypeInv

-----------------------------------------------------------------------------
(* Owners *)

LEMMA OwnerInit == Init => OwnerInv
<1> SUFFICES ASSUME Init PROVE OwnerInv
  OBVIOUS
<1>1. \A t \in Threads : pc[t] \in Owning => t \in 1..MinIdle /\ pc[t] = "start" /\ slot[t] = t
  BY DEF Init, Owning, Serving, Starting, Counted, Leaving
<1>2. \A s \in Slots : inited[s] <=> s \in 1..MinIdle
  <2>1. \A s \in Slots : s <= MinIdle <=> s \in 1..MinIdle
    BY PoolAssumption DEF Slots
  <2>2. \A s \in Slots : inited[s] <=> s <= MinIdle
    BY Zenon DEF Init
  <2>3. QED
    BY <2>1, <2>2
<1>3. \A s \in 1..MinIdle : s \in Threads /\ pc[s] = "start" /\ slot[s] = s /\ s \in Slots
  BY PoolAssumption DEF Init, Slots
<1>4. "start" \in Owning /\ \A t \in Threads : pc[t] \notin Leaving \cup {"uncount"}
  BY DEF Init, Owning, Serving, Starting, Leaving
<1>5. QED
  BY <1>1, <1>2, <1>3, <1>4 DEF OwnerInv

LEMMA OwnerRun ==
  TypeInv /\ OwnerInv /\ HandInv /\ (Stop \/ \E k \in Tasks : Run(k)) => OwnerInv'
<1> SUFFICES ASSUME TypeInv, OwnerInv, HandInv, Stop \/ \E k \in Tasks : Run(k)
             PROVE  OwnerInv'
  OBVIOUS
<1> USE DEF TypeInv, OwnerInv, slots, threads, counts, calls
<1>1. CASE Stop
  BY <1>1 DEF Stop
<1>2. ASSUME NEW k \in Tasks, Pop(k) \/ Refuse(k) PROVE OwnerInv'
  BY <1>2 DEF Pop, Refuse
<1>3. ASSUME NEW k \in Tasks, Assign(k) \/ CreateFails(k) PROVE OwnerInv'
  BY <1>3, PoolAssumption DEF Assign, CreateFails
<1>4. ASSUME NEW k \in Tasks, Create(k) PROVE OwnerInv'
  <2>1. PICK t \in Threads : CreateFor(k, t)
    BY <1>4, CreateStep
  <2>2. func[popped[k]] = None
    BY <2>1 DEF CreateFor, HandInv, Held
  <2>3. \A u \in Threads : pc[u] \in Owning => slot[u] # popped[k]
    BY <2>1, <2>2 DEF CreateFor
  <2>4. t \in Threads /\ pc[t] \notin Owning
    BY <2>1 DEF CreateFor, Owning, Serving, Starting, Counted, Leaving
  <2>5. "start" \in Owning /\ "start" \notin Leaving \cup {"uncount"}
    BY DEF Owning, Serving, Starting, Leaving
  <2>6. QED
    BY <2>1, <2>3, <2>4, <2>5, PoolAssumption DEF CreateFor
<1>5. QED
  BY <1>1, <1>2, <1>3, <1>4 DEF Run

LEMMA OwnerThread ==
  ASSUME TypeInv, OwnerInv, NEW t \in Threads, Thread(t) PROVE OwnerInv'
<1> USE DEF TypeInv
<1>1. /\ pc'[t] \in Owning => pc[t] \in Owning
      /\ pc'[t] \in {"start", "init"} => Alloc(t) /\ pc[t] = "start"
      /\ pc[t] \in Owning /\ pc'[t] \notin Owning => IdleOut(t) \/ Uninit(t)
  BY Places DEF Thread, Owning, Serving, Starting, Counted, Leaving
<1>2. \A u, v \in Threads :
        pc'[u] \in Owning /\ pc'[v] \in Owning /\ slot'[u] = slot'[v] => u = v
  BY <1>1, Moves DEF OwnerInv
<1>3. \A u \in Threads :
        pc'[u] \in Leaving \cup {"uncount"} => ~continue_flag'
  BY Places, Moves DEF Thread, OwnerInv, Leaving
<1>4. \A s \in Slots : s # slot[t] => inited'[s] = inited[s]
  <2>1. \A b : inited' = [inited EXCEPT ![slot[t]] = b] =>
          \A s \in Slots : s # slot[t] => inited'[s] = inited[s]
    OBVIOUS
  <2>2. QED
    BY <2>1, Frame, Zenon DEF SetInited, IdleOut, Uninit
<1>5. \A s \in Slots : func'[s] = func[s] \/ (s = slot[t] /\ Take(t))
  BY Frame DEF Take
<1>6. /\ SetInited(t) => inited'[slot[t]]
      /\ IdleOut(t) \/ Uninit(t) => ~inited'[slot[t]]
      /\ SetInited(t) \/ IdleOut(t) \/ Uninit(t) \/ UNCHANGED inited
  BY Frame DEF SetInited, IdleOut, Uninit
<1>7. ASSUME NEW u \in Threads, pc'[u] \in Owning
      PROVE  \/ inited'[slot'[u]]
             \/ pc'[u] \in {"start", "init"} /\ func'[slot'[u]] # None
  <2>1. CASE u # t
    <3>1. pc'[u] = pc[u] /\ slot'[u] = slot[u] /\ slot[u] \in Slots
      BY <2>1, Moves
    <3>2. CASE pc[t] \in Owning
      <4>1. slot[u] # slot[t]
        BY <1>7, <2>1, <3>1, <3>2 DEF OwnerInv
      <4>2. QED
        BY <1>4, <1>5, <1>7, <3>1, <4>1 DEF OwnerInv
    <3>3. CASE pc[t] \notin Owning
      <4>1. UNCHANGED <<inited, func>>
        BY <3>3, Places, Frame DEF Owning, Serving, Starting, Counted, Leaving
      <4>2. QED
        BY <1>7, <3>1, <4>1 DEF OwnerInv
    <3>4. QED
      BY <3>2, <3>3
  <2>2. CASE u = t
    <3>1. pc[t] \in Owning /\ ~IdleOut(t) /\ ~Uninit(t) /\ slot[t] \in Slots /\ slot'[t] = slot[t]
      BY <1>1, <1>7, <2>2, Places, Moves DEF TypeInv, Owning, Serving, Starting, Counted, Leaving
    <3>2. pc[t] \in {"start", "init"} => SetInited(t) \/ (Alloc(t) /\ pc'[t] = "init")
      BY <1>7, <2>2, Places DEF Thread
    <3>3. QED
      BY <1>5, <1>6, <2>2, <3>1, <3>2, Places DEF OwnerInv
  <2>3. QED
    BY <2>1, <2>2
<1>8. ASSUME NEW s \in Slots, inited'[s]
      PROVE  \E u \in Threads : pc'[u] \in Owning /\ slot'[u] = s
  <2>1. CASE SetInited(t) /\ s = slot[t]
    BY <2>1, Places, Moves DEF Owning, Serving, Starting
  <2>2. CASE ~(SetInited(t) /\ s = slot[t])
    <3>1. inited[s] /\ ~(s = slot[t] /\ (IdleOut(t) \/ Uninit(t)))
      BY <1>4, <1>6, <1>8, <2>2
    <3>2. PICK u \in Threads : pc[u] \in Owning /\ slot[u] = s
      BY <3>1 DEF OwnerInv
    <3>3. pc'[u] \in Owning /\ slot'[u] = s
      BY <1>1, <3>1, <3>2, Moves
    <3>4. QED
      BY <3>3
  <2>3. QED
    BY <2>1, <2>2
<1>9. QED
  BY <1>2, <1>3, <1>7, <1>8 DEF OwnerInv

-----------------------------------------------------------------------------
(* Hands *)

LEMMA HandInit == Init => HandInv
<1> SUFFICES ASSUME Init PROVE HandInv
  OBVIOUS
<1>1. DOMAIN freelist = Slots /\ \A i \in Slots : freelist[i] = i
  BY DEF Init
<1>2. \A s \in Slots : Listed(s) /\ ~Held(s) /\ ~Busy(s) /\ func[s] = None
  BY <1>1 DEF Init, Listed, Held, Busy, HasTask
<1>3. QED
  BY <1>1, <1>2 DEF Init, HandInv

\* A caller takes the first slot of the list.
LEMMA HandPop ==
  ASSUME TypeInv, HandInv, NEW k \in Tasks, Pop(k) PROVE HandInv'
<1> DEFINE r == Head(freelist)
<1>1. /\ freelist \in Seq(Slots) /\ freelist # <<>> /\ freelist' = Tail(freelist)
      /\ call' = [call EXCEPT ![k] = "popped"] /\ popped' = [popped EXCEPT ![k] = r]
      /\ call[k] = "new" /\ UNCHANGED <<func, slot, pc>>
  BY DEF Pop, TypeInv, threads
<1>2. /\ 1 \in DOMAIN freelist /\ freelist[1] = r /\ r \in Slots
      /\ \A i \in DOMAIN freelist' : /\ i + 1 \in DOMAIN freelist /\ i # 0
                                     /\ freelist'[i] = freelist[i + 1]
      /\ \A i \in DOMAIN freelist : i # 1 => i - 1 \in DOMAIN freelist' /\ (i - 1) + 1 = i
  BY <1>1
<1>3. \A i, j \in DOMAIN freelist' : freelist'[i] = freelist'[j] => i = j
  BY <1>1, <1>2 DEF HandInv
<1>4. \A s \in Slots : Listed(s)' <=> Listed(s) /\ s # r
  <2>1. ASSUME NEW s \in Slots, Listed(s)' PROVE Listed(s) /\ s # r
    <3>1. PICK i \in DOMAIN freelist' : freelist'[i] = s
      BY <2>1 DEF Listed
    <3>2. i + 1 \in DOMAIN freelist /\ freelist[i + 1] = s /\ i + 1 # 1
      BY <1>1, <1>2, <3>1
    <3>3. QED
      BY <1>2, <3>2 DEF HandInv, Listed
  <2>2. ASSUME NEW s \in Slots, Listed(s), s # r PROVE Listed(s)'
    BY <1>2, <2>2 DEF Listed
  <2>3. QED
    BY <2>1, <2>2
<1>5. \A s \in Slots : Held(s)' <=> Held(s) \/ s = r
  BY <1>1 DEF Held, TypeInv
<1>6. \A s \in Slots : Busy(s)' <=> Busy(s)
  BY <1>1 DEF Busy
<1>7. Listed(r)
  BY <1>2 DEF Listed
<1>8. ~Held(r)
  BY <1>2, <1>7 DEF HandInv
<1>9. \A i, j \in Tasks :
        call'[i] = "popped" /\ call'[j] = "popped" /\ popped'[i] = popped'[j] => i = j
  BY <1>1, <1>8 DEF HandInv, Held, TypeInv
<1>10. QED
  BY <1>1, <1>3, <1>4, <1>5, <1>6, <1>7, <1>9 DEF HandInv

\* A caller puts its task into its slot.
LEMMA HandFill ==
  ASSUME TypeInv, HandInv, NEW k \in Tasks, call[k] = "popped",
         func' = [func EXCEPT ![popped[k]] = k],
         call' = [call EXCEPT ![k] = call'[k]], call'[k] # "popped",
         UNCHANGED <<freelist, popped>>,
         \A s \in Slots : Busy(s)' <=> Busy(s)
  PROVE  HandInv'
<1> DEFINE r == popped[k]
<1>1. r \in Slots /\ Held(r) /\ k # None
  BY PoolAssumption DEF TypeInv, Held
<1>2. \A s \in Slots : Held(s)' <=> Held(s) /\ s # r
  <2>1. \A j \in Tasks : call'[j] = "popped" <=> call[j] = "popped" /\ j # k
    BY DEF TypeInv
  <2>2. \A j \in Tasks : call[j] = "popped" /\ popped[j] = r => j = k
    BY DEF HandInv
  <2>3. QED
    BY <2>1, <2>2 DEF Held
<1>3. \A s \in Slots : Listed(s)' <=> Listed(s)
  BY DEF Listed
<1>4. \A s \in Slots : func'[s] = None <=> func[s] = None /\ s # r
  BY <1>1 DEF TypeInv
<1>5. QED
  BY <1>1, <1>2, <1>3, <1>4 DEF HandInv, TypeInv

LEMMA HandRun ==
  TypeInv /\ HandInv /\ (Stop \/ \E k \in Tasks : Run(k)) => HandInv'
<1> SUFFICES ASSUME TypeInv, HandInv, Stop \/ \E k \in Tasks : Run(k)
             PROVE  HandInv'
  OBVIOUS
<1>1. CASE Stop
  BY <1>1 DEF Stop, slots, threads, calls, HandInv, Listed, Held, Busy
<1>2. ASSUME NEW k \in Tasks, Refuse(k) PROVE HandInv'
  <2>1. /\ call[k] = "new" /\ call' = [call EXCEPT ![k] = "refused"]
        /\ UNCHANGED <<freelist, func, slot, pc, popped>>
    BY <1>2 DEF Refuse, slots, threads
  <2>2. \A j \in Tasks : call'[j] = "popped" <=> call[j] = "popped"
    BY <2>1 DEF TypeInv
  <2>3. \A s \in Slots :
          (Listed(s)' <=> Listed(s)) /\ (Held(s)' <=> Held(s)) /\ (Busy(s)' <=> Busy(s))
    BY <2>1, <2>2 DEF Listed, Held, Busy
  <2>4. QED
    BY <2>1, <2>2, <2>3 DEF HandInv
<1>3. ASSUME NEW k \in Tasks, Assign(k) \/ CreateFails(k) PROVE HandInv'
  <2>1. /\ call[k] = "popped"
        /\ func' = [func EXCEPT ![popped[k]] = k]
        /\ call' = [call EXCEPT ![k] = call'[k]] /\ call'[k] # "popped"
        /\ UNCHANGED <<freelist, popped, slot, pc>>
    BY <1>3 DEF Assign, CreateFails, threads, TypeInv
  <2>2. \A s \in Slots : Busy(s)' <=> Busy(s)
    BY <2>1 DEF Busy
  <2>3. QED
    BY <2>1, <2>2, HandFill
<1>4. ASSUME NEW k \in Tasks, Create(k) PROVE HandInv'
  <2>1. PICK t \in Threads : CreateFor(k, t)
    BY <1>4, CreateStep
  <2>2. \A s \in Slots : Busy(s)' <=> Busy(s)
    BY <2>1 DEF CreateFor, Busy, HasTask, TypeInv
  <2>3. /\ call[k] = "popped"
        /\ func' = [func EXCEPT ![popped[k]] = k]
        /\ call' = [call EXCEPT ![k] = call'[k]] /\ call'[k] # "popped"
        /\ UNCHANGED <<freelist, popped>>
    BY <2>1 DEF CreateFor, TypeInv
  <2>4. QED
    BY <2>2, <2>3, HandFill
<1>5. QED
  BY <1>1, <1>2, <1>3, <1>4, HandPop DEF Run

\* A thread takes the task out of its slot, or puts its slot back into the list.
LEMMA HandThread ==
  ASSUME TypeInv, OwnerInv, HandInv, NEW t \in Threads, Thread(t) PROVE HandInv'
<1> DEFINE r == slot[t]
<1>1. /\ r \in Slots /\ UNCHANGED <<slot, call, popped>>
      /\ \A u \in Threads : u # t => pc'[u] = pc[u]
  BY Moves DEF TypeInv
<1>2. \A s \in Slots : Held(s)' <=> Held(s)
  BY <1>1 DEF Held
<1>3. CASE Take(t)
  <2>1. /\ pc'[t] \in HasTask /\ func[r] # None /\ func' = [func EXCEPT ![r] = None]
        /\ UNCHANGED freelist
    BY <1>3, Places DEF Take, HasTask
  <2>2. \A s \in Slots : Busy(s)' <=> Busy(s) \/ s = r
    BY <1>1, <1>3, <2>1, Places DEF Busy, HasTask
  <2>3. \A s \in Slots : Listed(s)' <=> Listed(s)
    BY <2>1 DEF Listed
  <2>4. \A s \in Slots : func'[s] = None <=> func[s] = None \/ s = r
    BY <1>1, <2>1 DEF TypeInv
  <2>5. QED
    BY <1>1, <1>2, <2>1, <2>2, <2>3, <2>4 DEF HandInv
<1>4. CASE Push(t)
  <2>1. /\ freelist \in Seq(Slots) /\ freelist' = <<r>> \o freelist
        /\ pc[t] = "push" /\ pc'[t] \notin HasTask /\ UNCHANGED func
    BY <1>4, Places DEF Push, HasTask, TypeInv
  <2>2. /\ 1 \in DOMAIN freelist' /\ freelist'[1] = r
        /\ \A i \in DOMAIN freelist' : i # 1 => /\ i - 1 \in DOMAIN freelist
                                               /\ freelist'[i] = freelist[i - 1]
                                               /\ i = (i - 1) + 1
        /\ \A i \in DOMAIN freelist : i + 1 \in DOMAIN freelist' /\ freelist'[i + 1] = freelist[i]
    BY <1>1, <2>1
  <2>3. \A s \in Slots : Listed(s)' <=> Listed(s) \/ s = r
    BY <2>2 DEF Listed
  <2>4. \A u \in Threads : pc[u] \in HasTask /\ slot[u] = r => u = t
    BY <2>1 DEF OwnerInv, HasTask, Owning, Serving, Counted
  <2>5. \A s \in Slots : Busy(s)' <=> Busy(s) /\ s # r
    BY <1>1, <2>1, <2>4 DEF Busy
  <2>6. Busy(r)
    BY <2>1 DEF Busy, HasTask
  <2>7. \A i, j \in DOMAIN freelist' : freelist'[i] = freelist'[j] => i = j
    BY <1>1, <2>2, <2>6 DEF HandInv, Listed
  <2>8. QED
    BY <1>1, <1>2, <2>1, <2>3, <2>5, <2>6, <2>7 DEF HandInv
<1>5. CASE ~Take(t) /\ ~Push(t)
  <2>1. UNCHANGED <<freelist, func>> /\ (pc'[t] \in HasTask <=> pc[t] \in HasTask)
    BY <1>5, Places, Frame DEF Thread, HasTask
  <2>2. \A s \in Slots : (Busy(s)' <=> Busy(s)) /\ (Listed(s)' <=> Listed(s))
    BY <1>1, <2>1 DEF Busy, Listed
  <2>3. QED
    BY <1>1, <1>2, <2>1, <2>2 DEF HandInv
<1>6. QED
  BY <1>3, <1>4, <1>5

-----------------------------------------------------------------------------
(* Tasks *)

LEMMA TaskInit == Init => TaskInv
BY DEF Init, TaskInv

LEMMA TaskRun ==
  TypeInv /\ OwnerInv /\ HandInv /\ TaskInv /\ (Stop \/ \E k \in Tasks : Run(k)) => TaskInv'
<1> SUFFICES ASSUME TypeInv, OwnerInv, HandInv, TaskInv, Stop \/ \E k \in Tasks : Run(k)
             PROVE  TaskInv'
  OBVIOUS
<1>1. CASE Stop
  BY <1>1 DEF Stop, slots, threads, calls, TaskInv
<1>2. ASSUME NEW k \in Tasks, Pop(k) \/ Refuse(k) PROVE TaskInv'
  <2>1. /\ call[k] = "new" /\ call' = [call EXCEPT ![k] = call'[k]]
        /\ \A j \in Tasks : j # k => popped'[j] = popped[j]
        /\ UNCHANGED <<func, slot, pc, callback, ended>>
    BY <1>2 DEF Pop, Refuse, slots, threads, TypeInv
  <2>2. /\ \A s \in Slots : func[s] # k
        /\ \A t \in Threads : callback[t] # k
        /\ k \notin ended
    BY <2>1, PoolAssumption DEF TaskInv, TypeInv
  <2>3. QED
    BY <2>1, <2>2 DEF TaskInv, TypeInv
<1>3. ASSUME NEW k \in Tasks, Assign(k) \/ Create(k) \/ CreateFails(k) PROVE TaskInv'
  <2> DEFINE r == popped[k]
  <2>1. /\ call[k] = "popped" /\ r \in Slots
        /\ func' = [func EXCEPT ![r] = k]
        /\ call' = [call EXCEPT ![k] = call'[k]]
        /\ UNCHANGED <<callback, popped, ended>>
    <3>1. CASE Create(k)
      BY <3>1, CreateStep DEF CreateFor, TypeInv
    <3>2. CASE Assign(k) \/ CreateFails(k)
      BY <3>2 DEF Assign, CreateFails, threads, TypeInv
    <3>3. QED
      BY <1>3, <3>1, <3>2
  <2>2. /\ \A s \in Slots : func[s] # k
        /\ \A t \in Threads : callback[t] # k
        /\ k \notin ended
    BY <2>1, PoolAssumption DEF TaskInv, TypeInv
  <2>3. \A s \in Slots, t \in Threads :
          s # r /\ pc'[t] \in Owning /\ slot'[t] = s => pc[t] \in Owning /\ slot[t] = s
    <3>1. CASE Create(k)
      BY <3>1, CreateStep DEF CreateFor, TypeInv
    <3>2. CASE Assign(k) \/ CreateFails(k)
      BY <3>2 DEF Assign, CreateFails, threads
    <3>3. QED
      BY <1>3, <3>1, <3>2
  <2>4. \A t \in Threads : callback[t] # None => slot'[t] = slot[t]
    <3>1. CASE Create(k)
      BY <3>1, CreateStep DEF CreateFor, TypeInv
    <3>2. CASE Assign(k) \/ CreateFails(k)
      BY <3>2 DEF Assign, CreateFails, threads
    <3>3. QED
      BY <1>3, <3>1, <3>2
  <2>5. \/ call'[k] = "ok"
        \/ call'[k] = "failed" /\ \A t \in Threads : pc'[t] \in Owning => slot'[t] # r
    <3>1. CASE Create(k)
      BY <3>1, CreateStep DEF CreateFor, TypeInv
    <3>2. CASE Assign(k)
      BY <3>2 DEF Assign, TypeInv
    <3>3. CASE CreateFails(k)
      <4>1. func[r] = None
        BY <2>1 DEF HandInv, Held
      <4>2. \A t \in Threads : pc[t] \in Owning => slot[t] # r
        BY <3>3, <4>1 DEF CreateFails, OwnerInv
      <4>3. QED
        BY <3>3, <4>2 DEF CreateFails, threads, TypeInv
    <3>4. QED
      BY <1>3, <3>1, <3>2, <3>3
  <2>6. ASSUME NEW s \in Slots, func'[s] # None
        PROVE  /\ popped'[func'[s]] = s
               /\ func'[s] \notin ended'
               /\ \/ call'[func'[s]] = "ok"
                  \/ /\ call'[func'[s]] = "failed"
                     /\ \A t \in Threads : pc'[t] \in Owning => slot'[t] # s
    <3>1. CASE s = r
      BY <2>1, <2>2, <2>5, <3>1 DEF TypeInv
    <3>2. CASE s # r
      <4>1. func'[s] = func[s] /\ func[s] \in Tasks /\ func[s] # k
        BY <2>1, <2>2, <2>6, <3>2 DEF TypeInv
      <4>2. call'[func[s]] = call[func[s]]
        BY <2>1, <4>1 DEF TypeInv
      <4>3. QED
        BY <2>1, <2>3, <2>6, <3>2, <4>1, <4>2 DEF TaskInv
    <3>3. QED
      BY <3>1, <3>2
  <2>7. ASSUME NEW t \in Threads, callback'[t] # None
        PROVE  /\ popped'[callback'[t]] = slot'[t]
               /\ call'[callback'[t]] = "ok"
               /\ callback'[t] \notin ended'
    BY <2>1, <2>2, <2>4, <2>7 DEF TaskInv, TypeInv
  <2>8. \A j \in ended' : call'[j] = "ok"
    BY <2>1, <2>2 DEF TaskInv, TypeInv
  <2>9. QED
    BY <2>6, <2>7, <2>8 DEF TaskInv
<1>4. QED
  BY <1>1, <1>2, <1>3 DEF Run

LEMMA TaskThread ==
  ASSUME TypeInv, OwnerInv, HandInv, TaskInv, NEW t \in Threads, Thread(t) PROVE TaskInv'
<1> DEFINE r == slot[t]
<1>1. /\ r \in Slots /\ UNCHANGED <<slot, call, popped>>
      /\ \A u \in Threads : pc'[u] \in Owning => pc[u] \in Owning
  <2>1. pc'[t] \in Owning => pc[t] \in Owning
    BY Places DEF Thread, Owning, Serving, Starting, Counted, Leaving
  <2>2. QED
    BY <2>1, Moves DEF TypeInv
<1>2. CASE Take(t)
  <2>1. /\ func[r] # None /\ func' = [func EXCEPT ![r] = None]
        /\ callback' = [callback EXCEPT ![t] = func[r]] /\ UNCHANGED ended
        /\ pc[t] \in Owning
    BY <1>2, Places DEF Take, calls, Owning, Serving, Counted
  <2>2. /\ popped[func[r]] = r /\ call[func[r]] = "ok" /\ func[r] \notin ended
    BY <1>1, <2>1 DEF TaskInv
  <2>3. QED
    BY <1>1, <2>1, <2>2 DEF TaskInv, TypeInv
<1>3. CASE EndTask(t)
  <2> DEFINE k == callback[t]
  <2>1. /\ k \in Tasks /\ k # None /\ pc[t] = "call" /\ UNCHANGED func
        /\ callback' = [callback EXCEPT ![t] = None] /\ ended' = ended \cup {k}
    BY <1>3, Places, PoolAssumption DEF EndTask, slots, TypeInv
  <2>2. popped[k] = r /\ call[k] = "ok"
    BY <2>1 DEF TaskInv
  <2>3. func[r] = None
    BY <1>1, <2>1 DEF HandInv, Busy, HasTask
  <2>4. \A s \in Slots : func[s] # k
    BY <2>1, <2>2, <2>3 DEF TaskInv
  <2>5. ASSUME NEW u \in Threads, u # t PROVE callback[u] # k
    <3>1. SUFFICES ASSUME callback[u] = k PROVE FALSE
      OBVIOUS
    <3>2. slot[u] = r /\ pc[u] \in {"deal", "call"}
      BY <2>1, <2>2, <3>1 DEF TaskInv, TypeInv
    <3>3. QED
      BY <2>1, <2>5, <3>2 DEF OwnerInv, Owning, Serving, Counted
  <2>6. QED
    BY <1>1, <2>1, <2>2, <2>4, <2>5 DEF TaskInv, TypeInv
<1>4. CASE ~Take(t) /\ ~EndTask(t)
  <2>1. UNCHANGED <<func, callback, ended>>
    BY <1>4, Frame
  <2>2. QED
    BY <1>1, <2>1 DEF TaskInv
<1>5. QED
  BY <1>2, <1>3, <1>4

-----------------------------------------------------------------------------
(* Data *)

LEMMA DataInit == Init => DataInv
<1> SUFFICES ASSUME Init PROVE DataInv
  OBVIOUS
<1>1. \A t \in Threads \ Unused : slot[t] = t /\ pc[t] = "start"
  BY DEF Init, Unused
<1>2. \A t \in Threads : pc[t] \notin Intact
  BY DEF Init, Intact, HasData, Owning, Serving, Starting, Counted, Leaving
<1>3. \A s \in Slots : tdata[s] = None
  BY DEF Init
<1>4. QED
  BY <1>1, <1>2, <1>3 DEF DataInv

LEMMA DataRun ==
  TypeInv /\ DataInv /\ (Stop \/ \E k \in Tasks : Run(k)) => DataInv'
<1> SUFFICES ASSUME TypeInv, DataInv, Stop \/ \E k \in Tasks : Run(k)
             PROVE  DataInv'
  OBVIOUS
<1>1. CASE Stop \/ \E k \in Tasks : Pop(k) \/ Refuse(k) \/ Assign(k) \/ CreateFails(k)
  <2>1. UNCHANGED <<slot, pc, tdata, live, shared>>
    BY <1>1 DEF Stop, Pop, Refuse, Assign, CreateFails, slots, threads
  <2>2. QED
    BY <2>1 DEF DataInv, Unused
<1>2. ASSUME NEW k \in Tasks, Create(k) PROVE DataInv'
  <2>1. PICK t \in Threads : CreateFor(k, t)
    BY <1>2, CreateStep
  <2>2. /\ \A u \in Threads : u # t => pc'[u] = pc[u] /\ slot'[u] = slot[u]
        /\ pc'[t] = "start" /\ slot'[t] = popped[k] /\ t \in Unused
        /\ shared \subseteq shared' /\ (Present(popped[k]) => popped[k] \in shared')
        /\ UNCHANGED <<tdata, live>>
    BY <2>1 DEF CreateFor, Unused, TypeInv
  <2>3. \A u \in Threads \ Unused : slot[u] = popped[k] => popped[k] \in shared'
    BY <2>2 DEF Present
  <2>4. /\ "start" \notin Intact
        /\ \A u \in Unused : pc[u] \notin HasData
    BY DEF Intact, HasData, Unused, Owning, Serving, Starting, Counted, Leaving
  <2>5. \A s \in Slots : tdata[s] # t
    BY <2>2, <2>4, PoolAssumption DEF DataInv, Unused
  <2>6. \A u \in Threads : u # t => (u \in Unused' <=> u \in Unused)
    BY <2>2 DEF Unused
  <2>7. QED
    BY <2>2, <2>3, <2>4, <2>5, <2>6 DEF DataInv, TypeInv
<1>3. QED
  BY <1>1, <1>2 DEF Run

LEMMA DataThread ==
  ASSUME TypeInv, DataInv, NEW t \in Threads, Thread(t) PROVE DataInv'
<1> DEFINE r == slot[t]
<1> USE DEF TypeInv
<1>1. /\ r \in Slots /\ t # None /\ UNCHANGED <<slot, shared>>
      /\ \A u \in Threads : u # t => pc'[u] = pc[u]
  BY Moves, PoolAssumption
<1>2. t \notin Unused
  BY Places DEF Thread, Unused
<1>3. Unused \subseteq Unused'
  BY <1>1, <1>2 DEF Unused
<1>4. \A u, v \in Threads \ Unused' :
        slot'[u] = slot'[v] /\ slot'[u] \notin shared' => u = v
  BY <1>1, <1>3 DEF DataInv
<1>5. \A u \in Threads : u # t /\ pc[u] \in Intact /\ slot[u] \notin shared => slot[u] # r
  <2>1. \A u \in Threads : pc[u] \in Intact => u \notin Unused
    BY DEF Unused, Intact, HasData, Owning, Serving, Starting, Counted, Leaving
  <2>2. QED
    BY <1>2, <2>1 DEF DataInv
<1>6. CASE Alloc(t)
  <2>1. tdata' = [tdata EXCEPT ![r] = t] /\ live' = live \cup {t} /\ pc[t] = "start" /\ pc'[t] = "init"
    BY <1>6, Places DEF Alloc
  <2>2. "init" \in HasData /\ "start" \notin HasData
    BY DEF HasData, Owning, Serving, Starting, Leaving, Counted
  <2>3. \A u \in Threads :
          pc'[u] \in Intact /\ slot'[u] \notin shared' => tdata'[slot'[u]] = u /\ u \in live'
    BY <1>1, <1>5, <2>1 DEF DataInv
  <2>4. \A s \in Slots : tdata'[s] # None => slot'[tdata'[s]] = s /\ pc'[tdata'[s]] \in HasData
    BY <1>1, <2>1, <2>2 DEF DataInv
  <2>5. QED
    BY <1>4, <2>3, <2>4 DEF DataInv
<1>7. CASE Free(t, "free", "unset") \/ Free(t, "end", "end_unset")
  <2>1. /\ live' = live \ {tdata[r]} /\ UNCHANGED tdata
        /\ pc[t] \in HasData /\ pc'[t] \in HasData \ Intact
    <3>1. live' = live \ {tdata[r]} /\ UNCHANGED tdata
      BY <1>7, Zenon DEF Free, slots
    <3>2. \/ pc[t] = "free" /\ pc'[t] = "unset"
          \/ pc[t] = "end" /\ pc'[t] = "end_unset"
      BY <1>7, Places, Zenon
    <3>3. QED
      BY <3>1, <3>2 DEF HasData, Intact, Owning, Serving, Starting, Counted, Leaving
  <2>2. \A u \in Threads : u # t /\ slot[u] # r => tdata[r] # u
    BY <1>1, PoolAssumption DEF DataInv
  <2>3. \A u \in Threads :
          pc'[u] \in Intact /\ slot'[u] \notin shared' => tdata'[slot'[u]] = u /\ u \in live'
    BY <1>1, <1>5, <2>1, <2>2 DEF DataInv
  <2>4. \A s \in Slots : tdata'[s] # None => slot'[tdata'[s]] = s /\ pc'[tdata'[s]] \in HasData
    BY <1>1, <2>1 DEF DataInv
  <2>5. QED
    BY <1>4, <2>3, <2>4 DEF DataInv
<1>8. CASE Unset(t, "unset", "done") \/ Unset(t, "end_unset", "uninit")
  <2>1. tdata' = [tdata EXCEPT ![r] = None] /\ UNCHANGED live /\ pc'[t] \notin Intact
    <3>1. tdata' = [tdata EXCEPT ![r] = None] /\ UNCHANGED live
      BY <1>8, Zenon DEF Unset
    <3>2. pc'[t] \in {"done", "uninit"}
      BY <1>8, Places
    <3>3. QED
      BY <3>1, <3>2 DEF HasData, Intact, Owning, Serving, Starting, Counted, Leaving
  <2>2. QED
    BY <1>1, <1>4, <1>5, <2>1 DEF DataInv
<1>9. CASE /\ ~Alloc(t)
           /\ ~Free(t, "free", "unset") /\ ~Free(t, "end", "end_unset")
           /\ ~Unset(t, "unset", "done") /\ ~Unset(t, "end_unset", "uninit")
  <2>1. /\ pc[t] \in HasData => pc'[t] \in HasData
        /\ pc'[t] \in Intact => pc[t] \in Intact
    BY <1>9, Places DEF Thread, HasData, Intact, Owning, Serving, Starting, Counted, Leaving
  <2>2. UNCHANGED <<tdata, live>>
    BY <1>9, Frame, Zenon
  <2>3. QED
    BY <1>1, <1>4, <2>1, <2>2 DEF DataInv
<1>10. QED
  BY <1>6, <1>7, <1>8, <1>9

-----------------------------------------------------------------------------
(* Counts *)

Within(L) == {t \in Threads : pc[t] \in L}
Working == Counted \cup {"end", "end_unset", "uninit", "uncount"}

LEMMA WithinFinite ==
  ASSUME NEW L PROVE IsFiniteSet(Within(L)) /\ Cardinality(Within(L)) \in Nat
BY PoolAssumption, FS_Subset, FS_CardinalityType DEF Within

\* A thread that moves changes a number by one at most.
Changes(L, t) ==
  /\ Cardinality(Within(L)) \in Nat /\ Cardinality(Within(L)') \in Nat
  /\ Cardinality(Within(L)') =
       Cardinality(Within(L)) + (IF pc'[t] \in L THEN 1 ELSE 0) - (IF pc[t] \in L THEN 1 ELSE 0)

LEMMA WithinMove ==
  ASSUME NEW L, NEW t \in Threads, \A u \in Threads : u # t => pc'[u] = pc[u]
  PROVE  Changes(L, t)
<1> USE DEF Changes
<1>1. /\ IsFiniteSet(Within(L)) /\ Cardinality(Within(L)) \in Nat
      /\ Cardinality(Within(L)') \in Nat
  BY PoolAssumption, WithinFinite, FS_Subset, FS_CardinalityType DEF Within
<1>2. CASE pc[t] \in L /\ pc'[t] \notin L
  <2>1. Within(L)' = Within(L) \ {t} /\ t \in Within(L)
    BY <1>2 DEF Within
  <2>2. Cardinality(Within(L) \ {t}) = Cardinality(Within(L)) - 1
    BY <1>1, <2>1, FS_RemoveElement
  <2>3. QED
    BY <1>1, <1>2, <2>1, <2>2
<1>3. CASE pc[t] \notin L /\ pc'[t] \in L
  <2>1. Within(L)' = Within(L) \cup {t} /\ t \notin Within(L)
    BY <1>3 DEF Within
  <2>2. Cardinality(Within(L) \cup {t}) = Cardinality(Within(L)) + 1
    BY <1>1, <2>1, FS_AddElement
  <2>3. QED
    BY <1>1, <1>3, <2>1, <2>2
<1>4. CASE pc[t] \in L <=> pc'[t] \in L
  <2>1. Within(L)' = Within(L)
    BY <1>4 DEF Within
  <2>2. QED
    BY <1>1, <1>4, <2>1
<1>5. QED
  BY <1>2, <1>3, <1>4

LEMMA CountsAre ==
  /\ CountsRight <=> /\ running = Cardinality(Within(Working))
                     /\ dealing = Cardinality(Within({"call", "undeal"}))
                     /\ continue_flag => Cardinality(Within(Serving)) >= MinIdle
  /\ CountsRight' <=> /\ running' = Cardinality(Within(Working)')
                      /\ dealing' = Cardinality(Within({"call", "undeal"})')
                      /\ continue_flag' => Cardinality(Within(Serving)') >= MinIdle
BY DEF CountsRight, Within, Working

LEMMA CountInit == Init => CountsRight
<1> SUFFICES ASSUME Init PROVE CountsRight
  OBVIOUS
<1>1. Within(Working) = {} /\ Within({"call", "undeal"}) = {}
  BY DEF Init, Within, Working, Counted
<1>2. 1..MinIdle \subseteq Within(Serving)
  BY PoolAssumption DEF Init, Within, Serving, Starting
<1>3. Cardinality(1..MinIdle) = MinIdle
  BY PoolAssumption, FS_Interval DEF Slots
<1>4. Cardinality(Within(Serving)) >= MinIdle
  BY <1>2, <1>3, WithinFinite, FS_Subset
<1>5. QED
  BY <1>1, <1>4, CountsAre, FS_EmptySet DEF Init

LEMMA CountRun ==
  TypeInv /\ CountsRight /\ (Stop \/ \E k \in Tasks : Run(k)) => CountsRight'
<1> SUFFICES ASSUME TypeInv, CountsRight, Stop \/ \E k \in Tasks : Run(k)
             PROVE  CountsRight'
  OBVIOUS
<1>1. CASE Stop \/ \E k \in Tasks : Pop(k) \/ Refuse(k) \/ Assign(k) \/ CreateFails(k)
  <2>1. UNCHANGED <<pc, running, dealing>> /\ (continue_flag' => continue_flag)
    BY <1>1 DEF Stop, Pop, Refuse, Assign, CreateFails, threads, counts
  <2>2. QED
    BY <2>1 DEF CountsRight
<1>2. ASSUME NEW k \in Tasks, Create(k) PROVE CountsRight'
  <2>1. PICK t \in Threads : CreateFor(k, t)
    BY <1>2, CreateStep
  <2>2. /\ pc[t] \in {"none", "done"} /\ pc'[t] = "start"
        /\ \A u \in Threads : u # t => pc'[u] = pc[u]
        /\ UNCHANGED <<continue_flag, running, dealing>>
    BY <2>1 DEF CreateFor, TypeInv
  <2>3. /\ pc[t] \notin Working /\ pc'[t] \notin Working
        /\ pc[t] \notin Serving /\ pc'[t] \in Serving
        /\ pc[t] \notin {"call", "undeal"} /\ pc'[t] \notin {"call", "undeal"}
    BY <2>2 DEF Working, Serving, Starting, Counted
  <2> Changes(Working, t) /\ Changes({"call", "undeal"}, t) /\ Changes(Serving, t)
    BY <2>2, WithinMove
  <2>4. Cardinality(Within(Working)') = Cardinality(Within(Working))
    BY <2>3 DEF Changes
  <2>5. Cardinality(Within({"call", "undeal"})') = Cardinality(Within({"call", "undeal"}))
    BY <2>3 DEF Changes
  <2>6. Cardinality(Within(Serving)') >= Cardinality(Within(Serving))
    BY <2>3 DEF Changes
  <2>7. continue_flag => Cardinality(Within(Serving)') >= MinIdle
    BY <2>6, CountsAre, PoolAssumption DEF Changes
  <2>8. QED
    BY <2>2, <2>4, <2>5, <2>7, CountsAre
<1>3. QED
  BY <1>1, <1>2 DEF Run

LEMMA CountThread ==
  ASSUME TypeInv, OwnerInv, CountsRight, NEW t \in Threads, Thread(t) PROVE CountsRight'
<1>1. UNCHANGED continue_flag /\ \A u \in Threads : u # t => pc'[u] = pc[u]
  BY Moves
<1> Changes(Working, t) /\ Changes({"call", "undeal"}, t) /\ Changes(Serving, t)
  BY <1>1, WithinMove
<1>2. running' = Cardinality(Within(Working)')
  <2>1. CASE CountIn(t)
    BY <2>1, Places, CountsAre DEF Changes, CountIn, Working, Counted
  <2>2. CASE IdleOut(t)
    <3>1. running' = running - 1 /\ pc[t] \in Working /\ pc'[t] \notin Working
      BY <2>2, Places DEF IdleOut, Working, Counted
    <3>2. QED
      BY <3>1, CountsAre DEF Changes
  <2>3. CASE Uncount(t)
    BY <2>3, Places, CountsAre DEF Changes, Uncount, Working, Counted
  <2>4. CASE ~CountIn(t) /\ ~IdleOut(t) /\ ~Uncount(t)
    <3>1. UNCHANGED running /\ (pc'[t] \in Working <=> pc[t] \in Working)
      BY <2>4, Frame, Places DEF Thread, Working, Counted
    <3>2. QED
      BY <3>1, CountsAre DEF Changes
  <2>5. QED
    BY <2>1, <2>2, <2>3, <2>4
<1>3. dealing' = Cardinality(Within({"call", "undeal"})')
  <2>1. CASE CountDeal(t)
    BY <2>1, Places, CountsAre DEF Changes, CountDeal
  <2>2. CASE Undeal(t)
    BY <2>2, Places, CountsAre DEF Changes, Undeal
  <2>3. CASE ~CountDeal(t) /\ ~Undeal(t)
    <3>1. UNCHANGED dealing /\ (pc'[t] \in {"call", "undeal"} <=> pc[t] \in {"call", "undeal"})
      BY <2>3, Frame, Places DEF Thread
    <3>2. QED
      BY <3>1, CountsAre DEF Changes
  <2>4. QED
    BY <2>1, <2>2, <2>3
<1>4. ASSUME continue_flag PROVE Cardinality(Within(Serving)') >= MinIdle
  <2>1. CASE IdleOut(t)
    <3>1. Within(Working) \subseteq Within(Serving)
      BY <1>4 DEF Within, Working, Serving, Leaving, OwnerInv
    <3>2. running - dealing > MinIdle /\ dealing \in Nat /\ MinIdle \in Nat
      BY <2>1, CountsAre, WithinFinite, PoolAssumption DEF IdleOut
    <3>3. Cardinality(Within(Serving)) >= running /\ running \in Nat
      BY <3>1, CountsAre, WithinFinite, FS_Subset
    <3>4. Cardinality(Within(Serving)') = Cardinality(Within(Serving)) - 1
      BY <2>1, Places DEF Changes, Serving, Starting, Counted
    <3>5. QED
      BY <3>2, <3>3, <3>4, WithinFinite
  <2>2. CASE ~IdleOut(t)
    <3>1. pc[t] \in Serving => pc'[t] \in Serving
      BY <1>4, <2>2, Places DEF Thread, Serving, Starting, Counted
    <3>2. Cardinality(Within(Serving)') >= Cardinality(Within(Serving))
      BY <3>1 DEF Changes
    <3>3. QED
      BY <1>4, <3>2, CountsAre, PoolAssumption DEF Changes
  <2>3. QED
    BY <2>1, <2>2
<1>5. QED
  BY <1>1, <1>2, <1>3, <1>4, CountsAre

-----------------------------------------------------------------------------
(* What follows from the invariant *)

LEMMA PoolStarts == Init => PoolInv
BY TypeInit, OwnerInit, HandInit, TaskInit, DataInit, CountInit DEF PoolInv

LEMMA PoolNext == PoolInv /\ [Next]_vars => PoolInv'
<1> SUFFICES ASSUME PoolInv, [Next]_vars PROVE PoolInv'
  OBVIOUS
<1>1. CASE UNCHANGED vars
  BY <1>1 DEF vars, slots, threads, counts, calls, PoolInv, TypeInv, OwnerInv, HandInv, Listed, Held,
              Busy, TaskInv, DataInv, Unused, CountsRight
<1>2. CASE Stop \/ \E k \in Tasks : Run(k)
  BY <1>2, TypeRun, OwnerRun, HandRun, TaskRun, DataRun, CountRun DEF PoolInv
<1>3. CASE \E t \in Threads : Thread(t)
  BY <1>3, TypeThread, OwnerThread, HandThread, TaskThread, DataThread, CountThread DEF PoolInv
<1>4. QED
  BY <1>1, <1>2, <1>3 DEF Next

\* running and dealing count the threads they claim to count, and a thread that
\* idles leaves min_idle_count of them behind (thread_pool.c, l.56-98).
THEOREM CountsRightCorrect == Spec => []CountsRight
<1>1. PoolInv => CountsRight
  BY DEF PoolInv
<1>2. QED
  BY PoolStarts, PoolNext, <1>1, PTL DEF Spec

\* A callback gets the data of its own thread, and it is still allocated, for
\* slots that never had a new thread before the old one had left.
THEOREM DataIsOwnCorrect == Spec => []DataIsOwn
<1>1. PoolInv => DataIsOwn
  BY DEF PoolInv, DataInv, DataIsOwn, Intact, HasData, Owning, Serving, Counted
<1>2. QED
  BY PoolStarts, PoolNext, <1>1, PTL DEF Spec

LEMMA OneAtMost ==
  ASSUME NEW S, \A x, y \in S : x = y
  PROVE  Cardinality(S) = IF S = {} THEN 0 ELSE 1
<1>1. CASE S = {}
  BY <1>1, FS_EmptySet
<1>2. ASSUME NEW x \in S PROVE S = {x} /\ Cardinality({x}) = 1
  BY FS_Singleton
<1>3. QED
  BY <1>1, <1>2

\* A slot is in one hand, and has one thread at most, and has one if it says so.
THEOREM SlotInOneHandCorrect == Spec => []SlotInOneHand
<1>1. ASSUME PoolInv, NEW s \in Slots
      PROVE  LET servers == {t \in Threads : pc[t] \in Serving /\ slot[t] = s}
                 hands == Cardinality({k \in Tasks : call[k] = "popped" /\ popped[k] = s})
                        + Cardinality({i \in DOMAIN freelist : freelist[i] = s})
                        + Cardinality({t \in servers : pc[t] \in HasTask})
             IN  /\ Cardinality(servers) <= 1
                 /\ hands = IF func[s] = None THEN 1 ELSE 0
                 /\ continue_flag /\ inited[s] => servers # {}
  <2> DEFINE servers == {t \in Threads : pc[t] \in Serving /\ slot[t] = s}
             callers == {k \in Tasks : call[k] = "popped" /\ popped[k] = s}
             places == {i \in DOMAIN freelist : freelist[i] = s}
             busy == {t \in servers : pc[t] \in HasTask}
  <2>1. \A t, u \in servers : t = u
    BY <1>1 DEF PoolInv, OwnerInv, Owning
  <2>2. Cardinality(servers) <= 1
    BY <2>1, OneAtMost
  <2>3. Cardinality(callers) = IF Held(s) THEN 1 ELSE 0
    <3>1. \A j, k \in callers : j = k
      BY <1>1 DEF PoolInv, HandInv
    <3>2. Held(s) <=> callers # {}
      BY DEF Held
    <3>3. QED
      BY <3>1, <3>2, OneAtMost
  <2>4. Cardinality(places) = IF Listed(s) THEN 1 ELSE 0
    <3>1. \A i, j \in places : i = j
      BY <1>1 DEF PoolInv, HandInv
    <3>2. Listed(s) <=> places # {}
      BY DEF Listed
    <3>3. QED
      BY <3>1, <3>2, OneAtMost
  <2>5. Cardinality(busy) = IF Busy(s) THEN 1 ELSE 0
    <3>1. \A t, u \in busy : t = u
      BY <2>1
    <3>2. Busy(s) <=> busy # {}
      BY DEF Busy, HasTask, Serving, Counted
    <3>3. QED
      BY <3>1, <3>2, OneAtMost
  <2>6. Cardinality(callers) + Cardinality(places) + Cardinality(busy)
          = IF func[s] = None THEN 1 ELSE 0
    BY <1>1, <2>3, <2>4, <2>5 DEF PoolInv, HandInv
  <2>7. continue_flag /\ inited[s] => servers # {}
    BY <1>1 DEF PoolInv, OwnerInv, Owning
  <2>8. QED
    BY <2>2, <2>6, <2>7
<1>2. PoolInv => SlotInOneHand
  BY <1>1 DEF SlotInOneHand
<1>3. QED
  BY PoolStarts, PoolNext, <1>2, PTL DEF Spec

-----------------------------------------------------------------------------
(* ThreadPool implements TaskPool *)

Called(k) == \E t \in Threads : pc[t] = "call" /\ callback[t] = k

\* A step that neither calls nor ends a task, nor answers its caller, is a
\* stutter of its state.
LEMMA Same ==
  ASSUME NEW k \in Tasks, Called(k)' <=> Called(k), k \in ended' <=> k \in ended,
         call'[k] = call[k] \/ (call[k] = "new" /\ call'[k] = "popped")
  PROVE  TaskState(k)' = TaskState(k)
<1>1. CASE Called(k) \/ k \in ended
  BY <1>1, Zenon DEF TaskState, Called
<1>2. CASE ~Called(k) /\ k \notin ended
  BY <1>2 DEF TaskState, Called
<1>3. QED
  BY <1>1, <1>2

\* What has become of one task moves, and of the others stays.
LEMMA Moved ==
  ASSUME NEW k \in Tasks, NEW from, NEW to, TaskState(k) = from, TaskState(k)' = to,
         \A j \in Tasks : j # k => TaskState(j)' = TaskState(j)
  PROVE  Pool!Move(k, from, to)
<1> DEFINE Map == [j \in Tasks |-> TaskState(j)]
<1>1. Map[k] = from
  OBVIOUS
<1>2. Map' = [j \in Tasks |-> TaskState(j)']
  OBVIOUS
<1>3. Map' = [Map EXCEPT ![k] = to]
  BY <1>2
<1>4. QED
  BY <1>1, <1>3 DEF Pool!Move

LEMMA Unmoved ==
  ASSUME \A j \in Tasks : TaskState(j)' = TaskState(j)
  PROVE  UNCHANGED [j \in Tasks |-> TaskState(j)]
OBVIOUS

\* A task is in the hands of one thread.
LEMMA OneThread ==
  ASSUME PoolInv, NEW t \in Threads, NEW u \in Threads, callback[t] # None, callback[t] = callback[u]
  PROVE  t = u
BY DEF PoolInv, TypeInv, TaskInv, OwnerInv, Owning, Serving, Counted

LEMMA RunMoves ==
  ASSUME PoolInv, NEW k \in Tasks, Run(k)
  PROVE  \/ Pool!Move(k, "new", "accepted")
         \/ Pool!Move(k, "new", "rejected")
         \/ UNCHANGED [j \in Tasks |-> TaskState(j)]
<1>1. /\ \A j \in Tasks : j # k => call'[j] = call[j]
      /\ call[k] \in {"new", "popped"}
      /\ \/ call[k] = "new" /\ call'[k] = "popped"
         \/ call'[k] \in {"ok", "refused", "failed"}
      /\ UNCHANGED <<callback, ended>>
      /\ \A t \in Threads : pc'[t] = "call" <=> pc[t] = "call"
  <2>1. CASE Create(k)
    BY <2>1, CreateStep DEF CreateFor, PoolInv, TypeInv
  <2>2. CASE Pop(k) \/ Refuse(k)
    BY <2>2 DEF Pop, Refuse, threads, PoolInv, TypeInv
  <2>3. CASE Assign(k) \/ CreateFails(k)
    BY <2>3 DEF Assign, CreateFails, threads, PoolInv, TypeInv
  <2>4. QED
    BY <2>1, <2>2, <2>3 DEF Run
<1>2. \A j \in Tasks : Called(j)' <=> Called(j)
  BY <1>1 DEF Called
<1>3. \A j \in Tasks : j # k => TaskState(j)' = TaskState(j)
  BY <1>1, <1>2, Same
<1>4. ~Called(k) /\ k \notin ended
  BY <1>1, PoolAssumption DEF PoolInv, TaskInv, Called
<1>5. TaskState(k) = "new"
  BY <1>1, <1>4 DEF TaskState, Called
<1>6. CASE call'[k] = "popped"
  BY <1>1, <1>2, <1>3, <1>6, Same, Unmoved
<1>7. CASE call'[k] \in {"ok", "refused", "failed"}
  <2>1. ~Called(k)' /\ k \notin ended'
    BY <1>1, <1>2, <1>4
  <2>2. TaskState(k)' \in {"accepted", "rejected"}
    BY <1>7, <2>1 DEF TaskState, Called
  <2>3. QED
    BY <1>3, <1>5, <2>2, Moved
<1>8. QED
  BY <1>1, <1>6, <1>7

\* Tasks that are under way have slots of their own.
LEMMA Room ==
  ASSUME PoolInv, NEW t \in Threads, pc[t] = "deal"
  PROVE  Cardinality({j \in Tasks : TaskState(j) = "started"}) < Limit
<1> DEFINE S == {j \in Tasks : TaskState(j) = "started"}
           T == Slots \ {slot[t]}
           f == [j \in S |-> popped[j]]
<1>1. \A j \in S : Called(j)
  BY DEF TaskState, Called
<1>2. ASSUME NEW j \in S
      PROVE  popped[j] \in T /\ \E u \in Threads :
               pc[u] = "call" /\ callback[u] = j /\ slot[u] = popped[j]
  <2>1. PICK u \in Threads : pc[u] = "call" /\ callback[u] = j
    BY <1>1 DEF Called
  <2>2. slot[u] = popped[j] /\ popped[j] \in Slots
    BY <2>1, PoolAssumption DEF PoolInv, TaskInv, TypeInv
  <2>3. slot[u] # slot[t]
    BY <2>1 DEF PoolInv, OwnerInv, Owning, Serving, Counted
  <2>4. QED
    BY <2>1, <2>2, <2>3
<1>3. \A i, j \in S : popped[i] = popped[j] => i = j
  BY <1>2 DEF PoolInv, OwnerInv, Owning, Serving, Counted
<1>4. f \in Injection(S, T)
  BY <1>2, <1>3 DEF Injection, IsInjective
<1>5. IsFiniteSet(Slots) /\ Cardinality(Slots) = Limit
  BY PoolAssumption, FS_Interval DEF Slots
<1>6. IsFiniteSet(T) /\ Cardinality(T) = Limit - 1
  BY <1>5, FS_RemoveElement DEF PoolInv, TypeInv
<1>7. IsFiniteSet(S) /\ Cardinality(S) <= Cardinality(T)
  BY <1>4, <1>6, FS_Injection
<1>8. QED
  BY <1>6, <1>7, FS_CardinalityType, PoolAssumption

LEMMA ThreadMoves ==
  ASSUME PoolInv, NEW t \in Threads, Thread(t)
  PROVE  \/ \E k \in Tasks : Pool!Start(k) \/ Pool!Move(k, "started", "ended")
         \/ UNCHANGED [j \in Tasks |-> TaskState(j)]
<1> USE DEF PoolInv
<1>1. UNCHANGED call /\ \A u \in Threads : u # t => pc'[u] = pc[u]
  BY Moves
<1>2. CASE CountDeal(t)
  <2>1. PICK k \in Tasks :
          /\ k = callback[t] /\ k # None
          /\ pc[t] = "deal" /\ pc'[t] = "call" /\ UNCHANGED <<callback, ended>>
    BY <1>2, Places, PoolAssumption DEF CountDeal, calls, TypeInv
  <2>2. call[k] = "ok" /\ k \notin ended
    BY <2>1 DEF TaskInv
  <2>3. ~Called(k) /\ Called(k)'
    BY <2>1, OneThread DEF Called
  <2>4. \A j \in Tasks : j # k => (Called(j)' <=> Called(j))
    BY <1>1, <2>1 DEF Called
  <2>5. TaskState(k) = "accepted" /\ TaskState(k)' = "started"
    BY <2>2, <2>3 DEF TaskState, Called
  <2>6. \A j \in Tasks : j # k => TaskState(j)' = TaskState(j)
    BY <1>1, <2>1, <2>4, Same
  <2>7. Pool!Move(k, "accepted", "started")
    BY <2>1, <2>5, <2>6, Moved
  <2>8. Cardinality({j \in Tasks : [i \in Tasks |-> TaskState(i)][j] = "started"}) < Limit
    <3>1. {j \in Tasks : [i \in Tasks |-> TaskState(i)][j] = "started"}
            = {j \in Tasks : TaskState(j) = "started"}
      OBVIOUS
    <3>2. QED
      BY <2>1, <3>1, Room
  <2>9. Pool!Start(k)
    BY <2>7, <2>8, Zenon DEF Pool!Start, Pool!Cardinality, Cardinality
  <2>10. QED
    BY <2>9
<1>3. CASE EndTask(t)
  <2>1. PICK k \in Tasks :
          /\ k = callback[t] /\ k # None
          /\ pc[t] = "call" /\ pc'[t] = "undeal"
          /\ callback' = [callback EXCEPT ![t] = None] /\ ended' = ended \cup {k}
    BY <1>3, Places, PoolAssumption DEF EndTask, TypeInv
  <2>2. \A u \in Threads : u # t => callback'[u] = callback[u]
    BY <2>1 DEF TypeInv
  <2>3. Called(k) /\ ~Called(k)' /\ k \in ended'
    BY <1>1, <2>1, <2>2, OneThread DEF Called
  <2>4. \A j \in Tasks : j # k => (Called(j)' <=> Called(j))
    BY <1>1, <2>1, <2>2 DEF Called
  <2>5. TaskState(k) = "started" /\ TaskState(k)' = "ended"
    BY <2>3 DEF TaskState, Called
  <2>6. \A j \in Tasks : j # k => TaskState(j)' = TaskState(j)
    BY <1>1, <2>1, <2>4, Same
  <2>7. QED
    BY <2>1, <2>5, <2>6, Moved
<1>4. CASE ~CountDeal(t) /\ ~EndTask(t)
  <2>1. pc'[t] # "call" /\ pc[t] # "call"
    BY <1>4, Places DEF Thread
  <2>2. UNCHANGED ended /\ \A u \in Threads : u # t => callback'[u] = callback[u]
    BY <1>4, Frame DEF Take, TypeInv
  <2>3. \A j \in Tasks : Called(j)' <=> Called(j)
    BY <1>1, <2>1, <2>2 DEF Called
  <2>4. QED
    BY <1>1, <2>2, <2>3, Same, Unmoved
<1>5. QED
  BY <1>2, <1>3, <1>4

\* Every task that is accepted is called once at most, none that was rejected
\* is, and no more than Limit are under way: the pool implements TaskPool
\* (fc_thread_pool_run, thread_entrance).
THEOREM RunsTasksOnceCorrect == Spec => RunsTasksOnce
<1>1. Init => Pool!PInit
  <2> SUFFICES ASSUME Init PROVE Pool!PInit
    OBVIOUS
  <2>1. \A k \in Tasks : TaskState(k) = "new"
    BY DEF Init, TaskState
  <2>2. QED
    BY <2>1 DEF Pool!PInit
<1>2. PoolInv /\ [Next]_vars => [Pool!PNext]_([k \in Tasks |-> TaskState(k)])
  <2> SUFFICES ASSUME PoolInv, [Next]_vars
               PROVE  [Pool!PNext]_([k \in Tasks |-> TaskState(k)])
    OBVIOUS
  <2>1. CASE Stop \/ UNCHANGED vars
    <3>1. UNCHANGED <<pc, callback, call, ended>>
      BY <2>1 DEF Stop, vars, threads, calls
    <3>2. \A k \in Tasks : TaskState(k)' = TaskState(k)
      BY <3>1, Same DEF Called
    <3>3. QED
      BY <3>2, Unmoved
  <2>2. ASSUME NEW k \in Tasks, Run(k) PROVE [Pool!PNext]_([j \in Tasks |-> TaskState(j)])
    BY <2>2, RunMoves DEF Pool!PNext
  <2>3. ASSUME NEW t \in Threads, Thread(t) PROVE [Pool!PNext]_([j \in Tasks |-> TaskState(j)])
    BY <2>3, ThreadMoves DEF Pool!PNext
  <2>4. QED
    BY <2>1, <2>2, <2>3 DEF Next
<1>3. QED
  BY PoolStarts, PoolNext, <1>1, <1>2, PTL DEF Spec, RunsTasksOnce, Pool!PSpec
=============================================================================
