----------------------------- MODULE ThreadPool -----------------------------
(***************************************************************************)
(* 0.common/general/thread_pool.c: a pool of at most Limit threads.        *)
(*                                                                         *)
(* Every slot (FCThreadInfo) has a lock of its own for func and inited;    *)
(* the pool's lock guards the free list and the running count.  A caller   *)
(* pops a slot, puts its task there and wakes the slot's thread or creates *)
(* one.  A thread that idles too long leaves, and its slot stays in the    *)
(* free list.                                                              *)
(*                                                                         *)
(* A critical section is one step.  Where one of a thread's holds the      *)
(* pool's lock too (l.78-87), nothing it uses can change in between.       *)
(* A wait ends after two seconds at the latest, so a wait and what wakes   *)
(* it need no state: the step after it may be taken at any time.           *)
(***************************************************************************)
EXTENDS Integers, Sequences, FiniteSets

CONSTANTS
  Limit,     \* thread_counts.limit: the slots
  MinIdle,   \* min_idle_count, after init has cut it to Limit
  Tasks,     \* the tasks, each given to fc_thread_pool_run once
  Threads,   \* bound: threads that exist at a time
  None       \* no task, no data

ASSUME PoolAssumption ==
  /\ Limit \in Nat \ {0} /\ MinIdle \in 0..Limit
  /\ IsFiniteSet(Threads) /\ 1..MinIdle \subseteq Threads
  /\ None \notin Tasks /\ None \notin Threads

Slots == 1..Limit

VARIABLES
  continue_flag,  \* *pool->pcontinue_flag
  freelist,       \* the free slots, first one first
  func,           \* per slot: the task in callback.func
  inited,         \* per slot
  tdata,          \* per slot: the thread that allocated the data it points to
  running,        \* thread_counts.running
  dealing,        \* thread_counts.dealing
  slot,           \* per thread: its slot
  pc,             \* per thread
  callback,       \* per thread: the task it has taken
  call,           \* per task: where its fc_thread_pool_run is
  popped,         \* per task: the slot its caller has taken
  ended,          \* history: the tasks whose callback has returned
  live,           \* history: the threads whose data is allocated
  shared          \* history: slots given to a thread before the last had left

slots == <<freelist, func, inited, tdata, shared>>
threads == <<slot, pc, callback, live>>
counts == <<running, dealing>>
calls == <<call, popped, ended>>
vars == <<continue_flag, slots, threads, counts, calls>>

Init ==
  /\ continue_flag = TRUE
  /\ freelist = [i \in Slots |-> i]
  /\ func = [s \in Slots |-> None]
  /\ inited = [s \in Slots |-> s <= MinIdle]
  /\ tdata = [s \in Slots |-> None]
  /\ running = 0
  /\ dealing = 0
  /\ slot = [t \in Threads |-> IF t \in 1..MinIdle THEN t ELSE 1]
  /\ pc = [t \in Threads |-> IF t \in 1..MinIdle THEN "start" ELSE "none"]
  /\ callback = [t \in Threads |-> None]
  /\ call = [k \in Tasks |-> "new"]
  /\ popped = [k \in Tasks |-> 1]
  /\ ended = {}
  /\ live = {}
  /\ shared = {}

\* The application ends the pool.
Stop ==
  /\ continue_flag
  /\ continue_flag' = FALSE
  /\ UNCHANGED <<slots, threads, counts, calls>>

-----------------------------------------------------------------------------
(* fc_thread_pool_run *)

\* The caller waits for a free slot and pops it.
Pop(k) ==
  /\ call[k] = "new"
  /\ continue_flag /\ freelist # <<>>
  /\ call' = [call EXCEPT ![k] = "popped"]
  /\ popped' = [popped EXCEPT ![k] = Head(freelist)]
  /\ freelist' = Tail(freelist)
  /\ UNCHANGED <<continue_flag, func, inited, tdata, shared, threads, counts, ended>>

\* EINTR: the pool has ended.
Refuse(k) ==
  /\ call[k] = "new"
  /\ ~continue_flag
  /\ call' = [call EXCEPT ![k] = "refused"]
  /\ UNCHANGED <<continue_flag, slots, threads, counts, popped, ended>>

\* Mutant: whoever has a slot wakes its thread, whether it has one or not.
AssignWakes(k) ==
  /\ call[k] = "popped"
  /\ func' = [func EXCEPT ![popped[k]] = k]
  /\ call' = [call EXCEPT ![k] = "ok"]
  /\ UNCHANGED <<continue_flag, freelist, inited, tdata, shared, threads, counts, popped, ended>>

\* The slot has a thread, which is woken.
Assign(k) ==
  /\ call[k] = "popped" /\ inited[popped[k]]
  /\ func' = [func EXCEPT ![popped[k]] = k]
  /\ call' = [call EXCEPT ![k] = "ok"]
  /\ UNCHANGED <<continue_flag, freelist, inited, tdata, shared, threads, counts, popped, ended>>

Unused == {t \in Threads : pc[t] \in {"none", "done"}}
Present(s) == \E t \in Threads \ Unused : slot[t] = s

\* It has none: one is created.
Create(k) ==
  /\ call[k] = "popped" /\ ~inited[popped[k]]
  /\ Unused # {}
  /\ LET t == CHOOSE u \in Unused : TRUE
         s == popped[k]
     IN /\ func' = [func EXCEPT ![s] = k]
        /\ slot' = [slot EXCEPT ![t] = s]
        /\ pc' = [pc EXCEPT ![t] = "start"]
        /\ shared' = IF Present(s) THEN shared \cup {s} ELSE shared
  /\ call' = [call EXCEPT ![k] = "ok"]
  /\ UNCHANGED <<continue_flag, freelist, inited, tdata, callback, live, counts, popped, ended>>

\* pthread_create fails: the error is returned, func stays set and the slot is
\* not put back.
CreateFails(k) ==
  /\ call[k] = "popped" /\ ~inited[popped[k]]
  /\ func' = [func EXCEPT ![popped[k]] = k]
  /\ call' = [call EXCEPT ![k] = "failed"]
  /\ UNCHANGED <<continue_flag, freelist, inited, tdata, shared, threads, counts, popped, ended>>

Run(k) == Pop(k) \/ Refuse(k) \/ Assign(k) \/ Create(k) \/ CreateFails(k)

-----------------------------------------------------------------------------
(* thread_entrance *)

At(t, l) == pc[t] = l
Goto(t, l) == pc' = [pc EXCEPT ![t] = l]

\* extra_data_callbacks.alloc
Alloc(t) ==
  /\ At(t, "start") /\ Goto(t, "init")
  /\ tdata' = [tdata EXCEPT ![slot[t]] = t]
  /\ live' = live \cup {t}
  /\ UNCHANGED <<continue_flag, freelist, func, inited, shared, slot, callback, counts, calls>>

SetInited(t) ==
  /\ At(t, "init") /\ Goto(t, "count")
  /\ inited' = [inited EXCEPT ![slot[t]] = TRUE]
  /\ UNCHANGED <<continue_flag, freelist, func, tdata, shared, slot, callback, live, counts, calls>>

CountIn(t) ==
  /\ At(t, "count") /\ Goto(t, "loop")
  /\ running' = running + 1
  /\ UNCHANGED <<continue_flag, slots, slot, callback, live, dealing, calls>>

Loop(t) ==
  /\ At(t, "loop") /\ Goto(t, IF continue_flag THEN "wait" ELSE "end")
  /\ UNCHANGED <<continue_flag, slots, slot, callback, live, counts, calls>>

\* Mutant: the task stays in its slot.
TakeKeeps(t) ==
  /\ At(t, "wait") /\ func[slot[t]] # None
  /\ callback' = [callback EXCEPT ![t] = func[slot[t]]]
  /\ Goto(t, "deal")
  /\ UNCHANGED <<continue_flag, slots, slot, live, counts, calls>>

Take(t) ==
  /\ At(t, "wait") /\ func[slot[t]] # None
  /\ callback' = [callback EXCEPT ![t] = func[slot[t]]]
  /\ func' = [func EXCEPT ![slot[t]] = None]
  /\ Goto(t, "deal")
  /\ UNCHANGED <<continue_flag, freelist, inited, tdata, shared, slot, live, counts, calls>>

\* Mutant: a thread that has nothing to do frees its data.
KeepWaitingFrees(t) ==
  /\ At(t, "wait") /\ func[slot[t]] = None
  /\ live' = live \ {t}
  /\ Goto(t, "loop")
  /\ UNCHANGED <<continue_flag, slots, slot, callback, counts, calls>>

\* Nothing came within two seconds.
KeepWaiting(t) ==
  /\ At(t, "wait") /\ func[slot[t]] = None
  /\ Goto(t, "loop")
  /\ UNCHANGED <<continue_flag, slots, slot, callback, live, counts, calls>>

\* Mutants: the thread leaves one too few behind, or leaves the slot as if it
\* still served it.
IdleOutOneMore(t) ==
  /\ At(t, "wait") /\ func[slot[t]] = None
  /\ running - dealing >= MinIdle
  /\ inited' = [inited EXCEPT ![slot[t]] = FALSE]
  /\ running' = running - 1
  /\ Goto(t, "free")
  /\ UNCHANGED <<continue_flag, freelist, func, tdata, shared, slot, callback, live, dealing, calls>>

IdleOutInited(t) ==
  /\ At(t, "wait") /\ func[slot[t]] = None
  /\ running - dealing > MinIdle
  /\ running' = running - 1
  /\ Goto(t, "free")
  /\ UNCHANGED <<continue_flag, slots, slot, callback, live, dealing, calls>>

\* Nothing came for max_idle_time, and enough threads stay.
IdleOut(t) ==
  /\ At(t, "wait") /\ func[slot[t]] = None
  /\ running - dealing > MinIdle
  /\ inited' = [inited EXCEPT ![slot[t]] = FALSE]
  /\ running' = running - 1
  /\ Goto(t, "free")
  /\ UNCHANGED <<continue_flag, freelist, func, tdata, shared, slot, callback, live, dealing, calls>>

CountDeal(t) ==
  /\ At(t, "deal") /\ Goto(t, "call")
  /\ dealing' = dealing + 1
  /\ UNCHANGED <<continue_flag, slots, slot, callback, live, running, calls>>

\* The callback returns.
EndTask(t) ==
  /\ At(t, "call") /\ Goto(t, "undeal")
  /\ ended' = ended \cup {callback[t]}
  /\ callback' = [callback EXCEPT ![t] = None]
  /\ UNCHANGED <<continue_flag, slots, slot, live, counts, call, popped>>

Undeal(t) ==
  /\ At(t, "undeal") /\ Goto(t, "push")
  /\ dealing' = dealing - 1
  /\ UNCHANGED <<continue_flag, slots, slot, callback, live, running, calls>>

Push(t) ==
  /\ At(t, "push") /\ Goto(t, "loop")
  /\ freelist' = <<slot[t]>> \o freelist
  /\ UNCHANGED <<continue_flag, func, inited, tdata, shared, slot, callback, live, counts, calls>>

\* l.111-114 once for each way out of the loop: the data is freed, and then the
\* pointer is cleared, without a lock.
Free(t, from, to) ==
  /\ At(t, from) /\ Goto(t, to)
  /\ live' = live \ {tdata[slot[t]]}
  /\ UNCHANGED <<continue_flag, slots, slot, callback, counts, calls>>

Unset(t, from, to) ==
  /\ At(t, from) /\ Goto(t, to)
  /\ tdata' = [tdata EXCEPT ![slot[t]] = None]
  /\ UNCHANGED <<continue_flag, freelist, func, inited, shared, slot, callback, live, counts, calls>>

\* The pool has ended: only now the thread gives up its slot and its count.
Uninit(t) ==
  /\ At(t, "uninit") /\ Goto(t, "uncount")
  /\ inited' = [inited EXCEPT ![slot[t]] = FALSE]
  /\ UNCHANGED <<continue_flag, freelist, func, tdata, shared, slot, callback, live, counts, calls>>

Uncount(t) ==
  /\ At(t, "uncount") /\ Goto(t, "done")
  /\ running' = running - 1
  /\ UNCHANGED <<continue_flag, slots, slot, callback, live, dealing, calls>>

Thread(t) ==
  \/ Alloc(t) \/ SetInited(t) \/ CountIn(t) \/ Loop(t)
  \/ Take(t) \/ KeepWaiting(t) \/ IdleOut(t)
  \/ CountDeal(t) \/ EndTask(t) \/ Undeal(t) \/ Push(t)
  \/ Free(t, "free", "unset") \/ Unset(t, "unset", "done")
  \/ Free(t, "end", "end_unset") \/ Unset(t, "end_unset", "uninit")
  \/ Uninit(t) \/ Uncount(t)

Next ==
  \/ Stop
  \/ \E k \in Tasks : Run(k)
  \/ \E t \in Threads : Thread(t)

Spec == Init /\ [][Next]_vars

\* Threads are scheduled and callbacks return.
FairSpec == Spec /\ \A t \in Threads : WF_vars(Thread(t))

-----------------------------------------------------------------------------
\* What has become of a task, as its caller and its callback see it.
TaskState(k) ==
  IF \E t \in Threads : pc[t] = "call" /\ callback[t] = k THEN "started"
  ELSE IF k \in ended THEN "ended"
  ELSE CASE call[k] = "ok" -> "accepted"
         [] call[k] \in {"refused", "failed"} -> "rejected"
         [] OTHER -> "new"

Pool == INSTANCE TaskPool WITH state <- [k \in Tasks |-> TaskState(k)]

\* A task that fc_thread_pool_run accepts is called at most once, one that it
\* returns an error for never, and at most Limit are called at a time,
\* whichever threads come and go (l.240-279 against l.65-109).
RunsTasksOnce == Pool!PSpec

Starting == {"start", "init", "count"}
Counted == {"loop", "wait", "deal", "call", "undeal", "push"}
Serving == Starting \cup Counted
HasTask == {"deal", "call", "undeal", "push"}

\* Every slot is in one hand: it is free, a caller has popped it, its task is
\* waiting, or its thread is at work; or pthread_create has failed for it.  At
\* most one thread serves it, and one does if its caller would not create one.
SlotInOneHand ==
  \A s \in Slots :
    LET servers == {t \in Threads : pc[t] \in Serving /\ slot[t] = s}
        hands == Cardinality({k \in Tasks : call[k] = "popped" /\ popped[k] = s})
               + Cardinality({i \in DOMAIN freelist : freelist[i] = s})
               + Cardinality({t \in servers : pc[t] \in HasTask})
    IN /\ Cardinality(servers) <= 1
       /\ hands = IF func[s] = None THEN 1 ELSE 0
       /\ continue_flag /\ inited[s] => servers # {}

\* running and dealing are the numbers of threads they claim to be, whatever
\* was read between the two of them (l.79-80), and a thread that idles never
\* leaves fewer than min_idle_count behind.
CountsRight ==
  /\ running = Cardinality({t \in Threads :
                 pc[t] \in Counted \cup {"end", "end_unset", "uninit", "uncount"}})
  /\ dealing = Cardinality({t \in Threads : pc[t] \in {"call", "undeal"}})
  /\ continue_flag => Cardinality({t \in Threads : pc[t] \in Serving}) >= MinIdle

\* A callback is given its own thread's data, and it is still allocated, unless
\* the slot went to a new thread before the old one had freed its data.
DataIsOwn ==
  \A t \in Threads :
    pc[t] = "call" /\ slot[t] \notin shared => tdata[slot[t]] = t /\ t \in live

\* An accepted task is called and returns, as long as nobody ends the pool.
AcceptedEnds ==
  \A k \in Tasks : call[k] = "ok" ~> k \in ended \/ ~continue_flag
=============================================================================
