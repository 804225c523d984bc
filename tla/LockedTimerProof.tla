-------------------------- MODULE LockedTimerProof --------------------------
(***************************************************************************)
(* Proofs about LockedTimer, for any number of entries, callers and slots  *)
(* and any bound on the times.                                             *)
(*                                                                         *)
(* Who may do what with an entry follows from its status alone: a status   *)
(* that has been taken names its owner, and an entry in the chain is       *)
(* TIMEOUT (OwnerInv).  Where the entry is linked rests on it, and on that *)
(* the walk of the timer, and when it is out, on both (WheelInv).          *)
(***************************************************************************)
EXTENDS LockedTimer, TLAPS, SequenceTheorems

\* The records of the threads.
CallPcs == {"idle", "clear", "later", "earlier", "unlink", "set", "store", "add",
            "status", "link"}
CallShape ==
  /\ DOMAIN user = Users
  /\ \A u \in Users : DOMAIN user[u] = {"pc", "e", "new", "slot", "set", "fresh"}
TimerShape == DOMAIN timer = {"pc", "target", "slot", "rest", "dest"}
Shape ==
  /\ CallShape /\ TimerShape
  /\ status \in [Entries -> {"none", "normal", "moving", "timeout", "cleared"}]
  /\ \A u \in Users : user[u].pc \in CallPcs /\ user[u].e \in Entries /\ user[u].fresh \in BOOLEAN

Owning(u) == ~user[u].fresh /\ user[u].pc \in {"unlink", "add", "link"}

\* What a call's place says of its entry's status; an add is alone with its
\* entry.
CallInv ==
  \A u \in Users :
    /\ Owning(u) => status[user[u].e] \in {"moving", "cleared"}
    /\ Owning(u) /\ user[u].pc # "unlink" => status[user[u].e] = "moving"
    /\ user[u].fresh => user[u].pc \in {"add", "status", "link"}
    /\ user[u].pc = "status" => user[u].fresh
    /\ user[u].fresh /\ user[u].pc # "link" =>
         status[user[u].e] \in {"none", "timeout", "cleared"} /\ user[u].e \notin chain
    /\ \A v \in Users : user[u].fresh /\ user[v].e = user[u].e /\ user[v].pc # "idle" => u = v
    /\ \A v \in Users : Owning(u) /\ Owning(v) /\ user[u].e = user[v].e => u = v

\* MOVING has an owner, the timer or a caller; and the chain holds what has
\* timed out.
StatusInv ==
  \A e \in Entries :
    /\ status[e] = "moving" => TimerOwns(e) \/ \E u \in Users : Owning(u) /\ user[u].e = e
    /\ TimerOwns(e) => status[e] = "moving" /\ \A u \in Users : Owning(u) => user[u].e # e
    /\ e \in chain => status[e] = "timeout"

OwnerInv == Shape /\ CallInv /\ StatusInv

LEMMA OwnerInit == Init => OwnerInv
<1> SUFFICES ASSUME Init PROVE OwnerInv
  OBVIOUS
<1>1. (CHOOSE e \in Entries : TRUE) \in Entries
  BY TimerAssumption
<1>2. \A u \in Users : /\ user[u].pc = "idle" /\ user[u].e \in Entries /\ user[u].fresh = FALSE
  BY <1>1 DEF Init, NoCall, Starts
<1>3. CallShape
  BY DEF Init, NoCall, Starts, CallShape
<1>4. timer = [pc |-> "idle", target |-> 0, slot |-> 0, rest |-> <<>>, dest |-> 0]
  BY DEF Init, Idle
<1>5. Shape
  BY <1>2, <1>3, <1>4 DEF Init, Shape, TimerShape, CallPcs
<1>6. CallInv
  BY <1>2 DEF CallInv, Owning
<1>7. StatusInv
  BY <1>4 DEF Init, StatusInv, TimerOwns, Here
<1>8. QED
  BY <1>5, <1>6, <1>7 DEF OwnerInv

-----------------------------------------------------------------------------
(* The callers *)

LEMMA Records ==
  ASSUME OwnerInv, NEW u \in Users
  PROVE  /\ DOMAIN user = Users /\ DOMAIN user[u] = {"pc", "e", "new", "slot", "set", "fresh"}
         /\ user[u].e \in Entries /\ user[u].fresh \in BOOLEAN /\ user[u].pc \in CallPcs
         /\ NoCall.pc = "idle" /\ NoCall.fresh = FALSE /\ NoCall.e \in Entries
         /\ DOMAIN NoCall = {"pc", "e", "new", "slot", "set", "fresh"}
<1>1. (CHOOSE e \in Entries : TRUE) \in Entries
  BY TimerAssumption
<1>2. QED
  BY <1>1 DEF NoCall, Starts, OwnerInv, Shape, CallShape

LEMMA RecordSet ==
  ASSUME OwnerInv, UNCHANGED timer, NEW u \in Users, NEW r,
         DOMAIN r = {"pc", "e", "new", "slot", "set", "fresh"},
         r.pc \in CallPcs, r.e \in Entries, r.fresh \in BOOLEAN,
         user' = [user EXCEPT ![u] = r],
         NEW e \in Entries, NEW s \in {"none", "normal", "moving", "timeout", "cleared"},
         status' = [status EXCEPT ![e] = s]
  PROVE  /\ Shape' /\ user'[u] = r
         /\ \A v \in Users \ {u} : user'[v] = user[v]
<1>1. user'[u] = r /\ \A v \in Users \ {u} : user'[v] = user[v]
  BY DEF OwnerInv, Shape, CallShape
<1>2. CallShape'
  BY <1>1 DEF OwnerInv, Shape, CallShape
<1>3. QED
  BY <1>1, <1>2 DEF OwnerInv, Shape, TimerShape

\* A caller's step concerns its entry, and the others' records stay.
Others(u) == \A v \in Users \ {u} : user'[v] = user[v]

LEMMA StatusStep ==
  ASSUME OwnerInv, UNCHANGED <<timer, chain>>, NEW u \in Users, NEW e \in Entries, Others(u),
         \A x \in Entries \ {e} : status'[x] = status[x],
         Owning(u) => user[u].e = e, Owning(u)' => user'[u].e = e,
         status'[e] = "moving" => Owning(u)' \/ (~Owning(u) /\ status[e] = "moving"),
         Owning(u)' => ~TimerOwns(e),
         TimerOwns(e) => status'[e] = "moving",
         e \in chain => status'[e] = "timeout"
  PROVE  StatusInv'
<1> USE DEF OwnerInv, StatusInv, Others
<1>1. ASSUME NEW x \in Entries PROVE TimerOwns(x)' = TimerOwns(x)
  BY DEF TimerOwns, Here, e0
<1>2. ASSUME NEW x \in Entries, status'[x] = "moving"
      PROVE  TimerOwns(x)' \/ \E w \in Users : Owning(w)' /\ user'[w].e = x
  <2>1. CASE x = e /\ Owning(u)'
    BY <2>1
  <2>2. CASE status[x] = "moving" /\ (x = e => ~Owning(u))
    <3>1. CASE TimerOwns(x)
      BY <1>1, <3>1
    <3>2. CASE \E w \in Users : Owning(w) /\ user[w].e = x
      <4>1. PICK w \in Users : Owning(w) /\ user[w].e = x
        BY <3>2
      <4>2. w # u
        BY <2>2, <4>1
      <4>3. Owning(w)' /\ user'[w].e = x
        BY <4>1, <4>2 DEF Owning
      <4>4. QED
        BY <4>3
    <3>3. QED
      BY <2>2, <3>1, <3>2
  <2>3. QED
    BY <1>2, <2>1, <2>2
<1>3. ASSUME NEW x \in Entries, TimerOwns(x)'
      PROVE  status'[x] = "moving" /\ \A w \in Users : Owning(w)' => user'[w].e # x
  <2>1. TimerOwns(x) /\ status[x] = "moving"
    BY <1>1, <1>3
  <2>2. status'[x] = "moving"
    BY <2>1
  <2>3. ASSUME NEW w \in Users, Owning(w)' PROVE user'[w].e # x
    <3>1. CASE w = u
      BY <2>1, <2>3, <3>1
    <3>2. CASE w # u
      <4>1. Owning(w) /\ user'[w].e = user[w].e
        BY <2>3, <3>2 DEF Owning
      <4>2. QED
        BY <2>1, <4>1
    <3>3. QED
      BY <3>1, <3>2
  <2>4. QED
    BY <2>2, <2>3
<1>4. \A x \in Entries : x \in chain' => status'[x] = "timeout"
  OBVIOUS
<1>5. QED
  BY <1>2, <1>3, <1>4

\* A caller that does not have the status of its entry leaves it as it is.
LEMMA Asks ==
  ASSUME OwnerInv, UNCHANGED <<timer, chain, status>>, NEW u \in Users, NEW e \in Entries,
         Shape', Others(u), ~Owning(u), ~user'[u].fresh,
         user'[u].e \in Entries,
         user'[u].pc \in {"idle", "clear", "later", "earlier", "set", "store"},
         user'[u].pc # "idle" => \A v \in Users : user[v].e = user'[u].e => ~user[v].fresh
  PROVE  OwnerInv'
<1>1. ~user'[u].fresh /\ ~Owning(u)'
  BY DEF Owning
<1>2. CallInv'
  BY <1>1 DEF OwnerInv, CallInv, Owning, Others
<1>3. StatusInv'
  <2>1. \A x \in Entries : TimerOwns(x) => status[x] = "moving"
    BY DEF OwnerInv, StatusInv
  <2>2. \A x \in Entries : x \in chain => status[x] = "timeout"
    BY DEF OwnerInv, StatusInv
  <2>3. QED
    BY <1>1, <2>1, <2>2, StatusStep
<1>4. QED
  BY <1>2, <1>3 DEF OwnerInv

\* RecordSet, where the status stays.
LEMMA RecordOnly ==
  ASSUME OwnerInv, UNCHANGED <<timer, status>>, NEW u \in Users, NEW r,
         DOMAIN r = {"pc", "e", "new", "slot", "set", "fresh"},
         r.pc \in CallPcs, r.e \in Entries, r.fresh \in BOOLEAN,
         user' = [user EXCEPT ![u] = r]
  PROVE  Shape' /\ user'[u] = r /\ Others(u)
<1>1. user'[u] = r /\ \A v \in Users \ {u} : user'[v] = user[v]
  BY DEF OwnerInv, Shape, CallShape
<1>2. CallShape'
  BY <1>1 DEF OwnerInv, Shape, CallShape
<1>3. QED
  BY <1>1, <1>2 DEF OwnerInv, Shape, TimerShape, Others

LEMMA BeginNext ==
  ASSUME OwnerInv, NEW u \in Users, Begin(u) PROVE OwnerInv'
<1>1. ASSUME NEW e \in Entries, Remove(u, e) PROVE OwnerInv'
  <2> DEFINE r == Starts("clear", e, 0, FALSE)
  <2>1. /\ r.pc = "clear" /\ r.e = e /\ r.fresh = FALSE
        /\ DOMAIN r = {"pc", "e", "new", "slot", "set", "fresh"}
    BY DEF Starts
  <2>2. /\ user' = [user EXCEPT ![u] = r] /\ UNCHANGED <<timer, chain, status>>
        /\ user[u].pc = "idle" /\ \A v \in Users : user[v].e = e => ~user[v].fresh
    BY <1>1 DEF Remove, place, Added
  <2> HIDE DEF r
  <2>3. Shape' /\ user'[u] = r /\ Others(u)
    BY <2>1, <2>2, RecordOnly DEF CallPcs
  <2>4. QED
    BY <2>1, <2>2, <2>3, Asks DEF Owning
<1>2. ASSUME NEW e \in Entries, NEW t \in Times, Modify(u, e, t) PROVE OwnerInv'
  <2> DEFINE r == Starts(IF t > expires[e] THEN "later" ELSE "earlier", e, t, FALSE)
  <2>1. /\ r.pc \in {"later", "earlier"} /\ r.e = e /\ r.fresh = FALSE
        /\ DOMAIN r = {"pc", "e", "new", "slot", "set", "fresh"}
    BY DEF Starts
  <2>2. /\ user' = [user EXCEPT ![u] = r] /\ UNCHANGED <<timer, chain, status>>
        /\ user[u].pc = "idle" /\ \A v \in Users : user[v].e = e => ~user[v].fresh
    BY <1>2 DEF Modify, place, Added
  <2> HIDE DEF r
  <2>3. Shape' /\ user'[u] = r /\ Others(u)
    BY <2>1, <2>2, RecordOnly DEF CallPcs
  <2>4. QED
    BY <2>1, <2>2, <2>3, Asks DEF Owning
<1>3. ASSUME NEW e \in Entries, NEW t \in Times, Add(u, e, t) PROVE OwnerInv'
  <2> DEFINE r == Starts("add", e, t, TRUE)
  <2>1. /\ r.pc = "add" /\ r.e = e /\ r.fresh = TRUE
        /\ DOMAIN r = {"pc", "e", "new", "slot", "set", "fresh"}
    BY DEF Starts
  <2>2. /\ user' = [user EXCEPT ![u] = r] /\ UNCHANGED <<timer, chain, status>>
        /\ user[u].pc = "idle" /\ Unused(e)
    BY <1>3 DEF Add, place
  <2> HIDE DEF r
  <2>3. Shape' /\ user'[u] = r /\ Others(u)
    BY <2>1, <2>2, RecordOnly DEF CallPcs
  <2>4. ~Owning(u) /\ ~Owning(u)'
    BY <2>1, <2>2, <2>3 DEF Owning
  <2>5. CallInv'
    BY <2>1, <2>2, <2>3, <2>4 DEF OwnerInv, CallInv, Owning, Others, Unused
  <2>6. StatusInv'
    BY <2>2, <2>3, <2>4, StatusStep DEF OwnerInv, StatusInv
  <2>7. QED
    BY <2>3, <2>5, <2>6 DEF OwnerInv
<1>4. QED
  BY <1>1, <1>2, <1>3 DEF Begin

LEMMA ContinueNext ==
  ASSUME OwnerInv, NEW u \in Users, Continue(u) PROVE OwnerInv'
<1> DEFINE R(r) == DOMAIN r = {"pc", "e", "new", "slot", "set", "fresh"}
<1>1. /\ R(user[u]) /\ R(NoCall) /\ user[u].pc \in CallPcs
      /\ user[u].e \in Entries /\ user[u].fresh \in BOOLEAN
      /\ NoCall.pc = "idle" /\ NoCall.fresh = FALSE /\ NoCall.e \in Entries
  BY Records
<1>2. ASSUME NEW e \in Entries, Refused(u, e) \/ SetLater(u, e) PROVE OwnerInv'
  <2>1. /\ user' = [user EXCEPT ![u] = NoCall] /\ UNCHANGED <<timer, chain, status>>
        /\ user[u].pc \in {"clear", "later", "earlier", "store"}
    BY <1>2 DEF Refused, SetLater, Answer, At, place
  <2>2. Shape' /\ user'[u] = NoCall /\ Others(u)
    BY <1>1, <2>1, RecordOnly DEF CallPcs
  <2>3. QED
    BY <1>1, <2>1, <2>2, Asks DEF Owning
<1>3. ASSUME NEW e \in Entries, CheckLater(u, e) PROVE OwnerInv'
  <2> DEFINE r == [user[u] EXCEPT !.pc = "set", !.slot = slotIndex[e]]
  <2>1. r.pc = "set" /\ r.e = user[u].e /\ r.fresh = user[u].fresh /\ R(r)
    BY <1>1
  <2>2. /\ user' = [user EXCEPT ![u] = r] /\ UNCHANGED <<timer, chain>>
        /\ user[u].pc = "later" /\ user[u].e = e /\ status[e] = "normal"
        /\ status' = [status EXCEPT ![e] = "normal"]
    BY <1>3 DEF CheckLater, Check, At
  <2>3. status' = status
    BY <2>2 DEF OwnerInv, Shape
  <2>4. ~user[u].fresh /\ \A v \in Users : user[v].e = e => ~user[v].fresh
    BY <2>2 DEF OwnerInv, CallInv, Shape
  <2> HIDE DEF r
  <2>5. Shape' /\ user'[u] = r /\ Others(u)
    BY <1>1, <2>1, <2>2, <2>3, RecordOnly DEF CallPcs
  <2>6. QED
    BY <1>1, <2>1, <2>2, <2>3, <2>4, <2>5, Asks DEF Owning
<1>4. ASSUME NEW e \in Entries, Clear(u, e) \/ Take(u, e) PROVE OwnerInv'
  <2> DEFINE r == [user[u] EXCEPT !.pc = "unlink", !.slot = slotIndex[e]]
  <2>1. r.pc = "unlink" /\ r.e = user[u].e /\ r.fresh = user[u].fresh /\ R(r)
    BY <1>1
  <2>2. PICK s \in {"cleared", "moving"} :
          /\ user' = [user EXCEPT ![u] = r] /\ UNCHANGED <<timer, chain>>
          /\ user[u].pc \in {"clear", "earlier"} /\ user[u].e = e /\ status[e] = "normal"
          /\ status' = [status EXCEPT ![e] = s]
    BY <1>4 DEF Clear, Take, Check, At
  <2> HIDE DEF r
  <2>3. Shape' /\ user'[u] = r /\ Others(u)
    BY <1>1, <2>1, <2>2, RecordSet DEF CallPcs, Others
  <2>4. status'[e] = s /\ \A x \in Entries \ {e} : status'[x] = status[x]
    BY <2>2 DEF OwnerInv, Shape
  <2>5. ~user[u].fresh /\ \A v \in Users : user[v].e = e => ~user[v].fresh
    BY <2>2 DEF OwnerInv, CallInv, Shape
  <2>6. ~Owning(u) /\ Owning(u)' /\ \A v \in Users : user[v].e = e => ~Owning(v)
    BY <2>1, <2>2, <2>3, <2>5 DEF Owning, OwnerInv, CallInv
  <2>7. CallInv'
    BY <2>1, <2>2, <2>3, <2>4, <2>5, <2>6 DEF OwnerInv, CallInv, Owning, Others, Shape
  <2>8. ~TimerOwns(e) /\ e \notin chain
    BY <2>2 DEF OwnerInv, StatusInv
  <2>9. StatusInv'
    <3>1. UNCHANGED <<timer, chain>> /\ user'[u].e = e
      BY <2>1, <2>2, <2>3
    <3>2. /\ Owning(u) => user[u].e = e
          /\ Owning(u)' => user'[u].e = e
          /\ status'[e] = "moving" => Owning(u)' \/ (~Owning(u) /\ status[e] = "moving")
          /\ Owning(u)' => ~TimerOwns(e)
          /\ TimerOwns(e) => status'[e] = "moving"
          /\ e \in chain => status'[e] = "timeout"
      BY <2>6, <2>8, <3>1
    <3> HIDE DEF R
    <3>3. QED
      BY ONLY OwnerInv, u \in Users, e \in Entries, <2>3, <2>4, <3>1, <3>2, StatusStep
  <2>10. QED
    BY <2>3, <2>7, <2>9 DEF OwnerInv
<1>5. ASSUME NEW e \in Entries, Unlink(u, e) PROVE OwnerInv'
  <2>1. /\ UNCHANGED <<timer, chain, status>> /\ user[u].pc = "unlink" /\ user[u].e = e
    BY <1>5 DEF Unlink, At, place
  <2>2. Owning(u) /\ ~user[u].fresh
    BY <1>1, <2>1 DEF OwnerInv, CallInv, Owning
  <2>3. CASE status[e] = "moving"
    <3> DEFINE r == [user[u] EXCEPT !.pc = "add", !.set = TRUE]
    <3>1. r.pc = "add" /\ r.e = e /\ r.fresh = user[u].fresh /\ R(r)
      BY <1>1, <2>1
    <3>2. user' = [user EXCEPT ![u] = r]
      BY <1>5, <2>3 DEF Unlink
    <3> HIDE DEF r
    <3>3. Shape' /\ user'[u] = r /\ Others(u)
      BY <1>1, <2>1, <3>1, <3>2, RecordOnly DEF CallPcs
    <3>4. Owning(u)'
      BY <2>2, <3>1, <3>3 DEF Owning
    <3>5. CallInv'
      BY <2>1, <2>2, <2>3, <3>1, <3>3, <3>4 DEF OwnerInv, CallInv, Owning, Others
    <3>6. StatusInv'
      BY <2>1, <2>2, <2>3, <3>1, <3>3, <3>4, StatusStep DEF OwnerInv, StatusInv
    <3>7. QED
      BY <3>3, <3>5, <3>6 DEF OwnerInv
  <2>4. CASE status[e] # "moving"
    <3>1. user' = [user EXCEPT ![u] = NoCall]
      BY <1>5, <2>4 DEF Unlink, Answer
    <3>2. Shape' /\ user'[u] = NoCall /\ Others(u)
      BY <1>1, <2>1, <3>1, RecordOnly DEF CallPcs
    <3>3. ~Owning(u)'
      BY <1>1, <3>2 DEF Owning
    <3>4. CallInv'
      BY <1>1, <2>1, <3>2, <3>3 DEF OwnerInv, CallInv, Owning, Others
    <3>5. StatusInv'
      BY <2>1, <2>2, <2>4, <3>2, <3>3, StatusStep DEF OwnerInv, StatusInv
    <3>6. QED
      BY <3>2, <3>4, <3>5 DEF OwnerInv
  <2>5. QED
    BY <2>3, <2>4
<1>6. ASSUME NEW e \in Entries, AddEx(u, e) PROVE OwnerInv'
  <2>1. /\ UNCHANGED <<timer, chain, status>> /\ user[u].pc = "add" /\ user[u].e = e
    BY <1>6 DEF AddEx, At, place
  <2> DEFINE r == AddCall(user[u])
  <2>2. /\ r.pc = IF user[u].fresh THEN "status" ELSE "link"
        /\ r.e = e /\ r.fresh = user[u].fresh /\ R(r)
    BY <1>1, <2>1 DEF AddCall
  <2>3. user' = [user EXCEPT ![u] = r]
    BY <1>6 DEF AddEx
  <2> HIDE DEF r
  <2>4. Shape' /\ user'[u] = r /\ Others(u)
    BY <1>1, <2>1, <2>2, <2>3, RecordOnly DEF CallPcs
  <2>5. Owning(u)' <=> Owning(u)
    BY <1>1, <2>1, <2>2, <2>4 DEF Owning
  <2>6. CallInv'
    BY <1>1, <2>1, <2>2, <2>4, <2>5 DEF OwnerInv, CallInv, Owning, Others
  <2>7. StatusInv'
    BY <1>1, <2>1, <2>2, <2>4, <2>5, StatusStep DEF OwnerInv, StatusInv
  <2>8. QED
    BY <2>4, <2>6, <2>7 DEF OwnerInv
<1>7. ASSUME NEW e \in Entries, SetStatus(u, e) PROVE OwnerInv'
  <2> DEFINE r == [user[u] EXCEPT !.pc = "link"]
  <2>1. /\ UNCHANGED <<timer, chain>> /\ user[u].pc = "status" /\ user[u].e = e
        /\ user' = [user EXCEPT ![u] = r] /\ status' = [status EXCEPT ![e] = "normal"]
    BY <1>7 DEF SetStatus, At, Go
  <2>2. r.pc = "link" /\ r.e = e /\ r.fresh = user[u].fresh /\ R(r)
    BY <1>1, <2>1
  <2> HIDE DEF r
  <2>3. Shape' /\ user'[u] = r /\ Others(u)
    BY <1>1, <2>1, <2>2, RecordSet DEF CallPcs, Others
  <2>4. status'[e] = "normal" /\ \A x \in Entries \ {e} : status'[x] = status[x]
    BY <2>1 DEF OwnerInv, Shape
  <2>5. /\ user[u].fresh /\ status[e] \in {"none", "timeout", "cleared"} /\ e \notin chain
        /\ \A v \in Users \ {u} : user[v].e = e => user[v].pc = "idle"
        /\ \A v \in Users : user[v].pc = "idle" => ~user[v].fresh
    BY <2>1 DEF OwnerInv, CallInv
  <2>6. ~Owning(u) /\ ~Owning(u)' /\ \A v \in Users : user[v].e = e => ~Owning(v)
    BY <2>1, <2>2, <2>3, <2>5 DEF Owning
  <2>7. CallInv'
    BY <1>1, <2>1, <2>2, <2>3, <2>4, <2>5, <2>6 DEF OwnerInv, CallInv, Owning, Others
  <2>8. ~TimerOwns(e)
    BY <2>5 DEF OwnerInv, StatusInv
  <2>9. StatusInv'
    BY <2>1, <2>3, <2>4, <2>5, <2>6, <2>8, StatusStep
  <2>10. QED
    BY <2>3, <2>7, <2>9 DEF OwnerInv
<1>8. ASSUME NEW e \in Entries, Link(u, e) PROVE OwnerInv'
  <2>1. /\ UNCHANGED <<timer, chain>> /\ user[u].pc = "link" /\ user[u].e = e
        /\ user' = [user EXCEPT ![u] = NoCall]
        /\ status' = [status EXCEPT ![e] = IF user[u].fresh THEN status[e] ELSE "normal"]
    BY <1>8 DEF Link, At, Answer, place, OwnerInv, Shape
  <2>2. (IF user[u].fresh THEN status[e] ELSE "normal")
          \in {"none", "normal", "moving", "timeout", "cleared"}
    BY DEF OwnerInv, Shape
  <2>3. Shape' /\ user'[u] = NoCall /\ Others(u)
    BY <1>1, <2>1, <2>2, RecordSet DEF CallPcs, Others
  <2>4. /\ status'[e] = IF user[u].fresh THEN status[e] ELSE "normal"
        /\ \A x \in Entries \ {e} : status'[x] = status[x]
    BY <2>1 DEF OwnerInv, Shape
  <2>5. ~Owning(u)'
    BY <1>1, <2>3 DEF Owning
  <2>6. /\ ~user[u].fresh => Owning(u) /\ status[e] = "moving"
        /\ \A v \in Users \ {u} : user[v].e = e => ~Owning(v)
        /\ \A v \in Users \ {u} : user[v].fresh => user[v].e # e
    BY <1>1, <2>1 DEF OwnerInv, CallInv, Owning
  <2>7. CallInv'
    BY <1>1, <2>1, <2>3, <2>4, <2>5, <2>6 DEF OwnerInv, CallInv, Owning, Others
  <2>8. user[u].fresh => ~Owning(u)
    BY DEF Owning
  <2>9. StatusInv'
    BY <1>1, <2>1, <2>3, <2>4, <2>5, <2>6, <2>8, StatusStep DEF OwnerInv, StatusInv
  <2>10. QED
    BY <2>3, <2>7, <2>9 DEF OwnerInv
<1>9. ASSUME NEW e \in Entries, SetRehash(u, e) PROVE OwnerInv'
  <2> DEFINE r == [user[u] EXCEPT !.pc = "store"]
  <2>1. r.pc = "store" /\ r.e = user[u].e /\ r.fresh = user[u].fresh /\ R(r)
    BY <1>1
  <2>2. /\ user' = [user EXCEPT ![u] = r] /\ UNCHANGED <<timer, chain, status>>
        /\ user[u].pc = "set" /\ user[u].e = e
    BY <1>9 DEF SetRehash, At, Go, place
  <2>3. ~user[u].fresh /\ \A v \in Users : user[v].e = e => ~user[v].fresh
    BY <2>2 DEF OwnerInv, CallInv
  <2> HIDE DEF r
  <2>4. Shape' /\ user'[u] = r /\ Others(u)
    BY <1>1, <2>1, <2>2, RecordOnly DEF CallPcs
  <2>5. QED
    BY <1>1, <2>1, <2>2, <2>3, <2>4, Asks DEF Owning
<1>10. QED
  BY <1>2, <1>3, <1>4, <1>5, <1>6, <1>7, <1>8, <1>9 DEF Continue

-----------------------------------------------------------------------------
(* The thread in timeouts_get *)

\* A step of it that concerns no status.
LEMMA TimerWaits ==
  ASSUME OwnerInv, UNCHANGED <<status, user>>, chain' \subseteq chain, TimerShape',
         timer.pc # "relink", timer'.pc # "relink"
  PROVE  OwnerInv'
<1>1. Shape'
  BY DEF OwnerInv, Shape, CallShape
<1>2. CallInv'
  BY DEF OwnerInv, CallInv, Owning
<1>3. \A x \in Entries : ~TimerOwns(x) /\ ~TimerOwns(x)'
  BY DEF TimerOwns, Here
<1>4. StatusInv'
  BY <1>3 DEF OwnerInv, StatusInv, Owning
<1>5. QED
  BY <1>1, <1>2, <1>4 DEF OwnerInv

LEMMA ScanNext ==
  ASSUME OwnerInv, Scan \/ \E t \in Times : Call(t) PROVE OwnerInv'
<1> DEFINE Gives(s) == \A x \in Entries : status'[x] = IF x = e0 THEN s ELSE status[x]
<1>1. TimerShape
  BY DEF OwnerInv, Shape
<1>2. CASE \E t \in Times : Call(t)
  <2>1. PICK t \in Times : Call(t)
    BY <1>2
  <2>2. QED
    BY <1>1, <2>1, TimerWaits DEF Call, place, TimerShape
<1>3. CASE Advance
  BY <1>1, <1>3, TimerWaits DEF Advance, place, TimerShape
<1>4. CASE Lock
  BY <1>1, <1>4, TimerWaits DEF Lock, place, TimerShape
<1>5. CASE Keep \/ Stay
  BY <1>1, <1>5, TimerWaits DEF Keep, Stay, Here, Step, place, TimerShape
<1>6. CASE Expired \/ NotOver \/ Rehash \/ Misplaced
  BY <1>1, <1>6, TimerWaits DEF Expired, NotOver, Rehash, Misplaced, Here, place, TimerShape
<1>7. CASE NotMine
  BY <1>1, <1>7, TimerWaits DEF NotMine, Here, Step, place, TimerShape
<1>8. CASE Unlock
  BY <1>1, <1>8, TimerWaits DEF Unlock, place, TimerShape
<1>9. CASE Return
  BY <1>1, <1>9, TimerWaits DEF Return, Idle, place, TimerShape
<1>10. CASE TakeOut
  <2>1. /\ timer.pc = "move" /\ timer.rest # <<>> /\ status[e0] = "normal"
        /\ UNCHANGED <<user, chain>> /\ timer' = [timer EXCEPT !.pc = "relink"]
        /\ status' = [status EXCEPT ![e0] = "moving"]
    BY <1>10 DEF TakeOut, Here
  <2>2. Gives("moving") /\ Shape'
    BY <1>1, <2>1 DEF OwnerInv, Shape, CallShape, TimerShape
  <2>3. timer'.pc = "relink" /\ timer'.rest = timer.rest
    BY <1>1, <2>1 DEF TimerShape
  <2>4. \A x \in Entries : ~TimerOwns(x) /\ (TimerOwns(x)' <=> x = e0)
    BY <2>1, <2>3 DEF TimerOwns, Here, e0
  <2>5. \A u \in Users : user[u].e \in Entries /\ (Owning(u)' <=> Owning(u))
    BY <2>1 DEF OwnerInv, Shape, Owning
  <2>6. CallInv'
    BY <2>1, <2>2, <2>5 DEF OwnerInv, CallInv
  <2>7. \A u \in Users : Owning(u) => user[u].e # e0
    BY <2>1 DEF OwnerInv, CallInv
  <2>8. StatusInv'
    BY <2>1, <2>2, <2>4, <2>5, <2>7 DEF OwnerInv, StatusInv
  <2>9. QED
    BY <2>2, <2>6, <2>8 DEF OwnerInv
<1>11. CASE Relink
  <2>1. /\ timer.pc = "relink" /\ timer.rest # <<>>
        /\ UNCHANGED <<user, chain>> /\ Step
        /\ status' = [status EXCEPT ![e0] = "normal"]
    BY <1>11 DEF Relink, Here
  <2>2. Gives("normal") /\ TimerShape'
    BY <1>1, <2>1 DEF OwnerInv, Shape, TimerShape, Step
  <2>3. Shape'
    BY <2>1, <2>2 DEF OwnerInv, Shape, CallShape
  <2>4. \A x \in Entries : (TimerOwns(x) <=> x = e0) /\ ~TimerOwns(x)'
    BY <1>1, <2>1 DEF TimerOwns, Here, Step, TimerShape
  <2>5. \A u \in Users : user[u].e \in Entries /\ (Owning(u)' <=> Owning(u))
    BY <2>1 DEF OwnerInv, Shape, Owning
  <2>6. /\ e0 \in Entries => status[e0] = "moving" /\ e0 \notin chain
        /\ \A u \in Users : Owning(u) => user[u].e # e0
    BY <2>4, <2>5 DEF OwnerInv, StatusInv
  <2>7. CallInv'
    BY <2>1, <2>2, <2>5, <2>6 DEF OwnerInv, CallInv
  <2>8. StatusInv'
    BY <2>1, <2>2, <2>4, <2>5, <2>6 DEF OwnerInv, StatusInv
  <2>9. QED
    BY <2>3, <2>7, <2>8 DEF OwnerInv
<1>12. CASE TimeOut
  <2>1. /\ timer.pc = "expire" /\ timer.rest # <<>> /\ status[e0] = "normal"
        /\ UNCHANGED user /\ chain' = chain \cup {e0} /\ Step
        /\ status' = [status EXCEPT ![e0] = "timeout"]
    BY <1>12 DEF TimeOut, Here
  <2>2. Gives("timeout") /\ TimerShape'
    BY <1>1, <2>1 DEF OwnerInv, Shape, TimerShape, Step
  <2>3. Shape'
    BY <2>1, <2>2 DEF OwnerInv, Shape, CallShape
  <2>4. \A x \in Entries : ~TimerOwns(x) /\ ~TimerOwns(x)'
    BY <1>1, <2>1 DEF TimerOwns, Here, Step, TimerShape
  <2>5. \A u \in Users : user[u].e \in Entries /\ (Owning(u)' <=> Owning(u))
    BY <2>1 DEF OwnerInv, Shape, Owning
  <2>6. \A u \in Users : Owning(u) => user[u].e # e0
    BY <2>1 DEF OwnerInv, CallInv
  <2>7. CallInv'
    BY <2>1, <2>2, <2>5, <2>6 DEF OwnerInv, CallInv
  <2>8. StatusInv'
    BY <2>1, <2>2, <2>4, <2>5, <2>6 DEF OwnerInv, StatusInv
  <2>9. QED
    BY <2>3, <2>7, <2>8 DEF OwnerInv
<1>13. QED
  BY <1>2, <1>3, <1>4, <1>5, <1>6, <1>7, <1>8, <1>9, <1>10, <1>11, <1>12 DEF Scan

LEMMA OwnerNext == OwnerInv /\ [Next]_vars => OwnerInv'
<1>1. ASSUME OwnerInv, NEW u \in Users, Begin(u) \/ Continue(u) PROVE OwnerInv'
  BY <1>1, BeginNext, ContinueNext
<1>2. ASSUME OwnerInv, Scan \/ \E t \in Times : Call(t) PROVE OwnerInv'
  BY <1>2, ScanNext
<1>3. ASSUME OwnerInv, UNCHANGED vars PROVE OwnerInv'
  BY <1>3 DEF vars, place, OwnerInv, Shape, CallShape, TimerShape, CallInv, StatusInv, Owning,
              TimerOwns, Here, e0
<1>4. QED
  BY <1>1, <1>2, <1>3 DEF Next

\* Whatever the threads do, in whatever order: of those who want to clear, move
\* or time out an entry one has its status, and a MOVING entry has somebody who
\* will end it (check_set_entry_status, locked_timer.c:186; timeouts_get, l.311
\* and l.330).
THEOREM OneOwnerCorrect == Spec => []OneOwner
<1>1. ASSUME OwnerInv PROVE OneOwner
  <2>1. \A e \in Entries, u \in Users : u \in Owners(e) <=> Owning(u) /\ user[u].e = e
    BY DEF Owners, Owning
  <2>2. \A e \in Entries : Owners(e) \subseteq Users
    BY DEF Owners
  <2>3. QED
    BY <1>1, <2>1, <2>2 DEF OneOwner, OwnerInv, CallInv, StatusInv
<1>2. QED
  BY <1>1, OwnerInit, OwnerNext, PTL DEF Spec

-----------------------------------------------------------------------------
(* The timer as TimedEntries *)

\* What Abstract substitutes for the state of an entry.
StateOf(e) ==
  IF e \in chain THEN "due" ELSE IF status[e] \in {"normal", "moving"} THEN "armed" ELSE "off"
States == [e \in Entries |-> StateOf(e)]

LEMMA Moves ==
  ASSUME NEW e \in Entries, NEW s, StateOf(e)' = s,
         \A x \in Entries \ {e} : StateOf(x)' = StateOf(x)
  PROVE  States' = [States EXCEPT ![e] = s]
BY DEF States

LEMMA MoveStep ==
  ASSUME NEW e \in Entries, \A x \in Entries \ {e} : StateOf(x)' = StateOf(x),
         \/ StateOf(e) = "off" /\ StateOf(e)' = "armed"
         \/ StateOf(e) = "armed" /\ StateOf(e)' = "off"
         \/ StateOf(e) = "armed" /\ StateOf(e)' = "due"
  PROVE  Abstract!ENext
<1>1. States' = [States EXCEPT ![e] = StateOf(e)'] /\ States[e] = StateOf(e)
  BY Moves DEF States
<1>2. \/ Abstract!Move(e, "off", "armed")
      \/ Abstract!Move(e, "armed", "off")
      \/ Abstract!Move(e, "armed", "due")
  BY <1>1 DEF Abstract!Move, States, StateOf
<1>3. QED
  BY <1>2 DEF Abstract!ENext

LEMMA SameStates ==
  ASSUME \A e \in Entries : StateOf(e)' = StateOf(e)
  PROVE  UNCHANGED States
BY DEF States

LEMMA TimerMaps == OwnerInv /\ [Next]_vars => Abstract!ENext \/ UNCHANGED States
<1> SUFFICES ASSUME OwnerInv, [Next]_vars PROVE Abstract!ENext \/ UNCHANGED States
  OBVIOUS
<1>1. CASE UNCHANGED <<status, chain>>
  BY <1>1, SameStates DEF StateOf
<1>2. ASSUME NEW u \in Users, Begin(u) PROVE UNCHANGED <<status, chain>>
  BY <1>2 DEF Begin, Add, Remove, Modify, place
<1>3. ASSUME NEW u \in Users, NEW e \in Entries,
             Refused(u, e) \/ Unlink(u, e) \/ SetRehash(u, e) \/ SetLater(u, e) \/ AddEx(u, e)
      PROVE  UNCHANGED <<status, chain>>
  BY <1>3 DEF Refused, Unlink, SetRehash, SetLater, AddEx, place
<1>4. ASSUME NEW u \in Users, NEW e \in Entries, Clear(u, e) \/ SetStatus(u, e)
      PROVE  Abstract!ENext
  <2>1. /\ UNCHANGED chain /\ e \notin chain
        /\ \/ status[e] = "normal" /\ status' = [status EXCEPT ![e] = "cleared"]
           \/ /\ status[e] \in {"none", "timeout", "cleared"}
              /\ status' = [status EXCEPT ![e] = "normal"]
    BY <1>4 DEF Clear, Check, SetStatus, At, OwnerInv, CallInv, StatusInv
  <2>2. \A x \in Entries \ {e} : StateOf(x)' = StateOf(x)
    BY <2>1 DEF StateOf, OwnerInv, Shape
  <2>3. \/ StateOf(e) = "armed" /\ StateOf(e)' = "off"
        \/ StateOf(e) = "off" /\ StateOf(e)' = "armed"
    BY <2>1 DEF StateOf, OwnerInv, Shape
  <2>4. QED
    BY <2>2, <2>3, MoveStep
<1>5. ASSUME NEW u \in Users, NEW e \in Entries, Take(u, e) \/ CheckLater(u, e) \/ Link(u, e)
      PROVE  UNCHANGED States
  <2>1. UNCHANGED chain /\ \A x \in Entries \ {e} : status'[x] = status[x]
    BY <1>5 DEF Take, CheckLater, Check, Link, place, OwnerInv, Shape
  <2>2. \/ status'[e] = status[e]
        \/ status[e] \in {"normal", "moving"} /\ status'[e] \in {"normal", "moving"}
    BY <1>5 DEF Take, CheckLater, Check, Link, At, place, OwnerInv, Shape, CallInv, Owning
  <2>3. QED
    BY <2>1, <2>2, SameStates DEF StateOf
<1>6. ASSUME \/ Advance \/ Lock \/ Expired \/ NotOver \/ Stay \/ Rehash \/ Keep \/ Misplaced
             \/ NotMine \/ Unlock
      PROVE  UNCHANGED <<status, chain>>
  BY <1>6 DEF Advance, Lock, Expired, NotOver, Stay, Rehash, Keep, Misplaced, NotMine, Unlock,
              place
<1>7. ASSUME TakeOut \/ Relink PROVE UNCHANGED States
  <2>1. UNCHANGED chain /\ \A x \in Entries \ {e0} : status'[x] = status[x]
    BY <1>7 DEF TakeOut, Relink, OwnerInv, Shape
  <2>2. e0 \in Entries => /\ status[e0] \in {"normal", "moving"}
                         /\ status'[e0] \in {"normal", "moving"}
    BY <1>7 DEF TakeOut, Relink, OwnerInv, Shape, StatusInv, TimerOwns
  <2>3. QED
    BY <2>1, <2>2, SameStates DEF StateOf
<1>8. ASSUME TimeOut PROVE Abstract!ENext \/ UNCHANGED States
  <2>1. /\ status[e0] = "normal" /\ status' = [status EXCEPT ![e0] = "timeout"]
        /\ chain' = chain \cup {e0}
    BY <1>8 DEF TimeOut
  <2>2. \A x \in Entries \ {e0} : StateOf(x)' = StateOf(x)
    BY <2>1 DEF StateOf, OwnerInv, Shape
  <2>3. CASE e0 \in Entries
    <3>1. PICK e \in Entries : e = e0
      BY <2>3
    <3>2. StateOf(e) = "armed" /\ StateOf(e)' = "due"
      BY <2>1, <3>1 DEF StateOf, OwnerInv, StatusInv
    <3>3. QED
      BY <2>2, <3>1, <3>2, MoveStep
  <2>4. CASE e0 \notin Entries
    BY <2>2, <2>4, SameStates
  <2>5. QED
    BY <2>3, <2>4
<1>9. ASSUME Return PROVE Abstract!ENext
  <2>1. chain' = {} /\ status' = status
    BY <1>9 DEF Return, place
  <2>2. \A e \in Entries : StateOf(e)' = IF StateOf(e) = "due" THEN "off" ELSE StateOf(e)
    BY <2>1 DEF StateOf, OwnerInv, StatusInv
  <2>3. Abstract!Collect
    BY <2>2 DEF Abstract!Collect, StateOf
  <2>4. QED
    BY <2>3 DEF Abstract!ENext
<1>10. ASSUME NEW t \in Times, Call(t) PROVE UNCHANGED <<status, chain>>
  BY <1>10 DEF Call, place
<1>11. CASE UNCHANGED vars
  BY <1>1, <1>11 DEF vars, place
<1>12. ASSUME NEW u \in Users, Continue(u) PROVE Abstract!ENext \/ UNCHANGED States
  BY <1>1, <1>3, <1>4, <1>5, <1>12 DEF Continue
<1>13. CASE Scan
  BY <1>1, <1>6, <1>7, <1>8, <1>9, <1>13 DEF Scan
<1>14. QED
  BY <1>1, <1>2, <1>10, <1>11, <1>12, <1>13 DEF Next

\* An entry that is added is either handed over by timeouts_get, once, or
\* cleared, never both, in whatever order the threads get its status.
THEOREM TimesOutOnceCorrect == Spec => TimesOutOnce
<1>1. Init => States = [e \in Entries |-> "off"]
  BY DEF Init, States, StateOf
<1>2. Init => Abstract!EInit
  BY <1>1 DEF Abstract!EInit, States, StateOf
<1>3. OwnerInv /\ [Next]_vars => [Abstract!ENext]_States
  BY TimerMaps
<1>4. QED
  BY <1>2, <1>3, OwnerInit, OwnerNext, PTL DEF Spec, TimesOutOnce, Abstract!ESpec, States, StateOf

-----------------------------------------------------------------------------
(* Lists *)

LEMMA NotRemoved ==
  ASSUME NEW S, NEW list \in Seq(S), NEW e, \A i \in 1..Len(list) : list[i] # e
  PROVE  Lists!RemoveFirst(list, e) = list
BY DEF Lists!RemoveFirst

LEMMA FirstIs ==
  ASSUME NEW S, NEW list \in Seq(S), NEW k \in 1..Len(list),
         \A i \in 1..Len(list) : list[i] = list[k] => i = k
  PROVE  Lists!RemoveFirst(list, list[k]) = Lists!RemoveAt(list, k)
<1>1. {i \in 1..Len(list) : list[i] = list[k]} = {k}
  OBVIOUS
<1>2. Lists!SelectInSeq(list, LAMBDA v : v = list[k]) = k
  BY <1>1 DEF Lists!SelectInSeq, Lists!Min
<1>3. QED
  BY <1>2 DEF Lists!RemoveFirst

LEMMA Removed ==
  ASSUME NEW S, NEW list \in Seq(S), NEW k \in 1..Len(list)
  PROVE  LET less == Lists!RemoveAt(list, k) IN
         /\ less \in Seq(S) /\ Len(less) = Len(list) - 1
         /\ \A i \in 1..Len(list) - 1 : less[i] = IF i < k THEN list[i] ELSE list[i + 1]
         /\ SubSeq(less, k, Len(less)) = SubSeq(list, k + 1, Len(list))
<1> DEFINE a == SubSeq(list, 1, k - 1)
           b == SubSeq(list, k + 1, Len(list))
<1>1. a \in Seq(S) /\ Len(a) = k - 1 /\ \A i \in 1..k - 1 : a[i] = list[i]
  OBVIOUS
<1>2. b \in Seq(S) /\ Len(b) = Len(list) - k /\ \A i \in 1..Len(list) - k : b[i] = list[k + i]
  OBVIOUS
<1> HIDE DEF a, b
<1>3. /\ a \o b \in Seq(S) /\ Len(a \o b) = Len(list) - 1
      /\ \A i \in 1..Len(list) - 1 : (a \o b)[i] = IF i <= k - 1 THEN a[i] ELSE b[i - (k - 1)]
  BY <1>1, <1>2, ConcatProperties
<1>4. \A i \in 1..Len(list) - 1 : (a \o b)[i] = IF i < k THEN list[i] ELSE list[i + 1]
  BY <1>1, <1>2, <1>3
<1>5. SubSeq(a \o b, k, Len(a \o b)) = b
  <2> DEFINE x == a \o b
             c == SubSeq(x, k, Len(x))
  <2>0. x \in Seq(S) /\ Len(x) = Len(list) - 1
    BY <1>3
  <2> HIDE DEF x
  <2>1. c \in Seq(S) /\ Len(c) = Len(list) - k /\ \A i \in 1..Len(list) - k : c[i] = x[k + i - 1]
    BY <2>0
  <2>2. \A i \in 1..Len(list) - k : c[i] = b[i]
    BY <1>2, <1>4, <2>1 DEF x
  <2> HIDE DEF c
  <2>3. c = b
    BY <1>2, <2>1, <2>2, SeqEqual
  <2>4. QED
    BY <2>3 DEF c, x
<1>6. QED
  BY <1>3, <1>4, <1>5 DEF a, b, Lists!RemoveAt

Suffix(rest, list) == \E i \in 0..Len(list) : rest = SubSeq(list, i + 1, Len(list))

LEMMA SuffixTail ==
  ASSUME NEW S, NEW list \in Seq(S), NEW rest, Suffix(rest, list), rest # <<>>
  PROVE  \E k \in 1..Len(list) :
           /\ Head(rest) = list[k] /\ rest = SubSeq(list, k, Len(list))
           /\ Tail(rest) = SubSeq(list, k + 1, Len(list))
<1>1. PICK i \in 0..Len(list) : rest = SubSeq(list, i + 1, Len(list))
  BY DEF Suffix
<1>2. i < Len(list) /\ rest \in Seq(S) /\ Len(rest) = Len(list) - i
      /\ \A j \in 1..Len(rest) : rest[j] = list[i + j]
  BY <1>1
<1> DEFINE b == SubSeq(list, i + 2, Len(list))
<1>3. b \in Seq(S) /\ Len(b) = Len(list) - i - 1 /\ \A j \in 1..Len(b) : b[j] = list[i + 1 + j]
  BY <1>2
<1>4. Tail(rest) \in Seq(S) /\ Len(Tail(rest)) = Len(rest) - 1
      /\ \A j \in 1..Len(rest) - 1 : Tail(rest)[j] = rest[j + 1]
  BY <1>2, HeadTailProperties
<1>5. \A j \in 1..Len(b) : Tail(rest)[j] = b[j]
  BY <1>2, <1>3, <1>4
<1> HIDE DEF b
<1>6. Tail(rest) = b
  BY <1>2, <1>3, <1>4, <1>5, SeqEqual
<1>7. Head(rest) = list[i + 1]
  BY <1>2
<1>8. QED
  BY <1>1, <1>2, <1>6, <1>7 DEF b

(* The slots of the wheel *)

LEMMA Division ==
  ASSUME NEW n \in Nat \ {0}, NEW m \in Nat
  PROVE  m = n * (m \div n) + (m % n) /\ m \div n \in Nat /\ m % n \in 0..n - 1
OBVIOUS

LEMMA Remainder ==
  ASSUME NEW n \in Nat \ {0}, NEW q \in Nat, NEW r \in 0..n - 1
  PROVE  n * q \in Nat /\ (n * q + r) % n = r
BY SMTT(30)

LEMMA OneMore ==
  ASSUME NEW n \in Nat, NEW q \in Nat PROVE n * (q + 1) = n * q + n
BY SMTT(30)

LEMMA Hits ==
  ASSUME NEW n \in Nat \ {0}, NEW m \in Nat, NEW p \in 0..n - 1
  PROVE  \E c \in m..m + n - 1 : (c % n) = p
<1> DEFINE q == m \div n
           r == m % n
           a == n * q
<1>1. r \in 0..n - 1 /\ m = a + r /\ q \in Nat
  BY Division
<1>2. ((a + p) % n) = p /\ a \in Nat
  BY <1>1, Remainder
<1>3. ((n * (q + 1) + p) % n) = p
  <2>1. q + 1 \in Nat
    BY <1>1
  <2> HIDE DEF q
  <2>2. QED
    BY <2>1, Remainder
<1>4. n * (q + 1) = a + n
  BY <1>1, OneMore
<1> HIDE DEF q, r, a
<1>5. ((a + n + p) % n) = p
  BY <1>3, <1>4
<1>6. CASE p >= r
  <2>1. a + p \in m..m + n - 1
    BY <1>1, <1>2, <1>6
  <2>2. QED
    BY <1>2, <2>1
<1>7. CASE p < r
  <2>1. a + n + p \in m..m + n - 1
    BY <1>1, <1>2, <1>7
  <2>2. QED
    BY <1>5, <2>1
<1>8. p >= r \/ p < r
  BY <1>1
<1>9. QED
  BY <1>6, <1>7, <1>8

-----------------------------------------------------------------------------
(* Where the entries are *)

Walking == timer.pc \in {"scan", "late", "dest", "move", "expire", "relink"}
TimerPcs == {"idle", "next", "lock", "scan", "late", "dest", "move", "expire", "relink"}
SlotType == slots \in [Slots -> Seq(Entries)]
TimeType ==
  /\ now \in Nat
  /\ expires \in [Entries -> Nat] /\ since \in [Entries -> Nat]
  /\ slotIndex \in [Entries -> Slots]
CallType == \A u \in Users : user[u].slot \in Slots /\ user[u].new \in Nat
TimerType ==
  /\ timer.pc \in TimerPcs /\ timer.target \in Nat
  /\ timer.slot \in Slots /\ timer.dest \in Slots /\ timer.rest \in Seq(Entries)
WheelType == SlotType /\ TimeType /\ CallType /\ TimerType

InList(e, s) == \E i \in 1..Len(slots[s]) : slots[s][i] = e
InRest(e) == \E i \in 1..Len(timer.rest) : timer.rest[i] = e

\* An entry is linked from the end of its add until the one who has won its
\* status unlinks it; it is in the list of its slot then, once.
Linked(e) ==
  \/ \E u \in Users : At(u, e, "unlink")
  \/ status[e] = "normal" /\ ~\E u \in Users : user[u].e = e /\ user[u].fresh
Once == \A s \in Slots : \A i, j \in 1..Len(slots[s]) : slots[s][i] = slots[s][j] => i = j
WhereInv ==
  /\ Once
  /\ \A e \in Entries, s \in Slots : InList(e, s) <=> Linked(e) /\ s = slotIndex[e]

\* What a call has read of its entry's slot is still so.
CallSlotInv ==
  \A u \in Users :
    /\ user[u].pc = "unlink" => user[u].slot = slotIndex[user[u].e]
    /\ user[u].fresh /\ user[u].pc = "link" =>
         user[u].slot = slotIndex[user[u].e] /\ status[user[u].e] = "normal"

\* The lock of a slot is with the walk or with a modify.
LockInv == Walking => Unheld(timer.slot)

\* The walk over the slot of the tick before now.
WalkInv ==
  /\ timer.pc \in {"late", "dest", "move", "expire", "relink"} => timer.rest # <<>>
  /\ timer.pc \in {"move", "relink"} => timer.dest # timer.slot
  /\ timer.pc \in {"scan", "late", "dest", "move", "expire"} => Suffix(timer.rest, slots[timer.slot])
  /\ timer.pc = "relink" => Suffix(Tail(timer.rest), slots[timer.slot])
  /\ Walking \/ timer.pc = "lock" =>
       now >= 1 /\ timer.slot = Index(now - 1) /\ now <= timer.target

\* Since the time of an entry was settled the timer has not passed by its slot
\* when it was due: Done tells how far the timer has got.
Due(e) == Later(expires[e], since[e])
Mine(e) == Linked(e) /\ status[e] = "normal"
Done == IF Walking \/ timer.pc = "lock" THEN now - 1 ELSE now
TimeInv ==
  /\ \A e \in Entries : since[e] <= now
  /\ \A e \in Entries : Mine(e) =>
       \A c \in Nat : Due(e) <= c /\ c < Done => Index(c) # slotIndex[e]
  /\ Walking =>
       \A e \in Entries : Mine(e) /\ slotIndex[e] = timer.slot /\ ~InRest(e) => Due(e) >= now
  /\ timer.pc \in {"late", "dest", "move", "relink"} => Due(e0) >= now
  /\ timer.pc = "expire" => expires[e0] < timer.target \/ e0 \in wrongLock

WheelInv ==
  OwnerInv /\ WheelType /\ WhereInv /\ CallSlotInv /\ LockInv /\ WalkInv /\ TimeInv

LEMMA IndexType ==
  /\ \A t \in Nat : Index(t) \in Slots
  /\ 0 \in Slots
BY TimerAssumption, Division DEF Index, Slots

LEMMA WheelInit == Init => WheelInv
<1> SUFFICES ASSUME Init PROVE WheelInv
  OBVIOUS
<1>1. (CHOOSE e \in Entries : TRUE) \in Entries
  BY TimerAssumption
<1>2. timer = [pc |-> "idle", target |-> 0, slot |-> 0, rest |-> <<>>, dest |-> 0]
  BY DEF Init, Idle
<1>3. \A u \in Users : /\ user[u].pc = "idle" /\ user[u].slot = 0 /\ user[u].new = 0
                       /\ user[u].fresh = FALSE
  BY DEF Init, NoCall, Starts
<1>4. \A s \in Slots : slots[s] = <<>>
  BY DEF Init
<1>5. WheelType
  BY <1>2, <1>3, IndexType DEF Init, WheelType, SlotType, TimeType, CallType, TimerType, TimerPcs
<1>6. \A e \in Entries : ~Linked(e)
  BY <1>3 DEF Linked, At, Init
<1>7. WhereInv
  BY <1>4, <1>6 DEF WhereInv, Once, InList
<1>8. CallSlotInv
  BY <1>3 DEF CallSlotInv
<1>9. WalkInv
  BY <1>2 DEF WalkInv, Walking
<1>10. TimeInv
  BY <1>2, <1>6 DEF TimeInv, Walking, Mine, Init
<1>11. LockInv
  BY <1>2 DEF LockInv, Walking
<1>12. QED
  BY <1>5, <1>7, <1>8, <1>9, <1>10, <1>11, OwnerInit DEF WheelInv

\* fc_list_del_init.
LEMMA Unlinks ==
  ASSUME SlotType, Once, NEW e \in Entries, slots' = Unlinked(e)
  PROVE  /\ SlotType' /\ Once'
         /\ \A x \in Entries, s \in Slots : InList(x, s)' <=> InList(x, s) /\ x # e
         /\ \A s \in Slots : ~InList(e, s) => slots'[s] = slots[s]
         /\ \A s \in Slots : \A k \in 1..Len(slots[s]) : slots[s][k] = e =>
              /\ Len(slots'[s]) = Len(slots[s]) - 1
              /\ SubSeq(slots'[s], k, Len(slots'[s])) = SubSeq(slots[s], k + 1, Len(slots[s]))
<1>1. \A s \in Slots : slots'[s] = Lists!RemoveFirst(slots[s], e) /\ slots[s] \in Seq(Entries)
  BY DEF Unlinked, SlotType
<1>2. ASSUME NEW s \in Slots, ~InList(e, s) PROVE slots'[s] = slots[s]
  BY <1>1, <1>2, NotRemoved DEF InList
<1>3. ASSUME NEW s \in Slots, NEW k \in 1..Len(slots[s]), slots[s][k] = e
      PROVE  /\ slots'[s] \in Seq(Entries) /\ Len(slots'[s]) = Len(slots[s]) - 1
             /\ \A i \in 1..Len(slots[s]) - 1 :
                  slots'[s][i] = IF i < k THEN slots[s][i] ELSE slots[s][i + 1]
             /\ SubSeq(slots'[s], k, Len(slots'[s])) = SubSeq(slots[s], k + 1, Len(slots[s]))
  <2>1. slots[s] \in Seq(Entries) /\ \A i \in 1..Len(slots[s]) : slots[s][i] = slots[s][k] => i = k
    BY <1>1 DEF Once
  <2>2. slots'[s] = Lists!RemoveAt(slots[s], k)
    BY <1>1, <1>3, <2>1, FirstIs
  <2>3. QED
    BY <2>1, <2>2, Removed
<1>4. ASSUME NEW s \in Slots
      PROVE  /\ slots'[s] \in Seq(Entries)
             /\ \A i, j \in 1..Len(slots'[s]) : slots'[s][i] = slots'[s][j] => i = j
             /\ \A x \in Entries : InList(x, s)' <=> InList(x, s) /\ x # e
  <2>1. CASE ~InList(e, s)
    BY <1>1, <1>2, <2>1 DEF InList, Once
  <2>2. CASE InList(e, s)
    <3>1. PICK k \in 1..Len(slots[s]) : slots[s][k] = e
      BY <2>2 DEF InList
    <3> DEFINE a == slots[s]
               b == slots'[s]
    <3>2. /\ a \in Seq(Entries) /\ b \in Seq(Entries) /\ Len(b) = Len(a) - 1
          /\ \A i \in 1..Len(a) - 1 : b[i] = IF i < k THEN a[i] ELSE a[i + 1]
          /\ k \in 1..Len(a) /\ a[k] = e
          /\ \A i, j \in 1..Len(a) : a[i] = a[j] => i = j
      BY <1>1, <1>3, <3>1 DEF Once
    <3> HIDE DEF a, b
    <3>3. ASSUME NEW i \in 1..Len(b), NEW j \in 1..Len(b), b[i] = b[j] PROVE i = j
      <4> DEFINE old(n) == IF n < k THEN n ELSE n + 1
      <4>1. old(i) \in 1..Len(a) /\ old(j) \in 1..Len(a) /\ a[old(i)] = a[old(j)]
        BY <3>2, <3>3
      <4>2. old(i) = old(j)
        BY <3>2, <4>1
      <4>3. QED
        BY <3>2, <4>2
    <3>4. ASSUME NEW x \in Entries, x # e, NEW i \in 1..Len(a), a[i] = x
          PROVE  \E j \in 1..Len(b) : b[j] = x
      <4>1. CASE i < k
        BY <3>2, <3>4, <4>1
      <4>2. CASE i > k
        <5>1. i - 1 \in 1..Len(b) /\ b[i - 1] = x
          BY <3>2, <3>4, <4>2
        <5>2. QED
          BY <5>1
      <4>3. QED
        BY <3>2, <3>4, <4>1, <4>2
    <3>5. ASSUME NEW x \in Entries, NEW j \in 1..Len(b), b[j] = x
          PROVE  x # e /\ \E i \in 1..Len(a) : a[i] = x
      BY <3>2, <3>5
    <3>6. QED
      BY <3>2, <3>3, <3>4, <3>5 DEF a, b, InList
  <2>3. QED
    BY <2>1, <2>2
<1>5. SlotType'
  BY <1>1, <1>4 DEF SlotType, Unlinked
<1>6. QED
  BY <1>2, <1>3, <1>4, <1>5 DEF Once

\* fc_list_add_tail.
LEMMA Links ==
  ASSUME SlotType, Once, NEW e \in Entries, NEW s \in Slots, ~InList(e, s),
         slots' = [slots EXCEPT ![s] = Append(@, e)]
  PROVE  /\ SlotType' /\ Once'
         /\ \A x \in Entries, r \in Slots : InList(x, r)' <=> InList(x, r) \/ (x = e /\ r = s)
         /\ \A r \in Slots \ {s} : slots'[r] = slots[r]
<1>1. /\ slots[s] \in Seq(Entries) /\ slots'[s] = Append(slots[s], e)
      /\ \A r \in Slots \ {s} : slots'[r] = slots[r]
  BY DEF SlotType
<1> DEFINE a == slots[s]
           b == slots'[s]
<1>2. /\ a \in Seq(Entries) /\ b \in Seq(Entries) /\ Len(b) = Len(a) + 1
      /\ \A i \in 1..Len(a) : b[i] = a[i]
      /\ b[Len(b)] = e
      /\ \A i \in 1..Len(a) : a[i] # e
      /\ \A i, j \in 1..Len(a) : a[i] = a[j] => i = j
  BY <1>1 DEF Once, InList
<1> HIDE DEF a, b
<1>3. \A i, j \in 1..Len(b) : b[i] = b[j] => i = j
  BY <1>2
<1>4. \A x \in Entries :
        (\E i \in 1..Len(b) : b[i] = x) <=> (\E i \in 1..Len(a) : a[i] = x) \/ x = e
  <2>1. \A x \in Entries :
          (\E i \in 1..Len(b) : b[i] = x) => (\E i \in 1..Len(a) : a[i] = x) \/ x = e
    BY <1>2
  <2>2. Len(b) \in 1..Len(b) /\ \A i \in 1..Len(a) : i \in 1..Len(b)
    BY <1>2
  <2>3. QED
    BY <1>2, <2>1, <2>2
<1>5. \A x \in Entries, r \in Slots : InList(x, r)' <=> InList(x, r) \/ (x = e /\ r = s)
  BY <1>1, <1>4 DEF a, b, InList
<1>6. Once'
  BY <1>1, <1>3 DEF b, Once
<1>7. SlotType'
  BY <1>1, <1>2 DEF SlotType, b
<1>8. QED
  BY <1>1, <1>5, <1>6, <1>7

-----------------------------------------------------------------------------
(* The callers, and the wheel *)

Concerns(u, e) == user[u].e = e \/ user[u].pc = "idle"

LEMMA LinkedOthers ==
  ASSUME OwnerInv, OwnerInv', NEW u \in Users, NEW e \in Entries, Others(u),
         Concerns(u, e), Concerns(u, e)',
         \A x \in Entries \ {e} : status'[x] = status[x]
  PROVE  \A x \in Entries \ {e} : Linked(x)' <=> Linked(x)
<1>1. /\ user[u].pc = "idle" => ~user[u].fresh
      /\ user'[u].pc = "idle" => ~user'[u].fresh
  BY DEF OwnerInv, CallInv
<1>2. ASSUME NEW x \in Entries \ {e}
      PROVE  \A v \in Users : /\ At(v, x, "unlink")' <=> At(v, x, "unlink")
                              /\ user'[v].e = x /\ user'[v].fresh <=> user[v].e = x /\ user[v].fresh
  BY <1>1 DEF At, Concerns, Others
<1>3. QED
  BY <1>2 DEF Linked

\* The entry that the walk is at.
LEMMA WalkAt ==
  ASSUME OwnerInv, WheelType, WhereInv, WalkInv, timer.rest # <<>>,
         timer.pc \in {"scan", "late", "dest", "move", "expire"}
  PROVE  /\ e0 \in Entries /\ Linked(e0) /\ slotIndex[e0] = timer.slot
         /\ \E k \in 1..Len(slots[timer.slot]) :
              /\ slots[timer.slot][k] = e0
              /\ timer.rest = SubSeq(slots[timer.slot], k, Len(slots[timer.slot]))
              /\ Tail(timer.rest) = SubSeq(slots[timer.slot], k + 1, Len(slots[timer.slot]))
<1> DEFINE list == slots[timer.slot]
<1>1. list \in Seq(Entries) /\ timer.slot \in Slots /\ timer.rest \in Seq(Entries)
  BY DEF WheelType, SlotType, TimerType
<1>2. Suffix(timer.rest, list)
  BY DEF WalkInv
<1>3. PICK k \in 1..Len(list) :
        /\ Head(timer.rest) = list[k] /\ timer.rest = SubSeq(list, k, Len(list))
        /\ Tail(timer.rest) = SubSeq(list, k + 1, Len(list))
  BY <1>1, <1>2, SuffixTail
<1>4. e0 \in Entries /\ InList(e0, timer.slot)
  BY <1>1, <1>3 DEF e0, InList
<1>5. QED
  BY <1>1, <1>3, <1>4 DEF WhereInv, e0

LEMMA RelinkAt ==
  ASSUME OwnerInv, WheelType, WalkInv, timer.pc = "relink"
  PROVE  /\ e0 \in Entries /\ TimerOwns(e0) /\ status[e0] = "moving"
         /\ \A u \in Users : Owning(u) => user[u].e # e0
         /\ ~Linked(e0)
<1>1. e0 \in Entries /\ TimerOwns(e0)
  BY DEF WheelType, TimerType, WalkInv, e0, TimerOwns, Here
<1>2. status[e0] = "moving" /\ \A u \in Users : Owning(u) => user[u].e # e0
  BY <1>1 DEF OwnerInv, StatusInv
<1>3. \A u \in Users : At(u, e0, "unlink") => Owning(u)
  BY DEF OwnerInv, CallInv, Owning, At
<1>4. QED
  BY <1>1, <1>2, <1>3 DEF Linked, At

LEMMA CallerWhere ==
  ASSUME WheelInv, OwnerInv', NEW e \in Entries, UNCHANGED timer,
         TimeType', 
         \A x \in Entries \ {e} : (Linked(x)' <=> Linked(x)) /\ slotIndex'[x] = slotIndex[x],
         \/ /\ UNCHANGED slots /\ (Linked(e)' <=> Linked(e))
            /\ Linked(e) => slotIndex'[e] = slotIndex[e]
         \/ slots' = Unlinked(e) /\ Linked(e) /\ ~Linked(e)' /\ Free(slotIndex[e])
         \/ \E s \in Slots :
              /\ slots' = [slots EXCEPT ![s] = Append(@, e)] /\ Free(s)
              /\ ~Linked(e) /\ Linked(e)' /\ slotIndex'[e] = s
  PROVE  SlotType' /\ WhereInv' /\ (Walking => slots'[timer.slot] = slots[timer.slot])
<1>1. SlotType /\ Once /\ timer.slot \in Slots /\ slotIndex[e] \in Slots
  BY DEF WheelInv, WheelType, TimeType, WhereInv, TimerType
<1>2. ASSUME NEW s \in Slots, Free(s) PROVE Walking => timer.slot # s
  BY <1>2 DEF Free, Walking
<1>3. \A x \in Entries, s \in Slots : InList(x, s) <=> Linked(x) /\ s = slotIndex[x]
  BY DEF WheelInv, WhereInv
<1>4. CASE /\ UNCHANGED slots /\ (Linked(e)' <=> Linked(e))
           /\ Linked(e) => slotIndex'[e] = slotIndex[e]
  <2>1. SlotType' /\ Once' /\ \A x \in Entries, s \in Slots : InList(x, s)' <=> InList(x, s)
    BY <1>1, <1>4 DEF SlotType, Once, InList
  <2>2. \A x \in Entries, s \in Slots : InList(x, s)' <=> Linked(x)' /\ s = slotIndex'[x]
    BY <1>3, <1>4, <2>1
  <2>3. QED
    BY <1>4, <2>1, <2>2 DEF WhereInv
<1>5. CASE slots' = Unlinked(e) /\ Linked(e) /\ ~Linked(e)' /\ Free(slotIndex[e])
  <2>1. /\ SlotType' /\ Once'
        /\ \A x \in Entries, s \in Slots : InList(x, s)' <=> InList(x, s) /\ x # e
        /\ \A s \in Slots : ~InList(e, s) => slots'[s] = slots[s]
    BY <1>1, <1>5, Unlinks
  <2>2. \A x \in Entries, s \in Slots : InList(x, s)' <=> Linked(x)' /\ s = slotIndex'[x]
    BY <1>3, <1>5, <2>1
  <2>3. Walking => ~InList(e, timer.slot)
    BY <1>1, <1>2, <1>3, <1>5
  <2>4. QED
    BY <1>1, <2>1, <2>2, <2>3 DEF WhereInv
<1>6. ASSUME NEW s \in Slots, slots' = [slots EXCEPT ![s] = Append(@, e)], Free(s),
             ~Linked(e), Linked(e)', slotIndex'[e] = s
      PROVE  SlotType' /\ WhereInv' /\ (Walking => slots'[timer.slot] = slots[timer.slot])
  <2>1. ~InList(e, s)
    BY <1>3, <1>6
  <2>2. /\ SlotType' /\ Once'
        /\ \A x \in Entries, r \in Slots : InList(x, r)' <=> InList(x, r) \/ (x = e /\ r = s)
        /\ \A r \in Slots \ {s} : slots'[r] = slots[r]
    BY <1>1, <1>6, <2>1, Links
  <2>3. \A x \in Entries, r \in Slots : InList(x, r)' <=> Linked(x)' /\ r = slotIndex'[x]
    BY <1>3, <1>6, <2>2
  <2>4. Walking => slots'[timer.slot] = slots[timer.slot]
    BY <1>1, <1>2, <1>6, <2>2
  <2>5. QED
    BY <2>2, <2>3, <2>4 DEF WhereInv
<1>7. QED
  BY <1>4, <1>5, <1>6

LEMMA CallerTime ==
  ASSUME WheelInv, OwnerInv', NEW e \in Entries, UNCHANGED <<now, timer>>, TimeType',
         \A x \in Entries \ {e} :
           /\ Linked(x)' <=> Linked(x)
           /\ status'[x] = status[x] /\ slotIndex'[x] = slotIndex[x]
           /\ expires'[x] = expires[x] /\ since'[x] = since[x],
         \/ expires'[e] = expires[e] /\ since'[e] = since[e]
         \/ since'[e] = now
         \/ ~Linked(e) /\ status[e] # "moving" /\ since'[e] = since[e],
         Mine(e)' => \/ since'[e] = now
                     \/ /\ Mine(e) /\ slotIndex'[e] = slotIndex[e]
                        /\ expires'[e] = expires[e] /\ since'[e] = since[e],
         \A x \in Entries \ {e} : x \in wrongLock' <=> x \in wrongLock,
         Linked(e) /\ Walking /\ slotIndex[e] = timer.slot =>
           \/ e \in wrongLock'
           \/ expires'[e] = expires[e] /\ (e \in wrongLock' <=> e \in wrongLock)
  PROVE  TimeInv'
<1>1. /\ now \in Nat /\ UNCHANGED <<timer, now, Done, Walking, e0>>
      /\ \A x \in Entries : expires[x] \in Nat /\ since[x] \in Nat /\ expires'[x] \in Nat
                            /\ since'[x] \in Nat
      /\ Done <= now /\ Done \in Int
  BY DEF WheelInv, WheelType, TimeType, Done, Walking, e0
<1>2. \A x \in Entries : since'[x] <= now
  BY <1>1 DEF WheelInv, TimeInv
<1>3. \A x \in Entries : InRest(x)' <=> InRest(x)
  BY DEF InRest
<1>4. ASSUME NEW x \in Entries
      PROVE  \/ since'[x] = now /\ x = e
             \/ ~Mine(x)'
             \/ /\ Mine(x) /\ slotIndex'[x] = slotIndex[x] /\ UNCHANGED Due(x)
  BY DEF Mine, Due
<1>5. ASSUME NEW x \in Entries, since'[x] = now PROVE Due(x)' >= now
  BY <1>1, <1>5 DEF Due, Later
<1>6. \A x \in Entries : Mine(x)' =>
        \A c \in Nat : Due(x)' <= c /\ c < Done' => Index(c) # slotIndex'[x]
  <2> SUFFICES ASSUME NEW x \in Entries, Mine(x)', NEW c \in Nat, Due(x)' <= c, c < Done
               PROVE  Index(c) # slotIndex'[x]
    BY <1>1 DEF Index
  <2>0. Due(x)' \in Nat
    BY <1>1 DEF Due, Later
  <2>1. since'[x] # now
    <3>1. ~(Due(x)' >= now)
      BY <1>1, <2>0
    <3>2. QED
      BY <1>5, <3>1
  <2>2. Mine(x) /\ slotIndex'[x] = slotIndex[x] /\ UNCHANGED Due(x)
    BY <1>4, <2>1
  <2>3. QED
    BY <2>2 DEF WheelInv, TimeInv
<1>7. Walking => \A x \in Entries : Mine(x)' /\ slotIndex'[x] = timer.slot /\ ~InRest(x)
                   => Due(x)' >= now
  BY <1>3, <1>4, <1>5 DEF WheelInv, TimeInv
<1>8. ASSUME timer.pc \in {"late", "dest", "move", "expire", "relink"}
      PROVE  \E x \in Entries :
               /\ e0 = x /\ e0' = x
               /\ Due(x)' >= now \/ UNCHANGED Due(x)
               /\ timer.pc = "expire" => Linked(x) /\ slotIndex[x] = timer.slot
  <2>1. PICK x \in Entries :
          /\ e0 = x /\ (Linked(x) \/ status[x] = "moving")
          /\ timer.pc = "expire" => Linked(x) /\ slotIndex[x] = timer.slot
    <3>1. \/ timer.pc = "relink"
          \/ timer.pc \in {"late", "dest", "move", "expire"} /\ timer.rest # <<>>
      BY <1>8 DEF WheelInv, WalkInv
    <3>2. /\ e0 \in Entries /\ (Linked(e0) \/ status[e0] = "moving")
          /\ timer.pc = "expire" => Linked(e0) /\ slotIndex[e0] = timer.slot
      BY <3>1, WalkAt, RelinkAt DEF WheelInv
    <3>3. QED
      BY <3>2
  <2>2. since'[x] = now \/ (expires'[x] = expires[x] /\ since'[x] = since[x])
    BY <2>1
  <2>3. since'[x] = now \/ UNCHANGED Due(x)
    BY <2>2 DEF Due
  <2>4. QED
    BY <1>1, <1>5, <2>1, <2>3
<1>9. /\ timer.pc \in {"late", "dest", "move", "relink"} => (Due(e0) >= now)'
      /\ timer.pc = "expire" => (expires[e0] < timer.target \/ e0 \in wrongLock)'
  <2>1. timer.pc \in {"late", "dest", "move", "relink"} => (Due(e0) >= now)'
    <3>1. SUFFICES ASSUME timer.pc \in {"late", "dest", "move", "relink"}
                   PROVE  (Due(e0) >= now)'
      OBVIOUS
    <3>2. PICK x \in Entries : e0 = x /\ e0' = x /\ (Due(x)' >= now \/ UNCHANGED Due(x))
      BY <1>8, <3>1
    <3>3. Due(x) >= now
      BY <3>1, <3>2 DEF WheelInv, TimeInv
    <3>4. Due(x)' >= now'
      BY <1>1, <3>2, <3>3
    <3>5. QED
      BY <3>2, <3>4 DEF Due
  <2>2. ASSUME timer.pc = "expire"
        PROVE  (expires[e0] < timer.target \/ e0 \in wrongLock)'
    <3>1. PICK x \in Entries : e0 = x /\ e0' = x /\ Linked(x) /\ slotIndex[x] = timer.slot
      BY <1>8, <2>2
    <3>2. expires[x] < timer.target \/ x \in wrongLock
      BY <2>2, <3>1 DEF WheelInv, TimeInv
    <3>3. x \in wrongLock' \/ (expires'[x] = expires[x] /\ (x \in wrongLock' <=> x \in wrongLock))
      BY <2>2, <3>1 DEF Walking
    <3>4. QED
      BY <1>1, <3>1, <3>2, <3>3
  <2>3. QED
    BY <2>1, <2>2
<1>10. (\A x \in Entries : since[x] <= now)'
  BY <1>1, <1>2
<1>11. (\A x \in Entries : Mine(x) =>
          \A c \in Nat : Due(x) <= c /\ c < Done => Index(c) # slotIndex[x])'
  BY <1>6 DEF Index
<1>12. (Walking => \A x \in Entries : Mine(x) /\ slotIndex[x] = timer.slot /\ ~InRest(x)
          => Due(x) >= now)'
  BY <1>1, <1>3, <1>7 DEF Walking
<1>13. (timer.pc \in {"late", "dest", "move", "relink"} => Due(e0) >= now)'
  BY <1>1, <1>9
<1>14. (timer.pc = "expire" => expires[e0] < timer.target \/ e0 \in wrongLock)'
  BY <1>1, <1>9
<1>15. QED
  BY <1>10, <1>11, <1>12, <1>13, <1>14 DEF TimeInv

LEMMA CallerStep ==
  ASSUME WheelInv, OwnerInv', UNCHANGED <<now, timer>>, NEW u \in Users, NEW e \in Entries,
         Others(u), Concerns(u, e), Concerns(u, e)', TimeType',
         user'[u].slot \in Slots /\ user'[u].new \in Nat,
         \A x \in Entries \ {e} :
           /\ status'[x] = status[x] /\ slotIndex'[x] = slotIndex[x]
           /\ expires'[x] = expires[x] /\ since'[x] = since[x],
         \* where the entry is
         \/ /\ UNCHANGED slots /\ (Linked(e)' <=> Linked(e))
            /\ Linked(e) => slotIndex'[e] = slotIndex[e]
         \/ slots' = Unlinked(e) /\ Linked(e) /\ ~Linked(e)' /\ Free(slotIndex[e])
         \/ \E s \in Slots :
              /\ slots' = [slots EXCEPT ![s] = Append(@, e)] /\ Free(s)
              /\ ~Linked(e) /\ Linked(e)' /\ slotIndex'[e] = s,
         \* what lock the call holds, and what the calls have read of the entry
         user'[u].pc = "store" => ~(Walking /\ timer.slot = user'[u].slot),
         user'[u].pc = "unlink" => user'[u].slot = slotIndex'[e],
         user'[u].fresh /\ user'[u].pc = "link" =>
           user'[u].slot = slotIndex'[e] /\ status'[e] = "normal",
         \A v \in Users \ {u} : user[v].e = e /\ (user[v].pc = "unlink" \/ user[v].fresh) =>
           slotIndex'[e] = slotIndex[e] /\ (user[v].fresh => status'[e] = status[e]),
         \* its time
         \/ expires'[e] = expires[e] /\ since'[e] = since[e]
         \/ since'[e] = now
         \/ ~Linked(e) /\ status[e] # "moving" /\ since'[e] = since[e],
         Mine(e)' => \/ since'[e] = now
                     \/ /\ Mine(e) /\ slotIndex'[e] = slotIndex[e]
                        /\ expires'[e] = expires[e] /\ since'[e] = since[e],
         \A x \in Entries \ {e} : x \in wrongLock' <=> x \in wrongLock,
         Linked(e) /\ Walking /\ slotIndex[e] = timer.slot =>
           \/ e \in wrongLock'
           \/ expires'[e] = expires[e] /\ (e \in wrongLock' <=> e \in wrongLock)
  PROVE  WheelInv'
<1>1. OwnerInv /\ WheelType /\ WalkInv /\ CallSlotInv
  BY DEF WheelInv
<1>2. \A x \in Entries \ {e} : Linked(x)' <=> Linked(x)
  BY ONLY <1>1, OwnerInv', u \in Users, e \in Entries, Others(u), Concerns(u, e), Concerns(u, e)',
          \A x \in Entries \ {e} : status'[x] = status[x], LinkedOthers
<1>3. SlotType' /\ WhereInv' /\ (Walking => slots'[timer.slot] = slots[timer.slot])
  BY <1>2, CallerWhere
<1>4. CallType' /\ TimerType'
  BY <1>1 DEF WheelType, CallType, TimerType, Others
<1>5. CallSlotInv'
  <2>1. user'[u].pc \in {"unlink", "link"} => user'[u].e = e
    BY DEF Concerns
  <2>2. ASSUME NEW v \in Users \ {u}, user[v].e # e
        PROVE  /\ slotIndex'[user[v].e] = slotIndex[user[v].e]
               /\ status'[user[v].e] = status[user[v].e]
    BY <1>1, <2>2 DEF OwnerInv, Shape
  <2>3. ASSUME NEW v \in Users \ {u}
        PROVE  /\ user'[v].pc = "unlink" => user'[v].slot = slotIndex'[user'[v].e]
               /\ user'[v].fresh /\ user'[v].pc = "link" =>
                    user'[v].slot = slotIndex'[user'[v].e] /\ status'[user'[v].e] = "normal"
    <3>1. user'[v] = user[v]
      BY DEF Others
    <3>2. /\ user[v].pc = "unlink" => user[v].slot = slotIndex[user[v].e]
          /\ user[v].fresh /\ user[v].pc = "link" =>
               user[v].slot = slotIndex[user[v].e] /\ status[user[v].e] = "normal"
      BY <1>1 DEF CallSlotInv
    <3>3. CASE user[v].e = e
      BY <3>1, <3>2, <3>3
    <3>4. CASE user[v].e # e
      BY <2>2, <3>1, <3>2, <3>4
    <3>5. QED
      BY <3>3, <3>4
  <2>4. QED
    BY <2>1, <2>3 DEF CallSlotInv
<1>6. WalkInv'
  BY <1>1, <1>3 DEF WalkInv, Walking, Index
<1>7. TimeInv'
  BY <1>2, CallerTime
<1>8. LockInv'
  BY DEF WheelInv, LockInv, Unheld, Walking, Others
<1>9. QED
  BY <1>3, <1>4, <1>5, <1>6, <1>7, <1>8 DEF WheelInv, WheelType

\* A step that changes a record only, and not whether the entry is linked.
LEMMA Quiet ==
  ASSUME WheelInv, OwnerInv',
         UNCHANGED <<now, slots, expires, since, wrongLock, place, timer>>,
         NEW u \in Users, NEW e \in Entries, Others(u), Concerns(u, e), Concerns(u, e)',
         user'[u].slot \in Slots /\ user'[u].new \in Nat,
         user'[u].pc = "store" => ~(Walking /\ timer.slot = user'[u].slot),
         user[u].pc # "unlink", user'[u].pc # "unlink",
         user'[u].fresh <=> user[u].fresh,
         user'[u].fresh => user'[u].pc # "link"
  PROVE  WheelInv'
<1>1. TimeType'
  BY DEF WheelInv, WheelType, TimeType, entry, place
<1>2. Linked(e)' <=> Linked(e)
  <2>1. user[u].fresh => user[u].e = e /\ user'[u].e = e
    BY DEF Concerns, WheelInv, OwnerInv, CallInv
  <2>2. \A v \in Users : /\ At(v, e, "unlink")' <=> At(v, e, "unlink")
                         /\ user'[v].e = e /\ user'[v].fresh <=> user[v].e = e /\ user[v].fresh
    BY <2>1 DEF At, Others
  <2>3. QED
    BY <2>2 DEF Linked, place
<1>3. Mine(e)' <=> Mine(e)
  BY <1>2 DEF Mine, place
<1>4. QED
  BY <1>1, <1>2, <1>3, CallerStep DEF place

LEMMA Fields ==
  ASSUME WheelInv, NEW u \in Users
  PROVE  /\ DOMAIN user = Users /\ DOMAIN user[u] = {"pc", "e", "new", "slot", "set", "fresh"}
         /\ user[u].slot \in Slots /\ user[u].new \in Nat /\ slotIndex \in [Entries -> Slots]
         /\ NoCall.pc = "idle" /\ NoCall.slot = 0 /\ NoCall.new = 0 /\ NoCall.fresh = FALSE
         /\ 0 \in Slots /\ user[u].fresh \in BOOLEAN
         /\ user[u].pc = "idle" => user[u].fresh = FALSE
         /\ now \in Nat
<1>1. OwnerInv /\ WheelType
  BY DEF WheelInv
<1>2. QED
  BY <1>1, Records, IndexType DEF WheelType, CallType, TimeType, NoCall, Starts, OwnerInv, CallInv

LEMMA WheelBegin ==
  ASSUME WheelInv, OwnerInv', NEW u \in Users, Begin(u) PROVE WheelInv'
<1>1. /\ DOMAIN user = Users /\ 0 \in Slots
      /\ user[u].pc = "idle" => user[u].fresh = FALSE
  BY Fields
<1>2. Times \subseteq Nat
  BY DEF Times
<1>3. ASSUME NEW e \in Entries, NEW t \in Times, Remove(u, e) \/ Modify(u, e, t) PROVE WheelInv'
  <2>1. PICK pc \in {"clear", "later", "earlier"}, n \in Nat :
          user' = [user EXCEPT ![u] = Starts(pc, e, n, FALSE)]
    BY <1>2, <1>3 DEF Remove, Modify
  <2>2. user'[u] = Starts(pc, e, n, FALSE) /\ Others(u)
    BY <1>1, <2>1 DEF Others
  <2>3. user'[u].pc = pc /\ user'[u].e = e /\ user'[u].slot = 0 /\ user'[u].new = n
        /\ user'[u].fresh = FALSE
    BY <2>2 DEF Starts
  <2>4. UNCHANGED <<now, slots, entry, place, timer>> /\ user[u].pc = "idle"
    BY <1>3 DEF Remove, Modify
  <2>5. QED
    BY <1>1, <2>2, <2>3, <2>4, Quiet DEF Concerns, entry
<1>4. ASSUME NEW e \in Entries, NEW t \in Times, Add(u, e, t) PROVE WheelInv'
  <2>1. /\ user' = [user EXCEPT ![u] = Starts("add", e, t, TRUE)]
        /\ UNCHANGED <<now, slots, since, wrongLock, place, timer, chain>>
        /\ expires' = [expires EXCEPT ![e] = t] /\ user[u].pc = "idle" /\ Unused(e)
    BY <1>4 DEF Add
  <2>2. user'[u] = Starts("add", e, t, TRUE) /\ Others(u)
    BY <1>1, <2>1 DEF Others
  <2>3. user'[u].pc = "add" /\ user'[u].e = e /\ user'[u].slot = 0 /\ user'[u].new = t
        /\ user'[u].fresh = TRUE
    BY <2>2 DEF Starts
  <2>4. TimeType' /\ \A x \in Entries \ {e} : expires'[x] = expires[x]
    BY <1>2, <2>1 DEF WheelInv, WheelType, TimeType, place
  <2>5. ~Linked(e) /\ ~Linked(e)' /\ ~Mine(e)' /\ status[e] # "moving"
    <3>1. status[e] \in {"none", "timeout", "cleared"} /\ status' = status
      BY <2>1 DEF Unused, place
    <3>2. \A v \in Users : ~At(v, e, "unlink") /\ ~At(v, e, "unlink")'
      BY <2>1, <2>2, <2>3 DEF Unused, At, Others
    <3>3. QED
      BY <3>1, <3>2 DEF Linked, Mine
  <2>6. Concerns(u, e) /\ Concerns(u, e)'
    BY <2>1, <2>3 DEF Concerns
  <2>7. UNCHANGED <<now, timer, slots, since, wrongLock, status, slotIndex>>
    BY <2>1 DEF place
  <2> HIDE DEF Add
  <2>8. QED
    BY <1>1, <1>2, <2>2, <2>3, <2>4, <2>5, <2>6, <2>7, CallerStep
<1>5. 0 \in Times
  BY TimerAssumption DEF Times
<1>6. QED
  BY <1>3, <1>4, <1>5 DEF Begin

\* The calls that change nothing but their own record.
LEMMA WheelAsks ==
  ASSUME WheelInv, OwnerInv', NEW u \in Users, NEW e \in Entries,
         Refused(u, e) \/ CheckLater(u, e) \/ AddEx(u, e)
  PROVE  WheelInv'
<1>1. /\ DOMAIN user = Users /\ DOMAIN user[u] = {"pc", "e", "new", "slot", "set", "fresh"}
      /\ user[u].slot \in Slots /\ user[u].new \in Nat /\ slotIndex \in [Entries -> Slots]
      /\ NoCall.pc = "idle" /\ NoCall.slot = 0 /\ NoCall.new = 0 /\ NoCall.fresh = FALSE
      /\ 0 \in Slots /\ user[u].fresh \in BOOLEAN /\ now \in Nat
  BY Fields
<1>2. user[u].fresh => user[u].pc \in {"add", "status", "link"}
  BY DEF WheelInv, OwnerInv, CallInv
<1>3. CASE Refused(u, e)
  <2>1. user'[u] = NoCall /\ Others(u)
    BY <1>1, <1>3 DEF Refused, Answer, Others
  <2>2. /\ UNCHANGED <<now, slots, entry, place, timer>> /\ user[u].e = e
        /\ user[u].pc \in {"clear", "later", "earlier"}
    BY <1>3 DEF Refused, At
  <2>3. QED
    BY <1>1, <1>2, <2>1, <2>2, Quiet DEF Concerns, entry
<1>4. CASE CheckLater(u, e)
  <2>1. user'[u] = [user[u] EXCEPT !.pc = "set", !.slot = slotIndex[e]] /\ Others(u)
    BY <1>1, <1>4 DEF CheckLater, Check, Others
  <2>2. /\ user'[u].pc = "set" /\ user'[u].e = user[u].e /\ user'[u].slot = slotIndex[e]
        /\ user'[u].new = user[u].new /\ user'[u].fresh = user[u].fresh
    BY <1>1, <2>1
  <2>3. /\ UNCHANGED <<now, slots, entry, timer, slotIndex>>
        /\ user[u].e = e /\ user[u].pc = "later"
        /\ status[e] = "normal" /\ status' = [status EXCEPT ![e] = "normal"]
    BY <1>4 DEF CheckLater, Check, At
  <2>4. status' = status
    BY <2>3 DEF WheelInv, OwnerInv, Shape
  <2>5. UNCHANGED <<now, slots, entry, place, timer>> /\ slotIndex[e] \in Slots
    BY <1>1, <2>3, <2>4 DEF place
  <2>6. QED
    BY <1>1, <1>2, <2>1, <2>2, <2>3, <2>5, Quiet DEF Concerns, entry
<1>5. CASE AddEx(u, e)
  <2> DEFINE new == IF user[u].new <= now THEN now + 1 ELSE user[u].new
  <2>1. user'[u] = AddCall(user[u]) /\ Others(u)
    BY <1>1, <1>5 DEF AddEx, Others
  <2>2. /\ user'[u].pc = (IF user[u].fresh THEN "status" ELSE "link") /\ user'[u].e = user[u].e
        /\ user'[u].new = new /\ user'[u].slot = Index(new) /\ user'[u].fresh = user[u].fresh
    BY <1>1, <2>1 DEF AddCall
  <2>3. new \in Nat /\ Index(new) \in Slots
    BY <1>1, IndexType
  <2>4. UNCHANGED <<now, slots, entry, place, timer>> /\ user[u].e = e /\ user[u].pc = "add"
    BY <1>5 DEF AddEx, At
  <2> HIDE DEF new
  <2>5. QED
    BY <1>1, <2>1, <2>2, <2>3, <2>4, Quiet DEF Concerns, entry
<1>6. QED
  BY <1>3, <1>4, <1>5

LEMMA WheelTakes ==
  ASSUME WheelInv, OwnerInv', NEW u \in Users, NEW e \in Entries, Clear(u, e) \/ Take(u, e)
  PROVE  WheelInv'
<1>1. /\ DOMAIN user = Users /\ DOMAIN user[u] = {"pc", "e", "new", "slot", "set", "fresh"}
      /\ user[u].slot \in Slots /\ user[u].new \in Nat /\ slotIndex \in [Entries -> Slots]
  BY Fields
<1>2. user'[u] = [user[u] EXCEPT !.pc = "unlink", !.slot = slotIndex[e]] /\ Others(u)
  BY <1>1 DEF Clear, Take, Check, Others
<1>3. /\ user'[u].pc = "unlink" /\ user'[u].e = user[u].e /\ user'[u].slot = slotIndex[e]
      /\ user'[u].new = user[u].new /\ user'[u].fresh = user[u].fresh
  BY <1>1, <1>2
<1>4. PICK s \in {"cleared", "moving"} :
        /\ UNCHANGED <<now, slots, entry, timer, slotIndex>>
        /\ user[u].e = e /\ user[u].pc \in {"clear", "earlier"}
        /\ status[e] = "normal" /\ status' = [status EXCEPT ![e] = s]
  BY DEF Clear, Take, Check, At
<1>5. status'[e] = s /\ \A x \in Entries \ {e} : status'[x] = status[x]
  BY <1>4 DEF WheelInv, OwnerInv, Shape
<1>6. \A v \in Users : user[v].e = e => ~user[v].fresh
  BY <1>4 DEF WheelInv, OwnerInv, CallInv
<1>7. Linked(e) /\ Linked(e)' /\ ~Mine(e)'
  BY <1>3, <1>4, <1>5, <1>6 DEF Linked, Mine, At
<1>8. TimeType' /\ UNCHANGED <<now, timer, slots, expires, since, wrongLock, slotIndex>>
  BY <1>4 DEF WheelInv, WheelType, TimeType, entry
<1>9. Concerns(u, e) /\ Concerns(u, e)' /\ slotIndex[e] \in Slots
  BY <1>1, <1>3, <1>4 DEF Concerns
<1>10. QED
  BY <1>1, <1>2, <1>3, <1>5, <1>6, <1>7, <1>8, <1>9, CallerStep

LEMMA WheelUnlink ==
  ASSUME WheelInv, OwnerInv', NEW u \in Users, NEW e \in Entries, Unlink(u, e)
  PROVE  WheelInv'
<1>1. /\ DOMAIN user = Users /\ DOMAIN user[u] = {"pc", "e", "new", "slot", "set", "fresh"}
      /\ user[u].slot \in Slots /\ user[u].new \in Nat
      /\ NoCall.pc = "idle" /\ NoCall.slot = 0 /\ NoCall.new = 0 /\ NoCall.fresh = FALSE
      /\ 0 \in Slots
  BY Fields
<1>2. /\ user[u].pc = "unlink" /\ user[u].e = e /\ Free(user[u].slot)
      /\ slots' = Unlinked(e) /\ UNCHANGED <<now, entry, place, timer>>
  BY DEF Unlink, At
<1>3. /\ Others(u) /\ user'[u].slot \in Slots /\ user'[u].new \in Nat
      /\ user'[u].pc \in {"add", "idle"} /\ Concerns(u, e)' /\ user'[u].fresh = FALSE
  <2>1. user[u].fresh = FALSE
    BY <1>2, Fields DEF WheelInv, OwnerInv, CallInv
  <2>2. CASE status[e] = "moving"
    <3>1. user' = [user EXCEPT ![u] = [user[u] EXCEPT !.pc = "add", !.set = TRUE]]
      BY <2>2 DEF Unlink
    <3>2. Others(u) /\ user'[u] = [user[u] EXCEPT !.pc = "add", !.set = TRUE]
      BY <1>1, <3>1 DEF Others
    <3>3. QED
      BY <1>1, <1>2, <2>1, <3>2 DEF Concerns
  <2>3. CASE status[e] # "moving"
    <3>1. Others(u) /\ user'[u] = NoCall
      BY <1>1, <2>3 DEF Unlink, Answer, Others
    <3>2. QED
      BY <1>1, <3>1 DEF Concerns
  <2>4. QED
    BY <2>2, <2>3
<1>4. /\ slotIndex[e] = user[u].slot /\ Linked(e)
      /\ status[e] \in {"moving", "cleared"} /\ \A v \in Users \ {u} : ~At(v, e, "unlink")
  <2>1. user[u].slot = slotIndex[user[u].e]
    BY <1>2 DEF WheelInv, CallSlotInv
  <2>2. Owning(u) /\ \A v \in Users : At(v, e, "unlink") => Owning(v)
    BY <1>2 DEF WheelInv, OwnerInv, CallInv, Owning, At
  <2>3. /\ status[user[u].e] \in {"moving", "cleared"}
        /\ \A v \in Users : Owning(v) /\ user[u].e = user[v].e => u = v
    BY <2>2 DEF WheelInv, OwnerInv, CallInv
  <2>4. QED
    BY <1>2, <2>1, <2>2, <2>3 DEF Linked, At
<1>5. \A x \in Entries : status'[x] = status[x] /\ slotIndex'[x] = slotIndex[x]
                         /\ expires'[x] = expires[x] /\ since'[x] = since[x]
  BY <1>2 DEF entry, place
<1>6. ~Linked(e)' /\ ~Mine(e)'
  BY <1>3, <1>4, <1>5 DEF Linked, Mine, At, Others
<1>7. TimeType' /\ UNCHANGED <<now, timer, wrongLock>> /\ Concerns(u, e)
  BY <1>2 DEF WheelInv, WheelType, TimeType, entry, place, Concerns
<1>8. Free(slotIndex[e])
  BY <1>2, <1>4
<1>9. QED
  BY <1>2, <1>3, <1>4, <1>5, <1>6, <1>7, <1>8, CallerStep

\* modify has the lock of the slot that it has read.
LEMMA WheelSetRehash ==
  ASSUME WheelInv, OwnerInv', NEW u \in Users, NEW e \in Entries, SetRehash(u, e)
  PROVE  WheelInv'
<1>1. /\ DOMAIN user = Users /\ DOMAIN user[u] = {"pc", "e", "new", "slot", "set", "fresh"}
      /\ user[u].slot \in Slots /\ user[u].new \in Nat /\ user[u].fresh \in BOOLEAN
  BY Fields
<1>2. /\ user[u].pc = "set" /\ user[u].e = e /\ Free(user[u].slot)
      /\ UNCHANGED <<now, slots, expires, since, wrongLock, place, timer>>
  BY DEF SetRehash, At
<1>3. user'[u] = [user[u] EXCEPT !.pc = "store"] /\ Others(u)
  BY <1>1 DEF SetRehash, Go, Others
<1>4. /\ user'[u].pc = "store" /\ user'[u].e = e /\ user'[u].slot = user[u].slot
      /\ user'[u].new = user[u].new /\ user'[u].fresh = user[u].fresh
  BY <1>1, <1>2, <1>3
<1>5. ~(Walking /\ timer.slot = user[u].slot)
  BY <1>2 DEF Free, Walking
<1>6. user[u].fresh = FALSE
  BY <1>1, <1>2 DEF WheelInv, OwnerInv, CallInv
<1>7. QED
  BY <1>1, <1>2, <1>3, <1>4, <1>5, <1>6, Quiet DEF Concerns

LEMMA WheelSetLater ==
  ASSUME WheelInv, OwnerInv', NEW u \in Users, NEW e \in Entries, SetLater(u, e)
  PROVE  WheelInv'
<1>1. /\ DOMAIN user = Users
      /\ user[u].slot \in Slots /\ user[u].new \in Nat /\ now \in Nat
      /\ NoCall.pc = "idle" /\ NoCall.slot = 0 /\ NoCall.new = 0 /\ NoCall.fresh = FALSE
      /\ 0 \in Slots
  BY Fields
<1>2. /\ user[u].pc = "store" /\ user[u].e = e
      /\ expires' = [expires EXCEPT ![e] = user[u].new] /\ since' = [since EXCEPT ![e] = now]
      /\ wrongLock' = IF user[u].slot = slotIndex[e] THEN wrongLock ELSE wrongLock \cup {e}
      /\ UNCHANGED <<now, slots, status, slotIndex, timer>>
  BY DEF SetLater, At, Settle, place
<1>3. Others(u) /\ user'[u] = NoCall /\ user'[u].pc = "idle" /\ ~user'[u].fresh
  BY <1>1 DEF SetLater, Answer, Others
<1>4. /\ TimeType' /\ since'[e] = now
      /\ \A x \in Entries \ {e} : expires'[x] = expires[x] /\ since'[x] = since[x]
  BY <1>1, <1>2 DEF WheelInv, WheelType, TimeType
<1>5. user[u].fresh = FALSE
  BY <1>2, Fields DEF WheelInv, OwnerInv, CallInv
<1>6. Linked(e)' <=> Linked(e)
  <2>1. \A v \in Users : /\ At(v, e, "unlink")' <=> At(v, e, "unlink")
                         /\ user'[v].e = e /\ user'[v].fresh <=> user[v].e = e /\ user[v].fresh
    BY <1>2, <1>3, <1>5 DEF At, Others
  <2>2. QED
    BY <1>2, <2>1 DEF Linked
<1>7. Concerns(u, e) /\ Concerns(u, e)'
  BY <1>2, <1>3 DEF Concerns
<1>8. user'[u].slot = 0 /\ user'[u].new = 0
  BY <1>1, <1>3
<1>9. Walking /\ slotIndex[e] = timer.slot => e \in wrongLock'
  <2>1. Walking => user[u].slot # timer.slot
    BY <1>2 DEF WheelInv, LockInv, Unheld
  <2>2. QED
    BY <1>2, <2>1
<1>10. \A x \in Entries \ {e} : x \in wrongLock' <=> x \in wrongLock
  BY <1>2
<1>11. QED
  BY <1>1, <1>2, <1>3, <1>4, <1>6, <1>7, <1>8, <1>9, <1>10, CallerStep

\* Whoever adds an entry is alone with it.
LEMMA AddsAlone ==
  ASSUME WheelInv, NEW u \in Users, user[u].pc \in {"status", "link"}
  PROVE  /\ \A v \in Users \ {u} : user[v].e = user[u].e =>
              user[v].pc # "unlink" /\ ~user[v].fresh
         /\ ~Linked(user[u].e)
         /\ user[u].pc = "status" => user[u].fresh
         /\ ~user[u].fresh => status[user[u].e] = "moving"
<1>1. user[u].pc = "status" => user[u].fresh
  BY DEF WheelInv, OwnerInv, CallInv
<1>2. ~user[u].fresh => status[user[u].e] = "moving" /\ Owning(u)
  BY <1>1 DEF WheelInv, OwnerInv, CallInv, Owning
<1>3. ASSUME NEW v \in Users \ {u}, user[v].e = user[u].e
      PROVE  user[v].pc # "unlink" /\ ~user[v].fresh
  <2>1. user[v].fresh => user[v].pc # "idle"
    BY DEF WheelInv, OwnerInv, CallInv
  <2>2. user[v].pc = "unlink" => ~user[v].fresh /\ Owning(v)
    BY DEF WheelInv, OwnerInv, CallInv, Owning
  <2>3. CASE user[u].fresh
    BY <1>3, <2>1, <2>3 DEF WheelInv, OwnerInv, CallInv
  <2>4. CASE ~user[u].fresh
    BY <1>2, <1>3, <2>1, <2>2, <2>4 DEF WheelInv, OwnerInv, CallInv
  <2>5. QED
    BY <2>3, <2>4
<1>4. ~Linked(user[u].e)
  BY <1>2, <1>3 DEF Linked, At
<1>5. QED
  BY <1>1, <1>2, <1>3, <1>4

LEMMA WheelSetStatus ==
  ASSUME WheelInv, OwnerInv', NEW u \in Users, NEW e \in Entries, SetStatus(u, e)
  PROVE  WheelInv'
<1>1. /\ DOMAIN user = Users /\ DOMAIN user[u] = {"pc", "e", "new", "slot", "set", "fresh"}
      /\ user[u].slot \in Slots /\ user[u].new \in Nat /\ slotIndex \in [Entries -> Slots]
      /\ user[u].fresh \in BOOLEAN
  BY Fields
<1>2. /\ user[u].pc = "status" /\ user[u].e = e
      /\ status' = [status EXCEPT ![e] = "normal"]
      /\ slotIndex' = [slotIndex EXCEPT ![e] = user[u].slot]
      /\ UNCHANGED <<now, slots, expires, since, wrongLock, timer>>
  BY DEF SetStatus, At, entry
<1>3. Others(u) /\ user'[u] = [user[u] EXCEPT !.pc = "link"]
  BY <1>1 DEF SetStatus, Go, Others
<1>4. /\ user'[u].pc = "link" /\ user'[u].e = e /\ user'[u].slot = user[u].slot
      /\ user'[u].new = user[u].new /\ user'[u].fresh = TRUE
  <2>1. user[u].fresh = TRUE
    BY <1>1, <1>2, AddsAlone
  <2>2. QED
    BY <1>1, <1>2, <1>3, <2>1
<1>5. /\ \A v \in Users \ {u} : user[v].e = e => user[v].pc # "unlink" /\ ~user[v].fresh
      /\ ~Linked(e) /\ user[u].fresh
  BY <1>2, AddsAlone
<1>6. /\ TimeType' /\ status'[e] = "normal" /\ slotIndex'[e] = user[u].slot
      /\ \A x \in Entries \ {e} : status'[x] = status[x] /\ slotIndex'[x] = slotIndex[x]
  BY <1>1, <1>2 DEF WheelInv, WheelType, TimeType, OwnerInv, Shape
<1>7. ~Linked(e)' /\ ~Mine(e)'
  <2>1. \A v \in Users : ~(At(v, e, "unlink"))'
    BY <1>3, <1>4, <1>5 DEF At, Others
  <2>2. (\E v \in Users : user[v].e = e /\ user[v].fresh)'
    BY <1>4
  <2>3. QED
    BY <2>1, <2>2 DEF Linked, Mine
<1>8. Concerns(u, e) /\ Concerns(u, e)'
  BY <1>2, <1>4 DEF Concerns
<1>9. QED
  BY <1>1, <1>2, <1>3, <1>4, <1>5, <1>6, <1>7, <1>8, CallerStep

LEMMA WheelLink ==
  ASSUME WheelInv, OwnerInv', NEW u \in Users, NEW e \in Entries, Link(u, e)
  PROVE  WheelInv'
<1>1. /\ DOMAIN user = Users
      /\ user[u].slot \in Slots /\ user[u].new \in Nat /\ slotIndex \in [Entries -> Slots]
      /\ NoCall.pc = "idle" /\ NoCall.slot = 0 /\ NoCall.new = 0 /\ NoCall.fresh = FALSE
      /\ 0 \in Slots /\ now \in Nat
  BY Fields
<1>2. /\ user[u].pc = "link" /\ user[u].e = e /\ Free(user[u].slot)
      /\ expires' = [expires EXCEPT ![e] = IF user[u].set THEN user[u].new ELSE expires[e]]
      /\ since' = [since EXCEPT ![e] = now]
      /\ slots' = [slots EXCEPT ![user[u].slot] = Append(@, e)]
      /\ IF user[u].fresh THEN UNCHANGED place
         ELSE /\ status' = [status EXCEPT ![e] = "normal"]
              /\ slotIndex' = [slotIndex EXCEPT ![e] = user[u].slot]
      /\ UNCHANGED <<now, timer>> /\ wrongLock' = wrongLock \ {e}
  BY DEF Link, At, Settle, WheelInv, WheelType, TimeType
<1>3. Others(u) /\ user'[u] = NoCall
  BY <1>1 DEF Link, Answer, Others
<1>4. /\ \A v \in Users \ {u} : user[v].e = e => user[v].pc # "unlink" /\ ~user[v].fresh
      /\ ~Linked(e)
  BY <1>2, AddsAlone
<1>5. /\ status'[e] = "normal" /\ slotIndex'[e] = user[u].slot
      /\ \A x \in Entries \ {e} : status'[x] = status[x] /\ slotIndex'[x] = slotIndex[x]
      /\ slotIndex' \in [Entries -> Slots]
  <2>1. user[u].fresh => status[e] = "normal" /\ slotIndex[e] = user[u].slot
    BY <1>2 DEF WheelInv, CallSlotInv
  <2>2. QED
    BY <1>1, <1>2, <2>1 DEF place, WheelInv, OwnerInv, Shape
<1>6. /\ TimeType' /\ since'[e] = now
      /\ \A x \in Entries \ {e} : expires'[x] = expires[x] /\ since'[x] = since[x]
  BY <1>1, <1>2, <1>5 DEF WheelInv, WheelType, TimeType
<1>7. Linked(e)'
  BY <1>1, <1>3, <1>4, <1>5 DEF Linked, Others
<1>8. Concerns(u, e) /\ Concerns(u, e)'
  BY <1>1, <1>2, <1>3 DEF Concerns
<1>9. user'[u].slot = 0 /\ user'[u].new = 0 /\ user'[u].pc = "idle" /\ ~user'[u].fresh
  BY <1>1, <1>3
<1>10. \E s \in Slots :
         /\ slots' = [slots EXCEPT ![s] = Append(@, e)] /\ Free(s)
         /\ ~Linked(e) /\ Linked(e)' /\ slotIndex'[e] = s
  BY <1>1, <1>2, <1>4, <1>5, <1>7
<1>11. UNCHANGED <<now, timer>>
  BY <1>2
<1>12. /\ user'[u].pc \notin {"unlink", "store"} /\ ~(user'[u].fresh /\ user'[u].pc = "link")
       /\ user'[u].slot \in Slots /\ user'[u].new \in Nat
       /\ \A v \in Users \ {u} : user[v].e = e /\ (user[v].pc = "unlink" \/ user[v].fresh) =>
            slotIndex'[e] = slotIndex[e] /\ (user[v].fresh => status'[e] = status[e])
       /\ \A x \in Entries \ {e} : x \in wrongLock' <=> x \in wrongLock
  BY <1>1, <1>2, <1>4, <1>9
<1>13. QED
  BY ONLY WheelInv, OwnerInv', u \in Users, e \in Entries, <1>3, <1>4, <1>5, <1>6,
          <1>8, <1>10, <1>11, <1>12, CallerStep

LEMMA WheelCaller ==
  ASSUME WheelInv, OwnerInv', NEW u \in Users, Begin(u) \/ Continue(u) PROVE WheelInv'
BY WheelBegin, WheelAsks, WheelTakes, WheelUnlink, WheelSetRehash, WheelSetLater, WheelSetStatus,
   WheelLink
   DEF Continue

-----------------------------------------------------------------------------
(* The thread in timeouts_get, and the wheel *)

\* A step of it that leaves the entries as they are.
LEMMA TimerQuiet ==
  ASSUME WheelInv, OwnerInv', UNCHANGED <<slots, expires, since, place, user>>,
         now' \in Nat, TimerType', WalkInv', LockInv',
         now' >= now,
         \A x \in Entries : Mine(x) /\ Done' # Done =>
           \A c \in Nat : Due(x) <= c /\ c < Done' => Index(c) # slotIndex[x],
         Walking' => \A x \in Entries :
           Mine(x) /\ slotIndex[x] = timer'.slot /\ ~InRest(x)' => Due(x) >= now',
         timer'.pc \in {"late", "dest", "move", "relink"} => (Due(e0) >= now)',
         timer'.pc = "expire" => (expires[e0] < timer.target \/ e0 \in wrongLock)'
  PROVE  WheelInv'
<1>1. /\ SlotType' /\ CallType' /\ TimeType'
  BY DEF WheelInv, WheelType, SlotType, CallType, TimeType, place
<1>2. \A x \in Entries : UNCHANGED <<Due(x), slotIndex[x]>> /\ (Mine(x)' <=> Mine(x))
                         /\ (Linked(x)' <=> Linked(x))
  BY DEF Due, Mine, Linked, At, place
<1>3. WhereInv'
  <2>1. \A x \in Entries, s \in Slots : InList(x, s)' <=> InList(x, s)
    BY DEF InList
  <2>2. QED
    BY <1>2, <2>1 DEF WheelInv, WhereInv, Once
<1>4. CallSlotInv'
  BY DEF WheelInv, CallSlotInv, place
<1>5. TimeInv'
  <2>1. (\A x \in Entries : since[x] <= now)'
    BY <1>1 DEF WheelInv, WheelType, TimeType, TimeInv
  <2>2. (\A x \in Entries : Mine(x) =>
           \A c \in Nat : Due(x) <= c /\ c < Done => Index(c) # slotIndex[x])'
    BY <1>2 DEF WheelInv, TimeInv, Index
  <2>3. (Walking => \A x \in Entries : Mine(x) /\ slotIndex[x] = timer.slot /\ ~InRest(x)
           => Due(x) >= now)'
    BY <1>2
  <2>4. QED
    BY <2>1, <2>2, <2>3 DEF TimeInv
<1>6. QED
  BY <1>1, <1>3, <1>4, <1>5 DEF WheelInv, WheelType

LEMMA TimerFacts ==
  ASSUME WheelInv
  PROVE  /\ DOMAIN timer = {"pc", "target", "slot", "rest", "dest"}
         /\ timer.pc \in TimerPcs /\ timer.target \in Nat /\ now \in Nat
         /\ timer.slot \in Slots /\ timer.dest \in Slots /\ timer.rest \in Seq(Entries)
         /\ 0 \in Slots
         /\ \A x \in Entries : Due(x) \in Nat /\ expires[x] \in Nat /\ since[x] \in Nat
         /\ Walking \/ timer.pc = "lock" =>
              now >= 1 /\ timer.slot = Index(now - 1) /\ now <= timer.target
BY IndexType DEF WheelInv, WheelType, TimerType, TimeType, OwnerInv, Shape, TimerShape, Due, Later,
                 WalkInv

LEMMA Steps ==
  ASSUME WheelInv, Step, timer.rest # <<>>
  PROVE  /\ timer'.pc = "scan" /\ timer'.slot = timer.slot /\ timer'.target = timer.target
         /\ timer'.rest = Tail(timer.rest)
         /\ TimerType'
         /\ \A x \in Entries : InRest(x) <=> x = e0 \/ InRest(x)'
<1>1. /\ DOMAIN timer = {"pc", "target", "slot", "rest", "dest"}
      /\ timer.target \in Nat /\ timer.slot \in Slots /\ timer.rest \in Seq(Entries) /\ 0 \in Slots
  BY TimerFacts
<1>2. /\ timer'.pc = "scan" /\ timer'.slot = timer.slot /\ timer'.target = timer.target
      /\ timer'.rest = Tail(timer.rest) /\ timer'.dest = 0
  BY <1>1 DEF Step
<1> DEFINE r == timer.rest
           t == Tail(r)
<1>3. /\ r \in Seq(Entries) /\ t \in Seq(Entries) /\ Len(t) = Len(r) - 1 /\ Len(r) >= 1
      /\ Head(r) = r[1] /\ \A i \in 1..Len(t) : t[i] = r[i + 1]
  BY <1>1, HeadTailProperties
<1>4. TimerType'
  BY <1>1, <1>2, <1>3 DEF TimerType, TimerPcs
<1> HIDE DEF r, t
<1>5. ASSUME NEW x \in Entries
      PROVE  (\E i \in 1..Len(r) : r[i] = x) <=> x = Head(r) \/ \E i \in 1..Len(t) : t[i] = x
  <2>1. ASSUME NEW i \in 1..Len(r), r[i] = x PROVE x = Head(r) \/ \E j \in 1..Len(t) : t[j] = x
    <3>1. CASE i = 1
      BY <1>3, <2>1, <3>1
    <3>2. CASE i # 1
      <4>1. i - 1 \in 1..Len(t) /\ t[i - 1] = x
        BY <1>3, <2>1, <3>2
      <4>2. QED
        BY <4>1
    <3>3. QED
      BY <3>1, <3>2
  <2>2. x = Head(r) => \E i \in 1..Len(r) : r[i] = x
    BY <1>3
  <2>3. ASSUME NEW j \in 1..Len(t), t[j] = x PROVE \E i \in 1..Len(r) : r[i] = x
    <3>1. j + 1 \in 1..Len(r) /\ r[j + 1] = x
      BY <1>3, <2>3
    <3>2. QED
      BY <3>1
  <2>4. QED
    BY <2>1, <2>2, <2>3
<1>6. \A x \in Entries : InRest(x) <=> x = e0 \/ InRest(x)'
  BY <1>2, <1>5 DEF InRest, e0, r, t
<1>7. QED
  BY <1>2, <1>4, <1>6

\* The rest of a list after the entry that the walk is at.
LEMMA RestOfList ==
  ASSUME NEW S, NEW list \in Seq(S), NEW k \in 1..Len(list) + 1, NEW rest,
         rest = SubSeq(list, k, Len(list))
  PROVE  Suffix(rest, list)
<1>1. k - 1 \in 0..Len(list) /\ rest = SubSeq(list, (k - 1) + 1, Len(list))
  BY SMT
<1>2. QED
  BY <1>1 DEF Suffix

LEMMA WholeList ==
  ASSUME NEW S, NEW list \in Seq(S) PROVE Suffix(list, list)
<1>1. SubSeq(list, 1, Len(list)) = list
  OBVIOUS
<1>2. QED
  BY <1>1, RestOfList

LEMMA WheelMoves ==
  ASSUME WheelInv, OwnerInv', Advance \/ Unlock \/ Return \/ \E t \in Times : Call(t)
  PROVE  WheelInv'
<1>1. /\ DOMAIN timer = {"pc", "target", "slot", "rest", "dest"}
      /\ timer.pc \in TimerPcs /\ timer.target \in Nat /\ now \in Nat
      /\ timer.slot \in Slots /\ timer.dest \in Slots /\ timer.rest \in Seq(Entries)
      /\ 0 \in Slots /\ Times \subseteq Nat
  BY TimerFacts DEF Times
<1>2. CASE \E t \in Times : Call(t)
  <2>1. PICK t \in Times : Call(t)
    BY <1>2
  <2>2. /\ timer.pc = "idle" /\ timer' = [timer EXCEPT !.pc = "next", !.target = t]
        /\ UNCHANGED <<now, slots, expires, since, place, user>>
    BY <2>1 DEF Call, entry
  <2>3. timer'.pc = "next" /\ TimerType'
    BY <1>1, <2>2 DEF TimerType, TimerPcs
  <2>4. WalkInv' /\ LockInv' /\ ~Walking' /\ Done' = Done
    BY <2>2, <2>3 DEF WalkInv, LockInv, Walking, Done
  <2>5. QED
    BY <1>1, <2>2, <2>3, <2>4, TimerQuiet
<1>3. CASE Advance
  <2>1. /\ timer.pc = "next" /\ now < timer.target /\ now' = now + 1
        /\ timer' = [timer EXCEPT !.pc = "lock", !.slot = Index(now)]
        /\ UNCHANGED <<slots, expires, since, place, user>>
    BY <1>3 DEF Advance, entry
  <2>2. /\ timer'.pc = "lock" /\ timer'.slot = Index(now) /\ timer'.target = timer.target
        /\ TimerType'
    BY <1>1, <2>1, IndexType DEF TimerType, TimerPcs
  <2>3. now' - 1 = now /\ now' \in Nat /\ now' >= now
    BY <1>1, <2>1
  <2>4. WalkInv'
    BY <1>1, <2>1, <2>2, <2>3 DEF WalkInv, Walking, Index
  <2>5. ~Walking' /\ LockInv' /\ Done' = Done
    BY <2>1, <2>2, <2>3 DEF Walking, LockInv, Done
  <2>6. QED
    BY <2>1, <2>2, <2>3, <2>4, <2>5, TimerQuiet
<1>4. CASE Return
  <2>1. timer.pc = "next" /\ timer' = Idle /\ UNCHANGED <<now, slots, expires, since, place, user>>
    BY <1>4 DEF Return, entry
  <2>2. timer'.pc = "idle" /\ TimerType'
    BY <1>1, <2>1 DEF TimerType, TimerPcs, Idle
  <2>3. WalkInv' /\ LockInv' /\ ~Walking' /\ Done' = Done
    BY <2>1, <2>2 DEF WalkInv, LockInv, Walking, Done
  <2>4. QED
    BY <1>1, <2>1, <2>2, <2>3, TimerQuiet
<1>5. CASE Unlock
  <2>1. /\ timer.pc = "scan" /\ timer.rest = <<>> /\ timer' = [timer EXCEPT !.pc = "next"]
        /\ UNCHANGED <<now, slots, expires, since, place, user>>
    BY <1>5 DEF Unlock, entry
  <2>2. timer'.pc = "next" /\ TimerType'
    BY <1>1, <2>1 DEF TimerType, TimerPcs
  <2>3. WalkInv' /\ LockInv' /\ ~Walking' /\ Done' = now /\ Done = now - 1
    BY <2>1, <2>2 DEF WalkInv, LockInv, Walking, Done
  <2>4. ASSUME NEW x \in Entries, Mine(x), NEW c \in Nat, Due(x) <= c, c < now
        PROVE  Index(c) # slotIndex[x]
    <3>1. CASE c < Done
      BY <2>4, <3>1 DEF WheelInv, TimeInv
    <3>2. CASE c = now - 1
      <4>1. Due(x) < now /\ Due(x) \in Nat
        BY <1>1, <2>4, TimerFacts
      <4>2. ~InRest(x) /\ Walking
        BY <2>1 DEF InRest, Walking
      <4>3. slotIndex[x] # timer.slot
        BY <1>1, <2>4, <4>1, <4>2 DEF WheelInv, TimeInv
      <4>4. QED
        BY <3>2, <4>2, <4>3 DEF WheelInv, WalkInv
    <3>3. QED
      BY <1>1, <2>3, <2>4, <3>1, <3>2
  <2>5. QED
    BY <1>1, <2>1, <2>2, <2>3, <2>4, TimerQuiet
<1>6. QED
  BY <1>2, <1>3, <1>4, <1>5

LEMMA WheelLooks ==
  ASSUME WheelInv, OwnerInv',
         \/ Lock \/ Expired \/ NotOver \/ Stay \/ Rehash \/ Keep \/ Misplaced \/ NotMine
  PROVE  WheelInv'
<1>1. /\ DOMAIN timer = {"pc", "target", "slot", "rest", "dest"}
      /\ timer.pc \in TimerPcs /\ timer.target \in Nat /\ now \in Nat
      /\ timer.slot \in Slots /\ timer.dest \in Slots /\ timer.rest \in Seq(Entries)
      /\ \A x \in Entries : Due(x) \in Nat /\ expires[x] \in Nat /\ since[x] \in Nat
      /\ Walking \/ timer.pc = "lock" =>
           now >= 1 /\ timer.slot = Index(now - 1) /\ now <= timer.target
  BY TimerFacts
<1>2. slots[timer.slot] \in Seq(Entries)
  BY <1>1 DEF WheelInv, WheelType, SlotType
<1>3. CASE Lock
  <2>1. /\ timer.pc = "lock" /\ Unheld(timer.slot)
        /\ timer' = [timer EXCEPT !.pc = "scan", !.rest = slots[timer.slot]]
        /\ UNCHANGED <<now, slots, expires, since, place, user>>
    BY <1>3 DEF Lock, entry
  <2>2. /\ timer'.pc = "scan" /\ timer'.slot = timer.slot /\ timer'.target = timer.target
        /\ timer'.rest = slots[timer.slot] /\ TimerType'
    BY <1>1, <1>2, <2>1 DEF TimerType, TimerPcs
  <2>3. WalkInv' /\ Done' = Done
    BY <1>1, <1>2, <2>1, <2>2, WholeList DEF WalkInv, Walking, Index, Done
  <2>4. \A x \in Entries : Mine(x) /\ slotIndex[x] = timer'.slot => InRest(x)'
    BY <1>1, <2>1, <2>2 DEF WheelInv, WhereInv, InList, InRest, Mine
  <2>5. LockInv'
    BY <2>1, <2>2 DEF LockInv, Unheld
  <2>6. QED
    BY <1>1, <2>1, <2>2, <2>3, <2>4, <2>5, TimerQuiet
<1>4. ASSUME timer.pc \in {"late", "dest", "move", "expire"}, timer.rest # <<>>, Step,
             UNCHANGED <<now, slots, expires, since, place, user>>,
             Mine(e0) => Due(e0) >= now
      PROVE  WheelInv'
  <2>1. /\ timer'.pc = "scan" /\ timer'.slot = timer.slot /\ timer'.target = timer.target
        /\ timer'.rest = Tail(timer.rest) /\ TimerType'
        /\ \A x \in Entries : InRest(x) <=> x = e0 \/ InRest(x)'
    BY <1>4, Steps
  <2>2. PICK k \in 1..Len(slots[timer.slot]) :
          Tail(timer.rest) = SubSeq(slots[timer.slot], k + 1, Len(slots[timer.slot]))
    BY <1>4, WalkAt DEF WheelInv
  <2>3. Suffix(timer'.rest, slots'[timer'.slot])
    <3>1. k + 1 \in 1..Len(slots[timer.slot]) + 1
      BY <1>2
    <3>2. QED
      BY <1>2, <1>4, <2>1, <2>2, <3>1, RestOfList
  <2>4. WalkInv' /\ Done' = Done
    BY <1>1, <1>4, <2>1, <2>3 DEF WalkInv, Walking, Index, Done
  <2>5. \A x \in Entries : Mine(x) /\ slotIndex[x] = timer'.slot /\ ~InRest(x)' => Due(x) >= now'
    BY <1>4, <2>1 DEF WheelInv, TimeInv, Walking
  <2>6. LockInv'
    BY <1>4, <2>1 DEF WheelInv, LockInv, Unheld, Walking
  <2>7. QED
    BY <1>1, <1>4, <2>1, <2>4, <2>5, <2>6, TimerQuiet
<1>5. CASE Keep \/ Stay
  <2>1. /\ timer.pc \in {"late", "dest"} /\ timer.rest # <<>> /\ Step
        /\ UNCHANGED <<now, slots, expires, since, place, user>>
    BY <1>5 DEF Keep, Stay, Here, entry
  <2>2. Due(e0) >= now
    BY <2>1 DEF WheelInv, TimeInv
  <2>3. QED
    BY <1>4, <2>1, <2>2
<1>6. CASE NotMine
  <2>1. /\ timer.pc \in {"move", "expire"} /\ timer.rest # <<>> /\ Step
        /\ UNCHANGED <<now, slots, expires, since, place, user>>
        /\ ~Mine(e0)
    BY <1>6 DEF NotMine, Here, Mine, entry
  <2>2. QED
    BY <1>4, <2>1
<1>7. CASE Expired \/ NotOver \/ Rehash \/ Misplaced
  <2>1. /\ timer.pc \in {"scan", "late", "dest"} /\ timer.rest # <<>>
        /\ UNCHANGED <<now, slots, expires, since, place, user>>
    BY <1>7 DEF Expired, NotOver, Rehash, Misplaced, Here, entry
  <2>2. PICK x \in Entries : e0 = x
    BY <2>1, WalkAt DEF WheelInv
  <2>3. Index(expires[x]) \in Slots /\ expires[x] \in Nat
    BY <1>1, IndexType
  <2>4. /\ timer'.slot = timer.slot /\ timer'.target = timer.target /\ timer'.rest = timer.rest
        /\ timer'.dest \in Slots
        /\ \/ timer'.pc = "expire" /\ expires[x] < timer.target
           \/ timer'.pc = "late" /\ ~(expires[x] < timer.target)
           \/ timer.pc = "late" /\ timer'.pc = "dest"
           \/ timer.pc = "dest" /\ timer'.pc = "move" /\ timer'.dest # timer.slot
    <3>1. CASE Expired
      BY <1>1, <2>2, <3>1 DEF Expired, Over
    <3>2. CASE NotOver
      <4>1. timer' = [timer EXCEPT !.pc = "late", !.dest = Index(expires[x])]
        BY <2>2, <3>2 DEF NotOver
      <4>2. ~(expires[x] < timer.target)
        BY <2>2, <3>2 DEF NotOver, Over
      <4>3. QED
        BY <1>1, <2>3, <4>1, <4>2
    <3>3. CASE Rehash
      BY <1>1, <3>3 DEF Rehash, Here
    <3>4. CASE Misplaced
      <4>1. PICK new \in Slots \ {timer.slot} :
              timer.pc = "dest" /\ timer' = [timer EXCEPT !.pc = "move", !.dest = new]
        BY <1>1, <2>2, <2>3, <3>4 DEF Misplaced, NewSlots, Here
      <4>2. QED
        BY <1>1, <4>1
    <3>5. QED
      BY <1>7, <3>1, <3>2, <3>3, <3>4
  <2>5. TimerType' /\ e0' = x /\ \A y \in Entries : InRest(y)' <=> InRest(y)
    BY <1>1, <2>2, <2>4 DEF TimerType, TimerPcs, e0, InRest
  <2>6. WalkInv' /\ LockInv' /\ Done' = Done
    BY <1>1, <2>1, <2>4 DEF WheelInv, WalkInv, LockInv, Unheld, Walking, Index, Done
  <2>7. \A y \in Entries : Mine(y) /\ slotIndex[y] = timer'.slot /\ ~InRest(y)' => Due(y) >= now'
    BY <2>1, <2>4, <2>5 DEF WheelInv, TimeInv, Walking
  <2>8. ASSUME timer'.pc \in {"late", "dest", "move"} PROVE Due(x) >= now
    <3>1. CASE timer'.pc = "late"
      BY <1>1, <2>1, <2>2, <2>3, <2>4, <3>1 DEF Due, Later, Walking
    <3>2. CASE timer'.pc # "late"
      BY <2>2, <2>4, <2>8, <3>2 DEF WheelInv, TimeInv
    <3>3. QED
      BY <3>1, <3>2
  <2>9. timer'.pc \in {"late", "dest", "move", "relink"} => (Due(e0) >= now)'
    BY <2>1, <2>4, <2>5, <2>8 DEF Due
  <2>10. timer'.pc = "expire" => (expires[e0] < timer.target \/ e0 \in wrongLock)'
    BY <2>1, <2>2, <2>4, <2>5
  <2>11. QED
    BY <1>1, <2>1, <2>4, <2>5, <2>6, <2>7, <2>9, <2>10, TimerQuiet
<1>8. QED
  BY <1>3, <1>5, <1>6, <1>7

\* Nobody else has the entry whose status the timer changes.
LEMMA TimerLinked ==
  ASSUME WheelInv, NEW e \in Entries, UNCHANGED user,
         \A x \in Entries \ {e} : status'[x] = status[x]
  PROVE  /\ \A x \in Entries \ {e} : (Linked(x)' <=> Linked(x)) /\ (Mine(x)' <=> Mine(x))
         /\ status[e] = "normal" /\ status'[e] # "normal" => ~Linked(e)' /\ ~Mine(e)'
<1>1. \A x \in Entries \ {e} : Linked(x)' <=> Linked(x)
  BY DEF Linked, At
<1>2. \A u \in Users : At(u, e, "unlink") => status[e] # "normal"
  BY DEF WheelInv, OwnerInv, CallInv, Owning, At
<1>3. status[e] = "normal" /\ status'[e] # "normal" => ~Linked(e)'
  BY <1>2 DEF Linked, At
<1>4. QED
  BY <1>1, <1>3 DEF Mine

\* What the calls have read, when the timer changes an entry that no add has.
LEMMA TimerCalls ==
  ASSUME WheelInv, NEW e \in Entries, UNCHANGED user,
         \A x \in Entries \ {e} : status'[x] = status[x] /\ slotIndex'[x] = slotIndex[x],
         \A u \in Users : user[u].e = e /\ user[u].pc = "unlink" => slotIndex'[e] = slotIndex[e],
         \A u \in Users : user[u].e = e => ~user[u].fresh
  PROVE  CallSlotInv'
<1>1. \A u \in Users : user[u].e \in Entries
  BY DEF WheelInv, OwnerInv, Shape
<1>2. QED
  BY <1>1 DEF WheelInv, CallSlotInv

LEMMA WheelTakeOut ==
  ASSUME WheelInv, OwnerInv', TakeOut \/ TimeOut PROVE WheelInv'
<1>1. /\ DOMAIN timer = {"pc", "target", "slot", "rest", "dest"}
      /\ timer.pc \in TimerPcs /\ timer.target \in Nat /\ now \in Nat
      /\ timer.slot \in Slots /\ timer.dest \in Slots /\ timer.rest \in Seq(Entries)
      /\ Walking \/ timer.pc = "lock" =>
           now >= 1 /\ timer.slot = Index(now - 1) /\ now <= timer.target
  BY TimerFacts
<1>2. /\ timer.pc \in {"move", "expire"} /\ timer.rest # <<>> /\ status[e0] = "normal"
      /\ slots' = Unlinked(e0)
      /\ UNCHANGED <<now, expires, since, slotIndex, user>>
  BY DEF TakeOut, TimeOut, Here, entry
<1>3. PICK e \in Entries, k \in 1..Len(slots[timer.slot]) :
        /\ e = e0 /\ slots[timer.slot][k] = e
        /\ Tail(timer.rest) = SubSeq(slots[timer.slot], k + 1, Len(slots[timer.slot]))
        /\ Linked(e) /\ slotIndex[e] = timer.slot
  BY <1>2, WalkAt DEF WheelInv
<1>4. /\ \/ /\ timer.pc = "move" /\ timer'.pc = "relink" /\ timer'.rest = timer.rest
            /\ timer'.dest = timer.dest /\ status' = [status EXCEPT ![e] = "moving"]
            /\ timer'.slot = timer.slot /\ timer'.target = timer.target
         \/ /\ timer'.pc = "scan" /\ timer'.rest = Tail(timer.rest)
            /\ timer'.slot = timer.slot /\ timer'.target = timer.target
            /\ status' = [status EXCEPT ![e] = "timeout"]
      /\ TimerType' /\ \A x \in Entries \ {e} : InRest(x)' <=> InRest(x)
  <2>1. CASE TakeOut
    <3>1. /\ timer.pc = "move" /\ timer'.pc = "relink" /\ timer'.rest = timer.rest
          /\ timer'.dest = timer.dest /\ status' = [status EXCEPT ![e] = "moving"]
          /\ timer'.slot = timer.slot /\ timer'.target = timer.target
      BY <1>1, <1>3, <2>1 DEF TakeOut, Here
    <3>2. QED
      BY <1>1, <3>1 DEF TimerType, TimerPcs, InRest
  <2>2. CASE TimeOut
    <3>1. Step /\ status' = [status EXCEPT ![e] = "timeout"]
      BY <1>3, <2>2 DEF TimeOut
    <3>2. QED
      BY <1>2, <1>3, <3>1, Steps
  <2>3. QED
    BY <2>1, <2>2
<1>5. /\ status'[e] \in {"moving", "timeout"}
      /\ \A x \in Entries \ {e} : status'[x] = status[x]
  BY <1>4 DEF WheelInv, OwnerInv, Shape
<1>6. /\ \A x \in Entries \ {e} : (Linked(x)' <=> Linked(x)) /\ (Mine(x)' <=> Mine(x))
      /\ ~Linked(e)' /\ ~Mine(e)'
  BY <1>2, <1>3, <1>5, TimerLinked
<1>7. /\ \A u \in Users : user[u].e = e => ~user[u].fresh
  BY <1>2, <1>3 DEF Linked, At, WheelInv, OwnerInv, CallInv, Owning
<1>8. CallSlotInv'
  BY <1>2, <1>5, <1>7, TimerCalls
<1>9. /\ SlotType' /\ Once'
      /\ \A x \in Entries, s \in Slots : InList(x, s)' <=> InList(x, s) /\ x # e
      /\ Len(slots'[timer.slot]) = Len(slots[timer.slot]) - 1
      /\ SubSeq(slots'[timer.slot], k, Len(slots'[timer.slot]))
           = SubSeq(slots[timer.slot], k + 1, Len(slots[timer.slot]))
  BY <1>1, <1>2, <1>3, Unlinks DEF WheelInv, WheelType, WhereInv
<1>10. WhereInv'
  BY <1>2, <1>6, <1>9 DEF WheelInv, WhereInv
<1>11. Suffix(Tail(timer.rest), slots'[timer.slot])
  <2>1. slots[timer.slot] \in Seq(Entries) /\ slots'[timer.slot] \in Seq(Entries)
    BY <1>1, <1>9 DEF SlotType, WheelInv, WheelType
  <2>2. k \in 1..Len(slots'[timer.slot]) + 1
    BY <1>9, <2>1
  <2>3. QED
    BY <1>3, <1>9, <2>1, <2>2, RestOfList
<1>12. WalkInv'
  BY <1>1, <1>2, <1>4, <1>11 DEF WheelInv, WalkInv, Walking, Index
<1>13. CallType' /\ TimeType'
  BY <1>2 DEF WheelInv, WheelType, CallType, TimeType
<1>14. TimeInv'
  <2>1. \A x \in Entries : UNCHANGED Due(x)
    BY <1>2 DEF Due
  <2>2. Done' = Done /\ Walking
    BY <1>2, <1>4 DEF Done, Walking
  <2>3. (\A x \in Entries : since[x] <= now)'
    BY <1>2 DEF WheelInv, TimeInv
  <2>4. (\A x \in Entries : Mine(x) =>
           \A c \in Nat : Due(x) <= c /\ c < Done => Index(c) # slotIndex[x])'
    BY <1>2, <1>6, <2>1, <2>2 DEF WheelInv, TimeInv, Index
  <2>5. (Walking => \A x \in Entries : Mine(x) /\ slotIndex[x] = timer.slot /\ ~InRest(x)
           => Due(x) >= now)'
    BY <1>2, <1>4, <1>6, <2>1, <2>2 DEF WheelInv, TimeInv
  <2>6. (timer.pc \in {"late", "dest", "move", "relink"} => Due(e0) >= now)'
    <3>1. CASE timer'.pc = "relink"
      <4>1. e0' = e /\ Due(e) >= now
        BY <1>3, <1>4, <3>1 DEF e0, WheelInv, TimeInv
      <4>2. QED
        BY <1>2, <2>1, <4>1 DEF Due
    <3>2. QED
      BY <1>4, <3>1
  <2>7. (timer.pc = "expire" => expires[e0] < timer.target \/ e0 \in wrongLock)'
    BY <1>4
  <2>8. QED
    BY <2>3, <2>4, <2>5, <2>6, <2>7 DEF TimeInv
<1>15. LockInv'
  BY <1>2, <1>4 DEF WheelInv, LockInv, Unheld, Walking
<1>16. QED
  BY <1>4, <1>8, <1>9, <1>10, <1>12, <1>13, <1>14, <1>15 DEF WheelInv, WheelType

LEMMA WheelRelink ==
  ASSUME WheelInv, OwnerInv', Relink PROVE WheelInv'
<1>1. /\ DOMAIN timer = {"pc", "target", "slot", "rest", "dest"}
      /\ timer.pc \in TimerPcs /\ timer.target \in Nat /\ now \in Nat
      /\ timer.slot \in Slots /\ timer.dest \in Slots /\ timer.rest \in Seq(Entries)
      /\ \A x \in Entries : Due(x) \in Nat
      /\ Walking \/ timer.pc = "lock" =>
           now >= 1 /\ timer.slot = Index(now - 1) /\ now <= timer.target
  BY TimerFacts
<1>2. /\ timer.pc = "relink" /\ timer.rest # <<>> /\ Step
      /\ slots' = [slots EXCEPT ![timer.dest] = Append(@, e0)]
      /\ status' = [status EXCEPT ![e0] = "normal"]
      /\ slotIndex' = [slotIndex EXCEPT ![e0] = timer.dest]
      /\ UNCHANGED <<now, expires, since, user>>
  BY DEF Relink, Here
<1>3. PICK e \in Entries :
        /\ e = e0 /\ status[e] = "moving" /\ ~Linked(e)
        /\ \A u \in Users : Owning(u) => user[u].e # e
  BY <1>2, RelinkAt DEF WheelInv
<1>4. /\ timer'.pc = "scan" /\ timer'.rest = Tail(timer.rest)
      /\ timer'.slot = timer.slot /\ timer'.target = timer.target
      /\ TimerType' /\ \A x \in Entries \ {e} : InRest(x)' <=> InRest(x)
  BY <1>2, <1>3, Steps
<1>5. /\ status'[e] = "normal" /\ slotIndex'[e] = timer.dest
      /\ \A x \in Entries \ {e} : status'[x] = status[x] /\ slotIndex'[x] = slotIndex[x]
      /\ slotIndex' \in [Entries -> Slots]
  BY <1>1, <1>2, <1>3 DEF WheelInv, OwnerInv, Shape, WheelType, TimeType
<1>6. \A u \in Users : user[u].e = e => ~user[u].fresh /\ user[u].pc # "unlink"
  <2>1. ASSUME NEW u \in Users, user[u].e = e, user[u].fresh PROVE FALSE
    BY <1>3, <2>1 DEF WheelInv, CallSlotInv, OwnerInv, CallInv
  <2>2. ASSUME NEW u \in Users, user[u].e = e, user[u].pc = "unlink" PROVE FALSE
    BY <1>3, <2>1, <2>2 DEF Owning
  <2>3. QED
    BY <2>1, <2>2
<1>7. /\ \A x \in Entries \ {e} : (Linked(x)' <=> Linked(x)) /\ (Mine(x)' <=> Mine(x))
      /\ Linked(e)'
  BY <1>2, <1>5, <1>6, TimerLinked DEF Linked
<1>8. CallSlotInv'
  BY <1>2, <1>5, <1>6, TimerCalls
<1>9. /\ SlotType' /\ Once'
      /\ \A x \in Entries, s \in Slots :
           InList(x, s)' <=> InList(x, s) \/ (x = e /\ s = timer.dest)
      /\ \A s \in Slots \ {timer.dest} : slots'[s] = slots[s]
  <2>1. ~InList(e, timer.dest)
    BY <1>1, <1>3 DEF WheelInv, WhereInv
  <2>2. QED
    BY <1>1, <1>2, <1>3, <2>1, Links DEF WheelInv, WheelType, WhereInv
<1>10. WhereInv'
  BY <1>3, <1>5, <1>7, <1>9 DEF WheelInv, WhereInv
<1>11. timer.dest # timer.slot
  BY <1>2 DEF WheelInv, WalkInv
<1>12. WalkInv'
  BY <1>1, <1>2, <1>4, <1>9, <1>11 DEF WheelInv, WalkInv, Walking, Index
<1>13. CallType' /\ TimeType'
  BY <1>2, <1>5 DEF WheelInv, WheelType, CallType, TimeType
<1>14. TimeInv'
  <2>1. \A x \in Entries : UNCHANGED Due(x)
    BY <1>2 DEF Due
  <2>2. Done' = Done /\ Done = now - 1 /\ Walking
    BY <1>2, <1>4 DEF Done, Walking
  <2>3. (\A x \in Entries : since[x] <= now)'
    BY <1>2 DEF WheelInv, TimeInv
  <2>4. Due(e) >= now
    BY <1>2, <1>3 DEF WheelInv, TimeInv
  <2>5. (\A x \in Entries : Mine(x) =>
           \A c \in Nat : Due(x) <= c /\ c < Done => Index(c) # slotIndex[x])'
    <3>1. ASSUME NEW x \in Entries, Mine(x)', NEW c \in Nat, Due(x) <= c, c < Done
          PROVE  Index(c) # slotIndex'[x]
      <4>1. x # e
        BY <1>1, <2>2, <2>4, <3>1
      <4>2. QED
        BY <1>5, <1>7, <3>1, <4>1 DEF WheelInv, TimeInv
    <3>2. QED
      BY <2>1, <2>2, <3>1 DEF Index
  <2>6. (Walking => \A x \in Entries : Mine(x) /\ slotIndex[x] = timer.slot /\ ~InRest(x)
           => Due(x) >= now)'
    BY <1>2, <1>4, <1>5, <1>7, <1>11, <2>1, <2>2 DEF WheelInv, TimeInv
  <2>7. QED
    BY <1>4, <2>3, <2>5, <2>6 DEF TimeInv
<1>15. LockInv'
  BY <1>2, <1>4 DEF WheelInv, LockInv, Unheld, Walking
<1>16. QED
  BY <1>4, <1>8, <1>9, <1>10, <1>12, <1>13, <1>14, <1>15 DEF WheelInv, WheelType

LEMMA WheelNext == WheelInv /\ [Next]_vars => WheelInv'
<1> SUFFICES ASSUME WheelInv, [Next]_vars PROVE WheelInv'
  OBVIOUS
<1>1. OwnerInv'
  BY OwnerNext DEF WheelInv
<1>2. CASE \E u \in Users : Begin(u) \/ Continue(u)
  BY <1>1, <1>2, WheelCaller
<1>3. CASE Scan \/ \E t \in Times : Call(t)
  BY <1>1, <1>3, WheelMoves, WheelLooks, WheelTakeOut, WheelRelink DEF Scan
<1>4. CASE UNCHANGED vars
  <2>1. UNCHANGED <<now, slots, entry, place, timer, chain, user>>
    BY <1>4 DEF vars
  <2>2. /\ \A e \in Entries : /\ Linked(e)' <=> Linked(e)
                              /\ Mine(e)' <=> Mine(e)
                              /\ InRest(e)' <=> InRest(e)
                              /\ UNCHANGED Due(e)
        /\ UNCHANGED <<e0, Done>> /\ (Walking' <=> Walking)
    BY <2>1 DEF entry, place, Linked, At, Mine, InRest, Due, e0, Done, Walking
  <2>3. TimeInv'
    BY <2>1, <2>2 DEF WheelInv, TimeInv, entry, place, Due, Index
  <2>4. WheelType' /\ CallSlotInv'
    BY <2>1 DEF WheelInv, WheelType, SlotType, TimeType, CallType, TimerType, CallSlotInv, entry,
                place
  <2>5. WhereInv'
    <3>1. Once' /\ \A e \in Entries, s \in Slots : InList(e, s)' <=> InList(e, s)
      BY <2>1 DEF WheelInv, WhereInv, Once, InList
    <3>2. QED
      BY <2>1, <2>2, <3>1 DEF WheelInv, WhereInv, place
  <2>6. WalkInv'
    BY <2>1, <2>2 DEF WheelInv, WalkInv, Index
  <2>7. LockInv'
    BY <2>1, <2>2 DEF WheelInv, LockInv, Unheld
  <2>8. QED
    BY <1>1, <2>3, <2>4, <2>5, <2>6, <2>7 DEF WheelInv
<1>5. QED
  BY <1>2, <1>3, <1>4 DEF Next

\* Whatever the threads do, in whatever order: an entry is in the list of the
\* slot that is recorded for it, and nowhere else, until the one who has won its
\* status takes it out (remove_ex, locked_timer.c:278).
THEOREM InItsSlotCorrect == Spec => []InItsSlot
<1>1. ASSUME WheelInv PROVE InItsSlot
  <2>1. ASSUME NEW e \in Entries, NEW s \in Slots, NEW i
        PROVE  <<s, i>> \in Where(e) <=> i \in 1..Len(slots[s]) /\ slots[s][i] = e
    BY <1>1 DEF Where, WheelInv, WheelType, SlotType
  <2>2. ASSUME NEW e \in Entries, NEW p \in Where(e)
        PROVE  \E s \in Slots : \E i \in 1..Len(slots[s]) : p = <<s, i>> /\ slots[s][i] = e
    BY <1>1 DEF Where, WheelInv, WheelType, SlotType
  <2>3. ASSUME NEW e \in Entries, Linked(e)
        PROVE  \E i \in DOMAIN slots[slotIndex[e]] : Where(e) = {<<slotIndex[e], i>>}
    <3>1. slotIndex[e] \in Slots /\ InList(e, slotIndex[e])
      BY <1>1, <2>3 DEF WheelInv, WheelType, TimeType, WhereInv
    <3>2. PICK i \in 1..Len(slots[slotIndex[e]]) : slots[slotIndex[e]][i] = e
      BY <3>1 DEF InList
    <3>3. <<slotIndex[e], i>> \in Where(e)
      BY <2>1, <3>1, <3>2
    <3>4. ASSUME NEW p \in Where(e) PROVE p = <<slotIndex[e], i>>
      <4>0. PICK s \in Slots : \E j \in 1..Len(slots[s]) : p = <<s, j>> /\ slots[s][j] = e
        BY <2>2
      <4>1. PICK j \in 1..Len(slots[s]) : p = <<s, j>> /\ slots[s][j] = e
        BY <4>0
      <4>2. s = slotIndex[e]
        BY <1>1, <4>1 DEF WheelInv, WhereInv, InList
      <4>3. j = i
        BY <1>1, <3>1, <3>2, <4>1, <4>2 DEF WheelInv, WhereInv, Once
      <4>4. QED
        BY <4>1, <4>2, <4>3
    <3>5. DOMAIN slots[slotIndex[e]] = 1..Len(slots[slotIndex[e]])
      BY <1>1, <3>1 DEF WheelInv, WheelType, SlotType
    <3>6. QED
      BY <3>2, <3>3, <3>4, <3>5
  <2>4. ASSUME NEW e \in Entries, ~Linked(e) PROVE Where(e) = {}
    BY <1>1, <2>2, <2>4 DEF WheelInv, WhereInv, InList
  <2>5. QED
    BY <2>3, <2>4 DEF InItsSlot, Linked
<1>2. QED
  BY <1>1, WheelInit, WheelNext, PTL DEF Spec

\* While callers take entries out of other slots and out of the status of this
\* one, what timeouts_get has still to look at is the rest of its list
\* (locked_timer.c:306).
THEOREM WalkIsSafeCorrect == Spec => []WalkIsSafe
<1>1. WheelInv => WalkIsSafe
  BY DEF WheelInv, WalkInv, WalkIsSafe, Suffix
<1>2. QED
  BY <1>1, WheelInit, WheelNext, PTL DEF Spec

\* An entry that is in the wheel when no call of timeouts_get is under way was
\* due, or had its time settled, less than a round ago; and what timeouts_get
\* takes for expired is due, unless a modify that held another slot's lock than
\* the entry's has entered a later time since it was read (locked_timer.c:244-251
\* and l.307).  For every number of slots, threads and entries.
THEOREM InTimeCorrect == Spec => []InTime
<1>1. ASSUME WheelInv PROVE InTime
  <2>1. ASSUME NEW e \in Entries, status[e] = "normal", Where(e) # {}, timer.pc = "idle"
        PROVE  now < Due(e) + SlotCount
    <3>1. /\ now \in Nat /\ Due(e) \in Nat /\ SlotCount \in Nat \ {0}
          /\ slotIndex[e] \in 0..SlotCount - 1
      BY <1>1, TimerFacts, TimerAssumption DEF WheelInv, WheelType, TimeType, Slots
    <3>2. PICK s \in Slots : InList(e, s)
      BY <1>1, <2>1 DEF Where, InList, WheelInv, WheelType, SlotType
    <3>3. Mine(e) /\ Done = now
      BY <1>1, <2>1, <3>2 DEF WheelInv, WhereInv, Mine, Done, Walking
    <3>4. PICK c \in Due(e)..Due(e) + SlotCount - 1 : (c % SlotCount) = slotIndex[e]
      BY <3>1, Hits
    <3>5. c \in Nat /\ Due(e) <= c /\ c < Due(e) + SlotCount /\ Index(c) = slotIndex[e]
      BY <3>1, <3>4 DEF Index
    <3>6. ~(c < now)
      BY <1>1, <3>3, <3>5 DEF WheelInv, TimeInv
    <3>7. QED
      BY <3>1, <3>5, <3>6
  <2>2. Here("expire") => expires[e0] < timer.target \/ e0 \in wrongLock
    BY <1>1 DEF WheelInv, TimeInv, Here
  <2>3. QED
    BY <2>1, <2>2 DEF InTime, Due
<1>2. QED
  BY <1>1, WheelInit, WheelNext, PTL DEF Spec
=============================================================================
