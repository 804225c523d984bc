--------------------------- MODULE WifiAsyncProof ---------------------------
(***************************************************************************)
(* Proofs about WifiAsync, for every number of commands, every set of      *)
(* handles and statuses, and any length of the callback list.              *)
(*                                                                         *)
(* The argument is about positions: the commands the worker has not taken  *)
(* are the last ones issued, the one it holds is just before them, and     *)
(* every earlier one with a callback is in the callback list or has been   *)
(* answered, in that order of age.                                         *)
(*                                                                         *)
(* The second part is about the callbacks themselves: which is the first,  *)
(* and what statuses the main thread is shown.  Each of its invariants is  *)
(* about what is in cb_cmd_list between what the worker did last and what  *)
(* the main thread has seen.                                               *)
(***************************************************************************)
EXTENDS WifiAsync, TLAPS

\* What the proofs need of a step: where the main thread is in its loop does
\* not matter, only which command it issues and which callback it runs.
Step == (\E c \in Cmd : Issue(c)) \/ RunCb \/ Worker

LEMMA NextIsStep == [Next]_vars => [Step]_state
<1>1. CASE MainTurn
  BY <1>1 DEF MainTurn, NoKey, Key, KeyConnect, MastarRun, Step, Cmd, Answering
<1>2. CASE Typed
  BY <1>2 DEF Typed, Step, Cmd
<1>3. CASE Worker \/ UNCHANGED vars
  BY <1>3 DEF Step, vars
<1>4. QED
  BY <1>1, <1>2, <1>3 DEF Next

\* Type correctness (wifi_config.c: the list nodes, the worker's locals and
\* g_info always hold values of their types; hWlan is -1 or a handle).
LEMMA TypeInit == Init => StateOK
<1> SUFFICES ASSUME Init PROVE StateOK
  OBVIOUS
<1>1. <<>> \in Seq(Cmd) /\ <<>> \in Seq(Nat) /\ <<>> \in Seq(CbNode)
  OBVIOUS
<1>2. QED
  BY <1>1, Zenon DEF Init, StateOK

LEMMA TypeNext == StateOK /\ [Step]_state => StateOK'
<1> SUFFICES ASSUME StateOK, [Step]_state PROVE StateOK'
  OBVIOUS
<1>1. ASSUME NEW c \in Cmd, Issue(c) PROVE StateOK'
  BY <1>1 DEF StateOK, Issue, workVars
<1>2. CASE RunCb
  <2>1. Head(cb_cmd_list) \in CbNode /\ Tail(cb_cmd_list) \in Seq(CbNode)
    BY <1>2 DEF StateOK, RunCb
  <2>2. QED
    BY <1>2, <2>1 DEF StateOK, RunCb, CbNode, workVars
<1>3. ASSUME NEW n \in CbNode, AddCb(n) PROVE cb_cmd_list' \in Seq(CbNode)
  BY <1>3 DEF StateOK, AddCb
<1>4. CASE OpenDevice
  <2>1. OpenCb \in CbNode
    BY DEF OpenCb, CbNode
  <2>2. QED
    BY <1>3, <1>4, <2>1 DEF StateOK, OpenDevice, mainVars
<1>5. CASE StateRun
  <2>1. ASSUME NEW s \in Status PROVE StateCb(s) \in CbNode
    BY DEF StateOK, StateCb, CbNode
  <2>2. cb_cmd_list' \in Seq(CbNode)
    BY <1>3, <1>5, <2>1, Zenon DEF StateOK, StateRun
  <2>3. staOld' \in Status \cup {ZeroStatus}
    BY <1>5, Zenon DEF StateOK, StateRun
  <2>4. QED
    BY <1>5, <2>2, <2>3, Zenon DEF StateOK, StateRun, mainVars
<1>6. CASE PopCmd
  <2>1. get_cmd_list \in Seq(Nat) /\ cur \in Nat
    BY DEF StateOK
  <2>2. /\ get_cmd_list' \in Seq(Nat)
        /\ cur' \in Nat
        /\ worker' \in {"open", "failed", "state", "pop", "exec"}
    BY <1>6, <2>1 DEF PopCmd
  <2>3. QED
    BY <1>6, <2>2, Zenon DEF StateOK, PopCmd, mainVars
<1>7. CASE ExecCmd
  <2>1. cur \in Nat
    BY DEF StateOK
  <2>2. ASSUME asked[cur] \in Answering PROVE Answer(cur) \in CbNode
    BY <2>1, <2>2 DEF Answer, CbNode, Answering
  <2>3. cb_cmd_list' \in Seq(CbNode)
    BY <1>3, <1>7, <2>2, Zenon DEF StateOK, ExecCmd, ExecScan, ExecConnect,
                                   ExecDisconnect, Answering
  <2>4. hWlan' \in Handles \cup {NoHandle} /\ conn' \in Nat
    BY <1>7, <2>1 DEF StateOK, ExecCmd, ExecScan, ExecConnect, ExecDisconnect
  <2>5. QED
    BY <1>7, <2>3, <2>4 DEF StateOK, ExecCmd, mainVars
<1>8. CASE UNCHANGED state
  BY <1>8, Zenon DEF StateOK, state
<1>9. QED
  BY <1>1, <1>2, <1>4, <1>5, <1>6, <1>7, <1>8 DEF Step, Worker

LEMMA StateCorrect == Spec => []StateOK
BY TypeInit, TypeNext, NextIsStep, PTL DEF Spec

\* Every variable keeps its type; the main thread is at one of its three places
\* (main.c, l.145-176; wifi_config.c, l.31-56).
THEOREM TypeCorrect == Spec => []TypeOK
<1>1. Init => TypeOK
  BY TypeInit DEF Init, TypeOK
<1>2. TypeOK /\ [Next]_vars => TypeOK'
  <2> SUFFICES ASSUME TypeOK, [Next]_vars PROVE TypeOK'
    OBVIOUS
  <2>1. StateOK'
    BY NextIsStep, TypeNext DEF TypeOK
  <2>2. main' \in {"key", "typing", "run"}
    BY DEF TypeOK, Next, MainTurn, NoKey, Key, KeyConnect, MastarRun, Typed,
           Worker, OpenDevice, StateRun, PopCmd, ExecCmd, mainVars, vars
  <2>3. QED
    BY <2>1, <2>2 DEF TypeOK
<1>3. QED
  BY <1>1, <1>2, PTL DEF Spec

-----------------------------------------------------------------------------
(* Where the commands are *)

LEMMA OrderInit == Init => OrderInv
<1> SUFFICES ASSUME Init PROVE OrderInv
  OBVIOUS
<1>1. Taken = 0 /\ Done = 0
  BY DEF Init, Taken, Done
<1>2. ListInv
  BY <1>1 DEF Init, ListInv
<1>3. AnswerInv
  BY <1>1 DEF Init, AnswerInv
<1>4. QED
  BY <1>2, <1>3 DEF OrderInv

LEMMA ListNext == StateOK /\ ListInv /\ [Step]_state => ListInv'
<1> SUFFICES ASSUME StateOK, ListInv, [Step]_state PROVE ListInv'
  OBVIOUS
<1>1. /\ asked \in Seq(Cmd)
      /\ get_cmd_list \in Seq(Nat)
      /\ cur \in Nat
  BY DEF StateOK
<1>2. ASSUME NEW c \in Cmd, Issue(c) PROVE ListInv'
  <2>1. Taken' = Taken
    BY <1>1, <1>2 DEF Issue, Taken
  <2>2. Len(get_cmd_list') <= Len(asked')
    BY <1>1, <1>2 DEF Issue, ListInv
  <2>3. ASSUME NEW k \in DOMAIN get_cmd_list'
        PROVE  get_cmd_list'[k] = Taken' + k
    <3>1. k = Len(get_cmd_list) + 1 \/ k \in DOMAIN get_cmd_list
      BY <1>1, <1>2 DEF Issue
    <3>2. CASE k \in DOMAIN get_cmd_list
      BY <1>1, <1>2, <2>1, <3>2 DEF Issue, ListInv
    <3>3. CASE k = Len(get_cmd_list) + 1
      BY <1>1, <1>2, <2>1, <3>3 DEF Issue, Taken
    <3>4. QED
      BY <3>1, <3>2, <3>3
  <2>4. QED
    BY <1>2, <2>1, <2>2, <2>3 DEF Issue, ListInv, workVars
<1>3. ASSUME UNCHANGED <<asked, get_cmd_list, cur>>,
             (worker' = "exec") <=> (worker = "exec")
      PROVE  ListInv'
  BY <1>3 DEF ListInv, Taken
<1>4. CASE RunCb
  BY <1>3, <1>4 DEF RunCb, workVars
<1>5. CASE OpenDevice
  BY <1>3, <1>5 DEF OpenDevice, mainVars
<1>6. CASE StateRun
  BY <1>3, <1>6 DEF StateRun, mainVars
<1>7. CASE PopCmd
  <2>1. CASE get_cmd_list = <<>>
    BY <1>3, <1>7, <2>1 DEF PopCmd, mainVars
  <2>2. CASE get_cmd_list # <<>>
    <3>1. /\ Len(get_cmd_list') = Len(get_cmd_list) - 1
          /\ \A k \in DOMAIN get_cmd_list' :
               k \in Nat /\ k + 1 \in DOMAIN get_cmd_list
                 /\ get_cmd_list'[k] = get_cmd_list[k + 1]
      BY <1>1, <1>7, <2>2 DEF PopCmd
    <3>2. cur' = Taken + 1 /\ asked' = asked /\ worker' = "exec"
      BY <1>1, <1>7, <2>2 DEF PopCmd, ListInv, mainVars
    <3>3. Taken' = Taken + 1 /\ Taken \in Nat
      BY <1>1, <3>1, <3>2 DEF Taken, ListInv
    <3>4. QED
      BY <1>1, <3>1, <3>2, <3>3 DEF ListInv
  <2>3. QED
    BY <2>1, <2>2
<1>8. CASE ExecCmd
  BY <1>1, <1>8 DEF ExecCmd, ListInv, Taken, mainVars
<1>9. CASE UNCHANGED state
  BY <1>3, <1>9 DEF state
<1>10. QED
  BY <1>2, <1>4, <1>5, <1>6, <1>7, <1>8, <1>9 DEF Step, Worker

\* Nothing moves: the order of the callbacks is kept by a step that leaves
\* both ends of the pipeline alone.
LEMMA AnswerSame ==
  ASSUME StateOK, AnswerInv, Done' = Done,
         \A i \in 1..Done : asked'[i] = asked[i],
         UNCHANGED <<cb_cmd_list, told>>
  PROVE  AnswerInv'
<1>1. ToldIds' = ToldIds /\ QueuedIds' = QueuedIds
  BY DEF ToldIds, QueuedIds, IsAnswer
<1>2. QED
  BY <1>1 DEF AnswerInv, IsAnswer

\* A callback that answers no command is appended.
LEMMA AnswerOther ==
  ASSUME StateOK, AnswerInv, Done' = Done, UNCHANGED <<asked, told>>,
         NEW n \in CbNode, ~IsAnswer(n), AddCb(n)
  PROVE  AnswerInv'
<1>1. /\ Len(cb_cmd_list') = Len(cb_cmd_list) + 1
      /\ \A k \in DOMAIN cb_cmd_list : cb_cmd_list'[k] = cb_cmd_list[k]
      /\ cb_cmd_list'[Len(cb_cmd_list) + 1] = n
      /\ DOMAIN cb_cmd_list = 1..Len(cb_cmd_list)
      /\ DOMAIN cb_cmd_list' = 1..(Len(cb_cmd_list) + 1)
      /\ Len(cb_cmd_list) \in Nat
  BY DEF StateOK, AddCb
<1>2. \A k \in DOMAIN cb_cmd_list' : IsAnswer(cb_cmd_list'[k])
        => k \in DOMAIN cb_cmd_list /\ cb_cmd_list'[k] = cb_cmd_list[k]
  BY <1>1
<1>3. QueuedIds \subseteq QueuedIds'
  BY <1>1 DEF QueuedIds, IsAnswer
<1>4. ToldIds' = ToldIds
  BY DEF ToldIds
<1>5. QED
  BY <1>2, <1>3, <1>4 DEF AnswerInv, IsAnswer

LEMMA AnswerIssue ==
  ASSUME StateOK, ListInv, AnswerInv, NEW c \in Cmd, Issue(c)
  PROVE  AnswerInv'
<1>1. asked \in Seq(Cmd) /\ get_cmd_list \in Seq(Nat) /\ cur \in Nat
  BY DEF StateOK
<1>2. Done' = Done /\ Done \in Int /\ Done <= Len(asked)
  BY <1>1 DEF Issue, Done, Taken, workVars
<1>3. \A i \in 1..Done : asked'[i] = asked[i]
  BY <1>1, <1>2 DEF Issue
<1>4. QED
  BY <1>2, <1>3, AnswerSame DEF Issue

\* The oldest callback leaves the list; when it is an answer its number joins
\* the numbers answered.
LEMMA AnswerRun ==
  ASSUME StateOK, AnswerInv, RunCb
  PROVE  AnswerInv'
<1> DEFINE n == Head(cb_cmd_list)
<1>1. /\ Len(cb_cmd_list) \in Nat \ {0}
      /\ DOMAIN cb_cmd_list = 1..Len(cb_cmd_list)
      /\ DOMAIN cb_cmd_list' = 1..(Len(cb_cmd_list) - 1)
      /\ \A k \in DOMAIN cb_cmd_list' : cb_cmd_list'[k] = cb_cmd_list[k + 1]
      /\ n = cb_cmd_list[1] /\ n \in CbNode
  BY DEF StateOK, RunCb
<1>2. Done' = Done /\ asked' = asked
  BY DEF RunCb, workVars, Done, Taken
<1>3. \A k \in DOMAIN cb_cmd_list' :
        /\ k + 1 \in DOMAIN cb_cmd_list
        /\ cb_cmd_list'[k] = cb_cmd_list[k + 1]
        /\ k \in Nat /\ 1 < k + 1
  BY <1>1
<1>4. \A k \in DOMAIN cb_cmd_list : k # 1 => k - 1 \in DOMAIN cb_cmd_list'
                                            /\ k = (k - 1) + 1
  BY <1>1
<1>5. QueuedIds \subseteq QueuedIds' \cup (IF IsAnswer(n) THEN {n.id} ELSE {})
  BY <1>1, <1>3, <1>4 DEF QueuedIds, IsAnswer
<1>6. CASE IsAnswer(n)
  <2>1. told' = Append(told, n.id) /\ n.id \in Nat
    BY <1>1, <1>6 DEF RunCb, IsAnswer, CbNode
  <2>2. /\ Len(told) \in Nat
        /\ DOMAIN told = 1..Len(told)
        /\ DOMAIN told' = 1..(Len(told) + 1)
        /\ \A j \in DOMAIN told : told'[j] = told[j]
        /\ told'[Len(told) + 1] = n.id
    BY <2>1 DEF StateOK
  <2>3. ToldIds' = ToldIds \cup {n.id}
    BY <2>2 DEF ToldIds
  <2>4. \A j \in DOMAIN told' :
          \/ told'[j] = n.id
          \/ j \in DOMAIN told /\ told'[j] = told[j]
    BY <2>2
  <2>5. \A i \in 1..Done' :
          asked'[i] \in Answering => i \in ToldIds' \cup QueuedIds'
    BY <1>2, <1>5, <2>3 DEF AnswerInv
  <2>6. \A j \in DOMAIN told' : told'[j] \in 1..Done'
    <3>1. 1 \in DOMAIN cb_cmd_list
      BY <1>1
    <3>2. n.id \in 1..Done
      BY <1>1, <1>6, <3>1 DEF AnswerInv
    <3>3. QED
      BY <1>2, <2>4, <3>2 DEF AnswerInv
  <2>7. \A j \in DOMAIN told', k \in DOMAIN cb_cmd_list' :
          IsAnswer(cb_cmd_list'[k]) => told'[j] < cb_cmd_list'[k].id
    BY <1>1, <1>3, <1>6, <2>4 DEF AnswerInv, IsAnswer
  <2>8. QED
    BY <1>2, <1>3, <2>5, <2>6, <2>7 DEF AnswerInv, IsAnswer
<1>7. CASE ~IsAnswer(n)
  <2>1. told' = told
    BY <1>7 DEF RunCb, IsAnswer
  <2>2. ToldIds' = ToldIds
    BY <2>1 DEF ToldIds
  <2>3. QED
    BY <1>2, <1>3, <1>5, <1>7, <2>1, <2>2 DEF AnswerInv, IsAnswer
<1>8. QED
  BY <1>6, <1>7

LEMMA AnswerPop ==
  ASSUME StateOK, ListInv, AnswerInv, PopCmd
  PROVE  AnswerInv'
<1>1. asked \in Seq(Cmd) /\ get_cmd_list \in Seq(Nat) /\ cur \in Nat
  BY DEF StateOK
<1>2. UNCHANGED <<asked, told, cb_cmd_list>>
  BY DEF PopCmd, mainVars
<1>3. CASE get_cmd_list = <<>>
  <2>1. Done' = Done
    BY <1>2, <1>3 DEF PopCmd, Done, Taken
  <2>2. QED
    BY <1>2, <2>1, AnswerSame
<1>4. CASE get_cmd_list # <<>>
  <2>1. Len(get_cmd_list') = Len(get_cmd_list) - 1
    BY <1>1, <1>4 DEF PopCmd
  <2>2. cur = 0 /\ cur' = Taken + 1
    BY <1>1, <1>4 DEF PopCmd, ListInv
  <2>3. Taken' = Taken + 1 /\ Taken \in Nat
    BY <1>1, <1>2, <2>1 DEF Taken, ListInv
  <2>4. Done' = Done
    BY <2>2, <2>3 DEF Done
  <2>5. QED
    BY <1>2, <2>4, AnswerSame
<1>5. QED
  BY <1>3, <1>4

\* The worker finishes command cur: the one after the last that was done.
LEMMA AnswerExec ==
  ASSUME StateOK, ListInv, AnswerInv, ExecCmd
  PROVE  AnswerInv'
<1>1. asked \in Seq(Cmd) /\ get_cmd_list \in Seq(Nat) /\ cur \in Nat
  BY DEF StateOK
<1>2. /\ cur # 0 /\ Done = cur - 1 /\ Done' = cur
      /\ UNCHANGED <<asked, told>>
  BY <1>1 DEF ExecCmd, ListInv, Done, Taken, mainVars
<1>3. ToldIds' = ToldIds
  BY <1>2 DEF ToldIds
<1>4. CASE asked[cur] \in Answering
  <2>1. cb_cmd_list' = Append(cb_cmd_list, Answer(cur))
    BY <1>4 DEF ExecCmd, ExecScan, ExecConnect, ExecDisconnect, Answering, AddCb
  <2>2. Answer(cur) \in CbNode /\ Answer(cur).id = cur /\ IsAnswer(Answer(cur))
    BY <1>1, <1>4 DEF Answer, CbNode, IsAnswer, Answering
  <2>3. /\ Len(cb_cmd_list) \in Nat
        /\ DOMAIN cb_cmd_list = 1..Len(cb_cmd_list)
        /\ DOMAIN cb_cmd_list' = 1..(Len(cb_cmd_list) + 1)
        /\ \A k \in DOMAIN cb_cmd_list : cb_cmd_list'[k] = cb_cmd_list[k]
        /\ cb_cmd_list'[Len(cb_cmd_list) + 1] = Answer(cur)
    BY <2>1, <2>2 DEF StateOK
  <2>4. QueuedIds' = QueuedIds \cup {cur}
    BY <2>2, <2>3 DEF QueuedIds, IsAnswer
  <2>5. \A k \in DOMAIN cb_cmd_list' :
          \/ k \in DOMAIN cb_cmd_list /\ cb_cmd_list'[k] = cb_cmd_list[k]
          \/ k = Len(cb_cmd_list) + 1 /\ cb_cmd_list'[k] = Answer(cur)
    BY <2>3
  <2>6. \A i \in 1..Done' : i \in 1..Done \/ i = cur
    BY <1>1, <1>2
  <2>7. \A j, k \in DOMAIN cb_cmd_list' :
          j < k /\ IsAnswer(cb_cmd_list'[j]) /\ IsAnswer(cb_cmd_list'[k])
            => cb_cmd_list'[j].id < cb_cmd_list'[k].id
    BY <1>1, <1>2, <2>2, <2>3, <2>5 DEF AnswerInv, IsAnswer
  <2>8. \A k \in DOMAIN cb_cmd_list' : IsAnswer(cb_cmd_list'[k]) =>
          /\ cb_cmd_list'[k].id \in 1..Done'
          /\ asked'[cb_cmd_list'[k].id] \in Answering
    BY <1>1, <1>2, <1>4, <2>2, <2>5 DEF AnswerInv, IsAnswer
  <2>9. \A j \in DOMAIN told', k \in DOMAIN cb_cmd_list' :
          IsAnswer(cb_cmd_list'[k]) => told'[j] < cb_cmd_list'[k].id
    BY <1>1, <1>2, <2>2, <2>5 DEF AnswerInv, IsAnswer
  <2>10. \A i \in 1..Done' :
           asked'[i] \in Answering => i \in ToldIds' \cup QueuedIds'
    BY <1>2, <1>3, <2>4, <2>6 DEF AnswerInv
  <2>11. \A j \in DOMAIN told' : told'[j] \in 1..Done'
    BY <1>1, <1>2 DEF AnswerInv
  <2>12. QED
    BY <2>7, <2>8, <2>9, <2>10, <2>11 DEF AnswerInv, IsAnswer
<1>5. CASE asked[cur] \notin Answering
  <2>1. cb_cmd_list' = cb_cmd_list
    BY <1>5 DEF ExecCmd, ExecScan, ExecConnect, ExecDisconnect, Answering
  <2>2. QueuedIds' = QueuedIds
    BY <2>1 DEF QueuedIds, IsAnswer
  <2>3. \A i \in 1..Done : i \in 1..Done'
    BY <1>1, <1>2
  <2>4. \A i \in 1..Done' : i \in 1..Done \/ i = cur
    BY <1>1, <1>2
  <2>5. QED
    BY <1>2, <1>3, <1>5, <2>1, <2>2, <2>3, <2>4 DEF AnswerInv, IsAnswer
<1>6. QED
  BY <1>4, <1>5

LEMMA OrderNext == StateOK /\ OrderInv /\ [Step]_state => OrderInv'
<1> SUFFICES ASSUME StateOK, ListInv, AnswerInv, [Step]_state PROVE AnswerInv'
  BY ListNext DEF OrderInv
<1>1. CASE \E c \in Cmd : Issue(c)
  BY <1>1, AnswerIssue
<1>2. CASE RunCb
  BY <1>2, AnswerRun
<1>3. CASE OpenDevice
  <2>1. OpenCb \in CbNode /\ ~IsAnswer(OpenCb)
    BY DEF OpenCb, CbNode, IsAnswer, Answering
  <2>2. Done' = Done
    BY <1>3 DEF OpenDevice, mainVars, Done, Taken
  <2>3. QED
    BY <1>3, <2>1, <2>2, AnswerOther DEF OpenDevice, mainVars
<1>4. CASE StateRun
  <2>1. Done' = Done /\ UNCHANGED <<asked, told>>
    BY <1>4 DEF StateRun, mainVars, Done, Taken
  <2>2. ASSUME NEW s \in Status, AddCb(StateCb(s)) PROVE AnswerInv'
    <3>1. StateCb(s) \in CbNode /\ ~IsAnswer(StateCb(s))
      BY DEF StateOK, StateCb, CbNode, IsAnswer, Answering
    <3>2. QED
      BY <2>1, <2>2, <3>1, AnswerOther
  <2>3. CASE UNCHANGED cb_cmd_list
    BY <2>1, <2>3, AnswerSame
  <2>4. QED
    BY <1>4, <2>2, <2>3 DEF StateRun
<1>5. CASE PopCmd
  BY <1>5, AnswerPop
<1>6. CASE ExecCmd
  BY <1>6, AnswerExec
<1>7. CASE UNCHANGED state
  <2>1. Done' = Done
    BY <1>7 DEF state, Done, Taken
  <2>2. QED
    BY <1>7, <2>1, AnswerSame DEF state
<1>8. QED
  BY <1>1, <1>2, <1>3, <1>4, <1>5, <1>6, <1>7 DEF Step, Worker

\* In every reachable state the commands are where OrderInv says.
THEOREM OrderCorrect == Spec => []OrderInv
BY NextIsStep, TypeInit, TypeNext, OrderInit, OrderNext, PTL DEF Spec

-----------------------------------------------------------------------------
(* What follows from it *)

\* No command with a callback is ever lost, answered while it still waits, or
\* in two places at once (wifi_scan .. wifi_mastar_run).
THEOREM InOnePlaceCorrect == Spec => []InOnePlace
<1>1. StateOK /\ OrderInv => InOnePlace
  <2> SUFFICES ASSUME StateOK, ListInv, AnswerInv,
                      NEW i \in DOMAIN asked, asked[i] \in Answering
               PROVE  \/ i \in ToldIds /\ i \notin QueuedIds \cup {cur} \cup WaitingIds
                      \/ i \in QueuedIds /\ i \notin ToldIds \cup {cur} \cup WaitingIds
                      \/ i = cur /\ i \notin ToldIds \cup QueuedIds \cup WaitingIds
                      \/ i \in WaitingIds /\ i \notin ToldIds \cup QueuedIds \cup {cur}
    BY DEF InOnePlace, OrderInv
  <2>1. /\ Len(asked) \in Nat /\ Len(get_cmd_list) \in Nat
        /\ i \in 1..Len(asked) /\ cur \in Nat
        /\ DOMAIN get_cmd_list = 1..Len(get_cmd_list)
    BY DEF StateOK
  <2>2. /\ Taken \in Nat /\ Taken + Len(get_cmd_list) = Len(asked)
        /\ Done = IF cur = 0 THEN Taken ELSE Taken - 1
        /\ cur # 0 => cur = Taken
    BY <2>1 DEF Taken, Done, ListInv
  <2>3. ASSUME NEW q \in ToldIds PROVE q \in 1..Done
    BY <2>3 DEF ToldIds, AnswerInv
  <2>4. ASSUME NEW q \in QueuedIds PROVE q \in 1..Done
    BY <2>4 DEF QueuedIds, AnswerInv
  <2>5. ASSUME NEW q \in WaitingIds PROVE q > Taken
    BY <2>1, <2>2, <2>5 DEF WaitingIds, ListInv
  <2>6. ToldIds \cap QueuedIds = {}
    <3>1. ASSUME NEW q \in ToldIds, q \in QueuedIds PROVE FALSE
      <4>1. PICK j \in DOMAIN told : told[j] = q
        BY DEF ToldIds
      <4>2. PICK k \in DOMAIN cb_cmd_list :
              IsAnswer(cb_cmd_list[k]) /\ cb_cmd_list[k].id = q
        BY <3>1 DEF QueuedIds
      <4>3. q < q
        BY <4>1, <4>2 DEF AnswerInv
      <4>4. q \in 1..Done
        BY <2>3
      <4>5. QED
        BY <2>2, <4>3, <4>4
    <3>2. QED
      BY <3>1
  <2>7. CASE i \in 1..Done
    <3>1. i \in ToldIds \cup QueuedIds
      BY <2>7 DEF AnswerInv
    <3>2. i # cur /\ i \notin WaitingIds
      BY <2>1, <2>2, <2>5, <2>7
    <3>3. QED
      BY <2>6, <3>1, <3>2
  <2>8. CASE i \notin 1..Done
    <3>1. i \notin ToldIds /\ i \notin QueuedIds
      BY <2>3, <2>4, <2>8
    <3>2. CASE i = cur
      <4>1. i \notin WaitingIds
        BY <2>2, <2>5, <3>2, <2>1
      <4>2. QED
        BY <3>1, <3>2, <4>1
    <3>3. CASE i # cur
      <4>1. i > Taken
        BY <2>1, <2>2, <2>8, <3>3
      <4>2. i - Taken \in DOMAIN get_cmd_list
        BY <2>1, <2>2, <4>1
      <4>3. get_cmd_list[i - Taken] = i
        BY <2>1, <2>2, <4>2 DEF ListInv
      <4>4. i \in WaitingIds
        BY <4>2, <4>3 DEF WaitingIds
      <4>5. QED
        BY <3>1, <3>3, <4>4
    <3>4. QED
      BY <3>2, <3>3
  <2>9. QED
    BY <2>7, <2>8
<1>2. QED
  BY <1>1, StateCorrect, OrderCorrect, PTL

\* The two threads and their lists implement the abstract service: scans and
\* disconnects are answered once each, in the order of issue.
THEOREM AnswersInOrderCorrect == Spec => AnswersInOrder
<1>1. Init => Service!AInit
  BY DEF Init, Service!AInit
<1>2. StateOK /\ OrderInv /\ [Step]_state => [Service!ANext]_(Service!avars)
  <2> SUFFICES ASSUME StateOK, ListInv, AnswerInv, [Step]_state
               PROVE  Service!ANext \/ UNCHANGED <<asked, told>>
    BY DEF OrderInv, Service!avars
  <2>1. ASSUME NEW c \in Cmd, Issue(c) PROVE Service!Ask(c)
    BY <2>1 DEF Issue, Service!Ask
  <2>2. CASE RunCb
    <3> DEFINE n == Head(cb_cmd_list)
    <3>1. CASE ~IsAnswer(n)
      BY <2>2, <3>1 DEF RunCb, IsAnswer
    <3>2. CASE IsAnswer(n)
      <4>1. /\ Len(cb_cmd_list) \in Nat \ {0}
            /\ DOMAIN cb_cmd_list = 1..Len(cb_cmd_list)
            /\ n = cb_cmd_list[1] /\ 1 \in DOMAIN cb_cmd_list
        BY <2>2 DEF StateOK, RunCb
      <4>2. n.id \in 1..Done /\ asked[n.id] \in Answering
        BY <3>2, <4>1 DEF AnswerInv
      <4>3. Done \in Int /\ Done <= Len(asked) /\ DOMAIN asked = 1..Len(asked)
        BY DEF StateOK, ListInv, Done, Taken
      <4>4. Service!Owed(n.id)
        BY <4>2, <4>3 DEF Service!Owed
      <4>5. n.id \notin ToldIds
        <5>1. \A j \in DOMAIN told : told[j] < n.id
          BY <3>2, <4>1 DEF AnswerInv
        <5>2. QED
          BY <4>2, <4>3, <5>1 DEF ToldIds
      <4>6. ASSUME NEW j \in DOMAIN asked, j < n.id, Service!Owed(j)
            PROVE  j \in ToldIds
        <5>1. j \in 1..Done
          BY <4>2, <4>3, <4>6
        <5>2. j \in ToldIds \cup QueuedIds
          BY <4>6, <5>1 DEF AnswerInv, Service!Owed
        <5>3. ASSUME j \in QueuedIds PROVE FALSE
          <6>1. PICK k \in DOMAIN cb_cmd_list :
                  IsAnswer(cb_cmd_list[k]) /\ cb_cmd_list[k].id = j
            BY <5>3 DEF QueuedIds
          <6>2. k = 1 \/ 1 < k
            BY <4>1
          <6>3. n.id < j
            BY <3>2, <4>1, <4>6, <6>1, <6>2, <4>2, <4>3, <5>1 DEF AnswerInv
          <6>4. QED
            BY <4>2, <4>3, <4>6, <5>1, <6>3
        <5>4. QED
          BY <5>2, <5>3
      <4>7. UNCHANGED asked /\ told' = Append(told, n.id)
        BY <2>2, <3>2 DEF RunCb, IsAnswer
      <4>8. Service!Answer(n.id)
        BY <4>4, <4>5, <4>6, <4>7 DEF Service!Answer, Service!ToldIds, ToldIds
      <4>9. QED
        BY <4>2, <4>3, <4>8 DEF Service!ANext
    <3>3. QED
      BY <3>1, <3>2
  <2>3. CASE Worker \/ UNCHANGED state
    BY <2>3 DEF Worker, OpenDevice, StateRun, PopCmd, ExecCmd, mainVars, state
  <2>4. QED
    BY <2>1, <2>2, <2>3 DEF Step, Service!ANext, Cmd, Service!avars
<1>3. QED
  BY <1>1, <1>2, NextIsStep, StateCorrect, OrderCorrect, PTL
     DEF Spec, AnswersInOrder, Service!ASpec

-----------------------------------------------------------------------------
(* The callbacks *)

\* Until it has run, the open callback is the head of the list.
OpenInv ==
  /\ worker = "open" => ~opened /\ cb_cmd_list = <<>>
  /\ worker # "open" /\ ~opened =>
       cb_cmd_list # <<>> /\ Head(cb_cmd_list).cb = "open"

\* The statuses on their way: shown, as number 0, and those in the list.
IsState(k) == k = 0 \/ cb_cmd_list[k].cb = "state"
Sta(k) == IF k = 0 THEN shown ELSE cb_cmd_list[k].sta

\* Each differs from the one before, and the last is what the worker saw last.
StatusInv ==
  /\ \A j, k \in 0..Len(cb_cmd_list) :
       j < k /\ IsState(j) /\ IsState(k) /\ (\A i \in j + 1..k - 1 : ~IsState(i))
         => Sta(j) # Sta(k)
  /\ \A k \in 0..Len(cb_cmd_list) :
       IsState(k) /\ (\A i \in k + 1..Len(cb_cmd_list) : ~IsState(i))
         => Sta(k) = staOld

IsDisconnect(k) == IsAnswer(cb_cmd_list[k]) /\ asked[cb_cmd_list[k].id] = "disconnect"

\* The connect that set up a station, and whose number its statuses carry, is
\* younger than every disconnect that was done before them.
StationInv ==
  /\ hWlan >= 0 =>
       /\ \A i \in ToldIds : asked[i] = "disconnect" => i < conn
       /\ \A k \in DOMAIN cb_cmd_list : IsDisconnect(k) => cb_cmd_list[k].id < conn
  /\ \A k \in DOMAIN cb_cmd_list : cb_cmd_list[k].cb = "state" =>
       /\ \A i \in ToldIds : asked[i] = "disconnect" => i < cb_cmd_list[k].id
       /\ \A j \in DOMAIN cb_cmd_list :
            j < k /\ IsDisconnect(j) => cb_cmd_list[j].id < cb_cmd_list[k].id

-----------------------------------------------------------------------------
(* The list *)

LEMMA AddFact ==
  ASSUME StateOK, NEW n \in CbNode, AddCb(n)
  PROVE  /\ Len(cb_cmd_list) \in Nat /\ Len(cb_cmd_list') = Len(cb_cmd_list) + 1
         /\ DOMAIN cb_cmd_list = 1..Len(cb_cmd_list)
         /\ DOMAIN cb_cmd_list' = 1..(Len(cb_cmd_list) + 1)
         /\ \A k \in 1..Len(cb_cmd_list) : cb_cmd_list'[k] = cb_cmd_list[k]
         /\ cb_cmd_list'[Len(cb_cmd_list) + 1] = n
         /\ cb_cmd_list # <<>> => Head(cb_cmd_list') = Head(cb_cmd_list)
         /\ cb_cmd_list = <<>> => Head(cb_cmd_list') = n
         /\ cb_cmd_list' # <<>>
BY DEF StateOK, AddCb

LEMMA RunFact ==
  ASSUME StateOK, RunCb
  PROVE  /\ Len(cb_cmd_list) \in Nat \ {0} /\ Len(cb_cmd_list') = Len(cb_cmd_list) - 1
         /\ DOMAIN cb_cmd_list = 1..Len(cb_cmd_list)
         /\ DOMAIN cb_cmd_list' = 1..(Len(cb_cmd_list) - 1)
         /\ \A k \in 1..(Len(cb_cmd_list) - 1) : cb_cmd_list'[k] = cb_cmd_list[k + 1]
         /\ Head(cb_cmd_list) = cb_cmd_list[1]
BY DEF StateOK, RunCb

LEMMA NodesFact ==
  ASSUME StateOK
  PROVE  /\ OpenCb \in CbNode /\ OpenCb.cb = "open"
         /\ \A s \in Status : StateCb(s) \in CbNode /\ StateCb(s).cb = "state"
                              /\ StateCb(s).sta = s /\ StateCb(s).id = conn
         /\ asked[cur] \in Answering => Answer(cur) \in CbNode /\ Answer(cur).id = cur
                                        /\ Answer(cur).cb = asked[cur]
BY DEF StateOK, OpenCb, StateCb, Answer, CbNode, Answering

\* What a step does to the list.
LEMMA ListSteps ==
  ASSUME StateOK, [Step]_state, cb_cmd_list' # cb_cmd_list
  PROVE  \/ RunCb
         \/ OpenDevice /\ AddCb(OpenCb)
         \/ StateRun /\ hWlan >= 0
              /\ \E s \in Status : s # staOld /\ staOld' = s /\ AddCb(StateCb(s))
         \/ ExecCmd /\ asked[cur] \in Answering /\ AddCb(Answer(cur))
BY DEF Step, Issue, Worker, OpenDevice, StateRun, PopCmd, ExecCmd, ExecScan, ExecConnect,
       ExecDisconnect, Answering, state

-----------------------------------------------------------------------------
(* The open callback is the first *)

LEMMA OpenNext == StateOK /\ OpenInv /\ [Step]_state => OpenInv'
<1> SUFFICES ASSUME StateOK, OpenInv, [Step]_state PROVE OpenInv'
  OBVIOUS
<1>1. CASE RunCb
  <2>1. cb_cmd_list # <<>> /\ opened' = (opened \/ Head(cb_cmd_list).cb = "open")
        /\ UNCHANGED worker
    BY <1>1 DEF RunCb, workVars
  <2>2. worker # "open" /\ opened' = TRUE
    BY <2>1 DEF OpenInv, StateOK
  <2>3. QED
    BY <2>1, <2>2 DEF OpenInv
<1>2. CASE OpenDevice
  <2>1. worker' # "open" /\ Head(cb_cmd_list') = OpenCb /\ cb_cmd_list' # <<>>
    BY <1>2, AddFact, NodesFact DEF OpenDevice, OpenInv
  <2>2. QED
    BY <2>1, NodesFact DEF OpenInv
<1>3. CASE ~RunCb /\ ~OpenDevice
  <2>1. opened' = opened /\ (worker' = "open" <=> worker = "open")
    BY <1>3 DEF Step, Worker, Issue, StateRun, PopCmd, ExecCmd, mainVars, workVars, state
  <2>2. CASE UNCHANGED cb_cmd_list
    BY <2>1, <2>2 DEF OpenInv
  <2>3. CASE cb_cmd_list' # cb_cmd_list
    <3>1. worker # "open" /\ \E n \in CbNode : AddCb(n)
      BY <1>3, <2>3, ListSteps, NodesFact DEF StateRun, ExecCmd
    <3>2. QED
      BY <2>1, <3>1, AddFact DEF OpenInv
  <2>4. QED
    BY <2>2, <2>3
<1>4. QED
  BY <1>1, <1>2, <1>3

\* The first callback that runs is the open callback, also when commands were
\* queued before the device was open.
THEOREM OpenFirstCorrect == Spec => OpenFirst
<1>1. Init => OpenInv
  BY DEF Init, OpenInv
<1>2. OpenInv /\ [Step]_state => [RunCb => opened \/ Head(cb_cmd_list).cb = "open"]_vars
  BY DEF OpenInv, RunCb
<1>3. QED
  BY <1>1, <1>2, OpenNext, NextIsStep, TypeInit, TypeNext, PTL DEF Spec, OpenFirst

-----------------------------------------------------------------------------
(* What is reported has changed *)

LEMMA StatusInit == Init => StatusInv
BY DEF Init, StatusInv, IsState, Sta

LEMMA StatusAdd ==
  ASSUME StateOK, StatusInv, UNCHANGED shown, NEW n \in CbNode, AddCb(n),
         IF n.cb = "state" THEN n.sta # staOld /\ staOld' = n.sta ELSE UNCHANGED staOld
  PROVE  StatusInv'
<1>0. PICK l \in Nat : l = Len(cb_cmd_list)
  BY AddFact
<1>1. /\ l \in Nat /\ Len(cb_cmd_list') = l + 1
      /\ \A k \in 1..l : cb_cmd_list'[k] = cb_cmd_list[k]
      /\ cb_cmd_list'[l + 1] = n
  BY <1>0, AddFact
<1>2. ASSUME NEW k \in 0..l
      PROVE  (IsState(k)' <=> IsState(k)) /\ Sta(k)' = Sta(k)
  <2>1. k = 0 \/ k \in 1..l
    BY <1>1
  <2>2. QED
    BY <1>1, <2>1 DEF IsState, Sta
<1>3. (IsState(l + 1)' <=> n.cb = "state") /\ Sta(l + 1)' = n.sta
  BY <1>1 DEF IsState, Sta
<1>4. ASSUME NEW j \in 0..l + 1, NEW k \in 0..l + 1,
             j < k, IsState(j)', IsState(k)', \A i \in j + 1..k - 1 : ~IsState(i)'
      PROVE  Sta(j)' # Sta(k)'
  <2>1. j \in 0..l /\ IsState(j) /\ \A i \in j + 1..k - 1 : i \in 0..l /\ ~IsState(i)
    BY <1>1, <1>2, <1>4
  <2>2. CASE k \in 0..l
    BY <1>0, <1>2, <1>4, <2>1, <2>2 DEF StatusInv
  <2>3. CASE k = l + 1
    <3>1. \A i \in j + 1..l : ~IsState(i)
      BY <1>1, <2>1, <2>3
    <3>2. Sta(j) = staOld
      BY <1>0, <2>1, <3>1 DEF StatusInv
    <3>3. Sta(j)' = staOld
      BY <1>2, <2>1, <3>2
    <3>4. Sta(k)' = n.sta /\ n.sta # staOld
      BY <1>3, <1>4, <2>3
    <3>5. QED
      BY <3>3, <3>4
  <2>4. QED
    BY <1>1, <2>2, <2>3
<1>5. ASSUME NEW k \in 0..l + 1, IsState(k)', \A i \in k + 1..l + 1 : ~IsState(i)'
      PROVE  Sta(k)' = staOld'
  <2>1. CASE n.cb = "state"
    <3>1. k = l + 1
      BY <1>1, <1>3, <1>5, <2>1
    <3>2. QED
      BY <1>3, <2>1, <3>1
  <2>2. CASE n.cb # "state"
    <3>1. k \in 0..l
      BY <1>1, <1>3, <1>5, <2>2
    <3>2. IsState(k) /\ \A i \in k + 1..l : i \in 0..l /\ ~IsState(i)
      BY <1>1, <1>2, <1>5, <3>1
    <3>3. Sta(k) = staOld
      BY <1>0, <3>1, <3>2 DEF StatusInv
    <3>4. QED
      BY <1>2, <2>2, <3>1, <3>3
  <2>3. QED
    BY <2>1, <2>2
<1>6. QED
  BY <1>1, <1>4, <1>5 DEF StatusInv

\* The head becomes what is shown if it is a status, and is gone otherwise.
LEMMA StatusRun ==
  ASSUME StateOK, StatusInv, RunCb
  PROVE  StatusInv'
<1> DEFINE l == Len(cb_cmd_list)
           Old(k) == IF k > 0 THEN k + 1 ELSE IF IsState(1) THEN 1 ELSE 0
<1>1. /\ l \in Nat \ {0} /\ Len(cb_cmd_list') = l - 1
      /\ \A k \in 1..l - 1 : cb_cmd_list'[k] = cb_cmd_list[k + 1]
      /\ Head(cb_cmd_list) = cb_cmd_list[1]
  BY RunFact
<1>2. shown' = (IF IsState(1) THEN Sta(1) ELSE shown) /\ staOld' = staOld
  BY <1>1 DEF RunCb, workVars, IsState, Sta
<1>3. ASSUME NEW k \in 0..l - 1
      PROVE  /\ IsState(k)' <=> IsState(Old(k))
             /\ Sta(k)' = Sta(Old(k))
             /\ Old(k) \in 0..l
  <2>1. CASE k = 0
    BY <1>1, <1>2, <2>1 DEF IsState, Sta
  <2>2. CASE k \in 1..l - 1
    BY <1>1, <2>2 DEF IsState, Sta
  <2>3. QED
    BY <1>1, <2>1, <2>2
<1>4. ASSUME NEW j \in 0..l - 1, NEW i \in Old(j) + 1..l, IsState(i)
      PROVE  i - 1 \in j + 1..l - 1 /\ Old(i - 1) = i
  BY <1>1, <1>4
<1>5. ASSUME NEW j \in 0..l - 1, NEW k \in 0..l - 1,
             j < k, IsState(j)', IsState(k)', \A i \in j + 1..k - 1 : ~IsState(i)'
      PROVE  Sta(j)' # Sta(k)'
  <2>1. /\ Old(j) \in 0..l /\ Old(k) \in 0..l /\ Old(j) < Old(k)
        /\ IsState(Old(j)) /\ IsState(Old(k))
    BY <1>1, <1>3, <1>5
  <2>2. ASSUME NEW i \in Old(j) + 1..Old(k) - 1, IsState(i) PROVE FALSE
    <3>1. i - 1 \in j + 1..k - 1 /\ Old(i - 1) = i
      BY <1>1, <1>4, <1>5, <2>1, <2>2
    <3>2. IsState(i - 1)'
      BY <1>1, <1>3, <2>2, <3>1
    <3>3. QED
      BY <1>5, <3>1, <3>2
  <2>3. QED
    BY <1>3, <2>1, <2>2 DEF StatusInv
<1>6. ASSUME NEW k \in 0..l - 1, IsState(k)', \A i \in k + 1..l - 1 : ~IsState(i)'
      PROVE  Sta(k)' = staOld'
  <2>1. Old(k) \in 0..l /\ IsState(Old(k))
    BY <1>3, <1>6
  <2>2. ASSUME NEW i \in Old(k) + 1..l, IsState(i) PROVE FALSE
    <3>1. i - 1 \in k + 1..l - 1 /\ Old(i - 1) = i
      BY <1>4, <2>2
    <3>2. IsState(i - 1)'
      BY <1>1, <1>3, <2>2, <3>1
    <3>3. QED
      BY <1>6, <3>1, <3>2
  <2>3. QED
    BY <1>2, <1>3, <2>1, <2>2 DEF StatusInv
<1>7. QED
  BY <1>1, <1>5, <1>6 DEF StatusInv

LEMMA StatusNext == StateOK /\ StatusInv /\ [Step]_state => StatusInv'
<1> SUFFICES ASSUME StateOK, StatusInv, [Step]_state PROVE StatusInv'
  OBVIOUS
<1>1. CASE RunCb
  BY <1>1, StatusRun
<1>2. CASE UNCHANGED cb_cmd_list /\ ~RunCb
  <2>1. UNCHANGED <<shown, staOld>>
    <3>1. ASSUME NEW n, AddCb(n) PROVE FALSE
      BY <1>2, <3>1 DEF AddCb, StateOK
    <3>2. QED
      BY <1>2, <3>1 DEF Step, Worker, Issue, OpenDevice, StateRun, PopCmd, ExecCmd, mainVars,
                    workVars, state
  <2>2. QED
    BY <1>2, <2>1 DEF StatusInv, IsState, Sta
<1>3. CASE OpenDevice /\ AddCb(OpenCb)
  BY <1>3, StatusAdd, NodesFact DEF OpenDevice, mainVars
<1>4. ASSUME StateRun, NEW s \in Status, s # staOld, staOld' = s, AddCb(StateCb(s))
      PROVE  StatusInv'
  BY <1>4, StatusAdd, NodesFact DEF StateRun, mainVars
<1>5. CASE ExecCmd /\ asked[cur] \in Answering /\ AddCb(Answer(cur))
  <2>1. Answer(cur) \in CbNode /\ Answer(cur).cb # "state" /\ UNCHANGED <<shown, staOld>>
    BY <1>5, NodesFact DEF Answering, ExecCmd, mainVars
  <2>2. QED
    BY <1>5, <2>1, StatusAdd
<1>6. QED
  BY <1>1, <1>2, <1>3, <1>4, <1>5, ListSteps

\* Two state callbacks in a row never report the same status (wifi_state_run).
THEOREM StatusChangesCorrect == Spec => StatusChanges
<1>1. StateOK /\ StatusInv /\ [Step]_state =>
        [RunCb /\ Head(cb_cmd_list).cb = "state" => Head(cb_cmd_list).sta # shown]_vars
  <2> SUFFICES ASSUME StateOK, StatusInv, RunCb, Head(cb_cmd_list).cb = "state"
               PROVE  Head(cb_cmd_list).sta # shown
    OBVIOUS
  <2>1. Len(cb_cmd_list) \in Nat \ {0} /\ Head(cb_cmd_list) = cb_cmd_list[1]
    BY RunFact
  <2>2. 0 \in 0..Len(cb_cmd_list) /\ 1 \in 0..Len(cb_cmd_list)
        /\ IsState(0) /\ IsState(1) /\ \A i \in 0 + 1..1 - 1 : ~IsState(i)
    BY <2>1 DEF IsState
  <2>3. Sta(0) # Sta(1)
    BY <2>2 DEF StatusInv
  <2>4. QED
    BY <2>1, <2>3 DEF Sta
<1>2. QED
  BY <1>1, StatusInit, StatusNext, NextIsStep, TypeInit, TypeNext, PTL DEF Spec, StatusChanges

-----------------------------------------------------------------------------
(* No status of a station after its disconnect *)

LEMMA StationInit == Init => StationInv
BY DEF Init, StationInv, NoHandle

\* What has been told and what is in the list has been done, so that it is
\* older than the command in the worker's hands.
LEMMA OlderThanCur ==
  ASSUME StateOK, OrderInv, worker = "exec"
  PROVE  /\ \A i \in ToldIds : i < cur
         /\ \A k \in DOMAIN cb_cmd_list : IsAnswer(cb_cmd_list[k]) => cb_cmd_list[k].id < cur
<1>1. cur \in Nat \ {0} /\ Done = cur - 1
  BY DEF OrderInv, ListInv, Done, Taken, StateOK
<1>2. QED
  BY <1>1 DEF OrderInv, AnswerInv, ToldIds

\* Nothing that was told or is in the list is renamed by a later command.
LEMMA AskedStays ==
  ASSUME StateOK, OrderInv, [Step]_state
  PROVE  /\ \A i \in ToldIds : asked'[i] = asked[i]
         /\ \A k \in DOMAIN cb_cmd_list :
              IsAnswer(cb_cmd_list[k]) => asked'[cb_cmd_list[k].id] = asked[cb_cmd_list[k].id]
<1>1. Done \in Int /\ Done <= Len(asked)
  BY DEF StateOK, OrderInv, ListInv, Done, Taken
<1>2. \A i \in 1..Done : asked'[i] = asked[i]
  <2>1. ASSUME NEW c \in Cmd, Issue(c) PROVE \A i \in 1..Done : asked'[i] = asked[i]
    BY <1>1, <2>1 DEF Issue, StateOK
  <2>2. (\A c \in Cmd : ~Issue(c)) => asked' = asked
    BY DEF Step, RunCb, Worker, OpenDevice, StateRun, PopCmd, ExecCmd, mainVars, state
  <2>3. QED
    BY <2>1, <2>2
<1>3. \A i \in ToldIds : i \in 1..Done
  BY DEF OrderInv, AnswerInv, ToldIds
<1>4. \A k \in DOMAIN cb_cmd_list : IsAnswer(cb_cmd_list[k]) => cb_cmd_list[k].id \in 1..Done
  BY DEF OrderInv, AnswerInv
<1>5. QED
  BY <1>2, <1>3, <1>4

LEMMA HandleFact ==
  ASSUME StateOK, [Step]_state
  PROVE  hWlan' \in Int
<1>1. StateOK'
  BY TypeNext
<1>2. hWlan' \in Handles \cup {NoHandle}
  BY <1>1, Zenon DEF StateOK
<1>3. QED
  BY <1>2, WifiAssumption DEF NoHandle

LEMMA StationSame ==
  ASSUME StateOK, OrderInv, StationInv, [Step]_state, UNCHANGED <<cb_cmd_list, told>>,
         \/ UNCHANGED <<hWlan, conn>>
         \/ hWlan' < 0
         \/ worker = "exec" /\ conn' = cur
  PROVE  StationInv'
<1>1. ToldIds' = ToldIds
  BY DEF ToldIds
<1>2. \A i \in ToldIds : asked'[i] = asked[i]
  BY AskedStays
<1>3. \A k \in DOMAIN cb_cmd_list : IsDisconnect(k)' <=> IsDisconnect(k)
  BY AskedStays DEF IsDisconnect, IsAnswer
<1>4. hWlan' >= 0 => /\ \A i \in ToldIds : asked[i] = "disconnect" => i < conn'
                     /\ \A k \in DOMAIN cb_cmd_list : IsDisconnect(k) => cb_cmd_list[k].id < conn'
  <2>1. hWlan' \in Int
    BY HandleFact
  <2>2. QED
    BY <2>1, OlderThanCur DEF StationInv, IsDisconnect
<1>5. QED
  BY <1>1, <1>2, <1>3, <1>4 DEF StationInv

LEMMA StationAdd ==
  ASSUME StateOK, OrderInv, StationInv, [Step]_state, UNCHANGED <<told, asked>>,
         NEW n \in CbNode, AddCb(n), UNCHANGED conn,
         n.cb = "state" => n.id = conn /\ hWlan >= 0,
         hWlan' < 0 \/ (UNCHANGED hWlan /\ ~(IsAnswer(n) /\ asked[n.id] = "disconnect"))
  PROVE  StationInv'
<1>1. ToldIds' = ToldIds
  BY DEF ToldIds
<1>2. PICK l \in Nat : l = Len(cb_cmd_list)
  BY AddFact
<1>3. /\ DOMAIN cb_cmd_list = 1..l /\ DOMAIN cb_cmd_list' = 1..l + 1
      /\ \A k \in 1..l : cb_cmd_list'[k] = cb_cmd_list[k]
      /\ cb_cmd_list'[l + 1] = n
  BY <1>2, AddFact
<1>4. /\ \A k \in 1..l : IsDisconnect(k)' <=> IsDisconnect(k)
      /\ IsDisconnect(l + 1)' <=> IsAnswer(n) /\ asked[n.id] = "disconnect"
  BY <1>3 DEF IsDisconnect, IsAnswer
<1>5. hWlan' \in Int
  BY HandleFact
<1>6. hWlan' >= 0 =>
        /\ \A i \in ToldIds' : asked'[i] = "disconnect" => i < conn'
        /\ \A k \in 1..l + 1 : IsDisconnect(k)' => cb_cmd_list'[k].id < conn'
  BY <1>1, <1>3, <1>4, <1>5 DEF StationInv
<1>7. ASSUME NEW k \in 1..l + 1, cb_cmd_list'[k].cb = "state"
      PROVE  /\ \A i \in ToldIds' : asked'[i] = "disconnect" => i < cb_cmd_list'[k].id
             /\ \A j \in 1..l + 1 :
                  j < k /\ IsDisconnect(j)' => cb_cmd_list'[j].id < cb_cmd_list'[k].id
  <2>1. CASE k \in 1..l
    BY <1>1, <1>3, <1>4, <1>7, <2>1 DEF StationInv
  <2>2. CASE k = l + 1
    BY <1>1, <1>3, <1>4, <1>7, <2>2 DEF StationInv
  <2>3. QED
    BY <2>1, <2>2
<1>8. QED
  BY <1>3, <1>6, <1>7 DEF StationInv

LEMMA StationRun ==
  ASSUME StateOK, OrderInv, StationInv, RunCb
  PROVE  StationInv'
<1> DEFINE n == Head(cb_cmd_list)
<1>1. PICK l \in Nat \ {0} : l = Len(cb_cmd_list)
  BY RunFact
<1>2. /\ DOMAIN cb_cmd_list = 1..l /\ DOMAIN cb_cmd_list' = 1..l - 1
      /\ \A k \in 1..l - 1 : cb_cmd_list'[k] = cb_cmd_list[k + 1]
      /\ n = cb_cmd_list[1]
  BY <1>1, RunFact
<1>3. UNCHANGED <<asked, hWlan, conn>>
  BY DEF RunCb, workVars
<1>4. \A k \in 1..l - 1 : IsDisconnect(k)' <=> IsDisconnect(k + 1)
  BY <1>2, <1>3 DEF IsDisconnect, IsAnswer
<1>5. ASSUME NEW i \in ToldIds', asked[i] = "disconnect"
      PROVE  i \in ToldIds \/ (IsDisconnect(1) /\ i = cb_cmd_list[1].id)
  <2>1. told' = IF IsAnswer(n) THEN Append(told, n.id) ELSE told
    BY DEF RunCb, IsAnswer
  <2>2. PICK j \in DOMAIN told' : told'[j] = i
    BY <1>5 DEF ToldIds
  <2>3. told \in Seq(Nat)
    BY DEF StateOK
  <2>4. CASE IsAnswer(n) /\ j = Len(told) + 1
    <3>1. i = n.id
      BY <2>1, <2>2, <2>3, <2>4
    <3>2. QED
      BY <1>2, <1>5, <2>4, <3>1 DEF IsDisconnect
  <2>5. CASE ~(IsAnswer(n) /\ j = Len(told) + 1)
    <3>1. j \in DOMAIN told /\ told'[j] = told[j]
      BY <2>1, <2>2, <2>3, <2>5
    <3>2. QED
      BY <2>2, <3>1 DEF ToldIds
  <2>6. QED
    BY <2>4, <2>5
<1>6. 1 \in 1..l /\ \A k \in 1..l - 1 : k + 1 \in 1..l /\ 1 < k + 1
  BY <1>1
<1>7. hWlan' >= 0 =>
        /\ \A i \in ToldIds' : asked'[i] = "disconnect" => i < conn'
        /\ \A k \in 1..l - 1 : IsDisconnect(k)' => cb_cmd_list'[k].id < conn'
  BY <1>2, <1>3, <1>4, <1>5, <1>6 DEF StationInv
<1>8. ASSUME NEW k \in 1..l - 1, cb_cmd_list'[k].cb = "state"
      PROVE  /\ \A i \in ToldIds' : asked'[i] = "disconnect" => i < cb_cmd_list'[k].id
             /\ \A j \in 1..l - 1 :
                  j < k /\ IsDisconnect(j)' => cb_cmd_list'[j].id < cb_cmd_list'[k].id
  <2>1. cb_cmd_list[k + 1].cb = "state" /\ cb_cmd_list'[k] = cb_cmd_list[k + 1]
    BY <1>2, <1>8
  <2>2. \A i \in ToldIds' : asked'[i] = "disconnect" => i < cb_cmd_list'[k].id
    BY <1>2, <1>3, <1>5, <1>6, <2>1 DEF StationInv
  <2>3. ASSUME NEW j \in 1..l - 1, j < k, IsDisconnect(j)'
        PROVE  cb_cmd_list'[j].id < cb_cmd_list'[k].id
    <3>1. IsDisconnect(j + 1) /\ j + 1 \in 1..l /\ j + 1 < k + 1 /\ k + 1 \in 1..l
      BY <1>4, <1>6, <2>3
    <3>2. cb_cmd_list[j + 1].id < cb_cmd_list[k + 1].id
      BY <1>2, <2>1, <3>1 DEF StationInv
    <3>3. QED
      BY <1>2, <2>1, <3>2
  <2>4. QED
    BY <2>2, <2>3
<1>9. QED
  BY <1>2, <1>7, <1>8 DEF StationInv

LEMMA StationNext == StateOK /\ OrderInv /\ StationInv /\ [Step]_state => StationInv'
<1> SUFFICES ASSUME StateOK, OrderInv, StationInv, [Step]_state PROVE StationInv'
  OBVIOUS
<1>1. CASE RunCb
  BY <1>1, StationRun
<1>2. CASE UNCHANGED cb_cmd_list /\ ~RunCb
  <2>1. told' = told
    BY <1>2 DEF Step, Worker, Issue, OpenDevice, StateRun, PopCmd, ExecCmd, mainVars, state
  <2>2. \/ UNCHANGED <<hWlan, conn>> \/ hWlan' < 0
        \/ worker = "exec" /\ conn' = cur
    <3>1. CASE ExecCmd
      BY <3>1, <1>2, WifiAssumption DEF ExecCmd, ExecScan, ExecConnect, ExecDisconnect, StateOK, NoHandle
    <3>2. CASE ~ExecCmd
      BY <1>2, <3>2 DEF Step, Worker, Issue, OpenDevice, StateRun, PopCmd, workVars, state
    <3>3. QED
      BY <3>1, <3>2
  <2>3. QED
    BY <1>2, <2>1, <2>2, StationSame
<1>3. CASE OpenDevice /\ AddCb(OpenCb)
  <2>1. OpenCb \in CbNode /\ OpenCb.cb = "open" /\ ~IsAnswer(OpenCb)
    BY NodesFact DEF IsAnswer, Answering
  <2>2. QED
    BY <1>3, <2>1, StationAdd DEF OpenDevice, mainVars
<1>4. ASSUME StateRun, hWlan >= 0, NEW s \in Status, AddCb(StateCb(s))
      PROVE  StationInv'
  <2>1. StateCb(s) \in CbNode /\ StateCb(s).id = conn /\ ~IsAnswer(StateCb(s))
    BY NodesFact DEF IsAnswer, Answering
  <2>2. QED
    BY <1>4, <2>1, StationAdd DEF StateRun, mainVars
<1>5. CASE ExecCmd /\ asked[cur] \in Answering /\ AddCb(Answer(cur))
  <2>1. /\ Answer(cur) \in CbNode /\ Answer(cur).id = cur /\ Answer(cur).cb # "state"
        /\ UNCHANGED <<asked, told, conn>>
    BY <1>5, NodesFact DEF Answering, ExecCmd, ExecScan, ExecConnect, ExecDisconnect, mainVars
  <2>2. hWlan' < 0 \/ (UNCHANGED hWlan /\ asked[cur] # "disconnect")
    BY <1>5, WifiAssumption DEF ExecCmd, ExecScan, ExecConnect, ExecDisconnect, Answering,
                                StateOK, NoHandle
  <2>3. QED
    BY <1>5, <2>1, <2>2, StationAdd
<1>6. QED
  BY <1>1, <1>2, <1>3, <1>4, <1>5, ListSteps

\* Once the callback of a disconnect has run, no status of a station that an
\* earlier connect had set up is delivered (wifi_run, wifi_mastar_run).
THEOREM NoStaleStatusCorrect == Spec => NoStaleStatus
<1>1. StateOK /\ StationInv /\ [Step]_state =>
        [RunCb /\ Head(cb_cmd_list).cb = "state"
           => \A i \in ToldIds : asked[i] = "disconnect" => i < Head(cb_cmd_list).id]_vars
  BY RunFact DEF StationInv
<1>2. QED
  BY <1>1, StationInit, StationNext, NextIsStep, TypeInit, TypeNext, OrderInit,
     OrderNext, PTL
     DEF Spec, NoStaleStatus
=============================================================================
