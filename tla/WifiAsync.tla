------------------------------ MODULE WifiAsync ------------------------------
(***************************************************************************)
(* 5.wifi/wifi_sta_async: wifi_config.c and the main loop that drives it.  *)
(*                                                                         *)
(* The blocking MI_WLAN calls run in a worker thread.  The main thread     *)
(* appends commands to get_cmd_list, the worker executes them one at a     *)
(* time and appends callbacks to cb_cmd_list, and the main thread, after   *)
(* it has looked for a key, runs one callback per turn of its loop; while  *)
(* it waits for the name and the password of a network it runs none.       *)
(* Both lists are only touched under g_info.mutex, and no thread blocks    *)
(* while it holds it, so a critical section is one step here.              *)
(*                                                                         *)
(* Commands are numbered in the order in which they are issued.  told,     *)
(* shown, opened and conn are history variables that the code does not     *)
(* keep.                                                                   *)
(***************************************************************************)
EXTENDS Integers, Sequences

CONSTANTS
  Handles,   \* what MI_WLAN_Connect stores in *hWLan for a new station
  Status,    \* what MI_WLAN_GetStatus returns for a station
  ZeroStatus,\* the zero-filled static stStaStatus_old
  MaxCmd,    \* bound: the number of commands the user types
  MaxCb      \* bound: a status changes while fewer callbacks wait

ASSUME WifiAssumption ==
  /\ Handles \subseteq Nat \ {0}   \* mi_wlan.h: a set up station is > 0
  /\ ZeroStatus \notin Status
  /\ MaxCmd \in Nat
  /\ MaxCb \in Nat

VARIABLES
  main,        \* where the main thread is in its loop
  asked,       \* every command ever issued, in order
  get_cmd_list,\* numbers of the commands the worker has not taken yet
  cb_cmd_list, \* callbacks the main thread has not run yet
  worker,      \* where the worker thread is
  cur,         \* number of the command being executed; 0: none
  hWlan,       \* g_info.hWlan
  staOld,      \* stStaStatus_old
  told,        \* numbers of the commands whose callback has been run
  shown,       \* status passed to the last state callback run
  opened,      \* the open callback has been run
  conn         \* number of the connect that set up hWlan

mainVars == <<main, asked, told, shown, opened>>
workVars == <<worker, cur, hWlan, staOld, conn>>
\* everything but the place of the main thread
state == <<asked, get_cmd_list, cb_cmd_list, worker, cur, hWlan, staOld,
           told, shown, opened, conn>>
vars == <<main, state>>

Cmd == {"scan", "connect", "disconnect"}
Answering == {"scan", "disconnect"}

NoHandle == -1

\* A node of cb_cmd_list: the callback it calls, the command it answers or,
\* for a state callback, the connect that set up the station, and the status.
CbNode == [cb : {"open", "state", "scan", "disconnect"}, id : Nat,
           sta : Status \cup {ZeroStatus}]

Answer(i) == [cb |-> asked[i], id |-> i, sta |-> ZeroStatus]
OpenCb == [cb |-> "open", id |-> 0, sta |-> ZeroStatus]
StateCb(s) == [cb |-> "state", id |-> conn, sta |-> s]

-----------------------------------------------------------------------------
(* wifi_init, and the start of the worker: malloc and pthread_create are   *)
(* taken to succeed.                                                       *)
Init ==
  /\ main = "key"
  /\ asked = <<>>
  /\ get_cmd_list = <<>>
  /\ cb_cmd_list = <<>>
  /\ worker = "open"
  /\ cur = 0
  /\ hWlan = NoHandle
  /\ staOld = ZeroStatus
  /\ told = <<>>
  /\ shown = ZeroStatus
  /\ opened = FALSE
  /\ conn = 0

-----------------------------------------------------------------------------
(* The main thread *)

\* wifi_scan, wifi_connect, wifi_disconnect queue the command whether or not
\* the worker has opened the device.
Issue(c) ==
  /\ Len(asked) < MaxCmd
  /\ asked' = Append(asked, c)
  /\ get_cmd_list' = Append(get_cmd_list, Len(asked) + 1)
  /\ UNCHANGED <<cb_cmd_list, told, shown, opened, workVars>>

\* wifi_mastar_run: pop one callback and run it.  wifi_open_cb,
\* wifi_state_cb, wifi_scan_cb and wifi_disconnect_cb only print and free.
RunCb ==
  /\ cb_cmd_list # <<>>
  /\ cb_cmd_list' = Tail(cb_cmd_list)
  /\ LET n == Head(cb_cmd_list)
     IN  /\ opened' = (opened \/ n.cb = "open")
         /\ shown' = IF n.cb = "state" THEN n.sta ELSE shown
         /\ told' = IF n.cb \in Answering THEN Append(told, n.id) ELSE told
  /\ UNCHANGED <<asked, get_cmd_list, workVars>>

\* A turn of the main loop: no key waits, or one that means nothing.
NoKey ==
  /\ main = "key"
  /\ main' = "run"
  /\ UNCHANGED state

\* 'g' and 'd' queue their command at once; 'c' asks for the network first.
Key(c) ==
  /\ main = "key"
  /\ main' = "run"
  /\ Issue(c)

KeyConnect ==
  /\ main = "key"
  /\ Len(asked) < MaxCmd
  /\ main' = "typing"
  /\ UNCHANGED state

\* Both scanf calls have returned: the user has typed the two words.
Typed ==
  /\ main = "typing"
  /\ main' = "run"
  /\ Issue("connect")

\* wifi_mastar_run at the end of the turn: one callback, if there is one.
MastarRun ==
  /\ main = "run"
  /\ main' = "key"
  /\ \/ RunCb
     \/ cb_cmd_list = <<>> /\ UNCHANGED state

MainTurn == NoKey \/ (\E c \in Answering : Key(c)) \/ KeyConnect \/ MastarRun

-----------------------------------------------------------------------------
(* The worker thread *)

\* Mutant: list_lpush in wifi_add_cb_list instead of list_rpush.
AddCbFront(n) == cb_cmd_list' = <<n>> \o cb_cmd_list

AddCb(n) == cb_cmd_list' = Append(cb_cmd_list, n)

\* Mutant: the open callback is only queued when opening fails.
OpenDeviceSilent ==
  /\ worker = "open"
  /\ \/ worker' = "state" /\ UNCHANGED cb_cmd_list
     \/ worker' = "failed" /\ AddCb(OpenCb)
  /\ UNCHANGED <<mainVars, get_cmd_list, cur, hWlan, staOld, conn>>

\* MI_WLAN_Init and MI_WLAN_Open: on failure the thread queues the open
\* callback with is_open 0 and returns.
OpenDevice ==
  /\ worker = "open"
  /\ AddCb(OpenCb)
  /\ worker' \in {"state", "failed"}
  /\ UNCHANGED <<mainVars, get_cmd_list, cur, hWlan, staOld, conn>>

\* Mutant: stStaStatus_old is not updated.
StateRunForgets ==
  /\ worker = "state"
  /\ worker' = "pop"
  /\ IF hWlan < 0
       THEN UNCHANGED cb_cmd_list
       ELSE \E s \in Status \ {staOld} :
              Len(cb_cmd_list) < MaxCb /\ AddCb(StateCb(s))
  /\ UNCHANGED <<mainVars, get_cmd_list, cur, hWlan, staOld, conn>>

\* Mutant: a status seen while the callback list is long is dropped.
StateRunDrops ==
  /\ worker = "state"
  /\ worker' = "pop"
  /\ IF hWlan < 0
       THEN UNCHANGED <<cb_cmd_list, staOld>>
       ELSE \E s \in Status :
              /\ staOld' = s
              /\ IF s = staOld \/ Len(cb_cmd_list) >= MaxCb
                   THEN UNCHANGED cb_cmd_list
                   ELSE AddCb(StateCb(s))
  /\ UNCHANGED <<mainVars, get_cmd_list, cur, hWlan, conn>>

\* wifi_state_run: report the status of the station when it has changed.
StateRun ==
  /\ worker = "state"
  /\ worker' = "pop"
  /\ \/ /\ hWlan < 0
        /\ UNCHANGED <<cb_cmd_list, staOld>>
     \/ /\ hWlan >= 0
        /\ \E s \in Status :
             IF s = staOld
               THEN UNCHANGED <<cb_cmd_list, staOld>>
               ELSE /\ Len(cb_cmd_list) < MaxCb
                    /\ AddCb(StateCb(s))
                    /\ staOld' = s
  /\ UNCHANGED <<mainVars, get_cmd_list, cur, hWlan, conn>>

\* Mutant: the node is read but stays in the list.
PopCmdPeek ==
  /\ worker = "pop"
  /\ IF get_cmd_list = <<>>
       THEN worker' = "state" /\ UNCHANGED cur
       ELSE worker' = "exec" /\ cur' = Head(get_cmd_list)
  /\ UNCHANGED <<mainVars, cb_cmd_list, get_cmd_list, hWlan, staOld, conn>>

\* list_lpop of the command list; when it is empty, sleep and poll again.
PopCmd ==
  /\ worker = "pop"
  /\ IF get_cmd_list = <<>>
       THEN /\ worker' = "state"
            /\ UNCHANGED <<get_cmd_list, cur>>
       ELSE /\ worker' = "exec"
            /\ cur' = Head(get_cmd_list)
            /\ get_cmd_list' = Tail(get_cmd_list)
  /\ UNCHANGED <<mainVars, cb_cmd_list, hWlan, staOld, conn>>

ExecScan ==
  /\ asked[cur] = "scan"
  /\ AddCb(Answer(cur))
  /\ UNCHANGED <<hWlan, conn>>

\* MI_WLAN_Connect either leaves *hWLan alone or stores a handle: a new one
\* when it was negative, the one of the station otherwise.
ExecConnect ==
  /\ asked[cur] = "connect"
  /\ \/ UNCHANGED <<hWlan, conn>>
     \/ /\ hWlan' \in IF hWlan < 0 THEN Handles ELSE {hWlan}
        /\ conn' = IF hWlan < 0 THEN cur ELSE conn
  /\ UNCHANGED cb_cmd_list

\* Mutants: a disconnect keeps hWlan, or is only answered when there was
\* something to disconnect.
ExecDisconnectKeeps ==
  /\ asked[cur] = "disconnect"
  /\ AddCb(Answer(cur))
  /\ UNCHANGED <<hWlan, conn>>
ExecDisconnectMute ==
  /\ asked[cur] = "disconnect"
  /\ IF hWlan > 0
       THEN hWlan' = NoHandle /\ AddCb(Answer(cur))
       ELSE UNCHANGED <<hWlan, cb_cmd_list>>
  /\ UNCHANGED conn

ExecDisconnect ==
  /\ asked[cur] = "disconnect"
  /\ hWlan' = IF hWlan > 0 THEN NoHandle ELSE hWlan
  /\ AddCb(Answer(cur))
  /\ UNCHANGED conn

ExecCmd ==
  /\ worker = "exec"
  /\ ExecScan \/ ExecConnect \/ ExecDisconnect
  /\ worker' = "state"
  /\ cur' = 0
  /\ UNCHANGED <<mainVars, get_cmd_list, staOld>>

Worker == OpenDevice \/ StateRun \/ PopCmd \/ ExecCmd

Next == MainTurn \/ Typed \/ Worker

Spec == Init /\ [][Next]_vars

\* Both threads loop for ever and neither waits for the other, so each keeps
\* taking steps, but for the main thread in scanf, which waits for the user.
\* The user need not press a key, nor finish what was begun: Typed is not fair.
FairSpec == Spec /\ WF_vars(MainTurn) /\ WF_vars(Worker)

-----------------------------------------------------------------------------
\* The lists hold numbers of commands and callbacks, and the handle is -1 or
\* that of a station that was set up, never the 0 that the driver hands out for
\* none (g_info of wifi_config.c, l.31-56).
StateOK ==
  /\ asked \in Seq(Cmd)
  /\ get_cmd_list \in Seq(Nat)
  /\ cb_cmd_list \in Seq(CbNode)
  /\ worker \in {"open", "failed", "state", "pop", "exec"}
  /\ cur \in Nat
  /\ hWlan \in Handles \cup {NoHandle}
  /\ staOld \in Status \cup {ZeroStatus}
  /\ told \in Seq(Nat)
  /\ shown \in Status \cup {ZeroStatus}
  /\ opened \in BOOLEAN
  /\ conn \in Nat

\* The variables keep their types, and the main thread is at the key, in scanf
\* or at the callbacks (main.c, l.145-176).
TypeOK == StateOK /\ main \in {"key", "typing", "run"}

-----------------------------------------------------------------------------
(* Safety *)

IsAnswer(n) == n.cb \in Answering

ToldIds == {told[k] : k \in DOMAIN told}
QueuedIds == {cb_cmd_list[k].id : k \in {j \in DOMAIN cb_cmd_list :
                                           IsAnswer(cb_cmd_list[j])}}
WaitingIds == {get_cmd_list[k] : k \in DOMAIN get_cmd_list}

\* A command that carries a callback is never lost or answered early between
\* the two lists: until its callback has run, its number is in exactly one of
\* the command list, the worker's hands (cur) and the callback list.
InOnePlace ==
  \A i \in DOMAIN asked : asked[i] \in Answering =>
    \/ i \in ToldIds /\ i \notin QueuedIds \cup {cur} \cup WaitingIds
    \/ i \in QueuedIds /\ i \notin ToldIds \cup {cur} \cup WaitingIds
    \/ i = cur /\ i \notin ToldIds \cup QueuedIds \cup WaitingIds
    \/ i \in WaitingIds /\ i \notin ToldIds \cup QueuedIds \cup {cur}

\* Where every command is: the last Len(get_cmd_list) ones wait, the one
\* before them may be in the worker's hands, and the earlier ones are done.
Taken == Len(asked) - Len(get_cmd_list)
Done == IF cur = 0 THEN Taken ELSE Taken - 1

ListInv ==
  /\ Len(get_cmd_list) <= Len(asked)
  /\ \A k \in DOMAIN get_cmd_list : get_cmd_list[k] = Taken + k
  /\ (worker = "exec") <=> (cur # 0)
  /\ cur # 0 => cur = Taken

\* Every command done that carries a callback is answered or queued, and the
\* numbers grow from the answered ones through the queue.
AnswerInv ==
  /\ \A k \in DOMAIN cb_cmd_list : IsAnswer(cb_cmd_list[k]) =>
        /\ cb_cmd_list[k].id \in 1..Done
        /\ asked[cb_cmd_list[k].id] \in Answering
  /\ \A j, k \in DOMAIN cb_cmd_list :
        j < k /\ IsAnswer(cb_cmd_list[j]) /\ IsAnswer(cb_cmd_list[k])
          => cb_cmd_list[j].id < cb_cmd_list[k].id
  /\ \A j \in DOMAIN told : told[j] \in 1..Done
  /\ \A j \in DOMAIN told, k \in DOMAIN cb_cmd_list :
        IsAnswer(cb_cmd_list[k]) => told[j] < cb_cmd_list[k].id
  /\ \A i \in 1..Done :
        asked[i] \in Answering => i \in ToldIds \cup QueuedIds

OrderInv == ListInv /\ AnswerInv

\* Scans and disconnects are answered exactly in the order in which the main
\* thread issued them, each once (wifi_scan .. wifi_mastar_run).
Service == INSTANCE AsyncAnswers
  WITH Cmd <- Cmd, Answering <- Answering, asked <- asked, told <- told
AnswersInOrder == Service!ASpec

\* The first callback the main thread ever runs is the open callback, also
\* when commands were queued before the device was open.
OpenFirst == [][RunCb => opened \/ Head(cb_cmd_list).cb = "open"]_vars

\* Once the callback of a disconnect has run, the main thread is never handed
\* a status of a station that an earlier connect had set up: the worker stops
\* polling, and what it polled before is ahead in the list.
NoStaleStatus ==
  [][RunCb /\ Head(cb_cmd_list).cb = "state"
       => \A i \in ToldIds : asked[i] = "disconnect"
                              => i < Head(cb_cmd_list).id]_vars

\* Two state callbacks in a row never report the same status: wifi_state_run
\* compares with what it queued last, not with what was delivered.
StatusChanges ==
  [][RunCb /\ Head(cb_cmd_list).cb = "state"
       => Head(cb_cmd_list).sta # shown]_vars

-----------------------------------------------------------------------------
(* Liveness *)

\* Nothing runs a callback while the main thread waits in scanf (main.c,
\* l.158-160).  Both promises below are for a user who, after 'c', types the
\* two words in the end; nothing else is asked of the user.
UserTypes == []<>(main # "typing")

\* A scan or disconnect issued at any time is answered; when the device could
\* not be opened, and the worker has ended, the main thread is told so by the
\* open callback instead.
Answered ==
  UserTypes =>
    \A i \in 1..MaxCmd :
      (i \in DOMAIN asked /\ asked[i] \in Answering)
        ~> (i \in ToldIds \/ (worker = "failed" /\ opened))

\* What the worker saw last is what the main thread is shown in the end.
StatusShown == UserTypes => \A s \in Status : (staOld = s) ~> (shown = s)
=============================================================================
