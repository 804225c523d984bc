---------------------------- MODULE LockedTimer ----------------------------
(***************************************************************************)
(* 0.common/general/locked_timer.c: a timer wheel that several threads add *)
(* entries to, move them in and remove them from, while one thread asks    *)
(* for the entries that have timed out.                                    *)
(*                                                                         *)
(* Two kinds of locks: one per slot for its list and for what the entries  *)
(* in it say of their time, and a few shared ones for the status and the   *)
(* slot index of an entry.  Under the latter nothing is waited for, so     *)
(* such a section is one step, and so is a section of a caller under a     *)
(* slot's lock, except in modify: the slot it locks may be one that the    *)
(* entry has left, and then its two writes are under no lock that anybody  *)
(* else of this entry holds.  The thread in timeouts_get holds a slot's    *)
(* lock for as long as it walks over it; its reads of an entry are steps   *)
(* of their own.                                                           *)
(*                                                                         *)
(* Times are counted from base_time.                                       *)
(***************************************************************************)
EXTENDS Integers, Sequences

Lists == INSTANCE SequencesExt

CONSTANTS
  Entries,
  Users,      \* threads that call add, modify and remove
  SlotCount,  \* slot_count
  MaxTime     \* bound: of all times

ASSUME TimerAssumption == SlotCount \in Nat \ {0} /\ MaxTime \in Nat /\ Entries # {}

Times == 0..MaxTime
Slots == 0..SlotCount - 1

VARIABLES
  now,        \* current_time of the timer
  slots,      \* the list of each slot
  expires, rehash,    \* of each entry, under the lock of its slot
  status, slotIndex,  \* of each entry, under its shared lock
  timer,      \* the thread in timeouts_get
  chain,      \* the entries it has found
  user,       \* the calls of the others
  since,      \* history: the time when expires was last settled,
  wrongLock   \* and the entries whose time a modify has entered under the lock
              \* of another slot than theirs since the timer last read it

entry == <<expires, rehash, since, wrongLock>>
place == <<status, slotIndex>>
vars == <<now, slots, entry, place, timer, chain, user>>

-----------------------------------------------------------------------------
Index(t) == t % SlotCount

\* The slot's lock is with no modify, nor with the thread in timeouts_get.
Unheld(s) == \A u \in Users : ~(user[u].pc = "store" /\ user[u].slot = s)
Free(s) == Unheld(s) /\ (timer.pc \in {"idle", "next", "lock"} \/ timer.slot # s)

Idle == [pc |-> "idle", target |-> 0, slot |-> 0, rest |-> <<>>, dest |-> 0]
Starts(pc, e, t, fresh) ==
  [pc |-> pc, e |-> e, new |-> t, slot |-> 0, set |-> FALSE, fresh |-> fresh]
NoCall == Starts("idle", CHOOSE e \in Entries : TRUE, 0, FALSE)

Init ==
  /\ now = 0
  /\ slots = [s \in Slots |-> <<>>]
  /\ expires = [e \in Entries |-> 0]
  /\ rehash = [e \in Entries |-> FALSE]
  /\ since = [e \in Entries |-> 0] /\ wrongLock = {}
  /\ status = [e \in Entries |-> "none"]
  /\ slotIndex = [e \in Entries |-> 0]
  /\ timer = Idle
  /\ chain = {}
  /\ user = [u \in Users |-> NoCall]

\* fc_list_del_init: out of the list that it is in.
Unlinked(e) == [s \in Slots |-> Lists!RemoveFirst(slots[s], e)]

Settle(e) == since' = [since EXCEPT ![e] = now]

-----------------------------------------------------------------------------
(* locked_timer_add, remove and modify *)

At(u, e, pc) == user[u].pc = pc /\ user[u].e = e
Go(u, pc) == user' = [user EXCEPT ![u].pc = pc]
Answer(u) == user' = [user EXCEPT ![u] = NoCall]

\* add begins an entry anew ("init the entry on the first call"): nobody has
\* a call for it under way.
Unused(e) ==
  /\ status[e] \in {"none", "timeout", "cleared"} /\ e \notin chain
  /\ \A u \in Users : user[u].e = e => user[u].pc = "idle"
Added(e) ==
  /\ status[e] # "none"
  /\ \A u \in Users : user[u].e = e => ~user[u].fresh

\* locked_timer_add, of an entry with expires = t.
Add(u, e, t) ==
  /\ user[u].pc = "idle" /\ Unused(e)
  /\ expires' = [expires EXCEPT ![e] = t]
  /\ user' = [user EXCEPT ![u] = Starts("add", e, t, TRUE)]
  /\ UNCHANGED <<now, slots, rehash, since, wrongLock, place, timer, chain>>

\* locked_timer_remove, by remove_ex with CLEARED.
Remove(u, e) ==
  /\ user[u].pc = "idle" /\ Added(e)
  /\ user' = [user EXCEPT ![u] = Starts("clear", e, 0, FALSE)]
  /\ UNCHANGED <<now, slots, entry, place, timer, chain>>

\* locked_timer_modify looks at expires with no lock: a later time is entered
\* where the entry is, for an earlier one it is taken out and added.
Modify(u, e, t) ==
  /\ user[u].pc = "idle" /\ Added(e)
  /\ t # expires[e]
  /\ user' = [user EXCEPT ![u] =
                Starts(IF t > expires[e] THEN "later" ELSE "earlier", e, t, FALSE)]
  /\ UNCHANGED <<now, slots, entry, place, timer, chain>>

\* check_set_entry_status: the answer to an entry that is not in the timer is
\* an error; while it is MOVING the caller sleeps and tries again.
Refused(u, e) ==
  /\ \E pc \in {"clear", "later", "earlier"} : At(u, e, pc)
  /\ status[e] \notin {"normal", "moving"}
  /\ Answer(u)
  /\ UNCHANGED <<now, slots, entry, place, timer, chain>>

\* Mutant: an entry that somebody moves is taken as well.
CheckAny(u, e, pc, to, next) ==
  /\ At(u, e, pc) /\ status[e] \in {"normal", "moving"}
  /\ status' = [status EXCEPT ![e] = to]
  /\ user' = [user EXCEPT ![u].pc = next, ![u].slot = slotIndex[e]]
  /\ UNCHANGED <<now, slots, entry, slotIndex, timer, chain>>

Check(u, e, pc, to, next) ==
  /\ At(u, e, pc) /\ status[e] = "normal"
  /\ status' = [status EXCEPT ![e] = to]
  /\ user' = [user EXCEPT ![u].pc = next, ![u].slot = slotIndex[e]]
  /\ UNCHANGED <<now, slots, entry, slotIndex, timer, chain>>

Clear(u, e) == Check(u, e, "clear", "cleared", "unlink")
Take(u, e) == Check(u, e, "earlier", "moving", "unlink")
CheckLater(u, e) == Check(u, e, "later", "normal", "set")

\* Mutant: the lock of the slot is forgotten.
UnlinkNow(u, e) ==
  /\ At(u, e, "unlink")
  /\ slots' = Unlinked(e)
  /\ IF status[e] = "moving"
     THEN user' = [user EXCEPT ![u].pc = "add", ![u].set = TRUE]
     ELSE Answer(u)
  /\ UNCHANGED <<now, entry, place, timer, chain>>

\* The entry leaves its list under the lock of the slot that was read with
\* its status; modify goes on with add_ex and SET_EXPIRES.
Unlink(u, e) ==
  /\ At(u, e, "unlink") /\ Free(user[u].slot)
  /\ slots' = Unlinked(e)
  /\ IF status[e] = "moving"
     THEN user' = [user EXCEPT ![u].pc = "add", ![u].set = TRUE]
     ELSE Answer(u)
  /\ UNCHANGED <<now, entry, place, timer, chain>>

\* Mutant: modify takes no lock.
SetRehashNow(u, e) ==
  /\ At(u, e, "set")
  /\ rehash' = [rehash EXCEPT ![e] = Index(user[u].new) # user[u].slot]
  /\ Go(u, "store")
  /\ UNCHANGED <<now, slots, expires, since, wrongLock, place, timer, chain>>

\* The lazy move: whether it will have to be moved, and its later time.
SetRehash(u, e) ==
  /\ At(u, e, "set") /\ Free(user[u].slot)
  /\ rehash' = [rehash EXCEPT ![e] = Index(user[u].new) # user[u].slot]
  /\ Go(u, "store")
  /\ UNCHANGED <<now, slots, expires, since, wrongLock, place, timer, chain>>

SetLater(u, e) ==
  /\ At(u, e, "store")
  /\ expires' = [expires EXCEPT ![e] = user[u].new]
  /\ wrongLock' = IF user[u].slot = slotIndex[e] THEN wrongLock ELSE wrongLock \cup {e}
  /\ Settle(e)
  /\ Answer(u)
  /\ UNCHANGED <<now, slots, rehash, place, timer, chain>>

\* locked_timer_add_ex: a time that is over becomes the next one.
AddCall(call) ==
  LET over == call.new <= now
      new == IF over THEN now + 1 ELSE call.new
  IN [call EXCEPT !.new = new, !.set = @ \/ over, !.slot = Index(new),
                  !.pc = IF call.fresh THEN "status" ELSE "link"]

\* Mutant: add_entry sets the status first for an entry that is moved, too.
AddExStatus(u, e) ==
  /\ At(u, e, "add")
  /\ user' = [user EXCEPT ![u] = AddCall(user[u])]
  /\ slotIndex' = [slotIndex EXCEPT ![e] = IF user[u].fresh THEN @ ELSE AddCall(user[u]).slot]
  /\ status' = [status EXCEPT ![e] = IF user[u].fresh THEN @ ELSE "normal"]
  /\ UNCHANGED <<now, slots, entry, timer, chain>>

AddEx(u, e) ==
  /\ At(u, e, "add")
  /\ user' = [user EXCEPT ![u] = AddCall(user[u])]
  /\ UNCHANGED <<now, slots, entry, place, timer, chain>>

\* add_entry with SET_ENTRY_LOCK: the status comes before the list.
SetStatus(u, e) ==
  /\ At(u, e, "status")
  /\ status' = [status EXCEPT ![e] = "normal"]
  /\ slotIndex' = [slotIndex EXCEPT ![e] = user[u].slot]
  /\ Go(u, "link")
  /\ UNCHANGED <<now, slots, entry, timer, chain>>

\* The rest of add_entry.  Without SET_ENTRY_LOCK the status comes last, still
\* under the slot's lock.
Link(u, e) ==
  /\ At(u, e, "link") /\ Free(user[u].slot)
  /\ IF user[u].set THEN expires' = [expires EXCEPT ![e] = user[u].new] ELSE UNCHANGED expires
  /\ slots' = [slots EXCEPT ![user[u].slot] = Append(@, e)]
  /\ rehash' = [rehash EXCEPT ![e] = FALSE]
  /\ wrongLock' = wrongLock \ {e}
  /\ IF user[u].fresh THEN UNCHANGED place
     ELSE /\ status' = [status EXCEPT ![e] = "normal"]
          /\ slotIndex' = [slotIndex EXCEPT ![e] = user[u].slot]
  /\ Settle(e)
  /\ Answer(u)
  /\ UNCHANGED <<now, timer, chain>>

-----------------------------------------------------------------------------
(* locked_timer_timeouts_get *)

Call(t) ==
  /\ timer.pc = "idle" /\ t > now
  /\ timer' = [timer EXCEPT !.pc = "next", !.target = t]
  /\ UNCHANGED <<now, slots, entry, place, chain, user>>

\* The next slot, and its lock.
Advance ==
  /\ timer.pc = "next" /\ now < timer.target
  /\ now' = now + 1
  /\ timer' = [timer EXCEPT !.pc = "lock", !.slot = Index(now)]
  /\ UNCHANGED <<slots, entry, place, chain, user>>

Lock ==
  /\ timer.pc = "lock" /\ Unheld(timer.slot)
  /\ timer' = [timer EXCEPT !.pc = "scan", !.rest = slots[timer.slot]]
  /\ UNCHANGED <<now, slots, entry, place, chain, user>>

\* The entry that the walk is at, and the step to the one after it, which was
\* read before the entry is touched.
Here(pc) == timer.pc = pc /\ timer.rest # <<>>
e0 == Head(timer.rest)
Step == timer' = [timer EXCEPT !.pc = "scan", !.rest = Tail(@), !.dest = 0]

Over(e) == expires[e] < timer.target

\* l.307 reads the time of the entry.
Expired ==
  /\ Here("scan") /\ Over(e0)
  /\ wrongLock' = wrongLock \ {e0}
  /\ timer' = [timer EXCEPT !.pc = "expire"]
  /\ UNCHANGED <<now, slots, expires, rehash, since, place, chain, user>>

NotOver ==
  /\ Here("scan") /\ ~Over(e0)
  /\ timer' = [timer EXCEPT !.pc = "late", !.dest = Index(expires[e0])]
  /\ UNCHANGED <<now, slots, entry, place, chain, user>>

\* l.308 reads whether it is where it should be.
Stay ==
  /\ Here("late") /\ ~rehash[e0]
  /\ Step
  /\ UNCHANGED <<now, slots, entry, place, chain, user>>

Rehash ==
  /\ Here("late") /\ rehash[e0]
  /\ timer' = [timer EXCEPT !.pc = "dest"]
  /\ UNCHANGED <<now, slots, entry, place, chain, user>>

\* l.309 reads the time again, or the compiler has kept the value of l.307.
NewSlots == {timer.dest, Index(expires[e0])}

\* In its slot again.
Keep ==
  /\ Here("dest") /\ timer.slot \in NewSlots
  /\ rehash' = [rehash EXCEPT ![e0] = FALSE]
  /\ Step
  /\ UNCHANGED <<now, slots, expires, since, wrongLock, place, chain, user>>

Misplaced ==
  /\ Here("dest")
  /\ \E s \in NewSlots \ {timer.slot} : timer' = [timer EXCEPT !.pc = "move", !.dest = s]
  /\ UNCHANGED <<now, slots, entry, place, chain, user>>

\* Somebody else has it.
NotMine ==
  /\ Here("move") \/ Here("expire")
  /\ status[e0] # "normal"
  /\ Step
  /\ UNCHANGED <<now, slots, entry, place, chain, user>>

TakeOut ==
  /\ Here("move") /\ status[e0] = "normal"
  /\ status' = [status EXCEPT ![e0] = "moving"]
  /\ slots' = Unlinked(e0)
  /\ timer' = [timer EXCEPT !.pc = "relink"]
  /\ UNCHANGED <<now, entry, slotIndex, chain, user>>

\* Mutant: the status is not set in the end.
RelinkSilent ==
  /\ Here("relink") /\ Unheld(timer.dest)
  /\ slots' = [slots EXCEPT ![timer.dest] = Append(@, e0)]
  /\ rehash' = [rehash EXCEPT ![e0] = FALSE]
  /\ slotIndex' = [slotIndex EXCEPT ![e0] = timer.dest]
  /\ Step
  /\ UNCHANGED <<now, expires, since, wrongLock, status, chain, user>>

\* add_entry with SET_NOTHING, under both slots' locks.
Relink ==
  /\ Here("relink") /\ Unheld(timer.dest)
  /\ slots' = [slots EXCEPT ![timer.dest] = Append(@, e0)]
  /\ rehash' = [rehash EXCEPT ![e0] = FALSE]
  /\ status' = [status EXCEPT ![e0] = "normal"]
  /\ slotIndex' = [slotIndex EXCEPT ![e0] = timer.dest]
  /\ Step
  /\ UNCHANGED <<now, expires, since, wrongLock, chain, user>>

\* Mutant: a list holds only entries that nobody else has.
TimeOutAny ==
  /\ Here("expire")
  /\ status' = [status EXCEPT ![e0] = "timeout"]
  /\ slots' = Unlinked(e0)
  /\ chain' = chain \cup {e0}
  /\ Step
  /\ UNCHANGED <<now, entry, slotIndex, user>>

TimeOut ==
  /\ Here("expire") /\ status[e0] = "normal"
  /\ status' = [status EXCEPT ![e0] = "timeout"]
  /\ slots' = Unlinked(e0)
  /\ chain' = chain \cup {e0}
  /\ Step
  /\ UNCHANGED <<now, entry, slotIndex, user>>

Unlock ==
  /\ timer.pc = "scan" /\ timer.rest = <<>>
  /\ timer' = [timer EXCEPT !.pc = "next"]
  /\ UNCHANGED <<now, slots, entry, place, chain, user>>

Return ==
  /\ timer.pc = "next" /\ now >= timer.target
  /\ timer' = Idle /\ chain' = {}
  /\ UNCHANGED <<now, slots, entry, place, user>>

-----------------------------------------------------------------------------
Begin(u) ==
  \E e \in Entries :
    \/ Remove(u, e)
    \/ \E t \in Times : Add(u, e, t) \/ Modify(u, e, t)
Continue(u) ==
  \E e \in Entries :
    \/ Refused(u, e) \/ Clear(u, e) \/ Take(u, e) \/ CheckLater(u, e)
    \/ Unlink(u, e) \/ SetRehash(u, e) \/ SetLater(u, e)
    \/ AddEx(u, e) \/ SetStatus(u, e) \/ Link(u, e)
Scan ==
  \/ Advance \/ Lock \/ Expired \/ NotOver \/ Stay \/ Rehash \/ Keep \/ Misplaced
  \/ NotMine \/ TakeOut \/ Relink \/ TimeOut \/ Unlock \/ Return

Next ==
  \/ \E u \in Users : Begin(u) \/ Continue(u)
  \/ Scan
  \/ \E t \in Times : Call(t)

Spec == Init /\ [][Next]_vars

\* Each thread goes on, and a lock that is free again and again is got.
FairSpec ==
  /\ Spec
  /\ WF_vars(Scan) /\ SF_vars(Lock \/ Relink)
  /\ \A u \in Users : WF_vars(Continue(u)) /\ SF_vars(\E e \in Entries : Unlink(u, e) \/ Link(u, e))

-----------------------------------------------------------------------------
(* Properties *)

Where(e) == UNION {{s} \X {i \in DOMAIN slots[s] : slots[s][i] = e} : s \in Slots}

\* The callers that have won the status of e, to clear the entry or to add it
\* again.
Owners(e) == {u \in Users : /\ user[u].e = e /\ ~user[u].fresh
                            /\ user[u].pc \in {"unlink", "add", "link"}}
TimerOwns(e) == Here("relink") /\ e0 = e

\* An entry is in the list of its slot, and in no other, from the end of its
\* add until the one who has won its status unlinks it: what remove_ex reads
\* with the status is still right when it has the lock of that slot (l.278).
InItsSlot ==
  \A e \in Entries :
    IF \/ \E u \in Users : At(u, e, "unlink")
       \/ status[e] = "normal" /\ ~\E u \in Users : user[u].e = e /\ user[u].fresh
    THEN \E i \in DOMAIN slots[slotIndex[e]] : Where(e) = {<<slotIndex[e], i>>}
    ELSE Where(e) = {}

\* Of all who want to clear, move or time out an entry one wins its status
\* (check_set_entry_status, timeouts_get), and MOVING has somebody who ends it.
OneOwner ==
  \A e \in Entries :
    /\ \A u, v \in Owners(e) : u = v
    /\ TimerOwns(e) => Owners(e) = {}
    /\ status[e] = "moving" => TimerOwns(e) \/ Owners(e) # {}

\* While timeouts_get walks over a slot, callers take entries out of the timer;
\* the next entry it has remembered is still the next one of the list (l.306).
WalkIsSafe ==
  timer.pc \in {"scan", "late", "dest", "move", "expire", "relink"} =>
    LET list == slots[timer.slot]
        rest == IF timer.pc = "relink" THEN Tail(timer.rest) ELSE timer.rest
    IN \E i \in 0..Len(list) : rest = SubSeq(list, i + 1, Len(list))

Later(s, t) == IF s > t THEN s ELSE t

\* Whatever races with the timer, an entry is out less than a round after its
\* time, or after that time was settled if this was later.  It is out before
\* its time only if a modify that held the lock of another slot, because it had
\* read the slot before the entry moved (l.244-251), entered that time after the
\* timer had read the one before (l.307).
InTime ==
  /\ \A e \in Entries :
       status[e] = "normal" /\ Where(e) # {} /\ timer.pc = "idle"
         => now < Later(expires[e], since[e]) + SlotCount
  /\ Here("expire") => expires[e0] < timer.target \/ e0 \in wrongLock

\* MOVING, for which other callers sleep, comes to an end.
MovingEnds == \A e \in Entries : status[e] = "moving" ~> status[e] # "moving"

Abstract ==
  INSTANCE TimedEntries WITH
    state <- [e \in Entries |-> IF e \in chain THEN "due"
                                ELSE IF status[e] \in {"normal", "moving"} THEN "armed"
                                ELSE "off"]

\* An entry that was added times out or is cleared, never both, and is in one
\* chain only (timeouts_get against remove and modify).
TimesOutOnce == Abstract!ESpec
=============================================================================
