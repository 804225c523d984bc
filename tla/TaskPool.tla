------------------------------ MODULE TaskPool ------------------------------
(***************************************************************************)
(* What a thread pool promises to its callers, with no threads, slots or   *)
(* locks in it: a task is accepted or rejected, an accepted one is started *)
(* and ended at most once, a rejected one never, and no more than Limit    *)
(* tasks are under way at a time.                                          *)
(***************************************************************************)
EXTENDS Naturals, FiniteSets

CONSTANTS
  Tasks,
  Limit  \* how many tasks may be under way

VARIABLE state  \* of each task

PInit == state = [k \in Tasks |-> "new"]

Move(k, from, to) ==
  /\ state[k] = from
  /\ state' = [state EXCEPT ![k] = to]

Start(k) ==
  /\ Cardinality({j \in Tasks : state[j] = "started"}) < Limit
  /\ Move(k, "accepted", "started")

PNext ==
  \E k \in Tasks :
    \/ Move(k, "new", "accepted")
    \/ Move(k, "new", "rejected")
    \/ Start(k)
    \/ Move(k, "started", "ended")

PSpec == PInit /\ [][PNext]_state
=============================================================================
