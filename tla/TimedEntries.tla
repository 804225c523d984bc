---------------------------- MODULE TimedEntries ----------------------------
(***************************************************************************)
(* What a timer promises of its entries, with no wheel and no locks in it: *)
(* an entry that is armed either times out, and is then handed over once,  *)
(* or is cleared, and is then not handed over.                             *)
(***************************************************************************)
CONSTANT Entries

VARIABLE state  \* of each entry

EInit == state = [e \in Entries |-> "off"]

Move(e, from, to) ==
  /\ state[e] = from
  /\ state' = [state EXCEPT ![e] = to]

\* The entries that are due are handed over together.
Collect == state' = [e \in Entries |-> IF state[e] = "due" THEN "off" ELSE state[e]]

ENext ==
  \/ \E e \in Entries :
       \/ Move(e, "off", "armed")
       \/ Move(e, "armed", "off")
       \/ Move(e, "armed", "due")
  \/ Collect

ESpec == EInit /\ [][ENext]_state
=============================================================================
