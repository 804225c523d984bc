---------------------------- MODULE AsyncAnswers ----------------------------
(***************************************************************************)
(* What the asynchronous wifi interface promises to the thread that uses   *)
(* it, with no threads, lists or driver in it: commands are numbered in    *)
(* the order in which they are issued, and every command that carries a    *)
(* callback is answered at most once and only after every earlier command  *)
(* with a callback has been answered.                                      *)
(***************************************************************************)
EXTENDS Naturals, Sequences

CONSTANTS
  Cmd,       \* the commands
  Answering  \* the commands issued with a callback

VARIABLES
  asked,     \* the commands issued so far; asked[i] is command number i
  told       \* the numbers of the commands answered so far, in order

avars == <<asked, told>>

Owed(i) == i \in DOMAIN asked /\ asked[i] \in Answering

ToldIds == {told[k] : k \in DOMAIN told}

AInit == asked = <<>> /\ told = <<>>

Ask(c) ==
  /\ asked' = Append(asked, c)
  /\ UNCHANGED told

\* Only the oldest command that is still owed an answer may be answered.
Answer(i) ==
  /\ Owed(i)
  /\ i \notin ToldIds
  /\ \A j \in DOMAIN asked : j < i /\ Owed(j) => j \in ToldIds
  /\ told' = Append(told, i)
  /\ UNCHANGED asked

ANext ==
  \/ \E c \in Cmd : Ask(c)
  \/ \E i \in DOMAIN asked : Answer(i)

ASpec == AInit /\ [][ANext]_avars
=============================================================================
