----------------------------- MODULE ByteStream -----------------------------
(***************************************************************************)
(* What a program that prints a serial line promises, with no buffers,     *)
(* polling or signals in it: the bytes are handed over in pieces that      *)
(* follow each other without a gap or an overlap.  A piece is a C string,  *)
(* so of each piece nothing is seen from its first NUL byte on.            *)
(***************************************************************************)
EXTENDS Naturals, Sequences

CONSTANT Kinds  \* what is told apart of a byte; one of them is "nul"

VARIABLES
  arrived,  \* the bytes the line has received; a byte is its number in it
  done,     \* how many of them have been handed over
  piece     \* the piece handed over last, as the numbers of its bytes

bvars == <<arrived, done, piece>>

BInit == arrived = <<>> /\ done = 0 /\ piece = <<>>

Receive(k) ==
  /\ arrived' = Append(arrived, k)
  /\ UNCHANGED <<done, piece>>

\* The bytes up to number n are handed over, len of them before the first NUL.
HandOver(n, len) ==
  /\ \A i \in 1..len : arrived[done + i] # "nul"
  /\ len = n - done \/ arrived[done + len + 1] = "nul"
  /\ done' = n
  /\ piece' = [i \in 1..len |-> done + i]
  /\ UNCHANGED arrived

BNext ==
  \/ \E k \in Kinds : Receive(k)
  \/ \E n \in done..Len(arrived) : \E len \in 0..n - done : HandOver(n, len)

BSpec == BInit /\ [][BNext]_bvars
=============================================================================
