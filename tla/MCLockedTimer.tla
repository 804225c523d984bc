--------------------------- MODULE MCLockedTimer ---------------------------
(* Model values for LockedTimer: one entry, which two callers deal with.    *)
EXTENDS LockedTimer
CONSTANTS e1, u1, u2
OneEntry == {e1}
TwoUsers == {u1, u2}
=============================================================================
