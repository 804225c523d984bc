----------------------------- MODULE MCWifiAsync -----------------------------
(***************************************************************************)
(* Model checking of WifiAsync: one station handle, two statuses, a user   *)
(* who types a few commands.                                               *)
(***************************************************************************)
EXTENDS WifiAsync

CONSTANTS s0, s1, s2

MCHandles == {1}
MCStatus == {s1, s2}
=============================================================================
