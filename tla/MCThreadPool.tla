---------------------------- MODULE MCThreadPool ----------------------------
(* Model values and bounds for ThreadPool. *)
EXTENDS ThreadPool
CONSTANTS k1, k2, k3
MCTasks == {k1, k2, k3}
MCThreads == 1..3
=============================================================================
