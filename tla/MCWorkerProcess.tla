--------------------------- MODULE MCWorkerProcess ---------------------------
(* Three messages on two subjects; the algorithm raises for one of them. *)
EXTENDS WorkerProcess, TLC

CONSTANTS m1, m2, m3, olagsa, brute_force

TwoSubjects == (m1 :> olagsa) @@ (m2 :> olagsa) @@ (m3 :> brute_force)
=============================================================================
