---------------------------- MODULE MCKeyRequests ----------------------------
(* One generation, which gets a key, is delivered twice, for the runs of KeyRequests. *)
EXTENDS KeyRequests, TLC

CONSTANTS k1, g1, t1, t2

OneKey == k1 :> g1
Twice == (t1 :> g1) @@ (t2 :> g1)
=============================================================================
