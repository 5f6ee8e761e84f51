-------------------------- MODULE MCGlobalScheduler --------------------------
(***************************************************************************)
(* A node without and one with a GPU; t1 runs on any node, t2 needs a GPU. *)
(***************************************************************************)
EXTENDS GlobalScheduler, TLC

CONSTANTS t1, t2, s1, s2

TaskNeeds == t1 :> [cpu |-> 1, gpu |-> 0] @@ t2 :> [cpu |-> 1, gpu |-> 1]

Nodes == s1 :> [cpu |-> 1, gpu |-> 0] @@ s2 :> [cpu |-> 1, gpu |-> 1]
=============================================================================
