--------------------------- MODULE MCLocalScheduler ---------------------------
(***************************************************************************)
(* Task graphs, resources and drivers for TLC.  Task t1 creates x, t2      *)
(* takes x and creates y, t3 takes both (or x twice).                      *)
(***************************************************************************)
EXTENDS LocalScheduler, TLC

CONSTANTS t1, t2, t3, x, y, d1, d2

ChainArgs == t1 :> << >> @@ t2 :> <<x>> @@ t3 :> <<x, y>>
TwiceArgs == t1 :> << >> @@ t2 :> <<x>> @@ t3 :> <<x, x>>
ForkArgs == t1 :> << >> @@ t2 :> <<x>> @@ t3 :> <<x>>
ForkReturns == t1 :> {x} @@ t2 :> {} @@ t3 :> {}
ChainReturns == t1 :> {x} @@ t2 :> {y} @@ t3 :> {}
TwoDrivers == t1 :> d1 @@ t2 :> d2 @@ t3 :> d1
OneDriver == t1 :> d1 @@ t2 :> d1 @@ t3 :> d1

(* t2 needs the GPU, t3 all CPUs of the node. *)
MixedNeeds == t1 :> [cpu |-> 1, gpu |-> 0] @@ t2 :> [cpu |-> 1, gpu |-> 1]
                @@ t3 :> [cpu |-> 2, gpu |-> 0]

(* Two of the tasks only. *)
PairArgs == t1 :> << >> @@ t2 :> <<x>>
PairReturns == t1 :> {x} @@ t2 :> {}
PairDriver == t1 :> d1 @@ t2 :> d1
PairNeeds == t1 :> [cpu |-> 1, gpu |-> 1] @@ t2 :> [cpu |-> 1, gpu |-> 0]
Node == [cpu |-> 2, gpu |-> 1]

WorkerSymmetry == Permutations(Worker \ InitialWorkers)
=============================================================================
