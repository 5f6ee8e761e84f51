---------------------------- MODULE MCPlasmaStore ----------------------------
(***************************************************************************)
(* Values of the constants of PlasmaStore for TLC that a configuration     *)
(* file cannot write down.                                                 *)
(***************************************************************************)
EXTENDS PlasmaStore, TLC

CONSTANTS a, b, d   \* object ids

(* Lists of ids that clients get, without and with a repeated id. *)
NoLists == {}
OneList == {<<a, b>>}
PlainLists == {<<a>>, <<a, b>>}
ListsWithRepeats == {<<a, a>>, <<a, b, a>>}

ClientSymmetry == Permutations(Client)
ClientObjectSymmetry == Permutations(Client) \cup Permutations(Object)
=============================================================================
