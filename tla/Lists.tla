-------------------------------- MODULE Lists --------------------------------
(***************************************************************************)
(* Sequences used as lists and queues: what the linked lists, vectors and  *)
(* hash tables of the code are to the models.                              *)
(***************************************************************************)
EXTENDS Integers, Sequences, FiniteSets

Elements(s) == {s[i] : i \in DOMAIN s}

Injective(s) == \A i, j \in DOMAIN s : s[i] = s[j] => i = j

Occurrences(s, x) == Cardinality({i \in DOMAIN s : s[i] = x})

(* All the ways to list a set: the iteration order of a hash table. *)
Orderings(S) ==
  {p \in [1..Cardinality(S) -> S] :
     /\ \A o \in S : \E i \in DOMAIN p : p[i] = o
     /\ Injective(p)}

(* The sequence s without the elements of S, in the same order. *)
Without(s, S) ==
  LET kept[i \in 0..Len(s)] ==
        IF i = 0 THEN << >>
        ELSE IF s[i] \in S THEN kept[i - 1]
        ELSE Append(kept[i - 1], s[i])
  IN  kept[Len(s)]

(* The sequence s without repetitions: first occurrences only. *)
Distinct(s) ==
  LET kept[i \in 0..Len(s)] ==
        IF i = 0 THEN << >>
        ELSE IF s[i] \in Elements(kept[i - 1]) THEN kept[i - 1]
        ELSE Append(kept[i - 1], s[i])
  IN  kept[Len(s)]

(* The sequence s without its element i. *)
Erase(s, i) == [k \in 1..(Len(s) - 1) |-> IF k < i THEN s[k] ELSE s[k + 1]]

(* The value of the function f at x, or v where f is not defined. *)
ValueOr(f, x, v) == IF x \in DOMAIN f THEN f[x] ELSE v
=============================================================================
