---------------------------- MODULE EvictionPolicy ----------------------------
(***************************************************************************)
(* The least-recently-released eviction policy of the plasma store         *)
(* (src/plasma/eviction_policy.cc).  It reads the store's object table and *)
(* keeps two pieces of state of its own: the queue of released objects and *)
(* the counter memory_used.                                                *)
(***************************************************************************)
EXTENDS Lists

CONSTANTS Object,    \* object ids
          Client,    \* connections to the store; an id is never reused
          Capacity   \* memory_capacity, in bytes

ASSUME ObjectAssumption == IsFiniteSet(Object)
ASSUME CapacityAssumption == Capacity \in Nat

VARIABLES
  objects,           \* object table: id -> [state, size, clients]
  released_objects,  \* LRU queue, least recently released object first
  memory_used        \* the policy's own account of the memory in use

-----------------------------------------------------------------------------
ObjectTableEntry == [state : {"created", "sealed"},
                     size : 0..Capacity,
                     clients : SUBSET Client]

(* Bytes occupied by the objects of S, counted one by one. *)
Bytes(S) ==
  Cardinality({ob \in S \X (1..Capacity) : ob[2] <= objects[ob[1]].size})

LargerOf(m, n) == IF m >= n THEN m ELSE n

-----------------------------------------------------------------------------
EvictionState_init ==
  /\ released_objects = << >>
  /\ memory_used = 0

(* begin_object_access for every object of S, end_object_access for the    *)
(* objects listed by s.                                                    *)
EvictionState_begin_object_access(S) ==
  released_objects' = Without(released_objects, S)

EvictionState_end_object_access(s) ==
  released_objects' = released_objects \o s

(* The shortest prefix of the queue that holds num_bytes_required bytes,   *)
(* or all of it.                                                           *)
Prefix(n) == {released_objects[i] : i \in 1..n}

NumObjectsToEvict(num_bytes_required) ==
  LET enough == {n \in 0..Len(released_objects) :
                   Bytes(Prefix(n)) >= num_bytes_required}
  IN  IF enough = {} THEN Len(released_objects)
      ELSE CHOOSE n \in enough : \A m \in enough : n <= m

(* The state change of choose_objects_to_evict, the chosen objects being   *)
(* the first n of the queue; added is what require_space adds to           *)
(* memory_used afterwards.                                                 *)
EvictionState_choose_objects_to_evict(n, added) ==
  /\ released_objects' =
       SubSeq(released_objects, n + 1, Len(released_objects))
  /\ memory_used' = memory_used - Bytes(Prefix(n)) + added

(* require_space: how many objects to evict for an object of this size,    *)
(* and whether that frees the space the policy believes is missing.        *)
RequiredSpace(size) == memory_used + size - Capacity

(* Mutation: frees 20% of the capacity, however large the object is. *)
RequireSpaceEvicts_Fifth(size) ==
  IF RequiredSpace(size) > 0 THEN NumObjectsToEvict(Capacity \div 5) ELSE 0

RequireSpaceEvicts(size) ==
  IF RequiredSpace(size) > 0
  THEN NumObjectsToEvict(LargerOf(size, Capacity \div 5))
  ELSE 0

RequireSpaceSucceeds(size) ==
  Bytes(Prefix(RequireSpaceEvicts(size))) >= RequiredSpace(size)

(* Mutations: the "if" before memory_used += size dropped; the addition    *)
(* itself dropped.                                                         *)
require_space_AlwaysCounts(size) ==
  EvictionState_choose_objects_to_evict(RequireSpaceEvicts(size), size)

require_space_NeverCounts(size) ==
  EvictionState_choose_objects_to_evict(RequireSpaceEvicts(size), 0)

EvictionState_require_space(size) ==
  EvictionState_choose_objects_to_evict(
    RequireSpaceEvicts(size),
    IF RequireSpaceSucceeds(size) THEN size ELSE 0)
=============================================================================
