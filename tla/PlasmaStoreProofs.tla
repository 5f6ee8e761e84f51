-------------------------- MODULE PlasmaStoreProofs --------------------------
(***************************************************************************)
(* Proofs about PlasmaStore, for every set of objects, clients and         *)
(* subscribers, every capacity and every workload.                         *)
(***************************************************************************)
EXTENDS PlasmaStore, EvictionPolicyProofs

-----------------------------------------------------------------------------
(* What the store has promised to a client that waits: the objects it      *)
(* already found are sealed and pinned for it.                             *)
RequestsPinned ==
  ~aborted =>
    \A c \in DOMAIN get_requests :
      /\ clients[c] # "new"
      /\ clients[c] = "open" =>
           \A o \in get_requests[c].satisfied :
             o \in Sealed /\ c \in objects[o].clients

(* The object being created is not in the table. *)
CreatesAbsent ==
  ~aborted => \A r \in creating : r.object \notin DOMAIN objects

(* The inductive invariant. *)
IInv ==
  /\ TypeOK
  /\ MemoryUsedBounded
  /\ LRUExact
  /\ HeldObjectsPinned
  /\ WaitQueuesExact
  /\ RequestsPinned
  /\ CreatesAbsent

NotificationsTyped ==
  /\ DOMAIN pending_notifications \subseteq Subscriber
  /\ \A s \in DOMAIN pending_notifications :
       pending_notifications[s] \in Seq(Notification)
  /\ view \in [Subscriber -> SUBSET Object]
  /\ broken \subseteq Subscriber

-----------------------------------------------------------------------------
(* A subscriber's view is a set of objects. *)
LEMMA ReplayType ==
  ASSUME NEW V, NEW q
  PROVE  Replay(V, q) \in SUBSET Object
BY DEF Replay

(* Sending part of the queues leaves queues and views well typed. *)
LEMMA TransmitType ==
  ASSUME NEW q, DOMAIN q \subseteq Subscriber,
         \A s \in DOMAIN q : q[s] \in Seq(Notification),
         view \in [Subscriber -> SUBSET Object],
         Transmit(q)
  PROVE  /\ DOMAIN pending_notifications' = DOMAIN q
         /\ \A s \in DOMAIN q : pending_notifications'[s] \in Seq(Notification)
         /\ view' \in [Subscriber -> SUBSET Object]
<1>1. PICK kept \in [DOMAIN q -> 0..MaxPending] :
        /\ \A s \in DOMAIN q : kept[s] <= Len(q[s])
        /\ pending_notifications' =
             [s \in DOMAIN q |->
                SubSeq(q[s], Len(q[s]) - kept[s] + 1, Len(q[s]))]
        /\ view' = [s \in Subscriber |->
                      IF s \in DOMAIN q
                      THEN Replay(view[s], SubSeq(q[s], 1, Len(q[s]) - kept[s]))
                      ELSE view[s]]
  BY Zenon DEF Transmit
<1>2. ASSUME NEW s \in DOMAIN q
      PROVE  pending_notifications'[s] \in Seq(Notification)
  <2>1. /\ q[s] \in Seq(Notification) /\ Len(q[s]) \in Nat
        /\ kept[s] \in Nat /\ kept[s] <= Len(q[s])
    BY <1>1, MaxPendingAssumption
  <2>2. Len(q[s]) - kept[s] \in 0..Len(q[s])
    BY <2>1
  <2>3. SubSeq(q[s], (Len(q[s]) - kept[s]) + 1, Len(q[s])) \in Seq(Notification)
    BY <2>1, <2>2, DropPrefix
  <2> QED BY <1>1, <2>3
<1>3. view' \in [Subscriber -> SUBSET Object]
  BY <1>1, ReplayType
<1> QED BY <1>1, <1>2, <1>3

(* push_notification leaves queues and views well typed. *)
LEMMA PushType ==
  ASSUME NotificationsTyped,
         NEW subs \in SUBSET Subscriber, NEW notes \in Seq(Notification),
         push_notification(subs, notes)
  PROVE  NotificationsTyped'
<1> DEFINE queued(s) == IF s \in DOMAIN pending_notifications
                        THEN pending_notifications[s] ELSE << >>
<1>1. \A s : queued(s) \in Seq(Notification)
  BY DEF NotificationsTyped
<1>2. CASE /\ notes = << >>
           /\ pending_notifications' = [s \in subs |-> queued(s)]
           /\ UNCHANGED <<view, broken>>
  BY <1>1, <1>2 DEF NotificationsTyped
<1>3. ASSUME notes # << >>, NEW missed,
             Transmit([s \in subs \ (subs \cap broken) |->
                queued(s) \o IF s \in missed THEN Tail(notes) ELSE notes]),
             UNCHANGED broken
      PROVE  NotificationsTyped'
  <2> DEFINE q == [s \in subs \ (subs \cap broken) |->
                queued(s) \o IF s \in missed THEN Tail(notes) ELSE notes]
  <2>1. Tail(notes) \in Seq(Notification)
    BY <1>3
  <2>2. DOMAIN q \subseteq Subscriber
    OBVIOUS
  <2>3. \A s \in DOMAIN q : q[s] \in Seq(Notification)
    <3> HIDE DEF queued
    <3> QED BY <1>1, <2>1, ConcatElements
  <2>4. Transmit(q)
    BY <1>3
  <2> HIDE DEF q
  <2> QED BY <1>3, <2>2, <2>3, <2>4, TransmitType DEF NotificationsTyped
<1> QED BY Zenon, <1>2, <1>3 DEF push_notification

-----------------------------------------------------------------------------
(* The handlers, one lemma each: they preserve the inductive invariant.    *)

(* Sending, subscribing and losing subscribers touch only the queues. *)
LEMMA NotifyInv ==
  ASSUME IInv, Notify
  PROVE  IInv'
<1>1. NotificationsTyped
  BY DEF IInv, TypeOK, NotificationsTyped
<1>2. NotificationsTyped' /\ aborted' \in BOOLEAN
  <2>1. PICK s \in Subscriber :
          \/ send_notifications(s)
          \/ subscribe_to_updates(s)
          \/ SubscriberCloses(s)
    BY DEF Notify
  <2>2. CASE send_notifications(s)
    <3>1. pending_notifications[s] \in Seq(Notification)
      BY <1>1, <2>2 DEF send_notifications, NotificationsTyped
    <3>2. CASE s \in broken
      BY Zenon, <1>1, <2>2, <3>2 DEF send_notifications, Aborts, NotificationsTyped
    <3>3. CASE s \notin broken
      <4>1. PICK n \in 1..Len(pending_notifications[s]) :
              LET q == pending_notifications[s]
              IN  /\ pending_notifications' =
                       [pending_notifications EXCEPT
                          ![s] = SubSeq(q, n + 1, Len(q))]
                  /\ view' = [view EXCEPT ![s] = Replay(@, SubSeq(q, 1, n))]
        BY Zenon, <2>2, <3>3 DEF send_notifications
      <4>2. SubSeq(pending_notifications[s], n + 1, Len(pending_notifications[s]))
              \in Seq(Notification)
        BY <3>1, DropPrefix
      <4>3. view' \in [Subscriber -> SUBSET Object]
        BY <1>1, <4>1, ReplayType DEF NotificationsTyped
      <4> QED BY Zenon, <1>1, <2>2, <3>3, <4>1, <4>2, <4>3
              DEF send_notifications, Aborts, NotificationsTyped
    <3> QED BY <3>2, <3>3
  <2>3. CASE subscribe_to_updates(s)
    <3>1. PICK p \in Orderings(DOMAIN objects) :
            push_notification(DOMAIN pending_notifications \cup {s},
                              [i \in DOMAIN p |-> Added(p[i])])
      BY SMTT(30), <2>3 DEF subscribe_to_updates
    <3>2. DOMAIN objects \subseteq Object /\ IsFiniteSet(DOMAIN objects)
      BY ObjectAssumption, FS_Subset DEF IInv, TypeOK
    <3>3. p \in Seq(DOMAIN objects)
      BY <3>2, OrderingsSeq
    <3>4. [i \in DOMAIN p |-> Added(p[i])] \in Seq(Notification)
      <4>1. \A o \in Object : Added(o) \in Notification
        BY DEF Added, Notification
      <4>2. [i \in 1..Len(p) |-> Added(p[i])] \in [1..Len(p) -> Notification]
        BY <3>2, <3>3, <4>1
      <4>3. Len(p) \in Nat /\ DOMAIN p = 1..Len(p)
        BY <3>3
      <4> QED BY <4>2, <4>3
    <3>5. DOMAIN pending_notifications \cup {s} \in SUBSET Subscriber
      BY <1>1 DEF NotificationsTyped
    <3>6. NotificationsTyped'
      BY <1>1, <3>1, <3>4, <3>5, PushType
    <3> QED BY Zenon, <2>3, <3>6 DEF subscribe_to_updates, Aborts
  <2>4. CASE SubscriberCloses(s)
    BY <1>1, <2>4 DEF SubscriberCloses, NotificationsTyped, IInv, TypeOK
  <2> QED BY <2>1, <2>2, <2>3, <2>4
<1>3. ~aborted /\ UNCHANGED <<tableVars, clientVars, creating, getVars>>
  BY DEF Notify, Idle
<1> QED BY <1>2, <1>3
        DEF IInv, TypeOK, NotificationsTyped, MemoryUsedBounded, LRUExact,
            HeldObjectsPinned, WaitQueuesExact, RequestsPinned, CreatesAbsent,
            tableVars, clientVars, getVars, Sealed, Waiting

(* A new connection uses nothing. *)
LEMMA ConnectInv ==
  ASSUME IInv, NEW c \in Client, new_client_connection(c)
  PROVE  IInv'
BY SMTT(30) DEF IInv, TypeOK, MemoryUsedBounded, LRUExact, HeldObjectsPinned,
       WaitQueuesExact, RequestsPinned, CreatesAbsent, new_client_connection,
       tableVars, notificationVars, getVars, Sealed, Waiting, Idle

(* A create request is accepted. *)
LEMMA CreateInv ==
  ASSUME IInv, Create
  PROVE  IInv'
<1>1. PICK c \in Client, o \in Object, size \in Sizes : create_object(c, o, size)
  BY DEF Create
<1>2. /\ creating' = {[client |-> c, object |-> o, size |-> size]}
      /\ o \notin DOMAIN objects /\ ~aborted
      /\ UNCHANGED <<tableVars, notificationVars, clientVars, getVars>>
  BY <1>1 DEF create_object, MayRequest, Idle
<1>3. creating' \subseteq CreateRequest
  BY <1>2 DEF CreateRequest
<1> QED BY <1>2, <1>3
        DEF IInv, TypeOK, MemoryUsedBounded, LRUExact, HeldObjectsPinned,
            WaitQueuesExact, RequestsPinned, CreatesAbsent,
            tableVars, notificationVars, clientVars, getVars, Sealed, Waiting

(* The allocation succeeded. *)
LEMMA CreateSucceedsInv ==
  ASSUME IInv, NEW r \in creating, create_succeeds(r)
  PROVE  IInv'
<1>1. /\ r.client \in Client /\ r.object \in Object /\ r.size \in Nat
      /\ r.object \notin DOMAIN objects /\ ~aborted
  BY Zenon, RequestAssumption
     DEF IInv, TypeOK, CreateRequest, create_succeeds, CreatesAbsent
<1>2. r.size \in 0..Capacity
  <2>1. DOMAIN objects \in SUBSET Object
    BY DEF IInv, TypeOK
  <2>2. Bytes(DOMAIN objects) \in Nat
    BY <2>1, BytesNat
  <2>3. Overhead * Cardinality(DOMAIN objects) \in Nat
    BY SMTT(30), <2>1, ObjectAssumption, RequestAssumption,
       FS_Subset, FS_CardinalityType
  <2> QED BY <1>1, <2>2, <2>3, RequestAssumption, CapacityAssumption
          DEF create_succeeds, HasRoom
<1>3. /\ DOMAIN objects' = DOMAIN objects \cup {r.object}
      /\ objects'[r.object] = [state |-> "created", size |-> r.size,
                               clients |-> {r.client}]
      /\ \A o \in DOMAIN objects : objects'[o] = objects[o]
      /\ Sealed' = Sealed
      /\ UNCHANGED <<released_objects, memory_used, notificationVars, clients,
                     holding, getVars>>
  BY SMTT(30), <1>1 DEF create_succeeds, Sealed
<1>4. TypeOK'
  BY SMTT(30), <1>1, <1>2, <1>3
     DEF IInv, TypeOK, create_succeeds, notificationVars, getVars,
         ObjectTableEntry
<1>5. LRUExact'
  BY SMTT(30), <1>1, <1>3 DEF IInv, LRUExact
<1>6. HeldObjectsPinned'
  BY <1>1, <1>3 DEF IInv, HeldObjectsPinned, create_succeeds, Sealed, TypeOK
<1>7. WaitQueuesExact'
  BY SMTT(30), <1>3 DEF IInv, WaitQueuesExact, notificationVars, getVars, Waiting
<1>8. RequestsPinned' /\ CreatesAbsent' /\ MemoryUsedBounded'
  BY <1>1, <1>3
     DEF IInv, RequestsPinned, CreatesAbsent, MemoryUsedBounded, getVars,
         create_succeeds, Sealed
<1> QED BY <1>4, <1>5, <1>6, <1>7, <1>8 DEF IInv

(* Evicting a prefix of the queue takes away only what nobody uses. *)
LEMMA EvictionInv ==
  ASSUME IInv, ~aborted, NEW n \in 0..Len(released_objects), NEW added \in Int,
         EvictionState_choose_objects_to_evict(n, added),
         remove_objects(n),
         memory_used' <= Capacity,
         creating' \subseteq creating,
         UNCHANGED <<clientVars, getVars>>
  PROVE  IInv'
<1>0. released_objects \in Seq(Object) /\ Injective(released_objects)
  BY DEF IInv, TypeOK, LRUExact
<1>1. Prefix(n) \subseteq Elements(released_objects) /\ Prefix(n) \subseteq Object
  BY <1>0, PrefixElements
<1>2. \A o \in Prefix(n) : o \in DOMAIN objects /\ objects[o].clients = {}
  BY <1>1 DEF IInv, LRUExact
<1>3. /\ released_objects' \in Seq(Object)
      /\ Injective(released_objects')
      /\ Elements(released_objects') = Elements(released_objects) \ Prefix(n)
  BY SMTT(30), <1>0, DropPrefix DEF EvictionState_choose_objects_to_evict, Prefix
<1>4. memory_used' \in Int
  <2>1. Bytes(Prefix(n)) \in Nat
    BY <1>1, BytesNat
  <2>2. memory_used \in Int
    BY DEF IInv, TypeOK
  <2> QED BY <2>1, <2>2 DEF EvictionState_choose_objects_to_evict
<1>5. /\ NotificationsTyped' /\ aborted' \in BOOLEAN
      /\ DOMAIN objects' \subseteq DOMAIN objects
      /\ ~aborted' => DOMAIN objects' = DOMAIN objects \ Prefix(n)
      /\ \A o \in DOMAIN objects' : objects'[o] = objects[o]
  <2>1. NotificationsTyped
    BY DEF IInv, TypeOK, NotificationsTyped
  <2>2. CASE Prefix(n) \subseteq Deletable
    <3>1. /\ objects' = [o \in DOMAIN objects \ Prefix(n) |-> objects[o]]
          /\ push_notification(DOMAIN pending_notifications,
                               [i \in 1..n |-> Deleted(released_objects[i])])
          /\ Aborts(FALSE, PushMayCrash /\ n > 0)
      BY Zenon, <2>2 DEF remove_objects
    <3>2. [i \in 1..n |-> Deleted(released_objects[i])] \in Seq(Notification)
      <4>1. \A o \in Object : Deleted(o) \in Notification
        BY DEF Deleted, Notification
      <4>2. \A i \in 1..n : released_objects[i] \in Object
        BY <1>1 DEF Prefix
      <4>3. [i \in 1..n |-> Deleted(released_objects[i])]
              \in [1..n -> Notification]
        BY <4>1, <4>2
      <4> QED BY <1>0, <4>3
    <3>3. NotificationsTyped'
      BY Zenon, <2>1, <3>1, <3>2, PushType DEF NotificationsTyped
    <3> QED BY Zenon, <3>1, <3>3 DEF Aborts
  <2>3. CASE ~(Prefix(n) \subseteq Deletable)
    BY ZenonT(60), <2>1, <2>3 DEF remove_objects, Aborts, NotificationsTyped
  <2> QED BY <2>2, <2>3
<1>6. TypeOK'
  BY SMTT(30), <1>3, <1>4, <1>5
     DEF IInv, TypeOK, NotificationsTyped, clientVars, getVars
<1>7. LRUExact'
  BY SMTT(30), <1>1, <1>3, <1>5 DEF IInv, LRUExact
<1>8. ASSUME ~aborted', NEW o \in DOMAIN objects, objects[o].clients # {}
      PROVE  o \in DOMAIN objects' /\ objects'[o] = objects[o]
  BY <1>2, <1>5, <1>8
<1>9. HeldObjectsPinned'
  BY <1>8 DEF IInv, HeldObjectsPinned, Sealed, clientVars
<1>10. WaitQueuesExact'
  BY <1>5 DEF IInv, WaitQueuesExact, getVars, Waiting, Sealed
<1>11. RequestsPinned'
  BY <1>8 DEF IInv, RequestsPinned, getVars, clientVars, Sealed
<1>12. CreatesAbsent' /\ MemoryUsedBounded'
  BY <1>5 DEF IInv, CreatesAbsent, MemoryUsedBounded
<1> QED BY SMTT(30), <1>6, <1>7, <1>9, <1>10, <1>11, <1>12 DEF IInv

(* The allocation failed and the policy made room, or could not. *)
LEMMA CreateEvictsInv ==
  ASSUME IInv, NEW r \in creating, create_evicts(r)
  PROVE  IInv'
<1> DEFINE n == RequireSpaceEvicts(r.size)
           added == IF RequireSpaceSucceeds(r.size) THEN r.size ELSE 0
<1>1. /\ r.size \in Nat /\ ~aborted
      /\ released_objects \in Seq(Object)
      /\ memory_used \in Int /\ memory_used <= Capacity
  BY Zenon, RequestAssumption
     DEF IInv, TypeOK, CreateRequest, create_evicts, MemoryUsedBounded
<1>2. /\ n \in 0..Len(released_objects)
      /\ RequireSpaceSucceeds(r.size) =>
           memory_used - Bytes(Prefix(n)) + r.size <= Capacity
  BY Zenon, <1>1, RequireSpace
<1>3. /\ EvictionState_choose_objects_to_evict(n, added)
      /\ remove_objects(n)
      /\ creating' \subseteq creating
      /\ UNCHANGED <<clientVars, getVars>>
  BY DEF create_evicts, EvictionState_require_space
<1>4. Bytes(Prefix(n)) \in Nat
  BY <1>1, <1>2, PrefixElements, BytesNat
<1>5. added \in Int
  BY <1>1
<1> HIDE DEF n
<1>6. memory_used' <= Capacity
  BY <1>1, <1>2, <1>3, <1>4, CapacityAssumption
     DEF EvictionState_choose_objects_to_evict
<1> HIDE DEF added
<1> QED BY <1>1, <1>2, <1>3, <1>5, <1>6, EvictionInv

(* The evict request. *)
LEMMA EvictInv ==
  ASSUME IInv, NEW c \in Client, NEW num_bytes \in EvictSizes, evict(c, num_bytes)
  PROVE  IInv'
<1> DEFINE n == NumObjectsToEvict(num_bytes)
<1>1. /\ num_bytes \in Int /\ ~aborted
      /\ released_objects \in Seq(Object)
      /\ memory_used \in Int /\ memory_used <= Capacity
  BY RequestAssumption DEF IInv, TypeOK, evict, MemoryUsedBounded, MayRequest, Idle
<1>2. n \in 0..Len(released_objects)
  BY <1>1, NumObjectsToEvictPrefix
<1>3. /\ EvictionState_choose_objects_to_evict(n, 0)
      /\ remove_objects(n)
      /\ creating' \subseteq creating
      /\ UNCHANGED <<clientVars, getVars>>
  BY DEF evict
<1>4. Bytes(Prefix(n)) \in Nat
  BY <1>1, <1>2, PrefixElements, BytesNat
<1> HIDE DEF n
<1>5. memory_used' <= Capacity
  BY <1>1, <1>3, <1>4, CapacityAssumption
     DEF EvictionState_choose_objects_to_evict
<1> QED BY <1>1, <1>2, <1>3, <1>5, EvictionInv

(* What a get does to the table: sealed objects gain a user and leave the  *)
(* queue.                                                                  *)
LEMMA AddClient ==
  ASSUME IInv, ~aborted, ~aborted', NEW c \in Client, NEW S \in SUBSET Sealed,
         add_client_to_object_clients({c}, S)
  PROVE  /\ DOMAIN objects' = DOMAIN objects /\ Sealed' = Sealed
         /\ \A o \in DOMAIN objects :
              /\ objects'[o] \in ObjectTableEntry
              /\ objects'[o].clients =
                   IF o \in S THEN objects[o].clients \cup {c}
                   ELSE objects[o].clients
         /\ released_objects' \in Seq(Object)
         /\ LRUExact'
         /\ UNCHANGED memory_used
<1> DEFINE B == {o \in S : {c} # {} /\ objects[o].clients = {}}
<1>1. /\ \A o \in DOMAIN objects : objects[o] \in ObjectTableEntry
      /\ released_objects \in Seq(Object)
      /\ Elements(released_objects) =
           {o \in DOMAIN objects : objects[o].clients = {}}
      /\ Injective(released_objects)
  BY DEF IInv, TypeOK, LRUExact
<1>2. S \subseteq DOMAIN objects
  BY DEF Sealed
<1>3. /\ DOMAIN objects' = DOMAIN objects
      /\ \A o \in DOMAIN objects :
           /\ objects'[o] \in ObjectTableEntry
           /\ objects'[o].state = objects[o].state
           /\ objects'[o].clients = IF o \in S THEN objects[o].clients \cup {c}
                                    ELSE objects[o].clients
  BY <1>1 DEF add_client_to_object_clients, ObjectTableEntry
<1>4. Sealed' = Sealed
  BY Zenon, <1>3 DEF Sealed
<1>5. released_objects' = Without(released_objects, B)
  BY DEF add_client_to_object_clients, EvictionState_begin_object_access
<1> HIDE DEF B
<1>6. /\ released_objects' \in Seq(Object)
      /\ Elements(released_objects') = Elements(released_objects) \ B
      /\ Injective(released_objects')
  BY SMTT(30), <1>1, <1>5, WithoutSeq
<1>7. Elements(released_objects') =
        {o \in DOMAIN objects' : objects'[o].clients = {}}
  BY ZenonT(60), <1>1, <1>2, <1>3, <1>6 DEF B
<1> QED BY ZenonT(60), <1>3, <1>4, <1>6, <1>7
        DEF LRUExact, add_client_to_object_clients

(* The sealed objects among those asked for. *)
LEMMA SealedIdsFacts ==
  ASSUME NEW ids \in Seq(Object)
  PROVE  /\ SealedIds(ids) \subseteq Sealed
         /\ SealedIds(ids) \subseteq Object
         /\ SealedIds(ids) = Elements(ids) \cap Sealed
         /\ Cardinality(SealedIndices(ids)) \in Nat
<1>1. IsFiniteSet(1..Len(ids)) /\ DOMAIN ids = 1..Len(ids)
  BY FS_Interval
<1>2. IsFiniteSet(SealedIndices(ids))
  BY <1>1, FS_Subset DEF SealedIndices
<1> QED BY <1>2, FS_CardinalityType DEF SealedIds, SealedIndices, Elements

(* A get that is answered at once. *)
LEMMA GetReturnsInv ==
  ASSUME IInv, NEW c \in Client, NEW ids \in Seq(Object), NEW poll,
         process_get_request_returns(c, ids, poll)
  PROVE  IInv'
<1> DEFINE S == SealedIds(ids)
<1>1. /\ ~aborted /\ ~aborted'
      /\ add_client_to_object_clients({c}, S)
      /\ holding' = [holding EXCEPT ![c] = @ \cup S]
      /\ UNCHANGED <<notificationVars, clients, writing, creating, getVars>>
  BY DEF process_get_request_returns, MayRequest, Idle, notificationVars
<1>2. S \subseteq Sealed /\ S \subseteq Object
  BY SealedIdsFacts
<1>s. Sealed \subseteq DOMAIN objects
  BY DEF Sealed
<1> HIDE DEF S
<1>3. /\ DOMAIN objects' = DOMAIN objects /\ Sealed' = Sealed
      /\ \A o \in DOMAIN objects :
           /\ objects'[o] \in ObjectTableEntry
           /\ objects'[o].clients =
                IF o \in S THEN objects[o].clients \cup {c}
                ELSE objects[o].clients
      /\ released_objects' \in Seq(Object)
      /\ LRUExact'
      /\ UNCHANGED memory_used
  BY ZenonT(60), <1>1, <1>2, AddClient
<1>4. TypeOK'
  BY Zenon, <1>1, <1>2, <1>3 DEF IInv, TypeOK, notificationVars, getVars
<1>5. HeldObjectsPinned'
  BY ZenonT(60), <1>1, <1>2, <1>3, <1>s DEF IInv, TypeOK, HeldObjectsPinned
<1>6. WaitQueuesExact'
  BY Zenon, <1>1, <1>3 DEF IInv, WaitQueuesExact, getVars, Waiting
<1>7. RequestsPinned'
  BY ZenonT(60), <1>1, <1>2, <1>3, <1>s DEF IInv, RequestsPinned, getVars
<1>8. CreatesAbsent' /\ MemoryUsedBounded'
  BY Zenon, <1>1, <1>3 DEF IInv, CreatesAbsent, MemoryUsedBounded
<1> QED BY SMTT(30), <1>3, <1>4, <1>5, <1>6, <1>7, <1>8 DEF IInv

(* Occurrences counts an element that occurs at least once. *)
LEMMA OccurrencesFacts ==
  ASSUME NEW T, NEW s \in Seq(T), NEW x
  PROVE  /\ Occurrences(s, x) \in Nat
         /\ Occurrences(s, x) > 0 <=> x \in Elements(s)
<1> DEFINE I == {i \in DOMAIN s : s[i] = x}
<1>1. IsFiniteSet(I)
  BY FS_Interval, FS_Subset
<1>2. Cardinality(I) \in Nat
  BY <1>1, FS_CardinalityType
<1>3. Cardinality(I) = 0 <=> I = {}
  BY Zenon, <1>1, FS_EmptySet
<1>4. I = {} <=> x \notin Elements(s)
  BY DEF Elements
<1> QED BY <1>2, <1>3, <1>4 DEF Occurrences

(* A get that has to wait. *)
LEMMA GetWaitsInv ==
  ASSUME IInv, NEW c \in Client, NEW ids \in Seq(Object), NEW timer \in BOOLEAN,
         process_get_request_waits(c, ids, timer)
  PROVE  IInv'
<1> DEFINE S == SealedIds(ids)
           req == [object_ids |-> ids, satisfied |-> S,
                   num_satisfied |-> Cardinality(SealedIndices(ids)),
                   timer |-> timer]
<1>1. /\ ~aborted /\ ~aborted' /\ clients[c] = "open"
      /\ c \notin DOMAIN get_requests
      /\ add_client_to_object_clients({c}, S)
      /\ get_requests' = [d \in DOMAIN get_requests \cup {c} |->
                            IF d = c THEN req ELSE get_requests[d]]
      /\ UNCHANGED <<notificationVars, clientVars, creating>>
  BY DEF process_get_request_waits, MayRequest, Idle, notificationVars
<1>2. /\ S \subseteq Sealed /\ S \subseteq Object
      /\ S = Elements(ids) \cap Sealed
      /\ Cardinality(SealedIndices(ids)) \in Nat
  BY SealedIdsFacts
<1>q. /\ object_get_requests' \in [Object -> Seq(Client)]
      /\ \A o \in Object : Waiting(o)' =
           Waiting(o) \cup IF o \in Elements(ids) \ Sealed THEN {c} ELSE {}
  <2> DEFINE more(o) == [i \in 1..Occurrences(ids, o) |-> c]
  <2>1. object_get_requests' =
          [o \in Object |-> IF o \in S THEN object_get_requests[o]
                            ELSE object_get_requests[o] \o more(o)]
    BY DEF process_get_request_waits
  <2>2. ASSUME NEW o \in Object
        PROVE  /\ more(o) \in Seq(Client)
               /\ Elements(more(o)) = IF o \in Elements(ids) THEN {c} ELSE {}
    <3>1. /\ Occurrences(ids, o) \in Nat
          /\ Occurrences(ids, o) > 0 <=> o \in Elements(ids)
      BY OccurrencesFacts
    <3>2. more(o) \in Seq(Client)
      BY <3>1
    <3>3. Elements(more(o)) = IF Occurrences(ids, o) > 0 THEN {c} ELSE {}
      BY <3>1 DEF Elements
    <3> QED BY <3>1, <3>2, <3>3
  <2>3. object_get_requests \in [Object -> Seq(Client)]
    BY DEF IInv, TypeOK
  <2> HIDE DEF more, S
  <2>4. ASSUME NEW o \in Object
        PROVE  /\ object_get_requests[o] \o more(o) \in Seq(Client)
               /\ Elements(object_get_requests[o] \o more(o)) =
                    Elements(object_get_requests[o]) \cup Elements(more(o))
    BY <2>2, <2>3, ConcatElements
  <2> QED BY SMTT(30), <1>2, <2>1, <2>2, <2>3, <2>4 DEF Waiting
<1>s. Sealed \subseteq DOMAIN objects
  BY SMTT(30) DEF Sealed
<1>r. req \in GetRequest
  BY <1>2 DEF GetRequest
<1>f. req.object_ids = ids /\ req.satisfied = S
  BY SMTT(30)
<1> HIDE DEF S, req
<1>3. /\ DOMAIN objects' = DOMAIN objects /\ Sealed' = Sealed
      /\ \A o \in DOMAIN objects :
           /\ objects'[o] \in ObjectTableEntry
           /\ objects'[o].clients =
                IF o \in S THEN objects[o].clients \cup {c}
                ELSE objects[o].clients
      /\ released_objects' \in Seq(Object)
      /\ LRUExact'
      /\ UNCHANGED memory_used
  <2>1. ~aborted /\ ~aborted' /\ add_client_to_object_clients({c}, S)
    BY <1>1
  <2>2. S \in SUBSET Sealed
    BY <1>2
  <2> QED BY Zenon, <2>1, <2>2, AddClient
<1>4. TypeOK'
  BY Zenon, <1>1, <1>3, <1>q, <1>r
     DEF IInv, TypeOK, notificationVars, clientVars
<1>5. HeldObjectsPinned'
  <2>1. ASSUME NEW e \in Client, NEW o \in writing[e]
        PROVE  o \in DOMAIN objects \ Sealed /\ objects'[o].clients = {e}
    BY Zenon, <1>1, <1>2, <1>3 DEF IInv, HeldObjectsPinned
  <2>2. ASSUME NEW e \in Client, NEW o \in holding[e]
        PROVE  o \in Sealed /\ e \in objects'[o].clients
    BY ZenonT(60), <1>1, <1>3, <1>s DEF IInv, HeldObjectsPinned
  <2> QED BY Zenon, <1>1, <1>3, <2>1, <2>2 DEF HeldObjectsPinned, clientVars
<1>6. WaitQueuesExact'
  <2> SUFFICES ASSUME NEW o \in Object
               PROVE  /\ Waiting(o)' =
                           {d \in DOMAIN get_requests' :
                              /\ o \in Elements(get_requests'[d].object_ids)
                              /\ o \notin get_requests'[d].satisfied}
                      /\ Waiting(o)' # {} => o \notin Sealed'
    BY SMTT(30) DEF WaitQueuesExact
  <2>1. /\ Waiting(o) = {d \in DOMAIN get_requests :
                           /\ o \in Elements(get_requests[d].object_ids)
                           /\ o \notin get_requests[d].satisfied}
        /\ Waiting(o) # {} => o \notin Sealed
    BY <1>1 DEF IInv, WaitQueuesExact
  <2>2. Waiting(o)' =
          Waiting(o) \cup IF o \in Elements(ids) \ Sealed THEN {c} ELSE {}
    BY <1>q
  <2>3. o \in Elements(ids) /\ o \notin S <=> o \in Elements(ids) \ Sealed
    BY SMTT(30), <1>2
  <2> QED BY SMTT(30), <1>1, <1>3, <1>f, <2>1, <2>2, <2>3
<1>7. RequestsPinned'
  <2>1. ASSUME NEW d \in DOMAIN get_requests
        PROVE  /\ clients[d] # "new"
               /\ clients[d] = "open" =>
                    \A o \in get_requests[d].satisfied :
                      o \in Sealed /\ d \in objects'[o].clients
    BY Zenon, <1>1, <1>3, <1>s DEF IInv, RequestsPinned
  <2>2. \A o \in S : o \in Sealed /\ c \in objects'[o].clients
    BY ZenonT(60), <1>2, <1>3, <1>s
  <2>3. /\ DOMAIN get_requests' = DOMAIN get_requests \cup {c}
        /\ get_requests'[c].satisfied = S
        /\ \A d \in DOMAIN get_requests : get_requests'[d] = get_requests[d]
        /\ clients' = clients
    BY SMTT(30), <1>1, <1>f DEF clientVars
  <2> QED BY SMTT(30), <1>1, <1>3, <2>1, <2>2, <2>3 DEF RequestsPinned
<1>8. CreatesAbsent' /\ MemoryUsedBounded'
  BY <1>1, <1>3 DEF IInv, CreatesAbsent, MemoryUsedBounded
<1> QED BY SMTT(30), <1>3, <1>4, <1>5, <1>6, <1>7, <1>8 DEF IInv

(* Answering requests: the queues lose the answered clients. *)
LEMMA ReturnFromGet ==
  ASSUME NEW reqs, NEW R, NEW waiting \in [Object -> Seq(Client)],
         return_from_get(reqs, R, waiting)
  PROVE  /\ object_get_requests' \in [Object -> Seq(Client)]
         /\ \A o \in Object : Waiting(o)' = Elements(waiting[o]) \ R
BY WithoutSeq DEF return_from_get, Waiting

(* A get runs out of time. *)
LEMMA TimeoutInv ==
  ASSUME IInv, NEW c \in Client, get_timeout_handler(c)
  PROVE  IInv'
<1>1. /\ ~aborted /\ c \in DOMAIN get_requests
      /\ get_requests' = [d \in DOMAIN get_requests \ {c} |-> get_requests[d]]
      /\ holding' = Given(get_requests, {c})
      /\ UNCHANGED <<tableVars, notificationVars, clients, writing, creating>>
  BY DEF get_timeout_handler, Idle, return_from_get
<1>2. /\ object_get_requests' \in [Object -> Seq(Client)]
      /\ \A o \in Object : Waiting(o)' = Waiting(o) \ {c}
  BY ZenonT(60), ReturnFromGet DEF get_timeout_handler, IInv, TypeOK, Waiting
<1>3. \A d \in Client :
        holding'[d] = IF d = c /\ clients[c] = "open"
                      THEN holding[d] \cup get_requests[c].satisfied
                      ELSE holding[d]
  BY SMTT(30), <1>1 DEF Given
<1>4. get_requests[c].satisfied \subseteq Object
  BY SMTT(30), <1>1 DEF IInv, TypeOK, GetRequest
<1>5. holding' \in [Client -> SUBSET Object]
  BY SMTT(30), <1>1, <1>3, <1>4 DEF Given, IInv, TypeOK
<1>6. TypeOK'
  BY ZenonT(60), <1>1, <1>2, <1>5 DEF IInv, TypeOK, tableVars, notificationVars
<1>7. HeldObjectsPinned'
  <2>1. UNCHANGED <<objects, aborted, writing, clients>> /\ Sealed' = Sealed
    BY <1>1 DEF tableVars, notificationVars, Sealed
  <2>2. ASSUME NEW d \in Client, NEW o \in holding'[d]
        PROVE  o \in Sealed /\ d \in objects[o].clients
    <3>1. CASE o \in holding[d]
      BY SMTT(30), <1>1, <3>1 DEF IInv, HeldObjectsPinned
    <3>2. CASE d = c /\ clients[c] = "open" /\ o \in get_requests[c].satisfied
      BY SMTT(30), <1>1, <3>2 DEF IInv, RequestsPinned
    <3> QED BY ZenonT(60), <1>3, <2>2, <3>1, <3>2
  <2>3. ASSUME NEW d \in Client, NEW o \in writing[d]
        PROVE  o \in DOMAIN objects \ Sealed /\ objects[o].clients = {d}
    BY SMTT(30), <1>1 DEF IInv, HeldObjectsPinned
  <2> QED BY SMTT(30), <2>1, <2>2, <2>3 DEF HeldObjectsPinned
<1>8. WaitQueuesExact'
  BY SMTT(30), <1>1, <1>2
     DEF IInv, WaitQueuesExact, tableVars, notificationVars, Sealed
<1>9. LRUExact' /\ RequestsPinned' /\ CreatesAbsent' /\ MemoryUsedBounded'
  BY <1>1 DEF IInv, LRUExact, RequestsPinned, CreatesAbsent, MemoryUsedBounded,
              tableVars, notificationVars, Sealed
<1> QED BY <1>6, <1>7, <1>8, <1>9 DEF IInv

(* What sealing o does to the requests that wait for it. *)
LEMMA ServedFacts ==
  ASSUME IInv, ~aborted, NEW o \in Object
  PROVE  /\ DOMAIN Served(o) = DOMAIN get_requests
         /\ Waiting(o) \subseteq DOMAIN get_requests
         /\ Completed(o) \subseteq Waiting(o)
         /\ \A d \in DOMAIN get_requests :
              /\ Served(o)[d] \in GetRequest
              /\ Served(o)[d].object_ids = get_requests[d].object_ids
              /\ Served(o)[d].satisfied =
                   get_requests[d].satisfied
                     \cup IF d \in Waiting(o) THEN {o} ELSE {}
<1>1. Waiting(o) \subseteq DOMAIN get_requests
  BY DEF IInv, WaitQueuesExact
<1>2. \A d : Occurrences(object_get_requests[o], d) \in Nat
  BY SMTT(30), OccurrencesFacts DEF IInv, TypeOK
<1>3. ASSUME NEW d \in DOMAIN get_requests
      PROVE  /\ Served(o)[d] \in GetRequest
             /\ Served(o)[d].object_ids = get_requests[d].object_ids
             /\ Served(o)[d].satisfied =
                  get_requests[d].satisfied
                    \cup IF d \in Waiting(o) THEN {o} ELSE {}
  <2>1. get_requests[d] \in GetRequest
    BY DEF IInv, TypeOK
  <2> DEFINE e == get_requests[d]
             k == Occurrences(object_get_requests[o], d)
  <2>2. Served(o)[d] = IF d \in Waiting(o)
                       THEN [e EXCEPT !.satisfied = @ \cup {o},
                                      !.num_satisfied = @ + k]
                       ELSE e
    BY DEF Served
  <2>3. k \in Nat
    BY <1>2
  <2> HIDE DEF k, e
  <2>4. e \in GetRequest
    BY <2>1 DEF e
  <2>5. ASSUME NEW S \in SUBSET Object, NEW n \in Nat
        PROVE  LET f == [e EXCEPT !.satisfied = S, !.num_satisfied = n]
               IN  /\ f \in GetRequest
                   /\ f.object_ids = e.object_ids /\ f.satisfied = S
    BY Zenon, <2>4 DEF GetRequest
  <2>6. e.satisfied \cup {o} \in SUBSET Object /\ e.num_satisfied + k \in Nat
    BY <2>3, <2>4 DEF GetRequest
  <2> DEFINE f == [e EXCEPT !.satisfied = e.satisfied \cup {o},
                            !.num_satisfied = e.num_satisfied + k]
  <2>7. /\ f \in GetRequest
        /\ f.object_ids = e.object_ids /\ f.satisfied = e.satisfied \cup {o}
    BY Zenon, <2>5, <2>6
  <2>8. Served(o)[d] = IF d \in Waiting(o) THEN f ELSE e
    BY <2>2
  <2> HIDE DEF f
  <2>9. /\ Served(o)[d] \in GetRequest
        /\ Served(o)[d].object_ids = e.object_ids
        /\ Served(o)[d].satisfied =
             e.satisfied \cup IF d \in Waiting(o) THEN {o} ELSE {}
    BY <2>4, <2>7, <2>8
  <2> QED BY <2>9 DEF e
<1> QED BY Zenon, <1>1, <1>3 DEF Served, Completed

(* An object is sealed. *)
LEMMA SealInv ==
  ASSUME IInv, NEW c \in Client, NEW o \in Object, seal_object(c, o)
  PROVE  IInv'
<1> DEFINE W == Waiting(o)
           R == Completed(o)
<1>1. ~aborted /\ o \in writing[c] /\ UNCHANGED <<memory_used, clients, creating>>
  BY Zenon DEF seal_object, MayRequest, Idle
<1>2. o \in DOMAIN objects /\ o \notin Sealed /\ objects[o].clients = {c}
  BY <1>1 DEF IInv, HeldObjectsPinned
<1>3. W \subseteq DOMAIN get_requests /\ W \subseteq Client /\ R \subseteq W
  BY ZenonT(60), <1>1, ServedFacts DEF IInv, TypeOK
<1>4. /\ DOMAIN objects' = DOMAIN objects
      /\ \A x \in DOMAIN objects :
           /\ objects'[x] \in ObjectTableEntry
           /\ objects'[x].clients =
                objects[x].clients \cup IF x = o THEN W ELSE {}
      /\ Sealed' = Sealed \cup {o}
  <2>1. \A x \in DOMAIN objects : objects[x] \in ObjectTableEntry
    BY DEF IInv, TypeOK
  <2>2. objects' = [x \in DOMAIN objects |->
                      IF x = o
                      THEN [objects[x] EXCEPT !.state = "sealed",
                                              !.clients = @ \cup W]
                      ELSE objects[x]]
    BY Zenon DEF seal_object
  <2> HIDE DEF W
  <2>3. /\ DOMAIN objects' = DOMAIN objects
        /\ \A x \in DOMAIN objects :
           /\ objects'[x] \in ObjectTableEntry
           /\ objects'[x].state = IF x = o THEN "sealed" ELSE objects[x].state
           /\ objects'[x].clients =
                objects[x].clients \cup IF x = o THEN W ELSE {}
    BY Zenon, <1>3, <2>1, <2>2 DEF ObjectTableEntry
  <2> QED BY SMTT(30), <1>2, <2>3 DEF Sealed
<1>5. released_objects' \in Seq(Object) /\ LRUExact'
  <2>1. {x \in {o} \cap DOMAIN objects : W # {} /\ objects[x].clients = {}} = {}
    BY <1>2
  <2>2. released_objects' = Without(released_objects, {})
    BY ZenonT(60), <2>1 DEF seal_object, EvictionState_begin_object_access
  <2>3. /\ released_objects \in Seq(Object)
        /\ Elements(released_objects) =
             {x \in DOMAIN objects : objects[x].clients = {}}
        /\ Injective(released_objects)
    BY ZenonT(60), <1>1 DEF IInv, TypeOK, LRUExact
  <2>4. /\ released_objects' \in Seq(Object)
        /\ Elements(released_objects') = Elements(released_objects)
        /\ Injective(released_objects')
    BY SMTT(30), <2>2, <2>3, WithoutSeq
  <2>5. \A x \in DOMAIN objects :
          objects'[x].clients = {} <=> objects[x].clients = {}
    BY <1>2, <1>4
  <2> QED BY ZenonT(60), <1>4, <2>3, <2>4, <2>5 DEF LRUExact
<1>6. NotificationsTyped' /\ aborted' \in BOOLEAN
  <2>1. <<Added(o)>> \in Seq(Notification)
    BY DEF Added, Notification
  <2>2. NotificationsTyped
    BY DEF IInv, TypeOK, NotificationsTyped
  <2>3. push_notification(DOMAIN pending_notifications, <<Added(o)>>)
    BY ZenonT(60) DEF seal_object
  <2>4. NotificationsTyped'
    BY Zenon, <2>1, <2>2, <2>3, PushType DEF NotificationsTyped
  <2> QED BY Zenon, <2>4 DEF seal_object, Aborts
<1>7. /\ DOMAIN get_requests' = DOMAIN get_requests \ R
      /\ \A d \in DOMAIN get_requests' :
           /\ get_requests'[d] \in GetRequest
           /\ get_requests'[d].object_ids = get_requests[d].object_ids
           /\ get_requests'[d].satisfied =
                get_requests[d].satisfied \cup IF d \in W THEN {o} ELSE {}
  <2>1. get_requests' = [d \in DOMAIN Served(o) \ R |-> Served(o)[d]]
    BY Zenon DEF seal_object, update_object_get_requests, return_from_get
  <2> HIDE DEF R
  <2> QED BY Zenon, <1>1, <2>1, ServedFacts
<1>8. /\ object_get_requests' \in [Object -> Seq(Client)]
      /\ \A x \in Object : Waiting(x)' = IF x = o THEN {} ELSE Waiting(x) \ R
  <2> DEFINE waiting == [object_get_requests EXCEPT ![o] = << >>]
  <2>1. waiting \in [Object -> Seq(Client)]
    BY DEF IInv, TypeOK
  <2>2. return_from_get(Served(o), R, waiting)
    BY Zenon DEF seal_object, update_object_get_requests
  <2>3. \A x \in Object :
          Elements(waiting[x]) = IF x = o THEN {} ELSE Waiting(x)
    BY SMTT(30) DEF Elements, Waiting, IInv, TypeOK
  <2> HIDE DEF waiting, R
  <2> QED BY SMTT(30), <2>1, <2>2, <2>3, ReturnFromGet
<1>9. /\ holding' \in [Client -> SUBSET Object]
      /\ \A d \in Client : \A x \in holding'[d] :
           \/ x \in holding[d]
           \/ d = c /\ x = o
           \/ d \in R /\ clients[d] = "open" /\ x \in get_requests[d].satisfied
           \/ d \in R /\ x = o
  <2> DEFINE given == Given(Served(o), R)
  <2>1. holding' = [given EXCEPT ![c] = @ \cup {o}]
    BY Zenon DEF seal_object
  <2>2. holding \in [Client -> SUBSET Object]
    BY SMTT(30) DEF IInv, TypeOK
  <2>3. ASSUME NEW d \in R
        PROVE  /\ Served(o)[d].satisfied \subseteq get_requests[d].satisfied \cup {o}
               /\ Served(o)[d].satisfied \subseteq Object
    BY SMTT(30), <1>1, <1>3, ServedFacts DEF GetRequest
  <2>4. given = [d \in Client |-> IF d \in R /\ clients[d] = "open"
                                  THEN holding[d] \cup Served(o)[d].satisfied
                                  ELSE holding[d]]
    BY DEF Given
  <2> HIDE DEF given, R
  <2> QED BY <2>1, <2>2, <2>3, <2>4
<1> HIDE DEF W, R
<1>10. TypeOK'
  BY ZenonT(60), <1>1, <1>4, <1>5, <1>6, <1>7, <1>8, <1>9
     DEF IInv, TypeOK, NotificationsTyped, seal_object
<1>s. Sealed \subseteq DOMAIN objects
  BY SMTT(30) DEF Sealed
<1>11. ASSUME NEW d \in DOMAIN get_requests, clients[d] = "open",
              NEW x \in get_requests[d].satisfied
       PROVE  x \in Sealed /\ d \in objects'[x].clients
  BY SMTT(30), <1>1, <1>4, <1>11, <1>s DEF IInv, RequestsPinned
<1>12. HeldObjectsPinned'
  <2>1. ASSUME NEW d \in Client, NEW x \in holding'[d]
        PROVE  x \in Sealed' /\ d \in objects'[x].clients
    <3>1. CASE x \in holding[d]
      BY SMTT(30), <1>1, <1>4, <1>s, <3>1 DEF IInv, HeldObjectsPinned
    <3>2. CASE x = o /\ (d = c \/ d \in R)
      BY SMTT(30), <1>2, <1>3, <1>4, <3>2
    <3>3. CASE d \in R /\ clients[d] = "open" /\ x \in get_requests[d].satisfied
      BY SMTT(30), <1>3, <1>4, <1>11, <3>3
    <3> QED BY SMTT(30), <1>9, <2>1, <3>1, <3>2, <3>3
  <2>2. ASSUME NEW d \in Client, NEW x \in writing'[d]
        PROVE  x \in DOMAIN objects' \ Sealed' /\ objects'[x].clients = {d}
    <3>1. writing' = [writing EXCEPT ![c] = @ \ {o}]
          /\ writing \in [Client -> SUBSET Object]
      BY Zenon DEF seal_object, IInv, TypeOK
    <3>2. /\ x \in writing[d] /\ (d = c => x # o)
          /\ x \in DOMAIN objects \ Sealed /\ objects[x].clients = {d}
      BY SMTT(30), <1>1, <2>2, <3>1 DEF IInv, HeldObjectsPinned
    <3>3. x # o
      BY SMTT(30), <1>2, <3>2
    <3> QED BY <1>4, <3>2, <3>3
  <2> QED BY SMTT(30), <2>1, <2>2 DEF HeldObjectsPinned
<1>13. WaitQueuesExact'
  <2> SUFFICES ASSUME NEW x \in Object
               PROVE  /\ Waiting(x)' =
                           {d \in DOMAIN get_requests' :
                              /\ x \in Elements(get_requests'[d].object_ids)
                              /\ x \notin get_requests'[d].satisfied}
                      /\ Waiting(x)' # {} => x \notin Sealed'
    BY SMTT(30) DEF WaitQueuesExact
  <2>1. /\ Waiting(x) = {d \in DOMAIN get_requests :
                           /\ x \in Elements(get_requests[d].object_ids)
                           /\ x \notin get_requests[d].satisfied}
        /\ Waiting(x) # {} => x \notin Sealed
    BY SMTT(30), <1>1 DEF IInv, WaitQueuesExact
  <2>2. CASE x = o
    BY SMTT(30), <1>7, <1>8, <2>1, <2>2 DEF W
  <2>3. CASE x # o
    <3>1. \A d \in DOMAIN get_requests' :
            /\ x \in get_requests'[d].satisfied
                 <=> x \in get_requests[d].satisfied
            /\ get_requests'[d].object_ids = get_requests[d].object_ids
      BY SMTT(30), <1>7, <2>3
    <3>2. /\ Waiting(x)' = Waiting(x) \ R
          /\ DOMAIN get_requests' = DOMAIN get_requests \ R
          /\ x \in Sealed' <=> x \in Sealed
      BY SMTT(30), <1>4, <1>7, <1>8, <2>3
    <3> QED BY SMTT(30), <2>1, <3>1, <3>2
  <2> QED BY SMTT(30), <2>2, <2>3
<1>14. RequestsPinned'
  <2> SUFFICES ASSUME ~aborted', NEW d \in DOMAIN get_requests'
               PROVE  /\ clients'[d] # "new"
                      /\ clients'[d] = "open" =>
                           \A x \in get_requests'[d].satisfied :
                             x \in Sealed' /\ d \in objects'[x].clients
    BY SMTT(30) DEF RequestsPinned
  <2>1. d \in DOMAIN get_requests /\ clients[d] # "new" /\ clients' = clients
    BY SMTT(30), <1>1, <1>7 DEF IInv, RequestsPinned
  <2>2. ASSUME clients[d] = "open", NEW x \in get_requests'[d].satisfied
        PROVE  x \in Sealed' /\ d \in objects'[x].clients
    <3>1. CASE x \in get_requests[d].satisfied
      BY ZenonT(60), <1>4, <1>11, <2>1, <2>2, <3>1
    <3>2. CASE x = o /\ d \in W
      BY SMTT(30), <1>2, <1>4, <3>2
    <3> QED BY <1>7, <2>2, <3>1, <3>2
  <2> QED BY SMTT(30), <2>1, <2>2
<1>15. CreatesAbsent' /\ MemoryUsedBounded'
  BY SMTT(30), <1>1, <1>4 DEF IInv, CreatesAbsent, MemoryUsedBounded
<1> QED BY <1>5, <1>10, <1>12, <1>13, <1>14, <1>15 DEF IInv

(* A client releases an object. *)
LEMMA ReleaseInv ==
  ASSUME IInv, NEW c \in Client, NEW o \in Object, release_object(c, o)
  PROVE  IInv'
<1>1. /\ ~aborted /\ o \in holding[c] /\ c \notin DOMAIN get_requests
      /\ holding' = [holding EXCEPT ![c] = @ \ {o}]
      /\ UNCHANGED <<memory_used, pending_notifications, view, broken, clients,
                     writing, creating, getVars>>
  BY SMTT(30) DEF release_object, MayRequest, Idle
<1>2. o \in Sealed /\ o \in DOMAIN objects /\ c \in objects[o].clients
  BY <1>1 DEF IInv, HeldObjectsPinned, Sealed
<1>3. aborted' = FALSE
  BY ZenonT(60), <1>2 DEF release_object, Aborts
<1>4. /\ DOMAIN objects' = DOMAIN objects
      /\ \A x \in DOMAIN objects :
           /\ objects'[x] \in ObjectTableEntry
           /\ objects'[x].clients =
                objects[x].clients \ IF x = o THEN {c} ELSE {}
      /\ Sealed' = Sealed
  <2>1. \A x \in DOMAIN objects : objects[x] \in ObjectTableEntry
    BY DEF IInv, TypeOK
  <2>2. /\ DOMAIN objects' = DOMAIN objects
        /\ \A x \in DOMAIN objects :
             /\ objects'[x] \in ObjectTableEntry
             /\ objects'[x].state = objects[x].state
             /\ objects'[x].clients =
                  objects[x].clients \ IF x = o THEN {c} ELSE {}
    BY SMTT(30), <2>1 DEF release_object, ObjectTableEntry
  <2> QED BY <2>2 DEF Sealed
<1>5. released_objects' \in Seq(Object) /\ LRUExact'
  <2> DEFINE last == IF objects[o].clients = {c} THEN <<o>> ELSE << >>
  <2>1. released_objects' = released_objects \o last
    BY <1>2 DEF release_object, EvictionState_end_object_access
  <2>2. /\ last \in Seq(Object) /\ Injective(last)
        /\ Elements(last) = IF objects[o].clients = {c} THEN {o} ELSE {}
    BY DEF Injective, Elements
  <2>3. /\ released_objects \in Seq(Object)
        /\ Elements(released_objects) =
             {x \in DOMAIN objects : objects[x].clients = {}}
        /\ Injective(released_objects)
    BY ZenonT(60), <1>1 DEF IInv, TypeOK, LRUExact
  <2> HIDE DEF last
  <2>4. Elements(released_objects) \cap Elements(last) = {}
    BY SMTT(30), <1>2, <2>2, <2>3
  <2>5. /\ released_objects' \in Seq(Object)
        /\ Elements(released_objects') =
             Elements(released_objects) \cup Elements(last)
        /\ Injective(released_objects')
    BY SMTT(30), <2>1, <2>2, <2>3, <2>4, ConcatElements
  <2>6. Elements(released_objects') =
          {x \in DOMAIN objects' : objects'[x].clients = {}}
    BY SMTT(30), <1>2, <1>4, <2>2, <2>3, <2>5
  <2> QED BY <2>5, <2>6 DEF LRUExact
<1>6. TypeOK'
  <2>1. holding' \in [Client -> SUBSET Object]
    BY SMTT(30), <1>1 DEF IInv, TypeOK
  <2> QED BY ZenonT(60), <1>1, <1>3, <1>4, <1>5, <2>1 DEF IInv, TypeOK, getVars
<1>s. Sealed \subseteq DOMAIN objects
  BY DEF Sealed
<1>7. HeldObjectsPinned'
  <2>1. ASSUME NEW d \in Client, NEW x \in holding'[d]
        PROVE  x \in Sealed /\ d \in objects'[x].clients
    <3>1. x \in holding[d] /\ (d = c => x # o)
      BY SMTT(30), <1>1, <2>1 DEF IInv, TypeOK
    <3> QED BY SMTT(30), <1>1, <1>4, <1>s, <3>1 DEF IInv, HeldObjectsPinned
  <2>2. ASSUME NEW d \in Client, NEW x \in writing[d]
        PROVE  x \in DOMAIN objects \ Sealed /\ objects'[x].clients = {d}
    BY SMTT(30), <1>1, <1>2, <1>4 DEF IInv, HeldObjectsPinned
  <2> QED BY SMTT(30), <1>1, <1>4, <2>1, <2>2 DEF HeldObjectsPinned
<1>8. WaitQueuesExact'
  BY SMTT(30), <1>1, <1>4 DEF IInv, WaitQueuesExact, getVars, Waiting
<1>9. RequestsPinned'
  BY SMTT(30), <1>1, <1>4, <1>s DEF IInv, RequestsPinned, getVars
<1>10. CreatesAbsent' /\ MemoryUsedBounded'
  BY <1>1, <1>4 DEF IInv, CreatesAbsent, MemoryUsedBounded
<1> QED BY <1>5, <1>6, <1>7, <1>8, <1>9, <1>10 DEF IInv

(* A client dies. *)
LEMMA DisconnectInv ==
  ASSUME IInv, NEW c \in Client, disconnect_client(c)
  PROVE  IInv'
<1>1. /\ ~aborted /\ ~aborted'
      /\ clients' = [clients EXCEPT ![c] = "dead"]
      /\ writing' = [writing EXCEPT ![c] = {}]
      /\ holding' = [holding EXCEPT ![c] = {}]
      /\ UNCHANGED <<memory_used, notificationVars, creating, getVars>>
  BY DEF disconnect_client, Idle, notificationVars
<1>2. /\ DOMAIN objects' = DOMAIN objects
      /\ \A x \in DOMAIN objects :
           /\ objects'[x] \in ObjectTableEntry
           /\ objects'[x].clients = objects[x].clients \ {c}
      /\ Sealed' = Sealed
  <2>1. \A x \in DOMAIN objects : objects[x] \in ObjectTableEntry
    BY DEF IInv, TypeOK
  <2>2. /\ DOMAIN objects' = DOMAIN objects
        /\ \A x \in DOMAIN objects :
             /\ objects'[x] \in ObjectTableEntry
             /\ objects'[x].state = objects[x].state
             /\ objects'[x].clients = objects[x].clients \ {c}
    BY <2>1 DEF disconnect_client, ObjectTableEntry
  <2> QED BY <2>2 DEF Sealed
<1>3. released_objects' \in Seq(Object) /\ LRUExact'
  <2> DEFINE own == {o \in DOMAIN objects : objects[o].clients = {c}}
  <2>1. PICK p \in Orderings(own) : released_objects' = released_objects \o p
    BY ZenonT(60) DEF disconnect_client, EvictionState_end_object_access
  <2>2. own \subseteq Object /\ IsFiniteSet(own)
    BY ObjectAssumption, FS_Subset DEF IInv, TypeOK
  <2>3. /\ released_objects \in Seq(Object)
        /\ Elements(released_objects) =
             {x \in DOMAIN objects : objects[x].clients = {}}
        /\ Injective(released_objects)
    BY ZenonT(60), <1>1 DEF IInv, TypeOK, LRUExact
  <2>4. own \cap Elements(released_objects) = {}
    BY <2>3
  <2>5. {x \in DOMAIN objects' : objects'[x].clients = {}} =
          own \cup Elements(released_objects)
    <3>1. \A x \in DOMAIN objects :
            objects'[x].clients = {}
              <=> objects[x].clients = {} \/ objects[x].clients = {c}
      BY <1>2
    <3> QED BY ZenonT(60), <1>2, <2>3, <3>1
  <2> HIDE DEF own
  <2>6. p \in Seq(own) /\ Elements(p) = own /\ Injective(p)
    BY <2>2, OrderingsSeq
  <2>7. p \in Seq(Object)
    BY <2>2, <2>6
  <2>8. /\ released_objects' \in Seq(Object)
        /\ Elements(released_objects') = Elements(released_objects) \cup own
        /\ Injective(released_objects')
    <3>1. /\ released_objects \o p \in Seq(Object)
          /\ Elements(released_objects \o p) =
               Elements(released_objects) \cup Elements(p)
          /\ Injective(released_objects \o p)
      BY <2>3, <2>4, <2>6, <2>7, ConcatElements
    <3> QED BY SMTT(30), <2>1, <2>6, <3>1
  <2> QED BY <2>5, <2>8 DEF LRUExact
<1>4. TypeOK'
  BY Zenon, <1>1, <1>2, <1>3 DEF IInv, TypeOK, getVars, notificationVars
<1>s. Sealed \subseteq DOMAIN objects
  BY SMTT(30) DEF Sealed
<1>5. HeldObjectsPinned'
  <2>0. /\ holding \in [Client -> SUBSET Object]
        /\ writing \in [Client -> SUBSET Object]
    BY SMTT(30) DEF IInv, TypeOK
  <2>1. ASSUME NEW d \in Client, NEW x \in holding'[d]
        PROVE  x \in Sealed /\ d \in objects'[x].clients
    <3>1. x \in holding[d] /\ d # c
      BY SMTT(30), <1>1, <2>0, <2>1
    <3> QED BY SMTT(30), <1>1, <1>2, <1>s, <3>1 DEF IInv, HeldObjectsPinned
  <2>2. ASSUME NEW d \in Client, NEW x \in writing'[d]
        PROVE  x \in DOMAIN objects \ Sealed /\ objects'[x].clients = {d}
    <3>1. x \in writing[d] /\ d # c
      BY SMTT(30), <1>1, <2>0, <2>2
    <3> QED BY SMTT(30), <1>1, <1>2, <3>1 DEF IInv, HeldObjectsPinned
  <2> QED BY SMTT(30), <1>2, <2>1, <2>2 DEF HeldObjectsPinned
<1>6. WaitQueuesExact'
  BY SMTT(30), <1>1, <1>2 DEF IInv, WaitQueuesExact, getVars, Waiting
<1>7. RequestsPinned'
  <2>1. clients \in [Client -> {"new", "open", "dead"}]
        /\ DOMAIN get_requests \subseteq Client
    BY SMTT(30) DEF IInv, TypeOK
  <2> QED BY SMTT(30), <1>1, <1>2, <1>s, <2>1 DEF IInv, RequestsPinned, getVars
<1>8. CreatesAbsent' /\ MemoryUsedBounded'
  BY <1>1, <1>2 DEF IInv, CreatesAbsent, MemoryUsedBounded
<1> QED BY SMTT(30), <1>3, <1>4, <1>5, <1>6, <1>7, <1>8 DEF IInv

-----------------------------------------------------------------------------
(* The store starts empty. *)
LEMMA InitInv == Init => IInv
<1> SUFFICES ASSUME Init PROVE IInv
  OBVIOUS
<1>1. /\ DOMAIN objects = {} /\ DOMAIN released_objects = {}
      /\ released_objects \in Seq(Object)
      /\ DOMAIN get_requests = {} /\ DOMAIN pending_notifications = {}
      /\ \A o \in Object : object_get_requests[o] = << >>
      /\ object_get_requests \in [Object -> Seq(Client)]
  BY SMTT(30) DEF Init, EvictionState_init, NotificationInit
<1>2. TypeOK
  <2>1. memory_used \in Int /\ broken = {} /\ creating = {}
    BY DEF Init, EvictionState_init, NotificationInit
  <2>4. aborted \in BOOLEAN
    BY Zenon DEF Init, NotificationInit
  <2>2. /\ clients \in [Client -> {"new", "open", "dead"}]
        /\ writing \in [Client -> SUBSET Object]
        /\ holding \in [Client -> SUBSET Object]
    BY DEF Init
  <2>3. view \in [Subscriber -> SUBSET Object]
    BY DEF Init, NotificationInit
  <2> QED BY SMTT(30), <1>1, <2>1, <2>2, <2>3, <2>4 DEF TypeOK
<1>3. MemoryUsedBounded
  BY CapacityAssumption DEF Init, EvictionState_init, MemoryUsedBounded
<1>4. LRUExact
  BY <1>1 DEF LRUExact, Elements, Injective
<1>5. HeldObjectsPinned
  BY SMTT(30) DEF Init, HeldObjectsPinned
<1>6. WaitQueuesExact
  BY SMTT(30), <1>1 DEF WaitQueuesExact, Waiting, Elements
<1>7. RequestsPinned /\ CreatesAbsent
  BY <1>1 DEF Init, RequestsPinned, CreatesAbsent
<1> QED BY <1>2, <1>3, <1>4, <1>5, <1>6, <1>7 DEF IInv

(* Every step preserves the invariant. *)
LEMMA NextInv == IInv /\ [Next]_vars => IInv'
<1> SUFFICES ASSUME IInv, [Next]_vars PROVE IInv'
  OBVIOUS
<1>1. CASE Create
  BY <1>1, CreateInv
<1>2. CASE CreateLoop
  BY <1>2, CreateSucceedsInv, CreateEvictsInv DEF CreateLoop
<1>3. CASE Get
  <2>1. PollLists \subseteq Seq(Object) /\ BlockingLists \subseteq Seq(Object)
    BY RequestAssumption
  <2> QED BY Zenon, <1>3, <2>1, GetReturnsInv, GetWaitsInv DEF Get
<1>4. CASE Notify
  BY <1>4, NotifyInv
<1>5. ASSUME NEW c \in Client,
             \/ new_client_connection(c)
             \/ get_timeout_handler(c)
             \/ disconnect_client(c)
             \/ \E num_bytes \in EvictSizes : evict(c, num_bytes)
             \/ \E o \in Object : seal_object(c, o) \/ release_object(c, o)
      PROVE  IInv'
  BY SMTT(30), <1>5, ConnectInv, TimeoutInv, DisconnectInv, EvictInv,
     SealInv, ReleaseInv
<1>6. CASE UNCHANGED vars
  BY ZenonT(60), <1>6
          DEF IInv, TypeOK, MemoryUsedBounded, LRUExact, HeldObjectsPinned,
              WaitQueuesExact, RequestsPinned, CreatesAbsent, vars, tableVars,
              notificationVars, clientVars, getVars, Sealed, Waiting
<1> QED BY SMTT(30), <1>1, <1>2, <1>3, <1>4, <1>5, <1>6 DEF Next

(* The inductive invariant holds throughout. *)
THEOREM Invariance == Spec => []IInv
BY InitInv, NextInv, PTL DEF Spec

(* The store's tables stay well typed. *)
THEOREM TypeCorrectness == Spec => []TypeOK
<1>1. IInv => TypeOK
  BY DEF IInv
<1> QED BY <1>1, Invariance, PTL

(* The queue of released objects lists exactly the objects nobody uses:    *)
(* the CHECKs of add_object_to_lru_cache and remove_object_from_lru_cache  *)
(* hold, and whatever is evicted is in no client's use.                    *)
THEOREM QueueExact == Spec => []LRUExact
<1>1. IInv => LRUExact
  BY DEF IInv
<1> QED BY <1>1, Invariance, PTL

(* What a live client was given, or is writing, stays in the table with    *)
(* the client among its users.                                             *)
THEOREM HeldStays == Spec => []HeldObjectsPinned
<1>1. IInv => HeldObjectsPinned
  BY DEF IInv
<1> QED BY <1>1, Invariance, PTL

(* A waiting get is queued for exactly the objects it still lacks, none of *)
(* which is sealed: seal_object wakes everyone it has to.                  *)
THEOREM NoLostWakeup == Spec => []WaitQueuesExact
<1>1. IInv => WaitQueuesExact
  BY DEF IInv
<1> QED BY <1>1, Invariance, PTL

(* The policy's account never exceeds the capacity. *)
THEOREM AccountBounded == Spec => []MemoryUsedBounded
<1>1. IInv => MemoryUsedBounded
  BY DEF IInv
<1> QED BY <1>1, Invariance, PTL

-----------------------------------------------------------------------------
(* create_object replies OutOfMemory only after the eviction policy has    *)
(* given up everything that could be evicted.                              *)
THEOREM OutOfMemoryIsLastResort == Spec => OutOfMemoryOnlyWhenExhausted
<1>1. ASSUME IInv, [Next]_vars
      PROVE  [OutOfMemoryReply /\ ~aborted' => released_objects' = << >>]_vars
  <2> SUFFICES ASSUME Next, OutOfMemoryReply, ~aborted'
               PROVE  released_objects' = << >>
    BY <1>1
  <2>1. creating # {} /\ ~Idle
    BY DEF OutOfMemoryReply, Idle
  <2>2. CreateLoop
    BY ZenonT(60), <2>1
            DEF Next, Create, create_object, Get, process_get_request_returns,
                process_get_request_waits, Notify, new_client_connection,
                get_timeout_handler, disconnect_client, evict, seal_object,
                release_object, MayRequest
  <2>3. PICK r \in creating : create_evicts(r)
    <3>1. \A r \in creating : r.object \notin DOMAIN objects'
      BY DEF OutOfMemoryReply
    <3>2. \A r \in creating : ~create_succeeds(r)
      BY Zenon, <3>1 DEF create_succeeds
    <3> QED BY <2>2, <3>2 DEF CreateLoop
  <2>4. ~RequireSpaceSucceeds(r.size)
    BY Zenon, <2>1, <2>3 DEF create_evicts, OutOfMemoryReply
  <2>5. /\ r.size \in Nat
        /\ released_objects \in Seq(Object)
        /\ memory_used \in Int /\ memory_used <= Capacity
    BY Zenon, <1>1, RequestAssumption
            DEF IInv, TypeOK, CreateRequest, MemoryUsedBounded
  <2>6. RequireSpaceEvicts(r.size) = Len(released_objects)
    BY SMTT(30), <2>4, <2>5, RequireSpace
  <2>7. released_objects' =
          SubSeq(released_objects, Len(released_objects) + 1,
                 Len(released_objects))
    BY <2>3, <2>6 DEF create_evicts, EvictionState_require_space,
                      EvictionState_choose_objects_to_evict
  <2> QED BY <2>5, <2>7
<1> QED BY <1>1, Invariance, PTL DEF Spec, OutOfMemoryOnlyWhenExhausted

-----------------------------------------------------------------------------
(* The refinement: what ObjectStore sees of the store. *)
status == [o \in Object |-> Status(o)]

(* Handlers that leave the object states alone leave status alone. *)
LEMMA SameStatus ==
  ASSUME DOMAIN objects' = DOMAIN objects,
         \A x \in DOMAIN objects : objects'[x].state = objects[x].state
  PROVE  status' = status
BY SMTT(30) DEF status, Status

(* Sealed objects are the available ones. *)
LEMMA AvailableIsSealed ==
  ASSUME IInv
  PROVE  Promise!Available = Sealed
BY SMTT(30) DEF IInv, TypeOK, Promise!Available, Status, Sealed

(* Clients only gain objects, and only sealed ones. *)
LEMMA PromiseGet ==
  ASSUME IInv, IInv', ~aborted', status' = status, writing' = writing,
         \A c \in Client : holding[c] \subseteq holding'[c]
  PROVE  Promise!Get
<1>1. \A c \in Client : holding'[c] \subseteq Sealed'
  BY Zenon DEF IInv, HeldObjectsPinned
<1>2. Promise!Available' = Sealed'
  BY ZenonT(60) DEF IInv, TypeOK, Promise!Available, Status, Sealed
<1>3. Promise!Give
  BY SMTT(30), <1>1, <1>2 DEF Promise!Give
<1>4. holding' \in [Client -> SUBSET Object]
  BY Zenon DEF IInv, TypeOK
<1> QED BY SMTT(30), <1>3, <1>4 DEF Promise!Get, status

(* Evicting is ObjectStore's Evict, unless the store aborts. *)
LEMMA PromiseEvict ==
  ASSUME IInv, ~aborted, NEW n \in 0..Len(released_objects), remove_objects(n),
         UNCHANGED <<writing, holding>>
  PROVE  Promise!Next \/ UNCHANGED Promise!vars
<1>1. CASE ~(Prefix(n) \subseteq Deletable)
  BY Zenon, <1>1 DEF remove_objects, Promise!vars, Status
<1>2. CASE Prefix(n) \subseteq Deletable
  <2>1. objects' = [o \in DOMAIN objects \ Prefix(n) |-> objects[o]]
    BY Zenon, <1>2 DEF remove_objects
  <2>2. released_objects \in Seq(Object)
    BY DEF IInv, TypeOK
  <2>3. Prefix(n) \subseteq Elements(released_objects) /\ Prefix(n) \in SUBSET Object
    BY SMTT(30), <2>2, PrefixElements
  <2>4. \A o \in Prefix(n) : objects[o].clients = {}
    BY SMTT(30), <2>3 DEF IInv, LRUExact
  <2>5. \A c \in Client : Prefix(n) \cap holding[c] = {}
    BY <2>4 DEF IInv, HeldObjectsPinned
  <2>6. Prefix(n) \subseteq Promise!Available
    BY SMTT(30), <1>2, AvailableIsSealed DEF Deletable
  <2>7. [o \in Object |-> Status(o)]' =
          [o \in Object |-> IF o \in Prefix(n) THEN "absent"
                            ELSE [x \in Object |-> Status(x)][o]]
    BY SMTT(30), <2>1 DEF Status
  <2>8. Promise!Evict(Prefix(n))
    BY SMTT(30), <2>5, <2>6, <2>7 DEF Promise!Evict
  <2> QED BY <2>3, <2>8 DEF Promise!Next
<1> QED BY <1>1, <1>2

(* A successful create is ObjectStore's Create. *)
LEMMA PromiseCreate ==
  ASSUME IInv, NEW r \in creating, create_succeeds(r)
  PROVE  Promise!Next
<1>1. /\ r.client \in Client /\ r.object \in Object
      /\ r.object \notin DOMAIN objects
  BY ZenonT(60) DEF IInv, TypeOK, CreateRequest, create_succeeds, CreatesAbsent
<1>2. /\ DOMAIN objects' = DOMAIN objects \cup {r.object}
      /\ objects'[r.object].state = "created"
      /\ \A o \in DOMAIN objects : objects'[o] = objects[o]
  BY SMTT(30), <1>1 DEF create_succeeds
<1>3. \A o \in Object : Status(o)' = IF o = r.object THEN "created" ELSE Status(o)
  BY <1>2 DEF Status
<1>4. Status(r.object) = "absent"
  BY SMTT(30), <1>1 DEF Status
<1>5. Promise!Create(r.client, r.object)
  BY Zenon, <1>1, <1>3, <1>4 DEF Promise!Create, create_succeeds
<1> QED BY <1>1, <1>5 DEF Promise!Next

(* Sealing is ObjectStore's Seal, which also serves those who wait. *)
LEMMA PromiseSeal ==
  ASSUME IInv, IInv', NEW c \in Client, NEW o \in Object, seal_object(c, o)
  PROVE  Promise!Next
<1>1. ~aborted /\ o \in writing[c] /\ writing' = [writing EXCEPT ![c] = @ \ {o}]
  BY ZenonT(60) DEF seal_object, MayRequest, Idle
<1>2. o \in DOMAIN objects
  BY Zenon, <1>1 DEF IInv, HeldObjectsPinned
<1>3. /\ DOMAIN objects' = DOMAIN objects
      /\ \A x \in DOMAIN objects :
           objects'[x].state = IF x = o THEN "sealed" ELSE objects[x].state
  <2>1. \A x \in DOMAIN objects : objects[x] \in ObjectTableEntry
    BY Zenon DEF IInv, TypeOK
  <2>2. objects' = [x \in DOMAIN objects |->
                      IF x = o
                      THEN [objects[x] EXCEPT !.state = "sealed",
                                              !.clients = @ \cup Waiting(o)]
                      ELSE objects[x]]
    BY Zenon DEF seal_object
  <2> QED BY Zenon, <2>1, <2>2 DEF ObjectTableEntry
<1>4. \A x \in Object : Status(x)' = IF x = o THEN "sealed" ELSE Status(x)
  BY <1>2, <1>3 DEF Status
<1>5. Promise!Available' = Sealed \cup {o}
  BY ZenonT(60), <1>4 DEF Promise!Available, Status, Sealed, IInv, TypeOK
<1>6. /\ holding' \in [Client -> SUBSET Object]
      /\ holding \in [Client -> SUBSET Object]
  BY Zenon DEF IInv, TypeOK
<1>7. \A d \in Client :
        /\ holding[d] \subseteq holding'[d]
        /\ holding'[d] \ holding[d] \subseteq Sealed \cup {o}
        /\ d = c => o \in holding'[d]
  <2>1. holding' = [Given(Served(o), Completed(o)) EXCEPT ![c] = @ \cup {o}]
    BY ZenonT(60) DEF seal_object
  <2>2. \A d \in Completed(o) : d \in DOMAIN get_requests
          /\ Served(o)[d].satisfied \subseteq get_requests[d].satisfied \cup {o}
    BY <1>1, ServedFacts
  <2>3. \A d \in Completed(o) :
          clients[d] = "open" => Served(o)[d].satisfied \subseteq Sealed \cup {o}
    BY ZenonT(60), <1>1, <2>2 DEF IInv, RequestsPinned
  <2> DEFINE R == Completed(o)
             sat(d) == Served(o)[d].satisfied
  <2>4. Given(Served(o), R) =
          [d \in Client |-> IF d \in R /\ clients[d] = "open"
                            THEN holding[d] \cup sat(d) ELSE holding[d]]
    BY SMTT(30) DEF Given
  <2>5. \A d \in R : clients[d] = "open" => sat(d) \subseteq Sealed \cup {o}
    BY <2>3
  <2>6. holding' = [Given(Served(o), R) EXCEPT ![c] = @ \cup {o}]
    BY SMTT(30), <2>1
  <2> HIDE DEF R, sat
  <2> QED BY <2>4, <2>5, <2>6
<1>8. Promise!Give
  BY SMTT(30), <1>5, <1>7 DEF Promise!Give
<1>9. Promise!Seal(c, o)
  BY ZenonT(60), <1>1, <1>4, <1>6, <1>7, <1>8 DEF Promise!Seal
<1> QED BY <1>9 DEF Promise!Next

(* Every step of the store is a step of ObjectStore, or leaves what it     *)
(* sees unchanged.                                                         *)
LEMMA PromiseStep ==
  ASSUME IInv, IInv', [Next]_vars
  PROVE  [Promise!Next]_(Promise!vars)
<1>0. /\ \A x \in DOMAIN objects : objects[x] \in ObjectTableEntry
      /\ released_objects \in Seq(Object)
      /\ holding \in [Client -> SUBSET Object]
      /\ writing \in [Client -> SUBSET Object]
  BY Zenon DEF IInv, TypeOK
<1>1. CASE UNCHANGED <<status, writing, holding>>
  BY <1>1 DEF Promise!vars, status
<1>2. CASE UNCHANGED vars \/ Create \/ Notify
           \/ (\E c \in Client : new_client_connection(c))
  <2>1. UNCHANGED <<objects, writing, holding>>
    BY <1>2 DEF vars, tableVars, clientVars, Create, create_object, Notify,
                new_client_connection
  <2>2. status' = status
    BY <2>1 DEF status, Status
  <2> QED BY SMTT(30), <1>1, <2>1, <2>2
<1>3. CASE CreateLoop
  <2>1. PICK r \in creating : create_succeeds(r) \/ create_evicts(r)
    BY <1>3 DEF CreateLoop
  <2>2. CASE create_succeeds(r)
    BY <2>2, PromiseCreate
  <2>3. CASE create_evicts(r)
    <3>1. /\ r.size \in Nat /\ memory_used \in Int /\ memory_used <= Capacity
      BY Zenon, RequestAssumption DEF IInv, TypeOK, CreateRequest, MemoryUsedBounded
    <3>2. RequireSpaceEvicts(r.size) \in 0..Len(released_objects)
      BY Zenon, <1>0, <3>1, RequireSpace
    <3>3. /\ ~aborted /\ remove_objects(RequireSpaceEvicts(r.size))
          /\ UNCHANGED <<writing, holding>>
      BY <2>3 DEF create_evicts, clientVars
    <3> QED BY SMTT(30), <3>2, <3>3, PromiseEvict
  <2> QED BY <2>1, <2>2, <2>3
<1>4. CASE Get
  <2>1. PICK c \in Client, ids \in Seq(Object) :
          \/ \E poll \in BOOLEAN : process_get_request_returns(c, ids, poll)
          \/ \E timer \in BOOLEAN : process_get_request_waits(c, ids, timer)
    BY Zenon, <1>4, RequestAssumption DEF Get
  <2>2. /\ add_client_to_object_clients({c}, SealedIds(ids))
        /\ writing' = writing /\ aborted' = aborted /\ ~aborted
    BY Zenon, <2>1 DEF process_get_request_returns, process_get_request_waits,
                clientVars, notificationVars, MayRequest, Idle
  <2>3. status' = status
    <3>1. /\ DOMAIN objects' = DOMAIN objects
          /\ \A x \in DOMAIN objects : objects'[x].state = objects[x].state
      BY <1>0, <2>2 DEF add_client_to_object_clients, ObjectTableEntry
    <3> QED BY <3>1, SameStatus
  <2>4. CASE \E timer \in BOOLEAN : process_get_request_waits(c, ids, timer)
    BY Zenon, <1>1, <2>2, <2>3, <2>4 DEF process_get_request_waits, clientVars
  <2>5. CASE \E poll \in BOOLEAN : process_get_request_returns(c, ids, poll)
    <3>1. \A d \in Client : holding[d] \subseteq holding'[d]
      BY <1>0, <2>5 DEF process_get_request_returns
    <3> QED BY ZenonT(60), <2>2, <2>3, <3>1, PromiseGet DEF Promise!Next
  <2> QED BY <2>1, <2>4, <2>5
<1>5. ASSUME NEW c \in Client, get_timeout_handler(c)
      PROVE  Promise!Next
  <2>1. /\ UNCHANGED <<objects, writing, aborted>> /\ ~aborted
        /\ holding' = Given(get_requests, {c})
    BY <1>5 DEF get_timeout_handler, tableVars, notificationVars, Idle
  <2>2. status' = status
    BY SMTT(30), <2>1 DEF status, Status
  <2>3. \A d \in Client : holding[d] \subseteq holding'[d]
    BY <2>1 DEF Given
  <2> QED BY ZenonT(60), <2>1, <2>2, <2>3, PromiseGet DEF Promise!Next
<1>6. ASSUME NEW c \in Client, disconnect_client(c)
      PROVE  Promise!Next
  <2>1. /\ DOMAIN objects' = DOMAIN objects
        /\ \A x \in DOMAIN objects : objects'[x].state = objects[x].state
    BY <1>0, <1>6 DEF disconnect_client, ObjectTableEntry
  <2>2. status' = status
    BY <2>1, SameStatus
  <2>3. Promise!Leave(c)
    BY <1>6, <2>2 DEF disconnect_client, Promise!Leave, status
  <2> QED BY <2>3 DEF Promise!Next
<1>7. ASSUME NEW c \in Client, NEW num_bytes \in EvictSizes, evict(c, num_bytes)
      PROVE  Promise!Next \/ UNCHANGED Promise!vars
  <2>1. num_bytes \in Int
    BY RequestAssumption
  <2>2. NumObjectsToEvict(num_bytes) \in 0..Len(released_objects)
    BY SMTT(30), <1>0, <2>1, NumObjectsToEvictPrefix
  <2>3. /\ ~aborted /\ remove_objects(NumObjectsToEvict(num_bytes))
        /\ UNCHANGED <<writing, holding>>
    BY <1>7 DEF evict, MayRequest, Idle, clientVars
  <2> QED BY <2>2, <2>3, PromiseEvict
<1>8. ASSUME NEW c \in Client, NEW o \in Object, release_object(c, o)
      PROVE  Promise!Next
  <2>1. /\ DOMAIN objects' = DOMAIN objects
        /\ \A x \in DOMAIN objects : objects'[x].state = objects[x].state
    BY SMTT(30), <1>0, <1>8 DEF release_object, ObjectTableEntry
  <2>2. status' = status
    BY <2>1, SameStatus
  <2>3. Promise!Release(c, o)
    BY <1>8, <2>2 DEF release_object, Promise!Release, status
  <2> QED BY <2>3 DEF Promise!Next
<1> QED BY SMTT(30), <1>2, <1>3, <1>4, <1>5, <1>6, <1>7, <1>8, PromiseSeal DEF Next

(* The plasma store implements ObjectStore: in particular only objects     *)
(* that no client holds are ever evicted, and clients are given sealed     *)
(* objects only.                                                           *)
THEOREM StoreKeepsPromise == Spec => KeepsPromise
<1>1. Init => Promise!Init
  BY DEF Init, Promise!Init, Status
<1>2. IInv /\ IInv' /\ [Next]_vars => [Promise!Next]_(Promise!vars)
  BY PromiseStep
<1> QED BY <1>1, <1>2, Invariance, PTL DEF Spec, KeepsPromise, Promise!Spec
=============================================================================
