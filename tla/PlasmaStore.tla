----------------------------- MODULE PlasmaStore -----------------------------
(***************************************************************************)
(* The plasma object store (src/plasma/plasma_store.cc) with its eviction  *)
(* policy and its notification queues.  The store is one thread that runs  *)
(* one handler after the other; every handler is an action, except that    *)
(* the allocation loop of create_object takes one step per iteration while *)
(* `creating' keeps every other handler out.                               *)
(*                                                                         *)
(* Clients are the environment: they use the client library, so that they  *)
(* seal only what they created, release only what they were given, and     *)
(* send nothing while they wait for the reply to a get.  They may die at   *)
(* any moment that MayDie allows.                                          *)
(***************************************************************************)
EXTENDS StoreNotifications

CONSTANTS
  Sizes,            \* the sizes clients ask for
  PollLists,        \* id lists of gets with timeout 0
  BlockingLists,    \* id lists of gets with another timeout
  EvictSizes,       \* arguments of the evict request
  MaxDeficit,       \* bound: no evict request once memory_used < -MaxDeficit
  Overhead,         \* bytes the allocator adds to every allocation
  Fragmentation,    \* TRUE: an allocation may fail although there is room
  MayDie,           \* when clients may die: "idle", "waiting", "writing"
  LateSubscribers,  \* TRUE: subscriptions while there are objects
  MayBreak          \* TRUE: subscribers may go away

ASSUME RequestAssumption ==
  /\ Sizes \subseteq Nat
  /\ PollLists \subseteq Seq(Object)
  /\ BlockingLists \subseteq Seq(Object)
  /\ EvictSizes \subseteq Nat
  /\ MaxDeficit \in Nat
  /\ Overhead \in Nat
  /\ Fragmentation \in BOOLEAN
  /\ LateSubscribers \in BOOLEAN
  /\ MayBreak \in BOOLEAN

VARIABLES
  clients,              \* connection -> "new", "open" or "dead"
  writing,              \* objects a client created and has not sealed
  holding,              \* sealed objects a client was given, not released
  creating,             \* the create request being served, if any
  get_requests,         \* client that waits in a get -> its request
  object_get_requests   \* object -> clients waiting for it, in order

clientVars == <<clients, writing, holding>>
tableVars == <<objects, released_objects, memory_used>>
getVars == <<get_requests, object_get_requests>>
vars == <<tableVars, notificationVars, clientVars, creating, getVars>>

-----------------------------------------------------------------------------
Sealed == {o \in DOMAIN objects : objects[o].state = "sealed"}

CreateRequest == [client : Client, object : Object, size : Sizes]

GetRequest == [object_ids : Seq(Object),
               satisfied : SUBSET Object,   \* objects filled in so far
               num_satisfied : Nat,
               timer : BOOLEAN]

num_objects_to_wait_for(ids) == Cardinality(Elements(ids))

Init ==
  /\ objects = << >>
  /\ EvictionState_init
  /\ NotificationInit
  /\ clients = [c \in Client |-> "new"]
  /\ writing = [c \in Client |-> {}]
  /\ holding = [c \in Client |-> {}]
  /\ creating = {}
  /\ get_requests = << >>
  /\ object_get_requests = [o \in Object |-> << >>]

(* The event loop is between two handlers. *)
Idle == creating = {} /\ ~aborted

MayRequest(c) == Idle /\ clients[c] = "open" /\ c \notin DOMAIN get_requests

new_client_connection(c) ==
  /\ Idle
  /\ clients[c] = "new"
  /\ clients' = [clients EXCEPT ![c] = "open"]
  /\ UNCHANGED <<tableVars, notificationVars, writing, holding, creating,
                 getVars>>

(* Mutations: the policy is not told; a client is only recorded when it is *)
(* the first.                                                              *)
add_client_KeepsLRU(C, S) ==
  /\ objects' = [o \in DOMAIN objects |->
                   IF o \in S
                   THEN [objects[o] EXCEPT !.clients = @ \cup C]
                   ELSE objects[o]]
  /\ UNCHANGED <<released_objects, memory_used>>

add_client_FirstOnly(C, S) ==
  /\ objects' = [o \in DOMAIN objects |->
                   IF o \in S /\ objects[o].clients = {}
                   THEN [objects[o] EXCEPT !.clients = C]
                   ELSE objects[o]]
  /\ EvictionState_begin_object_access(
       {o \in S : C # {} /\ objects[o].clients = {}})
  /\ UNCHANGED memory_used

(* The clients C start using the objects S; an object that nobody used     *)
(* leaves the queue of released objects.                                   *)
add_client_to_object_clients(C, S) ==
  /\ objects' = [o \in DOMAIN objects |->
                   IF o \in S
                   THEN [objects[o] EXCEPT !.clients = @ \cup C]
                   ELSE objects[o]]
  /\ EvictionState_begin_object_access(
       {o \in S : C # {} /\ objects[o].clients = {}})
  /\ UNCHANGED memory_used

-----------------------------------------------------------------------------
(* Mutation: objects are deleted without a notification. *)
remove_objects_Silent(n) ==
  /\ objects' = [o \in DOMAIN objects \ Prefix(n) |-> objects[o]]
  /\ UNCHANGED notificationVars

(* delete_object insists that what it deletes is in the table, sealed and  *)
(* used by nobody.                                                         *)
Deletable == {o \in Sealed : objects[o].clients = {}}

(* remove_objects, for the n objects the policy took from the front of its *)
(* queue.                                                                  *)
remove_objects(n) ==
  \/ /\ Prefix(n) \subseteq Deletable
     /\ objects' = [o \in DOMAIN objects \ Prefix(n) |-> objects[o]]
     /\ push_notification(DOMAIN pending_notifications,
                          [i \in 1..n |-> Deleted(released_objects[i])])
     /\ Aborts(FALSE, PushMayCrash /\ n > 0)
  \/ /\ ~(Prefix(n) \subseteq Deletable)
     /\ Aborts(TRUE, FALSE)
     /\ UNCHANGED <<objects, pending_notifications, view, broken>>

(* A create request for an id that is in the table is answered with        *)
(* ObjectExists and changes nothing.                                       *)
create_object(c, o, size) ==
  /\ MayRequest(c)
  /\ o \notin DOMAIN objects
  /\ creating' = {[client |-> c, object |-> o, size |-> size]}
  /\ UNCHANGED <<tableVars, notificationVars, clientVars, getVars>>

(* Mutation: the size of the new object is not counted. *)
HasRoom_Before(size) == Bytes(DOMAIN objects) <= Capacity

(* dlmemalign: the allocator's footprint never exceeds Capacity bytes.     *)
HasRoom(size) ==
  Bytes(DOMAIN objects) + Overhead * Cardinality(DOMAIN objects)
    + size + Overhead <= Capacity

(* Mutation: the creator is not recorded, so the object can be evicted. *)
create_succeeds_Unused(r) ==
  /\ r \in creating /\ ~aborted
  /\ HasRoom(r.size)
  /\ objects' = [o \in DOMAIN objects \cup {r.object} |->
                   IF o = r.object
                   THEN [state |-> "created", size |-> r.size, clients |-> {}]
                   ELSE objects[o]]
  /\ released_objects' = Append(released_objects, r.object)
  /\ writing' = [writing EXCEPT ![r.client] = @ \cup {r.object}]
  /\ creating' = {}
  /\ UNCHANGED <<memory_used, notificationVars, clients, holding, getVars>>

(* The allocation succeeds: the new entry goes into and out of the queue   *)
(* of released objects at once, because its creator uses it.               *)
create_succeeds(r) ==
  /\ r \in creating /\ ~aborted
  /\ HasRoom(r.size)
  /\ objects' = [o \in DOMAIN objects \cup {r.object} |->
                   IF o = r.object
                   THEN [state |-> "created", size |-> r.size,
                         clients |-> {r.client}]
                   ELSE objects[o]]
  /\ writing' = [writing EXCEPT ![r.client] = @ \cup {r.object}]
  /\ creating' = {}
  /\ UNCHANGED <<released_objects, memory_used, notificationVars, clients,
                 holding, getVars>>

(* The allocation fails: evict, then try again or reply OutOfMemory.       *)
create_evicts(r) ==
  /\ r \in creating /\ ~aborted
  /\ Fragmentation \/ ~HasRoom(r.size)
  /\ EvictionState_require_space(r.size)
  /\ remove_objects(RequireSpaceEvicts(r.size))
  /\ creating' = IF RequireSpaceSucceeds(r.size) THEN creating ELSE {}
  /\ UNCHANGED <<clientVars, getVars>>

(* The evict request, which only tests use.  It subtracts what it evicts   *)
(* from memory_used, which does not bound it below: MaxDeficit does.       *)
evict(c, num_bytes) ==
  /\ MayRequest(c)
  /\ memory_used >= -MaxDeficit
  /\ LET n == NumObjectsToEvict(num_bytes)
     IN  /\ EvictionState_choose_objects_to_evict(n, 0)
         /\ remove_objects(n)
  /\ UNCHANGED <<clientVars, creating, getVars>>

-----------------------------------------------------------------------------
(* A get whose objects are all sealed, or with timeout 0, is answered at   *)
(* once with the sealed ones.  Satisfied ids are counted per occurrence,   *)
(* the number to wait for per distinct id.                                 *)
SealedIndices(ids) == {i \in DOMAIN ids : ids[i] \in Sealed}

SealedIds(ids) == {ids[i] : i \in SealedIndices(ids)}

process_get_request_returns(c, ids, poll) ==
  /\ MayRequest(c)
  /\ poll \/ Cardinality(SealedIndices(ids)) = num_objects_to_wait_for(ids)
  /\ add_client_to_object_clients({c}, SealedIds(ids))
  /\ holding' = [holding EXCEPT ![c] = @ \cup SealedIds(ids)]
  /\ UNCHANGED <<notificationVars, clients, writing, creating, getVars>>

(* Otherwise the request is queued for every object that is not sealed,    *)
(* with a timer unless the timeout is -1.                                  *)
process_get_request_waits(c, ids, timer) ==
  /\ MayRequest(c)
  /\ Cardinality(SealedIndices(ids)) # num_objects_to_wait_for(ids)
  /\ add_client_to_object_clients({c}, SealedIds(ids))
  /\ get_requests' =
       [d \in DOMAIN get_requests \cup {c} |->
          IF d = c
          THEN [object_ids |-> ids, satisfied |-> SealedIds(ids),
                num_satisfied |-> Cardinality(SealedIndices(ids)),
                timer |-> timer]
          ELSE get_requests[d]]
  /\ object_get_requests' =
       [o \in Object |->
          IF o \in SealedIds(ids) THEN object_get_requests[o]
          ELSE object_get_requests[o] \o
                 [i \in 1..Occurrences(ids, o) |-> c]]
  /\ UNCHANGED <<notificationVars, clientVars, creating>>

(* Mutations: an answered request stays in the other objects' queues; a    *)
(* request answered by its timer reports nothing.                          *)
return_from_get_Stale(reqs, R, waiting) ==
  /\ get_requests' = [c \in DOMAIN reqs \ R |-> reqs[c]]
  /\ object_get_requests' = waiting

Given_Nothing(reqs, R) == holding

(* The requests reqs of the clients R are answered and forgotten.  The     *)
(* answer to a dead client is lost.                                        *)
return_from_get(reqs, R, waiting) ==
  /\ get_requests' = [c \in DOMAIN reqs \ R |-> reqs[c]]
  /\ object_get_requests' = [o \in Object |-> Without(waiting[o], R)]

Given(reqs, R) ==
  [c \in Client |-> IF c \in R /\ clients[c] = "open"
                   THEN holding[c] \cup reqs[c].satisfied
                   ELSE holding[c]]

(* Mutation: a request that found nothing is not answered. *)
get_timeout_OnlyIfFound(c) ==
  /\ Idle
  /\ c \in DOMAIN get_requests
  /\ get_requests[c].timer
  /\ get_requests[c].satisfied # {}
  /\ return_from_get(get_requests, {c}, object_get_requests)
  /\ holding' = Given(get_requests, {c})
  /\ UNCHANGED <<tableVars, notificationVars, clients, writing, creating>>

get_timeout_handler(c) ==
  /\ Idle
  /\ c \in DOMAIN get_requests
  /\ get_requests[c].timer
  /\ return_from_get(get_requests, {c}, object_get_requests)
  /\ holding' = Given(get_requests, {c})
  /\ UNCHANGED <<tableVars, notificationVars, clients, writing, creating>>

(* update_object_get_requests: every request that waits for o is served,   *)
(* once for each time o occurs in it.                                      *)
Waiting(o) == Elements(object_get_requests[o])

Served(o) ==
  [c \in DOMAIN get_requests |->
     IF c \in Waiting(o)
     THEN [get_requests[c] EXCEPT
             !.satisfied = @ \cup {o},
             !.num_satisfied = @ + Occurrences(object_get_requests[o], c)]
     ELSE get_requests[c]]

Remaining(req) == num_objects_to_wait_for(req.object_ids) - req.num_satisfied

(* Mutations: answered one object too early, one too late. *)
Completed_Early(o) == {c \in Waiting(o) : Remaining(Served(o)[c]) <= 1}
Completed_Late(o) == {c \in Waiting(o) : Remaining(Served(o)[c]) < 0}

(* The count is compared with the number to wait for after every single    *)
(* step of one: a request is answered when it passes that number, and not  *)
(* any more once it starts above it.                                       *)
Completed(o) ==
  {c \in Waiting(o) : /\ Remaining(get_requests[c]) > 0
                      /\ Remaining(Served(o)[c]) <= 0}

update_object_get_requests(o) ==
  return_from_get(Served(o), Completed(o),
                  [object_get_requests EXCEPT ![o] = << >>])

(* A request answered before its last occurrence was served has left the   *)
(* list the loop still walks over: the loop reads past the end.            *)
ReadsPastEnd(o) == \E c \in Completed(o) : Remaining(Served(o)[c]) < 0

seal_object(c, o) ==
  /\ MayRequest(c)
  /\ o \in writing[c]
  /\ objects' = [x \in DOMAIN objects |->
                   IF x = o
                   THEN [objects[x] EXCEPT !.state = "sealed",
                                           !.clients = @ \cup Waiting(o)]
                   ELSE objects[x]]
  /\ EvictionState_begin_object_access(
       {x \in {o} \cap DOMAIN objects :
          Waiting(o) # {} /\ objects[x].clients = {}})
  /\ push_notification(DOMAIN pending_notifications, <<Added(o)>>)
  /\ update_object_get_requests(o)
  /\ Aborts(o \notin DOMAIN objects \ Sealed, PushMayCrash \/ ReadsPastEnd(o))
  /\ writing' = [writing EXCEPT ![c] = @ \ {o}]
  /\ holding' = [Given(Served(o), Completed(o)) EXCEPT ![c] = @ \cup {o}]
  /\ UNCHANGED <<memory_used, clients, creating>>

-----------------------------------------------------------------------------
release_object(c, o) ==
  /\ MayRequest(c)
  /\ o \in holding[c]
  /\ objects' = [x \in DOMAIN objects |->
                   IF x = o THEN [objects[x] EXCEPT !.clients = @ \ {c}]
                   ELSE objects[x]]
  /\ EvictionState_end_object_access(
       IF o \in DOMAIN objects /\ objects[o].clients = {c} THEN <<o>> ELSE << >>)
  /\ Aborts(o \notin DOMAIN objects \/ c \notin objects[o].clients, FALSE)
  /\ holding' = [holding EXCEPT ![c] = @ \ {o}]
  /\ UNCHANGED <<memory_used, pending_notifications, view, broken, clients,
                 writing, creating, getVars>>

(* The situations a client may die in. *)
Situation(c) ==
  LET waits == IF c \in DOMAIN get_requests THEN {"waiting"} ELSE {}
      writes == IF writing[c] # {} THEN {"writing"} ELSE {}
  IN  IF waits \cup writes = {} THEN {"idle"} ELSE waits \cup writes

(* Mutation: only the objects that it alone uses are released. *)
disconnect_client_SharedKept(c) ==
  /\ Idle
  /\ clients[c] = "open"
  /\ Situation(c) \subseteq MayDie
  /\ objects' = [o \in DOMAIN objects |->
                   IF objects[o].clients = {c}
                   THEN [objects[o] EXCEPT !.clients = {}] ELSE objects[o]]
  /\ \E p \in Orderings({o \in DOMAIN objects : objects[o].clients = {c}}) :
       EvictionState_end_object_access(p)
  /\ clients' = [clients EXCEPT ![c] = "dead"]
  /\ writing' = [writing EXCEPT ![c] = {}]
  /\ holding' = [holding EXCEPT ![c] = {}]
  /\ UNCHANGED <<memory_used, notificationVars, creating, getVars>>

(* The client leaves the client list of every object, in the order of the  *)
(* table; its get request stays where it is.                               *)
disconnect_client(c) ==
  /\ Idle
  /\ clients[c] = "open"
  /\ Situation(c) \subseteq MayDie
  /\ objects' = [o \in DOMAIN objects |->
                   [objects[o] EXCEPT !.clients = @ \ {c}]]
  /\ \E p \in Orderings({o \in DOMAIN objects : objects[o].clients = {c}}) :
       EvictionState_end_object_access(p)
  /\ clients' = [clients EXCEPT ![c] = "dead"]
  /\ writing' = [writing EXCEPT ![c] = {}]
  /\ holding' = [holding EXCEPT ![c] = {}]
  /\ UNCHANGED <<memory_used, notificationVars, creating, getVars>>

-----------------------------------------------------------------------------
Create == \E c \in Client, o \in Object, size \in Sizes :
            create_object(c, o, size)
CreateLoop == \E r \in creating : create_succeeds(r) \/ create_evicts(r)
Get == \E c \in Client :
         \/ \E ids \in PollLists : process_get_request_returns(c, ids, TRUE)
         \/ \E ids \in BlockingLists :
              \/ process_get_request_returns(c, ids, FALSE)
              \/ \E timer \in BOOLEAN : process_get_request_waits(c, ids, timer)
Notify ==
  /\ Idle
  /\ \E s \in Subscriber :
       \/ send_notifications(s)
       \/ (LateSubscribers \/ objects = << >>) /\ subscribe_to_updates(s)
       \/ MayBreak /\ SubscriberCloses(s)
  /\ UNCHANGED <<tableVars, clientVars, creating, getVars>>

Next ==
  \/ Create
  \/ CreateLoop
  \/ Get
  \/ Notify
  \/ \E c \in Client :
       \/ new_client_connection(c)
       \/ get_timeout_handler(c)
       \/ disconnect_client(c)
       \/ \E num_bytes \in EvictSizes : evict(c, num_bytes)
       \/ \E o \in Object : seal_object(c, o) \/ release_object(c, o)

Spec == Init /\ [][Next]_vars

(* The store finishes the handler it is in.  Each round of the event loop  *)
(* runs the timers that are due and the sockets that are writable, however *)
(* many create requests it serves in between.                              *)
SendStep(s) == /\ Idle
               /\ send_notifications(s)
               /\ UNCHANGED <<tableVars, clientVars, creating, getVars>>

Fairness ==
  /\ WF_vars(CreateLoop)
  /\ \A c \in Client : SF_vars(get_timeout_handler(c))
  /\ \A s \in Subscriber : SF_vars(SendStep(s))

FairSpec == Spec /\ Fairness

-----------------------------------------------------------------------------
TypeOK ==
  /\ DOMAIN objects \subseteq Object
  /\ \A o \in DOMAIN objects : objects[o] \in ObjectTableEntry
  /\ released_objects \in Seq(Object)
  /\ memory_used \in Int
  /\ DOMAIN pending_notifications \subseteq Subscriber
  /\ \A s \in DOMAIN pending_notifications :
       pending_notifications[s] \in Seq(Notification)
  /\ view \in [Subscriber -> SUBSET Object]
  /\ broken \subseteq Subscriber
  /\ aborted \in BOOLEAN
  /\ clients \in [Client -> {"new", "open", "dead"}]
  /\ writing \in [Client -> SUBSET Object]
  /\ holding \in [Client -> SUBSET Object]
  /\ creating \subseteq CreateRequest
  /\ DOMAIN get_requests \subseteq Client
  /\ \A c \in DOMAIN get_requests : get_requests[c] \in GetRequest
  /\ object_get_requests \in [Object -> Seq(Client)]

(* The queue of released objects lists, without repetition, exactly the    *)
(* objects that no client uses: add_object_to_lru_cache and                *)
(* remove_object_from_lru_cache never fail their CHECKs, everything unused *)
(* can be evicted and nothing in use can.                                  *)
LRUExact ==
  ~aborted =>
    /\ Elements(released_objects) =
         {o \in DOMAIN objects : objects[o].clients = {}}
    /\ Injective(released_objects)

(* A live client can read what it was given (by a get, or by sealing its   *)
(* own object) and write what it created: the object is in the table, in   *)
(* the right state, and has the client in its client list, so that neither *)
(* eviction nor another client's release can take the memory away.         *)
HeldObjectsPinned ==
  ~aborted =>
    \A c \in Client :
      /\ \A o \in holding[c] : o \in Sealed /\ c \in objects[o].clients
      /\ \A o \in writing[c] :
           /\ o \in DOMAIN objects \ Sealed
           /\ objects[o].clients = {c}

(* No leaked use: the store counts a live client as a user of an object    *)
(* only while the client holds it, writes it, or waits in a get that will  *)
(* return it.                                                              *)
Awaited(c) ==
  IF c \in DOMAIN get_requests THEN get_requests[c].satisfied ELSE {}

NoLeakedUse ==
  ~aborted =>
    \A o \in DOMAIN objects : \A c \in objects[o].clients :
      clients[c] = "open" => o \in holding[c] \cup writing[c] \cup Awaited(c)

(* Everything a dead client used is released (plasma_disconnect: "The      *)
(* Plasma store will release the objects that were in use by us").         *)
DeadClientsUseNothing ==
  ~aborted => \A o \in DOMAIN objects : \A c \in objects[o].clients :
                clients[c] # "dead"

(* The policy never believes that more than the capacity is in use, which  *)
(* is what makes a failed require_space imply an empty queue.              *)
MemoryUsedBounded == memory_used <= Capacity

(* A create request is refused for lack of memory only after everything    *)
(* that could be evicted has been evicted.                                 *)
OutOfMemoryReply ==
  /\ creating # {} /\ creating' = {}
  /\ \A r \in creating : r.object \notin DOMAIN objects'

OutOfMemoryOnlyWhenExhausted ==
  [][OutOfMemoryReply /\ ~aborted' => released_objects' = << >>]_vars

(* A get that waits has something to wait for: as soon as all its objects  *)
(* are sealed it is answered.                                              *)
WaitingGetsLackAnObject ==
  ~aborted => \A c \in DOMAIN get_requests :
                clients[c] = "open" =>
                  Elements(get_requests[c].object_ids)
                    \ get_requests[c].satisfied # {}

(* A request is queued for exactly the objects it still waits for, and     *)
(* those are not sealed: no wake-up can be missed, none can come twice.    *)
WaitQueuesExact ==
  ~aborted => \A o \in Object :
    /\ Waiting(o) = {c \in DOMAIN get_requests :
                       /\ o \in Elements(get_requests[c].object_ids)
                       /\ o \notin get_requests[c].satisfied}
    /\ Waiting(o) # {} => o \notin Sealed

(* A blocking get without a timer returns every object it asked for.       *)
BlockingGetReturnsEverything ==
  [][\A c \in DOMAIN get_requests \ DOMAIN get_requests' :
       ~get_requests[c].timer /\ clients[c] = "open" =>
         Elements(get_requests[c].object_ids) \subseteq holding'[c]]_vars

(* Whatever is still queued, a subscriber that reads it all knows exactly  *)
(* the sealed objects of the store (until a subscriber goes away).         *)
SubscribersLearnTheStore ==
  ~aborted /\ broken = {} =>
              \A s \in DOMAIN pending_notifications :
                Replay(view[s], pending_notifications[s]) = Sealed

(* Additions and deletions of an object alternate in what a subscriber     *)
(* reads, as the CHECKs of handle_object_available and                     *)
(* handle_object_removed in the local scheduler demand.                    *)
NotificationsAlternate ==
  ~aborted /\ broken = {} => \A s \in DOMAIN pending_notifications :
    LET q == pending_notifications[s]
    IN  \A i \in DOMAIN q :
          q[i].is_deletion <=>
            q[i].object \in Replay(view[s], SubSeq(q, 1, i - 1))

(* The store keeps the promises of ObjectStore to its clients. *)
Status(o) == IF o \in DOMAIN objects THEN objects[o].state ELSE "absent"

Promise == INSTANCE ObjectStore
             WITH status <- [o \in Object |-> Status(o)],
                  writes <- writing, held <- holding

KeepsPromise == Promise!Spec

(* No CHECK of the store fails and nothing undefined happens. *)
NeverAborts == ~aborted

(* The allocation loop of create_object ends. *)
CreateTerminates == creating # {} ~> creating = {} \/ aborted

(* A get with a timer is answered. *)
TimedGetReturns ==
  \A c \in Client :
    (c \in DOMAIN get_requests /\ get_requests[c].timer)
      ~> (c \notin DOMAIN get_requests \/ aborted)

(* A sealed object is announced to every subscriber, unless it is deleted  *)
(* first.                                                                  *)
SealedIsAnnounced ==
  \A s \in Subscriber, o \in Object :
    (s \in DOMAIN pending_notifications /\ o \in Sealed)
      ~> (o \in view[s] \/ o \notin Sealed \/ s \in broken \/ aborted)
=============================================================================
