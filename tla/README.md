# TLA+ specification of Ray's object store and scheduler

This directory models the C++ processes of Ray (`src/src`) in TLA+, checks them
with TLC on small instances and proves properties of them with TLAPS for every
value of the constants. `PROJECT.json` lists the components, the runs, the source
lines of every definition, the hazards and the theorems.

## The system

Every node runs a *plasma store*, a *plasma manager*, a *local scheduler* and
workers. A *global scheduler* and *Redis* (with a module that keeps the object,
result and task tables) are shared. All C++ processes are single-threaded event
loops: a handler runs to its end before the next one starts. Concurrency is
between processes, through sockets and Redis publications.

| part | source | state | operations | interacts with |
|---|---|---|---|---|
| plasma store | `plasma/plasma_store.cc`, `eviction_policy.cc` | object table, users of each object, LRU queue and memory account, waiting gets, notification queues | connect, create, seal, get (polling, timed, blocking), release, evict, disconnect, subscribe, send notifications | clients; manager and local scheduler subscribe to it |
| plasma client | `plasma/plasma_client.cc` | use counts, mapped files, release history | create, seal, get, release, fetch, wait | store, manager |
| plasma manager | `plasma/plasma_manager.cc` | fetch requests, wait requests, transfer queues, copy of the store's contents | fetch, wait, data requests, chunks, timers | other managers, store, object table |
| local scheduler | `local_scheduler/*.cc` | waiting and dispatch queue, object entries, worker vectors, resources, actors, removed drivers | submit, schedule, dispatch, worker messages, notifications, reconstruction, deaths | workers, store, Redis |
| global scheduler | `global_scheduler/*.cc` | local schedulers and their load, object locations, pending tasks | place a task, heartbeats, additions and removals | Redis |
| Redis module | `common/redis_module/ray_redis_module.cc` | object, result, task and client tables | add, remove, lookup, subscribe, test-and-update | everybody |
| table clients | `common/state/*.cc` | outstanding commands with timers | issue, retry, fail, complete | Redis |
| monitor | `python/ray/monitor.py` | dead components | clean up tables | Redis |

What makes them hard: a client may die at any point of a create-seal-get-release
sequence; gets, seals, timers and evictions interleave; notifications queue up
behind slow sockets; tasks move between queues while objects come and go; workers
block, unblock and die holding resources; drivers vanish while their tasks are
queued, running or being reconstructed; reconstruction is a chain of asynchronous
steps that several parties start for the same object.

## Modules

| module | models |
|---|---|
| `Lists` | sequences as the C++ containers use them: elements, repetitions, erasure, order |
| `EvictionPolicy` | the LRU queue and memory account of `eviction_policy.cc` |
| `StoreNotifications` | subscribers, their queues and what they have learnt |
| `PlasmaStore` | the whole store, on top of the two |
| `ObjectStore` | what the store promises its clients: the abstract specification `PlasmaStore` implements |
| `LocalScheduler` | the local scheduler without actors |
| `GlobalScheduler` | the global scheduler |
| `MCPlasmaStore`, `MCLocalScheduler`, `MCGlobalScheduler` | constants for TLC |
| `EvictionPolicyProofs`, `PlasmaStoreProofs` | theorems |

Operators are named after the functions they model. One whose name ends in a
capitalised suffix after an underscore, and which is marked as a mutant, is a
plausible wrong version of the next definition; `PROJECT.json` names the property
that finds it out.

### Plasma store

`objects` is the object table (state, size, users), `released_objects` the LRU
queue (oldest first), `memory_used` the policy's account. `get_requests` and
`object_get_requests` are the waiting gets and the per-object wait queues.
`writing` and `holding` record what each client was told, independently of the
store's own user lists, so that the two can be compared. Every handler is an
action. The one exception is the allocation loop of `create_object`: each
iteration is a step (`create_evicts`, `create_succeeds`), so that its termination
can be stated, and while `creating` is non-empty every other action is disabled.

* A failing `CHECK` or undefined behaviour sets `aborted`, after which nothing
  happens; for undefined behaviour both outcomes are explored.
* The allocator is `HasRoom`: memory up to the footprint limit, with `Overhead`
  bytes per allocation; with `Fragmentation` it may also fail although there is
  room.
* `std::unordered_map` iteration order is a choice among `Orderings`.
* `seal_object` counts the ids of a waiting get one by one and compares after
  each: `Completed` answers a get when the count passes the number it waits for.
  A get that starts above that number, because it lists a sealed id too often, is
  never answered.
* `Deletable` is what `delete_object` checks. The two CHECKs inside the policy
  (an object enters the LRU queue only if it is not in it, and leaves it only if it
  is) have no abort of their own: `LRUExact`, which is proved, says that they hold.
* `MaxDeficit` is a bound of the model: no evict request is made once the account is
  so far below zero. The code has none.
* Notification sockets are local ones. They take a notification whole or not at all
  and fail only with a full buffer or a reader that is gone; other errors of `send`
  (the notification is then dropped) and partial sends (a CHECK) are left out.
* Clients are the environment. They use the client library (seal what they
  created, release what they were given, one request at a time) and die only in
  the situations `MayDie` lists.

`ObjectStore` has three variables: the status of each object and what each client
writes and holds. `KeepsPromise` is the refinement: the status is read off the
object table, the rest off `writing` and `holding`. After an abort nothing is
promised.

### Local scheduler

`pool` is the worker part of the algorithm state (the three worker vectors, the
task and resources of each worker, the free resources), `waiting_task_queue` and
`dispatch_task_queue` the two queues, `remote_objects` maps each object being
fetched to its dependent tasks (in the code: iterators into the waiting queue).
`dispatch_tasks` runs at the end of every handler that calls it, as part of the
action. `task_table` and `copies` are the parts of Redis the scheduler depends
on: the scheduling state of each task and whether the object table never heard of
an object, has copies of it, or has none left. The results of a task are in the
local store before the worker asks for the next one, but the object table learns of
them from the plasma manager, before or after that and before or after the local
scheduler is notified; `unrecorded` holds what the manager has still to record, so
that a lookup may find a finished task and no object.

Reconstruction is kept as the chain it is: `lookups` (object and result table
lookups under way), `updates` (test-and-update commands under way; Redis executes
one in one step) and `replies` (successful ones whose reply is under way).

* A worker process is started, connects, registers, then alternates between a
  task and `GetTask`; `ReconstructObject` blocks it and `NotifyUnblocked` ends
  that. A driver asks for objects too (`DriverReconstructs`) and is not blocked. The
  death of a registered worker and the handling of its disconnection
  are one step: what the scheduler does in between with the dead worker has the
  same effect as if it died a little later.
* The global scheduler is the choice between `handle_task_scheduled` and
  `RunElsewhere` for a task it was given.
* `Worker` bounds the number of processes: one more is started as `LateWorker`,
  a child that stays in `child_pids` because it is too slow to connect. The code
  has no such limit.
* The CHECKs at the start of `handle_object_available` and `handle_object_removed`
  are guards: that additions and deletions alternate is a property of the store
  (`NotificationsAlternate`), which holds as long as nobody subscribes late.
* `Failures` says what may happen in a run: "worker" (a worker dies), "child" (one
  dies before it registers), "reply" (one dies while it registers, so that the reply
  fails), "driver" (a driver exits), "lost" (objects are asked to be reconstructed).

### Global scheduler

`local_schedulers` is the array of known local schedulers, `pending_tasks` the
array of tasks that nobody can run, `client_table` and `db_clients` the client
table of Redis and its notifications under way. The loops of the two timers erase
from an array while they go through it; `Retried` and `TimedOut` compute them
iteration by iteration (`Tried`, `Checked`), including what is read at the place of
an erased element. `freed` records the pending tasks whose memory was freed; a later
use of one, or a second free in the same pass (which takes three pending tasks, more
than the runs have), may crash the process or go unnoticed. `removed` remembers who
was on the list once. `heartbeats` holds the last heartbeats of local schedulers that
are gone, which may arrive before or after the timer or the client table has removed
them.

The cache of object locations, the dynamic resources and the round-robin policy are
left out: nothing decides by them. `MaxRecentTasks` bounds resubmissions to a local
scheduler that is gone but still listed.

## Runs

All runs use 1 to 3 clients, workers or nodes and 1 to 3 objects or tasks.

| run | shows | instance |
|---|---|---|
| `store_safety` | the LRU queue, user lists, wait queues and account agree with each other and with what clients were told; a refused create has evicted everything; a blocking get returns everything; the store implements `ObjectStore` | 2 clients, 3 objects of sizes 1, 4, 6 in a store of 5 bytes: small objects fit together, a large one forces evictions, the largest never fits |
| `store_no_abort` | no `CHECK` fails, dead clients pin nothing, no get waits for nothing | clients die only idle; polling gets repeat ids; the allocator may fail at any time |
| `store_notifications` | subscribers can reconstruct the store from what they are sent, additions and deletions alternating | 2 subscribers with queues of at most 2, which may go away |
| `store_liveness` | the allocation loop ends, a timed get is answered, a sealed object is announced | waiting clients may die |
| `scheduler_safety` | workers are in one vector, resources add up, CPUs are oversubscribed only by unblocking, a task is in one place and the task table says which | 2 workers, 3 tasks of which two take the result of the first; deaths, blocking, eviction, reconstruction |
| `scheduler_drivers` | references from objects into the waiting queue are exact; nothing is done for removed drivers; no `CHECK` fails | 3 workers, 2 drivers, a chain of 3 tasks whose last takes two objects; evictions, deaths of workers, children and drivers; no reconstruction |
| `scheduler_liveness` | the dispatch queue is never left with a task that could run; queued tasks get to run, their lost arguments being reconstructed | 2 workers, 2 tasks, evictions; no deaths, no global scheduler |
| `global_scheduler` | no task is lost or assigned twice; the list and the map of local schedulers agree; who was removed stays away; a task that a listed node can run is assigned; who is gone leaves the list | 2 nodes, one with a GPU, 2 tasks, one needing it; exits and silent deaths; a timeout of 1 interval, the least that tells a missed heartbeat from none |

Runs that show a disagreement between the code and its comments:

| run | the code |
|---|---|
| `unsealed_evicted` | aborts when the policy evicts an object whose writer died before sealing it |
| `dead_child` | never starts a worker again after one died before registering; queued tasks wait for ever |
| `removed_driver` | submits a removed driver's task again when its reconstruction was already under way, and aborts on assigning it |
| `freed_task` | frees the memory of a task that is still pending when an earlier one is assigned |

More such disagreements appear when a constant of a passing run is changed: an
object is pinned for ever by a client that died waiting for it
(`MayDie = {"idle", "waiting"}` in `store_no_abort`);
a blocking get with a repeated id waits although all is there, or returns early
(`BlockingLists <- ListsWithRepeats` in `store_no_abort`); a second subscription
announces every object again to all (`LateSubscribers = TRUE` in
`store_notifications`); writing to a dead subscriber uses an erased map entry
(a subscriber and `MayBreak = TRUE` in `store_no_abort`); an empty object keeps the allocation loop
running for ever when the allocator fails (`Sizes = {0, 4}`, `Overhead = 1` in
`store_liveness`); the death of a worker frees resources but dispatches nothing
(`Failures = {"lost", "worker"}` in `scheduler_liveness`); a task that takes one object
twice is reached through a dangling iterator (`Args <- TwiceArgs` in
`scheduler_drivers`).

Two are visible in the models without a property: `EvictionState_require_space`
counts a size again for every failed attempt, so that a create may be refused
although what it evicted made room (`OutOfMemoryOnlyWhenExhausted` says what does
hold); and `Checked` counts a missed heartbeat twice for the successor of a local
scheduler that is removed.

Deadlock is not checked: clients and drivers may all be gone or have nothing left
to ask for.

Why the bounds suffice: the store's handlers treat clients alike and look at one
object or one queue at a time, and every conflict in them is between two clients,
between two objects that compete for space, or between a get and the objects it
lists. Two tasks of different needs compete for two CPUs and one GPU in the
scheduler; a third has two missing arguments. Worker ids are used again after a
death, and so are object ids after an eviction, so that runs are unbounded.

## Fairness

Store: the handler being executed goes on (weak fairness of the allocation loop);
due timers and writable sockets are served however many other requests come
(strong fairness), since one round of the event loop serves all that are ready.

Global scheduler: timers fire, and published tasks and notifications are handled
(weak fairness). Heartbeats are not assumed to come.

Local scheduler: workers get on with their protocol and tasks end, however often
they block (strong fairness of `Work`, weak fairness of unblocking); objects that
exist and are being fetched arrive; the manager records what is stored; Redis answers; the timer fires. A lookup may
find that the result table is not filled in yet, but not for ever. Nothing is
assumed about submissions, deaths or evictions; `QueuedTaskRuns` supposes that
evictions end.

## Proofs

`PlasmaStoreProofs` proves, for any finite set of objects, any sets of clients
and subscribers, any capacity and sizes, and whatever clients may do or die of:

* `TypeCorrectness`, `QueueExact`, `HeldStays`, `NoLostWakeup`,
  `AccountBounded`: the invariants of `store_safety`;
* `OutOfMemoryIsLastResort`: the action property on refused creates;
* `StoreKeepsPromise`: every step of the store is a step of `ObjectStore` or
  leaves its variables alone.

The argument is one inductive invariant `IInv`. To the properties themselves it
adds two facts. `RequestsPinned`: what a waiting get has already been given is
pinned by that client, without which completing the get would break
`HeldObjectsPinned`. `CreatesAbsent`: the object of the create in progress is not
in the table, without which `create_succeeds` could overwrite an entry in use.
`MemoryUsedBounded` is needed for the last resort: when `require_space` fails it
must have asked for more than the queue holds, which is false if the account
exceeds the capacity (lemma `RequireSpace` of `EvictionPolicyProofs`). There is
one lemma per action.

`EvictionPolicyProofs` holds the facts about sequences (`Without`, prefixes,
concatenation, orderings) and about the number of objects to evict. Induction
over the length of a sequence is done by hand, with the least counterexample.

The assumptions are the ones named in the modules (`ObjectAssumption`,
`RequestAssumption`, ...), which every run evaluates.

Only model-checked: liveness, `NoLeakedUse`, `BlockingGetReturnsEverything`, the
notification properties, the absence of aborts, and everything about the local
and the global scheduler.

## Not modelled yet, and plan

| order | module | models | correctness | run and bounds |
|---|---|---|---|---|
| 1 | `ActorTasks` | actor mapping, per-actor queues ordered by counter, tasks cached until the actor is known, registration and death of actor workers | tasks of an actor run once and in the order of their counters; a cached task is submitted when the actor becomes known; no `CHECK` fails | 1 actor, 2 schedulers, 3 tasks arriving in any order |
| 2 | `RedisTables` with `TableRetry` | object, result and task tables, publications, commands with timers, retries and late replies | a callback runs once per command, success or failure; of several test-and-updates of a task one wins | 2 clients, 1 task, 1 object, 2 retries |
| 3 | `PlasmaClient` over `PlasmaStore` | use counts, release history, requests and replies on the socket | the discipline `PlasmaStore` assumes of clients; what the client has mapped is pinned in the store | 1 client, 2 objects, history of 1 |
| 4 | `PlasmaManager` | fetch and wait requests, transfers between two managers, timers | an object wanted and available somewhere arrives; a wait is answered once, with enough objects or by its timer; no transfer of a dead connection is resumed | 2 managers, 2 objects of 2 chunks |
| 5 | `Monitor` | clean-up of the tables after deaths | no table entry of a dead component survives; a task running on a dead scheduler is marked lost | 2 schedulers, 1 manager |

Compositions: `LocalScheduler` with `RedisTables` in place of its own task table,
for two nodes that reconstruct the same object; `GlobalScheduler` with the client
table of `RedisTables` and `Monitor`; `PlasmaClient` with `PlasmaStore`.
Abstract specifications: "an object is created once and held while used"
(`ObjectStore`, done), "a task runs, and runs again only if its result was lost"
for the scheduler, "a command is answered once" for the table clients.

Theorems to come: `WorkersPartitioned`, `ResourcesConserved` and
`QueuesTrackObjects` of `LocalScheduler`, then `InOnePlace` with
`TaskTableAccurate`; once-only callbacks of `TableRetry`; the client discipline.

Left out for good: serialisation (`numbuf`, `plasma_protocol.cc`, flatbuffers),
Python function export and argument handling, the launcher, logging, descriptor
passing and the allocator's bookkeeping: data conversion or I/O without protocol
state.
