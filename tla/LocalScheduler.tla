---------------------------- MODULE LocalScheduler ----------------------------
(***************************************************************************)
(* The local scheduler of one node: local_scheduler.cc and                 *)
(* local_scheduler_algorithm.cc without actors.  It queues tasks until     *)
(* their arguments are in the local object store and a worker and          *)
(* resources are free, keeps the task table up to date, asks for lost      *)
(* objects to be reconstructed, and cleans up after workers and drivers    *)
(* that die.  It is one thread; every handler is one action.               *)
(*                                                                         *)
(* The environment: drivers and running tasks submit tasks, each task once *)
(* and after the tasks that create its arguments; every object is the      *)
(* result of a task (none of ray.put); the store announces additions and   *)
(* deletions of an object alternately (which PlasmaStore shows); workers   *)
(* follow the protocol of worker.py; Redis executes this scheduler's       *)
(* commands in the order they are sent.                                    *)
(***************************************************************************)
EXTENDS Lists

CONSTANTS
  Task, Object, Driver,
  NoTask,            \* what a worker without a task executes
  Worker,            \* ids for worker processes, used again after a death
  LateWorker,        \* bound: a process that is started when every id is in
                     \* use is too slow to connect
  Args,              \* task -> the objects it takes by reference, in order
  Returns,           \* task -> the objects it creates
  DriverOf,          \* task -> the driver it belongs to
  Needs,             \* task -> [cpu, gpu] it requires
  static_resources,  \* [cpu, gpu] of the node
  GlobalSchedulerExists,
  InitialWorkers,    \* the workers that are started with the scheduler
  Evictable,         \* objects that the store may delete
  Failures           \* what may go wrong: "worker" (a worker that serves
                     \* tasks dies), "child" (one dies before it registers),
                     \* "reply" (one dies while it registers), "driver" (a
                     \* driver exits), "lost" (objects that need to be
                     \* reconstructed)

ASSUME TaskAssumption ==
  /\ NoTask \notin Task
  /\ LateWorker \notin Worker
  /\ Args \in [Task -> Seq(Object)]
  /\ Returns \in [Task -> SUBSET Object]
  /\ \A o \in Object : \E t \in Task : {u \in Task : o \in Returns[u]} = {t}
  /\ DriverOf \in [Task -> Driver]
  /\ Needs \in [Task -> [cpu : Nat, gpu : Nat]]
  /\ static_resources \in [cpu : Nat, gpu : Nat]
  /\ GlobalSchedulerExists \in BOOLEAN
  /\ InitialWorkers \subseteq Worker

VARIABLES
  workers,              \* worker -> how far its process has come
  child_pids,           \* started and not yet registered
  pool,                 \* the workers' tasks and resources, see Pool
  waiting_task_queue,   \* tasks that lack an argument
  dispatch_task_queue,  \* tasks that lack a worker or resources
  local_objects,        \* objects in the local store
  remote_objects,       \* object being fetched -> dependent tasks
  removed_drivers,      \* drivers known to be gone
  exited_drivers,       \* drivers that are gone, whether known or not
  task_table,           \* task -> scheduling state in Redis
  copies,               \* object -> what Redis knows of its copies
  unrecorded,           \* objects in the local store that its manager has
                        \* still to add to the object table
  lookups,              \* reconstruct_object: object table lookups under way
  updates,              \* then: test-and-updates of the task table under way
  replies,              \* then: successful ones whose reply is under way
  aborted               \* the scheduler process has died

queueVars == <<waiting_task_queue, dispatch_task_queue, local_objects,
               remote_objects>>
processVars == <<workers, child_pids>>
driverVars == <<removed_drivers, exited_drivers>>
objectVars == <<copies, unrecorded>>
lookupVars == <<lookups, updates, replies>>
vars == <<processVars, pool, queueVars, driverVars, task_table, objectVars,
          lookupVars, aborted>>

-----------------------------------------------------------------------------
Resources == [cpu : Int, gpu : Int]
NoResources == [cpu |-> 0, gpu |-> 0]

Pool == [available_workers : Seq(Worker),
         executing_workers : SUBSET Worker,
         blocked_workers : SUBSET Worker,   \* those with is_blocked
         task_in_progress : [Worker -> Task \cup {NoTask}],
         in_use : [Worker -> [cpu : Nat, gpu : Nat]],
         dynamic_resources : Resources]

(* "waiting" stands for WAITING and SCHEDULED: given to the global scheduler *)
(* and not yet queued by a local one.                                        *)
Status == {"none", "waiting", "queued", "running", "done", "lost",
           "reconstructing"}

Creator(o) == CHOOSE t \in Task : o \in Returns[t]

Init ==
  /\ workers = [w \in Worker |->
                  IF w \in InitialWorkers THEN "started" ELSE "none"]
  /\ child_pids = InitialWorkers
  /\ pool = [available_workers |-> << >>,
             executing_workers |-> {},
             blocked_workers |-> {},
             task_in_progress |-> [w \in Worker |-> NoTask],
             in_use |-> [w \in Worker |-> NoResources],
             dynamic_resources |-> static_resources]
  /\ waiting_task_queue = << >>
  /\ dispatch_task_queue = << >>
  /\ local_objects = {}
  /\ remote_objects = << >>
  /\ removed_drivers = {}
  /\ exited_drivers = {}
  /\ task_table = [t \in Task |-> "none"]
  /\ copies = [o \in Object |-> "never"]
  /\ unrecorded = {}
  /\ lookups = {}
  /\ updates = {}
  /\ replies = {}
  /\ aborted = FALSE

(* The scheduler dies when a CHECK fails, and may die when behaviour is    *)
(* undefined.                                                              *)
Aborts(checkFails, mayCrash) ==
  aborted' \in IF checkFails THEN {TRUE}
               ELSE IF mayCrash THEN BOOLEAN ELSE {FALSE}

-----------------------------------------------------------------------------
(* Resources.  The functions map a pool to a pool.                         *)
acquire_resources_Swapped(p, w, need) ==   \* mutant
  [p EXCEPT
     !.dynamic_resources = [cpu |-> @.cpu + need.cpu, gpu |-> @.gpu + need.gpu],
     !.in_use[w] = [cpu |-> @.cpu - need.cpu, gpu |-> @.gpu - need.gpu]]

acquire_resources(p, w, need) ==
  [p EXCEPT
     !.dynamic_resources = [cpu |-> @.cpu - need.cpu, gpu |-> @.gpu - need.gpu],
     !.in_use[w] = [cpu |-> @.cpu + need.cpu, gpu |-> @.gpu + need.gpu]]

release_resources(p, w, given) ==
  [p EXCEPT
     !.dynamic_resources = [cpu |-> @.cpu + given.cpu,
                            gpu |-> @.gpu + given.gpu],
     !.in_use[w] = [cpu |-> 0, gpu |-> IF given.gpu = 0 THEN @.gpu ELSE 0]]

OnlyCpu(r) == [cpu |-> r.cpu, gpu |-> 0]

Fits_SkipsFirst(need, r) == need.gpu <= r.gpu   \* mutant

Fits(need, r) == need.cpu <= r.cpu /\ need.gpu <= r.gpu

SomeLeft_All(r) == r.cpu > 0 /\ r.gpu > 0   \* mutant

SomeLeft(r) == r.cpu > 0 \/ r.gpu > 0

(* remove_worker_from_vector moves the last element to the gap. *)
RemoveFromVector(s, w) ==
  IF w \notin Elements(s) THEN s
  ELSE LET i == CHOOSE i \in DOMAIN s : s[i] = w
       IN  SubSeq([s EXCEPT ![i] = s[Len(s)]], 1, Len(s) - 1)

-----------------------------------------------------------------------------
can_run(t, present) == Elements(Args[t]) \subseteq present

(* The last available worker gets the task. *)
assign_task_to_worker(p, t) ==
  LET n == Len(p.available_workers)
      w == p.available_workers[n]
  IN  [acquire_resources(p, w, Needs[t]) EXCEPT
         !.available_workers = SubSeq(@, 1, n - 1),
         !.executing_workers = @ \cup {w},
         !.task_in_progress[w] = t]

(* The loop of dispatch_tasks over the queue q: why it stopped ("workers", *)
(* "resources", or "end"), the tasks it left, and the pool.                *)
DispatchLoop(q, p) ==
  LET step[i \in 0..Len(q)] ==
        IF i = 0
        THEN [pool |-> p, left |-> << >>, given |-> {}, stopped |-> "end"]
        ELSE LET s == step[i - 1]
                 keep == [s EXCEPT !.left = Append(@, q[i])]
             IN  IF s.stopped # "end" THEN keep
                 ELSE IF s.pool.available_workers = << >>
                 THEN [keep EXCEPT !.stopped = "workers"]
                 ELSE IF ~SomeLeft(s.pool.dynamic_resources)
                 THEN [keep EXCEPT !.stopped = "resources"]
                 ELSE IF ~Fits(Needs[q[i]], s.pool.dynamic_resources)
                 THEN keep
                 ELSE [s EXCEPT !.pool = assign_task_to_worker(@, q[i]),
                                !.given = @ \cup {q[i]}]
  IN  step[Len(q)]

start_worker ==
  LET unused == {w \in Worker : workers[w] = "none"}
  IN  \/ \E w \in unused : /\ workers' = [workers EXCEPT ![w] = "started"]
                           /\ child_pids' = child_pids \cup {w}
      \/ /\ unused = {}
         /\ child_pids' = child_pids \cup {LateWorker}
         /\ UNCHANGED workers

(* dispatch_tasks, on the queue q, the pool p and the table tt that the    *)
(* handler has prepared.  Without an available worker one is started,      *)
(* unless one is already on its way.  The task must not belong to a driver *)
(* that is known to be gone and the worker must not use any resources; the *)
(* other CHECKs of the handler are in failed and undefined.                *)
dispatch_tasks(q, p, tt, failed, undefined) ==
  LET d == DispatchLoop(q, p)
      assigned == d.pool.executing_workers \ p.executing_workers
  IN  /\ dispatch_task_queue' = d.left
      /\ pool' = d.pool
      /\ task_table' = [t \in Task |-> IF t \in d.given THEN "running" ELSE tt[t]]
      /\ \/ /\ d.stopped = "workers" /\ child_pids = {}
            /\ start_worker
         \/ /\ ~(d.stopped = "workers" /\ child_pids = {})
            /\ UNCHANGED processVars
      /\ Aborts(\/ failed
                \/ \E t \in d.given : DriverOf[t] \in removed_drivers
                \/ \E w \in assigned :
                     \/ p.in_use[w].cpu # 0
                     \/ /\ Needs[d.pool.task_in_progress[w]].gpu # 0
                        /\ p.in_use[w].gpu # 0,
                undefined)

-----------------------------------------------------------------------------
(* The tasks q are dependent on o once for each time it is their argument. *)
Dependents(q, o) ==
  LET all[i \in 0..Len(q)] ==
        IF i = 0 THEN << >>
        ELSE all[i - 1] \o [k \in 1..Occurrences(Args[q[i]], o) |-> q[i]]
  IN  all[Len(q)]

(* fetch_missing_dependency for the objects O and the tasks q. *)
fetch_missing_dependencies(q, O) ==
  LET missing == {o \in O : Dependents(q, o) # << >>}
  IN  [o \in DOMAIN remote_objects \cup missing |->
         ValueOr(remote_objects, o, << >>)
           \o (IF o \in missing THEN Dependents(q, o) ELSE << >>)]

(* queue_task_locally: into the dispatch queue or the waiting queue, which *)
(* the task table learns.                                                  *)
queue_dispatch_task(t) ==
  /\ dispatch_tasks(Append(dispatch_task_queue, t), pool,
                    [task_table EXCEPT ![t] = "queued"], FALSE, FALSE)
  /\ UNCHANGED <<waiting_task_queue, remote_objects>>

queue_waiting_task_Unrecorded(t) ==   \* mutant
  /\ waiting_task_queue' = Append(waiting_task_queue, t)
  /\ remote_objects' =
       fetch_missing_dependencies(<<t>>, Object \ local_objects)
  /\ dispatch_tasks(dispatch_task_queue, pool, task_table, FALSE, FALSE)

queue_waiting_task(t) ==
  /\ waiting_task_queue' = Append(waiting_task_queue, t)
  /\ remote_objects' =
       fetch_missing_dependencies(<<t>>, Object \ local_objects)
  /\ dispatch_tasks(dispatch_task_queue, pool,
                    [task_table EXCEPT ![t] = "queued"], FALSE, FALSE)

queue_task_locally(t) ==
  IF can_run(t, local_objects) THEN queue_dispatch_task(t)
  ELSE queue_waiting_task(t)

give_task_to_global_scheduler(t) ==
  IF GlobalSchedulerExists
  THEN /\ dispatch_tasks(dispatch_task_queue, pool,
                         [task_table EXCEPT ![t] = "waiting"], FALSE, FALSE)
       /\ UNCHANGED <<waiting_task_queue, remote_objects>>
  ELSE queue_task_locally(t)

resource_constraints_satisfied(t) ==
  Fits(Needs[t], static_resources) /\ Fits(Needs[t], pool.dynamic_resources)

handle_task_submitted(t) ==
  IF /\ resource_constraints_satisfied(t)
     /\ pool.available_workers # << >>
     /\ can_run(t, local_objects)
  THEN queue_dispatch_task(t)
  ELSE give_task_to_global_scheduler(t)
(* The scheduler serves one event after the other until it dies. *)
Alive == ~aborted

LiveDriver(d) == d \notin exited_drivers

RunsTaskOf(d) ==
  \E w \in Worker : /\ pool.task_in_progress[w] # NoTask
                    /\ DriverOf[pool.task_in_progress[w]] = d

(* A driver or a running task of the driver submits t. *)
submit_task(t) ==
  /\ Alive
  /\ task_table[t] = "none"
  /\ \A o \in Elements(Args[t]) : task_table[Creator(o)] # "none"
  /\ LiveDriver(DriverOf[t]) \/ RunsTaskOf(DriverOf[t])
  /\ handle_task_submitted(t)
  /\ UNCHANGED <<local_objects, driverVars, objectVars, lookupVars>>

(* The global scheduler assigns t to this node. *)
handle_task_scheduled(t) ==
  /\ Alive
  /\ task_table[t] = "waiting"
  /\ DriverOf[t] \notin removed_drivers
  /\ queue_task_locally(t)
  /\ UNCHANGED <<local_objects, driverVars, objectVars, lookupVars>>

NotInTable(O) == {o \in O : copies[o] # "some"}

WithCopies(O) == [o \in Object |-> IF o \in O THEN "some" ELSE copies[o]]

(* The global scheduler assigns t to another node, which finishes or fails *)
(* to finish it.                                                           *)
RunElsewhere(t) ==
  /\ task_table[t] = "waiting"
  /\ \/ /\ task_table' = [task_table EXCEPT ![t] = "done"]
        /\ copies' = WithCopies(Returns[t])
     \/ /\ "worker" \in Failures
        /\ task_table' = [task_table EXCEPT ![t] = "lost"]
        /\ UNCHANGED copies
  /\ UNCHANGED <<processVars, pool, queueVars, driverVars, unrecorded,
                 lookupVars, aborted>>

-----------------------------------------------------------------------------
(* The life of a worker process: started, connected, registered.           *)
new_client_connection(w) ==
  /\ Alive
  /\ workers[w] = "started"
  /\ workers' = [workers EXCEPT ![w] = "connected"]
  /\ UNCHANGED <<child_pids, pool, queueVars, driverVars, task_table,
                 objectVars, lookupVars, aborted>>

handle_client_register(w) ==
  /\ Alive
  /\ workers[w] = "connected"
  /\ workers' = [workers EXCEPT ![w] = "registered"]
  /\ child_pids' = child_pids \ {w}
  /\ UNCHANGED <<pool, queueVars, driverVars, task_table, objectVars,
                 lookupVars, aborted>>

(* The worker died right after it asked to be registered: the reply cannot *)
(* be sent, and kill_worker drops the worker, which has nothing yet.       *)
send_client_register_reply_fails(w) ==
  /\ Alive
  /\ "reply" \in Failures
  /\ workers[w] = "connected"
  /\ workers' = [workers EXCEPT ![w] = "none"]
  /\ child_pids' = child_pids \ {w}
  /\ UNCHANGED <<pool, queueVars, driverVars, task_table, objectVars,
                 lookupVars, aborted>>

(* A registered worker asks for a task, which means that it has finished   *)
(* the one it had, if any; the results are in the store, whose manager has *)
(* yet to tell Redis unless it knows of other copies.                      *)
GetTask(w) ==
  LET t == pool.task_in_progress[w]
      freed == IF t = NoTask THEN pool
               ELSE [release_resources(pool, w, pool.in_use[w])
                       EXCEPT !.task_in_progress[w] = NoTask]
  IN  /\ Alive
      /\ workers[w] = "registered"
      /\ w \notin Elements(pool.available_workers) \cup pool.blocked_workers
      /\ dispatch_tasks(
           dispatch_task_queue,
           [freed EXCEPT
              !.executing_workers = @ \ {w},
              !.available_workers = Append(@, w)],
           IF t = NoTask THEN task_table ELSE [task_table EXCEPT ![t] = "done"],
           t # NoTask /\ pool.in_use[w] # Needs[t],
           FALSE)
      /\ unrecorded' = unrecorded \cup
                         NotInTable(IF t = NoTask THEN {} ELSE Returns[t])
      /\ UNCHANGED <<waiting_task_queue, local_objects, remote_objects,
                     driverVars, copies, lookupVars>>

(* A worker whose task needs the result of another task and did not find   *)
(* it asks for it to be reconstructed.  The first time, it gives back its  *)
(* CPUs.                                                                   *)
ReconstructObject(w, o) ==
  /\ Alive
  /\ "lost" \in Failures
  /\ pool.task_in_progress[w] \notin {NoTask, Creator(o)}
  /\ task_table[Creator(o)] # "none"
  /\ lookups' = lookups \cup {o}
  /\ \/ /\ w \in pool.blocked_workers
        /\ UNCHANGED <<pool, dispatch_task_queue, task_table, processVars,
                       aborted>>
     \/ /\ w \notin pool.blocked_workers
        /\ dispatch_tasks(
             dispatch_task_queue,
             [release_resources(pool, w, OnlyCpu(pool.in_use[w])) EXCEPT
                !.executing_workers = @ \ {w},
                !.blocked_workers = @ \cup {w}],
             task_table,
             w \notin pool.executing_workers,
             FALSE)
  /\ UNCHANGED <<waiting_task_queue, local_objects, remote_objects, driverVars,
                 objectVars, updates, replies>>

(* A driver, which has no task in progress, asks for an object. *)
DriverReconstructs(d, o) ==
  /\ Alive
  /\ "lost" \in Failures
  /\ LiveDriver(d)
  /\ task_table[Creator(o)] # "none"
  /\ lookups' = lookups \cup {o}
  /\ UNCHANGED <<processVars, pool, queueVars, driverVars, task_table,
                 objectVars, updates, replies, aborted>>

(* The worker has what it waited for and takes back its CPUs, whether they *)
(* are free or not.                                                        *)
NotifyUnblocked(w) ==
  /\ Alive
  /\ w \in pool.blocked_workers
  /\ pool' = [acquire_resources(pool, w,
                               OnlyCpu(Needs[pool.task_in_progress[w]])) EXCEPT
                !.blocked_workers = @ \ {w},
                !.executing_workers = @ \cup {w}]
  /\ Aborts(\/ pool.in_use[w].cpu # 0
            \/ w \in pool.executing_workers, FALSE)
  /\ UNCHANGED <<processVars, queueVars, driverVars, task_table, objectVars,
                 lookupVars>>


-----------------------------------------------------------------------------
(* Mutants: a blocked worker is not removed; resources are not released. *)
kill_worker_KeepsBlocked(p, w) ==
  [release_resources(p, w, p.in_use[w]) EXCEPT
     !.available_workers = RemoveFromVector(@, w),
     !.executing_workers = @ \ {w},
     !.task_in_progress[w] = NoTask]

kill_worker_Leaks(p, w) ==
  [p EXCEPT
     !.available_workers = RemoveFromVector(@, w),
     !.executing_workers = @ \ {w},
     !.blocked_workers = @ \ {w},
     !.task_in_progress[w] = NoTask]

(* The scheduler's reference to w goes, and with it the resources w used.  *)
kill_worker(p, w) ==
  [release_resources(p, w, p.in_use[w]) EXCEPT
     !.available_workers = RemoveFromVector(@, w),
     !.executing_workers = @ \ {w},
     !.blocked_workers = @ \ {w},
     !.task_in_progress[w] = NoTask]

kill_workers(p, K) ==
  LET order == CHOOSE s \in Orderings(K) : TRUE
      after[i \in 0..Len(order)] ==
        IF i = 0 THEN p ELSE kill_worker(after[i - 1], order[i])
  IN  after[Len(order)]

TasksOf(K) == {pool.task_in_progress[w] : w \in K} \ {NoTask}

WithLost(S) == [t \in Task |-> IF t \in S THEN "lost" ELSE task_table[t]]

RemovedTwice(w) ==
  \/ w \in Elements(pool.available_workers)
       /\ w \in pool.executing_workers \cup pool.blocked_workers
  \/ w \in pool.executing_workers \cap pool.blocked_workers

(* A registered worker dies.  Nothing is dispatched. *)
handle_client_disconnect(w) ==
  /\ Alive
  /\ "worker" \in Failures
  /\ workers[w] = "registered"
  /\ workers' = [workers EXCEPT ![w] = "none"]
  /\ pool' = kill_worker(pool, w)
  /\ task_table' = WithLost(TasksOf({w}))
  /\ Aborts(RemovedTwice(w), FALSE)
  /\ UNCHANGED <<child_pids, queueVars, driverVars, objectVars, lookupVars>>

(* A worker dies before it has registered: it stays in child_pids. *)
child_dies(w) ==
  /\ Alive
  /\ "child" \in Failures
  /\ workers[w] \in {"started", "connected"}
  /\ workers' = [workers EXCEPT ![w] = "dead"]
  /\ UNCHANGED <<child_pids, pool, queueVars, driverVars, task_table,
                 objectVars, lookupVars, aborted>>

(* A driver exits; Redis tells every local scheduler, sooner or later.     *)
driver_exits(d) ==
  /\ "driver" \in Failures
  /\ LiveDriver(d)
  /\ exited_drivers' = exited_drivers \cup {d}
  /\ UNCHANGED <<processVars, pool, queueVars, removed_drivers, task_table,
                 objectVars, lookupVars, aborted>>

(* Mutants: one of the three containers is not cleaned up. *)
handle_driver_removed_KeepsReferences(d) ==
  LET gone == {t \in Task : DriverOf[t] = d}
  IN  /\ waiting_task_queue' = Without(waiting_task_queue, gone)
      /\ dispatch_task_queue' = Without(dispatch_task_queue, gone)
      /\ UNCHANGED remote_objects

handle_driver_removed_KeepsWaiting(d) ==
  LET gone == {t \in Task : DriverOf[t] = d}
  IN  /\ dispatch_task_queue' = Without(dispatch_task_queue, gone)
      /\ UNCHANGED <<waiting_task_queue, remote_objects>>

handle_driver_removed_KeepsDispatch(d) ==
  LET gone == {t \in Task : DriverOf[t] = d}
      left(o) == Without(remote_objects[o], gone)
  IN  /\ remote_objects' = [o \in {x \in DOMAIN remote_objects :
                                     left(x) # << >>} |-> left(o)]
      /\ waiting_task_queue' = Without(waiting_task_queue, gone)
      /\ UNCHANGED dispatch_task_queue

handle_driver_removed(d) ==
  LET gone == {t \in Task : DriverOf[t] = d}
      left(o) == Without(remote_objects[o], gone)
  IN  /\ remote_objects' = [o \in {x \in DOMAIN remote_objects :
                                     left(x) # << >>} |-> left(o)]
      /\ waiting_task_queue' = Without(waiting_task_queue, gone)
      /\ dispatch_task_queue' = Without(dispatch_task_queue, gone)

handle_driver_removed_callback(d) ==
  LET K == {w \in Worker : \E t \in TasksOf({w}) : DriverOf[t] = d}
  IN  /\ Alive
      /\ d \in exited_drivers \ removed_drivers
      /\ pool' = kill_workers(pool, K)
      /\ workers' = [w \in Worker |-> IF w \in K THEN "none" ELSE workers[w]]
      /\ task_table' = WithLost(TasksOf(K))
      /\ removed_drivers' = removed_drivers \cup {d}
      /\ handle_driver_removed(d)
      /\ Aborts(\E w \in K : RemovedTwice(w), FALSE)
      /\ UNCHANGED <<child_pids, local_objects, exited_drivers, objectVars,
                     lookupVars>>

-----------------------------------------------------------------------------
(* Notifications of the store.  A dependent task whose arguments are all   *)
(* there moves to the dispatch queue; if it occurs twice in the list, the  *)
(* second reference to its entry in the waiting queue is dangling.         *)
handle_object_available(o) ==
  LET dependents == ValueOr(remote_objects, o, << >>)
      blocked == {t \in Task : ~can_run(t, local_objects \cup {o})}
      ready == Without(dependents, blocked)
  IN  /\ Alive
      /\ o \notin local_objects
      /\ \/ copies[o] = "some"
         \/ o \in unrecorded
         \/ Creator(o) \in TasksOf(Worker)
      /\ unrecorded' = unrecorded \cup NotInTable({o})
      /\ local_objects' = local_objects \cup {o}
      /\ remote_objects' =
           [x \in DOMAIN remote_objects \ {o} |-> remote_objects[x]]
      /\ waiting_task_queue' = Without(waiting_task_queue, Elements(ready))
      /\ \/ /\ dependents = << >>
            /\ UNCHANGED <<dispatch_task_queue, pool, task_table, processVars,
                           aborted>>
         \/ /\ dependents # << >>
            /\ dispatch_tasks(dispatch_task_queue \o Distinct(ready), pool,
                              task_table, FALSE, ~Injective(ready))
      /\ UNCHANGED <<driverVars, copies, lookupVars>>

(* process_add_object_notification of the local plasma manager, which has  *)
(* its own notifications of the store.                                     *)
object_table_add(o) ==
  /\ o \in unrecorded
  /\ unrecorded' = unrecorded \ {o}
  /\ copies' = WithCopies({o})
  /\ UNCHANGED <<processVars, pool, queueVars, driverVars, task_table,
                 lookupVars, aborted>>

(* Tasks that depended on the object go back to the waiting queue, and     *)
(* every waiting task that has it as an argument waits for it again.       *)
(* Other nodes may have copies or not.  The object table is told of the    *)
(* removal, and before of the addition if that is still under way.         *)
handle_object_removed(o) ==
  LET dependent == {t \in Task : o \in Elements(Args[t])}
      back == Without(dispatch_task_queue, Task \ dependent)
      waiting == waiting_task_queue \o back
  IN  /\ Alive
      /\ o \in Evictable \cap local_objects
      /\ local_objects' = local_objects \ {o}
      /\ waiting_task_queue' = waiting
      /\ dispatch_task_queue' = Without(dispatch_task_queue, dependent)
      /\ remote_objects' = fetch_missing_dependencies(waiting, {o})
      /\ \E left \in {"some", "none"} : copies' = [copies EXCEPT ![o] = left]
      /\ unrecorded' = unrecorded \ {o}
      /\ UNCHANGED <<processVars, pool, driverVars, task_table, lookupVars,
                     aborted>>

(* The last copy on other nodes is evicted. *)
EvictedElsewhere(o) ==
  /\ o \in Evictable \ local_objects
  /\ copies[o] = "some"
  /\ copies' = [copies EXCEPT ![o] = "none"]
  /\ UNCHANGED <<processVars, pool, queueVars, driverVars, task_table,
                 unrecorded, lookupVars, aborted>>

-----------------------------------------------------------------------------
fetch_object_timeout_handler_OnlyFetches ==   \* mutant
  /\ Alive
  /\ "lost" \in Failures
  /\ UNCHANGED vars

(* Reconstruction.  The timer asks for every object that is being fetched. *)
fetch_object_timeout_handler ==
  /\ Alive
  /\ "lost" \in Failures
  /\ lookups' = lookups \cup DOMAIN remote_objects
  /\ UNCHANGED <<processVars, pool, queueVars, driverVars, task_table,
                 objectVars, updates, replies, aborted>>

(* Redis looks o up, then its task: an object that never existed is        *)
(* reconstructed if its task is lost, one that is on no node any more also *)
(* if its task is done.                                                    *)
reconstruct_object_lookup_callback(o) ==
  /\ Alive
  /\ o \in lookups
  /\ lookups' = lookups \ {o}
  /\ copies[o] # "some"
  /\ updates' = updates \cup
       {[task |-> Creator(o),
         test |-> {"lost"} \cup IF copies[o] = "none" THEN {"done"} ELSE {}]}
  /\ UNCHANGED <<processVars, pool, queueVars, driverVars, task_table,
                 objectVars, replies, aborted>>

(* Some node has the object, or the result table does not know its task    *)
(* yet.                                                                    *)
lookup_ends(o) ==
  /\ Alive
  /\ o \in lookups
  /\ lookups' = lookups \ {o}
  /\ copies[o] # "none"
  /\ UNCHANGED <<processVars, pool, queueVars, driverVars, task_table,
                 objectVars, updates, replies, aborted>>

task_table_test_and_update_Untested(u) ==   \* mutant
  /\ u \in updates
  /\ updates' = updates \ {u}
  /\ task_table' = [task_table EXCEPT ![u.task] = "reconstructing"]
  /\ replies' = replies \cup {u.task}
  /\ UNCHANGED <<processVars, pool, queueVars, driverVars, objectVars, lookups,
                 aborted>>

(* Redis tests and updates the state of the task in one step. *)
task_table_test_and_update(u) ==
  /\ u \in updates
  /\ updates' = updates \ {u}
  /\ \/ /\ task_table[u.task] \in u.test
        /\ task_table' = [task_table EXCEPT ![u.task] = "reconstructing"]
        /\ replies' = replies \cup {u.task}
     \/ /\ task_table[u.task] \notin u.test
        /\ UNCHANGED <<task_table, replies>>
  /\ UNCHANGED <<processVars, pool, queueVars, driverVars, objectVars, lookups,
                 aborted>>

(* This scheduler won: it submits the task again and asks for its          *)
(* arguments in turn.                                                      *)
reconstruct_task_update_callback(t) ==
  /\ Alive
  /\ t \in replies
  /\ replies' = replies \ {t}
  /\ handle_task_submitted(t)
  /\ lookups' = lookups \cup Elements(Args[t])
  /\ UNCHANGED <<local_objects, driverVars, objectVars, updates>>

-----------------------------------------------------------------------------
Work(w) == new_client_connection(w) \/ handle_client_register(w) \/ GetTask(w)

Reconstruct ==
  \/ fetch_object_timeout_handler
  \/ \E o \in Object : reconstruct_object_lookup_callback(o) \/ lookup_ends(o)
  \/ \E u \in updates : task_table_test_and_update(u)
  \/ \E t \in Task : reconstruct_task_update_callback(t)

Next ==
  \/ \E t \in Task : \/ submit_task(t)
                     \/ handle_task_scheduled(t)
                     \/ RunElsewhere(t)
  \/ \E w \in Worker : \/ Work(w)
                       \/ \E o \in Object : ReconstructObject(w, o)
                       \/ NotifyUnblocked(w)
                       \/ handle_client_disconnect(w)
                       \/ child_dies(w)
                       \/ send_client_register_reply_fails(w)
  \/ \E d \in Driver : \/ driver_exits(d)
                       \/ handle_driver_removed_callback(d)
                       \/ \E o \in Object : DriverReconstructs(d, o)
  \/ \E o \in Object : \/ handle_object_available(o)
                       \/ handle_object_removed(o)
                       \/ EvictedElsewhere(o)
                       \/ object_table_add(o)
  \/ Reconstruct

Spec == Init /\ [][Next]_vars

-----------------------------------------------------------------------------
TypeOK ==
  /\ workers \in [Worker -> {"none", "started", "connected", "registered",
                             "dead"}]
  /\ child_pids \subseteq Worker \cup {LateWorker}
  /\ pool \in Pool
  /\ waiting_task_queue \in Seq(Task)
  /\ dispatch_task_queue \in Seq(Task)
  /\ local_objects \subseteq Object
  /\ DOMAIN remote_objects \subseteq Object
  /\ \A o \in DOMAIN remote_objects : remote_objects[o] \in Seq(Task)
  /\ removed_drivers \subseteq exited_drivers
  /\ exited_drivers \subseteq Driver
  /\ task_table \in [Task -> Status]
  /\ copies \in [Object -> {"never", "some", "none"}]
  /\ unrecorded \subseteq Object
  /\ lookups \subseteq Object
  /\ updates \subseteq [task : Task, test : SUBSET Status]
  /\ replies \subseteq Task
  /\ aborted \in BOOLEAN

(* Every waiting task lacks an argument and is registered with each one it *)
(* lacks, as often as it takes it; every reference from an object is to a  *)
(* task in the waiting queue; a task in the dispatch queue lacks nothing;  *)
(* no object is both here and being fetched.  So handle_object_available   *)
(* finds every task it has to move and never a dangling reference.         *)
QueuesTrackObjects ==
  ~aborted =>
    LET lacks(t) == Elements(Args[t]) \ local_objects
        waiting == Elements(waiting_task_queue)
    IN  /\ \A t \in waiting : lacks(t) # {}
        /\ \A t \in Elements(dispatch_task_queue) : lacks(t) = {}
        /\ DOMAIN remote_objects = UNION {lacks(t) : t \in waiting}
        /\ \A o \in DOMAIN remote_objects, t \in Task :
             Occurrences(remote_objects[o], t) =
               IF t \in waiting THEN Occurrences(Args[t], o) ELSE 0

(* A worker is in at most one of the three vectors, and it has a task      *)
(* exactly when it is executing or blocked.                                *)
WorkersPartitioned ==
  ~aborted =>
    /\ Injective(pool.available_workers)
    /\ \A w \in Worker : ~RemovedTwice(w)
    /\ pool.executing_workers \cup pool.blocked_workers =
         {w \in Worker : pool.task_in_progress[w] # NoTask}

(* Whatever workers do, block, die or are killed, no resource is leaked or *)
(* counted twice: what is in use and what is free add up to what the node  *)
(* has, and a worker uses exactly what its task needs (while it is         *)
(* blocked, only the GPUs).                                                *)
Total(f, field) ==
  LET order == CHOOSE s \in Orderings(Worker) : TRUE
      sum[i \in 0..Len(order)] ==
        IF i = 0 THEN 0 ELSE sum[i - 1] + f[order[i]][field]
  IN  sum[Len(order)]

ResourcesConserved ==
  ~aborted =>
    /\ \A r \in {"cpu", "gpu"} :
         pool.dynamic_resources[r] + Total(pool.in_use, r) = static_resources[r]
    /\ \A w \in Worker :
         LET need == Needs[pool.task_in_progress[w]]
         IN  pool.in_use[w] =
               IF w \in pool.executing_workers THEN need
               ELSE IF w \in pool.blocked_workers
               THEN [cpu |-> 0, gpu |-> need.gpu]
               ELSE NoResources

(* GPUs are never oversubscribed, and CPUs only by a worker that takes     *)
(* back what it lent while it was blocked.                                 *)
OversubscribedOnlyByUnblocking ==
  [][/\ pool'.dynamic_resources.gpu >= 0
     /\ (/\ pool'.dynamic_resources.cpu < 0
         /\ pool'.dynamic_resources.cpu < pool.dynamic_resources.cpu)
          => \E w \in pool.blocked_workers : w \in pool'.executing_workers]_vars

(* A task is in one place only: queued once, or on one worker. *)
InOnePlace ==
  ~aborted =>
    LET queued == waiting_task_queue \o dispatch_task_queue
    IN  /\ Injective(queued)
        /\ \A v, w \in Worker :
             LET t == pool.task_in_progress[w]
             IN  t # NoTask => /\ t \notin Elements(queued)
                               /\ pool.task_in_progress[v] = t => v = w

(* The task table knows what this scheduler does with a task, so that no   *)
(* scheduler can win the right to run it again meanwhile.                  *)
TaskTableAccurate ==
  ~aborted =>
    /\ \A t \in Elements(waiting_task_queue \o dispatch_task_queue) :
         task_table[t] = "queued"
    /\ \A w \in Worker : \A t \in TasksOf({w}) : task_table[t] = "running"

(* local_scheduler_shared.h: removed_drivers "is used to make sure we      *)
(* don't execute any tasks belong to dead drivers".                        *)
NoWorkForRemovedDrivers ==
  ~aborted =>
    \A t \in Elements(waiting_task_queue \o dispatch_task_queue)
               \cup TasksOf(Worker) : DriverOf[t] \notin removed_drivers

(* dispatch_tasks: "Assign as many tasks as we can, while there are        *)
(* workers available."  Between two handlers, no task in the dispatch      *)
(* queue could be assigned.                                                *)
DispatchIsMaximal ==
  LET free == pool.dynamic_resources
  IN  ~aborted /\ pool.available_workers # << >> /\ (free.cpu > 0 \/ free.gpu > 0)
        => \A t \in Elements(dispatch_task_queue) : ~Fits(Needs[t], free)

(* No CHECK of the scheduler fails and nothing undefined happens. *)
NeverAborts == ~aborted

(* A registered or starting worker gets on, and a task comes to its end    *)
(* however often it blocks.  A task that was given to the global scheduler *)
(* is run somewhere.  The timer, Redis and the managers do their part: an  *)
(* object that exists and is being fetched arrives.                        *)
Arrives(o) == o \in DOMAIN remote_objects /\ handle_object_available(o)

Fairness ==
  /\ \A w \in Worker : /\ SF_vars(Work(w))
                       /\ WF_vars(NotifyUnblocked(w))
  /\ \A t \in Task : /\ WF_vars(handle_task_scheduled(t) \/ RunElsewhere(t))
                     /\ WF_vars(reconstruct_task_update_callback(t))
  /\ \A o \in Object : /\ WF_vars(Arrives(o))
                       /\ WF_vars(object_table_add(o))
                       /\ SF_vars(reconstruct_object_lookup_callback(o))
  /\ WF_vars(fetch_object_timeout_handler)
  /\ WF_vars(\E u \in updates : task_table_test_and_update(u))

FairSpec == Spec /\ Fairness

(* As long as no worker dies, a task that is queued here does not stay in  *)
(* the queue for ever, even if objects it needs were evicted everywhere    *)
(* and have to be reconstructed, provided evictions come to an end.        *)
EvictionsEnd == <>[][\A o \in Object : ~handle_object_removed(o)
                                        /\ ~EvictedElsewhere(o)]_vars

QueuedTaskRuns ==
  EvictionsEnd => \A t \in Task : (task_table[t] = "queued" /\ ~aborted)
                                    ~> (task_table[t] # "queued" \/ aborted)
=============================================================================
