--------------------------- MODULE GlobalScheduler ---------------------------
(***************************************************************************)
(* The global scheduler (src/global_scheduler): it keeps a list of the     *)
(* local schedulers and of what their heartbeats report, assigns every     *)
(* task that is published as waiting to the least loaded one that could    *)
(* ever run it, keeps the tasks for which there is none and tries them     *)
(* again by a timer, and reports local schedulers that fall silent.  It is *)
(* one thread; every handler is one action.                                *)
(*                                                                         *)
(* Left out: the cache of object sizes and locations and the dynamic       *)
(* resources, which are maintained but have no part in the decision.       *)
(*                                                                         *)
(* The environment: local schedulers connect once (a new process has a new *)
(* id), send heartbeats and exit or die; Redis keeps the client table and  *)
(* delivers its notifications in order.                                    *)
(***************************************************************************)
EXTENDS Lists

CONSTANTS
  Task, Scheduler,
  Needs,                   \* task -> resource -> how much it requires
  Static,                  \* local scheduler -> resource -> how much it has
  QueueLengths,            \* bound: the task_queue_length of heartbeats
  MaxRecentTasks,          \* bound: no submission while a local scheduler was
                           \* sent more tasks since its last heartbeat
  NUM_HEARTBEATS_TIMEOUT

Resource == {"cpu", "gpu"}

ASSUME ClusterAssumption ==
  /\ Needs \in [Task -> [Resource -> Nat]]
  /\ Static \in [Scheduler -> [Resource -> Nat]]
  /\ QueueLengths \subseteq Nat
  /\ MaxRecentTasks \in Nat
  /\ NUM_HEARTBEATS_TIMEOUT \in Nat

VARIABLES
  processes,        \* local scheduler -> "new", "up", "exited" or "died"
  client_table,     \* local schedulers that the table lists as not deleted
  db_clients,       \* notifications of that table under way
  heartbeats,       \* local schedulers that are gone, with a heartbeat
                    \* still under way
  local_schedulers, \* the list of known local schedulers
  local_scheduler_plasma_map,  \* those with an associated plasma manager
  task_table,       \* task -> "none", "waiting" or who it is assigned to
  waiting_tasks,    \* publications of waiting tasks under way
  pending_tasks,    \* tasks that nobody could run, in order
  freed,            \* pending tasks whose memory has been freed
  removed,          \* local schedulers that were on the list once
  aborted           \* the global scheduler has died

listVars == <<local_schedulers, local_scheduler_plasma_map, removed>>
taskVars == <<task_table, waiting_tasks, pending_tasks, freed>>
clientVars == <<processes, client_table>>
messageVars == <<db_clients, heartbeats>>
vars == <<listVars, taskVars, clientVars, messageVars, aborted>>

-----------------------------------------------------------------------------
NoResources == [r \in Resource |-> 0]

LocalSchedulerInfo == [task_queue_length : QueueLengths \cup {0},
                       static_resources : {NoResources} \cup
                                          {Static[s] : s \in Scheduler}]

LocalSchedulerEntry == [id : Scheduler,
                        num_heartbeats_missed : Nat,
                        num_recent_tasks_sent : Nat,
                        info : LocalSchedulerInfo]

Listed == {local_schedulers[i].id : i \in DOMAIN local_schedulers}

Init ==
  /\ processes = [s \in Scheduler |-> "new"]
  /\ client_table = {}
  /\ db_clients = << >>
  /\ heartbeats = {}
  /\ local_schedulers = << >>
  /\ local_scheduler_plasma_map = {}
  /\ task_table = [t \in Task |-> "none"]
  /\ waiting_tasks = {}
  /\ pending_tasks = << >>
  /\ freed = {}
  /\ removed = {}
  /\ aborted = FALSE

-----------------------------------------------------------------------------
(* What the local schedulers and Redis do. *)

(* A local scheduler starts and connects to Redis. *)
Connect(s) ==
  /\ processes[s] = "new"
  /\ processes' = [processes EXCEPT ![s] = "up"]
  /\ client_table' = client_table \cup {s}
  /\ db_clients' = Append(db_clients, [id |-> s, is_insertion |-> TRUE])
  /\ UNCHANGED <<heartbeats, listVars, taskVars, aborted>>

(* RAY.DISCONNECT for the clients of the sequence ids, in that order: it   *)
(* publishes a deletion unless the client is deleted already.              *)
Disconnected(ids) ==
  LET gone == Without(ids, Scheduler \ client_table)
  IN  /\ client_table' = client_table \ Elements(ids)
      /\ db_clients' = db_clients \o
           [i \in DOMAIN gone |-> [id |-> gone[i], is_insertion |-> FALSE]]

(* The last heartbeat of a local scheduler that goes away may be under way. *)
LastHeartbeat(s) == \E H \in {{}, {s}} : heartbeats' = heartbeats \cup H

(* A local scheduler stops and says so. *)
Disconnect(s) ==
  /\ processes[s] = "up"
  /\ processes' = [processes EXCEPT ![s] = "exited"]
  /\ LastHeartbeat(s)
  /\ Disconnected(<<s>>)
  /\ UNCHANGED <<listVars, taskVars, aborted>>

(* A local scheduler dies without a word. *)
Die(s) ==
  /\ processes[s] = "up"
  /\ processes' = [processes EXCEPT ![s] = "died"]
  /\ LastHeartbeat(s)
  /\ UNCHANGED <<client_table, db_clients, listVars, taskVars, aborted>>

(* A task is submitted for the first time, or again after it was assigned  *)
(* to a local scheduler that is deleted from the client table.             *)
Submit(t) ==
  /\ \/ task_table[t] = "none"
     \/ \E s \in Scheduler : task_table[t] = s /\ s \notin client_table
  /\ \A i \in DOMAIN local_schedulers :
       local_schedulers[i].num_recent_tasks_sent <= MaxRecentTasks
  /\ task_table' = [task_table EXCEPT ![t] = "waiting"]
  /\ waiting_tasks' = waiting_tasks \cup {t}
  /\ UNCHANGED <<pending_tasks, freed, listVars, clientVars, messageVars,
                 aborted>>

-----------------------------------------------------------------------------
(* The decision, for a list L of local schedulers. *)

constraints_satisfied_hard(l, t) ==
  \A r \in Resource : l.info.static_resources[r] >= Needs[t][r]

calculate_cost_pending(l) ==
  l.num_recent_tasks_sent + l.info.task_queue_length

Candidates(L, t) == {i \in DOMAIN L : constraints_satisfied_hard(L[i], t)}

(* The first of the candidates with the least cost. *)
best_local_scheduler(L, t) ==
  CHOOSE i \in Candidates(L, t) :
    \A j \in Candidates(L, t) :
      \/ calculate_cost_pending(L[i]) < calculate_cost_pending(L[j])
      \/ /\ calculate_cost_pending(L[i]) = calculate_cost_pending(L[j])
         /\ i <= j

(* Mutation: the task is taken off the count. *)
assign_task_Subtracts(L, i) ==
  [L EXCEPT ![i].num_recent_tasks_sent = @ - 1]

(* The list after a task was assigned to its i-th element. *)
assign_task_to_local_scheduler(L, i) ==
  [L EXCEPT ![i].num_recent_tasks_sent = @ + 1]

(* handle_task_waiting for a task that was just published, and what        *)
(* process_task_waiting does if nobody can run it.                         *)
process_task_waiting(t) ==
  /\ ~aborted
  /\ t \in waiting_tasks
  /\ waiting_tasks' = waiting_tasks \ {t}
  /\ \/ /\ Candidates(local_schedulers, t) = {}
        /\ pending_tasks' = Append(pending_tasks, t)
        /\ UNCHANGED <<local_schedulers, task_table>>
     \/ /\ Candidates(local_schedulers, t) # {}
        /\ LET i == best_local_scheduler(local_schedulers, t)
           IN  /\ local_schedulers' =
                    assign_task_to_local_scheduler(local_schedulers, i)
               /\ task_table' =
                    [task_table EXCEPT ![t] = local_schedulers[i].id]
        /\ UNCHANGED pending_tasks
  /\ UNCHANGED <<freed, local_scheduler_plasma_map, removed, clientVars,
                 messageVars, aborted>>

(* Mutations: an assigned task stays on the list; the loop stops before    *)
(* the first task.                                                         *)
Tried_NotErased(st, i) ==
  LET t == st.pending[i]
      best == best_local_scheduler(st.list, t)
  IN  IF Candidates(st.list, t) = {} THEN st
      ELSE [st EXCEPT !.list = assign_task_to_local_scheduler(@, best),
                      !.table[t] = st.list[best].id]

Tried_SkipsFirst(st, i) ==
  LET t == st.pending[i]
      best == best_local_scheduler(st.list, t)
  IN  IF i = 1 \/ Candidates(st.list, t) = {} THEN st
      ELSE [st EXCEPT !.list = assign_task_to_local_scheduler(@, best),
                      !.table[t] = st.list[best].id,
                      !.pending = Erase(@, i)]

(* The i-th pending task is tried again.  If it is assigned it leaves the  *)
(* list; then the memory that its place in the list refers to is freed,    *)
(* which by now is that of the next task, if there is one.  That task may  *)
(* have been freed a moment ago already.                                   *)
Tried(st, i) ==
  LET t == st.pending[i]
      best == best_local_scheduler(st.list, t)
      rest == Erase(st.pending, i)
      next == {rest[j] : j \in {i} \cap DOMAIN rest}
  IN  IF Candidates(st.list, t) = {} THEN st
      ELSE [list |-> assign_task_to_local_scheduler(st.list, best),
            table |-> [st.table EXCEPT ![t] = st.list[best].id],
            pending |-> rest,
            freed |-> (st.freed \ {t}) \cup next,
            twice |-> st.twice \/ next \cap st.freed # {}]

(* The pending tasks are tried again, the last one first: after[k] holds   *)
(* the state after k of them.                                              *)
Retried ==
  LET n == Len(pending_tasks)
      after[k \in 0..n] ==
        IF k = 0
        THEN {[list |-> local_schedulers, table |-> task_table,
               pending |-> pending_tasks, freed |-> freed, twice |-> FALSE]}
        ELSE {Tried(st, n + 1 - k) : st \in after[k - 1]}
  IN  after[n]

(* Reading a freed task, or freeing it again, may crash the process, or    *)
(* have no effect that is seen.                                            *)
task_cleanup_handler ==
  /\ ~aborted
  /\ pending_tasks # << >>
  /\ \E st \in Retried :
       /\ local_schedulers' = st.list
       /\ task_table' = st.table
       /\ pending_tasks' = st.pending
       /\ freed' = st.freed
       /\ aborted' \in {FALSE, freed # {} \/ st.twice}
  /\ UNCHANGED <<waiting_tasks, local_scheduler_plasma_map, removed,
                 clientVars, messageVars>>

-----------------------------------------------------------------------------
(* A new local scheduler: nothing is known of its resources yet. *)
add_local_scheduler(s) ==
  /\ local_schedulers' =
       Append(local_schedulers,
              [id |-> s, num_heartbeats_missed |-> 0,
               num_recent_tasks_sent |-> 0,
               info |-> [task_queue_length |-> 0,
                         static_resources |-> NoResources]])
  /\ local_scheduler_plasma_map' = local_scheduler_plasma_map \cup {s}
  /\ UNCHANGED <<removed, aborted>>

(* Mutation: the entry of the map stays. *)
remove_local_scheduler_KeepsMap(s) ==
  /\ \E i \in DOMAIN local_schedulers :
       /\ local_schedulers[i].id = s
       /\ local_schedulers' = Erase(local_schedulers, i)
  /\ removed' = removed \cup {s}
  /\ UNCHANGED <<local_scheduler_plasma_map, aborted>>

(* remove_local_scheduler insists that the map has an entry. *)
remove_local_scheduler(s) ==
  /\ \E i \in DOMAIN local_schedulers :
       /\ local_schedulers[i].id = s
       /\ \A j \in 1..(i - 1) : local_schedulers[j].id # s
       /\ local_schedulers' = Erase(local_schedulers, i)
  /\ local_scheduler_plasma_map' = local_scheduler_plasma_map \ {s}
  /\ removed' = removed \cup {s}
  /\ aborted' = (s \notin local_scheduler_plasma_map)

(* A notification of the client table; the deletion of a local scheduler   *)
(* that is not on the list is ignored.                                     *)
process_new_db_client ==
  /\ ~aborted
  /\ db_clients # << >>
  /\ db_clients' = Tail(db_clients)
  /\ LET n == Head(db_clients)
     IN  \/ n.is_insertion /\ add_local_scheduler(n.id)
         \/ ~n.is_insertion /\ n.id \in Listed /\ remove_local_scheduler(n.id)
         \/ /\ ~n.is_insertion /\ n.id \notin Listed
            /\ UNCHANGED <<listVars, aborted>>
  /\ UNCHANGED <<heartbeats, taskVars, clientVars>>

(* Mutation: a heartbeat of an unknown local scheduler adds it. *)
local_scheduler_table_handler_Adds(s, queue_length) ==
  /\ ~aborted
  /\ processes[s] = "up" \/ s \in heartbeats
  /\ heartbeats' = heartbeats \ {s}
  /\ [id |-> s, is_insertion |-> TRUE] \notin Elements(db_clients)
  /\ s \notin Listed
  /\ add_local_scheduler(s)
  /\ UNCHANGED <<taskVars, clientVars, db_clients>>

(* A heartbeat of a local scheduler that is up, or was when it sent it.    *)
(* The heartbeat comes after the notification that the local scheduler is  *)
(* there, on the same connection, and is ignored if the local scheduler is *)
(* not on the list any more.                                               *)
local_scheduler_table_handler(s, queue_length) ==
  /\ ~aborted
  /\ processes[s] = "up" \/ s \in heartbeats
  /\ heartbeats' = heartbeats \ {s}
  /\ [id |-> s, is_insertion |-> TRUE] \notin Elements(db_clients)
  /\ local_schedulers' =
       [i \in DOMAIN local_schedulers |->
          IF local_schedulers[i].id = s
          THEN [id |-> s, num_heartbeats_missed |-> 0,
                num_recent_tasks_sent |-> 0,
                info |-> [task_queue_length |-> queue_length,
                          static_resources |-> Static[s]]]
          ELSE local_schedulers[i]]
  /\ UNCHANGED <<local_scheduler_plasma_map, removed, taskVars, clientVars,
                 db_clients, aborted>>

-----------------------------------------------------------------------------
(* One more missed heartbeat for the i-th of a list, if it has so many. *)
MissedOneMore(L, i) ==
  [j \in DOMAIN L |->
     IF j = i THEN [L[j] EXCEPT !.num_heartbeats_missed = @ + 1] ELSE L[j]]

(* Mutation: the loop stops before the first local scheduler. *)
Checked_SkipsFirst(st, i) ==
  LET l == st.list[i]
  IN  IF i = 1 THEN st
      ELSE IF l.num_heartbeats_missed >= NUM_HEARTBEATS_TIMEOUT
      THEN [list |-> Erase(st.list, i), gone |-> Append(st.gone, l.id)]
      ELSE [st EXCEPT !.list = MissedOneMore(@, i)]

(* A local scheduler that missed too many heartbeats is removed; the count *)
(* that is incremented next is the one at its place in the list, which by  *)
(* now is that of its successor.                                           *)
Checked(st, i) ==
  LET l == st.list[i]
  IN  IF l.num_heartbeats_missed >= NUM_HEARTBEATS_TIMEOUT
      THEN [list |-> MissedOneMore(Erase(st.list, i), i),
            gone |-> Append(st.gone, l.id)]
      ELSE [st EXCEPT !.list = MissedOneMore(@, i)]

(* The timer goes through the list from the end. *)
TimedOut ==
  LET n == Len(local_schedulers)
      after[k \in 0..n] ==
        IF k = 0 THEN {[list |-> local_schedulers, gone |-> << >>]}
        ELSE {Checked(st, n + 1 - k) : st \in after[k - 1]}
  IN  after[n]

heartbeat_timeout_handler ==
  /\ ~aborted
  /\ local_schedulers # << >>
  /\ \E st \in TimedOut :
       LET gone == Elements(st.gone)
       IN  /\ local_schedulers' = st.list
           /\ local_scheduler_plasma_map' = local_scheduler_plasma_map \ gone
           /\ Disconnected(st.gone)
           /\ removed' = removed \cup gone
           /\ aborted' = ~(gone \subseteq local_scheduler_plasma_map)
  /\ UNCHANGED <<processes, heartbeats, taskVars>>

-----------------------------------------------------------------------------
Next ==
  \/ \E s \in Scheduler :
       \/ Connect(s) \/ Disconnect(s) \/ Die(s)
       \/ \E q \in QueueLengths : local_scheduler_table_handler(s, q)
  \/ \E t \in Task : Submit(t) \/ process_task_waiting(t)
  \/ task_cleanup_handler
  \/ process_new_db_client
  \/ heartbeat_timeout_handler

Spec == Init /\ [][Next]_vars

(* Timers fire and messages are handled. *)
Fairness ==
  /\ \A t \in Task : WF_vars(process_task_waiting(t))
  /\ WF_vars(task_cleanup_handler)
  /\ WF_vars(process_new_db_client)
  /\ WF_vars(heartbeat_timeout_handler)

FairSpec == Spec /\ Fairness

-----------------------------------------------------------------------------
TypeOK ==
  /\ processes \in [Scheduler -> {"new", "up", "exited", "died"}]
  /\ client_table \subseteq Scheduler
  /\ db_clients \in Seq([id : Scheduler, is_insertion : BOOLEAN])
  /\ heartbeats \subseteq Scheduler
  /\ local_schedulers \in Seq(LocalSchedulerEntry)
  /\ local_scheduler_plasma_map \subseteq Scheduler
  /\ task_table \in [Task -> {"none", "waiting"} \cup Scheduler]
  /\ waiting_tasks \subseteq Task
  /\ pending_tasks \in Seq(Task)
  /\ freed \subseteq Task
  /\ removed \subseteq Scheduler
  /\ aborted \in BOOLEAN

(* A task that waits is on its way to the global scheduler or pending,     *)
(* once; a task that was assigned is neither, so that neither              *)
(* process_task_waiting nor task_cleanup_handler loses a task or assigns   *)
(* it twice.                                                               *)
TasksAccountedFor ==
  /\ Injective(pending_tasks)
  /\ waiting_tasks \cap Elements(pending_tasks) = {}
  /\ waiting_tasks \cup Elements(pending_tasks) =
       {t \in Task : task_table[t] = "waiting"}

(* The list and the map of local schedulers agree: remove_local_scheduler, *)
(* called for a notification or by the timer, finds what it removes.       *)
ListMatchesMap ==
  /\ \A i, j \in DOMAIN local_schedulers :
       local_schedulers[i].id = local_schedulers[j].id => i = j
  /\ Listed = local_scheduler_plasma_map

(* A local scheduler that was removed, because it exited or fell silent,   *)
(* never comes back: neither the late notification of its deletion nor a   *)
(* late heartbeat puts it back on the list.                                *)
RemovedStaysRemoved == removed \cap Listed = {}

(* task_cleanup_handler: "The task was successfully assigned, so remove it *)
(* from this list and free it."  What is left on the list is not freed.    *)
PendingTasksAlive == freed \cap Elements(pending_tasks) = {}

(* start_server: "If a new node joins the cluster that does have enough    *)
(* resources, then this timer should notice and schedule the task."        *)
WaitingTaskPlaced ==
  \A t \in Task :
    task_table[t] = "waiting" /\ Candidates(local_schedulers, t) # {}
      ~> \/ task_table[t] # "waiting"
         \/ Candidates(local_schedulers, t) = {}
         \/ aborted

(* A local scheduler that is gone does not stay on the list, so that tasks *)
(* stop being assigned to it.                                              *)
DeadIsRemoved ==
  \A s \in Scheduler :
    processes[s] \in {"exited", "died"} /\ s \in Listed
      ~> s \notin Listed \/ aborted
=============================================================================
