-------------------------- MODULE StoreNotifications --------------------------
(***************************************************************************)
(* The notification queues of the plasma store: every subscriber (a plasma *)
(* manager or a local scheduler) is told of every object that is sealed or *)
(* deleted, in order, through a non-blocking socket with a queue in front. *)
(*                                                                         *)
(* The environment: a local socket takes a notification, which is short,   *)
(* whole or not at all, and fails only because it is full or because its   *)
(* reader is gone.  Left out are other errors of send, for which the       *)
(* notification is dropped, and the CHECK that none is sent in part.       *)
(***************************************************************************)
EXTENDS EvictionPolicy

CONSTANTS Subscriber,   \* notification sockets
          MaxPending    \* bound: a socket accepts data at the latest when
                        \* this many notifications are queued for it

ASSUME MaxPendingAssumption == MaxPending \in Nat

VARIABLES
  pending_notifications,  \* subscribed socket -> queue not yet sent
  view,                   \* what a subscriber computes from what was sent
  broken,                 \* sockets whose reader is gone
  aborted                 \* the store process has died

notificationVars == <<pending_notifications, view, broken, aborted>>

-----------------------------------------------------------------------------
Notification == [object : Object, is_deletion : BOOLEAN]

Added(o) == [object |-> o, is_deletion |-> FALSE]
Deleted(o) == [object |-> o, is_deletion |-> TRUE]

(* The objects a subscriber that held V believes present after reading q:  *)
(* the last notification about an object decides.                          *)
Replay(V, q) ==
  {o \in Object :
     LET about == {i \in DOMAIN q : q[i].object = o}
     IN  IF about = {} THEN o \in V
         ELSE \E i \in about : /\ \A j \in about : j <= i
                               /\ ~q[i].is_deletion}

NotificationInit ==
  /\ pending_notifications = << >>
  /\ view = [s \in Subscriber |-> {}]
  /\ broken = {}
  /\ aborted = FALSE

(* Mutation: what was sent stays in the queue. *)
Transmit_KeepsSent(q) ==
  /\ pending_notifications' = q
  /\ view' = [s \in Subscriber |-> IF s \in DOMAIN q THEN Replay(view[s], q[s])
                                   ELSE view[s]]

(* What is left of the queues q after each socket took some prefix of its  *)
(* own; the rest waits until the socket is writable again.                 *)
Transmit(q) ==
  \E kept \in [DOMAIN q -> 0..MaxPending] :
    /\ \A s \in DOMAIN q : kept[s] <= Len(q[s])
    /\ pending_notifications' =
         [s \in DOMAIN q |->
            SubSeq(q[s], Len(q[s]) - kept[s] + 1, Len(q[s]))]
    /\ view' = [s \in Subscriber |->
                  IF s \in DOMAIN q
                  THEN Replay(view[s], SubSeq(q[s], 1, Len(q[s]) - kept[s]))
                  ELSE view[s]]

(* push_notification, once for each element of notes, to the sockets subs. *)
(* A socket without a reader fails with EPIPE and is erased from the table *)
(* that push_notification is iterating over: the loop may then end early,  *)
(* so that other subscribers miss that one notification, or crash (the     *)
(* caller sets aborted).                                                   *)
push_notification(subs, notes) ==
  LET queued(s) == IF s \in DOMAIN pending_notifications
                   THEN pending_notifications[s] ELSE << >>
      failing == subs \cap broken
      live == subs \ failing
  IN  /\ UNCHANGED broken
      /\ \/ /\ notes = << >>
            /\ pending_notifications' = [s \in subs |-> queued(s)]
            /\ UNCHANGED view
         \/ /\ notes # << >>
            /\ \E missed \in IF failing = {} THEN {{}} ELSE SUBSET live :
                 Transmit([s \in live |->
                   queued(s) \o IF s \in missed THEN Tail(notes) ELSE notes])

PushMayCrash == DOMAIN pending_notifications \cap broken # {}

(* The store dies when a CHECK fails, and may die when behaviour is        *)
(* undefined.                                                              *)
Aborts(checkFails, mayCrash) ==
  aborted' \in IF checkFails THEN {TRUE}
               ELSE IF mayCrash THEN BOOLEAN ELSE {FALSE}

(* Mutation: the write callback stays away until the queue is longer. *)
send_notifications_Late(s) ==
  /\ s \in DOMAIN pending_notifications
  /\ Len(pending_notifications[s]) > MaxPending
  /\ pending_notifications' = [pending_notifications EXCEPT ![s] = << >>]
  /\ view' = [view EXCEPT ![s] = Replay(@, pending_notifications[s])]
  /\ UNCHANGED <<broken, aborted>>

(* The socket of s is writable again, or its reader has gone.              *)
send_notifications(s) ==
  /\ s \in DOMAIN pending_notifications
  /\ pending_notifications[s] # << >>
  /\ UNCHANGED broken
  /\ \/ /\ s \notin broken
        /\ \E n \in 1..Len(pending_notifications[s]) :
             LET q == pending_notifications[s]
             IN  /\ pending_notifications' =
                       [pending_notifications EXCEPT
                          ![s] = SubSeq(q, n + 1, Len(q))]
                 /\ view' = [view EXCEPT ![s] = Replay(@, SubSeq(q, 1, n))]
        /\ Aborts(FALSE, FALSE)
     \/ /\ s \in broken
        /\ pending_notifications' =
             [r \in DOMAIN pending_notifications \ {s} |->
                pending_notifications[r]]
        /\ Aborts(FALSE, TRUE)   \* reads the erased queue
        /\ UNCHANGED view

(* The queue of the new subscriber is created, then every object of the    *)
(* table, sealed or not, is announced to every subscriber.                 *)
subscribe_to_updates(s) ==
  /\ s \notin DOMAIN pending_notifications \cup broken
  /\ \E p \in Orderings(DOMAIN objects) :
       push_notification(DOMAIN pending_notifications \cup {s},
                         [i \in DOMAIN p |-> Added(p[i])])
  /\ Aborts(FALSE, PushMayCrash /\ DOMAIN objects # {})

(* The process at the other end of the socket exits (one at a time).       *)
SubscriberCloses(s) ==
  /\ s \in DOMAIN pending_notifications
  /\ DOMAIN pending_notifications \cap broken = {}
  /\ broken' = broken \cup {s}
  /\ UNCHANGED <<pending_notifications, view, aborted>>
=============================================================================
