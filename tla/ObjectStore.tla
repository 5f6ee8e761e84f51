----------------------------- MODULE ObjectStore -----------------------------
(***************************************************************************)
(* What the plasma store promises its clients: an object is written by one *)
(* client, becomes visible to the others when it is sealed, and from the   *)
(* moment a client is given it until that client releases it or dies, it   *)
(* stays.  How the store finds out what may go, whom it keeps waiting and  *)
(* whom it notifies is left open.                                          *)
(***************************************************************************)
CONSTANTS Object, Client

VARIABLES status,   \* object -> "absent", "created" or "sealed"
          writes,   \* client -> objects it is writing
          held      \* client -> sealed objects it was given

vars == <<status, writes, held>>

Available == {o \in Object : status[o] = "sealed"}

Init ==
  /\ status = [o \in Object |-> "absent"]
  /\ writes = [c \in Client |-> {}]
  /\ held = [c \in Client |-> {}]

Create(c, o) ==
  /\ status[o] = "absent"
  /\ status' = [status EXCEPT ![o] = "created"]
  /\ writes' = [writes EXCEPT ![c] = @ \cup {o}]
  /\ UNCHANGED held

(* Clients are only ever given available objects. *)
Give == /\ \A c \in Client : held[c] \subseteq held'[c]
        /\ \A c \in Client : held'[c] \ held[c] \subseteq Available'

Seal(c, o) ==
  /\ o \in writes[c]
  /\ status' = [status EXCEPT ![o] = "sealed"]
  /\ writes' = [writes EXCEPT ![c] = @ \ {o}]
  /\ held' \in [Client -> SUBSET Object]
  /\ o \in held'[c]
  /\ Give

Get ==
  /\ held' \in [Client -> SUBSET Object]
  /\ UNCHANGED <<status, writes>>
  /\ Give

Release(c, o) ==
  /\ held' = [held EXCEPT ![c] = @ \ {o}]
  /\ UNCHANGED <<status, writes>>

(* Only what no client holds may go. *)
Evict(S) ==
  /\ S \subseteq Available
  /\ \A c \in Client : S \cap held[c] = {}
  /\ status' = [o \in Object |-> IF o \in S THEN "absent" ELSE status[o]]
  /\ UNCHANGED <<writes, held>>

Leave(c) ==
  /\ writes' = [writes EXCEPT ![c] = {}]
  /\ held' = [held EXCEPT ![c] = {}]
  /\ UNCHANGED status

Next ==
  \/ \E c \in Client, o \in Object : Create(c, o) \/ Seal(c, o) \/ Release(c, o)
  \/ \E S \in SUBSET Object : Evict(S)
  \/ \E c \in Client : Leave(c)
  \/ Get

Spec == Init /\ [][Next]_vars

(* What a client holds is there, and nobody writes to it. *)
HeldIsAvailable ==
  \A c, e \in Client : held[c] \subseteq Available /\ held[c] \cap writes[e] = {}
=============================================================================
