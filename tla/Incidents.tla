----------------------------- MODULE Incidents -----------------------------
(***************************************************************************)
(* What the event machine promises the recipients of its messages, per     *)
(* (rule, subject): an incident opens only after it was announced (alert,  *)
(* or item of the digest), and ends only after its recovery was announced. *)
(* EventEngine implements this specification.                              *)
(***************************************************************************)
CONSTANT Keys

VARIABLES
  open,  \* keys with an open incident
  view   \* what the recipients were last told of a key

vars == <<open, view>>

Views == {"silent", "queued", "firing", "recovered"}

Init == open = {} /\ view = [k \in Keys |-> "silent"]

(* The store may fail to record what was announced: the next announcement  *)
(* of the key then follows one that led to no incident.                    *)
Announce(k) ==
  /\ k \notin open
  /\ \E how \in {"queued", "firing"} : view' = [view EXCEPT ![k] = how]
  /\ open' = open

Open(k) ==
  /\ k \notin open /\ view[k] \in {"queued", "firing"}
  /\ open' = open \cup {k}
  /\ view' = view

AnnounceRecovery(k) ==
  /\ k \in open
  /\ view' = [view EXCEPT ![k] = "recovered"]
  /\ open' = open

Close(k) ==
  /\ k \in open /\ view[k] = "recovered"
  /\ open' = open \ {k}
  /\ view' = [view EXCEPT ![k] = "silent"]

Next == \E k \in Keys : Announce(k) \/ Open(k) \/ AnnounceRecovery(k) \/ Close(k)

Spec == Init /\ [][Next]_vars
=============================================================================
