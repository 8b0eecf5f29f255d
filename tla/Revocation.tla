----------------------------- MODULE Revocation -----------------------------
(***************************************************************************)
(* What the store promises about the panel clients of one order, whatever  *)
(* else happens to it: until a cancellation of an automatic approval is    *)
(* recorded, clients may be switched on; from then on they are only        *)
(* switched off, and a client is recorded as revoked only while it is off. *)
(***************************************************************************)
CONSTANT Clients

VARIABLES
  on,        \* the clients that are enabled on the panel
  revoked,   \* the clients recorded as revoked
  stage      \* "open", "incomplete" or "cancelled"

vars == <<on, revoked, stage>>

Init == on = {} /\ revoked = {} /\ stage = "open"

Deliver ==
  /\ stage = "open"
  /\ on' \in SUBSET Clients /\ on \subseteq on'
  /\ UNCHANGED <<revoked, stage>>

Withdraw ==
  /\ on' \in SUBSET on
  /\ UNCHANGED <<revoked, stage>>

(* An incomplete cancellation keeps what it did; a retry adds the rest. *)
RecordCancellation ==
  /\ stage # "cancelled"
  /\ \E more \in SUBSET (Clients \ on) : revoked' = revoked \cup more
  /\ stage' \in {"incomplete", "cancelled"}
  /\ UNCHANGED on

Next == Deliver \/ Withdraw \/ RecordCancellation

Spec == Init /\ [][Next]_vars
=============================================================================
