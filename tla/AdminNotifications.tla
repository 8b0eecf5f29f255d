------------------------- MODULE AdminNotifications -------------------------
(***************************************************************************)
(* Telling the admins of an order and of its receipt                       *)
(* (admin_notifications.py).  A handler claims the fields of the order row *)
(* under its lock, sends, and takes its claim back, compared by its time,  *)
(* when nobody was reached.                                                *)
(***************************************************************************)
EXTENDS Naturals

CONSTANTS
  Notifiers,    \* handlers: signal, checkout, bot, SMS matching
  MaxClaims     \* bound on claims

ASSUME NotificationsAssumption == MaxClaims \in Nat

Fields == {"order", "receipt"}    \* admin_notified_at, admin_receipt_notified_at

VARIABLES
  notifiedAt,   \* the fields: 0, or the time of a claim
  evidence,     \* the order has payment evidence
  notifier,     \* what each handler is doing
  told,         \* for each field, the sends that reached an admin
  unacknowledged,  \* of these, those whose answer was lost
  clock         \* the time of the last claim

notificationVars == <<notifiedAt, evidence, notifier, told, unacknowledged, clock>>

Quiet == [pc |-> "idle", at |-> 0, field |-> "order", covers |-> {}, sent |-> FALSE]

NotificationsInit ==
  /\ notifiedAt = [f \in Fields |-> 0]
  /\ evidence \in BOOLEAN
  /\ notifier = [h \in Notifiers |-> Quiet]
  /\ told = [f \in Fields |-> 0] /\ unacknowledged = [f \in Fields |-> 0]
  /\ clock = 0

(* submit_manual_payment *)
EvidenceArrives ==
  /\ ~evidence /\ evidence' = TRUE
  /\ UNCHANGED <<notifiedAt, notifier, told, unacknowledged, clock>>

(* _claim_notification. A new order's notice shows the receipt too, if     *)
(* there is one that was not announced; the review of an SMS match needs   *)
(* no evidence.                                                            *)
Claim(h, field, review) ==
  LET covers == IF field = "order" /\ evidence /\ notifiedAt["receipt"] = 0
                  THEN Fields ELSE {field} IN
  /\ notifier[h].pc = "idle" /\ notifiedAt[field] = 0 /\ clock < MaxClaims
  /\ field = "receipt" => evidence \/ review
  /\ clock' = clock + 1
  /\ notifiedAt' = [f \in Fields |-> IF f \in covers THEN clock + 1 ELSE notifiedAt[f]]
  /\ notifier' = [notifier EXCEPT ![h] =
       [pc |-> "send", at |-> clock + 1, field |-> field, covers |-> covers, sent |-> FALSE]]
  /\ UNCHANGED <<evidence, told, unacknowledged>>

(* _send_order_notification: some bot's send succeeds, or none does.  Any  *)
(* exception of the request counts as not sent (BotClient,                 *)
(* send_new_order_to_config), but a message whose answer is lost has       *)
(* arrived all the same.                                                   *)
Notify(h, sent, arrived) ==
  LET plus(counts, counted) ==
        [f \in Fields |-> counts[f] + IF counted /\ f \in notifier[h].covers THEN 1 ELSE 0] IN
  /\ notifier[h].pc = "send" /\ (sent => arrived)
  /\ notifier' = [notifier EXCEPT ![h].pc = IF sent THEN "done" ELSE "release", ![h].sent = sent]
  /\ told' = plus(told, arrived)
  /\ unacknowledged' = plus(unacknowledged, arrived /\ ~sent)
  /\ UNCHANGED <<notifiedAt, evidence, clock>>

(* Mutant: the claim is not compared. *)
ClearedBlindly(h, field) == [notifiedAt EXCEPT ![field] = 0]

(* An update of the row that still has this claim's time. *)
Cleared(h, field) ==
  [notifiedAt EXCEPT ![field] = IF @ = notifier[h].at THEN 0 ELSE @]

(* The finally clause of _send_claimed_notification: its own field, then,  *)
(* after a new order's notice, the receipt.                                *)
ReleaseClaim(h) ==
  /\ notifier[h].pc = "release"
  /\ notifiedAt' = Cleared(h, notifier[h].field)
  /\ notifier' = [notifier EXCEPT ![h].pc =
       IF notifier[h].field = "order" THEN "release_receipt" ELSE "done"]
  /\ UNCHANGED <<evidence, told, unacknowledged, clock>>

ReleaseReceipt(h) ==
  /\ notifier[h].pc = "release_receipt"
  /\ notifiedAt' = Cleared(h, "receipt")
  /\ notifier' = [notifier EXCEPT ![h].pc = "done"]
  /\ UNCHANGED <<evidence, told, unacknowledged, clock>>

(* The handler ends, or dies with its claim kept. *)
NotifierEnds(h) ==
  /\ notifier[h].pc # "idle"
  /\ notifier' = [notifier EXCEPT ![h] = Quiet]
  /\ UNCHANGED <<notifiedAt, evidence, told, unacknowledged, clock>>

NotificationsNext ==
  \/ EvidenceArrives
  \/ \E h \in Notifiers :
       \/ \E f \in Fields, review \in BOOLEAN : Claim(h, f, review)
       \/ \E sent, arrived \in BOOLEAN : Notify(h, sent, arrived)
       \/ ReleaseClaim(h) \/ ReleaseReceipt(h) \/ NotifierEnds(h)

NotificationsTypeOK ==
  /\ notifiedAt \in [Fields -> 0..MaxClaims] /\ clock \in 0..MaxClaims
  /\ evidence \in BOOLEAN /\ told \in [Fields -> Nat]
  /\ unacknowledged \in [Fields -> Nat]
  /\ notifier \in [Notifiers -> [pc: {"idle", "send", "release", "release_receipt", "done"},
                                 at: 0..MaxClaims, field: Fields, covers: SUBSET Fields,
                                 sent: BOOLEAN]]

(* The admins are told once of an order and once of its receipt, whichever *)
(* signals, checkouts and SMS matches announce them at the same time: a    *)
(* failed send takes back no claim but its own.  A send that arrived and   *)
(* looks failed takes its claim back too, and lets them be told once more. *)
AdminsToldOnce == \A f \in Fields : told[f] <= 1 + unacknowledged[f]

-----------------------------------------------------------------------------
(* The inductive invariant. *)

(* No two claims have the same time. *)
ClaimsDistinct ==
  \A h \in Notifiers : notifier[h].pc # "idle" =>
    /\ notifier[h].at \in 1..clock
    /\ \A g \in Notifiers \ {h} : notifier[g].pc # "idle" => notifier[g].at # notifier[h].at

(* A field stays claimed until its message is sent. *)
ClaimsStand ==
  \A h \in Notifiers : notifier[h].pc = "send" =>
    \A f \in notifier[h].covers : notifiedAt[f] = notifier[h].at

(* What was told and acknowledged is claimed for good: nobody who may      *)
(* still take a claim back has this one.                                   *)
ToldStays ==
  \A f \in Fields :
    /\ notifiedAt[f] <= clock
    /\ told[f] # unacknowledged[f] =>
         /\ told[f] = unacknowledged[f] + 1 /\ notifiedAt[f] > 0
         /\ \A h \in Notifiers :
              notifier[h].pc \in {"send", "release", "release_receipt"} =>
                notifier[h].at # notifiedAt[f]

NotificationsInv == NotificationsTypeOK /\ ClaimsDistinct /\ ClaimsStand /\ ToldStays
=============================================================================
