--------------------------- MODULE PaymentMatching ---------------------------
(***************************************************************************)
(* A bank's deposit SMS and the pending orders of its amount:              *)
(* process_incoming_payment_sms, confirm_incoming_payment_sms and the      *)
(* staff actions of its admin page.  Only the confirmation takes a lock.   *)
(***************************************************************************)
EXTENDS Checkout

VARIABLES
  sms,        \* the IncomingPaymentSMS row
  reread,     \* a re-evaluation that has read the row and found its orders
  paidBy,     \* orders that the SMS has confirmed
  overwritten \* CONFIRMED was overwritten by an unlocked write

smsVars == <<sms, reread, paidBy, overwritten>>

SmsStatus == {"none", "new", "matched", "no_match", "confirmed", "dismissed"}
SmsRow == [status: SmsStatus, orders: SUBSET OrderIds]

NotReading == [reading |-> FALSE, status |-> "none", found |-> {}]

SmsInit ==
  /\ sms = [status |-> "none", orders |-> {}]
  /\ reread = NotReading
  /\ paidBy = {}
  /\ overwritten = FALSE

(* find_matching_orders: every pending order is taken to have the amount;  *)
(* a recent one lies in the time window.                                   *)
Matching == {o \in OrderIds : orders[o].status = "pending" /\ orders[o].recent}

(* smsforwarder_webhook creates the row; the matching follows. *)
SmsArrives ==
  /\ sms.status = "none"
  /\ sms' = [status |-> "new", orders |-> {}]
  /\ reread' = [reading |-> TRUE, status |-> "new", found |-> Matching]
  /\ UNCHANGED <<checkoutVars, paidBy, overwritten>>

(* Staff re-evaluate: a confirmed SMS is left alone. *)
Reevaluate ==
  /\ sms.status \notin {"none", "confirmed"} /\ ~reread.reading
  /\ reread' = [reading |-> TRUE, status |-> sms.status, found |-> Matching]
  /\ UNCHANGED <<checkoutVars, sms, paidBy, overwritten>>

(* The matches and the status are written over the row that was read; the  *)
(* status only when it differs from the one that was read.                 *)
WriteMatches ==
  LET found == reread.found
      status == IF found = {} THEN "no_match" ELSE "matched" IN
  /\ reread.reading
  /\ sms' = [status |-> IF reread.status = status THEN sms.status ELSE status,
             orders |-> found]
  /\ overwritten' = (overwritten \/ (sms.status = "confirmed" /\ sms'.status # "confirmed"))
  /\ reread' = NotReading
  /\ UNCHANGED <<checkoutVars, paidBy>>

(* Mutant: a confirmed SMS may be confirmed for another order. *)
ConfirmableAgain(o) == sms.orders = {o}

(* The staff action names no order: exactly one must be matched. *)
Confirmable(o) == sms.orders = {o} /\ sms.status # "confirmed"

(* confirm_incoming_payment_sms, with the rows of SMS and order locked. *)
ConfirmSms(o) ==
  /\ Confirmable(o) /\ orders[o].status \notin {"none", "closed"}
  /\ orders' = [orders EXCEPT ![o].status = IF @ = "completed" THEN @ ELSE "confirmed"]
  /\ sms' = [sms EXCEPT !.status = "confirmed"]
  /\ paidBy' = paidBy \cup {o}
  /\ UNCHANGED <<codes, inbounds, cache, remote, req, recalculated, leaked, faults, staff,
                 reread, overwritten>>

DismissSms ==
  /\ sms.status \notin {"none", "dismissed"}
  /\ sms' = [sms EXCEPT !.status = "dismissed"]
  /\ overwritten' = (overwritten \/ sms.status = "confirmed")
  /\ UNCHANGED <<checkoutVars, reread, paidBy>>

SmsNext ==
  \/ SmsArrives \/ Reevaluate \/ WriteMatches \/ DismissSms
  \/ \E o \in OrderIds : ConfirmSms(o)

Init == CheckoutInit /\ SmsInit
Next == (CheckoutNext /\ UNCHANGED smsVars) \/ SmsNext
Spec == Init /\ [][Next]_<<checkoutVars, smsVars>>

TypeOK ==
  /\ orders \in [OrderIds -> OrderRow] /\ codes \in [Codes -> CodeRow]
  /\ inbounds \in [Inbounds -> InboundRow]
  /\ cache \in [Processes -> SUBSET Customers] /\ remote \in Nat
  /\ req \in [Requests -> Request]
  /\ recalculated \subseteq Codes /\ leaked \in [Codes -> Nat]
  /\ faults \in 0..MaxFaults /\ staff \in 0..MaxStaff
  /\ sms \in SmsRow /\ paidBy \subseteq OrderIds /\ overwritten \in BOOLEAN
  /\ reread \in [reading: BOOLEAN, status: SmsStatus, found: SUBSET OrderIds]

(* One deposit pays for one order: however confirmations, re-evaluations   *)
(* and checkouts interleave, an SMS confirms a second order only after its *)
(* CONFIRMED was overwritten, by a dismissal or by a re-evaluation that    *)
(* had read the row before.                                                *)
SmsPaysOnce == overwritten \/ Cardinality(paidBy) <= 1

-----------------------------------------------------------------------------
(* The inductive invariant. *)

(* What a handler holds fits where it is: a use once it has reserved, a    *)
(* client, on the inbound that was chosen, once the panel has answered.    *)
HoldingsFit ==
  \A r \in Requests :
    /\ req[r].reserved => req[r].code \in Codes /\ req[r].pc \in {"select", "create", "commit"}
    /\ req[r].pc = "create" => req[r].inbound \in Inbounds
    /\ req[r].client => req[r].pc = "commit" /\ req[r].inbound \in Inbounds

Clients == {r \in Requests : req[r].client}

(* The clients that handlers hold are on the panel. *)
ClientsOnPanel == Cardinality(Clients) <= remote

(* The counter itself respects the limit. *)
UsedWithinLimit == \A d \in Codes \ recalculated : codes[d].used <= MaxUsage[d]

(* An SMS whose confirmation stands has paid for one order; one without    *)
(* any has paid for none.                                                  *)
PaidWhileConfirmed ==
  overwritten \/ paidBy = {} \/ (sms.status = "confirmed" /\ \E o \in OrderIds : paidBy = {o})

MatchingInv ==
  /\ TypeOK /\ HoldingsFit /\ ClientsOnPanel /\ UsesAccounted /\ UsedWithinLimit
  /\ PaidWhileConfirmed
=============================================================================
