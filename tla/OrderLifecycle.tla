--------------------------- MODULE OrderLifecycle ---------------------------
(***************************************************************************)
(* One manual-card order of the store, from the submitted receipt to its   *)
(* delivery, rejection or cancellation: the Order row, its OrderAutomation *)
(* row, its VPNClient rows, its Subscription Cup, and the clients that the *)
(* order owns on the VPN panel.                                            *)
(*                                                                         *)
(* Every handler that works on the order runs in one database transaction  *)
(* that holds the order's row lock while it calls the panel client by      *)
(* client.  The panel is not part of the transaction: what a call changed  *)
(* there stays when the transaction is lost.  `work' holds the uncommitted *)
(* rows of the one transaction that owns the lock.                         *)
(***************************************************************************)
EXTENDS Naturals, FiniteSets

CONSTANTS
  Requests,   \* web, bot and SMS handlers: staff and customer requests
  Workers,    \* running process_order_automation commands
  NoThread,   \* the row lock is free
  Quantity,   \* required_client_count(order)
  Modern,     \* TRUE: clients are created enabled; FALSE: pre-created inactive
  MaxFaults   \* bound on crashes

Threads == Requests \cup Workers
Clients == 1..Quantity

ASSUME ThreadsAssumption ==
  /\ Requests \cap Workers = {}
  /\ NoThread \notin Requests \cup Workers
ASSUME QuantityAssumption == Quantity \in Nat \ {0}
ASSUME StrategyAssumption == Modern \in BOOLEAN
ASSUME FaultsAssumption == MaxFaults \in Nat

VARIABLES
  order,      \* the committed Order row
  audit,      \* the committed OrderAutomation row
  rows,       \* status of the order's VPNClient rows
  panel,      \* the order's clients as the panel has them
  cup,        \* the order's Subscription Cup
  sms,        \* the bank SMS matched with the order
  lock,       \* owner of the order's row lock
  work,       \* uncommitted rows of the lock owner's transaction
  pc,         \* where each handler is
  snap,       \* the Order row a checkout request read
  due,        \* five minutes have passed since the submission
  faults,     \* crashes so far
  autoRuns    \* times a worker started automatic provisioning

vars == <<order, audit, rows, panel, cup, sms, lock, work, pc, snap,
          due, faults, autoRuns>>

-----------------------------------------------------------------------------
(* Rows and their values. *)

Status       == {"pending_verification", "confirmed", "completed", "rejected", "cancelled"}
Verification == {"pending", "verified", "rejected"}
Provisioning == {"not_required", "pending", "provisioning", "provisioned", "failed"}
Review       == {"", "pending", "verified", "cancelling", "cancelled", "cancel_failed"}
RowStatus    == {"none", "inactive", "active", "suspended"}
PanelState   == {"absent", "disabled", "enabled"}

OrderRow == [status: Status, verification: Verification, paid: BOOLEAN,
             provisioning: Provisioning]
AuditRow == [claimed: BOOLEAN,           \* auto_approved_at is set
             review: Review,             \* review_status
             lastError: BOOLEAN,         \* last_error is not empty
             revoked: SUBSET Clients]    \* revoked_client_ids
Work == [order: OrderRow, audit: AuditRow, rows: [Clients -> RowStatus],
         todo: SUBSET Clients,           \* clients the loop still has to visit
         hadCup: BOOLEAN]

ApproveSteps == {"provision", "create", "enable", "failing"}
CancelAutoSteps == {"disable", "cancelFailing"}
DeleteSteps == {"rejecting", "cancelling"}
TxSteps == ApproveSteps \cup CancelAutoSteps \cup DeleteSteps
Steps == TxSteps \cup
  {"idle", "approve", "rebuild", "saveFailed", "recordError",
   "reject", "botCancel", "cancel", "submitting"}

NoWork == [order |-> [status |-> "pending_verification", verification |-> "pending",
                      paid |-> FALSE, provisioning |-> "pending"],
           audit |-> [claimed |-> FALSE, review |-> "", lastError |-> FALSE,
                      revoked |-> {}],
           rows |-> [c \in Clients |-> "none"], todo |-> {}, hadCup |-> FALSE]

Closed == {"rejected", "cancelled"}
CancelStates == {"cancelling", "cancel_failed", "cancelled"}

-----------------------------------------------------------------------------
(* A submitted order.  A legacy order may already own one inactive client. *)

PreCreated == [c \in Clients |-> IF c = 1 THEN "inactive" ELSE "none"]
NoRows == [c \in Clients |-> "none"]

Init ==
  /\ order = [status |-> "pending_verification", verification |-> "pending",
              paid |-> TRUE, provisioning |-> "not_required"]
  /\ audit = NoWork.audit
  /\ rows \in (IF Modern THEN {NoRows} ELSE {NoRows, PreCreated})
  /\ panel = [c \in Clients |-> IF rows[c] = "none" THEN "absent" ELSE "disabled"]
  /\ cup = "none"
  /\ sms = "matched"
  /\ lock = NoThread
  /\ work = NoWork
  /\ pc = [t \in Threads |-> "idle"]
  /\ snap = [t \in Requests |-> NoWork.order]
  /\ due = FALSE
  /\ faults = 0
  /\ autoRuns = 0

-----------------------------------------------------------------------------
(* Helpers. *)

Unlocked == lock = NoThread

(* The OrderAutomation row is locked, too, by a running cancellation. *)
AuditLocked == \E t \in Threads : lock = t /\ pc[t] \in CancelAutoSteps

Goto(t, step) == pc' = [pc EXCEPT ![t] = step]

(* The loop's next client: in primary-key (index) order. *)
IsNext(c) == c \in work.todo /\ \A d \in work.todo : c <= d

Known == {c \in Clients : rows[c] # "none"}

Begin(t, step, w) ==
  /\ Unlocked
  /\ lock' = t
  /\ work' = w
  /\ Goto(t, step)

End(t, step) ==
  /\ lock' = NoThread
  /\ work' = NoWork
  /\ Goto(t, step)

(* pending_receipts(): a receipt nobody has decided about. *)
PendingReceipt == order.status = "pending_verification" /\ order.verification = "pending"

-----------------------------------------------------------------------------
(* Approval: approve_and_provision_order. *)

(* Mutants: the claim is not looked at; orders are filtered by delivery. *)
ClaimableAgain == PendingReceipt /\ due
ClaimableUndelivered == PendingReceipt /\ due /\ ~audit.claimed /\ order.provisioning = "pending"

Claimable == PendingReceipt /\ due /\ ~audit.claimed

(* auto_approve_order, first transaction: the claim. *)
ClaimAuto(t) ==
  /\ pc[t] = "idle" /\ Unlocked /\ Claimable
  /\ audit' = [audit EXCEPT !.claimed = TRUE, !.review = "pending"]
  /\ autoRuns' = autoRuns + 1
  /\ Goto(t, "approve")
  /\ UNCHANGED <<order, rows, panel, cup, sms, lock, work, snap, due, faults>>

(* The review page's approve and retry buttons look at an unlocked row. *)
AdminApprove(t) ==
  /\ pc[t] = "idle"
  /\ audit.review \notin CancelStates /\ order.status \notin Closed
  /\ ~(order.status = "completed" /\ order.verification = "verified")
  /\ Goto(t, "approve")
  /\ UNCHANGED <<order, audit, rows, panel, cup, sms, lock, work, snap,
                 due, faults, autoRuns>>

(* confirm_incoming_payment_sms: the bank's SMS confirms the payment. *)
SmsConfirm(t) ==
  /\ pc[t] = "idle" /\ Unlocked
  /\ sms = "matched" /\ order.status \notin Closed
  /\ sms' = "confirmed"
  /\ order' = [order EXCEPT !.paid = TRUE, !.verification = "verified",
                            !.status = IF @ = "completed" THEN @ ELSE "confirmed"]
  /\ Goto(t, "approve")
  /\ UNCHANGED <<audit, rows, panel, cup, lock, work, snap, due, faults,
                 autoRuns>>

(* Mutant: an incomplete cancellation does not block approval. *)
RefusedByOrder ==
  order.status \in Closed \cup {"completed"} \/ order.verification = "rejected"

Refused ==
  \/ audit.review \in CancelStates
  \/ order.status \in Closed \cup {"completed"}
  \/ order.verification = "rejected"

AlreadyProvisioned ==
  /\ audit.review \notin CancelStates
  /\ order.status = "completed" /\ order.verification = "verified"

ApproveRefused(t) ==
  /\ pc[t] = "approve" /\ Unlocked /\ Refused
  /\ Goto(t, IF t \in Workers /\ ~AlreadyProvisioned THEN "recordError" ELSE "idle")
  /\ UNCHANGED <<order, audit, rows, panel, cup, sms, lock, work, snap,
                 due, faults, autoRuns>>

(* Mutant: clients that have a row are not provisioned again. *)
ApprovalWorkMissing ==
  [NoWork EXCEPT !.order = [order EXCEPT !.provisioning = "provisioning"],
                 !.rows = rows, !.todo = Clients \ Known]

ApprovalWork ==
  [NoWork EXCEPT
     !.order = IF Modern
               THEN [order EXCEPT !.paid = TRUE, !.verification = "verified",
                                  !.status = "confirmed", !.provisioning = "provisioning"]
               ELSE [order EXCEPT !.provisioning = "provisioning"],
     !.rows = rows,
     !.todo = IF Modern THEN Clients ELSE Clients \ Known]

BeginApprove(t) ==
  /\ pc[t] = "approve" /\ ~Refused
  /\ Begin(t, IF Modern THEN "provision" ELSE "create", ApprovalWork)
  /\ UNCHANGED <<order, audit, rows, panel, cup, sms, snap, due, faults,
                 autoRuns>>

(* Modern: look the identity up, create it enabled when absent, verify it.  *)
(* A disabled remote client is an error.                                    *)
ProvisionClient(t, c) ==
  /\ pc[t] = "provision" /\ lock = t /\ IsNext(c)
  /\ panel[c] # "disabled"
  /\ panel' = [panel EXCEPT ![c] = "enabled"]
  /\ work' = [work EXCEPT !.rows[c] = "active", !.todo = @ \ {c}]
  /\ UNCHANGED <<order, audit, rows, cup, sms, lock, pc, snap, due, faults,
                 autoRuns>>

(* Legacy: create the missing inactive clients ... *)
CreateMissing(t, c) ==
  /\ pc[t] = "create" /\ lock = t /\ IsNext(c)
  /\ panel' = [panel EXCEPT ![c] = IF @ = "absent" THEN "disabled" ELSE @]
  /\ work' = [work EXCEPT !.rows[c] = "inactive", !.todo = @ \ {c}]
  /\ UNCHANGED <<order, audit, rows, cup, sms, lock, pc, snap, due, faults,
                 autoRuns>>

(* ... then enable each one whose row is not active yet. *)
BeginEnable(t) ==
  /\ pc[t] = "create" /\ lock = t /\ work.todo = {}
  /\ work' = [work EXCEPT !.todo = {c \in Clients : work.rows[c] # "active"}]
  /\ Goto(t, "enable")
  /\ UNCHANGED <<order, audit, rows, panel, cup, sms, lock, snap, due, faults,
                 autoRuns>>

EnableClient(t, c) ==
  /\ pc[t] = "enable" /\ lock = t /\ IsNext(c)
  /\ panel[c] # "absent"
  /\ panel' = [panel EXCEPT ![c] = "enabled"]
  /\ work' = [work EXCEPT !.rows[c] = "active", !.todo = @ \ {c}]
  /\ UNCHANGED <<order, audit, rows, cup, sms, lock, pc, snap, due, faults,
                 autoRuns>>

(* A panel call of the approval fails, with or without its effect. *)
CallEffect(t, c) ==
  CASE pc[t] = "provision" /\ panel[c] = "absent"  -> {"absent", "enabled"}
    [] pc[t] = "create"    /\ panel[c] = "absent"  -> {"absent", "disabled"}
    [] pc[t] = "enable"    /\ panel[c] = "disabled" -> {"disabled", "enabled"}
    [] OTHER -> {panel[c]}

(* _finish_failed_modern_order; the legacy path leaves the order's fields. *)
FailedOrder(o) ==
  IF Modern
  THEN [o EXCEPT !.paid = TRUE, !.verification = "verified",
                 !.status = IF @ = "completed" THEN @ ELSE "confirmed",
                 !.provisioning = "failed"]
  ELSE o

ApproveCallFails(t, c) ==
  /\ pc[t] \in {"provision", "create", "enable"} /\ lock = t /\ IsNext(c)
  /\ \E effect \in CallEffect(t, c) : panel' = [panel EXCEPT ![c] = effect]
  /\ work' = [work EXCEPT !.order = FailedOrder(@)]
  /\ Goto(t, "failing")
  /\ UNCHANGED <<order, audit, rows, cup, sms, lock, snap, due, faults,
                 autoRuns>>

(* Mutant: the two status columns are swapped. *)
CompletedOrderSwapped(o) ==
  [o EXCEPT !.paid = TRUE, !.verification = "completed", !.status = "verified",
            !.provisioning = "provisioned"]

(* mark_payment_verified and PROVISIONED. *)
CompletedOrder(o) ==
  [o EXCEPT !.paid = TRUE, !.verification = "verified", !.status = "completed",
            !.provisioning = "provisioned"]

(* A worker's outer transaction also holds the Cups. *)
CommitCompleted(t) ==
  /\ pc[t] \in {"provision", "enable"} /\ lock = t /\ work.todo = {}
  /\ order' = CompletedOrder(work.order)
  /\ rows' = work.rows
  /\ IF t \in Workers
     THEN cup' \in {cup, "active"} /\ End(t, "idle")
     ELSE UNCHANGED cup /\ End(t, "rebuild")
  /\ UNCHANGED <<audit, panel, sms, snap, due, faults, autoRuns>>

(* rebuild_subscription_cups_for_order(force_active=True), after the commit. *)
RebuildCups(t) ==
  /\ pc[t] = "rebuild"
  /\ AuditLocked => cup = "none"
  /\ cup' \in {cup, "active"}
  /\ Goto(t, "idle")
  /\ UNCHANGED <<order, audit, rows, panel, sms, lock, work, snap, due, faults,
                 autoRuns>>

(* A failed delivery commits what was reached; FAILED is saved afterwards. *)
CommitFailed(t) ==
  /\ pc[t] = "failing" /\ lock = t
  /\ order' = IF t \in Workers THEN [work.order EXCEPT !.provisioning = "failed"]
                               ELSE work.order
  /\ rows' = work.rows
  /\ End(t, IF t \in Workers THEN "recordError" ELSE "saveFailed")
  /\ UNCHANGED <<audit, panel, cup, sms, snap, due, faults, autoRuns>>

SaveFailed(t) ==
  /\ pc[t] = "saveFailed" /\ Unlocked
  /\ order' = [order EXCEPT !.provisioning = "failed"]
  /\ Goto(t, "idle")
  /\ UNCHANGED <<audit, rows, panel, cup, sms, lock, work, snap, due, faults,
                 autoRuns>>

RecordError(t) ==
  /\ pc[t] = "recordError" /\ ~AuditLocked
  /\ audit' = [audit EXCEPT !.lastError = TRUE]
  /\ Goto(t, "idle")
  /\ UNCHANGED <<order, rows, panel, cup, sms, lock, work, snap, due, faults,
                 autoRuns>>

-----------------------------------------------------------------------------
(* Human reconciliation of an automatic approval. *)

ConfirmAuto(t) ==
  /\ pc[t] = "idle" /\ Unlocked
  /\ audit.claimed /\ audit.review = "pending" /\ order.status \notin Closed
  /\ audit' = [audit EXCEPT !.review = "verified"]
  /\ order' = [order EXCEPT !.verification = "verified", !.paid = TRUE]
  /\ UNCHANGED <<rows, panel, cup, sms, lock, work, pc, snap, due, faults, autoRuns>>

(* Mutants: revocation is recorded before the calls; only active rows are   *)
(* visited.                                                                 *)
CancellationWorkEager ==
  [NoWork EXCEPT !.order = order, !.rows = rows, !.todo = Known \ audit.revoked,
     !.audit = [audit EXCEPT !.review = "cancelling", !.revoked = Known]]
CancellationWorkActive ==
  [NoWork EXCEPT !.order = order, !.rows = rows,
     !.audit = [audit EXCEPT !.review = "cancelling"],
     !.todo = {c \in Known : rows[c] = "active"}]

CancellationWork ==
  [NoWork EXCEPT
     !.order = order,
     !.audit = [audit EXCEPT !.review = "cancelling", !.lastError = FALSE],
     !.rows = rows,
     !.todo = Known \ audit.revoked,
     !.hadCup = (cup # "none")]

BeginCancelAuto(t) ==
  /\ pc[t] = "idle"
  /\ audit.claimed /\ audit.review # "cancelled"
  /\ Begin(t, "disable", CancellationWork)
  /\ UNCHANGED <<order, audit, rows, panel, cup, sms, snap, due, faults,
                 autoRuns>>

(* set_vpn_client_enabled_by_admin(enabled=False): needs the remote client. *)
DisableClient(t, c) ==
  /\ pc[t] = "disable" /\ lock = t /\ IsNext(c)
  /\ panel[c] # "absent"
  /\ panel' = [panel EXCEPT ![c] = "disabled"]
  /\ work' = [work EXCEPT !.rows[c] = "inactive", !.todo = @ \ {c},
                          !.audit.revoked = @ \cup {c}]
  /\ UNCHANGED <<order, audit, rows, cup, sms, lock, pc, snap, due, faults,
                 autoRuns>>

DisableFails(t, c) ==
  /\ pc[t] = "disable" /\ lock = t /\ IsNext(c)
  /\ \E effect \in {panel[c]} \cup (IF panel[c] = "enabled" THEN {"disabled"} ELSE {}) :
       panel' = [panel EXCEPT ![c] = effect]
  /\ Goto(t, "cancelFailing")
  /\ UNCHANGED <<order, audit, rows, cup, sms, lock, work, snap, due, faults,
                 autoRuns>>

CloseCups == cup' = IF work.hadCup THEN "disabled" ELSE cup

CommitCancelFailed(t) ==
  /\ pc[t] = "cancelFailing" /\ lock = t
  /\ audit' = [work.audit EXCEPT !.review = "cancel_failed", !.lastError = TRUE]
  /\ rows' = work.rows
  /\ CloseCups
  /\ End(t, "idle")
  /\ UNCHANGED <<order, panel, sms, snap, due, faults, autoRuns>>

CommitCancelled(t) ==
  /\ pc[t] = "disable" /\ lock = t /\ work.todo = {}
  /\ order' = [work.order EXCEPT !.status = "cancelled", !.verification = "rejected",
                                 !.paid = FALSE]
  /\ audit' = [work.audit EXCEPT !.review = "cancelled"]
  /\ rows' = work.rows
  /\ CloseCups
  /\ End(t, "idle")
  /\ UNCHANGED <<panel, sms, snap, due, faults, autoRuns>>

-----------------------------------------------------------------------------
(* Rejection by staff and cancellation by the customer. *)

AdminReject(t) ==
  /\ pc[t] = "idle" /\ order.status \notin Closed \cup {"completed"}
  /\ Goto(t, "reject")
  /\ UNCHANGED <<order, audit, rows, panel, cup, sms, lock, work, snap, due,
                 faults, autoRuns>>

(* Mutant: the request tries again instead of giving up. *)
RejectRetries(t) ==
  /\ pc[t] = "reject" /\ Unlocked /\ order.status = "completed"
  /\ UNCHANGED vars

RejectDenied(t) ==
  /\ pc[t] = "reject" /\ Unlocked /\ order.status = "completed"
  /\ Goto(t, "idle")
  /\ UNCHANGED <<order, audit, rows, panel, cup, sms, lock, work, snap, due,
                 faults, autoRuns>>

DeletionWork == [NoWork EXCEPT !.order = order, !.rows = rows, !.todo = Known]

BeginReject(t) ==
  /\ pc[t] = "reject" /\ order.status # "completed"
  /\ Begin(t, "rejecting", DeletionWork)
  /\ UNCHANGED <<order, audit, rows, panel, cup, sms, snap, due, faults,
                 autoRuns>>

(* The bot refuses completed orders, on an unlocked read; the web does not. *)
BotCancel(t) ==
  /\ pc[t] = "idle" /\ order.status # "completed"
  /\ Goto(t, "botCancel")
  /\ UNCHANGED <<order, audit, rows, panel, cup, sms, lock, work, snap, due,
                 faults, autoRuns>>

WebDelete(t) ==
  /\ pc[t] = "idle"
  /\ Goto(t, "cancel")
  /\ UNCHANGED <<order, audit, rows, panel, cup, sms, lock, work, snap, due,
                 faults, autoRuns>>

BeginCancel(t) ==
  /\ pc[t] \in {"botCancel", "cancel"}
  /\ Begin(t, "cancelling", DeletionWork)
  /\ UNCHANGED <<order, audit, rows, panel, cup, sms, snap, due, faults,
                 autoRuns>>

(* A modern panel looks the client up first, and fails when it is absent. *)
DeleteClient(t, c) ==
  /\ pc[t] \in DeleteSteps /\ lock = t /\ IsNext(c)
  /\ Modern => panel[c] # "absent"
  /\ panel' = [panel EXCEPT ![c] = "absent"]
  /\ work' = [work EXCEPT !.todo = @ \ {c}]
  /\ UNCHANGED <<order, audit, rows, cup, sms, lock, pc, snap, due, faults,
                 autoRuns>>

(* A failed deletion ends the handler; nothing of it is written. *)
DeleteFails(t, c) ==
  /\ pc[t] \in DeleteSteps /\ lock = t /\ IsNext(c)
  /\ \E effect \in {panel[c], "absent"} : panel' = [panel EXCEPT ![c] = effect]
  /\ End(t, "idle")
  /\ UNCHANGED <<order, audit, rows, cup, sms, snap, due, faults, autoRuns>>

Suspended(r) == [c \in Clients |-> IF r[c] = "none" THEN "none" ELSE "suspended"]

CommitReject(t) ==
  /\ pc[t] = "rejecting" /\ lock = t /\ work.todo = {}
  /\ order' = [work.order EXCEPT !.status = "rejected", !.verification = "rejected",
                                 !.provisioning = "not_required"]
  /\ rows' = Suspended(work.rows)
  /\ End(t, "idle")
  /\ UNCHANGED <<audit, panel, cup, sms, snap, due, faults, autoRuns>>

CommitCancel(t) ==
  /\ pc[t] = "cancelling" /\ lock = t /\ work.todo = {}
  /\ order' = [work.order EXCEPT !.status = "cancelled", !.provisioning = "not_required"]
  /\ rows' = Suspended(work.rows)
  /\ End(t, "idle")
  /\ UNCHANGED <<audit, panel, cup, sms, snap, due, faults, autoRuns>>

-----------------------------------------------------------------------------
(* The checkout page submits payment details: an unlocked read, then a save *)
(* of every column of the row that was read.                                *)

CheckoutRead(t) ==
  /\ pc[t] = "idle" /\ order.status # "completed"
  /\ snap' = [snap EXCEPT ![t] = order]
  /\ Goto(t, "submitting")
  /\ UNCHANGED <<order, audit, rows, panel, cup, sms, lock, work, due, faults,
                 autoRuns>>

CheckoutSave(t) ==
  /\ pc[t] = "submitting" /\ Unlocked
  /\ order' = [snap[t] EXCEPT !.paid = TRUE, !.status = "pending_verification",
                              !.verification = "pending"]
  /\ due' = FALSE
  /\ snap' = [snap EXCEPT ![t] = NoWork.order]
  /\ Goto(t, "idle")
  /\ UNCHANGED <<audit, rows, panel, cup, sms, lock, work, faults, autoRuns>>

-----------------------------------------------------------------------------
(* Time and failures. *)

ReceiptDue ==
  /\ ~due
  /\ due' = TRUE
  /\ UNCHANGED <<order, audit, rows, panel, cup, sms, lock, work, pc, snap,
                 faults, autoRuns>>

(* A thread dies or its transaction raises: the database rolls back, the    *)
(* panel does not.  A worker that survives the exception records it.        *)
Crash(t) ==
  /\ pc[t] # "idle" /\ faults < MaxFaults
  /\ faults' = faults + 1
  /\ \E step \in {"idle"} \cup
        (IF t \in Workers /\ lock = t THEN {"recordError"} ELSE {}) : Goto(t, step)
  /\ IF lock = t THEN lock' = NoThread /\ work' = NoWork ELSE UNCHANGED <<lock, work>>
  /\ snap' = IF t \in Requests THEN [snap EXCEPT ![t] = NoWork.order] ELSE snap
  /\ UNCHANGED <<order, audit, rows, panel, cup, sms, due, autoRuns>>

-----------------------------------------------------------------------------

ApproveStep(t) ==
  \/ ApproveRefused(t) \/ BeginApprove(t) \/ BeginEnable(t)
  \/ CommitCompleted(t) \/ CommitFailed(t) \/ RecordError(t)
  \/ \E c \in Clients : \/ ProvisionClient(t, c) \/ CreateMissing(t, c)
                        \/ EnableClient(t, c) \/ ApproveCallFails(t, c)

WorkerNext(t) == ClaimAuto(t) \/ ApproveStep(t) \/ Crash(t)

RequestStart(t) ==
  \/ AdminApprove(t) \/ SmsConfirm(t) \/ ConfirmAuto(t) \/ BeginCancelAuto(t)
  \/ AdminReject(t) \/ BotCancel(t) \/ WebDelete(t) \/ CheckoutRead(t)

RequestStep(t) ==
  \/ ApproveStep(t) \/ RebuildCups(t) \/ SaveFailed(t)
  \/ CommitCancelFailed(t) \/ CommitCancelled(t)
  \/ RejectDenied(t) \/ BeginReject(t) \/ BeginCancel(t)
  \/ CommitReject(t) \/ CommitCancel(t) \/ CheckoutSave(t)
  \/ \E c \in Clients : \/ DisableClient(t, c) \/ DisableFails(t, c)
                        \/ DeleteClient(t, c) \/ DeleteFails(t, c)

RequestNext(t) == RequestStart(t) \/ RequestStep(t) \/ Crash(t)

Next ==
  \/ \E t \in Workers : WorkerNext(t)
  \/ \E t \in Requests : RequestNext(t)
  \/ ReceiptDue

Spec == Init /\ [][Next]_vars

(* Handlers run to their end once started, waits for a row lock are served, *)
(* the worker loop keeps running.  Users are not obliged to do anything.    *)
Fairness ==
  /\ \A t \in Workers : /\ SF_vars(ClaimAuto(t))
                        /\ SF_vars(ApproveStep(t))
  /\ \A t \in Requests : SF_vars(RequestStep(t))
  /\ WF_vars(ReceiptDue)

FairSpec == Spec /\ Fairness

-----------------------------------------------------------------------------
(* Properties. *)

(* Every variable has its type.  One transaction holds the order's row. *)
TypeOK ==
  /\ order \in OrderRow
  /\ audit \in AuditRow
  /\ rows \in [Clients -> RowStatus]
  /\ panel \in [Clients -> PanelState]
  /\ cup \in {"none", "active", "disabled"}
  /\ sms \in {"matched", "confirmed"}
  /\ lock \in Threads \cup {NoThread}
  /\ work \in Work
  /\ pc \in [Threads -> Steps]
  /\ snap \in [Requests -> OrderRow]
  /\ due \in BOOLEAN
  /\ faults \in 0..MaxFaults
  /\ autoRuns \in Nat

(* A client that a cancellation has recorded as revoked is never enabled on *)
(* the panel again, whoever approves, retries or resubmits the order.       *)
RevokedStayOff == \A c \in audit.revoked : panel[c] # "enabled"

(* An order marked cancelled after an automatic approval has every client   *)
(* it has a row for recorded as revoked, and none of them enabled.          *)
CancellationComplete ==
  audit.review = "cancelled" =>
    \A c \in Known : c \in audit.revoked /\ panel[c] # "enabled"

(* No step enables a panel client of an order whose cancellation has been   *)
(* recorded or that is rejected or cancelled.                               *)
ClosedEnablesNothing ==
  [][(audit.review \in CancelStates \/ order.status \in Closed) =>
       \A c \in Clients : panel'[c] = "enabled" => panel[c] = "enabled"]_vars

(* The step that completes a modern order leaves all its clients enabled on *)
(* the panel and active in the database, after any mixture of failed        *)
(* attempts, lost answers, rejections and cancellations that came before.   *)
CompletionDelivers ==
  [][(order'.status = "completed" /\ order.status # "completed") =>
       \A c \in Clients : panel'[c] = "enabled" /\ rows'[c] = "active"]_vars

(* Automatic provisioning is started at most once, also after a crash.      *)
SingleAutomaticAttempt == autoRuns <= 1

(* A due receipt that nobody decides about is claimed by a worker.          *)
DueReceiptDecided ==
  (PendingReceipt /\ due) ~> (audit.claimed \/ ~PendingReceipt \/ ~due)

(* Every handler that waits for the row lock gets it and ends.              *)
HandlersEnd == \A t \in Threads : pc[t] # "idle" ~> pc[t] = "idle"

(* The abstract promise: after a recorded cancellation clients are only     *)
(* switched off, and what is recorded as revoked is off when it is recorded.*)
Enabled == {c \in Clients : panel[c] = "enabled"}
Stage == IF audit.review = "cancelled" THEN "cancelled"
         ELSE IF audit.review \in CancelStates THEN "incomplete" ELSE "open"

Promise == INSTANCE Revocation WITH on <- Enabled, revoked <- audit.revoked, stage <- Stage

KeepsPromise == Promise!Spec

-----------------------------------------------------------------------------
(* The parts of the inductive invariant behind the safety properties. *)

(* The handlers inside a transaction are the owners of the row lock. *)
Locking == \A t \in Threads : pc[t] \in TxSteps <=> lock = t

(* Nobody closes an order while an approval is at work on it. *)
ApprovingOpen ==
  \A t \in Threads : pc[t] \in ApproveSteps =>
     audit.review \notin CancelStates /\ order.status \notin Closed

(* Revocations are recorded by cancellations of claimed orders only. *)
RevokedByCancellation ==
  /\ audit.review \notin CancelStates => audit.revoked = {}
  /\ audit.review \in CancelStates => audit.claimed

(* A cancellation under way: what it has revoked so far is off, and what    *)
(* it has a row for is revoked or still to be visited.                      *)
CancellingSound ==
  \A t \in Threads : pc[t] \in CancelAutoSteps =>
    /\ audit.claimed /\ work.audit.claimed
    /\ audit.review # "cancelled"
    /\ audit.revoked \subseteq work.audit.revoked
    /\ \A c \in work.audit.revoked : panel[c] # "enabled"
    /\ \A c \in Clients :
         work.rows[c] # "none" => c \in work.todo \cup work.audit.revoked

(* A deletion writes the rows it has read. *)
DeletingSound == \A t \in Threads : pc[t] \in DeleteSteps => work.rows = rows

(* The claim counts the attempts. *)
ClaimCounts ==
  /\ audit.claimed => autoRuns = 1
  /\ ~audit.claimed => autoRuns = 0

(* An approval works on an incomplete order; a modern one has enabled the   *)
(* clients it has visited.                                                  *)
ProvisionedSoFar ==
  \A t \in Threads :
    /\ pc[t] \in ApproveSteps => work.order.status # "completed"
    /\ pc[t] = "provision" =>
         \A c \in Clients \ work.todo : panel[c] = "enabled" /\ work.rows[c] = "active"
    /\ pc[t] \in {"create", "enable"} => ~Modern

(* The inductive invariant that the proofs use. *)
SafetyInv ==
  /\ Locking /\ ApprovingOpen /\ RevokedByCancellation /\ CancellingSound
  /\ DeletingSound /\ ClaimCounts /\ ProvisionedSoFar
  /\ RevokedStayOff /\ CancellationComplete
=============================================================================
