------------------------ MODULE OrderLifecycleProofs ------------------------
(***************************************************************************)
(* The safety of one order's life cycle, for any number of requests,       *)
(* workers and clients and any number of crashes.                          *)
(***************************************************************************)
EXTENDS OrderLifecycle, TLAPS

USE DEF Threads

-----------------------------------------------------------------------------
(* Type correctness. *)

(* The empty transaction has the type of a transaction's uncommitted rows. *)
LEMMA NoWorkType == NoWork \in Work
BY DEF NoWork, Work, OrderRow, AuditRow, Status, Verification, Provisioning, Review, RowStatus

(* So have the rows with which each kind of transaction starts. *)
LEMMA ApprovalWorkType == ASSUME TypeOK PROVE ApprovalWork \in Work
<1>1. ApprovalWork.order \in OrderRow
  BY NoWorkType, StrategyAssumption
     DEF TypeOK, ApprovalWork, OrderRow, NoWork, Status, Verification, Provisioning
<1>2. ApprovalWork.todo \in SUBSET Clients
  BY StrategyAssumption DEF ApprovalWork, NoWork
<1>3. QED
  BY NoWorkType, <1>1, <1>2 DEF ApprovalWork, TypeOK, NoWork, Work

(* The audit row a cancellation starts with: CANCELLING, no error. *)
LEMMA CancellationWorkType == ASSUME TypeOK PROVE CancellationWork \in Work
<1> DEFINE a == [audit EXCEPT !.review = "cancelling", !.lastError = FALSE]
<1>1. a \in AuditRow
  BY DEF TypeOK, AuditRow, Review
<1>2. Known \ audit.revoked \in SUBSET Clients
  BY DEF Known
<1>3. (cup # "none") \in BOOLEAN
  OBVIOUS
<1> HIDE DEF a
<1>4. CancellationWork = [NoWork EXCEPT !.order = order, !.audit = a, !.rows = rows,
                             !.todo = Known \ audit.revoked, !.hadCup = (cup # "none")]
  BY DEF CancellationWork, a
<1>5. QED
  BY NoWorkType, <1>1, <1>2, <1>3, <1>4 DEF TypeOK, NoWork, Work

(* A rejection or a customer's cancellation starts with the rows it read. *)
LEMMA DeletionWorkType == ASSUME TypeOK PROVE DeletionWork \in Work
BY NoWorkType DEF DeletionWork, TypeOK, NoWork, Work, Known

(* A failed delivery writes a legal Order row. *)
LEMMA FailedOrderType == ASSUME NEW o \in OrderRow PROVE FailedOrder(o) \in OrderRow
<1> DEFINE s == IF o.status = "completed" THEN o.status ELSE "confirmed"
<1>1. s \in Status
  BY DEF OrderRow, Status
<1>2. FailedOrder(o) = IF Modern THEN [o EXCEPT !.paid = TRUE, !.verification = "verified",
                                                !.status = s, !.provisioning = "failed"]
                                 ELSE o
  BY DEF FailedOrder
<1> HIDE DEF s
<1>3. [o EXCEPT !.paid = TRUE, !.verification = "verified", !.status = s,
                !.provisioning = "failed"] \in OrderRow
  BY <1>1 DEF OrderRow, Verification, Provisioning
<1>4. QED
  BY <1>2, <1>3

(* No step leaves the types. *)
LEMMA TypeStep == TypeOK /\ [Next]_vars => TypeOK'
<1> SUFFICES ASSUME TypeOK, [Next]_vars PROVE TypeOK'
  OBVIOUS
<1> USE NoWorkType
<1>1. ASSUME NEW t \in Workers, ClaimAuto(t) PROVE TypeOK'
  <2>1. audit' = [audit EXCEPT !.claimed = TRUE, !.review = "pending"]
    BY <1>1 DEF ClaimAuto, Claimable
  <2>2. audit' \in AuditRow
    BY <2>1 DEF TypeOK, AuditRow, Review
  <2>3. QED
    BY <1>1, <2>2 DEF TypeOK, ClaimAuto, Claimable, Goto, Steps
<1>2. ASSUME NEW t \in Threads, ApproveStep(t) PROVE TypeOK'
  <2>1. CASE ApproveRefused(t)
    BY <2>1 DEF TypeOK, ApproveRefused, Goto, Steps
  <2>2. CASE BeginApprove(t)
    BY <2>2, ApprovalWorkType DEF TypeOK, BeginApprove, Begin, Goto, Steps, TxSteps, ApproveSteps
  <2>3. CASE BeginEnable(t)
    BY <2>3 DEF TypeOK, BeginEnable, Goto, Work, Steps, TxSteps, ApproveSteps
  <2>4. CASE CommitCompleted(t)
    <3>1. order' = CompletedOrder(work.order)
      BY <2>4 DEF CommitCompleted
    <3>2. order' \in OrderRow
      BY <3>1 DEF TypeOK, CompletedOrder, Work, OrderRow, Status, Verification, Provisioning
    <3>3. cup' \in {"none", "active", "disabled"}
      BY <2>4 DEF CommitCompleted, TypeOK
    <3>4. QED
      BY <2>4, <3>2, <3>3 DEF TypeOK, CommitCompleted, End, Goto, Work, Steps
  <2>5. CASE CommitFailed(t)
    <3>1. order' \in OrderRow
      BY <2>5 DEF TypeOK, CommitFailed, Work, OrderRow, Provisioning
    <3>2. QED
      BY <2>5, <3>1 DEF TypeOK, CommitFailed, End, Goto, Work, Steps
  <2>6. CASE RecordError(t)
    <3>1. audit' = [audit EXCEPT !.lastError = TRUE]
      BY <2>6 DEF RecordError
    <3>2. audit' \in AuditRow
      BY <3>1 DEF TypeOK, AuditRow
    <3>3. QED
      BY <2>6, <3>2 DEF TypeOK, RecordError, Goto, Steps
  <2>7. ASSUME NEW c \in Clients, ProvisionClient(t, c) PROVE TypeOK'
    BY <2>7 DEF TypeOK, ProvisionClient, Work, RowStatus, PanelState
  <2>8. ASSUME NEW c \in Clients, CreateMissing(t, c) PROVE TypeOK'
    BY <2>8 DEF TypeOK, CreateMissing, Work, RowStatus, PanelState
  <2>9. ASSUME NEW c \in Clients, EnableClient(t, c) PROVE TypeOK'
    BY <2>9 DEF TypeOK, EnableClient, Work, RowStatus, PanelState
  <2>10. ASSUME NEW c \in Clients, ApproveCallFails(t, c) PROVE TypeOK'
    <3>1. FailedOrder(work.order) \in OrderRow
      BY FailedOrderType DEF TypeOK, Work
    <3>2. work' \in Work
      BY <2>10, <3>1 DEF TypeOK, ApproveCallFails, Work
    <3>3. panel' \in [Clients -> PanelState]
      BY <2>10 DEF TypeOK, ApproveCallFails, CallEffect, PanelState
    <3>4. QED
      BY <2>10, <3>2, <3>3 DEF TypeOK, ApproveCallFails, Goto, Steps, TxSteps, ApproveSteps
  <2>11. QED
    BY <1>2, <2>1, <2>2, <2>3, <2>4, <2>5, <2>6, <2>7, <2>8, <2>9, <2>10 DEF ApproveStep
<1>3. ASSUME NEW t \in Requests, RequestStart(t) PROVE TypeOK'
  <2>1. CASE AdminApprove(t)
    BY <2>1 DEF TypeOK, AdminApprove, Goto, Steps
  <2>2. CASE SmsConfirm(t)
    <3>1. order' \in OrderRow
      BY <2>2 DEF TypeOK, SmsConfirm, OrderRow, Status, Verification
    <3>2. QED
      BY <2>2, <3>1 DEF TypeOK, SmsConfirm, Goto, Steps
  <2>3. CASE ConfirmAuto(t)
    <3>1. /\ audit' = [audit EXCEPT !.review = "verified"]
          /\ order' = [order EXCEPT !.verification = "verified", !.paid = TRUE]
      BY <2>3 DEF ConfirmAuto
    <3>2. audit' \in AuditRow
      BY <3>1 DEF TypeOK, AuditRow, Review
    <3>3. order' \in OrderRow
      BY <3>1 DEF TypeOK, OrderRow, Verification
    <3>4. QED
      BY <2>3, <3>2, <3>3 DEF TypeOK, ConfirmAuto
  <2>4. CASE BeginCancelAuto(t)
    BY <2>4, CancellationWorkType
       DEF TypeOK, BeginCancelAuto, Begin, Goto, Steps, TxSteps, CancelAutoSteps
  <2>5. CASE AdminReject(t)
    BY <2>5 DEF TypeOK, AdminReject, Goto, Steps
  <2>6. CASE BotCancel(t)
    BY <2>6 DEF TypeOK, BotCancel, Goto, Steps
  <2>7. CASE WebDelete(t)
    BY <2>7 DEF TypeOK, WebDelete, Goto, Steps
  <2>8. CASE CheckoutRead(t)
    BY <2>8 DEF TypeOK, CheckoutRead, Goto, Steps
  <2>9. QED
    BY <1>3, <2>1, <2>2, <2>3, <2>4, <2>5, <2>6, <2>7, <2>8 DEF RequestStart
<1>4. ASSUME NEW t \in Requests, RequestStep(t) PROVE TypeOK'
  <2>1. CASE RebuildCups(t)
    BY <2>1 DEF TypeOK, RebuildCups, Goto, Steps
  <2>2. CASE SaveFailed(t)
    BY <2>2 DEF TypeOK, SaveFailed, Goto, Steps, OrderRow, Provisioning
  <2>3. CASE CommitCancelFailed(t)
    <3>1. audit' = [work.audit EXCEPT !.review = "cancel_failed", !.lastError = TRUE]
      BY <2>3 DEF CommitCancelFailed
    <3>2. audit' \in AuditRow
      BY <3>1 DEF TypeOK, Work, AuditRow, Review
    <3>3. cup' \in {"none", "active", "disabled"}
      BY <2>3 DEF CommitCancelFailed, CloseCups, TypeOK
    <3>4. QED
      BY <2>3, <3>2, <3>3 DEF TypeOK, CommitCancelFailed, End, Goto, Work, Steps
  <2>4. CASE CommitCancelled(t)
    <3>1. /\ order' = [work.order EXCEPT !.status = "cancelled", !.verification = "rejected",
                                         !.paid = FALSE]
          /\ audit' = [work.audit EXCEPT !.review = "cancelled"]
      BY <2>4 DEF CommitCancelled
    <3>2. order' \in OrderRow
      BY <3>1 DEF TypeOK, Work, OrderRow, Status, Verification
    <3>3. audit' \in AuditRow
      BY <3>1 DEF TypeOK, Work, AuditRow, Review
    <3>4. cup' \in {"none", "active", "disabled"}
      BY <2>4 DEF CommitCancelled, CloseCups, TypeOK
    <3>5. QED
      BY <2>4, <3>2, <3>3, <3>4 DEF TypeOK, CommitCancelled, End, Goto, Work, Steps
  <2>5. CASE RejectDenied(t)
    BY <2>5 DEF TypeOK, RejectDenied, Goto, Steps
  <2>6. CASE BeginReject(t)
    BY <2>6, DeletionWorkType DEF TypeOK, BeginReject, Begin, Goto, Steps, TxSteps, DeleteSteps
  <2>7. CASE BeginCancel(t)
    BY <2>7, DeletionWorkType DEF TypeOK, BeginCancel, Begin, Goto, Steps, TxSteps, DeleteSteps
  <2>8. CASE CommitReject(t) \/ CommitCancel(t)
    <3>1. rows' \in [Clients -> RowStatus]
      BY <2>8 DEF CommitReject, CommitCancel, Suspended, RowStatus
    <3>2. order' \in OrderRow
      BY <2>8 DEF TypeOK, CommitReject, CommitCancel, Work, OrderRow, Status, Verification,
                  Provisioning
    <3>3. QED
      BY <2>8, <3>1, <3>2 DEF TypeOK, CommitReject, CommitCancel, End, Goto, Steps
  <2>9. CASE CheckoutSave(t)
    <3>1. order' = [snap[t] EXCEPT !.paid = TRUE, !.status = "pending_verification",
                                   !.verification = "pending"]
      BY <2>9 DEF CheckoutSave
    <3>2. order' \in OrderRow
      BY <3>1 DEF TypeOK, OrderRow, Status, Verification
    <3>3. snap' \in [Requests -> OrderRow]
      BY <2>9 DEF TypeOK, CheckoutSave, Work
    <3>4. QED
      BY <2>9, <3>2, <3>3 DEF TypeOK, CheckoutSave, Goto, Steps
  <2>10. ASSUME NEW c \in Clients, DisableClient(t, c) PROVE TypeOK'
    BY <2>10 DEF TypeOK, DisableClient, Work, RowStatus, PanelState, AuditRow
  <2>11. ASSUME NEW c \in Clients, DisableFails(t, c) PROVE TypeOK'
    BY <2>11 DEF TypeOK, DisableFails, PanelState, Goto, Steps, TxSteps, CancelAutoSteps
  <2>12. ASSUME NEW c \in Clients, DeleteClient(t, c) PROVE TypeOK'
    BY <2>12 DEF TypeOK, DeleteClient, PanelState, Work
  <2>13. ASSUME NEW c \in Clients, DeleteFails(t, c) PROVE TypeOK'
    BY <2>13 DEF TypeOK, DeleteFails, PanelState, End, Goto, Steps
  <2>14. QED
    BY <1>2, <1>4, <2>1, <2>2, <2>3, <2>4, <2>5, <2>6, <2>7, <2>8, <2>9, <2>10, <2>11,
       <2>12, <2>13 DEF RequestStep
<1>5. ASSUME NEW t \in Threads, Crash(t) PROVE TypeOK'
  BY <1>5, FaultsAssumption DEF TypeOK, Crash, Goto, Steps, Work
<1>6. CASE ReceiptDue
  BY <1>6 DEF TypeOK, ReceiptDue
<1>7. CASE UNCHANGED vars
  BY <1>7 DEF TypeOK, vars
<1>8. QED
  BY <1>1, <1>2, <1>3, <1>4, <1>5, <1>6, <1>7 DEF Next, WorkerNext, RequestNext

(* A submitted order is well typed. *)
LEMMA TypeInit == Init => TypeOK
<1> SUFFICES ASSUME Init PROVE TypeOK
  OBVIOUS
<1> USE NoWorkType
<1>1. rows \in [Clients -> RowStatus]
  BY DEF Init, NoRows, PreCreated, RowStatus
<1>2. panel \in [Clients -> PanelState]
  BY DEF Init, PanelState
<1>3. order \in OrderRow
  BY DEF Init, OrderRow, Status, Verification, Provisioning
<1>4. audit \in AuditRow /\ snap \in [Requests -> OrderRow]
  BY DEF Init, Work
<1>5. pc \in [Threads -> Steps]
  BY DEF Init, Steps
<1>6. faults \in 0..MaxFaults /\ autoRuns \in Nat
  BY FaultsAssumption DEF Init
<1>7. QED
  BY <1>1, <1>2, <1>3, <1>4, <1>5, <1>6 DEF Init, TypeOK

(* Every reachable state is well typed, for any number of threads, clients  *)
(* and crashes: the row a handler commits is always a legal row.            *)
THEOREM TypeCorrect == Spec => []TypeOK
<1>1. QED
  BY TypeInit, TypeStep, PTL DEF Spec

-----------------------------------------------------------------------------
(* The inductive invariant. *)

(* A submitted order satisfies the invariant: nobody works on it. *)
LEMMA SafetyInit == Init => SafetyInv
<1> SUFFICES ASSUME Init PROVE SafetyInv
  OBVIOUS
<1>1. \A t \in Threads : pc[t] = "idle" /\ lock # t
  BY ThreadsAssumption DEF Init
<1>2. audit.review = "" /\ audit.revoked = {} /\ ~audit.claimed /\ autoRuns = 0
  BY DEF Init, NoWork
<1>3. Locking /\ ApprovingOpen /\ CancellingSound /\ DeletingSound /\ ProvisionedSoFar
  BY <1>1 DEF Locking, ApprovingOpen, CancellingSound, DeletingSound, ProvisionedSoFar,
              TxSteps, ApproveSteps, CancelAutoSteps, DeleteSteps
<1>4. RevokedByCancellation /\ ClaimCounts /\ RevokedStayOff /\ CancellationComplete
  BY <1>2 DEF RevokedByCancellation, ClaimCounts, RevokedStayOff, CancellationComplete,
              CancelStates
<1>5. QED
  BY <1>3, <1>4 DEF SafetyInv

(* A step outside the transactions that at most saves the order's own       *)
(* columns while the row is unlocked.                                       *)
LEMMA OutsideStep ==
  ASSUME TypeOK, SafetyInv, NEW t \in Threads, NEW step \in Steps \ TxSteps,
         pc[t] \notin TxSteps, pc' = [pc EXCEPT ![t] = step],
         Unlocked \/ order' = order,
         UNCHANGED <<audit, rows, panel, lock, work, autoRuns>>
  PROVE  SafetyInv'
<1>1. \A u \in Threads : /\ pc'[u] \in TxSteps => u # t /\ pc'[u] = pc[u]
                         /\ pc[u] \in TxSteps => u # t /\ pc'[u] = pc[u]
  BY DEF TypeOK
<1>2. Locking'
  BY <1>1 DEF SafetyInv, Locking
<1>3. ApprovingOpen'
  BY <1>1, ThreadsAssumption DEF SafetyInv, Locking, ApprovingOpen, TxSteps, Unlocked
<1>4. CancellingSound' /\ DeletingSound' /\ ProvisionedSoFar'
  BY <1>1 DEF SafetyInv, CancellingSound, DeletingSound, ProvisionedSoFar, TxSteps,
              ApproveSteps, CancelAutoSteps, DeleteSteps
<1>5. RevokedByCancellation' /\ ClaimCounts' /\ RevokedStayOff' /\ CancellationComplete'
  BY DEF SafetyInv, RevokedByCancellation, ClaimCounts, RevokedStayOff,
         CancellationComplete, Known
<1>6. QED
  BY <1>2, <1>3, <1>4, <1>5 DEF SafetyInv

(* A transaction that ends without changing the rows of the order's clients *)
(* or the audit: a rollback, or a deletion that failed.                     *)
LEMMA RollbackStep ==
  ASSUME TypeOK, SafetyInv, NEW t \in Threads, NEW step \in Steps \ TxSteps,
         lock = t, lock' = NoThread, pc' = [pc EXCEPT ![t] = step],
         \A c \in Clients : panel'[c] = "enabled" => panel[c] = "enabled",
         UNCHANGED <<audit, rows, autoRuns>>
  PROVE  SafetyInv'
<1>1. \A u \in Threads : pc'[u] \notin TxSteps
  BY DEF TypeOK, SafetyInv, Locking
<1>2. Locking' /\ ApprovingOpen' /\ CancellingSound' /\ DeletingSound' /\ ProvisionedSoFar'
  BY <1>1, ThreadsAssumption
     DEF Locking, ApprovingOpen, CancellingSound, DeletingSound, ProvisionedSoFar, TxSteps,
         ApproveSteps, CancelAutoSteps, DeleteSteps
<1>3. RevokedByCancellation' /\ ClaimCounts' /\ RevokedStayOff' /\ CancellationComplete'
  BY DEF TypeOK, AuditRow, SafetyInv, RevokedByCancellation, ClaimCounts, RevokedStayOff,
         CancellationComplete, Known
<1>4. QED
  BY <1>2, <1>3 DEF SafetyInv

(* A transaction that starts: its owner is the only thread inside one. *)
LEMMA BeginLocking ==
  ASSUME TypeOK, SafetyInv, NEW t \in Threads, NEW step \in TxSteps, NEW w, Begin(t, step, w)
  PROVE  /\ Locking'
         /\ \A u \in Threads : pc'[u] \in TxSteps <=> u = t
         /\ pc'[t] = step
         /\ work' = w
<1>1. TxSteps \subseteq Steps
  BY DEF Steps
<1>2. \A u \in Threads : pc[u] \notin TxSteps
  BY ThreadsAssumption DEF SafetyInv, Locking, Begin, Unlocked
<1>3. pc' = [pc EXCEPT ![t] = step] /\ lock' = t /\ work' = w
  BY DEF Begin, Goto
<1>4. QED
  BY <1>1, <1>2, <1>3 DEF Locking, TypeOK

(* A step of an approval's loop: the order is open, so nothing is revoked. *)
LEMMA ApproveLoopStep ==
  ASSUME TypeOK, SafetyInv, NEW t \in Threads, lock = t, pc[t] \in ApproveSteps,
         NEW step \in ApproveSteps, pc' = [pc EXCEPT ![t] = step],
         UNCHANGED <<order, audit, rows, lock, autoRuns>>, ProvisionedSoFar'
  PROVE  SafetyInv'
<1>1. \A u \in Threads : pc'[u] \in TxSteps <=> u = t
  BY DEF TypeOK, SafetyInv, Locking, TxSteps
<1>2. pc'[t] \in ApproveSteps
  BY DEF TypeOK
<1>3. audit.review \notin CancelStates /\ order.status \notin Closed /\ audit.revoked = {}
  BY DEF SafetyInv, ApprovingOpen, RevokedByCancellation
<1>4. Locking' /\ ApprovingOpen' /\ CancellingSound' /\ DeletingSound'
  BY <1>1, <1>2, <1>3
     DEF Locking, ApprovingOpen, CancellingSound, DeletingSound, TxSteps, ApproveSteps,
         CancelAutoSteps, DeleteSteps
<1>5. RevokedByCancellation' /\ ClaimCounts' /\ RevokedStayOff' /\ CancellationComplete'
  BY <1>3 DEF SafetyInv, RevokedByCancellation, ClaimCounts, RevokedStayOff,
              CancellationComplete, CancelStates
<1>6. QED
  BY <1>4, <1>5 DEF SafetyInv

(* An approval that commits. *)
LEMMA ApproveEndStep ==
  ASSUME TypeOK, SafetyInv, NEW t \in Threads, lock = t, pc[t] \in ApproveSteps,
         NEW step \in Steps \ TxSteps, pc' = [pc EXCEPT ![t] = step], lock' = NoThread,
         UNCHANGED <<audit, panel, autoRuns>>
  PROVE  SafetyInv'
<1>1. \A u \in Threads : pc'[u] \notin TxSteps
  BY DEF TypeOK, SafetyInv, Locking
<1>2. Locking' /\ ApprovingOpen' /\ CancellingSound' /\ DeletingSound' /\ ProvisionedSoFar'
  BY <1>1, ThreadsAssumption
     DEF Locking, ApprovingOpen, CancellingSound, DeletingSound, ProvisionedSoFar, TxSteps,
         ApproveSteps, CancelAutoSteps, DeleteSteps
<1>3. audit.review \notin CancelStates
  BY DEF SafetyInv, ApprovingOpen
<1>4. RevokedByCancellation' /\ ClaimCounts' /\ RevokedStayOff' /\ CancellationComplete'
  BY <1>3 DEF SafetyInv, RevokedByCancellation, ClaimCounts, RevokedStayOff,
              CancellationComplete, CancelStates
<1>5. QED
  BY <1>2, <1>4 DEF SafetyInv

(* The steps of approvals. *)
LEMMA ApproveSafe ==
  ASSUME TypeOK, SafetyInv, NEW t \in Threads, ApproveStep(t) PROVE SafetyInv'
<1> USE DEF Goto, End
<1>1. CASE ApproveRefused(t)
  <2>1. PICK step \in {"idle", "recordError"} : pc' = [pc EXCEPT ![t] = step]
    BY <1>1 DEF ApproveRefused
  <2>2. QED
    BY <1>1, <2>1, OutsideStep
       DEF ApproveRefused, Steps, TxSteps, ApproveSteps, CancelAutoSteps, DeleteSteps
<1>2. CASE BeginApprove(t)
  <2>1. PICK step \in {"provision", "create"} :
          Begin(t, step, ApprovalWork) /\ step = IF Modern THEN "provision" ELSE "create"
    BY <1>2, StrategyAssumption DEF BeginApprove
  <2>2. /\ Locking' /\ pc'[t] = step /\ work' = ApprovalWork
        /\ \A u \in Threads : pc'[u] \in TxSteps <=> u = t
    BY <2>1, BeginLocking DEF TxSteps, ApproveSteps
  <2>3. UNCHANGED <<order, audit, rows, panel, autoRuns>>
    BY <1>2 DEF BeginApprove
  <2>4. ApprovingOpen' /\ CancellingSound' /\ DeletingSound'
    BY <1>2, <2>2, <2>3
       DEF BeginApprove, Refused, ApprovingOpen, CancellingSound, DeletingSound, TxSteps,
           ApproveSteps, CancelAutoSteps, DeleteSteps
  <2>5. Modern => work'.todo = Clients
    BY <2>2 DEF ApprovalWork, NoWork
  <2>6. ProvisionedSoFar'
    <3>1. order.status # "completed"
      BY <1>2 DEF BeginApprove, Refused
    <3>2. work'.order.status # "completed"
      BY <2>2, <3>1 DEF ApprovalWork, NoWork, TypeOK, OrderRow
    <3>3. QED
      BY <2>1, <2>2, <2>5, <3>2 DEF ProvisionedSoFar, TxSteps, ApproveSteps
  <2>7. RevokedByCancellation' /\ ClaimCounts' /\ RevokedStayOff' /\ CancellationComplete'
    BY <2>3 DEF SafetyInv, RevokedByCancellation, ClaimCounts, RevokedStayOff,
                CancellationComplete, Known
  <2>8. QED
    BY <2>2, <2>4, <2>6, <2>7 DEF SafetyInv
<1>3. CASE BeginEnable(t)
  <2>1. ProvisionedSoFar'
    BY <1>3 DEF BeginEnable, TypeOK, SafetyInv, Locking, ProvisionedSoFar, TxSteps, ApproveSteps
  <2>2. QED
    BY <1>3, <2>1, ApproveLoopStep DEF BeginEnable, ApproveSteps
<1>4. CASE CommitCompleted(t)
  <2>1. PICK step \in {"idle", "rebuild"} : pc' = [pc EXCEPT ![t] = step]
    BY <1>4 DEF CommitCompleted
  <2>2. lock' = NoThread /\ lock = t /\ pc[t] \in ApproveSteps
        /\ UNCHANGED <<audit, panel, autoRuns>>
    BY <1>4 DEF CommitCompleted, ApproveSteps
  <2>3. QED
    BY <2>1, <2>2, ApproveEndStep DEF Steps, TxSteps, ApproveSteps, CancelAutoSteps, DeleteSteps
<1>5. CASE CommitFailed(t)
  <2>1. PICK step \in {"recordError", "saveFailed"} : pc' = [pc EXCEPT ![t] = step]
    BY <1>5 DEF CommitFailed
  <2>2. lock' = NoThread /\ lock = t /\ pc[t] \in ApproveSteps
        /\ UNCHANGED <<audit, panel, autoRuns>>
    BY <1>5 DEF CommitFailed, ApproveSteps
  <2>3. QED
    BY <2>1, <2>2, ApproveEndStep DEF Steps, TxSteps, ApproveSteps, CancelAutoSteps, DeleteSteps
<1>6. CASE RecordError(t)
  <2>1. /\ audit'.review = audit.review /\ audit'.revoked = audit.revoked
        /\ audit'.claimed = audit.claimed
    BY <1>6 DEF RecordError, TypeOK, AuditRow
  <2>2. /\ pc' = [pc EXCEPT ![t] = "idle"] /\ pc[t] = "recordError"
        /\ UNCHANGED <<order, rows, panel, lock, work, autoRuns>>
    BY <1>6 DEF RecordError
  <2>3. \A u \in Threads : /\ pc'[u] \in TxSteps => pc'[u] = pc[u]
                           /\ pc[u] \in TxSteps => pc'[u] = pc[u]
    BY <2>2 DEF TypeOK, TxSteps, ApproveSteps, CancelAutoSteps, DeleteSteps
  <2>4. Locking' /\ ApprovingOpen' /\ DeletingSound' /\ ProvisionedSoFar'
    BY <2>1, <2>2, <2>3 DEF SafetyInv, Locking, ApprovingOpen, DeletingSound,
                            ProvisionedSoFar, TxSteps, ApproveSteps, DeleteSteps
  <2>5. CancellingSound'
    BY <2>1, <2>2, <2>3 DEF SafetyInv, CancellingSound, TxSteps
  <2>6. RevokedByCancellation' /\ ClaimCounts' /\ RevokedStayOff' /\ CancellationComplete'
    BY <2>1, <2>2 DEF SafetyInv, RevokedByCancellation, ClaimCounts, RevokedStayOff,
                      CancellationComplete, Known
  <2>7. QED
    BY <2>4, <2>5, <2>6 DEF SafetyInv
<1>7. ASSUME NEW c \in Clients, ProvisionClient(t, c) PROVE SafetyInv'
  <2>1. ProvisionedSoFar'
    BY <1>7 DEF ProvisionClient, TypeOK, Work, SafetyInv, Locking, ProvisionedSoFar, TxSteps,
                ApproveSteps
  <2>2. pc' = [pc EXCEPT ![t] = "provision"]
    BY <1>7 DEF ProvisionClient, TypeOK
  <2>3. QED
    BY <1>7, <2>1, <2>2, ApproveLoopStep DEF ProvisionClient, ApproveSteps
<1>8. ASSUME NEW c \in Clients, CreateMissing(t, c) PROVE SafetyInv'
  <2>1. ProvisionedSoFar'
    BY <1>8 DEF CreateMissing, TypeOK, SafetyInv, Locking, ProvisionedSoFar, TxSteps,
                ApproveSteps
  <2>2. pc' = [pc EXCEPT ![t] = "create"]
    BY <1>8 DEF CreateMissing, TypeOK
  <2>3. QED
    BY <1>8, <2>1, <2>2, ApproveLoopStep DEF CreateMissing, ApproveSteps
<1>9. ASSUME NEW c \in Clients, EnableClient(t, c) PROVE SafetyInv'
  <2>1. ProvisionedSoFar'
    BY <1>9 DEF EnableClient, TypeOK, SafetyInv, Locking, ProvisionedSoFar, TxSteps,
                ApproveSteps
  <2>2. pc' = [pc EXCEPT ![t] = "enable"]
    BY <1>9 DEF EnableClient, TypeOK
  <2>3. QED
    BY <1>9, <2>1, <2>2, ApproveLoopStep DEF EnableClient, ApproveSteps
<1>10. ASSUME NEW c \in Clients, ApproveCallFails(t, c) PROVE SafetyInv'
  <2>1. /\ lock = t /\ pc[t] \in {"provision", "create", "enable"}
        /\ pc' = [pc EXCEPT ![t] = "failing"]
        /\ UNCHANGED <<order, audit, rows, lock, autoRuns>>
    BY <1>10 DEF ApproveCallFails
  <2>2. ProvisionedSoFar'
    <3>1. work.order.status # "completed" /\ work.order \in OrderRow
      BY <2>1 DEF SafetyInv, ProvisionedSoFar, ApproveSteps, TypeOK, Work
    <3>2. FailedOrder(work.order).status # "completed"
      BY <3>1 DEF FailedOrder, OrderRow
    <3>3. work'.order.status # "completed"
      BY <1>10, <3>2 DEF ApproveCallFails, TypeOK, Work
    <3>4. QED
      BY <2>1, <3>3 DEF TypeOK, SafetyInv, Locking, ProvisionedSoFar, TxSteps, ApproveSteps
  <2>3. QED
    BY <2>1, <2>2, ApproveLoopStep DEF ApproveSteps
<1>11. QED
  BY <1>1, <1>2, <1>3, <1>4, <1>5, <1>6, <1>7, <1>8, <1>9, <1>10 DEF ApproveStep

(* The steps of the cancellation of an automatic approval. *)
LEMMA CancelAutoSafe ==
  ASSUME TypeOK, SafetyInv, NEW t \in Threads,
         \/ BeginCancelAuto(t) \/ CommitCancelFailed(t) \/ CommitCancelled(t)
         \/ \E c \in Clients : DisableClient(t, c) \/ DisableFails(t, c)
  PROVE  SafetyInv'
<1> USE DEF Goto
<1>1. CASE BeginCancelAuto(t)
  <2>1. Begin(t, "disable", CancellationWork) /\ UNCHANGED <<order, audit, rows, panel, autoRuns>>
    BY <1>1 DEF BeginCancelAuto
  <2>2. /\ Locking' /\ pc'[t] = "disable" /\ work' = CancellationWork
        /\ \A u \in Threads : pc'[u] \in TxSteps <=> u = t
    BY <2>1, BeginLocking DEF TxSteps, CancelAutoSteps
  <2>3. ApprovingOpen' /\ DeletingSound' /\ ProvisionedSoFar'
    BY <2>2 DEF ApprovingOpen, DeletingSound, ProvisionedSoFar, TxSteps, ApproveSteps,
                DeleteSteps
  <2>4. /\ CancellationWork.rows = rows
        /\ CancellationWork.todo = Known \ audit.revoked
        /\ CancellationWork.audit.revoked = audit.revoked
        /\ CancellationWork.audit.claimed = audit.claimed
    BY DEF CancellationWork, NoWork, TypeOK, AuditRow
  <2>5. audit.claimed /\ audit.review # "cancelled"
    BY <1>1 DEF BeginCancelAuto
  <2>6. CancellingSound'
    BY <2>1, <2>2, <2>4, <2>5 DEF CancellingSound, SafetyInv, RevokedStayOff, Known, TxSteps
  <2>7. RevokedByCancellation' /\ ClaimCounts' /\ RevokedStayOff' /\ CancellationComplete'
    BY <2>1 DEF SafetyInv, RevokedByCancellation, ClaimCounts, RevokedStayOff,
                CancellationComplete, Known
  <2>8. QED
    BY <2>2, <2>3, <2>6, <2>7 DEF SafetyInv
<1>2. ASSUME NEW c \in Clients, DisableClient(t, c) PROVE SafetyInv'
  <2>1. /\ lock = t /\ pc[t] = "disable" /\ c \in work.todo
        /\ panel' = [panel EXCEPT ![c] = "disabled"]
        /\ UNCHANGED <<order, audit, rows, lock, pc, autoRuns>>
    BY <1>2 DEF DisableClient, IsNext
  <2>2. /\ work'.audit.revoked = work.audit.revoked \cup {c}
        /\ work'.audit.claimed = work.audit.claimed
        /\ work'.todo = work.todo \ {c}
        /\ \A d \in Clients : work'.rows[d] # "none" => work.rows[d] # "none" \/ d = c
    BY <1>2 DEF DisableClient, TypeOK, Work, AuditRow
  <2>3. \A u \in Threads : pc[u] \in TxSteps => u = t
    BY <2>1 DEF SafetyInv, Locking
  <2>4. Locking' /\ ApprovingOpen' /\ DeletingSound' /\ ProvisionedSoFar'
    BY <2>1, <2>3 DEF SafetyInv, Locking, ApprovingOpen, DeletingSound, ProvisionedSoFar,
                      TxSteps, ApproveSteps, DeleteSteps
  <2>5. CancellingSound'
    BY <2>1, <2>2, <2>3 DEF SafetyInv, CancellingSound, TxSteps, CancelAutoSteps, TypeOK, Work,
                            AuditRow
  <2>6. RevokedByCancellation' /\ ClaimCounts' /\ RevokedStayOff' /\ CancellationComplete'
    BY <2>1 DEF SafetyInv, RevokedByCancellation, ClaimCounts, RevokedStayOff,
                CancellationComplete, Known, TypeOK, AuditRow
  <2>7. QED
    BY <2>4, <2>5, <2>6 DEF SafetyInv
<1>3. ASSUME NEW c \in Clients, DisableFails(t, c) PROVE SafetyInv'
  <2>1. /\ lock = t /\ pc[t] = "disable" /\ pc' = [pc EXCEPT ![t] = "cancelFailing"]
        /\ UNCHANGED <<order, audit, rows, lock, work, autoRuns>>
    BY <1>3 DEF DisableFails
  <2>2. \A d \in Clients : panel'[d] = "enabled" => panel[d] = "enabled"
    BY <1>3 DEF DisableFails, TypeOK
  <2>3. \A u \in Threads : pc'[u] \in TxSteps <=> u = t
    BY <2>1 DEF SafetyInv, Locking, TypeOK, TxSteps, CancelAutoSteps
  <2>4. pc'[t] = "cancelFailing"
    BY <2>1 DEF TypeOK
  <2>5. Locking' /\ ApprovingOpen' /\ DeletingSound' /\ ProvisionedSoFar'
    BY <2>1, <2>3, <2>4 DEF Locking, ApprovingOpen, DeletingSound, ProvisionedSoFar,
                            TxSteps, ApproveSteps, DeleteSteps
  <2>6. CancellingSound'
    BY <2>1, <2>2, <2>3, <2>4
       DEF SafetyInv, CancellingSound, TxSteps, CancelAutoSteps, TypeOK, Work, AuditRow
  <2>7. RevokedByCancellation' /\ ClaimCounts' /\ RevokedStayOff' /\ CancellationComplete'
    BY <2>1, <2>2 DEF SafetyInv, RevokedByCancellation, ClaimCounts, RevokedStayOff,
                      CancellationComplete, Known, TypeOK, AuditRow
  <2>8. QED
    BY <2>5, <2>6, <2>7 DEF SafetyInv
<1>4. CASE CommitCancelFailed(t) \/ CommitCancelled(t)
  <2>1. /\ lock = t /\ pc[t] \in CancelAutoSteps
        /\ lock' = NoThread /\ pc' = [pc EXCEPT ![t] = "idle"]
        /\ rows' = work.rows /\ UNCHANGED <<panel, autoRuns>>
    BY <1>4 DEF CommitCancelFailed, CommitCancelled, End, CancelAutoSteps
  <2>2. /\ audit'.revoked = work.audit.revoked
        /\ audit'.claimed = work.audit.claimed
        /\ audit'.review \in CancelStates
        /\ audit'.review = "cancelled" => work.todo = {}
    BY <1>4 DEF CommitCancelFailed, CommitCancelled, CancelStates, TypeOK, Work, AuditRow
  <2>3. \A u \in Threads : pc'[u] \notin TxSteps
    BY <2>1 DEF SafetyInv, Locking, TypeOK, TxSteps, ApproveSteps, CancelAutoSteps, DeleteSteps
  <2>4. Locking' /\ ApprovingOpen' /\ CancellingSound' /\ DeletingSound' /\ ProvisionedSoFar'
    BY <2>1, <2>3, ThreadsAssumption
       DEF Locking, ApprovingOpen, CancellingSound, DeletingSound, ProvisionedSoFar, TxSteps,
           ApproveSteps, CancelAutoSteps, DeleteSteps
  <2>5. /\ audit.claimed /\ work.audit.claimed
        /\ \A c \in work.audit.revoked : panel[c] # "enabled"
        /\ \A c \in Clients :
             work.rows[c] # "none" => c \in work.todo \cup work.audit.revoked
    BY <2>1 DEF SafetyInv, CancellingSound
  <2>6. RevokedByCancellation' /\ ClaimCounts'
    BY <2>1, <2>2, <2>5 DEF SafetyInv, RevokedByCancellation, ClaimCounts
  <2>7. RevokedStayOff' /\ CancellationComplete'
    BY <2>1, <2>2, <2>5 DEF RevokedStayOff, CancellationComplete, Known
  <2>8. QED
    BY <2>4, <2>6, <2>7 DEF SafetyInv
<1>5. QED
  BY <1>1, <1>2, <1>3, <1>4

(* The steps of rejections and of cancellations by the customer. *)
LEMMA DeleteSafe ==
  ASSUME TypeOK, SafetyInv, NEW t \in Threads,
         \/ BeginReject(t) \/ BeginCancel(t) \/ CommitReject(t) \/ CommitCancel(t)
         \/ \E c \in Clients : DeleteClient(t, c) \/ DeleteFails(t, c)
  PROVE  SafetyInv'
<1> USE DEF Goto
<1>1. CASE BeginReject(t) \/ BeginCancel(t)
  <2>1. PICK step \in DeleteSteps : Begin(t, step, DeletionWork)
    BY <1>1 DEF BeginReject, BeginCancel, DeleteSteps
  <2>2. UNCHANGED <<order, audit, rows, panel, autoRuns>>
    BY <1>1 DEF BeginReject, BeginCancel
  <2>3. /\ Locking' /\ pc'[t] = step /\ work' = DeletionWork
        /\ \A u \in Threads : pc'[u] \in TxSteps <=> u = t
    BY <2>1, BeginLocking DEF TxSteps
  <2>4. ApprovingOpen' /\ CancellingSound' /\ ProvisionedSoFar'
    BY <2>3 DEF ApprovingOpen, CancellingSound, ProvisionedSoFar, TxSteps, ApproveSteps,
                CancelAutoSteps, DeleteSteps
  <2>5. DeletingSound'
    BY <2>2, <2>3 DEF DeletingSound, DeletionWork, NoWork, TxSteps
  <2>6. RevokedByCancellation' /\ ClaimCounts' /\ RevokedStayOff' /\ CancellationComplete'
    BY <2>2 DEF SafetyInv, RevokedByCancellation, ClaimCounts, RevokedStayOff,
                CancellationComplete, Known
  <2>7. QED
    BY <2>3, <2>4, <2>5, <2>6 DEF SafetyInv
<1>2. ASSUME NEW c \in Clients, DeleteClient(t, c) PROVE SafetyInv'
  <2>1. /\ lock = t /\ pc[t] \in DeleteSteps /\ panel' = [panel EXCEPT ![c] = "absent"]
        /\ UNCHANGED <<order, audit, rows, lock, pc, autoRuns>>
    BY <1>2 DEF DeleteClient
  <2>2. work'.rows = work.rows
    BY <1>2 DEF DeleteClient, TypeOK, Work
  <2>3. \A u \in Threads : pc[u] \in TxSteps => u = t
    BY <2>1 DEF SafetyInv, Locking
  <2>4. Locking' /\ ApprovingOpen' /\ CancellingSound' /\ DeletingSound' /\ ProvisionedSoFar'
    BY <2>1, <2>2, <2>3
       DEF SafetyInv, Locking, ApprovingOpen, CancellingSound, DeletingSound,
           ProvisionedSoFar, TxSteps, ApproveSteps, CancelAutoSteps, DeleteSteps
  <2>5. RevokedByCancellation' /\ ClaimCounts' /\ RevokedStayOff' /\ CancellationComplete'
    BY <2>1 DEF SafetyInv, RevokedByCancellation, ClaimCounts, RevokedStayOff,
                CancellationComplete, Known, TypeOK, AuditRow
  <2>6. QED
    BY <2>4, <2>5 DEF SafetyInv
<1>3. ASSUME NEW c \in Clients, DeleteFails(t, c) PROVE SafetyInv'
  <2>1. /\ lock = t /\ lock' = NoThread /\ pc' = [pc EXCEPT ![t] = "idle"]
        /\ UNCHANGED <<audit, rows, autoRuns>>
    BY <1>3 DEF DeleteFails, End
  <2>2. \A d \in Clients : panel'[d] = "enabled" => panel[d] = "enabled"
    BY <1>3 DEF DeleteFails, TypeOK
  <2>3. QED
    BY <2>1, <2>2, RollbackStep
       DEF Steps, TxSteps, ApproveSteps, CancelAutoSteps, DeleteSteps
<1>4. CASE CommitReject(t) \/ CommitCancel(t)
  <2>1. /\ lock = t /\ pc[t] \in DeleteSteps
        /\ lock' = NoThread /\ pc' = [pc EXCEPT ![t] = "idle"]
        /\ rows' = Suspended(work.rows) /\ UNCHANGED <<audit, panel, autoRuns>>
    BY <1>4 DEF CommitReject, CommitCancel, End, DeleteSteps
  <2>2. work.rows = rows
    BY <2>1 DEF SafetyInv, DeletingSound
  <2>3. Known' = Known
    BY <2>1, <2>2 DEF Known, Suspended
  <2>4. \A u \in Threads : pc'[u] \notin TxSteps
    BY <2>1 DEF SafetyInv, Locking, TypeOK, TxSteps, ApproveSteps, CancelAutoSteps, DeleteSteps
  <2>5. Locking' /\ ApprovingOpen' /\ CancellingSound' /\ DeletingSound' /\ ProvisionedSoFar'
    BY <2>1, <2>4, ThreadsAssumption
       DEF Locking, ApprovingOpen, CancellingSound, DeletingSound, ProvisionedSoFar, TxSteps,
           ApproveSteps, CancelAutoSteps, DeleteSteps
  <2>6. RevokedByCancellation' /\ ClaimCounts' /\ RevokedStayOff' /\ CancellationComplete'
    BY <2>1, <2>3 DEF SafetyInv, RevokedByCancellation, ClaimCounts, RevokedStayOff,
                      CancellationComplete
  <2>7. QED
    BY <2>5, <2>6 DEF SafetyInv
<1>5. QED
  BY <1>1, <1>2, <1>3, <1>4

(* The worker's claim and the staff's reconciliation. *)
LEMMA DecisionSafe ==
  ASSUME TypeOK, SafetyInv, NEW t \in Threads, ClaimAuto(t) \/ ConfirmAuto(t)
  PROVE  SafetyInv'
<1>1. PICK step \in {"idle", "approve"} : pc' = [pc EXCEPT ![t] = step]
  BY DEF ClaimAuto, Claimable, ConfirmAuto, Goto, TypeOK
<1>2. Unlocked /\ UNCHANGED <<rows, panel, lock, work>>
  BY DEF ClaimAuto, Claimable, ConfirmAuto
<1>3. \A u \in Threads : pc[u] \notin TxSteps /\ pc'[u] \notin TxSteps
  BY <1>1, <1>2, ThreadsAssumption DEF Unlocked, SafetyInv, Locking, TypeOK, TxSteps,
                    ApproveSteps, CancelAutoSteps, DeleteSteps
<1>4. Locking' /\ ApprovingOpen' /\ CancellingSound' /\ DeletingSound' /\ ProvisionedSoFar'
  BY <1>2, <1>3, ThreadsAssumption
     DEF Unlocked, Locking, ApprovingOpen, CancellingSound, DeletingSound, ProvisionedSoFar,
         TxSteps, ApproveSteps, CancelAutoSteps, DeleteSteps
<1>5. audit.review \notin CancelStates
  BY DEF ClaimAuto, Claimable, ConfirmAuto, SafetyInv, RevokedByCancellation, CancelStates
<1>6. /\ audit'.review \notin CancelStates /\ audit'.revoked = {} /\ audit'.claimed
      /\ autoRuns' = 1
  <2>1. audit.revoked = {}
    BY <1>5 DEF SafetyInv, RevokedByCancellation
  <2>2. CASE ClaimAuto(t)
    <3>1. autoRuns = 0
      BY <2>2, Zenon DEF ClaimAuto, Claimable, SafetyInv, ClaimCounts
    <3>2. /\ audit' = [audit EXCEPT !.claimed = TRUE, !.review = "pending"]
          /\ autoRuns' = autoRuns + 1
      BY <2>2 DEF ClaimAuto, Claimable
    <3>3. QED
      BY <2>1, <3>1, <3>2 DEF CancelStates, TypeOK, AuditRow
  <2>3. CASE ConfirmAuto(t)
    <3>1. autoRuns = 1 /\ audit.claimed
      BY <2>3, Zenon DEF ConfirmAuto, SafetyInv, ClaimCounts
    <3>2. audit' = [audit EXCEPT !.review = "verified"] /\ autoRuns' = autoRuns
      BY <2>3 DEF ConfirmAuto
    <3>3. audit'.claimed = audit.claimed
      BY <3>2 DEF TypeOK, AuditRow
    <3>4. QED
      BY <2>1, <3>1, <3>2, <3>3 DEF CancelStates, TypeOK, AuditRow
  <2>4. QED
    BY <2>2, <2>3
<1>7. RevokedByCancellation' /\ ClaimCounts' /\ RevokedStayOff' /\ CancellationComplete'
  BY <1>6 DEF RevokedByCancellation, ClaimCounts, RevokedStayOff, CancellationComplete,
              CancelStates
<1>8. QED
  BY <1>4, <1>7 DEF SafetyInv

(* A crash is a rollback, or leaves the database alone. *)
LEMMA CrashSafe == ASSUME TypeOK, SafetyInv, NEW t \in Threads, Crash(t) PROVE SafetyInv'
<1>1. PICK step \in {"idle", "recordError"} : pc' = [pc EXCEPT ![t] = step]
  BY DEF Crash, Goto
<1>2. step \in Steps \ TxSteps
  BY DEF Steps, TxSteps, ApproveSteps, CancelAutoSteps, DeleteSteps
<1>3. CASE lock = t
  BY <1>1, <1>2, <1>3, RollbackStep DEF Crash
<1>4. CASE lock # t
  BY <1>1, <1>2, <1>4, OutsideStep DEF Crash, SafetyInv, Locking
<1>5. QED
  BY <1>3, <1>4

(* No step breaks the invariant. *)
LEMMA SafetyStep == TypeOK /\ SafetyInv /\ [Next]_vars => SafetyInv'
<1> SUFFICES ASSUME TypeOK, SafetyInv, [Next]_vars PROVE SafetyInv'
  OBVIOUS
<1> USE DEF Goto
<1>1. ASSUME NEW t \in Requests,
             \/ AdminApprove(t) \/ SmsConfirm(t) \/ AdminReject(t) \/ BotCancel(t)
             \/ WebDelete(t) \/ CheckoutRead(t) \/ RebuildCups(t) \/ SaveFailed(t)
             \/ RejectDenied(t) \/ CheckoutSave(t)
      PROVE  SafetyInv'
  <2>1. PICK step \in {"idle", "approve", "reject", "botCancel", "cancel", "submitting"} :
          pc' = [pc EXCEPT ![t] = step]
    BY <1>1 DEF AdminApprove, SmsConfirm, AdminReject, BotCancel, WebDelete, CheckoutRead,
                RebuildCups, SaveFailed, RejectDenied, CheckoutSave
  <2>2. pc[t] \in {"idle", "rebuild", "saveFailed", "reject", "submitting"}
    BY <1>1 DEF AdminApprove, SmsConfirm, AdminReject, BotCancel, WebDelete, CheckoutRead,
                RebuildCups, SaveFailed, RejectDenied, CheckoutSave
  <2>3. /\ Unlocked \/ order' = order
        /\ UNCHANGED <<audit, rows, panel, lock, work, autoRuns>>
    BY <1>1 DEF AdminApprove, SmsConfirm, AdminReject, BotCancel, WebDelete, CheckoutRead,
                RebuildCups, SaveFailed, RejectDenied, CheckoutSave
  <2>4. step \in Steps \ TxSteps /\ pc[t] \notin TxSteps
    BY <2>2 DEF Steps, TxSteps, ApproveSteps, CancelAutoSteps, DeleteSteps
  <2>5. QED
    BY <2>1, <2>3, <2>4, OutsideStep
<1>2. CASE ReceiptDue \/ UNCHANGED vars
  <2>1. UNCHANGED <<order, audit, rows, panel, lock, work, pc, autoRuns>>
    BY <1>2 DEF ReceiptDue, vars
  <2>2. QED
    BY <2>1 DEF SafetyInv, Locking, ApprovingOpen, RevokedByCancellation, CancellingSound,
                DeletingSound, ClaimCounts, ProvisionedSoFar, RevokedStayOff,
                CancellationComplete, Known
<1>3. ASSUME NEW t \in Workers, WorkerNext(t) PROVE SafetyInv'
  BY <1>3, DecisionSafe, ApproveSafe, CrashSafe DEF WorkerNext
<1>4. ASSUME NEW t \in Requests, RequestNext(t) PROVE SafetyInv'
  <2>1. CASE RequestStart(t)
    BY <1>1, <2>1, DecisionSafe, CancelAutoSafe DEF RequestStart
  <2>2. CASE RequestStep(t)
    BY <1>1, <2>2, ApproveSafe, CancelAutoSafe, DeleteSafe DEF RequestStep
  <2>3. QED
    BY <1>4, <2>1, <2>2, CrashSafe DEF RequestNext
<1>5. QED
  BY <1>2, <1>3, <1>4 DEF Next

(* The inductive invariant holds of every behaviour. *)
LEMMA Safe == Spec => [](TypeOK /\ SafetyInv)
<1>1. QED
  BY TypeInit, TypeStep, SafetyInit, SafetyStep, PTL DEF Spec

-----------------------------------------------------------------------------
(* The theorems. *)

(* Whatever is approved, retried, resubmitted or lost afterwards, a client  *)
(* that a cancellation recorded as revoked is not enabled on the panel.     *)
THEOREM RevokedStayOffAlways == Spec => []RevokedStayOff
<1>1. SafetyInv => RevokedStayOff
  BY DEF SafetyInv
<1>2. QED
  BY <1>1, Safe, PTL

(* An order marked cancelled has revoked every client it has a row for.     *)
THEOREM CancellationCompleteAlways == Spec => []CancellationComplete
<1>1. SafetyInv => CancellationComplete
  BY DEF SafetyInv
<1>2. QED
  BY <1>1, Safe, PTL

(* The timestamp claim starts automatic provisioning at most once.          *)
THEOREM SingleAttempt == Spec => []SingleAutomaticAttempt
<1>1. TypeOK /\ SafetyInv => SingleAutomaticAttempt
  <2> SUFFICES ASSUME TypeOK, SafetyInv PROVE SingleAutomaticAttempt
    OBVIOUS
  <2>1. audit.claimed \in BOOLEAN
    BY DEF TypeOK, AuditRow
  <2>2. autoRuns = 0 \/ autoRuns = 1
    BY <2>1, Zenon DEF SafetyInv, ClaimCounts
  <2>3. QED
    BY <2>2 DEF SingleAutomaticAttempt
<1>2. QED
  BY <1>1, Safe, PTL

(* What a step can do to the panel and to the audit row: an approval of an  *)
(* open order enables clients; a cancellation records what it has disabled; *)
(* every other step leaves the audit's decision alone and enables nothing.  *)
LEMMA StepEffect ==
  ASSUME TypeOK, SafetyInv, [Next]_vars
  PROVE  \/ /\ audit.review \notin CancelStates /\ order.status \notin Closed
            /\ Enabled \subseteq Enabled' /\ UNCHANGED audit
         \/ /\ Enabled' \subseteq Enabled
            /\ audit'.revoked = audit.revoked /\ Stage' = Stage
         \/ /\ Enabled' = Enabled /\ Stage # "cancelled"
            /\ Stage' \in {"incomplete", "cancelled"}
            /\ audit.revoked \subseteq audit'.revoked
            /\ audit'.revoked \subseteq Clients \ Enabled
<1> DEFINE Opens == /\ audit.review \notin CancelStates /\ order.status \notin Closed
                    /\ Enabled \subseteq Enabled' /\ UNCHANGED audit
           Keeps == /\ Enabled' \subseteq Enabled
                    /\ audit'.revoked = audit.revoked /\ Stage' = Stage
           Records == /\ Enabled' = Enabled /\ Stage # "cancelled"
                      /\ Stage' \in {"incomplete", "cancelled"}
                      /\ audit.revoked \subseteq audit'.revoked
                      /\ audit'.revoked \subseteq Clients \ Enabled
<1>1. CASE UNCHANGED <<audit, panel>>
  BY <1>1 DEF Enabled, Stage
<1>2. ASSUME NEW t \in Threads, ClaimAuto(t) \/ ConfirmAuto(t) \/ RecordError(t) PROVE Keeps
  <2>1. panel' = panel /\ audit'.revoked = audit.revoked
    BY <1>2 DEF ClaimAuto, Claimable, ConfirmAuto, RecordError, TypeOK, AuditRow
  <2>2. \/ audit'.review = audit.review
        \/ audit.review \notin CancelStates /\ audit'.review \notin CancelStates
    BY <1>2 DEF ClaimAuto, Claimable, ConfirmAuto, RecordError, TypeOK, AuditRow, SafetyInv,
                RevokedByCancellation, CancelStates
  <2>3. QED
    BY <2>1, <2>2 DEF Enabled, Stage, CancelStates
<1>3. ASSUME NEW t \in Threads, NEW c \in Clients,
             \/ ProvisionClient(t, c) \/ CreateMissing(t, c)
             \/ EnableClient(t, c) \/ ApproveCallFails(t, c)
      PROVE  Opens
  <2>1. pc[t] \in ApproveSteps /\ UNCHANGED audit
    BY <1>3 DEF ProvisionClient, CreateMissing, EnableClient, ApproveCallFails, ApproveSteps
  <2>2. audit.review \notin CancelStates /\ order.status \notin Closed
    BY <2>1 DEF SafetyInv, ApprovingOpen
  <2>3. CASE ApproveCallFails(t, c)
    <3>1. panel[c] = "enabled" => CallEffect(t, c) = {"enabled"}
      BY DEF CallEffect
    <3>2. \A d \in Clients : panel[d] = "enabled" => panel'[d] = "enabled"
      BY <2>3, <3>1 DEF ApproveCallFails, TypeOK
    <3>3. QED
      BY <2>1, <2>2, <3>2 DEF Enabled
  <2>4. CASE ~ApproveCallFails(t, c)
    <3>1. \A d \in Clients : panel[d] = "enabled" => panel'[d] = "enabled"
      BY <1>3, <2>4 DEF ProvisionClient, CreateMissing, EnableClient, TypeOK
    <3>2. QED
      BY <2>1, <2>2, <3>1 DEF Enabled
  <2>5. QED
    BY <2>3, <2>4
<1>4. ASSUME NEW t \in Threads, NEW c \in Clients,
             \/ DisableClient(t, c) \/ DisableFails(t, c)
             \/ DeleteClient(t, c) \/ DeleteFails(t, c)
      PROVE  Keeps
  <2>1. UNCHANGED audit
    BY <1>4 DEF DisableClient, DisableFails, DeleteClient, DeleteFails
  <2>2. \A d \in Clients : panel'[d] = "enabled" => panel[d] = "enabled"
    BY <1>4 DEF DisableClient, DisableFails, DeleteClient, DeleteFails, TypeOK
  <2>3. QED
    BY <2>1, <2>2 DEF Enabled, Stage
<1>5. ASSUME NEW t \in Threads, CommitCancelFailed(t) \/ CommitCancelled(t) PROVE Records
  <2>1. /\ pc[t] \in CancelAutoSteps /\ UNCHANGED panel
        /\ audit'.revoked = work.audit.revoked
        /\ audit'.review \in {"cancel_failed", "cancelled"}
    BY <1>5 DEF CommitCancelFailed, CommitCancelled, CancelAutoSteps, TypeOK, Work, AuditRow
  <2>2. /\ audit.review # "cancelled" /\ audit.revoked \subseteq work.audit.revoked
        /\ \A c \in work.audit.revoked : panel[c] # "enabled"
    BY <2>1 DEF SafetyInv, CancellingSound
  <2>3. QED
    BY <2>1, <2>2 DEF Enabled, Stage, CancelStates, TypeOK, Work, AuditRow
<1>6. ASSUME NEW t \in Workers, WorkerNext(t) PROVE Opens \/ Keeps \/ Records
  <2>1. CASE ApproveStep(t)
    BY <1>1, <1>2, <1>3, <2>1
       DEF ApproveStep, ApproveRefused, BeginApprove, BeginEnable, CommitCompleted, CommitFailed
  <2>2. CASE Crash(t)
    BY <1>1, <2>2 DEF Crash
  <2>3. QED
    BY <1>2, <1>6, <2>1, <2>2 DEF WorkerNext
<1>7. ASSUME NEW t \in Requests, RequestStart(t) PROVE Opens \/ Keeps \/ Records
  BY <1>1, <1>2, <1>7 DEF RequestStart, AdminApprove, SmsConfirm, BeginCancelAuto, AdminReject,
                          BotCancel, WebDelete, CheckoutRead
<1>8. ASSUME NEW t \in Requests, RequestStep(t) PROVE Opens \/ Keeps \/ Records
  <2>1. CASE ApproveStep(t)
    BY <1>1, <1>2, <1>3, <2>1
       DEF ApproveStep, ApproveRefused, BeginApprove, BeginEnable, CommitCompleted, CommitFailed
  <2>2. QED
    BY <1>1, <1>4, <1>5, <1>8, <2>1
       DEF RequestStep, RebuildCups, SaveFailed, RejectDenied, BeginReject, BeginCancel,
           CommitReject, CommitCancel, CheckoutSave
<1>9. QED
  <2>1. CASE UNCHANGED vars
    BY <1>1, <2>1 DEF vars
  <2>2. CASE ReceiptDue
    BY <1>1, <2>2 DEF ReceiptDue
  <2>3. ASSUME NEW t \in Requests, Crash(t) PROVE Opens \/ Keeps \/ Records
    BY <1>1, <2>3 DEF Crash
  <2>4. QED
    BY <1>6, <1>7, <1>8, <2>1, <2>2, <2>3 DEF Next, RequestNext

(* Once a cancellation is recorded, or the order is rejected or cancelled,  *)
(* no step of any handler enables one of its clients.                       *)
THEOREM ClosedEnablesNothingAlways == Spec => ClosedEnablesNothing
<1>1. TypeOK /\ SafetyInv /\ [Next]_vars =>
        [(audit.review \in CancelStates \/ order.status \in Closed) =>
           \A c \in Clients : panel'[c] = "enabled" => panel[c] = "enabled"]_vars
  BY StepEffect DEF Enabled, Stage
<1>2. QED
  BY <1>1, Safe, PTL DEF Spec, ClosedEnablesNothing

(* The order's handlers keep the abstract promise about its panel clients.  *)
THEOREM Refinement == Spec => KeepsPromise
<1>1. Init => Promise!Init
  <2> SUFFICES ASSUME Init PROVE Promise!Init
    OBVIOUS
  <2>1. \A c \in Clients : panel[c] # "enabled"
    BY DEF Init
  <2>2. audit.review = "" /\ audit.revoked = {}
    BY DEF Init, NoWork
  <2>3. QED
    BY <2>1, <2>2 DEF Promise!Init, Enabled, Stage, CancelStates
<1>2. TypeOK /\ SafetyInv /\ [Next]_vars => [Promise!Next]_(Promise!vars)
  <2> SUFFICES ASSUME TypeOK, SafetyInv, [Next]_vars
               PROVE  Promise!Next \/ UNCHANGED Promise!vars
    OBVIOUS
  <2> USE DEF Promise!vars, Promise!Next
  <2>1. CASE /\ audit.review \notin CancelStates /\ Enabled \subseteq Enabled'
             /\ UNCHANGED audit
    <3>1. Stage = "open" /\ Stage' = Stage /\ Enabled' \in SUBSET Clients
      BY <2>1 DEF Stage, CancelStates, Enabled
    <3>2. QED
      BY <2>1, <3>1 DEF Promise!Deliver
  <2>2. CASE Enabled' \subseteq Enabled /\ audit'.revoked = audit.revoked /\ Stage' = Stage
    BY <2>2 DEF Promise!Withdraw
  <2>3. CASE /\ Enabled' = Enabled /\ Stage # "cancelled"
             /\ Stage' \in {"incomplete", "cancelled"}
             /\ audit.revoked \subseteq audit'.revoked
             /\ audit'.revoked \subseteq Clients \ Enabled
    <3>1. audit'.revoked = audit.revoked \cup audit'.revoked
      BY <2>3
    <3>2. QED
      BY <2>3, <3>1 DEF Promise!RecordCancellation
  <2>4. QED
    BY <2>1, <2>2, <2>3, StepEffect
<1>3. QED
  BY <1>1, <1>2, Safe, PTL DEF Spec, KeepsPromise, Promise!Spec

(* On a panel whose clients are created enabled, the step that completes an *)
(* order leaves all its clients enabled and active.                         *)
THEOREM CompletionDeliversAlways == ASSUME Modern PROVE Spec => CompletionDelivers
<1> DEFINE Completes == order'.status = "completed" /\ order.status # "completed"
           Delivered == \A c \in Clients : panel'[c] = "enabled" /\ rows'[c] = "active"
<1>1. ASSUME TypeOK, SafetyInv, Completes, NEW t \in Threads, ApproveStep(t)
      PROVE  Delivered
  <2>1. CASE CommitCompleted(t)
    <3>1. /\ pc[t] \in {"provision", "enable"} /\ work.todo = {}
          /\ rows' = work.rows /\ UNCHANGED panel
      BY <2>1 DEF CommitCompleted
    <3>2. pc[t] = "provision"
      BY <1>1, <3>1 DEF SafetyInv, ProvisionedSoFar
    <3>3. QED
      BY <3>1, <3>2, <1>1 DEF SafetyInv, ProvisionedSoFar
  <2>2. CASE CommitFailed(t)
    <3>1. work.order.status # "completed" /\ work.order \in OrderRow
      BY <1>1, <2>2 DEF CommitFailed, SafetyInv, ProvisionedSoFar, ApproveSteps, TypeOK, Work
    <3>2. order'.status # "completed"
      BY <2>2, <3>1 DEF CommitFailed, OrderRow
    <3>3. QED
      BY <1>1, <3>2
  <2>3. CASE order' = order
    BY <1>1, <2>3
  <2>4. QED
    BY <1>1, <2>1, <2>2, <2>3
       DEF ApproveStep, ApproveRefused, BeginApprove, BeginEnable, RecordError,
           ProvisionClient, CreateMissing, EnableClient, ApproveCallFails
<1>2. ASSUME TypeOK, Completes, NEW t \in Requests, RequestStart(t)
      PROVE  FALSE
  <2>1. CASE SmsConfirm(t)
    BY <1>2, <2>1 DEF SmsConfirm, TypeOK, OrderRow
  <2>2. CASE ConfirmAuto(t)
    BY <1>2, <2>2 DEF ConfirmAuto, TypeOK, OrderRow
  <2>3. QED
    BY <1>2, <2>1, <2>2 DEF RequestStart, AdminApprove, BeginCancelAuto, AdminReject,
                            BotCancel, WebDelete, CheckoutRead
<1>3. ASSUME TypeOK, Completes, NEW t \in Requests, RequestStep(t), ~ApproveStep(t)
      PROVE  FALSE
  <2>1. CASE SaveFailed(t)
    BY <1>3, <2>1 DEF SaveFailed, TypeOK, OrderRow
  <2>2. CASE CommitCancelled(t) \/ CommitReject(t) \/ CommitCancel(t)
    BY <1>3, <2>2 DEF CommitCancelled, CommitReject, CommitCancel, TypeOK, Work, OrderRow
  <2>3. CASE CheckoutSave(t)
    BY <1>3, <2>3 DEF CheckoutSave, TypeOK, OrderRow
  <2>4. QED
    BY <1>3, <2>1, <2>2, <2>3
       DEF RequestStep, RebuildCups, CommitCancelFailed, RejectDenied, BeginReject,
           BeginCancel, DisableClient, DisableFails, DeleteClient, DeleteFails
<1>4. TypeOK /\ SafetyInv /\ [Next]_vars => [Completes => Delivered]_vars
  <2> SUFFICES ASSUME TypeOK, SafetyInv, Next, Completes PROVE Delivered
    OBVIOUS
  <2>1. CASE ReceiptDue
    BY <2>1 DEF ReceiptDue
  <2>2. ASSUME NEW t \in Threads, Crash(t) PROVE Delivered
    BY <2>2 DEF Crash
  <2>3. ASSUME NEW t \in Workers, ClaimAuto(t) PROVE Delivered
    BY <2>3 DEF ClaimAuto, Claimable
  <2>4. QED
    BY <1>1, <1>2, <1>3, <2>1, <2>2, <2>3 DEF Next, WorkerNext, RequestNext
<1>5. QED
  BY <1>4, Safe, PTL DEF Spec, CompletionDelivers
=============================================================================
