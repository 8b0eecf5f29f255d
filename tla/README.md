# A TLA+ model of Qasedak's order processing

Qasedak is a Django store that sells VPN subscriptions. Customers order on the
web or through a Telegram bot and pay by bank card; staff, a bank SMS or a timed
worker approve the receipt; the store then creates, renews, disables or deletes
clients on VPN panels (X-UI, PasarGuard) over HTTP. The database is transactional
and has row locks. The panels and Telegram are neither: what a call has changed
there stays when the transaction that made it is lost, and an answer can get lost
after its effect. This project models that core: one order's life cycle with its
automation, checkout and payment, renewals, delivery from stock, trials, referral
rewards, the messages that all of these send, and the deployment of the stores of
other tenants.

## 1. Inventory

| Part | State | Operations | Talks to | What is hard | What makes it correct |
|---|---|---|---|---|---|
| Order life cycle (`provisioning_services.py`, `order_actions.py`, `order_recovery.py`) | `Order` (status, verification_status, is_paid, provisioning_status), `VPNClient` rows, Cups | approve, retry, reject, cancel | panels inside the transaction; Cups after it | failures between clients, lost answers, races of staff, bot, SMS and worker, crashes | a completed order is delivered; a closed one delivers nothing; a handler ends |
| Order automation (`order_automation.py`) | `OrderAutomation`: claim, review_status, revoked_client_ids, last_error, notification columns | timed approval, reconciliation, cancellation, reminders, notices | life cycle, Telegram | a claim and remote effects in different transactions, repeated cancellation, a stale `now` | one automatic attempt; what is revoked stays off; notices are sent once |
| Renewals (`update_client_subscription` in `xui_api.py`, `activate_renewal_order`) | `metadata.renewal_recovery_attempt`, `metadata.renewal_intent`, expiry and traffic on the panel | create, claim, renew, reset, finish | panel, `VPNClient` row lock | lost answers of non-idempotent calls, crashes, several orders, other edits | one extension and one reset for an order |
| Checkout (`order_services.py`, `views.py`) | order row, duplicate lock in the process's cache, discount counters, inbound load | create, submit payment | life cycle, legacy panels | check before lock, lock per process, lock time-out, crash after a reservation, staff's recount | one order for one submission, no leaked or exceeded discount |
| Bank SMS (`payments/`) | `IncomingPaymentSMS` and its matched orders | match, re-evaluate, confirm, dismiss | life cycle | unlocked writes next to a locked confirmation | a deposit pays one order |
| Cups (`subscription_cups.py`, `admin_cup_center/`) | `SubscriptionCup` and its items | rebuild, render, disable, add, remove | life cycle, inventory | rebuilt after the lock is released; released without the pool's lock | a Cup shows what its order holds |
| Plan delivery, recipes, inventory (`plan_delivery_execution.py`, `cup_fulfillment_services.py`, `config_inventory_services.py`, `customer_assignment.py`) | delivery metadata of the order, assets with status and counter, allocations | deliver, fall back, retry, allocate, assign, import, edit | life cycle, panels | failed deliveries commit; several allocators of one pool; stale admin pages | a config is sold once, a retry takes what is missing, completed is delivered |
| Free trials (`free_trial_services.py`) | `FreeTrialRequest`, lock in the cache | ask, create, record, clean up | panels | check, lock and row lock in several processes, lost answers | one trial in a cooldown |
| Referral rewards (`referrals.py`, `referral_services.py`, `signals.py`) | `Referral`, `CustomerReward`, `ReferralRewardLedger` | assign, signal, award, redeem | life cycle, panel | two paths to one reward; remote effect before the commit; counts in overlapping transactions | rewards for checked payments, applied once |
| Broadcast (`broadcast_services.py`, `process_broadcast_queue.py`, `admin_campaigns.py`) | campaign and recipient status | queue, cancel, retry, send | Telegram | no locks, lists read before they are used, processes that die | no message twice without a reason |
| Activity and outreach (`customer_activity/`), revenue engine | lease, samples, events, offer log | collect, judge, prepare, reserve, send, retry | panels, Telegram | a lost lease, counter resets, ambiguous sends, stale retries | an inactive customer is inactive; one message an event and a day |
| Admin notices, renewal and receipt reminders (`admin_notifications.py`, `renewal_reminder_services.py`, `order_automation.py`) | claims, logs, stages | claim, send, release, remind | Telegram | several announcers, crashes between send and record, midnight, workers that were away | told once, reminded once, no burst |
| Deployment and tenants (`store/deployment/`, `store/orchestrator_v2/`) | `TenantInstance` (status, port), containers, Nginx sites, databases | create with rollback, API create and deploy, stop, start, delete, inspect | Docker, Nginx, PostgreSQL, SSH | failures in a deployment and in its rollback, ports chosen without a lock, rows that know nothing of the containers | a site never leads to another tenant's container |
| Bot, admin pages, reports, backup, import, panel health | dialogue state, files | presentation and I/O | all | | not modelled |

The components, modelled or not, are listed in `PROJECT.json` with their sources;
`hazards` there lists what is hard to test in this code, line by line.

## 2. The modules

| Module | What it is |
|---|---|
| `OrderLifecycle` | one manual-card order: rows, panel clients, Cup, and every handler that works on them |
| `Revocation` | the abstract promise about an order's clients: until a cancellation is recorded clients may be switched on, afterwards only off, and a client is recorded as revoked only while it is off |
| `CancellationNotice` | `send_cancellation_notice` with all its callers |
| `Renewal` | the renewal orders of one client |
| `Checkout`; `PaymentMatching` extends it | `create_manual_payment_order`; the bank's SMS next to it, over the same orders |
| `Referral` | the two kinds of rewards of one inviter, over the orders of his friends |
| `PlanDelivery` | deliveries, recipes, assignments and staff over one pool of configs |
| `FreeTrial` | the trial requests of one Telegram user |
| `Broadcast` | one campaign |
| `Activity`, `Outreach` | the samples of one purchase and the verdict about it; the events and offers that follow |
| `AdminNotifications`, `Reminders`, `ReceiptReminders` | the notices of one order, the reminders of one client, the reminders of one receipt |
| `TenantDeployment` | the tenants of one server |
| `Messaging` | the six modules of messages side by side |
| `Delivery` | `PlanDelivery` and `FreeTrial` side by side |
| `OrderLifecycleProofs`, `CancellationNoticeProofs`, `RenewalProofs`, `CheckoutProofs`, `ReferralProofs`, `DeliveryProofs`, `MessagingProofs`, `TenantDeploymentProofs` | theorems and proofs |
| `MC...` | instances for TLC: constants, symmetry sets, and for modules that share no state a variable `focus` |

`Messaging` and `Delivery` compose modules that share no variable, for one specification
to prove about; `MCMessaging`, `MCDelivery` and `MCRenewalsAndTenants` put several
modules into one run. As the modules share no variable, a behaviour of all of them
violates a property of one only if that one's own steps do; `focus` (`active` in the
last), chosen in the initial state, says which module moves. Where a module is large,
two focuses divide its cases (for instance two collectors at once without resets, or one
at a time with them); the constraints are in the MC module, next to the name of the
focus.

Some variables are no state of the code. They record that an exempted event has
happened, so that a property can say exactly what breaks a promise:
`recalculated`, `leaked` (Checkout), `overwritten` (PaymentMatching, Outreach),
`irregular` (Referral), `shared`, `unrecorded` (Broadcast), `crossed` (Outreach),
`unacknowledged` (AdminNotifications), `missed`, `overlaps` (Reminders), `masked`
(Activity), `reopened`, `miscounted`, `beyond`, `removed` (PlanDelivery), `stranded`
(FreeTrial), `slow`, `lateResult` (CancellationNotice), `overtaken` (Renewal), `stale`,
`collided` (TenantDeployment). `checked` (Referral) remembers the payments that somebody
has checked, whatever became of the order. Others count what has reached the outside:
`applied`, `delivered`, `reached`, `messages`, `told`. Each exemption is itself a case
that the code allows; the hazards name its line.

Operators marked "Mutant" are wrong variants of the operator that follows them.
No action uses them; they record which plausible mistake each property catches
(`PROJECT.json`, `mutants`).

### OrderLifecycle

`order`, `audit` and `rows` are the committed `Order`, `OrderAutomation` and
`VPNClient` rows, `panel` the remote clients, `cup` the order's Cup. `lock` is the
row lock taken by `select_for_update_self`, `work` the uncommitted rows of its
owner, with the clients its loop has still to visit. `pc` places each handler;
`snap` is the row that a checkout page read; `due` says that the five minutes
since the submission are over.

| Code | Actions |
|---|---|
| `auto_approve_order` | `ClaimAuto`, then the approval, `RecordError` |
| review page, `retry_order_completion` | `AdminApprove` |
| `confirm_incoming_payment_sms` | `SmsConfirm` |
| `_approve_and_provision_order` | `ApproveRefused`, `BeginApprove`, `CommitCompleted`, `CommitFailed`, `SaveFailed` |
| `_activate_modern_enabled_order_locked` | `ProvisionClient`, `ApproveCallFails` |
| `_activate_legacy_order_locked` | `CreateMissing`, `BeginEnable`, `EnableClient`, `ApproveCallFails` |
| `rebuild_subscription_cups_for_order` | `RebuildCups` |
| `confirm_auto_payment` | `ConfirmAuto` |
| `cancel_auto_approved_order` | `BeginCancelAuto`, `DisableClient`, `DisableFails`, `CommitCancelFailed`, `CommitCancelled` |
| `reject_order` | `AdminReject`, `RejectDenied`, `BeginReject`, `DeleteClient`, `DeleteFails`, `CommitReject` |
| `cancel_order` from bot and web | `BotCancel`, `WebDelete`, `BeginCancel`, `DeleteClient`, `DeleteFails`, `CommitCancel` |
| checkout page | `CheckoutRead`, `CheckoutSave` |
| time, process death, rollback | `ReceiptDue`, `Crash` |

Each panel call is a step of its own, with a failing variant that has or has not
had its effect. Checks that the code makes before it takes the lock are steps of
their own, too, so that everything may happen between check and lock.

Abstractions: the order is a submitted manual-card order; one Cup stands for the
order's Cups; metadata, tracking codes, amounts and notifications are left out,
and so are failures of the frozen-scope checks before the first panel call (they
end as `ApproveCallFails` does). `Modern` selects the panel strategy that
`resolve_order_provisioning_strategy` has frozen for the order. Plan delivery
configurations, recipes and the retry of a partly delivered plan replace the two
panel paths in other stores; they are in `PlanDelivery`. `cancellation_clients` also
covers renewals; here it yields the order's own clients.

### CancellationNotice

Times are ages, so that the state space is finite without a bound on time:
`tickAge` is how long ago a sender took its `now`, `attemptAge` how long ago the
recorded attempt lies. The request that cancels takes its `now` when the
cancellation commits; a worker takes it at the start of its tick
(`process_order_automation`), before approvals and reminders. Each attempt finds
any set of active chats, because the customer may link or block the bot at any
time. `RecordResult` writes without lock or check, as the code does.

Nothing in the code ends a tick that takes longer than the back-off: a tick makes up to
100 approvals with panel calls before it comes to the notices. `TickLength` is therefore
any length. An attempt whose `now` is a back-off old (`Outlasts`) is due again for others
from then on; `slow` counts these attempts and `lateResult` says that the recorded status
is the result of one.

### Renewal

For each order: `attempt` is the claim (`renewal_recovery_attempt`), `intent` the
recorded intent with the expiry before and after and the state of the reset;
`work` is the intent in an approver's open transaction. `expiry` and `matches`
are what the panel shows (`matches`: quota, device limit and enable are the
plan's). `extensions` and `resets` count what each order has done on the panel.
`LookForPending` and `CreateOrder` are two steps without a lock between them, so that two
requests create two orders; `overtaken` has the open orders that had recorded an intent
when another order extended the client.

| Code | Actions |
|---|---|
| `renew_config`, `pending_renewal_order`, `create_renewal_payment_order` | `LookForPending`, `CreateOrder` |
| `approve_and_provision_order` | `Approve`, `Claim`, `Refuse`, `Begin`, `Finish` |
| `auto_approve_order` around it | `AutoClaim`, `AutoBegin` |
| `update_client_subscription` | `ReadPanel`, `ReadFails`, `PostUpdate`, `PostFails`, `ResetTraffic`, `ResetFails` |
| `_activate_renewal_order_locked` | `Commit` |
| process death; time; `add_client_traffic`, staff, the panel itself | `Crash`; `TimePasses`; `DaysAdded`, `ClientChanges` |

Plan and target checks of the intent are left out (a plan that changes only adds
refusals). Closing a renewal order and the PasarGuard variant are not modelled.

### Checkout and PaymentMatching

A request goes through `lock`, `reserve`, `select`, `create` and `commit`. `cache` has the
duplicate locks of each process: the settings configure no shared cache, so it is
Django's local memory. `Return` deletes the key as the `finally` clause does, whoever
set it. A customer stands for a duplicate key (customer, plan, quantity and the
rest); the form's validation is a guard of `Submit`. `Decide` stands for what
OrderLifecycle does with the order. An SMS is one row; the amount matches every
pending order, and the time window is `recent`.

| Code | Actions |
|---|---|
| `create_manual_payment_order` | `Submit`, `AcquireLock`, `Reserve`, `Select`, `CreateClient`, `CommitOrder`, `CommitFails` |
| time-out, process death | `LockExpires`, `OrderAges`, `Crash` |
| staff's codes and inbounds | `ToggleCode`, `RecalculateUsed`, `ToggleInbound` |
| `smsforwarder_webhook`, `process_incoming_payment_sms`, re-evaluation | `SmsArrives`, `Reevaluate`, `WriteMatches` |
| `confirm_incoming_payment_sms`, dismissal | `ConfirmSms`, `DismissSms` |

### Referral

`BeginApproval` and `CommitApproval` bracket the approval's transaction, inside which the
signal runs: the count of purchases is taken when the friend's referral row is
locked and used when the transaction commits. `awards` has the calls of
`create_referral_reward_for_order` still to come; they run after the commit and may
be lost. `review` says how an order was approved. `CloseOrder` is `reject_order` or
`cancel_order`, which looks at no status, so that an order completed after the bot's own
look is cancelled; `CancelAuto` is `cancel_auto_approved_order`, also after the
reconciliation and again after a failure. Neither takes rewards back. A redemption is one at a time,
because it locks the client and the ledger's rows.

### PlanDelivery and FreeTrial

A delivery is one transaction (`tx`) with panel calls inside: `BeginDelivery`, one
`PanelSource` or `InventorySource` for each source or rule in order, `UseFallback`,
`CommitDelivery`. A failed delivery commits too, with the order CONFIRMED and its
allocations kept. `poolOwner` is the transaction that has locked the pool's row.
`Takes` yields every choice of assets, where the code takes the oldest or the least used.
`RuleMode` gives each rule of a recipe its mode; one that is unlimited takes all it needs
from one asset, whatever the pool's limit, and `beyond` counts what this is past it.
Staff assign (`CreateAssignment`, `CompleteAssignment`), add and remove Cup items
(`AddToCup`, `RemoveFromCup`) and edit an asset in three steps (`ShowAsset`, `PostAsset`,
`SaveAsset`), since the admin reads the row when the form comes back and saves all
columns. FreeTrial follows `create_free_trial_for_customer` step by step; each handler is
in a process, and so a cache, of its own.

### The modules of messages

In all of them a send is a step between a claim and a record; an answer may be lost
and a process die in between. A lost answer counts as not sent: in `AdminNotifications`
the claim is then released and the admins are told again (`unacknowledged`). `Reminders`
locks nothing: the duplicate, cooldown and limit checks and each write of the log are steps
of their own (`CheckDuplicate`, `CheckCooldown`, `CheckLimit`, `SkipReminder`,
`IntendReminder`, `RecordReminder`), and `overlaps` counts the runs that passed the first
check while another one was at work on the trigger. `Broadcast` takes no locks: a sender works on the list
that it has read (`todo`), and the bot's inline sending deletes rows under it. `Outreach`
reserves under the locks of store and customer, looks again, sends, and records if the row
still says SENDING; ages are classes (minutes, day, week, old). `Activity` has an
absolute `time` bounded by `MaxTime`; a collector's heartbeat runs before the
panel is read, after it, and for every other purchase recorded before this one.

### TenantDeployment

| Code | Actions |
|---|---|
| `_validate_new_tenant`, `_instance_for_tenant` | `ValidateNewTenant`, `InstanceForTenant` |
| `SubdomainDeploymentService.deploy_instance` | `MarkDeploying`, `CreateDatabase`, `RunContainer`, `WriteSite`, `Reload`, `FinishDeploy` |
| `PortAllocator.allocate`, `release` | `ChoosePort`, `SavePort`, `ReleasePort` |
| `_rollback` | `RemoveSite`, `RemoveContainer`, `DropDatabase`, `ReleasePort`, `MarkFailed` |
| `InstanceManager`, `DeployEngine` | `ApiChoosePort`, `ApiCreate`, `ApiDeploy`, `ApiRemotePort`, `ApiRun`, `ApiFinish` |
| stop, start, delete, status | `BeginOp`, `DockerStop`, `DockerStart`, `DockerRemove`, `DockerInspect`, `SaveOp`, `OpFails` |

Allocation locks its own row only; the unique constraint on (server, port) is what
keeps two rows apart. There is one server, and a subdomain is its tenant.
`deployment_status` is left out: rows that a rollback marked have no port.
`Leaks` names the failing commands that leave something behind, and `collided`
records a collision that no other deployment can explain.
`site` is what the enabled files say, `serving` what the running Nginx has since its last
reload. The rollback unlinks the files and does not reload: a tenant whose port it
releases while Nginx still has it is in `stale` until any deployment reloads.

## 3. Runs

| Run | Instance | Shows |
|---|---|---|
| `order_modern` | modern panel, 2 clients, 2 requests, 1 worker, 1 crash; two handlers at a time, two requests only without a crash before (`TwoAtATime`) | `RevokedStayOff`, `CancellationComplete`, `SingleAutomaticAttempt`, `ClosedEnablesNothing`, `CompletionDelivers`, implementation of `Revocation` |
| `order_legacy` | legacy panel, 1 request, 1 worker, 1 crash, fairness | `DueReceiptDecided`, `HandlersEnd` |
| `notice` | 1 request, 1 worker, 2 chats, back-off 2, requests and ticks up to 3, 1 fault, 1 attempt that outlasts the back-off, fairness | `MessagesBounded`, `SuccessIsFinal`, `NoticeSettles` |
| `renewals_and_tenants` | 2 orders, 2 requests of customers, 2 approving ones, 1 worker, 1 crash, 1 other edit or unit of time, with one order open; or 3 tenants, 2 of them deployed at a time, 2 ports, 1 failure, 2 commands on existing tenants | `ExtendedOnce`, `ResetOnce`, `CompletedIsExtended`; `SiteReachesOwnTenant` |
| `checkout` | 2 requests in 2 processes, 2 customers, 1 reward code of one use, 2 inbounds of one place, 2 orders, 1 fault, 1 intervention; 1 SMS | `UsesAccounted`, `DiscountWithinLimit`, `SmsPaysOnce` |
| `referral` | 2 friends, 3 orders, milestone 2, 1 fault or 1 order that is closed or cancelled | `LedgerNeedsCheckedPayment`, `RewardAppliedOnce`, `MilestonesExact` |
| `messaging` | 2 processes of each kind, 2 recipients, 2 events of one customer, 4 claims, 2 triggers with 2 attempts and 1 fault or overlap | `ResentOnlyUnrecorded`, `OneMessagePerEvent`, `OneMessageADay`, `AdminsToldOnce`, `RemindedOnce`, `NoReminderBurst`, `InactiveIsTrue`, `SamplesInOrder` |
| `delivery` | 2 assets, a delivery, a recipe with a panel rule, a limited rule and an unlimited one of quantity 2, an assignment, 1 crash, 2 edits; 3 trial requests, 2 handlers | `SoldOnce`, `SourceQuota`, `CompletedIsDelivered`, `OneTrialPerCooldown` |
| `renewal_blind`, `checkout_duplicate`, `referral_early`, `deployment_deleted_port` | the instances above or smaller | places where the code does otherwise than a document or comment says (below) |

Why the bounds are enough: a request thread that ends starts again with any
request, so one thread makes any sequence of requests, two make every pair of them
overlap, and the row lock serialises the rest (a third handler at the same time is
left to the proofs). Two clients are the smallest number
with a failure between two calls. Two chats make a partial delivery. In `notice`
the back-off 2 and the length 3 give attempts that are recorded in the past, within the
back-off and beyond it. Two renewals, a duration of 2, one unit of time and one
added day make expired and running clients, equal and different targets; the two orders
are open together, or one after the other with time and edits in between. Faults
are bounded because each adds the same kind of step again; the proofs have no
bounds. Two workers next to a request that sends a notice are covered by the proof only.
Where every order may be completed and every bound be used up, nothing is left
to do: deadlock is not checked in `renewals_and_tenants` and in the newer runs.

In `checkout` one use of the code and two customers make the limit bind, one place
for each inbound makes the second checkout fall back or fail, and the SMS is
explored next to one handler's checkouts, because it shares nothing with codes and
inbounds. In `referral` two friends are the smallest number with a milestone to miss
or to repeat, and three orders give one of them an earlier order; faults and endings are
explored one at a time, since neither makes the other possible. In `delivery` two
assets serve three orders, so that one of them finds the pool empty; the sources are a
panel and a stock source with a fallback, the rules a panel rule, a stock rule in the
limited mode, which sells from an exclusive pool, and one in the unlimited mode with two
configs, so that what a retry finds missing may be one, two or none. In `messaging` a
batch of 2, one retry and three passes, or two and a fault, let the passes overlap;
`MaxGap` is greater than `Lease` and smaller than `Window`, as in the code.

Of tenants, two ports for three tenants make a released port be taken again at
once. A tenant has one deployment at a time and is not deleted while it is being
deployed, and a failing rollback step leaves only a database or a role: each of
these is an assumption about the operator or the server, and without it
`SiteReachesOwnTenant` does not hold (item 9 below is one case; a deletion during a
deployment, two `create_tenant` for one tenant, an `unlink` that fails and a
`docker run` that leaves a created container are others).
The property rests on the constraint counting deleted rows: with a constraint that
leaves them out, as `used_ports` does (its mutant), a deleted tenant's site, which
stays, leads to the next tenant that gets the port.

Fairness. Handlers that have started run to their end and a wait for a row lock is
served (database lock queue): strong fairness of a handler's steps, since
others take the lock in between. The worker loop in `docker/start-order-automation.sh`
restarts the command every 30 seconds for ever: fairness of `ClaimAuto` and of
the ticks. No user action is fair. In `notice` a message that is tried again
and again is accepted by Telegram in the end; without that the code promises
retries only.

### Where the code does otherwise

Shown by a run:

1. `renewal_blind`: in the worker the renewal's claim is nested in the transaction
   that calls the panel; a crash loses both, and the next approval renews again.
2. `checkout_duplicate`: the search for a similar order precedes the lock and is not
   repeated after it, and the lock is local to a process: two web workers write two
   similar orders.
3. `referral_early`: the inviter's discount code comes with the save of an automatic
   approval, before the payment is reconciled; only the traffic reward waits.
4. `deployment_deleted_port`: `used_ports` leaves deleted tenants out, but their rows
   keep the port and the unique constraint counts them. An allocation after a
   deletion picks this port and fails, however often it is repeated.

Reachable in the model, without a run of its own:

5. A client that the panel created although the answer got lost has no row; the
   cancellation cannot see it and the order is marked cancelled with this client
   enabled. (The retry of the approval would have found it by its identity.)
6. A request's approval commits, a cancellation disables the Cups, and then the
   approval rebuilds them with `force_active=True`.
7. An attempt at a notice that is open for the whole back-off is due again for others:
   two senders send at once, and the slower one's failure replaces the other's success.
   The run has this case; `MessagesBounded` and `SuccessIsFinal` say what it costs.
8. Two renewals of a client that are created by two requests at the same time have
   the same target; one of them can complete on the other's extension (`overtaken`, in
   the run). In the same way an order completes without an extension of its own when
   others add as many days as the plan has between a failed attempt and the next
   (`edits < Duration` in `CompletedIsExtended`): the expiry they reached is taken for the
   update's, or is overwritten by it.
9. With `"remove"` in `Leaks`: a rollback whose `docker rm` fails releases the port all
   the same. The container that is left can be started again when the port's next
   tenant is stopped, and then answers at that tenant's site.
10. A rollback does not reload Nginx. When the reload has taken the site and a later step
   fails, or a reload fails after its effect, the running Nginx leads the tenant's name to
   the released port, and to the container of the tenant that gets it, until the next
   deployment reloads (`stale`).
11. A message to the admins whose answer was lost counts as not sent; its claim is
   released and the next announcement repeats it (`unacknowledged`).
12. A run of the renewal reminders that passed its duplicate check before another one
   logged SENT sends again when its other checks let it (the cooldown does not count a
   SENT), or writes SKIPPED over SENT, after which a third run sends again (`overlaps`).
13. A traffic reward stays in the ledger when its order is cancelled after the
   reconciliation.
14. A rule of mode SHARED_UNLIMITED sells the configs of an exclusive pool past their
   limit (`beyond`).

With `Modern = FALSE` the property `CompletionDelivers` does not hold: an inactive
row is not provisioned again after its remote client was deleted by a rejection
that failed later. It is stated for modern panels only.

## 4. Proofs

Every safety property that a run checks is a theorem, for every value of the
constants under the assumptions named in the modules. These say: the sets of threads are
disjoint; quantities, durations, back-offs, milestones and limits are positive; the sets
that are counted (requests, senders, runs, orders, assets, events, friends, stages) are finite; there is a
customer and a tenant; an order is delivered by a configuration or by a recipe, not by
both. In each proof module an invariant is inductive with the types; its parts are at the
end of the model's module, and TLC has checked them on the runs' instances.

* `OrderLifecycleProofs`. `SafetyInv` is inductive with `TypeOK`. `RevokedStayOff`
  alone is not: an approval under way could enable a revoked client unless
  no approval is under way once a cancellation is recorded (`ApprovingOpen`), which
  needs the handlers in a transaction to be the lock owners (`Locking`), and
  the revocations a running cancellation has collected to be off already
  (`CancellingSound`). From it follow `RevokedStayOffAlways`,
  `CancellationCompleteAlways`, `SingleAttempt`, the action properties
  `ClosedEnablesNothingAlways` and `CompletionDeliversAlways` (modern panels), and
  `Refinement`: the life cycle implements `Revocation`.
* `CancellationNoticeProofs`. `NoticeInv` ties a sender's age to the recorded
  attempt: none that is sending is older than the attempt on record, so that of those
  within the back-off (`Fresh`) there is one. The others have been counted by `slow` and
  may each write once more to a chat they have not reached (`Credit`). Hence
  `MessagesBoundedAlways` and `SuccessIsFinalAlways`, for ticks of any length.
* `RenewalProofs`. `RenewalInv` is inductive with `TypeOK`. The core are
  `ExtensionCovered` and `ResetCovered`: once an order has had its effect, either
  the committed intent shows it, or the one transaction that still has it is open,
  or the claim stays running with nobody to take it back. `UpdateForward` keeps
  another order's update from moving the expiry behind a recorded target, so that
  a repeated update is recognised. Hence `ExtendedOnceAlways` and
  `ResetOnceAlways` for orders that no worker has claimed; `renewal_blind` shows
  that workers have to be excepted.
  `CompletionInv` is a second invariant on top of it: only open orders are worked on
  (`OpenWorked`), and until an order or another one that was open with it has extended the
  client, its recorded target is ahead of the expiry, by more than others have added
  (`TargetAhead`). Hence a "target reached" is its own or that of the order that overtook
  it, and `CompletedIsExtendedAlways`, for any number of customers' requests at once.
* `CheckoutProofs`. `MatchingInv`: what a request holds fits the step it is at
  (`HoldingsFit`), so that a use is released or passed to an order once; the counter itself
  is within the limit (`UsedWithinLimit`), and an SMS that has paid is still marked
  confirmed (`PaidWhileConfirmed`). Hence `UsesAccountedAlways`,
  `DiscountWithinLimitAlways`, `SmsPaysOnceAlways`.
* `ReferralProofs`. `ReferralInv`: an open approval holds its friend's row
  (`ApprovalsLocked`), a review follows its approval and the reviews that let a reward
  through were checks (`ReviewFollowsApproval`), rewards being redeemed stay available,
  and a count taken in an approval is still right at its commit unless approvals overlap
  (`CountsFresh`). Hence `LedgerNeedsCheckedPaymentAlways`, `RewardAppliedOnceAlways`,
  `MilestonesExactAlways`.
* `DeliveryProofs`. `DeliveryInv`: only the owner of the pool's lock has taken stock
  (`OwnerTakes`), an asset's counter is the number of its allocations and within its
  `Ceiling`, the limit and what unlimited rules have committed past it, while a transaction
  carries its own excess in `over` (`StockFits`), what is
  taken and what is allocated stay within a source's quantity (`QuotaFits`), and each source
  of a delivery has succeeded, failed or is still to come (`NoneForgotten`). Hence
  `SoldOnceAlways`, `SourceQuotaAlways`, `CompletedIsDeliveredAlways`. `TrialInv`: the
  customer's row is locked from the second check to the write, so that the request about to
  be written is the only one that counts (`CooldownOnce`). Hence `OneTrialPerCooldownAlways`.
* `MessagingProofs`, one invariant for each module. Broadcast: a recipient that was never
  shared is in one handler's hands. Outreach: an event has one runner and one reservation a
  day. AdminNotifications: claims have different times, so that releasing one never clears
  another, and what was told and acknowledged stays claimed (`ToldStays`). Reminders: every
  run that may still send, or end unlogged, has its message accounted for
  (`ArrivalsAccounted`). ReceiptReminders:
  the reminder on record is the last one. Activity: the holder of the lease has the latest
  sample (`HolderIsLatest`), and from `since` on all use is on record (`UseOnRecord`). Hence
  the seven invariants and the action property `SamplesInOrderAlways`.
* `TenantDeploymentProofs`. `TypeCorrect` holds for all behaviours and includes the unique
  ports. `DeploymentInv` ties site, container and row of a tenant together: a published port
  and the port of a site, enabled or served, are the row's, in every step of a deployment
  and of its rollback, but for sites that Nginx still has after the port's release (`stale`).
  `SiteReachesOwnTenantAlways` follows for `CarefulSpec` (one deployment of a tenant at a
  time, none next to its deletion) and `CleanFailures` (failing commands leave databases or
  roles only). These are the operator's part, the ones of the run; section 3 names
  what happens without each.

Only model-checked, because they are out of the prover's reach: the liveness properties
`DueReceiptDecided`, `HandlersEnd` and `NoticeSettles`, which need fairness and `ENABLED`.
The four runs that expect a violation are counterexamples, of which there is nothing to
prove.

## 5. Not modelled

* Panel health, usage and reconciliation, subscription synchronisation: they copy what
  a panel shows into rows and reports; their protocol is a row lock.
* External subscriptions, link parsing, the SMS parser: conversions of text whose
  correctness is a matter of formats.
* Backup and restore, legacy import: shell, files and one-off conversion.
* The bot's dialogues and the admin pages beyond the operations named above:
  presentation. Their unlocked checks are modelled where an operation relies on them.
* Of modelled parts: several inbounds in one order, the PasarGuard renewal, pools that are
  unlimited themselves (there is no limit to keep; unlimited rules over limited pools are
  modelled), attribution of panel counters to purchases, segmentation of the
  revenue engine; of deployment: bot workers, HTTPS certificates, requested ports, the
  capacity of servers, the PostgreSQL bridge.

## 6. Plan

1. Done: all modules, model-checked; theorems for every safety property of the runs.
2. Next: abstract specifications of what other parts promise (a pool of configs, a code
   with a limited number of uses), refined by `PlanDelivery` and `Checkout` as
   `OrderLifecycle` refines `Revocation`.
3. The legacy panel: a form of `CompletionDelivers` that holds there, with its proof.
