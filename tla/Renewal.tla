------------------------------ MODULE Renewal ------------------------------
(***************************************************************************)
(* Renewal orders of one VPN client: the orders that customers create, the *)
(* claim in front of an approval (renewal_recovery_attempt), the recorded  *)
(* intent (renewal_intent) with which update_client_subscription recovers  *)
(* from lost answers, and the client's expiry on the panel.                *)
(*                                                                         *)
(* The intent is written in the transaction that calls the panel.  When it *)
(* is lost, only a claim that was committed before can stop a second       *)
(* extension.  Closing a renewal order is part of OrderLifecycle.          *)
(***************************************************************************)
EXTENDS Naturals, FiniteSets

CONSTANTS
  Orders,       \* renewal orders for the client
  Customers,    \* web and bot requests of the customer
  Requests,     \* staff and SMS handlers that approve an order
  Workers,      \* running process_order_automation commands
  NoThread,
  Duration,     \* the plan's duration_days, in units of time
  MaxTime,      \* bound on the clock
  MaxEdits,     \* bound on other changes of the expiry
  MaxFaults     \* bound on crashes

Approvers == Requests \cup Workers

ASSUME ApproversAssumption ==
  /\ Requests \cap Workers = {} /\ NoThread \notin Requests \cup Workers
ASSUME DurationAssumption == Duration \in Nat \ {0}
ASSUME BoundsAssumption == MaxTime \in Nat /\ MaxEdits \in Nat /\ MaxFaults \in Nat

VARIABLES
  status,       \* of each order; "open" is pending or confirmed
  attempt,      \* metadata.renewal_recovery_attempt.status
  intent,       \* metadata.renewal_intent
  auto,         \* auto_approved_at is set
  expiry,       \* the client's expiry on the panel
  matches,      \* quota, device limit and enable on the panel are the plan's
  creating,     \* customers that found no pending renewal
  pc, on,       \* where an approver is, and with which order
  claimed,      \* the approver has set its order's attempt to running
  work,         \* the intent in the approver's transaction
  orderLock, clientLock,
  now, edits, faults,
  extensions,   \* history: how often each order has raised the expiry
  resets,       \* history: how often each order has reset the traffic
  overtaken     \* history: orders with an intent whose client another order extended

vars == <<status, attempt, intent, auto, expiry, matches, creating, pc, on, claimed, work,
          orderLock, clientLock, now, edits, faults, extensions, resets, overtaken>>

panel == <<expiry, matches, extensions, resets, overtaken>>
environment == <<creating, now, edits>>

NoIntent == [previous |-> 0, target |-> 0, reset |-> "none"]
Intents == [previous: Nat, target: Nat, reset: {"none", "pending", "started", "done"}]
Recorded(i) == i.reset # "none"

LockSteps == {"renew", "update", "reset", "complete", "failed"}
ClientSteps == LockSteps \ {"renew"}
Steps == LockSteps \cup {"idle", "claim", "approve", "finish"}

TypeOK ==
  /\ status \in [Orders -> {"none", "open", "completed"}]
  /\ attempt \in [Orders -> {"", "running", "finished"}]
  /\ intent \in [Orders -> Intents]
  /\ auto \in [Orders -> BOOLEAN]
  /\ expiry \in Nat /\ matches \in BOOLEAN
  /\ creating \subseteq Customers
  /\ pc \in [Approvers -> Steps]
  /\ on \in [Approvers -> Orders]
  /\ claimed \in [Approvers -> BOOLEAN]
  /\ work \in [Approvers -> Intents]
  /\ orderLock \in [Orders -> Approvers \cup {NoThread}]
  /\ clientLock \in Approvers \cup {NoThread}
  /\ now \in 0..MaxTime /\ edits \in 0..MaxEdits /\ faults \in 0..MaxFaults
  /\ extensions \in [Orders -> Nat] /\ resets \in [Orders -> Nat]
  /\ overtaken \subseteq Orders

(* The client may have expired, and may already have the plan's quota.      *)
Init ==
  /\ status = [o \in Orders |-> "none"]
  /\ attempt = [o \in Orders |-> ""]
  /\ intent = [o \in Orders |-> NoIntent]
  /\ auto = [o \in Orders |-> FALSE]
  /\ expiry \in {0, 1} /\ matches \in BOOLEAN
  /\ creating = {}
  /\ pc = [t \in Approvers |-> "idle"]
  /\ on \in {[t \in Approvers |-> o] : o \in Orders}
  /\ claimed = [t \in Approvers |-> FALSE]
  /\ work = [t \in Approvers |-> NoIntent]
  /\ orderLock = [o \in Orders |-> NoThread]
  /\ clientLock = NoThread
  /\ now = 0 /\ edits = 0 /\ faults = 0
  /\ extensions = [o \in Orders |-> 0]
  /\ resets = [o \in Orders |-> 0]
  /\ overtaken = {}

-----------------------------------------------------------------------------
(* The customer: an unlocked look for a pending renewal, then the order. *)

LookForPending(c) ==
  /\ c \notin creating /\ \A o \in Orders : status[o] # "open"
  /\ creating' = creating \cup {c}
  /\ UNCHANGED <<status, attempt, intent, auto, panel, pc, on, claimed, work, orderLock,
                 clientLock, now, edits, faults>>

CreateOrder(c, o) ==
  /\ c \in creating /\ status[o] = "none"
  /\ status' = [status EXCEPT ![o] = "open"]
  /\ creating' = creating \ {c}
  /\ UNCHANGED <<attempt, intent, auto, panel, pc, on, claimed, work, orderLock, clientLock,
                 now, edits, faults>>

-----------------------------------------------------------------------------
(* approve_and_provision_order.  A request commits the claim on its own.    *)

Goto(t, step) == pc' = [pc EXCEPT ![t] = step]
Unlocked(o) == orderLock[o] = NoThread

Approve(t, o) ==
  /\ pc[t] = "idle" /\ status[o] = "open"
  /\ on' = [on EXCEPT ![t] = o]
  /\ Goto(t, "claim")
  /\ UNCHANGED <<status, attempt, intent, auto, panel, claimed, work, orderLock, clientLock,
                 environment, faults>>

Claim(t) ==
  LET o == on[t] IN
  /\ pc[t] = "claim" /\ Unlocked(o)
  /\ attempt[o] # "running" /\ status[o] # "completed"
  /\ attempt' = [attempt EXCEPT ![o] = "running"]
  /\ claimed' = [claimed EXCEPT ![t] = TRUE]
  /\ Goto(t, "approve")
  /\ UNCHANGED <<status, intent, auto, panel, on, work, orderLock, clientLock, environment,
                 faults>>

(* An attempt is running or its result is unknown; or nothing is left to do.*)
Refuse(t) ==
  LET o == on[t] IN
  /\ pc[t] = "claim" /\ Unlocked(o)
  /\ attempt[o] = "running" \/ status[o] = "completed"
  /\ Goto(t, "idle")
  /\ UNCHANGED <<status, attempt, intent, auto, panel, on, claimed, work, orderLock,
                 clientLock, environment, faults>>

(* The transaction that calls the panel. *)
Begin(t) ==
  LET o == on[t] IN
  /\ pc[t] = "approve" /\ t \in Requests /\ Unlocked(o)
  /\ IF status[o] = "completed"
     THEN Goto(t, "finish") /\ UNCHANGED <<work, orderLock>>
     ELSE /\ orderLock' = [orderLock EXCEPT ![o] = t]
          /\ work' = [work EXCEPT ![t] = intent[o]]
          /\ Goto(t, "renew")
  /\ UNCHANGED <<status, attempt, intent, auto, panel, on, claimed, clientLock, environment,
                 faults>>

(* auto_approve_order: its own claim is committed; what it calls runs in    *)
(* one transaction, the renewal's claim included.                           *)
AutoClaim(t, o) ==
  /\ pc[t] = "idle" /\ status[o] = "open" /\ Unlocked(o) /\ ~auto[o]
  /\ auto' = [auto EXCEPT ![o] = TRUE]
  /\ on' = [on EXCEPT ![t] = o]
  /\ Goto(t, "approve")
  /\ UNCHANGED <<status, attempt, intent, panel, claimed, work, orderLock, clientLock,
                 environment, faults>>

AutoBegin(t) ==
  LET o == on[t] IN
  /\ pc[t] = "approve" /\ t \in Workers /\ Unlocked(o)
  /\ IF attempt[o] = "running" \/ status[o] = "completed"
     THEN Goto(t, "idle") /\ UNCHANGED <<work, orderLock>>
     ELSE /\ orderLock' = [orderLock EXCEPT ![o] = t]
          /\ work' = [work EXCEPT ![t] = intent[o]]
          /\ Goto(t, "renew")
  /\ UNCHANGED <<status, attempt, intent, auto, panel, on, claimed, clientLock, environment,
                 faults>>

-----------------------------------------------------------------------------
(* update_client_subscription, under the VPNClient's row lock. *)

Later(x, y) == IF x >= y THEN x ELSE y

(* Mutant: every attempt makes its own intent. *)
IntentOfAttempt(i) ==
  [previous |-> expiry, target |-> Later(now, expiry) + Duration, reset |-> "pending"]

(* The recorded intent, or the one made from what the panel shows. *)
IntentOf(i) ==
  IF i.reset # "none" THEN i
  ELSE [previous |-> expiry, target |-> Later(now, expiry) + Duration, reset |-> "pending"]

AlreadyUpdated(i) == expiry = i.target /\ matches

(* Mutant: a reset that was started is not taken for uncertain. *)
UncertainUpdate(i) ==
  \/ i.reset # "none" /\ expiry \notin {i.previous, i.target}
  \/ i.reset = "done" /\ ~AlreadyUpdated(i)

(* Neither the state before nor the one after the recorded update. *)
Uncertain(i) ==
  \/ i.reset # "none" /\ expiry \notin {i.previous, i.target}
  \/ i.reset = "started"
  \/ i.reset = "done" /\ ~AlreadyUpdated(i)

ReadPanel(t) ==
  /\ pc[t] = "renew" /\ clientLock = NoThread /\ ~Uncertain(work[t])
  /\ clientLock' = t
  /\ LET i == IntentOf(work[t]) IN
     /\ work' = [work EXCEPT ![t] = i]
     /\ Goto(t, CASE ~AlreadyUpdated(i) -> "update"
                  [] AlreadyUpdated(i) /\ i.reset = "done" -> "complete"
                  [] OTHER -> "reset")
  /\ UNCHANGED <<status, attempt, intent, auto, panel, on, claimed, orderLock, environment,
                 faults>>

(* The panel does not answer, or what it shows is uncertain. *)
ReadFails(t) ==
  /\ pc[t] = "renew" /\ clientLock = NoThread
  /\ clientLock' = t
  /\ Goto(t, "failed")
  /\ UNCHANGED <<status, attempt, intent, auto, panel, on, claimed, work, orderLock,
                 environment, faults>>

(* The other open orders that have recorded an intent. *)
Waiting(o) == {p \in Orders \ {o} : status[p] = "open" /\ Recorded(intent[p])}

(* _post_client_update takes effect; its answer arrives or is lost. *)
PostUpdate(t) ==
  /\ pc[t] = "update"
  /\ expiry' = work[t].target
  /\ matches' = TRUE
  /\ extensions' = IF expiry < work[t].target THEN [extensions EXCEPT ![on[t]] = @ + 1]
                   ELSE extensions
  /\ overtaken' = IF expiry < work[t].target THEN overtaken \cup Waiting(on[t]) ELSE overtaken
  /\ \E step \in {"reset", "failed"} : Goto(t, step)
  /\ UNCHANGED <<status, attempt, intent, auto, resets, on, claimed, work, orderLock,
                 clientLock, environment, faults>>

(* Mutant: the answer is not looked at. *)
PostFailsIgnored(t) ==
  /\ pc[t] = "update"
  /\ Goto(t, "reset")
  /\ UNCHANGED <<status, attempt, intent, auto, panel, on, claimed, work, orderLock,
                 clientLock, environment, faults>>

PostFails(t) ==
  /\ pc[t] = "update"
  /\ Goto(t, "failed")
  /\ UNCHANGED <<status, attempt, intent, auto, panel, on, claimed, work, orderLock,
                 clientLock, environment, faults>>

(* _post_client_reset_traffic between "started" and "done". *)
ResetTraffic(t) ==
  /\ pc[t] = "reset"
  /\ resets' = [resets EXCEPT ![on[t]] = @ + 1]
  /\ \E outcome \in {<<"done", "complete">>, <<"started", "failed">>} :
       /\ work' = [work EXCEPT ![t].reset = outcome[1]]
       /\ Goto(t, outcome[2])
  /\ UNCHANGED <<status, attempt, intent, auto, expiry, matches, extensions, overtaken, on,
                 claimed, orderLock, clientLock, environment, faults>>

(* Mutant: the failed reset gets a state of its own. *)
ResetFailsMarked(t) ==
  /\ pc[t] = "reset"
  /\ work' = [work EXCEPT ![t].reset = "failed"]
  /\ Goto(t, "failed")
  /\ UNCHANGED <<status, attempt, intent, auto, panel, on, claimed, orderLock, clientLock,
                 environment, faults>>

ResetFails(t) ==
  /\ pc[t] = "reset"
  /\ work' = [work EXCEPT ![t].reset = "started"]
  /\ Goto(t, "failed")
  /\ UNCHANGED <<status, attempt, intent, auto, panel, on, claimed, orderLock, clientLock,
                 environment, faults>>

(* The transaction ends.  A worker's also holds the end of the attempt. *)
Commit(t) ==
  LET o == on[t] IN
  /\ pc[t] \in {"complete", "failed"}
  /\ status' = IF pc[t] = "complete" THEN [status EXCEPT ![o] = "completed"] ELSE status
  /\ intent' = [intent EXCEPT ![o] = work[t]]
  /\ work' = [work EXCEPT ![t] = NoIntent]
  /\ orderLock' = [orderLock EXCEPT ![o] = NoThread]
  /\ clientLock' = NoThread
  /\ IF t \in Workers
     THEN attempt' = [attempt EXCEPT ![o] = "finished"] /\ Goto(t, "idle")
     ELSE UNCHANGED attempt /\ Goto(t, "finish")
  /\ UNCHANGED <<auto, panel, on, claimed, environment, faults>>

(* record_order_metadata: the attempt is finished. *)
Finish(t) ==
  LET o == on[t] IN
  /\ pc[t] = "finish" /\ Unlocked(o)
  /\ attempt' = [attempt EXCEPT ![o] = "finished"]
  /\ claimed' = [claimed EXCEPT ![t] = FALSE]
  /\ Goto(t, "idle")
  /\ UNCHANGED <<status, intent, auto, panel, on, work, orderLock, clientLock, environment,
                 faults>>

-----------------------------------------------------------------------------
(* The environment: crashes, time, and others who change the client. *)

Crash(t) ==
  /\ pc[t] # "idle" /\ faults < MaxFaults
  /\ faults' = faults + 1
  /\ Goto(t, "idle")
  /\ claimed' = [claimed EXCEPT ![t] = FALSE]
  /\ work' = [work EXCEPT ![t] = NoIntent]
  /\ orderLock' = [o \in Orders |-> IF orderLock[o] = t THEN NoThread ELSE orderLock[o]]
  /\ clientLock' = IF clientLock = t THEN NoThread ELSE clientLock
  /\ UNCHANGED <<status, attempt, intent, auto, panel, on, environment>>

TimePasses ==
  /\ now < MaxTime
  /\ now' = now + 1
  /\ UNCHANGED <<status, attempt, intent, auto, panel, creating, pc, on, claimed, work,
                 orderLock, clientLock, edits, faults>>

(* Staff or a referral reward add days on the panel. *)
DaysAdded ==
  /\ edits < MaxEdits
  /\ edits' = edits + 1
  /\ expiry' = expiry + 1
  /\ UNCHANGED <<status, attempt, intent, auto, matches, extensions, resets, overtaken, creating,
                 pc, on, claimed, work, orderLock, clientLock, now, faults>>

(* The panel disables the client, or staff change its quota. *)
ClientChanges ==
  /\ matches
  /\ matches' = FALSE
  /\ UNCHANGED <<status, attempt, intent, auto, expiry, extensions, resets, overtaken, environment,
                 pc, on, claimed, work, orderLock, clientLock, faults>>

-----------------------------------------------------------------------------
Renew(t) ==
  \/ ReadPanel(t) \/ ReadFails(t) \/ PostUpdate(t) \/ PostFails(t)
  \/ ResetTraffic(t) \/ ResetFails(t) \/ Commit(t) \/ Crash(t)

Next ==
  \/ \E c \in Customers : LookForPending(c) \/ \E o \in Orders : CreateOrder(c, o)
  \/ \E t \in Requests :
       \/ \E o \in Orders : Approve(t, o)
       \/ Claim(t) \/ Refuse(t) \/ Begin(t) \/ Finish(t) \/ Renew(t)
  \/ \E t \in Workers : (\E o \in Orders : AutoClaim(t, o)) \/ AutoBegin(t) \/ Renew(t)
  \/ TimePasses \/ DaysAdded \/ ClientChanges

Spec == Init /\ [][Next]_vars

-----------------------------------------------------------------------------
(* Properties. *)

(* An order that no worker has claimed raises the client's expiry at most   *)
(* once, after any mixture of lost answers, crashes, repeated approvals and *)
(* renewals by other orders.                                                *)
ExtendedOnce == \A o \in Orders : ~auto[o] => extensions[o] <= 1

(* Such an order resets the client's traffic at most once: a reset whose    *)
(* answer was lost is not repeated.                                         *)
ResetOnce == \A o \in Orders : ~auto[o] => resets[o] <= 1

(* A completed order has extended the client, or another order that was     *)
(* open with it did so after its intent was recorded: two requests that     *)
(* found no pending renewal both create one, and an expiry that one of them *)
(* moved to the common target is taken for the other's update               *)
(* (update_client_subscription).  Days that others add can be taken for it, *)
(* too, when they are as many as the plan has.                              *)
CompletedIsExtended ==
  edits < Duration =>
    \A o \in Orders : status[o] = "completed" => extensions[o] >= 1 \/ o \in overtaken

-----------------------------------------------------------------------------
(* The parts of the inductive invariant. *)

(* Row locks belong to the approvers inside the transaction. *)
Locking ==
  /\ \A t \in Approvers, o \in Orders :
       orderLock[o] = t <=> (on[t] = o /\ pc[t] \in LockSteps)
  /\ \A t \in Approvers : clientLock = t <=> pc[t] \in ClientSteps

(* A worker is at work on orders it has claimed only. *)
WorkersAuto == \A t \in Workers : pc[t] # "idle" => auto[on[t]]

(* A request past its claim has it, alone. *)
ClaimSteps == LockSteps \cup {"approve", "finish"}
Claiming ==
  /\ \A t \in Requests : claimed[t] <=> pc[t] \in ClaimSteps
  /\ \A t \in Requests : claimed[t] /\ ~auto[on[t]] => attempt[on[t]] = "running"
  /\ \A t, u \in Requests :
       claimed[t] /\ claimed[u] /\ on[t] = on[u] /\ ~auto[on[t]] => t = u

(* Intents move the expiry forward, and a transaction keeps a recorded one. *)
Begun(i) == i.reset \in {"started", "done"}
IntentsSound ==
  /\ \A o \in Orders : Recorded(intent[o]) => intent[o].previous < intent[o].target
  /\ \A t \in Approvers : pc[t] \in LockSteps =>
       /\ Recorded(work[t]) => work[t].previous < work[t].target
       /\ Recorded(intent[on[t]]) => Recorded(work[t]) /\ work[t].target = intent[on[t]].target
       /\ Begun(intent[on[t]]) => Begun(work[t])
       /\ pc[t] = "renew" => work[t] = intent[on[t]]
       /\ pc[t] \in {"update", "reset"} => work[t].reset = "pending"
       /\ pc[t] = "complete" => work[t].reset = "done"

(* An extension is covered by the committed intent, by the transaction that *)
(* still has it, or by a claim that nobody will take back.                  *)
ExtensionCovered ==
  \A o \in Orders : ~auto[o] /\ extensions[o] = 1 =>
    IF Recorded(intent[o]) THEN intent[o].target <= expiry
    ELSE /\ attempt[o] = "running"
         /\ \A t \in Requests : on[t] = o /\ claimed[t] =>
              /\ pc[t] \in {"reset", "complete", "failed"}
              /\ Recorded(work[t]) /\ work[t].target <= expiry

(* The same for the reset of the traffic. *)
ResetCovered ==
  \A o \in Orders : ~auto[o] /\ resets[o] = 1 /\ ~Begun(intent[o]) =>
    /\ attempt[o] = "running"
    /\ \A t \in Requests : on[t] = o /\ claimed[t] =>
         pc[t] \in {"complete", "failed"} /\ Begun(work[t])

(* An update about to be sent does not go behind an earlier extension. *)
UpdateForward ==
  \A t \in Approvers : pc[t] = "update" =>
    \A o \in Orders : ~auto[o] /\ extensions[o] = 1 /\ Recorded(intent[o]) =>
      intent[o].target <= work[t].target

RenewalInv ==
  /\ Locking /\ WorkersAuto /\ Claiming /\ IntentsSound /\ ExtensionCovered
  /\ ResetCovered /\ UpdateForward /\ ExtendedOnce /\ ResetOnce

(* Only orders that are open are worked on. *)
OpenWorked ==
  /\ \A o \in Orders : status[o] = "none" => ~Recorded(intent[o])
  /\ \A t \in Approvers : pc[t] # "idle" => status[on[t]] # "none"
  /\ \A t \in Approvers : pc[t] \in LockSteps => status[on[t]] = "open"

(* Until its order or another has extended the client, an intent's target   *)
(* is ahead of the expiry, by more than the days that others have added.    *)
StillAhead(i) == Recorded(i) => i.previous + Duration <= i.target /\ expiry <= i.previous + edits
Unserved(o) == status[o] = "open" /\ extensions[o] = 0 /\ o \notin overtaken
TargetAhead ==
  edits < Duration => \A o \in Orders : Unserved(o) =>
    /\ StillAhead(intent[o])
    /\ \A t \in Approvers : on[t] = o /\ pc[t] \in LockSteps =>
         StillAhead(work[t]) /\ pc[t] \notin {"reset", "complete"}

CompletionInv == OpenWorked /\ TargetAhead /\ CompletedIsExtended

-----------------------------------------------------------------------------
(* What a comment of the code says. *)

(* "If that transaction crashes or rolls back, a later click must not renew *)
(* blindly", for the orders a worker has claimed, too.                      *)
NoBlindRenewal == \A o \in Orders : extensions[o] <= 1
=============================================================================
