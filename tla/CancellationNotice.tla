------------------------- MODULE CancellationNotice -------------------------
(***************************************************************************)
(* The message that tells a customer that an automatically approved order  *)
(* was cancelled: send_cancellation_notice, called by the request that     *)
(* cancels and, with the time at which their tick started, by the workers. *)
(* Times are kept as ages: how long ago a tick took its `now', how long    *)
(* before the present the recorded attempt lies.  Nothing in the code ends *)
(* a tick that takes longer than the back-off: `slow' counts the attempts  *)
(* that were open for so long.                                             *)
(* The customer may link or unlink chats at any time, so each attempt meets *)
(* any subset of Targets as the active ones.                               *)
(***************************************************************************)
EXTENDS Naturals, FiniteSets

CONSTANTS
  Requests,     \* the requests that cancel the order
  Workers,      \* the worker processes, one or more per replica
  Targets,      \* the chats the customer may have linked with the store
  Backoff,      \* five minutes, in units of time
  RequestLength, \* the longest time from a request's `now' to its end
  TickLength,   \* the same for a worker, whose `now' is its tick's start
  MaxFaults,    \* bound on crashes and lost answers
  MaxSlow       \* bound on attempts that outlast the back-off

Senders == Requests \cup Workers

ASSUME SendersAssumption ==
  /\ Requests \cap Workers = {}
  /\ IsFiniteSet(Requests) /\ IsFiniteSet(Workers)
ASSUME TimesAssumption ==
  /\ Backoff \in Nat \ {0} /\ TickLength \in Nat
  /\ RequestLength \in 0..TickLength
ASSUME FaultsAssumption == MaxFaults \in Nat /\ MaxSlow \in Nat

VARIABLES
  cancelled,    \* review_status = CANCELLED is committed
  status,       \* cancellation_notification_status
  attempted,    \* cancellation_notification_attempted_at is set
  attemptAge,   \* and how long ago it lies
  pc,
  tickAge,      \* how long ago a sender took its `now'
  todo,         \* targets a sender has not written to yet
  delivered,    \* targets whose message Telegram confirmed to a sender
  received,     \* messages each target has received
  faults,
  slow,         \* history: attempts still open when their `now' was a back-off old
  lateResult    \* history: the recorded status is the result of such an attempt

history == <<slow, lateResult>>
vars == <<cancelled, status, attempted, attemptAge, pc, tickAge, todo, delivered,
          received, faults, slow, lateResult>>

Statuses == {"", "failed", "sent", "no_target"}
Final == {"sent", "no_target"}
Steps == {"idle", "tick", "notify", "sending"}

(* An attempt older than this is over the back-off for every tick. *)
OldAge == Backoff + TickLength

TypeOK ==
  /\ cancelled \in BOOLEAN
  /\ status \in Statuses
  /\ attempted \in BOOLEAN
  /\ attemptAge \in 0..OldAge
  /\ pc \in [Senders -> Steps]
  /\ tickAge \in [Senders -> 0..TickLength]
  /\ todo \in [Senders -> SUBSET Targets]
  /\ delivered \in [Senders -> SUBSET Targets]
  /\ received \in [Targets -> Nat]
  /\ faults \in 0..MaxFaults
  /\ slow \in 0..MaxSlow
  /\ lateResult \in BOOLEAN

Init ==
  /\ cancelled = FALSE
  /\ status = ""
  /\ attempted = FALSE
  /\ attemptAge = 0
  /\ pc = [s \in Senders |-> "idle"]
  /\ tickAge = [s \in Senders |-> 0]
  /\ todo = [s \in Senders |-> {}]
  /\ delivered = [s \in Senders |-> {}]
  /\ received = [x \in Targets |-> 0]
  /\ faults = 0
  /\ slow = 0
  /\ lateResult = FALSE

-----------------------------------------------------------------------------
(* Mutant: the recorded result is not looked at. *)
OpenAnyStatus == cancelled

Open == cancelled /\ status \notin Final

(* A sender takes its `now' ... *)
Goto(s, step) == pc' = [pc EXCEPT ![s] = step]
Now(s) == tickAge' = [tickAge EXCEPT ![s] = 0]

(* ... the request, after cancel_auto_approved_order has committed ... *)
CancelCommits(s) ==
  /\ pc[s] = "idle" /\ ~cancelled
  /\ cancelled' = TRUE
  /\ Now(s)
  /\ Goto(s, "notify")
  /\ UNCHANGED <<status, attempted, attemptAge, todo, delivered, received, faults,
                 history>>

(* ... the worker, at the start of its tick, before it provisions orders    *)
(* and sends reminders.                                                     *)
StartTick(s) ==
  /\ pc[s] = "idle"
  /\ Now(s)
  /\ Goto(s, "tick")
  /\ UNCHANGED <<cancelled, status, attempted, attemptAge, todo, delivered, received, faults,
                 history>>

(* Mutant: the worker leaves failed notices alone. *)
ReadCancelledOnce(s) ==
  /\ pc[s] = "tick"
  /\ Goto(s, IF Open /\ status = "" THEN "notify" ELSE "idle")
  /\ UNCHANGED <<cancelled, status, attempted, attemptAge, tickAge, todo, delivered,
                 received, faults, history>>

(* The worker reads the list of cancelled orders without their final status. *)
ReadCancelled(s) ==
  /\ pc[s] = "tick"
  /\ Goto(s, IF Open THEN "notify" ELSE "idle")
  /\ UNCHANGED <<cancelled, status, attempted, attemptAge, tickAge, todo, delivered,
                 received, faults, history>>

(* Mutant: a back-off only after a recorded failure. *)
DueUnlessFailed(s) == status = "failed" => attemptAge >= Backoff + tickAge[s]

(* now >= attempted_at + 5 minutes, for the sender's own `now'. *)
DueFor(s) == attempted => attemptAge >= Backoff + tickAge[s]

(* From here on a fresh `now' finds the sender's recorded attempt due again. *)
Outlasts(s) == tickAge[s] >= Backoff

Skip(s) ==
  /\ pc[s] = "notify" /\ (~Open \/ ~DueFor(s))
  /\ Goto(s, "idle")
  /\ UNCHANGED <<cancelled, status, attempted, attemptAge, tickAge, todo, delivered,
                 received, faults, history>>

(* No active chat: final, nothing is attempted. *)
NoTarget(s) ==
  /\ pc[s] = "notify" /\ Open /\ DueFor(s)
  /\ status' = "no_target"
  /\ lateResult' = FALSE
  /\ Goto(s, "idle")
  /\ UNCHANGED <<cancelled, attempted, attemptAge, tickAge, todo, delivered, received, faults,
                 slow>>

(* attempted_at becomes the sender's `now', under the row lock. *)
Attempt(s) ==
  /\ pc[s] = "notify" /\ Open /\ DueFor(s)
  /\ Outlasts(s) => slow < MaxSlow
  /\ slow' = IF Outlasts(s) THEN slow + 1 ELSE slow
  /\ attempted' = TRUE
  /\ attemptAge' = tickAge[s]
  /\ \E active \in SUBSET Targets \ {{}} : todo' = [todo EXCEPT ![s] = active]
  /\ delivered' = [delivered EXCEPT ![s] = {}]
  /\ Goto(s, "sending")
  /\ UNCHANGED <<cancelled, status, tickAge, received, faults, lateResult>>

(* notify_customer_order_event: one message per target; failures are counted. *)
Sent(s, x) ==
  /\ pc[s] = "sending" /\ x \in todo[s]
  /\ received' = [received EXCEPT ![x] = @ + 1]
  /\ delivered' = [delivered EXCEPT ![s] = @ \cup {x}]
  /\ todo' = [todo EXCEPT ![s] = @ \ {x}]
  /\ UNCHANGED <<cancelled, status, attempted, attemptAge, pc, tickAge, faults, history>>

SendFails(s, x) ==
  /\ pc[s] = "sending" /\ x \in todo[s]
  /\ todo' = [todo EXCEPT ![s] = @ \ {x}]
  /\ UNCHANGED <<cancelled, status, attempted, attemptAge, pc, tickAge, delivered,
                 received, faults, history>>

(* Telegram delivers, but its answer is lost. *)
AnswerLost(s, x) ==
  /\ pc[s] = "sending" /\ x \in todo[s] /\ faults < MaxFaults
  /\ faults' = faults + 1
  /\ received' = [received EXCEPT ![x] = @ + 1]
  /\ todo' = [todo EXCEPT ![s] = @ \ {x}]
  /\ UNCHANGED <<cancelled, status, attempted, attemptAge, pc, tickAge, delivered,
                 history>>

(* The result is written without a lock or a check of the row. *)
RecordResult(s) ==
  /\ pc[s] = "sending" /\ todo[s] = {}
  /\ status' = IF delivered[s] # {} THEN "sent" ELSE "failed"
  /\ delivered' = [delivered EXCEPT ![s] = {}]
  /\ lateResult' = Outlasts(s)
  /\ Goto(s, "idle")
  /\ UNCHANGED <<cancelled, attempted, attemptAge, tickAge, todo, received, faults, slow>>

Crash(s) ==
  /\ pc[s] # "idle" /\ faults < MaxFaults
  /\ faults' = faults + 1
  /\ todo' = [todo EXCEPT ![s] = {}]
  /\ delivered' = [delivered EXCEPT ![s] = {}]
  /\ Goto(s, "idle")
  /\ UNCHANGED <<cancelled, status, attempted, attemptAge, tickAge, received, history>>

Length(s) == IF s \in Requests THEN RequestLength ELSE TickLength

(* Time passes; no sender lasts longer than its length, and none outlasts   *)
(* the back-off once MaxSlow attempts have.                                 *)
Ages(s) == pc[s] # "idle" /\ tickAge[s] + 1 = Backoff
Outlasted == \E s \in Senders : pc[s] = "sending" /\ Ages(s)

TimePasses ==
  /\ \A s \in Senders : pc[s] # "idle" => tickAge[s] < Length(s)
  /\ (\E s \in Senders : Ages(s)) => slow < MaxSlow
  /\ slow' = IF Outlasted THEN slow + 1 ELSE slow
  /\ tickAge' = [s \in Senders |-> IF pc[s] = "idle" THEN 0 ELSE tickAge[s] + 1]
  /\ attemptAge' = IF attempted /\ attemptAge < OldAge THEN attemptAge + 1 ELSE attemptAge
  /\ UNCHANGED <<cancelled, status, attempted, pc, todo, delivered, received, faults,
                 lateResult>>

Notify(s) ==
  \/ Skip(s) \/ NoTarget(s) \/ Attempt(s) \/ RecordResult(s) \/ Crash(s)
  \/ \E x \in Targets : Sent(s, x) \/ SendFails(s, x) \/ AnswerLost(s, x)

Next ==
  \/ \E s \in Requests : CancelCommits(s) \/ Notify(s)
  \/ \E s \in Workers : StartTick(s) \/ ReadCancelled(s) \/ Notify(s)
  \/ TimePasses

Spec == Init /\ [][Next]_vars

(* The worker loop ticks for ever, a started tick ends, time goes on, and a *)
(* send that is tried again and again succeeds in the end.                  *)
Fairness ==
  /\ SF_vars(TimePasses)
  /\ \A s \in Workers : WF_vars(StartTick(s)) /\ WF_vars(ReadCancelled(s))
  /\ \A s \in Senders :
       /\ WF_vars(Skip(s)) /\ WF_vars(RecordResult(s))
       /\ SF_vars(NoTarget(s) \/ Attempt(s))
       /\ \A x \in Targets : SF_vars(Sent(s, x))

FairSpec == Spec /\ Fairness

-----------------------------------------------------------------------------
(* Properties. *)

(* A chat receives the message once, and once more only for a crash or an   *)
(* answer that was lost: "a process crash after Telegram accepts a message  *)
(* but before its result is saved can cause a repeated message", or for an  *)
(* attempt that was still open a whole back-off after its tick's `now'.     *)
MessagesBounded == \A x \in Targets : received[x] <= 1 + faults + slow

(* A recorded success is overwritten by a slower sender's failure only when *)
(* one of the two attempts outlasted the back-off.                          *)
SuccessIsFinal ==
  [][(status \in Final /\ status' # status) =>
       \E s \in Senders :
         pc[s] = "sending" /\ pc'[s] = "idle" /\ (Outlasts(s) \/ lateResult)]_vars

(* The customer is told of the cancellation, or found to have no chat.      *)
NoticeSettles == cancelled ~> status \in Final

(* The inductive invariant.  No attempt is older than the recorded one, so  *)
(* no two senders are within the back-off; an attempt that outlasts it may  *)
(* still write to the chats it has not reached, which slow has counted.     *)
Fresh(s) == pc[s] = "sending" /\ ~Outlasts(s)
Credit(x) == {s \in Senders : pc[s] = "sending" /\ Outlasts(s) /\ x \notin delivered[s]}

NoticeInv ==
  /\ \A s \in Senders : pc[s] = "sending" =>
       cancelled /\ attempted /\ attemptAge <= tickAge[s] /\ todo[s] \cap delivered[s] = {}
  /\ \A s, u \in Senders : Fresh(s) /\ Fresh(u) => s = u
  /\ \A s \in Senders : Fresh(s) =>
       /\ status \in Final => lateResult
       /\ \A x \in Targets :
            received[x] + Cardinality(Credit(x))
              <= faults + slow + (IF x \in delivered[s] THEN 1 ELSE 0)
  /\ (\A s \in Senders : ~Fresh(s)) => \A x \in Targets :
       received[x] + Cardinality(Credit(x))
         <= faults + slow + (IF status = "sent" THEN 1 ELSE 0)
=============================================================================
