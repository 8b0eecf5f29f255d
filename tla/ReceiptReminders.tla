-------------------------- MODULE ReceiptReminders --------------------------
(***************************************************************************)
(* Reminders to the admins of a receipt that waits for review              *)
(* (order_automation.send_receipt_reminders): the store's row is locked    *)
(* from the choice of what is due to the record of what was sent.          *)
(***************************************************************************)
EXTENDS Naturals, FiniteSets

CONSTANTS
  Stages,       \* REMINDER_MINUTES, as a set
  Hour,
  MaxMinutes, MaxLost   \* bounds

ASSUME ReceiptAssumption ==
  Stages \subseteq Nat /\ IsFiniteSet(Stages) /\ Hour \in Nat \ {0}
    /\ MaxMinutes \in Nat /\ MaxLost \in Nat

VARIABLES
  elapsed,      \* minutes since payment_submitted_at
  stage,        \* OrderAutomation.reminder_stage
  remindedAt,   \* OrderAutomation.last_reminded_at: {} or the time
  sentAt,       \* times of the reminders that were recorded
  lost          \* reminders whose transaction was rolled back

receiptVars == <<elapsed, stage, remindedAt, sentAt, lost>>

ReceiptInit ==
  elapsed = 0 /\ stage = 0 /\ remindedAt = {} /\ sentAt = {} /\ lost = 0

Passed(t) == Cardinality({m \in Stages : m <= t})

(* reminder_due: the minutes of the next stage are over, or an hour since  *)
(* the last reminder.                                                      *)
ReminderDue ==
  IF stage < Cardinality(Stages)
    THEN Passed(elapsed) > stage
    ELSE \A t \in remindedAt : elapsed >= t + Hour

(* Mutant: one stage is ticked off for each reminder. *)
NextStageOnly == stage + 1

(* A late reminder stands for all the stages it is late for. *)
NextStage == IF Passed(elapsed) > stage THEN Passed(elapsed) ELSE stage

MinutePasses ==
  /\ elapsed < MaxMinutes /\ elapsed' = elapsed + 1
  /\ UNCHANGED <<stage, remindedAt, sentAt, lost>>

(* A worker sends; without a bot that was reached nothing is recorded. *)
Remind ==
  /\ ReminderDue
  /\ stage' = NextStage
  /\ remindedAt' = {elapsed}
  /\ sentAt' = sentAt \cup {elapsed}
  /\ UNCHANGED <<elapsed, lost>>

(* The worker dies between the messages and the commit, or every answer is *)
(* lost: what has arrived is not on record and comes again.                *)
RemindLost ==
  /\ ReminderDue /\ lost < MaxLost
  /\ lost' = lost + 1
  /\ UNCHANGED <<elapsed, stage, remindedAt, sentAt>>

ReceiptNext == MinutePasses \/ Remind \/ RemindLost

ReceiptTypeOK ==
  /\ elapsed \in 0..MaxMinutes /\ stage \in 0..Cardinality(Stages) /\ lost \in 0..MaxLost
  /\ remindedAt \subseteq sentAt /\ sentAt \subseteq 0..MaxMinutes

(* However long the workers were away, the admins get no burst: between    *)
(* two reminders of one receipt that are on record a stage was reached or  *)
(* an hour passed.                                                         *)
NoReminderBurst ==
  \A a, b \in sentAt :
    a < b => (\E m \in Stages : a < m /\ m <= b) \/ b >= a + Hour

-----------------------------------------------------------------------------
(* The inductive invariant. *)

(* The last reminder is the one on record, and it has ticked off the       *)
(* stages of its time.                                                     *)
LastReminder ==
  /\ \A t \in sentAt : t <= elapsed
  /\ sentAt # {} => remindedAt # {}
  /\ \A t \in remindedAt : Passed(t) <= stage /\ \A s \in sentAt : s <= t

ReceiptInv == ReceiptTypeOK /\ LastReminder /\ NoReminderBurst
=============================================================================
