------------------------------ MODULE Reminders ------------------------------
(***************************************************************************)
(* The reminders of one client (renewal_reminder_services.py): runs check  *)
(* the log of a trigger, the cooldown and the daily limit, write an intent *)
(* (SKIPPED), send, and record the result.  Nothing is locked.             *)
(***************************************************************************)
EXTENDS Naturals, FiniteSets

CONSTANTS
  Triggers,      \* (reminder_type, trigger_key) of the client
  LowTraffic,    \* those of type LOW_TRAFFIC, which repeat every day
  Runs,          \* runs of run_renewal_reminders
  MaxPerDay,     \* reminder_max_per_client_per_day
  MaxDays, MaxAttempts, MaxOverlaps, MaxReminderFaults   \* bounds

ASSUME RemindersAssumption ==
  /\ LowTraffic \subseteq Triggers
  /\ MaxPerDay \in Nat \ {0} /\ MaxDays \in Nat \ {0} /\ MaxReminderFaults \in Nat
  /\ MaxAttempts \in Nat /\ MaxOverlaps \in Nat /\ IsFiniteSet(Runs)

VARIABLES
  today,         \* the date
  log,           \* VPNClientReminderLog: status by trigger and date
  cooling,       \* triggers whose last attempt is within reminder_cooldown_hours
  run,           \* what each run is doing
  messages,      \* messages of each trigger that have arrived
  missed,        \* of these, those that are not recorded as SENT
  overlaps,      \* runs that began while another one was at work on the trigger
  attempts, reminderFaults

reminderVars == <<today, log, cooling, run, messages, missed, overlaps, attempts, reminderFaults>>

Days == 1..MaxDays
NotRunning == [pc |-> "idle", trigger |-> {}, day |-> 0, result |-> "none"]

RemindersInit ==
  /\ today = 1
  /\ log = [t \in Triggers |-> [d \in Days |-> "none"]]
  /\ cooling = {}
  /\ run = [r \in Runs |-> NotRunning]
  /\ messages = [t \in Triggers |-> 0] /\ missed = [t \in Triggers |-> 0]
  /\ overlaps = [t \in Triggers |-> 0]
  /\ attempts = 0 /\ reminderFaults = 0

(* Midnight; and the cooldown of a trigger ends. *)
NextDay ==
  /\ today < MaxDays /\ today' = today + 1
  /\ UNCHANGED <<log, cooling, run, messages, missed, overlaps, attempts, reminderFaults>>

CooldownEnds(t) ==
  /\ t \in cooling /\ cooling' = cooling \ {t}
  /\ UNCHANGED <<today, log, run, messages, missed, overlaps, attempts, reminderFaults>>

(* Mutant: only the same date counts. *)
SentToday(t, day) == log[t][day] = "sent"

(* _sent_duplicate_exists: an expiry trigger is sent once, ever. *)
SentBefore(t, day) ==
  IF t \in LowTraffic THEN log[t][day] = "sent" ELSE \E d \in Days : log[t][d] = "sent"

(* _cooldown_active: an attempt at any low-traffic trigger cools them all. *)
CoolingDown(t) == IF t \in LowTraffic THEN LowTraffic \cap cooling # {} ELSE t \in cooling

(* _daily_sent_count *)
DailySentCount(day) == Cardinality({u \in Triggers : log[u][day] = "sent"})

OtherAtWork(r, t) == \E q \in Runs \ {r} : t \in run[q].trigger

(* The checks of send_reminder_to_customer: three queries, none of them    *)
(* locks.  A run keeps the date on which it began, which may be yesterday  *)
(* by now.                                                                 *)
CheckDuplicate(r, t, day) ==
  /\ run[r].pc = "idle" /\ day \in Days \cap {today - 1, today} /\ ~SentBefore(t, day)
  /\ run' = [run EXCEPT ![r] = [pc |-> "cooldown", trigger |-> {t}, day |-> day, result |-> "none"]]
  /\ IF OtherAtWork(r, t)
       THEN overlaps[t] < MaxOverlaps /\ overlaps' = [overlaps EXCEPT ![t] = @ + 1]
       ELSE UNCHANGED overlaps
  /\ UNCHANGED <<today, log, cooling, messages, missed, attempts, reminderFaults>>

CheckCooldown(r, t) ==
  /\ run[r].pc = "cooldown" /\ t \in run[r].trigger
  /\ run' = [run EXCEPT ![r] = IF CoolingDown(t) THEN NotRunning ELSE [run[r] EXCEPT !.pc = "limit"]]
  /\ UNCHANGED <<today, log, cooling, messages, missed, overlaps, attempts, reminderFaults>>

(* The daily limit, and whether the customer has a chat. *)
CheckLimit(r, t, target) ==
  LET sends == target /\ DailySentCount(run[r].day) < MaxPerDay IN
  /\ run[r].pc = "limit" /\ t \in run[r].trigger
  /\ run' = [run EXCEPT ![r].pc = IF sends THEN "intend" ELSE "skip"]
  /\ IF sends THEN attempts < MaxAttempts /\ attempts' = attempts + 1 ELSE UNCHANGED attempts
  /\ UNCHANGED <<today, log, cooling, messages, missed, overlaps, reminderFaults>>

(* _record_reminder_log; an attempt starts the cooldown. *)
Write(r, t, status) ==
  /\ log' = [log EXCEPT ![t][run[r].day] = status]
  /\ cooling' = IF status = "sent" /\ t \notin LowTraffic THEN cooling \ {t} ELSE cooling \cup {t}

(* _skip_result: whatever the row has by now is overwritten. *)
SkipReminder(r, t) ==
  /\ run[r].pc = "skip" /\ t \in run[r].trigger
  /\ Write(r, t, "skipped")
  /\ run' = [run EXCEPT ![r] = NotRunning]
  /\ UNCHANGED <<today, messages, missed, overlaps, attempts, reminderFaults>>

IntendReminder(r, t) ==
  /\ run[r].pc = "intend" /\ t \in run[r].trigger
  /\ Write(r, t, "skipped")
  /\ run' = [run EXCEPT ![r].pc = "send"]
  /\ UNCHANGED <<today, messages, missed, overlaps, attempts, reminderFaults>>

(* The message arrives and is acknowledged, fails, or arrives with its     *)
(* acknowledgement lost.                                                   *)
SendReminder(r, t, arrived, result) ==
  /\ run[r].pc = "send" /\ t \in run[r].trigger
  /\ result = "sent" => arrived
  /\ IF arrived /\ result = "failed"
       THEN /\ reminderFaults < MaxReminderFaults /\ reminderFaults' = reminderFaults + 1
            /\ missed' = [missed EXCEPT ![t] = @ + 1]
       ELSE UNCHANGED <<reminderFaults, missed>>
  /\ messages' = [messages EXCEPT ![t] = @ + IF arrived THEN 1 ELSE 0]
  /\ run' = [run EXCEPT ![r].pc = "record", ![r].result = result]
  /\ UNCHANGED <<today, log, cooling, overlaps, attempts>>

RecordReminder(r, t) ==
  /\ run[r].pc = "record" /\ t \in run[r].trigger
  /\ Write(r, t, run[r].result)
  /\ run' = [run EXCEPT ![r] = NotRunning]
  /\ UNCHANGED <<today, messages, missed, overlaps, attempts, reminderFaults>>

RunDies(r) ==
  /\ run[r].pc # "idle" /\ reminderFaults < MaxReminderFaults
  /\ reminderFaults' = reminderFaults + 1
  /\ missed' = [t \in Triggers |-> missed[t] +
       IF t \in run[r].trigger /\ run[r].result = "sent" THEN 1 ELSE 0]
  /\ run' = [run EXCEPT ![r] = NotRunning]
  /\ UNCHANGED <<today, log, cooling, messages, overlaps, attempts>>

RemindersNext ==
  \/ NextDay
  \/ \E t \in Triggers : CooldownEnds(t)
  \/ \E r \in Runs : RunDies(r) \/ \E t \in Triggers :
       \/ \E day \in Days : CheckDuplicate(r, t, day)
       \/ \E target \in BOOLEAN : CheckLimit(r, t, target)
       \/ CheckCooldown(r, t) \/ SkipReminder(r, t)
       \/ IntendReminder(r, t) \/ RecordReminder(r, t)
       \/ \E arrived \in BOOLEAN, result \in {"sent", "failed"} :
            SendReminder(r, t, arrived, result)

RemindersTypeOK ==
  /\ today \in Days /\ cooling \subseteq Triggers
  /\ log \in [Triggers -> [Days -> {"none", "skipped", "failed", "sent"}]]
  /\ run \in [Runs -> [pc: {"idle", "cooldown", "limit", "skip", "intend", "send", "record"},
                       trigger: SUBSET Triggers, day: Days \cup {0},
                       result: {"none", "sent", "failed"}]]
  /\ messages \in [Triggers -> Nat] /\ missed \in [Triggers -> Nat]
  /\ overlaps \in [Triggers -> 0..MaxOverlaps]
  /\ attempts \in 0..MaxAttempts /\ reminderFaults \in 0..MaxReminderFaults

-----------------------------------------------------------------------------
Once == Triggers \ LowTraffic

(* An expiry reminder arrives once: a run after a failure, a crash, a      *)
(* cooldown or midnight sends it again only for a message that was not     *)
(* recorded.  A run that passed its first check while another one was at   *)
(* work on the trigger costs at most one message more, whether it sends    *)
(* after the other has, or writes SKIPPED or FAILED over the other's SENT. *)
RemindedOnce == \A t \in Once : messages[t] <= 1 + missed[t] + overlaps[t]

-----------------------------------------------------------------------------
(* The inductive invariant. *)

(* What a run at work knows. *)
RunsFit ==
  \A r \in Runs :
    /\ run[r].pc # "idle" => run[r].day \in Days
    /\ run[r].pc = "idle" => run[r].trigger = {}
    /\ run[r].result = "sent" => run[r].pc = "record"
    /\ \A t, u \in run[r].trigger : t = u

LoggedSent(t) == \E d \in Days : log[t][d] = "sent"

(* The runs that may still send, or end without a message that is logged. *)
Undecided(t) == {r \in Runs : t \in run[r].trigger /\ run[r].result # "sent"}

(* Every such run has the room for a message; there is room for one more   *)
(* when nothing is logged as sent and nobody is at work.                   *)
ArrivalsAccounted ==
  \A t \in Once :
    /\ messages[t] + Cardinality(Undecided(t)) <= 1 + missed[t] + overlaps[t]
    /\ LoggedSent(t) \/ (\E r \in Runs : t \in run[r].trigger)
         \/ messages[t] <= missed[t] + overlaps[t]

RemindersInv == RemindersTypeOK /\ RunsFit /\ ArrivalsAccounted
=============================================================================
