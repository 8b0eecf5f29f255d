------------------------------ MODULE Activity ------------------------------
(***************************************************************************)
(* Who uses what was bought (customer_activity/services.py): collectors    *)
(* take a lease with a token, read the panel's traffic counter of a        *)
(* purchase, and record the sample if the lease is still theirs.  The      *)
(* verdict "inactive" starts messages to the customer (module Outreach).   *)
(***************************************************************************)
EXTENDS Integers

CONSTANTS
  Collectors,
  Lease, MaxGap, Window,   \* LEASE, MAX_GAP, WINDOW
  MaxTime, MaxUsed, MaxResets   \* bounds

ASSUME ActivityAssumption ==
  /\ Lease \in Nat \ {0} /\ MaxGap \in Nat \ {0} /\ Window \in Nat \ {0}
  /\ MaxTime \in Nat /\ MaxUsed \in Nat /\ MaxResets \in Nat

VARIABLES
  time,
  traffic,     \* the panel's counter, quota and expiry, the last real use, how often reset
  lease,       \* ActivityCollector: token and lease_until
  collector,   \* what each collector is doing
  activity,    \* PurchaseActivity
  masked       \* a reset counter had reached its old value before the next sample

activityVars == <<time, traffic, lease, collector, activity, masked>>

Times == 0..MaxTime
NoTime == -1

Sample == [used: 0..MaxUsed, plan: {1, 2}, at: Times \cup {NoTime}, use: Times \cup {NoTime},
           epoch: 0..MaxResets, coverage: {"full", "partial", "missing"}]
NoSample == [used |-> 0, plan |-> 1, at |-> NoTime, use |-> NoTime, epoch |-> 0,
             coverage |-> "missing"]
Stopped == [pc |-> "idle", sample |-> NoSample]

ActivityInit ==
  /\ time = 0
  /\ traffic = [used |-> 0, plan |-> 1, use |-> NoTime, epoch |-> 0]
  /\ lease = [token |-> {}, until |-> NoTime]
  /\ collector = [c \in Collectors |-> Stopped]
  /\ activity = [sample |-> NoSample,      \* counters, empty without coverage
                 observed |-> NoTime, quality |-> "none", since |-> NoTime,
                 start |-> NoTime, at |-> NoTime, cycle |-> 0]
  /\ masked = FALSE

-----------------------------------------------------------------------------
(* The world. *)

TimePasses ==
  /\ time < MaxTime /\ time' = time + 1
  /\ UNCHANGED <<traffic, lease, collector, activity, masked>>

(* The customer uses the service. *)
Use ==
  /\ traffic.used < MaxUsed
  /\ traffic' = [traffic EXCEPT !.used = @ + 1, !.use = time]
  /\ UNCHANGED <<time, lease, collector, activity, masked>>

(* Staff or a panel reset the counter; a renewal also changes the plan. *)
ResetCounter(plan) ==
  /\ traffic.used > 0 /\ traffic.epoch < MaxResets
  /\ traffic' = [traffic EXCEPT !.used = 0, !.plan = plan, !.epoch = @ + 1]
  /\ UNCHANGED <<time, lease, collector, activity, masked>>

-----------------------------------------------------------------------------
(* The lease. *)

(* _claim *)
ClaimLease(c) ==
  /\ collector[c].pc = "idle" /\ lease.until <= time
  /\ lease' = [token |-> {c}, until |-> time + Lease]
  /\ collector' = [collector EXCEPT ![c] = [pc |-> "read", sample |-> NoSample]]
  /\ UNCHANGED <<time, traffic, activity, masked>>

Holds(c) == lease.token = {c} /\ lease.until > time

AfterHeartbeat == [read |-> "panel", resolve |-> "record", record |-> "record"]

(* _heartbeat: before the panel is read, after all are, and for each other *)
(* purchase that is recorded first; a collector without the lease stops.   *)
Heartbeat(c) ==
  /\ collector[c].pc \in DOMAIN AfterHeartbeat
  /\ \/ /\ Holds(c)
        /\ lease' = [lease EXCEPT !.until = time + Lease]
        /\ collector' = [collector EXCEPT ![c].pc = AfterHeartbeat[@]]
     \/ /\ ~Holds(c)
        /\ collector' = [collector EXCEPT ![c] = Stopped] /\ UNCHANGED lease
  /\ UNCHANGED <<time, traffic, activity, masked>>

(* read_panel: the counter with the time of the reading; of all sources of *)
(* the purchase, of some, or of none.                                      *)
ReadPanel(c, coverage) ==
  /\ collector[c].pc = "panel"
  /\ collector' = [collector EXCEPT ![c] = [pc |-> "resolve", sample |->
       [used |-> traffic.used, plan |-> traffic.plan, at |-> time, use |-> traffic.use,
        epoch |-> traffic.epoch, coverage |-> coverage]]]
  /\ UNCHANGED <<time, traffic, lease, activity, masked>>

-----------------------------------------------------------------------------
(* record_purchase. *)

(* Mutant: a smaller counter is taken for no traffic. *)
NoResets(old, new) == FALSE

CounterReset(old, new) == new.used < old.used

PartialNow == activity.sample.coverage = "partial"

Quality(new) ==
  LET old == activity.sample IN
  CASE time - new.at > MaxGap                                       -> "stale"
    [] old.at = NoTime \/ (new.coverage = "full" /\ PartialNow)     -> "baseline"
    [] old.at # NoTime /\ old.coverage # new.coverage /\ new.coverage = "partial" -> "mapping_changed"
    [] time - activity.observed > MaxGap \/ new.at - old.at \notin 1..MaxGap      -> "gap"
    [] new.plan # old.plan                                          -> "cycle_changed"
    [] CounterReset(old, new)                                       -> "counter_reset"
    [] OTHER                                                        -> "ok"

Recorded(new) ==
  LET quality == IF new.coverage = "missing" THEN "missing_counters" ELSE Quality(new)
      usable == quality \notin {"missing_counters", "stale"}
      ok == quality = "ok"
      used == ok /\ new.used > activity.sample.used IN
  [sample   |-> IF usable THEN new ELSE NoSample,
   observed |-> time,
   quality  |-> quality,
   since    |-> IF ~usable \/ new.coverage = "partial" THEN NoTime
                ELSE IF ok THEN activity.since ELSE new.at,
   start    |-> IF used THEN activity.sample.at ELSE IF ok THEN activity.start ELSE NoTime,
   at       |-> IF used THEN new.at ELSE IF ok THEN activity.at ELSE NoTime,
   cycle    |-> IF quality \in {"counter_reset", "mapping_changed", "cycle_changed"}
                  THEN 1 - activity.cycle ELSE activity.cycle]

(* Mutant: the lease is not looked at again. *)
AlwaysHolds(c) == TRUE

(* The lease's row is locked while the sample is recorded. *)
StillHolds(c) == Holds(c)

RecordSample(c) ==
  LET new == collector[c].sample
      newer == activity.observed = NoTime \/ time > activity.observed IN
  /\ collector[c].pc = "record"
  /\ IF StillHolds(c)
       THEN /\ collector' = [collector EXCEPT ![c] = [Stopped EXCEPT !.pc = "finish"]]
            /\ activity' = IF newer THEN Recorded(new) ELSE activity
            /\ masked' = (masked \/ (newer /\ new.epoch # activity.sample.epoch
                                     /\ new.used >= activity.sample.used))
       ELSE /\ collector' = [collector EXCEPT ![c] = Stopped] /\ UNCHANGED <<activity, masked>>
  /\ UNCHANGED <<time, traffic, lease>>

(* The finally clause gives back a lease that is still its own. *)
Finish(c) ==
  /\ collector[c].pc = "finish"
  /\ lease' = IF lease.token = {c} THEN [lease EXCEPT !.until = NoTime] ELSE lease
  /\ collector' = [collector EXCEPT ![c] = Stopped]
  /\ UNCHANGED <<time, traffic, activity, masked>>

CollectorDies(c) ==
  /\ collector[c].pc # "idle"
  /\ collector' = [collector EXCEPT ![c] = Stopped]
  /\ UNCHANGED <<time, traffic, lease, activity, masked>>

ActivityNext ==
  \/ TimePasses \/ Use \/ \E plan \in {1, 2} : ResetCounter(plan)
  \/ \E c \in Collectors :
       \/ ClaimLease(c) \/ Heartbeat(c) \/ RecordSample(c) \/ Finish(c) \/ CollectorDies(c)
       \/ \E coverage \in {"full", "partial", "missing"} : ReadPanel(c, coverage)

(* activity_status *)
ActivityStatus ==
  LET cutoff == time - Window IN
  CASE activity.observed = NoTime \/ time - activity.observed > MaxGap -> "unknown"
    [] activity.quality \in {"stale", "missing_counters"}              -> "unknown"
    [] activity.start # NoTime /\ activity.start >= cutoff             -> "active"
    [] activity.sample.coverage = "partial"                            -> "unknown"
    [] activity.since # NoTime /\ activity.since <= cutoff /\ activity.at <= cutoff -> "inactive"
    [] OTHER                                                           -> "collecting"

ActivityTypeOK ==
  /\ time \in Times /\ masked \in BOOLEAN
  /\ traffic \in [used: 0..MaxUsed, plan: {1, 2}, use: Times \cup {NoTime}, epoch: 0..MaxResets]
  /\ lease \in [token: SUBSET Collectors, until: NoTime..(MaxTime + Lease)]
  /\ collector \in [Collectors -> [pc: {"idle", "read", "panel", "resolve", "record", "finish"},
                                  sample: Sample]]
  /\ activity \in [sample: Sample, observed: Times \cup {NoTime},
                   quality: {"none", "ok", "baseline", "gap", "counter_reset", "mapping_changed",
                             "cycle_changed", "stale", "missing_counters"},
                   since: Times \cup {NoTime}, start: Times \cup {NoTime},
                   at: Times \cup {NoTime}, cycle: {0, 1}]

-----------------------------------------------------------------------------
(* "Inactive" is never said of a customer whose use in the window was      *)
(* there to be read when the last sample was taken, through lost leases,   *)
(* gaps, partial readings, renewals and resets; only a counter that was    *)
(* reset and had grown back before the next sample hides it.               *)
InactiveIsTrue ==
  ActivityStatus = "inactive" /\ ~masked =>
    activity.sample.use = NoTime \/ activity.sample.use <= time - Window

(* A collector that lost its lease writes nothing: samples are recorded in *)
(* the order in which they were read.                                      *)
SamplesInOrder ==
  [][activity'.sample.at # NoTime /\ activity.sample.at # NoTime
       => activity'.sample.at >= activity.sample.at]_activityVars

-----------------------------------------------------------------------------
(* The inductive invariant. *)

(* The samples there are: the recorded one and the collectors'. *)
Samples == {s \in {activity.sample} \cup {collector[c].sample : c \in Collectors} : s.at # NoTime}

(* A sample knows of no later use; a use has raised the counter of its     *)
(* epoch.                                                                  *)
SamplesTrue ==
  /\ traffic.use <= time
  /\ \A s \in Samples :
       /\ s.use <= s.at /\ s.at <= time /\ s.epoch <= traffic.epoch
       /\ s.epoch = traffic.epoch =>
            s.used <= traffic.used /\ (s.used = traffic.used => s.use = traffic.use)
       /\ \A r \in Samples : r.epoch = s.epoch /\ r.used = s.used => r.use = s.use

(* Before the recorded sample nothing was used but what is on record, from *)
(* the time on for which the record is complete.                           *)
UseOnRecord ==
  masked \/ activity.since = NoTime \/ activity.sample.use <= activity.since
         \/ activity.sample.use <= activity.at

(* Samples without coverage are empty, and a complete record has a full    *)
(* one.                                                                    *)
CoverageFits ==
  /\ \A c \in Collectors : collector[c].sample.at = NoTime => collector[c].sample = NoSample
  /\ activity.sample.at = NoTime => activity.sample = NoSample /\ activity.since = NoTime
  /\ activity.sample.coverage = "partial" => activity.since = NoTime
  /\ activity.sample.at # NoTime => activity.sample.coverage # "missing"

(* The holder of the lease has read no earlier than anyone has recorded. *)
HolderIsLatest ==
  \A c \in Collectors : lease.token = {c} /\ collector[c].sample.at # NoTime =>
    activity.sample.at <= collector[c].sample.at

ActivityInv ==
  ActivityTypeOK /\ SamplesTrue /\ UseOnRecord /\ CoverageFits /\ HolderIsLatest
=============================================================================
