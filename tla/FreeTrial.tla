------------------------------ MODULE FreeTrial ------------------------------
(***************************************************************************)
(* Free trials of one Telegram user (create_free_trial_for_customer): the  *)
(* cooldown is checked, a lock taken in the process's cache, the cooldown  *)
(* checked again and the request written in a transaction, which locks the *)
(* customer's row if the user has one; then the panel is called and the    *)
(* result recorded, or the client deleted again.                           *)
(***************************************************************************)
EXTENDS Naturals, FiniteSets

CONSTANTS
  TrialHandlers,   \* bot handlers, each in a process of its own
  MaxTrials,       \* bound on requests that are written
  MaxTrialFaults   \* bound on deaths of a process

Trials == 1..MaxTrials

ASSUME TrialAssumption == MaxTrials \in Nat /\ MaxTrialFaults \in Nat

VARIABLES
  known,       \* the Telegram user has a Customer row
  trial,       \* FreeTrialRequest: status, within the cooldown
  onPanel,     \* requests whose client exists on the panel
  rows,        \* requests with a VPNClient row
  locks,       \* handlers whose process's cache has the lock
  handler,     \* what each handler is doing
  stranded,    \* requests whose lost answer or failed cleanup left a client
  trialFaults

trialVars == <<known, trial, onPanel, rows, locks, handler, stranded, trialFaults>>

NotServing == [pc |-> "idle", trial |-> 0]

TrialInit ==
  /\ known \in BOOLEAN
  /\ trial = [t \in Trials |-> [status |-> "none", recent |-> FALSE]]
  /\ onPanel = {} /\ rows = {} /\ locks = {} /\ stranded = {}
  /\ handler = [h \in TrialHandlers |-> NotServing]
  /\ trialFaults = 0

(* Mutant: only a delivered trial counts. *)
DeliveredCounts == {"delivered"}

(* FREE_TRIAL_COOLDOWN_STATUSES *)
CooldownStatuses == {"created", "delivered"}

(* get_next_free_trial_available_at *)
OnCooldown == \E t \in Trials : trial[t].status \in CooldownStatuses /\ trial[t].recent

Step(h, pc) == handler' = [handler EXCEPT ![h].pc = pc]

(* The finally clause. *)
EndTrial(h) == handler' = [handler EXCEPT ![h] = NotServing] /\ locks' = locks \ {h}

AskTrial(h) ==
  /\ handler[h].pc = "idle" /\ ~OnCooldown
  /\ Step(h, "lock")
  /\ UNCHANGED <<known, trial, onPanel, rows, locks, stranded, trialFaults>>

(* cache.add, and the lock's two minutes. *)
LockTrial(h) ==
  /\ handler[h].pc = "lock"
  /\ IF h \in locks THEN handler' = [handler EXCEPT ![h] = NotServing] /\ UNCHANGED locks
                    ELSE Step(h, "recheck") /\ locks' = locks \cup {h}
  /\ UNCHANGED <<known, trial, onPanel, rows, stranded, trialFaults>>

TrialLockExpires(h) ==
  /\ h \in locks /\ locks' = locks \ {h}
  /\ UNCHANGED <<known, trial, onPanel, rows, handler, stranded, trialFaults>>

(* The transaction: a customer's row is locked until it has committed. *)
RecheckTrial(h) ==
  /\ handler[h].pc = "recheck"
  /\ known => \A g \in TrialHandlers : handler[g].pc # "write"
  /\ IF OnCooldown THEN EndTrial(h) ELSE Step(h, "write") /\ UNCHANGED locks
  /\ UNCHANGED <<known, trial, onPanel, rows, stranded, trialFaults>>

WriteTrial(h, t) ==
  /\ handler[h].pc = "write"
  /\ trial[t].status = "none" /\ \A u \in 1..(t - 1) : trial[u].status # "none"
  /\ trial' = [trial EXCEPT ![t] = [status |-> "created", recent |-> TRUE]]
  /\ handler' = [handler EXCEPT ![h] = [pc |-> "call", trial |-> t]]
  /\ UNCHANGED <<known, onPanel, rows, locks, stranded, trialFaults>>

FailTrial(h) ==
  trial' = [trial EXCEPT ![handler[h].trial].status = "failed"] /\ EndTrial(h)

(* create_trial_client_details: without an answer the request has failed,  *)
(* whatever the panel did.                                                 *)
CreateTrialClient(h, created, answered) ==
  /\ handler[h].pc = "call" /\ (answered => created)
  /\ onPanel' = IF created THEN onPanel \cup {handler[h].trial} ELSE onPanel
  /\ IF answered
       THEN Step(h, "record") /\ UNCHANGED <<trial, locks>>
       ELSE FailTrial(h)
  /\ stranded' = IF created /\ ~answered THEN stranded \cup {handler[h].trial} ELSE stranded
  /\ UNCHANGED <<known, rows, trialFaults>>

RecordTrial(h) ==
  /\ handler[h].pc = "record"
  /\ trial' = [trial EXCEPT ![handler[h].trial].status = "delivered"]
  /\ rows' = rows \cup {handler[h].trial}
  /\ EndTrial(h)
  /\ UNCHANGED <<known, onPanel, stranded, trialFaults>>

(* Mutant: all trial clients of the user are deleted. *)
CleanedAll(h, deleted) == IF deleted THEN {} ELSE onPanel

(* cleanup_panel_trial_client *)
Cleaned(h, deleted) == IF deleted THEN onPanel \ {handler[h].trial} ELSE onPanel

(* The client's row cannot be written: the client is deleted again. *)
RecordTrialFails(h, deleted) ==
  /\ handler[h].pc = "record"
  /\ onPanel' = Cleaned(h, deleted)
  /\ stranded' = IF deleted THEN stranded ELSE stranded \cup {handler[h].trial}
  /\ FailTrial(h)
  /\ UNCHANGED <<known, rows, trialFaults>>

(* The process dies, and its cache with it. *)
TrialDies(h) ==
  /\ handler[h].pc # "idle" /\ trialFaults < MaxTrialFaults
  /\ trialFaults' = trialFaults + 1
  /\ EndTrial(h)
  /\ UNCHANGED <<known, trial, onPanel, rows, stranded>>

CooldownEnds(t) ==
  /\ trial[t].recent /\ \A h \in TrialHandlers : handler[h].trial # t
  /\ trial' = [trial EXCEPT ![t].recent = FALSE]
  /\ UNCHANGED <<known, onPanel, rows, locks, handler, stranded, trialFaults>>

TrialNext ==
  \/ \E h \in TrialHandlers :
       \/ AskTrial(h) \/ LockTrial(h) \/ TrialLockExpires(h) \/ RecheckTrial(h)
       \/ RecordTrial(h) \/ TrialDies(h)
       \/ \E t \in Trials : WriteTrial(h, t)
       \/ \E created, answered \in BOOLEAN : CreateTrialClient(h, created, answered)
       \/ \E deleted \in BOOLEAN : RecordTrialFails(h, deleted)
  \/ \E t \in Trials : CooldownEnds(t)

TrialSpec == TrialInit /\ [][TrialNext]_trialVars

TrialTypeOK ==
  /\ known \in BOOLEAN
  /\ trial \in [Trials -> [status: {"none", "created", "delivered", "failed"}, recent: BOOLEAN]]
  /\ onPanel \subseteq Trials /\ rows \subseteq onPanel /\ stranded \subseteq Trials
  /\ locks \subseteq TrialHandlers
  /\ handler \in [TrialHandlers -> [pc: {"idle", "lock", "recheck", "write", "call", "record"},
                                    trial: 0..MaxTrials]]
  /\ trialFaults \in 0..MaxTrialFaults

(* A customer gets one trial in a cooldown: requests at the same time in   *)
(* several processes, failed attempts that are repeated, and processes     *)
(* that die put no second client on the panel, but for one that a lost     *)
(* answer or a failed cleanup has left there.                              *)
OneTrialPerCooldown ==
  known => Cardinality({t \in onPanel \ stranded : trial[t].recent}) <= 1

-----------------------------------------------------------------------------
(* The inductive invariant. *)

Busy(h) == handler[h].pc \in {"call", "record"}
Counted(t) == trial[t].status \in CooldownStatuses /\ trial[t].recent

(* A request that is being served is its handler's alone, and its client   *)
(* is on the panel once the panel has answered.                            *)
HandlersOwn ==
  \A h \in TrialHandlers :
    IF Busy(h)
      THEN /\ handler[h].trial \in Trials
           /\ trial[handler[h].trial] = [status |-> "created", recent |-> TRUE]
           /\ handler[h].trial \in onPanel <=> handler[h].pc = "record"
           /\ \A g \in TrialHandlers : handler[g].trial = handler[h].trial => g = h
      ELSE handler[h].trial = 0

(* What a request's status says of its client. *)
StatusFits ==
  /\ \A t \in stranded : trial[t].status = "failed"
  /\ \A t \in rows : trial[t].status = "delivered"
  /\ \A t \in onPanel \ stranded : trial[t].status \in CooldownStatuses

(* With a customer's row locked from the second check to the commit, the   *)
(* request that is about to be written will be the only one that counts.   *)
CooldownOnce ==
  known =>
    /\ \A t, u \in Trials : Counted(t) /\ Counted(u) => t = u
    /\ \A h \in TrialHandlers : handler[h].pc = "write" =>
         /\ \A t \in Trials : ~Counted(t)
         /\ \A g \in TrialHandlers : handler[g].pc = "write" => g = h

TrialInv == TrialTypeOK /\ HandlersOwn /\ StatusFits /\ CooldownOnce
=============================================================================
