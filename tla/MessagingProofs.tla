--------------------------- MODULE MessagingProofs ---------------------------
(***************************************************************************)
(* What the senders of messages promise, for any number of handlers,       *)
(* recipients, events, reminders and faults: each of the six modules by an *)
(* inductive invariant of its own, and their composition from these.       *)
(***************************************************************************)
EXTENDS Messaging, FiniteSetTheorems, TLAPS

-----------------------------------------------------------------------------
(* Notifications to the admins. *)

NotifierRow == [pc: {"idle", "send", "release", "release_receipt", "done"},
                at: 0..MaxClaims, field: Fields, covers: SUBSET Fields, sent: BOOLEAN]

(* Nothing is claimed at first. *)
LEMMA NotificationsStart == NotificationsInit => NotificationsInv
<1> SUFFICES ASSUME NotificationsInit PROVE NotificationsInv
  OBVIOUS
<1> USE NotificationsAssumption
<1>1. Quiet \in NotifierRow /\ Quiet.pc = "idle"
  BY DEF Quiet, NotifierRow, Fields
<1>2. NotificationsTypeOK
  BY <1>1 DEF NotificationsInit, NotificationsTypeOK, NotifierRow
<1>3. ClaimsDistinct /\ ClaimsStand /\ ToldStays
  BY <1>1 DEF NotificationsInit, ClaimsDistinct, ClaimsStand, ToldStays
<1>4. QED
  BY <1>2, <1>3 DEF NotificationsInv

(* A claim is made of free fields with a time of its own, is taken back by *)
(* its time, and stands once its message was sent.                         *)
LEMMA NotificationsKeep ==
  NotificationsInv /\ [NotificationsNext]_notificationVars => NotificationsInv'
<1> SUFFICES ASSUME NotificationsInv, [NotificationsNext]_notificationVars
             PROVE  NotificationsInv'
  OBVIOUS
<1> USE NotificationsAssumption
<1>1. /\ notifiedAt \in [Fields -> 0..MaxClaims] /\ clock \in 0..MaxClaims
      /\ evidence \in BOOLEAN /\ told \in [Fields -> Nat] /\ unacknowledged \in [Fields -> Nat]
      /\ notifier \in [Notifiers -> NotifierRow]
      /\ ClaimsDistinct /\ ClaimsStand /\ ToldStays
  BY DEF NotificationsInv, NotificationsTypeOK, NotifierRow
<1> DEFINE Typed == /\ notifiedAt' \in [Fields -> 0..MaxClaims] /\ clock' \in 0..MaxClaims
                    /\ evidence' \in BOOLEAN /\ told' \in [Fields -> Nat]
                    /\ unacknowledged' \in [Fields -> Nat]
                    /\ notifier' \in [Notifiers -> NotifierRow]
<1>2. CASE EvidenceArrives \/ UNCHANGED notificationVars
  <2>1. UNCHANGED <<notifiedAt, notifier, told, unacknowledged, clock>> /\ evidence' \in BOOLEAN
    BY <1>1, <1>2 DEF EvidenceArrives, notificationVars
  <2>2. ClaimsDistinct' /\ ClaimsStand' /\ ToldStays'
    BY <1>1, <2>1 DEF ClaimsDistinct, ClaimsStand, ToldStays
  <2>3. QED
    BY <1>1, <2>1, <2>2 DEF NotificationsInv, NotificationsTypeOK, NotifierRow
<1>3. ASSUME NEW h \in Notifiers, NEW field \in Fields, NEW review \in BOOLEAN,
             Claim(h, field, review)
      PROVE  Typed /\ ClaimsDistinct' /\ ClaimsStand' /\ ToldStays'
  <2>1. PICK covers \in SUBSET Fields :
          /\ \A f \in covers : notifiedAt[f] = 0
          /\ notifiedAt' = [f \in Fields |-> IF f \in covers THEN clock + 1 ELSE notifiedAt[f]]
          /\ notifier' = [notifier EXCEPT ![h] =
               [pc |-> "send", at |-> clock + 1, field |-> field, covers |-> covers, sent |-> FALSE]]
    <3> DEFINE covers == IF field = "order" /\ evidence /\ notifiedAt["receipt"] = 0
                           THEN Fields ELSE {field}
    <3>1. covers \in SUBSET Fields /\ \A f \in covers : notifiedAt[f] = 0
      BY <1>3 DEF Claim, Fields
    <3>2. QED
      BY <1>3, <3>1 DEF Claim
  <2>2. clock < MaxClaims /\ clock' = clock + 1 /\ UNCHANGED <<evidence, told, unacknowledged>>
    BY <1>3 DEF Claim
  <2>3. Typed
    BY <1>1, <2>1, <2>2 DEF NotifierRow
  <2>4. /\ notifier'[h].pc = "send" /\ notifier'[h].at = clock + 1 /\ notifier'[h].covers = covers
        /\ \A g \in Notifiers \ {h} : notifier'[g] = notifier[g]
    BY <1>1, <2>1
  <2>5. \A g \in Notifiers : notifier[g].at \in Nat
    BY <1>1 DEF NotifierRow
  <2>6. ClaimsDistinct'
    BY <1>1, <2>2, <2>4, <2>5 DEF ClaimsDistinct
  <2>7. ClaimsStand'
    <3> SUFFICES ASSUME NEW g \in Notifiers, notifier'[g].pc = "send", NEW f \in notifier'[g].covers
                 PROVE  notifiedAt'[f] = notifier'[g].at
      BY DEF ClaimsStand
    <3>1. CASE g = h
      BY <2>1, <2>4, <3>1
    <3>2. CASE g # h
      <4>1. notifier'[g] = notifier[g] /\ f \in Fields
        BY <1>1, <2>4, <3>2 DEF NotifierRow
      <4>2. notifiedAt[f] = notifier[g].at /\ notifier[g].at \in 1..clock
        BY <1>1, <4>1 DEF ClaimsStand, ClaimsDistinct
      <4>3. f \notin covers
        BY <2>1, <4>2
      <4>4. QED
        BY <2>1, <4>1, <4>2, <4>3
    <3>3. QED
      BY <3>1, <3>2
  <2>8. ToldStays'
    <3> SUFFICES ASSUME NEW f \in Fields
                 PROVE  /\ notifiedAt'[f] <= clock'
                        /\ told'[f] # unacknowledged'[f] =>
                             /\ told'[f] = unacknowledged'[f] + 1 /\ notifiedAt'[f] > 0
                             /\ \A g \in Notifiers :
                                  notifier'[g].pc \in {"send", "release", "release_receipt"} =>
                                    notifier'[g].at # notifiedAt'[f]
      BY DEF ToldStays
    <3>1. CASE f \in covers
      <4>1. told[f] = unacknowledged[f] /\ notifiedAt'[f] = clock + 1
        BY <1>1, <2>1, <3>1 DEF ToldStays
      <4>2. told'[f] = unacknowledged'[f] /\ clock' = clock + 1 /\ clock \in Nat
        BY <1>1, <2>2, <4>1
      <4>3. QED
        BY <4>1, <4>2
    <3>2. CASE f \notin covers
      <4>1. notifiedAt'[f] = notifiedAt[f] /\ notifiedAt[f] <= clock
        BY <1>1, <2>1, <3>2 DEF ToldStays
      <4>2. QED
        BY <1>1, <2>2, <2>4, <4>1 DEF ToldStays
    <3>3. QED
      BY <3>1, <3>2
  <2>9. QED
    BY <2>3, <2>6, <2>7, <2>8
<1>4. ASSUME NEW h \in Notifiers, NEW sent \in BOOLEAN, NEW arrived \in BOOLEAN,
             Notify(h, sent, arrived)
      PROVE  Typed /\ ClaimsDistinct' /\ ClaimsStand' /\ ToldStays'
  <2>1. /\ notifier[h].pc = "send" /\ UNCHANGED <<notifiedAt, evidence, clock>> /\ (sent => arrived)
        /\ notifier' = [notifier EXCEPT ![h].pc = IF sent THEN "done" ELSE "release", ![h].sent = sent]
        /\ told' = [f \in Fields |-> told[f] + IF arrived /\ f \in notifier[h].covers THEN 1 ELSE 0]
        /\ unacknowledged' = [f \in Fields |-> unacknowledged[f] +
             IF (arrived /\ ~sent) /\ f \in notifier[h].covers THEN 1 ELSE 0]
    BY <1>4 DEF Notify
  <2>2. /\ notifier'[h].pc = (IF sent THEN "done" ELSE "release") /\ notifier'[h].at = notifier[h].at
        /\ \A g \in Notifiers \ {h} : notifier'[g] = notifier[g]
    BY <1>1, <2>1 DEF NotifierRow
  <2>3. Typed
    <3>1. told' \in [Fields -> Nat] /\ unacknowledged' \in [Fields -> Nat]
      <4>1. \A f \in Fields : told[f] + (IF arrived /\ f \in notifier[h].covers THEN 1 ELSE 0) \in Nat
        BY <1>1
      <4>2. \A f \in Fields : unacknowledged[f] +
              (IF (arrived /\ ~sent) /\ f \in notifier[h].covers THEN 1 ELSE 0) \in Nat
        BY <1>1
      <4>3. QED
        BY <2>1, <4>1, <4>2
    <3>2. notifier' \in [Notifiers -> NotifierRow]
      <4>1. PICK pc \in {"done", "release"} :
              notifier' = [notifier EXCEPT ![h].pc = pc, ![h].sent = sent]
        BY <2>1
      <4>2. [notifier[h] EXCEPT !.pc = pc, !.sent = sent] \in NotifierRow
        BY <1>1 DEF NotifierRow
      <4>3. notifier' = [notifier EXCEPT ![h] = [notifier[h] EXCEPT !.pc = pc, !.sent = sent]]
        BY <1>1, <4>1
      <4>4. QED
        BY <1>1, <4>2, <4>3
    <3>3. QED
      BY <1>1, <2>1, <3>1, <3>2
  <2>4. ClaimsDistinct' /\ ClaimsStand'
    BY <1>1, <2>1, <2>2 DEF ClaimsDistinct, ClaimsStand
  <2>5. ToldStays'
    <3> SUFFICES ASSUME NEW f \in Fields
                 PROVE  /\ notifiedAt[f] <= clock
                        /\ told'[f] # unacknowledged'[f] =>
                             /\ told'[f] = unacknowledged'[f] + 1 /\ notifiedAt[f] > 0
                             /\ \A g \in Notifiers :
                                  notifier'[g].pc \in {"send", "release", "release_receipt"} =>
                                    notifier'[g].at # notifiedAt[f]
      BY <2>1 DEF ToldStays
    <3>0. told[f] \in Nat /\ unacknowledged[f] \in Nat /\ notifiedAt[f] <= clock
      BY <1>1 DEF ToldStays
    <3>1. CASE arrived /\ f \in notifier[h].covers
      <4>1. notifiedAt[f] = notifier[h].at /\ notifier[h].at > 0
        BY <1>1, <2>1, <3>1 DEF ClaimsStand, ClaimsDistinct
      <4>2. told[f] = unacknowledged[f]
        BY <1>1, <2>1, <4>1 DEF ToldStays
      <4>3. told'[f] = told[f] + 1
        BY <2>1, <3>1
      <4>4. CASE sent
        <5>1. unacknowledged'[f] = unacknowledged[f]
          BY <2>1, <3>0, <4>4
        <5>2. told'[f] = unacknowledged'[f] + 1
          BY <4>2, <4>3, <5>1
        <5>3. QED
          BY <1>1, <2>1, <2>2, <4>1, <4>4, <5>2, <3>0 DEF ClaimsDistinct
      <4>5. CASE ~sent
        <5>1. unacknowledged'[f] = unacknowledged[f] + 1
          BY <2>1, <3>1, <4>5
        <5>2. QED
          BY <3>0, <4>2, <4>3, <5>1
      <4>6. QED
        BY <4>4, <4>5
    <3>2. CASE ~(arrived /\ f \in notifier[h].covers)
      <4>1. told'[f] = told[f]
        BY <2>1, <3>0, <3>2
      <4>2. unacknowledged'[f] = unacknowledged[f]
        BY <2>1, <3>0, <3>2
      <4>3. QED
        BY <1>1, <2>1, <2>2, <4>1, <4>2 DEF ToldStays
    <3>3. QED
      BY <3>1, <3>2
  <2>6. QED
    BY <2>3, <2>4, <2>5
<1>5. ASSUME NEW h \in Notifiers, ReleaseClaim(h) \/ ReleaseReceipt(h)
      PROVE  Typed /\ ClaimsDistinct' /\ ClaimsStand' /\ ToldStays'
  <2>1. /\ notifier[h].pc \in {"release", "release_receipt"}
        /\ UNCHANGED <<evidence, told, unacknowledged, clock>>
        /\ \E field \in Fields :
             notifiedAt' = [notifiedAt EXCEPT ![field] = IF @ = notifier[h].at THEN 0 ELSE @]
        /\ \E pc \in {"release_receipt", "done"} : notifier' = [notifier EXCEPT ![h].pc = pc]
    BY <1>1, <1>5 DEF ReleaseClaim, ReleaseReceipt, Cleared, NotifierRow, Fields
  <2>2. \A f \in Fields : notifiedAt'[f] = notifiedAt[f]
                          \/ (notifiedAt[f] = notifier[h].at /\ notifiedAt'[f] = 0)
    BY <1>1, <2>1
  <2>3. /\ notifier'[h].pc \in {"release_receipt", "done"} /\ notifier'[h].at = notifier[h].at
        /\ \A g \in Notifiers \ {h} : notifier'[g] = notifier[g]
    BY <1>1, <2>1 DEF NotifierRow
  <2>4. Typed
    <3>1. notifiedAt' \in [Fields -> 0..MaxClaims]
      BY <1>1, <2>1
    <3>2. notifier' \in [Notifiers -> NotifierRow]
      BY <1>1, <2>1 DEF NotifierRow
    <3>3. QED
      BY <1>1, <2>1, <3>1, <3>2
  <2>5. ClaimsDistinct'
    BY <1>1, <2>1, <2>3 DEF ClaimsDistinct
  <2>6. ClaimsStand'
    <3> SUFFICES ASSUME NEW g \in Notifiers, notifier'[g].pc = "send", NEW f \in notifier'[g].covers
                 PROVE  notifiedAt'[f] = notifier'[g].at
      BY DEF ClaimsStand
    <3>1. g # h /\ notifier'[g] = notifier[g] /\ f \in Fields
      BY <1>1, <2>3 DEF NotifierRow
    <3>2. notifiedAt[f] = notifier[g].at /\ notifier[g].at # notifier[h].at
      BY <1>1, <2>1, <3>1 DEF ClaimsStand, ClaimsDistinct
    <3>3. QED
      BY <2>2, <3>1, <3>2
  <2>7. ToldStays'
    BY <1>1, <2>1, <2>2, <2>3 DEF ToldStays
  <2>8. QED
    BY <2>4, <2>5, <2>6, <2>7
<1>6. ASSUME NEW h \in Notifiers, NotifierEnds(h)
      PROVE  Typed /\ ClaimsDistinct' /\ ClaimsStand' /\ ToldStays'
  <2>1. /\ notifier' = [notifier EXCEPT ![h] = Quiet]
        /\ UNCHANGED <<notifiedAt, evidence, told, unacknowledged, clock>>
        /\ Quiet \in NotifierRow /\ Quiet.pc = "idle"
    BY <1>6 DEF NotifierEnds, Quiet, NotifierRow, Fields
  <2>2. Typed
    BY <1>1, <2>1
  <2>3. notifier'[h].pc = "idle" /\ \A g \in Notifiers \ {h} : notifier'[g] = notifier[g]
    BY <1>1, <2>1
  <2>4. QED
    BY <1>1, <2>1, <2>2, <2>3 DEF ClaimsDistinct, ClaimsStand, ToldStays
<1> HIDE DEF Typed
<1>7. NotificationsInv' \/ (Typed /\ ClaimsDistinct' /\ ClaimsStand' /\ ToldStays')
  BY <1>2, <1>3, <1>4, <1>5, <1>6 DEF NotificationsNext
<1>8. QED
  BY <1>7 DEF Typed, NotificationsInv, NotificationsTypeOK, NotifierRow

-----------------------------------------------------------------------------
(* Reminders of a receipt. *)

(* The stages whose minutes are over grow with time; more of them mean one *)
(* in between.                                                             *)
LEMMA PassedGrows ==
  ASSUME NEW a \in Nat, NEW b \in Nat
  PROVE  /\ Passed(a) \in 0..Cardinality(Stages)
         /\ a <= b => Passed(a) <= Passed(b)
         /\ a <= b /\ Passed(b) > Passed(a) => \E m \in Stages : a < m /\ m <= b
<1> USE ReceiptAssumption
<1> DEFINE Upto(t) == {m \in Stages : m <= t}
<1>1. Upto(a) \in SUBSET Stages /\ Upto(b) \in SUBSET Stages
  OBVIOUS
<1>2. Passed(a) = Cardinality(Upto(a)) /\ Passed(b) = Cardinality(Upto(b))
  BY DEF Passed
<1>3. /\ a <= b => Upto(a) \in SUBSET Upto(b)
      /\ (~\E m \in Stages : a < m /\ m <= b) /\ a <= b => Upto(a) = Upto(b)
  <2>1. \A m \in Stages : m \in Nat
    OBVIOUS
  <2>2. a <= b => \A m \in Stages : m <= a => m <= b
    BY <2>1
  <2>3. (~\E m \in Stages : a < m /\ m <= b) => \A m \in Stages : m <= b => m <= a
    BY <2>1
  <2>4. QED
    BY <2>2, <2>3, Zenon
<1> HIDE DEF Upto
<1>4. IsFiniteSet(Upto(a)) /\ IsFiniteSet(Upto(b)) /\ Cardinality(Upto(a)) <= Cardinality(Stages)
  BY <1>1, FS_Subset
<1>5. Cardinality(Upto(a)) \in Nat /\ Cardinality(Upto(b)) \in Nat /\ Cardinality(Stages) \in Nat
  BY <1>4, FS_CardinalityType
<1>6. a <= b => Cardinality(Upto(a)) <= Cardinality(Upto(b))
  BY <1>3, <1>4, FS_Subset
<1>7. QED
  BY <1>2, <1>3, <1>4, <1>5, <1>6

(* No reminder has been sent at first. *)
LEMMA ReceiptsStart == ReceiptInit => ReceiptInv
<1> USE ReceiptAssumption
<1>1. Cardinality(Stages) \in Nat
  BY FS_CardinalityType
<1>2. QED
  BY <1>1 DEF ReceiptInit, ReceiptInv, ReceiptTypeOK, LastReminder, NoReminderBurst

(* A reminder comes after a stage that the last one had not ticked off, or *)
(* an hour after it.                                                       *)
LEMMA ReceiptsKeep == ReceiptInv /\ [ReceiptNext]_receiptVars => ReceiptInv'
<1> SUFFICES ASSUME ReceiptInv, [ReceiptNext]_receiptVars PROVE ReceiptInv'
  OBVIOUS
<1> USE ReceiptAssumption
<1>1. /\ elapsed \in 0..MaxMinutes /\ stage \in 0..Cardinality(Stages) /\ lost \in 0..MaxLost
      /\ remindedAt \subseteq sentAt /\ sentAt \subseteq 0..MaxMinutes
      /\ LastReminder /\ NoReminderBurst /\ Cardinality(Stages) \in Nat
  BY FS_CardinalityType DEF ReceiptInv, ReceiptTypeOK
<1>2. CASE MinutePasses
  <2>1. /\ elapsed < MaxMinutes /\ elapsed' = elapsed + 1
        /\ UNCHANGED <<stage, remindedAt, sentAt, lost>>
    BY <1>2 DEF MinutePasses
  <2>2. \A t : Passed(t)' = Passed(t)
    BY DEF Passed
  <2>3. LastReminder'
    BY <1>1, <2>1, <2>2 DEF LastReminder
  <2>4. NoReminderBurst'
    BY <1>1, <2>1 DEF NoReminderBurst
  <2>5. QED
    BY <1>1, <2>1, <2>3, <2>4 DEF ReceiptInv, ReceiptTypeOK
<1>3. CASE Remind
  <2>1. /\ ReminderDue /\ stage' = NextStage /\ remindedAt' = {elapsed}
        /\ sentAt' = sentAt \cup {elapsed} /\ UNCHANGED <<elapsed, lost>>
    BY <1>3 DEF Remind
  <2>2. Passed(elapsed) \in 0..Cardinality(Stages) /\ elapsed \in Nat
    BY <1>1, PassedGrows
  <2>3. stage' \in 0..Cardinality(Stages) /\ Passed(elapsed) <= stage'
    BY <1>1, <2>1, <2>2 DEF NextStage
  <2>4. Passed(elapsed)' = Passed(elapsed)
    BY <2>1 DEF Passed
  <2>5. LastReminder'
    BY <1>1, <2>1, <2>3, <2>4 DEF LastReminder
  <2>6. ASSUME NEW a \in sentAt, a < elapsed
        PROVE  (\E m \in Stages : a < m /\ m <= elapsed) \/ elapsed >= a + Hour
    <3>1. PICK last \in remindedAt : a <= last /\ Passed(last) <= stage
      BY <1>1 DEF LastReminder
    <3>2. last \in Nat /\ last <= elapsed /\ a \in Nat
      BY <1>1, <3>1 DEF LastReminder
    <3>3. CASE stage < Cardinality(Stages)
      <4>1. Passed(elapsed) > stage
        BY <2>1, <3>3 DEF ReminderDue
      <4>2. Passed(elapsed) > Passed(last)
        <5>1. Passed(last) \in 0..Cardinality(Stages)
          BY <2>2, <3>2, PassedGrows
        <5>2. QED
          BY <1>1, <2>2, <3>1, <4>1, <5>1
      <4>3. PICK m \in Stages : last < m /\ m <= elapsed
        BY <2>2, <3>2, <4>2, PassedGrows
      <4>4. QED
        BY <3>1, <3>2, <4>3
    <3>4. CASE ~(stage < Cardinality(Stages))
      <4>1. elapsed >= last + Hour
        BY <2>1, <3>4 DEF ReminderDue
      <4>2. QED
        BY <1>1, <3>1, <3>2, <4>1
    <3>5. QED
      BY <3>3, <3>4
  <2>7. NoReminderBurst'
    <3> SUFFICES ASSUME NEW a \in sentAt', NEW b \in sentAt', a < b
                 PROVE  (\E m \in Stages : a < m /\ m <= b) \/ b >= a + Hour
      BY DEF NoReminderBurst
    <3>1. a \in sentAt
      BY <1>1, <2>1 DEF LastReminder
    <3>2. CASE b \in sentAt
      BY <1>1, <3>1, <3>2 DEF NoReminderBurst
    <3>3. CASE b = elapsed
      BY <2>6, <3>1, <3>3
    <3>4. QED
      BY <2>1, <3>2, <3>3
  <2>8. QED
    BY <1>1, <2>1, <2>3, <2>5, <2>7 DEF ReceiptInv, ReceiptTypeOK
<1>4. CASE RemindLost
  <2>1. lost < MaxLost /\ lost' = lost + 1 /\ UNCHANGED <<elapsed, stage, remindedAt, sentAt>>
    BY <1>4 DEF RemindLost
  <2>2. LastReminder' /\ NoReminderBurst'
    BY <1>1, <2>1 DEF LastReminder, NoReminderBurst, Passed
  <2>3. QED
    BY <1>1, <2>1, <2>2 DEF ReceiptInv, ReceiptTypeOK
<1>5. CASE UNCHANGED receiptVars
  BY <1>1, <1>5 DEF receiptVars, ReceiptInv, ReceiptTypeOK, LastReminder, NoReminderBurst, Passed
<1>6. QED
  BY <1>2, <1>3, <1>4, <1>5 DEF ReceiptNext

-----------------------------------------------------------------------------
(* Renewal reminders. *)

RunRow == [pc: {"idle", "cooldown", "limit", "skip", "intend", "send", "record"},
           trigger: SUBSET Triggers, day: Days \cup {0}, result: {"none", "sent", "failed"}]

AtWork(t) == \E r \in Runs : t \in run[r].trigger

RemindersPart == RunsFit /\ ArrivalsAccounted

(* The invariant of one trigger, with its number of undecided runs. *)
Accounted(t, undecided) ==
  /\ messages[t] + undecided <= 1 + missed[t] + overlaps[t]
  /\ LoggedSent(t) \/ AtWork(t) \/ messages[t] <= missed[t] + overlaps[t]

LEMMA AccountedOnce ==
  ArrivalsAccounted <=> \A t \in Once : Accounted(t, Cardinality(Undecided(t)))
BY DEF ArrivalsAccounted, Accounted, AtWork

LEMMA AccountedOnceNext ==
  ArrivalsAccounted' <=> \A t \in Once : Accounted(t, Cardinality(Undecided(t)))'
BY DEF ArrivalsAccounted, Accounted, AtWork, Once

(* Sets of runs are counted by numbers. *)
LEMMA RunsCounted ==
  ASSUME NEW S \in SUBSET Runs
  PROVE  /\ IsFiniteSet(S) /\ Cardinality(S) \in Nat
         /\ S = {} => Cardinality(S) = 0
         /\ \A r \in Runs \ S : Cardinality(S \cup {r}) = Cardinality(S) + 1
         /\ \A r \in S : Cardinality(S \ {r}) = Cardinality(S) - 1
<1>1. IsFiniteSet(Runs)
  BY RemindersAssumption
<1>2. IsFiniteSet(S)
  BY <1>1, FS_Subset
<1>3. Cardinality(S) \in Nat
  BY <1>2, FS_CardinalityType
<1>4. S = {} => Cardinality(S) = 0
  BY FS_EmptySet
<1>5. ASSUME NEW r \in Runs \ S PROVE Cardinality(S \cup {r}) = Cardinality(S) + 1
  BY <1>2, <1>5, FS_AddElement
<1>6. ASSUME NEW r \in S PROVE Cardinality(S \ {r}) = Cardinality(S) - 1
  BY <1>2, <1>6, FS_RemoveElement
<1>7. QED
  BY <1>2, <1>3, <1>4, <1>5, <1>6

(* What one run does changes the undecided runs by this run at most. *)
LEMMA UndecidedChanges ==
  ASSUME NEW r \in Runs, NEW t, \A q \in Runs \ {r} : run'[q] = run[q]
  PROVE  /\ Cardinality(Undecided(t)) \in Nat /\ Cardinality(Undecided(t)') \in Nat
         /\ (r \in Undecided(t) <=> r \in Undecided(t)') =>
              Cardinality(Undecided(t)') = Cardinality(Undecided(t))
         /\ r \notin Undecided(t) /\ r \in Undecided(t)' =>
              Cardinality(Undecided(t)') = Cardinality(Undecided(t)) + 1
         /\ r \in Undecided(t) /\ r \notin Undecided(t)' =>
              Cardinality(Undecided(t)') = Cardinality(Undecided(t)) - 1
<1> DEFINE S == Undecided(t)
           R == Undecided(t)'
<1>1. S \in SUBSET Runs /\ R \in SUBSET Runs /\ \A q \in Runs \ {r} : q \in S <=> q \in R
  BY DEF Undecided
<1> HIDE DEF S, R
<1>2. Cardinality(S) \in Nat /\ Cardinality(R) \in Nat
  BY <1>1, RunsCounted
<1>3. (r \in S <=> r \in R) => Cardinality(R) = Cardinality(S)
  <2>1. (r \in S <=> r \in R) => R = S
    BY <1>1
  <2>2. QED
    BY <2>1
<1>4. r \notin S /\ r \in R => Cardinality(R) = Cardinality(S) + 1
  <2>1. r \notin S /\ r \in R => R = S \cup {r}
    BY <1>1
  <2>2. r \notin S => Cardinality(S \cup {r}) = Cardinality(S) + 1
    BY <1>1, RunsCounted
  <2>3. QED
    BY <2>1, <2>2
<1>5. r \in S /\ r \notin R => Cardinality(R) = Cardinality(S) - 1
  <2>1. r \in S /\ r \notin R => R = S \ {r}
    BY <1>1
  <2>2. r \in S => Cardinality(S \ {r}) = Cardinality(S) - 1
    BY <1>1, RunsCounted
  <2>3. QED
    BY <2>1, <2>2
<1>6. QED
  BY <1>2, <1>3, <1>4, <1>5 DEF S, R

(* Nothing has been sent at first. *)
LEMMA RemindersStart == RemindersInit => RemindersInv
<1> SUFFICES ASSUME RemindersInit PROVE RemindersInv
  OBVIOUS
<1> USE RemindersAssumption
<1>1. NotRunning \in RunRow /\ NotRunning.pc = "idle" /\ NotRunning.trigger = {}
      /\ NotRunning.result = "none"
  BY DEF NotRunning, RunRow
<1>2. RemindersTypeOK
  BY <1>1 DEF RemindersInit, RemindersTypeOK, RunRow, Days
<1>3. RunsFit
  BY <1>1 DEF RemindersInit, RunsFit
<1>4. ArrivalsAccounted
  <2> SUFFICES ASSUME NEW t \in Once PROVE Accounted(t, Cardinality(Undecided(t)))
    BY AccountedOnce
  <2>1. t \in Triggers /\ messages[t] = 0 /\ missed[t] = 0 /\ overlaps[t] = 0
    BY DEF Once, RemindersInit
  <2>2. Undecided(t) = {}
    BY <1>1 DEF Undecided, RemindersInit
  <2>3. Cardinality(Undecided(t)) = 0
    BY <2>2, FS_EmptySet
  <2>4. QED
    BY <2>1, <2>3 DEF Accounted
<1>5. QED
  BY <1>2, <1>3, <1>4 DEF RemindersInv

(* A write to the log changes one day of one trigger. *)
LEMMA LogWritten ==
  ASSUME RemindersTypeOK, NEW t \in Triggers, NEW day \in Days,
         NEW status \in {"none", "skipped", "failed", "sent"}, log' = [log EXCEPT ![t][day] = status]
  PROVE  /\ log' \in [Triggers -> [Days -> {"none", "skipped", "failed", "sent"}]]
         /\ \A u \in Triggers \ {t} : LoggedSent(u)' <=> LoggedSent(u)
         /\ status = "sent" => LoggedSent(t)'
<1>1. /\ log[t] \in [Days -> {"none", "skipped", "failed", "sent"}]
      /\ log' = [log EXCEPT ![t] = [log[t] EXCEPT ![day] = status]]
  BY DEF RemindersTypeOK
<1>2. log' \in [Triggers -> [Days -> {"none", "skipped", "failed", "sent"}]]
  BY <1>1 DEF RemindersTypeOK
<1>3. /\ \A u \in Triggers \ {t} : log'[u] = log[u]
      /\ \A d \in Days : log'[t][d] = IF d = day THEN status ELSE log[t][d]
  BY <1>1 DEF RemindersTypeOK
<1>4. QED
  BY <1>2, <1>3 DEF LoggedSent

(* The counts of a trigger are numbers. *)
LEMMA CountsAreNumbers ==
  ASSUME RemindersTypeOK, NEW t \in Triggers
  PROVE  messages[t] \in Nat /\ missed[t] \in Nat /\ overlaps[t] \in Nat
<1>1. overlaps[t] \in 0..MaxOverlaps /\ MaxOverlaps \in Nat
  BY RemindersAssumption DEF RemindersTypeOK
<1>2. messages[t] \in Nat /\ missed[t] \in Nat
  BY DEF RemindersTypeOK
<1>3. QED
  BY <1>1, <1>2

(* A step on which no run begins, ends, or gets a result: the log loses a  *)
(* reminder only under a run at work on it.                                *)
LEMMA RunsGoOn ==
  ASSUME RemindersPart, UNCHANGED <<messages, missed, overlaps>>, RunsFit',
         \A q \in Runs : run'[q].trigger = run[q].trigger /\ run'[q].result = run[q].result,
         \A u \in Triggers : AtWork(u) \/ (LoggedSent(u) => LoggedSent(u)')
  PROVE  RemindersPart'
<1>1. ASSUME NEW u \in Once PROVE Accounted(u, Cardinality(Undecided(u)))'
  <2>1. Undecided(u)' = Undecided(u) /\ (AtWork(u)' <=> AtWork(u)) /\ u \in Triggers
    BY DEF Undecided, AtWork, Once
  <2>2. Accounted(u, Cardinality(Undecided(u)))
    BY AccountedOnce DEF RemindersPart
  <2>3. Cardinality(Undecided(u)') = Cardinality(Undecided(u))
    BY <2>1
  <2>4. LoggedSent(u) \/ AtWork(u) => LoggedSent(u)' \/ AtWork(u)'
    BY <2>1
  <2>5. QED
    BY <2>2, <2>3, <2>4 DEF Accounted
<1>2. QED
  BY <1>1, AccountedOnceNext DEF RemindersPart

(* A run begins with a trigger that is not logged as sent: nobody else is  *)
(* at work on it, or the overlap is counted.                               *)
LEMMA RemindersCheck ==
  ASSUME RemindersTypeOK, RemindersPart, NEW r \in Runs, NEW t \in Triggers, NEW day \in Days,
         CheckDuplicate(r, t, day)
  PROVE  /\ run' \in [Runs -> RunRow] /\ overlaps' \in [Triggers -> 0..MaxOverlaps]
         /\ RemindersPart'
<1> USE RemindersAssumption
<1> DEFINE new == [pc |-> "cooldown", trigger |-> {t}, day |-> day, result |-> "none"]
<1>1. /\ run[r].pc = "idle" /\ ~SentBefore(t, day) /\ run' = [run EXCEPT ![r] = new]
      /\ UNCHANGED <<log, messages, missed>>
      /\ OtherAtWork(r, t) => overlaps[t] < MaxOverlaps /\ overlaps' = [overlaps EXCEPT ![t] = @ + 1]
      /\ ~OtherAtWork(r, t) => overlaps' = overlaps
  BY DEF CheckDuplicate
<1>2. run \in [Runs -> RunRow] /\ new \in RunRow /\ overlaps \in [Triggers -> 0..MaxOverlaps]
  BY DEF RemindersTypeOK, RunRow
<1>3. /\ run' \in [Runs -> RunRow] /\ run'[r] = new /\ run[r].trigger = {}
      /\ \A q \in Runs \ {r} : run'[q] = run[q]
  BY <1>1, <1>2 DEF RemindersPart, RunsFit
<1>4. overlaps' \in [Triggers -> 0..MaxOverlaps] /\ \A u \in Triggers \ {t} : overlaps'[u] = overlaps[u]
  <2>1. CASE OtherAtWork(r, t)
    <3>1. overlaps[t] + 1 \in 0..MaxOverlaps
      BY <1>1, <1>2, <2>1
    <3>2. QED
      BY <1>1, <1>2, <2>1, <3>1
  <2>2. CASE ~OtherAtWork(r, t)
    BY <1>1, <1>2, <2>2
  <2>3. QED
    BY <2>1, <2>2
<1>5. \A u : LoggedSent(u)' <=> LoggedSent(u)
  BY <1>1 DEF LoggedSent
<1>6. RunsFit'
  BY <1>3 DEF RemindersPart, RunsFit
<1>7. ASSUME NEW u \in Once PROVE Accounted(u, Cardinality(Undecided(u)))'
  <2>1. Accounted(u, Cardinality(Undecided(u))) /\ u \in Triggers
    BY AccountedOnce DEF RemindersPart, Once
  <2>2. messages[u] \in Nat /\ missed[u] \in Nat /\ overlaps[u] \in Nat
    BY <2>1, CountsAreNumbers
  <2>3. r \notin Undecided(u) /\ (r \in Undecided(u)' <=> u = t)
    BY <1>3 DEF Undecided
  <2>4. Cardinality(Undecided(u)) \in Nat /\ Cardinality(Undecided(u)') \in Nat
    BY <1>3, UndecidedChanges
  <2>5. CASE u # t
    <3>1. Cardinality(Undecided(u)') = Cardinality(Undecided(u))
      BY <1>3, <2>3, <2>5, UndecidedChanges
    <3>2. AtWork(u)' <=> AtWork(u)
      BY <1>3, <2>5 DEF AtWork
    <3>3. messages'[u] = messages[u] /\ missed'[u] = missed[u] /\ overlaps'[u] = overlaps[u]
      BY <1>1, <1>4, <2>1, <2>5
    <3>4. QED
      BY <1>5, <2>1, <3>1, <3>2, <3>3 DEF Accounted
  <2>6. CASE u = t
    <3>1. Cardinality(Undecided(t)') = Cardinality(Undecided(t)) + 1
      BY <1>3, <2>3, <2>6, UndecidedChanges
    <3>2. AtWork(t)'
      BY <1>3 DEF AtWork
    <3>3. messages'[t] + Cardinality(Undecided(t)') <= 1 + missed'[t] + overlaps'[t]
      <4>1. CASE OtherAtWork(r, t)
        <5>1. overlaps'[t] = overlaps[t] + 1 /\ messages' = messages /\ missed' = missed
          BY <1>1, <1>2, <4>1
        <5>2. messages[t] + Cardinality(Undecided(t)) <= 1 + missed[t] + overlaps[t]
          BY <2>1, <2>6 DEF Accounted
        <5>3. QED
          BY <2>2, <2>4, <2>6, <3>1, <5>1, <5>2
      <4>2. CASE ~OtherAtWork(r, t)
        <5>1. ~AtWork(t)
          BY <1>3, <4>2 DEF AtWork, OtherAtWork
        <5>2. Undecided(t) = {}
          BY <5>1 DEF Undecided, AtWork
        <5>3. Cardinality(Undecided(t)) = 0
          BY <5>2, FS_EmptySet
        <5>4. ~LoggedSent(t)
          BY <1>1, <2>6 DEF Once, SentBefore, LoggedSent
        <5>5. messages[t] <= missed[t] + overlaps[t]
          BY <2>1, <2>6, <5>1, <5>4 DEF Accounted
        <5>6. overlaps' = overlaps /\ messages' = messages /\ missed' = missed
          BY <1>1, <4>2
        <5>7. QED
          BY <2>2, <2>6, <3>1, <5>3, <5>5, <5>6
      <4>3. QED
        BY <4>1, <4>2
    <3>4. QED
      BY <2>6, <3>2, <3>3 DEF Accounted
  <2>7. QED
    BY <2>5, <2>6
<1>8. QED
  BY <1>3, <1>4, <1>6, <1>7, AccountedOnceNext DEF RemindersPart

(* A message that arrives uses the room of its run, or is missed. *)
LEMMA RemindersSend ==
  ASSUME RemindersTypeOK, RemindersPart, NEW r \in Runs, NEW t \in Triggers,
         NEW arrived \in BOOLEAN, NEW result \in {"sent", "failed"},
         SendReminder(r, t, arrived, result)
  PROVE  /\ run' \in [Runs -> RunRow] /\ messages' \in [Triggers -> Nat]
         /\ missed' \in [Triggers -> Nat] /\ reminderFaults' \in 0..MaxReminderFaults
         /\ RemindersPart'
<1> USE RemindersAssumption
<1> DEFINE k == IF arrived THEN 1 ELSE 0
           lost1 == arrived /\ result = "failed"
<1>1. /\ run[r].pc = "send" /\ t \in run[r].trigger /\ (result = "sent" => arrived)
      /\ messages' = [messages EXCEPT ![t] = @ + k]
      /\ run' = [run EXCEPT ![r].pc = "record", ![r].result = result]
      /\ UNCHANGED <<log, overlaps>>
  BY DEF SendReminder
<1>2. /\ lost1 => /\ reminderFaults < MaxReminderFaults /\ reminderFaults' = reminderFaults + 1
                  /\ missed' = [missed EXCEPT ![t] = @ + 1]
      /\ ~lost1 => UNCHANGED <<reminderFaults, missed>>
  BY DEF SendReminder
<1>3. /\ run \in [Runs -> RunRow] /\ missed \in [Triggers -> Nat] /\ messages \in [Triggers -> Nat]
      /\ reminderFaults \in 0..MaxReminderFaults /\ run[r].day \in Days /\ run[r].result # "sent"
      /\ \A u \in run[r].trigger : u = t
  BY <1>1 DEF RemindersTypeOK, RunRow, RemindersPart, RunsFit
<1>4. /\ messages' \in [Triggers -> Nat] /\ messages'[t] = messages[t] + k
      /\ \A u \in Triggers \ {t} : messages'[u] = messages[u]
  <2>1. k \in {0, 1}
    OBVIOUS
  <2> HIDE DEF k
  <2>2. messages[t] + k \in Nat
    BY <1>3, <2>1
  <2>3. QED
    BY <1>1, <1>3, <2>2
<1>5. /\ missed' \in [Triggers -> Nat] /\ reminderFaults' \in 0..MaxReminderFaults
      /\ \A u \in Triggers \ {t} : missed'[u] = missed[u]
  <2>1. CASE lost1
    <3>1. missed[t] + 1 \in Nat
      BY <1>3
    <3>2. missed' \in [Triggers -> Nat] /\ \A u \in Triggers \ {t} : missed'[u] = missed[u]
      BY <1>2, <1>3, <2>1, <3>1
    <3>3. reminderFaults' \in 0..MaxReminderFaults
      BY <1>2, <1>3, <2>1
    <3>4. QED
      BY <3>2, <3>3
  <2>2. CASE ~lost1
    BY <1>2, <1>3, <2>2
  <2>3. QED
    BY <2>1, <2>2
<1>6. run' \in [Runs -> RunRow]
  <2> DEFINE new == [run[r] EXCEPT !.pc = "record", !.result = result]
  <2>1. run[r] \in RunRow
    BY <1>3
  <2>2. new \in RunRow
    BY <2>1 DEF RunRow
  <2>3. run' = [run EXCEPT ![r] = new]
    BY <1>1
  <2> HIDE DEF new
  <2>4. QED
    BY <1>3, <2>2, <2>3
<1>7. /\ run'[r].pc = "record" /\ run'[r].result = result /\ run'[r].trigger = run[r].trigger
      /\ run'[r].day = run[r].day /\ \A q \in Runs \ {r} : run'[q] = run[q]
  BY <1>1, <1>3 DEF RunRow
<1>8. \A u : (LoggedSent(u)' <=> LoggedSent(u)) /\ (AtWork(u)' <=> AtWork(u))
  BY <1>1, <1>7 DEF LoggedSent, AtWork
<1>9. RunsFit'
  BY <1>3, <1>7 DEF RemindersPart, RunsFit
<1>10. ASSUME NEW u \in Once PROVE Accounted(u, Cardinality(Undecided(u)))'
  <2>1. Accounted(u, Cardinality(Undecided(u))) /\ u \in Triggers /\ overlaps' = overlaps
    BY <1>1, AccountedOnce DEF RemindersPart, Once
  <2>2. /\ messages[u] \in Nat /\ missed[u] \in Nat /\ overlaps[u] \in Nat
        /\ Cardinality(Undecided(u)) \in Nat /\ Cardinality(Undecided(u)') \in Nat
    BY <1>7, <2>1, CountsAreNumbers, UndecidedChanges
  <2>3. CASE u # t
    <3>1. u \notin run[r].trigger
      BY <1>3, <2>3
    <3>2. r \notin Undecided(u) /\ r \notin Undecided(u)'
      BY <1>7, <3>1 DEF Undecided
    <3>3. Cardinality(Undecided(u)') = Cardinality(Undecided(u))
      BY <1>7, <3>2, UndecidedChanges
    <3>4. messages'[u] = messages[u] /\ missed'[u] = missed[u]
      BY <1>4, <1>5, <2>1, <2>3
    <3>5. QED
      BY <1>8, <2>1, <3>3, <3>4 DEF Accounted
  <2>4. CASE u = t
    <3>1. AtWork(t)' /\ r \in Undecided(t) /\ (r \in Undecided(t)' <=> result # "sent")
      BY <1>1, <1>3, <1>7 DEF AtWork, Undecided
    <3>2. messages[t] + Cardinality(Undecided(t)) <= 1 + missed[t] + overlaps[t]
      BY <2>1, <2>4 DEF Accounted
    <3>3. messages'[t] + Cardinality(Undecided(t)') <= 1 + missed'[t] + overlaps[t]
      <4>1. CASE result = "sent"
        <5>1. arrived /\ k = 1 /\ ~lost1
          BY <1>1, <4>1
        <5>2. messages'[t] = messages[t] + 1 /\ missed' = missed
          BY <1>2, <1>4, <5>1
        <5>3. Cardinality(Undecided(t)') = Cardinality(Undecided(t)) - 1
          BY <1>7, <3>1, <4>1, UndecidedChanges
        <5>4. QED
          BY <2>2, <2>4, <3>2, <5>2, <5>3
      <4>2. CASE result = "failed"
        <5>1. Cardinality(Undecided(t)') = Cardinality(Undecided(t))
          BY <1>7, <3>1, <4>2, UndecidedChanges
        <5>2. CASE arrived
          <6>1. k = 1 /\ lost1
            BY <4>2, <5>2
          <6>2. messages'[t] = messages[t] + 1 /\ missed'[t] = missed[t] + 1
            BY <1>2, <1>3, <1>4, <6>1
          <6>3. QED
            BY <2>2, <2>4, <3>2, <5>1, <6>2
        <5>3. CASE ~arrived
          <6>1. k = 0 /\ ~lost1
            BY <5>3
          <6>2. messages'[t] = messages[t] /\ missed' = missed
            BY <1>2, <1>4, <2>2, <2>4, <6>1
          <6>3. QED
            BY <3>2, <5>1, <6>2
        <5>4. QED
          BY <5>2, <5>3
      <4>3. QED
        BY <4>1, <4>2
    <3>4. QED
      BY <2>1, <2>4, <3>1, <3>3 DEF Accounted
  <2>5. QED
    BY <2>3, <2>4
<1>11. QED
  BY <1>4, <1>5, <1>6, <1>9, <1>10, AccountedOnceNext DEF RemindersPart

(* A run ends: an undecided one gives its room back; what another one has  *)
(* sent is logged, or is missed.                                           *)
LEMMA RunEnds ==
  ASSUME RemindersTypeOK, RemindersPart, NEW r \in Runs, run' = [run EXCEPT ![r] = NotRunning],
         UNCHANGED <<messages, overlaps>>, missed' \in [Triggers -> Nat],
         \A u \in Triggers : missed[u] <= missed'[u],
         \A u \in Triggers \ run[r].trigger : LoggedSent(u)' <=> LoggedSent(u),
         run[r].result = "sent" =>
           \A u \in run[r].trigger : LoggedSent(u)' \/ missed[u] + 1 <= missed'[u]
  PROVE  run' \in [Runs -> RunRow] /\ RemindersPart'
<1>1. run \in [Runs -> RunRow] /\ missed \in [Triggers -> Nat]
  BY DEF RemindersTypeOK, RunRow
<1>2. NotRunning \in RunRow /\ NotRunning.pc = "idle" /\ NotRunning.trigger = {}
      /\ NotRunning.result = "none"
  BY DEF NotRunning, RunRow
<1>3. /\ run' \in [Runs -> RunRow] /\ run'[r] = NotRunning
      /\ \A q \in Runs \ {r} : run'[q] = run[q]
  BY <1>1, <1>2
<1>4. RunsFit'
  BY <1>2, <1>3 DEF RemindersPart, RunsFit
<1>5. ASSUME NEW u \in Once PROVE Accounted(u, Cardinality(Undecided(u)))'
  <2>1. Accounted(u, Cardinality(Undecided(u))) /\ u \in Triggers
    BY AccountedOnce DEF RemindersPart, Once
  <2>2. /\ messages[u] \in Nat /\ missed[u] \in Nat /\ overlaps[u] \in Nat
        /\ Cardinality(Undecided(u)) \in Nat /\ Cardinality(Undecided(u)') \in Nat
    BY <1>3, <2>1, CountsAreNumbers, UndecidedChanges
  <2>3. missed'[u] \in Nat /\ missed[u] <= missed'[u]
        /\ messages' = messages /\ overlaps' = overlaps
    BY <2>1
  <2>4. r \notin Undecided(u)'
    BY <1>2, <1>3 DEF Undecided
  <2>5. messages[u] + Cardinality(Undecided(u)) <= 1 + missed[u] + overlaps[u]
    BY <2>1 DEF Accounted
  <2>6. CASE r \in Undecided(u)
    <3>1. Cardinality(Undecided(u)') = Cardinality(Undecided(u)) - 1
      BY <1>3, <2>4, <2>6, UndecidedChanges
    <3>2. messages[u] + Cardinality(Undecided(u)') <= missed'[u] + overlaps[u]
      BY <2>2, <2>3, <2>5, <3>1
    <3>3. /\ messages[u] + Cardinality(Undecided(u)') <= 1 + missed'[u] + overlaps[u]
          /\ messages[u] <= missed'[u] + overlaps[u]
      BY <2>2, <2>3, <3>2
    <3>4. QED
      BY <2>3, <3>3 DEF Accounted
  <2>7. CASE r \notin Undecided(u)
    <3>1. Cardinality(Undecided(u)') = Cardinality(Undecided(u))
      BY <1>3, <2>4, <2>7, UndecidedChanges
    <3>2. messages[u] + Cardinality(Undecided(u)') <= 1 + missed'[u] + overlaps[u]
      BY <2>2, <2>3, <2>5, <3>1
    <3>3. CASE u \notin run[r].trigger
      <4>1. (AtWork(u)' <=> AtWork(u)) /\ (LoggedSent(u)' <=> LoggedSent(u))
        BY <1>2, <1>3, <2>1, <3>3 DEF AtWork
      <4>2. messages[u] <= missed[u] + overlaps[u] => messages[u] <= missed'[u] + overlaps[u]
        BY <2>2, <2>3
      <4>3. QED
        BY <2>1, <2>3, <3>2, <4>1, <4>2 DEF Accounted
    <3>4. CASE u \in run[r].trigger
      <4>1. run[r].result = "sent"
        BY <2>7, <3>4 DEF Undecided
      <4>2. CASE LoggedSent(u)'
        BY <2>3, <3>2, <4>2 DEF Accounted
      <4>3. CASE missed[u] + 1 <= missed'[u]
        <5>1. messages[u] <= missed'[u] + overlaps[u]
          BY <2>2, <2>3, <2>5, <4>3
        <5>2. QED
          BY <2>3, <3>2, <5>1 DEF Accounted
      <4>4. QED
        BY <3>4, <4>1, <4>2, <4>3
    <3>5. QED
      BY <3>3, <3>4
  <2>8. QED
    BY <2>6, <2>7
<1>6. QED
  BY <1>3, <1>4, <1>5, AccountedOnceNext DEF RemindersPart

(* A run dies, or writes what it has to and ends. *)
LEMMA RemindersEnd ==
  ASSUME RemindersTypeOK, RemindersPart, NEW r \in Runs,
         RunDies(r) \/ \E t \in Triggers : RecordReminder(r, t) \/ SkipReminder(r, t)
  PROVE  /\ run' \in [Runs -> RunRow] /\ missed' \in [Triggers -> Nat]
         /\ log' \in [Triggers -> [Days -> {"none", "skipped", "failed", "sent"}]]
         /\ reminderFaults' \in 0..MaxReminderFaults /\ RemindersPart'
<1> USE RemindersAssumption
<1>1. /\ run \in [Runs -> RunRow] /\ missed \in [Triggers -> Nat]
      /\ reminderFaults \in 0..MaxReminderFaults
      /\ log \in [Triggers -> [Days -> {"none", "skipped", "failed", "sent"}]]
  BY DEF RemindersTypeOK, RunRow
<1>2. run' = [run EXCEPT ![r] = NotRunning] /\ UNCHANGED <<messages, overlaps>>
  BY DEF RunDies, RecordReminder, SkipReminder
<1>3. CASE RunDies(r)
  <2>1. /\ UNCHANGED log /\ reminderFaults < MaxReminderFaults
        /\ reminderFaults' = reminderFaults + 1
        /\ missed' = [t \in Triggers |-> missed[t] +
             IF t \in run[r].trigger /\ run[r].result = "sent" THEN 1 ELSE 0]
    BY <1>3 DEF RunDies
  <2>2. \A t \in Triggers : missed[t] + (IF t \in run[r].trigger /\ run[r].result = "sent"
                                           THEN 1 ELSE 0) \in Nat
    BY <1>1
  <2>3. missed' \in [Triggers -> Nat]
    BY <2>1, <2>2
  <2>4. \A u : LoggedSent(u)' <=> LoggedSent(u)
    BY <2>1 DEF LoggedSent
  <2>5. \A u \in Triggers : missed[u] <= missed'[u]
    BY <1>1, <2>1
  <2>6. \A u \in run[r].trigger : u \in Triggers
    BY <1>1 DEF RunRow
  <2>7. run[r].result = "sent" => \A u \in run[r].trigger : missed[u] + 1 <= missed'[u]
    BY <1>1, <2>1, <2>6
  <2>8. run' \in [Runs -> RunRow] /\ RemindersPart'
    BY <1>2, <2>3, <2>4, <2>5, <2>7, RunEnds
  <2>9. reminderFaults' \in 0..MaxReminderFaults
    BY <1>1, <2>1
  <2>10. QED
    BY <1>1, <2>1, <2>3, <2>8, <2>9
<1>4. ASSUME NEW t \in Triggers, RecordReminder(r, t) \/ SkipReminder(r, t)
      PROVE  /\ missed' \in [Triggers -> Nat] /\ reminderFaults' \in 0..MaxReminderFaults
             /\ log' \in [Triggers -> [Days -> {"none", "skipped", "failed", "sent"}]]
             /\ run' \in [Runs -> RunRow] /\ RemindersPart'
  <2>1. PICK status \in {"none", "skipped", "failed", "sent"} :
          /\ log' = [log EXCEPT ![t][run[r].day] = status]
          /\ run[r].result = "sent" => status = "sent"
    <3>1. CASE RecordReminder(r, t)
      <4>1. log' = [log EXCEPT ![t][run[r].day] = run[r].result]
        BY <3>1 DEF RecordReminder, Write
      <4>2. run[r].result \in {"none", "skipped", "failed", "sent"}
        BY <1>1 DEF RunRow
      <4>3. QED
        BY <4>1, <4>2
    <3>2. CASE SkipReminder(r, t)
      <4>1. log' = [log EXCEPT ![t][run[r].day] = "skipped"] /\ run[r].pc = "skip"
        BY <3>2 DEF SkipReminder, Write
      <4>2. run[r].result # "sent"
        BY <4>1 DEF RemindersPart, RunsFit
      <4>3. QED
        BY <4>1, <4>2
    <3>3. QED
      BY <1>4, <3>1, <3>2
  <2>2. /\ run[r].pc # "idle" /\ t \in run[r].trigger /\ UNCHANGED <<missed, reminderFaults>>
    BY <1>4 DEF RecordReminder, SkipReminder
  <2>3. \A u \in run[r].trigger : u = t
    BY <2>2 DEF RemindersPart, RunsFit
  <2>4. PICK day \in Days : day = run[r].day
    BY <2>2 DEF RemindersPart, RunsFit
  <2>5. log' = [log EXCEPT ![t][day] = status]
    BY <2>1, <2>4
  <2>6. /\ log' \in [Triggers -> [Days -> {"none", "skipped", "failed", "sent"}]]
        /\ \A u \in Triggers \ {t} : LoggedSent(u)' <=> LoggedSent(u)
        /\ status = "sent" => LoggedSent(t)'
    BY <2>5, LogWritten
  <2>7. /\ \A u \in Triggers \ run[r].trigger : LoggedSent(u)' <=> LoggedSent(u)
        /\ run[r].result = "sent" => \A u \in run[r].trigger : LoggedSent(u)'
    BY <2>1, <2>2, <2>3, <2>6
  <2>8. missed' \in [Triggers -> Nat] /\ \A u \in Triggers : missed[u] <= missed'[u]
    BY <1>1, <2>2
  <2>9. run' \in [Runs -> RunRow] /\ RemindersPart'
    BY <1>2, <2>7, <2>8, RunEnds
  <2>10. QED
    BY <1>1, <2>2, <2>6, <2>8, <2>9
<1>5. QED
  BY <1>1, <1>3, <1>4

(* A run goes on to its next step; the second check may end it. *)
LEMMA RemindersProceed ==
  ASSUME RemindersTypeOK, RemindersPart, NEW r \in Runs, NEW t \in Triggers,
         NEW target \in BOOLEAN,
         CheckCooldown(r, t) \/ CheckLimit(r, t, target) \/ IntendReminder(r, t)
  PROVE  /\ run' \in [Runs -> RunRow]
         /\ log' \in [Triggers -> [Days -> {"none", "skipped", "failed", "sent"}]]
         /\ RemindersPart'
<1> USE RemindersAssumption
<1>1. /\ run \in [Runs -> RunRow] /\ missed \in [Triggers -> Nat]
      /\ log \in [Triggers -> [Days -> {"none", "skipped", "failed", "sent"}]]
  BY DEF RemindersTypeOK, RunRow
<1>2. /\ run[r].pc \in {"cooldown", "limit", "intend"} /\ t \in run[r].trigger
      /\ UNCHANGED <<messages, missed, overlaps>>
  BY DEF CheckCooldown, CheckLimit, IntendReminder
<1>3. /\ run[r].day \in Days /\ run[r].result # "sent" /\ \A u \in run[r].trigger : u = t
  BY <1>2 DEF RemindersPart, RunsFit
<1>4. /\ log' \in [Triggers -> [Days -> {"none", "skipped", "failed", "sent"}]]
      /\ \A u \in Triggers \ {t} : LoggedSent(u)' <=> LoggedSent(u)
  <2>1. CASE UNCHANGED log
    BY <1>1, <2>1 DEF LoggedSent
  <2>2. CASE IntendReminder(r, t)
    <3>1. PICK day \in Days : day = run[r].day
      BY <1>3
    <3>2. log' = [log EXCEPT ![t][day] = "skipped"]
      BY <2>2, <3>1 DEF IntendReminder, Write
    <3>3. QED
      BY <3>2, LogWritten
  <2>3. QED
    BY <2>1, <2>2 DEF CheckCooldown, CheckLimit
<1>5. CASE run' = [run EXCEPT ![r] = NotRunning]
  <2>1. missed' \in [Triggers -> Nat] /\ \A u \in Triggers : missed[u] <= missed'[u]
    BY <1>1, <1>2
  <2>2. \A u \in Triggers \ run[r].trigger : LoggedSent(u)' <=> LoggedSent(u)
    BY <1>2, <1>4
  <2>3. run' \in [Runs -> RunRow] /\ RemindersPart'
    BY <1>2, <1>3, <1>5, <2>1, <2>2, RunEnds
  <2>4. QED
    BY <1>4, <2>3
<1>6. ASSUME NEW pc \in {"limit", "skip", "intend", "send"},
             run' = [run EXCEPT ![r] = [run[r] EXCEPT !.pc = pc]]
      PROVE  run' \in [Runs -> RunRow] /\ RemindersPart'
  <2>1. [run[r] EXCEPT !.pc = pc] \in RunRow
    BY <1>1 DEF RunRow
  <2>2. /\ run' \in [Runs -> RunRow] /\ run'[r].pc = pc
        /\ \A q \in Runs : /\ run'[q].trigger = run[q].trigger /\ run'[q].result = run[q].result
                           /\ run'[q].day = run[q].day
        /\ \A q \in Runs \ {r} : run'[q].pc = run[q].pc
    BY <1>1, <1>6, <2>1 DEF RunRow
  <2>3. RunsFit'
    BY <1>2, <1>3, <2>2 DEF RemindersPart, RunsFit
  <2>4. \A u \in Triggers : AtWork(u) \/ (LoggedSent(u) => LoggedSent(u)')
    BY <1>2, <1>4 DEF AtWork
  <2>5. RemindersPart'
    BY <1>2, <2>2, <2>3, <2>4, RunsGoOn
  <2>6. QED
    BY <2>2, <2>5
<1>7. \/ run' = [run EXCEPT ![r] = NotRunning]
      \/ \E pc \in {"limit", "skip", "intend", "send"} :
           run' = [run EXCEPT ![r] = [run[r] EXCEPT !.pc = pc]]
  <2>1. CASE CheckCooldown(r, t)
    BY <2>1 DEF CheckCooldown
  <2>2. CASE CheckLimit(r, t, target)
    <3>1. \E pc \in {"skip", "intend"} : run' = [run EXCEPT ![r].pc = pc]
      BY <2>2 DEF CheckLimit
    <3>2. QED
      BY <1>1, <3>1
  <2>3. CASE IntendReminder(r, t)
    BY <1>1, <2>3 DEF IntendReminder
  <2>4. QED
    BY <2>1, <2>2, <2>3
<1>8. QED
  BY <1>4, <1>5, <1>6, <1>7

(* Every step of the reminders keeps the invariant. *)
LEMMA RemindersKeep == RemindersInv /\ [RemindersNext]_reminderVars => RemindersInv'
<1> SUFFICES ASSUME RemindersInv, [RemindersNext]_reminderVars PROVE RemindersInv'
  OBVIOUS
<1> USE RemindersAssumption
<1> DEFINE Same == UNCHANGED <<log, run, messages, missed, overlaps>>
<1>1. RemindersTypeOK /\ RemindersPart
  BY DEF RemindersInv, RemindersPart
<1>2. /\ today \in Days /\ cooling \subseteq Triggers
      /\ overlaps \in [Triggers -> 0..MaxOverlaps]
      /\ log \in [Triggers -> [Days -> {"none", "skipped", "failed", "sent"}]]
      /\ run \in [Runs -> RunRow] /\ messages \in [Triggers -> Nat]
      /\ missed \in [Triggers -> Nat]
      /\ attempts \in 0..MaxAttempts /\ reminderFaults \in 0..MaxReminderFaults
  BY <1>1 DEF RemindersTypeOK, RunRow
<1>3. ASSUME Same, today' \in Days, cooling' \subseteq Triggers, UNCHANGED <<attempts, reminderFaults>>
      PROVE  RemindersInv'
  <2>1. RunsFit'
    BY <1>1, <1>3 DEF RemindersPart, RunsFit
  <2>2. \A u \in Triggers : LoggedSent(u) => LoggedSent(u)'
    BY <1>3 DEF LoggedSent
  <2>3. RemindersPart'
    BY <1>1, <1>3, <2>1, <2>2, RunsGoOn
  <2>4. QED
    BY <1>1, <1>3, <2>3 DEF RemindersInv, RemindersPart, RemindersTypeOK
<1>4. CASE UNCHANGED reminderVars \/ NextDay
  <2>1. Same /\ UNCHANGED <<cooling, attempts, reminderFaults>> /\ today' \in Days
    BY <1>2, <1>4 DEF NextDay, reminderVars, Days
  <2>2. QED
    BY <1>2, <1>3, <2>1
<1>5. ASSUME NEW t \in Triggers, CooldownEnds(t) PROVE RemindersInv'
  <2>1. Same /\ UNCHANGED <<today, attempts, reminderFaults>> /\ cooling' \subseteq Triggers
    BY <1>2, <1>5 DEF CooldownEnds
  <2>2. QED
    BY <1>2, <1>3, <2>1
<1>6. ASSUME NEW r \in Runs, NEW t \in Triggers, NEW day \in Days, CheckDuplicate(r, t, day)
      PROVE  RemindersInv'
  <2>1. UNCHANGED <<today, log, cooling, messages, missed, attempts, reminderFaults>>
    BY <1>6 DEF CheckDuplicate
  <2>2. /\ run' \in [Runs -> RunRow] /\ overlaps' \in [Triggers -> 0..MaxOverlaps]
        /\ RemindersPart'
    BY <1>1, <1>6, RemindersCheck
  <2>3. QED
    BY <1>1, <2>1, <2>2 DEF RemindersInv, RemindersPart, RemindersTypeOK, RunRow
<1>7. ASSUME NEW r \in Runs, NEW t \in Triggers, NEW target \in BOOLEAN,
             CheckCooldown(r, t) \/ CheckLimit(r, t, target) \/ IntendReminder(r, t)
      PROVE  RemindersInv'
  <2>1. UNCHANGED <<today, messages, missed, overlaps, reminderFaults>>
    BY <1>7 DEF CheckCooldown, CheckLimit, IntendReminder
  <2>2. cooling' \subseteq Triggers
    BY <1>2, <1>7 DEF CheckCooldown, CheckLimit, IntendReminder, Write
  <2>3. attempts' \in 0..MaxAttempts
    <3>1. attempts' = attempts \/ (attempts < MaxAttempts /\ attempts' = attempts + 1)
      BY <1>7 DEF CheckCooldown, CheckLimit, IntendReminder
    <3>2. QED
      BY <1>2, <3>1
  <2>4. /\ run' \in [Runs -> RunRow] /\ RemindersPart'
        /\ log' \in [Triggers -> [Days -> {"none", "skipped", "failed", "sent"}]]
    BY <1>1, <1>7, RemindersProceed
  <2>5. QED
    BY <1>1, <2>1, <2>2, <2>3, <2>4 DEF RemindersInv, RemindersPart, RemindersTypeOK, RunRow
<1>8. ASSUME NEW r \in Runs, NEW t \in Triggers, NEW arrived \in BOOLEAN,
             NEW result \in {"sent", "failed"}, SendReminder(r, t, arrived, result)
      PROVE  RemindersInv'
  <2>1. UNCHANGED <<today, log, cooling, overlaps, attempts>>
    BY <1>8 DEF SendReminder
  <2>2. /\ run' \in [Runs -> RunRow] /\ messages' \in [Triggers -> Nat]
        /\ missed' \in [Triggers -> Nat] /\ reminderFaults' \in 0..MaxReminderFaults
        /\ RemindersPart'
    BY <1>1, <1>8, RemindersSend
  <2>3. QED
    BY <1>1, <2>1, <2>2 DEF RemindersInv, RemindersPart, RemindersTypeOK, RunRow
<1>9. ASSUME NEW r \in Runs,
             RunDies(r) \/ \E t \in Triggers : RecordReminder(r, t) \/ SkipReminder(r, t)
      PROVE  RemindersInv'
  <2>1. /\ UNCHANGED <<today, messages, overlaps, attempts>>
        /\ cooling' \subseteq Triggers
    BY <1>2, <1>9 DEF RunDies, RecordReminder, SkipReminder, Write
  <2>2. /\ run' \in [Runs -> RunRow] /\ missed' \in [Triggers -> Nat]
        /\ log' \in [Triggers -> [Days -> {"none", "skipped", "failed", "sent"}]]
        /\ reminderFaults' \in 0..MaxReminderFaults /\ RemindersPart'
    BY <1>1, <1>9, RemindersEnd
  <2>3. QED
    BY <1>1, <2>1, <2>2 DEF RemindersInv, RemindersPart, RemindersTypeOK, RunRow
<1>10. QED
  BY <1>4, <1>5, <1>6, <1>7, <1>8, <1>9 DEF RemindersNext

-----------------------------------------------------------------------------
(* Messages about a purchase and offers. *)

EventRow == [status: PendingEvents \cup Reserved \cup {"failed"}, claimed: Ages]
RunnerRow == [pc: {"idle", "check", "call", "record"}, event: SUBSET Events,
              result: {"none", "sent", "failed", "uncertain"}]

OutreachPart == OneEventEach /\ ReservedForOne /\ ReachedIsReserved /\ OneReservationADay

ClaimedToday(e) == event[e].status \in Reserved /\ event[e].claimed \in Today

(* At first nothing is reserved. *)
LEMMA OutreachStart == OutreachInit => OutreachInv
<1> SUFFICES ASSUME OutreachInit PROVE OutreachInv
  OBVIOUS
<1> USE OutreachAssumption
<1>1. /\ Waiting \in RunnerRow /\ Waiting.event = {}
      /\ [status |-> "none", claimed |-> "none"] \in EventRow
  BY DEF Waiting, RunnerRow, EventRow, Ages, PendingEvents
<1>2. OutreachTypeOK
  BY <1>1 DEF OutreachInit, OutreachTypeOK, RunnerRow, EventRow, Ages
<1>3. OneEventEach /\ ReservedForOne /\ ReachedIsReserved
  BY <1>1 DEF OutreachInit, OneEventEach, ReservedForOne, ReachedIsReserved
<1>4. OneReservationADay
  BY DEF OutreachInit, OneReservationADay, Reserved
<1>5. QED
  BY <1>2, <1>3, <1>4 DEF OutreachInv

(* Nothing counted, nothing there. *)
LEMMA NoneCounted ==
  ASSUME NEW S \in SUBSET Events, ~(Count(S, Today) > 0)
  PROVE  \A e \in S : ~ClaimedToday(e)
<1> DEFINE T == {e \in S : event[e].status \in Reserved /\ event[e].claimed \in Today}
<1>1. IsFiniteSet(T)
  BY OutreachAssumption, FS_Subset
<1>2. Cardinality(T) \in Nat /\ ~(Cardinality(T) > 0)
  BY <1>1, FS_CardinalityType DEF Count
<1>3. T = {}
  BY <1>1, <1>2, FS_EmptySet
<1>4. QED
  BY <1>3 DEF ClaimedToday

(* A write to the status of one event. *)
LEMMA StatusWritten ==
  ASSUME OutreachTypeOK, NEW e \in Events,
         NEW s \in PendingEvents \cup Reserved \cup {"failed"},
         event' = [event EXCEPT ![e].status = s]
  PROVE  /\ event' \in [Events -> EventRow]
         /\ event'[e].status = s /\ event'[e].claimed = event[e].claimed
         /\ \A f \in Events \ {e} : event'[f] = event[f]
<1>1. event \in [Events -> EventRow] /\ event[e] \in EventRow
  BY DEF OutreachTypeOK, EventRow
<1>2. /\ event' = [event EXCEPT ![e] = [event[e] EXCEPT !.status = s]]
      /\ [event[e] EXCEPT !.status = s] \in EventRow
      /\ [event[e] EXCEPT !.status = s].status = s
      /\ [event[e] EXCEPT !.status = s].claimed = event[e].claimed
  BY <1>1 DEF EventRow
<1>3. QED
  BY <1>1, <1>2

(* A step of a runner that replaces its row. *)
LEMMA RunnerWritten ==
  ASSUME OutreachTypeOK, NEW w \in Runners, NEW row \in RunnerRow,
         runner' = [runner EXCEPT ![w] = row]
  PROVE  /\ runner' \in [Runners -> RunnerRow] /\ runner'[w] = row
         /\ \A v \in Runners \ {w} : runner'[v] = runner[v]
<1>1. runner \in [Runners -> RunnerRow]
  BY DEF OutreachTypeOK, RunnerRow
<1>2. QED
  BY <1>1

(* Which events have claimed their customer's day, and the offers. *)
LEMMA DayKept ==
  ASSUME OneReservationADay, UNCHANGED offer, crossed \subseteq crossed',
         \A e \in Events : ClaimedToday(e)' => ClaimedToday(e)
  PROVE  OneReservationADay'
BY DEF OneReservationADay, ClaimedToday

(* A step on one event that nobody has reserved. *)
LEMMA PendingWritten ==
  ASSUME OutreachTypeOK, OutreachPart, NEW e \in Events,
         event[e].status \notin Reserved, event'[e].status \notin Reserved,
         \A f \in Events \ {e} : event'[f] = event[f],
         UNCHANGED <<runner, reached, overwritten, offer, crossed>>
  PROVE  OutreachPart'
<1>1. OneEventEach'
  BY DEF OutreachPart, OneEventEach
<1>2. ReservedForOne'
  BY DEF OutreachPart, ReservedForOne, Reserved, OutreachTypeOK
<1>3. ReachedIsReserved'
  BY DEF OutreachPart, ReachedIsReserved, OutreachTypeOK
<1>4. OneReservationADay'
  BY DayKept DEF OutreachPart, ClaimedToday
<1>5. QED
  BY <1>1, <1>2, <1>3, <1>4 DEF OutreachPart

(* prepare_store touches only what is pending. *)
LEMMA OutreachPrepare ==
  ASSUME OutreachTypeOK, OutreachPart, NEW e \in Events, Prepare(e)
  PROVE  event' \in [Events -> EventRow] /\ OutreachPart'
<1>1. PICK s \in {"ready", "preview", "cancelled"} : event' = [event EXCEPT ![e].status = s]
  BY DEF Prepare
<1>2. s \in PendingEvents /\ s \notin Reserved /\ event[e].status \notin Reserved
  BY <1>1 DEF Prepare, PendingEvents, Reserved
<1>3. /\ event' \in [Events -> EventRow] /\ event'[e].status = s
      /\ \A f \in Events \ {e} : event'[f] = event[f]
  BY <1>1, <1>2, StatusWritten
<1>4. UNCHANGED <<runner, reached, overwritten, offer, crossed>>
  BY DEF Prepare
<1>5. QED
  BY <1>2, <1>3, <1>4, PendingWritten

(* A claim grows older. *)
LEMMA OutreachClaimAges ==
  ASSUME OutreachTypeOK, OutreachPart, NEW e \in Events, ClaimAges(e)
  PROVE  event' \in [Events -> EventRow] /\ OutreachPart'
<1>1. event \in [Events -> EventRow] /\ event[e] \in EventRow
  BY DEF OutreachTypeOK, EventRow
<1>2. PICK age \in {"day", "week", "old"} :
        /\ event' = [event EXCEPT ![e].claimed = age]
        /\ age = "day" => event[e].claimed = "minutes"
  <2>1. event' = [event EXCEPT ![e].claimed = Older(event[e].claimed)]
    BY <1>1 DEF ClaimAges
  <2>2. event[e].claimed \in {"minutes", "day", "week"}
    BY DEF ClaimAges, Today
  <2>3. CASE event[e].claimed = "minutes"
    BY <2>1, <2>3 DEF Older
  <2>4. CASE event[e].claimed = "day"
    BY <2>1, <2>4 DEF Older
  <2>5. CASE event[e].claimed = "week"
    BY <2>1, <2>5 DEF Older
  <2>6. QED
    BY <2>2, <2>3, <2>4, <2>5
<1>3. /\ event' = [event EXCEPT ![e] = [event[e] EXCEPT !.claimed = age]]
      /\ [event[e] EXCEPT !.claimed = age] \in EventRow
      /\ [event[e] EXCEPT !.claimed = age].status = event[e].status
      /\ [event[e] EXCEPT !.claimed = age].claimed = age
  BY <1>1, <1>2 DEF EventRow, Ages
<1>4. /\ event' \in [Events -> EventRow] /\ event'[e].claimed = age
      /\ \A f \in Events : event'[f].status = event[f].status
      /\ \A f \in Events \ {e} : event'[f] = event[f]
  BY <1>1, <1>3
<1>5. UNCHANGED <<runner, reached, overwritten, offer, crossed>>
  BY DEF ClaimAges
<1>6. \A f \in Events : ClaimedToday(f)' => ClaimedToday(f)
  BY <1>2, <1>4 DEF ClaimedToday, Today
<1>7. OneReservationADay'
  BY <1>5, <1>6, DayKept DEF OutreachPart
<1>8. OneEventEach'
  BY <1>5 DEF OutreachPart, OneEventEach
<1>9. \A w \in Runners : runner[w].event \subseteq Events
  BY DEF OutreachTypeOK
<1>10. ReservedForOne' /\ ReachedIsReserved'
  BY <1>4, <1>5, <1>9 DEF OutreachPart, ReservedForOne, ReachedIsReserved
<1>11. QED
  BY <1>4, <1>7, <1>8, <1>10 DEF OutreachPart

(* reserve claims the day of a customer who has none, or drops the event. *)
LEMMA OutreachReserve ==
  ASSUME OutreachTypeOK, OutreachPart, NEW w \in Runners, NEW e \in Events, Reserve(w, e)
  PROVE  /\ event' \in [Events -> EventRow] /\ runner' \in [Runners -> RunnerRow]
         /\ reservations' \in 0..MaxReservations /\ OutreachPart'
<1> USE OutreachAssumption
<1>1. /\ event \in [Events -> EventRow] /\ event[e] \in EventRow
      /\ runner \in [Runners -> RunnerRow] /\ reservations \in 0..MaxReservations
      /\ \A v \in Runners : runner[v].event \subseteq Events
  BY DEF OutreachTypeOK, EventRow, RunnerRow
<1>2. event[e].status = "ready" /\ UNCHANGED <<reached, overwritten, offer, crossed>>
  BY DEF Reserve
<1>3. event[e].status \notin Reserved
  BY <1>2 DEF Reserved
<1>4. CASE event' = [event EXCEPT ![e].status = "cancelled"] /\ UNCHANGED <<runner, reservations>>
  <2>1. "cancelled" \in PendingEvents /\ "cancelled" \notin Reserved
    BY DEF PendingEvents, Reserved
  <2>2. /\ event' \in [Events -> EventRow] /\ event'[e].status = "cancelled"
        /\ \A f \in Events \ {e} : event'[f] = event[f]
    BY <1>4, <2>1, StatusWritten
  <2>3. OutreachPart'
    BY <1>2, <1>3, <1>4, <2>1, <2>2, PendingWritten
  <2>4. QED
    BY <1>1, <1>4, <2>2, <2>3
<1>5. CASE /\ e \in eligible /\ ~Suppressed(e) /\ reservations < MaxReservations
           /\ reservations' = reservations + 1
           /\ event' = [event EXCEPT ![e] = [status |-> "sending", claimed |-> "minutes"]]
           /\ runner' = [runner EXCEPT ![w] = [Waiting EXCEPT !.pc = "check", !.event = {e}]]
  <2> DEFINE row == [Waiting EXCEPT !.pc = "check", !.event = {e}]
             c == CustomerOf[e]
             personal == {f \in Events \ {e} : CustomerOf[f] = c}
  <2>1. PICK new \in RunnerRow : new = row /\ new.event = {e} /\ new.pc = "check"
    <3>1. row \in RunnerRow /\ row.event = {e} /\ row.pc = "check"
      BY DEF Waiting, RunnerRow
    <3>2. QED
      BY <3>1
  <2>2. /\ runner' \in [Runners -> RunnerRow]
        /\ runner'[w].event = {e} /\ runner'[w].pc = "check"
        /\ \A v \in Runners \ {w} : runner'[v] = runner[v]
    BY <1>5, <2>1, RunnerWritten
  <2>3. [status |-> "sending", claimed |-> "minutes"] \in EventRow
    BY DEF EventRow, Ages, Reserved
  <2>4. /\ event' \in [Events -> EventRow] /\ event'[e].status = "sending"
        /\ \A f \in Events \ {e} : event'[f] = event[f]
    BY <1>1, <1>5, <2>3
  <2>5. ~(Count(personal, Today) > 0) /\ offer[c] \notin Today
    BY <1>5 DEF Suppressed
  <2>6. personal \in SUBSET Events
    OBVIOUS
  <2>7. \A f \in Events \ {e} : CustomerOf[f] = c => ~ClaimedToday(f)
    BY <2>5, <2>6, NoneCounted
  <2>8. OneEventEach'
    BY <2>2 DEF OutreachPart, OneEventEach
  <2>9. e \notin overwritten => reached[e] = 0 /\ \A v \in Runners : e \notin runner[v].event
    BY <1>2 DEF OutreachPart, ReservedForOne, ReachedIsReserved, Reserved, OutreachTypeOK
  <2>10. ReservedForOne'
    BY <1>1, <1>2, <2>2, <2>4, <2>9 DEF OutreachPart, ReservedForOne
  <2>11. ReachedIsReserved'
    BY <1>1, <1>2, <2>2, <2>4, <2>9 DEF OutreachPart, ReachedIsReserved
  <2>12. \A f \in Events \ {e} : ClaimedToday(f)' <=> ClaimedToday(f)
    BY <2>4 DEF ClaimedToday
  <2>13. OneReservationADay'
    BY <1>2, <2>5, <2>7, <2>12 DEF OutreachPart, OneReservationADay, ClaimedToday
  <2>14. reservations' \in 0..MaxReservations
    BY <1>1, <1>5
  <2>15. QED
    BY <2>2, <2>4, <2>8, <2>10, <2>11, <2>13, <2>14 DEF OutreachPart
<1>6. QED
  BY <1>4, <1>5 DEF Reserve

(* The rows of a runner that goes on with its event, or stops. *)
LEMMA RunnerRows ==
  ASSUME OutreachTypeOK, NEW w \in Runners
  PROVE  /\ Waiting \in RunnerRow /\ Waiting.event = {}
         /\ [runner[w] EXCEPT !.pc = "call"] \in RunnerRow
         /\ [runner[w] EXCEPT !.pc = "call"].event = runner[w].event
         /\ [runner[w] EXCEPT !.pc = "call"].pc = "call"
<1>1. runner[w] \in RunnerRow
  BY DEF OutreachTypeOK, RunnerRow
<1>2. QED
  BY <1>1 DEF Waiting, RunnerRow

(* A runner stops with its event; what it wrote stays reserved, or nothing *)
(* has arrived.                                                            *)
LEMMA RunnerStops ==
  ASSUME OutreachTypeOK, OutreachPart, NEW w \in Runners,
         runner' = [runner EXCEPT ![w] = Waiting],
         UNCHANGED <<reached, overwritten, offer, crossed>>,
         event' \in [Events -> EventRow],
         \A e \in Events : event'[e] = event[e] \/
            /\ e \in runner[w].event /\ event[e].status = "sending"
            /\ event'[e].claimed = event[e].claimed
            /\ e \in overwritten \/ reached[e] = 0 \/ event'[e].status \in Reserved
  PROVE  runner' \in [Runners -> RunnerRow] /\ OutreachPart'
<1>1. /\ Waiting.event = {} /\ runner' \in [Runners -> RunnerRow] /\ runner'[w] = Waiting
      /\ \A v \in Runners \ {w} : runner'[v] = runner[v]
      /\ \A v \in Runners : runner[v].event \subseteq Events
  BY RunnerRows, RunnerWritten DEF OutreachTypeOK
<1>2. OneEventEach'
  BY <1>1 DEF OutreachPart, OneEventEach
<1>3. ReservedForOne'
  BY <1>1 DEF OutreachPart, ReservedForOne
<1>4. ReachedIsReserved'
  BY <1>1 DEF OutreachPart, ReachedIsReserved, OutreachTypeOK
<1>5. \A e \in Events : ClaimedToday(e)' => ClaimedToday(e)
  BY DEF ClaimedToday, Reserved
<1>6. OneReservationADay'
  BY <1>5, DayKept DEF OutreachPart
<1>7. QED
  BY <1>1, <1>2, <1>3, <1>4, <1>6 DEF OutreachPart

(* The runner looks again: it goes on, or cancels what it has not sent. *)
LEMMA OutreachRevalidate ==
  ASSUME OutreachTypeOK, OutreachPart, NEW w \in Runners, NEW e \in Events, Revalidate(w, e)
  PROVE  /\ event' \in [Events -> EventRow] /\ runner' \in [Runners -> RunnerRow]
         /\ OutreachPart'
<1>1. /\ event \in [Events -> EventRow] /\ runner \in [Runners -> RunnerRow]
      /\ \A v \in Runners : runner[v].event \subseteq Events
  BY DEF OutreachTypeOK, EventRow, RunnerRow
<1>2. /\ runner[w].pc = "check" /\ e \in runner[w].event
      /\ UNCHANGED <<reached, overwritten, offer, crossed>>
  BY DEF Revalidate
<1>3. e \notin overwritten => reached[e] = 0
  BY <1>2 DEF OutreachPart, ReachedIsReserved, OutreachTypeOK
<1>4. CASE runner' = [runner EXCEPT ![w].pc = "call"] /\ UNCHANGED event
  <2>1. PICK new \in RunnerRow : /\ new = [runner[w] EXCEPT !.pc = "call"]
                                 /\ new.event = runner[w].event /\ new.pc = "call"
    BY RunnerRows
  <2>2. /\ runner' \in [Runners -> RunnerRow]
        /\ \A v \in Runners : runner'[v].event = runner[v].event
        /\ \A v \in Runners \ {w} : runner'[v] = runner[v]
    BY <1>1, <1>4, <2>1, RunnerWritten
  <2>3. OneEventEach' /\ ReservedForOne'
    BY <1>2, <1>4, <2>2 DEF OutreachPart, OneEventEach, ReservedForOne
  <2>4. ASSUME NEW f \in Events \ overwritten
        PROVE  /\ reached[f] <= 1
               /\ reached[f] > 0 =>
                    /\ event[f].status \in Reserved
                    /\ \A v \in Runners : f \in runner'[v].event =>
                         runner'[v].pc = "record" /\ runner'[v].result \in {"sent", "uncertain"}
    <3>1. f \in runner[w].event => f = e
      BY <1>2 DEF OutreachPart, OneEventEach
    <3>2. f \in runner[w].event => ~(reached[f] > 0)
      BY <1>3, <3>1 DEF OutreachTypeOK
    <3>3. QED
      BY <2>2, <3>2 DEF OutreachPart, ReachedIsReserved
  <2>5. ReachedIsReserved'
    BY <1>2, <1>4, <2>4 DEF ReachedIsReserved
  <2>6. OneReservationADay'
    BY <1>2, <1>4, DayKept DEF OutreachPart, ClaimedToday
  <2>7. QED
    BY <1>1, <1>4, <2>2, <2>3, <2>5, <2>6 DEF OutreachPart
<1>5. CASE /\ event' = [event EXCEPT ![e].status = IF @ = "sending" THEN "cancelled" ELSE @]
           /\ runner' = [runner EXCEPT ![w] = Waiting]
  <2>1. PICK s \in PendingEvents \cup Reserved \cup {"failed"} :
          /\ s = IF event[e].status = "sending" THEN "cancelled" ELSE event[e].status
    BY <1>1 DEF EventRow, PendingEvents
  <2>2. event' = [event EXCEPT ![e].status = s]
    BY <1>1, <1>5, <2>1
  <2>3. /\ event' \in [Events -> EventRow]
        /\ event'[e].status = s /\ event'[e].claimed = event[e].claimed
        /\ \A f \in Events \ {e} : event'[f] = event[f]
    BY <2>2, StatusWritten
  <2>4. event[e].status # "sending" => event'[e] = event[e]
    BY <1>1, <2>1, <2>2 DEF EventRow
  <2>5. runner' \in [Runners -> RunnerRow] /\ OutreachPart'
    BY <1>2, <1>3, <1>5, <2>3, <2>4, RunnerStops
  <2>6. QED
    BY <2>3, <2>5
<1>6. QED
  BY <1>4, <1>5 DEF Revalidate

(* A message goes out for an event that has not had one. *)
LEMMA OutreachSend ==
  ASSUME OutreachTypeOK, OutreachPart, NEW w \in Runners, NEW e \in Events,
         NEW answer \in {"acknowledged", "rejected", "lost"}, NEW arrived \in BOOLEAN,
         Send(w, e, answer, arrived)
  PROVE  /\ reached' \in [Events -> Nat] /\ runner' \in [Runners -> RunnerRow]
         /\ OutreachPart'
<1>1. /\ reached \in [Events -> Nat] /\ runner \in [Runners -> RunnerRow]
      /\ runner[w] \in RunnerRow /\ \A v \in Runners : runner[v].event \subseteq Events
  BY DEF OutreachTypeOK, RunnerRow
<1>2. /\ runner[w].pc = "call" /\ e \in runner[w].event
      /\ (answer = "acknowledged" => arrived) /\ (answer = "rejected" => ~arrived)
      /\ runner' = [runner EXCEPT ![w].pc = "record", ![w].result = ResultOf(answer)]
      /\ reached' = [reached EXCEPT ![e] = @ + IF arrived THEN 1 ELSE 0]
      /\ UNCHANGED <<event, overwritten, offer, crossed>>
  BY DEF Send
<1>3. PICK result \in {"sent", "failed", "uncertain"} :
         result = ResultOf(answer) /\ (arrived => result # "failed")
  BY <1>2 DEF ResultOf
<1>4. PICK new \in RunnerRow :
        /\ new = [runner[w] EXCEPT !.pc = "record", !.result = result]
        /\ new.pc = "record" /\ new.result = result /\ new.event = runner[w].event
  <2> DEFINE row == [runner[w] EXCEPT !.pc = "record", !.result = result]
  <2>1. row \in RunnerRow
    BY <1>1 DEF RunnerRow
  <2>2. row.pc = "record" /\ row.result = result /\ row.event = runner[w].event
    BY <1>1 DEF RunnerRow
  <2>3. QED
    BY <2>1, <2>2
<1>5. runner' = [runner EXCEPT ![w] = new]
  BY <1>1, <1>2, <1>3, <1>4 DEF RunnerRow
<1>6. /\ runner' \in [Runners -> RunnerRow] /\ runner'[w] = new
      /\ \A v \in Runners \ {w} : runner'[v] = runner[v]
      /\ \A v \in Runners : runner'[v].event = runner[v].event
  BY <1>4, <1>5, RunnerWritten
<1>7. PICK k \in {0, 1} : k = (IF arrived THEN 1 ELSE 0)
  OBVIOUS
<1>8. /\ reached' \in [Events -> Nat] /\ reached'[e] = reached[e] + k
      /\ \A f \in Events \ {e} : reached'[f] = reached[f]
  BY <1>1, <1>2, <1>7
<1>9. OneEventEach' /\ ReservedForOne'
  BY <1>2, <1>6 DEF OutreachPart, OneEventEach, ReservedForOne
<1>10. e \notin overwritten => /\ reached[e] = 0 /\ event[e].status \in Reserved
                               /\ \A v \in Runners \ {w} : e \notin runner[v].event
  BY <1>1, <1>2 DEF OutreachPart, ReservedForOne, ReachedIsReserved, Reserved
<1>11. ASSUME NEW f \in Events \ overwritten
       PROVE  /\ reached'[f] <= 1
              /\ reached'[f] > 0 =>
                   /\ event[f].status \in Reserved
                   /\ \A v \in Runners : f \in runner[v].event =>
                        runner'[v].pc = "record" /\ runner'[v].result \in {"sent", "uncertain"}
  <2>1. CASE f = e
    <3>1. reached'[f] = k /\ (k > 0 => arrived)
      BY <1>7, <1>8, <1>10, <2>1
    <3>2. event[f].status \in Reserved /\ \A v \in Runners : f \in runner[v].event => v = w
      BY <1>10, <2>1
    <3>3. arrived => runner'[w].pc = "record" /\ runner'[w].result \in {"sent", "uncertain"}
      BY <1>3, <1>4, <1>6
    <3>4. QED
      BY <3>1, <3>2, <3>3
  <2>2. CASE f # e
    <3>1. f \notin runner[w].event
      BY <1>2, <2>2 DEF OutreachPart, OneEventEach
    <3>2. QED
      BY <1>6, <1>8, <2>2, <3>1 DEF OutreachPart, ReachedIsReserved
  <2>3. QED
    BY <2>1, <2>2
<1>12. ReachedIsReserved'
  BY <1>2, <1>6, <1>11 DEF ReachedIsReserved
<1>13. OneReservationADay'
  BY <1>2, DayKept DEF OutreachPart, ClaimedToday
<1>14. QED
  BY <1>6, <1>8, <1>9, <1>12, <1>13 DEF OutreachPart

(* A result is recorded, or the runner dies. *)
LEMMA OutreachEnd ==
  ASSUME OutreachTypeOK, OutreachPart, NEW w \in Runners,
         RunnerDies(w) \/ \E e \in Events : RecordResult(w, e)
  PROVE  /\ event' \in [Events -> EventRow] /\ runner' \in [Runners -> RunnerRow]
         /\ OutreachPart'
<1>1. event \in [Events -> EventRow] /\ runner \in [Runners -> RunnerRow]
  BY DEF OutreachTypeOK, EventRow, RunnerRow
<1>2. /\ runner' = [runner EXCEPT ![w] = Waiting]
      /\ UNCHANGED <<reached, overwritten, offer, crossed>>
  BY DEF RunnerDies, RecordResult
<1>3. CASE RunnerDies(w)
  <2>1. UNCHANGED event
    BY <1>3 DEF RunnerDies
  <2>2. QED
    BY <1>1, <1>2, <2>1, RunnerStops
<1>4. ASSUME NEW e \in Events, RecordResult(w, e)
      PROVE  event' \in [Events -> EventRow] /\ runner' \in [Runners -> RunnerRow] /\ OutreachPart'
  <2>1. /\ e \in runner[w].event
        /\ event' = [event EXCEPT ![e].status = IF @ = "sending" THEN runner[w].result ELSE @]
    BY <1>4 DEF RecordResult
  <2>2. PICK s \in PendingEvents \cup Reserved \cup {"failed"} :
          s = IF event[e].status = "sending" THEN runner[w].result ELSE event[e].status
    BY <1>1 DEF EventRow, RunnerRow, PendingEvents, Reserved
  <2>3. event' = [event EXCEPT ![e].status = s]
    BY <1>1, <2>1, <2>2
  <2>4. /\ event' \in [Events -> EventRow]
        /\ event'[e].status = s /\ event'[e].claimed = event[e].claimed
        /\ \A f \in Events \ {e} : event'[f] = event[f]
    BY <2>3, StatusWritten
  <2>5. event[e].status # "sending" => event'[e] = event[e]
    BY <1>1, <2>2, <2>3 DEF EventRow
  <2>6. event[e].status = "sending" =>
          e \in overwritten \/ reached[e] = 0 \/ event'[e].status \in Reserved
    BY <2>1, <2>2, <2>4 DEF OutreachPart, ReachedIsReserved, Reserved, OutreachTypeOK
  <2>7. runner' \in [Runners -> RunnerRow] /\ OutreachPart'
    <3>1. \A f \in Events : event'[f] = event[f] \/
             /\ f \in runner[w].event /\ event[f].status = "sending"
             /\ event'[f].claimed = event[f].claimed
             /\ f \in overwritten \/ reached[f] = 0 \/ event'[f].status \in Reserved
      BY <2>1, <2>4, <2>5, <2>6
    <3>2. QED
      BY <1>2, <2>4, <3>1, RunnerStops
  <2>8. QED
    BY <2>4, <2>7
<1>5. QED
  BY <1>3, <1>4

(* Interrupted sends become uncertain, which is as good as reserved. *)
LEMMA OutreachInterrupted ==
  ASSUME OutreachTypeOK, OutreachPart, MarkInterrupted
  PROVE  event' \in [Events -> EventRow] /\ OutreachPart'
<1> DEFINE stuck == {e \in Events : event[e].status = "sending" /\ event[e].claimed # "minutes"}
           new(e) == IF e \in stuck THEN [event[e] EXCEPT !.status = "uncertain"] ELSE event[e]
<1>1. /\ event \in [Events -> EventRow] /\ event' = [e \in Events |-> new(e)]
      /\ UNCHANGED <<runner, reached, overwritten, offer, crossed>>
  BY DEF OutreachTypeOK, EventRow, MarkInterrupted
<1>2. ASSUME NEW e \in Events
      PROVE  /\ new(e) \in EventRow /\ new(e).claimed = event[e].claimed
             /\ new(e).status = event[e].status
                \/ (event[e].status = "sending" /\ new(e).status = "uncertain")
  <2>1. event[e] \in EventRow
    BY <1>1
  <2>2. /\ [event[e] EXCEPT !.status = "uncertain"] \in EventRow
        /\ [event[e] EXCEPT !.status = "uncertain"].claimed = event[e].claimed
        /\ [event[e] EXCEPT !.status = "uncertain"].status = "uncertain"
    BY <2>1 DEF EventRow, Reserved
  <2>3. QED
    BY <2>1, <2>2
<1> HIDE DEF new
<1>3. /\ event' \in [Events -> EventRow]
      /\ \A e \in Events : /\ event'[e].claimed = event[e].claimed
                           /\ \/ event'[e].status = event[e].status
                              \/ event[e].status = "sending" /\ event'[e].status = "uncertain"
  BY <1>1, <1>2
<1>4. \A w \in Runners : runner[w].event \subseteq Events
  BY DEF OutreachTypeOK
<1>5. OneEventEach'
  BY <1>1 DEF OutreachPart, OneEventEach
<1>6. ReservedForOne'
  BY <1>1, <1>3, <1>4 DEF OutreachPart, ReservedForOne
<1>7. ReachedIsReserved'
  BY <1>1, <1>3 DEF OutreachPart, ReachedIsReserved, Reserved
<1>8. \A e \in Events : ClaimedToday(e)' => ClaimedToday(e)
  BY <1>3 DEF ClaimedToday, Reserved
<1>9. OneReservationADay'
  BY <1>1, <1>8, DayKept DEF OutreachPart
<1>10. QED
  BY <1>3, <1>5, <1>6, <1>7, <1>9 DEF OutreachPart

(* A retry that overwrites a reservation is known as one. *)
LEMMA OutreachRetry ==
  ASSUME OutreachTypeOK, OutreachPart, NEW o \in Owners, NEW e \in Events, RetryWrites(o, e)
  PROVE  /\ event' \in [Events -> EventRow] /\ owner' \in [Owners -> SUBSET Events]
         /\ overwritten' \subseteq Events /\ OutreachPart'
<1>1. /\ event \in [Events -> EventRow] /\ owner \in [Owners -> SUBSET Events]
      /\ overwritten \subseteq Events
      /\ \A w \in Runners : runner[w].event \subseteq Events
  BY DEF OutreachTypeOK, EventRow
<1>2. /\ event' = [event EXCEPT ![e] = [status |-> "ready", claimed |-> "none"]]
      /\ overwritten' = (IF event[e].status \in Reserved THEN overwritten \cup {e} ELSE overwritten)
      /\ owner' = [owner EXCEPT ![o] = {}] /\ UNCHANGED <<runner, reached, offer, crossed>>
  BY DEF RetryWrites
<1>3. [status |-> "ready", claimed |-> "none"] \in EventRow
  BY DEF EventRow, PendingEvents, Ages
<1>4. /\ event' \in [Events -> EventRow] /\ event'[e].status = "ready"
      /\ \A f \in Events \ {e} : event'[f] = event[f]
  BY <1>1, <1>2, <1>3
<1>5. /\ overwritten \subseteq overwritten' /\ overwritten' \subseteq Events
      /\ e \notin overwritten' => e \notin overwritten /\ event[e].status \notin Reserved
  BY <1>1, <1>2
<1>6. owner' \in [Owners -> SUBSET Events]
  BY <1>1, <1>2
<1>7. OneEventEach'
  BY <1>2 DEF OutreachPart, OneEventEach
<1>8. ReservedForOne'
  BY <1>1, <1>2, <1>4, <1>5 DEF OutreachPart, ReservedForOne, Reserved
<1>9. ReachedIsReserved'
  BY <1>2, <1>4, <1>5 DEF OutreachPart, ReachedIsReserved
<1>10. \A f \in Events : ClaimedToday(f)' => ClaimedToday(f)
  BY <1>4 DEF ClaimedToday, Reserved
<1>11. OneReservationADay'
  BY <1>2, <1>10, DayKept DEF OutreachPart
<1>12. QED
  BY <1>4, <1>5, <1>6, <1>7, <1>8, <1>9, <1>11 DEF OutreachPart

(* An offer grows older, or is sent: beside a reservation it crosses it. *)
LEMMA OutreachOffers ==
  ASSUME OutreachTypeOK, OutreachPart, NEW c \in OutreachCustomers, OfferAges(c) \/ OfferSent(c)
  PROVE  /\ offer' \in [OutreachCustomers -> Ages] /\ crossed' \subseteq OutreachCustomers
         /\ offering' \subseteq OutreachCustomers /\ OutreachPart'
<1>1. /\ offer \in [OutreachCustomers -> Ages] /\ crossed \subseteq OutreachCustomers
      /\ offering \subseteq OutreachCustomers
      /\ UNCHANGED <<event, runner, reached, overwritten>>
  BY DEF OutreachTypeOK, OfferAges, OfferSent
<1>2. OneEventEach' /\ ReservedForOne' /\ ReachedIsReserved'
  BY <1>1 DEF OutreachPart, OneEventEach, ReservedForOne, ReachedIsReserved
<1>3. CASE OfferAges(c)
  <2>1. PICK age \in {"week", "old"} : offer' = [offer EXCEPT ![c] = age]
    <3>1. offer[c] \in {"day", "week"} /\ offer' = [offer EXCEPT ![c] = Older(offer[c])]
      BY <1>1, <1>3 DEF OfferAges
    <3>2. CASE offer[c] = "day"
      BY <3>1, <3>2 DEF Older
    <3>3. CASE offer[c] = "week"
      BY <3>1, <3>3 DEF Older
    <3>4. QED
      BY <3>1, <3>2, <3>3
  <2>2. /\ offer' \in [OutreachCustomers -> Ages] /\ offer'[c] = age
        /\ \A d \in OutreachCustomers \ {c} : offer'[d] = offer[d]
    BY <1>1, <2>1 DEF Ages
  <2>3. UNCHANGED <<crossed, offering>>
    BY <1>3 DEF OfferAges
  <2>4. \A e \in Events : CustomerOf[e] \in OutreachCustomers
    BY DEF OutreachCustomers
  <2>5. OneReservationADay'
    BY <1>1, <2>2, <2>3, <2>4 DEF OutreachPart, OneReservationADay, Today
  <2>6. QED
    BY <1>1, <1>2, <2>2, <2>3, <2>5 DEF OutreachPart
<1>4. CASE OfferSent(c)
  <2>1. /\ offer' = [offer EXCEPT ![c] = "day"] /\ offering' = offering \ {c}
        /\ crossed' = IF ReservedToday(c) THEN crossed \cup {c} ELSE crossed
    BY <1>4 DEF OfferSent
  <2>2. /\ offer' \in [OutreachCustomers -> Ages]
        /\ \A d \in OutreachCustomers \ {c} : offer'[d] = offer[d]
    BY <1>1, <2>1 DEF Ages
  <2>3. crossed' \subseteq OutreachCustomers /\ crossed \subseteq crossed'
        /\ offering' \subseteq OutreachCustomers
    BY <1>1, <2>1
  <2>4. c \notin crossed' => \A e \in Events : CustomerOf[e] = c => ~ClaimedToday(e)
    <3> SUFFICES ASSUME c \notin crossed'
                 PROVE  \A e \in Events : CustomerOf[e] = c => ~ClaimedToday(e)
      OBVIOUS
    <3> DEFINE S == {e \in Events : CustomerOf[e] = c}
    <3>1. ~(Count(S, Today) > 0) /\ S \in SUBSET Events
      BY <2>1 DEF ReservedToday
    <3>2. QED
      BY <3>1, NoneCounted
  <2>5. \A e \in Events : CustomerOf[e] \in OutreachCustomers
    BY DEF OutreachCustomers
  <2>6. OneReservationADay'
    BY <1>1, <2>2, <2>3, <2>4, <2>5 DEF OutreachPart, OneReservationADay, ClaimedToday
  <2>7. QED
    BY <1>2, <2>2, <2>3, <2>6 DEF OutreachPart
<1>5. QED
  BY <1>3, <1>4

(* Every step of the outreach keeps the invariant. *)
LEMMA OutreachKeep == OutreachInv /\ [OutreachNext]_outreachVars => OutreachInv'
<1> SUFFICES ASSUME OutreachInv, [OutreachNext]_outreachVars PROVE OutreachInv'
  OBVIOUS
<1> USE OutreachAssumption
<1> DEFINE Same == UNCHANGED <<event, runner, reached, overwritten, offer, crossed>>
<1>1. OutreachTypeOK /\ OutreachPart
  BY DEF OutreachInv, OutreachPart
<1>2. /\ silenced \subseteq OutreachCustomers /\ offering \subseteq OutreachCustomers
      /\ eligible \subseteq Events /\ owner \in [Owners -> SUBSET Events]
      /\ ownerRetries \in 0..MaxOwnerRetries /\ changes \in 0..MaxChanges
  BY <1>1 DEF OutreachTypeOK
<1>3. Same => OutreachPart'
  <2> SUFFICES ASSUME Same PROVE OutreachPart'
    OBVIOUS
  <2>1. OneEventEach' /\ ReservedForOne' /\ ReachedIsReserved'
    BY <1>1 DEF OutreachPart, OneEventEach, ReservedForOne, ReachedIsReserved
  <2>2. OneReservationADay'
    BY <1>1 DEF OutreachPart, OneReservationADay
  <2>3. QED
    BY <2>1, <2>2 DEF OutreachPart
<1>4. CASE UNCHANGED outreachVars
  <2>1. OutreachTypeOK'
    BY <1>1, <1>4 DEF outreachVars, OutreachTypeOK
  <2>2. Same
    BY <1>4 DEF outreachVars
  <2>3. QED
    BY <1>3, <2>1, <2>2 DEF OutreachInv, OutreachPart
<1>5. CASE Change
  <2>1. Same /\ UNCHANGED <<owner, offering, reservations, ownerRetries>>
    BY <1>5 DEF Change
  <2>2. /\ mode' \in {"off", "preview", "live"} /\ eligible' \subseteq Events
        /\ silenced' \subseteq OutreachCustomers /\ changes' \in 0..MaxChanges
    <3>1. changes' \in 0..MaxChanges
      BY <1>2, <1>5 DEF Change
    <3>2. mode' \in {"off", "preview", "live"}
      BY <1>1, <1>5 DEF Change, OutreachTypeOK
    <3>3. eligible' \subseteq Events /\ silenced' \subseteq OutreachCustomers
      BY <1>2, <1>5 DEF Change
    <3>4. QED
      BY <3>1, <3>2, <3>3
  <2>3. OutreachTypeOK'
    BY <1>1, <2>1, <2>2 DEF OutreachTypeOK
  <2>4. QED
    BY <1>3, <2>1, <2>3 DEF OutreachInv, OutreachPart
<1>6. CASE MarkInterrupted
  <2>1. UNCHANGED <<mode, eligible, silenced, runner, owner, offer, offering, reached,
                    overwritten, crossed, reservations, ownerRetries, changes>>
    BY <1>6 DEF MarkInterrupted
  <2>2. event' \in [Events -> EventRow] /\ OutreachPart'
    BY <1>1, <1>6, OutreachInterrupted
  <2>3. OutreachTypeOK'
    BY <1>1, <2>1, <2>2 DEF OutreachTypeOK, EventRow
  <2>4. QED
    BY <2>2, <2>3 DEF OutreachInv, OutreachPart
<1>7. ASSUME NEW e \in Events, Prepare(e) \/ ClaimAges(e) PROVE OutreachInv'
  <2>1. UNCHANGED <<mode, eligible, silenced, runner, owner, offer, offering, reached,
                    overwritten, crossed, reservations, ownerRetries, changes>>
    BY <1>7 DEF Prepare, ClaimAges
  <2>2. event' \in [Events -> EventRow] /\ OutreachPart'
    BY <1>1, <1>7, OutreachPrepare, OutreachClaimAges
  <2>3. OutreachTypeOK'
    BY <1>1, <2>1, <2>2 DEF OutreachTypeOK, EventRow
  <2>4. QED
    BY <2>2, <2>3 DEF OutreachInv, OutreachPart
<1>8. ASSUME NEW c \in OutreachCustomers, OfferChecked(c) PROVE OutreachInv'
  <2>1. Same /\ UNCHANGED <<mode, eligible, silenced, owner, reservations, ownerRetries, changes>>
    BY <1>8 DEF OfferChecked
  <2>2. offering' \subseteq OutreachCustomers
    BY <1>2, <1>8 DEF OfferChecked
  <2>3. OutreachTypeOK'
    BY <1>1, <2>1, <2>2 DEF OutreachTypeOK
  <2>4. QED
    BY <1>3, <2>1, <2>3 DEF OutreachInv, OutreachPart
<1>9. ASSUME NEW c \in OutreachCustomers, OfferAges(c) \/ OfferSent(c) PROVE OutreachInv'
  <2>1. UNCHANGED <<mode, event, eligible, silenced, runner, owner, reached, overwritten,
                    reservations, ownerRetries, changes>>
    BY <1>9 DEF OfferAges, OfferSent
  <2>2. /\ offer' \in [OutreachCustomers -> Ages] /\ crossed' \subseteq OutreachCustomers
        /\ offering' \subseteq OutreachCustomers /\ OutreachPart'
    BY <1>1, <1>9, OutreachOffers
  <2>3. OutreachTypeOK'
    BY <1>1, <2>1, <2>2 DEF OutreachTypeOK
  <2>4. QED
    BY <2>2, <2>3 DEF OutreachInv, OutreachPart
<1>10. ASSUME NEW w \in Runners, NEW e \in Events, Reserve(w, e) \/ Revalidate(w, e)
       PROVE  OutreachInv'
  <2>1. UNCHANGED <<mode, eligible, silenced, owner, offer, offering, reached, overwritten,
                    crossed, ownerRetries, changes>>
    BY <1>10 DEF Reserve, Revalidate
  <2>2. /\ event' \in [Events -> EventRow] /\ runner' \in [Runners -> RunnerRow]
        /\ OutreachPart'
    BY <1>1, <1>10, OutreachReserve, OutreachRevalidate
  <2>3. reservations' \in 0..MaxReservations
    BY <1>1, <1>10, OutreachReserve DEF Revalidate, OutreachTypeOK
  <2>4. OutreachTypeOK'
    BY <1>1, <2>1, <2>2, <2>3 DEF OutreachTypeOK, EventRow, RunnerRow
  <2>5. QED
    BY <2>2, <2>4 DEF OutreachInv, OutreachPart
<1>11. ASSUME NEW w \in Runners, RunnerDies(w) \/ \E e \in Events : RecordResult(w, e)
       PROVE  OutreachInv'
  <2>1. UNCHANGED <<mode, eligible, silenced, owner, offer, offering, reached, overwritten,
                    crossed, reservations, ownerRetries, changes>>
    BY <1>11 DEF RunnerDies, RecordResult
  <2>2. /\ event' \in [Events -> EventRow] /\ runner' \in [Runners -> RunnerRow]
        /\ OutreachPart'
    BY <1>1, <1>11, OutreachEnd
  <2>3. OutreachTypeOK'
    BY <1>1, <2>1, <2>2 DEF OutreachTypeOK, EventRow, RunnerRow
  <2>4. QED
    BY <2>2, <2>3 DEF OutreachInv, OutreachPart
<1>12. ASSUME NEW w \in Runners, NEW e \in Events, NEW arrived \in BOOLEAN,
              NEW answer \in {"acknowledged", "rejected", "lost"}, Send(w, e, answer, arrived)
       PROVE  OutreachInv'
  <2>1. UNCHANGED <<mode, event, eligible, silenced, owner, offer, offering, overwritten,
                    crossed, reservations, ownerRetries, changes>>
    BY <1>12 DEF Send
  <2>2. /\ reached' \in [Events -> Nat] /\ runner' \in [Runners -> RunnerRow]
        /\ OutreachPart'
    BY <1>1, <1>12, OutreachSend
  <2>3. OutreachTypeOK'
    BY <1>1, <2>1, <2>2 DEF OutreachTypeOK, RunnerRow
  <2>4. QED
    BY <2>2, <2>3 DEF OutreachInv, OutreachPart
<1>13. ASSUME NEW o \in Owners, NEW e \in Events, RetryReads(o, e) PROVE OutreachInv'
  <2>1. Same /\ UNCHANGED <<mode, eligible, silenced, offering, reservations, changes>>
    BY <1>13 DEF RetryReads
  <2>2. ownerRetries' \in 0..MaxOwnerRetries /\ owner' \in [Owners -> SUBSET Events]
    BY <1>2, <1>13 DEF RetryReads
  <2>3. OutreachTypeOK'
    BY <1>1, <2>1, <2>2 DEF OutreachTypeOK
  <2>4. QED
    BY <1>3, <2>1, <2>3 DEF OutreachInv, OutreachPart
<1>14. ASSUME NEW o \in Owners, NEW e \in Events, RetryWrites(o, e) PROVE OutreachInv'
  <2>1. UNCHANGED <<mode, eligible, silenced, runner, offer, offering, reached, crossed,
                    reservations, ownerRetries, changes>>
    BY <1>14 DEF RetryWrites
  <2>2. /\ event' \in [Events -> EventRow] /\ owner' \in [Owners -> SUBSET Events]
        /\ overwritten' \subseteq Events /\ OutreachPart'
    BY <1>1, <1>14, OutreachRetry
  <2>3. OutreachTypeOK'
    BY <1>1, <2>1, <2>2 DEF OutreachTypeOK, EventRow
  <2>4. QED
    BY <2>2, <2>3 DEF OutreachInv, OutreachPart
<1>15. QED
  BY <1>4, <1>5, <1>6, <1>7, <1>8, <1>9, <1>10, <1>11, <1>12, <1>13, <1>14 DEF OutreachNext

(* What the invariant says about the messages of an event and of a day. *)
LEMMA OutreachMeans == OutreachInv => OneMessagePerEvent /\ OneMessageADay
<1> SUFFICES ASSUME OutreachInv PROVE OneMessagePerEvent /\ OneMessageADay
  OBVIOUS
<1>1. OneMessagePerEvent
  BY DEF OutreachInv, ReachedIsReserved, OneMessagePerEvent
<1>2. ASSUME NEW c \in OutreachCustomers \ crossed, \A e \in overwritten : CustomerOf[e] # c
      PROVE  ReachedToday(c) <= 1
  <2> DEFINE S == {e \in Events : CustomerOf[e] = c /\ reached[e] > 0 /\ event[e].claimed \in Today}
  <2>1. \A e \in S : event[e].status \in Reserved /\ event[e].claimed \in Today /\ CustomerOf[e] = c
    BY <1>2 DEF OutreachInv, ReachedIsReserved
  <2>2. \A e, f \in S : e = f
    BY <2>1 DEF OutreachInv, OneReservationADay
  <2>3. offer[c] \in Today => S = {}
    BY <1>2, <2>1 DEF OutreachInv, OneReservationADay
  <2>4. CASE S = {}
    <3>1. Cardinality(S) = 0
      BY <2>4, FS_EmptySet
    <3>2. QED
      BY <3>1 DEF ReachedToday
  <2>5. ASSUME NEW e \in S PROVE ReachedToday(c) <= 1
    <3>1. S = {e}
      BY <2>2, <2>5
    <3>2. Cardinality(S) = 1
      BY <3>1, FS_Singleton
    <3>3. offer[c] \notin Today
      BY <2>3, <2>5
    <3>4. QED
      BY <3>2, <3>3 DEF ReachedToday
  <2>6. QED
    BY <2>4, <2>5
<1>3. QED
  BY <1>1, <1>2 DEF OneMessageADay

-----------------------------------------------------------------------------
(* The broadcast campaign. *)

SenderRow ==
  [pc: {"idle", "open", "resume", "start", "list", "loop", "call", "mark", "close"},
   todo: SUBSET Recipients, current: SUBSET Recipients, deleted: SUBSET Recipients,
   transient: 0..MaxTransient, result: {"none", "queued", "failed"} \cup RecipientStatus]

(* SendersFit, of one row. *)
RowFits(row) ==
  /\ row.pc = "close" => row.result \in CampaignStatus
  /\ row.pc \in {"call", "mark"} \/ row.todo # {} => row.transient < MaxTransient
  /\ row.pc = "mark" => row.result \in RecipientStatus
  /\ row.current # {} => row.pc \in {"call", "mark"}
  /\ row.todo \cap row.current = {}
  /\ \A x, y \in row.current : x = y

(* The rows of a handler that rests, goes on, or has read a list. *)
LEMMA RestingRows ==
  /\ Resting \in SenderRow /\ RowFits(Resting) /\ Resting.todo = {} /\ Resting.current = {}
  /\ \A pc \in {"open", "start", "list"} :
       LET row == [Resting EXCEPT !.pc = pc] IN
       row \in SenderRow /\ RowFits(row) /\ row.todo = {} /\ row.current = {}
  /\ \A pc \in {"resume", "loop"}, T \in SUBSET Recipients :
       LET row == [Resting EXCEPT !.pc = pc, !.todo = T] IN
       row \in SenderRow /\ RowFits(row) /\ row.todo = T /\ row.current = {}
  /\ \A result \in {"queued", "failed", "sent"} :
       LET row == [Resting EXCEPT !.pc = "close", !.result = result] IN
       row \in SenderRow /\ RowFits(row) /\ row.todo = {} /\ row.current = {}
<1> USE BroadcastAssumption
<1>1. Resting = [pc |-> "idle", todo |-> {}, current |-> {}, result |-> "none",
                 transient |-> 0, deleted |-> {}]
  BY DEF Resting
<1>2. 0 \in 0..MaxTransient /\ 0 < MaxTransient
  OBVIOUS
<1>3. Resting \in SenderRow /\ RowFits(Resting) /\ Resting.todo = {} /\ Resting.current = {}
  BY <1>1, <1>2 DEF SenderRow, RowFits
<1>4. ASSUME NEW pc \in {"open", "start", "list"}
      PROVE  LET row == [Resting EXCEPT !.pc = pc] IN
             row \in SenderRow /\ RowFits(row) /\ row.todo = {} /\ row.current = {}
  <2>1. [Resting EXCEPT !.pc = pc] = [pc |-> pc, todo |-> {}, current |-> {}, result |-> "none",
                                      transient |-> 0, deleted |-> {}]
    BY <1>1
  <2>2. QED
    BY <1>2, <2>1 DEF SenderRow, RowFits
<1>5. ASSUME NEW pc \in {"resume", "loop"}, NEW T \in SUBSET Recipients
      PROVE  LET row == [Resting EXCEPT !.pc = pc, !.todo = T] IN
             row \in SenderRow /\ RowFits(row) /\ row.todo = T /\ row.current = {}
  <2>1. [Resting EXCEPT !.pc = pc, !.todo = T]
          = [pc |-> pc, todo |-> T, current |-> {}, result |-> "none",
             transient |-> 0, deleted |-> {}]
    <3>1. [Resting EXCEPT !.pc = pc, !.todo = T] = [[Resting EXCEPT !.pc = pc] EXCEPT !.todo = T]
      OBVIOUS
    <3>2. [Resting EXCEPT !.pc = pc] = [pc |-> pc, todo |-> {}, current |-> {}, result |-> "none",
                                        transient |-> 0, deleted |-> {}]
      BY <1>1
    <3>3. [[pc |-> pc, todo |-> {}, current |-> {}, result |-> "none", transient |-> 0,
            deleted |-> {}] EXCEPT !.todo = T]
            = [pc |-> pc, todo |-> T, current |-> {}, result |-> "none",
               transient |-> 0, deleted |-> {}]
      OBVIOUS
    <3>4. QED
      BY <3>1, <3>2, <3>3
  <2>2. QED
    BY <1>2, <2>1 DEF SenderRow, RowFits
<1>6. ASSUME NEW result \in {"queued", "failed", "sent"}
      PROVE  LET row == [Resting EXCEPT !.pc = "close", !.result = result] IN
             row \in SenderRow /\ RowFits(row) /\ row.todo = {} /\ row.current = {}
  <2>1. [Resting EXCEPT !.pc = "close", !.result = result]
          = [pc |-> "close", todo |-> {}, current |-> {}, result |-> result,
             transient |-> 0, deleted |-> {}]
    <3>1. [Resting EXCEPT !.pc = "close", !.result = result]
            = [[Resting EXCEPT !.pc = "close"] EXCEPT !.result = result]
      OBVIOUS
    <3>2. [Resting EXCEPT !.pc = "close"] = [pc |-> "close", todo |-> {}, current |-> {},
                                             result |-> "none", transient |-> 0, deleted |-> {}]
      BY <1>1
    <3>3. [[pc |-> "close", todo |-> {}, current |-> {}, result |-> "none", transient |-> 0,
            deleted |-> {}] EXCEPT !.result = result]
            = [pc |-> "close", todo |-> {}, current |-> {}, result |-> result,
               transient |-> 0, deleted |-> {}]
      OBVIOUS
    <3>4. QED
      BY <3>1, <3>2, <3>3
  <2>2. QED
    BY <1>2, <2>1 DEF SenderRow, RowFits, RecipientStatus, CampaignStatus
<1>7. QED
  BY <1>3, <1>4, <1>5, <1>6

(* A handler's new row, and what it now shares with another. *)
LEMMA HandlerBecomes ==
  ASSUME BroadcastTypeOK, SendersFit, HeldByOne,
         NEW s \in Handlers, NEW row \in SenderRow, RowFits(row), Become(s, row)
  PROVE  /\ sender' \in [Handlers -> SenderRow] /\ sender'[s] = row
         /\ \A t \in Handlers \ {s} : sender'[t] = sender[t]
         /\ shared \subseteq shared' /\ shared' \subseteq Recipients
         /\ SendersFit' /\ HeldByOne'
<1>1. sender \in [Handlers -> SenderRow] /\ shared \subseteq Recipients
  BY DEF BroadcastTypeOK, SenderRow, Handlers
<1>2. /\ sender' = [sender EXCEPT ![s] = row]
      /\ shared' = shared \cup {x \in row.todo \cup row.current :
           \E t \in Handlers \ {s} : x \in sender[t].todo \cup sender[t].current}
  BY DEF Become, Handlers
<1>3. /\ sender' \in [Handlers -> SenderRow] /\ sender'[s] = row
      /\ \A t \in Handlers \ {s} : sender'[t] = sender[t]
  BY <1>1, <1>2
<1>4. row.todo \subseteq Recipients /\ row.current \subseteq Recipients
  BY DEF SenderRow
<1>5. shared \subseteq shared' /\ shared' \subseteq Recipients
  BY <1>1, <1>2, <1>4
<1>6. \A t \in Handlers : RowFits(sender[t])
  BY DEF SendersFit, RowFits
<1>7. \A t \in Handlers : RowFits(sender'[t])
  BY <1>3, <1>6
<1>8. SendersFit'
  BY <1>7 DEF SendersFit, RowFits
<1>9. HeldByOne'
  BY <1>2, <1>3, <1>5 DEF HeldByOne, Held
<1>10. QED
  BY <1>3, <1>5, <1>8, <1>9

(* A handler that neither sends nor marks, and takes up no recipient that  *)
(* is marked sent.                                                         *)
LEMMA QuietStep ==
  ASSUME BroadcastInv, NEW s \in Handlers, NEW row \in SenderRow, RowFits(row), Become(s, row),
         sender[s].pc # "mark", UNCHANGED <<delivered, unrecorded>>,
         \A x \in Recipients : recipient[x] = "sent" /\ x \notin Held(s) =>
            recipient'[x] = "sent" /\ x \notin row.todo /\ x \notin row.current
  PROVE  /\ sender' \in [Handlers -> SenderRow] /\ shared' \subseteq Recipients
         /\ SendersFit' /\ HeldByOne' /\ DeliveredOnce'
<1>1. BroadcastTypeOK /\ SendersFit /\ HeldByOne /\ DeliveredOnce
  BY DEF BroadcastInv
<1>2. /\ sender' \in [Handlers -> SenderRow] /\ sender'[s] = row
      /\ \A t \in Handlers \ {s} : sender'[t] = sender[t]
      /\ shared \subseteq shared' /\ shared' \subseteq Recipients
      /\ SendersFit' /\ HeldByOne'
  BY <1>1, HandlerBecomes
<1>3. Senders \subseteq Handlers
  BY DEF Handlers
<1>4. ASSUME NEW x \in Recipients \ shared'
      PROVE  /\ delivered[x] <= unrecorded[x] + 1
             /\ delivered[x] > unrecorded[x] =>
                  \/ recipient'[x] = "sent" /\ \A t \in Handlers : x \notin Held(t)'
                  \/ \E t \in Senders :
                       x \in sender'[t].current /\ sender'[t].pc = "mark" /\ sender'[t].result = "sent"
  <2>1. x \in Recipients \ shared
    BY <1>2
  <2>2. delivered[x] <= unrecorded[x] + 1
    BY <1>1, <2>1 DEF DeliveredOnce
  <2>3. CASE recipient[x] = "sent" /\ \A t \in Handlers : x \notin Held(t)
    BY <1>2, <2>2, <2>3 DEF Held
  <2>4. CASE \E t \in Senders :
               x \in sender[t].current /\ sender[t].pc = "mark" /\ sender[t].result = "sent"
    BY <1>2, <1>3, <2>2, <2>4
  <2>5. QED
    BY <1>1, <2>1, <2>2, <2>3, <2>4 DEF DeliveredOnce
<1>5. DeliveredOnce'
  BY <1>4 DEF DeliveredOnce
<1>6. QED
  BY <1>2, <1>5

(* The recipients' rows that are made anew, or pending again. *)
LEMMA RecipientsMade ==
  ASSUME BroadcastTypeOK
  PROVE  /\ \A targets : Materialise(targets) =>
              /\ recipient' \in [Recipients -> RecipientStatus]
              /\ \A x \in Recipients : recipient[x] = "sent" => recipient'[x] = "sent"
         /\ \A list : recipient' = Requeued(list) =>
              /\ recipient' \in [Recipients -> RecipientStatus]
              /\ \A x \in Recipients \ list : recipient'[x] = recipient[x]
<1>1. recipient \in [Recipients -> RecipientStatus]
      /\ "pending" \in RecipientStatus /\ "skipped" \in RecipientStatus
  BY DEF BroadcastTypeOK, RecipientStatus
<1>2. ASSUME NEW targets, Materialise(targets)
      PROVE  /\ recipient' \in [Recipients -> RecipientStatus]
             /\ \A x \in Recipients : recipient[x] = "sent" => recipient'[x] = "sent"
  BY <1>1, <1>2 DEF Materialise, Renewed
<1>3. ASSUME NEW list, recipient' = Requeued(list)
      PROVE  /\ recipient' \in [Recipients -> RecipientStatus]
             /\ \A x \in Recipients \ list : recipient'[x] = recipient[x]
  BY <1>1, <1>3 DEF Requeued
<1>4. QED
  BY <1>2, <1>3

(* At first nothing is sent. *)
LEMMA BroadcastStart == BroadcastInit => BroadcastInv
<1> SUFFICES ASSUME BroadcastInit PROVE BroadcastInv
  OBVIOUS
<1> USE BroadcastAssumption
<1>1. /\ sender \in [Handlers -> SenderRow]
      /\ \A s \in Handlers : /\ RowFits(sender[s]) /\ sender[s].todo = {} /\ sender[s].current = {}
  <2>1. \A s \in Handlers : sender[s] = Resting \/ sender[s] = [Resting EXCEPT !.pc = "start"]
    BY DEF BroadcastInit, Handlers
  <2>2. sender = [s \in Handlers |-> sender[s]]
    BY DEF BroadcastInit, Handlers
  <2>3. LET row == [Resting EXCEPT !.pc = "start"] IN
        row \in SenderRow /\ RowFits(row) /\ row.todo = {} /\ row.current = {}
    BY RestingRows
  <2>4. \A s \in Handlers : /\ sender[s] \in SenderRow /\ RowFits(sender[s])
                            /\ sender[s].todo = {} /\ sender[s].current = {}
    BY <2>1, <2>3, RestingRows
  <2>5. QED
    BY <2>2, <2>4
<1>2. SendersFit
  BY <1>1 DEF SendersFit, RowFits
<1>3. HeldByOne
  BY <1>1 DEF HeldByOne, Held
<1>4. DeliveredOnce
  BY DEF BroadcastInit, DeliveredOnce
<1>5. BroadcastTypeOK
  BY <1>1 DEF BroadcastInit, BroadcastTypeOK, CampaignStatus, RecipientStatus, SenderRow, Handlers
<1>6. QED
  BY <1>2, <1>3, <1>4, <1>5 DEF BroadcastInv

(* Such a step keeps the invariant when what else it writes has its type. *)
LEMMA QuietKeeps ==
  ASSUME BroadcastInv, NEW s \in Handlers, NEW row \in SenderRow, RowFits(row), Become(s, row),
         sender[s].pc # "mark", UNCHANGED <<delivered, unrecorded, broadcastFaults>>,
         campaign' \in CampaignStatus, recipient' \in [Recipients -> RecipientStatus],
         retries' \in 0..MaxRetries, passes' \in 0..MaxPasses,
         \A x \in Recipients : recipient[x] = "sent" /\ x \notin Held(s) =>
            recipient'[x] = "sent" /\ x \notin row.todo /\ x \notin row.current
  PROVE  BroadcastInv'
<1>1. /\ sender' \in [Handlers -> SenderRow] /\ shared' \subseteq Recipients
      /\ SendersFit' /\ HeldByOne' /\ DeliveredOnce'
  BY QuietStep
<1>2. BroadcastTypeOK'
  BY <1>1 DEF BroadcastInv, BroadcastTypeOK, SenderRow, Handlers
<1>3. QED
  BY <1>1, <1>2 DEF BroadcastInv

(* What staff do. *)
LEMMA StaffKeep ==
  BroadcastInv /\ (QueueCampaign \/ CancelCampaign \/ RetryRead \/ RetryWrite) => BroadcastInv'
<1> SUFFICES ASSUME BroadcastInv, QueueCampaign \/ CancelCampaign \/ RetryRead \/ RetryWrite
             PROVE  BroadcastInv'
  OBVIOUS
<1> USE BroadcastAssumption
<1>1. /\ BroadcastTypeOK /\ SendersFit /\ HeldByOne /\ DeliveredOnce
      /\ recipient \in [Recipients -> RecipientStatus]
      /\ retries \in 0..MaxRetries /\ passes \in 0..MaxPasses /\ campaign \in CampaignStatus
      /\ Staff \in Handlers
  BY DEF BroadcastInv, BroadcastTypeOK, Handlers
<1>2. CASE QueueCampaign \/ CancelCampaign
  <2>1. /\ UNCHANGED <<sender, delivered, unrecorded, shared, retries, passes, broadcastFaults>>
        /\ campaign' \in CampaignStatus
    BY <1>2 DEF QueueCampaign, CancelCampaign, CampaignStatus
  <2>2. /\ recipient' \in [Recipients -> RecipientStatus]
        /\ \A x \in Recipients : recipient[x] = "sent" => recipient'[x] = "sent"
    BY <1>1, <1>2, RecipientsMade DEF QueueCampaign, CancelCampaign
  <2>3. BroadcastTypeOK'
    BY <1>1, <2>1, <2>2 DEF BroadcastTypeOK
  <2>4. SendersFit' /\ HeldByOne'
    BY <1>1, <2>1 DEF SendersFit, HeldByOne, Held
  <2>5. DeliveredOnce'
    BY <1>1, <2>1, <2>2 DEF DeliveredOnce, Held
  <2>6. QED
    BY <2>3, <2>4, <2>5 DEF BroadcastInv
<1>3. CASE RetryRead
  <2>1. PICK list \in SUBSET Recipients : list = RetryableFailed
    BY DEF RetryableFailed
  <2>2. PICK row \in SenderRow : /\ row = [Resting EXCEPT !.pc = "resume", !.todo = list]
                                 /\ RowFits(row) /\ row.todo = list /\ row.current = {}
    BY RestingRows
  <2>3. /\ sender[Staff].pc = "idle" /\ Become(Staff, row) /\ retries' = retries + 1
        /\ retries < MaxRetries
        /\ UNCHANGED <<campaign, recipient, delivered, unrecorded, passes, broadcastFaults>>
    BY <1>3, <2>1, <2>2 DEF RetryRead
  <2>4. retries' \in 0..MaxRetries
    BY <1>1, <2>3
  <2>5. \A x \in Recipients : recipient[x] = "sent" => x \notin list
    BY <2>1 DEF RetryableFailed, Retryable
  <2>6. QED
    BY <1>1, <2>2, <2>3, <2>4, <2>5, QuietKeeps
<1>4. CASE RetryWrite
  <2>1. /\ sender[Staff].pc = "resume" /\ recipient' = Requeued(sender[Staff].todo)
        /\ campaign' = "queued" /\ Become(Staff, Resting)
        /\ UNCHANGED <<delivered, unrecorded, retries, passes, broadcastFaults>>
    BY <1>4 DEF RetryWrite
  <2>2. /\ recipient' \in [Recipients -> RecipientStatus]
        /\ \A x \in Recipients : x \notin Held(Staff) => recipient'[x] = recipient[x]
    BY <1>1, <2>1, RecipientsMade DEF Held
  <2>3. "queued" \in CampaignStatus
    BY DEF CampaignStatus
  <2>4. QED
    <3>1. Resting \in SenderRow /\ RowFits(Resting) /\ Resting.todo = {} /\ Resting.current = {}
      BY RestingRows
    <3>2. \A x \in Recipients : recipient[x] = "sent" /\ x \notin Held(Staff) =>
            recipient'[x] = "sent" /\ x \notin Resting.todo /\ x \notin Resting.current
      BY <2>2, <3>1
    <3>3. QED
      BY <1>1, <2>1, <2>2, <2>3, <3>1, <3>2, QuietKeeps
<1>5. QED
  BY <1>2, <1>3, <1>4

(* A run of the command finds its campaign and lists its recipients. *)
LEMMA ProcessorKeep ==
  ASSUME BroadcastInv, NEW s \in Senders,
         \/ ListCampaigns(s) \/ OpenCampaign(s) \/ Refuse(s) \/ ResumeFailed(s)
         \/ StartSending(s) \/ ListPending(s) \/ EndLoop(s) \/ CloseCampaign(s)
  PROVE  BroadcastInv'
<1> USE BroadcastAssumption
<1>1. /\ BroadcastTypeOK /\ SendersFit
      /\ recipient \in [Recipients -> RecipientStatus]
      /\ retries \in 0..MaxRetries /\ passes \in 0..MaxPasses /\ campaign \in CampaignStatus
      /\ s \in Handlers
  BY DEF BroadcastInv, BroadcastTypeOK, Handlers
<1>2. \A pc \in {"open", "start", "list"} : \E row \in SenderRow :
        row = [Resting EXCEPT !.pc = pc] /\ RowFits(row) /\ row.todo = {} /\ row.current = {}
  BY RestingRows
<1>3. CASE ListCampaigns(s)
  <2>1. PICK row \in SenderRow : /\ row = [Resting EXCEPT !.pc = "open"]
                                 /\ RowFits(row) /\ row.todo = {} /\ row.current = {}
    BY <1>2
  <2>2. /\ sender[s].pc = "idle" /\ passes < MaxPasses /\ passes' = passes + 1 /\ Become(s, row)
        /\ UNCHANGED <<campaign, recipient, delivered, unrecorded, retries, broadcastFaults>>
    BY <1>3, <2>1 DEF ListCampaigns
  <2>3. passes' \in 0..MaxPasses
    BY <1>1, <2>2
  <2>4. QED
    BY <1>1, <2>1, <2>2, <2>3, QuietKeeps
<1>4. CASE OpenCampaign(s)
  <2>1. /\ sender[s].pc = "open"
        /\ UNCHANGED <<campaign, delivered, unrecorded, passes, broadcastFaults>>
    BY <1>4 DEF OpenCampaign
  <2>2. /\ recipient' \in [Recipients -> RecipientStatus]
        /\ \A x \in Recipients : recipient[x] = "sent" => recipient'[x] = "sent"
    BY <1>1, <1>4, RecipientsMade DEF OpenCampaign
  <2>3. CASE Become(s, Resting) /\ UNCHANGED retries
    BY <1>1, <2>1, <2>2, <2>3, RestingRows, QuietKeeps
  <2>4. CASE Become(s, [Resting EXCEPT !.pc = "start"]) /\ UNCHANGED retries
    <3>1. PICK row \in SenderRow : /\ row = [Resting EXCEPT !.pc = "start"]
                                   /\ RowFits(row) /\ row.todo = {} /\ row.current = {}
      BY <1>2
    <3>2. QED
      BY <1>1, <2>1, <2>2, <2>4, <3>1, QuietKeeps
  <2>5. CASE /\ retries < MaxRetries /\ retries' = retries + 1
             /\ Become(s, [Resting EXCEPT !.pc = "resume", !.todo = RetryableFailed])
    <3>1. PICK list \in SUBSET Recipients : list = RetryableFailed
      BY DEF RetryableFailed
    <3>2. PICK row \in SenderRow : /\ row = [Resting EXCEPT !.pc = "resume", !.todo = list]
                                   /\ RowFits(row) /\ row.todo = list /\ row.current = {}
      BY RestingRows
    <3>3. retries' \in 0..MaxRetries /\ Become(s, row)
      BY <1>1, <2>5, <3>1, <3>2
    <3>4. \A x \in Recipients : recipient[x] = "sent" => x \notin list
      BY <3>1 DEF RetryableFailed, Retryable
    <3>5. QED
      BY <1>1, <2>1, <2>2, <3>2, <3>3, <3>4, QuietKeeps
  <2>6. QED
    BY <1>4, <2>3, <2>4, <2>5 DEF OpenCampaign
<1>5. CASE Refuse(s)
  <2>1. /\ sender[s].pc \in {"open", "start"} /\ campaign' = "failed" /\ Become(s, Resting)
        /\ UNCHANGED <<recipient, delivered, unrecorded, retries, passes, broadcastFaults>>
    BY <1>5 DEF Refuse
  <2>2. "failed" \in CampaignStatus
    BY DEF CampaignStatus
  <2>3. QED
    BY <1>1, <2>1, <2>2, RestingRows, QuietKeeps
<1>6. CASE ResumeFailed(s)
  <2>1. PICK row \in SenderRow : /\ row = [Resting EXCEPT !.pc = "start"]
                                 /\ RowFits(row) /\ row.todo = {} /\ row.current = {}
    BY <1>2
  <2>2. /\ sender[s].pc = "resume" /\ recipient' = Requeued(sender[s].todo) /\ Become(s, row)
        /\ UNCHANGED <<campaign, delivered, unrecorded, retries, passes, broadcastFaults>>
    BY <1>6, <2>1 DEF ResumeFailed
  <2>3. /\ recipient' \in [Recipients -> RecipientStatus]
        /\ \A x \in Recipients : x \notin Held(s) => recipient'[x] = recipient[x]
    BY <1>1, <2>2, RecipientsMade DEF Held
  <2>4. QED
    BY <1>1, <2>1, <2>2, <2>3, QuietKeeps
<1>7. CASE StartSending(s)
  <2>1. PICK row \in SenderRow : /\ row = [Resting EXCEPT !.pc = "list"]
                                 /\ RowFits(row) /\ row.todo = {} /\ row.current = {}
    BY <1>2
  <2>2. /\ sender[s].pc = "start" /\ campaign' = "sending" /\ Become(s, row)
        /\ UNCHANGED <<recipient, delivered, unrecorded, retries, passes, broadcastFaults>>
    BY <1>7, <2>1 DEF StartSending
  <2>3. "sending" \in CampaignStatus
    BY DEF CampaignStatus
  <2>4. QED
    BY <1>1, <2>1, <2>2, <2>3, QuietKeeps
<1>8. CASE ListPending(s)
  <2>1. PICK batch \in Batches : Become(s, [Resting EXCEPT !.pc = "loop", !.todo = batch])
    BY <1>8 DEF ListPending
  <2>2. /\ batch \in SUBSET Recipients /\ \A x \in batch : recipient[x] = "pending"
    BY DEF Batches, With
  <2>3. PICK row \in SenderRow : /\ row = [Resting EXCEPT !.pc = "loop", !.todo = batch]
                                 /\ RowFits(row) /\ row.todo = batch /\ row.current = {}
    BY <2>2, RestingRows
  <2>4. /\ sender[s].pc = "list" /\ Become(s, row)
        /\ UNCHANGED <<campaign, recipient, delivered, unrecorded, retries, passes, broadcastFaults>>
    BY <1>8, <2>1, <2>3 DEF ListPending
  <2>5. QED
    BY <1>1, <2>2, <2>3, <2>4, QuietKeeps
<1>9. CASE EndLoop(s)
  <2>1. /\ sender[s].pc = "loop"
        /\ UNCHANGED <<campaign, recipient, delivered, unrecorded, retries, passes, broadcastFaults>>
    BY <1>9 DEF EndLoop
  <2>2. CASE Become(s, Resting)
    BY <1>1, <2>1, <2>2, RestingRows, QuietKeeps
  <2>3. CASE Become(s, [Resting EXCEPT !.pc = "close", !.result = Outcome(s)])
    <3>1. PICK result \in {"queued", "failed", "sent"} : result = Outcome(s)
      BY DEF Outcome
    <3>2. PICK row \in SenderRow : /\ row = [Resting EXCEPT !.pc = "close", !.result = result]
                                   /\ RowFits(row) /\ row.todo = {} /\ row.current = {}
      BY RestingRows
    <3>3. Become(s, row)
      BY <2>3, <3>1, <3>2
    <3>4. QED
      BY <1>1, <2>1, <3>2, <3>3, QuietKeeps
  <2>4. QED
    BY <1>9, <2>2, <2>3 DEF EndLoop
<1>10. CASE CloseCampaign(s)
  <2>1. /\ sender[s].pc = "close" /\ campaign' = sender[s].result /\ Become(s, Resting)
        /\ UNCHANGED <<recipient, delivered, unrecorded, retries, passes, broadcastFaults>>
    BY <1>10 DEF CloseCampaign
  <2>2. campaign' \in CampaignStatus
    BY <1>1, <2>1 DEF SendersFit
  <2>3. QED
    BY <1>1, <2>1, <2>2, RestingRows, QuietKeeps
<1>11. QED
  BY <1>3, <1>4, <1>5, <1>6, <1>7, <1>8, <1>9, <1>10

(* The bot makes the recipients anew and lists them. *)
LEMMA BotKeep == BroadcastInv /\ BotStarts => BroadcastInv'
<1> SUFFICES ASSUME BroadcastInv, BotStarts PROVE BroadcastInv'
  OBVIOUS
<1> USE BroadcastAssumption
<1>1. /\ BroadcastTypeOK /\ SendersFit /\ HeldByOne /\ DeliveredOnce
      /\ sender \in [Handlers -> SenderRow] /\ shared \subseteq Recipients
      /\ Bot \in Handlers /\ Handlers \ {Bot} = Processors \cup {Staff}
  BY DEF BroadcastInv, BroadcastTypeOK, SenderRow, Handlers, Senders
<1>2. /\ sender[Bot].pc = "start" /\ campaign' = "sending"
      /\ UNCHANGED <<delivered, unrecorded, retries, passes, broadcastFaults>>
  BY DEF BotStarts
<1>3. PICK list \in SUBSET Recipients :
        /\ recipient' \in [Recipients -> RecipientStatus]
        /\ \A x \in Recipients : recipient[x] = "sent" => recipient'[x] = "sent"
        /\ list = {x \in Recipients : recipient'[x] = "pending"}
        /\ sender' = [s \in Handlers |->
             IF s = Bot THEN [Resting EXCEPT !.pc = "loop", !.todo = list]
             ELSE [sender[s] EXCEPT !.deleted =
                     @ \cup {x \in sender[s].todo \cup sender[s].current : Renewed(x)}]]
        /\ shared' = shared \cup {x \in list :
             \E s \in Processors \cup {Staff} : x \in sender[s].todo \cup sender[s].current}
  BY <1>1, RecipientsMade DEF BotStarts, Handlers
<1>4. PICK row \in SenderRow : /\ row = [Resting EXCEPT !.pc = "loop", !.todo = list]
                               /\ RowFits(row) /\ row.todo = list /\ row.current = {}
  BY RestingRows
<1> DEFINE new(s) == [sender[s] EXCEPT !.deleted =
                        sender[s].deleted \cup {x \in sender[s].todo \cup sender[s].current : Renewed(x)}]
<1>5. ASSUME NEW s \in Handlers
      PROVE  /\ new(s) \in SenderRow /\ new(s).pc = sender[s].pc /\ new(s).todo = sender[s].todo
             /\ new(s).current = sender[s].current /\ new(s).result = sender[s].result
             /\ new(s).transient = sender[s].transient
  <2>1. sender[s] \in SenderRow
    BY <1>1
  <2>2. sender[s].deleted \cup {x \in sender[s].todo \cup sender[s].current : Renewed(x)}
          \in SUBSET Recipients
    BY <2>1 DEF SenderRow
  <2>3. QED
    BY <2>1, <2>2 DEF SenderRow
<1>6. \A s \in Handlers : sender'[s] = IF s = Bot THEN row ELSE new(s)
  BY <1>1, <1>3, <1>4
<1>7. DOMAIN sender' = Handlers /\ sender' = [s \in Handlers |-> sender'[s]]
  BY <1>3
<1> HIDE DEF new
<1>8. /\ sender'[Bot] = row
      /\ \A s \in Handlers \ {Bot} :
           /\ sender'[s].pc = sender[s].pc /\ sender'[s].todo = sender[s].todo
           /\ sender'[s].current = sender[s].current /\ sender'[s].result = sender[s].result
           /\ sender'[s].transient = sender[s].transient
  BY <1>1, <1>5, <1>6
<1>9. sender' \in [Handlers -> SenderRow]
  BY <1>4, <1>5, <1>6, <1>7
<1>10. shared \subseteq shared' /\ shared' \subseteq Recipients
  BY <1>1, <1>3
<1>11. SendersFit'
  <2> SUFFICES ASSUME NEW s \in Handlers PROVE RowFits(sender'[s])
    BY DEF SendersFit, RowFits
  <2>1. RowFits(sender[s])
    BY <1>1 DEF SendersFit, RowFits
  <2>2. QED
    BY <1>4, <1>8, <2>1 DEF RowFits
<1>12. HeldByOne'
  <2> SUFFICES ASSUME NEW s \in Handlers, NEW t \in Handlers,
                      NEW x \in (Held(s)' \cap Held(t)') \ shared'
               PROVE  s = t
    BY DEF HeldByOne
  <2>1. \A u \in Handlers \ {Bot} : Held(u)' = Held(u)
    BY <1>8 DEF Held
  <2>2. Held(Bot)' = list
    BY <1>4, <1>8 DEF Held
  <2>3. x \in list => \A u \in Handlers \ {Bot} : x \notin Held(u)
    BY <1>1, <1>3 DEF Held
  <2>4. QED
    BY <1>1, <1>10, <2>1, <2>2, <2>3 DEF HeldByOne
<1>13. ASSUME NEW x \in Recipients \ shared'
       PROVE  /\ delivered[x] <= unrecorded[x] + 1
              /\ delivered[x] > unrecorded[x] =>
                   \/ recipient'[x] = "sent" /\ \A s \in Handlers : x \notin Held(s)'
                   \/ \E s \in Senders :
                        x \in sender'[s].current /\ sender'[s].pc = "mark" /\ sender'[s].result = "sent"
  <2>1. x \in Recipients \ shared
    BY <1>10
  <2>2. delivered[x] <= unrecorded[x] + 1
    BY <1>1, <2>1 DEF DeliveredOnce
  <2>3. CASE recipient[x] = "sent" /\ \A s \in Handlers : x \notin Held(s)
    <3>1. recipient'[x] = "sent" /\ x \notin list
      BY <1>3, <2>3
    <3>2. \A s \in Handlers : x \notin Held(s)'
      <4>1. sender'[Bot].todo = list /\ sender'[Bot].current = {}
        BY <1>4, <1>8
      <4>2. x \notin Held(Bot)'
        BY <3>1, <4>1 DEF Held
      <4>3. \A s \in Handlers \ {Bot} : x \notin Held(s)'
        BY <1>8, <2>3 DEF Held
      <4>4. QED
        BY <4>2, <4>3
    <3>3. QED
      BY <2>2, <3>1, <3>2
  <2>4. ASSUME NEW s \in Senders,
               x \in sender[s].current, sender[s].pc = "mark", sender[s].result = "sent"
        PROVE  x \in sender'[s].current /\ sender'[s].pc = "mark" /\ sender'[s].result = "sent"
    BY <1>2, <1>8, <2>4 DEF Handlers
  <2>5. QED
    BY <1>1, <2>1, <2>2, <2>3, <2>4 DEF DeliveredOnce
<1>14. DeliveredOnce'
  BY <1>2, <1>13 DEF DeliveredOnce
<1>15. BroadcastTypeOK'
  BY <1>1, <1>2, <1>3, <1>9, <1>10 DEF BroadcastTypeOK, CampaignStatus, SenderRow, Handlers
<1>16. QED
  BY <1>11, <1>12, <1>14, <1>15 DEF BroadcastInv

(* The row of a handler's current recipient fits. *)
LEMMA CurrentRow ==
  ASSUME BroadcastInv, NEW s \in Senders
  PROVE  /\ sender[s] \in SenderRow /\ RowFits(sender[s]) /\ s \in Handlers
         /\ Senders \subseteq Handlers
<1>1. s \in Handlers /\ Senders \subseteq Handlers
  BY DEF Handlers
<1>2. sender[s] \in SenderRow
  BY <1>1 DEF BroadcastInv, BroadcastTypeOK, SenderRow, Handlers
<1>3. RowFits(sender[s])
  BY <1>1 DEF BroadcastInv, SendersFit, RowFits
<1>4. QED
  BY <1>1, <1>2, <1>3

(* The next recipient is taken. *)
LEMMA TakeKeep ==
  ASSUME BroadcastInv, NEW s \in Senders, NEW x \in Recipients, TakeNext(s, x)
  PROVE  BroadcastInv'
<1>1. /\ sender[s].pc = "loop" /\ x \in sender[s].todo
      /\ Become(s, [sender[s] EXCEPT !.pc = "call", !.todo = @ \ {x}, !.current = {x}])
      /\ UNCHANGED <<campaign, recipient, delivered, unrecorded, retries, passes, broadcastFaults>>
  BY DEF TakeNext
<1>2. sender[s] \in SenderRow /\ RowFits(sender[s]) /\ s \in Handlers
  BY CurrentRow
<1>3. PICK row \in SenderRow :
        /\ row = [sender[s] EXCEPT !.pc = "call", !.todo = @ \ {x}, !.current = {x}]
        /\ row.pc = "call" /\ row.todo = sender[s].todo \ {x} /\ row.current = {x}
        /\ row.transient = sender[s].transient
  <2> DEFINE new == [sender[s] EXCEPT !.pc = "call", !.todo = @ \ {x}, !.current = {x}]
  <2>1. /\ new.pc = "call" /\ new.todo = sender[s].todo \ {x} /\ new.current = {x}
        /\ new.transient = sender[s].transient
    BY <1>2 DEF SenderRow
  <2>2. sender[s].todo \ {x} \in SUBSET Recipients /\ {x} \in SUBSET Recipients
    BY <1>2 DEF SenderRow
  <2>3. new \in SenderRow
    BY <1>2, <2>2 DEF SenderRow
  <2>4. QED
    BY <2>1, <2>3
<1>4. RowFits(row)
  BY <1>1, <1>2, <1>3 DEF RowFits
<1>5. Become(s, row)
  BY <1>1, <1>3
<1>6. \A y \in Recipients : y \notin Held(s) => y \notin row.todo /\ y \notin row.current
  BY <1>1, <1>3 DEF Held
<1>7. /\ campaign' \in CampaignStatus /\ recipient' \in [Recipients -> RecipientStatus]
      /\ retries' \in 0..MaxRetries /\ passes' \in 0..MaxPasses
  BY <1>1 DEF BroadcastInv, BroadcastTypeOK
<1>8. QED
  BY <1>1, <1>2, <1>4, <1>5, <1>6, <1>7, QuietKeeps

(* A recipient in a handler's hands that was never shared: nobody else has *)
(* it, and before its message is sent and acknowledged none is recorded.   *)
LEMMA InHand ==
  ASSUME BroadcastInv, NEW s \in Senders, NEW x \in sender[s].current \ shared, x \in Recipients
  PROVE  /\ \A t \in Handlers \ {s} : x \notin Held(t)
         /\ delivered[x] \in Nat /\ unrecorded[x] \in Nat /\ delivered[x] <= unrecorded[x] + 1
         /\ ~(sender[s].pc = "mark" /\ sender[s].result = "sent") => delivered[x] <= unrecorded[x]
<1>1. s \in Handlers /\ Senders \subseteq Handlers
  BY CurrentRow
<1>2. \A t \in Handlers \ {s} : x \notin Held(t)
  BY <1>1 DEF BroadcastInv, HeldByOne, Held
<1>3. delivered[x] \in Nat /\ unrecorded[x] \in Nat
  BY DEF BroadcastInv, BroadcastTypeOK
<1>4. x \in Held(s)
  BY DEF Held
<1>5. \A t \in Senders : x \in sender[t].current => t = s
  BY <1>1, <1>2 DEF Held
<1>6. /\ delivered[x] <= unrecorded[x] + 1
      /\ delivered[x] > unrecorded[x] =>
           \/ recipient[x] = "sent" /\ \A t \in Handlers : x \notin Held(t)
           \/ \E t \in Senders :
                x \in sender[t].current /\ sender[t].pc = "mark" /\ sender[t].result = "sent"
  BY DEF BroadcastInv, DeliveredOnce
<1>7. ~(sender[s].pc = "mark" /\ sender[s].result = "sent") => ~(delivered[x] > unrecorded[x])
  BY <1>1, <1>4, <1>5, <1>6
<1>8. QED
  BY <1>2, <1>3, <1>6, <1>7

(* What a step of one handler leaves of another recipient's delivery. *)
LEMMA OthersKeep ==
  ASSUME BroadcastInv, NEW s \in Senders, NEW y \in Recipients \ shared,
         \A t \in Handlers \ {s} : sender'[t] = sender[t],
         recipient'[y] = recipient[y], delivered'[y] = delivered[y],
         unrecorded'[y] \in Nat, unrecorded[y] <= unrecorded'[y],
         y \notin sender[s].current, y \notin sender'[s].current,
         y \in sender'[s].todo => y \in sender[s].todo
  PROVE  /\ delivered'[y] <= unrecorded'[y] + 1
         /\ delivered'[y] > unrecorded'[y] =>
              \/ recipient'[y] = "sent" /\ \A t \in Handlers : y \notin Held(t)'
              \/ \E t \in Senders :
                   y \in sender'[t].current /\ sender'[t].pc = "mark" /\ sender'[t].result = "sent"
<1>1. s \in Handlers /\ Senders \subseteq Handlers
  BY CurrentRow
<1>2. delivered[y] \in Nat /\ unrecorded[y] \in Nat
  BY DEF BroadcastInv, BroadcastTypeOK
<1>3. /\ delivered[y] <= unrecorded[y] + 1
      /\ delivered[y] > unrecorded[y] =>
           \/ recipient[y] = "sent" /\ \A t \in Handlers : y \notin Held(t)
           \/ \E t \in Senders :
                y \in sender[t].current /\ sender[t].pc = "mark" /\ sender[t].result = "sent"
  BY DEF BroadcastInv, DeliveredOnce
<1>4. delivered'[y] <= unrecorded'[y] + 1
  BY <1>2, <1>3
<1>5. ASSUME delivered'[y] > unrecorded'[y] PROVE delivered[y] > unrecorded[y]
  BY <1>2, <1>5
<1>6. ASSUME \A t \in Handlers : y \notin Held(t) PROVE \A t \in Handlers : y \notin Held(t)'
  <2>1. y \notin Held(s)'
    BY <1>1, <1>6 DEF Held
  <2>2. \A t \in Handlers \ {s} : y \notin Held(t)'
    BY <1>6 DEF Held
  <2>3. QED
    BY <2>1, <2>2
<1>7. \A t \in Senders : y \in sender[t].current => sender'[t] = sender[t]
  BY <1>1
<1>8. QED
  BY <1>3, <1>4, <1>5, <1>6, <1>7

(* A message goes out, or not. *)
LEMMA CallKeep ==
  ASSUME BroadcastInv, NEW s \in Senders, NEW x \in Recipients, NEW got \in BOOLEAN,
         NEW result \in {"sent", "skipped"} \cup Failed, Call(s, x, got, result)
  PROVE  BroadcastInv'
<1> USE BroadcastAssumption
<1>1. /\ BroadcastTypeOK /\ SendersFit /\ HeldByOne /\ DeliveredOnce
      /\ delivered \in [Recipients -> Nat] /\ unrecorded \in [Recipients -> Nat]
      /\ broadcastFaults \in 0..MaxBroadcastFaults
  BY DEF BroadcastInv, BroadcastTypeOK
<1>2. PICK g \in {0, 1}, u \in {0, 1} :
        g = (IF got THEN 1 ELSE 0) /\ u = (IF got /\ result # "sent" THEN 1 ELSE 0)
  OBVIOUS
<1>3. /\ sender[s].pc = "call" /\ x \in sender[s].current /\ (result = "sent" => got)
      /\ got /\ result # "sent" => broadcastFaults < MaxBroadcastFaults
      /\ delivered' = [delivered EXCEPT ![x] = @ + g]
      /\ unrecorded' = [unrecorded EXCEPT ![x] = @ + u]
      /\ broadcastFaults' = broadcastFaults + u
      /\ Become(s, [sender[s] EXCEPT !.pc = "mark", !.result = result])
      /\ UNCHANGED <<campaign, recipient, retries, passes>>
  BY <1>2 DEF Call
<1>4. sender[s] \in SenderRow /\ RowFits(sender[s]) /\ s \in Handlers /\ Senders \subseteq Handlers
  BY CurrentRow
<1>5. PICK row \in SenderRow :
        /\ row = [sender[s] EXCEPT !.pc = "mark", !.result = result]
        /\ row.pc = "mark" /\ row.result = result /\ row.todo = sender[s].todo
        /\ row.current = sender[s].current /\ row.transient = sender[s].transient
  <2> DEFINE new == [sender[s] EXCEPT !.pc = "mark", !.result = result]
  <2>1. /\ new.pc = "mark" /\ new.result = result /\ new.todo = sender[s].todo
        /\ new.current = sender[s].current /\ new.transient = sender[s].transient
    BY <1>4 DEF SenderRow
  <2>2. result \in {"none", "queued", "failed"} \cup RecipientStatus
    BY DEF RecipientStatus
  <2>3. new \in SenderRow
    BY <1>4, <2>2 DEF SenderRow
  <2>4. QED
    BY <2>1, <2>3
<1>6. RowFits(row)
  BY <1>3, <1>4, <1>5 DEF RowFits, RecipientStatus
<1>7. Become(s, row)
  BY <1>3, <1>5
<1>8. /\ sender' \in [Handlers -> SenderRow] /\ sender'[s] = row
      /\ \A t \in Handlers \ {s} : sender'[t] = sender[t]
      /\ shared \subseteq shared' /\ shared' \subseteq Recipients
      /\ SendersFit' /\ HeldByOne'
  BY <1>1, <1>4, <1>6, <1>7, HandlerBecomes
<1>9. /\ delivered' \in [Recipients -> Nat] /\ unrecorded' \in [Recipients -> Nat]
      /\ delivered'[x] = delivered[x] + g /\ unrecorded'[x] = unrecorded[x] + u
      /\ \A y \in Recipients \ {x} : delivered'[y] = delivered[y] /\ unrecorded'[y] = unrecorded[y]
  BY <1>1, <1>3
<1>10. broadcastFaults' \in 0..MaxBroadcastFaults
  BY <1>1, <1>2, <1>3
<1>11. \A y \in sender[s].current : y = x
  BY <1>3, <1>4 DEF RowFits
<1>12. ASSUME NEW y \in Recipients \ shared'
       PROVE  /\ delivered'[y] <= unrecorded'[y] + 1
              /\ delivered'[y] > unrecorded'[y] =>
                   \/ recipient'[y] = "sent" /\ \A t \in Handlers : y \notin Held(t)'
                   \/ \E t \in Senders :
                        y \in sender'[t].current /\ sender'[t].pc = "mark" /\ sender'[t].result = "sent"
  <2>1. y \in Recipients \ shared
    BY <1>8
  <2>2. CASE y = x
    <3>1. delivered[x] \in Nat /\ unrecorded[x] \in Nat /\ delivered[x] <= unrecorded[x]
      BY <1>3, <2>1, <2>2, InHand
    <3>2. delivered'[y] <= unrecorded'[y] + 1
      BY <1>9, <2>2, <3>1
    <3>3. delivered'[y] > unrecorded'[y] => result = "sent"
      BY <1>2, <1>9, <2>2, <3>1
    <3>4. x \in sender'[s].current /\ sender'[s].pc = "mark" /\ sender'[s].result = result
      BY <1>3, <1>5, <1>8
    <3>5. QED
      BY <2>2, <3>2, <3>3, <3>4
  <2>3. CASE y # x
    <3>1. /\ y \notin sender[s].current /\ y \notin sender'[s].current
          /\ sender'[s].todo = sender[s].todo
      BY <1>5, <1>8, <1>11, <2>3
    <3>2. /\ recipient'[y] = recipient[y] /\ delivered'[y] = delivered[y]
          /\ unrecorded'[y] \in Nat /\ unrecorded[y] <= unrecorded'[y]
      BY <1>1, <1>3, <1>9, <2>3
    <3>3. QED
      BY <1>8, <2>1, <3>1, <3>2, OthersKeep
  <2>4. QED
    BY <2>2, <2>3
<1>13. DeliveredOnce'
  BY <1>12 DEF DeliveredOnce
<1>14. BroadcastTypeOK'
  BY <1>1, <1>3, <1>8, <1>9, <1>10 DEF BroadcastTypeOK, SenderRow, Handlers
<1>15. QED
  BY <1>8, <1>13, <1>14 DEF BroadcastInv

(* A handler stops with its recipient: dead, or its row is gone.  What it  *)
(* had sent becomes unrecorded.                                            *)
LEMMA StopKeep ==
  ASSUME BroadcastInv, NEW s \in Senders, Become(s, Resting),
         unrecorded' \in [Recipients -> Nat],
         \A x \in Recipients : unrecorded[x] <= unrecorded'[x],
         \A x \in sender[s].current : sender[s].result = "sent" => unrecorded'[x] = unrecorded[x] + 1,
         broadcastFaults' \in 0..MaxBroadcastFaults,
         UNCHANGED <<campaign, recipient, delivered, retries, passes>>
  PROVE  BroadcastInv'
<1>1. /\ BroadcastTypeOK /\ SendersFit /\ HeldByOne
      /\ sender[s].current \subseteq Recipients
      /\ s \in Handlers /\ RowFits(sender[s]) /\ Senders \subseteq Handlers
  BY CurrentRow DEF BroadcastInv, SenderRow
<1>2. Resting \in SenderRow /\ RowFits(Resting) /\ Resting.todo = {} /\ Resting.current = {}
  BY RestingRows
<1>3. /\ sender' \in [Handlers -> SenderRow] /\ sender'[s] = Resting
      /\ \A t \in Handlers \ {s} : sender'[t] = sender[t]
      /\ shared \subseteq shared' /\ shared' \subseteq Recipients
      /\ SendersFit' /\ HeldByOne'
  BY <1>1, <1>2, HandlerBecomes
<1>4. ASSUME NEW y \in Recipients \ shared'
      PROVE  /\ delivered'[y] <= unrecorded'[y] + 1
             /\ delivered'[y] > unrecorded'[y] =>
                  \/ recipient'[y] = "sent" /\ \A t \in Handlers : y \notin Held(t)'
                  \/ \E t \in Senders :
                       y \in sender'[t].current /\ sender'[t].pc = "mark" /\ sender'[t].result = "sent"
  <2>1. y \in Recipients \ shared
    BY <1>3
  <2>2. CASE y \in sender[s].current
    <3>1. /\ delivered[y] \in Nat /\ unrecorded[y] \in Nat /\ delivered[y] <= unrecorded[y] + 1
          /\ sender[s].result # "sent" => delivered[y] <= unrecorded[y]
      BY <2>1, <2>2, InHand
    <3>2. unrecorded'[y] \in Nat /\ unrecorded[y] <= unrecorded'[y] /\ delivered'[y] = delivered[y]
      BY <2>1
    <3>3. sender[s].result = "sent" => unrecorded'[y] = unrecorded[y] + 1
      BY <2>2
    <3>4. delivered'[y] <= unrecorded'[y]
      BY <3>1, <3>2, <3>3
    <3>5. delivered'[y] <= unrecorded'[y] + 1 /\ ~(delivered'[y] > unrecorded'[y])
      BY <3>1, <3>2, <3>4
    <3>6. QED
      BY <3>5
  <2>3. CASE y \notin sender[s].current
    <3>1. y \notin sender'[s].current /\ y \notin sender'[s].todo
      BY <1>2, <1>3
    <3>2. QED
      BY <1>3, <2>1, <2>3, <3>1, OthersKeep
  <2>4. QED
    BY <2>2, <2>3
<1>5. DeliveredOnce'
  BY <1>4 DEF DeliveredOnce
<1>6. BroadcastTypeOK'
  BY <1>1, <1>3 DEF BroadcastTypeOK, SenderRow, Handlers
<1>7. QED
  BY <1>3, <1>5, <1>6 DEF BroadcastInv

(* The process dies. *)
LEMMA DeathKeep ==
  ASSUME BroadcastInv, NEW s \in Senders, SenderDies(s)
  PROVE  BroadcastInv'
<1> USE BroadcastAssumption
<1>1. /\ unrecorded \in [Recipients -> Nat] /\ broadcastFaults \in 0..MaxBroadcastFaults
      /\ sender[s].current \subseteq Recipients
  BY CurrentRow DEF BroadcastInv, BroadcastTypeOK, SenderRow
<1> DEFINE more(x) == IF x \in sender[s].current /\ sender[s].result = "sent" THEN 1 ELSE 0
<1>2. /\ broadcastFaults < MaxBroadcastFaults /\ broadcastFaults' = broadcastFaults + 1
      /\ unrecorded' = [x \in Recipients |-> unrecorded[x] + more(x)]
      /\ Become(s, Resting) /\ UNCHANGED <<campaign, recipient, delivered, retries, passes>>
  BY DEF SenderDies
<1>3. \A x \in Recipients : /\ more(x) \in {0, 1} /\ unrecorded[x] \in Nat
                            /\ x \in sender[s].current /\ sender[s].result = "sent" => more(x) = 1
  BY <1>1
<1> HIDE DEF more
<1>4. \A x \in Recipients : unrecorded[x] + more(x) \in Nat /\ unrecorded[x] <= unrecorded[x] + more(x)
  BY <1>3
<1>5. /\ unrecorded' \in [Recipients -> Nat]
      /\ \A x \in Recipients : unrecorded'[x] = unrecorded[x] + more(x)
  BY <1>2, <1>4
<1>6. \A x \in Recipients : unrecorded[x] <= unrecorded'[x]
  BY <1>4, <1>5
<1>7. \A x \in sender[s].current : sender[s].result = "sent" => unrecorded'[x] = unrecorded[x] + 1
  BY <1>1, <1>3, <1>5
<1>8. broadcastFaults' \in 0..MaxBroadcastFaults
  BY <1>1, <1>2
<1>9. QED
  BY <1>2, <1>5, <1>6, <1>7, <1>8, StopKeep

(* The result of a call is marked, or its row is gone. *)
LEMMA MarkKeep ==
  ASSUME BroadcastInv, NEW s \in Senders, NEW x \in Recipients, MarkRecipient(s, x)
  PROVE  BroadcastInv'
<1> USE BroadcastAssumption
<1>1. /\ BroadcastTypeOK /\ SendersFit /\ HeldByOne /\ unrecorded \in [Recipients -> Nat]
      /\ delivered \in [Recipients -> Nat] /\ recipient \in [Recipients -> RecipientStatus]
      /\ broadcastFaults \in 0..MaxBroadcastFaults
  BY DEF BroadcastInv, BroadcastTypeOK
<1>2. sender[s] \in SenderRow /\ RowFits(sender[s]) /\ s \in Handlers /\ Senders \subseteq Handlers
  BY CurrentRow
<1>3. /\ sender[s].pc = "mark" /\ x \in sender[s].current
      /\ UNCHANGED <<campaign, delivered, retries, passes, broadcastFaults>>
  BY DEF MarkRecipient
<1>4. /\ \A y \in sender[s].current : y = x
      /\ sender[s].result \in RecipientStatus /\ x \notin sender[s].todo
      /\ sender[s].transient < MaxTransient /\ sender[s].transient \in 0..MaxTransient
  BY <1>2, <1>3 DEF RowFits, SenderRow
<1>5. CASE x \in sender[s].deleted
  <2>1. PICK k \in {0, 1} : k = IF sender[s].result = "sent" THEN 1 ELSE 0
    OBVIOUS
  <2>2. /\ Become(s, Resting) /\ UNCHANGED recipient
        /\ unrecorded' = [unrecorded EXCEPT ![x] = @ + k]
    BY <1>5, <2>1 DEF MarkRecipient
  <2>3. /\ unrecorded' \in [Recipients -> Nat] /\ unrecorded'[x] = unrecorded[x] + k
        /\ \A y \in Recipients : unrecorded[y] <= unrecorded'[y]
    BY <1>1, <2>2
  <2>4. \A y \in sender[s].current : sender[s].result = "sent" => unrecorded'[y] = unrecorded[y] + 1
    BY <1>4, <2>1, <2>3
  <2>5. QED
    BY <1>1, <1>3, <2>2, <2>3, <2>4, StopKeep
<1>6. CASE x \notin sender[s].deleted
  <2>1. PICK k \in 0..MaxTransient : k = IF s = Bot THEN 0 ELSE Transient(s)
    BY <1>4 DEF Transient
  <2>2. PICK rest \in SUBSET Recipients : rest = IF Breaks(s) THEN {} ELSE sender[s].todo
    BY <1>2 DEF SenderRow
  <2>3. rest \subseteq sender[s].todo /\ (rest # {} => k < MaxTransient)
    <3>1. rest \subseteq sender[s].todo
      BY <2>2
    <3>2. ASSUME ~Breaks(s), s # Bot PROVE ~(Transient(s) >= MaxTransient)
      BY <3>2 DEF Breaks
    <3>3. ASSUME rest # {} PROVE k < MaxTransient
      <4>1. ~Breaks(s)
        BY <2>2, <3>3
      <4>2. QED
        BY <2>1, <3>2, <4>1
    <3>4. QED
      BY <3>1, <3>3
  <2> DEFINE new == [sender[s] EXCEPT !.pc = "loop", !.current = {}, !.result = "none",
                                      !.todo = rest, !.transient = k]
  <2>4. /\ recipient' = [recipient EXCEPT ![x] = sender[s].result]
        /\ Become(s, new) /\ UNCHANGED unrecorded
    BY <1>6, <2>1, <2>2 DEF MarkRecipient
  <2>5. PICK row \in SenderRow :
          /\ row = new /\ row.pc = "loop" /\ row.current = {} /\ row.todo = rest /\ row.transient = k
    <3>1. new.pc = "loop" /\ new.current = {} /\ new.todo = rest /\ new.transient = k
      BY <1>2 DEF SenderRow
    <3>2. new \in SenderRow
      BY <1>2 DEF SenderRow
    <3>3. QED
      BY <3>1, <3>2
  <2>6. RowFits(row)
    BY <2>3, <2>5 DEF RowFits
  <2>7. Become(s, row)
    BY <2>4, <2>5
  <2>8. /\ sender' \in [Handlers -> SenderRow] /\ sender'[s] = row
        /\ \A t \in Handlers \ {s} : sender'[t] = sender[t]
        /\ shared \subseteq shared' /\ shared' \subseteq Recipients
        /\ SendersFit' /\ HeldByOne'
    BY <1>1, <1>2, <2>6, <2>7, HandlerBecomes
  <2>9. /\ recipient' \in [Recipients -> RecipientStatus] /\ recipient'[x] = sender[s].result
        /\ \A y \in Recipients \ {x} : recipient'[y] = recipient[y]
    BY <1>1, <1>4, <2>4
  <2>10. ASSUME NEW y \in Recipients \ shared'
         PROVE  /\ delivered'[y] <= unrecorded'[y] + 1
                /\ delivered'[y] > unrecorded'[y] =>
                     \/ recipient'[y] = "sent" /\ \A t \in Handlers : y \notin Held(t)'
                     \/ \E t \in Senders :
                          y \in sender'[t].current /\ sender'[t].pc = "mark" /\ sender'[t].result = "sent"
    <3>1. y \in Recipients \ shared
      BY <2>8
    <3>2. CASE y = x
      <4>1. /\ \A t \in Handlers \ {s} : x \notin Held(t)
            /\ delivered[x] \in Nat /\ unrecorded[x] \in Nat /\ delivered[x] <= unrecorded[x] + 1
            /\ sender[s].result # "sent" => delivered[x] <= unrecorded[x]
        BY <1>3, <3>1, <3>2, InHand
      <4>2. delivered'[x] = delivered[x] /\ unrecorded'[x] = unrecorded[x]
        BY <1>3, <2>4
      <4>3. \A t \in Handlers : x \notin Held(t)'
        <5>1. x \notin Held(s)'
          BY <1>4, <2>3, <2>5, <2>8 DEF Held
        <5>2. \A t \in Handlers \ {s} : x \notin Held(t)'
          BY <2>8, <4>1 DEF Held
        <5>3. QED
          BY <5>1, <5>2
      <4>4. delivered'[x] > unrecorded'[x] => recipient'[x] = "sent"
        BY <2>9, <4>1, <4>2
      <4>5. QED
        BY <3>2, <4>1, <4>2, <4>3, <4>4
    <3>3. CASE y # x
      <4>1. /\ y \notin sender[s].current /\ y \notin sender'[s].current
            /\ sender'[s].todo \subseteq sender[s].todo
        BY <1>4, <2>3, <2>5, <2>8, <3>3
      <4>2. /\ recipient'[y] = recipient[y] /\ delivered'[y] = delivered[y]
            /\ unrecorded'[y] \in Nat /\ unrecorded[y] <= unrecorded'[y]
        BY <1>1, <1>3, <2>4, <2>9, <3>3
      <4>3. QED
        BY <2>8, <3>1, <4>1, <4>2, OthersKeep
    <3>4. QED
      BY <3>2, <3>3
  <2>11. DeliveredOnce'
    BY <2>10 DEF DeliveredOnce
  <2>12. BroadcastTypeOK'
    BY <1>1, <1>3, <2>4, <2>8, <2>9 DEF BroadcastTypeOK, SenderRow, Handlers
  <2>13. QED
    BY <2>8, <2>11, <2>12 DEF BroadcastInv
<1>7. QED
  BY <1>5, <1>6

(* Every step of a campaign keeps the invariant. *)
LEMMA BroadcastKeep == BroadcastInv /\ [BroadcastNext]_broadcastVars => BroadcastInv'
<1> SUFFICES ASSUME BroadcastInv, [BroadcastNext]_broadcastVars PROVE BroadcastInv'
  OBVIOUS
<1>1. CASE UNCHANGED broadcastVars
  <2>1. BroadcastTypeOK'
    BY <1>1 DEF broadcastVars, BroadcastInv, BroadcastTypeOK
  <2>2. SendersFit' /\ HeldByOne' /\ DeliveredOnce'
    BY <1>1 DEF broadcastVars, BroadcastInv, SendersFit, HeldByOne, DeliveredOnce, Held
  <2>3. QED
    BY <2>1, <2>2 DEF BroadcastInv
<1>2. CASE QueueCampaign \/ CancelCampaign \/ RetryRead \/ RetryWrite \/ BotStarts
  BY <1>2, StaffKeep, BotKeep
<1>3. ASSUME NEW s \in Senders,
             \/ ListCampaigns(s) \/ OpenCampaign(s) \/ Refuse(s) \/ ResumeFailed(s)
             \/ StartSending(s) \/ ListPending(s) \/ EndLoop(s) \/ CloseCampaign(s)
      PROVE  BroadcastInv'
  BY <1>3, ProcessorKeep
<1>4. ASSUME NEW s \in Senders, SenderDies(s) PROVE BroadcastInv'
  BY <1>4, DeathKeep
<1>5. ASSUME NEW s \in Senders, NEW x \in Recipients, TakeNext(s, x) \/ MarkRecipient(s, x)
      PROVE  BroadcastInv'
  BY <1>5, TakeKeep, MarkKeep
<1>6. ASSUME NEW s \in Senders, NEW x \in Recipients, NEW got \in BOOLEAN,
             NEW result \in {"sent", "skipped"} \cup Failed, Call(s, x, got, result)
      PROVE  BroadcastInv'
  BY <1>6, CallKeep
<1>7. QED
  BY <1>1, <1>2, <1>3, <1>4, <1>5, <1>6 DEF BroadcastNext

(* A second message needs one that was not recorded. *)
LEMMA BroadcastMeans == BroadcastInv => ResentOnlyUnrecorded
BY DEF BroadcastInv, DeliveredOnce, ResentOnlyUnrecorded

-----------------------------------------------------------------------------
(* Who uses what was bought. *)

Moments == Times \cup {NoTime}
TrafficRow == [used: 0..MaxUsed, plan: {1, 2}, use: Moments, epoch: 0..MaxResets]
CollectorRow == [pc: {"idle", "read", "panel", "resolve", "record", "finish"}, sample: Sample]
Qualities == {"none", "ok", "baseline", "gap", "counter_reset", "mapping_changed",
              "cycle_changed", "stale", "missing_counters"}
ActivityRow == [sample: Sample, observed: Moments, quality: Qualities, since: Moments,
                start: Moments, at: Moments, cycle: {0, 1}]

(* The type invariant, in these rows. *)
LEMMA ActivityTypes ==
  ActivityTypeOK <=>
    /\ time \in Times /\ masked \in BOOLEAN /\ traffic \in TrafficRow
    /\ lease \in [token: SUBSET Collectors, until: NoTime..(MaxTime + Lease)]
    /\ collector \in [Collectors -> CollectorRow] /\ activity \in ActivityRow
BY DEF ActivityTypeOK, TrafficRow, CollectorRow, ActivityRow, Qualities, Moments

(* The same, of the next state. *)
LEMMA ActivityTypesNext ==
  /\ time' \in Times /\ masked' \in BOOLEAN /\ traffic' \in TrafficRow
  /\ lease' \in [token: SUBSET Collectors, until: NoTime..(MaxTime + Lease)]
  /\ collector' \in [Collectors -> CollectorRow] /\ activity' \in ActivityRow
  => ActivityTypeOK'
BY DEF ActivityTypeOK, TrafficRow, CollectorRow, ActivityRow, Qualities, Moments

(* Moments are integers, and NoTime is before all of them. *)
LEMMA MomentsAreNumbers ==
  /\ NoTime \in Int /\ NoTime < 0 /\ \A m \in Moments : m \in Int /\ NoTime <= m
  /\ \A m \in Moments : m # NoTime => m \in Times
  /\ \A s \in Sample : s.at \in Moments /\ s.use \in Moments /\ s.used \in Nat /\ s.epoch \in Nat
  /\ NoSample \in Sample /\ NoSample.at = NoTime
  /\ NoSample.coverage = "missing" /\ NoSample.use = NoTime
<1> USE ActivityAssumption
<1>1. NoTime \in Int /\ NoTime < 0 /\ \A m \in Moments : m \in Int /\ NoTime <= m
  BY DEF NoTime, Moments, Times
<1>2. \A m \in Moments : m # NoTime => m \in Times
  BY DEF Moments
<1>3. \A s \in Sample : s.at \in Moments /\ s.use \in Moments /\ s.used \in Nat /\ s.epoch \in Nat
  BY DEF Sample, Moments
<1>4. NoSample \in Sample
  BY DEF NoSample, Sample
<1>5. NoSample.at = NoTime /\ NoSample.coverage = "missing" /\ NoSample.use = NoTime
  BY DEF NoSample
<1>6. QED
  BY <1>1, <1>2, <1>3, <1>4, <1>5

(* The samples that exist are samples. *)
LEMMA SamplesTyped == ActivityTypeOK => Samples \subseteq Sample
<1> SUFFICES ASSUME ActivityTypeOK PROVE Samples \subseteq Sample
  OBVIOUS
<1>1. activity.sample \in Sample /\ \A c \in Collectors : collector[c].sample \in Sample
  BY ActivityTypes DEF ActivityRow, CollectorRow
<1>2. QED
  BY <1>1 DEF Samples

(* At first there is no sample. *)
LEMMA ActivityStart == ActivityInit => ActivityInv
<1> SUFFICES ASSUME ActivityInit PROVE ActivityInv
  OBVIOUS
<1> USE ActivityAssumption
<1>1. Stopped \in CollectorRow /\ Stopped.sample = NoSample
  BY MomentsAreNumbers DEF Stopped, CollectorRow
<1>2. 0 \in Times /\ NoTime \in Moments /\ NoTime \in NoTime..(MaxTime + Lease)
  BY DEF Times, Moments, NoTime
<1>3. traffic \in TrafficRow
  BY <1>2 DEF ActivityInit, TrafficRow
<1>4. activity \in ActivityRow /\ activity.sample = NoSample /\ activity.since = NoTime
  BY <1>2, MomentsAreNumbers DEF ActivityInit, ActivityRow, Qualities
<1>5. collector \in [Collectors -> CollectorRow] /\ \A c \in Collectors : collector[c].sample = NoSample
  BY <1>1 DEF ActivityInit
<1>6. lease \in [token: SUBSET Collectors, until: NoTime..(MaxTime + Lease)] /\ lease.token = {}
  BY <1>2 DEF ActivityInit
<1>7. ActivityTypeOK
  BY <1>2, <1>3, <1>4, <1>5, <1>6, ActivityTypes DEF ActivityInit
<1>8. Samples = {}
  BY <1>4, <1>5, MomentsAreNumbers DEF Samples
<1>9. traffic.use <= time
  BY DEF ActivityInit, NoTime
<1>10. SamplesTrue
  BY <1>8, <1>9 DEF SamplesTrue
<1>11. UseOnRecord /\ CoverageFits
  BY <1>4, <1>5, MomentsAreNumbers DEF UseOnRecord, CoverageFits
<1>12. HolderIsLatest
  BY <1>5, MomentsAreNumbers DEF HolderIsLatest
<1>13. QED
  BY <1>7, <1>10, <1>11, <1>12 DEF ActivityInv

(* Without a new sample, and as time passes, the samples stay true. *)
LEMMA SamplesKept ==
  ASSUME ActivityTypeOK, SamplesTrue, Samples' \subseteq Samples, UNCHANGED traffic,
         time' = time \/ time' = time + 1
  PROVE  SamplesTrue'
<1>1. time \in Int /\ traffic.use \in Int
  BY ActivityTypes, MomentsAreNumbers DEF TrafficRow, Times
<1>2. \A s \in Samples : s.at \in Int
  BY SamplesTyped, MomentsAreNumbers
<1>3. traffic'.use <= time'
  BY <1>1 DEF SamplesTrue
<1>4. \A s \in Samples : s.at <= time'
  BY <1>1, <1>2 DEF SamplesTrue
<1>5. QED
  BY <1>3, <1>4 DEF SamplesTrue

(* A collector goes on without a new sample. *)
LEMMA CollectorGoesOn ==
  ASSUME ActivityTypeOK, NEW c \in Collectors, NEW row \in CollectorRow,
         collector' = [collector EXCEPT ![c] = row],
         row.sample = NoSample \/ row.sample = collector[c].sample
  PROVE  /\ collector' \in [Collectors -> CollectorRow] /\ collector'[c] = row
         /\ \A d \in Collectors \ {c} : collector'[d] = collector[d]
         /\ activity'.sample \in {activity.sample, collector[c].sample, NoSample} =>
              Samples' \subseteq Samples
<1>1. collector \in [Collectors -> CollectorRow]
  BY ActivityTypes
<1>2. /\ collector' \in [Collectors -> CollectorRow] /\ collector'[c] = row
      /\ \A d \in Collectors \ {c} : collector'[d] = collector[d]
  BY <1>1
<1>3. \A d \in Collectors : collector'[d].sample \in {NoSample, collector[d].sample}
  BY <1>2
<1>4. ASSUME activity'.sample \in {activity.sample, collector[c].sample, NoSample}
      PROVE  Samples' \subseteq Samples
  BY <1>3, <1>4, MomentsAreNumbers DEF Samples
<1>5. QED
  BY <1>2, <1>4

(* What record_purchase writes: a quality, and a sample that is usable.    *)
(* Where the record goes on, the counter has not gone back.                *)
LEMMA RecordedSample ==
  ASSUME ActivityTypeOK, NEW new \in Sample
  PROVE  /\ Recorded(new) \in ActivityRow
         /\ \/ Recorded(new).sample = new /\ new.coverage # "missing"
            \/ Recorded(new).sample = NoSample /\ Recorded(new).since = NoTime
         /\ new.coverage = "partial" => Recorded(new).since = NoTime
         /\ Recorded(new).since # NoTime =>
              /\ Recorded(new).sample = new
              /\ \/ Recorded(new).since = new.at
                 \/ /\ Recorded(new).since = activity.since
                    /\ activity.sample.at # NoTime /\ new.at # NoTime
                    /\ activity.sample.used <= new.used
                    /\ Recorded(new).at = IF new.used > activity.sample.used
                                            THEN new.at ELSE activity.at
<1> USE ActivityAssumption
<1> DEFINE old == activity.sample
<1>1. /\ time \in Times /\ activity \in ActivityRow /\ old \in Sample
      /\ old.at \in Moments /\ new.at \in Moments /\ old.used \in Nat /\ new.used \in Nat
      /\ activity.since \in Moments /\ activity.start \in Moments /\ activity.at \in Moments
      /\ activity.cycle \in {0, 1} /\ time \in Moments /\ NoTime \in Moments
  BY ActivityTypes, MomentsAreNumbers DEF ActivityRow, Moments
<1>2. Quality(new) \in Qualities /\ Quality(new) # "missing_counters"
  BY DEF Quality, Qualities
<1>3. Quality(new) = "ok" => /\ old.at # NoTime /\ new.at - old.at \in 1..MaxGap
                             /\ ~CounterReset(old, new)
  BY DEF Quality
<1>4. Quality(new) = "ok" => old.at # NoTime /\ new.at # NoTime /\ old.used <= new.used
  <2> SUFFICES ASSUME Quality(new) = "ok"
               PROVE  old.at # NoTime /\ new.at # NoTime /\ old.used <= new.used
    OBVIOUS
  <2>1. old.at # NoTime /\ new.at - old.at \in 1..MaxGap /\ ~(new.used < old.used)
    BY <1>3 DEF CounterReset
  <2>2. old.at \in Int /\ new.at \in Int /\ NoTime <= old.at /\ NoTime \in Int
    BY <1>1, MomentsAreNumbers
  <2>3. new.at # NoTime
    BY <2>1, <2>2
  <2>4. QED
    BY <1>1, <2>1, <2>3
<1>5. PICK q \in Qualities :
        /\ q = IF new.coverage = "missing" THEN "missing_counters" ELSE Quality(new)
        /\ new.coverage = "missing" => q = "missing_counters"
        /\ q = "ok" => old.at # NoTime /\ new.at # NoTime /\ old.used <= new.used
  BY <1>2, <1>4 DEF Qualities
<1>6. PICK usable \in BOOLEAN, ok \in BOOLEAN, used \in BOOLEAN, changed \in BOOLEAN :
        /\ usable <=> q \notin {"missing_counters", "stale"}
        /\ ok <=> q = "ok"
        /\ used <=> ok /\ new.used > old.used
        /\ changed <=> q \in {"counter_reset", "mapping_changed", "cycle_changed"}
  OBVIOUS
<1> DEFINE rec ==
      [sample   |-> IF usable THEN new ELSE NoSample,
       observed |-> time,
       quality  |-> q,
       since    |-> IF ~usable \/ new.coverage = "partial" THEN NoTime
                    ELSE IF ok THEN activity.since ELSE new.at,
       start    |-> IF used THEN old.at ELSE IF ok THEN activity.start ELSE NoTime,
       at       |-> IF used THEN new.at ELSE IF ok THEN activity.at ELSE NoTime,
       cycle    |-> IF changed THEN 1 - activity.cycle ELSE activity.cycle]
<1>7. Recorded(new) = rec
  BY <1>5, <1>6 DEF Recorded
<1>8. /\ (IF usable THEN new ELSE NoSample) \in Sample
      /\ (IF ~usable \/ new.coverage = "partial" THEN NoTime
          ELSE IF ok THEN activity.since ELSE new.at) \in Moments
      /\ (IF used THEN old.at ELSE IF ok THEN activity.start ELSE NoTime) \in Moments
      /\ (IF used THEN new.at ELSE IF ok THEN activity.at ELSE NoTime) \in Moments
      /\ (IF changed THEN 1 - activity.cycle ELSE activity.cycle) \in {0, 1}
  BY <1>1, MomentsAreNumbers
<1>9. rec \in ActivityRow
  BY <1>1, <1>8 DEF ActivityRow
<1>10. /\ \/ rec.sample = new /\ new.coverage # "missing"
          \/ rec.sample = NoSample /\ rec.since = NoTime
       /\ new.coverage = "partial" => rec.since = NoTime
  BY <1>5, <1>6
<1>11. ASSUME rec.since # NoTime
       PROVE  /\ rec.sample = new
              /\ \/ rec.since = new.at
                 \/ /\ rec.since = activity.since
                    /\ old.at # NoTime /\ new.at # NoTime /\ old.used <= new.used
                    /\ rec.at = IF new.used > old.used THEN new.at ELSE activity.at
  BY <1>5, <1>6, <1>11
<1>12. QED
  BY <1>7, <1>9, <1>10, <1>11

(* A sample is recorded by the holder of the lease. *)
LEMMA RecordKeeps ==
  ASSUME ActivityInv, NEW c \in Collectors, RecordSample(c)
  PROVE  ActivityInv'
<1> DEFINE new == collector[c].sample
           old == activity.sample
           newer == activity.observed = NoTime \/ time > activity.observed
<1>1. /\ ActivityTypeOK /\ SamplesTrue /\ UseOnRecord /\ CoverageFits /\ HolderIsLatest
      /\ activity \in ActivityRow /\ masked \in BOOLEAN /\ new \in Sample /\ old \in Sample
  BY ActivityTypes DEF ActivityInv, ActivityRow, CollectorRow
<1>2. UNCHANGED <<time, traffic, lease>>
  BY DEF RecordSample
<1>3. PICK row \in CollectorRow : /\ row.sample = NoSample
                                  /\ collector' = [collector EXCEPT ![c] = row]
  <2>1. /\ [Stopped EXCEPT !.pc = "finish"] \in CollectorRow /\ Stopped \in CollectorRow
        /\ [Stopped EXCEPT !.pc = "finish"].sample = NoSample /\ Stopped.sample = NoSample
    BY MomentsAreNumbers DEF Stopped, CollectorRow
  <2>2. QED
    BY <2>1 DEF RecordSample
<1>4. /\ collector' \in [Collectors -> CollectorRow] /\ collector'[c].sample = NoSample
      /\ \A d \in Collectors \ {c} : collector'[d] = collector[d]
      /\ activity'.sample \in {old, new, NoSample} => Samples' \subseteq Samples
  BY <1>1, <1>3, CollectorGoesOn
<1>5. \A d \in Collectors : collector'[d].sample.at = NoTime => collector'[d].sample = NoSample
  BY <1>1, <1>4 DEF CoverageFits
<1>6. CASE UNCHANGED <<activity, masked>>
  <2>1. ActivityTypeOK'
    BY <1>1, <1>2, <1>4, <1>6, ActivityTypes, ActivityTypesNext
  <2>2. SamplesTrue'
    BY <1>1, <1>2, <1>4, <1>6, SamplesKept
  <2>3. UseOnRecord' /\ CoverageFits'
    BY <1>1, <1>5, <1>6 DEF UseOnRecord, CoverageFits
  <2>4. HolderIsLatest'
    BY <1>1, <1>2, <1>4, <1>6, MomentsAreNumbers DEF HolderIsLatest
  <2>5. QED
    BY <2>1, <2>2, <2>3, <2>4 DEF ActivityInv
<1>7. CASE /\ Holds(c) /\ newer /\ activity' = Recorded(new)
           /\ masked' = (masked \/ (newer /\ new.epoch # old.epoch /\ new.used >= old.used))
  <2>1. PICK rec \in ActivityRow : rec = Recorded(new)
    BY <1>1, RecordedSample
  <2>2. /\ activity' = rec /\ lease.token = {c}
        /\ masked' = (masked \/ (new.epoch # old.epoch /\ new.used >= old.used))
    BY <1>7, <2>1 DEF Holds
  <2>3. /\ \/ rec.sample = new /\ new.coverage # "missing"
           \/ rec.sample = NoSample /\ rec.since = NoTime
        /\ new.coverage = "partial" => rec.since = NoTime
        /\ rec.since # NoTime =>
             /\ rec.sample = new
             /\ \/ rec.since = new.at
                \/ /\ rec.since = activity.since
                   /\ old.at # NoTime /\ new.at # NoTime /\ old.used <= new.used
                   /\ rec.at = IF new.used > old.used THEN new.at ELSE activity.at
    BY <1>1, <2>1, RecordedSample
  <2>4. masked' \in BOOLEAN
    BY <1>1, <2>2
  <2>5. ActivityTypeOK'
    BY <1>1, <1>2, <1>4, <2>2, <2>4, ActivityTypes, ActivityTypesNext
  <2>6. SamplesTrue'
    <3>1. activity'.sample \in {old, new, NoSample}
      BY <2>2, <2>3
    <3>2. QED
      BY <1>1, <1>2, <1>4, <3>1, SamplesKept
  <2>7. CoverageFits'
    <3>1. rec.sample.at = NoTime => rec.sample = NoSample /\ rec.since = NoTime
      BY <1>1, <2>3, MomentsAreNumbers DEF CoverageFits
    <3>2. rec.sample.coverage = "partial" => rec.since = NoTime
      BY <2>3, MomentsAreNumbers
    <3>3. rec.sample.at # NoTime => rec.sample.coverage # "missing"
      BY <2>3, MomentsAreNumbers
    <3>4. QED
      BY <1>5, <2>2, <3>1, <3>2, <3>3 DEF CoverageFits
  <2>8. HolderIsLatest'
    BY <1>2, <1>4, <2>2, MomentsAreNumbers DEF HolderIsLatest
  <2>9. UseOnRecord'
    <3> SUFFICES ASSUME ~masked', rec.since # NoTime
                 PROVE  rec.sample.use <= rec.since \/ rec.sample.use <= rec.at
      BY <2>2 DEF UseOnRecord
    <3>1. rec.sample = new
      BY <2>3
    <3>2. new.at # NoTime => new.use <= new.at
      BY <1>1 DEF SamplesTrue, Samples
    <3>3. CASE rec.since = new.at
      BY <3>1, <3>2, <3>3
    <3>4. CASE /\ rec.since = activity.since
               /\ old.at # NoTime /\ new.at # NoTime /\ old.used <= new.used
               /\ rec.at = IF new.used > old.used THEN new.at ELSE activity.at
      <4>1. CASE new.used > old.used
        BY <3>1, <3>2, <3>4, <4>1
      <4>2. CASE ~(new.used > old.used)
        <5>1. new.used = old.used
          BY <1>1, <3>4, <4>2, MomentsAreNumbers
        <5>2. new.epoch = old.epoch /\ ~masked
          <6>1. ~masked /\ ~(new.epoch # old.epoch /\ new.used >= old.used)
            BY <2>2
          <6>2. new.used >= old.used
            BY <1>1, <5>1, MomentsAreNumbers
          <6>3. QED
            BY <6>1, <6>2
        <5>3. new \in Samples /\ old \in Samples
          BY <3>4 DEF Samples
        <5>4. new.use = old.use
          BY <1>1, <5>1, <5>2, <5>3 DEF SamplesTrue
        <5>5. activity.since # NoTime
          BY <3>4
        <5>6. old.use <= activity.since \/ old.use <= activity.at
          BY <1>1, <5>2, <5>5 DEF UseOnRecord
        <5>7. QED
          BY <3>1, <3>4, <4>2, <5>4, <5>6
      <4>3. QED
        BY <4>1, <4>2
    <3>5. QED
      BY <2>3, <3>3, <3>4
  <2>10. QED
    BY <2>5, <2>6, <2>7, <2>8, <2>9 DEF ActivityInv
<1>8. CASE /\ Holds(c) /\ ~newer /\ UNCHANGED activity
           /\ masked' = (masked \/ (newer /\ new.epoch # old.epoch /\ new.used >= old.used))
  <2>1. masked' = masked
    BY <1>1, <1>8
  <2>2. QED
    BY <1>6, <1>8, <2>1
<1>9. QED
  BY <1>6, <1>7, <1>8 DEF RecordSample, StillHolds

(* The world goes on. *)
LEMMA WorldKeeps ==
  ActivityInv /\ (TimePasses \/ Use \/ \E plan \in {1, 2} : ResetCounter(plan)) => ActivityInv'
<1> SUFFICES ASSUME ActivityInv, TimePasses \/ Use \/ \E plan \in {1, 2} : ResetCounter(plan)
             PROVE  ActivityInv'
  OBVIOUS
<1> USE ActivityAssumption
<1>1. /\ ActivityTypeOK /\ SamplesTrue /\ UseOnRecord /\ CoverageFits /\ HolderIsLatest
      /\ time \in Times /\ traffic \in TrafficRow
  BY ActivityTypes DEF ActivityInv
<1>2. UNCHANGED <<lease, collector, activity, masked>>
  BY DEF TimePasses, Use, ResetCounter
<1>3. Samples' = Samples /\ UseOnRecord' /\ CoverageFits' /\ HolderIsLatest'
  BY <1>1, <1>2 DEF Samples, UseOnRecord, CoverageFits, HolderIsLatest
<1>4. ASSUME time' \in Times, traffic' \in TrafficRow, SamplesTrue' PROVE ActivityInv'
  BY <1>1, <1>2, <1>3, <1>4, ActivityTypes, ActivityTypesNext DEF ActivityInv
<1>5. /\ time \in Int /\ traffic.used \in 0..MaxUsed /\ traffic.epoch \in 0..MaxResets
      /\ traffic.use \in Moments /\ traffic.use <= time
      /\ \A s \in Samples : s.used \in Nat /\ s.epoch \in Nat
  BY <1>1, SamplesTyped, MomentsAreNumbers DEF TrafficRow, Times, SamplesTrue
<1>6. CASE TimePasses
  <2>1. time < MaxTime /\ time' = time + 1 /\ UNCHANGED traffic
    BY <1>6 DEF TimePasses
  <2>2. time' \in Times
    BY <1>1, <2>1 DEF Times
  <2>3. SamplesTrue'
    BY <1>1, <1>3, <2>1, SamplesKept
  <2>4. QED
    BY <1>1, <1>4, <2>1, <2>2, <2>3
<1>7. CASE Use
  <2>1. /\ traffic.used < MaxUsed /\ UNCHANGED time
        /\ traffic' = [traffic EXCEPT !.used = traffic.used + 1, !.use = time]
    BY <1>1, <1>7 DEF Use, TrafficRow
  <2>2. traffic.used + 1 \in 0..MaxUsed /\ time \in Moments
    BY <1>1, <1>5, <2>1 DEF Moments
  <2>3. /\ traffic' \in TrafficRow /\ traffic'.used = traffic.used + 1 /\ traffic'.use = time
        /\ traffic'.epoch = traffic.epoch
    BY <1>1, <2>1, <2>2 DEF TrafficRow
  <2>4. \A s \in Samples : s.epoch = traffic.epoch => s.used <= traffic'.used /\ s.used # traffic'.used
    BY <1>1, <1>5, <2>3 DEF SamplesTrue
  <2>5. traffic'.use <= time'
    BY <1>5, <2>1, <2>3
  <2>6. SamplesTrue'
    BY <1>1, <1>3, <2>1, <2>3, <2>4, <2>5 DEF SamplesTrue
  <2>7. QED
    BY <1>1, <1>4, <2>1, <2>3, <2>6
<1>8. ASSUME NEW plan \in {1, 2}, ResetCounter(plan) PROVE ActivityInv'
  <2>1. /\ traffic.epoch < MaxResets /\ UNCHANGED time
        /\ traffic' = [traffic EXCEPT !.used = 0, !.plan = plan, !.epoch = traffic.epoch + 1]
    BY <1>1, <1>8 DEF ResetCounter, TrafficRow
  <2>2. traffic.epoch + 1 \in 0..MaxResets /\ 0 \in 0..MaxUsed
    BY <1>5, <2>1
  <2>3. /\ traffic' \in TrafficRow /\ traffic'.epoch = traffic.epoch + 1
        /\ traffic'.use = traffic.use
    BY <1>1, <2>1, <2>2 DEF TrafficRow
  <2>4. \A s \in Samples : s.epoch <= traffic'.epoch /\ s.epoch # traffic'.epoch
    BY <1>1, <1>5, <2>3 DEF SamplesTrue
  <2>5. SamplesTrue'
    BY <1>1, <1>3, <1>5, <2>1, <2>3, <2>4 DEF SamplesTrue
  <2>6. QED
    BY <1>1, <1>4, <2>1, <2>3, <2>5
<1>9. QED
  BY <1>6, <1>7, <1>8

(* A collector takes, renews or gives back the lease, or stops. *)
LEMMA LeaseKeeps ==
  ASSUME ActivityInv, NEW c \in Collectors, NEW row \in CollectorRow,
         collector' = [collector EXCEPT ![c] = row],
         row.sample = NoSample \/ row.sample = collector[c].sample,
         UNCHANGED <<time, traffic, activity, masked>>,
         lease' \in [token: SUBSET Collectors, until: NoTime..(MaxTime + Lease)],
         lease'.token = lease.token \/ (lease'.token = {c} /\ row.sample = NoSample)
  PROVE  ActivityInv'
<1>1. /\ ActivityTypeOK /\ SamplesTrue /\ UseOnRecord /\ CoverageFits /\ HolderIsLatest
  BY DEF ActivityInv
<1>2. /\ collector' \in [Collectors -> CollectorRow] /\ collector'[c] = row
      /\ \A d \in Collectors \ {c} : collector'[d] = collector[d]
      /\ Samples' \subseteq Samples
  BY <1>1, CollectorGoesOn
<1>3. ActivityTypeOK'
  BY <1>1, <1>2, ActivityTypes, ActivityTypesNext
<1>4. SamplesTrue'
  BY <1>1, <1>2, SamplesKept
<1>5. UseOnRecord'
  BY <1>1 DEF UseOnRecord
<1>6. \A d \in Collectors : collector'[d].sample \in {NoSample, collector[d].sample}
  BY <1>2
<1>7. CoverageFits'
  BY <1>1, <1>6 DEF CoverageFits
<1>8. HolderIsLatest'
  <2> SUFFICES ASSUME NEW d \in Collectors, lease'.token = {d}, collector'[d].sample.at # NoTime
               PROVE  activity.sample.at <= collector'[d].sample.at
    BY DEF HolderIsLatest
  <2>1. collector'[d].sample = collector[d].sample
    BY <1>6, MomentsAreNumbers
  <2>2. lease.token = {d}
    BY <1>2, MomentsAreNumbers
  <2>3. QED
    BY <1>1, <2>1, <2>2 DEF HolderIsLatest
<1>9. QED
  BY <1>3, <1>4, <1>5, <1>7, <1>8 DEF ActivityInv

(* The panel is read. *)
LEMMA ReadKeeps ==
  ASSUME ActivityInv, NEW c \in Collectors, NEW coverage \in {"full", "partial", "missing"},
         ReadPanel(c, coverage)
  PROVE  ActivityInv'
<1> USE ActivityAssumption
<1>1. /\ ActivityTypeOK /\ SamplesTrue /\ UseOnRecord /\ CoverageFits /\ HolderIsLatest
      /\ time \in Times /\ traffic \in TrafficRow /\ collector \in [Collectors -> CollectorRow]
      /\ activity \in ActivityRow /\ activity.sample \in Sample
  BY ActivityTypes DEF ActivityInv, ActivityRow
<1> DEFINE read == [used |-> traffic.used, plan |-> traffic.plan, at |-> time, use |-> traffic.use,
                    epoch |-> traffic.epoch, coverage |-> coverage]
<1>2. PICK new \in Sample :
        /\ new = read /\ new.used = traffic.used /\ new.at = time /\ new.use = traffic.use
        /\ new.epoch = traffic.epoch
  <2>1. /\ traffic.used \in 0..MaxUsed /\ traffic.plan \in {1, 2} /\ traffic.use \in Moments
        /\ traffic.epoch \in 0..MaxResets /\ time \in Moments
    BY <1>1 DEF TrafficRow, Moments
  <2>2. read \in Sample
    BY <2>1 DEF Sample, Moments
  <2>3. QED
    BY <2>2
<1>3. /\ collector' = [collector EXCEPT ![c] = [pc |-> "resolve", sample |-> new]]
      /\ UNCHANGED <<time, traffic, lease, activity, masked>>
  BY <1>2 DEF ReadPanel
<1>4. [pc |-> "resolve", sample |-> new] \in CollectorRow
  BY DEF CollectorRow
<1>5. /\ collector' \in [Collectors -> CollectorRow] /\ collector'[c].sample = new
      /\ \A d \in Collectors \ {c} : collector'[d] = collector[d]
  BY <1>1, <1>3, <1>4
<1>6. Samples' \subseteq Samples \cup {new}
  BY <1>3, <1>5 DEF Samples
<1>7. new.at # NoTime /\ time \in Int /\ traffic.use <= time
  BY <1>1, <1>2, MomentsAreNumbers DEF Times, SamplesTrue
<1>8. ActivityTypeOK'
  BY <1>1, <1>3, <1>5, ActivityTypes, ActivityTypesNext
<1>9. SamplesTrue'
  <2>1. \A s \in Samples \cup {new} :
          /\ s.use <= s.at /\ s.at <= time /\ s.epoch <= traffic.epoch
          /\ s.epoch = traffic.epoch =>
               s.used <= traffic.used /\ (s.used = traffic.used => s.use = traffic.use)
    <3>1. traffic.used \in Int /\ traffic.epoch \in Int
      BY <1>1 DEF TrafficRow
    <3>2. QED
      BY <1>1, <1>2, <1>7, <3>1 DEF SamplesTrue
  <2>2. \A s, r \in Samples \cup {new} : r.epoch = s.epoch /\ r.used = s.used => r.use = s.use
    BY <1>1, <1>2, <2>1 DEF SamplesTrue
  <2>3. QED
    BY <1>3, <1>6, <1>7, <2>1, <2>2 DEF SamplesTrue
<1>10. UseOnRecord'
  BY <1>1, <1>3 DEF UseOnRecord
<1>11. CoverageFits'
  BY <1>1, <1>3, <1>5, <1>7 DEF CoverageFits
<1>12. activity.sample.at <= time
  <2>1. CASE activity.sample.at = NoTime
    BY <1>7, <2>1, MomentsAreNumbers, <1>1 DEF Times
  <2>2. CASE activity.sample.at # NoTime
    BY <1>1, <2>2 DEF SamplesTrue, Samples
  <2>3. QED
    BY <2>1, <2>2
<1>13. HolderIsLatest'
  BY <1>1, <1>2, <1>3, <1>5, <1>12 DEF HolderIsLatest
<1>14. QED
  BY <1>8, <1>9, <1>10, <1>11, <1>13 DEF ActivityInv

(* Every step of the collection keeps the invariant. *)
LEMMA ActivityKeep == ActivityInv /\ [ActivityNext]_activityVars => ActivityInv'
<1> SUFFICES ASSUME ActivityInv, [ActivityNext]_activityVars PROVE ActivityInv'
  OBVIOUS
<1> USE ActivityAssumption
<1> DEFINE LeaseRow == [token: SUBSET Collectors, until: NoTime..(MaxTime + Lease)]
<1>1. /\ ActivityTypeOK /\ time \in Times /\ lease \in LeaseRow
      /\ collector \in [Collectors -> CollectorRow]
  BY ActivityTypes DEF ActivityInv
<1>2. Stopped \in CollectorRow /\ Stopped.sample = NoSample
  BY MomentsAreNumbers DEF Stopped, CollectorRow
<1>3. time + Lease \in NoTime..(MaxTime + Lease) /\ NoTime \in NoTime..(MaxTime + Lease)
  BY <1>1 DEF Times, NoTime
<1>4. CASE UNCHANGED activityVars
  <2>1. ActivityTypeOK'
    BY <1>1, <1>4 DEF activityVars, ActivityTypeOK
  <2>2. Samples' = Samples
    BY <1>4 DEF activityVars, Samples
  <2>3. SamplesTrue' /\ UseOnRecord' /\ CoverageFits' /\ HolderIsLatest'
    BY <1>4, <2>2 DEF activityVars, ActivityInv, SamplesTrue, UseOnRecord, CoverageFits, HolderIsLatest
  <2>4. QED
    BY <2>1, <2>3 DEF ActivityInv
<1>5. ASSUME NEW c \in Collectors, ClaimLease(c) PROVE ActivityInv'
  <2>1. /\ lease' = [token |-> {c}, until |-> time + Lease]
        /\ collector' = [collector EXCEPT ![c] = [pc |-> "read", sample |-> NoSample]]
        /\ UNCHANGED <<time, traffic, activity, masked>>
    BY <1>5 DEF ClaimLease
  <2>2. PICK row \in CollectorRow : row = [pc |-> "read", sample |-> NoSample] /\ row.sample = NoSample
    <3>1. [pc |-> "read", sample |-> NoSample] \in CollectorRow
      BY MomentsAreNumbers DEF CollectorRow
    <3>2. QED
      BY <3>1
  <2>3. lease' \in LeaseRow /\ lease'.token = {c}
    BY <1>3, <2>1
  <2>4. QED
    BY <2>1, <2>2, <2>3, LeaseKeeps
<1>6. ASSUME NEW c \in Collectors, Heartbeat(c) PROVE ActivityInv'
  <2>1. UNCHANGED <<time, traffic, activity, masked>>
    BY <1>6 DEF Heartbeat
  <2>2. CASE /\ lease' = [lease EXCEPT !.until = time + Lease]
             /\ collector' = [collector EXCEPT ![c].pc = AfterHeartbeat[@]]
    <3>1. PICK pc \in {"panel", "record"} : pc = AfterHeartbeat[collector[c].pc]
      BY <1>6 DEF Heartbeat, AfterHeartbeat
    <3>2. collector[c] \in CollectorRow
      BY <1>1
    <3>3. PICK row \in CollectorRow :
            row = [collector[c] EXCEPT !.pc = pc] /\ row.sample = collector[c].sample
      <4>1. [collector[c] EXCEPT !.pc = pc] \in CollectorRow
        BY <3>2 DEF CollectorRow
      <4>2. [collector[c] EXCEPT !.pc = pc].sample = collector[c].sample
        BY <3>2 DEF CollectorRow
      <4>3. QED
        BY <4>1, <4>2
    <3>4. collector' = [collector EXCEPT ![c] = row]
      BY <1>1, <2>2, <3>1, <3>3
    <3>5. lease' \in LeaseRow /\ lease'.token = lease.token
      BY <1>1, <1>3, <2>2
    <3>6. QED
      BY <2>1, <3>3, <3>4, <3>5, LeaseKeeps
  <2>3. CASE collector' = [collector EXCEPT ![c] = Stopped] /\ UNCHANGED lease
    BY <1>1, <1>2, <2>1, <2>3, LeaseKeeps
  <2>4. QED
    BY <1>6, <2>2, <2>3 DEF Heartbeat
<1>7. ASSUME NEW c \in Collectors, Finish(c) PROVE ActivityInv'
  <2>1. /\ collector' = [collector EXCEPT ![c] = Stopped]
        /\ UNCHANGED <<time, traffic, activity, masked>>
    BY <1>7 DEF Finish
  <2>2. /\ [lease EXCEPT !.until = NoTime] \in LeaseRow
        /\ [lease EXCEPT !.until = NoTime].token = lease.token
    BY <1>1, <1>3
  <2>3. lease' \in LeaseRow /\ lease'.token = lease.token
    BY <1>1, <1>7, <2>2 DEF Finish
  <2>4. QED
    BY <1>2, <2>1, <2>3, LeaseKeeps
<1>8. ASSUME NEW c \in Collectors, CollectorDies(c) PROVE ActivityInv'
  BY <1>1, <1>2, <1>8, LeaseKeeps DEF CollectorDies
<1>9. QED
  BY <1>4, <1>5, <1>6, <1>7, <1>8, WorldKeeps, RecordKeeps, ReadKeeps DEF ActivityNext

(* What the invariant says about the verdict. *)
LEMMA ActivityMeans == ActivityInv => InactiveIsTrue
<1> SUFFICES ASSUME ActivityInv, ActivityStatus = "inactive", ~masked
             PROVE  activity.sample.use <= time - Window
  BY DEF InactiveIsTrue
<1> USE ActivityAssumption
<1>1. activity.since # NoTime /\ activity.since <= time - Window /\ activity.at <= time - Window
  BY DEF ActivityStatus
<1>2. activity.sample.use <= activity.since \/ activity.sample.use <= activity.at
  BY <1>1 DEF ActivityInv, UseOnRecord
<1>3. /\ activity.sample.use \in Int /\ activity.since \in Int /\ activity.at \in Int
      /\ time \in Int /\ activity \in ActivityRow
  BY ActivityTypes, MomentsAreNumbers DEF ActivityInv, ActivityRow, Times
<1>4. QED
  BY <1>1, <1>2, <1>3

(* And about a step that records a sample. *)
LEMMA OrderKept ==
  ActivityInv /\ [ActivityNext]_activityVars =>
    [activity'.sample.at # NoTime /\ activity.sample.at # NoTime
       => activity'.sample.at >= activity.sample.at]_activityVars
<1> SUFFICES ASSUME ActivityInv, [ActivityNext]_activityVars,
                    activity'.sample.at # NoTime, activity.sample.at # NoTime
             PROVE  activity'.sample.at >= activity.sample.at
  OBVIOUS
<1>1. /\ ActivityTypeOK /\ HolderIsLatest /\ activity.sample.at \in Int
  BY ActivityTypes, MomentsAreNumbers DEF ActivityInv, ActivityRow
<1>2. CASE UNCHANGED activity
  BY <1>1, <1>2
<1>3. ASSUME NEW c \in Collectors, RecordSample(c), Holds(c), activity' = Recorded(collector[c].sample)
      PROVE  activity'.sample.at >= activity.sample.at
  <2>1. collector[c].sample \in Sample
    BY <1>1, ActivityTypes DEF CollectorRow
  <2>2. activity'.sample = collector[c].sample
    BY <1>1, <1>3, <2>1, RecordedSample, MomentsAreNumbers
  <2>3. activity.sample.at <= collector[c].sample.at /\ collector[c].sample.at \in Int
    BY <1>1, <1>3, <2>1, <2>2, MomentsAreNumbers DEF HolderIsLatest, Holds
  <2>4. QED
    BY <1>1, <2>2, <2>3
<1>4. UNCHANGED activity \/ \E c \in Collectors :
         RecordSample(c) /\ Holds(c) /\ activity' = Recorded(collector[c].sample)
  BY DEF ActivityNext, activityVars, TimePasses, Use, ResetCounter, ClaimLease, Heartbeat,
         RecordSample, StillHolds, Finish, CollectorDies, ReadPanel
<1>5. QED
  BY <1>2, <1>3, <1>4

-----------------------------------------------------------------------------
(* All together: a step of one component is a stuttering step of the       *)
(* others.                                                                 *)

LEMMA StepsOfAll ==
  [MessagingNext]_messagingVars =>
    /\ [BroadcastNext]_broadcastVars /\ [OutreachNext]_outreachVars
    /\ [NotificationsNext]_notificationVars /\ [RemindersNext]_reminderVars
    /\ [ReceiptNext]_receiptVars /\ [ActivityNext]_activityVars
BY DEF MessagingNext, messagingVars, BroadcastStep, OutreachStep, NotificationsStep,
       RemindersStep, ReceiptStep, ActivityStep

(* The inductive invariants of the six components hold in every state. *)
LEMMA InvariantAlways == MessagingSpec => []MessagingInv
<1>1. MessagingInit => MessagingInv
  BY BroadcastStart, OutreachStart, NotificationsStart, RemindersStart, ReceiptsStart,
     ActivityStart DEF MessagingInit, MessagingInv
<1>2. MessagingInv /\ [MessagingNext]_messagingVars => MessagingInv'
  BY StepsOfAll, BroadcastKeep, OutreachKeep, NotificationsKeep, RemindersKeep, ReceiptsKeep,
     ActivityKeep DEF MessagingInv
<1>3. QED
  BY <1>1, <1>2, PTL DEF MessagingSpec

(* Rows and handlers of everything that sends messages have their types in *)
(* every state.                                                            *)
THEOREM TypeCorrect == MessagingSpec => []TypeOK
<1>1. MessagingInv => TypeOK
  BY DEF MessagingInv, TypeOK, BroadcastInv, OutreachInv, NotificationsInv, RemindersInv,
         ReceiptInv, ActivityInv
<1>2. QED
  BY <1>1, InvariantAlways, PTL

(* A campaign sends a recipient a second message only for one that its     *)
(* sender did not record, unless two handlers had the recipient at once:   *)
(* for any recipients, batches, breaks, retries and crashes of             *)
(* process_broadcast_queue, the bot and staff.                             *)
THEOREM ResentOnlyUnrecordedAlways == MessagingSpec => []ResentOnlyUnrecorded
<1>1. MessagingInv => ResentOnlyUnrecorded
  BY BroadcastMeans DEF MessagingInv
<1>2. QED
  BY <1>1, InvariantAlways, PTL

(* An outreach event's message arrives at most once, for any number of     *)
(* runs of run_outreach and dashboard requests, unless a stale retry       *)
(* overwrote a reservation.                                                *)
THEOREM OneMessagePerEventAlways == MessagingSpec => []OneMessagePerEvent
<1>1. MessagingInv => OneMessagePerEvent
  BY OutreachMeans DEF MessagingInv
<1>2. QED
  BY <1>1, InvariantAlways, PTL

(* A customer gets one automatic message a day, offers included, except    *)
(* for an offer that crossed a reservation or an overwritten event.        *)
THEOREM OneMessageADayAlways == MessagingSpec => []OneMessageADay
<1>1. MessagingInv => OneMessageADay
  BY OutreachMeans DEF MessagingInv
<1>2. QED
  BY <1>1, InvariantAlways, PTL

(* The admins are told once of an order and once of its receipt, and once  *)
(* more for every message that reached them while its sender took it for   *)
(* lost: for any number of notifiers, whatever ends or fails between them. *)
THEOREM AdminsToldOnceAlways == MessagingSpec => []AdminsToldOnce
<1>1. MessagingInv => AdminsToldOnce
  <2> SUFFICES ASSUME MessagingInv, NEW f \in Fields PROVE told[f] <= 1 + unacknowledged[f]
    BY DEF AdminsToldOnce
  <2>1. /\ told[f] \in Nat /\ unacknowledged[f] \in Nat
        /\ told[f] # unacknowledged[f] => told[f] = unacknowledged[f] + 1
    BY DEF MessagingInv, NotificationsInv, NotificationsTypeOK, ToldStays
  <2>2. QED
    BY <2>1
<1>2. QED
  BY <1>1, InvariantAlways, PTL

(* An expiry reminder arrives once, once more for every message that was   *)
(* not recorded, and once more for every run that passed its first check   *)
(* while another was at work: for any runs of run_renewal_reminders, with  *)
(* anything between their unlocked checks and writes.                      *)
THEOREM RemindedOnceAlways == MessagingSpec => []RemindedOnce
<1>1. MessagingInv => RemindedOnce
  <2> SUFFICES ASSUME MessagingInv, NEW t \in Once
               PROVE  messages[t] <= 1 + missed[t] + overlaps[t]
    BY DEF RemindedOnce
  <2>1. RemindersTypeOK /\ ArrivalsAccounted /\ t \in Triggers
    BY DEF MessagingInv, RemindersInv, Once
  <2>2. messages[t] \in Nat /\ missed[t] \in Nat /\ overlaps[t] \in Nat
    BY <2>1, CountsAreNumbers
  <2>3. Undecided(t) \in SUBSET Runs
    BY DEF Undecided
  <2>4. Cardinality(Undecided(t)) \in Nat
    BY <2>3, RunsCounted
  <2>5. messages[t] + Cardinality(Undecided(t)) <= 1 + missed[t] + overlaps[t]
    BY <2>1 DEF ArrivalsAccounted
  <2>6. QED
    BY <2>2, <2>4, <2>5
<1>2. QED
  BY <1>1, InvariantAlways, PTL

(* Between two reminders of one receipt a stage was reached or an hour     *)
(* passed, for any stages and however long the workers were away.          *)
THEOREM NoReminderBurstAlways == MessagingSpec => []NoReminderBurst
<1>1. MessagingInv => NoReminderBurst
  BY DEF MessagingInv, ReceiptInv
<1>2. QED
  BY <1>1, InvariantAlways, PTL

(* A customer is called inactive only without use in the window up to the  *)
(* last sample, for any leases, gaps and windows, unless a reset counter   *)
(* had grown back unseen.                                                  *)
THEOREM InactiveIsTrueAlways == MessagingSpec => []InactiveIsTrue
<1>1. MessagingInv => InactiveIsTrue
  BY ActivityMeans DEF MessagingInv
<1>2. QED
  BY <1>1, InvariantAlways, PTL

(* Samples are recorded in the order in which they were read: a collector  *)
(* that lost its lease records nothing.                                    *)
THEOREM SamplesInOrderAlways == MessagingSpec => SamplesInOrder
<1>1. MessagingInv /\ [MessagingNext]_messagingVars =>
        [activity'.sample.at # NoTime /\ activity.sample.at # NoTime
           => activity'.sample.at >= activity.sample.at]_activityVars
  BY StepsOfAll, OrderKept DEF MessagingInv
<1>2. QED
  BY <1>1, InvariantAlways, PTL DEF MessagingSpec, SamplesInOrder
=============================================================================
