---------------------- MODULE CancellationNoticeProofs ----------------------
(***************************************************************************)
(* No two senders are within the back-off, and a chat receives the         *)
(* cancellation message once, and once more at most for each fault and for *)
(* each attempt that outlasts the back-off; for any number of requests,    *)
(* workers, chats and faults and for ticks of any length.                  *)
(***************************************************************************)
EXTENDS CancellationNotice, FiniteSetTheorems, TLAPS

USE TimesAssumption, FaultsAssumption

-----------------------------------------------------------------------------
(* Nothing is cancelled, sent or received at the start. *)
LEMMA TypeInit == Init => TypeOK
<1> SUFFICES ASSUME Init PROVE TypeOK
  OBVIOUS
<1>1. cancelled \in BOOLEAN /\ attempted \in BOOLEAN /\ lateResult \in BOOLEAN
  BY DEF Init
<1>2. attemptAge \in 0..OldAge /\ faults \in 0..MaxFaults /\ slow \in 0..MaxSlow
  <2>1. attemptAge = 0 /\ faults = 0 /\ slow = 0
    BY DEF Init
  <2>2. QED
    BY <2>1 DEF OldAge
<1>3. tickAge \in [Senders -> 0..TickLength] /\ received \in [Targets -> Nat]
  <2>1. tickAge = [s \in Senders |-> 0] /\ received = [x \in Targets |-> 0]
    BY DEF Init
  <2>2. QED
    BY <2>1
<1>4. /\ status \in Statuses /\ pc \in [Senders -> Steps]
      /\ todo \in [Senders -> SUBSET Targets] /\ delivered \in [Senders -> SUBSET Targets]
  BY DEF Init, Statuses, Steps
<1>5. QED
  BY <1>1, <1>2, <1>3, <1>4 DEF TypeOK

(* No step leaves the types. *)
LEMMA TypeStep == TypeOK /\ [Next]_vars => TypeOK'
<1> SUFFICES ASSUME TypeOK, [Next]_vars PROVE TypeOK'
  OBVIOUS
<1>1. ASSUME NEW s \in Senders, CancelCommits(s) PROVE TypeOK'
  <2>1. cancelled' \in BOOLEAN /\ attempted' \in BOOLEAN
    BY <1>1 DEF CancelCommits, TypeOK
  <2>2. tickAge' \in [Senders -> 0..TickLength]
    <3>1. tickAge' = [tickAge EXCEPT ![s] = 0]
      BY <1>1 DEF CancelCommits, Now
    <3>2. QED
      BY <3>1 DEF TypeOK
  <2>3. pc' \in [Senders -> Steps]
    BY <1>1 DEF CancelCommits, TypeOK, Goto, Steps
  <2>4. UNCHANGED <<status, attemptAge, todo, delivered, received, faults, slow, lateResult>>
    BY <1>1 DEF CancelCommits, history
  <2>5. QED
    BY <2>1, <2>2, <2>3, <2>4 DEF TypeOK
<1>2. ASSUME NEW s \in Senders, StartTick(s) PROVE TypeOK'
  <2>1. tickAge' \in [Senders -> 0..TickLength]
    <3>1. tickAge' = [tickAge EXCEPT ![s] = 0]
      BY <1>2 DEF StartTick, Now
    <3>2. QED
      BY <3>1 DEF TypeOK
  <2>2. pc' \in [Senders -> Steps]
    BY <1>2 DEF StartTick, TypeOK, Goto, Steps
  <2>3. UNCHANGED <<cancelled, status, attempted, attemptAge, todo, delivered, received, faults,
                    slow, lateResult>>
    BY <1>2 DEF StartTick, history
  <2>4. QED
    BY <2>1, <2>2, <2>3 DEF TypeOK
<1>3. ASSUME NEW s \in Senders, ReadCancelled(s) \/ Skip(s) PROVE TypeOK'
  <2>1. pc' \in [Senders -> Steps]
    BY <1>3 DEF ReadCancelled, Skip, TypeOK, Goto, Steps
  <2>2. UNCHANGED <<cancelled, status, attempted, attemptAge, tickAge, todo, delivered,
                    received, faults, slow, lateResult>>
    BY <1>3 DEF ReadCancelled, Skip, history
  <2>3. QED
    BY <2>1, <2>2 DEF TypeOK
<1>4. ASSUME NEW s \in Senders, NoTarget(s) \/ RecordResult(s) PROVE TypeOK'
  <2>1. /\ pc' \in [Senders -> Steps] /\ status' \in Statuses
        /\ delivered' \in [Senders -> SUBSET Targets]
    BY <1>4 DEF NoTarget, RecordResult, TypeOK, Goto, Steps, Statuses
  <2>2. UNCHANGED <<cancelled, attempted, attemptAge, tickAge, todo, received, faults, slow>>
    BY <1>4 DEF NoTarget, RecordResult
  <2>3. lateResult' \in BOOLEAN
    <3>1. lateResult' = FALSE \/ lateResult' = Outlasts(s)
      BY <1>4 DEF NoTarget, RecordResult
    <3>2. CASE Outlasts(s)
      <4>1. Outlasts(s) = TRUE
        BY <3>2 DEF Outlasts
      <4>2. QED
        BY <3>1, <4>1
    <3>3. CASE ~Outlasts(s)
      <4>1. Outlasts(s) = FALSE
        BY <3>3 DEF Outlasts
      <4>2. QED
        BY <3>1, <4>1
    <3>4. QED
      BY <3>2, <3>3
  <2>4. QED
    BY <2>1, <2>2, <2>3 DEF TypeOK
<1>5. ASSUME NEW s \in Senders, Attempt(s) PROVE TypeOK'
  <2>1. attemptAge' \in 0..OldAge
    <3>1. attemptAge' = tickAge[s]
      BY <1>5 DEF Attempt
    <3>2. tickAge[s] \in 0..TickLength
      BY DEF TypeOK
    <3>3. QED
      BY <3>1, <3>2 DEF OldAge
  <2>2. attempted' \in BOOLEAN
    BY <1>5 DEF Attempt
  <2>3. /\ pc' \in [Senders -> Steps] /\ todo' \in [Senders -> SUBSET Targets]
        /\ delivered' \in [Senders -> SUBSET Targets]
    BY <1>5 DEF Attempt, TypeOK, Goto, Steps
  <2>4. UNCHANGED <<cancelled, status, tickAge, received, faults, lateResult>>
    BY <1>5 DEF Attempt
  <2>5. slow' \in 0..MaxSlow
    <3>1. slow' = slow \/ (slow < MaxSlow /\ slow' = slow + 1)
      BY <1>5 DEF Attempt
    <3>2. QED
      BY <3>1 DEF TypeOK
  <2>6. QED
    BY <2>1, <2>2, <2>3, <2>4, <2>5 DEF TypeOK
<1>6. ASSUME NEW s \in Senders, NEW x \in Targets,
             Sent(s, x) \/ SendFails(s, x) \/ AnswerLost(s, x)
      PROVE  TypeOK'
  <2>1. faults' \in 0..MaxFaults
    <3>1. faults' = faults \/ (faults < MaxFaults /\ faults' = faults + 1)
      BY <1>6 DEF Sent, SendFails, AnswerLost
    <3>2. QED
      BY <3>1 DEF TypeOK
  <2>2. received' \in [Targets -> Nat]
    <3>1. received' = received \/ received' = [received EXCEPT ![x] = @ + 1]
      BY <1>6 DEF Sent, SendFails, AnswerLost
    <3>2. QED
      BY <3>1 DEF TypeOK
  <2>3. todo' \in [Senders -> SUBSET Targets] /\ delivered' \in [Senders -> SUBSET Targets]
    BY <1>6 DEF Sent, SendFails, AnswerLost, TypeOK
  <2>4. UNCHANGED <<cancelled, status, attempted, attemptAge, pc, tickAge, slow, lateResult>>
    BY <1>6 DEF Sent, SendFails, AnswerLost, history
  <2>5. QED
    BY <2>1, <2>2, <2>3, <2>4 DEF TypeOK
<1>7. ASSUME NEW s \in Senders, Crash(s) PROVE TypeOK'
  <2>1. faults' \in 0..MaxFaults
    <3>1. faults < MaxFaults /\ faults' = faults + 1
      BY <1>7 DEF Crash
    <3>2. QED
      BY <3>1 DEF TypeOK
  <2>2. /\ pc' \in [Senders -> Steps] /\ todo' \in [Senders -> SUBSET Targets]
        /\ delivered' \in [Senders -> SUBSET Targets]
    BY <1>7 DEF Crash, TypeOK, Goto, Steps
  <2>3. UNCHANGED <<cancelled, status, attempted, attemptAge, tickAge, received, slow, lateResult>>
    BY <1>7 DEF Crash, history
  <2>4. QED
    BY <2>1, <2>2, <2>3 DEF TypeOK
<1>8. CASE TimePasses
  <2>1. ASSUME NEW s \in Senders, pc[s] # "idle"
        PROVE  tickAge[s] + 1 \in 0..TickLength
    <3>1. Length(s) = RequestLength \/ Length(s) = TickLength
      BY DEF Length
    <3>2. Length(s) \in Nat /\ Length(s) <= TickLength
      BY <3>1
    <3>3. tickAge[s] < Length(s)
      BY <1>8, <2>1 DEF TimePasses
    <3>4. tickAge[s] \in 0..TickLength
      BY DEF TypeOK
    <3>5. QED
      BY <3>2, <3>3, <3>4
  <2>2. tickAge' \in [Senders -> 0..TickLength]
    <3>1. tickAge' = [s \in Senders |-> IF pc[s] = "idle" THEN 0 ELSE tickAge[s] + 1]
      BY <1>8 DEF TimePasses
    <3>2. 0 \in 0..TickLength
      OBVIOUS
    <3>3. QED
      BY <2>1, <3>1, <3>2
  <2>3. attemptAge' \in 0..OldAge
    <3>1. \/ attemptAge' = attemptAge
          \/ attemptAge < OldAge /\ attemptAge' = attemptAge + 1
      BY <1>8 DEF TimePasses
    <3>2. attemptAge \in 0..OldAge /\ OldAge \in Nat
      BY DEF TypeOK, OldAge
    <3>3. QED
      BY <3>1, <3>2
  <2>4. UNCHANGED <<cancelled, status, attempted, pc, todo, delivered, received, faults,
                    lateResult>>
    BY <1>8 DEF TimePasses
  <2>5. slow' \in 0..MaxSlow
    <3>1. slow' = slow \/ (slow < MaxSlow /\ slow' = slow + 1)
      BY <1>8 DEF TimePasses, Outlasted
    <3>2. QED
      BY <3>1 DEF TypeOK
  <2>6. QED
    BY <2>2, <2>3, <2>4, <2>5 DEF TypeOK
<1>9. CASE UNCHANGED vars
  BY <1>9 DEF vars, TypeOK
<1>10. QED
  BY <1>1, <1>2, <1>3, <1>4, <1>5, <1>6, <1>7, <1>8, <1>9
     DEF Next, Notify, Senders

(* Every reachable state is well typed: no age leaves its range. *)
THEOREM TypeCorrect == Spec => []TypeOK
<1>1. QED
  BY TypeInit, TypeStep, PTL DEF Spec

-----------------------------------------------------------------------------
(* What the attempts that outlasted the back-off may still send is finite. *)
LEMMA CreditFinite ==
  ASSUME NEW x
  PROVE  /\ IsFiniteSet(Credit(x)) /\ Cardinality(Credit(x)) \in Nat
         /\ \A s : s \notin Credit(x) =>
              Cardinality(Credit(x) \cup {s}) = Cardinality(Credit(x)) + 1
         /\ \A s : s \in Credit(x) =>
              Cardinality(Credit(x) \ {s}) = Cardinality(Credit(x)) - 1
<1>1. IsFiniteSet(Senders)
  BY SendersAssumption, FS_Union DEF Senders
<1>2. IsFiniteSet(Credit(x))
  BY <1>1, FS_Subset DEF Credit
<1>3. QED
  BY <1>2, FS_AddElement, FS_RemoveElement, FS_CardinalityType

(* The invariant holds at the start: nobody sends and nothing was received. *)
LEMMA NoticeInit == Init => NoticeInv
<1> SUFFICES ASSUME Init PROVE NoticeInv
  OBVIOUS
<1>1. \A s \in Senders : pc[s] # "sending"
  BY DEF Init
<1>2. ASSUME NEW x \in Targets PROVE received[x] + Cardinality(Credit(x)) <= faults + slow
  <2>1. Credit(x) = {}
    BY <1>1 DEF Credit
  <2>2. received[x] = 0 /\ faults = 0 /\ slow = 0 /\ Cardinality(Credit(x)) = 0
    BY <2>1, FS_EmptySet DEF Init
  <2>3. QED
    BY <2>2
<1>3. status # "sent"
  BY DEF Init
<1>4. \A s \in Senders : ~Fresh(s)
  BY <1>1 DEF Fresh
<1>5. (\A s \in Senders : ~Fresh(s)) => \A x \in Targets :
        received[x] + Cardinality(Credit(x)) <= faults + slow + (IF status = "sent" THEN 1 ELSE 0)
  <2>1. faults = 0 /\ slow = 0
    BY DEF Init
  <2>2. QED
    BY <1>2, <1>3, <2>1
<1>6. QED
  BY <1>1, <1>4, <1>5 DEF NoticeInv

(* While a sender is within the back-off, its attempt is too recent for     *)
(* every other one.                                                         *)
LEMMA NobodyFresh ==
  ASSUME TypeOK, NoticeInv, NEW u \in Senders, DueFor(u)
  PROVE  \A s \in Senders : ~Fresh(s)
<1> SUFFICES ASSUME NEW s \in Senders, Fresh(s) PROVE FALSE
  OBVIOUS
<1>1. attempted /\ attemptAge <= tickAge[s] /\ ~(tickAge[s] >= Backoff)
  BY DEF NoticeInv, Fresh, Outlasts
<1>2. attemptAge \in Nat /\ tickAge[s] \in Nat /\ tickAge[u] \in Nat
  BY DEF TypeOK, OldAge
<1>3. attemptAge >= Backoff + tickAge[u]
  BY <1>1 DEF DueFor
<1>4. QED
  BY <1>1, <1>2, <1>3

(* A step that sends nothing, records nothing and opens no attempt leaves    *)
(* the open attempts and their credit alone.                                *)
LEMMA QuietStep ==
  ASSUME TypeOK, NEW s \in Senders, pc[s] # "sending",
         NEW step \in Steps \ {"sending"}, pc' = [pc EXCEPT ![s] = step],
         \A u \in Senders : u # s => tickAge'[u] = tickAge[u],
         UNCHANGED <<todo, delivered>>
  PROVE  /\ \A u \in Senders : (pc'[u] = "sending") <=> (pc[u] = "sending")
         /\ \A u \in Senders : pc[u] = "sending" => tickAge'[u] = tickAge[u]
         /\ \A u \in Senders : Fresh(u)' <=> Fresh(u)
         /\ \A x \in Targets : Credit(x)' = Credit(x)
<1>1. \A u \in Senders : (pc'[u] = "sending") <=> (pc[u] = "sending")
  BY DEF TypeOK
<1>2. \A u \in Senders : pc[u] = "sending" => u # s /\ tickAge'[u] = tickAge[u]
  OBVIOUS
<1>3. QED
  BY <1>1, <1>2 DEF Fresh, Credit, Outlasts

(* The four of them keep the invariant. *)
LEMMA QuietKeeps ==
  ASSUME TypeOK, NoticeInv, NEW s \in Senders,
         CancelCommits(s) \/ StartTick(s) \/ ReadCancelled(s) \/ Skip(s)
  PROVE  NoticeInv'
<1>1. PICK step \in Steps \ {"sending"} : pc' = [pc EXCEPT ![s] = step]
  BY DEF CancelCommits, StartTick, ReadCancelled, Skip, Goto, Steps
<1>2. /\ pc[s] # "sending" /\ (cancelled => cancelled')
      /\ UNCHANGED <<status, attempted, attemptAge, todo, delivered, received, faults, slow,
                     lateResult>>
  BY DEF CancelCommits, StartTick, ReadCancelled, Skip, history
<1>3. \A u \in Senders : u # s => tickAge'[u] = tickAge[u]
  BY DEF CancelCommits, StartTick, ReadCancelled, Skip, Now, TypeOK
<1>4. /\ \A u \in Senders : (pc'[u] = "sending") <=> (pc[u] = "sending")
      /\ \A u \in Senders : pc[u] = "sending" => tickAge'[u] = tickAge[u]
      /\ \A u \in Senders : Fresh(u)' <=> Fresh(u)
      /\ \A x \in Targets : Credit(x)' = Credit(x)
  BY <1>1, <1>2, <1>3, QuietStep
<1>5. QED
  BY <1>2, <1>4 DEF NoticeInv

(* No active chat: nobody was within the back-off, and no success recorded. *)
LEMMA NoTargetKeeps ==
  ASSUME TypeOK, NoticeInv, NEW s \in Senders, NoTarget(s)
  PROVE  NoticeInv'
<1>1. /\ pc[s] # "sending" /\ pc' = [pc EXCEPT ![s] = "idle"] /\ "idle" \in Steps \ {"sending"}
      /\ UNCHANGED <<cancelled, attempted, attemptAge, tickAge, todo, delivered, received, faults,
                     slow>>
  BY DEF NoTarget, Goto, Steps
<1>2. /\ \A u \in Senders : (pc'[u] = "sending") <=> (pc[u] = "sending")
      /\ \A u \in Senders : Fresh(u)' <=> Fresh(u)
      /\ \A x \in Targets : Credit(x)' = Credit(x)
  BY <1>1, QuietStep
<1>3. \A u \in Senders : ~Fresh(u)
  BY NobodyFresh DEF NoTarget
<1>4. status # "sent" /\ status' # "sent"
  BY DEF NoTarget, Open, Final
<1>5. QED
  BY <1>1, <1>2, <1>3, <1>4 DEF NoticeInv

(* A new attempt is within the back-off alone, or counted at once. *)
LEMMA AttemptKeeps ==
  ASSUME TypeOK, NoticeInv, NEW s \in Senders, Attempt(s)
  PROVE  NoticeInv'
<1>1. \A u \in Senders : ~Fresh(u)
  BY NobodyFresh DEF Attempt
<1>2. \A x \in Targets :
        received[x] + Cardinality(Credit(x)) <= faults + slow + (IF status = "sent" THEN 1 ELSE 0)
  BY <1>1 DEF NoticeInv
<1>3. /\ pc[s] = "notify" /\ cancelled /\ status \notin Final /\ status # "sent"
      /\ pc' = [pc EXCEPT ![s] = "sending"]
      /\ attempted' = TRUE /\ attemptAge' = tickAge[s]
      /\ UNCHANGED <<cancelled, status, tickAge, received, faults, lateResult>>
  BY DEF Attempt, Open, Final, Goto
<1>4. /\ \A u \in Senders : u # s => pc'[u] = pc[u] /\ delivered'[u] = delivered[u] /\ todo'[u] = todo[u]
      /\ pc'[s] = "sending" /\ delivered'[s] = {}
  BY DEF Attempt, Goto, TypeOK
<1>5. \A x \in Targets : s \notin Credit(x)
  BY <1>3 DEF Credit
<1>6. ASSUME NEW u \in Senders, pc'[u] = "sending"
      PROVE  cancelled' /\ attempted' /\ attemptAge' <= tickAge'[u] /\ todo'[u] \cap delivered'[u] = {}
  <2>1. tickAge[s] \in Nat /\ tickAge[u] \in Nat /\ attemptAge \in Nat
    BY DEF TypeOK, OldAge
  <2>2. CASE u = s
    BY <1>3, <1>4, <2>1, <2>2
  <2>3. CASE u # s
    <3>1. attempted /\ attemptAge <= tickAge[u] /\ todo[u] \cap delivered[u] = {}
      BY <1>4, <1>6, <2>3 DEF NoticeInv
    <3>2. attemptAge >= Backoff + tickAge[s]
      BY <3>1 DEF Attempt, DueFor
    <3>3. tickAge[s] <= tickAge[u]
      BY <2>1, <3>1, <3>2
    <3>4. QED
      BY <1>3, <1>4, <2>3, <3>1, <3>3
  <2>4. QED
    BY <2>2, <2>3
<1>7. \A u \in Senders : u # s => ~Fresh(u)'
  BY <1>1, <1>3, <1>4 DEF Fresh, Outlasts
<1>8. CASE Outlasts(s)
  <2>1. \A u \in Senders : ~Fresh(u)'
    BY <1>3, <1>7, <1>8 DEF Fresh, Outlasts
  <2>2. slow' = slow + 1
    BY <1>8 DEF Attempt
  <2>3. ASSUME NEW x \in Targets
        PROVE  received'[x] + Cardinality(Credit(x)') <= faults' + slow' + 0
    <3>1. Credit(x)' = Credit(x) \cup {s}
      BY <1>3, <1>4, <1>8 DEF Credit, Outlasts
    <3>2. Cardinality(Credit(x)') = Cardinality(Credit(x)) + 1 /\ Cardinality(Credit(x)) \in Nat
      BY <1>5, <3>1, CreditFinite
    <3>3. received[x] + Cardinality(Credit(x)) <= faults + slow + 0
      BY <1>2, <1>3
    <3>4. received[x] \in Nat /\ faults \in Nat /\ slow \in Nat
      BY DEF TypeOK
    <3>5. QED
      BY <1>3, <2>2, <3>2, <3>3, <3>4
  <2>4. QED
    BY <1>3, <1>6, <2>1, <2>3 DEF NoticeInv
<1>9. CASE ~Outlasts(s)
  <2>1. slow' = slow
    BY <1>9 DEF Attempt
  <2>2. \A x \in Targets : Credit(x)' = Credit(x)
    BY <1>3, <1>4, <1>9 DEF Credit, Outlasts
  <2>3. \A x \in Targets : received'[x] + Cardinality(Credit(x)') <= faults' + slow' + 0
    BY <1>2, <1>3, <2>1, <2>2
  <2>4. Fresh(s)'
    BY <1>3, <1>4, <1>9 DEF Fresh, Outlasts
  <2>5. QED
    BY <1>3, <1>4, <1>6, <1>7, <2>3, <2>4 DEF NoticeInv
<1>10. QED
  BY <1>8, <1>9

(* A message: from an attempt that outlasts the back-off it uses its credit. *)
LEMMA SendKeeps ==
  ASSUME TypeOK, NoticeInv, NEW s \in Senders, NEW x \in Targets,
         Sent(s, x) \/ SendFails(s, x) \/ AnswerLost(s, x)
  PROVE  NoticeInv'
<1>1. /\ pc[s] = "sending" /\ x \in todo[s]
      /\ UNCHANGED <<cancelled, status, attempted, attemptAge, pc, tickAge, slow, lateResult>>
      /\ \A u \in Senders : u # s => todo'[u] = todo[u] /\ delivered'[u] = delivered[u]
      /\ todo'[s] = todo[s] \ {x}
  BY DEF Sent, SendFails, AnswerLost, TypeOK, history
<1>2. \A u \in Senders : Fresh(u)' <=> Fresh(u)
  BY <1>1 DEF Fresh, Outlasts
<1>3. todo[s] \cap delivered[s] = {} /\ x \notin delivered[s]
  BY <1>1 DEF NoticeInv
<1>4. todo'[s] \cap delivered'[s] = {}
  BY <1>1, <1>3 DEF Sent, SendFails, AnswerLost, TypeOK
<1>5. \A u \in Senders : pc'[u] = "sending" =>
        cancelled' /\ attempted' /\ attemptAge' <= tickAge'[u] /\ todo'[u] \cap delivered'[u] = {}
  BY <1>1, <1>4 DEF NoticeInv
<1>6. ASSUME NEW y \in Targets
      PROVE  /\ received[y] \in Nat /\ faults \in Nat /\ slow \in Nat
             /\ Cardinality(Credit(y)) \in Nat
             /\ slow' = slow
  BY <1>1, CreditFinite DEF TypeOK
<1>7. CASE SendFails(s, x)
  <2>1. UNCHANGED <<delivered, received, faults>>
    BY <1>7 DEF SendFails
  <2>2. \A y \in Targets : Credit(y)' = Credit(y)
    BY <1>1, <2>1 DEF Credit, Outlasts
  <2>3. QED
    BY <1>1, <1>2, <1>5, <2>1, <2>2 DEF NoticeInv
<1>8. CASE AnswerLost(s, x)
  <2>1. delivered' = delivered /\ faults' = faults + 1
    BY <1>8 DEF AnswerLost
  <2>2. \A y \in Targets : Credit(y)' = Credit(y)
    BY <1>1, <2>1 DEF Credit, Outlasts
  <2>3. \A y \in Targets : received'[y] = received[y] \/ received'[y] = received[y] + 1
    BY <1>8 DEF AnswerLost, TypeOK
  <2>4. \A y \in Targets, k \in {0, 1} :
          received[y] + Cardinality(Credit(y)) <= faults + slow + k
            => received'[y] + Cardinality(Credit(y)') <= faults' + slow' + k
    BY <1>6, <2>1, <2>2, <2>3
  <2>5. QED
    BY <1>1, <1>2, <1>5, <2>1, <2>4 DEF NoticeInv
<1>9. CASE Sent(s, x)
  <2>1. /\ delivered'[s] = delivered[s] \cup {x} /\ faults' = faults
        /\ \A y \in Targets : y # x => received'[y] = received[y]
        /\ received'[x] = received[x] + 1
    BY <1>9 DEF Sent, TypeOK
  <2>2. ASSUME NEW y \in Targets, y # x PROVE Credit(y)' = Credit(y)
    BY <1>1, <2>1, <2>2 DEF Credit, Outlasts
  <2>3. CASE Outlasts(s)
    <3>1. s \in Credit(x) /\ Credit(x)' = Credit(x) \ {s}
      BY <1>1, <1>3, <2>1, <2>3 DEF Credit, Outlasts
    <3>2. Cardinality(Credit(x)') = Cardinality(Credit(x)) - 1
      BY <3>1, CreditFinite
    <3>3. received'[x] + Cardinality(Credit(x)') = received[x] + Cardinality(Credit(x))
      BY <1>6, <2>1, <3>2
    <3>4. \A y \in Targets :
            received'[y] + Cardinality(Credit(y)') = received[y] + Cardinality(Credit(y))
      BY <2>1, <2>2, <3>3
    <3>5. ~Fresh(s)
      BY <2>3 DEF Fresh
    <3>6. \A u \in Senders : Fresh(u) => delivered'[u] = delivered[u]
      BY <1>1, <3>5
    <3>7. QED
      BY <1>1, <1>2, <1>5, <2>1, <3>4, <3>6 DEF NoticeInv
  <2>4. CASE ~Outlasts(s)
    <3>1. Fresh(s)
      BY <1>1, <2>4 DEF Fresh
    <3>2. \A u \in Senders : Fresh(u) => u = s
      BY <3>1 DEF NoticeInv
    <3>3. Credit(x)' = Credit(x)
      BY <1>1, <2>1, <2>4 DEF Credit, Outlasts
    <3>4. \A y \in Targets : received[y] + Cardinality(Credit(y))
            <= faults + slow + (IF y \in delivered[s] THEN 1 ELSE 0)
      BY <3>1 DEF NoticeInv
    <3>5. ASSUME NEW y \in Targets
          PROVE  received'[y] + Cardinality(Credit(y)')
                   <= faults' + slow' + (IF y \in delivered'[s] THEN 1 ELSE 0)
      <4>1. CASE y = x
        <5>1. received[x] + Cardinality(Credit(x)) <= faults + slow + 0
          BY <1>3, <3>4
        <5>2. received'[x] + Cardinality(Credit(x)') <= faults' + slow' + 1
          BY <1>6, <2>1, <3>3, <5>1
        <5>3. QED
          BY <2>1, <4>1, <5>2
      <4>2. CASE y # x
        <5>1. (y \in delivered'[s]) <=> (y \in delivered[s])
          BY <2>1, <4>2
        <5>2. QED
          BY <1>6, <2>1, <2>2, <3>4, <4>2, <5>1
      <4>3. QED
        BY <4>1, <4>2
    <3>6. status \in Final => lateResult
      BY <3>1 DEF NoticeInv
    <3>7. QED
      BY <1>1, <1>2, <1>5, <3>1, <3>2, <3>5, <3>6 DEF NoticeInv
  <2>5. QED
    BY <2>3, <2>4
<1>10. QED
  BY <1>7, <1>8, <1>9

(* The result: a failure of an attempt that outlasted the back-off, which    *)
(* reached nobody, may undo a success.                                      *)
LEMMA ResultKeeps ==
  ASSUME TypeOK, NoticeInv, NEW s \in Senders, RecordResult(s)
  PROVE  NoticeInv'
<1>1. /\ pc[s] = "sending" /\ status' = (IF delivered[s] # {} THEN "sent" ELSE "failed")
      /\ lateResult' = Outlasts(s)
      /\ UNCHANGED <<cancelled, attempted, attemptAge, tickAge, todo, received, faults, slow>>
  BY DEF RecordResult
<1>2. /\ \A u \in Senders : u # s => pc'[u] = pc[u] /\ delivered'[u] = delivered[u]
      /\ pc'[s] = "idle"
  BY DEF RecordResult, Goto, TypeOK
<1>3. \A u \in Senders : pc'[u] = "sending" =>
        cancelled' /\ attempted' /\ attemptAge' <= tickAge'[u] /\ todo'[u] \cap delivered'[u] = {}
  BY <1>1, <1>2 DEF NoticeInv
<1>4. \A u \in Senders : Fresh(u)' <=> (Fresh(u) /\ u # s)
  BY <1>1, <1>2 DEF Fresh, Outlasts
<1>5. ASSUME NEW y \in Targets
      PROVE  /\ received[y] \in Nat /\ faults \in Nat /\ slow \in Nat
             /\ Cardinality(Credit(y)) \in Nat
  BY CreditFinite DEF TypeOK
<1>6. CASE Outlasts(s)
  <2>1. \A u \in Senders : Fresh(u)' <=> Fresh(u)
    BY <1>4, <1>6 DEF Fresh
  <2>2. ASSUME NEW y \in Targets
        PROVE  /\ Cardinality(Credit(y)') <= Cardinality(Credit(y))
               /\ y \notin delivered[s] => Cardinality(Credit(y)') = Cardinality(Credit(y)) - 1
               /\ Cardinality(Credit(y)') \in Int
    <3>1. Credit(y)' = Credit(y) \ {s}
      BY <1>1, <1>2 DEF Credit, Outlasts
    <3>2. (s \in Credit(y)) <=> (y \notin delivered[s])
      BY <1>1, <1>6 DEF Credit
    <3>3. CASE s \in Credit(y)
      <4>1. Cardinality(Credit(y) \ {s}) = Cardinality(Credit(y)) - 1
        BY <3>3, CreditFinite
      <4>2. QED
        BY <1>5, <3>1, <4>1
    <3>4. CASE s \notin Credit(y)
      <4>1. Credit(y)' = Credit(y)
        BY <3>1, <3>4
      <4>2. QED
        BY <1>5, <3>2, <3>4, <4>1
    <3>5. QED
      BY <3>3, <3>4
  <2>3. ASSUME NEW u \in Senders, Fresh(u)', NEW y \in Targets
        PROVE  received'[y] + Cardinality(Credit(y)')
                 <= faults' + slow' + (IF y \in delivered'[u] THEN 1 ELSE 0)
    <3>1. u # s /\ delivered'[u] = delivered[u] /\ Fresh(u)
      BY <1>2, <1>4, <2>3
    <3>2. received[y] + Cardinality(Credit(y)) <= faults + slow + (IF y \in delivered[u] THEN 1 ELSE 0)
      BY <3>1 DEF NoticeInv
    <3>3. QED
      BY <1>1, <1>5, <2>2, <3>1, <3>2
  <2>4. ASSUME \A u \in Senders : ~Fresh(u)', NEW y \in Targets
        PROVE  received'[y] + Cardinality(Credit(y)')
                 <= faults' + slow' + (IF status' = "sent" THEN 1 ELSE 0)
    <3>1. received[y] + Cardinality(Credit(y)) <= faults + slow + (IF status = "sent" THEN 1 ELSE 0)
      BY <2>1, <2>4 DEF NoticeInv
    <3>2. received[y] + Cardinality(Credit(y)) <= faults + slow + 1
      BY <1>5, <3>1
    <3>3. CASE delivered[s] # {}
      <4>1. received'[y] + Cardinality(Credit(y)') <= faults' + slow' + 1
        BY <1>1, <1>5, <2>2, <3>2
      <4>2. QED
        BY <1>1, <3>3, <4>1
    <3>4. CASE delivered[s] = {}
      <4>1. Cardinality(Credit(y)') = Cardinality(Credit(y)) - 1
        BY <2>2, <3>4
      <4>2. received'[y] + Cardinality(Credit(y)') <= faults' + slow' + 0
        BY <1>1, <1>5, <3>2, <4>1
      <4>3. QED
        BY <1>1, <3>4, <4>2
    <3>5. QED
      BY <3>3, <3>4
  <2>5. lateResult'
    BY <1>1, <1>6
  <2>6. \A u, v \in Senders : Fresh(u)' /\ Fresh(v)' => u = v
    BY <2>1 DEF NoticeInv
  <2>7. QED
    BY <1>3, <2>3, <2>4, <2>5, <2>6 DEF NoticeInv
<1>7. CASE ~Outlasts(s)
  <2>1. Fresh(s)
    BY <1>1, <1>7 DEF Fresh
  <2>2. \A u \in Senders : ~Fresh(u)'
    BY <1>4, <2>1 DEF NoticeInv
  <2>3. \A y \in Targets : Credit(y)' = Credit(y)
    BY <1>1, <1>2, <1>7 DEF Credit, Outlasts
  <2>4. ASSUME NEW y \in Targets
        PROVE  received'[y] + Cardinality(Credit(y)')
                 <= faults' + slow' + (IF status' = "sent" THEN 1 ELSE 0)
    <3>1. received[y] + Cardinality(Credit(y)) <= faults + slow + (IF y \in delivered[s] THEN 1 ELSE 0)
      BY <2>1 DEF NoticeInv
    <3>2. y \in delivered[s] => status' = "sent"
      BY <1>1
    <3>3. QED
      BY <1>1, <1>5, <2>3, <3>1, <3>2
  <2>5. QED
    BY <1>3, <2>2, <2>4 DEF NoticeInv
<1>8. QED
  BY <1>6, <1>7

(* A death: the fault pays for what the attempt had sent. *)
LEMMA CrashKeeps ==
  ASSUME TypeOK, NoticeInv, NEW s \in Senders, Crash(s)
  PROVE  NoticeInv'
<1>1. /\ faults' = faults + 1
      /\ UNCHANGED <<cancelled, status, attempted, attemptAge, tickAge, received, slow, lateResult>>
  BY DEF Crash, history
<1>2. /\ \A u \in Senders :
           u # s => pc'[u] = pc[u] /\ delivered'[u] = delivered[u] /\ todo'[u] = todo[u]
      /\ pc'[s] = "idle"
  BY DEF Crash, Goto, TypeOK
<1>3. \A u \in Senders : pc'[u] = "sending" =>
        cancelled' /\ attempted' /\ attemptAge' <= tickAge'[u] /\ todo'[u] \cap delivered'[u] = {}
  BY <1>1, <1>2 DEF NoticeInv
<1>4. \A u \in Senders : Fresh(u)' <=> (Fresh(u) /\ u # s)
  BY <1>1, <1>2 DEF Fresh, Outlasts
<1>5. ASSUME NEW y \in Targets
      PROVE  /\ received[y] \in Nat /\ faults \in Nat /\ slow \in Nat
             /\ Cardinality(Credit(y)) \in Nat /\ Cardinality(Credit(y)') \in Int
             /\ Cardinality(Credit(y)') <= Cardinality(Credit(y))
  <2>1. received[y] \in Nat /\ faults \in Nat /\ slow \in Nat /\ Cardinality(Credit(y)) \in Nat
    BY CreditFinite DEF TypeOK
  <2>2. Credit(y)' = Credit(y) \ {s}
    BY <1>1, <1>2 DEF Credit, Outlasts
  <2>3. CASE s \in Credit(y)
    <3>1. Cardinality(Credit(y) \ {s}) = Cardinality(Credit(y)) - 1
      BY <2>3, CreditFinite
    <3>2. QED
      BY <2>1, <2>2, <3>1
  <2>4. CASE s \notin Credit(y)
    <3>1. Credit(y)' = Credit(y)
      BY <2>2, <2>4
    <3>2. QED
      BY <2>1, <3>1
  <2>5. QED
    BY <2>3, <2>4
<1>6. ASSUME NEW u \in Senders, Fresh(u)', NEW y \in Targets
      PROVE  received'[y] + Cardinality(Credit(y)')
               <= faults' + slow' + (IF y \in delivered'[u] THEN 1 ELSE 0)
  <2>1. u # s /\ delivered'[u] = delivered[u] /\ Fresh(u)
    BY <1>2, <1>4, <1>6
  <2>2. received[y] + Cardinality(Credit(y)) <= faults + slow + (IF y \in delivered[u] THEN 1 ELSE 0)
    BY <2>1 DEF NoticeInv
  <2>3. QED
    BY <1>1, <1>5, <2>1, <2>2
<1>7. ASSUME \A u \in Senders : ~Fresh(u)', NEW y \in Targets
      PROVE  received'[y] + Cardinality(Credit(y)')
               <= faults' + slow' + (IF status' = "sent" THEN 1 ELSE 0)
  <2>1. CASE Fresh(s)
    <3>1. received[y] + Cardinality(Credit(y)) <= faults + slow + (IF y \in delivered[s] THEN 1 ELSE 0)
      BY <2>1 DEF NoticeInv
    <3>2. received[y] + Cardinality(Credit(y)) <= faults + slow + 1
      BY <1>5, <3>1
    <3>3. QED
      BY <1>1, <1>5, <3>2
  <2>2. CASE ~Fresh(s)
    <3>1. \A u \in Senders : ~Fresh(u)
      BY <1>4, <1>7, <2>2
    <3>2. received[y] + Cardinality(Credit(y)) <= faults + slow + (IF status = "sent" THEN 1 ELSE 0)
      BY <3>1 DEF NoticeInv
    <3>3. QED
      BY <1>1, <1>5, <3>2
  <2>3. QED
    BY <2>1, <2>2
<1>8. \A u \in Senders : Fresh(u)' => (status' \in Final => lateResult')
  BY <1>1, <1>4 DEF NoticeInv
<1>9. \A u, v \in Senders : Fresh(u)' /\ Fresh(v)' => u = v
  BY <1>4 DEF NoticeInv
<1>10. QED
  BY <1>3, <1>6, <1>7, <1>8, <1>9 DEF NoticeInv

(* Time: the one attempt within the back-off may leave it, and is counted. *)
LEMMA TimeKeeps ==
  ASSUME TypeOK, NoticeInv, TimePasses
  PROVE  NoticeInv'
<1>1. /\ UNCHANGED <<cancelled, status, attempted, pc, todo, delivered, received, faults, lateResult>>
      /\ slow' = (IF Outlasted THEN slow + 1 ELSE slow)
      /\ attemptAge' = IF attempted /\ attemptAge < OldAge THEN attemptAge + 1 ELSE attemptAge
  BY DEF TimePasses
<1>2. \A u \in Senders : pc[u] = "sending" => tickAge'[u] = tickAge[u] + 1
  BY DEF TimePasses
<1>3. \A u \in Senders : tickAge[u] \in Nat /\ attemptAge \in Nat
  BY DEF TypeOK, OldAge
<1>4. ASSUME NEW u \in Senders, pc'[u] = "sending"
      PROVE  cancelled' /\ attempted' /\ attemptAge' <= tickAge'[u] /\ todo'[u] \cap delivered'[u] = {}
  <2>1. pc[u] = "sending" /\ cancelled /\ attempted /\ attemptAge <= tickAge[u] /\ todo[u] \cap delivered[u] = {}
    BY <1>1, <1>4 DEF NoticeInv
  <2>2. attemptAge' <= attemptAge + 1 /\ attemptAge' \in Nat
    BY <1>1, <1>3
  <2>3. attemptAge' <= tickAge'[u]
    BY <1>2, <1>3, <2>1, <2>2
  <2>4. QED
    BY <1>1, <2>1, <2>3
<1>5. \A u \in Senders : Fresh(u)' => Fresh(u)
  BY <1>1, <1>2, <1>3 DEF Fresh, Outlasts
<1>6. ASSUME NEW y \in Targets
      PROVE  /\ received[y] \in Nat /\ faults \in Nat /\ slow \in Nat
             /\ Cardinality(Credit(y)) \in Nat
  BY CreditFinite DEF TypeOK
<1>7. CASE Outlasted
  <2>1. PICK s \in Senders : pc[s] = "sending" /\ tickAge[s] + 1 = Backoff
    BY <1>7 DEF Outlasted, Ages
  <2>2. Fresh(s)
    BY <1>3, <2>1 DEF Fresh, Outlasts
  <2>3. \A u \in Senders : Fresh(u) => u = s
    BY <2>2 DEF NoticeInv
  <2>4. tickAge'[s] >= Backoff
    BY <1>2, <1>3, <2>1
  <2>5. \A u \in Senders : ~Fresh(u)'
    BY <1>5, <2>3, <2>4 DEF Fresh, Outlasts
  <2>6. \A u \in Senders : (pc[u] = "sending" /\ u # s) => (Outlasts(u)' <=> Outlasts(u))
    <3>1. \A u \in Senders : (pc[u] = "sending" /\ u # s) => tickAge[u] >= Backoff
      BY <2>3 DEF Fresh, Outlasts
    <3>2. QED
      BY <1>2, <1>3, <3>1 DEF Outlasts
  <2>7. ASSUME NEW y \in Targets
        PROVE  received'[y] + Cardinality(Credit(y)') <= faults' + slow' + 0
    <3>1. received[y] + Cardinality(Credit(y)) <= faults + slow + (IF y \in delivered[s] THEN 1 ELSE 0)
      BY <2>2 DEF NoticeInv
    <3>2. s \notin Credit(y)
      BY <2>2 DEF Credit, Fresh
    <3>3. CASE y \in delivered[s]
      <4>1. Credit(y)' = Credit(y)
        BY <1>1, <2>1, <2>6, <3>3 DEF Credit
      <4>2. QED
        BY <1>1, <1>6, <1>7, <3>1, <3>3, <4>1
    <3>4. CASE y \notin delivered[s]
      <4>1. Credit(y)' = Credit(y) \cup {s}
        BY <1>1, <2>1, <2>4, <2>6, <3>4 DEF Credit, Outlasts
      <4>2. Cardinality(Credit(y)') = Cardinality(Credit(y)) + 1
        BY <3>2, <4>1, CreditFinite
      <4>3. QED
        BY <1>1, <1>6, <1>7, <3>1, <3>4, <4>2
    <3>5. QED
      BY <3>3, <3>4
  <2>8. \A y \in Targets :
          received'[y] + Cardinality(Credit(y)') <= faults' + slow' + (IF status' = "sent" THEN 1 ELSE 0)
    <3>1. CASE status' = "sent"
      <4>1. ASSUME NEW y \in Targets
            PROVE  received'[y] + Cardinality(Credit(y)') <= faults' + slow' + 1
        <5>1. received'[y] \in Nat /\ faults' \in Nat /\ slow' \in Nat
          BY <1>1, <1>6
        <5>2. Cardinality(Credit(y)') \in Int
          <6>1. Credit(y)' = Credit(y) \/ Credit(y)' = Credit(y) \cup {s}
            BY <1>1, <2>1, <2>4, <2>6 DEF Credit, Outlasts
          <6>2. s \notin Credit(y)
            BY <2>2 DEF Credit, Fresh
          <6>3. QED
            BY <1>6, <6>1, <6>2, CreditFinite
        <5>3. QED
          BY <2>7, <5>1, <5>2
      <4>2. QED
        BY <3>1, <4>1
    <3>2. CASE status' # "sent"
      BY <2>7, <3>2
    <3>3. QED
      BY <3>1, <3>2
  <2>9. QED
    BY <1>4, <2>5, <2>8 DEF NoticeInv
<1>8. CASE ~Outlasted
  <2>1. \A u \in Senders : pc[u] = "sending" => (Outlasts(u)' <=> Outlasts(u))
    <3>1. \A u \in Senders : pc[u] = "sending" => tickAge[u] + 1 # Backoff
      BY <1>8 DEF Outlasted, Ages
    <3>2. QED
      BY <1>2, <1>3, <3>1 DEF Outlasts
  <2>2. \A u \in Senders : Fresh(u)' <=> Fresh(u)
    BY <1>1, <2>1 DEF Fresh
  <2>3. \A y \in Targets : Credit(y)' = Credit(y)
    BY <1>1, <2>1 DEF Credit
  <2>4. QED
    BY <1>1, <1>4, <1>8, <2>2, <2>3 DEF NoticeInv
<1>9. QED
  BY <1>7, <1>8

(* No step breaks the invariant. *)
LEMMA NoticeStep == TypeOK /\ NoticeInv /\ [Next]_vars => NoticeInv'
<1> SUFFICES ASSUME TypeOK, NoticeInv, [Next]_vars PROVE NoticeInv'
  OBVIOUS
<1>1. CASE UNCHANGED vars
  BY <1>1 DEF vars, NoticeInv, Fresh, Credit, Outlasts
<1>2. QED
  BY <1>1, QuietKeeps, NoTargetKeeps, AttemptKeeps, SendKeeps, ResultKeeps, CrashKeeps, TimeKeeps
     DEF Next, Notify, Senders

(* A chat receives the cancellation message at most once more than there     *)
(* were crashes, lost answers and attempts that outlasted the back-off,     *)
(* however long the workers' ticks are.                                     *)
THEOREM MessagesBoundedAlways == Spec => []MessagesBounded
<1>1. TypeOK /\ NoticeInv => MessagesBounded
  <2> SUFFICES ASSUME TypeOK, NoticeInv, NEW x \in Targets
               PROVE  received[x] <= 1 + faults + slow
    BY DEF MessagesBounded
  <2>1. /\ received[x] \in Nat /\ faults \in Nat /\ slow \in Nat
        /\ Cardinality(Credit(x)) \in Nat
    BY CreditFinite DEF TypeOK
  <2>2. received[x] + Cardinality(Credit(x)) <= faults + slow + 1
    <3>1. CASE \A s \in Senders : ~Fresh(s)
      BY <2>1, <3>1 DEF NoticeInv
    <3>2. CASE \E s \in Senders : Fresh(s)
      BY <2>1, <3>2 DEF NoticeInv
    <3>3. QED
      BY <3>1, <3>2
  <2>3. QED
    BY <2>1, <2>2
<1>2. QED
  BY <1>1, TypeInit, TypeStep, NoticeInit, NoticeStep, PTL DEF Spec

(* A recorded result is final unless the attempt that wrote it, or the one   *)
(* that overwrites it, outlasted the back-off: within it no slower sender   *)
(* overwrites a success.                                                    *)
THEOREM SuccessIsFinalAlways == Spec => SuccessIsFinal
<1>1. TypeOK /\ NoticeInv /\ [Next]_vars =>
        [(status \in Final /\ status' # status) =>
           \E s \in Senders :
             pc[s] = "sending" /\ pc'[s] = "idle" /\ (Outlasts(s) \/ lateResult)]_vars
  <2> SUFFICES ASSUME TypeOK, NoticeInv, Next, status \in Final, status' # status
               PROVE  \E s \in Senders :
                        pc[s] = "sending" /\ pc'[s] = "idle" /\ (Outlasts(s) \/ lateResult)
    OBVIOUS
  <2>1. ASSUME NEW s \in Senders, NoTarget(s) PROVE FALSE
    BY <2>1 DEF NoTarget, Open
  <2>2. PICK s \in Senders : RecordResult(s)
    BY <2>1 DEF Next, Notify, Senders, CancelCommits, StartTick, ReadCancelled, Skip,
                Attempt, Sent, SendFails, AnswerLost, Crash, TimePasses
  <2>3. pc[s] = "sending" /\ pc'[s] = "idle"
    BY <2>2 DEF RecordResult, Goto, TypeOK
  <2>4. Outlasts(s) \/ lateResult
    BY <2>3 DEF NoticeInv, Fresh
  <2>5. QED
    BY <2>3, <2>4
<1>2. QED
  BY <1>1, TypeInit, TypeStep, NoticeInit, NoticeStep, PTL DEF Spec, SuccessIsFinal
=============================================================================
