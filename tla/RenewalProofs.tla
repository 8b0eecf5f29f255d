--------------------------- MODULE RenewalProofs ---------------------------
(***************************************************************************)
(* An order that no worker has claimed extends the client at most once and *)
(* resets its traffic at most once, for any number of orders, approvers,   *)
(* crashes, lost answers and changes by others.                            *)
(***************************************************************************)
EXTENDS Renewal, TLAPS

USE ApproversAssumption, DurationAssumption, BoundsAssumption DEF Approvers

-----------------------------------------------------------------------------
(* Nothing is ordered, claimed or extended at the start. *)
LEMMA TypeInit == Init => TypeOK
<1> SUFFICES ASSUME Init PROVE TypeOK
  OBVIOUS
<1>1. /\ status \in [Orders -> {"none", "open", "completed"}]
      /\ attempt \in [Orders -> {"", "running", "finished"}]
      /\ pc \in [Approvers -> Steps] /\ creating \subseteq Customers
      /\ orderLock \in [Orders -> Approvers \cup {NoThread}]
      /\ clientLock \in Approvers \cup {NoThread}
  BY DEF Init, Steps, LockSteps
<1>2. auto \in [Orders -> BOOLEAN] /\ matches \in BOOLEAN /\ claimed \in [Approvers -> BOOLEAN]
  BY DEF Init
<1>3. NoIntent \in Intents
  BY DEF NoIntent, Intents
<1>4. intent \in [Orders -> Intents] /\ work \in [Approvers -> Intents]
  BY <1>3 DEF Init
<1>5. on \in [Approvers -> Orders]
  <2>1. PICK o \in Orders : on = [t \in Approvers |-> o]
    BY DEF Init
  <2>2. QED
    BY <2>1
<1>6. expiry \in Nat /\ now = 0 /\ edits = 0 /\ faults = 0
  <2>1. expiry \in {0, 1} /\ now = 0 /\ edits = 0 /\ faults = 0
    BY Zenon DEF Init
  <2>2. QED
    BY <2>1
<1>7. now \in 0..MaxTime /\ edits \in 0..MaxEdits /\ faults \in 0..MaxFaults
  BY <1>6
<1>8. extensions = [o \in Orders |-> 0] /\ resets = [o \in Orders |-> 0]
  BY DEF Init
<1>9. extensions \in [Orders -> Nat] /\ resets \in [Orders -> Nat]
  BY <1>8
<1>10. overtaken \subseteq Orders
  BY DEF Init
<1>11. QED
  BY <1>1, <1>2, <1>4, <1>5, <1>6, <1>7, <1>9, <1>10 DEF TypeOK

(* The intent made from the panel is an intent. *)
LEMMA IntentOfType ==
  ASSUME TypeOK, NEW i \in Intents
  PROVE  IntentOf(i) \in Intents /\ IntentOf(i).reset # "none"
<1>1. now \in 0..MaxTime /\ expiry \in Nat
  BY DEF TypeOK
<1>2. Later(now, expiry) + Duration \in Nat
  BY <1>1 DEF Later
<1>3. CASE i.reset # "none"
  BY <1>3 DEF IntentOf
<1>4. CASE i.reset = "none"
  BY <1>1, <1>2, <1>4 DEF IntentOf, Intents
<1>5. QED
  BY <1>3, <1>4

(* No step leaves the types. *)
LEMMA TypeStep == TypeOK /\ [Next]_vars => TypeOK'
<1> SUFFICES ASSUME TypeOK, [Next]_vars PROVE TypeOK'
  OBVIOUS
<1> USE DEF Goto, Steps, LockSteps, panel, environment
<1>1. ASSUME NEW c \in Customers, LookForPending(c) PROVE TypeOK'
  BY <1>1 DEF LookForPending, TypeOK
<1>2. ASSUME NEW c \in Customers, NEW o \in Orders, CreateOrder(c, o) PROVE TypeOK'
  BY <1>2 DEF CreateOrder, TypeOK
<1>3. ASSUME NEW t \in Requests, NEW o \in Orders, Approve(t, o) PROVE TypeOK'
  BY <1>3 DEF Approve, TypeOK
<1>4. ASSUME NEW t \in Requests, Claim(t) PROVE TypeOK'
  <2>1. claimed' \in [Approvers -> BOOLEAN]
    BY <1>4 DEF Claim, TypeOK
  <2>2. /\ attempt' \in [Orders -> {"", "running", "finished"}]
        /\ pc' \in [Approvers -> Steps]
    BY <1>4 DEF Claim, TypeOK
  <2>3. QED
    BY <1>4, <2>1, <2>2 DEF Claim, TypeOK
<1>5. ASSUME NEW t \in Requests, Refuse(t) PROVE TypeOK'
  BY <1>5 DEF Refuse, TypeOK
<1>6. ASSUME NEW t \in Requests, Begin(t) PROVE TypeOK'
  <2>0. on[t] \in Orders
    BY DEF TypeOK
  <2>1. PICK step \in {"finish", "renew"} : pc' = [pc EXCEPT ![t] = step]
    BY <1>6, Zenon DEF Begin
  <2>2. orderLock' = orderLock \/ orderLock' = [orderLock EXCEPT ![on[t]] = t]
    BY <1>6, Zenon DEF Begin
  <2>3. work' = work \/ work' = [work EXCEPT ![t] = intent[on[t]]]
    BY <1>6, Zenon DEF Begin
  <2>4. UNCHANGED <<status, attempt, intent, auto, panel, on, claimed, clientLock,
                    environment, faults>>
    BY <1>6 DEF Begin
  <2>5. pc' \in [Approvers -> Steps]
    BY <2>1 DEF TypeOK
  <2>6. work' \in [Approvers -> Intents]
    BY <2>0, <2>3 DEF TypeOK
  <2>7. t \in Approvers
    BY DEF Approvers
  <2>8. orderLock' \in [Orders -> Approvers \cup {NoThread}]
    BY <2>0, <2>2, <2>7 DEF TypeOK
  <2>9. QED
    BY <2>4, <2>5, <2>6, <2>8 DEF TypeOK
<1>7. ASSUME NEW t \in Requests, Finish(t) PROVE TypeOK'
  <2>1. claimed' \in [Approvers -> BOOLEAN]
    BY <1>7 DEF Finish, TypeOK
  <2>2. /\ attempt' \in [Orders -> {"", "running", "finished"}]
        /\ pc' \in [Approvers -> Steps]
    BY <1>7 DEF Finish, TypeOK
  <2>3. QED
    BY <1>7, <2>1, <2>2 DEF Finish, TypeOK
<1>8. ASSUME NEW t \in Workers, NEW o \in Orders, AutoClaim(t, o) PROVE TypeOK'
  BY <1>8 DEF AutoClaim, TypeOK
<1>9. ASSUME NEW t \in Workers, AutoBegin(t) PROVE TypeOK'
  <2>0. on[t] \in Orders
    BY DEF TypeOK
  <2>1. PICK step \in {"idle", "renew"} : pc' = [pc EXCEPT ![t] = step]
    BY <1>9, Zenon DEF AutoBegin
  <2>2. orderLock' = orderLock \/ orderLock' = [orderLock EXCEPT ![on[t]] = t]
    BY <1>9, Zenon DEF AutoBegin
  <2>3. work' = work \/ work' = [work EXCEPT ![t] = intent[on[t]]]
    BY <1>9, Zenon DEF AutoBegin
  <2>4. UNCHANGED <<status, attempt, intent, auto, panel, on, claimed, clientLock,
                    environment, faults>>
    BY <1>9 DEF AutoBegin
  <2>5. pc' \in [Approvers -> Steps]
    BY <2>1 DEF TypeOK
  <2>6. work' \in [Approvers -> Intents]
    BY <2>0, <2>3 DEF TypeOK
  <2>7. orderLock' \in [Orders -> Approvers \cup {NoThread}]
    BY <2>0, <2>2 DEF TypeOK
  <2>8. QED
    BY <2>4, <2>5, <2>6, <2>7 DEF TypeOK
<1>10. ASSUME NEW t \in Approvers, Renew(t) PROVE TypeOK'
  <2> DEFINE o == on[t]
  <2>0. o \in Orders /\ work[t] \in Intents
    BY DEF TypeOK
  <2>1. CASE ReadPanel(t)
    <3>1. /\ pc' \in [Approvers -> Steps]
          /\ work' = [work EXCEPT ![t] = IntentOf(work[t])] /\ clientLock' = t
          /\ UNCHANGED <<status, attempt, intent, auto, panel, on, claimed, orderLock,
                         environment, faults>>
      BY <2>1 DEF ReadPanel, TypeOK
    <3>2. work' \in [Approvers -> Intents]
      BY <2>0, <3>1, IntentOfType DEF TypeOK
    <3>3. QED
      BY <3>1, <3>2 DEF TypeOK
  <2>2. CASE ReadFails(t) \/ PostFails(t)
    BY <2>2 DEF ReadFails, PostFails, TypeOK
  <2>3. CASE PostUpdate(t)
    <3>1. /\ pc' \in [Approvers -> Steps]
          /\ UNCHANGED <<status, attempt, intent, auto, resets, on, claimed, work, orderLock,
                         clientLock, environment, faults>>
      BY <2>3 DEF PostUpdate, TypeOK
    <3>2. matches' \in BOOLEAN
      BY <2>3 DEF PostUpdate
    <3>3. expiry' \in Nat
      BY <2>0, <2>3 DEF PostUpdate, Intents
    <3>4. extensions' = extensions \/ extensions' = [extensions EXCEPT ![o] = @ + 1]
      BY <2>3 DEF PostUpdate
    <3>5. extensions' \in [Orders -> Nat]
      <4>1. extensions \in [Orders -> Nat]
        BY DEF TypeOK
      <4>2. QED
        BY <2>0, <3>4, <4>1
    <3>6. overtaken' \subseteq Orders
      BY <2>3 DEF PostUpdate, Waiting, TypeOK
    <3>7. QED
      BY <3>1, <3>2, <3>3, <3>5, <3>6 DEF TypeOK
  <2>4. CASE ResetTraffic(t) \/ ResetFails(t)
    <3>0. PICK step \in {"complete", "failed"} : pc' = [pc EXCEPT ![t] = step]
      BY <2>4 DEF ResetTraffic, ResetFails
    <3>1. /\ pc' \in [Approvers -> Steps]
          /\ UNCHANGED <<status, attempt, intent, auto, expiry, matches, extensions, overtaken,
                         on, claimed, orderLock, clientLock, environment, faults>>
      BY <2>4, <3>0 DEF ResetTraffic, ResetFails, TypeOK
    <3>2. PICK r \in {"started", "done"} : work' = [work EXCEPT ![t].reset = r]
      BY <2>4 DEF ResetTraffic, ResetFails
    <3>3. [work[t] EXCEPT !.reset = r] \in Intents
      <4>1. /\ work[t].previous \in Nat /\ work[t].target \in Nat
            /\ [work[t] EXCEPT !.reset = r] =
                 [previous |-> work[t].previous, target |-> work[t].target, reset |-> r]
        BY <2>0 DEF Intents
      <4>2. QED
        BY <4>1 DEF Intents
    <3>4. work' \in [Approvers -> Intents]
      BY <3>2, <3>3 DEF TypeOK
    <3>5. resets' = resets \/ resets' = [resets EXCEPT ![o] = @ + 1]
      BY <2>4 DEF ResetTraffic, ResetFails
    <3>6. resets' \in [Orders -> Nat]
      <4>1. resets \in [Orders -> Nat]
        BY DEF TypeOK
      <4>2. QED
        BY <2>0, <3>5, <4>1
    <3>7. QED
      BY <3>1, <3>4, <3>6 DEF TypeOK
  <2>5. CASE Commit(t)
    <3>1. /\ status' \in [Orders -> {"none", "open", "completed"}]
          /\ attempt' \in [Orders -> {"", "running", "finished"}]
          /\ pc' \in [Approvers -> Steps]
          /\ orderLock' \in [Orders -> Approvers \cup {NoThread}]
          /\ clientLock' \in Approvers \cup {NoThread}
      BY <2>0, <2>5 DEF Commit, TypeOK
    <3>2. NoIntent \in Intents
      BY DEF NoIntent, Intents
    <3>3. intent' \in [Orders -> Intents] /\ work' \in [Approvers -> Intents]
      BY <2>0, <2>5, <3>2 DEF Commit, TypeOK
    <3>4. UNCHANGED <<auto, panel, on, claimed, environment, faults>>
      BY <2>5 DEF Commit
    <3>5. QED
      BY <3>1, <3>3, <3>4 DEF TypeOK
  <2>6. CASE Crash(t)
    <3>1. /\ pc' \in [Approvers -> Steps]
          /\ orderLock' \in [Orders -> Approvers \cup {NoThread}]
          /\ clientLock' \in Approvers \cup {NoThread}
      BY <2>6 DEF Crash, TypeOK
    <3>2. claimed' \in [Approvers -> BOOLEAN]
      BY <2>6 DEF Crash, TypeOK
    <3>3. NoIntent \in Intents
      BY DEF NoIntent, Intents
    <3>4. work' \in [Approvers -> Intents]
      BY <2>6, <3>3 DEF Crash, TypeOK
    <3>5. faults < MaxFaults /\ faults' = faults + 1
      BY <2>6 DEF Crash
    <3>6. faults' \in 0..MaxFaults
      <4>1. faults \in 0..MaxFaults
        BY DEF TypeOK
      <4>2. QED
        BY <3>5, <4>1
    <3>7. UNCHANGED <<status, attempt, intent, auto, panel, on, environment>>
      BY <2>6 DEF Crash
    <3>8. QED
      BY <3>1, <3>2, <3>4, <3>6, <3>7 DEF TypeOK
  <2>7. QED
    BY <1>10, <2>1, <2>2, <2>3, <2>4, <2>5, <2>6 DEF Renew
<1>11. CASE TimePasses
  <2>1. now < MaxTime /\ now' = now + 1
    BY <1>11 DEF TimePasses
  <2>2. now' \in 0..MaxTime
    <3>1. now \in 0..MaxTime
      BY DEF TypeOK
    <3>2. QED
      BY <2>1, <3>1
  <2>3. QED
    BY <1>11, <2>2 DEF TimePasses, TypeOK
<1>12. CASE DaysAdded
  <2>1. edits < MaxEdits /\ edits' = edits + 1 /\ expiry' = expiry + 1
    BY <1>12 DEF DaysAdded
  <2>2. edits' \in 0..MaxEdits /\ expiry' \in Nat
    <3>1. edits \in 0..MaxEdits /\ expiry \in Nat
      BY DEF TypeOK
    <3>2. QED
      BY <2>1, <3>1
  <2>3. QED
    BY <1>12, <2>2 DEF DaysAdded, TypeOK
<1>13. CASE ClientChanges
  BY <1>13 DEF ClientChanges, TypeOK
<1>14. CASE UNCHANGED vars
  BY <1>14 DEF vars, TypeOK
<1>15. QED
  BY <1>1, <1>2, <1>3, <1>4, <1>5, <1>6, <1>7, <1>8, <1>9, <1>10, <1>11, <1>12, <1>13, <1>14
     DEF Next

(* Every reachable state is well typed. *)
THEOREM TypeCorrect == Spec => []TypeOK
<1>1. QED
  BY TypeInit, TypeStep, PTL DEF Spec
-----------------------------------------------------------------------------
(* Only the approver inside a transaction takes and releases its locks. *)
LEMMA LockingStep == ASSUME TypeOK, Locking, [Next]_vars PROVE Locking'
<1> USE DEF Goto, LockSteps, ClientSteps
<1>0. /\ pc \in [Approvers -> Steps] /\ on \in [Approvers -> Orders]
      /\ orderLock \in [Orders -> Approvers \cup {NoThread}] /\ NoThread \notin Approvers
  BY DEF TypeOK
<1>a. /\ \A t \in Approvers, o \in Orders :
           orderLock[o] = t <=> (on[t] = o /\ pc[t] \in LockSteps)
      /\ \A t \in Approvers : clientLock = t <=> pc[t] \in ClientSteps
  BY DEF Locking
<1>1. ASSUME NEW t \in Approvers, NEW o \in Orders, Approve(t, o) \/ AutoClaim(t, o)
      PROVE  Locking'
  BY <1>0, <1>a, <1>1 DEF Approve, AutoClaim, Locking
<1>2. ASSUME NEW t \in Approvers, Claim(t) \/ Refuse(t) \/ Finish(t) PROVE Locking'
  BY <1>0, <1>a, <1>2 DEF Claim, Refuse, Finish, Locking
<1>3. ASSUME NEW t \in Approvers, Begin(t) \/ AutoBegin(t) PROVE Locking'
  <2>1. /\ pc[t] = "approve" /\ orderLock[on[t]] = NoThread /\ on[t] \in Orders
        /\ UNCHANGED <<on, clientLock>>
    BY <1>3 DEF Begin, AutoBegin, TypeOK, Unlocked
  <2>2. \/ orderLock' = orderLock /\ pc' \in {[pc EXCEPT ![t] = "idle"], [pc EXCEPT ![t] = "finish"]}
        \/ orderLock' = [orderLock EXCEPT ![on[t]] = t] /\ pc' = [pc EXCEPT ![t] = "renew"]
    BY <1>3, Zenon DEF Begin, AutoBegin
  <2>3. QED
    BY <1>0, <1>a, <2>1, <2>2 DEF Locking
<1>4. ASSUME NEW t \in Approvers, ReadPanel(t) \/ ReadFails(t) PROVE Locking'
  <2>1. /\ pc[t] = "renew" /\ clientLock = NoThread /\ clientLock' = t
        /\ UNCHANGED <<on, orderLock>>
    BY <1>4 DEF ReadPanel, ReadFails
  <2>2. PICK step \in ClientSteps : pc' = [pc EXCEPT ![t] = step]
    BY <1>4 DEF ReadPanel, ReadFails
  <2>3. QED
    BY <1>0, <1>a, <2>1, <2>2 DEF Locking
<1>5. ASSUME NEW t \in Approvers,
             PostUpdate(t) \/ PostFails(t) \/ ResetTraffic(t) \/ ResetFails(t)
      PROVE  Locking'
  <2>1. pc[t] \in {"update", "reset"} /\ UNCHANGED <<on, orderLock, clientLock>>
    BY <1>5 DEF PostUpdate, PostFails, ResetTraffic, ResetFails
  <2>2. PICK step \in ClientSteps : pc' = [pc EXCEPT ![t] = step]
    BY <1>5 DEF PostUpdate, PostFails, ResetTraffic, ResetFails
  <2>3. QED
    BY <1>0, <1>a, <2>1, <2>2 DEF Locking
<1>6. ASSUME NEW t \in Approvers, Commit(t) PROVE Locking'
  <2>1. /\ pc[t] \in {"complete", "failed"} /\ on[t] \in Orders /\ UNCHANGED on
        /\ orderLock' = [orderLock EXCEPT ![on[t]] = NoThread] /\ clientLock' = NoThread
    BY <1>6 DEF Commit, TypeOK
  <2>2. PICK step \in {"idle", "finish"} : pc' = [pc EXCEPT ![t] = step]
    BY <1>6, Zenon DEF Commit
  <2>3. QED
    BY <1>0, <1>a, <2>1, <2>2 DEF Locking
<1>7. ASSUME NEW t \in Approvers, Crash(t) PROVE Locking'
  <2>1. /\ pc' = [pc EXCEPT ![t] = "idle"] /\ UNCHANGED on
        /\ orderLock' = [o \in Orders |-> IF orderLock[o] = t THEN NoThread ELSE orderLock[o]]
        /\ clientLock' = IF clientLock = t THEN NoThread ELSE clientLock
    BY <1>7 DEF Crash
  <2>2. QED
    BY <1>0, <1>a, <2>1 DEF Locking
<1>8. CASE UNCHANGED <<pc, on, orderLock, clientLock>>
  BY <1>8 DEF Locking
<1>9. QED
  BY <1>1, <1>2, <1>3, <1>4, <1>5, <1>6, <1>7, <1>8
     DEF Next, Renew, LookForPending, CreateOrder, TimePasses, DaysAdded, ClientChanges, vars

(* Workers start with a claim, and no step takes it back. *)
LEMMA WorkersAutoStep == ASSUME TypeOK, WorkersAuto, [Next]_vars PROVE WorkersAuto'
<1>1. ASSUME NEW t \in Workers, NEW o \in Orders, AutoClaim(t, o) PROVE WorkersAuto'
  <2>1. /\ auto' = [auto EXCEPT ![o] = TRUE] /\ on' = [on EXCEPT ![t] = o]
        /\ pc' = [pc EXCEPT ![t] = "approve"]
    BY <1>1 DEF AutoClaim, Goto
  <2>2. ASSUME NEW u \in Workers, pc'[u] # "idle" PROVE auto'[on'[u]]
    <3>1. CASE u = t
      BY <2>1, <3>1 DEF TypeOK
    <3>2. CASE u # t
      <4>1. pc[u] # "idle" /\ on'[u] = on[u] /\ on[u] \in Orders
        BY <2>1, <2>2, <3>2 DEF TypeOK
      <4>2. auto[on[u]]
        BY <4>1 DEF WorkersAuto
      <4>3. QED
        BY <2>1, <4>1, <4>2 DEF TypeOK
    <3>3. QED
      BY <3>1, <3>2
  <2>3. QED
    BY <2>2 DEF WorkersAuto
<1>2. ASSUME NEW t \in Approvers, UNCHANGED auto, pc[t] # "idle" \/ t \notin Workers,
             NEW step \in Steps, pc' = [pc EXCEPT ![t] = step],
             \A u \in Approvers : u # t \/ u \in Workers => on'[u] = on[u]
      PROVE  WorkersAuto'
  BY <1>2 DEF WorkersAuto, TypeOK
<1>3. CASE UNCHANGED <<auto, pc, on>>
  BY <1>3 DEF WorkersAuto
<1>4. ASSUME NEW t \in Requests, NEW o \in Orders, Approve(t, o) PROVE WorkersAuto'
  BY <1>2, <1>4 DEF Approve, Goto, TypeOK, Steps
<1>5. ASSUME NEW t \in Approvers,
             \/ Claim(t) \/ Refuse(t) \/ Begin(t) \/ Finish(t) \/ AutoBegin(t) \/ Renew(t)
      PROVE  WorkersAuto'
  <2>1. pc[t] # "idle" /\ UNCHANGED <<auto, on>>
    BY <1>5 DEF Claim, Refuse, Begin, Finish, AutoBegin, Renew, ReadPanel, ReadFails,
       PostUpdate, PostFails, ResetTraffic, ResetFails, Commit, Crash
  <2>2. PICK step \in Steps : pc' = [pc EXCEPT ![t] = step]
    <3>1. CASE Claim(t) \/ Refuse(t) \/ Finish(t)
      BY <3>1 DEF Claim, Refuse, Finish, Goto, Steps
    <3>2. CASE Begin(t) \/ AutoBegin(t)
      BY <3>2 DEF Begin, AutoBegin, Goto, Steps, LockSteps
    <3>3. CASE ReadPanel(t) \/ ReadFails(t) \/ PostUpdate(t) \/ PostFails(t)
      BY <3>3 DEF ReadPanel, ReadFails, PostUpdate, PostFails, Goto, Steps, LockSteps
    <3>4. CASE ResetTraffic(t) \/ ResetFails(t) \/ Crash(t)
      BY <3>4 DEF ResetTraffic, ResetFails, Crash, Goto, Steps, LockSteps
    <3>5. CASE Commit(t)
      BY <3>5 DEF Commit, Goto, Steps
    <3>6. QED
      BY <1>5, <3>1, <3>2, <3>3, <3>4, <3>5 DEF Renew
  <2>3. QED
    BY <1>2, <2>1, <2>2
<1>6. QED
  BY <1>1, <1>3, <1>4, <1>5
     DEF Next, LookForPending, CreateOrder, TimePasses, DaysAdded, ClientChanges, vars

(* What a step of an approver inside its transaction does to its position.  *)
LEMMA PanelStep ==
  ASSUME TypeOK, NEW t \in Approvers,
         \/ ReadPanel(t) \/ ReadFails(t) \/ PostUpdate(t) \/ PostFails(t)
         \/ ResetTraffic(t) \/ ResetFails(t)
  PROVE  /\ pc[t] \in LockSteps
         /\ \E step \in ClientSteps : pc' = [pc EXCEPT ![t] = step]
         /\ UNCHANGED <<status, attempt, intent, auto, on, claimed, orderLock>>
         /\ \A u \in Approvers : u # t => work'[u] = work[u]
<1>1. pc[t] \in LockSteps
  BY DEF ReadPanel, ReadFails, PostUpdate, PostFails, ResetTraffic, ResetFails, LockSteps
<1>2. \E step \in ClientSteps : pc' = [pc EXCEPT ![t] = step]
  BY DEF ReadPanel, ReadFails, PostUpdate, PostFails, ResetTraffic, ResetFails, Goto,
         ClientSteps, LockSteps
<1>3. UNCHANGED <<status, attempt, intent, auto, on, claimed, orderLock>>
  BY DEF ReadPanel, ReadFails, PostUpdate, PostFails, ResetTraffic, ResetFails
<1>4. \A u \in Approvers : u # t => work'[u] = work[u]
  BY DEF ReadPanel, ReadFails, PostUpdate, PostFails, ResetTraffic, ResetFails, TypeOK
<1>5. QED
  BY <1>1, <1>2, <1>3, <1>4

(* A claim is set by one request at a time and held until its last step. *)
LEMMA ClaimingStep ==
  ASSUME TypeOK, WorkersAuto, Claiming, [Next]_vars PROVE Claiming'
<1> USE DEF Goto, LockSteps, ClaimSteps
<1>0. /\ pc \in [Approvers -> Steps] /\ on \in [Approvers -> Orders]
      /\ attempt \in [Orders -> {"", "running", "finished"}]
      /\ claimed \in [Approvers -> BOOLEAN] /\ auto \in [Orders -> BOOLEAN]
  BY DEF TypeOK
<1>a. /\ \A t \in Requests : claimed[t] <=> pc[t] \in ClaimSteps
      /\ \A t \in Requests : claimed[t] /\ ~auto[on[t]] => attempt[on[t]] = "running"
      /\ \A t, u \in Requests :
           claimed[t] /\ claimed[u] /\ on[t] = on[u] /\ ~auto[on[t]] => t = u
  BY DEF Claiming
<1>1. ASSUME NEW t \in Requests, NEW o \in Orders, Approve(t, o) PROVE Claiming'
  <2>1. /\ ~claimed[t] /\ UNCHANGED <<auto, attempt, claimed>>
        /\ on' = [on EXCEPT ![t] = o] /\ pc' = [pc EXCEPT ![t] = "claim"]
    BY <1>a, <1>1 DEF Approve
  <2>2. QED
    BY <1>0, <1>a, <2>1 DEF Claiming
<1>2. ASSUME NEW t \in Requests, Claim(t) PROVE Claiming'
  <2>1. /\ attempt[on[t]] # "running" /\ UNCHANGED <<auto, on>>
        /\ attempt' = [attempt EXCEPT ![on[t]] = "running"]
        /\ claimed' = [claimed EXCEPT ![t] = TRUE] /\ pc' = [pc EXCEPT ![t] = "approve"]
    BY <1>2 DEF Claim
  <2>2. \A u \in Requests : claimed[u] /\ on[u] = on[t] => auto[on[t]]
    BY <1>a, <2>1
  <2>3. QED
    BY <1>0, <1>a, <2>1, <2>2 DEF Claiming
<1>3. ASSUME NEW t \in Requests, Refuse(t) PROVE Claiming'
  <2>1. /\ UNCHANGED <<auto, attempt, claimed, on>> /\ pc[t] = "claim"
        /\ pc' = [pc EXCEPT ![t] = "idle"]
    BY <1>3 DEF Refuse
  <2>2. QED
    BY <1>0, <1>a, <2>1 DEF Claiming
<1>4. ASSUME NEW t \in Requests, Finish(t) PROVE Claiming'
  <2>1. /\ claimed[t] /\ UNCHANGED <<auto, on>>
        /\ attempt' = [attempt EXCEPT ![on[t]] = "finished"]
        /\ claimed' = [claimed EXCEPT ![t] = FALSE] /\ pc' = [pc EXCEPT ![t] = "idle"]
    BY <1>a, <1>4 DEF Finish
  <2>2. \A u \in Requests : claimed[u] /\ u # t /\ on[u] = on[t] => auto[on[t]]
    BY <1>a, <2>1
  <2>3. QED
    BY <1>0, <1>a, <2>1, <2>2 DEF Claiming
<1>5. ASSUME NEW t \in Workers, NEW o \in Orders, AutoClaim(t, o) PROVE Claiming'
  <2>1. /\ \A u \in Requests : pc'[u] = pc[u] /\ on'[u] = on[u] /\ u # t
        /\ UNCHANGED <<claimed, attempt>>
        /\ \A p \in Orders : auto[p] => auto'[p]
    BY <1>0, <1>5 DEF AutoClaim
  <2>2. QED
    BY <1>0, <1>a, <2>1 DEF Claiming
<1>6. ASSUME NEW t \in Approvers, NEW step \in Steps, pc' = [pc EXCEPT ![t] = step],
             pc[t] \in ClaimSteps, t \in Requests => step \in ClaimSteps,
             UNCHANGED <<auto, attempt, claimed, on>>
      PROVE  Claiming'
  BY <1>0, <1>a, <1>6 DEF Claiming
<1>7. ASSUME NEW t \in Approvers, Begin(t) \/ AutoBegin(t) PROVE Claiming'
  <2>1. PICK step \in Steps : pc' = [pc EXCEPT ![t] = step] /\ (t \in Requests => step \in ClaimSteps)
    BY <1>7, Zenon DEF Begin, AutoBegin, Steps
  <2>2. pc[t] = "approve" /\ UNCHANGED <<auto, attempt, claimed, on>>
    BY <1>7 DEF Begin, AutoBegin
  <2>3. QED
    BY <1>6, <2>1, <2>2
<1>8. ASSUME NEW t \in Approvers, Renew(t) PROVE Claiming'
  <2>1. CASE \/ ReadPanel(t) \/ ReadFails(t) \/ PostUpdate(t) \/ PostFails(t)
             \/ ResetTraffic(t) \/ ResetFails(t)
    <3>1. PICK step \in ClientSteps : pc' = [pc EXCEPT ![t] = step]
      BY <2>1, PanelStep
    <3>2. step \in ClaimSteps /\ step \in Steps
      BY DEF ClientSteps, Steps
    <3>3. pc[t] \in ClaimSteps /\ UNCHANGED <<auto, attempt, claimed, on>>
      BY <2>1, PanelStep
    <3>4. QED
      BY <1>6, <3>1, <3>2, <3>3
  <2>2. CASE Commit(t) /\ t \in Requests
    <3>1. pc' = [pc EXCEPT ![t] = "finish"] /\ pc[t] \in ClaimSteps
      BY <2>2 DEF Commit
    <3>2. UNCHANGED <<auto, attempt, claimed, on>>
      BY <2>2 DEF Commit
    <3>3. QED
      BY <1>6, <3>1, <3>2 DEF Steps
  <2>3. CASE Commit(t) /\ t \in Workers
    <3>1. /\ pc' = [pc EXCEPT ![t] = "idle"] /\ UNCHANGED <<auto, claimed, on>>
          /\ attempt' = [attempt EXCEPT ![on[t]] = "finished"] /\ pc[t] # "idle"
      BY <2>3 DEF Commit
    <3>2. auto[on[t]]
      BY <2>3, <3>1 DEF WorkersAuto
    <3>3. \A u \in Requests : pc'[u] = pc[u]
      BY <1>0, <2>3, <3>1
    <3>4. QED
      BY <1>0, <1>a, <3>1, <3>2, <3>3 DEF Claiming
  <2>4. CASE Crash(t)
    <3>1. /\ UNCHANGED <<auto, attempt, on>> /\ claimed' = [claimed EXCEPT ![t] = FALSE]
          /\ pc' = [pc EXCEPT ![t] = "idle"]
      BY <2>4 DEF Crash
    <3>2. QED
      BY <1>0, <1>a, <3>1 DEF Claiming
  <2>5. QED
    BY <1>8, <2>1, <2>2, <2>3, <2>4 DEF Renew
<1>9. CASE UNCHANGED <<auto, attempt, claimed, on, pc>>
  BY <1>9 DEF Claiming
<1>10. QED
  BY <1>1, <1>2, <1>3, <1>4, <1>5, <1>7, <1>8, <1>9
     DEF Next, LookForPending, CreateOrder, TimePasses, DaysAdded, ClientChanges, vars

-----------------------------------------------------------------------------
(* What ReadPanel puts into the transaction lies ahead of the panel. *)
LEMMA IntentForward ==
  ASSUME TypeOK, NEW i \in Intents, ~Uncertain(i),
         Recorded(i) => i.previous < i.target
  PROVE  /\ IntentOf(i) \in Intents /\ Recorded(IntentOf(i))
         /\ IntentOf(i).previous < IntentOf(i).target
         /\ expiry <= IntentOf(i).target
<1>1. now \in 0..MaxTime /\ expiry \in Nat
  BY DEF TypeOK
<1>2. IntentOf(i) \in Intents /\ Recorded(IntentOf(i))
  BY IntentOfType DEF Recorded
<1>3. CASE Recorded(i)
  <2>1. IntentOf(i) = i /\ i.previous < i.target
    BY <1>3 DEF IntentOf, Recorded
  <2>2. expiry = i.previous \/ expiry = i.target
    BY <1>3 DEF Uncertain, Recorded
  <2>3. i.previous \in Nat /\ i.target \in Nat
    BY DEF Intents
  <2>4. QED
    BY <1>1, <1>2, <2>1, <2>2, <2>3
<1>4. CASE ~Recorded(i)
  <2>1. IntentOf(i).previous = expiry /\ IntentOf(i).target = Later(now, expiry) + Duration
    BY <1>4 DEF IntentOf, Recorded
  <2>2. /\ expiry < Later(now, expiry) + Duration
        /\ expiry <= Later(now, expiry) + Duration
    BY <1>1 DEF Later
  <2>3. QED
    BY <1>1, <1>2, <2>1, <2>2
<1>5. QED
  BY <1>3, <1>4

(* Recorded intents stay as they are; new ones lie ahead of the panel. *)
LEMMA IntentsStep == ASSUME TypeOK, Locking, IntentsSound, [Next]_vars PROVE IntentsSound'
<1> USE DEF Goto, LockSteps
<1> DEFINE Sound(t) ==
      pc[t] \in LockSteps =>
       /\ Recorded(work[t]) => work[t].previous < work[t].target
       /\ Recorded(intent[on[t]]) => Recorded(work[t]) /\ work[t].target = intent[on[t]].target
       /\ Begun(intent[on[t]]) => Begun(work[t])
       /\ pc[t] = "renew" => work[t] = intent[on[t]]
       /\ pc[t] \in {"update", "reset"} => work[t].reset = "pending"
       /\ pc[t] = "complete" => work[t].reset = "done"
     Ahead(o) == Recorded(intent[o]) => intent[o].previous < intent[o].target
<1>0. /\ pc \in [Approvers -> Steps] /\ on \in [Approvers -> Orders]
      /\ intent \in [Orders -> Intents] /\ work \in [Approvers -> Intents]
  BY DEF TypeOK
<1>a. (\A o \in Orders : Ahead(o)) /\ (\A t \in Approvers : Sound(t))
  BY DEF IntentsSound
<1>b. (\A o \in Orders : Ahead(o)') /\ (\A t \in Approvers : Sound(t)') => IntentsSound'
  BY DEF IntentsSound
<1> HIDE DEF Sound, Ahead
<1>1. ASSUME UNCHANGED intent, NEW t \in Approvers, Sound(t)',
             \A u \in Approvers : u # t =>
               work'[u] = work[u] /\ pc'[u] = pc[u] /\ on'[u] = on[u]
      PROVE  IntentsSound'
  <2>1. \A o \in Orders : Ahead(o)'
    BY <1>1, <1>a DEF Ahead
  <2>2. \A u \in Approvers : u # t => Sound(u)'
    BY <1>1, <1>a DEF Sound
  <2>3. QED
    BY <1>1, <1>b, <2>1, <2>2
<1>2. ASSUME NEW t \in Approvers, NEW o \in Orders, Approve(t, o) \/ AutoClaim(t, o)
      PROVE  IntentsSound'
  <2>1. /\ UNCHANGED <<intent, work>> /\ on' = [on EXCEPT ![t] = o]
        /\ pc' \in {[pc EXCEPT ![t] = "claim"], [pc EXCEPT ![t] = "approve"]}
    BY <1>2 DEF Approve, AutoClaim
  <2>2. Sound(t)'
    BY <1>0, <2>1 DEF Sound
  <2>3. QED
    BY <1>0, <1>1, <2>1, <2>2
<1>3. ASSUME NEW t \in Approvers, Claim(t) \/ Refuse(t) \/ Finish(t) PROVE IntentsSound'
  <2>1. UNCHANGED <<intent, work, on>>
    BY <1>3 DEF Claim, Refuse, Finish
  <2>2. PICK step \in {"idle", "approve"} : pc' = [pc EXCEPT ![t] = step]
    BY <1>3 DEF Claim, Refuse, Finish
  <2>3. Sound(t)'
    BY <1>0, <2>2 DEF Sound
  <2>4. QED
    BY <1>0, <1>1, <2>1, <2>2, <2>3
<1>4. ASSUME NEW t \in Approvers, Begin(t) \/ AutoBegin(t) PROVE IntentsSound'
  <2>1. UNCHANGED <<intent, on>> /\ on[t] \in Orders
    BY <1>0, <1>4 DEF Begin, AutoBegin
  <2>2. \/ work' = work /\ pc' \in {[pc EXCEPT ![t] = "idle"], [pc EXCEPT ![t] = "finish"]}
        \/ work' = [work EXCEPT ![t] = intent[on[t]]] /\ pc' = [pc EXCEPT ![t] = "renew"]
    BY <1>4, Zenon DEF Begin, AutoBegin
  <2>3. Sound(t)'
    <3>1. Ahead(on[t])
      BY <1>a, <2>1
    <3>2. QED
      BY <1>0, <2>1, <2>2, <3>1 DEF Sound, Ahead
  <2>4. QED
    BY <1>0, <1>1, <2>1, <2>2, <2>3
<1>5. ASSUME NEW t \in Approvers, ReadPanel(t) PROVE IntentsSound'
  <2> DEFINE i == work[t]
             j == IntentOf(i)
  <2>1. /\ pc[t] = "renew" /\ ~Uncertain(i) /\ UNCHANGED <<intent, on>>
        /\ work' = [work EXCEPT ![t] = j]
    BY <1>5 DEF ReadPanel
  <2>2. pc' = [pc EXCEPT ![t] = CASE ~AlreadyUpdated(j) -> "update"
                                  [] AlreadyUpdated(j) /\ j.reset = "done" -> "complete"
                                  [] OTHER -> "reset"]
    BY <1>5 DEF ReadPanel
  <2>3. /\ i \in Intents /\ i = intent[on[t]]
        /\ Recorded(i) => i.previous < i.target
    BY <1>0, <1>a, <2>1 DEF Sound
  <2>4. /\ j \in Intents /\ Recorded(j) /\ j.previous < j.target
    BY <2>1, <2>3, IntentForward
  <2>5. Recorded(i) => j = i
    BY DEF IntentOf, Recorded
  <2>6. ~Recorded(i) => j.reset = "pending"
    BY DEF IntentOf, Recorded
  <2>7. j.reset \in {"pending", "done"}
    <3>1. i.reset # "started"
      BY <2>1 DEF Uncertain
    <3>2. QED
      BY <2>4, <2>5, <2>6, <3>1 DEF Intents, Recorded
  <2>8. /\ pc'[t] \in {"update", "reset"} => j.reset = "pending"
        /\ pc'[t] = "complete" => j.reset = "done"
        /\ pc'[t] \in {"update", "reset", "complete"}
    <3>1. CASE ~AlreadyUpdated(j)
      <4>1. j.reset # "done"
        BY <2>1, <2>5, <2>6, <3>1 DEF Uncertain
      <4>2. pc'[t] = "update"
        BY <1>0, <2>2, <3>1
      <4>3. QED
        BY <2>7, <4>1, <4>2
    <3>2. CASE AlreadyUpdated(j) /\ j.reset = "done"
      <4>1. pc'[t] = "complete"
        BY <1>0, <2>2, <3>2
      <4>2. QED
        BY <3>2, <4>1
    <3>3. CASE AlreadyUpdated(j) /\ j.reset # "done"
      <4>1. pc'[t] = "reset"
        BY <1>0, <2>2, <3>3
      <4>2. QED
        BY <2>7, <3>3, <4>1
    <3>4. QED
      BY <3>1, <3>2, <3>3
  <2>9. work'[t] = j /\ on'[t] = on[t] /\ intent' = intent
    BY <1>0, <2>1
  <2>10. /\ Recorded(intent[on[t]]) => j = intent[on[t]]
         /\ Begun(intent[on[t]]) => Begun(j)
    BY <2>3, <2>5 DEF Begun, Recorded
  <2> HIDE DEF j
  <2>11. Sound(t)'
    BY <2>4, <2>8, <2>9, <2>10 DEF Sound
  <2>12. QED
    BY <1>0, <1>1, <2>1, <2>2, <2>11
<1>6. ASSUME NEW t \in Approvers, ReadFails(t) \/ PostUpdate(t) \/ PostFails(t)
      PROVE  IntentsSound'
  <2>1. pc[t] \in {"renew", "update"} /\ UNCHANGED <<intent, work, on>>
    BY <1>6 DEF ReadFails, PostUpdate, PostFails
  <2>2. PICK step \in {"reset", "failed"} :
          pc' = [pc EXCEPT ![t] = step] /\ (step = "reset" => pc[t] = "update")
    BY <1>6 DEF ReadFails, PostUpdate, PostFails
  <2>3. Sound(t)'
    BY <1>0, <1>a, <2>1, <2>2 DEF Sound
  <2>4. QED
    BY <1>0, <1>1, <2>1, <2>2, <2>3
<1>7. ASSUME NEW t \in Approvers, ResetTraffic(t) \/ ResetFails(t) PROVE IntentsSound'
  <2>1. pc[t] = "reset" /\ UNCHANGED <<intent, on>>
    BY <1>7 DEF ResetTraffic, ResetFails
  <2>2. PICK r \in {"started", "done"} :
          /\ work' = [work EXCEPT ![t].reset = r]
          /\ pc' = [pc EXCEPT ![t] = IF r = "done" THEN "complete" ELSE "failed"]
    BY <1>7 DEF ResetTraffic, ResetFails
  <2>3. work'[t].previous = work[t].previous /\ work'[t].target = work[t].target /\ work'[t].reset = r
    BY <1>0, <2>2 DEF Intents
  <2>4. Sound(t)'
    BY <1>0, <1>a, <2>1, <2>2, <2>3 DEF Sound, Recorded, Begun
  <2>5. QED
    BY <1>0, <1>1, <2>1, <2>2, <2>4
<1>8. ASSUME NEW t \in Approvers, Commit(t) PROVE IntentsSound'
  <2>1. /\ pc[t] \in {"complete", "failed"} /\ UNCHANGED on /\ on[t] \in Orders
        /\ intent' = [intent EXCEPT ![on[t]] = work[t]]
        /\ work' = [work EXCEPT ![t] = NoIntent]
    BY <1>0, <1>8 DEF Commit
  <2>2. PICK step \in {"idle", "finish"} : pc' = [pc EXCEPT ![t] = step]
    BY <1>8, Zenon DEF Commit
  <2>3. ASSUME NEW o \in Orders PROVE Ahead(o)'
    <3>1. CASE o = on[t]
      BY <1>0, <1>a, <2>1, <3>1 DEF Ahead, Sound
    <3>2. CASE o # on[t]
      BY <1>0, <1>a, <2>1, <3>2 DEF Ahead
    <3>3. QED
      BY <3>1, <3>2
  <2>4. ASSUME NEW u \in Approvers PROVE Sound(u)'
    <3>1. CASE u = t
      BY <1>0, <2>2, <3>1 DEF Sound
    <3>2. CASE u # t /\ pc[u] \in LockSteps
      <4>1. orderLock[on[t]] = t /\ orderLock[on[u]] = u
        BY <1>0, <2>1, <3>2 DEF Locking
      <4>2. on[u] # on[t]
        BY <3>2, <4>1
      <4>3. /\ work'[u] = work[u] /\ pc'[u] = pc[u] /\ on'[u] = on[u]
            /\ intent'[on[u]] = intent[on[u]]
        BY <1>0, <2>1, <2>2, <3>2, <4>2
      <4>4. QED
        BY <1>a, <4>3 DEF Sound
    <3>3. CASE u # t /\ pc[u] \notin LockSteps
      BY <1>0, <2>2, <3>3 DEF Sound
    <3>4. QED
      BY <3>1, <3>2, <3>3
  <2>5. QED
    BY <1>b, <2>3, <2>4
<1>9. ASSUME NEW t \in Approvers, Crash(t) PROVE IntentsSound'
  <2>1. /\ UNCHANGED <<intent, on>> /\ pc' = [pc EXCEPT ![t] = "idle"]
        /\ work' = [work EXCEPT ![t] = NoIntent]
    BY <1>9 DEF Crash
  <2>2. Sound(t)'
    BY <1>0, <2>1 DEF Sound
  <2>3. QED
    BY <1>0, <1>1, <2>1, <2>2
<1>10. CASE UNCHANGED <<intent, work, pc, on>>
  BY <1>10 DEF IntentsSound
<1>11. QED
  BY <1>2, <1>3, <1>4, <1>5, <1>6, <1>7, <1>8, <1>9, <1>10
     DEF Next, Renew, LookForPending, CreateOrder, TimePasses, DaysAdded, ClientChanges, vars

-----------------------------------------------------------------------------
(* Who has the client's row locked has it alone. *)
LEMMA OneAtClient ==
  ASSUME Locking, NEW t \in Approvers, NEW u \in Approvers,
         pc[t] \in ClientSteps, pc[u] \in ClientSteps
  PROVE  t = u
BY DEF Locking

(* A request at work on an unclaimed order has a claim; a worker is not. *)
LEMMA AtWork ==
  ASSUME TypeOK, WorkersAuto, Claiming, NEW t \in Approvers, ~auto[on[t]],
         pc[t] \in ClaimSteps
  PROVE  /\ t \in Requests /\ claimed[t] /\ attempt[on[t]] = "running"
         /\ \A u \in Requests : on[u] = on[t] /\ claimed[u] => u = t
<1>1. pc[t] # "idle"
  BY DEF ClaimSteps, LockSteps
<1>2. t \in Requests
  BY <1>1 DEF WorkersAuto
<1>3. QED
  BY <1>2 DEF Claiming

(* An update that raises the expiry is the first one of its order. *)
LEMMA FirstExtension ==
  ASSUME TypeOK, WorkersAuto, Claiming, IntentsSound, ExtensionCovered,
         NEW t \in Approvers, pc[t] = "update", ~auto[on[t]], expiry < work[t].target
  PROVE  extensions[on[t]] # 1
<1> SUFFICES ASSUME extensions[on[t]] = 1 PROVE FALSE
  OBVIOUS
<1>0. on[t] \in Orders /\ expiry \in Nat /\ work[t].target \in Nat
  BY DEF TypeOK, Intents
<1>1. t \in Requests /\ claimed[t]
  BY AtWork DEF ClaimSteps, LockSteps
<1>2. Recorded(intent[on[t]])
  BY <1>0, <1>1 DEF ExtensionCovered
<1>3. intent[on[t]].target <= expiry
  BY <1>0, <1>2 DEF ExtensionCovered
<1>4. work[t].target = intent[on[t]].target
  BY <1>2 DEF IntentsSound, LockSteps
<1>5. QED
  BY <1>0, <1>3, <1>4

(* A reset that is about to be sent is the first one of its order. *)
LEMMA FirstReset ==
  ASSUME TypeOK, WorkersAuto, Claiming, IntentsSound, ResetCovered,
         NEW t \in Approvers, pc[t] = "reset", ~auto[on[t]]
  PROVE  resets[on[t]] # 1
<1> SUFFICES ASSUME resets[on[t]] = 1 PROVE FALSE
  OBVIOUS
<1>0. on[t] \in Orders
  BY DEF TypeOK
<1>1. t \in Requests /\ claimed[t]
  BY AtWork DEF ClaimSteps, LockSteps
<1>2. work[t].reset = "pending" /\ (Begun(intent[on[t]]) => Begun(work[t]))
  BY DEF IntentsSound, LockSteps
<1>3. ~Begun(intent[on[t]])
  BY <1>2 DEF Begun
<1>4. QED
  BY <1>0, <1>1, <1>3 DEF ResetCovered

(* No order extends twice or resets twice. *)
LEMMA OnceStep ==
  ASSUME TypeOK, WorkersAuto, Claiming, IntentsSound, ExtensionCovered, ResetCovered,
         ExtendedOnce, ResetOnce, [Next]_vars
  PROVE  ExtendedOnce' /\ ResetOnce'
<1>0. /\ extensions \in [Orders -> Nat] /\ resets \in [Orders -> Nat]
      /\ on \in [Approvers -> Orders]
  BY DEF TypeOK
<1>1. ASSUME NEW t \in Approvers, PostUpdate(t) PROVE ExtendedOnce' /\ ResetOnce'
  <2>1. /\ pc[t] = "update" /\ UNCHANGED <<auto, resets>>
        /\ extensions' = IF expiry < work[t].target
                         THEN [extensions EXCEPT ![on[t]] = @ + 1] ELSE extensions
    BY <1>1 DEF PostUpdate
  <2>2. ResetOnce'
    BY <2>1 DEF ResetOnce
  <2>3. ASSUME NEW o \in Orders, ~auto[o] PROVE extensions'[o] <= 1
    <3>1. extensions[o] \in Nat /\ extensions[o] <= 1
      BY <1>0, <2>3 DEF ExtendedOnce
    <3>2. CASE expiry < work[t].target /\ o = on[t]
      <4>1. extensions[o] # 1
        BY <2>1, <2>3, <3>2, FirstExtension
      <4>2. extensions'[o] = extensions[o] + 1
        BY <1>0, <2>1, <3>2
      <4>3. QED
        BY <3>1, <4>1, <4>2
    <3>3. CASE ~(expiry < work[t].target /\ o = on[t])
      <4>1. extensions'[o] = extensions[o]
        BY <1>0, <2>1, <3>3
      <4>2. QED
        BY <3>1, <4>1
    <3>4. QED
      BY <3>2, <3>3
  <2>4. QED
    BY <2>1, <2>2, <2>3 DEF ExtendedOnce
<1>2. ASSUME NEW t \in Approvers, ResetTraffic(t) PROVE ExtendedOnce' /\ ResetOnce'
  <2>1. /\ pc[t] = "reset" /\ UNCHANGED <<auto, extensions>>
        /\ resets' = [resets EXCEPT ![on[t]] = @ + 1]
    BY <1>2 DEF ResetTraffic
  <2>2. ExtendedOnce'
    BY <2>1 DEF ExtendedOnce
  <2>3. ASSUME NEW o \in Orders, ~auto[o] PROVE resets'[o] <= 1
    <3>1. resets[o] \in Nat /\ resets[o] <= 1
      BY <1>0, <2>3 DEF ResetOnce
    <3>2. CASE o = on[t]
      <4>1. resets[o] # 1
        BY <2>1, <2>3, <3>2, FirstReset
      <4>2. resets'[o] = resets[o] + 1
        BY <1>0, <2>1, <3>2
      <4>3. QED
        BY <3>1, <4>1, <4>2
    <3>3. CASE o # on[t]
      <4>1. resets'[o] = resets[o]
        BY <1>0, <2>1, <3>3
      <4>2. QED
        BY <3>1, <4>1
    <3>4. QED
      BY <3>2, <3>3
  <2>4. QED
    BY <2>1, <2>2, <2>3 DEF ResetOnce
<1>3. CASE UNCHANGED <<extensions, resets>> /\ \A o \in Orders : auto[o] => auto'[o]
  BY <1>3 DEF ExtendedOnce, ResetOnce
<1>4. ASSUME NEW t \in Workers, NEW o \in Orders, AutoClaim(t, o)
      PROVE  ExtendedOnce' /\ ResetOnce'
  <2>1. \A p \in Orders : auto[p] => auto'[p]
    BY <1>4 DEF AutoClaim, TypeOK
  <2>2. UNCHANGED <<extensions, resets>>
    BY <1>4 DEF AutoClaim, panel
  <2>3. QED
    BY <1>3, <2>1, <2>2
<1>5. CASE UNCHANGED <<extensions, resets, auto>>
  BY <1>3, <1>5
<1>6. ASSUME NEW t \in Approvers, Renew(t), ~PostUpdate(t), ~ResetTraffic(t)
      PROVE  UNCHANGED <<extensions, resets, auto>>
  BY <1>6 DEF Renew, ReadPanel, ReadFails, PostFails, ResetFails, Commit, Crash, panel
<1>7. QED
  BY <1>1, <1>2, <1>4, <1>5, <1>6
     DEF Next, LookForPending, CreateOrder, Approve, Claim, Refuse, Begin, Finish, AutoBegin,
         TimePasses, DaysAdded, ClientChanges, vars, panel

(* An update is made from what the panel shows, and nobody else sends one. *)
LEMMA ForwardStep ==
  ASSUME TypeOK, Locking, IntentsSound, ExtensionCovered, UpdateForward, [Next]_vars
  PROVE  UpdateForward'
<1> USE DEF Goto
<1>0. /\ pc \in [Approvers -> Steps] /\ work \in [Approvers -> Intents]
      /\ on \in [Approvers -> Orders]
  BY DEF TypeOK
<1>1. ASSUME UNCHANGED <<intent, extensions>>, \A o \in Orders : auto[o] => auto'[o],
             \A u \in Approvers : pc'[u] = "update" => pc[u] = "update" /\ work'[u] = work[u]
      PROVE  UpdateForward'
  BY <1>1 DEF UpdateForward
<1>2. ASSUME NEW t \in Approvers, pc[t] \in ClientSteps,
             \A u \in Approvers : u # t => pc'[u] = pc[u], pc'[t] # "update"
      PROVE  UpdateForward'
  <2>1. \A u \in Approvers : pc'[u] # "update"
    <3>1. SUFFICES ASSUME NEW u \in Approvers, u # t, pc[u] = "update" PROVE FALSE
      BY <1>2
    <3>2. QED
      BY <1>2, <3>1, OneAtClient DEF ClientSteps, LockSteps
  <2>2. QED
    BY <2>1 DEF UpdateForward
<1>3. ASSUME NEW t \in Approvers, NEW step \in Steps \ {"update"}, pc' = [pc EXCEPT ![t] = step],
             UNCHANGED <<intent, extensions, auto>>, \A u \in Approvers : u # t => work'[u] = work[u]
      PROVE  UpdateForward'
  BY <1>0, <1>1, <1>3
<1>4. ASSUME NEW t \in Approvers, NEW o \in Orders, Approve(t, o) \/ AutoClaim(t, o)
      PROVE  UpdateForward'
  <2>1. /\ UNCHANGED <<intent, extensions, work>>
        /\ pc' \in {[pc EXCEPT ![t] = "claim"], [pc EXCEPT ![t] = "approve"]}
    BY <1>4 DEF Approve, AutoClaim, panel
  <2>2. \A p \in Orders : auto[p] => auto'[p]
    BY <1>4 DEF Approve, AutoClaim, TypeOK
  <2>3. QED
    BY <1>0, <1>1, <2>1, <2>2
<1>5. ASSUME NEW t \in Approvers, Claim(t) \/ Refuse(t) \/ Finish(t) PROVE UpdateForward'
  <2>1. UNCHANGED <<intent, extensions, auto, work>>
    BY <1>5 DEF Claim, Refuse, Finish, panel
  <2>2. PICK step \in {"idle", "approve"} : pc' = [pc EXCEPT ![t] = step]
    BY <1>5 DEF Claim, Refuse, Finish
  <2>3. QED
    BY <1>3, <2>1, <2>2 DEF Steps
<1>6. ASSUME NEW t \in Approvers, Begin(t) \/ AutoBegin(t) PROVE UpdateForward'
  <2>1. UNCHANGED <<intent, extensions, auto>>
    BY <1>6 DEF Begin, AutoBegin, panel
  <2>2. PICK step \in {"idle", "finish", "renew"} : pc' = [pc EXCEPT ![t] = step]
    BY <1>6, Zenon DEF Begin, AutoBegin
  <2>3. work' = work \/ work' = [work EXCEPT ![t] = intent[on[t]]]
    BY <1>6, Zenon DEF Begin, AutoBegin
  <2>4. \A u \in Approvers : u # t => work'[u] = work[u]
    BY <1>0, <2>3
  <2>5. QED
    BY <1>3, <2>1, <2>2, <2>4 DEF Steps, LockSteps
<1>7. ASSUME NEW t \in Approvers, ReadPanel(t) PROVE UpdateForward'
  <2>1. /\ pc[t] = "renew" /\ clientLock = NoThread /\ ~Uncertain(work[t])
        /\ UNCHANGED <<intent, extensions, auto>>
        /\ work' = [work EXCEPT ![t] = IntentOf(work[t])]
    BY <1>7 DEF ReadPanel, panel
  <2>2. \A u \in Approvers : u # t => pc'[u] = pc[u]
    BY <1>0, <1>7 DEF ReadPanel
  <2>3. \A u \in Approvers : pc'[u] = "update" => u = t
    BY <2>1, <2>2 DEF Locking, ClientSteps, LockSteps
  <2>4. /\ IntentOf(work[t]) \in Intents /\ expiry <= IntentOf(work[t]).target
    <3>1. work[t] \in Intents /\ (Recorded(work[t]) => work[t].previous < work[t].target)
      BY <1>0, <2>1 DEF IntentsSound, LockSteps
    <3>2. QED
      BY <2>1, <3>1, IntentForward
  <2>5. ASSUME NEW o \in Orders, ~auto[o], extensions[o] = 1, Recorded(intent[o])
        PROVE  intent[o].target <= work'[t].target
    <3>1. intent[o].target <= expiry
      BY <2>5 DEF ExtensionCovered
    <3>2. work'[t] = IntentOf(work[t])
      BY <1>0, <2>1
    <3>3. intent[o].target \in Nat /\ expiry \in Nat /\ IntentOf(work[t]).target \in Nat
      BY <2>4 DEF TypeOK, Intents
    <3>4. QED
      BY <2>4, <3>1, <3>2, <3>3
  <2>6. QED
    BY <2>1, <2>3, <2>5 DEF UpdateForward
<1>8. ASSUME NEW t \in Approvers, ReadFails(t) PROVE UpdateForward'
  <2>1. pc' = [pc EXCEPT ![t] = "failed"] /\ UNCHANGED <<intent, extensions, auto, work>>
    BY <1>8 DEF ReadFails, panel
  <2>2. QED
    BY <1>3, <2>1 DEF Steps, LockSteps
<1>9. ASSUME NEW t \in Approvers,
             PostUpdate(t) \/ PostFails(t) \/ ResetTraffic(t) \/ ResetFails(t) \/ Commit(t)
      PROVE  UpdateForward'
  <2>1. pc[t] \in ClientSteps
    BY <1>9 DEF PostUpdate, PostFails, ResetTraffic, ResetFails, Commit, ClientSteps, LockSteps
  <2>2. PICK step \in Steps \ {"update"} : pc' = [pc EXCEPT ![t] = step]
    <3>1. CASE PostUpdate(t) \/ PostFails(t) \/ ResetTraffic(t) \/ ResetFails(t)
      BY <3>1 DEF PostUpdate, PostFails, ResetTraffic, ResetFails, Steps, LockSteps
    <3>2. CASE Commit(t)
      BY <3>2 DEF Commit, Steps
    <3>3. QED
      BY <1>9, <3>1, <3>2
  <2>3. QED
    BY <1>0, <1>2, <2>1, <2>2
<1>10. ASSUME NEW t \in Approvers, Crash(t) PROVE UpdateForward'
  <2>1. /\ pc' = [pc EXCEPT ![t] = "idle"] /\ UNCHANGED <<intent, extensions, auto>>
        /\ work' = [work EXCEPT ![t] = NoIntent]
    BY <1>10 DEF Crash, panel
  <2>2. QED
    BY <1>0, <1>3, <2>1 DEF Steps
<1>11. CASE UNCHANGED <<intent, extensions, auto, pc, work>>
  BY <1>1, <1>11
<1>12. QED
  BY <1>4, <1>5, <1>6, <1>7, <1>8, <1>9, <1>10, <1>11
     DEF Next, Renew, LookForPending, CreateOrder, TimePasses, DaysAdded, ClientChanges, vars,
         panel

(* The extension of an order stays covered. *)
LEMMA ExtensionStep ==
  ASSUME TypeOK, Locking, WorkersAuto, Claiming, IntentsSound, ExtensionCovered,
         UpdateForward, ExtendedOnce, [Next]_vars
  PROVE  ExtensionCovered'
<1> USE DEF Goto
<1> DEFINE Covered(o) ==
      IF Recorded(intent[o]) THEN intent[o].target <= expiry
      ELSE /\ attempt[o] = "running"
           /\ \A t \in Requests : on[t] = o /\ claimed[t] =>
                /\ pc[t] \in {"reset", "complete", "failed"}
                /\ Recorded(work[t]) /\ work[t].target <= expiry
<1> DEFINE Kept(u) ==
      /\ claimed[u] /\ on'[u] = on[u]
      /\ pc[u] \in {"reset", "complete", "failed"} /\ Recorded(work[u]) =>
           /\ pc'[u] \in {"reset", "complete", "failed"}
           /\ Recorded(work'[u]) /\ work'[u].target = work[u].target
<1>0. /\ pc \in [Approvers -> Steps] /\ on \in [Approvers -> Orders]
      /\ intent \in [Orders -> Intents] /\ work \in [Approvers -> Intents] /\ expiry \in Nat
      /\ extensions \in [Orders -> Nat]
      /\ attempt \in [Orders -> {"", "running", "finished"}]
  BY DEF TypeOK
<1>1. \A o \in Orders : ~auto[o] /\ extensions[o] = 1 => Covered(o)
  BY DEF ExtensionCovered
<1>2. (\A o \in Orders : ~auto'[o] /\ extensions'[o] = 1 => Covered(o)') => ExtensionCovered'
  BY DEF ExtensionCovered
<1>3. \A t \in Requests : claimed[t] <=> pc[t] \in ClaimSteps
  BY DEF Claiming
<1>e. expiry' \in Nat
  BY TypeStep DEF TypeOK
<1>n. expiry \in Nat
  BY DEF TypeOK
<1>q. ASSUME expiry' = expiry PROVE expiry <= expiry'
  BY <1>n, <1>q
<1> HIDE DEF Covered, Kept
(* A step that touches neither the extensions nor the intents, claims       *)
(* nothing and keeps what covers an extension.                              *)
<1>4. ASSUME UNCHANGED <<extensions, intent, attempt>>, expiry <= expiry',
             \A o \in Orders : auto[o] => auto'[o],
             \A u \in Requests : claimed'[u] => Kept(u)
      PROVE  ExtensionCovered'
  <2>1. ASSUME NEW o \in Orders, ~auto'[o], extensions'[o] = 1 PROVE Covered(o)'
    <3>1. ~auto[o] /\ extensions[o] = 1
      BY <1>4, <2>1
    <3>2. Covered(o)
      BY <1>1, <3>1
    <3>3. CASE Recorded(intent[o])
      <4>1. intent[o].target <= expiry /\ intent[o].target \in Nat
        BY <1>0, <3>2, <3>3 DEF Covered, Intents
      <4>2. intent'[o] = intent[o]
        BY <1>4
      <4>3. intent[o].target <= expiry'
        <5>1. expiry <= expiry'
          BY <1>4
        <5>2. QED
          BY <1>n, <1>e, <4>1, <5>1
      <4>4. QED
        BY <3>3, <4>2, <4>3 DEF Covered
    <3>4. CASE ~Recorded(intent[o])
      <4>1. attempt[o] = "running" /\ \A u \in Requests : on[u] = o /\ claimed[u] =>
                /\ pc[u] \in {"reset", "complete", "failed"}
                /\ Recorded(work[u]) /\ work[u].target <= expiry
        BY <3>2, <3>4 DEF Covered
      <4>2. ASSUME NEW u \in Requests, on'[u] = o, claimed'[u]
            PROVE  /\ pc'[u] \in {"reset", "complete", "failed"}
                   /\ Recorded(work'[u]) /\ work'[u].target = work[u].target
                   /\ work[u].target <= expiry
        <5>1. Kept(u)
          BY <1>4, <4>2
        <5>2. QED
          BY <4>1, <4>2, <5>1 DEF Kept
      <4>3. ASSUME NEW u \in Requests, on'[u] = o, claimed'[u]
            PROVE  work'[u].target <= expiry'
        <5>1. work[u].target \in Nat /\ work'[u].target = work[u].target
              /\ work[u].target <= expiry
          BY <1>0, <4>2, <4>3 DEF Intents, Approvers
        <5>2. QED
          <6>1. expiry <= expiry'
            BY <1>4
          <6>2. QED
            BY <1>n, <1>e, <5>1, <6>1
      <4>4. attempt'[o] = "running" /\ ~Recorded(intent'[o])
        BY <1>4, <3>4, <4>1
      <4>5. QED
        BY <4>2, <4>3, <4>4 DEF Covered
    <3>5. QED
      BY <3>3, <3>4
  <2>2. QED
    BY <1>2, <2>1
<1>5. ASSUME NEW t \in Approvers, NEW o \in Orders, Approve(t, o) \/ AutoClaim(t, o), t \in Workers \/ Approve(t, o)
      PROVE  ExtensionCovered'
  <2>1. /\ UNCHANGED <<extensions, intent, attempt, expiry, claimed, work>>
        /\ on' = [on EXCEPT ![t] = o] /\ pc[t] = "idle"
        /\ pc' \in {[pc EXCEPT ![t] = "claim"], [pc EXCEPT ![t] = "approve"]}
    BY <1>5 DEF Approve, AutoClaim, panel
  <2>2. \A p \in Orders : auto[p] => auto'[p]
    BY <1>5 DEF Approve, AutoClaim, TypeOK
  <2>3. t \notin Requests \/ ~claimed'[t]
    BY <1>3, <2>1 DEF ClaimSteps, LockSteps
  <2>4. expiry <= expiry'
    BY <1>q, <2>1
  <2>5. \A u \in Requests : claimed'[u] => Kept(u)
    BY <1>0, <2>1, <2>3 DEF Kept, Approvers
  <2>6. QED
    BY <1>4, <2>1, <2>2, <2>4, <2>5
<1>6. ASSUME NEW t \in Requests, Claim(t) PROVE ExtensionCovered'
  <2>1. /\ UNCHANGED <<extensions, intent, expiry, auto, on, work>>
        /\ attempt[on[t]] # "running" /\ attempt' = [attempt EXCEPT ![on[t]] = "running"]
        /\ claimed' = [claimed EXCEPT ![t] = TRUE] /\ pc' = [pc EXCEPT ![t] = "approve"]
    BY <1>6 DEF Claim, panel
  <2>2. ASSUME NEW o \in Orders, ~auto[o], extensions[o] = 1 PROVE Covered(o)'
    <3>1. Covered(o)
      BY <1>1, <2>2
    <3>2. CASE Recorded(intent[o])
      BY <2>1, <3>1, <3>2 DEF Covered
    <3>3. CASE ~Recorded(intent[o])
      <4>1. attempt[o] = "running" /\ o # on[t]
        BY <2>1, <3>1, <3>3 DEF Covered
      <4>2. \A u \in Requests : on[u] = o => u # t
        BY <4>1
      <4>3. \A u \in Requests : u # t => claimed'[u] = claimed[u] /\ pc'[u] = pc[u]
        BY <1>0, <2>1 DEF TypeOK
      <4>4. attempt'[o] = "running"
        BY <1>0, <2>1, <4>1
      <4>5. QED
        BY <2>1, <3>1, <3>3, <4>2, <4>3, <4>4 DEF Covered
    <3>4. QED
      BY <3>2, <3>3
  <2>3. QED
    BY <1>2, <2>1, <2>2
<1>7. ASSUME NEW t \in Requests, Finish(t) PROVE ExtensionCovered'
  <2>1. /\ UNCHANGED <<extensions, intent, expiry, auto, on, work>> /\ pc[t] = "finish"
        /\ attempt' = [attempt EXCEPT ![on[t]] = "finished"]
        /\ claimed' = [claimed EXCEPT ![t] = FALSE] /\ pc' = [pc EXCEPT ![t] = "idle"]
    BY <1>7 DEF Finish, panel
  <2>2. claimed[t]
    BY <1>3, <2>1 DEF ClaimSteps
  <2>3. ASSUME NEW o \in Orders, ~auto[o], extensions[o] = 1 PROVE Covered(o)'
    <3>1. Covered(o)
      BY <1>1, <2>3
    <3>2. CASE Recorded(intent[o])
      BY <2>1, <3>1, <3>2 DEF Covered
    <3>3. CASE ~Recorded(intent[o])
      <4>1. attempt[o] = "running" /\ o # on[t]
        BY <2>1, <2>2, <3>1, <3>3 DEF Covered
      <4>2. \A u \in Requests : on[u] = o => u # t
        BY <4>1
      <4>3. \A u \in Requests : u # t => claimed'[u] = claimed[u] /\ pc'[u] = pc[u]
        BY <1>0, <2>1 DEF TypeOK
      <4>4. attempt'[o] = "running"
        BY <1>0, <2>1, <4>1
      <4>5. QED
        BY <2>1, <3>1, <3>3, <4>2, <4>3, <4>4 DEF Covered
    <3>4. QED
      BY <3>2, <3>3
  <2>4. QED
    BY <1>2, <2>1, <2>3
<1>8. ASSUME NEW t \in Requests, Refuse(t) PROVE ExtensionCovered'
  <2>1. /\ UNCHANGED <<extensions, intent, attempt, expiry, auto, on, claimed, work>>
        /\ pc[t] = "claim" /\ pc' = [pc EXCEPT ![t] = "idle"]
    BY <1>8 DEF Refuse, panel
  <2>2. ~claimed'[t]
    BY <1>3, <2>1 DEF ClaimSteps, LockSteps
  <2>3. expiry <= expiry'
    BY <1>q, <2>1
  <2>4. \A u \in Requests : claimed'[u] => Kept(u)
    BY <1>0, <2>1, <2>2 DEF Kept, Approvers
  <2>5. QED
    BY <1>4, <2>1, <2>3, <2>4
<1>9. ASSUME NEW t \in Approvers, Begin(t) \/ AutoBegin(t) PROVE ExtensionCovered'
  <2>1. /\ UNCHANGED <<extensions, intent, attempt, expiry, auto, on, claimed>>
        /\ pc[t] = "approve"
    BY <1>9 DEF Begin, AutoBegin, panel
  <2>2. /\ work' = work \/ work' = [work EXCEPT ![t] = intent[on[t]]]
        /\ \E step \in Steps : pc' = [pc EXCEPT ![t] = step]
    BY <1>9, Zenon DEF Begin, AutoBegin, Steps, LockSteps
  <2>3. expiry <= expiry'
    BY <1>q, <2>1
  <2>4. \A u \in Requests : u # t => pc'[u] = pc[u] /\ work'[u] = work[u]
    BY <1>0, <2>2 DEF Approvers
  <2>5. \A u \in Requests : claimed'[u] => Kept(u)
    BY <2>1, <2>4 DEF Kept
  <2>6. QED
    BY <1>4, <2>1, <2>3, <2>5
<1>10. ASSUME NEW t \in Approvers,
              \/ ReadPanel(t) \/ ReadFails(t) \/ PostFails(t) \/ ResetTraffic(t) \/ ResetFails(t)
       PROVE  ExtensionCovered'
  <2>1. /\ UNCHANGED <<extensions, expiry>> /\ pc[t] \in {"renew", "update", "reset"}
    BY <1>10 DEF ReadPanel, ReadFails, PostFails, ResetTraffic, ResetFails, panel
  <2>2. /\ UNCHANGED <<intent, attempt, auto, on, claimed>>
        /\ \E step \in ClientSteps : pc' = [pc EXCEPT ![t] = step]
        /\ \A u \in Approvers : u # t => work'[u] = work[u]
    BY <1>10, PanelStep
  <2>3. expiry <= expiry'
    BY <1>q, <2>1
  <2>4. \A u \in Requests : u # t => pc'[u] = pc[u] /\ work'[u] = work[u]
    BY <1>0, <2>2 DEF Approvers
  <2>5. pc[t] = "reset" => /\ pc'[t] \in {"complete", "failed"}
                           /\ Recorded(work'[t]) /\ work'[t].target = work[t].target
    <3>1. SUFFICES ASSUME pc[t] = "reset"
                   PROVE  /\ pc'[t] \in {"complete", "failed"}
                          /\ Recorded(work'[t]) /\ work'[t].target = work[t].target
      OBVIOUS
    <3>2. ResetTraffic(t) \/ ResetFails(t)
      BY <1>10, <3>1 DEF ReadPanel, ReadFails, PostFails
    <3>3. PICK r \in {"started", "done"} : work' = [work EXCEPT ![t].reset = r]
      BY <3>2 DEF ResetTraffic, ResetFails
    <3>4. Recorded(work'[t]) /\ work'[t].target = work[t].target
      BY <1>0, <3>3 DEF Recorded, Intents
    <3>5. pc'[t] \in {"complete", "failed"}
      <4>1. PICK step \in {"complete", "failed"} : pc' = [pc EXCEPT ![t] = step]
        BY <3>2 DEF ResetTraffic, ResetFails
      <4>2. QED
        BY <1>0, <4>1
    <3>6. QED
      BY <3>4, <3>5
  <2>6. ASSUME NEW u \in Requests, claimed'[u] PROVE Kept(u)
    <3>1. claimed[u] /\ on'[u] = on[u]
      BY <2>2, <2>6
    <3>2. CASE u # t
      BY <2>4, <3>1, <3>2 DEF Kept
    <3>3. CASE u = t
      BY <2>1, <2>5, <3>1, <3>3 DEF Kept
    <3>4. QED
      BY <3>2, <3>3
  <2>7. QED
    BY <1>4, <2>1, <2>2, <2>3, <2>6
<1>11. ASSUME NEW t \in Approvers, PostUpdate(t) PROVE ExtensionCovered'
  <2>1. /\ pc[t] = "update" /\ expiry' = work[t].target
        /\ extensions' = IF expiry < work[t].target
                         THEN [extensions EXCEPT ![on[t]] = @ + 1] ELSE extensions
        /\ UNCHANGED <<intent, attempt, auto, on, claimed, work>>
    BY <1>11 DEF PostUpdate
  <2>2. PICK step \in {"reset", "failed"} : pc' = [pc EXCEPT ![t] = step]
    BY <1>11 DEF PostUpdate
  <2>3. work[t].reset = "pending" /\ work[t] \in Intents /\ on[t] \in Orders
    BY <1>0, <2>1 DEF IntentsSound, LockSteps
  <2>4. pc[t] \in ClientSteps /\ pc[t] \in ClaimSteps /\ pc[t] \in LockSteps
    BY <2>1 DEF ClientSteps, ClaimSteps, LockSteps
  <2>5. ASSUME NEW o \in Orders, ~auto[o], extensions'[o] = 1 PROVE Covered(o)'
    <3>1. CASE o = on[t]
      <4>1. /\ t \in Requests /\ claimed[t] /\ attempt[o] = "running"
            /\ \A u \in Requests : on[u] = o /\ claimed[u] => u = t
        BY <2>4, <2>5, <3>1, AtWork
      <4>2. Recorded(intent[o]) => intent[o].target = work[t].target
        BY <2>4, <3>1 DEF IntentsSound
      <4>3. pc'[t] \in {"reset", "failed"} /\ Recorded(work[t])
        BY <1>0, <2>2, <2>3 DEF Recorded
      <4>4. work[t].target <= expiry' /\ work[t].target \in Nat
        BY <2>1, <2>3 DEF Intents
      <4>5. QED
        BY <2>1, <4>1, <4>2, <4>3, <4>4 DEF Covered
    <3>2. CASE o # on[t]
      <4>1. extensions[o] = 1 /\ Covered(o)
        BY <1>0, <1>1, <2>1, <2>5, <3>2
      <4>2. CASE Recorded(intent[o])
        <5>1. intent[o].target <= work[t].target
          BY <2>1, <2>5, <4>1, <4>2 DEF UpdateForward
        <5>2. QED
          BY <2>1, <4>2, <5>1 DEF Covered
      <4>3. CASE ~Recorded(intent[o])
        <5>1. \A u \in Requests : ~(on[u] = o /\ claimed[u])
          <6>1. SUFFICES ASSUME NEW u \in Requests, on[u] = o, claimed[u] PROVE FALSE
            OBVIOUS
          <6>2. pc[u] \in ClientSteps
            BY <4>1, <4>3, <6>1 DEF Covered, ClientSteps, LockSteps
          <6>3. u = t
            BY <2>4, <6>2, OneAtClient
          <6>4. QED
            BY <3>2, <6>1, <6>3
        <5>2. attempt[o] = "running"
          BY <4>1, <4>3 DEF Covered
        <5>3. QED
          BY <2>1, <4>3, <5>1, <5>2 DEF Covered
      <4>4. QED
        BY <4>2, <4>3
    <3>3. QED
      BY <3>1, <3>2
  <2>6. QED
    BY <1>2, <2>1, <2>5
<1>12. ASSUME NEW t \in Approvers, Commit(t) PROVE ExtensionCovered'
  <2>1. /\ pc[t] \in {"complete", "failed"} /\ UNCHANGED <<extensions, expiry, auto, on, claimed>>
        /\ intent' = [intent EXCEPT ![on[t]] = work[t]] /\ on[t] \in Orders
        /\ work' = [work EXCEPT ![t] = NoIntent]
    BY <1>0, <1>12 DEF Commit, panel
  <2>2. /\ \E step \in {"idle", "finish"} : pc' = [pc EXCEPT ![t] = step]
        /\ \/ attempt' = attempt
           \/ t \in Workers /\ attempt' = [attempt EXCEPT ![on[t]] = "finished"]
    BY <1>12, Zenon DEF Commit
  <2>3. pc[t] \in LockSteps /\ pc[t] \in ClaimSteps /\ pc[t] # "idle"
    BY <2>1 DEF ClaimSteps, LockSteps
  <2>4. ASSUME NEW o \in Orders, ~auto[o], extensions[o] = 1 PROVE Covered(o)'
    <3>1. Covered(o)
      BY <1>1, <2>4
    <3>2. CASE o = on[t]
      <4>1. intent'[o] = work[t]
        BY <1>0, <2>1, <3>2
      <4>2. Recorded(work[t]) /\ work[t].target <= expiry
        <5>1. CASE Recorded(intent[o])
          BY <2>3, <3>1, <3>2, <5>1 DEF Covered, IntentsSound
        <5>2. CASE ~Recorded(intent[o])
          <6>1. t \in Requests /\ claimed[t]
            BY <2>3, <2>4, <3>2, AtWork
          <6>2. QED
            BY <3>1, <3>2, <5>2, <6>1 DEF Covered
        <5>3. QED
          BY <5>1, <5>2
      <4>3. QED
        BY <2>1, <4>1, <4>2 DEF Covered
    <3>3. CASE o # on[t]
      <4>1. intent'[o] = intent[o] /\ attempt'[o] = attempt[o]
        BY <1>0, <2>1, <2>2, <3>3
      <4>2. \A u \in Requests : on[u] = o => u # t
        BY <3>3
      <4>3. \A u \in Requests : u # t => pc'[u] = pc[u] /\ work'[u] = work[u]
        BY <1>0, <2>1, <2>2
      <4>4. QED
        BY <2>1, <3>1, <4>1, <4>2, <4>3 DEF Covered
    <3>4. QED
      BY <3>2, <3>3
  <2>5. QED
    BY <1>2, <2>1, <2>4
<1>13. ASSUME NEW t \in Approvers, Crash(t) PROVE ExtensionCovered'
  <2>1. /\ UNCHANGED <<extensions, intent, attempt, expiry, auto, on>>
        /\ pc' = [pc EXCEPT ![t] = "idle"] /\ claimed' = [claimed EXCEPT ![t] = FALSE]
        /\ work' = [work EXCEPT ![t] = NoIntent]
    BY <1>13 DEF Crash, panel
  <2>2. ~claimed'[t]
    BY <2>1 DEF TypeOK
  <2>3. expiry <= expiry'
    BY <1>q, <2>1
  <2>4. \A u \in Requests : u # t => pc'[u] = pc[u] /\ work'[u] = work[u]
    BY <1>0, <2>1 DEF Approvers
  <2>5. ASSUME NEW u \in Requests, claimed'[u] PROVE Kept(u)
    <3>1. u # t
      BY <2>2, <2>5
    <3>2. claimed[u]
      BY <2>1, <2>5, <3>1 DEF TypeOK, Approvers
    <3>3. QED
      BY <2>1, <2>4, <3>1, <3>2 DEF Kept
  <2>6. QED
    BY <1>4, <2>1, <2>3, <2>5
<1>14. CASE UNCHANGED <<extensions, intent, attempt, expiry, auto, on, claimed, pc, work>>
  BY <1>14 DEF ExtensionCovered
<1>15. CASE DaysAdded
  <2>1. /\ UNCHANGED <<extensions, intent, attempt, auto, on, claimed, pc, work>>
        /\ expiry' = expiry + 1
    BY <1>15 DEF DaysAdded
  <2>2. \A n \in Nat : n <= expiry => n <= expiry'
    <3>1. expiry' = expiry + 1
      BY <2>1
    <3>2. QED
      BY <1>n, <3>1
  <2>3. /\ \A o \in Orders : intent[o].target \in Nat
        /\ \A t \in Approvers : work[t].target \in Nat
    BY <1>0 DEF Intents
  <2>4. ASSUME NEW o \in Orders, ~auto[o], extensions[o] = 1 PROVE Covered(o)'
    <3>1. Covered(o)
      BY <1>1, <2>4
    <3>2. QED
      BY <2>1, <2>2, <2>3, <3>1 DEF Covered
  <2>5. QED
    BY <1>2, <2>1, <2>4
<1>16. QED
  BY <1>5, <1>6, <1>7, <1>8, <1>9, <1>10, <1>11, <1>12, <1>13, <1>14, <1>15
     DEF Next, Renew, LookForPending, CreateOrder, TimePasses, ClientChanges, vars, panel
(* The reset of the traffic stays covered. *)
LEMMA ResetStep ==
  ASSUME TypeOK, Locking, WorkersAuto, Claiming, IntentsSound, ResetCovered, ResetOnce,
         [Next]_vars
  PROVE  ResetCovered'
<1> USE DEF Goto
<1> DEFINE Covered(o) ==
      ~Begun(intent[o]) =>
        /\ attempt[o] = "running"
        /\ \A t \in Requests : on[t] = o /\ claimed[t] =>
             pc[t] \in {"complete", "failed"} /\ Begun(work[t])
<1> DEFINE Kept(u) ==
      /\ claimed[u] /\ on'[u] = on[u]
      /\ pc[u] \in {"complete", "failed"} /\ Begun(work[u]) =>
           pc'[u] \in {"complete", "failed"} /\ Begun(work'[u])
<1>0. /\ pc \in [Approvers -> Steps] /\ on \in [Approvers -> Orders]
      /\ intent \in [Orders -> Intents] /\ work \in [Approvers -> Intents]
      /\ resets \in [Orders -> Nat]
      /\ attempt \in [Orders -> {"", "running", "finished"}]
  BY DEF TypeOK
<1>1. \A o \in Orders : ~auto[o] /\ resets[o] = 1 => Covered(o)
  BY DEF ResetCovered
<1>2. (\A o \in Orders : ~auto'[o] /\ resets'[o] = 1 => Covered(o)') => ResetCovered'
  BY DEF ResetCovered
<1>3. \A t \in Requests : claimed[t] <=> pc[t] \in ClaimSteps
  BY DEF Claiming
<1> HIDE DEF Covered, Kept
(* A step that touches neither the resets nor the intents, claims nothing   *)
(* and keeps what covers a reset.                                           *)
<1>4. ASSUME UNCHANGED <<resets, intent, attempt>>,
             \A o \in Orders : auto[o] => auto'[o],
             \A u \in Requests : claimed'[u] => Kept(u)
      PROVE  ResetCovered'
  <2>1. ASSUME NEW o \in Orders, ~auto'[o], resets'[o] = 1 PROVE Covered(o)'
    <3>1. ~auto[o] /\ resets[o] = 1
      BY <1>4, <2>1
    <3>2. Covered(o)
      BY <1>1, <3>1
    <3>3. SUFFICES ASSUME ~Begun(intent'[o])
                   PROVE  /\ attempt'[o] = "running"
                          /\ \A t \in Requests : on'[t] = o /\ claimed'[t] =>
                               pc'[t] \in {"complete", "failed"} /\ Begun(work'[t])
      BY DEF Covered
    <3>4. ~Begun(intent[o]) /\ attempt'[o] = attempt[o]
      BY <1>4, <3>3
    <3>5. ASSUME NEW u \in Requests, on'[u] = o, claimed'[u]
          PROVE  pc'[u] \in {"complete", "failed"} /\ Begun(work'[u])
      <4>1. Kept(u)
        BY <1>4, <3>5
      <4>2. QED
        BY <3>2, <3>4, <3>5, <4>1 DEF Covered, Kept
    <3>6. QED
      BY <3>2, <3>4, <3>5 DEF Covered
  <2>2. QED
    BY <1>2, <2>1
<1>5. ASSUME NEW t \in Approvers, NEW o \in Orders, Approve(t, o) \/ AutoClaim(t, o)
      PROVE  ResetCovered'
  <2>1. /\ UNCHANGED <<resets, intent, attempt, claimed, work>>
        /\ on' = [on EXCEPT ![t] = o] /\ pc[t] = "idle"
        /\ pc' \in {[pc EXCEPT ![t] = "claim"], [pc EXCEPT ![t] = "approve"]}
    BY <1>5 DEF Approve, AutoClaim, panel
  <2>2. \A p \in Orders : auto[p] => auto'[p]
    BY <1>5 DEF Approve, AutoClaim, TypeOK
  <2>3. t \notin Requests \/ ~claimed'[t]
    BY <1>3, <2>1 DEF ClaimSteps, LockSteps
  <2>4. \A u \in Requests : claimed'[u] => Kept(u)
    BY <1>0, <2>1, <2>3 DEF Kept, Approvers
  <2>5. QED
    BY <1>4, <2>1, <2>2, <2>4
<1>6. ASSUME NEW t \in Requests, Claim(t) PROVE ResetCovered'
  <2>1. /\ UNCHANGED <<resets, intent, auto, on, work>>
        /\ attempt[on[t]] # "running" /\ attempt' = [attempt EXCEPT ![on[t]] = "running"]
        /\ claimed' = [claimed EXCEPT ![t] = TRUE] /\ pc' = [pc EXCEPT ![t] = "approve"]
    BY <1>6 DEF Claim, panel
  <2>2. ASSUME NEW o \in Orders, ~auto[o], resets[o] = 1 PROVE Covered(o)'
    <3>1. Covered(o)
      BY <1>1, <2>2
    <3>2. CASE Begun(intent[o])
      BY <2>1, <3>2 DEF Covered
    <3>3. CASE ~Begun(intent[o])
      <4>1. attempt[o] = "running" /\ o # on[t]
        BY <2>1, <3>1, <3>3 DEF Covered
      <4>2. \A u \in Requests : on[u] = o => u # t
        BY <4>1
      <4>3. \A u \in Requests : u # t => claimed'[u] = claimed[u] /\ pc'[u] = pc[u]
        BY <1>0, <2>1 DEF TypeOK
      <4>4. attempt'[o] = "running"
        BY <1>0, <2>1, <4>1
      <4>5. QED
        BY <2>1, <3>1, <3>3, <4>2, <4>3, <4>4 DEF Covered
    <3>4. QED
      BY <3>2, <3>3
  <2>3. QED
    BY <1>2, <2>1, <2>2
<1>7. ASSUME NEW t \in Requests, Finish(t) PROVE ResetCovered'
  <2>1. /\ UNCHANGED <<resets, intent, auto, on, work>> /\ pc[t] = "finish"
        /\ attempt' = [attempt EXCEPT ![on[t]] = "finished"]
        /\ claimed' = [claimed EXCEPT ![t] = FALSE] /\ pc' = [pc EXCEPT ![t] = "idle"]
    BY <1>7 DEF Finish, panel
  <2>2. claimed[t]
    BY <1>3, <2>1 DEF ClaimSteps
  <2>3. ASSUME NEW o \in Orders, ~auto[o], resets[o] = 1 PROVE Covered(o)'
    <3>1. Covered(o)
      BY <1>1, <2>3
    <3>2. CASE Begun(intent[o])
      BY <2>1, <3>2 DEF Covered
    <3>3. CASE ~Begun(intent[o])
      <4>1. attempt[o] = "running" /\ o # on[t]
        BY <2>1, <2>2, <3>1, <3>3 DEF Covered
      <4>2. \A u \in Requests : on[u] = o => u # t
        BY <4>1
      <4>3. \A u \in Requests : u # t => claimed'[u] = claimed[u] /\ pc'[u] = pc[u]
        BY <1>0, <2>1 DEF TypeOK
      <4>4. attempt'[o] = "running"
        BY <1>0, <2>1, <4>1
      <4>5. QED
        BY <2>1, <3>1, <3>3, <4>2, <4>3, <4>4 DEF Covered
    <3>4. QED
      BY <3>2, <3>3
  <2>4. QED
    BY <1>2, <2>1, <2>3
<1>8. ASSUME NEW t \in Requests, Refuse(t) PROVE ResetCovered'
  <2>1. /\ UNCHANGED <<resets, intent, attempt, auto, on, claimed, work>>
        /\ pc[t] = "claim" /\ pc' = [pc EXCEPT ![t] = "idle"]
    BY <1>8 DEF Refuse, panel
  <2>2. ~claimed'[t]
    BY <1>3, <2>1 DEF ClaimSteps, LockSteps
  <2>3. \A u \in Requests : claimed'[u] => Kept(u)
    BY <1>0, <2>1, <2>2 DEF Kept, Approvers
  <2>4. QED
    BY <1>4, <2>1, <2>3
<1>9. ASSUME NEW t \in Approvers, Begin(t) \/ AutoBegin(t) PROVE ResetCovered'
  <2>1. /\ UNCHANGED <<resets, intent, attempt, auto, on, claimed>>
        /\ pc[t] = "approve"
    BY <1>9 DEF Begin, AutoBegin, panel
  <2>2. /\ work' = work \/ work' = [work EXCEPT ![t] = intent[on[t]]]
        /\ \E step \in Steps : pc' = [pc EXCEPT ![t] = step]
    BY <1>9, Zenon DEF Begin, AutoBegin, Steps, LockSteps
  <2>3. \A u \in Requests : u # t => pc'[u] = pc[u] /\ work'[u] = work[u]
    BY <1>0, <2>2 DEF Approvers
  <2>4. \A u \in Requests : claimed'[u] => Kept(u)
    BY <2>1, <2>3 DEF Kept
  <2>5. QED
    BY <1>4, <2>1, <2>4
<1>10. ASSUME NEW t \in Approvers,
              \/ ReadPanel(t) \/ ReadFails(t) \/ PostUpdate(t) \/ PostFails(t) \/ ResetFails(t)
       PROVE  ResetCovered'
  <2>1. UNCHANGED resets /\ pc[t] \in {"renew", "update", "reset"}
    BY <1>10 DEF ReadPanel, ReadFails, PostUpdate, PostFails, ResetFails, panel
  <2>2. /\ UNCHANGED <<intent, attempt, auto, on, claimed>>
        /\ \E step \in ClientSteps : pc' = [pc EXCEPT ![t] = step]
        /\ \A u \in Approvers : u # t => work'[u] = work[u]
    BY <1>10, PanelStep
  <2>3. \A u \in Requests : u # t => pc'[u] = pc[u] /\ work'[u] = work[u]
    BY <1>0, <2>2 DEF Approvers
  <2>4. \A u \in Requests : claimed'[u] => Kept(u)
    BY <2>1, <2>2, <2>3 DEF Kept
  <2>5. QED
    BY <1>4, <2>1, <2>2, <2>4
<1>11. ASSUME NEW t \in Approvers, ResetTraffic(t) PROVE ResetCovered'
  <2>1. /\ pc[t] = "reset" /\ resets' = [resets EXCEPT ![on[t]] = @ + 1]
        /\ UNCHANGED <<intent, attempt, auto, on, claimed>>
    BY <1>11 DEF ResetTraffic
  <2>p. PICK outcome \in {<<"done", "complete">>, <<"started", "failed">>} :
          /\ work' = [work EXCEPT ![t].reset = outcome[1]]
          /\ pc' = [pc EXCEPT ![t] = outcome[2]]
    BY <1>11, Zenon DEF ResetTraffic
  <2>o. outcome[1] \in {"started", "done"} /\ outcome[2] \in {"complete", "failed"}
    <3>1. CASE outcome = <<"done", "complete">>
      BY <3>1
    <3>2. CASE outcome = <<"started", "failed">>
      BY <3>2
    <3>3. QED
      BY <3>1, <3>2
  <2>2. PICK r \in {"started", "done"} : work' = [work EXCEPT ![t].reset = r]
    BY <2>o, <2>p, Zenon
  <2>3. PICK step \in {"complete", "failed"} : pc' = [pc EXCEPT ![t] = step]
    BY <2>o, <2>p, Zenon
  <2>4. pc[t] \in ClaimSteps /\ on[t] \in Orders
    BY <1>0, <2>1 DEF ClaimSteps, LockSteps
  <2>5. ASSUME NEW o \in Orders, ~auto[o], resets'[o] = 1 PROVE Covered(o)'
    <3>1. CASE o = on[t]
      <4>1. /\ t \in Requests /\ claimed[t] /\ attempt[o] = "running"
            /\ \A u \in Requests : on[u] = o /\ claimed[u] => u = t
        BY <2>4, <2>5, <3>1, AtWork
      <4>2. pc'[t] \in {"complete", "failed"} /\ Begun(work'[t])
        BY <1>0, <2>2, <2>3 DEF Begun, Intents
      <4>3. QED
        BY <2>1, <4>1, <4>2 DEF Covered
    <3>2. CASE o # on[t]
      <4>1. resets[o] = 1 /\ Covered(o)
        BY <1>0, <1>1, <2>1, <2>5, <3>2
      <4>2. \A u \in Requests : on[u] = o => u # t
        BY <3>2
      <4>3. \A u \in Requests : u # t => pc'[u] = pc[u] /\ work'[u] = work[u]
        BY <1>0, <2>2, <2>3
      <4>4. QED
        BY <2>1, <4>1, <4>2, <4>3 DEF Covered
    <3>3. QED
      BY <3>1, <3>2
  <2>6. QED
    BY <1>2, <2>1, <2>5
<1>12. ASSUME NEW t \in Approvers, Commit(t) PROVE ResetCovered'
  <2>1. /\ pc[t] \in {"complete", "failed"} /\ UNCHANGED <<resets, auto, on, claimed>>
        /\ intent' = [intent EXCEPT ![on[t]] = work[t]] /\ on[t] \in Orders
        /\ work' = [work EXCEPT ![t] = NoIntent]
    BY <1>0, <1>12 DEF Commit, panel
  <2>2. /\ \E step \in {"idle", "finish"} : pc' = [pc EXCEPT ![t] = step]
        /\ \/ attempt' = attempt
           \/ t \in Workers /\ attempt' = [attempt EXCEPT ![on[t]] = "finished"]
    BY <1>12, Zenon DEF Commit
  <2>3. pc[t] \in LockSteps /\ pc[t] \in ClaimSteps
    BY <2>1 DEF ClaimSteps, LockSteps
  <2>4. ASSUME NEW o \in Orders, ~auto[o], resets[o] = 1 PROVE Covered(o)'
    <3>1. Covered(o)
      BY <1>1, <2>4
    <3>2. CASE o = on[t]
      <4>1. intent'[o] = work[t]
        BY <1>0, <2>1, <3>2
      <4>2. Begun(work[t])
        <5>1. CASE Begun(intent[o])
          BY <2>3, <3>2, <5>1 DEF IntentsSound
        <5>2. CASE ~Begun(intent[o])
          <6>1. t \in Requests /\ claimed[t]
            BY <2>3, <2>4, <3>2, AtWork
          <6>2. QED
            BY <3>1, <3>2, <5>2, <6>1 DEF Covered
        <5>3. QED
          BY <5>1, <5>2
      <4>3. QED
        BY <4>1, <4>2 DEF Covered
    <3>3. CASE o # on[t]
      <4>1. intent'[o] = intent[o] /\ attempt'[o] = attempt[o]
        BY <1>0, <2>1, <2>2, <3>3
      <4>2. \A u \in Requests : on[u] = o => u # t
        BY <3>3
      <4>3. \A u \in Requests : u # t => pc'[u] = pc[u] /\ work'[u] = work[u]
        BY <1>0, <2>1, <2>2
      <4>4. QED
        BY <2>1, <3>1, <4>1, <4>2, <4>3 DEF Covered
    <3>4. QED
      BY <3>2, <3>3
  <2>5. QED
    BY <1>2, <2>1, <2>4
<1>13. ASSUME NEW t \in Approvers, Crash(t) PROVE ResetCovered'
  <2>1. /\ UNCHANGED <<resets, intent, attempt, auto, on>>
        /\ pc' = [pc EXCEPT ![t] = "idle"] /\ claimed' = [claimed EXCEPT ![t] = FALSE]
        /\ work' = [work EXCEPT ![t] = NoIntent]
    BY <1>13 DEF Crash, panel
  <2>2. ~claimed'[t]
    BY <2>1 DEF TypeOK
  <2>3. \A u \in Requests : u # t => pc'[u] = pc[u] /\ work'[u] = work[u]
    BY <1>0, <2>1 DEF Approvers
  <2>4. ASSUME NEW u \in Requests, claimed'[u] PROVE Kept(u)
    <3>1. u # t
      BY <2>2, <2>4
    <3>2. claimed[u]
      BY <2>1, <2>4, <3>1 DEF TypeOK, Approvers
    <3>3. QED
      BY <2>1, <2>3, <3>1, <3>2 DEF Kept
  <2>5. QED
    BY <1>4, <2>1, <2>4
<1>14. CASE UNCHANGED <<resets, intent, attempt, auto, on, claimed, pc, work>>
  BY <1>14 DEF ResetCovered
<1>15. QED
  BY <1>5, <1>6, <1>7, <1>8, <1>9, <1>10, <1>11, <1>12, <1>13, <1>14
     DEF Next, Renew, LookForPending, CreateOrder, TimePasses, DaysAdded, ClientChanges,
         vars, panel

-----------------------------------------------------------------------------
(* At the start no approver holds anything and no order has an effect. *)
LEMMA InvInit == Init => RenewalInv
<1> SUFFICES ASSUME Init PROVE RenewalInv
  OBVIOUS
<1>1. /\ pc = [t \in Approvers |-> "idle"] /\ orderLock = [o \in Orders |-> NoThread]
      /\ clientLock = NoThread /\ intent = [o \in Orders |-> NoIntent]
  BY DEF Init
<1>2. claimed = [t \in Approvers |-> FALSE]
  BY DEF Init
<1>3. extensions = [o \in Orders |-> 0] /\ resets = [o \in Orders |-> 0]
  BY DEF Init
<1>4. Locking
  BY <1>1 DEF Locking, LockSteps, ClientSteps
<1>5. WorkersAuto /\ UpdateForward
  BY <1>1 DEF WorkersAuto, UpdateForward
<1>6. Claiming
  BY <1>1, <1>2 DEF Claiming, ClaimSteps, LockSteps
<1>7. IntentsSound
  BY <1>1 DEF IntentsSound, Recorded, NoIntent, LockSteps
<1>8. \A o \in Orders : extensions[o] # 1 /\ extensions[o] <= 1 /\ resets[o] # 1 /\ resets[o] <= 1
  BY <1>3
<1>9. ExtensionCovered /\ ResetCovered /\ ExtendedOnce /\ ResetOnce
  BY <1>8 DEF ExtensionCovered, ResetCovered, ExtendedOnce, ResetOnce
<1>10. QED
  BY <1>4, <1>5, <1>6, <1>7, <1>9 DEF RenewalInv

(* The invariant of the renewal protocol, for any constants.  It is         *)
(* inductive together with the types.                                       *)
THEOREM RenewalSafe == Spec => []RenewalInv
<1>1. TypeOK /\ RenewalInv /\ [Next]_vars => RenewalInv'
  <2> SUFFICES ASSUME TypeOK, RenewalInv, [Next]_vars PROVE RenewalInv'
    OBVIOUS
  <2>1. /\ Locking /\ WorkersAuto /\ Claiming /\ IntentsSound /\ ExtensionCovered
        /\ ResetCovered /\ UpdateForward /\ ExtendedOnce /\ ResetOnce
    BY DEF RenewalInv
  <2>2. Locking' /\ WorkersAuto' /\ Claiming' /\ IntentsSound'
    BY <2>1, LockingStep, WorkersAutoStep, ClaimingStep, IntentsStep
  <2>3. ExtensionCovered' /\ ResetCovered' /\ UpdateForward'
    BY <2>1, ExtensionStep, ResetStep, ForwardStep
  <2>4. ExtendedOnce' /\ ResetOnce'
    BY <2>1, OnceStep
  <2>5. QED
    BY <2>2, <2>3, <2>4 DEF RenewalInv
<1>2. QED
  BY <1>1, InvInit, TypeCorrect, PTL DEF Spec

(* update_client_subscription with its recorded intent, behind the claim of *)
(* approve_and_provision_order, extends the client at most once for an      *)
(* order that no worker has claimed.                                        *)
THEOREM ExtendedOnceAlways == Spec => []ExtendedOnce
<1>1. RenewalInv => ExtendedOnce
  BY DEF RenewalInv
<1>2. QED
  BY <1>1, RenewalSafe, PTL

(* Such an order resets the client's traffic at most once. *)
THEOREM ResetOnceAlways == Spec => []ResetOnce
<1>1. RenewalInv => ResetOnce
  BY DEF RenewalInv
<1>2. QED
  BY <1>1, RenewalSafe, PTL

-----------------------------------------------------------------------------
(* A renewal completes when it has extended the client, or when another     *)
(* order that was open with it has.                                         *)

LEMMA CompletionInit == Init => CompletionInv
<1> SUFFICES ASSUME Init PROVE CompletionInv
  OBVIOUS
<1>1. /\ pc = [t \in Approvers |-> "idle"] /\ intent = [o \in Orders |-> NoIntent]
      /\ status = [o \in Orders |-> "none"]
  BY DEF Init
<1>2. OpenWorked
  BY <1>1 DEF OpenWorked, Recorded, NoIntent, LockSteps
<1>3. TargetAhead /\ CompletedIsExtended
  BY <1>1 DEF TargetAhead, CompletedIsExtended, Unserved
<1>4. QED
  BY <1>2, <1>3 DEF CompletionInv

(* A step that changes neither order, intent nor expiry, and takes no       *)
(* approver into a transaction or forward in it.                            *)
LEMMA QuietStep ==
  ASSUME TypeOK, TypeOK', CompletionInv,
         UNCHANGED <<status, intent, extensions, overtaken, expiry, edits>>,
         \A u \in Approvers : pc'[u] # "idle" =>
           status[on'[u]] = "open" \/ (pc[u] # "idle" /\ on'[u] = on[u]),
         \A u \in Approvers : pc'[u] \in LockSteps =>
           /\ pc[u] \in LockSteps /\ on'[u] = on[u] /\ work'[u] = work[u]
           /\ pc'[u] \in {"reset", "complete"} => pc'[u] = pc[u]
  PROVE  CompletionInv'
<1>1. OpenWorked'
  BY DEF CompletionInv, OpenWorked, Recorded, TypeOK
<1>2. TargetAhead'
  BY DEF CompletionInv, TargetAhead, Unserved, StillAhead, Recorded, TypeOK
<1>3. CompletedIsExtended'
  BY DEF CompletionInv, CompletedIsExtended
<1>4. QED
  BY <1>1, <1>2, <1>3 DEF CompletionInv

LEMMA CreateStep ==
  ASSUME TypeOK, TypeOK', CompletionInv, NEW c \in Customers, NEW o \in Orders,
         CreateOrder(c, o)
  PROVE  CompletionInv'
<1>1. /\ status' = [status EXCEPT ![o] = "open"] /\ status[o] = "none"
      /\ UNCHANGED <<intent, extensions, overtaken, expiry, edits, pc, on, work>>
  BY DEF CreateOrder, panel
<1>2. \A u \in Approvers : on[u] \in Orders /\ (pc[u] # "idle" => on[u] # o)
  BY <1>1 DEF CompletionInv, OpenWorked, TypeOK
<1>3. \A u \in Approvers : pc[u] \in LockSteps => pc[u] # "idle" /\ on[u] # o
  BY <1>2 DEF LockSteps
<1>4. \A p \in Orders : status'[p] = IF p = o THEN "open" ELSE status[p]
  BY <1>1 DEF TypeOK
<1>5. OpenWorked'
  <2>1. \A p \in Orders : status'[p] = "none" => ~Recorded(intent'[p])
    BY <1>1, <1>4 DEF CompletionInv, OpenWorked
  <2>2. \A u \in Approvers : pc'[u] # "idle" => status'[on'[u]] # "none"
    BY <1>1, <1>2, <1>4 DEF CompletionInv, OpenWorked
  <2>3. \A u \in Approvers : pc'[u] \in LockSteps => status'[on'[u]] = "open"
    BY <1>1, <1>2, <1>3, <1>4 DEF CompletionInv, OpenWorked
  <2>4. QED
    BY <1>1, <2>1, <2>2, <2>3 DEF OpenWorked, Recorded
<1>6. ~Recorded(intent[o])
  BY <1>1 DEF CompletionInv, OpenWorked
<1>7. TargetAhead'
  <2> SUFFICES ASSUME edits < Duration, NEW p \in Orders, Unserved(p)'
               PROVE  /\ StillAhead(intent[p])'
                      /\ \A u \in Approvers : on[u] = p /\ pc[u] \in LockSteps =>
                           StillAhead(work[u])' /\ pc[u] \notin {"reset", "complete"}
    BY <1>1 DEF TargetAhead
  <2>1. CASE p = o
    BY <1>1, <1>3, <1>6, <2>1 DEF StillAhead, Recorded
  <2>2. CASE p # o
    <3>1. Unserved(p)
      BY <1>1, <1>4, <2>2 DEF Unserved
    <3>2. QED
      BY <1>1, <3>1 DEF CompletionInv, TargetAhead, StillAhead, Recorded
  <2>3. QED
    BY <2>1, <2>2
<1>8. CompletedIsExtended'
  BY <1>1, <1>4 DEF CompletionInv, CompletedIsExtended
<1>9. QED
  BY <1>5, <1>7, <1>8 DEF CompletionInv

(* An approver t moves in its transaction, the panel's expiry stays. *)
LEMMA InsideStep ==
  ASSUME TypeOK, TypeOK', CompletionInv, NEW t \in Approvers, NEW o \in Orders,
         UNCHANGED <<status, intent, on, edits, overtaken, extensions, expiry>>,
         status[o] = "open", on[t] = o, pc[t] # "idle",
         \A u \in Approvers \ {t} : pc'[u] = pc[u] /\ work'[u] = work[u],
         (edits < Duration /\ Unserved(o) /\ pc'[t] \in LockSteps) =>
           StillAhead(work'[t]) /\ pc'[t] \notin {"reset", "complete"}
  PROVE  CompletionInv'
<1>1. OpenWorked'
  <2>1. \A u \in Approvers : pc'[u] # "idle" => status'[on'[u]] # "none"
    BY DEF CompletionInv, OpenWorked
  <2>2. \A u \in Approvers : pc'[u] \in LockSteps => status'[on'[u]] = "open"
    BY DEF CompletionInv, OpenWorked
  <2>3. \A p \in Orders : status'[p] = "none" => ~Recorded(intent'[p])
    BY DEF CompletionInv, OpenWorked
  <2>4. QED
    BY <2>1, <2>2, <2>3 DEF OpenWorked, Recorded
<1>2. TargetAhead'
  <2> SUFFICES ASSUME edits < Duration, NEW p \in Orders, Unserved(p)'
               PROVE  /\ StillAhead(intent[p])'
                      /\ \A u \in Approvers : on[u] = p /\ pc'[u] \in LockSteps =>
                           StillAhead(work[u])' /\ pc'[u] \notin {"reset", "complete"}
    BY DEF TargetAhead
  <2>1. Unserved(p)
    BY DEF Unserved
  <2>2. /\ StillAhead(intent[p])
        /\ \A u \in Approvers : on[u] = p /\ pc[u] \in LockSteps =>
             StillAhead(work[u]) /\ pc[u] \notin {"reset", "complete"}
    BY <2>1 DEF CompletionInv, TargetAhead
  <2>3. StillAhead(intent[p])'
    BY <2>2 DEF StillAhead, Recorded
  <2>4. ASSUME NEW u \in Approvers, on[u] = p, pc'[u] \in LockSteps
        PROVE  StillAhead(work[u])' /\ pc'[u] \notin {"reset", "complete"}
    <3>1. CASE u = t
      BY <2>1, <2>4, <3>1 DEF StillAhead, Recorded
    <3>2. CASE u # t
      BY <2>2, <2>4, <3>2 DEF StillAhead, Recorded
    <3>3. QED
      BY <3>1, <3>2
  <2>5. QED
    BY <2>3, <2>4
<1>3. CompletedIsExtended'
  BY DEF CompletionInv, CompletedIsExtended
<1>4. QED
  BY <1>1, <1>2, <1>3 DEF CompletionInv

(* The target is ahead of the expiry. *)
LEMMA NotYetThere ==
  ASSUME TypeOK, edits < Duration, NEW i \in Intents, Recorded(i), StillAhead(i)
  PROVE  expiry < i.target
<1>1. i.previous \in Nat /\ i.target \in Nat /\ expiry \in Nat /\ edits \in Nat
  <2>1. i.previous \in Nat /\ i.target \in Nat /\ expiry \in Nat /\ edits \in 0..MaxEdits
    BY DEF TypeOK, Intents
  <2>2. QED
    BY <2>1
<1>2. i.previous + Duration <= i.target /\ expiry <= i.previous + edits
  BY DEF StillAhead
<1>3. QED
  BY <1>1, <1>2

LEMMA IntentOfAhead ==
  ASSUME TypeOK, NEW i \in Intents, StillAhead(i)
  PROVE  StillAhead(IntentOf(i))
<1>1. CASE i.reset # "none"
  BY <1>1 DEF IntentOf
<1>2. CASE i.reset = "none"
  <2>1. expiry \in Nat /\ now \in Nat /\ edits \in Nat
    <3>1. expiry \in Nat /\ now \in 0..MaxTime /\ edits \in 0..MaxEdits
      BY DEF TypeOK
    <3>2. QED
      BY <3>1
  <2>2. IntentOf(i).previous = expiry /\ IntentOf(i).target = Later(now, expiry) + Duration
    BY <1>2 DEF IntentOf
  <2>3. Later(now, expiry) \in Nat /\ expiry <= Later(now, expiry)
    BY <2>1 DEF Later
  <2>4. QED
    BY <2>1, <2>2, <2>3 DEF StillAhead
<1>3. QED
  BY <1>1, <1>2

LEMMA CommitStep ==
  ASSUME TypeOK, TypeOK', Locking, CompletionInv, NEW t \in Approvers, Commit(t)
  PROVE  CompletionInv'
<1>1. PICK o \in Orders : o = on[t]
  BY DEF TypeOK
<1>2. /\ pc[t] \in {"complete", "failed"} /\ pc[t] \in LockSteps
      /\ UNCHANGED <<extensions, overtaken, expiry, edits, on>>
      /\ status' = IF pc[t] = "complete" THEN [status EXCEPT ![o] = "completed"] ELSE status
      /\ intent' = [intent EXCEPT ![o] = work[t]]
  BY <1>1 DEF Commit, LockSteps, panel, environment
<1>3. PICK step \in {"idle", "finish"} : pc' = [pc EXCEPT ![t] = step]
  BY DEF Commit, Goto
<1>4. /\ pc'[t] = step /\ pc'[t] \notin LockSteps
      /\ \A u \in Approvers \ {t} : pc'[u] = pc[u] /\ work'[u] = work[u]
  BY <1>3 DEF TypeOK, Commit, LockSteps
<1>5. status[o] = "open"
  BY <1>1, <1>2 DEF CompletionInv, OpenWorked
<1>6. \A u \in Approvers \ {t} : pc[u] \in LockSteps => on[u] # o
  <2>1. SUFFICES ASSUME NEW u \in Approvers, pc[u] \in LockSteps, on[u] = o PROVE u = t
    OBVIOUS
  <2>2. orderLock[o] = u /\ orderLock[o] = t
    BY <1>1, <1>2, <2>1 DEF Locking
  <2>3. QED
    BY <2>2
<1>7. intent'[o] = work[t] /\ \A p \in Orders \ {o} : intent'[p] = intent[p]
  BY <1>2 DEF TypeOK
<1>8. \A p \in Orders : status'[p] = IF p = o /\ pc[t] = "complete" THEN "completed" ELSE status[p]
  BY <1>2 DEF TypeOK
<1>9. OpenWorked'
  <2>1. \A p \in Orders : status'[p] = "none" => p # o /\ ~Recorded(intent'[p])
    BY <1>5, <1>7, <1>8 DEF CompletionInv, OpenWorked
  <2>2. ASSUME NEW u \in Approvers, pc'[u] # "idle" PROVE status'[on[u]] # "none"
    <3>1. on[u] \in Orders /\ pc[u] # "idle"
      BY <1>2, <1>4, <2>2 DEF TypeOK
    <3>2. status[on[u]] # "none"
      BY <3>1 DEF CompletionInv, OpenWorked
    <3>3. QED
      BY <1>8, <3>1, <3>2
  <2>3. ASSUME NEW u \in Approvers, pc'[u] \in LockSteps PROVE status'[on[u]] = "open"
    <3>1. u # t /\ pc[u] \in LockSteps /\ on[u] \in Orders
      BY <1>4, <2>3 DEF TypeOK
    <3>2. on[u] # o /\ status[on[u]] = "open"
      BY <1>6, <3>1 DEF CompletionInv, OpenWorked
    <3>3. QED
      BY <1>8, <3>1, <3>2
  <2>4. QED
    BY <1>2, <2>1, <2>2, <2>3 DEF OpenWorked, Recorded
<1>10. ASSUME edits < Duration, Unserved(o) PROVE StillAhead(work[t]) /\ pc[t] # "complete"
  BY <1>1, <1>2, <1>10 DEF CompletionInv, TargetAhead
<1>11. TargetAhead'
  <2> SUFFICES ASSUME edits < Duration, NEW p \in Orders, Unserved(p)'
               PROVE  /\ StillAhead(intent[p])'
                      /\ \A u \in Approvers : on[u] = p /\ pc'[u] \in LockSteps =>
                           StillAhead(work[u])' /\ pc'[u] \notin {"reset", "complete"}
    BY <1>2 DEF TargetAhead
  <2>1. Unserved(p)
    BY <1>2, <1>8 DEF Unserved
  <2>2. CASE p = o
    <3>1. StillAhead(work[t])
      BY <1>10, <2>1, <2>2
    <3>2. StillAhead(intent[p])'
      BY <1>2, <1>7, <2>2, <3>1 DEF StillAhead, Recorded
    <3>3. \A u \in Approvers : on[u] = o => pc'[u] \notin LockSteps
      BY <1>4, <1>6
    <3>4. QED
      BY <2>2, <3>2, <3>3
  <2>3. CASE p # o
    <3>1. /\ StillAhead(intent[p])
          /\ \A u \in Approvers : on[u] = p /\ pc[u] \in LockSteps =>
               StillAhead(work[u]) /\ pc[u] \notin {"reset", "complete"}
      BY <2>1 DEF CompletionInv, TargetAhead
    <3>2. \A u \in Approvers : on[u] = p => u # t
      BY <1>1, <2>3
    <3>3. QED
      BY <1>2, <1>4, <1>7, <2>3, <3>1, <3>2 DEF StillAhead, Recorded
  <2>4. QED
    BY <2>2, <2>3
<1>12. CompletedIsExtended'
  <2> SUFFICES ASSUME edits < Duration, NEW p \in Orders, status'[p] = "completed"
               PROVE  extensions[p] >= 1 \/ p \in overtaken
    BY <1>2 DEF CompletedIsExtended
  <2>1. CASE status[p] = "completed"
    BY <2>1 DEF CompletionInv, CompletedIsExtended
  <2>2. CASE status[p] # "completed"
    <3>1. p = o /\ pc[t] = "complete"
      BY <1>8, <2>2
    <3>2. (extensions[o] # 0 \/ o \in overtaken) /\ extensions[o] \in Nat
      BY <1>5, <1>10, <3>1 DEF TypeOK, Unserved
    <3>3. QED
      BY <3>1, <3>2
  <2>3. QED
    BY <2>1, <2>2
<1>13. QED
  BY <1>9, <1>11, <1>12 DEF CompletionInv

(* Days that others add move the expiry and are counted. *)
LEMMA DaysStep ==
  ASSUME TypeOK, CompletionInv, DaysAdded
  PROVE  CompletionInv'
<1>1. /\ edits' = edits + 1 /\ expiry' = expiry + 1
      /\ UNCHANGED <<status, intent, extensions, overtaken, pc, on, work>>
  BY DEF DaysAdded
<1>2. OpenWorked'
  BY <1>1 DEF CompletionInv, OpenWorked, Recorded
<1>3. ASSUME edits' < Duration PROVE edits < Duration
  <2>1. edits \in 0..MaxEdits
    BY DEF TypeOK
  <2>2. QED
    BY <1>1, <1>3, <2>1
<1>4. CompletedIsExtended'
  BY <1>1, <1>3 DEF CompletionInv, CompletedIsExtended
<1>5. ASSUME NEW i \in Intents, StillAhead(i), Recorded(i)
      PROVE  i.previous + Duration <= i.target /\ expiry' <= i.previous + edits'
  <2>1. expiry \in Nat /\ edits \in 0..MaxEdits /\ i.previous \in Nat
    BY DEF TypeOK, Intents
  <2>2. i.previous + Duration <= i.target /\ expiry <= i.previous + edits
    BY <1>5 DEF StillAhead
  <2>3. QED
    BY <1>1, <2>1, <2>2
<1>6. ASSUME NEW o \in Orders, StillAhead(intent[o]) PROVE StillAhead(intent[o])'
  <2>1. intent[o] \in Intents
    BY DEF TypeOK
  <2>2. QED
    BY <1>1, <1>5, <1>6, <2>1 DEF StillAhead, Recorded
<1>7. ASSUME NEW u \in Approvers, StillAhead(work[u]) PROVE StillAhead(work[u])'
  <2>1. work[u] \in Intents
    BY DEF TypeOK
  <2>2. QED
    BY <1>1, <1>5, <1>7, <2>1 DEF StillAhead, Recorded
<1>8. TargetAhead'
  BY <1>1, <1>3, <1>6, <1>7 DEF CompletionInv, TargetAhead, Unserved
<1>9. QED
  BY <1>2, <1>4, <1>8 DEF CompletionInv

(* The update.  When it raises the expiry, the order has extended and every *)
(* other open one with an intent is overtaken; else the expiry falls, and   *)
(* the targets of the others are as far ahead as before.                    *)
LEMMA UpdateStep ==
  ASSUME TypeOK, TypeOK', Locking, IntentsSound, CompletionInv, NEW t \in Approvers,
         PostUpdate(t)
  PROVE  CompletionInv'
<1>1. PICK o \in Orders : o = on[t]
  BY DEF TypeOK
<1>2. /\ pc[t] = "update" /\ expiry' = work[t].target
      /\ extensions' = IF expiry < work[t].target THEN [extensions EXCEPT ![o] = @ + 1]
                       ELSE extensions
      /\ overtaken' = IF expiry < work[t].target THEN overtaken \cup Waiting(o) ELSE overtaken
      /\ UNCHANGED <<status, intent, on, work, edits>>
  BY <1>1 DEF PostUpdate, environment
<1>3. /\ pc'[t] \in {"reset", "failed"} /\ \A u \in Approvers \ {t} : pc'[u] = pc[u]
  BY DEF PostUpdate, Goto, TypeOK
<1>4. status[o] = "open" /\ pc[t] \in LockSteps /\ pc[t] \in ClientSteps
  BY <1>1, <1>2 DEF CompletionInv, OpenWorked, LockSteps, ClientSteps
<1>5. \A u \in Approvers \ {t} : pc[u] \in LockSteps => pc[u] = "renew"
  <2>1. \A u \in Approvers : pc[u] \in ClientSteps => u = t
    BY <1>4, OneAtClient
  <2>2. QED
    BY <2>1 DEF ClientSteps
<1>6. OpenWorked'
  <2>1. \A u \in Approvers : pc'[u] # "idle" => pc[u] # "idle"
    BY <1>2, <1>3
  <2>2. \A u \in Approvers : pc'[u] \in LockSteps => pc[u] \in LockSteps
    BY <1>3, <1>4
  <2>3. QED
    BY <1>2, <2>1, <2>2 DEF CompletionInv, OpenWorked, Recorded
<1>7. \A p \in Orders : extensions[p] \in Nat /\ extensions'[p] \in Nat /\ extensions'[p] >= extensions[p]
  <2>1. extensions \in [Orders -> Nat]
    BY DEF TypeOK
  <2>2. QED
    BY <1>2, <2>1
<1>8. overtaken \subseteq overtaken'
  BY <1>2
<1>9. CompletedIsExtended'
  <2>1. \A p \in Orders : extensions[p] >= 1 => extensions'[p] >= 1
    BY <1>7
  <2>2. QED
    BY <1>2, <1>8, <2>1 DEF CompletionInv, CompletedIsExtended
<1>10. \A p \in Orders : Unserved(p)' => Unserved(p)
  <2>1. \A p \in Orders : extensions'[p] = 0 => extensions[p] = 0
    BY <1>7
  <2>2. QED
    BY <1>2, <1>8, <2>1 DEF Unserved
<1>11. CASE expiry < work[t].target
  <2>1. \A p \in Orders : Unserved(p)' => p # o /\ ~Recorded(intent[p])
    <3>1. extensions'[o] = extensions[o] + 1
      BY <1>2, <1>11 DEF TypeOK
    <3>2. extensions'[o] # 0
      BY <1>7, <3>1
    <3>3. overtaken' = overtaken \cup Waiting(o)
      BY <1>2, <1>11
    <3>4. QED
      BY <1>2, <3>2, <3>3 DEF Unserved, Waiting
  <2>2. ASSUME NEW u \in Approvers, NEW p \in Orders, Unserved(p)', on[u] = p, pc'[u] \in LockSteps
        PROVE  ~Recorded(work[u]) /\ pc'[u] = "renew"
    <3>1. u # t /\ pc'[u] = pc[u] /\ pc[u] = "renew"
      BY <1>1, <1>3, <1>5, <2>1, <2>2
    <3>2. work[u] = intent[p]
      BY <2>2, <3>1 DEF IntentsSound, LockSteps
    <3>3. QED
      BY <2>1, <2>2, <3>1, <3>2
  <2>3. TargetAhead'
    BY <1>2, <2>1, <2>2 DEF TargetAhead, StillAhead, Recorded
  <2>4. QED
    BY <1>6, <1>9, <2>3 DEF CompletionInv
<1>12. CASE ~(expiry < work[t].target)
  <2>1. work[t] \in Intents /\ expiry \in Nat /\ edits \in 0..MaxEdits
    BY DEF TypeOK
  <2>2. work[t].target \in Nat
    BY <2>1 DEF Intents
  <2>3. expiry' <= expiry /\ expiry' \in Nat
    BY <1>2, <1>12, <2>1, <2>2
  <2>4. ASSUME edits < Duration PROVE ~Unserved(o)
    <3>1. SUFFICES ASSUME Unserved(o) PROVE FALSE
      OBVIOUS
    <3>2. StillAhead(work[t])
      BY <1>1, <1>4, <2>4, <3>1 DEF CompletionInv, TargetAhead
    <3>3. Recorded(work[t])
      BY <1>2, <1>4 DEF IntentsSound, Recorded
    <3>4. expiry < work[t].target
      BY <2>1, <2>4, <3>2, <3>3, NotYetThere
    <3>5. QED
      BY <1>12, <3>4
  <2>5. ASSUME NEW i \in Intents, Recorded(i), StillAhead(i)
        PROVE  i.previous + Duration <= i.target /\ expiry' <= i.previous + edits
    <3>1. i.previous \in Nat /\ i.previous + Duration <= i.target /\ expiry <= i.previous + edits
      BY <2>5 DEF StillAhead, Intents
    <3>2. QED
      BY <2>1, <2>3, <3>1
  <2>6. \A i \in Intents : StillAhead(i) => (Recorded(i) => i.previous + Duration <= i.target /\ expiry' <= i.previous + edits)
    BY <2>5
  <2>7. TargetAhead'
    <3> SUFFICES ASSUME edits < Duration, NEW p \in Orders, Unserved(p)'
                 PROVE  /\ StillAhead(intent[p])'
                        /\ \A u \in Approvers : on[u] = p /\ pc'[u] \in LockSteps =>
                             StillAhead(work[u])' /\ pc'[u] \notin {"reset", "complete"}
      BY <1>2 DEF TargetAhead
    <3>1. Unserved(p) /\ p # o
      BY <1>10, <2>4
    <3>2. /\ StillAhead(intent[p]) /\ intent[p] \in Intents
          /\ \A u \in Approvers : on[u] = p /\ pc[u] \in LockSteps =>
               StillAhead(work[u]) /\ pc[u] \notin {"reset", "complete"}
      BY <3>1 DEF CompletionInv, TargetAhead, TypeOK
    <3>3. StillAhead(intent[p])'
      BY <1>2, <2>6, <3>2 DEF StillAhead, Recorded
    <3>4. ASSUME NEW u \in Approvers, on[u] = p, pc'[u] \in LockSteps
          PROVE  StillAhead(work[u])' /\ pc'[u] \notin {"reset", "complete"}
      <4>1. u # t /\ pc'[u] = pc[u]
        BY <1>1, <1>3, <3>1, <3>4
      <4>2. StillAhead(work[u]) /\ pc[u] \notin {"reset", "complete"} /\ work[u] \in Intents
        BY <3>2, <3>4, <4>1 DEF TypeOK
      <4>3. QED
        BY <1>2, <2>6, <4>1, <4>2 DEF StillAhead, Recorded
    <3>5. QED
      BY <3>3, <3>4
  <2>8. QED
    BY <1>6, <1>9, <2>7 DEF CompletionInv
<1>13. QED
  BY <1>11, <1>12

(* The other steps inside the transaction. *)
LEMMA TransactionStep ==
  ASSUME TypeOK, TypeOK', IntentsSound, CompletionInv, NEW t \in Approvers,
         \/ ReadPanel(t) \/ ResetTraffic(t) \/ ResetFails(t)
         \/ (Begin(t) \/ AutoBegin(t)) /\ pc'[t] = "renew"
  PROVE  CompletionInv'
<1>1. PICK o \in Orders : o = on[t]
  BY DEF TypeOK
<1>2. /\ UNCHANGED <<status, intent, on, edits, overtaken, extensions, expiry>>
      /\ pc[t] # "idle"
  BY DEF ReadPanel, ResetTraffic, ResetFails, Begin, AutoBegin, environment, panel
<1>3. \A u \in Approvers \ {t} : pc'[u] = pc[u] /\ work'[u] = work[u]
  BY DEF ReadPanel, ResetTraffic, ResetFails, Begin, AutoBegin, Goto, TypeOK
<1>4. status[o] = "open"
  <2>1. CASE Begin(t) \/ AutoBegin(t)
    <3>1. status[o] # "none"
      BY <1>1, <1>2 DEF CompletionInv, OpenWorked
    <3>2. status[o] # "completed"
      <4>1. pc'[t] = "renew"
        BY <2>1 DEF ReadPanel, ResetTraffic, ResetFails, Begin, AutoBegin
      <4>2. SUFFICES ASSUME status[o] = "completed" PROVE FALSE
        OBVIOUS
      <4>3. pc'[t] \in {"finish", "idle"}
        BY <1>1, <2>1, <4>2 DEF Begin, AutoBegin, Goto, TypeOK
      <4>4. QED
        BY <4>1, <4>3
    <3>3. status[o] \in {"none", "open", "completed"}
      BY DEF TypeOK
    <3>4. QED
      BY <3>1, <3>2, <3>3
  <2>2. CASE ReadPanel(t) \/ ResetTraffic(t) \/ ResetFails(t)
    <3>1. pc[t] \in LockSteps
      BY <2>2 DEF ReadPanel, ResetTraffic, ResetFails, LockSteps
    <3>2. QED
      BY <1>1, <3>1 DEF CompletionInv, OpenWorked
  <2>3. QED
    BY <2>1, <2>2
<1>5. work[t] \in Intents
  BY DEF TypeOK
<1>6. (edits < Duration /\ Unserved(o)) =>
        /\ StillAhead(intent[o])
        /\ pc[t] \in LockSteps => StillAhead(work[t]) /\ pc[t] \notin {"reset", "complete"}
  BY <1>1 DEF CompletionInv, TargetAhead
<1>7. CASE (Begin(t) \/ AutoBegin(t)) /\ pc'[t] = "renew"
  <2>1. work'[t] = intent[o]
    BY <1>1, <1>7 DEF Begin, AutoBegin, Goto, TypeOK
  <2>2. (edits < Duration /\ Unserved(o) /\ pc'[t] \in LockSteps) =>
          StillAhead(work'[t]) /\ pc'[t] \notin {"reset", "complete"}
    BY <1>6, <1>7, <2>1
  <2>3. QED
    BY <1>1, <1>2, <1>3, <1>4, <2>2, InsideStep
<1>8. CASE ReadPanel(t)
  <2>1. work'[t] = IntentOf(work[t]) /\ pc[t] = "renew"
        /\ (~AlreadyUpdated(IntentOf(work[t])) => pc'[t] = "update")
    BY <1>8 DEF ReadPanel, Goto, TypeOK
  <2>2. ASSUME edits < Duration, Unserved(o)
        PROVE  StillAhead(IntentOf(work[t])) /\ pc'[t] = "update"
    <3>1. StillAhead(work[t])
      BY <1>6, <2>1, <2>2 DEF LockSteps
    <3>2. PICK i \in Intents : i = IntentOf(work[t]) /\ Recorded(i) /\ StillAhead(i)
      BY <1>5, <3>1, IntentOfAhead, IntentOfType DEF Recorded
    <3>3. expiry < i.target /\ expiry \in Nat /\ i.target \in Nat
      BY <2>2, <3>2, NotYetThere DEF TypeOK, Intents
    <3>4. expiry # i.target
      BY <3>3
    <3>5. QED
      BY <2>1, <3>2, <3>4 DEF AlreadyUpdated
  <2>3. (edits < Duration /\ Unserved(o) /\ pc'[t] \in LockSteps) =>
          StillAhead(work'[t]) /\ pc'[t] \notin {"reset", "complete"}
    BY <2>1, <2>2
  <2>4. QED
    BY <1>1, <1>2, <1>3, <1>4, <2>3, InsideStep
<1>9. CASE ResetTraffic(t) \/ ResetFails(t)
  <2>1. pc[t] = "reset"
    BY <1>9 DEF ResetTraffic, ResetFails
  <2>2. ~(edits < Duration /\ Unserved(o))
    BY <1>6, <2>1 DEF LockSteps
  <2>3. QED
    BY <1>1, <1>2, <1>3, <1>4, <2>2, InsideStep
<1>10. QED
  BY <1>7, <1>8, <1>9

(* The steps that leave the orders, the intents and the panel's expiry.     *)
LEMMA ElsewhereStep ==
  ASSUME TypeOK, TypeOK', CompletionInv, NEW t \in Approvers,
         \/ \E o \in Orders : Approve(t, o) \/ AutoClaim(t, o)
         \/ Claim(t) \/ Refuse(t) \/ Finish(t) \/ ReadFails(t) \/ PostFails(t) \/ Crash(t)
         \/ (Begin(t) \/ AutoBegin(t)) /\ pc'[t] # "renew"
  PROVE  CompletionInv'
<1>1. UNCHANGED <<status, intent, extensions, overtaken, expiry, edits>>
  BY DEF Approve, AutoClaim, Claim, Refuse, Finish, ReadFails, PostFails, Crash, Begin,
     AutoBegin, panel, environment
<1>2. \A u \in Approvers \ {t} : pc'[u] = pc[u] /\ on'[u] = on[u] /\ work'[u] = work[u]
  BY DEF Approve, AutoClaim, Claim, Refuse, Finish, ReadFails, PostFails, Crash, Begin,
     AutoBegin, Goto, TypeOK
<1>3. pc'[t] # "idle" => status[on'[t]] = "open" \/ (pc[t] # "idle" /\ on'[t] = on[t])
  <2>1. CASE \E o \in Orders : Approve(t, o) \/ AutoClaim(t, o)
    BY <2>1 DEF Approve, AutoClaim, TypeOK
  <2>2. CASE ~ \E o \in Orders : Approve(t, o) \/ AutoClaim(t, o)
    BY <2>2 DEF Claim, Refuse, Finish, ReadFails, PostFails, Crash, Begin, AutoBegin
  <2>3. QED
    BY <2>1, <2>2
<1>4. pc'[t] \in LockSteps =>
        /\ pc[t] \in LockSteps /\ on'[t] = on[t] /\ work'[t] = work[t]
        /\ pc'[t] \in {"reset", "complete"} => pc'[t] = pc[t]
  <2>1. CASE ReadFails(t) \/ PostFails(t)
    BY <2>1 DEF ReadFails, PostFails, Goto, TypeOK, LockSteps
  <2>2. CASE ~(ReadFails(t) \/ PostFails(t))
    <3>1. pc'[t] \in {"claim", "approve", "idle", "finish"}
      BY <2>2 DEF Approve, AutoClaim, Claim, Refuse, Finish, Crash, Begin, AutoBegin, Goto, TypeOK
    <3>2. QED
      BY <3>1 DEF LockSteps
  <2>3. QED
    BY <2>1, <2>2
<1>5. \A u \in Approvers : pc'[u] # "idle" =>
        status[on'[u]] = "open" \/ (pc[u] # "idle" /\ on'[u] = on[u])
  BY <1>2, <1>3
<1>6. \A u \in Approvers : pc'[u] \in LockSteps =>
        /\ pc[u] \in LockSteps /\ on'[u] = on[u] /\ work'[u] = work[u]
        /\ pc'[u] \in {"reset", "complete"} => pc'[u] = pc[u]
  BY <1>2, <1>4
<1>7. QED
  BY <1>1, <1>5, <1>6, QuietStep

LEMMA CompletionStep ==
  ASSUME TypeOK, TypeOK', Locking, IntentsSound, CompletionInv, [Next]_vars
  PROVE  CompletionInv'
<1>1. ASSUME NEW c \in Customers, LookForPending(c) PROVE CompletionInv'
  <2>1. UNCHANGED <<status, intent, extensions, overtaken, expiry, edits, pc, on, work>>
    BY <1>1 DEF LookForPending, panel
  <2>2. QED
    BY <2>1, QuietStep
<1>2. ASSUME NEW c \in Customers, NEW o \in Orders, CreateOrder(c, o) PROVE CompletionInv'
  BY <1>2, CreateStep
<1>3. ASSUME NEW t \in Approvers,
             \/ \E o \in Orders : Approve(t, o) \/ AutoClaim(t, o)
             \/ Claim(t) \/ Refuse(t) \/ Finish(t) \/ Begin(t) \/ AutoBegin(t) \/ Renew(t)
      PROVE  CompletionInv'
  <2>1. CASE Commit(t) \/ PostUpdate(t)
    BY <2>1, CommitStep, UpdateStep
  <2>2. CASE \/ ReadPanel(t) \/ ResetTraffic(t) \/ ResetFails(t)
             \/ (Begin(t) \/ AutoBegin(t)) /\ pc'[t] = "renew"
    BY <2>2, TransactionStep
  <2>3. CASE \/ \E o \in Orders : Approve(t, o) \/ AutoClaim(t, o)
             \/ Claim(t) \/ Refuse(t) \/ Finish(t) \/ ReadFails(t) \/ PostFails(t) \/ Crash(t)
             \/ (Begin(t) \/ AutoBegin(t)) /\ pc'[t] # "renew"
    BY <2>3, ElsewhereStep
  <2>4. QED
    BY <1>3, <2>1, <2>2, <2>3 DEF Renew
<1>4. CASE DaysAdded
  BY <1>4, DaysStep
<1>5. CASE TimePasses \/ ClientChanges \/ UNCHANGED vars
  <2>1. UNCHANGED <<status, intent, extensions, overtaken, expiry, edits, pc, on, work>>
    BY <1>5 DEF TimePasses, ClientChanges, vars, panel, environment
  <2>2. QED
    BY <2>1, QuietStep
<1>6. Requests \subseteq Approvers /\ Workers \subseteq Approvers
  BY DEF Approvers
<1>7. QED
  BY <1>1, <1>2, <1>3, <1>4, <1>5, <1>6 DEF Next

(* A completed renewal order has extended the client, or another order that *)
(* was open with it did so after its intent was recorded, as long as others *)
(* have added fewer days than the plan has.  It needs no assumption on how  *)
(* many renewals are pending at a time.                                     *)
THEOREM CompletedIsExtendedAlways == Spec => []CompletedIsExtended
<1>1. Init => CompletionInv
  BY CompletionInit
<1>2. TypeOK /\ TypeOK' /\ RenewalInv /\ CompletionInv /\ [Next]_vars => CompletionInv'
  BY CompletionStep DEF RenewalInv
<1>3. CompletionInv => CompletedIsExtended
  BY DEF CompletionInv
<1>4. QED
  BY <1>1, <1>2, <1>3, TypeCorrect, RenewalSafe, PTL DEF Spec
=============================================================================
