--------------------------- MODULE ReferralProofs ---------------------------
(***************************************************************************)
(* Rewards are earned by checked payments, reach the panel once but for    *)
(* faults, and come at the right milestones: for any number of friends,    *)
(* orders and faults.                                                      *)
(***************************************************************************)
EXTENDS Referral, FiniteSetTheorems, TLAPS

USE ReferralAssumption

-----------------------------------------------------------------------------
(* Counting. *)

(* The friends who have bought are counted by a number. *)
LEMMA PurchasedCount ==
  /\ IsFiniteSet(Purchased) /\ Cardinality(Purchased) \in Nat
  /\ Cardinality(Friends) \in Nat /\ Cardinality(Purchased) <= Cardinality(Friends)
<1>1. Purchased \in SUBSET Friends
  BY DEF Purchased
<1>2. QED
  BY <1>1, FS_Subset, FS_CardinalityType

(* A friend who buys for the first time is one more. *)
LEMMA PurchasedPlus ==
  ASSUME NEW c \in Friends
  PROVE  /\ Cardinality(Purchased \cup {c}) \in 1..Cardinality(Friends)
         /\ c \in Purchased => Cardinality(Purchased \cup {c}) = Cardinality(Purchased)
         /\ c \notin Purchased => Cardinality(Purchased \cup {c}) = Cardinality(Purchased) + 1
<1>1. Purchased \cup {c} \in SUBSET Friends
  BY DEF Purchased
<1>2. IsFiniteSet(Purchased \cup {c}) /\ Cardinality(Purchased \cup {c}) <= Cardinality(Friends)
  BY <1>1, FS_Subset
<1>3. /\ c \in Purchased => Cardinality(Purchased \cup {c}) = Cardinality(Purchased)
      /\ c \notin Purchased => Cardinality(Purchased \cup {c}) = Cardinality(Purchased) + 1
  BY PurchasedCount, FS_AddElement
<1>4. Cardinality(Purchased \cup {c}) # 0
  BY <1>2, FS_EmptySet
<1>5. Cardinality(Purchased \cup {c}) \in Nat
  BY <1>2, FS_CardinalityType
<1>6. QED
  BY <1>2, <1>3, <1>4, <1>5, PurchasedCount

(* What a counting finds, for a friend who was invited. *)
LEMMA CountFound ==
  ASSUME TypeOK, NEW c \in Friends
  PROVE  /\ Count(c) \in 0..Cardinality(Friends)
         /\ Count(c) > 0 =>
              \/ referral[c] = "registered" /\ Count(c) = Cardinality(Purchased) + 1
              \/ referral[c] = "purchased" /\ Count(c) <= Cardinality(Purchased)
<1>1. referral[c] \in {"none", "registered", "purchased"}
  BY DEF TypeOK
<1>2. c \in Purchased <=> referral[c] = "purchased"
  BY DEF Purchased
<1>3. QED
  BY <1>1, <1>2, PurchasedCount, PurchasedPlus DEF Count, Registered

-----------------------------------------------------------------------------
(* The signal. *)

CountedNow(c, count) ==
  irregular = {} /\ count > 0 =>
    \/ referral[c] = "registered" /\ count = Cardinality(Purchased) + 1
    \/ referral[c] = "purchased" /\ count <= Cardinality(Purchased)

(* A signal with a fresh count keeps the milestones exact and the other    *)
(* counts fresh, or marks the overlap.                                     *)
LEMMA SignalKeeps ==
  ASSUME TypeOK, CountsFresh, MilestonesExact, NEW c \in Friends,
         NEW count \in 0..Cardinality(Friends), CountedNow(c, count), Signal(c, count),
         completing' \in [Friends -> [order: OrderIds \cup {0}, auto: BOOLEAN,
                                      count: 0..Cardinality(Friends)]],
         completing'[c].count = 0, \A f \in Friends \ {c} : completing'[f] = completing[f]
  PROVE  /\ referral' \in [Friends -> {"none", "registered", "purchased"}]
         /\ reward' \in [Friends -> {"none", "available"}]
         /\ milestones' \subseteq 1..Cardinality(Friends)
         /\ irregular' \subseteq Friends
         /\ CountsFresh' /\ MilestonesExact'
<1>1. /\ referral' \in [Friends -> {"none", "registered", "purchased"}]
      /\ reward' \in [Friends -> {"none", "available"}]
      /\ irregular' \subseteq Friends
  <2>1. /\ referral' \in {referral, [referral EXCEPT ![c] = "purchased"]}
        /\ reward' \in {reward, [reward EXCEPT ![c] = "available"]}
        /\ irregular' \in {irregular, irregular \cup {c}}
    BY DEF Signal
  <2>2. QED
    BY <2>1 DEF TypeOK
<1>2. milestones' \subseteq 1..Cardinality(Friends)
  <2>1. milestones' = milestones \cup MilestoneReached(count)
    BY DEF Signal
  <2>2. MilestoneReached(count) \subseteq {n \in {count} : n > 0}
    BY DEF MilestoneReached
  <2>3. milestones \subseteq 1..Cardinality(Friends)
    BY DEF TypeOK
  <2>4. {n \in {count} : n > 0} \subseteq 1..Cardinality(Friends)
    BY PurchasedCount
  <2>5. QED
    BY <2>1, <2>2, <2>3, <2>4
<1>3. CASE FirstPurchase(c, count)
  <2>1. referral[c] = "registered" /\ count > 0 /\ c \notin Purchased
    BY <1>3 DEF FirstPurchase, Purchased
  <2>2. referral' = [referral EXCEPT ![c] = "purchased"]
    BY <1>3 DEF Signal
  <2>3. Purchased' = Purchased \cup {c}
    BY <2>2 DEF Purchased, TypeOK
  <2>4. Cardinality(Purchased') = Cardinality(Purchased) + 1
    BY <2>1, <2>3, PurchasedPlus
  <2>5. CASE Overlaps(c)
    <3>1. irregular' # {}
      BY <1>3, <2>5 DEF Signal
    <3>2. QED
      BY <1>1, <1>2, <3>1 DEF CountsFresh, MilestonesExact
  <2>6. CASE ~Overlaps(c)
    <3>1. irregular' = irregular
      BY <1>3, <2>6 DEF Signal
    <3>2. CountsFresh'
      <4> SUFFICES ASSUME irregular = {}, NEW f \in Friends, completing'[f].count > 0
                   PROVE  referral'[f] = "purchased"
                          /\ completing'[f].count <= Cardinality(Purchased')
        BY <3>1 DEF CountsFresh
      <4>1. f # c /\ completing'[f] = completing[f]
        OBVIOUS
      <4>2. referral[f] # "registered"
        BY <2>6, <4>1 DEF Overlaps
      <4>3. referral[f] = "purchased" /\ completing[f].count <= Cardinality(Purchased)
        BY <4>1, <4>2 DEF CountsFresh
      <4>4. completing[f].count \in 0..Cardinality(Friends)
        BY DEF TypeOK
      <4>5. QED
        BY <2>2, <2>4, <4>1, <4>3, <4>4, PurchasedCount DEF TypeOK
    <3>3. MilestonesExact'
      <4> SUFFICES ASSUME irregular = {}
                   PROVE  milestones' = {n \in 1..Cardinality(Purchased') : n % Milestone = 0}
        BY <3>1 DEF MilestonesExact
      <4>1. count = Cardinality(Purchased) + 1
        BY <2>1 DEF CountedNow
      <4>2. milestones = {n \in 1..Cardinality(Purchased) : n % Milestone = 0}
        BY DEF MilestonesExact
      <4>3. milestones' = milestones \cup {n \in {count} : n > 0 /\ n % Milestone = 0}
        BY DEF Signal, MilestoneReached
      <4>4. QED
        BY <2>1, <2>4, <4>1, <4>2, <4>3, PurchasedCount
    <3>4. QED
      BY <1>1, <1>2, <3>2, <3>3
  <2>7. QED
    BY <2>5, <2>6
<1>4. CASE ~FirstPurchase(c, count)
  <2>1. UNCHANGED <<referral, irregular>>
    BY <1>4 DEF Signal
  <2>2. Purchased' = Purchased
    BY <2>1 DEF Purchased
  <2>3. CountsFresh'
    BY <2>1, <2>2 DEF CountsFresh
  <2>4. MilestonesExact'
    <3> SUFFICES ASSUME irregular = {}
                 PROVE  milestones' = {n \in 1..Cardinality(Purchased) : n % Milestone = 0}
      BY <2>1, <2>2 DEF MilestonesExact
    <3>1. count > 0 => count <= Cardinality(Purchased)
      BY <1>4 DEF CountedNow, FirstPurchase
    <3>2. milestones = {n \in 1..Cardinality(Purchased) : n % Milestone = 0}
      BY DEF MilestonesExact
    <3>3. milestones' = milestones \cup {n \in {count} : n > 0 /\ n % Milestone = 0}
      BY DEF Signal, MilestoneReached
    <3>4. QED
      BY <3>1, <3>2, <3>3, PurchasedCount
  <2>5. QED
    BY <1>1, <1>2, <2>3, <2>4
<1>5. QED
  BY <1>3, <1>4

-----------------------------------------------------------------------------
(* Orders and approvals. *)

OrdersTyped ==
  /\ orders \in [OrderIds -> [status: {"none", "pending", "confirmed", "completed", "closed"},
                              customer: Friends]]
  /\ completing \in [Friends -> [order: OrderIds \cup {0}, auto: BOOLEAN,
                                 count: 0..Cardinality(Friends)]]
  /\ review \in [OrderIds -> {"none", "staff", "pending", "verified", "cancel_failed", "cancelled"}]
  /\ checked \subseteq OrderIds /\ awards \subseteq OrderIds

OrdersInv == OrdersTyped /\ ApprovalsLocked /\ ReviewFollowsApproval

(* The steps that leave orders, approvals and reviews alone. *)
OrdersUntouched == UNCHANGED <<orders, completing, review, checked>> /\ awards' \subseteq awards

(* Such a step keeps what is known of them. *)
LEMMA OrdersKept == ASSUME OrdersInv, OrdersUntouched PROVE OrdersInv'
BY DEF OrdersInv, OrdersTyped, OrdersUntouched, ApprovalsLocked, ReviewFollowsApproval

(* No step but the owner's changes an order that an approval has locked,   *)
(* and only completed orders are reviewed.                                 *)
LEMMA OrdersStep == ASSUME ReferralInv, [Next]_vars PROVE OrdersInv'
<1>1. OrdersInv /\ TypeOK
  BY DEF OrdersInv, ReferralInv, OrdersTyped, TypeOK
<1>2. ASSUME NEW c \in Friends, CommitApproval(c) PROVE OrdersInv'
  <2> DEFINE o == completing[c].order
  <2>1. /\ o \in OrderIds /\ orders[o].customer = c
        /\ orders[o].status \in {"pending", "confirmed"}
    BY <1>1, <1>2 DEF CommitApproval, OrdersInv, ApprovalsLocked
  <2>2. /\ orders' = [orders EXCEPT ![o].status = "completed"]
        /\ completing' = [completing EXCEPT ![c] = NoApproval]
        /\ awards' = awards \cup {o}
        /\ \/ review' = [review EXCEPT ![o] = "pending"] /\ checked' = checked
           \/ review' = [review EXCEPT ![o] = "staff"] /\ checked' = checked \cup {o}
    BY <1>2 DEF CommitApproval
  <2>3. NoApproval \in [order: OrderIds \cup {0}, auto: BOOLEAN, count: 0..Cardinality(Friends)]
    BY PurchasedCount DEF NoApproval
  <2> HIDE DEF o
  <2>4. OrdersTyped'
    <3>1. completing' \in [Friends -> [order: OrderIds \cup {0}, auto: BOOLEAN,
                                      count: 0..Cardinality(Friends)]]
      BY <1>1, <2>2, <2>3 DEF OrdersInv, OrdersTyped
    <3>2. orders' \in [OrderIds -> [status: {"none", "pending", "confirmed", "completed", "closed"},
                                   customer: Friends]]
      BY <1>1, <2>1, <2>2 DEF OrdersInv, OrdersTyped
    <3>3. review' \in [OrderIds -> {"none", "staff", "pending", "verified", "cancel_failed", "cancelled"}]
      BY <1>1, <2>1, <2>2 DEF OrdersInv, OrdersTyped
    <3>4. QED
      BY <1>1, <2>1, <2>2, <3>1, <3>2, <3>3 DEF OrdersInv, OrdersTyped
  <2>5. ApprovalsLocked'
    <3> SUFFICES ASSUME NEW f \in Friends, completing'[f] # NoApproval
                 PROVE  /\ completing'[f].order \in OrderIds
                        /\ orders'[completing'[f].order].customer = f
                        /\ orders'[completing'[f].order].status \in {"pending", "confirmed"}
      BY DEF ApprovalsLocked
    <3>1. f # c /\ completing'[f] = completing[f]
      BY <1>1, <2>2 DEF OrdersInv, OrdersTyped
    <3>2. /\ completing[f].order \in OrderIds
          /\ orders[completing[f].order].customer = f
          /\ orders[completing[f].order].status \in {"pending", "confirmed"}
      BY <1>1, <3>1 DEF OrdersInv, ApprovalsLocked
    <3>3. completing[f].order # o
      BY <2>1, <3>1, <3>2
    <3>4. orders'[completing[f].order] = orders[completing[f].order]
      BY <1>1, <2>2, <3>2, <3>3 DEF OrdersInv, OrdersTyped
    <3>5. QED
      BY <3>1, <3>2, <3>4
  <2>6. ReviewFollowsApproval'
    <3>1. \A p \in OrderIds \ {o} :
            orders'[p] = orders[p] /\ review'[p] = review[p] /\ (p \in checked' <=> p \in checked)
      BY <1>1, <2>1, <2>2 DEF OrdersInv, OrdersTyped
    <3>2. orders'[o].status = "completed"
      BY <1>1, <2>1, <2>2 DEF OrdersInv, OrdersTyped
    <3>3. review'[o] = "pending" \/ (review'[o] = "staff" /\ o \in checked')
      BY <1>1, <2>1, <2>2 DEF OrdersInv, OrdersTyped
    <3>4. QED
      BY <1>1, <3>1, <3>2, <3>3 DEF OrdersInv, ReviewFollowsApproval
  <2>7. QED
    BY <2>4, <2>5, <2>6 DEF OrdersInv
<1>3. ASSUME NEW c \in Friends, AbortApproval(c) PROVE OrdersInv'
  <2>1. completing' = [completing EXCEPT ![c] = NoApproval] /\ UNCHANGED <<orders, review, checked, awards>>
    BY <1>3 DEF AbortApproval, reviews
  <2>2. NoApproval \in [order: OrderIds \cup {0}, auto: BOOLEAN, count: 0..Cardinality(Friends)]
    BY PurchasedCount DEF NoApproval
  <2>3. QED
    BY <1>1, <2>1, <2>2 DEF OrdersInv, OrdersTyped, ApprovalsLocked, ReviewFollowsApproval
<1>4. ASSUME NEW o \in OrderIds, NEW c \in Friends, Place(o, c) PROVE OrdersInv'
  <2>1. /\ orders[o].status = "none" /\ UNCHANGED <<completing, review, checked, awards>>
        /\ orders' = [orders EXCEPT ![o] = [status |-> "pending", customer |-> c]]
    BY <1>4 DEF Place, reviews
  <2>2. QED
    BY <1>1, <2>1 DEF OrdersInv, OrdersTyped, ApprovalsLocked, ReviewFollowsApproval
<1>5. ASSUME NEW o \in OrderIds, NEW auto \in BOOLEAN, BeginApproval(o, auto) PROVE OrdersInv'
  <2> DEFINE c == orders[o].customer
  <2>1. /\ c \in Friends /\ orders[o].status \in {"pending", "confirmed"}
        /\ completing' = [completing EXCEPT ![c] =
                            [order |-> o, auto |-> auto, count |-> Count(c)]]
        /\ UNCHANGED <<orders, review, checked, awards>>
    BY <1>1, <1>5 DEF BeginApproval, reviews, OrdersInv, OrdersTyped
  <2>2. Count(c) \in 0..Cardinality(Friends)
    BY <1>1, <2>1, CountFound
  <2>3. QED
    BY <1>1, <2>1, <2>2 DEF OrdersInv, OrdersTyped, ApprovalsLocked, ReviewFollowsApproval
<1>6. ASSUME NEW o \in OrderIds, ConfirmPayment(o) PROVE OrdersInv'
  <2>1. /\ orders[o].status = "pending" /\ UNCHANGED <<completing, review, checked, awards>>
        /\ orders' = [orders EXCEPT ![o].status = "confirmed"]
    BY <1>6 DEF ConfirmPayment, reviews
  <2>2. QED
    BY <1>1, <2>1 DEF OrdersInv, OrdersTyped, ApprovalsLocked, ReviewFollowsApproval
<1>7. ASSUME NEW o \in OrderIds, CloseOrder(o) PROVE OrdersInv'
  <2>1. /\ orders' = [orders EXCEPT ![o].status = "closed"]
        /\ UNCHANGED <<completing, review, checked, awards>>
        /\ \A c \in Friends : completing[c].order # o
    BY <1>7 DEF CloseOrder, BeingCompleted, reviews
  <2>2. QED
    BY <1>1, <2>1 DEF OrdersInv, OrdersTyped, ApprovalsLocked, ReviewFollowsApproval
<1>15. ASSUME NEW o \in OrderIds, NEW done \in BOOLEAN, CancelAuto(o, done) PROVE OrdersInv'
  <2>8. orders[o].status \in {"completed", "closed"}
    <3>1. review[o] # "none"
      BY <1>15 DEF CancelAuto
    <3>2. QED
      BY <1>1, <3>1 DEF OrdersInv, OrdersTyped, ReviewFollowsApproval
  <2>1. /\ UNCHANGED <<completing, checked, awards>>
        /\ \/ /\ orders' = [orders EXCEPT ![o].status = "closed"]
              /\ review' = [review EXCEPT ![o] = "cancelled"]
           \/ orders' = orders /\ review' = [review EXCEPT ![o] = "cancel_failed"]
    <3>1. CASE done
      BY <1>15, <3>1 DEF CancelAuto
    <3>2. CASE ~done
      BY <1>15, <3>2 DEF CancelAuto
    <3>3. QED
      BY <3>1, <3>2
  <2>2. \A c \in Friends : completing[c] # NoApproval => completing[c].order # o
    BY <1>1, <2>8 DEF OrdersInv, ApprovalsLocked
  <2>3. OrdersTyped'
    <3>1. orders' \in [OrderIds -> [status: {"none", "pending", "confirmed", "completed", "closed"},
                                   customer: Friends]]
      <4>1. CASE orders' = orders
        BY <1>1, <4>1 DEF OrdersInv, OrdersTyped
      <4>2. CASE orders' = [orders EXCEPT ![o].status = "closed"]
        BY <1>1, <4>2 DEF OrdersInv, OrdersTyped
      <4>3. QED
        BY <2>1, <4>1, <4>2
    <3>2. review' \in [OrderIds -> {"none", "staff", "pending", "verified", "cancel_failed", "cancelled"}]
      BY <1>1, <2>1 DEF OrdersInv, OrdersTyped
    <3>3. QED
      BY <1>1, <2>1, <3>1, <3>2 DEF OrdersInv, OrdersTyped
  <2>4. /\ \A p \in OrderIds \ {o} : orders'[p] = orders[p] /\ review'[p] = review[p]
        /\ orders'[o].status \in {"completed", "closed"} /\ review'[o] \in {"cancelled", "cancel_failed"}
    BY <1>1, <2>1, <2>8 DEF OrdersInv, OrdersTyped
  <2>5. ApprovalsLocked'
    BY <1>1, <2>1, <2>2, <2>4 DEF OrdersInv, ApprovalsLocked
  <2>6. ReviewFollowsApproval'
    BY <1>1, <2>1, <2>4 DEF OrdersInv, ReviewFollowsApproval
  <2>7. QED
    BY <2>3, <2>5, <2>6 DEF OrdersInv
<1>8. ASSUME NEW o \in OrderIds, ConfirmAuto(o) PROVE OrdersInv'
  <2>1. /\ orders[o].status = "completed" /\ UNCHANGED <<orders, completing, awards>>
        /\ review' = [review EXCEPT ![o] = "verified"] /\ checked' = checked \cup {o}
    BY <1>8 DEF ConfirmAuto
  <2>2. QED
    BY <1>1, <2>1 DEF OrdersInv, OrdersTyped, ApprovalsLocked, ReviewFollowsApproval
<1>9. ASSUME NEW o \in OrderIds, Award(o) \/ AwardLost(o) \/ Resave(o) PROVE OrdersInv'
  BY <1>1, <1>9, OrdersKept DEF OrdersUntouched, Award, AwardLost, Resave, reviews
<1>10. ASSUME NEW c \in Friends, Assign(c) PROVE OrdersInv'
  BY <1>1, <1>10, OrdersKept DEF OrdersUntouched, Assign, reviews
<1>11. ASSUME NEW answered \in BOOLEAN, RedeemAdd(answered) PROVE OrdersInv'
  BY <1>1, <1>11, OrdersKept DEF OrdersUntouched, RedeemAdd, reviews
<1>12. CASE RedeemBegin \/ RedeemRefused \/ RedeemCommit \/ RedeemCrash
  BY <1>1, <1>12, OrdersKept
  DEF OrdersUntouched, RedeemBegin, RedeemRefused, RedeemCommit, RedeemCrash, reviews
<1>13. CASE UNCHANGED vars
  BY <1>1, <1>13, OrdersKept DEF OrdersUntouched, vars
<1>14. QED
  BY <1>2, <1>3, <1>4, <1>5, <1>6, <1>7, <1>8, <1>9, <1>10, <1>11, <1>12, <1>13, <1>15 DEF Next

-----------------------------------------------------------------------------
(* The ledger. *)

(* What was checked stays so, and no checked order changes hands. *)
LEMMA CheckedStays ==
  ASSUME ReferralInv, [Next]_vars, NEW c \in Friends, Checked(c)
  PROVE  Checked(c)'
<1>1. PICK o \in checked : orders[o].customer = c
  BY DEF Checked
<1>2. OrdersInv /\ o \in OrderIds /\ orders[o].status \notin {"none", "pending", "confirmed"}
  BY <1>1 DEF ReferralInv, ReviewFollowsApproval, OrdersInv, OrdersTyped, TypeOK
<1> DEFINE Stays == orders'[o].customer = orders[o].customer /\ o \in checked'
<1>3. ASSUME NEW f \in Friends, CommitApproval(f) PROVE Stays
  <2>1. completing[f].order # o
    BY <1>2, <1>3 DEF CommitApproval, OrdersInv, ApprovalsLocked
  <2>2. /\ orders' = [orders EXCEPT ![completing[f].order].status = "completed"]
        /\ checked \subseteq checked'
    BY <1>3 DEF CommitApproval
  <2>3. QED
    BY <1>1, <1>2, <2>1, <2>2 DEF OrdersInv, OrdersTyped
<1>4. ASSUME NEW p \in OrderIds, NEW f \in Friends, Place(p, f) PROVE Stays
  BY <1>1, <1>2, <1>4 DEF Place, OrdersInv, OrdersTyped, reviews
<1>5. ASSUME NEW p \in OrderIds,
             CloseOrder(p) \/ ConfirmPayment(p) \/ \E done \in BOOLEAN : CancelAuto(p, done)
      PROVE  Stays
  <2>1. \/ orders' = orders \/ orders' = [orders EXCEPT ![p].status = "closed"]
        \/ orders' = [orders EXCEPT ![p].status = "confirmed"]
    <3>1. ASSUME NEW done \in BOOLEAN, CancelAuto(p, done)
          PROVE  orders' = orders \/ orders' = [orders EXCEPT ![p].status = "closed"]
      BY <3>1 DEF CancelAuto
    <3>2. QED
      BY <1>5, <3>1 DEF CloseOrder, ConfirmPayment
  <2>2. checked' = checked
    BY <1>5 DEF CloseOrder, ConfirmPayment, CancelAuto, reviews
  <2>3. orders'[o].customer = orders[o].customer
    BY <1>2, <2>1 DEF OrdersInv, OrdersTyped
  <2>4. QED
    BY <1>1, <2>2, <2>3
<1>6. ASSUME NEW p \in OrderIds, ConfirmAuto(p) PROVE Stays
  BY <1>1, <1>6 DEF ConfirmAuto
<1>8. ASSUME UNCHANGED <<orders, checked>> PROVE Stays
  BY <1>1, <1>8
<1>9. ASSUME NEW p \in OrderIds,
             Award(p) \/ AwardLost(p) \/ Resave(p) \/ \E auto \in BOOLEAN : BeginApproval(p, auto)
      PROVE  UNCHANGED <<orders, checked>>
  BY <1>9 DEF Award, AwardLost, Resave, BeginApproval, reviews
<1>10. ASSUME NEW f \in Friends, Assign(f) \/ AbortApproval(f) PROVE UNCHANGED <<orders, checked>>
  BY <1>10 DEF Assign, AbortApproval, reviews
<1>11. ASSUME (\E answered \in BOOLEAN : RedeemAdd(answered))
              \/ RedeemBegin \/ RedeemRefused \/ RedeemCommit \/ RedeemCrash \/ UNCHANGED vars
       PROVE  UNCHANGED <<orders, checked>>
  BY <1>11 DEF RedeemAdd, RedeemBegin, RedeemRefused, RedeemCommit, RedeemCrash, reviews, vars
<1>12. Stays
  BY <1>3, <1>4, <1>5, <1>6, <1>8, <1>9, <1>10, <1>11 DEF Next
<1>13. QED
  BY <1>1, <1>12 DEF Checked

(* The ledger has its type; an entry that is written is for a checked      *)
(* payment, and an entry that a redemption has locked stays.               *)
LEMMA LedgerStep ==
  ASSUME ReferralInv, [Next]_vars
  PROVE  /\ ledger' \in [Friends -> {"none", "available", "redeemed"}]
         /\ LedgerNeedsCheckedPayment'
         /\ \A c \in Friends : ledger[c] = "redeemed" => ledger'[c] = "redeemed"
         /\ \A c \in Friends : ledger[c] = "available" =>
              ledger'[c] = "available" \/ (RedeemCommit /\ c \in redeem.rewards)
<1> DEFINE Kept == ledger' = ledger
           Written(o, c) == /\ c = orders[o].customer /\ ledger[c] = "none"
                            /\ WriteLedger(o) /\ Checked(c)'
<1>1. /\ ledger \in [Friends -> {"none", "available", "redeemed"}] /\ OrdersInv
      /\ LedgerNeedsCheckedPayment
  BY DEF ReferralInv, TypeOK, OrdersInv, OrdersTyped
<1>2. CASE Kept
  BY <1>1, <1>2, CheckedStays DEF LedgerNeedsCheckedPayment
<1>3. ASSUME NEW o \in OrderIds, NEW f \in Friends, Written(o, f)
      PROVE  /\ ledger' \in [Friends -> {"none", "available", "redeemed"}]
             /\ LedgerNeedsCheckedPayment'
             /\ \A c \in Friends : ledger[c] = "redeemed" => ledger'[c] = "redeemed"
             /\ \A c \in Friends : ledger[c] = "available" => ledger'[c] = "available"
  <2>1. ledger[f] = "none" /\ ledger' = [ledger EXCEPT ![f] = "available"] /\ Checked(f)'
    BY <1>3 DEF WriteLedger
  <2>2. ASSUME NEW c \in Friends, ledger'[c] # "none" PROVE Checked(c)'
    <3>1. CASE c = f
      BY <2>1, <3>1
    <3>2. CASE c # f
      BY <1>1, <2>1, <2>2, <3>2, CheckedStays DEF LedgerNeedsCheckedPayment
    <3>3. QED
      BY <3>1, <3>2
  <2>3. QED
    BY <1>1, <2>1, <2>2 DEF LedgerNeedsCheckedPayment
<1>4. ASSUME NEW o \in OrderIds, Award(o) PROVE Kept \/ \E c \in Friends : Written(o, c)
  <2>1. CASE Earns(o, review[o] \in {"staff", "verified"})
    <3>1. review[o] \in {"staff", "verified"} /\ ledger[orders[o].customer] = "none"
      BY <2>1 DEF Earns
    <3>2. WriteLedger(o)
      BY <1>4, <2>1 DEF Award
    <3>3. Checked(orders[o].customer)
      BY <1>1, <3>1 DEF Checked, OrdersInv, ReviewFollowsApproval
    <3>4. orders[o].customer \in Friends
      BY <1>1 DEF OrdersInv, OrdersTyped
    <3>5. \A c \in Friends : Checked(c) => Checked(c)'
      BY CheckedStays
    <3>6. QED
      BY <3>1, <3>2, <3>3, <3>4, <3>5
  <2>2. CASE ~Earns(o, review[o] \in {"staff", "verified"})
    BY <1>4, <2>2 DEF Award
  <2>3. QED
    BY <2>1, <2>2
<1>5. ASSUME NEW o \in OrderIds, ConfirmAuto(o) PROVE Kept \/ \E c \in Friends : Written(o, c)
  <2>1. /\ checked' = checked \cup {o} /\ UNCHANGED orders
        /\ IF Earns(o, TRUE) THEN WriteLedger(o) ELSE Kept
    BY <1>5 DEF ConfirmAuto
  <2>3. PICK c \in Friends : c = orders[o].customer
    BY <1>1 DEF OrdersInv, OrdersTyped
  <2>4. Checked(c)'
    BY <2>1, <2>3 DEF Checked
  <2>5. QED
    BY <2>1, <2>3, <2>4 DEF Earns
<1>6. CASE RedeemCommit
  <2>1. ledger' = [c \in Friends |-> IF c \in redeem.rewards THEN "redeemed" ELSE ledger[c]]
    BY <1>6 DEF RedeemCommit
  <2>2. \A c \in Friends : c \in redeem.rewards => ledger[c] # "none"
    BY <1>6 DEF RedeemCommit, ReferralInv, RedeemedAreAvailable
  <2>3. \A c \in Friends : ledger'[c] # "none" => Checked(c)'
    BY <1>1, <2>1, <2>2, CheckedStays DEF LedgerNeedsCheckedPayment
  <2>4. QED
    BY <1>1, <1>6, <2>1, <2>3 DEF LedgerNeedsCheckedPayment
<1>7. ASSUME NEW o \in OrderIds,
             AwardLost(o) \/ Resave(o) \/ ConfirmPayment(o) \/ CloseOrder(o)
             \/ (\E done \in BOOLEAN : CancelAuto(o, done))
             \/ (\E auto \in BOOLEAN : BeginApproval(o, auto)) \/ \E c \in Friends : Place(o, c)
      PROVE  Kept
  BY <1>7 DEF AwardLost, Resave, ConfirmPayment, CloseOrder, CancelAuto, BeginApproval, Place
<1>8. ASSUME NEW c \in Friends, Assign(c) \/ CommitApproval(c) \/ AbortApproval(c) PROVE Kept
  BY <1>8 DEF Assign, CommitApproval, AbortApproval
<1>9. ASSUME (\E answered \in BOOLEAN : RedeemAdd(answered))
             \/ RedeemBegin \/ RedeemRefused \/ RedeemCrash \/ UNCHANGED vars
      PROVE  Kept
  BY <1>9 DEF RedeemAdd, RedeemBegin, RedeemRefused, RedeemCrash, vars
<1> HIDE DEF Kept, Written
<1>10. Kept \/ (\E o \in OrderIds, c \in Friends : Written(o, c)) \/ RedeemCommit
  BY <1>4, <1>5, <1>7, <1>8, <1>9 DEF Next
<1>11. QED
  BY <1>2, <1>3, <1>6, <1>10

-----------------------------------------------------------------------------
(* Redemptions. *)

RedeemTyped ==
  /\ faults \in 0..MaxFaults /\ applied \in [Friends -> Nat]
  /\ redeem \in [step: {"idle", "call", "added"}, rewards: SUBSET Friends]

(* A reward is added at most once for each fault and once more; what has   *)
(* been added is redeemed, or is about to be with its rows locked.         *)
LEMMA RedeemStep ==
  ASSUME ReferralInv, [Next]_vars
  PROVE  RedeemTyped' /\ RedeemedAreAvailable' /\ RewardAppliedOnce'
<1>1. /\ RedeemTyped /\ RedeemedAreAvailable /\ RewardAppliedOnce
      /\ ledger \in [Friends -> {"none", "available", "redeemed"}]
  BY DEF ReferralInv, TypeOK, RedeemTyped
<1>2. \A c \in Friends : /\ ledger[c] = "redeemed" => ledger'[c] = "redeemed"
                         /\ ledger[c] = "available" =>
                              ledger'[c] = "available" \/ (RedeemCommit /\ c \in redeem.rewards)
  BY LedgerStep
<1>3. NoRedemption \in [step: {"idle", "call", "added"}, rewards: SUBSET Friends]
  BY DEF NoRedemption
<1>4. CASE RedeemBegin
  <2>1. redeem.step = "idle" /\ redeem' = [step |-> "call", rewards |-> Available]
    BY <1>4 DEF RedeemBegin, NoRedemption
  <2>2. UNCHANGED <<faults, applied, ledger>>
    BY <1>4 DEF RedeemBegin
  <2>3. QED
    BY <1>1, <2>1, <2>2
    DEF RedeemTyped, RedeemedAreAvailable, RewardAppliedOnce, Available
<1>5. ASSUME NEW answered \in BOOLEAN, RedeemAdd(answered)
      PROVE  RedeemTyped' /\ RedeemedAreAvailable' /\ RewardAppliedOnce'
  <2>1. /\ redeem.step = "call" /\ UNCHANGED ledger
        /\ applied' = [c \in Friends |-> applied[c] + IF c \in redeem.rewards THEN 1 ELSE 0]
    BY <1>5 DEF RedeemAdd
  <2>2. \A c \in Friends : applied[c] <= faults + IF ledger[c] = "redeemed" THEN 1 ELSE 0
    BY <1>1, <2>1 DEF RewardAppliedOnce
  <2>3. \A c \in Friends : c \in redeem.rewards => applied[c] <= faults
    BY <1>1, <2>1, <2>2 DEF RedeemedAreAvailable, RedeemTyped
  <2>4. applied' \in [Friends -> Nat]
    BY <1>1, <2>1 DEF RedeemTyped
  <2>5. CASE answered
    <3>1. redeem' = [redeem EXCEPT !.step = "added"] /\ UNCHANGED faults
      BY <1>5, <2>5 DEF RedeemAdd
    <3>2. RedeemTyped' /\ RedeemedAreAvailable'
      BY <1>1, <2>1, <2>4, <3>1 DEF RedeemTyped, RedeemedAreAvailable
    <3>3. RewardAppliedOnce'
      BY <1>1, <2>1, <2>2, <2>3, <3>1 DEF RedeemTyped, RewardAppliedOnce
    <3>4. QED
      BY <3>2, <3>3
  <2>6. CASE ~answered
    <3>1. redeem' = NoRedemption /\ faults < MaxFaults /\ faults' = faults + 1
      BY <1>5, <2>6 DEF RedeemAdd
    <3>2. RedeemTyped' /\ RedeemedAreAvailable'
      BY <1>1, <1>3, <2>1, <2>4, <3>1 DEF RedeemTyped, RedeemedAreAvailable, NoRedemption
    <3>3. RewardAppliedOnce'
      BY <1>1, <2>1, <2>2, <2>3, <3>1 DEF RedeemTyped, RewardAppliedOnce, NoRedemption
    <3>4. QED
      BY <3>2, <3>3
  <2>7. QED
    BY <2>5, <2>6
<1>6. CASE RedeemCommit
  <2>1. /\ redeem.step = "added" /\ redeem' = NoRedemption /\ UNCHANGED <<faults, applied>>
        /\ ledger' = [c \in Friends |-> IF c \in redeem.rewards THEN "redeemed" ELSE ledger[c]]
    BY <1>6 DEF RedeemCommit
  <2>2. RedeemTyped' /\ RedeemedAreAvailable'
    BY <1>1, <1>3, <2>1 DEF RedeemTyped, RedeemedAreAvailable, NoRedemption
  <2>3. RewardAppliedOnce'
    BY <1>1, <2>1 DEF RewardAppliedOnce, NoRedemption
  <2>4. QED
    BY <2>2, <2>3
<1>7. CASE RedeemRefused
  <2>1. redeem.step = "call" /\ redeem' = NoRedemption /\ UNCHANGED <<faults, applied, ledger>>
    BY <1>7 DEF RedeemRefused
  <2>2. QED
    BY <1>1, <1>3, <2>1 DEF RedeemTyped, RedeemedAreAvailable, RewardAppliedOnce, NoRedemption
<1>8. CASE RedeemCrash
  <2>1. /\ redeem' = NoRedemption /\ UNCHANGED <<applied, ledger>>
        /\ faults < MaxFaults /\ faults' = faults + 1
    BY <1>8 DEF RedeemCrash
  <2>2. RedeemTyped' /\ RedeemedAreAvailable'
    BY <1>1, <1>3, <2>1 DEF RedeemTyped, RedeemedAreAvailable, NoRedemption
  <2>3. RewardAppliedOnce'
    BY <1>1, <2>1 DEF RedeemTyped, RewardAppliedOnce, NoRedemption
  <2>4. QED
    BY <2>2, <2>3
<1>9. ASSUME UNCHANGED <<applied, redeem>>,
             faults' = faults \/ (faults < MaxFaults /\ faults' = faults + 1)
      PROVE  RedeemTyped' /\ RedeemedAreAvailable' /\ RewardAppliedOnce'
  <2>1. RedeemTyped'
    BY <1>1, <1>9 DEF RedeemTyped
  <2>2. ~RedeemCommit
    BY <1>9 DEF RedeemCommit, NoRedemption
  <2>3. RedeemedAreAvailable'
    BY <1>1, <1>2, <1>9, <2>2 DEF RedeemedAreAvailable
  <2>4. RewardAppliedOnce'
    BY <1>1, <1>2, <1>9 DEF RedeemTyped, RewardAppliedOnce
  <2>5. QED
    BY <2>1, <2>3, <2>4
<1>10. ASSUME NEW o \in OrderIds,
              Award(o) \/ AwardLost(o) \/ Resave(o) \/ ConfirmPayment(o) \/ CloseOrder(o)
              \/ (\E done \in BOOLEAN : CancelAuto(o, done))
              \/ ConfirmAuto(o) \/ (\E auto \in BOOLEAN : BeginApproval(o, auto))
              \/ \E c \in Friends : Place(o, c)
       PROVE  /\ UNCHANGED <<applied, redeem>>
              /\ faults' = faults \/ (faults < MaxFaults /\ faults' = faults + 1)
  BY <1>10
  DEF Award, AwardLost, Resave, ConfirmPayment, CloseOrder, CancelAuto, ConfirmAuto, BeginApproval,
      Place
<1>11. ASSUME (\E c \in Friends : Assign(c) \/ CommitApproval(c) \/ AbortApproval(c))
              \/ UNCHANGED vars
       PROVE  UNCHANGED <<applied, redeem, faults>>
  BY <1>11 DEF Assign, CommitApproval, AbortApproval, vars
<1>12. QED
  BY <1>4, <1>5, <1>6, <1>7, <1>8, <1>9, <1>10, <1>11 DEF Next

-----------------------------------------------------------------------------
(* Referrals and milestones. *)

CountsTyped ==
  /\ referral \in [Friends -> {"none", "registered", "purchased"}]
  /\ reward \in [Friends -> {"none", "available"}]
  /\ milestones \subseteq 1..Cardinality(Friends)
  /\ irregular \subseteq Friends

CountsInv == CountsTyped /\ CountsFresh /\ MilestonesExact

(* A step that leaves the referrals alone and opens no approval. *)
CountsUntouched ==
  /\ UNCHANGED <<referral, reward, milestones, irregular>>
  /\ \A c \in Friends : completing'[c] \in {completing[c], NoApproval}

(* Such a step keeps the counts. *)
LEMMA CountsKept == ASSUME CountsInv, CountsUntouched PROVE CountsInv'
<1>1. Purchased' = Purchased
  BY DEF CountsUntouched, Purchased
<1>2. CountsTyped' /\ MilestonesExact'
  BY <1>1 DEF CountsInv, CountsUntouched, CountsTyped, MilestonesExact
<1>3. CountsFresh'
  BY <1>1 DEF CountsInv, CountsUntouched, CountsFresh, NoApproval
<1>4. QED
  BY <1>2, <1>3 DEF CountsInv

(* Only first purchases change the number of purchases, and one that an    *)
(* open approval has not counted is marked as irregular.                   *)
LEMMA CountsStep == ASSUME ReferralInv, [Next]_vars PROVE CountsInv'
<1>1. CountsInv /\ TypeOK /\ OrdersInv /\ OrdersTyped'
  <2>1. OrdersInv'
    BY OrdersStep
  <2>2. QED
    BY <2>1 DEF CountsInv, CountsTyped, ReferralInv, TypeOK, OrdersInv, OrdersTyped
<1>2. ASSUME NEW c \in Friends, Assign(c) PROVE CountsInv'
  <2>1. /\ referral[c] = "none" /\ referral' = [referral EXCEPT ![c] = "registered"]
        /\ UNCHANGED <<reward, milestones, irregular, completing>>
    BY <1>2 DEF Assign
  <2>2. Purchased' = Purchased
    BY <1>1, <2>1 DEF Purchased, CountsInv, CountsTyped
  <2>3. CountsTyped' /\ MilestonesExact'
    BY <1>1, <2>1, <2>2 DEF CountsInv, CountsTyped, MilestonesExact
  <2>4. CountsFresh'
    BY <1>1, <2>1, <2>2 DEF CountsInv, CountsTyped, CountsFresh
  <2>5. QED
    BY <2>3, <2>4 DEF CountsInv
<1>3. ASSUME NEW c \in Friends, CommitApproval(c) PROVE CountsInv'
  <2>1. Signal(c, completing[c].count) /\ completing' = [completing EXCEPT ![c] = NoApproval]
    BY <1>3 DEF CommitApproval
  <2>2. completing[c].count \in 0..Cardinality(Friends) /\ CountedNow(c, completing[c].count)
    BY <1>1 DEF CountsInv, CountsFresh, CountedNow, OrdersInv, OrdersTyped
  <2>3. completing'[c].count = 0 /\ \A f \in Friends \ {c} : completing'[f] = completing[f]
    BY <1>1, <2>1 DEF OrdersInv, OrdersTyped, NoApproval
  <2>4. QED
    BY <1>1, <2>1, <2>2, <2>3, SignalKeeps DEF CountsInv, CountsTyped, OrdersTyped
<1>4. ASSUME NEW o \in OrderIds, Resave(o) \/ ConfirmAuto(o) PROVE CountsInv'
  <2>1. PICK c \in Friends : c = orders[o].customer
    BY <1>1 DEF OrdersInv, OrdersTyped
  <2>2. Signal(c, Count(c)) /\ completing' = completing /\ completing[c].count = 0
    BY <1>4, <2>1 DEF Resave, ConfirmAuto, Unlocked
  <2>3. Count(c) \in 0..Cardinality(Friends) /\ CountedNow(c, Count(c))
    BY <1>1, CountFound DEF CountedNow
  <2>4. QED
    BY <1>1, <2>2, <2>3, SignalKeeps DEF CountsInv, CountsTyped, OrdersTyped
<1>5. ASSUME NEW o \in OrderIds, NEW auto \in BOOLEAN, BeginApproval(o, auto) PROVE CountsInv'
  <2>1. PICK c \in Friends : c = orders[o].customer
    BY <1>1 DEF OrdersInv, OrdersTyped
  <2>2. /\ completing' = [completing EXCEPT ![c] =
                            [order |-> o, auto |-> auto, count |-> Count(c)]]
        /\ UNCHANGED <<referral, reward, milestones, irregular>>
    BY <1>5, <2>1 DEF BeginApproval
  <2>3. Purchased' = Purchased
    BY <2>2 DEF Purchased
  <2>4. /\ completing'[c].count = Count(c)
        /\ \A f \in Friends \ {c} : completing'[f] = completing[f]
    BY <1>1, <2>2 DEF OrdersInv, OrdersTyped
  <2>5. CountsFresh'
    BY <1>1, <2>2, <2>3, <2>4, CountFound DEF CountsInv, CountsFresh
  <2>6. QED
    BY <1>1, <2>2, <2>3, <2>5 DEF CountsInv, CountsTyped, MilestonesExact
<1>6. ASSUME NEW o \in OrderIds, Award(o) PROVE CountsInv'
  <2>1. PICK c \in Friends : c = orders[o].customer
    BY <1>1 DEF OrdersInv, OrdersTyped
  <2>2. UNCHANGED <<reward, milestones, completing>>
    BY <1>6 DEF Award
  <2>3. CASE UNCHANGED <<referral, irregular>>
    BY <1>1, <2>2, <2>3, CountsKept DEF CountsUntouched
  <2>4. CASE referral' = [referral EXCEPT ![c] = "purchased"] /\ referral[c] # "registered"
             /\ referral[c] # "none" /\ irregular' = irregular
    <3>1. referral' = referral
      BY <1>1, <2>4 DEF CountsInv, CountsTyped
    <3>2. QED
      BY <1>1, <2>2, <2>4, <3>1, CountsKept DEF CountsUntouched
  <2>5. CASE referral' = [referral EXCEPT ![c] = "purchased"] /\ irregular' = irregular \cup {c}
    <3>1. CountsTyped'
      BY <1>1, <2>2, <2>5 DEF CountsInv, CountsTyped
    <3>2. irregular' # {}
      BY <2>5
    <3>3. QED
      BY <3>1, <3>2 DEF CountsInv, CountsFresh, MilestonesExact
  <2>6. QED
    BY <1>6, <2>1, <2>3, <2>4, <2>5 DEF Award, Earns
<1>7. ASSUME NEW o \in OrderIds,
             \/ AwardLost(o) \/ ConfirmPayment(o) \/ CloseOrder(o)
             \/ \E done \in BOOLEAN : CancelAuto(o, done)
             \/ \E c \in Friends : Place(o, c)
      PROVE  CountsUntouched
  BY <1>7 DEF CountsUntouched, AwardLost, ConfirmPayment, CloseOrder, CancelAuto, Place
<1>8. ASSUME NEW c \in Friends, AbortApproval(c) PROVE CountsUntouched
  BY <1>1, <1>8 DEF CountsUntouched, AbortApproval, OrdersInv, OrdersTyped
<1>9. ASSUME (\E answered \in BOOLEAN : RedeemAdd(answered))
             \/ RedeemBegin \/ RedeemRefused \/ RedeemCommit \/ RedeemCrash \/ UNCHANGED vars
      PROVE  CountsUntouched
  BY <1>9
  DEF CountsUntouched, RedeemAdd, RedeemBegin, RedeemRefused, RedeemCommit, RedeemCrash, vars
<1>10. QED
  BY <1>1, <1>2, <1>3, <1>4, <1>5, <1>6, <1>7, <1>8, <1>9, CountsKept DEF Next
-----------------------------------------------------------------------------
(* The invariant. *)

(* Nothing has been bought, earned or counted yet. *)
LEMMA InvInit == Init => ReferralInv
<1> SUFFICES ASSUME Init PROVE ReferralInv
  OBVIOUS
<1>1. Purchased = {} /\ Cardinality(Purchased) = 0
  BY PurchasedCount, FS_EmptySet DEF Init, Purchased
<1>2. /\ NoApproval \in [order: OrderIds \cup {0}, auto: BOOLEAN, count: 0..Cardinality(Friends)]
      /\ NoApproval.count = 0
  BY PurchasedCount DEF NoApproval
<1>3. TypeOK
  BY <1>2, PurchasedCount DEF Init, TypeOK, NoOrder, NoRedemption
<1>4. ApprovalsLocked /\ ReviewFollowsApproval /\ RedeemedAreAvailable
  BY DEF Init, ApprovalsLocked, ReviewFollowsApproval, RedeemedAreAvailable, NoRedemption
<1>5. CountsFresh
  BY <1>2 DEF Init, CountsFresh
<1>6. LedgerNeedsCheckedPayment /\ RewardAppliedOnce
  BY DEF Init, LedgerNeedsCheckedPayment, RewardAppliedOnce, NoRedemption
<1>7. MilestonesExact
  BY <1>1 DEF Init, MilestonesExact
<1>8. QED
  BY <1>3, <1>4, <1>5, <1>6, <1>7 DEF ReferralInv

(* Every step keeps the invariant: each part by its own lemma. *)
LEMMA InvStep == ReferralInv /\ [Next]_vars => ReferralInv'
<1> SUFFICES ASSUME ReferralInv, [Next]_vars PROVE ReferralInv'
  OBVIOUS
<1>1. OrdersInv'
  BY OrdersStep
<1>2. ledger' \in [Friends -> {"none", "available", "redeemed"}] /\ LedgerNeedsCheckedPayment'
  BY LedgerStep
<1>3. RedeemTyped' /\ RedeemedAreAvailable' /\ RewardAppliedOnce'
  BY RedeemStep
<1>4. CountsInv'
  BY CountsStep
<1>5. applied' \in [Friends -> 0..(MaxFaults + 1)]
  <2>1. applied' \in [Friends -> Nat] /\ faults' \in 0..MaxFaults
    BY <1>3 DEF RedeemTyped
  <2>2. \A c \in Friends : applied'[c] <= faults' + 1
    BY <1>3, <2>1 DEF RewardAppliedOnce
  <2>3. QED
    BY <2>1, <2>2
<1>6. TypeOK'
  BY <1>1, <1>2, <1>3, <1>4, <1>5 DEF TypeOK, OrdersInv, OrdersTyped, RedeemTyped, CountsInv, CountsTyped
<1>7. QED
  BY <1>1, <1>2, <1>3, <1>4, <1>6 DEF ReferralInv, OrdersInv, CountsInv

-----------------------------------------------------------------------------
(* The theorems. *)

(* Every behaviour of the referral program stays well typed; in particular *)
(* no reward is added more often than faults allow.                        *)
THEOREM TypeCorrect == Spec => []TypeOK
<1>1. ReferralInv => TypeOK
  BY DEF ReferralInv
<1>2. QED
  BY InvInit, InvStep, <1>1, PTL DEF Spec

(* A ledger entry needs a payment that staff have checked, in whatever     *)
(* order approvals, awards, reconciliations and cancellations, complete or *)
(* failed, run (create_referral_reward_for_order).                         *)
THEOREM LedgerNeedsCheckedPaymentAlways == Spec => []LedgerNeedsCheckedPayment
<1>1. ReferralInv => LedgerNeedsCheckedPayment
  BY DEF ReferralInv
<1>2. QED
  BY InvInit, InvStep, <1>1, PTL DEF Spec

(* The panel gets a reward once, and once more for each lost answer or     *)
(* crash (redeem_referral_rewards).                                        *)
THEOREM RewardAppliedOnceAlways == Spec => []RewardAppliedOnce
<1>1. ReferralInv => RewardAppliedOnce
  BY DEF ReferralInv
<1>2. QED
  BY InvInit, InvStep, <1>1, PTL DEF Spec

(* Free plans come exactly at the multiples of the milestone, as long as   *)
(* no two first purchases overlap (process_referral_purchase).   *)
THEOREM MilestonesExactAlways == Spec => []MilestonesExact
<1>1. ReferralInv => MilestonesExact
  BY DEF ReferralInv
<1>2. QED
  BY InvInit, InvStep, <1>1, PTL DEF Spec
=============================================================================
