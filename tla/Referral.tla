------------------------------ MODULE Referral ------------------------------
(***************************************************************************)
(* Rewards for an inviter: the discount code and the milestone plan that   *)
(* the post_save signal of a completed order gives, inside the approval's  *)
(* transaction; the ledger entry that create_referral_reward_for_order     *)
(* writes in a transaction of its own, after the approval or when an       *)
(* automatic approval is reconciled; and its redemption, which changes the *)
(* panel before it commits.                                                *)
(***************************************************************************)
EXTENDS Naturals, FiniteSets

CONSTANTS
  Friends,      \* customers who may use the inviter's code
  Milestone,    \* FREE_PLAN_REFERRAL_MILESTONE
  MaxOrders,    \* bound on the orders of all of them
  MaxFaults     \* bound on crashes and lost answers

OrderIds == 1..MaxOrders

ASSUME ReferralAssumption ==
  /\ Milestone \in Nat \ {0} /\ MaxOrders \in Nat /\ MaxFaults \in Nat
  /\ Friends # {} /\ IsFiniteSet(Friends)

VARIABLES
  orders,       \* Order rows of the friends
  faults,
  referral,     \* Referral row of each friend
  reward,       \* CustomerReward (20% code) for each friend's purchase
  milestones,   \* CustomerReward (free plan) rows
  completing,   \* approval transactions that are open
  review,       \* how each order was approved; reconciliation of automatic ones
  checked,      \* history: orders whose payment somebody has checked
  awards,       \* orders whose create_referral_reward_for_order is still to come
  ledger,       \* ReferralRewardLedger row of each friend
  redeem,       \* the redemption under way
  applied,      \* times a friend's reward was added on the panel
  irregular     \* friends whose referral became PURCHASED outside the signal,
                \* or while another friend's was becoming so

vars == <<orders, faults, referral, reward, milestones, completing, review, checked, awards,
          ledger, redeem, applied, irregular>>
reviews == <<review, checked>>

NoOrder == [status |-> "none", customer |-> CHOOSE c \in Friends : TRUE]
NoApproval == [order |-> 0, auto |-> FALSE, count |-> 0]
NoRedemption == [step |-> "idle", rewards |-> {}]

Init ==
  /\ orders = [o \in OrderIds |-> NoOrder] /\ faults = 0
  /\ referral = [c \in Friends |-> "none"]
  /\ reward = [c \in Friends |-> "none"]
  /\ milestones = {}
  /\ completing = [c \in Friends |-> NoApproval]
  /\ review = [o \in OrderIds |-> "none"] /\ checked = {}
  /\ awards = {}
  /\ ledger = [c \in Friends |-> "none"]
  /\ redeem = NoRedemption
  /\ applied = [c \in Friends |-> 0]
  /\ irregular = {}

(* Orders whose rows an open approval has locked. *)
BeingCompleted == {completing[c].order : c \in Friends}

(* A checkout, a confirmation by SMS (modules Checkout, PaymentMatching). *)
Place(o, c) ==
  /\ orders[o].status = "none" /\ \A p \in 1..(o - 1) : orders[p].status # "none"
  /\ orders' = [orders EXCEPT ![o] = [status |-> "pending", customer |-> c]]
  /\ UNCHANGED <<faults, referral, reward, milestones, completing, reviews, awards, ledger,
                 redeem, applied, irregular>>

ConfirmPayment(o) ==
  /\ orders[o].status = "pending" /\ o \notin BeingCompleted
  /\ orders' = [orders EXCEPT ![o].status = "confirmed"]
  /\ UNCHANGED <<faults, referral, reward, milestones, completing, reviews, awards, ledger,
                 redeem, applied, irregular>>

(* assign_referrer *)
Assign(c) ==
  /\ referral[c] = "none"
  /\ referral' = [referral EXCEPT ![c] = "registered"]
  /\ UNCHANGED <<orders, faults, reward, milestones, completing, reviews, awards,
                 ledger, redeem, applied, irregular>>

-----------------------------------------------------------------------------
(* Approval, and the signal process_referral_purchase inside it. *)

Purchased == {c \in Friends : referral[c] = "purchased"}
Registered(c) == referral[c] # "none"

(* Mutant: the friend is counted again at a later purchase. *)
CountAgain(c) == IF Registered(c) THEN Cardinality(Purchased) + 1 ELSE 0

Count(c) == IF Registered(c) THEN Cardinality(Purchased \cup {c}) ELSE 0

(* The friend's referral row is locked; the purchases are counted as the   *)
(* transaction sees them.  Zero: the customer was not invited.             *)
BeginApproval(o, auto) ==
  LET c == orders[o].customer IN
  /\ orders[o].status \in (IF auto THEN {"pending"} ELSE {"pending", "confirmed"})
  /\ completing[c] = NoApproval
  /\ completing' = [completing EXCEPT ![c] =
       [order |-> o, auto |-> auto,
        count |-> Count(c)]]
  /\ UNCHANGED <<orders, faults, referral, reward, milestones, reviews, awards,
                 ledger, redeem, applied, irregular>>

(* Mutant: the count does not include the purchase itself. *)
MilestonesEarly(count) == {n \in {count} : n > 0 /\ (n + 1) % Milestone = 0}

(* create_free_plan_reward *)
MilestoneReached(count) == {n \in {count} : n > 0 /\ n % Milestone = 0}

FirstPurchase(c, count) == count > 0 /\ referral[c] = "registered"
Overlaps(c) ==
  \E f \in Friends \ {c} : completing[f].count > 0 /\ referral[f] = "registered"

(* process_referral_purchase, with create_referral_discount_reward. *)
Signal(c, count) ==
  /\ IF FirstPurchase(c, count)
       THEN /\ referral' = [referral EXCEPT ![c] = "purchased"]
            /\ reward' = [reward EXCEPT ![c] = "available"]
            /\ irregular' = IF Overlaps(c) THEN irregular \cup {c} ELSE irregular
       ELSE UNCHANGED <<referral, reward, irregular>>
  /\ milestones' = milestones \cup MilestoneReached(count)

CommitApproval(c) ==
  LET o == completing[c].order IN
  /\ completing[c] # NoApproval
  /\ orders' = [orders EXCEPT ![o].status = "completed"]
  /\ review' = [review EXCEPT ![o] = IF completing[c].auto THEN "pending" ELSE "staff"]
  /\ checked' = IF completing[c].auto THEN checked ELSE checked \cup {o}
  /\ Signal(c, completing[c].count)
  /\ awards' = awards \cup {o}
  /\ completing' = [completing EXCEPT ![c] = NoApproval]
  /\ UNCHANGED <<faults, ledger, redeem, applied>>

(* The referral row of a completed order's customer is not locked. *)
Unlocked(c) == completing[c].count = 0

(* Any later save of a completed order fires the signal again. *)
Resave(o) ==
  /\ orders[o].status = "completed"
  /\ Unlocked(orders[o].customer)
  /\ Signal(orders[o].customer, Count(orders[o].customer))
  /\ UNCHANGED <<orders, faults, completing, reviews, awards, ledger, redeem, applied>>

(* Provisioning failed: the transaction is rolled back. *)
AbortApproval(c) ==
  /\ completing[c] # NoApproval
  /\ completing' = [completing EXCEPT ![c] = NoApproval]
  /\ UNCHANGED <<orders, faults, referral, reward, milestones, reviews, awards,
                 ledger, redeem, applied, irregular>>

(* An order is rejected or cancelled.  cancel_order does not look at the   *)
(* status: an order completed after the bot's own look is cancelled, too.  *)
CloseOrder(o) ==
  /\ orders[o].status \in {"pending", "confirmed", "completed"} /\ o \notin BeingCompleted
  /\ orders' = [orders EXCEPT ![o].status = "closed"]
  /\ UNCHANGED <<faults, referral, reward, milestones, completing, reviews, awards, ledger, redeem,
                 applied, irregular>>

(* cancel_auto_approved_order: also after the reconciliation, and again    *)
(* after a cancellation that did not reach every panel.  Rewards stay.     *)
CancelAuto(o, done) ==
  /\ review[o] \in {"pending", "verified", "cancel_failed"}
  /\ IF done THEN /\ orders' = [orders EXCEPT ![o].status = "closed"]
                  /\ review' = [review EXCEPT ![o] = "cancelled"]
             ELSE review' = [review EXCEPT ![o] = "cancel_failed"] /\ UNCHANGED orders
  /\ UNCHANGED <<faults, referral, reward, milestones, completing, checked, awards, ledger, redeem,
                 applied, irregular>>

-----------------------------------------------------------------------------
(* The ledger. *)

Earlier(o) == {p \in OrderIds \ {o} : orders[p].status = "completed"
                                      /\ orders[p].customer = orders[o].customer}

(* Mutant: the reconciliation is not waited for. *)
EarnsAtOnce(o, allowed) ==
  orders[o].status = "completed"
  /\ referral[orders[o].customer] # "none" /\ ledger[orders[o].customer] = "none"

(* The early returns of create_referral_reward_for_order, with             *)
(* referral_min_order_required set.                                        *)
Earns(o, allowed) ==
  /\ orders[o].status = "completed" /\ allowed
  /\ referral[orders[o].customer] # "none"
  /\ Earlier(o) = {} /\ ledger[orders[o].customer] = "none"

WriteLedger(o) == ledger' = [ledger EXCEPT ![orders[o].customer] = "available"]

(* The call that follows an approval; the referral becomes PURCHASED if    *)
(* the signal has not made it so.                                          *)
Award(o) ==
  LET c == orders[o].customer IN
  /\ o \in awards
  /\ awards' = awards \ {o}
  /\ \/ /\ Earns(o, review[o] \in {"staff", "verified"})
        /\ Unlocked(c) /\ WriteLedger(o)
        /\ referral' = [referral EXCEPT ![c] = "purchased"]
        /\ irregular' = IF referral[c] = "registered" THEN irregular \cup {c} ELSE irregular
     \/ /\ ~Earns(o, review[o] \in {"staff", "verified"})
        /\ UNCHANGED <<ledger, referral, irregular>>
  /\ UNCHANGED <<orders, faults, reward, milestones, completing, reviews, redeem, applied>>

(* The process dies after the approval has committed. *)
AwardLost(o) ==
  /\ o \in awards /\ faults < MaxFaults
  /\ awards' = awards \ {o}
  /\ faults' = faults + 1
  /\ UNCHANGED <<orders, referral, reward, milestones, completing, reviews, ledger, redeem, applied,
                 irregular>>

(* confirm_auto_payment: its save fires the signal, then the reward is     *)
(* written in the same transaction.                                        *)
ConfirmAuto(o) ==
  LET c == orders[o].customer IN
  /\ orders[o].status = "completed" /\ review[o] = "pending" /\ Unlocked(c)
  /\ review' = [review EXCEPT ![o] = "verified"] /\ checked' = checked \cup {o}
  /\ Signal(c, Count(c))
  /\ IF Earns(o, TRUE) THEN WriteLedger(o) ELSE UNCHANGED ledger
  /\ UNCHANGED <<orders, faults, completing, awards, redeem, applied>>

-----------------------------------------------------------------------------
(* redeem_referral_rewards, with the client's and the ledger's rows locked *)
(* throughout: one redemption at a time.                                   *)

Available == {c \in Friends : ledger[c] = "available"}

RedeemBegin ==
  /\ redeem = NoRedemption /\ Available # {}
  /\ redeem' = [step |-> "call", rewards |-> Available]
  /\ UNCHANGED <<orders, faults, referral, reward, milestones, completing, reviews,
                 awards, ledger, applied, irregular>>

(* add_client_traffic: the panel adds them; the answer may be lost. *)
RedeemAdd(answered) ==
  /\ redeem.step = "call"
  /\ applied' = [c \in Friends |-> applied[c] + IF c \in redeem.rewards THEN 1 ELSE 0]
  /\ \/ /\ answered /\ redeem' = [redeem EXCEPT !.step = "added"] /\ UNCHANGED faults
     \/ /\ ~answered /\ faults < MaxFaults
        /\ faults' = faults + 1 /\ redeem' = NoRedemption
  /\ UNCHANGED <<orders, referral, reward, milestones, completing, reviews, awards, ledger, irregular>>

(* The panel refuses. *)
RedeemRefused ==
  /\ redeem.step = "call"
  /\ redeem' = NoRedemption
  /\ UNCHANGED <<orders, faults, referral, reward, milestones, completing, reviews,
                 awards, ledger, applied, irregular>>

(* Mutant: the ledger is not updated. *)
RedeemForgets ==
  /\ redeem.step = "added"
  /\ redeem' = NoRedemption
  /\ UNCHANGED <<orders, faults, referral, reward, milestones, completing, reviews,
                 awards, ledger, applied, irregular>>

RedeemCommit ==
  /\ redeem.step = "added"
  /\ ledger' = [c \in Friends |-> IF c \in redeem.rewards THEN "redeemed" ELSE ledger[c]]
  /\ redeem' = NoRedemption
  /\ UNCHANGED <<orders, faults, referral, reward, milestones, completing, reviews,
                 awards, applied, irregular>>

RedeemCrash ==
  /\ redeem.step # "idle" /\ faults < MaxFaults
  /\ redeem' = NoRedemption
  /\ faults' = faults + 1
  /\ UNCHANGED <<orders, referral, reward, milestones, completing, reviews, awards, ledger, applied,
                 irregular>>

Next ==
  \/ \E c \in Friends : Assign(c) \/ CommitApproval(c) \/ AbortApproval(c)
  \/ \E o \in OrderIds :
       \/ \E c \in Friends : Place(o, c)
       \/ \E auto \in BOOLEAN : BeginApproval(o, auto)
       \/ \E done \in BOOLEAN : CancelAuto(o, done)
       \/ ConfirmPayment(o) \/ CloseOrder(o) \/ Award(o) \/ AwardLost(o)
       \/ ConfirmAuto(o) \/ Resave(o)
  \/ \E answered \in BOOLEAN : RedeemAdd(answered)
  \/ RedeemBegin \/ RedeemRefused \/ RedeemCommit \/ RedeemCrash

Spec == Init /\ [][Next]_vars

TypeOK ==
  /\ orders \in [OrderIds -> [status: {"none", "pending", "confirmed", "completed", "closed"},
                              customer: Friends]]
  /\ faults \in 0..MaxFaults
  /\ referral \in [Friends -> {"none", "registered", "purchased"}]
  /\ reward \in [Friends -> {"none", "available"}]
  /\ milestones \subseteq 1..Cardinality(Friends)
  /\ completing \in [Friends -> [order: OrderIds \cup {0}, auto: BOOLEAN,
                                 count: 0..Cardinality(Friends)]]
  /\ review \in [OrderIds -> {"none", "staff", "pending", "verified", "cancel_failed", "cancelled"}]
  /\ checked \subseteq OrderIds /\ awards \subseteq OrderIds /\ irregular \subseteq Friends
  /\ ledger \in [Friends -> {"none", "available", "redeemed"}]
  /\ redeem \in [step: {"idle", "call", "added"}, rewards: SUBSET Friends]
  /\ applied \in [Friends -> 0..(MaxFaults + 1)]

-----------------------------------------------------------------------------
(* Properties. *)

Checked(c) == \E o \in checked : orders[o].customer = c

(* Traffic is earned by a payment somebody has checked: no interleaving of *)
(* automatic approval, late award, reconciliation and cancellation gives a *)
(* ledger entry for receipts that nobody has ever reconciled               *)
(* (create_referral_reward_for_order).  A cancellation after the check     *)
(* does not take the entry back.                                           *)
LedgerNeedsCheckedPayment == \A c \in Friends : ledger[c] # "none" => Checked(c)

(* The panel gets a reward once, but for the calls whose answer or commit  *)
(* a fault has lost (redeem_referral_rewards).                             *)
RewardAppliedOnce ==
  \A c \in Friends :
    applied[c] <= faults + IF ledger[c] = "redeemed"
                              \/ (redeem.step = "added" /\ c \in redeem.rewards)
                           THEN 1 ELSE 0

(* Every Milestone-th friend earns the free plan, and only these do, when  *)
(* no two friends' first purchases overlap and no referral was marked      *)
(* PURCHASED by the award instead of the signal.                           *)
MilestonesExact ==
  irregular = {} =>
    milestones = {n \in 1..Cardinality(Purchased) : n % Milestone = 0}

(* docs/ORDER_AUTOMATION.md: referral rewards are withheld until the human *)
(* check of an automatic approval succeeds.                                *)
RewardsWithheld == \A c \in Friends : reward[c] # "none" => Checked(c)

-----------------------------------------------------------------------------
(* The inductive invariant. *)

(* An open approval is of an open order of its customer, whose row it has  *)
(* locked.                                                                 *)
ApprovalsLocked ==
  \A c \in Friends : completing[c] # NoApproval =>
    /\ completing[c].order \in OrderIds
    /\ orders[completing[c].order].customer = c
    /\ orders[completing[c].order].status \in {"pending", "confirmed"}

(* An order that is not completed yet has no review, so that no approval   *)
(* replaces one; a review that lets the reward through was a check.        *)
ReviewFollowsApproval ==
  \A o \in OrderIds :
    /\ orders[o].status \in {"none", "pending", "confirmed"} => review[o] = "none" /\ o \notin checked
    /\ review[o] \in {"staff", "verified"} => o \in checked

(* The rewards of a redemption under way stay available: their rows are    *)
(* locked.                                                                 *)
RedeemedAreAvailable ==
  \A c \in Friends : redeem.step # "idle" /\ c \in redeem.rewards => ledger[c] = "available"

(* The purchases an open approval has counted are still those there are,   *)
(* as long as nothing overlaps.                                            *)
CountsFresh ==
  irregular = {} => \A c \in Friends : completing[c].count > 0 =>
    \/ referral[c] = "registered" /\ completing[c].count = Cardinality(Purchased) + 1
    \/ referral[c] = "purchased" /\ completing[c].count <= Cardinality(Purchased)

ReferralInv ==
  /\ TypeOK /\ ApprovalsLocked /\ ReviewFollowsApproval /\ RedeemedAreAvailable /\ CountsFresh
  /\ LedgerNeedsCheckedPayment /\ RewardAppliedOnce /\ MilestonesExact
=============================================================================
