----------------------------- MODULE MCDelivery -----------------------------
(* The deliveries and the free trials share no state: focus says which     *)
(* ones a behaviour is about.                                              *)
EXTENDS Delivery, TLC
CONSTANTS d, r, g, h1, h2
VARIABLE focus

MCPrimary == <<"panel", "stock">>
MCFallback == <<"reserve">>
MCRules == <<"rule", "stock rule", "shared rule">>
MCRuleMode == [s \in Sources |-> IF s = "shared rule" THEN "unlimited" ELSE "limited"]
MCQuantity == [s \in Sources |-> IF s = "shared rule" THEN 2 ELSE 1]

MCInit ==
  /\ GivingInit
  /\ focus \in {"orders", "staff", "trial"} /\ (focus # "trial" => known)

(* A delivery next to one by recipe, which the process may leave open, or  *)
(* next to staff.                                                          *)
MCNext ==
  /\ \/ /\ focus \in {"orders", "staff"} /\ DeliveryStep
        /\ focus = "orders" => edits' = 0 /\ order'[g].status = "none"
        /\ focus = "staff" => ~tx'[r].open /\ deliveryFaults' = 0
     \/ focus = "trial" /\ TrialStep
  /\ UNCHANGED focus

MCSpec == MCInit /\ [][MCNext]_<<givingVars, focus>>

Symmetry == Permutations(Assets) \cup Permutations(TrialHandlers)
=============================================================================
