----------------------------- MODULE MCReferral -----------------------------
(* One fault, or one order that is closed or cancelled.  Friends are       *)
(* symmetric: nothing reads the customer of an order that is not placed.   *)
EXTENDS Referral, TLC
Ended(o) == orders[o].status = "closed" \/ review[o] = "cancel_failed"
MCNext == Next /\ faults' + Cardinality({o \in OrderIds : Ended(o)'}) <= 1
MCSpec == Init /\ [][MCNext]_vars
Symmetry == Permutations(Friends)
=============================================================================
