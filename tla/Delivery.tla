------------------------------ MODULE Delivery ------------------------------
(***************************************************************************)
(* What customers are given, bought or for trial: the deliveries from the  *)
(* inventory and the free trials, which share no state.                    *)
(***************************************************************************)
EXTENDS PlanDelivery, FreeTrial

givingVars == <<deliveryVars, trialVars>>

GivingInit == DeliveryInit /\ TrialInit

DeliveryStep == DeliveryNext /\ UNCHANGED trialVars
TrialStep == TrialNext /\ UNCHANGED deliveryVars

GivingSpec == GivingInit /\ [][DeliveryStep \/ TrialStep]_givingVars

(* Orders, stock, staff pages and trial requests have their types. *)
TypeOK == DeliveryTypeOK /\ TrialTypeOK
=============================================================================
