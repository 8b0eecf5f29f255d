-------------------------- MODULE MCPaymentMatching --------------------------
EXTENDS PaymentMatching, TLC
CONSTANTS r1, r2, a, b, bonus, i1, i2
MCProcessOf == (r1 :> 1) @@ (r2 :> 2)
MCMaxUsage == (bonus :> 1)
MCOwner == (bonus :> a)
MCPriority == (i1 :> 1) @@ (i2 :> 2)

(* The SMS multiplies the states of the checkout: it is explored next to   *)
(* one handler's checkouts without codes, faults and interventions, and    *)
(* these without it.                                                       *)
VARIABLE focus
MCInit ==
  /\ Init /\ focus \in {"checkout", "sms"}
  /\ inbounds[i2].users = 0 /\ (focus = "sms" => inbounds[i1].users = 0)
CheckoutOnly == focus = "checkout" /\ CheckoutNext /\ UNCHANGED <<smsVars, focus>>
WithSms ==
  /\ focus = "sms" /\ Next /\ UNCHANGED focus
  /\ faults' = 0 /\ staff' = 0 /\ req'[r2] = Idle /\ req'[r1].code = NoCode
MCNext == CheckoutOnly \/ WithSms
MCSpec == MCInit /\ [][MCNext]_<<checkoutVars, smsVars, focus>>
=============================================================================
