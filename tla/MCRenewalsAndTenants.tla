------------------------ MODULE MCRenewalsAndTenants ------------------------
(* Renewals and tenants share no state: a behaviour is about the           *)
(* deployment of two active tenants or, when there are none, about the     *)
(* renewals.  Time passes and staff edit the client while not both orders  *)
(* are open.                                                               *)
EXTENDS MCRenewal, MCTenantDeployment

BothInit ==
  /\ Init /\ DeploymentInit /\ active \in {{}, {a, b}, {a, h}}
  /\ expiry = 0 /\ (active # {} => matches)
RenewalStep ==
  /\ active = {} /\ Next /\ UNCHANGED <<deploymentVars, active>>
  /\ now' + edits' + Cardinality({o \in Orders : status'[o] = "open"}) <= 2
TenantStep == active # {} /\ MCNext /\ UNCHANGED vars
BothSpec == BothInit /\ [][RenewalStep \/ TenantStep]_<<vars, deploymentVars, active>>
=============================================================================
