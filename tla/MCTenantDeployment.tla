------------------------- MODULE MCTenantDeployment -------------------------
(* The careful specification, with two tenants that are deployed: two of   *)
(* the toolkit, or one of each kind and then with fewer other events.      *)
EXTENDS TenantDeployment
CONSTANTS a, b, h, ca, cb, ch
VARIABLE active

MCTenantOf == [c \in Commands |-> IF c = ca THEN a ELSE IF c = cb THEN b ELSE h]

MCInit == DeploymentInit /\ active \in {{a, b}, {a, h}}
MCNext ==
  /\ CarefulNext
  /\ \A t \in Tenants \ active : ~Deploying(t)'
  /\ h \in active => ops' + failures' < 3
  /\ UNCHANGED active

MCSpec == MCInit /\ [][MCNext]_<<deploymentVars, active>>
=============================================================================
