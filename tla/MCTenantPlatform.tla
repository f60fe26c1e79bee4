-------------------------- MODULE MCTenantPlatform --------------------------
(* Instances of TenantPlatform for TLC.  *)
EXTENDS TenantPlatform

CONSTANTS d1, d2, p1, p2, n1

OneProject == [d \in Deployments |-> p1]
EachProject == [d \in Deployments |-> IF d = d1 THEN p1 ELSE p2]
OneNamespace == [d \in Deployments |-> n1]
OneHome == [p \in Projects |-> n1]
=============================================================================
