------------------------------- MODULE Infra -------------------------------
(***************************************************************************)
(* What the pipeline and the tenant platform share: the deployments, and   *)
(* an environment in which calls raise and pods are killed.                *)
(***************************************************************************)
EXTENDS Faults

CONSTANT Deployments     \* deployment ids; a message of the deploy stream
                         \* carries one, and no two messages the same
=============================================================================
