----------------------------- MODULE EnvSecret ------------------------------
(***************************************************************************)
(* The secret shipzen/project/<id> in AWS Secrets Manager, which holds all *)
(* environment variables of a project.  It is read and written whole.  A   *)
(* variable's value is named after the user who put it.                    *)
(***************************************************************************)
EXTENDS Accounts

CONSTANT Keys

VARIABLES made,          \* the secret has been created
          secret         \* the value of each variable, or none

secretVars == <<made, secret>>

Dicts == [Keys -> Users \cup {"none"}]

Empty == [k \in Keys |-> "none"]

SecretTypeOK == made \in BOOLEAN /\ secret \in Dicts

SecretInit == made = FALSE /\ secret = Empty

(* update_secret and create_secret; each raises in the other's case.  *)
UpdateSecret(d) == made /\ secret' = d /\ UNCHANGED made
CreateSecret(d) == ~made /\ made' = TRUE /\ secret' = d
=============================================================================
