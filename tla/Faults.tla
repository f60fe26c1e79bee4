------------------------------- MODULE Faults ------------------------------
(***************************************************************************)
(* What the environment may do to the programs: a call to PostgreSQL,      *)
(* Redis or the Kubernetes API may raise, and a pod may be killed between  *)
(* any two steps.  Both happen finitely often: MaxFaults and MaxCrashes    *)
(* bound the failed calls and the killed pods of one behaviour (bounds of  *)
(* the checked instances, not of the system).                              *)
(***************************************************************************)
EXTENDS Naturals

CONSTANTS MaxFaults, MaxCrashes

ASSUME BudgetAssumption == MaxFaults \in Nat /\ MaxCrashes \in Nat

VARIABLES faults,        \* calls that have raised so far
          crashes        \* pods killed so far

infraVars == <<faults, crashes>>

InfraTypeOK == faults \in 0..MaxFaults /\ crashes \in 0..MaxCrashes

InfraInit == faults = 0 /\ crashes = 0

(* A call raises; it may have taken effect all the same.  *)
Fault == faults < MaxFaults /\ faults' = faults + 1 /\ UNCHANGED crashes

(* A pod is killed.  *)
Crash == crashes < MaxCrashes /\ crashes' = crashes + 1 /\ UNCHANGED faults

(* Every call of the step answers.  *)
NoFault == UNCHANGED infraVars
=============================================================================
