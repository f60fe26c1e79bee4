------------------------------ MODULE DeployDB ------------------------------
(***************************************************************************)
(* The deployments and builds tables, as the API, the workers and the      *)
(* controller write them.  Every statement that touches a deployment       *)
(* addresses it by id and none of them looks at the state it overwrites:   *)
(* StateMachine.update_state is an unconditional UPDATE, which touches no  *)
(* row, and raises nothing, when the row is gone.                          *)
(***************************************************************************)
EXTENDS Infra

VARIABLES row,           \* state column, or why there is no row
          builds         \* build results recorded for the deployment

dbVars == <<row, builds>>

(* The states the code writes.  state_machine.py also names Verifying,    *)
(* Retry and DLQ, which no statement of the repository ever writes.       *)
DeploymentStates == {"Queued", "Building", "Deploying", "Running", "Failed"}
RowStates == DeploymentStates \cup {"absent", "deleted"}
BuildResults == {"Success", "Failed"}

DBTypeOK == /\ row \in [Deployments -> RowStates]
            /\ builds \in [Deployments -> SUBSET BuildResults]

DBInit == /\ row = [d \in Deployments |-> "absent"]
          /\ builds = [d \in Deployments |-> {}]

Exists(d) == row[d] \in DeploymentStates

(* INSERT INTO deployments ... 'Queued'  *)
InsertDeployment(d) == /\ row[d] = "absent"
                       /\ row' = [row EXCEPT ![d] = "Queued"]
                       /\ UNCHANGED builds

(* UPDATE deployments SET state = s WHERE deployment_id = d  *)
SetState(d, s) == /\ row' = [row EXCEPT ![d] = IF Exists(d) THEN s ELSE @]
                  /\ UNCHANGED builds

(* INSERT INTO builds: the foreign key refuses it when the deployment is   *)
(* gone, and record_build swallows that error and every other.             *)
RecordBuild(d, result) ==
    /\ \/ /\ builds' = [builds EXCEPT ![d] = IF Exists(d) THEN @ \cup {result} ELSE @]
          /\ NoFault \/ Fault
       \/ Fault /\ UNCHANGED builds
    /\ UNCHANGED row

(* DELETE FROM projects: the foreign keys cascade to its deployments and   *)
(* their builds.                                                           *)
DeleteDeployments(ds) ==
    /\ row' = [d \in Deployments |-> IF d \in ds /\ Exists(d) THEN "deleted" ELSE row[d]]
    /\ builds' = [d \in Deployments |-> IF d \in ds THEN {} ELSE builds[d]]
=============================================================================
