----------------------------- MODULE ProjectsDB -----------------------------
(***************************************************************************)
(* The projects table and the two API handlers that write it, with the     *)
(* deployments table it cascades to.  As everywhere in this code an UPDATE *)
(* addresses the row by id and does not look at the status it overwrites;  *)
(* it touches nothing when the row is gone.                                *)
(***************************************************************************)
EXTENDS DeployDB

CONSTANTS Projects,
          ProjectOf,     \* the project a deployment belongs to
          MaxWrites      \* bound on the writes of the deploy pipeline

ASSUME ProjectAssumption == /\ ProjectOf \in [Deployments -> Projects]
                            /\ MaxWrites \in Nat

VARIABLES status,        \* status column, or why there is no row
          deletedAt,     \* whether deleted_at is set, that is whether a
                         \* delete request was ever accepted
          deleting,      \* whether a delete request has passed its access
                         \* check and not yet done its UPDATE
          writes         \* writes of the deploy pipeline so far

projectVars == <<status, deletedAt, deleting, writes>>

ProjectStatus == {"Provisioning", "Ready", "Terminating", "Failed"}

ProjectsTypeOK == /\ status \in [Projects -> ProjectStatus \cup {"absent", "gone"}]
                  /\ deletedAt \in [Projects -> BOOLEAN]
                  /\ deleting \in [Projects -> BOOLEAN]
                  /\ writes \in 0..MaxWrites

ProjectsInit == /\ status = [p \in Projects |-> "absent"]
                /\ deletedAt = [p \in Projects |-> FALSE]
                /\ deleting = [p \in Projects |-> FALSE]
                /\ writes = 0

DeploymentsOf(p) == {d \in Deployments : ProjectOf[d] = p}

HasRow(p) == status[p] \in ProjectStatus

(* UPDATE projects SET status = s WHERE id = p  *)
SetStatus(p, s) == /\ status' = [status EXCEPT ![p] = IF HasRow(p) THEN s ELSE @]
                   /\ UNCHANGED <<deletedAt, deleting, writes, dbVars>>

(* Mutant: a soft delete under a status of its own.  *)
SoftDeleteRow(p) == /\ status' = [status EXCEPT ![p] = IF HasRow(p) THEN "Deleted" ELSE @]
                    /\ UNCHANGED <<deletedAt, deleting, writes, dbVars>>

(* DELETE FROM projects WHERE id = p  *)
DeleteRow(p) == /\ status' = [status EXCEPT ![p] = IF HasRow(p) THEN "gone" ELSE @]
                /\ DeleteDeployments(DeploymentsOf(p))
                /\ UNCHANGED <<deletedAt, deleting, writes>>

-----------------------------------------------------------------------------
CreateProject(p) == /\ status[p] = "absent"
                    /\ status' = [status EXCEPT ![p] = "Provisioning"]
                    /\ UNCHANGED <<deletedAt, deleting, writes, dbVars>>

(* verify_project_access turns a request away once deleted_at is set.      *)
AskDelete(p) == /\ HasRow(p) /\ ~deletedAt[p]
                /\ deleting' = [deleting EXCEPT ![p] = TRUE]
                /\ UNCHANGED <<status, deletedAt, writes, dbVars>>

(* Of several requests past the check this may be the last, or not.        *)
DeleteProject(p) ==
    /\ deleting[p]
    /\ status' = [status EXCEPT ![p] = IF HasRow(p) THEN "Terminating" ELSE @]
    /\ deletedAt' = [deletedAt EXCEPT ![p] = @ \/ HasRow(p)]
    /\ \E more \in BOOLEAN : deleting' = [deleting EXCEPT ![p] = more]
    /\ UNCHANGED <<writes, dbVars>>

(* create_deployment looks at the status before it inserts and not when it *)
(* does: what holds at the INSERT is the foreign key.                      *)
SubmitDeployment(d) == /\ HasRow(ProjectOf[d])
                       /\ InsertDeployment(d)
                       /\ UNCHANGED projectVars

(* A worker or a monitor thread writes the state of a deployment it has in *)
(* hand, at any time (module BuildPipeline).                               *)
PipelineWrites(d) == /\ Exists(d)
                     /\ writes < MaxWrites /\ writes' = writes + 1
                     /\ \E s \in {"Building", "Deploying", "Failed"} : SetState(d, s)
                     /\ UNCHANGED <<status, deletedAt, deleting>>
=============================================================================
