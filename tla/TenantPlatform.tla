--------------------------- MODULE TenantPlatform ---------------------------
(***************************************************************************)
(* Projects and what runs for them: the API's project handlers, the        *)
(* controller and the tenant cluster, together over the projects and       *)
(* deployments tables.  The deploy pipeline is here by what it does to the *)
(* deployments table: rows appear as Queued, and any of the states a       *)
(* worker writes may be written at any time.  One controller runs          *)
(* (replicas: 1); it may be killed and restarted.                          *)
(***************************************************************************)
EXTENDS Reconciler

vars == <<infraVars, dbVars, projectVars, tenantVars, ctlVars>>

TypeOK == InfraTypeOK /\ DBTypeOK /\ ProjectsTypeOK /\ TenantTypeOK /\ CtlTypeOK

Init == InfraInit /\ DBInit /\ ProjectsInit /\ TenantInit /\ CtlInit

-----------------------------------------------------------------------------
Controller == Reconcile

Project(p) == /\ CreateProject(p) \/ AskDelete(p) \/ DeleteProject(p)
              /\ NoFault /\ UNCHANGED <<tenantVars, ctlVars>>

Deployment(d) == /\ SubmitDeployment(d) \/ PipelineWrites(d)
                 /\ NoFault /\ UNCHANGED <<tenantVars, ctlVars>>

(* Kubernetes' own controllers.  *)
Kubernetes == /\ \/ \E n \in Namespaces : NamespaceGone(n)
                 \/ \E d \in Deployments : PodsUp(d)
              /\ NoFault /\ UNCHANGED <<dbVars, projectVars, ctlVars>>

Outside == /\ \/ \E n \in Namespaces : NamespaceDeleted(n)
              \/ \E d \in Deployments : PodsDown(d) \/ SomePartDeleted(d)
           /\ NoFault /\ UNCHANGED <<dbVars, projectVars, ctlVars>>

Next == \/ Controller \/ Restart \/ Kubernetes \/ Outside
        \/ \E p \in Projects : Project(p)
        \/ \E d \in Deployments : Deployment(d)

Spec == Init /\ [][Next]_vars

(* The controller's loop goes on, namespaces finish terminating and pods   *)
(* come up; nothing obliges users, the pipeline or the outside to act.     *)
FairSpec == /\ Spec
            /\ WF_vars(Controller)
            /\ \A n \in Namespaces :
                 WF_vars(NamespaceGone(n) /\ NoFault /\ UNCHANGED <<dbVars, projectVars, ctlVars>>)
            /\ \A d \in Deployments :
                 WF_vars(PodsUp(d) /\ NoFault /\ UNCHANGED <<dbVars, projectVars, ctlVars>>)

-----------------------------------------------------------------------------

(* The row of a project goes last: there is no namespace in the cluster    *)
(* that no project row stands for, and nothing of the deployments of a     *)
(* project that was hard-deleted, although the status that sent the        *)
(* controller there was read a tick ago, any call may have failed, the     *)
(* controller may have been restarted meanwhile and another project may    *)
(* live in the same namespace.                                             *)
GoneLeavesNothing ==
    /\ \A n \in Namespaces :
         ns[n] # "absent" => \E p \in Projects : Home[p] = n /\ HasRow(p)
    /\ \A p \in Projects :
         status[p] = "gone" => \A d \in DeploymentsOf(p) : parts[d] = {}

(* A Ready project has its namespace, unless somebody else deleted it or   *)
(* another project of the same namespace was deleted: no order of ticks,   *)
(* delete requests, failed calls and restarts makes the controller write   *)
(* Ready over a namespace it has itself sent away for this project.        *)
Alone(p) == \A q \in Projects \ {p} : Home[q] = Home[p] => ~deletedAt[q]
ReadyHasNamespace ==
    drifts = 0 => \A p \in Projects :
        status[p] = "Ready" /\ Alone(p) => ns[Home[p]] = "active"

(* Without drift the namespace of a project nobody asked to delete is not  *)
(* taken away, unless another project of the same namespace was deleted:   *)
(* not by a status read before, a failed call or a restart in the middle   *)
(* of the deletion of some other project.                                  *)
TenantsIsolated ==
    drifts = 0 => \A p \in Projects :
        HasRow(p) /\ ~deletedAt[p] /\ Alone(p) => ns[Home[p]] # "terminating"

(* Without drift a Running deployment of a Ready project is up, as long as *)
(* no other project was created with its namespace: promotion rests on     *)
(* replicas that were seen ready, and nothing the controller does from a   *)
(* stale snapshot takes them away again.                                   *)
Sole(p) == \A q \in Projects \ {p} : Home[q] = Home[p] => status[q] = "absent"
RunningIsUp ==
    drifts = 0 => \A d \in Deployments :
        row[d] = "Running" /\ status[ProjectOf[d]] = "Ready" /\ Sole(ProjectOf[d]) =>
            parts[d] = Parts /\ ready[d]

(* While calls answer, the Deployment of a row that is not served is       *)
(* removed in the end, if its project stays Ready and the row as it is.    *)
Unwanted(d) == /\ "deployment" \in parts[d]
               /\ row[d] \notin {"Running", "Deploying"}
               /\ status[ProjectOf[d]] = "Ready"
OrphansGo == \A d \in Deployments : Unwanted(d) ~> ~Unwanted(d)

(* While calls answer, what is missing of a deployment that is served is   *)
(* put back, or the row is given up.                                       *)
Lacking(d) == /\ row[d] \in {"Running", "Deploying"}
              /\ parts[d] # Parts
              /\ status[ProjectOf[d]] = "Ready"
MissingIsMade == \A d \in Deployments : Lacking(d) ~> ~Lacking(d)

(* Once a tick has read Terminating the project is hard-deleted in the     *)
(* end, over any number of restarts, unless a failed call gives it up as   *)
(* Failed.  (Before a tick has read it, it may be overwritten: see         *)
(* DeleteCompletes.)                                                       *)
GivenUp(p) == faults > 0 /\ status[p] = "Failed"
TerminatingEnds ==
    \A p \in Projects : todo[p] = "Terminating" ~> status[p] = "gone" \/ GivenUp(p)
-----------------------------------------------------------------------------
(* What the repository says of projects and the code does not do.          *)

(* delete_project: "The controller will delete the Kubernetes namespace    *)
(* and then hard-delete the row once the namespace is gone."               *)
DeleteCompletes == \A p \in Projects : deletedAt[p] ~> status[p] = "gone"
=============================================================================
