---------------------------- MODULE TenantProofs ----------------------------
(***************************************************************************)
(* Theorems about TenantPlatform, for every set of projects, namespaces    *)
(* and deployments, with projects that share a namespace or do not, and    *)
(* every bound on failed calls, restarts and drift.                        *)
(***************************************************************************)
EXTENDS TenantPlatform, TLAPS

-----------------------------------------------------------------------------
(* Type correctness.                                                       *)

LEMMA InitType == Init => TypeOK
BY BudgetAssumption, ProjectAssumption, ClusterAssumption
DEF Init, InfraInit, DBInit, ProjectsInit, TenantInit, CtlInit, TypeOK, InfraTypeOK,
       DBTypeOK, ProjectsTypeOK, TenantTypeOK, CtlTypeOK, RowStates, DeploymentStates,
       Calls, Todos, Tasks, NoRows, Parts

LEMMA RowsType == ASSUME DBTypeOK,
                         \/ \E d \in Deployments, s \in DeploymentStates : SetState(d, s)
                         \/ \E d \in Deployments : InsertDeployment(d)
                         \/ \E ds \in SUBSET Deployments : DeleteDeployments(ds)
                         \/ UNCHANGED dbVars
                  PROVE  DBTypeOK'
BY DEF DBTypeOK, SetState, InsertDeployment, DeleteDeployments, dbVars, RowStates,
       DeploymentStates

LEMMA StatusType == ASSUME DBTypeOK, ProjectsTypeOK, NEW p \in Projects,
                           \/ \E s \in ProjectStatus : SetStatus(p, s)
                           \/ DeleteRow(p)
                           \/ CreateProject(p) \/ AskDelete(p) \/ DeleteProject(p)
                           \/ UNCHANGED <<dbVars, projectVars>>
                    PROVE  DBTypeOK' /\ ProjectsTypeOK'
<1>1. DeploymentsOf(p) \in SUBSET Deployments
  BY DEF DeploymentsOf
<1>2. \/ DeleteDeployments(DeploymentsOf(p))
      \/ UNCHANGED dbVars
  BY DEF SetStatus, DeleteRow, CreateProject, AskDelete, DeleteProject, dbVars
<1>3. DBTypeOK'
  BY <1>1, <1>2, RowsType
<1>4. ProjectsTypeOK'
  BY DEF ProjectsTypeOK, SetStatus, DeleteRow, CreateProject, AskDelete, DeleteProject,
         ProjectStatus, HasRow, projectVars
<1> QED
  BY <1>3, <1>4

LEMMA ClusterType ==
    ASSUME TenantTypeOK,
           \/ \E n \in Namespaces : \/ CreateNamespace(n) \/ DeleteNamespace(n)
                                    \/ NamespaceGone(n) \/ NamespaceDeleted(n)
           \/ \E d \in Deployments :
                 \/ \E ps \in SUBSET Parts : ApplyApp(d, ps) \/ DeleteParts(d, ps)
                 \/ PodsUp(d) \/ PodsDown(d) \/ SomePartDeleted(d)
           \/ UNCHANGED tenantVars
    PROVE  TenantTypeOK'
<1>1. ASSUME NEW n \in Namespaces, CreateNamespace(n) \/ DeleteNamespace(n) PROVE TenantTypeOK'
  BY <1>1 DEF TenantTypeOK, CreateNamespace, DeleteNamespace
<1>2. ASSUME NEW n \in Namespaces, NamespaceGone(n) PROVE TenantTypeOK'
  BY <1>2 DEF TenantTypeOK, NamespaceGone
<1>3. ASSUME NEW n \in Namespaces, NamespaceDeleted(n) PROVE TenantTypeOK'
  BY <1>3, ClusterAssumption DEF TenantTypeOK, NamespaceDeleted, Drift
<1>4. ASSUME NEW d \in Deployments, NEW ps \in SUBSET Parts, ApplyApp(d, ps)
      PROVE  TenantTypeOK'
  BY <1>4 DEF TenantTypeOK, ApplyApp
<1>5. ASSUME NEW d \in Deployments, NEW ps \in SUBSET Parts, DeleteParts(d, ps)
      PROVE  TenantTypeOK'
  BY <1>5 DEF TenantTypeOK, DeleteParts
<1>6. ASSUME NEW d \in Deployments, PodsUp(d) \/ PodsDown(d) PROVE TenantTypeOK'
  <2>1. ready' \in [Deployments -> BOOLEAN] /\ UNCHANGED <<ns, parts>>
    BY <1>6 DEF TenantTypeOK, PodsUp, PodsDown
  <2>2. drifts' \in 0..MaxDrifts
    BY <1>6, ClusterAssumption DEF TenantTypeOK, PodsUp, PodsDown, Drift
  <2> QED
    BY <2>1, <2>2 DEF TenantTypeOK
<1>7. ASSUME NEW d \in Deployments, SomePartDeleted(d) PROVE TenantTypeOK'
  BY <1>7, ClusterAssumption DEF TenantTypeOK, SomePartDeleted, Drift
<1>8. CASE UNCHANGED tenantVars
  BY <1>8 DEF TenantTypeOK, tenantVars
<1> QED
  BY <1>1, <1>2, <1>3, <1>4, <1>5, <1>6, <1>7, <1>8

(* What the controller does to its own variables outside Tick, NextProject *)
(* and List.                                                               *)
LEMMA CallType == ASSUME CtlTypeOK,
                         \/ \E c \in Calls : Call(c)
                         \/ \E c \in {"ok", "aborted", "closed"} : Leave(c)
                         \/ \E d \in Deployments, t \in Tasks : AppDone(d, t)
                         \/ Raise \/ RaiseDB
                  PROVE  CtlTypeOK'
BY DEF CtlTypeOK, Call, Leave, AppDone, Raise, RaiseDB, Calls, NoRows, RowStates

LEMMA TasksType == ASSUME NEW noRoutes \in BOOLEAN
                   PROVE  AppTasks(noRoutes) \subseteq Deployments \X Tasks
BY DEF AppTasks, Tasks

LEMMA ReconcileType == ASSUME TypeOK, Reconcile PROVE TypeOK'
<1>0. InfraTypeOK /\ DBTypeOK /\ ProjectsTypeOK /\ TenantTypeOK /\ CtlTypeOK
      /\ proj \in Projects /\ Here \in Namespaces /\ tx \in {"ok", "aborted", "closed"}
  BY HomeAssumption DEF TypeOK, CtlTypeOK, Here
<1>1. InfraTypeOK'
  <2>1. Fault \/ NoFault
    BY DEF Reconcile, Tick, NextProject, EndTick, ApplyTenant, CheckTenant, MarkReady,
       CheckTerminating, DeleteTenant, DeleteProjectRow, ProbeTenant, MarkDrift, ReadRows, List,
       AppsDone, Heal, FailApp, PromoteApp, WriteApp, RemoveOrphan, MarkProjectFailed,
       WriteStatus, Raise, RaiseDB
  <2> QED
    BY <1>0, <2>1, BudgetAssumption DEF Fault, NoFault, infraVars, InfraTypeOK
<1>2. DBTypeOK' /\ ProjectsTypeOK'
  <2>1. CASE MarkReady \/ MarkDrift \/ DeleteProjectRow \/ MarkProjectFailed
    BY <1>0, <2>1, StatusType
       DEF MarkReady, MarkDrift, DeleteProjectRow, MarkProjectFailed, WriteStatus,
           ProjectStatus
  <2>2. CASE \E d \in Deployments : FailApp(d) \/ PromoteApp(d)
    BY <1>0, <2>2, RowsType DEF FailApp, PromoteApp, WriteApp, DeploymentStates, projectVars,
           ProjectsTypeOK
  <2>3. CASE UNCHANGED <<dbVars, projectVars>>
    BY <1>0, <2>3, StatusType
  <2> QED
    BY <2>1, <2>2, <2>3
       DEF Reconcile, Tick, NextProject, EndTick, ApplyTenant, CheckTenant, CheckTerminating,
           DeleteTenant, ProbeTenant, ReadRows, List, AppsDone, Heal, RemoveOrphan, dataVars
<1>3. TenantTypeOK'
  <2>1. CASE ApplyTenant \/ DeleteTenant
    BY <1>0, <2>1, ClusterType DEF ApplyTenant, DeleteTenant
  <2>2. ASSUME NEW d \in Deployments, Heal(d) PROVE TenantTypeOK'
    BY <1>0, <2>2, ClusterType DEF Heal, Parts
  <2>3. ASSUME NEW d \in Deployments, RemoveOrphan(d) PROVE TenantTypeOK'
    <3>1. Removed(d) \subseteq SUBSET Parts /\ {"deployment"} \in SUBSET Parts
      BY DEF Removed, Parts
    <3> QED
      BY <1>0, <2>3, <3>1, ClusterType DEF RemoveOrphan
  <2>4. CASE UNCHANGED tenantVars
    BY <1>0, <2>4, ClusterType
  <2> QED
    BY <2>1, <2>2, <2>3, <2>4
       DEF Reconcile, Tick, NextProject, EndTick, CheckTenant, MarkReady, CheckTerminating,
           DeleteProjectRow, ProbeTenant, MarkDrift, ReadRows, List, AppsDone, FailApp,
           PromoteApp, WriteApp, MarkProjectFailed, dataVars
<1>4. CtlTypeOK'
  <2>1. CASE Tick \/ NextProject \/ EndTick
    BY <1>0, <2>1 DEF Tick, NextProject, EndTick, CtlTypeOK, Calls, Todos, ProjectStatus,
       HasRow
  <2>2. CASE ApplyTenant \/ CheckTenant \/ MarkReady \/ CheckTerminating \/ DeleteTenant
    BY <1>0, <2>2, CallType DEF ApplyTenant, CheckTenant, MarkReady, CheckTerminating,
       DeleteTenant, WriteStatus, Calls
  <2>3. CASE DeleteProjectRow \/ ProbeTenant \/ MarkDrift \/ AppsDone \/ MarkProjectFailed
    BY <1>0, <2>3, CallType DEF DeleteProjectRow, ProbeTenant, MarkDrift, AppsDone,
       MarkProjectFailed, WriteStatus, Calls
  <2>4. CASE ReadRows
    <3>1. CASE UNCHANGED <<todo, proj, tx, apps, orphans>> /\ at' = "list"
                /\ rows' = [d \in Deployments |->
                              IF ProjectOf[d] = proj THEN row[d] ELSE "absent"]
      BY <1>0, <3>1 DEF CtlTypeOK, DBTypeOK, Calls, RowStates
    <3> QED
      BY <1>0, <2>4, <3>1, CallType DEF ReadRows, Calls
  <2>5. CASE List
    <3>1. ASSUME NEW noRoutes \in BOOLEAN, at' = "apps", apps' = AppTasks(noRoutes),
                 orphans' = Orphans, UNCHANGED <<todo, proj, tx, rows>>
          PROVE  CtlTypeOK'
      BY <1>0, <3>1, TasksType DEF CtlTypeOK, Calls, Orphans
    <3> QED
      BY <1>0, <2>5, <3>1, CallType DEF List
  <2>6. ASSUME NEW d \in Deployments, Heal(d) \/ FailApp(d) \/ PromoteApp(d)
        PROVE  CtlTypeOK'
    BY <1>0, <2>6, CallType DEF Heal, FailApp, PromoteApp, WriteApp, Tasks
  <2>7. ASSUME NEW d \in Deployments, RemoveOrphan(d)
        PROVE  CtlTypeOK'
    <3>1. CASE orphans' = orphans \ {d} /\ UNCHANGED <<at, todo, proj, tx, rows, apps>>
      BY <1>0, <3>1 DEF CtlTypeOK
    <3> QED
      BY <1>0, <2>7, <3>1, CallType DEF RemoveOrphan
  <2> QED
    BY <2>1, <2>2, <2>3, <2>4, <2>5, <2>6, <2>7 DEF Reconcile
<1> QED
  BY <1>1, <1>2, <1>3, <1>4 DEF TypeOK

LEMMA NextType == TypeOK /\ [Next]_vars => TypeOK'
<1> SUFFICES ASSUME TypeOK, [Next]_vars PROVE TypeOK'
  OBVIOUS
<1> USE DEF TypeOK
<1>1. CASE Restart
  BY <1>1, BudgetAssumption DEF Restart, Crash, dataVars, dbVars, projectVars, tenantVars,
     InfraTypeOK, DBTypeOK, ProjectsTypeOK, TenantTypeOK, CtlTypeOK, Calls, Todos, NoRows,
     RowStates
<1>2. CASE Kubernetes \/ Outside
  BY <1>2, ClusterType DEF Kubernetes, Outside, NoFault, infraVars, dbVars, projectVars,
     ctlVars, InfraTypeOK, DBTypeOK, ProjectsTypeOK, CtlTypeOK
<1>3. ASSUME NEW p \in Projects, Project(p) PROVE TypeOK'
  BY <1>3, StatusType DEF Project, NoFault, infraVars, tenantVars, ctlVars, InfraTypeOK,
     TenantTypeOK, CtlTypeOK
<1>4. ASSUME NEW d \in Deployments, Deployment(d) PROVE TypeOK'
  <2>1. DBTypeOK'
    BY <1>4, RowsType DEF Deployment, SubmitDeployment, PipelineWrites, DeploymentStates
  <2>2. ProjectsTypeOK'
    BY <1>4, ProjectAssumption DEF Deployment, SubmitDeployment, PipelineWrites, projectVars,
       ProjectsTypeOK
  <2> QED
    BY <1>4, <2>1, <2>2 DEF Deployment, NoFault, infraVars, tenantVars, ctlVars, InfraTypeOK,
       TenantTypeOK, CtlTypeOK
<1>5. CASE UNCHANGED vars
  BY <1>5 DEF vars, infraVars, dbVars, projectVars, tenantVars, ctlVars, InfraTypeOK,
     DBTypeOK, ProjectsTypeOK, TenantTypeOK, CtlTypeOK
<1> QED
  BY <1>1, <1>2, <1>3, <1>4, <1>5, ReconcileType DEF Next, Controller

(* Every variable keeps its type: the projects, their namespaces and the   *)
(* controller's snapshots.                                                 *)
THEOREM TenantTypes == Spec => []TypeOK
BY InitType, NextType, PTL DEF Spec

-----------------------------------------------------------------------------
(* The inductive invariant.  The controller acts on a status it read at    *)
(* the start of the tick, and what makes that safe is that, for some       *)
(* statuses, nobody but the controller itself can have moved the row since.*)

InHandDone == at \notin {"idle", "next"} => todo[proj] = "done"

(* Only the controller takes a row away, in the project's own turn.        *)
RowsSeen == /\ \A p \in Projects : todo[p] # "done" => HasRow(p)
            /\ at \notin {"idle", "next", "error"} => HasRow(proj)
            /\ \A p \in Projects : deletedAt[p] => status[p] # "absent"

(* What is healed or promoted belongs to the project in hand.              *)
OwnTasks == /\ at \in {"list", "apps"} =>
                  \A d \in Deployments : rows[d] # "absent" => ProjectOf[d] = proj
            /\ at = "apps" =>
                  \A d \in Deployments, t \in Tasks : <<d, t>> \in apps => ProjectOf[d] = proj

EmptyWhenAbsent ==
    \A d \in Deployments : ns[NamespaceOf[d]] = "absent" => parts[d] = {}

(* A project that was seen Terminating still is: only the controller takes *)
(* a row out of Terminating.                                               *)
Ending == {"exists", "deleteNs", "deleteRow"}
EndingSeen == /\ \A p \in Projects : todo[p] = "Terminating" => status[p] = "Terminating"
              /\ at \in Ending => status[proj] = "Terminating"
              /\ at = "deleteRow" => ns[Here] = "absent"
              /\ \A p \in Projects : status[p] = "Terminating" => deletedAt[p]

(* What GoneLeavesNothing says, with the deployments named one by one.     *)
NamespaceHasRow ==
    \A n \in Namespaces : ns[n] # "absent" => \E p \in Projects : Home[p] = n /\ HasRow(p)
GoneIsBare == \A d \in Deployments : status[ProjectOf[d]] = "gone" => parts[d] = {}

(* Without drift a namespace that terminates is one of a deleted project,  *)
(* and if there is but one such project of the namespace, the controller   *)
(* is not about to provision it or to declare it Ready.                    *)
Living == {"apply", "check", "markReady", "probe", "markDrift"}
EndingIsFinal ==
    drifts = 0 => \A p \in Projects : ns[Home[p]] = "terminating" /\ Alone(p) =>
        /\ deletedAt[p]
        /\ status[p] \in {"Terminating", "Failed"}
        /\ todo[p] \in {"done", "Terminating", "Failed"}
        /\ proj = p => at \notin Living

ReadyIsActive ==
    drifts = 0 =>
        /\ at = "markReady" /\ Alone(proj) => ns[Here] = "active"
        /\ \A p \in Projects : status[p] = "Ready" /\ Alone(p) => ns[Home[p]] = "active"

TenantInv == /\ InHandDone /\ RowsSeen /\ OwnTasks /\ EmptyWhenAbsent /\ EndingSeen
             /\ NamespaceHasRow /\ GoneIsBare /\ EndingIsFinal /\ ReadyIsActive

LEMMA InitTenant == Init => TenantInv
BY HomeAssumption
DEF Init, InfraInit, DBInit, ProjectsInit, TenantInit, CtlInit, TenantInv, InHandDone,
       RowsSeen, HasRow, ProjectStatus, OwnTasks, NoRows, EmptyWhenAbsent, EndingSeen,
       Ending, NamespaceHasRow, GoneIsBare, EndingIsFinal, ReadyIsActive

(* What the steps below use of the types.                                  *)
Domains == /\ status \in [Projects -> ProjectStatus \cup {"absent", "gone"}]
           /\ deletedAt \in [Projects -> BOOLEAN]
           /\ ns \in [Namespaces -> {"absent", "active", "terminating"}]
           /\ parts \in [Deployments -> SUBSET Parts]
           /\ at \in Calls /\ todo \in [Projects -> Todos] /\ proj \in Projects
           /\ drifts \in Nat
           /\ rows \in [Deployments -> RowStates]
           /\ apps \subseteq Deployments \X Tasks
           /\ Home \in [Projects -> Namespaces]
           /\ NamespaceOf \in [Deployments -> Namespaces]
           /\ ProjectOf \in [Deployments -> Projects]
           /\ \A d \in Deployments : NamespaceOf[d] = Home[ProjectOf[d]]

LEMMA DomainsHold == ASSUME TypeOK PROVE Domains
BY HomeAssumption, ClusterAssumption, ProjectAssumption
   DEF TypeOK, DBTypeOK, ProjectsTypeOK, TenantTypeOK, CtlTypeOK, Domains

LEMMA DeletedBy == ASSUME Domains, NEW p \in Projects, DeleteProject(p), NEW q \in Projects
                   PROVE  deletedAt'[q] <=> deletedAt[q] \/ (q = p /\ HasRow(p))
<1>1. deletedAt' = [deletedAt EXCEPT ![p] = deletedAt[p] \/ HasRow(p)]
  BY DEF DeleteProject
<1>2. CASE q = p
  BY <1>1, <1>2, Zenon DEF Domains
<1>3. CASE q # p
  BY <1>1, <1>3 DEF Domains
<1> QED
  BY <1>2, <1>3

(* deleted_at is never taken back.                                         *)
LEMMA AloneStays == ASSUME Domains, [Next]_vars, NEW p \in Projects, Alone(p)' PROVE Alone(p)
<1>1. \A q \in Projects : deletedAt[q] => deletedAt'[q]
  <2>1. CASE UNCHANGED deletedAt
    BY <2>1
  <2>2. ASSUME NEW q \in Projects, DeleteProject(q)
        PROVE  \A r \in Projects : deletedAt[r] => deletedAt'[r]
    BY <2>2 DEF DeleteProject, Domains
  <2> QED
    BY <2>1, <2>2 DEF Next, Controller, Reconcile, Tick, NextProject, EndTick, ApplyTenant,
       CheckTenant, MarkReady, CheckTerminating, DeleteTenant, DeleteProjectRow, ProbeTenant,
       MarkDrift, ReadRows, List, AppsDone, Heal, FailApp, PromoteApp, WriteApp, RemoveOrphan,
       MarkProjectFailed, WriteStatus, SetStatus, DeleteRow, Restart, Kubernetes, Outside,
       Project, CreateProject, AskDelete, Deployment, SubmitDeployment, PipelineWrites,
       dataVars, projectVars, vars
<1> QED
  BY <1>1 DEF Alone

LEMMA HealedOnly == ASSUME Domains, NEW d \in Deployments, Heal(d), NEW e \in Deployments
                    PROVE  parts'[e] = parts[e] \/ (e = d /\ ns[NamespaceOf[d]] = "active")
<1>1. PICK made : ApplyApp(d, made)
  BY DEF Heal
<1> QED
  BY <1>1 DEF ApplyApp, Domains

(* One step per action of the controller.                                  *)
LEMMA ReconcileTenant ==
    ASSUME TypeOK, TenantInv, Reconcile PROVE TenantInv'
<1>0. Domains
  BY DomainsHold
<1>a. \A p \in Projects : Alone(p)' => Alone(p)
  BY <1>0, AloneStays DEF Next, Controller
<1>b. \A p \in Projects : Alone(p) /\ Home[proj] = Home[p] /\ deletedAt[proj] => p = proj
  BY <1>0 DEF Alone, Domains
<1>c. \A d, e \in Deployments :
          Heal(d) => parts'[e] = parts[e] \/ (e = d /\ ns[NamespaceOf[d]] = "active")
  BY <1>0, HealedOnly
<1> USE DEF Domains, TenantInv, InHandDone, RowsSeen, OwnTasks, EmptyWhenAbsent, EndingSeen,
            Ending, NamespaceHasRow, GoneIsBare, EndingIsFinal, Living, ReadyIsActive, Here,
            dataVars, dbVars, projectVars, tenantVars, Call, Leave, Raise, RaiseDB,
            ProjectStatus, Todos, HasRow
<1>1. CASE Tick
  BY <1>1, <1>0, <1>a DEF Tick
<1>2. CASE NextProject
  BY <1>2, <1>0, <1>a DEF NextProject
<1>3. CASE EndTick
  BY <1>3, <1>0, <1>a DEF EndTick
<1>4. CASE ApplyTenant
  BY <1>4, <1>0, <1>a DEF ApplyTenant, CreateNamespace
<1>5. CASE CheckTenant
  BY <1>5, <1>0, <1>a DEF CheckTenant
<1>6. CASE MarkReady
  BY <1>6, <1>0, <1>a DEF MarkReady, WriteStatus, SetStatus
<1>7. CASE CheckTerminating
  BY <1>7, <1>0, <1>a DEF CheckTerminating
<1>8. CASE DeleteTenant
  BY <1>8, <1>0, <1>a, <1>b DEF DeleteTenant, DeleteNamespace
<1>9. CASE DeleteProjectRow
  BY <1>9, <1>0, <1>a DEF DeleteProjectRow, DeleteRow
<1>10. CASE ProbeTenant
  BY <1>10, <1>0, <1>a DEF ProbeTenant
<1>11. CASE MarkDrift
  <2>1. /\ UNCHANGED <<ns, parts, deletedAt, todo, proj, drifts>>
        /\ at = "markDrift" /\ at' \in {"next", "error"}
        /\ status' = status \/ status' = [status EXCEPT ![proj] = "Provisioning"]
    BY <1>11, <1>0 DEF MarkDrift, WriteStatus, SetStatus
  <2>2. InHandDone' /\ RowsSeen' /\ OwnTasks' /\ EmptyWhenAbsent' /\ EndingSeen'
    BY <1>0, <2>1
  <2>3. NamespaceHasRow' /\ GoneIsBare'
    BY <1>0, <2>1
  <2>4. EndingIsFinal' /\ ReadyIsActive'
    BY <1>0, <1>a, <2>1
  <2> QED
    BY <2>2, <2>3, <2>4
<1>12. CASE ReadRows
  BY <1>12, <1>0, <1>a DEF ReadRows
<1>13. CASE List
  <2>1. \A noRoutes \in BOOLEAN, d \in Deployments, t \in Tasks :
           <<d, t>> \in AppTasks(noRoutes) => rows[d] # "absent"
    BY DEF AppTasks, Served
  <2> QED
    BY <1>13, <1>0, <1>a, <2>1 DEF List
<1>14. CASE AppsDone
  BY <1>14, <1>0, <1>a DEF AppsDone
<1>15. ASSUME NEW d \in Deployments, Heal(d) PROVE TenantInv'
  <2>1. /\ UNCHANGED <<ns, status, deletedAt, at, todo, proj, rows, drifts>>
        /\ apps' \subseteq apps /\ at = "apps"
    BY <1>15 DEF Heal, ApplyApp, AppDone
  <2>2. \A e \in Deployments :
          parts'[e] = parts[e] \/ (e = d /\ ns[NamespaceOf[d]] = "active")
    BY <1>15, <1>c
  <2>3. ProjectOf[d] = proj
    BY <1>15, <1>0, <2>1 DEF Heal, Tasks
  <2>4. EmptyWhenAbsent' /\ GoneIsBare'
    BY <1>0, <2>1, <2>2, <2>3
  <2>5. InHandDone' /\ RowsSeen' /\ OwnTasks' /\ EndingSeen' /\ NamespaceHasRow'
    BY <1>0, <2>1
  <2>6. EndingIsFinal' /\ ReadyIsActive'
    BY <1>0, <1>a, <2>1
  <2> QED
    BY <2>4, <2>5, <2>6
<1>16. ASSUME NEW d \in Deployments, FailApp(d) \/ PromoteApp(d) PROVE TenantInv'
  BY <1>16, <1>0, <1>a DEF FailApp, PromoteApp, WriteApp, AppDone
<1>17. ASSUME NEW d \in Deployments, RemoveOrphan(d) PROVE TenantInv'
  BY <1>17, <1>0, <1>a DEF RemoveOrphan, DeleteParts
<1>18. CASE MarkProjectFailed
  BY <1>18, <1>0, <1>a DEF MarkProjectFailed, SetStatus
<1> QED
  BY <1>1, <1>2, <1>3, <1>4, <1>5, <1>6, <1>7, <1>8, <1>9, <1>10, <1>11,
     <1>12, <1>13, <1>14, <1>15, <1>16, <1>17, <1>18 DEF Reconcile

LEMMA NextTenant == TypeOK /\ TenantInv /\ [Next]_vars => TenantInv'
<1> SUFFICES ASSUME TypeOK, TenantInv, [Next]_vars PROVE TenantInv'
  OBVIOUS
<1>0. Domains
  BY DomainsHold
<1>a. \A p \in Projects : Alone(p)' => Alone(p)
  BY <1>0, AloneStays
<1> USE DEF Domains, TenantInv, InHandDone, RowsSeen, OwnTasks, EmptyWhenAbsent, EndingSeen,
            Ending, NamespaceHasRow, GoneIsBare, EndingIsFinal, Living, ReadyIsActive, Here,
            dbVars, projectVars, tenantVars, ctlVars, ProjectStatus, Todos, HasRow
<1>1. CASE Restart
  BY <1>1, <1>0, <1>a DEF Restart, dataVars
<1>2. ASSUME NEW n \in Namespaces, NamespaceGone(n), UNCHANGED <<dbVars, projectVars, ctlVars>>
      PROVE  TenantInv'
  BY <1>2, <1>0, <1>a DEF NamespaceGone
<1>3. ASSUME NEW n \in Namespaces, NamespaceDeleted(n),
             UNCHANGED <<dbVars, projectVars, ctlVars>>
      PROVE  TenantInv'
  <2>1. drifts' # 0
    BY <1>3, <1>0 DEF NamespaceDeleted, Drift
  <2> QED
    BY <1>3, <1>0, <2>1 DEF NamespaceDeleted
<1>4. ASSUME NEW d \in Deployments, PodsUp(d) \/ PodsDown(d) \/ SomePartDeleted(d),
             UNCHANGED <<dbVars, projectVars, ctlVars>>
      PROVE  TenantInv'
  <2>1. UNCHANGED ns
    BY <1>4 DEF PodsUp, PodsDown, SomePartDeleted
  <2>2. drifts' = 0 => drifts = 0
    BY <1>4, <1>0 DEF PodsUp, PodsDown, SomePartDeleted, Drift
  <2>3. \A e \in Deployments : parts[e] = {} => parts'[e] = {}
    BY <1>4, <1>0 DEF PodsUp, PodsDown, SomePartDeleted
  <2>4. UNCHANGED <<status, deletedAt, at, todo, proj, rows, apps>>
    BY <1>4
  <2>5. EmptyWhenAbsent' /\ GoneIsBare'
    BY <2>1, <2>3, <2>4
  <2>6. InHandDone' /\ RowsSeen' /\ OwnTasks' /\ EndingSeen' /\ NamespaceHasRow'
    BY <2>1, <2>4
  <2>7. EndingIsFinal'
    BY <1>a, <2>1, <2>2, <2>4
  <2>8. ReadyIsActive'
    BY <1>a, <1>0, <2>1, <2>2, <2>4
  <2> QED
    BY <2>5, <2>6, <2>7, <2>8
<1>5. ASSUME NEW p \in Projects, Project(p) PROVE TenantInv'
  <2>0. UNCHANGED <<tenantVars, ctlVars>>
    BY <1>5 DEF Project
  <2>1. CASE CreateProject(p)
    BY <2>0, <2>1, <1>0, <1>a DEF CreateProject
  <2>2. CASE AskDelete(p)
    BY <2>0, <2>2, <1>0, <1>a DEF AskDelete
  <2>3. CASE DeleteProject(p)
    <3>1. /\ status' = [status EXCEPT ![p] = IF HasRow(p) THEN "Terminating" ELSE @]
          /\ \A q \in Projects : deletedAt'[q] <=> deletedAt[q] \/ (q = p /\ HasRow(p))
      BY <2>3, <1>0, DeletedBy DEF DeleteProject
    <3> QED
      BY <2>0, <3>1, <1>0, <1>a
  <2> QED
    BY <1>5, <2>1, <2>2, <2>3 DEF Project
<1>6. ASSUME NEW d \in Deployments, Deployment(d) PROVE TenantInv'
  BY <1>6, <1>0, <1>a DEF Deployment, SubmitDeployment, PipelineWrites
<1>7. CASE UNCHANGED vars
  BY <1>7, <1>0, <1>a DEF vars
<1> QED
  BY <1>1, <1>2, <1>3, <1>4, <1>5, <1>6, <1>7, ReconcileTenant
     DEF Next, Controller, Kubernetes, Outside

LEMMA TenantInvariant == Spec => [](TypeOK /\ TenantInv)
<1>1. Init => TypeOK /\ TenantInv
  BY InitType, InitTenant
<1>2. TypeOK /\ TenantInv /\ [Next]_vars => TypeOK' /\ TenantInv'
  BY NextType, NextTenant
<1> QED
  BY <1>1, <1>2, PTL DEF Spec

(* A namespace is never left in the cluster without a project row that     *)
(* stands for it, and nothing of a hard-deleted project's deployments is   *)
(* left or ever created again.                                             *)
THEOREM NothingIsLeft == Spec => []GoneLeavesNothing
<1>1. TypeOK /\ TenantInv => GoneLeavesNothing
  BY DEF TenantInv, NamespaceHasRow, GoneIsBare, GoneLeavesNothing, DeploymentsOf
<1> QED
  BY <1>1, TenantInvariant, PTL

(* The controller does not take away the namespace of a project unless it, *)
(* or another project with that namespace, was deleted by a request,       *)
(* however stale the statuses of its tick (reconcile, DeleteTenant).       *)
THEOREM Isolation == Spec => []TenantsIsolated
<1>1. TenantInv => TenantsIsolated
  BY DEF TenantInv, EndingIsFinal, TenantsIsolated
<1> QED
  BY <1>1, TenantInvariant, PTL

(* A project that is Ready has its namespace, unless somebody else deleted *)
(* one or a project that shares the namespace was deleted.                 *)
THEOREM ReadyMeansNamespace == Spec => []ReadyHasNamespace
<1>1. TenantInv => ReadyHasNamespace
  BY DEF TenantInv, ReadyIsActive, ReadyHasNamespace
<1> QED
  BY <1>1, TenantInvariant, PTL

-----------------------------------------------------------------------------
(* What Running promises.  The controller promotes by what it listed, and  *)
(* removes orphans by the rows it read before; what makes both safe is     *)
(* that nobody but it writes Running, so that a row it has seen in another *)
(* state while a project is in hand only becomes Running by its own        *)
(* promotion.  A namespace that goes away takes the resources of Running   *)
(* rows with it, and its project never becomes Ready again.                *)

SnapshotsInHand == at # "apps" => apps = {} /\ orphans = {}

Unserved == at \in {"list", "apps"} =>
                \A d \in Deployments :
                    ProjectOf[d] = proj /\ ~Served(d) => row[d] # "Running"

TasksServed == /\ \A d \in Deployments : <<d, "promote">> \in apps => rows[d] = "Deploying"
               /\ \A d \in orphans : NamespaceOf[d] = Here /\ ~Served(d)

Doomed(p) == /\ status[p] \in {"Terminating", "Failed", "gone"}
             /\ todo[p] \in {"done", "Terminating", "Failed"}
             /\ proj = p => at \notin Living

Up(d) == parts[d] = Parts /\ ready[d]

Promoted(d) == row[d] = "Running" \/ <<d, "promote">> \in apps
PromotedIsUp ==
    drifts = 0 => \A d \in Deployments :
        Promoted(d) /\ Sole(ProjectOf[d]) => Up(d) \/ Doomed(ProjectOf[d])

UpInv == SnapshotsInHand /\ Unserved /\ TasksServed /\ PromotedIsUp

LEMMA InitUp == Init => UpInv
BY DEF Init, DBInit, CtlInit, UpInv, SnapshotsInHand, Unserved, TasksServed, PromotedIsUp,
       Promoted

(* What the steps below use of the types.                                  *)
UpDomains == /\ Domains
             /\ row \in [Deployments -> RowStates]
             /\ ready \in [Deployments -> BOOLEAN]
             /\ orphans \subseteq Deployments

LEMMA UpDomainsHold == ASSUME TypeOK PROVE UpDomains
BY DomainsHold DEF TypeOK, DBTypeOK, TenantTypeOK, CtlTypeOK, UpDomains

(* A namespace that two projects were created with is shared ever after.   *)
LEMMA SoleStays == ASSUME Domains, [Next]_vars, NEW p \in Projects, Sole(p)' PROVE Sole(p)
<1>1. \A q \in Projects : status[q] # "absent" => status'[q] # "absent"
  <2>1. CASE UNCHANGED status
    BY <2>1
  <2>2. ASSUME NEW q \in Projects,
               \/ \E s \in ProjectStatus : SetStatus(q, s)
               \/ DeleteRow(q) \/ CreateProject(q) \/ DeleteProject(q)
        PROVE  \A r \in Projects : status[r] # "absent" => status'[r] # "absent"
    BY <2>2 DEF SetStatus, DeleteRow, CreateProject, DeleteProject, Domains, ProjectStatus
  <2>3. proj \in Projects
    BY DEF Domains
  <2> QED
    BY <2>1, <2>2, <2>3 DEF Next, Controller, Reconcile, Tick, NextProject, EndTick,
       ApplyTenant, CheckTenant, MarkReady, CheckTerminating, DeleteTenant, DeleteProjectRow,
       ProbeTenant, MarkDrift, ReadRows, List, AppsDone, Heal, FailApp, PromoteApp, WriteApp,
       RemoveOrphan, MarkProjectFailed, WriteStatus, Restart, Kubernetes, Outside, Project,
       AskDelete, Deployment, SubmitDeployment, PipelineWrites, dataVars, projectVars, vars,
       ProjectStatus
<1> QED
  BY <1>1 DEF Sole

(* A project whose namespace is gone for good stays so.                    *)
LEMMA DoomedStays ==
    ASSUME UpDomains, [Next]_vars, NEW p \in Projects, Doomed(p) PROVE Doomed(p)'
<1> USE DEF UpDomains, Domains, Doomed, Living, Call, Leave, Raise, RaiseDB, HasRow,
            ProjectStatus
<1>1. CASE Tick
  BY <1>1 DEF Tick, dataVars, projectVars
<1>2. CASE NextProject
  BY <1>2 DEF NextProject, dataVars, projectVars
<1>3. CASE MarkReady \/ MarkDrift \/ MarkProjectFailed
  BY <1>3 DEF MarkReady, MarkDrift, MarkProjectFailed, WriteStatus, SetStatus, projectVars
<1>4. CASE DeleteProjectRow
  BY <1>4 DEF DeleteProjectRow, DeleteRow, projectVars
<1>5. CASE ApplyTenant \/ CheckTenant \/ ProbeTenant
  BY <1>5 DEF ApplyTenant, CheckTenant, ProbeTenant, dataVars, projectVars
<1>6. CASE EndTick \/ CheckTerminating \/ DeleteTenant \/ ReadRows \/ List \/ AppsDone
  BY <1>6 DEF EndTick, CheckTerminating, DeleteTenant, ReadRows, List, AppsDone, dataVars,
     projectVars
<1>7. ASSUME NEW d \in Deployments, Heal(d) \/ FailApp(d) \/ PromoteApp(d) \/ RemoveOrphan(d)
      PROVE  Doomed(p)'
  BY <1>7 DEF Heal, FailApp, PromoteApp, WriteApp, RemoveOrphan, AppDone, projectVars
<1>8. CASE Restart
  BY <1>8 DEF Restart, dataVars, projectVars
<1>9. ASSUME NEW q \in Projects, Project(q) PROVE Doomed(p)'
  BY <1>9 DEF Project, CreateProject, AskDelete, DeleteProject, ctlVars
<1>10. CASE UNCHANGED <<status, ctlVars>>
  BY <1>10 DEF ctlVars
<1> QED
  BY <1>1, <1>2, <1>3, <1>4, <1>5, <1>6, <1>7, <1>8, <1>9, <1>10
     DEF Next, Controller, Reconcile, Kubernetes, Outside, Deployment, SubmitDeployment,
         PipelineWrites, projectVars, vars

(* A step that takes nothing of a deployment away, makes no row Running    *)
(* and plans no promotion.                                                 *)
LEMMA UpKept ==
    ASSUME UpInv, UpDomains, [Next]_vars,
           drifts' = 0 => drifts = 0,
           \A d \in Deployments : /\ row'[d] = "Running" => row[d] = "Running"
                                  /\ <<d, "promote">> \in apps' => <<d, "promote">> \in apps
                                  /\ Up(d) => Up(d)'
    PROVE  PromotedIsUp'
BY DoomedStays, SoleStays DEF UpInv, PromotedIsUp, Promoted, UpDomains, Domains

LEMMA ReconcileUp ==
    ASSUME TypeOK, TenantInv, UpInv, Reconcile PROVE UpInv'
<1>0. UpDomains /\ [Next]_vars
  BY UpDomainsHold DEF Next, Controller
<1> USE DEF UpInv, SnapshotsInHand, Unserved, TasksServed, Served, Here
<1>1. CASE /\ Call(at') \/ Leave(tx') \/ Raise \/ RaiseDB \/ Tick \/ NextProject \/ EndTick
           /\ at \notin {"list", "apps"} /\ at' \notin {"list", "apps"}
           /\ UNCHANGED <<parts, ready, drifts>>
           /\ \A d \in Deployments : row'[d] = "Running" => row[d] = "Running"
  <2>1. apps' = {} /\ orphans' = {}
    BY <1>1 DEF Call, Leave, Raise, RaiseDB, Tick, NextProject, EndTick
  <2>2. PromotedIsUp'
    BY <1>0, <1>1, <2>1, UpKept DEF Up
  <2> QED
    BY <1>1, <2>1, <2>2
<1>2. CASE \/ Tick \/ NextProject \/ EndTick \/ ApplyTenant \/ CheckTenant \/ MarkReady
           \/ CheckTerminating \/ DeleteTenant \/ ProbeTenant \/ MarkDrift \/ MarkProjectFailed
           \/ DeleteProjectRow
  <2>1. /\ UNCHANGED <<parts, ready, drifts>>
        /\ \A d \in Deployments : row'[d] = "Running" => row[d] = "Running"
    BY <1>0, <1>2 DEF Tick, NextProject, EndTick, ApplyTenant, CheckTenant, MarkReady,
       CheckTerminating, DeleteTenant, ProbeTenant, MarkDrift, MarkProjectFailed,
       DeleteProjectRow, DeleteRow, DeleteDeployments, WriteStatus, SetStatus,
       CreateNamespace, DeleteNamespace, dataVars, dbVars, tenantVars, UpDomains
  <2>2. /\ at \notin {"list", "apps"} /\ at' \notin {"list", "apps"}
        /\ Call(at') \/ Leave(tx') \/ Raise \/ RaiseDB \/ Tick \/ NextProject \/ EndTick
    BY <1>2 DEF Tick, NextProject, EndTick, ApplyTenant, CheckTenant, MarkReady,
       CheckTerminating, DeleteTenant, ProbeTenant, MarkDrift, MarkProjectFailed,
       DeleteProjectRow, WriteStatus, Call, Leave, Raise, RaiseDB
  <2> QED
    BY <1>1, <2>1, <2>2
<1>3. CASE ReadRows
  <2>1. UNCHANGED <<row, parts, ready, drifts>> /\ apps' = {} /\ orphans' = {}
        /\ at' # "apps"
    BY <1>3 DEF ReadRows, RaiseDB, Call, dataVars, dbVars, tenantVars
  <2>2. PromotedIsUp'
    BY <1>0, <2>1, UpKept DEF Up
  <2>3. Unserved'
    BY <1>0, <1>3, <2>1 DEF ReadRows, RaiseDB, Call, UpDomains
  <2> QED
    BY <2>1, <2>2, <2>3
<1>4. CASE List
  <2>1. UNCHANGED <<row, parts, ready, drifts, proj>>
    BY <1>4 DEF List, Leave, dataVars, dbVars, tenantVars
  <2>2. CASE Leave(tx)
    <3>1. PromotedIsUp'
      BY <1>0, <2>1, <2>2, UpKept DEF Up, Leave
    <3> QED
      BY <2>2, <3>1 DEF Leave
  <2>3. CASE \E noRoutes \in BOOLEAN :
                at' = "apps" /\ apps' = AppTasks(noRoutes) /\ orphans' = Orphans
                /\ UNCHANGED rows
    <3>1. PICK noRoutes \in BOOLEAN : apps' = AppTasks(noRoutes)
      BY <2>3
    <3>2. \A d \in Deployments : <<d, "promote">> \in apps' => rows[d] = "Deploying" /\ Up(d)
      BY <3>1 DEF AppTasks, Missing, Up
    <3>3. \A d \in orphans' : NamespaceOf[d] = Here /\ ~Served(d)
      BY <2>3 DEF Orphans
    <3>4. PromotedIsUp'
      BY <1>0, <2>1, <3>2, DoomedStays, SoleStays
       DEF PromotedIsUp, Promoted, Up, UpDomains, Domains
    <3> QED
      BY <1>4, <2>1, <2>3, <3>2, <3>3, <3>4 DEF List
  <2> QED
    BY <1>4, <2>2, <2>3 DEF List
<1>5. CASE AppsDone
  <2>1. PromotedIsUp'
    BY <1>0, <1>5, UpKept DEF AppsDone, Leave, Up, dataVars, dbVars, tenantVars
  <2> QED
    BY <1>5, <2>1 DEF AppsDone, Leave
<1>6. ASSUME NEW d \in Deployments, Heal(d) PROVE UpInv'
  <2>1. /\ UNCHANGED <<row, ready, drifts, at, proj, rows, orphans>>
        /\ apps' \subseteq apps
        /\ \A e \in Deployments : parts[e] = Parts => parts'[e] = Parts
    <3>1. PICK made \in SUBSET Parts : ApplyApp(d, made)
      BY <1>6 DEF Heal
    <3>2. \A e \in Deployments : parts'[e] \in {parts[e], parts[e] \cup made}
      BY <1>0, <3>1 DEF ApplyApp, UpDomains, Domains
    <3>3. Parts \cup made = Parts
      OBVIOUS
    <3> QED
      BY <1>6, <3>1, <3>2, <3>3 DEF Heal, ApplyApp, AppDone, dbVars
  <2>2. PromotedIsUp'
    BY <1>0, <2>1, UpKept DEF Up
  <2> QED
    BY <1>6, <2>1, <2>2 DEF Heal
<1>7. ASSUME NEW d \in Deployments, FailApp(d) PROVE UpInv'
  <2>1. /\ UNCHANGED <<parts, ready, drifts, proj>>
        /\ \/ UNCHANGED <<at, rows, orphans>> /\ apps' \subseteq apps
           \/ at' = "next" /\ apps' = {} /\ orphans' = {}
        /\ \A e \in Deployments : row'[e] = "Running" => row[e] = "Running"
    BY <1>0, <1>7 DEF FailApp, WriteApp, SetState, AppDone, Leave, tenantVars, dbVars, UpDomains
  <2>2. PromotedIsUp'
    BY <1>0, <2>1, UpKept DEF Up
  <2> QED
    BY <1>7, <2>1, <2>2 DEF FailApp, WriteApp
<1>8. ASSUME NEW d \in Deployments, PromoteApp(d) PROVE UpInv'
  <2>1. /\ UNCHANGED <<parts, ready, drifts, proj>>
        /\ <<d, "promote">> \in apps
        /\ \/ UNCHANGED <<at, rows, orphans>> /\ apps' \subseteq apps
           \/ at' = "next" /\ apps' = {} /\ orphans' = {}
        /\ \A e \in Deployments \ {d} : row'[e] = row[e]
    BY <1>0, <1>8 DEF PromoteApp, WriteApp, SetState, AppDone, Leave, tenantVars, dbVars, UpDomains
  <2>2. PromotedIsUp'
    BY <1>0, <2>1, DoomedStays, SoleStays
       DEF PromotedIsUp, Promoted, Up, UpDomains, Domains
  <2> QED
    BY <1>8, <2>1, <2>2 DEF PromoteApp, WriteApp
<1>9. ASSUME NEW d \in Deployments, RemoveOrphan(d) PROVE UpInv'
  <2>1. /\ UNCHANGED <<row, drifts, proj, apps>> /\ apps = {} /\ d \in orphans
        /\ \/ UNCHANGED <<at, rows>> /\ orphans' \subseteq orphans
           \/ at' = "next" /\ orphans' = {}
        /\ \A e \in Deployments \ {d} : parts'[e] = parts[e] /\ ready'[e] = ready[e]
    BY <1>0, <1>9 DEF RemoveOrphan, DeleteParts, Leave, tenantVars, dbVars, UpDomains, Domains
  <2>2. ProjectOf[d] # proj => ~Sole(ProjectOf[d])
    <3>1. HasRow(proj) /\ d \in Deployments /\ Home[ProjectOf[d]] = Home[proj]
      BY <1>0, <1>9, <2>1, HomeAssumption
         DEF RemoveOrphan, TenantInv, RowsSeen, Here, UpDomains, Domains
    <3> QED
      BY <1>0, <3>1 DEF Sole, HasRow, ProjectStatus, UpDomains, Domains
  <2>3. ProjectOf[d] = proj => row[d] # "Running"
    BY <1>9, <2>1 DEF RemoveOrphan
  <2>4. PromotedIsUp'
    BY <1>0, <2>1, <2>2, <2>3, DoomedStays, SoleStays
       DEF PromotedIsUp, Promoted, Up, UpDomains, Domains
  <2> QED
    BY <1>9, <2>1, <2>4 DEF RemoveOrphan, Here
<1> QED
  BY <1>2, <1>3, <1>4, <1>5, <1>6, <1>7, <1>8, <1>9 DEF Reconcile

LEMMA NextUp == TypeOK /\ TenantInv /\ UpInv /\ [Next]_vars => UpInv'
<1> SUFFICES ASSUME TypeOK, TenantInv, UpInv, [Next]_vars PROVE UpInv'
  OBVIOUS
<1>0. UpDomains
  BY UpDomainsHold
<1> USE DEF UpInv, SnapshotsInHand, Unserved, TasksServed, Served, Here
<1>1. CASE Restart
  <2>1. PromotedIsUp'
    BY <1>0, <1>1, UpKept DEF Restart, Up, dataVars, dbVars, tenantVars
  <2> QED
    BY <1>1, <2>1 DEF Restart
<1>2. ASSUME NEW n \in Namespaces, NamespaceGone(n), UNCHANGED <<dbVars, projectVars, ctlVars>>
      PROVE  UpInv'
  <2>1. ASSUME drifts = 0, NEW d \in Deployments, NamespaceOf[d] = n, Sole(ProjectOf[d])
        PROVE  Doomed(ProjectOf[d])
    <3>1. ProjectOf[d] \in Projects /\ n = Home[ProjectOf[d]]
      BY <1>0, <2>1, HomeAssumption DEF UpDomains, Domains
    <3>2. Alone(ProjectOf[d])
      BY <2>1, <3>1 DEF Sole, Alone, TenantInv, RowsSeen
    <3> QED
      BY <1>2, <2>1, <3>1, <3>2 DEF NamespaceGone, TenantInv, EndingIsFinal, Doomed
  <2>2. \A d \in Deployments : NamespaceOf[d] # n => parts'[d] = parts[d] /\ ready'[d] = ready[d]
    BY <1>0, <1>2 DEF NamespaceGone, UpDomains, Domains
  <2>3. UNCHANGED <<drifts, row, apps>>
    BY <1>2 DEF NamespaceGone, dbVars, ctlVars
  <2>4. PromotedIsUp'
    BY <1>0, <2>1, <2>2, <2>3, DoomedStays, SoleStays
       DEF PromotedIsUp, Promoted, Up, UpDomains, Domains
  <2> QED
    BY <1>2, <2>4 DEF ctlVars, dbVars
<1>3. ASSUME NEW n \in Namespaces, NamespaceDeleted(n),
             UNCHANGED <<dbVars, projectVars, ctlVars>>
      PROVE  UpInv'
  <2>1. PromotedIsUp'
    BY <1>0, <1>3 DEF NamespaceDeleted, Drift, PromotedIsUp, UpDomains, Domains
  <2> QED
    BY <1>3, <2>1 DEF ctlVars, dbVars
<1>4. ASSUME NEW d \in Deployments, PodsUp(d) \/ PodsDown(d) \/ SomePartDeleted(d),
             UNCHANGED <<dbVars, projectVars, ctlVars>>
      PROVE  UpInv'
  <2>1. CASE PodsUp(d)
    BY <1>0, <1>4, <2>1, UpKept DEF PodsUp, Up, UpDomains, ctlVars, dbVars
  <2>2. CASE PodsDown(d) \/ SomePartDeleted(d)
    <3>1. PromotedIsUp'
      BY <1>0, <2>2 DEF PodsDown, SomePartDeleted, Drift, PromotedIsUp, UpDomains, Domains
    <3> QED
      BY <1>4, <3>1 DEF ctlVars, dbVars
  <2> QED
    BY <1>4, <2>1, <2>2
<1>5. ASSUME NEW p \in Projects, Project(p) PROVE UpInv'
  <2>1. UNCHANGED <<parts, ready, drifts, row, ctlVars>>
    BY <1>5 DEF Project, CreateProject, AskDelete, DeleteProject, tenantVars, dbVars
  <2>2. PromotedIsUp'
    BY <1>0, <2>1, UpKept DEF Up, ctlVars
  <2> QED
    BY <2>1, <2>2 DEF ctlVars
<1>6. ASSUME NEW d \in Deployments, Deployment(d) PROVE UpInv'
  <2>1. /\ UNCHANGED <<tenantVars, ctlVars>>
        /\ \A e \in Deployments : row'[e] = "Running" => row[e] = "Running"
    BY <1>0, <1>6 DEF Deployment, SubmitDeployment, PipelineWrites, InsertDeployment, SetState,
       UpDomains
  <2>2. PromotedIsUp'
    BY <1>0, <2>1, UpKept DEF Up, ctlVars, tenantVars
  <2> QED
    BY <2>1, <2>2 DEF ctlVars
<1>7. CASE UNCHANGED vars
  <2>1. PromotedIsUp'
    BY <1>0, <1>7, UpKept DEF Up, ctlVars, tenantVars, dbVars, vars
  <2> QED
    BY <1>7, <2>1 DEF vars, ctlVars, dbVars
<1> QED
  BY <1>1, <1>2, <1>3, <1>4, <1>5, <1>6, <1>7, ReconcileUp
     DEF Next, Controller, Kubernetes, Outside

(* While nothing drifts, a Running deployment of a Ready project has all   *)
(* its resources and ready replicas, unless another project was created    *)
(* with the same namespace.                                                *)
THEOREM RunningMeansUp == Spec => []RunningIsUp
<1>1. UpDomains /\ UpInv => RunningIsUp
  BY DEF UpDomains, UpInv, PromotedIsUp, Promoted, Up, Doomed, RunningIsUp
<1>2. Init => TypeOK /\ TenantInv /\ UpInv
  BY InitType, InitTenant, InitUp
<1>3. TypeOK /\ TenantInv /\ UpInv /\ [Next]_vars => TypeOK' /\ TenantInv' /\ UpInv'
  BY NextType, NextTenant, NextUp
<1>4. TypeOK /\ UpInv => RunningIsUp
  BY <1>1, UpDomainsHold
<1> QED
  BY <1>2, <1>3, <1>4, PTL DEF Spec
=============================================================================
