---------------------------- MODULE Reconciler ----------------------------
(***************************************************************************)
(* The controller process: reconcile, once per tick, and its               *)
(* reconcile_deployments.  A tick reads all projects once and then handles *)
(* them one by one, as the status it read says and whatever the row has    *)
(* become meanwhile; the deployments of a project are read when its turn   *)
(* comes, Kubernetes is listed after that, and what is written follows     *)
(* from the two.  at is the controller's next call:                        *)
(*   idle        between two ticks                                         *)
(*   next        between two projects of a tick                            *)
(*   apply, check, markReady               a Provisioning project          *)
(*   exists, deleteNs, deleteRow           a Terminating one               *)
(*   probe, markDrift, rows, list, apps    a Ready one                     *)
(*   error       in the except block, about to write Failed                *)
(***************************************************************************)
EXTENDS ProjectsDB, TenantCluster

CONSTANT Home            \* the namespace each project was created with

ASSUME HomeAssumption ==
    /\ Home \in [Projects -> Namespaces]
    /\ \A d \in Deployments : NamespaceOf[d] = Home[ProjectOf[d]]

VARIABLES at,
          todo,          \* status read for each project still to handle
          proj,          \* the project in hand
          tx,            \* the tick's connection: ok, aborted (a statement
                         \* failed: the next one raises) or closed
          rows,          \* states read of the deployments of proj
          apps,          \* deployments still to heal, fail or promote
          orphans        \* Deployments still to delete

ctlVars == <<at, todo, proj, tx, rows, apps, orphans>>

Calls == {"idle", "next", "apply", "check", "markReady", "exists", "deleteNs", "deleteRow",
          "probe", "markDrift", "rows", "list", "apps", "error"}
Todos == ProjectStatus \cup {"done"}
Tasks == {"heal", "fail", "promote"}

CtlTypeOK == /\ at \in Calls
             /\ todo \in [Projects -> Todos]
             /\ proj \in Projects
             /\ tx \in {"ok", "aborted", "closed"}
             /\ rows \in [Deployments -> RowStates]
             /\ apps \subseteq Deployments \X Tasks
             /\ orphans \subseteq Deployments

NoRows == [d \in Deployments |-> "absent"]

CtlInit == /\ at = "idle"
           /\ todo = [p \in Projects |-> "done"]
           /\ proj \in Projects
           /\ tx = "ok"
           /\ rows = NoRows /\ apps = {} /\ orphans = {}

Call(c) == at' = c /\ UNCHANGED <<todo, proj, tx, rows, apps, orphans>>

(* The project in hand is left; its snapshots go with it.  *)
Leave(connection) == /\ at' = "next"
                     /\ tx' = connection
                     /\ rows' = NoRows /\ apps' = {} /\ orphans' = {}
                     /\ UNCHANGED <<todo, proj>>

dataVars == <<dbVars, projectVars, tenantVars>>
Here == Home[proj]       \* project.namespace

(* A call raises: the except block is next.  *)
Raise == Fault /\ Call("error")

(* A statement or a commit raises.  *)
RaiseDB == /\ Fault
           /\ at' = "error"
           /\ tx' \in {"aborted", "closed"}
           /\ UNCHANGED <<todo, proj, rows, apps, orphans>>

-----------------------------------------------------------------------------
(* SELECT * FROM projects  *)
Tick == /\ at = "idle"
        /\ at' = "next"
        /\ todo' = [p \in Projects |-> IF HasRow(p) THEN status[p] ELSE "done"]
        /\ UNCHANGED <<proj, tx, rows, apps, orphans>>
        /\ NoFault /\ UNCHANGED dataVars

(* Mutant: what a Failed project may have left in the cluster is removed.  *)
NextProjectCleans ==
    /\ at = "next"
    /\ \E p \in Projects :
         /\ \/ tx = "closed" /\ todo[p] # "done" /\ at' = "error"
            \/ /\ tx # "closed"
               /\ \/ todo[p] = "Provisioning" /\ at' = "apply"
                  \/ todo[p] \in {"Terminating", "Failed"} /\ at' = "exists"
                  \/ todo[p] = "Ready" /\ at' = "probe"
         /\ proj' = p
         /\ todo' = [todo EXCEPT ![p] = "done"]
    /\ UNCHANGED <<tx, rows, apps, orphans>>
    /\ NoFault /\ UNCHANGED dataVars

(* The handling of a project opens a cursor first, which raises on a closed *)
(* connection; a Failed project is looked at no further.                   *)
NextProject ==
    /\ at = "next"
    /\ \E p \in Projects :
         /\ \/ tx = "closed" /\ todo[p] # "done" /\ at' = "error"
            \/ /\ tx # "closed"
               /\ \/ todo[p] = "Provisioning" /\ at' = "apply"
                  \/ todo[p] = "Terminating" /\ at' = "exists"
                  \/ todo[p] = "Ready" /\ at' = "probe"
                  \/ todo[p] = "Failed" /\ at' = "next"
         /\ proj' = p
         /\ todo' = [todo EXCEPT ![p] = "done"]
    /\ UNCHANGED <<tx, rows, apps, orphans>>
    /\ NoFault /\ UNCHANGED dataVars

EndTick == /\ at = "next"
           /\ \A p \in Projects : todo[p] = "done"
           /\ at' = "idle" /\ tx' = "ok"
           /\ UNCHANGED <<todo, proj, rows, apps, orphans>>
           /\ NoFault /\ UNCHANGED dataVars

-----------------------------------------------------------------------------
(* apply_manifests of tenant.yaml.j2, which swallows every error.  *)
ApplyTenant == /\ at = "apply"
               /\ \/ NoFault /\ CreateNamespace(Here)
                  \/ Fault /\ UNCHANGED tenantVars
               /\ Call("check")
               /\ UNCHANGED <<dbVars, projectVars>>

(* Mutant: Ready without a look at the namespace.  *)
CheckNothing == /\ at = "check"
                /\ NoFault /\ Call("markReady")
                /\ UNCHANGED dataVars

(* check_namespace_exists says yes of a namespace that terminates; when    *)
(* it says no the transaction is rolled back.                              *)
CheckTenant == /\ at = "check"
               /\ \/ NoFault /\ ns[Here] # "absent" /\ Call("markReady")
                  \/ NoFault /\ ns[Here] = "absent" /\ Leave("ok")
                  \/ Raise
                  \/ ns[Here] = "absent" /\ RaiseDB
               /\ UNCHANGED dataVars

(* UPDATE projects, and commit.  *)
WriteStatus(s) == \/ tx = "ok" /\ NoFault /\ SetStatus(proj, s) /\ Leave("ok")
                  \/ /\ tx = "ok" /\ RaiseDB
                     /\ SetStatus(proj, s) \/ UNCHANGED <<dbVars, projectVars>>
                  \/ tx # "ok" /\ NoFault /\ Call("error") /\ UNCHANGED <<dbVars, projectVars>>

MarkReady == /\ at = "markReady"
             /\ WriteStatus("Ready")
             /\ UNCHANGED tenantVars

-----------------------------------------------------------------------------
(* Mutant: the row is deleted first.  *)
RowFirst == /\ at = "exists"
            /\ NoFault /\ Call("deleteRow")
            /\ UNCHANGED dataVars

(* Mutant: the row is never deleted.  *)
RowKept == /\ at = "exists"
           /\ NoFault /\ Call("deleteNs")
           /\ UNCHANGED dataVars

CheckTerminating == /\ at = "exists"
                    /\ \/ /\ NoFault
                          /\ Call(IF ns[Here] = "absent" THEN "deleteRow" ELSE "deleteNs")
                       \/ Raise
                    /\ UNCHANGED dataVars

(* The commit that follows ends an aborted transaction too.                *)
DeleteTenant ==
    /\ at = "deleteNs"
    /\ \/ NoFault /\ DeleteNamespace(Here) /\ Leave("ok")
       \/ Raise /\ (DeleteNamespace(Here) \/ UNCHANGED tenantVars)
       \/ RaiseDB /\ DeleteNamespace(Here)
    /\ UNCHANGED <<dbVars, projectVars>>

DeleteProjectRow ==
    /\ at = "deleteRow"
    /\ \/ tx = "ok" /\ NoFault /\ DeleteRow(proj) /\ Leave("ok")
       \/ tx = "ok" /\ RaiseDB /\ (DeleteRow(proj) \/ UNCHANGED <<dbVars, projectVars>>)
       \/ tx # "ok" /\ NoFault /\ Call("error") /\ UNCHANGED <<dbVars, projectVars>>
    /\ UNCHANGED tenantVars

-----------------------------------------------------------------------------
ProbeTenant == /\ at = "probe"
               /\ \/ NoFault /\ Call(IF ns[Here] = "absent" THEN "markDrift" ELSE "rows")
                  \/ Raise
               /\ UNCHANGED dataVars

MarkDrift == /\ at = "markDrift"
             /\ WriteStatus("Provisioning")
             /\ UNCHANGED tenantVars

(* reconcile_deployments: SELECT * FROM deployments, outside its try block. *)
ReadRows == /\ at = "rows"
            /\ \/ /\ tx = "ok" /\ NoFault
                  /\ at' = "list"
                  /\ rows' = [d \in Deployments |->
                                 IF ProjectOf[d] = proj THEN row[d] ELSE "absent"]
                  /\ UNCHANGED <<todo, proj, tx, apps, orphans>>
               \/ tx = "ok" /\ RaiseDB
               \/ tx # "ok" /\ NoFault /\ Call("error")
            /\ UNCHANGED dataVars

Served(d) == rows[d] \in {"Running", "Deploying"}
MissingDeployment(d) == "deployment" \notin parts[d]       \* Mutant
Missing(d) == parts[d] # Parts

(* Mutant: promoted without ready replicas.  *)
AppTasksUnready(noRoutes) ==
    {<<d, "heal">> : d \in {e \in Deployments : Served(e) /\ (noRoutes \/ Missing(e))}}
    \cup {<<d, "promote">> : d \in {e \in Deployments : /\ rows[e] = "Deploying"
                                                       /\ ~noRoutes /\ ~Missing(e)}}

(* What there is to do, from the rows read and the listing; an error of    *)
(* the route listing counts as no routes.                                  *)
AppTasks(noRoutes) ==
    {<<d, "heal">> : d \in {e \in Deployments : Served(e) /\ (noRoutes \/ Missing(e))}}
    \cup {<<d, "fail">> : d \in {e \in Deployments : /\ rows[e] = "Running" /\ ~ready[e]
                                                    /\ ~noRoutes /\ ~Missing(e)}}
    \cup {<<d, "promote">> : d \in {e \in Deployments : /\ rows[e] = "Deploying" /\ ready[e]
                                                       /\ ~noRoutes /\ ~Missing(e)}}
(* Mutant: only those without a row.  *)
OrphansWithoutRow == {d \in Deployments : /\ NamespaceOf[d] = Here
                                          /\ "deployment" \in parts[d]
                                          /\ rows[d] = "absent"}
Orphans == {d \in Deployments : /\ NamespaceOf[d] = Here
                                /\ "deployment" \in parts[d]
                                /\ ~Served(d)}

List == /\ at = "list"
        /\ \/ \E noRoutes \in BOOLEAN :
                /\ IF noRoutes THEN Fault ELSE NoFault
                /\ at' = "apps"
                /\ apps' = AppTasks(noRoutes)
                /\ orphans' = Orphans
                /\ UNCHANGED <<todo, proj, tx, rows>>
           \/ Fault /\ Leave(tx)
        /\ UNCHANGED dataVars

AppDone(d, task) == /\ apps' = apps \ {<<d, task>>}
                    /\ UNCHANGED <<at, todo, proj, tx, rows, orphans>>

(* apply_manifests of app-deployment.yaml.j2  *)
Heal(d) == /\ at = "apps" /\ <<d, "heal">> \in apps
           /\ \/ NoFault /\ ApplyApp(d, Parts)
              \/ Fault /\ \E made \in SUBSET Parts : ApplyApp(d, made)
           /\ AppDone(d, "heal")
           /\ UNCHANGED <<dbVars, projectVars>>

(* UPDATE deployments, and commit; an error leaves the transaction aborted *)
(* or the connection closed, and is swallowed.                             *)
WriteApp(d, task, s) ==
    /\ at = "apps" /\ <<d, task>> \in apps
    /\ \/ NoFault /\ SetState(d, s) /\ AppDone(d, task)
       \/ /\ Fault
          /\ SetState(d, s) \/ UNCHANGED dbVars
          /\ \E connection \in {"aborted", "closed"} : Leave(connection)
    /\ UNCHANGED <<projectVars, tenantVars>>

FailApp(d) == WriteApp(d, "fail", "Failed")
PromoteApp(d) == WriteApp(d, "promote", "Running")

(* Deployment, Service and HTTPRoute are deleted in this order.  When the  *)
(* first is not there the rest of reconcile_deployments is skipped, when   *)
(* the second is not there the third is.  A failed call ends the removal   *)
(* of this one or, unless it is an ApiException of the last two, the whole *)
(* of reconcile_deployments.                                               *)
Removed(d) == {{"deployment"}}
              \cup (IF "service" \in parts[d] THEN {{"deployment", "service"}, Parts} ELSE {})

RemoveOrphan(d) ==
    /\ at = "apps" /\ apps = {} /\ d \in orphans
    /\ \/ /\ NoFault /\ "deployment" \in parts[d]
          /\ DeleteParts(d, IF "service" \in parts[d] THEN Parts ELSE {"deployment"})
          /\ orphans' = orphans \ {d}
          /\ UNCHANGED <<at, todo, proj, tx, rows, apps>>
       \/ NoFault /\ "deployment" \notin parts[d] /\ UNCHANGED tenantVars /\ Leave(tx)
       \/ Fault /\ UNCHANGED tenantVars /\ Leave(tx)
       \/ /\ Fault /\ "deployment" \in parts[d]
          /\ \E ps \in Removed(d) : DeleteParts(d, ps)
          /\ \/ Leave(tx)
             \/ /\ orphans' = orphans \ {d}
                /\ UNCHANGED <<at, todo, proj, tx, rows, apps>>
    /\ UNCHANGED <<dbVars, projectVars>>

AppsDone == /\ at = "apps" /\ apps = {} /\ orphans = {}
            /\ Leave(tx)
            /\ NoFault /\ UNCHANGED dataVars

-----------------------------------------------------------------------------
(* rollback, which raises on a closed connection or may find it dead, and  *)
(* then UPDATE ... 'Failed' on a connection of its own; an error of either *)
(* is swallowed.                                                           *)
MarkProjectFailed ==
    /\ at = "error"
    /\ \/ /\ tx # "closed"
          /\ \/ NoFault /\ SetStatus(proj, "Failed")
             \/ Fault /\ (SetStatus(proj, "Failed") \/ UNCHANGED <<dbVars, projectVars>>)
          /\ Leave("ok")
       \/ /\ IF tx = "closed" THEN NoFault ELSE Fault
          /\ UNCHANGED <<dbVars, projectVars>> /\ Leave("closed")
    /\ UNCHANGED tenantVars

Restart == /\ Crash
           /\ at' = "idle" /\ tx' = "ok"
           /\ todo' = [p \in Projects |-> "done"]
           /\ rows' = NoRows /\ apps' = {} /\ orphans' = {}
           /\ UNCHANGED proj
           /\ UNCHANGED dataVars

Reconcile ==
    \/ Tick \/ NextProject \/ EndTick
    \/ ApplyTenant \/ CheckTenant \/ MarkReady
    \/ CheckTerminating \/ DeleteTenant \/ DeleteProjectRow
    \/ ProbeTenant \/ MarkDrift \/ ReadRows \/ List \/ AppsDone
    \/ \E d \in Deployments : Heal(d) \/ FailApp(d) \/ PromoteApp(d) \/ RemoveOrphan(d)
    \/ MarkProjectFailed
=============================================================================
