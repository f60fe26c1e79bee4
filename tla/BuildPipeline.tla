--------------------------- MODULE BuildPipeline ---------------------------
(***************************************************************************)
(* The deploy pipeline: API handlers, deploy stream, workers, their        *)
(* monitor threads and the build cluster, run together over the shared     *)
(* deployments table.  The controller, which also writes that table, is    *)
(* here by what its reconcile_deployments does to it: it reads the rows of *)
(* a project, looks at Kubernetes, and later writes Running or Failed      *)
(* whatever the row has become meanwhile; and it deletes projects.         *)
(***************************************************************************)
EXTENDS Worker, DeployApi

ASSUME RollbackAssumption == Rollbacks = {d \in Deployments : Handler[d] = "rollback"}

VARIABLE verdicts        \* what controllers have decided to write and
                         \* not yet written: <<deployment, state>>

vars == <<infraVars, dbVars, streamVars, clusterVars, monitorVars, workerVars, apiVars,
          verdicts>>

TypeOK == /\ InfraTypeOK /\ DBTypeOK /\ StreamTypeOK /\ ClusterTypeOK
          /\ MonitorTypeOK /\ WorkerTypeOK /\ ApiTypeOK
          /\ verdicts \subseteq Deployments \X {"Running", "Failed"}

Init == /\ InfraInit /\ DBInit /\ StreamInit /\ ClusterInit
        /\ MonitorInit /\ WorkerInit /\ ApiInit
        /\ verdicts = {}

-----------------------------------------------------------------------------
Api(d) == /\ RequestStep(d) \/ KillApi(d)
          /\ UNCHANGED <<clusterVars, monitorVars, workerVars, verdicts>>

Main(w) == MainStep(w) /\ UNCHANGED <<apiVars, verdicts>>

Monitor(w, d) == /\ MonitorStep(w, d)
                 /\ UNCHANGED <<streamVars, workerVars, apiVars, verdicts>>

Kill(w) == KillWorker(w) /\ UNCHANGED <<apiVars, verdicts>>

Build(d) == /\ JobSucceeds(d) \/ JobFails(d)
            /\ UNCHANGED <<infraVars, dbVars, streamVars, monitorVars, workerVars, apiVars,
                           verdicts>>

TimePasses(d) == /\ Age(d)
                 /\ UNCHANGED <<infraVars, dbVars, clusterVars, monitorVars, workerVars,
                                apiVars, verdicts>>

(* reconcile_deployments read d's row, and Kubernetes shows ready replicas *)
(* for a Deploying one or none for a Running one.                          *)
ControllerDecides(d) ==
    /\ \/ row[d] = "Deploying" /\ verdicts' = verdicts \cup {<<d, "Running">>}
       \/ row[d] = "Running" /\ verdicts' = verdicts \cup {<<d, "Failed">>}
    /\ UNCHANGED <<infraVars, dbVars, streamVars, clusterVars, monitorVars, workerVars,
                   apiVars>>

ControllerWrites(d) ==
    /\ \E s \in {"Running", "Failed"} :
         /\ <<d, s>> \in verdicts
         /\ SetState(d, s)
         /\ verdicts' = verdicts \ {<<d, s>>}
    /\ UNCHANGED <<infraVars, streamVars, clusterVars, monitorVars, workerVars, apiVars>>

(* The project of d is deleted and its namespace is gone.  *)
ProjectRemoved(d) ==
    /\ Exists(d)
    /\ DeleteDeployments({d})
    /\ UNCHANGED <<infraVars, streamVars, clusterVars, monitorVars, workerVars, apiVars,
                   verdicts>>

Next == \/ \E d \in Deployments : \/ Api(d) \/ Build(d) \/ TimePasses(d)
                                  \/ ControllerDecides(d) \/ ControllerWrites(d)
                                  \/ ProjectRemoved(d)
        \/ \E w \in Workers : Main(w) \/ Kill(w)
        \/ \E w \in Workers, d \in Deployments : Monitor(w, d)

Spec == Init /\ [][Next]_vars

(* Each thread of control goes on while it can; a Job ends, by its         *)
(* deadline if not before; and idle time accumulates.  Nothing obliges a   *)
(* client to submit, or the controller to act.                             *)
FinishApi(d) == FinishRequest(d) /\ UNCHANGED <<clusterVars, monitorVars, workerVars, verdicts>>

Fairness == /\ \A w \in Workers : WF_vars(Main(w))
            /\ \A w \in Workers, d \in Deployments : WF_vars(Monitor(w, d))
            /\ \A d \in Deployments : /\ WF_vars(Build(d))
                                      /\ WF_vars(TimePasses(d))
                                      /\ WF_vars(FinishApi(d))

FairSpec == Spec /\ Fairness

-----------------------------------------------------------------------------

(* The name of a build Job, derived from the deployment id, is what keeps  *)
(* two workers that process the same message from both building it: a      *)
(* deployment never has two live monitors, and a live monitor's Job has    *)
(* not been deleted under it (monitor_job deletes by name only).           *)
OneMonitorPerJob ==
    \A d \in Deployments, w \in Workers :
        Live(w, d) => /\ job[d] # "absent"
                      /\ \A v \in Workers : Live(v, d) => v = w

(* A deployment is Deploying or Running only if its image is in the        *)
(* registry, whatever is redelivered, retried or overwritten; a rollback   *)
(* reuses the image of an earlier deployment and builds none.              *)
DeployedHasImage ==
    \A d \in Deployments \ Rollbacks : row[d] \in {"Deploying", "Running"} => image[d]

(* A Success row of the builds table is never about an image that was not  *)
(* pushed.                                                                 *)
SuccessHasImage == \A d \in Deployments : "Success" \in builds[d] => image[d]

(* A message leaves the stream only after its deployment was handed on:    *)
(* once it is acknowledged the row is no longer Queued, unless a build Job *)
(* was created for it (whose monitor is the one to move the row).  An      *)
(* UPDATE that does not raise is taken to be committed; for one after a    *)
(* reconnect see StateMachine.                                             *)
SettledIsHandled ==
    \A d \in Settled : row[d] = "Queued" => creates[d] > 0

(* The request was answered 2xx by create_deployment or a webhook only if  *)
(* the message is in the stream.                                           *)
AcceptedIsEnqueued ==
    \A d \in Deployments \ Rollbacks : req[d] = "accepted" => d \in Enqueued

(* Without a redelivery a deployment gets at most one build Job: an entry  *)
(* of the stream goes to one consumer, which creates at most one.          *)
DeliveredOnceBuildsOnce ==
    \A d \in Deployments \ redelivered : creates[d] <= 1

(* While no call fails and no pod is killed, every Job has its monitor: no *)
(* Job is left in the cluster, which nothing else would ever delete.       *)
NoOrphanJob ==
    faults = 0 /\ crashes = 0 =>
        \A d \in Deployments : job[d] # "absent" => \E w \in Workers : Live(w, d)

(* A deployment whose message was delivered once, in a run without failed  *)
(* calls, goes through its states in order: Building from Queued only,     *)
(* Deploying from Building (a rollback: from Queued) only, and once it is  *)
(* in the dead letter stream it stays Failed.                              *)
Orderly(d) == d \notin redelivered /\ faults = 0
LifecycleOrder ==
    [][\A d \in Deployments : Orderly(d) /\ row'[d] # row[d] =>
          /\ row'[d] = "Building" => row[d] = "Queued"
          /\ row'[d] = "Deploying" =>
                row[d] = IF d \in Rollbacks THEN "Queued" ELSE "Building"
          /\ d \in dlq => row'[d] = "deleted"]_vars

(* The queue is live: every message in the stream is acknowledged in the   *)
(* end, by the worker it went to or by one that claimed it.                *)
EverySettles == \A d \in Deployments : d \in Enqueued ~> d \in Settled

(* Every monitor thread ends.  *)
MonitorsEnd == \A w \in Workers, d \in Deployments : Live(w, d) ~> ~Live(w, d)

(* The pipeline implements the abstract queue: what no consumer has read   *)
(* is waiting, the pending entries list is held, and the rest is settled.  *)
(* XAUTOCLAIM, late acknowledgements and lost answers are stutters.        *)
Queue == INSTANCE WorkQueue WITH Messages <- Deployments,
                                 waiting <- SubSeq(log, lastRead + 1, Len(log)),
                                 held <- pel,
                                 settled <- Settled

QueueOrder == Queue!Spec
ImplementsQueue == Queue!FairSpec
=============================================================================
