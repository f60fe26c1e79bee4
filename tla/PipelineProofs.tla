--------------------------- MODULE PipelineProofs ---------------------------
(***************************************************************************)
(* Theorems about BuildPipeline, for every set of deployments and workers, *)
(* every batch size and every bound on failed calls and killed pods.       *)
(***************************************************************************)
EXTENDS BuildPipeline, SequenceTheorems, TLAPS

USE BudgetAssumption, BatchAssumption, WorkerAssumption, HandlerAssumption

-----------------------------------------------------------------------------
(* Type correctness.                                                       *)

LEMMA InitType == Init => TypeOK
<1> SUFFICES ASSUME Init PROVE TypeOK
  OBVIOUS
<1>1. StreamTypeOK
  <2>1. log \in Seq(Deployments) /\ Len(log) = 0
    BY DEF Init, StreamInit
  <2> QED
    BY <2>1 DEF Init, StreamInit, StreamTypeOK
<1>2. InfraTypeOK /\ DBTypeOK /\ ClusterTypeOK /\ MonitorTypeOK /\ WorkerTypeOK /\ ApiTypeOK
  BY DEF Init, InfraInit, DBInit, ClusterInit, MonitorInit, WorkerInit, ApiInit,
         InfraTypeOK, DBTypeOK, ClusterTypeOK, MonitorTypeOK, WorkerTypeOK, ApiTypeOK,
         RowStates, DeploymentStates, JobStates, MonitorPhases, Steps, RequestPhases
<1> QED
  BY <1>1, <1>2 DEF Init, TypeOK

(* Each operation on the stream keeps its type.                            *)
LEMMA StreamType ==
    ASSUME StreamTypeOK,
           \/ \E d \in Deployments : XAdd(d) \/ XAck(d) \/ XAddDlq(d) \/ Age(d)
           \/ XReadGroup \/ XAutoClaim \/ UNCHANGED streamVars
    PROVE  StreamTypeOK'
<1>1. ASSUME NEW d \in Deployments, XAdd(d) PROVE StreamTypeOK'
  <2>1. log' \in Seq(Deployments) /\ Len(log') = Len(log) + 1
    BY <1>1 DEF XAdd, StreamTypeOK
  <2> QED
    BY <1>1, <2>1 DEF XAdd, StreamTypeOK
<1>2. CASE XReadGroup
  <2>1. LastOfBatch \in 0..Len(log)
    BY DEF LastOfBatch, StreamTypeOK
  <2>2. NextBatch \subseteq Deployments
    BY <2>1 DEF NextBatch, Entries, StreamTypeOK
  <2> QED
    BY <1>2, <2>1, <2>2 DEF XReadGroup, StreamTypeOK
<1>3. ASSUME NEW d \in Deployments, XAck(d) \/ XAddDlq(d) \/ Age(d) PROVE StreamTypeOK'
  BY <1>3 DEF XAck, XAddDlq, Age, StreamTypeOK
<1>4. CASE XAutoClaim \/ UNCHANGED streamVars
  BY <1>4 DEF XAutoClaim, streamVars, StreamTypeOK
<1> QED
  BY <1>1, <1>2, <1>3, <1>4

LEMMA ApiType == ASSUME TypeOK, NEW d \in Deployments, Api(d) PROVE TypeOK'
<1>1. StreamTypeOK'
  BY StreamType DEF TypeOK, Api, RequestStep, FinishRequest, Submit, Enqueue,
                    XAddRaises,
                       CreateNotEnqueued, AppNotEnqueued, RollbackNotEnqueued,
                       MarkEnqueueFailed, KillApi
<1>2. InfraTypeOK' /\ DBTypeOK' /\ ApiTypeOK'
  BY DEF TypeOK, InfraTypeOK, DBTypeOK, ApiTypeOK, Api, RequestStep, FinishRequest, Submit,
         Enqueue, XAddRaises,
            CreateNotEnqueued, AppNotEnqueued, RollbackNotEnqueued,
            MarkEnqueueFailed, KillApi, Answer, InsertDeployment,
         SetState, Fault, Crash, NoFault, infraVars, dbVars, RowStates, DeploymentStates,
         RequestPhases
<1> QED
  BY <1>1, <1>2 DEF TypeOK, ClusterTypeOK, MonitorTypeOK, WorkerTypeOK, Api, clusterVars,
                    monitorVars, workerVars

LEMMA GotoType ==
    ASSUME MonitorTypeOK, NEW w \in Workers, NEW d \in Deployments,
           NEW phase \in MonitorPhases, Goto(w, d, phase)
    PROVE  MonitorTypeOK'
BY DEF Goto, MonitorTypeOK

LEMMA MonitorType ==
    ASSUME TypeOK, NEW w \in Workers, NEW d \in Deployments, Monitor(w, d) PROVE TypeOK'
<1>0. MonitorStep(w, d)
  BY DEF Monitor
<1>1. MonitorTypeOK'
  BY <1>0, GotoType DEF MonitorStep, PodSeen, PodTimeout, MarkBuilding, JobSeenSucceeded,
     JobSeenFailed, WaitFails, GatePasses, GateBlocks, MarkDeploying, ExceptBlock, Cleanup,
     MonitorPhases, TypeOK
<1>2. DBTypeOK'
  BY <1>0 DEF MonitorStep, PodSeen, PodTimeout, MarkBuilding, JobSeenSucceeded,
     JobSeenFailed, WaitFails, GatePasses, GateBlocks, MarkDeploying, ExceptBlock, Cleanup,
     SetState, RecordBuild, dbVars, TypeOK, DBTypeOK, RowStates, DeploymentStates,
     BuildResults
<1>3. ClusterTypeOK' /\ InfraTypeOK'
  BY <1>0 DEF MonitorStep, PodSeen, PodTimeout, MarkBuilding, JobSeenSucceeded,
     JobSeenFailed, WaitFails, GatePasses, GateBlocks, MarkDeploying, ExceptBlock, Cleanup,
     RecordBuild, DeleteJob, clusterVars, infraVars, Fault, NoFault, TypeOK, InfraTypeOK,
     ClusterTypeOK, JobStates
<1> QED
  BY <1>1, <1>2, <1>3 DEF Monitor, streamVars, workerVars, apiVars, TypeOK, StreamTypeOK,
     WorkerTypeOK, ApiTypeOK

LEMMA MainType == ASSUME TypeOK, NEW w \in Workers, Main(w) PROVE TypeOK'
<1>0. /\ step[w] # "poll" => cur[w] \in Deployments
      /\ MainStep(w)
  BY DEF TypeOK, WorkerTypeOK, Main
<1>1. StreamTypeOK'
  BY <1>0, StreamType DEF TypeOK, MainStep, Claim, Read, Take, AckSkipped, Rollback, Prepare,
     CreateBuildJob, JobNameTaken, JobCreationFails, AckStarted, MarkFailed, AddToDlq,
     AckDlq, At
<1>2. WorkerTypeOK'
  <2>1. NextBatch \subseteq Deployments /\ idle \subseteq Deployments
    BY DEF NextBatch, LastOfBatch, Entries, TypeOK, StreamTypeOK
  <2>2. CASE Claim(w) \/ Read(w)
    BY <2>1, <2>2 DEF Claim, Read, Polling, Fetched, StartOver, TypeOK, WorkerTypeOK, Steps
  <2>3. CASE Take(w)
    <3>1. PICK d \in batch[w] :
            \/ /\ cur' = [cur EXCEPT ![w] = d]
               /\ batch' = [batch EXCEPT ![w] = @ \ {d}]
               /\ \E s \in Steps : step' = [step EXCEPT ![w] = s]
               /\ UNCHANGED nextPoll
            \/ StartOver(w)
      BY <2>3 DEF Take, Steps
    <3>2. d \in Deployments
      BY DEF TypeOK, WorkerTypeOK
    <3> QED
      BY <3>1, <3>2 DEF StartOver, TypeOK, WorkerTypeOK, Steps
  <2>4. CASE CreateBuildJob(w) \/ JobNameTaken(w) \/ JobCreationFails(w) \/ AckStarted(w)
    BY <1>0, <2>4 DEF CreateBuildJob, JobNameTaken, JobCreationFails, AckStarted, At,
       Continue, Done, TypeOK, WorkerTypeOK, Steps
  <2>5. CASE AckSkipped(w) \/ Rollback(w) \/ Prepare(w)
    BY <1>0, <2>5 DEF AckSkipped, Rollback, Prepare, At, Continue, Done, StartOver, TypeOK,
       WorkerTypeOK, Steps
  <2>6. CASE MarkFailed(w) \/ AddToDlq(w) \/ AckDlq(w)
    BY <1>0, <2>6 DEF MarkFailed, AddToDlq, AckDlq, At, Continue, Done, StartOver, TypeOK,
       WorkerTypeOK, Steps
  <2> QED
    BY <1>0, <2>2, <2>3, <2>4, <2>5, <2>6 DEF MainStep
<1>3. InfraTypeOK' /\ DBTypeOK' /\ ClusterTypeOK'
  BY <1>0 DEF MainStep, Claim, Read, Take, AckSkipped, Rollback, Prepare, CreateBuildJob,
     JobNameTaken, JobCreationFails, AckStarted, MarkFailed, AddToDlq, AckDlq, At,
     SetState, CreateJob, Fault, NoFault, infraVars, dbVars, clusterVars, TypeOK,
     InfraTypeOK, DBTypeOK, ClusterTypeOK, RowStates, DeploymentStates, JobStates
<1>4. MonitorTypeOK'
  <2>1. CASE CreateBuildJob(w)
    BY <1>0, <2>1, GotoType DEF CreateBuildJob, At, StartMonitor, MonitorPhases, TypeOK
  <2> QED
    BY <1>0, <2>1 DEF MainStep, Claim, Read, Take, AckSkipped, Rollback, Prepare,
       JobNameTaken, JobCreationFails, AckStarted, MarkFailed, AddToDlq, AckDlq, TypeOK,
       MonitorTypeOK
<1> QED
  BY <1>1, <1>2, <1>3, <1>4 DEF TypeOK, ApiTypeOK, Main, apiVars

LEMMA NextType == TypeOK /\ [Next]_vars => TypeOK'
<1> SUFFICES ASSUME TypeOK, [Next]_vars PROVE TypeOK'
  OBVIOUS
<1>1. ASSUME NEW d \in Deployments, Build(d) PROVE TypeOK'
  BY <1>1 DEF Build, JobSucceeds, JobFails, infraVars, dbVars, streamVars, monitorVars,
     workerVars, apiVars, TypeOK, InfraTypeOK, DBTypeOK, StreamTypeOK, ClusterTypeOK,
     MonitorTypeOK, WorkerTypeOK, ApiTypeOK, JobStates
<1>2. ASSUME NEW d \in Deployments, TimePasses(d) PROVE TypeOK'
  BY <1>2, StreamType DEF TimePasses, infraVars, dbVars, clusterVars, monitorVars,
     workerVars, apiVars, TypeOK, InfraTypeOK, DBTypeOK, ClusterTypeOK, MonitorTypeOK,
     WorkerTypeOK, ApiTypeOK
<1>3. ASSUME NEW d \in Deployments,
             ControllerDecides(d) \/ ControllerWrites(d) \/ ProjectRemoved(d)
      PROVE  TypeOK'
  <2>1. DBTypeOK'
    BY <1>3 DEF ControllerDecides, ControllerWrites, ProjectRemoved, SetState,
       DeleteDeployments, dbVars, TypeOK, DBTypeOK, RowStates, DeploymentStates
  <2>2. verdicts' \subseteq Deployments \X {"Running", "Failed"}
    BY <1>3 DEF ControllerDecides, ControllerWrites, ProjectRemoved, TypeOK
  <2> QED
    BY <1>3, <2>1, <2>2 DEF ControllerDecides, ControllerWrites, ProjectRemoved, infraVars,
       streamVars, clusterVars, monitorVars, workerVars, apiVars, TypeOK, InfraTypeOK,
       StreamTypeOK, ClusterTypeOK, MonitorTypeOK, WorkerTypeOK, ApiTypeOK
<1>4. ASSUME NEW w \in Workers, Kill(w) PROVE TypeOK'
  BY <1>4 DEF Kill, KillWorker, Crash, StartOver, KillMonitors, dbVars, streamVars,
     clusterVars, apiVars, TypeOK, InfraTypeOK, DBTypeOK, StreamTypeOK, ClusterTypeOK,
     MonitorTypeOK, WorkerTypeOK, ApiTypeOK, MonitorPhases, Steps
<1>5. CASE UNCHANGED vars
  BY <1>5 DEF vars, infraVars, dbVars, streamVars, clusterVars, monitorVars, workerVars,
     apiVars, TypeOK, InfraTypeOK, DBTypeOK, StreamTypeOK, ClusterTypeOK, MonitorTypeOK,
     WorkerTypeOK, ApiTypeOK
<1> QED
  BY <1>1, <1>2, <1>3, <1>4, <1>5, ApiType, MainType, MonitorType DEF Next

(* Every variable keeps its type: among others, nothing is pending that    *)
(* is not a deployment, and an entry is idle only while it is pending.     *)
THEOREM TypeCorrect == Spec => []TypeOK
BY InitType, NextType, PTL DEF Spec

-----------------------------------------------------------------------------
(* One monitor per Job.  The invariant is inductive as it stands, and rests *)
(* on nothing the queue does: the two steps that matter are the creation   *)
(* of a Job, which needs the name to be free, and the cleanup, which frees *)
(* the name with the only live monitor gone.                               *)

(* No monitor starts and no Job goes away.  *)
Calm == /\ \A w \in Workers, d \in Deployments : Live(w, d)' => Live(w, d)
        /\ \A d \in Deployments : job[d] # "absent" => job'[d] # "absent"

LEMMA CalmKeepsOneMonitor == OneMonitorPerJob /\ Calm => OneMonitorPerJob'
BY DEF OneMonitorPerJob, Calm

LEMMA GotoLive ==
    ASSUME MonitorTypeOK, NEW w \in Workers, NEW d \in Deployments, NEW phase,
           Goto(w, d, phase)
    PROVE  /\ mon'[w][d] = phase
           /\ \A v \in Workers, e \in Deployments :
                 v # w \/ e # d => mon'[v][e] = mon[v][e]
BY DEF Goto, MonitorTypeOK

LEMMA MonitorOneMonitor ==
    ASSUME TypeOK, OneMonitorPerJob, NEW w \in Workers, NEW d \in Deployments,
           MonitorStep(w, d)
    PROVE  OneMonitorPerJob'
<1>1. Live(w, d)
  BY DEF MonitorStep, PodSeen, PodTimeout, MarkBuilding, JobSeenSucceeded, JobSeenFailed,
     WaitFails, GatePasses, GateBlocks, MarkDeploying, ExceptBlock, Cleanup, Live
<1>2. PICK phase : Goto(w, d, phase)
  BY DEF MonitorStep, PodSeen, PodTimeout, MarkBuilding, JobSeenSucceeded, JobSeenFailed,
     WaitFails, GatePasses, GateBlocks, MarkDeploying, ExceptBlock, Cleanup
<1>3. \A v \in Workers, e \in Deployments : Live(v, e)' => Live(v, e)
  BY <1>1, <1>2, GotoLive DEF Live, TypeOK
<1>4. CASE Cleanup(w, d) /\ DeleteJob(d)
  <2>1. /\ \A v \in Workers : ~Live(v, d)'
        /\ \A e \in Deployments : e # d => job'[e] = job[e]
    BY <1>1, <1>4, GotoLive DEF Cleanup, DeleteJob, OneMonitorPerJob, Live, TypeOK,
       ClusterTypeOK
  <2> QED
    BY <1>3, <2>1 DEF OneMonitorPerJob
<1>5. CASE UNCHANGED clusterVars
  BY <1>3, <1>5, CalmKeepsOneMonitor DEF Calm, clusterVars
<1> QED
  BY <1>4, <1>5 DEF MonitorStep, PodSeen, PodTimeout, MarkBuilding, JobSeenSucceeded,
     JobSeenFailed, WaitFails, GatePasses, GateBlocks, MarkDeploying, ExceptBlock, Cleanup

LEMMA MainOneMonitor ==
    ASSUME TypeOK, OneMonitorPerJob, NEW w \in Workers, MainStep(w)
    PROVE  OneMonitorPerJob'
<1>0. step[w] # "poll" => cur[w] \in Deployments
  BY DEF TypeOK, WorkerTypeOK
<1>1. CASE CreateBuildJob(w)
  <2>1. /\ cur[w] \in Deployments
        /\ \A v \in Workers : ~Live(v, cur[w])
        /\ job'[cur[w]] # "absent"
        /\ \A e \in Deployments : e # cur[w] => job'[e] = job[e]
    BY <1>0, <1>1 DEF CreateBuildJob, At, CreateJob, OneMonitorPerJob, TypeOK, ClusterTypeOK
  <2>2. \A v \in Workers, e \in Deployments :
          v # w \/ e # cur[w] => mon'[v][e] = mon[v][e]
    BY <1>1, <2>1, GotoLive DEF CreateBuildJob, StartMonitor, TypeOK
  <2> QED
    BY <2>1, <2>2 DEF OneMonitorPerJob, Live
<1>2. CASE JobCreationFails(w)
  BY <1>0, <1>2, CalmKeepsOneMonitor DEF JobCreationFails, At, CreateJob, clusterVars, Calm,
     Live, TypeOK, ClusterTypeOK
<1>3. CASE UNCHANGED <<clusterVars, mon>>
  BY <1>3, CalmKeepsOneMonitor DEF clusterVars, Calm, Live
<1> QED
  BY <1>1, <1>2, <1>3 DEF MainStep, Claim, Read, Take, AckSkipped, Rollback, Prepare,
     JobNameTaken, AckStarted, MarkFailed, AddToDlq, AckDlq

LEMMA NextOneMonitor == TypeOK /\ OneMonitorPerJob /\ [Next]_vars => OneMonitorPerJob'
<1> SUFFICES ASSUME TypeOK, OneMonitorPerJob, [Next]_vars PROVE OneMonitorPerJob'
  OBVIOUS
<1>1. ASSUME NEW d \in Deployments, Build(d) PROVE OneMonitorPerJob'
  BY <1>1, CalmKeepsOneMonitor DEF Build, JobSucceeds, JobFails, monitorVars, Calm, Live,
     TypeOK, ClusterTypeOK
<1>2. ASSUME NEW w \in Workers, Kill(w) PROVE OneMonitorPerJob'
  BY <1>2, CalmKeepsOneMonitor DEF Kill, KillWorker, KillMonitors, clusterVars, Calm, Live,
     TypeOK, MonitorTypeOK
<1>3. CASE UNCHANGED <<clusterVars, monitorVars>>
  BY <1>3, CalmKeepsOneMonitor DEF clusterVars, monitorVars, Calm, Live
<1>4. ASSUME NEW d \in Deployments,
             \/ Api(d) \/ TimePasses(d) \/ ControllerDecides(d) \/ ControllerWrites(d)
             \/ ProjectRemoved(d)
      PROVE  OneMonitorPerJob'
  BY <1>3, <1>4 DEF Api, TimePasses, ControllerDecides, ControllerWrites, ProjectRemoved
<1> QED
  BY <1>1, <1>2, <1>3, <1>4, MonitorOneMonitor, MainOneMonitor DEF Next, Monitor, Main, vars

(* The Job's name is a lock: no two workers ever follow a build of the     *)
(* same deployment, and no Job is deleted while another monitor follows    *)
(* it.                                                                     *)
THEOREM JobNameIsALock == Spec => []OneMonitorPerJob
<1>1. Init => OneMonitorPerJob
  BY DEF Init, MonitorInit, OneMonitorPerJob, Live
<1> QED
  BY <1>1, TypeCorrect, NextOneMonitor, PTL DEF Spec

-----------------------------------------------------------------------------
(* Nothing is deployed without its image.  Whoever may lead a deployment   *)
(* to Deploying or Running holds evidence of the image: a Job that         *)
(* succeeded, a monitor past the wait, a controller that has read          *)
(* Deploying.  The evidence stays valid because images are never removed.  *)

JobEvidence == \A d \in Deployments : job[d] = "succeeded" => image[d]
MonitorEvidence ==
    \A w \in Workers, d \in Deployments : mon[w][d] \in {"gate", "promote"} => image[d]
VerdictEvidence == \A d \in Deployments \ Rollbacks : <<d, "Running">> \in verdicts => image[d]
RollbackOnly == \A w \in Workers : step[w] = "rollback" => cur[w] \in Rollbacks

ImageInv == /\ JobEvidence /\ MonitorEvidence /\ VerdictEvidence /\ RollbackOnly
            /\ DeployedHasImage /\ SuccessHasImage

LEMMA ImagesStay ==
    ASSUME TypeOK, [Next]_vars, NEW d \in Deployments, image[d] PROVE image'[d]
<1>1. CASE UNCHANGED clusterVars
  BY <1>1 DEF clusterVars
<1>2. ASSUME NEW w \in Workers, Main(w) PROVE image' = image
  BY <1>2 DEF Main, MainStep, Claim, Read, Take, AckSkipped, Rollback, Prepare,
     CreateBuildJob, JobNameTaken, JobCreationFails, AckStarted, MarkFailed, AddToDlq,
     AckDlq, CreateJob, clusterVars
<1>3. ASSUME NEW w \in Workers, NEW e \in Deployments, Monitor(w, e) PROVE image' = image
  BY <1>3 DEF Monitor, MonitorStep, PodSeen, PodTimeout, MarkBuilding, JobSeenSucceeded,
     JobSeenFailed, WaitFails, GatePasses, GateBlocks, MarkDeploying, ExceptBlock, Cleanup,
     DeleteJob, clusterVars
<1>4. ASSUME NEW e \in Deployments, Build(e) PROVE image'[d]
  BY <1>4 DEF Build, JobSucceeds, JobFails, TypeOK, ClusterTypeOK
<1> QED
  BY <1>1, <1>2, <1>3, <1>4 DEF Next, Api, TimePasses, ControllerDecides, ControllerWrites,
     ProjectRemoved, Kill, KillWorker, vars

LEMMA MonitorImage ==
    ASSUME TypeOK, TypeOK', ImageInv, [Next]_vars, NEW w \in Workers, NEW d \in Deployments,
           Monitor(w, d)
    PROVE  ImageInv'
<1>0. /\ MonitorStep(w, d)
      /\ \A e \in Deployments : image[e] => image'[e]
      /\ UNCHANGED <<step, cur, verdicts>>
  BY ImagesStay DEF Monitor, workerVars
<1>1. JobEvidence'
  BY <1>0 DEF MonitorStep, PodSeen, PodTimeout, MarkBuilding, JobSeenSucceeded,
     JobSeenFailed, WaitFails, GatePasses, GateBlocks, MarkDeploying, ExceptBlock, Cleanup,
     DeleteJob, clusterVars, ImageInv, JobEvidence, TypeOK, ClusterTypeOK
<1>2. MonitorEvidence'
  <2>1. PICK phase : Goto(w, d, phase) /\ (phase \in {"gate", "promote"} => image[d])
    BY <1>0 DEF MonitorStep, PodSeen, PodTimeout, MarkBuilding, JobSeenSucceeded,
       JobSeenFailed, WaitFails, GatePasses, GateBlocks, MarkDeploying, ExceptBlock,
       Cleanup, ImageInv, JobEvidence, MonitorEvidence
  <2> QED
    BY <1>0, <2>1, GotoLive DEF ImageInv, MonitorEvidence, TypeOK
<1>3. DeployedHasImage'
  <2>1. \/ UNCHANGED row
        \/ SetState(d, "Building")
        \/ SetState(d, "Deploying") /\ image[d]
    BY <1>0 DEF MonitorStep, PodSeen, PodTimeout, MarkBuilding, JobSeenSucceeded,
       JobSeenFailed, WaitFails, GatePasses, GateBlocks, MarkDeploying, ExceptBlock,
       Cleanup, RecordBuild, dbVars, ImageInv, MonitorEvidence
  <2> QED
    BY <1>0, <2>1 DEF SetState, ImageInv, DeployedHasImage, TypeOK, DBTypeOK
<1>4. SuccessHasImage'
  <2>1. \/ UNCHANGED builds
        \/ RecordBuild(d, "Failed")
        \/ RecordBuild(d, "Success") /\ image[d]
    BY <1>0 DEF MonitorStep, PodSeen, PodTimeout, MarkBuilding, JobSeenSucceeded,
       JobSeenFailed, WaitFails, GatePasses, GateBlocks, MarkDeploying, ExceptBlock,
       Cleanup, SetState, dbVars, ImageInv, MonitorEvidence
  <2> QED
    BY <1>0, <2>1 DEF RecordBuild, ImageInv, SuccessHasImage, TypeOK, DBTypeOK
<1>5. VerdictEvidence' /\ RollbackOnly'
  BY <1>0 DEF ImageInv, VerdictEvidence, RollbackOnly
<1> QED
  BY <1>1, <1>2, <1>3, <1>4, <1>5 DEF ImageInv

LEMMA MainImage ==
    ASSUME TypeOK, TypeOK', ImageInv, [Next]_vars, NEW w \in Workers, Main(w)
    PROVE  ImageInv'
<1>0. /\ MainStep(w)
      /\ step[w] # "poll" => cur[w] \in Deployments
      /\ \A e \in Deployments : image[e] => image'[e]
      /\ UNCHANGED verdicts
  BY ImagesStay DEF Main, TypeOK, WorkerTypeOK
<1>1. JobEvidence'
  BY <1>0 DEF MainStep, Claim, Read, Take, AckSkipped, Rollback, Prepare, CreateBuildJob,
     JobNameTaken, JobCreationFails, AckStarted, MarkFailed, AddToDlq, AckDlq, At, CreateJob,
     clusterVars, ImageInv, JobEvidence, TypeOK, ClusterTypeOK
<1>2. MonitorEvidence'
  <2>1. CASE CreateBuildJob(w)
    BY <1>0, <2>1, GotoLive DEF CreateBuildJob, At, StartMonitor, ImageInv, MonitorEvidence,
       TypeOK
  <2> QED
    BY <1>0, <2>1 DEF MainStep, Claim, Read, Take, AckSkipped, Rollback, Prepare,
       JobNameTaken, JobCreationFails, AckStarted, MarkFailed, AddToDlq, AckDlq, ImageInv,
       MonitorEvidence
<1>3. DeployedHasImage' /\ SuccessHasImage'
  <2>1. /\ UNCHANGED builds
        /\ \/ UNCHANGED row
           \/ cur[w] \in Deployments /\ SetState(cur[w], "Failed")
           \/ cur[w] \in Rollbacks /\ SetState(cur[w], "Deploying")
    BY <1>0 DEF MainStep, Claim, Read, Take, AckSkipped, Rollback, Prepare, CreateBuildJob,
       JobNameTaken, JobCreationFails, AckStarted, MarkFailed, AddToDlq, AckDlq, At,
       SetState, dbVars, ImageInv, RollbackOnly
  <2> QED
    BY <1>0, <2>1 DEF SetState, ImageInv, DeployedHasImage, SuccessHasImage, TypeOK, DBTypeOK
<1>4. RollbackOnly'
  <2>1. CASE Take(w)
    BY <2>1 DEF Take, StartOver, ImageInv, RollbackOnly, TypeOK, WorkerTypeOK
  <2> QED
    BY <1>0, <2>1 DEF MainStep, Claim, Read, AckSkipped, Rollback, Prepare, CreateBuildJob,
       JobNameTaken, JobCreationFails, AckStarted, MarkFailed, AddToDlq, AckDlq, At, Continue,
       Done, StartOver, Fetched, ImageInv, RollbackOnly, TypeOK, WorkerTypeOK
<1>5. VerdictEvidence'
  BY <1>0 DEF ImageInv, VerdictEvidence
<1> QED
  BY <1>1, <1>2, <1>3, <1>4, <1>5 DEF ImageInv

LEMMA NextImage == TypeOK /\ ImageInv /\ [Next]_vars => ImageInv'
<1> SUFFICES ASSUME TypeOK, ImageInv, [Next]_vars PROVE ImageInv'
  OBVIOUS
<1> USE DEF ImageInv, JobEvidence, MonitorEvidence, VerdictEvidence, RollbackOnly,
            DeployedHasImage, SuccessHasImage
<1>1. TypeOK' /\ \A e \in Deployments : image[e] => image'[e]
  BY NextType, ImagesStay
<1>2. ASSUME NEW d \in Deployments, Api(d) PROVE ImageInv'
  BY <1>1, <1>2 DEF Api, RequestStep, FinishRequest, Submit, Enqueue, XAddRaises,
     CreateNotEnqueued, AppNotEnqueued, RollbackNotEnqueued, 
     MarkEnqueueFailed, KillApi, InsertDeployment, SetState, dbVars, clusterVars,
     monitorVars, workerVars, TypeOK, DBTypeOK
<1>3. ASSUME NEW d \in Deployments, Build(d) PROVE ImageInv'
  BY <1>1, <1>3 DEF Build, JobSucceeds, JobFails, dbVars, monitorVars, workerVars, TypeOK,
     ClusterTypeOK
<1>4. ASSUME NEW d \in Deployments, ControllerDecides(d) PROVE ImageInv'
  BY <1>1, <1>4 DEF ControllerDecides, dbVars, clusterVars, monitorVars, workerVars
<1>5. ASSUME NEW d \in Deployments, ControllerWrites(d) PROVE ImageInv'
  BY <1>1, <1>5 DEF ControllerWrites, SetState, clusterVars, monitorVars, workerVars,
     TypeOK, DBTypeOK
<1>6. ASSUME NEW d \in Deployments, ProjectRemoved(d) PROVE ImageInv'
  BY <1>1, <1>6 DEF ProjectRemoved, DeleteDeployments, clusterVars, monitorVars, workerVars,
     TypeOK, DBTypeOK
<1>7. ASSUME NEW w \in Workers, Kill(w) PROVE ImageInv'
  BY <1>1, <1>7 DEF Kill, KillWorker, KillMonitors, StartOver, dbVars, clusterVars, TypeOK,
     MonitorTypeOK, WorkerTypeOK
<1>8. CASE UNCHANGED <<dbVars, clusterVars, monitorVars, workerVars, verdicts>>
  BY <1>8 DEF dbVars, clusterVars, monitorVars, workerVars
<1> QED
  BY <1>1, <1>2, <1>3, <1>4, <1>5, <1>6, <1>7, <1>8, MonitorImage, MainImage
     DEF Next, TimePasses, vars

LEMMA InitImage == Init => ImageInv
BY DEF Init, DBInit, ClusterInit, MonitorInit, WorkerInit, ImageInv, JobEvidence,
   MonitorEvidence, VerdictEvidence, RollbackOnly, DeployedHasImage, SuccessHasImage

(* A deployment that is not a rollback is Deploying or Running only with   *)
(* its image in the registry, however its messages were redelivered, its   *)
(* writes reordered and its pods killed.                                   *)
THEOREM NothingDeployedWithoutImage == Spec => []DeployedHasImage
BY InitImage, NextImage, TypeCorrect, PTL DEF Spec, ImageInv

(* Success is recorded only of builds that pushed their image.             *)
THEOREM SuccessIsRecordedOfImages == Spec => []SuccessHasImage
BY InitImage, NextImage, TypeCorrect, PTL DEF Spec, ImageInv

-----------------------------------------------------------------------------
(* While nothing fails no Job is left alone.  Inductive as it stands: a    *)
(* Job without a monitor needs a create whose answer was lost, a delete    *)
(* that failed, or a pod that was killed.                                  *)

Unbroken == faults = 0 /\ crashes = 0

LEMMA EveryOutcome == ASSUME [Next]_vars PROVE Fault \/ Crash \/ NoFault
<1>1. ASSUME NEW w \in Workers, Main(w) PROVE Fault \/ NoFault
  BY <1>1 DEF Main, MainStep, Claim, Read, Take, AckSkipped, Rollback, Prepare,
     CreateBuildJob, JobNameTaken, JobCreationFails, AckStarted, MarkFailed, AddToDlq, AckDlq
<1>2. ASSUME NEW w \in Workers, NEW d \in Deployments, Monitor(w, d) PROVE Fault \/ NoFault
  BY <1>2 DEF Monitor, MonitorStep, PodSeen, PodTimeout, MarkBuilding, JobSeenSucceeded,
     JobSeenFailed, WaitFails, GatePasses, GateBlocks, MarkDeploying, ExceptBlock, Cleanup,
     RecordBuild
<1>3. ASSUME NEW d \in Deployments, Api(d) PROVE Fault \/ Crash \/ NoFault
  BY <1>3 DEF Api, RequestStep, FinishRequest, Submit, Enqueue, XAddRaises,
     CreateNotEnqueued, AppNotEnqueued, RollbackNotEnqueued, MarkEnqueueFailed, KillApi
<1>4. ASSUME NEW w \in Workers, Kill(w) PROVE Crash
  BY <1>4 DEF Kill, KillWorker
<1> QED
  BY <1>1, <1>2, <1>3, <1>4 DEF Next, Build, TimePasses, ControllerDecides,
     ControllerWrites, ProjectRemoved, vars, NoFault

LEMMA BrokenForEver == TypeOK /\ [Next]_vars /\ Unbroken' => Unbroken /\ UNCHANGED infraVars
BY EveryOutcome DEF Unbroken, Fault, Crash, NoFault, infraVars, TypeOK, InfraTypeOK

Followed == \A d \in Deployments : job[d] # "absent" => \E w \in Workers : Live(w, d)

(* No Job appears and no monitor ends.                                     *)
LEMMA QuietKeepsFollowed ==
    ASSUME Followed,
           \A d \in Deployments : job'[d] # "absent" => job[d] # "absent",
           \A w \in Workers, d \in Deployments : Live(w, d) => Live(w, d)'
    PROVE  Followed'
BY DEF Followed

LEMMA MonitorFollows ==
    ASSUME TypeOK, Followed, NEW w \in Workers, NEW d \in Deployments, MonitorStep(w, d),
           UNCHANGED infraVars
    PROVE  Followed'
<1>1. CASE Cleanup(w, d)
  <2>1. /\ job' = [job EXCEPT ![d] = "absent"] /\ Goto(w, d, "none")
    BY <1>1 DEF Cleanup, DeleteJob, Fault, infraVars, TypeOK, InfraTypeOK
  <2>2. /\ job'[d] = "absent"
        /\ \A e \in Deployments : e # d => job'[e] = job[e]
        /\ \A v \in Workers, e \in Deployments : e # d => mon'[v][e] = mon[v][e]
    BY <2>1, GotoLive DEF TypeOK, ClusterTypeOK
  <2> QED
    BY <2>2 DEF Followed, Live
<1>2. CASE UNCHANGED clusterVars /\ \E phase \in MonitorPhases \ {"none"} : Goto(w, d, phase)
  BY <1>2, GotoLive, QuietKeepsFollowed DEF clusterVars, Live, TypeOK
<1> QED
  BY <1>1, <1>2 DEF MonitorStep, PodSeen, PodTimeout, MarkBuilding, JobSeenSucceeded,
     JobSeenFailed, WaitFails, GatePasses, GateBlocks, MarkDeploying, ExceptBlock,
     MonitorPhases

LEMMA MainFollows ==
    ASSUME TypeOK, Followed, NEW w \in Workers, MainStep(w), UNCHANGED infraVars
    PROVE  Followed'
<1>1. CASE CreateBuildJob(w)
  <2>1. cur[w] \in Deployments
    BY <1>1 DEF CreateBuildJob, At, TypeOK, WorkerTypeOK
  <2>2. /\ \A e \in Deployments : e # cur[w] => job'[e] = job[e]
        /\ mon'[w][cur[w]] = "pod"
        /\ \A v \in Workers, e \in Deployments : v # w \/ e # cur[w] => mon'[v][e] = mon[v][e]
    BY <1>1, <2>1, GotoLive DEF CreateBuildJob, StartMonitor, CreateJob, TypeOK, ClusterTypeOK
  <2> QED
    BY <2>2 DEF Followed, Live
<1>2. ~JobCreationFails(w)
  BY DEF JobCreationFails, Fault, infraVars, TypeOK, InfraTypeOK
<1>3. CASE UNCHANGED <<clusterVars, mon>>
  BY <1>3, QuietKeepsFollowed DEF clusterVars, Live
<1> QED
  BY <1>1, <1>2, <1>3 DEF MainStep, Claim, Read, Take, AckSkipped, Rollback, Prepare,
     JobNameTaken, AckStarted, MarkFailed, AddToDlq, AckDlq

LEMMA NextFollowed ==
    TypeOK /\ NoOrphanJob /\ [Next]_vars => NoOrphanJob'
<1> SUFFICES ASSUME TypeOK, NoOrphanJob, [Next]_vars, Unbroken' PROVE Followed'
  BY DEF NoOrphanJob, Unbroken, Followed
<1>0. Followed /\ UNCHANGED infraVars /\ crashes \in Nat
  BY BrokenForEver DEF NoOrphanJob, Unbroken, Followed, TypeOK, InfraTypeOK
<1>1. ASSUME NEW d \in Deployments, Build(d) PROVE Followed'
  BY <1>0, <1>1, QuietKeepsFollowed DEF Build, JobSucceeds, JobFails, monitorVars, Live,
     TypeOK, ClusterTypeOK
<1>2. ASSUME NEW w \in Workers PROVE ~Kill(w)
  BY <1>0 DEF Kill, KillWorker, Crash, infraVars
<1>3. CASE UNCHANGED <<clusterVars, monitorVars>>
  BY <1>0, <1>3, QuietKeepsFollowed DEF clusterVars, monitorVars, Live
<1>4. ASSUME NEW d \in Deployments,
             \/ Api(d) \/ TimePasses(d) \/ ControllerDecides(d) \/ ControllerWrites(d)
             \/ ProjectRemoved(d)
      PROVE  Followed'
  BY <1>3, <1>4 DEF Api, TimePasses, ControllerDecides, ControllerWrites, ProjectRemoved
<1> QED
  BY <1>0, <1>1, <1>2, <1>3, <1>4, MonitorFollows, MainFollows DEF Next, Monitor, Main, vars

(* While no call fails and no pod is killed, no Job is ever left in the    *)
(* cluster without the monitor that will delete it.                        *)
THEOREM NoJobIsLeftAlone == Spec => []NoOrphanJob
<1>1. Init => NoOrphanJob
  BY DEF Init, ClusterInit, NoOrphanJob
<1> QED
  BY <1>1, TypeCorrect, NextFollowed, PTL DEF Spec
=============================================================================
