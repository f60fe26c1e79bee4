------------------------ MODULE PipelineQueueProofs ------------------------
(***************************************************************************)
(* Theorems about the deploy stream as the pipeline uses it: no message is *)
(* acknowledged before its deployment has been handed on, the pipeline     *)
(* implements the abstract queue WorkQueue, and what is delivered once is  *)
(* built once and goes through its states in order.                        *)
(***************************************************************************)
EXTENDS PipelineProofs

-----------------------------------------------------------------------------
(* What each stream operation does to the sets of entries.                 *)

LEMMA EnqueuedInLog ==
    ASSUME StreamTypeOK
    PROVE  /\ Delivered \subseteq Enqueued /\ Enqueued \subseteq Deployments
           /\ NextBatch \subseteq Enqueued
           /\ LastOfBatch \in lastRead..Len(log)
<1>1. lastRead \in Nat /\ Len(log) \in Nat /\ lastRead <= Len(log)
  BY DEF StreamTypeOK
<1>2. LastOfBatch \in lastRead..Len(log)
  BY <1>1, BatchAssumption DEF LastOfBatch
<1> QED
  BY <1>1, <1>2 DEF Delivered, Enqueued, NextBatch, Entries, StreamTypeOK

LEMMA XAddSets ==
    ASSUME StreamTypeOK, NEW d \in Deployments, XAdd(d)
    PROVE  Enqueued' = Enqueued \cup {d} /\ Delivered' = Delivered /\ pel' = pel
<1>1. /\ Len(log') = Len(log) + 1
      /\ \A i \in 1..Len(log) : log'[i] = log[i]
      /\ log'[Len(log) + 1] = d
  BY DEF XAdd, StreamTypeOK
<1>2. lastRead' = lastRead /\ lastRead \in 0..Len(log) /\ Len(log) \in Nat
  BY DEF XAdd, StreamTypeOK
<1>3. Enqueued' = Enqueued \cup {d}
  BY <1>1, <1>2 DEF Enqueued, Entries
<1>4. Delivered' = Delivered
  BY <1>1, <1>2 DEF Delivered, Entries
<1> QED
  BY <1>3, <1>4 DEF XAdd

LEMMA XReadSets ==
    ASSUME StreamTypeOK, XReadGroup
    PROVE  Enqueued' = Enqueued /\ Delivered' = Delivered \cup NextBatch
<1>1. /\ lastRead \in Nat /\ Len(log) \in Nat
      /\ LastOfBatch \in lastRead..Len(log)
  BY EnqueuedInLog DEF StreamTypeOK
<1> QED
  BY <1>1 DEF XReadGroup, Enqueued, Delivered, NextBatch, Entries

LEMMA OtherSets ==
    ASSUME UNCHANGED <<log, lastRead>>
    PROVE  Enqueued' = Enqueued /\ Delivered' = Delivered
BY DEF Enqueued, Delivered, Entries

-----------------------------------------------------------------------------
(* No message is settled before it is handled.  What a worker is about to  *)
(* acknowledge it has seen, or made, leave Queued, or has created the Job  *)
(* of; and no deployment returns to Queued, because only the INSERT writes *)
(* that state and the row is there before the message is.                  *)

MessagesHaveRows ==
    /\ \A d \in Deployments : req[d] # "new" \/ d \in Enqueued => row[d] # "absent"
    /\ pel \subseteq Delivered
    /\ \A w \in Workers : /\ batch[w] \subseteq Enqueued
                          /\ step[w] # "poll" => cur[w] \in Enqueued

WorkersKnow ==
    \A w \in Workers : /\ step[w] \in {"skip", "dlq", "dlqAck"} => row[cur[w]] \notin {"absent", "Queued"}
                       /\ step[w] = "ack" => creates[cur[w]] > 0

HandledInv == MessagesHaveRows /\ WorkersKnow /\ SettledIsHandled

(* Every way a step writes the state column, and creates Jobs.  *)
RowWrite == \/ UNCHANGED row
            \/ \E d \in Deployments :
                  \/ InsertDeployment(d) \/ DeleteDeployments({d})
                  \/ \E s \in DeploymentStates \ {"Queued"} : SetState(d, s)
JobWrite == UNCHANGED creates \/ \E d \in Deployments : CreateJob(d)

(* Rows and Jobs only go forward.  *)
LEMMA Forward ==
    ASSUME TypeOK, [Next]_vars, NEW d \in Deployments
    PROVE  /\ row[d] # "absent" => row'[d] # "absent"
           /\ row[d] \notin {"absent", "Queued"} => row'[d] \notin {"absent", "Queued"}
           /\ creates[d] > 0 => creates'[d] > 0
<1>1. /\ row[d] # "absent" => row'[d] # "absent"
      /\ row[d] \notin {"absent", "Queued"} => row'[d] \notin {"absent", "Queued"}
  <2>1. RowWrite
    <3>1. ASSUME NEW w \in Workers, Main(w) PROVE RowWrite
      <4>1. step[w] # "poll" => cur[w] \in Deployments
        BY DEF TypeOK, WorkerTypeOK
      <4> QED
        BY <3>1, <4>1 DEF Main, MainStep, Claim, Read, Take, AckSkipped, Rollback, Prepare,
           CreateBuildJob, JobNameTaken, JobCreationFails, AckStarted, MarkFailed, AddToDlq,
           AckDlq, At, dbVars, RowWrite, DeploymentStates
    <3>2. ASSUME NEW w \in Workers, NEW e \in Deployments, Monitor(w, e) PROVE RowWrite
      BY <3>2 DEF Monitor, MonitorStep, PodSeen, PodTimeout, MarkBuilding, JobSeenSucceeded,
         JobSeenFailed, WaitFails, GatePasses, GateBlocks, MarkDeploying, ExceptBlock,
         Cleanup, RecordBuild, dbVars, RowWrite, DeploymentStates
    <3>3. ASSUME NEW e \in Deployments, Api(e) PROVE RowWrite
      BY <3>3 DEF Api, RequestStep, FinishRequest, Submit, Enqueue, XAddRaises,
         CreateNotEnqueued, AppNotEnqueued, RollbackNotEnqueued, 
         MarkEnqueueFailed, KillApi, dbVars, RowWrite, DeploymentStates
    <3> QED
      BY <3>1, <3>2, <3>3 DEF Next, Build, TimePasses, ControllerDecides, ControllerWrites,
         ProjectRemoved, Kill, KillWorker, dbVars, vars, RowWrite, DeploymentStates
  <2> QED
    BY <2>1 DEF RowWrite, InsertDeployment, DeleteDeployments, SetState, Exists,
       DeploymentStates, TypeOK, DBTypeOK
<1>2. creates[d] > 0 => creates'[d] > 0
  <2>1. creates[d] \in Nat
    BY DEF TypeOK, ClusterTypeOK
  <2>2. JobWrite
    <3>1. ASSUME NEW w \in Workers, Main(w) PROVE JobWrite
      <4>1. step[w] # "poll" => cur[w] \in Deployments
        BY DEF TypeOK, WorkerTypeOK
      <4> QED
        BY <3>1, <4>1 DEF Main, MainStep, Claim, Read, Take, AckSkipped, Rollback, Prepare,
           CreateBuildJob, JobNameTaken, JobCreationFails, AckStarted, MarkFailed, AddToDlq,
           AckDlq, At, clusterVars, JobWrite
    <3>2. ASSUME NEW w \in Workers, NEW e \in Deployments, Monitor(w, e) PROVE JobWrite
      BY <3>2 DEF Monitor, MonitorStep, PodSeen, PodTimeout, MarkBuilding, JobSeenSucceeded,
         JobSeenFailed, WaitFails, GatePasses, GateBlocks, MarkDeploying, ExceptBlock,
         Cleanup, DeleteJob, clusterVars, JobWrite
    <3> QED
      BY <3>1, <3>2 DEF Next, Api, Build, JobSucceeds, JobFails, TimePasses,
         ControllerDecides, ControllerWrites, ProjectRemoved, Kill, KillWorker, clusterVars,
         JobWrite, vars
  <2> QED
    BY <2>1, <2>2 DEF JobWrite, CreateJob, TypeOK, ClusterTypeOK
<1> QED
  BY <1>1, <1>2

LEMMA ApiHandled ==
    ASSUME TypeOK, HandledInv, [Next]_vars, NEW d \in Deployments, Api(d)
    PROVE  HandledInv'
<1>1. /\ RequestStep(d) \/ KillApi(d)
      /\ UNCHANGED <<creates, step, cur, batch>>
      /\ StreamTypeOK
  BY DEF Api, clusterVars, workerVars, TypeOK
<1>2. CASE Submit(d)
  <2>1. UNCHANGED streamVars /\ Enqueued' = Enqueued /\ Delivered' = Delivered
    BY <1>2, OtherSets DEF Submit, streamVars
  <2>2. row' = [row EXCEPT ![d] = "Queued"] /\ row[d] = "absent"
    BY <1>2 DEF Submit, InsertDeployment
  <2>3. req' = [req EXCEPT ![d] = "xadd"]
    BY <1>2 DEF Submit, Answer
  <2>4. d \notin Enqueued /\ Delivered \subseteq Enqueued
    BY <1>1, <2>2, EnqueuedInLog DEF HandledInv, MessagesHaveRows
  <2>5. MessagesHaveRows'
    BY <1>1, <2>1, <2>2, <2>3 DEF HandledInv, MessagesHaveRows, streamVars, TypeOK,
       DBTypeOK, ApiTypeOK
  <2>6. WorkersKnow'
    BY <1>1, <2>2, <2>4 DEF HandledInv, MessagesHaveRows, WorkersKnow, TypeOK,
       DBTypeOK, WorkerTypeOK
  <2>7. SettledIsHandled'
    BY <1>1, <2>1, <2>2, <2>4 DEF HandledInv, SettledIsHandled, Settled, streamVars, TypeOK,
       DBTypeOK, StreamTypeOK
  <2> QED
    BY <2>5, <2>6, <2>7 DEF HandledInv
<1>3. CASE ~Submit(d)
  <2>1. req[d] # "new" /\ \A e \in Deployments : req'[e] # "new" => req[e] # "new"
    BY <1>1, <1>3 DEF RequestStep, FinishRequest, Enqueue, XAddRaises,
       CreateNotEnqueued, AppNotEnqueued, RollbackNotEnqueued, MarkEnqueueFailed,
       KillApi, Answer, TypeOK, ApiTypeOK
  <2>2. /\ Enqueued \subseteq Enqueued' /\ Enqueued' \subseteq Enqueued \cup {d}
        /\ Delivered' = Delivered /\ pel' = pel
    BY <1>1, <1>3, XAddSets, OtherSets DEF RequestStep, FinishRequest, Enqueue,
       XAddRaises,
          CreateNotEnqueued, AppNotEnqueued, RollbackNotEnqueued,
          MarkEnqueueFailed, KillApi, streamVars
  <2>3. \A e \in Deployments : /\ row[e] # "absent" => row'[e] # "absent"
                               /\ row[e] \notin {"absent", "Queued"} => row'[e] \notin {"absent", "Queued"}
                               /\ row'[e] = "Queued" => row[e] = "Queued"
    BY <1>1, <1>3, Forward DEF RequestStep, FinishRequest, Enqueue, XAddRaises,
       CreateNotEnqueued, AppNotEnqueued, RollbackNotEnqueued, 
       MarkEnqueueFailed, KillApi, SetState, dbVars, TypeOK, DBTypeOK
  <2>4. Enqueued \subseteq Deployments /\ Delivered \subseteq Enqueued
    BY <1>1, EnqueuedInLog
  <2>5. MessagesHaveRows'
    <3>1. \A e \in Deployments : req'[e] # "new" \/ e \in Enqueued' => row'[e] # "absent"
      BY <2>1, <2>2, <2>3 DEF HandledInv, MessagesHaveRows
    <3>2. pel' \subseteq Delivered'
      BY <2>2 DEF HandledInv, MessagesHaveRows
    <3>3. \A w \in Workers : /\ batch'[w] \subseteq Enqueued'
                             /\ step'[w] # "poll" => cur'[w] \in Enqueued'
      BY <1>1, <2>2 DEF HandledInv, MessagesHaveRows
    <3> QED
      BY <3>1, <3>2, <3>3 DEF MessagesHaveRows
  <2>6. WorkersKnow'
    BY <1>1, <2>3, <2>4 DEF HandledInv, MessagesHaveRows, WorkersKnow
  <2>7. SettledIsHandled'
    BY <1>1, <2>2, <2>3, <2>4 DEF HandledInv, SettledIsHandled, Settled
  <2> QED
    BY <2>5, <2>6, <2>7 DEF HandledInv
<1> QED
  BY <1>2, <1>3

(* A step that leaves workers and stream alone.  *)
LEMMA AsideHandled ==
    ASSUME TypeOK, HandledInv, [Next]_vars,
           UNCHANGED <<log, lastRead, pel, req>>,
           UNCHANGED workerVars \/ \E w \in Workers : StartOver(w),
           \A d \in Deployments : row'[d] = "Queued" => row[d] = "Queued"
    PROVE  HandledInv'
<1>1. /\ Enqueued' = Enqueued /\ Delivered' = Delivered
      /\ Enqueued \subseteq Deployments /\ Delivered \subseteq Enqueued
  BY OtherSets, EnqueuedInLog DEF TypeOK
<1>2. \A w \in Workers : /\ batch'[w] \subseteq batch[w]
                         /\ step'[w] # "poll" => step'[w] = step[w] /\ cur'[w] = cur[w]
  BY DEF workerVars, StartOver, TypeOK, WorkerTypeOK
<1>3. \A w \in Workers : step[w] # "poll" => cur[w] \in Deployments
  BY DEF TypeOK, WorkerTypeOK
<1>4. MessagesHaveRows'
  BY <1>1, <1>2, Forward DEF HandledInv, MessagesHaveRows
<1>5. WorkersKnow'
  BY <1>2, <1>3, Forward DEF HandledInv, WorkersKnow
<1>6. SettledIsHandled'
  BY <1>1, Forward DEF HandledInv, SettledIsHandled, Settled
<1> QED
  BY <1>4, <1>5, <1>6 DEF HandledInv

(* A step of one worker's main thread leaves the other workers alone; what *)
(* it takes is in the stream, and what it goes on to it has the right to.  *)
LEMMA MainHandled ==
    ASSUME TypeOK, HandledInv, [Next]_vars, NEW w \in Workers, Main(w)
    PROVE  HandledInv'
<1>1. /\ Delivered \subseteq Enqueued /\ Enqueued \subseteq Deployments
      /\ NextBatch \subseteq Enqueued /\ pel \subseteq Delivered
  BY EnqueuedInLog DEF TypeOK, HandledInv, MessagesHaveRows
<1>2. /\ req' = req /\ Enqueued' = Enqueued
      /\ \A v \in Workers \ {w} : step'[v] = step[v] /\ cur'[v] = cur[v] /\ batch'[v] = batch[v]
  <2>1. Enqueued' = Enqueued
    BY OtherSets, XReadSets DEF Main, MainStep, Claim, Read, Take, AckSkipped, Rollback, Prepare,
       CreateBuildJob, JobNameTaken, JobCreationFails, AckStarted, MarkFailed, AddToDlq,
       AckDlq, XAutoClaim, XAck, XAddDlq, streamVars, TypeOK, Enqueued, XReadGroup
  <2> QED
    BY <2>1 DEF Main, MainStep, Claim, Read, Take, AckSkipped, Rollback, Prepare,
       CreateBuildJob, JobNameTaken, JobCreationFails, AckStarted, MarkFailed, AddToDlq,
       AckDlq, Continue, Done, StartOver, Fetched, apiVars, workerVars, TypeOK, WorkerTypeOK
<1>3. \A d \in Deployments : row'[d] = "Queued" => row[d] = "Queued"
  BY DEF Main, MainStep, Claim, Read, Take, AckSkipped, Rollback, Prepare,
     CreateBuildJob, JobNameTaken, JobCreationFails, AckStarted, MarkFailed, AddToDlq,
     AckDlq, At, SetState, dbVars, TypeOK, DBTypeOK
<1>4. /\ batch'[w] \subseteq Enqueued
      /\ step'[w] # "poll" => cur'[w] \in Enqueued
  BY <1>1 DEF Main, MainStep, Claim, Read, Take, AckSkipped, Rollback, Prepare,
     CreateBuildJob, JobNameTaken, JobCreationFails, AckStarted, MarkFailed, AddToDlq,
     AckDlq, At, Polling, Continue, Done, StartOver, Fetched, HandledInv, MessagesHaveRows,
     TypeOK, WorkerTypeOK, StreamTypeOK
<1>5. /\ step'[w] \in {"skip", "dlq", "dlqAck"} => row'[cur'[w]] \notin {"absent", "Queued"}
      /\ step'[w] = "ack" => creates'[cur'[w]] > 0
  BY <1>1 DEF Main, MainStep, Claim, Read, Take, AckSkipped, Rollback, Prepare,
     CreateBuildJob, JobNameTaken, JobCreationFails, AckStarted, MarkFailed, AddToDlq,
     AckDlq, At, Polling, InHand, Continue, Done, StartOver, Fetched, SetState, Exists,
     DeploymentStates, CreateJob, dbVars, HandledInv,
     MessagesHaveRows, WorkersKnow, TypeOK, DBTypeOK, WorkerTypeOK, ClusterTypeOK
<1>6. /\ pel' \subseteq Delivered'
      /\ \A d \in Settled' \ Settled :
            d = cur[w] /\ step[w] \in {"skip", "dlqAck", "ack"}
  BY <1>1, OtherSets, XReadSets DEF Main, MainStep, Claim, Read, Take, AckSkipped, Rollback,
     Prepare, CreateBuildJob, JobNameTaken, JobCreationFails, AckStarted, MarkFailed, AddToDlq,
     AckDlq, At, XAutoClaim, XReadGroup, XAck, XAddDlq, streamVars, Settled, TypeOK
<1>7. MessagesHaveRows'
  BY <1>1, <1>2, <1>4, <1>6, Forward DEF HandledInv, MessagesHaveRows
<1>8. WorkersKnow'
  <2>1. \A v \in Workers : step[v] # "poll" => cur[v] \in Deployments
    BY DEF TypeOK, WorkerTypeOK
  <2> QED
    BY <1>2, <1>5, <2>1, Forward DEF HandledInv, WorkersKnow
<1>9. SettledIsHandled'
  <2> SUFFICES ASSUME NEW d \in Settled', row'[d] = "Queued"
               PROVE  creates'[d] > 0
    BY DEF SettledIsHandled
  <2>1. d \in Deployments
    BY <1>1, <1>6 DEF Settled, TypeOK, WorkerTypeOK
  <2> QED
    BY <2>1, <1>3, <1>6, Forward DEF HandledInv, SettledIsHandled, WorkersKnow
<1> QED
  BY <1>7, <1>8, <1>9 DEF HandledInv

LEMMA NextHandled ==
    ASSUME TypeOK, HandledInv, [Next]_vars
    PROVE  HandledInv'
<1>1. ASSUME NEW d \in Deployments, Api(d) PROVE HandledInv'
  BY <1>1, ApiHandled
<1>2. ASSUME NEW w \in Workers, Main(w) PROVE HandledInv'
  BY <1>2, MainHandled
<1>3. ASSUME NEW w \in Workers, Kill(w) PROVE HandledInv'
  <2>1. /\ UNCHANGED <<log, lastRead, pel, req, row>>
        /\ StartOver(w)
    BY <1>3 DEF Kill, KillWorker, streamVars, apiVars, dbVars
  <2> QED
    BY <2>1, AsideHandled
<1>4. ASSUME NEW w \in Workers, NEW d \in Deployments, Monitor(w, d) PROVE HandledInv'
  <2>1. UNCHANGED <<log, lastRead, pel, req>> /\ UNCHANGED workerVars
    BY <1>4 DEF Monitor, streamVars, apiVars
  <2>2. \A e \in Deployments : row'[e] = "Queued" => row[e] = "Queued"
    BY <1>4 DEF Monitor, MonitorStep, PodSeen, PodTimeout, MarkBuilding, JobSeenSucceeded,
       JobSeenFailed, WaitFails, GatePasses, GateBlocks, MarkDeploying, ExceptBlock,
       Cleanup, RecordBuild, SetState, dbVars, TypeOK, DBTypeOK
  <2> QED
    BY <2>1, <2>2, AsideHandled
<1>5. ASSUME NEW d \in Deployments,
             Build(d) \/ TimePasses(d) \/ ControllerDecides(d) \/ ControllerWrites(d)
                 \/ ProjectRemoved(d)
      PROVE  HandledInv'
  <2>1. UNCHANGED <<log, lastRead, pel, req>> /\ UNCHANGED workerVars
    BY <1>5 DEF Build, TimePasses, Age, ControllerDecides, ControllerWrites, ProjectRemoved,
       streamVars, apiVars
  <2>2. \A e \in Deployments : row'[e] = "Queued" => row[e] = "Queued"
    BY <1>5 DEF Build, TimePasses, ControllerDecides, ControllerWrites, ProjectRemoved,
       SetState, DeleteDeployments, dbVars, TypeOK, DBTypeOK
  <2> QED
    BY <2>1, <2>2, AsideHandled
<1>6. CASE UNCHANGED vars
  BY <1>6, AsideHandled DEF vars, streamVars, apiVars, dbVars
<1> QED
  BY <1>1, <1>2, <1>3, <1>4, <1>5, <1>6 DEF Next

LEMMA InitHandled == Init => HandledInv
BY DEF Init, StreamInit, DBInit, ApiInit, WorkerInit, HandledInv, MessagesHaveRows,
   WorkersKnow, SettledIsHandled, Settled, Enqueued, Delivered, Entries

(* No entry of the deploy stream is acknowledged before its deployment has *)
(* been handed on, whatever fails and whoever is killed in between.        *)
THEOREM SettledMeansHandled == Spec => []SettledIsHandled
<1>1. HandledInv => SettledIsHandled
  BY DEF HandledInv
<1> QED
  BY <1>1, TypeCorrect, InitHandled, NextHandled, PTL DEF Spec

-----------------------------------------------------------------------------
(* The refinement.  A deployment whose request has still to be sent is not *)
(* in the stream, and so nothing is in the stream twice.                   *)

UnsentNotThere ==
    \A d \in Deployments : req[d] \in {"new", "xadd"} => d \notin Enqueued

NoneTwice == \A i, j \in 1..Len(log) : log[i] = log[j] => i = j

QueueInv == /\ TypeOK /\ UnsentNotThere /\ NoneTwice
            /\ pel \subseteq Delivered
            /\ AcceptedIsEnqueued

(* What a step does to the stream and to the requests.                     *)
Sends(d) == /\ XAdd(d) /\ req[d] = "xadd" /\ req'[d] \notin {"new", "xadd"}
            /\ \A e \in Deployments \ {d} : req'[e] = req[e]

SendsNone ==
    \A d \in Deployments :
        /\ req'[d] \in {"new", "xadd"} => req[d] \in {"new", "xadd"}
        /\ req'[d] = "accepted" /\ d \notin Rollbacks => req[d] = "accepted"

StreamMove == \/ \E d \in Deployments : Sends(d)
              \/ SendsNone /\ \/ XReadGroup
                              \/ \E d \in Deployments : XAck(d)
                              \/ UNCHANGED <<log, lastRead, pel>>

LEMMA EveryStreamMove == ASSUME TypeOK, [Next]_vars PROVE StreamMove
<1>1. req' = req => SendsNone
  BY DEF SendsNone
<1>2. ASSUME NEW w \in Workers, Main(w) PROVE StreamMove
  <2>1. step[w] # "poll" => cur[w] \in Deployments
    BY DEF TypeOK, WorkerTypeOK
  <2>2. \/ XReadGroup
        \/ \E d \in Deployments : XAck(d)
        \/ UNCHANGED <<log, lastRead, pel>>
    BY <1>2, <2>1 DEF Main, MainStep, Claim, Read, Take, AckSkipped, Rollback, Prepare,
       CreateBuildJob, JobNameTaken, JobCreationFails, AckStarted, MarkFailed, AddToDlq,
       AckDlq, At, XAutoClaim, XAddDlq, streamVars
  <2> QED
    BY <1>1, <1>2, <2>2 DEF Main, apiVars, StreamMove
<1>3. ASSUME NEW d \in Deployments, Api(d) PROVE StreamMove
  <2>1. CASE XAdd(d) /\ req[d] = "xadd" /\ \E phase \in {"accepted", "mark", "refused"} : Answer(d, phase)
    BY <2>1 DEF Answer, TypeOK, ApiTypeOK, Sends, StreamMove
  <2>2. CASE /\ UNCHANGED streamVars
             /\ \/ req[d] = "new" /\ Answer(d, "xadd")
                \/ \E phase \in {"mark", "refused", "lost"} : Answer(d, phase)
                \/ d \in Rollbacks /\ Answer(d, "accepted")
    BY <2>2 DEF Answer, TypeOK, ApiTypeOK, streamVars, SendsNone, StreamMove
  <2> QED
    BY <1>3, <2>1, <2>2, RollbackAssumption
       DEF Api, RequestStep, FinishRequest, Submit, Enqueue, XAddRaises, CreateNotEnqueued,
           AppNotEnqueued, RollbackNotEnqueued, MarkEnqueueFailed, KillApi
<1>4. CASE UNCHANGED <<log, lastRead, pel, req>>
  BY <1>1, <1>4 DEF StreamMove
<1> QED
  BY <1>2, <1>3, <1>4 DEF Next, Monitor, Kill, KillWorker, Build, TimePasses, Age,
     ControllerDecides, ControllerWrites, ProjectRemoved, streamVars, apiVars, vars

LEMMA NextQueueInv == QueueInv /\ [Next]_vars => QueueInv'
<1> SUFFICES ASSUME QueueInv, [Next]_vars PROVE QueueInv'
  OBVIOUS
<1>0. TypeOK' /\ StreamMove /\ StreamTypeOK
  BY NextType, EveryStreamMove DEF QueueInv, TypeOK
<1>1. CASE \E d \in Deployments : Sends(d)
  <2>1. PICK d \in Deployments : Sends(d)
    BY <1>1
  <2>2. /\ Enqueued' = Enqueued \cup {d} /\ Delivered' = Delivered /\ pel' = pel
        /\ d \notin Enqueued
    BY <1>0, <2>1, XAddSets DEF Sends, QueueInv, UnsentNotThere
  <2>3. UnsentNotThere' /\ AcceptedIsEnqueued'
    BY <2>1, <2>2 DEF Sends, QueueInv, UnsentNotThere, AcceptedIsEnqueued
  <2>4. NoneTwice'
    <3>1. /\ Len(log') = Len(log) + 1 /\ Len(log) \in Nat
          /\ \A i \in 1..Len(log) : log'[i] = log[i]
          /\ log'[Len(log) + 1] = d
      BY <1>0, <2>1 DEF Sends, XAdd, StreamTypeOK
    <3>2. \A i \in 1..Len(log) : log[i] # d
      BY <2>2 DEF Enqueued, Entries
    <3> QED
      BY <3>1, <3>2 DEF QueueInv, NoneTwice
  <2> QED
    BY <1>0, <2>2, <2>3, <2>4 DEF QueueInv
<1>2. CASE SendsNone /\ log' = log /\ pel' \subseteq Delivered'
  <2>1. Enqueued' = Enqueued
    BY <1>2 DEF Enqueued, Entries
  <2> QED
    BY <1>0, <1>2, <2>1
       DEF SendsNone, QueueInv, UnsentNotThere, AcceptedIsEnqueued, NoneTwice
<1>3. CASE SendsNone /\ XReadGroup
  BY <1>0, <1>2, <1>3, XReadSets DEF XReadGroup, QueueInv
<1>4. CASE SendsNone /\ ((\E d \in Deployments : XAck(d)) \/ UNCHANGED <<log, lastRead, pel>>)
  BY <1>2, <1>4, OtherSets DEF XAck, QueueInv
<1> QED
  BY <1>0, <1>1, <1>3, <1>4 DEF StreamMove

LEMMA InitQueueInv == Init => QueueInv
<1> SUFFICES ASSUME Init PROVE QueueInv
  OBVIOUS
<1>1. TypeOK /\ log = <<>> /\ pel = {} /\ \A d \in Deployments : req[d] = "new"
  BY InitType DEF Init, StreamInit, ApiInit
<1>2. Enqueued = {} /\ NoneTwice
  BY <1>1 DEF Enqueued, Entries, NoneTwice
<1> QED
  BY <1>1, <1>2 DEF QueueInv, UnsentNotThere, AcceptedIsEnqueued

(* What is not yet read of a stream of which n entries are.                *)
Unread(s, n) == SubSeq(s, n + 1, Len(s))

LEMMA UnreadFacts ==
    ASSUME NEW s \in Seq(Deployments), NEW n \in 0..Len(s)
    PROVE  /\ Unread(s, n) \in Seq(Deployments)
           /\ Len(Unread(s, n)) = Len(s) - n
           /\ \A i \in 1..(Len(s) - n) : Unread(s, n)[i] = s[n + i]
<1>1. Len(s) \in Nat /\ n \in Nat /\ n + 1 \in Int /\ Len(s) \in Int
  OBVIOUS
<1>2. \A i \in (n + 1)..Len(s) : s[i] \in Deployments
  BY <1>1
<1>3. /\ SubSeq(s, n + 1, Len(s)) \in Seq(Deployments)
      /\ Len(SubSeq(s, n + 1, Len(s))) = IF n + 1 <= Len(s) THEN Len(s) - (n + 1) + 1 ELSE 0
      /\ \A i \in 1..(Len(s) - (n + 1) + 1) : SubSeq(s, n + 1, Len(s))[i] = s[n + 1 + i - 1]
  BY <1>1, <1>2, SubSeqProperties
<1> DEFINE u == SubSeq(s, n + 1, Len(s))
<1> HIDE DEF u
<1>4. Len(u) = Len(s) - n
  BY <1>1, <1>3 DEF u
<1>5. ASSUME NEW i \in 1..(Len(s) - n) PROVE u[i] = s[n + i]
  <2>1. i \in 1..(Len(s) - (n + 1) + 1) /\ n + 1 + i - 1 = n + i
    BY <1>1
  <2>2. u[i] = s[n + 1 + i - 1]
    BY <1>3, <2>1 DEF u
  <2> QED
    BY <2>1, <2>2
<1> QED
  BY <1>3, <1>4, <1>5 DEF Unread, u

LEMMA UnreadAppend ==
    ASSUME NEW s \in Seq(Deployments), NEW n \in 0..Len(s), NEW d \in Deployments
    PROVE  Unread(Append(s, d), n) = Append(Unread(s, n), d)
<1> DEFINE a == Append(s, d)
           u == Unread(s, n)
           v == Unread(a, n)
<1>1. /\ a \in Seq(Deployments) /\ Len(a) = Len(s) + 1
      /\ \A i \in 1..Len(s) : a[i] = s[i]
      /\ a[Len(s) + 1] = d
      /\ n \in 0..Len(a) /\ Len(s) \in Nat
  BY AppendProperties
<1> HIDE DEF a
<1>2. u \in Seq(Deployments) /\ Len(u) = Len(s) - n /\ \A i \in 1..(Len(s) - n) : u[i] = s[n + i]
  BY UnreadFacts
<1>3. v \in Seq(Deployments) /\ Len(v) = Len(a) - n /\ \A i \in 1..(Len(a) - n) : v[i] = a[n + i]
  BY <1>1, UnreadFacts
<1> HIDE DEF u, v
<1>4. /\ Append(u, d) \in Seq(Deployments) /\ Len(Append(u, d)) = Len(u) + 1
      /\ \A i \in 1..Len(u) : Append(u, d)[i] = u[i]
      /\ Append(u, d)[Len(u) + 1] = d
  BY <1>2, AppendProperties
<1>5. Len(v) = Len(u) + 1
  BY <1>1, <1>2, <1>3
<1>6. ASSUME NEW i \in 1..Len(v) PROVE v[i] = Append(u, d)[i]
  <2>0. v[i] = a[n + i]
    BY <1>3
  <2>1. CASE i \in 1..Len(u)
    <3>1. n + i \in 1..Len(s) /\ i \in 1..(Len(s) - n)
      BY <1>1, <1>2, <2>1
    <3> QED
      BY <1>1, <1>2, <1>4, <2>0, <2>1, <3>1
  <2>2. CASE i = Len(u) + 1
    <3>1. n + i = Len(s) + 1
      BY <1>1, <1>2, <2>2
    <3> QED
      BY <1>1, <1>4, <2>0, <2>2, <3>1
  <2> QED
    BY <1>2, <1>5, <2>1, <2>2
<1>7. v = Append(u, d)
  BY <1>3, <1>4, <1>5, <1>6, SeqEqual
<1> QED
  BY <1>7 DEF a, u, v

LEMMA UnreadRest ==
    ASSUME NEW s \in Seq(Deployments), NEW n \in 0..Len(s), NEW k \in 0..(Len(s) - n)
    PROVE  Unread(s, n + k) = SubSeq(Unread(s, n), k + 1, Len(Unread(s, n)))
<1>1. Len(s) \in Nat /\ n + k \in 0..Len(s)
  OBVIOUS
<1> DEFINE u == Unread(s, n)
           v == Unread(s, n + k)
           r == Unread(u, k)
<1>2. u \in Seq(Deployments) /\ Len(u) = Len(s) - n /\ \A i \in 1..(Len(s) - n) : u[i] = s[n + i]
  BY UnreadFacts
<1>3. v \in Seq(Deployments) /\ Len(v) = Len(s) - (n + k)
      /\ \A i \in 1..(Len(s) - (n + k)) : v[i] = s[n + k + i]
  BY <1>1, UnreadFacts
<1>4. r \in Seq(Deployments) /\ Len(r) = Len(u) - k /\ \A i \in 1..(Len(u) - k) : r[i] = u[k + i]
  BY <1>1, <1>2, UnreadFacts
<1>5. r = SubSeq(u, k + 1, Len(u))
  BY DEF Unread
<1> HIDE DEF u, v, r
<1>6. \A i \in 1..Len(v) : v[i] = r[i]
  <2> SUFFICES ASSUME NEW i \in 1..Len(v) PROVE v[i] = r[i]
    OBVIOUS
  <2>0. i \in 1..(Len(s) - (n + k)) /\ i \in 1..(Len(u) - k) /\ k + i \in 1..(Len(s) - n)
    BY <1>1, <1>2, <1>3
  <2>1. v[i] = s[n + k + i] /\ r[i] = u[k + i] /\ k + i \in 1..(Len(s) - n)
    BY <1>3, <1>4, <2>0
  <2>2. u[k + i] = s[n + (k + i)]
    BY <1>2, <2>1
  <2>3. n + (k + i) = n + k + i
    BY <1>1
  <2> QED
    BY <2>1, <2>2, <2>3
<1>7. v = r
  BY <1>1, <1>2, <1>3, <1>4, <1>6, SeqEqual
<1> QED
  BY <1>5, <1>7 DEF u, v

LEMMA InUnread ==
    ASSUME NEW s \in Seq(Deployments), NEW n \in 0..Len(s), NEW k \in 0..(Len(s) - n)
    PROVE  {Unread(s, n)[i] : i \in 1..k} = {s[i] : i \in (n + 1)..(n + k)}
<1>1. \A i \in 1..k : Unread(s, n)[i] = s[n + i]
  BY UnreadFacts
<1>2. \A i \in 1..k : n + i \in (n + 1)..(n + k)
  OBVIOUS
<1>3. \A i \in (n + 1)..(n + k) : i - n \in 1..k /\ n + (i - n) = i
  OBVIOUS
<1> QED
  BY <1>1, <1>2, <1>3

QueueVars == <<Unread(log, lastRead), pel, Settled>>

LEMMA SendSim ==
    ASSUME QueueInv, NEW d \in Deployments, Sends(d)
    PROVE  Queue!Next
<1>1. /\ log \in Seq(Deployments) /\ lastRead \in 0..Len(log) /\ Len(log) \in Nat
      /\ log' = Append(log, d) /\ lastRead' = lastRead /\ d \notin Enqueued
  BY DEF QueueInv, TypeOK, StreamTypeOK, Sends, XAdd, UnsentNotThere
<1>2. Delivered' = Delivered /\ pel' = pel /\ Settled' = Settled
  BY XAddSets DEF QueueInv, TypeOK, Sends, Settled
<1>3. Unread(log, lastRead)' = Append(Unread(log, lastRead), d)
  BY <1>1, UnreadAppend
<1>4. Len(Unread(log, lastRead)) = Len(log) - lastRead
  BY <1>1, UnreadFacts
<1>5. d \notin {Unread(log, lastRead)[i] : i \in 1..Len(Unread(log, lastRead))}
  <2> DEFINE k == Len(log) - lastRead
  <2>1. k \in 0..(Len(log) - lastRead) /\ lastRead + k = Len(log)
    BY <1>1
  <2> HIDE DEF k
  <2>2. {Unread(log, lastRead)[i] : i \in 1..k} = {log[i] : i \in (lastRead + 1)..(lastRead + k)}
    BY <1>1, <2>1, InUnread
  <2>3. \A i \in (lastRead + 1)..Len(log) : log[i] # d
    BY <1>1 DEF Enqueued, Entries
  <2> QED
    BY <1>4, <2>1, <2>2, <2>3 DEF k
<1>6. d \notin pel \cup Settled
  BY <1>1, EnqueuedInLog DEF QueueInv, TypeOK, Settled
<1>7. Queue!Send(d)
  BY <1>2, <1>3, <1>5, <1>6 DEF Queue!Send, Queue!InQueue, Unread
<1> QED
  BY <1>7 DEF Queue!Next

LEMMA HandOutSim ==
    ASSUME QueueInv, XReadGroup
    PROVE  Queue!Next \/ UNCHANGED QueueVars
<1> DEFINE k == LastOfBatch - lastRead
<1>1. /\ log \in Seq(Deployments) /\ lastRead \in 0..Len(log) /\ Len(log) \in Nat
      /\ LastOfBatch \in lastRead..Len(log) /\ log' = log /\ lastRead' = LastOfBatch
      /\ pel' = pel \cup NextBatch /\ pel \subseteq Delivered
  BY EnqueuedInLog DEF QueueInv, TypeOK, StreamTypeOK, XReadGroup
<1>2. k \in 0..(Len(log) - lastRead) /\ lastRead + k = LastOfBatch
  BY <1>1
<1>3. Delivered' = Delivered \cup NextBatch
  BY XReadSets DEF QueueInv, TypeOK
<1>4. NextBatch \cap Delivered = {}
  BY <1>1 DEF NextBatch, Delivered, Entries, QueueInv, NoneTwice
<1>5. Settled' = Settled
  BY <1>1, <1>3, <1>4 DEF Settled
<1> HIDE DEF k
<1>6. CASE k = 0
  <2>1. LastOfBatch = lastRead
    BY <1>1, <1>2, <1>6
  <2>2. NextBatch = {}
    BY <1>1, <2>1 DEF NextBatch, Entries
  <2> QED
    BY <1>1, <1>5, <2>1, <2>2 DEF QueueVars
<1>7. CASE k # 0
  <2>1. Unread(log, lastRead)' = SubSeq(Unread(log, lastRead), k + 1, Len(Unread(log, lastRead)))
    BY <1>1, <1>2, UnreadRest
  <2>2. k \in 1..Len(Unread(log, lastRead))
    BY <1>1, <1>2, <1>7, UnreadFacts
  <2>3. {Unread(log, lastRead)[i] : i \in 1..k} = NextBatch
    BY <1>1, <1>2, InUnread DEF NextBatch, Entries
  <2>4. Queue!HandOut(k)
    BY <1>1, <1>5, <2>1, <2>3 DEF Queue!HandOut, Queue!InQueue, Unread
  <2> QED
    BY <2>2, <2>4 DEF Queue!Next, Queue!SomeHandOut, Unread
<1> QED
  BY <1>6, <1>7

LEMMA SettleSim ==
    ASSUME QueueInv, NEW d \in Deployments, XAck(d)
    PROVE  Queue!Next \/ UNCHANGED QueueVars
<1>1. UNCHANGED <<log, lastRead>> /\ pel' = pel \ {d} /\ pel \subseteq Delivered
  BY DEF XAck, QueueInv
<1>2. Delivered' = Delivered /\ Unread(log, lastRead)' = Unread(log, lastRead)
  BY <1>1, OtherSets
<1>3. CASE d \in pel
  <2>1. Settled' = Settled \cup {d}
    BY <1>1, <1>2, <1>3 DEF Settled
  <2>2. Queue!Settle(d)
    BY <1>1, <1>2, <1>3, <2>1 DEF Queue!Settle, Unread
  <2> QED
    BY <2>2 DEF Queue!Next
<1>4. CASE d \notin pel
  BY <1>1, <1>2, <1>4 DEF Settled, QueueVars
<1> QED
  BY <1>3, <1>4

LEMMA QueueSim == QueueInv /\ [Next]_vars => [Queue!Next]_(Queue!qvars)
<1> SUFFICES ASSUME QueueInv, [Next]_vars PROVE Queue!Next \/ UNCHANGED QueueVars
  BY DEF Queue!qvars, QueueVars, Unread
<1>1. CASE UNCHANGED <<log, lastRead, pel>>
  BY <1>1, OtherSets DEF QueueVars, Settled
<1> QED
  BY <1>1, EveryStreamMove, SendSim, HandOutSim, SettleSim DEF StreamMove, QueueInv

(* What XREADGROUP has not delivered is waiting, what is pending is held,  *)
(* and the rest settled: seen so, the stream with its consumers is a       *)
(* first-in first-out queue in which every message is sent and settled at  *)
(* most once, however entries are claimed, read and acknowledged again.    *)
THEOREM StreamIsAQueue == Spec => QueueOrder
<1>1. Init => Queue!Init
  <2> SUFFICES ASSUME Init PROVE Queue!Init
    OBVIOUS
  <2>1. log = <<>> /\ lastRead = 0 /\ pel = {}
    BY DEF Init, StreamInit
  <2>2. SubSeq(log, lastRead + 1, Len(log)) = <<>>
    BY <2>1, SubSeqEmpty
  <2>3. Settled = {}
    BY <2>1 DEF Settled, Delivered, Entries
  <2> QED
    BY <2>1, <2>2, <2>3 DEF Queue!Init
<1> QED
  BY <1>1, InitQueueInv, NextQueueInv, QueueSim, PTL DEF Spec, QueueOrder, Queue!Spec

(* create_deployment and the webhooks answer 2xx only when the message is  *)
(* in the stream, whichever call raises or loses its answer.               *)
THEOREM AcceptedMeansEnqueued == Spec => []AcceptedIsEnqueued
<1>1. QueueInv => AcceptedIsEnqueued
  BY DEF QueueInv
<1> QED
  BY <1>1, InitQueueInv, NextQueueInv, PTL DEF Spec

-----------------------------------------------------------------------------
(* One delivery, one build.  Until XAUTOCLAIM moves it, an entry is in the *)
(* hands of one worker, in its batch or before it, or of none; it is in no *)
(* hands before its delivery, and a Job is created by letting go of it.    *)

Reached(w, d) == step[w] \in {"prepare", "create"} /\ cur[w] = d
Holds(w, d) == d \in batch[w] \/ Reached(w, d)

OnceInv ==
    \A d \in Deployments \ redelivered :
        /\ creates[d] <= 1
        /\ d \notin Delivered => creates[d] = 0 /\ \A w \in Workers : ~Holds(w, d)
        /\ \A w \in Workers : Holds(w, d) =>
              /\ creates[d] = 0
              /\ ~(d \in batch[w] /\ Reached(w, d))
              /\ \A v \in Workers : Holds(v, d) => v = w

(* Nobody gets hold of an entry, and no Job is created.                    *)
LEMMA QuietOnce ==
    ASSUME OnceInv, Delivered' = Delivered, redelivered \subseteq redelivered',
           creates' = creates, \A w \in Workers : batch'[w] \subseteq batch[w],
           \A w \in Workers, d \in Deployments : Reached(w, d)' => Reached(w, d)
    PROVE  OnceInv'
BY DEF OnceInv, Holds

(* What is read has not been delivered before.                             *)
LEMMA NewBatch == ASSUME StreamTypeOK, NoneTwice PROVE NextBatch \cap Delivered = {}
<1>1. /\ lastRead \in Nat /\ Len(log) \in Nat /\ lastRead <= Len(log)
      /\ LastOfBatch \in lastRead..Len(log)
  BY EnqueuedInLog DEF StreamTypeOK
<1>2. ASSUME NEW i \in (lastRead + 1)..LastOfBatch, NEW j \in 1..lastRead, log[i] = log[j]
      PROVE  FALSE
  BY <1>1, <1>2 DEF NoneTwice
<1> QED
  BY <1>2 DEF NextBatch, Delivered, Entries

LEMMA MainOnce ==
    ASSUME QueueInv, OnceInv, NEW w \in Workers, MainStep(w)
    PROVE  OnceInv'
<1>0. /\ step \in [Workers -> Steps] /\ batch \in [Workers -> SUBSET Deployments]
      /\ cur \in [Workers -> Deployments \cup {NoDeployment}]
      /\ step[w] # "poll" => cur[w] \in Deployments
      /\ creates \in [Deployments -> Nat] /\ StreamTypeOK
  BY DEF QueueInv, TypeOK, WorkerTypeOK, ClusterTypeOK
<1>1. CASE Claim(w)
  <2>1. /\ redelivered' = redelivered \cup idle /\ Delivered' = Delivered
        /\ UNCHANGED creates
    BY <1>1, OtherSets DEF Claim, XAutoClaim, clusterVars
  <2>2. /\ batch'[w] \subseteq idle
        /\ \A v \in Workers \ {w} : batch'[v] = batch[v] /\ step'[v] = step[v] /\ cur'[v] = cur[v]
        /\ step'[w] = "poll"
    BY <1>0, <1>1 DEF Claim, Polling, Fetched, StartOver
  <2>3. \A v \in Workers, d \in Deployments \ redelivered' :
          /\ d \in batch'[v] => d \in batch[v]
          /\ Reached(v, d)' => Reached(v, d)
    BY <2>1, <2>2 DEF Reached
  <2> QED
    BY <2>1, <2>3 DEF OnceInv, Holds
<1>2. CASE Read(w)
  <2>1. /\ redelivered' = redelivered /\ Delivered' = Delivered \cup NextBatch
        /\ UNCHANGED creates /\ NextBatch \cap Delivered = {}
    BY <1>0, <1>2, XReadSets, NewBatch DEF Read, XReadGroup, clusterVars, QueueInv
  <2>2. /\ batch'[w] \subseteq NextBatch
        /\ \A v \in Workers \ {w} : batch'[v] = batch[v] /\ step'[v] = step[v] /\ cur'[v] = cur[v]
        /\ step'[w] = "poll"
    BY <1>0, <1>2 DEF Read, Polling, Fetched, StartOver
  <2>3. \A v \in Workers, d \in Deployments \ NextBatch : Holds(v, d)' => Holds(v, d)
    BY <2>2 DEF Holds, Reached
  <2>4. \A d \in NextBatch \cap (Deployments \ redelivered) :
          /\ creates[d] = 0
          /\ \A v \in Workers : Holds(v, d)' => v = w /\ ~Reached(v, d)'
    BY <2>1, <2>2 DEF OnceInv, Holds, Reached
  <2>5. \A v \in Workers, d \in Deployments \ NextBatch :
          d \in batch'[v] /\ Reached(v, d)' => d \in batch[v] /\ Reached(v, d)
    BY <2>2 DEF Reached
  <2> QED
    BY <2>1, <2>3, <2>4, <2>5 DEF OnceInv
<1>3. CASE Take(w)
  <2>1. PICK d \in batch[w] :
          \/ /\ cur' = [cur EXCEPT ![w] = d]
             /\ batch' = [batch EXCEPT ![w] = @ \ {d}]
             /\ \E s \in Steps : step' = [step EXCEPT ![w] = s]
          \/ StartOver(w)
    BY <1>3 DEF Take, Steps
  <2>2. /\ UNCHANGED <<redelivered, creates>> /\ Delivered' = Delivered
        /\ step[w] = "poll"
    BY <1>3, OtherSets DEF Take, streamVars, clusterVars
  <2>3. \A v \in Workers \ {w} : batch'[v] = batch[v] /\ step'[v] = step[v] /\ cur'[v] = cur[v]
    BY <1>0, <2>1 DEF StartOver
  <2>4. /\ d \notin batch'[w] /\ batch'[w] \subseteq batch[w]
        /\ \A e \in Deployments : Reached(w, e)' => e = d
        /\ \A e \in Deployments : ~Reached(w, e)
    BY <1>0, <2>1, <2>2 DEF StartOver, Reached
  <2>5. \A v \in Workers, e \in Deployments :
          /\ Holds(v, e)' => Holds(v, e)
          /\ e \in batch'[v] /\ Reached(v, e)' => e \in batch[v] /\ Reached(v, e)
    BY <2>3, <2>4 DEF Holds, Reached
  <2> QED
    BY <2>2, <2>5 DEF OnceInv
<1>4. CASE /\ At(w, "create") /\ CreateJob(cur[w]) /\ UNCHANGED streamVars
           /\ Continue(w, "ack") \/ Continue(w, "fail")
  <2>1. cur[w] \in Deployments /\ Reached(w, cur[w])
    BY <1>0, <1>4 DEF At, Reached
  <2>2. /\ UNCHANGED <<redelivered, batch, cur>> /\ Delivered' = Delivered
        /\ creates' = [creates EXCEPT ![cur[w]] = @ + 1]
    BY <1>4, OtherSets DEF streamVars, CreateJob, Continue
  <2>3. \A v \in Workers, e \in Deployments :
          Reached(v, e)' => Reached(v, e) /\ v # w
    BY <1>0, <1>4 DEF Continue, Reached
  <2>4. ASSUME cur[w] \notin redelivered
        PROVE  /\ creates[cur[w]] = 0 /\ cur[w] \in Delivered
               /\ \A v \in Workers : ~Holds(v, cur[w])'
    BY <2>1, <2>2, <2>3, <2>4 DEF OnceInv, Holds
  <2>5. /\ creates'[cur[w]] = creates[cur[w]] + 1
        /\ \A e \in Deployments \ {cur[w]} : creates'[e] = creates[e]
    BY <1>0, <2>1, <2>2
  <2>6. \A v \in Workers, e \in Deployments :
          /\ Holds(v, e)' => Holds(v, e)
          /\ e \in batch'[v] /\ Reached(v, e)' => e \in batch[v] /\ Reached(v, e)
    BY <2>2, <2>3 DEF Holds
  <2> QED
    BY <2>2, <2>4, <2>5, <2>6 DEF OnceInv
<1>5. CASE /\ UNCHANGED <<log, lastRead, redelivered, clusterVars>>
           /\ \/ StartOver(w) \/ Done(w)
              \/ \E s \in Steps : Continue(w, s) /\ (s = "create" => step[w] = "prepare")
                                                 /\ s # "prepare"
  <2>1. \A v \in Workers : batch'[v] \subseteq batch[v]
    BY <1>0, <1>5 DEF StartOver, Done, Continue
  <2>2. \A v \in Workers, d \in Deployments : Reached(v, d)' => Reached(v, d)
    BY <1>0, <1>5 DEF StartOver, Done, Continue, Reached
  <2> QED
    BY <1>5, <2>1, <2>2, OtherSets, QuietOnce DEF clusterVars
<1> QED
  BY <1>1, <1>2, <1>3, <1>4, <1>5
     DEF MainStep, AckSkipped, Rollback, Prepare, CreateBuildJob, JobNameTaken,
         JobCreationFails, AckStarted, MarkFailed, AddToDlq, AckDlq, At, XAck, XAddDlq,
         streamVars, Steps

LEMMA NextOnce == QueueInv /\ OnceInv /\ [Next]_vars => OnceInv'
<1> SUFFICES ASSUME QueueInv, OnceInv, [Next]_vars PROVE OnceInv'
  OBVIOUS
<1>0. StreamTypeOK
  BY DEF QueueInv, TypeOK
<1>1. CASE /\ UNCHANGED <<redelivered, creates, workerVars>> /\ Delivered' = Delivered
  BY <1>1, QuietOnce DEF workerVars, Reached
<1>2. ASSUME NEW d \in Deployments, Api(d) PROVE OnceInv'
  <2>1. XAdd(d) \/ UNCHANGED streamVars
    BY <1>2 DEF Api, RequestStep, FinishRequest, Submit, Enqueue, XAddRaises,
       CreateNotEnqueued, AppNotEnqueued, RollbackNotEnqueued, MarkEnqueueFailed, KillApi
  <2>2. Delivered' = Delivered /\ UNCHANGED redelivered
    BY <1>0, <2>1, XAddSets, OtherSets DEF XAdd, streamVars
  <2> QED
    BY <1>1, <1>2, <2>2 DEF Api, clusterVars
<1>3. ASSUME NEW w \in Workers, Kill(w) PROVE OnceInv'
  <2>1. /\ UNCHANGED <<creates, redelivered>> /\ Delivered' = Delivered /\ StartOver(w)
    BY <1>3, OtherSets DEF Kill, KillWorker, clusterVars, streamVars
  <2>2. \A v \in Workers : batch'[v] \subseteq batch[v]
    BY <2>1 DEF StartOver, QueueInv, TypeOK, WorkerTypeOK
  <2>3. \A v \in Workers, d \in Deployments : Reached(v, d)' => Reached(v, d)
    BY <2>1 DEF StartOver, Reached, QueueInv, TypeOK, WorkerTypeOK
  <2> QED
    BY <2>1, <2>2, <2>3, QuietOnce
<1>4. ASSUME NEW w \in Workers, NEW d \in Deployments, Monitor(w, d) PROVE OnceInv'
  BY <1>1, <1>4, OtherSets DEF Monitor, MonitorStep, PodSeen, PodTimeout, MarkBuilding,
     JobSeenSucceeded, JobSeenFailed, WaitFails, GatePasses, GateBlocks, MarkDeploying,
     ExceptBlock, Cleanup, DeleteJob, clusterVars, streamVars
<1>5. ASSUME NEW d \in Deployments, Build(d) \/ TimePasses(d) PROVE OnceInv'
  BY <1>1, <1>5, OtherSets DEF Build, JobSucceeds, JobFails, TimePasses, Age, streamVars,
     clusterVars
<1>6. ASSUME NEW d \in Deployments,
             ControllerDecides(d) \/ ControllerWrites(d) \/ ProjectRemoved(d)
      PROVE  OnceInv'
  BY <1>1, <1>6, OtherSets DEF ControllerDecides, ControllerWrites, ProjectRemoved,
     streamVars, clusterVars
<1>7. CASE UNCHANGED vars
  BY <1>1, <1>7, OtherSets DEF vars, streamVars, clusterVars
<1> QED
  BY <1>2, <1>3, <1>4, <1>5, <1>6, <1>7, MainOnce DEF Next, Main

(* Without a redelivery a deployment never gets a second build Job, for    *)
(* any number of workers and any size of their batches.                    *)
THEOREM DeliveredOnceIsBuiltOnce == Spec => []DeliveredOnceBuildsOnce
<1>1. Init => OnceInv
  BY DEF Init, ClusterInit, WorkerInit, OnceInv, Holds, Reached
<1>2. OnceInv => DeliveredOnceBuildsOnce
  BY DEF OnceInv, DeliveredOnceBuildsOnce
<1>3. QueueInv /\ OnceInv /\ [Next]_vars => QueueInv' /\ OnceInv'
  BY NextQueueInv, NextOnce
<1> QED
  BY <1>1, <1>2, <1>3, InitQueueInv, PTL DEF Spec

-----------------------------------------------------------------------------
(* The states of a deployment, in order.  As long as no call fails and     *)
(* XAUTOCLAIM does not move its entry, a deployment goes from hand to hand *)
(* with nothing in two of them: the entry from the stream to one worker,   *)
(* the build from that worker to its monitor, the rest from the monitor to *)
(* the controller.  Each of them knows the row from its own step.          *)

NoVerdict(d) == \A s \in {"Running", "Failed"} : <<d, s>> \notin verdicts
Untouched(d) == /\ row[d] \in {"absent", "Queued", "deleted"} /\ creates[d] = 0
                /\ d \notin dlq /\ NoVerdict(d)
GivenUp(d) == row[d] \in {"Failed", "deleted"} /\ creates[d] = 0 /\ NoVerdict(d)

Working(w, d) == step[w] # "poll" /\ cur[w] = d
InHands(w, d) == d \in batch[w] \/ Working(w, d)

InOneHand(d) == /\ \A v, w \in Workers : InHands(v, d) /\ InHands(w, d) => v = w
                /\ \A w \in Workers : ~(d \in batch[w] /\ Working(w, d))

NotYet(d) == /\ d \notin Delivered => Untouched(d) /\ \A w \in Workers : ~InHands(w, d)
             /\ \A w \in Workers : d \in batch[w] => Untouched(d)

AtWork(d) ==
    \A w \in Workers : Working(w, d) =>
        /\ step[w] \in {"rollback", "prepare", "create", "fail"} => Untouched(d)
        /\ step[w] \in {"dlq", "dlqAck"} => GivenUp(d)
        /\ step[w] = "rollback" => d \in Rollbacks
        /\ step[w] \in {"prepare", "create"} => d \notin Rollbacks

InDlq(d) == d \in dlq => GivenUp(d)

(* What the monitor at each of its calls knows of the row.                 *)
RowAt(phase) == CASE phase \in {"pod", "mark"} -> {"Queued", "deleted"}
                  [] phase \in {"wait", "gate", "promote"} -> {"Building", "deleted"}
                  [] phase = "except" -> {"Queued", "Building", "deleted"}
                  [] OTHER -> RowStates

Watched(d) == /\ creates[d] > 0 => d \notin Rollbacks
              /\ \A w \in Workers : Live(w, d) =>
                    /\ creates[d] > 0 /\ row[d] \in RowAt(mon[w][d])
                    /\ mon[w][d] # "cleanup" => NoVerdict(d)

Ordered(d) == /\ req[d] # "mark"
              /\ InOneHand(d) /\ NotYet(d) /\ AtWork(d) /\ InDlq(d) /\ Watched(d)

OrderInv == \A d \in Deployments : Orderly(d) => Ordered(d)

(* What the steps of an orderly run may rely on.                           *)
Ground(d) == /\ QueueInv /\ OneMonitorPerJob /\ MessagesHaveRows
             /\ d \in Deployments /\ Ordered(d) /\ ~Fault /\ d \notin redelivered'

(* The step is not about d, or only submits, deletes or lets go of it.     *)
Frame(d) == /\ row'[d] \in {row[d], "deleted"} \/ (row[d] = "absent" /\ row'[d] = "Queued")
            /\ creates'[d] = creates[d] /\ req'[d] # "mark"
            /\ d \in Delivered => d \in Delivered'
            /\ d \in dlq' => d \in dlq
            /\ NoVerdict(d) => NoVerdict(d)'
            /\ \A w \in Workers :
                  /\ d \in batch'[w] => d \in batch[w]
                  /\ Working(w, d)' => Working(w, d) /\ step'[w] = step[w]
                  /\ Live(w, d)' => mon'[w][d] = mon[w][d]

LEMMA Framed ==
    ASSUME NEW d \in Deployments, Ordered(d), Frame(d)
    PROVE  Ordered(d)'
<1>1. /\ Untouched(d) => Untouched(d)'
      /\ GivenUp(d) => GivenUp(d)'
      /\ \A w \in Workers : InHands(w, d)' => InHands(w, d)
  BY DEF Frame, Untouched, GivenUp, InHands
<1>2. InOneHand(d)'
  BY <1>1 DEF Ordered, InOneHand, Frame
<1>3. NotYet(d)'
  BY <1>1 DEF Ordered, NotYet, Frame
<1>4. AtWork(d)'
  BY <1>1 DEF Ordered, AtWork, Frame
<1>5. InDlq(d)'
  BY <1>1 DEF Ordered, InDlq, GivenUp, Frame
<1>6. Watched(d)'
  BY DEF Ordered, Watched, Frame, Live, RowAt, RowStates, DeploymentStates
<1> QED
  BY <1>2, <1>3, <1>4, <1>5, <1>6 DEF Ordered, Frame

(* The workers are done with a deployment that is neither as it was        *)
(* submitted nor given up: only the row, the Job and the monitor move.     *)
LEMMA AfterWork ==
    ASSUME NEW d \in Deployments, Ordered(d), ~Untouched(d), ~GivenUp(d),
           UNCHANGED <<streamVars, workerVars, apiVars, creates>>, Watched(d)'
    PROVE  Ordered(d)'
<1>1. Delivered' = Delivered /\ d \in Delivered /\ d \notin dlq'
  BY OtherSets DEF Ordered, NotYet, InDlq, streamVars
<1>2. /\ InOneHand(d)' /\ NotYet(d)' /\ InDlq(d)'
      /\ \A w \in Workers : /\ Working(w, d)' = Working(w, d) /\ step'[w] = step[w]
                            /\ InHands(w, d)' = InHands(w, d)
  BY <1>1 DEF Ordered, InOneHand, NotYet, InDlq, InHands, Working, workerVars
<1>3. AtWork(d)'
  BY <1>2 DEF Ordered, AtWork
<1> QED
  BY <1>2, <1>3 DEF Ordered, apiVars

LEMMA ApiOrdered ==
    ASSUME NEW d \in Deployments, Ground(d), NEW e \in Deployments, Api(e)
    PROVE  Frame(d)
<1>0. TypeOK /\ StreamTypeOK /\ req[d] # "mark"
  BY DEF Ground, QueueInv, TypeOK, Ordered
<1>1. XAdd(e) \/ UNCHANGED streamVars
  BY DEF Api, RequestStep, FinishRequest, Submit, Enqueue, XAddRaises, CreateNotEnqueued,
     AppNotEnqueued, RollbackNotEnqueued, MarkEnqueueFailed, KillApi
<1>2. Delivered' = Delivered /\ dlq' = dlq
  BY <1>0, <1>1, XAddSets, OtherSets DEF XAdd, streamVars
<1>3. /\ req'[d] # "mark"
      /\ row'[d] = row[d] \/ (row[d] = "absent" /\ row'[d] = "Queued")
  BY <1>0 DEF Api, RequestStep, FinishRequest, Submit, Enqueue, XAddRaises,
     CreateNotEnqueued, AppNotEnqueued, RollbackNotEnqueued, MarkEnqueueFailed, KillApi,
     Answer, InsertDeployment, SetState, dbVars, Ground, TypeOK, DBTypeOK, ApiTypeOK
<1> QED
  BY <1>2, <1>3 DEF Api, clusterVars, monitorVars, workerVars, Frame, NoVerdict, Working, Live

(* The monitor's calls that leave the row alone, when none fails.          *)
MayGo(from, to) == \/ from = "pod" /\ to \in {"mark", "except"}
                   \/ from = "wait" /\ to \in {"gate", "except"}
                   \/ from = "gate" /\ to \in {"promote", "except"}
                   \/ from = "except" /\ to = "cleanup"
                   \/ from = "cleanup" /\ to = "none"

LEMMA MonitorOrdered ==
    ASSUME NEW d \in Deployments, Ground(d), NEW w \in Workers, NEW e \in Deployments,
           Monitor(w, e)
    PROVE  Ordered(d)'
<1>0. /\ TypeOK /\ MonitorTypeOK /\ DBTypeOK /\ MonitorStep(w, e) /\ req[d] # "mark"
      /\ UNCHANGED <<streamVars, workerVars, apiVars, creates, verdicts>>
  BY DEF Ground, QueueInv, TypeOK, Monitor, MonitorStep, PodSeen, PodTimeout, MarkBuilding,
     JobSeenSucceeded, JobSeenFailed, WaitFails, GatePasses, GateBlocks, MarkDeploying,
     ExceptBlock, Cleanup, DeleteJob, clusterVars, Ordered
<1>1. PICK phase \in MonitorPhases :
        /\ Goto(w, e, phase)
        /\ \/ UNCHANGED row /\ MayGo(mon[w][e], phase)
           \/ SetState(e, "Building") /\ mon[w][e] = "mark" /\ phase = "wait"
           \/ SetState(e, "Deploying") /\ mon[w][e] = "promote" /\ phase = "cleanup"
  BY <1>0 DEF MonitorStep, PodSeen, PodTimeout, MarkBuilding, JobSeenSucceeded,
     JobSeenFailed, WaitFails, GatePasses, GateBlocks, MarkDeploying, ExceptBlock, Cleanup,
     MonitorPhases, MayGo, RecordBuild, dbVars, Ground
<1>2. CASE e # d
  <2>1. row'[d] = row[d]
    BY <1>0, <1>1, <1>2 DEF SetState, DBTypeOK
  <2>2. Frame(d)
    BY <1>0, <1>1, <1>2, <2>1, GotoLive, OtherSets DEF streamVars, workerVars, apiVars, Frame,
       NoVerdict, Working
  <2> QED
    BY <2>2, Framed DEF Ground
<1>3. CASE e = d
  <2>1. Live(w, d) /\ \A v \in Workers : Live(v, d) => v = w
    BY <1>1, <1>3 DEF MayGo, Live, Ground, OneMonitorPerJob
  <2>2. /\ creates[d] > 0 /\ d \notin Rollbacks /\ row[d] \in RowAt(mon[w][d])
        /\ ~Untouched(d) /\ ~GivenUp(d)
        /\ mon[w][d] # "cleanup" => NoVerdict(d)
    BY <2>1 DEF Ground, Ordered, Watched, Untouched, GivenUp
  <2>3. mon'[w][d] = phase /\ \A v \in Workers : v # w => mon'[v][d] = mon[v][d]
    BY <1>0, <1>1, <1>3, GotoLive
  <2>4. row[d] \in RowStates /\ row'[d] \in RowStates
    BY <1>0, NextType DEF Next, TypeOK, DBTypeOK
  <2>5. /\ phase # "none" => row'[d] \in RowAt(phase)
        /\ phase \notin {"none", "cleanup"} => mon[w][d] # "cleanup"
        /\ row'[d] # row[d] => \/ row[d] = "Queued" /\ row'[d] = "Building"
                               \/ row[d] = "Building" /\ row'[d] = "Deploying"
    BY <1>0, <1>1, <1>3, <2>2, <2>4 DEF MayGo, SetState, DBTypeOK, RowAt, Exists,
       DeploymentStates
  <2>6. Watched(d)'
    BY <1>0, <2>1, <2>2, <2>3, <2>5 DEF Watched, Live, NoVerdict
  <2>7. d \notin dlq
    BY <2>2 DEF Ground, Ordered, InDlq
  <2> QED
    BY <1>0, <2>2, <2>5, <2>6, <2>7, AfterWork DEF Ground
<1> QED
  BY <1>2, <1>3

LEMMA ControllerOrdered ==
    ASSUME NEW d \in Deployments, Ground(d), NEW e \in Deployments,
           ControllerDecides(e) \/ ControllerWrites(e)
    PROVE  Ordered(d)'
<1>0. /\ TypeOK /\ DBTypeOK /\ MonitorTypeOK /\ req[d] # "mark"
      /\ UNCHANGED <<infraVars, streamVars, clusterVars, monitorVars, workerVars, apiVars>>
  BY DEF Ground, QueueInv, TypeOK, Ordered, ControllerDecides, ControllerWrites
<1>1. CASE e # d
  <2>1. row'[d] = row[d] /\ (NoVerdict(d) => NoVerdict(d)')
    BY <1>0, <1>1 DEF ControllerDecides, ControllerWrites, SetState, dbVars, DBTypeOK,
       NoVerdict
  <2>2. Frame(d)
    BY <1>0, <2>1, OtherSets DEF streamVars, clusterVars, monitorVars, workerVars, apiVars,
       Frame, Working, Live
  <2> QED
    BY <2>2, Framed DEF Ground
<1>2. CASE e = d
  <2>1. \/ row[d] \in {"Deploying", "Running"} /\ row' = row
        \/ ~NoVerdict(d) /\ row'[d] \in {row[d], "Running", "Failed"}
    BY <1>0, <1>2 DEF ControllerDecides, ControllerWrites, SetState, dbVars, DBTypeOK,
       NoVerdict
  <2>2. ~Untouched(d) /\ ~GivenUp(d) /\ d \notin dlq
    BY <2>1 DEF Untouched, GivenUp, Ground, Ordered, InDlq
  <2>3. \A w \in Workers : Live(w, d) => mon[w][d] = "cleanup"
    BY <1>0, <2>1 DEF Ground, Ordered, Watched, RowAt, MonitorTypeOK, MonitorPhases, Live
  <2>4. row'[d] \in RowStates
    BY <1>0, NextType DEF Next, TypeOK, DBTypeOK
  <2>5. Watched(d)'
    BY <1>0, <2>3, <2>4 DEF Ground, Ordered, Watched, RowAt, Live, clusterVars, monitorVars
  <2> QED
    BY <1>0, <2>1, <2>2, <2>5, AfterWork DEF clusterVars, Ground
<1> QED
  BY <1>1, <1>2

(* A worker's call about another deployment, or one that fetches others.   *)
LEMMA OtherWork ==
    ASSUME NEW d \in Deployments, Ground(d), NEW w \in Workers, Main(w),
           \/ Claim(w)
           \/ Read(w) /\ d \notin NextBatch
           \/ Take(w) /\ cur'[w] # d
           \/ step[w] # "poll" /\ cur[w] # d
    PROVE  Frame(d)
<1>0. /\ TypeOK /\ StreamTypeOK /\ DBTypeOK /\ ClusterTypeOK /\ MonitorTypeOK /\ WorkerTypeOK
      /\ step[w] # "poll" => cur[w] \in Deployments
      /\ MainStep(w) /\ req'[d] # "mark" /\ verdicts' = verdicts
  BY DEF Ground, QueueInv, TypeOK, WorkerTypeOK, Main, Ordered, apiVars
<1>1. /\ row'[d] = row[d] /\ creates'[d] = creates[d]
      /\ \A v \in Workers : mon'[v][d] = mon[v][d]
  <2>1. CASE step[w] = "poll"
    BY <1>0, <2>1 DEF MainStep, Claim, Read, Take, AckSkipped, Rollback, Prepare,
       CreateBuildJob, JobNameTaken, JobCreationFails, AckStarted, MarkFailed, AddToDlq,
       AckDlq, At, dbVars, clusterVars
  <2>2. CASE step[w] # "poll" /\ cur[w] # d /\ ~CreateBuildJob(w)
    BY <1>0, <2>2 DEF MainStep, Claim, Read, Take, Polling, AckSkipped, Rollback, Prepare,
       JobNameTaken, JobCreationFails, AckStarted, MarkFailed, AddToDlq,
       AckDlq, At, dbVars, clusterVars, SetState, DBTypeOK, Ground
  <2>3. CASE step[w] # "poll" /\ cur[w] # d /\ CreateBuildJob(w)
    BY <1>0, <2>3, GotoLive DEF CreateBuildJob, At, dbVars, CreateJob, StartMonitor,
       ClusterTypeOK
  <2> QED
    BY <2>1, <2>2, <2>3 DEF Claim, Read, Take, Polling
<1>2. /\ d \in dlq' => d \in dlq
      /\ Delivered' = Delivered \/ XReadGroup
  <2>1. \/ XReadGroup \/ XAutoClaim \/ UNCHANGED streamVars \/ XAck(cur[w])
        \/ XAddDlq(cur[w]) /\ step[w] # "poll"
    BY <1>0 DEF MainStep, Claim, Read, Take, AckSkipped, Rollback, Prepare,
       CreateBuildJob, JobNameTaken, JobCreationFails, AckStarted, MarkFailed, AddToDlq,
       AckDlq, At
  <2>2. XAddDlq(cur[w]) /\ step[w] # "poll" => cur[w] # d
    BY DEF Claim, Read, Take, Polling
  <2> QED
    BY <2>1, <2>2, OtherSets DEF XReadGroup, XAutoClaim, XAck, XAddDlq, streamVars
<1>3. d \in Delivered => d \in Delivered'
  BY <1>0, <1>2, XReadSets
<1>4. \A v \in Workers : v # w => batch'[v] = batch[v] /\ step'[v] = step[v] /\ cur'[v] = cur[v]
  BY <1>0 DEF MainStep, Claim, Read, Take, AckSkipped, Rollback, Prepare, CreateBuildJob,
     JobNameTaken, JobCreationFails, AckStarted, MarkFailed, AddToDlq, AckDlq, StartOver,
     Continue, Done, Fetched, WorkerTypeOK
<1>5. (d \in batch'[w] => d \in batch[w]) /\ ~Working(w, d)'
  <2>1. CASE Claim(w)
    <3>1. d \notin idle
      BY <2>1 DEF Ground, Claim, XAutoClaim
    <3> QED
      BY <1>0, <2>1, <3>1 DEF Claim, Polling, StartOver, Fetched, Working, WorkerTypeOK
  <2>2. CASE Read(w) /\ d \notin NextBatch
    BY <1>0, <2>2 DEF Read, Polling, StartOver, Fetched, Working, WorkerTypeOK
  <2>3. CASE Take(w) /\ cur'[w] # d
    BY <1>0, <2>3 DEF Take, StartOver, Working, WorkerTypeOK
  <2>4. CASE step[w] # "poll" /\ cur[w] # d
    BY <1>0, <2>4 DEF MainStep, Claim, Read, Take, Polling, AckSkipped, Rollback, Prepare,
       CreateBuildJob, JobNameTaken, JobCreationFails, AckStarted, MarkFailed, AddToDlq,
       AckDlq, StartOver, Continue, Done, Working, WorkerTypeOK
  <2> QED
    BY <2>1, <2>2, <2>3, <2>4
<1> QED
  BY <1>0, <1>1, <1>3, <1>4, <1>2, <1>5 DEF Frame, NoVerdict, Working, Live

(* The read that delivers d: nobody has had it before.                     *)
LEMMA ReadOrdered ==
    ASSUME NEW d \in Deployments, Ground(d), NEW w \in Workers, Main(w), Read(w),
           d \in NextBatch
    PROVE  Ordered(d)'
<1>1. /\ d \notin Delivered /\ Untouched(d) /\ \A v \in Workers : ~InHands(v, d)
  BY NewBatch DEF Ground, QueueInv, TypeOK, Ordered, NotYet
<1>2. /\ UNCHANGED <<row, creates, mon, verdicts, dlq, req>> /\ d \in Delivered'
  BY XReadSets DEF Read, Main, XReadGroup, dbVars, clusterVars, apiVars, Ground, QueueInv,
     TypeOK
<1>3. /\ step' = step /\ cur' = cur
      /\ \A v \in Workers : v # w => batch'[v] = batch[v]
  BY DEF Read, Ground, Fetched, QueueInv, TypeOK, WorkerTypeOK
<1>4. Untouched(d)' /\ \A v \in Workers : InHands(v, d)' => v = w /\ ~Working(v, d)'
  BY <1>1, <1>2, <1>3 DEF Untouched, NoVerdict, InHands, Working
<1>5. InOneHand(d)' /\ NotYet(d)' /\ AtWork(d)'
  BY <1>2, <1>4 DEF InOneHand, NotYet, AtWork, InHands
<1> QED
  BY <1>2, <1>4, <1>5 DEF Ground, Ordered, InDlq, Watched, Live, NoVerdict, Untouched

(* The worker takes d from its batch.                                      *)
LEMMA TakeOrdered ==
    ASSUME NEW d \in Deployments, Ground(d), NEW w \in Workers, Main(w), Take(w),
           cur'[w] = d
    PROVE  Ordered(d)'
<1>0. WorkerTypeOK /\ NoDeployment \notin Deployments
  BY WorkerAssumption DEF Ground, QueueInv, TypeOK
<1>1. /\ d \in batch[w] /\ step[w] = "poll"
      /\ cur' = [cur EXCEPT ![w] = d] /\ batch' = [batch EXCEPT ![w] = @ \ {d}]
      /\ step' = [step EXCEPT ![w] = IF InHand(d) THEN "skip"
                                     ELSE IF d \in Rollbacks THEN "rollback"
                                     ELSE "prepare"]
  BY <1>0 DEF Take, Ground, StartOver, WorkerTypeOK
<1>2. /\ UNCHANGED <<row, creates, mon, verdicts, dlq, req>> /\ Delivered' = Delivered
  BY OtherSets DEF Take, Main, dbVars, clusterVars, apiVars, streamVars
<1>3. Untouched(d) /\ d \in Delivered /\ \A v \in Workers : InHands(v, d) => v = w
  BY <1>1 DEF Ground, Ordered, NotYet, InOneHand, InHands
<1>4. /\ Untouched(d)' /\ step'[w] = IF d \in Rollbacks THEN "rollback" ELSE "prepare"
      /\ d \notin batch'[w] /\ \A v \in Workers : InHands(v, d)' => v = w
  BY <1>0, <1>1, <1>2, <1>3 DEF Untouched, NoVerdict, InHand, InHands, Working, WorkerTypeOK
<1>5. InOneHand(d)' /\ NotYet(d)' /\ AtWork(d)'
  BY <1>2, <1>3, <1>4 DEF InOneHand, NotYet, AtWork, InHands
<1> QED
  BY <1>2, <1>4, <1>5 DEF Ground, Ordered, InDlq, Watched, Live, NoVerdict, Untouched

(* The worker's next call for d.                                           *)
LEMMA WorkOrdered ==
    ASSUME NEW d \in Deployments, Ground(d), NEW w \in Workers, Main(w), Working(w, d)
    PROVE  Ordered(d)'
<1>0. /\ TypeOK /\ DBTypeOK /\ ClusterTypeOK /\ MonitorTypeOK /\ WorkerTypeOK /\ StreamTypeOK
      /\ NoDeployment \notin Deployments
      /\ step[w] # "poll" /\ cur[w] = d /\ req'[d] # "mark" /\ verdicts' = verdicts
  BY WorkerAssumption DEF Ground, QueueInv, TypeOK, Working, Main, Ordered, apiVars
<1>1. /\ Delivered' = Delivered /\ d \in Delivered /\ row[d] # "absent"
      /\ batch' = batch /\ d \notin batch[w]
      /\ \A v \in Workers : v # w => /\ step'[v] = step[v] /\ cur'[v] = cur[v]
                                     /\ ~InHands(v, d)
  <2>1. UNCHANGED <<log, lastRead>> /\ batch' = batch
    BY <1>0 DEF Ground, Main, MainStep, Claim, Read, Take, Polling, AckSkipped, Rollback,
       Prepare, CreateBuildJob, JobNameTaken, JobCreationFails, AckStarted, MarkFailed,
       AddToDlq, AckDlq, Continue, Done, XAck, XAddDlq, streamVars
  <2>2. \A v \in Workers : v # w => step'[v] = step[v] /\ cur'[v] = cur[v]
    BY <1>0 DEF Ground, Main, MainStep, Claim, Read, Take, Polling, AckSkipped, Rollback,
       Prepare, CreateBuildJob, JobNameTaken, JobCreationFails, AckStarted, MarkFailed,
       AddToDlq, AckDlq, Continue, Done, WorkerTypeOK
  <2> QED
    BY <1>0, <2>1, <2>2, OtherSets DEF Ground, MessagesHaveRows, Ordered, InOneHand, NotYet,
       InHands, Working
<1>2. /\ \A v \in Workers : Working(v, d)' => v = w
      /\ InOneHand(d)' /\ NotYet(d)'
  BY <1>1 DEF InHands, Working, InOneHand, NotYet
<1>3. ASSUME UNCHANGED <<row, creates, mon, dlq>>,
             \/ step'[w] = "poll" \/ step'[w] \in {"skip", "ack"}
             \/ step'[w] = "create" /\ step[w] = "prepare"
             \/ step'[w] = "fail" /\ Untouched(d)
      PROVE  Ordered(d)'
  <2>1. Untouched(d)' = Untouched(d) /\ GivenUp(d)' = GivenUp(d)
    BY <1>0, <1>3 DEF Untouched, GivenUp, NoVerdict
  <2>2. AtWork(d)'
    BY <1>0, <1>2, <1>3, <2>1 DEF Ground, Ordered, AtWork, Working
  <2> QED
    BY <1>0, <1>2, <1>3, <2>1, <2>2 DEF Ground, Ordered, InDlq, Watched, Live, NoVerdict
<1>4. CASE AckSkipped(w) \/ AckStarted(w) \/ AckDlq(w)
  BY <1>0, <1>3, <1>4 DEF Ground, AckSkipped, AckStarted, AckDlq, Done, XAck, dbVars,
     clusterVars, WorkerTypeOK
<1>5. CASE Prepare(w) \/ JobNameTaken(w)
  <2>1. Untouched(d)
    BY <1>0, <1>5 DEF Prepare, JobNameTaken, At, Ground, Ordered, AtWork, Working
  <2> QED
    BY <1>0, <1>3, <1>5, <2>1 DEF Prepare, JobNameTaken, At, Continue, dbVars, clusterVars,
       streamVars, WorkerTypeOK
<1>6. CASE Rollback(w)
  <2>1. Untouched(d) /\ d \in Rollbacks
    BY <1>0, <1>6 DEF Rollback, At, Ground, Ordered, AtWork, Working
  <2>2. /\ UNCHANGED <<creates, mon, dlq>> /\ step'[w] = "skip"
        /\ row[d] \in {"Queued", "deleted"}
        /\ row'[d] = IF row[d] = "Queued" THEN "Deploying" ELSE "deleted"
    BY <1>0, <1>1, <1>6, <2>1 DEF Ground, Rollback, SetState, Exists, DeploymentStates,
       Continue, Untouched, DBTypeOK, WorkerTypeOK, clusterVars, streamVars
  <2>3. d \notin dlq /\ \A v \in Workers : ~Live(v, d)
    BY <2>1 DEF Untouched, Ground, Ordered, Watched
  <2>4. AtWork(d)'
    BY <1>2, <2>2 DEF AtWork, Working
  <2> QED
    BY <1>0, <1>2, <2>1, <2>2, <2>3, <2>4 DEF Ordered, InDlq, Watched, Live,
       Ground, Untouched
<1>7. CASE CreateBuildJob(w)
  <2>1. Untouched(d) /\ d \notin Rollbacks
    BY <1>0, <1>7 DEF CreateBuildJob, At, Ground, Ordered, AtWork, Working
  <2>2. /\ UNCHANGED <<row, dlq>> /\ step'[w] = "ack" /\ creates'[d] = 1
        /\ row[d] \in {"Queued", "deleted"}
    BY <1>0, <1>1, <1>7, <2>1 DEF CreateBuildJob, CreateJob, Continue, Untouched,
       WorkerTypeOK, ClusterTypeOK, dbVars, streamVars
  <2>3. /\ mon'[w][d] = "pod"
        /\ \A v \in Workers : v # w => ~Live(v, d)'
    <3>1. \A v \in Workers : ~Live(v, d)
      BY <2>1 DEF Untouched, Ground, Ordered, Watched
    <3> QED
      BY <1>0, <1>7, <3>1, GotoLive DEF CreateBuildJob, StartMonitor, Live
  <2>4. NoVerdict(d)' /\ d \notin dlq'
    BY <1>0, <2>1, <2>2 DEF Untouched, NoVerdict
  <2>5. AtWork(d)'
    BY <1>2, <2>2 DEF AtWork, Working
  <2> QED
    BY <1>0, <1>2, <2>1, <2>2, <2>3, <2>4, <2>5 DEF Ordered, InDlq, Watched, RowAt
<1>8. CASE MarkFailed(w)
  <2>1. Untouched(d)
    BY <1>0, <1>8 DEF MarkFailed, At, Ground, Ordered, AtWork, Working
  <2>2. /\ UNCHANGED <<creates, mon, dlq>> /\ step'[w] = "dlq"
        /\ row'[d] \in {"Failed", "deleted"}
    BY <1>0, <1>1, <1>8, <2>1 DEF Ground, MarkFailed, SetState, Exists, DeploymentStates,
       Continue, Untouched, DBTypeOK, WorkerTypeOK, clusterVars, streamVars
  <2>3. GivenUp(d)' /\ d \notin dlq' /\ \A v \in Workers : ~Live(v, d)'
    BY <1>0, <2>1, <2>2 DEF Untouched, GivenUp, NoVerdict, Ground, Ordered, Watched, Live
  <2>4. AtWork(d)'
    BY <1>2, <2>2, <2>3 DEF AtWork, Working
  <2> QED
    BY <1>0, <1>2, <2>2, <2>3, <2>4 DEF Ordered, InDlq, Watched, GivenUp
<1>9. CASE AddToDlq(w)
  <2>1. GivenUp(d) /\ UNCHANGED <<row, creates, mon>> /\ step'[w] = "dlqAck"
    BY <1>0, <1>9 DEF AddToDlq, At, Ground, Ordered, AtWork, Working, Continue, dbVars,
       clusterVars, WorkerTypeOK
  <2>2. GivenUp(d)' /\ \A v \in Workers : ~Live(v, d)'
    BY <1>0, <2>1 DEF GivenUp, NoVerdict, Ground, Ordered, Watched, Live
  <2>3. AtWork(d)'
    BY <1>2, <2>1, <2>2 DEF AtWork, Working
  <2> QED
    BY <1>0, <1>2, <2>1, <2>2, <2>3 DEF Ordered, InDlq, Watched, GivenUp
<1> QED
  BY <1>0, <1>4, <1>5, <1>6, <1>7, <1>8, <1>9
     DEF Main, MainStep, Claim, Read, Take, Polling, JobCreationFails, Ground

LEMMA NextOrdered ==
    ASSUME QueueInv, OneMonitorPerJob, MessagesHaveRows, OrderInv, [Next]_vars,
           NEW d \in Deployments, Orderly(d)'
    PROVE  Ordered(d)'
<1>1. faults = 0 /\ ~Fault
  BY EveryOutcome DEF Orderly, Fault, Crash, NoFault, infraVars, QueueInv, TypeOK, InfraTypeOK
<1>2. redelivered \subseteq redelivered'
  <2>1. ASSUME NEW w \in Workers, Main(w) PROVE redelivered \subseteq redelivered'
    BY <2>1 DEF Main, MainStep, Claim, Read, Take, AckSkipped, Rollback, Prepare,
       CreateBuildJob, JobNameTaken, JobCreationFails, AckStarted, MarkFailed, AddToDlq,
       AckDlq, XAutoClaim, XReadGroup, XAck, XAddDlq, streamVars
  <2>2. ASSUME NEW e \in Deployments, Api(e) PROVE redelivered \subseteq redelivered'
    BY <2>2 DEF Api, RequestStep, FinishRequest, Submit, Enqueue, XAddRaises,
       CreateNotEnqueued, AppNotEnqueued, RollbackNotEnqueued, MarkEnqueueFailed, KillApi,
       XAdd, streamVars
  <2> QED
    BY <2>1, <2>2 DEF Next, Monitor, Kill, KillWorker, Build, TimePasses, Age,
       ControllerDecides, ControllerWrites, ProjectRemoved, streamVars, vars
<1>3. Ground(d)
  BY <1>1, <1>2 DEF Ground, OrderInv, Orderly
<1>4. ASSUME NEW w \in Workers, Main(w) PROVE Ordered(d)'
  <2>1. Frame(d) => Ordered(d)'
    BY <1>3, Framed DEF Ground
  <2>2. CASE Claim(w) \/ Read(w)
    <3>1. CASE Claim(w) \/ (Read(w) /\ d \notin NextBatch)
      BY <1>3, <1>4, <2>1, <3>1, OtherWork
    <3>2. CASE Read(w) /\ d \in NextBatch
      BY <1>3, <1>4, <3>2, ReadOrdered
    <3> QED
      BY <2>2, <3>1, <3>2
  <2>3. CASE Take(w)
    BY <1>3, <1>4, <2>1, <2>3, OtherWork, TakeOrdered
  <2>4. CASE step[w] # "poll"
    BY <1>3, <1>4, <2>1, <2>4, OtherWork, WorkOrdered DEF Working
  <2> QED
    BY <1>4, <2>2, <2>3, <2>4
       DEF Main, MainStep, AckSkipped, Rollback, Prepare, CreateBuildJob, JobNameTaken,
           JobCreationFails, AckStarted, MarkFailed, AddToDlq, AckDlq, At
<1>5. ASSUME NEW w \in Workers, Kill(w) PROVE Frame(d)
  BY <1>3, <1>5, OtherSets DEF Kill, KillWorker, StartOver, KillMonitors, dbVars, streamVars,
     clusterVars, apiVars, Frame, NoVerdict, Working, Live, Ground, Ordered, QueueInv, TypeOK,
     WorkerTypeOK, MonitorTypeOK
<1>6. ASSUME NEW e \in Deployments, Build(e) \/ TimePasses(e) PROVE Frame(d)
  BY <1>3, <1>6, OtherSets DEF Build, JobSucceeds, JobFails, TimePasses, Age, dbVars,
     streamVars, clusterVars, monitorVars, workerVars, apiVars, Frame, NoVerdict, Working,
     Live, Ground, Ordered
<1>7. ASSUME NEW e \in Deployments, ProjectRemoved(e) PROVE Frame(d)
  BY <1>3, <1>7, OtherSets DEF ProjectRemoved, DeleteDeployments,
     streamVars, clusterVars, monitorVars, workerVars, apiVars, Frame, NoVerdict, Working,
     Live, Ground, Ordered
<1>8. CASE UNCHANGED vars
  <2>1. /\ UNCHANGED <<row, creates, req, dlq, verdicts, mon, workerVars>>
        /\ Delivered' = Delivered
    BY <1>8, OtherSets DEF vars, dbVars, streamVars, clusterVars, monitorVars, apiVars
  <2>2. Frame(d)
    BY <1>3, <2>1 DEF workerVars, Frame, NoVerdict, Working, Live, Ground, Ordered
  <2> QED
    BY <1>3, <2>2, Framed DEF Ground
<1> QED
  BY <1>3, <1>4, <1>5, <1>6, <1>7, <1>8, Framed, ApiOrdered, MonitorOrdered,
     ControllerOrdered DEF Next, Ground

(* What LifecycleOrder says of one deployment.  Its row is written by the  *)
(* one who has it in hand, also by a call that fails after it.             *)
InOrder(d) == row'[d] # row[d] =>
                 /\ row'[d] = "Building" => row[d] = "Queued"
                 /\ row'[d] = "Deploying" =>
                       row[d] = IF d \in Rollbacks THEN "Queued" ELSE "Building"
                 /\ d \in dlq => row'[d] = "deleted"

LEMMA RowInOrder ==
    ASSUME TypeOK, MessagesHaveRows, NEW d \in Deployments, Ordered(d), [Next]_vars
    PROVE  InOrder(d)
<1>0. DBTypeOK /\ MonitorTypeOK /\ \A w \in Workers : step[w] # "poll" => cur[w] \in Deployments
  BY DEF TypeOK, WorkerTypeOK
<1>1. CASE row'[d] = row[d]
  BY <1>1 DEF InOrder
<1>2. ASSUME NEW w \in Workers, Rollback(w) \/ MarkFailed(w), row'[d] # row[d]
      PROVE  InOrder(d)
  <2>1. Working(w, d) /\ Exists(d)
    BY <1>0, <1>2 DEF Rollback, MarkFailed, At, SetState, dbVars, DBTypeOK, Working
  <2>2. row[d] = "Queued" /\ d \notin dlq /\ (Rollback(w) => d \in Rollbacks)
    BY <1>2, <2>1 DEF Ordered, AtWork, Untouched, Exists, DeploymentStates, Rollback,
       MarkFailed, At, Working
  <2>3. row'[d] = IF Rollback(w) THEN "Deploying" ELSE "Failed"
    BY <1>0, <1>2, <2>1 DEF Rollback, MarkFailed, At, SetState, dbVars, DBTypeOK, Working
  <2> QED
    BY <2>2, <2>3 DEF InOrder
<1>3. ASSUME NEW w \in Workers, NEW e \in Deployments, Monitor(w, e), row'[d] # row[d]
      PROVE  InOrder(d)
  <2>1. /\ e = d /\ Exists(d) /\ Live(w, d)
        /\ \/ mon[w][d] = "mark" /\ row'[d] = "Building"
           \/ mon[w][d] = "promote" /\ row'[d] = "Deploying"
    BY <1>0, <1>3 DEF Monitor, MonitorStep, PodSeen, PodTimeout, MarkBuilding,
       JobSeenSucceeded, JobSeenFailed, WaitFails, GatePasses, GateBlocks, MarkDeploying,
       ExceptBlock, Cleanup, SetState, RecordBuild, dbVars, DBTypeOK, Live
  <2>2. creates[d] > 0 /\ row[d] \in RowAt(mon[w][d]) /\ d \notin Rollbacks /\ d \notin dlq
    BY <2>1 DEF Ordered, Watched, InDlq, GivenUp
  <2> QED
    BY <2>1, <2>2 DEF RowAt, Exists, DeploymentStates, InOrder
<1>4. ASSUME NEW e \in Deployments, ControllerWrites(e), row'[d] # row[d]
      PROVE  InOrder(d)
  <2>1. ~NoVerdict(d) /\ row'[d] \in {"Running", "Failed"}
    BY <1>0, <1>4 DEF ControllerWrites, SetState, DBTypeOK, NoVerdict
  <2> QED
    BY <2>1 DEF Ordered, InDlq, GivenUp, InOrder
<1>5. ASSUME NEW e \in Deployments, Api(e), row'[d] # row[d] PROVE InOrder(d)
  <2>1. row[d] = "absent" /\ row'[d] = "Queued"
    BY <1>0, <1>5 DEF Api, RequestStep, FinishRequest, Submit, Enqueue, XAddRaises,
       CreateNotEnqueued, AppNotEnqueued, RollbackNotEnqueued, MarkEnqueueFailed, KillApi,
       InsertDeployment, SetState, dbVars, DBTypeOK, Ordered
  <2> QED
    BY <2>1 DEF Ordered, InDlq, GivenUp, InOrder
<1>6. ASSUME NEW e \in Deployments, ProjectRemoved(e), row'[d] # row[d] PROVE InOrder(d)
  BY <1>6 DEF ProjectRemoved, DeleteDeployments, InOrder
<1>7. CASE UNCHANGED row
  BY <1>1, <1>7
<1> QED
  BY <1>1, <1>2, <1>3, <1>4, <1>5, <1>6, <1>7 DEF Next, Main, MainStep, Claim, Read, Take,
     AckSkipped, Prepare, CreateBuildJob, JobNameTaken, JobCreationFails, AckStarted,
     AddToDlq, AckDlq, Kill, KillWorker, Build, TimePasses, ControllerDecides, dbVars, vars

(* A deployment delivered once, in a run without failed calls, goes        *)
(* through its states in order, whatever the controller had decided and    *)
(* however many workers, monitors and other deployments run beside it.     *)
THEOREM StatesComeInOrder == Spec => LifecycleOrder
<1>1. Init => OrderInv
  BY DEF Init, DBInit, StreamInit, ClusterInit, MonitorInit, WorkerInit, ApiInit, OrderInv,
     Ordered, InOneHand, NotYet, AtWork, InDlq, Watched, Untouched, NoVerdict, InHands,
     Working, Live
<1>2. QueueInv /\ OneMonitorPerJob /\ MessagesHaveRows /\ OrderInv /\ [Next]_vars => OrderInv'
  BY NextOrdered DEF OrderInv
<1>3. TypeOK /\ HandledInv /\ OrderInv /\ [Next]_vars
        => [\A d \in Deployments : Orderly(d) /\ row'[d] # row[d] =>
              /\ row'[d] = "Building" => row[d] = "Queued"
              /\ row'[d] = "Deploying" =>
                    row[d] = IF d \in Rollbacks THEN "Queued" ELSE "Building"
              /\ d \in dlq => row'[d] = "deleted"]_vars
  BY RowInOrder DEF OrderInv, InOrder, HandledInv
<1>4. OneMonitorPerJob /\ QueueInv /\ HandledInv /\ OrderInv /\ [Next]_vars => OrderInv'
  BY <1>2 DEF HandledInv
<1>5. Init => OneMonitorPerJob
  BY DEF Init, MonitorInit, OneMonitorPerJob, Live
<1> QED
  BY <1>1, <1>3, <1>4, <1>5, TypeCorrect, JobNameIsALock, InitHandled, NextHandled,
     InitQueueInv, NextQueueInv, PTL DEF Spec, LifecycleOrder
=============================================================================
