---------------------------- MODULE BuildMonitor ----------------------------
(***************************************************************************)
(* The threads that follow build Jobs (monitor_job).  mon[w][d] is where   *)
(* the thread of worker w for deployment d stands:                         *)
(*   none     no such thread                                               *)
(*   pod      watching for the pod of the Job to leave Pending             *)
(*   mark     about to write Building                                      *)
(*   wait     streaming the logs, then polling the Job                     *)
(*   gate     the Job succeeded: port detection and the image scan         *)
(*   promote  the Success build is recorded, about to write Deploying      *)
(*   except   in the outer "except Exception" block                        *)
(*   cleanup  in the finally block, about to delete the Job                *)
(*                                                                         *)
(* The three failure blocks count a metric labelled with project_id_db, a  *)
(* name that exists in process_message and not in monitor_job.  The        *)
(* NameError is raised after record_build and before update_state, so      *)
(* none of them ever writes Failed: the first two fall into the outer      *)
(* except block, and that one falls through to finally and out of the      *)
(* thread.                                                                 *)
(***************************************************************************)
EXTENDS DeployDB, BuildCluster

CONSTANT Workers         \* worker pods, each one consumer of the group

VARIABLE mon

monitorVars == <<mon>>

MonitorPhases == {"none", "pod", "mark", "wait", "gate", "promote", "except", "cleanup"}

MonitorTypeOK == mon \in [Workers -> [Deployments -> MonitorPhases]]

MonitorInit == mon = [w \in Workers |-> [d \in Deployments |-> "none"]]

Live(w, d) == mon[w][d] # "none"

Goto(w, d, phase) == mon' = [mon EXCEPT ![w][d] = phase]

(* threading.Thread(target=monitor_job, ...).start()  *)
StartMonitor(w, d) == Goto(w, d, "pod")

(* Every thread of a killed pod is gone.  *)
KillMonitors(w) == mon' = [mon EXCEPT ![w] = [d \in Deployments |-> "none"]]

-----------------------------------------------------------------------------

(* Mutant: the Building update is forgotten.  *)
PodSeenUnmarked(w, d) == /\ mon[w][d] = "pod"
                         /\ job[d] # "absent"
                         /\ Goto(w, d, "wait")
                         /\ NoFault /\ UNCHANGED <<dbVars, clusterVars>>

(* The watch shows a pod of the Job that runs or has ended.  *)
PodSeen(w, d) == /\ mon[w][d] = "pod"
                 /\ job[d] # "absent"
                 /\ Goto(w, d, "mark")
                 /\ NoFault /\ UNCHANGED <<dbVars, clusterVars>>

(* It shows none for 300 seconds.  *)
PodTimeout(w, d) == /\ mon[w][d] = "pod"
                    /\ Goto(w, d, "except")
                    /\ NoFault /\ UNCHANGED <<dbVars, clusterVars>>

(* update_state: when its first UPDATE is not answered it writes again,    *)
(* here as in every other call of it; only then the error gets out.        *)
MarkBuilding(w, d) ==
    /\ mon[w][d] = "mark"
    /\ \/ SetState(d, "Building") /\ Goto(w, d, "wait") /\ NoFault
       \/ Fault /\ SetState(d, "Building") /\ Goto(w, d, "mark")
       \/ Fault /\ Goto(w, d, "except") /\ (SetState(d, "Building") \/ UNCHANGED dbVars)
    /\ UNCHANGED clusterVars

(* Mutant: a Job that has ended is taken for one that succeeded.  *)
JobSeenEnded(w, d) == /\ mon[w][d] = "wait"
                      /\ job[d] \in {"succeeded", "failed"}
                      /\ Goto(w, d, "gate")
                      /\ NoFault /\ UNCHANGED <<dbVars, clusterVars>>

JobSeenSucceeded(w, d) == /\ mon[w][d] = "wait"
                          /\ job[d] = "succeeded"
                          /\ Goto(w, d, "gate")
                          /\ NoFault /\ UNCHANGED <<dbVars, clusterVars>>

(* Mutant: only success ends the polling.  *)
JobFailureMissed(w, d) == /\ mon[w][d] = "wait"
                          /\ job[d] = "failed"
                          /\ NoFault /\ UNCHANGED <<dbVars, clusterVars, mon>>

JobSeenFailed(w, d) == /\ mon[w][d] = "wait"
                       /\ job[d] = "failed"
                       /\ RecordBuild(d, "Failed")
                       /\ Goto(w, d, "except")
                       /\ UNCHANGED clusterVars

(* Mutant: an error ends the polling as success does.  *)
WaitFailsOpen(w, d) == /\ mon[w][d] = "wait"
                       /\ Fault \/ (job[d] = "absent" /\ NoFault)
                       /\ Goto(w, d, "gate")
                       /\ UNCHANGED <<dbVars, clusterVars>>

(* The log stream breaks or the Job cannot be read, whether it has ended   *)
(* or not; a Job that is not there (404) is such an error.                 *)
WaitFails(w, d) == /\ mon[w][d] = "wait"
                   /\ Fault \/ (job[d] = "absent" /\ NoFault)
                   /\ Goto(w, d, "except")
                   /\ UNCHANGED <<dbVars, clusterVars>>

(* The scan finds nothing critical, or is not complete after 12 polls.     *)
GatePasses(w, d) == /\ mon[w][d] = "gate"
                    /\ RecordBuild(d, "Success")
                    /\ Goto(w, d, "promote")
                    /\ UNCHANGED clusterVars

(* A critical finding, or any error while polling the scan.  *)
GateBlocks(w, d) == /\ mon[w][d] = "gate"
                    /\ RecordBuild(d, "Failed")
                    /\ Goto(w, d, "except")
                    /\ UNCHANGED clusterVars

MarkDeploying(w, d) ==
    /\ mon[w][d] = "promote"
    /\ \/ SetState(d, "Deploying") /\ Goto(w, d, "cleanup") /\ NoFault
       \/ Fault /\ SetState(d, "Deploying") /\ Goto(w, d, "promote")
       \/ Fault /\ Goto(w, d, "except") /\ (SetState(d, "Deploying") \/ UNCHANGED dbVars)
    /\ UNCHANGED clusterVars

(* record_build, then the NameError: update_state is not reached.  *)
ExceptBlock(w, d) == /\ mon[w][d] = "except"
                     /\ RecordBuild(d, "Failed")
                     /\ Goto(w, d, "cleanup")
                     /\ UNCHANGED clusterVars

(* Mutant: no delete in the finally block.  *)
CleanupKeepsJob(w, d) == /\ mon[w][d] = "cleanup"
                         /\ Goto(w, d, "none")
                         /\ NoFault /\ UNCHANGED <<dbVars, clusterVars>>

(* An error of the delete is swallowed, and the Job may stay.  *)
Cleanup(w, d) == /\ mon[w][d] = "cleanup"
                 /\ \/ DeleteJob(d) /\ NoFault
                    \/ Fault /\ (DeleteJob(d) \/ UNCHANGED clusterVars)
                 /\ Goto(w, d, "none")
                 /\ UNCHANGED dbVars

MonitorStep(w, d) ==
    \/ PodSeen(w, d) \/ PodTimeout(w, d) \/ MarkBuilding(w, d)
    \/ JobSeenSucceeded(w, d) \/ JobSeenFailed(w, d) \/ WaitFails(w, d)
    \/ GatePasses(w, d) \/ GateBlocks(w, d) \/ MarkDeploying(w, d)
    \/ ExceptBlock(w, d) \/ Cleanup(w, d)
=============================================================================
