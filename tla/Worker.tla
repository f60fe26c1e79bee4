------------------------------- MODULE Worker -------------------------------
(***************************************************************************)
(* The main thread of a worker pod (main and process_message).  A round of *)
(* its loop claims what has been pending too long and processes it, then   *)
(* reads new entries and processes them, one at a time in stream order.    *)
(* An exception process_message does not catch drops what is left of the   *)
(* batch and starts the next round; those entries stay pending.            *)
(*                                                                         *)
(* step[w] is the next call of worker w for the entry cur[w]:              *)
(*   poll      between two entries                                         *)
(*   skip      the entry needs nothing more: acknowledge it                *)
(*   rollback  write Deploying, no build                                   *)
(*   prepare   clone, read shipzen.yaml, choose a builder, ensure the      *)
(*             repository                                                  *)
(*   create    create the build Job and start its monitor                  *)
(*   ack       acknowledge, inside the try block                           *)
(*   fail      in the except block, about to write Failed                  *)
(*   dlq       about to copy the entry to the dead letter stream           *)
(*   dlqAck    about to acknowledge it there                               *)
(***************************************************************************)
EXTENDS BuildMonitor, DeployStream

CONSTANTS Rollbacks,     \* deployments whose message has is_rollback set
          NoDeployment

ASSUME WorkerAssumption == /\ Rollbacks \subseteq Deployments
                           /\ NoDeployment \notin Deployments

VARIABLES step, cur,
          nextPoll,      \* the call w's loop makes when its batch is done
          batch          \* entries claimed or read and not yet processed

workerVars == <<step, cur, nextPoll, batch>>

Steps == {"poll", "skip", "rollback", "prepare", "create", "ack", "fail", "dlq", "dlqAck"}

WorkerTypeOK == /\ step \in [Workers -> Steps]
                /\ cur \in [Workers -> Deployments \cup {NoDeployment}]
                /\ nextPoll \in [Workers -> {"claim", "read"}]
                /\ batch \in [Workers -> SUBSET Deployments]
                /\ \A w \in Workers : step[w] # "poll" => cur[w] \in Deployments

WorkerInit == /\ step = [w \in Workers |-> "poll"]
              /\ cur = [w \in Workers |-> NoDeployment]
              /\ nextPoll = [w \in Workers |-> "claim"]
              /\ batch = [w \in Workers |-> {}]

(* The states in which process_message takes a deployment to be handled.   *)
InHandUnlessFailed(d) == row[d] # "Failed"       \* Mutant: and Queued
InHand(d) == row[d] \in {"Building", "Deploying", "Running"}

Polling(w, call) == step[w] = "poll" /\ batch[w] = {} /\ nextPoll[w] = call

At(w, s) == step[w] = s

Continue(w, s) == /\ step' = [step EXCEPT ![w] = s]
                  /\ UNCHANGED <<cur, nextPoll, batch>>

Done(w) == /\ step' = [step EXCEPT ![w] = "poll"]
           /\ cur' = [cur EXCEPT ![w] = NoDeployment]
           /\ UNCHANGED <<nextPoll, batch>>

(* The rest of the batch is forgotten and the loop starts over, after an   *)
(* exception that reaches main and in a restarted pod.                     *)
StartOver(w) == /\ step' = [step EXCEPT ![w] = "poll"]
                /\ cur' = [cur EXCEPT ![w] = NoDeployment]
                /\ nextPoll' = [nextPoll EXCEPT ![w] = "claim"]
                /\ batch' = [batch EXCEPT ![w] = {}]

Fetched(w, ds, call) == /\ batch' = [batch EXCEPT ![w] = ds]
                        /\ nextPoll' = [nextPoll EXCEPT ![w] = call]
                        /\ UNCHANGED <<step, cur>>

-----------------------------------------------------------------------------

(* Mutant: what was claimed is not processed.  *)
ClaimOnly(w) == /\ Polling(w, "claim")
                /\ XAutoClaim
                /\ \/ NoFault /\ Fetched(w, {}, "read")
                   \/ Fault /\ StartOver(w)
                /\ UNCHANGED <<dbVars, clusterVars, mon>>

(* queue.recover_pending_messages(); its answer may be lost.  *)
Claim(w) == /\ Polling(w, "claim")
            /\ XAutoClaim
            /\ \/ NoFault /\ Fetched(w, idle, "read")
               \/ Fault /\ StartOver(w)
            /\ UNCHANGED <<dbVars, clusterVars, mon>>

(* queue.get_messages(count=5); its answer may be lost.  *)
Read(w) == /\ Polling(w, "read")
           /\ XReadGroup
           /\ \/ NoFault /\ Fetched(w, NextBatch, "claim")
              \/ Fault /\ StartOver(w)
           /\ UNCHANGED <<dbVars, clusterVars, mon>>

(* The next entry is taken and its deployment read: state_machine's        *)
(* get_deployment and the decision that rests on it.                       *)
Take(w) ==
    /\ step[w] = "poll"
    /\ \E d \in batch[w] :
         /\ IsOldest(d, batch[w])
         /\ \/ /\ NoFault
               /\ cur' = [cur EXCEPT ![w] = d]
               /\ batch' = [batch EXCEPT ![w] = @ \ {d}]
               /\ step' = [step EXCEPT ![w] = IF InHand(d) THEN "skip"
                                              ELSE IF d \in Rollbacks THEN "rollback"
                                              ELSE "prepare"]
               /\ UNCHANGED nextPoll
            \/ Fault /\ StartOver(w)
    /\ UNCHANGED <<dbVars, streamVars, clusterVars, mon>>

(* Mutant: an entry that needs nothing more is only skipped.  *)
SkipUnacked(w) == /\ At(w, "skip")
                  /\ NoFault /\ Done(w)
                  /\ UNCHANGED <<dbVars, streamVars, clusterVars, mon>>

AckSkipped(w) == /\ At(w, "skip")
                 /\ \/ XAck(cur[w]) /\ NoFault /\ Done(w)
                    \/ Fault /\ StartOver(w) /\ (XAck(cur[w]) \/ UNCHANGED streamVars)
                 /\ UNCHANGED <<dbVars, clusterVars, mon>>

Rollback(w) == /\ At(w, "rollback")
               /\ \/ SetState(cur[w], "Deploying") /\ NoFault /\ Continue(w, "skip")
                  \/ Fault /\ SetState(cur[w], "Deploying") /\ Continue(w, "rollback")
                  \/ /\ Fault /\ StartOver(w)
                     /\ SetState(cur[w], "Deploying") \/ UNCHANGED dbVars
               /\ UNCHANGED <<streamVars, clusterVars, mon>>

(* git clone may fail or run into its 120 second timeout, shipzen.yaml may *)
(* not parse, and no builder may fit.                                      *)
Prepare(w) == /\ At(w, "prepare")
              /\ \E s \in {"create", "fail"} : Continue(w, s)
              /\ NoFault /\ UNCHANGED <<dbVars, streamVars, clusterVars, mon>>

CreateBuildJob(w) == /\ At(w, "create")
                     /\ CreateJob(cur[w])
                     /\ StartMonitor(w, cur[w])
                     /\ Continue(w, "ack")
                     /\ NoFault /\ UNCHANGED <<dbVars, streamVars>>

(* 409: a Job of this name is there.  *)
JobNameTaken(w) == /\ At(w, "create")
                   /\ job[cur[w]] # "absent"
                   /\ Continue(w, "fail")
                   /\ NoFault /\ UNCHANGED <<dbVars, streamVars, clusterVars, mon>>

(* Any other error, one after which the Job exists included.  *)
JobCreationFails(w) == /\ At(w, "create")
                       /\ CreateJob(cur[w]) \/ UNCHANGED clusterVars
                       /\ Continue(w, "fail")
                       /\ Fault /\ UNCHANGED <<dbVars, streamVars, mon>>

(* This acknowledgement is inside the try block: when it raises, the       *)
(* except block fails a deployment whose Job has just been started.        *)
AckStarted(w) ==
    /\ At(w, "ack")
    /\ \/ XAck(cur[w]) /\ NoFault /\ Done(w)
       \/ Fault /\ Continue(w, "fail") /\ (XAck(cur[w]) \/ UNCHANGED streamVars)
    /\ UNCHANGED <<dbVars, clusterVars, mon>>

MarkFailed(w) == /\ At(w, "fail")
                 /\ \/ SetState(cur[w], "Failed") /\ NoFault /\ Continue(w, "dlq")
                    \/ Fault /\ SetState(cur[w], "Failed") /\ Continue(w, "fail")
                    \/ Fault /\ StartOver(w) /\ (SetState(cur[w], "Failed") \/ UNCHANGED dbVars)
                 /\ UNCHANGED <<streamVars, clusterVars, mon>>

AddToDlq(w) == /\ At(w, "dlq")
               /\ \/ XAddDlq(cur[w]) /\ NoFault /\ Continue(w, "dlqAck")
                  \/ Fault /\ StartOver(w) /\ (XAddDlq(cur[w]) \/ UNCHANGED streamVars)
               /\ UNCHANGED <<dbVars, clusterVars, mon>>

AckDlq(w) == /\ At(w, "dlqAck")
             /\ \/ XAck(cur[w]) /\ NoFault /\ Done(w)
                \/ Fault /\ StartOver(w) /\ (XAck(cur[w]) \/ UNCHANGED streamVars)
             /\ UNCHANGED <<dbVars, clusterVars, mon>>

(* The pod is killed and a new one starts: its entries stay pending, and   *)
(* the Jobs its threads followed go on with nobody following them.         *)
KillWorker(w) == /\ Crash
                 /\ StartOver(w)
                 /\ KillMonitors(w)
                 /\ UNCHANGED <<dbVars, streamVars, clusterVars>>

MainStep(w) ==
    \/ Claim(w) \/ Read(w) \/ Take(w) \/ AckSkipped(w) \/ Rollback(w) \/ Prepare(w)
    \/ CreateBuildJob(w) \/ JobNameTaken(w) \/ JobCreationFails(w) \/ AckStarted(w)
    \/ MarkFailed(w) \/ AddToDlq(w) \/ AckDlq(w)
=============================================================================
