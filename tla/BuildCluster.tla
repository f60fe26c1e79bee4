---------------------------- MODULE BuildCluster ----------------------------
(***************************************************************************)
(* The shipzen-build namespace and the image registry.  A build Job is     *)
(* named after its deployment, so there is at most one at a time and a     *)
(* second create is refused with 409; no ttlSecondsAfterFinished is set,   *)
(* so a Job stays until it is deleted.  backoffLimit is 0 and the deadline *)
(* 30 minutes: a Job ends, once.  Repositories are created IMMUTABLE: the  *)
(* push of a tag that exists is refused, and fails the Job.                *)
(***************************************************************************)
EXTENDS Infra

VARIABLES job,           \* the build Job of a deployment
          image,         \* whether the deployment's image is in the registry
          creates        \* Jobs ever created for the deployment (history)

clusterVars == <<job, image, creates>>

JobStates == {"absent", "active", "succeeded", "failed"}

ClusterTypeOK == /\ job \in [Deployments -> JobStates]
                 /\ image \in [Deployments -> BOOLEAN]
                 /\ creates \in [Deployments -> Nat]

ClusterInit == /\ job = [d \in Deployments |-> "absent"]
               /\ image = [d \in Deployments |-> FALSE]
               /\ creates = [d \in Deployments |-> 0]

(* Mutant: generateName, so that no create is ever refused.  *)
CreateJobAnyName(d) == /\ job' = [job EXCEPT ![d] = "active"]
                       /\ creates' = [creates EXCEPT ![d] = @ + 1]
                       /\ UNCHANGED image

(* batch_v1.create_namespaced_job, when the name is free  *)
CreateJob(d) == /\ job[d] = "absent"
                /\ job' = [job EXCEPT ![d] = "active"]
                /\ creates' = [creates EXCEPT ![d] = @ + 1]
                /\ UNCHANGED image

(* batch_v1.delete_namespaced_job  *)
DeleteJob(d) == /\ job' = [job EXCEPT ![d] = "absent"]
                /\ UNCHANGED <<image, creates>>

(* The build container pushes the image and exits with 0.  *)
JobSucceeds(d) == /\ job[d] = "active" /\ ~image[d]
                  /\ job' = [job EXCEPT ![d] = "succeeded"]
                  /\ image' = [image EXCEPT ![d] = TRUE]
                  /\ UNCHANGED creates

(* It exits with another code, or runs past its deadline, which may be     *)
(* after the push.                                                         *)
JobFails(d) == /\ job[d] = "active"
               /\ job' = [job EXCEPT ![d] = "failed"]
               /\ \E pushed \in BOOLEAN : image' = [image EXCEPT ![d] = @ \/ pushed]
               /\ UNCHANGED creates
=============================================================================
