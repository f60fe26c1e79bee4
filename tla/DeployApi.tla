----------------------------- MODULE DeployApi ------------------------------
(***************************************************************************)
(* The four request handlers of the API that submit a deployment.  Each    *)
(* commits the Queued row first and adds the message to the stream after,  *)
(* with nothing that makes the two one step.  They differ in what follows  *)
(* when the XADD raises: create_deployment and github_webhook write Failed *)
(* and answer 500, github_app_webhook answers 500 and leaves the row, and  *)
(* rollback_deployment logs a warning and answers 202.                     *)
(***************************************************************************)
EXTENDS DeployDB, DeployStream

CONSTANT Handler         \* the handler that submits each deployment

Handlers == {"create", "webhook", "app", "rollback"}

ASSUME HandlerAssumption == Handler \in [Deployments -> Handlers]

VARIABLE req             \* where the request of a deployment stands:
                         \* new, xadd, mark (XADD raised), accepted (2xx),
                         \* refused (500), lost (API pod killed)

apiVars == <<req>>

RequestPhases == {"new", "xadd", "mark", "accepted", "refused", "lost"}

ApiTypeOK == req \in [Deployments -> RequestPhases]

ApiInit == req = [d \in Deployments |-> "new"]

Answer(d, phase) == req' = [req EXCEPT ![d] = phase]

Submit(d) == /\ req[d] = "new"
             /\ InsertDeployment(d)
             /\ Answer(d, "xadd")
             /\ NoFault /\ UNCHANGED streamVars

Enqueue(d) == /\ req[d] = "xadd"
              /\ XAdd(d)
              /\ Answer(d, "accepted")
              /\ NoFault /\ UNCHANGED dbVars

(* The XADD raises; the entry may be in the stream all the same.  *)
XAddRaises(d) == /\ req[d] = "xadd"
                 /\ Fault
                 /\ XAdd(d) \/ UNCHANGED streamVars
                 /\ UNCHANGED dbVars

CreateNotEnqueued(d) == /\ Handler[d] \in {"create", "webhook"}
                        /\ XAddRaises(d)
                        /\ Answer(d, "mark")

(* Mutant: swallowed, as in rollback_deployment.  *)
AppNotEnqueuedUnseen(d) == /\ Handler[d] = "app"
                           /\ XAddRaises(d)
                           /\ Answer(d, "accepted")

AppNotEnqueued(d) == /\ Handler[d] = "app"
                     /\ XAddRaises(d)
                     /\ Answer(d, "refused")

RollbackNotEnqueued(d) == /\ Handler[d] = "rollback"
                          /\ XAddRaises(d)
                          /\ Answer(d, "accepted")

(* An error of this UPDATE is swallowed.  *)
MarkEnqueueFailed(d) == /\ req[d] = "mark"
                        /\ \/ SetState(d, "Failed") /\ NoFault
                           \/ Fault /\ (SetState(d, "Failed") \/ UNCHANGED dbVars)
                        /\ Answer(d, "refused")
                        /\ UNCHANGED streamVars

KillApi(d) == /\ req[d] \in {"xadd", "mark"}
              /\ Crash
              /\ Answer(d, "lost")
              /\ UNCHANGED <<dbVars, streamVars>>

(* The handler runs to its answer once it has committed the row.  *)
FinishRequest(d) == Enqueue(d) \/ MarkEnqueueFailed(d)
RequestStep(d) == \/ Submit(d) \/ FinishRequest(d)
                  \/ CreateNotEnqueued(d) \/ AppNotEnqueued(d) \/ RollbackNotEnqueued(d)
=============================================================================
