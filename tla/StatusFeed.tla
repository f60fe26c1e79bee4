----------------------------- MODULE StatusFeed -----------------------------
(***************************************************************************)
(* How the state of a deployment reaches a page that shows it: worker      *)
(* threads and the controller write the row and publish afterwards, each   *)
(* for itself; the API may write Failed and publishes nothing; one page    *)
(* follows.  Which states a worker thread writes, in which order, is what  *)
(* BuildMonitor and Worker say of it; what a call does, StatusWriters.     *)
(***************************************************************************)
EXTENDS StatusWriters, StatusPage

CONSTANT MaxPending      \* events that show the pod Pending, in the 300
                         \* seconds the monitor watches it

ASSUME PendingAssumption == MaxPending \in Nat

VARIABLES verdict,       \* what the controller has decided to write, or
                         \* written and not yet published: <<step, state>>
          enqueue,       \* ok, raised (the XADD of the deployment raised
                         \* and create_deployment has still to write
                         \* Failed) or marked (it has)
          pending        \* events that have shown the pod Pending

vars == <<infraVars, channelVars, writerVars, pageVars, linkVars, verdict, enqueue, pending>>

feedVars == <<verdict, enqueue, pending>>

Verdicts == {<<"none", "none">>} \cup {"decided", "written"} \X Final

TypeOK == /\ InfraTypeOK /\ ChannelTypeOK /\ WritersTypeOK /\ PageTypeOK
          /\ verdict \in Verdicts
          /\ enqueue \in {"ok", "raised", "marked"}
          /\ pending \in 0..MaxPending

Init == /\ InfraInit /\ ChannelInit /\ WritersInit /\ PageInit
        /\ verdict = <<"none", "none">>
        /\ enqueue \in {"ok", "raised"}
        /\ pending = 0

-----------------------------------------------------------------------------
Thread(t) == WriterStep(t) /\ UNCHANGED <<pageVars, linkVars, feedVars>>

(* monitor_job publishes Queued, and writes nothing, for every event that  *)
(* shows the pod of the build Pending.                                     *)
PodPending(t) == /\ Calls(t, "Building")
                 /\ pending < MaxPending /\ pending' = pending + 1
                 /\ Publish("Queued")
                 /\ NoFault /\ UNCHANGED <<writerVars, pageVars, linkVars, verdict, enqueue>>

(* reconcile_deployments reads the row and looks at the cluster.  *)
ControllerDecides ==
    /\ verdict = <<"none", "none">>
    /\ \/ Row = "Deploying" /\ verdict' = <<"decided", "Running">>
       \/ Row = "Running" /\ verdict' = <<"decided", "Failed">>
    /\ NoFault
    /\ UNCHANGED <<channelVars, writerVars, pageVars, linkVars, enqueue, pending>>

ControllerWrites ==
    /\ verdict[1] = "decided"
    /\ Write(verdict[2])
    /\ verdict' = <<"written", verdict[2]>>
    /\ NoFault /\ UNCHANGED <<writerVars, pageVars, linkVars, enqueue, pending>>

ControllerPublishes ==
    /\ verdict[1] = "written"
    /\ TryPublish(verdict[2])
    /\ verdict' = <<"none", "none">>
    /\ UNCHANGED <<writerVars, pageVars, linkVars, enqueue, pending>>

(* create_deployment and github_webhook: UPDATE, no PUBLISH.  *)
ApiMarksFailed ==
    /\ enqueue = "raised"
    /\ Write("Failed")
    /\ enqueue' = "marked"
    /\ NoFault /\ UNCHANGED <<writerVars, pageVars, linkVars, verdict, pending>>

Viewer == /\ \/ OpenPage \/ PageStep \/ SessionStep
             \/ ReadFails \/ IdleDrop \/ SessionBreaks
          /\ UNCHANGED <<writerVars, feedVars>>

Next == \/ \E t \in Threads : Thread(t) \/ PodPending(t)
        \/ ControllerDecides \/ ControllerWrites \/ ControllerPublishes \/ ApiMarksFailed
        \/ Viewer

Spec == Init /\ [][Next]_vars

(* Browser and session go on, a failed update of the row is followed up,   *)
(* and the proxy does not keep an idle socket for ever.  Nothing obliges   *)
(* a writer to start.                                                      *)
Still == UNCHANGED <<writerVars, feedVars>>

FairSpec == /\ Spec
            /\ WF_vars(PageStep /\ Still)
            /\ WF_vars(SessionStep /\ Still)
            /\ WF_vars(IdleDrop /\ Still)

-----------------------------------------------------------------------------

(* Every writer has published what it wrote, no PUBLISH got lost, and the  *)
(* API did not write without publishing.                                   *)
AllPublished == /\ faults = 0 /\ enqueue = "ok"
                /\ verdict[1] # "written"
                /\ publishing = {}

(* Nothing is on its way to the page.  *)
Settled == inbox = <<>> /\ ~wanted /\ answer = 0

(* A page whose session listens and to which nothing more is on its way    *)
(* shows the row as it is: subscribing before reading, reading the row     *)
(* again on every change, and publishing after writing leave no window in  *)
(* which a change is missed, whatever order the writers publish in.  That  *)
(* is so until a redelivered build brings the row back to a passing state: *)
(* the page ignores a message that says what the last one said, also when  *)
(* it has read the row since and found another state.                      *)
NothingMissed ==
    AllPublished /\ ~repeated /\ Settled /\ page = "live" /\ link = "listen" => shown = Row

(* A page never goes back to an older state of the row: it implements the  *)
(* abstract view.                                                          *)
View == INSTANCE LaggingView WITH Values <- States
NeverGoesBack == View!Spec

(* A final state nobody overwrites is shown in the end, also when its      *)
(* PUBLISH got lost or was never made, as long as the page is there and    *)
(* nothing was published that was not committed (a final message makes the *)
(* page stop listening, whatever it then reads).                           *)
FinalIsShown ==
    (Row \in Final /\ page \in {"loading", "live"}) ~>
        (revived \/ uncommitted \/ page = "notfound" \/ shown = Row)
=============================================================================
