--------------------------- MODULE StatusWriters ---------------------------
(***************************************************************************)
(* What StateMachine.update_state and get_deployment do for the threads of *)
(* a worker pod, without the connection they share: a call writes the row  *)
(* and then publishes, or raises.  It only raises after the database or    *)
(* the network has failed some call; such a failure may have it write the  *)
(* row again, over what others wrote meanwhile, and it may have left a     *)
(* connection on which nothing is committed: the call then publishes what  *)
(* never becomes the row.  StateMachine implements this specification.     *)
(***************************************************************************)
EXTENDS StatusChannel

CONSTANTS Threads,       \* monitor threads and main threads
          Scripts        \* what they may go on to write or "read", each
                         \* in order: one assignment of these

ASSUME ScriptAssumption == Scripts \subseteq [Threads -> Seq(States \cup {"read"})]

VARIABLES todo,          \* the calls a thread has still to finish
          publishing     \* threads that have written and not published

writerVars == <<todo, publishing>>

WritersTypeOK == /\ todo \in [Threads -> Seq(States \cup {"read"})]
                 /\ publishing \subseteq {t \in Threads : todo[t] # <<>> /\ Head(todo[t]) # "read"}

WritersInit == todo \in Scripts /\ publishing = {}

Calls(t, s) == t \notin publishing /\ todo[t] # <<>> /\ Head(todo[t]) = s

Finish(t) == todo' = [todo EXCEPT ![t] = Tail(@)]

(* The exception leaves the call; the thread makes no other.               *)
Abandon(t) == todo' = [todo EXCEPT ![t] = <<>>]

-----------------------------------------------------------------------------

Read(t) == /\ Calls(t, "read")
           /\ Finish(t)
           /\ NoFault /\ UNCHANGED <<publishing, channelVars>>

Update(t, s) == /\ Calls(t, s)
                /\ Write(s) \/ (faults > 0 /\ LoseWrite)
                /\ publishing' = publishing \cup {t}
                /\ NoFault /\ UNCHANGED todo

(* The connection is lost after the row was written; there is one retry.   *)
UpdateUnanswered(t, s) == /\ Calls(t, s)
                          /\ Write(s) \/ (faults > 0 /\ LoseWrite)
                          /\ Abandon(t) \/ UNCHANGED todo
                          /\ Fault /\ UNCHANGED publishing

Raise(t) == /\ t \notin publishing
            /\ Abandon(t)
            /\ Fault \/ (faults > 0 /\ NoFault)
            /\ UNCHANGED <<publishing, channelVars>>

PublishState(t) == /\ t \in publishing
                   /\ TryPublish(Head(todo[t]))
                   /\ Finish(t)
                   /\ publishing' = publishing \ {t}

WriterStep(t) == \/ Read(t) \/ Raise(t) \/ PublishState(t)
                 \/ \E s \in States : Update(t, s) \/ UpdateUnanswered(t, s)

(* A failure that strikes nobody at once.  *)
Failure == Fault /\ UNCHANGED <<channelVars, writerVars>>

WritersSpec ==
    /\ InfraInit /\ ChannelInit /\ WritersInit
    /\ [][Failure \/ \E t \in Threads : WriterStep(t)]_<<infraVars, channelVars, writerVars>>
=============================================================================
