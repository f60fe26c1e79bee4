--------------------------- MODULE MCStateMachine ---------------------------
(* Instances for TLC: a monitor and the main thread of one worker pod.     *)
EXTENDS StateMachine

CONSTANTS monitor, main

MonitorAndMain == {[t \in Threads |-> IF t = monitor THEN <<"Building", "Deploying">>
                                      ELSE <<"read", "Failed">>]}
=============================================================================
