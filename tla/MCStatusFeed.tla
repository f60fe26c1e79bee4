---------------------------- MODULE MCStatusFeed ----------------------------
(* Instance for TLC: a rollback goes through to Running; or the monitor of *)
(* a build has just started when another worker that took the same message *)
(* marks the deployment Failed; or that worker watches the same Job with a *)
(* monitor of its own, which writes Building a second time.                *)
EXTENDS StatusFeed

CONSTANTS monitor, main

Both(ofMonitor, ofMain) == [t \in Threads |-> IF t = monitor THEN ofMonitor ELSE ofMain]

RollbackOrConflict == {Both(<< >>, <<"read", "Deploying">>),
                       Both(<<"Building">>, <<"Failed">>),
                       Both(<<"Building">>, <<"Building">>)}
=============================================================================
