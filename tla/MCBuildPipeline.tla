-------------------------- MODULE MCBuildPipeline --------------------------
(* Instances of BuildPipeline for TLC.  *)
EXTENDS BuildPipeline, TLC

CONSTANTS d1, d2, w1, w2

OneCreate == [d \in Deployments |-> "create"]
AppAndRollback == [d \in Deployments |-> IF d = d1 THEN "app" ELSE "rollback"]

WorkerSymmetry == Permutations(Workers)
=============================================================================
