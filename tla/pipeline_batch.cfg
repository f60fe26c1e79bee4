\* A build and a rollback read in one batch by one worker, with a failed call
\* and a killed pod.
CONSTANTS
    d1 = d1
    d2 = d2
    w1 = w1
    w2 = w2
    NoDeployment = NoDeployment
    Deployments = {d1, d2}
    Workers = {w1}
    Rollbacks = {d2}
    Handler <- AppAndRollback
    BatchSize = 2
    MaxFaults = 1
    MaxCrashes = 1
SPECIFICATION Spec
INVARIANTS
    DeliveredOnceBuildsOnce
    AcceptedIsEnqueued
PROPERTIES
    QueueOrder
    LifecycleOrder
