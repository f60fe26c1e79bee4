\* One build message, two workers, a failed call and a killed pod.
CONSTANTS
    d1 = d1
    d2 = d2
    w1 = w1
    w2 = w2
    NoDeployment = NoDeployment
    Deployments = {d1}
    Workers = {w1, w2}
    Rollbacks = {}
    Handler <- OneCreate
    BatchSize = 1
    MaxFaults = 1
    MaxCrashes = 1
SPECIFICATION Spec
SYMMETRY WorkerSymmetry
INVARIANTS
    TypeOK
    OneMonitorPerJob
    DeployedHasImage
    SuccessHasImage
    SettledIsHandled
    NoOrphanJob
