\* One build message, two workers, one killed pod: what must happen happens.
CONSTANTS
    d1 = d1
    d2 = d2
    w1 = w1
    w2 = w2
    NoDeployment = NoDeployment
    Deployments = {d1}
    Workers = {w1, w2}
    Rollbacks = {}
    Handler <- OneCreate
    BatchSize = 1
    MaxFaults = 0
    MaxCrashes = 1
SPECIFICATION FairSpec
PROPERTIES
    EverySettles
    MonitorsEnd
    ImplementsQueue
