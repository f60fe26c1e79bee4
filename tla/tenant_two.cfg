\* Two projects that share a namespace: a failed call and a restart.
CONSTANTS
    d1 = d1
    d2 = d2
    p1 = p1
    p2 = p2
    n1 = n1
    Deployments = {d1, d2}
    Projects = {p1, p2}
    Namespaces = {n1}
    ProjectOf <- EachProject
    NamespaceOf <- OneNamespace
    Home <- OneHome
    MaxFaults = 1
    MaxCrashes = 1
    MaxDrifts = 0
    MaxWrites = 1
SPECIFICATION Spec
INVARIANTS
    GoneLeavesNothing
    TenantsIsolated
    ReadyHasNamespace
    RunningIsUp
