\* One project with one deployment: a failed call, a restart, two drifts.
CONSTANTS
    d1 = d1
    d2 = d2
    p1 = p1
    p2 = p2
    n1 = n1
    Deployments = {d1}
    Projects = {p1}
    Namespaces = {n1}
    ProjectOf <- OneProject
    NamespaceOf <- OneNamespace
    Home <- OneHome
    MaxFaults = 1
    MaxCrashes = 1
    MaxDrifts = 2
    MaxWrites = 3
SPECIFICATION FairSpec
INVARIANTS
    TypeOK
PROPERTIES
    OrphansGo
    MissingIsMade
    TerminatingEnds
