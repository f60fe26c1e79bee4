\* A delete request while the project is being provisioned.
CONSTANTS
    d1 = d1
    d2 = d2
    p1 = p1
    p2 = p2
    n1 = n1
    Deployments = {d1}
    Projects = {p1}
    Namespaces = {n1}
    ProjectOf <- OneProject
    NamespaceOf <- OneNamespace
    Home <- OneHome
    MaxFaults = 0
    MaxCrashes = 0
    MaxDrifts = 0
    MaxWrites = 0
SPECIFICATION FairSpec
PROPERTIES
    DeleteCompletes
