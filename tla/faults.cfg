\* Every external call may fail; the user retries, in batches too, and cleans up.
SPECIFICATION Spec
CONSTANTS
    Proc = {p1}
    Resource <- FaultyResources
    NoResource = NoResource
    NoDest = NoDest
    TypeOf <- CloudTypes
    Ref <- CloudRefs
    multitenant_mode = FALSE
    preserve_volume_type = TRUE
    preserve_port_floating_ip = FALSE
    Assoc <- HierarchyAssoc
    Owned <- HierarchyOwned
    Members <- HierarchyMembers
    Contained <- HierarchyContained
    FindOrCreate <- Reusable
    Connects <- Routers
    Swallows <- DeletedIfUnused
    Faults = {"list", "migrate", "connect", "delete"}
    CanCrash = FALSE
    Commands = {"start", "start-batch", "cleanup-source"}
    Requested <- FaultyResources
    Batches <- OneType
    Sweeps <- OneOrAll
    Invocations <- WithAndWithout
    MaxRuns = 3
INVARIANTS CompleteIsClean RemovedIsGone OneDestination DestinationAccounted InProgressIsLive
PROPERTIES DependenciesFirst
CHECK_DEADLOCK FALSE
