\* Two invocations at once, either of which may be killed.
SPECIFICATION Spec
CONSTANTS
    Proc = {p1, p2}
    Resource <- VolumeResources
    NoResource = NoResource
    NoDest = NoDest
    TypeOf <- CloudTypes
    Ref <- CloudRefs
    multitenant_mode = FALSE
    preserve_volume_type = FALSE
    preserve_port_floating_ip = FALSE
    Assoc <- HierarchyAssoc
    Owned <- HierarchyOwned
    Members <- HierarchyMembers
    Contained <- HierarchyContained
    FindOrCreate <- Reusable
    Connects <- Routers
    Swallows <- DeletedIfUnused
    Faults = {"delete"}
    CanCrash = TRUE
    Commands = {"start", "cleanup-source", "delete", "restore", "register-external"}
    Requested <- VolumeResources
    Batches <- OneType
    Sweeps <- OneOrAll
    Invocations <- CascadingCleanup
    MaxRuns = 3
INVARIANTS MigratedHasDestination RemovedIsMigrated RemovedIsGone
PROPERTIES ImplementsLedger
SYMMETRY Interchangeable
CHECK_DEADLOCK FALSE
