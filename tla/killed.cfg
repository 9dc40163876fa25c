\* An invocation is killed while it migrates an instance.
SPECIFICATION Spec
CONSTANTS
    Proc = {p1}
    Resource <- VolumeResources
    NoResource = NoResource
    NoDest = NoDest
    TypeOf <- CloudTypes
    Ref <- CloudRefs
    multitenant_mode = FALSE
    preserve_volume_type = FALSE
    preserve_port_floating_ip = FALSE
    Assoc <- HierarchyAssoc
    Owned <- HierarchyOwned
    Members <- HierarchyMembers
    Contained <- HierarchyContained
    FindOrCreate <- Reusable
    Connects <- Routers
    Swallows <- DeletedIfUnused
    Faults = {}
    CanCrash = TRUE
    Commands = {"start"}
    Requested <- VolumeResources
    Batches <- OneType
    Sweeps <- OneOrAll
    Invocations <- Cascading
    MaxRuns = 2
INVARIANTS InProgressIsLive
CHECK_DEADLOCK FALSE
