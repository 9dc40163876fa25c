\* The migration of a member fails, then the source of its parent is cleaned up.
SPECIFICATION Spec
CONSTANTS
    Proc = {p1}
    Resource <- NetworkPair
    NoResource = NoResource
    NoDest = NoDest
    TypeOf <- CloudTypes
    Ref <- CloudRefs
    multitenant_mode = FALSE
    preserve_volume_type = FALSE
    preserve_port_floating_ip = FALSE
    Assoc <- HierarchyAssoc
    Owned <- HierarchyOwned
    Members <- HierarchyMembers
    Contained <- HierarchyContained
    FindOrCreate <- Reusable
    Connects <- Routers
    Swallows <- DeletedIfUnused
    Faults = {"migrate"}
    CanCrash = FALSE
    Commands = {"start"}
    Requested <- NetworkPair
    Batches <- OneType
    Sweeps <- OneOrAll
    Invocations <- CascadingCleanup
    MaxRuns = 1
INVARIANTS NothingLost
CHECK_DEADLOCK FALSE
