\* A subnet is migrated on its own, then its router with its members.
SPECIFICATION Spec
CONSTANTS
    Proc = {p1}
    Resource <- NetworkResources
    NoResource = NoResource
    NoDest = NoDest
    TypeOf <- CloudTypes
    Ref <- CloudRefs
    multitenant_mode = TRUE
    preserve_volume_type = FALSE
    preserve_port_floating_ip = FALSE
    Assoc <- HierarchyAssoc
    Owned <- HierarchyOwned
    Members <- HierarchyMembers
    Contained <- HierarchyContained
    FindOrCreate <- Reusable
    Connects <- Routers
    Swallows <- DeletedIfUnused
    Faults = {}
    CanCrash = FALSE
    Commands = {"start"}
    Requested <- NetworkResources
    Batches <- OneType
    Sweeps <- OneOrAll
    Invocations <- Cascading
    MaxRuns = 2
INVARIANTS MembersConnected
CHECK_DEADLOCK FALSE
