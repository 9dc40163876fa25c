\* A dry run with dependencies and members of a network with a subnet.
SPECIFICATION DryRunSpec
CONSTANTS
    Proc = {p1}
    Resource <- NetworkPair
    NoResource = NoResource
    NoDest = NoDest
    TypeOf <- CloudTypes
    Ref <- CloudRefs
    multitenant_mode = FALSE
    preserve_volume_type = FALSE
    preserve_port_floating_ip = FALSE
    Assoc <- HierarchyAssoc
    Owned <- HierarchyOwned
    Members <- HierarchyMembers
    Contained <- HierarchyContained
    FindOrCreate <- Reusable
    Connects <- Routers
    Swallows <- DeletedIfUnused
    Faults = {}
    CanCrash = FALSE
    Commands = {"start", "dry-run"}
    Requested <- NetworkPair
    Batches <- OneType
    Sweeps <- OneOrAll
    Invocations <- CascadingCleanup
    MaxRuns = 1
    DryInvocations <- Dry
    RecursionLimit = 6
INVARIANTS NoDryReentry
CHECK_DEADLOCK FALSE
