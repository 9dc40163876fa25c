\* Members of networks and routers, any of which may fail, with cleanup of the source.
SPECIFICATION FairDryRunSpec
CONSTANTS
    Proc = {p1}
    Resource <- RoutedResources
    NoResource = NoResource
    NoDest = NoDest
    TypeOf <- CloudTypes
    Ref <- CloudRefs
    multitenant_mode = FALSE
    preserve_volume_type = FALSE
    preserve_port_floating_ip = FALSE
    Assoc <- HierarchyAssoc
    Owned <- HierarchyOwned
    Members <- HierarchyMembers
    Contained <- HierarchyContained
    FindOrCreate <- Reusable
    Connects <- Routers
    Swallows <- DeletedIfUnused
    Faults = {"list", "migrate", "connect", "delete"}
    CanCrash = FALSE
    Commands = {"start", "cleanup-source", "dry-run"}
    Requested <- RoutedResources
    Batches <- OneType
    Sweeps <- OneOrAll
    Invocations <- AnyCleanup
    MaxRuns = 3
    DryInvocations <- Dry
    RecursionLimit = 5
INVARIANTS NoReentry OneDestination DryTypeOK DryRunForetells
PROPERTIES OnlyTargetsRemoved Terminates
CHECK_DEADLOCK FALSE
