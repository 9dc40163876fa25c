\* One invocation at a time migrates an instance with its port, networks, subnets,
\* routers and security groups whose rules refer to each other, with dependencies
\* and members; no call fails.
SPECIFICATION FairSpec
CONSTANTS
    Proc = {p1}
    Resource <- CascadeResources
    NoResource = NoResource
    NoDest = NoDest
    TypeOf <- CloudTypes
    Ref <- CloudRefs
    multitenant_mode = TRUE
    preserve_volume_type = FALSE
    preserve_port_floating_ip = FALSE
    Assoc <- HierarchyAssoc
    Owned <- HierarchyOwned
    Members <- HierarchyMembers
    Contained <- HierarchyContained
    FindOrCreate <- Reusable
    Connects <- Routers
    Swallows <- DeletedIfUnused
    Faults = {}
    CanCrash = FALSE
    Commands = {"start", "start-batch"}
    Requested = {"subnet", "router", "network", "groupA", "ruleA", "instance"}
    Batches <- OneType
    Sweeps <- OneOrAll
    Invocations <- Cascading
    MaxRuns = 3
INVARIANTS TypeOK NoReentry HierarchyMigrated
PROPERTIES DependenciesFirst RequestCompletes
CHECK_DEADLOCK FALSE
