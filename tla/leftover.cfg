\* A volume and one retry, without kills: any request may fail.
SPECIFICATION MCSpec
CONSTANTS
    Resource <- HandledResources
    NoResource = NoResource
    NoDest = NoDest
    Requests <- Retried
    CanCrash = FALSE
    MaxRetries = 1
    Volumes = {"volume"}
    Instances <- Booted
    Imaged <- Uploaded
    Labelled = {"volume"}
    Shares = {"share"}
    Client = {host, app}
    LocalHost = host
    PreserveRules = TRUE
    FloatingIps = {"lbIp", "lateIp", "portIp", "spareIp"}
    Ports = {"port"}
    FloatingIpsOf <- IpsOf
    Latecomers = {"lateIp"}
    Router = {gateway, inner, replicated}
    Gateways = {gateway, replicated}
    Unlisted = {replicated}
    Subnet = {"front", "back"}
    SubnetOf <- SubnetsOf
    LoadBalancers = {"lb"}
    Listeners <- ListenersOfBalancer
    Pool = {"web", "api"}
    NoPool = NoPool
    Monitored = {"web"}
    MembersOf <- PoolMembers
    Named <- Naming
    Users = {"user", "servant"}
    Zones = {"zone"}
    Typed = {"flavor"}
    Parts <- NamedParts
    Unresolvable = {"otherProject"}
    Unscoped = {"system"}
    Delegations = {"delegated"}
INVARIANTS RetriedFromScratch
CHECK_DEADLOCK FALSE
