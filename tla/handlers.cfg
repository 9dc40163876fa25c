\* Resources of every kind of handler, one request of the user at a time: a
\* call for each resource and one more, any request to a cloud may fail and the
\* process may be killed.
SPECIFICATION MCSpec
CONSTANTS
    Resource <- HandledResources
    NoResource = NoResource
    NoDest = NoDest
    Requests <- HandledRequests
    CanCrash = TRUE
    MaxRetries = 1
    Volumes = {"volume"}
    Instances <- Booted
    Imaged <- Uploaded
    Labelled = {"volume"}
    Shares = {"share"}
    Client = {host, app}
    LocalHost = host
    PreserveRules = TRUE
    FloatingIps = {"lbIp", "lateIp", "portIp", "spareIp"}
    Ports = {"port"}
    FloatingIpsOf <- IpsOf
    Latecomers = {"lateIp"}
    Router = {gateway, inner, replicated}
    Gateways = {gateway, replicated}
    Unlisted = {replicated}
    Subnet = {"front", "back"}
    SubnetOf <- SubnetsOf
    LoadBalancers = {"lb"}
    Listeners <- ListenersOfBalancer
    Pool = {"web", "api"}
    NoPool = NoPool
    Monitored = {"web"}
    MembersOf <- PoolMembers
    Named <- Naming
    Users = {"user", "servant"}
    Zones = {"zone"}
    Typed = {"flavor"}
    Parts <- NamedParts
    Unresolvable = {"otherProject"}
    Unscoped = {"system"}
    Delegations = {"delegated"}
INVARIANTS
    HandlersTypeOK
    NoImageLeft
    AccessWhileMounted UserAccessKept NoForeignAccess AccessPreserved
    FloatingIpsFollow RouteReady FloatingIpLast
    OneNamesake LossReported
PROPERTIES ImageOutlivesCopy HandlersKeepContract
CHECK_DEADLOCK FALSE
