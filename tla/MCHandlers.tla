------------------------------ MODULE MCHandlers ------------------------------
(***************************************************************************)
(* For each kind of handler one or two resources: a volume, an instance    *)
(* booted from an image and one booted from a volume, a share, a load      *)
(* balancer with two listeners and a port with their floating IPs, a       *)
(* floating IP of nothing, and resources that are looked up by name, among *)
(* them a user with a role assignment on the system.                       *)
(***************************************************************************)
EXTENDS HandlerMigrations, TLC

Booted == {"imageBooted", "volumeBooted"}
Uploaded == {"volume", "imageBooted"}
Balancing == {"lb", "lbIp"}
Connecting == {"port", "portIp"}
Identifying == {"user", "zone"}
Typing == {"flavor", "project"}
Naming == Identifying \cup Typing \cup {"servant"}
HandledResources ==
    Booted \cup {"volume", "share", "lateIp", "spareIp"} \cup Balancing \cup Connecting \cup Naming
HandledRequests ==
    {{"volume"}, {"imageBooted"}, {"volumeBooted"}, {"share"},
     {"spareIp"}, {"servant"},
     Balancing, Connecting, Identifying, Typing}

IpsOf == ("lb" :> {"lbIp", "lateIp"}) @@ ("port" :> {"portIp"})
SubnetsOf == ("lb" :> "front") @@ ("port" :> "front")
ListenersOfBalancer == "lb" :> <<"http", "https">>
PoolMembers == ("web" :> {"one", "two"}) @@ ("api" :> {})
NamedParts == ("user" :> {"ownProject", "otherProject"}) @@ ("servant" :> {"ownProject", "system"})
    @@ ("zone" :> {"host", "mail", "delegated"})
    @@ ("flavor" :> {"numa"}) @@ ("project" :> {})

EveryRoute == sourceRoutes = Router \X Subnet
EveryAddress == preserve = {"floating-ip", "port"}
FewRoutes == Cardinality(sourceRoutes) <= 2

\* What a request does not depend on, or another one varies, is fixed.
MCInit ==
    /\ Init
    /\ \A o \in dest : o.of \in wanted
    /\ "share" \notin wanted => rules = {}
    /\ wanted # Balancing => \A l \in Listener : defaultPool[l] = NoPool
    /\ wanted # Connecting => EveryRoute /\ EveryAddress
    /\ wanted = Connecting => FewRoutes
    /\ wanted \notin {Balancing, Connecting} => routes = {}

MCSpec == MCInit /\ [][Next]_vars

\* Requests of the runs that show a disagreement.
SharedPool == {Balancing}
Retried == {{"volume"}}

=============================================================================
