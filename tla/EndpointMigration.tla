--------------------------- MODULE EndpointMigration ---------------------------
(***************************************************************************)
(* How floating IPs and ports are migrated: the floating IP first, with an *)
(* interface on a destination router that leads to the port's network,     *)
(* then the port, to which its floating IPs are attached anew              *)
(* (src/sunbeam_migrate/handlers/neutron/floating_ip.py, port.py,          *)
(* utils/neutron_utils.py).                                                *)
(***************************************************************************)
EXTENDS HandlerCall

CONSTANTS
    FloatingIps,   \* the resources of these types
    Ports,
    FloatingIpsOf, \* FloatingIpsOf[e]: floating IPs of an endpoint: a port
                   \* (none unless preserve_port_floating_ip is set), or a
                   \* load balancer through its VIP port
    Latecomers,    \* those that may be attached to their endpoint after its
                   \* dependencies have been looked up
    Router,        \* routers, of which Gateways lead to the external network
    Gateways,
    Unlisted,      \* distributed and highly available routers, whose interfaces
                   \* have a device_owner of their own
    Subnet,        \* subnets of the one network the endpoints are on
    SubnetOf       \* SubnetOf[e]: the one of its fixed address

Endpoints == DOMAIN FloatingIpsOf

ASSUME EndpointAssumption ==
    /\ FloatingIps \cup Ports \subseteq Resource
    /\ Ports \subseteq Endpoints
    /\ FloatingIpsOf \in [Endpoints -> SUBSET FloatingIps]
    /\ \A e, x \in Endpoints : e # x => FloatingIpsOf[e] \cap FloatingIpsOf[x] = {}
    /\ Latecomers \subseteq FloatingIps
    /\ Gateways \cup Unlisted \subseteq Router
    /\ SubnetOf \in [Endpoints -> Subnet]

VARIABLES
    preserve,      \* types whose addresses are kept, as the options
                   \* preserve_port_floating_ip_address, preserve_port_fixed_ips say
    sourceRoutes,  \* <<router, subnet>> for the interfaces on the source cloud
    routes,        \* the interfaces of the migrated routers
    route,         \* the interface the running call is to add
    unattached,    \* floating IPs the running call has still to attach
    attached       \* <<floating IP, endpoint>>, both on the destination

endpointVars == <<preserve, sourceRoutes, routes, route, unattached, attached>>

Reachable(subnet, interfaces) == \E g \in Gateways : <<g, subnet>> \in interfaces

\* Floating IPs work on the source cloud.  The interfaces of a router have been
\* migrated with it, or not: they are members of it.
EndpointInit ==
    /\ preserve \in SUBSET {"floating-ip", "port"}
    /\ sourceRoutes \in SUBSET (Router \X Subnet)
    /\ \A e \in Endpoints :
          FloatingIpsOf[e] # {} => Reachable(SubnetOf[e], sourceRoutes)
    /\ routes \in {{}, sourceRoutes}
    /\ route = <<>>
    /\ unattached = {}
    /\ attached = {}

AttachedOnSource(f) == \E e \in Endpoints : f \in FloatingIpsOf[e]

\* An earlier call has left its object behind, which still has the address.
AddressTaken(r) ==
    /\ (IF r \in Ports THEN "port" ELSE "floating-ip") \in preserve
    /\ \E o \in dest : o.of = r

\* The interfaces the floating IP handler finds: those whose device_owner is
\* network:router_interface.
Listed == {i \in sourceRoutes : i[1] \notin Unlisted}

-----------------------------------------------------------------------------
(* Floating IPs.                                                           *)

BeginFloatingIp ==
    /\ \E f \in FloatingIps : Begin(f, "findRoute")
    /\ UNCHANGED endpointVars

\* A variant of a definition that carries a plausible mistake precedes it; no
\* action uses one.  They are there to see that the properties notice.
FindRouteOnly ==
    /\ Running("findRoute")
    /\ AttachedOnSource(job.res)
    /\ route' \in Listed
    /\ Goto("createIp")
    /\ UNCHANGED <<dest, preserve, sourceRoutes, routes, unattached, attached>>

\* _get_router_from_floating_ip: the first router found that has an interface
\* on some subnet of the port's network, in no particular order.
FindRoute ==
    /\ Running("findRoute")
    /\ AttachedOnSource(job.res)
    /\ route' \in Listed
    /\ Goto(IF route' \in routes THEN "createIp" ELSE "addInterface")
    /\ UNCHANGED <<dest, preserve, sourceRoutes, routes, unattached, attached>>

\* Not the interface that was found when the dependencies were listed: its
\* router or subnet is not among the migrated resources, which is only logged.
SkipInterface ==
    /\ Running("findRoute")
    /\ AttachedOnSource(job.res)
    /\ \E announced, found \in Listed : announced # found
    /\ Goto("createIp")
    /\ UNCHANGED <<dest, endpointVars>>

\* None is needed, or none found: the handler goes on without.
NoRoute ==
    /\ Running("findRoute")
    /\ ~AttachedOnSource(job.res) \/ Listed = {}
    /\ Goto("createIp")
    /\ UNCHANGED <<dest, endpointVars>>

FindRouteFails ==
    /\ Running("findRoute")
    /\ FailCall("findRoute")
    /\ UNCHANGED <<dest, endpointVars>>

\* "to allow floating IP association"
AddInterface ==
    /\ Running("addInterface")
    /\ routes' = routes \cup {route}
    /\ Goto("createIp")
    /\ UNCHANGED <<dest, preserve, sourceRoutes, route, unattached, attached>>

AddInterfaceFails ==
    /\ Running("addInterface")
    /\ routes' \in PerhapsAdded(routes, {route})
    /\ FailCall("addInterface")
    /\ UNCHANGED <<dest, preserve, sourceRoutes, route, unattached, attached>>

CreateIp ==
    /\ Running("createIp")
    /\ ~AddressTaken(job.res)
    /\ dest' = dest \cup {This}
    /\ Goto("done")
    /\ UNCHANGED endpointVars

CreateIpFails ==
    /\ Running("createIp")
    /\ dest' \in IF AddressTaken(job.res) THEN {dest}
                 ELSE PerhapsAdded(dest, {This})
    /\ FailCall("createIp")
    /\ UNCHANGED endpointVars

-----------------------------------------------------------------------------
(* Ports.                                                                  *)

\* The floating IPs that were found as dependencies have been migrated.
EndpointReady(e) ==
    \A f \in FloatingIpsOf[e] \ Latecomers : status[f] = "migrated"

BeginPort ==
    /\ \E p \in Ports :
          /\ EndpointReady(p)
          /\ Begin(p, "createPort")
    /\ UNCHANGED endpointVars

\* The list of floating IPs is a generator: it is fetched when the loop over it
\* starts, with the port in place.
CreatePort ==
    /\ Running("createPort")
    /\ ~AddressTaken(job.res)
    /\ dest' = dest \cup {This}
    /\ unattached' = FloatingIpsOf[job.res]
    /\ Goto("reattach")
    /\ UNCHANGED <<preserve, sourceRoutes, routes, route, attached>>

CreatePortFails ==
    /\ Running("createPort")
    /\ dest' \in IF AddressTaken(job.res) THEN {dest}
                 ELSE PerhapsAdded(dest, {This})
    /\ FailCall("createPort")
    /\ UNCHANGED endpointVars

\* The floating IP must be among the dependencies of this call.  One that is
\* attached late may have been migrated without being one of them, so that a
\* call may also fail or (for a load balancer) skip it although this holds.
\* Neutron refuses when no router leads from the endpoint's subnet to the
\* floating IP's network.
Attachable(f) == status[f] = "migrated" /\ Reachable(SubnetOf[job.res], routes)

AttachedTo(f, o) ==
    {a \in attached : a[1] # destination[f]} \cup {<<destination[f], o>>}

Reattach(pc) ==
    /\ Running(pc)
    /\ \E f \in unattached :
          /\ Attachable(f)
          /\ attached' = AttachedTo(f, This)
          /\ unattached' = unattached \ {f}
    /\ Goto(pc)
    /\ UNCHANGED <<dest, preserve, sourceRoutes, routes, route>>

\* The floating IPs cannot be listed, or one of them cannot be attached.
ReattachFails(pc) ==
    /\ Running(pc)
    /\ attached' \in {attached} \cup
          {AttachedTo(f, This) : f \in {x \in unattached : Attachable(x)}}
    /\ FailCall("attach")
    /\ UNCHANGED <<dest, preserve, sourceRoutes, routes, route, unattached>>

SomeAttached(pc) ==
    /\ Running(pc)
    /\ Goto("done")
    /\ UNCHANGED <<dest, endpointVars>>

AllAttached(pc) ==
    /\ Running(pc)
    /\ unattached = {}
    /\ Goto("done")
    /\ UNCHANGED <<dest, endpointVars>>

EndpointNext ==
    \/ BeginFloatingIp \/ FindRoute \/ SkipInterface \/ NoRoute \/ FindRouteFails
    \/ AddInterface \/ AddInterfaceFails \/ CreateIp \/ CreateIpFails
    \/ BeginPort \/ CreatePort \/ CreatePortFails
    \/ Reattach("reattach") \/ ReattachFails("reattach") \/ AllAttached("reattach")

-----------------------------------------------------------------------------

\* Where the handlers are at work.
IpPc == {"findRoute", "addInterface", "createIp"}
PortPc == {"createPort", "reattach"}

\* Type invariant of the endpoints.
EndpointTypeOK ==
    /\ preserve \subseteq {"floating-ip", "port"}
    /\ sourceRoutes \subseteq Router \X Subnet
    /\ routes \subseteq sourceRoutes
    /\ route \in sourceRoutes \cup {<<>>}
    /\ unattached \subseteq FloatingIps
    /\ attached \subseteq Object \X Object

\* "preserve_port_floating_ip": the floating IPs of a migrated endpoint are
\* attached to its destination object, not to the remains of an earlier
\* attempt, and stay so whatever else is migrated, retried or fails.  A load
\* balancer does without those that were not migrated as its dependencies.
FloatingIpsFollow ==
    \A e \in Endpoints : status[e] = "migrated" =>
        \A f \in FloatingIpsOf[e] :
            \/ <<destination[f], destination[e]>> \in attached
            \/ e \notin Ports /\ f \in Latecomers

\* A floating IP counts as migrated only when its endpoint can use it: the
\* destination has a route from the endpoint to the external network.  This
\* needs a source network with a single interface the handler can find; among
\* several it takes any one, perhaps another one each time it looks, and of a
\* distributed or highly available router it finds none.
RouteReady ==
    \A e \in Endpoints : \A f \in FloatingIpsOf[e] :
        /\ status[f] = "migrated"
        /\ \E g \in Gateways : Listed = {<<g, SubnetOf[e]>>}
        => Reachable(SubnetOf[e], routes)

=============================================================================
