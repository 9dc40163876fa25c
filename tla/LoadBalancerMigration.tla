------------------------- MODULE LoadBalancerMigration -------------------------
(***************************************************************************)
(* How load balancers are migrated: the components of the source load      *)
(* balancer are gathered, then created one by one, each followed by a wait *)
(* for the load balancer to become active, and its floating IPs are        *)
(* attached last (src/sunbeam_migrate/handlers/octavia/load_balancer.py).  *)
(***************************************************************************)
EXTENDS EndpointMigration

CONSTANTS
    LoadBalancers, \* the resources of this type
    Listeners,     \* Listeners[b]: the listeners of b, as they are listed
    Pool,          \* pools that may be default pools of listeners
    NoPool,        \* default_pool_id of a listener that has none
    Monitored,     \* pools with a health monitor
    MembersOf      \* MembersOf[pool]: the members of a pool

Listener == UNION {{Listeners[b][i] : i \in DOMAIN Listeners[b]} : b \in LoadBalancers}
Member == UNION {MembersOf[q] : q \in Pool}

ASSUME LoadBalancerAssumption ==
    /\ LoadBalancers \subseteq Resource
    /\ Endpoints = Ports \cup LoadBalancers
    /\ \A b \in LoadBalancers : Listeners[b] \in Seq(Listener)
    /\ NoPool \notin Pool
    /\ Monitored \subseteq Pool

VARIABLES
    defaultPool,   \* defaultPool[l]: the default pool of each source listener
    position,      \* of the listener the running call is at
    uncreated,     \* members it has still to create in the pool it is at
    listeners,     \* <<load balancer, listener>> on the destination
    pools,         \* <<load balancer, pool, listener it was created for>>
    monitors,      \* <<load balancer, pool>>
    members        \* <<load balancer, pool, member>>

loadBalancerVars ==
    <<defaultPool, position, uncreated, listeners, pools, monitors, members>>
components == <<listeners, pools, monitors, members>>

LoadBalancerInit ==
    /\ defaultPool \in [Listener -> Pool \cup {NoPool}]
    /\ position = 1
    /\ uncreated = {}
    /\ listeners = {}
    /\ pools = {}
    /\ monitors = {}
    /\ members = {}

BeginLoadBalancer ==
    /\ \E b \in LoadBalancers :
          /\ EndpointReady(b)
          /\ Begin(b, "gather")
    /\ position' = 1
    /\ uncreated' = {}
    /\ UNCHANGED <<endpointVars, defaultPool, components>>

Gather ==
    /\ Running("gather")
    /\ Goto("createBalancer")
    /\ UNCHANGED <<dest, endpointVars, loadBalancerVars>>

GatherFails ==
    /\ Running("gather")
    /\ FailCall("gather")
    /\ UNCHANGED <<dest, endpointVars, loadBalancerVars>>

\* The VIP address is always preserved.
VipTaken == \E o \in dest : o.of = job.res

CreateBalancer ==
    /\ Running("createBalancer")
    /\ ~VipTaken
    /\ dest' = dest \cup {This}
    /\ Goto("listener")
    /\ UNCHANGED <<endpointVars, loadBalancerVars>>

\* Here and below, a wait that fails is a request that fails after it was
\* carried out.
CreateBalancerFails ==
    /\ Running("createBalancer")
    /\ dest' \in IF VipTaken THEN {dest} ELSE PerhapsAdded(dest, {This})
    /\ FailCall("createBalancer")
    /\ UNCHANGED <<endpointVars, loadBalancerVars>>

-----------------------------------------------------------------------------
(* Listeners, each followed by its default pool unless that exists already *)

AtListener == Listeners[job.res][position]
AtPool == defaultPool[AtListener]

PoolCreated(q) == \E p \in pools : p[1] = This /\ p[2] = q

PoolNeeded == AtPool # NoPool /\ ~PoolCreated(AtPool)

CreateListener ==
    /\ Running("listener")
    /\ position <= Len(Listeners[job.res])
    /\ listeners' = listeners \cup {<<This, AtListener>>}
    /\ position' = IF PoolNeeded THEN position ELSE position + 1
    /\ Goto(IF PoolNeeded THEN "pool" ELSE "listener")
    /\ UNCHANGED <<dest, endpointVars, defaultPool, uncreated, pools, monitors, members>>

CreatePool ==
    /\ Running("pool")
    /\ pools' = pools \cup {<<This, AtPool, AtListener>>}
    /\ uncreated' = MembersOf[AtPool]
    /\ Goto(IF AtPool \in Monitored THEN "monitor" ELSE "member")
    /\ UNCHANGED <<dest, endpointVars, defaultPool, position, listeners, monitors, members>>

CreateMonitor ==
    /\ Running("monitor")
    /\ monitors' = monitors \cup {<<This, AtPool>>}
    /\ Goto("member")
    /\ UNCHANGED <<dest, endpointVars, defaultPool, position, uncreated, listeners, pools, members>>

CreateMember ==
    /\ Running("member")
    /\ \E m \in uncreated :
          /\ members' = members \cup {<<This, AtPool, m>>}
          /\ uncreated' = uncreated \ {m}
    /\ Goto("member")
    /\ UNCHANGED <<dest, endpointVars, defaultPool, position, listeners, pools, monitors>>

MembersCreated ==
    /\ Running("member")
    /\ uncreated = {}
    /\ position' = position + 1
    /\ Goto("listener")
    /\ UNCHANGED <<dest, endpointVars, defaultPool, uncreated, components>>

CreateListenerFails ==
    /\ Running("listener")
    /\ position <= Len(Listeners[job.res])
    /\ listeners' \in PerhapsAdded(listeners, {<<This, AtListener>>})
    /\ FailCall("listener")
    /\ UNCHANGED <<dest, endpointVars, defaultPool, position, uncreated, pools, monitors, members>>

CreatePoolFails ==
    /\ Running("pool")
    /\ pools' \in PerhapsAdded(pools, {<<This, AtPool, AtListener>>})
    /\ FailCall("pool")
    /\ UNCHANGED <<dest, endpointVars, defaultPool, position, uncreated, listeners, monitors, members>>

CreateMonitorFails ==
    /\ Running("monitor")
    /\ monitors' \in PerhapsAdded(monitors, {<<This, AtPool>>})
    /\ FailCall("monitor")
    /\ UNCHANGED <<dest, endpointVars, defaultPool, position, uncreated, listeners, pools, members>>

CreateMemberFails ==
    /\ Running("member")
    /\ \E m \in uncreated :
          members' \in PerhapsAdded(members, {<<This, AtPool, m>>})
    /\ FailCall("member")
    /\ UNCHANGED <<dest, endpointVars, defaultPool, position, uncreated, listeners, pools, monitors>>

-----------------------------------------------------------------------------
(* Floating IPs of the VIP port.                                           *)

\* A variant of a definition that carries a plausible mistake precedes it; no
\* action uses one.  They are there to see that the properties notice.
SomeListenersCreated ==
    /\ Running("listener")
    /\ unattached' = FloatingIpsOf[job.res]
    /\ Goto("vip")
    /\ UNCHANGED <<dest, preserve, sourceRoutes, routes, route, attached, loadBalancerVars>>

ListenersCreated ==
    /\ Running("listener")
    /\ position > Len(Listeners[job.res])
    /\ unattached' = FloatingIpsOf[job.res]
    /\ Goto("vip")
    /\ UNCHANGED <<dest, preserve, sourceRoutes, routes, route, attached, loadBalancerVars>>

\* "skipping association with destination load balancer"
SkipLatecomer ==
    /\ Running("vip")
    /\ \E f \in unattached :
          /\ status[f] # "migrated" \/ f \in Latecomers
          /\ unattached' = unattached \ {f}
    /\ Goto("vip")
    /\ UNCHANGED <<dest, preserve, sourceRoutes, routes, route, attached, loadBalancerVars>>

LoadBalancerNext ==
    \/ BeginLoadBalancer \/ Gather \/ GatherFails
    \/ CreateBalancer \/ CreateBalancerFails
    \/ CreateListener \/ CreateListenerFails \/ CreatePool \/ CreatePoolFails
    \/ CreateMonitor \/ CreateMonitorFails \/ CreateMember \/ CreateMemberFails
    \/ MembersCreated \/ ListenersCreated \/ SkipLatecomer
    \/ Reattach("vip") /\ UNCHANGED loadBalancerVars
    \/ ReattachFails("vip") /\ UNCHANGED loadBalancerVars
    \/ AllAttached("vip") /\ UNCHANGED loadBalancerVars

-----------------------------------------------------------------------------

\* Where the handler is at work.
BalancerPc == {"gather", "createBalancer", "listener", "pool", "monitor", "member", "vip"}

\* Type invariant of the load balancers.
LoadBalancerTypeOK ==
    /\ defaultPool \in [Listener -> Pool \cup {NoPool}]
    /\ position \in Nat \ {0}
    /\ uncreated \subseteq Member
    /\ listeners \subseteq dest \X Listener
    /\ pools \subseteq dest \X Pool \X Listener
    /\ monitors \subseteq dest \X Pool
    /\ members \subseteq dest \X Pool \X Member

ListenersOf(b) == {Listeners[b][i] : i \in DOMAIN Listeners[b]}
PoolsOf(b) == {defaultPool[l] : l \in ListenersOf(b)} \ {NoPool}

\* Load balancer o has every component the source one has, and each default
\* pool just once, however many listeners share it.
BalancerWhole(o) ==
    /\ \A l \in ListenersOf(o.of) : <<o, l>> \in listeners
    /\ \A q \in PoolsOf(o.of) :
          /\ \E l \in ListenersOf(o.of) :
                /\ defaultPool[l] = q
                /\ {p \in pools : p[1] = o /\ p[2] = q} = {<<o, q, l>>}
          /\ q \in Monitored => <<o, q>> \in monitors
          /\ \A m \in MembersOf[q] : <<o, q, m>> \in members

\* Traffic is switched last: as long as a component is missing, and in every
\* load balancer that a failed or killed call has left incomplete, the VIP has
\* no floating IP.
FloatingIpLast ==
    \A a \in attached : a[2].of \in LoadBalancers => BalancerWhole(a[2])

\* "Create pools associated with each listener" (docs/how-to/
\* migration-handlers/octavia/load-balancer.rst): a listener of a migrated
\* load balancer has its default pool.
ListenersKeepPools ==
    \A b \in LoadBalancers : status[b] = "migrated" =>
        \A l \in ListenersOf(b) :
            defaultPool[l] # NoPool => <<destination[b], defaultPool[l], l>> \in pools

=============================================================================
