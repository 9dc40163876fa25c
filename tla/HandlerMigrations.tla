-------------------------- MODULE HandlerMigrations --------------------------
(***************************************************************************)
(* The handlers that take several requests to migrate a resource, those    *)
(* that move data (volumes, instances, shares) and those that build an     *)
(* object up from parts (floating IPs and ports, load balancers, resources *)
(* looked up by name): resources of these types are migrated one after the *)
(* other in any order, retried, and killed at any point.                   *)
(***************************************************************************)
EXTENDS VolumeMigration, ShareMigration, LoadBalancerMigration, NamedMigration

\* A resource is known by its type and id.
Kinds == <<Volumes \cup Instances, Shares, FloatingIps, Ports, LoadBalancers, Named>>

ASSUME OneKindAssumption ==
    \A i, j \in DOMAIN Kinds : i # j => Kinds[i] \cap Kinds[j] = {}

vars == <<callVars, volumeVars, shareVars, endpointVars, loadBalancerVars, namedVars>>

\* The destination may have namesakes of its own.
Init ==
    /\ \E namesakes \in SUBSET Named :
          CallInit({[of |-> r, by |-> 0] : r \in namesakes})
    /\ VolumeInit
    /\ ShareInit
    /\ EndpointInit
    /\ LoadBalancerInit
    /\ NamedInit

Storing ==
    \/ VolumeNext /\ UNCHANGED shareVars
    \/ ShareNext /\ UNCHANGED volumeVars

Serving ==
    \/ EndpointNext /\ UNCHANGED <<loadBalancerVars, namedVars>>
    \/ LoadBalancerNext /\ UNCHANGED namedVars
    \/ NamedNext /\ UNCHANGED <<endpointVars, loadBalancerVars>>

Next ==
    \/ Storing /\ UNCHANGED <<endpointVars, loadBalancerVars, namedVars>>
    \/ Serving /\ UNCHANGED <<volumeVars, shareVars>>
    \/ /\ CallEnds
       /\ UNCHANGED <<volumeVars, shareVars, endpointVars, loadBalancerVars, namedVars>>

Spec == Init /\ [][Next]_vars

-----------------------------------------------------------------------------

Points == VolumePc \cup SharePc \cup IpPc \cup PortPc \cup BalancerPc \cup NamedPc
Failures == Points \cup ShareRequests \cup {"attach"}

\* Type invariant of the handlers.
HandlersTypeOK ==
    /\ CallTypeOK(Points, Failures)
    /\ VolumeTypeOK
    /\ ShareTypeOK
    /\ EndpointTypeOK
    /\ LoadBalancerTypeOK
    /\ NamedTypeOK

ContractState(s) == IF s = "in-progress" THEN "open" ELSE s

Whole(o) ==
    /\ o.of \in Volumes \cup Instances => VolumeWhole(o)
    /\ o.of \in Shares => o \in filled
    /\ o.of \in LoadBalancers => BalancerWhole(o)

Contract == INSTANCE HandlerContract WITH
    Target <- Object, NoTarget <- NoDest,
    state <- [r \in Resource |-> ContractState(status[r])],
    named <- destination,
    objects <- dest,
    whole <- {o \in dest : Whole(o)}

\* However their requests fail, the handlers keep the contract the manager
\* relies on: a call creates at most one object, and none if it finds a
\* namesake; it returns only one that exists and is complete (a disk, the
\* files of a share, the components of a load balancer), and touches none that
\* an earlier call has made.
HandlersKeepContract == Contract!Spec

=============================================================================
