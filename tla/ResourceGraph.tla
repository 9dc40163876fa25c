----------------------------- MODULE ResourceGraph -----------------------------
(***************************************************************************)
(* What the resources of the source cloud depend on and contain, as the    *)
(* handler of each type tells the manager: get_associated_resources, the   *)
(* should_cleanup flag of what it returns, and get_member_resources        *)
(* (src/sunbeam_migrate/handlers).  MigrationManager takes these relations *)
(* as constants; here they are read off the attributes of a cloud.         *)
(***************************************************************************)
EXTENDS Naturals

CONSTANTS
    TypeOf,              \* TypeOf[r]: type of each resource of the cloud
    Ref,                 \* Ref.a[r]: the resources that attribute a of r
                         \* refers to, none if r has no such attribute
    multitenant_mode,    \* configuration
    preserve_volume_type,
    preserve_port_floating_ip

MIGRATION_HANDLERS ==
    {"secret", "secret-container", "volume", "volume-type", "dns-zone", "image",
     "domain", "project", "role", "user", "share", "share-type", "flavor",
     "instance", "keypair", "floating-ip", "router", "network", "subnet", "port",
     "security-group", "security-group-rule", "load-balancer"}

Cloud == DOMAIN TypeOf
OfType(type) == {r \in Cloud : TypeOf[r] = type}

\* An attribute that refers to resources of a type.
RefTo(type) == [Cloud -> SUBSET OfType(type)]

\* Clouds keep referential integrity.
ASSUME CloudAssumption ==
    /\ TypeOf \in [Cloud -> MIGRATION_HANDLERS]
    /\ Ref \in [project_id: RefTo("project"), user_id: RefTo("user"),
                domain_id: RefTo("domain"), default_project_id: RefTo("project"),
                role_assignments: RefTo("role"),
                network_id: RefTo("network"), fixed_ips: RefTo("subnet"),
                interfaces: RefTo("subnet"), router: RefTo("router"),
                security_groups: RefTo("security-group"),
                remote_group_id: RefTo("security-group"),
                floating_ips: RefTo("floating-ip"), ports: RefTo("port"),
                flavor: RefTo("flavor"), keypair: RefTo("keypair"),
                attached_volumes: RefTo("volume"),
                volume_type: RefTo("volume-type"),
                share_type: RefTo("share-type"),
                secret_refs: RefTo("secret")]

ASSUME OptionsAssumption ==
    {multitenant_mode, preserve_volume_type, preserve_port_floating_ip}
        \subseteq BOOLEAN

-----------------------------------------------------------------------------
(* Dependencies.                                                           *)

IdentityDependencies(r) == IF multitenant_mode THEN Ref.project_id[r] ELSE {}

ImageDependencies(r) == IdentityDependencies(r)
ZoneDependencies(r) == IdentityDependencies(r)
NetworkDependencies(r) == IdentityDependencies(r)
SecurityGroupDependencies(r) == IdentityDependencies(r)

ProjectDependencies(r) == Ref.domain_id[r]

\* Roles may be global.
RoleDependencies(r) == Ref.domain_id[r]

UserDependencies(r) ==
    Ref.domain_id[r] \cup Ref.default_project_id[r] \cup Ref.role_assignments[r]

VolumeDependencies(r) ==
    IdentityDependencies(r)
        \cup (IF multitenant_mode THEN Ref.user_id[r] ELSE {})
        \cup (IF preserve_volume_type THEN Ref.volume_type[r] ELSE {})

ShareDependencies(r) == IdentityDependencies(r) \cup Ref.share_type[r]

SubnetDependencies(r) == IdentityDependencies(r) \cup Ref.network_id[r]

SecurityGroupRuleDependencies(r) ==
    IdentityDependencies(r) \cup Ref.security_groups[r] \cup Ref.remote_group_id[r]

\* The external gateway.
RouterDependencies(r) ==
    IdentityDependencies(r) \cup Ref.network_id[r]
        \cup (IF Ref.network_id[r] # {} THEN Ref.fixed_ips[r] ELSE {})

\* The external network, the subnets of the address, and an interface of a
\* router on the port's network, where the handler has found one.
FloatingIpDependencies(r) ==
    IdentityDependencies(r) \cup Ref.network_id[r] \cup Ref.fixed_ips[r]
        \cup Ref.router[r] \cup Ref.interfaces[r]

PortDependencies(r) ==
    IdentityDependencies(r) \cup Ref.network_id[r] \cup Ref.fixed_ips[r]
        \cup Ref.security_groups[r]
        \cup (IF preserve_port_floating_ip THEN Ref.floating_ips[r] ELSE {})

\* Those of the virtual address, and the subnets of the members of the default
\* pools.
LoadBalancerDependencies(r) ==
    IdentityDependencies(r) \cup Ref.fixed_ips[r] \cup Ref.network_id[r]
        \cup Ref.floating_ips[r]

InstanceDependencies(r) ==
    IdentityDependencies(r) \cup Ref.ports[r] \cup Ref.flavor[r]
        \cup (IF multitenant_mode THEN {} ELSE Ref.keypair[r])
        \cup Ref.attached_volumes[r]

SecretContainerDependencies(r) == Ref.secret_refs[r]

Needs(r, d) ==
    \/ TypeOf[r] = "image" /\ d \in ImageDependencies(r)
    \/ TypeOf[r] = "dns-zone" /\ d \in ZoneDependencies(r)
    \/ TypeOf[r] = "network" /\ d \in NetworkDependencies(r)
    \/ TypeOf[r] = "security-group" /\ d \in SecurityGroupDependencies(r)
    \/ TypeOf[r] = "project" /\ d \in ProjectDependencies(r)
    \/ TypeOf[r] = "role" /\ d \in RoleDependencies(r)
    \/ TypeOf[r] = "user" /\ d \in UserDependencies(r)
    \/ TypeOf[r] = "volume" /\ d \in VolumeDependencies(r)
    \/ TypeOf[r] = "share" /\ d \in ShareDependencies(r)
    \/ TypeOf[r] = "subnet" /\ d \in SubnetDependencies(r)
    \/ TypeOf[r] = "security-group-rule" /\ d \in SecurityGroupRuleDependencies(r)
    \/ TypeOf[r] = "router" /\ d \in RouterDependencies(r)
    \/ TypeOf[r] = "floating-ip" /\ d \in FloatingIpDependencies(r)
    \/ TypeOf[r] = "port" /\ d \in PortDependencies(r)
    \/ TypeOf[r] = "load-balancer" /\ d \in LoadBalancerDependencies(r)
    \/ TypeOf[r] = "instance" /\ d \in InstanceDependencies(r)
    \/ TypeOf[r] = "secret-container" /\ d \in SecretContainerDependencies(r)

AssociatedResources(r) == {d \in Cloud : Needs(r, d)}

\* get_associated_resource_types: what the capabilities command announces.
Announces(type, needed) ==
    \/ /\ multitenant_mode
       /\ \/ needed = "project" /\ type \in
                 {"image", "dns-zone", "network", "security-group", "volume", "share",
                  "subnet", "security-group-rule", "router", "floating-ip", "port",
                  "load-balancer", "instance"}
          \/ needed = "user" /\ type = "volume"
    \/ preserve_port_floating_ip /\ type = "port" /\ needed = "floating-ip"
    \/ type \in {"project", "role"} /\ needed = "domain"
    \/ type = "user" /\ needed \in {"domain", "project", "role"}
    \/ type = "volume" /\ needed = "volume-type"
    \/ type = "share" /\ needed = "share-type"
    \/ type = "subnet" /\ needed = "network"
    \/ type = "security-group-rule" /\ needed = "security-group"
    \/ type = "router" /\ needed \in {"network", "subnet"}
    \/ type = "floating-ip" /\ needed \in {"network", "subnet", "router"}
    \/ type = "port" /\ needed \in {"network", "subnet", "security-group"}
    \/ type = "load-balancer" /\ needed \in {"network", "subnet", "floating-ip"}
    \/ /\ type = "instance"
       /\ needed \in {"image", "volume", "flavor", "keypair", "network", "port"}
    \/ type = "secret-container" /\ needed = "secret"

-----------------------------------------------------------------------------
(* Dependencies that go with their dependent: should_cleanup.              *)

InstanceOwned(r) == Ref.ports[r] \cup Ref.attached_volumes[r]

PortOwned(r) == IF preserve_port_floating_ip THEN Ref.floating_ips[r] ELSE {}

SecretContainerOwned(r) == Ref.secret_refs[r]

OwnedResources(r) ==
    {d \in Cloud :
        \/ TypeOf[r] = "instance" /\ d \in InstanceOwned(r)
        \/ TypeOf[r] = "port" /\ d \in PortOwned(r)
        \/ TypeOf[r] = "secret-container" /\ d \in SecretContainerOwned(r)}

-----------------------------------------------------------------------------
(* Members.                                                                *)

NetworkMembers(r) == {s \in OfType("subnet") : r \in Ref.network_id[s]}

RouterMembers(r) == Ref.interfaces[r]

SecurityGroupMembers(r) ==
    {rule \in OfType("security-group-rule") : r \in Ref.security_groups[rule]}

\* Users that have no default project are members of their domain.
DomainMembers(r) ==
    {p \in OfType("project") : r \in Ref.domain_id[p]}
        \cup {u \in OfType("user") : r \in Ref.domain_id[u]
                                     /\ Ref.default_project_id[u] = {}}

ProjectMembers(r) ==
    {u \in OfType("user") : /\ Ref.domain_id[u] = Ref.domain_id[r]
                            /\ r \in Ref.default_project_id[u]}

MemberResources(r) ==
    {m \in Cloud :
        \/ TypeOf[r] = "network" /\ m \in NetworkMembers(r)
        \/ TypeOf[r] = "router" /\ m \in RouterMembers(r)
        \/ TypeOf[r] = "security-group" /\ m \in SecurityGroupMembers(r)
        \/ TypeOf[r] = "domain" /\ m \in DomainMembers(r)
        \/ TypeOf[r] = "project" /\ m \in ProjectMembers(r)}

=============================================================================
