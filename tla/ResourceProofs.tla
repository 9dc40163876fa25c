---------------------------- MODULE ResourceProofs ----------------------------
(***************************************************************************)
(* What holds of dependencies and members on every cloud, under every      *)
(* configuration.                                                          *)
(***************************************************************************)
EXTENDS ResourceGraph, TLAPS

\* Types in the order in which migrations can be carried out.
Height(type) ==
    IF type = "instance" THEN 7
    ELSE IF type \in {"port", "load-balancer"} THEN 6
    ELSE IF type = "floating-ip" THEN 5
    ELSE IF type = "router" THEN 4
    ELSE IF type \in {"volume", "subnet", "security-group-rule"} THEN 3
    ELSE IF type \in {"user", "share", "image", "dns-zone", "network",
                      "security-group"} THEN 2
    ELSE IF type \in {"project", "role", "secret-container"} THEN 1
    ELSE 0

\* An attribute of a resource refers to resources of the cloud of one type.
LEMMA RefersTo ==
    ASSUME NEW type, NEW f \in RefTo(type), NEW r \in Cloud, NEW d \in f[r]
    PROVE  d \in Cloud /\ TypeOf[d] = type
BY DEF RefTo, OfType

\* What a resource depends on is of an announced type.
LEMMA AnnouncedDependency ==
    ASSUME NEW r \in Cloud, NEW d \in AssociatedResources(r)
    PROVE  d \in Cloud /\ Announces(TypeOf[r], TypeOf[d])
<1>0. TypeOf[r] \in MIGRATION_HANDLERS
  BY CloudAssumption
<1>1. d \in IdentityDependencies(r) =>
         d \in Cloud /\ multitenant_mode /\ TypeOf[d] = "project"
  BY RefersTo, CloudAssumption DEF IdentityDependencies
<1>2. /\ d \in Ref.user_id[r] => d \in Cloud /\ TypeOf[d] = "user"
      /\ d \in Ref.domain_id[r] => d \in Cloud /\ TypeOf[d] = "domain"
      /\ d \in Ref.default_project_id[r] => d \in Cloud /\ TypeOf[d] = "project"
      /\ d \in Ref.role_assignments[r] => d \in Cloud /\ TypeOf[d] = "role"
  BY RefersTo, CloudAssumption
<1>3. /\ d \in Ref.network_id[r] => d \in Cloud /\ TypeOf[d] = "network"
      /\ d \in Ref.fixed_ips[r] => d \in Cloud /\ TypeOf[d] = "subnet"
      /\ d \in Ref.interfaces[r] => d \in Cloud /\ TypeOf[d] = "subnet"
      /\ d \in Ref.router[r] => d \in Cloud /\ TypeOf[d] = "router"
      /\ d \in Ref.security_groups[r] => d \in Cloud /\ TypeOf[d] = "security-group"
      /\ d \in Ref.remote_group_id[r] => d \in Cloud /\ TypeOf[d] = "security-group"
      /\ d \in Ref.floating_ips[r] => d \in Cloud /\ TypeOf[d] = "floating-ip"
      /\ d \in Ref.ports[r] => d \in Cloud /\ TypeOf[d] = "port"
  BY RefersTo, CloudAssumption
<1>4. /\ d \in Ref.flavor[r] => d \in Cloud /\ TypeOf[d] = "flavor"
      /\ d \in Ref.keypair[r] => d \in Cloud /\ TypeOf[d] = "keypair"
      /\ d \in Ref.attached_volumes[r] => d \in Cloud /\ TypeOf[d] = "volume"
      /\ d \in Ref.volume_type[r] => d \in Cloud /\ TypeOf[d] = "volume-type"
      /\ d \in Ref.share_type[r] => d \in Cloud /\ TypeOf[d] = "share-type"
      /\ d \in Ref.secret_refs[r] => d \in Cloud /\ TypeOf[d] = "secret"
  BY RefersTo, CloudAssumption
<1>5. CASE TypeOf[r] \in {"image", "dns-zone", "network", "security-group"}
  BY <1>1, <1>5 DEF AssociatedResources, Needs, Announces, ImageDependencies,
     ZoneDependencies, NetworkDependencies, SecurityGroupDependencies
<1>6. CASE TypeOf[r] \in {"project", "role", "user"}
  BY <1>2, <1>6 DEF AssociatedResources, Needs, Announces, ProjectDependencies,
     RoleDependencies, UserDependencies
<1>7. CASE TypeOf[r] \in {"volume", "share"}
  BY <1>1, <1>2, <1>4, <1>7 DEF AssociatedResources, Needs, Announces,
     VolumeDependencies, ShareDependencies
<1>8. CASE TypeOf[r] \in {"subnet", "security-group-rule", "router"}
  BY <1>1, <1>3, <1>8 DEF AssociatedResources, Needs, Announces,
     SubnetDependencies, SecurityGroupRuleDependencies, RouterDependencies
<1>9. CASE TypeOf[r] = "floating-ip"
  BY <1>1, <1>3, <1>9 DEF AssociatedResources, Needs, Announces, FloatingIpDependencies
<1>10. CASE TypeOf[r] = "port"
  BY <1>1, <1>3, <1>10 DEF AssociatedResources, Needs, Announces, PortDependencies
<1>11. CASE TypeOf[r] = "load-balancer"
  BY <1>1, <1>3, <1>11 DEF AssociatedResources, Needs, Announces, LoadBalancerDependencies
<1>12. CASE TypeOf[r] = "instance"
  BY <1>1, <1>3, <1>4, <1>12 DEF AssociatedResources, Needs, Announces, InstanceDependencies
<1>13. CASE TypeOf[r] = "secret-container"
  BY <1>4, <1>13 DEF AssociatedResources, Needs, Announces, SecretContainerDependencies
<1>14. CASE TypeOf[r] \in {"secret", "volume-type", "domain", "share-type",
                            "flavor", "keypair"}
  BY <1>14 DEF AssociatedResources, Needs
<1> QED  BY <1>0, <1>5, <1>6, <1>7, <1>8, <1>9, <1>10, <1>11, <1>12, <1>13, <1>14
         DEF MIGRATION_HANDLERS

-----------------------------------------------------------------------------
(* Theorems.                                                               *)

\* The capabilities command announces every type of resource that migrating
\* one of a type with --include-dependencies may ask for.
THEOREM DependenciesAnnounced ==
    \A r \in Cloud : \A d \in AssociatedResources(r) :
        Announces(TypeOf[r], TypeOf[d])
BY AnnouncedDependency

\* Dependencies alone never lead back: each is of a type below that of its
\* dependent, so _migrate_parent_resource calls itself eight times at most,
\* whatever the cloud is like.  It is the members that make cycles.
THEOREM DependenciesDescend ==
    \A r \in Cloud : \A d \in AssociatedResources(r) :
        Height(TypeOf[d]) < Height(TypeOf[r])
<1> SUFFICES ASSUME NEW r \in Cloud, NEW d \in AssociatedResources(r)
             PROVE  Height(TypeOf[d]) < Height(TypeOf[r])
  OBVIOUS
<1>1. Announces(TypeOf[r], TypeOf[d])
  BY AnnouncedDependency
<1> QED  BY <1>1 DEF Announces, Height

\* "Shared resources (e.g. networks, flavor) should not be removed when one of
\* the dependent resources are migrated" (handlers/base.py): only ports,
\* volumes, floating IPs and secrets are cleaned up with what needs them, and
\* they are among its dependencies.
THEOREM SharedAreNotOwned ==
    \A r \in Cloud : \A d \in OwnedResources(r) :
        /\ d \in AssociatedResources(r)
        /\ TypeOf[d] \in {"port", "volume", "floating-ip", "secret"}
<1> SUFFICES ASSUME NEW r \in Cloud, NEW d \in OwnedResources(r)
             PROVE  /\ d \in AssociatedResources(r)
                    /\ TypeOf[d] \in {"port", "volume", "floating-ip", "secret"}
  OBVIOUS
<1>1. /\ d \in Ref.ports[r] => TypeOf[d] = "port"
      /\ d \in Ref.attached_volumes[r] => TypeOf[d] = "volume"
      /\ d \in Ref.floating_ips[r] => TypeOf[d] = "floating-ip"
      /\ d \in Ref.secret_refs[r] => TypeOf[d] = "secret"
  BY RefersTo, CloudAssumption
<1>2. CASE TypeOf[r] = "instance"
  BY <1>1, <1>2 DEF OwnedResources, InstanceOwned, AssociatedResources, Needs,
     InstanceDependencies
<1>3. CASE TypeOf[r] = "port"
  BY <1>1, <1>3 DEF OwnedResources, PortOwned, AssociatedResources, Needs,
     PortDependencies
<1>4. CASE TypeOf[r] = "secret-container"
  BY <1>1, <1>4 DEF OwnedResources, SecretContainerOwned, AssociatedResources, Needs,
     SecretContainerDependencies
<1> QED  BY <1>2, <1>3, <1>4 DEF OwnedResources

\* What a resource contains depends on it, except the subnets attached to a
\* router: migrating a member always comes back to its parent, which is why a
\* parent counts as migrated as soon as its members are pending.
THEOREM MembersNeedTheirParent ==
    \A r \in Cloud : \A m \in MemberResources(r) :
        TypeOf[r] # "router" => r \in AssociatedResources(m)
<1> SUFFICES ASSUME NEW r \in Cloud, NEW m \in MemberResources(r), TypeOf[r] # "router"
             PROVE  Needs(m, r)
  BY DEF AssociatedResources
<1>1. CASE TypeOf[r] = "network"
  BY <1>1 DEF MemberResources, NetworkMembers, OfType, Needs, SubnetDependencies
<1>2. CASE TypeOf[r] = "security-group"
  BY <1>2 DEF MemberResources, SecurityGroupMembers, OfType, Needs,
     SecurityGroupRuleDependencies
<1>3. CASE TypeOf[r] = "domain"
  BY <1>3 DEF MemberResources, DomainMembers, OfType, Needs, ProjectDependencies,
     UserDependencies
<1>4. CASE TypeOf[r] = "project"
  BY <1>4 DEF MemberResources, ProjectMembers, OfType, Needs, UserDependencies
<1> QED  BY <1>1, <1>2, <1>3, <1>4 DEF MemberResources

\* "Domain migrations will cascade to all the belonging projects, users and
\* roles" (docs/how-to/migration-handlers/keystone/domain.rst): a user is a
\* member of its domain, or of a project that is, if its default project
\* belongs to its own domain.  Keystone does not ask for that, and a user with
\* another default project is a member of nothing.
THEOREM UsersAreReached ==
    \A u \in OfType("user") : \A home \in Ref.domain_id[u] :
        (\A q \in Ref.default_project_id[u] : Ref.domain_id[q] = Ref.domain_id[u])
        => \/ u \in MemberResources(home)
           \/ \E q \in MemberResources(home) : u \in MemberResources(q)
<1> SUFFICES ASSUME NEW u \in OfType("user"), NEW home \in Ref.domain_id[u],
                    \A q \in Ref.default_project_id[u] :
                        Ref.domain_id[q] = Ref.domain_id[u]
             PROVE  \/ u \in MemberResources(home)
                    \/ \E q \in MemberResources(home) : u \in MemberResources(q)
  OBVIOUS
<1>1. u \in Cloud /\ TypeOf[u] = "user"
  BY DEF OfType
<1>2. home \in Cloud /\ TypeOf[home] = "domain"
  BY <1>1, RefersTo, CloudAssumption
<1>3. CASE Ref.default_project_id[u] = {}
  BY <1>1, <1>2, <1>3 DEF MemberResources, DomainMembers
<1>4. CASE Ref.default_project_id[u] # {}
  <2>1. PICK q \in Ref.default_project_id[u] : TRUE
    BY <1>4
  <2>2. q \in Cloud /\ TypeOf[q] = "project" /\ Ref.domain_id[q] = Ref.domain_id[u]
    BY <1>1, <2>1, RefersTo, CloudAssumption
  <2>3. q \in MemberResources(home)
    BY <1>2, <2>2 DEF MemberResources, DomainMembers, OfType
  <2>4. u \in MemberResources(q)
    BY <1>1, <2>1, <2>2 DEF MemberResources, ProjectMembers
  <2> QED  BY <2>3, <2>4
<1> QED  BY <1>3, <1>4

=============================================================================
