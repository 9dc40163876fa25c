----------------------------- MODULE MCManager -----------------------------
(***************************************************************************)
(* Small clouds for model checking the migration manager: the attributes   *)
(* of their resources, from which the handlers read the hierarchies.       *)
(***************************************************************************)
EXTENDS ManagerProperties, ResourceGraph, TLC

\* Subnets are members of their network, which contains them, and of the
\* routers they are attached to; the project owns them all.
NetworkResources == {"project", "network", "subnet", "router"}

\* Two security groups with rules that refer to each other.
GroupResources == {"project", "groupA", "groupB", "ruleA", "ruleB"}

\* An instance with a volume of its own, which has a type.
InstanceResources == {"instance", "volume", "volume-type"}
NetworkPair == {"network", "subnet"}
CascadeResources == NetworkResources \cup GroupResources \cup {"instance", "port"}
RoutedResources == NetworkResources \ {"project"}
FaultyResources == InstanceResources \cup NetworkPair
VolumeResources == {"instance", "volume"}

CloudTypes ==
    [r \in Resource |->
        CASE r \in {"groupA", "groupB"} -> "security-group"
          [] r \in {"ruleA", "ruleB"} -> "security-group-rule"
          [] OTHER -> r]

\* An attribute with the values of f, as far as the cloud has them.
Attribute(f) ==
    [r \in Resource |-> IF r \in DOMAIN f THEN f[r] \cap Resource ELSE {}]
Unset == Attribute(<<>>)

CloudRefs ==
    [project_id |-> Attribute([r \in CascadeResources \ {"project"} |-> {"project"}]),
     network_id |-> Attribute("subnet" :> {"network"} @@ "port" :> {"network"}),
     fixed_ips |-> Attribute("port" :> {"subnet"}),
     interfaces |-> Attribute("router" :> {"subnet"}),
     security_groups |-> Attribute("ruleA" :> {"groupA"} @@ "ruleB" :> {"groupB"}
                                  @@ "port" :> {"groupA"}),
     remote_group_id |-> Attribute("ruleA" :> {"groupB"} @@ "ruleB" :> {"groupA"}),
     ports |-> Attribute("instance" :> {"port"}),
     attached_volumes |-> Attribute("instance" :> {"volume"}),
     user_id |-> Unset, domain_id |-> Unset, default_project_id |-> Unset,
     role_assignments |-> Unset, router |-> Unset,
     floating_ips |-> Unset, keypair |-> Unset,
     volume_type |-> Attribute("volume" :> {"volume-type"}),
     flavor |-> Unset, share_type |-> Unset, secret_refs |-> Unset]

HierarchyAssoc == [r \in Resource |-> AssociatedResources(r)]
HierarchyMembers == [r \in Resource |-> MemberResources(r)]
HierarchyOwned == [r \in Resource |-> OwnedResources(r)]

\* What the clouds delete with a resource, find by name, connect, and may keep
\* without the handler saying so.
HierarchyContained ==
    [r \in Resource |-> IF TypeOf[r] = "router" THEN {} ELSE MemberResources(r)]
Reusable == OfType("project") \cup OfType("volume-type")
Routers == OfType("router")
DeletedIfUnused == OfType("volume-type") \cup OfType("share-type")

\* start-batch selects resources of one type, cleanup-source one or all.
Selected == {{"network"}, {"groupA", "groupB"}, {"ruleA", "ruleB"}, {"instance"},
             {"volume"}}
OneType == {b \in Selected : b \subseteq Resource}
OneOrAll == {{r} : r \in Resource} \cup {Resource}

\* Invocations of the tool are alike.
Interchangeable == Permutations(Proc)

\* Command line flags.
Run(d, m, c) == [deps |-> d, members |-> m, cleanup |-> c]
Cascading == {Run(TRUE, TRUE, FALSE)}
CascadingCleanup == {Run(TRUE, TRUE, TRUE)}
WithAndWithout == {Run(TRUE, TRUE, TRUE), Run(FALSE, FALSE, FALSE)}
AnyCleanup == {Run(TRUE, TRUE, c) : c \in BOOLEAN}

=============================================================================
