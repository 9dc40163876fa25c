---------------------------- MODULE NamedMigration ----------------------------
(***************************************************************************)
(* Resources that are looked up by name on the destination before they are *)
(* created: domains, projects, roles, users, DNS zones, key pairs, flavors *)
(* and the types of volumes and shares                                     *)
(* (src/sunbeam_migrate/handlers/keystone, designate, nova/flavor.py,      *)
(* nova/keypair.py, cinder/volume_type.py, manila/share_type.py).  What is *)
(* found is taken for the resource; what is not is created, then given its *)
(* parts, of which a zone or a user may lose some to a failure.            *)
(***************************************************************************)
EXTENDS HandlerCall

CONSTANTS
    Named,        \* the resources of these types
    Users,
    Zones,
    Typed,        \* flavors and types
    Parts,        \* Parts[r]: role assignments, record sets, extra specs
    Unresolvable, \* assignments in a project or domain other than the user's own
    Unscoped,     \* assignments on the system rather than a project or domain
    Delegations   \* NS record sets below the apex of a zone

ASSUME NamedAssumption ==
    /\ Users \cup Zones \cup Typed \subseteq Named
    /\ Named \subseteq Resource
    /\ Named = DOMAIN Parts
    /\ \A r \in Named : Parts[r] # {} => r \in Users \cup Zones \cup Typed

VARIABLES
    remaining,    \* parts the running call has not come to
    given         \* <<object, part>>

namedVars == <<remaining, given>>

NamedInit ==
    /\ remaining = {}
    /\ given = {}

BeginNamed ==
    /\ \E r \in Named :
          /\ Begin(r, "find")
          /\ remaining' = Parts[r]
    /\ UNCHANGED given

FindExisting ==
    /\ Running("find")
    /\ \E o \in dest : o.of = job.res /\ ReturnDestination(o)
    /\ UNCHANGED namedVars

\* A variant of a definition that carries a plausible mistake precedes it; no
\* action uses one.  They are there to see that the properties notice.
NoneIsAssumed ==
    /\ Running("find")
    /\ Goto("create")
    /\ UNCHANGED <<dest, namedVars>>

NoneExists ==
    /\ Running("find")
    /\ ~ \E o \in dest : o.of = job.res
    /\ Goto("create")
    /\ UNCHANGED <<dest, namedVars>>

FindFails ==
    /\ Running("find")
    /\ FailCall("find")
    /\ UNCHANGED <<dest, namedVars>>

PartsOf(r) == CASE r \in Users -> "assign"
                [] r \in Zones -> "list"
                [] r \in Typed /\ Parts[r] # {} -> "specs"
                [] OTHER -> "done"

CreateNamed ==
    /\ Running("create")
    /\ dest' = dest \cup {This}
    /\ Goto(PartsOf(job.res))
    /\ UNCHANGED namedVars

CreateNamedFails ==
    /\ Running("create")
    /\ dest' \in PerhapsAdded(dest, {This})
    /\ FailCall("create")
    /\ UNCHANGED namedVars

-----------------------------------------------------------------------------
(* Parts.  The first assignment that fails ends the loop over them, and is *)
(* logged; so is every record set that fails, but the next one is tried.   *)
(* A failure to set the extra specs fails the call.                        *)

Give(p) ==
    /\ given' = given \cup {<<This, p>>}
    /\ remaining' = remaining \ {p}

AssignRole ==
    /\ Running("assign")
    /\ \E p \in remaining \ (Unresolvable \cup Unscoped) : Give(p)
    /\ Goto("assign")
    /\ UNCHANGED dest

\* Neither project_id nor domain_id: not even a warning.
PassOverUnscoped ==
    /\ Running("assign")
    /\ \E p \in remaining \cap Unscoped : remaining' = remaining \ {p}
    /\ Goto("assign")
    /\ UNCHANGED <<dest, given>>

\* The assignments cannot be listed, the scope of one has not been migrated
\* with the user, or the request is refused.
AssignRoleFails ==
    /\ Running("assign")
    /\ given' \in {given} \cup
          {given \cup {<<This, p>>} : p \in remaining \ (Unresolvable \cup Unscoped)}
    /\ LogTo("done", "assign")
    /\ UNCHANGED <<dest, remaining>>

RolesAssigned ==
    /\ Running("assign")
    /\ remaining = {}
    /\ Goto("done")
    /\ UNCHANGED <<dest, namedVars>>

\* "Skip NS and SOA records at the zone apex": every NS record set is skipped.
ListRecords ==
    /\ Running("list")
    /\ remaining' = remaining \ Delegations
    /\ Goto("copy")
    /\ UNCHANGED <<dest, given>>

ListRecordsFails ==
    /\ Running("list")
    /\ FailCall("list")
    /\ UNCHANGED <<dest, namedVars>>

CopyRecord ==
    /\ Running("copy")
    /\ \E p \in remaining : Give(p)
    /\ Goto("copy")
    /\ UNCHANGED dest

CopyRecordFails ==
    /\ Running("copy")
    /\ \E p \in remaining :
          /\ given' \in PerhapsAdded(given, {<<This, p>>})
          /\ remaining' = remaining \ {p}
    /\ LogTo("copy", "copy")
    /\ UNCHANGED dest

SomeRecordsCopied ==
    /\ Running("copy")
    /\ Goto("done")
    /\ UNCHANGED <<dest, namedVars>>

RecordsCopied ==
    /\ Running("copy")
    /\ remaining = {}
    /\ Goto("done")
    /\ UNCHANGED <<dest, namedVars>>

SetSpecs ==
    /\ Running("specs")
    /\ given' = given \cup ({This} \X remaining)
    /\ remaining' = {}
    /\ Goto("done")
    /\ UNCHANGED dest

SetSpecsFails ==
    /\ Running("specs")
    /\ given' \in PerhapsAdded(given, {This} \X remaining)
    /\ FailCall("specs")
    /\ UNCHANGED <<dest, remaining>>

NamedNext ==
    \/ BeginNamed \/ FindExisting \/ NoneExists \/ FindFails
    \/ CreateNamed \/ CreateNamedFails
    \/ AssignRole \/ PassOverUnscoped \/ AssignRoleFails \/ RolesAssigned
    \/ ListRecords \/ ListRecordsFails
    \/ CopyRecord \/ CopyRecordFails \/ RecordsCopied
    \/ SetSpecs \/ SetSpecsFails

-----------------------------------------------------------------------------

Part == UNION {Parts[r] : r \in Named}

\* Where the handlers are at work.
NamedPc == {"find", "create", "assign", "list", "copy", "specs"}

\* Type invariant of the named resources.
NamedTypeOK ==
    /\ remaining \subseteq Part
    /\ given \subseteq dest \X Part

\* Looking for a namesake first makes the creation of these resources safe to
\* repeat: after any number of failed, killed and repeated calls there is one
\* object for each, the one that was there before the first call or one of ours.
OneNamesake ==
    \A o, x \in dest : o.of \in Named /\ x.of = o.of => x = o

\* What a migrated object of ours lacks was lost in the call that created it,
\* which logged a failure, raised or was killed; a later call that finds the
\* object by name reports success and repairs nothing.  Two kinds of parts are
\* lost without any such sign: role assignments on the system, and record sets
\* that delegate a subdomain of a zone, which are taken for those of its apex.
LossReported ==
    \A r \in Named :
        status[r] = "migrated" /\ destination[r].by > 0 =>
            \/ \A p \in Parts[r] \ (Unscoped \cup Delegations) :
                  <<destination[r], p>> \in given
            \/ \E t \in trouble : t.call = destination[r]

=============================================================================
