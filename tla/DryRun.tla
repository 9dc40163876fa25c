-------------------------------- MODULE DryRun --------------------------------
(***************************************************************************)
(* The dry run of start and start-batch (_perform_individual_migration_    *)
(* dry_run, src/sunbeam_migrate/manager.py), which reads the records and   *)
(* the source cloud and changes neither.  It goes on while nothing else    *)
(* does.                                                                   *)
(***************************************************************************)
EXTENDS ManagerProperties

CONSTANTS
    DryInvocations, \* combinations of command line flags of dry runs in use
    RecursionLimit  \* calls a dry run may nest before Python gives up

ASSUME DryRunAssumption ==
    /\ DryInvocations \subseteq Flags
    /\ RecursionLimit \in Nat

VARIABLES
    dry,       \* the call stack of the dry run, innermost frame last
    dryFlags,  \* the flags it was invoked with
    planned    \* the resources it has listed

dryVars == <<dry, dryFlags, planned>>
allVars == <<vars, dryVars>>

DryRunInit ==
    /\ Init
    /\ dry = <<>>
    /\ dryFlags = [deps |-> FALSE, members |-> FALSE, cleanup |-> FALSE]
    /\ planned = {}

-----------------------------------------------------------------------------
DryFrame ==
    [pc: {"batch", "lookup", "listAssoc", "deps", "listMembers", "members"},
     res: Resource \cup {NoResource}, todo: SUBSET Resource]

\* A variant of a definition that carries a plausible mistake precedes it; no
\* action uses one.  They are there to see that the properties notice.
DryFrameWithoutId(r) == [pc |-> "lookup", res |-> NoResource, todo |-> {}]
NewDryFrame(r) == [pc |-> "lookup", res |-> r, todo |-> {}]

DryAt(pc) == dry # <<>> /\ Last(dry).pc = pc

StartDryRun ==
    /\ "dry-run" \in Commands
    /\ dry = <<>>
    /\ Quiet
    /\ runs < MaxRuns
    /\ runs' = runs + 1
    /\ \/ \E r \in Requested : dry' = <<NewDryFrame(r)>>
       \/ \E sel \in Batches :
             dry' = <<[pc |-> "batch", res |-> NoResource, todo |-> sel \cap source]>>
    /\ dryFlags' \in DryInvocations
    /\ planned' = {}
    /\ UNCHANGED <<db, clouds, stack, raising, opts>>

\* A step of the dry run that moves its innermost frame on.
DryMove(f) ==
    /\ dry' = Append(Front(dry), f)
    /\ UNCHANGED <<vars, dryFlags>>

DryReturn ==
    /\ dry' = Front(dry)
    /\ UNCHANGED <<vars, dryFlags>>

\* It ends with an exception, and its list is of no use.
DryAbort ==
    /\ dry' = <<>>
    /\ planned' = {}
    /\ UNCHANGED <<vars, dryFlags>>

DrySkipMigrated ==
    /\ DryAt("lookup")
    /\ IsMigrated(Last(dry).res)
    /\ DryReturn
    /\ UNCHANGED planned

\* "DRY-RUN: migrating"
DryList ==
    /\ DryAt("lookup")
    /\ ~IsMigrated(Last(dry).res)
    /\ planned' = planned \cup {Last(dry).res}
    /\ DryMove([Last(dry) EXCEPT !.pc = "listAssoc"])

DryGetAssociated ==
    /\ DryAt("listAssoc")
    /\ dryFlags.deps => AssocReadable(Last(dry).res)
    /\ DryMove([Last(dry) EXCEPT
          !.pc = "deps",
          !.todo = IF dryFlags.deps THEN Pending(Last(dry).res) ELSE {}])
    /\ UNCHANGED planned

DryDependenciesListed ==
    /\ DryAt("deps")
    /\ Last(dry).todo = {}
    /\ DryMove([Last(dry) EXCEPT !.pc = "listMembers"])
    /\ UNCHANGED planned

\* Members are visited whether or not they have been migrated.
DryGetMembers ==
    /\ DryAt("listMembers")
    /\ dryFlags.members => MembersReadable(Last(dry).res)
    /\ DryMove([Last(dry) EXCEPT
          !.pc = "members",
          !.todo = IF dryFlags.members THEN Members[Last(dry).res] ELSE {}])
    /\ UNCHANGED planned

DryGetFails ==
    /\ \/ /\ DryAt("listAssoc") /\ dryFlags.deps
          /\ "list" \in Faults \/ ~AssocReadable(Last(dry).res)
       \/ /\ DryAt("listMembers") /\ dryFlags.members
          /\ "list" \in Faults \/ ~MembersReadable(Last(dry).res)
    /\ DryAbort

DryLooping == DryAt("batch") \/ DryAt("deps") \/ DryAt("members")

DryVisit ==
    /\ DryLooping
    /\ Len(dry) < RecursionLimit
    /\ \E r \in Last(dry).todo :
          /\ DryAt("batch") => ~HasCompleted(r)
          /\ dry' = Front(dry) \o <<[Last(dry) EXCEPT !.todo = @ \ {r}], NewDryFrame(r)>>
    /\ UNCHANGED <<vars, dryFlags, planned>>

DrySkipInBatch ==
    /\ DryAt("batch")
    /\ \E r \in Last(dry).todo :
          /\ HasCompleted(r)
          /\ DryMove([Last(dry) EXCEPT !.todo = @ \ {r}])
    /\ UNCHANGED planned

\* RecursionError
DryTooDeep ==
    /\ DryLooping
    /\ Len(dry) = RecursionLimit
    /\ Last(dry).todo # {}
    /\ DryAbort

DryVisitFirst ==
    /\ DryAt("batch") \/ DryAt("members")
    /\ DryReturn
    /\ UNCHANGED planned

DryVisited ==
    /\ DryAt("batch") \/ DryAt("members")
    /\ Last(dry).todo = {}
    /\ DryReturn
    /\ UNCHANGED planned

DryStep ==
    \/ DrySkipMigrated \/ DryList \/ DryGetAssociated \/ DryDependenciesListed
    \/ DryGetMembers \/ DryGetFails \/ DryVisit \/ DrySkipInBatch
    \/ DryTooDeep \/ DryVisited

-----------------------------------------------------------------------------

DryRunNext ==
    \/ Next /\ dry = <<>> /\ UNCHANGED dryVars
    \/ StartDryRun \/ DryStep

DryRunSpec == DryRunInit /\ [][DryRunNext]_allVars

\* The dry run too is a synchronous program.
FairDryRunSpec ==
    /\ DryRunSpec
    /\ \A p \in Proc : WF_vars(Step(p))
    /\ WF_allVars(DryStep)

\* Type invariant of the dry run.
DryTypeOK ==
    /\ dry \in Seq(DryFrame)
    /\ dryFlags \in Flags
    /\ planned \subseteq Resource

\* "to determine the resources that are going to be migrated" (docs/how-to/
\* operations/initiate-migration.rst): a dry run that has ended has listed all
\* that migrating what it lists will come to.
DryRunForetells ==
    dry = <<>> =>
        \A r \in planned :
            /\ dryFlags.deps => \A d \in Assoc[r] : d \in planned \/ IsMigrated(d)
            /\ dryFlags.members => \A m \in Members[r] : m \in planned \/ IsMigrated(m)

\* A dry run only logs the steps to be executed: it does not come back to a
\* resource it is in the middle of, so that it comes to an end.
NoDryReentry ==
    \A j, k \in DOMAIN dry : dry[j].res = dry[k].res => j = k

=============================================================================
