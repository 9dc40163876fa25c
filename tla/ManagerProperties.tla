------------------------- MODULE ManagerProperties -------------------------
(***************************************************************************)
(* What the migration manager promises, stated over the state of           *)
(* MigrationManager.                                                       *)
(***************************************************************************)
EXTENDS MigrationManager

\* Type invariant of the manager, the records it keeps and its call stacks.
TypeOK ==
    /\ db \in Seq(Migration)
    /\ source \in SUBSET Resource
    /\ dest \in SUBSET Object
    /\ attached \in SUBSET (Object \X Object)
    /\ stack \in [Proc -> Seq(Frame)]
    /\ raising \in [Proc -> BOOLEAN]
    /\ opts \in [Proc -> Flags]
    /\ runs \in Nat

Quiet == \A p \in Proc : Idle(p)

MigratedRecord(i) == db[i].status \in LIST_STATUS_MIGRATED

-----------------------------------------------------------------------------
(* The records and the destination cloud.                                  *)

\* The comment above LIST_STATUS_MIGRATED: a resource in one of these states
\* "has been migrated to the destination cloud and we've obtained a
\* destination resource id".  Whatever fails, crashes or runs at the same
\* time, the record of such a resource names an object of that resource which
\* exists on the destination.
MigratedHasDestination ==
    \A i \in DOMAIN db :
        MigratedRecord(i) => db[i].dest \in dest /\ db[i].dest.of = db[i].source

\* A call that failed, as its record says, made object o (or found it).
LeftBehind(o) ==
    \E i \in DOMAIN db : /\ db[i].source = o.of /\ o.by \in {0, i}
                         /\ db[i].status = STATUS_FAILED

\* The database lets the manager "skip migrations that were already completed"
\* (docs/explanation/architecture.rst): however often a resource is requested,
\* reached as a dependency and as a member, or retried after a failure of its
\* own or of its cleanup, it is created on the destination at most once, what
\* failed calls have left behind aside.
OneDestination ==
    \A o1, o2 \in dest :
        o1.of = o2.of /\ ~LeftBehind(o1) /\ ~LeftBehind(o2) => o1 = o2

\* Every object the handlers created is named by a record, or is about to be,
\* or was left behind by a call whose record says that it failed: there is none
\* that the table knows nothing of.
DestinationAccounted ==
    \A o \in dest :
        \/ \E i \in DOMAIN db : db[i].dest = o
        \/ \E p \in Proc : At(p, "saveDest") /\ NewObject(Top(p)) = o
        \/ LeftBehind(o)

\* The manager skips an associated resource whose record is in progress
\* because it "will be available once migration completes": some running
\* invocation is indeed migrating it.
InProgressIsLive ==
    \A i \in DOMAIN db :
        db[i].status = STATUS_IN_PROGRESS =>
            \E p \in Proc : \E k \in DOMAIN stack[p] : stack[p][k].rec = i

-----------------------------------------------------------------------------
(* Hierarchies.                                                            *)

\* Recursion over dependencies and members never comes back to a resource that
\* is still being migrated further down the call stack, although members
\* depend on their parents and dependencies may form cycles.  The stack is
\* thus never deeper than the number of resources (and one frame for a batch).
NoReentry ==
    \A p \in Proc : \A j, k \in DOMAIN stack[p] :
        stack[p][j].res = stack[p][k].res => j = k

\* A handler creates a resource only when all of its associated resources have
\* been migrated ("These resources must be migrated before the parent
\* resources").
DependenciesFirst ==
    [][\A o \in dest' \ dest : \A d \in Assoc[o.of] : IsMigrated(d)]_vars

\* When nothing runs, the dependencies of every completed migration have been
\* migrated too, and so have its members: also those that were skipped because
\* they were in progress at the time.  For invocations that pass both
\* --include-dependencies and --include-members, when no call fails.
HierarchyMigrated ==
    Quiet =>
        \A i \in DOMAIN db :
            db[i].status = STATUS_COMPLETED =>
                \A r \in Assoc[db[i].source] \cup Members[db[i].source] :
                    IsMigrated(r)

\* "Connect internal member subnets to the destination router": when nothing
\* runs, every migrated member of a completed router is attached to it.
MembersConnected ==
    Quiet =>
        \A i \in DOMAIN db :
            db[i].source \in Connects /\ db[i].status = STATUS_COMPLETED =>
                \A m \in Members[db[i].source] : \A j \in Newest(m) :
                    MigratedRecord(j) => <<db[i].dest, db[j].dest>> \in attached

-----------------------------------------------------------------------------
(* The source cloud.                                                       *)

\* What is gone from the source cloud was deleted, itself or along with what
\* contains it, for a migration that has produced its destination object.
RemovedIsMigrated ==
    \A r \in Resource \ source :
        \E i \in DOMAIN db :
            /\ r \in DeletedWith(db[i].source)
            /\ MigratedRecord(i)
            /\ db[i].dest \in dest

\* "Successfully migrated resources are automatically removed from the source
\* cloud" (docs/how-to/operations/cleanup.rst): nothing is removed that has no
\* counterpart on the destination.
NothingLost ==
    \A r \in Resource \ source : \E o \in dest : o.of = r

\* A source is deleted by an invocation that asked for it, never while a
\* dependency is being migrated on behalf of another resource, and then only
\* for the resource itself or a dependency it does not share; the
\* cleanup-source command deletes what it has selected.
OnlyTargetsRemoved ==
    [][\A r \in source \ source' :
          \E p \in Proc : LET f == Top(p) IN
              /\ ~Idle(p)
              /\ IF f.pc = "sweep"
                 THEN \E i \in f.queue : r \in DeletedWith(db[i].source)
                 ELSE /\ f.res \in Resource
                      /\ opts[p].cleanup
                      /\ \A k \in 1..Len(stack[p]) - 1 : stack[p][k].pc # "deps"
                      /\ \E t \in {f.res} \cup Owned[f.res] :
                            r \in DeletedWith(t)]_vars

\* A record says that its source was removed only when that is so, but for the
\* types whose handler does not say that a deletion has failed.
RemovedIsGone ==
    \A i \in DOMAIN db :
        db[i].removed => db[i].source \notin source \/ db[i].source \in Swallows

\* A migration that was asked to clean up is not completed, after whatever
\* failures and retries, before its record says that its source was removed and
\* (but for those types) the source is gone.
CompleteIsClean ==
    \A p \in Proc :
        At(p, "complete") /\ Top(p).cleanup =>
            /\ Top(p).res \notin source \/ Top(p).res \in Swallows
            /\ db[Top(p).rec].removed

-----------------------------------------------------------------------------
(* Refinement.                                                             *)

\* The migrations table implements the ledger: the six statuses are a detail,
\* and so is every step that moves a migrated record between the last four.
LedgerState(status) ==
    CASE status = STATUS_IN_PROGRESS -> "open"
      [] status = STATUS_FAILED -> "failed"
      [] OTHER -> "migrated"

LedgerEntry(m) ==
    [source |-> m.source, state |-> LedgerState(m.status),
     target |-> m.dest, removed |-> m.removed]

Ledger == INSTANCE MigrationLedger WITH
    Source <- Resource, Target <- Object, NoTarget <- NoDest,
    ledger <- [i \in DOMAIN db |-> LedgerEntry(db[i])]

\* Every behaviour of the manager, with crashes and concurrent invocations, is
\* one the ledger allows: a record is never reopened, never changes its
\* destination, and loses its source only after it has been migrated.
ImplementsLedger == Ledger!Spec

-----------------------------------------------------------------------------
(* An inductive invariant.  It speaks of the database d and the            *)
(* destination objects o, so that it can be compared in two states.        *)

\* Record i names an object of its resource that exists.
Delivered(i, d, o) ==
    i \in DOMAIN d /\ d[i].dest \in o /\ d[i].dest.of = d[i].source

\* A frame holds the record of its own resource from its creation on, the
\* object it has created until that is recorded, and refers to no records but
\* such that have been delivered once its own resource is migrated.
FrameOK(f, d, o) ==
    /\ f.pc \in ParentPc \ {"lookup", "create"} =>
          f.rec \in DOMAIN d /\ d[f.rec].source = f.res
    /\ f.pc = "saveDest" => NewObject(f) \in o
    /\ f.pc \in MigratedPc => Delivered(f.rec, d, o)
    /\ \A i \in f.queue \cup f.got : Delivered(i, d, o)

StackOK(s, d, o) ==
    /\ s \in Seq(Frame)
    /\ \A k \in DOMAIN s : FrameOK(s[k], d, o)

DbOK(d, o) ==
    /\ d \in Seq(Migration)
    /\ \A i \in DOMAIN d :
          d[i].status \in LIST_STATUS_MIGRATED => Delivered(i, d, o)

\* Holds in every reachable state and is preserved by every step.
IInv ==
    /\ TypeOK
    /\ DbOK(db, dest)
    /\ \A p \in Proc : StackOK(stack[p], db, dest)

-----------------------------------------------------------------------------
(* Liveness.                                                               *)

\* Every command comes to an end.
Terminates == \A p \in Proc : ~Idle(p) ~> Idle(p)

\* A start command ends with a completed migration of its resource, when no
\* call fails and dependencies may be included.
RequestCompletes ==
    \A p \in Proc, r \in Requested :
        (~Idle(p) /\ stack[p][1].res = r)
            ~> (\E i \in Newest(r) : db[i].status = STATUS_COMPLETED)

=============================================================================
