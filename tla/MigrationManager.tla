-------------------------- MODULE MigrationManager --------------------------
(***************************************************************************)
(* The migration manager of sunbeam-migrate (src/sunbeam_migrate/          *)
(* manager.py) over its SQLite table of migration records (db/models.py,   *)
(* db/api.py) and the commands that drive it (cmd/start.py,                *)
(* cmd/cleanup_source.py).                                                 *)
(*                                                                         *)
(* A process is one invocation of the command line tool: a single thread   *)
(* whose recursive calls of perform_individual_migration are the frames of *)
(* its call stack.  Every database call commits a transaction of its own   *)
(* and every handler call is a request to a cloud, so each is a step; the  *)
(* computation between two of them belongs to the step before it.          *)
(***************************************************************************)
EXTENDS Integers, Sequences, SequencesExt

CONSTANTS
    Proc,         \* invocations of the tool that may run at the same time
    Resource,     \* source resources, each a (resource_type, source_id) pair
    NoResource,   \* the resource of a frame that loops over others
    NoDest,       \* destination_id of a record that has none yet
    Assoc,        \* Assoc[r]: what get_associated_resources(r) reports
    Owned,        \* Owned[r]: those reported with should_cleanup
    Members,      \* Members[r]: what get_member_resources(r) reports
    Contained,    \* Contained[r]: what the source cloud deletes along with r
    FindOrCreate, \* resources whose handler reuses an existing namesake
    Connects,     \* resources whose handler attaches members (routers)
    Swallows,     \* resources whose handler ignores that a deletion failed
    Faults,       \* external calls that may fail
    CanCrash,     \* an invocation may be killed
    Commands,     \* the commands in use
    Requested,    \* resources the user may pass to start
    Batches,      \* sets of resources that the filters of start-batch may match
    Sweeps,       \* and those of cleanup-source
    Invocations,  \* combinations of command line flags in use
    MaxRuns       \* bound on the number of invocations

Flags == [deps: BOOLEAN, members: BOOLEAN, cleanup: BOOLEAN]

ASSUME ResourceAssumption ==
    /\ NoResource \notin Resource
    /\ Assoc \in [Resource -> SUBSET Resource]
    /\ Owned \in [Resource -> SUBSET Resource]
    /\ \A r \in Resource : Owned[r] \subseteq Assoc[r]
    /\ Members \in [Resource -> SUBSET Resource]
    /\ Contained \in [Resource -> SUBSET Resource]
    /\ FindOrCreate \subseteq Resource
    /\ Connects \subseteq Resource
    /\ Swallows \subseteq Resource
    /\ Requested \subseteq Resource
    /\ Batches \subseteq SUBSET Resource
    /\ Sweeps \subseteq SUBSET Resource

ASSUME CommandAssumption ==
    /\ Faults \subseteq {"list", "migrate", "connect", "delete"}
    /\ Commands \subseteq {"start", "start-batch", "cleanup-source", "delete",
                          "restore", "register-external", "dry-run"}
    /\ CanCrash \in BOOLEAN
    /\ Invocations \subseteq Flags
    /\ MaxRuns \in Nat

-----------------------------------------------------------------------------
(* Migration records and destination objects.                              *)

STATUS_IN_PROGRESS == "in-progress"
STATUS_FAILED == "failed"
STATUS_COMPLETED == "completed"
STATUS_SOURCE_CLEANUP_FAILED == "source-cleanup-failed"
STATUS_PENDING_MEMBERS == "pending-members"
STATUS_PENDING_CLEANUP == "pending-cleanup"

\* Variants of definitions that carry a plausible mistake follow the original
\* they are derived from or precede it; no action uses one.  They are there to
\* see that the properties notice.
MigratedWithoutPendingMembers ==
    {STATUS_COMPLETED, STATUS_SOURCE_CLEANUP_FAILED, STATUS_PENDING_CLEANUP}
MigratedWithoutCleanupFailed ==
    {STATUS_COMPLETED, STATUS_PENDING_MEMBERS, STATUS_PENDING_CLEANUP}

LIST_STATUS_MIGRATED ==
    { STATUS_COMPLETED, STATUS_SOURCE_CLEANUP_FAILED,
      STATUS_PENDING_MEMBERS, STATUS_PENDING_CLEANUP }

Status == LIST_STATUS_MIGRATED \cup {STATUS_IN_PROGRESS, STATUS_FAILED}

\* An object on the destination cloud: the resource it stands for and the
\* record whose migration created it, 0 for an object that is found by name
\* whenever it exists.
Object == [of: Resource, by: Nat]

Migration ==
    [source: Resource, status: Status, dest: Object \cup {NoDest},
     removed: BOOLEAN, archived: BOOLEAN]

ASSUME DestAssumption == NoDest \notin Object

-----------------------------------------------------------------------------
(* Call frames.  pc names the next database or handler call of the frame.  *)

ParentPc == {"lookup", "create", "assoc", "deps", "perform", "saveDest"}
MigratedPc == {"migrated", "listMembers", "members", "pendingCleanup",
               "cleanOwn", "cleanAssoc", "complete"}

FrameOf(PC, R) ==
    [ pc: PC,
      res: R,                   \* resource_id
      rec: Nat,                 \* migration, 0 before it is known
      cleanup: BOOLEAN,         \* cleanup_source
      todo: SUBSET Resource,    \* what the loop at pc has still to visit
      queue: SUBSET Nat,        \* migrations whose source is to be deleted
      got: SUBSET Nat,          \* migrated_member_resources
      cur: Nat ]                \* migration whose source has just been deleted

\* A frame of perform_individual_migration; the outermost one may instead loop
\* over resources (perform_batch_migration) or records (cleanup-source).
CallFrame == FrameOf(ParentPc \cup MigratedPc, Resource)
LoopFrame == FrameOf({"batch", "sweep"}, {NoResource})
Frame == CallFrame \cup LoopFrame

VARIABLES
    db,        \* the migrations table, in order of created_at
    source,    \* resources present on the source cloud
    dest,      \* objects present on the destination cloud
    attached,  \* <<parent object, member object>> pairs connected there
    stack,     \* the call stack of each process, innermost frame last
    raising,   \* is an exception propagating into the innermost frame?
    opts,      \* the flags each process was invoked with
    runs       \* number of invocations so far

vars == <<db, source, dest, attached, stack, raising, opts, runs>>
clouds == <<source, dest, attached>>
invocation == <<opts, runs>>

Idle(p) == stack[p] = <<>>

Top(p) == Last(stack[p])

At(p, pc) == ~Idle(p) /\ ~raising[p] /\ Top(p).pc = pc
RaisedTo(p, pc) == ~Idle(p) /\ raising[p] /\ Top(p).pc = pc

NewFrame(pc, r, cleanup) ==
    [pc |-> pc, res |-> r, rec |-> 0, cleanup |-> cleanup,
     todo |-> {}, queue |-> {}, got |-> {}, cur |-> 0]

\* Records of r, and the one get_migrations()[0] returns: the newest record
\* that is not archived.
Newest(r) ==
    LET rows == {i \in DOMAIN db : db[i].source = r /\ ~db[i].archived}
    IN  {i \in rows : \A j \in rows : j <= i}

IsMigrated(r) == \E i \in Newest(r) : db[i].status \in LIST_STATUS_MIGRATED

IsInProgress(r) == \E i \in Newest(r) : db[i].status = STATUS_IN_PROGRESS

PendingUnfiltered(r) == Assoc[r]
PendingIgnored(r) == {}

\* Associated resources that _get_associated_resources reports as pending.
Pending(r) == {d \in Assoc[r] : ~IsMigrated(d)}

Init ==
    /\ db = <<>>
    /\ source = Resource
    /\ dest = {}
    /\ attached = {}
    /\ stack = [p \in Proc |-> <<>>]
    /\ raising = [p \in Proc |-> FALSE]
    /\ opts = [p \in Proc |-> [deps |-> FALSE, members |-> FALSE, cleanup |-> FALSE]]
    /\ runs = 0

-----------------------------------------------------------------------------
(* Calling and returning.                                                  *)

Goto(p, f) ==
    stack' = [stack EXCEPT ![p] = Append(Front(@), f)]

\* A step that only moves the innermost frame on.
Move(p, f) ==
    /\ Goto(p, f)
    /\ UNCHANGED <<db, clouds, raising, invocation>>

Call(p, caller, callee) ==
    /\ stack' = [stack EXCEPT ![p] = Append(Append(Front(@), caller), callee)]
    /\ UNCHANGED <<db, clouds, raising, invocation>>

ResumedSharing(caller, callee) ==
    IF caller.pc = "deps" THEN [caller EXCEPT !.queue = @ \cup {callee.rec}]
                          ELSE caller

\* What the caller does with the migration its callee returns: a dependency is
\* put on the cleanup list if it may be cleaned up, a member on the list of
\* migrated members.
Resumed(caller, callee) ==
    CASE caller.pc = "deps" /\ callee.res \in Owned[caller.res] ->
            [caller EXCEPT !.queue = @ \cup {callee.rec}]
      [] caller.pc = "members" ->
            [caller EXCEPT !.got = @ \cup {callee.rec}]
      [] OTHER -> caller

Return(p) ==
    LET below == Front(stack[p])
    IN  stack' = [stack EXCEPT ![p] =
                     IF below = <<>> THEN <<>>
                     ELSE Append(Front(below), Resumed(Last(below), Top(p)))]

\* The command is done.
Exit(p) ==
    /\ stack' = [stack EXCEPT ![p] = <<>>]
    /\ UNCHANGED <<db, clouds, raising, invocation>>

\* The innermost frame ends with an exception.
Raise(p) ==
    /\ stack' = [stack EXCEPT ![p] = Front(@)]
    /\ raising' = [raising EXCEPT ![p] = Len(stack[p]) > 1]

SetStatus(i, s) == db' = [db EXCEPT ![i].status = s]

FailUnrecorded(p) == UNCHANGED db /\ Raise(p)

\* The except clause of _migrate_parent_resource.
FailMigration(p) ==
    /\ SetStatus(Top(p).rec, STATUS_FAILED)
    /\ Raise(p)

-----------------------------------------------------------------------------
(* The commands.                                                           *)

Invoke(p, cmd, f, o) ==
    /\ cmd \in Commands
    /\ Idle(p)
    /\ runs < MaxRuns
    /\ runs' = runs + 1
    /\ opts' = [opts EXCEPT ![p] = o]
    /\ stack' = [stack EXCEPT ![p] = <<f>>]
    /\ UNCHANGED <<db, clouds, raising>>

StartMigration(p) ==
    \E r \in Requested, o \in Invocations :
        Invoke(p, "start", NewFrame("lookup", r, o.cleanup), o)

\* get_source_resource_ids lists the resources that match and still exist.
StartBatch(p) ==
    \E sel \in Batches, o \in Invocations :
        Invoke(p, "start-batch",
               [NewFrame("batch", NoResource, o.cleanup)
                   EXCEPT !.todo = sel \cap source], o)

RemovableAnyStatus(sel) ==
    {i \in DOMAIN db : db[i].source \in sel /\ ~db[i].removed /\ ~db[i].archived}

\* The migrations cleanup-source is to clean up among those of sel.
Removable(sel) ==
    {i \in DOMAIN db : /\ db[i].source \in sel
                       /\ db[i].status = STATUS_COMPLETED
                       /\ ~db[i].removed /\ ~db[i].archived}

\* They are read once, at the start; the command has none of the flags.
StartCleanup(p) ==
    \E sel \in Sweeps :
        Invoke(p, "cleanup-source",
               [NewFrame("sweep", NoResource, FALSE)
                   EXCEPT !.queue = Removable(sel)], opts[p])

-----------------------------------------------------------------------------
(* perform_batch_migration                                                 *)

HasCompleted(r) ==
    \E i \in DOMAIN db :
        /\ db[i].source = r
        /\ db[i].status = STATUS_COMPLETED
        /\ ~db[i].archived

SkipInBatch(p) ==
    /\ At(p, "batch")
    /\ \E r \in Top(p).todo :
          /\ HasCompleted(r)
          /\ Move(p, [Top(p) EXCEPT !.todo = @ \ {r}])

MigrateInBatch(p) ==
    /\ At(p, "batch")
    /\ \E r \in Top(p).todo :
          /\ ~HasCompleted(r)
          /\ Call(p, [Top(p) EXCEPT !.todo = @ \ {r}],
                     NewFrame("lookup", r, Top(p).cleanup))

FinishBatch(p) ==
    /\ At(p, "batch")
    /\ Top(p).todo = {}
    /\ Exit(p)

-----------------------------------------------------------------------------
(* _migrate_parent_resource                                                *)

\* "Already migrated ... skipping duplicate migration"
ReuseMigration(p) ==
    /\ At(p, "lookup")
    /\ \E i \in Newest(Top(p).res) :
          /\ db[i].status \in LIST_STATUS_MIGRATED
          /\ Move(p, [Top(p) EXCEPT !.pc = "migrated", !.rec = i])

LookUpMigration(p) ==
    /\ At(p, "lookup")
    /\ ~IsMigrated(Top(p).res)
    /\ Move(p, [Top(p) EXCEPT !.pc = "create"])

CreateMigration(p) ==
    /\ At(p, "create")
    /\ db' = Append(db, [source |-> Top(p).res, status |-> STATUS_IN_PROGRESS,
                         dest |-> NoDest, removed |-> FALSE,
                         archived |-> FALSE])
    /\ Goto(p, [Top(p) EXCEPT !.pc = "assoc", !.rec = Len(db) + 1])
    /\ UNCHANGED <<clouds, raising, invocation>>

\* Handlers that report dependencies look the resource up first; the default
\* implementation reports none without a request.
AssocReadable(r) == r \in source \/ Assoc[r] = {}

GetAssociatedResources(p) ==
    /\ At(p, "assoc")
    /\ AssocReadable(Top(p).res)
    /\ LET pending == Pending(Top(p).res) IN
          \/ /\ pending = {}
             /\ Move(p, [Top(p) EXCEPT !.pc = "perform"])
          \/ /\ pending # {}
             /\ opts[p].deps
             /\ Move(p, [Top(p) EXCEPT !.pc = "deps", !.todo = pending])

\* "Specify --include-dependencies to automatically migrate them"
RefusePendingDependencies(p) ==
    /\ At(p, "assoc")
    /\ AssocReadable(Top(p).res)
    /\ Pending(Top(p).res) # {}
    /\ ~opts[p].deps
    /\ FailMigration(p)
    /\ UNCHANGED <<clouds, invocation>>

SkipDependency(p) ==
    /\ At(p, "deps")
    /\ \E d \in Top(p).todo :
          /\ IsMigrated(d) \/ IsInProgress(d)
          /\ Move(p, [Top(p) EXCEPT !.todo = @ \ {d}])

\* The recursive call does not pass cleanup_source on.
MigrateDependency(p) ==
    /\ At(p, "deps")
    /\ \E d \in Top(p).todo :
          /\ ~IsMigrated(d) /\ ~IsInProgress(d)
          /\ Call(p, [Top(p) EXCEPT !.todo = @ \ {d}],
                     NewFrame("lookup", d, FALSE))

RecheckDependencies(p) ==
    /\ At(p, "deps")
    /\ Top(p).todo = {}
    /\ AssocReadable(Top(p).res)
    /\ Pending(Top(p).res) = {}
    /\ Move(p, [Top(p) EXCEPT !.pc = "perform"])

\* "dependencies still pending"
RefuseUnmigratedDependencies(p) ==
    /\ At(p, "deps")
    /\ Top(p).todo = {}
    /\ AssocReadable(Top(p).res)
    /\ Pending(Top(p).res) # {}
    /\ FailMigration(p)
    /\ UNCHANGED <<clouds, invocation>>

GetAssociatedResourcesFails(p) ==
    /\ At(p, "assoc") \/ (At(p, "deps") /\ Top(p).todo = {})
    /\ "list" \in Faults \/ ~AssocReadable(Top(p).res)
    /\ FailMigration(p)
    /\ UNCHANGED <<clouds, invocation>>

ObjectWithoutId(f) == NoDest

\* What the handler creates or finds, and the destination id stands for.
NewObject(f) ==
    [of |-> f.res, by |-> IF f.res \in FindOrCreate THEN 0 ELSE f.rec]

HandlerMigrates(p) ==
    /\ At(p, "perform")
    /\ Top(p).res \in source
    /\ dest' = dest \cup {NewObject(Top(p))}
    /\ Goto(p, [Top(p) EXCEPT !.pc = "saveDest"])
    /\ UNCHANGED <<db, source, attached, raising, invocation>>

\* A handler of several requests leaves the object it has created when a later
\* one fails; one of a single request, when the request was carried out.
HandlerFails(p) ==
    /\ At(p, "perform")
    /\ "migrate" \in Faults \/ Top(p).res \notin source
    /\ \/ UNCHANGED dest
       \/ Top(p).res \in source /\ dest' = dest \cup {NewObject(Top(p))}
    /\ FailMigration(p)
    /\ UNCHANGED <<source, attached, invocation>>

ForgetDestination(p) ==
    /\ At(p, "saveDest")
    /\ Move(p, [Top(p) EXCEPT !.pc = "migrated"])

SaveDestination(p) ==
    /\ At(p, "saveDest")
    /\ db' = [db EXCEPT ![Top(p).rec].dest = NewObject(Top(p))]
    /\ Goto(p, [Top(p) EXCEPT !.pc = "migrated"])
    /\ UNCHANGED <<clouds, raising, invocation>>

-----------------------------------------------------------------------------
(* perform_individual_migration after _migrate_parent_resource, and        *)
(* _migrate_member_resources                                               *)

AfterMembersNoCleanup(f) == "complete"
AfterMembers(f) == IF f.cleanup THEN "pendingCleanup" ELSE "complete"

MarkPendingMembers(p) ==
    /\ At(p, "migrated")
    /\ SetStatus(Top(p).rec, STATUS_PENDING_MEMBERS)
    /\ Goto(p, [Top(p) EXCEPT !.pc =
                   IF opts[p].members THEN "listMembers" ELSE AfterMembers(Top(p))])
    /\ UNCHANGED <<clouds, raising, invocation>>

MembersReadable(r) == r \in source \/ Members[r] = {}

GetMemberResources(p) ==
    /\ At(p, "listMembers")
    /\ MembersReadable(Top(p).res)
    /\ Move(p, [Top(p) EXCEPT !.pc = "members", !.todo = Members[Top(p).res]])

\* Not covered by any except clause: the record stays as it is.
GetMemberResourcesFails(p) ==
    /\ At(p, "listMembers")
    /\ "list" \in Faults \/ ~MembersReadable(Top(p).res)
    /\ Raise(p)
    /\ UNCHANGED <<db, clouds, invocation>>

SkipMember(p) ==
    /\ At(p, "members")
    /\ \E m \in Top(p).todo :
          /\ IsMigrated(m) \/ IsInProgress(m)
          /\ Move(p, [Top(p) EXCEPT !.todo = @ \ {m}])

MigrateMember(p) ==
    /\ At(p, "members")
    /\ \E m \in Top(p).todo :
          /\ ~IsMigrated(m) /\ ~IsInProgress(m)
          /\ Call(p, [Top(p) EXCEPT !.todo = @ \ {m}],
                     NewFrame("lookup", m, Top(p).cleanup))

\* The pairs connect_member_resources_to_parent is asked to attach.
Connections(f) ==
    IF f.res \in Connects THEN {<<db[f.rec].dest, db[m].dest>> : m \in f.got} ELSE {}

\* A failure part way is logged and otherwise ignored.
ConnectMembers(p) ==
    /\ At(p, "members")
    /\ Top(p).todo = {}
    /\ \E done \in SUBSET Connections(Top(p)) :
          /\ done = Connections(Top(p)) \/ "connect" \in Faults
          /\ attached' = attached \cup done
    /\ Goto(p, [Top(p) EXCEPT !.pc = AfterMembers(Top(p))])
    /\ UNCHANGED <<db, source, dest, raising, invocation>>

-----------------------------------------------------------------------------
(* Cleaning up the source: cleanup_migration_source, called by             *)
(* perform_individual_migration for its own migration and then for its     *)
(* associated ones, and by the cleanup-source command for each migration   *)
(* it has read, the newest first.                                          *)

MarkPendingCleanup(p) ==
    /\ At(p, "pendingCleanup")
    /\ SetStatus(Top(p).rec, STATUS_PENDING_CLEANUP)
    /\ Goto(p, [Top(p) EXCEPT !.pc = "cleanOwn"])
    /\ UNCHANGED <<clouds, raising, invocation>>

\* The migrations the frame may clean up next.
CleanupNext(f) ==
    CASE f.pc = "cleanOwn" -> {f.rec}
      [] f.pc = "cleanAssoc" -> f.queue
      [] f.pc = "sweep" -> {i \in f.queue : \A j \in f.queue : j <= i}
      [] OTHER -> {}

CleaningUp(p) == ~Idle(p) /\ ~raising[p] /\ Top(p).cur = 0

\* What disappears from the source cloud with r.
DeletedWith(r) == {r} \cup Contained[r]

DeletionSkipped(p) ==
    /\ CleaningUp(p)
    /\ \E i \in CleanupNext(Top(p)) : Move(p, [Top(p) EXCEPT !.cur = i])

\* "Unable to delete volume type, it's probably still in use" is but a warning,
\* as it is for share types.
KeptSilently(r) == r \in Swallows /\ "delete" \in Faults

DeleteSource(p) ==
    /\ CleaningUp(p)
    /\ \E i \in CleanupNext(Top(p)) :
          /\ \/ source' = source \ DeletedWith(db[i].source)
             \/ KeptSilently(db[i].source) /\ UNCHANGED source
          /\ Goto(p, [Top(p) EXCEPT !.cur = i])
    /\ UNCHANGED <<db, dest, attached, raising, invocation>>

\* The cloud may have carried out a request whose caller sees an error.  (That
\* users, projects and domains are disabled before they are deleted is left out.)
DeleteSourceFails(p) ==
    /\ CleaningUp(p)
    /\ "delete" \in Faults
    /\ \E i \in CleanupNext(Top(p)) :
          /\ db[i].source \notin Swallows
          /\ source' \in {source, source \ DeletedWith(db[i].source)}
          /\ SetStatus(i, STATUS_SOURCE_CLEANUP_FAILED)
    /\ Raise(p)
    /\ UNCHANGED <<dest, attached, invocation>>

RemainingAll(f) == f.queue
Remaining(f) == f.queue \ {f.cur}

AfterRemoval(f) ==
    IF f.pc = "sweep" THEN "sweep"
    ELSE IF Remaining(f) = {} THEN "complete" ELSE "cleanAssoc"

MarkSourceRemoved(p) ==
    /\ ~Idle(p) /\ ~raising[p]
    /\ Top(p).pc \in {"cleanOwn", "cleanAssoc", "sweep"}
    /\ Top(p).cur # 0
    /\ db' = [db EXCEPT ![Top(p).cur].removed = TRUE]
    /\ Goto(p, [Top(p) EXCEPT !.cur = 0, !.queue = Remaining(Top(p)),
                                !.pc = AfterRemoval(Top(p))])
    /\ UNCHANGED <<clouds, raising, invocation>>

FinishCleanup(p) ==
    /\ At(p, "sweep")
    /\ Top(p).queue = {}
    /\ Exit(p)

CompleteMigration(p) ==
    /\ At(p, "complete")
    /\ SetStatus(Top(p).rec, STATUS_COMPLETED)
    /\ Return(p)
    /\ UNCHANGED <<clouds, raising, invocation>>

-----------------------------------------------------------------------------
(* An exception reaches the frame that made the call.                      *)

\* A dependency failed: so does the migration that needs it.
DependencyFailed(p) ==
    /\ RaisedTo(p, "deps")
    /\ FailMigration(p)
    /\ UNCHANGED <<clouds, invocation>>

\* "Failed to migrate member resource": logged, on to the next one.
MemberFailed(p) ==
    /\ RaisedTo(p, "members")
    /\ raising' = [raising EXCEPT ![p] = FALSE]
    /\ UNCHANGED <<db, clouds, stack, invocation>>

BatchFailed(p) ==
    /\ RaisedTo(p, "batch")
    /\ Raise(p)
    /\ UNCHANGED <<db, clouds, invocation>>

\* The process is killed, or interrupted: KeyboardInterrupt is not an
\* Exception and passes every except clause.
Crash(p) ==
    /\ CanCrash
    /\ ~Idle(p)
    /\ stack' = [stack EXCEPT ![p] = <<>>]
    /\ raising' = [raising EXCEPT ![p] = FALSE]
    /\ UNCHANGED <<db, clouds, invocation>>

-----------------------------------------------------------------------------
(* delete, restore and register-external (cmd/delete.py, cmd/restore.py,   *)
(* cmd/register_external.py) rewrite the records at any time, behind the   *)
(* back of whatever runs.  Each is one step, although register-external    *)
(* looks for an equal record in a transaction before the one that saves.   *)

Issue(cmd) ==
    /\ cmd \in Commands
    /\ runs < MaxRuns
    /\ runs' = runs + 1
    /\ UNCHANGED <<source, attached, stack, raising, opts>>

\* What the filters of the commands may select among the records: one by its
\* id, or those with a status, those of a resource, both or neither.
Selections(rows) ==
    {{i} : i \in rows}
    \cup {{i \in rows : db[i].status \in S /\ db[i].source \in R} :
             S \in {{s} : s \in Status} \cup {Status},
             R \in {{r} : r \in Resource} \cup {Resource}}

SetArchived(rows, flag) ==
    db' = [i \in DOMAIN db |->
              IF i \in rows THEN [db[i] EXCEPT !.archived = flag] ELSE db[i]]

\* delete without --hard: the records are hidden, whatever their status.
ArchiveMigrations ==
    /\ Issue("delete")
    /\ \E sel \in Selections(DOMAIN db) : SetArchived(sel, TRUE)
    /\ UNCHANGED dest

RestoreMigrations ==
    /\ Issue("restore")
    /\ \E sel \in Selections({i \in DOMAIN db : db[i].archived}) :
          SetArchived(sel, FALSE)
    /\ UNCHANGED dest

Registered(r, o) ==
    \E i \in DOMAIN db : /\ db[i].source = r /\ db[i].dest = o
                         /\ db[i].status = STATUS_COMPLETED /\ ~db[i].archived

RegisterWithoutDestination ==
    /\ Issue("register-external")
    /\ \E r \in Requested :
          db' = Append(db, [source |-> r, status |-> STATUS_COMPLETED,
                            dest |-> NoDest, removed |-> FALSE, archived |-> FALSE])
    /\ UNCHANGED dest

\* The user has seen to it that there is an object for the resource, and says
\* so: one that was there already, or a new one.
RegisterExternal ==
    /\ Issue("register-external")
    /\ \E r \in Requested :
          \E o \in {x \in dest : x.of = r} \cup {NewObject([res |-> r, rec |-> Len(db) + 1])} :
             /\ ~Registered(r, o)
             /\ dest' = dest \cup {o}
             /\ db' = Append(db, [source |-> r, status |-> STATUS_COMPLETED,
                                  dest |-> o, removed |-> FALSE, archived |-> FALSE])

-----------------------------------------------------------------------------

Step(p) ==
    \/ SkipInBatch(p) \/ MigrateInBatch(p) \/ FinishBatch(p)
    \/ ReuseMigration(p) \/ LookUpMigration(p) \/ CreateMigration(p)
    \/ GetAssociatedResources(p) \/ RefusePendingDependencies(p)
    \/ SkipDependency(p) \/ MigrateDependency(p)
    \/ RecheckDependencies(p) \/ RefuseUnmigratedDependencies(p)
    \/ GetAssociatedResourcesFails(p)
    \/ HandlerMigrates(p) \/ HandlerFails(p) \/ SaveDestination(p)
    \/ MarkPendingMembers(p)
    \/ GetMemberResources(p) \/ GetMemberResourcesFails(p)
    \/ SkipMember(p) \/ MigrateMember(p) \/ ConnectMembers(p)
    \/ MarkPendingCleanup(p)
    \/ DeleteSource(p) \/ DeleteSourceFails(p) \/ MarkSourceRemoved(p)
    \/ FinishCleanup(p) \/ CompleteMigration(p)
    \/ DependencyFailed(p) \/ MemberFailed(p) \/ BatchFailed(p)

Next ==
    \/ \E p \in Proc :
          \/ StartMigration(p) \/ StartBatch(p) \/ StartCleanup(p)
          \/ Step(p)
          \/ Crash(p)
    \/ ArchiveMigrations \/ RestoreMigrations \/ RegisterExternal

Spec == Init /\ [][Next]_vars

\* The tool is a synchronous program: unless it is killed it takes its next
\* step.  Nothing makes the user issue another command.
FairSpec == Spec /\ \A p \in Proc : WF_vars(Step(p))

=============================================================================
