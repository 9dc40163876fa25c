# Formal models of sunbeam-migrate

TLA+ models of `sunbeam-migrate`, the tool that copies OpenStack resources from
one cloud to another, checked with TLC on small instances and, for the theorems
listed below, proved with TLAPS for every instance.  Paths are relative to the
repository; `manager.py` is `sunbeam_migrate/manager.py`.

## The system

The tool is a synchronous command line program.  A **command** builds a
**manager**, which asks a **handler** (one per resource type) what a resource
depends on and contains, migrates it by requests to the two clouds, and keeps a
**record** of every migration in an SQLite table that outlives the process.

| component | state it keeps | operations | what makes it correct |
|---|---|---|---|
| manager (`manager.py`) | its call stack only: it calls itself for dependencies and members, and handlers call it back | `perform_individual_migration`, `perform_batch_migration`, `cleanup_migration_source`, the dry run | dependencies first; every member found; nothing twice; a record always tells the truth; nothing deleted that was not asked for; the recursion ends |
| records (`db/models.py`, `db/api.py`, `constants.py`) | the `migrations` table: resource, status, destination id, `source_removed`, `archived` | save, query (newest first), archive, delete, restore | a record never loses its destination, closes once, is found by the next invocation |
| `start`, `start-batch`, `cleanup-source` | none | select resources or records, call the manager | the selection is still right when it is acted upon |
| `delete`, `restore`, `register-external` | none | edit the table | no running or later migration is misled |
| `list`, `show`, `capabilities` | none | print | (read-only) |
| handler interface (`handlers/base.py`, `factory.py`) | none | what the manager asks of a handler | a handler that returns has made one whole object; one that raises may leave one, which its retry does not look for |
| relations between resources (`get_associated_resources`, `get_member_resources` of every handler) | none; attributes on the source cloud | list dependencies, members, and what is cleaned up with a resource | only announced types; no cycle of dependencies; nothing shared is cleaned up |
| volumes and instances (`cinder/volume.py`, `nova/instance.py`, `glance/image.py`) | temporary images on both clouds | upload, nested migration of the image, creation, clean-up in a `finally` | no image stays; an image outlives what is copied from it |
| shares (`manila/share.py`, `utils/manila_utils.py`) | access rules on both clouds, mounts on the host | create, copy rules, two nested contexts of rule and mount, copy | access as long as mounted, no rule left over, the user's own rules untouched |
| floating IPs, ports (`neutron/floating_ip.py`, `port.py`, `utils/neutron_utils.py`) and load balancers (`octavia/load_balancer.py`) | components, interfaces and attachments on the destination | build in order, wait after each, attach floating IPs last | a route that was found exists first; traffic arrives last; the copy has the shape of the original |
| resources found by name (`keystone/*`, `designate/zone.py`, flavors, key pairs, volume and share types) | role assignments, record sets, extra specs | find or create, then add the parts | one namesake; no part lost without a failure that was reported, role assignments on the system and delegations excepted: those are dropped without a word |
| `config`, `log`, `factory`, session helpers | read-only configuration | | |

They interact by plain calls; the only state two invocations share is the table
and the clouds.  Every database call is a transaction of its own
(`session_utils.ensure_session`), so two invocations interleave between any two
of them, and a process can be killed between any two requests.

Hard behaviours, all listed with their lines under `hazards` in `PROJECT.json`:
mutual recursion over two relations that point at each other (subnet needs
network, network contains subnet; security group rules refer to two groups),
exceptions that pass through that recursion and are caught at some levels only,
partial failures of multi-step handlers, kills between creating a resource and
recording it, check-then-act on the table, cleanup of shared or contained
resources, retries of half finished work, and handlers that call the manager
back.

## Modules

| module | what it is |
|---|---|
| `MigrationManager` | the manager, the table, the commands that migrate and those that edit the table: variables, one action per database or handler call, `Spec` and `FairSpec` |
| `ManagerProperties` | type invariant, safety, action and liveness properties, the inductive invariant, the refinement mapping |
| `MigrationLedger` | abstract specification: a ledger of migrations that open, obtain one target, close once, and give up their source only after that |
| `DryRun` | the dry run, composed with the manager |
| `ResourceGraph` | what the resources of a cloud depend on and contain, from their attributes, type by type |
| `HandlerCall` | what a call of a handler by the manager is: record, requests, exceptions, the ways it ends |
| `VolumeMigration`, `ShareMigration`, `EndpointMigration`, `LoadBalancerMigration`, `NamedMigration` | the handlers that take several requests, one action per request and outcome |
| `HandlerMigrations` | their composition: calls of any of them one after the other, and the refinement mapping |
| `HandlerContract` | abstract specification of a handler call: what `MigrationManager` assumes in taking it as one step |
| `MCManager`, `MCDryRun`, `MCHandlers` | clouds, flags and symmetry for TLC |
| `ManagerProofs`, `RecursionProofs`, `LedgerProofs`, `AccountProofs` | lemmas and theorems about the manager, each module on top of the one before it |
| `ResourceProofs` | theorems about `ResourceGraph` |
| `HierarchyProofs` | theorems about whole hierarchies, migrated and foretold by `DryRun`, on top of `AccountProofs` and `ResourceProofs` |
| `StorageProofs`, `HandlerProofs` | lemmas about the calls, volumes and shares; lemmas about the other handlers and the theorems about all of them |

`ResourceGraph` gives `MCManager` its hierarchies: `Assoc`, `Members` and
`Owned`, constants of `MigrationManager`, are what the handlers return for the
resources of a small cloud.  `HandlerContract` ties the two halves together: the
detailed handlers implement it (`HandlersKeepContract`), and it is how
`MigrationManager` takes a handler call.

### MigrationManager and the code

`db` is the table in order of `created_at`; `source` and `dest` are the
resources on the two clouds and `attached` the router interfaces on the
destination; `stack[p]` is the call stack of invocation `p`, one frame per
active `perform_individual_migration` (the outermost may be the loop of a batch
or of `cleanup-source`), `raising[p]` says that an exception is on its way up,
`opts[p]` holds the flags `include_dependencies`, `include_members` and
`cleanup_source`, and `runs` counts invocations.

The `pc` of a frame names its next call; local computation belongs to the step
before it:

| pc | code | actions |
|---|---|---|
| `lookup` | `manager.py:109-122` | `ReuseMigration`, `LookUpMigration` |
| `create` | `126-134` | `CreateMigration` |
| `assoc` | `138-154` | `GetAssociatedResources`, `RefusePendingDependencies`, `GetAssociatedResourcesFails` |
| `deps` | `155-219` | `SkipDependency`, `MigrateDependency`, `RecheckDependencies`, `RefuseUnmigratedDependencies`, `DependencyFailed` |
| `perform` | `221-226` | `HandlerMigrates`, `HandlerFails` |
| `saveDest` | `227-228` | `SaveDestination` |
| `migrated` | `56-57` | `MarkPendingMembers` |
| `listMembers` | `253` | `GetMemberResources`, `GetMemberResourcesFails` |
| `members` | `254-306`, `67-77` | `SkipMember`, `MigrateMember`, `MemberFailed`, `ConnectMembers` |
| `pendingCleanup` | `79-81` | `MarkPendingCleanup` |
| `cleanOwn`, `cleanAssoc`, `sweep` | `83-86`, `383-392`, `cmd/cleanup_source.py:57-65` | `DeleteSource`, `DeleteSourceFails`, `MarkSourceRemoved`, `FinishCleanup` |
| `complete` | `92-94` | `CompleteMigration` |
| `batch` | `350-371` | `SkipInBatch`, `MigrateInBatch`, `FinishBatch`, `BatchFailed` |

`Crash` kills an invocation at any step; its records stay.  `ArchiveMigrations`,
`RestoreMigrations` and `RegisterExternal` are the commands that edit the table
(`cmd/delete.py`, `cmd/restore.py`, `cmd/register_external.py`): each is one step
and may come between any two steps of an invocation.  For `delete` and `restore`
that is one transaction.  `register-external` looks for a record of the resource
(lines 48-56) in one transaction and saves its own (69) in another; the model
takes both as one step and leaves out a command that comes in between, which can
only give the resource one more record, as two migrations can.

Choices of abstraction:

- A resource stands for a (type, id) pair, so an id is never that of two types.
- Handlers choose the order of dependencies and members; the loops take them in
  any order, which covers every choice and every other order as well.
- `_get_associated_resources` is one step although it issues a query per
  resource.
- Records are ordered by insertion, that is, the clock does not go back between
  two of them.
- `save` writes the status even when it equals the one last read (SQLAlchemy
  then writes nothing); the two differ only in which of two migrated statuses a
  record shows while two invocations work on it.
- What the source cloud deletes along with a resource (`Contained`) and whether
  a handler reuses a namesake (`FindOrCreate`) are parameters: an object found
  by name is the same whoever finds it.
- A handler call is one step that succeeds, or fails with or without an object
  left behind: the contract.  The handlers of volumes, instances, shares and load
  balancers raise with their object on the destination when a request after its
  creation fails, and any request to create may have been carried out although
  its reply was lost.
- A deletion that fails has left the resource or not, for the same reason, and
  raises, but for the resources in `Swallows`: the handlers of volume and share
  types log the failure and return (`volume_type.py:96-107`,
  `share_type.py:102-113`), and the record then says that the source was removed.
- Users, projects and domains are disabled before they are deleted; both requests
  are the one step `DeleteSource`, and whether a resource that could not be
  deleted is disabled is not in the model.
- The temporary images that handlers have the manager migrate are in
  `VolumeMigration` only: their records do not name an existing object once the
  call has ended, by design.
- `_get_migrated_resource` raises when a migrated record has no destination
  (`manager.py:394-400`); `MigratedHasDestination` shows that this cannot
  happen, so there is no such action.
- A registered destination is an object of the resource, one that the tool has
  made or a new one that somebody else has: `RegisterExternal` adds it together
  with the record.  The command does not look.

### DryRun and the code

`dry` is the call stack of `_perform_individual_migration_dry_run`
(`manager.py:407-482`), `planned` what it has listed, `dryFlags` its flags.  It
reads the table and the source cloud and changes neither; it runs while nothing
else does.  `DryTooDeep` is Python's `RecursionError`, at `RecursionLimit`
nested calls: the dry run keeps no record of what it is in the middle of.

### ResourceGraph and the code

`Ref.a[r]` is the set of resources that attribute `a` of the source resource `r`
refers to; one definition per handler says what `get_associated_resources` and
`get_member_resources` make of these under the options
`multitenant_mode`, `preserve_volume_type` and `preserve_port_floating_ip`;
`OwnedResources` are the dependencies with `should_cleanup`.

### The handlers and the code

`HandlerCall` has the state every handler module shares: `wanted`, what the user
asks for; `status` and `destination`, the newest record of each resource;
`job`, the running call (`pc` names the next request, `raising` says that an
exception is on its way through `finally` clauses); `dest`, the objects on the
destination, each named by the resource it stands for and the call that made it;
and `trouble`, a history of which request of which call has failed.  `trouble`
is what properties may excuse themselves with: "no image is left unless the
request to delete it failed".

Each request has an action for its success and one for its failure.  A request
that creates or deletes may have been carried out when it fails
(`PerhapsAdded`, `PerhapsRemoved`): a timeout does not tell.  `RaiseTo` leads to
the `finally` clause in whose scope the request is, `FailCall` to the manager,
and `LogTo` is a failure that is logged and forgotten.  `CrashCall` kills the
process between two requests, `finally` clauses included.

| module | code | state |
|---|---|---|
| `VolumeMigration` | upload, nested migration and cleanup of the image, creation, wait, metadata, `finally` | `sourceImages`, `destImages`, `imageKnown` (`destination_image_id` is set), `built`, `labelled` |
| `ShareMigration` | creation, rules copied one by one (failures logged), two nested generators of access rule and mount, copy | `granted`, `rules`, `uncopied`, `contexts` (the `with` statements entered), `mounted`, `filled` |
| `EndpointMigration` | a router that leads to the network, an interface on it, creation, floating IPs attached anew | `Unlisted` (routers whose interfaces the handler does not look for), `preserve`, `sourceRoutes`, `routes`, `route`, `unattached`, `attached` |
| `LoadBalancerMigration` | listeners, pools, monitors, members in the order of the code, floating IPs of the VIP last | `defaultPool`, `position`, `uncreated`, `listeners`, `pools`, `monitors`, `members` |
| `NamedMigration` | find or create, then role assignments, record sets or extra specs | `remaining`, `given` |

The floating IP handler looks for interfaces whose `device_owner` is
`network:router_interface` (`floating_ip.py:250-253`) and overlooks those of
distributed and highly available routers, which `neutron_utils.py:15-19` counts
as internal: `Listed` is what it finds.  With nothing found it goes on without an
interface (`NoRoute`), and the attachment of the floating IP fails unless the
interface is there already.

The ten handlers of `NamedMigration` have the same shape; `map` gives each
definition the lines of one of them.  A wait is one step with two outcomes.
An assignment of a user on the system is passed over without a log line
(`PassOverUnscoped`, `user.py:136-171`).
The nested migration of an image is two: the copy, and the deletion of its source.

Definitions that follow or precede another and are used by no action
(`ForgetDestination`, `PendingIgnored`, ...) are plausible mistakes in it; each
breaks the property it is paired with in `PROJECT.json` under `mutants`.

## Runs

`Interchangeable` makes invocations symmetric; it is used only where no liveness
is checked.  Deadlock is not an error (`CHECK_DEADLOCK FALSE`): when the user has
used up the commands, nothing happens any more.  That nothing gets stuck before
that is `Terminates` and `RequestCompletes`.

| run | instance | what it shows |
|---|---|---|
| `hierarchy` (`MCManager`) | an instance with its port, network, subnet, router, project, two security groups whose rules refer to each other; three commands; no failure | `NoReentry`, `HierarchyMigrated`, `DependenciesFirst`, `RequestCompletes` |
| `faults` (`MCManager`) | an instance with its volume and that volume's type, whose handler does not report a failed deletion, a network with a subnet; every call may fail, handlers with or without their object left behind; three commands of any kind, with all flags or none | `CompleteIsClean`, `RemovedIsGone`, `OneDestination`, `DestinationAccounted`, `InProgressIsLive`, `DependenciesFirst` |
| `members` (`MCDryRun`) | network, subnet and router; every call may fail; three commands with and without cleanup, dry runs among them | `NoReentry`, `OneDestination`, `OnlyTargetsRemoved`, `DryRunForetells`, `Terminates` |
| `concurrent` (`MCManager`) | instance and volume; two invocations at a time, three in all, each of which may be killed, among them archiving, restoring and registering records | `MigratedHasDestination`, `RemovedIsMigrated`, `RemovedIsGone`, `ImplementsLedger` |
| `handlers` (`MCHandlers`) | every handler of several requests; any request may fail, one retry, the process may be killed | `NoImageLeft`, `ImageOutlivesCopy`, `AccessWhileMounted`, `UserAccessKept`, `NoForeignAccess`, `AccessPreserved`, `FloatingIpsFollow`, `RouteReady`, `FloatingIpLast`, `OneNamesake`, `LossReported`, `HandlersKeepContract` |
| `killed` (`MCManager`) | one invocation, killed | violates `InProgressIsLive` |
| `duplicates` (`MCManager`) | two invocations | violates `OneDestination` |
| `router` (`MCManager`) | a subnet, then its router | violates `MembersConnected` |
| `cascade` (`MCManager`) | a network and its subnet, one failure, cleanup | violates `NothingLost` |
| `dryrun` (`MCDryRun`) | a dry run of a network and its subnet with both flags | violates `NoDryReentry` |
| `sharedpool` (`MCHandlers`) | a load balancer with two listeners, no failure | violates `ListenersKeepPools` |
| `leftover` (`MCHandlers`) | a volume, any request may fail, one retry, no kill | violates `RetriedFromScratch` |

The last seven are disagreements between the code and what its comments or docs
say; `findings` in `PROJECT.json` quotes both sides.

`leftover` is what `OneDestination` and `DestinationAccounted` leave aside as
`LeftBehind`: an object whose call failed past its creation, as its record says.
The retry does not look for it and creates a second one; the properties say that
there is no other way to a duplicate, and none to an object that the table knows
nothing of.

**Bounds.** `MaxRuns` bounds the commands: three are enough for a first
attempt, a retry and a cleanup, or for two that race and one that comes after.
The hierarchies are the smallest in which the relations that cause trouble
occur: a member that depends on its parent, a member of two parents, a cycle of
dependencies through members, an owned and a shared dependency, a resource with
a find-or-create handler, a dependency two levels down.  A deeper hierarchy only
repeats these on a longer stack; `RecursionEnds` is proved for all of them.
`MaxRetries` allows one call beyond one for each wanted resource: a retry meets
all that one failure or kill can leave, and a second failure meets the retry.
`RecursionLimit` only has to exceed the depth of the clouds: whatever returns to
a resource would do so for ever.  `MCHandlers` takes one request of the
user at a time, for resources of handlers that interact (a load balancer and its
floating IP, a port and its floating IP), and fixes what the request does not
depend on (`MCInit`): calls of unrelated handlers share no state but the table.
A port and its floating IP are tried with up to two interfaces on the source
(`FewRoutes`), on gateways, on an inner router and on one that is highly
available, in every combination of two; the other requests have all of them.

**Fairness.** `FairSpec` asks that an invocation that can take its next step
eventually does (`WF_vars(Step(p))`), `FairDryRunSpec` the same of the dry run:
the tool is a single thread that never waits for anything but a reply, and its
waits have time limits.  Nothing is assumed of the user, of kills, or of calls
succeeding.  The handler modules state no fairness: their properties are about
what is left when a call has ended, and `Terminates` takes that it ends from the
time limits.

## Proofs

Eight modules, for every value of the constants that satisfies the named
assumptions of the modules.

### The table and the clouds

`ManagerProofs`, for every set of resources and relations between them, any
number of processes, any faults, flags, commands and bounds:

- `TypeCorrect`: `Spec => []TypeOK`.
- `MigratedIsOnDestination`: `Spec => []MigratedHasDestination`, the comment
  above `LIST_STATUS_MIGRATED` (`constants.py:11-13`): a record in one of the
  four migrated statuses names an existing destination object of its resource.

Both follow from `Invariance`: `Spec => []IInv`.  Neither is inductive alone.
Statuses are set through the record a frame refers to, and a frame may set the
status of a record it did not create: a reused one, a dependency on its cleanup
list, the records a `cleanup-source` has selected earlier.  `IInv` therefore adds
`FrameOK` for every frame of every stack: up to the handler call its record is
one of its own resource; after the call the object it has created exists; past
`saveDest` its record is *delivered* (names an existing object of its
resource); and so is every record on its cleanup list or its list of migrated
members.

The argument is that table and destination only grow (`Grows`): no record loses
its resource or an existing destination.  `DeliveredKept`, `FrameKept` and
`StackKept` lift that to stacks, `StackStep` to the steps of one process under
any interference by the others, `RecordsOK` to the commands that edit the table;
one lemma per action or group of actions then looks at the innermost frame
alone.  TLC has checked `IInv` itself on the `members` and `concurrent`
instances.

`LedgerProofs`, under the same hypotheses, that is, with invocations that
interleave, fail and are killed while other commands edit the table:

- `RemovalFollowsMigration` (`RemovedIsMigrated`), `RemovalIsRecordedAfterwards`
  (`RemovedIsGone`), `CompletionFollowsCleanup` (`CompleteIsClean`) and
  `RemovalIsAskedFor` (`OnlyTargetsRemoved`, an action property).  The second and
  third say that a source is gone only of resources outside `Swallows`.
- `RecordsImplementLedger`: `Spec => ImplementsLedger`, the refinement: every
  step of the manager is one step of the ledger or none.

The inductive invariant is `LedgerInv` (`LedgerInvariance`).  `Holds` says what a
frame knows of the records it refers to, at each `pc`: up to `saveDest` its record
is in progress and names nothing; from then on it has *produced* something and
never loses it; what is on its cleanup list is migrated and, in the loop over
dependencies, owned by its resource; `cur`, the record whose source has just been
deleted, is migrated and its source is gone, unless it is of a type in
`Swallows`; and before `complete` a frame that
cleans up has marked its own record.  Two parts are less obvious.  `Exclusive`:
no two frames, of whatever invocations, work on the same record before it has
produced something.  Without it a failure in one could reopen what another is
about to close, and the ledger has no such step.  `MayClean`: the flag
`cleanup` reaches a frame only through members, never through the loop over
dependencies, which is what `OnlyTargetsRemoved` is about.  What any step may do
to the records under a frame that rests is `Advances`: all but the owner of a
record leave it alone as long as it is in progress.

### The recursion

`RecursionProofs`: `RecursionEnds`, that `Spec => []NoReentry` if one invocation
runs at a time (`OneAtATime`) and records are neither archived, deleted nor
restored under it (`RecordsAreKept`).  The relations may have any cycles; calls
may fail, invocations be killed and retried, external migrations be registered
at any moment.  The strengthening, `RecursionInv`, is why the recursion stops:
every call on the stack past the creation of its record is of a *busy*
resource, whose newest record is migrated or in progress, and the loops
skip those.  A resource stops being busy only when the innermost call, its own,
fails and leaves the stack (`BusyFailed`, `NestedPop`), or when somebody else
touches its records, which is what the two assumptions exclude: a second
invocation may fail a resource, and an archived record no longer counts, while
a call for it is further down the stack.

`AccountProofs` reasons about which frames there are rather than what each
knows.  Every step of an invocation is one of ten kinds (`Waits`, `Reuses`,
`Calls`, `Opens`, `Creates`, `Saves`, `Closes`, `Cleans`, `Fails`, `Ends`) that
replaces the innermost frame by no, one or two others (`Replaced`), and those
below it are waiting in one of the three loops (`Innermost`).

| theorem | property | hypotheses | invariant |
|---|---|---|---|
| `InProgressIsWorkedOn` | `InProgressIsLive` | no kills | `LiveInv`: a record in progress is that of a frame between `assoc` and `migrated`, since the ways out of such a frame are to fail the record or to mark it migrated |
| `ObjectsAreAccountedFor` | `DestinationAccounted` | no kills | `AccountInv`: an object is named by a record or by the frame at `saveDest` that made it, or was left behind by a call whose record has failed |
| `DependenciesComeFirst` | `DependenciesFirst` | one invocation at a time, nobody edits the table | `FreshInv`: up to the handler call the resource of a frame is not migrated, its record is the newest of that resource, and at `perform` all it needs is migrated |
| `CreatedOnce` | `OneDestination` | one invocation at a time, nobody edits the table, no kills | `OnceInv`: a resource with an object that was not left behind is migrated or landing, so that nobody starts it again |

The hypotheses are what the code needs, not what the proofs happened to use: a
killed process leaves a record in progress (run `killed`) and possibly an object
nobody has recorded; two invocations create a resource twice (run
`duplicates`); after `delete`, the manager no longer knows that a
resource was migrated.  Objects left behind by failed calls are an exception of
the properties, not a hypothesis of the theorems: a retry does create a second
object after such a call (run `leftover`).  An object once left behind remains
so because a failed record never leaves that status (`FailuresKept`): a retry
opens a record of its own.  The handlers of `NamedMigration` find what an earlier
call has left (`NamesakesAreFound`).

### Whole hierarchies

`HierarchyProofs` has what is left when everything goes well.
`HierarchiesAreMigrated` (`HierarchyMigrated`): when no command is at work, a
completed migration lacks nothing that it depends on or contains.  The relations
may have cycles through members; a loop skips what is in progress, so that a call
may return before its members are migrated, and what it has skipped is completed
by a call further down the stack.

The invariant is `HierarchyInv`.  *Covered* is what is migrated or has a call on
the stack; with an empty stack that is what is migrated.  What a migrated
resource depends on is migrated; what a completed one contains is covered; and
each frame has the same for its own resource, as far as its loops have come
(`Provides`).  Dependencies need more than to be covered: one that was skipped
because it is in progress further down the stack would make the second look at
the dependencies refuse the migration (`RefusePendingDependencies`).  So the
invariant has `Chain`: whatever is above a call that waits for a dependency is in
the *cascade* of its resource, what migrating its dependencies with all their
members comes to.  A *knot* is a resource in its own cascade, and without
knots nothing is refused (`DependenciesSettled`).

The hypotheses: one command at a time, only `start` and `start-batch`, no
failure, both flags without `--cleanup-source`, no knot.  A failed
call leaves the others that have skipped its resource with a member that is not
migrated, which is why the property is about runs in which nothing fails.

`NoKnotOnClouds` shows that the relations the handlers report have no knot if
roles are global and each user has one default project (`default_project_id` is
a single attribute).  It puts the types in layers, from identities up to
instances, that dependencies and members never climb, and looks at the five
types with relations within their layer one by one.  `CloudsAreMigrated` puts
the two together; TLC has checked its hypotheses on the cloud of the run
`hierarchy`.  A role of a domain can be a real knot: it depends on its domain
(`keystone/role.py`), with the domain come its projects and users, and among these
may be users who depend on the role.  A migration that begins with such a role is
refused when it comes to them.

The dry run: `DryRunTypeCorrect` (`DryTypeOK`) without further
hypotheses, and `DryRunIsComplete` (`DryRunForetells`) for one invocation at a
time and nobody who edits the table.  In `ForetellInv`, what a listed resource
lacks on the list is migrated or still to come in a frame of the dry run: one
about to look it up, or one in whose loop it is.  A step replaces the innermost
frame and must pass on what that had still to come to (`PassedOn`).  After the
dry run, `AvailableGrows`: other commands leave migrated what is migrated, which
takes the two hypotheses.  That the dry run may never end (`NoDryReentry`,
refuted by the run `dryrun`) makes no difference to what it has listed when it
does.

### The relations

`ResourceProofs`, for every cloud with referential integrity and every setting
of the options:

- `DependenciesAnnounced`: what a handler returns is of the types it announces.
- `DependenciesDescend`: dependencies go to types of lower height, so they never
  form a cycle by themselves; the cycles `RecursionEnds` is about go through
  members.
- `SharedAreNotOwned`: only ports, volumes, floating IPs and secrets are
  cleaned up with what needs them.
- `MembersNeedTheirParent`: members depend on what they are members of, but for
  the subnets of a router.
- `UsersAreReached`: migrating a domain with its members comes to all of its
  users, given that a default project is of its user's domain.

### The handlers

`StorageProofs` and `HandlerProofs`: every property of the run `handlers`, for any
number of resources, calls, retries, failures and kills.  The invariant is
`HandlerInv` (`HandlersInvariance`):

- `CallInv`, common to all: the handler at work is at a point of its own kind of
  resource and has its record in progress; its object, once created, stays; an
  exception is on its way only where a `finally` clause or the end of the call
  waits for it, and `trouble` has the request of this call that it comes from; a
  migrated record names an existing object of its resource.
- `VolumeInv` and `ShareInv`: at each point, which images exist, and which
  contexts have been entered (`Nesting`): rule and mount of the source, then of
  the copy, never more than four, each with what it stands for.
- `NamedInv`, `EndpointInv`, `BalancerInv`: the object of the call has all the
  parts that the loop has been past and lacks only those still to come
  (`GivenInv`, `Past`, `Behind`); all other objects are whole, or something went
  wrong in the call that made them.  `EndpointInv` also has, for an attached
  floating IP, that its route stays.

Any step is one request of one handler, or a call that begins or ends.  To the
objects of the other handlers a request is `Elsewhere`: it adds no object of
theirs and leaves their variables alone, so that each invariant is proved against
the steps of its own handler and `Elsewhere`, instead of all 70 actions.

- `HandlersTypeCorrect`, `ImagesAreTemporary`, `ImagesOutliveCopies` (an action
  property), `SharesUnmountedFirst`, `AccessOfUsersKept`, `AccessIsGranted`,
  `AccessIsCopied`, `FloatingIpsStayAttached`, `RoutesComeFirst`,
  `TrafficIsSwitchedLast`, `NamesakesAreFound`, `LossesAreReported`: each a
  consequence of `HandlerInv`.
- `ContractIsKept`: `Spec => HandlersKeepContract`, the refinement of
  `HandlerContract`.  What it takes beyond the invariant: when a handler returns,
  its object is whole (`Builds`, `LastStays`), and no step makes an object whole or
  less than whole that is not the call's (`WholeStays`, `WholeGrows`).

`RoutesComeFirst` is about endpoints whose network has a single interface among
those the handler can find (`Listed`), and `LossesAreReported` about all parts but
the assignments in `Unscoped` and the record sets in `Delegations`, which are
dropped without a failure.

Assumptions on the constants, beyond types: the kinds of resources are disjoint
(`OneKindAssumption`: a resource is a pair of type and id); a floating IP is
attached to one endpoint (a Neutron floating IP has a single `port_id`);
endpoints are ports and load balancers, the two that reattach floating IPs; the
listeners of a load balancer are a finite list, the one the API returns.

### Left to TLC

- `Terminates` and `RequestCompletes`: liveness under fairness is out of the
  prover's reach.
- The properties that the seven runs with a finding refute.

## Not modelled

- `list`, `show`, `capabilities`, configuration, logging, sessions and clients:
  they read or print.  The field-by-field mapping of resource attributes: TLC
  would only compare two copies of a list.
- `delete --hard`: the models name a record by its place in the table, and a
  deleted row would rename those after it.  A clock that is set back: the table
  orders records by `created_at` and has nothing else to tell.
- L7 policies of a load balancer and pools that are no listener's default: the
  handler does not migrate them.  A destination load balancer without
  `vip_port_id`, for which it skips the floating IPs (`load_balancer.py:230`).
- The handlers that create a resource by a single request (networks, subnets,
  routers, security groups and rules, secrets and their containers): a single
  request is the step `MigrationManager` has for it.  Their dependencies,
  members and deletion are modelled.
- A dry run while another command runs: it would read what that command writes
  and change nothing.
- The records of the nested migration of a temporary image, and the role that
  the tool grants itself in the project it migrates.
- The directories of mount points (`mkdir`, `rmdir`), the files of a share one by
  one, and the host on which an access rule is read-only.
- What a source cloud refuses to delete because it is in use: a refusal is a
  failure like any other.
- An interrupt (`KeyboardInterrupt`) differs from a kill in that `finally`
  clauses still run; the models have the kill, which leaves more behind.

## Plan

Every invariant and every action property that a passing run checks is also a
theorem.  What could still be added: the bound on the depth of the stack that
`RecursionInv` implies, and `HierarchyMigrated` for runs in which calls fail and
are retried until nothing does.
