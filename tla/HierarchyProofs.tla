---------------------------- MODULE HierarchyProofs ----------------------------
(***************************************************************************)
(* Whole hierarchies of resources: what the commands with both flags have  *)
(* migrated when they end, and what a dry run foretells of them.           *)
(***************************************************************************)
EXTENDS DryRun, AccountProofs, ResourceProofs

LEMMA PendingAvailable ==
    ASSUME NEW r \in Resource
    PROVE  Pending(r) \subseteq Resource /\ \A d \in Assoc[r] : d \in Pending(r) \/ d \in Available
BY ResourceAssumption DEF Pending, Available

-----------------------------------------------------------------------------
(* What a migration with both flags leads to.                              *)

\* S holds whatever migrating d comes to before d itself: what d depends on,
\* and with each resource its dependencies and its members.
Closed(d, S) ==
    /\ Assoc[d] \subseteq S
    /\ \A x \in S : Assoc[x] \subseteq S /\ Members[x] \ {d} \subseteq S

Cascade(d) == {x \in Resource : \A S \in SUBSET Resource : Closed(d, S) => x \in S}

\* No resource is needed by what it needs, or by members of that.
NoKnot == \A d \in Resource : d \notin Cascade(d)

LEMMA CascadeClosed ==
    ASSUME NEW d \in Resource
    PROVE  /\ Assoc[d] \subseteq Cascade(d)
           /\ \A x \in Cascade(d) :
                 Assoc[x] \subseteq Cascade(d) /\ Members[x] \ {d} \subseteq Cascade(d)
<1>1. /\ Assoc[d] \subseteq Resource
      /\ \A x \in Resource : Assoc[x] \subseteq Resource /\ Members[x] \subseteq Resource
  BY ResourceAssumption
<1>2. \A S \in SUBSET Resource : Closed(d, S) => Assoc[d] \subseteq S
  BY DEF Closed
<1>3. ASSUME NEW x \in Cascade(d)
      PROVE  Assoc[x] \subseteq Cascade(d) /\ Members[x] \ {d} \subseteq Cascade(d)
  <2>1. x \in Resource
    BY DEF Cascade
  <2>2. \A S \in SUBSET Resource : Closed(d, S) =>
           Assoc[x] \subseteq S /\ Members[x] \ {d} \subseteq S
    BY DEF Cascade, Closed
  <2> QED  BY <1>1, <2>1, <2>2 DEF Cascade
<1> QED  BY <1>1, <1>2, <1>3 DEF Cascade

LEMMA OutsideClosed ==
    ASSUME NEW d \in Resource, NEW S \in SUBSET Resource, Closed(d, S), d \notin S
    PROVE  d \notin Cascade(d)
BY DEF Cascade

-----------------------------------------------------------------------------
(* The resources of a cloud, in layers: one needs and contains only        *)
(* resources of its own layer and of those below.                          *)

Layer(type) ==
    IF type = "instance" THEN 5
    ELSE IF type \in {"port", "load-balancer"} THEN 4
    ELSE IF type = "floating-ip" THEN 3
    ELSE IF type = "router" THEN 2
    ELSE IF type \in {"network", "subnet", "security-group", "security-group-rule",
                      "volume", "image", "dns-zone", "share", "secret-container"} THEN 1
    ELSE 0

LEMMA Layered ==
    ASSUME NEW r \in Cloud
    PROVE  /\ \A d \in AssociatedResources(r) :
                 /\ d \in Cloud /\ Layer(TypeOf[d]) <= Layer(TypeOf[r])
                 /\ TypeOf[r] \notin {"subnet", "security-group-rule", "user", "project", "role"}
                       => Layer(TypeOf[d]) < Layer(TypeOf[r])
           /\ \A m \in MemberResources(r) :
                 m \in Cloud /\ Layer(TypeOf[m]) <= Layer(TypeOf[r])
<1>1. ASSUME NEW d \in AssociatedResources(r)
      PROVE  /\ d \in Cloud /\ Layer(TypeOf[d]) <= Layer(TypeOf[r])
             /\ TypeOf[r] \notin {"subnet", "security-group-rule", "user", "project", "role"}
                   => Layer(TypeOf[d]) < Layer(TypeOf[r])
  BY AnnouncedDependency DEF Announces, Layer
<1>2. ASSUME NEW m \in MemberResources(r)
      PROVE  m \in Cloud /\ Layer(TypeOf[m]) <= Layer(TypeOf[r])
  <2>1. m \in Ref.interfaces[r] => m \in Cloud /\ TypeOf[m] = "subnet"
    BY RefersTo, CloudAssumption
  <2> QED  BY <2>1 DEF MemberResources, NetworkMembers, RouterMembers, SecurityGroupMembers,
           DomainMembers, ProjectMembers, OfType, Layer
<1> QED  BY <1>1, <1>2

\* A user has at most one default project, and no role belongs to a domain: a
\* role of a domain depends on it, and the members of the domain on the role.
OneDefaultProject ==
    \A u \in OfType("user") : \A q1, q2 \in Ref.default_project_id[u] : q1 = q2

GlobalRoles == \A r \in OfType("role") : Ref.domain_id[r] = {}

\* The manager runs on the relations that the handlers report.
HandlersRelations ==
    /\ Resource = Cloud
    /\ \A r \in Cloud : Assoc[r] = AssociatedResources(r) /\ Members[r] = MemberResources(r)

\* What is below d has nothing to do with it.
LEMMA LayersBelow ==
    ASSUME HandlersRelations, NEW d \in Cloud,
           TypeOf[d] \notin {"subnet", "security-group-rule", "user", "project", "role"}
    PROVE  d \notin Cascade(d)
<1> DEFINE S == {x \in Cloud : Layer(TypeOf[x]) < Layer(TypeOf[d])}
<1>1. \A x : Layer(x) \in Nat
  BY DEF Layer
<1>2. Assoc[d] \subseteq S
  BY Layered DEF HandlersRelations
<1>3. ASSUME NEW x \in S  PROVE Assoc[x] \subseteq S /\ Members[x] \ {d} \subseteq S
  BY <1>1, Layered DEF HandlersRelations
<1>4. d \notin S
  BY <1>1
<1> HIDE DEF S
<1>5. Closed(d, S)
  BY <1>2, <1>3 DEF Closed
<1>6. S \in SUBSET Resource
  BY DEF S, HandlersRelations
<1> QED  BY <1>4, <1>5, <1>6, OutsideClosed DEF HandlersRelations

\* Nothing of their layer depends on a subnet, a rule of a security group or a
\* user.
LEMMA LayersBeside ==
    ASSUME HandlersRelations, NEW d \in Cloud,
           TypeOf[d] \in {"subnet", "security-group-rule", "user"}
    PROVE  d \notin Cascade(d)
<1> DEFINE S == {x \in Cloud : Layer(TypeOf[x]) <= Layer(TypeOf[d])} \ {d}
<1>1. \A x : Layer(x) \in Nat
  BY DEF Layer
<1>2. \A x \in Cloud : Layer(TypeOf[x]) <= Layer(TypeOf[d]) => d \notin AssociatedResources(x)
  <2> SUFFICES ASSUME NEW x \in Cloud, Layer(TypeOf[x]) <= Layer(TypeOf[d]),
                      d \in AssociatedResources(x)
               PROVE  FALSE
    OBVIOUS
  <2>1. Announces(TypeOf[x], TypeOf[d])
    BY AnnouncedDependency
  <2> QED  BY <2>1 DEF Announces, Layer
<1>3. Assoc[d] \subseteq S
  BY <1>1, <1>2, Layered DEF HandlersRelations
<1>4. ASSUME NEW x \in S  PROVE Assoc[x] \subseteq S /\ Members[x] \ {d} \subseteq S
  BY <1>1, <1>2, Layered DEF HandlersRelations
<1> HIDE DEF S
<1>5. Closed(d, S)
  BY <1>3, <1>4 DEF Closed
<1>6. S \in SUBSET Resource /\ d \notin S
  BY DEF S, HandlersRelations
<1> QED  BY <1>5, <1>6, OutsideClosed DEF HandlersRelations

\* Only the users of a project depend on it, and they are members of no other
\* project and of no domain.
LEMMA ProjectsApart ==
    ASSUME HandlersRelations, OneDefaultProject, NEW d \in Cloud, TypeOf[d] = "project"
    PROVE  d \notin Cascade(d)
<1> DEFINE identity == {x \in Cloud : Layer(TypeOf[x]) = 0}
           users == {u \in OfType("user") : d \in Ref.default_project_id[u]}
           S == identity \ ({d} \cup users)
<1>1. \A x : Layer(x) \in Nat
  BY DEF Layer
<1>2. ASSUME NEW x \in identity, NEW y \in AssociatedResources(x)
      PROVE  /\ y \in identity /\ TypeOf[y] # "user"
             /\ y = d => x \in users
  <2>1. y \in Cloud /\ Announces(TypeOf[x], TypeOf[y]) /\ y \in identity
    BY <1>1, Layered, AnnouncedDependency
  <2>2. TypeOf[y] # "user"
    BY <2>1 DEF Announces, Layer
  <2>3. ASSUME y = d  PROVE x \in users
    <3>1. TypeOf[x] = "user"
      BY <2>1, <2>3 DEF Announces, Layer
    <3>2. y \notin Ref.domain_id[x] /\ y \notin Ref.role_assignments[x]
      BY <2>3, RefersTo, CloudAssumption
    <3> QED  BY <2>3, <3>1, <3>2 DEF AssociatedResources, Needs, UserDependencies, OfType
  <2> QED  BY <2>1, <2>2, <2>3
<1>3. ASSUME NEW x \in S, NEW m \in MemberResources(x)
      PROVE  m \in identity /\ m \notin users
  <2>1. m \in identity
    BY <1>1, Layered
  <2>2. TypeOf[x] \in {"domain", "project"}
    BY DEF MemberResources, Layer
  <2>3. CASE TypeOf[x] = "domain"
    BY <2>1, <2>3 DEF MemberResources, DomainMembers, OfType
  <2>4. CASE TypeOf[x] = "project"
    <3>1. m \in OfType("user") /\ x \in Ref.default_project_id[m] /\ x # d
      BY <2>4 DEF MemberResources, ProjectMembers
    <3>2. d \notin Ref.default_project_id[m]
      BY <3>1 DEF OneDefaultProject
    <3> QED  BY <2>1, <3>2
  <2> QED  BY <2>1, <2>2, <2>3, <2>4
<1>4. d \in identity /\ d \notin users
  BY DEF Layer, OfType
<1>5. Assoc[d] \subseteq S
  BY <1>2, <1>4 DEF HandlersRelations, OfType
<1>6. ASSUME NEW x \in S  PROVE Assoc[x] \subseteq S /\ Members[x] \ {d} \subseteq S
  BY <1>2, <1>3 DEF HandlersRelations, OfType
<1> HIDE DEF S
<1>7. Closed(d, S)
  BY <1>5, <1>6 DEF Closed
<1>8. S \in SUBSET Resource /\ d \notin S
  BY DEF S, HandlersRelations
<1> QED  BY <1>7, <1>8, OutsideClosed DEF HandlersRelations

LEMMA RolesApart ==
    ASSUME HandlersRelations, GlobalRoles, NEW d \in Cloud, TypeOf[d] = "role"
    PROVE  d \notin Cascade(d)
<1>1. Ref.domain_id[d] = {}
  BY DEF GlobalRoles, OfType
<1>2. AssociatedResources(d) = {}
  BY <1>1 DEF AssociatedResources, Needs, RoleDependencies
<1>3. Closed(d, {})
  BY <1>2 DEF Closed, HandlersRelations
<1> QED  BY <1>3, OutsideClosed DEF HandlersRelations

\* On a cloud whose users have one default project and whose roles are global
\* nothing that a resource depends on, or that is migrated along with it, comes
\* back to the resource as a dependency.
THEOREM NoKnotOnClouds ==
    ASSUME HandlersRelations, OneDefaultProject, GlobalRoles
    PROVE  NoKnot
<1> SUFFICES ASSUME NEW d \in Resource  PROVE d \notin Cascade(d)
  BY DEF NoKnot
<1>1. d \in Cloud
  BY DEF HandlersRelations
<1> QED  BY <1>1, LayersBelow, LayersBeside, ProjectsApart, RolesApart

-----------------------------------------------------------------------------
(* What a migration with both flags has come to.                           *)

\* No listing, migration, connection or deletion fails and nothing is killed.
NothingFails == Faults = {} /\ ~CanCrash

\* --include-dependencies and --include-members, without --cleanup-source.
BothFlags == \A o \in Invocations : o.deps /\ o.members /\ ~o.cleanup

\* Records are made by start and start-batch and rewritten by no command.
OnlyStarts == Commands \subseteq {"start", "start-batch", "dry-run"}

\* A call is somewhere on a stack for what is being migrated.
Underway(r) == \E p \in Proc : \E k \in DOMAIN stack[p] : stack[p][k].res = r

Covered == Available \cup {r \in Resource : Underway(r)}

\* A call at pc for r, with todo still to visit: A are the resources that are
\* migrated, C those that are covered.
Provides(pc, r, todo, A, C) ==
    /\ pc \notin {"sweep", "pendingCleanup", "cleanOwn", "cleanAssoc"}
    /\ pc \in {"perform", "saveDest", "migrated"} => Assoc[r] \subseteq A
    /\ pc = "deps" => todo \subseteq Assoc[r] /\ Assoc[r] \subseteq todo \cup C
    /\ pc \in {"listMembers", "members", "complete"} => r \in A
    /\ pc = "members" => todo \subseteq Members[r] /\ Members[r] \subseteq todo \cup C
    /\ pc = "complete" => Members[r] \subseteq C

FrameProvides(f, A, C) == ~f.cleanup /\ Provides(f.pc, f.res, f.todo, A, C)

\* Above a call that waits for its dependencies is only what it leads to.
Chain(s) ==
    \A j, k \in DOMAIN s : j < k /\ s[j].pc = "deps" => s[k].res \in Cascade(s[j].res)

Sound(s, A, C) == Chain(s) /\ \A k \in DOMAIN s : FrameProvides(s[k], A, C)

RecordsSound ==
    /\ \A r \in Available : Assoc[r] \subseteq Available
    /\ \A i \in DOMAIN db :
          /\ MigratedRecord(i) => db[i].source \in Available
          /\ db[i].status = STATUS_COMPLETED => Members[db[i].source] \subseteq Covered

CommandSound(p) ==
    /\ ~raising[p]
    /\ ~Idle(p) => opts[p].deps /\ opts[p].members
    /\ Sound(stack[p], Available, Covered)

HierarchyInv ==
    /\ source = Resource
    /\ RecordsSound
    /\ \A p \in Proc : CommandSound(p)

\* What the invariant is proved from.
ManagerInv == IInv /\ StacksLedger /\ SingleInv /\ LiveInv

-----------------------------------------------------------------------------
(* Call stacks.                                                            *)

LEMMA ProvidesMore ==
    ASSUME NEW A, NEW C, NEW A2, NEW C2, A \subseteq A2, C \subseteq C2
    PROVE  /\ \A pc, r, todo : Provides(pc, r, todo, A, C) => Provides(pc, r, todo, A2, C2)
           /\ \A f : FrameProvides(f, A, C) => FrameProvides(f, A2, C2)
BY DEF Provides, FrameProvides

ResOf(s) == {s[k].res : k \in DOMAIN s}

\* The innermost frame is replaced by one for the same resource.
LEMMA SoundGoto ==
    ASSUME NEW s \in Seq(Frame), s # <<>>, NEW A, NEW C, Sound(s, A, C),
           NEW A2, NEW C2, A \subseteq A2, C \subseteq C2,
           NEW g, g.res = Last(s).res, FrameProvides(g, A2, C2)
    PROVE  /\ Sound(Append(Front(s), g), A2, C2)
           /\ ResOf(s) \subseteq ResOf(Append(Front(s), g))
<1> DEFINE t == Append(Front(s), g)
<1>1. /\ Len(t) = Len(s) /\ DOMAIN t = DOMAIN s
      /\ Len(s) \in DOMAIN s /\ t[Len(s)] = g /\ Last(s) = s[Len(s)]
      /\ \A k \in DOMAIN s : k # Len(s) => t[k] = s[k]
  <2>1. s \in Seq(Frame \cup {g})
    BY SeqMonotonic
  <2> QED  BY <2>1, ReplaceLast
<1>2. DOMAIN s = 1..Len(s) /\ Len(s) \in Nat
  BY LenProperties
<1> HIDE DEF t
<1>3. \A k \in DOMAIN s : t[k].res = s[k].res
  BY <1>1
<1>4. Chain(t)
  <2> SUFFICES ASSUME NEW j \in DOMAIN s, NEW k \in DOMAIN s, j < k, t[j].pc = "deps"
               PROVE  t[k].res \in Cascade(t[j].res)
    BY <1>1 DEF Chain
  <2>1. j # Len(s)
    BY <1>2
  <2>2. s[j].pc = "deps"
    BY <1>1, <2>1
  <2> QED  BY <1>3, <2>2 DEF Sound, Chain
<1>5. \A k \in DOMAIN t : FrameProvides(t[k], A2, C2)
  BY <1>1, ProvidesMore DEF Sound
<1> QED  BY <1>1, <1>3, <1>4, <1>5 DEF Sound, ResOf, t

LEMMA SoundPop ==
    ASSUME NEW s \in Seq(Frame), s # <<>>, NEW A, NEW C, Sound(s, A, C),
           NEW A2, NEW C2, A \subseteq A2, C \subseteq C2
    PROVE  /\ Sound(Front(s), A2, C2)
           /\ ResOf(s) \subseteq ResOf(Front(s)) \cup {Last(s).res}
<1>1. /\ Last(s) = s[Len(s)]
      /\ \A k \in DOMAIN Front(s) : k \in DOMAIN s /\ Front(s)[k] = s[k]
  BY FrontLast
<1>2. /\ DOMAIN Front(s) = 1..Len(s) - 1 /\ DOMAIN s = 1..Len(s) /\ Len(s) \in Nat
  BY FrontDomain, LenProperties
<1>3. \A k \in DOMAIN s : k \in DOMAIN Front(s) \/ k = Len(s)
  BY <1>2
<1>4. Chain(Front(s))
  BY <1>1 DEF Sound, Chain
<1>5. \A k \in DOMAIN Front(s) : FrameProvides(Front(s)[k], A2, C2)
  BY <1>1, ProvidesMore DEF Sound
<1> QED  BY <1>1, <1>3, <1>4, <1>5 DEF Sound, ResOf

\* A call: f waits for g.
LEMMA SoundCall ==
    ASSUME NEW s \in Seq(Frame), s # <<>>, NEW A, NEW C, Sound(s, A, C),
           NEW C2, C \subseteq C2,
           NEW f, f.res = Last(s).res, FrameProvides(f, A, C2),
           NEW g, FrameProvides(g, A, C2),
           \A j \in DOMAIN s : j # Len(s) /\ s[j].pc = "deps" => g.res \in Cascade(s[j].res),
           f.pc = "deps" => g.res \in Cascade(f.res)
    PROVE  /\ Sound(Append(Append(Front(s), f), g), A, C2)
           /\ ResOf(s) \cup {g.res} \subseteq ResOf(Append(Append(Front(s), f), g))
<1> DEFINE u == Append(Front(s), f)
           t == Append(u, g)
<1>1. /\ Sound(u, A, C2) /\ ResOf(s) \subseteq ResOf(u)
  BY SoundGoto
<1>2. /\ u \in Seq(Frame \cup {f, g}) /\ Len(u) = Len(s) /\ DOMAIN u = DOMAIN s
      /\ u[Len(s)] = f
      /\ \A k \in DOMAIN s : k # Len(s) => u[k] = s[k]
  <2>1. s \in Seq(Frame \cup {f, g})
    BY SeqMonotonic
  <2> QED  BY <2>1, ReplaceLast
<1> HIDE DEF u
<1>3. /\ Len(u) \in Nat /\ DOMAIN u = 1..Len(u) /\ DOMAIN t = 1..Len(u) + 1
      /\ t[Len(u) + 1] = g
      /\ \A k \in DOMAIN u : t[k] = u[k]
  <2>1. /\ t \in Seq(Frame \cup {f, g}) /\ Len(t) = Len(u) + 1 /\ t[Len(u) + 1] = g
        /\ \A k \in 1..Len(u) : t[k] = u[k]
    BY <1>2, AppendProperties
  <2> QED  BY <1>2, <2>1, LenProperties
<1> HIDE DEF t
<1>4. \A k \in DOMAIN t : k \in DOMAIN u \/ k = Len(u) + 1
  BY <1>3
<1>5. Chain(t)
  <2> SUFFICES ASSUME NEW j \in DOMAIN t, NEW k \in DOMAIN t, j < k, t[j].pc = "deps"
               PROVE  t[k].res \in Cascade(t[j].res)
    BY DEF Chain
  <2>1. j \in DOMAIN u /\ t[j] = u[j]
    BY <1>3
  <2>2. CASE k \in DOMAIN u
    BY <1>1, <1>3, <2>1, <2>2 DEF Sound, Chain
  <2>3. CASE k = Len(u) + 1
    BY <1>2, <1>3, <2>1, <2>3
  <2> QED  BY <1>4, <2>2, <2>3
<1>6. \A k \in DOMAIN t : FrameProvides(t[k], A, C2)
  BY <1>1, <1>3, <1>4 DEF Sound
<1>7. ResOf(u) \cup {g.res} \subseteq ResOf(t)
  BY <1>3, <1>4 DEF ResOf
<1> QED  BY <1>1, <1>5, <1>6, <1>7 DEF Sound, t, u

LEMMA SoundEmpty ==
    ASSUME NEW A, NEW C
    PROVE  Sound(<<>>, A, C)
BY EmptySeq DEF Sound, Chain

LEMMA SoundSingle ==
    ASSUME NEW A, NEW C, NEW f, FrameProvides(f, A, C)
    PROVE  Sound(<<f>>, A, C)
<1>1. DOMAIN <<f>> = {1} /\ <<f>>[1] = f
  OBVIOUS
<1> QED  BY <1>1 DEF Sound, Chain

-----------------------------------------------------------------------------
(* Steps of the only invocation.                                           *)

\* Nothing that was being migrated is dropped.
LEMMA CoveredKept ==
    ASSUME OneAtATime, NEW p \in Proc, Available \subseteq Available',
           ResOf(stack[p]) \cap Resource \subseteq ResOf(stack'[p]) \cup Available'
    PROVE  Covered \subseteq Covered'
<1> SUFFICES ASSUME NEW r \in Resource, Underway(r), r \notin Available'
             PROVE  Underway(r)'
  BY DEF Covered, Available
<1>1. r \in ResOf(stack[p])
  BY DEF Underway, OneAtATime, ResOf
<1>2. r \in ResOf(stack'[p])
  BY <1>1
<1> QED  BY <1>2 DEF Underway, ResOf

LEMMA RecordsSoundSame ==
    ASSUME RecordsSound, UNCHANGED db, Covered \subseteq Covered'
    PROVE  RecordsSound'
<1>1. Available' = Available
  BY RecordsSame
<1> QED  BY <1>1 DEF RecordsSound, MigratedRecord

LEMMA SingleCommand ==
    ASSUME OneAtATime, IInv, NEW p \in Proc, NEW t, stack' = [stack EXCEPT ![p] = t]
    PROVE  stack'[p] = t
BY DEF IInv, TypeOK

LEMMA StepSound ==
    ASSUME OneAtATime, HierarchyInv, NEW p \in Proc, ~Idle(p),
           UNCHANGED <<source, raising, opts>>,
           RecordsSound', Sound(stack'[p], Available', Covered')
    PROVE  HierarchyInv'
<1> SUFFICES ASSUME NEW q \in Proc  PROVE CommandSound(q)'
  BY DEF HierarchyInv
<1>1. q = p
  BY DEF OneAtATime
<1> QED  BY <1>1 DEF HierarchyInv, CommandSound, Idle

LEMMA TopSound ==
    ASSUME ManagerInv, HierarchyInv, NEW p \in Proc, ~Idle(p)
    PROVE  /\ ~raising[p] /\ opts[p].deps /\ opts[p].members
           /\ ~Top(p).cleanup
           /\ Provides(Top(p).pc, Top(p).res, Top(p).todo, Available, Covered)
           /\ Sound(stack[p], Available, Covered)
           /\ Top(p) \in Frame /\ Top(p).todo \subseteq Resource
           /\ Top(p).pc \notin LoopPc => Top(p).res \in Resource
           /\ source = Resource
<1>1. /\ Top(p) = stack[p][Len(stack[p])] /\ Len(stack[p]) \in DOMAIN stack[p]
      /\ Top(p) \in Frame
  BY StackShape DEF ManagerInv
<1>2. CommandSound(p) /\ source = Resource
  BY DEF HierarchyInv
<1>3. Top(p).todo \subseteq Resource /\ (Top(p).pc \notin LoopPc => Top(p).res \in Resource)
  BY <1>1, FrameFields DEF LoopPc
<1> QED  BY <1>1, <1>2, <1>3 DEF CommandSound, Sound, FrameProvides

\* The innermost frame goes on at pc with todo still to visit.
Shape(g, pc, res, todo, cleanup) ==
    g.pc = pc /\ g.res = res /\ g.todo = todo /\ g.cleanup = cleanup

Goes(p, pc, todo) ==
    \E g : Goto(p, g) /\ Shape(g, pc, Top(p).res, todo, Top(p).cleanup)

LEMMA Shapes ==
    ASSUME NEW f \in Frame, NEW q, NEW t, NEW i
    PROVE  /\ Shape([f EXCEPT !.todo = t], f.pc, f.res, t, f.cleanup)
           /\ Shape([f EXCEPT !.pc = q], q, f.res, f.todo, f.cleanup)
           /\ Shape([f EXCEPT !.pc = q, !.todo = t], q, f.res, t, f.cleanup)
           /\ Shape([f EXCEPT !.pc = q, !.rec = i], q, f.res, f.todo, f.cleanup)
           /\ Shape([f EXCEPT !.queue = t], f.pc, f.res, f.todo, f.cleanup)
           /\ Shape([f EXCEPT !.got = t], f.pc, f.res, f.todo, f.cleanup)
BY DEF Shape, Frame, CallFrame, LoopFrame, FrameOf

LEMMA GoesForms ==
    ASSUME NEW p \in Proc, Top(p) \in Frame, NEW q, NEW t, NEW i
    PROVE  LET f == Top(p) IN
           /\ Goto(p, [f EXCEPT !.todo = t]) => Goes(p, f.pc, t)
           /\ Goto(p, [f EXCEPT !.pc = q]) => Goes(p, q, f.todo)
           /\ Goto(p, [f EXCEPT !.pc = q, !.todo = t]) => Goes(p, q, t)
           /\ Goto(p, [f EXCEPT !.pc = q, !.rec = i]) => Goes(p, q, f.todo)
BY Shapes, Zenon DEF Goes

LEMMA GoesSound ==
    ASSUME OneAtATime, ManagerInv, HierarchyInv, NEW p \in Proc, ~Idle(p),
           NEW pc, NEW todo, Goes(p, pc, todo), UNCHANGED <<source, raising, opts>>,
           Available \subseteq Available',
           Provides(pc, Top(p).res, todo, Available', Covered),
           Covered \subseteq Covered' => RecordsSound'
    PROVE  HierarchyInv'
<1> DEFINE s == stack[p]
<1>1. s \in Seq(Frame) /\ s # <<>> /\ Top(p) = Last(s)
  BY StackShape DEF ManagerInv
<1>2. PICK g : Goto(p, g) /\ Shape(g, pc, Top(p).res, todo, Top(p).cleanup)
  BY DEF Goes
<1>3. stack'[p] = Append(Front(s), g)
  BY <1>2, SingleCommand DEF ManagerInv, Goto
<1>4. Sound(s, Available, Covered) /\ ~Top(p).cleanup
  BY TopSound
<1>5. g.res = Last(s).res /\ FrameProvides(g, Available', Covered)
  BY <1>1, <1>2, <1>4 DEF Shape, FrameProvides
<1>6. ResOf(s) \subseteq ResOf(stack'[p])
  BY <1>1, <1>3, <1>4, <1>5, SoundGoto
<1>7. Covered \subseteq Covered'
  BY <1>6, CoveredKept
<1>8. FrameProvides(g, Available', Covered')
  BY <1>5, <1>7, ProvidesMore
<1>9. Sound(stack'[p], Available', Covered')
  BY <1>1, <1>3, <1>4, <1>5, <1>7, <1>8, SoundGoto
<1> QED  BY <1>7, <1>9, StepSound

\* What is in progress is on the stack.
LEMMA InProgressIsUnderway ==
    ASSUME ManagerInv, NEW r \in Resource, IsMigrated(r) \/ IsInProgress(r)
    PROVE  r \in Covered
<1>1. CASE IsMigrated(r)
  BY <1>1 DEF Covered, Available
<1>2. CASE IsInProgress(r)
  <2>1. PICK i \in Newest(r) : db[i].status = STATUS_IN_PROGRESS
    BY <1>2 DEF IsInProgress
  <2>2. i \in DOMAIN db /\ db[i].source = r
    BY <2>1 DEF Newest
  <2>3. PICK q \in LivePc : \E x : Present(<<q, x, i>>)
    BY <2>1, <2>2 DEF ManagerInv, LiveInv, Lives
  <2>4. PICK p \in Proc : \E k \in DOMAIN stack[p] :
           stack[p][k].pc \in LivePc /\ stack[p][k].rec = i
    BY <2>3 DEF Present, Id
  <2>5. PICK k \in DOMAIN stack[p] : stack[p][k].pc \in LivePc /\ stack[p][k].rec = i
    BY <2>4
  <2>6. stack[p][k].res = r
    BY <2>2, <2>5, OwnRecord DEF ManagerInv
  <2> QED  BY <2>6 DEF Covered, Underway
<1> QED  BY <1>1, <1>2

-----------------------------------------------------------------------------
(* Steps of the innermost frame.                                           *)

\* Steps of the innermost frame that change no record.
LEMMA QuietSound ==
    ASSUME OneAtATime, ManagerInv, HierarchyInv, NEW p \in Proc,
           \/ SkipInBatch(p) \/ SkipDependency(p) \/ SkipMember(p)
           \/ ReuseMigration(p) \/ LookUpMigration(p) \/ GetAssociatedResources(p)
           \/ RecheckDependencies(p) \/ GetMemberResources(p) \/ ConnectMembers(p)
           \/ HandlerMigrates(p)
    PROVE  HierarchyInv'
<1>1. ~Idle(p) /\ UNCHANGED <<db, source, raising, opts>>
  BY DEF SkipInBatch, SkipDependency, SkipMember, ReuseMigration, LookUpMigration,
     GetAssociatedResources, RecheckDependencies, GetMemberResources, ConnectMembers,
     HandlerMigrates, At, Move, clouds, invocation
<1> DEFINE f == Top(p)
<1>2. /\ ~f.cleanup /\ Provides(f.pc, f.res, f.todo, Available, Covered)
      /\ f \in Frame /\ f.todo \subseteq Resource
      /\ f.pc \notin LoopPc => f.res \in Resource
  BY <1>1, TopSound
<1>3. SUFFICES \E pc, todo : /\ Goes(p, pc, todo)
                             /\ Provides(pc, f.res, todo, Available, Covered)
  <2>1. Available' = Available /\ (Covered \subseteq Covered' => RecordsSound')
    BY <1>1, RecordsSame, RecordsSoundSame DEF HierarchyInv
  <2> QED  BY <1>1, <1>3, <2>1, GoesSound
<1>4. CASE SkipInBatch(p)
  <2>1. PICK t : Goto(p, [Top(p) EXCEPT !.todo = t])
    BY <1>4 DEF SkipInBatch, Move
  <2>2. f.pc = "batch"
    BY <1>4 DEF SkipInBatch, At
  <2> QED  BY <1>2, <2>1, <2>2, GoesForms DEF Provides
<1>5. CASE SkipDependency(p) \/ SkipMember(p)
  <2>1. PICK d \in f.todo : /\ IsMigrated(d) \/ IsInProgress(d)
                            /\ Goto(p, [Top(p) EXCEPT !.todo = Top(p).todo \ {d}])
    BY <1>5 DEF SkipDependency, SkipMember, Move
  <2>2. f.pc \in {"deps", "members"}
    BY <1>5 DEF SkipDependency, SkipMember, At
  <2>3. d \in Covered
    BY <1>2, <2>1, InProgressIsUnderway
  <2>4. Goes(p, f.pc, f.todo \ {d})
    BY <1>2, <2>1, GoesForms
  <2>5. Provides(f.pc, f.res, f.todo \ {d}, Available, Covered)
    BY <1>2, <2>2, <2>3 DEF Provides
  <2> QED  BY <2>4, <2>5
<1>6. CASE ReuseMigration(p)
  <2>1. PICK i : Goto(p, [Top(p) EXCEPT !.pc = "migrated", !.rec = i])
    BY <1>6 DEF ReuseMigration, Move
  <2>2. f.pc = "lookup" /\ IsMigrated(f.res)
    BY <1>6 DEF ReuseMigration, At, IsMigrated
  <2>3. Goes(p, "migrated", f.todo)
    BY <1>2, <2>1, GoesForms
  <2>4. Assoc[f.res] \subseteq Available
    BY <1>2, <2>2 DEF LoopPc, Available, HierarchyInv, RecordsSound
  <2> QED  BY <2>3, <2>4 DEF Provides
<1>7. CASE LookUpMigration(p)
  <2>1. Goes(p, "create", f.todo)
    BY <1>2, <1>7, GoesForms DEF LookUpMigration, Move
  <2> QED  BY <2>1 DEF Provides
<1>8. CASE GetAssociatedResources(p)
  <2>1. f.res \in Resource
    BY <1>2, <1>8 DEF GetAssociatedResources, At, LoopPc
  <2>2. Pending(f.res) \subseteq Resource /\ \A d \in Assoc[f.res] : d \in Pending(f.res) \/ d \in Available
    BY <2>1, PendingAvailable
  <2>3. CASE Pending(f.res) = {} /\ Goto(p, [Top(p) EXCEPT !.pc = "perform"])
    <3>1. Goes(p, "perform", f.todo)
      BY <1>2, <2>3, GoesForms
    <3>2. Provides("perform", f.res, f.todo, Available, Covered)
      BY <2>2, <2>3 DEF Provides
    <3> QED  BY <3>1, <3>2
  <2>4. CASE Goto(p, [Top(p) EXCEPT !.pc = "deps", !.todo = Pending(f.res)])
    <3>1. Goes(p, "deps", Pending(f.res))
      BY <1>2, <2>4, GoesForms
    <3>2. Pending(f.res) \subseteq Assoc[f.res] /\ Available \subseteq Covered
      BY DEF Pending, Covered
    <3>3. Provides("deps", f.res, Pending(f.res), Available, Covered)
      BY <2>2, <3>2 DEF Provides
    <3> QED  BY <3>1, <3>3
  <2> QED  BY <1>8, <2>3, <2>4 DEF GetAssociatedResources, Move
<1>9. CASE RecheckDependencies(p)
  <2>1. f.res \in Resource /\ Pending(f.res) = {} /\ Goto(p, [Top(p) EXCEPT !.pc = "perform"])
    BY <1>2, <1>9 DEF RecheckDependencies, At, LoopPc, Move
  <2>2. Goes(p, "perform", f.todo)
    BY <1>2, <2>1, GoesForms
  <2>3. Provides("perform", f.res, f.todo, Available, Covered)
    BY <2>1, PendingAvailable DEF Provides
  <2> QED  BY <2>2, <2>3
<1>10. CASE GetMemberResources(p)
  <2>1. f.pc = "listMembers" /\ Goto(p, [Top(p) EXCEPT !.pc = "members", !.todo = Members[f.res]])
    BY <1>10 DEF GetMemberResources, At, Move
  <2>2. Goes(p, "members", Members[f.res])
    BY <1>2, <2>1, GoesForms
  <2> QED  BY <1>2, <2>1, <2>2 DEF Provides
<1>11. CASE ConnectMembers(p)
  <2>1. /\ f.pc = "members" /\ f.todo = {}
        /\ Goto(p, [Top(p) EXCEPT !.pc = AfterMembers(Top(p))])
    BY <1>11 DEF ConnectMembers, At
  <2>2. AfterMembers(f) = "complete"
    BY <1>2 DEF AfterMembers
  <2>3. Goes(p, "complete", f.todo)
    BY <1>2, <2>1, <2>2, GoesForms
  <2> QED  BY <1>2, <2>1, <2>3 DEF Provides
<1>12. CASE HandlerMigrates(p)
  <2>1. f.pc = "perform" /\ Goto(p, [Top(p) EXCEPT !.pc = "saveDest"])
    BY <1>12 DEF HandlerMigrates, At
  <2>2. Goes(p, "saveDest", f.todo)
    BY <1>2, <2>1, GoesForms
  <2> QED  BY <1>2, <2>1, <2>2 DEF Provides
<1> QED  BY <1>4, <1>5, <1>6, <1>7, <1>8, <1>9, <1>10, <1>11, <1>12

\* A call for a dependency, for a member or for one of a batch.
LEMMA CallsSound ==
    ASSUME OneAtATime, ManagerInv, HierarchyInv, NEW p \in Proc,
           MigrateInBatch(p) \/ MigrateDependency(p) \/ MigrateMember(p)
    PROVE  HierarchyInv'
<1> DEFINE s == stack[p]
           f == Top(p)
<1>1. ~Idle(p) /\ UNCHANGED <<db, source, raising, opts>> /\ f.pc \in CallerPc
  BY DEF MigrateInBatch, MigrateDependency, MigrateMember, At, Call, clouds, invocation,
     CallerPc
<1>2. /\ ~f.cleanup /\ Provides(f.pc, f.res, f.todo, Available, Covered)
      /\ f \in Frame /\ f.todo \subseteq Resource
      /\ f.pc \notin LoopPc => f.res \in Resource
      /\ Sound(s, Available, Covered)
  BY <1>1, TopSound
<1>3. PICK r \in f.todo :
         /\ \E c : ~c /\ Call(p, [Top(p) EXCEPT !.todo = Top(p).todo \ {r}], NewFrame("lookup", r, c))
         /\ f.pc \in {"deps", "members"} => ~IsMigrated(r) /\ ~IsInProgress(r)
  BY <1>2 DEF MigrateInBatch, MigrateDependency, MigrateMember, At
<1>4. PICK c : ~c /\ Call(p, [Top(p) EXCEPT !.todo = Top(p).todo \ {r}], NewFrame("lookup", r, c))
  BY <1>3
<1> DEFINE h == [f EXCEPT !.todo = f.todo \ {r}]
           g == NewFrame("lookup", r, c)
<1>5. Shape(h, f.pc, f.res, f.todo \ {r}, f.cleanup)
  BY <1>2, Shapes
<1>6. g.pc = "lookup" /\ g.res = r /\ ~g.cleanup
  BY <1>4 DEF NewFrame
<1>7. stack'[p] = Append(Append(Front(s), h), g)
  BY <1>4, SingleCommand DEF ManagerInv, Call
<1> HIDE DEF h, g
<1>8. /\ s \in Seq(Frame) /\ s # <<>> /\ f = Last(s) /\ f = s[Len(s)] /\ Len(s) \in DOMAIN s
      /\ DOMAIN s = 1..Len(s) /\ Len(s) \in Nat
  BY <1>1, StackShape DEF ManagerInv
<1>9. FrameProvides(g, Available, Covered \cup {r})
  BY <1>6 DEF FrameProvides, Provides
<1>10. FrameProvides(h, Available, Covered \cup {r})
  BY <1>1, <1>2, <1>5 DEF FrameProvides, Provides, Shape, CallerPc
<1>11. ASSUME NEW j \in DOMAIN s, j # Len(s), s[j].pc = "deps"
       PROVE  r \in Cascade(s[j].res)
  <2>1. /\ s[j] \in Frame /\ s[j].res \in Resource
    <3>1. s[j] \in Frame
      BY <1>8, ElementOfSeq
    <3> QED  BY <1>11, <3>1, FrameFields
  <2>2. Nested(s, Busy)
    BY DEF ManagerInv, SingleInv, RecursionInv
  <2>3. f.pc \in {"deps", "members"} /\ f.res \in Resource
    <3>1. Len(s) # 1
      BY <1>8, <1>11
    <3> QED  BY <1>1, <1>2, <1>8, <2>2, <3>1 DEF Nested, LoopPc, CallerPc
  <2>4. f.res \in Cascade(s[j].res)
    BY <1>2, <1>8, <1>11 DEF Sound, Chain
  <2>5. r # s[j].res
    <3>1. s[j].res \in Busy
      BY <1>11, <2>2 DEF Nested, LoopPc, FirstPc
    <3> QED  BY <1>3, <2>3, <3>1 DEF Busy
  <2>6. r \in Assoc[f.res] \cup Members[f.res]
    BY <1>2, <2>3 DEF Provides
  <2> QED  BY <2>1, <2>4, <2>5, <2>6, CascadeClosed
<1>12. f.pc = "deps" => r \in Cascade(f.res)
  BY <1>2, CascadeClosed DEF LoopPc, Provides
<1>13. ResOf(s) \cup {r} \subseteq ResOf(stack'[p])
  <2>1. h.res = Last(s).res /\ (h.pc = "deps" => g.res \in Cascade(h.res))
    BY <1>5, <1>6, <1>8, <1>12 DEF Shape
  <2>2. \A j \in DOMAIN s : j # Len(s) /\ s[j].pc = "deps" => g.res \in Cascade(s[j].res)
    BY <1>6, <1>11
  <2> DEFINE C2 == Covered \cup {r}
  <2>3. Covered \subseteq C2 /\ FrameProvides(h, Available, C2) /\ FrameProvides(g, Available, C2)
    BY <1>9, <1>10
  <2>4. s \in Seq(Frame) /\ s # <<>> /\ Sound(s, Available, Covered)
    BY <1>2, <1>8
  <2> HIDE DEF s, C2
  <2>5. ResOf(s) \cup {g.res} \subseteq ResOf(Append(Append(Front(s), h), g))
    BY <2>1, <2>2, <2>3, <2>4, SoundCall
  <2> QED  BY <1>6, <1>7, <2>5
<1>14. Available' = Available /\ Covered \subseteq Covered'
  BY <1>1, <1>13, RecordsSame, CoveredKept
<1>15. Covered \cup {r} \subseteq Covered'
  <2>1. Underway(r)'
    BY <1>13 DEF Underway, ResOf
  <2> QED  BY <1>2, <1>14, <2>1 DEF Covered
<1>16. Sound(stack'[p], Available', Covered')
  <2>1. h.res = Last(s).res /\ (h.pc = "deps" => g.res \in Cascade(h.res))
    BY <1>5, <1>6, <1>8, <1>12 DEF Shape
  <2>2. \A j \in DOMAIN s : j # Len(s) /\ s[j].pc = "deps" => g.res \in Cascade(s[j].res)
    BY <1>6, <1>11
  <2>3. FrameProvides(h, Available, Covered') /\ FrameProvides(g, Available, Covered')
    BY <1>9, <1>10, <1>15, ProvidesMore
  <2>4. /\ s \in Seq(Frame) /\ s # <<>> /\ Sound(s, Available, Covered)
        /\ Covered \subseteq Covered'
    BY <1>2, <1>8, <1>14
  <2> HIDE DEF s
  <2>5. Sound(Append(Append(Front(s), h), g), Available, Covered')
    BY <2>1, <2>2, <2>3, <2>4, SoundCall
  <2> QED  BY <1>7, <1>14, <2>5
<1>17. RecordsSound'
  BY <1>1, <1>14, RecordsSoundSame DEF HierarchyInv
<1> QED  BY <1>1, <1>16, <1>17, StepSound

-----------------------------------------------------------------------------
(* Steps that change the records.                                          *)

\* They make nothing available but the resource of the call.
LEMMA RecordsGrow ==
    ASSUME ManagerInv, NEW p \in Proc, Step(p)
    PROVE  Available \subseteq Available' /\ Available' \subseteq Available \cup {Top(p).res}
BY FreshKinds DEF ManagerInv, SingleInv, RecordStep

LEMMA CreateSound ==
    ASSUME OneAtATime, ManagerInv, HierarchyInv, NEW p \in Proc, CreateMigration(p)
    PROVE  HierarchyInv'
<1> DEFINE f == Top(p)
           m == [source |-> Top(p).res, status |-> STATUS_IN_PROGRESS,
                 dest |-> NoDest, removed |-> FALSE, archived |-> FALSE]
<1>1. /\ ~Idle(p) /\ UNCHANGED <<source, raising, opts>> /\ f.pc = "create"
      /\ db' = Append(db, m) /\ Goto(p, [Top(p) EXCEPT !.pc = "assoc", !.rec = Len(db) + 1])
  BY DEF CreateMigration, At, clouds, invocation
<1>2. f \in Frame /\ f.res \in Resource
  BY <1>1, TopSound DEF LoopPc
<1>3. m \in Migration /\ m.source = f.res /\ m.status = STATUS_IN_PROGRESS /\ ~m.archived
  BY <1>2 DEF Migration, Status
<1> HIDE DEF m
<1>4. f.res \notin Available
  BY <1>1, FreshTop DEF ManagerInv, SingleInv, FreshOK, FreshPc
<1>5. Available' = Available
  <2>1. RecordStep(f.res) /\ f.res \notin Available'
    BY <1>1, <1>3, <1>4, AddedRecord DEF ManagerInv
  <2> QED  BY <2>1 DEF RecordStep
<1>6. Goes(p, "assoc", f.todo)
  BY <1>1, <1>2, GoesForms
<1>7. Covered \subseteq Covered' => RecordsSound'
  <2> SUFFICES ASSUME Covered \subseteq Covered', NEW i \in DOMAIN db'
               PROVE  /\ MigratedRecord(i)' => db'[i].source \in Available
                      /\ db'[i].status = STATUS_COMPLETED => Members[db'[i].source] \subseteq Covered
    BY <1>5 DEF RecordsSound, HierarchyInv
  <2>1. \/ i \in DOMAIN db /\ db'[i] = db[i]
        \/ db'[i].status = STATUS_IN_PROGRESS
    BY <1>1, <1>3, AppendedRecord DEF ManagerInv
  <2> QED  BY <2>1, StatusValues DEF HierarchyInv, RecordsSound, MigratedRecord, LIST_STATUS_MIGRATED
<1> QED  BY <1>1, <1>5, <1>6, <1>7, GoesSound DEF Provides

LEMMA SaveSound ==
    ASSUME OneAtATime, ManagerInv, HierarchyInv, NEW p \in Proc, SaveDestination(p)
    PROVE  HierarchyInv'
<1> DEFINE f == Top(p)
           x == NewObject(Top(p))
<1>1. /\ ~Idle(p) /\ UNCHANGED <<source, raising, opts>> /\ f.pc = "saveDest"
      /\ db' = [db EXCEPT ![f.rec].dest = x] /\ Goto(p, [Top(p) EXCEPT !.pc = "migrated"])
  BY DEF SaveDestination, At, clouds, invocation
<1>2. f \in Frame /\ Assoc[f.res] \subseteq Available
  BY <1>1, TopSound DEF Provides
<1> HIDE DEF x
<1>3. /\ DOMAIN db' = DOMAIN db
      /\ \A j \in DOMAIN db : /\ db'[j].source = db[j].source /\ db'[j].status = db[j].status
                               /\ db'[j].archived = db[j].archived
  BY <1>1, OtherField, RecordNumbers DEF ManagerInv
<1>4. Available' = Available
  <2>1. \A r : Newest(r)' = Newest(r)
    BY <1>3, InPlace
  <2>2. \A r : \A i \in Newest(r) : i \in DOMAIN db
    BY DEF Newest
  <2>3. \A r : IsMigrated(r)' <=> IsMigrated(r)
    BY <1>3, <2>1, <2>2 DEF IsMigrated
  <2> QED  BY <2>3 DEF Available
<1>5. Goes(p, "migrated", f.todo)
  BY <1>1, <1>2, GoesForms
<1>6. Covered \subseteq Covered' => RecordsSound'
  BY <1>3, <1>4 DEF HierarchyInv, RecordsSound, MigratedRecord
<1>7. Provides("migrated", f.res, f.todo, Available', Covered)
  BY <1>2, <1>4 DEF Provides
<1> QED  BY <1>1, <1>4, <1>5, <1>6, <1>7, GoesSound

\* The record of a call is given a status that says migrated.
LEMMA StatusSound ==
    ASSUME ManagerInv, HierarchyInv, NEW i \in DOMAIN db, NEW v \in LIST_STATUS_MIGRATED,
           SetStatus(i, v), Available \subseteq Available',
           Available' \subseteq Available \cup {db[i].source}, db[i].source \in Available',
           Assoc[db[i].source] \subseteq Available,
           v = STATUS_COMPLETED => Members[db[i].source] \subseteq Covered,
           Covered \subseteq Covered'
    PROVE  RecordsSound'
<1>1. /\ DOMAIN db' = DOMAIN db
      /\ \A j \in DOMAIN db : /\ db'[j].source = db[j].source
                              /\ db'[j].status = db[j].status \/ (j = i /\ db'[j].status = v)
  BY StatusField, RecordNumbers DEF ManagerInv, SetStatus
<1>2. \A r \in Available' : Assoc[r] \subseteq Available'
  BY DEF HierarchyInv, RecordsSound
<1>4. DOMAIN db' = DOMAIN db
  BY <1>1
<1>3. ASSUME NEW j \in DOMAIN db
      PROVE  /\ MigratedRecord(j)' => db'[j].source \in Available'
             /\ db'[j].status = STATUS_COMPLETED => Members[db'[j].source] \subseteq Covered'
  <2>1. db'[j].source = db[j].source
    BY <1>1
  <2>2. CASE db'[j].status = db[j].status
    <3>1. /\ db[j].status \in LIST_STATUS_MIGRATED => db[j].source \in Available
          /\ db[j].status = STATUS_COMPLETED => Members[db[j].source] \subseteq Covered
      BY <2>1 DEF HierarchyInv, RecordsSound, MigratedRecord
    <3> QED  BY <2>1, <2>2, <3>1 DEF MigratedRecord
  <2>3. CASE j = i /\ db'[j].status = v
    BY <2>1, <2>3 DEF MigratedRecord
  <2> QED  BY <1>1, <2>1, <2>2, <2>3
<1> QED  BY <1>2, <1>3, <1>4 DEF RecordsSound

LEMMA MarkSound ==
    ASSUME OneAtATime, ManagerInv, HierarchyInv, NEW p \in Proc, MarkPendingMembers(p)
    PROVE  HierarchyInv'
<1> DEFINE f == Top(p)
           i == f.rec
           v == STATUS_PENDING_MEMBERS
<1>1. /\ ~Idle(p) /\ UNCHANGED <<source, raising, opts>> /\ f.pc = "migrated" /\ SetStatus(i, v)
      /\ Goto(p, [Top(p) EXCEPT !.pc = IF opts[p].members THEN "listMembers"
                                                           ELSE AfterMembers(Top(p))])
  BY DEF MarkPendingMembers, At, clouds, invocation
<1>2. f \in Frame /\ opts[p].members /\ Assoc[f.res] \subseteq Available /\ f.res \in Resource
  BY <1>1, TopSound DEF Provides, LoopPc
<1>3. i \in DOMAIN db /\ db[i].source = f.res /\ i \in Newest(f.res)
  BY <1>1, FreshTop DEF ManagerInv, SingleInv, FreshOK, LivePc, Latest
<1>4. v \in LIST_STATUS_MIGRATED /\ v # STATUS_COMPLETED
  BY DEF LIST_STATUS_MIGRATED, STATUS_PENDING_MEMBERS, STATUS_COMPLETED
<1>5. Available \subseteq Available' /\ Available' \subseteq Available \cup {f.res}
  BY RecordsGrow DEF Step
<1> HIDE DEF i, v
<1>6. f.res \in Available'
  BY <1>1, <1>3, <1>4, ClosedAvailable DEF ManagerInv, SetStatus
<1>7. Goes(p, "listMembers", f.todo)
  BY <1>1, <1>2, GoesForms
<1>8. Covered \subseteq Covered' => RecordsSound'
  BY <1>1, <1>2, <1>3, <1>4, <1>5, <1>6, StatusSound
<1>9. Provides("listMembers", f.res, f.todo, Available', Covered)
  BY <1>6 DEF Provides
<1> QED  BY <1>1, <1>5, <1>7, <1>8, <1>9, GoesSound

\* A call returns.
LEMMA ReturnSound ==
    ASSUME OneAtATime, ManagerInv, HierarchyInv, NEW p \in Proc, CompleteMigration(p)
    PROVE  HierarchyInv'
<1> DEFINE s == stack[p]
           f == Top(p)
           i == f.rec
           below == Front(s)
<1>1. /\ ~Idle(p) /\ UNCHANGED <<source, raising, opts>> /\ f.pc = "complete"
      /\ SetStatus(i, STATUS_COMPLETED) /\ Return(p)
  BY DEF CompleteMigration, At, clouds, invocation
<1>2. /\ f.res \in Available /\ Members[f.res] \subseteq Covered /\ Sound(s, Available, Covered)
      /\ Assoc[f.res] \subseteq Available
  BY <1>1, TopSound DEF Provides, HierarchyInv, RecordsSound
<1>3. i \in DOMAIN db /\ db[i].source = f.res
  BY <1>1, TopHolds DEF ManagerInv, Holds, MigratedPc
<1>4. Available \subseteq Available' /\ Available' \subseteq Available \cup {f.res}
  BY RecordsGrow DEF Step
<1>5. s \in Seq(Frame) /\ s # <<>> /\ f = Last(s)
  BY <1>1, StackShape DEF ManagerInv
<1>6. below \in Seq(Frame)
  BY <1>5, FrontLast
<1>7. /\ Sound(below, Available', Covered)
      /\ ResOf(s) \subseteq ResOf(below) \cup {f.res}
  BY <1>2, <1>4, <1>5, SoundPop
<1>8. /\ Sound(stack'[p], Available', Covered)
      /\ ResOf(below) \subseteq ResOf(stack'[p])
  <2>1. CASE below = <<>>
    <3>1. stack'[p] = below
      BY <1>1, <2>1, SingleCommand DEF ManagerInv, Return
    <3> QED  BY <1>7, <3>1
  <2>2. CASE below # <<>>
    <3> DEFINE h == Resumed(Last(below), f)
    <3>1. stack'[p] = Append(Front(below), h)
      BY <1>1, <2>2, SingleCommand DEF ManagerInv, Return
    <3>2. Last(below) \in Frame /\ FrameProvides(Last(below), Available', Covered)
      <4>1. Last(below) = below[Len(below)] /\ Len(below) \in DOMAIN below
        BY <1>6, <2>2, FrontLast
      <4> QED  BY <1>6, <1>7, <4>1, ElementOfSeq, LenProperties DEF Sound
    <3>3. Shape(h, Last(below).pc, Last(below).res, Last(below).todo, Last(below).cleanup)
      BY <3>2, Shapes DEF Resumed, Shape
    <3> HIDE DEF h
    <3>4. h.res = Last(below).res /\ FrameProvides(h, Available', Covered)
      BY <3>2, <3>3 DEF Shape, FrameProvides
    <3> QED  BY <1>6, <1>7, <2>2, <3>1, <3>4, SoundGoto
  <2> QED  BY <2>1, <2>2
<1>9. Covered \subseteq Covered'
  BY <1>2, <1>4, <1>7, <1>8, CoveredKept
<1>10. Sound(stack'[p], Available', Covered')
  BY <1>8, <1>9, ProvidesMore DEF Sound
<1>11. RecordsSound'
  BY <1>1, <1>2, <1>3, <1>4, <1>9, StatusSound DEF LIST_STATUS_MIGRATED
<1> QED  BY <1>1, <1>10, <1>11, StepSound

-----------------------------------------------------------------------------
(* Steps that are not taken.                                               *)

\* Dependencies that were skipped because they were in progress are migrated
\* when the loop is done: none is further down the stack.
LEMMA DependenciesSettled ==
    ASSUME OneAtATime, NoKnot, ManagerInv, HierarchyInv, NEW p \in Proc,
           At(p, "deps"), Top(p).todo = {}
    PROVE  Pending(Top(p).res) = {}
<1> DEFINE s == stack[p]
           f == Top(p)
<1>1. /\ ~Idle(p) /\ f.pc = "deps" /\ f.todo = {}
  BY DEF At
<1>2. /\ Assoc[f.res] \subseteq Covered /\ Sound(s, Available, Covered) /\ f.res \in Resource
  BY <1>1, TopSound DEF Provides, LoopPc
<1>3. /\ f = s[Len(s)] /\ Len(s) \in DOMAIN s /\ DOMAIN s = 1..Len(s) /\ Len(s) \in Nat
      /\ s \in Seq(Frame)
  BY <1>1, StackShape DEF ManagerInv
<1>4. SUFFICES ASSUME NEW d \in Assoc[f.res], d \notin Available, d \in Resource
               PROVE  FALSE
  BY <1>2 DEF Pending, Available, Covered
<1>5. d \in Cascade(f.res)
  BY <1>2, CascadeClosed
<1>6. PICK k \in DOMAIN s : s[k].res = d
  BY <1>2, <1>4 DEF Covered, Underway, OneAtATime
<1>7. CASE k = Len(s)
  BY <1>2, <1>3, <1>5, <1>6, <1>7 DEF NoKnot
<1>8. CASE k # Len(s)
  <2>1. s[k].pc \in CallerPc
    BY <1>8 DEF ManagerInv, SingleInv, Innermost
  <2>2. s[k].pc # "batch"
    <3>1. s[k] \in Frame
      BY <1>3, ElementOfSeq
    <3> QED  BY <1>4, <1>6, <3>1, ResourceAssumption DEF Frame, CallFrame, LoopFrame, FrameOf,
             ParentPc, MigratedPc
  <2>3. s[k].pc # "members"
    BY <1>2, <1>4, <1>6 DEF Sound, FrameProvides, Provides
  <2>4. f.res \in Cascade(d)
    BY <1>2, <1>3, <1>6, <1>8, <2>1, <2>2, <2>3 DEF CallerPc, Sound, Chain
  <2>5. d \in Cascade(d)
    BY <1>4, <2>4, CascadeClosed
  <2> QED  BY <1>4, <2>5 DEF NoKnot
<1> QED  BY <1>7, <1>8

LEMMA NoFailures ==
    ASSUME OneAtATime, NothingFails, NoKnot, ManagerInv, HierarchyInv, NEW p \in Proc
    PROVE  /\ ~RefusePendingDependencies(p) /\ ~RefuseUnmigratedDependencies(p)
           /\ ~GetAssociatedResourcesFails(p) /\ ~HandlerFails(p) /\ ~GetMemberResourcesFails(p)
           /\ ~MarkPendingCleanup(p) /\ ~DeleteSource(p) /\ ~DeleteSourceFails(p)
           /\ ~MarkSourceRemoved(p) /\ ~FinishCleanup(p)
           /\ ~DependencyFailed(p) /\ ~MemberFailed(p) /\ ~BatchFailed(p)
<1>1. ~Idle(p) => /\ ~raising[p] /\ opts[p].deps /\ source = Resource
                  /\ Top(p).pc \notin {"sweep", "pendingCleanup", "cleanOwn", "cleanAssoc"}
                  /\ Top(p).pc \notin LoopPc => Top(p).res \in Resource
  BY TopSound DEF Provides
<1>2. ~RefusePendingDependencies(p)
  BY <1>1 DEF RefusePendingDependencies, At
<1>3. ~RefuseUnmigratedDependencies(p)
  BY DependenciesSettled DEF RefuseUnmigratedDependencies
<1>4. ~GetAssociatedResourcesFails(p)
  BY <1>1 DEF GetAssociatedResourcesFails, At, AssocReadable, NothingFails, LoopPc
<1>5. ~HandlerFails(p)
  BY <1>1 DEF HandlerFails, At, NothingFails, LoopPc
<1>6. ~GetMemberResourcesFails(p)
  BY <1>1 DEF GetMemberResourcesFails, At, MembersReadable, NothingFails, LoopPc
<1>7. ~MarkPendingCleanup(p) /\ ~MarkSourceRemoved(p) /\ ~FinishCleanup(p)
  BY <1>1 DEF MarkPendingCleanup, MarkSourceRemoved, FinishCleanup, At
<1>8. ~DeleteSource(p) /\ ~DeleteSourceFails(p)
  BY <1>1 DEF DeleteSource, DeleteSourceFails, CleaningUp, CleanupNext
<1>9. ~DependencyFailed(p) /\ ~MemberFailed(p) /\ ~BatchFailed(p)
  BY <1>1 DEF DependencyFailed, MemberFailed, BatchFailed, RaisedTo
<1> QED  BY <1>2, <1>3, <1>4, <1>5, <1>6, <1>7, <1>8, <1>9

-----------------------------------------------------------------------------
(* Commands.                                                               *)

LEMMA StartSound ==
    ASSUME OneAtATime, BothFlags, ManagerInv, HierarchyInv, NEW p \in Proc,
           StartMigration(p) \/ StartBatch(p)
    PROVE  HierarchyInv'
<1>1. /\ Idle(p) /\ UNCHANGED <<db, source, raising>>
  BY DEF StartMigration, StartBatch, Invoke, clouds
<1>2. \E f : \E o \in Invocations : /\ stack' = [stack EXCEPT ![p] = <<f>>]
                                    /\ opts' = [opts EXCEPT ![p] = o]
                                    /\ f.pc \in {"lookup", "batch"} /\ ~f.cleanup
  <2>1. CASE StartMigration(p)
    <3>1. PICK o \in Invocations : \E r \in Requested :
             /\ stack' = [stack EXCEPT ![p] = <<NewFrame("lookup", r, o.cleanup)>>]
             /\ opts' = [opts EXCEPT ![p] = o]
      BY <2>1 DEF StartMigration, Invoke
    <3>5. PICK r \in Requested :
             /\ stack' = [stack EXCEPT ![p] = <<NewFrame("lookup", r, o.cleanup)>>]
             /\ opts' = [opts EXCEPT ![p] = o]
      BY <3>1
    <3> DEFINE f == NewFrame("lookup", r, o.cleanup)
    <3>2. f.pc = "lookup" /\ ~f.cleanup
      BY <3>5 DEF NewFrame, BothFlags
    <3>3. stack' = [stack EXCEPT ![p] = <<f>>] /\ opts' = [opts EXCEPT ![p] = o]
      BY <3>5
    <3> HIDE DEF f
    <3> QED  BY <3>2, <3>3
  <2>2. CASE StartBatch(p)
    <3>1. PICK o \in Invocations : \E t :
             /\ stack' = [stack EXCEPT ![p] =
                             <<[NewFrame("batch", NoResource, o.cleanup) EXCEPT !.todo = t]>>]
             /\ opts' = [opts EXCEPT ![p] = o]
      BY <2>2 DEF StartBatch, Invoke
    <3>5. PICK t :
             /\ stack' = [stack EXCEPT ![p] =
                             <<[NewFrame("batch", NoResource, o.cleanup) EXCEPT !.todo = t]>>]
             /\ opts' = [opts EXCEPT ![p] = o]
      BY <3>1
    <3> DEFINE f == [NewFrame("batch", NoResource, o.cleanup) EXCEPT !.todo = t]
    <3>2. f.pc = "batch" /\ ~f.cleanup
      BY <3>5 DEF NewFrame, BothFlags
    <3>3. stack' = [stack EXCEPT ![p] = <<f>>] /\ opts' = [opts EXCEPT ![p] = o]
      BY <3>5
    <3> HIDE DEF f
    <3> QED  BY <3>2, <3>3
  <2> QED  BY <2>1, <2>2
<1>3. PICK f : \E o \in Invocations : /\ stack' = [stack EXCEPT ![p] = <<f>>]
                                      /\ opts' = [opts EXCEPT ![p] = o]
                                      /\ f.pc \in {"lookup", "batch"} /\ ~f.cleanup
  BY <1>2
<1>10. PICK o \in Invocations : /\ stack' = [stack EXCEPT ![p] = <<f>>]
                                 /\ opts' = [opts EXCEPT ![p] = o]
                                 /\ f.pc \in {"lookup", "batch"} /\ ~f.cleanup
  BY <1>3
<1>4. stack'[p] = <<f>> /\ opts'[p] = o
  BY <1>10 DEF ManagerInv, IInv, TypeOK
<1>5. ResOf(stack[p]) = {}
  BY <1>1, EmptySeq DEF Idle, ResOf
<1>6. Available' = Available /\ Covered \subseteq Covered'
  BY <1>1, <1>5, RecordsSame, CoveredKept
<1>7. RecordsSound'
  BY <1>1, <1>6, RecordsSoundSame DEF HierarchyInv
<1>8. Sound(stack'[p], Available', Covered')
  BY <1>3, <1>4, SoundSingle DEF FrameProvides, Provides
<1>9. \A q \in Proc : q = p
  BY DEF OneAtATime
<1> QED  BY <1>1, <1>4, <1>7, <1>8, <1>9 DEF HierarchyInv, CommandSound, BothFlags

LEMMA FinishSound ==
    ASSUME OneAtATime, ManagerInv, HierarchyInv, NEW p \in Proc, FinishBatch(p)
    PROVE  HierarchyInv'
<1>1. /\ ~Idle(p) /\ UNCHANGED <<db, source, raising, opts>> /\ Top(p).pc = "batch"
      /\ stack' = [stack EXCEPT ![p] = <<>>]
  BY DEF FinishBatch, At, Exit, clouds, invocation
<1>2. stack'[p] = <<>>
  BY <1>1, SingleCommand DEF ManagerInv
<1>3. /\ Top(p) = stack[p][Len(stack[p])] /\ Len(stack[p]) \in DOMAIN stack[p] /\ Top(p) \in Frame
      /\ DOMAIN stack[p] = 1..Len(stack[p])
  BY <1>1, StackShape DEF ManagerInv
<1>4. Nested(stack[p], Busy)
  BY DEF ManagerInv, SingleInv, RecursionInv
<1>5. ResOf(stack[p]) = {NoResource}
  <2>1. Top(p).res = NoResource
    BY <1>1, <1>3 DEF Frame, CallFrame, LoopFrame, FrameOf, ParentPc, MigratedPc
  <2>2. Len(stack[p]) = 1
    BY <1>1, <1>3, <1>4 DEF Nested, LoopPc
  <2>3. DOMAIN stack[p] = {1}
    BY <1>3, <2>2
  <2> QED  BY <1>3, <2>1, <2>2, <2>3 DEF ResOf
<1>6. Available' = Available /\ Covered \subseteq Covered'
  BY <1>1, <1>5, RecordsSame, CoveredKept, ResourceAssumption
<1>7. RecordsSound'
  BY <1>1, <1>6, RecordsSoundSame DEF HierarchyInv
<1> QED  BY <1>1, <1>2, <1>7, SoundEmpty, StepSound

LEMMA HierarchyNext ==
    ASSUME OneAtATime, OnlyStarts, NothingFails, BothFlags, NoKnot,
           ManagerInv, HierarchyInv, [Next]_vars
    PROVE  HierarchyInv'
<1>1. CASE UNCHANGED vars
  <2>1. Available' = Available /\ Covered' = Covered
    BY <1>1, RecordsSame DEF vars, Covered, Underway
  <2> QED  BY <1>1, <2>1 DEF HierarchyInv, RecordsSound, MigratedRecord, CommandSound, Idle, vars
<1>2. ASSUME NEW p \in Proc, Step(p)  PROVE HierarchyInv'
  BY <1>2, QuietSound, CallsSound, CreateSound, SaveSound, MarkSound, ReturnSound, FinishSound,
     NoFailures DEF Step
<1>3. ASSUME NEW p \in Proc, StartMigration(p) \/ StartBatch(p)  PROVE HierarchyInv'
  BY <1>3, StartSound
<1>4. ASSUME NEW p \in Proc  PROVE ~StartCleanup(p) /\ ~Crash(p)
  BY DEF StartCleanup, Invoke, Crash, OnlyStarts, NothingFails
<1>5. ~(ArchiveMigrations \/ RestoreMigrations \/ RegisterExternal)
  BY NobodyRewrites DEF OnlyStarts, OnlyMigrations
<1> QED  BY <1>1, <1>2, <1>3, <1>4, <1>5 DEF Next

LEMMA HierarchyInitially ==
    ASSUME Init
    PROVE  HierarchyInv
<1>1. DOMAIN db = {} /\ \A p \in Proc : stack[p] = <<>> /\ ~raising[p] /\ Idle(p)
  BY EmptySeq DEF Init, Idle
<1>2. Available = {}
  BY <1>1 DEF Available, IsMigrated, Newest
<1> QED  BY <1>1, <1>2, SoundEmpty DEF Init, HierarchyInv, RecordsSound, CommandSound

LEMMA SoundIsMigrated ==
    ASSUME HierarchyInv
    PROVE  HierarchyMigrated
<1> SUFFICES ASSUME Quiet, NEW i \in DOMAIN db, db[i].status = STATUS_COMPLETED,
                    NEW r \in Assoc[db[i].source] \cup Members[db[i].source]
             PROVE  IsMigrated(r)
  BY DEF HierarchyMigrated
<1>1. Covered = Available
  BY EmptySeq DEF Covered, Underway, Quiet, Idle
<1>2. db[i].source \in Available
  BY DEF HierarchyInv, RecordsSound, MigratedRecord, LIST_STATUS_MIGRATED
<1>3. r \in Available
  BY <1>1, <1>2 DEF HierarchyInv, RecordsSound
<1> QED  BY <1>3 DEF Available

\* When no command is at work, what a completed migration depends on and what it
\* contains has been migrated too: for any hierarchy without a knot, any
\* selection of start and start-batch with both flags, one command at a time,
\* when nothing fails. It is _migrate_resource that recurses twice, skips what is
\* migrated or in progress, and marks its record completed last.
THEOREM HierarchiesAreMigrated ==
    ASSUME OneAtATime, OnlyStarts, NothingFails, BothFlags, NoKnot
    PROVE  Spec => []HierarchyMigrated
<1>1. OnlyMigrations
  BY DEF OnlyStarts, OnlyMigrations
<1>2. Init => Innermost /\ SingleInv /\ LiveInv /\ HierarchyInv
  BY SingleInit, HierarchyInitially, EmptySeq DEF Init, LiveInv, SingleInv
<1>3. IInv /\ LedgerInv /\ SingleInv /\ LiveInv /\ HierarchyInv /\ [Next]_vars
         => SingleInv' /\ LiveInv' /\ HierarchyInv'
  BY <1>1, SingleNext, LiveNext, HierarchyNext
     DEF LedgerInv, StacksLedger, SingleInv, ManagerInv, NothingFails
<1>4. HierarchyInv => HierarchyMigrated
  BY SoundIsMigrated
<1> QED  BY <1>2, <1>3, <1>4, Invariance, LedgerInvariance, PTL DEF Spec

\* The same for the resources of a cloud, with the relations that the handlers'
\* get_associated_resources and get_member_resources report: whole hierarchies
\* are migrated when each user has one default project and roles are global.
THEOREM CloudsAreMigrated ==
    ASSUME OneAtATime, OnlyStarts, NothingFails, BothFlags,
           HandlersRelations, OneDefaultProject, GlobalRoles
    PROVE  Spec => []HierarchyMigrated
BY NoKnotOnClouds, HierarchiesAreMigrated

-----------------------------------------------------------------------------
(* What a dry run foretells, whatever has been migrated before and fails   *)
(* or is migrated afterwards.                                              *)

Frames(s) == {s[k] : k \in DOMAIN s}

\* The dry run is about to look d up.
Due(f, d) == f.pc = "lookup" /\ f.res = d

\* It has still to come to the dependency d, or the member m, of r.
DueDependency(f, r, d) ==
    /\ f.res = r
    /\ \/ f.pc = "listAssoc"
       \/ f.pc = "deps" /\ d \in f.todo

DueMember(f, r, m) ==
    /\ f.res = r
    /\ \/ f.pc \in {"listAssoc", "deps", "listMembers"}
       \/ f.pc = "members" /\ m \in f.todo

Foreseen(d) ==
    d \in planned \/ d \in Available \/ \E f \in Frames(dry) : Due(f, d)

\* What the resources on the list lack on it has been migrated, or is still to
\* come in one of the calls at work.
ForetellInv ==
    \A r \in planned :
        /\ r \in Resource
        /\ dryFlags.deps => \A d \in Assoc[r] :
              Foreseen(d) \/ \E f \in Frames(dry) : DueDependency(f, r, d)
        /\ dryFlags.members => \A m \in Members[r] :
              Foreseen(m) \/ \E f \in Frames(dry) : DueMember(f, r, m)

-----------------------------------------------------------------------------
(* The call stack of the dry run.                                          *)

LEMMA EmptyFrames == Frames(<<>>) = {}
BY EmptySeq DEF Frames

LEMMA AppendFrames ==
    ASSUME NEW S, NEW s \in Seq(S), NEW g \in S
    PROVE  Append(s, g) \in Seq(S) /\ Frames(Append(s, g)) = Frames(s) \cup {g}
<1>1. /\ Append(s, g) \in Seq(S)
      /\ Len(Append(s, g)) = Len(s) + 1 /\ Len(s) \in Nat
      /\ \A k \in 1..Len(s) : Append(s, g)[k] = s[k]
      /\ Append(s, g)[Len(s) + 1] = g
  BY AppendProperties, LenProperties
<1>2. DOMAIN s = 1..Len(s) /\ DOMAIN Append(s, g) = 1..(Len(s) + 1)
  BY <1>1, LenProperties
<1> QED  BY <1>1, <1>2 DEF Frames

\* The frames of a stack are the innermost one and those below it.
LEMMA LastFrame ==
    ASSUME NEW S, NEW s \in Seq(S), s # <<>>
    PROVE  /\ Front(s) \in Seq(S) /\ Last(s) \in S
           /\ Frames(s) = Frames(Front(s)) \cup {Last(s)}
<1>1. /\ Len(s) \in Nat \ {0} /\ DOMAIN s = 1..Len(s)
      /\ \A k \in 1..Len(s) : s[k] \in S
      /\ Front(s) \in Seq(S) /\ Last(s) = s[Len(s)] /\ Len(s) \in DOMAIN s
      /\ \A k \in DOMAIN Front(s) : Front(s)[k] = s[k]
  BY FrontLast, EmptySeq, LenProperties, ElementOfSeq
<1>2. DOMAIN Front(s) = 1..Len(s) - 1
  <2>1. Front(s) = SubSeq(s, 1, Len(s) - 1)
    BY DEF Front
  <2>2. Len(SubSeq(s, 1, Len(s) - 1)) = Len(s) - 1
    <3>1. \A k \in 1..Len(s) - 1 : s[k] \in S
      BY <1>1
    <3> QED  BY <1>1, <3>1, SubSeqProperties
  <2> QED  BY <1>1, <2>1, <2>2, LenProperties
<1>3. 1..Len(s) = (1..Len(s) - 1) \cup {Len(s)}
  BY <1>1
<1> QED  BY <1>1, <1>2, <1>3 DEF Frames

LEMMA OneFrame ==
    ASSUME NEW S, NEW g \in S
    PROVE  <<g>> \in Seq(S) /\ Frames(<<g>>) = {g}
<1>1. DOMAIN <<g>> = {1} /\ <<g>>[1] = g /\ <<g>> \in Seq(S)
  OBVIOUS
<1> QED  BY <1>1 DEF Frames

LEMMA TwoFrames ==
    ASSUME NEW S, NEW s \in Seq(S), NEW f \in S, NEW g \in S
    PROVE  /\ s \o <<f, g>> \in Seq(S)
           /\ Frames(s \o <<f, g>>) = Frames(s) \cup {f, g}
<1>1. /\ Len(s) \in Nat /\ DOMAIN s = 1..Len(s)
      /\ <<f, g>> \in Seq(S) /\ Len(<<f, g>>) = 2
      /\ <<f, g>>[1] = f /\ <<f, g>>[2] = g
  BY LenProperties
<1>2. /\ s \o <<f, g>> \in Seq(S) /\ Len(s \o <<f, g>>) = Len(s) + 2
      /\ \A k \in 1..Len(s) + 2 :
            (s \o <<f, g>>)[k] = IF k <= Len(s) THEN s[k] ELSE <<f, g>>[k - Len(s)]
  BY <1>1, ConcatProperties
<1>3. DOMAIN (s \o <<f, g>>) = 1..Len(s) + 2
  BY <1>2, LenProperties
<1>4. /\ \A k \in 1..Len(s) : k \in 1..Len(s) + 2 /\ (s \o <<f, g>>)[k] = s[k]
      /\ Len(s) + 1 \in 1..Len(s) + 2 /\ (s \o <<f, g>>)[Len(s) + 1] = f
      /\ Len(s) + 2 \in 1..Len(s) + 2 /\ (s \o <<f, g>>)[Len(s) + 2] = g
      /\ \A k \in 1..Len(s) + 2 : k \in 1..Len(s) \/ k = Len(s) + 1 \/ k = Len(s) + 2
  BY <1>1, <1>2
<1> DEFINE t == s \o <<f, g>>
<1> HIDE DEF t
<1>5. \A k \in DOMAIN t : t[k] \in Frames(s) \cup {f, g}
  BY <1>1, <1>3, <1>4 DEF Frames, t
<1>6. Frames(s) \subseteq Frames(t) /\ f \in Frames(t) /\ g \in Frames(t)
  BY <1>1, <1>3, <1>4 DEF Frames, t
<1>7. Frames(t) = Frames(s) \cup {f, g}
  BY <1>5, <1>6 DEF Frames
<1> QED  BY <1>2, <1>7 DEF t

-----------------------------------------------------------------------------
(* Steps of the dry run.                                                   *)

\* G are the frames that a step puts in place of the innermost one.
Instead(G) ==
    /\ dry # <<>>
    /\ dry' \in Seq(DryFrame)
    /\ Frames(dry') = Frames(Front(dry)) \cup G
    /\ UNCHANGED <<vars, dryFlags>>

Reached(G, d) == d \in planned' \/ d \in Available \/ \E g \in G : Due(g, d)

\* What the innermost frame had still to come to has been listed or migrated,
\* or one of the frames in its place is to come to it.
PassedOn(G) ==
    /\ \A d : Due(Last(dry), d) => Reached(G, d)
    /\ dryFlags.deps => \A r \in Resource : \A d \in Assoc[r] :
          DueDependency(Last(dry), r, d) =>
              Reached(G, d) \/ \E g \in G : DueDependency(g, r, d)
    /\ dryFlags.members => \A r \in Resource : \A m \in Members[r] :
          DueMember(Last(dry), r, m) =>
              Reached(G, m) \/ \E g \in G : DueMember(g, r, m)
    /\ planned \subseteq planned'
    /\ \A r \in planned' \ planned :
          r \in Resource /\ \E g \in G : g.res = r /\ g.pc = "listAssoc"

LEMMA ForetellStep ==
    ASSUME dry \in Seq(DryFrame), ForetellInv, NEW G, Instead(G), PassedOn(G)
    PROVE  ForetellInv'
<1>1. Frames(dry) = Frames(Front(dry)) \cup {Last(dry)}
  BY LastFrame DEF Instead
<1>2. Frames(dry') = Frames(Front(dry)) \cup G /\ dryFlags' = dryFlags
  BY DEF Instead
<1>3. Available' = Available
  BY RecordsSame DEF Instead, vars
<1>4. \A d : Reached(G, d) => Foreseen(d)'
  BY <1>2, <1>3 DEF Reached, Foreseen
<1>5. \A d : Foreseen(d) => Foreseen(d)'
  BY <1>1, <1>2, <1>3, <1>4 DEF Foreseen, PassedOn
<1>6. SUFFICES ASSUME NEW r \in planned'
               PROVE  /\ r \in Resource
                      /\ dryFlags.deps => \A d \in Assoc[r] :
                            Foreseen(d)' \/ \E f \in Frames(dry') : DueDependency(f, r, d)
                      /\ dryFlags.members => \A m \in Members[r] :
                            Foreseen(m)' \/ \E f \in Frames(dry') : DueMember(f, r, m)
  BY <1>2 DEF ForetellInv
<1>7. CASE r \in planned
  <2>1. r \in Resource
    BY <1>7 DEF ForetellInv
  <2>2. ASSUME dryFlags.deps, NEW d \in Assoc[r]
        PROVE  Foreseen(d)' \/ \E f \in Frames(dry') : DueDependency(f, r, d)
    <3>1. Foreseen(d) \/ \E f \in Frames(dry) : DueDependency(f, r, d)
      BY <1>7, <2>2 DEF ForetellInv
    <3> QED  BY <1>1, <1>2, <1>4, <1>5, <2>1, <2>2, <3>1 DEF PassedOn
  <2>3. ASSUME dryFlags.members, NEW m \in Members[r]
        PROVE  Foreseen(m)' \/ \E f \in Frames(dry') : DueMember(f, r, m)
    <3>1. Foreseen(m) \/ \E f \in Frames(dry) : DueMember(f, r, m)
      BY <1>7, <2>3 DEF ForetellInv
    <3> QED  BY <1>1, <1>2, <1>4, <1>5, <2>1, <2>3, <3>1 DEF PassedOn
  <2> QED  BY <2>1, <2>2, <2>3
<1>8. CASE r \notin planned
  <2>1. r \in Resource /\ \E g \in Frames(dry') : g.res = r /\ g.pc = "listAssoc"
    BY <1>2, <1>8 DEF PassedOn
  <2> QED  BY <2>1 DEF DueDependency, DueMember
<1> QED  BY <1>7, <1>8

LEMMA MoveInstead ==
    ASSUME dry \in Seq(DryFrame), dry # <<>>, NEW g \in DryFrame, DryMove(g)
    PROVE  Instead({g})
<1>1. Front(dry) \in Seq(DryFrame)
  BY LastFrame
<1> QED  BY <1>1, AppendFrames DEF DryMove, Instead

LEMMA ReturnInstead ==
    ASSUME dry \in Seq(DryFrame), dry # <<>>, DryReturn
    PROVE  Instead({})
<1>1. Front(dry) \in Seq(DryFrame)
  BY LastFrame
<1> QED  BY <1>1 DEF DryReturn, Instead

\* A frame keeps its type.
LEMMA DryFrames ==
    ASSUME NEW f \in DryFrame
    PROVE  /\ f.res \in Resource \cup {NoResource} /\ f.todo \subseteq Resource
           /\ \A q \in {"listAssoc", "listMembers"} :
                 LET g == [f EXCEPT !.pc = q]
                 IN  g \in DryFrame /\ g.pc = q /\ g.res = f.res
           /\ \A q \in {"deps", "members"}, T \in SUBSET Resource :
                 LET g == [f EXCEPT !.pc = q, !.todo = T]
                 IN  g \in DryFrame /\ g.pc = q /\ g.res = f.res /\ g.todo = T
           /\ \A r \in Resource :
                 LET g == NewDryFrame(r) IN g \in DryFrame /\ g.pc = "lookup" /\ g.res = r
BY DEF DryFrame, NewDryFrame

ResourcesOf(F) == \A f \in F : f.pc # "batch" => f.res \in Resource

DryStackInv == DryTypeOK /\ ResourcesOf(Frames(dry))

\* An exception ends the dry run.
Aborted == dry' = <<>> /\ planned' = {} /\ UNCHANGED <<vars, dryFlags>>

LEMMA SkipPasses ==
    ASSUME DryStackInv, DrySkipMigrated
    PROVE  Instead({}) /\ PassedOn({})
<1>1. dry \in Seq(DryFrame) /\ dry # <<>> /\ Last(dry).pc = "lookup"
  BY DEF DryStackInv, DryTypeOK, DrySkipMigrated, DryAt
<1>2. Last(dry).res \in Resource /\ Last(dry).res \in Available
  BY <1>1, LastFrame DEF DryStackInv, ResourcesOf, DrySkipMigrated, Available
<1>3. Instead({}) /\ planned' = planned
  BY <1>1, ReturnInstead DEF DrySkipMigrated
<1> QED  BY <1>1, <1>2, <1>3 DEF PassedOn, Due, DueDependency, DueMember, Reached

LEMMA ListPasses ==
    ASSUME DryStackInv, DryList
    PROVE  \E g \in DryFrame : /\ Instead({g}) /\ PassedOn({g})
                               /\ g.res \in Resource /\ planned' = planned \cup {g.res}
<1> DEFINE g == [Last(dry) EXCEPT !.pc = "listAssoc"]
<1>1. dry \in Seq(DryFrame) /\ dry # <<>> /\ Last(dry).pc = "lookup"
  BY DEF DryStackInv, DryTypeOK, DryList, DryAt
<1>2. Last(dry) \in DryFrame /\ Last(dry).res \in Resource
  BY <1>1, LastFrame DEF DryStackInv, ResourcesOf
<1>3. g \in DryFrame /\ g.pc = "listAssoc" /\ g.res = Last(dry).res
  BY <1>2, DryFrames
<1>4. Instead({g}) /\ planned' = planned \cup {Last(dry).res}
  BY <1>1, <1>3, MoveInstead DEF DryList
<1>5. PassedOn({g})
  BY <1>1, <1>2, <1>3, <1>4 DEF PassedOn, Due, DueDependency, DueMember, Reached
<1> HIDE DEF g
<1> QED  BY <1>2, <1>3, <1>4, <1>5

LEMMA AssociatedPasses ==
    ASSUME DryStackInv, DryGetAssociated
    PROVE  \E g \in DryFrame : /\ Instead({g}) /\ PassedOn({g})
                               /\ g.res \in Resource /\ planned' = planned
<1> DEFINE T == IF dryFlags.deps THEN Pending(Last(dry).res) ELSE {}
           g == [Last(dry) EXCEPT !.pc = "deps", !.todo = T]
<1>1. dry \in Seq(DryFrame) /\ dry # <<>> /\ Last(dry).pc = "listAssoc"
  BY DEF DryStackInv, DryTypeOK, DryGetAssociated, DryAt
<1>2. Last(dry) \in DryFrame /\ Last(dry).res \in Resource
  BY <1>1, LastFrame DEF DryStackInv, ResourcesOf
<1>3. /\ T \in SUBSET Resource
      /\ dryFlags.deps => \A d \in Assoc[Last(dry).res] : d \in T \/ d \in Available
  BY <1>2, PendingAvailable
<1>4. DryMove(g) /\ planned' = planned
  BY DEF DryGetAssociated
<1> HIDE DEF T
<1>5. g \in DryFrame /\ g.pc = "deps" /\ g.res = Last(dry).res /\ g.todo = T
  BY <1>2, <1>3, DryFrames
<1> HIDE DEF g
<1>6. Instead({g})
  BY <1>1, <1>4, <1>5, MoveInstead
<1>7. PassedOn({g})
  BY <1>1, <1>3, <1>4, <1>5 DEF PassedOn, Due, DueDependency, DueMember, Reached
<1> QED  BY <1>2, <1>4, <1>5, <1>6, <1>7

LEMMA ListedPasses ==
    ASSUME DryStackInv, DryDependenciesListed
    PROVE  \E g \in DryFrame : /\ Instead({g}) /\ PassedOn({g})
                               /\ g.res \in Resource /\ planned' = planned
<1> DEFINE g == [Last(dry) EXCEPT !.pc = "listMembers"]
<1>1. dry \in Seq(DryFrame) /\ dry # <<>> /\ Last(dry).pc = "deps" /\ Last(dry).todo = {}
  BY DEF DryStackInv, DryTypeOK, DryDependenciesListed, DryAt
<1>2. Last(dry) \in DryFrame /\ Last(dry).res \in Resource
  BY <1>1, LastFrame DEF DryStackInv, ResourcesOf
<1>3. g \in DryFrame /\ g.pc = "listMembers" /\ g.res = Last(dry).res
  BY <1>2, DryFrames
<1>4. Instead({g}) /\ planned' = planned
  BY <1>1, <1>3, MoveInstead DEF DryDependenciesListed
<1>5. PassedOn({g})
  BY <1>1, <1>2, <1>3, <1>4 DEF PassedOn, Due, DueDependency, DueMember, Reached
<1> HIDE DEF g
<1> QED  BY <1>2, <1>3, <1>4, <1>5

LEMMA MembersPasses ==
    ASSUME DryStackInv, DryGetMembers
    PROVE  \E g \in DryFrame : /\ Instead({g}) /\ PassedOn({g})
                               /\ g.res \in Resource /\ planned' = planned
<1> DEFINE T == IF dryFlags.members THEN Members[Last(dry).res] ELSE {}
           g == [Last(dry) EXCEPT !.pc = "members", !.todo = T]
<1>1. dry \in Seq(DryFrame) /\ dry # <<>> /\ Last(dry).pc = "listMembers"
  BY DEF DryStackInv, DryTypeOK, DryGetMembers, DryAt
<1>2. Last(dry) \in DryFrame /\ Last(dry).res \in Resource
  BY <1>1, LastFrame DEF DryStackInv, ResourcesOf
<1>3. /\ T \in SUBSET Resource
      /\ dryFlags.members => T = Members[Last(dry).res]
  BY <1>2, ResourceAssumption
<1>4. DryMove(g) /\ planned' = planned
  BY DEF DryGetMembers
<1> HIDE DEF T
<1>5. g \in DryFrame /\ g.pc = "members" /\ g.res = Last(dry).res /\ g.todo = T
  BY <1>2, <1>3, DryFrames
<1> HIDE DEF g
<1>6. Instead({g})
  BY <1>1, <1>4, <1>5, MoveInstead
<1>7. PassedOn({g})
  BY <1>1, <1>3, <1>4, <1>5 DEF PassedOn, Due, DueDependency, DueMember, Reached
<1> QED  BY <1>2, <1>4, <1>5, <1>6, <1>7

LEMMA VisitPasses ==
    ASSUME DryStackInv, DryVisit
    PROVE  /\ planned' = planned
           /\ \E f, g \in DryFrame : /\ Instead({f, g}) /\ PassedOn({f, g})
                                     /\ ResourcesOf({f, g})
<1>1. /\ dry \in Seq(DryFrame) /\ dry # <<>> /\ Last(dry).pc \in {"batch", "deps", "members"}
      /\ UNCHANGED <<vars, dryFlags, planned>>
  BY DEF DryStackInv, DryTypeOK, DryVisit, DryLooping, DryAt
<1>2. /\ Last(dry) \in DryFrame /\ Front(dry) \in Seq(DryFrame)
      /\ Last(dry).pc # "batch" => Last(dry).res \in Resource
  BY <1>1, LastFrame DEF DryStackInv, ResourcesOf
<1>3. PICK r \in Last(dry).todo :
         dry' = Front(dry) \o <<[Last(dry) EXCEPT !.todo = @ \ {r}], NewDryFrame(r)>>
  BY DEF DryVisit
<1> DEFINE f == [Last(dry) EXCEPT !.todo = @ \ {r}]
           g == NewDryFrame(r)
<1>4. /\ f \in DryFrame /\ f.pc = Last(dry).pc /\ f.res = Last(dry).res
      /\ f.todo = Last(dry).todo \ {r}
  BY <1>2 DEF DryFrame
<1>5. r \in Resource /\ g \in DryFrame /\ g.pc = "lookup" /\ g.res = r
  BY <1>2, DryFrames
<1>6. dry' = Front(dry) \o <<f, g>>
  BY <1>3
<1> HIDE DEF f, g
<1>7. Instead({f, g})
  BY <1>1, <1>2, <1>4, <1>5, <1>6, TwoFrames DEF Instead
<1>8. PassedOn({f, g})
  <2>1. Due(g, r)
    BY <1>5 DEF Due
  <2>2. \A d : ~Due(Last(dry), d)
    BY <1>1 DEF Due
  <2>3. \A x, d : DueDependency(Last(dry), x, d) => d = r \/ DueDependency(f, x, d)
    BY <1>1, <1>4 DEF DueDependency
  <2>4. \A x, d : DueMember(Last(dry), x, d) => d = r \/ DueMember(f, x, d)
    BY <1>1, <1>4 DEF DueMember
  <2> QED  BY <1>1, <2>1, <2>2, <2>3, <2>4 DEF PassedOn, Reached
<1>9. ResourcesOf({f, g})
  BY <1>2, <1>4, <1>5 DEF ResourcesOf
<1> QED  BY <1>1, <1>4, <1>5, <1>7, <1>8, <1>9

LEMMA BatchPasses ==
    ASSUME DryStackInv, DrySkipInBatch
    PROVE  \E g \in DryFrame : /\ Instead({g}) /\ PassedOn({g})
                               /\ g.pc = "batch" /\ planned' = planned
<1>1. /\ dry \in Seq(DryFrame) /\ dry # <<>> /\ Last(dry).pc = "batch" /\ planned' = planned
  BY DEF DryStackInv, DryTypeOK, DrySkipInBatch, DryAt
<1>2. Last(dry) \in DryFrame
  BY <1>1, LastFrame
<1>3. PICK r \in Last(dry).todo : DryMove([Last(dry) EXCEPT !.todo = @ \ {r}])
  BY DEF DrySkipInBatch
<1> DEFINE g == [Last(dry) EXCEPT !.todo = @ \ {r}]
<1>4. g \in DryFrame /\ g.pc = Last(dry).pc
  BY <1>2 DEF DryFrame
<1>5. Instead({g})
  BY <1>1, <1>3, <1>4, MoveInstead
<1>6. PassedOn({g})
  BY <1>1 DEF PassedOn, Due, DueDependency, DueMember
<1> HIDE DEF g
<1> QED  BY <1>1, <1>4, <1>5, <1>6

LEMMA VisitedPasses ==
    ASSUME DryStackInv, DryVisited
    PROVE  Instead({}) /\ PassedOn({}) /\ planned' = planned
<1>1. /\ dry \in Seq(DryFrame) /\ dry # <<>> /\ planned' = planned /\ Last(dry).todo = {}
      /\ Last(dry).pc \in {"batch", "members"}
  BY DEF DryStackInv, DryTypeOK, DryVisited, DryAt
<1>2. Instead({})
  BY <1>1, ReturnInstead DEF DryVisited
<1> QED  BY <1>1, <1>2 DEF PassedOn, Due, DueDependency, DueMember

\* Every step of a dry run replaces its innermost frame and passes on what that
\* had still to come to, or ends it with an exception.
LEMMA DryStepPasses ==
    ASSUME DryStackInv, DryStep
    PROVE  \/ Aborted
           \/ /\ planned' \subseteq Resource
              /\ \E G : Instead(G) /\ PassedOn(G) /\ ResourcesOf(G)
<1>1. planned \subseteq Resource
  BY DEF DryStackInv, DryTypeOK
<1>2. ResourcesOf({}) /\ \A g : g.res \in Resource \/ g.pc = "batch" => ResourcesOf({g})
  BY DEF ResourcesOf
<1>3. CASE DryGetFails \/ DryTooDeep
  BY <1>3 DEF DryGetFails, DryTooDeep, DryAbort, Aborted
<1>4. CASE DrySkipMigrated \/ DryVisited
  BY <1>1, <1>2, <1>4, SkipPasses, VisitedPasses DEF DrySkipMigrated
<1>5. CASE DryList \/ DryGetAssociated \/ DryDependenciesListed \/ DryGetMembers
  <2>1. \E g \in DryFrame : /\ Instead({g}) /\ PassedOn({g}) /\ g.res \in Resource
                            /\ planned' \in {planned, planned \cup {g.res}}
    BY <1>5, ListPasses, AssociatedPasses, ListedPasses, MembersPasses
  <2> QED  BY <1>1, <1>2, <2>1
<1>6. CASE DryVisit
  BY <1>1, <1>6, VisitPasses
<1>7. CASE DrySkipInBatch
  BY <1>1, <1>2, <1>7, BatchPasses
<1> QED  BY <1>3, <1>4, <1>5, <1>6, <1>7 DEF DryStep

-----------------------------------------------------------------------------
(* The dry run and the manager.                                            *)

\* A command that the manager's invariants take no notice of.
LEMMA OnlyCounted ==
    ASSUME UNCHANGED <<db, source, dest, attached, stack, raising, opts>>, runs' \in Nat
    PROVE  /\ IInv => IInv'
           /\ LedgerInv => LedgerInv'
           /\ SingleInv => SingleInv'
<1>1. IInv => IInv'
  BY DEF IInv, TypeOK
<1>2. LedgerInv => LedgerInv'
  BY DEF LedgerInv, FramesHold, CleanupIsAsked, Exclusive, RemovedIsGone, RemovedIsMigrated,
     MigratedRecord
<1>3. SingleInv => SingleInv'
  <2>1. Available' = Available /\ Latest' = Latest
    BY RecordsSame
  <2>2. Busy' = Busy
    BY DEF Busy, IsMigrated, IsInProgress, Newest
  <2> QED  BY <2>1, <2>2 DEF SingleInv, Innermost, Idle, RecursionInv, FreshInv
<1> QED  BY <1>1, <1>2, <1>3

LEMMA DryRunStarts ==
    ASSUME IInv, StartDryRun
    PROVE  /\ UNCHANGED <<db, source, dest, attached, stack, raising, opts>> /\ runs' \in Nat
           /\ DryStackInv' /\ planned' = {}
<1>1. source \subseteq Resource /\ runs \in Nat
  BY DEF IInv, TypeOK
<1>2. /\ UNCHANGED <<db, source, dest, attached, stack, raising, opts>> /\ runs' \in Nat
      /\ dryFlags' \in Flags /\ planned' = {}
  BY <1>1, DryRunAssumption DEF StartDryRun, clouds
<1>3. \E g \in DryFrame : /\ dry' = <<g>>
                          /\ g.pc # "batch" => g.res \in Resource
  <2>1. CASE \E r \in Requested : dry' = <<NewDryFrame(r)>>
    <3>1. PICK r \in Requested : dry' = <<NewDryFrame(r)>>
      BY <2>1
    <3>2. NewDryFrame(r) \in DryFrame /\ NewDryFrame(r).res \in Resource
      BY ResourceAssumption DEF NewDryFrame, DryFrame
    <3> QED  BY <3>1, <3>2
  <2>2. CASE \E sel \in Batches :
                dry' = <<[pc |-> "batch", res |-> NoResource, todo |-> sel \cap source]>>
    BY <1>1, <2>2 DEF DryFrame
  <2> QED  BY <2>1, <2>2 DEF StartDryRun
<1>4. DryStackInv'
  BY <1>2, <1>3, OneFrame DEF DryStackInv, DryTypeOK, ResourcesOf
<1> QED  BY <1>2, <1>4

LEMMA DryRunKeepsTypes ==
    ASSUME IInv, DryStackInv, [DryRunNext]_allVars
    PROVE  IInv' /\ DryStackInv'
<1>1. CASE UNCHANGED allVars
  BY <1>1 DEF allVars, dryVars, vars, IInv, TypeOK, DryStackInv, DryTypeOK
<1>2. CASE Next /\ UNCHANGED dryVars
  <2>1. IInv'
    BY <1>2, NextOK
  <2> QED  BY <1>2, <2>1 DEF dryVars, DryStackInv, DryTypeOK
<1>3. CASE StartDryRun
  BY <1>3, DryRunStarts, OnlyCounted
<1>4. CASE DryStep
  <2>1. UNCHANGED <<vars, dryFlags>>
    BY <1>4, DryStepPasses DEF Aborted, Instead
  <2>2. IInv'
    BY <2>1, NextOK
  <2>3. CASE Aborted
    <3>1. dry' \in Seq(DryFrame) /\ Frames(dry') = {} /\ planned' = {} /\ dryFlags' = dryFlags
      BY <2>3, EmptyFrames, EmptySeq DEF Aborted
    <3> QED  BY <2>2, <3>1 DEF DryStackInv, DryTypeOK, ResourcesOf
  <2>4. CASE /\ planned' \subseteq Resource
             /\ \E G : Instead(G) /\ PassedOn(G) /\ ResourcesOf(G)
    <3>1. PICK G : Instead(G) /\ ResourcesOf(G)
      BY <2>4
    <3>2. Frames(Front(dry)) \subseteq Frames(dry)
      BY <3>1, LastFrame DEF Instead, DryStackInv, DryTypeOK
    <3> QED  BY <2>2, <2>4, <3>1, <3>2 DEF Instead, DryStackInv, DryTypeOK, ResourcesOf
  <2> QED  BY <1>4, <2>2, <2>3, <2>4, DryStepPasses
<1> QED  BY <1>1, <1>2, <1>3, <1>4 DEF DryRunNext

LEMMA DryRunInitially ==
    ASSUME DryRunInit
    PROVE  IInv /\ DryStackInv /\ ForetellInv
<1>1. IInv
  BY InitOK DEF DryRunInit
<1> QED  BY <1>1, EmptyFrames, EmptySeq
     DEF DryRunInit, DryStackInv, DryTypeOK, ResourcesOf, ForetellInv, Flags

\* The dry run's call stack, list and flags keep their types, whatever other
\* commands do before and after it.
THEOREM DryRunTypeCorrect == DryRunSpec => []DryTypeOK
<1>1. DryRunInit => IInv /\ DryStackInv
  BY DryRunInitially
<1>2. IInv /\ DryStackInv /\ [DryRunNext]_allVars => IInv' /\ DryStackInv'
  BY DryRunKeepsTypes
<1>3. DryStackInv => DryTypeOK
  BY DEF DryStackInv
<1> QED  BY <1>1, <1>2, <1>3, PTL DEF DryRunSpec

\* What is migrated stays so.
LEMMA AvailableGrows ==
    ASSUME OneAtATime, OnlyMigrations, IInv, LedgerInv, SingleInv, [Next]_vars
    PROVE  Available \subseteq Available'
<1>1. CASE UNCHANGED db
  BY <1>1, RecordsSame
<1>2. ASSUME NEW p \in Proc, Step(p)  PROVE Available \subseteq Available'
  BY <1>2, FreshKinds, StepKinds DEF RecordStep, SingleInv, LedgerInv, StacksLedger
<1>3. CASE \E p \in Proc : StartMigration(p) \/ StartBatch(p) \/ StartCleanup(p) \/ Crash(p)
  BY <1>1, <1>3 DEF StartMigration, StartBatch, StartCleanup, Invoke, Crash
<1> QED  BY <1>1, <1>2, <1>3, NobodyRewrites DEF Next, vars

LEMMA ForetellNext ==
    ASSUME OneAtATime, OnlyMigrations, IInv, LedgerInv, SingleInv, DryStackInv, ForetellInv,
           [DryRunNext]_allVars
    PROVE  LedgerInv' /\ SingleInv' /\ ForetellInv'
<1>1. ASSUME [Next]_vars, UNCHANGED dryVars  PROVE LedgerInv' /\ SingleInv' /\ ForetellInv'
  <2>1. LedgerInv' /\ SingleInv'
    BY <1>1, NextOK, LedgerNext, SingleNext DEF LedgerInv, StacksLedger
  <2>2. Available \subseteq Available'
    BY <1>1, AvailableGrows
  <2>3. \A d : Foreseen(d) => Foreseen(d)'
    BY <1>1, <2>2 DEF Foreseen, dryVars
  <2> QED  BY <1>1, <2>1, <2>3 DEF ForetellInv, dryVars
<1>2. CASE StartDryRun
  BY <1>2, DryRunStarts, OnlyCounted DEF ForetellInv
<1>3. CASE DryStep
  <2>1. UNCHANGED vars
    BY <1>3, DryStepPasses DEF Aborted, Instead
  <2>2. LedgerInv' /\ SingleInv'
    BY <2>1, NextOK, LedgerNext, SingleNext DEF LedgerInv, StacksLedger
  <2>3. ForetellInv'
    <3>1. CASE Aborted
      BY <3>1 DEF Aborted, ForetellInv
    <3>2. CASE \E G : Instead(G) /\ PassedOn(G)
      BY <3>2, ForetellStep DEF DryStackInv, DryTypeOK
    <3> QED  BY <1>3, <3>1, <3>2, DryStepPasses
  <2> QED  BY <2>2, <2>3
<1> QED  BY <1>1, <1>2, <1>3 DEF DryRunNext, allVars

\* "to determine the resources that are going to be migrated": what
\* _perform_individual_migration_dry_run has listed when it ends is all that
\* migrating it will come to, for any relations of dependencies and members,
\* cyclic ones included, and stays so while other commands follow, as long as
\* one runs at a time and nobody rewrites the records.
THEOREM DryRunIsComplete ==
    ASSUME OneAtATime, OnlyMigrations
    PROVE  DryRunSpec => []DryRunForetells
<1>1. DryRunInit => IInv /\ LedgerInv /\ SingleInv /\ DryStackInv /\ ForetellInv
  BY DryRunInitially, LedgerInit, SingleInit DEF DryRunInit
<1>2. IInv /\ LedgerInv /\ SingleInv /\ DryStackInv /\ ForetellInv /\ [DryRunNext]_allVars
         => IInv' /\ LedgerInv' /\ SingleInv' /\ DryStackInv' /\ ForetellInv'
  BY DryRunKeepsTypes, ForetellNext
<1>3. ForetellInv => DryRunForetells
  BY EmptyFrames DEF ForetellInv, Foreseen, DryRunForetells, Available
<1> QED  BY <1>1, <1>2, <1>3, PTL DEF DryRunSpec
=============================================================================
