--------------------------- MODULE ManagerProofs ---------------------------
(***************************************************************************)
(* The type invariant of the migration manager and the promise of its      *)
(* migrated statuses, for any hierarchy of resources, any number of        *)
(* concurrent invocations, any failures and crashes.                       *)
(***************************************************************************)
EXTENDS ManagerProperties, SequenceTheorems, TLAPS

-----------------------------------------------------------------------------
(* Sequences.                                                              *)

\* Taking the last element off a sequence.
LEMMA FrontLast ==
    ASSUME NEW S, NEW s \in Seq(S), s # <<>>
    PROVE  /\ Front(s) \in Seq(S)
           /\ Last(s) = s[Len(s)]
           /\ Len(s) \in DOMAIN s
           /\ \A k \in DOMAIN Front(s) : k \in DOMAIN s /\ Front(s)[k] = s[k]
<1>1. /\ Len(s) \in Nat \ {0}
      /\ DOMAIN s = 1..Len(s)
      /\ \A k \in 1..Len(s) : s[k] \in S
  BY EmptySeq, LenProperties, ElementOfSeq
<1>2. Front(s) = SubSeq(s, 1, Len(s) - 1)
  BY DEF Front
<1>3. \A k \in 1..Len(s) - 1 : s[k] \in S
  BY <1>1
<1>4. /\ SubSeq(s, 1, Len(s) - 1) \in Seq(S)
      /\ Len(SubSeq(s, 1, Len(s) - 1)) = Len(s) - 1
      /\ \A k \in 1..Len(s) - 1 : SubSeq(s, 1, Len(s) - 1)[k] = s[k]
  <2>1. Len(s) - 1 \in Int
    BY <1>1
  <2> QED  BY <1>1, <1>3, <2>1, SubSeqProperties
<1>5. DOMAIN SubSeq(s, 1, Len(s) - 1) = 1..Len(s) - 1
  BY <1>4, LenProperties
<1> QED  BY <1>1, <1>2, <1>4, <1>5 DEF Last

\* Each element of an extended sequence is the new one or an old one.
LEMMA AppendAll ==
    ASSUME NEW S, NEW s \in Seq(S), NEW e \in S
    PROVE  /\ Append(s, e) \in Seq(S)
           /\ \A k \in DOMAIN Append(s, e) :
                 Append(s, e)[k] = e \/ (k \in DOMAIN s /\ Append(s, e)[k] = s[k])
           /\ \A k \in DOMAIN s : k \in DOMAIN Append(s, e) /\ Append(s, e)[k] = s[k]
           /\ Len(s) + 1 \in DOMAIN Append(s, e)
           /\ Append(s, e)[Len(s) + 1] = e
<1>1. /\ Append(s, e) \in Seq(S)
      /\ Len(Append(s, e)) = Len(s) + 1
      /\ \A k \in 1..Len(s) : Append(s, e)[k] = s[k]
      /\ Append(s, e)[Len(s) + 1] = e
  BY AppendProperties
<1>2. /\ Len(s) \in Nat
      /\ DOMAIN s = 1..Len(s)
      /\ DOMAIN Append(s, e) = 1..Len(s) + 1
  BY <1>1, LenProperties
<1> QED  BY <1>1, <1>2

\* Replacing one element of a sequence.
LEMMA UpdateOne ==
    ASSUME NEW S, NEW s \in Seq(S), NEW i, NEW e, i \in DOMAIN s => e \in S
    PROVE  /\ [s EXCEPT ![i] = e] \in Seq(S)
           /\ DOMAIN [s EXCEPT ![i] = e] = DOMAIN s
           /\ \A j \in DOMAIN s : [s EXCEPT ![i] = e][j] = IF j = i THEN e ELSE s[j]
<1>1. DOMAIN s = 1..Len(s) /\ s \in [1..Len(s) -> S]
  BY LenProperties
<1>2. CASE i \in DOMAIN s
  BY <1>1, <1>2, ExceptSeq
<1>3. CASE i \notin DOMAIN s
  <2>1. [s EXCEPT ![i] = e] = s
    BY <1>1, <1>3
  <2> QED  BY <2>1, <1>3
<1> QED  BY <1>2, <1>3

-----------------------------------------------------------------------------
(* The database and the destination cloud only grow: no record changes its *)
(* resource, nor its destination other than to an object of that resource  *)
(* that exists.                                                            *)

Grows(d, o, d2, o2) ==
    /\ o \subseteq o2
    /\ \A i \in DOMAIN d :
          /\ i \in DOMAIN d2
          /\ d2[i].source = d[i].source
          /\ d2[i].dest = d[i].dest \/ Delivered(i, d2, o2)

\* What has been delivered stays delivered.
LEMMA DeliveredKept ==
    ASSUME NEW d, NEW o, NEW d2, NEW o2, Grows(d, o, d2, o2),
           NEW i, Delivered(i, d, o)
    PROVE  Delivered(i, d2, o2)
BY DEF Grows, Delivered

\* What a frame or a call stack relies on stays true.
LEMMA FrameKept ==
    ASSUME NEW d, NEW o, NEW d2, NEW o2, Grows(d, o, d2, o2),
           NEW f, FrameOK(f, d, o)
    PROVE  FrameOK(f, d2, o2)
<1>1. f.pc \in ParentPc \ {"lookup", "create"} =>
         f.rec \in DOMAIN d2 /\ d2[f.rec].source = f.res
  BY DEF Grows, FrameOK
<1>2. f.pc = "saveDest" => NewObject(f) \in o2
  BY DEF Grows, FrameOK
<1>3. f.pc \in MigratedPc => Delivered(f.rec, d2, o2)
  BY DeliveredKept DEF FrameOK
<1>4. \A i \in f.queue \cup f.got : Delivered(i, d2, o2)
  BY DeliveredKept DEF FrameOK
<1> QED  BY <1>1, <1>2, <1>3, <1>4 DEF FrameOK

LEMMA StackKept ==
    ASSUME NEW d, NEW o, NEW d2, NEW o2, Grows(d, o, d2, o2),
           NEW s, StackOK(s, d, o)
    PROVE  StackOK(s, d2, o2)
BY FrameKept DEF StackOK

-----------------------------------------------------------------------------
(* Database operations.                                                    *)

LEMMA Unchanged ==
    ASSUME NEW d, NEW o
    PROVE  Grows(d, o, d, o)
BY DEF Grows

\* The handler adds an object to the destination.
LEMMA ObjectAdded ==
    ASSUME NEW d, NEW o, NEW o2, o \subseteq o2, DbOK(d, o)
    PROVE  DbOK(d, o2) /\ Grows(d, o, d, o2)
BY DEF DbOK, Delivered, Grows

\* A migrated status is given to no record but a delivered one.
LEMMA StatusSet ==
    ASSUME NEW d, NEW o, DbOK(d, o), NEW i, NEW s \in Status,
           s \in LIST_STATUS_MIGRATED => Delivered(i, d, o)
    PROVE  LET d2 == [d EXCEPT ![i].status = s]
           IN  DbOK(d2, o) /\ Grows(d, o, d2, o)
<1> DEFINE e == [d[i] EXCEPT !.status = s]
           d2 == [d EXCEPT ![i].status = s]
<1>1. \A j \in DOMAIN d : d[j] \in Migration
  BY LenProperties, ElementOfSeq DEF DbOK
<1>2. i \in DOMAIN d =>
         e \in Migration /\ e.source = d[i].source /\ e.dest = d[i].dest /\ e.status = s
  BY <1>1 DEF Migration
<1>3. d2 = [d EXCEPT ![i] = e]
  OBVIOUS
<1>4. /\ d2 \in Seq(Migration)
      /\ DOMAIN d2 = DOMAIN d
      /\ \A j \in DOMAIN d : d2[j] = IF j = i THEN e ELSE d[j]
  BY <1>2, <1>3, UpdateOne DEF DbOK
<1>5. \A j \in DOMAIN d : d2[j].source = d[j].source /\ d2[j].dest = d[j].dest
  BY <1>2, <1>4
<1>6. \A j \in DOMAIN d : Delivered(j, d, o) => Delivered(j, d2, o)
  BY <1>4, <1>5 DEF Delivered
<1>7. \A j \in DOMAIN d2 :
         d2[j].status \in LIST_STATUS_MIGRATED => Delivered(j, d2, o)
  BY <1>2, <1>4, <1>6 DEF DbOK
<1> QED  BY <1>4, <1>5, <1>7 DEF DbOK, Grows

\* The source_removed flag says nothing of the destination.
LEMMA RemovedSet ==
    ASSUME NEW d, NEW o, DbOK(d, o), NEW i
    PROVE  LET d2 == [d EXCEPT ![i].removed = TRUE]
           IN  DbOK(d2, o) /\ Grows(d, o, d2, o)
<1> DEFINE e == [d[i] EXCEPT !.removed = TRUE]
           d2 == [d EXCEPT ![i].removed = TRUE]
<1>1. \A j \in DOMAIN d : d[j] \in Migration
  BY LenProperties, ElementOfSeq DEF DbOK
<1>2. i \in DOMAIN d =>
         e \in Migration /\ e.source = d[i].source /\ e.dest = d[i].dest
           /\ e.status = d[i].status
  BY <1>1 DEF Migration
<1>3. d2 = [d EXCEPT ![i] = e]
  OBVIOUS
<1>4. /\ d2 \in Seq(Migration)
      /\ DOMAIN d2 = DOMAIN d
      /\ \A j \in DOMAIN d : d2[j] = IF j = i THEN e ELSE d[j]
  BY <1>2, <1>3, UpdateOne DEF DbOK
<1>5. \A j \in DOMAIN d : /\ d2[j].source = d[j].source
                          /\ d2[j].dest = d[j].dest
                          /\ d2[j].status = d[j].status
  BY <1>2, <1>4
<1>6. \A j \in DOMAIN d : Delivered(j, d, o) => Delivered(j, d2, o)
  BY <1>4, <1>5 DEF Delivered
<1>7. \A j \in DOMAIN d2 :
         d2[j].status \in LIST_STATUS_MIGRATED => Delivered(j, d2, o)
  BY <1>4, <1>5, <1>6 DEF DbOK
<1> QED  BY <1>4, <1>5, <1>7 DEF DbOK, Grows

\* A record is given an existing object of its resource as destination.
LEMMA DestinationSet ==
    ASSUME NEW d, NEW o, DbOK(d, o), NEW i \in DOMAIN d,
           NEW x \in Object, x \in o, x.of = d[i].source
    PROVE  LET d2 == [d EXCEPT ![i].dest = x]
           IN  /\ DbOK(d2, o)
               /\ Grows(d, o, d2, o)
               /\ Delivered(i, d2, o)
<1> DEFINE e == [d[i] EXCEPT !.dest = x]
           d2 == [d EXCEPT ![i].dest = x]
<1>1. \A j \in DOMAIN d : d[j] \in Migration
  BY LenProperties, ElementOfSeq DEF DbOK
<1>2. e \in Migration /\ e.source = d[i].source /\ e.dest = x
  BY <1>1 DEF Migration
<1>3. d2 = [d EXCEPT ![i] = e]
  OBVIOUS
<1>4. /\ d2 \in Seq(Migration)
      /\ DOMAIN d2 = DOMAIN d
      /\ \A j \in DOMAIN d : d2[j] = IF j = i THEN e ELSE d[j]
  BY <1>2, <1>3, UpdateOne DEF DbOK
<1>5. Delivered(i, d2, o)
  BY <1>2, <1>4 DEF Delivered
<1>6. \A j \in DOMAIN d : Delivered(j, d, o) => Delivered(j, d2, o)
  BY <1>4, <1>5 DEF Delivered
<1>7. \A j \in DOMAIN d2 :
         d2[j].status \in LIST_STATUS_MIGRATED => Delivered(j, d2, o)
  BY <1>4, <1>5, <1>6 DEF DbOK
<1>8. Grows(d, o, d2, o)
  BY <1>2, <1>4, <1>5 DEF Grows
<1> QED  BY <1>4, <1>5, <1>7, <1>8 DEF DbOK

\* A record is created: of a new migration, or of one done elsewhere.
LEMMA RecordCreated ==
    ASSUME NEW d, NEW o, DbOK(d, o), NEW m \in Migration,
           \/ m.status \notin LIST_STATUS_MIGRATED
           \/ m.dest \in o /\ m.dest.of = m.source
    PROVE  /\ DbOK(Append(d, m), o)
           /\ Grows(d, o, Append(d, m), o)
           /\ Len(d) + 1 \in Nat
           /\ Len(d) + 1 \in DOMAIN Append(d, m)
           /\ Append(d, m)[Len(d) + 1] = m
<1> DEFINE d2 == Append(d, m)
<1>1. /\ d2 \in Seq(Migration)
      /\ \A k \in DOMAIN d2 : d2[k] = m \/ (k \in DOMAIN d /\ d2[k] = d[k])
      /\ \A k \in DOMAIN d : k \in DOMAIN d2 /\ d2[k] = d[k]
      /\ Len(d) + 1 \in DOMAIN d2
      /\ d2[Len(d) + 1] = m
  BY AppendAll DEF DbOK
<1>2. Grows(d, o, d2, o)
  BY <1>1 DEF Grows
<1>3. \A k \in DOMAIN d2 :
         d2[k].status \in LIST_STATUS_MIGRATED => Delivered(k, d2, o)
  <2> SUFFICES ASSUME NEW k \in DOMAIN d2, d2[k].status \in LIST_STATUS_MIGRATED
               PROVE  Delivered(k, d2, o)
    OBVIOUS
  <2>1. CASE d2[k] = m
    BY <2>1 DEF Delivered
  <2>2. CASE k \in DOMAIN d /\ d2[k] = d[k]
    BY <1>2, <2>2, DeliveredKept DEF DbOK
  <2> QED  BY <1>1, <2>1, <2>2
<1>4. Len(d) + 1 \in Nat
  BY LenProperties DEF DbOK
<1> QED  BY <1>1, <1>2, <1>3, <1>4 DEF DbOK

\* Records are archived or restored.
LEMMA ArchivedSet ==
    ASSUME NEW d, NEW o, DbOK(d, o), NEW rows, NEW flag \in BOOLEAN
    PROVE  LET d2 == [i \in DOMAIN d |-> IF i \in rows THEN [d[i] EXCEPT !.archived = flag]
                                                      ELSE d[i]]
           IN  DbOK(d2, o) /\ Grows(d, o, d2, o)
<1> DEFINE d2 == [i \in DOMAIN d |-> IF i \in rows THEN [d[i] EXCEPT !.archived = flag]
                                                  ELSE d[i]]
<1>1. Len(d) \in Nat /\ DOMAIN d = 1..Len(d) /\ \A j \in DOMAIN d : d[j] \in Migration
  BY LenProperties, ElementOfSeq DEF DbOK
<1>2. DOMAIN d2 = DOMAIN d
  OBVIOUS
<1>3. \A j \in DOMAIN d :
         /\ d2[j] \in Migration
         /\ d2[j].source = d[j].source /\ d2[j].dest = d[j].dest
         /\ d2[j].status = d[j].status
  BY <1>1 DEF Migration
<1>4. d2 \in [1..Len(d) -> Migration]
  BY <1>1, <1>3
<1> HIDE DEF d2
<1>5. d2 \in Seq(Migration)
  BY <1>1, <1>4, SeqDef
<1>6. \A j \in DOMAIN d : Delivered(j, d, o) => Delivered(j, d2, o)
  BY <1>2, <1>3 DEF Delivered
<1>7. \A j \in DOMAIN d2 :
         d2[j].status \in LIST_STATUS_MIGRATED => Delivered(j, d2, o)
  BY <1>2, <1>3, <1>6 DEF DbOK
<1>8. DbOK(d2, o) /\ Grows(d, o, d2, o)
  BY <1>2, <1>3, <1>5, <1>7 DEF DbOK, Grows
<1> QED  BY <1>8 DEF d2

-----------------------------------------------------------------------------
(* Call stacks.                                                            *)

LEMMA StackTop ==
    ASSUME NEW d, NEW o, NEW s, StackOK(s, d, o), s # <<>>
    PROVE  /\ Last(s) \in Frame
           /\ FrameOK(Last(s), d, o)
           /\ StackOK(Front(s), d, o)
<1>1. s \in Seq(Frame)
  BY DEF StackOK
<1>2. /\ Front(s) \in Seq(Frame)
      /\ Last(s) = s[Len(s)]
      /\ Len(s) \in DOMAIN s
      /\ \A k \in DOMAIN Front(s) : k \in DOMAIN s /\ Front(s)[k] = s[k]
  BY <1>1, FrontLast
<1>3. Last(s) \in Frame
  BY <1>1, <1>2, LenProperties, ElementOfSeq
<1> QED  BY <1>2, <1>3 DEF StackOK

LEMMA StackPushed ==
    ASSUME NEW d, NEW o, NEW s, StackOK(s, d, o),
           NEW f \in Frame, FrameOK(f, d, o)
    PROVE  StackOK(Append(s, f), d, o)
BY AppendAll DEF StackOK

LEMMA StackEmpty ==
    ASSUME NEW d, NEW o
    PROVE  StackOK(<<>>, d, o)
BY EmptySeq DEF StackOK

-----------------------------------------------------------------------------
(* Steps of a process.                                                     *)

\* The invariant of the variables other than the call stacks.
DataOK ==
    /\ DbOK(db, dest)
    /\ source \in SUBSET Resource
    /\ dest \in SUBSET Object
    /\ attached \in SUBSET (Object \X Object)
    /\ raising \in [Proc -> BOOLEAN]
    /\ opts \in [Proc -> Flags]
    /\ runs \in Nat

StacksOK ==
    /\ stack \in [Proc -> Seq(Frame)]
    /\ \A p \in Proc : StackOK(stack[p], db, dest)

LEMMA IInvParts ==
    /\ IInv <=> DataOK /\ StacksOK
    /\ IInv' <=> DataOK' /\ StacksOK'
BY DEF IInv, TypeOK, DataOK, StacksOK, DbOK

LEMMA TopOK ==
    ASSUME StacksOK, NEW p \in Proc, ~Idle(p)
    PROVE  /\ Top(p) \in Frame
           /\ FrameOK(Top(p), db, dest)
           /\ StackOK(Front(stack[p]), db, dest)
           /\ Top(p) = Last(stack[p])
<1>1. StackOK(stack[p], db, dest) /\ stack[p] # <<>>
  BY DEF StacksOK, Idle
<1> QED  BY <1>1, StackTop DEF Top

\* One process replaces its stack while the database and the destination grow.
LEMMA StackStep ==
    ASSUME StacksOK, NEW p \in Proc, NEW t,
           stack' = [stack EXCEPT ![p] = t],
           Grows(db, dest, db', dest'), StackOK(t, db', dest')
    PROVE  StacksOK'
<1>1. t \in Seq(Frame)
  BY DEF StackOK
<1>2. stack' \in [Proc -> Seq(Frame)]
  BY <1>1 DEF StacksOK
<1>3. ASSUME NEW q \in Proc
      PROVE  StackOK(stack'[q], db', dest')
  <2>1. CASE q = p
    BY <2>1 DEF StacksOK
  <2>2. CASE q # p
    <3>1. stack'[q] = stack[q] /\ StackOK(stack[q], db, dest)
      BY <2>2 DEF StacksOK
    <3> QED  BY <3>1, StackKept
  <2> QED  BY <2>1, <2>2
<1> QED  BY <1>2, <1>3 DEF StacksOK

LEMMA GotoOK ==
    ASSUME StacksOK, NEW p \in Proc, ~Idle(p),
           NEW f \in Frame, Goto(p, f),
           Grows(db, dest, db', dest'), FrameOK(f, db', dest')
    PROVE  StacksOK'
<1>1. StackOK(Front(stack[p]), db', dest')
  BY TopOK, StackKept
<1>2. StackOK(Append(Front(stack[p]), f), db', dest')
  BY <1>1, StackPushed
<1>3. stack' = [stack EXCEPT ![p] = Append(Front(stack[p]), f)]
  BY DEF Goto
<1> QED  BY <1>2, <1>3, StackStep

LEMMA MoveOK ==
    ASSUME IInv, NEW p \in Proc, ~Idle(p),
           NEW f \in Frame, Move(p, f), FrameOK(f, db, dest)
    PROVE  IInv'
<1>1. db' = db /\ dest' = dest /\ Goto(p, f) /\ DataOK'
  BY IInvParts DEF Move, DataOK, clouds, invocation
<1>2. Grows(db, dest, db', dest') /\ FrameOK(f, db', dest')
  BY <1>1, Unchanged
<1>3. StacksOK'
  BY <1>1, <1>2, IInvParts, GotoOK
<1> QED  BY <1>1, <1>3, IInvParts

LEMMA CallOK ==
    ASSUME IInv, NEW p \in Proc, ~Idle(p),
           NEW f \in Frame, NEW g \in Frame, Call(p, f, g),
           FrameOK(f, db, dest), FrameOK(g, db, dest)
    PROVE  IInv'
<1>1. db' = db /\ dest' = dest /\ DataOK'
  BY IInvParts DEF Call, DataOK, clouds, invocation
<1>2. Grows(db, dest, db', dest')
  BY <1>1, Unchanged
<1>3. StackOK(Front(stack[p]), db, dest)
  BY IInvParts, TopOK
<1>4. StackOK(Append(Append(Front(stack[p]), f), g), db', dest')
  BY <1>1, <1>3, StackPushed
<1>5. stack' = [stack EXCEPT ![p] = Append(Append(Front(stack[p]), f), g)]
  BY DEF Call
<1>6. StacksOK'
  BY <1>2, <1>4, <1>5, IInvParts, StackStep
<1> QED  BY <1>1, <1>6, IInvParts

LEMMA RaiseOK ==
    ASSUME StacksOK, NEW p \in Proc, ~Idle(p), Raise(p),
           Grows(db, dest, db', dest')
    PROVE  StacksOK'
<1>1. StackOK(Front(stack[p]), db', dest')
  BY TopOK, StackKept
<1>2. stack' = [stack EXCEPT ![p] = Front(stack[p])]
  BY DEF Raise
<1> QED  BY <1>1, <1>2, StackStep

-----------------------------------------------------------------------------
(* Call frames.                                                            *)

\* The frame p moves on: what becomes of the fields of f other than those a
\* step sets.
LEMMA FrameFields ==
    ASSUME NEW f \in Frame
    PROVE  /\ f.rec \in Nat /\ f.cur \in Nat /\ f.cleanup \in BOOLEAN
           /\ f.todo \in SUBSET Resource
           /\ f.queue \in SUBSET Nat /\ f.got \in SUBSET Nat
           /\ f.pc \notin {"batch", "sweep"} => f.res \in Resource
           /\ \A q \in ParentPc \cup MigratedPc :
                 f.pc \notin {"batch", "sweep"} => [f EXCEPT !.pc = q] \in Frame
           /\ \A t \in SUBSET Resource : [f EXCEPT !.todo = t] \in Frame
           /\ \A s \in SUBSET Nat : [f EXCEPT !.queue = s] \in Frame
           /\ \A s \in SUBSET Nat : [f EXCEPT !.got = s] \in Frame
           /\ \A n \in Nat : [f EXCEPT !.rec = n] \in Frame
           /\ \A n \in Nat : [f EXCEPT !.cur = n] \in Frame
<1>1. CASE f \in CallFrame
  BY <1>1 DEF Frame, CallFrame, LoopFrame, FrameOf, ParentPc, MigratedPc
<1>2. CASE f \in LoopFrame
  BY <1>2 DEF Frame, CallFrame, LoopFrame, FrameOf, ParentPc, MigratedPc
<1> QED  BY <1>1, <1>2 DEF Frame

\* A call starts with nothing but its arguments.
LEMMA NewCall ==
    ASSUME NEW r \in Resource, NEW c \in BOOLEAN, NEW d, NEW o
    PROVE  /\ NewFrame("lookup", r, c) \in Frame
           /\ FrameOK(NewFrame("lookup", r, c), d, o)
BY DEF NewFrame, Frame, CallFrame, FrameOf, ParentPc, MigratedPc, FrameOK

\* The other fields of a frame when one or two of them change.
LEMMA FrameUpdates ==
    ASSUME NEW f \in Frame
    PROVE  /\ \A q : LET g == [f EXCEPT !.pc = q] IN
                 /\ g.pc = q /\ g.res = f.res /\ g.rec = f.rec
                 /\ g.queue = f.queue /\ g.got = f.got
           /\ \A t : LET g == [f EXCEPT !.todo = t] IN
                 /\ g.pc = f.pc /\ g.res = f.res /\ g.rec = f.rec
                 /\ g.queue = f.queue /\ g.got = f.got
           /\ \A i : LET g == [f EXCEPT !.cur = i] IN
                 /\ g.pc = f.pc /\ g.res = f.res /\ g.rec = f.rec
                 /\ g.queue = f.queue /\ g.got = f.got
           /\ \A s : LET g == [f EXCEPT !.queue = s] IN
                 /\ g.pc = f.pc /\ g.res = f.res /\ g.rec = f.rec
                 /\ g.queue = s /\ g.got = f.got
           /\ \A s : LET g == [f EXCEPT !.got = s] IN
                 /\ g.pc = f.pc /\ g.res = f.res /\ g.rec = f.rec
                 /\ g.queue = f.queue /\ g.got = s
           /\ \A i : LET g == [f EXCEPT !.rec = i] IN
                 /\ g.pc = f.pc /\ g.res = f.res /\ g.rec = i
                 /\ g.queue = f.queue /\ g.got = f.got
<1>1. CASE f \in CallFrame
  BY <1>1 DEF CallFrame, FrameOf
<1>2. CASE f \in LoopFrame
  BY <1>2 DEF LoopFrame, FrameOf
<1> QED  BY <1>1, <1>2 DEF Frame

\* FrameOK depends on four fields of the frame, the loop variables among them.
LEMMA SameFrame ==
    ASSUME NEW d, NEW o, NEW f, NEW g, FrameOK(f, d, o),
           g.pc = f.pc, g.res = f.res, g.rec = f.rec,
           \A i \in g.queue \cup g.got : Delivered(i, d, o)
    PROVE  FrameOK(g, d, o)
<1>1. NewObject(g) = NewObject(f)
  BY DEF NewObject
<1> QED  BY <1>1 DEF FrameOK

\* A frame that visits fewer resources, or more.
LEMMA TodoOK ==
    ASSUME NEW d, NEW o, NEW f \in Frame, FrameOK(f, d, o),
           NEW t \in SUBSET Resource
    PROVE  [f EXCEPT !.todo = t] \in Frame /\ FrameOK([f EXCEPT !.todo = t], d, o)
<1> DEFINE g == [f EXCEPT !.todo = t]
<1>1. g \in Frame
  BY FrameFields
<1>2. /\ g.pc = f.pc /\ g.res = f.res /\ g.rec = f.rec
      /\ g.queue = f.queue /\ g.got = f.got
  BY FrameUpdates
<1> HIDE DEF g
<1>3. \A i \in g.queue \cup g.got : Delivered(i, d, o)
  BY <1>2 DEF FrameOK
<1>4. FrameOK(g, d, o)
  BY <1>2, <1>3, SameFrame
<1> QED  BY <1>1, <1>4 DEF g

\* A frame that goes from pc to q without anything else changing.
LEMMA PcOK ==
    ASSUME NEW d, NEW o, NEW f \in Frame, FrameOK(f, d, o),
           f.pc \notin {"batch", "sweep"}, NEW q \in ParentPc \cup MigratedPc,
           \/ q \in {"lookup", "create"}
           \/ f.pc \in ParentPc \ {"lookup", "create"} /\ q \in {"assoc", "deps", "perform"}
           \/ f.pc \in MigratedPc /\ q \in MigratedPc
    PROVE  [f EXCEPT !.pc = q] \in Frame /\ FrameOK([f EXCEPT !.pc = q], d, o)
<1> DEFINE g == [f EXCEPT !.pc = q]
<1>1. g \in Frame
  BY FrameFields
<1>2. /\ g.pc = q /\ g.res = f.res /\ g.rec = f.rec
      /\ g.queue = f.queue /\ g.got = f.got
  BY FrameUpdates
<1>3. g.pc \in ParentPc \ {"lookup", "create"} =>
         g.rec \in DOMAIN d /\ d[g.rec].source = g.res
  BY <1>2 DEF FrameOK, ParentPc, MigratedPc
<1>4. g.pc = "saveDest" => NewObject(g) \in o
  BY <1>2 DEF ParentPc, MigratedPc
<1>5. g.pc \in MigratedPc => Delivered(g.rec, d, o)
  BY <1>2 DEF FrameOK, ParentPc, MigratedPc
<1> HIDE DEF g
<1>6. \A i \in g.queue \cup g.got : Delivered(i, d, o)
  BY <1>2 DEF FrameOK
<1>7. FrameOK(g, d, o)
  BY <1>3, <1>4, <1>5, <1>6 DEF FrameOK
<1> QED  BY <1>1, <1>7 DEF g

-----------------------------------------------------------------------------
(* Steps on the database.                                                  *)

LEMMA GrowsFurther ==
    ASSUME NEW d, NEW o, NEW d2, NEW o2, NEW d3, NEW o3,
           Grows(d, o, d2, o2), Grows(d2, o2, d3, o3)
    PROVE  Grows(d, o, d3, o3)
<1>1. ASSUME NEW i \in DOMAIN d
      PROVE  /\ i \in DOMAIN d3
             /\ d3[i].source = d[i].source
             /\ d3[i].dest = d[i].dest \/ Delivered(i, d3, o3)
  <2>1. /\ i \in DOMAIN d2
        /\ d2[i].source = d[i].source
        /\ d2[i].dest = d[i].dest \/ Delivered(i, d2, o2)
    BY DEF Grows
  <2>2. Delivered(i, d2, o2) => Delivered(i, d3, o3)
    BY DeliveredKept
  <2> QED  BY <2>1, <2>2 DEF Grows
<1> QED  BY <1>1 DEF Grows

\* The innermost frame sets the status of a record and moves on.
LEMMA StatusOK ==
    ASSUME IInv, NEW p \in Proc, ~Idle(p),
           NEW f \in Frame, FrameOK(f, db, dest), Goto(p, f),
           NEW i, NEW s \in Status, SetStatus(i, s),
           s \in LIST_STATUS_MIGRATED => Delivered(i, db, dest),
           UNCHANGED <<clouds, raising, invocation>>
    PROVE  IInv'
<1>1. db' = [db EXCEPT ![i].status = s] /\ dest' = dest
  BY DEF SetStatus, clouds
<1>2. DbOK(db', dest') /\ Grows(db, dest, db', dest')
  BY <1>1, IInvParts, StatusSet DEF DataOK
<1>3. DataOK'
  BY <1>2, IInvParts DEF DataOK, clouds, invocation
<1>4. StacksOK'
  BY <1>2, IInvParts, FrameKept, GotoOK
<1> QED  BY <1>3, <1>4, IInvParts

\* It records a failure and ends with an exception; the handler may have left
\* an object behind.
LEMMA FailOK ==
    ASSUME IInv, NEW p \in Proc, ~Idle(p),
           NEW i, NEW s \in Status \ LIST_STATUS_MIGRATED, SetStatus(i, s), Raise(p),
           dest \subseteq dest', dest' \in SUBSET Object,
           source' \in SUBSET Resource, UNCHANGED <<attached, invocation>>
    PROVE  IInv'
<1>1. db' = [db EXCEPT ![i].status = s]
  BY DEF SetStatus
<1>2. DbOK(db', dest) /\ Grows(db, dest, db', dest)
  BY <1>1, IInvParts, StatusSet DEF DataOK
<1>3. DbOK(db', dest') /\ Grows(db', dest, db', dest')
  BY <1>2, ObjectAdded
<1>4. Grows(db, dest, db', dest')
  BY <1>2, <1>3, GrowsFurther
<1>5. raising' \in [Proc -> BOOLEAN]
  BY IInvParts DEF Raise, DataOK
<1>6. DataOK'
  BY <1>3, <1>5, IInvParts DEF DataOK, invocation
<1>7. StacksOK'
  BY <1>4, IInvParts, RaiseOK
<1> QED  BY <1>6, <1>7, IInvParts

\* An exception that changes no record.
LEMMA RaiseOnly ==
    ASSUME IInv, NEW p \in Proc, ~Idle(p), Raise(p),
           UNCHANGED <<db, clouds, invocation>>
    PROVE  IInv'
<1>1. Grows(db, dest, db', dest')
  BY Unchanged DEF clouds
<1>2. raising' \in [Proc -> BOOLEAN]
  BY IInvParts DEF Raise, DataOK
<1>3. DataOK'
  BY <1>2, IInvParts DEF DataOK, clouds, invocation
<1>4. StacksOK'
  BY <1>1, IInvParts, RaiseOK
<1> QED  BY <1>3, <1>4, IInvParts

\* A process is done, or starts with a single frame.
LEMMA RestackOK ==
    ASSUME IInv, NEW p \in Proc, NEW t, StackOK(t, db, dest),
           stack' = [stack EXCEPT ![p] = t],
           raising' \in [Proc -> BOOLEAN], opts' \in [Proc -> Flags], runs' \in Nat,
           UNCHANGED <<db, clouds>>
    PROVE  IInv'
<1>1. db' = db /\ dest' = dest /\ Grows(db, dest, db', dest')
  BY Unchanged DEF clouds
<1>2. DataOK'
  BY IInvParts DEF DataOK, clouds
<1>3. StacksOK'
  BY <1>1, IInvParts, StackStep
<1> QED  BY <1>2, <1>3, IInvParts

\* What the caller does with the migration it is returned.
LEMMA ResumedOK ==
    ASSUME NEW d, NEW o, NEW f \in Frame, FrameOK(f, d, o),
           NEW g \in Frame, Delivered(g.rec, d, o)
    PROVE  Resumed(f, g) \in Frame /\ FrameOK(Resumed(f, g), d, o)
<1>1. f.queue \cup {g.rec} \in SUBSET Nat /\ f.got \cup {g.rec} \in SUBSET Nat
  BY FrameFields
<1>2. CASE Resumed(f, g) = f
  BY <1>2
<1>3. CASE Resumed(f, g) = [f EXCEPT !.queue = f.queue \cup {g.rec}]
  <2> DEFINE h == [f EXCEPT !.queue = f.queue \cup {g.rec}]
  <2>1. h \in Frame
    BY <1>1, FrameFields
  <2>2. /\ h.pc = f.pc /\ h.res = f.res /\ h.rec = f.rec
        /\ h.queue = f.queue \cup {g.rec} /\ h.got = f.got
    BY FrameUpdates
  <2> HIDE DEF h
  <2>3. \A i \in h.queue \cup h.got : Delivered(i, d, o)
    BY <2>2 DEF FrameOK
  <2>4. FrameOK(h, d, o)
    BY <2>2, <2>3, SameFrame
  <2> QED  BY <1>3, <2>1, <2>4 DEF h
<1>4. CASE Resumed(f, g) = [f EXCEPT !.got = f.got \cup {g.rec}]
  <2> DEFINE h == [f EXCEPT !.got = f.got \cup {g.rec}]
  <2>1. h \in Frame
    BY <1>1, FrameFields
  <2>2. /\ h.pc = f.pc /\ h.res = f.res /\ h.rec = f.rec
        /\ h.queue = f.queue /\ h.got = f.got \cup {g.rec}
    BY FrameUpdates
  <2> HIDE DEF h
  <2>3. \A i \in h.queue \cup h.got : Delivered(i, d, o)
    BY <2>2 DEF FrameOK
  <2>4. FrameOK(h, d, o)
    BY <2>2, <2>3, SameFrame
  <2> QED  BY <1>4, <2>1, <2>4 DEF h
<1> QED  BY <1>2, <1>3, <1>4 DEF Resumed

LEMMA ReturnOK ==
    ASSUME StacksOK, NEW p \in Proc, ~Idle(p), Return(p),
           Grows(db, dest, db', dest'), Delivered(Top(p).rec, db', dest')
    PROVE  StacksOK'
<1> DEFINE below == Front(stack[p])
           t == IF below = <<>> THEN <<>>
                ELSE Append(Front(below), Resumed(Last(below), Top(p)))
<1>1. StackOK(below, db', dest') /\ Top(p) \in Frame
  BY TopOK, StackKept
<1>2. CASE below = <<>>
  BY <1>2, StackEmpty, StackStep DEF Return
<1>3. CASE below # <<>>
  <2>1. /\ Last(below) \in Frame
        /\ FrameOK(Last(below), db', dest')
        /\ StackOK(Front(below), db', dest')
    BY <1>1, <1>3, StackTop
  <2>2. /\ Resumed(Last(below), Top(p)) \in Frame
        /\ FrameOK(Resumed(Last(below), Top(p)), db', dest')
    BY <1>1, <2>1, ResumedOK
  <2>3. StackOK(t, db', dest')
    BY <1>3, <2>1, <2>2, StackPushed
  <2>4. stack' = [stack EXCEPT ![p] = t]
    BY DEF Return
  <2> QED  BY <2>3, <2>4, StackStep
<1> QED  BY <1>2, <1>3

-----------------------------------------------------------------------------
(* The steps of an invocation preserve the invariant.                      *)

LEMMA AtTop ==
    ASSUME IInv, NEW p \in Proc, ~Idle(p)
    PROVE  /\ Top(p) \in Frame
           /\ FrameOK(Top(p), db, dest)
           /\ Top(p).rec \in Nat /\ Top(p).cleanup \in BOOLEAN
           /\ Top(p).todo \in SUBSET Resource
           /\ Top(p).queue \in SUBSET Nat
           /\ Top(p).pc \notin {"batch", "sweep"} => Top(p).res \in Resource
BY IInvParts, TopOK, FrameFields

\* A record in a migrated status has been delivered.
LEMMA MigratedDelivered ==
    ASSUME IInv, NEW i \in DOMAIN db, db[i].status \in LIST_STATUS_MIGRATED
    PROVE  i \in Nat /\ Delivered(i, db, dest)
<1>1. DOMAIN db = 1..Len(db) /\ Len(db) \in Nat
  BY LenProperties DEF IInv, DbOK
<1> QED  BY <1>1 DEF IInv, DbOK

\* Loops over resources that leave one of them behind.
LEMMA DropOK ==
    ASSUME IInv, NEW p \in Proc, ~Idle(p), NEW r
    PROVE  LET f == [Top(p) EXCEPT !.todo = Top(p).todo \ {r}]
           IN  /\ f \in Frame /\ FrameOK(f, db, dest)
               /\ Move(p, f) => IInv'
               /\ \A c \in BOOLEAN :
                     r \in Resource /\ Call(p, f, NewFrame("lookup", r, c)) => IInv'
<1> DEFINE f == [Top(p) EXCEPT !.todo = Top(p).todo \ {r}]
<1>1. Top(p).todo \ {r} \in SUBSET Resource
  BY AtTop
<1>2. f \in Frame /\ FrameOK(f, db, dest)
  BY <1>1, AtTop, TodoOK
<1> HIDE DEF f
<1>3. Move(p, f) => IInv'
  BY <1>2, MoveOK
<1>4. ASSUME NEW c \in BOOLEAN, r \in Resource, Call(p, f, NewFrame("lookup", r, c))
      PROVE  IInv'
  BY <1>2, <1>4, NewCall, CallOK
<1> QED  BY <1>2, <1>3, <1>4 DEF f

LEMMA LoopSteps ==
    ASSUME IInv, NEW p \in Proc,
           \/ SkipInBatch(p) \/ MigrateInBatch(p)
           \/ SkipDependency(p) \/ MigrateDependency(p)
           \/ SkipMember(p) \/ MigrateMember(p)
    PROVE  IInv'
<1>1. ~Idle(p)
  BY DEF SkipInBatch, MigrateInBatch, SkipDependency, MigrateDependency,
         SkipMember, MigrateMember, At
<1>2. PICK r \in Top(p).todo :
         LET f == [Top(p) EXCEPT !.todo = Top(p).todo \ {r}]
         IN  Move(p, f)
               \/ \E c \in {Top(p).cleanup, FALSE} : Call(p, f, NewFrame("lookup", r, c))
  BY DEF SkipInBatch, MigrateInBatch, SkipDependency, MigrateDependency,
         SkipMember, MigrateMember
<1>3. r \in Resource /\ Top(p).cleanup \in BOOLEAN
  BY <1>1, AtTop
<1> QED  BY <1>1, <1>2, <1>3, DropOK

\* A step that changes nothing but the pc of a frame.
LEMMA PcSteps ==
    ASSUME IInv, NEW p \in Proc,
           \/ LookUpMigration(p) \/ RecheckDependencies(p)
    PROVE  IInv'
<1>1. CASE LookUpMigration(p)
  <2>1. ~Idle(p) /\ Top(p).pc = "lookup" /\ Move(p, [Top(p) EXCEPT !.pc = "create"])
    BY <1>1 DEF LookUpMigration, At
  <2>2. Top(p) \in Frame /\ FrameOK(Top(p), db, dest)
    BY <2>1, AtTop
  <2>3. /\ [Top(p) EXCEPT !.pc = "create"] \in Frame
        /\ FrameOK([Top(p) EXCEPT !.pc = "create"], db, dest)
    BY <2>1, <2>2, PcOK DEF ParentPc
  <2> QED  BY <2>1, <2>3, MoveOK
<1>2. CASE RecheckDependencies(p)
  <2>1. ~Idle(p) /\ Top(p).pc = "deps" /\ Move(p, [Top(p) EXCEPT !.pc = "perform"])
    BY <1>2 DEF RecheckDependencies, At
  <2>2. Top(p) \in Frame /\ FrameOK(Top(p), db, dest)
    BY <2>1, AtTop
  <2>3. /\ [Top(p) EXCEPT !.pc = "perform"] \in Frame
        /\ FrameOK([Top(p) EXCEPT !.pc = "perform"], db, dest)
    BY <2>1, <2>2, PcOK DEF ParentPc
  <2> QED  BY <2>1, <2>3, MoveOK
<1> QED  BY <1>1, <1>2

\* The next lookup finds a record that says the resource is migrated.
LEMMA ReuseStep ==
    ASSUME IInv, NEW p \in Proc, ReuseMigration(p)
    PROVE  IInv'
<1>1. PICK i \in DOMAIN db :
         /\ db[i].source = Top(p).res
         /\ db[i].status \in LIST_STATUS_MIGRATED
         /\ Move(p, [Top(p) EXCEPT !.pc = "migrated", !.rec = i])
  BY DEF ReuseMigration, Newest
<1>2. ~Idle(p) /\ Top(p).pc = "lookup"
  BY DEF ReuseMigration, At
<1>3. i \in Nat /\ Delivered(i, db, dest)
  BY <1>1, MigratedDelivered
<1> DEFINE g == [Top(p) EXCEPT !.pc = "migrated", !.rec = i]
<1>4. Top(p) \in Frame /\ FrameOK(Top(p), db, dest) /\ Top(p) \in CallFrame
  BY <1>2, AtTop DEF Frame, LoopFrame, FrameOf
<1>5. g \in Frame
  BY <1>3, <1>4 DEF Frame, CallFrame, FrameOf, MigratedPc
<1>6. /\ g.pc = "migrated" /\ g.rec = i
      /\ g.queue = Top(p).queue /\ g.got = Top(p).got
  BY <1>4 DEF CallFrame, FrameOf
<1> HIDE DEF g
<1>7. \A j \in g.queue \cup g.got : Delivered(j, db, dest)
  BY <1>4, <1>6 DEF FrameOK
<1>8. FrameOK(g, db, dest)
  BY <1>3, <1>6, <1>7 DEF FrameOK, ParentPc, MigratedPc
<1> QED  BY <1>1, <1>2, <1>5, <1>8, MoveOK DEF g

LEMMA CreateStep ==
    ASSUME IInv, NEW p \in Proc, CreateMigration(p)
    PROVE  IInv'
<1> DEFINE n == Len(db) + 1
           m == [source |-> Top(p).res, status |-> STATUS_IN_PROGRESS,
                 dest |-> NoDest, removed |-> FALSE, archived |-> FALSE]
           g == [Top(p) EXCEPT !.pc = "assoc", !.rec = n]
<1>1. ~Idle(p) /\ Top(p).pc = "create" /\ Goto(p, g) /\ db' = Append(db, m)
  BY DEF CreateMigration, At
<1>2. dest' = dest /\ UNCHANGED <<source, attached, raising, opts, runs>>
  BY DEF CreateMigration, clouds, invocation
<1>3. Top(p) \in CallFrame /\ FrameOK(Top(p), db, dest) /\ Top(p).res \in Resource
  BY <1>1, AtTop DEF Frame, LoopFrame, FrameOf
<1>4. m \in Migration /\ m.status \notin LIST_STATUS_MIGRATED
  BY <1>3 DEF Migration, Status, LIST_STATUS_MIGRATED, STATUS_IN_PROGRESS,
       STATUS_COMPLETED, STATUS_SOURCE_CLEANUP_FAILED, STATUS_PENDING_MEMBERS,
       STATUS_PENDING_CLEANUP
<1>5. /\ DbOK(db', dest')
      /\ Grows(db, dest, db', dest')
      /\ n \in Nat /\ n \in DOMAIN db'
      /\ db'[n].source = Top(p).res
  <2>1. DbOK(db, dest)
    BY IInvParts DEF DataOK
  <2> HIDE DEF m
  <2>2. /\ DbOK(Append(db, m), dest)
        /\ Grows(db, dest, Append(db, m), dest)
        /\ n \in Nat /\ n \in DOMAIN Append(db, m)
        /\ Append(db, m)[n] = m
    BY <1>4, <2>1, RecordCreated
  <2>3. m.source = Top(p).res
    BY DEF m
  <2> QED  BY <1>1, <1>2, <2>2, <2>3
<1>6. g \in Frame
  BY <1>3, <1>5 DEF Frame, CallFrame, FrameOf, ParentPc
<1>7. /\ g.pc = "assoc" /\ g.rec = n /\ g.res = Top(p).res
      /\ g.queue = Top(p).queue /\ g.got = Top(p).got
  BY <1>3 DEF CallFrame, FrameOf
<1> HIDE DEF g, n, m
<1>8. \A j \in g.queue \cup g.got : Delivered(j, db', dest')
  BY <1>3, <1>5, <1>7, DeliveredKept DEF FrameOK
<1>9. FrameOK(g, db', dest')
  BY <1>5, <1>7, <1>8 DEF FrameOK, ParentPc, MigratedPc
<1>10. StacksOK'
  BY <1>1, <1>5, <1>6, <1>9, IInvParts, GotoOK
<1>11. DataOK'
  BY <1>2, <1>5, IInvParts DEF DataOK
<1> QED  BY <1>10, <1>11, IInvParts

LEMMA AssociatedStep ==
    ASSUME IInv, NEW p \in Proc, GetAssociatedResources(p)
    PROVE  IInv'
<1>1. ~Idle(p) /\ Top(p).pc = "assoc"
  BY DEF GetAssociatedResources, At
<1>2. Top(p) \in Frame /\ FrameOK(Top(p), db, dest) /\ Top(p).res \in Resource
  BY <1>1, AtTop
<1>3. CASE Move(p, [Top(p) EXCEPT !.pc = "perform"])
  <2>1. /\ [Top(p) EXCEPT !.pc = "perform"] \in Frame
        /\ FrameOK([Top(p) EXCEPT !.pc = "perform"], db, dest)
    BY <1>1, <1>2, PcOK DEF ParentPc
  <2> QED  BY <1>1, <1>3, <2>1, MoveOK
<1>4. CASE Move(p, [Top(p) EXCEPT !.pc = "deps", !.todo = Pending(Top(p).res)])
  <2> DEFINE h == [Top(p) EXCEPT !.pc = "deps"]
             g == [h EXCEPT !.todo = Pending(Top(p).res)]
  <2>1. h \in Frame /\ FrameOK(h, db, dest)
    BY <1>1, <1>2, PcOK DEF ParentPc
  <2>2. Pending(Top(p).res) \in SUBSET Resource
    BY <1>2, ResourceAssumption DEF Pending
  <2>3. g = [Top(p) EXCEPT !.pc = "deps", !.todo = Pending(Top(p).res)]
    OBVIOUS
  <2> HIDE DEF h
  <2>4. g \in Frame /\ FrameOK(g, db, dest)
    BY <2>1, <2>2, TodoOK
  <2> QED  BY <1>1, <1>4, <2>3, <2>4, MoveOK
<1> QED  BY <1>3, <1>4 DEF GetAssociatedResources

\* Every way a migration fails before it has produced its destination.
LEMMA FailSteps ==
    ASSUME IInv, NEW p \in Proc,
           \/ RefusePendingDependencies(p) \/ RefuseUnmigratedDependencies(p)
           \/ GetAssociatedResourcesFails(p) \/ HandlerFails(p) \/ DependencyFailed(p)
    PROVE  IInv'
<1>1. ~Idle(p) /\ SetStatus(Top(p).rec, STATUS_FAILED) /\ Raise(p)
  BY DEF RefusePendingDependencies, RefuseUnmigratedDependencies,
         GetAssociatedResourcesFails, HandlerFails, DependencyFailed, At, RaisedTo,
         FailMigration
<1>2. UNCHANGED <<source, attached, invocation>>
  BY DEF RefusePendingDependencies, RefuseUnmigratedDependencies,
         GetAssociatedResourcesFails, HandlerFails, DependencyFailed, clouds
<1>3. source \in SUBSET Resource /\ dest \in SUBSET Object
  BY IInvParts DEF DataOK
<1>4. dest \subseteq dest' /\ dest' \in SUBSET Object
  <2>1. CASE UNCHANGED dest
    BY <1>3, <2>1
  <2>2. CASE HandlerFails(p)
    <3>1. Top(p).res \in Resource /\ Top(p).rec \in Nat
      BY <1>1, <2>2, AtTop DEF HandlerFails, At
    <3>2. NewObject(Top(p)) \in Object
      BY <3>1 DEF NewObject, Object
    <3> QED  BY <1>3, <2>2, <3>2 DEF HandlerFails
  <2> QED  BY <2>1, <2>2 DEF RefusePendingDependencies, RefuseUnmigratedDependencies,
         GetAssociatedResourcesFails, DependencyFailed, clouds
<1>5. STATUS_FAILED \in Status \ LIST_STATUS_MIGRATED
  BY DEF Status, LIST_STATUS_MIGRATED, STATUS_FAILED, STATUS_IN_PROGRESS,
       STATUS_COMPLETED, STATUS_SOURCE_CLEANUP_FAILED, STATUS_PENDING_MEMBERS,
       STATUS_PENDING_CLEANUP
<1> QED  BY <1>1, <1>2, <1>3, <1>4, <1>5, FailOK

LEMMA HandlerStep ==
    ASSUME IInv, NEW p \in Proc, HandlerMigrates(p)
    PROVE  IInv'
<1> DEFINE g == [Top(p) EXCEPT !.pc = "saveDest"]
<1>1. ~Idle(p) /\ Top(p).pc = "perform" /\ Goto(p, g)
  BY DEF HandlerMigrates, At
<1>2. Top(p) \in Frame /\ FrameOK(Top(p), db, dest)
      /\ Top(p).res \in Resource /\ Top(p).rec \in Nat
  BY <1>1, AtTop
<1>3. NewObject(Top(p)) \in Object
  BY <1>2 DEF NewObject, Object
<1>4. db' = db /\ dest' = dest \cup {NewObject(Top(p))}
  BY DEF HandlerMigrates
<1>5. DbOK(db', dest') /\ Grows(db, dest, db', dest')
  BY <1>4, IInvParts, ObjectAdded DEF DataOK
<1>6. DataOK'
  BY <1>3, <1>4, <1>5, IInvParts DEF DataOK, HandlerMigrates, invocation
<1>7. g \in Frame
  BY <1>1, <1>2, FrameFields DEF ParentPc
<1>8. /\ g.pc = "saveDest" /\ g.rec = Top(p).rec /\ g.res = Top(p).res
      /\ g.queue = Top(p).queue /\ g.got = Top(p).got
  BY <1>2, FrameUpdates
<1> HIDE DEF g
<1>9. NewObject(g) \in dest'
  BY <1>4, <1>8 DEF NewObject
<1>10. \A j \in g.queue \cup g.got : Delivered(j, db', dest')
  BY <1>2, <1>5, <1>8, DeliveredKept DEF FrameOK
<1>11. g.rec \in DOMAIN db' /\ db'[g.rec].source = g.res
  BY <1>1, <1>2, <1>4, <1>8 DEF FrameOK, ParentPc
<1>12. FrameOK(g, db', dest')
  BY <1>8, <1>9, <1>10, <1>11 DEF FrameOK, MigratedPc
<1>13. StacksOK'
  BY <1>1, <1>5, <1>7, <1>12, IInvParts, GotoOK
<1> QED  BY <1>6, <1>13, IInvParts

LEMMA SaveStep ==
    ASSUME IInv, NEW p \in Proc, SaveDestination(p)
    PROVE  IInv'
<1> DEFINE g == [Top(p) EXCEPT !.pc = "migrated"]
           x == NewObject(Top(p))
<1>1. ~Idle(p) /\ Top(p).pc = "saveDest" /\ Goto(p, g)
  BY DEF SaveDestination, At
<1>2. Top(p) \in Frame /\ FrameOK(Top(p), db, dest)
      /\ Top(p).res \in Resource /\ Top(p).rec \in Nat
  BY <1>1, AtTop
<1>3. /\ Top(p).rec \in DOMAIN db /\ db[Top(p).rec].source = Top(p).res
      /\ x \in dest
  BY <1>1, <1>2 DEF FrameOK, ParentPc
<1>4. x \in Object /\ x.of = Top(p).res
  BY <1>2 DEF NewObject, Object
<1>5. db' = [db EXCEPT ![Top(p).rec].dest = x] /\ dest' = dest
  BY DEF SaveDestination, clouds
<1> HIDE DEF x
<1>6. /\ DbOK(db', dest') /\ Grows(db, dest, db', dest')
      /\ Delivered(Top(p).rec, db', dest')
  BY <1>3, <1>4, <1>5, IInvParts, DestinationSet DEF DataOK
<1>7. DataOK'
  BY <1>6, IInvParts DEF DataOK, SaveDestination, clouds, invocation
<1>8. g \in Frame
  BY <1>1, <1>2, FrameFields DEF MigratedPc
<1>9. /\ g.pc = "migrated" /\ g.rec = Top(p).rec
      /\ g.queue = Top(p).queue /\ g.got = Top(p).got
  BY <1>2, FrameUpdates
<1> HIDE DEF g
<1>10. \A j \in g.queue \cup g.got : Delivered(j, db', dest')
  BY <1>2, <1>6, <1>9, DeliveredKept DEF FrameOK
<1>11. FrameOK(g, db', dest')
  BY <1>6, <1>9, <1>10 DEF FrameOK, ParentPc, MigratedPc
<1>12. StacksOK'
  BY <1>1, <1>6, <1>8, <1>11, IInvParts, GotoOK
<1> QED  BY <1>7, <1>12, IInvParts

LEMMA StatusMembers ==
    /\ STATUS_PENDING_MEMBERS \in Status
    /\ STATUS_PENDING_CLEANUP \in Status
    /\ STATUS_SOURCE_CLEANUP_FAILED \in Status
    /\ STATUS_COMPLETED \in Status
BY DEF Status, LIST_STATUS_MIGRATED

\* A migrated record is given its next status.
LEMMA MarkSteps ==
    ASSUME IInv, NEW p \in Proc, MarkPendingMembers(p) \/ MarkPendingCleanup(p)
    PROVE  IInv'
<1>1. ~Idle(p) /\ Top(p).pc \in {"migrated", "pendingCleanup"}
  BY DEF MarkPendingMembers, MarkPendingCleanup, At
<1>2. Top(p) \in Frame /\ FrameOK(Top(p), db, dest) /\ Delivered(Top(p).rec, db, dest)
  BY <1>1, AtTop DEF FrameOK, MigratedPc
<1>3. PICK q \in MigratedPc : Goto(p, [Top(p) EXCEPT !.pc = q])
  BY DEF MarkPendingMembers, MarkPendingCleanup, AfterMembers, MigratedPc
<1>4. /\ [Top(p) EXCEPT !.pc = q] \in Frame
      /\ FrameOK([Top(p) EXCEPT !.pc = q], db, dest)
  BY <1>1, <1>2, PcOK DEF MigratedPc
<1>5. PICK s \in Status : SetStatus(Top(p).rec, s)
  BY StatusMembers DEF MarkPendingMembers, MarkPendingCleanup
<1>6. UNCHANGED <<clouds, raising, invocation>>
  BY DEF MarkPendingMembers, MarkPendingCleanup
<1> QED  BY <1>1, <1>2, <1>3, <1>4, <1>5, <1>6, StatusOK

\* Listing the members of a resource, and connecting them when all are done.
LEMMA MemberSteps ==
    ASSUME IInv, NEW p \in Proc, GetMemberResources(p) \/ ConnectMembers(p)
    PROVE  IInv'
<1>1. ~Idle(p) /\ Top(p).pc \in {"listMembers", "members"}
  BY DEF GetMemberResources, ConnectMembers, At
<1>2. Top(p) \in Frame /\ FrameOK(Top(p), db, dest) /\ Top(p).res \in Resource
      /\ Delivered(Top(p).rec, db, dest)
  BY <1>1, AtTop DEF FrameOK, MigratedPc
<1>3. CASE GetMemberResources(p)
  <2> DEFINE h == [Top(p) EXCEPT !.pc = "members"]
             g == [h EXCEPT !.todo = Members[Top(p).res]]
  <2>1. h \in Frame /\ FrameOK(h, db, dest)
    BY <1>1, <1>2, PcOK DEF MigratedPc
  <2>2. Members[Top(p).res] \in SUBSET Resource
    BY <1>2, ResourceAssumption
  <2>3. g = [Top(p) EXCEPT !.pc = "members", !.todo = Members[Top(p).res]]
    OBVIOUS
  <2>4. Move(p, g)
    BY <1>3, <2>3 DEF GetMemberResources
  <2> HIDE DEF h
  <2>5. g \in Frame /\ FrameOK(g, db, dest)
    BY <2>1, <2>2, TodoOK
  <2> QED  BY <1>1, <2>4, <2>5, MoveOK
<1>4. CASE ConnectMembers(p)
  <2> DEFINE g == [Top(p) EXCEPT !.pc = AfterMembers(Top(p))]
  <2>1. g \in Frame /\ FrameOK(g, db, dest)
    <3>1. AfterMembers(Top(p)) \in MigratedPc
      BY DEF AfterMembers, MigratedPc
    <3> QED  BY <1>1, <1>2, <3>1, PcOK DEF MigratedPc
  <2>2. \A i \in {Top(p).rec} \cup Top(p).got : db[i].dest \in Object
    <3>1. \A i \in {Top(p).rec} \cup Top(p).got : Delivered(i, db, dest)
      BY <1>2 DEF FrameOK
    <3> QED  BY <3>1, IInvParts DEF DataOK, Delivered
  <2>3. Connections(Top(p)) \subseteq Object \X Object
    BY <2>2 DEF Connections
  <2>4. attached' \in SUBSET (Object \X Object)
    BY <1>4, <2>3, IInvParts DEF ConnectMembers, DataOK
  <2>5. DataOK'
    BY <1>4, <2>4, IInvParts DEF ConnectMembers, DataOK, invocation
  <2>6. db' = db /\ dest' = dest /\ Goto(p, g)
    BY <1>4 DEF ConnectMembers
  <2> HIDE DEF g
  <2>7. Grows(db, dest, db', dest') /\ FrameOK(g, db', dest')
    BY <2>1, <2>6, Unchanged
  <2>8. StacksOK'
    BY <1>1, <2>1, <2>6, <2>7, IInvParts, GotoOK
  <2> QED  BY <2>5, <2>8, IInvParts
<1> QED  BY <1>3, <1>4

\* The source of a migration is deleted, and no record changes.
LEMMA DeleteStep ==
    ASSUME IInv, NEW p \in Proc, DeleteSource(p)
    PROVE  IInv'
<1>1. ~Idle(p) /\ Top(p) \in Frame /\ FrameOK(Top(p), db, dest)
  BY AtTop DEF DeleteSource, CleaningUp
<1>2. PICK i \in CleanupNext(Top(p)) : Goto(p, [Top(p) EXCEPT !.cur = i])
                                       /\ source' \in SUBSET source
  BY DEF DeleteSource
<1> DEFINE g == [Top(p) EXCEPT !.cur = i]
<1>3. i \in Nat
  BY <1>1, <1>2, AtTop DEF CleanupNext
<1>4. g \in Frame
  BY <1>1, <1>3, FrameFields
<1>5. g.pc = Top(p).pc /\ g.res = Top(p).res /\ g.rec = Top(p).rec
      /\ g.queue = Top(p).queue /\ g.got = Top(p).got
  BY <1>1, FrameUpdates
<1>6. db' = db /\ dest' = dest
  BY DEF DeleteSource
<1>7. DataOK'
  BY <1>2, <1>6, IInvParts DEF DataOK, DeleteSource, invocation
<1> HIDE DEF g
<1>8. \A j \in g.queue \cup g.got : Delivered(j, db, dest)
  BY <1>1, <1>5 DEF FrameOK
<1>9. FrameOK(g, db, dest)
  BY <1>1, <1>5, <1>8, SameFrame
<1>10. FrameOK(g, db', dest') /\ Grows(db, dest, db', dest')
  BY <1>6, <1>9, Unchanged
<1>11. StacksOK'
  BY <1>1, <1>2, <1>4, <1>10, IInvParts, GotoOK DEF g
<1> QED  BY <1>7, <1>11, IInvParts

\* Its deletion fails: only a delivered migration can be put on the cleanup list.
LEMMA DeleteFailsStep ==
    ASSUME IInv, NEW p \in Proc, DeleteSourceFails(p)
    PROVE  IInv'
<1>1. ~Idle(p) /\ FrameOK(Top(p), db, dest)
  BY AtTop DEF DeleteSourceFails, CleaningUp
<1>2. PICK i \in CleanupNext(Top(p)) : SetStatus(i, STATUS_SOURCE_CLEANUP_FAILED)
                                       /\ source' \in SUBSET source
  BY DEF DeleteSourceFails
<1>3. Delivered(i, db, dest)
  BY <1>1, <1>2 DEF CleanupNext, FrameOK, MigratedPc
<1>4. db' = [db EXCEPT ![i].status = STATUS_SOURCE_CLEANUP_FAILED] /\ dest' = dest
  BY <1>2 DEF SetStatus, DeleteSourceFails
<1>5. DbOK(db', dest') /\ Grows(db, dest, db', dest')
  BY <1>3, <1>4, IInvParts, StatusMembers, StatusSet DEF DataOK
<1>6. Raise(p) /\ raising' \in [Proc -> BOOLEAN]
  BY IInvParts DEF DeleteSourceFails, Raise, DataOK
<1>7. DataOK'
  BY <1>2, <1>5, <1>6, IInvParts DEF DataOK, DeleteSourceFails, invocation
<1>8. StacksOK'
  BY <1>1, <1>5, <1>6, IInvParts, RaiseOK
<1> QED  BY <1>7, <1>8, IInvParts

\* The deletion is recorded, and the cleanup goes on to the next migration.
LEMMA RemovedStep ==
    ASSUME IInv, NEW p \in Proc, MarkSourceRemoved(p)
    PROVE  IInv'
<1> DEFINE left == Remaining(Top(p))
           q == AfterRemoval(Top(p))
           g == [Top(p) EXCEPT !.cur = 0, !.queue = left, !.pc = q]
<1>1. ~Idle(p) /\ Goto(p, g) /\ Top(p).pc \in {"cleanOwn", "cleanAssoc", "sweep"}
  BY DEF MarkSourceRemoved
<1>2. db' = [db EXCEPT ![Top(p).cur].removed = TRUE] /\ dest' = dest
  BY DEF MarkSourceRemoved, clouds
<1>3. DbOK(db', dest') /\ Grows(db, dest, db', dest')
  BY <1>2, IInvParts, RemovedSet DEF DataOK
<1>4. DataOK'
  BY <1>3, IInvParts DEF DataOK, MarkSourceRemoved, clouds, invocation
<1>5. Top(p) \in Frame /\ FrameOK(Top(p), db, dest) /\ FrameOK(Top(p), db', dest')
  BY <1>1, <1>3, AtTop, FrameKept
<1>6. left \in SUBSET Nat /\ left \subseteq Top(p).queue
  BY <1>1, AtTop DEF Remaining
<1>7. q \in (IF Top(p).pc = "sweep" THEN {"sweep"} ELSE MigratedPc)
  BY DEF AfterRemoval, MigratedPc
<1> HIDE DEF left, q
<1>8. g \in Frame
  <2>1. CASE Top(p).pc = "sweep"
    BY <1>5, <1>6, <1>7, <2>1
       DEF Frame, CallFrame, LoopFrame, FrameOf, ParentPc, MigratedPc
  <2>2. CASE Top(p).pc # "sweep"
    BY <1>1, <1>5, <1>6, <1>7, <2>2
       DEF Frame, CallFrame, LoopFrame, FrameOf, ParentPc, MigratedPc
  <2> QED  BY <2>1, <2>2
<1>9. /\ g.pc = q /\ g.rec = Top(p).rec
      /\ g.queue = left /\ g.got = Top(p).got
  BY <1>5 DEF Frame, CallFrame, LoopFrame, FrameOf
<1> HIDE DEF g
<1>10. \A j \in g.queue \cup g.got : Delivered(j, db', dest')
  BY <1>5, <1>6, <1>9 DEF FrameOK
<1>11. FrameOK(g, db', dest')
  BY <1>1, <1>5, <1>7, <1>9, <1>10 DEF FrameOK, ParentPc, MigratedPc
<1>12. StacksOK'
  BY <1>1, <1>3, <1>8, <1>11, IInvParts, GotoOK
<1> QED  BY <1>4, <1>12, IInvParts

\* perform_individual_migration returns its completed migration.
LEMMA CompleteStep ==
    ASSUME IInv, NEW p \in Proc, CompleteMigration(p)
    PROVE  IInv'
<1>1. ~Idle(p) /\ Top(p).pc = "complete" /\ Return(p)
  BY DEF CompleteMigration, At
<1>2. Delivered(Top(p).rec, db, dest)
  BY <1>1, AtTop DEF FrameOK, MigratedPc
<1>3. db' = [db EXCEPT ![Top(p).rec].status = STATUS_COMPLETED] /\ dest' = dest
  BY DEF CompleteMigration, SetStatus, clouds
<1>4. DbOK(db', dest') /\ Grows(db, dest, db', dest')
  BY <1>2, <1>3, IInvParts, StatusMembers, StatusSet DEF DataOK
<1>5. DataOK'
  BY <1>4, IInvParts DEF DataOK, CompleteMigration, clouds, invocation
<1>6. StacksOK'
  BY <1>1, <1>2, <1>4, IInvParts, DeliveredKept, ReturnOK
<1> QED  BY <1>5, <1>6, IInvParts

LEMMA RaiseSteps ==
    ASSUME IInv, NEW p \in Proc, GetMemberResourcesFails(p) \/ BatchFailed(p)
    PROVE  IInv'
BY RaiseOnly DEF GetMemberResourcesFails, BatchFailed, At, RaisedTo

\* The end of a command: its stack is empty, or its exception is dealt with.
LEMMA EndSteps ==
    ASSUME IInv, NEW p \in Proc,
           FinishBatch(p) \/ FinishCleanup(p) \/ MemberFailed(p) \/ Crash(p)
    PROVE  IInv'
<1>1. /\ raising' \in [Proc -> BOOLEAN]
      /\ opts' \in [Proc -> Flags] /\ runs' \in Nat
      /\ UNCHANGED <<db, clouds>>
  BY IInvParts DEF FinishBatch, FinishCleanup, MemberFailed, Crash, Exit, DataOK, invocation
<1>2. stack' = [stack EXCEPT ![p] = <<>>] \/ stack' = [stack EXCEPT ![p] = stack[p]]
  BY IInvParts DEF FinishBatch, FinishCleanup, MemberFailed, Crash, Exit, StacksOK
<1>3. StackOK(stack[p], db, dest)
  BY IInvParts DEF StacksOK
<1> QED  BY <1>1, <1>2, <1>3, StackEmpty, RestackOK

LEMMA InvokeOK ==
    ASSUME IInv, NEW p \in Proc, NEW cmd, NEW o \in Flags,
           NEW f \in Frame, FrameOK(f, db, dest), Invoke(p, cmd, f, o)
    PROVE  IInv'
<1>1. StackOK(<<f>>, db, dest)
  <2>1. StackOK(Append(<<>>, f), db, dest)
    BY StackEmpty, StackPushed
  <2> QED  BY <2>1
<1>2. opts' \in [Proc -> Flags] /\ runs' \in Nat
  BY IInvParts DEF Invoke, DataOK
<1>3. raising' \in [Proc -> BOOLEAN]
  BY IInvParts DEF Invoke, DataOK
<1> QED  BY <1>1, <1>2, <1>3, RestackOK DEF Invoke

LEMMA CommandSteps ==
    ASSUME IInv, NEW p \in Proc, StartMigration(p) \/ StartBatch(p) \/ StartCleanup(p)
    PROVE  IInv'
<1>1. CASE StartMigration(p)
  <2>1. PICK r \in Requested, o \in Invocations :
           Invoke(p, "start", NewFrame("lookup", r, o.cleanup), o)
    BY <1>1 DEF StartMigration
  <2>2. r \in Resource /\ o \in Flags /\ o.cleanup \in BOOLEAN
    BY ResourceAssumption, CommandAssumption DEF Flags
  <2> QED  BY <2>1, <2>2, NewCall, InvokeOK
<1>2. CASE StartBatch(p)
  <2>1. PICK sel \in Batches, o \in Invocations :
           Invoke(p, "start-batch", [NewFrame("batch", NoResource, o.cleanup)
                                        EXCEPT !.todo = sel \cap source], o)
    BY <1>2 DEF StartBatch
  <2> DEFINE f == [NewFrame("batch", NoResource, o.cleanup) EXCEPT !.todo = sel \cap source]
  <2>2. sel \cap source \in SUBSET Resource /\ o \in Flags /\ o.cleanup \in BOOLEAN
    BY ResourceAssumption, CommandAssumption DEF Flags
  <2>3. f \in Frame
    BY <2>2 DEF NewFrame, Frame, LoopFrame, FrameOf
  <2>4. FrameOK(f, db, dest)
    BY DEF NewFrame, FrameOK, ParentPc, MigratedPc
  <2> QED  BY <2>1, <2>2, <2>3, <2>4, InvokeOK
<1>3. CASE StartCleanup(p)
  <2>1. PICK sel \in Sweeps :
           Invoke(p, "cleanup-source", [NewFrame("sweep", NoResource, FALSE)
                                           EXCEPT !.queue = Removable(sel)], opts[p])
    BY <1>3 DEF StartCleanup
  <2>2. opts[p] \in Flags
    BY IInvParts DEF DataOK
  <2> DEFINE f == [NewFrame("sweep", NoResource, FALSE) EXCEPT !.queue = Removable(sel)]
  <2>3. \A i \in Removable(sel) : i \in Nat /\ Delivered(i, db, dest)
    BY MigratedDelivered DEF Removable, LIST_STATUS_MIGRATED
  <2>4. f \in Frame
    BY <2>3 DEF NewFrame, Frame, LoopFrame, FrameOf
  <2>5. FrameOK(f, db, dest)
    BY <2>3 DEF NewFrame, FrameOK, ParentPc, MigratedPc
  <2> QED  BY <2>1, <2>4, <2>5, <2>2, InvokeOK
<1> QED  BY <1>1, <1>2, <1>3

\* Records and destination change while every invocation stays where it is.
LEMMA RecordsOK ==
    ASSUME IInv, DbOK(db', dest'), Grows(db, dest, db', dest'), dest' \in SUBSET Object,
           runs' \in Nat, UNCHANGED <<source, attached, stack, raising, opts>>
    PROVE  IInv'
<1>1. DataOK'
  BY IInvParts DEF DataOK
<1>2. StacksOK'
  BY IInvParts, StackKept DEF StacksOK
<1> QED  BY <1>1, <1>2, IInvParts

LEMMA ArchiveSteps ==
    ASSUME IInv, ArchiveMigrations \/ RestoreMigrations
    PROVE  IInv'
<1>1. \E rows : \E flag \in BOOLEAN : SetArchived(rows, flag)
  <2>1. CASE ArchiveMigrations
    BY <2>1, Zenon DEF ArchiveMigrations
  <2>2. CASE RestoreMigrations
    BY <2>2, Zenon DEF RestoreMigrations
  <2> QED  BY <2>1, <2>2
<1>2. dest' = dest /\ (Issue("delete") \/ Issue("restore"))
  BY Zenon DEF ArchiveMigrations, RestoreMigrations
<1>3. runs' \in Nat /\ UNCHANGED <<source, attached, stack, raising, opts>>
  BY <1>2, IInvParts DEF Issue, DataOK
<1>4. DbOK(db, dest) /\ dest \in SUBSET Object
  BY IInvParts DEF DataOK
<1>5. PICK rows : \E f \in BOOLEAN : SetArchived(rows, f)
  BY <1>1
<1>6. PICK flag \in BOOLEAN : SetArchived(rows, flag)
  BY <1>5
<1> DEFINE d2 == [i \in DOMAIN db |-> IF i \in rows THEN [db[i] EXCEPT !.archived = flag]
                                                    ELSE db[i]]
<1>7. DbOK(d2, dest) /\ Grows(db, dest, d2, dest)
  BY <1>4, ArchivedSet
<1>8. db' = d2
  BY <1>6 DEF SetArchived
<1> HIDE DEF d2
<1> QED  BY <1>2, <1>3, <1>4, <1>7, <1>8, RecordsOK

LEMMA RegisterStep ==
    ASSUME IInv, RegisterExternal
    PROVE  IInv'
<1> DEFINE made(r) == NewObject([res |-> r, rec |-> Len(db) + 1])
           entry(r, x) == [source |-> r, status |-> STATUS_COMPLETED, dest |-> x,
                           removed |-> FALSE, archived |-> FALSE]
<1>1. PICK r \in Requested : \E x \in {y \in dest : y.of = r} \cup {made(r)} :
         dest' = dest \cup {x} /\ db' = Append(db, entry(r, x))
  BY DEF RegisterExternal
<1>2. PICK x \in {y \in dest : y.of = r} \cup {made(r)} :
         dest' = dest \cup {x} /\ db' = Append(db, entry(r, x))
  BY <1>1
<1>3. /\ runs' \in Nat
      /\ UNCHANGED <<source, attached, stack, raising, opts>>
  BY IInvParts DEF RegisterExternal, Issue, DataOK
<1>4. r \in Resource /\ Len(db) + 1 \in Nat /\ DbOK(db, dest) /\ dest \in SUBSET Object
  BY IInvParts, ResourceAssumption, LenProperties DEF DataOK, DbOK
<1>5. made(r) \in Object /\ made(r).of = r
  BY <1>4 DEF NewObject, Object
<1> HIDE DEF made
<1>6. x \in Object /\ x.of = r
  BY <1>2, <1>4, <1>5
<1>7. /\ entry(r, x) \in Migration /\ entry(r, x).dest = x /\ entry(r, x).source = r
  BY <1>4, <1>6, StatusMembers DEF Migration
<1> HIDE DEF entry
<1>8. DbOK(db, dest') /\ Grows(db, dest, db, dest')
  BY <1>2, <1>4, ObjectAdded
<1>9. DbOK(db', dest') /\ Grows(db, dest', db', dest')
  BY <1>2, <1>6, <1>7, <1>8, RecordCreated
<1>10. Grows(db, dest, db', dest')
  BY <1>8, <1>9, GrowsFurther
<1>11. dest' \in SUBSET Object
  BY <1>2, <1>4, <1>6
<1> QED  BY <1>3, <1>9, <1>10, <1>11, RecordsOK

-----------------------------------------------------------------------------
(* Theorems.                                                               *)

LEMMA InitOK == Init => IInv
<1> SUFFICES ASSUME Init  PROVE IInv
  OBVIOUS
<1>1. DbOK(db, dest)
  BY EmptySeq DEF Init, DbOK
<1>2. DataOK
  BY <1>1 DEF Init, DataOK, Flags
<1>3. StacksOK
  BY StackEmpty, EmptySeq DEF Init, StacksOK
<1> QED  BY <1>2, <1>3, IInvParts

LEMMA NextOK == IInv /\ [Next]_vars => IInv'
<1> SUFFICES ASSUME IInv, [Next]_vars  PROVE IInv'
  OBVIOUS
<1>1. CASE UNCHANGED vars
  BY <1>1 DEF vars, IInv, TypeOK
<1>2. ASSUME NEW p \in Proc, Step(p)  PROVE IInv'
  BY <1>2, LoopSteps, PcSteps, ReuseStep, CreateStep, AssociatedStep, FailSteps,
     HandlerStep, SaveStep, MarkSteps, MemberSteps, DeleteStep, DeleteFailsStep,
     RemovedStep, CompleteStep, RaiseSteps, EndSteps DEF Step
<1>3. ASSUME NEW p \in Proc, StartMigration(p) \/ StartBatch(p) \/ StartCleanup(p)
      PROVE  IInv'
  BY <1>3, CommandSteps
<1>4. ASSUME NEW p \in Proc, Crash(p)  PROVE IInv'
  BY <1>4, EndSteps
<1>5. CASE ArchiveMigrations \/ RestoreMigrations \/ RegisterExternal
  BY <1>5, ArchiveSteps, RegisterStep
<1> QED  BY <1>1, <1>2, <1>3, <1>4, <1>5 DEF Next

\* The inductive invariant holds in every reachable state.
THEOREM Invariance == Spec => []IInv
BY InitOK, NextOK, PTL DEF Spec

\* Records, call stacks and destination objects keep their types for every
\* hierarchy of resources and any number of invocations.
THEOREM TypeCorrect == Spec => []TypeOK
<1>1. IInv => TypeOK
  BY DEF IInv
<1> QED  BY <1>1, Invariance, PTL

\* LIST_STATUS_MIGRATED means what its comment says: a record in one of these
\* statuses names an existing destination object of its resource, whatever
\* fails, crashes or runs at the same time.
THEOREM MigratedIsOnDestination == Spec => []MigratedHasDestination
<1>1. IInv => MigratedHasDestination
  BY DEF IInv, DbOK, Delivered, MigratedHasDestination, MigratedRecord
<1> QED  BY <1>1, Invariance, PTL

=============================================================================
