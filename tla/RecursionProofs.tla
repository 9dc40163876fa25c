--------------------------- MODULE RecursionProofs ---------------------------
(***************************************************************************)
(* The recursion of perform_individual_migration over dependencies and     *)
(* members never comes back to a resource that is further down the call    *)
(* stack, whatever cycles the two relations have, as long as one           *)
(* invocation runs at a time.                                              *)
(***************************************************************************)
EXTENDS ManagerProofs

LoopPc == {"batch", "sweep"}
FirstPc == {"lookup", "create"}

\* Resources whose newest record says that they are migrated or are being
\* migrated: what the loops over dependencies and members skip.
Busy == {r \in Resource : IsMigrated(r) \/ IsInProgress(r)}

\* What the manager relies on to skip what it is in the middle of: every call
\* past the creation of its record is of a busy resource.  Only the innermost
\* call may not have come that far, and only the outermost is a loop.
Nested(s, B) ==
    /\ \A j, k \in DOMAIN s : s[j].res = s[k].res => j = k
    /\ \A k \in DOMAIN s :
          /\ s[k].pc \in LoopPc => k = 1
          /\ s[k].pc \in FirstPc => k = Len(s)
          /\ s[k].pc \notin LoopPc \cup FirstPc => s[k].res \in B

RecursionInv == \A p \in Proc : Nested(stack[p], Busy)

OneAtATime == \A p, q \in Proc : p = q

-----------------------------------------------------------------------------
(* Call stacks.                                                            *)

LEMMA ReplaceLast ==
    ASSUME NEW S, NEW s \in Seq(S), s # <<>>, NEW g \in S
    PROVE  LET t == Append(Front(s), g)
           IN  /\ t \in Seq(S) /\ Len(t) = Len(s) /\ DOMAIN t = DOMAIN s
               /\ Len(s) \in DOMAIN s /\ t[Len(s)] = g /\ Last(s) = s[Len(s)]
               /\ \A k \in DOMAIN s : k # Len(s) => t[k] = s[k]
<1>1. /\ Len(s) \in Nat \ {0}
      /\ DOMAIN s = 1..Len(s)
      /\ \A k \in 1..Len(s) - 1 : s[k] \in S
  BY EmptySeq, LenProperties, ElementOfSeq
<1>2. Len(s) - 1 \in Int
  BY <1>1
<1>3. /\ SubSeq(s, 1, Len(s) - 1) \in Seq(S)
      /\ Len(SubSeq(s, 1, Len(s) - 1)) = Len(s) - 1
      /\ \A k \in 1..Len(s) - 1 : SubSeq(s, 1, Len(s) - 1)[k] = s[k]
  BY <1>1, <1>2, SubSeqProperties
<1> DEFINE t == Append(SubSeq(s, 1, Len(s) - 1), g)
<1>4. /\ t \in Seq(S) /\ Len(t) = Len(s) - 1 + 1
      /\ \A k \in 1..Len(s) - 1 : t[k] = s[k]
      /\ t[Len(s) - 1 + 1] = g
  BY <1>3, AppendProperties
<1>5. DOMAIN t = 1..Len(t)
  BY <1>4, LenProperties
<1>6. Len(s) - 1 + 1 = Len(s) /\ (1..Len(s)) \ {Len(s)} = 1..Len(s) - 1
  BY <1>1
<1>7. Append(Front(s), g) = t /\ Last(s) = s[Len(s)]
  BY DEF Front, Last
<1> HIDE DEF t
<1> QED  BY <1>1, <1>4, <1>5, <1>6, <1>7

LEMMA FrontShorter ==
    ASSUME NEW S, NEW s \in Seq(S), s # <<>>
    PROVE  \A k \in DOMAIN Front(s) : k # Len(s)
<1>1. /\ Len(s) \in Nat \ {0}
      /\ DOMAIN s = 1..Len(s)
      /\ \A k \in 1..Len(s) - 1 : s[k] \in S
  BY EmptySeq, LenProperties, ElementOfSeq
<1>2. Len(s) - 1 \in Int
  BY <1>1
<1>3. /\ SubSeq(s, 1, Len(s) - 1) \in Seq(S)
      /\ Len(SubSeq(s, 1, Len(s) - 1)) = Len(s) - 1
      /\ \A k \in 1..Len(s) - 1 : SubSeq(s, 1, Len(s) - 1)[k] = s[k]
  BY <1>1, <1>2, SubSeqProperties
<1>4. DOMAIN Front(s) = 1..Len(s) - 1
  BY <1>3, LenProperties DEF Front
<1> QED  BY <1>1, <1>4

\* More resources are busy.
LEMMA NestedKept ==
    ASSUME NEW s, NEW B, NEW B2, Nested(s, B), B \subseteq B2
    PROVE  Nested(s, B2)
BY DEF Nested

\* The innermost call goes on.
LEMMA NestedGoto ==
    ASSUME NEW s \in Seq(Frame), s # <<>>, NEW B, NEW B2, Nested(s, B), B \subseteq B2,
           NEW g, g.res = Last(s).res,
           g.pc \in LoopPc => Last(s).pc \in LoopPc,
           g.pc \notin LoopPc \cup FirstPc => g.res \in B2
    PROVE  Nested(Append(Front(s), g), B2)
<1> DEFINE t == Append(Front(s), g)
<1>1. /\ Len(t) = Len(s) /\ DOMAIN t = DOMAIN s
      /\ Len(s) \in DOMAIN s /\ t[Len(s)] = g /\ Last(s) = s[Len(s)]
      /\ \A k \in DOMAIN s : k # Len(s) => t[k] = s[k]
  <2>1. s \in Seq(Frame \cup {g})
    BY SeqMonotonic
  <2> QED  BY <2>1, ReplaceLast
<1> HIDE DEF t
<1>2. \A k \in DOMAIN s : t[k].res = s[k].res
  BY <1>1
<1>3. \A j, k \in DOMAIN t : t[j].res = t[k].res => j = k
  BY <1>1, <1>2 DEF Nested
<1>4. \A k \in DOMAIN t :
          /\ t[k].pc \in LoopPc => k = 1
          /\ t[k].pc \in FirstPc => k = Len(t)
          /\ t[k].pc \notin LoopPc \cup FirstPc => t[k].res \in B2
  BY <1>1 DEF Nested
<1>5. Nested(t, B2)
  BY <1>3, <1>4 DEF Nested
<1> QED  BY <1>5 DEF t

\* It ends: its own resource need not be busy any more.
LEMMA NestedPop ==
    ASSUME NEW s \in Seq(Frame), s # <<>>, NEW B, NEW B2, Nested(s, B),
           B \ {Last(s).res} \subseteq B2
    PROVE  Nested(Front(s), B2)
<1> DEFINE t == Front(s)
<1>1. /\ Last(s) = s[Len(s)] /\ Len(s) \in DOMAIN s
      /\ \A k \in DOMAIN t : k \in DOMAIN s /\ t[k] = s[k]
  BY FrontLast
<1>2. \A k \in DOMAIN t : k # Len(s)
  BY FrontShorter
<1> HIDE DEF t
<1>3. \A k \in DOMAIN t : s[k].res # Last(s).res /\ s[k].pc \notin FirstPc
  BY <1>1, <1>2 DEF Nested
<1>4. \A k \in DOMAIN t :
          /\ t[k].pc \in LoopPc => k = 1
          /\ t[k].pc \notin FirstPc
          /\ t[k].pc \notin LoopPc \cup FirstPc => t[k].res \in B2
  BY <1>1, <1>3 DEF Nested
<1>5. \A j, k \in DOMAIN t : t[j].res = t[k].res => j = k
  BY <1>1 DEF Nested
<1>6. Nested(t, B2)
  BY <1>4, <1>5 DEF Nested
<1> QED  BY <1>6 DEF t

\* A call for a resource that is not busy, from a frame that is not at the
\* start itself.
LEMMA NestedCall ==
    ASSUME NEW s \in Seq(Frame), NEW B, Nested(s, B),
           \A k \in DOMAIN s : s[k].pc \notin FirstPc,
           NEW f \in Frame, f.pc = "lookup", f.res \in Resource,
           f.res \notin B \/ \A k \in DOMAIN s : s[k].pc \in LoopPc
    PROVE  Nested(Append(s, f), B)
<1> DEFINE t == Append(s, f)
<1>1. /\ Len(t) = Len(s) + 1 /\ Len(s) \in Nat
      /\ DOMAIN s = 1..Len(s) /\ DOMAIN t = 1..Len(s) + 1
      /\ t[Len(s) + 1] = f
      /\ \A k \in DOMAIN s : t[k] = s[k] /\ s[k] \in Frame
  <2>1. t \in Seq(Frame) /\ Len(t) = Len(s) + 1 /\ t[Len(s) + 1] = f
        /\ \A k \in 1..Len(s) : t[k] = s[k]
    BY AppendProperties
  <2> HIDE DEF t
  <2> QED  BY <2>1, LenProperties, ElementOfSeq
<1> HIDE DEF t
<1>2. \A k \in DOMAIN s : s[k].res # f.res
  <2> SUFFICES ASSUME NEW k \in DOMAIN s  PROVE s[k].res # f.res
    OBVIOUS
  <2>1. s[k].pc \in LoopPc => s[k].res = NoResource
    BY <1>1 DEF LoopPc, Frame, CallFrame, LoopFrame, FrameOf, ParentPc, MigratedPc
  <2>2. s[k].pc \notin LoopPc => s[k].res \in B
    BY DEF Nested
  <2> QED  BY <2>1, <2>2, ResourceAssumption
<1>3. \A j, k \in DOMAIN t : t[j].res = t[k].res => j = k
  <2> SUFFICES ASSUME NEW j \in DOMAIN t, NEW k \in DOMAIN t, t[j].res = t[k].res
               PROVE  j = k
    OBVIOUS
  <2>1. \A i \in DOMAIN t : i \in DOMAIN s \/ i = Len(s) + 1
    BY <1>1
  <2> QED  BY <1>1, <1>2, <2>1 DEF Nested
<1>4. \A k \in DOMAIN t :
          /\ t[k].pc \in LoopPc => k = 1
          /\ t[k].pc \in FirstPc => k = Len(t)
          /\ t[k].pc \notin LoopPc \cup FirstPc => t[k].res \in B
  <2> SUFFICES ASSUME NEW k \in DOMAIN t
               PROVE  /\ t[k].pc \in LoopPc => k = 1
                      /\ t[k].pc \in FirstPc => k = Len(t)
                      /\ t[k].pc \notin LoopPc \cup FirstPc => t[k].res \in B
    OBVIOUS
  <2>1. CASE k \in DOMAIN s
    BY <1>1, <2>1 DEF Nested
  <2>2. CASE k = Len(s) + 1
    BY <1>1, <2>2 DEF LoopPc, FirstPc
  <2> QED  BY <1>1, <2>1, <2>2
<1>5. Nested(t, B)
  BY <1>3, <1>4 DEF Nested
<1> QED  BY <1>5 DEF t

LEMMA NestedEmpty ==
    ASSUME NEW B
    PROVE  Nested(<<>>, B)
BY EmptySeq DEF Nested

-----------------------------------------------------------------------------
(* Records.                                                                *)

\* A change of records in place that fails none of those of a resource.
LEMMA BusyKept ==
    ASSUME NEW r \in Busy, DOMAIN db' = DOMAIN db,
           \A i \in DOMAIN db :
              /\ db'[i].source = db[i].source
              /\ db'[i].archived = db[i].archived
              /\ \/ db'[i].status = db[i].status
                 \/ db'[i].status \in LIST_STATUS_MIGRATED
                 \/ db[i].source # r
    PROVE  r \in Busy'
<1>1. Newest(r)' = Newest(r)
  BY DEF Newest
<1>2. PICK i \in Newest(r) : db[i].status \in LIST_STATUS_MIGRATED \cup {STATUS_IN_PROGRESS}
  BY DEF Busy, IsMigrated, IsInProgress
<1>3. i \in DOMAIN db /\ db[i].source = r
  BY <1>2 DEF Newest
<1>4. db'[i].status \in LIST_STATUS_MIGRATED \cup {STATUS_IN_PROGRESS}
  BY <1>2, <1>3
<1> QED  BY <1>1, <1>2, <1>4 DEF Busy, IsMigrated, IsInProgress

\* Setting the status of a record, or another field of it.
LEMMA StatusField ==
    ASSUME db \in Seq(Migration), NEW i, NEW v, db' = [db EXCEPT ![i].status = v]
    PROVE  /\ DOMAIN db' = DOMAIN db
           /\ \A j \in DOMAIN db :
                 /\ db'[j].source = db[j].source
                 /\ db'[j].archived = db[j].archived
                 /\ db'[j].status = db[j].status \/ (j = i /\ db'[j].status = v)
<1>1. DOMAIN db = 1..Len(db) /\ \A j \in DOMAIN db : db[j] \in Migration
  BY LenProperties, ElementOfSeq
<1> QED  BY <1>1 DEF Migration

LEMMA OtherField ==
    ASSUME db \in Seq(Migration), NEW i, NEW v,
           db' = [db EXCEPT ![i].dest = v] \/ db' = [db EXCEPT ![i].removed = v]
    PROVE  /\ DOMAIN db' = DOMAIN db
           /\ \A j \in DOMAIN db :
                 /\ db'[j].source = db[j].source
                 /\ db'[j].archived = db[j].archived
                 /\ db'[j].status = db[j].status
<1>1. DOMAIN db = 1..Len(db) /\ \A j \in DOMAIN db : db[j] \in Migration
  BY LenProperties, ElementOfSeq
<1> QED  BY <1>1 DEF Migration

\* A record that is given a migrated status, a destination, or that is told
\* that its source is gone.
LEMMA BusyMigrated ==
    ASSUME db \in Seq(Migration), NEW i, NEW v,
           \/ v \in LIST_STATUS_MIGRATED /\ db' = [db EXCEPT ![i].status = v]
           \/ db' = [db EXCEPT ![i].dest = v]
           \/ db' = [db EXCEPT ![i].removed = v]
    PROVE  Busy \subseteq Busy'
<1>1. CASE v \in LIST_STATUS_MIGRATED /\ db' = [db EXCEPT ![i].status = v]
  BY <1>1, StatusField, BusyKept
<1>2. CASE db' = [db EXCEPT ![i].dest = v] \/ db' = [db EXCEPT ![i].removed = v]
  BY <1>2, OtherField, BusyKept
<1> QED  BY <1>1, <1>2

\* A migration fails: only its own resource stops being busy.
LEMMA BusyFailed ==
    ASSUME db \in Seq(Migration), NEW i \in DOMAIN db,
           db' = [db EXCEPT ![i].status = STATUS_FAILED]
    PROVE  Busy \ {db[i].source} \subseteq Busy'
BY StatusField, BusyKept

\* A migration is created: its resource is busy.
LEMMA BusyCreated ==
    ASSUME db \in Seq(Migration), NEW m \in Migration,
           m.status \in LIST_STATUS_MIGRATED \cup {STATUS_IN_PROGRESS},
           ~m.archived, db' = Append(db, m)
    PROVE  Busy \cup {m.source} \subseteq Busy'
<1>1. /\ DOMAIN db = 1..Len(db) /\ Len(db) \in Nat
      /\ DOMAIN db' = 1..Len(db) + 1
      /\ \A j \in DOMAIN db : db'[j] = db[j]
      /\ db'[Len(db) + 1] = m
  BY AppendProperties, LenProperties
<1>2. m.source \in Busy'
  <2>1. Len(db) + 1 \in Newest(m.source)'
    BY <1>1 DEF Newest
  <2>2. m.source \in Resource
    BY DEF Migration
  <2>3. CASE m.status = STATUS_IN_PROGRESS
    BY <1>1, <2>1, <2>2, <2>3 DEF Busy, IsInProgress
  <2>4. CASE m.status \in LIST_STATUS_MIGRATED
    BY <1>1, <2>1, <2>2, <2>4 DEF Busy, IsMigrated
  <2> QED  BY <2>3, <2>4
<1>3. ASSUME NEW r \in Busy, r # m.source  PROVE r \in Busy'
  <2>1. PICK i \in Newest(r) : db[i].status \in LIST_STATUS_MIGRATED \cup {STATUS_IN_PROGRESS}
    BY DEF Busy, IsMigrated, IsInProgress
  <2>2. /\ i \in DOMAIN db /\ db[i].source = r /\ ~db[i].archived
        /\ \A j \in DOMAIN db : db[j].source = r /\ ~db[j].archived => j <= i
    BY <2>1 DEF Newest
  <2>3. \A j \in DOMAIN db' : db'[j].source = r => j \in DOMAIN db
    BY <1>1, <1>3
  <2>4. i \in Newest(r)' /\ db'[i].status = db[i].status
    BY <1>1, <2>2, <2>3 DEF Newest
  <2> QED  BY <2>1, <2>4 DEF Busy, IsMigrated, IsInProgress
<1> QED  BY <1>2, <1>3

-----------------------------------------------------------------------------
(* Steps of the only invocation.                                           *)

\* The stack that p steps to is as it should be.
LEMMA OnlyStack ==
    ASSUME OneAtATime, IInv, NEW p \in Proc, NEW t,
           stack' = [stack EXCEPT ![p] = t], Nested(t, Busy')
    PROVE  RecursionInv'
<1>1. stack'[p] = t
  BY DEF IInv, TypeOK
<1>2. \A q \in Proc : Nested(stack'[q], Busy')
  BY <1>1 DEF OneAtATime
<1> QED  BY <1>2 DEF RecursionInv

LEMMA StackFacts ==
    ASSUME IInv, RecursionInv, NEW p \in Proc, ~Idle(p)
    PROVE  /\ stack[p] \in Seq(Frame) /\ stack[p] # <<>>
           /\ Nested(stack[p], Busy)
           /\ Top(p) = Last(stack[p]) /\ Top(p) \in Frame
           /\ db \in Seq(Migration)
           /\ Top(p).pc \notin LoopPc => Top(p).res \in Resource
           /\ Top(p).pc \notin LoopPc \cup FirstPc => Top(p).res \in Busy
<1>1. /\ stack[p] \in Seq(Frame) /\ stack[p] # <<>> /\ db \in Seq(Migration)
      /\ Nested(stack[p], Busy) /\ Top(p) = Last(stack[p])
  BY DEF IInv, TypeOK, RecursionInv, Idle, Top
<1>2. Last(stack[p]) = stack[p][Len(stack[p])] /\ Len(stack[p]) \in DOMAIN stack[p]
  BY <1>1, FrontLast
<1>3. Top(p) \in Frame /\ (Top(p).pc \notin LoopPc => Top(p).res \in Resource)
  BY AtTop DEF LoopPc
<1> QED  BY <1>1, <1>2, <1>3 DEF Nested

\* The innermost frame goes on and nothing becomes idle.
LEMMA GotoNested ==
    ASSUME OneAtATime, IInv, RecursionInv, NEW p \in Proc, ~Idle(p),
           Busy \subseteq Busy', NEW g, Goto(p, g), g.res = Top(p).res,
           g.pc \in LoopPc => Top(p).pc \in LoopPc,
           g.pc \notin LoopPc \cup FirstPc => g.res \in Busy'
    PROVE  RecursionInv'
<1>1. Nested(Append(Front(stack[p]), g), Busy')
  BY StackFacts, NestedGoto
<1> QED  BY <1>1, OnlyStack DEF Goto

\* A frame ends with an exception, after the failure of a record of its own
\* resource or of none.
LEMMA RaiseNested ==
    ASSUME OneAtATime, IInv, RecursionInv, NEW p \in Proc, ~Idle(p), Raise(p),
           Busy \ {Top(p).res} \subseteq Busy'
    PROVE  RecursionInv'
<1>1. Nested(Front(stack[p]), Busy')
  BY StackFacts, NestedPop
<1> QED  BY <1>1, OnlyStack DEF Raise

\* The innermost frame goes on at q.
Advance(p, q) == \E g : Goto(p, g) /\ g.res = Top(p).res /\ g.pc = q

LEMMA AdvanceNested ==
    ASSUME OneAtATime, IInv, RecursionInv, NEW p \in Proc, ~Idle(p),
           Busy \subseteq Busy', NEW q, Advance(p, q),
           q \in LoopPc => Top(p).pc \in LoopPc,
           q \notin LoopPc \cup FirstPc => Top(p).res \in Busy'
    PROVE  RecursionInv'
BY GotoNested DEF Advance

\* What the steps set in a frame is not its resource.
LEMMA SetFields ==
    ASSUME NEW f \in Frame, NEW q, NEW t, NEW i
    PROVE  /\ LET g == [f EXCEPT !.todo = t] IN g.res = f.res /\ g.pc = f.pc
           /\ LET g == [f EXCEPT !.cur = i] IN g.res = f.res /\ g.pc = f.pc
           /\ LET g == [f EXCEPT !.pc = q] IN g.res = f.res /\ g.pc = q
           /\ LET g == [f EXCEPT !.pc = q, !.rec = i] IN g.res = f.res /\ g.pc = q
           /\ LET g == [f EXCEPT !.pc = q, !.todo = t] IN g.res = f.res /\ g.pc = q
           /\ LET g == [f EXCEPT !.cur = i, !.queue = t, !.pc = q]
              IN  g.res = f.res /\ g.pc = q
           /\ LET g == [f EXCEPT !.queue = t] IN g.res = f.res /\ g.pc = f.pc
           /\ LET g == [f EXCEPT !.got = t] IN g.res = f.res /\ g.pc = f.pc
BY DEF Frame, CallFrame, LoopFrame, FrameOf

LEMMA AdvanceForms ==
    ASSUME NEW p \in Proc, Top(p) \in Frame, NEW q, NEW t, NEW i
    PROVE  /\ Goto(p, [Top(p) EXCEPT !.todo = t]) => Advance(p, Top(p).pc)
           /\ Goto(p, [Top(p) EXCEPT !.cur = i]) => Advance(p, Top(p).pc)
           /\ Goto(p, [Top(p) EXCEPT !.pc = q]) => Advance(p, q)
           /\ Goto(p, [Top(p) EXCEPT !.pc = q, !.rec = i]) => Advance(p, q)
           /\ Goto(p, [Top(p) EXCEPT !.pc = q, !.todo = t]) => Advance(p, q)
           /\ Goto(p, [Top(p) EXCEPT !.cur = i, !.queue = t, !.pc = q]) => Advance(p, q)
<1>1. \A g : Goto(p, g) /\ g.res = Top(p).res => Advance(p, g.pc)
  BY DEF Advance
<1>2. Goto(p, [Top(p) EXCEPT !.todo = t]) => Advance(p, Top(p).pc)
  <2> DEFINE g == [Top(p) EXCEPT !.todo = t]
  <2>1. g.res = Top(p).res /\ g.pc = Top(p).pc
    BY SetFields
  <2> HIDE DEF g
  <2>2. Goto(p, g) => Advance(p, Top(p).pc)
    BY <1>1, <2>1
  <2> QED  BY <2>2 DEF g
<1>3. Goto(p, [Top(p) EXCEPT !.cur = i]) => Advance(p, Top(p).pc)
  <2> DEFINE g == [Top(p) EXCEPT !.cur = i]
  <2>1. g.res = Top(p).res /\ g.pc = Top(p).pc
    BY SetFields
  <2> HIDE DEF g
  <2>2. Goto(p, g) => Advance(p, Top(p).pc)
    BY <1>1, <2>1
  <2> QED  BY <2>2 DEF g
<1>4. Goto(p, [Top(p) EXCEPT !.pc = q]) => Advance(p, q)
  <2> DEFINE g == [Top(p) EXCEPT !.pc = q]
  <2>1. g.res = Top(p).res /\ g.pc = q
    BY SetFields
  <2> HIDE DEF g
  <2>2. Goto(p, g) => Advance(p, q)
    BY <1>1, <2>1
  <2> QED  BY <2>2 DEF g
<1>5. Goto(p, [Top(p) EXCEPT !.pc = q, !.rec = i]) => Advance(p, q)
  <2> DEFINE g == [Top(p) EXCEPT !.pc = q, !.rec = i]
  <2>1. g.res = Top(p).res /\ g.pc = q
    BY SetFields
  <2> HIDE DEF g
  <2>2. Goto(p, g) => Advance(p, q)
    BY <1>1, <2>1
  <2> QED  BY <2>2 DEF g
<1>6. Goto(p, [Top(p) EXCEPT !.pc = q, !.todo = t]) => Advance(p, q)
  <2> DEFINE g == [Top(p) EXCEPT !.pc = q, !.todo = t]
  <2>1. g.res = Top(p).res /\ g.pc = q
    BY SetFields
  <2> HIDE DEF g
  <2>2. Goto(p, g) => Advance(p, q)
    BY <1>1, <2>1
  <2> QED  BY <2>2 DEF g
<1>7. Goto(p, [Top(p) EXCEPT !.cur = i, !.queue = t, !.pc = q]) => Advance(p, q)
  <2> DEFINE g == [Top(p) EXCEPT !.cur = i, !.queue = t, !.pc = q]
  <2>1. g.res = Top(p).res /\ g.pc = q
    BY SetFields
  <2> HIDE DEF g
  <2>2. Goto(p, g) => Advance(p, q)
    BY <1>1, <2>1
  <2> QED  BY <2>2 DEF g
<1> QED  BY <1>2, <1>3, <1>4, <1>5, <1>6, <1>7

\* Busy resources depend on nothing but the records.
LEMMA SameRecords ==
    ASSUME UNCHANGED db
    PROVE  Busy' = Busy
BY DEF Busy, IsMigrated, IsInProgress, Newest

\* Steps of the innermost frame that change no record.
LEMMA QuietSteps ==
    ASSUME OneAtATime, IInv, RecursionInv, NEW p \in Proc,
           \/ SkipInBatch(p) \/ SkipDependency(p) \/ SkipMember(p)
           \/ LookUpMigration(p) \/ GetAssociatedResources(p) \/ RecheckDependencies(p)
           \/ GetMemberResources(p) \/ ConnectMembers(p) \/ HandlerMigrates(p)
           \/ DeleteSource(p)
    PROVE  RecursionInv'
<1>1. ~Idle(p)
  BY DEF SkipInBatch, SkipDependency, SkipMember, LookUpMigration,
     GetAssociatedResources, RecheckDependencies, GetMemberResources,
     ConnectMembers, HandlerMigrates, DeleteSource, At, CleaningUp
<1>2. Busy' = Busy
  BY SameRecords DEF SkipInBatch, SkipDependency, SkipMember, LookUpMigration,
     GetAssociatedResources, RecheckDependencies, GetMemberResources,
     ConnectMembers, HandlerMigrates, DeleteSource, Move
<1>3. Top(p) \in Frame
  BY <1>1, StackFacts
<1>4. CASE SkipInBatch(p) \/ SkipDependency(p) \/ SkipMember(p) \/ DeleteSource(p)
  <2>1. \/ \E t : Goto(p, [Top(p) EXCEPT !.todo = t])
        \/ \E i : Goto(p, [Top(p) EXCEPT !.cur = i])
    BY <1>4 DEF SkipInBatch, SkipDependency, SkipMember, DeleteSource, Move
  <2>2. Advance(p, Top(p).pc)
    BY <1>3, <2>1, AdvanceForms
  <2> QED  BY <1>1, <1>2, <2>2, StackFacts, AdvanceNested
<1>5. CASE LookUpMigration(p)
  <2>1. Goto(p, [Top(p) EXCEPT !.pc = "create"])
    BY <1>5 DEF LookUpMigration, Move
  <2>2. Advance(p, "create")
    BY <1>3, <2>1, AdvanceForms
  <2> QED  BY <1>1, <1>2, <2>2, AdvanceNested DEF FirstPc, LoopPc
<1>6. CASE GetAssociatedResources(p) \/ GetMemberResources(p)
  <2>1. /\ Top(p).pc \in {"assoc", "listMembers"}
        /\ \/ Goto(p, [Top(p) EXCEPT !.pc = "perform"])
           \/ \E t : Goto(p, [Top(p) EXCEPT !.pc = "deps", !.todo = t])
           \/ \E t : Goto(p, [Top(p) EXCEPT !.pc = "members", !.todo = t])
    BY <1>6 DEF GetAssociatedResources, GetMemberResources, Move, At
  <2>2. PICK q \in {"perform", "deps", "members"} : Advance(p, q)
    BY <1>3, <2>1, AdvanceForms
  <2>3. Top(p).res \in Busy
    BY <1>1, <2>1, StackFacts DEF FirstPc, LoopPc
  <2> QED  BY <1>1, <1>2, <2>2, <2>3, AdvanceNested DEF FirstPc, LoopPc
<1>7. CASE RecheckDependencies(p) \/ ConnectMembers(p) \/ HandlerMigrates(p)
  <2>1. /\ Top(p).pc \in {"deps", "members", "perform"}
        /\ \E q \in {"perform", "saveDest", "pendingCleanup", "complete"} :
              Goto(p, [Top(p) EXCEPT !.pc = q])
    BY <1>7 DEF RecheckDependencies, ConnectMembers, HandlerMigrates, Move, At,
       AfterMembers
  <2>2. PICK q \in {"perform", "saveDest", "pendingCleanup", "complete"} : Advance(p, q)
    BY <1>3, <2>1, AdvanceForms
  <2>3. Top(p).res \in Busy
    BY <1>1, <2>1, StackFacts DEF FirstPc, LoopPc
  <2> QED  BY <1>1, <1>2, <2>2, <2>3, AdvanceNested DEF FirstPc, LoopPc
<1> QED  BY <1>4, <1>5, <1>6, <1>7

\* A resource that is migrated already needs no other record.
LEMMA ReuseNested ==
    ASSUME OneAtATime, IInv, RecursionInv, NEW p \in Proc, ReuseMigration(p)
    PROVE  RecursionInv'
<1>1. ~Idle(p) /\ Top(p).pc = "lookup" /\ Busy' = Busy
  BY SameRecords DEF ReuseMigration, At, Move
<1>2. PICK i \in Newest(Top(p).res) :
         /\ db[i].status \in LIST_STATUS_MIGRATED
         /\ Goto(p, [Top(p) EXCEPT !.pc = "migrated", !.rec = i])
  BY DEF ReuseMigration, Move
<1>3. Top(p) \in Frame /\ Top(p).res \in Resource
  BY <1>1, StackFacts DEF LoopPc
<1>4. Top(p).res \in Busy
  BY <1>2, <1>3 DEF Busy, IsMigrated
<1>5. Advance(p, "migrated")
  BY <1>2, <1>3, AdvanceForms
<1> QED  BY <1>1, <1>4, <1>5, AdvanceNested DEF FirstPc, LoopPc

\* Calls: what is busy is skipped.
LEMMA CallNested ==
    ASSUME OneAtATime, IInv, RecursionInv, NEW p \in Proc,
           MigrateInBatch(p) \/ MigrateDependency(p) \/ MigrateMember(p)
    PROVE  RecursionInv'
<1>1. ~Idle(p) /\ Top(p).pc \in {"batch", "deps", "members"} /\ UNCHANGED db
  BY DEF MigrateInBatch, MigrateDependency, MigrateMember, At, Call
<1>2. PICK d \in Top(p).todo, c \in {Top(p).cleanup, FALSE} :
         /\ Top(p).pc # "batch" => ~IsMigrated(d) /\ ~IsInProgress(d)
         /\ Call(p, [Top(p) EXCEPT !.todo = Top(p).todo \ {d}], NewFrame("lookup", d, c))
  BY DEF MigrateInBatch, MigrateDependency, MigrateMember, At
<1> DEFINE f == [Top(p) EXCEPT !.todo = Top(p).todo \ {d}]
           g == NewFrame("lookup", d, c)
           s == Append(Front(stack[p]), f)
<1>3. /\ stack[p] \in Seq(Frame) /\ stack[p] # <<>> /\ Nested(stack[p], Busy)
      /\ Top(p) = Last(stack[p]) /\ Top(p) \in Frame
      /\ Top(p).pc \notin LoopPc \cup FirstPc => Top(p).res \in Busy
  BY <1>1, StackFacts
<1>4. Top(p).todo \in SUBSET Resource /\ d \in Resource
  BY <1>1, <1>2, AtTop
<1>5. f \in Frame /\ f.pc = Top(p).pc /\ f.res = Top(p).res
  BY <1>3, <1>4, SetFields, FrameFields
<1>6. g \in Frame /\ g.pc = "lookup" /\ g.res = d
  <2>1. c \in BOOLEAN
    BY <1>1, <1>2, AtTop
  <2> QED  BY <1>4, <2>1, NewCall DEF NewFrame
<1> HIDE DEF f, g
<1>7. Nested(s, Busy)
  BY <1>3, <1>5, NestedGoto
<1>8. /\ s \in Seq(Frame) /\ Len(s) = Len(stack[p]) /\ DOMAIN s = DOMAIN stack[p]
      /\ s[Len(s)] = f /\ Len(s) \in DOMAIN s /\ DOMAIN s = 1..Len(s) /\ Len(s) \in Nat
  BY <1>3, <1>5, ReplaceLast, LenProperties
<1>9. \A k \in DOMAIN s : s[k].pc \notin FirstPc
  BY <1>1, <1>5, <1>7, <1>8 DEF Nested, FirstPc
<1>10. d \notin Busy \/ \A k \in DOMAIN s : s[k].pc \in LoopPc
  <2>1. CASE Top(p).pc = "batch"
    <3>1. Len(s) = 1
      BY <1>5, <1>7, <1>8, <2>1 DEF Nested, LoopPc
    <3> QED  BY <1>5, <1>8, <2>1, <3>1 DEF LoopPc
  <2>2. CASE Top(p).pc # "batch"
    BY <1>2, <2>2 DEF Busy
  <2> QED  BY <2>1, <2>2
<1> HIDE DEF s
<1>11. Nested(Append(s, g), Busy)
  BY <1>4, <1>6, <1>7, <1>8, <1>9, <1>10, NestedCall
<1>12. Busy' = Busy /\ stack' = [stack EXCEPT ![p] = Append(s, g)]
  BY <1>1, <1>2, SameRecords DEF Call, s, f, g
<1> QED  BY <1>11, <1>12, OnlyStack

\* A migration is created.
LEMMA CreateNested ==
    ASSUME OneAtATime, IInv, RecursionInv, NEW p \in Proc, CreateMigration(p)
    PROVE  RecursionInv'
<1> DEFINE m == [source |-> Top(p).res, status |-> STATUS_IN_PROGRESS,
                 dest |-> NoDest, removed |-> FALSE, archived |-> FALSE]
<1>1. /\ ~Idle(p) /\ Top(p).pc = "create" /\ db' = Append(db, m)
      /\ Goto(p, [Top(p) EXCEPT !.pc = "assoc", !.rec = Len(db) + 1])
  BY DEF CreateMigration, At
<1>2. Top(p) \in Frame /\ Top(p).res \in Resource /\ db \in Seq(Migration)
  BY <1>1, StackFacts DEF LoopPc
<1>3. m \in Migration /\ m.status = STATUS_IN_PROGRESS /\ ~m.archived
      /\ m.source = Top(p).res
  BY <1>2 DEF Migration, Status
<1> HIDE DEF m
<1>4. Busy \cup {Top(p).res} \subseteq Busy'
  BY <1>1, <1>2, <1>3, BusyCreated
<1>5. Advance(p, "assoc")
  BY <1>1, <1>2, AdvanceForms
<1> QED  BY <1>1, <1>2, <1>4, <1>5, AdvanceNested DEF FirstPc, LoopPc

\* Steps that bring the record of a migrated resource up to date.
LEMMA RecordSteps ==
    ASSUME OneAtATime, IInv, RecursionInv, NEW p \in Proc,
           \/ SaveDestination(p) \/ MarkPendingMembers(p) \/ MarkPendingCleanup(p)
           \/ MarkSourceRemoved(p)
    PROVE  RecursionInv'
<1>1. ~Idle(p)
  BY DEF SaveDestination, MarkPendingMembers, MarkPendingCleanup, MarkSourceRemoved, At
<1>2. Top(p) \in Frame /\ db \in Seq(Migration)
  BY <1>1, StackFacts
<1>3. Busy \subseteq Busy'
  <2>1. CASE SaveDestination(p)
    BY <1>2, <2>1, BusyMigrated DEF SaveDestination
  <2>2. CASE MarkPendingMembers(p) \/ MarkPendingCleanup(p)
    BY <1>2, <2>2, BusyMigrated DEF MarkPendingMembers, MarkPendingCleanup, SetStatus,
       LIST_STATUS_MIGRATED
  <2>3. CASE MarkSourceRemoved(p)
    BY <1>2, <2>3, BusyMigrated DEF MarkSourceRemoved
  <2> QED  BY <2>1, <2>2, <2>3
<1>4. CASE SaveDestination(p) \/ MarkPendingMembers(p) \/ MarkPendingCleanup(p)
  <2>1. /\ Top(p).pc \in {"saveDest", "migrated", "pendingCleanup"}
        /\ \E q \in {"migrated", "listMembers", "pendingCleanup", "complete", "cleanOwn"} :
              Goto(p, [Top(p) EXCEPT !.pc = q])
    BY <1>4 DEF SaveDestination, MarkPendingMembers, MarkPendingCleanup, At, AfterMembers
  <2>2. PICK q \in {"migrated", "listMembers", "pendingCleanup", "complete", "cleanOwn"} :
           Advance(p, q)
    BY <1>2, <2>1, AdvanceForms
  <2>3. Top(p).res \in Busy
    BY <1>1, <2>1, StackFacts DEF FirstPc, LoopPc
  <2> QED  BY <1>1, <1>3, <2>2, <2>3, AdvanceNested DEF FirstPc, LoopPc
<1>5. CASE MarkSourceRemoved(p)
  <2> DEFINE q == AfterRemoval(Top(p))
  <2>1. /\ Top(p).pc \in {"cleanOwn", "cleanAssoc", "sweep"}
        /\ Goto(p, [Top(p) EXCEPT !.cur = 0, !.queue = Remaining(Top(p)), !.pc = q])
    BY <1>5 DEF MarkSourceRemoved
  <2>2. q \in IF Top(p).pc = "sweep" THEN {"sweep"} ELSE {"complete", "cleanAssoc"}
    BY DEF AfterRemoval
  <2>3. Top(p).pc # "sweep" => Top(p).res \in Busy
    BY <1>1, <2>1, StackFacts DEF FirstPc, LoopPc
  <2> HIDE DEF q
  <2>4. Advance(p, q)
    BY <1>2, <2>1, AdvanceForms
  <2> QED  BY <1>1, <1>3, <2>1, <2>2, <2>3, <2>4, AdvanceNested DEF FirstPc, LoopPc
<1> QED  BY <1>4, <1>5

\* A migration fails: its record is of the resource of its frame.
LEMMA FailNested ==
    ASSUME OneAtATime, IInv, RecursionInv, NEW p \in Proc,
           \/ RefusePendingDependencies(p) \/ RefuseUnmigratedDependencies(p)
           \/ GetAssociatedResourcesFails(p) \/ HandlerFails(p) \/ DependencyFailed(p)
    PROVE  RecursionInv'
<1>1. ~Idle(p) /\ Top(p).pc \in {"assoc", "deps", "perform"} /\ FailMigration(p)
  BY DEF RefusePendingDependencies, RefuseUnmigratedDependencies,
     GetAssociatedResourcesFails, HandlerFails, DependencyFailed, At, RaisedTo
<1>2. Top(p).rec \in DOMAIN db /\ db[Top(p).rec].source = Top(p).res
  BY <1>1, AtTop DEF FrameOK, ParentPc
<1>3. Busy \ {Top(p).res} \subseteq Busy'
  BY <1>1, <1>2, StackFacts, BusyFailed DEF FailMigration, SetStatus
<1> QED  BY <1>1, <1>3, RaiseNested DEF FailMigration

\* An exception that leaves the record of the frame migrated, or as it is.
LEMMA RaiseStepsNested ==
    ASSUME OneAtATime, IInv, RecursionInv, NEW p \in Proc,
           GetMemberResourcesFails(p) \/ BatchFailed(p) \/ DeleteSourceFails(p)
    PROVE  RecursionInv'
<1>1. ~Idle(p) /\ Raise(p)
  BY DEF GetMemberResourcesFails, BatchFailed, DeleteSourceFails, At, RaisedTo, CleaningUp
<1>2. Busy \subseteq Busy'
  <2>1. CASE GetMemberResourcesFails(p) \/ BatchFailed(p)
    BY <2>1, SameRecords DEF GetMemberResourcesFails, BatchFailed
  <2>2. CASE DeleteSourceFails(p)
    <3>1. PICK i : db' = [db EXCEPT ![i].status = STATUS_SOURCE_CLEANUP_FAILED]
      BY <2>2 DEF DeleteSourceFails, SetStatus
    <3>2. STATUS_SOURCE_CLEANUP_FAILED \in LIST_STATUS_MIGRATED
      BY DEF LIST_STATUS_MIGRATED
    <3> QED  BY <1>1, <3>1, <3>2, StackFacts, BusyMigrated
  <2> QED  BY <2>1, <2>2
<1> QED  BY <1>1, <1>2, RaiseNested

LEMMA ResumedFields ==
    ASSUME NEW f \in Frame, NEW g
    PROVE  Resumed(f, g).pc = f.pc /\ Resumed(f, g).res = f.res
<1>1. CASE Resumed(f, g) = f
  BY <1>1
<1>2. CASE Resumed(f, g) = [f EXCEPT !.queue = f.queue \cup {g.rec}]
  <2> DEFINE t == f.queue \cup {g.rec}
             h == [f EXCEPT !.queue = t]
  <2> HIDE DEF t
  <2>1. h.pc = f.pc /\ h.res = f.res
    BY SetFields
  <2> HIDE DEF h
  <2>2. Resumed(f, g) = h
    BY <1>2 DEF h, t
  <2> QED  BY <2>1, <2>2
<1>3. CASE Resumed(f, g) = [f EXCEPT !.got = f.got \cup {g.rec}]
  <2> DEFINE t == f.got \cup {g.rec}
             h == [f EXCEPT !.got = t]
  <2> HIDE DEF t
  <2>1. h.pc = f.pc /\ h.res = f.res
    BY SetFields
  <2> HIDE DEF h
  <2>2. Resumed(f, g) = h
    BY <1>3 DEF h, t
  <2> QED  BY <2>1, <2>2
<1> QED  BY <1>1, <1>2, <1>3 DEF Resumed

\* A migration is completed and its frame returns to the one that called it.
LEMMA CompleteNested ==
    ASSUME OneAtATime, IInv, RecursionInv, NEW p \in Proc, CompleteMigration(p)
    PROVE  RecursionInv'
<1> DEFINE below == Front(stack[p])
<1>1. ~Idle(p) /\ Return(p) /\ db' = [db EXCEPT ![Top(p).rec].status = STATUS_COMPLETED]
  BY DEF CompleteMigration, At, SetStatus
<1>2. Busy \subseteq Busy'
  BY <1>1, StackFacts, BusyMigrated DEF LIST_STATUS_MIGRATED
<1>3. Nested(below, Busy') /\ below \in Seq(Frame)
  BY <1>1, <1>2, StackFacts, NestedPop, FrontLast
<1>4. CASE below = <<>>
  BY <1>1, <1>4, NestedEmpty, OnlyStack DEF Return
<1>5. CASE below # <<>>
  <2> DEFINE g == Resumed(Last(below), Top(p))
  <2> HIDE DEF below
  <2>1. Last(below) \in Frame
    BY <1>3, <1>5, FrontLast, ElementOfSeq, LenProperties
  <2>2. g.pc = Last(below).pc /\ g.res = Last(below).res
    BY <2>1, ResumedFields
  <2>3. Last(below).pc \notin LoopPc \cup FirstPc => Last(below).res \in Busy'
    BY <1>3, <1>5, FrontLast DEF Nested
  <2> HIDE DEF g
  <2>4. Nested(Append(Front(below), g), Busy')
    BY <1>3, <1>5, <2>2, <2>3, NestedGoto
  <2>5. stack' = [stack EXCEPT ![p] = Append(Front(below), g)]
    BY <1>1, <1>5 DEF Return, below, g
  <2> QED  BY <2>4, <2>5, OnlyStack
<1> QED  BY <1>4, <1>5

\* A command ends, or goes on with the next member.
LEMMA EndNested ==
    ASSUME OneAtATime, IInv, RecursionInv, NEW p \in Proc,
           FinishBatch(p) \/ FinishCleanup(p) \/ Crash(p) \/ MemberFailed(p)
    PROVE  RecursionInv'
<1>1. Busy' = Busy
  BY SameRecords DEF FinishBatch, FinishCleanup, Crash, MemberFailed, Exit
<1>2. CASE FinishBatch(p) \/ FinishCleanup(p) \/ Crash(p)
  BY <1>2, NestedEmpty, OnlyStack DEF FinishBatch, FinishCleanup, Crash, Exit
<1>3. CASE MemberFailed(p)
  BY <1>1, <1>3 DEF MemberFailed, RecursionInv
<1> QED  BY <1>2, <1>3

\* A command starts with a single frame.
LEMMA SingleNested ==
    ASSUME OneAtATime, IInv, RecursionInv, NEW p \in Proc, NEW f,
           f.pc \in LoopPc \cup FirstPc, stack' = [stack EXCEPT ![p] = <<f>>]
    PROVE  RecursionInv'
<1> DEFINE s == <<f>>
<1>1. DOMAIN s = {1} /\ Len(s) = 1 /\ s[1] = f
  OBVIOUS
<1> HIDE DEF s
<1>2. Nested(s, Busy')
  BY <1>1 DEF Nested
<1>3. stack' = [stack EXCEPT ![p] = s]
  BY DEF s
<1> QED  BY <1>2, <1>3, OnlyStack

LEMMA StartNested ==
    ASSUME OneAtATime, IInv, RecursionInv, NEW p \in Proc,
           StartMigration(p) \/ StartBatch(p) \/ StartCleanup(p)
    PROVE  RecursionInv'
<1>1. CASE StartMigration(p)
  <2>1. PICK r, c : stack' = [stack EXCEPT ![p] = <<NewFrame("lookup", r, c)>>]
    BY <1>1 DEF StartMigration, Invoke
  <2> DEFINE f == NewFrame("lookup", r, c)
  <2>2. f.pc \in LoopPc \cup FirstPc
    BY DEF NewFrame, FirstPc
  <2> HIDE DEF f
  <2>3. stack' = [stack EXCEPT ![p] = <<f>>]
    BY <2>1 DEF f
  <2> QED  BY <2>2, <2>3, SingleNested
<1>2. CASE StartBatch(p)
  <2>1. PICK c, t : stack' = [stack EXCEPT ![p] =
                        <<[NewFrame("batch", NoResource, c) EXCEPT !.todo = t]>>]
    BY <1>2 DEF StartBatch, Invoke
  <2> DEFINE f == [NewFrame("batch", NoResource, c) EXCEPT !.todo = t]
  <2>2. f.pc \in LoopPc \cup FirstPc
    BY DEF NewFrame, LoopPc
  <2> HIDE DEF f
  <2>3. stack' = [stack EXCEPT ![p] = <<f>>]
    BY <2>1 DEF f
  <2> QED  BY <2>2, <2>3, SingleNested
<1>3. CASE StartCleanup(p)
  <2>1. PICK t : stack' = [stack EXCEPT ![p] =
                     <<[NewFrame("sweep", NoResource, FALSE) EXCEPT !.queue = t]>>]
    BY <1>3 DEF StartCleanup, Invoke
  <2> DEFINE f == [NewFrame("sweep", NoResource, FALSE) EXCEPT !.queue = t]
  <2>2. f.pc \in LoopPc \cup FirstPc
    BY DEF NewFrame, LoopPc
  <2> HIDE DEF f
  <2>3. stack' = [stack EXCEPT ![p] = <<f>>]
    BY <2>1 DEF f
  <2> QED  BY <2>2, <2>3, SingleNested
<1> QED  BY <1>1, <1>2, <1>3

\* A record is added of a migration done elsewhere.
LEMMA RegisterNested ==
    ASSUME OneAtATime, IInv, RecursionInv, RegisterExternal
    PROVE  RecursionInv'
<1> DEFINE made(r) == NewObject([res |-> r, rec |-> Len(db) + 1])
           entry(r, x) == [source |-> r, status |-> STATUS_COMPLETED, dest |-> x,
                           removed |-> FALSE, archived |-> FALSE]
<1>1. PICK r \in Requested : \E x \in {y \in dest : y.of = r} \cup {made(r)} :
         db' = Append(db, entry(r, x))
  BY DEF RegisterExternal
<1>2. PICK x \in {y \in dest : y.of = r} \cup {made(r)} : db' = Append(db, entry(r, x))
  BY <1>1
<1>3. r \in Resource /\ db \in Seq(Migration) /\ dest \in SUBSET Object
  BY ResourceAssumption DEF IInv, DbOK, DataOK, TypeOK
<1>4. Len(db) + 1 \in Nat
  BY <1>3, LenProperties
<1>5. made(r) \in Object
  BY <1>3, <1>4 DEF NewObject, Object
<1> HIDE DEF made
<1>6. /\ entry(r, x) \in Migration /\ entry(r, x).status = STATUS_COMPLETED
      /\ ~entry(r, x).archived
  BY <1>2, <1>3, <1>5, StatusMembers DEF Migration
<1> HIDE DEF entry
<1>7. Busy \subseteq Busy'
  BY <1>2, <1>3, <1>6, BusyCreated DEF LIST_STATUS_MIGRATED
<1>8. UNCHANGED stack
  BY DEF RegisterExternal, Issue
<1> QED  BY <1>7, <1>8, NestedKept DEF RecursionInv

-----------------------------------------------------------------------------
(* The theorem.                                                            *)

RecordsAreKept == Commands \cap {"delete", "restore"} = {}

LEMMA RecursionNext ==
    ASSUME OneAtATime, RecordsAreKept, IInv, RecursionInv, [Next]_vars
    PROVE  RecursionInv'
<1>1. CASE UNCHANGED vars
  BY <1>1, SameRecords DEF vars, RecursionInv
<1>2. ASSUME NEW p \in Proc, Step(p)  PROVE RecursionInv'
  BY <1>2, QuietSteps, ReuseNested, CallNested, CreateNested, RecordSteps, FailNested,
     RaiseStepsNested, CompleteNested, EndNested DEF Step
<1>3. ASSUME NEW p \in Proc,
             StartMigration(p) \/ StartBatch(p) \/ StartCleanup(p) \/ Crash(p)
      PROVE  RecursionInv'
  BY <1>3, StartNested, EndNested
<1>4. CASE ArchiveMigrations \/ RestoreMigrations
  BY <1>4 DEF ArchiveMigrations, RestoreMigrations, Issue, RecordsAreKept
<1>5. CASE RegisterExternal
  BY <1>5, RegisterNested
<1> QED  BY <1>1, <1>2, <1>3, <1>4, <1>5 DEF Next

\* perform_individual_migration never recurses into a resource it is in the
\* middle of migrating (manager.py:189, 271), for any relations of dependencies
\* and members, cyclic ones included, whatever fails or is killed: as long as
\* one invocation runs at a time and nobody archives, deletes or restores
\* records under it.
THEOREM RecursionEnds ==
    ASSUME OneAtATime, RecordsAreKept
    PROVE  Spec => []NoReentry
<1>1. Init => RecursionInv
  BY NestedEmpty DEF Init, RecursionInv
<1>2. IInv /\ RecursionInv /\ [Next]_vars => RecursionInv'
  BY RecursionNext
<1>3. RecursionInv => NoReentry
  BY DEF RecursionInv, Nested, NoReentry
<1> QED  BY <1>1, <1>2, <1>3, Invariance, PTL DEF Spec

=============================================================================
