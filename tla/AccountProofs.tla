------------------------------ MODULE AccountProofs ------------------------------
(***************************************************************************)
(* What the records of running migrations account for: a record that is in *)
(* progress is being worked on, every object that was created is named by  *)
(* a record, no resource is created twice, and none before all of its      *)
(* dependencies.  Each theorem names what it needs: that nobody kills an   *)
(* invocation, that one runs at a time, that nobody rewrites the records.  *)
(***************************************************************************)
EXTENDS LedgerProofs

\* Where a frame works on a record that may be in progress.
LivePc == OwnPc \cup {"migrated"}

\* Where a frame waits for a call it has made.
CallerPc == {"batch", "deps", "members"}

Id(f) == <<f.pc, f.res, f.rec>>

\* Of the frames of p all stay but the innermost one, in whose place there are
\* frames that are at, of and for what G says.
Replaced(p, G) ==
    /\ \A q \in Proc : q # p => stack'[q] = stack[q] /\ raising'[q] = raising[q]
    /\ \A k \in DOMAIN stack[p] : k # Len(stack[p]) =>
          k \in DOMAIN stack'[p] /\ Id(stack'[p][k]) = Id(stack[p][k])
    /\ \A k \in DOMAIN stack'[p] :
          \/ k \in DOMAIN stack[p] /\ k # Len(stack[p])
          \/ /\ Id(stack'[p][k]) \in G
             /\ k = Len(stack'[p]) \/ stack'[p][k].pc \in CallerPc
    /\ \A g \in G : \E k \in DOMAIN stack'[p] : Id(stack'[p][k]) = g
    /\ G # {} \/ stack'[p] = <<>> => ~raising'[p]

-----------------------------------------------------------------------------
(* How the operations on stacks replace the innermost frame.               *)

\* The stacks and flags of the others.
LEMMA OthersStay ==
    ASSUME IInv, NEW p \in Proc, \E t : stack' = [stack EXCEPT ![p] = t],
           raising' = raising \/ \E b : raising' = [raising EXCEPT ![p] = b]
    PROVE  \A q \in Proc : q # p => stack'[q] = stack[q] /\ raising'[q] = raising[q]
<1>1. stack \in [Proc -> Seq(Frame)] /\ raising \in [Proc -> BOOLEAN]
  BY DEF IInv, TypeOK
<1>2. \A q \in Proc : q # p => stack'[q] = stack[q]
  BY <1>1
<1>3. \A q \in Proc : q # p => raising'[q] = raising[q]
  BY <1>1
<1> QED  BY <1>2, <1>3

LEMMA GotoReplaced ==
    ASSUME IInv, NEW p \in Proc, ~Idle(p), NEW g, Goto(p, g),
           UNCHANGED raising, ~raising[p]
    PROVE  Replaced(p, {Id(g)})
<1> DEFINE s == stack[p]
           t == Append(Front(s), g)
<1>1. /\ DOMAIN t = DOMAIN s /\ Len(t) = Len(s) /\ t[Len(s)] = g /\ Len(s) \in DOMAIN s
      /\ \A k \in DOMAIN s : k # Len(s) => t[k] = s[k]
  <2>1. s \in Seq(Frame \cup {g}) /\ s # <<>>
    BY StackShape, SeqMonotonic
  <2> QED  BY <2>1, ReplaceLast
<1>2. stack'[p] = t
  BY DEF Goto, IInv, TypeOK
<1>3. \A q \in Proc : q # p => stack'[q] = stack[q] /\ raising'[q] = raising[q]
  BY OthersStay DEF Goto
<1> HIDE DEF t
<1> QED  BY <1>1, <1>2, <1>3 DEF Replaced

LEMMA BecomesReplaced ==
    ASSUME IInv, NEW p \in Proc, ~Idle(p), NEW pc, NEW rec, NEW queue, NEW got, NEW cur,
           Becomes(p, pc, rec, queue, got, cur), UNCHANGED raising, ~raising[p]
    PROVE  Replaced(p, {<<pc, Top(p).res, rec>>})
<1>1. PICK g : /\ Goto(p, g)
               /\ Fields(g, pc, Top(p).res, rec, Top(p).cleanup, queue, got, cur)
  BY DEF Becomes
<1>2. Id(g) = <<pc, Top(p).res, rec>>
  BY <1>1 DEF Fields, Id
<1> QED  BY <1>1, <1>2, GotoReplaced

\* All but the last.
LEMMA FrontDomain ==
    ASSUME NEW S, NEW s \in Seq(S), s # <<>>
    PROVE  DOMAIN Front(s) = 1..Len(s) - 1
<1>1. /\ Len(s) \in Nat \ {0}
      /\ DOMAIN s = 1..Len(s)
      /\ \A k \in 1..Len(s) - 1 : s[k] \in S
  BY EmptySeq, LenProperties, ElementOfSeq
<1>2. Len(s) - 1 \in Int
  BY <1>1
<1>3. /\ SubSeq(s, 1, Len(s) - 1) \in Seq(S)
      /\ Len(SubSeq(s, 1, Len(s) - 1)) = Len(s) - 1
      /\ \A k \in 1..Len(s) - 1 : SubSeq(s, 1, Len(s) - 1)[k] = s[k]
  BY <1>1, <1>2, SubSeqProperties
<1> QED  BY <1>3, LenProperties DEF Front

\* A frame goes: fails, returns, or ends the command.
LEMMA PopReplaced ==
    ASSUME IInv, NEW p \in Proc, ~Idle(p), stack' = [stack EXCEPT ![p] = Front(stack[p])],
           \/ UNCHANGED raising /\ ~raising[p]
           \/ raising' = [raising EXCEPT ![p] = Len(stack[p]) > 1]
    PROVE  Replaced(p, {})
<1> DEFINE s == stack[p]
           t == Front(s)
<1>1. /\ s \in Seq(Frame) /\ s # <<>> /\ Len(s) \in Nat \ {0} /\ DOMAIN s = 1..Len(s)
  BY StackShape
<1>2. DOMAIN t = 1..Len(s) - 1 /\ \A k \in DOMAIN t : t[k] = s[k]
  BY <1>1, FrontLast, FrontDomain
<1>3. stack'[p] = t
  BY DEF IInv, TypeOK
<1>4. \A q \in Proc : q # p => stack'[q] = stack[q] /\ raising'[q] = raising[q]
  <2>1. \E u : stack' = [stack EXCEPT ![p] = u]
    OBVIOUS
  <2>2. raising' = raising \/ \E b : raising' = [raising EXCEPT ![p] = b]
    OBVIOUS
  <2> QED  BY <2>1, <2>2, OthersStay
<1>5. t = <<>> => ~raising'[p]
  <2>1. t = <<>> => DOMAIN t = {}
    BY EmptySeq
  <2>2. t = <<>> => ~(Len(s) > 1)
    BY <1>1, <1>2, <2>1
  <2>3. raising'[p] = raising[p] \/ raising'[p] = (Len(s) > 1)
    BY DEF IInv, TypeOK
  <2> QED  BY <2>2, <2>3 DEF IInv, TypeOK
<1> HIDE DEF t
<1>6. \A k \in DOMAIN s : k # Len(s) => k \in DOMAIN t /\ t[k] = s[k]
  BY <1>1, <1>2
<1>7. \A k \in DOMAIN t : k \in DOMAIN s /\ k # Len(s)
  BY <1>1, <1>2
<1> QED  BY <1>3, <1>4, <1>5, <1>6, <1>7 DEF Replaced

LEMMA CallReplaced ==
    ASSUME IInv, NEW p \in Proc, ~Idle(p), NEW f, NEW g, Call(p, f, g),
           ~raising[p], f.pc \in CallerPc
    PROVE  Replaced(p, {Id(f), Id(g)})
<1> DEFINE s == stack[p]
           u == Append(Front(s), f)
           t == Append(u, g)
<1>1. /\ u \in Seq(Frame \cup {f, g}) /\ DOMAIN u = DOMAIN s /\ Len(u) = Len(s)
      /\ u[Len(s)] = f /\ \A k \in DOMAIN s : k # Len(s) => u[k] = s[k]
  <2>1. s \in Seq(Frame \cup {f, g}) /\ s # <<>>
    BY StackShape, SeqMonotonic
  <2> QED  BY <2>1, ReplaceLast
<1>2. /\ Len(s) \in Nat /\ DOMAIN s = 1..Len(s) /\ Len(s) \in DOMAIN s
  BY StackShape
<1>3. stack' = [stack EXCEPT ![p] = t] /\ UNCHANGED raising
  BY DEF Call
<1>4. stack'[p] = t
  BY <1>3 DEF IInv, TypeOK
<1>5. \A q \in Proc : q # p => stack'[q] = stack[q] /\ raising'[q] = raising[q]
  <2>1. \E v : stack' = [stack EXCEPT ![p] = v]
    BY <1>3
  <2> QED  BY <1>3, <2>1, OthersStay
<1> HIDE DEF u
<1>6. /\ DOMAIN t = 1..Len(s) + 1 /\ t[Len(s) + 1] = g /\ Len(t) = Len(s) + 1
      /\ \A k \in 1..Len(s) : t[k] = u[k]
  <2>1. /\ t \in Seq(Frame \cup {f, g}) /\ Len(t) = Len(u) + 1
        /\ \A k \in 1..Len(u) : t[k] = u[k]
        /\ t[Len(u) + 1] = g
    BY <1>1, AppendProperties
  <2> HIDE DEF t
  <2> QED  BY <1>1, <2>1, LenProperties
<1> HIDE DEF t
<1>7. /\ \A k \in DOMAIN s : k # Len(s) => k \in DOMAIN t /\ t[k] = s[k]
      /\ t[Len(s)] = f /\ Len(s) \in DOMAIN t /\ Len(s) + 1 \in DOMAIN t
      /\ \A k \in DOMAIN t : \/ k \in DOMAIN s /\ k # Len(s)
                             \/ k = Len(s)
                             \/ k = Len(t)
  BY <1>1, <1>2, <1>6
<1>8. \A k \in DOMAIN t :
         \/ k \in DOMAIN s /\ k # Len(s)
         \/ Id(t[k]) \in {Id(f), Id(g)} /\ (k = Len(t) \/ t[k].pc \in CallerPc)
  BY <1>6, <1>7
<1>9. \A h \in {Id(f), Id(g)} : \E k \in DOMAIN t : Id(t[k]) = h
  BY <1>6, <1>7
<1> QED  BY <1>3, <1>4, <1>5, <1>7, <1>8, <1>9 DEF Replaced

\* What a caller takes from its callee is not its place, resource or record.
LEMMA ResumedId ==
    ASSUME NEW f \in Frame, NEW g
    PROVE  Id(Resumed(f, g)) = Id(f)
<1>1. CASE Resumed(f, g) = f
  BY <1>1
<1>2. CASE Resumed(f, g) = [f EXCEPT !.queue = f.queue \cup {g.rec}]
  <2> DEFINE t == f.queue \cup {g.rec}
             h == [f EXCEPT !.queue = t]
  <2> HIDE DEF t
  <2>1. Fields(h, f.pc, f.res, f.rec, f.cleanup, t, f.got, f.cur)
    BY ExceptFields
  <2> HIDE DEF h
  <2>2. Resumed(f, g) = h
    BY <1>2 DEF h, t
  <2> QED  BY <2>1, <2>2 DEF Fields, Id
<1>3. CASE Resumed(f, g) = [f EXCEPT !.got = f.got \cup {g.rec}]
  <2> DEFINE t == f.got \cup {g.rec}
             h == [f EXCEPT !.got = t]
  <2> HIDE DEF t
  <2>1. Fields(h, f.pc, f.res, f.rec, f.cleanup, f.queue, t, f.cur)
    BY ExceptFields
  <2> HIDE DEF h
  <2>2. Resumed(f, g) = h
    BY <1>3 DEF h, t
  <2> QED  BY <2>1, <2>2 DEF Fields, Id
<1> QED  BY <1>1, <1>2, <1>3 DEF Resumed

LEMMA ReturnReplaced ==
    ASSUME IInv, NEW p \in Proc, ~Idle(p), Return(p), UNCHANGED raising, ~raising[p]
    PROVE  Replaced(p, {})
<1> DEFINE s == stack[p]
           below == Front(s)
<1>1. CASE below = <<>>
  <2>1. stack' = [stack EXCEPT ![p] = Front(stack[p])]
    BY <1>1 DEF Return
  <2> QED  BY <2>1, PopReplaced
<1>2. CASE below # <<>>
  <2> DEFINE g == Resumed(Last(below), Top(p))
             t == Append(Front(below), g)
  <2>1. /\ s \in Seq(Frame) /\ s # <<>> /\ Len(s) \in Nat \ {0} /\ DOMAIN s = 1..Len(s)
    BY StackShape
  <2>2. /\ below \in Seq(Frame) /\ DOMAIN below = 1..Len(s) - 1
        /\ \A k \in DOMAIN below : below[k] = s[k]
    BY <2>1, FrontLast, FrontDomain
  <2>3. stack' = [stack EXCEPT ![p] = t]
    BY <1>2 DEF Return
  <2> HIDE DEF below
  <2>4. /\ Last(below) = below[Len(below)] /\ Len(below) \in DOMAIN below
        /\ Last(below) \in Frame
    <3>1. Last(below) = below[Len(below)] /\ Len(below) \in DOMAIN below
      BY <1>2, <2>2, FrontLast
    <3> QED  BY <2>2, <3>1, ElementOfSeq, LenProperties
  <2>5. Id(g) = Id(Last(below))
    BY <2>4, ResumedId
  <2> HIDE DEF g
  <2>6. /\ DOMAIN t = DOMAIN below /\ t[Len(below)] = g
        /\ \A k \in DOMAIN below : k # Len(below) => t[k] = below[k]
    <3>1. below \in Seq(Frame \cup {g})
      BY <2>2, SeqMonotonic
    <3> QED  BY <1>2, <3>1, ReplaceLast
  <2>7. stack'[p] = t
    BY <2>3 DEF IInv, TypeOK
  <2>8. \A q \in Proc : q # p => stack'[q] = stack[q] /\ raising'[q] = raising[q]
    <3>1. \E v : stack' = [stack EXCEPT ![p] = v]
      BY <2>3
    <3> QED  BY <3>1, OthersStay
  <2> HIDE DEF t
  <2>9. \A k \in DOMAIN t : k \in DOMAIN s /\ k # Len(s) /\ Id(t[k]) = Id(s[k])
    BY <2>1, <2>2, <2>4, <2>5, <2>6
  <2>10. \A k \in DOMAIN s : k # Len(s) => k \in DOMAIN t
    BY <2>1, <2>2, <2>6
  <2> QED  BY <2>7, <2>8, <2>9, <2>10 DEF Replaced
<1> QED  BY <1>1, <1>2

\* A loop ends the command: it is the only frame.
LEMMA EndReplaced ==
    ASSUME IInv, StacksLedger, NEW p \in Proc, ~Idle(p), Top(p).pc \in LoopPc,
           stack' = [stack EXCEPT ![p] = <<>>], UNCHANGED raising, ~raising[p]
    PROVE  Replaced(p, {})
<1> DEFINE s == stack[p]
           t == <<>>
<1>1. /\ Top(p) = s[Len(s)] /\ Len(s) \in DOMAIN s
      /\ Len(s) \in Nat \ {0} /\ DOMAIN s = 1..Len(s)
  BY StackShape
<1>2. Len(s) = 1
  <2>1. MayClean(s, opts[p].cleanup)
    BY DEF StacksLedger, CleanupIsAsked
  <2> QED  BY <1>1, <2>1 DEF MayClean
<1>3. stack'[p] = t /\ DOMAIN t = {}
  BY DEF IInv, TypeOK
<1>4. \A q \in Proc : q # p => stack'[q] = stack[q] /\ raising'[q] = raising[q]
  <2>1. \E v : stack' = [stack EXCEPT ![p] = v]
    OBVIOUS
  <2> QED  BY <2>1, OthersStay
<1>5. \A k \in DOMAIN s : k = Len(s)
  BY <1>1, <1>2
<1> HIDE DEF t
<1> QED  BY <1>3, <1>4, <1>5 DEF Replaced

\* A command starts.
LEMMA StartReplaced ==
    ASSUME IInv, NEW p \in Proc, Idle(p), NEW f,
           stack' = [stack EXCEPT ![p] = <<f>>], UNCHANGED raising, ~raising[p]
    PROVE  Replaced(p, {Id(f)})
<1> DEFINE t == <<f>>
<1>1. DOMAIN t = {1} /\ Len(t) = 1 /\ t[1] = f
  OBVIOUS
<1>2. stack'[p] = t /\ DOMAIN stack[p] = {}
  BY EmptySeq DEF IInv, TypeOK, Idle
<1>3. \A q \in Proc : q # p => stack'[q] = stack[q] /\ raising'[q] = raising[q]
  <2>1. \E v : stack' = [stack EXCEPT ![p] = v]
    OBVIOUS
  <2> QED  BY <2>1, OthersStay
<1> HIDE DEF t
<1> QED  BY <1>1, <1>2, <1>3 DEF Replaced

\* An exception is caught: the frame goes on where it is.
LEMMA CaughtReplaced ==
    ASSUME IInv, NEW p \in Proc, ~Idle(p), UNCHANGED stack,
           raising' = [raising EXCEPT ![p] = FALSE]
    PROVE  Replaced(p, {Id(Top(p))})
<1>1. /\ Top(p) = stack[p][Len(stack[p])] /\ Len(stack[p]) \in DOMAIN stack[p]
  BY StackShape
<1>2. /\ ~raising'[p]
      /\ \A q \in Proc : q # p => stack'[q] = stack[q] /\ raising'[q] = raising[q]
  BY DEF IInv, TypeOK
<1> QED  BY <1>1, <1>2 DEF Replaced

-----------------------------------------------------------------------------
(* What a step of an invocation does to the records, to the destination    *)
(* and to the innermost frame.                                             *)

\* Where the frame relies on the resource not being migrated.
FreshPc == LivePc \cup {"create"}

Waits(p) ==
    \E q :
       /\ UNCHANGED <<db, dest>>
       /\ Replaced(p, {<<q, Top(p).res, Top(p).rec>>})
       /\ \/ q = Top(p).pc
          \/ Top(p).pc = "lookup" /\ q = "create" /\ ~IsMigrated(Top(p).res)
          \/ Top(p).pc = "assoc" /\ q = "deps"
          \/ Top(p).pc \in {"assoc", "deps"} /\ q = "perform" /\ Pending(Top(p).res) = {}
          \/ Top(p).pc \notin FreshPc /\ q \notin FreshPc

Reuses(p) ==
    /\ UNCHANGED <<db, dest>> /\ Top(p).pc = "lookup"
    /\ \E i \in Newest(Top(p).res) :
          /\ db[i].status \in LIST_STATUS_MIGRATED
          /\ Replaced(p, {<<"migrated", Top(p).res, i>>})

Calls(p) ==
    /\ UNCHANGED <<db, dest>>
    /\ \E d : Replaced(p, {Id(Top(p)), <<"lookup", d, 0>>})

Opens(p) ==
    /\ UNCHANGED dest /\ Top(p).pc = "create"
    /\ \E m \in Migration :
          /\ db' = Append(db, m) /\ m.source = Top(p).res /\ m.dest = NoDest
          /\ m.status = STATUS_IN_PROGRESS /\ ~m.archived
    /\ Replaced(p, {<<"assoc", Top(p).res, Len(db) + 1>>})

Creates(p) ==
    /\ UNCHANGED db /\ Top(p).pc = "perform"
    /\ dest' = dest \cup {NewObject(Top(p))}
    /\ Replaced(p, {<<"saveDest", Top(p).res, Top(p).rec>>})

Saves(p) ==
    /\ UNCHANGED dest /\ Top(p).pc = "saveDest"
    /\ db' = [db EXCEPT ![Top(p).rec].dest = NewObject(Top(p))]
    /\ Replaced(p, {<<"migrated", Top(p).res, Top(p).rec>>})

Closes(p) ==
    /\ UNCHANGED dest /\ Top(p).pc \in {"migrated", "pendingCleanup"}
    /\ \E v \in LIST_STATUS_MIGRATED : SetStatus(Top(p).rec, v)
    /\ \E q : q \notin FreshPc /\ Replaced(p, {<<q, Top(p).res, Top(p).rec>>})

MarkedRemoved == \E i : db' = [db EXCEPT ![i].removed = TRUE]

Cleans(p) ==
    /\ UNCHANGED dest /\ Top(p).pc \notin FreshPc /\ MarkedRemoved
    /\ \E q : q \notin FreshPc /\ Replaced(p, {<<q, Top(p).res, Top(p).rec>>})

Fails(p) ==
    /\ Top(p).pc \in {"assoc", "deps", "perform"}
    /\ SetStatus(Top(p).rec, STATUS_FAILED)
    /\ \/ UNCHANGED dest
       \/ Top(p).pc = "perform" /\ dest' = dest \cup {NewObject(Top(p))}
    /\ Replaced(p, {})

Ends(p) ==
    /\ UNCHANGED dest /\ Top(p).pc \notin FreshPc
    /\ \/ UNCHANGED db
       \/ \E i \in DOMAIN db : \E v \in LIST_STATUS_MIGRATED : MigratedRecord(i) /\ SetStatus(i, v)
    /\ Replaced(p, {})

LEMMA QuietKinds ==
    ASSUME IInv, StacksLedger, NEW p \in Proc,
           \/ SkipInBatch(p) \/ SkipDependency(p) \/ SkipMember(p)
           \/ LookUpMigration(p) \/ GetAssociatedResources(p) \/ RecheckDependencies(p)
           \/ GetMemberResources(p) \/ ConnectMembers(p) \/ DeleteSource(p) \/ MemberFailed(p)
    PROVE  ~Idle(p) /\ Waits(p)
<1>1. ~Idle(p) /\ UNCHANGED <<db, dest>>
  BY DEF SkipInBatch, SkipDependency, SkipMember, LookUpMigration, GetAssociatedResources,
     RecheckDependencies, GetMemberResources, ConnectMembers, DeleteSource, MemberFailed,
     CleaningUp, At, RaisedTo, Move, clouds
<1>2. Top(p) \in Frame
  BY <1>1, TopHolds
<1> DEFINE f == Top(p)
           Next1(q) == \/ q = Top(p).pc
                       \/ Top(p).pc = "lookup" /\ q = "create" /\ ~IsMigrated(Top(p).res)
                       \/ Top(p).pc = "assoc" /\ q = "deps"
                       \/ /\ Top(p).pc \in {"assoc", "deps"} /\ q = "perform"
                          /\ Pending(Top(p).res) = {}
                       \/ Top(p).pc \notin FreshPc /\ q \notin FreshPc
<1>3. ASSUME NEW q, NEW c, Becomes(p, q, f.rec, f.queue, f.got, c), Next1(q),
             UNCHANGED raising, ~raising[p]
      PROVE  Waits(p)
  BY <1>1, <1>3, BecomesReplaced DEF Waits
<1>4. CASE SkipInBatch(p) \/ SkipDependency(p) \/ SkipMember(p)
  <2>1. /\ UNCHANGED raising /\ ~raising[p]
        /\ \E t : Goto(p, [Top(p) EXCEPT !.todo = t])
    BY <1>4 DEF SkipInBatch, SkipDependency, SkipMember, Move, At
  <2>2. Becomes(p, f.pc, f.rec, f.queue, f.got, f.cur)
    BY <1>2, <2>1, BecomesForms
  <2> QED  BY <1>1, <1>3, <2>1, <2>2
<1>5. CASE LookUpMigration(p) \/ RecheckDependencies(p) \/ ConnectMembers(p)
  <2>1. UNCHANGED raising /\ ~raising[p]
    BY <1>5 DEF LookUpMigration, RecheckDependencies, ConnectMembers, Move, At
  <2>2. PICK q : Next1(q) /\ Goto(p, [Top(p) EXCEPT !.pc = q])
    BY <1>5 DEF LookUpMigration, RecheckDependencies, ConnectMembers, Move, At, AfterMembers,
       FreshPc, LivePc, OwnPc
  <2>3. Becomes(p, q, f.rec, f.queue, f.got, f.cur)
    BY <1>2, <2>2, BecomesForms
  <2> QED  BY <1>1, <1>3, <2>1, <2>2, <2>3
<1>6. CASE GetAssociatedResources(p) \/ GetMemberResources(p)
  <2>1. UNCHANGED raising /\ ~raising[p]
    BY <1>6 DEF GetAssociatedResources, GetMemberResources, Move, At
  <2>2. \E q : /\ Next1(q)
               /\ \/ Goto(p, [Top(p) EXCEPT !.pc = q])
                  \/ \E t : Goto(p, [Top(p) EXCEPT !.pc = q, !.todo = t])
    BY <1>6 DEF GetAssociatedResources, GetMemberResources, Move, At, FreshPc, LivePc, OwnPc
  <2>3. PICK q : /\ Next1(q)
                 /\ \/ Goto(p, [Top(p) EXCEPT !.pc = q])
                    \/ \E t : Goto(p, [Top(p) EXCEPT !.pc = q, !.todo = t])
    BY <2>2
  <2>4. Becomes(p, q, f.rec, f.queue, f.got, f.cur)
    BY <1>2, <2>3, BecomesForms
  <2> QED  BY <1>1, <1>3, <2>1, <2>3, <2>4
<1>7. CASE DeleteSource(p)
  <2>1. UNCHANGED raising /\ ~raising[p]
    BY <1>7 DEF DeleteSource, CleaningUp
  <2>2. PICK i : Goto(p, [Top(p) EXCEPT !.cur = i])
    BY <1>7 DEF DeleteSource
  <2>3. Becomes(p, f.pc, f.rec, f.queue, f.got, i)
    BY <1>2, <2>2, BecomesForms
  <2> QED  BY <1>1, <1>3, <2>1, <2>3
<1>8. CASE MemberFailed(p)
  <2>1. Replaced(p, {<<f.pc, f.res, f.rec>>})
    BY <1>1, <1>8, CaughtReplaced DEF MemberFailed, Id
  <2> QED  BY <1>1, <2>1 DEF Waits
<1> QED  BY <1>1, <1>4, <1>5, <1>6, <1>7, <1>8

LEMMA ReuseKind ==
    ASSUME IInv, StacksLedger, NEW p \in Proc, ReuseMigration(p)
    PROVE  ~Idle(p) /\ Reuses(p)
<1> DEFINE f == Top(p)
<1>1. /\ ~Idle(p) /\ UNCHANGED <<db, dest, raising>> /\ ~raising[p] /\ f.pc = "lookup"
  BY DEF ReuseMigration, At, Move, clouds
<1>2. PICK i \in Newest(f.res) : /\ db[i].status \in LIST_STATUS_MIGRATED
                                 /\ Goto(p, [Top(p) EXCEPT !.pc = "migrated", !.rec = i])
  BY DEF ReuseMigration, Move
<1>3. Becomes(p, "migrated", i, f.queue, f.got, f.cur)
  BY <1>1, <1>2, TopHolds, BecomesForms
<1>4. Replaced(p, {<<"migrated", f.res, i>>})
  BY <1>1, <1>3, BecomesReplaced
<1> QED  BY <1>1, <1>2, <1>4 DEF Reuses

LEMMA CallKind ==
    ASSUME IInv, StacksLedger, NEW p \in Proc,
           MigrateInBatch(p) \/ MigrateDependency(p) \/ MigrateMember(p)
    PROVE  ~Idle(p) /\ Calls(p)
<1>1. /\ ~Idle(p) /\ UNCHANGED <<db, dest, raising>> /\ ~raising[p]
      /\ Top(p).pc \in CallerPc
  BY DEF MigrateInBatch, MigrateDependency, MigrateMember, At, Call, clouds, CallerPc
<1>2. PICK d, t, c : Call(p, [Top(p) EXCEPT !.todo = t], NewFrame("lookup", d, c))
  BY DEF MigrateInBatch, MigrateDependency, MigrateMember
<1> DEFINE f == [Top(p) EXCEPT !.todo = t]
           g == NewFrame("lookup", d, c)
<1>3. Id(f) = Id(Top(p)) /\ f.pc = Top(p).pc
  <2>1. Fields(f, Top(p).pc, Top(p).res, Top(p).rec, Top(p).cleanup, Top(p).queue,
               Top(p).got, Top(p).cur)
    BY <1>1, TopHolds, ExceptFields
  <2> HIDE DEF f
  <2> QED  BY <2>1 DEF Fields, Id
<1>4. Id(g) = <<"lookup", d, 0>>
  BY DEF NewFrame, Id
<1> HIDE DEF f, g
<1>5. Call(p, f, g)
  BY <1>2 DEF f, g
<1>6. Replaced(p, {Id(f), Id(g)})
  BY <1>1, <1>3, <1>5, CallReplaced
<1>7. Replaced(p, {Id(Top(p)), <<"lookup", d, 0>>})
  BY <1>3, <1>4, <1>6
<1> QED  BY <1>1, <1>7 DEF Calls

LEMMA OpenKind ==
    ASSUME IInv, StacksLedger, NEW p \in Proc, CreateMigration(p)
    PROVE  ~Idle(p) /\ Opens(p)
<1> DEFINE f == Top(p)
           m == [source |-> Top(p).res, status |-> STATUS_IN_PROGRESS,
                 dest |-> NoDest, removed |-> FALSE, archived |-> FALSE]
<1>1. /\ ~Idle(p) /\ UNCHANGED <<dest, raising>> /\ ~raising[p] /\ f.pc = "create"
      /\ db' = Append(db, m) /\ Goto(p, [Top(p) EXCEPT !.pc = "assoc", !.rec = Len(db) + 1])
  BY DEF CreateMigration, At, clouds
<1>2. Becomes(p, "assoc", Len(db) + 1, f.queue, f.got, f.cur)
  BY <1>1, TopHolds, BecomesForms
<1>3. Replaced(p, {<<"assoc", f.res, Len(db) + 1>>})
  BY <1>1, <1>2, BecomesReplaced
<1>4. f.res \in Resource
  BY <1>1, AtTop
<1>5. /\ m \in Migration /\ m.source = f.res /\ m.dest = NoDest
      /\ m.status = STATUS_IN_PROGRESS /\ ~m.archived
  BY <1>4 DEF Migration, Status
<1> HIDE DEF m
<1> QED  BY <1>1, <1>3, <1>5 DEF Opens

LEMMA CreateKind ==
    ASSUME IInv, StacksLedger, NEW p \in Proc, HandlerMigrates(p)
    PROVE  ~Idle(p) /\ Creates(p)
<1> DEFINE f == Top(p)
<1>1. /\ ~Idle(p) /\ UNCHANGED <<db, raising>> /\ ~raising[p] /\ f.pc = "perform"
      /\ dest' = dest \cup {NewObject(f)} /\ Goto(p, [Top(p) EXCEPT !.pc = "saveDest"])
  BY DEF HandlerMigrates, At
<1>2. Becomes(p, "saveDest", f.rec, f.queue, f.got, f.cur)
  BY <1>1, TopHolds, BecomesForms
<1>3. Replaced(p, {<<"saveDest", f.res, f.rec>>})
  BY <1>1, <1>2, BecomesReplaced
<1> QED  BY <1>1, <1>3 DEF Creates

LEMMA SaveKind ==
    ASSUME IInv, StacksLedger, NEW p \in Proc, SaveDestination(p)
    PROVE  ~Idle(p) /\ Saves(p)
<1> DEFINE f == Top(p)
<1>1. /\ ~Idle(p) /\ UNCHANGED <<dest, raising>> /\ ~raising[p] /\ f.pc = "saveDest"
      /\ db' = [db EXCEPT ![f.rec].dest = NewObject(f)]
      /\ Goto(p, [Top(p) EXCEPT !.pc = "migrated"])
  BY DEF SaveDestination, At, clouds
<1>2. Becomes(p, "migrated", f.rec, f.queue, f.got, f.cur)
  BY <1>1, TopHolds, BecomesForms
<1>3. Replaced(p, {<<"migrated", f.res, f.rec>>})
  BY <1>1, <1>2, BecomesReplaced
<1> QED  BY <1>1, <1>3 DEF Saves

LEMMA CloseKind ==
    ASSUME IInv, StacksLedger, NEW p \in Proc, MarkPendingMembers(p) \/ MarkPendingCleanup(p)
    PROVE  ~Idle(p) /\ Closes(p)
<1> DEFINE f == Top(p)
<1>1. /\ ~Idle(p) /\ UNCHANGED <<dest, raising>> /\ ~raising[p]
      /\ f.pc \in {"migrated", "pendingCleanup"}
      /\ \E v \in LIST_STATUS_MIGRATED : SetStatus(f.rec, v)
  BY DEF MarkPendingMembers, MarkPendingCleanup, At, clouds, LIST_STATUS_MIGRATED
<1>2. PICK q : q \notin FreshPc /\ Goto(p, [Top(p) EXCEPT !.pc = q])
  BY DEF MarkPendingMembers, MarkPendingCleanup, AfterMembers, FreshPc, LivePc, OwnPc
<1>3. Becomes(p, q, f.rec, f.queue, f.got, f.cur)
  BY <1>1, <1>2, TopHolds, BecomesForms
<1>4. Replaced(p, {<<q, f.res, f.rec>>})
  BY <1>1, <1>3, BecomesReplaced
<1> QED  BY <1>1, <1>2, <1>4 DEF Closes

LEMMA CleanKind ==
    ASSUME IInv, StacksLedger, NEW p \in Proc, MarkSourceRemoved(p)
    PROVE  ~Idle(p) /\ Cleans(p)
<1> DEFINE f == Top(p)
<1>1. /\ ~Idle(p) /\ UNCHANGED <<dest, raising>> /\ ~raising[p] /\ f.pc \notin FreshPc
  BY DEF MarkSourceRemoved, clouds, FreshPc, LivePc, OwnPc
<1>2. PICK q, t : /\ q \notin FreshPc
                  /\ Goto(p, [Top(p) EXCEPT !.cur = 0, !.queue = t, !.pc = q])
  BY DEF MarkSourceRemoved, AfterRemoval, FreshPc, LivePc, OwnPc
<1>3. Becomes(p, q, f.rec, t, f.got, 0)
  BY <1>1, <1>2, TopHolds, BecomesForms
<1>4. Replaced(p, {<<q, f.res, f.rec>>})
  BY <1>1, <1>3, BecomesReplaced
<1>5. MarkedRemoved
  BY DEF MarkSourceRemoved, MarkedRemoved
<1> QED  BY <1>1, <1>2, <1>4, <1>5 DEF Cleans

LEMMA FailKind ==
    ASSUME IInv, StacksLedger, NEW p \in Proc,
           \/ RefusePendingDependencies(p) \/ RefuseUnmigratedDependencies(p)
           \/ GetAssociatedResourcesFails(p) \/ HandlerFails(p) \/ DependencyFailed(p)
    PROVE  ~Idle(p) /\ Fails(p)
<1>1. /\ ~Idle(p) /\ Top(p).pc \in {"assoc", "deps", "perform"} /\ FailMigration(p)
      /\ \/ UNCHANGED dest
         \/ Top(p).pc = "perform" /\ dest' = dest \cup {NewObject(Top(p))}
  BY DEF RefusePendingDependencies, RefuseUnmigratedDependencies,
     GetAssociatedResourcesFails, HandlerFails, DependencyFailed, At, RaisedTo, clouds
<1>2. Replaced(p, {})
  BY <1>1, PopReplaced DEF FailMigration, Raise
<1> QED  BY <1>1, <1>2 DEF Fails, FailMigration

LEMMA EndKinds ==
    ASSUME IInv, StacksLedger, NEW p \in Proc,
           \/ GetMemberResourcesFails(p) \/ BatchFailed(p) \/ DeleteSourceFails(p)
           \/ CompleteMigration(p) \/ FinishBatch(p) \/ FinishCleanup(p)
    PROVE  ~Idle(p) /\ Ends(p)
<1>1. /\ ~Idle(p) /\ UNCHANGED dest
  BY DEF GetMemberResourcesFails, BatchFailed, DeleteSourceFails, CompleteMigration,
     FinishBatch, FinishCleanup, At, RaisedTo, CleaningUp, Exit, clouds
<1>2. CASE GetMemberResourcesFails(p) \/ BatchFailed(p)
  <2>1. UNCHANGED db /\ Raise(p) /\ Top(p).pc \notin FreshPc
    BY <1>2 DEF GetMemberResourcesFails, BatchFailed, At, RaisedTo, FreshPc, LivePc, OwnPc
  <2>2. Replaced(p, {})
    BY <1>1, <2>1, PopReplaced DEF Raise
  <2> QED  BY <1>1, <2>1, <2>2 DEF Ends
<1>3. CASE DeleteSourceFails(p)
  <2>1. CleaningUp(p) /\ Raise(p)
    BY <1>3 DEF DeleteSourceFails, CleaningUp
  <2>2. PICK i \in CleanupNext(Top(p)) : SetStatus(i, STATUS_SOURCE_CLEANUP_FAILED)
    BY <1>3 DEF DeleteSourceFails
  <2>3. i \in DOMAIN db /\ MigratedRecord(i) /\ Top(p).pc \notin FreshPc
    BY <2>1, CleanupTargets DEF FreshPc, LivePc, OwnPc
  <2>4. Replaced(p, {})
    BY <1>1, <2>1, PopReplaced DEF Raise
  <2>5. STATUS_SOURCE_CLEANUP_FAILED \in LIST_STATUS_MIGRATED
    BY DEF LIST_STATUS_MIGRATED
  <2> QED  BY <1>1, <2>2, <2>3, <2>4, <2>5 DEF Ends
<1>4. CASE CompleteMigration(p)
  <2>1. /\ Top(p).pc = "complete" /\ ~raising[p] /\ UNCHANGED raising
        /\ Return(p) /\ SetStatus(Top(p).rec, STATUS_COMPLETED)
    BY <1>4 DEF CompleteMigration, At
  <2>2. Top(p).rec \in DOMAIN db /\ MigratedRecord(Top(p).rec) /\ Top(p).pc \notin FreshPc
    BY <1>1, <2>1, TopHolds DEF Holds, MigratedPc, MigratedRecord, FreshPc, LivePc, OwnPc
  <2>3. Replaced(p, {})
    BY <1>1, <2>1, ReturnReplaced
  <2>4. STATUS_COMPLETED \in LIST_STATUS_MIGRATED
    BY DEF LIST_STATUS_MIGRATED
  <2> QED  BY <1>1, <2>1, <2>2, <2>3, <2>4 DEF Ends
<1>5. CASE FinishBatch(p) \/ FinishCleanup(p)
  <2>1. /\ Top(p).pc \in LoopPc /\ ~raising[p] /\ UNCHANGED <<raising, db>>
        /\ stack' = [stack EXCEPT ![p] = <<>>]
    BY <1>5 DEF FinishBatch, FinishCleanup, At, Exit, LoopPc
  <2>2. Replaced(p, {}) /\ Top(p).pc \notin FreshPc
    BY <1>1, <2>1, EndReplaced DEF FreshPc, LivePc, OwnPc, LoopPc
  <2> QED  BY <1>1, <2>1, <2>2 DEF Ends
<1> QED  BY <1>1, <1>2, <1>3, <1>4, <1>5

LEMMA StepKinds ==
    ASSUME IInv, StacksLedger, NEW p \in Proc, Step(p)
    PROVE  /\ ~Idle(p)
           /\ \/ Waits(p) \/ Reuses(p) \/ Calls(p) \/ Opens(p) \/ Creates(p) \/ Saves(p)
              \/ Closes(p) \/ Cleans(p) \/ Fails(p) \/ Ends(p)
BY QuietKinds, ReuseKind, CallKind, OpenKind, CreateKind, SaveKind, CloseKind, CleanKind,
   FailKind, EndKinds DEF Step

\* A command starts with a frame that refers to no record.
LEMMA StartKind ==
    ASSUME IInv, NEW p \in Proc, ~raising[p],
           StartMigration(p) \/ StartBatch(p) \/ StartCleanup(p)
    PROVE  /\ Idle(p) /\ UNCHANGED <<db, dest>>
           /\ \E q, r : q \notin FreshPc /\ Replaced(p, {<<q, r, 0>>})
<1>1. Idle(p) /\ UNCHANGED <<db, dest, raising>>
  BY DEF StartMigration, StartBatch, StartCleanup, Invoke, clouds
<1>2. ASSUME NEW f, f.pc \notin FreshPc, f.rec = 0, stack' = [stack EXCEPT ![p] = <<f>>]
      PROVE  \E q, r : q \notin FreshPc /\ Replaced(p, {<<q, r, 0>>})
  <2>1. Replaced(p, {Id(f)})
    BY <1>1, <1>2, StartReplaced
  <2>2. Id(f) = <<f.pc, f.res, 0>>
    BY <1>2 DEF Id
  <2>3. Replaced(p, {<<f.pc, f.res, 0>>})
    BY <2>1, <2>2
  <2> QED  BY <1>2, <2>3
<1>3. CASE StartMigration(p)
  <2>1. PICK r, c : stack' = [stack EXCEPT ![p] = <<NewFrame("lookup", r, c)>>]
    BY <1>3 DEF StartMigration, Invoke
  <2> DEFINE f == NewFrame("lookup", r, c)
  <2>2. f.pc \notin FreshPc /\ f.rec = 0
    BY DEF NewFrame, FreshPc, LivePc, OwnPc
  <2>3. stack' = [stack EXCEPT ![p] = <<f>>]
    BY <2>1
  <2> HIDE DEF f
  <2> QED  BY <1>1, <1>2, <2>2, <2>3
<1>4. CASE StartBatch(p)
  <2>1. PICK c, t : stack' = [stack EXCEPT ![p] =
                        <<[NewFrame("batch", NoResource, c) EXCEPT !.todo = t]>>]
    BY <1>4 DEF StartBatch, Invoke
  <2> DEFINE f == [NewFrame("batch", NoResource, c) EXCEPT !.todo = t]
  <2>2. f.pc \notin FreshPc /\ f.rec = 0
    BY DEF NewFrame, FreshPc, LivePc, OwnPc
  <2>3. stack' = [stack EXCEPT ![p] = <<f>>]
    BY <2>1
  <2> HIDE DEF f
  <2> QED  BY <1>1, <1>2, <2>2, <2>3
<1>5. CASE StartCleanup(p)
  <2>1. PICK t : stack' = [stack EXCEPT ![p] =
                     <<[NewFrame("sweep", NoResource, FALSE) EXCEPT !.queue = t]>>]
    BY <1>5 DEF StartCleanup, Invoke
  <2> DEFINE f == [NewFrame("sweep", NoResource, FALSE) EXCEPT !.queue = t]
  <2>2. f.pc \notin FreshPc /\ f.rec = 0
    BY DEF NewFrame, FreshPc, LivePc, OwnPc
  <2>3. stack' = [stack EXCEPT ![p] = <<f>>]
    BY <2>1
  <2> HIDE DEF f
  <2> QED  BY <1>1, <1>2, <2>2, <2>3
<1> QED  BY <1>1, <1>3, <1>4, <1>5

-----------------------------------------------------------------------------
(* Only the innermost frame is at work; those below wait for their calls.  *)

Innermost ==
    \A p \in Proc :
        /\ Idle(p) => ~raising[p]
        /\ \A k \in DOMAIN stack[p] :
              stack[p][k].pc \notin CallerPc => k = Len(stack[p]) /\ ~raising[p]

LEMMA InnermostStep ==
    ASSUME Innermost, NEW p \in Proc, NEW G, Replaced(p, G)
    PROVE  Innermost'
<1> SUFFICES ASSUME NEW q \in Proc
             PROVE  /\ stack'[q] = <<>> => ~raising'[q]
                    /\ \A k \in DOMAIN stack'[q] :
                          stack'[q][k].pc \notin CallerPc
                             => k = Len(stack'[q]) /\ ~raising'[q]
  BY DEF Innermost, Idle
<1>1. CASE q # p
  BY <1>1 DEF Innermost, Idle, Replaced
<1>2. CASE q = p
  <2>1. stack'[p] = <<>> => ~raising'[p]
    BY DEF Replaced
  <2>2. ASSUME NEW k \in DOMAIN stack'[p], stack'[p][k].pc \notin CallerPc
        PROVE  k = Len(stack'[p]) /\ ~raising'[p]
    <3>1. CASE k \in DOMAIN stack[p] /\ k # Len(stack[p])
      <4>1. stack'[p][k].pc = stack[p][k].pc
        BY <3>1 DEF Replaced, Id
      <4> QED  BY <2>2, <3>1, <4>1 DEF Innermost
    <3>2. CASE Id(stack'[p][k]) \in G /\ (k = Len(stack'[p]) \/ stack'[p][k].pc \in CallerPc)
      BY <2>2, <3>2 DEF Replaced
    <3> QED  BY <3>1, <3>2 DEF Replaced
  <2> QED  BY <1>2, <2>1, <2>2
<1> QED  BY <1>1, <1>2

LEMMA StepReplaces ==
    ASSUME IInv, StacksLedger, NEW p \in Proc, Step(p)
    PROVE  \E G : Replaced(p, G)
BY StepKinds DEF Waits, Reuses, Calls, Opens, Creates, Saves, Closes, Cleans, Fails, Ends

LEMMA OutsideSteps ==
    ASSUME IInv, ArchiveMigrations \/ RestoreMigrations \/ RegisterExternal
    PROVE  UNCHANGED <<stack, raising>>
BY Zenon DEF ArchiveMigrations, RestoreMigrations, RegisterExternal, Issue

LEMMA InnermostNext ==
    ASSUME IInv, StacksLedger, Innermost, [Next]_vars
    PROVE  Innermost'
<1>1. CASE UNCHANGED <<stack, raising>>
  BY <1>1 DEF Innermost, Idle
<1>2. ASSUME NEW p \in Proc, Step(p)  PROVE Innermost'
  BY <1>2, StepReplaces, InnermostStep
<1>3. ASSUME NEW p \in Proc, StartMigration(p) \/ StartBatch(p) \/ StartCleanup(p)
      PROVE  Innermost'
  <2>1. Idle(p) /\ ~raising[p]
    BY <1>3 DEF Innermost, StartMigration, StartBatch, StartCleanup, Invoke
  <2> QED  BY <1>3, <2>1, StartKind, InnermostStep
<1>4. ASSUME NEW p \in Proc, Crash(p)  PROVE Innermost'
  <2>1. /\ stack'[p] = <<>> /\ ~raising'[p]
        /\ \A q \in Proc : q # p => stack'[q] = stack[q] /\ raising'[q] = raising[q]
    BY <1>4 DEF Crash, IInv, TypeOK
  <2>2. \A k : k \notin DOMAIN stack'[p]
    BY <2>1, EmptySeq
  <2> QED  BY <2>1, <2>2 DEF Innermost, Idle
<1>5. CASE ArchiveMigrations \/ RestoreMigrations \/ RegisterExternal
  BY <1>1, <1>5, OutsideSteps
<1> QED  BY <1>1, <1>2, <1>3, <1>4, <1>5 DEF Next, vars

-----------------------------------------------------------------------------
(* Frames that are somewhere on a stack.                                   *)

Present(h) == \E p \in Proc : \E k \in DOMAIN stack[p] : Id(stack[p][k]) = h

LEMMA PresentKept ==
    ASSUME IInv, NEW p \in Proc, NEW G, Replaced(p, G), NEW h, Present(h),
           Idle(p) \/ h # Id(Top(p)) \/ h \in G
    PROVE  Present(h)'
<1>1. PICK q \in Proc : \E k \in DOMAIN stack[q] : Id(stack[q][k]) = h
  BY DEF Present
<1>2. PICK k \in DOMAIN stack[q] : Id(stack[q][k]) = h
  BY <1>1
<1>3. CASE q # p
  <2>1. stack'[q] = stack[q]
    BY <1>3 DEF Replaced
  <2> QED  BY <1>2, <2>1 DEF Present, Id
<1>4. CASE q = p /\ k # Len(stack[p])
  <2>1. k \in DOMAIN stack'[p] /\ Id(stack'[p][k]) = h
    BY <1>2, <1>4 DEF Replaced
  <2> QED  BY <2>1 DEF Present, Id
<1>5. CASE q = p /\ k = Len(stack[p])
  <2>1. ~Idle(p)
    BY <1>2, <1>5, EmptySeq DEF Idle
  <2>2. h = Id(Top(p))
    BY <1>2, <1>5, <2>1, StackShape
  <2>3. \E j \in DOMAIN stack'[p] : Id(stack'[p][j]) = h
    BY <2>1, <2>2 DEF Replaced
  <2> QED  BY <2>3 DEF Present, Id
<1> QED  BY <1>3, <1>4, <1>5

LEMMA PresentNew ==
    ASSUME NEW p \in Proc, NEW G, Replaced(p, G), NEW h \in G
    PROVE  Present(h)'
BY DEF Replaced, Present, Id

LEMMA PresentSame ==
    ASSUME UNCHANGED stack, NEW h, Present(h)
    PROVE  Present(h)'
BY DEF Present, Id

LEMMA TopPresent ==
    ASSUME IInv, NEW p \in Proc, ~Idle(p)
    PROVE  Present(Id(Top(p)))
BY StackShape DEF Present

-----------------------------------------------------------------------------
(* Records in progress are being worked on.                                *)

Lives(i) == \E q \in LivePc : \E r : Present(<<q, r, i>>)

LiveInv == \A i \in DOMAIN db : db[i].status = STATUS_IN_PROGRESS => Lives(i)

\* A frame that works on record i goes on doing so.
LEMMA LivesOn ==
    ASSUME IInv, NEW p \in Proc, NEW G, Replaced(p, G), NEW i, Lives(i),
           Idle(p) \/ Top(p).pc \notin LivePc \/ Top(p).rec # i
              \/ \E g \in G : \E q \in LivePc : \E r : g = <<q, r, i>>
    PROVE  Lives(i)'
<1>1. PICK q \in LivePc : \E r : Present(<<q, r, i>>)
  BY DEF Lives
<1>2. PICK r : Present(<<q, r, i>>)
  BY <1>1
<1>3. CASE Idle(p) \/ <<q, r, i>> # Id(Top(p))
  <2>1. Present(<<q, r, i>>)'
    BY <1>2, <1>3, PresentKept
  <2> QED  BY <2>1 DEF Lives
<1>4. CASE <<q, r, i>> = Id(Top(p)) /\ ~Idle(p)
  <2>1. Top(p).pc = q /\ Top(p).rec = i
    BY <1>4 DEF Id
  <2>2. PICK g \in G : \E q2 \in LivePc : \E r2 : g = <<q2, r2, i>>
    BY <1>4, <2>1
  <2>3. PICK q2 \in LivePc : \E r2 : g = <<q2, r2, i>>
    BY <2>2
  <2>4. PICK r2 : g = <<q2, r2, i>>
    BY <2>3
  <2>5. Present(<<q2, r2, i>>)'
    BY <2>4, PresentNew
  <2> QED  BY <2>5 DEF Lives
<1> QED  BY <1>3, <1>4

\* Archiving and restoring leaves the other fields of the records alone.
LEMMA ArchivedFields ==
    ASSUME IInv, ArchiveMigrations \/ RestoreMigrations
    PROVE  /\ DOMAIN db' = DOMAIN db
           /\ \A j \in DOMAIN db :
                 /\ db'[j].source = db[j].source /\ db'[j].status = db[j].status
                 /\ db'[j].dest = db[j].dest /\ db'[j].removed = db[j].removed
<1>1. PICK rows : \E f \in BOOLEAN : SetArchived(rows, f)
  <2>1. CASE ArchiveMigrations
    BY <2>1, Zenon DEF ArchiveMigrations
  <2>2. CASE RestoreMigrations
    BY <2>2, Zenon DEF RestoreMigrations
  <2> QED  BY <2>1, <2>2
<1>2. PICK flag \in BOOLEAN : SetArchived(rows, flag)
  BY <1>1
<1> QED  BY <1>2, RecordNumbers DEF SetArchived, Migration


\* Some frame works on every record that is in progress after the step.
LEMMA LiveStep ==
    ASSUME IInv, LiveInv, NEW p \in Proc, NEW G, Replaced(p, G),
           \A i \in DOMAIN db' : db'[i].status = STATUS_IN_PROGRESS =>
              \/ \E g \in G : \E q \in LivePc : \E r : g = <<q, r, i>>
              \/ /\ i \in DOMAIN db /\ db[i].status = STATUS_IN_PROGRESS
                 /\ Idle(p) \/ Top(p).pc \notin LivePc \/ Top(p).rec # i
    PROVE  LiveInv'
<1> SUFFICES ASSUME NEW i \in DOMAIN db', db'[i].status = STATUS_IN_PROGRESS
             PROVE  Lives(i)'
  BY DEF LiveInv
<1>1. CASE \E g \in G : \E q \in LivePc : \E r : g = <<q, r, i>>
  <2>1. PICK g \in G : \E q \in LivePc : \E r : g = <<q, r, i>>
    BY <1>1
  <2>2. PICK q \in LivePc : \E r : g = <<q, r, i>>
    BY <2>1
  <2>3. PICK r : g = <<q, r, i>>
    BY <2>2
  <2>4. Present(<<q, r, i>>)'
    BY <2>3, PresentNew
  <2> QED  BY <2>4 DEF Lives
<1>2. CASE /\ i \in DOMAIN db /\ db[i].status = STATUS_IN_PROGRESS
           /\ Idle(p) \/ Top(p).pc \notin LivePc \/ Top(p).rec # i
  <2>1. Lives(i)
    BY <1>2 DEF LiveInv
  <2> QED  BY <1>2, <2>1, LivesOn
<1> QED  BY <1>1, <1>2

\* No record is put in progress.
LEMMA StatusesMigrate ==
    ASSUME IInv, NEW i, NEW v, v # STATUS_IN_PROGRESS, SetStatus(i, v)
    PROVE  \A j \in DOMAIN db' : db'[j].status = STATUS_IN_PROGRESS =>
              j \in DOMAIN db /\ db[j].status = STATUS_IN_PROGRESS /\ j # i
<1>1. db' = [db EXCEPT ![i].status = v]
  BY DEF SetStatus
<1>2. /\ DOMAIN db' = DOMAIN db
      /\ \A j \in DOMAIN db : db'[j].status = IF j = i THEN v ELSE db[j].status
  BY <1>1, RecordFields
<1> QED  BY <1>2

LEMMA StatusesKept ==
    ASSUME IInv, \/ UNCHANGED db
                 \/ \E i, v : db' = [db EXCEPT ![i].dest = v]
                 \/ MarkedRemoved
    PROVE  /\ DOMAIN db' = DOMAIN db
           /\ \A j \in DOMAIN db : db'[j].status = db[j].status
<1>1. CASE UNCHANGED db
  BY <1>1
<1>2. CASE \E i, v : db' = [db EXCEPT ![i].dest = v]
  <2>1. PICK i, v : db' = [db EXCEPT ![i].dest = v]
    BY <1>2
  <2> QED  BY <2>1, RecordFields
<1>3. CASE MarkedRemoved
  <2>1. PICK i : db' = [db EXCEPT ![i].removed = TRUE]
    BY <1>3 DEF MarkedRemoved
  <2> QED  BY <2>1, RecordFields
<1> QED  BY <1>1, <1>2, <1>3

\* A frame that stays at work on its record.
LEMMA LiveStays ==
    ASSUME IInv, LiveInv, NEW p \in Proc, DOMAIN db' = DOMAIN db,
           \A j \in DOMAIN db : db'[j].status = db[j].status,
           NEW G, Replaced(p, G),
           \/ Top(p).pc \notin LivePc
           \/ \E q \in LivePc : \E r : <<q, r, Top(p).rec>> \in G
    PROVE  LiveInv'
<1> SUFFICES ASSUME NEW i \in DOMAIN db', db'[i].status = STATUS_IN_PROGRESS
             PROVE  \/ \E g \in G : \E q \in LivePc : \E r : g = <<q, r, i>>
                    \/ /\ i \in DOMAIN db /\ db[i].status = STATUS_IN_PROGRESS
                       /\ Idle(p) \/ Top(p).pc \notin LivePc \/ Top(p).rec # i
  BY LiveStep
<1> QED  OBVIOUS

LEMMA LiveSteps ==
    ASSUME IInv, StacksLedger, LiveInv, NEW p \in Proc, Step(p)
    PROVE  LiveInv'
<1>1. ~Idle(p)
  BY StepKinds
<1>2. CASE Waits(p)
  <2>1. PICK q : /\ UNCHANGED <<db, dest>>
                 /\ Replaced(p, {<<q, Top(p).res, Top(p).rec>>})
                 /\ q \in LivePc \/ Top(p).pc \notin LivePc
    BY <1>2 DEF Waits, FreshPc, LivePc, OwnPc
  <2> QED  BY <2>1, LiveStays
<1>3. CASE Reuses(p)
  <2>1. /\ UNCHANGED <<db, dest>> /\ Top(p).pc \notin LivePc
        /\ \E i : Replaced(p, {<<"migrated", Top(p).res, i>>})
    BY <1>3 DEF Reuses, LivePc, OwnPc
  <2> QED  BY <2>1, LiveStays
<1>4. CASE Calls(p)
  <2>1. PICK d : Replaced(p, {Id(Top(p)), <<"lookup", d, 0>>}) /\ UNCHANGED <<db, dest>>
    BY <1>4 DEF Calls
  <2>2. Top(p).pc \in LivePc =>
           <<Top(p).pc, Top(p).res, Top(p).rec>> \in {Id(Top(p)), <<"lookup", d, 0>>}
    BY DEF Id
  <2> QED  BY <2>1, <2>2, LiveStays
<1>5. CASE Opens(p)
  <2>1. PICK m \in Migration : db' = Append(db, m)
    BY <1>5 DEF Opens
  <2>2. /\ Replaced(p, {<<"assoc", Top(p).res, Len(db) + 1>>})
        /\ Top(p).pc \notin LivePc /\ "assoc" \in LivePc
    BY <1>5 DEF Opens, LivePc, OwnPc
  <2>3. /\ \A j \in DOMAIN db : j \in DOMAIN db' /\ db'[j] = db[j]
        /\ \A j \in DOMAIN db' : j \in DOMAIN db \/ j = Len(db) + 1
    BY <2>1, RecordNumbers, AppendProperties
  <2>4. \A i \in DOMAIN db' : db'[i].status = STATUS_IN_PROGRESS =>
           \/ \E g \in {<<"assoc", Top(p).res, Len(db) + 1>>} :
                 \E q \in LivePc : \E r : g = <<q, r, i>>
           \/ /\ i \in DOMAIN db /\ db[i].status = STATUS_IN_PROGRESS
              /\ Idle(p) \/ Top(p).pc \notin LivePc \/ Top(p).rec # i
    BY <2>2, <2>3
  <2> QED  BY <2>2, <2>4, LiveStep
<1>6. CASE Creates(p)
  <2>1. /\ UNCHANGED db /\ Replaced(p, {<<"saveDest", Top(p).res, Top(p).rec>>})
        /\ "saveDest" \in LivePc
    BY <1>6 DEF Creates, LivePc, OwnPc
  <2> QED  BY <2>1, LiveStays
<1>7. CASE Saves(p)
  <2>1. /\ DOMAIN db' = DOMAIN db /\ \A j \in DOMAIN db : db'[j].status = db[j].status
    BY <1>7, StatusesKept DEF Saves
  <2>2. Replaced(p, {<<"migrated", Top(p).res, Top(p).rec>>}) /\ "migrated" \in LivePc
    BY <1>7 DEF Saves, LivePc
  <2> QED  BY <2>1, <2>2, LiveStays
<1>8. CASE Closes(p)
  <2>1. PICK v \in LIST_STATUS_MIGRATED : SetStatus(Top(p).rec, v)
    BY <1>8 DEF Closes
  <2>2. PICK G : Replaced(p, G)
    BY <1>8 DEF Closes
  <2>3. \A j \in DOMAIN db' : db'[j].status = STATUS_IN_PROGRESS =>
              j \in DOMAIN db /\ db[j].status = STATUS_IN_PROGRESS /\ j # Top(p).rec
    BY <2>1, StatusesMigrate, StatusValues
  <2>4. \A i \in DOMAIN db' : db'[i].status = STATUS_IN_PROGRESS =>
           \/ \E g \in G : \E q \in LivePc : \E r : g = <<q, r, i>>
           \/ /\ i \in DOMAIN db /\ db[i].status = STATUS_IN_PROGRESS
              /\ Idle(p) \/ Top(p).pc \notin LivePc \/ Top(p).rec # i
    BY <2>3
  <2> QED  BY <2>2, <2>4, LiveStep
<1>9. CASE Cleans(p)
  <2>1. DOMAIN db' = DOMAIN db /\ \A j \in DOMAIN db : db'[j].status = db[j].status
    BY <1>9, StatusesKept DEF Cleans
  <2>2. /\ \E G : Replaced(p, G)
        /\ Top(p).pc \notin LivePc
    BY <1>9 DEF Cleans, FreshPc
  <2> QED  BY <2>1, <2>2, LiveStays
<1>10. CASE Fails(p)
  <2>1. SetStatus(Top(p).rec, STATUS_FAILED) /\ Replaced(p, {})
    BY <1>10 DEF Fails
  <2>2. \A j \in DOMAIN db' : db'[j].status = STATUS_IN_PROGRESS =>
              j \in DOMAIN db /\ db[j].status = STATUS_IN_PROGRESS /\ j # Top(p).rec
    BY <2>1, StatusesMigrate, StatusValues
  <2>3. \A i \in DOMAIN db' : db'[i].status = STATUS_IN_PROGRESS =>
           \/ \E g \in {} : \E q \in LivePc : \E r : g = <<q, r, i>>
           \/ /\ i \in DOMAIN db /\ db[i].status = STATUS_IN_PROGRESS
              /\ Idle(p) \/ Top(p).pc \notin LivePc \/ Top(p).rec # i
    BY <2>2
  <2> QED  BY <2>1, <2>3, LiveStep
<1>11. CASE Ends(p)
  <2>1. Replaced(p, {}) /\ Top(p).pc \notin LivePc
    BY <1>11 DEF Ends, FreshPc
  <2>2. \A j \in DOMAIN db' : db'[j].status = STATUS_IN_PROGRESS =>
              j \in DOMAIN db /\ db[j].status = STATUS_IN_PROGRESS
    <3>1. CASE UNCHANGED db
      BY <3>1
    <3>2. CASE \E i \in DOMAIN db : \E v \in LIST_STATUS_MIGRATED : SetStatus(i, v)
      BY <3>2, StatusesMigrate, StatusValues
    <3> QED  BY <1>11, <3>1, <3>2 DEF Ends
  <2>3. \A i \in DOMAIN db' : db'[i].status = STATUS_IN_PROGRESS =>
           \/ \E g \in {} : \E q \in LivePc : \E r : g = <<q, r, i>>
           \/ /\ i \in DOMAIN db /\ db[i].status = STATUS_IN_PROGRESS
              /\ Idle(p) \/ Top(p).pc \notin LivePc \/ Top(p).rec # i
    BY <2>1, <2>2
  <2> QED  BY <2>1, <2>3, LiveStep
<1> QED  BY <1>2, <1>3, <1>4, <1>5, <1>6, <1>7, <1>8, <1>9, <1>10, <1>11, StepKinds

LEMMA LiveOutside ==
    ASSUME IInv, LiveInv, ArchiveMigrations \/ RestoreMigrations \/ RegisterExternal
    PROVE  LiveInv'
<1>1. UNCHANGED stack
  BY OutsideSteps
<1>2. \A i \in DOMAIN db' : db'[i].status = STATUS_IN_PROGRESS =>
         i \in DOMAIN db /\ db[i].status = STATUS_IN_PROGRESS
  <2>1. CASE ArchiveMigrations \/ RestoreMigrations
    <3>1. /\ DOMAIN db' = DOMAIN db
          /\ \A j \in DOMAIN db : db'[j].status = db[j].status
      BY <2>1, ArchivedFields
    <3> QED  BY <3>1
  <2>2. CASE RegisterExternal
    <3>1. PICK m \in Migration : db' = Append(db, m) /\ m.status = STATUS_COMPLETED
      BY <2>2, Registration
    <3>2. /\ db'[Len(db) + 1] = m
          /\ \A j \in DOMAIN db : j \in DOMAIN db' /\ db'[j] = db[j]
          /\ \A j \in DOMAIN db' : j \in DOMAIN db \/ j = Len(db) + 1
      BY <3>1, RecordNumbers, AppendProperties
    <3> QED  BY <3>1, <3>2, StatusValues DEF LIST_STATUS_MIGRATED
  <2> QED  BY <2>1, <2>2
<1>3. ASSUME NEW i, Lives(i)  PROVE Lives(i)'
  BY <1>1, <1>3, PresentSame DEF Lives
<1> QED  BY <1>2, <1>3 DEF LiveInv

LEMMA LiveNext ==
    ASSUME ~CanCrash, IInv, StacksLedger, Innermost, LiveInv, [Next]_vars
    PROVE  LiveInv'
<1>1. CASE UNCHANGED vars
  <2>1. ASSUME NEW i, Lives(i)  PROVE Lives(i)'
    BY <1>1, <2>1, PresentSame DEF Lives, vars
  <2> QED  BY <1>1, <2>1 DEF LiveInv, vars
<1>2. ASSUME NEW p \in Proc, Step(p)  PROVE LiveInv'
  BY <1>2, LiveSteps
<1>3. ASSUME NEW p \in Proc, StartMigration(p) \/ StartBatch(p) \/ StartCleanup(p)
      PROVE  LiveInv'
  <2>1. Idle(p) /\ ~raising[p]
    BY <1>3 DEF Innermost, StartMigration, StartBatch, StartCleanup, Invoke
  <2>2. UNCHANGED <<db, dest>> /\ \E G : Replaced(p, G)
    BY <1>3, <2>1, StartKind
  <2>3. PICK G : Replaced(p, G)
    BY <2>2
  <2>4. \A i \in DOMAIN db' : db'[i].status = STATUS_IN_PROGRESS =>
           \/ \E g \in G : \E q \in LivePc : \E r : g = <<q, r, i>>
           \/ /\ i \in DOMAIN db /\ db[i].status = STATUS_IN_PROGRESS
              /\ Idle(p) \/ Top(p).pc \notin LivePc \/ Top(p).rec # i
    BY <2>1, <2>2
  <2> QED  BY <2>3, <2>4, LiveStep
<1>4. CASE ArchiveMigrations \/ RestoreMigrations \/ RegisterExternal
  BY <1>4, LiveOutside
<1> QED  BY <1>1, <1>2, <1>3, <1>4 DEF Next, Crash

\* A record that says in-progress (manager.py:129) is the record of a call that
\* is still running, whatever fails, however many invocations run at the same
\* time and whatever the other commands do to the records, as long as no
\* invocation is killed: so what the loops over dependencies and members skip
\* because it is in progress is indeed being migrated.
THEOREM InProgressIsWorkedOn ==
    ASSUME ~CanCrash
    PROVE  Spec => []InProgressIsLive
<1>1. Init => Innermost /\ LiveInv
  BY EmptySeq DEF Init, Innermost, LiveInv, Idle
<1>2. IInv /\ LedgerInv /\ Innermost /\ LiveInv /\ [Next]_vars => Innermost' /\ LiveInv'
  BY InnermostNext, LiveNext DEF LedgerInv, StacksLedger
<1>3. LiveInv => InProgressIsLive
  BY DEF LiveInv, Lives, Present, Id, InProgressIsLive
<1> QED  BY <1>1, <1>2, <1>3, Invariance, LedgerInvariance, PTL DEF Spec

-----------------------------------------------------------------------------
(* Objects on the destination are named by records.                        *)

ObjectFor(r, i) == NewObject([res |-> r, rec |-> i])

\* A record names o, or will as soon as the frame that created it goes on, or
\* says that the call which created it has failed.
Accounted(o) ==
    \/ \E i \in DOMAIN db : db[i].dest = o
    \/ \E r, i : Present(<<"saveDest", r, i>>) /\ o = ObjectFor(r, i)
    \/ LeftBehind(o)

AccountInv == \A o \in dest : Accounted(o)

DestinationsKept ==
    \A j \in DOMAIN db :
        j \in DOMAIN db' /\ (db[j].dest # NoDest => db'[j].dest = db[j].dest)

\* A failure stays on record.
FailuresKept ==
    \A j \in DOMAIN db :
        /\ j \in DOMAIN db' /\ db'[j].source = db[j].source
        /\ db[j].status = STATUS_FAILED => db'[j].status = STATUS_FAILED

LEMMA StillLeftBehind ==
    ASSUME FailuresKept, NEW o, LeftBehind(o)
    PROVE  LeftBehind(o)'
BY DEF FailuresKept, LeftBehind

LEMMA FailuresSame ==
    ASSUME UNCHANGED db
    PROVE  FailuresKept
BY DEF FailuresKept

LEMMA ObjectOfTop ==
    ASSUME NEW p
    PROVE  NewObject(Top(p)) = ObjectFor(Top(p).res, Top(p).rec)
BY DEF ObjectFor, NewObject

LEMMA AccountStep ==
    ASSUME IInv, AccountInv, DestinationsKept, FailuresKept,
           NEW p \in Proc, NEW G, Replaced(p, G),
           \A o \in dest' :
              \/ o \in dest \/ LeftBehind(o)'
              \/ \E r, i : <<"saveDest", r, i>> \in G /\ o = ObjectFor(r, i),
           \/ Idle(p) \/ Top(p).pc # "saveDest" \/ Id(Top(p)) \in G
           \/ \E j \in DOMAIN db' : db'[j].dest = NewObject(Top(p))
    PROVE  AccountInv'
<1> SUFFICES ASSUME NEW o \in dest'  PROVE Accounted(o)'
  BY DEF AccountInv
<1>1. CASE \E r, i : <<"saveDest", r, i>> \in G /\ o = ObjectFor(r, i)
  <2>1. PICK r, i : <<"saveDest", r, i>> \in G /\ o = ObjectFor(r, i)
    BY <1>1
  <2>2. Present(<<"saveDest", r, i>>)'
    BY <2>1, PresentNew
  <2> QED  BY <2>1, <2>2 DEF Accounted, ObjectFor, NewObject
<1>2. CASE o \in dest
  <2>1. Accounted(o) /\ o # NoDest
    BY <1>2, DestAssumption DEF AccountInv, IInv, TypeOK
  <2>2. CASE \E i \in DOMAIN db : db[i].dest = o
    BY <2>1, <2>2 DEF DestinationsKept, Accounted
  <2>3. CASE \E r, i : Present(<<"saveDest", r, i>>) /\ o = ObjectFor(r, i)
    <3>1. PICK r, i : Present(<<"saveDest", r, i>>) /\ o = ObjectFor(r, i)
      BY <2>3
    <3>2. CASE Idle(p) \/ <<"saveDest", r, i>> # Id(Top(p)) \/ <<"saveDest", r, i>> \in G
      <4>1. Present(<<"saveDest", r, i>>)'
        BY <3>1, <3>2, PresentKept
      <4> QED  BY <3>1, <4>1 DEF Accounted, ObjectFor, NewObject
    <3>3. CASE <<"saveDest", r, i>> = Id(Top(p)) /\ \E j \in DOMAIN db' : db'[j].dest = NewObject(Top(p))
      <4>1. Top(p).res = r /\ Top(p).rec = i
        BY <3>3 DEF Id
      <4>2. o = NewObject(Top(p))
        BY <3>1, <4>1, ObjectOfTop
      <4> QED  BY <3>3, <4>2 DEF Accounted
    <3> QED  BY <3>2, <3>3 DEF Id
  <2>4. CASE LeftBehind(o)
    BY <2>4, StillLeftBehind DEF Accounted
  <2> QED  BY <2>1, <2>2, <2>3, <2>4 DEF Accounted
<1>3. CASE LeftBehind(o)'
  BY <1>3 DEF Accounted
<1> QED  BY <1>1, <1>2, <1>3

LEMMA AppendedRecord ==
    ASSUME IInv, NEW m \in Migration, db' = Append(db, m)
    PROVE  /\ DOMAIN db' = 1..Len(db) + 1 /\ db'[Len(db) + 1] = m
           /\ \A j \in DOMAIN db : j \in DOMAIN db' /\ db'[j] = db[j]
           /\ \A j \in DOMAIN db' : j \in DOMAIN db \/ j = Len(db) + 1
BY RecordNumbers, AppendProperties

\* Statuses are set, and sources marked as removed, apart from destinations.
LEMMA DestinationsStay ==
    ASSUME IInv, \/ UNCHANGED db
                 \/ \E i, v : SetStatus(i, v)
                 \/ MarkedRemoved
                 \/ \E m \in Migration : db' = Append(db, m)
    PROVE  DestinationsKept
<1>1. CASE UNCHANGED db
  BY <1>1 DEF DestinationsKept
<1>2. CASE \E i, v : SetStatus(i, v)
  <2>1. PICK i, v : db' = [db EXCEPT ![i].status = v]
    BY <1>2 DEF SetStatus
  <2> QED  BY <2>1, RecordFields DEF DestinationsKept
<1>3. CASE MarkedRemoved
  <2>1. PICK i : db' = [db EXCEPT ![i].removed = TRUE]
    BY <1>3 DEF MarkedRemoved
  <2> QED  BY <2>1, RecordFields DEF DestinationsKept
<1>4. CASE \E m \in Migration : db' = Append(db, m)
  <2>1. PICK m \in Migration : db' = Append(db, m)
    BY <1>4
  <2>2. \A j \in DOMAIN db : j \in DOMAIN db' /\ db'[j] = db[j]
    BY <2>1, AppendedRecord
  <2> QED  BY <2>2 DEF DestinationsKept
<1> QED  BY <1>1, <1>2, <1>3, <1>4

\* No step sets the status of a failed record: what a frame marks as migrated
\* has produced its object, and what it cleans up has been migrated.
LEMMA FailuresStay ==
    ASSUME IInv, StacksLedger, NEW p \in Proc, Step(p)
    PROVE  FailuresKept
<1>1. ~Idle(p) /\ Holds(Top(p), db, source)
  BY StepKinds, TopHolds
<1>2. CASE UNCHANGED db
  BY <1>2, FailuresSame
<1>3. ASSUME NEW i, NEW v, SetStatus(i, v),
             v = STATUS_FAILED \/ db[i].status # STATUS_FAILED
      PROVE  FailuresKept
  <2>1. db' = [db EXCEPT ![i].status = v]
    BY <1>3 DEF SetStatus
  <2> QED  BY <1>3, <2>1, RecordFields DEF FailuresKept
<1>4. CASE Opens(p)
  <2>1. PICK m \in Migration : db' = Append(db, m)
    BY <1>4 DEF Opens
  <2> QED  BY <2>1, AppendedRecord DEF FailuresKept
<1>5. CASE Saves(p) \/ Cleans(p)
  <2>1. \E i, v : db' = [db EXCEPT ![i].dest = v] \/ db' = [db EXCEPT ![i].removed = v]
    BY <1>5 DEF Saves, Cleans, MarkedRemoved
  <2>2. /\ DOMAIN db' = DOMAIN db
        /\ \A j \in DOMAIN db :
              db'[j].source = db[j].source /\ db'[j].status = db[j].status
    BY <2>1, RecordNumbers, OtherField
  <2> QED  BY <2>2 DEF FailuresKept
<1>6. CASE Closes(p)
  <2>1. \E v : SetStatus(Top(p).rec, v)
    BY <1>6 DEF Closes
  <2>2. db[Top(p).rec].status # STATUS_FAILED
    BY <1>1, <1>6 DEF Closes, Holds, MigratedPc, Produced
  <2> QED  BY <1>3, <2>1, <2>2
<1>7. CASE Fails(p)
  BY <1>3, <1>7 DEF Fails
<1>8. CASE Ends(p)
  <2>1. ASSUME NEW i \in DOMAIN db, NEW v, MigratedRecord(i), SetStatus(i, v)
        PROVE  FailuresKept
    BY <1>3, <2>1, StatusValues DEF MigratedRecord
  <2> QED  BY <1>2, <1>8, <2>1 DEF Ends
<1> QED  BY <1>2, <1>4, <1>5, <1>6, <1>7, <1>8, StepKinds
         DEF Waits, Reuses, Calls, Creates

\* What a failing handler adds is left behind.
LEMMA LeavesBehind ==
    ASSUME IInv, StacksLedger, NEW p \in Proc, ~Idle(p), Fails(p), Top(p).pc = "perform",
           NEW n, n = NewObject(Top(p))
    PROVE  LeftBehind(n)'
<1>1. Top(p).rec \in DOMAIN db /\ db[Top(p).rec].source = Top(p).res
  <2>1. FrameOK(Top(p), db, dest)
    BY TopHolds, StackShape DEF IInv, StackOK
  <2> QED  BY <2>1 DEF FrameOK, ParentPc
<1>2. PICK i, v : /\ i = Top(p).rec /\ v = STATUS_FAILED
                  /\ db' = [db EXCEPT ![i].status = v]
  BY DEF Fails, SetStatus
<1>3. /\ DOMAIN db' = DOMAIN db
      /\ \A j \in DOMAIN db :
            /\ db'[j].source = db[j].source
            /\ db'[j].status = IF j = i THEN v ELSE db[j].status
  BY <1>2, RecordFields
<1>4. n.of = Top(p).res /\ n.by \in {0, i}
  BY <1>2 DEF NewObject
<1>5. i \in DOMAIN db' /\ db'[i].source = Top(p).res /\ db'[i].status = v
  BY <1>1, <1>2, <1>3
<1> QED  BY <1>2, <1>4, <1>5 DEF LeftBehind

LEMMA AccountSteps ==
    ASSUME IInv, StacksLedger, AccountInv, NEW p \in Proc, Step(p)
    PROVE  AccountInv'
<1>1. ~Idle(p) /\ Holds(Top(p), db, source) /\ FailuresKept
  BY StepKinds, TopHolds, FailuresStay
<1>2. CASE Waits(p)
  <2>1. PICK q : /\ UNCHANGED <<db, dest>>
                 /\ Replaced(p, {<<q, Top(p).res, Top(p).rec>>})
                 /\ q = Top(p).pc \/ Top(p).pc # "saveDest"
    BY <1>2 DEF Waits, FreshPc, LivePc, OwnPc
  <2>2. DestinationsKept
    BY <2>1, DestinationsStay
  <2>3. Top(p).pc = "saveDest" => Id(Top(p)) \in {<<q, Top(p).res, Top(p).rec>>}
    BY <2>1 DEF Id
  <2> QED  BY <1>1, <2>1, <2>2, <2>3, AccountStep
<1>3. CASE Reuses(p) \/ Calls(p) \/ Opens(p) \/ Closes(p) \/ Cleans(p) \/ Ends(p)
  <2>1. /\ UNCHANGED dest
        /\ \E G : Replaced(p, G) /\ (Top(p).pc # "saveDest" \/ Id(Top(p)) \in G)
    <3>1. CASE Calls(p)
      BY <3>1 DEF Calls
    <3>2. CASE Reuses(p) \/ Opens(p) \/ Closes(p) \/ Cleans(p) \/ Ends(p)
      <4>1. UNCHANGED dest /\ Top(p).pc # "saveDest"
        BY <3>2 DEF Reuses, Opens, Closes, Cleans, Ends, FreshPc, LivePc, OwnPc
      <4>2. \E G : Replaced(p, G)
        BY <3>2 DEF Reuses, Opens, Closes, Cleans, Ends
      <4> QED  BY <4>1, <4>2
    <3> QED  BY <1>3, <3>1, <3>2
  <2>2. ASSUME Reuses(p) \/ Calls(p) \/ Opens(p) \/ Cleans(p)  PROVE DestinationsKept
    <3>1. UNCHANGED db \/ MarkedRemoved \/ \E m \in Migration : db' = Append(db, m)
      BY <2>2 DEF Reuses, Calls, Opens, Cleans
    <3> QED  BY <3>1, DestinationsStay
  <2>3. ASSUME Closes(p) \/ Ends(p)  PROVE DestinationsKept
    <3>1. UNCHANGED db \/ \E i, v : SetStatus(i, v)
      BY <2>3 DEF Closes, Ends
    <3> QED  BY <3>1, DestinationsStay
  <2>4. DestinationsKept
    BY <1>3, <2>2, <2>3
  <2> QED  BY <1>1, <2>1, <2>4, AccountStep
<1>4. CASE Fails(p)
  <2>1. Replaced(p, {}) /\ Top(p).pc # "saveDest"
    BY <1>4 DEF Fails
  <2>2. DestinationsKept
    BY <1>4, DestinationsStay DEF Fails
  <2>3. \A o \in dest' : o \in dest \/ LeftBehind(o)'
    <3>1. CASE UNCHANGED dest
      BY <3>1
    <3>2. CASE Top(p).pc = "perform" /\ dest' = dest \cup {NewObject(Top(p))}
      <4>1. PICK n : n = NewObject(Top(p))
        OBVIOUS
      <4>2. LeftBehind(n)'
        BY <1>1, <1>4, <3>2, <4>1, LeavesBehind
      <4> QED  BY <3>2, <4>1, <4>2
    <3> QED  BY <1>4, <3>1, <3>2 DEF Fails
  <2> QED  BY <1>1, <2>1, <2>2, <2>3, AccountStep
<1>5. CASE Creates(p)
  <2>1. /\ UNCHANGED db /\ Top(p).pc = "perform"
        /\ dest' = dest \cup {NewObject(Top(p))}
        /\ Replaced(p, {<<"saveDest", Top(p).res, Top(p).rec>>})
    BY <1>5 DEF Creates
  <2>2. DestinationsKept
    BY <2>1, DestinationsStay
  <2>3. \A o \in dest' : o \in dest \/ \E r, i :
           /\ <<"saveDest", r, i>> \in {<<"saveDest", Top(p).res, Top(p).rec>>}
           /\ o = ObjectFor(r, i)
    BY <2>1, ObjectOfTop
  <2> QED  BY <1>1, <2>1, <2>2, <2>3, AccountStep
<1>6. CASE Saves(p)
  <2>1. /\ UNCHANGED dest /\ Top(p).pc = "saveDest"
        /\ db' = [db EXCEPT ![Top(p).rec].dest = NewObject(Top(p))]
        /\ Replaced(p, {<<"migrated", Top(p).res, Top(p).rec>>})
    BY <1>6 DEF Saves
  <2>2. Top(p).rec \in DOMAIN db /\ db[Top(p).rec].dest = NoDest
    BY <1>1, <2>1 DEF Holds, OwnPc
  <2>3. /\ DOMAIN db' = DOMAIN db
        /\ \A j \in DOMAIN db :
              db'[j].dest = IF j = Top(p).rec THEN NewObject(Top(p)) ELSE db[j].dest
    BY <2>1, RecordFields
  <2>4. DestinationsKept
    BY <2>2, <2>3 DEF DestinationsKept
  <2>5. \E j \in DOMAIN db' : db'[j].dest = NewObject(Top(p))
    BY <2>2, <2>3
  <2> QED  BY <1>1, <2>1, <2>4, <2>5, AccountStep
<1> QED  BY <1>2, <1>3, <1>4, <1>5, <1>6, StepKinds

\* A registered object is named by the record that is entered with it.
LEMMA RegisteredObject ==
    ASSUME IInv, RegisterExternal
    PROVE  \E m \in Migration : db' = Append(db, m) /\ dest' = dest \cup {m.dest}
<1> DEFINE made(r) == NewObject([res |-> r, rec |-> Len(db) + 1])
           entry(r, x) == [source |-> r, status |-> STATUS_COMPLETED, dest |-> x,
                           removed |-> FALSE, archived |-> FALSE]
<1>1. PICK r \in Requested : \E x \in {y \in dest : y.of = r} \cup {made(r)} :
         db' = Append(db, entry(r, x)) /\ dest' = dest \cup {x}
  BY DEF RegisterExternal
<1>2. PICK x \in {y \in dest : y.of = r} \cup {made(r)} :
         db' = Append(db, entry(r, x)) /\ dest' = dest \cup {x}
  BY <1>1
<1>3. r \in Resource /\ dest \in SUBSET Object /\ Len(db) + 1 \in Nat
  BY ResourceAssumption, RecordNumbers DEF IInv, TypeOK
<1>4. made(r) \in Object
  BY <1>3 DEF NewObject, Object
<1> HIDE DEF made
<1>5. entry(r, x) \in Migration /\ entry(r, x).dest = x
  BY <1>2, <1>3, <1>4, StatusMembers DEF Migration
<1> HIDE DEF entry
<1> QED  BY <1>2, <1>5

LEMMA AccountRests ==
    ASSUME IInv, AccountInv, DestinationsKept, FailuresKept, UNCHANGED stack,
           \A o \in dest' : o \in dest \/ \E j \in DOMAIN db' : db'[j].dest = o
    PROVE  AccountInv'
<1> SUFFICES ASSUME NEW o \in dest'  PROVE Accounted(o)'
  BY DEF AccountInv
<1>1. CASE \E j \in DOMAIN db' : db'[j].dest = o
  BY <1>1 DEF Accounted
<1>2. CASE o \in dest
  <2>1. Accounted(o) /\ o # NoDest
    BY <1>2, DestAssumption DEF AccountInv, IInv, TypeOK
  <2>2. CASE \E i \in DOMAIN db : db[i].dest = o
    BY <2>1, <2>2 DEF DestinationsKept, Accounted
  <2>3. CASE \E r, i : Present(<<"saveDest", r, i>>) /\ o = ObjectFor(r, i)
    <3>1. PICK r, i : Present(<<"saveDest", r, i>>) /\ o = ObjectFor(r, i)
      BY <2>3
    <3>2. Present(<<"saveDest", r, i>>)'
      BY <3>1, PresentSame
    <3> QED  BY <3>1, <3>2 DEF Accounted, ObjectFor, NewObject
  <2>4. CASE LeftBehind(o)
    BY <2>4, StillLeftBehind DEF Accounted
  <2> QED  BY <2>1, <2>2, <2>3, <2>4 DEF Accounted
<1> QED  BY <1>1, <1>2

LEMMA AccountNext ==
    ASSUME ~CanCrash, IInv, StacksLedger, Innermost, AccountInv, [Next]_vars
    PROVE  AccountInv'
<1>1. CASE UNCHANGED vars
  BY <1>1, DestinationsStay, FailuresSame, AccountRests DEF vars
<1>2. ASSUME NEW p \in Proc, Step(p)  PROVE AccountInv'
  BY <1>2, AccountSteps
<1>3. ASSUME NEW p \in Proc, StartMigration(p) \/ StartBatch(p) \/ StartCleanup(p)
      PROVE  AccountInv'
  <2>1. Idle(p) /\ ~raising[p]
    BY <1>3 DEF Innermost, StartMigration, StartBatch, StartCleanup, Invoke
  <2>2. UNCHANGED <<db, dest>> /\ \E G : Replaced(p, G)
    BY <1>3, <2>1, StartKind
  <2> QED  BY <2>1, <2>2, DestinationsStay, FailuresSame, AccountStep
<1>4. CASE ArchiveMigrations \/ RestoreMigrations
  <2>1. DestinationsKept /\ FailuresKept
    BY <1>4, ArchivedFields DEF DestinationsKept, FailuresKept
  <2>2. UNCHANGED <<stack, dest>>
    BY <1>4, OutsideSteps DEF ArchiveMigrations, RestoreMigrations
  <2> QED  BY <2>1, <2>2, AccountRests
<1>5. CASE RegisterExternal
  <2>1. PICK m \in Migration : db' = Append(db, m) /\ dest' = dest \cup {m.dest}
    BY <1>5, RegisteredObject
  <2>2. DestinationsKept /\ UNCHANGED stack
    BY <1>5, <2>1, DestinationsStay, OutsideSteps
  <2>3. Len(db) + 1 \in DOMAIN db' /\ db'[Len(db) + 1] = m
    BY <2>1, RecordNumbers, AppendProperties, LenProperties
  <2>4. FailuresKept
    BY <2>1, AppendedRecord DEF FailuresKept
  <2> QED  BY <2>1, <2>2, <2>3, <2>4, AccountRests
<1> QED  BY <1>1, <1>2, <1>3, <1>4, <1>5 DEF Next, Crash

\* The handler's object is on the destination before the record names it
\* (manager.py:223-228), and a handler that fails may leave it there: whatever
\* fails and runs at the same time, every object is named by a record, is about
\* to be by a running call, or was left behind by a call whose record says that
\* it failed (manager.py:229-232).  It takes no invocation that is killed
\* between the two.
THEOREM ObjectsAreAccountedFor ==
    ASSUME ~CanCrash
    PROVE  Spec => []DestinationAccounted
<1>1. Init => Innermost /\ AccountInv
  BY EmptySeq DEF Init, Innermost, AccountInv, Idle
<1>2. IInv /\ LedgerInv /\ Innermost /\ AccountInv /\ [Next]_vars => Innermost' /\ AccountInv'
  BY InnermostNext, AccountNext DEF LedgerInv, StacksLedger
<1>3. IInv /\ Innermost /\ AccountInv => DestinationAccounted
  <2> SUFFICES ASSUME IInv, Innermost, AccountInv, NEW o \in dest,
                      NEW r, NEW i, Present(<<"saveDest", r, i>>), o = ObjectFor(r, i)
               PROVE  \E p \in Proc : At(p, "saveDest") /\ NewObject(Top(p)) = o
    BY DEF AccountInv, Accounted, DestinationAccounted
  <2>1. PICK p \in Proc : \E k \in DOMAIN stack[p] : Id(stack[p][k]) = <<"saveDest", r, i>>
    BY DEF Present
  <2>2. PICK k \in DOMAIN stack[p] : Id(stack[p][k]) = <<"saveDest", r, i>>
    BY <2>1
  <2>3. stack[p][k].pc = "saveDest" /\ stack[p][k].res = r /\ stack[p][k].rec = i
    BY <2>2 DEF Id
  <2>4. k = Len(stack[p]) /\ ~raising[p] /\ ~Idle(p)
    BY <2>3, EmptySeq DEF Innermost, CallerPc, Idle
  <2>5. Top(p) = stack[p][k]
    BY <2>4, StackShape
  <2>6. NewObject(Top(p)) = o
    BY <2>3, <2>5, ObjectOfTop
  <2> QED  BY <2>3, <2>4, <2>5, <2>6 DEF At
<1> QED  BY <1>1, <1>2, <1>3, Invariance, LedgerInvariance, PTL DEF Spec

-----------------------------------------------------------------------------
(* What a call has found out stays true until it acts on it.               *)

Available == {r \in Resource : IsMigrated(r)}

Latest == {i \in DOMAIN db : i \in Newest(db[i].source)}

\* A call creates its record and its object while the resource M is not
\* migrated, its record is the newest of the resource, and when the handler is
\* called everything the resource needs is migrated.
FreshOK(q, r, i, M, L) ==
    /\ q \in FreshPc \ {"migrated"} => r \notin M
    /\ q \in LivePc => i \in L
    /\ q = "perform" => Assoc[r] \subseteq M

FreshInv ==
    \A p \in Proc : \A k \in DOMAIN stack[p] :
        FreshOK(stack[p][k].pc, stack[p][k].res, stack[p][k].rec, Available, Latest)

\* Records change for the resource x only, and none is lost.
RecordStep(x) ==
    /\ Available \subseteq Available'
    /\ Available' \subseteq Available \cup {x}
    /\ \A i \in Latest : db[i].source # x => i \in Latest'

LEMMA RecordsSame ==
    ASSUME UNCHANGED db
    PROVE  Available' = Available /\ Latest' = Latest
BY DEF Available, Latest, IsMigrated, Newest

\* Records change in place: only those of x become migrated.
LEMMA InPlace ==
    ASSUME NEW x, DOMAIN db' = DOMAIN db,
           \A j \in DOMAIN db :
              /\ db'[j].source = db[j].source
              /\ db'[j].archived = db[j].archived
              /\ db[j].status \in LIST_STATUS_MIGRATED => db'[j].status \in LIST_STATUS_MIGRATED
              /\ db'[j].status \in LIST_STATUS_MIGRATED =>
                    db[j].status \in LIST_STATUS_MIGRATED \/ db[j].source = x
    PROVE  RecordStep(x) /\ Latest' = Latest /\ \A r : Newest(r)' = Newest(r)
<1>1. \A r : Newest(r)' = Newest(r)
  BY DEF Newest
<1>2. Latest' = Latest
  BY <1>1 DEF Latest
<1>3. \A r : \A i \in Newest(r) : i \in DOMAIN db /\ db[i].source = r
  BY DEF Newest
<1>4. Available \subseteq Available'
  BY <1>1, <1>3 DEF Available, IsMigrated
<1>5. Available' \subseteq Available \cup {x}
  BY <1>1, <1>3 DEF Available, IsMigrated
<1> QED  BY <1>1, <1>2, <1>4, <1>5 DEF RecordStep

\* A record in progress is added for x.
LEMMA AddedRecord ==
    ASSUME IInv, NEW m \in Migration, db' = Append(db, m), ~m.archived,
           m.status = STATUS_IN_PROGRESS, m.source \notin Available
    PROVE  /\ RecordStep(m.source) /\ m.source \notin Available'
           /\ Len(db) + 1 \in Latest'
<1>1. /\ DOMAIN db' = 1..Len(db) + 1 /\ db'[Len(db) + 1] = m
      /\ \A j \in DOMAIN db : j \in DOMAIN db' /\ db'[j] = db[j]
      /\ \A j \in DOMAIN db' : j \in DOMAIN db \/ j = Len(db) + 1
  BY AppendedRecord
<1>2. Len(db) \in Nat /\ DOMAIN db = 1..Len(db)
  BY RecordNumbers
<1>3. Newest(m.source)' = {Len(db) + 1}
  <2>1. Len(db) + 1 \in DOMAIN db' /\ \A j \in DOMAIN db' : j <= Len(db) + 1
    BY <1>1, <1>2
  <2>2. \A i \in DOMAIN db' : Len(db) + 1 <= i => i = Len(db) + 1
    BY <1>1, <1>2
  <2> QED  BY <1>1, <2>1, <2>2 DEF Newest
<1>4. \A r : r # m.source => Newest(r)' = Newest(r)
  BY <1>1, <1>2 DEF Newest
<1>5. \A r : \A i \in Newest(r) : i \in DOMAIN db /\ db[i].source = r
  BY DEF Newest
<1>6. m.source \notin Available'
  BY <1>1, <1>3, StatusValues DEF Available, IsMigrated
<1>7. Len(db) + 1 \in Latest'
  BY <1>1, <1>2, <1>3 DEF Latest
<1>8. \A r : r # m.source => (r \in Available' <=> r \in Available)
  BY <1>1, <1>4, <1>5 DEF Available, IsMigrated
<1>9. \A i \in Latest : db[i].source # m.source => i \in Latest'
  BY <1>1, <1>4 DEF Latest
<1> QED  BY <1>6, <1>7, <1>8, <1>9 DEF RecordStep

\* The record of a frame is one of its resource.
LEMMA OwnRecord ==
    ASSUME IInv, StacksLedger, NEW p \in Proc, NEW k \in DOMAIN stack[p],
           stack[p][k].pc \in LivePc
    PROVE  stack[p][k].rec \in DOMAIN db /\ db[stack[p][k].rec].source = stack[p][k].res
<1>1. FrameOK(stack[p][k], db, dest) /\ Holds(stack[p][k], db, source)
  BY DEF IInv, StackOK, StacksLedger, FramesHold
<1> QED  BY <1>1 DEF FrameOK, Holds, LivePc, OwnPc, ParentPc, MigratedPc

LEMMA FreshTop ==
    ASSUME IInv, StacksLedger, FreshInv, NEW p \in Proc, ~Idle(p)
    PROVE  /\ FreshOK(Top(p).pc, Top(p).res, Top(p).rec, Available, Latest)
           /\ Top(p).pc \in LivePc => Top(p).rec \in DOMAIN db /\ db[Top(p).rec].source = Top(p).res
<1>1. Top(p) = stack[p][Len(stack[p])] /\ Len(stack[p]) \in DOMAIN stack[p]
  BY StackShape
<1> QED  BY <1>1, OwnRecord DEF FreshInv

\* A step for the resource of the innermost frame leaves the others what they
\* have found out: they are for other resources.
LEMMA FreshStep ==
    ASSUME OneAtATime, IInv, StacksLedger, RecursionInv, FreshInv, NEW p \in Proc,
           NEW G, Replaced(p, G), Idle(p) \/ RecordStep(Top(p).res),
           Idle(p) => UNCHANGED db,
           \A g \in G : FreshOK(g[1], g[2], g[3], Available', Latest')
    PROVE  FreshInv'
<1> SUFFICES ASSUME NEW k \in DOMAIN stack'[p]
             PROVE  FreshOK(stack'[p][k].pc, stack'[p][k].res, stack'[p][k].rec, Available', Latest')
  BY DEF FreshInv, OneAtATime
<1>1. CASE Id(stack'[p][k]) \in G
  BY <1>1 DEF Id
<1>2. CASE k \in DOMAIN stack[p] /\ k # Len(stack[p])
  <2> DEFINE f == stack[p][k]
  <2>1. ~Idle(p)
    BY <1>2, EmptySeq DEF Idle
  <2>2. Top(p) = stack[p][Len(stack[p])] /\ Len(stack[p]) \in DOMAIN stack[p]
    BY <2>1, StackShape
  <2>3. f.res # Top(p).res
    BY <1>2, <2>2 DEF RecursionInv, Nested
  <2>4. FreshOK(f.pc, f.res, f.rec, Available, Latest)
    BY <1>2 DEF FreshInv
  <2>5. f.pc \in LivePc => db[f.rec].source = f.res
    BY <1>2, OwnRecord
  <2>6. Id(stack'[p][k]) = Id(f)
    BY <1>2 DEF Replaced
  <2>7. stack'[p][k].pc = f.pc /\ stack'[p][k].res = f.res /\ stack'[p][k].rec = f.rec
    BY <2>6 DEF Id
  <2>8. FreshOK(f.pc, f.res, f.rec, Available', Latest')
    BY <2>1, <2>3, <2>4, <2>5 DEF FreshOK, RecordStep
  <2> QED  BY <2>7, <2>8
<1> QED  BY <1>1, <1>2 DEF Replaced

\* What a step of an invocation does to the records, and what it finds out.
LEMMA FreshKinds ==
    ASSUME IInv, StacksLedger, FreshInv, NEW p \in Proc, Step(p)
    PROVE  /\ RecordStep(Top(p).res)
           /\ \E G : /\ Replaced(p, G)
                     /\ \A g \in G : FreshOK(g[1], g[2], g[3], Available', Latest')
<1> DEFINE f == Top(p)
<1>1. ~Idle(p) /\ Holds(f, db, source) /\ f \in Frame
  BY StepKinds, TopHolds
<1>2. /\ FreshOK(f.pc, f.res, f.rec, Available, Latest)
      /\ f.pc \in LivePc => f.rec \in DOMAIN db /\ db[f.rec].source = f.res
  BY <1>1, FreshTop
<1>3. UNCHANGED db => RecordStep(f.res) /\ Available' = Available /\ Latest' = Latest
  BY RecordsSame DEF RecordStep
<1>4. CASE Waits(p)
  <2>1. PICK q : /\ UNCHANGED <<db, dest>>
                 /\ Replaced(p, {<<q, f.res, f.rec>>})
                 /\ \/ q = f.pc
                    \/ f.pc = "lookup" /\ q = "create" /\ ~IsMigrated(f.res)
                    \/ f.pc = "assoc" /\ q = "deps"
                    \/ f.pc \in {"assoc", "deps"} /\ q = "perform" /\ Pending(f.res) = {}
                    \/ f.pc \notin FreshPc /\ q \notin FreshPc
    BY <1>4 DEF Waits
  <2>2. FreshOK(q, f.res, f.rec, Available, Latest)
    <3>1. CASE q = f.pc
      BY <1>2, <3>1
    <3>2. CASE q = "create" /\ ~IsMigrated(f.res)
      BY <3>2 DEF FreshOK, Available, LivePc, OwnPc
    <3>3. CASE f.pc = "assoc" /\ q = "deps"
      BY <1>2, <3>3 DEF FreshOK, FreshPc, LivePc, OwnPc
    <3>4. CASE f.pc \in {"assoc", "deps"} /\ q = "perform" /\ Pending(f.res) = {}
      <4>1. f.res \in Resource
        BY <1>1, <3>4 DEF Frame, CallFrame, LoopFrame, FrameOf
      <4>2. Assoc[f.res] \subseteq Available
        BY <3>4, <4>1, ResourceAssumption DEF Pending, Available
      <4> QED  BY <1>2, <3>4, <4>2 DEF FreshOK, FreshPc, LivePc, OwnPc
    <3>5. CASE q \notin FreshPc
      BY <3>5 DEF FreshOK, FreshPc, LivePc, OwnPc
    <3> QED  BY <2>1, <3>1, <3>2, <3>3, <3>4, <3>5
  <2> QED  BY <1>3, <2>1, <2>2
<1>5. CASE Reuses(p)
  <2>1. PICK i \in Newest(f.res) : Replaced(p, {<<"migrated", f.res, i>>})
    BY <1>5 DEF Reuses
  <2>2. UNCHANGED db /\ i \in Latest
    BY <1>5 DEF Reuses, Latest, Newest
  <2>3. FreshOK("migrated", f.res, i, Available', Latest')
    BY <1>3, <2>2 DEF FreshOK
  <2> QED  BY <1>3, <2>1, <2>2, <2>3
<1>6. CASE Calls(p)
  <2>1. PICK d : Replaced(p, {Id(f), <<"lookup", d, 0>>}) /\ UNCHANGED db
    BY <1>6 DEF Calls
  <2>2. FreshOK("lookup", d, 0, Available', Latest')
    BY DEF FreshOK, FreshPc, LivePc, OwnPc
  <2>3. \A g \in {Id(f), <<"lookup", d, 0>>} : FreshOK(g[1], g[2], g[3], Available', Latest')
    BY <1>2, <1>3, <2>1, <2>2 DEF Id
  <2> QED  BY <1>3, <2>1, <2>3
<1>7. CASE Opens(p)
  <2>1. PICK m \in Migration : /\ db' = Append(db, m) /\ m.source = f.res
                               /\ m.status = STATUS_IN_PROGRESS /\ ~m.archived
    BY <1>7 DEF Opens
  <2>2. Replaced(p, {<<"assoc", f.res, Len(db) + 1>>}) /\ f.pc = "create"
    BY <1>7 DEF Opens
  <2>3. f.res \notin Available
    BY <1>2, <2>2 DEF FreshOK, FreshPc
  <2>4. RecordStep(f.res) /\ f.res \notin Available' /\ Len(db) + 1 \in Latest'
    BY <2>1, <2>3, AddedRecord
  <2>5. FreshOK("assoc", f.res, Len(db) + 1, Available', Latest')
    BY <2>4 DEF FreshOK
  <2> QED  BY <2>2, <2>4, <2>5
<1>8. CASE Creates(p)
  <2>1. /\ UNCHANGED db /\ f.pc = "perform"
        /\ Replaced(p, {<<"saveDest", f.res, f.rec>>})
    BY <1>8 DEF Creates
  <2>2. FreshOK("saveDest", f.res, f.rec, Available', Latest')
    BY <1>2, <1>3, <2>1 DEF FreshOK, FreshPc, LivePc, OwnPc
  <2> QED  BY <1>3, <2>1, <2>2
<1>9. CASE Saves(p) \/ Cleans(p)
  <2>1. \E i, v : db' = [db EXCEPT ![i].dest = v] \/ db' = [db EXCEPT ![i].removed = v]
    BY <1>9 DEF Saves, Cleans, MarkedRemoved
  <2>2. /\ DOMAIN db' = DOMAIN db
        /\ \A j \in DOMAIN db : /\ db'[j].source = db[j].source
                                /\ db'[j].archived = db[j].archived
                                /\ db'[j].status = db[j].status
    BY <2>1, RecordNumbers, OtherField
  <2>3. RecordStep(f.res) /\ Latest' = Latest
    BY <2>2, InPlace
  <2>4. CASE Saves(p)
    <3>1. f.pc = "saveDest" /\ Replaced(p, {<<"migrated", f.res, f.rec>>})
      BY <2>4 DEF Saves
    <3>2. FreshOK("migrated", f.res, f.rec, Available', Latest')
      BY <1>2, <2>3, <3>1 DEF FreshOK, LivePc, OwnPc
    <3> QED  BY <2>3, <3>1, <3>2
  <2>5. CASE Cleans(p)
    <3>1. PICK q : q \notin FreshPc /\ Replaced(p, {<<q, f.res, f.rec>>})
      BY <2>5 DEF Cleans
    <3>2. FreshOK(q, f.res, f.rec, Available', Latest')
      BY <3>1 DEF FreshOK, FreshPc, LivePc, OwnPc
    <3> QED  BY <2>3, <3>1, <3>2
  <2> QED  BY <1>9, <2>4, <2>5
<1>10. CASE Closes(p)
  <2>1. PICK v \in LIST_STATUS_MIGRATED : db' = [db EXCEPT ![f.rec].status = v]
    BY <1>10 DEF Closes, SetStatus
  <2>2. PICK q : q \notin FreshPc /\ Replaced(p, {<<q, f.res, f.rec>>})
    BY <1>10 DEF Closes
  <2>3. db[f.rec].source = f.res
    BY <1>1, <1>10 DEF Closes, Holds, MigratedPc
  <2>4. /\ DOMAIN db' = DOMAIN db
        /\ \A j \in DOMAIN db :
              /\ db'[j].source = db[j].source /\ db'[j].archived = db[j].archived
              /\ db'[j].status = db[j].status \/ (j = f.rec /\ db'[j].status = v)
    BY <2>1, RecordNumbers, StatusField
  <2>5. RecordStep(f.res)
    BY <2>3, <2>4, InPlace
  <2>6. FreshOK(q, f.res, f.rec, Available', Latest')
    BY <2>2 DEF FreshOK, FreshPc, LivePc, OwnPc
  <2> QED  BY <2>2, <2>5, <2>6
<1>11. CASE Fails(p)
  <2>1. /\ db' = [db EXCEPT ![f.rec].status = STATUS_FAILED] /\ Replaced(p, {})
        /\ f.pc \in OwnPc
    BY <1>11 DEF Fails, SetStatus, OwnPc
  <2>2. db[f.rec].status = STATUS_IN_PROGRESS
    BY <1>1, <2>1 DEF Holds
  <2>3. /\ DOMAIN db' = DOMAIN db
        /\ \A j \in DOMAIN db :
              /\ db'[j].source = db[j].source /\ db'[j].archived = db[j].archived
              /\ \/ db'[j].status = db[j].status
                 \/ j = f.rec /\ db'[j].status = STATUS_FAILED
    BY <2>1, RecordNumbers, StatusField
  <2>4. RecordStep(f.res)
    BY <2>2, <2>3, StatusValues, InPlace
  <2> QED  BY <2>1, <2>4
<1>12. CASE Ends(p)
  <2>1. Replaced(p, {})
    BY <1>12 DEF Ends
  <2>2. ASSUME NEW i \in DOMAIN db, NEW v \in LIST_STATUS_MIGRATED,
               MigratedRecord(i), SetStatus(i, v)
        PROVE  RecordStep(f.res)
    <3>1. /\ DOMAIN db' = DOMAIN db
          /\ \A j \in DOMAIN db :
                /\ db'[j].source = db[j].source /\ db'[j].archived = db[j].archived
                /\ db'[j].status = db[j].status \/ (j = i /\ db'[j].status = v)
      BY <2>2, RecordNumbers, StatusField DEF SetStatus
    <3> QED  BY <2>2, <3>1, InPlace DEF MigratedRecord
  <2>3. RecordStep(f.res)
    BY <1>3, <1>12, <2>2 DEF Ends
  <2> QED  BY <2>1, <2>3
<1> QED  BY <1>4, <1>5, <1>6, <1>7, <1>8, <1>9, <1>10, <1>11, <1>12, StepKinds

\* Nobody rewrites the records: of the commands only those that migrate and
\* clean up are in use.
OnlyMigrations == Commands \cap {"delete", "restore", "register-external"} = {}

LEMMA NobodyRewrites ==
    ASSUME OnlyMigrations
    PROVE  RecordsAreKept /\ ~(ArchiveMigrations \/ RestoreMigrations \/ RegisterExternal)
BY DEF OnlyMigrations, RecordsAreKept, ArchiveMigrations, RestoreMigrations, RegisterExternal,
   Issue

LEMMA StartFresh ==
    ASSUME OneAtATime, IInv, StacksLedger, RecursionInv, FreshInv, Innermost, NEW p \in Proc,
           StartMigration(p) \/ StartBatch(p) \/ StartCleanup(p)
    PROVE  FreshInv'
<1>1. Idle(p) /\ ~raising[p]
  BY DEF Innermost, StartMigration, StartBatch, StartCleanup, Invoke
<1>2. UNCHANGED db /\ \E q, r : q \notin FreshPc /\ Replaced(p, {<<q, r, 0>>})
  BY <1>1, StartKind
<1>3. PICK q, r : q \notin FreshPc /\ Replaced(p, {<<q, r, 0>>})
  BY <1>2
<1>4. FreshOK(q, r, 0, Available', Latest')
  BY <1>3 DEF FreshOK, FreshPc, LivePc, OwnPc
<1> QED  BY <1>1, <1>2, <1>3, <1>4, FreshStep

\* What a single invocation needs to know.
SingleInv == Innermost /\ RecursionInv /\ FreshInv

LEMMA SingleInit ==
    ASSUME Init
    PROVE  SingleInv
BY NestedEmpty, EmptySeq DEF Init, SingleInv, Innermost, RecursionInv, FreshInv, Idle

LEMMA SingleNext ==
    ASSUME OneAtATime, OnlyMigrations, IInv, StacksLedger, SingleInv, [Next]_vars
    PROVE  SingleInv'
<1> USE DEF SingleInv
<1>1. Innermost' /\ RecursionInv'
  BY InnermostNext, NobodyRewrites, RecursionNext
<1>2. CASE UNCHANGED vars
  <2>1. Available' = Available /\ Latest' = Latest /\ UNCHANGED stack
    BY <1>2, RecordsSame DEF vars
  <2> QED  BY <1>1, <2>1 DEF FreshInv
<1>3. ASSUME NEW p \in Proc, Step(p)  PROVE FreshInv'
  <2>1. /\ RecordStep(Top(p).res) /\ ~Idle(p)
        /\ \E G : /\ Replaced(p, G)
                  /\ \A g \in G : FreshOK(g[1], g[2], g[3], Available', Latest')
    BY <1>3, FreshKinds, StepKinds
  <2>2. PICK G : /\ Replaced(p, G)
                 /\ \A g \in G : FreshOK(g[1], g[2], g[3], Available', Latest')
    BY <2>1
  <2> QED  BY <2>1, <2>2, FreshStep
<1>4. ASSUME NEW p \in Proc, StartMigration(p) \/ StartBatch(p) \/ StartCleanup(p)
      PROVE  FreshInv'
  BY <1>4, StartFresh
<1>5. ASSUME NEW p \in Proc, Crash(p)  PROVE FreshInv'
  <2>1. stack'[p] = <<>>
    BY <1>5 DEF Crash, IInv, TypeOK
  <2> QED  BY <2>1, EmptySeq DEF FreshInv, OneAtATime
<1> QED  BY <1>1, <1>2, <1>3, <1>4, <1>5, NobodyRewrites DEF Next

-----------------------------------------------------------------------------
(* Dependencies first, and every resource once.                            *)

\* Objects appear on the destination at the handler's call only.
LEMMA NewObjects ==
    ASSUME OnlyMigrations, IInv, StacksLedger, [Next]_vars,
           NEW o \in dest' \ dest
    PROVE  \E p \in Proc : /\ Step(p) /\ ~Idle(p) /\ Top(p).pc = "perform"
                           /\ o = NewObject(Top(p))
<1>1. ~(UNCHANGED dest)
  OBVIOUS
<1>2. PICK p \in Proc : Step(p)
  BY <1>1, NobodyRewrites DEF Next, vars, clouds, Crash, StartMigration, StartBatch,
     StartCleanup, Invoke
<1>3. ~Idle(p) /\ (Creates(p) \/ Fails(p))
  BY <1>1, <1>2, StepKinds DEF Waits, Reuses, Calls, Opens, Saves, Closes, Cleans, Ends
<1>4. Top(p).pc = "perform" /\ dest' = dest \cup {NewObject(Top(p))}
  BY <1>1, <1>3 DEF Creates, Fails
<1> QED  BY <1>2, <1>3, <1>4

\* Whatever fails or is killed, when a handler creates a resource
\* (manager.py:216-219) the newest records of all of its associated resources
\* say that they are migrated: what _get_associated_resources found before the
\* dependencies were migrated, or after, is still so, because the calls on the
\* stack are for other resources.  It takes one invocation at a time, and
\* nobody who rewrites the records.
THEOREM DependenciesComeFirst ==
    ASSUME OneAtATime, OnlyMigrations
    PROVE  Spec => DependenciesFirst
<1>1. Init => SingleInv
  BY SingleInit
<1>2. IInv /\ LedgerInv /\ SingleInv /\ [Next]_vars => SingleInv'
  BY SingleNext DEF LedgerInv, StacksLedger
<1>3. IInv /\ LedgerInv /\ SingleInv /\ [Next]_vars
         => [\A o \in dest' \ dest : \A d \in Assoc[o.of] : IsMigrated(d)]_vars
  <2> SUFFICES ASSUME IInv, LedgerInv, SingleInv, [Next]_vars,
                      NEW o \in dest' \ dest, NEW d \in Assoc[o.of]
               PROVE  IsMigrated(d)
    OBVIOUS
  <2>1. StacksLedger
    BY DEF LedgerInv, StacksLedger
  <2>2. PICK p \in Proc : ~Idle(p) /\ Top(p).pc = "perform" /\ o = NewObject(Top(p))
    BY <2>1, NewObjects
  <2>3. o.of = Top(p).res
    BY <2>2 DEF NewObject
  <2>4. Assoc[Top(p).res] \subseteq Available
    BY <2>1, <2>2, FreshTop DEF FreshOK, SingleInv
  <2> QED  BY <2>3, <2>4 DEF Available
<1> QED  BY <1>1, <1>2, <1>3, Invariance, LedgerInvariance, PTL DEF Spec, DependenciesFirst

\* An object's resource is migrated, or is about to be.
Landing(r) == \E q \in {"saveDest", "migrated"} : \E i : Present(<<q, r, i>>)

OnceInv ==
    /\ OneDestination
    /\ \A o \in dest : LeftBehind(o) \/ o.of \in Available \/ Landing(o.of)

LEMMA LandingStep ==
    ASSUME IInv, NEW p \in Proc, NEW G, Replaced(p, G), NEW r,
           Available \subseteq Available', r \in Available \/ Landing(r),
           \/ Idle(p) \/ Top(p).pc \notin {"saveDest", "migrated"}
           \/ \E q \in {"saveDest", "migrated"} : \E i : <<q, Top(p).res, i>> \in G
           \/ Top(p).res \in Available'
    PROVE  r \in Available' \/ Landing(r)'
<1>1. CASE r \in Available
  BY <1>1
<1>2. CASE Landing(r)
  <2>1. PICK q \in {"saveDest", "migrated"} : \E i : Present(<<q, r, i>>)
    BY <1>2 DEF Landing
  <2>2. PICK i : Present(<<q, r, i>>)
    BY <2>1
  <2>3. CASE Idle(p) \/ <<q, r, i>> # Id(Top(p))
    <3>1. Present(<<q, r, i>>)'
      BY <2>2, <2>3, PresentKept
    <3> QED  BY <3>1 DEF Landing
  <2>4. CASE ~Idle(p) /\ <<q, r, i>> = Id(Top(p))
    <3>1. Top(p).pc = q /\ Top(p).res = r
      BY <2>4 DEF Id
    <3>2. CASE Top(p).res \in Available'
      BY <3>1, <3>2
    <3>3. CASE \E q2 \in {"saveDest", "migrated"} : \E i2 : <<q2, Top(p).res, i2>> \in G
      <4>1. PICK q2 \in {"saveDest", "migrated"} : \E i2 : <<q2, r, i2>> \in G
        BY <3>1, <3>3
      <4>2. PICK i2 : <<q2, r, i2>> \in G
        BY <4>1
      <4>3. Present(<<q2, r, i2>>)'
        BY <4>2, PresentNew
      <4> QED  BY <4>3 DEF Landing
    <3> QED  BY <2>4, <3>1, <3>2, <3>3
  <2> QED  BY <2>3, <2>4
<1> QED  BY <1>1, <1>2

\* The newest record of r is migrated, and so is r.
LEMMA ClosedAvailable ==
    ASSUME IInv, NEW r, NEW i \in Newest(r), NEW v \in LIST_STATUS_MIGRATED,
           db' = [db EXCEPT ![i].status = v]
    PROVE  r \in Available'
<1>1. /\ DOMAIN db' = DOMAIN db
      /\ \A j \in DOMAIN db :
            /\ db'[j].source = db[j].source /\ db'[j].archived = db[j].archived
            /\ db'[j].status = db[j].status \/ (j = i /\ db'[j].status = v)
  BY RecordNumbers, StatusField
<1>2. /\ DOMAIN db' = DOMAIN db
      /\ \A j \in DOMAIN db : db'[j].status = IF j = i THEN v ELSE db[j].status
  BY RecordFields
<1>3. i \in DOMAIN db /\ db[i].source = r /\ db[i] \in Migration
  BY RecordNumbers DEF Newest
<1>4. Newest(r)' = Newest(r)
  BY <1>1 DEF Newest
<1>5. db'[i].status = v /\ r \in Resource
  BY <1>2, <1>3 DEF Migration
<1> QED  BY <1>4, <1>5 DEF Available, IsMigrated

\* A call that has created an object keeps at it until its record is migrated.
LEMMA LandingKinds ==
    ASSUME IInv, StacksLedger, FreshInv, NEW p \in Proc, Step(p),
           NEW r, r \in Available \/ Landing(r)
    PROVE  r \in Available' \/ Landing(r)'
<1> DEFINE f == Top(p)
           At2 == {"saveDest", "migrated"}
<1>1. ~Idle(p) /\ Available \subseteq Available'
  BY StepKinds, FreshKinds DEF RecordStep
<1>2. /\ FreshOK(f.pc, f.res, f.rec, Available, Latest)
      /\ f.pc \in LivePc => f.rec \in DOMAIN db /\ db[f.rec].source = f.res
  BY <1>1, FreshTop
<1>3. ASSUME NEW G, Replaced(p, G),
             \/ f.pc \notin At2
             \/ \E q \in At2 : \E i : <<q, f.res, i>> \in G
             \/ f.res \in Available'
      PROVE  r \in Available' \/ Landing(r)'
  BY <1>1, <1>3, LandingStep
<1>4. CASE Waits(p)
  <2>1. PICK q : /\ Replaced(p, {<<q, f.res, f.rec>>})
                 /\ q = f.pc \/ f.pc \notin At2
    BY <1>4 DEF Waits, FreshPc, LivePc, OwnPc
  <2> QED  BY <1>3, <2>1
<1>5. CASE Calls(p)
  <2>1. PICK d : Replaced(p, {Id(f), <<"lookup", d, 0>>})
    BY <1>5 DEF Calls
  <2>2. <<f.pc, f.res, f.rec>> \in {Id(f), <<"lookup", d, 0>>}
    BY DEF Id
  <2> QED  BY <1>3, <2>1, <2>2
<1>6. CASE Reuses(p) \/ Opens(p) \/ Creates(p) \/ Cleans(p) \/ Fails(p) \/ Ends(p)
  <2>1. f.pc \notin At2
    BY <1>6 DEF Reuses, Opens, Creates, Cleans, Fails, Ends, FreshPc, LivePc, OwnPc
  <2>2. \E G : Replaced(p, G)
    BY StepReplaces
  <2> QED  BY <1>3, <2>1, <2>2
<1>7. CASE Saves(p)
  <2>1. Replaced(p, {<<"migrated", f.res, f.rec>>})
    BY <1>7 DEF Saves
  <2> QED  BY <1>3, <2>1
<1>8. CASE Closes(p)
  <2>1. PICK v \in LIST_STATUS_MIGRATED : db' = [db EXCEPT ![f.rec].status = v]
    BY <1>8 DEF Closes, SetStatus
  <2>2. PICK G : Replaced(p, G)
    BY <1>8 DEF Closes
  <2>3. CASE f.pc = "migrated"
    <3>1. f.rec \in Latest /\ f.rec \in DOMAIN db /\ db[f.rec].source = f.res
      BY <1>2, <2>3 DEF FreshOK, LivePc
    <3>2. f.rec \in Newest(f.res)
      BY <3>1 DEF Latest
    <3>3. f.res \in Available'
      BY <2>1, <3>2, ClosedAvailable
    <3> QED  BY <1>3, <2>2, <3>3
  <2>4. CASE f.pc = "pendingCleanup"
    BY <1>3, <2>2, <2>4
  <2> QED  BY <1>8, <2>3, <2>4 DEF Closes
<1> QED  BY <1>4, <1>5, <1>6, <1>7, <1>8, StepKinds

\* The frame that is about to create an object is alone with its resource.
LEMMA AloneWithResource ==
    ASSUME OneAtATime, IInv, RecursionInv, NEW p \in Proc, ~Idle(p),
           Top(p).pc = "perform"
    PROVE  ~Landing(Top(p).res)
<1> SUFFICES ASSUME NEW q \in {"saveDest", "migrated"}, NEW i, Present(<<q, Top(p).res, i>>)
             PROVE  FALSE
  BY DEF Landing
<1>1. PICK k \in DOMAIN stack[p] : Id(stack[p][k]) = <<q, Top(p).res, i>>
  BY DEF Present, OneAtATime
<1>2. stack[p][k].pc = q /\ stack[p][k].res = Top(p).res
  BY <1>1 DEF Id
<1>3. Top(p) = stack[p][Len(stack[p])] /\ Len(stack[p]) \in DOMAIN stack[p]
  BY StackShape
<1>4. k = Len(stack[p])
  BY <1>2, <1>3 DEF RecursionInv, Nested
<1> QED  BY <1>2, <1>3, <1>4

LEMMA OnceSteps ==
    ASSUME OneAtATime, OnlyMigrations, IInv, StacksLedger, SingleInv, OnceInv,
           NEW p \in Proc, Step(p)
    PROVE  OnceInv'
<1> USE DEF SingleInv
<1>1. \A o \in dest : LeftBehind(o)' \/ o.of \in Available' \/ Landing(o.of)'
  BY LandingKinds, FailuresStay, StillLeftBehind DEF OnceInv
<1>2. \A o1, o2 \in dest :
         o1.of = o2.of /\ ~LeftBehind(o1)' /\ ~LeftBehind(o2)' => o1 = o2
  BY FailuresStay, StillLeftBehind DEF OnceInv, OneDestination
<1>3. CASE UNCHANGED dest
  BY <1>1, <1>2, <1>3 DEF OnceInv, OneDestination
<1>4. CASE ~(UNCHANGED dest)
  <2>1. ~Idle(p) /\ (Creates(p) \/ Fails(p))
    BY <1>4, StepKinds DEF Waits, Reuses, Calls, Opens, Saves, Closes, Cleans, Ends
  <2>2. dest' = dest \cup {NewObject(Top(p))} /\ Top(p).pc = "perform"
    BY <1>4, <2>1 DEF Creates, Fails
  <2>3. NewObject(Top(p)).of = Top(p).res
    BY DEF NewObject
  <2>4. Top(p).res \notin Available
    BY <2>1, <2>2, FreshTop DEF FreshOK, FreshPc, LivePc, OwnPc
  <2>5. \A o \in dest : o.of = Top(p).res => LeftBehind(o)'
    BY <2>1, <2>2, <2>4, AloneWithResource, FailuresStay, StillLeftBehind DEF OnceInv
  <2>6. PICK r, i, n : r = Top(p).res /\ i = Top(p).rec /\ n = NewObject(Top(p))
    OBVIOUS
  <2>7. dest' = dest \cup {n} /\ n.of = r /\ \A o \in dest : o.of = r => LeftBehind(o)'
    BY <2>2, <2>3, <2>5, <2>6
  <2>8. LeftBehind(n)' \/ Landing(r)'
    <3>1. CASE Creates(p)
      <4>1. Replaced(p, {<<"saveDest", r, i>>})
        BY <2>6, <3>1 DEF Creates
      <4>2. Present(<<"saveDest", r, i>>)'
        BY <4>1, PresentNew
      <4> QED  BY <4>2 DEF Landing
    <3>2. CASE Fails(p)
      BY <2>1, <2>2, <2>6, <3>2, LeavesBehind
    <3> QED  BY <2>1, <3>1, <3>2
  <2>9. OneDestination'
    BY <1>2, <2>7 DEF OneDestination
  <2>10. \A o \in dest' : LeftBehind(o)' \/ o.of \in Available' \/ Landing(o.of)'
    <3> SUFFICES ASSUME NEW o \in dest'
                 PROVE  LeftBehind(o)' \/ o.of \in Available' \/ Landing(o.of)'
      OBVIOUS
    <3>1. CASE o \in dest
      BY <1>1, <3>1
    <3>2. CASE o = n
      BY <2>7, <2>8, <3>2 DEF LeftBehind
    <3> QED  BY <2>7, <3>1, <3>2
  <2> QED  BY <2>9, <2>10 DEF OnceInv
<1> QED  BY <1>3, <1>4

LEMMA OnceNext ==
    ASSUME OneAtATime, OnlyMigrations, ~CanCrash,
           IInv, StacksLedger, SingleInv, OnceInv, [Next]_vars
    PROVE  OnceInv'
<1>1. CASE UNCHANGED vars
  <2>1. Available' = Available /\ UNCHANGED <<stack, dest, db>>
    BY <1>1, RecordsSame DEF vars
  <2>2. ASSUME NEW r, Landing(r)  PROVE Landing(r)'
    BY <2>1, <2>2, PresentSame DEF Landing
  <2>3. \A o : LeftBehind(o)' <=> LeftBehind(o)
    BY <2>1 DEF LeftBehind
  <2> QED  BY <2>1, <2>2, <2>3 DEF OnceInv, OneDestination
<1>2. ASSUME NEW p \in Proc, Step(p)  PROVE OnceInv'
  BY <1>2, OnceSteps
<1>3. ASSUME NEW p \in Proc, StartMigration(p) \/ StartBatch(p) \/ StartCleanup(p)
      PROVE  OnceInv'
  <2>1. Idle(p) /\ ~raising[p]
    BY <1>3 DEF SingleInv, Innermost, StartMigration, StartBatch, StartCleanup, Invoke
  <2>2. UNCHANGED <<db, dest>> /\ \E G : Replaced(p, G)
    BY <1>3, <2>1, StartKind
  <2>3. Available' = Available /\ \A o : LeftBehind(o)' <=> LeftBehind(o)
    BY <2>2, RecordsSame DEF LeftBehind
  <2>4. \A o \in dest : LeftBehind(o)' \/ o.of \in Available' \/ Landing(o.of)'
    BY <2>1, <2>2, <2>3, LandingStep DEF OnceInv
  <2> QED  BY <2>2, <2>3, <2>4 DEF OnceInv, OneDestination
<1> QED  BY <1>1, <1>2, <1>3, NobodyRewrites DEF Next, Crash

\* However often a resource is requested, reached as a dependency, as a member
\* or of a cycle, or tried again after a failure, it is created on the
\* destination once (manager.py:115-122, 179-186, 262-268), but for what a
\* handler that failed past its own creation of the object left behind: for any
\* relations of dependencies and members, as long as one invocation runs at a
\* time and is not killed, and nobody rewrites the records.
THEOREM CreatedOnce ==
    ASSUME OneAtATime, OnlyMigrations, ~CanCrash
    PROVE  Spec => []OneDestination
<1>1. Init => SingleInv /\ OnceInv
  BY SingleInit DEF Init, OnceInv, OneDestination
<1>2. IInv /\ LedgerInv /\ SingleInv /\ OnceInv /\ [Next]_vars => SingleInv' /\ OnceInv'
  BY SingleNext, OnceNext DEF LedgerInv, StacksLedger
<1>3. OnceInv => OneDestination
  BY DEF OnceInv
<1> QED  BY <1>1, <1>2, <1>3, Invariance, LedgerInvariance, PTL DEF Spec

=============================================================================
