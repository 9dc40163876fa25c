------------------------------ MODULE LedgerProofs ------------------------------
(***************************************************************************)
(* What the records promise about both clouds, for any hierarchy of        *)
(* resources, any number of concurrent invocations, any failures, crashes  *)
(* and rewriting of the records: the table is a ledger, a source goes only *)
(* after its migration has produced its destination, only where cleanup    *)
(* was asked for, and a record says so only when it is gone.               *)
(***************************************************************************)
EXTENDS RecursionProofs

\* Up to here the record of a call is its own and has produced nothing.
OwnPc == {"assoc", "deps", "perform", "saveDest"}

Produced(i, d) == d[i].status # STATUS_FAILED /\ d[i].dest # NoDest

\* What a frame knows of the records it refers to.
Holds(f, d, s) ==
    /\ f.pc \in LoopPc => f.rec = 0
    /\ f.pc \in OwnPc => /\ f.rec \in DOMAIN d
                         /\ d[f.rec].status = STATUS_IN_PROGRESS
                         /\ d[f.rec].dest = NoDest
    /\ f.pc \in MigratedPc => /\ f.rec \in DOMAIN d
                              /\ d[f.rec].source = f.res
                              /\ Produced(f.rec, d)
    /\ f.pc \in MigratedPc \ {"migrated"} => d[f.rec].status \in LIST_STATUS_MIGRATED
    /\ \A i \in f.queue \cup f.got :
          i \in DOMAIN d /\ d[i].status \in LIST_STATUS_MIGRATED
    /\ f.pc \notin LoopPc => \A i \in f.queue : d[i].source \in Owned[f.res]
    /\ f.cur # 0 => /\ f.cur \in DOMAIN d
                    /\ d[f.cur].status \in LIST_STATUS_MIGRATED
                    /\ d[f.cur].source \notin s \/ d[f.cur].source \in Swallows
                    /\ f.pc \in {"cleanOwn", "cleanAssoc", "sweep"}
    /\ f.pc = "cleanOwn" => f.cur \in {0, f.rec}
    /\ f.pc \in {"pendingCleanup", "cleanOwn", "cleanAssoc"} => f.cleanup
    /\ f.pc \in {"cleanAssoc", "complete"} /\ f.cleanup => d[f.rec].removed

\* Cleanup is passed on from the command line to members, never to
\* dependencies, and a loop is the outermost frame of its stack.
MayClean(t, c) ==
    \A k \in DOMAIN t :
        /\ t[k].pc \in LoopPc => k = 1
        /\ t[k].cleanup => c /\ \A j \in DOMAIN t : j < k => t[j].pc # "deps"

\* No two calls work on the same record before it has produced something.
Exclusive ==
    \A p, q \in Proc : \A j \in DOMAIN stack[p], k \in DOMAIN stack[q] :
        /\ stack[p][j].pc \in OwnPc /\ stack[q][k].pc \in OwnPc
        /\ stack[p][j].rec = stack[q][k].rec
        => p = q /\ j = k

FramesHold == \A p \in Proc : \A k \in DOMAIN stack[p] : Holds(stack[p][k], db, source)

CleanupIsAsked == \A p \in Proc : MayClean(stack[p], opts[p].cleanup)

LedgerInv ==
    /\ FramesHold
    /\ CleanupIsAsked
    /\ Exclusive
    /\ RemovedIsGone
    /\ RemovedIsMigrated

-----------------------------------------------------------------------------
(* What may happen to the records and the source cloud under a frame that  *)
(* rests: a source goes, a record is migrated for good, and only its owner *)
(* changes one that is in progress and has produced nothing.               *)

Advances(d, s, d2, s2, own) ==
    /\ s2 \subseteq s
    /\ \A i \in DOMAIN d :
          /\ i \in DOMAIN d2
          /\ d2[i].source = d[i].source
          /\ d[i].status \in LIST_STATUS_MIGRATED => d2[i].status \in LIST_STATUS_MIGRATED
          /\ Produced(i, d) => Produced(i, d2)
          /\ d[i].removed => d2[i].removed
          /\ i # own /\ d[i].status = STATUS_IN_PROGRESS /\ d[i].dest = NoDest
                => d2[i].status = STATUS_IN_PROGRESS /\ d2[i].dest = NoDest

LEMMA StatusValues ==
    /\ STATUS_IN_PROGRESS \notin LIST_STATUS_MIGRATED
    /\ STATUS_FAILED \notin LIST_STATUS_MIGRATED
    /\ STATUS_IN_PROGRESS # STATUS_FAILED
BY DEF LIST_STATUS_MIGRATED, STATUS_FAILED, STATUS_IN_PROGRESS, STATUS_COMPLETED,
   STATUS_SOURCE_CLEANUP_FAILED, STATUS_PENDING_MEMBERS, STATUS_PENDING_CLEANUP

LEMMA AdvanceSame ==
    ASSUME NEW d, NEW s, NEW s2, s2 \subseteq s, NEW own
    PROVE  Advances(d, s, d, s2, own)
BY DEF Advances

LEMMA HoldsKept ==
    ASSUME NEW d, NEW s, NEW d2, NEW s2, NEW own, Advances(d, s, d2, s2, own),
           NEW f, Holds(f, d, s), f.pc \in OwnPc => f.rec # own
    PROVE  Holds(f, d2, s2)
<1>1. f.pc \in OwnPc => /\ f.rec \in DOMAIN d2
                        /\ d2[f.rec].status = STATUS_IN_PROGRESS
                        /\ d2[f.rec].dest = NoDest
  BY DEF Holds, Advances
<1>2. f.pc \in MigratedPc => /\ f.rec \in DOMAIN d2
                             /\ d2[f.rec].source = f.res
                             /\ Produced(f.rec, d2)
  BY DEF Holds, Advances
<1>3. f.pc \in MigratedPc \ {"migrated"} => d2[f.rec].status \in LIST_STATUS_MIGRATED
  BY DEF Holds, Advances
<1>4. \A i \in f.queue \cup f.got :
          /\ i \in DOMAIN d2 /\ d2[i].status \in LIST_STATUS_MIGRATED
          /\ d2[i].source = d[i].source
  BY DEF Holds, Advances
<1>5. f.cur # 0 => /\ f.cur \in DOMAIN d2
                   /\ d2[f.cur].status \in LIST_STATUS_MIGRATED
                   /\ d2[f.cur].source \notin s2 \/ d2[f.cur].source \in Swallows
                   /\ f.pc \in {"cleanOwn", "cleanAssoc", "sweep"}
  BY DEF Holds, Advances
<1>6. f.pc \in {"cleanAssoc", "complete"} /\ f.cleanup => d2[f.rec].removed
  BY DEF Holds, Advances, MigratedPc
<1> QED  BY <1>1, <1>2, <1>3, <1>4, <1>5, <1>6 DEF Holds

-----------------------------------------------------------------------------
(* Call stacks.                                                            *)

StacksLedger == FramesHold /\ CleanupIsAsked /\ Exclusive

\* The record that a step of p may change although it has produced nothing.
Owner(p, own) ==
    own = 0 \/ (~Idle(p) /\ Top(p).pc \in OwnPc /\ own = Top(p).rec)

LEMMA RecordNumbers ==
    ASSUME IInv
    PROVE  /\ db \in Seq(Migration) /\ DOMAIN db = 1..Len(db) /\ Len(db) \in Nat
           /\ \A i \in DOMAIN db : i \in Nat \ {0} /\ db[i] \in Migration
<1>1. db \in Seq(Migration)
  BY DEF IInv, TypeOK
<1> QED  BY <1>1, LenProperties, ElementOfSeq

LEMMA StackShape ==
    ASSUME IInv, NEW p \in Proc, ~Idle(p)
    PROVE  /\ stack[p] \in Seq(Frame) /\ stack[p] # <<>>
           /\ Top(p) = stack[p][Len(stack[p])] /\ Top(p) = Last(stack[p])
           /\ Len(stack[p]) \in DOMAIN stack[p] /\ Top(p) \in Frame
           /\ DOMAIN stack[p] = 1..Len(stack[p]) /\ Len(stack[p]) \in Nat \ {0}
<1>1. stack[p] \in Seq(Frame) /\ stack[p] # <<>> /\ Top(p) = Last(stack[p])
  BY DEF IInv, TypeOK, Idle, Top
<1>2. /\ Last(stack[p]) = stack[p][Len(stack[p])]
      /\ Len(stack[p]) \in DOMAIN stack[p]
  BY <1>1, FrontLast
<1>3. Len(stack[p]) \in Nat /\ DOMAIN stack[p] = 1..Len(stack[p])
  BY <1>1, LenProperties
<1> QED  BY <1>1, <1>2, <1>3, AtTop

\* Every frame but the innermost one of the process that takes a step.
LEMMA OthersHold ==
    ASSUME IInv, FramesHold, Exclusive, NEW p \in Proc, NEW own, Owner(p, own),
           Advances(db, source, db', source', own),
           NEW q \in Proc, NEW k \in DOMAIN stack[q],
           q # p \/ k # Len(stack[p]) \/ own = 0
    PROVE  Holds(stack[q][k], db', source')
<1>1. Holds(stack[q][k], db, source)
  BY DEF FramesHold
<1>2. stack[q][k].pc \in OwnPc => stack[q][k].rec # own
  <2>1. CASE own = 0
    BY <1>1, <2>1, RecordNumbers DEF Holds
  <2>2. CASE own # 0
    <3>1. /\ Len(stack[p]) \in DOMAIN stack[p]
          /\ stack[p][Len(stack[p])].pc \in OwnPc
          /\ stack[p][Len(stack[p])].rec = own
      BY <2>2, StackShape DEF Owner
    <3> QED  BY <2>2, <3>1 DEF Exclusive
  <2> QED  BY <2>1, <2>2
<1> QED  BY <1>1, <1>2, HoldsKept

\* The stack t that p steps to: its frames are old ones below the innermost,
\* or hold; a record is owned by the frame that owned it, or is a new one.
LEMMA StacksStep ==
    ASSUME IInv, StacksLedger, NEW p \in Proc, NEW own, Owner(p, own),
           Advances(db, source, db', source', own),
           NEW t, stack' = [stack EXCEPT ![p] = t],
           \A k \in DOMAIN t :
              \/ k \in DOMAIN stack[p] /\ k # Len(stack[p]) /\ t[k] = stack[p][k]
              \/ Holds(t[k], db', source'),
           \A k \in DOMAIN t : t[k].pc \in OwnPc =>
              \/ k \in DOMAIN stack[p] /\ stack[p][k].pc \in OwnPc
                 /\ t[k].rec = stack[p][k].rec
              \/ k = Len(t) /\ t[k].rec \notin DOMAIN db,
           \A q \in Proc : q # p => opts'[q] = opts[q],
           MayClean(t, opts'[p].cleanup)
    PROVE  StacksLedger'
<1>1. stack'[p] = t /\ \A q \in Proc : q # p => stack'[q] = stack[q]
  BY DEF IInv, TypeOK
<1>2. FramesHold'
  <2> SUFFICES ASSUME NEW q \in Proc, NEW k \in DOMAIN stack'[q]
               PROVE  Holds(stack'[q][k], db', source')
    BY DEF FramesHold
  <2>1. CASE q # p
    BY <1>1, <2>1, OthersHold DEF StacksLedger
  <2>2. CASE q = p
    BY <1>1, <2>2, OthersHold DEF StacksLedger
  <2> QED  BY <2>1, <2>2
<1>3. CleanupIsAsked'
  BY <1>1 DEF StacksLedger, CleanupIsAsked
<1>4. Exclusive'
  <2> SUFFICES ASSUME NEW q1 \in Proc, NEW q2 \in Proc,
                      NEW j \in DOMAIN stack'[q1], NEW k \in DOMAIN stack'[q2],
                      stack'[q1][j].pc \in OwnPc, stack'[q2][k].pc \in OwnPc,
                      stack'[q1][j].rec = stack'[q2][k].rec
               PROVE  q1 = q2 /\ j = k
    BY DEF Exclusive
  <2> DEFINE old(q, i) == /\ i \in DOMAIN stack[q] /\ stack[q][i].pc \in OwnPc
                          /\ stack'[q][i].rec = stack[q][i].rec
             fresh(q, i) == q = p /\ i = Len(t) /\ stack'[q][i].rec \notin DOMAIN db
  <2>1. \A q \in Proc : \A i \in DOMAIN stack'[q] :
           stack'[q][i].pc \in OwnPc => old(q, i) \/ fresh(q, i)
    BY <1>1
  <2>2. \A q \in Proc : \A i \in DOMAIN stack'[q] : old(q, i) => stack'[q][i].rec \in DOMAIN db
    BY DEF StacksLedger, FramesHold, Holds
  <2>3. CASE old(q1, j) /\ old(q2, k)
    BY <2>3 DEF StacksLedger, Exclusive
  <2>4. CASE fresh(q1, j) /\ fresh(q2, k)
    BY <2>4
  <2> QED  BY <2>1, <2>2, <2>3, <2>4
<1> QED  BY <1>2, <1>3, <1>4 DEF StacksLedger

\* The innermost frame goes on as g.
LEMMA GotoLedger ==
    ASSUME IInv, StacksLedger, NEW p \in Proc, ~Idle(p), NEW own, Owner(p, own),
           Advances(db, source, db', source', own), UNCHANGED opts,
           NEW g, Goto(p, g), Holds(g, db', source'),
           g.pc \in LoopPc => Top(p).pc \in LoopPc,
           g.cleanup => Top(p).cleanup,
           g.pc \in OwnPc => \/ Top(p).pc \in OwnPc /\ g.rec = Top(p).rec
                             \/ g.rec \notin DOMAIN db
    PROVE  StacksLedger'
<1> DEFINE s == stack[p]
           t == Append(Front(s), g)
<1>1. /\ DOMAIN t = DOMAIN s /\ Len(t) = Len(s) /\ t[Len(s)] = g
      /\ \A k \in DOMAIN s : k # Len(s) => t[k] = s[k]
  <2>1. s \in Seq(Frame \cup {g}) /\ s # <<>>
    BY StackShape, SeqMonotonic
  <2> QED  BY <2>1, ReplaceLast
<1>2. /\ Len(s) \in Nat /\ DOMAIN s = 1..Len(s)
      /\ Top(p) = s[Len(s)] /\ Len(s) \in DOMAIN s
  BY StackShape
<1>3. stack' = [stack EXCEPT ![p] = t]
  BY DEF Goto
<1>4. MayClean(s, opts[p].cleanup)
  BY DEF StacksLedger, CleanupIsAsked
<1> HIDE DEF t
<1>5. MayClean(t, opts'[p].cleanup)
  <2> SUFFICES ASSUME NEW k \in DOMAIN t
               PROVE  /\ t[k].pc \in LoopPc => k = 1
                      /\ t[k].cleanup => /\ opts[p].cleanup
                                         /\ \A j \in DOMAIN t : j < k => t[j].pc # "deps"
    BY DEF MayClean
  <2>1. \A j \in DOMAIN s : j < k => j # Len(s) /\ t[j] = s[j]
    BY <1>1, <1>2
  <2>2. (t[k].pc \in LoopPc => s[k].pc \in LoopPc) /\ (t[k].cleanup => s[k].cleanup)
    BY <1>1, <1>2
  <2> QED  BY <1>1, <1>4, <2>1, <2>2 DEF MayClean
<1>6. \A k \in DOMAIN t :
              \/ k \in DOMAIN stack[p] /\ k # Len(stack[p]) /\ t[k] = stack[p][k]
              \/ Holds(t[k], db', source')
  BY <1>1
<1>7. \A k \in DOMAIN t : t[k].pc \in OwnPc =>
              \/ k \in DOMAIN stack[p] /\ stack[p][k].pc \in OwnPc
                 /\ t[k].rec = stack[p][k].rec
              \/ k = Len(t) /\ t[k].rec \notin DOMAIN db
  BY <1>1, <1>2
<1> QED  BY <1>3, <1>5, <1>6, <1>7, StacksStep

\* A call returns or raises: frames go, and the records may have been changed.
LEMMA PopLedger ==
    ASSUME IInv, StacksLedger, NEW p \in Proc, ~Idle(p), NEW own, Owner(p, own),
           Advances(db, source, db', source', own), UNCHANGED opts,
           stack' = [stack EXCEPT ![p] = Front(stack[p])]
    PROVE  StacksLedger'
<1> DEFINE s == stack[p]
           t == Front(s)
<1>1. /\ \A k \in DOMAIN t : k \in DOMAIN s /\ t[k] = s[k]
      /\ \A k \in DOMAIN t : k # Len(s)
  BY StackShape, FrontLast, FrontShorter
<1>2. MayClean(s, opts[p].cleanup)
  BY DEF StacksLedger, CleanupIsAsked
<1>3. stack' = [stack EXCEPT ![p] = t]
  OBVIOUS
<1> HIDE DEF t
<1>4. MayClean(t, opts'[p].cleanup)
  BY <1>1, <1>2 DEF MayClean
<1>5. \A k \in DOMAIN t :
              \/ k \in DOMAIN stack[p] /\ k # Len(stack[p]) /\ t[k] = stack[p][k]
              \/ Holds(t[k], db', source')
  BY <1>1
<1>6. \A k \in DOMAIN t : t[k].pc \in OwnPc =>
              \/ k \in DOMAIN stack[p] /\ stack[p][k].pc \in OwnPc
                 /\ t[k].rec = stack[p][k].rec
              \/ k = Len(t) /\ t[k].rec \notin DOMAIN db
  BY <1>1
<1> QED  BY <1>3, <1>4, <1>5, <1>6, StacksStep

\* The innermost frame waits as f for the call g.
LEMMA CallLedger ==
    ASSUME IInv, StacksLedger, NEW p \in Proc, ~Idle(p),
           NEW f, NEW r \in Resource, NEW c \in BOOLEAN,
           Call(p, f, NewFrame("lookup", r, c)), Holds(f, db, source),
           f.pc = Top(p).pc, f.rec = Top(p).rec, f.cleanup = Top(p).cleanup,
           c => f.cleanup /\ f.pc # "deps"
    PROVE  StacksLedger'
<1> DEFINE s == stack[p]
           u == Append(Front(s), f)
           g == NewFrame("lookup", r, c)
           t == Append(u, g)
<1>1. /\ u \in Seq(Frame \cup {f}) /\ DOMAIN u = DOMAIN s /\ Len(u) = Len(s) /\ u[Len(s)] = f
      /\ \A k \in DOMAIN s : k # Len(s) => u[k] = s[k]
  <2>1. s \in Seq(Frame \cup {f}) /\ s # <<>>
    BY StackShape, SeqMonotonic
  <2> QED  BY <2>1, ReplaceLast
<1>2. /\ Len(s) \in Nat /\ DOMAIN s = 1..Len(s)
      /\ Top(p) = s[Len(s)] /\ Len(s) \in DOMAIN s
  BY StackShape
<1>3. g \in Frame /\ g.pc = "lookup" /\ g.cleanup = c /\ Holds(g, db, source)
  BY NewCall DEF NewFrame, Holds, LoopPc, OwnPc, MigratedPc
<1>4. stack' = [stack EXCEPT ![p] = t] /\ UNCHANGED <<db, source, opts>>
  BY DEF Call, clouds, invocation
<1>5. MayClean(s, opts[p].cleanup)
  BY DEF StacksLedger, CleanupIsAsked
<1> HIDE DEF u, g
<1>6. /\ DOMAIN t = 1..Len(s) + 1 /\ t[Len(s) + 1] = g
      /\ \A k \in 1..Len(s) : t[k] = u[k]
  BY <1>1, <1>2, <1>3, AppendProperties, LenProperties
<1> HIDE DEF t
<1>7. \A k \in DOMAIN t :
         \/ k \in DOMAIN s /\ k # Len(s) /\ t[k] = s[k]
         \/ k = Len(s) /\ t[k] = f
         \/ k = Len(s) + 1 /\ t[k] = g
  BY <1>1, <1>2, <1>6
<1>8. \A k \in DOMAIN s : t[k].pc = s[k].pc /\ t[k].cleanup = s[k].cleanup
                          /\ t[k].rec = s[k].rec
  BY <1>1, <1>2, <1>6
<1>9. MayClean(t, opts'[p].cleanup)
  <2> SUFFICES ASSUME NEW k \in DOMAIN t
               PROVE  /\ t[k].pc \in LoopPc => k = 1
                      /\ t[k].cleanup => /\ opts[p].cleanup
                                         /\ \A j \in DOMAIN t : j < k => t[j].pc # "deps"
    BY <1>4 DEF MayClean
  <2>1. \A j \in DOMAIN t : j < k => j \in DOMAIN s /\ t[j].pc = s[j].pc
    BY <1>2, <1>6, <1>8
  <2>2. CASE k \in DOMAIN s
    BY <1>5, <1>8, <2>1, <2>2 DEF MayClean
  <2>3. CASE k = Len(s) + 1
    <3>1. t[k].pc \notin LoopPc
      BY <1>3, <1>6, <2>3 DEF LoopPc
    <3>2. t[k].cleanup => Top(p).cleanup /\ Top(p).pc # "deps"
      BY <1>3, <1>6, <2>3
    <3>3. Top(p).cleanup => /\ opts[p].cleanup
                            /\ \A j \in DOMAIN s : j < Len(s) => s[j].pc # "deps"
      BY <1>2, <1>5 DEF MayClean
    <3>4. \A j \in DOMAIN s : j < Len(s) \/ s[j] = Top(p)
      BY <1>2
    <3> QED  BY <2>1, <3>1, <3>2, <3>3, <3>4
  <2> QED  BY <1>2, <1>6, <2>2, <2>3
<1>10. \A k \in DOMAIN t :
              \/ k \in DOMAIN stack[p] /\ k # Len(stack[p]) /\ t[k] = stack[p][k]
              \/ Holds(t[k], db', source')
  BY <1>3, <1>4, <1>7
<1>11. \A k \in DOMAIN t : t[k].pc \in OwnPc =>
              \/ k \in DOMAIN stack[p] /\ stack[p][k].pc \in OwnPc
                 /\ t[k].rec = stack[p][k].rec
              \/ k = Len(t) /\ t[k].rec \notin DOMAIN db
  BY <1>2, <1>3, <1>6, <1>8 DEF OwnPc
<1>12. Advances(db, source, db', source', 0) /\ Owner(p, 0)
  BY <1>4, AdvanceSame DEF Owner
<1>13. \A q \in Proc : q # p => opts'[q] = opts[q]
  BY <1>4
<1> QED  BY <1>4, <1>9, <1>10, <1>11, <1>12, <1>13, StacksStep

\* A command ends, or starts with one frame.
LEMMA ClearLedger ==
    ASSUME IInv, StacksLedger, NEW p \in Proc,
           stack' = [stack EXCEPT ![p] = <<>>], UNCHANGED <<db, source, opts>>
    PROVE  StacksLedger'
<1> DEFINE t == <<>>
<1>1. DOMAIN t = {} /\ stack' = [stack EXCEPT ![p] = t]
  OBVIOUS
<1> HIDE DEF t
<1>2. MayClean(t, opts'[p].cleanup)
  BY <1>1 DEF MayClean
<1>3. Advances(db, source, db', source', 0) /\ Owner(p, 0)
  BY AdvanceSame DEF Owner
<1>4. \A k \in DOMAIN t :
              \/ k \in DOMAIN stack[p] /\ k # Len(stack[p]) /\ t[k] = stack[p][k]
              \/ Holds(t[k], db', source')
  BY <1>1
<1>5. \A k \in DOMAIN t : t[k].pc \in OwnPc =>
              \/ k \in DOMAIN stack[p] /\ stack[p][k].pc \in OwnPc
                 /\ t[k].rec = stack[p][k].rec
              \/ k = Len(t) /\ t[k].rec \notin DOMAIN db
  BY <1>1
<1> QED  BY <1>1, <1>2, <1>3, <1>4, <1>5, StacksStep

LEMMA SingleLedger ==
    ASSUME IInv, StacksLedger, NEW p \in Proc, NEW f,
           stack' = [stack EXCEPT ![p] = <<f>>], UNCHANGED <<db, source>>,
           \A q \in Proc : q # p => opts'[q] = opts[q],
           f.pc \notin OwnPc, Holds(f, db, source), f.cleanup => opts'[p].cleanup
    PROVE  StacksLedger'
<1> DEFINE t == <<f>>
<1>1. DOMAIN t = {1} /\ t[1] = f /\ stack' = [stack EXCEPT ![p] = t]
  OBVIOUS
<1> HIDE DEF t
<1>2. MayClean(t, opts'[p].cleanup)
  BY <1>1 DEF MayClean
<1>3. Advances(db, source, db', source', 0) /\ Owner(p, 0)
  BY AdvanceSame DEF Owner
<1>4. \A k \in DOMAIN t :
              \/ k \in DOMAIN stack[p] /\ k # Len(stack[p]) /\ t[k] = stack[p][k]
              \/ Holds(t[k], db', source')
  BY <1>1
<1>5. \A k \in DOMAIN t : t[k].pc \in OwnPc =>
              \/ k \in DOMAIN stack[p] /\ stack[p][k].pc \in OwnPc
                 /\ t[k].rec = stack[p][k].rec
              \/ k = Len(t) /\ t[k].rec \notin DOMAIN db
  BY <1>1
<1> QED  BY <1>1, <1>2, <1>3, <1>4, <1>5, StacksStep

\* Records and source change while every invocation stays where it is.
LEMMA RestLedger ==
    ASSUME IInv, StacksLedger, UNCHANGED <<stack, opts>>,
           Advances(db, source, db', source', 0)
    PROVE  StacksLedger'
<1>1. ASSUME NEW q \in Proc, NEW k \in DOMAIN stack[q]
      PROVE  Holds(stack[q][k], db', source')
  <2>1. Owner(q, 0)
    BY DEF Owner
  <2> QED  BY <2>1, OthersHold DEF StacksLedger
<1>2. FramesHold'
  BY <1>1 DEF FramesHold
<1>3. CleanupIsAsked' /\ Exclusive'
  BY DEF StacksLedger, CleanupIsAsked, Exclusive
<1> QED  BY <1>2, <1>3 DEF StacksLedger

-----------------------------------------------------------------------------
(* Fields of records and frames.                                           *)

LEMMA RecordFields ==
    ASSUME IInv, NEW i, NEW v
    PROVE  /\ LET e == [db EXCEPT ![i].status = v]
              IN  /\ DOMAIN e = DOMAIN db
                  /\ \A j \in DOMAIN db :
                        /\ e[j].source = db[j].source /\ e[j].dest = db[j].dest
                        /\ e[j].removed = db[j].removed
                        /\ e[j].status = IF j = i THEN v ELSE db[j].status
           /\ LET e == [db EXCEPT ![i].dest = v]
              IN  /\ DOMAIN e = DOMAIN db
                  /\ \A j \in DOMAIN db :
                        /\ e[j].source = db[j].source /\ e[j].status = db[j].status
                        /\ e[j].removed = db[j].removed
                        /\ e[j].dest = IF j = i THEN v ELSE db[j].dest
           /\ LET e == [db EXCEPT ![i].removed = v]
              IN  /\ DOMAIN e = DOMAIN db
                  /\ \A j \in DOMAIN db :
                        /\ e[j].source = db[j].source /\ e[j].status = db[j].status
                        /\ e[j].dest = db[j].dest
                        /\ e[j].removed = IF j = i THEN v ELSE db[j].removed
BY RecordNumbers DEF Migration

\* The fields of g other than its loop variable.
Fields(g, pc, res, rec, cleanup, queue, got, cur) ==
    /\ g.pc = pc /\ g.res = res /\ g.rec = rec /\ g.cleanup = cleanup
    /\ g.queue = queue /\ g.got = got /\ g.cur = cur

LEMMA ExceptFields ==
    ASSUME NEW f \in Frame, NEW q, NEW t, NEW i
    PROVE  /\ Fields([f EXCEPT !.todo = t], f.pc, f.res, f.rec, f.cleanup, f.queue, f.got, f.cur)
           /\ Fields([f EXCEPT !.pc = q], q, f.res, f.rec, f.cleanup, f.queue, f.got, f.cur)
           /\ Fields([f EXCEPT !.pc = q, !.todo = t],
                     q, f.res, f.rec, f.cleanup, f.queue, f.got, f.cur)
           /\ Fields([f EXCEPT !.pc = q, !.rec = i],
                     q, f.res, i, f.cleanup, f.queue, f.got, f.cur)
           /\ Fields([f EXCEPT !.cur = i], f.pc, f.res, f.rec, f.cleanup, f.queue, f.got, i)
           /\ Fields([f EXCEPT !.cur = i, !.queue = t, !.pc = q],
                     q, f.res, f.rec, f.cleanup, t, f.got, i)
           /\ Fields([f EXCEPT !.queue = t], f.pc, f.res, f.rec, f.cleanup, t, f.got, f.cur)
           /\ Fields([f EXCEPT !.got = t], f.pc, f.res, f.rec, f.cleanup, f.queue, t, f.cur)
BY DEF Fields, Frame, CallFrame, LoopFrame, FrameOf

\* The innermost frame after the fields that a step sets.
Becomes(p, pc, rec, queue, got, cur) ==
    \E g : /\ Goto(p, g)
           /\ Fields(g, pc, Top(p).res, rec, Top(p).cleanup, queue, got, cur)

LEMMA BecomesForms ==
    ASSUME NEW p \in Proc, Top(p) \in Frame, NEW q, NEW t, NEW i
    PROVE  LET f == Top(p) IN
           /\ Goto(p, [f EXCEPT !.todo = t]) => Becomes(p, f.pc, f.rec, f.queue, f.got, f.cur)
           /\ Goto(p, [f EXCEPT !.pc = q]) => Becomes(p, q, f.rec, f.queue, f.got, f.cur)
           /\ Goto(p, [f EXCEPT !.pc = q, !.todo = t])
                 => Becomes(p, q, f.rec, f.queue, f.got, f.cur)
           /\ Goto(p, [f EXCEPT !.pc = q, !.rec = i])
                 => Becomes(p, q, i, f.queue, f.got, f.cur)
           /\ Goto(p, [f EXCEPT !.cur = i]) => Becomes(p, f.pc, f.rec, f.queue, f.got, i)
           /\ Goto(p, [f EXCEPT !.cur = i, !.queue = t, !.pc = q])
                 => Becomes(p, q, f.rec, t, f.got, i)
BY ExceptFields, Zenon DEF Becomes

-----------------------------------------------------------------------------
(* What a step does to the records and the source cloud.                   *)

CloudStep ==
    /\ \E own : Advances(db, source, db', source', own)
    /\ \A i \in DOMAIN db' : db'[i].removed =>
          \/ i \in DOMAIN db /\ db[i].removed
          \/ db'[i].source \notin source' \/ db'[i].source \in Swallows
    /\ \A r \in source \ source' : \E i \in DOMAIN db :
          r \in DeletedWith(db[i].source) /\ MigratedRecord(i)

LEMMA QuietCloud ==
    ASSUME UNCHANGED <<db, source>>
    PROVE  CloudStep
BY AdvanceSame DEF CloudStep

LEMMA RemovalKept ==
    ASSUME IInv', RemovedIsGone, RemovedIsMigrated, CloudStep
    PROVE  RemovedIsGone' /\ RemovedIsMigrated'
<1>1. PICK own : Advances(db, source, db', source', own)
  BY DEF CloudStep
<1>2. RemovedIsGone'
  BY <1>1 DEF CloudStep, Advances, RemovedIsGone
<1>3. RemovedIsMigrated'
  <2> SUFFICES ASSUME NEW r \in Resource, r \notin source'
               PROVE  \E i \in DOMAIN db' : /\ r \in DeletedWith(db'[i].source)
                                            /\ db'[i].status \in LIST_STATUS_MIGRATED
                                            /\ db'[i].dest \in dest'
    BY DEF RemovedIsMigrated, MigratedRecord
  <2>1. PICK i \in DOMAIN db : /\ r \in DeletedWith(db[i].source)
                               /\ db[i].status \in LIST_STATUS_MIGRATED
    <3>1. CASE r \in source
      BY <3>1 DEF CloudStep, MigratedRecord
    <3>2. CASE r \notin source
      BY <3>2 DEF RemovedIsMigrated, MigratedRecord
    <3> QED  BY <3>1, <3>2
  <2>2. /\ i \in DOMAIN db' /\ db'[i].source = db[i].source
        /\ db'[i].status \in LIST_STATUS_MIGRATED
    BY <1>1, <2>1 DEF Advances
  <2>3. db'[i].dest \in dest'
    BY <2>2 DEF IInv, DbOK, Delivered
  <2> QED  BY <2>1, <2>2, <2>3
<1> QED  BY <1>2, <1>3

\* A migrated record has produced its destination.
LEMMA MigratedProduced ==
    ASSUME IInv, NEW i \in DOMAIN db, db[i].status \in LIST_STATUS_MIGRATED
    PROVE  Produced(i, db)
<1>1. db[i].dest \in dest /\ dest \in SUBSET Object
  BY DEF IInv, DbOK, Delivered, TypeOK
<1>2. db[i].dest # NoDest
  BY <1>1, DestAssumption
<1> QED  BY <1>2, StatusValues DEF Produced

\* A record that has produced its destination changes status.
LEMMA StatusAdvances ==
    ASSUME IInv, NEW i \in DOMAIN db, Produced(i, db), NEW v \in LIST_STATUS_MIGRATED,
           SetStatus(i, v), source' \subseteq source
    PROVE  /\ Advances(db, source, db', source', 0)
           /\ \A j \in DOMAIN db' : j \in DOMAIN db /\ db'[j].removed = db[j].removed
<1>1. db' = [db EXCEPT ![i].status = v]
  BY DEF SetStatus
<1>2. /\ DOMAIN db' = DOMAIN db
      /\ \A j \in DOMAIN db :
            /\ db'[j].source = db[j].source /\ db'[j].dest = db[j].dest
            /\ db'[j].removed = db[j].removed
            /\ db'[j].status = IF j = i THEN v ELSE db[j].status
  BY <1>1, RecordFields
<1>3. v # STATUS_FAILED
  BY StatusValues
<1> QED  BY <1>2, <1>3 DEF Advances, Produced

\* One that is in progress and has produced nothing fails.
LEMMA FailureAdvances ==
    ASSUME IInv, NEW i \in DOMAIN db, db[i].status = STATUS_IN_PROGRESS,
           db[i].dest = NoDest, SetStatus(i, STATUS_FAILED), UNCHANGED source
    PROVE  Advances(db, source, db', source', i) /\ CloudStep
<1>1. db' = [db EXCEPT ![i].status = STATUS_FAILED]
  BY DEF SetStatus
<1>2. /\ DOMAIN db' = DOMAIN db
      /\ \A j \in DOMAIN db :
            /\ db'[j].source = db[j].source /\ db'[j].dest = db[j].dest
            /\ db'[j].removed = db[j].removed
            /\ db'[j].status = IF j = i THEN STATUS_FAILED ELSE db[j].status
  BY <1>1, RecordFields
<1>3. Advances(db, source, db', source', i)
  BY <1>2, StatusValues DEF Advances, Produced
<1> QED  BY <1>2, <1>3 DEF CloudStep

-----------------------------------------------------------------------------
(* The steps of an invocation.                                             *)

LEMMA BecomesLedger ==
    ASSUME IInv, StacksLedger, NEW p \in Proc, ~Idle(p), NEW own, Owner(p, own),
           Advances(db, source, db', source', own), UNCHANGED opts,
           NEW pc, NEW rec, NEW queue, NEW got, NEW cur,
           Becomes(p, pc, rec, queue, got, cur),
           \A g : Fields(g, pc, Top(p).res, rec, Top(p).cleanup, queue, got, cur)
                     => Holds(g, db', source'),
           pc \in LoopPc => Top(p).pc \in LoopPc,
           pc \in OwnPc => \/ Top(p).pc \in OwnPc /\ rec = Top(p).rec
                           \/ rec \notin DOMAIN db
    PROVE  StacksLedger'
<1>1. PICK g : /\ Goto(p, g)
               /\ Fields(g, pc, Top(p).res, rec, Top(p).cleanup, queue, got, cur)
  BY DEF Becomes
<1>2. Holds(g, db', source') /\ g.pc = pc /\ g.rec = rec /\ g.cleanup = Top(p).cleanup
  BY <1>1 DEF Fields
<1> QED  BY <1>1, <1>2, GotoLedger

LEMMA TopHolds ==
    ASSUME IInv, StacksLedger, NEW p \in Proc, ~Idle(p)
    PROVE  Holds(Top(p), db, source) /\ Top(p) \in Frame
BY StackShape DEF StacksLedger, FramesHold

\* Steps of the innermost frame that change no record and delete nothing.
LEMMA QuietLedger ==
    ASSUME IInv, StacksLedger, NEW p \in Proc,
           \/ SkipInBatch(p) \/ SkipDependency(p) \/ SkipMember(p)
           \/ LookUpMigration(p) \/ GetAssociatedResources(p) \/ RecheckDependencies(p)
           \/ GetMemberResources(p) \/ ConnectMembers(p) \/ HandlerMigrates(p)
    PROVE  StacksLedger' /\ CloudStep
<1>1. ~Idle(p) /\ UNCHANGED <<db, source, opts>>
  BY DEF SkipInBatch, SkipDependency, SkipMember, LookUpMigration,
     GetAssociatedResources, RecheckDependencies, GetMemberResources,
     ConnectMembers, HandlerMigrates, At, Move, clouds, invocation
<1>2. Holds(Top(p), db, source) /\ Top(p) \in Frame
  BY <1>1, TopHolds
<1> DEFINE f == Top(p)
           next == {<<"lookup", "create">>, <<"assoc", "perform">>, <<"assoc", "deps">>,
                    <<"deps", "perform">>, <<"perform", "saveDest">>,
                    <<"listMembers", "members">>}
                   \cup (IF f.cleanup THEN {<<"members", "pendingCleanup">>}
                                      ELSE {<<"members", "complete">>})
<1>3. PICK q : (q = f.pc \/ <<f.pc, q>> \in next)
               /\ Becomes(p, q, f.rec, f.queue, f.got, f.cur)
  <2>1. CASE SkipInBatch(p) \/ SkipDependency(p) \/ SkipMember(p)
    <3>1. \E t : Goto(p, [Top(p) EXCEPT !.todo = t])
      BY <2>1 DEF SkipInBatch, SkipDependency, SkipMember, Move
    <3> QED  BY <1>2, <3>1, BecomesForms
  <2>2. CASE LookUpMigration(p) \/ RecheckDependencies(p) \/ HandlerMigrates(p)
             \/ ConnectMembers(p)
    <3>1. PICK q : <<f.pc, q>> \in next /\ Goto(p, [Top(p) EXCEPT !.pc = q])
      BY <2>2 DEF LookUpMigration, RecheckDependencies, HandlerMigrates, ConnectMembers,
         AfterMembers, At, Move
    <3> QED  BY <1>2, <3>1, BecomesForms
  <2>3. CASE GetAssociatedResources(p) \/ GetMemberResources(p)
    <3>1. \E q : /\ <<f.pc, q>> \in next
                 /\ \/ Goto(p, [Top(p) EXCEPT !.pc = q])
                    \/ \E t : Goto(p, [Top(p) EXCEPT !.pc = q, !.todo = t])
      BY <2>3 DEF GetAssociatedResources, GetMemberResources, At, Move
    <3>2. PICK q : /\ <<f.pc, q>> \in next
                   /\ \/ Goto(p, [Top(p) EXCEPT !.pc = q])
                      \/ \E t : Goto(p, [Top(p) EXCEPT !.pc = q, !.todo = t])
      BY <3>1
    <3> QED  BY <1>2, <3>2, BecomesForms
  <2> QED  BY <2>1, <2>2, <2>3
<1>4. \A g : Fields(g, q, f.res, f.rec, f.cleanup, f.queue, f.got, f.cur)
                => Holds(g, db, source)
  <2> SUFFICES ASSUME NEW g, Fields(g, q, f.res, f.rec, f.cleanup, f.queue, f.got, f.cur)
               PROVE  Holds(g, db, source)
    OBVIOUS
  <2>1. CASE q = f.pc
    BY <1>2, <2>1 DEF Fields, Holds
  <2>2. CASE <<f.pc, q>> \in next
    BY <1>2, <2>2 DEF Fields, Holds, LoopPc, OwnPc, MigratedPc
  <2> QED  BY <1>3, <2>1, <2>2
<1>5. (q \in LoopPc => f.pc \in LoopPc) /\ (q \in OwnPc => f.pc \in OwnPc)
  BY <1>3 DEF LoopPc, OwnPc
<1>6. Advances(db, source, db', source', 0) /\ Owner(p, 0)
  BY <1>1, AdvanceSame DEF Owner
<1> HIDE DEF f, next
<1>7. StacksLedger'
  BY <1>1, <1>3, <1>4, <1>5, <1>6, BecomesLedger DEF f
<1> QED  BY <1>1, <1>7, QuietCloud

\* A record that says that the resource is migrated is reused.
LEMMA ReuseLedger ==
    ASSUME IInv, StacksLedger, NEW p \in Proc, ReuseMigration(p)
    PROVE  StacksLedger' /\ CloudStep
<1>1. ~Idle(p) /\ Top(p).pc = "lookup" /\ UNCHANGED <<db, source, opts>>
  BY DEF ReuseMigration, At, Move, clouds, invocation
<1>2. PICK i \in DOMAIN db : /\ db[i].status \in LIST_STATUS_MIGRATED
                             /\ db[i].source = Top(p).res
                             /\ Goto(p, [Top(p) EXCEPT !.pc = "migrated", !.rec = i])
  BY DEF ReuseMigration, Move, Newest
<1> DEFINE f == Top(p)
<1>3. Holds(f, db, source) /\ f \in Frame
  BY <1>1, TopHolds
<1>4. Becomes(p, "migrated", i, f.queue, f.got, f.cur)
  BY <1>2, <1>3, BecomesForms
<1>5. Produced(i, db)
  BY <1>2, MigratedProduced
<1>6. \A g : Fields(g, "migrated", f.res, i, f.cleanup, f.queue, f.got, f.cur)
                => Holds(g, db', source')
  BY <1>1, <1>2, <1>3, <1>5 DEF Fields, Holds, LoopPc, OwnPc, MigratedPc
<1>7. Advances(db, source, db', source', 0) /\ Owner(p, 0)
  BY <1>1, AdvanceSame DEF Owner
<1> HIDE DEF f
<1>8. "migrated" \notin LoopPc \cup OwnPc
  BY DEF LoopPc, OwnPc
<1>9. StacksLedger'
  BY <1>1, <1>4, <1>6, <1>7, <1>8, BecomesLedger DEF f
<1> QED  BY <1>1, <1>9, QuietCloud

\* A call for a dependency or a member, or of a batch.
LEMMA CallsLedger ==
    ASSUME IInv, StacksLedger, NEW p \in Proc,
           MigrateInBatch(p) \/ MigrateDependency(p) \/ MigrateMember(p)
    PROVE  StacksLedger' /\ CloudStep
<1>1. ~Idle(p)
  BY DEF MigrateInBatch, MigrateDependency, MigrateMember, At
<1>2. PICK d \in Top(p).todo, c \in {Top(p).cleanup, FALSE} :
         /\ c => Top(p).pc # "deps"
         /\ Call(p, [Top(p) EXCEPT !.todo = Top(p).todo \ {d}], NewFrame("lookup", d, c))
  <2>1. CASE MigrateDependency(p)
    BY <2>1 DEF MigrateDependency
  <2>2. CASE MigrateInBatch(p) \/ MigrateMember(p)
    BY <2>2 DEF MigrateInBatch, MigrateMember, At
  <2> QED  BY <2>1, <2>2
<1> DEFINE f == [Top(p) EXCEPT !.todo = Top(p).todo \ {d}]
<1>3. Holds(Top(p), db, source) /\ Top(p) \in Frame
  BY <1>1, TopHolds
<1>4. Fields(f, Top(p).pc, Top(p).res, Top(p).rec, Top(p).cleanup, Top(p).queue,
             Top(p).got, Top(p).cur)
  BY <1>3, ExceptFields
<1> HIDE DEF f
<1>5. Holds(f, db, source) /\ f.pc = Top(p).pc /\ f.rec = Top(p).rec
      /\ f.cleanup = Top(p).cleanup
  BY <1>3, <1>4 DEF Fields, Holds
<1>6. d \in Resource /\ c \in BOOLEAN /\ (c => f.cleanup)
  BY <1>1, <1>2, <1>5, AtTop
<1>7. Call(p, f, NewFrame("lookup", d, c))
  BY <1>2 DEF f
<1>8. StacksLedger'
  BY <1>1, <1>2, <1>5, <1>6, <1>7, CallLedger
<1> QED  BY <1>7, <1>8, QuietCloud DEF Call, clouds

\* A migration is created: its record is the property of its frame.
LEMMA CreateLedger ==
    ASSUME IInv, StacksLedger, NEW p \in Proc, CreateMigration(p)
    PROVE  StacksLedger' /\ CloudStep
<1> DEFINE m == [source |-> Top(p).res, status |-> STATUS_IN_PROGRESS,
                 dest |-> NoDest, removed |-> FALSE, archived |-> FALSE]
           n == Len(db) + 1
           f == Top(p)
<1>1. /\ ~Idle(p) /\ Top(p).pc = "create" /\ db' = Append(db, m)
      /\ Goto(p, [Top(p) EXCEPT !.pc = "assoc", !.rec = n])
      /\ UNCHANGED <<source, opts>>
  BY DEF CreateMigration, At, clouds, invocation
<1>2. Holds(f, db, source) /\ f \in Frame /\ f.res \in Resource
  BY <1>1, TopHolds, AtTop
<1>3. m \in Migration /\ m.status = STATUS_IN_PROGRESS /\ m.dest = NoDest /\ ~m.removed
  BY <1>2 DEF Migration, Status
<1> HIDE DEF m
<1>4. /\ DOMAIN db' = 1..n /\ n \notin DOMAIN db /\ n \in DOMAIN db'
      /\ \A j \in DOMAIN db : j \in DOMAIN db' /\ db'[j] = db[j]
      /\ db'[n] = m
      /\ \A j \in DOMAIN db' : j \in DOMAIN db \/ j = n
  BY <1>1, <1>3, RecordNumbers, AppendProperties
<1>5. Advances(db, source, db', source', 0) /\ Owner(p, 0)
  BY <1>1, <1>4 DEF Advances, Owner, Produced
<1>6. CloudStep
  BY <1>1, <1>3, <1>4, <1>5 DEF CloudStep
<1> HIDE DEF n
<1>7. Becomes(p, "assoc", n, f.queue, f.got, f.cur)
  BY <1>1, <1>2, BecomesForms
<1>8. Holds(f, db', source')
  BY <1>1, <1>2, <1>5, HoldsKept DEF OwnPc
<1>9. \A g : Fields(g, "assoc", f.res, n, f.cleanup, f.queue, f.got, f.cur)
                => Holds(g, db', source')
  BY <1>1, <1>3, <1>4, <1>8 DEF Fields, Holds, LoopPc, OwnPc, MigratedPc
<1> HIDE DEF f
<1>10. "assoc" \notin LoopPc
  BY DEF LoopPc
<1>11. StacksLedger'
  BY <1>1, <1>4, <1>5, <1>7, <1>9, <1>10, BecomesLedger DEF f
<1> QED  BY <1>6, <1>11

\* The destination is recorded: the record is no longer the frame's own.
LEMMA SaveLedger ==
    ASSUME IInv, StacksLedger, NEW p \in Proc, SaveDestination(p)
    PROVE  StacksLedger' /\ CloudStep
<1> DEFINE f == Top(p)
           i == Top(p).rec
           x == NewObject(Top(p))
<1>1. /\ ~Idle(p) /\ Top(p).pc = "saveDest"
      /\ db' = [db EXCEPT ![i].dest = x]
      /\ Goto(p, [Top(p) EXCEPT !.pc = "migrated"])
      /\ UNCHANGED <<source, opts>>
  BY DEF SaveDestination, At, clouds, invocation
<1>2. Holds(f, db, source) /\ f \in Frame
  BY <1>1, TopHolds
<1>3. /\ i \in DOMAIN db /\ db[i].status = STATUS_IN_PROGRESS /\ db[i].dest = NoDest
  BY <1>1, <1>2 DEF Holds, OwnPc
<1>4. db[i].source = f.res /\ x \in dest
  <2>1. FrameOK(Top(p), db, dest)
    BY <1>1, AtTop
  <2> QED  BY <1>1, <2>1 DEF FrameOK, ParentPc
<1>5. x # NoDest
  <2>1. dest \in SUBSET Object
    BY DEF IInv, TypeOK
  <2> QED  BY <1>4, <2>1, DestAssumption
<1> HIDE DEF x
<1>6. /\ DOMAIN db' = DOMAIN db
      /\ \A j \in DOMAIN db :
            /\ db'[j].source = db[j].source /\ db'[j].status = db[j].status
            /\ db'[j].removed = db[j].removed
            /\ db'[j].dest = IF j = i THEN x ELSE db[j].dest
  BY <1>1, RecordFields
<1>7. Advances(db, source, db', source', i) /\ Owner(p, i)
  BY <1>1, <1>3, <1>5, <1>6 DEF Advances, Produced, Owner, OwnPc
<1>8. CloudStep
  BY <1>1, <1>6, <1>7 DEF CloudStep
<1>9. Becomes(p, "migrated", i, f.queue, f.got, f.cur)
  BY <1>1, <1>2, BecomesForms
<1>10. Produced(i, db')
  BY <1>3, <1>5, <1>6, StatusValues DEF Produced
<1>11. \A g : Fields(g, "migrated", f.res, i, f.cleanup, f.queue, f.got, f.cur)
                 => Holds(g, db', source')
  BY <1>1, <1>2, <1>3, <1>4, <1>6, <1>10 DEF Fields, Holds, LoopPc, OwnPc, MigratedPc
<1>12. "migrated" \notin LoopPc \cup OwnPc
  BY DEF LoopPc, OwnPc
<1> HIDE DEF f, i
<1>13. StacksLedger'
  BY <1>1, <1>7, <1>9, <1>11, <1>12, BecomesLedger DEF f
<1> QED  BY <1>8, <1>13

\* A migrated record is given its next status, and its frame goes on.
LEMMA MarkLedger ==
    ASSUME IInv, StacksLedger, NEW p \in Proc, MarkPendingMembers(p) \/ MarkPendingCleanup(p)
    PROVE  StacksLedger' /\ CloudStep
<1> DEFINE f == Top(p)
           i == Top(p).rec
<1>1. ~Idle(p) /\ Top(p).pc \in {"migrated", "pendingCleanup"} /\ UNCHANGED <<source, opts>>
  BY DEF MarkPendingMembers, MarkPendingCleanup, At, clouds, invocation
<1>2. Holds(f, db, source) /\ f \in Frame
  BY <1>1, TopHolds
<1>3. i \in DOMAIN db /\ db[i].source = f.res /\ Produced(i, db)
  BY <1>1, <1>2 DEF Holds, MigratedPc
<1>4. PICK v \in LIST_STATUS_MIGRATED : SetStatus(i, v)
  BY DEF MarkPendingMembers, MarkPendingCleanup, LIST_STATUS_MIGRATED
<1>5. PICK q : /\ Goto(p, [Top(p) EXCEPT !.pc = q])
               /\ \/ q = "listMembers"
                  \/ q = "pendingCleanup" /\ f.cleanup
                  \/ q = "complete" /\ ~f.cleanup
                  \/ q = "cleanOwn" /\ f.pc = "pendingCleanup"
  <2>1. CASE MarkPendingMembers(p)
    BY <2>1 DEF MarkPendingMembers, AfterMembers
  <2>2. CASE MarkPendingCleanup(p)
    BY <2>2 DEF MarkPendingCleanup, At
  <2> QED  BY <2>1, <2>2
<1>6. /\ Advances(db, source, db', source', 0)
      /\ \A j \in DOMAIN db' : j \in DOMAIN db /\ db'[j].removed = db[j].removed
  BY <1>1, <1>3, <1>4, StatusAdvances
<1>7. CloudStep
  BY <1>1, <1>6 DEF CloudStep
<1>8. Becomes(p, q, i, f.queue, f.got, f.cur)
  BY <1>2, <1>5, BecomesForms
<1>9. Holds(f, db', source')
  <2>1. f.pc \notin OwnPc
    BY <1>1 DEF OwnPc
  <2> QED  BY <1>2, <1>6, <2>1, HoldsKept
<1>10. db'[i].status = v
  <2> HIDE DEF i
  <2>1. db' = [db EXCEPT ![i].status = v]
    BY <1>4 DEF SetStatus
  <2>2. \A j \in DOMAIN db : db'[j].status = IF j = i THEN v ELSE db[j].status
    BY <2>1, RecordFields
  <2> QED  BY <1>3, <2>2
<1>11. \A g : Fields(g, q, f.res, i, f.cleanup, f.queue, f.got, f.cur)
                 => Holds(g, db', source')
  <2> SUFFICES ASSUME NEW g, Fields(g, q, f.res, i, f.cleanup, f.queue, f.got, f.cur)
               PROVE  Holds(g, db', source')
    OBVIOUS
  <2>1. /\ g.pc \in MigratedPc \ {"migrated"} /\ g.pc \notin LoopPc \cup OwnPc
        /\ g.pc \notin {"cleanAssoc"} /\ (g.pc = "complete" => ~g.cleanup)
        /\ (g.pc \in {"pendingCleanup", "cleanOwn"} => g.cleanup)
    <3>1. f.pc = "pendingCleanup" => f.cleanup
      BY <1>2 DEF Holds
    <3> QED  BY <1>5, <3>1 DEF Fields, LoopPc, OwnPc, MigratedPc
  <2>2. f.cur = 0 /\ g.cur = 0
    BY <1>1, <1>2 DEF Holds, Fields
  <2>3. i \in DOMAIN db' /\ db'[i].source = f.res /\ Produced(i, db')
    BY <1>1, <1>9 DEF Holds, MigratedPc
  <2> QED  BY <1>1, <1>9, <1>10, <2>1, <2>2, <2>3 DEF Fields, Holds, LoopPc
<1>12. q \notin LoopPc \cup OwnPc
  BY <1>5 DEF LoopPc, OwnPc
<1>13. Owner(p, 0)
  BY DEF Owner
<1> HIDE DEF f, i
<1>14. StacksLedger'
  BY <1>1, <1>6, <1>8, <1>11, <1>12, <1>13, BecomesLedger DEF f
<1> QED  BY <1>7, <1>14

\* What the cleanup may delete has been migrated.
LEMMA CleanupTargets ==
    ASSUME IInv, StacksLedger, NEW p \in Proc, CleaningUp(p), NEW i \in CleanupNext(Top(p))
    PROVE  /\ i \in DOMAIN db /\ MigratedRecord(i)
           /\ Top(p).pc \in {"cleanOwn", "cleanAssoc", "sweep"}
           /\ Top(p).pc = "cleanOwn" => i = Top(p).rec
<1>1. Holds(Top(p), db, source)
  BY TopHolds DEF CleaningUp
<1> QED  BY <1>1 DEF CleanupNext, Holds, MigratedPc, MigratedRecord

\* A source is deleted.
LEMMA DeleteLedger ==
    ASSUME IInv, StacksLedger, NEW p \in Proc, DeleteSource(p)
    PROVE  StacksLedger' /\ CloudStep
<1> DEFINE f == Top(p)
<1>1. ~Idle(p) /\ UNCHANGED <<db, opts>> /\ CleaningUp(p)
  BY DEF DeleteSource, CleaningUp, invocation
<1>2. PICK i \in CleanupNext(Top(p)) :
         /\ \/ source' = source \ DeletedWith(db[i].source)
            \/ KeptSilently(db[i].source) /\ UNCHANGED source
         /\ Goto(p, [Top(p) EXCEPT !.cur = i])
  BY DEF DeleteSource
<1>3. /\ i \in DOMAIN db /\ MigratedRecord(i)
      /\ f.pc \in {"cleanOwn", "cleanAssoc", "sweep"}
      /\ f.pc = "cleanOwn" => i = f.rec
  BY <1>1, CleanupTargets
<1>4. Holds(f, db, source) /\ f \in Frame
  BY <1>1, TopHolds
<1>5. /\ db[i].source \notin source' \/ db[i].source \in Swallows
      /\ source' \in {source, source \ DeletedWith(db[i].source)}
  BY <1>2 DEF DeletedWith, KeptSilently
<1>6. Advances(db, source, db', source', 0) /\ Owner(p, 0)
  BY <1>1, <1>5, AdvanceSame DEF Owner
<1>7. CloudStep
  BY <1>1, <1>3, <1>5, <1>6 DEF CloudStep
<1>8. Becomes(p, f.pc, f.rec, f.queue, f.got, i)
  BY <1>2, <1>4, BecomesForms
<1>9. Holds(f, db', source')
  BY <1>3, <1>4, <1>6, HoldsKept DEF OwnPc
<1>10. \A g : Fields(g, f.pc, f.res, f.rec, f.cleanup, f.queue, f.got, i)
                 => Holds(g, db', source')
  BY <1>1, <1>3, <1>5, <1>9 DEF Fields, Holds, MigratedRecord
<1>11. f.pc \notin OwnPc
  BY <1>3 DEF OwnPc
<1> HIDE DEF f
<1>12. StacksLedger'
  BY <1>1, <1>6, <1>8, <1>10, <1>11, BecomesLedger DEF f
<1> QED  BY <1>7, <1>12

\* Its deletion fails, or is carried out and seems to have failed.
LEMMA DeleteFailsLedger ==
    ASSUME IInv, StacksLedger, NEW p \in Proc, DeleteSourceFails(p)
    PROVE  StacksLedger' /\ CloudStep
<1>1. ~Idle(p) /\ UNCHANGED opts /\ CleaningUp(p)
      /\ stack' = [stack EXCEPT ![p] = Front(stack[p])]
  BY DEF DeleteSourceFails, CleaningUp, invocation, Raise
<1>2. PICK i \in CleanupNext(Top(p)) :
         /\ source' \in {source, source \ DeletedWith(db[i].source)}
         /\ SetStatus(i, STATUS_SOURCE_CLEANUP_FAILED)
  BY DEF DeleteSourceFails
<1>3. i \in DOMAIN db /\ MigratedRecord(i)
  BY <1>1, CleanupTargets
<1>4. /\ Advances(db, source, db', source', 0)
      /\ \A j \in DOMAIN db' : j \in DOMAIN db /\ db'[j].removed = db[j].removed
  BY <1>2, <1>3, MigratedProduced, StatusAdvances DEF MigratedRecord, LIST_STATUS_MIGRATED
<1>5. CloudStep
  BY <1>2, <1>3, <1>4 DEF CloudStep
<1>6. Owner(p, 0)
  BY DEF Owner
<1> QED  BY <1>1, <1>4, <1>5, <1>6, PopLedger

\* The deletion is recorded.
LEMMA RemovedLedger ==
    ASSUME IInv, StacksLedger, NEW p \in Proc, MarkSourceRemoved(p)
    PROVE  StacksLedger' /\ CloudStep
<1> DEFINE f == Top(p)
           c == Top(p).cur
           left == Remaining(f)
           q == AfterRemoval(f)
<1>1. /\ ~Idle(p) /\ f.pc \in {"cleanOwn", "cleanAssoc", "sweep"} /\ c # 0
      /\ db' = [db EXCEPT ![c].removed = TRUE]
      /\ Goto(p, [Top(p) EXCEPT !.cur = 0, !.queue = left, !.pc = q])
      /\ UNCHANGED <<source, opts>>
  BY DEF MarkSourceRemoved, clouds, invocation
<1>2. Holds(f, db, source) /\ f \in Frame
  BY <1>1, TopHolds
<1>3. c \in DOMAIN db /\ (db[c].source \notin source \/ db[c].source \in Swallows)
  BY <1>1, <1>2 DEF Holds
<1>4. /\ DOMAIN db' = DOMAIN db
      /\ \A j \in DOMAIN db :
            /\ db'[j].source = db[j].source /\ db'[j].status = db[j].status
            /\ db'[j].dest = db[j].dest
            /\ db'[j].removed = IF j = c THEN TRUE ELSE db[j].removed
  BY <1>1, RecordFields
<1>5. Advances(db, source, db', source', 0) /\ Owner(p, 0)
  BY <1>1, <1>4 DEF Advances, Produced, Owner
<1>6. CloudStep
  BY <1>1, <1>3, <1>4, <1>5 DEF CloudStep
<1>7. left \subseteq f.queue
  BY DEF Remaining
<1>8. IF f.pc = "sweep" THEN q = "sweep" ELSE q \in {"cleanAssoc", "complete"}
  BY DEF AfterRemoval
<1>9. Becomes(p, q, f.rec, left, f.got, 0)
  BY <1>1, <1>2, BecomesForms
<1> HIDE DEF left, q
<1>10. Holds(f, db', source')
  BY <1>1, <1>2, <1>5, HoldsKept DEF OwnPc
<1>11. f.pc # "sweep" => db'[f.rec].removed
  <2>1. CASE f.pc = "cleanOwn"
    BY <1>1, <1>2, <1>3, <1>4, <2>1 DEF Holds
  <2>2. CASE f.pc = "cleanAssoc"
    <3>1. f.cleanup
      BY <1>2, <2>2 DEF Holds
    <3> QED  BY <1>10, <2>2, <3>1 DEF Holds
  <2> QED  BY <1>1, <2>1, <2>2
<1>12. \A g : Fields(g, q, f.res, f.rec, f.cleanup, left, f.got, 0)
                 => Holds(g, db', source')
  <2> SUFFICES ASSUME NEW g, Fields(g, q, f.res, f.rec, f.cleanup, left, f.got, 0)
               PROVE  Holds(g, db', source')
    OBVIOUS
  <2>1. CASE f.pc = "sweep"
    BY <1>7, <1>8, <1>10, <2>1 DEF Fields, Holds, LoopPc, OwnPc, MigratedPc
  <2>2. CASE f.pc # "sweep"
    <3>1. /\ f.cleanup /\ f.rec \in DOMAIN db' /\ db'[f.rec].source = f.res
          /\ Produced(f.rec, db') /\ db'[f.rec].status \in LIST_STATUS_MIGRATED
      BY <1>1, <1>10, <2>2 DEF Holds, MigratedPc
    <3>2. /\ \A j \in left \cup f.got : j \in DOMAIN db' /\ db'[j].status \in LIST_STATUS_MIGRATED
          /\ \A j \in left : db'[j].source \in Owned[f.res]
      BY <1>1, <1>7, <1>10, <2>2 DEF Holds, LoopPc
    <3> QED  BY <1>8, <1>11, <2>2, <3>1, <3>2 DEF Fields, Holds, LoopPc, OwnPc, MigratedPc
  <2> QED  BY <2>1, <2>2
<1>13. q \notin OwnPc /\ (q \in LoopPc => f.pc \in LoopPc)
  BY <1>8 DEF OwnPc, LoopPc
<1> HIDE DEF f
<1>14. StacksLedger'
  BY <1>1, <1>5, <1>9, <1>12, <1>13, BecomesLedger DEF f
<1> QED  BY <1>6, <1>14

\* A migration fails before it has produced anything.
LEMMA FailLedger ==
    ASSUME IInv, StacksLedger, NEW p \in Proc,
           \/ RefusePendingDependencies(p) \/ RefuseUnmigratedDependencies(p)
           \/ GetAssociatedResourcesFails(p) \/ HandlerFails(p) \/ DependencyFailed(p)
    PROVE  StacksLedger' /\ CloudStep
<1> DEFINE i == Top(p).rec
<1>1. /\ ~Idle(p) /\ Top(p).pc \in {"assoc", "deps", "perform"} /\ SetStatus(i, STATUS_FAILED)
      /\ stack' = [stack EXCEPT ![p] = Front(stack[p])] /\ UNCHANGED <<source, opts>>
  BY DEF RefusePendingDependencies, RefuseUnmigratedDependencies,
     GetAssociatedResourcesFails, HandlerFails, DependencyFailed, At, RaisedTo,
     FailMigration, Raise, clouds, invocation
<1>2. Holds(Top(p), db, source)
  BY <1>1, TopHolds
<1>3. i \in DOMAIN db /\ db[i].status = STATUS_IN_PROGRESS /\ db[i].dest = NoDest
  BY <1>1, <1>2 DEF Holds, OwnPc
<1>4. Advances(db, source, db', source', i) /\ CloudStep
  BY <1>1, <1>3, FailureAdvances
<1>5. Owner(p, i)
  BY <1>1 DEF Owner, OwnPc
<1> HIDE DEF i
<1> QED  BY <1>1, <1>4, <1>5, PopLedger

\* An exception that changes no record.
LEMMA RaiseLedger ==
    ASSUME IInv, StacksLedger, NEW p \in Proc,
           GetMemberResourcesFails(p) \/ BatchFailed(p)
    PROVE  StacksLedger' /\ CloudStep
<1>1. /\ ~Idle(p) /\ UNCHANGED <<db, source, opts>>
      /\ stack' = [stack EXCEPT ![p] = Front(stack[p])]
  BY DEF GetMemberResourcesFails, BatchFailed, At, RaisedTo, Raise, clouds, invocation
<1>2. Advances(db, source, db', source', 0) /\ Owner(p, 0)
  BY <1>1, AdvanceSame DEF Owner
<1> QED  BY <1>1, <1>2, PopLedger, QuietCloud

\* What the caller takes from the migration its callee has completed.
LEMMA ResumedHolds ==
    ASSUME NEW d, NEW s, NEW f \in Frame, Holds(f, d, s),
           NEW g, g.rec \in DOMAIN d, d[g.rec].status \in LIST_STATUS_MIGRATED,
           d[g.rec].source = g.res
    PROVE  LET h == Resumed(f, g)
           IN  /\ Holds(h, d, s) /\ h.pc = f.pc /\ h.rec = f.rec /\ h.cleanup = f.cleanup
<1>1. CASE Resumed(f, g) = f
  BY <1>1
<1>2. CASE /\ Resumed(f, g) = [f EXCEPT !.queue = f.queue \cup {g.rec}]
           /\ g.res \in Owned[f.res]
  <2> DEFINE t == f.queue \cup {g.rec}
             h == [f EXCEPT !.queue = t]
  <2>1. \A j \in t : j = g.rec \/ j \in f.queue
    OBVIOUS
  <2> HIDE DEF t
  <2>2. Fields(h, f.pc, f.res, f.rec, f.cleanup, t, f.got, f.cur)
    BY ExceptFields
  <2> HIDE DEF h
  <2>3. /\ \A j \in t \cup f.got : j \in DOMAIN d /\ d[j].status \in LIST_STATUS_MIGRATED
        /\ f.pc \notin LoopPc => \A j \in t : d[j].source \in Owned[f.res]
    BY <1>2, <2>1 DEF Holds
  <2>4. Holds(h, d, s)
    BY <2>2, <2>3 DEF Fields, Holds
  <2>5. Resumed(f, g) = h
    BY <1>2 DEF h, t
  <2> QED  BY <2>2, <2>4, <2>5 DEF Fields
<1>3. CASE Resumed(f, g) = [f EXCEPT !.got = f.got \cup {g.rec}]
  <2> DEFINE t == f.got \cup {g.rec}
             h == [f EXCEPT !.got = t]
  <2>1. \A j \in t : j = g.rec \/ j \in f.got
    OBVIOUS
  <2> HIDE DEF t
  <2>2. Fields(h, f.pc, f.res, f.rec, f.cleanup, f.queue, t, f.cur)
    BY ExceptFields
  <2> HIDE DEF h
  <2>3. \A j \in f.queue \cup t : j \in DOMAIN d /\ d[j].status \in LIST_STATUS_MIGRATED
    BY <2>1 DEF Holds
  <2>4. Holds(h, d, s)
    BY <2>2, <2>3 DEF Fields, Holds
  <2>5. Resumed(f, g) = h
    BY <1>3 DEF h, t
  <2> QED  BY <2>2, <2>4, <2>5 DEF Fields
<1> QED  BY <1>1, <1>2, <1>3 DEF Resumed

\* A migration is completed and its frame returns.
LEMMA CompleteLedger ==
    ASSUME IInv, StacksLedger, NEW p \in Proc, CompleteMigration(p)
    PROVE  StacksLedger' /\ CloudStep
<1> DEFINE s == stack[p]
           below == Front(s)
           i == Top(p).rec
<1>1. /\ ~Idle(p) /\ Top(p).pc = "complete" /\ SetStatus(i, STATUS_COMPLETED)
      /\ Return(p) /\ UNCHANGED <<source, opts>>
  BY DEF CompleteMigration, At, clouds, invocation
<1>2. Holds(Top(p), db, source) /\ STATUS_COMPLETED \in LIST_STATUS_MIGRATED
  BY <1>1, TopHolds DEF LIST_STATUS_MIGRATED
<1>3. i \in DOMAIN db /\ Produced(i, db)
  BY <1>1, <1>2 DEF Holds, MigratedPc
<1>4. /\ Advances(db, source, db', source', 0)
      /\ \A j \in DOMAIN db' : j \in DOMAIN db /\ db'[j].removed = db[j].removed
  BY <1>1, <1>2, <1>3, StatusAdvances
<1>5. CloudStep
  BY <1>1, <1>4 DEF CloudStep
<1>6. Owner(p, 0)
  BY DEF Owner
<1>7. /\ below \in Seq(Frame)
      /\ \A k \in DOMAIN below : k \in DOMAIN s /\ below[k] = s[k]
      /\ \A k \in DOMAIN below : k # Len(s)
  BY <1>1, StackShape, FrontLast, FrontShorter
<1>8. CASE below = <<>>
  <2>1. stack' = [stack EXCEPT ![p] = Front(stack[p])]
    BY <1>1, <1>8 DEF Return
  <2> QED  BY <1>1, <1>4, <1>5, <1>6, <2>1, PopLedger
<1>9. CASE below # <<>>
  <2> DEFINE h == Resumed(Last(below), Top(p))
             t == Append(Front(below), h)
  <2>1. stack' = [stack EXCEPT ![p] = t]
    BY <1>1, <1>9 DEF Return
  <2> HIDE DEF below
  <2>2. /\ Last(below) = below[Len(below)] /\ Len(below) \in DOMAIN below
        /\ Last(below) \in Frame
    <3>1. Last(below) = below[Len(below)] /\ Len(below) \in DOMAIN below
      BY <1>7, <1>9, FrontLast
    <3> QED  BY <1>7, <3>1, ElementOfSeq, LenProperties
  <2>3. Holds(Last(below), db', source')
    BY <1>4, <1>6, <1>7, <2>2, OthersHold DEF StacksLedger
  <2>4. Holds(Top(p), db', source')
    BY <1>1, <1>2, <1>4, HoldsKept DEF OwnPc
  <2>5. /\ Holds(h, db', source') /\ h.pc = Last(below).pc /\ h.rec = Last(below).rec
        /\ h.cleanup = Last(below).cleanup
    <3> DEFINE g == Top(p)
    <3>1. /\ g.rec \in DOMAIN db' /\ db'[g.rec].status \in LIST_STATUS_MIGRATED
          /\ db'[g.rec].source = g.res
      BY <1>1, <2>4 DEF Holds, MigratedPc
    <3> HIDE DEF g
    <3>2. LET r == Resumed(Last(below), g)
          IN  /\ Holds(r, db', source') /\ r.pc = Last(below).pc
              /\ r.rec = Last(below).rec /\ r.cleanup = Last(below).cleanup
      BY <2>2, <2>3, <3>1, ResumedHolds
    <3> QED  BY <3>2 DEF g
  <2> HIDE DEF h
  <2>6. /\ DOMAIN t = DOMAIN below /\ t[Len(below)] = h
        /\ \A k \in DOMAIN below : k # Len(below) => t[k] = below[k]
    <3>1. below \in Seq(Frame \cup {h})
      BY <1>7, SeqMonotonic
    <3> QED  BY <1>9, <3>1, ReplaceLast
  <2> HIDE DEF t
  <2>7. \A k \in DOMAIN t : /\ k \in DOMAIN s /\ k # Len(s)
                            /\ t[k].pc = s[k].pc /\ t[k].rec = s[k].rec
                            /\ t[k].cleanup = s[k].cleanup
                            /\ t[k] = s[k] \/ Holds(t[k], db', source')
    BY <1>7, <2>2, <2>5, <2>6
  <2>8. MayClean(t, opts'[p].cleanup)
    <3>1. MayClean(s, opts[p].cleanup)
      BY DEF StacksLedger, CleanupIsAsked
    <3> QED  BY <1>1, <2>7, <3>1 DEF MayClean
  <2>9. \A k \in DOMAIN t :
              \/ k \in DOMAIN stack[p] /\ k # Len(stack[p]) /\ t[k] = stack[p][k]
              \/ Holds(t[k], db', source')
    BY <2>7
  <2>10. \A k \in DOMAIN t : t[k].pc \in OwnPc =>
              \/ k \in DOMAIN stack[p] /\ stack[p][k].pc \in OwnPc
                 /\ t[k].rec = stack[p][k].rec
              \/ k = Len(t) /\ t[k].rec \notin DOMAIN db
    BY <2>7
  <2> QED  BY <1>1, <1>4, <1>5, <1>6, <2>1, <2>8, <2>9, <2>10, StacksStep
<1> QED  BY <1>8, <1>9

\* A command ends, or goes on with the next member.
LEMMA EndLedger ==
    ASSUME IInv, StacksLedger, NEW p \in Proc,
           FinishBatch(p) \/ FinishCleanup(p) \/ Crash(p) \/ MemberFailed(p)
    PROVE  StacksLedger' /\ CloudStep
<1>1. UNCHANGED <<db, source, opts>>
  BY DEF FinishBatch, FinishCleanup, Crash, MemberFailed, Exit, clouds, invocation
<1>2. CASE FinishBatch(p) \/ FinishCleanup(p) \/ Crash(p)
  BY <1>1, <1>2, ClearLedger, QuietCloud DEF FinishBatch, FinishCleanup, Crash, Exit
<1>3. CASE MemberFailed(p)
  BY <1>1, <1>3, AdvanceSame, RestLedger, QuietCloud DEF MemberFailed
<1> QED  BY <1>2, <1>3

\* A command starts, and sets the flag its frame takes over.
LEMMA StartLedger ==
    ASSUME IInv, StacksLedger, NEW p \in Proc,
           StartMigration(p) \/ StartBatch(p) \/ StartCleanup(p)
    PROVE  StacksLedger' /\ CloudStep
<1>1. PICK f : /\ stack' = [stack EXCEPT ![p] = <<f>>]
               /\ f.pc \notin OwnPc /\ Holds(f, db, source)
               /\ f.cleanup => opts'[p].cleanup
  <2>1. CASE StartMigration(p)
    <3>1. PICK r, o : /\ stack' = [stack EXCEPT ![p] = <<NewFrame("lookup", r, o.cleanup)>>]
                      /\ opts' = [opts EXCEPT ![p] = o]
      BY <2>1 DEF StartMigration, Invoke
    <3> DEFINE f == NewFrame("lookup", r, o.cleanup)
    <3>2. /\ f.pc \notin OwnPc /\ Holds(f, db, source) /\ f.cleanup = o.cleanup
      BY DEF NewFrame, Holds, LoopPc, OwnPc, MigratedPc
    <3> HIDE DEF f
    <3>3. opts'[p] = o
      BY <3>1 DEF IInv, TypeOK
    <3>4. stack' = [stack EXCEPT ![p] = <<f>>]
      BY <3>1 DEF f
    <3> QED  BY <3>2, <3>3, <3>4
  <2>2. CASE StartBatch(p)
    <3>1. PICK t, o : /\ stack' = [stack EXCEPT ![p] =
                             <<[NewFrame("batch", NoResource, o.cleanup) EXCEPT !.todo = t]>>]
                      /\ opts' = [opts EXCEPT ![p] = o]
      BY <2>2 DEF StartBatch, Invoke
    <3> DEFINE f == [NewFrame("batch", NoResource, o.cleanup) EXCEPT !.todo = t]
    <3>2. /\ f.pc \notin OwnPc /\ Holds(f, db, source) /\ f.cleanup = o.cleanup
      BY DEF NewFrame, Holds, LoopPc, OwnPc, MigratedPc
    <3> HIDE DEF f
    <3>3. opts'[p] = o
      BY <3>1 DEF IInv, TypeOK
    <3>4. stack' = [stack EXCEPT ![p] = <<f>>]
      BY <3>1 DEF f
    <3> QED  BY <3>2, <3>3, <3>4
  <2>3. CASE StartCleanup(p)
    <3>1. PICK sel : stack' = [stack EXCEPT ![p] =
                        <<[NewFrame("sweep", NoResource, FALSE) EXCEPT !.queue = Removable(sel)]>>]
      BY <2>3 DEF StartCleanup, Invoke
    <3> DEFINE t == Removable(sel)
               f == [NewFrame("sweep", NoResource, FALSE) EXCEPT !.queue = t]
    <3>2. \A i \in t : i \in DOMAIN db /\ db[i].status \in LIST_STATUS_MIGRATED
      BY DEF Removable, LIST_STATUS_MIGRATED
    <3> HIDE DEF t
    <3>3. f.pc \notin OwnPc /\ Holds(f, db, source) /\ ~f.cleanup
      BY <3>2 DEF NewFrame, Holds, LoopPc, OwnPc, MigratedPc
    <3> HIDE DEF f
    <3>4. stack' = [stack EXCEPT ![p] = <<f>>]
      BY <3>1 DEF f, t
    <3> QED  BY <3>3, <3>4
  <2> QED  BY <2>1, <2>2, <2>3
<1>2. /\ UNCHANGED <<db, source>>
      /\ \A q \in Proc : q # p => opts'[q] = opts[q]
  <2>1. \E o : opts' = [opts EXCEPT ![p] = o]
    BY DEF StartMigration, StartBatch, StartCleanup, Invoke
  <2>2. opts \in [Proc -> Flags]
    BY DEF IInv, TypeOK
  <2>3. UNCHANGED <<db, source>>
    BY DEF StartMigration, StartBatch, StartCleanup, Invoke, clouds
  <2> QED  BY <2>1, <2>2, <2>3
<1> QED  BY <1>1, <1>2, SingleLedger, QuietCloud

-----------------------------------------------------------------------------
(* The other commands.                                                     *)

\* Records are archived or restored.
LEMMA ArchiveLedger ==
    ASSUME IInv, StacksLedger, ArchiveMigrations \/ RestoreMigrations
    PROVE  StacksLedger' /\ CloudStep
<1>1. /\ UNCHANGED <<source, stack, opts>>
      /\ \E rows : \E flag \in BOOLEAN : SetArchived(rows, flag)
  <2>1. CASE ArchiveMigrations
    BY <2>1, Zenon DEF ArchiveMigrations, Issue
  <2>2. CASE RestoreMigrations
    BY <2>2, Zenon DEF RestoreMigrations, Issue
  <2> QED  BY <2>1, <2>2
<1>2. PICK rows : \E f \in BOOLEAN : SetArchived(rows, f)
  BY <1>1
<1>3. PICK flag \in BOOLEAN : SetArchived(rows, flag)
  BY <1>2
<1>4. /\ DOMAIN db' = DOMAIN db
      /\ \A j \in DOMAIN db :
            /\ db'[j].source = db[j].source /\ db'[j].status = db[j].status
            /\ db'[j].dest = db[j].dest /\ db'[j].removed = db[j].removed
  BY <1>3, RecordNumbers DEF SetArchived, Migration
<1>5. Advances(db, source, db', source', 0)
  BY <1>1, <1>4 DEF Advances, Produced
<1>6. CloudStep
  BY <1>1, <1>4, <1>5 DEF CloudStep
<1> QED  BY <1>1, <1>5, <1>6, RestLedger

\* What is entered is a completed migration whose source is still there.
LEMMA Registration ==
    ASSUME IInv, RegisterExternal
    PROVE  \E m \in Migration : /\ db' = Append(db, m) /\ m.status = STATUS_COMPLETED
                                /\ m.dest \in Object /\ ~m.removed
<1> DEFINE made(r) == NewObject([res |-> r, rec |-> Len(db) + 1])
           entry(r, x) == [source |-> r, status |-> STATUS_COMPLETED, dest |-> x,
                           removed |-> FALSE, archived |-> FALSE]
<1>1. PICK r \in Requested : \E x \in {y \in dest : y.of = r} \cup {made(r)} :
         db' = Append(db, entry(r, x))
  BY DEF RegisterExternal
<1>2. PICK x \in {y \in dest : y.of = r} \cup {made(r)} : db' = Append(db, entry(r, x))
  BY <1>1
<1>3. r \in Resource /\ dest \in SUBSET Object /\ Len(db) + 1 \in Nat
  BY ResourceAssumption, RecordNumbers DEF IInv, TypeOK
<1>4. made(r) \in Object
  BY <1>3 DEF NewObject, Object
<1> HIDE DEF made
<1>5. /\ entry(r, x) \in Migration /\ entry(r, x).status = STATUS_COMPLETED
      /\ entry(r, x).dest \in Object /\ ~entry(r, x).removed
  BY <1>2, <1>3, <1>4, StatusMembers DEF Migration
<1> HIDE DEF entry
<1> QED  BY <1>2, <1>5

LEMMA RegisterLedger ==
    ASSUME IInv, StacksLedger, RegisterExternal
    PROVE  StacksLedger' /\ CloudStep
<1>1. PICK m \in Migration : db' = Append(db, m) /\ ~m.removed
  BY Registration
<1>2. /\ DOMAIN db' = 1..Len(db) + 1 /\ db'[Len(db) + 1] = m
      /\ \A j \in DOMAIN db : j \in DOMAIN db' /\ db'[j] = db[j]
      /\ \A j \in DOMAIN db' : j \in DOMAIN db \/ j = Len(db) + 1
  BY <1>1, RecordNumbers, AppendProperties
<1>3. UNCHANGED <<source, stack, opts>>
  BY DEF RegisterExternal, Issue
<1>4. Advances(db, source, db', source', 0)
  BY <1>2, <1>3 DEF Advances, Produced
<1>5. CloudStep
  BY <1>1, <1>2, <1>3, <1>4 DEF CloudStep
<1> QED  BY <1>3, <1>4, <1>5, RestLedger

-----------------------------------------------------------------------------
(* The invariant.                                                          *)

LEMMA LedgerSteps ==
    ASSUME IInv, StacksLedger, Next
    PROVE  StacksLedger' /\ CloudStep
<1>1. ASSUME NEW p \in Proc, Step(p)  PROVE StacksLedger' /\ CloudStep
  BY <1>1, QuietLedger, ReuseLedger, CallsLedger, CreateLedger, SaveLedger, MarkLedger,
     DeleteLedger, DeleteFailsLedger, RemovedLedger, FailLedger, RaiseLedger,
     CompleteLedger, EndLedger DEF Step
<1>2. ASSUME NEW p \in Proc,
             StartMigration(p) \/ StartBatch(p) \/ StartCleanup(p) \/ Crash(p)
      PROVE  StacksLedger' /\ CloudStep
  BY <1>2, StartLedger, EndLedger
<1>3. CASE ArchiveMigrations \/ RestoreMigrations \/ RegisterExternal
  BY <1>3, ArchiveLedger, RegisterLedger
<1> QED  BY <1>1, <1>2, <1>3 DEF Next

LEMMA LedgerInit == Init => LedgerInv
<1> SUFFICES ASSUME Init  PROVE LedgerInv
  OBVIOUS
<1>1. FramesHold /\ CleanupIsAsked /\ Exclusive
  BY EmptySeq DEF Init, FramesHold, CleanupIsAsked, MayClean, Exclusive
<1>2. RemovedIsGone /\ RemovedIsMigrated
  BY EmptySeq DEF Init, RemovedIsGone, RemovedIsMigrated
<1> QED  BY <1>1, <1>2 DEF LedgerInv

LEMMA LedgerNext == IInv /\ IInv' /\ LedgerInv /\ [Next]_vars => LedgerInv'
<1> SUFFICES ASSUME IInv, IInv', LedgerInv, [Next]_vars  PROVE LedgerInv'
  OBVIOUS
<1>1. StacksLedger /\ RemovedIsGone /\ RemovedIsMigrated
  BY DEF LedgerInv, StacksLedger
<1>2. CASE UNCHANGED vars
  <2>1. StacksLedger'
    BY <1>1, <1>2, AdvanceSame, RestLedger DEF vars
  <2>2. CloudStep
    BY <1>2, QuietCloud DEF vars
  <2> QED  BY <1>1, <2>1, <2>2, RemovalKept DEF LedgerInv, StacksLedger
<1>3. CASE Next
  BY <1>1, <1>3, LedgerSteps, RemovalKept DEF LedgerInv, StacksLedger
<1> QED  BY <1>2, <1>3

\* The invariant of the records and the source cloud holds in every reachable state.
THEOREM LedgerInvariance == Spec => []LedgerInv
BY LedgerInit, LedgerNext, Invariance, PTL DEF Spec

-----------------------------------------------------------------------------
(* The promises.                                                           *)

\* A source that is gone was deleted for a migration that has produced its
\* destination object (manager.py:389 and after), whichever command deleted it,
\* whatever failed or was killed, and whatever the records said at the time.
THEOREM RemovalFollowsMigration == Spec => []RemovedIsMigrated
<1>1. LedgerInv => RemovedIsMigrated
  BY DEF LedgerInv
<1> QED  BY <1>1, LedgerInvariance, PTL

\* A record never says that its source was removed (manager.py:403) while the
\* source is still there, but for the types whose handler returns from a
\* deletion that has failed (volume_type.py:102, share_type.py:108).
THEOREM RemovalIsRecordedAfterwards == Spec => []RemovedIsGone
<1>1. LedgerInv => RemovedIsGone
  BY DEF LedgerInv
<1> QED  BY <1>1, LedgerInvariance, PTL

\* A migration that was asked to clean up is marked as completed
\* (manager.py:173) only when its record says that its source was removed and,
\* but for those types, the source is gone.
THEOREM CompletionFollowsCleanup == Spec => []CompleteIsClean
<1>1. IInv /\ LedgerInv => CompleteIsClean
  <2> SUFFICES ASSUME IInv, LedgerInv, NEW p \in Proc, At(p, "complete"), Top(p).cleanup
               PROVE  /\ Top(p).res \notin source \/ Top(p).res \in Swallows
                      /\ db[Top(p).rec].removed
    BY DEF CompleteIsClean
  <2>1. Holds(Top(p), db, source)
    BY TopHolds DEF At, LedgerInv, StacksLedger
  <2>2. /\ Top(p).rec \in DOMAIN db /\ db[Top(p).rec].source = Top(p).res
        /\ db[Top(p).rec].removed
    BY <2>1 DEF At, Holds, MigratedPc
  <2> QED  BY <2>2 DEF LedgerInv, RemovedIsGone
<1> QED  BY <1>1, Invariance, LedgerInvariance, PTL

LEMMA SourceSteps ==
    ASSUME Next, source' # source
    PROVE  \E p \in Proc : DeleteSource(p) \/ DeleteSourceFails(p)
<1>1. ASSUME NEW p \in Proc, Step(p)  PROVE DeleteSource(p) \/ DeleteSourceFails(p)
  BY <1>1 DEF Step, SkipInBatch, MigrateInBatch, FinishBatch, ReuseMigration,
     LookUpMigration, CreateMigration, GetAssociatedResources, RefusePendingDependencies,
     SkipDependency, MigrateDependency, RecheckDependencies, RefuseUnmigratedDependencies,
     GetAssociatedResourcesFails, HandlerMigrates, HandlerFails, SaveDestination,
     MarkPendingMembers, GetMemberResources, GetMemberResourcesFails, SkipMember,
     MigrateMember, ConnectMembers, MarkPendingCleanup, MarkSourceRemoved, FinishCleanup,
     CompleteMigration, DependencyFailed, MemberFailed, BatchFailed, Move, Call, Exit,
     clouds
<1>2. ASSUME NEW p \in Proc,
             StartMigration(p) \/ StartBatch(p) \/ StartCleanup(p) \/ Crash(p)
      PROVE  FALSE
  BY <1>2 DEF StartMigration, StartBatch, StartCleanup, Crash, Invoke, clouds
<1>3. CASE ArchiveMigrations \/ RestoreMigrations \/ RegisterExternal
  BY <1>3, Zenon DEF ArchiveMigrations, RestoreMigrations, RegisterExternal, Issue
<1> QED  BY <1>1, <1>2, <1>3 DEF Next

\* Cleanup deletes the source of the resource of the frame or of a dependency
\* that it owns, and then only where the command line asked for it and no
\* dependency is being migrated for somebody else (manager.py:161-169, 343);
\* the cleanup-source command deletes what it has selected.
THEOREM RemovalIsAskedFor == Spec => OnlyTargetsRemoved
<1> DEFINE Asked(r) ==
             \E p \in Proc : LET f == Top(p) IN
                /\ ~Idle(p)
                /\ IF f.pc = "sweep"
                   THEN \E i \in f.queue : r \in DeletedWith(db[i].source)
                   ELSE /\ f.res \in Resource
                        /\ opts[p].cleanup
                        /\ \A k \in 1..Len(stack[p]) - 1 : stack[p][k].pc # "deps"
                        /\ \E t \in {f.res} \cup Owned[f.res] : r \in DeletedWith(t)
<1>1. ASSUME IInv, LedgerInv, [Next]_vars, NEW r \in source \ source'
      PROVE  Asked(r)
  <2>1. PICK p \in Proc : DeleteSource(p) \/ DeleteSourceFails(p)
    <3>1. source' # source
      OBVIOUS
    <3> QED  BY <1>1, <3>1, SourceSteps DEF vars
  <2>2. CleaningUp(p) /\ ~Idle(p)
    BY <2>1 DEF DeleteSource, DeleteSourceFails, CleaningUp
  <2>3. PICK i \in CleanupNext(Top(p)) : r \in DeletedWith(db[i].source)
    BY <2>1 DEF DeleteSource, DeleteSourceFails
  <2>4. /\ Holds(Top(p), db, source) /\ StacksLedger
        /\ MayClean(stack[p], opts[p].cleanup)
    BY <1>1, <2>2, TopHolds DEF LedgerInv, StacksLedger, CleanupIsAsked
  <2>5. Top(p).pc \in {"cleanOwn", "cleanAssoc", "sweep"}
    BY <1>1, <2>2, <2>3, <2>4, CleanupTargets
  <2>6. CASE Top(p).pc = "sweep"
    <3>1. i \in Top(p).queue
      BY <2>3, <2>6 DEF CleanupNext
    <3> QED  BY <2>2, <2>3, <2>6, <3>1
  <2>7. CASE Top(p).pc # "sweep"
    <3>1. Top(p).cleanup /\ Top(p).res \in Resource
      BY <1>1, <2>2, <2>4, <2>5, <2>7, AtTop DEF Holds
    <3>2. db[i].source \in {Top(p).res} \cup Owned[Top(p).res]
      BY <2>3, <2>4, <2>5, <2>7 DEF CleanupNext, Holds, MigratedPc, LoopPc
    <3>3. opts[p].cleanup /\ \A k \in 1..Len(stack[p]) - 1 : stack[p][k].pc # "deps"
      <4>1. /\ Top(p) = stack[p][Len(stack[p])] /\ Len(stack[p]) \in DOMAIN stack[p]
            /\ DOMAIN stack[p] = 1..Len(stack[p]) /\ Len(stack[p]) \in Nat \ {0}
        BY <1>1, <2>2, StackShape
      <4>2. \A j \in DOMAIN stack[p] : j < Len(stack[p]) => stack[p][j].pc # "deps"
        BY <2>4, <3>1, <4>1 DEF MayClean
      <4> QED  BY <2>4, <3>1, <4>1, <4>2 DEF MayClean
    <3> QED  BY <2>2, <2>3, <2>7, <3>1, <3>2, <3>3
  <2> QED  BY <2>6, <2>7
<1>2. IInv /\ LedgerInv /\ [Next]_vars => [\A r \in source \ source' : Asked(r)]_vars
  BY <1>1
<1> QED  BY <1>2, Invariance, LedgerInvariance, PTL DEF Spec, OnlyTargetsRemoved

-----------------------------------------------------------------------------
(* Refinement: the migrations table is a ledger.                           *)

LedgerOf(d) == [i \in DOMAIN d |-> LedgerEntry(d[i])]

\* A step of the ledger, or none.
LedgerStep == Ledger!Next \/ LedgerOf(db') = LedgerOf(db)

LEMMA LedgerStates ==
    /\ LedgerState(STATUS_IN_PROGRESS) = "open"
    /\ LedgerState(STATUS_FAILED) = "failed"
    /\ \A v \in LIST_STATUS_MIGRATED : LedgerState(v) = "migrated"
BY StatusValues DEF LedgerState

\* What an entry shows of a record.
LEMMA EntryFields ==
    ASSUME NEW m
    PROVE  /\ LedgerEntry(m) \in [source: {m.source}, state: {LedgerState(m.status)},
                                  target: {m.dest}, removed: {m.removed}]
           /\ LedgerEntry(m).source = m.source
           /\ LedgerEntry(m).state = LedgerState(m.status)
           /\ LedgerEntry(m).target = m.dest
           /\ LedgerEntry(m).removed = m.removed
           /\ \A x : LedgerEntry(m).state = x =>
                 [LedgerEntry(m) EXCEPT !.state = x] = LedgerEntry(m)
BY DEF LedgerEntry

\* A change that the ledger does not show.
LEMMA LedgerSame ==
    ASSUME DOMAIN db' = DOMAIN db,
           \A j \in DOMAIN db :
              /\ db'[j].source = db[j].source /\ db'[j].dest = db[j].dest
              /\ db'[j].removed = db[j].removed
              /\ LedgerState(db'[j].status) = LedgerState(db[j].status)
    PROVE  LedgerStep
<1>1. LedgerOf(db') = LedgerOf(db)
  BY DEF LedgerOf, LedgerEntry
<1> QED  BY <1>1 DEF LedgerStep

\* A change of the entry of one record, to e.
LEMMA LedgerUpdate ==
    ASSUME NEW i \in DOMAIN db, DOMAIN db' = DOMAIN db,
           \A j \in DOMAIN db : j # i => db'[j] = db[j]
    PROVE  LedgerOf(db') = [LedgerOf(db) EXCEPT ![i] = LedgerEntry(db'[i])]
BY DEF LedgerOf

\* The other records are left alone.
LEMMA OthersKept ==
    ASSUME IInv, NEW i \in DOMAIN db, NEW v
    PROVE  \A j \in DOMAIN db : j # i =>
              /\ [db EXCEPT ![i].status = v][j] = db[j]
              /\ [db EXCEPT ![i].dest = v][j] = db[j]
              /\ [db EXCEPT ![i].removed = v][j] = db[j]
<1>1. db \in [1..Len(db) -> Migration]
  BY RecordNumbers, LenProperties
<1> QED  BY <1>1

\* A record is migrated: its entry is closed, or was before.
LEMMA StatusEntry ==
    ASSUME IInv, NEW i \in DOMAIN db, Produced(i, db), NEW v \in LIST_STATUS_MIGRATED,
           SetStatus(i, v)
    PROVE  LedgerStep
<1>1. db' = [db EXCEPT ![i].status = v]
  BY DEF SetStatus
<1>2. /\ DOMAIN db' = DOMAIN db
      /\ \A j \in DOMAIN db :
            /\ db'[j].source = db[j].source /\ db'[j].dest = db[j].dest
            /\ db'[j].removed = db[j].removed
            /\ db'[j].status = IF j = i THEN v ELSE db[j].status
      /\ \A j \in DOMAIN db : j # i => db'[j] = db[j]
  BY <1>1, RecordFields, RecordNumbers
<1>3. CASE db[i].status \in LIST_STATUS_MIGRATED
  BY <1>2, <1>3, LedgerStates, LedgerSame
<1>4. CASE db[i].status = STATUS_IN_PROGRESS
  <2>1. LedgerOf(db)[i].state = "open" /\ LedgerOf(db)[i].target # NoDest
    BY <1>4, EntryFields, LedgerStates DEF LedgerOf, Produced
  <2>2. LedgerEntry(db'[i]) = [LedgerOf(db)[i] EXCEPT !.state = "migrated"]
    BY <1>2, LedgerStates DEF LedgerOf, LedgerEntry
  <2>3. LedgerOf(db') = [LedgerOf(db) EXCEPT ![i] = LedgerEntry(db'[i])]
    BY <1>2, LedgerUpdate
  <2>4. LedgerOf(db') = [LedgerOf(db) EXCEPT ![i].state = "migrated"]
    BY <2>2, <2>3
  <2>5. i \in DOMAIN LedgerOf(db)
    BY DEF LedgerOf
  <2>6. Ledger!Close
    BY <2>1, <2>4, <2>5 DEF Ledger!Close, LedgerOf
  <2> QED  BY <2>6 DEF LedgerStep, Ledger!Next
<1>5. db[i].status \in LIST_STATUS_MIGRATED \cup {STATUS_IN_PROGRESS}
  BY RecordNumbers DEF Produced, Migration, Status
<1> QED  BY <1>3, <1>4, <1>5

\* It fails.
LEMMA FailureEntry ==
    ASSUME IInv, NEW i \in DOMAIN db, db[i].status = STATUS_IN_PROGRESS,
           db[i].dest = NoDest, SetStatus(i, STATUS_FAILED)
    PROVE  LedgerStep
<1>1. db' = [db EXCEPT ![i].status = STATUS_FAILED]
  BY DEF SetStatus
<1>2. /\ DOMAIN db' = DOMAIN db
      /\ db'[i].source = db[i].source /\ db'[i].dest = db[i].dest
      /\ db'[i].removed = db[i].removed /\ db'[i].status = STATUS_FAILED
      /\ \A j \in DOMAIN db : j # i => db'[j] = db[j]
  <2>1. /\ DOMAIN db' = DOMAIN db
        /\ \A j \in DOMAIN db :
              /\ db'[j].source = db[j].source /\ db'[j].dest = db[j].dest
              /\ db'[j].removed = db[j].removed
              /\ db'[j].status = IF j = i THEN STATUS_FAILED ELSE db[j].status
    BY <1>1, RecordFields
  <2>2. \A j \in DOMAIN db : j # i => db'[j] = db[j]
    BY <1>1, OthersKept
  <2> QED  BY <2>1, <2>2
<1>3. LedgerOf(db)[i].state = "open" /\ LedgerOf(db)[i].target = NoDest
      /\ i \in DOMAIN LedgerOf(db)
  BY EntryFields, LedgerStates DEF LedgerOf
<1>4. LedgerEntry(db'[i]) = [LedgerOf(db)[i] EXCEPT !.state = "failed"]
  BY <1>2, LedgerStates DEF LedgerOf, LedgerEntry
<1>5. LedgerOf(db') = [LedgerOf(db) EXCEPT ![i] = LedgerEntry(db'[i])]
  BY <1>2, LedgerUpdate
<1>6. LedgerOf(db') = [LedgerOf(db) EXCEPT ![i].state = "failed"]
  BY <1>4, <1>5
<1>7. Ledger!Fail
  BY <1>3, <1>6 DEF Ledger!Fail, LedgerOf
<1> QED  BY <1>7 DEF LedgerStep, Ledger!Next

\* It obtains its destination.
LEMMA DestinationEntry ==
    ASSUME IInv, NEW i \in DOMAIN db, db[i].status = STATUS_IN_PROGRESS,
           db[i].dest = NoDest, NEW x \in Object, db' = [db EXCEPT ![i].dest = x]
    PROVE  LedgerStep
<1>2. /\ DOMAIN db' = DOMAIN db
      /\ db'[i].source = db[i].source /\ db'[i].dest = x
      /\ db'[i].removed = db[i].removed /\ db'[i].status = db[i].status
      /\ \A j \in DOMAIN db : j # i => db'[j] = db[j]
  <2>1. /\ DOMAIN db' = DOMAIN db
        /\ \A j \in DOMAIN db :
              /\ db'[j].source = db[j].source /\ db'[j].status = db[j].status
              /\ db'[j].removed = db[j].removed
              /\ db'[j].dest = IF j = i THEN x ELSE db[j].dest
    BY RecordFields
  <2>2. \A j \in DOMAIN db : j # i => db'[j] = db[j]
    BY OthersKept
  <2> QED  BY <2>1, <2>2
<1>3. LedgerOf(db)[i].state = "open" /\ LedgerOf(db)[i].target = NoDest
      /\ i \in DOMAIN LedgerOf(db)
  BY EntryFields, LedgerStates DEF LedgerOf
<1>4. /\ LedgerEntry(db'[i]) = [LedgerOf(db)[i] EXCEPT !.target = x]
      /\ LedgerEntry(db'[i]).target = x
  BY <1>2 DEF LedgerOf, LedgerEntry
<1>5. LedgerOf(db') = [LedgerOf(db) EXCEPT ![i] = LedgerEntry(db'[i])]
  BY <1>2, LedgerUpdate
<1>6. LedgerOf(db') = [LedgerOf(db) EXCEPT ![i].target = x] /\ LedgerOf(db')[i].target = x
  BY <1>3, <1>4, <1>5
<1>7. Ledger!Produce
  BY <1>3, <1>6 DEF Ledger!Produce, LedgerOf
<1> QED  BY <1>7 DEF LedgerStep, Ledger!Next

\* Its source is gone.
LEMMA RemovedEntry ==
    ASSUME IInv, NEW i \in DOMAIN db, MigratedRecord(i),
           db' = [db EXCEPT ![i].removed = TRUE]
    PROVE  LedgerStep
<1>2. /\ DOMAIN db' = DOMAIN db
      /\ db'[i].source = db[i].source /\ db'[i].dest = db[i].dest
      /\ db'[i].removed = TRUE /\ db'[i].status = db[i].status
      /\ \A j \in DOMAIN db : j # i => db'[j] = db[j]
  <2>1. /\ DOMAIN db' = DOMAIN db
        /\ \A j \in DOMAIN db :
              /\ db'[j].source = db[j].source /\ db'[j].status = db[j].status
              /\ db'[j].dest = db[j].dest
              /\ db'[j].removed = IF j = i THEN TRUE ELSE db[j].removed
    BY RecordFields
  <2>2. \A j \in DOMAIN db : j # i => db'[j] = db[j]
    BY OthersKept
  <2> QED  BY <2>1, <2>2
<1>3. LedgerOf(db)[i].state = "migrated" /\ i \in DOMAIN LedgerOf(db)
  BY EntryFields, LedgerStates DEF LedgerOf, MigratedRecord
<1>4. LedgerEntry(db'[i]) = [LedgerOf(db)[i] EXCEPT !.removed = TRUE]
  <2> DEFINE v == db'[i].removed
  <2>1. LedgerEntry(db'[i]) =
           [source |-> db[i].source, state |-> LedgerState(db[i].status),
            target |-> db[i].dest, removed |-> v]
    BY <1>2 DEF LedgerEntry
  <2>2. LedgerOf(db)[i] =
           [source |-> db[i].source, state |-> LedgerState(db[i].status),
            target |-> db[i].dest, removed |-> db[i].removed]
    BY DEF LedgerOf, LedgerEntry
  <2>3. v = TRUE
    BY <1>2
  <2> HIDE DEF v
  <2>4. LedgerEntry(db'[i]) = [LedgerOf(db)[i] EXCEPT !.removed = v]
    BY <2>1, <2>2
  <2> QED  BY <2>3, <2>4, Zenon
<1>5. LedgerOf(db') = [LedgerOf(db) EXCEPT ![i] = LedgerEntry(db'[i])]
  BY <1>2, LedgerUpdate
<1>6. LedgerOf(db') = [LedgerOf(db) EXCEPT ![i].removed = TRUE]
  BY <1>4, <1>5
<1>7. Ledger!RemoveSource
  BY <1>3, <1>6 DEF Ledger!RemoveSource, LedgerOf
<1> QED  BY <1>7 DEF LedgerStep, Ledger!Next

\* A record is added.
LEMMA AppendedEntry ==
    ASSUME IInv, NEW m \in Migration, db' = Append(db, m)
    PROVE  /\ LedgerOf(db') = Append(LedgerOf(db), LedgerEntry(m))
           /\ Len(LedgerOf(db)) = Len(db) /\ Len(LedgerOf(db')) = Len(db) + 1
           /\ LedgerOf(db')[Len(db) + 1] = LedgerEntry(m)
<1> DEFINE S == {LedgerEntry(x) : x \in Migration}
           u == LedgerOf(db)
           w == LedgerOf(Append(db, m))
           n == Len(db)
<1>1. db \in Seq(Migration) /\ n \in Nat /\ DOMAIN db = 1..n
      /\ \A i \in 1..n : db[i] \in Migration
  BY RecordNumbers
<1>2. /\ Append(db, m) \in Seq(Migration)
      /\ DOMAIN Append(db, m) = 1..n + 1
      /\ \A i \in 1..n : Append(db, m)[i] = db[i]
      /\ Append(db, m)[n + 1] = m
  BY <1>1, AppendProperties, LenProperties
<1>3. /\ u \in [1..n -> S]
      /\ \A i \in 1..n : u[i] = LedgerEntry(db[i])
  BY <1>1 DEF LedgerOf
<1>4. /\ w \in [1..n + 1 -> S]
      /\ \A i \in 1..n : w[i] = LedgerEntry(db[i])
      /\ w[n + 1] = LedgerEntry(m)
  BY <1>1, <1>2 DEF LedgerOf
<1>5. LedgerEntry(m) \in S
  OBVIOUS
<1> HIDE DEF u, w, S
<1>6. u \in Seq(S) /\ Len(u) = n
  BY <1>1, <1>3, SeqDef, LenProperties
<1>7. w \in Seq(S) /\ Len(w) = n + 1
  BY <1>1, <1>4, SeqDef, LenProperties
<1>8. /\ Append(u, LedgerEntry(m)) \in Seq(S)
      /\ Len(Append(u, LedgerEntry(m))) = n + 1
      /\ \A i \in 1..n : Append(u, LedgerEntry(m))[i] = u[i]
      /\ Append(u, LedgerEntry(m))[n + 1] = LedgerEntry(m)
  BY <1>5, <1>6, AppendProperties
<1>9. \A i \in 1..n + 1 : i \in 1..n \/ i = n + 1
  BY <1>1
<1>10. w = Append(u, LedgerEntry(m))
  BY <1>3, <1>4, <1>7, <1>8, <1>9, SeqEqual
<1> QED  BY <1>4, <1>6, <1>7, <1>10 DEF u, w


\* Steps that leave the records alone.
LEMMA QuietEntries ==
    ASSUME UNCHANGED db
    PROVE  LedgerStep
BY DEF LedgerStep

\* A new record opens an entry.
LEMMA OpenStep ==
    ASSUME IInv, NEW p \in Proc, CreateMigration(p)
    PROVE  LedgerStep
<1> DEFINE m == [source |-> Top(p).res, status |-> STATUS_IN_PROGRESS,
                 dest |-> NoDest, removed |-> FALSE, archived |-> FALSE]
<1>1. ~Idle(p) /\ Top(p).pc = "create" /\ db' = Append(db, m)
  BY DEF CreateMigration, At
<1>2. Top(p).res \in Resource
  BY <1>1, AtTop
<1>3. m \in Migration
  BY <1>2 DEF Migration, Status
<1>4. LedgerEntry(m) = [source |-> Top(p).res, state |-> "open",
                        target |-> NoDest, removed |-> FALSE]
  BY LedgerStates DEF LedgerEntry
<1> HIDE DEF m
<1>5. LedgerOf(db') = Append(LedgerOf(db), LedgerEntry(m))
  BY <1>1, <1>3, AppendedEntry
<1>6. Ledger!Open
  BY <1>2, <1>4, <1>5 DEF Ledger!Open, LedgerOf
<1> QED  BY <1>6 DEF LedgerStep, Ledger!Next

\* The record of a call that raises before it has produced anything fails.
LEMMA FailStep ==
    ASSUME IInv, StacksLedger, NEW p \in Proc,
           \/ RefusePendingDependencies(p) \/ RefuseUnmigratedDependencies(p)
           \/ GetAssociatedResourcesFails(p) \/ HandlerFails(p) \/ DependencyFailed(p)
    PROVE  LedgerStep
<1> DEFINE i == Top(p).rec
<1>1. /\ ~Idle(p) /\ Top(p).pc \in {"assoc", "deps", "perform"} /\ SetStatus(i, STATUS_FAILED)
  BY DEF RefusePendingDependencies, RefuseUnmigratedDependencies,
     GetAssociatedResourcesFails, HandlerFails, DependencyFailed, At, RaisedTo,
     FailMigration
<1>2. i \in DOMAIN db /\ db[i].status = STATUS_IN_PROGRESS /\ db[i].dest = NoDest
  BY <1>1, TopHolds DEF Holds, OwnPc
<1> HIDE DEF i
<1> QED  BY <1>1, <1>2, FailureEntry

LEMMA ProduceStep ==
    ASSUME IInv, StacksLedger, NEW p \in Proc, SaveDestination(p)
    PROVE  LedgerStep
<1> DEFINE i == Top(p).rec
           x == NewObject(Top(p))
<1>1. ~Idle(p) /\ Top(p).pc = "saveDest" /\ db' = [db EXCEPT ![i].dest = x]
  BY DEF SaveDestination, At
<1>2. i \in DOMAIN db /\ db[i].status = STATUS_IN_PROGRESS /\ db[i].dest = NoDest
  BY <1>1, TopHolds DEF Holds, OwnPc
<1>3. x \in Object
  <2>1. FrameOK(Top(p), db, dest) /\ dest \in SUBSET Object
    BY <1>1, AtTop DEF IInv, TypeOK
  <2> QED  BY <1>1, <2>1 DEF FrameOK
<1> HIDE DEF i, x
<1> QED  BY <1>1, <1>2, <1>3, DestinationEntry

\* The record of a call that has its destination is migrated for good.
LEMMA CloseStep ==
    ASSUME IInv, StacksLedger, NEW p \in Proc,
           \/ MarkPendingMembers(p) \/ MarkPendingCleanup(p)
           \/ DeleteSourceFails(p) \/ CompleteMigration(p)
    PROVE  LedgerStep
<1>1. PICK i \in DOMAIN db : Produced(i, db) /\ \E v \in LIST_STATUS_MIGRATED : SetStatus(i, v)
  <2>1. CASE MarkPendingMembers(p) \/ MarkPendingCleanup(p) \/ CompleteMigration(p)
    <3>1. ~Idle(p) /\ Top(p).pc \in {"migrated", "pendingCleanup", "complete"}
      BY <2>1 DEF MarkPendingMembers, MarkPendingCleanup, CompleteMigration, At
    <3>2. Top(p).rec \in DOMAIN db /\ Produced(Top(p).rec, db)
      BY <3>1, TopHolds DEF Holds, MigratedPc
    <3>3. \E v \in LIST_STATUS_MIGRATED : SetStatus(Top(p).rec, v)
      BY <2>1 DEF MarkPendingMembers, MarkPendingCleanup, CompleteMigration,
         LIST_STATUS_MIGRATED
    <3> QED  BY <3>2, <3>3
  <2>2. CASE DeleteSourceFails(p)
    <3>1. CleaningUp(p)
      BY <2>2 DEF DeleteSourceFails, CleaningUp
    <3>2. PICK i \in CleanupNext(Top(p)) : SetStatus(i, STATUS_SOURCE_CLEANUP_FAILED)
      BY <2>2 DEF DeleteSourceFails
    <3>3. i \in DOMAIN db /\ MigratedRecord(i)
      BY <3>1, CleanupTargets
    <3> QED  BY <3>2, <3>3, MigratedProduced DEF MigratedRecord, LIST_STATUS_MIGRATED
  <2> QED  BY <2>1, <2>2
<1>2. PICK v \in LIST_STATUS_MIGRATED : SetStatus(i, v)
  BY <1>1
<1> QED  BY <1>1, <1>2, StatusEntry

LEMMA RemoveStep ==
    ASSUME IInv, StacksLedger, NEW p \in Proc, MarkSourceRemoved(p)
    PROVE  LedgerStep
<1> DEFINE i == Top(p).cur
<1>1. ~Idle(p) /\ i # 0 /\ db' = [db EXCEPT ![i].removed = TRUE]
  BY DEF MarkSourceRemoved
<1>2. i \in DOMAIN db /\ MigratedRecord(i)
  BY <1>1, TopHolds DEF Holds, MigratedRecord
<1> HIDE DEF i
<1> QED  BY <1>1, <1>2, RemovedEntry

\* Archiving and restoring is not shown.
LEMMA ArchiveStep ==
    ASSUME IInv, ArchiveMigrations \/ RestoreMigrations
    PROVE  LedgerStep
<1>1. PICK rows : \E f \in BOOLEAN : SetArchived(rows, f)
  <2>1. CASE ArchiveMigrations
    BY <2>1, Zenon DEF ArchiveMigrations
  <2>2. CASE RestoreMigrations
    BY <2>2, Zenon DEF RestoreMigrations
  <2> QED  BY <2>1, <2>2
<1>2. PICK flag \in BOOLEAN : SetArchived(rows, flag)
  BY <1>1
<1>3. /\ DOMAIN db' = DOMAIN db
      /\ \A j \in DOMAIN db :
            /\ db'[j].source = db[j].source /\ db'[j].status = db[j].status
            /\ db'[j].dest = db[j].dest /\ db'[j].removed = db[j].removed
  BY <1>2, RecordNumbers DEF SetArchived, Migration
<1> QED  BY <1>3, LedgerSame

\* A registration enters a migration that others made.
LEMMA EnterStep ==
    ASSUME IInv, RegisterExternal
    PROVE  LedgerStep
<1>1. PICK m \in Migration : /\ db' = Append(db, m) /\ m.status = STATUS_COMPLETED
                             /\ m.dest \in Object /\ ~m.removed
  BY Registration
<1>2. m.source \in Resource /\ m.removed = FALSE
  BY <1>1 DEF Migration
<1>3. LedgerState(m.status) = "migrated"
  BY <1>1, LedgerStates DEF LIST_STATUS_MIGRATED
<1>4. LedgerEntry(m) = [source |-> m.source, state |-> "migrated",
                        target |-> m.dest, removed |-> FALSE]
  BY <1>2, <1>3 DEF LedgerEntry
<1>5. /\ LedgerOf(db') = Append(LedgerOf(db), LedgerEntry(m))
      /\ Len(LedgerOf(db)) = Len(db) /\ Len(LedgerOf(db')) = Len(db) + 1
      /\ LedgerOf(db')[Len(db) + 1] = LedgerEntry(m)
  BY <1>1, AppendedEntry
<1>6. LedgerOf(db')[Len(LedgerOf(db)) + 1].target = m.dest
  BY <1>4, <1>5
<1>7. Ledger!Enter
  BY <1>1, <1>2, <1>4, <1>5, <1>6 DEF Ledger!Enter, LedgerOf
<1> QED  BY <1>7 DEF LedgerStep, Ledger!Next

\* Steps of an invocation that leave the records alone.
LEMMA RecordsUntouched ==
    ASSUME NEW p \in Proc,
           \/ SkipInBatch(p) \/ MigrateInBatch(p) \/ FinishBatch(p) \/ ReuseMigration(p)
           \/ LookUpMigration(p) \/ GetAssociatedResources(p) \/ SkipDependency(p)
           \/ MigrateDependency(p) \/ RecheckDependencies(p) \/ HandlerMigrates(p)
           \/ GetMemberResources(p) \/ GetMemberResourcesFails(p) \/ SkipMember(p)
           \/ MigrateMember(p) \/ ConnectMembers(p) \/ DeleteSource(p) \/ FinishCleanup(p)
           \/ MemberFailed(p) \/ BatchFailed(p) \/ StartMigration(p) \/ StartBatch(p)
           \/ StartCleanup(p) \/ Crash(p)
    PROVE  UNCHANGED db
BY DEF SkipInBatch, MigrateInBatch, FinishBatch, ReuseMigration, LookUpMigration,
   GetAssociatedResources, SkipDependency, MigrateDependency, RecheckDependencies,
   HandlerMigrates, GetMemberResources, GetMemberResourcesFails, SkipMember, MigrateMember,
   ConnectMembers, DeleteSource, FinishCleanup, MemberFailed, BatchFailed, StartMigration,
   StartBatch, StartCleanup, Crash, Move, Call, Exit, Invoke

LEMMA LedgerSimulation ==
    ASSUME IInv, StacksLedger, Next
    PROVE  LedgerStep
<1>1. ASSUME NEW p \in Proc, Step(p)  PROVE LedgerStep
  BY <1>1, RecordsUntouched, QuietEntries, OpenStep, FailStep, ProduceStep, CloseStep,
     RemoveStep DEF Step
<1>2. ASSUME NEW p \in Proc,
             StartMigration(p) \/ StartBatch(p) \/ StartCleanup(p) \/ Crash(p)
      PROVE  LedgerStep
  BY <1>2, RecordsUntouched, QuietEntries
<1>3. CASE ArchiveMigrations \/ RestoreMigrations \/ RegisterExternal
  BY <1>3, ArchiveStep, EnterStep
<1> QED  BY <1>1, <1>2, <1>3 DEF Next

\* The migrations table (db/models.py:15-41) behaves as the ledger: whoever
\* reads it sees every migration open, obtain its destination once and close
\* for good, and a source given up only by one that has succeeded.
THEOREM RecordsImplementLedger == Spec => ImplementsLedger
<1>1. Init => Ledger!Init
  <2> SUFFICES ASSUME Init  PROVE LedgerOf(db) = <<>>
    BY DEF Ledger!Init, LedgerOf
  <2>1. DOMAIN db = {}
    BY EmptySeq DEF Init
  <2> QED  BY <2>1 DEF LedgerOf
<1>2. IInv /\ LedgerInv /\ [Next]_vars => (Ledger!Next \/ LedgerOf(db') = LedgerOf(db))
  <2> SUFFICES ASSUME IInv, LedgerInv, [Next]_vars  PROVE LedgerStep
    BY DEF LedgerStep
  <2>1. StacksLedger
    BY DEF LedgerInv, StacksLedger
  <2> QED  BY <2>1, LedgerSimulation, QuietEntries DEF vars
<1>3. IInv /\ LedgerInv /\ [Next]_vars
         => [Ledger!Next]_([i \in DOMAIN db |-> LedgerEntry(db[i])])
  BY <1>2 DEF LedgerOf
<1> QED  BY <1>1, <1>3, Invariance, LedgerInvariance, PTL DEF Spec, ImplementsLedger, Ledger!Spec
=============================================================================
