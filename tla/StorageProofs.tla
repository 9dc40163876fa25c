----------------------------- MODULE StorageProofs -----------------------------
(***************************************************************************)
(* Proofs about the handlers that take several requests to migrate a       *)
(* resource: what holds of every call (CallInv), and, one kind of handler  *)
(* after the other, what holds of the objects it works on.                 *)
(***************************************************************************)
EXTENDS HandlerMigrations, SequenceTheorems, TLAPS

\* Where the object of the call has not been created yet.
EarlyPc == {"idle", "upload", "uploadWait", "imageCopy", "imageCleanup", "createDisk",
            "createShare", "findRoute", "addInterface", "createIp", "createPort",
            "gather", "createBalancer", "find", "create"}

\* The types of the calls.
Statuses == {"none", "in-progress", "failed", "migrated"}
Pcs == Points \cup {"idle", "done"}
Ats == Failures \cup {"killed"}
JobType == [res: Resource \cup {NoResource}, pc: Pcs, raising: BOOLEAN]
Troubles == [call: Object, at: Ats]

CallTyped ==
    /\ wanted \in Requests
    /\ status \in [Resource -> Statuses]
    /\ destination \in [Resource -> Object \cup {NoDest}]
    /\ calls \in Nat
    /\ job \in JobType
    /\ dest \subseteq Object
    /\ trouble \subseteq Troubles

LEMMA CallTypes == CallTyped <=> CallTypeOK(Points, Failures)
  BY DEF CallTyped, CallTypeOK, Statuses, Pcs, Ats, JobType, Troubles

\* Where an exception may be on its way out of the handler.
RaisingPc == {"dropSource", "dropDest", "leaving", "done"}

\* The call at work is for a resource of the handler's kind.
KindOK ==
    /\ job.pc \in VolumePc => job.res \in Volumes \cup Instances
    /\ job.pc \in SharePc => job.res \in Shares
    /\ job.pc \in IpPc => job.res \in FloatingIps
    /\ job.pc \in PortPc => job.res \in Ports
    /\ job.pc \in BalancerPc => job.res \in LoadBalancers
    /\ job.pc \in NamedPc => job.res \in Named

\* The call at work has its record in progress; once its object is created it
\* stays, and an exception comes from a request of this call.
JobOK ==
    /\ KindOK
    /\ ~Idle => job.res \in Resource /\ status[job.res] = "in-progress" /\ calls > 0
    /\ job.pc \notin EarlyPc /\ ~job.raising => This \in dest
    /\ job.raising => job.pc \in RaisingPc /\ \E t \in trouble : t.call = This

\* What holds of every call, whatever its handler.
CallInv ==
    /\ CallTyped
    /\ JobOK
    /\ \A r \in Resource : status[r] = "migrated" =>
          destination[r] \in dest /\ destination[r].of = r
    /\ \A o \in dest : o.by <= calls

-----------------------------------------------------------------------------
(* Steps of a call, by what they do to the variables all handlers share.   *)

\* The call goes on.
Moves ==
    /\ ~Idle
    /\ job' \in JobType
    /\ job'.res = job.res
    /\ UNCHANGED <<wanted, status, destination, calls>>

Raised(at) == trouble' = trouble \cup {[call |-> This, at |-> at]}

LEMMA GotoMoves ==
    ASSUME NEW pc \in Pcs, CallTyped, ~Idle, Goto(pc)
    PROVE  /\ Moves
           /\ job'.pc = pc
           /\ job'.raising = job.raising
           /\ trouble' = trouble
<1>1. job' = [job EXCEPT !.pc = pc]
  BY DEF Goto
<1>2. job \in JobType
  BY DEF CallTyped
<1>3. QED
  BY <1>1, <1>2, Zenon DEF JobType, Goto, Moves

LEMMA RaiseMoves ==
    ASSUME NEW pc \in Pcs, NEW at, CallTyped, ~Idle, RaiseTo(pc, at)
    PROVE  /\ Moves
           /\ job'.pc = pc
           /\ job'.raising
           /\ Raised(at)
<1>1. job' = [job EXCEPT !.pc = pc, !.raising = TRUE]
  BY DEF RaiseTo
<1>2. job \in JobType
  BY DEF CallTyped
<1>3. job' \in JobType
  BY <1>1, <1>2, Zenon DEF JobType
<1>4. job'.pc = pc /\ job'.res = job.res /\ job'.raising = TRUE
  BY <1>1, <1>2, Zenon DEF JobType
<1>5. QED
  BY <1>3, <1>4, Zenon DEF RaiseTo, Moves, Raised

LEMMA LogMoves ==
    ASSUME NEW pc \in Pcs, NEW at, CallTyped, ~Idle, LogTo(pc, at)
    PROVE  /\ Moves
           /\ job'.pc = pc
           /\ job'.raising = job.raising
           /\ Raised(at)
<1>1. job' = [job EXCEPT !.pc = pc]
  BY DEF LogTo
<1>2. job \in JobType
  BY DEF CallTyped
<1>3. QED
  BY <1>1, <1>2, Zenon DEF JobType, LogTo, Moves, Raised

\* The only object a step may create is the one of the call.
Grows ==
    /\ dest \subseteq dest'
    /\ dest' \subseteq dest \cup {This}
    /\ trouble \subseteq trouble'
    /\ trouble' \subseteq Troubles

\* A call for one of these resources starts at one of these points.
Opens(kind, pcs) ==
    \E r \in kind : \E pc \in pcs \cap EarlyPc : Begin(r, pc)

\* The handler at work at these points makes a request.
Works(pcs) ==
    /\ Moves
    /\ Grows
    /\ job.pc \in pcs
    /\ job'.pc \in pcs \cup {"done"}
    /\ job'.pc \notin EarlyPc /\ ~job'.raising => This \in dest'
    /\ job'.raising => job'.pc \in RaisingPc /\ \E t \in trouble' : t.call = This

\* The call ends there with a failure.
Fails(pcs) ==
    /\ FailRecord
    /\ Grows
    /\ job.pc \in pcs
    /\ \E t \in trouble' : t.call = This

Handles(kind, pcs) == Opens(kind, pcs) \/ Works(pcs) \/ Fails(pcs)

\* The object of a call is one that the call may create.
LEMMA ThisIsObject ==
    ASSUME CallInv, ~Idle
    PROVE  This \in Object /\ This.of = job.res /\ This.by = calls
  BY DEF CallInv, CallTyped, JobType, JobOK, This, Object

\* It stays the same for the whole call.
LEMMA SameThis ==
    ASSUME Moves
    PROVE  This' = This
  BY DEF Moves, This

\* A failure is put down to the call.
LEMMA RaisedHere ==
    ASSUME NEW at \in Ats, CallInv, ~Idle, Raised(at)
    PROVE  /\ \E t \in trouble' : t.call = This
           /\ trouble \subseteq trouble'
           /\ trouble' \subseteq Troubles
<1> DEFINE t == [call |-> This, at |-> at]
<1>1. t.call = This
  OBVIOUS
<1>2. t \in Troubles
  BY ThisIsObject DEF Troubles
<1>3. trouble \subseteq Troubles
  BY DEF CallInv, CallTyped
<1>4. trouble' = trouble \cup {t}
  BY DEF Raised
<1> HIDE DEF t
<1>5. QED
  BY <1>1, <1>2, <1>3, <1>4

\* A request that succeeds.
LEMMA GotoWorks ==
    ASSUME NEW pcs, NEW pc \in Pcs, CallInv, Goto(pc), job.raising => pc \in RaisingPc,
           pcs \subseteq Pcs, job.pc \in pcs, pc \in pcs \cup {"done"}, ~Idle,
           \/ dest' = dest /\ (job.pc \in EarlyPc => pc \in EarlyPc)
           \/ dest' = dest \cup {This}
    PROVE  Works(pcs) /\ job'.pc = pc /\ job'.raising = job.raising
<1>1. Moves /\ job'.pc = pc /\ job'.raising = job.raising /\ trouble' = trouble
  BY GotoMoves DEF CallInv
<1>2. job.pc \notin EarlyPc /\ ~job.raising => This \in dest
  BY DEF CallInv, JobOK
<1>3. job.raising => \E t \in trouble' : t.call = This
  BY <1>1 DEF CallInv, JobOK
<1>4. QED
  BY <1>1, <1>2, <1>3 DEF Works, Grows, CallInv, CallTyped

\* One that fails, the exception going to pc.
LEMMA RaiseWorks ==
    ASSUME NEW pcs, NEW pc \in Pcs, NEW at \in Ats, CallInv, RaiseTo(pc, at),
           pcs \subseteq Pcs, job.pc \in pcs, pc \in pcs \cup {"done"}, ~Idle,
           pc \in RaisingPc, dest' \in PerhapsAdded(dest, {This})
    PROVE  Works(pcs) /\ job'.pc = pc /\ job'.raising /\ Raised(at)
<1>1. Moves /\ job'.pc = pc /\ job'.raising /\ Raised(at)
  BY RaiseMoves DEF CallInv
<1>2. Grows /\ \E t \in trouble' : t.call = This
  BY <1>1, RaisedHere DEF Grows, PerhapsAdded
<1>3. QED
  BY <1>1, <1>2 DEF Works

\* One that fails, and the failure is only logged.
LEMMA LogWorks ==
    ASSUME NEW pcs, NEW pc \in Pcs, NEW at \in Ats, CallInv, LogTo(pc, at),
           ~job.raising, pcs \subseteq Pcs, job.pc \in pcs, pc \in pcs \cup {"done"},
           ~Idle, job.pc \notin EarlyPc, dest' = dest
    PROVE  Works(pcs) /\ job'.pc = pc /\ job'.raising = job.raising /\ Raised(at)
<1>1. Moves /\ job'.pc = pc /\ job'.raising = job.raising /\ Raised(at)
  BY LogMoves DEF CallInv
<1>2. Grows /\ \E t \in trouble' : t.call = This
  BY <1>1, RaisedHere DEF Grows
<1>3. This \in dest
  BY DEF CallInv, JobOK
<1>4. QED
  BY <1>1, <1>2, <1>3 DEF Works

\* One that ends the call.
LEMMA FailFails ==
    ASSUME NEW pcs, NEW at \in Ats, CallInv, FailCall(at),
           job.pc \in pcs, ~Idle, dest' \in PerhapsAdded(dest, {This})
    PROVE  Fails(pcs) /\ Raised(at)
<1>1. FailRecord /\ Raised(at)
  BY DEF FailCall, Raised
<1>2. Grows /\ \E t \in trouble' : t.call = This
  BY <1>1, RaisedHere DEF Grows, PerhapsAdded
<1>3. QED
  BY <1>1, <1>2 DEF Fails

\* What a call that has started looks like.
LEMMA BegunJob ==
    ASSUME NEW r, NEW pc, Begin(r, pc)
    PROVE  /\ job'.res = r
           /\ job'.pc = pc
           /\ ~job'.raising
           /\ This' = [of |-> r, by |-> calls + 1]
<1>1. job' = [res |-> r, pc |-> pc, raising |-> FALSE] /\ calls' = calls + 1
  BY DEF Begin
<1>2. QED
  BY <1>1 DEF This

LEMMA NoJobIsIdle ==
    ASSUME job' = NoJob
    PROVE  job'.pc = "idle" /\ ~job'.raising /\ job'.res = NoResource /\ Idle'
  BY DEF NoJob, Idle

LEMMA NoJobIsTyped ==
    NoJob \in JobType
<1>1. NoResource \in Resource \cup {NoResource} /\ "idle" \in Pcs
  BY DEF Pcs
<1>2. QED
  BY <1>1, Zenon DEF NoJob, JobType

-----------------------------------------------------------------------------
(* The invariant of the calls.                                             *)

\* The handlers, and where they are at work.
Handler(kind, pcs) ==
    \/ kind = Volumes \cup Instances /\ pcs = VolumePc
    \/ kind = Shares /\ pcs = SharePc
    \/ kind = FloatingIps /\ pcs = IpPc
    \/ kind = Ports /\ pcs = PortPc
    \/ kind = LoadBalancers /\ pcs = BalancerPc
    \/ kind = Named /\ pcs = NamedPc

LEMMA HandlerFacts ==
    ASSUME NEW kind, NEW pcs, Handler(kind, pcs)
    PROVE  kind \subseteq Resource /\ pcs \subseteq Pcs /\ "idle" \notin pcs
<1>1. kind \subseteq Resource
  BY VolumeAssumption, ShareAssumption, EndpointAssumption, LoadBalancerAssumption,
     NamedAssumption DEF Handler
<1>2. pcs \subseteq Pcs
  BY DEF Handler, Pcs, Points
<1>3. "idle" \notin pcs
  BY DEF Handler, VolumePc, SharePc, IpPc, PortPc, BalancerPc, NamedPc
<1>4. QED
  BY <1>1, <1>2, <1>3

LEMMA KindOfJob ==
    ASSUME NEW kind, NEW pcs, Handler(kind, pcs), KindOK, job.pc \in pcs
    PROVE  job.res \in kind
  BY DEF Handler, KindOK

LEMMA KindStays ==
    ASSUME NEW kind, NEW pcs, Handler(kind, pcs), KindOK, job.pc \in pcs,
           job'.res = job.res, job'.pc \in pcs \cup {"done"}
    PROVE  KindOK'
  BY DEF Handler, KindOK, VolumePc, SharePc, IpPc, PortPc, BalancerPc, NamedPc

LEMMA KindOpens ==
    ASSUME NEW kind, NEW pcs, Handler(kind, pcs), job'.pc \in pcs, job'.res \in kind
    PROVE  KindOK'
  BY DEF Handler, KindOK, VolumePc, SharePc, IpPc, PortPc, BalancerPc, NamedPc

LEMMA KindIdle ==
    ASSUME job'.pc = "idle"
    PROVE  KindOK'
  BY DEF KindOK, VolumePc, SharePc, IpPc, PortPc, BalancerPc, NamedPc

LEMMA OpensKeepsCallInv ==
    ASSUME NEW kind, NEW pcs, Handler(kind, pcs), CallInv, Opens(kind, pcs)
    PROVE  CallInv'
<1>1. PICK r \in kind : \E pc \in pcs \cap EarlyPc : Begin(r, pc)
  BY DEF Opens
<1>2. PICK pc \in pcs \cap EarlyPc : Begin(r, pc)
  BY <1>1
<1>3. r \in Resource /\ pc \in Pcs /\ pc # "idle"
  BY HandlerFacts
<1>4. /\ job'.res = r
      /\ job'.pc = pc
      /\ ~job'.raising
      /\ This' = [of |-> r, by |-> calls + 1]
  BY <1>2, BegunJob
<1>5. job' \in JobType
  BY <1>2, <1>3, Zenon DEF Begin, JobType
<1>6. /\ status' = [status EXCEPT ![r] = "in-progress"]
      /\ destination' = [destination EXCEPT ![r] = NoDest]
      /\ calls' = calls + 1
      /\ UNCHANGED <<wanted, dest, trouble>>
  BY <1>2 DEF Begin
<1>7. CallTyped'
  <2>1. status' \in [Resource -> Statuses]
    BY <1>3, <1>6 DEF CallInv, CallTyped, Statuses
  <2>2. destination' \in [Resource -> Object \cup {NoDest}] /\ calls' \in Nat
    BY <1>3, <1>6 DEF CallInv, CallTyped
  <2>3. QED
    BY <1>5, <1>6, <2>1, <2>2 DEF CallInv, CallTyped
<1>8. JobOK'
  <2>1. KindOK'
    BY <1>4, KindOpens
  <2>2. status'[r] = "in-progress" /\ calls' > 0
    BY <1>3, <1>6 DEF CallInv, CallTyped
  <2>3. QED
    BY <1>3, <1>4, <2>1, <2>2 DEF JobOK, Idle
<1>9. \A q \in Resource : status'[q] = "migrated" =>
          destination'[q] \in dest' /\ destination'[q].of = q
  BY <1>3, <1>6 DEF CallInv, CallTyped
<1>10. \A o \in dest' : o.by <= calls'
  BY <1>6 DEF CallInv, CallTyped, Object
<1>11. QED
  BY <1>7, <1>8, <1>9, <1>10 DEF CallInv

LEMMA WorksKeepsCallInv ==
    ASSUME NEW kind, NEW pcs, Handler(kind, pcs), CallInv, Works(pcs)
    PROVE  CallInv'
<1>1. Moves /\ Grows /\ ~Idle
  BY DEF Works, Moves
<1>2. This' = This /\ This \in Object /\ This.by = calls
  BY <1>1, SameThis, ThisIsObject
<1>3. CallTyped'
  BY <1>1, <1>2 DEF CallInv, CallTyped, Moves, Grows
<1>4. KindOK'
  BY KindStays DEF CallInv, JobOK, Works, Moves
<1>5. job'.pc \in pcs \cup {"done"} /\ ~Idle'
  BY HandlerFacts DEF Works, Idle
<1>6. JobOK'
  BY <1>1, <1>2, <1>4 DEF CallInv, JobOK, Works, Moves
<1>7. \A o \in dest' : o.by <= calls'
  BY <1>1, <1>2 DEF CallInv, CallTyped, Moves, Grows
<1>8. QED
  BY <1>1, <1>3, <1>6, <1>7 DEF CallInv, Moves, Grows

LEMMA FailsKeepsCallInv ==
    ASSUME NEW kind, NEW pcs, Handler(kind, pcs), CallInv, Fails(pcs)
    PROVE  CallInv'
<1>1. ~Idle
  BY HandlerFacts DEF Fails, Idle
<1>2. This \in Object /\ This.by = calls /\ job.res \in Resource
  BY <1>1, ThisIsObject DEF CallInv, JobOK
<1>3. /\ status' = [status EXCEPT ![job.res] = "failed"]
      /\ job' = NoJob
      /\ UNCHANGED <<wanted, destination, calls>>
      /\ Grows
  BY DEF Fails, FailRecord
<1>4. job'.pc = "idle" /\ ~job'.raising /\ job'.res = NoResource /\ Idle'
  BY <1>3, NoJobIsIdle
<1>5. job' \in JobType
  BY <1>3, NoJobIsTyped
<1>6. CallTyped'
  <2>1. status \in [Resource -> Statuses] /\ "failed" \in Statuses
    BY DEF CallInv, CallTyped, Statuses
  <2>2. status' \in [Resource -> Statuses]
    BY <1>2, <1>3, <2>1
  <2>3. QED
    BY <1>2, <1>3, <1>5, <2>2 DEF CallInv, CallTyped, Grows
<1>7. JobOK'
  BY <1>4, KindIdle DEF JobOK, EarlyPc
<1>8. \A q \in Resource : status'[q] = "migrated" =>
          destination'[q] \in dest' /\ destination'[q].of = q
  BY <1>2, <1>3 DEF CallInv, CallTyped, Grows
<1>9. \A o \in dest' : o.by <= calls'
  BY <1>2, <1>3 DEF CallInv, CallTyped, Grows
<1>10. QED
  BY <1>6, <1>7, <1>8, <1>9 DEF CallInv

\* A call that returns an object that stands for the resource.
LEMMA ReturnKeepsCallInv ==
    ASSUME CallInv, ~Idle, NEW o \in dest, o.of = job.res, ReturnDestination(o)
    PROVE  CallInv'
<1>1. job.res \in Resource
  BY DEF CallInv, JobOK
<1>2. /\ status' = [status EXCEPT ![job.res] = "migrated"]
      /\ destination' = [destination EXCEPT ![job.res] = o]
      /\ job' = NoJob
      /\ UNCHANGED <<wanted, calls, dest, trouble>>
  BY DEF ReturnDestination
<1>3. job'.pc = "idle" /\ ~job'.raising /\ job'.res = NoResource /\ Idle'
  BY <1>2, NoJobIsIdle
<1>4. job' \in JobType
  BY <1>2, NoJobIsTyped
<1>5. CallTyped'
  <2>1. status \in [Resource -> Statuses] /\ "migrated" \in Statuses
    BY DEF CallInv, CallTyped, Statuses
  <2>2. status' \in [Resource -> Statuses]
    BY <1>1, <1>2, <2>1
  <2>3. destination' \in [Resource -> Object \cup {NoDest}]
    BY <1>1, <1>2 DEF CallInv, CallTyped
  <2>4. QED
    BY <1>2, <1>4, <2>2, <2>3 DEF CallInv, CallTyped
<1>6. JobOK'
  BY <1>3, KindIdle DEF JobOK, EarlyPc
<1>7. \A q \in Resource : status'[q] = "migrated" =>
          destination'[q] \in dest' /\ destination'[q].of = q
  BY <1>1, <1>2 DEF CallInv, CallTyped
<1>8. QED
  BY <1>2, <1>5, <1>6, <1>7 DEF CallInv

LEMMA EndKeepsCallInv ==
    ASSUME CallInv, CallEnds
    PROVE  CallInv'
<1>1. CASE CallReturns
  <2>1. ~Idle /\ This \in dest /\ This.of = job.res
    BY <1>1, ThisIsObject DEF CallReturns, Running, Idle, CallInv, JobOK, EarlyPc
  <2>2. QED
    BY <1>1, <2>1, ReturnKeepsCallInv DEF CallReturns
<1>2. CASE CallFails \/ CrashCall
  <2>1. ~Idle /\ job.res \in Resource
    BY <1>2 DEF CallFails, CrashCall, Finally, Idle, CallInv, JobOK
  <2>2. This \in Object
    BY <2>1, ThisIsObject
  <2>3. /\ job' = NoJob
        /\ UNCHANGED <<wanted, destination, calls, dest>>
        /\ status' \in {status, [status EXCEPT ![job.res] = "failed"]}
    BY <1>2 DEF CallFails, CrashCall, FailRecord
  <2>4. trouble' \subseteq Troubles
    <3>1. trouble' = trouble \/ Raised("killed")
      BY <1>2 DEF CallFails, CrashCall, Raised
    <3>2. Raised("killed") => trouble' \subseteq Troubles
      <4>1. "killed" \in Ats
        BY DEF Ats
      <4>2. QED
        BY <2>1, <4>1, RaisedHere
    <3>3. QED
      BY <3>1, <3>2 DEF CallInv, CallTyped
  <2>5. job'.pc = "idle" /\ ~job'.raising /\ job'.res = NoResource /\ Idle'
    BY <2>3, NoJobIsIdle
  <2>6. job' \in JobType
    BY <2>3, NoJobIsTyped
  <2>7. status' \in [Resource -> Statuses]
    <3>1. status \in [Resource -> Statuses] /\ "failed" \in Statuses
      BY DEF CallInv, CallTyped, Statuses
    <3>2. QED
      BY <2>1, <2>3, <3>1
  <2>8. CallTyped'
    BY <2>3, <2>4, <2>6, <2>7 DEF CallInv, CallTyped
  <2>9. JobOK'
    BY <2>5, KindIdle DEF JobOK, EarlyPc
  <2>10. \A q \in Resource : status'[q] = "migrated" =>
            destination'[q] \in dest' /\ destination'[q].of = q
    BY <2>1, <2>3 DEF CallInv, CallTyped
  <2>11. QED
    BY <2>3, <2>8, <2>9, <2>10 DEF CallInv
<1>3. QED
  BY <1>1, <1>2 DEF CallEnds

-----------------------------------------------------------------------------
(* A step of one handler, as the others see it.                            *)

Elsewhere(kind, pcs) ==
    /\ job.pc \notin pcs
    /\ job'.pc \notin pcs
    /\ ~Idle => job.res \notin kind
    /\ ~Idle' => job'.res \notin kind
    /\ dest \subseteq dest'
    /\ \A o \in dest' : o \in dest \/ o.of \notin kind
    /\ trouble \subseteq trouble'
    /\ calls <= calls'
    /\ \A r \in kind : status'[r] = status[r] /\ destination'[r] = destination[r]

\* Handlers of different kinds do not share a resource.
LEMMA KindsApart ==
    ASSUME NEW kind, NEW pcs, Handler(kind, pcs),
           NEW other, NEW others, Handler(other, others), pcs # others
    PROVE  kind \cap other = {} /\ pcs \cap others = {} /\ "done" \notin pcs
<1>1. DOMAIN Kinds = 1..6
  BY DEF Kinds
<1>2. \A i, j \in 1..6 : i # j => Kinds[i] \cap Kinds[j] = {}
  BY <1>1, OneKindAssumption
<1>3. /\ Kinds[1] = Volumes \cup Instances
      /\ Kinds[2] = Shares
      /\ Kinds[3] = FloatingIps
      /\ Kinds[4] = Ports
      /\ Kinds[5] = LoadBalancers
      /\ Kinds[6] = Named
  BY DEF Kinds
<1>4. kind \cap other = {}
  BY <1>2, <1>3 DEF Handler
<1>5. pcs \cap others = {} /\ "done" \notin pcs
  BY DEF Handler, VolumePc, SharePc, IpPc, PortPc, BalancerPc, NamedPc
<1>6. QED
  BY <1>4, <1>5

LEMMA HandlesElsewhere ==
    ASSUME NEW kind, NEW pcs, Handler(kind, pcs),
           NEW other, NEW others, Handler(other, others), pcs # others,
           CallInv, Handles(other, others)
    PROVE  Elsewhere(kind, pcs)
<1>0. /\ kind \cap other = {} /\ pcs \cap others = {} /\ "done" \notin pcs
      /\ "idle" \notin pcs /\ "idle" \notin others
      /\ kind \subseteq Resource /\ other \subseteq Resource
  BY KindsApart, HandlerFacts
<1>1. CASE Opens(other, others)
  <2>1. PICK r \in other : \E pc \in others \cap EarlyPc : Begin(r, pc)
    BY <1>1 DEF Opens
  <2>2. PICK pc \in others \cap EarlyPc : Begin(r, pc)
    BY <2>1
  <2>3. job'.res = r /\ job'.pc = pc
    BY <2>2, BegunJob
  <2>4. /\ status' = [status EXCEPT ![r] = "in-progress"]
        /\ destination' = [destination EXCEPT ![r] = NoDest]
        /\ calls' = calls + 1
        /\ Idle
        /\ UNCHANGED <<wanted, dest, trouble>>
    BY <2>2 DEF Begin
  <2>5. QED
    BY <1>0, <2>3, <2>4 DEF Elsewhere, Idle, CallInv, CallTyped
<1>2. CASE Works(others) \/ Fails(others)
  <2>1. job.res \in other
    BY <1>2, KindOfJob DEF Works, Fails, CallInv, JobOK
  <2>2. job.pc \in others /\ Grows
    BY <1>2 DEF Works, Fails
  <2>3. This.of = job.res
    BY DEF This
  <2>4. ~Idle' => job'.res = job.res
    BY <1>2, NoJobIsIdle DEF Works, Moves, Fails, FailRecord
  <2>5. job'.pc \in others \cup {"done", "idle"}
    BY <1>2, NoJobIsIdle DEF Works, Fails, FailRecord
  <2>6. \A r \in kind : status'[r] = status[r] /\ destination'[r] = destination[r]
    BY <1>0, <1>2, <2>1 DEF Works, Moves, Fails, FailRecord, CallInv, CallTyped
  <2>7. calls' = calls
    BY <1>2 DEF Works, Moves, Fails, FailRecord
  <2>8. calls \in Nat
    BY DEF CallInv, CallTyped
  <2>9. QED
    BY <1>0, <2>1, <2>2, <2>3, <2>4, <2>5, <2>6, <2>7, <2>8 DEF Elsewhere, Grows
<1>3. QED
  BY <1>1, <1>2 DEF Handles

-----------------------------------------------------------------------------
(* Volumes and instances.                                                  *)

SourceImagePc == {"uploadWait", "imageCopy", "imageCleanup", "createDisk", "provision",
                  "label", "dropSource"}
DestImagePc == {"imageCleanup", "createDisk", "provision", "label", "dropSource", "dropDest"}

SourceLost(i) == ~Untroubled(i, {"upload", "dropSource", "killed"})
DestLost(i) ==
    ~Untroubled(i, {"imageCopy", "imageCleanup", "dropSource", "dropDest", "killed"})

\* Each image is that of the call at work, which has still to come to the step
\* that deletes it, or it is lost.
ImageInv ==
    /\ \A i \in sourceImages :
          (job.pc \in SourceImagePc /\ job.res \in Imaged /\ i = This) \/ SourceLost(i)
    /\ \A i \in destImages :
          \/ job.pc \in DestImagePc /\ job.res \in Imaged /\ i = This
                /\ (imageKnown \/ job.pc = "imageCleanup")
          \/ DestLost(i)

\* How far the call has come.
DiskInv ==
    /\ job.pc \in {"upload", "uploadWait", "imageCopy", "imageCleanup"} =>
          ~imageKnown /\ job.res \in Imaged
    /\ job.pc \in {"dropSource", "dropDest"} => job.res \in Imaged
    /\ job.pc = "imageCleanup" => This \in destImages
    /\ job.pc \in {"createDisk", "provision", "label", "dropSource"} /\ ~job.raising
          /\ job.res \in Imaged => This \notin sourceImages
    /\ job.pc = "label" => This \in built
    /\ job.pc \in {"dropSource", "dropDest"} /\ imageKnown =>
          This \in built \/ Troubled(This, "createDisk") \/ Troubled(This, "provision")
    /\ job.pc \in {"dropSource", "dropDest", "done"} /\ ~job.raising
          /\ job.res \in Volumes \cup Instances => VolumeWhole(This)

VolumeInv == VolumeTypeOK /\ ImageInv /\ DiskInv

LEMMA TroubleStays ==
    ASSUME NEW o, NEW at, trouble \subseteq trouble', Troubled(o, at)
    PROVE  Troubled(o, at)'
  BY DEF Troubled

LEMMA LossStays ==
    ASSUME NEW i, trouble \subseteq trouble'
    PROVE  /\ SourceLost(i) => SourceLost(i)'
           /\ DestLost(i) => DestLost(i)'
  BY DEF SourceLost, DestLost, Untroubled, Troubled

\* An image that a request has failed to create or to delete may be lost.
LEMMA LossHere ==
    ASSUME NEW i, i = This, NEW at, Raised(at)
    PROVE  /\ Troubled(i, at)'
           /\ at \in {"upload", "dropSource", "killed"} => SourceLost(i)'
           /\ at \in {"imageCopy", "imageCleanup", "dropSource", "dropDest", "killed"} =>
                 DestLost(i)'
<1>1. Troubled(i, at)'
  BY DEF Troubled, Raised
<1>2. QED
  BY <1>1 DEF SourceLost, DestLost, Untroubled

LEMMA VolumeConstants ==
    /\ Handler(Volumes \cup Instances, VolumePc)
    /\ Imaged \subseteq Volumes \cup Instances
    /\ Labelled \subseteq Imaged
    /\ VolumePc \subseteq Pcs
  BY VolumeAssumption DEF Handler, Pcs, Points

LEMMA BeginVolumeStep ==
    ASSUME CallInv, VolumeInv, BeginVolume
    PROVE  Handles(Volumes \cup Instances, VolumePc) /\ VolumeInv'
<1>1. PICK r \in Volumes \cup Instances :
          Begin(r, IF r \in Imaged THEN "upload" ELSE "createDisk")
  BY DEF BeginVolume
<1> DEFINE pc == IF r \in Imaged THEN "upload" ELSE "createDisk"
<1>2. Begin(r, pc)
  BY <1>1
<1>3. pc \in VolumePc \cap EarlyPc
  BY DEF VolumePc, EarlyPc
<1>4. job'.res = r /\ job'.pc = pc /\ ~job'.raising
  BY <1>2, BegunJob
<1>5. job.pc = "idle" /\ dest' = dest /\ trouble' = trouble
  BY <1>2 DEF Begin, Idle
<1>6. imageKnown' = FALSE /\ UNCHANGED <<sourceImages, destImages, built, labelled>>
  BY DEF BeginVolume, images
<1>7. VolumeTypeOK'
  BY <1>5, <1>6 DEF VolumeInv, VolumeTypeOK
<1>8. \A i : (SourceLost(i) => SourceLost(i)') /\ (DestLost(i) => DestLost(i)')
  BY <1>5, LossStays
<1>9. ImageInv'
  BY <1>5, <1>6, <1>8 DEF VolumeInv, ImageInv, SourceImagePc, DestImagePc
<1>10. DiskInv'
  BY <1>4, <1>6 DEF DiskInv
<1>11. QED
  BY <1>2, <1>3, <1>7, <1>9, <1>10 DEF Handles, Opens, VolumeInv

\* What a step of the call leaves as it is.
LEMMA VolumeGoes ==
    ASSUME Works(VolumePc)
    PROVE  /\ This' = This
           /\ job'.res = job.res
           /\ dest \subseteq dest'
           /\ \A i : (SourceLost(i) => SourceLost(i)') /\ (DestLost(i) => DestLost(i)')
           /\ \A at : Troubled(This, at) => Troubled(This, at)'
<1>1. Moves /\ Grows
  BY DEF Works
<1>2. This' = This
  BY <1>1, SameThis
<1>3. \A i : (SourceLost(i) => SourceLost(i)') /\ (DestLost(i) => DestLost(i)')
  BY <1>1, LossStays DEF Grows
<1>4. \A at : Troubled(This, at) => Troubled(This, at)'
  BY <1>1, <1>2 DEF Troubled, Grows
<1>5. QED
  BY <1>1, <1>2, <1>3, <1>4 DEF Moves, Grows

\* What a failure of the call at work accounts for.
Lost(at) ==
    \A i : i = This =>
        /\ Troubled(i, at)'
        /\ at \in {"upload", "dropSource", "killed"} => SourceLost(i)'
        /\ at \in {"imageCopy", "imageCleanup", "dropSource", "dropDest", "killed"} =>
              DestLost(i)'

LEMMA LostHere ==
    ASSUME NEW at \in Ats, Raised(at)
    PROVE  Lost(at)
  BY LossHere DEF Lost

\* A request that is carried out.
LEMMA VolumeWorks ==
    ASSUME CallInv, VolumeInv,
           \/ UploadImage \/ UploadCompletes \/ CopyImage \/ CleanUpImage
           \/ CreateDisk \/ DiskProvisioned \/ SetImageMetadata
           \/ DropSourceImage \/ DropDestImage
    PROVE  Works(VolumePc) /\ VolumeInv'
<1>1. VolumePc \subseteq Pcs /\ Labelled \subseteq Imaged
  BY VolumeConstants
<1>. USE DEF VolumePc, Running, Finally, Idle, EarlyPc, RaisingPc, images, volumeVars,
             FinallyClause
<1>2. CASE UploadImage
  <2>1. Works(VolumePc) /\ job'.pc = "uploadWait" /\ job'.raising = job.raising
    BY <1>1, <1>2, GotoWorks DEF UploadImage, Pcs
  <2>2. This \in Object /\ (job.pc = "provision" /\ ~job.raising => This \in dest)
    BY <1>2, ThisIsObject DEF UploadImage, CallInv, JobOK
  <2>3. VolumeTypeOK'
    BY <1>2, <2>1, <2>2, VolumeGoes DEF UploadImage, VolumeInv, VolumeTypeOK
  <2>4. ImageInv'
    BY <1>1, <1>2, <2>1, VolumeGoes
    DEF UploadImage, VolumeInv, ImageInv, DiskInv, SourceImagePc, DestImagePc
  <2>5. DiskInv'
    BY <1>1, <1>2, <2>1, VolumeGoes DEF UploadImage, VolumeInv, DiskInv, VolumeWhole
  <2>6. QED
    BY <2>1, <2>3, <2>4, <2>5 DEF VolumeInv
<1>3. CASE UploadCompletes
  <2>1. Works(VolumePc) /\ job'.pc = "imageCopy" /\ job'.raising = job.raising
    BY <1>1, <1>3, GotoWorks DEF UploadCompletes, Pcs
  <2>2. QED
    BY <1>1, <1>3, <2>1, VolumeGoes
    DEF UploadCompletes, VolumeInv, VolumeTypeOK, ImageInv, DiskInv, SourceImagePc, DestImagePc,
        VolumeWhole
<1>4. CASE CopyImage
  <2>1. Works(VolumePc) /\ job'.pc = "imageCleanup" /\ job'.raising = job.raising
    BY <1>1, <1>4, GotoWorks DEF CopyImage, Pcs
  <2>2. This \in Object /\ (job.pc = "provision" /\ ~job.raising => This \in dest)
    BY <1>4, ThisIsObject DEF CopyImage, CallInv, JobOK
  <2>3. VolumeTypeOK'
    BY <1>4, <2>1, <2>2, VolumeGoes DEF CopyImage, VolumeInv, VolumeTypeOK
  <2>4. ImageInv'
    BY <1>1, <1>4, <2>1, VolumeGoes
    DEF CopyImage, VolumeInv, ImageInv, DiskInv, SourceImagePc, DestImagePc
  <2>5. DiskInv'
    BY <1>1, <1>4, <2>1, VolumeGoes DEF CopyImage, VolumeInv, DiskInv, VolumeWhole
  <2>6. QED
    BY <2>1, <2>3, <2>4, <2>5 DEF VolumeInv
<1>5. CASE CleanUpImage
  <2>1. Works(VolumePc) /\ job'.pc = "createDisk" /\ job'.raising = job.raising
    BY <1>1, <1>5, GotoWorks DEF CleanUpImage, Pcs
  <2>2. QED
    BY <1>1, <1>5, <2>1, VolumeGoes
    DEF CleanUpImage, VolumeInv, VolumeTypeOK, ImageInv, DiskInv, SourceImagePc, DestImagePc,
        VolumeWhole
<1>6. CASE CreateDisk
  <2>1. Works(VolumePc) /\ job'.pc = "provision" /\ job'.raising = job.raising
    BY <1>1, <1>6, GotoWorks DEF CreateDisk, Pcs
  <2>2. QED
    BY <1>1, <1>6, <2>1, VolumeGoes
    DEF CreateDisk, VolumeInv, VolumeTypeOK, ImageInv, DiskInv, SourceImagePc, DestImagePc,
        VolumeWhole
<1>7. CASE DiskProvisioned
  <2>1. Works(VolumePc) /\ job'.pc = (IF job.res \in Labelled THEN "label" ELSE FinallyClause) /\ job'.raising = job.raising
    BY <1>1, <1>7, GotoWorks DEF DiskProvisioned, Pcs
  <2>2. This \in Object /\ (job.pc = "provision" /\ ~job.raising => This \in dest)
    BY <1>7, ThisIsObject DEF DiskProvisioned, CallInv, JobOK
  <2>3. VolumeTypeOK'
    BY <1>7, <2>1, <2>2, VolumeGoes DEF DiskProvisioned, VolumeInv, VolumeTypeOK
  <2>4. ImageInv'
    BY <1>1, <1>7, <2>1, VolumeGoes
    DEF DiskProvisioned, VolumeInv, ImageInv, DiskInv, SourceImagePc, DestImagePc
  <2>5. DiskInv'
    <3>1. This.of = job.res
      BY DEF This
    <3>2. QED
      BY <1>1, <1>7, <2>1, <3>1, VolumeGoes DEF DiskProvisioned, VolumeInv, DiskInv, VolumeWhole
  <2>6. QED
    BY <2>1, <2>3, <2>4, <2>5 DEF VolumeInv
<1>8. CASE SetImageMetadata
  <2>1. Works(VolumePc) /\ job'.pc = FinallyClause /\ job'.raising = job.raising
    BY <1>1, <1>8, GotoWorks DEF SetImageMetadata, Pcs
  <2>2. QED
    BY <1>1, <1>8, <2>1, VolumeGoes
    DEF SetImageMetadata, VolumeInv, VolumeTypeOK, ImageInv, DiskInv, SourceImagePc, DestImagePc,
        VolumeWhole
<1>9. CASE DropSourceImage
  <2>1. Works(VolumePc) /\ job'.pc = "dropDest" /\ job'.raising = job.raising
    BY <1>1, <1>9, GotoWorks DEF DropSourceImage, Pcs
  <2>2. QED
    BY <1>1, <1>9, <2>1, VolumeGoes
    DEF DropSourceImage, VolumeInv, VolumeTypeOK, ImageInv, DiskInv, SourceImagePc, DestImagePc,
        VolumeWhole
<1>10. CASE DropDestImage
  <2>1. Works(VolumePc) /\ job'.pc = "done" /\ job'.raising = job.raising
    BY <1>1, <1>10, GotoWorks DEF DropDestImage, Pcs
  <2>2. QED
    BY <1>1, <1>10, <2>1, VolumeGoes
    DEF DropDestImage, VolumeInv, VolumeTypeOK, ImageInv, DiskInv, SourceImagePc, DestImagePc,
        VolumeWhole
<1>11. QED
  BY <1>2, <1>3, <1>4, <1>5, <1>6, <1>7, <1>8, <1>9, <1>10

\* A request whose failure takes the call to the finally clause, or out of it.
LEMMA VolumeRaises ==
    ASSUME CallInv, VolumeInv,
           \/ CopyImageFails \/ CleanUpImageFails \/ CreateDiskFails
           \/ ProvisioningFails \/ SetImageMetadataFails
           \/ DropSourceImageFails \/ DropDestImageFails
    PROVE  Works(VolumePc) /\ VolumeInv'
<1>1. VolumePc \subseteq Pcs /\ Labelled \subseteq Imaged
  BY VolumeConstants
<1>. USE DEF VolumePc, Running, Finally, Idle, EarlyPc, RaisingPc, images, volumeVars,
             FinallyClause, PerhapsAdded, PerhapsRemoved
<1>2. CASE CopyImageFails
  <2>1. Works(VolumePc) /\ job'.pc = "dropSource" /\ job'.raising /\ Raised("imageCopy")
    BY <1>1, <1>2, RaiseWorks DEF CopyImageFails, Pcs, Ats, Failures, Points
  <2>2. Lost("imageCopy")
    BY <2>1, LostHere DEF Ats, Failures, Points
  <2>3. This \in Object
    BY <1>2, ThisIsObject DEF CopyImageFails
  <2>4. VolumeTypeOK'
    BY <1>2, <2>3 DEF CopyImageFails, VolumeInv, VolumeTypeOK
  <2>5. ImageInv'
    BY <1>1, <1>2, <2>1, <2>2, VolumeGoes
    DEF CopyImageFails, VolumeInv, ImageInv, DiskInv, SourceImagePc, DestImagePc, Lost
  <2>6. DiskInv'
    BY <1>2, <2>1, VolumeGoes DEF CopyImageFails, VolumeInv, DiskInv
  <2>7. QED
    BY <2>1, <2>4, <2>5, <2>6 DEF VolumeInv
<1>3. CASE CleanUpImageFails
  <2>1. Works(VolumePc) /\ job'.pc = "dropSource" /\ job'.raising /\ Raised("imageCleanup")
    BY <1>1, <1>3, RaiseWorks DEF CleanUpImageFails, Pcs, Ats, Failures, Points
  <2>2. Lost("imageCleanup")
    BY <2>1, LostHere DEF Ats, Failures, Points
  <2>3. QED
    BY <1>1, <1>3, <2>1, <2>2, VolumeGoes
    DEF CleanUpImageFails, VolumeInv, VolumeTypeOK, ImageInv, DiskInv, SourceImagePc, DestImagePc,
        VolumeWhole, Lost
<1>4. CASE CreateDiskFails
  <2>1. Works(VolumePc) /\ job'.pc = FinallyClause /\ job'.raising /\ Raised("createDisk")
    BY <1>1, <1>4, RaiseWorks DEF CreateDiskFails, Pcs, Ats, Failures, Points
  <2>2. Lost("createDisk")
    BY <2>1, LostHere DEF Ats, Failures, Points
  <2>3. QED
    BY <1>1, <1>4, <2>1, <2>2, VolumeGoes
    DEF CreateDiskFails, VolumeInv, VolumeTypeOK, ImageInv, DiskInv, SourceImagePc, DestImagePc,
        VolumeWhole, Lost
<1>5. CASE ProvisioningFails
  <2>1. Works(VolumePc) /\ job'.pc = FinallyClause /\ job'.raising /\ Raised("provision")
    BY <1>1, <1>5, RaiseWorks DEF ProvisioningFails, Pcs, Ats, Failures, Points
  <2>2. Lost("provision")
    BY <2>1, LostHere DEF Ats, Failures, Points
  <2>3. QED
    BY <1>1, <1>5, <2>1, <2>2, VolumeGoes
    DEF ProvisioningFails, VolumeInv, VolumeTypeOK, ImageInv, DiskInv, SourceImagePc, DestImagePc,
        VolumeWhole, Lost
<1>6. CASE SetImageMetadataFails
  <2>1. Works(VolumePc) /\ job'.pc = FinallyClause /\ job'.raising /\ Raised("label")
    BY <1>1, <1>6, RaiseWorks DEF SetImageMetadataFails, Pcs, Ats, Failures, Points
  <2>2. Lost("label")
    BY <2>1, LostHere DEF Ats, Failures, Points
  <2>3. QED
    BY <1>1, <1>6, <2>1, <2>2, VolumeGoes
    DEF SetImageMetadataFails, VolumeInv, VolumeTypeOK, ImageInv, DiskInv, SourceImagePc, DestImagePc,
        VolumeWhole, Lost
<1>7. CASE DropSourceImageFails
  <2>1. Works(VolumePc) /\ job'.pc = "done" /\ job'.raising /\ Raised("dropSource")
    BY <1>1, <1>7, RaiseWorks DEF DropSourceImageFails, Pcs, Ats, Failures, Points
  <2>2. Lost("dropSource")
    BY <2>1, LostHere DEF Ats, Failures, Points
  <2>3. QED
    BY <1>1, <1>7, <2>1, <2>2, VolumeGoes
    DEF DropSourceImageFails, VolumeInv, VolumeTypeOK, ImageInv, DiskInv, SourceImagePc, DestImagePc,
        VolumeWhole, Lost
<1>8. CASE DropDestImageFails
  <2>1. Works(VolumePc) /\ job'.pc = "done" /\ job'.raising /\ Raised("dropDest")
    BY <1>1, <1>8, RaiseWorks DEF DropDestImageFails, Pcs, Ats, Failures, Points
  <2>2. Lost("dropDest")
    BY <2>1, LostHere DEF Ats, Failures, Points
  <2>3. QED
    BY <1>1, <1>8, <2>1, <2>2, VolumeGoes
    DEF DropDestImageFails, VolumeInv, VolumeTypeOK, ImageInv, DiskInv, SourceImagePc, DestImagePc,
        VolumeWhole, Lost
<1>9. QED
  BY <1>2, <1>3, <1>4, <1>5, <1>6, <1>7, <1>8

\* A failure of the upload ends the call.
LEMMA VolumeFails ==
    ASSUME CallInv, VolumeInv, UploadRefused \/ UploadFails
    PROVE  Fails(VolumePc) /\ VolumeInv'
<1>1. Running("upload") \/ Running("uploadWait")
  BY DEF UploadRefused, UploadFails
<1>2. job.pc \in VolumePc /\ ~Idle
  BY <1>1 DEF VolumePc, Idle, Running
<1>3. FailCall("upload") /\ dest' \in PerhapsAdded(dest, {This})
  BY DEF UploadRefused, UploadFails, PerhapsAdded
<1>4. Fails(VolumePc) /\ Raised("upload")
  <2>1. "upload" \in Ats
    BY DEF Ats, Failures, Points, VolumePc
  <2>2. QED
    BY <1>2, <1>3, <2>1, FailFails
<1>5. Lost("upload")
  BY <1>4, LostHere DEF Ats, Failures, Points, VolumePc
<1>6. job'.pc = "idle" /\ trouble \subseteq trouble' /\ dest \subseteq dest'
  BY <1>4, NoJobIsIdle DEF Fails, Grows, FailRecord
<1>7. /\ sourceImages' \subseteq sourceImages \cup {This}
      /\ UNCHANGED <<destImages, imageKnown, built, labelled>>
  BY DEF UploadRefused, UploadFails, volumeVars, PerhapsAdded
<1>8. VolumeTypeOK'
  BY <1>2, <1>6, <1>7, ThisIsObject DEF VolumeInv, VolumeTypeOK
<1>9. \A i : (SourceLost(i) => SourceLost(i)') /\ (DestLost(i) => DestLost(i)')
  BY <1>6, LossStays
<1>10. ImageInv'
  BY <1>1, <1>5, <1>7, <1>9 DEF VolumeInv, ImageInv, Lost, Running, DestImagePc
<1>11. DiskInv'
  BY <1>6 DEF DiskInv
<1>12. QED
  BY <1>4, <1>8, <1>10, <1>11 DEF VolumeInv

LEMMA VolumeHandles ==
    ASSUME CallInv, VolumeInv, VolumeNext
    PROVE  Handles(Volumes \cup Instances, VolumePc) /\ VolumeInv'
  BY BeginVolumeStep, VolumeWorks, VolumeRaises, VolumeFails DEF VolumeNext, Handles

\* The steps of the others do not matter to volumes and instances.
LEMMA VolumeElsewhere ==
    ASSUME VolumeInv, Elsewhere(Volumes \cup Instances, VolumePc), UNCHANGED volumeVars
    PROVE  VolumeInv'
<1>1. UNCHANGED <<sourceImages, destImages, imageKnown, built, labelled>>
  BY DEF volumeVars
<1>2. VolumeTypeOK'
  BY <1>1 DEF VolumeInv, VolumeTypeOK, Elsewhere
<1>3. \A i : (SourceLost(i) => SourceLost(i)') /\ (DestLost(i) => DestLost(i)')
  BY LossStays DEF Elsewhere
<1>4. ImageInv'
  BY <1>1, <1>3
  DEF VolumeInv, ImageInv, Elsewhere, VolumePc, SourceImagePc, DestImagePc
<1>5. DiskInv'
  BY <1>1 DEF DiskInv, Elsewhere, VolumePc, Idle
<1>6. QED
  BY <1>2, <1>4, <1>5 DEF VolumeInv

\* The end of a call leaves its images behind only if it was killed.
LEMMA VolumeEnds ==
    ASSUME CallInv, VolumeInv, CallEnds, UNCHANGED volumeVars
    PROVE  VolumeInv'
<1>1. UNCHANGED <<sourceImages, destImages, imageKnown, built, labelled>>
  BY DEF volumeVars
<1>2. job'.pc = "idle" /\ trouble \subseteq trouble' /\ dest' = dest
  BY NoJobIsIdle
  DEF CallEnds, CallReturns, CallFails, CrashCall, ReturnDestination, FailRecord
<1>3. VolumeTypeOK'
  BY <1>1, <1>2 DEF VolumeInv, VolumeTypeOK
<1>4. \A i : (SourceLost(i) => SourceLost(i)') /\ (DestLost(i) => DestLost(i)')
  BY <1>2, LossStays
<1>5. job.pc = "done" \/ Lost("killed")
  <2>1. CrashCall => Raised("killed")
    BY DEF CrashCall, Raised
  <2>2. QED
    BY <2>1, LostHere
    DEF Ats, CallEnds, CallReturns, CallFails, Running, Finally
<1>6. ImageInv'
  BY <1>1, <1>4, <1>5 DEF VolumeInv, ImageInv, SourceImagePc, DestImagePc, Lost
<1>7. DiskInv'
  BY <1>2 DEF DiskInv
<1>8. QED
  BY <1>3, <1>6, <1>7 DEF VolumeInv


\* What the invariant says of the images.
LEMMA VolumePromises ==
    ASSUME VolumeInv
    PROVE  NoImageLeft
<1>1. \A i \in sourceImages :
          \/ ~Idle /\ i = This
          \/ ~Untroubled(i, {"upload", "dropSource", "killed"})
  BY DEF VolumeInv, ImageInv, SourceImagePc, SourceLost, Idle
<1>2. \A i \in destImages :
          \/ ~Idle /\ i = This
          \/ ~Untroubled(i, {"imageCopy", "imageCleanup", "dropSource", "dropDest", "killed"})
  BY DEF VolumeInv, ImageInv, DestImagePc, DestLost, Idle
<1>3. QED
  BY <1>1, <1>2 DEF NoImageLeft

LEMMA VolumeBegins ==
    ASSUME job = NoJob, VolumeInit
    PROVE  VolumeInv
<1>1. job.pc = "idle"
  BY DEF NoJob
<1>2. QED
  BY <1>1 DEF VolumeInit, VolumeInv, VolumeTypeOK, ImageInv, DiskInv

\* An image that goes is no longer needed.
ImageUseless ==
    /\ \A i \in sourceImages \ sourceImages' : i \in destImages \/ job.raising
    /\ \A i \in destImages \ destImages' :
          i \in built \/ Troubled(i, "createDisk") \/ Troubled(i, "provision")

LEMMA ImagesGoUseless ==
    ASSUME VolumeInv, VolumeNext
    PROVE  ImageUseless
<1>1. CASE UNCHANGED images
  BY <1>1 DEF images, ImageUseless
<1>2. CASE UploadImage \/ UploadRefused \/ CopyImage \/ CopyImageFails
  BY <1>2 DEF UploadImage, UploadRefused, CopyImage, CopyImageFails, PerhapsAdded,
              ImageUseless
<1>3. CASE CleanUpImage \/ CleanUpImageFails
  <2>1. This \in destImages
    BY <1>3 DEF CleanUpImage, CleanUpImageFails, Running, VolumeInv, DiskInv
  <2>2. sourceImages \ sourceImages' \subseteq {This} /\ destImages' = destImages
    BY <1>3 DEF CleanUpImage, CleanUpImageFails, PerhapsRemoved
  <2>3. QED
    BY <2>1, <2>2 DEF ImageUseless
<1>4. CASE DropSourceImage \/ DropSourceImageFails
  <2>1. job.pc = "dropSource" /\ sourceImages \ sourceImages' \subseteq {This}
        /\ destImages' = destImages
    BY <1>4 DEF DropSourceImage, DropSourceImageFails, PerhapsRemoved, Finally
  <2>2. ~job.raising => This \notin sourceImages
    BY <2>1 DEF VolumeInv, DiskInv
  <2>3. QED
    BY <2>1, <2>2 DEF ImageUseless
<1>5. CASE DropDestImage \/ DropDestImageFails
  <2>1. /\ job.pc = "dropDest" /\ sourceImages' = sourceImages
        /\ destImages \ destImages' \subseteq {This}
        /\ destImages' # destImages => imageKnown
    BY <1>5 DEF DropDestImage, DropDestImageFails, PerhapsRemoved, Finally
  <2>2. imageKnown => This \in built \/ Troubled(This, "createDisk")
                      \/ Troubled(This, "provision")
    BY <2>1 DEF VolumeInv, DiskInv
  <2>3. QED
    BY <2>1, <2>2 DEF ImageUseless
<1>6. QED
  BY <1>1, <1>2, <1>3, <1>4, <1>5
  DEF VolumeNext, BeginVolume, UploadCompletes, UploadFails, CreateDisk, CreateDiskFails,
      DiskProvisioned, ProvisioningFails, SetImageMetadata, SetImageMetadataFails,
      volumeVars, images

\* A disk, once complete, stays so.
LEMMA DisksGrow ==
    ASSUME VolumeNext
    PROVE  /\ built \subseteq built' /\ built' \subseteq built \cup {This}
           /\ labelled \subseteq labelled' /\ labelled' \subseteq labelled \cup {This}
           /\ BeginVolume => built' = built /\ labelled' = labelled
<1>1. CASE DiskProvisioned
  BY <1>1 DEF DiskProvisioned, BeginVolume, Begin, Running, Idle
<1>2. CASE SetImageMetadata \/ SetImageMetadataFails
  BY <1>2 DEF SetImageMetadata, SetImageMetadataFails, PerhapsAdded, BeginVolume, Begin,
              Running, Idle
<1>3. QED
  BY <1>1, <1>2
  DEF VolumeNext, BeginVolume, UploadImage, UploadRefused, UploadCompletes, UploadFails,
      CopyImage, CopyImageFails, CleanUpImage, CleanUpImageFails, CreateDisk,
      CreateDiskFails, ProvisioningFails, DropSourceImage, DropSourceImageFails,
      DropDestImage, DropDestImageFails, volumeVars
-----------------------------------------------------------------------------
(* Shares.                                                                 *)

\* Where contexts may be open.
OpenPc == {"mounting", "copyFiles", "leaving"}

Context == [kind: {"access", "provided", "mount"}, share: Object]

\* A rule on another share, as it was or in error.
CopyOf(a, o) == [a EXCEPT !.share = o]
ErringCopy(a, o) == [a EXCEPT !.share = o, !.active = FALSE]
ErringRule(share) == [NewRule(share, LocalHost) EXCEPT !.active = FALSE]

Source == SourceShare(job.res)
ToKeep(r) == {a \in RulesOf(SourceShare(r)) : a.active /\ a.to \in granted[r]}

UnmountFailed(m) == Troubled([of |-> m[1].of, by |-> m[2]], "unmount")

\* The rule a context has made for the host is the migration's own: no mount
\* depends on it but that of the context inside, and nobody else has asked
\* for it.
Revocable(k) ==
    /\ \A m \in mounted : m[1] = contexts[k].share =>
          (m[2] = calls /\ k < Len(contexts)) \/ UnmountFailed(m)
    /\ k = 1 => LocalHost \notin granted[job.res]
    /\ k = 3 /\ PreserveRules /\ ~Troubled(This, "copyRule") =>
          \A a \in ToKeep(job.res) : a.to # LocalHost

\* The contexts around a mount: access to the source share, its mount, access
\* to the destination share, its mount.
Entered(k) ==
    /\ contexts[k].share = IF k <= 2 THEN Source ELSE This
    /\ contexts[k].kind = "mount" <=> k \in {2, 4}
    /\ contexts[k].kind # "mount" => HasRule(contexts[k].share, LocalHost)
    /\ contexts[k].kind = "access" => Revocable(k)

Depth ==
    /\ job.pc \notin OpenPc => Len(contexts) = 0
    /\ job.pc = "mounting" => Len(contexts) < 4
    /\ job.pc = "copyFiles" => Len(contexts) = 4
    /\ Len(contexts) <= 4

Nesting ==
    job.pc \in SharePc => Depth /\ \A k \in 1..Len(contexts) : Entered(k)

\* A rule is the user's, or the host's for as long as its context is open or
\* because of a failure.
RuleTrouble(a) ==
    \E t \in trouble : t.call.of = a.share.of /\ t.at \in {"addRule", "deleteRule", "killed"}

Accounted(a) ==
    \/ a.to \in granted[a.share.of]
    \/ /\ a.to = LocalHost
       /\ \/ job.pc \in OpenPc /\ \E k \in 1..Len(contexts) : contexts[k] = Access(a.share)
          \/ RuleTrouble(a)

RulesInv == \A a \in rules : a.share.of \in Shares /\ Accounted(a)

\* What has been copied of the rules, and of the files.
CopyInv ==
    /\ job.pc = "copyRules" => uncopied \subseteq RulesOf(Source)
    /\ job.pc \in {"copyRules", "mounting", "copyFiles", "leaving", "done"}
          /\ job.res \in Shares /\ PreserveRules /\ ~Troubled(This, "copyRule") =>
             \A a \in ToKeep(job.res) :
                (job.pc = "copyRules" /\ a \in uncopied) \/ CopyOf(a, This) \in rules
    /\ job.pc \in {"leaving", "done"} /\ ~job.raising /\ job.res \in Shares => This \in filled

\* AccessPreserved, in these terms.
Preserved ==
    \A r \in Shares : status[r] = "migrated" /\ PreserveRules =>
        \A a \in ToKeep(r) :
            CopyOf(a, destination[r]) \in rules \/ Troubled(destination[r], "copyRule")

ShareInv ==
    /\ ShareTypeOK
    /\ Nesting
    /\ AccessWhileMounted
    /\ UserAccessKept
    /\ RulesInv
    /\ CopyInv
    /\ Preserved

LEMMA PreservedIsAccess == Preserved <=> AccessPreserved
<1>1. ASSUME NEW r \in Shares
      PROVE  (\A a \in ToKeep(r) :
                CopyOf(a, destination[r]) \in rules \/ Troubled(destination[r], "copyRule"))
             <=> \A a \in RulesOf(SourceShare(r)) : a.active /\ a.to \in granted[r] =>
                   \/ [a EXCEPT !.share = destination[r]] \in rules
                   \/ Troubled(destination[r], "copyRule")
  BY Zenon DEF ToKeep, CopyOf
<1>2. QED
  BY <1>1, Zenon DEF Preserved, AccessPreserved

LEMMA CopyFacts ==
    ASSUME NEW a \in Rule, NEW o \in Object
    PROVE  /\ CopyOf(a, o) \in Rule
           /\ CopyOf(a, o).share = o /\ CopyOf(a, o).to = a.to
           /\ ErringCopy(a, o) \in Rule
           /\ ErringCopy(a, o).share = o /\ ErringCopy(a, o).to = a.to
<1>1. CopyOf(a, o) \in Rule /\ CopyOf(a, o).share = o /\ CopyOf(a, o).to = a.to
  BY Zenon DEF CopyOf, Rule
<1>2. ErringCopy(a, o) \in Rule /\ ErringCopy(a, o).share = o /\ ErringCopy(a, o).to = a.to
  BY Zenon DEF ErringCopy, Rule
<1>3. QED
  BY <1>1, <1>2

LEMMA NewRuleFacts ==
    ASSUME NEW o \in Object
    PROVE  /\ NewRule(o, LocalHost) \in Rule
           /\ NewRule(o, LocalHost).share = o /\ NewRule(o, LocalHost).to = LocalHost
           /\ ErringRule(o) \in Rule
           /\ ErringRule(o).share = o /\ ErringRule(o).to = LocalHost
<1>1. NewRule(o, LocalHost) \in Rule
  BY ShareAssumption, Zenon DEF NewRule, Rule
<1>2. NewRule(o, LocalHost).share = o /\ NewRule(o, LocalHost).to = LocalHost
  BY Zenon DEF NewRule
<1>3. /\ ErringRule(o) \in Rule
      /\ ErringRule(o).share = NewRule(o, LocalHost).share
      /\ ErringRule(o).to = NewRule(o, LocalHost).to
  BY <1>1, Zenon DEF ErringRule, Rule
<1>4. QED
  BY <1>1, <1>2, <1>3

\* Entering and leaving a context.
LEMMA Pushing ==
    ASSUME NEW c \in Context, contexts \in Seq(Context), contexts' = Append(contexts, c)
    PROVE  /\ contexts' \in Seq(Context)
           /\ Len(contexts) \in Nat
           /\ Len(contexts') = Len(contexts) + 1
           /\ \A k \in 1..Len(contexts) : contexts'[k] = contexts[k]
           /\ contexts'[Len(contexts) + 1] = c
  OBVIOUS

LEMMA FrontOf ==
    ASSUME NEW S, NEW s \in Seq(S), s # <<>>
    PROVE  /\ Front(s) \in Seq(S)
           /\ Len(s) \in Nat \ {0}
           /\ Len(Front(s)) = Len(s) - 1
           /\ \A k \in 1..Len(s) - 1 : Front(s)[k] = s[k]
           /\ Last(s) = s[Len(s)]
           /\ Last(s) \in S
<1>1. Len(s) \in Nat \ {0} /\ \A k \in 1..Len(s) : s[k] \in S
  BY EmptySeq, LenProperties, ElementOfSeq
<1>2. Front(s) = SubSeq(s, 1, Len(s) - 1) /\ Last(s) = s[Len(s)]
  BY DEF Front, Last
<1>3. \A k \in 1..Len(s) - 1 : s[k] \in S
  BY <1>1
<1>4. /\ SubSeq(s, 1, Len(s) - 1) \in Seq(S)
      /\ Len(SubSeq(s, 1, Len(s) - 1)) = Len(s) - 1
      /\ \A k \in 1..Len(s) - 1 : SubSeq(s, 1, Len(s) - 1)[k] = s[k]
  <2> DEFINE n == Len(s) - 1
             t == SubSeq(s, 1, n)
  <2>1. n \in Nat /\ \A k \in 1..n : s[k] \in S
    BY <1>1
  <2> HIDE DEF n
  <2>2. /\ t \in Seq(S)
        /\ Len(t) = IF 1 <= n THEN n - 1 + 1 ELSE 0
        /\ \A k \in 1..n - 1 + 1 : t[k] = s[1 + k - 1]
    BY <2>1, SubSeqProperties
  <2> HIDE DEF t
  <2>3. /\ t \in Seq(S)
        /\ Len(t) = n
        /\ \A k \in 1..n : t[k] = s[k]
    BY <2>1, <2>2
  <2>4. QED
    BY <2>3 DEF n, t
<1>5. s[Len(s)] \in S
  BY <1>1
<1>6. QED
  BY <1>1, <1>2, <1>4, <1>5

LEMMA Popping ==
    ASSUME contexts \in Seq(Context), contexts # <<>>, contexts' = Front(contexts)
    PROVE  /\ contexts' \in Seq(Context)
           /\ Len(contexts) \in Nat \ {0}
           /\ Len(contexts') = Len(contexts) - 1
           /\ \A k \in 1..Len(contexts') : contexts'[k] = contexts[k]
           /\ Last(contexts) = contexts[Len(contexts)]
           /\ Last(contexts) \in Context
  BY FrontOf

LEMMA ShareConstants ==
    /\ Handler(Shares, SharePc)
    /\ SharePc \subseteq Pcs
    /\ Shares \subseteq Resource
    /\ LocalHost \in Client
  BY ShareAssumption DEF Handler, Pcs, Points

\* What a step of the call leaves as it is.
LEMMA ShareGoes ==
    ASSUME Works(SharePc), CallInv
    PROVE  /\ This' = This
           /\ job'.res = job.res
           /\ Source' = Source
           /\ calls' = calls
           /\ dest \subseteq dest'
           /\ UNCHANGED <<status, destination>>
           /\ trouble \subseteq trouble'
           /\ job.res \in Shares
           /\ status[job.res] = "in-progress"
           /\ This \in Object /\ This.of = job.res /\ This.by = calls /\ calls > 0
           /\ Source \in Object /\ Source.of = job.res /\ Source.by = 0
           /\ Source # This
           /\ job.pc \in SharePc
<1>1. Moves /\ Grows /\ job.pc \in SharePc
  BY DEF Works
<1>2. This' = This
  BY <1>1, SameThis
<1>3. job.res \in Shares /\ status[job.res] = "in-progress" /\ calls > 0 /\ job.res \in Resource
  BY <1>1 DEF Moves, CallInv, JobOK, KindOK
<1>4. This \in Object /\ This.of = job.res /\ This.by = calls
  BY <1>1, ThisIsObject DEF Moves
<1>5. Source \in Object /\ Source.of = job.res /\ Source.by = 0 /\ Source' = Source
  BY <1>1, <1>3 DEF Source, SourceShare, Object, Moves
<1>6. Source # This
  BY <1>3, <1>4, <1>5
<1>7. QED
  BY <1>1, <1>2, <1>3, <1>4, <1>5, <1>6 DEF Moves, Grows

\* A context that has been entered is not disturbed by what happens in those
\* inside it.
LEMMA EnteredStays ==
    ASSUME NEW k \in 1..Len(contexts), Entered(k), Works(SharePc), CallInv, ShareTypeOK,
           granted' = granted, contexts'[k] = contexts[k],
           \A share : share = contexts[k].share /\ HasRule(share, LocalHost) =>
              HasRule(share, LocalHost)',
           \A m \in mounted' : m \in mounted \/ (m[2] = calls /\ k < Len(contexts')),
           \/ k < Len(contexts) => k < Len(contexts')
           \/ contexts[k].kind # "access"
           \/ \A m \in mounted' : m[1] = contexts[k].share /\ m[2] = calls =>
                 UnmountFailed(m)',
           PreserveRules /\ k = 3 => ToKeep(job.res)' \subseteq ToKeep(job.res)
    PROVE  Entered(k)'
<1>1. /\ This' = This /\ Source' = Source /\ calls' = calls /\ job'.res = job.res
      /\ trouble \subseteq trouble'
  BY ShareGoes
<1>2. contexts[k].share = (IF k <= 2 THEN Source ELSE This)
      /\ (contexts[k].kind = "mount" <=> k \in {2, 4})
  BY DEF Entered
<1>3. contexts'[k].kind # "mount" => HasRule(contexts[k].share, LocalHost)'
  <2>1. contexts'[k].kind # "mount" => HasRule(contexts[k].share, LocalHost)
    BY DEF Entered
  <2>2. PICK share : share = contexts[k].share
    OBVIOUS
  <2>3. contexts'[k].kind # "mount" => HasRule(share, LocalHost)'
    BY <2>1, <2>2
  <2>4. share = contexts'[k].share
    BY <2>2
  <2>5. QED
    BY <2>3, <2>4 DEF HasRule, RulesOf
<1>4. ASSUME contexts'[k].kind = "access"
      PROVE  Revocable(k)'
  <2>1. Revocable(k)
    BY <1>4 DEF Entered
  <2>2. \A m \in mounted' : m[1] = contexts'[k].share =>
            (m[2] = calls /\ k < Len(contexts')) \/ UnmountFailed(m)'
    <3>1. TAKE m \in mounted'
    <3>2. HAVE m[1] = contexts'[k].share
    <3>3. UnmountFailed(m) => UnmountFailed(m)'
      BY <1>1 DEF UnmountFailed, Troubled
    <3>4. m \in mounted => (m[2] = calls /\ k < Len(contexts)) \/ UnmountFailed(m)
      BY <2>1, <3>2 DEF Revocable
    <3>5. contexts[k].kind = "access"
      BY <1>4
    <3>6. m[2] = calls /\ k < Len(contexts) => k < Len(contexts') \/ UnmountFailed(m)'
      BY <3>2, <3>5
    <3>7. m \in mounted \/ (m[2] = calls /\ k < Len(contexts'))
      OBVIOUS
    <3>8. QED
      BY <3>3, <3>4, <3>6, <3>7
  <2>3. k = 1 => LocalHost \notin granted'[job'.res]
    BY <1>1, <2>1 DEF Revocable
  <2>4. k = 3 /\ PreserveRules /\ ~Troubled(This, "copyRule")' =>
            \A a \in ToKeep(job.res)' : a.to # LocalHost
    BY <1>1, <2>1 DEF Revocable, Troubled
  <2>5. QED
    BY <1>1, <2>2, <2>3, <2>4 DEF Revocable
<1>5. QED
  BY <1>1, <1>2, <1>3, <1>4 DEF Entered

\* Nothing done for one share is noticed by another.
LEMMA PreservedStays ==
    ASSUME CallInv, ShareTypeOK, ShareTypeOK', Preserved, granted' = granted,
           trouble \subseteq trouble',
           \A r \in Shares : status'[r] = "migrated" =>
              /\ status[r] = "migrated"
              /\ destination'[r] = destination[r]
              /\ \A a \in Rule : a.share.of = r => (a \in rules' <=> a \in rules)
    PROVE  Preserved'
<1>1. SUFFICES ASSUME NEW r \in Shares, status'[r] = "migrated", PreserveRules,
                      NEW a \in ToKeep(r)'
               PROVE  \/ (CopyOf(a, destination[r]) \in rules)'
                      \/ Troubled(destination[r], "copyRule")'
  BY DEF Preserved
<1>2. /\ status[r] = "migrated"
      /\ destination'[r] = destination[r]
      /\ \A b \in Rule : b.share.of = r => (b \in rules' <=> b \in rules)
  BY <1>1
<1>3. a \in Rule /\ a.share.of = r
  BY DEF ToKeep, RulesOf, SourceShare, ShareTypeOK
<1>4. a \in ToKeep(r)
  BY <1>2, <1>3 DEF ToKeep, RulesOf, SourceShare
<1>5. destination[r] \in Object /\ destination[r].of = r
  <2>1. r \in Resource
    BY ShareConstants
  <2>2. QED
    BY <1>2, <2>1 DEF CallInv, CallTyped
<1>6. CopyOf(a, destination[r]) \in Rule /\ CopyOf(a, destination[r]).share.of = r
  BY <1>3, <1>5, CopyFacts
<1>7. CopyOf(a, destination[r]) \in rules \/ Troubled(destination[r], "copyRule")
  BY <1>1, <1>2, <1>4 DEF Preserved
<1>8. QED
  BY <1>2, <1>6, <1>7 DEF Troubled

\* A step that leaves the rules, the mounts and the contexts alone.
LEMMA QuietWorks ==
    ASSUME Works(SharePc), CallInv, ShareInv, ShareTypeOK',
           UNCHANGED <<granted, rules, contexts, mounted>>,
           job'.pc \in SharePc => Depth', job'.pc = "done" => contexts = <<>>
    PROVE  Nesting' /\ AccessWhileMounted' /\ UserAccessKept' /\ RulesInv' /\ Preserved'
<1>1. /\ This' = This /\ job'.res = job.res /\ trouble \subseteq trouble'
      /\ UNCHANGED <<status, destination>>
      /\ job.pc \in SharePc
  BY ShareGoes
<1>2. \A k \in 1..Len(contexts) : Entered(k)'
  <2>1. TAKE k \in 1..Len(contexts)
  <2>2. Entered(k) /\ ShareTypeOK
    BY <1>1 DEF ShareInv, Nesting
  <2>3. \A share : share = contexts[k].share /\ HasRule(share, LocalHost) =>
            HasRule(share, LocalHost)'
    BY DEF HasRule, RulesOf
  <2>4. ToKeep(job.res)' \subseteq ToKeep(job.res)
    BY <1>1 DEF ToKeep, RulesOf, SourceShare
  <2>5. \A m \in mounted' : m \in mounted \/ (m[2] = calls /\ k < Len(contexts'))
    OBVIOUS
  <2>6. k < Len(contexts) => k < Len(contexts')
    OBVIOUS
  <2>7. contexts'[k] = contexts[k]
    OBVIOUS
  <2>8. QED
    BY <2>2, <2>3, <2>4, <2>5, <2>6, <2>7, EnteredStays
<1>3. Nesting'
  BY <1>2 DEF Nesting
<1>4. AccessWhileMounted'
  BY <1>1 DEF ShareInv, AccessWhileMounted, HasRule, RulesOf, Troubled
<1>5. UserAccessKept'
  BY DEF ShareInv, UserAccessKept, HasRule, RulesOf, SourceShare
<1>6. RulesInv'
  <2>1. job.pc \in OpenPc => job'.pc \in OpenPc \/ contexts = <<>>
    BY DEF Works, SharePc, OpenPc, Depth
  <2>2. \A a \in rules : RuleTrouble(a) => RuleTrouble(a)'
    BY <1>1 DEF RuleTrouble
  <2>3. \A a \in rules : Accounted(a) => Accounted(a)'
    BY <2>1, <2>2 DEF Accounted
  <2>4. QED
    BY <2>3 DEF ShareInv, RulesInv
<1>7. Preserved'
  BY <1>1, PreservedStays DEF ShareInv
<1>8. QED
  BY <1>3, <1>4, <1>5, <1>6, <1>7

LEMMA BeginShareStep ==
    ASSUME CallInv, ShareInv, BeginShare
    PROVE  Handles(Shares, SharePc) /\ ShareInv'
<1>1. PICK r \in Shares : Begin(r, "createShare")
  BY DEF BeginShare
<1>2. job'.res = r /\ job'.pc = "createShare" /\ job.pc = "idle"
  BY <1>1, BegunJob DEF Begin, Idle
<1>3. /\ UNCHANGED <<granted, rules, mounted, filled, dest, trouble>>
      /\ uncopied' = {} /\ contexts' = <<>>
  BY <1>1 DEF BeginShare, Begin
<1>4. Handles(Shares, SharePc)
  BY <1>1 DEF Handles, Opens, SharePc, EarlyPc
<1>5. ShareTypeOK'
  BY <1>3 DEF ShareInv, ShareTypeOK
<1>6. Nesting'
  BY <1>2, <1>3 DEF Nesting, Depth, OpenPc
<1>7. AccessWhileMounted' /\ UserAccessKept'
  BY <1>3 DEF ShareInv, AccessWhileMounted, UserAccessKept, HasRule, RulesOf, Troubled,
              SourceShare
<1>8. RulesInv'
  BY <1>2, <1>3 DEF ShareInv, RulesInv, Accounted, RuleTrouble, OpenPc
<1>9. CopyInv'
  BY <1>2 DEF CopyInv
<1>10. Preserved'
  <2>1. /\ status' = [status EXCEPT ![r] = "in-progress"]
        /\ destination' = [destination EXCEPT ![r] = NoDest]
        /\ r \in Resource
    BY <1>1, ShareConstants DEF Begin
  <2>2. \A q \in Shares : status'[q] = "migrated" =>
            /\ status[q] = "migrated"
            /\ destination'[q] = destination[q]
            /\ \A a \in Rule : a.share.of = q => (a \in rules' <=> a \in rules)
    BY <1>3, <2>1, ShareConstants DEF CallInv, CallTyped
  <2>3. trouble \subseteq trouble' /\ granted' = granted
    BY <1>3
  <2>4. QED
    BY <1>5, <2>2, <2>3, PreservedStays DEF ShareInv
<1>11. QED
  BY <1>4, <1>5, <1>6, <1>7, <1>8, <1>9, <1>10 DEF ShareInv

\* The steps around the work on the rules.
LEMMA ShareWorks ==
    ASSUME CallInv, ShareInv,
           \/ CreateShare \/ ShareAvailable \/ RulesCopied \/ MountFails
           \/ CopyFiles \/ CopyFilesFails \/ LeaveLast
    PROVE  Works(SharePc) /\ ShareInv'
<1>1. SharePc \subseteq Pcs
  BY ShareConstants
<1>. USE DEF SharePc, OpenPc, Running, Finally, Idle, EarlyPc, RaisingPc, shareVars, Entering
<1>a. job.pc \in SharePc => Depth /\ contexts \in Seq(Context)
  BY DEF ShareInv, Nesting, ShareTypeOK, Context
<1>2. CASE CreateShare
  <2>1. Works(SharePc) /\ job'.pc = "shareWait" /\ job'.raising = job.raising
    BY <1>1, <1>2, GotoWorks DEF CreateShare, Pcs
  <2>2. UNCHANGED <<granted, rules, contexts, mounted>>
    BY <1>2 DEF CreateShare
  <2>3. ShareTypeOK'
    BY <1>2, <2>1, <2>2, ShareGoes DEF CreateShare, ShareInv, ShareTypeOK
  <2>4. Depth' /\ (job'.pc = "done" => contexts = <<>>)
    BY <1>a, <1>2, <2>1, <2>2 DEF CreateShare, Depth, Entering
  <2>5. CopyInv'
    BY <1>2, <2>1, <2>2, ShareGoes
    DEF CreateShare, ShareInv, CopyInv, ToKeep, RulesOf, SourceShare, Source, Troubled
  <2>6. QED
    BY <2>1, <2>2, <2>3, <2>4, <2>5, QuietWorks DEF ShareInv
<1>3. CASE ShareAvailable
  <2>1. Works(SharePc) /\ job'.pc = "copyRules" /\ job'.raising = job.raising
    BY <1>1, <1>3, GotoWorks DEF ShareAvailable, Pcs
  <2>2. UNCHANGED <<granted, rules, contexts, mounted>>
    BY <1>3 DEF ShareAvailable
  <2>3. ShareTypeOK'
    BY <1>3, <2>1, <2>2, ShareGoes DEF ShareAvailable, ShareInv, ShareTypeOK, RulesOf
  <2>4. Depth' /\ (job'.pc = "done" => contexts = <<>>)
    BY <1>a, <1>3, <2>1, <2>2 DEF ShareAvailable, Depth, Entering
  <2>5. CopyInv'
    BY <1>3, <2>1, <2>2, ShareGoes
    DEF ShareAvailable, ShareInv, CopyInv, ToKeep, RulesOf, SourceShare, Source, Troubled
  <2>6. QED
    BY <2>1, <2>2, <2>3, <2>4, <2>5, QuietWorks DEF ShareInv
<1>4. CASE RulesCopied
  <2>1. Works(SharePc) /\ job'.pc = "mounting" /\ job'.raising = job.raising
    BY <1>1, <1>4, GotoWorks DEF RulesCopied, Pcs
  <2>2. UNCHANGED <<granted, rules, contexts, mounted>>
    BY <1>4 DEF RulesCopied
  <2>3. ShareTypeOK'
    BY <1>4, <2>1, <2>2, ShareGoes DEF RulesCopied, ShareInv, ShareTypeOK
  <2>4. Depth' /\ (job'.pc = "done" => contexts = <<>>)
    BY <1>a, <1>4, <2>1, <2>2 DEF RulesCopied, Depth, Entering
  <2>5. CopyInv'
    BY <1>4, <2>1, <2>2, ShareGoes
    DEF RulesCopied, ShareInv, CopyInv, ToKeep, RulesOf, SourceShare, Source, Troubled
  <2>6. QED
    BY <2>1, <2>2, <2>3, <2>4, <2>5, QuietWorks DEF ShareInv
<1>5. CASE MountFails
  <2>1. Works(SharePc) /\ job'.pc = "leaving" /\ job'.raising
    BY <1>1, <1>5, RaiseWorks DEF MountFails, Pcs, Ats, Failures, Points, ShareRequests, PerhapsAdded
  <2>2. UNCHANGED <<granted, rules, contexts, mounted>>
    BY <1>5 DEF MountFails
  <2>3. ShareTypeOK'
    BY <1>5, <2>1, <2>2, ShareGoes DEF MountFails, ShareInv, ShareTypeOK
  <2>4. Depth' /\ (job'.pc = "done" => contexts = <<>>)
    BY <1>a, <1>5, <2>1, <2>2 DEF MountFails, Depth, Entering
  <2>5. CopyInv'
    BY <1>5, <2>1, <2>2, ShareGoes
    DEF MountFails, ShareInv, CopyInv, ToKeep, RulesOf, SourceShare, Source, Troubled
  <2>6. QED
    BY <2>1, <2>2, <2>3, <2>4, <2>5, QuietWorks DEF ShareInv
<1>6. CASE CopyFiles
  <2>1. Works(SharePc) /\ job'.pc = "leaving" /\ job'.raising = job.raising
    BY <1>1, <1>6, GotoWorks DEF CopyFiles, Pcs
  <2>2. UNCHANGED <<granted, rules, contexts, mounted>>
    BY <1>6 DEF CopyFiles
  <2>3. ShareTypeOK'
    <3>1. This \in dest
      BY <1>6 DEF CopyFiles, CallInv, JobOK
    <3>2. QED
      BY <1>6, <2>1, <2>2, <3>1, ShareGoes DEF CopyFiles, ShareInv, ShareTypeOK
  <2>4. Depth' /\ (job'.pc = "done" => contexts = <<>>)
    BY <1>a, <1>6, <2>1, <2>2 DEF CopyFiles, Depth, Entering
  <2>5. CopyInv'
    BY <1>6, <2>1, <2>2, ShareGoes
    DEF CopyFiles, ShareInv, CopyInv, ToKeep, RulesOf, SourceShare, Source, Troubled
  <2>6. QED
    BY <2>1, <2>2, <2>3, <2>4, <2>5, QuietWorks DEF ShareInv
<1>7. CASE CopyFilesFails
  <2>1. Works(SharePc) /\ job'.pc = "leaving" /\ job'.raising
    BY <1>1, <1>7, RaiseWorks DEF CopyFilesFails, Pcs, Ats, Failures, Points, ShareRequests, PerhapsAdded
  <2>2. UNCHANGED <<granted, rules, contexts, mounted>>
    BY <1>7 DEF CopyFilesFails
  <2>3. ShareTypeOK'
    BY <1>7, <2>1, <2>2, ShareGoes DEF CopyFilesFails, ShareInv, ShareTypeOK
  <2>4. Depth' /\ (job'.pc = "done" => contexts = <<>>)
    BY <1>a, <1>7, <2>1, <2>2 DEF CopyFilesFails, Depth, Entering
  <2>5. CopyInv'
    BY <1>7, <2>1, <2>2, ShareGoes
    DEF CopyFilesFails, ShareInv, CopyInv, ToKeep, RulesOf, SourceShare, Source, Troubled
  <2>6. QED
    BY <2>1, <2>2, <2>3, <2>4, <2>5, QuietWorks DEF ShareInv
<1>8. CASE LeaveLast
  <2>1. Works(SharePc) /\ job'.pc = "done" /\ job'.raising = job.raising
    BY <1>1, <1>8, GotoWorks DEF LeaveLast, Pcs
  <2>2. UNCHANGED <<granted, rules, contexts, mounted>>
    BY <1>8 DEF LeaveLast
  <2>3. ShareTypeOK'
    BY <1>8, <2>1, <2>2, ShareGoes DEF LeaveLast, ShareInv, ShareTypeOK
  <2>4. Depth' /\ (job'.pc = "done" => contexts = <<>>)
    BY <1>a, <1>8, <2>1, <2>2 DEF LeaveLast, Depth, Entering
  <2>5. CopyInv'
    BY <1>8, <2>1, <2>2, ShareGoes
    DEF LeaveLast, ShareInv, CopyInv, ToKeep, RulesOf, SourceShare, Source, Troubled
  <2>6. QED
    BY <2>1, <2>2, <2>3, <2>4, <2>5, QuietWorks DEF ShareInv
<1>9. QED
  BY <1>2, <1>3, <1>4, <1>5, <1>6, <1>7, <1>8

\* A rule that is added, and is not one of those to keep of the source share.
LEMMA Growing ==
    ASSUME Works(SharePc), CallInv, ShareInv, ShareTypeOK', granted' = granted,
           mounted' = mounted, NEW x \in Rule, x.share \in {Source, This},
           x.share = Source => ~HasRule(Source, x.to),
           rules' \in {rules, rules \cup {x}}
    PROVE  /\ AccessWhileMounted' /\ UserAccessKept' /\ Preserved'
           /\ ToKeep(job.res)' \subseteq ToKeep(job.res)
           /\ \A share, c : HasRule(share, c) => HasRule(share, c)'
<1>1. /\ This' = This /\ job'.res = job.res /\ trouble \subseteq trouble'
      /\ UNCHANGED <<status, destination>>
      /\ job.res \in Shares /\ status[job.res] = "in-progress"
      /\ Source.of = job.res /\ This.of = job.res /\ Source = SourceShare(job.res)
  BY ShareGoes DEF Source
<1>2. \A share, c : HasRule(share, c) => HasRule(share, c)'
  BY DEF HasRule, RulesOf
<1>3. AccessWhileMounted'
  <2>1. \A m \in mounted : HasRule(m[1], LocalHost) => HasRule(m[1], LocalHost)'
    BY <1>2
  <2>2. \A m \in mounted :
            Troubled([of |-> m[1].of, by |-> m[2]], "unmount") =>
            Troubled([of |-> m[1].of, by |-> m[2]], "unmount")'
    BY <1>1 DEF Troubled
  <2>3. QED
    BY <2>1, <2>2 DEF ShareInv, AccessWhileMounted
<1>4. UserAccessKept'
  <2>1. \A r \in Shares : \A c \in granted[r] : HasRule(SourceShare(r), c)'
    BY <1>2 DEF ShareInv, UserAccessKept
  <2>2. QED
    BY <2>1 DEF UserAccessKept, SourceShare
<1>5. Preserved'
  <2>1. \A r \in Shares : status'[r] = "migrated" =>
            /\ status[r] = "migrated"
            /\ destination'[r] = destination[r]
            /\ \A a \in Rule : a.share.of = r => (a \in rules' <=> a \in rules)
    BY <1>1
  <2>2. QED
    BY <1>1, <2>1, PreservedStays DEF ShareInv
<1>6. ToKeep(job.res)' \subseteq ToKeep(job.res)
  <2>1. x.share = Source => x.to \notin granted[job.res]
    BY <1>1 DEF ShareInv, UserAccessKept
  <2>2. QED
    BY <1>1, <2>1 DEF ToKeep, RulesOf, SourceShare
<1>7. QED
  BY <1>2, <1>3, <1>4, <1>5, <1>6

\* The contexts that are open already stay as they are.
LEMMA OuterStay ==
    ASSUME Works(SharePc), CallInv, ShareInv, granted' = granted, mounted' = mounted,
           \A k \in 1..Len(contexts) : contexts'[k] = contexts[k],
           Len(contexts) <= Len(contexts'), Len(contexts') \in Nat,
           ToKeep(job.res)' \subseteq ToKeep(job.res),
           \A share, c : HasRule(share, c) => HasRule(share, c)'
    PROVE  \A k \in 1..Len(contexts) : Entered(k)'
<1>1. TAKE k \in 1..Len(contexts)
<1>2. Entered(k) /\ ShareTypeOK
  BY ShareGoes DEF ShareInv, Nesting
<1>3. \A share : share = contexts[k].share /\ HasRule(share, LocalHost) =>
          HasRule(share, LocalHost)'
  OBVIOUS
<1>4. \A m \in mounted' : m \in mounted \/ (m[2] = calls /\ k < Len(contexts'))
  OBVIOUS
<1>5. k < Len(contexts) => k < Len(contexts')
  <2>1. Len(contexts) \in Nat
    BY DEF ShareInv, ShareTypeOK
  <2>2. QED
    BY <2>1
<1>6. contexts'[k] = contexts[k]
  OBVIOUS
<1>7. QED
  BY <1>2, <1>3, <1>4, <1>5, <1>6, EnteredStays

\* Rules that are there stay accounted for.
LEMMA AccountStays ==
    ASSUME Works(SharePc), CallInv, ShareInv, granted' = granted,
           job.pc \in OpenPc => job'.pc \in OpenPc,
           \A k \in 1..Len(contexts) : contexts'[k] = contexts[k],
           Len(contexts) <= Len(contexts'), Len(contexts') \in Nat
    PROVE  \A a \in rules : a.share.of \in Shares /\ Accounted(a)'
<1>1. TAKE a \in rules
<1>2. a.share.of \in Shares /\ Accounted(a)
  BY DEF ShareInv, RulesInv
<1>3. RuleTrouble(a) => RuleTrouble(a)'
  BY ShareGoes DEF RuleTrouble
<1>4. Len(contexts) \in Nat
  BY DEF ShareInv, ShareTypeOK
<1>5. \A k \in 1..Len(contexts) : k \in 1..Len(contexts')
  BY <1>4
<1>6. QED
  BY <1>2, <1>3, <1>5 DEF Accounted

LEMMA CopyRuleStep ==
    ASSUME CallInv, ShareInv, CopyRule \/ CopyRuleFails
    PROVE  Works(SharePc) /\ ShareInv'
<1>1. /\ job.pc = "copyRules" /\ ~job.raising
      /\ UNCHANGED <<dest, granted, contexts, mounted, filled>>
  BY DEF CopyRule, CopyRuleFails, Running
<1>2. PICK a \in uncopied :
          /\ uncopied' = uncopied \ {a}
          /\ \/ Goto("copyRules") /\ rules' = rules \cup {CopyOf(a, This)}
             \/ /\ LogTo("copyRules", "copyRule")
                /\ rules' \in {rules, rules \cup {ErringCopy(a, This)}}
  <2>1. CASE CopyRule
    BY <2>1, Zenon DEF CopyRule, CopyOf
  <2>2. CASE CopyRuleFails
    BY <2>2, Zenon DEF CopyRuleFails, ErringCopy, PerhapsAdded
  <2>3. QED
    BY <2>1, <2>2
<1>3. Works(SharePc) /\ job'.pc = "copyRules"
  <2>1. /\ "copyRules" \in Pcs /\ "copyRule" \in Ats /\ job.pc \in SharePc /\ ~Idle
        /\ SharePc \subseteq Pcs /\ job.pc \notin EarlyPc
    BY <1>1, ShareConstants
    DEF Ats, Failures, ShareRequests, SharePc, Idle, EarlyPc
  <2>2. QED
    BY <1>1, <1>2, <2>1, GotoWorks, LogWorks
<1>4. /\ This' = This /\ Source' = Source /\ job'.res = job.res
      /\ This \in Object /\ This.of = job.res /\ Source.of = job.res /\ Source # This
      /\ job.res \in Shares /\ trouble \subseteq trouble' /\ job.pc \in SharePc
      /\ dest \subseteq dest'
  BY <1>3, ShareGoes
<1>5. a \in Rule /\ a \in rules /\ a.share = Source /\ uncopied \subseteq rules
  BY <1>1 DEF ShareInv, CopyInv, RulesOf, ShareTypeOK
<1>6. \E x \in Rule :
          /\ x.share = This /\ x.to = a.to
          /\ rules' \in {rules, rules \cup {x}}
          /\ \/ rules' = rules \cup {x} /\ x = CopyOf(a, This)
             \/ Troubled(This, "copyRule")'
  <2>1. CASE rules' = rules \cup {CopyOf(a, This)}
    BY <1>4, <1>5, <2>1, CopyFacts
  <2>2. CASE /\ LogTo("copyRules", "copyRule")
             /\ rules' \in {rules, rules \cup {ErringCopy(a, This)}}
    <3>1. Troubled(This, "copyRule")'
      BY <1>4, <2>2 DEF LogTo, Troubled
    <3>2. QED
      BY <1>4, <1>5, <2>2, <3>1, CopyFacts
  <2>3. QED
    BY <1>2, <2>1, <2>2
<1>7. PICK x \in Rule :
          /\ x.share = This /\ x.to = a.to
          /\ rules' \in {rules, rules \cup {x}}
          /\ \/ rules' = rules \cup {x} /\ x = CopyOf(a, This)
             \/ Troubled(This, "copyRule")'
  BY <1>6
<1>8. ShareTypeOK'
  BY <1>1, <1>2, <1>4, <1>7 DEF ShareInv, ShareTypeOK
<1>9. /\ AccessWhileMounted' /\ UserAccessKept' /\ Preserved'
      /\ ToKeep(job.res)' \subseteq ToKeep(job.res)
  BY <1>1, <1>3, <1>4, <1>7, <1>8, Growing
<1>10. Len(contexts) = 0
  BY <1>1, <1>4 DEF ShareInv, Nesting, Depth, OpenPc
<1>11. Nesting'
  BY <1>1, <1>3, <1>10 DEF Nesting, Depth, OpenPc
<1>12. RulesInv'
  <2>1. \A b \in rules : RuleTrouble(b) => RuleTrouble(b)'
    BY <1>4 DEF RuleTrouble
  <2>2. \A b \in rules : b.share.of \in Shares
                          /\ (b.to \in granted[b.share.of]
                                 \/ (b.to = LocalHost /\ RuleTrouble(b)))
    BY <1>1 DEF ShareInv, RulesInv, Accounted, OpenPc
  <2>3. RuleTrouble(a) => RuleTrouble(x)'
    BY <1>4, <1>5, <1>7 DEF RuleTrouble
  <2>4. \A b \in rules : Accounted(b)'
    BY <1>1, <2>1, <2>2 DEF Accounted
  <2>5. x.share.of \in Shares /\ Accounted(x)'
    BY <1>1, <1>4, <1>5, <1>7, <2>2, <2>3 DEF Accounted
  <2>6. QED
    BY <1>7, <2>2, <2>4, <2>5 DEF RulesInv
<1>13. CopyInv'
  <2>1. uncopied' \subseteq RulesOf(Source)'
    BY <1>1, <1>2, <1>4, <1>7 DEF ShareInv, CopyInv, RulesOf
  <2>2. PreserveRules /\ ~Troubled(This, "copyRule")' =>
            \A b \in ToKeep(job.res)' : b \in uncopied' \/ CopyOf(b, This) \in rules'
    <3>1. Troubled(This, "copyRule") => Troubled(This, "copyRule")'
      BY <1>4 DEF Troubled
    <3>2. PreserveRules /\ ~Troubled(This, "copyRule")' =>
              \A b \in ToKeep(job.res) : b \in uncopied \/ CopyOf(b, This) \in rules
      BY <1>1, <1>4, <3>1 DEF ShareInv, CopyInv
    <3>3. QED
      BY <1>2, <1>7, <1>9, <3>2
  <2>3. QED
    BY <1>3, <1>4, <2>1, <2>2 DEF CopyInv
<1>14. QED
  BY <1>3, <1>8, <1>9, <1>11, <1>12, <1>13 DEF ShareInv

-----------------------------------------------------------------------------
(* Entering the contexts.                                                  *)

\* Where the next share's access is taken.
LEMMA EnteringFacts ==
    ASSUME CallInv, ShareInv, Entering(0)
    PROVE  /\ job.pc = "mounting" /\ ~job.raising /\ job.pc \in SharePc /\ ~Idle
           /\ Len(contexts) \in {0, 2}
           /\ contexts \in Seq(Context)
           /\ NextShare = IF Len(contexts) < 2 THEN Source ELSE This
           /\ This \in Object /\ This.of = job.res /\ This.by = calls /\ calls > 0
           /\ Source \in Object /\ Source.of = job.res /\ Source # This
           /\ job.res \in Shares
<1>1. job.pc = "mounting" /\ ~job.raising /\ job.pc \in SharePc /\ ~Idle
  BY DEF Entering, Running, SharePc, Idle
<1>2. Len(contexts) \in {0, 2}
  BY DEF Entering
<1>3. contexts \in Seq(Context)
  BY DEF ShareInv, ShareTypeOK, Context
<1>4. This \in Object /\ This.of = job.res /\ This.by = calls /\ calls > 0 /\ calls \in Nat
  BY <1>1, ThisIsObject DEF CallInv, JobOK, CallTyped
<1>5. job.res \in Shares /\ job.res \in Resource
  BY <1>1 DEF CallInv, JobOK, KindOK
<1>6. Source \in Object /\ Source.of = job.res /\ Source.by = 0
  BY <1>5 DEF Source, SourceShare, Object
<1>7. QED
  BY <1>1, <1>2, <1>3, <1>4, <1>5, <1>6 DEF NextShare, Source

\* The context that is entered is as it should be.
LEMMA EnteredNext ==
    ASSUME CallInv, ShareInv, Entering(0), Works(SharePc), granted' = granted,
           mounted' = mounted, ToKeep(job.res)' \subseteq ToKeep(job.res),
           NEW share, share = NextShare, HasRule(share, LocalHost)',
           NEW c, c = Access(share) \/ c = ProvidedAccess(share),
           c = Access(share) => ~HasRule(share, LocalHost),
           contexts' = Append(contexts, c), NEW n, n = Len(contexts) + 1
    PROVE  /\ \A k \in 1..Len(contexts) : contexts'[k] = contexts[k]
           /\ Len(contexts') = n
           /\ contexts' \in Seq(Context)
           /\ contexts'[n] = c
           /\ Entered(n)'
<1>1. /\ job.pc = "mounting"
      /\ Len(contexts) \in {0, 2}
      /\ contexts \in Seq(Context)
      /\ NextShare = IF Len(contexts) < 2 THEN Source ELSE This
      /\ This \in Object /\ Source \in Object /\ job.res \in Shares
      /\ Source = SourceShare(job.res)
  BY EnteringFacts DEF Source
<1>2. /\ This' = This /\ Source' = Source /\ calls' = calls /\ job'.res = job.res
      /\ trouble \subseteq trouble'
  BY ShareGoes
<1>3. c \in Context /\ c.share = share /\ c.kind # "mount"
      /\ (c.kind = "access" => ~HasRule(share, LocalHost))
  BY <1>1 DEF Context, Access, ProvidedAccess
<1>4. /\ contexts' \in Seq(Context)
      /\ Len(contexts') = Len(contexts) + 1
      /\ \A k \in 1..Len(contexts) : contexts'[k] = contexts[k]
      /\ contexts'[Len(contexts) + 1] = c
  BY <1>1, <1>3, Pushing
<1>5. n \in {1, 3} /\ contexts'[n] = c /\ share = IF n <= 2 THEN Source ELSE This
  BY <1>1, <1>4
<1>6. ASSUME c.kind = "access"
      PROVE  Revocable(n)'
  <2>1. ~HasRule(share, LocalHost)
    BY <1>3, <1>6
  <2>2. \A m \in mounted' : m[1] = share => UnmountFailed(m)'
    <3>1. \A m \in mounted : m[1] = share => UnmountFailed(m)
      BY <2>1 DEF ShareInv, AccessWhileMounted, UnmountFailed
    <3>2. QED
      BY <1>2, <3>1 DEF UnmountFailed, Troubled
  <2>3. n = 1 => LocalHost \notin granted'[job'.res]
    BY <1>1, <1>2, <1>5, <2>1 DEF ShareInv, UserAccessKept
  <2>4. n = 3 /\ PreserveRules /\ ~Troubled(This, "copyRule")' =>
            \A a \in ToKeep(job.res)' : a.to # LocalHost
    <3>1. Troubled(This, "copyRule") => Troubled(This, "copyRule")'
      BY <1>2 DEF Troubled
    <3>2. PreserveRules /\ ~Troubled(This, "copyRule")' =>
              \A a \in ToKeep(job.res) : CopyOf(a, This) \in rules
      BY <1>1, <3>1 DEF ShareInv, CopyInv
    <3>3. \A a \in ToKeep(job.res) : CopyOf(a, This).share = This /\ CopyOf(a, This).to = a.to
      BY <1>1, CopyFacts DEF ToKeep, RulesOf, ShareInv, ShareTypeOK
    <3>4. QED
      BY <1>5, <2>1, <3>2, <3>3 DEF HasRule, RulesOf
  <2>5. QED
    BY <1>2, <1>3, <1>5, <2>2, <2>3, <2>4 DEF Revocable
<1>7. HasRule(contexts[n].share, LocalHost)'
  <2>1. share = contexts'[n].share
    BY <1>3, <1>5
  <2>2. QED
    BY <2>1 DEF HasRule, RulesOf
<1>8. Entered(n)'
  BY <1>2, <1>3, <1>5, <1>6, <1>7 DEF Entered
<1>9. QED
  BY <1>4, <1>8

LEMMA UseRuleStep ==
    ASSUME CallInv, ShareInv, UseRule
    PROVE  Works(SharePc) /\ ShareInv'
<1>1. /\ Entering(0) /\ HasRule(NextShare, LocalHost)
      /\ contexts' = Append(contexts, ProvidedAccess(NextShare))
      /\ Goto("mounting")
      /\ UNCHANGED <<dest, granted, rules, uncopied, mounted, filled>>
  BY DEF UseRule
<1>2. /\ job.pc = "mounting" /\ ~job.raising /\ job.pc \in SharePc /\ ~Idle
      /\ Len(contexts) \in {0, 2} /\ contexts \in Seq(Context)
      /\ This \in Object /\ This.of = job.res /\ Source # This
  BY <1>1, EnteringFacts
<1>3. Works(SharePc) /\ job'.pc = "mounting" /\ job'.raising = job.raising
  BY <1>1, <1>2, GotoWorks, ShareConstants
<1>4. UNCHANGED <<This, Source>> /\ job'.res = job.res /\ trouble \subseteq trouble'
      /\ dest \subseteq dest'
  BY <1>3, ShareGoes
<1>5. PICK x \in Rule : x.share = This
  BY <1>2, NewRuleFacts
<1>6. PICK share : share = NextShare
  OBVIOUS
<1>7. HasRule(share, LocalHost)'
  BY <1>1, <1>6 DEF HasRule, RulesOf
<1>8. ToKeep(job.res)' \subseteq ToKeep(job.res)
  BY <1>1, <1>4 DEF ToKeep, RulesOf, SourceShare
<1>9. PICK c : c = ProvidedAccess(share)
  OBVIOUS
<1>10. c # Access(share)
  BY <1>9 DEF Access, ProvidedAccess
<1>11a. PICK n : n = Len(contexts) + 1
  OBVIOUS
<1>11. /\ \A k \in 1..Len(contexts) : contexts'[k] = contexts[k]
       /\ Len(contexts') = n
       /\ contexts' \in Seq(Context)
       /\ Entered(n)'
  BY <1>1, <1>3, <1>6, <1>7, <1>8, <1>9, <1>10, <1>11a, EnteredNext
<1>12. ShareTypeOK'
  BY <1>1, <1>4, <1>11 DEF ShareInv, ShareTypeOK, Context
<1>13. /\ AccessWhileMounted' /\ UserAccessKept' /\ Preserved'
       /\ \A s, d : HasRule(s, d) => HasRule(s, d)'
  BY <1>1, <1>2, <1>3, <1>5, <1>12, Growing
<1>14. Len(contexts) <= Len(contexts') /\ Len(contexts') \in Nat
  BY <1>2, <1>11, <1>11a
<1>15. \A k \in 1..Len(contexts) : Entered(k)'
  BY <1>1, <1>3, <1>8, <1>11, <1>13, <1>14, OuterStay
<1>16. Nesting'
  BY <1>2, <1>3, <1>11, <1>11a, <1>15 DEF Nesting, Depth, OpenPc
<1>17. RulesInv'
  BY <1>1, <1>2, <1>3, <1>11, <1>14, AccountStays DEF RulesInv, OpenPc
<1>18. CopyInv'
  BY <1>1, <1>2, <1>3, <1>4
  DEF ShareInv, CopyInv, ToKeep, RulesOf, SourceShare, Troubled
<1>19. QED
  BY <1>3, <1>12, <1>13, <1>16, <1>17, <1>18 DEF ShareInv

\* A rule is made for the host, and its context is entered.
LEMMA AddRuleStep ==
    ASSUME CallInv, ShareInv, AddRule \/ RuleNotActive
    PROVE  Works(SharePc) /\ ShareInv'
<1>1. /\ Entering(0) /\ ~HasRule(NextShare, LocalHost)
      /\ contexts' = Append(contexts, Access(NextShare))
      /\ UNCHANGED <<dest, granted, uncopied, mounted, filled>>
      /\ \/ Goto("mounting") /\ rules' = rules \cup {NewRule(NextShare, LocalHost)}
         \/ RaiseTo("leaving", "ruleWait") /\ rules' = rules \cup {ErringRule(NextShare)}
  <2>1. CASE AddRule
    BY <2>1, Zenon DEF AddRule
  <2>2. CASE RuleNotActive
    BY <2>2, Zenon DEF RuleNotActive, ErringRule
  <2>3. QED
    BY <2>1, <2>2
<1>2. /\ job.pc = "mounting" /\ ~job.raising /\ job.pc \in SharePc /\ ~Idle
      /\ Len(contexts) \in {0, 2} /\ contexts \in Seq(Context)
      /\ This \in Object /\ This.of = job.res /\ Source # This /\ Source \in Object
      /\ Source.of = job.res /\ job.res \in Shares
      /\ NextShare \in {Source, This}
  BY <1>1, EnteringFacts
<1>3. /\ Works(SharePc)
      /\ job'.pc \in {"mounting", "leaving"}
      /\ job'.pc = "leaving" => job'.raising
  <2>1. /\ "mounting" \in Pcs /\ "leaving" \in Pcs /\ "leaving" \in RaisingPc
        /\ "ruleWait" \in Ats /\ {"mounting", "leaving"} \subseteq SharePc
        /\ dest' \in PerhapsAdded(dest, {This})
    BY <1>1 DEF Pcs, Points, SharePc, Ats, Failures, ShareRequests, RaisingPc, PerhapsAdded
  <2>2. CASE Goto("mounting")
    BY <1>1, <1>2, <2>1, <2>2, GotoWorks, ShareConstants
  <2>3. CASE RaiseTo("leaving", "ruleWait")
    BY <1>2, <2>1, <2>3, RaiseWorks, ShareConstants
  <2>4. QED
    BY <1>1, <2>2, <2>3
<1>4. UNCHANGED <<This, Source>> /\ job'.res = job.res /\ trouble \subseteq trouble'
      /\ dest \subseteq dest'
  BY <1>3, ShareGoes
<1>5. PICK share : share = NextShare
  OBVIOUS
<1>6. \E x \in Rule : x.share = share /\ x.to = LocalHost /\ rules' = rules \cup {x}
  BY <1>1, <1>2, <1>5, NewRuleFacts
<1>7. PICK x \in Rule : x.share = share /\ x.to = LocalHost /\ rules' = rules \cup {x}
  BY <1>6
<1>8. HasRule(share, LocalHost)' /\ ~HasRule(share, LocalHost)
  BY <1>1, <1>5, <1>7 DEF HasRule, RulesOf
<1>9. PICK c : c = Access(share)
  OBVIOUS
<1>10. c \in Context /\ share \in {Source, This}
  BY <1>2, <1>5, <1>9 DEF Access, Context
<1>11. contexts' = Append(contexts, c)
  BY <1>1, <1>5, <1>9
<1>12. contexts' \in Seq(Context) /\ Len(contexts') = Len(contexts) + 1
  BY <1>2, <1>10, <1>11, Pushing
<1>12a. PICK n : n = Len(contexts) + 1
  OBVIOUS
<1>13. ShareTypeOK'
  BY <1>1, <1>4, <1>7, <1>12 DEF ShareInv, ShareTypeOK, Context
<1>14. /\ AccessWhileMounted' /\ UserAccessKept' /\ Preserved'
       /\ ToKeep(job.res)' \subseteq ToKeep(job.res)
       /\ \A s, d : HasRule(s, d) => HasRule(s, d)'
  BY <1>1, <1>3, <1>7, <1>8, <1>10, <1>13, Growing
<1>15. /\ \A k \in 1..Len(contexts) : contexts'[k] = contexts[k]
       /\ contexts'[n] = c
       /\ Entered(n)'
  BY <1>1, <1>3, <1>5, <1>8, <1>9, <1>11, <1>12a, <1>14, EnteredNext
<1>16. Len(contexts) <= Len(contexts') /\ Len(contexts') \in Nat
  BY <1>2, <1>12
<1>17. \A k \in 1..Len(contexts) : Entered(k)'
  BY <1>1, <1>3, <1>14, <1>15, <1>16, OuterStay
<1>18. Nesting'
  BY <1>2, <1>3, <1>12, <1>12a, <1>15, <1>17 DEF Nesting, Depth, OpenPc
<1>19. RulesInv'
  <2>1. \A a \in rules : a.share.of \in Shares /\ Accounted(a)'
    BY <1>1, <1>2, <1>3, <1>15, <1>16, AccountStays DEF OpenPc
  <2>2. Accounted(x)'
    <3>1. n \in 1..Len(contexts')
      BY <1>2, <1>12, <1>12a
    <3>2. contexts'[n] = Access(x.share)
      BY <1>7, <1>9, <1>15
    <3>3. \E k \in 1..Len(contexts') : contexts'[k] = Access(x.share)
      BY <3>1, <3>2
    <3>4. QED
      BY <1>3, <1>7, <3>3 DEF Accounted, OpenPc, Access
  <2>3. QED
    BY <1>2, <1>7, <1>10, <2>1, <2>2 DEF RulesInv
<1>20. CopyInv'
  <2>1. PreserveRules /\ ~Troubled(This, "copyRule")' =>
            \A b \in ToKeep(job.res)' : CopyOf(b, This) \in rules'
    <3>1. Troubled(This, "copyRule") => Troubled(This, "copyRule")'
      BY <1>4 DEF Troubled
    <3>2. PreserveRules /\ ~Troubled(This, "copyRule")' =>
              \A b \in ToKeep(job.res) : CopyOf(b, This) \in rules
      BY <1>2, <3>1 DEF ShareInv, CopyInv
    <3>3. QED
      BY <1>7, <1>14, <3>2
  <2>2. QED
    BY <1>3, <1>4, <2>1 DEF CopyInv
<1>21. QED
  BY <1>3, <1>13, <1>14, <1>18, <1>19, <1>20 DEF ShareInv

LEMMA AddRuleFailsStep ==
    ASSUME CallInv, ShareInv, AddRuleFails
    PROVE  Works(SharePc) /\ ShareInv'
<1>1. /\ Entering(0)
      /\ RaiseTo("leaving", "addRule")
      /\ UNCHANGED <<dest, granted, uncopied, contexts, mounted, filled>>
      /\ \/ rules' = rules
         \/ ~HasRule(NextShare, LocalHost) /\ rules' = rules \cup {NewRule(NextShare, LocalHost)}
  BY Zenon DEF AddRuleFails, PerhapsAdded
<1>2. /\ job.pc = "mounting" /\ ~job.raising /\ job.pc \in SharePc /\ ~Idle
      /\ Len(contexts) \in {0, 2} /\ contexts \in Seq(Context)
      /\ This \in Object /\ This.of = job.res /\ Source # This /\ Source \in Object
      /\ Source.of = job.res /\ job.res \in Shares
      /\ NextShare \in {Source, This}
  BY <1>1, EnteringFacts
<1>3. Works(SharePc) /\ job'.pc = "leaving" /\ job'.raising /\ Raised("addRule")
  <2>1. /\ "leaving" \in Pcs /\ "leaving" \in RaisingPc /\ "addRule" \in Ats
        /\ "leaving" \in SharePc /\ dest' \in PerhapsAdded(dest, {This})
    BY <1>1 DEF Pcs, Points, SharePc, Ats, Failures, ShareRequests, RaisingPc, PerhapsAdded
  <2>2. QED
    BY <1>1, <1>2, <2>1, RaiseWorks, ShareConstants
<1>4. UNCHANGED <<This, Source>> /\ job'.res = job.res /\ trouble \subseteq trouble'
      /\ dest \subseteq dest'
  BY <1>3, ShareGoes
<1>5. \E x \in Rule : /\ x.share \in {Source, This} /\ x.to = LocalHost
                      /\ x.share = Source => ~HasRule(Source, x.to)
                      /\ rules' \in {rules, rules \cup {x}}
  <2>1. CASE rules' = rules
    <3>1. NewRule(This, LocalHost) \in Rule /\ NewRule(This, LocalHost).share = This
          /\ NewRule(This, LocalHost).to = LocalHost
      BY <1>2, NewRuleFacts
    <3>2. QED
      BY <1>2, <2>1, <3>1
  <2>2. CASE /\ ~HasRule(NextShare, LocalHost)
             /\ rules' = rules \cup {NewRule(NextShare, LocalHost)}
    <3>1. PICK s : s = NextShare
      OBVIOUS
    <3>2. NewRule(s, LocalHost) \in Rule /\ NewRule(s, LocalHost).share = s
          /\ NewRule(s, LocalHost).to = LocalHost
      BY <1>2, <3>1, NewRuleFacts
    <3>3. QED
      BY <1>2, <2>2, <3>1, <3>2
  <2>3. QED
    BY <1>1, <2>1, <2>2
<1>6. PICK x \in Rule : /\ x.share \in {Source, This} /\ x.to = LocalHost
                        /\ x.share = Source => ~HasRule(Source, x.to)
                        /\ rules' \in {rules, rules \cup {x}}
  BY <1>5
<1>7. ShareTypeOK'
  BY <1>1, <1>4, <1>6 DEF ShareInv, ShareTypeOK
<1>8. /\ AccessWhileMounted' /\ UserAccessKept' /\ Preserved'
      /\ ToKeep(job.res)' \subseteq ToKeep(job.res)
      /\ \A s, d : HasRule(s, d) => HasRule(s, d)'
  BY <1>1, <1>3, <1>6, <1>7, Growing
<1>9. /\ \A k \in 1..Len(contexts) : contexts'[k] = contexts[k]
      /\ Len(contexts) <= Len(contexts') /\ Len(contexts') \in Nat
  BY <1>1, <1>2
<1>10. \A k \in 1..Len(contexts) : Entered(k)'
  BY <1>1, <1>3, <1>8, <1>9, OuterStay
<1>11. Nesting'
  <2>1. Len(contexts') = Len(contexts)
    BY <1>1
  <2>2. Depth'
    <3>1. job'.pc = "leaving"
      BY <1>3
    <3>2. \A n : n \in {0, 2} => n <= 4
      OBVIOUS
    <3>3. Len(contexts') <= 4
      BY <1>2, <2>1, <3>2
    <3>4. QED
      BY <3>1, <3>3 DEF Depth, OpenPc
  <2>3. \A k \in 1..Len(contexts') : Entered(k)'
    BY <1>10, <2>1
  <2>4. QED
    BY <2>2, <2>3 DEF Nesting
<1>12. RulesInv'
  <2>1. \A a \in rules : a.share.of \in Shares /\ Accounted(a)'
    BY <1>1, <1>3, <1>9, AccountStays DEF OpenPc
  <2>2. x.share.of \in Shares /\ RuleTrouble(x)'
    <3>1. [call |-> This, at |-> "addRule"] \in trouble'
      BY <1>3 DEF Raised
    <3>2. QED
      BY <1>2, <1>6, <3>1 DEF RuleTrouble
  <2>3. QED
    BY <1>6, <2>1, <2>2 DEF RulesInv, Accounted
<1>13. CopyInv'
  <2>1. PreserveRules /\ ~Troubled(This, "copyRule")' =>
            \A b \in ToKeep(job.res)' : CopyOf(b, This) \in rules'
    <3>1. Troubled(This, "copyRule") => Troubled(This, "copyRule")'
      BY <1>4 DEF Troubled
    <3>2. PreserveRules /\ ~Troubled(This, "copyRule")' =>
              \A b \in ToKeep(job.res) : CopyOf(b, This) \in rules
      BY <1>2, <3>1 DEF ShareInv, CopyInv
    <3>3. QED
      BY <1>6, <1>8, <3>2
  <2>2. QED
    BY <1>3, <1>4, <2>1 DEF CopyInv
<1>14. QED
  BY <1>3, <1>7, <1>8, <1>11, <1>12, <1>13 DEF ShareInv

LEMMA MountShareStep ==
    ASSUME CallInv, ShareInv, MountShare
    PROVE  Works(SharePc) /\ ShareInv'
<1>1. /\ job.pc = "mounting" /\ ~job.raising /\ job.pc \in SharePc /\ ~Idle
      /\ Len(contexts) \in {1, 3}
      /\ UNCHANGED <<dest, granted, rules, uncopied, filled>>
  BY DEF MountShare, Entering, Running, SharePc, Idle
<1> DEFINE pc == IF Len(contexts) = 3 THEN "copyFiles" ELSE "mounting"
<1>2. Goto(pc)
  BY DEF MountShare
<1>3. PICK share : share = Last(contexts).share
  OBVIOUS
<1>4. mounted' = mounted \cup {<<share, calls>>} /\ contexts' = Append(contexts, Mount(share))
  BY <1>3 DEF MountShare
<1>5. /\ Works(SharePc)
      /\ job'.pc = pc
      /\ job'.raising = job.raising
  <2>1. pc \in Pcs /\ pc \in SharePc /\ SharePc \subseteq Pcs
    BY ShareConstants DEF SharePc
  <2>2. job.pc \notin EarlyPc
    BY <1>1 DEF EarlyPc
  <2> HIDE DEF pc
  <2>3. QED
    BY <1>1, <1>2, <2>1, <2>2, GotoWorks
<1>6. /\ This' = This /\ Source' = Source /\ calls' = calls /\ job'.res = job.res
      /\ trouble \subseteq trouble' /\ UNCHANGED <<status, destination>>
      /\ This \in Object /\ Source \in Object /\ calls \in Nat
      /\ dest \subseteq dest'
  BY <1>5, ShareGoes DEF CallInv, CallTyped
<1>7. contexts \in Seq(Context) /\ Nesting /\ AccessWhileMounted
  BY DEF ShareInv, ShareTypeOK, Context
<1>8. PICK n : n = Len(contexts)
  OBVIOUS
<1>9. n \in {1, 3} /\ n \in 1..Len(contexts) /\ share = contexts[n].share /\ Entered(n)
  BY <1>1, <1>3, <1>7, <1>8 DEF Nesting, Last
<1>10. /\ share = IF n <= 2 THEN Source ELSE This
       /\ HasRule(share, LocalHost)
  BY <1>9 DEF Entered
<1>11. Mount(share) \in Context /\ Mount(share).share = share /\ Mount(share).kind = "mount"
  BY <1>6, <1>10 DEF Mount, Context
<1>12. /\ contexts' \in Seq(Context)
       /\ Len(contexts') = n + 1
       /\ \A k \in 1..n : contexts'[k] = contexts[k]
       /\ contexts'[n + 1] = Mount(share)
  BY <1>4, <1>7, <1>8, <1>11, Pushing
<1>13. ShareTypeOK'
  BY <1>1, <1>4, <1>6, <1>10, <1>12 DEF ShareInv, ShareTypeOK, Context
<1>14. \A k \in 1..n : Entered(k)'
  <2>1. TAKE k \in 1..n
  <2>2. Entered(k) /\ ShareTypeOK /\ k \in 1..Len(contexts)
    BY <1>1, <1>8 DEF ShareInv, Nesting
  <2>3. \A s : s = contexts[k].share /\ HasRule(s, LocalHost) => HasRule(s, LocalHost)'
    BY <1>1 DEF HasRule, RulesOf
  <2>4. ToKeep(job.res)' \subseteq ToKeep(job.res)
    BY <1>1, <1>6 DEF ToKeep, RulesOf, SourceShare
  <2>5. k < Len(contexts') /\ (k < Len(contexts) => k < Len(contexts'))
    BY <1>9, <1>12
  <2>6. \A m \in mounted' : m \in mounted \/ (m[2] = calls /\ k < Len(contexts'))
    BY <1>4, <2>5
  <2>7. contexts'[k] = contexts[k] /\ granted' = granted
    BY <1>1, <1>12
  <2>8. QED
    BY <1>5, <2>2, <2>3, <2>4, <2>5, <2>6, <2>7, EnteredStays
<1>15. Entered(n + 1)'
  <2>1. PICK k : k = n + 1
    OBVIOUS
  <2>2. k \in {2, 4} /\ contexts'[k] = Mount(share) /\ (k <= 2 <=> n <= 2)
    BY <1>9, <1>12, <2>1
  <2>3. Entered(k)'
    BY <1>6, <1>10, <1>11, <2>2 DEF Entered
  <2>4. QED
    BY <2>1, <2>3
<1>16. Nesting'
  <2>1. \A k \in 1..Len(contexts') : Entered(k)'
    BY <1>9, <1>12, <1>14, <1>15
  <2>2. Depth'
    BY <1>5, <1>8, <1>9, <1>12 DEF Depth, OpenPc
  <2>3. QED
    BY <2>1, <2>2 DEF Nesting
<1>17. AccessWhileMounted'
  <2>1. \A m \in mounted : HasRule(m[1], LocalHost)
                           \/ Troubled([of |-> m[1].of, by |-> m[2]], "unmount")'
    BY <1>6, <1>7 DEF AccessWhileMounted, Troubled
  <2>2. \A m \in mounted' : m \in mounted \/ m[1] = share
    BY <1>4
  <2>3. \A s : HasRule(s, LocalHost) => HasRule(s, LocalHost)'
    BY <1>1 DEF HasRule, RulesOf
  <2>4. \A m \in mounted' : HasRule(m[1], LocalHost)'
                            \/ Troubled([of |-> m[1].of, by |-> m[2]], "unmount")'
    BY <1>10, <2>1, <2>2, <2>3
  <2>5. QED
    BY <2>4 DEF AccessWhileMounted
<1>18. UserAccessKept'
  BY <1>1 DEF ShareInv, UserAccessKept, HasRule, RulesOf, SourceShare
<1>19. RulesInv'
  <2>1. /\ \A k \in 1..Len(contexts) : contexts'[k] = contexts[k]
        /\ Len(contexts) <= Len(contexts') /\ Len(contexts') \in Nat
    BY <1>8, <1>9, <1>12
  <2>2. QED
    BY <1>1, <1>5, <2>1, AccountStays DEF RulesInv, OpenPc
<1>20. Preserved'
  BY <1>1, <1>6, <1>13, PreservedStays DEF ShareInv
<1>21. CopyInv'
  BY <1>1, <1>5, <1>6
  DEF ShareInv, CopyInv, ToKeep, RulesOf, SourceShare, Troubled
<1>22. QED
  BY <1>5, <1>13, <1>16, <1>17, <1>18, <1>19, <1>20, <1>21 DEF ShareInv


-----------------------------------------------------------------------------
(* Leaving the contexts.                                                   *)

\* The context that is left, and those around it.
LEMMA LeavingFacts ==
    ASSUME CallInv, ShareInv, job.pc = "leaving", contexts # <<>>,
           contexts' = Front(contexts)
    PROVE  /\ contexts \in Seq(Context) /\ contexts' \in Seq(Context)
           /\ Len(contexts) \in 1..4
           /\ Len(contexts') = Len(contexts) - 1
           /\ \A k \in 1..Len(contexts) - 1 : contexts'[k] = contexts[k]
           /\ Last(contexts) = contexts[Len(contexts)]
           /\ \A k \in 1..Len(contexts) : Entered(k)
           /\ job.pc \in SharePc /\ ~Idle
           /\ This \in Object /\ This.of = job.res /\ This.by = calls /\ calls > 0
           /\ Source \in Object /\ Source.of = job.res /\ Source.by = 0
           /\ job.res \in Shares /\ status[job.res] = "in-progress"
           /\ job.res \in Resource
<1>1. job.pc \in SharePc /\ ~Idle
  BY DEF SharePc, Idle
<1>2. contexts \in Seq(Context) /\ Depth /\ \A k \in 1..Len(contexts) : Entered(k)
  BY <1>1 DEF ShareInv, ShareTypeOK, Nesting, Context
<1>3. /\ contexts' \in Seq(Context)
      /\ Len(contexts) \in Nat \ {0}
      /\ Len(contexts') = Len(contexts) - 1
      /\ \A k \in 1..Len(contexts') : contexts'[k] = contexts[k]
      /\ Last(contexts) = contexts[Len(contexts)]
  BY <1>2, Popping
<1>4. Len(contexts) \in 1..4
  BY <1>2, <1>3 DEF Depth
<1>5. This \in Object /\ This.of = job.res /\ This.by = calls
  BY <1>1, ThisIsObject
<1>6. /\ job.res \in Shares /\ status[job.res] = "in-progress" /\ calls > 0
      /\ job.res \in Resource
  BY <1>1 DEF CallInv, JobOK, KindOK
<1>7. Source \in Object /\ Source.of = job.res /\ Source.by = 0
  BY <1>6 DEF Source, SourceShare, Object
<1>8. QED
  BY <1>1, <1>2, <1>3, <1>4, <1>5, <1>6, <1>7

\* A context is left, and the rules stay as they are.
LEMMA PopSame ==
    ASSUME Works(SharePc), CallInv, ShareInv, ShareTypeOK',
           job.pc = "leaving", job'.pc = "leaving", ~job'.raising => ~job.raising,
           contexts # <<>>, contexts' = Front(contexts),
           UNCHANGED <<granted, rules, uncopied, filled>>, mounted' \subseteq mounted,
           \A m \in mounted' :
              Last(contexts).kind = "mount" /\ m[1] = Last(contexts).share /\ m[2] = calls =>
                 UnmountFailed(m)',
           Last(contexts).kind = "access" => Raised("deleteRule")
    PROVE  ShareInv'
<1>1. PICK n : n = Len(contexts)
  OBVIOUS
<1>2. PICK c : c = Last(contexts)
  OBVIOUS
<1>3. /\ contexts' \in Seq(Context)
      /\ n \in 1..4 /\ Len(contexts') = n - 1
      /\ \A k \in 1..n - 1 : contexts'[k] = contexts[k]
      /\ c = contexts[n] /\ \A k \in 1..n : Entered(k)
      /\ This.of = job.res /\ Source.of = job.res
  BY <1>1, <1>2, LeavingFacts
<1>4. UNCHANGED <<This, Source, calls, status, destination>> /\ job'.res = job.res
      /\ trouble \subseteq trouble'
  BY ShareGoes
<1>5. /\ c.share = IF n <= 2 THEN Source ELSE This
      /\ c.kind = "mount" <=> n \in {2, 4}
  <2>1. Entered(n)
    BY <1>3
  <2>2. QED
    BY <1>3, <2>1 DEF Entered
<1>6. \A k \in 1..n - 1 : Entered(k)'
  <2>1. TAKE k \in 1..n - 1
  <2>2. Entered(k) /\ ShareTypeOK /\ k \in 1..Len(contexts)
    BY <1>1, <1>3 DEF ShareInv
  <2>3. \A s : s = contexts[k].share /\ HasRule(s, LocalHost) => HasRule(s, LocalHost)'
    BY DEF HasRule, RulesOf
  <2>4. ToKeep(job.res)' \subseteq ToKeep(job.res)
    BY <1>4 DEF ToKeep, RulesOf, SourceShare
  <2>5. \A m \in mounted' : m \in mounted \/ (m[2] = calls /\ k < Len(contexts'))
    OBVIOUS
  <2>6. contexts'[k] = contexts[k] /\ granted' = granted
    BY <1>3
  <2>7. CASE k < n - 1
    <3>1. k < Len(contexts) => k < Len(contexts')
      BY <1>3, <2>7
    <3>2. QED
      BY <2>2, <2>3, <2>4, <2>5, <2>6, <3>1, EnteredStays
  <2>8. CASE k = n - 1 /\ k \in {1, 3}
    <3>1. c.kind = "mount" /\ c.share = contexts[k].share
      BY <1>3, <1>5, <2>2, <2>8 DEF Entered
    <3>2. \A m \in mounted' : m[1] = contexts[k].share /\ m[2] = calls => UnmountFailed(m)'
      BY <1>2, <3>1
    <3>3. QED
      BY <2>2, <2>3, <2>4, <2>5, <2>6, <3>2, EnteredStays
  <2>9. CASE k = 2
    <3>1. contexts[k].kind # "access"
      BY <2>2, <2>9 DEF Entered
    <3>2. QED
      BY <2>2, <2>3, <2>4, <2>5, <2>6, <3>1, EnteredStays
  <2>10. QED
    BY <1>3, <2>7, <2>8, <2>9
<1>7. Nesting'
  BY <1>3, <1>6 DEF Nesting, Depth, OpenPc
<1>8. AccessWhileMounted' /\ UserAccessKept'
  BY <1>4 DEF ShareInv, AccessWhileMounted, UserAccessKept, HasRule, RulesOf, Troubled,
              SourceShare
<1>9. RulesInv'
  <2>1. ASSUME NEW a \in rules
        PROVE  a.share.of \in Shares /\ Accounted(a)'
    <3>1. a.share.of \in Shares /\ Accounted(a)
      BY DEF ShareInv, RulesInv
    <3>2. RuleTrouble(a) => RuleTrouble(a)'
      BY <1>4 DEF RuleTrouble
    <3>3. ASSUME NEW k \in 1..Len(contexts), contexts[k] = Access(a.share)
          PROVE  (\E j \in 1..Len(contexts') : contexts'[j] = Access(a.share))
                 \/ RuleTrouble(a)'
      <4>1. CASE k < n
        BY <1>1, <1>3, <3>3, <4>1
      <4>2. CASE k = n
        <5>1. c.kind = "access" /\ a.share = c.share
          BY <1>3, <3>3, <4>2 DEF Access
        <5>2. [call |-> This, at |-> "deleteRule"] \in trouble' /\ a.share.of = job.res
          BY <1>2, <1>3, <1>5, <5>1 DEF Raised
        <5>3. QED
          BY <1>3, <5>2 DEF RuleTrouble
      <4>3. QED
        BY <1>1, <1>3, <4>1, <4>2
    <3>4. QED
      BY <3>1, <3>2, <3>3 DEF Accounted, OpenPc
  <2>2. QED
    BY <2>1 DEF RulesInv
<1>10. CopyInv'
  BY <1>4 DEF ShareInv, CopyInv, ToKeep, RulesOf, SourceShare, Troubled
<1>11. Preserved'
  BY <1>4, PreservedStays DEF ShareInv
<1>12. QED
  BY <1>7, <1>8, <1>9, <1>10, <1>11 DEF ShareInv

\* All but the revoking of the host's access.
LEMMA LeaveStep ==
    ASSUME CallInv, ShareInv,
           Unmount \/ UnmountFails \/ LeaveProvided \/ DeleteRuleFails
    PROVE  Works(SharePc) /\ ShareInv'
<1>1. /\ job.pc = "leaving" /\ contexts # <<>> /\ contexts' = Front(contexts)
      /\ UNCHANGED <<dest, granted, rules, uncopied, filled>>
  BY DEF Unmount, UnmountFails, LeaveProvided, DeleteRuleFails, Leaving, Finally
<1>2. PICK c : c = Last(contexts)
  OBVIOUS
<1>3. PICK n : n = Len(contexts)
  OBVIOUS
<1>4. /\ contexts' \in Seq(Context)
      /\ n \in 1..4 /\ c = contexts[n] /\ Entered(n)
      /\ job.pc \in SharePc /\ ~Idle
      /\ This.of = job.res /\ This.by = calls /\ This \in Object
      /\ Source.of = job.res
  BY <1>1, <1>2, <1>3, LeavingFacts
<1>5. /\ "leaving" \in Pcs /\ "leaving" \in RaisingPc /\ "leaving" \in SharePc
      /\ "unmount" \in Ats /\ "deleteRule" \in Ats /\ job.pc \notin EarlyPc
      /\ dest' \in PerhapsAdded(dest, {This})
  BY <1>1 DEF Pcs, Points, SharePc, Ats, Failures, ShareRequests, RaisingPc, EarlyPc,
              PerhapsAdded
<1>6. /\ Works(SharePc)
      /\ job'.pc = "leaving"
      /\ ~job'.raising => ~job.raising
      /\ \/ c.kind = "mount" /\ mounted' = mounted \ {<<c.share, calls>>}
         \/ c.kind = "mount" /\ mounted' = mounted /\ Raised("unmount")
         \/ c.kind = "provided" /\ mounted' = mounted
         \/ c.kind = "access" /\ mounted' = mounted /\ Raised("deleteRule")
  <2>1. CASE Unmount \/ LeaveProvided
    <3>1. /\ Goto("leaving")
          /\ \/ c.kind = "mount" /\ mounted' = mounted \ {<<c.share, calls>>}
             \/ c.kind = "provided" /\ mounted' = mounted
      BY <1>2, <2>1 DEF Unmount, LeaveProvided, Leaving
    <3>2. Works(SharePc) /\ job'.pc = "leaving" /\ job'.raising = job.raising
      BY <1>1, <1>4, <1>5, <3>1, GotoWorks, ShareConstants
    <3>3. QED
      BY <3>1, <3>2
  <2>2. CASE UnmountFails
    <3>1. RaiseTo("leaving", "unmount") /\ c.kind = "mount" /\ mounted' = mounted
      BY <1>2, <2>2 DEF UnmountFails, Leaving
    <3>2. Works(SharePc) /\ job'.pc = "leaving" /\ job'.raising /\ Raised("unmount")
      BY <1>1, <1>4, <1>5, <3>1, RaiseWorks, ShareConstants
    <3>3. QED
      BY <3>1, <3>2
  <2>3. CASE DeleteRuleFails
    <3>1. RaiseTo("leaving", "deleteRule") /\ c.kind = "access" /\ mounted' = mounted
      BY <1>2, <2>3 DEF DeleteRuleFails, Leaving
    <3>2. Works(SharePc) /\ job'.pc = "leaving" /\ job'.raising /\ Raised("deleteRule")
      BY <1>1, <1>4, <1>5, <3>1, RaiseWorks, ShareConstants
    <3>3. QED
      BY <3>1, <3>2
  <2>4. QED
    BY <2>1, <2>2, <2>3
<1>7. This' = This /\ calls' = calls /\ dest \subseteq dest'
  BY <1>6, ShareGoes
<1>8. mounted' \subseteq mounted
  BY <1>6
<1>9. ShareTypeOK'
  BY <1>1, <1>4, <1>7, <1>8 DEF ShareInv, ShareTypeOK, Context
<1>10. c.share.of = job.res
  BY <1>4 DEF Entered
<1>11. ASSUME NEW m \in mounted', c.kind = "mount", m[1] = c.share, m[2] = calls
       PROVE  UnmountFailed(m)'
  <2>1. m = <<c.share, calls>>
    BY <1>8, <1>11 DEF ShareInv, ShareTypeOK
  <2>2. Raised("unmount")
    BY <1>6, <1>11, <2>1
  <2>3. [of |-> m[1].of, by |-> m[2]] = This
    BY <1>10, <1>11 DEF This
  <2>4. [call |-> This, at |-> "unmount"] \in trouble'
    BY <2>2 DEF Raised
  <2>5. QED
    BY <2>3, <2>4 DEF UnmountFailed, Troubled
<1>12. Last(contexts).kind = "access" => Raised("deleteRule")
  BY <1>2, <1>6
<1>13. \A m \in mounted' :
           Last(contexts).kind = "mount" /\ m[1] = Last(contexts).share /\ m[2] = calls =>
              UnmountFailed(m)'
  BY <1>2, <1>11
<1>14. ShareInv'
  BY <1>1, <1>6, <1>8, <1>9, <1>12, <1>13, PopSame
<1>15. QED
  BY <1>6, <1>14

\* The host's access is revoked.
LEMMA DeleteRuleStep ==
    ASSUME CallInv, ShareInv, DeleteRule
    PROVE  Works(SharePc) /\ ShareInv'
<1>1. PICK c : c = Last(contexts)
  OBVIOUS
<1>2. PICK n : n = Len(contexts)
  OBVIOUS
<1>3. /\ job.pc = "leaving" /\ contexts # <<>> /\ contexts' = Front(contexts)
      /\ c.kind = "access"
      /\ rules' = {a \in rules : a.share # c.share \/ a.to # LocalHost}
      /\ Goto("leaving")
      /\ UNCHANGED <<dest, granted, uncopied, mounted, filled>>
  BY <1>1 DEF DeleteRule, Leaving, Finally
<1>4. /\ contexts' \in Seq(Context)
      /\ n \in 1..4 /\ Len(contexts') = n - 1
      /\ \A k \in 1..n - 1 : contexts'[k] = contexts[k]
      /\ c = contexts[n] /\ \A k \in 1..n : Entered(k)
      /\ job.pc \in SharePc /\ ~Idle
      /\ This \in Object /\ This.of = job.res /\ This.by = calls /\ calls > 0
      /\ Source \in Object /\ Source.of = job.res /\ Source.by = 0
      /\ job.res \in Shares /\ status[job.res] = "in-progress"
      /\ job.res \in Resource
  BY <1>1, <1>2, <1>3, LeavingFacts
<1>5. Works(SharePc) /\ job'.pc = "leaving" /\ job'.raising = job.raising
  <2>1. /\ "leaving" \in Pcs /\ "leaving" \in RaisingPc /\ "leaving" \in SharePc
        /\ job.pc \notin EarlyPc
    BY <1>3 DEF Pcs, Points, SharePc, RaisingPc, EarlyPc
  <2>2. QED
    BY <1>3, <1>4, <2>1, GotoWorks, ShareConstants
<1>6. UNCHANGED <<This, Source, calls, status, destination>> /\ job'.res = job.res
      /\ trouble \subseteq trouble' /\ dest \subseteq dest'
  BY <1>5, ShareGoes
<1>7. Entered(n) /\ Revocable(n)
  <2>1. Entered(n)
    BY <1>4
  <2>2. QED
    BY <1>3, <1>4, <2>1 DEF Entered
<1>8. n \in {1, 3} /\ c.share = IF n <= 2 THEN Source ELSE This
  BY <1>3, <1>4, <1>7 DEF Entered
<1>9. Source # This
  BY <1>4
<1>10. ShareTypeOK'
  BY <1>3, <1>4, <1>6 DEF ShareInv, ShareTypeOK, Context
<1>11. \A s : s # c.share /\ HasRule(s, LocalHost) => HasRule(s, LocalHost)'
  BY <1>3 DEF HasRule, RulesOf
<1>12. ToKeep(job.res)' \subseteq ToKeep(job.res)
  BY <1>3, <1>6 DEF ToKeep, RulesOf, SourceShare
<1>13. \A k \in 1..n - 1 : Entered(k)'
  <2>1. TAKE k \in 1..n - 1
  <2>2. Entered(k) /\ ShareTypeOK /\ k \in 1..Len(contexts)
    BY <1>2, <1>4 DEF ShareInv
  <2>3. n = 3 /\ k \in {1, 2}
    BY <1>8
  <2>4. contexts[k].share = Source /\ c.share = This
    BY <1>8, <2>2, <2>3 DEF Entered
  <2>5. \A s : s = contexts[k].share /\ HasRule(s, LocalHost) => HasRule(s, LocalHost)'
    BY <1>9, <1>11, <2>4
  <2>6. \A m \in mounted' : m \in mounted \/ (m[2] = calls /\ k < Len(contexts'))
    BY <1>3
  <2>7. contexts'[k] = contexts[k] /\ granted' = granted
    BY <1>3, <1>4
  <2>8. \/ k < Len(contexts) => k < Len(contexts')
        \/ contexts[k].kind # "access"
    BY <1>4, <2>2, <2>3 DEF Entered
  <2>9. QED
    BY <1>5, <1>12, <2>2, <2>5, <2>6, <2>7, <2>8, EnteredStays
<1>14. Nesting'
  BY <1>4, <1>5, <1>13 DEF Nesting, Depth, OpenPc
<1>15. AccessWhileMounted'
  <2>1. \A m \in mounted : UnmountFailed(m) => UnmountFailed(m)'
    BY <1>6 DEF UnmountFailed, Troubled
  <2>2. \A m \in mounted : m[1] = c.share => UnmountFailed(m)
    BY <1>2, <1>4, <1>7 DEF Revocable
  <2>3. \A m \in mounted : HasRule(m[1], LocalHost) \/ UnmountFailed(m)
    BY DEF ShareInv, AccessWhileMounted, UnmountFailed
  <2>4. \A m \in mounted : HasRule(m[1], LocalHost)' \/ UnmountFailed(m)'
    BY <1>11, <2>1, <2>2, <2>3
  <2>5. QED
    BY <1>3, <2>4 DEF AccessWhileMounted, UnmountFailed
<1>16. UserAccessKept'
  <2>1. ASSUME NEW r \in Shares, NEW u \in granted[r]
        PROVE  HasRule(SourceShare(r), u)'
    <3>1. PICK a \in rules : a.share = SourceShare(r) /\ a.to = u
      BY DEF ShareInv, UserAccessKept, HasRule, RulesOf
    <3>2. ASSUME a.share = c.share, u = LocalHost
          PROVE  FALSE
      <4>1. c.share.by = 0 /\ c.share.of = r
        BY <3>1, <3>2 DEF SourceShare
      <4>2. n = 1 /\ r = job.res
        BY <1>4, <1>8, <4>1
      <4>3. QED
        BY <1>7, <3>2, <4>2 DEF Revocable
    <3>3. a \in rules'
      BY <1>3, <3>1, <3>2
    <3>4. QED
      BY <3>1, <3>3 DEF HasRule, RulesOf, SourceShare
  <2>2. QED
    BY <1>3, <2>1 DEF UserAccessKept
<1>17. RulesInv'
  <2>1. ASSUME NEW a \in rules'
        PROVE  a.share.of \in Shares /\ Accounted(a)'
    <3>1. a \in rules /\ (a.share # c.share \/ a.to # LocalHost)
      BY <1>3
    <3>2. a.share.of \in Shares /\ Accounted(a)
      BY <3>1 DEF ShareInv, RulesInv
    <3>3. RuleTrouble(a) => RuleTrouble(a)'
      BY <1>6 DEF RuleTrouble
    <3>4. ASSUME NEW k \in 1..Len(contexts), contexts[k] = Access(a.share), a.to = LocalHost
          PROVE  \E j \in 1..Len(contexts') : contexts'[j] = Access(a.share)
      <4>1. k # n
        BY <1>4, <3>1, <3>4 DEF Access
      <4>2. k \in 1..n - 1
        BY <1>2, <1>4, <4>1
      <4>3. QED
        BY <1>4, <3>4, <4>2
    <3>5. QED
      BY <1>3, <1>5, <3>2, <3>3, <3>4 DEF Accounted, OpenPc
  <2>2. QED
    BY <2>1 DEF RulesInv
<1>18. CopyInv'
  <2>1. PreserveRules /\ ~Troubled(This, "copyRule")' =>
            \A b \in ToKeep(job.res)' : CopyOf(b, This) \in rules'
    <3>1. Troubled(This, "copyRule") => Troubled(This, "copyRule")'
      BY <1>6 DEF Troubled
    <3>2. PreserveRules /\ ~Troubled(This, "copyRule")' =>
              \A b \in ToKeep(job.res) : CopyOf(b, This) \in rules
      BY <1>3, <1>4, <3>1 DEF ShareInv, CopyInv
    <3>3. \A b \in ToKeep(job.res) : CopyOf(b, This).share = This /\ CopyOf(b, This).to = b.to
      BY <1>4, CopyFacts DEF ToKeep, RulesOf, ShareInv, ShareTypeOK
    <3>4. PreserveRules /\ ~Troubled(This, "copyRule")' =>
              \A b \in ToKeep(job.res) : b.to # LocalHost \/ c.share # This
      BY <1>7, <1>8, <1>9, <3>1 DEF Revocable
    <3>5. QED
      BY <1>3, <1>12, <3>2, <3>3, <3>4
  <2>2. QED
    BY <1>3, <1>5, <1>6, <2>1 DEF ShareInv, CopyInv
<1>19. Preserved'
  <2>1. c.share.of = job.res
    BY <1>4, <1>8
  <2>2. \A r \in Shares : status'[r] = "migrated" =>
            /\ status[r] = "migrated"
            /\ destination'[r] = destination[r]
            /\ \A a \in Rule : a.share.of = r => (a \in rules' <=> a \in rules)
    BY <1>3, <1>4, <1>6, <2>1
  <2>3. QED
    BY <1>3, <1>6, <1>10, <2>2, PreservedStays DEF ShareInv
<1>20. QED
  BY <1>5, <1>10, <1>14, <1>15, <1>16, <1>17, <1>18, <1>19 DEF ShareInv

-----------------------------------------------------------------------------
(* The end of a call, and the steps of other handlers.                     *)

\* Nothing is done to the shares.  Should contexts be open, then the process
\* was killed.
LEMMA ShareRest ==
    ASSUME CallInv, ShareInv, UNCHANGED shareVars,
           dest \subseteq dest', trouble \subseteq trouble',
           job'.pc \notin SharePc, job'.pc = "done" => job'.res \notin Shares,
           job.pc \in OpenPc => Raised("killed"),
           \A r \in Shares : status'[r] = "migrated" =>
              \/ status[r] = "migrated" /\ destination'[r] = destination[r]
              \/ PreserveRules => \A a \in ToKeep(r) :
                    \/ CopyOf(a, destination'[r]) \in rules
                    \/ Troubled(destination'[r], "copyRule")
    PROVE  ShareInv'
<1>1. UNCHANGED <<granted, rules, uncopied, contexts, mounted, filled>>
  BY DEF shareVars
<1>2. ShareTypeOK'
  BY <1>1 DEF ShareInv, ShareTypeOK
<1>3. Nesting'
  BY DEF Nesting
<1>4. AccessWhileMounted' /\ UserAccessKept'
  BY <1>1 DEF ShareInv, AccessWhileMounted, UserAccessKept, HasRule, RulesOf, Troubled,
              SourceShare
<1>5. RulesInv'
  <2>1. ASSUME NEW a \in rules
        PROVE  a.share.of \in Shares /\ Accounted(a)'
    <3>1. a.share.of \in Shares /\ Accounted(a)
      BY DEF ShareInv, RulesInv
    <3>2. RuleTrouble(a) => RuleTrouble(a)'
      BY DEF RuleTrouble
    <3>3. ASSUME job.pc \in OpenPc, NEW k \in 1..Len(contexts),
                 contexts[k] = Access(a.share)
          PROVE  RuleTrouble(a)'
      <4>1. Entered(k)
        BY <3>3 DEF ShareInv, Nesting, OpenPc, SharePc
      <4>2. contexts[k].share = a.share
        BY <3>3 DEF Access
      <4>3. a.share.of = This.of
        BY <4>1, <4>2 DEF Entered, Source, SourceShare, This
      <4>4. [call |-> This, at |-> "killed"] \in trouble'
        BY <3>3 DEF Raised
      <4>5. QED
        BY <4>3, <4>4, <1>1 DEF RuleTrouble
    <3>4. Accounted(a) => a.to \in granted[a.share.of] \/ (a.to = LocalHost /\ RuleTrouble(a)')
      BY <3>2, <3>3 DEF Accounted
    <3>5. QED
      BY <1>1, <3>1, <3>4 DEF Accounted
  <2>2. QED
    BY <1>1, <2>1 DEF RulesInv
<1>6. CopyInv'
  BY DEF CopyInv, SharePc
<1>7. Preserved'
  <2>1. SUFFICES ASSUME NEW r \in Shares, status'[r] = "migrated", PreserveRules,
                        NEW a \in ToKeep(r)'
                 PROVE  \/ (CopyOf(a, destination[r]) \in rules)'
                        \/ Troubled(destination[r], "copyRule")'
    BY DEF Preserved
  <2>2. a \in ToKeep(r)
    BY <1>1 DEF ToKeep, RulesOf, SourceShare
  <2>3. CopyOf(a, destination'[r]) \in rules \/ Troubled(destination'[r], "copyRule")
    <3>1. status[r] = "migrated" => CopyOf(a, destination[r]) \in rules
                                    \/ Troubled(destination[r], "copyRule")
      BY <2>1, <2>2 DEF ShareInv, Preserved
    <3>2. QED
      BY <2>1, <2>2, <3>1
  <2>4. QED
    BY <1>1, <2>3 DEF Troubled
<1>8. QED
  BY <1>2, <1>3, <1>4, <1>5, <1>6, <1>7 DEF ShareInv

LEMMA ShareFails ==
    ASSUME CallInv, ShareInv, CreateShareFails \/ ShareNotAvailable
    PROVE  Fails(SharePc) /\ ShareInv'
<1>1. /\ job.pc \in {"createShare", "shareWait"}
      /\ UNCHANGED shareVars
      /\ dest' \in PerhapsAdded(dest, {This})
      /\ FailCall("createShare") \/ FailCall("shareWait")
  BY DEF CreateShareFails, ShareNotAvailable, Running, PerhapsAdded
<1>2. job.pc \in SharePc /\ ~Idle /\ "createShare" \in Ats /\ "shareWait" \in Ats
  BY <1>1 DEF SharePc, Idle, Ats, Failures, Points
<1>3. Fails(SharePc)
  BY <1>1, <1>2, FailFails
<1>4. /\ dest \subseteq dest' /\ trouble \subseteq trouble'
      /\ status' = [status EXCEPT ![job.res] = "failed"]
      /\ job' = NoJob
      /\ destination' = destination
  BY <1>3 DEF Fails, FailRecord, Grows
<1>5. job'.pc = "idle"
  BY <1>4, NoJobIsIdle
<1>6. \A r \in Shares : status'[r] = "migrated" =>
          status[r] = "migrated" /\ destination'[r] = destination[r]
  BY <1>4, ShareConstants DEF CallInv, CallTyped
<1>7. job'.pc \notin SharePc /\ (job'.pc = "done" => job'.res \notin Shares)
      /\ (job.pc \in OpenPc => Raised("killed"))
  BY <1>1, <1>5 DEF SharePc, OpenPc
<1>8. ShareInv'
  BY <1>1, <1>4, <1>6, <1>7, ShareRest
<1>9. QED
  BY <1>3, <1>8

\* A step of this handler.
LEMMA ShareHandles ==
    ASSUME CallInv, ShareInv, ShareNext
    PROVE  Handles(Shares, SharePc) /\ ShareInv'
<1>1. CASE BeginShare
  BY <1>1, BeginShareStep
<1>2. CASE \/ CreateShare \/ ShareAvailable \/ RulesCopied \/ MountFails
           \/ CopyFiles \/ CopyFilesFails \/ LeaveLast
  BY <1>2, ShareWorks DEF Handles
<1>3. CASE CopyRule \/ CopyRuleFails
  BY <1>3, CopyRuleStep DEF Handles
<1>4. CASE UseRule
  BY <1>4, UseRuleStep DEF Handles
<1>5. CASE AddRule \/ RuleNotActive
  BY <1>5, AddRuleStep DEF Handles
<1>6. CASE AddRuleFails
  BY <1>6, AddRuleFailsStep DEF Handles
<1>7. CASE MountShare
  BY <1>7, MountShareStep DEF Handles
<1>8. CASE Unmount \/ UnmountFails \/ LeaveProvided \/ DeleteRuleFails
  BY <1>8, LeaveStep DEF Handles
<1>9. CASE DeleteRule
  BY <1>9, DeleteRuleStep DEF Handles
<1>10. CASE CreateShareFails \/ ShareNotAvailable
  BY <1>10, ShareFails DEF Handles
<1>11. QED
  BY <1>1, <1>2, <1>3, <1>4, <1>5, <1>6, <1>7, <1>8, <1>9, <1>10 DEF ShareNext

\* One of another handler.
LEMMA ShareElsewhere ==
    ASSUME CallInv, ShareInv, Elsewhere(Shares, SharePc), UNCHANGED shareVars
    PROVE  ShareInv'
<1>1. /\ dest \subseteq dest' /\ trouble \subseteq trouble'
      /\ job.pc \notin SharePc /\ job'.pc \notin SharePc
      /\ ~Idle' => job'.res \notin Shares
      /\ \A r \in Shares : status'[r] = status[r] /\ destination'[r] = destination[r]
  BY DEF Elsewhere
<1>2. (job'.pc = "done" => job'.res \notin Shares) /\ (job.pc \in OpenPc => Raised("killed"))
  BY <1>1 DEF Idle, OpenPc, SharePc
<1>3. QED
  BY <1>1, <1>2, ShareRest

\* The end of any call.
LEMMA ShareEnds ==
    ASSUME CallInv, ShareInv, CallEnds, UNCHANGED shareVars
    PROVE  ShareInv'
<1>1. /\ job' = NoJob /\ job.res \in Resource
      /\ dest \subseteq dest' /\ trouble \subseteq trouble'
      /\ job.pc \in OpenPc => Raised("killed")
  <2>1. ~Idle
    BY DEF CallEnds, CallReturns, CallFails, CrashCall, Running, Finally, Idle
  <2>2. job' = NoJob /\ dest \subseteq dest' /\ trouble \subseteq trouble'
        /\ (job.pc \in OpenPc => Raised("killed"))
    BY DEF CallEnds, CallReturns, CallFails, CrashCall, ReturnDestination, FailRecord,
           Running, Finally, OpenPc, Raised
  <2>3. QED
    BY <2>1, <2>2 DEF CallInv, JobOK
<1>2. job'.pc = "idle"
  BY <1>1, NoJobIsIdle
<1>3. ASSUME NEW r \in Shares, status'[r] = "migrated"
      PROVE  \/ status[r] = "migrated" /\ destination'[r] = destination[r]
             \/ PreserveRules => \A a \in ToKeep(r) :
                   \/ CopyOf(a, destination'[r]) \in rules
                   \/ Troubled(destination'[r], "copyRule")
  <2>1. CASE CallReturns
    <3>1. /\ status' = [status EXCEPT ![job.res] = "migrated"]
          /\ destination' = [destination EXCEPT ![job.res] = This]
          /\ job.pc = "done" /\ ~job.raising
      BY <2>1 DEF CallReturns, ReturnDestination, Running
    <3>2. CASE r = job.res
      <4>1. destination'[r] = This
        BY <1>1, <3>1, <3>2 DEF CallInv, CallTyped
      <4>2. PreserveRules /\ ~Troubled(This, "copyRule") =>
                \A a \in ToKeep(r) : CopyOf(a, This) \in rules
        BY <3>1, <3>2 DEF ShareInv, CopyInv
      <4>3. QED
        BY <4>1, <4>2
    <3>3. CASE r # job.res
      BY <1>3, <3>1, <3>3, ShareConstants DEF CallInv, CallTyped
    <3>4. QED
      BY <3>2, <3>3
  <2>2. CASE CallFails
    BY <1>1, <1>3, <2>2, ShareConstants DEF CallFails, FailRecord, CallInv, CallTyped
  <2>3. CASE CrashCall
    BY <1>3, <2>3 DEF CrashCall
  <2>4. QED
    BY <2>1, <2>2, <2>3 DEF CallEnds
<1>4. job'.pc \notin SharePc /\ (job'.pc = "done" => job'.res \notin Shares)
  BY <1>2 DEF SharePc
<1>5. QED
  BY <1>1, <1>3, <1>4, ShareRest

\* What the invariant says of access to the shares.
LEMMA SharePromises ==
    ASSUME ShareInv
    PROVE  AccessWhileMounted /\ UserAccessKept /\ NoForeignAccess /\ AccessPreserved
<1>1. NoForeignAccess
  <2>1. ASSUME NEW a \in rules
        PROVE  \/ a.to \in granted[a.share.of]
               \/ /\ a.to = LocalHost
                  /\ \/ ~Idle /\ Access(a.share) \in Range(contexts)
                     \/ \E t \in trouble : /\ t.call.of = a.share.of
                                           /\ t.at \in {"addRule", "deleteRule", "killed"}
    <3>1. Accounted(a)
      BY DEF ShareInv, RulesInv
    <3>2. ASSUME NEW k \in 1..Len(contexts), contexts[k] = Access(a.share)
          PROVE  Access(a.share) \in Range(contexts)
      <4>1. k \in DOMAIN contexts
        BY DEF ShareInv, ShareTypeOK
      <4>2. QED
        BY <3>2, <4>1 DEF Range
    <3>3. job.pc \in OpenPc => ~Idle
      BY DEF OpenPc, Idle
    <3>4. QED
      BY <3>1, <3>2, <3>3 DEF Accounted, RuleTrouble
  <2>2. QED
    BY <2>1 DEF NoForeignAccess
<1>2. QED
  BY <1>1, PreservedIsAccess DEF ShareInv

\* And how it begins.
LEMMA ShareBegins ==
    ASSUME CallTyped, status = [r \in Resource |-> "none"], job = NoJob, ShareInit
    PROVE  ShareInv
<1>1. /\ granted \in [Shares -> SUBSET Client]
      /\ uncopied = {} /\ contexts = <<>> /\ mounted = {} /\ filled = {}
  BY DEF ShareInit
<1>2. job.pc = "idle"
  BY DEF NoJob
<1> DEFINE R(r, E) == {[share |-> SourceShare(r), to |-> c, active |-> c \notin E]
                          : c \in granted[r]}
<1>3. PICK erring \in SUBSET (Client \ {LocalHost}) : rules = UNION {R(r, erring) : r \in Shares}
  BY Zenon DEF ShareInit
<1>4. ASSUME NEW r \in Shares, NEW a \in R(r, erring)
      PROVE  a \in Rule /\ a.share = SourceShare(r) /\ a.to \in granted[r]
  <2>1. PICK c \in granted[r] :
            a = [share |-> SourceShare(r), to |-> c, active |-> c \notin erring]
    BY <1>4
  <2>2. SourceShare(r) \in Object /\ c \in Client
    BY <1>1, ShareConstants DEF SourceShare, Object
  <2>3. (c \notin erring) \in BOOLEAN
    OBVIOUS
  <2>4. a \in Rule
    BY <2>1, <2>2, <2>3, Zenon DEF Rule
  <2>5. a.share = SourceShare(r) /\ a.to = c
    BY <2>1, Zenon
  <2>6. QED
    BY <2>4, <2>5
<1>5. ASSUME NEW r \in Shares, NEW c \in granted[r]
      PROVE  \E a \in rules : a.share = SourceShare(r) /\ a.to = c
  <2>1. PICK a : a = [share |-> SourceShare(r), to |-> c, active |-> c \notin erring]
    OBVIOUS
  <2>2. a \in R(r, erring)
    BY <2>1
  <2>3. a.share = SourceShare(r) /\ a.to = c
    BY <2>1, Zenon
  <2> HIDE DEF R
  <2>4. QED
    BY <1>3, <2>2, <2>3
<1> HIDE DEF R
<1>6. ASSUME NEW a \in rules
      PROVE  \E r \in Shares : a \in Rule /\ a.share = SourceShare(r) /\ a.to \in granted[r]
  BY <1>3, <1>4
<1>7. ShareTypeOK
  BY <1>1, <1>6 DEF ShareTypeOK
<1>8. Nesting
  BY <1>2 DEF Nesting, SharePc
<1>9. AccessWhileMounted
  BY <1>1 DEF AccessWhileMounted
<1>10. UserAccessKept
  BY <1>5 DEF UserAccessKept, HasRule, RulesOf
<1>11. RulesInv
  <2>1. ASSUME NEW a \in rules
        PROVE  a.share.of \in Shares /\ Accounted(a)
    <3>1. PICK r \in Shares : a.share = SourceShare(r) /\ a.to \in granted[r]
      BY <1>6
    <3>2. a.share.of = r
      BY <3>1 DEF SourceShare
    <3>3. QED
      BY <3>1, <3>2 DEF Accounted
  <2>2. QED
    BY <2>1 DEF RulesInv
<1>12. CopyInv
  BY <1>2 DEF CopyInv
<1>13. Preserved
  BY ShareConstants DEF Preserved
<1>14. QED
  BY <1>7, <1>8, <1>9, <1>10, <1>11, <1>12, <1>13 DEF ShareInv

\* A share that has the files keeps them.
LEMMA FilesGrow ==
    ASSUME ShareNext
    PROVE  filled \subseteq filled' /\ filled' \subseteq filled \cup {This}
  BY DEF ShareNext, BeginShare, CreateShare, CreateShareFails, ShareAvailable,
         ShareNotAvailable, CopyRule, CopyRuleFails, RulesCopied, UseRule, AddRule,
         AddRuleFails, RuleNotActive, MountShare, MountFails, CopyFiles, CopyFilesFails,
         Unmount, UnmountFails, LeaveProvided, DeleteRule, DeleteRuleFails, LeaveLast,
         shareVars
=============================================================================
