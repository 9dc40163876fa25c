----------------------------- MODULE HandlerProofs -----------------------------
(***************************************************************************)
(* Proofs about the handlers that build an object up from parts (resources *)
(* that are looked up by name, floating IPs and ports, load balancers),    *)
(* and, with those of StorageProofs, the theorems about all handlers: the  *)
(* invariants the runs check, for every value of the constants, and the    *)
(* contract of HandlerContract.                                            *)
(***************************************************************************)
EXTENDS StorageProofs

-----------------------------------------------------------------------------
(* Resources that are looked up by name.                                   *)

PartPc == {"assign", "list", "copy", "specs"}

Complete(o) == \A p \in Parts[o.of] \ (Unscoped \cup Delegations) : <<o, p>> \in given
Mishap(o) == \E t \in trouble : t.call = o

\* An object of ours has all its parts, except those that the call at work has
\* still to come to, or something has gone wrong in the call that created it.
GivenInv ==
    \A o \in dest : o.of \in Named /\ o.by > 0 =>
        \/ /\ job.pc \in PartPc /\ o = This
           /\ \A p \in Parts[o.of] \ (Unscoped \cup Delegations) : p \in remaining \/ <<o, p>> \in given
        \/ Complete(o)
        \/ Mishap(o)

NamedInv ==
    /\ NamedTypeOK
    /\ OneNamesake
    /\ job.pc = "create" => \A o \in dest : o.of # job.res
    /\ job.pc \in {"find", "create"} => remaining = Parts[job.res]
    /\ GivenInv

LEMMA NamedConstants ==
    /\ Handler(Named, NamedPc)
    /\ NamedPc \subseteq Pcs
    /\ \A r \in Named : Parts[r] \subseteq Part
  BY DEF Handler, Pcs, Points, Part

LEMMA MishapStays ==
    ASSUME NEW o, trouble \subseteq trouble', Mishap(o)
    PROVE  Mishap(o)'
  BY DEF Mishap

\* What a step of the call leaves as it is.
LEMMA NamedGoes ==
    ASSUME Works(NamedPc), CallInv, ~Idle
    PROVE  /\ This' = This
           /\ This \in Object
           /\ This.of = job.res
           /\ job.res \in Named
           /\ job'.res = job.res
           /\ dest' \in {dest, dest \cup {This}}
           /\ \A o : Mishap(o) => Mishap(o)'
           /\ job.pc \in PartPc /\ ~job.raising => This \in dest
<1>1. Moves /\ Grows
  BY DEF Works
<1>2. This' = This
  BY <1>1, SameThis
<1>3. \A o : Mishap(o) => Mishap(o)'
  BY <1>1, MishapStays DEF Grows
<1>4. job.res \in Named /\ (job.pc \in PartPc /\ ~job.raising => This \in dest)
  BY DEF Works, CallInv, JobOK, KindOK, EarlyPc, PartPc
<1>5. QED
  BY <1>1, <1>2, <1>3, <1>4, ThisIsObject DEF Moves, Grows

LEMMA BeginNamedStep ==
    ASSUME CallInv, NamedInv, BeginNamed
    PROVE  Handles(Named, NamedPc) /\ NamedInv'
<1>1. PICK r \in Named : Begin(r, "find") /\ remaining' = Parts[r]
  BY DEF BeginNamed
<1>2. job'.res = r /\ job'.pc = "find"
  BY <1>1, BegunJob
<1>3. job.pc = "idle" /\ dest' = dest /\ trouble' = trouble /\ given' = given
  BY <1>1 DEF BeginNamed, Begin, Idle
<1>4. Handles(Named, NamedPc)
  BY <1>1 DEF Handles, Opens, NamedPc, EarlyPc
<1>5. NamedTypeOK' /\ OneNamesake'
  BY <1>1, <1>3, NamedConstants DEF NamedInv, NamedTypeOK, OneNamesake
<1>6. GivenInv'
  BY <1>3 DEF NamedInv, GivenInv, Complete, Mishap, PartPc
<1>7. QED
  BY <1>1, <1>2, <1>4, <1>5, <1>6 DEF NamedInv

LEMMA CreateNamedStep ==
    ASSUME CallInv, NamedInv, CreateNamed
    PROVE  Works(NamedPc) /\ NamedInv'
<1>1. job.pc = "create" /\ ~job.raising /\ ~Idle /\ job.res \in Named
  BY DEF CreateNamed, Running, Idle, CallInv, JobOK, KindOK, NamedPc
<1>2. dest' = dest \cup {This} /\ UNCHANGED <<remaining, given>>
  BY DEF CreateNamed, namedVars
<1> DEFINE pc == PartsOf(job.res)
<1>3. \/ pc \in {"assign", "list", "specs"}
      \/ pc = "done" /\ Parts[job.res] = {}
  BY <1>1, NamedAssumption DEF PartsOf
<1>4. Goto(pc)
  BY DEF CreateNamed
<1> HIDE DEF pc
<1>5. pc \in Pcs /\ pc \in NamedPc \cup {"done"} /\ job.pc \in NamedPc
  BY <1>1, <1>3 DEF NamedPc, Pcs, Points
<1>6. Works(NamedPc) /\ job'.pc = pc
  BY <1>1, <1>2, <1>4, <1>5, GotoWorks, NamedConstants
<1>7. /\ This' = This
      /\ This.of = job.res
      /\ job'.res = job.res
      /\ \A o : Mishap(o) => Mishap(o)'
  BY <1>1, <1>6, NamedGoes
<1>8. remaining = Parts[job.res] /\ \A o \in dest : o.of # job.res
  BY <1>1 DEF NamedInv
<1>9. NamedTypeOK'
  BY <1>2 DEF NamedInv, NamedTypeOK
<1>10. OneNamesake'
  BY <1>2, <1>7, <1>8 DEF NamedInv, OneNamesake
<1>11. GivenInv'
  <2>1. \A o \in dest : o # This
    BY <1>7, <1>8
  <2>2. \A o \in dest : o.of \in Named /\ o.by > 0 => Complete(o) \/ Mishap(o)
    BY <1>1, <2>1 DEF NamedInv, GivenInv, PartPc
  <2>3. Complete(This) \/ (pc \in PartPc /\ Parts[This.of] = remaining)
    BY <1>3, <1>7, <1>8 DEF Complete, PartPc
  <2>4. \A o : Complete(o) => Complete(o)'
    BY <1>2 DEF Complete
  <2>5. \A o \in dest' : o.of \in Named /\ o.by > 0 =>
          \/ /\ job'.pc \in PartPc /\ o = This
             /\ \A p \in Parts[o.of] \ (Unscoped \cup Delegations) : p \in remaining' \/ <<o, p>> \in given'
          \/ Complete(o)'
          \/ Mishap(o)'
    <3>1. TAKE o \in dest'
    <3>2. o \in dest \/ o = This
      BY <1>2
    <3>3. QED
      BY <1>2, <1>6, <1>7, <2>2, <2>3, <2>4, <3>2
  <2>6. QED
    BY <1>7, <2>5 DEF GivenInv
<1>12. QED
  BY <1>3, <1>6, <1>9, <1>10, <1>11 DEF NamedInv

\* A step that does not create the object.
LEMMA NamedWorks ==
    ASSUME CallInv, NamedInv,
           \/ NoneExists \/ AssignRole \/ PassOverUnscoped \/ AssignRoleFails \/ RolesAssigned
           \/ ListRecords \/ CopyRecord \/ CopyRecordFails \/ RecordsCopied \/ SetSpecs
    PROVE  Works(NamedPc) /\ NamedInv'
<1>1. NamedPc \subseteq Pcs
  BY NamedConstants
<1>. USE DEF NamedPc, Running, Idle, EarlyPc, RaisingPc, namedVars, Give
<1>2. CASE NoneExists
  <2>1. Works(NamedPc) /\ job'.pc = "create"
    BY <1>1, <1>2, GotoWorks DEF NoneExists, Pcs
  <2>2. NamedTypeOK' /\ OneNamesake'
    BY <1>2, <2>1, NamedGoes DEF NoneExists, NamedInv, NamedTypeOK, OneNamesake, PartPc, PerhapsAdded
  <2>3. GivenInv'
    BY <1>2, <2>1, NamedGoes
    DEF NoneExists, NamedInv, GivenInv, Complete, PartPc, PerhapsAdded
  <2>4. QED
    BY <1>2, <2>1, <2>2, <2>3, NamedGoes DEF NoneExists, NamedInv
<1>3. CASE AssignRole
  <2>1. Works(NamedPc) /\ job'.pc = "assign"
    BY <1>1, <1>3, GotoWorks DEF AssignRole, Pcs
  <2>2. NamedTypeOK' /\ OneNamesake'
    BY <1>3, <2>1, NamedGoes DEF AssignRole, NamedInv, NamedTypeOK, OneNamesake, PartPc, PerhapsAdded
  <2>3. GivenInv'
    BY <1>3, <2>1, NamedGoes
    DEF AssignRole, NamedInv, GivenInv, Complete, PartPc, PerhapsAdded
  <2>4. QED
    BY <1>3, <2>1, <2>2, <2>3, NamedGoes DEF AssignRole, NamedInv
<1>4. CASE AssignRoleFails
  <2>1. Works(NamedPc) /\ job'.pc = "done" /\ Raised("assign")
    BY <1>1, <1>4, LogWorks DEF AssignRoleFails, Pcs, Ats, Failures, Points
  <2>2. \A o : o = This => Mishap(o)'
    BY <1>4, <2>1, RaisedHere DEF AssignRoleFails, Mishap, Ats, Failures, Points
  <2>3. NamedTypeOK' /\ OneNamesake'
    BY <1>4, <2>1, NamedGoes DEF AssignRoleFails, NamedInv, NamedTypeOK, OneNamesake, PartPc, PerhapsAdded
  <2>4. GivenInv'
    BY <1>4, <2>1, <2>2, NamedGoes
    DEF AssignRoleFails, NamedInv, GivenInv, Complete, PartPc, PerhapsAdded
  <2>5. QED
    BY <1>4, <2>1, <2>3, <2>4, NamedGoes DEF AssignRoleFails, NamedInv
<1>5. CASE RolesAssigned
  <2>1. Works(NamedPc) /\ job'.pc = "done"
    BY <1>1, <1>5, GotoWorks DEF RolesAssigned, Pcs
  <2>2. NamedTypeOK' /\ OneNamesake'
    BY <1>5, <2>1, NamedGoes DEF RolesAssigned, NamedInv, NamedTypeOK, OneNamesake, PartPc, PerhapsAdded
  <2>3. GivenInv'
    BY <1>5, <2>1, NamedGoes
    DEF RolesAssigned, NamedInv, GivenInv, Complete, PartPc, PerhapsAdded
  <2>4. QED
    BY <1>5, <2>1, <2>2, <2>3, NamedGoes DEF RolesAssigned, NamedInv
<1>6. CASE ListRecords
  <2>1. Works(NamedPc) /\ job'.pc = "copy"
    BY <1>1, <1>6, GotoWorks DEF ListRecords, Pcs
  <2>2. NamedTypeOK' /\ OneNamesake'
    BY <1>6, <2>1, NamedGoes DEF ListRecords, NamedInv, NamedTypeOK, OneNamesake, PartPc, PerhapsAdded
  <2>3. GivenInv'
    BY <1>6, <2>1, NamedGoes
    DEF ListRecords, NamedInv, GivenInv, Complete, PartPc, PerhapsAdded
  <2>4. QED
    BY <1>6, <2>1, <2>2, <2>3, NamedGoes DEF ListRecords, NamedInv
<1>7. CASE CopyRecord
  <2>1. Works(NamedPc) /\ job'.pc = "copy"
    BY <1>1, <1>7, GotoWorks DEF CopyRecord, Pcs
  <2>2. NamedTypeOK' /\ OneNamesake'
    BY <1>7, <2>1, NamedGoes DEF CopyRecord, NamedInv, NamedTypeOK, OneNamesake, PartPc, PerhapsAdded
  <2>3. GivenInv'
    BY <1>7, <2>1, NamedGoes
    DEF CopyRecord, NamedInv, GivenInv, Complete, PartPc, PerhapsAdded
  <2>4. QED
    BY <1>7, <2>1, <2>2, <2>3, NamedGoes DEF CopyRecord, NamedInv
<1>8. CASE CopyRecordFails
  <2>1. Works(NamedPc) /\ job'.pc = "copy" /\ Raised("copy")
    BY <1>1, <1>8, LogWorks DEF CopyRecordFails, Pcs, Ats, Failures, Points
  <2>2. \A o : o = This => Mishap(o)'
    BY <1>8, <2>1, RaisedHere DEF CopyRecordFails, Mishap, Ats, Failures, Points
  <2>3. NamedTypeOK' /\ OneNamesake'
    BY <1>8, <2>1, NamedGoes DEF CopyRecordFails, NamedInv, NamedTypeOK, OneNamesake, PartPc, PerhapsAdded
  <2>4. GivenInv'
    BY <1>8, <2>1, <2>2, NamedGoes
    DEF CopyRecordFails, NamedInv, GivenInv, Complete, PartPc, PerhapsAdded
  <2>5. QED
    BY <1>8, <2>1, <2>3, <2>4, NamedGoes DEF CopyRecordFails, NamedInv
<1>9. CASE RecordsCopied
  <2>1. Works(NamedPc) /\ job'.pc = "done"
    BY <1>1, <1>9, GotoWorks DEF RecordsCopied, Pcs
  <2>2. NamedTypeOK' /\ OneNamesake'
    BY <1>9, <2>1, NamedGoes DEF RecordsCopied, NamedInv, NamedTypeOK, OneNamesake, PartPc, PerhapsAdded
  <2>3. GivenInv'
    BY <1>9, <2>1, NamedGoes
    DEF RecordsCopied, NamedInv, GivenInv, Complete, PartPc, PerhapsAdded
  <2>4. QED
    BY <1>9, <2>1, <2>2, <2>3, NamedGoes DEF RecordsCopied, NamedInv
<1>10. CASE SetSpecs
  <2>1. Works(NamedPc) /\ job'.pc = "done"
    BY <1>1, <1>10, GotoWorks DEF SetSpecs, Pcs
  <2>2. NamedTypeOK' /\ OneNamesake'
    BY <1>10, <2>1, NamedGoes DEF SetSpecs, NamedInv, NamedTypeOK, OneNamesake, PartPc, PerhapsAdded
  <2>3. GivenInv'
    BY <1>10, <2>1, NamedGoes
    DEF SetSpecs, NamedInv, GivenInv, Complete, PartPc, PerhapsAdded
  <2>4. QED
    BY <1>10, <2>1, <2>2, <2>3, NamedGoes DEF SetSpecs, NamedInv
<1>11. CASE PassOverUnscoped
  <2>1. Works(NamedPc) /\ job'.pc = "assign"
    BY <1>1, <1>11, GotoWorks DEF PassOverUnscoped, Pcs
  <2>2. NamedTypeOK' /\ OneNamesake'
    BY <1>11, <2>1, NamedGoes DEF PassOverUnscoped, NamedInv, NamedTypeOK, OneNamesake, PartPc, PerhapsAdded
  <2>3. GivenInv'
    BY <1>11, <2>1, NamedGoes
    DEF PassOverUnscoped, NamedInv, GivenInv, Complete, PartPc, PerhapsAdded
  <2>4. QED
    BY <1>11, <2>1, <2>2, <2>3, NamedGoes DEF PassOverUnscoped, NamedInv
<1>12. QED
  BY <1>2, <1>3, <1>4, <1>5, <1>6, <1>7, <1>8, <1>9, <1>10, <1>11

\* A failure that ends the call; the last request may have been carried out.
LEMMA NamedFails ==
    ASSUME CallInv, NamedInv, FindFails \/ CreateNamedFails \/ ListRecordsFails \/ SetSpecsFails
    PROVE  Fails(NamedPc) /\ NamedInv'
<1>1. /\ job.pc \in {"find", "create", "list", "specs"} /\ ~job.raising
      /\ \E at \in {"find", "create", "list", "specs"} : FailCall(at)
      /\ dest' \in PerhapsAdded(dest, IF job.pc = "create" THEN {This} ELSE {})
      /\ remaining' = remaining
      /\ \/ given' = given
         \/ job.pc = "specs" /\ given' = given \cup ({This} \X remaining)
  BY DEF FindFails, CreateNamedFails, ListRecordsFails, SetSpecsFails, Running,
         PerhapsAdded, namedVars
<1>2. PICK at \in {"find", "create", "list", "specs"} : FailCall(at)
  BY <1>1
<1>3. job.pc \in NamedPc /\ ~Idle /\ at \in Ats /\ dest' \in PerhapsAdded(dest, {This})
  BY <1>1 DEF NamedPc, Idle, Ats, Failures, Points, PerhapsAdded
<1>4. Fails(NamedPc) /\ Raised(at)
  BY <1>2, <1>3, FailFails
<1>5. job'.pc = "idle" /\ trouble \subseteq trouble' /\ dest \subseteq dest'
  BY <1>4, NoJobIsIdle DEF Fails, Grows, FailRecord
<1>6. \A o : o = This => Mishap(o)'
  BY <1>3, <1>4, RaisedHere DEF Mishap
<1>7. \A o : Mishap(o) => Mishap(o)'
  BY <1>5, MishapStays
<1>8. This.of = job.res /\ This \in Object /\ (job.pc = "specs" => This \in dest)
  BY <1>1, <1>3, ThisIsObject DEF CallInv, JobOK, EarlyPc
<1>9. job.pc = "create" => \A o \in dest : o.of # job.res
  BY DEF NamedInv
<1>10. NamedTypeOK'
  BY <1>1, <1>5, <1>8 DEF NamedInv, NamedTypeOK
<1>11. OneNamesake'
  BY <1>1, <1>8, <1>9 DEF NamedInv, OneNamesake, PerhapsAdded
<1>12. GivenInv'
  <2>1. \A o \in dest' : o \in dest \/ o = This
    BY <1>1 DEF PerhapsAdded
  <2>2. \A o : Complete(o) => Complete(o)'
    BY <1>1 DEF Complete
  <2>3. QED
    BY <1>6, <1>7, <2>1, <2>2 DEF NamedInv, GivenInv
<1>13. QED
  BY <1>4, <1>5, <1>10, <1>11, <1>12 DEF NamedInv

\* The call returns a namesake it has found.
Finds ==
    /\ Running("find")
    /\ \E o \in dest : o.of = job.res /\ ReturnDestination(o)

LEMMA NamedFinds ==
    ASSUME CallInv, NamedInv, FindExisting
    PROVE  Finds /\ NamedInv'
<1>1. Finds /\ UNCHANGED <<remaining, given>>
  BY DEF FindExisting, Finds, namedVars
<1>2. job.pc = "find" /\ job'.pc = "idle" /\ UNCHANGED <<dest, trouble>>
  BY <1>1, NoJobIsIdle DEF Finds, ReturnDestination, Running
<1>3. NamedTypeOK' /\ OneNamesake'
  BY <1>1, <1>2 DEF NamedInv, NamedTypeOK, OneNamesake
<1>4. GivenInv'
  BY <1>1, <1>2 DEF NamedInv, GivenInv, Complete, Mishap, PartPc
<1>5. QED
  BY <1>1, <1>2, <1>3, <1>4 DEF NamedInv

LEMMA NamedHandles ==
    ASSUME CallInv, NamedInv, NamedNext
    PROVE  (Handles(Named, NamedPc) \/ Finds) /\ NamedInv'
  BY BeginNamedStep, CreateNamedStep, NamedWorks, NamedFails, NamedFinds
  DEF NamedNext, Handles

\* The steps of the others do not matter to these resources.
LEMMA NamedElsewhere ==
    ASSUME CallInv, NamedInv, Elsewhere(Named, NamedPc), UNCHANGED namedVars
    PROVE  NamedInv'
<1>1. UNCHANGED <<remaining, given>>
  BY DEF namedVars
<1>2. \A o \in dest' : o.of \in Named => o \in dest
  BY DEF Elsewhere
<1>3. NamedTypeOK' /\ OneNamesake'
  BY <1>1, <1>2 DEF NamedInv, NamedTypeOK, OneNamesake, Elsewhere
<1>4. \A o : (Mishap(o) => Mishap(o)') /\ (Complete(o) => Complete(o)')
  BY <1>1, MishapStays DEF Complete, Elsewhere
<1>5. job.pc \notin PartPc
  BY DEF Elsewhere, PartPc, NamedPc
<1>6. GivenInv'
  BY <1>2, <1>4, <1>5 DEF NamedInv, GivenInv
<1>7. QED
  BY <1>3, <1>6 DEF NamedInv, Elsewhere, NamedPc

LEMMA NamedEnds ==
    ASSUME CallInv, NamedInv, CallEnds, UNCHANGED namedVars
    PROVE  NamedInv'
<1>1. UNCHANGED <<remaining, given>>
  BY DEF namedVars
<1>2. job'.pc = "idle" /\ trouble \subseteq trouble' /\ dest' = dest
  BY NoJobIsIdle
  DEF CallEnds, CallReturns, CallFails, CrashCall, ReturnDestination, FailRecord
<1>3. job.pc = "done" \/ \A o : o = This => Mishap(o)'
  <2>1. CrashCall => ~Idle /\ Raised("killed")
    BY DEF CrashCall, Raised
  <2>2. "killed" \in Ats
    BY DEF Ats
  <2>3. CrashCall => \E t \in trouble' : t.call = This
    BY <2>1, <2>2, RaisedHere
  <2>4. QED
    BY <2>3 DEF Mishap, CallEnds, CallReturns, CallFails, Running, Finally
<1>4. \A o : (Mishap(o) => Mishap(o)') /\ (Complete(o) => Complete(o)')
  BY <1>1, <1>2, MishapStays DEF Complete
<1>5. NamedTypeOK' /\ OneNamesake'
  BY <1>1, <1>2 DEF NamedInv, NamedTypeOK, OneNamesake
<1>6. GivenInv'
  BY <1>2, <1>3, <1>4 DEF NamedInv, GivenInv, PartPc
<1>7. QED
  BY <1>2, <1>5, <1>6 DEF NamedInv

-----------------------------------------------------------------------------
(* Floating IPs, ports, and the floating IPs of load balancers.            *)

EndpointPc == IpPc \cup PortPc \cup BalancerPc

Joined(f, o) == status[f] = "migrated" /\ <<destination[f], o>> \in attached

\* The endpoint has its floating IPs, those aside that came too late.
Followed(e) ==
    \A f \in FloatingIpsOf[e] :
        Joined(f, destination[e]) \/ (e \notin Ports /\ f \in Latecomers)

\* Where there is but one interface that can be found for a floating IP, it has
\* been added.
Routed(f) ==
    \A e \in Endpoints : f \in FloatingIpsOf[e] =>
        \A g \in Gateways : Listed = {<<g, SubnetOf[e]>>} =>
            <<g, SubnetOf[e]>> \in routes

\* What has been migrated.
StandInv ==
    /\ EndpointTypeOK
    /\ \A a \in attached : a[2] \in dest
    /\ \A e \in Endpoints : status[e] = "migrated" => Followed(e)
    /\ \A f \in FloatingIps : status[f] = "migrated" => Routed(f)

\* The call at work for a floating IP, and that for an endpoint.
RouteInv ==
    /\ job.pc = "addInterface" => route \in Listed
    /\ job.pc \in {"createIp", "done"} /\ job.res \in FloatingIps => Routed(job.res)

AttachInv ==
    /\ job.pc \in BalancerPc =>
          \A f \in FloatingIpsOf[job.res] \ Latecomers : status[f] = "migrated"
    /\ job.pc \in {"reattach", "vip"} =>
          unattached \subseteq FloatingIpsOf[job.res]
    /\ job.pc \in {"reattach", "vip", "done"} /\ job.res \in Endpoints =>
          \A f \in FloatingIpsOf[job.res] :
             \/ job.pc # "done" /\ f \in unattached
             \/ job.res \notin Ports /\ f \in Latecomers
             \/ Joined(f, This)

EndpointInv == StandInv /\ RouteInv /\ AttachInv

LEMMA EndpointConstants ==
    /\ Handler(FloatingIps, IpPc) /\ Handler(Ports, PortPc)
    /\ Handler(LoadBalancers, BalancerPc)
    /\ IpPc \subseteq Pcs /\ PortPc \subseteq Pcs /\ BalancerPc \subseteq Pcs
    /\ FloatingIps \subseteq Resource /\ Endpoints \subseteq Resource
    /\ Endpoints = Ports \cup LoadBalancers
    /\ FloatingIps \cap Endpoints = {} /\ Ports \cap LoadBalancers = {}
    /\ \A e \in Endpoints : FloatingIpsOf[e] \subseteq FloatingIps
    /\ \A e, x \in Endpoints : e # x => FloatingIpsOf[e] \cap FloatingIpsOf[x] = {}
<1>1. /\ Handler(FloatingIps, IpPc) /\ Handler(Ports, PortPc)
      /\ Handler(LoadBalancers, BalancerPc)
  BY DEF Handler
<1>2. IpPc \subseteq Pcs /\ PortPc \subseteq Pcs /\ BalancerPc \subseteq Pcs
  BY DEF Pcs, Points
<1>3. FloatingIps \subseteq Resource /\ Endpoints = Ports \cup LoadBalancers
      /\ Endpoints \subseteq Resource
  BY EndpointAssumption, LoadBalancerAssumption
<1>4. IpPc # PortPc /\ IpPc # BalancerPc /\ PortPc # BalancerPc
  <2>1. "findRoute" \in IpPc /\ "findRoute" \notin PortPc /\ "findRoute" \notin BalancerPc
    BY DEF IpPc, PortPc, BalancerPc
  <2>2. "reattach" \in PortPc /\ "reattach" \notin BalancerPc
    BY DEF PortPc, BalancerPc
  <2>3. QED
    BY <2>1, <2>2
<1>5. FloatingIps \cap Ports = {} /\ FloatingIps \cap LoadBalancers = {}
      /\ Ports \cap LoadBalancers = {}
  BY <1>1, <1>4, KindsApart
<1>6. \A e \in Endpoints : FloatingIpsOf[e] \subseteq FloatingIps
  BY EndpointAssumption
<1>7. \A e, x \in Endpoints : e # x => FloatingIpsOf[e] \cap FloatingIpsOf[x] = {}
  BY EndpointAssumption
<1>8. QED
  BY <1>1, <1>2, <1>3, <1>5, <1>6, <1>7

\* A resource that has been migrated stays so, and only the end of a call can
\* make it that.
RecordsStay ==
    \A r \in Resource :
        /\ status[r] = "migrated" => status'[r] = "migrated" /\ destination'[r] = destination[r]
        /\ status'[r] = "migrated" => status[r] = "migrated"

LEMMA HandlesRecords ==
    ASSUME NEW kind, NEW pcs, Handler(kind, pcs), CallInv, Handles(kind, pcs)
    PROVE  RecordsStay
<1>1. CASE Opens(kind, pcs)
  <2>1. PICK r \in kind : \E pc \in pcs \cap EarlyPc : Begin(r, pc)
    BY <1>1 DEF Opens
  <2>2. PICK pc \in pcs \cap EarlyPc : Begin(r, pc)
    BY <2>1
  <2>3. /\ status' = [status EXCEPT ![r] = "in-progress"]
        /\ destination' = [destination EXCEPT ![r] = NoDest]
        /\ status[r] # "migrated"
    BY <2>2 DEF Begin
  <2>4. QED
    BY <2>3 DEF CallInv, CallTyped, RecordsStay
<1>2. CASE Works(pcs)
  BY <1>2 DEF Works, Moves, RecordsStay
<1>3. CASE Fails(pcs)
  <2>1. status' = [status EXCEPT ![job.res] = "failed"] /\ destination' = destination
    BY <1>3 DEF Fails, FailRecord
  <2>2. ~Idle
    BY <1>3, HandlerFacts DEF Fails, Idle
  <2>3. job.res \in Resource /\ status[job.res] = "in-progress"
    BY <2>2 DEF CallInv, JobOK
  <2>4. QED
    BY <2>1, <2>3 DEF CallInv, CallTyped, RecordsStay
<1>4. QED
  BY <1>1, <1>2, <1>3 DEF Handles

\* What has been migrated is not disturbed: a floating IP is taken from an
\* endpoint only for the one it belongs to.
LEMMA StandStays ==
    ASSUME CallInv, StandInv, EndpointTypeOK', sourceRoutes' = sourceRoutes,
           routes \subseteq routes', dest \subseteq dest',
           \A a \in attached' : a \in attached \/ a[2] \in dest',
           \A r \in Resource : status[r] = "migrated" =>
              status'[r] = "migrated" /\ destination'[r] = destination[r],
           attached' # attached => job.res \in Endpoints /\ status[job.res] = "in-progress",
           \A a \in attached \ attached' :
              \E f \in FloatingIpsOf[job.res] : status[f] = "migrated" /\ a[1] = destination[f],
           \A e \in Endpoints : status'[e] = "migrated" => status[e] = "migrated" \/ Followed(e)',
           \A f \in FloatingIps : status'[f] = "migrated" => status[f] = "migrated" \/ Routed(f)'
    PROVE  StandInv'
<1>1. \A a \in attached' : a[2] \in dest'
  BY DEF StandInv
<1>2. ASSUME NEW e \in Endpoints, status[e] = "migrated"
      PROVE  Followed(e)'
  <2>1. status'[e] = "migrated" /\ destination'[e] = destination[e] /\ Followed(e)
    BY <1>2, EndpointConstants DEF StandInv
  <2>2. ASSUME NEW f \in FloatingIpsOf[e], Joined(f, destination[e])
        PROVE  Joined(f, destination[e])'
    <3>1. f \in Resource /\ status[f] = "migrated"
      BY <2>2, EndpointConstants DEF Joined
    <3>2. status'[f] = "migrated" /\ destination'[f] = destination[f]
      BY <3>1
    <3>3. destination[f].of = f
      BY <3>1 DEF CallInv
    <3>4. ASSUME <<destination[f], destination[e]>> \notin attached'
          PROVE  FALSE
      <4>1. PICK g \in FloatingIpsOf[job.res] :
                status[g] = "migrated" /\ destination[f] = destination[g]
        BY <2>2, <3>4 DEF Joined
      <4>2. job.res \in Endpoints /\ status[job.res] = "in-progress"
        BY <2>2, <3>4 DEF Joined
      <4>3. g \in Resource
        BY <4>2, EndpointConstants
      <4>4. destination[g].of = g
        BY <4>1, <4>3 DEF CallInv
      <4>5. f = g
        BY <3>3, <4>1, <4>4
      <4>6. e = job.res
        BY <4>2, <4>5, EndpointConstants
      <4>7. QED
        BY <1>2, <4>2, <4>6
    <3>5. QED
      BY <2>1, <3>2, <3>4 DEF Joined
  <2>3. QED
    BY <2>1, <2>2 DEF Followed
<1>3. ASSUME NEW f \in FloatingIps, status[f] = "migrated"
      PROVE  Routed(f)'
  <2>1. Routed(f)
    BY <1>3 DEF StandInv
  <2>2. QED
    BY <2>1 DEF Routed, Listed
<1>4. QED
  BY <1>1, <1>2, <1>3 DEF StandInv

\* Where there is no call for these resources, or none yet.
LEMMA NoEndpointAtWork ==
    ASSUME job'.pc \notin EndpointPc,
           job'.pc = "done" => job'.res \notin FloatingIps /\ job'.res \notin Endpoints
    PROVE  RouteInv' /\ AttachInv'
  BY DEF RouteInv, AttachInv, EndpointPc, IpPc, PortPc, BalancerPc

\* Nothing is done to the network.
LEMMA EndpointRest ==
    ASSUME CallInv, StandInv, UNCHANGED endpointVars, dest \subseteq dest',
           \A r \in Resource : status[r] = "migrated" =>
              status'[r] = "migrated" /\ destination'[r] = destination[r],
           \A e \in Endpoints : status'[e] = "migrated" => status[e] = "migrated" \/ Followed(e)',
           \A f \in FloatingIps : status'[f] = "migrated" => status[f] = "migrated" \/ Routed(f)'
    PROVE  StandInv'
<1>1. UNCHANGED <<preserve, sourceRoutes, routes, route, unattached, attached>>
  BY DEF endpointVars
<1>2. EndpointTypeOK'
  BY <1>1 DEF StandInv, EndpointTypeOK
<1>3. /\ routes \subseteq routes'
      /\ \A a \in attached' : a \in attached \/ a[2] \in dest'
      /\ attached' # attached => job.res \in Endpoints /\ status[job.res] = "in-progress"
      /\ \A a \in attached \ attached' :
            \E f \in FloatingIpsOf[job.res] : status[f] = "migrated" /\ a[1] = destination[f]
  BY <1>1
<1>4. QED
  BY <1>1, <1>2, <1>3, StandStays

\* The same for a step of a call.
LEMMA EndpointQuiet ==
    ASSUME CallInv, StandInv, UNCHANGED endpointVars, dest \subseteq dest', RecordsStay
    PROVE  StandInv'
<1>1. \A r \in Resource : status[r] = "migrated" =>
          status'[r] = "migrated" /\ destination'[r] = destination[r]
  BY DEF RecordsStay
<1>2. \A e \in Endpoints : status'[e] = "migrated" => status[e] = "migrated" \/ Followed(e)'
  BY EndpointConstants DEF RecordsStay
<1>3. \A f \in FloatingIps : status'[f] = "migrated" => status[f] = "migrated" \/ Routed(f)'
  BY EndpointConstants DEF RecordsStay
<1>4. QED
  BY <1>1, <1>2, <1>3, EndpointRest

\* Steps of handlers of other kinds.
LEMMA EndpointElsewhere ==
    ASSUME CallInv, EndpointInv, UNCHANGED endpointVars, Elsewhere(FloatingIps, IpPc),
           Elsewhere(Ports, PortPc), Elsewhere(LoadBalancers, BalancerPc),
           \A r \in Resource : status[r] = "migrated" =>
              status'[r] = "migrated" /\ destination'[r] = destination[r]
    PROVE  EndpointInv'
<1>1. dest \subseteq dest'
  BY DEF Elsewhere
<1>2. \A r \in FloatingIps \cup Endpoints : status'[r] = status[r]
  BY EndpointConstants DEF Elsewhere
<1>3. \A e \in Endpoints : status'[e] = "migrated" => status[e] = "migrated" \/ Followed(e)'
  BY <1>2
<1>4. \A f \in FloatingIps : status'[f] = "migrated" => status[f] = "migrated" \/ Routed(f)'
  BY <1>2
<1>5. StandInv'
  BY <1>1, <1>3, <1>4, EndpointRest DEF EndpointInv
<1>6. job'.pc \notin EndpointPc
  BY DEF Elsewhere, EndpointPc
<1>7. job'.pc = "done" => job'.res \notin FloatingIps /\ job'.res \notin Endpoints
  BY EndpointConstants DEF Elsewhere, Idle
<1>8. QED
  BY <1>5, <1>6, <1>7, NoEndpointAtWork DEF EndpointInv

\* What a step of a call leaves as it is.
LEMMA CallGoes ==
    ASSUME NEW pcs, Works(pcs), CallInv
    PROVE  /\ This' = This /\ job'.res = job.res /\ ~Idle
           /\ UNCHANGED <<wanted, status, destination, calls>>
           /\ dest \subseteq dest' /\ trouble \subseteq trouble'
           /\ This \in Object /\ This.of = job.res
           /\ job.res \in Resource /\ status[job.res] = "in-progress"
<1>1. Moves /\ Grows
  BY DEF Works
<1>2. This' = This
  BY <1>1, SameThis
<1>3. This \in Object /\ This.of = job.res
  BY <1>1, ThisIsObject DEF Moves
<1>4. job.res \in Resource /\ status[job.res] = "in-progress"
  BY <1>1 DEF Moves, CallInv, JobOK
<1>5. QED
  BY <1>1, <1>2, <1>3, <1>4 DEF Moves, Grows

-----------------------------------------------------------------------------
(* Calls for floating IPs.                                                 *)

LEMMA BeginFloatingIpStep ==
    ASSUME CallInv, EndpointInv, BeginFloatingIp
    PROVE  Handles(FloatingIps, IpPc) /\ EndpointInv'
<1>1. PICK f \in FloatingIps : Begin(f, "findRoute")
  BY DEF BeginFloatingIp
<1>2. Handles(FloatingIps, IpPc)
  BY <1>1 DEF Handles, Opens, IpPc, EarlyPc
<1>3. dest' = dest /\ UNCHANGED endpointVars
  BY <1>1 DEF BeginFloatingIp, Begin
<1>4. StandInv'
  BY <1>2, <1>3, EndpointConstants, HandlesRecords, EndpointQuiet DEF EndpointInv
<1>5. job'.pc = "findRoute"
  BY <1>1, BegunJob
<1>6. RouteInv' /\ AttachInv'
  BY <1>5 DEF RouteInv, AttachInv, BalancerPc
<1>7. QED
  BY <1>2, <1>4, <1>6 DEF EndpointInv

\* The router is looked for.
LEMMA FindRouteStep ==
    ASSUME CallInv, EndpointInv, FindRoute \/ SkipInterface \/ NoRoute
    PROVE  Handles(FloatingIps, IpPc) /\ EndpointInv'
<1>1. /\ job.pc = "findRoute" /\ ~job.raising /\ ~Idle
      /\ UNCHANGED <<dest, preserve, sourceRoutes, routes, unattached, attached>>
  BY DEF FindRoute, SkipInterface, NoRoute, Running, Idle, endpointVars
<1>2. \/ /\ route' \in Listed
         /\ Goto(IF route' \in routes THEN "createIp" ELSE "addInterface")
      \/ /\ route' = route
         /\ Goto("createIp")
         /\ AttachedOnSource(job.res) =>
               Listed = {} \/ \E announced, found \in Listed : announced # found
  BY DEF FindRoute, SkipInterface, NoRoute, endpointVars
<1>3. PICK pc \in {"createIp", "addInterface"} :
          /\ Goto(pc)
          /\ pc = "addInterface" => route' \in Listed
          /\ pc = "createIp" =>
                \/ route' \in Listed /\ route' \in routes
                \/ AttachedOnSource(job.res) =>
                      Listed = {} \/ \E announced, found \in Listed : announced # found
          /\ route' \in sourceRoutes \cup {route}
  BY <1>2 DEF Listed
<1>4. Works(IpPc) /\ job'.pc = pc
  <2>1. pc \in Pcs /\ pc \in IpPc /\ pc \in EarlyPc /\ job.pc \in IpPc /\ IpPc \subseteq Pcs
    BY <1>1, EndpointConstants DEF IpPc, EarlyPc
  <2>2. QED
    BY <1>1, <1>3, <2>1, GotoWorks
<1>5. Handles(FloatingIps, IpPc) /\ RecordsStay
  BY <1>4, EndpointConstants, HandlesRecords DEF Handles
<1>6. EndpointTypeOK'
  BY <1>1, <1>3 DEF EndpointInv, StandInv, EndpointTypeOK
<1>7. StandInv'
  <2>1. /\ routes \subseteq routes' /\ dest \subseteq dest'
        /\ \A a \in attached' : a \in attached \/ a[2] \in dest'
        /\ attached' # attached => job.res \in Endpoints /\ status[job.res] = "in-progress"
        /\ \A a \in attached \ attached' :
              \E f \in FloatingIpsOf[job.res] : status[f] = "migrated" /\ a[1] = destination[f]
    BY <1>1
  <2>2. UNCHANGED <<status, destination>>
    BY <1>4, CallGoes
  <2>3. QED
    BY <1>1, <1>6, <2>1, <2>2, StandStays DEF EndpointInv
<1>8. job'.res = job.res
  BY <1>4, CallGoes
<1>9. RouteInv'
  <2>1. pc = "createIp" => Routed(job.res)'
    <3>1. SUFFICES ASSUME pc = "createIp", NEW e \in Endpoints, job.res \in FloatingIpsOf[e],
                          NEW g \in Gateways, Listed = {<<g, SubnetOf[e]>>}
                   PROVE  <<g, SubnetOf[e]>> \in routes
      BY <1>1, <1>8 DEF Routed, Listed
    <3>2. AttachedOnSource(job.res)
      BY <3>1 DEF AttachedOnSource
    <3>3. route' \in Listed /\ route' \in routes
      BY <1>3, <3>1, <3>2
    <3>4. QED
      BY <3>1, <3>3
  <2>2. QED
    BY <1>1, <1>3, <1>4, <1>8, <2>1 DEF RouteInv, Listed
<1>10. AttachInv'
  BY <1>3, <1>4 DEF AttachInv, BalancerPc
<1>11. QED
  BY <1>5, <1>7, <1>9, <1>10 DEF EndpointInv

LEMMA AddInterfaceStep ==
    ASSUME CallInv, EndpointInv, AddInterface
    PROVE  Handles(FloatingIps, IpPc) /\ EndpointInv'
<1>1. /\ job.pc = "addInterface" /\ ~job.raising /\ ~Idle
      /\ routes' = routes \cup {route}
      /\ Goto("createIp")
      /\ UNCHANGED <<dest, preserve, sourceRoutes, route, unattached, attached>>
  BY DEF AddInterface, Running, Idle
<1>2. Works(IpPc) /\ job'.pc = "createIp"
  <2>1. "createIp" \in Pcs /\ "createIp" \in IpPc /\ "createIp" \in EarlyPc
        /\ job.pc \in IpPc /\ IpPc \subseteq Pcs
    BY <1>1, EndpointConstants DEF IpPc, EarlyPc
  <2>2. QED
    BY <1>1, <2>1, GotoWorks
<1>3. Handles(FloatingIps, IpPc)
  BY <1>2 DEF Handles
<1>4. route \in Listed /\ route \in sourceRoutes
  BY <1>1 DEF EndpointInv, RouteInv, Listed
<1>5. EndpointTypeOK'
  BY <1>1, <1>4 DEF EndpointInv, StandInv, EndpointTypeOK
<1>6. job'.res = job.res /\ UNCHANGED <<status, destination>>
  BY <1>2, CallGoes
<1>7. StandInv'
  <2>1. /\ routes \subseteq routes' /\ dest \subseteq dest'
        /\ \A a \in attached' : a \in attached \/ a[2] \in dest'
        /\ attached' # attached => job.res \in Endpoints /\ status[job.res] = "in-progress"
        /\ \A a \in attached \ attached' :
              \E f \in FloatingIpsOf[job.res] : status[f] = "migrated" /\ a[1] = destination[f]
    BY <1>1
  <2>2. QED
    BY <1>1, <1>5, <1>6, <2>1, StandStays DEF EndpointInv
<1>8. RouteInv'
  <2>1. Routed(job.res)'
    BY <1>1, <1>4, <1>6 DEF Routed, Listed
  <2>2. QED
    BY <1>2, <1>6, <2>1 DEF RouteInv
<1>9. AttachInv'
  BY <1>2 DEF AttachInv, BalancerPc
<1>10. QED
  BY <1>3, <1>7, <1>8, <1>9 DEF EndpointInv

LEMMA CreateIpStep ==
    ASSUME CallInv, EndpointInv, CreateIp
    PROVE  Handles(FloatingIps, IpPc) /\ EndpointInv'
<1>1. /\ job.pc = "createIp" /\ ~job.raising /\ ~Idle
      /\ dest' = dest \cup {This}
      /\ Goto("done")
      /\ UNCHANGED endpointVars
  BY DEF CreateIp, Running, Idle
<1>2. Works(IpPc) /\ job'.pc = "done"
  <2>1. "done" \in Pcs /\ job.pc \in IpPc /\ IpPc \subseteq Pcs
    BY <1>1, EndpointConstants DEF IpPc, Pcs
  <2>2. QED
    BY <1>1, <2>1, GotoWorks
<1>3. Handles(FloatingIps, IpPc) /\ RecordsStay
  BY <1>2, EndpointConstants, HandlesRecords DEF Handles
<1>4. StandInv'
  BY <1>1, <1>3, EndpointQuiet DEF EndpointInv
<1>5. job'.res = job.res
  BY <1>2, CallGoes
<1>6. job.res \in FloatingIps
  BY <1>1 DEF CallInv, JobOK, KindOK, IpPc
<1>7. RouteInv'
  <2>1. Routed(job.res)
    BY <1>1, <1>6 DEF EndpointInv, RouteInv
  <2>2. UNCHANGED <<sourceRoutes, routes>>
    BY <1>1 DEF endpointVars
  <2>3. QED
    BY <1>2, <1>5, <2>1, <2>2 DEF RouteInv, Routed, Listed
<1>8. AttachInv'
  <2>1. job'.res \notin Endpoints
    BY <1>5, <1>6, EndpointConstants
  <2>2. QED
    BY <1>2, <2>1 DEF AttachInv, BalancerPc
<1>9. QED
  BY <1>3, <1>4, <1>7, <1>8 DEF EndpointInv

\* A failure ends the call.
LEMMA FloatingIpFails ==
    ASSUME CallInv, EndpointInv, FindRouteFails \/ AddInterfaceFails \/ CreateIpFails
    PROVE  Handles(FloatingIps, IpPc) /\ EndpointInv'
<1>1. /\ job.pc \in {"findRoute", "addInterface", "createIp"} /\ ~Idle
      /\ FailCall("findRoute") \/ FailCall("addInterface") \/ FailCall("createIp")
      /\ dest' \in PerhapsAdded(dest, {This})
      /\ UNCHANGED <<preserve, sourceRoutes, route, unattached, attached>>
      /\ routes' = routes \/ (job.pc = "addInterface" /\ routes' = routes \cup {route})
  BY DEF FindRouteFails, AddInterfaceFails, CreateIpFails, Running, Idle, endpointVars,
         PerhapsAdded
<1>2. Fails(IpPc)
  <2>1. /\ "findRoute" \in Ats /\ "addInterface" \in Ats /\ "createIp" \in Ats
        /\ job.pc \in IpPc
    BY <1>1 DEF Ats, Failures, Points, IpPc
  <2>2. QED
    BY <1>1, <2>1, FailFails
<1>3. Handles(FloatingIps, IpPc) /\ RecordsStay
  BY <1>2, EndpointConstants, HandlesRecords DEF Handles
<1>4. job'.pc = "idle" /\ dest \subseteq dest'
  BY <1>2, NoJobIsIdle DEF Fails, FailRecord, Grows
<1>5. routes \subseteq routes' /\ routes' \subseteq sourceRoutes
  BY <1>1 DEF EndpointInv, RouteInv, Listed, StandInv, EndpointTypeOK
<1>6. EndpointTypeOK'
  BY <1>1, <1>5 DEF EndpointInv, StandInv, EndpointTypeOK
<1>7. StandInv'
  <2>1. /\ \A a \in attached' : a \in attached \/ a[2] \in dest'
        /\ attached' # attached => job.res \in Endpoints /\ status[job.res] = "in-progress"
        /\ \A a \in attached \ attached' :
              \E f \in FloatingIpsOf[job.res] : status[f] = "migrated" /\ a[1] = destination[f]
    BY <1>1
  <2>2. \A r \in Resource : status[r] = "migrated" =>
            status'[r] = "migrated" /\ destination'[r] = destination[r]
    BY <1>3 DEF RecordsStay
  <2>3. /\ \A e \in Endpoints :
              status'[e] = "migrated" => status[e] = "migrated" \/ Followed(e)'
        /\ \A f \in FloatingIps :
              status'[f] = "migrated" => status[f] = "migrated" \/ Routed(f)'
    BY <1>3, EndpointConstants DEF RecordsStay
  <2>4. QED
    BY <1>1, <1>4, <1>5, <1>6, <2>1, <2>2, <2>3, StandStays DEF EndpointInv
<1>8. RouteInv' /\ AttachInv'
  BY <1>4, NoEndpointAtWork DEF EndpointPc, IpPc, PortPc, BalancerPc
<1>9. QED
  BY <1>3, <1>7, <1>8 DEF EndpointInv

-----------------------------------------------------------------------------
(* Calls for ports, and the attaching of floating IPs.                     *)

LEMMA BeginPortStep ==
    ASSUME CallInv, EndpointInv, BeginPort
    PROVE  Handles(Ports, PortPc) /\ EndpointInv'
<1>1. PICK p \in Ports : Begin(p, "createPort")
  BY DEF BeginPort
<1>2. Handles(Ports, PortPc)
  BY <1>1 DEF Handles, Opens, PortPc, EarlyPc
<1>3. dest' = dest /\ UNCHANGED endpointVars
  BY <1>1 DEF BeginPort, Begin
<1>4. StandInv'
  BY <1>2, <1>3, EndpointConstants, HandlesRecords, EndpointQuiet DEF EndpointInv
<1>5. job'.pc = "createPort"
  BY <1>1, BegunJob
<1>6. RouteInv' /\ AttachInv'
  BY <1>5 DEF RouteInv, AttachInv, BalancerPc
<1>7. QED
  BY <1>2, <1>4, <1>6 DEF EndpointInv

LEMMA CreatePortStep ==
    ASSUME CallInv, EndpointInv, CreatePort
    PROVE  Handles(Ports, PortPc) /\ EndpointInv'
<1>1. /\ job.pc = "createPort" /\ ~job.raising /\ ~Idle
      /\ dest' = dest \cup {This}
      /\ unattached' = FloatingIpsOf[job.res]
      /\ Goto("reattach")
      /\ UNCHANGED <<preserve, sourceRoutes, routes, route, attached>>
  BY DEF CreatePort, Running, Idle
<1>2. Works(PortPc) /\ job'.pc = "reattach"
  <2>1. "reattach" \in Pcs /\ "reattach" \in PortPc /\ job.pc \in PortPc /\ PortPc \subseteq Pcs
    BY <1>1, EndpointConstants DEF PortPc
  <2>2. QED
    BY <1>1, <2>1, GotoWorks
<1>3. Handles(Ports, PortPc) /\ RecordsStay
  BY <1>2, EndpointConstants, HandlesRecords DEF Handles
<1>4. job'.res = job.res /\ This' = This /\ UNCHANGED <<status, destination>>
  BY <1>2, CallGoes
<1>5. job.res \in Endpoints /\ FloatingIpsOf[job.res] \subseteq FloatingIps
  BY <1>1, EndpointConstants DEF CallInv, JobOK, KindOK, PortPc
<1>6. EndpointTypeOK'
  BY <1>1, <1>5 DEF EndpointInv, StandInv, EndpointTypeOK
<1>7. StandInv'
  <2>1. /\ routes \subseteq routes' /\ dest \subseteq dest'
        /\ \A a \in attached' : a \in attached \/ a[2] \in dest'
        /\ attached' # attached => job.res \in Endpoints /\ status[job.res] = "in-progress"
        /\ \A a \in attached \ attached' :
              \E f \in FloatingIpsOf[job.res] : status[f] = "migrated" /\ a[1] = destination[f]
    BY <1>1 DEF EndpointInv, StandInv
  <2>2. QED
    BY <1>1, <1>4, <1>6, <2>1, StandStays DEF EndpointInv
<1>8. RouteInv'
  BY <1>2 DEF RouteInv
<1>9. AttachInv'
  BY <1>1, <1>2, <1>4 DEF AttachInv, BalancerPc
<1>10. QED
  BY <1>3, <1>7, <1>8, <1>9 DEF EndpointInv

LEMMA CreatePortFailsStep ==
    ASSUME CallInv, EndpointInv, CreatePortFails
    PROVE  Handles(Ports, PortPc) /\ EndpointInv'
<1>1. /\ job.pc = "createPort" /\ ~Idle
      /\ FailCall("createPort")
      /\ dest' \in PerhapsAdded(dest, {This})
      /\ UNCHANGED endpointVars
  BY DEF CreatePortFails, Running, Idle, PerhapsAdded
<1>2. Fails(PortPc)
  <2>1. "createPort" \in Ats /\ job.pc \in PortPc
    BY <1>1 DEF Ats, Failures, Points, PortPc
  <2>2. QED
    BY <1>1, <2>1, FailFails
<1>3. Handles(Ports, PortPc) /\ RecordsStay
  BY <1>2, EndpointConstants, HandlesRecords DEF Handles
<1>4. job'.pc = "idle" /\ dest \subseteq dest'
  BY <1>2, NoJobIsIdle DEF Fails, FailRecord, Grows
<1>5. StandInv'
  BY <1>1, <1>3, <1>4, EndpointQuiet DEF EndpointInv
<1>6. RouteInv' /\ AttachInv'
  BY <1>4, NoEndpointAtWork DEF EndpointPc, IpPc, PortPc, BalancerPc
<1>7. QED
  BY <1>3, <1>5, <1>6 DEF EndpointInv

\* Ports and load balancers attach floating IPs alike.
Attaches(kind, pcs, pc) ==
    \/ kind = Ports /\ pcs = PortPc /\ pc = "reattach"
    \/ kind = LoadBalancers /\ pcs = BalancerPc /\ pc = "vip"

LEMMA AttachingFacts ==
    ASSUME NEW kind, NEW pcs, NEW pc, Attaches(kind, pcs, pc), CallInv, EndpointInv,
           job.pc = pc
    PROVE  /\ Handler(kind, pcs) /\ pcs \subseteq Pcs /\ pc \in pcs /\ pc \notin EarlyPc
           /\ pc # "addInterface" /\ pc # "createIp" /\ pc # "done" /\ pc \in Pcs
           /\ job.res \in Endpoints /\ job.res \notin FloatingIps /\ ~Idle
           /\ unattached \subseteq FloatingIpsOf[job.res]
           /\ FloatingIpsOf[job.res] \subseteq FloatingIps
           /\ \A f \in FloatingIpsOf[job.res] :
                 \/ f \in unattached
                 \/ job.res \notin Ports /\ f \in Latecomers
                 \/ Joined(f, This)
           /\ This \in Object /\ This.of = job.res /\ status[job.res] = "in-progress"
           /\ ~job.raising => This \in dest
<1>1. /\ Handler(kind, pcs) /\ pcs \subseteq Pcs /\ pc \in pcs /\ pc \notin EarlyPc
      /\ pc # "addInterface" /\ pc # "createIp" /\ pc # "done" /\ pc \in Pcs
  BY EndpointConstants DEF Attaches, PortPc, BalancerPc, EarlyPc
<1>2. ~Idle
  BY DEF Attaches, Idle
<1>3. job.res \in Ports \cup LoadBalancers
  BY DEF Attaches, CallInv, JobOK, KindOK, PortPc, BalancerPc
<1>4. job.res \in Endpoints /\ job.res \notin FloatingIps
      /\ FloatingIpsOf[job.res] \subseteq FloatingIps
  BY <1>3, EndpointConstants
<1>5. /\ unattached \subseteq FloatingIpsOf[job.res]
      /\ \A f \in FloatingIpsOf[job.res] :
            \/ f \in unattached
            \/ job.res \notin Ports /\ f \in Latecomers
            \/ Joined(f, This)
  BY <1>4 DEF Attaches, EndpointInv, AttachInv
<1>6. This \in Object /\ This.of = job.res
  BY <1>2, ThisIsObject
<1>7. status[job.res] = "in-progress" /\ (~job.raising => This \in dest)
  BY <1>1, <1>2 DEF CallInv, JobOK
<1>8. QED
  BY <1>1, <1>2, <1>4, <1>5, <1>6, <1>7

\* What the attaching of one floating IP does to the others.
LEMMA AttachOne ==
    ASSUME CallInv, EndpointInv, NEW f \in FloatingIpsOf[job.res], job.res \in Endpoints,
           status[job.res] = "in-progress", Attachable(f), This \in Object,
           attached' = AttachedTo(f, This)
    PROVE  /\ <<destination[f], This>> \in attached'
           /\ attached' \subseteq attached \cup {<<destination[f], This>>}
           /\ \A a \in attached \ attached' : a[1] = destination[f]
           /\ attached' \subseteq Object \X Object
           /\ \A e \in FloatingIpsOf[job.res] :
                 Joined(e, This) => <<destination[e], This>> \in attached'
<1>1. f \in Resource /\ status[f] = "migrated"
  BY EndpointConstants DEF Attachable
<1>2. destination[f] \in Object
  BY <1>1 DEF CallInv, CallTyped
<1>3. attached' = {a \in attached : a[1] # destination[f]} \cup {<<destination[f], This>>}
  BY DEF AttachedTo
<1>4. attached \subseteq Object \X Object
  BY DEF EndpointInv, StandInv, EndpointTypeOK
<1>5. ASSUME NEW e \in FloatingIpsOf[job.res], Joined(e, This)
      PROVE  <<destination[e], This>> \in attached'
  BY <1>3, <1>5 DEF Joined
<1>6. QED
  BY <1>2, <1>3, <1>4, <1>5

\* One floating IP after the other.
LEMMA ReattachStep ==
    ASSUME NEW kind, NEW pcs, NEW pc, Attaches(kind, pcs, pc), CallInv, EndpointInv,
           Reattach(pc)
    PROVE  /\ Works(pcs) /\ EndpointInv'
           /\ \A a \in attached' : a \in attached \/ a[2] = This
<1>1. /\ job.pc = pc /\ ~job.raising
      /\ Goto(pc)
      /\ UNCHANGED <<dest, preserve, sourceRoutes, routes, route>>
  BY DEF Reattach, Running
<1>2. /\ Handler(kind, pcs) /\ pcs \subseteq Pcs /\ pc \in pcs /\ pc \notin EarlyPc
      /\ pc # "addInterface" /\ pc # "createIp" /\ pc # "done" /\ pc \in Pcs
      /\ job.res \in Endpoints /\ job.res \notin FloatingIps /\ ~Idle
      /\ unattached \subseteq FloatingIpsOf[job.res]
      /\ FloatingIpsOf[job.res] \subseteq FloatingIps
      /\ \A f \in FloatingIpsOf[job.res] :
            \/ f \in unattached
            \/ job.res \notin Ports /\ f \in Latecomers
            \/ Joined(f, This)
      /\ This \in Object /\ This.of = job.res /\ status[job.res] = "in-progress"
      /\ ~job.raising => This \in dest
  BY <1>1, AttachingFacts
<1>3. PICK f \in unattached :
          /\ Attachable(f)
          /\ attached' = AttachedTo(f, This)
          /\ unattached' = unattached \ {f}
  BY DEF Reattach
<1>4. /\ <<destination[f], This>> \in attached'
      /\ attached' \subseteq attached \cup {<<destination[f], This>>}
      /\ \A a \in attached \ attached' : a[1] = destination[f]
      /\ attached' \subseteq Object \X Object
      /\ \A e \in FloatingIpsOf[job.res] :
            Joined(e, This) => <<destination[e], This>> \in attached'
  BY <1>2, <1>3, AttachOne
<1>5. Works(pcs) /\ job'.pc = pc
  BY <1>1, <1>2, GotoWorks
<1>6. job'.res = job.res /\ This' = This /\ UNCHANGED <<status, destination>>
  BY <1>5, CallGoes
<1>7. EndpointTypeOK'
  BY <1>1, <1>3, <1>4 DEF EndpointInv, StandInv, EndpointTypeOK
<1>8. StandInv'
  <2>1. /\ routes \subseteq routes' /\ dest \subseteq dest'
        /\ \A a \in attached' : a \in attached \/ a[2] \in dest'
    BY <1>1, <1>2, <1>4
  <2>2. \A a \in attached \ attached' :
            \E g \in FloatingIpsOf[job.res] : status[g] = "migrated" /\ a[1] = destination[g]
    BY <1>2, <1>3, <1>4 DEF Attachable
  <2>3. attached' # attached => job.res \in Endpoints /\ status[job.res] = "in-progress"
    BY <1>2
  <2>4. QED
    BY <1>1, <1>6, <1>7, <2>1, <2>2, <2>3, StandStays DEF EndpointInv
<1>9. RouteInv'
  BY <1>2, <1>5 DEF RouteInv
<1>10. AttachInv'
  <2>1. job'.pc \in BalancerPc =>
            \A e \in FloatingIpsOf[job.res] \ Latecomers : status[e] = "migrated"
    BY <1>1, <1>5 DEF EndpointInv, AttachInv
  <2>2. unattached' \subseteq FloatingIpsOf[job.res]
    BY <1>2, <1>3
  <2>3. \A e \in FloatingIpsOf[job.res] :
            \/ e \in unattached'
            \/ job.res \notin Ports /\ e \in Latecomers
            \/ status[e] = "migrated" /\ <<destination[e], This>> \in attached'
    BY <1>2, <1>3, <1>4 DEF Attachable, Joined
  <2>4. QED
    BY <1>2, <1>5, <1>6, <2>1, <2>2, <2>3 DEF AttachInv, Joined
<1>11. \A a \in attached' : a \in attached \/ a[2] = This
  BY <1>4
<1>12. QED
  BY <1>5, <1>8, <1>9, <1>10, <1>11 DEF EndpointInv

LEMMA AllAttachedStep ==
    ASSUME NEW kind, NEW pcs, NEW pc, Attaches(kind, pcs, pc), CallInv, EndpointInv,
           AllAttached(pc)
    PROVE  Works(pcs) /\ EndpointInv' /\ UNCHANGED endpointVars /\ job'.pc = "done"
<1>1. /\ job.pc = pc /\ ~job.raising /\ unattached = {}
      /\ Goto("done") /\ dest' = dest /\ UNCHANGED endpointVars
  BY DEF AllAttached, Running
<1>2. /\ Handler(kind, pcs) /\ pcs \subseteq Pcs /\ pc \in pcs /\ pc \notin EarlyPc
      /\ job.res \in Endpoints /\ job.res \notin FloatingIps /\ ~Idle
      /\ \A f \in FloatingIpsOf[job.res] :
            \/ f \in unattached
            \/ job.res \notin Ports /\ f \in Latecomers
            \/ Joined(f, This)
  BY <1>1, AttachingFacts
<1>3. Works(pcs) /\ job'.pc = "done"
  <2>1. "done" \in Pcs
    BY DEF Pcs
  <2>2. QED
    BY <1>1, <1>2, <2>1, GotoWorks
<1>4. job'.res = job.res /\ This' = This /\ UNCHANGED <<status, destination>>
  BY <1>3, CallGoes
<1>5. StandInv'
  <2>1. dest \subseteq dest' /\ RecordsStay
    BY <1>1, <1>4 DEF RecordsStay
  <2>2. QED
    BY <1>1, <2>1, EndpointQuiet DEF EndpointInv
<1>6. RouteInv'
  BY <1>2, <1>3, <1>4 DEF RouteInv
<1>7. AttachInv'
  BY <1>1, <1>2, <1>3, <1>4 DEF AttachInv, BalancerPc, Joined, endpointVars
<1>8. QED
  BY <1>1, <1>3, <1>5, <1>6, <1>7 DEF EndpointInv

LEMMA ReattachFailsStep ==
    ASSUME NEW kind, NEW pcs, NEW pc, Attaches(kind, pcs, pc), CallInv, EndpointInv,
           ReattachFails(pc)
    PROVE  /\ Fails(pcs) /\ EndpointInv' /\ dest' = dest
           /\ \A a \in attached' : a \in attached \/ a[2] = This
<1>1. /\ job.pc = pc /\ ~job.raising
      /\ FailCall("attach")
      /\ UNCHANGED <<dest, preserve, sourceRoutes, routes, route, unattached>>
  BY DEF ReattachFails, Running
<1>2. /\ Handler(kind, pcs) /\ pc \in pcs /\ pc \notin EarlyPc
      /\ job.res \in Endpoints /\ ~Idle
      /\ unattached \subseteq FloatingIpsOf[job.res]
      /\ This \in Object /\ This \in dest /\ status[job.res] = "in-progress"
  BY <1>1, AttachingFacts
<1>3. \/ attached' = attached
      \/ \E f \in unattached : Attachable(f) /\ attached' = AttachedTo(f, This)
  BY DEF ReattachFails
<1>4. /\ attached' \subseteq Object \X Object
      /\ \A a \in attached' : a \in attached \/ a[2] = This
      /\ \A a \in attached \ attached' :
            \E g \in FloatingIpsOf[job.res] : status[g] = "migrated" /\ a[1] = destination[g]
  <2>1. CASE attached' = attached
    BY <2>1 DEF EndpointInv, StandInv, EndpointTypeOK
  <2>2. CASE \E f \in unattached : Attachable(f) /\ attached' = AttachedTo(f, This)
    <3>1. PICK f \in unattached : Attachable(f) /\ attached' = AttachedTo(f, This)
      BY <2>2
    <3>2. f \in FloatingIpsOf[job.res] /\ status[f] = "migrated"
      BY <1>2, <3>1 DEF Attachable
    <3>3. /\ attached' \subseteq attached \cup {<<destination[f], This>>}
          /\ \A a \in attached \ attached' : a[1] = destination[f]
          /\ attached' \subseteq Object \X Object
      BY <1>2, <3>1, <3>2, AttachOne
    <3>4. QED
      BY <3>2, <3>3
  <2>3. QED
    BY <1>3, <2>1, <2>2
<1>5. Fails(pcs)
  <2>1. "attach" \in Ats /\ dest' \in PerhapsAdded(dest, {This})
    BY <1>1 DEF Ats, Failures, PerhapsAdded
  <2>2. QED
    BY <1>1, <1>2, <2>1, FailFails
<1>6. Handles(kind, pcs) /\ RecordsStay
  BY <1>2, <1>5, HandlesRecords DEF Handles
<1>7. job'.pc = "idle"
  BY <1>5, NoJobIsIdle DEF Fails, FailRecord
<1>8. EndpointTypeOK'
  BY <1>1, <1>4 DEF EndpointInv, StandInv, EndpointTypeOK
<1>9. StandInv'
  <2>1. /\ routes \subseteq routes' /\ dest \subseteq dest'
        /\ \A a \in attached' : a \in attached \/ a[2] \in dest'
        /\ attached' # attached => job.res \in Endpoints /\ status[job.res] = "in-progress"
    BY <1>1, <1>2, <1>4
  <2>2. \A r \in Resource : status[r] = "migrated" =>
            status'[r] = "migrated" /\ destination'[r] = destination[r]
    BY <1>6 DEF RecordsStay
  <2>3. /\ \A e \in Endpoints :
              status'[e] = "migrated" => status[e] = "migrated" \/ Followed(e)'
        /\ \A g \in FloatingIps :
              status'[g] = "migrated" => status[g] = "migrated" \/ Routed(g)'
    BY <1>6, EndpointConstants DEF RecordsStay
  <2>4. QED
    BY <1>1, <1>4, <1>8, <2>1, <2>2, <2>3, StandStays DEF EndpointInv
<1>10. RouteInv' /\ AttachInv'
  BY <1>7, NoEndpointAtWork DEF EndpointPc, IpPc, PortPc, BalancerPc
<1>11. QED
  BY <1>1, <1>4, <1>5, <1>9, <1>10 DEF EndpointInv

\* A step of these handlers.  Whatever it attaches is attached to its object.
LEMMA EndpointHandles ==
    ASSUME CallInv, EndpointInv, EndpointNext
    PROVE  /\ Handles(FloatingIps, IpPc) \/ Handles(Ports, PortPc)
           /\ EndpointInv'
           /\ \A a \in attached' : a \in attached \/ (a[2] = This /\ job.res \in Ports)
<1>1. CASE BeginFloatingIp
  BY <1>1, BeginFloatingIpStep DEF BeginFloatingIp, endpointVars
<1>2. CASE FindRoute \/ SkipInterface \/ NoRoute
  BY <1>2, FindRouteStep DEF FindRoute, SkipInterface, NoRoute, endpointVars
<1>3. CASE AddInterface
  BY <1>3, AddInterfaceStep DEF AddInterface
<1>4. CASE CreateIp
  BY <1>4, CreateIpStep DEF CreateIp, endpointVars
<1>5. CASE FindRouteFails \/ AddInterfaceFails \/ CreateIpFails
  BY <1>5, FloatingIpFails DEF FindRouteFails, AddInterfaceFails, CreateIpFails, endpointVars
<1>6. CASE BeginPort
  BY <1>6, BeginPortStep DEF BeginPort, endpointVars
<1>7. CASE CreatePort
  BY <1>7, CreatePortStep DEF CreatePort
<1>8. CASE CreatePortFails
  BY <1>8, CreatePortFailsStep DEF CreatePortFails, endpointVars
<1>9. CASE \/ Reattach("reattach") \/ ReattachFails("reattach") \/ AllAttached("reattach")
  <2>1. Attaches(Ports, PortPc, "reattach")
    BY DEF Attaches
  <2>2. job.res \in Ports
    BY <1>9 DEF Reattach, ReattachFails, AllAttached, Running, CallInv, JobOK, KindOK, PortPc
  <2>3. CASE Reattach("reattach")
    BY <2>1, <2>2, <2>3, ReattachStep DEF Handles
  <2>4. CASE ReattachFails("reattach")
    BY <2>1, <2>2, <2>4, ReattachFailsStep DEF Handles
  <2>5. CASE AllAttached("reattach")
    BY <2>1, <2>2, <2>5, AllAttachedStep DEF Handles, endpointVars
  <2>6. QED
    BY <1>9, <2>3, <2>4, <2>5
<1>10. QED
  BY <1>1, <1>2, <1>3, <1>4, <1>5, <1>6, <1>7, <1>8, <1>9 DEF EndpointNext


\* A call that ends may make its resource a migrated one.
LEMMA EndpointEnds ==
    ASSUME CallInv, EndpointInv, CallEnds, UNCHANGED endpointVars
    PROVE  EndpointInv'
<1>1. job'.pc = "idle" /\ dest' = dest
  BY NoJobIsIdle
  DEF CallEnds, CallReturns, CallFails, CrashCall, ReturnDestination, FailRecord
<1>2. ~Idle /\ job.res \in Resource /\ status[job.res] = "in-progress"
  <2>1. ~Idle
    BY DEF CallEnds, CallReturns, CallFails, CrashCall, Running, Finally, Idle
  <2>2. QED
    BY <2>1 DEF CallInv, JobOK
<1>3. status \in [Resource -> Statuses] /\ destination \in [Resource -> Object \cup {NoDest}]
  BY DEF CallInv, CallTyped
<1>4. \A r \in Resource : r # job.res => status'[r] = status[r] /\ destination'[r] = destination[r]
  BY <1>2, <1>3
  DEF CallEnds, CallReturns, CallFails, CrashCall, ReturnDestination, FailRecord
<1>5. status'[job.res] = "migrated" => job.pc = "done" /\ destination'[job.res] = This
  BY <1>2, <1>3
  DEF CallEnds, CallReturns, CallFails, CrashCall, ReturnDestination, FailRecord, Running
<1>6. \A r \in Resource : status[r] = "migrated" =>
          status'[r] = "migrated" /\ destination'[r] = destination[r]
  BY <1>2, <1>4
<1>7. UNCHANGED <<sourceRoutes, routes, attached>>
  BY DEF endpointVars
<1>8. ASSUME NEW e \in Endpoints, status'[e] = "migrated", status[e] # "migrated"
      PROVE  Followed(e)'
  <2>1. e = job.res /\ job.pc = "done" /\ destination'[e] = This
    BY <1>4, <1>5, <1>8, EndpointConstants
  <2>2. \A f \in FloatingIpsOf[e] :
            \/ e \notin Ports /\ f \in Latecomers
            \/ status[f] = "migrated" /\ <<destination[f], This>> \in attached
    BY <2>1 DEF EndpointInv, AttachInv, Joined
  <2>3. \A f \in FloatingIpsOf[e] : f \in Resource
    BY EndpointConstants
  <2>4. QED
    BY <1>6, <1>7, <2>1, <2>2, <2>3 DEF Followed, Joined
<1>9. ASSUME NEW f \in FloatingIps, status'[f] = "migrated", status[f] # "migrated"
      PROVE  Routed(f)'
  <2>1. f = job.res /\ job.pc = "done"
    BY <1>4, <1>5, <1>9, EndpointConstants
  <2>2. Routed(f)
    BY <2>1 DEF EndpointInv, RouteInv
  <2>3. QED
    BY <1>7, <2>2 DEF Routed, Listed
<1>10. StandInv'
  <2>1. dest \subseteq dest'
    BY <1>1
  <2>2. \A e \in Endpoints : status'[e] = "migrated" => status[e] = "migrated" \/ Followed(e)'
    BY <1>8
  <2>3. \A f \in FloatingIps : status'[f] = "migrated" => status[f] = "migrated" \/ Routed(f)'
    BY <1>9
  <2>4. QED
    BY <1>6, <2>1, <2>2, <2>3, EndpointRest DEF EndpointInv
<1>11. RouteInv' /\ AttachInv'
  BY <1>1, NoEndpointAtWork DEF EndpointPc, IpPc, PortPc, BalancerPc
<1>12. QED
  BY <1>10, <1>11 DEF EndpointInv

LEMMA EndpointBegins ==
    ASSUME status = [r \in Resource |-> "none"], job = NoJob, EndpointInit
    PROVE  EndpointInv
<1>1. job.pc = "idle" /\ attached = {}
  BY DEF NoJob, EndpointInit
<1>2. \A r \in FloatingIps \cup Endpoints : status[r] # "migrated"
  BY EndpointConstants
<1>3. EndpointTypeOK
  BY DEF EndpointInit, EndpointTypeOK
<1>4. StandInv
  BY <1>1, <1>2, <1>3 DEF StandInv
<1>5. RouteInv /\ AttachInv
  BY <1>1 DEF RouteInv, AttachInv, BalancerPc
<1>6. QED
  BY <1>4, <1>5 DEF EndpointInv

\* What the invariant promises to the runs.
LEMMA EndpointPromises ==
    ASSUME EndpointInv
    PROVE  FloatingIpsFollow /\ RouteReady
<1>1. FloatingIpsFollow
  BY DEF EndpointInv, StandInv, Followed, Joined, FloatingIpsFollow
<1>2. RouteReady
  <2>1. SUFFICES ASSUME NEW e \in Endpoints, NEW f \in FloatingIpsOf[e],
                        status[f] = "migrated",
                        NEW g \in Gateways, Listed = {<<g, SubnetOf[e]>>}
                 PROVE  Reachable(SubnetOf[e], routes)
    BY DEF RouteReady
  <2>2. Routed(f)
    BY <2>1, EndpointConstants DEF EndpointInv, StandInv
  <2>3. <<g, SubnetOf[e]>> \in routes
    BY <2>2, <2>1 DEF Routed, Listed
  <2>4. QED
    BY <2>3 DEF Reachable
<1>3. QED
  BY <1>1, <1>2

-----------------------------------------------------------------------------
(* Load balancers.                                                         *)

ListenerAt(i) == Listeners[job.res][i]
Positions == DOMAIN Listeners[job.res]

\* The pool was created once, for one of the listeners that have it as their
\* default pool, with its monitor and its members.
PoolDone(o, q) ==
    /\ \E l \in ListenersOf(o.of) :
          /\ defaultPool[l] = q
          /\ {p \in pools : p[1] = o /\ p[2] = q} = {<<o, q, l>>}
    /\ q \in Monitored => <<o, q>> \in monitors
    /\ \A m \in MembersOf[q] : <<o, q, m>> \in members

\* A listener the call has gone past has this default pool.
Past(q) == \E i \in Positions : i < position /\ defaultPool[ListenerAt(i)] = q

\* Those listeners have been dealt with, and there is no pool but theirs and
\* that of the listener the call is at.
Behind ==
    /\ \A i \in Positions : i < position => <<This, ListenerAt(i)>> \in listeners
    /\ \A q \in Pool : Past(q) => PoolDone(This, q)
    /\ \A p \in pools : p[1] = This =>
          \/ Past(p[2])
          \/ job.pc \in {"monitor", "member"} /\ p = <<This, AtPool, AtListener>>

\* The listener the call is at has a pool that none before it has.
NewPool ==
    /\ position \in Positions
    /\ <<This, AtListener>> \in listeners
    /\ AtPool # NoPool
    /\ ~Past(AtPool)

PoolAtWork ==
    /\ <<This, AtPool, AtListener>> \in pools
    /\ \A m \in MembersOf[AtPool] : m \in uncreated \/ <<This, AtPool, m>> \in members
    /\ job.pc = "member" /\ AtPool \in Monitored => <<This, AtPool>> \in monitors

\* How far the call has come.
BuildInv ==
    /\ job.pc \in {"gather", "createBalancer"} => position = 1 /\ \A p \in pools : p[1] # This
    /\ job.pc \in BalancerPc \ {"vip"} => \A a \in attached : a[2] # This
    /\ job.pc \in {"listener", "pool", "monitor", "member"} => Behind
    /\ job.pc \in {"pool", "monitor", "member"} => NewPool
    /\ job.pc \in {"monitor", "member"} => PoolAtWork
    /\ job.pc = "vip" => BalancerWhole(This)
    /\ job.pc = "done" /\ ~job.raising /\ job.res \in LoadBalancers => BalancerWhole(This)

BalancerInv == LoadBalancerTypeOK /\ FloatingIpLast /\ BuildInv


\* The listeners of the load balancer at work, and where its call is.
LEMMA AtFacts ==
    ASSUME CallInv, LoadBalancerTypeOK, job.pc \in BalancerPc
    PROVE  /\ job.res \in LoadBalancers /\ ~Idle
           /\ Len(Listeners[job.res]) \in Nat /\ Positions = 1..Len(Listeners[job.res])
           /\ \A i \in Positions : /\ ListenerAt(i) \in Listener
                                   /\ ListenerAt(i) \in ListenersOf(job.res)
                                   /\ defaultPool[ListenerAt(i)] \in Pool \cup {NoPool}
           /\ \A l \in ListenersOf(job.res) : \E i \in Positions : l = ListenerAt(i)
           /\ position \in Nat \ {0}
           /\ This.of = job.res /\ This \in Object /\ This.by = calls
<1>1. job.res \in LoadBalancers
  BY DEF CallInv, JobOK, KindOK
<1>2. ~Idle
  BY DEF Idle, BalancerPc
<1>3. Listeners[job.res] \in Seq(Listener)
  BY <1>1, LoadBalancerAssumption
<1>4. Len(Listeners[job.res]) \in Nat /\ Positions = 1..Len(Listeners[job.res])
      /\ \A i \in Positions : ListenerAt(i) \in Listener
  BY <1>3, LenProperties, ElementOfSeq DEF Positions, ListenerAt
<1>5. /\ \A i \in Positions : ListenerAt(i) \in ListenersOf(job.res)
      /\ \A l \in ListenersOf(job.res) : \E i \in Positions : l = ListenerAt(i)
  BY DEF ListenersOf, Positions, ListenerAt
<1>6. \A l \in Listener : defaultPool[l] \in Pool \cup {NoPool}
  BY DEF LoadBalancerTypeOK
<1>7. position \in Nat \ {0}
  BY DEF LoadBalancerTypeOK
<1>8. QED
  BY <1>1, <1>2, <1>4, <1>5, <1>6, <1>7, ThisIsObject

\* Nothing is taken from a load balancer, and no pool is added to one but o.
Builds(o) ==
    /\ defaultPool' = defaultPool
    /\ listeners \subseteq listeners'
    /\ monitors \subseteq monitors'
    /\ members \subseteq members'
    /\ pools \subseteq pools'
    /\ \A p \in pools' : p \in pools \/ p[1] = o

LEMMA PoolStays ==
    ASSUME NEW o, NEW x, NEW q, Builds(x), PoolDone(o, q),
           \A p \in pools' \ pools : p[1] # o \/ p[2] # q
    PROVE  PoolDone(o, q)'
<1>1. PICK l \in ListenersOf(o.of) :
          /\ defaultPool[l] = q
          /\ {p \in pools : p[1] = o /\ p[2] = q} = {<<o, q, l>>}
  BY DEF PoolDone
<1>2. {p \in pools' : p[1] = o /\ p[2] = q} = {p \in pools : p[1] = o /\ p[2] = q}
  BY DEF Builds
<1>3. \E k \in ListenersOf(o.of) :
          /\ defaultPool'[k] = q
          /\ {p \in pools' : p[1] = o /\ p[2] = q} = {<<o, q, k>>}
  BY <1>1, <1>2 DEF Builds
<1>4. /\ q \in Monitored => <<o, q>> \in monitors'
      /\ \A m \in MembersOf[q] : <<o, q, m>> \in members'
  BY DEF PoolDone, Builds
<1>5. QED
  BY <1>3, <1>4 DEF PoolDone

LEMMA WholeIsDone ==
    ASSUME NEW o
    PROVE  BalancerWhole(o) <=>
              /\ \A l \in ListenersOf(o.of) : <<o, l>> \in listeners
              /\ \A q \in PoolsOf(o.of) : PoolDone(o, q)
  BY DEF BalancerWhole, PoolDone

\* A load balancer that is whole stays so.
LEMMA WholeStays ==
    ASSUME NEW o, NEW x, Builds(x), o # x \/ pools' = pools, BalancerWhole(o)
    PROVE  BalancerWhole(o)'
<1>1. /\ \A l \in ListenersOf(o.of) : <<o, l>> \in listeners'
      /\ PoolsOf(o.of)' = PoolsOf(o.of)
  BY WholeIsDone DEF Builds, PoolsOf
<1>2. \A q \in PoolsOf(o.of) : PoolDone(o, q)'
  <2>1. TAKE q \in PoolsOf(o.of)
  <2>2. PoolDone(o, q)
    BY WholeIsDone
  <2>3. \A p \in pools' \ pools : p[1] # o \/ p[2] # q
    BY DEF Builds
  <2>4. QED
    BY <2>2, <2>3, PoolStays
<1>3. \A q \in PoolsOf(o.of)' : PoolDone(o, q)'
  BY <1>1, <1>2
<1>4. QED
  BY <1>1, <1>3 DEF BalancerWhole, PoolDone

\* The floating IPs stay where they are, or go to what is whole.
LEMMA LastStays ==
    ASSUME FloatingIpLast, NEW x, Builds(x),
           pools' = pools \/ \A a \in attached' : a[2] # x,
           \A a \in attached' :
              a \in attached \/ (a[2].of \in LoadBalancers => BalancerWhole(a[2]))
    PROVE  FloatingIpLast'
<1>1. SUFFICES ASSUME NEW a \in attached', a[2].of \in LoadBalancers
               PROVE  BalancerWhole(a[2])'
  BY DEF FloatingIpLast
<1>2. PICK o : o = a[2]
  OBVIOUS
<1>3. BalancerWhole(o)
  BY <1>1, <1>2 DEF FloatingIpLast
<1>4. CASE o # x \/ pools' = pools
  BY <1>2, <1>3, <1>4, WholeStays
<1>5. CASE o = x /\ pools' # pools
  BY <1>2, <1>5
<1>6. QED
  BY <1>4, <1>5

LEMMA BalancerConstants ==
    Handler(LoadBalancers, BalancerPc) /\ BalancerPc \subseteq Pcs
  BY EndpointConstants

\* A call of another kind is at work, or none.
LEMMA NoBalancerAtWork ==
    ASSUME job'.pc \notin BalancerPc, job'.pc = "done" => job'.res \notin LoadBalancers
    PROVE  BuildInv'
  BY DEF BuildInv, BalancerPc

\* The floating IPs of a load balancer, while it is built.
LEMMA BalancerQuiet ==
    ASSUME CallInv, EndpointInv, Handles(LoadBalancers, BalancerPc), UNCHANGED endpointVars,
           \/ job'.pc = "idle"
           \/ /\ job'.pc \in BalancerPc \ {"vip"}
              /\ \A f \in FloatingIpsOf[job'.res] \ Latecomers : status'[f] = "migrated"
    PROVE  EndpointInv'
<1>1. RecordsStay /\ dest \subseteq dest'
  <2>1. RecordsStay
    BY HandlesRecords, BalancerConstants
  <2>2. dest \subseteq dest'
    BY DEF Handles, Opens, Begin, Works, Fails, Grows
  <2>3. QED
    BY <2>1, <2>2
<1>2. StandInv'
  BY <1>1, EndpointQuiet DEF EndpointInv
<1>3. RouteInv' /\ AttachInv'
  BY DEF RouteInv, AttachInv, BalancerPc
<1>4. QED
  BY <1>2, <1>3 DEF EndpointInv

LEMMA BeginLoadBalancerStep ==
    ASSUME CallInv, EndpointInv, BalancerInv, BeginLoadBalancer
    PROVE  Handles(LoadBalancers, BalancerPc) /\ EndpointInv' /\ BalancerInv'
<1>1. PICK b \in LoadBalancers : EndpointReady(b) /\ Begin(b, "gather")
  BY DEF BeginLoadBalancer
<1>2. /\ position' = 1 /\ uncreated' = {} /\ UNCHANGED endpointVars
      /\ UNCHANGED <<defaultPool, listeners, pools, monitors, members, attached>>
  BY DEF BeginLoadBalancer, components, endpointVars
<1>3. Handles(LoadBalancers, BalancerPc)
  BY <1>1 DEF Handles, Opens, BalancerPc, EarlyPc
<1>4. job'.res = b /\ job'.pc = "gather" /\ This' = [of |-> b, by |-> calls + 1]
      /\ dest' = dest
  BY <1>1, BegunJob DEF Begin
<1>5. RecordsStay
  BY <1>3, HandlesRecords, BalancerConstants
<1>6. \A f \in FloatingIpsOf[b] \ Latecomers : status'[f] = "migrated"
  <2>1. FloatingIpsOf[b] \subseteq Resource
    BY EndpointConstants
  <2>2. QED
    BY <1>1, <1>5, <2>1 DEF EndpointReady, RecordsStay
<1>7. EndpointInv'
  <2>1. job'.pc \in BalancerPc \ {"vip"}
    BY <1>4 DEF BalancerPc
  <2>2. \A f \in FloatingIpsOf[job'.res] \ Latecomers : status'[f] = "migrated"
    BY <1>4, <1>6
  <2>3. QED
    BY <1>2, <1>3, <2>1, <2>2, BalancerQuiet
<1>8. LoadBalancerTypeOK'
  BY <1>2, <1>4 DEF BalancerInv, LoadBalancerTypeOK
<1>9. FloatingIpLast'
  BY <1>2, LastStays DEF BalancerInv, Builds
<1>10. This' \notin dest
  <2>1. calls \in Nat /\ \A o \in dest : o.by <= calls
    BY DEF CallInv, CallTyped
  <2>2. QED
    BY <1>4, <2>1
<1>11. \A p \in pools' : p[1] # This'
  BY <1>2, <1>10 DEF BalancerInv, LoadBalancerTypeOK
<1>12. \A a \in attached' : a[2] # This'
  BY <1>2, <1>10 DEF EndpointInv, StandInv
<1>13. BuildInv'
  BY <1>2, <1>4, <1>11, <1>12 DEF BuildInv, BalancerPc
<1>14. QED
  BY <1>3, <1>7, <1>8, <1>9, <1>13 DEF BalancerInv

\* A failure ends the call; the last request may have been carried out.
LEMMA BalancerFails ==
    ASSUME CallInv, EndpointInv, BalancerInv,
           \/ GatherFails \/ CreateBalancerFails \/ CreateListenerFails
           \/ CreatePoolFails \/ CreateMonitorFails \/ CreateMemberFails
    PROVE  Fails(BalancerPc) /\ EndpointInv' /\ BalancerInv'
<1> DEFINE ats == {"gather", "createBalancer", "listener", "pool", "monitor", "member"}
<1>1. /\ job.pc \in BalancerPc \ {"vip"} /\ ~job.raising
      /\ \E at \in ats : FailCall(at)
      /\ dest' \in PerhapsAdded(dest, {This})
      /\ UNCHANGED endpointVars
  BY DEF GatherFails, CreateBalancerFails, CreateListenerFails, CreatePoolFails,
         CreateMonitorFails, CreateMemberFails, Running, BalancerPc, PerhapsAdded
<1>2. PICK at \in ats : FailCall(at)
  BY <1>1
<1>3. at \in Ats /\ job.pc \in BalancerPc /\ ~Idle
  BY <1>1, <1>2 DEF Ats, Failures, Points, BalancerPc, Idle
<1>4. Fails(BalancerPc)
  BY <1>1, <1>2, <1>3, FailFails
<1>5. job'.pc = "idle" /\ dest \subseteq dest'
  BY <1>4, NoJobIsIdle DEF Fails, FailRecord, Grows
<1>6. EndpointInv'
  BY <1>1, <1>4, <1>5, BalancerQuiet DEF Handles
<1>7. LoadBalancerTypeOK
  BY DEF BalancerInv
<1>8. /\ job.res \in LoadBalancers
      /\ Positions = 1..Len(Listeners[job.res]) /\ Len(Listeners[job.res]) \in Nat
      /\ \A i \in Positions : /\ ListenerAt(i) \in Listener
                              /\ defaultPool[ListenerAt(i)] \in Pool \cup {NoPool}
      /\ position \in Nat \ {0}
  BY <1>3, <1>7, AtFacts
<1>9. job.pc \in {"listener", "pool", "monitor", "member"} => This \in dest
  BY <1>1 DEF CallInv, JobOK, EarlyPc
<1>10. /\ job.pc = "listener" /\ position \in Positions => AtListener \in Listener
       /\ job.pc \in {"pool", "monitor", "member"} => AtListener \in Listener /\ AtPool \in Pool
  BY <1>8 DEF BalancerInv, BuildInv, NewPool, AtPool, AtListener, ListenerAt
<1>11. /\ UNCHANGED <<defaultPool, position, uncreated>>
       /\ \/ listeners' = listeners
          \/ /\ job.pc = "listener" /\ position <= Len(Listeners[job.res])
             /\ listeners' = listeners \cup {<<This, AtListener>>}
       /\ pools' = pools \/ (job.pc = "pool" /\ pools' = pools \cup {<<This, AtPool, AtListener>>})
       /\ monitors' = monitors \/ (job.pc = "monitor" /\ monitors' = monitors \cup {<<This, AtPool>>})
       /\ \/ members' = members
          \/ /\ job.pc = "member"
             /\ \E m \in uncreated : members' = members \cup {<<This, AtPool, m>>}
  BY DEF GatherFails, CreateBalancerFails, CreateListenerFails, CreatePoolFails,
         CreateMonitorFails, CreateMemberFails, Running, PerhapsAdded, loadBalancerVars,
         components
<1>12. LoadBalancerTypeOK'
  <2>1. position <= Len(Listeners[job.res]) => position \in Positions
    BY <1>8
  <2>2. listeners' \subseteq dest' \X Listener
    BY <1>5, <1>7, <1>9, <1>10, <1>11, <2>1 DEF LoadBalancerTypeOK
  <2>3. pools' \subseteq dest' \X Pool \X Listener
    BY <1>5, <1>7, <1>9, <1>10, <1>11 DEF LoadBalancerTypeOK
  <2>4. monitors' \subseteq dest' \X Pool
    BY <1>5, <1>7, <1>9, <1>10, <1>11 DEF LoadBalancerTypeOK
  <2>5. members' \subseteq dest' \X Pool \X Member
    BY <1>5, <1>7, <1>9, <1>10, <1>11 DEF LoadBalancerTypeOK
  <2>6. QED
    BY <1>7, <1>11, <2>2, <2>3, <2>4, <2>5 DEF LoadBalancerTypeOK
<1>13. FloatingIpLast'
  <2>1. Builds(This)
    BY <1>11 DEF Builds
  <2>2. attached' = attached /\ \A a \in attached : a[2] # This
    BY <1>1 DEF BalancerInv, BuildInv, endpointVars
  <2>3. FloatingIpLast
    BY DEF BalancerInv
  <2>4. QED
    BY <2>1, <2>2, <2>3, LastStays
<1>14. BuildInv'
  BY <1>5, NoBalancerAtWork DEF BalancerPc
<1>15. QED
  BY <1>4, <1>6, <1>12, <1>13, <1>14 DEF BalancerInv

\* Past, seen from the state before.
LEMMA PastThere ==
    ASSUME NEW q, job'.res = job.res, defaultPool' = defaultPool
    PROVE  Past(q)' <=> \E i \in Positions : i < position' /\ defaultPool[ListenerAt(i)] = q
  BY DEF Past, Positions, ListenerAt

\* How it is seen that the call has dealt with the listeners it has gone past.
LEMMA BehindNow ==
    ASSUME NEW o, This' = o, job'.res = job.res,
           \A i \in Positions : i < position' => <<o, ListenerAt(i)>> \in listeners',
           \A q \in Pool : Past(q)' => PoolDone(o, q)',
           \A p \in pools' : p[1] = o =>
              \/ Past(p[2])'
              \/ job'.pc \in {"monitor", "member"} /\ p = <<o, AtPool', AtListener'>>
    PROVE  Behind'
<1>1. \A i \in Positions' : i < position' => <<This', ListenerAt(i)'>> \in listeners'
  BY DEF Positions, ListenerAt
<1>2. \A q \in Pool : Past(q)' => PoolDone(This, q)'
  OBVIOUS
<1>3. QED
  BY <1>1, <1>2 DEF Behind

\* A step of the call that builds the load balancer.
LEMMA BalancerGoes ==
    ASSUME NEW pc \in BalancerPc \ {"vip", "gather"}, CallInv, EndpointInv, BalancerInv,
           job.pc \in BalancerPc \ {"vip"}, ~job.raising, Goto(pc), UNCHANGED endpointVars,
           \/ dest' = dest /\ (job.pc \in EarlyPc => pc \in EarlyPc)
           \/ dest' = dest \cup {This},
           Builds(This), LoadBalancerTypeOK'
    PROVE  /\ Works(BalancerPc) /\ EndpointInv' /\ FloatingIpLast'
           /\ job'.pc = pc /\ job'.res = job.res /\ This' = This
           /\ \A a \in attached' : a[2] # This
<1>1. pc \in Pcs /\ pc \in BalancerPc \cup {"done"} /\ job.pc \in BalancerPc /\ ~Idle
  BY BalancerConstants DEF BalancerPc, Idle
<1>2. Works(BalancerPc) /\ job'.pc = pc
  BY <1>1, BalancerConstants, GotoWorks
<1>3. job'.res = job.res /\ This' = This /\ status' = status
  BY <1>2, CallGoes
<1>4. \A f \in FloatingIpsOf[job'.res] \ Latecomers : status'[f] = "migrated"
  BY <1>1, <1>3 DEF EndpointInv, AttachInv
<1>5. EndpointInv'
  BY <1>2, <1>4, BalancerQuiet DEF Handles
<1>6. attached' = attached /\ \A a \in attached : a[2] # This
  BY DEF BalancerInv, BuildInv, endpointVars
<1>7. FloatingIpLast'
  BY <1>6, LastStays DEF BalancerInv
<1>8. QED
  BY <1>2, <1>3, <1>5, <1>6, <1>7

LEMMA GatherStep ==
    ASSUME CallInv, EndpointInv, BalancerInv, Gather \/ CreateBalancer
    PROVE  Works(BalancerPc) /\ EndpointInv' /\ BalancerInv'
<1>1. /\ job.pc \in {"gather", "createBalancer"} /\ ~job.raising
      /\ UNCHANGED endpointVars
      /\ UNCHANGED <<defaultPool, position, uncreated, listeners, pools, monitors, members>>
  BY DEF Gather, CreateBalancer, Running, loadBalancerVars
<1>2. PICK pc \in {"createBalancer", "listener"} :
          /\ Goto(pc)
          /\ \/ dest' = dest /\ pc = "createBalancer"
             \/ dest' = dest \cup {This}
  BY DEF Gather, CreateBalancer
<1>3. position = 1 /\ \A p \in pools : p[1] # This
  BY <1>1 DEF BalancerInv, BuildInv
<1>4. LoadBalancerTypeOK'
  BY <1>1, <1>2 DEF BalancerInv, LoadBalancerTypeOK
<1>5. Builds(This)
  BY <1>1 DEF Builds
<1>6. pc \in BalancerPc \ {"vip", "gather"} /\ job.pc \in BalancerPc \ {"vip"}
      /\ (job.pc \in EarlyPc /\ pc = "createBalancer" => pc \in EarlyPc)
  BY <1>1, <1>2 DEF BalancerPc, EarlyPc
<1>7. /\ Works(BalancerPc) /\ EndpointInv' /\ FloatingIpLast'
      /\ job'.pc = pc /\ job'.res = job.res /\ This' = This
      /\ \A a \in attached' : a[2] # This
  BY <1>1, <1>2, <1>4, <1>5, <1>6, BalancerGoes
<1>8. \A i \in Positions : ~(i < position')
  <2>1. job.pc \in BalancerPc /\ LoadBalancerTypeOK
    BY <1>6 DEF BalancerInv
  <2>2. Len(Listeners[job.res]) \in Nat /\ Positions = 1..Len(Listeners[job.res])
    BY <2>1, AtFacts
  <2>3. QED
    BY <1>1, <1>3, <2>2
<1>9. Behind'
  <2>1. PICK o : o = This
    OBVIOUS
  <2>2. \A q \in Pool : ~Past(q)'
    BY <1>1, <1>7, <1>8, PastThere
  <2>3. /\ \A i \in Positions : i < position' => <<o, ListenerAt(i)>> \in listeners'
        /\ \A q \in Pool : Past(q)' => PoolDone(o, q)'
        /\ \A p \in pools' : p[1] # o
    BY <1>1, <1>3, <1>8, <2>1, <2>2
  <2>4. QED
    BY <1>7, <2>1, <2>3, BehindNow
<1>10. BuildInv'
  BY <1>1, <1>2, <1>3, <1>7, <1>9 DEF BuildInv
<1>11. QED
  BY <1>4, <1>7, <1>10 DEF BalancerInv

\* The position moves on, or the listener turns out to need a pool.
LEMMA CreateListenerStep ==
    ASSUME CallInv, EndpointInv, BalancerInv, CreateListener
    PROVE  Works(BalancerPc) /\ EndpointInv' /\ BalancerInv'
<1>1. /\ job.pc = "listener" /\ ~job.raising
      /\ position <= Len(Listeners[job.res])
      /\ listeners' = listeners \cup {<<This, AtListener>>}
      /\ position' = IF PoolNeeded THEN position ELSE position + 1
      /\ Goto(IF PoolNeeded THEN "pool" ELSE "listener")
      /\ dest' = dest /\ UNCHANGED endpointVars
      /\ UNCHANGED <<defaultPool, uncreated, pools, monitors, members>>
  BY DEF CreateListener, Running
<1>2. PICK pc \in {"pool", "listener"} :
          /\ Goto(pc)
          /\ pc = "pool" <=> PoolNeeded
  BY <1>1
<1>3. LoadBalancerTypeOK /\ job.pc \in BalancerPc
  BY <1>1 DEF BalancerInv, BalancerPc
<1>4. /\ Len(Listeners[job.res]) \in Nat /\ Positions = 1..Len(Listeners[job.res])
      /\ \A i \in Positions : ListenerAt(i) \in Listener
      /\ position \in Nat \ {0} /\ This.of = job.res
  BY <1>3, AtFacts
<1>5. position \in Positions /\ AtListener = ListenerAt(position) /\ This \in dest
      /\ AtListener \in Listener
  <2>1. position \in Positions /\ AtListener = ListenerAt(position)
    BY <1>1, <1>4 DEF AtListener, ListenerAt
  <2>2. This \in dest
    BY <1>1 DEF CallInv, JobOK, EarlyPc
  <2>3. QED
    BY <1>4, <2>1, <2>2
<1>6. LoadBalancerTypeOK'
  <2>1. position' \in Nat \ {0}
    BY <1>1, <1>4
  <2>2. QED
    BY <1>1, <1>3, <1>5, <2>1 DEF LoadBalancerTypeOK
<1>7. Builds(This)
  BY <1>1 DEF Builds
<1>8. pc \in BalancerPc \ {"vip", "gather"} /\ job.pc \in BalancerPc \ {"vip"}
      /\ job.pc \notin EarlyPc
  BY <1>1, <1>2 DEF BalancerPc, EarlyPc
<1>9. /\ Works(BalancerPc) /\ EndpointInv' /\ FloatingIpLast'
      /\ job'.pc = pc /\ job'.res = job.res /\ This' = This
      /\ \A a \in attached' : a[2] # This
  BY <1>1, <1>2, <1>6, <1>7, <1>8, BalancerGoes
<1>10. PICK o : o = This
  OBVIOUS
<1>11. /\ \A i \in Positions : i < position => <<o, ListenerAt(i)>> \in listeners
       /\ \A q \in Pool : Past(q) => PoolDone(o, q)
       /\ \A p \in pools : p[1] = o => Past(p[2])
  BY <1>1, <1>10 DEF BalancerInv, BuildInv, Behind
<1>12. \A q \in Pool : PoolDone(o, q) => PoolDone(o, q)'
  BY <1>1, <1>7, <1>10, PoolStays
<1>13. AtPool = defaultPool[ListenerAt(position)]
  BY <1>5 DEF AtPool
<1>14. \A q : Past(q)' <=> \E i \in Positions : i < position' /\ defaultPool[ListenerAt(i)] = q
  BY <1>1, <1>9, PastThere
<1>15. CASE PoolNeeded
  <2>1. position' = position /\ pc = "pool"
    BY <1>1, <1>2, <1>15
  <2>2. AtListener' = AtListener /\ AtPool' = AtPool /\ Positions' = Positions
    BY <1>1, <1>9, <2>1 DEF AtListener, AtPool, Positions
  <2>3. \A q : Past(q)' <=> Past(q)
    BY <1>14, <2>1 DEF Past
  <2>4. Behind'
    <3>1. /\ \A i \in Positions : i < position' => <<o, ListenerAt(i)>> \in listeners'
          /\ \A q \in Pool : Past(q)' => PoolDone(o, q)'
          /\ \A p \in pools' : p[1] = o => Past(p[2])'
      BY <1>1, <1>11, <1>12, <2>1, <2>3
    <3>2. QED
      BY <1>9, <1>10, <3>1, BehindNow
  <2>5. AtPool # NoPool /\ \A p \in pools : p[1] = o => p[2] # AtPool
    BY <1>10, <1>15 DEF PoolNeeded, PoolCreated
  <2>6. ~Past(AtPool)
    <3>1. SUFFICES ASSUME Past(AtPool) PROVE FALSE
      OBVIOUS
    <3>2. PICK q \in Pool : q = AtPool
      BY <1>3, <1>5, <2>5 DEF AtPool, LoadBalancerTypeOK
    <3>3. PoolDone(o, q)
      BY <1>11, <3>1, <3>2
    <3>4. PICK l : {p \in pools : p[1] = o /\ p[2] = q} = {<<o, q, l>>}
      BY <3>3 DEF PoolDone
    <3>5. <<o, q, l>> \in pools
      BY <3>4
    <3>6. QED
      BY <2>5, <3>2, <3>5
  <2>7. NewPool'
    <3>1. ~Past(AtPool)'
      <4>1. PICK q : q = AtPool
        OBVIOUS
      <4>2. ~Past(q)'
        BY <2>3, <2>6, <4>1
      <4>3. QED
        BY <2>2, <4>1, <4>2
    <3>2. QED
      BY <1>1, <1>5, <1>9, <2>1, <2>2, <2>5, <3>1 DEF NewPool
  <2>8. BuildInv'
    BY <1>9, <2>1, <2>4, <2>7 DEF BuildInv
  <2>9. QED
    BY <1>6, <1>9, <2>8 DEF BalancerInv
<1>16. CASE ~PoolNeeded
  <2>1. position' = position + 1 /\ pc = "listener"
    BY <1>1, <1>2, <1>16
  <2>2. \A i \in Positions : i < position' <=> i < position \/ i = position
    BY <1>4, <2>1
  <2>3. AtPool # NoPool => Past(AtPool)
    <3>1. SUFFICES ASSUME AtPool # NoPool PROVE Past(AtPool)
      OBVIOUS
    <3>2. PICK p \in pools : p[1] = o /\ p[2] = AtPool
      BY <1>10, <1>16, <3>1 DEF PoolNeeded, PoolCreated
    <3>3. QED
      BY <1>11, <3>2
  <2>4. \A q \in Pool : Past(q)' => Past(q)
    <3>1. TAKE q \in Pool
    <3>2. Past(q)' => Past(q) \/ q = AtPool
      BY <1>13, <1>14, <2>2 DEF Past
    <3>3. QED
      BY <2>3, <3>2, LoadBalancerAssumption
  <2>5. \A p \in pools : p[1] = o => Past(p[2])'
    BY <1>11, <1>14, <2>2 DEF Past
  <2>6. Behind'
    <3>1. /\ \A i \in Positions : i < position' => <<o, ListenerAt(i)>> \in listeners'
          /\ \A q \in Pool : Past(q)' => PoolDone(o, q)'
          /\ \A p \in pools' : p[1] = o => Past(p[2])'
      BY <1>1, <1>5, <1>10, <1>11, <1>12, <2>2, <2>4, <2>5
    <3>2. QED
      BY <1>9, <1>10, <3>1, BehindNow
  <2>7. BuildInv'
    BY <1>9, <2>1, <2>6 DEF BuildInv
  <2>8. QED
    BY <1>6, <1>9, <2>7 DEF BalancerInv
<1>17. QED
  BY <1>15, <1>16

\* The pool at work: a step in which the position stays.
LEMMA PoolSteps ==
    ASSUME CallInv, EndpointInv, BalancerInv, CreatePool \/ CreateMonitor \/ CreateMember
    PROVE  Works(BalancerPc) /\ EndpointInv' /\ BalancerInv'
<1>1. /\ job.pc \in {"pool", "monitor", "member"} /\ ~job.raising
      /\ dest' = dest /\ UNCHANGED endpointVars
      /\ UNCHANGED <<defaultPool, position, listeners>>
  BY DEF CreatePool, CreateMonitor, CreateMember, Running
<1>2. PICK pc \in {"monitor", "member"} :
          /\ Goto(pc)
          /\ \/ /\ job.pc = "pool"
                /\ pools' = pools \cup {<<This, AtPool, AtListener>>}
                /\ uncreated' = MembersOf[AtPool]
                /\ AtPool \in Monitored => pc = "monitor"
                /\ UNCHANGED <<monitors, members>>
             \/ /\ job.pc = "monitor"
                /\ monitors' = monitors \cup {<<This, AtPool>>}
                /\ UNCHANGED <<uncreated, pools, members>>
             \/ /\ job.pc = "member" /\ pc = "member"
                /\ \E m \in uncreated : /\ members' = members \cup {<<This, AtPool, m>>}
                                        /\ uncreated' = uncreated \ {m}
                /\ UNCHANGED <<pools, monitors>>
  BY DEF CreatePool, CreateMonitor, CreateMember, Running
<1>3. LoadBalancerTypeOK /\ job.pc \in BalancerPc
  BY <1>1 DEF BalancerInv, BalancerPc
<1>4. /\ Len(Listeners[job.res]) \in Nat /\ Positions = 1..Len(Listeners[job.res])
      /\ \A i \in Positions : ListenerAt(i) \in Listener
      /\ position \in Nat \ {0} /\ This.of = job.res
  BY <1>3, AtFacts
<1>5. /\ Behind /\ NewPool
      /\ job.pc \in {"monitor", "member"} => PoolAtWork
  BY <1>1 DEF BalancerInv, BuildInv
<1>6. This \in dest /\ AtListener \in Listener /\ AtPool \in Pool
  <2>1. This \in dest
    BY <1>1 DEF CallInv, JobOK, EarlyPc
  <2>2. AtListener \in Listener
    BY <1>4, <1>5 DEF NewPool, AtListener, ListenerAt
  <2>3. QED
    BY <1>3, <1>5, <2>1, <2>2 DEF NewPool, AtPool, LoadBalancerTypeOK
<1>7. LoadBalancerTypeOK'
  <2>1. pools' \subseteq dest' \X Pool \X Listener
    BY <1>1, <1>2, <1>3, <1>6 DEF LoadBalancerTypeOK
  <2>2. monitors' \subseteq dest' \X Pool
    BY <1>1, <1>2, <1>3, <1>6 DEF LoadBalancerTypeOK
  <2>3. members' \subseteq dest' \X Pool \X Member /\ uncreated' \subseteq Member
    BY <1>1, <1>2, <1>3, <1>6 DEF LoadBalancerTypeOK, Member
  <2>4. QED
    BY <1>1, <1>3, <2>1, <2>2, <2>3 DEF LoadBalancerTypeOK
<1>8. Builds(This)
  BY <1>1, <1>2 DEF Builds
<1>9. pc \in BalancerPc \ {"vip", "gather"} /\ job.pc \in BalancerPc \ {"vip"}
      /\ job.pc \notin EarlyPc
  BY <1>1, <1>2 DEF BalancerPc, EarlyPc
<1>10. /\ Works(BalancerPc) /\ EndpointInv' /\ FloatingIpLast'
       /\ job'.pc = pc /\ job'.res = job.res /\ This' = This
       /\ \A a \in attached' : a[2] # This
  BY <1>1, <1>2, <1>7, <1>8, <1>9, BalancerGoes
<1>11. PICK o : o = This
  OBVIOUS
<1>12. /\ AtListener' = AtListener /\ AtPool' = AtPool /\ Positions' = Positions
       /\ \A q : Past(q)' <=> Past(q)
  BY <1>1, <1>10, PastThere DEF AtListener, AtPool, Positions, Past
<1>13. Behind'
  <2>1. \A i \in Positions : i < position' => <<o, ListenerAt(i)>> \in listeners'
    BY <1>1, <1>5, <1>11 DEF Behind
  <2>2. ASSUME NEW q \in Pool, Past(q)'
        PROVE  PoolDone(o, q)'
    <3>1. PoolDone(o, q)
      BY <1>5, <1>11, <1>12, <2>2 DEF Behind
    <3>2. q # AtPool
      BY <1>5, <1>12, <2>2 DEF NewPool
    <3>3. \A p \in pools' \ pools : p[1] # o \/ p[2] # q
      BY <1>2, <3>2
    <3>4. QED
      BY <1>8, <3>1, <3>3, PoolStays
  <2>3. \A p \in pools' : p[1] = o =>
            \/ Past(p[2])'
            \/ job'.pc \in {"monitor", "member"} /\ p = <<o, AtPool', AtListener'>>
    BY <1>2, <1>5, <1>10, <1>11, <1>12 DEF Behind
  <2>4. QED
    BY <1>10, <1>11, <2>1, <2>2, <2>3, BehindNow
<1>14. NewPool'
  <2>1. ~Past(AtPool)'
    <3>1. PICK q : q = AtPool
      OBVIOUS
    <3>2. ~Past(q)'
      BY <1>5, <1>12, <3>1 DEF NewPool
    <3>3. QED
      BY <1>12, <3>1, <3>2
  <2>2. QED
    BY <1>1, <1>5, <1>10, <1>12, <2>1 DEF NewPool
<1>15. PoolAtWork'
  <2>1. <<This, AtPool, AtListener>> \in pools'
    BY <1>2, <1>5 DEF PoolAtWork
  <2>2. \A m \in MembersOf[AtPool] : m \in uncreated' \/ <<This, AtPool, m>> \in members'
    BY <1>2, <1>5 DEF PoolAtWork
  <2>3. pc = "member" /\ AtPool \in Monitored => <<This, AtPool>> \in monitors'
    BY <1>2, <1>5 DEF PoolAtWork
  <2>4. QED
    BY <1>10, <1>12, <2>1, <2>2, <2>3 DEF PoolAtWork
<1>16. BuildInv'
  BY <1>2, <1>10, <1>13, <1>14, <1>15 DEF BuildInv
<1>17. QED
  BY <1>7, <1>10, <1>16 DEF BalancerInv

\* The pool is complete, and so is the listener.
LEMMA MembersCreatedStep ==
    ASSUME CallInv, EndpointInv, BalancerInv, MembersCreated
    PROVE  Works(BalancerPc) /\ EndpointInv' /\ BalancerInv'
<1>1. /\ job.pc = "member" /\ ~job.raising /\ uncreated = {}
      /\ position' = position + 1
      /\ Goto("listener")
      /\ dest' = dest /\ UNCHANGED endpointVars
      /\ UNCHANGED <<defaultPool, uncreated, listeners, pools, monitors, members>>
  BY DEF MembersCreated, Running, components
<1>2. LoadBalancerTypeOK /\ job.pc \in BalancerPc
  BY <1>1 DEF BalancerInv, BalancerPc
<1>3. /\ Len(Listeners[job.res]) \in Nat /\ Positions = 1..Len(Listeners[job.res])
      /\ \A i \in Positions : ListenerAt(i) \in ListenersOf(job.res)
      /\ position \in Nat \ {0} /\ This.of = job.res
  BY <1>2, AtFacts
<1>4. LoadBalancerTypeOK'
  <2>1. position' \in Nat \ {0}
    BY <1>1, <1>3
  <2>2. QED
    BY <1>1, <1>2, <2>1 DEF LoadBalancerTypeOK
<1>5. Builds(This)
  BY <1>1 DEF Builds
<1>6. "listener" \in BalancerPc \ {"vip", "gather"} /\ job.pc \in BalancerPc \ {"vip"}
      /\ job.pc \notin EarlyPc
  BY <1>1 DEF BalancerPc, EarlyPc
<1>7. /\ Works(BalancerPc) /\ EndpointInv' /\ FloatingIpLast'
      /\ job'.pc = "listener" /\ job'.res = job.res /\ This' = This
      /\ \A a \in attached' : a[2] # This
  BY <1>1, <1>4, <1>5, <1>6, BalancerGoes
<1>8. PICK o : o = This
  OBVIOUS
<1>9. Behind /\ NewPool /\ PoolAtWork
  BY <1>1 DEF BalancerInv, BuildInv
<1>10. AtListener = ListenerAt(position) /\ AtPool = defaultPool[ListenerAt(position)]
  BY DEF AtPool, AtListener, ListenerAt
<1>11. PoolDone(o, AtPool)
  <2>1. AtListener \in ListenersOf(o.of) /\ defaultPool[AtListener] = AtPool
    BY <1>3, <1>8, <1>9, <1>10 DEF NewPool, AtPool
  <2>2. {p \in pools : p[1] = o /\ p[2] = AtPool} = {<<o, AtPool, AtListener>>}
    BY <1>8, <1>9 DEF Behind, NewPool, PoolAtWork
  <2>3. /\ AtPool \in Monitored => <<o, AtPool>> \in monitors
        /\ \A m \in MembersOf[AtPool] : <<o, AtPool, m>> \in members
    BY <1>1, <1>8, <1>9 DEF PoolAtWork
  <2>4. QED
    BY <2>1, <2>2, <2>3 DEF PoolDone
<1>12. \A i \in Positions : i < position' <=> i < position \/ i = position
  BY <1>1, <1>3
<1>13. \A q : Past(q)' <=> \E i \in Positions : i < position' /\ defaultPool[ListenerAt(i)] = q
  BY <1>1, <1>7, PastThere
<1>14. \A q : Past(q)' <=> Past(q) \/ q = AtPool
  BY <1>9, <1>10, <1>12, <1>13 DEF Past, NewPool
<1>15. Behind'
  <2>1. \A i \in Positions : i < position' => <<o, ListenerAt(i)>> \in listeners'
    BY <1>1, <1>8, <1>9, <1>10, <1>12 DEF Behind, NewPool
  <2>2. ASSUME NEW q \in Pool, Past(q)'
        PROVE  PoolDone(o, q)'
    <3>1. PoolDone(o, q)
      BY <1>8, <1>9, <1>11, <1>14, <2>2 DEF Behind
    <3>2. QED
      BY <1>1, <1>5, <3>1, PoolStays
  <2>3. \A p \in pools' : p[1] = o => Past(p[2])'
    BY <1>1, <1>8, <1>9, <1>14 DEF Behind
  <2>4. QED
    BY <1>7, <1>8, <2>1, <2>2, <2>3, BehindNow
<1>16. BuildInv'
  BY <1>7, <1>15 DEF BuildInv
<1>17. QED
  BY <1>4, <1>7, <1>16 DEF BalancerInv

\* All the listeners have been dealt with.
LEMMA ListenersCreatedStep ==
    ASSUME CallInv, EndpointInv, BalancerInv, ListenersCreated
    PROVE  Works(BalancerPc) /\ EndpointInv' /\ BalancerInv'
<1>1. /\ job.pc = "listener" /\ ~job.raising /\ ~Idle
      /\ position > Len(Listeners[job.res])
      /\ unattached' = FloatingIpsOf[job.res]
      /\ Goto("vip")
      /\ UNCHANGED <<dest, preserve, sourceRoutes, routes, route, attached>>
      /\ UNCHANGED <<defaultPool, position, uncreated, listeners, pools, monitors, members>>
  BY DEF ListenersCreated, Running, loadBalancerVars, Idle
<1>2. LoadBalancerTypeOK /\ job.pc \in BalancerPc
  BY <1>1 DEF BalancerInv, BalancerPc
<1>3. /\ Len(Listeners[job.res]) \in Nat /\ Positions = 1..Len(Listeners[job.res])
      /\ \A i \in Positions : defaultPool[ListenerAt(i)] \in Pool \cup {NoPool}
      /\ \A l \in ListenersOf(job.res) : \E i \in Positions : l = ListenerAt(i)
      /\ position \in Nat \ {0} /\ This.of = job.res /\ job.res \in LoadBalancers
  BY <1>2, AtFacts
<1>4. Works(BalancerPc) /\ job'.pc = "vip"
  <2>1. "vip" \in Pcs /\ "vip" \in BalancerPc \cup {"done"} /\ job.pc \notin EarlyPc
    BY <1>1, BalancerConstants DEF BalancerPc, EarlyPc
  <2>2. QED
    BY <1>1, <1>2, <2>1, BalancerConstants, GotoWorks
<1>5. job'.res = job.res /\ This' = This /\ UNCHANGED <<status, destination>>
  BY <1>4, CallGoes
<1>6. BalancerWhole(This)
  <2>1. \A i \in Positions : i < position
    BY <1>1, <1>3
  <2>2. Behind
    BY <1>1 DEF BalancerInv, BuildInv
  <2>3. \A l \in ListenersOf(This.of) : <<This, l>> \in listeners
    BY <1>3, <2>1, <2>2 DEF Behind
  <2>4. \A q \in PoolsOf(This.of) : q \in Pool /\ Past(q)
    BY <1>3, <2>1 DEF PoolsOf, Past
  <2>5. \A q \in PoolsOf(This.of) : PoolDone(This, q)
    BY <2>2, <2>4 DEF Behind
  <2>6. QED
    BY <2>3, <2>5 DEF BalancerWhole, PoolDone
<1>7. job.res \in Endpoints /\ FloatingIpsOf[job.res] \subseteq FloatingIps
      /\ job.res \notin FloatingIps
  BY <1>3, EndpointConstants
<1>8. EndpointInv'
  <2>1. EndpointTypeOK'
    BY <1>1, <1>7 DEF EndpointInv, StandInv, EndpointTypeOK
  <2>2. /\ routes \subseteq routes' /\ dest \subseteq dest'
        /\ \A a \in attached' : a \in attached \/ a[2] \in dest'
        /\ attached' # attached => job.res \in Endpoints /\ status[job.res] = "in-progress"
        /\ \A a \in attached \ attached' :
              \E f \in FloatingIpsOf[job.res] : status[f] = "migrated" /\ a[1] = destination[f]
    BY <1>1
  <2>3. StandInv'
    BY <1>1, <1>5, <2>1, <2>2, StandStays DEF EndpointInv
  <2>4. RouteInv'
    BY <1>4 DEF RouteInv
  <2>5. AttachInv'
    BY <1>1, <1>2, <1>4, <1>5 DEF EndpointInv, AttachInv
  <2>6. QED
    BY <2>3, <2>4, <2>5 DEF EndpointInv
<1>9. PICK o : o = This
  OBVIOUS
<1>10. BalancerWhole(o)' /\ FloatingIpLast' /\ LoadBalancerTypeOK'
  <2>1. Builds(o) /\ pools' = pools /\ attached' = attached
    BY <1>1 DEF Builds
  <2>2. BalancerWhole(o)'
    BY <1>6, <1>9, <2>1, WholeStays
  <2>3. FloatingIpLast'
    BY <2>1, LastStays DEF BalancerInv
  <2>4. QED
    BY <1>1, <2>2, <2>3 DEF BalancerInv, LoadBalancerTypeOK
<1>11. BuildInv'
  BY <1>4, <1>5, <1>9, <1>10 DEF BuildInv
<1>12. QED
  BY <1>4, <1>8, <1>10, <1>11 DEF BalancerInv

LEMMA SkipLatecomerStep ==
    ASSUME CallInv, EndpointInv, SkipLatecomer
    PROVE  Works(BalancerPc) /\ EndpointInv'
<1>1. /\ job.pc = "vip" /\ ~job.raising
      /\ Goto("vip")
      /\ UNCHANGED <<dest, preserve, sourceRoutes, routes, route, attached>>
  BY DEF SkipLatecomer, Running
<1>2. PICK f \in unattached : /\ status[f] # "migrated" \/ f \in Latecomers
                             /\ unattached' = unattached \ {f}
  BY DEF SkipLatecomer
<1>3. Attaches(LoadBalancers, BalancerPc, "vip")
  BY DEF Attaches
<1>4. /\ "vip" \in BalancerPc /\ "vip" \notin EarlyPc /\ "vip" \in Pcs
      /\ job.res \in Endpoints /\ job.res \notin FloatingIps /\ ~Idle
      /\ unattached \subseteq FloatingIpsOf[job.res]
      /\ FloatingIpsOf[job.res] \subseteq FloatingIps
      /\ \A e \in FloatingIpsOf[job.res] :
            \/ e \in unattached
            \/ job.res \notin Ports /\ e \in Latecomers
            \/ Joined(e, This)
  BY <1>1, <1>3, AttachingFacts
<1>5. f \in Latecomers /\ job.res \notin Ports
  <2>1. \A e \in FloatingIpsOf[job.res] \ Latecomers : status[e] = "migrated"
    BY <1>1, <1>4 DEF EndpointInv, AttachInv
  <2>2. job.res \in LoadBalancers
    BY <1>1, <1>4 DEF CallInv, JobOK, KindOK
  <2>3. QED
    BY <1>2, <1>4, <2>1, <2>2, EndpointConstants
<1>6. Works(BalancerPc) /\ job'.pc = "vip"
  BY <1>1, <1>4, BalancerConstants, GotoWorks
<1>7. job'.res = job.res /\ This' = This /\ UNCHANGED <<status, destination>>
  BY <1>6, CallGoes
<1>8. StandInv'
  <2>1. EndpointTypeOK'
    BY <1>1, <1>2 DEF EndpointInv, StandInv, EndpointTypeOK
  <2>2. /\ routes \subseteq routes' /\ dest \subseteq dest'
        /\ \A a \in attached' : a \in attached \/ a[2] \in dest'
        /\ attached' # attached => job.res \in Endpoints /\ status[job.res] = "in-progress"
        /\ \A a \in attached \ attached' :
              \E e \in FloatingIpsOf[job.res] : status[e] = "migrated" /\ a[1] = destination[e]
    BY <1>1
  <2>3. QED
    BY <1>1, <1>7, <2>1, <2>2, StandStays DEF EndpointInv
<1>9. RouteInv'
  BY <1>6 DEF RouteInv
<1>10. AttachInv'
  <2>1. \A e \in FloatingIpsOf[job.res] \ Latecomers : status[e] = "migrated"
    BY <1>1, <1>4 DEF EndpointInv, AttachInv
  <2>2. \A e \in FloatingIpsOf[job.res] :
            \/ e \in unattached'
            \/ job.res \notin Ports /\ e \in Latecomers
            \/ status'[e] = "migrated" /\ <<destination'[e], This>> \in attached'
    BY <1>1, <1>2, <1>4, <1>5, <1>7 DEF Joined
  <2>3. unattached' \subseteq FloatingIpsOf[job.res]
    BY <1>2, <1>4
  <2>4. QED
    BY <1>6, <1>7, <2>1, <2>2, <2>3 DEF AttachInv, Joined
<1>11. QED
  BY <1>6, <1>8, <1>9, <1>10 DEF EndpointInv

\* Floating IPs are attached to what has been built.
LEMMA VipSteps ==
    ASSUME CallInv, EndpointInv, BalancerInv,
           \/ SkipLatecomer
           \/ /\ Reattach("vip") \/ ReattachFails("vip") \/ AllAttached("vip")
              /\ UNCHANGED loadBalancerVars
    PROVE  Handles(LoadBalancers, BalancerPc) /\ EndpointInv' /\ BalancerInv'
<1>1. Attaches(LoadBalancers, BalancerPc, "vip")
  BY DEF Attaches
<1>2. job.pc = "vip" /\ ~job.raising
  BY DEF SkipLatecomer, Reattach, ReattachFails, AllAttached, Running
<1>3. /\ (Works(BalancerPc) /\ job'.pc \in {"vip", "done"}) \/ Fails(BalancerPc)
      /\ EndpointInv'
      /\ \A a \in attached' : a \in attached \/ a[2] = This
  <2>1. CASE SkipLatecomer
    <3>1. Goto("vip") /\ attached' = attached
      BY <2>1 DEF SkipLatecomer
    <3>2. job'.pc = "vip"
      BY <1>2, <3>1 DEF Goto, CallInv, CallTyped, JobType
    <3>3. QED
      BY <2>1, <3>1, <3>2, SkipLatecomerStep
  <2>2. CASE Reattach("vip")
    <3>1. Goto("vip")
      BY <2>2 DEF Reattach
    <3>2. job'.pc = "vip"
      BY <1>2, <3>1 DEF Goto, CallInv, CallTyped, JobType
    <3>3. QED
      BY <1>1, <2>2, <3>2, ReattachStep
  <2>3. CASE ReattachFails("vip")
    BY <1>1, <2>3, ReattachFailsStep
  <2>4. CASE AllAttached("vip")
    BY <1>1, <2>4, AllAttachedStep DEF endpointVars
  <2>5. QED
    BY <2>1, <2>2, <2>3, <2>4
<1>4. UNCHANGED <<defaultPool, position, uncreated, listeners, pools, monitors, members>>
  BY DEF SkipLatecomer, loadBalancerVars
<1>5. PICK o : o = This
  OBVIOUS
<1>6. Builds(o) /\ pools' = pools
  BY <1>4 DEF Builds
<1>7. BalancerWhole(o)
  BY <1>2, <1>5 DEF BalancerInv, BuildInv
<1>8. BalancerWhole(o)'
  BY <1>6, <1>7, WholeStays
<1>9. FloatingIpLast'
  BY <1>3, <1>5, <1>6, <1>7, LastStays DEF BalancerInv
<1>10. dest \subseteq dest'
  BY <1>3 DEF Works, Fails, Grows
<1>11. LoadBalancerTypeOK'
  BY <1>4, <1>10 DEF BalancerInv, LoadBalancerTypeOK
<1>12. BuildInv'
  <2>1. CASE Works(BalancerPc) /\ job'.pc \in {"vip", "done"}
    <3>1. This' = o
      BY <1>5, <2>1, CallGoes
    <3>2. BalancerWhole(This)'
      BY <1>8, <3>1
    <3>3. QED
      BY <2>1, <3>2 DEF BuildInv, BalancerPc
  <2>2. CASE Fails(BalancerPc)
    <3>1. job'.pc = "idle"
      BY <2>2, NoJobIsIdle DEF Fails, FailRecord
    <3>2. QED
      BY <3>1, NoBalancerAtWork DEF BalancerPc
  <2>3. QED
    BY <1>3, <2>1, <2>2
<1>13. QED
  BY <1>3, <1>9, <1>11, <1>12 DEF Handles, BalancerInv

\* A step of this handler.
LEMMA BalancerHandles ==
    ASSUME CallInv, EndpointInv, BalancerInv, LoadBalancerNext
    PROVE  Handles(LoadBalancers, BalancerPc) /\ EndpointInv' /\ BalancerInv'
<1>1. CASE BeginLoadBalancer
  BY <1>1, BeginLoadBalancerStep
<1>2. CASE Gather \/ CreateBalancer
  BY <1>2, GatherStep DEF Handles
<1>3. CASE CreateListener
  BY <1>3, CreateListenerStep DEF Handles
<1>4. CASE CreatePool \/ CreateMonitor \/ CreateMember
  BY <1>4, PoolSteps DEF Handles
<1>5. CASE MembersCreated
  BY <1>5, MembersCreatedStep DEF Handles
<1>6. CASE ListenersCreated
  BY <1>6, ListenersCreatedStep DEF Handles
<1>7. CASE \/ GatherFails \/ CreateBalancerFails \/ CreateListenerFails
           \/ CreatePoolFails \/ CreateMonitorFails \/ CreateMemberFails
  BY <1>7, BalancerFails DEF Handles
<1>8. CASE \/ SkipLatecomer
           \/ /\ Reattach("vip") \/ ReattachFails("vip") \/ AllAttached("vip")
              /\ UNCHANGED loadBalancerVars
  BY <1>8, VipSteps
<1>9. QED
  BY <1>1, <1>2, <1>3, <1>4, <1>5, <1>6, <1>7, <1>8 DEF LoadBalancerNext

\* Steps of handlers of other kinds.
LEMMA BalancerElsewhere ==
    ASSUME CallInv, BalancerInv, Elsewhere(LoadBalancers, BalancerPc),
           UNCHANGED loadBalancerVars,
           \A a \in attached' : a \in attached \/ a[2].of \notin LoadBalancers
    PROVE  BalancerInv'
<1>1. UNCHANGED <<defaultPool, position, uncreated, listeners, pools, monitors, members>>
  BY DEF loadBalancerVars
<1>2. LoadBalancerTypeOK'
  BY <1>1 DEF Elsewhere, BalancerInv, LoadBalancerTypeOK
<1>3. FloatingIpLast'
  <2>1. Builds(This)
    BY <1>1 DEF Builds
  <2>2. QED
    BY <1>1, <2>1, LastStays DEF BalancerInv
<1>4. BuildInv'
  BY NoBalancerAtWork DEF Elsewhere, Idle
<1>5. QED
  BY <1>2, <1>3, <1>4 DEF BalancerInv

LEMMA BalancerEnds ==
    ASSUME CallInv, BalancerInv, CallEnds, UNCHANGED <<endpointVars, loadBalancerVars>>
    PROVE  BalancerInv'
<1>1. UNCHANGED <<defaultPool, position, uncreated, listeners, pools, monitors, members, attached>>
  BY DEF loadBalancerVars, endpointVars
<1>2. job'.pc = "idle" /\ dest' = dest
  BY NoJobIsIdle
  DEF CallEnds, CallReturns, CallFails, CrashCall, ReturnDestination, FailRecord
<1>3. LoadBalancerTypeOK'
  BY <1>1, <1>2 DEF BalancerInv, LoadBalancerTypeOK
<1>4. FloatingIpLast'
  <2>1. Builds(This)
    BY <1>1 DEF Builds
  <2>2. QED
    BY <1>1, <2>1, LastStays DEF BalancerInv
<1>5. BuildInv'
  BY <1>2, NoBalancerAtWork DEF BalancerPc
<1>6. QED
  BY <1>3, <1>4, <1>5 DEF BalancerInv

LEMMA BalancerBegins ==
    ASSUME job = NoJob, LoadBalancerInit, attached = {}
    PROVE  BalancerInv
<1>1. job.pc = "idle"
  BY DEF NoJob
<1>2. LoadBalancerTypeOK
  BY DEF LoadBalancerInit, LoadBalancerTypeOK
<1>3. FloatingIpLast /\ BuildInv
  BY <1>1 DEF FloatingIpLast, BuildInv, BalancerPc
<1>4. QED
  BY <1>2, <1>3 DEF BalancerInv


LEMMA NamedBegins ==
    ASSUME NEW namesakes \in SUBSET Named, dest = {[of |-> r, by |-> 0] : r \in namesakes},
           status = [r \in Resource |-> "none"], job = NoJob, NamedInit
    PROVE  NamedInv
<1>1. job.pc = "idle" /\ remaining = {} /\ given = {}
  BY DEF NoJob, NamedInit
<1>2. NamedTypeOK
  BY <1>1 DEF NamedTypeOK
<1>3. OneNamesake
  BY DEF OneNamesake
<1>4. GivenInv
  BY DEF GivenInv
<1>5. QED
  BY <1>1, <1>2, <1>3, <1>4 DEF NamedInv

LEMMA NamedPromises ==
    ASSUME CallInv, NamedInv
    PROVE  OneNamesake /\ LossReported
<1>1. LossReported
  <2>1. SUFFICES ASSUME NEW r \in Named, status[r] = "migrated", destination[r].by > 0
                 PROVE  \/ \A p \in Parts[r] \ (Unscoped \cup Delegations) : <<destination[r], p>> \in given
                        \/ \E t \in trouble : t.call = destination[r]
    BY DEF LossReported
  <2>2. destination[r] \in dest /\ destination[r].of = r
    BY <2>1, NamedAssumption DEF CallInv
  <2>3. ~(job.pc \in PartPc /\ destination[r] = This)
    <3>1. SUFFICES ASSUME job.pc \in PartPc, destination[r] = This PROVE FALSE
      OBVIOUS
    <3>2. ~Idle
      BY <3>1 DEF PartPc, Idle
    <3>3. job.res = r /\ status[job.res] = "in-progress"
      BY <2>2, <3>1, <3>2, ThisIsObject DEF CallInv, JobOK
    <3>4. QED
      BY <2>1, <3>3
  <2>4. Complete(destination[r]) \/ Mishap(destination[r])
    BY <2>1, <2>2, <2>3 DEF NamedInv, GivenInv
  <2>5. QED
    BY <2>2, <2>4 DEF Complete, Mishap
<1>2. QED
  BY <1>1 DEF NamedInv

-----------------------------------------------------------------------------
(* All the handlers.                                                       *)

\* What a call that finds a namesake does, as the other handlers see it.
LEMMA FindsElsewhere ==
    ASSUME NEW kind, NEW pcs, Handler(kind, pcs), pcs # NamedPc, CallInv, Finds
    PROVE  Elsewhere(kind, pcs)
<1>1. /\ kind \cap Named = {} /\ pcs \cap NamedPc = {} /\ "idle" \notin pcs
      /\ kind \subseteq Resource
  BY KindsApart, HandlerFacts, NamedConstants
<1>2. PICK o \in dest : o.of = job.res /\ ReturnDestination(o)
  BY DEF Finds
<1>3. job.pc = "find" /\ job.pc \in NamedPc /\ job.res \in Named
  BY DEF Finds, Running, NamedPc, CallInv, JobOK, KindOK
<1>4. job'.pc = "idle" /\ Idle' /\ UNCHANGED <<dest, trouble, calls>>
  BY <1>2, NoJobIsIdle DEF ReturnDestination
<1>5. \A r \in kind : status'[r] = status[r] /\ destination'[r] = destination[r]
  BY <1>1, <1>2, <1>3 DEF ReturnDestination, CallInv, CallTyped
<1>6. calls \in Nat
  BY DEF CallInv, CallTyped
<1>7. QED
  BY <1>1, <1>3, <1>4, <1>5, <1>6 DEF Elsewhere

\* Every step is one of a single handler, and the others see it from elsewhere.
LEMMA OneHandlerSteps ==
    ASSUME NEW kind, NEW pcs, Handler(kind, pcs), CallInv,
           Handles(kind, pcs) \/ (Finds /\ pcs = NamedPc)
    PROVE  /\ CallInv'
           /\ \A other, others :
                 Handler(other, others) /\ others # pcs => Elsewhere(other, others)
           /\ \A r \in Resource : status[r] = "migrated" =>
                 status'[r] = "migrated" /\ destination'[r] = destination[r]
<1>1. CASE Handles(kind, pcs)
  <2>1. CallInv'
    BY <1>1, OpensKeepsCallInv, WorksKeepsCallInv, FailsKeepsCallInv DEF Handles
  <2>2. RecordsStay
    BY <1>1, HandlesRecords
  <2>3. \A other, others :
            Handler(other, others) /\ others # pcs => Elsewhere(other, others)
    BY <1>1, HandlesElsewhere
  <2>4. QED
    BY <2>1, <2>2, <2>3 DEF RecordsStay
<1>2. CASE Finds /\ pcs = NamedPc
  <2>1. PICK o \in dest : o.of = job.res /\ ReturnDestination(o)
    BY <1>2 DEF Finds
  <2>2. ~Idle
    BY <1>2 DEF Finds, Running, Idle
  <2>3. CallInv'
    BY <2>1, <2>2, ReturnKeepsCallInv
  <2>4. job.res \in Resource /\ status[job.res] = "in-progress"
    BY <2>2 DEF CallInv, JobOK
  <2>5. \A r \in Resource : status[r] = "migrated" =>
            status'[r] = "migrated" /\ destination'[r] = destination[r]
    BY <2>1, <2>4 DEF ReturnDestination, CallInv, CallTyped
  <2>6. \A other, others :
            Handler(other, others) /\ others # pcs => Elsewhere(other, others)
    BY <1>2, FindsElsewhere
  <2>7. QED
    BY <2>3, <2>5, <2>6
<1>3. QED
  BY <1>1, <1>2

LEMMA HandlersDiffer ==
    /\ Handler(Volumes \cup Instances, VolumePc) /\ Handler(Shares, SharePc)
    /\ Handler(FloatingIps, IpPc) /\ Handler(Ports, PortPc)
    /\ Handler(LoadBalancers, BalancerPc) /\ Handler(Named, NamedPc)
    /\ VolumePc \notin {SharePc, IpPc, PortPc, BalancerPc, NamedPc}
    /\ SharePc \notin {VolumePc, IpPc, PortPc, BalancerPc, NamedPc}
    /\ IpPc \notin {PortPc, BalancerPc, NamedPc, VolumePc, SharePc}
    /\ PortPc \notin {IpPc, BalancerPc, NamedPc, VolumePc, SharePc}
    /\ BalancerPc \notin {IpPc, PortPc, NamedPc, VolumePc, SharePc}
    /\ NamedPc \notin {IpPc, PortPc, BalancerPc, VolumePc, SharePc}
<1>1. "upload" \in VolumePc /\ "upload" \notin SharePc /\ "upload" \notin IpPc
      /\ "upload" \notin PortPc /\ "upload" \notin BalancerPc /\ "upload" \notin NamedPc
  BY DEF VolumePc, SharePc, IpPc, PortPc, BalancerPc, NamedPc
<1>2. "createShare" \in SharePc /\ "createShare" \notin IpPc
      /\ "createShare" \notin PortPc /\ "createShare" \notin BalancerPc
      /\ "createShare" \notin NamedPc
  BY DEF SharePc, IpPc, PortPc, BalancerPc, NamedPc
<1>3. "findRoute" \in IpPc /\ "findRoute" \notin PortPc /\ "findRoute" \notin BalancerPc
      /\ "findRoute" \notin NamedPc
  BY DEF IpPc, PortPc, BalancerPc, NamedPc
<1>4. "createPort" \in PortPc /\ "createPort" \notin BalancerPc /\ "createPort" \notin NamedPc
  BY DEF PortPc, BalancerPc, NamedPc
<1>5. "gather" \in BalancerPc /\ "gather" \notin NamedPc
  BY DEF BalancerPc, NamedPc
<1>6. QED
  BY <1>1, <1>2, <1>3, <1>4, <1>5 DEF Handler

HandlerInv == CallInv /\ VolumeInv /\ ShareInv /\ NamedInv /\ EndpointInv /\ BalancerInv

LEMMA HandlersBegin ==
    ASSUME Init
    PROVE  HandlerInv
<1>1. PICK namesakes \in SUBSET Named : CallInit({[of |-> r, by |-> 0] : r \in namesakes})
  BY DEF Init
<1>2. /\ wanted \in Requests
      /\ status = [r \in Resource |-> "none"]
      /\ destination = [r \in Resource |-> NoDest]
      /\ calls = 0
      /\ job = NoJob
      /\ dest = {[of |-> r, by |-> 0] : r \in namesakes}
      /\ trouble = {}
  BY <1>1 DEF CallInit
<1>3. job.pc = "idle" /\ ~job.raising /\ Idle
  BY <1>2 DEF NoJob, Idle
<1>4. \A o \in dest : o \in Object /\ o.by = 0
  BY <1>2, NamedAssumption DEF Object
<1>5. CallTyped
  <2>1. status \in [Resource -> Statuses]
    BY <1>2 DEF Statuses
  <2>2. destination \in [Resource -> Object \cup {NoDest}]
    BY <1>2
  <2>3. job \in JobType
    BY <1>2, NoJobIsTyped
  <2>4. QED
    BY <1>2, <1>4, <2>1, <2>2, <2>3 DEF CallTyped
<1>6. CallInv
  <2>1. JobOK
    BY <1>3 DEF JobOK, KindOK, EarlyPc, VolumePc, SharePc, IpPc, PortPc, BalancerPc, NamedPc
  <2>2. \A r \in Resource : status[r] # "migrated"
    BY <1>2
  <2>3. \A o \in dest : o.by <= calls
    BY <1>2, <1>4
  <2>4. QED
    BY <1>5, <2>1, <2>2, <2>3 DEF CallInv
<1>7. VolumeInv
  BY <1>2, VolumeBegins DEF Init
<1>8. ShareInv
  BY <1>2, <1>5, ShareBegins DEF Init
<1>9. EndpointInv /\ attached = {}
  BY <1>2, EndpointBegins DEF Init, EndpointInit
<1>10. BalancerInv
  BY <1>2, <1>9, BalancerBegins DEF Init
<1>11. NamedInv
  BY <1>2, NamedBegins DEF Init
<1>12. QED
  BY <1>6, <1>7, <1>8, <1>9, <1>10, <1>11 DEF HandlerInv

LEMMA StoringKeeps ==
    ASSUME HandlerInv, Storing, UNCHANGED <<endpointVars, loadBalancerVars, namedVars>>
    PROVE  HandlerInv'
<1>1. CallInv /\ VolumeInv /\ ShareInv /\ NamedInv /\ EndpointInv /\ BalancerInv
  BY DEF HandlerInv
<1>2. attached' = attached
  BY DEF endpointVars
<1>3. CASE VolumeNext /\ UNCHANGED shareVars
  <2>1. Handles(Volumes \cup Instances, VolumePc) /\ VolumeInv'
    BY <1>1, <1>3, VolumeHandles
  <2>2. /\ CallInv'
        /\ \A other, others :
              Handler(other, others) /\ others # VolumePc => Elsewhere(other, others)
        /\ \A r \in Resource : status[r] = "migrated" =>
              status'[r] = "migrated" /\ destination'[r] = destination[r]
    BY <1>1, <2>1, HandlersDiffer, OneHandlerSteps
  <2>3. /\ Elsewhere(Shares, SharePc) /\ Elsewhere(FloatingIps, IpPc)
        /\ Elsewhere(Ports, PortPc) /\ Elsewhere(LoadBalancers, BalancerPc)
        /\ Elsewhere(Named, NamedPc)
    BY <2>2, HandlersDiffer
  <2>4. ShareInv' /\ NamedInv'
    BY <1>1, <1>3, <2>3, ShareElsewhere, NamedElsewhere
  <2>5. EndpointInv' /\ BalancerInv'
    BY <1>1, <1>2, <2>2, <2>3, EndpointElsewhere, BalancerElsewhere
  <2>6. QED
    BY <2>1, <2>2, <2>4, <2>5 DEF HandlerInv
<1>4. CASE ShareNext /\ UNCHANGED volumeVars
  <2>1. Handles(Shares, SharePc) /\ ShareInv'
    BY <1>1, <1>4, ShareHandles
  <2>2. /\ CallInv'
        /\ \A other, others :
              Handler(other, others) /\ others # SharePc => Elsewhere(other, others)
        /\ \A r \in Resource : status[r] = "migrated" =>
              status'[r] = "migrated" /\ destination'[r] = destination[r]
    BY <1>1, <2>1, HandlersDiffer, OneHandlerSteps
  <2>3. /\ Elsewhere(Volumes \cup Instances, VolumePc) /\ Elsewhere(FloatingIps, IpPc)
        /\ Elsewhere(Ports, PortPc) /\ Elsewhere(LoadBalancers, BalancerPc)
        /\ Elsewhere(Named, NamedPc)
    BY <2>2, HandlersDiffer
  <2>4. VolumeInv' /\ NamedInv'
    BY <1>1, <1>4, <2>3, VolumeElsewhere, NamedElsewhere
  <2>5. EndpointInv' /\ BalancerInv'
    BY <1>1, <1>2, <2>2, <2>3, EndpointElsewhere, BalancerElsewhere
  <2>6. QED
    BY <2>1, <2>2, <2>4, <2>5 DEF HandlerInv
<1>5. QED
  BY <1>3, <1>4 DEF Storing

LEMMA ServingKeeps ==
    ASSUME HandlerInv, Serving, UNCHANGED <<volumeVars, shareVars>>
    PROVE  HandlerInv'
<1>1. CallInv /\ VolumeInv /\ ShareInv /\ NamedInv /\ EndpointInv /\ BalancerInv
  BY DEF HandlerInv
<1>2. CASE EndpointNext /\ UNCHANGED <<loadBalancerVars, namedVars>>
  <2>1. /\ Handles(FloatingIps, IpPc) \/ Handles(Ports, PortPc)
        /\ EndpointInv'
        /\ \A a \in attached' : a \in attached \/ (a[2] = This /\ job.res \in Ports)
    BY <1>1, <1>2, EndpointHandles
  <2>2. /\ CallInv'
        /\ \A other, others :
              Handler(other, others) /\ others \notin {IpPc, PortPc} => Elsewhere(other, others)
    <3>1. CASE Handles(FloatingIps, IpPc)
      BY <1>1, <3>1, HandlersDiffer, OneHandlerSteps
    <3>2. CASE Handles(Ports, PortPc)
      BY <1>1, <3>2, HandlersDiffer, OneHandlerSteps
    <3>3. QED
      BY <2>1, <3>1, <3>2
  <2>3. /\ Elsewhere(Volumes \cup Instances, VolumePc) /\ Elsewhere(Shares, SharePc)
        /\ Elsewhere(LoadBalancers, BalancerPc) /\ Elsewhere(Named, NamedPc)
    BY <2>2, HandlersDiffer
  <2>4. VolumeInv' /\ ShareInv' /\ NamedInv'
    BY <1>1, <1>2, <2>3, VolumeElsewhere, ShareElsewhere, NamedElsewhere
  <2>5. \A a \in attached' : a \in attached \/ a[2].of \notin LoadBalancers
    BY <2>1, EndpointConstants DEF This
  <2>6. BalancerInv'
    BY <1>1, <1>2, <2>3, <2>5, BalancerElsewhere
  <2>7. QED
    BY <2>1, <2>2, <2>4, <2>6 DEF HandlerInv
<1>3. CASE LoadBalancerNext /\ UNCHANGED namedVars
  <2>1. Handles(LoadBalancers, BalancerPc) /\ EndpointInv' /\ BalancerInv'
    BY <1>1, <1>3, BalancerHandles
  <2>2. /\ CallInv'
        /\ \A other, others :
              Handler(other, others) /\ others # BalancerPc => Elsewhere(other, others)
    BY <1>1, <2>1, HandlersDiffer, OneHandlerSteps
  <2>3. /\ Elsewhere(Volumes \cup Instances, VolumePc) /\ Elsewhere(Shares, SharePc)
        /\ Elsewhere(Named, NamedPc)
    BY <2>2, HandlersDiffer
  <2>4. VolumeInv' /\ ShareInv' /\ NamedInv'
    BY <1>1, <1>3, <2>3, VolumeElsewhere, ShareElsewhere, NamedElsewhere
  <2>5. QED
    BY <2>1, <2>2, <2>4 DEF HandlerInv
<1>4. CASE NamedNext /\ UNCHANGED <<endpointVars, loadBalancerVars>>
  <2>1. (Handles(Named, NamedPc) \/ Finds) /\ NamedInv'
    BY <1>1, <1>4, NamedHandles
  <2>2. /\ CallInv'
        /\ \A other, others :
              Handler(other, others) /\ others # NamedPc => Elsewhere(other, others)
        /\ \A r \in Resource : status[r] = "migrated" =>
              status'[r] = "migrated" /\ destination'[r] = destination[r]
    BY <1>1, <2>1, HandlersDiffer, OneHandlerSteps
  <2>3. /\ Elsewhere(Volumes \cup Instances, VolumePc) /\ Elsewhere(Shares, SharePc)
        /\ Elsewhere(FloatingIps, IpPc) /\ Elsewhere(Ports, PortPc)
        /\ Elsewhere(LoadBalancers, BalancerPc)
    BY <2>2, HandlersDiffer
  <2>4. VolumeInv' /\ ShareInv'
    BY <1>1, <2>3, VolumeElsewhere, ShareElsewhere
  <2>5. attached' = attached
    BY <1>4 DEF endpointVars
  <2>6. EndpointInv' /\ BalancerInv'
    BY <1>1, <1>4, <2>2, <2>3, <2>5, EndpointElsewhere, BalancerElsewhere
  <2>7. QED
    BY <2>1, <2>2, <2>4, <2>6 DEF HandlerInv
<1>5. QED
  BY <1>2, <1>3, <1>4 DEF Serving

LEMMA EndsKeep ==
    ASSUME HandlerInv, CallEnds,
           UNCHANGED <<volumeVars, shareVars, endpointVars, loadBalancerVars, namedVars>>
    PROVE  HandlerInv'
  BY EndKeepsCallInv, VolumeEnds, ShareEnds, NamedEnds, EndpointEnds, BalancerEnds
  DEF HandlerInv

\* A step in which nothing happens.
LEMMA HandlersRest ==
    ASSUME HandlerInv, UNCHANGED vars
    PROVE  HandlerInv'
<1>1. UNCHANGED <<wanted, status, destination, calls, job, dest, trouble>>
  BY DEF vars, callVars
<1>2. UNCHANGED <<sourceImages, destImages, imageKnown, built, labelled>>
  BY DEF vars, volumeVars
<1>3. UNCHANGED <<granted, rules, uncopied, contexts, mounted, filled>>
  BY DEF vars, shareVars
<1>4. UNCHANGED <<preserve, sourceRoutes, routes, route, unattached, attached>>
  BY DEF vars, endpointVars
<1>5. UNCHANGED <<defaultPool, position, uncreated, listeners, pools, monitors, members>>
  BY DEF vars, loadBalancerVars
<1>6. UNCHANGED <<remaining, given>>
  BY DEF vars, namedVars
<1>7. This' = This /\ Idle' = Idle
  BY <1>1 DEF This, Idle
<1>8. CallInv'
  BY <1>1, <1>7 DEF HandlerInv, CallInv, CallTyped, JobOK, KindOK
<1>9. VolumeInv'
  BY <1>1, <1>2, <1>7
  DEF HandlerInv, VolumeInv, VolumeTypeOK, ImageInv, DiskInv, SourceLost, DestLost,
      Untroubled, Troubled, VolumeWhole
<1>10. ShareInv'
  <2>1. Source' = Source /\ \A k : Revocable(k)' <=> Revocable(k)
    BY <1>1, <1>3, <1>7
    DEF Source, SourceShare, Revocable, UnmountFailed, Troubled, ToKeep, RulesOf
  <2>2. \A k : Entered(k)' <=> Entered(k)
    BY <1>3, <1>7, <2>1 DEF Entered, HasRule, RulesOf
  <2>3. Nesting' /\ ShareTypeOK'
    BY <1>1, <1>3, <2>2 DEF HandlerInv, ShareInv, Nesting, Depth, ShareTypeOK
  <2>4. AccessWhileMounted' /\ UserAccessKept'
    BY <1>1, <1>3
    DEF HandlerInv, ShareInv, AccessWhileMounted, UserAccessKept, HasRule, RulesOf,
        SourceShare, Troubled
  <2>5. RulesInv'
    BY <1>1, <1>3 DEF HandlerInv, ShareInv, RulesInv, Accounted, RuleTrouble
  <2>6. CopyInv' /\ Preserved'
    BY <1>1, <1>3, <1>7, <2>1
    DEF HandlerInv, ShareInv, CopyInv, Preserved, ToKeep, RulesOf, Troubled
  <2>7. QED
    BY <2>3, <2>4, <2>5, <2>6 DEF ShareInv
<1>11. NamedInv'
  BY <1>1, <1>6, <1>7
  DEF HandlerInv, NamedInv, NamedTypeOK, OneNamesake, GivenInv, Complete, Mishap
<1>12. EndpointInv'
  BY <1>1, <1>4, <1>7
  DEF HandlerInv, EndpointInv, StandInv, RouteInv, AttachInv, EndpointTypeOK, Followed,
      Routed, Listed, Joined
<1>13. BalancerInv'
  <2>1. \A o, q : PoolDone(o, q)' <=> PoolDone(o, q)
    BY <1>5 DEF PoolDone
  <2>2. \A o : BalancerWhole(o)' <=> BalancerWhole(o)
    BY <1>5 DEF BalancerWhole, PoolsOf
  <2>3. FloatingIpLast' /\ LoadBalancerTypeOK'
    BY <1>1, <1>4, <1>5
    DEF HandlerInv, BalancerInv, FloatingIpLast, LoadBalancerTypeOK, BalancerWhole, PoolsOf
  <2>4. BuildInv'
    BY <1>1, <1>4, <1>5, <1>7
    DEF HandlerInv, BalancerInv, BuildInv, Behind, NewPool, PoolAtWork, Past, AtPool,
        AtListener, ListenerAt, Positions, BalancerWhole, PoolsOf, PoolDone
  <2>5. QED
    BY <2>3, <2>4 DEF BalancerInv
<1>14. QED
  BY <1>8, <1>9, <1>10, <1>11, <1>12, <1>13 DEF HandlerInv

\* The invariant of the calls and of what the handlers of each kind work on
\* holds in every reachable state.
THEOREM HandlersInvariance == Spec => []HandlerInv
<1>1. Init => HandlerInv
  BY HandlersBegin
<1>2. HandlerInv /\ [Next]_vars => HandlerInv'
  BY StoringKeeps, ServingKeeps, EndsKeep, HandlersRest DEF Next
<1>3. QED
  BY <1>1, <1>2, PTL DEF Spec

\* Types (HandlerCall and the handlers): status, destination and the call at
\* work keep their types whatever is migrated, in which order, and whatever
\* fails or is killed.
THEOREM HandlersTypeCorrect == Spec => []HandlersTypeOK
<1>1. HandlerInv => HandlersTypeOK
  BY CallTypes
  DEF HandlerInv, CallInv, VolumeInv, ShareInv, NamedInv, EndpointInv, StandInv,
      BalancerInv, HandlersTypeOK
<1>2. QED
  BY <1>1, HandlersInvariance, PTL

\* Once a call for a volume or an instance has ended, its image is gone from
\* both clouds, unless a request about the image failed or the process was
\* killed (cinder/volume.py, nova/instance.py, utils/glance_utils.py).
THEOREM ImagesAreTemporary == Spec => []NoImageLeft
<1>1. HandlerInv => NoImageLeft
  BY VolumePromises DEF HandlerInv
<1>2. QED
  BY <1>1, HandlersInvariance, PTL

\* A source image is deleted only once it has been copied, or because the call
\* is failing, and a destination image only once its disk is complete or has
\* failed.
THEOREM ImagesOutliveCopies == Spec => ImageOutlivesCopy
<1>1. HandlerInv /\ [Next]_vars => [ImageUseless]_<<callVars, volumeVars>>
  <2>1. SUFFICES ASSUME HandlerInv, [Next]_vars PROVE ImageUseless
    OBVIOUS
  <2>2. CASE VolumeNext
    BY <2>1, <2>2, ImagesGoUseless DEF HandlerInv
  <2>3. CASE UNCHANGED volumeVars
    BY <2>3 DEF volumeVars, ImageUseless
  <2>4. QED
    BY <2>1, <2>2, <2>3 DEF Next, Storing, Serving, vars
<1>2. HandlerInv /\ [Next]_vars =>
        [/\ \A i \in sourceImages \ sourceImages' : i \in destImages \/ job.raising
         /\ \A i \in destImages \ destImages' :
               i \in built \/ Troubled(i, "createDisk") \/ Troubled(i, "provision")]_
           <<callVars, volumeVars>>
  BY <1>1 DEF ImageUseless
<1>3. QED
  BY <1>2, HandlersInvariance, PTL DEF Spec, ImageOutlivesCopy

\* The migration host keeps its access to a share for as long as the share is
\* mounted there, unless unmounting it failed (manila/share.py,
\* utils/manila_utils.py).
THEOREM SharesUnmountedFirst == Spec => []AccessWhileMounted
<1>1. HandlerInv => AccessWhileMounted
  BY SharePromises DEF HandlerInv
<1>2. QED
  BY <1>1, HandlersInvariance, PTL

\* No access the user has granted to a source share is ever revoked, not even
\* when the migration host is one of those it was granted to.
THEOREM AccessOfUsersKept == Spec => []UserAccessKept
<1>1. HandlerInv => UserAccessKept
  BY SharePromises DEF HandlerInv
<1>2. QED
  BY <1>1, HandlersInvariance, PTL

\* Nobody but the migration host gets access to a share whom the user has not
\* granted it, and the host has it only during a call, or after a request to
\* add or to delete its rule has failed or the process was killed.
THEOREM AccessIsGranted == Spec => []NoForeignAccess
<1>1. HandlerInv => NoForeignAccess
  BY SharePromises DEF HandlerInv
<1>2. QED
  BY <1>1, HandlersInvariance, PTL

\* With preserve_share_access_rules a migrated share grants the access the
\* source share does, unless a rule could not be copied.
THEOREM AccessIsCopied == Spec => []AccessPreserved
<1>1. HandlerInv => AccessPreserved
  BY SharePromises DEF HandlerInv
<1>2. QED
  BY <1>1, HandlersInvariance, PTL

\* The floating IPs of a migrated endpoint are attached to the object it was
\* migrated to, and are never taken from it again (neutron/port.py,
\* octavia/load_balancer.py).
THEOREM FloatingIpsStayAttached == Spec => []FloatingIpsFollow
<1>1. HandlerInv => FloatingIpsFollow
  BY EndpointPromises DEF HandlerInv
<1>2. QED
  BY <1>1, HandlersInvariance, PTL

\* Where the handler can find a single interface on the source network, a
\* migrated floating IP can be reached through its migrated router
\* (neutron/floating_ip.py:234-260).  Of routers whose interfaces have another
\* device_owner it finds none, and nothing is promised.
THEOREM RoutesComeFirst == Spec => []RouteReady
<1>1. HandlerInv => RouteReady
  BY EndpointPromises DEF HandlerInv
<1>2. QED
  BY <1>1, HandlersInvariance, PTL

\* A load balancer has a floating IP only when every listener, pool, monitor
\* and member of the source one has been created, for any number of them and
\* however many listeners share a pool (octavia/load_balancer.py).
THEOREM TrafficIsSwitchedLast == Spec => []FloatingIpLast
<1>1. HandlerInv => FloatingIpLast
  BY DEF HandlerInv, BalancerInv
<1>2. QED
  BY <1>1, HandlersInvariance, PTL

\* After any number of failed, killed and repeated calls there is one object of
\* each name on the destination (keystone, designate/zone.py, nova/flavor.py
\* and the like).
THEOREM NamesakesAreFound == Spec => []OneNamesake
<1>1. HandlerInv => OneNamesake
  BY NamedPromises DEF HandlerInv
<1>2. QED
  BY <1>1, HandlersInvariance, PTL

\* What a migrated user, zone, flavor or type lacks was lost in the call that
\* created it, which logged a failure, raised or was killed; but role assignments
\* on the system (keystone/user.py:136-171) and record sets that delegate a
\* subdomain (designate/zone.py:246) are lost without a sign.
THEOREM LossesAreReported == Spec => []LossReported
<1>1. HandlerInv => LossReported
  BY NamedPromises DEF HandlerInv
<1>2. QED
  BY <1>1, HandlersInvariance, PTL

-----------------------------------------------------------------------------
(* The contract: what a step does to the objects that are whole.           *)

\* What the steps for load balancers leave as it is.
LEMMA BalancersGrow ==
    ASSUME LoadBalancerNext
    PROVE  /\ Builds(This)
           /\ \A x \in listeners' : x \in listeners \/ x[1] = This
           /\ \A x \in monitors' : x \in monitors \/ x[1] = This
           /\ \A x \in members' : x \in members \/ x[1] = This
           /\ pools' # pools => job.pc = "pool"
           /\ Idle => UNCHANGED <<defaultPool, listeners, pools, monitors, members>>
<1>1. CASE \/ BeginLoadBalancer \/ Gather \/ GatherFails \/ CreateBalancer
           \/ CreateBalancerFails \/ MembersCreated \/ ListenersCreated \/ SkipLatecomer
           \/ UNCHANGED loadBalancerVars
  BY <1>1
  DEF BeginLoadBalancer, Gather, GatherFails, CreateBalancer, CreateBalancerFails,
      MembersCreated, ListenersCreated, SkipLatecomer, components, loadBalancerVars, Builds
<1>2. CASE \/ CreateListener \/ CreateListenerFails \/ CreatePool \/ CreatePoolFails
           \/ CreateMonitor \/ CreateMonitorFails \/ CreateMember \/ CreateMemberFails
  BY <1>2
  DEF CreateListener, CreateListenerFails, CreatePool, CreatePoolFails, CreateMonitor,
      CreateMonitorFails, CreateMember, CreateMemberFails, PerhapsAdded, Running, Idle, Builds
<1>3. QED
  BY <1>1, <1>2 DEF LoadBalancerNext

\* Where a pool is created the load balancer lacks one.
LEMMA PoolMissing ==
    ASSUME CallInv, BalancerInv, job.pc = "pool"
    PROVE  ~BalancerWhole(This)
<1>1. SUFFICES ASSUME BalancerWhole(This) PROVE FALSE
  OBVIOUS
<1>2. Behind /\ NewPool /\ LoadBalancerTypeOK /\ job.pc \in BalancerPc
  BY DEF BalancerInv, BuildInv, BalancerPc
<1>3. This.of = job.res /\ \A i \in Positions : ListenerAt(i) \in ListenersOf(job.res)
  BY <1>2, AtFacts
<1>4. AtPool \in PoolsOf(This.of)
  BY <1>2, <1>3 DEF NewPool, AtPool, AtListener, ListenerAt, PoolsOf
<1>5. PoolDone(This, AtPool)
  BY <1>1, <1>4, WholeIsDone
<1>6. PICK l : {p \in pools : p[1] = This /\ p[2] = AtPool} = {<<This, AtPool, l>>}
  BY <1>5 DEF PoolDone
<1>7. <<This, AtPool, l>> \in pools
  BY <1>6
<1>8. Past(AtPool)
  BY <1>2, <1>7 DEF Behind
<1>9. QED
  BY <1>2, <1>8 DEF NewPool

LEMMA WholeBalancers ==
    ASSUME CallInv, BalancerInv, LoadBalancerNext, NEW o
    PROVE  /\ BalancerWhole(o) => BalancerWhole(o)'
           /\ BalancerWhole(o)' => BalancerWhole(o) \/ (o = This /\ ~Idle)
<1>1. PICK x : x = This
  OBVIOUS
<1>2. /\ Builds(x)
      /\ \A y \in listeners' : y \in listeners \/ y[1] = x
      /\ \A y \in monitors' : y \in monitors \/ y[1] = x
      /\ \A y \in members' : y \in members \/ y[1] = x
      /\ pools' # pools => job.pc = "pool"
      /\ Idle => UNCHANGED <<defaultPool, listeners, pools, monitors, members>>
  BY <1>1, BalancersGrow
<1>3. BalancerWhole(o) => BalancerWhole(o)'
  <2>1. SUFFICES ASSUME BalancerWhole(o) PROVE BalancerWhole(o)'
    OBVIOUS
  <2>2. o # x \/ pools' = pools
    BY <1>1, <1>2, <2>1, PoolMissing
  <2>3. QED
    BY <1>2, <2>1, <2>2, WholeStays
<1>4. ASSUME BalancerWhole(o)', Idle
      PROVE  BalancerWhole(o)
  <2>1. UNCHANGED <<defaultPool, listeners, pools, monitors, members>>
    BY <1>2, <1>4
  <2>2. QED
    BY <1>4, <2>1 DEF BalancerWhole, PoolsOf
<1>5. ASSUME BalancerWhole(o)', o # x
      PROVE  BalancerWhole(o)
  <2>1. /\ \A l \in ListenersOf(o.of) : <<o, l>> \in listeners' => <<o, l>> \in listeners
        /\ \A q : <<o, q>> \in monitors' => <<o, q>> \in monitors
        /\ \A q, m : <<o, q, m>> \in members' => <<o, q, m>> \in members
    BY <1>2, <1>5
  <2>2. \A q : {p \in pools' : p[1] = o /\ p[2] = q} = {p \in pools : p[1] = o /\ p[2] = q}
    BY <1>2, <1>5 DEF Builds
  <2>3. PoolsOf(o.of)' = PoolsOf(o.of) /\ defaultPool' = defaultPool
    BY <1>2 DEF Builds, PoolsOf
  <2>4. \A q \in PoolsOf(o.of) : PoolDone(o, q)
    <3>1. TAKE q \in PoolsOf(o.of)
    <3>2. /\ \E l \in ListenersOf(o.of) :
                /\ defaultPool'[l] = q
                /\ {p \in pools' : p[1] = o /\ p[2] = q} = {<<o, q, l>>}
          /\ q \in Monitored => <<o, q>> \in monitors'
          /\ \A m \in MembersOf[q] : <<o, q, m>> \in members'
      BY <1>5, <2>3, <3>1 DEF BalancerWhole
    <3>3. QED
      BY <2>1, <2>2, <2>3, <3>2 DEF PoolDone
  <2>5. \A l \in ListenersOf(o.of) : <<o, l>> \in listeners
    BY <1>5, <2>1 DEF BalancerWhole
  <2>6. QED
    BY <2>4, <2>5, WholeIsDone
<1>6. QED
  BY <1>1, <1>3, <1>4, <1>5

\* While no call is made, nothing is done to disks and shares.
LEMMA IdleStorage ==
    ASSUME Idle
    PROVE  /\ VolumeNext => UNCHANGED <<built, labelled>>
           /\ ShareNext => filled' = filled
<1>1. VolumeNext => UNCHANGED <<built, labelled>>
  BY DEF Idle, Running, Finally, VolumeNext, BeginVolume, UploadImage, UploadRefused,
         UploadCompletes, UploadFails, CopyImage, CopyImageFails, CleanUpImage,
         CleanUpImageFails, CreateDisk, CreateDiskFails, DiskProvisioned,
         ProvisioningFails, SetImageMetadata, SetImageMetadataFails, DropSourceImage,
         DropSourceImageFails, DropDestImage, DropDestImageFails, volumeVars
<1>2. ShareNext => filled' = filled
  BY DEF Idle, Running, ShareNext, BeginShare, CreateShare, CreateShareFails,
         ShareAvailable, ShareNotAvailable, CopyRule, CopyRuleFails, RulesCopied, UseRule,
         AddRule, AddRuleFails, RuleNotActive, MountShare, MountFails, CopyFiles,
         CopyFilesFails, Unmount, UnmountFails, LeaveProvided, DeleteRule,
         DeleteRuleFails, LeaveLast, shareVars
<1>3. QED
  BY <1>1, <1>2

\* An object that is whole stays so, and only that of the call at work may
\* become so.
LEMMA WholeSteps ==
    ASSUME HandlerInv, Next, NEW o
    PROVE  /\ Whole(o) => Whole(o)'
           /\ Whole(o)' => Whole(o) \/ (o = This /\ ~Idle)
<1>1. /\ VolumeWhole(o) => VolumeWhole(o)'
      /\ VolumeWhole(o)' => VolumeWhole(o) \/ (o = This /\ ~Idle)
  <2>1. CASE VolumeNext
    BY <2>1, DisksGrow, IdleStorage DEF VolumeWhole
  <2>2. CASE UNCHANGED volumeVars
    BY <2>2 DEF volumeVars, VolumeWhole
  <2>3. QED
    BY <2>1, <2>2 DEF Next, Storing
<1>2. /\ o \in filled => o \in filled'
      /\ o \in filled' => o \in filled \/ (o = This /\ ~Idle)
  <2>1. CASE ShareNext
    BY <2>1, FilesGrow, IdleStorage
  <2>2. CASE UNCHANGED shareVars
    BY <2>2 DEF shareVars
  <2>3. QED
    BY <2>1, <2>2 DEF Next, Storing
<1>3. /\ BalancerWhole(o) => BalancerWhole(o)'
      /\ BalancerWhole(o)' => BalancerWhole(o) \/ (o = This /\ ~Idle)
  <2>1. CASE LoadBalancerNext
    BY <2>1, WholeBalancers DEF HandlerInv
  <2>2. CASE UNCHANGED loadBalancerVars
    BY <2>2 DEF loadBalancerVars, BalancerWhole, PoolsOf
  <2>3. QED
    BY <2>1, <2>2 DEF Next, Serving
<1>4. QED
  BY <1>1, <1>2, <1>3 DEF Whole

-----------------------------------------------------------------------------
(* The contract, step by step.                                             *)

States == [r \in Resource |-> ContractState(status[r])]
WholeObjects == {o \in dest : Whole(o)}

ContractStep ==
    \/ Contract!Next
    \/ UNCHANGED <<calls, destination, dest>> /\ States' = States /\ WholeObjects' = WholeObjects

\* What a step does to a record, as the contract sees it.
LEMMA StateChanges ==
    ASSUME CallInv, NEW r \in Resource, NEW s, status' = [status EXCEPT ![r] = s]
    PROVE  States' = [States EXCEPT ![r] = ContractState(s)]
  BY DEF CallInv, CallTyped, States

LEMMA WholeRest ==
    ASSUME UNCHANGED <<volumeVars, shareVars, loadBalancerVars>>, dest' = dest
    PROVE  WholeObjects' = WholeObjects
<1>1. \A o : VolumeWhole(o)' <=> VolumeWhole(o)
  BY DEF volumeVars, VolumeWhole
<1>2. \A o : o \in filled' <=> o \in filled
  BY DEF shareVars
<1>3. \A o : BalancerWhole(o)' <=> BalancerWhole(o)
  BY DEF loadBalancerVars, BalancerWhole, PoolsOf
<1>4. \A o : Whole(o)' <=> Whole(o)
  BY <1>1, <1>2, <1>3 DEF Whole
<1>5. QED
  BY <1>4 DEF WholeObjects

\* A request may create the object of the call, or make it whole.
LEMMA WholeGrows ==
    ASSUME HandlerInv, Next, Grows, ~Idle
    PROVE  \/ dest' = dest /\ WholeObjects' = WholeObjects
           \/ /\ dest' = dest \cup {This}
              /\ WholeObjects' \in {WholeObjects, WholeObjects \cup {This}}
<1>1. /\ \A o : Whole(o) => Whole(o)'
      /\ \A o : Whole(o)' => Whole(o) \/ o = This
  BY WholeSteps
<1>2. dest \subseteq dest' /\ dest' \subseteq dest \cup {This}
  BY DEF Grows
<1>3. WholeObjects' = {o \in dest' : Whole(o)'}
  BY DEF WholeObjects
<1>4. WholeObjects \subseteq WholeObjects'
  BY <1>1, <1>2, <1>3 DEF WholeObjects
<1>5. CASE This \notin dest'
  <2>1. dest' = dest
    BY <1>2, <1>5
  <2>2. WholeObjects' \subseteq WholeObjects
    BY <1>1, <1>3, <1>5, <2>1 DEF WholeObjects
  <2>3. QED
    BY <1>4, <2>1, <2>2
<1>6. CASE This \in dest'
  <2>1. dest' = dest \cup {This}
    BY <1>2, <1>6
  <2>2. WholeObjects' \subseteq WholeObjects \cup {This}
    BY <1>1, <1>2, <1>3 DEF WholeObjects
  <2>3. QED
    BY <1>4, <2>1, <2>2
<1>7. QED
  BY <1>5, <1>6

\* A call starts.
LEMMA OpenSteps ==
    ASSUME HandlerInv, Next, NEW r \in Resource, NEW pc, Begin(r, pc)
    PROVE  ContractStep
<1>1. /\ Idle /\ status[r] # "migrated"
      /\ status' = [status EXCEPT ![r] = "in-progress"]
      /\ destination' = [destination EXCEPT ![r] = NoDest]
      /\ calls' = calls + 1 /\ dest' = dest
  BY DEF Begin
<1>2. States' = [States EXCEPT ![r] = "open"]
  BY <1>1, StateChanges DEF HandlerInv, ContractState
<1>3. States[r] # "migrated"
  BY <1>1 DEF States, ContractState
<1>4. WholeObjects' = WholeObjects
  <2>1. \A o : Whole(o)' <=> Whole(o)
    BY <1>1, WholeSteps
  <2>2. QED
    BY <1>1, <2>1 DEF WholeObjects
<1>5. Contract!Open(r)
  BY <1>1, <1>2, <1>3, <1>4 DEF Contract!Open, States, WholeObjects
<1>6. QED
  BY <1>5 DEF ContractStep, Contract!Next

\* A call makes a request.
LEMMA WorkSteps ==
    ASSUME HandlerInv, Next, Moves, Grows
    PROVE  ContractStep
<1>1. ~Idle /\ UNCHANGED <<status, destination, calls>>
  BY DEF Moves
<1>2. job.res \in Resource /\ status[job.res] = "in-progress"
  BY <1>1 DEF HandlerInv, CallInv, JobOK
<1>3. States' = States /\ States[job.res] = "open"
  BY <1>1, <1>2 DEF States, ContractState
<1>4. CASE dest' = dest /\ WholeObjects' = WholeObjects
  BY <1>1, <1>3, <1>4 DEF ContractStep
<1>5. CASE /\ dest' = dest \cup {This}
           /\ WholeObjects' \in {WholeObjects, WholeObjects \cup {This}}
  <2>1. Contract!Create(job.res)
    BY <1>1, <1>3, <1>5 DEF Contract!Create, Contract!Made, This, States, WholeObjects
  <2>2. QED
    BY <1>2, <2>1 DEF ContractStep, Contract!Next
<1>6. QED
  BY <1>1, <1>4, <1>5, WholeGrows

\* A call fails.
LEMMA FailSteps ==
    ASSUME HandlerInv, ~Idle, FailRecord,
           \/ dest' = dest /\ WholeObjects' = WholeObjects
           \/ /\ dest' = dest \cup {This}
              /\ WholeObjects' \in {WholeObjects, WholeObjects \cup {This}}
    PROVE  ContractStep
<1>1. job.res \in Resource /\ status[job.res] = "in-progress"
  BY DEF HandlerInv, CallInv, JobOK
<1>2. status' = [status EXCEPT ![job.res] = "failed"] /\ UNCHANGED <<destination, calls>>
  BY DEF FailRecord
<1>3. States' = [States EXCEPT ![job.res] = "failed"]
  BY <1>1, <1>2, StateChanges DEF HandlerInv, ContractState
<1>4. States[job.res] = "open"
  BY <1>1 DEF States, ContractState
<1>5. Contract!Fail(job.res)
  BY <1>2, <1>3, <1>4 DEF Contract!Fail, Contract!Made, This, States, WholeObjects
<1>6. QED
  BY <1>1, <1>5 DEF ContractStep, Contract!Next

\* A call returns an object that exists and is whole.
LEMMA ReturnSteps ==
    ASSUME HandlerInv, ~Idle, NEW o \in dest, o.of = job.res, Whole(o),
           ReturnDestination(o), UNCHANGED <<volumeVars, shareVars, loadBalancerVars>>
    PROVE  ContractStep
<1>1. job.res \in Resource /\ status[job.res] = "in-progress"
  BY DEF HandlerInv, CallInv, JobOK
<1>2. /\ status' = [status EXCEPT ![job.res] = "migrated"]
      /\ destination' = [destination EXCEPT ![job.res] = o]
      /\ UNCHANGED <<calls, dest>>
  BY DEF ReturnDestination
<1>3. States' = [States EXCEPT ![job.res] = "migrated"]
  BY <1>1, <1>2, StateChanges DEF HandlerInv, ContractState
<1>4. States[job.res] = "open"
  BY <1>1 DEF States, ContractState
<1>5. WholeObjects' = WholeObjects /\ o \in WholeObjects
  BY <1>2, WholeRest DEF WholeObjects
<1>6. Contract!Return(job.res)
  BY <1>2, <1>3, <1>4, <1>5 DEF Contract!Return, States, WholeObjects
<1>7. QED
  BY <1>1, <1>6 DEF ContractStep, Contract!Next

\* The object of a call that has come to its end without an exception is whole.
LEMMA DoneIsWhole ==
    ASSUME HandlerInv, Running("done")
    PROVE  Whole(This)
<1>1. job.pc = "done" /\ ~job.raising /\ This.of = job.res
  BY DEF Running, This
<1>2. job.res \in Volumes \cup Instances => VolumeWhole(This)
  BY <1>1 DEF HandlerInv, VolumeInv, DiskInv
<1>3. job.res \in Shares => This \in filled
  BY <1>1 DEF HandlerInv, ShareInv, CopyInv
<1>4. job.res \in LoadBalancers => BalancerWhole(This)
  BY <1>1 DEF HandlerInv, BalancerInv, BuildInv
<1>5. QED
  BY <1>1, <1>2, <1>3, <1>4 DEF Whole

LEMMA EndSteps ==
    ASSUME HandlerInv, CallEnds,
           UNCHANGED <<volumeVars, shareVars, endpointVars, loadBalancerVars, namedVars>>
    PROVE  ContractStep
<1>1. ~Idle
  BY DEF CallEnds, CallReturns, CallFails, CrashCall, Running, Finally, Idle
<1>2. CASE CallReturns
  <2>1. Whole(This) /\ This \in dest /\ This.of = job.res
    BY <1>2, DoneIsWhole
    DEF CallReturns, Running, HandlerInv, CallInv, JobOK, EarlyPc, This
  <2>2. QED
    BY <1>1, <1>2, <2>1, ReturnSteps DEF CallReturns
<1>3. CASE CallFails
  <2>1. FailRecord /\ dest' = dest
    BY <1>3 DEF CallFails
  <2>2. WholeObjects' = WholeObjects
    BY <2>1, WholeRest
  <2>3. QED
    BY <1>1, <2>1, <2>2, FailSteps
<1>4. CASE CrashCall
  <2>1. UNCHANGED <<status, destination, calls, dest>>
    BY <1>4 DEF CrashCall
  <2>2. WholeObjects' = WholeObjects
    BY <2>1, WholeRest
  <2>3. QED
    BY <2>1, <2>2 DEF ContractStep, States
<1>5. QED
  BY <1>2, <1>3, <1>4 DEF CallEnds

\* A call returns a namesake, which needs no part to count as whole.
LEMMA FindSteps ==
    ASSUME HandlerInv, Finds, UNCHANGED <<volumeVars, shareVars, loadBalancerVars>>
    PROVE  ContractStep
<1>1. PICK o \in dest : o.of = job.res /\ ReturnDestination(o)
  BY DEF Finds
<1>2. ~Idle /\ job.res \in Named
  BY DEF Finds, Running, Idle, HandlerInv, CallInv, JobOK, KindOK, NamedPc
<1>3. /\ (Volumes \cup Instances) \cap Named = {} /\ Shares \cap Named = {}
      /\ LoadBalancers \cap Named = {}
  BY HandlersDiffer, KindsApart
<1>4. Whole(o)
  BY <1>1, <1>2, <1>3 DEF Whole
<1>5. QED
  BY <1>1, <1>2, <1>4, ReturnSteps

\* A step of any handler.
LEMMA HandlesSteps ==
    ASSUME HandlerInv, Next, NEW kind, NEW pcs, Handler(kind, pcs), Handles(kind, pcs)
    PROVE  ContractStep
<1>1. kind \subseteq Resource /\ "idle" \notin pcs
  BY HandlerFacts
<1>2. CASE Opens(kind, pcs)
  <2>1. PICK r \in kind : \E pc \in pcs \cap EarlyPc : Begin(r, pc)
    BY <1>2 DEF Opens
  <2>2. PICK pc \in pcs \cap EarlyPc : Begin(r, pc)
    BY <2>1
  <2>3. QED
    BY <1>1, <2>2, OpenSteps
<1>3. CASE Works(pcs)
  BY <1>3, WorkSteps DEF Works
<1>4. CASE Fails(pcs)
  <2>1. ~Idle /\ FailRecord /\ Grows
    BY <1>1, <1>4 DEF Fails, Idle
  <2>2. QED
    BY <2>1, WholeGrows, FailSteps
<1>5. QED
  BY <1>2, <1>3, <1>4 DEF Handles

LEMMA ContractSimulation ==
    ASSUME HandlerInv, Next
    PROVE  ContractStep
<1>1. CallInv /\ VolumeInv /\ ShareInv /\ NamedInv /\ EndpointInv /\ BalancerInv
  BY DEF HandlerInv
<1>2. CASE Storing
  <2>1. Handles(Volumes \cup Instances, VolumePc) \/ Handles(Shares, SharePc)
    BY <1>1, <1>2, VolumeHandles, ShareHandles DEF Storing
  <2>2. QED
    BY <2>1, HandlersDiffer, HandlesSteps
<1>3. CASE Serving /\ UNCHANGED <<volumeVars, shareVars>>
  <2>1. CASE EndpointNext
    <3>1. Handles(FloatingIps, IpPc) \/ Handles(Ports, PortPc)
      BY <1>1, <2>1, EndpointHandles
    <3>2. QED
      BY <3>1, HandlersDiffer, HandlesSteps
  <2>2. CASE LoadBalancerNext
    <3>1. Handles(LoadBalancers, BalancerPc)
      BY <1>1, <2>2, BalancerHandles
    <3>2. QED
      BY <3>1, HandlersDiffer, HandlesSteps
  <2>3. CASE NamedNext /\ UNCHANGED <<endpointVars, loadBalancerVars>>
    <3>1. Handles(Named, NamedPc) \/ Finds
      BY <1>1, <2>3, NamedHandles
    <3>2. QED
      BY <1>3, <2>3, <3>1, HandlersDiffer, HandlesSteps, FindSteps
  <2>4. QED
    BY <1>3, <2>1, <2>2, <2>3 DEF Serving
<1>4. CASE /\ CallEnds
           /\ UNCHANGED <<volumeVars, shareVars, endpointVars, loadBalancerVars, namedVars>>
  BY <1>4, EndSteps
<1>5. QED
  BY <1>2, <1>3, <1>4 DEF Next

\* However their requests fail and whenever they are killed, the handlers keep
\* the contract of perform_individual_migration (handlers/base.py) that the
\* manager relies on: a call creates at most one object, of its own resource,
\* returns only one that exists and is whole, and never harms another.
THEOREM ContractIsKept == Spec => HandlersKeepContract
<1>1. Init => Contract!Init
  <2>1. SUFFICES ASSUME Init PROVE Contract!Init
    OBVIOUS
  <2>2. PICK namesakes \in SUBSET Named : CallInit({[of |-> r, by |-> 0] : r \in namesakes})
    BY <2>1 DEF Init
  <2>3. /\ status = [r \in Resource |-> "none"]
        /\ destination = [r \in Resource |-> NoDest]
        /\ calls = 0
        /\ dest = {[of |-> r, by |-> 0] : r \in namesakes}
    BY <2>2 DEF CallInit
  <2>4. States = [r \in Resource |-> "none"]
    BY <2>3 DEF States, ContractState
  <2>5. \A t \in dest : t.by = 0
    BY <2>3
  <2>6. QED
    BY <2>3, <2>4, <2>5 DEF Contract!Init, States
<1>2. HandlerInv /\ [Next]_vars => ContractStep
  <2>1. SUFFICES ASSUME HandlerInv, [Next]_vars PROVE ContractStep
    OBVIOUS
  <2>2. CASE UNCHANGED vars
    <3>1. UNCHANGED <<status, destination, calls, dest>>
      BY <2>2 DEF vars, callVars
    <3>2. WholeObjects' = WholeObjects
      BY <2>2, <3>1, WholeRest DEF vars
    <3>3. QED
      BY <3>1, <3>2 DEF ContractStep, States
  <2>3. QED
    BY <2>1, <2>2, ContractSimulation
<1>3. HandlerInv /\ [Next]_vars => [Contract!Next]_Contract!vars
  BY <1>2 DEF ContractStep, Contract!vars, States, WholeObjects
<1>4. QED
  BY <1>1, <1>3, HandlersInvariance, PTL DEF Spec, HandlersKeepContract, Contract!Spec
=============================================================================
