------------------------------ MODULE HandlerCall ------------------------------
(***************************************************************************)
(* What every migration handler shares: the call of                        *)
(* perform_individual_migration that the manager makes while the record of *)
(* the resource is in progress (src/sunbeam_migrate/manager.py), and how   *)
(* it ends.  MigrationManager takes such a call as one step; the modules   *)
(* that extend this one take it apart into the requests the handler of a   *)
(* type makes to the two clouds.                                           *)
(*                                                                         *)
(* One call runs at a time, and the associated resources it needs have     *)
(* been migrated.  Any request may fail, and it may then have been carried *)
(* out all the same; the process may be killed between two of them.        *)
(***************************************************************************)
EXTENDS Integers, Sequences, FiniteSets

CONSTANTS
    Resource,     \* what is migrated
    NoResource,   \* the resource of no call
    NoDest,       \* destination_id of a record that has none
    Requests,     \* sets of resources that the user may want migrated
    CanCrash,     \* the process may be killed
    MaxRetries    \* bound on the calls beyond one for each wanted resource

ASSUME CallAssumption ==
    /\ NoResource \notin Resource
    /\ Requests \subseteq SUBSET Resource
    /\ CanCrash \in BOOLEAN
    /\ MaxRetries \in Nat

\* An object on the destination cloud, and the call that created it; what was
\* there before the first call is as good as made by call 0.
Object == [of: Resource, by: Nat]

ASSUME NoDestAssumption == NoDest \notin Object

VARIABLES
    wanted,       \* what the user wants migrated
    status,       \* status[r]: status of the newest record of r
    destination,  \* destination[r]: and its destination_id
    calls,        \* number of calls so far
    job,          \* the call being made
    dest,         \* objects on the destination cloud
    trouble       \* the requests that failed, and the calls that were killed

callVars == <<wanted, status, destination, calls, job, dest, trouble>>

NoJob == [res |-> NoResource, pc |-> "idle", raising |-> FALSE]

This == [of |-> job.res, by |-> calls]

Running(pc) == job.pc = pc /\ ~job.raising

\* A finally clause, entered with or without an exception.
Finally(pc) == job.pc = pc

Idle == job.pc = "idle"

Troubled(o, at) == [call |-> o, at |-> at] \in trouble

\* The call that was to create o has met none of these troubles.
Untroubled(o, ats) == \A at \in ats : ~Troubled(o, at)

\* Objects that exist on the destination before the first call.
CallInit(existing) ==
    /\ wanted \in Requests
    /\ status = [r \in Resource |-> "none"]
    /\ destination = [r \in Resource |-> NoDest]
    /\ calls = 0
    /\ job = NoJob
    /\ dest = existing
    /\ trouble = {}

\* _migrate_parent_resource: a migrated resource is not migrated again; a new
\* record is made for any other.
Begin(r, first) ==
    /\ Idle
    /\ r \in wanted
    /\ calls < Cardinality(wanted) + MaxRetries
    /\ status[r] # "migrated"
    /\ status' = [status EXCEPT ![r] = "in-progress"]
    /\ destination' = [destination EXCEPT ![r] = NoDest]
    /\ calls' = calls + 1
    /\ job' = [res |-> r, pc |-> first, raising |-> FALSE]
    /\ UNCHANGED <<wanted, dest, trouble>>

Goto(pc) ==
    /\ job' = [job EXCEPT !.pc = pc]
    /\ UNCHANGED <<wanted, status, destination, calls, trouble>>

\* A request failed and the exception has reached the clause at pc.
RaiseTo(pc, at) ==
    /\ job' = [job EXCEPT !.pc = pc, !.raising = TRUE]
    /\ trouble' = trouble \cup {[call |-> This, at |-> at]}
    /\ UNCHANGED <<wanted, status, destination, calls>>

\* A failure that is logged and ignored.
LogTo(pc, at) ==
    /\ job' = [job EXCEPT !.pc = pc]
    /\ trouble' = trouble \cup {[call |-> This, at |-> at]}
    /\ UNCHANGED <<wanted, status, destination, calls>>

\* The handler returns the id of o.
ReturnDestination(o) ==
    /\ status' = [status EXCEPT ![job.res] = "migrated"]
    /\ destination' = [destination EXCEPT ![job.res] = o]
    /\ job' = NoJob
    /\ UNCHANGED <<wanted, calls, dest, trouble>>

\* The except clause of the manager: an exception that has left the handler.
FailRecord ==
    /\ status' = [status EXCEPT ![job.res] = "failed"]
    /\ job' = NoJob
    /\ UNCHANGED <<wanted, destination, calls>>

FailCall(at) ==
    /\ FailRecord
    /\ trouble' = trouble \cup {[call |-> This, at |-> at]}

CallReturns ==
    /\ Running("done")
    /\ ReturnDestination(This)

CallFails ==
    /\ Finally("done")
    /\ job.raising
    /\ FailRecord
    /\ UNCHANGED <<dest, trouble>>

CrashCall ==
    /\ CanCrash
    /\ ~Idle
    /\ job' = NoJob
    /\ trouble' = trouble \cup {[call |-> This, at |-> "killed"]}
    /\ UNCHANGED <<wanted, status, destination, calls, dest>>

CallEnds == CallReturns \/ CallFails \/ CrashCall

\* Type invariant of the calls: the handlers are at work at these points, and
\* these are the requests to the clouds that may fail.
CallTypeOK(points, requests) ==
    /\ wanted \in Requests
    /\ status \in [Resource -> {"none", "in-progress", "failed", "migrated"}]
    /\ destination \in [Resource -> Object \cup {NoDest}]
    /\ calls \in Nat
    /\ job \in [res: Resource \cup {NoResource},
               pc: points \cup {"idle", "done"}, raising: BOOLEAN]
    /\ dest \subseteq Object
    /\ trouble \subseteq [call: Object, at: requests \cup {"killed"}]

\* A request that creates something, when it fails: the caller does not know
\* whether it was carried out.
PerhapsAdded(set, new) == {set, set \cup new}
PerhapsRemoved(set, old) == {set, set \ old}

=============================================================================
