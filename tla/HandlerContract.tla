---------------------------- MODULE HandlerContract ----------------------------
(***************************************************************************)
(* What the manager may rely on in every handler: the contract of          *)
(* perform_individual_migration (src/sunbeam_migrate/handlers/base.py).    *)
(* MigrationManager assumes it in taking a handler call as one step.       *)
(***************************************************************************)
EXTENDS Integers

CONSTANTS
    Resource,     \* what is migrated
    Target,       \* objects it may become: records of whose and which call
    NoTarget

VARIABLES
    calls,        \* number of calls so far
    state,        \* state[r]: "none", "open", "failed" or "migrated"
    named,        \* named[r]: the object the handler has returned for r
    objects,      \* objects on the destination cloud
    whole         \* those that lack nothing the handler is to give them

vars == <<calls, state, named, objects, whole>>

\* There may be namesakes before the first call.
Init ==
    /\ calls = 0
    /\ state = [r \in Resource |-> "none"]
    /\ named = [r \in Resource |-> NoTarget]
    /\ \A t \in objects : t.by = 0
    /\ whole \subseteq objects

\* A call for r starts; the one before it may have been killed.
Open(r) ==
    /\ state[r] # "migrated"
    /\ calls' = calls + 1
    /\ state' = [state EXCEPT ![r] = "open"]
    /\ named' = [named EXCEPT ![r] = NoTarget]
    /\ UNCHANGED <<objects, whole>>

\* What the latest call creates.
Made(r) == {[of |-> r, by |-> calls]}

\* A call creates one object, at most.
Create(r) ==
    /\ state[r] = "open"
    /\ objects' = objects \cup Made(r)
    /\ whole' \in {whole, whole \cup Made(r)}
    /\ UNCHANGED <<calls, state, named>>

\* It returns the id of an object that exists, stands for r and is whole.
Return(r) ==
    /\ state[r] = "open"
    /\ \E t \in objects \cap whole :
          /\ t.of = r
          /\ named' = [named EXCEPT ![r] = t]
    /\ state' = [state EXCEPT ![r] = "migrated"]
    /\ UNCHANGED <<calls, objects, whole>>

\* It raises, perhaps with its last request carried out.
Fail(r) ==
    /\ state[r] = "open"
    /\ state' = [state EXCEPT ![r] = "failed"]
    /\ \/ UNCHANGED <<objects, whole>>
       \/ /\ objects' = objects \cup Made(r)
          /\ whole' \in {whole, whole \cup Made(r)}
    /\ UNCHANGED <<calls, named>>

Next == \E r \in Resource :
    Open(r) \/ Create(r) \/ Return(r) \/ Fail(r)

Spec == Init /\ [][Next]_vars

=============================================================================
