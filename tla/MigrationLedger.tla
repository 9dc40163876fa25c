-------------------------- MODULE MigrationLedger --------------------------
(***************************************************************************)
(* What the migrations table promises to whoever reads it (list, show, the *)
(* operator, later invocations), whatever the invocations that write it do *)
(* and wherever they are killed: a ledger of migrations, each of which     *)
(* opens, obtains its destination once, and is closed for good as failed   *)
(* or as migrated; only a migrated one may give up its source.             *)
(***************************************************************************)
EXTENDS Integers, Sequences

CONSTANTS
    Source,       \* what can be migrated
    Target,       \* what a migration can produce
    NoTarget      \* the target of a migration that has produced nothing

VARIABLE ledger   \* the migrations, oldest first

Entry == [source: Source, state: {"open", "failed", "migrated"},
          target: Target \cup {NoTarget}, removed: BOOLEAN]

Init == ledger = <<>>

Open ==
    \E r \in Source :
        ledger' = Append(ledger, [source |-> r, state |-> "open",
                                  target |-> NoTarget, removed |-> FALSE])

\* A migration fails before it has produced anything.
Fail ==
    \E i \in DOMAIN ledger :
        /\ ledger[i].state = "open"
        /\ ledger[i].target = NoTarget
        /\ ledger' = [ledger EXCEPT ![i].state = "failed"]

\* Which target it is, is up to the migration.
Produce ==
    \E i \in DOMAIN ledger : LET t == ledger'[i].target IN
        /\ ledger[i].state = "open"
        /\ ledger[i].target = NoTarget
        /\ t \in Target
        /\ ledger' = [ledger EXCEPT ![i].target = t]

Close ==
    \E i \in DOMAIN ledger :
        /\ ledger[i].state = "open"
        /\ ledger[i].target # NoTarget
        /\ ledger' = [ledger EXCEPT ![i].state = "migrated"]

\* A migration that was made by other means is entered.
Enter ==
    \E r \in Source : LET t == ledger'[Len(ledger) + 1].target IN
        /\ Len(ledger') = Len(ledger) + 1
        /\ t \in Target
        /\ ledger' = Append(ledger, [source |-> r, state |-> "migrated",
                                     target |-> t, removed |-> FALSE])

RemoveSource ==
    \E i \in DOMAIN ledger :
        /\ ledger[i].state = "migrated"
        /\ ledger' = [ledger EXCEPT ![i].removed = TRUE]

Next == Open \/ Fail \/ Produce \/ Close \/ RemoveSource \/ Enter

Spec == Init /\ [][Next]_ledger

=============================================================================
