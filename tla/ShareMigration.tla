---------------------------- MODULE ShareMigration ----------------------------
(***************************************************************************)
(* How Manila shares are migrated: a share is created, the access rules    *)
(* are copied one by one, then both shares are mounted on the host the     *)
(* tool runs on, each under a temporary access rule for that host, and the *)
(* files are copied (src/sunbeam_migrate/handlers/manila/share.py,         *)
(* utils/manila_utils.py).                                                 *)
(*                                                                         *)
(* A share on either cloud is named by an object, the source shares by the *)
(* object of call 0.                                                       *)
(***************************************************************************)
EXTENDS HandlerCall, SequencesExt

CONSTANTS
    Shares,       \* the resources of this type
    Client,       \* to whom a rule may grant access
    LocalHost,    \* the address of the host the tool runs on
    PreserveRules \* preserve_share_access_rules

ASSUME ShareAssumption ==
    /\ Shares \subseteq Resource
    /\ LocalHost \in Client
    /\ PreserveRules \in BOOLEAN

VARIABLES
    granted,      \* clients the user has granted access to a source share
    rules,        \* access rules in place, on both clouds
    uncopied,     \* source rules the running call has still to copy
    contexts,     \* the with statements it has entered, innermost last
    mounted,      \* <<share, call>> for each mountpoint in use on the host
    filled        \* destination shares that have all the files

shareVars == <<granted, rules, uncopied, contexts, mounted, filled>>

\* A rule lets a client (an ip address, say) read and write a share; one that
\* is not active is in error.  A share has at most one rule for a client.
Rule == [share: Object, to: Client, active: BOOLEAN]

SourceShare(r) == [of |-> r, by |-> 0]

NewRule(share, client) == [share |-> share, to |-> client, active |-> TRUE]

RulesOf(share) == {a \in rules : a.share = share}

HasRule(share, client) == \E a \in RulesOf(share) : a.to = client

ShareInit ==
    /\ granted \in [Shares -> SUBSET Client]
    /\ \E erring \in SUBSET (Client \ {LocalHost}) :
          rules = UNION {{[share |-> SourceShare(r), to |-> c,
                           active |-> c \notin erring] : c \in granted[r]}
                            : r \in Shares}
    /\ uncopied = {}
    /\ contexts = <<>>
    /\ mounted = {}
    /\ filled = {}

BeginShare ==
    /\ \E r \in Shares : Begin(r, "createShare")
    /\ uncopied' = {}
    /\ contexts' = <<>>
    /\ UNCHANGED <<granted, rules, mounted, filled>>

CreateShare ==
    /\ Running("createShare")
    /\ dest' = dest \cup {This}
    /\ Goto("shareWait")
    /\ UNCHANGED shareVars

CreateShareFails ==
    /\ Running("createShare")
    /\ dest' \in PerhapsAdded(dest, {This})
    /\ FailCall("createShare")
    /\ UNCHANGED shareVars

-----------------------------------------------------------------------------
(* _migrate_share_access_rules                                             *)

\* The share is available.  The source rules are listed; a cloud that answers
\* that there are none is not an error.
ShareAvailable ==
    /\ Running("shareWait")
    /\ uncopied' = IF PreserveRules
                   THEN {a \in RulesOf(SourceShare(job.res)) : a.active} ELSE {}
    /\ Goto("copyRules")
    /\ UNCHANGED <<dest, granted, rules, contexts, mounted, filled>>

ShareNotAvailable ==
    /\ Running("shareWait")
    /\ FailCall("shareWait")
    /\ UNCHANGED <<dest, shareVars>>

CopyRule ==
    /\ Running("copyRules")
    /\ \E a \in uncopied :
          /\ rules' = rules \cup {[a EXCEPT !.share = This]}
          /\ uncopied' = uncopied \ {a}
    /\ Goto("copyRules")
    /\ UNCHANGED <<dest, granted, contexts, mounted, filled>>

\* "Continue with other rules even if one fails": it was not created, or has
\* not become active.
CopyRuleFails ==
    /\ Running("copyRules")
    /\ \E a \in uncopied :
          /\ rules' \in PerhapsAdded(rules, {[a EXCEPT !.share = This,
                                                       !.active = FALSE]})
          /\ uncopied' = uncopied \ {a}
    /\ LogTo("copyRules", "copyRule")
    /\ UNCHANGED <<dest, granted, contexts, mounted, filled>>

\* A variant of a definition that carries a plausible mistake precedes it; no
\* action uses one.  They are there to see that the properties notice.
RulesCopiedEarly ==
    /\ Running("copyRules")
    /\ Goto("mounting")
    /\ UNCHANGED <<dest, shareVars>>

RulesCopied ==
    /\ Running("copyRules")
    /\ uncopied = {}
    /\ Goto("mounting")
    /\ UNCHANGED <<dest, shareVars>>

-----------------------------------------------------------------------------
(* The nested contexts of _migrate_share_data: for the source share and    *)
(* then for the destination share, access and a mount.                     *)

Access(share) == [kind |-> "access", share |-> share]
ProvidedAsAdded(share) == [kind |-> "access", share |-> share]
ProvidedAccess(share) == [kind |-> "provided", share |-> share]
Mount(share) == [kind |-> "mount", share |-> share]

\* The share whose context is entered next.
NextShare == IF Len(contexts) < 2 THEN SourceShare(job.res) ELSE This

Entering(n) == Running("mounting") /\ Len(contexts) \in {n, n + 2}

\* "Share access already provided": such a rule is used as it is, in whatever
\* state, and left in place.
UseRule ==
    /\ Entering(0)
    /\ HasRule(NextShare, LocalHost)
    /\ contexts' = Append(contexts, ProvidedAccess(NextShare))
    /\ Goto("mounting")
    /\ UNCHANGED <<dest, granted, rules, uncopied, mounted, filled>>

AddRule ==
    /\ Entering(0)
    /\ ~HasRule(NextShare, LocalHost)
    /\ rules' = rules \cup {NewRule(NextShare, LocalHost)}
    /\ contexts' = Append(contexts, Access(NextShare))
    /\ Goto("mounting")
    /\ UNCHANGED <<dest, granted, uncopied, mounted, filled>>

\* Nothing was entered: listing the exports or the rules failed, or creating
\* the rule did, which the finally clause turns into an UnboundLocalError.
AddRuleFails ==
    /\ Entering(0)
    /\ rules' \in IF HasRule(NextShare, LocalHost) THEN {rules}
                  ELSE PerhapsAdded(rules, {NewRule(NextShare, LocalHost)})
    /\ RaiseTo("leaving", "addRule")
    /\ UNCHANGED <<dest, granted, uncopied, contexts, mounted, filled>>

RuleWaitOutsideContext ==
    /\ Entering(0)
    /\ ~HasRule(NextShare, LocalHost)
    /\ rules' = rules \cup {[NewRule(NextShare, LocalHost) EXCEPT !.active = FALSE]}
    /\ RaiseTo("leaving", "ruleWait")
    /\ UNCHANGED <<dest, granted, uncopied, contexts, mounted, filled>>

\* The rule exists but does not become active: the context is left at once.
RuleNotActive ==
    /\ Entering(0)
    /\ ~HasRule(NextShare, LocalHost)
    /\ rules' = rules \cup {[NewRule(NextShare, LocalHost) EXCEPT !.active = FALSE]}
    /\ contexts' = Append(contexts, Access(NextShare))
    /\ RaiseTo("leaving", "ruleWait")
    /\ UNCHANGED <<dest, granted, uncopied, mounted, filled>>

MountShare ==
    /\ Entering(1)
    /\ LET share == Last(contexts).share IN
          /\ mounted' = mounted \cup {<<share, calls>>}
          /\ contexts' = Append(contexts, Mount(share))
    /\ Goto(IF Len(contexts) = 3 THEN "copyFiles" ELSE "mounting")
    /\ UNCHANGED <<dest, granted, rules, uncopied, filled>>

MountFails ==
    /\ Entering(1)
    /\ RaiseTo("leaving", "mount")
    /\ UNCHANGED <<dest, shareVars>>

CopyFiles ==
    /\ Running("copyFiles")
    /\ filled' = filled \cup {This}
    /\ Goto("leaving")
    /\ UNCHANGED <<dest, granted, rules, uncopied, contexts, mounted>>

CopyFilesFails ==
    /\ Running("copyFiles")
    /\ RaiseTo("leaving", "copyFiles")
    /\ UNCHANGED <<dest, shareVars>>

LeavingAnyOrder(kind) ==
    /\ Finally("leaving")
    /\ \E c \in Range(contexts) : c.kind = kind

Leaving(kind) ==
    /\ Finally("leaving")
    /\ contexts # <<>>
    /\ Last(contexts).kind = kind

Unmount ==
    /\ Leaving("mount")
    /\ mounted' = mounted \ {<<Last(contexts).share, calls>>}
    /\ contexts' = Front(contexts)
    /\ Goto("leaving")
    /\ UNCHANGED <<dest, granted, rules, uncopied, filled>>

\* The exception goes on to the contexts around.
UnmountFails ==
    /\ Leaving("mount")
    /\ contexts' = Front(contexts)
    /\ RaiseTo("leaving", "unmount")
    /\ UNCHANGED <<dest, granted, rules, uncopied, mounted, filled>>

LeaveProvided ==
    /\ Leaving("provided")
    /\ contexts' = Front(contexts)
    /\ Goto("leaving")
    /\ UNCHANGED <<dest, granted, rules, uncopied, mounted, filled>>

DeleteRule ==
    /\ Leaving("access")
    /\ rules' = {a \in rules : a.share # Last(contexts).share \/ a.to # LocalHost}
    /\ contexts' = Front(contexts)
    /\ Goto("leaving")
    /\ UNCHANGED <<dest, granted, uncopied, mounted, filled>>

DeleteRuleFails ==
    /\ Leaving("access")
    /\ contexts' = Front(contexts)
    /\ RaiseTo("leaving", "deleteRule")
    /\ UNCHANGED <<dest, granted, rules, uncopied, mounted, filled>>

LeaveLast ==
    /\ Finally("leaving")
    /\ contexts = <<>>
    /\ Goto("done")
    /\ UNCHANGED <<dest, shareVars>>

ShareNext ==
    \/ BeginShare \/ CreateShare \/ CreateShareFails
    \/ ShareAvailable \/ ShareNotAvailable
    \/ CopyRule \/ CopyRuleFails \/ RulesCopied
    \/ UseRule \/ AddRule \/ AddRuleFails \/ RuleNotActive
    \/ MountShare \/ MountFails \/ CopyFiles \/ CopyFilesFails
    \/ Unmount \/ UnmountFails \/ LeaveProvided \/ DeleteRule \/ DeleteRuleFails
    \/ LeaveLast

-----------------------------------------------------------------------------

\* Where the handler is at work, and the requests it makes there that are not
\* named after the point.
SharePc == {"createShare", "shareWait", "copyRules", "mounting", "copyFiles", "leaving"}
ShareRequests == {"copyRule", "addRule", "ruleWait", "mount", "unmount", "deleteRule"}

\* Type invariant of the share migration.
ShareTypeOK ==
    /\ granted \in [Shares -> SUBSET Client]
    /\ rules \subseteq Rule
    /\ uncopied \subseteq Rule
    /\ contexts \in Seq([kind: {"access", "provided", "mount"}, share: Object])
    /\ mounted \subseteq Object \X Nat
    /\ filled \subseteq dest

\* Tearing down goes in the reverse order of setting up, from wherever an
\* exception strikes: a share is never left mounted on the host after the
\* host's access to it was revoked, unless unmounting it failed.
AccessWhileMounted ==
    \A m \in mounted :
        \/ HasRule(m[1], LocalHost)
        \/ Troubled([of |-> m[1].of, by |-> m[2]], "unmount")

\* Access the user has granted to a source share is never revoked, even if it
\* is the access the migration itself makes use of.
UserAccessKept ==
    \A r \in Shares : \A c \in granted[r] : HasRule(SourceShare(r), c)

\* Nobody gets access to a share, on either cloud, whom the user has not
\* granted it; only the host does, while it is at work or when a request to
\* add or to delete its rule has failed, or the process was killed, in this
\* or in an earlier call.
NoForeignAccess ==
    \A a \in rules :
        \/ a.to \in granted[a.share.of]
        \/ /\ a.to = LocalHost
           /\ \/ ~Idle /\ Access(a.share) \in Range(contexts)
              \/ \E t \in trouble : /\ t.call.of = a.share.of
                                    /\ t.at \in {"addRule", "deleteRule", "killed"}

\* preserve_share_access_rules: a migrated share grants access to all those
\* the source share does, unless a rule could not be copied or is not active
\* on the source.
AccessPreserved ==
    \A r \in Shares :
        status[r] = "migrated" /\ PreserveRules =>
            \A a \in RulesOf(SourceShare(r)) :
                a.active /\ a.to \in granted[r] =>
                    \/ [a EXCEPT !.share = destination[r]] \in rules
                    \/ Troubled(destination[r], "copyRule")

=============================================================================
