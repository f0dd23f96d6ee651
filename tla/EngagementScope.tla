---------------------------- MODULE EngagementScope --------------------------
(***************************************************************************)
(* An engagement and its scope: transitionEngagement and the services of   *)
(* src/server/services/engagement-workspace.ts that version the scope.     *)
(*                                                                         *)
(* None of them locks a row.  A request reads and decides (Begin...), then *)
(* writes (Commit...); two may be between the two at once.                 *)
(***************************************************************************)
EXTENDS Naturals, FiniteSets, Sequences

CONSTANTS
    Staff,          \* members who work on the engagement
    Items,          \* what a scope is made of
    Edits,          \* requests that may be under way
    BundleStatuses, \* statuses that an imported bundle may carry
    MaxEngagement,  \* bounds the versions of the engagement
    MaxScope        \* bounds the versions of the scope

ASSUME ScopeAssumption == MaxEngagement \in Nat \ {0} /\ MaxScope \in Nat

VARIABLES
    engagement,
    lastStatus,     \* to_status of the latest row of engagement_transitions
    gaps,           \* history: the versions at which a row of them was written that
                    \* does not begin where the last ended
    imported,       \* history: the versions at which a bundle was imported
    scope,          \* rows of scope_versions in the order of their insertion
    edits           \* requests under way, with what they have read

scopeVars == <<engagement, lastStatus, gaps, imported, scope, edits>>

transitionGraph ==
    [proposed |-> {"scoping", "cancelled"},
     scoping |-> {"scheduled", "cancelled"},
     scheduled |-> {"ready", "scoping", "cancelled"},
     ready |-> {"testing", "scheduled", "cancelled"},
     testing |-> {"reporting", "cancelled"},
     reporting |-> {"peer_review", "testing", "cancelled"},
     peer_review |-> {"quality_assurance", "reporting", "cancelled"},
     quality_assurance |-> {"client_review", "reporting", "cancelled"},
     client_review |-> {"retesting", "complete", "reporting", "cancelled"},
     retesting |-> {"reporting", "complete", "cancelled"},
     complete |-> {"archived", "retesting"},
     archived |-> {},
     cancelled |-> {"scoping", "archived"}]
Status == DOMAIN transitionGraph

ASSUME BundleAssumption == BundleStatuses \subseteq Status

Writable(e) == ~e.archivedAt /\ e.status \notin {"archived", "cancelled"}

NoEdit == [kind |-> "none"]

\* The engagement may have come to any status before the requests that are looked at.
ScopeInit ==
    /\ \E s \in Status :
          /\ engagement = [status |-> s, version |-> 1, archivedAt |-> s = "archived"]
          /\ lastStatus = s
    /\ gaps = {} /\ imported = {}
    /\ scope = << >>
    /\ edits = [q \in Edits |-> NoEdit]

ScopeTypeOK ==
    /\ engagement \in [status : Status, version : 1..MaxEngagement, archivedAt : BOOLEAN]
    /\ lastStatus \in Status
    /\ gaps \subseteq 1..MaxEngagement /\ imported \subseteq 1..MaxEngagement
    /\ scope \in Seq([version : 1..MaxScope, draft : BOOLEAN, createdBy : Staff,
                      items : SUBSET Items])
    /\ \A q \in Edits : edits[q].kind \in {"none", "transition", "draft", "item", "approve"}

-----------------------------------------------------------------------------
Begin(q, read) ==
    /\ edits[q] = NoEdit
    /\ edits' = [edits EXCEPT ![q] = read]
    /\ UNCHANGED <<engagement, lastStatus, gaps, imported, scope>>

End(q) == edits' = [edits EXCEPT ![q] = NoEdit]

BeginTransition(q, to) ==
    /\ to \in transitionGraph[engagement.status]
    /\ engagement.version < MaxEngagement
    /\ Begin(q, [kind |-> "transition", read |-> engagement, to |-> to])

StillTheVersion(read) == engagement.version = read.version

CommitTransition(q) ==
    LET e == edits[q].read
        to == edits[q].to IN
    /\ edits[q].kind = "transition" /\ StillTheVersion(e)
    /\ engagement' = [status |-> to, version |-> e.version + 1,
                      archivedAt |-> to = "archived" \/ e.archivedAt]
    /\ gaps' = IF lastStatus # e.status THEN gaps \cup {e.version} ELSE gaps
    /\ lastStatus' = to
    /\ End(q)
    /\ UNCHANGED <<imported, scope>>

\* importOrganisationBundle writes any status, with no version and no row of a
\* transition, and so behind the back of the transitions that are under way.
ImportBundle(status) ==
    /\ engagement' = [engagement EXCEPT !.status = status]
    /\ lastStatus' = status
    /\ imported' = imported \cup {engagement.version}
    /\ UNCHANGED <<gaps, scope, edits>>

-----------------------------------------------------------------------------
Newest == CHOOSE i \in DOMAIN scope : \A j \in DOMAIN scope : scope[j].version <= scope[i].version
NewestVersion == IF scope = << >> THEN 0 ELSE scope[Newest].version

\* createScopeDraft, unless the latest version still is a draft.
BeginDraft(q, m) ==
    /\ Writable(engagement)
    /\ scope # << >> => ~scope[Newest].draft
    /\ NewestVersion < MaxScope
    /\ Begin(q, [kind |-> "draft", by |-> m, latest |-> NewestVersion])

\* scope_versions_engagement_version_uq.  Variant: there is no such index.
NoIndex(v) == TRUE
UniqueVersion(v) == \A i \in DOMAIN scope : scope[i].version # v

\* Variant: the number that was read.
ReadVersion(q) == edits[q].latest
NextVersion(q) == edits[q].latest + 1

\* The items of the version that was read are copied as they now are.
CommitDraft(q) ==
    LET v == NextVersion(q)
        copied == UNION {scope[i].items : i \in {x \in DOMAIN scope : scope[x].version = edits[q].latest}} IN
    /\ edits[q].kind = "draft" /\ UniqueVersion(v)
    /\ scope' = Append(scope, [version |-> v, draft |-> TRUE, createdBy |-> edits[q].by,
                               items |-> copied])
    /\ End(q)
    /\ UNCHANGED <<engagement, lastStatus, gaps, imported>>

\* addScopeItem and updateScopeItem, of a draft when they look.
BeginItem(q, i, items) ==
    /\ Writable(engagement) /\ scope[i].draft
    /\ Begin(q, [kind |-> "item", row |-> i, items |-> items])

CommitItem(q) ==
    LET row == scope[edits[q].row] IN
    /\ edits[q].kind = "item"
    /\ \/ scope' = [scope EXCEPT ![edits[q].row].items = @ \cup edits[q].items]
       \/ \E x \in row.items :
             scope' = [scope EXCEPT ![edits[q].row].items = (@ \ {x}) \cup edits[q].items]
    /\ End(q)
    /\ UNCHANGED <<engagement, lastStatus, gaps, imported>>

\* approveScopeVersion.
BeginApproval(q, m, i) ==
    /\ Writable(engagement) /\ scope[i].draft
    /\ scope[i].createdBy # m
    /\ scope[i].items # {}
    /\ Begin(q, [kind |-> "approve", row |-> i])

CommitApproval(q) ==
    /\ edits[q].kind = "approve"
    /\ scope[edits[q].row].draft
    /\ scope' = [scope EXCEPT ![edits[q].row].draft = FALSE]
    /\ End(q)
    /\ UNCHANGED <<engagement, lastStatus, gaps, imported>>

\* A comparison or an index refuses the write, or the process dies.
GiveUpEdit(q) ==
    /\ edits[q] # NoEdit
    /\ End(q)
    /\ UNCHANGED <<engagement, lastStatus, gaps, imported, scope>>

ScopeNext ==
    \/ \E q \in Edits :
        \/ \E to \in Status : BeginTransition(q, to)
        \/ \E m \in Staff : BeginDraft(q, m) \/ \E i \in DOMAIN scope : BeginApproval(q, m, i)
        \/ \E i \in DOMAIN scope, x \in Items : BeginItem(q, i, {x})
        \/ CommitTransition(q) \/ CommitDraft(q) \/ CommitItem(q) \/ CommitApproval(q)
        \/ GiveUpEdit(q)
    \/ \E status \in BundleStatuses : ImportBundle(status)

ScopeSpec == ScopeInit /\ [][ScopeNext]_scopeVars

-----------------------------------------------------------------------------
\* However transitions overlap, each on record begins where the one before ended, or
\* where a bundle has put the engagement since, and the last ends where the engagement
\* is.  Only a bundle that is imported at the version a transition has read makes it
\* leave a gap: the comparison of versions does not see the import.
TransitionsConnect == gaps \subseteq imported /\ lastStatus = engagement.status

\* However requests overlap, the versions of the scope are numbered without a gap, and
\* only the newest may be a draft: what was approved is never drafted around.
OneDraft ==
    \A i \in DOMAIN scope :
        /\ scope[i].version = i
        /\ scope[i].draft => i = Len(scope)

\* Nothing is approved empty.
ApprovedHasItems == \A i \in DOMAIN scope : ~scope[i].draft => scope[i].items # {}

\* All of them, whichever requests and imports overlap.
EngagementInOrder == TransitionsConnect /\ OneDraft /\ ApprovedHasItems
=============================================================================
