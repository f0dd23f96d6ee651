--------------------------- MODULE FindingWorkflow --------------------------
(***************************************************************************)
(* One finding and its review: src/server/services/findings.ts, the table  *)
(* of transitions in src/features/findings/workflow.ts, and the import of  *)
(* bundles (src/server/services/data-exchange.ts).                         *)
(*                                                                         *)
(* A request reads the finding without a lock, decides, and updates it if  *)
(* status and version are still what it has read.  Bulk updates and        *)
(* imports lock the row and are one step; what they read of the engagement *)
(* is read in that step too.                                               *)
(***************************************************************************)
EXTENDS Naturals, FiniteSets

CONSTANTS
    Members,        \* of the organisation, who may edit and review
    Author,         \* the one who created the finding
    Overriders,     \* members who may override the workflow, giving a reason
    Requests,       \* calls of the service that may be under way together
    Fields,         \* the parts of the content that are told apart
    MaxVersion,     \* bounds the edits
    Targets,        \* the statuses that members ask for
    Overlap,        \* may requests overtake each other?
    Events          \* what else may happen, a subset of AllEvents

\* References are enriched from outside; the engagement is archived.
AllEvents == {"enrich", "close"}

Workflow ==
    [draft |-> {"in_progress", "ready_for_review"},
     in_progress |-> {"draft", "ready_for_review"},
     ready_for_review |-> {"changes_requested", "peer_reviewed"},
     changes_requested |-> {"in_progress", "ready_for_review"},
     peer_reviewed |-> {"changes_requested", "qa_approved"},
     qa_approved |-> {"changes_requested", "published"},
     published |-> {"remediation_in_progress", "ready_for_retest",
                    "risk_accepted", "closed"},
     remediation_in_progress |-> {"ready_for_retest", "risk_accepted"},
     ready_for_retest |-> {"retested"},
     retested |-> {"resolved", "remediation_in_progress", "risk_accepted"},
     resolved |-> {"closed", "ready_for_retest"},
     risk_accepted |-> {"closed", "ready_for_retest"},
     closed |-> {}]

ASSUME WorkflowAssumption ==
    /\ Fields \subseteq {"text", "severity", "references"}
    /\ "enrich" \in Events => "references" \in Fields
    /\ Targets \subseteq DOMAIN Workflow
    /\ Author \in Members /\ Overriders \subseteq Members
    /\ MaxVersion \in Nat \ {0} /\ Overlap \in BOOLEAN /\ Events \subseteq AllEvents

VARIABLES
    finding,    \* the row of findings
    snapshots,  \* finding_versions
    requests,   \* what each request has read
    writable,   \* the engagement is neither archived, cancelled nor deleted
    approval    \* what the last QA approval approved (not in the database)

workflowVars == <<finding, snapshots, requests, writable, approval>>

FindingStatus == DOMAIN Workflow
Editable == {"draft", "in_progress", "changes_requested"}

None == "none"

\* Of each part of the content: the version it was written in.  An enrichment adds
\* its link to the references and makes no version.
Content == [Fields -> 1..MaxVersion]
Contents == [written : Content, linked : BOOLEAN]
FirstDraft == [written |-> [f \in Fields |-> 1], linked |-> FALSE]

NewFinding == [status |-> "draft", version |-> 1, content |-> FirstDraft,
               reviewer |-> None, approved |-> 0]
Finding == [status : FindingStatus, version : 1..MaxVersion, content : Contents,
            reviewer : Members \cup {None}, approved : 0..MaxVersion]

Idle == [kind |-> "idle"]
Request ==
    {Idle}
    \cup [kind : {"transition"}, actor : Members, to : FindingStatus,
          reason : BOOLEAN, read : Finding]
    \cup [kind : {"open"}, seen : Contents]
    \cup [kind : {"edit"}, seen : Contents, read : Finding]
    \cup [kind : {"template", "enrich"}, read : Finding]

\* createFinding and createFindingFromTemplate leave a snapshot of version 1.
WorkflowInit ==
    /\ finding = NewFinding
    /\ snapshots = [v \in {1} |-> FirstDraft]
    /\ requests = [r \in Requests |-> Idle]
    /\ writable = TRUE
    /\ approval = [content |-> FirstDraft, waived |-> FALSE]

WorkflowTypeOK ==
    /\ finding \in Finding
    /\ DOMAIN snapshots \subseteq 1..MaxVersion
    /\ \A v \in DOMAIN snapshots : snapshots[v] \in Contents
    /\ requests \in [Requests -> Request]
    /\ writable \in BOOLEAN
    /\ approval \in [content : Contents, waived : BOOLEAN]

-----------------------------------------------------------------------------
MayStart == Overlap \/ \A r \in Requests : requests[r] = Idle

Begin(r, request) ==
    /\ requests[r] = Idle /\ MayStart
    /\ requests' = [requests EXCEPT ![r] = request]

End(r) == requests' = [requests EXCEPT ![r] = Idle]

\* The request fails, or its client is gone.
Abandon(r) ==
    /\ requests[r] # Idle
    /\ End(r)
    /\ UNCHANGED <<finding, snapshots, writable, approval>>

\* The guard of every update.  Variants: one of the two is not compared.
StillSameVersion(f) == finding.version = f.version
StillSameStatus(f) == finding.status = f.status
StillAsRead(f) == finding.status = f.status /\ finding.version = f.version

\* insert ... on conflict do nothing.  Variant: the row is copied after the update.
SnapshotTooLate(f) ==
    snapshots' = [v \in DOMAIN snapshots \cup {f.version} |->
                     IF v \in DOMAIN snapshots THEN snapshots[v] ELSE finding'.content]
Snapshot(f) ==
    snapshots' = [v \in DOMAIN snapshots \cup {f.version} |->
                     IF v \in DOMAIN snapshots THEN snapshots[v] ELSE f.content]

Written(content, fields, v) ==
    [content EXCEPT !.written = [f \in Fields |-> IF f \in fields THEN v ELSE @[f]]]

-----------------------------------------------------------------------------
\* requireEngagement.
EngagementWritable == writable

\* transitionFindingInTransaction.  Variant: one person may do both reviews.
PermittedToReviewer(f, m, to, reason) ==
    /\ to \in Workflow[f.status] \/ reason
    /\ to = "peer_reviewed" => m # Author
    /\ to \in {"qa_approved", "published"} /\ m = Author => reason
    /\ to = "published" => f.approved = f.version \/ reason
Permitted(f, m, to, reason) ==
    /\ to \in Workflow[f.status] \/ reason
    /\ to = "peer_reviewed" => m # Author
    /\ to \in {"qa_approved", "published"} /\ m = Author => reason
    /\ to = "qa_approved" => f.reviewer # m
    /\ to = "published" => f.approved = f.version \/ reason

\* What the update makes of the row now, after decisions about the row as read.
\* Variant: the version to come is approved.
MovedAhead(now, read, m, to) ==
    [now EXCEPT
        !.status = to,
        !.reviewer = IF to \in {"peer_reviewed", "qa_approved"} THEN m ELSE read.reviewer,
        !.approved = IF to = "qa_approved" THEN read.version + 1 ELSE read.approved]
Moved(now, read, m, to) ==
    [now EXCEPT
        !.status = to,
        !.reviewer = IF to \in {"peer_reviewed", "qa_approved"} THEN m ELSE read.reviewer,
        !.approved = IF to = "qa_approved" THEN read.version ELSE read.approved]

Recorded(now, read, to) ==
    approval' =
        CASE to = "qa_approved" -> [content |-> now.content, waived |-> FALSE]
          [] to = "published" -> [approval EXCEPT !.waived = read.approved # read.version]
          [] OTHER -> approval

BeginTransition(r, m, to, reason) ==
    /\ EngagementWritable
    /\ reason => m \in Overriders
    /\ Permitted(finding, m, to, reason)
    /\ Begin(r, [kind |-> "transition", actor |-> m, to |-> to, reason |-> reason,
                 read |-> finding])
    /\ UNCHANGED <<finding, snapshots, writable, approval>>

CommitTransition(r) ==
    LET q == requests[r] IN
    /\ q.kind = "transition" /\ StillAsRead(q.read)
    /\ finding' = Moved(finding, q.read, q.actor, q.to)
    /\ Recorded(finding, q.read, q.to)
    /\ End(r)
    /\ UNCHANGED <<snapshots, writable>>

-----------------------------------------------------------------------------
\* A member opens the form, or patchFindingNarrative reads the row to merge with.
OpenFinding(r) ==
    /\ Begin(r, [kind |-> "open", seen |-> finding.content])
    /\ UNCHANGED <<finding, snapshots, writable, approval>>

\* updateFindingNarrative.  Variant: whatever the status.
AnyStatus(f) == TRUE
MayEdit(f) == f.status \in Editable

ReadForEdit(r) ==
    /\ requests[r].kind = "open"
    /\ MayEdit(finding) /\ EngagementWritable
    /\ requests' = [requests EXCEPT ![r] =
                       [kind |-> "edit", seen |-> requests[r].seen, read |-> finding]]
    /\ UNCHANGED <<finding, snapshots, writable, approval>>

\* The new version, with the snapshot of the old one.
NewVersion(read, content) ==
    /\ StillAsRead(read) /\ read.version < MaxVersion
    /\ finding' = [finding EXCEPT !.version = read.version + 1, !.content = content]
    /\ Snapshot(read)

\* Every field is written: the one that was changed, the others as they were seen.
CommitEdit(r) ==
    LET q == requests[r] IN
    /\ q.kind = "edit"
    /\ \E f \in Fields : NewVersion(q.read, Written(q.seen, {f}, q.read.version + 1))
    /\ End(r)
    /\ UNCHANGED <<writable, approval>>

\* updateFindingFromLatestTemplate, which does not look at the engagement.
BeginTemplate(r) ==
    /\ MayEdit(finding)
    /\ Begin(r, [kind |-> "template", read |-> finding])
    /\ UNCHANGED <<finding, snapshots, writable, approval>>

CommitTemplate(r) ==
    LET q == requests[r] IN
    /\ q.kind = "template"
    /\ NewVersion(q.read, [written |-> [f \in Fields |-> q.read.version + 1],
                           linked |-> FALSE])
    /\ End(r)
    /\ UNCHANGED <<writable, approval>>

-----------------------------------------------------------------------------
\* bulkUpdateFindings: a new severity, then a transition without comment or reason.
BulkUpdate(m, edited, to) ==
    LET v == finding.version + 1
        f == IF edited
             THEN [finding EXCEPT !.version = v,
                                  !.content = Written(@, {"severity"}, v)]
             ELSE finding IN
    /\ MayStart /\ EngagementWritable
    /\ edited \/ to # finding.status
    /\ edited => MayEdit(finding) /\ finding.version < MaxVersion
    /\ to # finding.status => to # "changes_requested" /\ Permitted(f, m, to, FALSE)
    /\ finding' = IF to = finding.status THEN f ELSE Moved(f, f, m, to)
    /\ IF edited THEN Snapshot(finding) ELSE UNCHANGED snapshots
    /\ IF to = finding.status THEN UNCHANGED approval ELSE Recorded(f, f, to)
    /\ UNCHANGED <<requests, writable>>

\* The import of a bundle that holds the finding.
ImportBundle ==
    /\ MayStart
    /\ MayEdit(finding)
    /\ NewVersion(finding, Written(finding.content, {"text", "severity"},
                                   finding.version + 1))
    /\ UNCHANGED <<requests, writable, approval>>

\* enrichFindingIntel: the row is read, the sources are asked, and the references
\* are written whatever has become of the row.
BeginEnrich(r) ==
    /\ "enrich" \in Events
    /\ Begin(r, [kind |-> "enrich", read |-> finding])
    /\ UNCHANGED <<finding, snapshots, writable, approval>>

CommitEnrich(r) ==
    LET q == requests[r] IN
    /\ q.kind = "enrich"
    /\ finding' = [finding EXCEPT
                      !.content.written["references"] =
                          q.read.content.written["references"],
                      !.content.linked = TRUE]
    /\ End(r)
    /\ UNCHANGED <<snapshots, writable, approval>>

\* transitionEngagement to archived; the reopening of a cancelled one is left out.
CloseEngagement ==
    /\ "close" \in Events /\ writable /\ MayStart
    /\ writable' = FALSE
    /\ UNCHANGED <<finding, snapshots, requests, approval>>

WorkflowNext ==
    \/ \E r \in Requests :
        \/ \E m \in Members, to \in Targets, reason \in BOOLEAN :
              BeginTransition(r, m, to, reason)
        \/ CommitTransition(r) \/ Abandon(r)
        \/ OpenFinding(r) \/ ReadForEdit(r) \/ CommitEdit(r)
        \/ BeginTemplate(r) \/ CommitTemplate(r)
        \/ BeginEnrich(r) \/ CommitEnrich(r)
    \/ \E m \in Members, edited \in BOOLEAN, to \in Targets \cup {finding.status} :
          BulkUpdate(m, edited, to)
    \/ ImportBundle
    \/ CloseEngagement

WorkflowSpec == WorkflowInit /\ [][WorkflowNext]_workflowVars

-----------------------------------------------------------------------------
\* "Publish requires approved version": all that was written of a published finding
\* is what QA approved last, unless somebody gave a reason.
PublishedIsApproved ==
    finding.status = "published" =>
        approval.waived \/ finding.content.written = approval.content.written

\* "QA must differ from reviewer": nobody gives both approvals of one round.
QaByAnother ==
    [][finding.status = "peer_reviewed" /\ finding'.status = "qa_approved" =>
          finding'.reviewer # finding.reviewer]_workflowVars

\* "Finding content can only change during authoring or requested changes."
ContentIsFrozen ==
    [][finding'.content # finding.content => finding.status \in Editable]_workflowVars

\* "Versioned finding snapshots": a version that is left behind can be read again,
\* with all that was written in it when it was left.
HistoryIsExact ==
    [][finding'.version # finding.version =>
          /\ finding'.version = finding.version + 1
          /\ finding.version \in DOMAIN snapshots'
          /\ snapshots'[finding.version].written = finding.content.written]_workflowVars

\* "Optimistic conflicts only": nobody takes back what another has written, unless he
\* saves a form, or the patch of a row, that was older than the row his update compares.
\* The references are not promised: an enrichment writes over them.
NothingTakenBack ==
    [][\A f \in DOMAIN finding.content.written \ {"references"} :
          finding'.content.written[f] < finding.content.written[f] =>
             \E r \in DOMAIN requests :
                /\ requests[r].kind = "edit" /\ requests'[r].kind = "idle"
                /\ requests[r].seen # requests[r].read.content]_workflowVars
=============================================================================
