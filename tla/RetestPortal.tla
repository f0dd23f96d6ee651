----------------------------- MODULE RetestPortal ---------------------------
(***************************************************************************)
(* A published finding that its client sees: remediation updates, retests  *)
(* and the revision of the report that a retest causes.                    *)
(* src/server/services/client-portal.ts and retest-api.ts, composed with   *)
(* the transitions of FindingWorkflow.                                     *)
(*                                                                         *)
(* What the client asks is decided on an unlocked read, like a transition. *)
(* Scheduling and completing a retest lock attempt and finding.            *)
(*                                                                         *)
(* Nobody overrides the workflow here, and without overrides a published   *)
(* finding is never written again: edits, templates and imports of         *)
(* FindingWorkflow cannot happen.                                          *)
(***************************************************************************)
EXTENDS FindingWorkflow, SequencesExt

CONSTANTS
    Testers,        \* the members who act once the finding is published
    Attempts        \* rows of retest_attempts

ASSUME PortalAssumption ==
    Testers \subseteq Members /\ Attempts \cap {None} = {}

VARIABLES
    trail,      \* the status the rows of finding_transitions lead to
    attempts,   \* retest_attempts
    report      \* the status of the report that shows the finding

portalVars == <<workflowVars, trail, attempts, report>>

\* visibleFindingStatuses; publishedAt is set in all of them.
Visible == {"published", "remediation_in_progress", "ready_for_retest", "retested",
            "resolved", "risk_accepted", "closed"}
\* retestableStatuses, retestableFindingStatuses
Retestable == Visible \ {"closed"}
OpenAttempt == {"requested", "scheduled"}

\* The outcome of a retest, and what a client may report.
Outcomes == {"resolved", "risk_accepted", "retested"}
Remediation == {"open", "in_progress", "remediated", "risk_accepted"}

NoAttempt == [status |-> "absent", by |-> None]
Attempt == [status : {"absent", "completed"} \cup OpenAttempt,
            by : {None, "portal", "api"}]

Open(a) == attempts[a].status \in OpenAttempt

PortalRequest ==
    {Idle}
    \cup [kind : {"transition"}, actor : Testers, to : FindingStatus,
          reason : {FALSE}, read : Finding]
    \cup [kind : {"remediation"}, to : FindingStatus, read : Finding]
    \cup [kind : {"retest"}]
    \cup [kind : {"api"}]
    \cup [kind : {"revision"}]

\* Published by the rules, and shared.
PortalInit ==
    /\ \E m \in Members \ {Author} :
          finding = [NewFinding EXCEPT !.status = "published", !.approved = 1,
                                       !.reviewer = m]
    /\ snapshots = [v \in {1} |-> FirstDraft]
    /\ requests = [r \in Requests |-> Idle]
    /\ writable = TRUE
    /\ approval = [content |-> FirstDraft, waived |-> FALSE]
    /\ trail = "published"
    /\ attempts = [a \in Attempts |-> NoAttempt]
    /\ report = "published"

PortalTypeOK ==
    /\ finding \in Finding
    /\ \A v \in DOMAIN snapshots : snapshots[v] \in Contents
    /\ requests \in [Requests -> PortalRequest]
    /\ trail \in FindingStatus
    /\ attempts \in [Attempts -> Attempt]
    /\ report \in {"published", "draft"}

-----------------------------------------------------------------------------
\* A row of finding_transitions that starts elsewhere breaks the trail.
Logged(from, to) == trail' = IF trail = from THEN to ELSE "broken"

\* What a tester does to the finding, while the portal looks on.
Transitioning ==
    \/ \E r \in Requests :
        \/ /\ \E m \in Testers, to \in Targets : BeginTransition(r, m, to, FALSE)
           /\ UNCHANGED trail
        \/ CommitTransition(r) /\ Logged(requests[r].read.status, requests[r].to)
    \/ \E m \in Testers, to \in Targets :
        BulkUpdate(m, FALSE, to) /\ Logged(finding.status, to)

\* Any request may fail before it commits.  A revision that does leaves the retest
\* completed: that was another transaction.
GiveUp(r) == Abandon(r) /\ UNCHANGED <<trail, attempts, report>>

-----------------------------------------------------------------------------
\* requireVisibleFinding.  Whether the finding is shared and the client granted access is
\* asked in the same step, and only refuses.
SeenByClient == finding.status \in Visible /\ EngagementWritable

\* The status that a client's report asks for.
RemediationStatus(status, f) ==
    CASE status = "remediated" -> "ready_for_retest"
      [] status = "risk_accepted" -> "risk_accepted"
      [] status = "open" -> f.status
      [] OTHER -> "remediation_in_progress"

\* "Closed and resolved are tester decisions".  Variant: closed only.
NotReopened(f, to) == to = f.status \/ f.status # "closed"
NotReopening(f, to) == to = f.status \/ f.status \notin {"closed", "resolved"}

\* submitRemediationUpdate reads, and then updates what is still as it was read.
BeginRemediation(r) ==
    \E status \in Remediation :
        LET to == RemediationStatus(status, finding) IN
        /\ SeenByClient
        /\ NotReopening(finding, to)
        /\ Begin(r, [kind |-> "remediation", to |-> to, read |-> finding])
        /\ UNCHANGED <<finding, snapshots, writable, approval, trail, attempts, report>>

CommitRemediation(r) ==
    LET q == requests[r] IN
    /\ q.kind = "remediation" /\ StillAsRead(q.read)
    /\ finding' = [finding EXCEPT !.status = q.to]
    /\ IF q.to # q.read.status THEN Logged(q.read.status, q.to) ELSE UNCHANGED trail
    /\ End(r)
    /\ UNCHANGED <<snapshots, writable, approval, attempts, report>>

-----------------------------------------------------------------------------
\* requestRetest of the portal looks at the finding, and inserts.
BeginPortalRetest(r) ==
    /\ SeenByClient
    /\ Begin(r, [kind |-> "retest"])
    /\ UNCHANGED <<finding, snapshots, writable, approval, trail, attempts, report>>

Requested(a, by) ==
    /\ attempts[a].status = "absent"
    /\ attempts' = [attempts EXCEPT ![a] = [status |-> "requested", by |-> by]]

CommitPortalRetest(r) ==
    /\ requests[r].kind = "retest"
    /\ \E a \in Attempts : Requested(a, "portal")
    /\ End(r)
    /\ UNCHANGED <<finding, snapshots, writable, approval, trail, report>>

\* requestRetestForApi looks at the status, locks the finding and looks for an open
\* attempt.  It does not look at the engagement.
BeginApiRetest(r) ==
    /\ finding.status \in Retestable
    /\ Begin(r, [kind |-> "api"])
    /\ UNCHANGED <<finding, snapshots, writable, approval, trail, attempts, report>>

\* Variant: only attempts that have not been scheduled count.
NoneRequested == \A a \in Attempts : attempts[a].status # "requested"
NoneOpen == \A a \in Attempts : ~Open(a)

CommitApiRetest(r) ==
    /\ requests[r].kind = "api"
    /\ NoneOpen
    /\ \E a \in Attempts : Requested(a, "api")
    /\ End(r)
    /\ UNCHANGED <<finding, snapshots, writable, approval, trail, report>>

-----------------------------------------------------------------------------
\* lockOpenRetest
LockedRetest(a) ==
    /\ Open(a) /\ finding.status \in Retestable
    /\ EngagementWritable

ScheduleRetest(a) ==
    /\ LockedRetest(a)
    /\ attempts' = [attempts EXCEPT ![a].status = "scheduled"]
    /\ UNCHANGED <<workflowVars, trail, report>>

\* retestTransitionPath
Path(from, to) ==
    (IF from = "retested" THEN <<"remediation_in_progress">> ELSE <<>>)
    \o (IF from = "ready_for_retest" THEN <<>> ELSE <<"ready_for_retest">>)
    \o <<"retested">>
    \o (IF to = "retested" THEN <<>> ELSE <<to>>)

Legal(from, path) ==
    \A i \in 1..Len(path) : path[i] \in Workflow[IF i = 1 THEN from ELSE path[i - 1]]

\* completeRetest: a new version, with a snapshot of it, and a row for every hop.
CompleteRetest(r, a, to) ==
    LET v == finding.version + 1
        path == Path(finding.status, to) IN
    /\ requests[r] = Idle
    /\ LockedRetest(a) /\ finding.version < MaxVersion /\ v \notin DOMAIN snapshots
    /\ Legal(finding.status, path)
    /\ attempts' = [attempts EXCEPT ![a].status = "completed"]
    /\ snapshots' = [u \in DOMAIN snapshots \cup {v} |->
                        IF u = v THEN finding.content ELSE snapshots[u]]
    /\ finding' = [finding EXCEPT !.status = to, !.version = v]
    /\ Logged(finding.status, Last(path))
    /\ requests' = [requests EXCEPT ![r] = [kind |-> "revision"]]
    /\ UNCHANGED <<writable, approval, report>>

\* ... and then, in another transaction, a revision of a published report.
ReviseReport(r) ==
    /\ requests[r].kind = "revision"
    /\ report' = IF report = "published" /\ EngagementWritable THEN "draft" ELSE report
    /\ End(r)
    /\ UNCHANGED <<finding, snapshots, writable, approval, trail, attempts>>

-----------------------------------------------------------------------------
EndEngagement == CloseEngagement /\ UNCHANGED <<trail, attempts, report>>

PortalNext ==
    \/ Transitioning /\ UNCHANGED <<attempts, report>>
    \/ \E r \in Requests :
        \/ GiveUp(r)
        \/ BeginRemediation(r) \/ CommitRemediation(r)
        \/ BeginPortalRetest(r) \/ CommitPortalRetest(r)
        \/ BeginApiRetest(r) \/ CommitApiRetest(r)
        \/ \E a \in Attempts, to \in Outcomes : CompleteRetest(r, a, to)
        \/ ReviseReport(r)
    \/ \E a \in Attempts : ScheduleRetest(a)
    \/ EndEngagement

PortalSpec == PortalInit /\ [][PortalNext]_portalVars

-----------------------------------------------------------------------------
\* The transitions on record lead, one from the other, to the status the finding
\* has: what a client, a tester and a retest do together leaves no gap.
TrailIsConnected == trail = finding.status

\* "Closed and resolved are tester decisions; a client remediation update cannot
\* reopen them", even if the tester decides while the client is writing.
ClientNeverReopens ==
    [][\A r \in DOMAIN requests :
          /\ requests[r].kind = "remediation" /\ requests'[r] = Idle
          /\ finding.status \in {"closed", "resolved"}
          => finding'.status = finding.status]_portalVars

\* "Concurrent schedule/complete calls serialise and cannot act twice": every
\* completed attempt has made one version of the finding.
OneVersionPerRetest ==
    finding.version = 1 + Cardinality({a \in Attempts : attempts[a].status = "completed"})

\* "Concurrent requests cannot both open an attempt": of two attempts that are open
\* together, one was opened in the portal, which does not look.
ApiOpensOne ==
    \A a, b \in Attempts :
        a # b /\ Open(a) /\ Open(b) => "portal" \in {attempts[a].by, attempts[b].by}
=============================================================================
