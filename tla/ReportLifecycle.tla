--------------------------- MODULE ReportLifecycle --------------------------
(***************************************************************************)
(* One report, its versions, their review and publication, and the render  *)
(* jobs that write their exports: src/server/services/reports.ts, with the *)
(* portal's part in src/server/services/client-portal.ts and the scheduled *)
(* archiving of src/server/services/retention.ts.  Render jobs live in the *)
(* queue that JobContract specifies: they may be tried again, be in        *)
(* progress twice, or be lost.                                             *)
(*                                                                         *)
(* A status change or a revision is two steps, because transitionReport,   *)
(* createReportRevision and approvePortalReport decide on rows they have   *)
(* read without locking them: Read... checks, Commit... writes.  Between   *)
(* the two any other request may run, for the people in Slow.  Content is  *)
(* a number, one per edit.                                                 *)
(***************************************************************************)
EXTENDS JobContract, FiniteSets

CONSTANTS
    Users,          \* members of the organisation
    Clients,        \* portal contacts who may approve
    Slow,           \* people whose requests others may overtake
    Events,         \* what else may happen, a subset of AllEvents
    MaxVersion,     \* bound on report versions
    MaxContent      \* bound on edits

\* Workers die, leases run out under live workers, the database fails a
\* statement, the retention job runs, the engagement is archived.
AllEvents == {"crash", "lease", "dberror", "retention", "archive"}

ASSUME PeopleAssumption ==
    /\ Slow \subseteq Users \cup Clients /\ Users \cap Clients = {}
    /\ "none" \notin Users \cup Clients
ASSUME EventsAssumption == Events \subseteq AllEvents
ASSUME SizeAssumption ==
    MaxVersion \in Nat \ {0} /\ MaxContent \in Nat \ {0} /\ MaxAttempts \in Nat \ {0}

VARIABLES
    report,     \* reports: status and current version
    versions,   \* report_versions
    request,    \* what each person has read and is about to commit
    writable,   \* assertEngagementWritable: not archived and not deleted
    target,     \* payload of each render job: the version
    renders,    \* handlers at work: the content they read
    contents,   \* number of contents written so far
    qa,         \* history: who gave QA approval to which content
    final,      \* history: who gave the final approval
    late        \* history: has a portal approval come after the review it read?

reportVars == <<report, versions, contents, qa, final, late>>
renderVars == <<target, renders>>
vars == <<reportVars, request, writable, renderVars, jobVars>>

VersionNo == 1..MaxVersion
People    == Users \cup Clients
None      == "none"
NoContent == 0

Workflow ==
    [draft             |-> {"internal_review"},
     internal_review   |-> {"changes_requested", "qa_approved"},
     changes_requested |-> {"draft", "internal_review"},
     qa_approved       |-> {"client_review", "approved", "changes_requested"},
     client_review     |-> {"changes_requested", "approved"},
     approved          |-> {"published", "changes_requested"},
     published         |-> {"superseded", "archived"},
     superseded        |-> {"archived"},
     archived          |-> {}]
ReportStatus == DOMAIN Workflow
LifecycleOnly == {"superseded", "archived"}
RenderStatus == {"not_requested", "queued", "running", "completed", "failed"}

NoVersion ==
    [status |-> "absent", content |-> NoContent, immutable |-> FALSE,
     visible |-> FALSE, createdBy |-> None, approvedBy |-> None,
     clientBy |-> None, render |-> "not_requested", exports |-> NoContent]
\* Variant: a revision copies the status of its predecessor.
NewVersionCopied(u, content) ==
    [NoVersion EXCEPT !.status = "published", !.createdBy = u, !.content = content]
NewVersion(u, content) ==
    [NoVersion EXCEPT !.status = "draft", !.createdBy = u, !.content = content]
NoRequest == [to |-> None]

Init ==
    /\ ContractInit
    /\ report = [status |-> "absent", current |-> 1]
    /\ versions = [v \in VersionNo |-> NoVersion]
    /\ request = [p \in People |-> NoRequest]
    /\ writable = TRUE
    /\ target = [j \in Jobs |-> 1]
    /\ renders = {}
    /\ contents = 0
    /\ qa = [v \in VersionNo |-> [by |-> None, content |-> NoContent]]
    /\ final = [v \in VersionNo |-> None]
    /\ late = FALSE

Current == versions[report.current]

TypeOK ==
    /\ ContractTypeOK
    /\ report \in [status : ReportStatus \cup {"absent"}, current : VersionNo]
    /\ versions \in [VersionNo ->
          [status : ReportStatus \cup {"absent"}, content : 0..MaxContent,
           immutable : BOOLEAN, visible : BOOLEAN, createdBy : Users \cup {None},
           approvedBy : Users \cup {None}, clientBy : Clients \cup {None},
           render : RenderStatus, exports : 0..MaxContent]]
    /\ \A p \in People : request[p] = NoRequest \/ request[p].version \in VersionNo
    /\ writable \in BOOLEAN
    /\ target \in [Jobs -> VersionNo]
    /\ renders \subseteq [job : Jobs, attempt : 1..MaxAttempts,
                          content : 1..MaxContent, marked : BOOLEAN]
    /\ contents \in 0..MaxContent
    /\ qa \in [VersionNo -> [by : Users \cup {None}, content : 0..MaxContent]]
    /\ final \in [VersionNo -> People \cup {None}]
    /\ late \in BOOLEAN

-----------------------------------------------------------------------------
\* Requests that lock what they read, and so are one step.
FreshContent == contents < MaxContent /\ contents' = contents + 1

CreateReport(u) ==
    /\ report.status = "absent" /\ writable
    /\ FreshContent
    /\ report' = [status |-> "draft", current |-> 1]
    /\ versions' = [versions EXCEPT ![1] = NewVersion(u, contents')]
    /\ UNCHANGED <<request, writable, renderVars, jobVars, qa, final, late>>

\* Variant: a save is refused only during review.
MayEditLater ==
    /\ Current.status \notin {"internal_review", "qa_approved", "client_review", "approved"}
    /\ Current.render \notin {"queued", "running"}
MayEdit ==
    /\ ~Current.immutable
    /\ Current.status \in {"draft", "changes_requested"}
    /\ Current.render \notin {"queued", "running"}

\* saveReportDraft and refreshReportFindings: new content, exports dropped.
\* Variant: the old exports are kept.
EditedKeepingExports(row, content) == [row EXCEPT !.content = content]
Edited(row, content) ==
    [row EXCEPT !.content = content, !.render = "not_requested",
                !.exports = NoContent]

SaveDraft ==
    /\ writable /\ MayEdit
    /\ FreshContent
    /\ versions' = [versions EXCEPT ![report.current] = Edited(@, contents')]
    /\ UNCHANGED <<report, request, writable, renderVars, jobVars, qa, final, late>>

\* queueReportGeneration inserts the job together with the render status.
QueueGeneration(j) ==
    /\ report.status # "absent" /\ writable
    /\ ~Current.immutable
    /\ Current.render \notin {"queued", "running"}
    /\ versions' = [versions EXCEPT ![report.current].render = "queued"]
    /\ target' = [target EXCEPT ![j] = report.current]
    /\ Submit({j})
    /\ UNCHANGED <<report, contents, qa, final, late, request, writable, renders>>

\* setReportPortalVisibility.
SetVisibility(v, visible) ==
    /\ versions[v].status # "absent"
    /\ visible => versions[v].status \in
                     {"client_review", "approved", "published", "superseded"}
    /\ versions' = [versions EXCEPT ![v].visible = visible]
    /\ UNCHANGED <<report, contents, qa, final, late, request, writable, renderVars,
                   jobVars>>

-----------------------------------------------------------------------------
\* transitionReport: what it checks on the rows it has read.
\* Variant: the person who gave QA approval may also give the final one.
SeparateQaOnly(u, row, to) == to = "qa_approved" => row.createdBy # u
SeparateDuties(u, row, to) ==
    /\ to = "qa_approved" => row.createdBy # u
    /\ to = "approved" => row.approvedBy # u

\* Variant: publication does not wait for exports.
AlwaysReady(row, to) == TRUE
ExportsReady(row, to) == to = "published" => row.render = "completed"

ReadForTransition(u, to) ==
    /\ report.status # "absent" /\ request[u] = NoRequest /\ writable
    /\ to \in Workflow[report.status]
    /\ Current.immutable => to \in LifecycleOnly
    /\ SeparateDuties(u, Current, to)
    /\ ExportsReady(Current, to)
    /\ request' = [request EXCEPT ![u] =
          [to |-> to, from |-> report.status, version |-> report.current,
           immutable |-> Current.immutable, approvedBy |-> Current.approvedBy]]
    /\ UNCHANGED <<reportVars, writable, renderVars, jobVars>>

\* The update of reports is conditional on the status that was read.
StillAsRead(q) == report.status = q.from

\* The update of the version writes what was read, where nothing changes it.
\* Variant: the new status is written into render_status as well.
TransitionedTwice(row, u, q) ==
    [row EXCEPT !.status = q.to, !.render = q.to,
                !.immutable = q.immutable \/ q.to = "published",
                !.approvedBy = IF q.to \in {"qa_approved", "approved", "published"}
                               THEN u ELSE q.approvedBy]
Transitioned(row, u, q) ==
    [row EXCEPT !.status = q.to,
                !.immutable = q.immutable \/ q.to = "published",
                !.approvedBy = IF q.to \in {"qa_approved", "approved", "published"}
                               THEN u ELSE q.approvedBy]

CommitTransition(u) ==
    LET q == request[u] IN
    /\ q.to \in ReportStatus
    /\ StillAsRead(q)
    /\ report' = [report EXCEPT !.status = q.to]
    /\ versions' = [versions EXCEPT ![q.version] = Transitioned(@, u, q)]
    /\ qa' = IF q.to = "qa_approved"
             THEN [qa EXCEPT ![q.version] =
                      [by |-> u, content |-> versions[q.version].content]]
             ELSE qa
    /\ final' = IF q.to = "approved" THEN [final EXCEPT ![q.version] = u] ELSE final
    /\ request' = [request EXCEPT ![u] = NoRequest]
    /\ UNCHANGED <<contents, late, writable, renderVars, jobVars>>

\* "Report state changed; reload and retry", the number of the revision is taken, or
\* the database fails.
Abort(p) ==
    /\ request[p] # NoRequest
    /\ request' = [request EXCEPT ![p] = NoRequest]
    /\ UNCHANGED <<reportVars, writable, renderVars, jobVars>>

-----------------------------------------------------------------------------
\* createReportRevision, also called when a retest is completed, holds a share lock on
\* the engagement, and none on the report and the version it reads.
ReadForRevision(u) ==
    /\ request[u] = NoRequest /\ writable
    /\ Current.immutable \/ report.status = "published"
    /\ report.current < MaxVersion
    /\ request' = [request EXCEPT ![u] = [to |-> "revision", version |-> report.current]]
    /\ UNCHANGED <<reportVars, writable, renderVars, jobVars>>

\* Both rows are written by id; a version has its number once.
CommitRevision(u) ==
    LET v == request[u].version IN
    /\ request[u].to = "revision"
    /\ versions[v + 1].status = "absent"
    /\ FreshContent
    /\ versions' = [versions EXCEPT ![v].status = "superseded",
                                    ![v + 1] = NewVersion(u, contents')]
    /\ report' = [status |-> "draft", current |-> v + 1]
    /\ request' = [request EXCEPT ![u] = NoRequest]
    /\ UNCHANGED <<writable, renderVars, jobVars, qa, final, late>>

-----------------------------------------------------------------------------

\* approvePortalReport reads outside its transaction ...
ReadForApproval(c) ==
    /\ request[c] = NoRequest /\ writable
    /\ report.status = "client_review" /\ Current.status = "client_review"
    /\ Current.visible
    /\ request' = [request EXCEPT ![c] =
                      [to |-> "approved", version |-> report.current]]
    /\ UNCHANGED <<reportVars, writable, renderVars, jobVars>>

\* ... and then writes both rows, whatever has become of them.
CommitApproval(c) ==
    LET v == request[c].version IN
    /\ request[c] # NoRequest
    /\ versions' = [versions EXCEPT ![v].status = "approved", ![v].clientBy = c]
    /\ report' = [report EXCEPT !.status = "approved"]
    /\ final' = [final EXCEPT ![v] = c]
    /\ late' = (late \/ report # [status |-> "client_review", current |-> v])
    /\ request' = [request EXCEPT ![c] = NoRequest]
    /\ UNCHANGED <<contents, qa, writable, renderVars, jobVars>>

-----------------------------------------------------------------------------
\* The engagement is archived.  Members' requests hold a share lock on its row.
ArchiveEngagement ==
    /\ "archive" \in Events /\ writable
    /\ \A u \in Users : request[u] = NoRequest
    /\ writable' = FALSE
    /\ UNCHANGED <<reportVars, request, renderVars, jobVars>>

\* applyRetention on a report past retain_until: the row of reports only.
ApplyRetention ==
    /\ "retention" \in Events
    /\ report.status \notin {"absent", "archived"}
    /\ report' = [report EXCEPT !.status = "archived"]
    /\ UNCHANGED <<versions, contents, qa, final, late, request, writable, renderVars,
                   jobVars>>

-----------------------------------------------------------------------------
\* generateReportJob, run by the queue.
ForJob(h) == {x \in renders : x.job = h.job /\ x.attempt = h.attempt}

SetVersion(v, row) ==
    /\ versions' = [versions EXCEPT ![v] = row]
    /\ UNCHANGED <<report, contents, qa, final, late>>

\* The worker takes the job and the handler reads the version.
RenderBegin(h) ==
    /\ Begin(h)
    /\ renders' = renders \cup {[job |-> h.job, attempt |-> h.attempt,
                                 content |-> versions[target[h.job]].content,
                                 marked |-> FALSE]}
    /\ UNCHANGED <<reportVars, request, writable, target>>

RenderMark(x) ==
    LET v == target[x.job] IN
    /\ ~x.marked
    /\ SetVersion(v, [versions[v] EXCEPT !.render = "running"])
    /\ renders' = (renders \ {x}) \cup {[x EXCEPT !.marked = TRUE]}
    /\ UNCHANGED <<request, writable, target, jobVars>>

\* All formats are rendered and stored, and the version is updated.
RenderDone(h) ==
    \E x \in ForJob(h) :
        LET v == target[h.job] IN
        /\ x.marked
        /\ SetVersion(v, [versions[v] EXCEPT !.render = "completed",
                                             !.exports = x.content])
        /\ renders' = renders \ {x}
        /\ HandlerReturns(h)
        /\ UNCHANGED <<request, writable, target>>

\* Rendering or storing fails, and the catch clause records it.
RenderFail(h) ==
    \E x \in ForJob(h) :
        LET v == target[h.job] IN
        /\ x.marked
        /\ SetVersion(v, [versions[v] EXCEPT !.render = "failed"])
        /\ renders' = renders \ {x}
        /\ HandlerThrows(h)
        /\ UNCHANGED <<request, writable, target>>

\* The database fails the reads, the marking, or the catch clause's update.
RenderThrows(h) ==
    \E x \in ForJob(h) :
        /\ "dberror" \in Events
        /\ renders' = renders \ {x}
        /\ HandlerThrows(h)
        /\ UNCHANGED <<reportVars, request, writable, target>>

\* The other steps of the queue.
LeaseOver(j) == "lease" \in Events \/ \A h \in hands : h.job # j

RenderStep(h) ==
    RenderBegin(h) \/ RenderDone(h) \/ RenderFail(h) \/ RenderThrows(h)

QueueStep ==
    /\ \/ \E S \in SUBSET {j \in Jobs : status[j] = "waiting" \/ LeaseOver(j)} :
             Claim(S) \/ GiveUp({j \in S : status[j] = "running"})
       \/ \E h \in hands : Complete(h) \/ Fail(h)
       \/ "dberror" \in Events /\ \E h \in hands : CompleteThrows(h)
    /\ UNCHANGED <<reportVars, request, writable, renderVars>>

WorkerDies ==
    /\ "crash" \in Events
    /\ \E h \in hands : Lose({h}) /\ renders' = renders \ ForJob(h)
    /\ UNCHANGED <<reportVars, request, writable, target>>

-----------------------------------------------------------------------------
Commit(p) ==
    \/ p \in Users /\ (CommitTransition(p) \/ CommitRevision(p))
    \/ p \in Clients /\ CommitApproval(p)
    \/ Abort(p)

\* Nobody is kept waiting who may not be overtaken.
Unhurried == \A p \in People : request[p] # NoRequest => p \in Slow

PersonStep ==
    \/ \E u \in Users : CreateReport(u) \/ ReadForRevision(u)
    \/ SaveDraft
    \/ \E u \in Users, to \in ReportStatus : ReadForTransition(u, to)
    \/ \E c \in Clients : ReadForApproval(c)
    \/ \E v \in VersionNo, visible \in BOOLEAN : SetVisibility(v, visible)
    \/ \E j \in Jobs : QueueGeneration(j)

SystemStep ==
    \/ \E h \in hands : RenderStep(h)
    \/ \E x \in renders : RenderMark(x)
    \/ QueueStep \/ WorkerDies
    \/ ArchiveEngagement \/ ApplyRetention

Next ==
    \/ \E p \in People : Commit(p)
    \/ Unhurried /\ (PersonStep \/ SystemStep)

Spec == Init /\ [][Next]_vars

-----------------------------------------------------------------------------
\* A report and its current version, two rows written one after the other by
\* every transition, never disagree about the status, until a portal approval
\* is written after the review it has read.
StatusAgreement == late \/ report.status = Current.status

\* "Author cannot QA; final approver differs from QA", until then: no version was
\* frozen whose author gave it QA approval, or whose QA approver was also the one
\* to approve it.  The author may be the final approver.
FourEyes ==
    late \/ \A v \in VersionNo : versions[v].immutable =>
        /\ qa[v].by \notin {None, versions[v].createdBy}
        /\ final[v] \notin {None, qa[v].by}

\* What is approved or published is, to the letter, what QA has seen, until then.
QaSawContent ==
    late \/ \A v \in VersionNo :
        versions[v].status \in {"approved", "published"} =>
            qa[v].content = versions[v].content

\* A job of the version has been tried again.
Retried(v) == \E j \in Jobs : target[j] = v /\ attempts[j] > 1

\* Completed exports show the content the version has now, whatever was edited or
\* generated again in between, unless a job of the version has been tried again.
ExportsMatch ==
    \A v \in VersionNo :
        versions[v].render = "completed" =>
            versions[v].exports = versions[v].content \/ Retried(v)

\* Where no lease runs out under a live worker, a version that waits for its exports has a
\* job that will still write them, or that ended as a dead letter because workers die or
\* statements fail; otherwise it can be neither edited, nor rendered again, nor published.
RenderingHasJob ==
    "lease" \notin Events =>
        \A v \in VersionNo : versions[v].render \in {"queued", "running"} =>
            \E j \in Jobs :
                /\ target[j] = v
                /\ \/ status[j] \in {"waiting", "running"}
                   \/ status[j] = "dead_letter" /\ Events \cap {"crash", "dberror"} # {}

ExportsInStep == ExportsMatch /\ RenderingHasJob

\* "Immutable (published) versions may only move along the status-only
\* lifecycle; their content, exports and approvals never change."
PublishedKept(v) ==
    versions[v].immutable =>
        /\ versions'[v].immutable
        /\ versions'[v].content = versions[v].content
        /\ versions'[v].exports = versions[v].exports
        /\ versions'[v].approvedBy = versions[v].approvedBy
        /\ versions'[v].clientBy = versions[v].clientBy

\* The same, of every step and version.
PublishedIsFrozen == [][\A v \in VersionNo : PublishedKept(v)]_vars

\* A portal approval that was read earlier is committed.
ApprovalCommitted(v) ==
    \E c \in Clients :
        /\ request[c].to = "approved" /\ request[c].version = v
        /\ request'[c] = NoRequest /\ versions'[v].clientBy = c

\* What is kept of that promise while the requests of members do not overlap: only
\* a retry rewrites the exports, only a portal approval the client's name.
FrozenKept(v) ==
    versions[v].immutable =>
        /\ versions'[v].immutable
        /\ versions'[v].content = versions[v].content
        /\ versions'[v].exports = versions[v].exports \/ Retried(v)
        /\ versions'[v].approvedBy = versions[v].approvedBy
        /\ versions'[v].clientBy = versions[v].clientBy \/ ApprovalCommitted(v)

\* The part that no overlap of requests, jobs and crashes breaks: what was frozen is
\* never rewritten.
ContentKept(v) == versions[v].immutable => versions'[v].content = versions[v].content

\* "Report mutations on archived or cancelled engagements are refused": once the
\* engagement is closed only the retention job still moves the report, and a portal
\* approval that was read before.
ClosedKept ==
    \/ report' = report \/ report'.status = "archived"
    \/ \E v \in VersionNo : ApprovalCommitted(v)
=============================================================================
