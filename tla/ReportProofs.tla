---------------------------- MODULE ReportProofs ----------------------------
(***************************************************************************)
(* The life of a report, for any members, contacts, versions, edits and    *)
(* jobs: proofs about ReportLifecycle, and about the regimes in which it   *)
(* is checked.                                                             *)
(***************************************************************************)
EXTENDS MCReportRegimes, JobContractProofs

ReportType == [status : ReportStatus \cup {"absent"}, current : VersionNo]
VersionType ==
    [status : ReportStatus \cup {"absent"}, content : 0..MaxContent,
     immutable : BOOLEAN, visible : BOOLEAN, createdBy : Users \cup {None},
     approvedBy : Users \cup {None}, clientBy : Clients \cup {None},
     render : RenderStatus, exports : 0..MaxContent]
UserRequest ==
    [to : ReportStatus, from : ReportStatus, version : VersionNo,
     immutable : BOOLEAN, approvedBy : Users \cup {None}]
ReviseRequest == [to : {"revision"}, version : VersionNo \ {MaxVersion}]
ClientRequest == [to : {"approved"}, version : VersionNo]
RenderType ==
    [job : Jobs, attempt : 1..MaxAttempts, content : 1..MaxContent, marked : BOOLEAN]

-----------------------------------------------------------------------------
(***************************************************************************)
(* What holds however requests, jobs, crashes and retention overlap.       *)
(***************************************************************************)

\* The versions that exist are those up to the current one.
Written(v) == report.status # "absent" /\ v <= report.current

RowsTyped ==
    /\ report \in ReportType /\ versions \in [VersionNo -> VersionType]
    /\ contents \in 0..MaxContent

\* A version has content and status from its first day, and none is prepared in advance.
RowsInv ==
    /\ RowsTyped
    /\ \A v \in VersionNo :
          /\ Written(v) => versions[v].content # NoContent /\ versions[v].status # "absent"
          /\ ~Written(v) => versions[v] = NoVersion

\* What somebody is about to commit concerns a version that exists.
RequestsInv ==
    /\ request \in [People -> {NoRequest} \cup UserRequest \cup ReviseRequest
                                  \cup ClientRequest]
    /\ \A u \in Users : request[u] # NoRequest =>
          request[u] \in UserRequest \cup ReviseRequest /\ Written(request[u].version)
    /\ \A c \in Clients : request[c] # NoRequest =>
          request[c] \in ClientRequest /\ Written(request[c].version)

\* A job renders a version that exists, and a handler's job is in the queue.
WorkInv ==
    /\ target \in [Jobs -> VersionNo] /\ renders \subseteq RenderType
    /\ \A j \in Jobs : status[j] # "absent" => Written(target[j])
    /\ \A x \in renders : status[x.job] # "absent"

HistoryTyped ==
    /\ qa \in [VersionNo -> [by : Users \cup {None}, content : 0..MaxContent]]
    /\ final \in [VersionNo -> People \cup {None}]
    /\ writable \in BOOLEAN /\ late \in BOOLEAN

ReportInv == ContractInv /\ RowsInv /\ RequestsInv /\ WorkInv /\ HistoryTyped

\* The statuses of a report, one by one.
LEMMA Statuses ==
    /\ "revision" \notin ReportStatus /\ "absent" \notin ReportStatus
    /\ None \notin ReportStatus
    /\ ReportStatus = {"draft", "internal_review", "changes_requested", "qa_approved",
                       "client_review", "approved", "published", "superseded", "archived"}
    /\ Workflow["draft"] = {"internal_review"}
    /\ Workflow["internal_review"] = {"changes_requested", "qa_approved"}
    /\ Workflow["changes_requested"] = {"draft", "internal_review"}
    /\ Workflow["qa_approved"] = {"client_review", "approved", "changes_requested"}
    /\ Workflow["client_review"] = {"changes_requested", "approved"}
    /\ Workflow["approved"] = {"published", "changes_requested"}
    /\ Workflow["published"] = {"superseded", "archived"}
    /\ Workflow["superseded"] = {"archived"}
    /\ Workflow["archived"] = {}
BY DEF ReportStatus, Workflow, None

\* What the assumptions say of the numbers.
LEMMA Numbers ==
    /\ MaxVersion \in Nat \ {0} /\ MaxContent \in Nat \ {0} /\ MaxAttempts \in Nat \ {0}
    /\ VersionNo = 1..MaxVersion /\ 1 \in VersionNo
BY SizeAssumption DEF VersionNo

\* What a version is before it is written, and when it is new.
LEMMA EmptyRows ==
    /\ NoVersion \in VersionType /\ NoVersion.content = NoContent /\ ~NoVersion.immutable
    /\ NoVersion.render = "not_requested" /\ NoVersion.status = "absent"
    /\ \A u \in Users, n \in 0..MaxContent :
          /\ NewVersion(u, n) \in VersionType /\ NewVersion(u, n).content = n
          /\ NewVersion(u, n).status = "draft" /\ NewVersion(u, n).render = "not_requested"
          /\ ~NewVersion(u, n).immutable /\ NewVersion(u, n).createdBy = u
<1>1. /\ NoVersion \in VersionType /\ NoVersion.content = NoContent /\ ~NoVersion.immutable
      /\ NoVersion.render = "not_requested" /\ NoVersion.status = "absent"
  BY Numbers DEF NoVersion, VersionType, RenderStatus, NoContent
<1>2. ASSUME NEW u \in Users, NEW n \in 0..MaxContent
      PROVE  /\ NewVersion(u, n) \in VersionType /\ NewVersion(u, n).content = n
             /\ NewVersion(u, n).status = "draft"
             /\ NewVersion(u, n).render = "not_requested"
             /\ ~NewVersion(u, n).immutable /\ NewVersion(u, n).createdBy = u
  <2> DEFINE N == 0..MaxContent
  <2>1. VersionType =
         [status : ReportStatus \cup {"absent"}, content : N, immutable : BOOLEAN,
          visible : BOOLEAN, createdBy : Users \cup {None}, approvedBy : Users \cup {None},
          clientBy : Clients \cup {None}, render : RenderStatus, exports : N]
    BY DEF VersionType
  <2>2. "draft" \in ReportStatus /\ n \in N
    BY Statuses
  <2> HIDE DEF N
  <2> QED BY <1>1, <2>1, <2>2 DEF NewVersion
<1> QED BY <1>1, <1>2

\* At first there is no report, no request and no job.
LEMMA InitReport == Init => ReportInv
<1> SUFFICES ASSUME Init PROVE ReportInv
  OBVIOUS
<1>1. ContractInv
  BY Numbers, ContractStarts DEF Init
<1>2. RowsInv
  BY Numbers, EmptyRows DEF Init, RowsInv, RowsTyped, ReportType, Written
<1>3. RequestsInv /\ WorkInv
  BY Numbers DEF Init, ContractInit, RequestsInv, WorkInv, People
<1>4. HistoryTyped
  <2>1. late \in BOOLEAN /\ writable \in BOOLEAN
    BY DEF Init
  <2>2. /\ qa = [v \in VersionNo |-> [by |-> None, content |-> NoContent]]
        /\ final = [v \in VersionNo |-> None]
    BY DEF Init
  <2> QED BY <2>1, <2>2, Numbers DEF HistoryTyped, NoContent
<1> QED BY <1>1, <1>2, <1>3, <1>4 DEF ReportInv

-----------------------------------------------------------------------------
(***************************************************************************)
(* What the steps do to a row.                                             *)
(***************************************************************************)

\* One row is rewritten.
Changes(v, row) ==
    /\ versions' \in [VersionNo -> VersionType] /\ versions'[v] = row
    /\ \A w \in VersionNo : w # v => versions'[w] = versions[w]

\* A row that is updated by its id changes, and the others stay.
LEMMA RowChanges ==
    ASSUME RowsTyped, NEW v \in VersionNo, NEW row \in VersionType,
           versions' = [versions EXCEPT ![v] = row]
    PROVE  Changes(v, row)
BY DEF Changes, RowsTyped

\* Columns of the review, and columns of the exports.
SameReview(r, s) ==
    /\ r.status = s.status /\ r.immutable = s.immutable /\ r.createdBy = s.createdBy
    /\ r.approvedBy = s.approvedBy /\ r.clientBy = s.clientBy
SameExports(r, s) == r.render = s.render /\ r.exports = s.exports

\* An edit replaces the content and takes back the exports.
LEMMA EditedRow ==
    ASSUME NEW r \in VersionType, NEW n \in 0..MaxContent
    PROVE  /\ Edited(r, n) \in VersionType /\ Edited(r, n).content = n
           /\ SameReview(Edited(r, n), r) /\ Edited(r, n).render = "not_requested"
<1> DEFINE N == 0..MaxContent
<1>1. n \in N /\ NoContent \in N /\ "not_requested" \in RenderStatus
  BY Numbers DEF NoContent, RenderStatus
<1>2. VersionType =
         [status : ReportStatus \cup {"absent"}, content : N, immutable : BOOLEAN,
          visible : BOOLEAN, createdBy : Users \cup {None}, approvedBy : Users \cup {None},
          clientBy : Clients \cup {None}, render : RenderStatus, exports : N]
  BY DEF VersionType
<1> HIDE DEF N
<1> QED BY <1>1, <1>2 DEF Edited, SameReview

\* A transition writes status, approvals and the mark of publication, nothing else.
LEMMA TransitionedRow ==
    ASSUME NEW r \in VersionType, NEW u \in Users, NEW q \in UserRequest
    PROVE  LET s == Transitioned(r, u, q) IN
           /\ s \in VersionType /\ s.content = r.content /\ SameExports(s, r)
           /\ s.status = q.to /\ s.immutable = (q.immutable \/ q.to = "published")
           /\ s.createdBy = r.createdBy /\ s.clientBy = r.clientBy
           /\ s.approvedBy = IF q.to \in {"qa_approved", "approved", "published"}
                             THEN u ELSE q.approvedBy
BY DEF Transitioned, VersionType, UserRequest, SameExports

\* The client's approval writes status and client, nothing else.
LEMMA ApprovedRow ==
    ASSUME NEW r \in VersionType, NEW c \in Clients
    PROVE  LET s == [r EXCEPT !.status = "approved", !.clientBy = c] IN
           /\ s \in VersionType /\ s.content = r.content /\ SameExports(s, r)
           /\ s.status = "approved" /\ s.clientBy = c /\ s.immutable = r.immutable
           /\ s.createdBy = r.createdBy /\ s.approvedBy = r.approvedBy
BY Statuses DEF VersionType, SameExports

\* A version that is superseded keeps all but its status.
LEMMA SupersededRow ==
    ASSUME NEW r \in VersionType
    PROVE  LET s == [r EXCEPT !.status = "superseded"] IN
           /\ s \in VersionType /\ s.content = r.content /\ SameExports(s, r)
           /\ s.status = "superseded" /\ s.immutable = r.immutable
           /\ s.createdBy = r.createdBy /\ s.approvedBy = r.approvedBy
           /\ s.clientBy = r.clientBy
BY Statuses DEF VersionType, SameExports

\* Visibility concerns neither review nor exports.
LEMMA VisibleRow ==
    ASSUME NEW r \in VersionType, NEW b \in BOOLEAN
    PROVE  LET s == [r EXCEPT !.visible = b] IN
           /\ s \in VersionType /\ s.content = r.content
           /\ SameReview(s, r) /\ SameExports(s, r)
BY DEF VersionType, SameExports, SameReview

\* The state of rendering concerns neither content nor review.
LEMMA RenderedRow ==
    ASSUME NEW r \in VersionType, NEW k \in RenderStatus
    PROVE  LET s == [r EXCEPT !.render = k] IN
           /\ s \in VersionType /\ s.content = r.content /\ SameReview(s, r)
           /\ s.render = k /\ s.exports = r.exports
BY DEF VersionType, SameReview

\* Exports that are written concern neither content nor review.
LEMMA ExportedRow ==
    ASSUME NEW r \in VersionType, NEW n \in 0..MaxContent
    PROVE  LET s == [r EXCEPT !.render = "completed", !.exports = n] IN
           /\ s \in VersionType /\ s.content = r.content /\ SameReview(s, r)
           /\ s.render = "completed" /\ s.exports = n
BY DEF VersionType, SameReview, RenderStatus

\* What exists goes on existing.
StillWritten ==
    \A w \in VersionNo : Written(w) => report'.status # "absent" /\ w <= report'.current

\* A step that rewrites one existing row, and perhaps the status of the report.
LEMMA RowsKept ==
    ASSUME RowsInv, NEW v \in VersionNo, Written(v), NEW row \in VersionType,
           row.content # NoContent, row.status # "absent", Changes(v, row),
           report' \in ReportType,
           report'.current = report.current, report'.status # "absent",
           contents' \in 0..MaxContent
    PROVE  RowsInv' /\ StillWritten
BY DEF RowsInv, RowsTyped, Written, Changes, StillWritten

\* A version that is not there has no status, and one whose report is there has a content.
LEMMA CurrentIsWritten ==
    ASSUME RowsInv,
           Current.status # "absent" \/ Current.immutable \/ report.status # "absent"
    PROVE  /\ report.current \in VersionNo /\ Written(report.current)
           /\ Current \in VersionType /\ Current.content # NoContent
           /\ Current.status # "absent"
<1>1. report.current \in VersionNo /\ report \in ReportType /\ Current \in VersionType
  BY DEF RowsInv, RowsTyped, ReportType, Current
<1>2. report.status # "absent" => Written(report.current)
  BY <1>1, Numbers DEF Written
<1>3. ~Written(report.current) => Current = NoVersion
  BY <1>1 DEF RowsInv, Current
<1>4. Written(report.current)
  BY <1>2, <1>3, EmptyRows
<1> QED BY <1>1, <1>4 DEF RowsInv, Current

\* createReport.
LEMMA CreateEffect ==
    ASSUME RowsInv, NEW u \in Users, CreateReport(u)
    PROVE  /\ RowsInv' /\ StillWritten /\ report.status = "absent"
           /\ Changes(1, NewVersion(u, contents + 1))
           /\ report' = [status |-> "draft", current |-> 1]
<1> DEFINE row == NewVersion(u, contents + 1)
<1>1. /\ contents + 1 \in 0..MaxContent /\ contents' = contents + 1 /\ contents + 1 # 0
  BY Numbers DEF CreateReport, FreshContent, RowsInv, RowsTyped
<1>2. row \in VersionType /\ row.content = contents + 1 /\ row.status = "draft"
  BY <1>1, EmptyRows
<1>3. versions' = [versions EXCEPT ![1] = row]
  BY <1>1 DEF CreateReport
<1> HIDE DEF row
<1>4. Changes(1, row)
  BY <1>2, <1>3, Numbers, RowChanges DEF RowsInv
<1>5. /\ report.status = "absent" /\ report' = [status |-> "draft", current |-> 1]
  BY DEF CreateReport
<1>6. report' \in ReportType /\ report'.status # "absent" /\ report'.current = 1
  BY <1>5, Numbers, Statuses DEF ReportType
<1>7. \A w \in VersionNo : w <= 1 <=> w = 1
  BY Numbers
<1>8. \A w \in VersionNo : ~Written(w) /\ versions[w] = NoVersion
  BY <1>5 DEF RowsInv, Written
<1>9. RowsInv'
  BY <1>1, <1>2, <1>4, <1>6, <1>7, <1>8 DEF RowsInv, RowsTyped, Changes, Written, NoContent
<1> QED BY <1>4, <1>5, <1>8, <1>9 DEF StillWritten, row

\* saveReportDraft and refreshReportFindings.
LEMMA SaveEffect ==
    ASSUME RowsInv, SaveDraft
    PROVE  /\ RowsInv' /\ StillWritten /\ report' = report /\ Written(report.current)
           /\ report.current \in VersionNo
           /\ Changes(report.current, Edited(Current, contents + 1))
<1> DEFINE v == report.current
           row == Edited(Current, contents + 1)
<1>1. /\ contents + 1 \in 0..MaxContent /\ contents' = contents + 1 /\ contents + 1 # 0
  BY Numbers DEF SaveDraft, FreshContent, RowsInv, RowsTyped
<1>2. /\ v \in VersionNo /\ Written(v) /\ Current \in VersionType
      /\ Current.status # "absent"
  BY CurrentIsWritten DEF SaveDraft, MayEdit
<1>3. row \in VersionType /\ row.content = contents + 1 /\ row.status # "absent"
  BY <1>1, <1>2, EditedRow DEF SameReview
<1>4. versions' = [versions EXCEPT ![v] = row] /\ report' = report
  BY <1>1 DEF SaveDraft, Current
<1> HIDE DEF row, v
<1>5. Changes(v, row)
  BY <1>2, <1>3, <1>4, RowChanges DEF RowsInv
<1>6. RowsInv' /\ StillWritten
  <2>1. report \in ReportType /\ report.status # "absent"
    BY <1>2 DEF RowsInv, RowsTyped, Written
  <2> QED BY <1>1, <1>2, <1>3, <1>4, <1>5, <2>1, RowsKept DEF NoContent
<1> QED BY <1>2, <1>4, <1>5, <1>6 DEF row, v

\* The second step of createReportRevision: the version it has read is still the current
\* one, because the next number is free.
LEMMA ReviseEffect ==
    ASSUME RowsInv, RequestsInv, NEW u \in Users, CommitRevision(u)
    PROVE  /\ RowsInv' /\ StillWritten /\ Written(report.current)
           /\ request[u] \in ReviseRequest /\ request[u].version = report.current
           /\ report.current \in VersionNo /\ report.current + 1 \in VersionNo
           /\ ~Written(report.current + 1)
           /\ report' = [status |-> "draft", current |-> report.current + 1]
           /\ versions'[report.current] = [Current EXCEPT !.status = "superseded"]
           /\ versions'[report.current + 1] = NewVersion(u, contents + 1)
           /\ \A w \in VersionNo : w \notin {report.current, report.current + 1} =>
                  versions'[w] = versions[w]
<1> DEFINE v == report.current
           old == [Current EXCEPT !.status = "superseded"]
           new == NewVersion(u, contents + 1)
           r == request[u].version
<1>1. /\ contents + 1 \in 0..MaxContent /\ contents' = contents + 1 /\ contents + 1 # 0
  BY Numbers DEF CommitRevision, FreshContent, RowsInv, RowsTyped
<1>2. request[u] \in ReviseRequest /\ Written(r) /\ r \in VersionNo /\ r + 1 \in VersionNo
  <2>1. request[u] # NoRequest /\ request[u].to = "revision"
    BY DEF CommitRevision, NoRequest, None
  <2>2. request[u] \in ReviseRequest /\ Written(r)
    BY <2>1, Statuses DEF RequestsInv, UserRequest
  <2> QED BY <2>2, Numbers DEF ReviseRequest
<1>3. v = r /\ v + 1 \in VersionNo /\ v + 1 # v /\ ~Written(v + 1) /\ v \in VersionNo
  <2>1. v \in VersionNo /\ ~Written(r + 1)
    BY <1>2 DEF CommitRevision, RowsInv, RowsTyped, ReportType
  <2>2. r <= v /\ ~(r + 1 <= v)
    BY <1>2, <2>1 DEF Written
  <2> QED BY <1>2, <2>1, <2>2, Numbers
<1>13. Written(v) /\ Current \in VersionType /\ Current.content # NoContent
  BY <1>2, <1>3 DEF Current, RowsInv, RowsTyped
<1>4. /\ old \in VersionType /\ old.content # NoContent
      /\ new \in VersionType /\ new.content = contents + 1
      /\ old.status # "absent" /\ new.status # "absent"
  BY <1>1, <1>13, EmptyRows, SupersededRow
<1>5. /\ versions' = [versions EXCEPT ![v].status = "superseded", ![v + 1] = new]
      /\ report' = [status |-> "draft", current |-> v + 1]
  BY <1>1, <1>3 DEF CommitRevision
<1>6. versions \in [VersionNo -> VersionType]
  BY DEF RowsInv, RowsTyped
<1>7. /\ versions'[v] = old /\ versions'[v + 1] = new
      /\ \A w \in VersionNo : w \notin {v, v + 1} => versions'[w] = versions[w]
      /\ DOMAIN versions' = VersionNo /\ versions' = [w \in VersionNo |-> versions'[w]]
  <2> HIDE DEF new
  <2> QED BY <1>3, <1>5, <1>6 DEF Current
<1> HIDE DEF old, new
<1>8. versions' \in [VersionNo -> VersionType]
  BY <1>4, <1>6, <1>7
<1>9. report' \in ReportType /\ report'.status # "absent" /\ report'.current = v + 1
  BY <1>3, <1>5, Statuses DEF ReportType
<1>10. ASSUME NEW w \in VersionNo
       PROVE  w <= v + 1 <=> w <= v \/ w = v + 1
  BY <1>3, Numbers
<1>11. report.status # "absent"
  BY <1>13 DEF Written
<1>12. RowsInv'
  <2>1. RowsTyped'
    BY <1>1, <1>8, <1>9 DEF RowsTyped
  <2>2. ASSUME NEW w \in VersionNo
        PROVE  /\ w <= v + 1 => versions'[w].content # NoContent /\ versions'[w].status # "absent"
               /\ ~(w <= v + 1) => versions'[w] = NoVersion
    <3>1. CASE w = v
      BY <1>4, <1>7, <1>10, <3>1, Numbers
    <3>2. CASE w = v + 1
      BY <1>1, <1>4, <1>7, <1>10, <3>2 DEF NoContent
    <3>3. CASE w \notin {v, v + 1}
      BY <1>7, <1>10, <1>11, <3>3 DEF RowsInv, Written, v
    <3> QED BY <3>1, <3>2, <3>3
  <2> QED BY <1>9, <2>1, <2>2 DEF RowsInv, Written
<1>14. StillWritten
  BY <1>9, <1>10 DEF StillWritten, Written
<1> QED BY <1>2, <1>3, <1>5, <1>7, <1>12, <1>13, <1>14 DEF old, new

\* The second step of transitionReport.
LEMMA TransitionEffect ==
    ASSUME RowsInv, RequestsInv, NEW u \in Users, CommitTransition(u)
    PROVE  LET q == request[u] IN
           /\ RowsInv' /\ StillWritten
           /\ q \in UserRequest /\ Written(q.version) /\ report.status = q.from
           /\ report' = [report EXCEPT !.status = q.to]
           /\ Changes(q.version, Transitioned(versions[q.version], u, q))
<1> DEFINE q == request[u]
           row == Transitioned(versions[q.version], u, q)
<1>1. /\ q \in UserRequest /\ Written(q.version) /\ q # NoRequest
      /\ q.version \in VersionNo /\ q.to \in ReportStatus
  <2>1. q.to \in ReportStatus /\ q # NoRequest /\ q \notin ReviseRequest
    BY Statuses DEF CommitTransition, NoRequest, ReviseRequest
  <2>2. q \in UserRequest /\ Written(q.version)
    BY <2>1 DEF RequestsInv
  <2> QED BY <2>1, <2>2 DEF UserRequest
<1>2. /\ report.status = q.from /\ report' = [report EXCEPT !.status = q.to]
      /\ versions' = [versions EXCEPT ![q.version] = row] /\ contents' = contents
  BY DEF CommitTransition, StillAsRead
<1>3. versions[q.version] \in VersionType /\ versions[q.version].content # NoContent
  BY <1>1 DEF RowsInv, RowsTyped
<1>4. row \in VersionType /\ row.content # NoContent /\ row.status # "absent"
  BY <1>1, <1>3, TransitionedRow, Statuses
<1> HIDE DEF q, row
<1>5. Changes(q.version, row)
  BY <1>1, <1>2, <1>4, RowChanges DEF RowsInv
<1>6. /\ report' \in ReportType /\ report'.current = report.current
      /\ report'.status # "absent" /\ contents' \in 0..MaxContent
  BY <1>1, <1>2, Statuses DEF RowsInv, RowsTyped, ReportType
<1>7. RowsInv' /\ StillWritten
  BY <1>1, <1>4, <1>5, <1>6, RowsKept
<1> QED BY <1>1, <1>2, <1>5, <1>7 DEF q, row

\* The second step of approvePortalReport.
LEMMA ApprovalEffect ==
    ASSUME RowsInv, RequestsInv, NEW c \in Clients, CommitApproval(c)
    PROVE  LET v == request[c].version IN
           /\ RowsInv' /\ StillWritten /\ v \in VersionNo /\ Written(v)
           /\ report' = [report EXCEPT !.status = "approved"]
           /\ Changes(v, [versions[v] EXCEPT !.status = "approved", !.clientBy = c])
<1> DEFINE v == request[c].version
           row == [versions[v] EXCEPT !.status = "approved", !.clientBy = c]
<1>1. v \in VersionNo /\ Written(v)
  BY DEF CommitApproval, RequestsInv, ClientRequest
<1>2. versions[v] \in VersionType /\ versions[v].content # NoContent
  BY <1>1 DEF RowsInv, RowsTyped
<1>3. row \in VersionType /\ row.content # NoContent /\ row.status # "absent"
  BY <1>2, ApprovedRow
<1>4. /\ report' = [report EXCEPT !.status = "approved"] /\ contents' = contents
      /\ versions' = [versions EXCEPT ![v].status = "approved", ![v].clientBy = c]
  BY DEF CommitApproval
<1>5. versions' = [versions EXCEPT ![v] = row]
  BY <1>1, <1>4 DEF RowsInv, RowsTyped
<1> HIDE DEF v, row
<1>6. Changes(v, row)
  BY <1>1, <1>3, <1>5, RowChanges DEF RowsInv
<1>7. /\ report' \in ReportType /\ report'.current = report.current
      /\ report'.status # "absent" /\ contents' \in 0..MaxContent
  BY <1>4, Statuses DEF RowsInv, RowsTyped, ReportType
<1>8. RowsInv' /\ StillWritten
  BY <1>1, <1>3, <1>6, <1>7, RowsKept
<1> QED BY <1>1, <1>4, <1>6, <1>8 DEF v, row

\* Steps that leave the report alone, and of one version the content.
LEMMA RowEffect ==
    ASSUME RowsInv, NEW v \in VersionNo, Written(v), NEW row \in VersionType,
           row.content = versions[v].content, SameReview(row, versions[v]),
           versions' = [versions EXCEPT ![v] = row], UNCHANGED <<report, contents>>
    PROVE  RowsInv' /\ StillWritten /\ Changes(v, row)
<1>1. Changes(v, row)
  BY RowChanges DEF RowsInv
<1>2. row.content # NoContent /\ row.status # "absent" /\ report.status # "absent"
  BY DEF RowsInv, Written, SameReview
<1>3. report' \in ReportType /\ contents' \in 0..MaxContent
  BY DEF RowsInv, RowsTyped
<1> QED BY <1>1, <1>2, <1>3, RowsKept

\* setReportPortalVisibility.
LEMMA VisibilityEffect ==
    ASSUME RowsInv, NEW v \in VersionNo, NEW b \in BOOLEAN, SetVisibility(v, b)
    PROVE  /\ RowsInv' /\ StillWritten /\ Written(v)
           /\ Changes(v, [versions[v] EXCEPT !.visible = b])
<1> DEFINE row == [versions[v] EXCEPT !.visible = b]
<1>1. versions[v] \in VersionType /\ versions \in [VersionNo -> VersionType]
  BY DEF RowsInv, RowsTyped
<1>2. /\ row \in VersionType /\ row.content = versions[v].content
      /\ SameReview(row, versions[v])
  BY <1>1, VisibleRow
<1>3. Written(v)
  BY EmptyRows DEF SetVisibility, RowsInv
<1>4. versions' = [versions EXCEPT ![v] = row] /\ UNCHANGED <<report, contents>>
  BY <1>1 DEF SetVisibility
<1> HIDE DEF row
<1> QED BY <1>2, <1>3, <1>4, RowEffect DEF row

\* queueReportGeneration.
LEMMA QueueEffect ==
    ASSUME RowsInv, NEW j \in Jobs, QueueGeneration(j)
    PROVE  /\ RowsInv' /\ StillWritten /\ Written(report.current)
           /\ report.current \in VersionNo
           /\ Changes(report.current, [Current EXCEPT !.render = "queued"])
<1> DEFINE v == report.current
           row == [Current EXCEPT !.render = "queued"]
<1>1. v \in VersionNo /\ Written(v) /\ Current \in VersionType
  BY CurrentIsWritten DEF QueueGeneration
<1>2. row \in VersionType /\ row.content = Current.content /\ SameReview(row, Current)
  BY <1>1, RenderedRow DEF RenderStatus
<1>3. versions' = [versions EXCEPT ![v] = row] /\ UNCHANGED <<report, contents>>
  BY <1>1 DEF QueueGeneration, Current, RowsInv, RowsTyped
<1>4. Current = versions[v]
  BY DEF Current
<1> HIDE DEF row, v
<1> QED BY <1>1, <1>2, <1>3, <1>4, RowEffect DEF row, v

\* The statements by which generateReportJob writes its version.
RenderedAs(v, row) ==
    \/ \E k \in {"running", "failed"} : row = [versions[v] EXCEPT !.render = k]
    \/ \E n \in 0..MaxContent :
          row = [versions[v] EXCEPT !.render = "completed", !.exports = n]

\* What a render writes keeps the rows in order.
LEMMA RenderEffect ==
    ASSUME RowsInv, NEW v \in VersionNo, Written(v), NEW row, RenderedAs(v, row),
           SetVersion(v, row)
    PROVE  RowsInv' /\ StillWritten /\ Changes(v, row)
<1>1. versions[v] \in VersionType
  BY DEF RowsInv, RowsTyped
<1>2. /\ row \in VersionType /\ row.content = versions[v].content
      /\ SameReview(row, versions[v])
  <2>1. ASSUME NEW k \in {"running", "failed"}, row = [versions[v] EXCEPT !.render = k]
        PROVE  /\ row \in VersionType /\ row.content = versions[v].content
               /\ SameReview(row, versions[v])
    <3>1. k \in RenderStatus
      BY DEF RenderStatus
    <3> QED BY <1>1, <2>1, <3>1, RenderedRow
  <2>2. ASSUME NEW n \in 0..MaxContent,
               row = [versions[v] EXCEPT !.render = "completed", !.exports = n]
        PROVE  /\ row \in VersionType /\ row.content = versions[v].content
               /\ SameReview(row, versions[v])
    BY <1>1, <2>2, ExportedRow
  <2> QED BY <2>1, <2>2 DEF RenderedAs
<1>3. versions' = [versions EXCEPT ![v] = row] /\ UNCHANGED <<report, contents>>
  BY DEF SetVersion
<1> QED BY <1>2, <1>3, RowEffect

-----------------------------------------------------------------------------
(***************************************************************************)
(* The queue, requests and renders.                                        *)
(***************************************************************************)

\* Services use the queue as its contract allows.
LEMMA NextIsContract == Next => [ContractNext]_jobVars
<1>1. ASSUME NEW p \in People, Commit(p) PROVE UNCHANGED jobVars
  BY <1>1 DEF Commit, CommitTransition, CommitRevision, CommitApproval, Abort
<1>2. ASSUME PersonStep PROVE ContractNext \/ UNCHANGED jobVars
  <2>1. ASSUME NEW j \in Jobs, QueueGeneration(j) PROVE ContractNext
    BY <2>1 DEF QueueGeneration, ContractNext
  <2> QED BY <1>2, <2>1 DEF PersonStep, CreateReport, SaveDraft, ReadForTransition,
             ReadForRevision, ReadForApproval, SetVisibility
<1>3. ASSUME SystemStep PROVE ContractNext \/ UNCHANGED jobVars
  <2>1. ASSUME NEW h \in hands, RenderStep(h) PROVE ContractNext
    BY <2>1 DEF RenderStep, RenderBegin, RenderDone, RenderFail, RenderThrows, ContractNext
  <2>2. ASSUME QueueStep PROVE ContractNext
    BY <2>2 DEF QueueStep, ContractNext
  <2>3. ASSUME WorkerDies PROVE ContractNext
    BY <2>3 DEF WorkerDies, ContractNext
  <2> QED BY <1>3, <2>1, <2>2, <2>3 DEF SystemStep, RenderMark, ArchiveEngagement, ApplyRetention
<1> QED BY <1>1, <1>2, <1>3 DEF Next

\* A hand holds a job that is in the queue.
LEMMA HandsAreOfJobs ==
    ASSUME ContractInv, NEW h \in hands
    PROVE  h.job \in Jobs /\ h.attempt \in 1..MaxAttempts /\ status[h.job] # "absent"
<1>1. h.job \in Jobs /\ h.attempt \in 1..MaxAttempts /\ h.attempt <= attempts[h.job]
  BY DEF ContractInv, ContractTypeOK
<1>2. status[h.job] = "absent" => attempts[h.job] = 0
  BY <1>1 DEF ContractInv
<1> QED BY <1>1, <1>2

\* Apart from an insertion no step brings a job into the queue, and none removes one.
SameJobs == \A j \in Jobs : status'[j] = "absent" <=> status[j] = "absent"

\* The queue makes no job, and forgets none.
LEMMA QueueKeepsJobs == ASSUME ContractInv, QueueStep PROVE SameJobs
<1>1. ASSUME NEW S \in SUBSET Jobs, Claim(S) \/ GiveUp(S) PROVE SameJobs
  BY <1>1 DEF Claim, GiveUp, SameJobs
<1>2. ASSUME NEW h \in hands, Complete(h) \/ Fail(h) \/ CompleteThrows(h) PROVE SameJobs
  <2>1. status \in [Jobs -> {"absent", "waiting", "running", "completed", "dead_letter"}]
    BY DEF ContractInv, ContractTypeOK
  <2> QED BY <1>2, <2>1 DEF Complete, Fail, CompleteThrows, SettleNewest, Newest, SameJobs
<1> QED BY <1>1, <1>2 DEF QueueStep

\* A request is committed or given up, or none changes.
LEMMA RequestsKept ==
    ASSUME RequestsInv, StillWritten,
           request' = request \/ \E p \in People : request' = [request EXCEPT ![p] = NoRequest]
    PROVE  RequestsInv'
<1>1. request' \in [People -> {NoRequest} \cup UserRequest \cup ReviseRequest
                                 \cup ClientRequest]
  BY DEF RequestsInv
<1>2. \A p \in People : request'[p] = request[p] \/ request'[p] = NoRequest
  BY DEF RequestsInv
<1>3. \A q \in UserRequest \cup ReviseRequest \cup ClientRequest : q.version \in VersionNo
  BY DEF UserRequest, ReviseRequest, ClientRequest
<1> QED BY <1>1, <1>2, <1>3, PeopleAssumption DEF RequestsInv, StillWritten, People, Written

\* No job is inserted, and handlers at most come to an end or mark their version.
LEMMA WorkKept ==
    ASSUME WorkInv, StillWritten, SameJobs, target' = target, renders' \subseteq RenderType,
           \A x \in renders' : status[x.job] # "absent"
    PROVE  WorkInv'
BY DEF WorkInv, SameJobs, StillWritten, RenderType, Written

\* The statuses of the report's rows survive a step that leaves them alone.
LEMMA RowsStay ==
    ASSUME RowsInv, UNCHANGED <<report, versions, contents>> PROVE RowsInv' /\ StillWritten
BY DEF RowsInv, RowsTyped, StillWritten, Written

\* A handler's step on its version.
LEMMA HandlerEffect ==
    ASSUME ReportInv, NEW x \in renders, NEW row, RenderedAs(target[x.job], row),
           SetVersion(target[x.job], row)
    PROVE  /\ RowsInv' /\ StillWritten /\ x.job \in Jobs /\ target[x.job] \in VersionNo
           /\ Written(target[x.job]) /\ Changes(target[x.job], row)
<1>1. x.job \in Jobs /\ target[x.job] \in VersionNo /\ Written(target[x.job])
  BY DEF ReportInv, WorkInv, RenderType
<1> DEFINE v == target[x.job]
<1>2. RowsInv /\ v \in VersionNo /\ Written(v) /\ RenderedAs(v, row) /\ SetVersion(v, row)
  BY <1>1 DEF ReportInv
<1> HIDE DEF v
<1>3. RowsInv' /\ StillWritten /\ Changes(v, row)
  BY <1>2, RenderEffect
<1> QED BY <1>1, <1>3 DEF v

\* What the steps of a handler at work write.
Rendering(x, row) ==
    /\ SetVersion(target[x.job], row) /\ RenderedAs(target[x.job], row)
    /\ UNCHANGED <<request, writable, target>>

\* A render that marks its version writes no more than that.
LEMMA MarkWrites ==
    ASSUME NEW x \in renders, RenderMark(x)
    PROVE  /\ Rendering(x, [versions[target[x.job]] EXCEPT !.render = "running"])
           /\ renders' = (renders \ {x}) \cup {[x EXCEPT !.marked = TRUE]}
           /\ UNCHANGED jobVars
BY DEF RenderMark, Rendering, RenderedAs

\* A render that is done writes what it read when it began.
LEMMA DoneWrites ==
    ASSUME ReportInv, NEW h \in hands, RenderDone(h)
    PROVE  \E x \in ForJob(h) :
              /\ Rendering(x, [versions[target[x.job]] EXCEPT !.render = "completed",
                                                              !.exports = x.content])
              /\ x.marked /\ renders' = renders \ {x} /\ HandlerReturns(h)
<1>1. PICK x \in ForJob(h) :
         /\ x.marked /\ renders' = renders \ {x} /\ HandlerReturns(h)
         /\ SetVersion(target[h.job], [versions[target[h.job]] EXCEPT !.render = "completed",
                                                                    !.exports = x.content])
         /\ UNCHANGED <<request, writable, target>>
  BY DEF RenderDone
<1>2. x.job = h.job /\ x.content \in 0..MaxContent
  BY Numbers DEF ForJob, ReportInv, WorkInv, RenderType
<1> QED BY <1>1, <1>2 DEF Rendering, RenderedAs

\* A render that fails writes no exports.
LEMMA FailWrites ==
    ASSUME ReportInv, NEW h \in hands, RenderFail(h)
    PROVE  \E x \in ForJob(h) :
              /\ Rendering(x, [versions[target[x.job]] EXCEPT !.render = "failed"])
              /\ x.marked /\ renders' = renders \ {x} /\ HandlerThrows(h)
<1>1. PICK x \in ForJob(h) :
         /\ x.marked /\ renders' = renders \ {x} /\ HandlerThrows(h)
         /\ SetVersion(target[h.job], [versions[target[h.job]] EXCEPT !.render = "failed"])
         /\ UNCHANGED <<request, writable, target>>
  BY DEF RenderFail
<1>2. x.job = h.job
  BY DEF ForJob
<1> QED BY <1>1, <1>2 DEF Rendering, RenderedAs

\* Every step of the report, its people and its jobs keeps the invariant.
LEMMA ReportKeeps == ASSUME ReportInv, [Next]_vars PROVE ReportInv'
<1>1. ContractInv'
  <2>1. [ContractNext]_jobVars
    BY NextIsContract DEF vars
  <2> QED BY <2>1, Numbers, ContractKeeps DEF ReportInv
<1>2. SUFFICES RowsInv' /\ RequestsInv' /\ WorkInv' /\ HistoryTyped'
  BY <1>1 DEF ReportInv
<1>3. ContractInv /\ RowsInv /\ RequestsInv /\ WorkInv /\ HistoryTyped
  BY DEF ReportInv
<1>4. ASSUME RowsInv', StillWritten, UNCHANGED <<target, status>>, renders' \subseteq renders
      PROVE  WorkInv'
  <2>1. SameJobs
    BY <1>4 DEF SameJobs
  <2> QED BY <1>3, <1>4, <2>1, WorkKept DEF WorkInv
<1>5. ASSUME SaveDraft \/ \E u \in Users : CreateReport(u)
      PROVE  RowsInv' /\ RequestsInv' /\ WorkInv' /\ HistoryTyped'
  <2>1. RowsInv' /\ StillWritten
    BY <1>3, <1>5, CreateEffect, SaveEffect
  <2>2. UNCHANGED <<request, writable, renderVars, jobVars, qa, final, late>>
    BY <1>5 DEF CreateReport, SaveDraft
  <2> QED BY <1>3, <1>4, <2>1, <2>2, RequestsKept DEF HistoryTyped, renderVars, jobVars
<1>6. ASSUME NEW p \in People, Commit(p)
      PROVE  RowsInv' /\ RequestsInv' /\ WorkInv' /\ HistoryTyped'
  <2>1. CASE p \in Users /\ CommitTransition(p)
    <3>1. RowsInv' /\ StillWritten /\ request[p] \in UserRequest
      BY <1>3, <2>1, TransitionEffect
    <3>2. /\ request' = [request EXCEPT ![p] = NoRequest]
          /\ UNCHANGED <<contents, late, writable, renderVars, jobVars>>
      BY <2>1 DEF CommitTransition
    <3>3. HistoryTyped'
      <4>1. request[p].version \in VersionNo
        BY <3>1 DEF UserRequest
      <4>2. versions[request[p].version].content \in 0..MaxContent
        BY <1>3, <4>1 DEF RowsInv, RowsTyped, VersionType
      <4>3. /\ qa' = qa \/ qa' = [qa EXCEPT ![request[p].version] =
                     [by |-> p, content |-> versions[request[p].version].content]]
            /\ final' = final \/ final' = [final EXCEPT ![request[p].version] = p]
        BY <2>1 DEF CommitTransition
      <4> QED BY <1>3, <2>1, <3>2, <4>1, <4>2, <4>3 DEF HistoryTyped
    <3> QED BY <1>3, <1>4, <3>1, <3>2, <3>3, RequestsKept DEF renderVars, jobVars
  <2>2. CASE Abort(p)
    <3>1. /\ request' = [request EXCEPT ![p] = NoRequest]
          /\ UNCHANGED <<reportVars, writable, renderVars, jobVars>>
      BY <2>2 DEF Abort
    <3>2. RowsInv' /\ StillWritten
      BY <1>3, <3>1, RowsStay DEF reportVars
    <3> QED BY <1>3, <1>4, <3>1, <3>2, RequestsKept DEF HistoryTyped, renderVars, jobVars, reportVars
  <2>3. CASE p \in Clients /\ CommitApproval(p)
    <3>1. RowsInv' /\ StillWritten
      BY <1>3, <2>3, ApprovalEffect
    <3>2. /\ request' = [request EXCEPT ![p] = NoRequest]
          /\ final' = [final EXCEPT ![request[p].version] = p]
          /\ late' \in BOOLEAN /\ UNCHANGED <<contents, qa, writable, renderVars, jobVars>>
      BY <2>3 DEF CommitApproval
    <3> QED BY <1>3, <1>4, <3>1, <3>2, RequestsKept DEF HistoryTyped, renderVars, jobVars
  <2>4. CASE p \in Users /\ CommitRevision(p)
    <3>1. RowsInv' /\ StillWritten
      BY <1>3, <2>4, ReviseEffect
    <3>2. /\ request' = [request EXCEPT ![p] = NoRequest]
          /\ UNCHANGED <<writable, renderVars, jobVars, qa, final, late>>
      BY <2>4 DEF CommitRevision
    <3> QED BY <1>3, <1>4, <3>1, <3>2, RequestsKept DEF HistoryTyped, renderVars, jobVars
  <2> QED BY <1>6, <2>1, <2>2, <2>3, <2>4 DEF Commit
<1>7. ASSUME NEW u \in Users, NEW to \in ReportStatus, ReadForTransition(u, to)
      PROVE  RowsInv' /\ RequestsInv' /\ WorkInv' /\ HistoryTyped'
  <2> DEFINE q == [to |-> to, from |-> report.status, version |-> report.current,
                   immutable |-> Current.immutable, approvedBy |-> Current.approvedBy]
  <2>1. /\ request' = [request EXCEPT ![u] = q] /\ report.status # "absent"
        /\ UNCHANGED <<reportVars, writable, renderVars, jobVars>>
    BY <1>7 DEF ReadForTransition
  <2>2. /\ report.current \in VersionNo /\ Written(report.current)
        /\ Current \in VersionType /\ report.status \in ReportStatus
    BY <1>3, <2>1, CurrentIsWritten DEF RowsInv, RowsTyped, ReportType
  <2>3. q \in UserRequest /\ q.version = report.current
    BY <2>2 DEF UserRequest, VersionType
  <2> HIDE DEF q
  <2>4. RowsInv' /\ StillWritten
    BY <1>3, <2>1, RowsStay DEF reportVars
  <2>5. RequestsInv'
    BY <1>3, <2>1, <2>2, <2>3, PeopleAssumption DEF RequestsInv, People, Written, reportVars
  <2> QED BY <1>3, <1>4, <2>1, <2>4, <2>5 DEF HistoryTyped, renderVars, jobVars, reportVars
<1>23. ASSUME NEW u \in Users, ReadForRevision(u)
       PROVE  RowsInv' /\ RequestsInv' /\ WorkInv' /\ HistoryTyped'
  <2> DEFINE q == [to |-> "revision", version |-> report.current]
  <2>1. /\ request' = [request EXCEPT ![u] = q] /\ report.current < MaxVersion
        /\ Current.immutable \/ report.status # "absent"
        /\ UNCHANGED <<reportVars, writable, renderVars, jobVars>>
    BY <1>23 DEF ReadForRevision
  <2>2. report.current \in VersionNo /\ Written(report.current)
    BY <1>3, <2>1, CurrentIsWritten
  <2>3. q \in ReviseRequest /\ q.version = report.current
    BY <2>1, <2>2, Numbers DEF ReviseRequest
  <2> HIDE DEF q
  <2>4. RowsInv' /\ StillWritten
    BY <1>3, <2>1, RowsStay DEF reportVars
  <2>5. RequestsInv'
    BY <1>3, <2>1, <2>2, <2>3, PeopleAssumption DEF RequestsInv, People, Written, reportVars
  <2> QED BY <1>3, <1>4, <2>1, <2>4, <2>5 DEF HistoryTyped, renderVars, jobVars, reportVars
<1>8. ASSUME NEW c \in Clients, ReadForApproval(c)
      PROVE  RowsInv' /\ RequestsInv' /\ WorkInv' /\ HistoryTyped'
  <2> DEFINE q == [to |-> "approved", version |-> report.current]
  <2>1. /\ request' = [request EXCEPT ![c] = q] /\ report.status # "absent"
        /\ UNCHANGED <<reportVars, writable, renderVars, jobVars>>
    BY <1>8 DEF ReadForApproval
  <2>2. report.current \in VersionNo /\ Written(report.current)
    BY <1>3, <2>1, CurrentIsWritten
  <2>3. q \in ClientRequest /\ q.version = report.current
    BY <2>2 DEF ClientRequest
  <2> HIDE DEF q
  <2>4. RowsInv' /\ StillWritten
    BY <1>3, <2>1, RowsStay DEF reportVars
  <2>5. RequestsInv'
    BY <1>3, <2>1, <2>2, <2>3, PeopleAssumption DEF RequestsInv, People, Written, reportVars
  <2> QED BY <1>3, <1>4, <2>1, <2>4, <2>5 DEF HistoryTyped, renderVars, jobVars, reportVars
<1>9. ASSUME NEW v \in VersionNo, NEW b \in BOOLEAN, SetVisibility(v, b)
      PROVE  RowsInv' /\ RequestsInv' /\ WorkInv' /\ HistoryTyped'
  <2>1. RowsInv' /\ StillWritten
    BY <1>3, <1>9, VisibilityEffect
  <2>2. UNCHANGED <<report, contents, qa, final, late, request, writable, renderVars,
                    jobVars>>
    BY <1>9 DEF SetVisibility
  <2> QED BY <1>3, <1>4, <2>1, <2>2, RequestsKept DEF HistoryTyped, renderVars, jobVars
<1>10. ASSUME NEW j \in Jobs, QueueGeneration(j)
       PROVE  RowsInv' /\ RequestsInv' /\ WorkInv' /\ HistoryTyped'
  <2>1. RowsInv' /\ StillWritten /\ Written(report.current) /\ report.current \in VersionNo
    BY <1>3, <1>10, QueueEffect
  <2>2. /\ UNCHANGED <<report, contents, qa, final, late, request, writable, renders>>
        /\ target' = [target EXCEPT ![j] = report.current]
        /\ status' = [status EXCEPT ![j] = "waiting"]
    BY <1>3, <1>10, SubmitsOne DEF QueueGeneration, ContractInv
  <2>3. status \in [Jobs -> {"absent", "waiting", "running", "completed", "dead_letter"}]
    BY <1>3 DEF ContractInv, ContractTypeOK
  <2>4. WorkInv'
    BY <1>3, <2>1, <2>2, <2>3 DEF WorkInv, Written, RenderType
  <2> QED BY <1>3, <2>1, <2>2, <2>4, RequestsKept DEF HistoryTyped
<1>11. ASSUME NEW x \in renders, NEW row, Rendering(x, row), SameJobs,
              renders' \subseteq RenderType, \A y \in renders' : status[y.job] # "absent"
       PROVE  RowsInv' /\ RequestsInv' /\ WorkInv' /\ HistoryTyped'
  <2>1. RowsInv' /\ StillWritten
    BY <1>11, HandlerEffect DEF Rendering
  <2>2. UNCHANGED <<request, writable, target, qa, final, late>>
    BY <1>11 DEF Rendering, SetVersion
  <2> QED BY <1>3, <1>11, <2>1, <2>2, RequestsKept, WorkKept DEF HistoryTyped
<1>12. ASSUME NEW x \in renders, RenderMark(x)
       PROVE  RowsInv' /\ RequestsInv' /\ WorkInv' /\ HistoryTyped'
  <2> DEFINE y == [x EXCEPT !.marked = TRUE]
  <2>1. /\ Rendering(x, [versions[target[x.job]] EXCEPT !.render = "running"])
        /\ renders' = (renders \ {x}) \cup {y} /\ UNCHANGED jobVars
    BY <1>12, MarkWrites
  <2>2. y \in RenderType /\ y.job = x.job
    BY <1>3 DEF WorkInv, RenderType
  <2> HIDE DEF y
  <2>3. renders' \subseteq RenderType /\ \A z \in renders' : status[z.job] # "absent"
    BY <1>3, <2>1, <2>2 DEF WorkInv
  <2>4. SameJobs
    BY <2>1 DEF SameJobs, jobVars
  <2> QED BY <1>11, <2>1, <2>3, <2>4
<1>13. ASSUME NEW h \in hands, RenderDone(h) \/ RenderFail(h)
       PROVE  RowsInv' /\ RequestsInv' /\ WorkInv' /\ HistoryTyped'
  <2>1. PICK x \in renders :
           /\ \E row : Rendering(x, row)
           /\ renders' = renders \ {x} /\ UNCHANGED status
    BY <1>13, DoneWrites, FailWrites DEF ForJob, HandlerReturns, HandlerThrows
  <2>2. SameJobs
    BY <2>1 DEF SameJobs
  <2> QED BY <1>3, <1>11, <2>1, <2>2 DEF WorkInv
<1>14. ASSUME NEW h \in hands, RenderBegin(h)
       PROVE  RowsInv' /\ RequestsInv' /\ WorkInv' /\ HistoryTyped'
  <2> DEFINE x == [job |-> h.job, attempt |-> h.attempt,
                   content |-> versions[target[h.job]].content, marked |-> FALSE]
  <2>1. /\ renders' = renders \cup {x} /\ UNCHANGED status
        /\ UNCHANGED <<reportVars, request, writable, target>>
    BY <1>14 DEF RenderBegin, Begin
  <2>2. h.job \in Jobs /\ h.attempt \in 1..MaxAttempts /\ status[h.job] # "absent"
    BY <1>3, HandsAreOfJobs
  <2>3. /\ versions[target[h.job]].content # NoContent
        /\ versions[target[h.job]].content \in 0..MaxContent
    <3>1. target[h.job] \in VersionNo /\ Written(target[h.job])
      BY <1>3, <2>2 DEF WorkInv
    <3> QED BY <1>3, <3>1 DEF RowsInv, RowsTyped, VersionType
  <2>4. x \in RenderType /\ x.job = h.job
    BY <2>2, <2>3, Numbers DEF RenderType, NoContent
  <2> HIDE DEF x
  <2>5. RowsInv' /\ StillWritten /\ SameJobs
    BY <1>3, <2>1, RowsStay DEF reportVars, SameJobs
  <2>6. renders' \subseteq RenderType /\ \A z \in renders' : status[z.job] # "absent"
    BY <1>3, <2>1, <2>2, <2>4 DEF WorkInv
  <2>7. WorkInv'
    BY <1>3, <2>1, <2>5, <2>6, WorkKept
  <2> QED BY <1>3, <2>1, <2>5, <2>7, RequestsKept DEF HistoryTyped, reportVars
<1>15. ASSUME UNCHANGED <<reportVars, request, writable, target>>, renders' \subseteq renders,
              SameJobs
       PROVE  RowsInv' /\ RequestsInv' /\ WorkInv' /\ HistoryTyped'
  <2>1. RowsInv' /\ StillWritten
    BY <1>3, <1>15, RowsStay DEF reportVars
  <2> QED BY <1>3, <1>15, <2>1, RequestsKept, WorkKept DEF HistoryTyped, reportVars, WorkInv
<1>16. ASSUME NEW h \in hands, RenderThrows(h)
       PROVE  RowsInv' /\ RequestsInv' /\ WorkInv' /\ HistoryTyped'
  BY <1>15, <1>16 DEF RenderThrows, HandlerThrows, SameJobs
<1>17. ASSUME QueueStep PROVE RowsInv' /\ RequestsInv' /\ WorkInv' /\ HistoryTyped'
  BY <1>3, <1>15, <1>17, QueueKeepsJobs DEF QueueStep, renderVars
<1>18. ASSUME WorkerDies PROVE RowsInv' /\ RequestsInv' /\ WorkInv' /\ HistoryTyped'
  BY <1>15, <1>18 DEF WorkerDies, Lose, SameJobs
<1>19. ASSUME ArchiveEngagement \/ ApplyRetention
       PROVE  RowsInv' /\ RequestsInv' /\ WorkInv' /\ HistoryTyped'
  <2>1. /\ UNCHANGED <<versions, contents, qa, final, late, request, renderVars, jobVars>>
        /\ writable' = writable \/ writable' = FALSE
        /\ report' = report \/ (report.status # "absent"
                                /\ report' = [report EXCEPT !.status = "archived"])
    BY <1>19 DEF ArchiveEngagement, ApplyRetention, reportVars
  <2>3. writable' \in BOOLEAN /\ late' \in BOOLEAN
    BY <1>3, <2>1 DEF HistoryTyped
  <2>4. /\ report' \in ReportType /\ report'.current = report.current
        /\ report.status # "absent" <=> report'.status # "absent"
    BY <1>3, <2>1, Statuses DEF RowsInv, RowsTyped, ReportType
  <2>2. RowsInv' /\ StillWritten
    BY <1>3, <2>1, <2>4 DEF RowsInv, RowsTyped, StillWritten, Written
  <2> QED BY <1>3, <1>4, <2>1, <2>2, <2>3, RequestsKept DEF HistoryTyped, renderVars, jobVars
<1>20. CASE UNCHANGED vars
  BY <1>15, <1>20 DEF vars, renderVars, jobVars, SameJobs
<1>21. CASE PersonStep
  BY <1>5, <1>7, <1>8, <1>9, <1>10, <1>21, <1>23 DEF PersonStep
<1>22. CASE SystemStep
  BY <1>12, <1>13, <1>14, <1>16, <1>17, <1>18, <1>19, <1>22 DEF SystemStep, RenderStep
<1> QED BY <1>6, <1>20, <1>21, <1>22 DEF Next

\* The types follow from the invariant.
LEMMA ReportTypes == ReportInv => TypeOK
<1> SUFFICES ASSUME ReportInv PROVE TypeOK
  OBVIOUS
<1>1. \A p \in People : request[p] = NoRequest \/ request[p].version \in VersionNo
  BY DEF ReportInv, RequestsInv, People, UserRequest, ReviseRequest, ClientRequest
<1>2. /\ versions \in [VersionNo -> VersionType] /\ report \in ReportType
      /\ renders \subseteq RenderType /\ target \in [Jobs -> VersionNo]
      /\ contents \in 0..MaxContent
  BY DEF ReportInv, RowsInv, RowsTyped, WorkInv
<1> QED
  BY <1>1, <1>2
     DEF TypeOK, ReportInv, ContractInv, HistoryTyped, VersionType, ReportType, RenderType

\* The invariant holds of any members, contacts, versions, edits and jobs.
THEOREM ReportInvariant == Spec => [](ReportInv /\ TypeOK)
BY InitReport, ReportKeeps, ReportTypes, PTL DEF Spec

\* Reports work by the contract of the job queue, of which JobQueueProofs shows that the queue
\* keeps it: every step of theirs is one that the contract allows, or none of the queue's.
THEOREM RendersByContract == Spec => ContractSpec
<1>1. Init => ContractInit
  BY DEF Init
<1>2. [Next]_vars => [ContractNext]_jobVars
  BY NextIsContract DEF vars
<1> QED BY <1>1, <1>2, PTL DEF Spec, ContractSpec

-----------------------------------------------------------------------------
(***************************************************************************)
(* What holds when the requests of members come one at a time, those of    *)
(* portal contacts as they like, and retention does not run.               *)
(***************************************************************************)

MembersAlone == Slow \cap Users = {}

\* What a member has read and checked is what the current version still says.
AsRead(u) ==
    LET q == request[u] IN
    /\ q.version = report.current
    /\ q.to # "revision" =>
          /\ q.immutable = Current.immutable /\ q.approvedBy = Current.approvedBy
          /\ q.to \in Workflow[q.from]
          /\ Current.immutable => q.to \in LifecycleOnly
          /\ SeparateDuties(u, Current, q.to) /\ ExportsReady(Current, q.to)

AloneInv ==
    /\ \A u, w \in Users : request[u] # NoRequest /\ request[w] # NoRequest => u = w
    /\ \A u \in Users : request[u] # NoRequest => writable /\ AsRead(u)

\* What a version's row says of its review, and what the history says.  While the version
\* is under review by the client the approver is who gave QA approval: the final approver
\* is compared with that column.
Checked(v) == qa[v].by \notin {None, versions[v].createdBy}
Signed(v) == final[v] \notin {None, qa[v].by}
Reviewed(v) ==
    LET r == versions[v] IN
    /\ r.status \in {"qa_approved", "client_review", "approved", "published"} =>
          Checked(v) /\ qa[v].content = r.content
    /\ r.status \in {"qa_approved", "client_review"} => r.approvedBy = qa[v].by
    /\ r.status \in {"approved", "published"} => Signed(v)
    /\ r.immutable => /\ r.status \in {"published", "superseded", "archived"}
                      /\ Checked(v) /\ Signed(v)

Agreed == report.status = Current.status /\ \A v \in VersionNo : Reviewed(v)

ReviewInv == AloneInv /\ (late \/ Agreed)

\* When no member is slow none of their requests waits while others act.
LEMMA NobodyWaits ==
    ASSUME MembersAlone, Unhurried PROVE \A u \in Users : request[u] = NoRequest
BY DEF Unhurried, MembersAlone, People

\* Where no member's request waits none is overtaken.
LEMMA NobodyIsAlone ==
    ASSUME \A u \in Users : request'[u] = NoRequest PROVE AloneInv'
BY DEF AloneInv

\* The columns that transitionReport checks.
SameGuards(r, s) ==
    /\ r.immutable = s.immutable /\ r.approvedBy = s.approvedBy
    /\ r.createdBy = s.createdBy /\ r.render = s.render

\* A request that has been checked stands while these columns do.
LEMMA AsReadStays ==
    ASSUME AloneInv, writable' = writable, report'.current = report.current,
           SameGuards(Current', Current),
           \A u \in Users : request'[u] = request[u] \/ request'[u] = NoRequest
    PROVE  AloneInv'
<1>1. ASSUME NEW u \in Users, request'[u] # NoRequest PROVE writable' /\ AsRead(u)'
  <2>1. request'[u] = request[u] /\ AsRead(u) /\ writable
    BY <1>1 DEF AloneInv
  <2> QED BY <2>1 DEF AsRead, SameGuards, SeparateDuties, ExportsReady
<1> QED BY <1>1 DEF AloneInv

\* At first nothing is under review.
LEMMA InitReview == Init => ReviewInv
<1> SUFFICES ASSUME Init PROVE ReviewInv
  OBVIOUS
<1>1. AloneInv
  BY DEF Init, AloneInv, People
<1>2. \A v \in VersionNo : versions[v] = NoVersion
  BY DEF Init
<1>3. Current = NoVersion /\ report.status = "absent"
  BY Numbers DEF Init, Current
<1>4. \A v \in VersionNo : Reviewed(v)
  BY <1>2, EmptyRows DEF Reviewed
<1> QED BY <1>1, <1>3, <1>4, EmptyRows DEF ReviewInv, Agreed

\* Steps that no column of the review sees.
ReviewStands ==
    /\ UNCHANGED <<report, qa, final>>
    /\ \A v \in VersionNo :
          SameReview(versions'[v], versions[v]) /\ versions'[v].content = versions[v].content

\* Steps that leave every review as it stands keep the agreement of the rows.
LEMMA ReviewStays ==
    ASSUME RowsInv, Agreed, ReviewStands PROVE Agreed'
<1>1. report.current \in VersionNo
  BY DEF RowsInv, RowsTyped, ReportType
<1>2. report'.status = Current'.status
  BY <1>1 DEF Agreed, ReviewStands, Current, SameReview
<1>3. ASSUME NEW v \in VersionNo PROVE Reviewed(v)'
  BY DEF Agreed, ReviewStands, Reviewed, SameReview, Checked, Signed
<1> QED BY <1>2, <1>3 DEF Agreed

\* A version that is not frozen, and is not under review, promises nothing.
LEMMA FreshIsReviewed ==
    ASSUME NEW v, versions'[v].status \in {"absent", "draft", "internal_review",
                                          "changes_requested"},
           ~versions'[v].immutable
    PROVE  Reviewed(v)'
BY DEF Reviewed

\* A version that no step of the review touches.
LEMMA OtherIsReviewed ==
    ASSUME NEW v, Reviewed(v), versions'[v] = versions[v], qa'[v] = qa[v],
           final'[v] = final[v]
    PROVE  Reviewed(v)'
BY DEF Reviewed, Checked, Signed

\* The second step of transitionReport, on rows that are as they were read.
LEMMA TransitionIsReviewed ==
    ASSUME ReportInv, AloneInv, Agreed, NEW u \in Users, CommitTransition(u)
    PROVE  Agreed'
<1>0. PICK v \in VersionNo : v = report.current
  BY DEF ReportInv, RowsInv, RowsTyped, ReportType
<1> DEFINE q == request[u]
           s == Transitioned(Current, u, q)
<1>1. AsRead(u) /\ q.to # "revision" /\ q.from = report.status
  <2>1. q.to \in ReportStatus /\ q # NoRequest
    BY Statuses DEF CommitTransition, NoRequest
  <2> QED BY <2>1, Statuses DEF CommitTransition, StillAsRead, AloneInv
<1>2. /\ q \in UserRequest /\ report' = [report EXCEPT !.status = q.to]
      /\ Changes(q.version, Transitioned(versions[q.version], u, q)) /\ q.version = v
  BY <1>0, <1>1, TransitionEffect DEF ReportInv, AsRead, UserRequest
<1>3. Changes(v, s)
  BY <1>0, <1>2 DEF Current
<1>4. /\ Current \in VersionType /\ Reviewed(v) /\ report.status = Current.status
      /\ Current = versions[v]
  BY <1>0, <1>2 DEF ReportInv, RowsInv, RowsTyped, Current, Agreed
<1>5. /\ s.content = Current.content /\ s.status = q.to
      /\ s.immutable = (Current.immutable \/ q.to = "published")
      /\ s.createdBy = Current.createdBy
      /\ s.approvedBy = IF q.to \in {"qa_approved", "approved", "published"}
                        THEN u ELSE Current.approvedBy
  BY <1>1, <1>2, <1>4, TransitionedRow DEF AsRead
<1>6. /\ qa' = IF q.to = "qa_approved"
               THEN [qa EXCEPT ![v] = [by |-> u, content |-> Current.content]] ELSE qa
      /\ final' = IF q.to = "approved" THEN [final EXCEPT ![v] = u] ELSE final
  BY <1>0, <1>2 DEF CommitTransition, Current
<1>7. /\ q.to \in Workflow[Current.status] /\ (Current.immutable => q.to \in LifecycleOnly)
      /\ q.to = "qa_approved" => Current.createdBy # u
      /\ q.to = "approved" => Current.approvedBy # u
      /\ Current.status \in ReportStatus
  <2>1. report.status \in ReportStatus
    BY <1>1, <1>2 DEF UserRequest
  <2> QED BY <1>1, <1>4, <2>1 DEF AsRead, SeparateDuties
<1>8. /\ DOMAIN qa = VersionNo /\ DOMAIN final = VersionNo /\ u # None /\ report \in ReportType
  BY PeopleAssumption DEF ReportInv, HistoryTyped, None, RowsInv, RowsTyped
<1>9. versions'[v] = s
  BY <1>3 DEF Changes
<1>10. /\ q.to = "qa_approved" => qa'[v].by = u /\ qa'[v].content = Current.content
       /\ q.to # "qa_approved" => qa'[v] = qa[v]
       /\ q.to = "approved" => final'[v] = u
       /\ q.to # "approved" => final'[v] = final[v]
  BY <1>2, <1>6, <1>8
<1> HIDE DEF q, s
<1>11. Reviewed(v)'
  <2>1. CASE q.to = "qa_approved"
    BY <1>5, <1>7, <1>8, <1>9, <1>10, <2>1 DEF Reviewed, Checked, Signed, LifecycleOnly
  <2>2. CASE q.to = "client_review"
    <3>1. Current.status = "qa_approved"
      BY <1>7, <2>2, Statuses
    <3> QED BY <1>0, <1>4, <1>5, <1>7, <1>9, <1>10, <2>2, <3>1
            DEF Reviewed, Checked, Signed, LifecycleOnly
  <2>3. CASE q.to = "approved"
    <3>1. Current.status \in {"qa_approved", "client_review"}
      BY <1>7, <2>3, Statuses
    <3>2. /\ qa[v].by \notin {None, Current.createdBy} /\ qa[v].content = Current.content
          /\ qa[v].by # u /\ ~Current.immutable
      BY <1>4, <1>7, <2>3, <3>1 DEF Reviewed, Checked, LifecycleOnly
    <3>3. /\ s.status = "approved" /\ ~s.immutable /\ s.createdBy = Current.createdBy
          /\ s.content = Current.content /\ qa'[v] = qa[v] /\ final'[v] = u
      BY <1>5, <1>10, <2>3, <3>2
    <3> QED BY <1>8, <1>9, <3>2, <3>3 DEF Reviewed, Checked, Signed
  <2>4. CASE q.to = "published"
    <3>1. Current.status = "approved"
      BY <1>7, <2>4, Statuses
    <3> QED BY <1>0, <1>4, <1>5, <1>7, <1>9, <1>10, <2>4, <3>1
            DEF Reviewed, Checked, Signed, LifecycleOnly
  <2>5. CASE q.to \in {"superseded", "archived"}
    BY <1>0, <1>4, <1>5, <1>9, <1>10, <2>5 DEF Reviewed, Checked, Signed, LifecycleOnly
  <2>6. CASE q.to \in {"draft", "internal_review", "changes_requested"}
    BY <1>5, <1>7, <1>9, <2>6 DEF Reviewed, LifecycleOnly
  <2> QED BY <1>2, <2>1, <2>2, <2>3, <2>4, <2>5, <2>6, Statuses DEF UserRequest, q
<1>12. ASSUME NEW w \in VersionNo, w # v PROVE Reviewed(w)'
  <2>1. versions'[w] = versions[w]
    BY <1>3, <1>12 DEF Changes
  <2>2. qa'[w] = qa[w] /\ final'[w] = final[w]
    BY <1>6, <1>8, <1>12
  <2> QED BY <2>1, <2>2, OtherIsReviewed DEF Agreed
<1>13. report'.status = Current'.status
  BY <1>0, <1>2, <1>5, <1>8, <1>9 DEF Current, ReportType
<1> QED BY <1>11, <1>12, <1>13 DEF Agreed

\* The second step of approvePortalReport, on a version that is still with the client.
LEMMA ApprovalIsReviewed ==
    ASSUME ReportInv, Agreed, NEW c \in Clients, CommitApproval(c), ~late'
    PROVE  Agreed'
<1>0. PICK v \in VersionNo : v = report.current
  BY DEF ReportInv, RowsInv, RowsTyped, ReportType
<1> DEFINE s == [versions[v] EXCEPT !.status = "approved", !.clientBy = c]
<1>1. /\ request[c].version = v /\ report.status = "client_review"
      /\ versions[v].status = "client_review"
  <2>1. late' = (late \/ report # [status |-> "client_review",
                                   current |-> request[c].version])
    BY DEF CommitApproval
  <2>2. report = [status |-> "client_review", current |-> request[c].version]
    BY <2>1, Zenon
  <2> QED BY <1>0, <2>2 DEF Agreed, Current
<1>2. Changes(v, s) /\ report' = [report EXCEPT !.status = "approved"]
  BY <1>1, ApprovalEffect DEF ReportInv
<1>3. versions[v] \in VersionType /\ Reviewed(v)
  BY DEF ReportInv, RowsInv, RowsTyped, Agreed
<1>4. /\ s.content = versions[v].content /\ s.status = "approved"
      /\ s.immutable = versions[v].immutable /\ s.createdBy = versions[v].createdBy
  BY <1>3, ApprovedRow
<1>5. qa' = qa /\ final' = [final EXCEPT ![v] = c]
  BY <1>1 DEF CommitApproval
<1>6. /\ DOMAIN final = VersionNo /\ qa[v].by \in Users \cup {None} /\ report \in ReportType
  BY DEF ReportInv, HistoryTyped, RowsInv, RowsTyped
<1>7. c # None /\ c \notin Users
  BY PeopleAssumption DEF None
<1>8. versions'[v] = s /\ final'[v] = c
  BY <1>2, <1>5, <1>6 DEF Changes
<1> HIDE DEF s
<1>9. Reviewed(v)'
  BY <1>1, <1>3, <1>4, <1>5, <1>6, <1>7, <1>8 DEF Reviewed, Checked, Signed
<1>10. ASSUME NEW w \in VersionNo, w # v PROVE Reviewed(w)'
  BY <1>2, <1>5, <1>6, <1>10, OtherIsReviewed DEF Changes, Agreed
<1>11. report'.status = Current'.status
  BY <1>0, <1>2, <1>4, <1>6, <1>8 DEF Current, ReportType
<1> QED BY <1>9, <1>10, <1>11 DEF Agreed

\* New versions and edits.
LEMMA EditIsReviewed ==
    ASSUME ReportInv, Agreed,
           SaveDraft \/ \E u \in Users : CreateReport(u) \/ CommitRevision(u)
    PROVE  Agreed'
<1>0. PICK v \in VersionNo : v = report.current
  BY DEF ReportInv, RowsInv, RowsTyped, ReportType
<1>1. /\ RowsInv /\ contents + 1 \in 0..MaxContent /\ UNCHANGED <<qa, final>>
      /\ versions[v] \in VersionType /\ Current = versions[v]
  <2>1. contents < MaxContent /\ UNCHANGED <<qa, final>>
    BY DEF SaveDraft, CreateReport, CommitRevision, FreshContent
  <2> QED BY <1>0, <2>1, Numbers DEF ReportInv, RowsInv, RowsTyped, Current
<1>2. ASSUME NEW u \in Users, CreateReport(u)
      PROVE  Agreed'
  <2>1. /\ Changes(1, NewVersion(u, contents + 1))
        /\ report' = [status |-> "draft", current |-> 1]
    BY <1>1, <1>2, CreateEffect
  <2>2. versions'[1] = NewVersion(u, contents + 1)
    BY <2>1 DEF Changes
  <2>3. Reviewed(1)'
    BY <1>1, <2>2, EmptyRows, FreshIsReviewed
  <2>4. ASSUME NEW w \in VersionNo, w # 1 PROVE Reviewed(w)'
    BY <1>1, <2>1, <2>4, OtherIsReviewed DEF Changes, Agreed
  <2> QED BY <1>1, <2>1, <2>2, <2>3, <2>4, EmptyRows DEF Agreed, Current
<1>3. ASSUME SaveDraft PROVE Agreed'
  <2> DEFINE s == Edited(versions[v], contents + 1)
  <2>1. Changes(v, s) /\ report' = report
    BY <1>0, <1>1, <1>3, SaveEffect
  <2>2. s.status = versions[v].status /\ s.immutable = versions[v].immutable
    BY <1>1, EditedRow DEF SameReview
  <2>3. versions[v].status \in {"draft", "changes_requested"} /\ ~versions[v].immutable
    BY <1>1, <1>3 DEF SaveDraft, MayEdit
  <2>4. versions'[v] = s
    BY <2>1 DEF Changes
  <2> HIDE DEF s
  <2>5. Reviewed(v)'
    BY <2>2, <2>3, <2>4, FreshIsReviewed
  <2>6. ASSUME NEW w \in VersionNo, w # v PROVE Reviewed(w)'
    BY <1>1, <2>1, <2>6, OtherIsReviewed DEF Changes, Agreed
  <2> QED BY <1>0, <2>1, <2>2, <2>4, <2>5, <2>6 DEF Agreed, Current
<1>4. ASSUME NEW u \in Users, CommitRevision(u)
      PROVE  Agreed'
  <2> DEFINE s == [versions[v] EXCEPT !.status = "superseded"]
  <2>1. /\ report' = [status |-> "draft", current |-> v + 1] /\ v + 1 \in VersionNo
        /\ versions'[v] = s /\ versions'[v + 1] = NewVersion(u, contents + 1)
        /\ \A w \in VersionNo : w \notin {v, v + 1} => versions'[w] = versions[w]
    BY <1>0, <1>1, <1>4, ReviseEffect DEF ReportInv
  <2>2. /\ s.status = "superseded" /\ s.immutable = versions[v].immutable
        /\ s.createdBy = versions[v].createdBy
    BY <1>1, SupersededRow
  <2> HIDE DEF s
  <2>3. Reviewed(v)'
    BY <1>1, <2>1, <2>2 DEF Reviewed, Checked, Signed, Agreed
  <2>4. Reviewed(v + 1)'
    BY <1>1, <2>1, EmptyRows, FreshIsReviewed
  <2>5. ASSUME NEW w \in VersionNo, w \notin {v, v + 1} PROVE Reviewed(w)'
    BY <1>1, <2>1, <2>5, OtherIsReviewed DEF Agreed
  <2> QED BY <1>1, <2>1, <2>3, <2>4, <2>5, EmptyRows DEF Agreed, Current
<1> QED BY <1>2, <1>3, <1>4

\* Handlers, visibility and queue write no column of the review.
LEMMA RenderIsReviewed ==
    ASSUME ReportInv,
           \/ \E v \in VersionNo, b \in BOOLEAN : SetVisibility(v, b)
           \/ \E j \in Jobs : QueueGeneration(j)
           \/ \E x \in renders : RenderMark(x)
           \/ \E h \in hands : RenderDone(h) \/ RenderFail(h)
    PROVE  ReviewStands
<1>1. ASSUME NEW v \in VersionNo, NEW row, Changes(v, row), UNCHANGED <<report, qa, final>>,
             SameReview(row, versions[v]), row.content = versions[v].content
      PROVE  ReviewStands
  BY <1>1 DEF ReviewStands, Changes, SameReview
<1>2. versions \in [VersionNo -> VersionType] /\ RowsInv
  BY DEF ReportInv, RowsInv, RowsTyped
<1>3. ASSUME NEW v \in VersionNo, NEW b \in BOOLEAN, SetVisibility(v, b) PROVE ReviewStands
  <2>1. UNCHANGED <<report, qa, final>>
    BY <1>3 DEF SetVisibility
  <2> QED BY <1>1, <1>2, <1>3, <2>1, VisibilityEffect, VisibleRow
<1>4. ASSUME NEW j \in Jobs, QueueGeneration(j) PROVE ReviewStands
  <2>1. UNCHANGED <<report, qa, final>>
    BY <1>4 DEF QueueGeneration
  <2>2. PICK v \in VersionNo : v = report.current
    BY <1>2, <1>4, QueueEffect
  <2>3. Changes(v, [versions[v] EXCEPT !.render = "queued"])
    BY <1>2, <1>4, <2>2, QueueEffect DEF Current
  <2>4. "queued" \in RenderStatus
    BY DEF RenderStatus
  <2> QED BY <1>1, <1>2, <2>1, <2>3, <2>4, RenderedRow
<1>5. ASSUME NEW x \in renders, NEW row, Rendering(x, row) PROVE ReviewStands
  <2>1. UNCHANGED <<report, qa, final>>
    BY <1>5 DEF Rendering, SetVersion
  <2>2. PICK v \in VersionNo : v = target[x.job]
    BY <1>5, HandlerEffect DEF Rendering
  <2>3. Changes(v, row) /\ RenderedAs(v, row)
    BY <1>5, <2>2, HandlerEffect DEF Rendering
  <2>4. SameReview(row, versions[v]) /\ row.content = versions[v].content
    <3>1. ASSUME NEW k \in {"running", "failed"}, row = [versions[v] EXCEPT !.render = k]
          PROVE  SameReview(row, versions[v]) /\ row.content = versions[v].content
      <4>1. k \in RenderStatus
        BY DEF RenderStatus
      <4> QED BY <1>2, <3>1, <4>1, RenderedRow
    <3>2. ASSUME NEW n \in 0..MaxContent,
                 row = [versions[v] EXCEPT !.render = "completed", !.exports = n]
          PROVE  SameReview(row, versions[v]) /\ row.content = versions[v].content
      BY <1>2, <3>2, ExportedRow
    <3> QED BY <2>3, <3>1, <3>2 DEF RenderedAs
  <2> QED BY <1>1, <2>1, <2>3, <2>4
<1>6. ASSUME NEW x \in renders, RenderMark(x) PROVE ReviewStands
  BY <1>5, <1>6, MarkWrites
<1>7. ASSUME NEW h \in hands, RenderDone(h) \/ RenderFail(h) PROVE ReviewStands
  <2>1. PICK x \in renders : \E row : Rendering(x, row)
    BY <1>7, DoneWrites, FailWrites DEF ForJob
  <2> QED BY <1>5, <2>1
<1> QED BY <1>3, <1>4, <1>6, <1>7

\* While the requests of members come one at a time, what they have checked stands until
\* they write, whatever the portal's contacts do.
LEMMA AloneKeeps == ASSUME MembersAlone, ReportInv, AloneInv, [Next]_vars PROVE AloneInv'
<1>0. report.current \in VersionNo /\ request \in [People -> {request[p] : p \in People}]
  BY DEF ReportInv, RowsInv, RowsTyped, ReportType, RequestsInv
<1>1. ASSUME NEW p \in People, Commit(p) PROVE AloneInv'
  <2>1. request[p] # NoRequest /\ request' = [request EXCEPT ![p] = NoRequest]
    BY <1>1, Statuses DEF Commit, CommitTransition, CommitRevision, CommitApproval, Abort,
       NoRequest, None
  <2>2. \A r \in People : request'[r] = IF r = p THEN NoRequest ELSE request[r]
    BY <1>0, <2>1
  <2>3. CASE p \in Users
    <3>1. \A u \in Users : request'[u] = NoRequest
      BY <2>1, <2>2, <2>3 DEF AloneInv, People
    <3> QED BY <3>1, NobodyIsAlone
  <2>4. CASE Abort(p)
    <3>1. UNCHANGED <<report, versions, writable>>
      BY <2>4 DEF Abort, reportVars
    <3> QED BY <2>2, <3>1, AsReadStays DEF Current, SameGuards, People
  <2>5. CASE p \in Clients /\ CommitApproval(p)
    <3> DEFINE v == request[p].version
               s == [versions[v] EXCEPT !.status = "approved", !.clientBy = p]
    <3>1. /\ v \in VersionNo /\ report' = [report EXCEPT !.status = "approved"]
          /\ Changes(v, s) /\ writable' = writable
      BY <2>5, ApprovalEffect DEF ReportInv, CommitApproval
    <3>2. versions[v] \in VersionType /\ report \in ReportType
      BY <3>1 DEF ReportInv, RowsInv, RowsTyped
    <3>5. SameGuards(s, versions[v])
      BY <2>5, <3>2, ApprovedRow DEF SameGuards, SameExports
    <3> HIDE DEF s
    <3>3. report'.current = report.current
      BY <3>1, <3>2 DEF ReportType
    <3>4. SameGuards(Current', Current)
      BY <1>0, <3>1, <3>3, <3>5 DEF Current, Changes, SameGuards
    <3> QED BY <2>2, <3>1, <3>3, <3>4, AsReadStays DEF People
  <2> QED BY <1>1, <2>3, <2>4, <2>5 DEF Commit
<1>2. ASSUME Unhurried, UNCHANGED request PROVE AloneInv'
  BY <1>2, NobodyWaits, NobodyIsAlone
<1>3. ASSUME Unhurried, NEW u \in Users, NEW q, request' = [request EXCEPT ![u] = q],
             writable, UNCHANGED <<report, versions, writable>>,
             q.version = report.current,
             q.to # "revision" =>
                /\ q.immutable = Current.immutable /\ q.approvedBy = Current.approvedBy
                /\ q.to \in Workflow[q.from]
                /\ Current.immutable => q.to \in LifecycleOnly
                /\ SeparateDuties(u, Current, q.to) /\ ExportsReady(Current, q.to)
      PROVE  AloneInv'
  <2>1. \A w \in Users : request'[w] = IF w = u THEN q ELSE NoRequest
    BY <1>0, <1>3, NobodyWaits DEF People
  <2>2. Current' = Current
    BY <1>3 DEF Current
  <2>3. AsRead(u)'
    BY <1>3, <2>1, <2>2 DEF AsRead, SeparateDuties, ExportsReady
  <2> QED BY <1>3, <2>1, <2>3 DEF AloneInv
<1>4. ASSUME Unhurried, NEW u \in Users, NEW to \in ReportStatus, ReadForTransition(u, to)
      PROVE  AloneInv'
  <2> DEFINE q == [to |-> to, from |-> report.status, version |-> report.current,
                   immutable |-> Current.immutable, approvedBy |-> Current.approvedBy]
  <2>1. /\ request' = [request EXCEPT ![u] = q] /\ writable
        /\ UNCHANGED <<report, versions, writable>>
    BY <1>4 DEF ReadForTransition, reportVars
  <2>2. /\ to \in Workflow[report.status] /\ (Current.immutable => to \in LifecycleOnly)
        /\ SeparateDuties(u, Current, to) /\ ExportsReady(Current, to)
    BY <1>4 DEF ReadForTransition
  <2>3. /\ q.to = to /\ q.from = report.status /\ q.version = report.current
        /\ q.immutable = Current.immutable /\ q.approvedBy = Current.approvedBy
    OBVIOUS
  <2> HIDE DEF q
  <2> QED BY <1>3, <1>4, <2>1, <2>2, <2>3
<1>5. ASSUME Unhurried, NEW u \in Users, ReadForRevision(u) PROVE AloneInv'
  <2> DEFINE q == [to |-> "revision", version |-> report.current]
  <2>1. /\ request' = [request EXCEPT ![u] = q] /\ writable
        /\ UNCHANGED <<report, versions, writable>>
    BY <1>5 DEF ReadForRevision, reportVars
  <2>2. q.to = "revision" /\ q.version = report.current
    OBVIOUS
  <2> HIDE DEF q
  <2> QED BY <1>3, <1>5, <2>1, <2>2
<1>6. ASSUME Unhurried, NEW c \in Clients, ReadForApproval(c) PROVE AloneInv'
  <2>1. request' = [request EXCEPT ![c] = [to |-> "approved", version |-> report.current]]
    BY <1>6 DEF ReadForApproval
  <2>2. \A u \in Users : request'[u] = NoRequest
    BY <1>0, <1>6, <2>1, NobodyWaits, PeopleAssumption DEF People
  <2> QED BY <2>2, NobodyIsAlone
<1>7. ASSUME Unhurried, PersonStep PROVE AloneInv'
  <2>1. CASE \/ SaveDraft \/ \E u \in Users : CreateReport(u)
             \/ \E v \in VersionNo, b \in BOOLEAN : SetVisibility(v, b)
             \/ \E j \in Jobs : QueueGeneration(j)
    <3>1. UNCHANGED request
      BY <2>1 DEF SaveDraft, CreateReport, SetVisibility, QueueGeneration
    <3> QED BY <1>2, <1>7, <3>1
  <2> QED BY <1>4, <1>5, <1>6, <1>7, <2>1 DEF PersonStep
<1>8. ASSUME Unhurried, SystemStep PROVE AloneInv'
  <2>1. UNCHANGED request
    BY <1>8 DEF SystemStep, RenderStep, RenderBegin, RenderDone, RenderFail, RenderThrows,
       RenderMark, QueueStep, WorkerDies, ArchiveEngagement, ApplyRetention
  <2> QED BY <1>2, <1>8, <2>1
<1>9. CASE UNCHANGED vars
  <2>1. UNCHANGED <<report, versions, request, writable>>
    BY <1>9 DEF vars, reportVars
  <2> QED BY <2>1, AsReadStays DEF Current, SameGuards
<1> QED BY <1>1, <1>7, <1>8, <1>9 DEF Next

\* Without retention every step keeps what the reviewers promise, but a late approval.
LEMMA ReviewKeeps ==
    ASSUME MembersAlone, "retention" \notin Events, ReportInv, ReviewInv, [Next]_vars
    PROVE  ReviewInv'
<1>1. AloneInv /\ AloneInv'
  BY AloneKeeps DEF ReviewInv
<1>2. SUFFICES ASSUME ~late' PROVE Agreed'
  BY <1>1 DEF ReviewInv
<1>3. ~late
  BY <1>2 DEF Next, Commit, CommitTransition, CommitRevision, CommitApproval, Abort,
     PersonStep, CreateReport, ReadForRevision, SaveDraft, ReadForTransition,
     ReadForApproval, SetVisibility, QueueGeneration, SystemStep, RenderStep, RenderBegin,
     RenderDone, RenderFail, RenderThrows, RenderMark, QueueStep, WorkerDies,
     ArchiveEngagement, ApplyRetention, SetVersion, reportVars, vars
<1>4. Agreed /\ RowsInv
  BY <1>3 DEF ReviewInv, ReportInv
<1>5. ASSUME UNCHANGED <<report, versions, qa, final>> PROVE Agreed'
  <2>1. ReviewStands
    BY <1>5 DEF ReviewStands, SameReview
  <2> QED BY <1>4, <2>1, ReviewStays
<1>6. ASSUME NEW p \in People, Commit(p) PROVE Agreed'
  <2>1. CASE Abort(p)
    BY <1>5, <2>1 DEF Abort, reportVars
  <2>2. CASE p \in Users /\ CommitTransition(p)
    BY <1>1, <1>4, <2>2, TransitionIsReviewed
  <2>3. CASE p \in Users /\ CommitRevision(p)
    BY <1>4, <2>3, EditIsReviewed
  <2>4. CASE p \in Clients /\ CommitApproval(p)
    BY <1>2, <1>4, <2>4, ApprovalIsReviewed
  <2> QED BY <1>6, <2>1, <2>2, <2>3, <2>4 DEF Commit
<1>7. ASSUME PersonStep PROVE Agreed'
  <2>1. CASE SaveDraft \/ \E u \in Users : CreateReport(u)
    BY <1>4, <2>1, EditIsReviewed
  <2>2. CASE \/ \E v \in VersionNo, b \in BOOLEAN : SetVisibility(v, b)
             \/ \E j \in Jobs : QueueGeneration(j)
    BY <1>4, <2>2, RenderIsReviewed, ReviewStays
  <2>3. CASE \/ \E u \in Users, to \in ReportStatus : ReadForTransition(u, to)
             \/ \E u \in Users : ReadForRevision(u)
             \/ \E c \in Clients : ReadForApproval(c)
    BY <1>5, <2>3 DEF ReadForTransition, ReadForRevision, ReadForApproval, reportVars
  <2> QED BY <1>7, <2>1, <2>2, <2>3 DEF PersonStep
<1>8. ASSUME SystemStep PROVE Agreed'
  <2>1. CASE \/ \E x \in renders : RenderMark(x)
             \/ \E h \in hands : RenderDone(h) \/ RenderFail(h)
    BY <1>4, <2>1, RenderIsReviewed, ReviewStays
  <2>2. CASE \/ \E h \in hands : RenderBegin(h) \/ RenderThrows(h)
             \/ QueueStep \/ WorkerDies \/ ArchiveEngagement
    BY <1>5, <2>2
       DEF RenderBegin, RenderThrows, QueueStep, WorkerDies, ArchiveEngagement, reportVars
  <2>3. ~ApplyRetention
    BY DEF ApplyRetention
  <2> QED BY <1>8, <2>1, <2>2, <2>3 DEF SystemStep, RenderStep
<1>9. CASE UNCHANGED vars
  BY <1>5, <1>9 DEF vars, reportVars
<1> QED BY <1>6, <1>7, <1>8, <1>9 DEF Next

-----------------------------------------------------------------------------
(***************************************************************************)
(* Exports, whatever overlaps, is lost or is tried again.                  *)
(***************************************************************************)

Pending == {"queued", "running"}

\* A handler that has begun.
AtWork(x) == \E h \in hands : h.job = x.job /\ h.attempt = x.attempt /\ h.phase = "run"

\* What a handler remembers belongs to one attempt, which is under way.
HandsInv ==
    /\ \A j \in Jobs : status[j] = "running" => attempts[j] # 0
    /\ \A x \in renders : AtWork(x)
    /\ \A x, y \in renders : x.job = y.job /\ x.attempt = y.attempt => x = y

\* Steps of neither handlers nor queue.
OtherStep ==
    \/ \E p \in People : Commit(p)
    \/ \E u \in Users : CreateReport(u) \/ ReadForRevision(u)
    \/ SaveDraft
    \/ \E u \in Users, to \in ReportStatus : ReadForTransition(u, to)
    \/ \E c \in Clients : ReadForApproval(c)
    \/ \E v \in VersionNo, visible \in BOOLEAN : SetVisibility(v, visible)
    \/ ArchiveEngagement \/ ApplyRetention
    \/ UNCHANGED vars

\* Every step is one of these.
LEMMA StepCases ==
    ASSUME [Next]_vars
    PROVE  \/ OtherStep
           \/ \E j \in Jobs : QueueGeneration(j)
           \/ \E h \in hands : RenderBegin(h) \/ RenderDone(h) \/ RenderFail(h)
                                  \/ RenderThrows(h)
           \/ \E x \in renders : RenderMark(x)
           \/ QueueStep \/ WorkerDies
BY DEF Next, OtherStep, PersonStep, SystemStep, RenderStep

\* What a step may do to the exports of a version that no job is at work on: nothing, or
\* drop them with the content they were made of.
RowFollows(v) ==
    LET r == versions[v]
        s == versions'[v] IN
    \/ SameExports(s, r) /\ s.content = r.content
    \/ r.render \notin Pending /\ s.render = "not_requested"

\* Requests do no more than that, and leave jobs and handlers alone.
LEMMA RowsFollow ==
    ASSUME ReportInv, OtherStep
    PROVE  (\A v \in VersionNo : RowFollows(v)) /\ UNCHANGED <<renderVars, jobVars>>
<1> DEFINE Goal == (\A v \in VersionNo : RowFollows(v)) /\ UNCHANGED <<renderVars, jobVars>>
<1>2. ASSUME versions' = versions PROVE \A v \in VersionNo : RowFollows(v)
  BY <1>2 DEF RowFollows, SameExports
<1>3. ASSUME NEW w \in VersionNo, NEW row, Changes(w, row),
             \/ SameExports(row, versions[w]) /\ row.content = versions[w].content
             \/ versions[w].render \notin Pending /\ row.render = "not_requested"
      PROVE  \A v \in VersionNo : RowFollows(v)
  BY <1>3 DEF Changes, RowFollows, SameExports
<1>4. RowsInv /\ RequestsInv /\ versions \in [VersionNo -> VersionType]
  BY DEF ReportInv, RowsInv, RowsTyped
<1>5. ASSUME NEW p \in People, Commit(p) PROVE Goal
  <2>1. UNCHANGED <<renderVars, jobVars>>
    BY <1>5 DEF Commit, CommitTransition, CommitRevision, CommitApproval, Abort
  <2>2. CASE p \in Users /\ CommitTransition(p)
    <3>1. PICK q \in UserRequest : q = request[p]
      BY <1>4, <2>2, TransitionEffect
    <3>2. PICK w \in VersionNo : w = q.version
      BY <3>1 DEF UserRequest
    <3>3. Changes(w, Transitioned(versions[w], p, q))
      BY <1>4, <2>2, <3>1, <3>2, TransitionEffect
    <3> QED BY <1>3, <1>4, <2>1, <2>2, <3>3, TransitionedRow
  <2>3. CASE Abort(p)
    BY <1>2, <2>1, <2>3 DEF Abort, reportVars
  <2>4. CASE p \in Clients /\ CommitApproval(p)
    <3>1. PICK w \in VersionNo : w = request[p].version
      BY <1>4, <2>4, ApprovalEffect
    <3>2. Changes(w, [versions[w] EXCEPT !.status = "approved", !.clientBy = p])
      BY <1>4, <2>4, <3>1, ApprovalEffect
    <3> QED BY <1>3, <1>4, <2>1, <2>4, <3>2, ApprovedRow
  <2>5. CASE p \in Users /\ CommitRevision(p)
    <3>1. PICK v \in VersionNo : v = report.current
      BY <1>4, <2>5, ReviseEffect
    <3> DEFINE s == [versions[v] EXCEPT !.status = "superseded"]
    <3>0. contents + 1 \in 0..MaxContent
      BY <1>4, <2>5, Numbers DEF CommitRevision, FreshContent, RowsInv, RowsTyped
    <3>2. /\ v + 1 \in VersionNo /\ ~Written(v + 1)
          /\ versions'[v] = s /\ versions'[v + 1] = NewVersion(p, contents + 1)
          /\ \A w \in VersionNo : w \notin {v, v + 1} => versions'[w] = versions[w]
      BY <1>4, <2>5, <3>1, ReviseEffect DEF Current
    <3>3. SameExports(s, versions[v]) /\ s.content = versions[v].content
      BY <1>4, SupersededRow
    <3> HIDE DEF s
    <3>4. versions[v + 1] = NoVersion
      BY <1>4, <3>2 DEF RowsInv
    <3>5. ASSUME NEW w \in VersionNo PROVE RowFollows(w)
      BY <2>5, <3>0, <3>2, <3>3, <3>4, EmptyRows DEF RowFollows, SameExports, Pending
    <3> QED BY <2>1, <3>5
  <2> QED BY <1>5, <2>2, <2>3, <2>4, <2>5 DEF Commit
<1>6. ASSUME NEW u \in Users, CreateReport(u) PROVE Goal
  <2>1. Changes(1, NewVersion(u, contents + 1)) /\ report.status = "absent"
    BY <1>4, <1>6, CreateEffect
  <2>2. versions[1] = NoVersion /\ contents + 1 \in 0..MaxContent
    BY <1>4, <1>6, <2>1, Numbers DEF RowsInv, RowsTyped, Written, CreateReport, FreshContent
  <2>3. UNCHANGED <<renderVars, jobVars>>
    BY <1>6 DEF CreateReport
  <2> QED BY <1>3, <2>1, <2>2, <2>3, Numbers, EmptyRows DEF Pending
<1>7. ASSUME SaveDraft PROVE Goal
  <2>1. PICK v \in VersionNo : v = report.current
    BY <1>4, <1>7, SaveEffect
  <2>2. Changes(v, Edited(versions[v], contents + 1)) /\ contents + 1 \in 0..MaxContent
    BY <1>4, <1>7, <2>1, SaveEffect, Numbers
       DEF Current, SaveDraft, FreshContent, RowsInv, RowsTyped
  <2>3. UNCHANGED <<renderVars, jobVars>> /\ versions[v].render \notin Pending
    BY <1>7, <2>1 DEF SaveDraft, MayEdit, Current, Pending
  <2> QED BY <1>3, <1>4, <2>2, <2>3, EditedRow
<1>8. ASSUME NEW v \in VersionNo, NEW b \in BOOLEAN, SetVisibility(v, b) PROVE Goal
  <2>1. Changes(v, [versions[v] EXCEPT !.visible = b])
    BY <1>4, <1>8, VisibilityEffect
  <2>2. UNCHANGED <<renderVars, jobVars>>
    BY <1>8 DEF SetVisibility
  <2> QED BY <1>3, <1>4, <2>1, <2>2, VisibleRow
<1>9. ASSUME \/ \E u \in Users, to \in ReportStatus : ReadForTransition(u, to)
             \/ \E u \in Users : ReadForRevision(u)
             \/ \E c \in Clients : ReadForApproval(c)
             \/ ArchiveEngagement \/ ApplyRetention \/ UNCHANGED vars
      PROVE  Goal
  BY <1>2, <1>9 DEF ReadForTransition, ReadForRevision, ReadForApproval, ArchiveEngagement,
     ApplyRetention, reportVars, vars
<1> QED BY <1>5, <1>6, <1>7, <1>8, <1>9 DEF OtherStep

\* A hand that moves on stays the hand of its attempt.
LEMMA HandMoves ==
    ASSUME ContractInv, NEW h \in hands, NEW p, Move(h, p)
    PROVE  \E k : /\ hands' = (hands \ {h}) \cup {k}
                  /\ k.job = h.job /\ k.attempt = h.attempt /\ k.phase = p
<1>1. h \in HandType
  BY DEF ContractInv, ContractTypeOK, HandType
<1> DEFINE k == [h EXCEPT !.phase = p]
<1>2. /\ hands' = (hands \ {h}) \cup {k}
      /\ k.job = h.job /\ k.attempt = h.attempt /\ k.phase = p
  BY <1>1 DEF Move, HandType
<1> QED BY <1>2

\* Queue steps leave handlers at work.
LEMMA QueueKeepsRunning ==
    ASSUME ContractInv, HandsInv, QueueStep
    PROVE  /\ \A h \in hands : h.phase = "run" => h \in hands'
           /\ \A j \in Jobs : status'[j] = "running" => attempts'[j] # 0
<1>0. /\ status \in [Jobs -> {"absent", "waiting", "running", "completed", "dead_letter"}]
      /\ attempts \in [Jobs -> Nat]
  BY Numbers DEF ContractInv, ContractTypeOK
<1>1. ASSUME NEW S \in SUBSET Jobs, Claim(S) \/ GiveUp(S)
      PROVE  /\ \A h \in hands : h.phase = "run" => h \in hands'
             /\ \A j \in Jobs : status'[j] = "running" => attempts'[j] # 0
  BY <1>0, <1>1 DEF Claim, GiveUp, HandsInv
<1>2. ASSUME NEW h \in hands, Complete(h) \/ Fail(h) \/ CompleteThrows(h)
      PROVE  /\ \A g \in hands : g.phase = "run" => g \in hands'
             /\ \A j \in Jobs : status'[j] = "running" => attempts'[j] # 0
  BY <1>0, <1>2
     DEF Complete, Fail, CompleteThrows, SettleNewest, Newest, Move, HandsInv
<1> QED BY <1>1, <1>2 DEF QueueStep

\* Every step keeps handlers and attempts together.
LEMMA HandsKeep == ASSUME ReportInv, HandsInv, [Next]_vars PROVE HandsInv'
<1>0. ContractInv /\ renders \subseteq RenderType /\ hands \subseteq HandType
  BY DEF ReportInv, WorkInv, ContractInv, ContractTypeOK, HandType
<1>1. CASE OtherStep
  BY <1>1, RowsFollow DEF HandsInv, AtWork, renderVars, jobVars
<1>2. ASSUME NEW j \in Jobs, QueueGeneration(j) PROVE HandsInv'
  <2>1. UNCHANGED <<attempts, hands, renders>> /\ status' = [status EXCEPT ![j] = "waiting"]
    BY <1>0, <1>2, SubmitsOne DEF QueueGeneration, Submit, ContractInv
  <2>2. DOMAIN status = Jobs
    BY <1>0 DEF ContractInv, ContractTypeOK
  <2> QED BY <2>1, <2>2 DEF HandsInv, AtWork
<1>3. ASSUME NEW h \in hands, RenderBegin(h) PROVE HandsInv'
  <2>2. PICK x : /\ x = [job |-> h.job, attempt |-> h.attempt,
                         content |-> versions[target[h.job]].content, marked |-> FALSE]
                 /\ x.job = h.job /\ x.attempt = h.attempt
    <3> DEFINE r == [job |-> h.job, attempt |-> h.attempt,
                     content |-> versions[target[h.job]].content, marked |-> FALSE]
    <3>1. r.job = h.job /\ r.attempt = h.attempt
      OBVIOUS
    <3> QED BY <3>1
  <2>1. /\ renders' = renders \cup {x} /\ UNCHANGED <<status, attempts>>
        /\ h.phase = "claimed" /\ Move(h, "run")
    BY <1>3, <2>2 DEF RenderBegin, Begin
  <2>3. PICK k : /\ hands' = (hands \ {h}) \cup {k}
                 /\ k.job = h.job /\ k.attempt = h.attempt /\ k.phase = "run"
    BY <1>0, <2>1, HandMoves
  <2>4. ASSUME NEW y \in renders
        PROVE  AtWork(y)' /\ ~(y.job = x.job /\ y.attempt = x.attempt)
    <3>1. PICK g \in hands : g.job = y.job /\ g.attempt = y.attempt /\ g.phase = "run"
      BY DEF HandsInv, AtWork
    <3>2. g # h /\ ~(g.job = h.job /\ g.attempt = h.attempt)
      BY <1>0, <2>1, <3>1 DEF ContractInv
    <3> QED BY <2>2, <2>3, <3>1, <3>2 DEF AtWork
  <2>5. AtWork(x)'
    BY <2>2, <2>3 DEF AtWork
  <2> QED BY <2>1, <2>4, <2>5 DEF HandsInv
<1>4. ASSUME NEW h \in hands, NEW x \in ForJob(h), renders' = renders \ {x},
             NEW p, Move(h, p), UNCHANGED <<status, attempts>>
      PROVE  HandsInv'
  <2>1. PICK k : hands' = (hands \ {h}) \cup {k}
    BY <1>0, <1>4, HandMoves
  <2>2. ASSUME NEW y \in renders' PROVE AtWork(y)'
    <3>1. PICK g \in hands : g.job = y.job /\ g.attempt = y.attempt /\ g.phase = "run"
      BY <1>4 DEF HandsInv, AtWork
    <3>2. g # h
      BY <1>4, <3>1 DEF ForJob, HandsInv
    <3> QED BY <2>1, <3>1, <3>2 DEF AtWork
  <2> QED BY <1>4, <2>2 DEF HandsInv
<1>5. ASSUME NEW h \in hands, RenderDone(h) \/ RenderFail(h) PROVE HandsInv'
  <2>1. PICK x \in ForJob(h) : renders' = renders \ {x} /\ (HandlerReturns(h) \/ HandlerThrows(h))
    BY <1>5, DoneWrites, FailWrites
  <2> QED BY <1>4, <2>1 DEF HandlerReturns, HandlerThrows
<1>6. ASSUME NEW h \in hands, RenderThrows(h) PROVE HandsInv'
  BY <1>4, <1>6 DEF RenderThrows, HandlerThrows
<1>7. ASSUME NEW x \in renders, RenderMark(x) PROVE HandsInv'
  <2> DEFINE y == [x EXCEPT !.marked = TRUE]
  <2>1. renders' = (renders \ {x}) \cup {y} /\ UNCHANGED jobVars
    BY <1>7, MarkWrites
  <2>2. y.job = x.job /\ y.attempt = x.attempt
    BY <1>0 DEF RenderType
  <2> HIDE DEF y
  <2>3. AtWork(y) /\ \A z \in renders' : AtWork(z)
    BY <2>1, <2>2 DEF HandsInv, AtWork
  <2>4. \A z \in renders' : AtWork(z)'
    BY <2>1, <2>3 DEF AtWork, jobVars
  <2> QED BY <2>1, <2>2, <2>4 DEF HandsInv, jobVars
<1>8. CASE QueueStep
  BY <1>0, <1>8, QueueKeepsRunning DEF QueueStep, renderVars, HandsInv, AtWork
<1>9. CASE WorkerDies
  <2>1. PICK h \in hands : Lose({h}) /\ renders' = renders \ ForJob(h)
    BY <1>9 DEF WorkerDies
  <2>2. ASSUME NEW y \in renders' PROVE AtWork(y)'
    <3>1. PICK g \in hands : g.job = y.job /\ g.attempt = y.attempt /\ g.phase = "run"
      BY <2>1 DEF HandsInv, AtWork
    <3> QED BY <2>1, <3>1 DEF ForJob, Lose, AtWork
  <2> QED BY <2>1, <2>2 DEF HandsInv, Lose
<1> QED BY <1>1, <1>2, <1>3, <1>5, <1>6, <1>7, <1>8, <1>9, StepCases

-----------------------------------------------------------------------------
\* A job that will write its version for the first time.
Fresh(j) ==
    \/ status[j] = "waiting" /\ attempts[j] = 0
    \/ \E h \in hands : h.job = j /\ h.phase \in {"claimed", "run"}

\* Of a version of which no job has been tried again: it waits while there is a fresh job,
\* of which there is one, and what is being rendered is what it contains.
MatchInv ==
    /\ \A j \in Jobs : Fresh(j) =>
          versions[target[j]].render \in Pending \/ Retried(target[j])
    /\ \A i, j \in Jobs : Fresh(i) /\ Fresh(j) /\ target[i] = target[j] =>
          i = j \/ Retried(target[j])
    /\ \A x \in renders :
          x.content = versions[target[x.job]].content \/ Retried(target[x.job])
    /\ ExportsMatch

\* A job that has not been tried again is in one hand at most.
LEMMA OneHand ==
    ASSUME ContractInv, NEW g \in hands, NEW h \in hands, g.job = h.job, attempts[h.job] <= 1
    PROVE  g = h /\ h.attempt = 1 /\ attempts[h.job] = 1
<1>1. g.attempt \in Nat \ {0} /\ h.attempt \in Nat \ {0} /\ attempts[h.job] \in Nat
  <2>1. g \in HandType /\ h \in HandType /\ attempts \in [Jobs -> 0..MaxAttempts]
    BY DEF ContractInv, ContractTypeOK, HandType
  <2> QED BY <2>1, Numbers DEF HandType
<1>2. g.attempt <= attempts[h.job] /\ h.attempt <= attempts[h.job]
  BY DEF ContractInv
<1>3. g.attempt = 1 /\ h.attempt = 1 /\ attempts[h.job] = 1
  BY <1>1, <1>2
<1> QED BY <1>3 DEF ContractInv

\* No attempt is taken back.
LEMMA AttemptsGrow ==
    ASSUME ReportInv, [Next]_vars, NEW j \in Jobs
    PROVE  attempts[j] \in Nat /\ attempts'[j] \in Nat /\ attempts[j] <= attempts'[j]
<1>1. attempts \in [Jobs -> Nat] /\ [ContractNext]_jobVars
  BY Numbers, NextIsContract DEF ReportInv, ContractInv, ContractTypeOK, vars
<1>2. attempts' = attempts \/ \E S \in SUBSET Jobs : Claim(S)
  BY <1>1 DEF ContractNext, Submit, GiveUp, Begin, HandlerReturns, HandlerThrows, Complete,
     CompleteThrows, Fail, Lose, jobVars
<1> QED BY <1>1, <1>2 DEF Claim

\* A job is for the version it was queued for.
LEMMA TargetsStay ==
    ASSUME ReportInv, [Next]_vars, NEW j \in Jobs, attempts[j] # 0
    PROVE  target'[j] = target[j]
<1>1. ASSUME NEW i \in Jobs, QueueGeneration(i) PROVE target'[j] = target[j]
  <2>1. attempts[i] = 0
    BY <1>1, SubmitsOne DEF QueueGeneration, ReportInv, ContractInv
  <2> QED BY <1>1, <2>1 DEF QueueGeneration, ReportInv, WorkInv
<1>2. CASE OtherStep
  BY <1>2, RowsFollow DEF renderVars
<1>3. CASE \/ \E h \in hands : RenderBegin(h) \/ RenderDone(h) \/ RenderFail(h)
                                  \/ RenderThrows(h)
           \/ \E x \in renders : RenderMark(x)
           \/ QueueStep \/ WorkerDies
  BY <1>3 DEF RenderBegin, RenderDone, RenderFail, RenderThrows, RenderMark, QueueStep,
     WorkerDies, renderVars
<1> QED BY <1>1, <1>2, <1>3, StepCases

\* A retry stays a retry.
LEMMA RetriedStays ==
    ASSUME ReportInv, [Next]_vars, NEW v, Retried(v) PROVE Retried(v)'
<1>1. PICK j \in Jobs : target[j] = v /\ attempts[j] > 1
  BY DEF Retried
<1>2. attempts'[j] > 1 /\ target'[j] = v
  BY <1>1, AttemptsGrow, TargetsStay
<1> QED BY <1>2 DEF Retried

\* So do the versions of jobs that keep their version.
LEMMA RetriedJobStays ==
    ASSUME ReportInv, [Next]_vars, NEW j, target'[j] = target[j], Retried(target[j])
    PROVE  Retried(target[j])'
<1>1. PICK i \in Jobs : target[i] = target[j] /\ attempts[i] > 1
  BY DEF Retried
<1>2. attempts'[i] > 1 /\ target'[i] = target'[j]
  BY <1>1, AttemptsGrow, TargetsStay
<1> QED BY <1>2 DEF Retried

\* No job becomes fresh, unless a version of retries has one more.
FreshStays == \A j \in Jobs : Fresh(j)' => Fresh(j) \/ Retried(target[j])'

\* The queue makes no job fresh.
LEMMA QueueKeepsFresh ==
    ASSUME ReportInv, HandsInv, QueueStep PROVE FreshStays
<1>0. /\ status \in [Jobs -> {"absent", "waiting", "running", "completed", "dead_letter"}]
      /\ attempts \in [Jobs -> Nat] /\ ContractInv
  BY Numbers DEF ReportInv, ContractInv, ContractTypeOK
<1>1. ASSUME NEW S \in SUBSET Jobs, Claim(S) PROVE FreshStays
  <2> DEFINE new == {Hand(j, attempts[j] + 1, "claimed") : j \in S}
  <2>1. /\ \A j \in S : status[j] \in {"waiting", "running"}
        /\ status' = [j \in Jobs |-> IF j \in S THEN "running" ELSE status[j]]
        /\ attempts' = [j \in Jobs |-> IF j \in S THEN attempts[j] + 1 ELSE attempts[j]]
        /\ hands' = hands \cup new
    BY <1>1 DEF Claim
  <2>2. \A g \in new : g.job \in S
    BY DEF Hand
  <2> HIDE DEF new
  <2>3. ASSUME NEW j \in S, attempts[j] # 0 PROVE Retried(target[j])'
    <3>1. attempts'[j] > 1
      BY <1>0, <2>1, <2>3
    <3>2. \E i \in Jobs : target'[i] = target'[j] /\ attempts'[i] > 1
      BY <3>1
    <3> QED BY <3>2 DEF Retried
  <2>4. ASSUME NEW j \in S, attempts[j] = 0 PROVE Fresh(j)
    BY <2>1, <2>4 DEF HandsInv, Fresh
  <2>5. ASSUME NEW j \in Jobs \ S, Fresh(j)' PROVE Fresh(j)
    BY <2>1, <2>2, <2>5 DEF Fresh
  <2> QED BY <2>3, <2>4, <2>5 DEF FreshStays
<1>2. ASSUME NEW S \in SUBSET Jobs, GiveUp(S) PROVE FreshStays
  BY <1>0, <1>2 DEF GiveUp, FreshStays, Fresh
<1>3. ASSUME NEW h \in hands, Complete(h) \/ Fail(h) PROVE FreshStays
  <2>1. hands' = hands \ {h} /\ attempts' = attempts
    BY <1>3 DEF Complete, Fail
  <2>2. ASSUME NEW j \in Jobs, status'[j] = "waiting", attempts'[j] = 0
        PROVE  status[j] = "waiting" /\ attempts[j] = 0
    BY <1>0, <1>3, <2>1, <2>2 DEF Complete, Fail, SettleNewest, Newest, HandsInv
  <2> QED BY <2>1, <2>2 DEF FreshStays, Fresh
<1>4. ASSUME NEW h \in hands, CompleteThrows(h) PROVE FreshStays
  <2>1. PICK k : /\ hands' = (hands \ {h}) \cup {k} /\ k.phase = "err" /\ attempts' = attempts
    BY <1>0, <1>4, HandMoves DEF CompleteThrows
  <2>2. ASSUME NEW j \in Jobs, status'[j] = "waiting" PROVE status[j] = "waiting"
    BY <1>0, <1>4, <2>2 DEF CompleteThrows, SettleNewest
  <2> QED BY <2>1, <2>2 DEF FreshStays, Fresh
<1> QED BY <1>1, <1>2, <1>3, <1>4 DEF QueueStep

\* So do handlers that begin, and those that end make none fresh.
LEMMA MoveKeepsFresh ==
    ASSUME ReportInv, NEW h \in hands, NEW p, Move(h, p), UNCHANGED <<status, attempts>>
    PROVE  /\ h.phase = "claimed" \/ p \in {"ok", "err"} => FreshStays
           /\ p \in {"ok", "err"} /\ attempts[h.job] <= 1 => ~Fresh(h.job)'
<1>0. ContractInv /\ h \in HandType
  BY DEF ReportInv, ContractInv, ContractTypeOK, HandType
<1>1. PICK k : /\ hands' = (hands \ {h}) \cup {k}
               /\ k.job = h.job /\ k.attempt = h.attempt /\ k.phase = p
  BY <1>0, HandMoves
<1>2. ASSUME h.phase = "claimed" \/ p \in {"ok", "err"} PROVE FreshStays
  BY <1>1, <1>2 DEF FreshStays, Fresh
<1>3. ASSUME p \in {"ok", "err"}, attempts[h.job] <= 1 PROVE ~Fresh(h.job)'
  <2>1. attempts[h.job] = 1 /\ \A g \in hands : g.job = h.job => g = h
    BY <1>0, <1>3, OneHand
  <2> QED BY <1>1, <1>3, <2>1 DEF Fresh
<1> QED BY <1>2, <1>3

\* What a step may do to a version's exports: as above, or report progress.
ExportsFollow(v) ==
    RowFollows(v) \/ (versions'[v].render \in Pending /\ versions'[v].content = versions[v].content)

\* No handler takes up what another one has not read.
RendersFollow == \A x \in renders' : \E y \in renders : y.job = x.job /\ y.content = x.content

\* A version that is being rendered for the first time is waiting.
LEMMA AtWorkIsPending ==
    ASSUME ReportInv, HandsInv, MatchInv, NEW x \in renders
    PROVE  /\ x.job \in Jobs /\ target[x.job] \in VersionNo /\ Fresh(x.job)
           /\ ~Retried(target[x.job]) => /\ versions[target[x.job]].render \in Pending
                                         /\ x.content = versions[target[x.job]].content
<1>1. x.job \in Jobs /\ target[x.job] \in VersionNo
  BY DEF ReportInv, WorkInv, RenderType
<1>2. Fresh(x.job)
  BY DEF HandsInv, AtWork, Fresh
<1> QED BY <1>1, <1>2 DEF MatchInv

\* Where the exports of each version follow its content they stay in order.
LEMMA ExportsStay ==
    ASSUME ReportInv, HandsInv, MatchInv, [Next]_vars, FreshStays, target' = target,
           RendersFollow, \A v \in VersionNo : ExportsFollow(v)
    PROVE  MatchInv'
<1>1. \A j \in Jobs : target[j] \in VersionNo /\ target'[j] = target[j]
  BY DEF ReportInv, WorkInv
<1>2. ASSUME NEW v \in VersionNo, versions[v].render \in Pending
      PROVE  versions'[v].content = versions[v].content
  BY <1>2 DEF ExportsFollow, RowFollows
<1>3. ASSUME NEW v \in VersionNo, versions[v].render \in Pending
      PROVE  versions'[v].render \in Pending
  BY <1>3 DEF ExportsFollow, RowFollows, SameExports
<1>4. ASSUME NEW v \in VersionNo, versions'[v].render = "completed"
      PROVE  versions'[v].exports = versions'[v].content \/ Retried(v)'
  <2>1. SameExports(versions'[v], versions[v]) /\ versions'[v].content = versions[v].content
    BY <1>4 DEF ExportsFollow, RowFollows, Pending
  <2>2. versions[v].exports = versions[v].content \/ Retried(v)
    BY <1>4, <2>1 DEF SameExports, MatchInv, ExportsMatch
  <2> QED BY <2>1, <2>2, RetriedStays DEF SameExports
<1>5. ASSUME NEW j \in Jobs, Fresh(j)', ~Retried(target[j])'
      PROVE  Fresh(j) /\ ~Retried(target[j])
  BY <1>1, <1>5, RetriedJobStays DEF FreshStays
<1>6. ASSUME NEW j \in Jobs, Fresh(j)', ~Retried(target[j])'
      PROVE  versions'[target'[j]].render \in Pending
  BY <1>1, <1>3, <1>5, <1>6 DEF MatchInv
<1>7. ASSUME NEW i \in Jobs, NEW j \in Jobs, Fresh(i)', Fresh(j)', target'[i] = target'[j],
             ~Retried(target[j])'
      PROVE  i = j
  BY <1>1, <1>5, <1>7 DEF MatchInv
<1>8. ASSUME NEW x \in renders', ~Retried(target[x.job])'
      PROVE  x.content = versions'[target'[x.job]].content
  <2>1. PICK y \in renders : y.job = x.job /\ y.content = x.content
    BY DEF RendersFollow
  <2>2. x.job \in Jobs
    BY <2>1, AtWorkIsPending
  <2>3. ~Retried(target[x.job])
    BY <1>1, <1>8, <2>2, RetriedJobStays
  <2>4. /\ versions[target[x.job]].render \in Pending
        /\ y.content = versions[target[x.job]].content
    BY <2>1, <2>3, AtWorkIsPending
  <2> QED BY <1>1, <1>2, <2>1, <2>2, <2>4
<1> QED BY <1>4, <1>6, <1>7, <1>8 DEF MatchInv, ExportsMatch

\* At first there is nothing to export.
LEMMA InitExports == Init => HandsInv /\ MatchInv
<1> SUFFICES ASSUME Init PROVE HandsInv /\ MatchInv
  OBVIOUS
<1>1. \A v \in VersionNo : versions[v] = NoVersion
  BY DEF Init
<1>2. \A v \in VersionNo : versions[v].render = "not_requested"
  BY <1>1, EmptyRows
<1>3. /\ hands = {} /\ renders = {} /\ \A j \in Jobs : status[j] = "absent"
  BY DEF Init, ContractInit
<1> QED BY <1>2, <1>3 DEF HandsInv, MatchInv, Fresh, ExportsMatch

\* A render job is queued for a version that waits for none.
LEMMA QueueKeepsExports ==
    ASSUME ReportInv, HandsInv, MatchInv, NEW j \in Jobs, QueueGeneration(j)
    PROVE  MatchInv'
<1>1. PICK v \in VersionNo : v = report.current
  BY DEF ReportInv, RowsInv, RowsTyped, ReportType
<1> DEFINE s == [versions[v] EXCEPT !.render = "queued"]
<1>2. /\ Changes(v, s) /\ versions[v].render \notin Pending
  BY <1>1, QueueEffect DEF ReportInv, Current, QueueGeneration, Pending
<1>3. s.render = "queued" /\ s.content = versions[v].content
  <2>1. versions[v] \in VersionType /\ "queued" \in RenderStatus
    BY DEF ReportInv, RowsInv, RowsTyped, RenderStatus
  <2> QED BY <2>1, RenderedRow
<1>4. /\ status[j] = "absent" /\ status' = [status EXCEPT ![j] = "waiting"]
      /\ target' = [target EXCEPT ![j] = v] /\ UNCHANGED <<attempts, hands, renders>>
  <2>1. Submit({j}) /\ target' = [target EXCEPT ![j] = v] /\ UNCHANGED <<attempts, hands, renders>>
    BY <1>1 DEF QueueGeneration, Submit
  <2> QED BY <2>1, SubmitsOne DEF ReportInv, ContractInv
<1>5. versions'[v] = s /\ \A w \in VersionNo : w # v => versions'[w] = versions[w]
  BY <1>2 DEF Changes
<1>6. /\ DOMAIN status = Jobs /\ target \in [Jobs -> VersionNo] /\ attempts[j] = 0
      /\ renders \subseteq RenderType
  BY <1>4 DEF ReportInv, ContractInv, ContractTypeOK, WorkInv
<1> HIDE DEF s
<1>7. ~Fresh(j)
  <2>1. ASSUME NEW h \in hands, h.job = j PROVE FALSE
    BY <1>6, <2>1, OneHand DEF ReportInv
  <2> QED BY <1>4, <2>1 DEF Fresh
<1>8. ASSUME NEW w, Retried(w) PROVE Retried(w)'
  <2>1. PICK i \in Jobs : target[i] = w /\ attempts[i] > 1
    BY <1>8 DEF Retried
  <2>2. target'[i] = w /\ attempts'[i] > 1
    BY <1>4, <1>6, <2>1
  <2> QED BY <2>2 DEF Retried
<1>9. ASSUME NEW i \in Jobs, Fresh(i)' PROVE Fresh(i) \/ i = j
  BY <1>4, <1>6, <1>9 DEF Fresh
<1>10. ASSUME NEW i \in Jobs, i # j
       PROVE  target'[i] = target[i] /\ target[i] \in VersionNo
  BY <1>4, <1>6, <1>10
<1>11. target'[j] = v
  BY <1>4, <1>6
<1>12. ASSUME NEW i \in Jobs, i # j, Retried(target[i]) PROVE Retried(target[i])'
  <2>2. PICK k \in Jobs : target[k] = target[i] /\ attempts[k] > 1
    BY <1>12 DEF Retried
  <2>3. attempts'[k] > 1 /\ target'[k] = target'[i]
    BY <1>4, <1>6, <1>12, <2>2
  <2> QED BY <2>3 DEF Retried
<1>13. ASSUME NEW i \in Jobs, Fresh(i)', ~Retried(target[i])'
       PROVE  versions'[target'[i]].render \in Pending
  <2>1. CASE i = j
    BY <1>3, <1>5, <1>11, <2>1 DEF Pending
  <2>2. CASE i # j
    <3>1. versions[target[i]].render \in Pending
      BY <1>9, <1>12, <1>13, <2>2 DEF MatchInv
    <3> QED BY <1>2, <1>5, <1>10, <2>2, <3>1
  <2> QED BY <2>1, <2>2
<1>14. ASSUME NEW i \in Jobs, NEW k \in Jobs, Fresh(i)', Fresh(k)', target'[i] = target'[k],
              ~Retried(target[k])'
       PROVE  i = k
  <2>0. ~Retried(target[i])'
    BY <1>14 DEF Retried
  <2>1. CASE i # j /\ k # j
    BY <1>9, <1>10, <1>12, <1>14, <2>1 DEF MatchInv
  <2>2. ASSUME NEW m \in Jobs, m # j, Fresh(m)', ~Retried(target[m])' PROVE target'[m] # v
    BY <1>2, <1>9, <1>10, <1>12, <2>2 DEF MatchInv
  <2> QED BY <1>11, <1>14, <2>0, <2>1, <2>2
<1>15. ASSUME NEW x \in renders', ~Retried(target[x.job])'
       PROVE  x.content = versions'[target'[x.job]].content
  <2>1. x \in renders /\ x.job \in Jobs /\ x.job # j
    BY <1>4, <1>6, <1>7, AtWorkIsPending
  <2>2. x.content = versions[target[x.job]].content
    BY <1>12, <1>15, <2>1, AtWorkIsPending
  <2> QED BY <1>3, <1>5, <1>10, <2>1, <2>2
<1>16. ASSUME NEW w \in VersionNo, versions'[w].render = "completed"
       PROVE  versions'[w].exports = versions'[w].content \/ Retried(w)'
  BY <1>3, <1>5, <1>8, <1>16 DEF MatchInv, ExportsMatch
<1> QED BY <1>13, <1>14, <1>15, <1>16 DEF MatchInv, ExportsMatch

\* A handler reads the version it will render.
LEMMA BeginKeepsExports ==
    ASSUME ReportInv, HandsInv, MatchInv, [Next]_vars, NEW h \in hands, RenderBegin(h)
    PROVE  MatchInv'
<1>0. h.job \in Jobs /\ target[h.job] \in VersionNo
  BY HandsAreOfJobs DEF ReportInv, WorkInv
<1>1. PICK n : n = versions[target[h.job]].content
  OBVIOUS
<1>2. PICK x : x = [job |-> h.job, attempt |-> h.attempt, content |-> n, marked |-> FALSE]
  OBVIOUS
<1>3. /\ renders' = renders \cup {x} /\ UNCHANGED <<versions, target>>
      /\ h.phase = "claimed" /\ Move(h, "run") /\ UNCHANGED <<status, attempts>>
  BY <1>1, <1>2 DEF RenderBegin, Begin, reportVars
<1>4. x.job = h.job /\ x.content = n
  BY <1>2
<1>5. FreshStays
  BY <1>3, MoveKeepsFresh
<1>6. \A j \in Jobs : Retried(target[j])' <=> Retried(target[j])
  BY <1>3 DEF Retried
<1>7. \A v \in VersionNo : Retried(v)' <=> Retried(v)
  BY <1>3 DEF Retried
<1>8. ASSUME NEW j \in Jobs, Fresh(j)', ~Retried(target[j])'
      PROVE  versions'[target'[j]].render \in Pending
  BY <1>3, <1>5, <1>6, <1>8 DEF MatchInv, FreshStays
<1>9. ASSUME NEW i \in Jobs, NEW j \in Jobs, Fresh(i)', Fresh(j)', target'[i] = target'[j],
             ~Retried(target[j])'
      PROVE  i = j
  <2>1. ~Retried(target[i])'
    BY <1>9 DEF Retried
  <2> QED BY <1>3, <1>5, <1>6, <1>9, <2>1 DEF MatchInv, FreshStays
<1>10. ASSUME NEW y \in renders', ~Retried(target[y.job])'
       PROVE  y.content = versions'[target'[y.job]].content
  <2>1. CASE y = x
    BY <1>1, <1>3, <1>4, <2>1
  <2>2. CASE y \in renders
    BY <1>3, <1>6, <1>10, <2>2, AtWorkIsPending
  <2> QED BY <1>3, <2>1, <2>2
<1>11. ExportsMatch'
  BY <1>3, <1>7 DEF MatchInv, ExportsMatch
<1> QED BY <1>8, <1>9, <1>10, <1>11 DEF MatchInv

\* A handler ends, and its version has its exports or is known to have none.
LEMMA EndKeepsExports ==
    ASSUME ReportInv, HandsInv, MatchInv, [Next]_vars, NEW h \in hands,
           RenderDone(h) \/ RenderFail(h)
    PROVE  MatchInv'
<1>1. PICK x \in ForJob(h) :
         /\ renders' = renders \ {x} /\ (HandlerReturns(h) \/ HandlerThrows(h))
         /\ \/ Rendering(x, [versions[target[x.job]] EXCEPT !.render = "completed",
                                                            !.exports = x.content])
            \/ Rendering(x, [versions[target[x.job]] EXCEPT !.render = "failed"])
  BY DoneWrites, FailWrites
<1>2. /\ x \in renders /\ x.job = h.job /\ x.job \in Jobs /\ x.content \in 0..MaxContent
      /\ x.attempt = h.attempt
  BY Numbers DEF ForJob, ReportInv, WorkInv, RenderType
<1>3. PICK v \in VersionNo : v = target[x.job]
  BY <1>2 DEF ReportInv, WorkInv
<1>4. PICK row :
         /\ Changes(v, row) /\ target' = target /\ row.content = versions[v].content
         /\ row.render \in {"completed", "failed"}
         /\ row.render = "completed" => row.exports = x.content
  <2>1. versions[v] \in VersionType
    BY DEF ReportInv, RowsInv, RowsTyped
  <2>2. CASE Rendering(x, [versions[v] EXCEPT !.render = "completed", !.exports = x.content])
    <3> DEFINE row == [versions[v] EXCEPT !.render = "completed", !.exports = x.content]
    <3>1. Changes(v, row) /\ target' = target
      BY <1>2, <1>3, <2>2, HandlerEffect DEF Rendering
    <3>2. row.content = versions[v].content /\ row.render = "completed"
          /\ row.exports = x.content
      BY <1>2, <2>1, ExportedRow
    <3> HIDE DEF row
    <3> QED BY <3>1, <3>2
  <2>3. CASE Rendering(x, [versions[v] EXCEPT !.render = "failed"])
    <3> DEFINE row == [versions[v] EXCEPT !.render = "failed"]
    <3>1. Changes(v, row) /\ target' = target
      BY <1>2, <1>3, <2>3, HandlerEffect DEF Rendering
    <3>2. "failed" \in RenderStatus
      BY DEF RenderStatus
    <3>3. row.content = versions[v].content /\ row.render = "failed"
      BY <2>1, <3>2, RenderedRow
    <3> HIDE DEF row
    <3> QED BY <3>1, <3>3
  <2> QED BY <1>1, <1>3, <2>2, <2>3
<1>5. /\ FreshStays /\ UNCHANGED <<status, attempts>>
      /\ attempts[h.job] <= 1 => ~Fresh(h.job)'
  <2>1. PICK p \in {"ok", "err"} : Move(h, p) /\ UNCHANGED <<status, attempts>>
    BY <1>1 DEF HandlerReturns, HandlerThrows
  <2> QED BY <2>1, MoveKeepsFresh
<1>6. versions'[v] = row /\ \A w \in VersionNo : w # v => versions'[w] = versions[w]
  BY <1>4 DEF Changes
<1>7. \A j \in Jobs : target[j] \in VersionNo /\ (Retried(target[j])' <=> Retried(target[j]))
  BY <1>4, <1>5 DEF ReportInv, WorkInv, Retried
<1>8. \A w \in VersionNo : Retried(w)' <=> Retried(w)
  BY <1>4, <1>5 DEF Retried
<1>9. ASSUME ~Retried(v) PROVE attempts[h.job] <= 1 /\ x.content = versions[v].content
  <2>1. attempts[h.job] \in Nat /\ ~(attempts[h.job] > 1)
    BY <1>2, <1>3, <1>9, AttemptsGrow DEF Retried
  <2>2. x.content = versions[v].content
    BY <1>2, <1>3, <1>9, AtWorkIsPending
  <2> QED BY <2>1, <2>2
<1>10. ASSUME NEW j \in Jobs, Fresh(j)', ~Retried(target[j])' PROVE Fresh(j) /\ target[j] # v
  <2>1. Fresh(j) /\ ~Retried(target[j])
    BY <1>5, <1>7, <1>10 DEF FreshStays
  <2>2. ASSUME target[j] = v PROVE FALSE
    <3>1. ~Retried(v) /\ Fresh(x.job)
      BY <1>2, <2>1, <2>2, AtWorkIsPending
    <3>2. j = h.job
      BY <1>2, <1>3, <2>1, <2>2, <3>1 DEF MatchInv
    <3> QED BY <1>5, <1>9, <1>10, <3>1, <3>2
  <2> QED BY <2>1, <2>2
<1>11. ASSUME NEW j \in Jobs, Fresh(j)', ~Retried(target[j])'
       PROVE  versions'[target'[j]].render \in Pending
  BY <1>4, <1>6, <1>7, <1>10, <1>11 DEF MatchInv
<1>12. ASSUME NEW i \in Jobs, NEW j \in Jobs, Fresh(i)', Fresh(j)', target'[i] = target'[j],
              ~Retried(target[j])'
       PROVE  i = j
  <2>1. ~Retried(target[i])'
    BY <1>12 DEF Retried
  <2> QED BY <1>4, <1>7, <1>10, <1>12, <2>1 DEF MatchInv
<1>13. ASSUME NEW y \in renders', ~Retried(target[y.job])'
       PROVE  y.content = versions'[target'[y.job]].content
  <2>1. y \in renders /\ y.job \in Jobs /\ target[y.job] \in VersionNo
    BY <1>1, AtWorkIsPending
  <2>2. y.content = versions[target[y.job]].content
    BY <1>7, <1>13, <2>1, AtWorkIsPending
  <2> QED BY <1>4, <1>6, <2>1, <2>2
<1>14. ASSUME NEW w \in VersionNo, versions'[w].render = "completed"
       PROVE  versions'[w].exports = versions'[w].content \/ Retried(w)'
  BY <1>4, <1>6, <1>8, <1>9, <1>14 DEF MatchInv, ExportsMatch
<1> QED BY <1>11, <1>12, <1>13, <1>14 DEF MatchInv, ExportsMatch

\* A handler reports that it is at work.
LEMMA MarkKeepsExports ==
    ASSUME ReportInv, HandsInv, MatchInv, [Next]_vars, NEW x \in renders, RenderMark(x)
    PROVE  MatchInv'
<1>0. PICK y : y = [x EXCEPT !.marked = TRUE]
  OBVIOUS
<1>1. /\ Rendering(x, [versions[target[x.job]] EXCEPT !.render = "running"])
      /\ renders' = (renders \ {x}) \cup {y} /\ UNCHANGED jobVars
  BY <1>0, MarkWrites
<1>2. y.job = x.job /\ y.content = x.content /\ x.job \in Jobs
  BY <1>0 DEF ReportInv, WorkInv, RenderType
<1>3. PICK v \in VersionNo : v = target[x.job]
  BY <1>2 DEF ReportInv, WorkInv
<1>4. Changes(v, [versions[v] EXCEPT !.render = "running"]) /\ target' = target
  BY <1>1, <1>3, HandlerEffect DEF Rendering
<1>5. versions[v] \in VersionType /\ "running" \in RenderStatus
  BY DEF ReportInv, RowsInv, RowsTyped, RenderStatus
<1>6. /\ versions'[v].render = "running" /\ versions'[v].content = versions[v].content
      /\ \A w \in VersionNo : w # v => versions'[w] = versions[w]
  BY <1>4, <1>5, RenderedRow DEF Changes
<1>7. ASSUME NEW w \in VersionNo PROVE ExportsFollow(w)
  BY <1>6 DEF ExportsFollow, RowFollows, SameExports, Pending
<1>8. RendersFollow /\ FreshStays
  BY <1>1, <1>2 DEF RendersFollow, FreshStays, Fresh, jobVars
<1> QED BY <1>4, <1>7, <1>8, ExportsStay

\* Every step keeps the exports of what has not been tried again in step.
LEMMA MatchKeeps ==
    ASSUME ReportInv, HandsInv, MatchInv, [Next]_vars PROVE MatchInv'
<1>1. ASSUME versions' = versions PROVE \A v \in VersionNo : ExportsFollow(v)
  BY <1>1 DEF ExportsFollow, RowFollows, SameExports
<1>2. CASE OtherStep
  <2>1. (\A v \in VersionNo : ExportsFollow(v)) /\ UNCHANGED <<renderVars, jobVars>>
    BY <1>2, RowsFollow DEF ExportsFollow
  <2>2. RendersFollow /\ FreshStays
    BY <2>1 DEF RendersFollow, FreshStays, Fresh, renderVars, jobVars
  <2> QED BY <2>1, <2>2, ExportsStay DEF renderVars
<1>3. CASE QueueStep
  <2>1. FreshStays /\ UNCHANGED <<versions, target, renders>>
    BY <1>3, QueueKeepsFresh DEF QueueStep, reportVars, renderVars
  <2>2. RendersFollow
    BY <2>1 DEF RendersFollow
  <2> QED BY <1>1, <2>1, <2>2, ExportsStay
<1>4. CASE WorkerDies
  <2>1. /\ hands' \subseteq hands /\ UNCHANGED <<status, attempts, versions, target>>
        /\ renders' \subseteq renders
    BY <1>4 DEF WorkerDies, Lose, reportVars
  <2>2. RendersFollow /\ FreshStays
    BY <2>1 DEF RendersFollow, FreshStays, Fresh
  <2> QED BY <1>1, <2>1, <2>2, ExportsStay
<1>5. ASSUME NEW h \in hands, RenderThrows(h) PROVE MatchInv'
  <2>1. /\ Move(h, "err") /\ UNCHANGED <<status, attempts, versions, target>>
        /\ renders' \subseteq renders
    BY <1>5 DEF RenderThrows, HandlerThrows, reportVars
  <2>2. RendersFollow /\ FreshStays
    BY <2>1, MoveKeepsFresh DEF RendersFollow
  <2> QED BY <1>1, <2>1, <2>2, ExportsStay
<1> QED BY <1>2, <1>3, <1>4, <1>5, StepCases, QueueKeepsExports, BeginKeepsExports,
           EndKeepsExports, MarkKeepsExports

-----------------------------------------------------------------------------
(***************************************************************************)
(* Jobs for what waits, where no lease runs out under a live worker.       *)
(***************************************************************************)

Faults == Events \cap {"crash", "dberror"} # {}
HeldIn(j, P) == \E h \in hands : h.job = j /\ h.phase \in P

\* A job that will still write its version, or that will end as a dead letter.
Serves(j) ==
    \/ status[j] = "waiting"
    \/ status[j] = "running" /\ HeldIn(j, {"claimed", "run"})
    \/ Faults /\ status[j] = "running" /\ ~HeldIn(j, {"ok"})
    \/ Faults /\ status[j] = "dead_letter"

\* A job is in the hand of its newest attempt only.
SoleInv ==
    \A h \in hands :
        /\ h.attempt = attempts[h.job]
        /\ status[h.job] = "running" \/ (status[h.job] = "completed" /\ h.phase = "err")

ServeInv ==
    /\ SoleInv
    /\ \A v \in VersionNo : versions[v].render \in Pending =>
          \E j \in Jobs : target[j] = v /\ Serves(j)

\* The hands of a job are one.
LEMMA SoleHand ==
    ASSUME ContractInv, SoleInv, NEW g \in hands, NEW h \in hands, g.job = h.job
    PROVE  g = h
BY DEF SoleInv, ContractInv

\* A step of one hand, at the end of which the hand is another one of its attempt, or gone.
LEMMA SoleStep ==
    ASSUME ContractInv, SoleInv, NEW h \in hands, attempts' = attempts,
           \A j \in Jobs : j # h.job => status'[j] = status[j],
           \/ hands' = hands \ {h}
           \/ \E k : /\ hands' = (hands \ {h}) \cup {k}
                     /\ k.job = h.job /\ k.attempt = h.attempt
                     /\ \/ status'[h.job] = "running"
                        \/ status'[h.job] = "completed" /\ k.phase = "err"
    PROVE  SoleInv' /\ \A j \in Jobs : j # h.job /\ Serves(j) => Serves(j)'
<1>1. \A g \in hands : g.job \in Jobs /\ (g # h => g.job # h.job)
  BY SoleHand DEF ContractInv, ContractTypeOK
<1>2. SoleInv'
  BY <1>1 DEF SoleInv
<1>3. ASSUME NEW j \in Jobs, j # h.job PROVE \A P : HeldIn(j, P)' <=> HeldIn(j, P)
  BY <1>3 DEF HeldIn
<1> QED BY <1>2, <1>3 DEF Serves

\* A handler that begins or ends.
LEMMA MoveServes ==
    ASSUME ReportInv, SoleInv, NEW h \in hands, NEW p, Move(h, p),
           h.phase \in {"claimed", "run"}, UNCHANGED <<status, attempts>>
    PROVE  /\ SoleInv' /\ \A j \in Jobs : j # h.job /\ Serves(j) => Serves(j)'
           /\ p = "run" \/ (Faults /\ p = "err") => Serves(h.job)'
<1>0. ContractInv /\ status[h.job] = "running"
  BY DEF ReportInv, SoleInv
<1>1. PICK k : /\ hands' = (hands \ {h}) \cup {k}
               /\ k.job = h.job /\ k.attempt = h.attempt /\ k.phase = p
  BY <1>0, HandMoves
<1>2. SoleInv' /\ \A j \in Jobs : j # h.job /\ Serves(j) => Serves(j)'
  BY <1>0, <1>1, SoleStep
<1>3. \A g \in hands' : g.job = h.job => g = k
  BY <1>0, <1>1, SoleHand
<1>4. ASSUME p = "run" PROVE Serves(h.job)'
  BY <1>0, <1>1, <1>4 DEF Serves, HeldIn
<1>5. ASSUME Faults, p = "err" PROVE Serves(h.job)'
  <2>1. ~HeldIn(h.job, {"ok"})'
    BY <1>1, <1>3, <1>5 DEF HeldIn
  <2> QED BY <1>0, <1>5, <2>1 DEF Serves
<1> QED BY <1>2, <1>4, <1>5

\* The queue takes no job away that is needed.
LEMMA QueueServes ==
    ASSUME ReportInv, SoleInv, "lease" \notin Events, QueueStep
    PROVE  SoleInv' /\ \A j \in Jobs : Serves(j) => Serves(j)'
<1> DEFINE Goal == SoleInv' /\ \A j \in Jobs : Serves(j) => Serves(j)'
<1>0. /\ status \in [Jobs -> {"absent", "waiting", "running", "completed", "dead_letter"}]
      /\ attempts \in [Jobs -> Nat] /\ ContractInv /\ \A g \in hands : g.job \in Jobs
  BY Numbers DEF ReportInv, ContractInv, ContractTypeOK
<1>1. ASSUME NEW S \in SUBSET {j \in Jobs : status[j] = "waiting" \/ LeaseOver(j)},
             NEW g \in hands
      PROVE  status[g.job] # "waiting" /\ g.job \notin S
  <2>1. status[g.job] # "waiting" /\ ~LeaseOver(g.job)
    BY DEF SoleInv, LeaseOver
  <2> QED BY <1>0, <2>1
<1>2. ASSUME NEW S \in SUBSET {j \in Jobs : status[j] = "waiting" \/ LeaseOver(j)}, Claim(S)
      PROVE  Goal
  <2> DEFINE new == {Hand(j, attempts[j] + 1, "claimed") : j \in S}
  <2>1. /\ status' = [j \in Jobs |-> IF j \in S THEN "running" ELSE status[j]]
        /\ attempts' = [j \in Jobs |-> IF j \in S THEN attempts[j] + 1 ELSE attempts[j]]
        /\ hands' = hands \cup new
    BY <1>2 DEF Claim
  <2>2. ASSUME NEW g \in new
        PROVE  g.job \in S /\ g.attempt = attempts[g.job] + 1 /\ g.phase = "claimed"
    BY DEF Hand
  <2>3. ASSUME NEW j \in S PROVE \E g \in new : g.job = j
    <3>1. Hand(j, attempts[j] + 1, "claimed") \in new
      OBVIOUS
    <3> QED BY <3>1, Zenon DEF Hand
  <2> HIDE DEF new
  <2>4. SoleInv'
    <3>1. ASSUME NEW g \in hands
          PROVE  /\ g.attempt = attempts'[g.job]
                 /\ status'[g.job] = "running" \/ (status'[g.job] = "completed" /\ g.phase = "err")
      BY <1>0, <1>1, <2>1 DEF SoleInv
    <3>2. ASSUME NEW g \in new PROVE g.attempt = attempts'[g.job] /\ status'[g.job] = "running"
      BY <2>1, <2>2
    <3> QED BY <2>1, <3>1, <3>2 DEF SoleInv
  <2>5. ASSUME NEW j \in S PROVE Serves(j)'
    <3>1. PICK g \in new : g.job = j
      BY <2>3
    <3>2. HeldIn(j, {"claimed", "run"})' /\ status'[j] = "running"
      BY <2>1, <2>2, <3>1 DEF HeldIn
    <3> QED BY <3>2 DEF Serves
  <2>6. ASSUME NEW j \in Jobs \ S, Serves(j) PROVE Serves(j)'
    <3>1. status'[j] = status[j] /\ \A P : HeldIn(j, P)' <=> HeldIn(j, P)
      BY <2>1, <2>2 DEF HeldIn
    <3> QED BY <2>6, <3>1 DEF Serves
  <2> QED BY <2>4, <2>5, <2>6
<1>3. ASSUME NEW S \in SUBSET {j \in Jobs : status[j] = "waiting" \/ LeaseOver(j)},
             GiveUp({j \in S : status[j] = "running"})
      PROVE  Goal
  <2>1. /\ \A j \in Jobs : status'[j] = IF j \in S /\ status[j] = "running"
                                        THEN "dead_letter" ELSE status[j]
        /\ UNCHANGED <<attempts, hands>>
    BY <1>3 DEF GiveUp
  <2>2. SoleInv'
    BY <1>0, <1>1, <2>1 DEF SoleInv
  <2>3. ASSUME NEW j \in Jobs, Serves(j) PROVE Serves(j)'
    <3>1. \A P : HeldIn(j, P)' <=> HeldIn(j, P)
      BY <2>1 DEF HeldIn
    <3>2. CASE j \in S /\ status[j] = "running"
      <4>1. ~HeldIn(j, {"claimed", "run"})
        BY <1>1, <3>2 DEF HeldIn
      <4>2. Faults
        BY <2>3, <3>2, <4>1 DEF Serves
      <4> QED BY <2>1, <3>2, <4>2 DEF Serves
    <3> QED BY <2>1, <2>3, <3>1, <3>2 DEF Serves
  <2> QED BY <2>2, <2>3
<1>4. ASSUME NEW h \in hands, h.phase = "ok" PROVE ~Serves(h.job) /\ status[h.job] = "running"
  <2>1. status[h.job] = "running"
    BY <1>4 DEF SoleInv
  <2>2. HeldIn(h.job, {"ok"}) /\ ~HeldIn(h.job, {"claimed", "run"})
    BY <1>0, <1>4, SoleHand DEF HeldIn
  <2> QED BY <2>1, <2>2 DEF Serves
<1>5. ASSUME NEW h \in hands, Complete(h) PROVE Goal
  <2>1. /\ hands' = hands \ {h} /\ attempts' = attempts
        /\ \A j \in Jobs : j # h.job => status'[j] = status[j]
    BY <1>0, <1>5 DEF Complete, SettleNewest
  <2> QED BY <1>0, <1>4, <1>5, <2>1, SoleStep DEF Complete
<1>6. ASSUME NEW h \in hands, CompleteThrows(h) PROVE Goal
  <2>1. PICK k : /\ hands' = (hands \ {h}) \cup {k}
                 /\ k.job = h.job /\ k.attempt = h.attempt /\ k.phase = "err"
    BY <1>0, <1>6, HandMoves DEF CompleteThrows
  <2>2. ~Serves(h.job) /\ status[h.job] = "running"
    BY <1>4, <1>6 DEF CompleteThrows
  <2>3. /\ attempts' = attempts /\ \A j \in Jobs : j # h.job => status'[j] = status[j]
        /\ status'[h.job] \in {"running", "completed"}
    BY <1>0, <1>6, <2>2 DEF CompleteThrows, SettleNewest
  <2> QED BY <1>0, <2>1, <2>2, <2>3, SoleStep
<1>7. ASSUME NEW h \in hands, Fail(h) PROVE Goal
  <2>1. /\ hands' = hands \ {h} /\ attempts' = attempts /\ h.phase = "err"
        /\ \A j \in Jobs : j # h.job => status'[j] = status[j]
    BY <1>0, <1>7 DEF Fail, SettleNewest
  <2>2. ASSUME Serves(h.job) PROVE Serves(h.job)'
    <3>1. /\ ~HeldIn(h.job, {"claimed", "run"})
      BY <1>0, <2>1, SoleHand DEF HeldIn
    <3>2. Faults /\ status[h.job] = "running"
      BY <2>2, <3>1 DEF Serves, SoleInv
    <3>3. Newest(h)
      BY <3>2 DEF Newest, SoleInv
    <3>4. status'[h.job] \in {"waiting", "dead_letter"}
      BY <1>0, <1>7, <3>3 DEF Fail, SettleNewest
    <3> QED BY <3>2, <3>4 DEF Serves
  <2> QED BY <1>0, <2>1, <2>2, SoleStep
<1> QED BY <1>2, <1>3, <1>5, <1>6, <1>7 DEF QueueStep

\* Jobs that serve go on, and what waits has waited, or has a job.
LEMMA ServedStays ==
    ASSUME ServeInv, SoleInv',
           \A j \in Jobs : Serves(j) => Serves(j)' /\ target'[j] = target[j],
           \A v \in VersionNo : versions'[v].render \in Pending =>
              \/ versions[v].render \in Pending
              \/ \E j \in Jobs : target'[j] = v /\ Serves(j)'
    PROVE  ServeInv'
BY DEF ServeInv

\* Where no lease runs out under a live worker, every step leaves a job to what waits.
LEMMA ServeKeeps ==
    ASSUME ReportInv, HandsInv, ServeInv, "lease" \notin Events, [Next]_vars
    PROVE  ServeInv'
<1>0. /\ ContractInv /\ SoleInv /\ renders \subseteq RenderType
      /\ versions \in [VersionNo -> VersionType]
  BY DEF ReportInv, ServeInv, WorkInv, RowsInv, RowsTyped
<1>1. CASE OtherStep
  <2>1. (\A v \in VersionNo : RowFollows(v)) /\ UNCHANGED <<target, jobVars>>
    BY <1>1, RowsFollow DEF renderVars
  <2>2. SoleInv' /\ \A j \in Jobs : Serves(j) => Serves(j)'
    BY <1>0, <2>1 DEF SoleInv, Serves, HeldIn, jobVars
  <2>3. ASSUME NEW v \in VersionNo, versions'[v].render \in Pending
        PROVE  versions[v].render \in Pending
    BY <2>1, <2>3 DEF RowFollows, SameExports, Pending
  <2> QED BY <2>1, <2>2, <2>3, ServedStays
<1>2. ASSUME NEW j \in Jobs, QueueGeneration(j) PROVE ServeInv'
  <2>1. /\ status[j] = "absent" /\ status' = [status EXCEPT ![j] = "waiting"]
        /\ target' = [target EXCEPT ![j] = report.current] /\ UNCHANGED <<attempts, hands>>
    BY <1>0, <1>2, SubmitsOne DEF QueueGeneration, Submit, ContractInv
  <2>2. DOMAIN status = Jobs /\ DOMAIN target = Jobs /\ \A h \in hands : h.job # j
    BY <1>0, <2>1, HandsAreOfJobs DEF ReportInv, WorkInv, ContractInv, ContractTypeOK
  <2>3. SoleInv'
    BY <1>0, <2>1, <2>2 DEF SoleInv
  <2>4. ASSUME NEW i \in Jobs, Serves(i) PROVE Serves(i)' /\ target'[i] = target[i]
    <3>1. i # j
      BY <2>1, <2>4 DEF Serves
    <3>2. status'[i] = status[i] /\ target'[i] = target[i]
      BY <2>1, <2>2, <3>1
    <3>3. \A P : HeldIn(i, P)' <=> HeldIn(i, P)
      BY <2>1 DEF HeldIn
    <3> QED BY <2>4, <3>2, <3>3 DEF Serves
  <2>5. Serves(j)' /\ target'[j] = report.current
    BY <2>1, <2>2 DEF Serves
  <2>6. \A v \in VersionNo : v # report.current => versions'[v] = versions[v]
    BY <1>2, QueueEffect DEF ReportInv, Changes
  <2> QED BY <2>3, <2>4, <2>5, <2>6, ServedStays
<1>3. ASSUME NEW h \in hands, RenderBegin(h) PROVE ServeInv'
  <2>1. /\ Move(h, "run") /\ h.phase = "claimed" /\ UNCHANGED <<status, attempts>>
        /\ UNCHANGED <<versions, target>>
    BY <1>3 DEF RenderBegin, Begin, reportVars
  <2>2. SoleInv' /\ \A j \in Jobs : Serves(j) => Serves(j)'
    BY <1>0, <2>1, MoveServes
  <2> QED BY <2>1, <2>2, ServedStays
<1>4. ASSUME NEW h \in hands, RenderThrows(h) PROVE ServeInv'
  <2>1. /\ Move(h, "err") /\ h.phase = "run" /\ UNCHANGED <<status, attempts>>
        /\ UNCHANGED <<versions, target>> /\ Faults
    BY <1>4 DEF RenderThrows, HandlerThrows, reportVars, Faults
  <2>2. SoleInv' /\ \A j \in Jobs : Serves(j) => Serves(j)'
    BY <1>0, <2>1, MoveServes
  <2> QED BY <2>1, <2>2, ServedStays
<1>5. ASSUME NEW h \in hands, RenderDone(h) \/ RenderFail(h) PROVE ServeInv'
  <2>1. PICK x \in ForJob(h) :
           /\ HandlerReturns(h) \/ HandlerThrows(h)
           /\ \/ Rendering(x, [versions[target[x.job]] EXCEPT !.render = "completed",
                                                              !.exports = x.content])
              \/ Rendering(x, [versions[target[x.job]] EXCEPT !.render = "failed"])
    BY <1>5, DoneWrites, FailWrites
  <2>2. /\ x \in renders /\ x.job = h.job /\ x.job \in Jobs
        /\ h.phase = "run" /\ UNCHANGED <<status, attempts>>
    BY <1>0, <2>1 DEF ForJob, RenderType, HandlerReturns, HandlerThrows
  <2>3. SoleInv' /\ \A j \in Jobs : j # h.job /\ Serves(j) => Serves(j)'
    BY <1>0, <2>1, <2>2, MoveServes DEF HandlerReturns, HandlerThrows
  <2>4. PICK v \in VersionNo : v = target[h.job]
    BY <2>2 DEF ReportInv, WorkInv
  <2>5. versions[v] \in VersionType /\ v = target[x.job]
    BY <1>0, <2>2, <2>4
  <2>6. /\ versions'[v].render \notin Pending /\ target' = target
        /\ \A w \in VersionNo : w # v => versions'[w] = versions[w]
    <3>1. ASSUME NEW row, Rendering(x, row), row.render \notin Pending
          PROVE  /\ versions'[v].render \notin Pending /\ target' = target
                 /\ \A w \in VersionNo : w # v => versions'[w] = versions[w]
      BY <2>2, <2>5, <3>1, HandlerEffect DEF Rendering, Changes
    <3>2. /\ [versions[v] EXCEPT !.render = "completed", !.exports = x.content].render
                 \notin Pending
          /\ [versions[v] EXCEPT !.render = "failed"].render \notin Pending
      BY <2>5 DEF VersionType, Pending
    <3> QED BY <2>1, <2>5, <3>1, <3>2
  <2>7. ASSUME NEW w \in VersionNo, versions'[w].render \in Pending
        PROVE  \E j \in Jobs : target'[j] = w /\ Serves(j)'
    <3>1. w # v /\ versions[w].render \in Pending
      BY <2>6, <2>7
    <3>2. PICK j \in Jobs : target[j] = w /\ Serves(j)
      BY <3>1 DEF ServeInv
    <3> QED BY <2>3, <2>4, <2>6, <3>1, <3>2
  <2> QED BY <2>3, <2>7 DEF ServeInv
<1>6. ASSUME NEW x \in renders, RenderMark(x) PROVE ServeInv'
  <2>1. /\ Rendering(x, [versions[target[x.job]] EXCEPT !.render = "running"])
        /\ UNCHANGED jobVars
    BY <1>6, MarkWrites
  <2>2. \A v \in VersionNo : v # target[x.job] => versions'[v] = versions[v]
    BY <2>1, HandlerEffect DEF Rendering, Changes
  <2>3. SoleInv' /\ (\A j \in Jobs : Serves(j) => Serves(j)') /\ target' = target
    BY <1>0, <2>1 DEF SoleInv, Serves, HeldIn, jobVars, Rendering
  <2>4. x.job \in Jobs /\ Serves(x.job)
    <3>1. PICK h \in hands : h.job = x.job /\ h.phase = "run"
      BY DEF HandsInv, AtWork
    <3>2. HeldIn(x.job, {"claimed", "run"}) /\ status[x.job] = "running"
      BY <1>0, <3>1 DEF HeldIn, SoleInv
    <3> QED BY <1>0, <3>2 DEF Serves, RenderType
  <2> QED BY <2>2, <2>3, <2>4, ServedStays
<1>7. CASE QueueStep
  <2>1. UNCHANGED <<versions, target>>
    BY <1>7 DEF QueueStep, reportVars, renderVars
  <2> QED BY <1>0, <1>7, <2>1, QueueServes, ServedStays
<1>8. CASE WorkerDies
  <2>1. PICK h \in hands : hands' = hands \ {h}
    BY <1>8 DEF WorkerDies, Lose
  <2>2. UNCHANGED <<status, attempts, versions, target>> /\ Faults
    BY <1>8 DEF WorkerDies, Lose, reportVars, Faults
  <2>3. SoleInv' /\ \A j \in Jobs : j # h.job /\ Serves(j) => Serves(j)'
    BY <1>0, <2>1, <2>2, SoleStep
  <2>4. ASSUME Serves(h.job) PROVE Serves(h.job)'
    <3>1. ~HeldIn(h.job, {"ok"})'
      BY <1>0, <2>1, SoleHand DEF HeldIn
    <3> QED BY <2>2, <2>4, <3>1 DEF Serves, SoleInv
  <2> QED BY <2>2, <2>3, <2>4, ServedStays
<1> QED BY <1>1, <1>2, <1>3, <1>4, <1>5, <1>6, <1>7, <1>8, StepCases

\* What waits has a job that writes it, or a dead letter.
LEMMA ServedHasJob ==
    ASSUME "lease" \notin Events => ServeInv PROVE RenderingHasJob
<1>1. SUFFICES ASSUME ServeInv, NEW v \in VersionNo, versions[v].render \in Pending
               PROVE  \E j \in Jobs :
                         /\ target[j] = v
                         /\ \/ status[j] \in {"waiting", "running"}
                            \/ status[j] = "dead_letter" /\ Faults
  BY DEF RenderingHasJob, Pending, Faults
<1>2. PICK j \in Jobs : target[j] = v /\ Serves(j)
  BY <1>1 DEF ServeInv
<1> QED BY <1>2 DEF Serves

\* At first nothing waits.
LEMMA InitServe == Init => ServeInv
<1> SUFFICES ASSUME Init PROVE ServeInv
  OBVIOUS
<1>1. \A v \in VersionNo : versions[v] = NoVersion
  BY DEF Init
<1>2. hands = {}
  BY DEF Init, ContractInit
<1> QED BY <1>1, <1>2, EmptyRows DEF ServeInv, SoleInv, Pending

-----------------------------------------------------------------------------
(***************************************************************************)
(* What is frozen, while the requests of members come one at a time.       *)
(***************************************************************************)

\* A version is frozen with its exports complete, unless a job of its was tried again.
ReadyInv ==
    \A v \in VersionNo : versions[v].immutable =>
        versions[v].render = "completed" \/ Retried(v)

\* One row is rewritten: what was frozen is kept, and what is frozen now is complete.
LEMMA FrozenRow ==
    ASSUME ReportInv, ReadyInv, [Next]_vars, NEW v \in VersionNo, NEW row, Changes(v, row),
           versions[v].immutable =>
              /\ row.immutable /\ row.content = versions[v].content
              /\ SameExports(row, versions[v]) \/ Retried(v)
              /\ row.approvedBy = versions[v].approvedBy
              /\ row.clientBy = versions[v].clientBy \/ ApprovalCommitted(v),
           row.immutable => versions[v].immutable \/ row.render = "completed"
    PROVE  ReadyInv' /\ \A w \in VersionNo : FrozenKept(w)
<1>1. versions'[v] = row /\ \A w \in VersionNo : w # v => versions'[w] = versions[w]
  BY DEF Changes
<1>2. ASSUME NEW w \in VersionNo
      PROVE  /\ FrozenKept(w)
             /\ versions'[w].immutable => versions'[w].render = "completed" \/ Retried(w)
  BY <1>1 DEF FrozenKept, ReadyInv, SameExports
<1>3. \A w \in VersionNo : Retried(w) => Retried(w)'
  BY RetriedStays
<1> QED BY <1>2, <1>3 DEF ReadyInv

\* Where no version is written all that is published stays.
LEMMA FrozenRows ==
    ASSUME ReportInv, ReadyInv, [Next]_vars, versions' = versions
    PROVE  ReadyInv' /\ \A w \in VersionNo : FrozenKept(w)
<1>1. \A w \in VersionNo : Retried(w) => Retried(w)'
  BY RetriedStays
<1> QED BY <1>1 DEF ReadyInv, FrozenKept

\* What is published keeps its content and approvals, but for the portal's, and its exports,
\* but for retries.
LEMMA FrozenIsKept ==
    ASSUME ReportInv, AloneInv, HandsInv, MatchInv, ReadyInv, [Next]_vars
    PROVE  ReadyInv' /\ \A w \in VersionNo : FrozenKept(w)
<1> DEFINE Goal == ReadyInv' /\ \A w \in VersionNo : FrozenKept(w)
<1>0. PICK v \in VersionNo : v = report.current
  BY DEF ReportInv, RowsInv, RowsTyped, ReportType
<1>1. /\ RowsInv /\ RowsTyped /\ RequestsInv /\ versions \in [VersionNo -> VersionType]
      /\ Current = versions[v] /\ versions[v] \in VersionType
  BY <1>0 DEF ReportInv, RowsInv, RowsTyped, Current
<1>2. ASSUME NEW p \in People, Commit(p) PROVE Goal
  <2>1. CASE p \in Users /\ CommitTransition(p)
    <3>1. PICK q \in UserRequest : q = request[p]
      BY <1>1, <2>1, TransitionEffect
    <3>2. AsRead(p) /\ q.to # "revision"
      <4>1. request[p].to \in ReportStatus /\ request[p] # NoRequest
        BY <2>1, Statuses DEF CommitTransition, NoRequest
      <4> QED BY <2>1, <3>1, <4>1, Statuses DEF AloneInv
    <3>6. /\ q.version = v /\ q.immutable = versions[v].immutable
          /\ q.approvedBy = versions[v].approvedBy
          /\ versions[v].immutable => q.to \in LifecycleOnly
          /\ q.to = "published" => versions[v].render = "completed"
      BY <1>0, <1>1, <3>1, <3>2 DEF AsRead, ExportsReady
    <3> DEFINE s == Transitioned(versions[v], p, q)
    <3>3. Changes(v, s)
      BY <1>1, <2>1, <3>1, <3>6, TransitionEffect
    <3>4. /\ s.content = versions[v].content /\ SameExports(s, versions[v])
          /\ s.immutable = (q.immutable \/ q.to = "published")
          /\ s.clientBy = versions[v].clientBy
          /\ s.approvedBy = IF q.to \in {"qa_approved", "approved", "published"}
                            THEN p ELSE q.approvedBy
      BY <1>1, <2>1, TransitionedRow
    <3> HIDE DEF s
    <3>5. q.to \in LifecycleOnly => q.to \notin {"qa_approved", "approved", "published"}
      BY DEF LifecycleOnly
    <3>7. s.immutable => versions[v].immutable \/ s.render = "completed"
      BY <3>4, <3>6 DEF SameExports
    <3> QED BY <3>3, <3>4, <3>5, <3>6, <3>7, FrozenRow
  <2>2. CASE Abort(p)
    BY <2>2, FrozenRows DEF Abort, reportVars
  <2>3. CASE p \in Clients /\ CommitApproval(p)
    <3>1. PICK w \in VersionNo : w = request[p].version
      BY <1>1, <2>3, ApprovalEffect
    <3> DEFINE s == [versions[w] EXCEPT !.status = "approved", !.clientBy = p]
    <3>2. /\ Changes(w, s) /\ versions[w] \in VersionType
      BY <1>1, <2>3, <3>1, ApprovalEffect
    <3>3. /\ s.immutable = versions[w].immutable /\ s.content = versions[w].content
          /\ SameExports(s, versions[w]) /\ s.approvedBy = versions[w].approvedBy
          /\ s.clientBy = p
      BY <2>3, <3>2, ApprovedRow
    <3> HIDE DEF s
    <3>4. ApprovalCommitted(w)
      <4>1. /\ request[p].to = "approved" /\ request'[p] = NoRequest
        BY <1>1, <2>3 DEF CommitApproval, RequestsInv, ClientRequest, People
      <4>2. versions'[w].clientBy = p
        BY <3>2, <3>3 DEF Changes
      <4> QED BY <2>3, <3>1, <4>1, <4>2 DEF ApprovalCommitted
    <3> QED BY <3>2, <3>3, <3>4, FrozenRow
  <2>4. CASE p \in Users /\ CommitRevision(p)
    <3> DEFINE s == [versions[v] EXCEPT !.status = "superseded"]
    <3>0. contents + 1 \in 0..MaxContent
      BY <1>1, <2>4, Numbers DEF CommitRevision, FreshContent, RowsTyped
    <3>1. /\ v + 1 \in VersionNo /\ ~Written(v + 1)
          /\ versions'[v] = s /\ versions'[v + 1] = NewVersion(p, contents + 1)
          /\ \A w \in VersionNo : w \notin {v, v + 1} => versions'[w] = versions[w]
      BY <1>0, <1>1, <2>4, ReviseEffect
    <3>2. /\ s.content = versions[v].content /\ SameExports(s, versions[v])
          /\ s.immutable = versions[v].immutable /\ s.approvedBy = versions[v].approvedBy
          /\ s.clientBy = versions[v].clientBy
      BY <1>1, SupersededRow
    <3> HIDE DEF s
    <3>3. ~versions[v + 1].immutable /\ ~versions'[v + 1].immutable
      BY <1>1, <2>4, <3>0, <3>1, EmptyRows DEF RowsInv
    <3>4. ASSUME NEW w \in VersionNo
          PROVE  /\ FrozenKept(w)
                 /\ versions'[w].immutable => versions'[w].render = "completed" \/ Retried(w)
      BY <3>1, <3>2, <3>3 DEF FrozenKept, ReadyInv, SameExports
    <3>5. \A w \in VersionNo : Retried(w) => Retried(w)'
      BY RetriedStays
    <3> QED BY <3>4, <3>5 DEF ReadyInv
  <2> QED BY <1>2, <2>1, <2>2, <2>3, <2>4 DEF Commit
<1>3. ASSUME NEW u \in Users, CreateReport(u) PROVE Goal
  <2>1. Changes(1, NewVersion(u, contents + 1)) /\ report.status = "absent"
    BY <1>1, <1>3, CreateEffect
  <2>2. versions[1] = NoVersion /\ contents + 1 \in 0..MaxContent /\ 1 \in VersionNo
    BY <1>1, <1>3, <2>1, Numbers DEF RowsInv, RowsTyped, Written, CreateReport, FreshContent
  <2> QED BY <2>1, <2>2, EmptyRows, FrozenRow
<1>4. ASSUME SaveDraft PROVE Goal
  <2>1. Changes(v, Edited(versions[v], contents + 1)) /\ contents + 1 \in 0..MaxContent
    BY <1>0, <1>1, <1>4, SaveEffect, Numbers DEF SaveDraft, FreshContent, RowsTyped
  <2>2. ~versions[v].immutable /\ ~Edited(versions[v], contents + 1).immutable
    BY <1>1, <1>4, <2>1, EditedRow DEF SaveDraft, MayEdit, SameReview
  <2> QED BY <2>1, <2>2, FrozenRow
<1>6. ASSUME NEW w \in VersionNo, NEW b \in BOOLEAN, SetVisibility(w, b) PROVE Goal
  <2> DEFINE s == [versions[w] EXCEPT !.visible = b]
  <2>1. Changes(w, s) /\ SameReview(s, versions[w]) /\ SameExports(s, versions[w])
        /\ s.content = versions[w].content
    BY <1>1, <1>6, VisibilityEffect, VisibleRow
  <2> HIDE DEF s
  <2> QED BY <2>1, FrozenRow DEF SameReview
<1>7. ASSUME NEW j \in Jobs, QueueGeneration(j) PROVE Goal
  <2> DEFINE s == [versions[v] EXCEPT !.render = "queued"]
  <2>1. Changes(v, s)
    BY <1>0, <1>1, <1>7, QueueEffect
  <2>2. "queued" \in RenderStatus /\ ~versions[v].immutable
    BY <1>1, <1>7 DEF QueueGeneration, RenderStatus
  <2>3. ~s.immutable
    BY <1>1, <2>2, RenderedRow DEF SameReview
  <2> HIDE DEF s
  <2> QED BY <2>1, <2>2, <2>3, FrozenRow
<1>8. ASSUME NEW x \in renders, NEW row, Rendering(x, row) PROVE Goal
  <2>1. PICK w \in VersionNo : w = target[x.job]
    BY <1>8, HandlerEffect DEF Rendering
  <2>2. Changes(w, row) /\ RenderedAs(w, row)
    BY <1>8, <2>1, HandlerEffect DEF Rendering
  <2>3. versions[w].immutable => Retried(w)
    BY <2>1, AtWorkIsPending DEF ReadyInv, Pending
  <2>4. SameReview(row, versions[w]) /\ row.content = versions[w].content
    <3>1. ASSUME NEW k \in {"running", "failed"}, row = [versions[w] EXCEPT !.render = k]
          PROVE  SameReview(row, versions[w]) /\ row.content = versions[w].content
      <4>1. k \in RenderStatus
        BY DEF RenderStatus
      <4> QED BY <1>1, <3>1, <4>1, RenderedRow
    <3>2. ASSUME NEW n \in 0..MaxContent,
                 row = [versions[w] EXCEPT !.render = "completed", !.exports = n]
          PROVE  SameReview(row, versions[w]) /\ row.content = versions[w].content
      BY <1>1, <3>2, ExportedRow
    <3> QED BY <2>2, <3>1, <3>2 DEF RenderedAs
  <2> QED BY <2>2, <2>3, <2>4, FrozenRow DEF SameReview
<1>9. ASSUME NEW x \in renders, RenderMark(x) PROVE Goal
  BY <1>8, <1>9, MarkWrites
<1>10. ASSUME NEW h \in hands, RenderDone(h) \/ RenderFail(h) PROVE Goal
  <2>1. PICK x \in renders : \E row : Rendering(x, row)
    BY <1>10, DoneWrites, FailWrites DEF ForJob
  <2> QED BY <1>8, <2>1
<1>11. CASE PersonStep
  <2>1. ASSUME \/ \E u \in Users, to \in ReportStatus : ReadForTransition(u, to)
               \/ \E u \in Users : ReadForRevision(u)
               \/ \E c \in Clients : ReadForApproval(c)
        PROVE  Goal
    BY <2>1, FrozenRows DEF ReadForTransition, ReadForRevision, ReadForApproval, reportVars
  <2> QED BY <1>3, <1>4, <1>6, <1>7, <1>11, <2>1 DEF PersonStep
<1>12. CASE SystemStep
  <2>1. ASSUME \/ \E h \in hands : RenderBegin(h) \/ RenderThrows(h)
               \/ QueueStep \/ WorkerDies \/ ArchiveEngagement \/ ApplyRetention
        PROVE  Goal
    BY <2>1, FrozenRows DEF RenderBegin, RenderThrows, QueueStep, WorkerDies,
       ArchiveEngagement, ApplyRetention, reportVars
  <2> QED BY <1>9, <1>10, <1>12, <2>1 DEF SystemStep, RenderStep
<1>13. CASE UNCHANGED vars
  BY <1>13, FrozenRows DEF vars, reportVars
<1> QED BY <1>2, <1>11, <1>12, <1>13 DEF Next

\* Once the engagement is closed no member has a request left, and nothing new begins.
LEMMA ClosedIsKept ==
    ASSUME ReportInv, AloneInv, Next, ~writable PROVE ClosedKept
<1>1. ASSUME NEW p \in People, Commit(p) PROVE ClosedKept
  <2>1. CASE Abort(p)
    BY <2>1 DEF Abort, reportVars, ClosedKept
  <2>2. CASE p \in Users /\ (CommitTransition(p) \/ CommitRevision(p))
    BY <2>2, Statuses DEF CommitTransition, CommitRevision, AloneInv, NoRequest, None
  <2>3. CASE p \in Clients /\ CommitApproval(p)
    <3>1. PICK w \in VersionNo : w = request[p].version
      BY <2>3, ApprovalEffect DEF ReportInv
    <3> DEFINE s == [versions[w] EXCEPT !.status = "approved", !.clientBy = p]
    <3>2. Changes(w, s) /\ versions[w] \in VersionType
      BY <2>3, <3>1, ApprovalEffect DEF ReportInv, RowsInv, RowsTyped
    <3>3. s.clientBy = p
      BY <2>3, <3>2, ApprovedRow
    <3> HIDE DEF s
    <3>4. request[p].to = "approved" /\ request'[p] = NoRequest
      BY <2>3 DEF CommitApproval, ReportInv, RequestsInv, ClientRequest, People
    <3>5. versions'[w].clientBy = p
      BY <3>2, <3>3 DEF Changes
    <3> QED BY <2>3, <3>1, <3>4, <3>5 DEF ClosedKept, ApprovalCommitted
  <2> QED BY <1>1, <2>1, <2>2, <2>3 DEF Commit
<1>2. ASSUME PersonStep PROVE report' = report
  BY <1>2 DEF PersonStep, CreateReport, ReadForRevision, SaveDraft, ReadForTransition,
     ReadForApproval, SetVisibility, QueueGeneration, reportVars
<1>3. ASSUME NEW h \in hands, RenderStep(h) PROVE report' = report
  BY <1>3 DEF RenderStep, RenderBegin, RenderDone, RenderFail, RenderThrows, SetVersion,
     reportVars
<1>4. ASSUME (\E x \in renders : RenderMark(x)) \/ QueueStep \/ WorkerDies
      PROVE  report' = report
  BY <1>4 DEF RenderMark, SetVersion, QueueStep, WorkerDies, reportVars
<1>5. ASSUME ArchiveEngagement \/ ApplyRetention PROVE ClosedKept
  <2>1. CASE ApplyRetention
    BY <2>1 DEF ApplyRetention, ClosedKept, ReportInv, RowsInv, RowsTyped, ReportType
  <2> QED BY <1>5, <2>1 DEF ArchiveEngagement
<1> QED BY <1>1, <1>2, <1>3, <1>4, <1>5 DEF Next, SystemStep, ClosedKept

-----------------------------------------------------------------------------
(***************************************************************************)
(* In a hurry: members overtake each other, workers, statements and the    *)
(* retention job get in the way.  Little is true then, but enough for what *)
(* was frozen to keep its content.                                         *)
(***************************************************************************)

\* A row of report_versions has these columns, among others.
HasColumns(r) == {"content", "immutable", "status"} \subseteq DOMAIN r

HurriedRows ==
    /\ report \in ReportType /\ DOMAIN versions = VersionNo
    /\ \A v \in VersionNo :
          /\ HasColumns(versions[v])
          /\ ~Written(v) => ~versions[v].immutable
          /\ Written(v) => versions[v].status # "absent"

HurriedRequests ==
    /\ DOMAIN request = Users
    /\ \A u \in Users : request[u] # NoRequest =>
          /\ request[u].to \in ReportStatus \cup {"revision"}
          /\ request[u].version \in VersionNo
          /\ request[u].to = "revision" => request[u].version < MaxVersion
          /\ Written(request[u].version) /\ writable

\* The names that the hurried instance shares with the quiet one.
LEMMA HurriedNames ==
    /\ Hurried!VersionNo = VersionNo /\ Hurried!None = None /\ Hurried!NoRequest = NoRequest
    /\ Hurried!People = Users /\ Hurried!ReportStatus = ReportStatus
    /\ Hurried!Current = Current /\ Hurried!NoVersion = NoVersion
BY DEF Hurried!VersionNo, VersionNo, Hurried!None, None, Hurried!NoRequest, NoRequest,
   Hurried!People, Hurried!ReportStatus, ReportStatus, Hurried!Workflow, Workflow,
   Hurried!Current, Current, Hurried!NoVersion, NoVersion, Hurried!NoContent, NoContent

\* The rows that the steps write have the columns, whatever else they have.
LEMMA HurriedColumns ==
    /\ HasColumns(NoVersion) /\ ~NoVersion.immutable
    /\ \A u, n : /\ HasColumns(Hurried!NewVersion(u, n))
                 /\ ~Hurried!NewVersion(u, n).immutable
                 /\ Hurried!NewVersion(u, n).status = "draft"
    /\ \A r, n : HasColumns(r) =>
          /\ HasColumns(Hurried!Edited(r, n))
          /\ Hurried!Edited(r, n).immutable = r.immutable
          /\ Hurried!Edited(r, n).status = r.status
    /\ \A r, u, q : HasColumns(r) =>
          /\ HasColumns(Hurried!Transitioned(r, u, q))
          /\ Hurried!Transitioned(r, u, q).content = r.content
          /\ Hurried!Transitioned(r, u, q).status = q.to
<1>1. HasColumns(NoVersion) /\ ~NoVersion.immutable
  BY DEF HasColumns, NoVersion
<1>2. ASSUME NEW u, NEW n
      PROVE  /\ HasColumns(Hurried!NewVersion(u, n)) /\ ~Hurried!NewVersion(u, n).immutable
             /\ Hurried!NewVersion(u, n).status = "draft"
  BY DEF HasColumns, Hurried!NewVersion, Hurried!NoVersion
<1>3. ASSUME NEW r, NEW n, HasColumns(r)
      PROVE  /\ HasColumns(Hurried!Edited(r, n))
             /\ Hurried!Edited(r, n).immutable = r.immutable
             /\ Hurried!Edited(r, n).status = r.status
  BY <1>3 DEF HasColumns, Hurried!Edited
<1>4. ASSUME NEW r, NEW u, NEW q, HasColumns(r)
      PROVE  /\ HasColumns(Hurried!Transitioned(r, u, q))
             /\ Hurried!Transitioned(r, u, q).content = r.content
             /\ Hurried!Transitioned(r, u, q).status = q.to
  BY <1>4 DEF HasColumns, Hurried!Transitioned
<1> QED BY <1>1, <1>2, <1>3, <1>4

\* One row is rewritten.
LEMMA HurriedRow ==
    ASSUME HurriedRows, NEW v, NEW row, versions' = [versions EXCEPT ![v] = row],
           v \in VersionNo =>
              /\ HasColumns(row)
              /\ versions[v].immutable => row.content = versions[v].content
              /\ ~Written(v) => ~row.immutable
              /\ Written(v)' => row.status # "absent",
           report' \in ReportType, StillWritten,
           \A w \in VersionNo : w # v /\ Written(w)' => Written(w)
    PROVE  HurriedRows' /\ \A w \in VersionNo : ContentKept(w)
<1>1. DOMAIN versions' = VersionNo
  BY DEF HurriedRows
<1>2. ASSUME NEW w \in VersionNo
      PROVE  versions'[w] = IF w = v THEN row ELSE versions[w]
  BY DEF HurriedRows
<1>3. ASSUME NEW w \in VersionNo
      PROVE  /\ HasColumns(versions'[w]) /\ (~Written(w) => ~versions'[w].immutable)
             /\ Written(w)' => versions'[w].status # "absent"
  BY <1>2 DEF HurriedRows
<1>4. \A w \in VersionNo : ContentKept(w)
  BY <1>2 DEF HurriedRows, ContentKept
<1> QED BY <1>1, <1>3, <1>4 DEF HurriedRows, StillWritten, Written

\* Requests that end leave the others as they were.
LEMMA HurriedRequestsKept ==
    ASSUME HurriedRequests, StillWritten, writable' = writable,
           request' = request \/ \E u \in Users : request' = [request EXCEPT ![u] = NoRequest]
    PROVE  HurriedRequests'
BY DEF HurriedRequests, StillWritten, Written

\* The steps of the queue and of handlers at work.
LEMMA HurriedSystem ==
    ASSUME HurriedRows, HurriedRequests, Hurried!SystemStep
    PROVE  /\ HurriedRows' /\ HurriedRequests' /\ \A w \in VersionNo : ContentKept(w)
           /\ ~writable => ClosedKept
<1> DEFINE Goal == /\ HurriedRows' /\ HurriedRequests' /\ \A w \in VersionNo : ContentKept(w)
                   /\ ~writable => ClosedKept
<1>1. ASSUME NEW v, NEW row, HasColumns(versions[v]) => HasColumns(row),
             HasColumns(versions[v]) =>
                /\ row.content = versions[v].content /\ row.immutable = versions[v].immutable
                /\ row.status = versions[v].status,
             versions' = [versions EXCEPT ![v] = row], UNCHANGED <<report, request, writable>>
      PROVE  Goal
  <2>1. /\ StillWritten /\ report' \in ReportType
        /\ \A w \in VersionNo : Written(w)' <=> Written(w)
    BY <1>1 DEF StillWritten, Written, HurriedRows
  <2>2. HurriedRows' /\ \A w \in VersionNo : ContentKept(w)
    BY <1>1, <2>1, HurriedRow DEF HurriedRows
  <2>3. HurriedRequests'
    BY <1>1, <2>1, HurriedRequestsKept
  <2> QED BY <1>1, <2>2, <2>3 DEF ClosedKept
<1>2. ASSUME NEW v, NEW k
      PROVE  LET row == [versions[v] EXCEPT !.render = k] IN
             HasColumns(versions[v]) =>
                /\ HasColumns(row) /\ row.content = versions[v].content
                /\ row.immutable = versions[v].immutable /\ row.status = versions[v].status
  BY DEF HasColumns
<1>3. ASSUME NEW v, NEW n
      PROVE  LET row == [versions[v] EXCEPT !.render = "completed", !.exports = n] IN
             HasColumns(versions[v]) =>
                /\ HasColumns(row) /\ row.content = versions[v].content
                /\ row.immutable = versions[v].immutable /\ row.status = versions[v].status
  BY DEF HasColumns
<1>4. ASSUME NEW x, Hurried!RenderMark(x) PROVE Goal
  <2>1. /\ versions' = [versions EXCEPT ![target[x.job]] =
                           [versions[target[x.job]] EXCEPT !.render = "running"]]
        /\ UNCHANGED <<report, request, writable>>
    BY <1>4 DEF Hurried!RenderMark, Hurried!SetVersion
  <2> QED BY <1>1, <1>2, <2>1
<1>5. ASSUME NEW h, Hurried!RenderDone(h) PROVE Goal
  <2>1. PICK x : /\ versions' = [versions EXCEPT ![target[h.job]] =
                        [versions[target[h.job]] EXCEPT !.render = "completed",
                                                        !.exports = x.content]]
                 /\ UNCHANGED <<report, request, writable>>
    BY <1>5 DEF Hurried!RenderDone, Hurried!SetVersion
  <2> QED BY <1>1, <1>3, <2>1
<1>6. ASSUME NEW h, Hurried!RenderFail(h) PROVE Goal
  <2>1. /\ versions' = [versions EXCEPT ![target[h.job]] =
                           [versions[target[h.job]] EXCEPT !.render = "failed"]]
        /\ UNCHANGED <<report, request, writable>>
    BY <1>6 DEF Hurried!RenderFail, Hurried!SetVersion
  <2> QED BY <1>1, <1>2, <2>1
<1>7. ASSUME UNCHANGED <<report, versions, request, writable>> PROVE Goal
  BY <1>7 DEF HurriedRows, HurriedRequests, Written, ContentKept, ClosedKept
<1>8. ASSUME \/ \E h \in hands : Hurried!RenderBegin(h) \/ Hurried!RenderThrows(h)
             \/ Hurried!QueueStep \/ Hurried!WorkerDies
      PROVE  Goal
  BY <1>7, <1>8 DEF Hurried!RenderBegin, Hurried!RenderThrows, Hurried!QueueStep,
     Hurried!WorkerDies, Hurried!reportVars
<1>9. ASSUME Hurried!ArchiveEngagement PROVE Goal
  <2>1. /\ UNCHANGED <<report, versions, request>> /\ writable
        /\ \A u \in Users : request[u] = NoRequest
    BY <1>9, HurriedNames DEF Hurried!ArchiveEngagement, Hurried!reportVars
  <2> QED BY <2>1 DEF HurriedRows, HurriedRequests, Written, ContentKept
<1>10. ASSUME Hurried!ApplyRetention PROVE Goal
  <2>1. /\ report' = [report EXCEPT !.status = "archived"] /\ report.status # "absent"
        /\ UNCHANGED <<versions, request, writable>>
    BY <1>10 DEF Hurried!ApplyRetention
  <2>2. /\ report' \in ReportType /\ report'.current = report.current
        /\ report'.status = "archived"
    BY <2>1, Statuses DEF HurriedRows, ReportType
  <2> QED BY <2>1, <2>2 DEF HurriedRows, HurriedRequests, Written, ContentKept, ClosedKept
<1> QED BY <1>4, <1>5, <1>6, <1>8, <1>9, <1>10 DEF Hurried!SystemStep, Hurried!RenderStep

\* The steps of the members.
LEMMA HurriedPeople ==
    ASSUME HurriedRows, HurriedRequests,
           Hurried!PersonStep \/ \E p \in Users : Hurried!Commit(p)
    PROVE  /\ HurriedRows' /\ HurriedRequests' /\ \A w \in VersionNo : ContentKept(w)
           /\ ~writable => ClosedKept
<1> DEFINE Goal == /\ HurriedRows' /\ HurriedRequests' /\ \A w \in VersionNo : ContentKept(w)
                   /\ ~writable => ClosedKept
<1>0. PICK v \in VersionNo : v = report.current
  BY DEF HurriedRows, ReportType
<1>1. /\ Current = versions[v] /\ HasColumns(versions[v])
      /\ report.status # "absent" => Written(v)
  BY <1>0, Numbers DEF Current, HurriedRows, Written
<1>2. ASSUME NEW w, NEW row, versions' = [versions EXCEPT ![w] = row],
             w \in VersionNo =>
                /\ HasColumns(row)
                /\ versions[w].immutable => row.content = versions[w].content
                /\ ~Written(w) => ~row.immutable
                /\ row.status = versions[w].status,
             UNCHANGED <<report, request, writable>>
      PROVE  Goal
  <2>1. /\ StillWritten /\ report' \in ReportType
        /\ \A r \in VersionNo : Written(r)' <=> Written(r)
    BY <1>2 DEF StillWritten, Written, HurriedRows
  <2>4. w \in VersionNo /\ Written(w)' => row.status # "absent"
    BY <1>2, <2>1 DEF HurriedRows
  <2>2. HurriedRows' /\ \A r \in VersionNo : ContentKept(r)
    BY <1>2, <2>1, <2>4, HurriedRow
  <2>3. HurriedRequests'
    BY <1>2, <2>1, HurriedRequestsKept
  <2> QED BY <1>2, <2>2, <2>3 DEF ClosedKept
<1>3. ASSUME NEW u \in Users, Hurried!CreateReport(u) PROVE Goal
  <2>1. /\ report.status = "absent" /\ writable /\ UNCHANGED <<request, writable>>
        /\ report' = [status |-> "draft", current |-> 1]
        /\ versions' = [versions EXCEPT ![1] = Hurried!NewVersion(u, contents')]
    BY <1>3 DEF Hurried!CreateReport
  <2>2. \A w \in VersionNo : ~Written(w) /\ ~versions[w].immutable
    BY <2>1 DEF Written, HurriedRows
  <2>3. /\ report' \in ReportType /\ StillWritten
        /\ \A w \in VersionNo : w # 1 => ~Written(w)'
    BY <2>1, <2>2, Numbers, Statuses DEF ReportType, StillWritten, Written
  <2>4. HurriedRows' /\ \A w \in VersionNo : ContentKept(w)
    BY <2>1, <2>2, <2>3, HurriedColumns, HurriedRow
  <2> QED BY <2>1, <2>3, <2>4, HurriedRequestsKept
<1>4. ASSUME Hurried!SaveDraft PROVE Goal
  <2>1. /\ ~versions[v].immutable /\ UNCHANGED <<report, request, writable>>
        /\ versions' = [versions EXCEPT ![v] = Hurried!Edited(versions[v], contents')]
    BY <1>0, <1>1, <1>4, HurriedNames DEF Hurried!SaveDraft, Hurried!MayEdit, HurriedRows
  <2>2. /\ HasColumns(Hurried!Edited(versions[v], contents'))
        /\ ~Hurried!Edited(versions[v], contents').immutable
        /\ Hurried!Edited(versions[v], contents').status = versions[v].status
    BY <1>1, <2>1, HurriedColumns
  <2> QED BY <1>2, <2>1, <2>2
<1>5. ASSUME NEW u \in Users, Hurried!CommitRevision(u) PROVE Goal
  <2> DEFINE s == [versions[v] EXCEPT !.status = "superseded"]
             new == Hurried!NewVersion(u, contents')
  <2>0. /\ request[u].to = "revision" /\ request[u] # NoRequest
        /\ Hurried!Current = Current
    BY <1>5, HurriedNames DEF Hurried!CommitRevision, NoRequest, None
  <2>1. PICK r \in VersionNo : r = request[u].version
    BY <2>0 DEF HurriedRequests
  <2>2. /\ r < MaxVersion /\ Written(r) /\ writable
        /\ versions[r + 1].status = "absent" /\ writable' = writable
        /\ request' = [request EXCEPT ![u] = NoRequest]
        /\ report' = [status |-> "draft", current |-> r + 1]
        /\ versions' = [versions EXCEPT ![r].status = "superseded", ![r + 1] = new]
    BY <1>5, <2>0, <2>1, HurriedNames DEF Hurried!CommitRevision, HurriedRequests
  <2>3. r + 1 \in VersionNo /\ ~Written(r + 1)
    BY <2>1, <2>2, Numbers DEF HurriedRows
  <2>4. v = r
    <3>1. r <= v /\ ~(r + 1 <= v) /\ report.status # "absent"
      BY <1>0, <2>2, <2>3 DEF Written
    <3> QED BY <1>0, <2>1, <3>1, Numbers
  <2>5. HasColumns(new) /\ ~new.immutable /\ new.status = "draft"
    BY HurriedColumns
  <2>6. /\ HasColumns(s) /\ s.content = versions[v].content
        /\ s.immutable = versions[v].immutable /\ s.status = "superseded"
    BY <1>1 DEF HasColumns
  <2> HIDE DEF new
  <2>7. v + 1 \in VersionNo /\ v + 1 # v /\ ~Written(v + 1) /\ Written(v)
    BY <1>0, <2>2, <2>3, <2>4, Numbers
  <2>8. /\ DOMAIN versions' = VersionNo /\ versions'[v] = s /\ versions'[v + 1] = new
        /\ \A w \in VersionNo : w \notin {v, v + 1} => versions'[w] = versions[w]
    BY <2>2, <2>4, <2>7 DEF HurriedRows
  <2> HIDE DEF s
  <2>9. report' \in ReportType /\ report'.current = v + 1 /\ report'.status # "absent"
    BY <2>2, <2>4, <2>7, Statuses DEF ReportType
  <2>10. ASSUME NEW w \in VersionNo
         PROVE  /\ w <= v => w <= v + 1
                /\ w <= v + 1 => w <= v \/ w = v + 1
    BY <1>0, Numbers
  <2>11. StillWritten
    BY <1>0, <2>9, <2>10 DEF StillWritten, Written
  <2>12. ASSUME NEW w \in VersionNo
         PROVE  /\ HasColumns(versions'[w]) /\ ContentKept(w)
                /\ ~(report'.status # "absent" /\ w <= report'.current)
                      => ~versions'[w].immutable
                /\ w <= report'.current => versions'[w].status # "absent"
    <3>1. CASE w = v
      BY <1>0, <2>6, <2>8, <2>9, <2>10, <3>1, Numbers DEF ContentKept
    <3>2. CASE w = v + 1
      BY <2>5, <2>7, <2>8, <3>2 DEF ContentKept, HurriedRows
    <3>3. CASE w \notin {v, v + 1}
      <4>1. w <= report'.current => Written(w)
        BY <1>0, <2>7, <2>9, <2>10, <3>3 DEF Written
      <4> QED BY <2>8, <2>11, <3>3, <4>1 DEF ContentKept, HurriedRows, StillWritten
    <3> QED BY <3>1, <3>2, <3>3
  <2>13. HurriedRows' /\ \A w \in VersionNo : ContentKept(w)
    BY <2>8, <2>9, <2>12 DEF HurriedRows, Written
  <2> QED BY <2>2, <2>11, <2>13, HurriedRequestsKept
<1>6. ASSUME NEW w \in VersionNo, NEW b, Hurried!SetVisibility(w, b) PROVE Goal
  <2>1. /\ versions' = [versions EXCEPT ![w] = [versions[w] EXCEPT !.visible = b]]
        /\ UNCHANGED <<report, request, writable>>
    BY <1>6 DEF Hurried!SetVisibility, HurriedRows
  <2>2. LET row == [versions[w] EXCEPT !.visible = b] IN
        /\ HasColumns(row) /\ row.content = versions[w].content
        /\ row.immutable = versions[w].immutable /\ row.status = versions[w].status
    BY DEF HasColumns, HurriedRows
  <2> QED BY <1>2, <2>1, <2>2 DEF HurriedRows
<1>7. ASSUME NEW j, Hurried!QueueGeneration(j) PROVE Goal
  <2>1. /\ versions' = [versions EXCEPT ![v] = [versions[v] EXCEPT !.render = "queued"]]
        /\ UNCHANGED <<report, request, writable>>
    BY <1>0, <1>7 DEF Hurried!QueueGeneration, HurriedRows
  <2>2. LET row == [versions[v] EXCEPT !.render = "queued"] IN
        /\ HasColumns(row) /\ row.content = versions[v].content
        /\ row.immutable = versions[v].immutable /\ row.status = versions[v].status
    BY <1>1 DEF HasColumns
  <2> QED BY <1>2, <2>1, <2>2 DEF HurriedRows
<1>8. ASSUME UNCHANGED <<report, versions, writable>>, HurriedRequests' PROVE Goal
  BY <1>8 DEF HurriedRows, Written, ContentKept, ClosedKept
<1>9. ASSUME NEW u \in Users, NEW to \in ReportStatus, Hurried!ReadForTransition(u, to)
      PROVE  Goal
  <2> DEFINE q == [to |-> to, from |-> report.status, version |-> report.current,
                   immutable |-> Current.immutable, approvedBy |-> Current.approvedBy]
  <2>1. /\ UNCHANGED <<report, versions, writable>> /\ writable
        /\ request' = [request EXCEPT ![u] = q] /\ report.status # "absent"
    BY <1>9, HurriedNames DEF Hurried!ReadForTransition, Hurried!reportVars
  <2>2. q.to \in ReportStatus /\ q.version = v /\ q.to # "revision"
    BY <1>0, Statuses
  <2> HIDE DEF q
  <2>3. HurriedRequests'
    BY <1>1, <2>1, <2>2 DEF HurriedRequests, Written
  <2> QED BY <1>8, <2>1, <2>3
<1>12. ASSUME NEW u \in Users, Hurried!ReadForRevision(u) PROVE Goal
  <2> DEFINE q == [to |-> "revision", version |-> report.current]
  <2>1. /\ UNCHANGED <<report, versions, writable>> /\ writable
        /\ request' = [request EXCEPT ![u] = q] /\ v < MaxVersion
        /\ versions[v].immutable \/ report.status = "published"
    BY <1>0, <1>1, <1>12, HurriedNames DEF Hurried!ReadForRevision, Hurried!reportVars
  <2>2. q.to = "revision" /\ q.version = v
    BY <1>0
  <2>4. Written(v)
    BY <1>0, <1>1, <2>1, Statuses DEF HurriedRows
  <2> HIDE DEF q
  <2>3. HurriedRequests'
    BY <2>1, <2>2, <2>4 DEF HurriedRequests, Written
  <2> QED BY <1>8, <2>1, <2>3
<1>10. ASSUME NEW u \in Users, Hurried!CommitTransition(u) PROVE Goal
  <2> DEFINE row == Hurried!Transitioned(versions[request[u].version], u, request[u])
  <2>1. /\ request[u].to \in ReportStatus
        /\ report' = [report EXCEPT !.status = request[u].to]
        /\ request' = [request EXCEPT ![u] = NoRequest] /\ writable' = writable
        /\ versions' = [versions EXCEPT ![request[u].version] = row]
    BY <1>10, HurriedNames DEF Hurried!CommitTransition, HurriedRows
  <2>0. request[u] # NoRequest
    BY <2>1, Statuses DEF NoRequest
  <2>2. PICK w \in VersionNo : w = request[u].version
    BY <2>0 DEF HurriedRequests
  <2>3. Written(w) /\ writable
    BY <2>0, <2>2 DEF HurriedRequests
  <2>4. /\ HasColumns(row) /\ row.content = versions[w].content
        /\ row.status = request[u].to /\ row.status # "absent"
    BY <2>1, <2>2, HurriedColumns, Statuses DEF HurriedRows
  <2> HIDE DEF row
  <2>5. /\ report' \in ReportType /\ report'.current = report.current
        /\ report'.status # "absent"
    BY <2>1, Statuses DEF HurriedRows, ReportType
  <2>6. StillWritten /\ \A r \in VersionNo : Written(r)' => Written(r)
    BY <2>3, <2>5 DEF StillWritten, Written
  <2>7. HurriedRows' /\ \A r \in VersionNo : ContentKept(r)
    BY <2>1, <2>2, <2>3, <2>4, <2>5, <2>6, HurriedRow
  <2> QED BY <2>1, <2>3, <2>6, <2>7, HurriedRequestsKept
<1>11. ASSUME NEW u \in Users, Hurried!Abort(u) PROVE Goal
  <2>1. /\ UNCHANGED <<report, versions, writable>>
        /\ request' = [request EXCEPT ![u] = NoRequest]
    BY <1>11, HurriedNames DEF Hurried!Abort, Hurried!reportVars
  <2>2. StillWritten
    BY <2>1 DEF StillWritten, Written
  <2> QED BY <1>8, <2>1, <2>2, HurriedRequestsKept
<1> QED BY <1>3, <1>4, <1>5, <1>6, <1>7, <1>9, <1>10, <1>11, <1>12, HurriedNames
        DEF Hurried!PersonStep, Hurried!Commit

\* Every step of the hurried regime keeps frozen content, and a closed engagement's report.
LEMMA HurriedKeeps ==
    ASSUME HurriedRows, HurriedRequests, Hurried!Next
    PROVE  /\ HurriedRows' /\ HurriedRequests' /\ \A w \in VersionNo : ContentKept(w)
           /\ ~writable => ClosedKept
BY HurriedSystem, HurriedPeople, HurriedNames DEF Hurried!Next

\* The hurried regime begins in order.
LEMMA HurriedStarts == Hurried!Init => HurriedRows /\ HurriedRequests
<1> SUFFICES ASSUME Hurried!Init PROVE HurriedRows /\ HurriedRequests
  OBVIOUS
<1>1. /\ report = [status |-> "absent", current |-> 1]
      /\ versions = [v \in VersionNo |-> NoVersion]
      /\ request = [u \in Users |-> NoRequest]
  BY HurriedNames DEF Hurried!Init
<1>2. HurriedRows
  BY <1>1, Numbers, HurriedColumns DEF HurriedRows, ReportType, Written
<1> QED BY <1>1, <1>2 DEF HurriedRequests

-----------------------------------------------------------------------------
(***************************************************************************)
(* The regimes of the run.                                                 *)
(***************************************************************************)

\* While the requests of members come one at a time, and those of portal contacts as they
\* like, a report and its version agree on the status, until a portal approval comes after
\* the review it has read: over the specification of the run, for any members, contacts,
\* versions, edits, jobs, attempts and crashes (transitionReport, createReportRevision and
\* approvePortalReport write two rows).
THEOREM ReportAgrees ==
    MembersAlone /\ "retention" \notin Events => (RegimesSpec => []QuietStatusAgreement)
<1> SUFFICES ASSUME MembersAlone, "retention" \notin Events
             PROVE  RegimesSpec => []QuietStatusAgreement
  OBVIOUS
<1> DEFINE Inv == quiet \in BOOLEAN /\ (quiet => ReportInv /\ ReviewInv)
<1>1. RegimesInit => Inv
  BY InitReport, InitReview DEF RegimesInit
<1>2. Inv /\ [RegimesNext]_<<vars, quiet>> => Inv'
  BY ReportKeeps, ReviewKeeps DEF RegimesNext
<1>3. Inv => QuietStatusAgreement
  BY DEF ReviewInv, Agreed, QuietStatusAgreement, StatusAgreement
<1> HIDE DEF Inv
<1> QED BY <1>1, <1>2, <1>3, PTL DEF RegimesSpec

\* Under the same conditions no version is frozen whose author gave it QA approval, or whose
\* QA approver was also the one to approve it (the checks of transitionReport).
THEOREM FourEyesApprove ==
    MembersAlone /\ "retention" \notin Events => (RegimesSpec => []QuietFourEyes)
<1> SUFFICES ASSUME MembersAlone, "retention" \notin Events
             PROVE  RegimesSpec => []QuietFourEyes
  OBVIOUS
<1> DEFINE Inv == quiet \in BOOLEAN /\ (quiet => ReportInv /\ ReviewInv)
<1>1. RegimesInit => Inv
  BY InitReport, InitReview DEF RegimesInit
<1>2. Inv /\ [RegimesNext]_<<vars, quiet>> => Inv'
  BY ReportKeeps, ReviewKeeps DEF RegimesNext
<1>3. Inv => QuietFourEyes
  BY DEF ReviewInv, Agreed, Reviewed, Checked, Signed, QuietFourEyes, FourEyes
<1> HIDE DEF Inv
<1> QED BY <1>1, <1>2, <1>3, PTL DEF RegimesSpec

\* Under the same conditions what is approved or published is, to the letter, what QA has
\* seen (the guard of saveReportDraft).
THEOREM QaSawWhatIsApproved ==
    MembersAlone /\ "retention" \notin Events => (RegimesSpec => []QuietQaSawContent)
<1> SUFFICES ASSUME MembersAlone, "retention" \notin Events
             PROVE  RegimesSpec => []QuietQaSawContent
  OBVIOUS
<1> DEFINE Inv == quiet \in BOOLEAN /\ (quiet => ReportInv /\ ReviewInv)
<1>1. RegimesInit => Inv
  BY InitReport, InitReview DEF RegimesInit
<1>2. Inv /\ [RegimesNext]_<<vars, quiet>> => Inv'
  BY ReportKeeps, ReviewKeeps DEF RegimesNext
<1>3. Inv => QuietQaSawContent
  BY DEF ReviewInv, Agreed, Reviewed, QuietQaSawContent, QaSawContent
<1> HIDE DEF Inv
<1> QED BY <1>1, <1>2, <1>3, PTL DEF RegimesSpec

\* Whoever overlaps, crashes, fails or is tried again: completed exports show the version's
\* content unless a job of the version was tried again, and, where no lease runs out under a
\* live worker, every version that waits has a job that will still write it or that ended as
\* a dead letter (queueReportGeneration, generateReportJob).
THEOREM ExportsStayInStep == RegimesSpec => [](quiet => RegimesExportsInStep)
<1> DEFINE Inv ==
        /\ quiet \in BOOLEAN
        /\ quiet => /\ ReportInv /\ HandsInv /\ MatchInv
                    /\ "lease" \notin Events => ServeInv
<1>1. RegimesInit => Inv
  BY InitReport, InitExports, InitServe DEF RegimesInit
<1>2. Inv /\ [RegimesNext]_<<vars, quiet>> => Inv'
  BY ReportKeeps, HandsKeep, MatchKeeps, ServeKeeps DEF RegimesNext
<1>3. Inv => (quiet => RegimesExportsInStep)
  BY ServedHasJob DEF MatchInv, RegimesExportsInStep, ExportsInStep
<1> HIDE DEF Inv
<1> QED BY <1>1, <1>2, <1>3, PTL DEF RegimesSpec

\* While the requests of members come one at a time, what is published keeps its content, its
\* approvals but for the portal's, and its exports but for retries, of any number of
\* attempts; in the hurried regime too its content never changes, and a closed engagement's
\* report stays as it is.
THEOREM FrozenRemainsFrozen == MembersAlone => (RegimesSpec => FrozenStaysFrozen)
<1> SUFFICES ASSUME MembersAlone PROVE RegimesSpec => FrozenStaysFrozen
  OBVIOUS
<1> DEFINE QuietInv == ReportInv /\ AloneInv /\ HandsInv /\ MatchInv /\ ReadyInv
           Inv == /\ quiet \in BOOLEAN
                  /\ quiet => QuietInv
                  /\ ~quiet => HurriedRows /\ HurriedRequests
           Kept == /\ quiet => \A v \in VersionNo : FrozenKept(v)
                   /\ \A v \in VersionNo : ContentKept(v)
                   /\ ~writable => ClosedKept
<1>1. RegimesInit => Inv
  <2>1. Init => ReadyInv /\ AloneInv
    BY EmptyRows, InitReview DEF Init, ReadyInv, ReviewInv
  <2> QED BY <2>1, InitReport, InitExports, HurriedStarts DEF RegimesInit
<1>2. ASSUME QuietInv, [Next]_vars PROVE QuietInv'
  BY <1>2, ReportKeeps, AloneKeeps, HandsKeep, MatchKeeps, FrozenIsKept
<1>3. ASSUME Inv, RegimesNext PROVE Inv' /\ Kept
  <2>1. quiet' = quiet
    BY <1>3 DEF RegimesNext
  <2>2. CASE quiet
    <3>1. Next /\ QuietInv
      BY <1>3, <2>2 DEF RegimesNext
    <3>2. QuietInv' /\ \A v \in VersionNo : FrozenKept(v)
      BY <1>2, <3>1, FrozenIsKept
    <3>3. ~writable => ClosedKept
      BY <3>1, ClosedIsKept
    <3>4. \A v \in VersionNo : ContentKept(v)
      BY <3>2 DEF FrozenKept, ContentKept
    <3> HIDE DEF QuietInv
    <3> QED BY <1>3, <2>1, <2>2, <3>2, <3>3, <3>4
  <2>3. CASE ~quiet
    BY <1>3, <2>1, <2>3, HurriedKeeps DEF RegimesNext
  <2> QED BY <2>2, <2>3
<1>4. ASSUME Inv, UNCHANGED <<vars, quiet>> PROVE Inv'
  <2>1. [Next]_vars /\ quiet' = quiet
    BY <1>4
  <2>2. quiet => QuietInv'
    BY <1>2, <1>4, <2>1
  <2>3. ~quiet => HurriedRows' /\ HurriedRequests'
    BY <1>4 DEF vars, reportVars, HurriedRows, HurriedRequests, Written
  <2> QED BY <1>4, <2>1, <2>2, <2>3
<1>5. Inv /\ [RegimesNext]_<<vars, quiet>> => Inv'
  BY <1>3, <1>4
<1>6. Inv /\ [RegimesNext]_<<vars, quiet>> => [Kept]_<<vars, quiet>>
  BY <1>3
<1> HIDE DEF Inv, Kept
<1>7. RegimesSpec => [][Kept]_<<vars, quiet>>
  BY <1>1, <1>5, <1>6, PTL DEF RegimesSpec
<1> QED BY <1>7 DEF FrozenStaysFrozen, Kept
=============================================================================
