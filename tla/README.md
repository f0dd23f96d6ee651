# DingoDocs: a verification project in TLA+

DingoDocs manages penetration tests: engagements, findings, evidence, reports,
a client portal, and a durable queue of background jobs on PostgreSQL. This
directory holds TLA+ modules that model the parts of the program where order,
overlap and failure decide what is correct, TLC configurations that check small
instances, and proofs for TLAPS.

    tlc -workers 2 -config MCJobQueue.cfg MCJobQueue     # one run
    tlapm JobQueueProofs.tla                             # one module of proofs

Source paths below are those of the repository; `PROJECT.json` maps every
definition that models code to its lines.

## The system

Several identical Next.js processes serve requests and, every 30 seconds, a cron
in each of them works through the table `background_jobs`. All shared state is
in PostgreSQL and in an object store. Statements run under READ COMMITTED;
most services read rows, decide, and then update, some of them with a row lock
(`for update`, `for share`), some with a comparison of status or version in the
update, some with neither. That is where the hard behaviour is.

| Component | State | Operations | What makes it correct | Module |
| --- | --- | --- | --- | --- |
| Job queue, `src/lib/jobs` | `background_jobs`: status, attempts, `locked_at`, `available_at` | enqueue, sweep, claim, complete, fail; the loop of `processNextJobs` | one owner per row, attempts bound the side effects, settled rows stay settled, every row is settled in the end | `JobQueue`, `TimedJobQueue`, `JobContract` |
| Reports, `services/reports.ts`, portal approval in `services/client-portal.ts` | `reports`, `report_versions`, exports | create, save, refresh, revise, transition, queue and run a render, approve in the portal, show or hide | published versions never change, four eyes, what is approved is what QA saw, exports show the content | `ReportLifecycle` |
| Evidence, `services/evidence.ts` | `evidence`, the object store | upload, replace, annotate, scan | every row has its object, no orphans, no unwanted duplicates, versions are numbered, quarantine is lifted only by a later verdict | `EvidenceUpload`, `EvidenceCustody` |
| Retention, `services/retention.ts` | `evidence_legal_holds`, retention dates | hold, release, preview, purge by cron or by hand, archive reports, delete findings and engagements | held evidence is kept, destroyed evidence is gone, no more is destroyed than was confirmed | `EvidenceCustody` |
| Findings, `services/findings.ts` | `findings`, `finding_versions` | transition, edit, patch, template update, bulk update, import, enrich | review by different people, content frozen in review, exact history, no lost edits | `FindingWorkflow` |
| Client portal and retests, `services/client-portal.ts`, `retest-api.ts` | remediation updates, retests, finding status, report revisions | remediation update, request, schedule, complete | a client reopens nothing, transitions on record connect, a completed retest makes one version | `RetestPortal` |
| Webhooks, notifications and domain events, `services/webhooks.ts`, `notifications.ts`, `domain-events.ts` | inbox, deliveries, jobs, secrets | emit in or outside a tenant scope, attempt, record, rotate a secret | delivered means accepted, failed means given up, all or none in a scope, every delivery ends | `EventDelivery` |
| Members, SCIM, sessions, `services/account-security.ts`, `scim.ts`, `lib/auth` | `organisation_members`, invitations, sessions, `sessionsRevokedAt` | change role, invite, accept, provision, deactivate, reactivate, push groups, sign in, replace a session | a revoked proof of identity never opens the organisation again, an owner remains | `MemberAccess` |
| SAML, `lib/auth/saml-*.ts` | requests, cookie, tombstones of assertions | begin a log-in, consume, check, reserve, sign in, sweep | an assertion and a request sign in once, in the browser that began | `SamlSignIn` |
| Domain verification, `services/domain-verification.ts` | the domains in an organisation's policy (one JSON column) | add, remove, verify, save other settings | one organisation per domain, and only with the token that was found | `DomainClaims` |
| Engagements, `services/engagement-workspace.ts` | status, version, versions of the scope | transition, draft, add or edit items, approve, import of a bundle | transitions on record connect, one draft, nothing approved empty | `EngagementScope` |
| Imports, `services/data-exchange.ts` | import runs, findings, assets | preview, apply | one finding per identifier, a run made what it says | `ScannerImport`; bundles in part in `FindingWorkflow`, `EngagementScope` |
| Marketplace licence, `lib/marketplace/aws`, `docker-entrypoint.sh` | seats at AWS, the counters of each container | check out with retries, heartbeat, check in, exit | fails closed after so many heartbeats, an orderly shutdown returns the seat | `ReplicaLicence` |
| Permissions, scoring, deadlines, rendering, adapters | none | pure functions | agree with their documented tables | not modelled |

They interact through the database and the queue: reports, evidence and events insert
jobs in the transaction that changes their rows, or, outside a tenant scope, after
it; handlers write results by id, with no comparison to what they read; archiving
an engagement is meant to stop findings, evidence and reports under it;
completing a retest transitions the finding and creates a report revision; a
purge and a legal hold meet on one row; deactivating a member ends the sessions that SAML
made; saving any security setting rewrites the column that the domains are kept in.

The hazards are listed in `PROJECT.json`, each at its line with the properties
that would catch it, or a note why none does.

## Modules

    JobQueue <--- TimedJobQueue           JobContract <--- ReportLifecycle
       ^                                       ^
       |--- JobQueueRefinement --INSTANCE------|---------- EventDelivery
                                               |
                                               |---------- EvidenceCustody ---> EvidenceUpload

    FindingWorkflow <--- RetestPortal
    MemberAccess   SamlSignIn   DomainClaims   EngagementScope   ScannerImport   ReplicaLicence

An arrow means EXTENDS. The queue is modelled once in detail and shown to
implement `JobContract`; whatever runs jobs is composed with the contract, so
that timestamps and leases need not be multiplied with the services' state.
`RetestPortal` is composed with the transitions of `FindingWorkflow`, of which
it uses the actions themselves.

The `MC...Regimes` modules instantiate one module more than once, with different constants,
over the same variables: a variable that never changes (`quiet`, `regime`) says which
instance a behaviour belongs to. `MCOrganisation` does the same (`part`) for six modules that
share no variable, one of them in two parts: the state space is the sum of the seven, not their product.

The proofs are kept apart from what they are about:

| Proofs | EXTENDS |
| --- | --- |
| `JobQueueProofs` | `JobQueueRefinement`, `TimedJobQueue` |
| `JobContractProofs` | `JobContract` |
| `ReportProofs` | `MCReportRegimes`, `JobContractProofs` |
| `EvidenceProofs` | `EvidenceCustody`, `JobContractProofs` |
| `EvidenceRegimesProofs` | `MCEvidenceRegimes`, `EvidenceProofs`; INSTANCE of `EvidenceProofs` for the hurried regime |
| `FindingProofs` | `MCFindingRegimes` |
| `DeliveryProofs` | `MCDeliveryRegimes`, `JobContractProofs` |
| `OrganisationProofs` | `MCOrganisation` |

A definition with the comment **Variant** is not part of any specification: it is
what a plausible slip would make of the definition after it. Each property is known
to fail when one of these takes the place of the original.

### JobQueue, TimedJobQueue

A *runner* is one call of `processNextJobs`; runners overlap freely, in one process or
several. `pc` says how far it has come: `Sweep` and `ClaimBatch` are the two statements
of `claimJobs`, `Begin` to `FailJob` the loop. `row` is the table; `batch` and
`cur` are what the runner holds in memory, each claim with the `locked_at` it
was given (the whole batch shares one) and its attempt number. `completeJob`
and `failJob` are no-ops unless `locked_at` still matches (`Fenced`). Both may
throw before or after they took effect; a failure of `completeJob` reaches the
catch clause and `failJob`, a failure of `failJob` ends the call, which is a
`Crash`. `begun` and `succeeded` are history. Time is a counter; a runner may be
as slow as it likes.

`TimedJobQueue` adds what the comment on `JOB_LEASE_SECONDS` reasons about:
handlers last at most `LongestJob`, the cron starts a runner again within
`CronPeriod`, other steps take no time.

### JobContract, JobQueueRefinement

The contract has rows that wait, run and are settled, and `hands`: attempts in
progress, possibly several of one row. Only the newest attempt settles a row.
Under the mapping `queued` and `retrying` are `waiting`, and the fence's
comparison of timestamps becomes a comparison of attempts: that those agree is
the core of the refinement.

### ReportLifecycle

One report with its versions. Requests that lock their rows are one action;
`transitionReport`, `createReportRevision` and `approvePortalReport` read without a lock and are two
(`ReadFor...`, `Commit...`). People in `Slow` can be overtaken between the two. Content is
a number, one per save or refresh; `exports` is the content the stored files show.
Render jobs go through the contract: `RenderBegin` reads the content, `RenderMark`
writes `running`, `RenderDone` or `RenderFail` write the outcome by id, whatever
became of the version. `qa` and `final` are history, and so is `late`: a portal approval has been
committed that no longer found the review it had read. `Retried` says of a version that one of its jobs has been
tried again.

### EvidenceUpload, EvidenceCustody

An upload is `Prepare` (first transaction: engagement, duplicates, version number),
`Put`, and `Insert` (second transaction) with `Compensate` when that fails.
`EvidenceCustody` adds the scan job, composed with the contract, legal holds (a
check, then an insertion: two statements without a lock) and purges: `StartPurge` is
the preview, then for each candidate `SelectForUpdate` (the statement's snapshot,
holds included), `Destroy` (the update and its commit) and `DeleteObject` after
the commit. `Show` is the settings page that tells the operator the number to type.

### FindingWorkflow, RetestPortal

One finding. A transition reads (`BeginTransition`), decides by table, duties and
override, and updates where status and version are as read. Edits are
`OpenFinding` (the form, or the row that `patchFindingNarrative` merges with),
`ReadForEdit` and `CommitEdit`. Content is told apart by field: for each, the version
it was written in, so that writing back an old field is visible. Bulk updates and
imports lock the row and are one step. `approval` is history.

`RetestPortal` begins where the finding is published. What a client asks (`BeginRemediation`,
`BeginPortalRetest`) is decided on an unlocked read and committed later;
`BeginApiRetest`/`CommitApiRetest` are the API's two steps, of which the second locks the
finding; `ScheduleRetest` and `CompleteRetest` lock attempt and finding and
take the finding along `Path`, the transitions the outcome asks for, and `ReviseReport` is the report's
new revision after the commit. `trail` is the status that the last row of
`finding_transitions` left the finding in.

### EventDelivery

`emitter` says how far one domain event has come, statement by statement: the change (`Emit`), the inbox
(`InsertInbox`), then for each target its row (`InsertRow`) and its job (`InsertJob`). In a tenant scope all this is one
transaction: `written` is what it has inserted and nobody sees until `CommitScoped`, and a
statement that fails takes its part back to the savepoint (`RolledBack`; all the webhooks are one part, each channel is
one). Outside, each statement commits by itself, a failing one ends its part there, and the emitter may die between
any two (`EmitterDies`). A delivery is sent by its job, which goes
through the contract: `ReadDelivery` takes status, secret and the number of attempts,
`Ask` has the receiver answer, lose the answer or refuse, `Record` writes down what came of it,
or fails to. A rotation reads without a lock (`BeginRotation`) and writes by id (`RotateSecret`), so that two may
overlap; the secret it replaces is kept for a window, which ends at any time after (`WindowEnds`). `receiver` is the
secret that the receiver checks with, which is any newer one it has been shown, whenever it likes (`ReceiverTakes`).
`rotating` is what a rotation has read; `raced` is history: the webhooks of which a rotation replaced another secret
than it had read.

### MemberAccess, SamlSignIn

`MemberAccess` has memberships, invitations and sessions with the time their owner last
proved who they are (`proved`); nothing locks a membership, so each request is a `Begin...` that
reads and a `Commit...` that writes by id. `cut` is `sessionsRevokedAt`; `ended` is
history: the newest revocation a user has ever had. A session `Opens` the organisation
when both checks of the code let it. What overlaps is history too (`Observed`): `overtaken` are the members of whom a
revocation was under way together with another request about their sessions, `contested` says that
requests which may end the ownership of two members were under way together.

In `SamlSignIn` a post of an assertion goes through `Consume` (the library deletes the
request it answers), `Check` (cookie and times), `Reserve` (the tombstone, whose
unique key decides between replicas) and `SignsIn`; it may end after any of them. The identity
provider and browsers are external; `Sweep` deletes expired rows whatever else is under way. `late` is history: the
posts that looked at the clock in time but reserved after their assertion's last moment.

### DomainClaims

The policy of an organisation is one JSON column, which every writer locks, reads and
writes as a whole. `BeginVerification` reads without a lock, `AskNameServer` may take seconds, then
`LockPolicy` (the row; the entry must still be there, with the same token), `LockDomain` (the
advisory lock of the domain; nobody else may have verified it) and `CommitVerification`.
`BeginSettings` and `CommitSettings` stand for the actions that rewrite
the rest of the policy. `found` is history: the records the name server has answered.

### EngagementScope, ScannerImport

A transition is decided on an unlocked read and updates where the version still is
what it read. Drafts, items and approvals of the scope read, decide and write; the unique index
on the version number is what two drafts meet. `ImportBundle` writes the status of
an engagement directly, compares nothing and waits for nobody. History: `gaps` are the transitions on record that do
not begin where the one before ended, by the version they had read; `imported` the versions at which a bundle was imported.

`ScannerImport` previews (`LookForDuplicates`, then `InsertRun`) and applies a run: one transaction that
locks the run and prepares and inserts its findings one by one. Uncommitted rows are kept in the
run: other transactions do not see them, but their unique keys make them wait, and of two that wait for each
other the database ends one (`GiveUp`).

### ReplicaLicence

A container runs two programs one after the other: the enforcer of the entrypoint and
the application. Each `CheckOut`s a seat, with retries; without a free seat it is
enough to be subscribed (`Fallback`). The application then asks with every heartbeat (`AskHeartbeat`,
`AnswerHeartbeat`, `EndHeartbeat`), counts transient failures and
leaves by `CheckIn`. Answers may be lost on the way (`faulty` is history: who has lost one or died). `unheard` is history: the
heartbeats since the subscription ended.

## Runs

| Run | Shows | Instance |
| --- | --- | --- |
| `job_queue` | the fence admits only the newest claim; settled is final; the inductive invariant of the proofs, with one owner and attempts that bound the starts of a handler; `JobContract` is implemented | 2 rows, 2 runners, batches of 2, 2 attempts, 4 ticks, 1 crash, clock and runners unrelated |
| `job_queue_timed` | every row inserted is settled; no two live runners in one handler | 2 rows, 2 runners, batches of 1, lease of 1 handler, 5 ticks, 1 crash |
| `job_queue_batch_lease` | **violated**: `ExclusiveHandler` when the lease exceeds one handler but not a batch | 3 rows, batches of 3, lease of 2 handlers |
| `report` | quiet: four eyes (the author does not give QA approval, the QA approver not the final one), status agreement and QA saw what is approved, all until a portal approval comes late; in both regimes: exports in step but for retried versions, no version waits for a job that is gone, content frozen, closed is closed; quiet besides: what is published changes only by a retry or a late portal approval | 2 versions, 2 contents, 2 members; quiet: members one at a time, 1 portal contact whom anything overtakes, 2 jobs, 2 attempts, archiving; hurried: 1 job, 2 attempts, everyone overtaken anywhere, crashes, failing statements, retention, archiving |
| `report_retry_after_publish` | **violated**: `PublishedIsFrozen` | 2 jobs for 1 version, 2 attempts |
| `evidence` | quiet: versions differ, no unwanted duplicates, no orphans, destroyed is gone, quarantine is sticky; hurried: active evidence has its object, no more destroyed than confirmed, timely holds protect | 2 uploads; quiet: 2 contents, 2 attempts, a nightly purge, dying scanners; hurried: overlapping uploads of 1 content, 2 purges, 2 holds, crashes, failing store |
| `evidence_hold_race` | **violated**: `HeldIsKept` | 1 row, 1 hold, 1 purge |
| `finding` | quiet: review by different people; hurried: content frozen; in all three: published is approved, history exact, nothing taken back but by a form older than the row its update compares, although requests overtake each other; portal: the transitions on record connect, a client reopens nothing, a completed retest makes one version, the API opens no second attempt | 3 members; quiet: all 13 statuses, 3 versions, 2 fields, an override, enrichment, archiving; hurried: 2 requests, the statuses of review, 2 versions, 3 of drafts (`DraftsOnly`); portal: 2 requests, 2 attempts, 3 versions, archiving |
| `finding_stale_review` | **violated**: `QaByAnother` when requests overlap | 2 requests, 3 members, 1 version |
| `delivery` | what is completed or delivered was accepted, failed means no attempt is left; in a scope all webhooks or none, each delivery with its job, elsewhere at most one webhook without; a receiver that keeps up with its secrets is not cut off; every delivery that has a job ends | quiet: 2 webhooks and a channel, 2 attempts, failing statements, a dying emitter; hurried: 1 webhook, 2 attempts, 2 workers at once, every fault; rotating: 1 webhook, 3 secrets, overlapping rotations, 2 workers that die or outlive their lease |
| `organisation` | a revoked proof of identity stays out and an owner remains, but where the requests concerned overlapped; an assertion and a request sign in once, but for a late post; domains are proved, by one organisation; the transitions of an engagement connect but at an import, its versions are in order; imports add up; the licence is kept | 2 members, 2 sessions, requests one at a time, and 2 that overlap with 1 session and no administrators (`Narrow`); 2 browsers, 2 log-ins, 2 assertions, 2 posts; 2 organisations, 1 domain, 3 tokens, 2 claims; 2 overlapping edits, 3 engagement and 2 scope versions, bundles to `scoping` or `archived`; 2 runs over 3 fingerprints; 2 containers, 2 seats, 2 attempts, limit 2 |
| `licence_seat` | **violated**: `StartupSeatReturned` | 1 container, 2 seats |

**Why the bounds are enough.** Every property relates at most two actors and one
row, or two rows. Two runners or requests give each step an intruder at every point; a second
attempt distinguishes a retry from a reclaim, and the last attempt from the one before;
two rows make a batch longer than one and the order by `created_at`
matter; versions and contents up to 2 or 3 give one to leave, one to be in, and
one to come. Three secrets are a rotation on top of a rotation, or two that overlap. Three fingerprints, of which two share
an identifier, make a duplicate within a report, between reports, and none. With two containers and two seats,
of which each container takes two, somebody is refused. Clocks end (`MaxTime`, `MaxClock`), crashes are counted (`MaxCrash`), and
edits (`MaxVersion`, `MaxContent`, `MaxEngagement`, `MaxScope`), log-ins, assertions and posts (`MaxLogins`, `MaxAssertions`, `MaxPosts`),
sessions, workers (`MaxHands`), secrets (`MaxSecret`), uploads, holds, claims and jobs are drawn from the
finite sets of the configuration. In the quiet regime of `report` a second job exists only while no portal request
waits or has come late and the engagement is open (`Bounded`): a retry needs one job, two jobs of one version come without the portal,
and either meets the archiving apart. In the hurried regime of `finding` a third version is written of drafts only, which is where a form older than the row can
be saved (`DraftsOnly`). The overlapping part of `organisation` has one session, no administrators
and no change of invitations (`Narrow`); the part without overlap has them all. With two uploads, the numbering is checked of a replacement but
not of a replacement of a replacement. `ExclusiveHandler` also holds with batches of 2 and a lease of 2
handlers; with the liveness property that instance, `MaxTime = 7`, takes some six minutes. `CHECK_DEADLOCK` is off because in all of these bounded
models everything may have been done. Symmetry is declared for sets whose members only
equality tells apart, and never in a run with a liveness property.

**Flags.** `Overlap`, `Slow`, `Events`, `UploadEvents` and `Faults` switch on what a regime's
question needs. `Overlap = FALSE`, and members outside `Slow`, are the rely-condition "requests come
one at a time"; a property checked under it says what the handlers do in sequence,
and the regimes with overlap say how much survives. Where it does not survive, the
list of disagreements says so. No action waits for what the code does not wait for: where a promise
holds except after one particular overlap, the overlap happens in the run, and the property names it by a history variable or
by what the step does (`late`, `Retried`, `ApprovalCommitted`, `raced`, `imported`, `overtaken`, `contested`, and
`NothingTakenBack`'s older form). Each exception is a line under *Disagreements*.

**Fairness.** `FairTimedSpec` has weak fairness of time and of the steps of each
runner. The cron of `src/lib/jobs/runner.ts` calls `processNextJobs` every
30 seconds for as long as the process lives and the event loop runs every
continuation; a process that died is started again by its supervisor, so crashes are
finite in a bounded time (`MaxCrash`). Handlers are assumed to end: a handler that never
returned would keep its runner for ever and only the lease, with another
runner, would free the row. `HurriedFairness` says the same to a service above the contract: a
job that can be claimed or swept is, in the end (`Take`), and a worker in a delivery goes on (`Attempt`; the
request of `webhooks.ts` has a timeout). Workers that die are not assumed to be few: the attempts bound them.

## Proofs

The proofs hold for every value of the constants that the named ASSUMEs admit; a theorem with a condition in front
(`~Overlap => ...`) says what it needs besides. The conditions are the flags of the regimes, so that for each there is a run
that meets it, and a line under *Disagreements* for what happens without it. No property is
inductive as it stands: each follows from an invariant, kept by a lemma per part or per group of
steps. `PROJECT.json` lists the theorems with the properties they state.

**Assumptions on constants.** Sizes, limits and times are naturals, positive where the code has positive constants
(`BoundsAssumption`, `TimingAssumption`, `TimesAssumption`, `SizeAssumption`, `ScopeAssumption`, `LicenceAssumption`,
`DeliveryAssumption`, `AccessAssumption`); bundles and events are of the kinds there are (`BundleAssumption`, `EventsAssumption`); sets that are counted are finite (`TableAssumption`, `UploadAssumption`, `CustodyAssumption`,
`HurriedAssumption`); *nobody* and *no row* are nobody's name (`PeopleAssumption`, `PortalAssumption`, `NamesAssumption`); an
organisation has its founder (`AccessAssumption` too), a finding its author (`WorkflowAssumption`), a batch consists of
fingerprints (`ImportAssumption`); a job scans one upload (`JobsAssumption`). `BackoffAssumption` is a fact of the code: a retry waits at least one tick (the backoff
starts at 30 seconds).

**The queue** (`JobQueueProofs`). `JobInv` gives `FenceIsNewestClaim`, `OneOwner`, `AttemptsSpent`,
`CompletedMeansDone` and `SettledIsFinal`. A timestamp fences only because a later claim has a *later* timestamp, which needs the lease to
have run out, or the backoff to have passed, in between: `RowInv` (lock and status agree; attempts by status),
`ClaimInv` (a claim in memory carries the row's `locked_at` if it is the newest attempt and an earlier one otherwise; a
waiting retry becomes available after every token handed out), `DistinctClaims`. Without `BackoffAssumption` a row
could fail and be claimed again within one tick, with the same token, and the older claim would pass the fence.

`QueueKeepsContract`: the queue implements `JobContract`, initial states and each step (a sweep is one `GiveUp`, the claim of a
batch one `Claim`; time, and a write that the fence refuses, change nothing but hands). This is what lets the services be proved about with the contract alone.

`LeaseCoversBatch`: if the lease is at least `Limit * LongestJob`, no two live runners are in the handler of one job. `TimedInv`
says that the handlers a runner has left (`Left`) fit in what the lease of its batch has left (`InTime`), and that nothing is taken from it (`StillMine`). The run
`job_queue_batch_lease` shows that the condition is needed: a lease longer than one handler, as the comment in the code has it, is not enough.

**The contract** (`JobContractProofs`). `ContractInv`: no attempt is in two hands, a row waits while an attempt is left and is given up when none
is. One lemma per operation of the contract, stated without the services, so that `ReportProofs`, `EvidenceProofs` and
`DeliveryProofs` cite them. `WorksByContract`, `RendersByContract` and `DeliversByContract` show that evidence, reports and
deliveries use the queue as the contract allows: each of their behaviours is one of the contract. A commit in a tenant scope inserts several jobs at once, which is
why `Submit` takes a set. Of deliveries it needs that jobs have rows and that a row which waits for its job has none yet (`EmissionInv`): a job put in is new to the queue.

**Reports** (`ReportProofs`). `ReportInv` is what holds whoever overtakes whom: the rows, requests, handlers and history have
their types, name versions that exist, and keep the contract. Under `MembersAlone` (no *member* is slow; portal contacts may be) and without the
retention job, `ReviewInv` gives status agreement, four eyes and that QA saw what is approved, until an approval of the portal comes `late`: what a
member has read is what the rows still say (`AloneInv`), and each version's row says of its review what the history says (`Agreed`). Four eyes needs that
`approved_by` is who gave QA approval *until* the final approval.

`ExportsStayInStep` needs none of this: for any number of attempts, with crashes, failing statements and requests that overlap as they like,
exports show the content of each version of which no job was tried again. `HandsInv` (handlers and attempts in hand agree) and `MatchInv` (the first attempt of a
version's newest job reads the content that is there when it ends) give that; `ServeInv` gives that a version waits only while a job of its own will
write it, or has become a dead letter, as long as a live worker does not lose its lease (`SoleInv`). `ReadyInv`: what is frozen has its
exports, so that nobody queues another render. `FrozenRemainsFrozen` is the action property of the run under `MembersAlone`, retries, crashes, retention
and overtaken portal requests included; in the hurried regime `HurriedRows` and `HurriedRequests` suffice for content that was frozen to stay,
with no condition.

**Evidence** (`EvidenceProofs`, `EvidenceRegimesProofs`). `UploadInv`: a row comes with the end of its upload, its object was there before and
stays until the row is destroyed (`Accounted`), and a replacement names a first version (`InPlace`). `RetentionInv`: what a purge has done and has still on its list is no more than
was shown (`PurgeInOrder`), and a hold placed in time is on a row that no purge is at (`HoldInOrder`); from it
`NoMoreThanConfirmed` and `TimelyHoldIsKept`, although purges and holds overlap freely. With uploads one at a time, what the first transaction found is still true at the
second (`SerialInv`): versions differ and duplicates are wanted. Without crashes and failures of the store (`Reliable`), no orphans and nothing left of what was destroyed.
With leases that outlast scans (`ScannedInTurn`), a quarantine is lifted by a later verdict only. The second module carries these over to the run, whose hurried regime is
an instance of the same theorems with other constants.

**Findings and the portal** (`FindingProofs`). `WorkflowInv`: what was read at the version that is still there was read right
(`ReadStands`), decisions stay true of what they were made of (`Decided`), and a content whose version is the approved one is what was approved (`FindingInOrder`).
So what is published was approved, however edits and transitions overlap, and the history is exact; an enrichment, which writes without a
version, must not be overtaken (`EnrichedAlone`). `PortalInv`: from what a client sees no transition leads back to publication, so that
each version after the first is a retest's; the transitions on record connect, a client never reopens, the API opens no second attempt. `NothingIsTakenBack`, over any overlap
of edits, patches and enrichments: at the version that an update compares, the row still has all parts as they were read (`PartsInOrder`), so that
only a save whose form was older than that takes back what another wrote. The two regimes with constants of their own have small
invariants of their own: `HurriedInv` (what a request may write was editable when it was read, and a commit compares status and version with that) and `QuietInv`
(the one request knows the row as it is, and nothing is newer than the version). `RegimesTyped` gives the types of all
three, whose only content beyond the columns is that no version passes the bound.

**Deliveries** (`DeliveryProofs`). `DeliveryInv`. That `failed` means no attempt is left, although attempts overlap and each writes a count it read before, needs a budget
(`Budget`): what a row counts, with the attempts that may still be written down, is no more than the job has made; the same is true of each count
read before. `AcceptInv`: who says that a receiver took a delivery is right. `EmissionInv`: how far each emission has come, what its transaction has written and what the
tables show agree, whichever statement fails; from it `EventsStayWhole`. `SecretInv`: unless rotations raced, the previous secret is the one before the present (`SecretsFollow`), and
whatever is signed with the present one is signed with the previous one too, within the window (`SignedFor`); from it
`RotationStaysSmooth`. All are proved of `Spec`, whatever the faults.

**The parts of an organisation** (`OrganisationProofs`). `PartsOfOrganisation` shows that a behaviour of the run is one of each part, and
`OrganisationHolds` collects what the run checks.
- *Engagement* (`ScopeInv`): a transition whose version is still there was read with the status that is still there (`FreshTransition`); nobody who is about to insert a draft read before the draft that is now the latest,
  unless the unique index on the number will refuse it (`FreshDraft`); a version that had items keeps one (`FreshRow`).
- *SAML* (`SamlInv`): who passed the checks is in the browser that began (`Bound`); a request that one post has consumed no other has (`RequestsUsedUp`); a tombstone
  stays until it is too late for the checks, which is why an assertion that one post has reserved no other can in time (`AssertionsUsedUp`). The sweep may run at any moment;
  only a post that is `late` is excepted.
- *Imports* (`ImportInv`): of two open transactions no two rows have one identifier (`Apart`), a plan has each identifier once
  (`PlanInOrder`), and what was chosen is still to do, made, or there (`ProgressInOrder`).
- *Members*, however many requests overlap. `RevokedStayOut` excepts the members who were `overtaken`: of all others the row holds the newest revocation (`CutKept`), no session made
  after it was proved before it (`Proved`), and a request that was decided is still right about both (`StillRight`). `OrganisationKeepsOwner` excepts what happens once two
  dethroning requests were under way about different members (`contested`): until then an owner stays behind each of them (`OwnerBehind`). The exceptions are what the code allows, as the
  list of disagreements says; with one request at a time neither occurs.
- *Domains* (`DomainInv`, no assumption at all): whoever holds a row still reads what it read, and alone; who claims a domain is the only one, while no
  other organisation has it verified.
- *Types* (`OrganisationTyped`): of all parts, over the specification of the run and for any number of requests. No more seats are taken than the contract has, and no clock passes its end.
- *Licence* (`LicenceInv`): heartbeats that went unheard were counted, all but the one being dealt with (`Heard`); a container that lost no answer has a seat of its application
  only while it serves or returns it, under the token it remembers (`Seated`).

**Checked by TLC only.** Liveness (`EventuallySettled`, `HurriedDeliveryEnds`), which needs fairness and ENABLED, beyond this prover. The types of two
compositions (`RegimesTypeOK` of reports and deliveries): `ReportInvariant` and `DeliveryInvariant` prove them of each module's own specification, of which
the regimes are instances. `DeliveriesTellTheTruth` likewise is
about `Spec`, whatever the faults, and `RowsTellTheTruth` is one formula for all three regimes, which have two attempts each. Nothing recursive is computed: no module declares a RECURSIVE operator.
That the assumed conditions of `EvidenceRegimesProofs` and `ReportProofs` can be met is what their runs show.

## Disagreements between the code and what it says

The violated runs are in `PROJECT.json` with the lines they contradict. The same
modules show these when a run's constants are changed as given; they are recorded here
and each is a candidate for a fix.

| What | How to see it |
| --- | --- |
| A portal approval (`client-portal.ts:660`) writes by id what it decided on earlier rows: an edited draft becomes approved, against "approve a report in client_review" (`TODO.md:211`) | `QaSawContent` without `late`; the run `report` meets it |
| For the same reason it signs a version that has been published, and moves a report whose engagement has been archived, against "content, exports and approvals never change" and the refusal of mutations (`reports.ts:516-517`, `reports.ts:1551`) | `FrozenStaysFrozen` without `ApprovalCommitted`; the run `report` meets both |
| The sweep (`jobs/service.ts:27`) dead-letters a render without telling the version, and so does a failing write of the outcome: the version stays `running` "forever" (`reports.ts:713-714`) | `RenderingHasJob` without its `dead_letter` case; the hurried regime meets both |
| A render that is tried again writes by version id what it began with, over a newer render's exports, even of a version that has been published | `ExportsMatch` without `Retried`; the run `report_retry_after_publish` |
| `transitionReport` (`reports.ts:532`) compares the status only; after another round QA and final approval can be one person's, against `TODO.md:186` | `FourEyes` with three members, all in `Slow` |
| For the same reason an approval that was read for version 1 commits when version 2 is at the same stage: version 2 passes without the check, and the columns of version 1 (`immutable`, `approved_by`) are rewritten | `QaSawContent` with three members, all in `Slow`, no client, no events, 2 versions |
| `applyRetention` (`retention.ts:254`) archives the report and not its versions, by whose status the portal shows them | `StatusAgreement` with `Events = {"retention"}` |
| Uploads that overlap are numbered alike and duplicate each other's contents (`evidence.ts:177-226`) | `DuplicatesAreWanted` with `Overlap = TRUE`; `VersionsDiffer` with three uploads besides |
| The second transaction of an upload (`evidence.ts:247`) does not look at the engagement again: a row appears after it was archived, against `engagement-guards.ts:40-41` | `CloseEngagement` before `Insert` |
| A purge that dies between commit and deletion (`retention.ts:181`), or whose deletion fails, leaves the object for ever, against `docs/admin-guide.md:38` | `DestroyedIsGone` with `UploadEvents = {"crash", "storage"}` |
| A scan that outlives its lease reports after a later one and lifts its quarantine (`evidence.ts:666`) | `QuietQuarantineIsSticky` with `Events = {"runner", "lease"}` |
| A patch (`findings.ts:690`) writes back fields it read before another edit, with the version it reads afterwards, against `TODO.md:203` | `NothingTakenBack` without its exception |
| The enrichment (`findings.ts:903`) writes references in any status, without a version, against `findings.ts:615`; it takes back references edited meanwhile | `ContentIsFrozen` with `Events = {"enrich"}`; `NothingTakenBack` of the references too, with `Overlap = TRUE` |
| A transition commits after the engagement was archived (`findings.ts:964`) | `CloseEngagement` between `BeginTransition` and `CommitTransition` |
| The portal opens a retest beside an open one (`client-portal.ts:595`), which the API refuses (`retest-api.ts:52`) | `CommitPortalRetest` without `NoneOpen` |
| The open attempt of a finding that is closed meanwhile can never be completed (`client-portal.ts:731`) | `CompleteRetest`: no `Legal` path leaves `closed` |
| A retest is completed and committed before its report is revised (`client-portal.ts:1087`); a failure then leaves no revision | `CompleteRetest` without `ReviseReport` |
| A delivery whose workers die in every attempt stays `pending` or `retrying` after its job is dead-lettered: the sweep does not know it | `GiveUp` in `EventDelivery` |
| A failing attempt that overlaps a successful one overwrites `delivered` (`webhooks.ts:232`) | `Record` with `MaxHands = 2` |
| Outside a tenant scope an emission is lost after a crash (`domain-events.ts:85`), and a delivery may have no job (`webhooks.ts:172`) | `EventsAreWhole` with its first case for all changes |
| Rotations that overlap (`webhooks.ts:109-130`) put the secret both read in the place of the one that the first has shown: its receiver gets no signature it can check, against the 24 hours of `docs/api.md:16` | `RotationIsSmooth` without `raced` |
| Two demotions or deactivations at once (`account-security.ts:347-359`, `scim.ts:271-287`) leave no owner, against "Cannot demote the last organisation owner" | `OwnerRemains` without `contested` |
| Revocations that overlap move `sessionsRevokedAt` backwards; a replaced session, or a SAML log-in, that was checked before a revocation is newer than it | `RevokedStaysOut` without `overtaken` |
| An expired tombstone is swept while a reservation waits for its lock (`saml-cache.ts:96-118`), and the assertion signs in twice, against the comment at `saml-cache.ts:85-89` | `UsedOnce` without `late` |
| Items are added to a version of the scope after its approval, when requests overlap; an editor who is not the author may approve their own edits | `CommitItem` after `CommitApproval` |
| A bundle import (`data-exchange.ts:1101-1160`) writes any status without a version, so that a transition decided earlier commits over it | `TransitionsConnect` with `gaps = {}` |
| Two fingerprints cut to one identifier lose a finding without a word; a bundle that renames a finding's identifier lets its fingerprint in again | `Identifier` of `f1` and `f2` |
| An import may commit after its engagement was closed | `CloseEngagement` before `CommitApply` |

Noticed and not modelled: the status of a runbook is computed from a snapshot of its steps and goes stale when two updates overlap
(`services/runbooks.ts`); pushes of one finding to two issue trackers overwrite each other's key.

## Not modelled

One organisation and one engagement stand for all, except where two organisations meet
(`DomainClaims`): row-level security and scoping are not
modelled. Permissions, validation, wording, rendering, search, analytics and storage providers are
pure functions or pure I/O. By far the most lines of the repository are the user interface, seeds, renderers, schema and
adapters, which change no state of their own: server actions and routes validate, check
permissions and call the services that are modelled; renderers and adapters are functions
of a document that no property looks into. Their lines are not mapped.

Of the services: API keys and trackers (calls outward that keep a link or a time), comments, runbooks, tasks, time and notes (insertions and
updates of one row that nothing else decides on), records of annotations, sharing and grants of the portal,
which only refuse requests, links of assets and evidence, severity from the risk matrix, the soft deletion of findings and
engagements. A commit whose outcome the client does not learn is
modelled for the queue and for the licence, not for uploads. The other tables of a bundle are upserts by id. AWS's own expiry
of seats, overlapping heartbeats of one container, and the migrator, which takes and returns a seat like the application, are left out.
`PROJECT.json` names every component with its status.

## Plan

1. The types of the report and delivery regimes over the specifications of their runs.
2. Operators for SLA deadlines, severity and the permission matrix, against their documented tables.
