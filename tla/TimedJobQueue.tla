--------------------------- MODULE TimedJobQueue ----------------------------
(***************************************************************************)
(* JobQueue with bounds on how long things take: one handler runs for at   *)
(* most LongestJob ticks, a runner waits at most CronPeriod ticks for the  *)
(* cron of src/lib/jobs/runner.ts to start it again, and everything else   *)
(* processNextJobs does takes no time.  This is what "Keep it well above   *)
(* the longest job" in src/lib/jobs/service.ts reasons about, and it turns *)
(* "every job is settled in the end" into something a bounded clock shows. *)
(***************************************************************************)
EXTENDS JobQueue

CONSTANTS
    CronPeriod,     \* the pause between two calls of processNextJobs
    LongestJob      \* the longest a handler runs

ASSUME TimingAssumption == CronPeriod \in Nat \ {0} /\ LongestJob \in Nat \ {0}
ASSUME TableAssumption == IsFiniteSet(Jobs)

VARIABLE since          \* when each runner reached its present step

timedVars == <<vars, since>>

TimedInit == Init /\ since = [r \in Runners |-> 0]

\* A runner that moves starts a new step; the jobs' owners are not timed.
Arrive(r) == since' = [since EXCEPT ![r] = now]

TimedEnqueue(j) == Enqueue(j) /\ UNCHANGED since

\* The cron does not start a runner twice at one instant.
TimedStep(r) ==
    /\ pc[r] = "idle" => since[r] < now
    /\ Step(r)
    /\ Arrive(r)

TimedCrash(r) == Crash(r) /\ Arrive(r)

MayWait(r) ==
    \/ pc[r] = "idle" /\ now < since[r] + CronPeriod
    \/ pc[r] = "run" /\ now < since[r] + LongestJob

TimedTick ==
    /\ \A r \in Runners : MayWait(r)
    /\ Tick
    /\ UNCHANGED since

TimedNext ==
    \/ \E j \in Jobs : TimedEnqueue(j)
    \/ \E r \in Runners : TimedStep(r) \/ TimedCrash(r)
    \/ TimedTick

TimedSpec == TimedInit /\ [][TimedNext]_timedVars

\* The cron and the event loop run every runner on, and time passes.
FairTimedSpec ==
    /\ TimedSpec
    /\ WF_timedVars(TimedTick)
    /\ \A r \in Runners : WF_timedVars(TimedStep(r))

-----------------------------------------------------------------------------
\* No running row is lost and no row waits for ever: if crashes stop, every
\* row inserted early enough for the bounded clock is settled in the end,
\* whichever runners crashed with it and whatever its handler did.
EventuallySettled ==
    \A j \in Jobs :
        row[j].status = "queued" /\ row[j].createdAt = 0
            ~> row[j].status \in {"completed", "dead_letter"}

\* The comment on JOB_LEASE_SECONDS: a row whose lock is older than the lease
\* belongs to a crashed worker.  So no two live runners are in the handler of
\* one job.
ExclusiveHandler ==
    \A r, s \in Runners :
        pc[r] = "run" /\ pc[s] = "run" /\ cur[r].job = cur[s].job => r = s
=============================================================================
