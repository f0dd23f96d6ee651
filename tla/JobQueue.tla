------------------------------ MODULE JobQueue ------------------------------
(***************************************************************************)
(* The durable background job queue of src/lib/jobs/service.ts: the table  *)
(* background_jobs, claimJobs, completeJob, failJob and the loop of        *)
(* processNextJobs, which the cron job of src/lib/jobs/runner.ts starts    *)
(* every 30 seconds in every process and which may overlap with itself.    *)
(*                                                                         *)
(* A runner is one call of processNextJobs.  It sweeps dead rows, claims   *)
(* at most Limit rows in one statement, so that the whole batch carries    *)
(* one locked_at, and then works through the batch one row at a time.      *)
(* locked_at is both the lease and the fencing token.  The handler itself  *)
(* is not fenced.  A crash loses the batch and leaves its rows running.    *)
(*                                                                         *)
(* Time is a clock of whole ticks, and a runner may take any time over any *)
(* of its steps; TimedJobQueue adds bounds on that time.                   *)
(***************************************************************************)
EXTENDS Naturals, FiniteSets

CONSTANTS
    Jobs,           \* the rows of background_jobs that may be inserted
    Runners,        \* concurrent calls of processNextJobs
    Limit,          \* the limit of claimJobs
    MaxAttempts,    \* max_attempts of every row
    Lease,          \* JOB_LEASE_SECONDS
    BackoffUnit,    \* the 15 seconds of failJob
    BackoffCap,     \* the 3600 seconds of failJob
    MaxTime,        \* bound on the clock
    MaxCrash        \* bound on the number of crashes

Backoff(n) == IF 2^n * BackoffUnit < BackoffCap
              THEN 2^n * BackoffUnit ELSE BackoffCap

ASSUME BoundsAssumption ==
    /\ Limit \in Nat \ {0} /\ MaxAttempts \in Nat \ {0}
    /\ Lease \in Nat \ {0}
    /\ MaxTime \in Nat /\ MaxCrash \in Nat

\* failJob always makes a row wait: no row is claimed twice at one instant.
ASSUME BackoffAssumption ==
    \A n \in 1..MaxAttempts : Backoff(n) \in Nat \ {0}

VARIABLES
    now,        \* the database clock
    row,        \* background_jobs
    pc,         \* where each runner is in processNextJobs
    batch,      \* claimed rows the runner has not begun
    cur,        \* the claim whose handler is running or has just run
    crashes,    \* number of crashes so far
    begun,      \* history: how often the handler of each job was started
    succeeded   \* history: the jobs whose handler returned normally

vars == <<now, row, pc, batch, cur, crashes, begun, succeeded>>

Unlocked == MaxTime + 1     \* locked_at is null
NoClaim  == [job |-> "none", token |-> Unlocked, attempts |-> 0]

Status == {"absent", "queued", "running", "retrying", "completed",
           "dead_letter"}
Row    == [status : Status, attempts : 0..MaxAttempts, createdAt : Nat,
           availableAt : Nat, lockedAt : 0..MaxTime \cup {Unlocked}]
Claim  == [job : Jobs, token : 0..MaxTime, attempts : 1..MaxAttempts]
Steps  == {"idle", "swept", "loop", "run", "ok", "err"}

Absent == [status |-> "absent", attempts |-> 0, createdAt |-> 0,
           availableAt |-> 0, lockedAt |-> Unlocked]

Init ==
    /\ now = 0
    /\ row = [j \in Jobs |-> Absent]
    /\ pc = [r \in Runners |-> "idle"]
    /\ batch = [r \in Runners |-> {}]
    /\ cur = [r \in Runners |-> NoClaim]
    /\ crashes = 0
    /\ begun = [j \in Jobs |-> 0]
    /\ succeeded = {}

-----------------------------------------------------------------------------
\* The definitions marked "Variant" are no part of the model: each is what a
\* plausible slip would make of the definition that follows it, and a property
\* below tells the two apart.

\* locked_at < now() - lease
\* Variants: the lease is ignored; the comparison includes equality.
AnyLease(j) == row[j].status = "running"
LeaseAtBound(j) == row[j].status = "running" /\ row[j].lockedAt + Lease <= now
LeaseExpired(j) == row[j].status = "running" /\ row[j].lockedAt + Lease < now

\* The sweep of claimJobs takes these rows.
Dead(j) == LeaseExpired(j) /\ row[j].attempts >= MaxAttempts

\* The where clause of the claiming statement.
\* Variant: it forgets the rows that wait for another attempt.
ClaimableOnce(j) ==
    \/ row[j].status = "queued" /\ row[j].availableAt <= now
    \/ LeaseExpired(j) /\ row[j].attempts < MaxAttempts

Claimable(j) ==
    \/ row[j].status \in {"queued", "retrying"} /\ row[j].availableAt <= now
    \/ LeaseExpired(j) /\ row[j].attempts < MaxAttempts

\* Claiming counts the attempt, so that a crash cannot hide it.
NextAttempt(j) == row[j].attempts + 1

\* "order by created_at limit n": S is a choice of the oldest rows.
OldestFirst(S, C) ==
    /\ S \subseteq C
    /\ Cardinality(S) <= Limit
    /\ S # C => Cardinality(S) = Limit
    /\ \A j \in S, k \in C \ S : row[j].createdAt <= row[k].createdAt

\* The fence of completeJob and failJob: the row is still locked by c.
\* Variants: the token is not compared; nothing is.
StatusFence(c) == row[c.job].status = "running"
NoFence(c) == TRUE
Fenced(c) == row[c.job].status = "running" /\ row[c.job].lockedAt = c.token

\* failJob: this attempt was the last.
Terminal(c) == c.attempts >= MaxAttempts

Goto(r, step) == pc' = [pc EXCEPT ![r] = step]

-----------------------------------------------------------------------------
\* A service inserts a row.
Enqueue(j) ==
    /\ row[j].status = "absent"
    /\ row' = [row EXCEPT ![j] = [@ EXCEPT !.status = "queued",
                                           !.createdAt = now,
                                           !.availableAt = now]]
    /\ UNCHANGED <<now, pc, batch, cur, crashes, begun, succeeded>>

\* First statement of claimJobs.
Sweep(r) ==
    /\ pc[r] = "idle"
    /\ row' = [j \in Jobs |-> IF Dead(j)
                              THEN [row[j] EXCEPT !.status = "dead_letter",
                                                  !.lockedAt = Unlocked]
                              ELSE row[j]]
    /\ Goto(r, "swept")
    /\ UNCHANGED <<now, batch, cur, crashes, begun, succeeded>>

\* Second statement of claimJobs: the batch and its common token.
ClaimBatch(r) ==
    /\ pc[r] = "swept"
    /\ \E S \in SUBSET Jobs :
          /\ OldestFirst(S, {j \in Jobs : Claimable(j)})
          /\ row' = [j \in Jobs |-> IF j \in S
                                    THEN [row[j] EXCEPT
                                            !.status = "running",
                                            !.lockedAt = now,
                                            !.attempts = NextAttempt(j)]
                                    ELSE row[j]]
          /\ batch' = [batch EXCEPT ![r] =
                          {[job |-> j, token |-> now,
                            attempts |-> NextAttempt(j)] : j \in S}]
    /\ Goto(r, "loop")
    /\ UNCHANGED <<now, cur, crashes, begun, succeeded>>

\* The loop takes the next claimed row; "returning" promises no order.
Begin(r) ==
    /\ pc[r] = "loop"
    /\ \E c \in batch[r] :
          /\ cur' = [cur EXCEPT ![r] = c]
          /\ batch' = [batch EXCEPT ![r] = @ \ {c}]
          /\ begun' = [begun EXCEPT ![c.job] = @ + 1]
    /\ Goto(r, "run")
    /\ UNCHANGED <<now, row, crashes, succeeded>>

\* The batch is used up and processNextJobs returns.
Return(r) ==
    /\ pc[r] = "loop" /\ batch[r] = {}
    /\ Goto(r, "idle")
    /\ UNCHANGED <<now, row, batch, cur, crashes, begun, succeeded>>

HandlerReturns(r) ==
    /\ pc[r] = "run"
    /\ succeeded' = succeeded \cup {cur[r].job}
    /\ Goto(r, "ok")
    /\ UNCHANGED <<now, row, batch, cur, crashes, begun>>

HandlerThrows(r) ==
    /\ pc[r] = "run"
    /\ Goto(r, "err")
    /\ UNCHANGED <<now, row, batch, cur, crashes, begun, succeeded>>

Completed(c) == [row EXCEPT ![c.job] = [@ EXCEPT !.status = "completed",
                                                 !.lockedAt = Unlocked]]

\* completeJob: a no-op when the row was claimed again.
CompleteJob(r) ==
    /\ pc[r] = "ok"
    /\ row' = IF Fenced(cur[r]) THEN Completed(cur[r]) ELSE row
    /\ cur' = [cur EXCEPT ![r] = NoClaim]
    /\ Goto(r, "loop")
    /\ UNCHANGED <<now, batch, crashes, begun, succeeded>>

\* completeJob throws, before or after its statement took effect: the same
\* catch clause that handles a handler's error goes on to failJob.
CompleteJobThrows(r) ==
    /\ pc[r] = "ok"
    /\ row' \in {row, IF Fenced(cur[r]) THEN Completed(cur[r]) ELSE row}
    /\ Goto(r, "err")
    /\ UNCHANGED <<now, batch, cur, crashes, begun, succeeded>>

\* failJob: dead letter on the last attempt, otherwise a retry later.
FailJob(r) ==
    /\ pc[r] = "err"
    /\ LET c == cur[r] IN
       row' = IF Fenced(c)
              THEN [row EXCEPT ![c.job] =
                      [@ EXCEPT !.status = IF Terminal(c)
                                           THEN "dead_letter" ELSE "retrying",
                                !.availableAt = now + Backoff(c.attempts),
                                !.lockedAt = Unlocked]]
              ELSE row
    /\ cur' = [cur EXCEPT ![r] = NoClaim]
    /\ Goto(r, "loop")
    /\ UNCHANGED <<now, batch, crashes, begun, succeeded>>

\* The process dies, or failJob itself throws out of processNextJobs: the
\* rest of the batch is lost, and its rows stay running until the lease ends.
Crash(r) ==
    /\ pc[r] # "idle"
    /\ crashes < MaxCrash
    /\ crashes' = crashes + 1
    /\ batch' = [batch EXCEPT ![r] = {}]
    /\ cur' = [cur EXCEPT ![r] = NoClaim]
    /\ Goto(r, "idle")
    /\ UNCHANGED <<now, row, begun, succeeded>>

Tick ==
    /\ now < MaxTime
    /\ now' = now + 1
    /\ UNCHANGED <<row, pc, batch, cur, crashes, begun, succeeded>>

Step(r) ==
    \/ Sweep(r) \/ ClaimBatch(r) \/ Begin(r) \/ Return(r)
    \/ HandlerReturns(r) \/ HandlerThrows(r)
    \/ CompleteJob(r) \/ CompleteJobThrows(r) \/ FailJob(r)

Next ==
    \/ \E j \in Jobs : Enqueue(j)
    \/ \E r \in Runners : Step(r) \/ Crash(r)
    \/ Tick

Spec == Init /\ [][Next]_vars

-----------------------------------------------------------------------------
Held(r) == batch[r] \cup (IF pc[r] \in {"run", "ok", "err"} THEN {cur[r]} ELSE {})

TypeOK ==
    /\ now \in 0..MaxTime
    /\ row \in [Jobs -> Row]
    /\ pc \in [Runners -> Steps]
    /\ batch \in [Runners -> SUBSET Claim]
    /\ cur \in [Runners -> Claim \cup {NoClaim}]
    /\ \A r \in Runners : pc[r] \in {"run", "ok", "err"} => cur[r] \in Claim
    /\ crashes \in 0..MaxCrash
    /\ begun \in [Jobs -> Nat]
    /\ succeeded \in SUBSET Jobs

\* Fencing works although the token is only a timestamp: a claim that passes
\* the fence of completeJob or failJob is the newest claim of its row, however
\* often the row was reclaimed or retried in between.
FenceIsNewestClaim ==
    \A r \in Runners : \A c \in Held(r) :
        Fenced(c) => c.attempts = row[c.job].attempts

\* No two calls of processNextJobs can both settle the same row: at most one of
\* the claims that are still in memory passes the fence.
OneOwner ==
    \A r, s \in Runners : \A c \in Held(r), d \in Held(s) :
        c.job = d.job /\ Fenced(c) /\ Fenced(d) => r = s /\ c = d

\* A row is given up only after all its attempts, and is only retried while an
\* attempt is left: a row never waits in a status from which claimJobs would
\* push it past max_attempts.
AttemptsSpent ==
    \A j \in Jobs :
        /\ row[j].status = "dead_letter" => row[j].attempts = MaxAttempts
        /\ row[j].status = "retrying" => row[j].attempts < MaxAttempts

\* At least once: completed is only written after a handler returned normally.
CompletedMeansDone ==
    \A j \in Jobs : row[j].status = "completed" => j \in succeeded

\* A settled row is never touched again, by a late runner or by the sweep.
SettledIsFinal ==
    [][\A j \in Jobs : row[j].status \in {"completed", "dead_letter"}
                          => row'[j] = row[j]]_vars

-----------------------------------------------------------------------------
(***************************************************************************)
(* The inductive invariant behind the properties above.                    *)
(***************************************************************************)
RowInv(j) ==
    /\ row[j].status = "running" <=> row[j].lockedAt # Unlocked
    /\ row[j].status = "running" => row[j].lockedAt <= now
    /\ row[j].status = "dead_letter" => row[j].attempts = MaxAttempts
    /\ row[j].status = "retrying" => row[j].attempts < MaxAttempts
    /\ row[j].status \in {"absent", "queued"} => row[j].attempts = 0
    /\ row[j].status = "completed" => j \in succeeded

\* A claim in memory is the newest of its row exactly when it carries the
\* newest attempt; every later claim has a later locked_at, because a lease
\* must have run out or the backoff of failJob must have passed in between.
ClaimInv(c) ==
    /\ c.token <= now
    /\ c.attempts <= row[c.job].attempts
    /\ row[c.job].status = "running" =>
          IF c.attempts = row[c.job].attempts
          THEN c.token = row[c.job].lockedAt
          ELSE c.token < row[c.job].lockedAt
    /\ row[c.job].status = "retrying" => c.token < row[c.job].availableAt

\* No attempt is in the hands of two runners.
DistinctClaims ==
    \A r, s \in Runners : \A c \in Held(r), d \in Held(s) :
        c.job = d.job /\ c.attempts = d.attempts => r = s /\ c = d

JobInv ==
    /\ \A j \in Jobs : RowInv(j)
    /\ \A r \in Runners : \A c \in Held(r) : ClaimInv(c)
    /\ \A r \in Runners : pc[r] = "ok" => cur[r].job \in succeeded
    /\ DistinctClaims
=============================================================================
