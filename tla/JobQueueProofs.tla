--------------------------- MODULE JobQueueProofs ---------------------------
(***************************************************************************)
(* What JobQueue promises for every number of rows and runners, every      *)
(* limit, lease, backoff and number of attempts; that it implements        *)
(* JobContract; and how long a lease has to be.                            *)
(***************************************************************************)
EXTENDS JobQueueRefinement, TimedJobQueue, FiniteSetTheorems, TLAPS

\* Rows keep their type because a claimable row has an attempt left.
LEMMA TypeStep ==
    ASSUME TypeOK, \A j \in Jobs : RowInv(j), [Next]_vars
    PROVE  TypeOK'
<1> USE BoundsAssumption
<1>1. ASSUME NEW j \in Jobs, Enqueue(j) PROVE TypeOK'
  <2>1. [row[j] EXCEPT !.status = "queued", !.createdAt = now,
                       !.availableAt = now] \in Row
    <3>1. row[j] \in Row /\ now \in Nat
      BY DEF TypeOK
    <3> QED BY <3>1 DEF Row, Status
  <2>2. row' \in [Jobs -> Row]
    BY <1>1, <2>1 DEF TypeOK, Enqueue
  <2> QED BY <1>1, <2>2 DEF TypeOK, Enqueue
<1>2. ASSUME NEW r \in Runners, Sweep(r) PROVE TypeOK'
  <2>1. ASSUME NEW j \in Jobs
        PROVE  [row[j] EXCEPT !.status = "dead_letter", !.lockedAt = Unlocked] \in Row
    <3>1. row[j] \in Row
      BY DEF TypeOK
    <3> QED BY <3>1 DEF Row, Status, Unlocked
  <2>2. row' \in [Jobs -> Row]
    <3>1. row \in [Jobs -> Row]
      BY DEF TypeOK
    <3> QED BY <1>2, <2>1, <3>1 DEF Sweep
  <2> QED BY <1>2, <2>2 DEF TypeOK, Sweep, Goto, Steps
<1>3. ASSUME NEW r \in Runners, ClaimBatch(r) PROVE TypeOK'
  <2>1. PICK S \in SUBSET Jobs :
          /\ S \subseteq {j \in Jobs : Claimable(j)}
          /\ row' = [j \in Jobs |-> IF j \in S
                                    THEN [row[j] EXCEPT
                                            !.status = "running",
                                            !.lockedAt = now,
                                            !.attempts = NextAttempt(j)]
                                    ELSE row[j]]
          /\ batch' = [batch EXCEPT ![r] =
                          {[job |-> j, token |-> now,
                            attempts |-> NextAttempt(j)] : j \in S}]
    BY <1>3 DEF ClaimBatch, OldestFirst
  <2>2. ASSUME NEW j \in S PROVE NextAttempt(j) \in 1..MaxAttempts
    <3>1. j \in Jobs /\ row[j] \in Row /\ Claimable(j) /\ RowInv(j)
      BY <2>1 DEF TypeOK
    <3>2. row[j].attempts \in 0..MaxAttempts /\ row[j].attempts < MaxAttempts
      BY <3>1 DEF RowInv, Row, Claimable, LeaseExpired
    <3> QED BY <3>2 DEF NextAttempt
  <2>3. ASSUME NEW j \in S
        PROVE  [row[j] EXCEPT !.status = "running", !.lockedAt = now,
                              !.attempts = NextAttempt(j)] \in Row
    <3>1. row[j] \in Row /\ NextAttempt(j) \in 0..MaxAttempts
      BY <2>2 DEF TypeOK
    <3> QED BY <3>1 DEF TypeOK, Row, Status
  <2>4. row' \in [Jobs -> Row]
    BY <2>1, <2>3 DEF TypeOK
  <2>5. ASSUME NEW j \in S
        PROVE  [job |-> j, token |-> now, attempts |-> NextAttempt(j)] \in Claim
    BY <2>2 DEF TypeOK, Claim
  <2>6. batch' \in [Runners -> SUBSET Claim]
    <3>1. {[job |-> j, token |-> now, attempts |-> NextAttempt(j)] : j \in S}
             \in SUBSET Claim
      BY <2>5
    <3>2. batch \in [Runners -> SUBSET Claim]
      BY DEF TypeOK
    <3> QED BY <2>1, <3>1, <3>2
  <2> QED BY <1>3, <2>4, <2>6 DEF TypeOK, ClaimBatch, Goto, Steps
<1>4. ASSUME NEW r \in Runners, Begin(r) PROVE TypeOK'
  BY <1>4 DEF TypeOK, Begin, Goto, Steps, Claim
<1>5. ASSUME NEW r \in Runners, Return(r) PROVE TypeOK'
  BY <1>5 DEF TypeOK, Return, Goto, Steps
<1>6. ASSUME NEW r \in Runners, HandlerReturns(r) PROVE TypeOK'
  BY <1>6 DEF TypeOK, HandlerReturns, Goto, Steps, Claim
<1>7. ASSUME NEW r \in Runners, HandlerThrows(r) PROVE TypeOK'
  BY <1>7 DEF TypeOK, HandlerThrows, Goto, Steps
<1>8. ASSUME NEW c \in Claim PROVE Completed(c) \in [Jobs -> Row]
  <2>1. row[c.job] \in Row
    BY DEF TypeOK, Claim
  <2>2. [row[c.job] EXCEPT !.status = "completed", !.lockedAt = Unlocked] \in Row
    BY <2>1 DEF Row, Status
  <2> QED BY <2>2 DEF TypeOK, Completed, Claim
<1>9. ASSUME NEW r \in Runners, CompleteJob(r) PROVE TypeOK'
  <2>1. row' \in [Jobs -> Row]
    BY <1>8, <1>9 DEF TypeOK, CompleteJob
  <2> QED BY <1>9, <2>1 DEF TypeOK, CompleteJob, Goto, Steps
<1>10. ASSUME NEW r \in Runners, CompleteJobThrows(r) PROVE TypeOK'
  <2>1. row' \in [Jobs -> Row]
    BY <1>8, <1>10 DEF TypeOK, CompleteJobThrows
  <2> QED BY <1>10, <2>1 DEF TypeOK, CompleteJobThrows, Goto, Steps
<1>11. ASSUME NEW r \in Runners, FailJob(r) PROVE TypeOK'
  <2>1. cur[r] \in Claim
    BY <1>11 DEF TypeOK, FailJob
  <2>2. now + Backoff(cur[r].attempts) \in Nat
    BY <2>1, BackoffAssumption DEF TypeOK, Claim
  <2>3. row[cur[r].job] \in Row
    BY <2>1 DEF TypeOK, Claim
  <2>4. [row[cur[r].job] EXCEPT
            !.status = IF Terminal(cur[r]) THEN "dead_letter" ELSE "retrying",
            !.availableAt = now + Backoff(cur[r].attempts),
            !.lockedAt = Unlocked] \in Row
    BY <2>2, <2>3 DEF Row, Status
  <2>5. row' \in [Jobs -> Row]
    BY <1>11, <2>1, <2>4 DEF TypeOK, FailJob, Claim
  <2> QED BY <1>11, <2>5 DEF TypeOK, FailJob, Goto, Steps
<1>12. ASSUME NEW r \in Runners, Crash(r) PROVE TypeOK'
  BY <1>12 DEF TypeOK, Crash, Goto, Steps
<1>13. CASE Tick
  BY <1>13 DEF TypeOK, Tick
<1>14. CASE UNCHANGED vars
  BY <1>14 DEF TypeOK, vars
<1> QED
  BY <1>1, <1>2, <1>3, <1>4, <1>5, <1>6, <1>7, <1>9, <1>10, <1>11, <1>12,
     <1>13, <1>14 DEF Next, Step

\* Every step keeps a row's lock, status and attempts in agreement; the fence
\* and the "ok" of the runner make a completed row a done one.
LEMMA RowStep ==
    ASSUME TypeOK, JobInv, [Next]_vars
    PROVE  \A j \in Jobs : RowInv(j)'
<1> USE BoundsAssumption
<1> SUFFICES ASSUME NEW j \in Jobs PROVE RowInv(j)'
  OBVIOUS
<1>0. RowInv(j) /\ row[j] \in Row /\ now \in 0..MaxTime
  BY DEF TypeOK, JobInv
<1> DEFINE Fixed == row'[j] = row[j] /\ now' \in Nat /\ now' >= now /\ succeeded \subseteq succeeded'
<1>a. ASSUME Fixed PROVE RowInv(j)'
  BY <1>0, <1>a DEF RowInv, Unlocked, Row
<1>1. ASSUME NEW i \in Jobs, Enqueue(i) PROVE RowInv(j)'
  <2>1. CASE i = j
    BY <1>0, <1>1, <2>1 DEF RowInv, Enqueue, Row, TypeOK, Unlocked
  <2>2. CASE i # j
    BY <1>0, <1>1, <1>a, <2>2 DEF Enqueue, TypeOK
  <2> QED BY <2>1, <2>2
<1>2. ASSUME NEW r \in Runners, Sweep(r) PROVE RowInv(j)'
  <2>1. row'[j] = IF Dead(j) THEN [row[j] EXCEPT !.status = "dead_letter",
                                                 !.lockedAt = Unlocked]
                  ELSE row[j]
    BY <1>2 DEF Sweep
  <2>2. now' = now /\ succeeded' = succeeded
    BY <1>2 DEF Sweep
  <2>3. CASE Dead(j)
    BY <1>0, <2>1, <2>2, <2>3 DEF RowInv, Dead, LeaseExpired, Row, Unlocked
  <2>4. CASE ~Dead(j)
    BY <1>0, <1>a, <2>1, <2>2, <2>4
  <2> QED BY <2>3, <2>4
<1>3. ASSUME NEW r \in Runners, ClaimBatch(r) PROVE RowInv(j)'
  <2>1. \/ row'[j] = [row[j] EXCEPT !.status = "running", !.lockedAt = now,
                                    !.attempts = NextAttempt(j)]
        \/ row'[j] = row[j]
    BY <1>3 DEF ClaimBatch
  <2>2. now' = now /\ succeeded' = succeeded
    BY <1>3 DEF ClaimBatch
  <2>3. CASE row'[j] = row[j]
    BY <1>0, <1>a, <2>2, <2>3
  <2>4. CASE row'[j] = [row[j] EXCEPT !.status = "running", !.lockedAt = now,
                                      !.attempts = NextAttempt(j)]
    BY <1>0, <2>2, <2>4 DEF RowInv, Row, Unlocked
  <2> QED BY <2>1, <2>3, <2>4
<1>4. ASSUME NEW c \in Claim, Fenced(c), c.job \in succeeded, row' = Completed(c),
             now' = now, succeeded' = succeeded
      PROVE  RowInv(j)'
  <2>1. CASE c.job = j
    BY <1>0, <1>4, <2>1 DEF RowInv, Completed, TypeOK, Row
  <2>2. CASE c.job # j
    BY <1>0, <1>4, <1>a, <2>2 DEF Completed, TypeOK, Claim
  <2> QED BY <2>1, <2>2
<1>5. ASSUME NEW r \in Runners, CompleteJob(r) \/ CompleteJobThrows(r)
      PROVE  RowInv(j)'
  <2>1. cur[r] \in Claim /\ cur[r].job \in succeeded
    BY <1>5 DEF TypeOK, JobInv, CompleteJob, CompleteJobThrows
  <2>2. now' = now /\ succeeded' = succeeded
    BY <1>5 DEF CompleteJob, CompleteJobThrows
  <2>3. \/ row' = row
        \/ Fenced(cur[r]) /\ row' = Completed(cur[r])
    BY <1>5 DEF CompleteJob, CompleteJobThrows
  <2> QED BY <1>0, <1>4, <1>a, <2>1, <2>2, <2>3
<1>6. ASSUME NEW r \in Runners, FailJob(r) PROVE RowInv(j)'
  <2>1. cur[r] \in Claim /\ ClaimInv(cur[r])
    BY <1>6 DEF TypeOK, JobInv, FailJob, Held
  <2>2. CASE Fenced(cur[r]) /\ cur[r].job = j
    <3>1. cur[r].attempts = row[j].attempts
      BY <1>0, <2>1, <2>2 DEF ClaimInv, Fenced, Claim, Row
    <3>2. row'[j] = [row[j] EXCEPT
            !.status = IF Terminal(cur[r]) THEN "dead_letter" ELSE "retrying",
            !.availableAt = now + Backoff(cur[r].attempts),
            !.lockedAt = Unlocked]
      BY <1>6, <2>2 DEF FailJob, TypeOK
    <3> QED BY <1>0, <2>2, <3>1, <3>2 DEF RowInv, Terminal, Row, Fenced
  <2>3. CASE ~(Fenced(cur[r]) /\ cur[r].job = j)
    BY <1>0, <1>6, <1>a, <2>1, <2>3 DEF FailJob, TypeOK, Claim
  <2> QED BY <2>2, <2>3
<1>7. ASSUME NEW r \in Runners,
             \/ Begin(r) \/ Return(r) \/ HandlerReturns(r) \/ HandlerThrows(r)
             \/ Crash(r)
      PROVE  RowInv(j)'
  BY <1>0, <1>7, <1>a DEF Begin, Return, HandlerReturns, HandlerThrows, Crash
<1>8. CASE Tick
  BY <1>0, <1>8, <1>a DEF Tick
<1>9. CASE UNCHANGED vars
  BY <1>0, <1>9, <1>a DEF vars
<1> QED
  BY <1>1, <1>2, <1>3, <1>5, <1>6, <1>7, <1>8, <1>9 DEF Next, Step

\* A claim that passes the fence is the newest of its row.
LEMMA FenceNewest ==
    ASSUME TypeOK, NEW c \in Claim, ClaimInv(c), Fenced(c)
    PROVE  c.attempts = row[c.job].attempts
<1>1. row[c.job] \in Row
  BY DEF TypeOK, Claim
<1>2. c.attempts # row[c.job].attempts => c.token < row[c.job].lockedAt
  BY DEF ClaimInv, Fenced
<1> QED BY <1>1, <1>2 DEF Fenced, Claim, Row

\* The claim c was made by this step: it is what claimJobs wrote to the row.
NewClaim(c) ==
    /\ c.job \in Jobs /\ Claimable(c.job)
    /\ c.token = now /\ now' = now
    /\ c.attempts = row[c.job].attempts + 1
    /\ row'[c.job] = [row[c.job] EXCEPT !.status = "running", !.lockedAt = now,
                                        !.attempts = row[c.job].attempts + 1]

\* Claims come from claimJobs only, and one statement makes one per row.
LEMMA HeldStep ==
    ASSUME TypeOK, [Next]_vars
    PROVE  \/ \A s \in Runners : Held(s)' \subseteq Held(s)
           \/ \E r \in Runners :
                /\ \A s \in Runners \ {r} : Held(s)' = Held(s)
                /\ \A c \in Held(r)' : NewClaim(c)
                /\ \A c, d \in Held(r)' : c.job = d.job => c = d
<1>1. ASSUME NEW r \in Runners, ClaimBatch(r)
      PROVE  /\ \A s \in Runners \ {r} : Held(s)' = Held(s)
             /\ \A c \in Held(r)' : NewClaim(c)
             /\ \A c, d \in Held(r)' : c.job = d.job => c = d
  <2>1. PICK S \in SUBSET Jobs :
          /\ S \subseteq {j \in Jobs : Claimable(j)}
          /\ row' = [j \in Jobs |-> IF j \in S
                                    THEN [row[j] EXCEPT
                                            !.status = "running",
                                            !.lockedAt = now,
                                            !.attempts = NextAttempt(j)]
                                    ELSE row[j]]
          /\ batch' = [batch EXCEPT ![r] =
                          {[job |-> j, token |-> now,
                            attempts |-> NextAttempt(j)] : j \in S}]
    BY <1>1 DEF ClaimBatch, OldestFirst
  <2>2. Held(r)' = {[job |-> j, token |-> now,
                     attempts |-> NextAttempt(j)] : j \in S}
    BY <1>1, <2>1 DEF ClaimBatch, Goto, Held, TypeOK
  <2>3. \A s \in Runners \ {r} : Held(s)' = Held(s)
    BY <1>1, <2>1 DEF ClaimBatch, Goto, Held, TypeOK
  <2>4. ASSUME NEW c \in Held(r)' PROVE NewClaim(c)
    <3>1. PICK j \in S : c = [job |-> j, token |-> now,
                              attempts |-> NextAttempt(j)]
      BY <2>2
    <3>2. row'[j] = [row[j] EXCEPT !.status = "running", !.lockedAt = now,
                                   !.attempts = NextAttempt(j)]
      BY <2>1
    <3> QED BY <1>1, <2>1, <3>1, <3>2 DEF NewClaim, NextAttempt, ClaimBatch
  <2>5. ASSUME NEW c \in Held(r)', NEW d \in Held(r)', c.job = d.job
        PROVE  c = d
    BY <2>2, <2>5
  <2> QED BY <2>3, <2>4, <2>5
<1>2. ASSUME NEW r \in Runners, Step(r) \/ Crash(r), ~ClaimBatch(r)
      PROVE  \A s \in Runners : Held(s)' \subseteq Held(s)
  <2> SUFFICES ASSUME NEW s \in Runners PROVE Held(s)' \subseteq Held(s)
    OBVIOUS
  <2>1. CASE s # r
    <3>1. batch'[s] = batch[s] /\ pc'[s] = pc[s] /\ cur'[s] = cur[s]
      BY <1>2, <2>1 DEF TypeOK, Step, Crash, Sweep, Begin, Return, HandlerReturns,
         HandlerThrows, CompleteJob, CompleteJobThrows, FailJob, Goto
    <3> QED BY <3>1 DEF Held
  <2>2. CASE s = r
    <3>1. CASE Begin(r)
      BY <2>2, <3>1 DEF TypeOK, Begin, Goto, Held
    <3>2. CASE Sweep(r) \/ Return(r) \/ HandlerReturns(r) \/ HandlerThrows(r)
      BY <2>2, <3>2 DEF TypeOK, Sweep, Return, HandlerReturns, HandlerThrows,
         Goto, Held
    <3>3. CASE CompleteJob(r) \/ CompleteJobThrows(r) \/ FailJob(r) \/ Crash(r)
      BY <2>2, <3>3 DEF TypeOK, CompleteJob, CompleteJobThrows, FailJob, Crash,
         Goto, Held
    <3> QED BY <1>2, <3>1, <3>2, <3>3 DEF Step
  <2> QED BY <2>1, <2>2
<1>3. ASSUME UNCHANGED <<pc, batch, cur>>
      PROVE  \A s \in Runners : Held(s)' \subseteq Held(s)
  BY <1>3 DEF Held
<1>4. CASE UNCHANGED vars
  BY <1>3, <1>4 DEF vars
<1>5. CASE Tick \/ \E j \in Jobs : Enqueue(j)
  BY <1>3, <1>5 DEF Tick, Enqueue
<1> QED BY <1>1, <1>2, <1>4, <1>5 DEF Next

\* A claim stays in order with its row whatever happens to the row: a new claim
\* and a retry both come later than it, since a lease ran out or a backoff
\* begins.
LEMMA ClaimStep ==
    ASSUME TypeOK, JobInv, [Next]_vars,
           NEW c \in Claim, ClaimInv(c)
    PROVE  ClaimInv(c)'
<1> USE BoundsAssumption
<1> DEFINE j == c.job
<1>0. /\ j \in Jobs /\ row[j] \in Row /\ RowInv(j) /\ now \in 0..MaxTime
      /\ c.token \in 0..MaxTime /\ c.attempts \in 1..MaxAttempts
  BY DEF TypeOK, JobInv, Claim
<1>a. ASSUME row'[j] = row[j], now' \in Nat, now' >= now PROVE ClaimInv(c)'
  BY <1>0, <1>a DEF ClaimInv
<1>b. ASSUME row'[j].status \notin {"running", "retrying"}, now' = now,
             row'[j].attempts = row[j].attempts
      PROVE  ClaimInv(c)'
  BY <1>0, <1>b DEF ClaimInv
<1>1. ASSUME NEW i \in Jobs, Enqueue(i) PROVE ClaimInv(c)'
  <2>1. i # j
    BY <1>0, <1>1 DEF Enqueue, ClaimInv, RowInv
  <2> QED BY <1>0, <1>1, <1>a, <2>1 DEF Enqueue, TypeOK
<1>2. ASSUME NEW r \in Runners, Sweep(r) PROVE ClaimInv(c)'
  <2>1. row'[j] = IF Dead(j) THEN [row[j] EXCEPT !.status = "dead_letter",
                                                 !.lockedAt = Unlocked]
                  ELSE row[j]
    BY <1>0, <1>2 DEF Sweep
  <2>2. now' = now
    BY <1>2 DEF Sweep
  <2>3. CASE Dead(j)
    BY <1>0, <1>b, <2>1, <2>2, <2>3 DEF Row
  <2>4. CASE ~Dead(j)
    BY <1>0, <1>a, <2>1, <2>2, <2>4
  <2> QED BY <2>3, <2>4
<1>3. ASSUME NEW r \in Runners, ClaimBatch(r) PROVE ClaimInv(c)'
  <2>1. \/ /\ Claimable(j)
           /\ row'[j] = [row[j] EXCEPT !.status = "running", !.lockedAt = now,
                                       !.attempts = NextAttempt(j)]
        \/ row'[j] = row[j]
    BY <1>0, <1>3 DEF ClaimBatch, OldestFirst
  <2>2. now' = now
    BY <1>3 DEF ClaimBatch
  <2>3. CASE row'[j] = row[j]
    BY <1>0, <1>a, <2>2, <2>3
  <2>4. CASE /\ Claimable(j)
             /\ row'[j] = [row[j] EXCEPT !.status = "running", !.lockedAt = now,
                                         !.attempts = NextAttempt(j)]
    <3>1. c.token < now
      BY <1>0, <2>4 DEF Claimable, LeaseExpired, ClaimInv, RowInv, Row
    <3>2. c.attempts < row[j].attempts + 1
      BY <1>0 DEF ClaimInv, Row
    <3>3. /\ row'[j].status = "running" /\ row'[j].lockedAt = now
          /\ row'[j].attempts = row[j].attempts + 1
      BY <1>0, <2>4 DEF Row, NextAttempt
    <3> QED BY <1>0, <2>2, <3>1, <3>2, <3>3 DEF ClaimInv, Row
  <2> QED BY <2>1, <2>3, <2>4
<1>4. ASSUME NEW r \in Runners, CompleteJob(r) \/ CompleteJobThrows(r)
      PROVE  ClaimInv(c)'
  <2>1. cur[r] \in Claim /\ now' = now
    BY <1>4 DEF TypeOK, CompleteJob, CompleteJobThrows
  <2>2. row' = row \/ row' = Completed(cur[r])
    BY <1>4 DEF CompleteJob, CompleteJobThrows
  <2>3. CASE row'[j] = row[j]
    BY <1>0, <1>a, <2>1, <2>3
  <2>4. CASE row'[j] # row[j]
    <3>1. row'[j] = [row[j] EXCEPT !.status = "completed", !.lockedAt = Unlocked]
      <4>1. row' = Completed(cur[r]) /\ row \in [Jobs -> Row]
        BY <2>2, <2>4 DEF TypeOK
      <4>2. cur[r].job = j
        BY <1>0, <2>4, <4>1 DEF Completed
      <4> QED BY <1>0, <4>1, <4>2 DEF Completed
    <3> QED BY <1>0, <1>b, <2>1, <3>1 DEF Row
  <2> QED BY <2>3, <2>4
<1>5. ASSUME NEW r \in Runners, FailJob(r) PROVE ClaimInv(c)'
  <2>1. cur[r] \in Claim /\ now' = now
    BY <1>5 DEF TypeOK, FailJob
  <2>2. Backoff(cur[r].attempts) \in Nat \ {0}
    BY <2>1, BackoffAssumption DEF Claim
  <2>3. CASE row'[j] = row[j]
    BY <1>0, <1>a, <2>1, <2>3
  <2>4. CASE row'[j] # row[j]
    <3>1. row'[j] = [row[j] EXCEPT
            !.status = IF Terminal(cur[r]) THEN "dead_letter" ELSE "retrying",
            !.availableAt = now + Backoff(cur[r].attempts),
            !.lockedAt = Unlocked]
      BY <1>0, <1>5, <2>1, <2>4 DEF FailJob, TypeOK, Claim
    <3> QED BY <1>0, <2>1, <2>2, <3>1 DEF ClaimInv, Row
  <2> QED BY <2>3, <2>4
<1>6. ASSUME NEW r \in Runners,
             \/ Begin(r) \/ Return(r) \/ HandlerReturns(r) \/ HandlerThrows(r)
             \/ Crash(r)
      PROVE  ClaimInv(c)'
  BY <1>0, <1>6, <1>a DEF Begin, Return, HandlerReturns, HandlerThrows, Crash
<1>7. CASE Tick
  BY <1>0, <1>7, <1>a DEF Tick
<1>8. CASE UNCHANGED vars
  BY <1>0, <1>8, <1>a DEF vars
<1> QED
  BY <1>1, <1>2, <1>3, <1>4, <1>5, <1>6, <1>7, <1>8 DEF Next, Step

\* What a runner holds are claims.
LEMMA HeldType ==
    ASSUME TypeOK, NEW r \in Runners
    PROVE  Held(r) \subseteq Claim
  BY DEF TypeOK, Held

\* Every step keeps types and invariant.
LEMMA InvariantStep ==
    ASSUME TypeOK, JobInv, [Next]_vars
    PROVE  TypeOK' /\ JobInv'
<1> USE BoundsAssumption
<1>1. TypeOK'
  BY TypeStep DEF JobInv
<1>2. \A j \in Jobs : RowInv(j)'
  BY RowStep
<1>3. ASSUME NEW c, NewClaim(c) PROVE ClaimInv(c)'
  <2>1. row[c.job] \in Row /\ now \in 0..MaxTime
    BY <1>3 DEF NewClaim, TypeOK
  <2> QED BY <1>3, <2>1 DEF NewClaim, ClaimInv, Row
<1>4. ASSUME NEW r \in Runners, NEW c \in Held(r) PROVE c \in Claim /\ ClaimInv(c)
  BY HeldType DEF JobInv
<1>5. ASSUME NEW c, NewClaim(c), NEW r \in Runners, NEW d \in Held(r),
             c.job = d.job
      PROVE  c.attempts # d.attempts
  <2>1. d.attempts \in Nat /\ row[d.job].attempts \in Nat
        /\ d.attempts <= row[d.job].attempts
    BY <1>4 DEF ClaimInv, Claim, TypeOK, Row
  <2> QED BY <1>5, <2>1 DEF NewClaim
<1>6. ASSUME \A s \in Runners : Held(s)' \subseteq Held(s)
      PROVE  /\ \A r \in Runners : \A c \in Held(r)' : ClaimInv(c)'
             /\ DistinctClaims'
  <2>1. ASSUME NEW r \in Runners, NEW c \in Held(r)' PROVE ClaimInv(c)'
    BY <1>4, <1>6, ClaimStep
  <2>2. DistinctClaims'
    BY <1>6 DEF JobInv, DistinctClaims
  <2> QED BY <2>1, <2>2
<1>7. ASSUME NEW q \in Runners,
             \A s \in Runners \ {q} : Held(s)' = Held(s),
             \A c \in Held(q)' : NewClaim(c),
             \A c, d \in Held(q)' : c.job = d.job => c = d
      PROVE  /\ \A r \in Runners : \A c \in Held(r)' : ClaimInv(c)'
             /\ DistinctClaims'
  <2>1. ASSUME NEW r \in Runners, NEW c \in Held(r)' PROVE ClaimInv(c)'
    <3>1. CASE r = q
      BY <1>3, <1>7, <3>1
    <3>2. CASE r # q
      BY <1>4, <1>7, <3>2, ClaimStep
    <3> QED BY <3>1, <3>2
  <2>2. ASSUME NEW r \in Runners, NEW s \in Runners,
               NEW c \in Held(r)', NEW d \in Held(s)',
               c.job = d.job, c.attempts = d.attempts
        PROVE  r = s /\ c = d
    <3>1. CASE r = q /\ s = q
      BY <1>7, <2>2, <3>1
    <3>2. CASE r = q /\ s # q
      BY <1>5, <1>7, <2>2, <3>2
    <3>3. CASE r # q /\ s = q
      BY <1>5, <1>7, <2>2, <3>3
    <3>4. CASE r # q /\ s # q
      BY <1>7, <2>2, <3>4 DEF JobInv, DistinctClaims
    <3> QED BY <3>1, <3>2, <3>3, <3>4
  <2> QED BY <2>1, <2>2 DEF DistinctClaims
<1>8. /\ \A r \in Runners : \A c \in Held(r)' : ClaimInv(c)'
      /\ DistinctClaims'
  BY <1>6, <1>7, HeldStep
<1>9. ASSUME NEW r \in Runners, pc'[r] = "ok" PROVE cur'[r].job \in succeeded'
  <2>1. CASE pc[r] = "ok"
    <3>1. ~CompleteJob(r) /\ ~CompleteJobThrows(r) /\ ~Crash(r)
      BY <1>9 DEF CompleteJob, CompleteJobThrows, Crash, Goto, TypeOK
    <3>2. ASSUME NEW s \in Runners, Step(s) \/ Crash(s) PROVE cur'[r] = cur[r]
      <4>1. cur' = cur \/ \E x : cur' = [cur EXCEPT ![s] = x]
        BY <3>2 DEF Step, Sweep, ClaimBatch, Begin, Return, HandlerReturns,
           HandlerThrows, CompleteJob, CompleteJobThrows, FailJob, Crash
      <4>2. s = r => cur' = cur
        BY <2>1, <3>1, <3>2 DEF Step, Sweep, ClaimBatch, Begin, Return,
           HandlerReturns, HandlerThrows, FailJob
      <4> QED BY <4>1, <4>2 DEF TypeOK
    <3>3. cur'[r] = cur[r]
      BY <3>2 DEF Next, vars, Enqueue, Tick
    <3>4. succeeded \subseteq succeeded'
      BY DEF Next, Step, vars, Enqueue, Sweep, ClaimBatch, Begin, Return,
         HandlerReturns, HandlerThrows, CompleteJob, CompleteJobThrows, FailJob,
         Crash, Tick
    <3> QED BY <2>1, <3>3, <3>4 DEF JobInv
  <2>2. CASE pc[r] # "ok"
    <3>1. HandlerReturns(r)
      BY <1>9, <2>2 DEF Next, Step, vars, TypeOK, Enqueue, Sweep, ClaimBatch,
         Begin, Return, HandlerReturns, HandlerThrows, CompleteJob,
         CompleteJobThrows, FailJob, Crash, Tick, Goto
    <3> QED BY <3>1 DEF HandlerReturns
  <2> QED BY <2>1, <2>2
<1> QED BY <1>1, <1>2, <1>8, <1>9 DEF JobInv

\* Every reachable state has the types of JobQueue and its inductive invariant.
THEOREM JobQueueInvariant == Spec => [](TypeOK /\ JobInv)
<1>1. Init => TypeOK /\ JobInv
  <2> USE BoundsAssumption
  <2> SUFFICES ASSUME Init PROVE TypeOK /\ JobInv
    OBVIOUS
  <2>1. TypeOK
    <3>1. Absent \in Row
      BY DEF Absent, Row, Status
    <3> QED BY <3>1 DEF Init, TypeOK, Steps
  <2>2. \A r \in Runners : Held(r) = {} /\ pc[r] # "ok"
    BY DEF Init, Held
  <2>3. \A j \in Jobs : RowInv(j)
    BY DEF Init, RowInv, Absent, Unlocked
  <2> QED BY <2>1, <2>2, <2>3 DEF JobInv, DistinctClaims
<1>2. TypeOK /\ JobInv /\ [Next]_vars => (TypeOK /\ JobInv)'
  BY InvariantStep
<1> QED BY <1>1, <1>2, PTL DEF Spec

\* The type invariant of the queue, for all parameters.
THEOREM TypeCorrect == Spec => []TypeOK
  BY JobQueueInvariant, PTL

\* The timestamp fence of completeJob and failJob admits only the newest claim.
THEOREM FencingIsSafe == Spec => []FenceIsNewestClaim
<1>1. TypeOK /\ JobInv => FenceIsNewestClaim
  BY FenceNewest, HeldType DEF FenceIsNewestClaim, JobInv
<1> QED BY <1>1, JobQueueInvariant, PTL

\* Two calls of processNextJobs never both settle one row.
THEOREM SingleOwner == Spec => []OneOwner
<1>1. ASSUME TypeOK, JobInv PROVE OneOwner
  <2>1. ASSUME NEW r \in Runners, NEW c \in Held(r), Fenced(c)
        PROVE  c.attempts = row[c.job].attempts
    BY <1>1, <2>1, FenceNewest, HeldType DEF JobInv
  <2> QED BY <1>1, <2>1 DEF OneOwner, JobInv, DistinctClaims
<1> QED BY <1>1, JobQueueInvariant, PTL

\* A row is given up exactly when its attempts are spent.
THEOREM GivesUpInTime == Spec => []AttemptsSpent
<1>1. TypeOK /\ JobInv => AttemptsSpent
  BY DEF JobInv, RowInv, AttemptsSpent
<1> QED BY <1>1, JobQueueInvariant, PTL

\* Whatever is completed has had a handler run that returned normally.
THEOREM AtLeastOnce == Spec => []CompletedMeansDone
<1>1. TypeOK /\ JobInv => CompletedMeansDone
  BY DEF JobInv, RowInv, CompletedMeansDone
<1> QED BY <1>1, JobQueueInvariant, PTL

\* A settled row stays as it is.
THEOREM SettledForGood == Spec => SettledIsFinal
<1>1. ASSUME TypeOK, JobInv, [Next]_vars, NEW j \in Jobs,
             row[j].status \in {"completed", "dead_letter"}
      PROVE  row'[j] = row[j]
  <2>1. ~Claimable(j) /\ ~Dead(j)
    BY <1>1 DEF Claimable, Dead, LeaseExpired
  <2>2. ASSUME NEW c, Fenced(c) PROVE c.job # j
    BY <1>1, <2>2 DEF Fenced
  <2>3. ASSUME NEW r \in Runners, ClaimBatch(r) PROVE row'[j] = row[j]
    BY <2>1, <2>3 DEF ClaimBatch, OldestFirst
  <2>4. ASSUME NEW r \in Runners, Sweep(r) PROVE row'[j] = row[j]
    BY <2>1, <2>4 DEF Sweep
  <2>5. ASSUME NEW r \in Runners, CompleteJob(r) \/ CompleteJobThrows(r)
        PROVE  row'[j] = row[j]
    BY <1>1, <2>2, <2>5 DEF CompleteJob, CompleteJobThrows, Completed, TypeOK
  <2>6. ASSUME NEW r \in Runners, FailJob(r) PROVE row'[j] = row[j]
    BY <1>1, <2>2, <2>6 DEF FailJob, TypeOK
  <2> QED
    BY <1>1, <2>3, <2>4, <2>5, <2>6 DEF Next, Step, vars, TypeOK, Enqueue,
       Begin, Return, HandlerReturns, HandlerThrows, Crash, Tick
<1>2. TypeOK /\ JobInv /\ [Next]_vars
        => [\A j \in Jobs : row[j].status \in {"completed", "dead_letter"}
                               => row'[j] = row[j]]_vars
  BY <1>1
<1> QED BY <1>2, JobQueueInvariant, PTL DEF Spec, SettledIsFinal

-----------------------------------------------------------------------------
(***************************************************************************)
(* JobQueue implements JobContract.                                        *)
(***************************************************************************)

\* A runner that is not in the loop holds nothing.
Empty == \A r \in Runners : pc[r] \in {"idle", "swept"} => batch[r] = {}

\* A batch is claimed by a runner that enters the loop, and lost or used up by one that
\* leaves it.
LEMMA EmptyStep == TypeOK /\ Empty /\ [Next]_vars => Empty'
<1> SUFFICES ASSUME TypeOK, Empty, [Next]_vars, NEW s \in Runners,
                    pc'[s] \in {"idle", "swept"}
             PROVE  batch'[s] = {}
    BY DEF Empty
<1>1. ASSUME NEW r \in Runners, Step(r) \/ Crash(r)
      PROVE  batch'[s] = {}
  <2>1. CASE s # r
    <3>1. batch'[s] = batch[s] /\ pc'[s] = pc[s]
      BY <1>1, <2>1 DEF TypeOK, Step, Crash, Sweep, ClaimBatch, Begin, Return,
         HandlerReturns, HandlerThrows, CompleteJob, CompleteJobThrows, FailJob, Goto
    <3> QED BY <3>1 DEF Empty
  <2>2. CASE s = r
    BY <1>1, <2>2 DEF TypeOK, Empty, Step, Crash, Sweep, ClaimBatch, Begin, Return,
       HandlerReturns, HandlerThrows, CompleteJob, CompleteJobThrows, FailJob, Goto
  <2> QED BY <2>1, <2>2
<1>2. CASE Tick \/ UNCHANGED vars \/ \E j \in Jobs : Enqueue(j)
  BY <1>2 DEF Empty, Tick, vars, Enqueue
<1> QED BY <1>1, <1>2 DEF Next

\* The hands of one runner.
Working == {"run", "ok", "err"}
Hands(r) == {InHand(c, "claimed") : c \in batch[r]}
               \cup (IF pc[r] \in Working THEN {InHand(cur[r], pc[r])} ELSE {})

\* The contract's hands are those of the runners.
LEMMA HandsOfRunners == HandsBar = UNION {Hands(r) : r \in Runners}
BY DEF HandsBar, Hands, Working

\* Two hands of one attempt are the same hand.
LEMMA HandsDiffer ==
    ASSUME TypeOK, JobInv, NEW r \in Runners, NEW s \in Runners,
           NEW g \in Hands(r), NEW h \in Hands(s), r # s
    PROVE  g # h
<1>1. PICK c \in Held(r) : g.job = c.job /\ g.attempt = c.attempts
  BY DEF Hands, Held, InHand, Working
<1>2. PICK d \in Held(s) : h.job = d.job /\ h.attempt = d.attempts
  BY DEF Hands, Held, InHand, Working
<1> QED BY <1>1, <1>2 DEF JobInv, DistinctClaims

\* The row being worked on is not in the batch any more.
LEMMA CurrentIsApart ==
    ASSUME TypeOK, NEW r \in Runners, pc[r] \in Working
    PROVE  InHand(cur[r], pc[r]) \notin {InHand(c, "claimed") : c \in batch[r]}
BY DEF InHand, Working

\* Only the hands of one runner change.
LEMMA OneRunnerMoves ==
    ASSUME TypeOK, JobInv, NEW r \in Runners,
           \A s \in Runners \ {r} : Hands(s)' = Hands(s)
    PROVE  HandsBar' = (HandsBar \ Hands(r)) \cup Hands(r)'
<1>1. HandsBar' = UNION {Hands(s)' : s \in Runners}
  BY DEF HandsBar, Hands, Working
<1>2. ASSUME NEW s \in Runners, s # r
      PROVE  Hands(s) \cap Hands(r) = {}
  BY <1>2, HandsDiffer
<1> QED BY <1>1, <1>2, HandsOfRunners

\* A runner and its steps: the others' hands are as they were.
LEMMA OthersStay ==
    ASSUME TypeOK, NEW r \in Runners, Step(r) \/ Crash(r)
    PROVE  \A s \in Runners \ {r} : Hands(s)' = Hands(s)
<1>1. ASSUME NEW s \in Runners, s # r
      PROVE  batch'[s] = batch[s] /\ pc'[s] = pc[s] /\ cur'[s] = cur[s]
  BY <1>1 DEF TypeOK, Step, Crash, Sweep, ClaimBatch, Begin, Return,
     HandlerReturns, HandlerThrows, CompleteJob, CompleteJobThrows, FailJob, Goto
<1> QED BY <1>1 DEF Hands

\* A hand changes its phase.
LEMMA HandMoves ==
    ASSUME TypeOK, JobInv, NEW r \in Runners, Step(r),
           NEW h \in Hands(r), NEW g, Hands(r)' = (Hands(r) \ {h}) \cup {g}
    PROVE  h \in HandsBar /\ HandsBar' = (HandsBar \ {h}) \cup {g}
<1>1. HandsBar' = (HandsBar \ Hands(r)) \cup Hands(r)'
  BY OneRunnerMoves, OthersStay
<1>2. Hands(r) \subseteq HandsBar
  BY HandsOfRunners
<1> QED BY <1>1, <1>2

\* A hand comes to its end.
LEMMA HandLeaves ==
    ASSUME TypeOK, JobInv, NEW r \in Runners, Step(r),
           NEW h \in Hands(r), Hands(r)' = Hands(r) \ {h}
    PROVE  h \in HandsBar /\ HandsBar' = HandsBar \ {h}
<1>1. HandsBar' = (HandsBar \ Hands(r)) \cup Hands(r)'
  BY OneRunnerMoves, OthersStay
<1>2. Hands(r) \subseteq HandsBar
  BY HandsOfRunners
<1> QED BY <1>1, <1>2

\* For a claim in memory the fence and the contract's "newest" are the same.
LEMMA FenceIsNewest ==
    ASSUME TypeOK, JobInv, NEW r \in Runners, NEW c \in Held(r), NEW p
    PROVE  Fenced(c) <=> Contract!Newest(InHand(c, p))
<1>1. c \in Claim /\ ClaimInv(c) /\ row[c.job] \in Row
  BY HeldType DEF JobInv, Claim, TypeOK
<1>2. Contract!Newest(InHand(c, p)) <=>
        row[c.job].status = "running" /\ row[c.job].attempts = c.attempts
  BY <1>1 DEF Contract!Newest, InHand, StatusBar, AttemptsBar, Claim
<1>3. Fenced(c) => row[c.job].attempts = c.attempts
  BY <1>1, FenceNewest
<1> QED BY <1>1, <1>2, <1>3 DEF Fenced, ClaimInv

\* Every step of the queue is a step of the contract, or none.
LEMMA ContractStep ==
    ASSUME TypeOK, JobInv, Empty, [Next]_vars
    PROVE  [Contract!ContractNext]_(Contract!jobVars)
<1> USE BoundsAssumption
<1> SUFFICES Contract!ContractNext \/ UNCHANGED <<StatusBar, AttemptsBar, HandsBar>>
  BY DEF Contract!jobVars
<1>1. ASSUME row' = row PROVE UNCHANGED <<StatusBar, AttemptsBar>>
  BY <1>1 DEF StatusBar, AttemptsBar
<1>2. ASSUME UNCHANGED <<pc, batch, cur>> PROVE UNCHANGED HandsBar
  BY <1>2 DEF HandsBar
<1>3. ASSUME NEW j \in Jobs, Enqueue(j)
      PROVE  Contract!Submit({j})
  <2>1. row[j].status = "absent" /\ row[j] \in Row
    BY <1>3 DEF Enqueue, TypeOK
  <2>2. /\ \A i \in Jobs \ {j} : row'[i] = row[i]
        /\ row'[j].status = "queued" /\ row'[j].attempts = row[j].attempts
    BY <1>3, <2>1 DEF Enqueue, TypeOK, Row
  <2>3. /\ StatusBar' = [i \in Jobs |-> IF i \in {j} THEN "waiting" ELSE StatusBar[i]]
        /\ AttemptsBar' = AttemptsBar
    BY <2>2 DEF StatusBar, AttemptsBar
  <2> QED BY <1>2, <1>3, <2>1, <2>3 DEF Contract!Submit, Enqueue, StatusBar
<1>4. ASSUME NEW r \in Runners, Sweep(r)
      PROVE  \/ \E S \in SUBSET Jobs : Contract!GiveUp(S)
             \/ UNCHANGED <<StatusBar, AttemptsBar, HandsBar>>
  <2> DEFINE S == {j \in Jobs : Dead(j)}
  <2>1. HandsBar' = HandsBar
    <3>1. Hands(r)' = Hands(r)
      BY <1>4 DEF Sweep, Goto, Hands, Working, TypeOK
    <3> QED BY <1>4, <3>1, OthersStay, HandsOfRunners, OneRunnerMoves DEF Step
  <2>2. ASSUME NEW j \in Jobs
        PROVE  /\ row'[j].status = IF j \in S THEN "dead_letter" ELSE row[j].status
               /\ row'[j].attempts = row[j].attempts
    BY <1>4 DEF Sweep, TypeOK, Row
  <2>3. /\ StatusBar' = [j \in Jobs |-> IF j \in S THEN "dead_letter" ELSE StatusBar[j]]
        /\ AttemptsBar' = AttemptsBar
    BY <2>2 DEF StatusBar, AttemptsBar
  <2>4. ASSUME NEW j \in S
        PROVE  StatusBar[j] = "running" /\ AttemptsBar[j] = MaxAttempts
    <3>1. j \in Jobs /\ row[j].attempts \in 0..MaxAttempts /\ Dead(j)
      BY DEF TypeOK, Row
    <3>2. row[j].status = "running" /\ row[j].attempts = MaxAttempts
      BY <3>1 DEF Dead, LeaseExpired
    <3> QED BY <3>1, <3>2 DEF StatusBar, AttemptsBar
  <2>5. CASE S = {}
    BY <2>1, <2>3, <2>5 DEF StatusBar
  <2>6. CASE S # {}
    <3>1. Contract!GiveUp(S)
      BY <2>1, <2>3, <2>4, <2>6 DEF Contract!GiveUp
    <3> QED BY <3>1
  <2> QED BY <2>5, <2>6
<1>5. ASSUME NEW r \in Runners, ClaimBatch(r)
      PROVE  \/ \E S \in SUBSET Jobs : Contract!Claim(S)
             \/ UNCHANGED <<StatusBar, AttemptsBar, HandsBar>>
  <2>1. PICK S \in SUBSET Jobs :
          /\ S \subseteq {j \in Jobs : Claimable(j)}
          /\ row' = [j \in Jobs |-> IF j \in S
                                    THEN [row[j] EXCEPT
                                            !.status = "running",
                                            !.lockedAt = now,
                                            !.attempts = NextAttempt(j)]
                                    ELSE row[j]]
          /\ batch' = [batch EXCEPT ![r] =
                          {[job |-> j, token |-> now,
                            attempts |-> NextAttempt(j)] : j \in S}]
    BY <1>5 DEF ClaimBatch, OldestFirst
  <2>2. ASSUME NEW j \in Jobs
        PROVE  /\ row'[j].status = IF j \in S THEN "running" ELSE row[j].status
               /\ row'[j].attempts = IF j \in S THEN row[j].attempts + 1
                                     ELSE row[j].attempts
    BY <2>1 DEF TypeOK, Row, NextAttempt
  <2>3. /\ StatusBar' = [j \in Jobs |-> IF j \in S THEN "running" ELSE StatusBar[j]]
        /\ AttemptsBar' = [j \in Jobs |-> IF j \in S THEN AttemptsBar[j] + 1
                                          ELSE AttemptsBar[j]]
    BY <2>2 DEF StatusBar, AttemptsBar
  <2>4. Hands(r) = {}
    BY <1>5 DEF Empty, ClaimBatch, Hands, Working
  <2>5. Hands(r)' = {Contract!Hand(j, AttemptsBar[j] + 1, "claimed") : j \in S}
    <3>1. pc'[r] = "loop" /\ batch'[r] = {[job |-> j, token |-> now,
                                          attempts |-> NextAttempt(j)] : j \in S}
      BY <1>5, <2>1 DEF ClaimBatch, Goto, TypeOK
    <3>2. Hands(r)' = {InHand(c, "claimed") : c \in batch'[r]}
      BY <3>1 DEF Hands, Working
    <3>3. ASSUME NEW j \in S
          PROVE  InHand([job |-> j, token |-> now, attempts |-> NextAttempt(j)], "claimed")
                   = Contract!Hand(j, AttemptsBar[j] + 1, "claimed")
      BY DEF InHand, Contract!Hand, AttemptsBar, NextAttempt
    <3> QED BY <3>1, <3>2, <3>3
  <2>6. HandsBar' = HandsBar \cup {Contract!Hand(j, AttemptsBar[j] + 1, "claimed") : j \in S}
    BY <1>5, <2>4, <2>5, OthersStay, OneRunnerMoves DEF Step
  <2>7. ASSUME NEW j \in S
        PROVE StatusBar[j] \in {"waiting", "running"} /\ AttemptsBar[j] < MaxAttempts
    <3>1. Claimable(j) /\ RowInv(j) /\ row[j] \in Row /\ j \in Jobs
      BY <2>1 DEF JobInv, TypeOK
    <3> QED BY <3>1 DEF Claimable, LeaseExpired, RowInv, Row, StatusBar, AttemptsBar
  <2>8. CASE S = {}
    <3>1. HandsBar' = HandsBar
      BY <2>6, <2>8
    <3> QED BY <2>3, <2>8, <3>1 DEF StatusBar, AttemptsBar
  <2>9. CASE S # {}
    <3>1. Contract!Claim(S)
      BY <2>3, <2>6, <2>7, <2>9 DEF Contract!Claim
    <3> QED BY <3>1
  <2> QED BY <2>8, <2>9
<1>6. ASSUME NEW r \in Runners, Begin(r)
      PROVE  \E h \in HandsBar : Contract!Begin(h)
  <2>1. PICK c \in batch[r] : cur' = [cur EXCEPT ![r] = c] /\ batch' = [batch EXCEPT ![r] = @ \ {c}]
    BY <1>6 DEF Begin
  <2> DEFINE h == InHand(c, "claimed")
             g == InHand(c, "run")
  <2>2. cur'[r] = c /\ batch'[r] = batch[r] \ {c} /\ pc'[r] = "run" /\ pc[r] = "loop"
    BY <1>6, <2>1 DEF Begin, Goto, TypeOK
  <2>3. h \in Hands(r)
    BY DEF Hands
  <2>4. Hands(r)' = (Hands(r) \ {h}) \cup {g}
    <3>1. Hands(r)' = {InHand(d, "claimed") : d \in batch[r] \ {c}} \cup {g}
      BY <2>2 DEF Hands, Working
    <3>2. Hands(r) = {InHand(d, "claimed") : d \in batch[r]}
      BY <2>2 DEF Hands, Working
    <3>3. ASSUME NEW d \in batch[r], InHand(d, "claimed") = h
          PROVE  d = c
      BY <3>3 DEF InHand, JobInv, DistinctClaims, Held
    <3> QED BY <3>1, <3>2, <3>3
  <2>5. g = [h EXCEPT !.phase = "run"] /\ h.phase = "claimed"
    BY DEF InHand
  <2> HIDE DEF h, g
  <2>6. h \in HandsBar /\ HandsBar' = (HandsBar \ {h}) \cup {g}
    BY <1>6, <2>3, <2>4, HandMoves DEF Step
  <2>7. Contract!Begin(h)
    BY <1>1, <1>6, <2>5, <2>6 DEF Contract!Begin, Contract!Move, Begin
  <2> QED BY <2>6, <2>7
<1>7. ASSUME NEW r \in Runners, Return(r)
      PROVE  UNCHANGED <<StatusBar, AttemptsBar, HandsBar>>
  <2>1. Hands(r)' = Hands(r)
    BY <1>7 DEF Return, Goto, Hands, Working, TypeOK
  <2> QED BY <1>1, <1>7, <2>1, OthersStay, HandsOfRunners, OneRunnerMoves DEF Step, Return
\* The handler, or the statement that completes the row, comes to an end.
<1>8. ASSUME NEW r \in Runners, NEW p \in {"ok", "err"}, Step(r),
             pc[r] \in Working, pc' = [pc EXCEPT ![r] = p], UNCHANGED <<batch, cur>>
      PROVE  /\ InHand(cur[r], pc[r]) \in HandsBar
             /\ Contract!Move(InHand(cur[r], pc[r]), p)
  <2> DEFINE h == InHand(cur[r], pc[r])
             g == InHand(cur[r], p)
  <2>1. h \in Hands(r)
    BY <1>8 DEF Hands
  <2>2. Hands(r)' = (Hands(r) \ {h}) \cup {g}
    <3>1. Hands(r)' = {InHand(d, "claimed") : d \in batch[r]} \cup {g}
      BY <1>8 DEF Hands, Working, TypeOK
    <3>2. Hands(r) = {InHand(d, "claimed") : d \in batch[r]} \cup {h}
      BY <1>8 DEF Hands
    <3> QED BY <1>8, <3>1, <3>2, CurrentIsApart
  <2>3. g = [h EXCEPT !.phase = p]
    BY DEF InHand
  <2> HIDE DEF h, g
  <2>4. h \in HandsBar /\ HandsBar' = (HandsBar \ {h}) \cup {g}
    BY <1>8, <2>1, <2>2, HandMoves
  <2> QED BY <2>3, <2>4 DEF Contract!Move, h
<1>9. ASSUME NEW r \in Runners, HandlerReturns(r)
      PROVE  \E h \in HandsBar : Contract!HandlerReturns(h)
  <2>1. /\ InHand(cur[r], pc[r]) \in HandsBar /\ pc[r] = "run"
        /\ Contract!Move(InHand(cur[r], pc[r]), "ok")
    BY <1>8, <1>9 DEF HandlerReturns, Goto, Step, Working
  <2>2. Contract!HandlerReturns(InHand(cur[r], pc[r]))
    BY <1>1, <1>9, <2>1 DEF HandlerReturns, Contract!HandlerReturns, InHand
  <2> QED BY <2>1, <2>2
<1>10. ASSUME NEW r \in Runners, HandlerThrows(r)
      PROVE  \E h \in HandsBar : Contract!HandlerThrows(h)
  <2>1. /\ InHand(cur[r], pc[r]) \in HandsBar /\ pc[r] = "run"
        /\ Contract!Move(InHand(cur[r], pc[r]), "err")
    BY <1>8, <1>10 DEF HandlerThrows, Goto, Step, Working
  <2>2. Contract!HandlerThrows(InHand(cur[r], pc[r]))
    BY <1>1, <1>10, <2>1 DEF HandlerThrows, Contract!HandlerThrows, InHand
  <2> QED BY <2>1, <2>2
\* The last statement of a row's turn: the hand is gone.
<1>11. ASSUME NEW r \in Runners, Step(r),
              pc[r] \in Working, pc' = [pc EXCEPT ![r] = "loop"], batch' = batch
       PROVE  /\ InHand(cur[r], pc[r]) \in HandsBar
              /\ HandsBar' = HandsBar \ {InHand(cur[r], pc[r])}
  <2> DEFINE h == InHand(cur[r], pc[r])
  <2>1. h \in Hands(r)
    BY <1>11 DEF Hands
  <2>2. Hands(r)' = Hands(r) \ {h}
    <3>1. Hands(r)' = {InHand(d, "claimed") : d \in batch[r]}
      BY <1>11 DEF Hands, Working, TypeOK
    <3>2. Hands(r) = {InHand(d, "claimed") : d \in batch[r]} \cup {h}
      BY <1>11 DEF Hands
    <3> QED BY <1>11, <3>1, <3>2, CurrentIsApart
  <2> HIDE DEF h
  <2>4. h \in HandsBar /\ HandsBar' = HandsBar \ {h}
    BY <1>11, <2>1, <2>2, HandLeaves
  <2> QED BY <2>4 DEF h
\* A settled row, seen through the mapping.
<1>12. ASSUME NEW r \in Runners, pc[r] \in Working, NEW s, NEW S,
              s = (IF S \in {"queued", "retrying"} THEN "waiting" ELSE S),
              \A j \in Jobs :
                 /\ row'[j].attempts = row[j].attempts
                 /\ row'[j].status = IF j = cur[r].job /\ Fenced(cur[r]) THEN S
                                     ELSE row[j].status
       PROVE  /\ Contract!SettleNewest(InHand(cur[r], pc[r]), s)
              /\ AttemptsBar' = AttemptsBar
  <2>1. AttemptsBar' = AttemptsBar
    BY <1>12 DEF AttemptsBar
  <2>2. cur[r] \in Held(r) /\ cur[r].job \in Jobs
    BY <1>12, HeldType DEF Held, Working, Claim
  <2>3. Fenced(cur[r]) <=> Contract!Newest(InHand(cur[r], pc[r]))
    BY <2>2, FenceIsNewest
  <2>4. StatusBar' = [j \in Jobs |-> IF j = cur[r].job /\ Fenced(cur[r]) THEN s
                                     ELSE StatusBar[j]]
    BY <1>12 DEF StatusBar
  <2>5. StatusBar' = IF Fenced(cur[r]) THEN [StatusBar EXCEPT ![cur[r].job] = s]
                     ELSE StatusBar
    BY <2>2, <2>4 DEF StatusBar
  <2>6. InHand(cur[r], pc[r]).job = cur[r].job
    BY DEF InHand
  <2> QED BY <2>1, <2>3, <2>5, <2>6 DEF Contract!SettleNewest
<1>13. ASSUME NEW r \in Runners, pc[r] \in Working,
              row' = IF Fenced(cur[r]) THEN Completed(cur[r]) ELSE row
       PROVE  /\ Contract!SettleNewest(InHand(cur[r], pc[r]), "completed")
              /\ AttemptsBar' = AttemptsBar
  <2>1. cur[r].job \in Jobs
    BY <1>13, HeldType DEF Held, Working, Claim
  <2>2. \A j \in Jobs :
           /\ row'[j].attempts = row[j].attempts
           /\ row'[j].status = IF j = cur[r].job /\ Fenced(cur[r]) THEN "completed"
                               ELSE row[j].status
    BY <1>13, <2>1 DEF Completed, TypeOK, Row
  <2> QED BY <1>12, <1>13, <2>2
<1>14. ASSUME NEW r \in Runners, CompleteJob(r)
       PROVE  \E h \in HandsBar : Contract!Complete(h)
  <2>1. /\ InHand(cur[r], pc[r]) \in HandsBar /\ pc[r] = "ok"
        /\ HandsBar' = HandsBar \ {InHand(cur[r], pc[r])}
    BY <1>11, <1>14 DEF CompleteJob, Goto, Step, Working
  <2>2. /\ Contract!SettleNewest(InHand(cur[r], pc[r]), "completed")
        /\ AttemptsBar' = AttemptsBar
    BY <1>13, <1>14 DEF CompleteJob, Working
  <2>3. Contract!Complete(InHand(cur[r], pc[r]))
    BY <2>1, <2>2 DEF Contract!Complete, InHand
  <2> QED BY <2>1, <2>3
<1>15. ASSUME NEW r \in Runners, CompleteJobThrows(r)
       PROVE  \E h \in HandsBar : Contract!CompleteThrows(h)
  <2>1. /\ InHand(cur[r], pc[r]) \in HandsBar /\ pc[r] = "ok"
        /\ Contract!Move(InHand(cur[r], pc[r]), "err")
    BY <1>8, <1>15 DEF CompleteJobThrows, Goto, Step, Working
  <2>2. /\ \/ Contract!SettleNewest(InHand(cur[r], pc[r]), "completed")
           \/ UNCHANGED StatusBar
        /\ AttemptsBar' = AttemptsBar
    BY <1>1, <1>13, <1>15 DEF CompleteJobThrows, Working
  <2>3. Contract!CompleteThrows(InHand(cur[r], pc[r]))
    BY <2>1, <2>2 DEF Contract!CompleteThrows, InHand
  <2> QED BY <2>1, <2>3
<1>16. ASSUME NEW r \in Runners, FailJob(r)
       PROVE  \E h \in HandsBar : Contract!Fail(h)
  <2>1. /\ InHand(cur[r], pc[r]) \in HandsBar /\ pc[r] = "err"
        /\ HandsBar' = HandsBar \ {InHand(cur[r], pc[r])}
    BY <1>11, <1>16 DEF FailJob, Goto, Step, Working
  <2>2. cur[r] \in Claim /\ cur[r].job \in Jobs
    BY <1>16 DEF FailJob, TypeOK, Claim
  <2>3. \A j \in Jobs :
           /\ row'[j].attempts = row[j].attempts
           /\ row'[j].status = IF j = cur[r].job /\ Fenced(cur[r])
                               THEN IF Terminal(cur[r]) THEN "dead_letter" ELSE "retrying"
                               ELSE row[j].status
    BY <1>16, <2>2 DEF FailJob, TypeOK, Row
  <2>4. Terminal(cur[r]) <=> cur[r].attempts = MaxAttempts
    BY <2>2 DEF Terminal, Claim
  <2>5. /\ Contract!SettleNewest(InHand(cur[r], pc[r]),
              IF cur[r].attempts = MaxAttempts THEN "dead_letter" ELSE "waiting")
        /\ AttemptsBar' = AttemptsBar
    <3>1. CASE Terminal(cur[r])
      BY <1>12, <2>1, <2>3, <2>4, <3>1 DEF Working
    <3>2. CASE ~Terminal(cur[r])
      BY <1>12, <2>1, <2>3, <2>4, <3>2 DEF Working
    <3> QED BY <3>1, <3>2
  <2>6. Contract!Fail(InHand(cur[r], pc[r]))
    BY <2>1, <2>5 DEF Contract!Fail, InHand
  <2> QED BY <2>1, <2>6
<1>17. ASSUME NEW r \in Runners, Crash(r)
       PROVE  \/ \E H \in SUBSET HandsBar : Contract!Lose(H)
              \/ UNCHANGED <<StatusBar, AttemptsBar, HandsBar>>
  <2>1. Hands(r)' = {}
    BY <1>17 DEF Crash, Goto, Hands, Working, TypeOK
  <2>2. HandsBar' = HandsBar \ Hands(r)
    BY <1>17, <2>1, OthersStay, OneRunnerMoves
  <2>3. Hands(r) \subseteq HandsBar
    BY HandsOfRunners
  <2>4. CASE Hands(r) = {}
    <3>1. HandsBar' = HandsBar
      BY <2>2, <2>4
    <3> QED BY <1>1, <1>17, <3>1 DEF Crash
  <2>5. CASE Hands(r) # {}
    <3>1. Contract!Lose(Hands(r))
      BY <1>1, <1>17, <2>2, <2>3, <2>5 DEF Contract!Lose, Crash
    <3> QED BY <2>3, <3>1
  <2> QED BY <2>4, <2>5
<1>18. CASE Tick \/ UNCHANGED vars
  BY <1>1, <1>2, <1>18 DEF Tick, vars
<1> QED
  BY <1>3, <1>4, <1>5, <1>6, <1>7, <1>9, <1>10, <1>14, <1>15, <1>16, <1>17, <1>18
     DEF Next, Step, Contract!ContractNext

\* JobQueue implements JobContract: whatever runners, clocks and crashes do, the services
\* see attempts that come one after another, of which only the newest decides.
THEOREM QueueKeepsContract == Spec => ImplementsContract
<1>1. Init => Contract!ContractInit /\ Empty
  <2> SUFFICES ASSUME Init PROVE Contract!ContractInit /\ Empty
    OBVIOUS
  <2>1. HandsBar = {}
    BY HandsOfRunners DEF Init, Hands, Working
  <2>2. StatusBar = [j \in Jobs |-> "absent"] /\ AttemptsBar = [j \in Jobs |-> 0]
    BY DEF Init, StatusBar, AttemptsBar, Absent
  <2> QED BY <2>1, <2>2 DEF Contract!ContractInit, Empty, Init
<1>2. TypeOK /\ JobInv /\ Empty /\ [Next]_vars => Empty'
  BY EmptyStep
<1>3. TypeOK /\ JobInv /\ Empty /\ [Next]_vars
        => [Contract!ContractNext]_(Contract!jobVars)
  BY ContractStep
<1> QED BY <1>1, <1>2, <1>3, JobQueueInvariant, PTL
        DEF Spec, ImplementsContract, Contract!ContractSpec

-----------------------------------------------------------------------------
(***************************************************************************)
(* The lease as a bound: a batch of Limit rows, each with a handler of at  *)
(* most LongestJob, is worked off before its lease runs out.               *)
(***************************************************************************)

\* A runner's claims whose handler has not come to its end yet.
Live(r) == batch[r] \cup (IF pc[r] = "run" THEN {cur[r]} ELSE {})

\* The handlers that a runner may still be in for its batch.
Left(r) == Cardinality(batch[r]) + (IF pc[r] = "run" THEN 1 ELSE 0)

\* When a runner came to its present step, and that the handlers it has left fit in what
\* its batch's lease has left.
InTime(r) ==
    /\ since[r] \in Nat /\ since[r] <= now
    /\ pc[r] \notin {"idle", "run"} => since[r] = now
    /\ pc[r] = "run" => now <= since[r] + LongestJob
    /\ IsFiniteSet(batch[r])
    /\ pc[r] \in {"run", "ok", "err"} => cur[r] \notin batch[r]
    /\ \A c \in Live(r) :
          since[r] + Left(r) * LongestJob <= c.token + Limit * LongestJob

\* No row is taken from a runner that has not been in its handler.
StillMine == \A r \in Runners : \A c \in Live(r) : Fenced(c)

TimedInv ==
    /\ DOMAIN since = Runners
    /\ Empty /\ StillMine
    /\ \A r \in Runners : InTime(r)

\* One handler more is LongestJob more.
LEMMA OneMore ==
    ASSUME NEW k \in Nat
    PROVE  /\ k * LongestJob \in Nat
           /\ (k + 1) * LongestJob = k * LongestJob + LongestJob
           /\ k <= Limit => k * LongestJob <= Limit * LongestJob
<1>1. LongestJob \in Nat /\ Limit \in Nat
  BY TimingAssumption, BoundsAssumption
<1>2. k * LongestJob \in Nat /\ (k + 1) * LongestJob = k * LongestJob + LongestJob
  BY <1>1
<1>3. ASSUME k <= Limit PROVE k * LongestJob <= Limit * LongestJob
  <2>1. PICK d \in Nat : Limit = k + d
    <3>1. Limit - k \in Nat /\ Limit = k + (Limit - k)
      BY <1>1, <1>3
    <3> QED BY <3>1
  <2>2. Limit * LongestJob = k * LongestJob + d * LongestJob /\ d * LongestJob \in Nat
    BY <1>1, <2>1
  <2> QED BY <1>2, <2>2
<1> QED BY <1>2, <1>3

\* What a runner still has to work on are claims it holds.
LEMMA LiveIsHeld ==
    ASSUME TypeOK, NEW r \in Runners
    PROVE  Live(r) \subseteq Held(r) /\ Live(r) \subseteq Claim
BY HeldType DEF Live, Held

\* A runner with a claim in its hands is within the lease of that claim.
LEMMA WithinLease ==
    ASSUME TypeOK, TimedInv, Lease >= Limit * LongestJob,
           NEW r \in Runners, NEW c \in Live(r)
    PROVE  now <= c.token + Lease /\ ~LeaseExpired(c.job)
<1> DEFINE k == Cardinality(batch[r])
           L == LongestJob
           M == Limit * L
           N == k * L
<1>1. /\ InTime(r) /\ Fenced(c) /\ c \in Claim
  BY LiveIsHeld DEF TimedInv, StillMine
<1>2. k \in Nat
  BY <1>1, FS_CardinalityType DEF InTime
<1>3. /\ M \in Nat /\ N \in Nat /\ (k + 1) * L = N + L /\ L \in Nat
      /\ Lease \in Nat /\ now \in Nat /\ since[r] \in Nat /\ c.token \in Nat
  <2>1. Limit \in Nat /\ Lease \in Nat /\ now \in Nat /\ L \in Nat
    BY TimingAssumption, BoundsAssumption DEF TypeOK
  <2> QED BY <1>1, <1>2, <2>1, OneMore DEF InTime, Claim
<1>4. since[r] + Left(r) * L <= c.token + M /\ Lease >= M
  BY <1>1 DEF InTime
<1>5. now <= c.token + Lease
  <2>1. CASE pc[r] = "run"
    <3>1. Left(r) * L = N + L
      BY <1>3, <2>1 DEF Left
    <3>2. now <= since[r] + L
      BY <1>1, <2>1 DEF InTime
    <3> HIDE DEF k, L, M, N
    <3>3. since[r] + (N + L) <= c.token + M
      BY <1>4, <3>1
    <3> QED BY <1>3, <1>4, <3>2, <3>3
  <2>2. CASE pc[r] # "run"
    <3>1. Left(r) * L = N
      BY <1>2, <2>2 DEF Left
    <3>2. pc[r] \notin {"idle", "run"}
      BY <2>2 DEF Live, TimedInv, Empty
    <3>3. now = since[r]
      BY <1>1, <3>2 DEF InTime
    <3> HIDE DEF k, L, M, N
    <3>4. since[r] + N <= c.token + M
      BY <1>4, <3>1
    <3> QED BY <1>3, <1>4, <3>3, <3>4
  <2> QED BY <2>1, <2>2
<1> QED BY <1>1, <1>3, <1>5 DEF Fenced, LeaseExpired

\* So the row of such a claim is not touched by the others, nor by its own runner.
LEMMA LockIsKept ==
    ASSUME TypeOK, JobInv, TimedInv, Lease >= Limit * LongestJob, [Next]_vars,
           NEW r \in Runners, NEW c \in Live(r)
    PROVE  Fenced(c)'
<1> DEFINE j == c.job
<1>1. /\ j \in Jobs /\ Fenced(c) /\ ~LeaseExpired(j) /\ c \in Held(r) /\ c \in Claim
  BY WithinLease, LiveIsHeld DEF Claim, TimedInv, StillMine
<1>2. SUFFICES row'[j] = row[j]
  BY <1>1 DEF Fenced
<1>3. ~Claimable(j) /\ ~Dead(j) /\ row[j].status = "running"
  BY <1>1 DEF Claimable, Dead, Fenced
<1>4. ASSUME NEW s \in Runners, pc[s] \in {"ok", "err"}, Fenced(cur[s])
      PROVE  cur[s].job \in Jobs /\ cur[s].job # j
  <2>1. cur[s] \in Held(s) /\ cur[s] \in Claim /\ ClaimInv(cur[s]) /\ ClaimInv(c)
    BY <1>1, <1>4, HeldType DEF Held, JobInv
  <2>2. cur[s].job \in Jobs
    BY <2>1 DEF Claim
  <2>3. ASSUME cur[s].job = j PROVE FALSE
    <3>1. cur[s].attempts = c.attempts
      BY <1>1, <1>4, <2>1, <2>3, FenceNewest
    <3>2. r = s /\ c = cur[s]
      BY <1>1, <2>1, <2>3, <3>1 DEF JobInv, DistinctClaims
    <3>3. cur[r] \notin batch[r]
      BY <1>4, <3>2 DEF TimedInv, InTime
    <3> QED BY <1>4, <3>2, <3>3 DEF Live
  <2> QED BY <2>2, <2>3
<1>5. ASSUME NEW s \in Runners, ClaimBatch(s) PROVE row'[j] = row[j]
  BY <1>1, <1>3, <1>5 DEF ClaimBatch, OldestFirst
<1>6. ASSUME NEW s \in Runners, Sweep(s) PROVE row'[j] = row[j]
  BY <1>1, <1>3, <1>6 DEF Sweep
<1>7. ASSUME NEW s \in Runners, CompleteJob(s) \/ CompleteJobThrows(s)
      PROVE  row'[j] = row[j]
  <2>1. pc[s] = "ok" /\ (row' = row \/ (Fenced(cur[s]) /\ row' = Completed(cur[s])))
    BY <1>7 DEF CompleteJob, CompleteJobThrows
  <2> QED BY <1>1, <1>4, <2>1 DEF Completed, TypeOK
<1>8. ASSUME NEW s \in Runners, FailJob(s) PROVE row'[j] = row[j]
  BY <1>1, <1>4, <1>8 DEF FailJob, TypeOK
<1>9. ASSUME NEW i \in Jobs, Enqueue(i) PROVE row'[j] = row[j]
  BY <1>1, <1>3, <1>9 DEF Enqueue, TypeOK
<1> QED
  BY <1>5, <1>6, <1>7, <1>8, <1>9
     DEF Next, Step, vars, Begin, Return, HandlerReturns, HandlerThrows, Crash, Tick

\* A claim comes with its lock.
LEMMA MineStep ==
    ASSUME TypeOK, JobInv, TimedInv, Lease >= Limit * LongestJob, [Next]_vars
    PROVE  StillMine'
<1> SUFFICES ASSUME NEW s \in Runners, NEW c \in Live(s)' PROVE Fenced(c)'
  BY DEF StillMine
<1>1. ASSUME NEW r \in Runners, ClaimBatch(r), s = r PROVE Fenced(c)'
  <2>1. PICK S \in SUBSET Jobs :
          /\ row' = [j \in Jobs |-> IF j \in S
                                    THEN [row[j] EXCEPT
                                            !.status = "running",
                                            !.lockedAt = now,
                                            !.attempts = NextAttempt(j)]
                                    ELSE row[j]]
          /\ batch' = [batch EXCEPT ![r] =
                          {[job |-> j, token |-> now,
                            attempts |-> NextAttempt(j)] : j \in S}]
    BY <1>1 DEF ClaimBatch
  <2>2. pc'[r] = "loop"
    BY <1>1 DEF ClaimBatch, Goto, TypeOK
  <2>3. PICK j \in S : c = [job |-> j, token |-> now, attempts |-> NextAttempt(j)]
    BY <1>1, <2>1, <2>2 DEF Live, TypeOK
  <2>4. row[j] \in Row /\ row'[j].status = "running" /\ row'[j].lockedAt = now
    BY <2>1 DEF TypeOK, Row
  <2> QED BY <2>3, <2>4 DEF Fenced
<1>2. ASSUME \A r \in Runners : ClaimBatch(r) => s # r
      PROVE  c \in Live(s)
  <2>1. ASSUME NEW r \in Runners, Step(r) \/ Crash(r), r # s
        PROVE  batch'[s] = batch[s] /\ pc'[s] = pc[s] /\ cur'[s] = cur[s]
    BY <2>1 DEF TypeOK, Step, Crash, Sweep, ClaimBatch, Begin, Return,
       HandlerReturns, HandlerThrows, CompleteJob, CompleteJobThrows, FailJob, Goto
  <2>2. ASSUME Step(s) \/ Crash(s) PROVE Live(s)' \subseteq Live(s)
    <3>1. ~ClaimBatch(s)
      BY <1>2
    <3>2. CASE Begin(s)
      BY <3>2 DEF TypeOK, Begin, Goto, Live
    <3>3. CASE Sweep(s) \/ Return(s) \/ HandlerReturns(s) \/ HandlerThrows(s)
      BY <3>3 DEF TypeOK, Sweep, Return, HandlerReturns, HandlerThrows, Goto, Live
    <3>4. CASE CompleteJob(s) \/ CompleteJobThrows(s) \/ FailJob(s) \/ Crash(s)
      BY <3>4 DEF TypeOK, CompleteJob, CompleteJobThrows, FailJob, Crash, Goto, Live
    <3> QED BY <2>2, <3>1, <3>2, <3>3, <3>4 DEF Step
  <2>3. CASE Tick \/ UNCHANGED vars \/ \E j \in Jobs : Enqueue(j)
    BY <2>3 DEF Tick, vars, Enqueue, Live
  <2> QED BY <2>1, <2>2, <2>3 DEF Next, Live
<1> QED BY <1>1, <1>2, LockIsKept

\* A runner that has not moved, at the same time.
LEMMA StaysInTime ==
    ASSUME NEW s \in Runners, InTime(s), batch'[s] = batch[s], pc'[s] = pc[s],
           cur'[s] = cur[s], since'[s] = since[s], now' = now
    PROVE  InTime(s)'
BY DEF InTime, Left, Live

\* A runner that moves takes up the next row, or what it had before without it.
LEMMA MovesInTime ==
    ASSUME TypeOK, TimedInv, NEW r \in Runners, Step(r), ~ClaimBatch(r), Arrive(r)
    PROVE  InTime(r)'
<1> DEFINE k == Cardinality(batch[r])
           L == LongestJob
           M == Limit * L
           N == k * L
<1>1. /\ InTime(r) /\ now \in Nat /\ since'[r] = now /\ now' = now
      /\ \A c \in Live(r) : c.token \in Nat
  <2>1. since'[r] = now /\ InTime(r) /\ now \in Nat
    BY DEF TimedInv, Arrive, TypeOK
  <2>2. now' = now
    BY DEF Step, Sweep, Begin, Return, HandlerReturns, HandlerThrows, CompleteJob,
       CompleteJobThrows, FailJob
  <2>3. \A c \in Live(r) : c.token \in Nat
    BY LiveIsHeld DEF Claim
  <2> QED BY <2>1, <2>2, <2>3
<1>2. k \in Nat /\ N \in Nat /\ (k + 1) * L = N + L /\ L \in Nat /\ M \in Nat
  BY <1>1, FS_CardinalityType, OneMore, TimingAssumption, BoundsAssumption DEF InTime
\* The same batch, with no handler running.
<1>3. ASSUME pc'[r] \in {"swept", "loop", "ok", "err", "idle"}, batch'[r] = batch[r],
             pc[r] \in {"ok", "err", "run"} \/ batch[r] = {},
             pc'[r] \in {"ok", "err"} =>
                 cur'[r] = cur[r] /\ pc[r] \in {"run", "ok", "err"}
      PROVE  InTime(r)'
  <2>1. Live(r)' = batch[r] /\ Left(r)' = k /\ batch[r] \subseteq Live(r)
    BY <1>2, <1>3 DEF Live, Left
  <2>2. ASSUME NEW c \in batch[r] PROVE now + N <= c.token + M
    <3>1. since[r] + Left(r) * L <= c.token + M /\ c.token \in Nat /\ since[r] \in Nat
      BY <1>1, <2>1 DEF InTime
    <3>2. CASE pc[r] = "run"
      <4>1. Left(r) * L = N + L /\ now <= since[r] + L
        BY <1>1, <1>2, <3>2 DEF Left, InTime
      <4> HIDE DEF k, L, M, N
      <4>2. since[r] + (N + L) <= c.token + M
        BY <3>1, <4>1
      <4> QED BY <1>1, <1>2, <3>1, <4>1, <4>2
    <3>3. CASE pc[r] \in {"ok", "err"}
      <4>1. Left(r) * L = N /\ now = since[r]
        BY <1>1, <1>2, <3>3 DEF Left, InTime
      <4> HIDE DEF k, L, M, N
      <4> QED BY <1>1, <1>2, <3>1, <4>1
    <3> QED BY <1>3, <3>2, <3>3
  <2>3. IsFiniteSet(batch'[r]) /\ (pc'[r] \in {"run", "ok", "err"} => cur'[r] \notin batch'[r])
    BY <1>1, <1>3 DEF InTime
  <2>4. \A c \in Live(r)' : since'[r] + Left(r)' * LongestJob <= c.token + Limit * LongestJob
    BY <1>1, <2>1, <2>2
  <2> HIDE DEF k, L, M, N
  <2> QED BY <1>1, <1>3, <2>3, <2>4 DEF InTime
<1>4. CASE Sweep(r)
  BY <1>3, <1>4 DEF Sweep, Goto, TypeOK, TimedInv, Empty
<1>5. CASE Return(r)
  BY <1>3, <1>5 DEF Return, Goto, TypeOK
<1>6. CASE HandlerReturns(r) \/ HandlerThrows(r)
  BY <1>3, <1>6 DEF HandlerReturns, HandlerThrows, Goto, TypeOK
<1>7. CASE CompleteJob(r) \/ CompleteJobThrows(r) \/ FailJob(r)
  BY <1>3, <1>7 DEF CompleteJob, CompleteJobThrows, FailJob, Goto, TypeOK
<1>8. CASE Begin(r)
  <2>1. PICK c \in batch[r] : /\ cur' = [cur EXCEPT ![r] = c]
                              /\ batch' = [batch EXCEPT ![r] = @ \ {c}]
    BY <1>8 DEF Begin
  <2>2. /\ pc[r] = "loop" /\ pc'[r] = "run" /\ cur'[r] = c /\ batch'[r] = batch[r] \ {c}
    BY <1>8, <2>1 DEF Begin, Goto, TypeOK
  <2>3. IsFiniteSet(batch'[r]) /\ Cardinality(batch'[r]) = k - 1
    <3> DEFINE B == batch[r]
    <3>1. IsFiniteSet(B) /\ c \in B
      BY <1>1 DEF InTime
    <3> HIDE DEF B
    <3>2. IsFiniteSet(B \ {c}) /\ Cardinality(B \ {c}) = Cardinality(B) - 1
      BY <3>1, FS_RemoveElement
    <3> QED BY <2>2, <3>2 DEF B
  <2>4. Live(r) = batch[r] /\ Left(r) = k
    BY <1>2, <2>2 DEF Live, Left
  <2>5. Live(r)' = batch[r]
    BY <2>1, <2>2 DEF Live
  <2>6. Left(r)' = k
    BY <1>2, <2>2, <2>3 DEF Left
  <2>7. since[r] = now
    BY <1>1, <2>2 DEF InTime
  <2>8. now <= now + L
    BY <1>1, <1>2
  <2>9. \A d \in Live(r)' : since'[r] + Left(r)' * LongestJob <= d.token + Limit * LongestJob
    BY <1>1, <2>4, <2>5, <2>6, <2>7 DEF InTime
  <2> HIDE DEF k, L, M, N
  <2>10. now' <= since'[r] + LongestJob
    BY <1>1, <2>8 DEF L
  <2> QED BY <1>1, <2>2, <2>3, <2>9, <2>10 DEF InTime
<1> QED BY <1>4, <1>5, <1>6, <1>7, <1>8 DEF Step

\* A new batch has its whole lease before it.
LEMMA ClaimsInTime ==
    ASSUME TypeOK, TimedInv, NEW r \in Runners, ClaimBatch(r), Arrive(r)
    PROVE  InTime(r)'
<1>1. PICK S \in SUBSET Jobs :
        /\ Cardinality(S) <= Limit
        /\ batch' = [batch EXCEPT ![r] =
                        {[job |-> j, token |-> now,
                          attempts |-> NextAttempt(j)] : j \in S}]
  BY DEF ClaimBatch, OldestFirst
<1> DEFINE rec(j) == [job |-> j, token |-> now, attempts |-> NextAttempt(j)]
           B == {rec(j) : j \in S}
           f == [j \in S |-> rec(j)]
<1>2. IsFiniteSet(S)
  BY TableAssumption, FS_Subset
<1>3. f \in Surjection(S, B)
  BY DEF Surjection
<1>4. IsFiniteSet(B) /\ Cardinality(B) <= Cardinality(S)
  <2> HIDE DEF f, B
  <2> QED BY <1>2, <1>3, FS_Surjection
<1>5. batch'[r] = B /\ pc'[r] = "loop" /\ since'[r] = now /\ now' = now /\ now \in Nat
  <2>1. batch'[r] = B
    BY <1>1 DEF TypeOK
  <2>2. pc'[r] = "loop" /\ now' = now /\ now \in Nat
    <3>1. pc' = [pc EXCEPT ![r] = "loop"] /\ now' = now
      BY Zenon DEF ClaimBatch, Goto
    <3>2. pc \in [Runners -> Steps] /\ now \in Nat
      BY DEF TypeOK
    <3> QED BY <3>1, <3>2
  <2>3. since'[r] = now
    BY DEF Arrive, TimedInv
  <2> QED BY <2>1, <2>2, <2>3
<1>6. \A c \in B : c.token = now
  OBVIOUS
<1> HIDE DEF B
<1>7. Cardinality(B) \in Nat /\ Cardinality(B) <= Limit
  BY <1>1, <1>2, <1>4, FS_CardinalityType, BoundsAssumption
<1>8. Live(r)' = B /\ Left(r)' = Cardinality(B)
  BY <1>5, <1>7 DEF Live, Left
<1>9. /\ Cardinality(B) * LongestJob <= Limit * LongestJob
      /\ Cardinality(B) * LongestJob \in Nat /\ Limit * LongestJob \in Nat
  BY <1>7, OneMore, BoundsAssumption
<1> QED BY <1>4, <1>5, <1>6, <1>8, <1>9 DEF InTime

\* Every step of the timed queue keeps the handlers that are left within the leases.
LEMMA TimedStepKeeps ==
    ASSUME TypeOK, JobInv, TimedInv, Lease >= Limit * LongestJob,
           [TimedNext]_timedVars
    PROVE  TimedInv'
<1>1. [Next]_vars
  BY DEF TimedNext, TimedEnqueue, TimedStep, TimedCrash, TimedTick, timedVars, vars, Next
<1>2. Empty' /\ StillMine'
  BY <1>1, EmptyStep, MineStep DEF TimedInv
<1>3. DOMAIN since' = Runners
  BY DEF TimedNext, TimedEnqueue, TimedStep, TimedCrash, TimedTick, timedVars, Arrive,
     TimedInv
<1> SUFFICES ASSUME NEW s \in Runners PROVE InTime(s)'
  BY <1>2, <1>3 DEF TimedInv
<1>4. InTime(s) /\ now \in Nat
  BY DEF TimedInv, TypeOK
<1>5. ASSUME NEW r \in Runners, TimedStep(r) \/ TimedCrash(r), s # r PROVE InTime(s)'
  <2>1. batch'[s] = batch[s] /\ pc'[s] = pc[s] /\ cur'[s] = cur[s] /\ now' = now
    BY <1>5 DEF TimedStep, TimedCrash, TypeOK, Step, Crash, Sweep, ClaimBatch, Begin,
       Return, HandlerReturns, HandlerThrows, CompleteJob, CompleteJobThrows, FailJob,
       Goto
  <2>2. since'[s] = since[s]
    BY <1>5 DEF TimedStep, TimedCrash, Arrive, TimedInv
  <2> QED BY <1>4, <2>1, <2>2, StaysInTime
<1>6. CASE TimedStep(s)
  BY <1>6, MovesInTime, ClaimsInTime DEF TimedStep
<1>7. CASE TimedCrash(s)
  <2>1. /\ pc'[s] = "idle" /\ batch'[s] = {} /\ since'[s] = now /\ now' = now
    BY <1>7 DEF TimedCrash, Crash, Arrive, Goto, TypeOK, TimedInv
  <2> QED BY <1>4, <2>1, FS_EmptySet DEF InTime, Live
<1>8. CASE TimedTick
  <2>1. /\ MayWait(s) /\ now' = now + 1 /\ since'[s] = since[s]
        /\ batch'[s] = batch[s] /\ pc'[s] = pc[s] /\ cur'[s] = cur[s]
    BY <1>8 DEF TimedTick, Tick
  <2>2. Live(s)' = Live(s) /\ Left(s)' = Left(s)
    BY <2>1 DEF Live, Left
  <2>3. since[s] + LongestJob \in Nat
    BY <1>4, TimingAssumption DEF InTime
  <2> QED BY <1>4, <2>1, <2>2, <2>3 DEF InTime, MayWait
<1>9. CASE UNCHANGED timedVars \/ \E j \in Jobs : TimedEnqueue(j)
  BY <1>4, <1>9, StaysInTime DEF timedVars, vars, TimedEnqueue, Enqueue
<1> QED BY <1>5, <1>6, <1>7, <1>8, <1>9 DEF TimedNext

\* "A row whose lock is older than the lease belongs to a crashed worker": with a lease
\* that covers a whole batch, no two live runners are in the handler of one job.
THEOREM LeaseCoversBatch ==
    Lease >= Limit * LongestJob => (TimedSpec => []ExclusiveHandler)
<1> SUFFICES ASSUME Lease >= Limit * LongestJob PROVE TimedSpec => []ExclusiveHandler
  OBVIOUS
<1>1. TimedInit => TimedInv
  BY FS_EmptySet DEF TimedInit, Init, TimedInv, Empty, StillMine, Live, InTime
<1>2. TypeOK /\ JobInv /\ TimedInv /\ [TimedNext]_timedVars => TimedInv'
  BY TimedStepKeeps
<1>3. [TimedNext]_timedVars => [Next]_vars
  BY DEF TimedNext, TimedEnqueue, TimedStep, TimedCrash, TimedTick, timedVars, vars, Next
<1>4. TimedSpec => Spec
  BY <1>3, PTL DEF TimedSpec, TimedInit, Spec
<1>5. TypeOK /\ JobInv /\ TimedInv => ExclusiveHandler
  <2> SUFFICES ASSUME TypeOK, JobInv, TimedInv, NEW r \in Runners, NEW s \in Runners,
                      pc[r] = "run", pc[s] = "run", cur[r].job = cur[s].job
               PROVE  r = s
    BY DEF ExclusiveHandler
  <2>1. cur[r] \in Live(r) /\ cur[s] \in Live(s)
    BY DEF Live
  <2>2. /\ Fenced(cur[r]) /\ Fenced(cur[s])
        /\ cur[r] \in Held(r) /\ cur[s] \in Held(s)
        /\ cur[r] \in Claim /\ cur[s] \in Claim
    BY <2>1, LiveIsHeld DEF TimedInv, StillMine
  <2>3. cur[r].attempts = cur[s].attempts
    BY <2>2, FenceNewest DEF JobInv
  <2> QED BY <2>2, <2>3 DEF JobInv, DistinctClaims
<1> QED BY <1>1, <1>2, <1>4, <1>5, JobQueueInvariant, PTL DEF TimedSpec
=============================================================================
