------------------------- MODULE JobQueueRefinement -------------------------
(***************************************************************************)
(* JobQueue implements JobContract.  Statuses queued and retrying are the  *)
(* contract's "waiting"; the timestamp locked_at disappears, because a     *)
(* claim passes the fence exactly when its attempt is the newest; batches  *)
(* and the claim being worked on become one set of attempts in hand.       *)
(***************************************************************************)
EXTENDS JobQueue

StatusBar ==
    [j \in Jobs |-> IF row[j].status \in {"queued", "retrying"}
                    THEN "waiting" ELSE row[j].status]
AttemptsBar == [j \in Jobs |-> row[j].attempts]

InHand(c, p) == [job |-> c.job, attempt |-> c.attempts, phase |-> p]
HandsBar ==
    {InHand(cur[r], pc[r]) : r \in {q \in Runners : pc[q] \in {"run", "ok", "err"}}}
        \cup UNION {{InHand(c, "claimed") : c \in batch[r]} : r \in Runners}

Contract == INSTANCE JobContract
                WITH status <- StatusBar, attempts <- AttemptsBar, hands <- HandsBar

\* Seen through this mapping, runners, leases and timestamps keep the promise
\* the services rely on.
ImplementsContract == Contract!ContractSpec
=============================================================================
