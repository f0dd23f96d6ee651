----------------------------- MODULE JobContract ----------------------------
(***************************************************************************)
(* What the job queue of src/lib/jobs/service.ts promises to the services  *)
(* that put work into it, without clocks, leases, limits or runners.       *)
(*                                                                         *)
(* A row is tried at most MaxAttempts times.  Several attempts of one row  *)
(* may be in progress at once, each in the hand of a different worker, for *)
(* a worker is only assumed to be dead when its lease runs out; but only   *)
(* the newest attempt decides what becomes of the row.  JobQueue is shown  *)
(* to implement this specification, and the services that run jobs are     *)
(* composed with it rather than with JobQueue.                             *)
(***************************************************************************)
EXTENDS Naturals

CONSTANTS Jobs, MaxAttempts

VARIABLES
    status,     \* of each row; "waiting" is queued or retrying
    attempts,   \* attempts made of each row
    hands       \* attempts in progress, with how far the worker has come

jobVars == <<status, attempts, hands>>

Phases == {"claimed", "run", "ok", "err"}
Hand(j, a, p) == [job |-> j, attempt |-> a, phase |-> p]

ContractTypeOK ==
    /\ status \in [Jobs -> {"absent", "waiting", "running", "completed",
                            "dead_letter"}]
    /\ attempts \in [Jobs -> 0..MaxAttempts]
    /\ hands \subseteq [job : Jobs, attempt : 1..MaxAttempts, phase : Phases]

ContractInit ==
    /\ status = [j \in Jobs |-> "absent"]
    /\ attempts = [j \in Jobs |-> 0]
    /\ hands = {}

Newest(h) == status[h.job] = "running" /\ attempts[h.job] = h.attempt

\* A transaction puts in a row, or several.
Submit(S) ==
    /\ \A j \in S : status[j] = "absent"
    /\ status' = [j \in Jobs |-> IF j \in S THEN "waiting" ELSE status[j]]
    /\ UNCHANGED <<attempts, hands>>

\* One claim of several rows.  A running row is taken from its worker.
Claim(S) ==
    /\ S # {}
    /\ \A j \in S : status[j] \in {"waiting", "running"} /\ attempts[j] < MaxAttempts
    /\ status' = [j \in Jobs |-> IF j \in S THEN "running" ELSE status[j]]
    /\ attempts' = [j \in Jobs |-> IF j \in S THEN attempts[j] + 1 ELSE attempts[j]]
    /\ hands' = hands \cup {Hand(j, attempts[j] + 1, "claimed") : j \in S}

\* The sweep: the last attempt has not come back in time.
GiveUp(S) ==
    /\ S # {}
    /\ \A j \in S : status[j] = "running" /\ attempts[j] = MaxAttempts
    /\ status' = [j \in Jobs |-> IF j \in S THEN "dead_letter" ELSE status[j]]
    /\ UNCHANGED <<attempts, hands>>

Move(h, p) == hands' = (hands \ {h}) \cup {[h EXCEPT !.phase = p]}

Begin(h) ==
    /\ h \in hands /\ h.phase = "claimed"
    /\ Move(h, "run")
    /\ UNCHANGED <<status, attempts>>

HandlerReturns(h) ==
    /\ h \in hands /\ h.phase = "run"
    /\ Move(h, "ok")
    /\ UNCHANGED <<status, attempts>>

HandlerThrows(h) ==
    /\ h \in hands /\ h.phase = "run"
    /\ Move(h, "err")
    /\ UNCHANGED <<status, attempts>>

SettleNewest(h, s) ==
    status' = IF Newest(h) THEN [status EXCEPT ![h.job] = s] ELSE status

Complete(h) ==
    /\ h \in hands /\ h.phase = "ok"
    /\ SettleNewest(h, "completed")
    /\ hands' = hands \ {h}
    /\ UNCHANGED attempts

\* The completing statement reports an error, whether or not it took effect.
CompleteThrows(h) ==
    /\ h \in hands /\ h.phase = "ok"
    /\ SettleNewest(h, "completed") \/ UNCHANGED status
    /\ Move(h, "err")
    /\ UNCHANGED attempts

Fail(h) ==
    /\ h \in hands /\ h.phase = "err"
    /\ SettleNewest(h, IF h.attempt = MaxAttempts THEN "dead_letter" ELSE "waiting")
    /\ hands' = hands \ {h}
    /\ UNCHANGED attempts

\* A worker dies with everything it has in hand.
Lose(H) ==
    /\ H # {} /\ H \subseteq hands
    /\ hands' = hands \ H
    /\ UNCHANGED <<status, attempts>>

ContractNext ==
    \/ \E S \in SUBSET Jobs : Submit(S) \/ Claim(S) \/ GiveUp(S)
    \/ \E h \in hands :
          \/ Begin(h) \/ HandlerReturns(h) \/ HandlerThrows(h)
          \/ Complete(h) \/ CompleteThrows(h) \/ Fail(h)
    \/ \E H \in SUBSET hands : Lose(H)

ContractSpec == ContractInit /\ [][ContractNext]_jobVars
=============================================================================
