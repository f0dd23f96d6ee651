---------------------------- MODULE ReplicaLicence ---------------------------
(***************************************************************************)
(* The AWS Marketplace licence of the containers that run the program:     *)
(* src/lib/marketplace/aws/container-license.ts, docker-entrypoint.sh and  *)
(* scripts/enforce-marketplace-license.ts.                                 *)
(*                                                                         *)
(* A container runs two programs.  The enforcer of its entrypoint takes a  *)
(* seat and ends; then the application takes one, asks whether the account *)
(* still is subscribed every 15 minutes, and returns its seat before it    *)
(* leaves.  Calls to AWS fail, and their answers get lost.  That AWS takes *)
(* back a seat after a time of its own is not modelled.                    *)
(***************************************************************************)
EXTENDS Naturals, FiniteSets

CONSTANTS
    Replicas,       \* containers; one that has left does not come back
    Seats,          \* of the contract
    Attempts,       \* AWS_MARKETPLACE_STARTUP_RETRY_ATTEMPTS
    Limit           \* AWS_MARKETPLACE_TRANSIENT_FAILURE_LIMIT

ASSUME LicenceAssumption == Seats \in Nat /\ Attempts \in Nat \ {0} /\ Limit \in Nat \ {0}

VARIABLES
    entitled,       \* is the account subscribed?
    seats,          \* taken: by replica, program and attempt
    replica,
    faulty,         \* replicas that lost an answer or died
    unheard         \* heartbeats each has sent since the subscription ended

licenceVars == <<entitled, seats, replica, faulty, unheard>>

Programs == {"enforcer", "app"}
Answers == {"yes", "no", "unavailable"}
Fresh(stage, program, token, transient) ==
    [stage |-> stage, program |-> program, attempt |-> 1, token |-> token,
     transient |-> transient, beat |-> "none"]

LicenceInit ==
    /\ entitled = TRUE /\ seats = {}
    /\ replica = [r \in Replicas |-> Fresh("absent", "enforcer", 0, 0)]
    /\ faulty = {}
    /\ unheard = [r \in Replicas |-> 0]

LicenceTypeOK ==
    /\ entitled \in BOOLEAN
    /\ seats \subseteq Replicas \X Programs \X (1..Attempts)
    /\ Cardinality(seats) <= Seats
    /\ replica \in [Replicas ->
          [stage : {"absent", "consume", "fallback", "serving", "returning", "stopped", "out"},
           program : Programs, attempt : 1..Attempts, token : 0..Attempts,
           transient : 0..(Limit - 1), beat : Answers \cup {"none", "asked"}]]
    /\ faulty \subseteq Replicas
    /\ unheard \in [Replicas -> 0..Limit]

-----------------------------------------------------------------------------
\* The start of either program: enforceAwsMarketplaceLicenseOrExit

Faulty(r) == faulty' = faulty \cup {r}
In(r, stage) == replica[r].stage = stage
Leaves(r) == replica' = [replica EXCEPT ![r] = Fresh("out", "enforcer", 0, 0)]
Stops(r) == replica' = [replica EXCEPT ![r] = Fresh("stopped", "app", 0, 0)]

Start(r) ==
    /\ In(r, "absent")
    /\ replica' = [replica EXCEPT ![r].stage = "consume"]
    /\ UNCHANGED <<entitled, seats, faulty, unheard>>

\* The lease of the enforcer is dropped with its process.
Validated(r, token) ==
    replica' = [replica EXCEPT ![r] =
        IF @.program = "enforcer"
        THEN Fresh("consume", "app", 0, 0) ELSE Fresh("serving", "app", token, 0)]

\* Another attempt, and after the last of them exit(1).
Retries(r) ==
    IF replica[r].attempt = Attempts THEN Leaves(r)
    ELSE replica' = [replica EXCEPT ![r].stage = "consume", ![r].attempt = @ + 1]

SeatFree == entitled /\ Cardinality(seats) < Seats

\* The seat is taken, and the answer may not come.
CheckOut(r) ==
    /\ In(r, "consume") /\ SeatFree
    /\ seats' = seats \cup {<<r, replica[r].program, replica[r].attempt>>}
    /\ \/ Validated(r, replica[r].attempt) /\ UNCHANGED faulty
       \/ Retries(r) /\ Faulty(r)
    /\ UNCHANGED <<entitled, unheard>>

\* Without a seat it is enough to be subscribed.
Refused(r) ==
    /\ In(r, "consume") /\ ~SeatFree
    /\ replica' = [replica EXCEPT ![r].stage = "fallback"]
    /\ UNCHANGED <<entitled, seats, faulty, unheard>>

Fallback(r) ==
    /\ In(r, "fallback")
    /\ IF entitled THEN Validated(r, 0) ELSE Leaves(r)
    /\ UNCHANGED <<entitled, seats, faulty, unheard>>

\* A transient failure, or a permanent one.
StartFails(r) ==
    /\ In(r, "consume") \/ In(r, "fallback")
    /\ Retries(r) \/ Leaves(r)
    /\ UNCHANGED <<entitled, seats, faulty, unheard>>

-----------------------------------------------------------------------------
\* startMarketplaceRevalidation

AskHeartbeat(r) ==
    /\ In(r, "serving") /\ replica[r].beat = "none"
    /\ replica' = [replica EXCEPT ![r].beat = "asked"]
    /\ unheard' = IF entitled THEN unheard ELSE [unheard EXCEPT ![r] = @ + 1]
    /\ UNCHANGED <<entitled, seats, faulty>>

\* AWS decides; it may deny access to a subscriber, or not be reached.
AnswerHeartbeat(r) ==
    /\ replica[r].beat = "asked"
    /\ \E answer \in Answers :
          /\ answer = "yes" => entitled
          /\ replica' = [replica EXCEPT ![r].beat = answer]
    /\ UNCHANGED <<entitled, seats, faulty, unheard>>

\* lease.checkIn, once and with a token, and exit.  A second caller finds the lease
\* checked in and does not wait for the first.
ChecksInAndExits(r) ==
    IF In(r, "serving") /\ replica[r].token # 0
    THEN replica' = [replica EXCEPT ![r].stage = "returning", ![r].beat = "none"]
    ELSE Stops(r)

\* Variant: a counter of its own for every tick.
CountOfOne(n) == 1
Counted(n) == n + 1

Serves(r, failed) ==
    replica' = [replica EXCEPT ![r] = Fresh("serving", "app", @.token, failed)]

\* runMarketplaceRevalidationTick
EndHeartbeat(r) ==
    LET answer == replica[r].beat
        failed == Counted(replica[r].transient) IN
    /\ In(r, "serving") /\ answer \in Answers
    /\ CASE answer = "yes" -> Serves(r, 0)
         [] answer = "unavailable" /\ failed < Limit -> Serves(r, failed)
         [] OTHER -> ChecksInAndExits(r)
    /\ UNCHANGED <<entitled, seats, faulty, unheard>>

\* SIGTERM or SIGINT.
Shutdown(r) ==
    /\ In(r, "serving")
    /\ ChecksInAndExits(r)
    /\ UNCHANGED <<entitled, seats, faulty, unheard>>

CheckIn(r) ==
    /\ In(r, "returning")
    /\ seats' = seats \ {<<r, "app", replica[r].token>>}
    /\ Stops(r)
    /\ UNCHANGED <<entitled, faulty, unheard>>

\* The check-in fails, a second signal or a late heartbeat cuts it off, a signal comes
\* before there are handlers, or the process dies.
Die(r) ==
    /\ replica[r].stage \in {"consume", "fallback", "serving", "returning"}
    /\ Leaves(r) /\ Faulty(r)
    /\ UNCHANGED <<entitled, seats, unheard>>

Subscribe ==
    /\ entitled' = ~entitled
    /\ unheard' = [r \in Replicas |-> 0]
    /\ UNCHANGED <<seats, replica, faulty>>

LicenceNext ==
    \/ \E r \in Replicas :
        \/ Start(r) \/ CheckOut(r) \/ Refused(r) \/ Fallback(r) \/ StartFails(r)
        \/ AskHeartbeat(r) \/ AnswerHeartbeat(r) \/ EndHeartbeat(r)
        \/ Shutdown(r) \/ CheckIn(r) \/ Die(r)
    \/ Subscribe

LicenceSpec == LicenceInit /\ [][LicenceNext]_licenceVars

-----------------------------------------------------------------------------
\* "exits after three consecutive transient failures or one permanent failure": the
\* end of a subscription is noticed with the Limit-th heartbeat that follows.
FailsClosed ==
    \A r \in Replicas :
        In(r, "serving") /\ replica[r].beat = "none" /\ ~entitled => unheard[r] < Limit

\* A replica that left in order, and lost no answer, has returned what the application took.
AppSeatReturned ==
    \A r \in Replicas \ faulty, n \in 1..Attempts :
        In(r, "stopped") \/ In(r, "out") => <<r, "app", n>> \notin seats

\* Both: a replica keeps neither its service nor its seat longer than it may.
LicenceKept == FailsClosed /\ AppSeatReturned

\* "The startup seat is checked in during an orderly shutdown"
StartupSeatReturned ==
    \A r \in Replicas \ faulty, p \in Programs, n \in 1..Attempts :
        In(r, "stopped") => <<r, p, n>> \notin seats
=============================================================================
