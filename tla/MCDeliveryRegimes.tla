------------------------- MODULE MCDeliveryRegimes --------------------------
(* EventDelivery in three regimes, checked in one run: the quiet one, where  *)
(* several webhooks and a channel hear of one change, anything fails between *)
(* the statements of the emission, but workers are one, alive and in time;   *)
(* the hurried one, where a delivery is attempted by two workers at once,    *)
(* which may die, and anything else may fail; and the rotating one, where    *)
(* the secret of the webhook is rotated meanwhile, twice, by requests that   *)
(* may overlap.                                                              *)
EXTENDS EventDelivery, TLC

CONSTANTS HurriedHooks
VARIABLE regime

DeliveryJobs == Changes \X Targets

Hurried == INSTANCE EventDelivery
           WITH Hooks <- HurriedHooks, Channels <- {}, Jobs <- Changes \X HurriedHooks,
                Rotated <- {}, MaxAttempts <- 2, MaxSecret <- 1, MaxHands <- 2,
                Faults <- AllFaults

Rotation == INSTANCE EventDelivery
            WITH Hooks <- HurriedHooks, Channels <- {}, Jobs <- Changes \X HurriedHooks,
                 Rotated <- HurriedHooks, MaxAttempts <- 2, MaxSecret <- 3, MaxHands <- 2,
                 Faults <- {"worker", "lease"}

allVars == <<vars, regime>>

RegimesInit ==
    \/ regime = "quiet" /\ Init
    \/ regime = "hurried" /\ Hurried!Init
    \/ regime = "rotating" /\ Rotation!Init
RegimesNext ==
    /\ \/ regime = "quiet" /\ Next
       \/ regime = "hurried" /\ Hurried!Next
       \/ regime = "rotating" /\ Rotation!Next
    /\ UNCHANGED regime

\* Hurried!Fairness, of the hurried steps.
HurriedFairness ==
    \A j \in Changes \X HurriedHooks :
       /\ WF_allVars(regime = "hurried" /\ Hurried!Take(j) /\ UNCHANGED regime)
       /\ WF_allVars(regime = "hurried" /\ Hurried!Attempt(j) /\ UNCHANGED regime)

RegimesSpec == RegimesInit /\ [][RegimesNext]_allVars /\ HurriedFairness

-----------------------------------------------------------------------------
\* Rows, jobs, handlers and secrets have the types of their columns; no row counts
\* more attempts than its job may make.
RegimesTypeOK ==
    CASE regime = "quiet" -> DeliveryTypeOK
      [] regime = "hurried" -> Hurried!DeliveryTypeOK
      [] regime = "rotating" -> Rotation!DeliveryTypeOK

\* With workers that die, leases that run out and statements that fail, every
\* delivery that has a job comes to an end.
HurriedDeliveryEnds ==
    \A d \in Changes \X HurriedHooks :
       (regime = "hurried" /\ status[d] = "waiting")
           ~> (regime # "hurried" \/ status[d] \in {"completed", "dead_letter"})
=============================================================================
