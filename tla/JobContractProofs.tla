-------------------------- MODULE JobContractProofs -------------------------
(***************************************************************************)
(* What the contract of the job queue guarantees to every service that is  *)
(* composed with it, for any number of rows and attempts.                  *)
(***************************************************************************)
EXTENDS JobContract, TLAPS

\* Attempts are counted when they begin: a hand is never ahead of its row, no two hands
\* share an attempt, a row waits only while an attempt is left and is given up only when
\* none is.
ContractInv ==
    /\ ContractTypeOK
    /\ \A j \in Jobs :
          /\ status[j] = "absent" => attempts[j] = 0
          /\ status[j] = "waiting" => attempts[j] < MaxAttempts
          /\ status[j] = "dead_letter" => attempts[j] = MaxAttempts
    /\ \A h \in hands : h.attempt <= attempts[h.job]
    /\ \A g, h \in hands : g.job = h.job /\ g.attempt = h.attempt => g = h

\* A hand is a row, an attempt and a phase.
HandType == [job : Jobs, attempt : 1..MaxAttempts, phase : Phases]

\* Before the first job the contract holds.
LEMMA ContractStarts ==
    ASSUME MaxAttempts \in Nat \ {0}, ContractInit
    PROVE  ContractInv
BY DEF ContractInit, ContractInv, ContractTypeOK

\* Steps that change neither rows nor their attempts: a hand moves on, or some are lost.
LEMMA HandsMoveOn ==
    ASSUME MaxAttempts \in Nat \ {0}, ContractInv, UNCHANGED <<status, attempts>>,
           NEW h \in hands, NEW p \in Phases, Move(h, p)
    PROVE  ContractInv'
<1> DEFINE g == [h EXCEPT !.phase = p]
<1>1. hands \subseteq HandType
  BY DEF ContractInv, ContractTypeOK, HandType
<1>2. g \in HandType /\ g.job = h.job /\ g.attempt = h.attempt
  BY <1>1 DEF HandType
<1>3. hands' = (hands \ {h}) \cup {g}
  BY DEF Move
<1> HIDE DEF g
<1>4. ContractTypeOK'
  BY <1>1, <1>2, <1>3 DEF ContractInv, ContractTypeOK, HandType
<1>5. \A x \in hands' : x.attempt <= attempts'[x.job]
  BY <1>2, <1>3 DEF ContractInv
<1>6. ASSUME NEW x \in hands', NEW y \in hands', x.job = y.job, x.attempt = y.attempt
      PROVE  x = y
  BY <1>2, <1>3, <1>6 DEF ContractInv
<1>7. \A j \in Jobs : status'[j] = status[j] /\ attempts'[j] = attempts[j]
  OBVIOUS
<1> QED BY <1>4, <1>5, <1>6, <1>7 DEF ContractInv

\* Hands come to an end.
LEMMA HandsLeave ==
    ASSUME MaxAttempts \in Nat \ {0}, ContractInv, UNCHANGED <<status, attempts>>,
           hands' \subseteq hands
    PROVE  ContractInv'
BY DEF ContractInv, ContractTypeOK

\* The newest attempt settles its row, or an older one leaves it alone; its hand moves
\* on or leaves.
LEMMA Settles ==
    ASSUME MaxAttempts \in Nat \ {0}, ContractInv, NEW h \in hands,
           NEW s \in {"waiting", "completed", "dead_letter"},
           s = "waiting" => h.attempt # MaxAttempts,
           s = "dead_letter" => h.attempt = MaxAttempts,
           SettleNewest(h, s), UNCHANGED attempts,
           hands' = hands \ {h} \/ \E p \in Phases : Move(h, p)
    PROVE  ContractInv'
<1>1. h.job \in Jobs /\ h.attempt \in 1..MaxAttempts
  BY DEF ContractInv, ContractTypeOK
<1>2. ASSUME NEW j \in Jobs
      PROVE  \/ status'[j] = status[j]
             \/ j = h.job /\ attempts[j] = h.attempt /\ status'[j] = s
  BY <1>1 DEF SettleNewest, Newest, ContractInv, ContractTypeOK
<1>3. status' \in [Jobs -> {"absent", "waiting", "running", "completed", "dead_letter"}]
  BY DEF SettleNewest, ContractInv, ContractTypeOK
<1>4. ASSUME NEW j \in Jobs
      PROVE  /\ status'[j] = "absent" => attempts'[j] = 0
             /\ status'[j] = "waiting" => attempts'[j] < MaxAttempts
             /\ status'[j] = "dead_letter" => attempts'[j] = MaxAttempts
  BY <1>1, <1>2 DEF ContractInv
<1>5. /\ hands' \subseteq HandType
      /\ \A x \in hands' : \E y \in hands : x.job = y.job /\ x.attempt = y.attempt
      /\ \A x, y \in hands' : x.job = y.job /\ x.attempt = y.attempt => x = y
  <2>1. hands \subseteq HandType
    BY DEF ContractInv, ContractTypeOK, HandType
  <2>2. CASE hands' = hands \ {h}
    BY <2>1, <2>2 DEF ContractInv
  <2>3. ASSUME NEW p \in Phases, Move(h, p)
        PROVE  /\ hands' \subseteq HandType
               /\ \A x \in hands' : \E y \in hands : x.job = y.job /\ x.attempt = y.attempt
               /\ \A x, y \in hands' : x.job = y.job /\ x.attempt = y.attempt => x = y
    <3> DEFINE g == [h EXCEPT !.phase = p]
    <3>1. g \in HandType /\ g.job = h.job /\ g.attempt = h.attempt
      BY <2>1 DEF HandType
    <3>2. hands' = (hands \ {h}) \cup {g}
      BY <2>3 DEF Move
    <3> HIDE DEF g
    <3> QED BY <2>1, <3>1, <3>2 DEF ContractInv
  <2> QED BY <2>2, <2>3
<1>6. \A x \in hands' : x.attempt <= attempts'[x.job]
  BY <1>5 DEF ContractInv
<1> QED BY <1>3, <1>4, <1>5, <1>6 DEF ContractInv, ContractTypeOK, HandType

\* Several rows are claimed at once, each with an attempt that nobody has had before.
LEMMA ClaimKeeps ==
    ASSUME MaxAttempts \in Nat \ {0}, ContractInv, NEW S \in SUBSET Jobs, Claim(S)
    PROVE  ContractInv'
<1> DEFINE new == {Hand(j, attempts[j] + 1, "claimed") : j \in S}
<1>1. /\ \A j \in S : attempts[j] < MaxAttempts
      /\ status' = [j \in Jobs |-> IF j \in S THEN "running" ELSE status[j]]
      /\ attempts' = [j \in Jobs |-> IF j \in S THEN attempts[j] + 1 ELSE attempts[j]]
      /\ hands' = hands \cup new
  BY DEF Claim
<1>2. \A j \in Jobs : attempts[j] \in 0..MaxAttempts
  BY DEF ContractInv, ContractTypeOK
<1>3. ASSUME NEW x \in new
      PROVE  /\ x \in HandType /\ x.job \in S /\ x.attempt = attempts[x.job] + 1
             /\ x = Hand(x.job, attempts[x.job] + 1, "claimed")
  <2>1. PICK j \in S : x = Hand(j, attempts[j] + 1, "claimed")
    OBVIOUS
  <2>2. attempts[j] + 1 \in 1..MaxAttempts
    BY <1>1, <1>2
  <2> QED BY <2>1, <2>2 DEF Hand, HandType, Phases
<1> HIDE DEF new
<1>4. hands \subseteq HandType /\ \A x \in hands : x.attempt <= attempts[x.job]
  BY DEF ContractInv, ContractTypeOK, HandType
<1>5. ContractTypeOK'
  <2>1. status' \in [Jobs -> {"absent", "waiting", "running", "completed", "dead_letter"}]
    BY <1>1 DEF ContractInv, ContractTypeOK
  <2>2. attempts' \in [Jobs -> 0..MaxAttempts]
    BY <1>1, <1>2
  <2> QED BY <1>1, <1>3, <1>4, <2>1, <2>2 DEF ContractTypeOK, HandType
<1>6. ASSUME NEW x \in hands' PROVE x.attempt <= attempts'[x.job]
  <2>1. CASE x \in hands
    <3>1. x.job \in Jobs /\ x.attempt \in Nat /\ x.attempt <= attempts[x.job]
      BY <1>4, <2>1 DEF HandType
    <3> QED BY <1>1, <1>2, <3>1
  <2>2. CASE x \in new
    BY <1>1, <1>2, <1>3, <2>2
  <2> QED BY <1>1, <2>1, <2>2
<1>7. ASSUME NEW x \in hands', NEW y \in hands', x.job = y.job, x.attempt = y.attempt
      PROVE  x = y
  <2>1. ASSUME NEW u \in hands, NEW v \in new, u.job = v.job PROVE u.attempt # v.attempt
    BY <1>2, <1>3, <1>4, <2>1 DEF HandType
  <2>2. CASE x \in hands /\ y \in hands
    BY <1>7, <2>2 DEF ContractInv
  <2>3. CASE x \in new /\ y \in new
    BY <1>3, <1>7, <2>3
  <2> QED BY <1>1, <1>7, <2>1, <2>2, <2>3
<1>8. ASSUME NEW j \in Jobs
      PROVE  /\ status'[j] = "absent" => attempts'[j] = 0
             /\ status'[j] = "waiting" => attempts'[j] < MaxAttempts
             /\ status'[j] = "dead_letter" => attempts'[j] = MaxAttempts
  BY <1>1 DEF ContractInv
<1> QED BY <1>5, <1>6, <1>7, <1>8 DEF ContractInv

\* Jobs that are submitted, by insert on conflict do nothing, keep the contract.
LEMMA SubmitKeeps ==
    ASSUME MaxAttempts \in Nat \ {0}, ContractInv, NEW S \in SUBSET Jobs, Submit(S)
    PROVE  ContractInv'
BY DEF ContractInv, ContractTypeOK, Submit

\* A job that is submitted alone waits; the others stay as they were.
LEMMA SubmitsOne ==
    ASSUME ContractTypeOK, NEW j \in Jobs, Submit({j})
    PROVE  status[j] = "absent" /\ status' = [status EXCEPT ![j] = "waiting"]
BY DEF ContractTypeOK, Submit

\* So do jobs that are given up.
LEMMA GiveUpKeeps ==
    ASSUME MaxAttempts \in Nat \ {0}, ContractInv, NEW S \in SUBSET Jobs, GiveUp(S)
    PROVE  ContractInv'
BY DEF ContractInv, ContractTypeOK, GiveUp

\* Every step of the contract keeps its invariant.
LEMMA ContractKeeps ==
    ASSUME MaxAttempts \in Nat \ {0}, ContractInv, [ContractNext]_jobVars
    PROVE  ContractInv'
<1>1. ASSUME NEW S \in SUBSET Jobs, Submit(S) PROVE ContractInv'
  BY <1>1, SubmitKeeps
<1>2. ASSUME NEW S \in SUBSET Jobs, Claim(S) \/ GiveUp(S) PROVE ContractInv'
  BY <1>2, ClaimKeeps, GiveUpKeeps
<1>3. ASSUME NEW h \in hands, Begin(h) \/ HandlerReturns(h) \/ HandlerThrows(h)
      PROVE  ContractInv'
  BY <1>3, HandsMoveOn DEF Begin, HandlerReturns, HandlerThrows, Phases
<1>4. ASSUME NEW h \in hands, Complete(h) \/ CompleteThrows(h) \/ Fail(h)
      PROVE  ContractInv'
  <2>1. CASE Complete(h)
    BY <2>1, Settles DEF Complete
  <2>2. CASE CompleteThrows(h)
    BY <2>2, Settles, HandsMoveOn DEF CompleteThrows, Phases
  <2>3. CASE Fail(h)
    BY <2>3, Settles DEF Fail
  <2> QED BY <1>4, <2>1, <2>2, <2>3
<1>5. ASSUME NEW H \in SUBSET hands, Lose(H) PROVE ContractInv'
  BY <1>5, HandsLeave DEF Lose
<1>6. CASE UNCHANGED jobVars
  BY <1>6, HandsLeave DEF jobVars
<1> QED BY <1>1, <1>2, <1>3, <1>4, <1>5, <1>6 DEF ContractNext

\* The services may rely on the contract's invariant in every reachable state.
THEOREM ContractInvariant == MaxAttempts \in Nat \ {0} => (ContractSpec => []ContractInv)
<1> SUFFICES ASSUME MaxAttempts \in Nat \ {0} PROVE ContractSpec => []ContractInv
  OBVIOUS
<1>1. ContractInit => ContractInv
  BY ContractStarts
<1>2. ContractInv /\ [ContractNext]_jobVars => ContractInv'
  BY ContractKeeps
<1> QED BY <1>1, <1>2, PTL DEF ContractSpec
=============================================================================
