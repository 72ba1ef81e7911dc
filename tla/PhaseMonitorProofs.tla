------------------------- MODULE PhaseMonitorProofs -------------------------
(***************************************************************************)
(* Theorems about PhaseMonitor, for every schedule, clock bound and roster *)
(* size, with verdicts that come in time and without.                      *)
(***************************************************************************)
EXTENDS PhaseMonitor, TLAPS

USE DEF Phases, DRAFT, REG_OPEN, REG_CLOSED, VOTING_OPEN, VOTING_CLOSED, TALLIED, Targets

\* What the script, the cluster and the operator do to the election.
LEMMA ElectionSteps ==
  MonitorNext => \/ \E sched \in Schedules, key \in Keys : CreateElection(sched, key)
                 \/ \E n \in 1..MAX_CANDIDATES :
                      \E roster \in [0..(n - 1) -> Names] : SetCandidates(n, roster)
                 \/ \E t \in Phases : AdvancePhase(t)
                 \/ Tick
                 \/ UNCHANGED <<slot, election>>
  BY DEF MonitorNext, Script, CreateStep, CandidatesStep, Poll, Skip, Proceed, Attempt,
         Answer, Accept, Reject, Operate, Clock

-----------------------------------------------------------------------------
(* Type correctness *)

LEMMA CreateType ==
  ASSUME ElectionTypeOK, NEW sched \in Schedules, NEW key \in Keys,
         CreateElection(sched, key)
  PROVE  ElectionTypeOK'
  <1> DEFINE empty == [i \in CandidateIds |-> Blank]
  <1>1. empty \in [CandidateIds -> Names \cup {Blank}]
    OBVIOUS
  <1>2. sched \in Schedule
    BY ElectionAssumption
  <1> HIDE DEF empty
  <1>3. election' = [created |-> TRUE, schedule |-> sched, aggregationKey |-> key,
                     phase |-> 0, candidateCount |-> 0, candidates |-> empty]
    BY DEF CreateElection, NoElection, empty
  <1>4. slot' = slot
    BY DEF CreateElection
  <1>5. QED
    BY <1>1, <1>2, <1>3, <1>4, ElectionAssumption DEF ElectionTypeOK, ElectionAccount

LEMMA CandidatesType ==
  ASSUME ElectionTypeOK, NEW n \in 1..MAX_CANDIDATES,
         NEW roster \in [0..(n - 1) -> Names], SetCandidates(n, roster)
  PROVE  /\ ElectionTypeOK'
         /\ slot' = slot /\ election.created /\ election'.created
         /\ election'.schedule = election.schedule
         /\ election'.phase = IF election.phase = 0 THEN 1 ELSE election.phase
  <1> USE ElectionAssumption DEF ElectionTypeOK, ElectionAccount
  <1> DEFINE merged == [i \in CandidateIds |->
                          IF i < n THEN roster[i] ELSE election.candidates[i]]
  <1>1. merged \in [CandidateIds -> Names \cup {Blank}]
    BY DEF CandidateIds
  <1> HIDE DEF merged
  <1>2. n \in 0..MAX_CANDIDATES
    OBVIOUS
  <1>3. election' = [election EXCEPT
                       !.candidates = merged,
                       !.candidateCount = n,
                       !.phase = IF election.phase = 0 THEN 1 ELSE election.phase]
    BY Zenon DEF SetCandidates, merged, DRAFT, REG_OPEN
  <1>4. election' = [created |-> election.created,
                     schedule |-> election.schedule,
                     aggregationKey |-> election.aggregationKey,
                     phase |-> IF election.phase = 0 THEN 1 ELSE election.phase,
                     candidateCount |-> n, candidates |-> merged]
    BY <1>3
  <1>5. slot' = slot /\ election.created
    BY DEF SetCandidates
  <1>6. QED
    BY <1>1, <1>2, <1>4, <1>5

LEMMA AdvanceType ==
  ASSUME ElectionTypeOK, NEW t \in Phases, AdvancePhase(t)
  PROVE  /\ ElectionTypeOK'
         /\ slot' = slot /\ election.created /\ election'.created
         /\ election'.schedule = election.schedule
         /\ t \in 2..5 /\ election.phase = t - 1 /\ election'.phase = t
  <1>1. /\ slot' = slot /\ election.created
        /\ election' = [election EXCEPT !.phase = t]
        /\ t \in 2..5 /\ election.phase = t - 1
    BY Zenon DEF AdvancePhase, REG_CLOSED, TALLIED
  <1>2. QED
    BY <1>1 DEF ElectionTypeOK, ElectionAccount

LEMMA ElectionTypeStep ==
  ElectionTypeOK /\ MonitorNext => ElectionTypeOK'
  <1> SUFFICES ASSUME ElectionTypeOK, MonitorNext PROVE ElectionTypeOK'
    OBVIOUS
  <1>1. CASE Tick
    BY <1>1, ElectionAssumption DEF Tick, ElectionTypeOK
  <1>2. CASE UNCHANGED <<slot, election>>
    BY <1>2 DEF ElectionTypeOK
  <1>3. QED
    BY <1>1, <1>2, ElectionSteps, CreateType, CandidatesType, AdvanceType

LEMMA ScriptTypeStep ==
  ASSUME MonitorTypeOK, MonitorNext
  PROVE  /\ pc' \in {"setup", "poll", "check", "await"}
         /\ target' \in Targets
         /\ current' \in 0..MaxSlot
         /\ advanced' \in [Targets -> BOOLEAN]
         /\ sent' \subseteq Targets
  <1> USE ElectionAssumption DEF MonitorTypeOK, scriptVars
  <1>1. CASE Skip
    BY <1>1 DEF Skip, Proceed
  <1>2. CASE Answer
    BY <1>2 DEF Answer, Proceed
  <1>3. CASE Attempt
    BY <1>3 DEF Attempt
  <1>4. ASSUME NEW reading \in {0, slot}, Poll(reading)
        PROVE  pc' = "check" /\ current' \in 0..MaxSlot
               /\ target' = target /\ advanced' = advanced /\ sent' = sent
    BY <1>4 DEF Poll, ElectionTypeOK
  <1>5. CASE CreateStep \/ CandidatesStep
    BY <1>5 DEF CreateStep, CandidatesStep
  <1>6. ASSUME NEW t \in Targets, Accept(t) \/ Reject(t)
        PROVE  /\ pc' = pc /\ target' = target /\ current' = current
               /\ advanced' = advanced /\ sent' = sent \ {t}
    BY <1>6 DEF Accept, Reject
  <1>7. ASSUME NEW t \in Phases, Operate(t)
        PROVE  UNCHANGED scriptVars
    BY <1>7 DEF Operate
  <1>8. CASE Clock
    BY <1>8 DEF Clock
  <1>9. QED
    BY <1>1, <1>2, <1>3, <1>4, <1>5, <1>6, <1>7, <1>8 DEF MonitorNext, Script

LEMMA MonitorTypeStep ==
  MonitorTypeOK /\ [MonitorNext]_monitorVars => MonitorTypeOK'
  <1>1. MonitorTypeOK /\ MonitorNext => MonitorTypeOK'
    BY ElectionTypeStep, ScriptTypeStep DEF MonitorTypeOK
  <1>2. MonitorTypeOK /\ UNCHANGED monitorVars => MonitorTypeOK'
    BY DEF MonitorTypeOK, monitorVars, scriptVars, ElectionTypeOK
  <1>3. QED
    BY <1>1, <1>2

LEMMA MonitorTypeInit == MonitorInit => MonitorTypeOK
  BY ElectionAssumption
  DEF MonitorInit, MonitorTypeOK, ElectionInit, NoElection, ElectionTypeOK,
      ElectionAccount, Schedule, CandidateIds

\* The script's variables, and the account it moves, keep their types.
THEOREM MonitorTypeCorrect == MonitorSpec => []MonitorTypeOK
  <1>1. QED
    BY MonitorTypeInit, MonitorTypeStep, PTL DEF MonitorSpec

-----------------------------------------------------------------------------
(* The attempts of the script *)

\* What the script and the transactions under way may count on.
AttemptInv ==
    /\ pc = "setup" => sent = {} /\ advanced = [t \in Targets |-> FALSE]
    /\ pc # "setup" => election.created /\ election.phase >= REG_OPEN
    /\ current <= slot
    /\ \A t \in sent : slot >= GateSlot(t)
    /\ Reliable =>
         /\ sent \subseteq {target}
         /\ sent # {} => pc = "await"
         /\ advanced[REG_CLOSED] /\ REG_CLOSED \notin sent => election.phase >= REG_CLOSED
         /\ \A t \in sent : election.phase >= t - 1

MonitorInv == MonitorTypeOK /\ AttemptInv

LEMMA GateSlotOpens ==
  ASSUME NEW t \in Targets
  PROVE  GateOpen(t) <=> slot >= GateSlot(t)
  <1>1. CASE t = 2
    BY <1>1 DEF GateOpen, GateSlot
  <1>2. CASE t = 3
    BY <1>2 DEF GateOpen, GateSlot
  <1>3. QED
    BY <1>1, <1>2

\* Nothing that the cluster or the operator does takes from the script what it
\* counts on.
LEMMA ElectionKeeps ==
  ASSUME MonitorTypeOK, election.created,
         \/ \E t \in Phases : AdvancePhase(t)
         \/ Tick
         \/ UNCHANGED <<slot, election>>
  PROVE  /\ election'.created /\ election'.schedule = election.schedule
         /\ election.phase <= election'.phase /\ slot <= slot'
         /\ election.phase \in 0..5 /\ election'.phase \in 0..5
         /\ slot \in Nat /\ slot' \in Nat
  <1> USE ElectionAssumption DEF MonitorTypeOK, ElectionTypeOK, ElectionAccount
  <1>1. CASE Tick \/ UNCHANGED <<slot, election>>
    BY <1>1 DEF Tick
  <1>2. ASSUME NEW t \in Phases, AdvancePhase(t)
        PROVE  /\ election'.created /\ election'.schedule = election.schedule
               /\ election.phase <= election'.phase /\ slot <= slot'
               /\ election.phase \in 0..5 /\ election'.phase \in 0..5
               /\ slot \in Nat /\ slot' \in Nat
    BY <1>2, AdvanceType
  <1>3. QED
    BY <1>1, <1>2

LEMMA AttemptInvStep ==
  MonitorInv /\ [MonitorNext]_monitorVars => AttemptInv'
  <1> SUFFICES ASSUME MonitorInv, [MonitorNext]_monitorVars PROVE AttemptInv'
    OBVIOUS
  <1>t. /\ slot \in Nat /\ current \in Nat /\ election.phase \in 0..5
        /\ target \in {2, 3} /\ sent \subseteq {2, 3}
        /\ advanced \in [{2, 3} -> BOOLEAN]
        /\ \A t \in {2, 3} : GateSlot(t) \in Nat
    BY ElectionAssumption
    DEF MonitorInv, MonitorTypeOK, ElectionTypeOK, ElectionAccount, GateSlot, Schedule
  <1> USE DEF MonitorInv, AttemptInv
  <1>1. CASE CreateStep
    <2>1. pc = "setup" /\ ~election.created
      BY <1>1 DEF CreateStep, CreateElection
    <2>2. slot' = slot /\ UNCHANGED scriptVars
      BY <1>1 DEF CreateStep, CreateElection
    <2>3. pc' = "setup" /\ sent' = {} /\ current' = current /\ advanced' = advanced
      BY <2>1, <2>2 DEF scriptVars
    <2>4. ~advanced[REG_CLOSED]
      BY <2>1
    <2>5. QED
      BY <2>1, <2>2, <2>3, <2>4, <1>t
  <1>2. CASE CandidatesStep
    <2>1. pc = "setup" /\ pc' = "poll" /\ current' = current
          /\ sent' = {} /\ advanced' = advanced
      BY <1>2 DEF CandidatesStep
    <2>2. slot' = slot /\ election'.created /\ election'.phase >= 1
      BY <1>2, <1>t, CandidatesType DEF CandidatesStep, MonitorTypeOK
    <2>3. ~advanced[REG_CLOSED]
      BY <2>1
    <2>4. QED
      BY <2>1, <2>2, <2>3, <1>t
  <1>3. ASSUME NEW reading \in {0, slot}, Poll(reading) PROVE AttemptInv'
    BY <1>3, <1>t DEF Poll, GateSlot
  <1>4. CASE Skip
    BY <1>4, <1>t DEF Skip, Proceed, GateSlot
  <1>5. CASE Answer
    BY <1>5, <1>t DEF Answer, Proceed, GateSlot
  <1>6. CASE Attempt
    <2>1. /\ pc = "check" /\ pc' = "await" /\ target' = target
          /\ current' = current /\ slot' = slot /\ election' = election
          /\ sent' = sent \cup {target}
          /\ advanced' = [advanced EXCEPT ![target] = TRUE]
      BY <1>6 DEF Attempt
    <2>2. slot >= GateSlot(target)
      BY <1>6, <1>t DEF Attempt, Due
    <2>3. target = 3 => advanced[2]
      BY <1>6 DEF Attempt, Due
    <2>4. \A t \in sent' : slot' >= GateSlot(t)'
      BY <2>1, <2>2 DEF GateSlot
    <2>5. Reliable => sent = {} /\ election.phase >= target - 1
      BY <1>t, <2>1, <2>3
    <2>6. Reliable /\ advanced'[2] /\ 2 \notin sent' => election'.phase >= 2
      BY <1>t, <2>1, <2>3, <2>5
    <2>7. QED
      BY <1>t, <2>1, <2>4, <2>5, <2>6
  <1>7. ASSUME NEW t \in Targets, Accept(t) PROVE AttemptInv'
    <2>1. /\ election.created /\ election'.phase = t
          /\ election'.created /\ election'.schedule = election.schedule /\ slot' = slot
          /\ election.phase <= election'.phase
      BY <1>7, <1>t, AdvanceType DEF Accept, MonitorTypeOK
    <2>2. /\ pc' = pc /\ target' = target /\ current' = current
          /\ advanced' = advanced /\ sent' = sent \ {t} /\ t \in sent
      BY <1>7 DEF Accept
    <2>3. QED
      BY <1>t, <2>1, <2>2 DEF GateSlot
  <1>8. ASSUME NEW t \in Targets, Reject(t) PROVE AttemptInv'
    <2>1. /\ pc' = pc /\ target' = target /\ current' = current /\ slot' = slot
          /\ advanced' = advanced /\ sent' = sent \ {t} /\ t \in sent
          /\ election' = election
      BY <1>8 DEF Reject
    <2>2. GateOpen(t)
      BY <2>1, GateSlotOpens
    <2>3. Reliable => election.phase # t - 1
      BY <1>8, <2>2 DEF Reject
    <2>4. Reliable => election.phase >= t
      BY <1>t, <2>1, <2>3
    <2>5. QED
      BY <1>t, <2>1, <2>4 DEF GateSlot
  <1>9. CASE \/ \E t \in Phases : Operate(t)
             \/ Clock
             \/ UNCHANGED monitorVars
    <2>1. UNCHANGED scriptVars
      BY <1>9 DEF Operate, Clock, monitorVars
    <2>2. election.created \/ pc = "setup"
      OBVIOUS
    <2>3. CASE election.created
      <3>1. \/ \E t \in Phases : AdvancePhase(t)
            \/ Tick
            \/ UNCHANGED <<slot, election>>
        BY <1>9 DEF Operate, Clock, monitorVars
      <3>2. QED
        BY <1>t, <2>1, <2>3, <3>1, ElectionKeeps DEF GateSlot, scriptVars
    <2>4. CASE pc = "setup"
      <3>1. sent' = {} /\ pc' = "setup" /\ advanced' = advanced /\ ~advanced[2]
            /\ current' = current
        BY <2>1, <2>4 DEF scriptVars
      <3>2. slot <= slot'
        BY <1>9, <1>t, AdvanceType DEF Operate, Clock, Tick, monitorVars, MonitorTypeOK
      <3>3. slot' \in Nat
        BY <1>9, <1>t, AdvanceType DEF Operate, Clock, Tick, monitorVars, MonitorTypeOK
      <3>4. QED
        BY <1>t, <2>4, <3>1, <3>2, <3>3
    <2>5. QED
      BY <2>2, <2>3, <2>4
  <1>10. QED
    BY <1>1, <1>2, <1>3, <1>4, <1>5, <1>6, <1>7, <1>8, <1>9 DEF MonitorNext, Script

\* The script never spends an attempt on a transaction whose gate is closed,
\* and, when every transaction is decided in time, none that is out of order.
THEOREM MonitorNoWastedAttempt == MonitorSpec => []NoWastedAttempt
  <1>1. MonitorInit => MonitorInv
    <2>1. MonitorInit => AttemptInv
      BY DEF MonitorInit, AttemptInv, ElectionInit, NoElection
    <2>2. QED
      BY <2>1, MonitorTypeInit DEF MonitorInv
  <1>2. MonitorInv /\ [MonitorNext]_monitorVars => MonitorInv'
    BY MonitorTypeStep, AttemptInvStep DEF MonitorInv
  <1>3. MonitorInv => NoWastedAttempt
    BY GateSlotOpens DEF MonitorInv, MonitorTypeOK, AttemptInv, NoWastedAttempt
  <1>4. QED
    BY <1>1, <1>2, <1>3, PTL DEF MonitorSpec
=============================================================================
