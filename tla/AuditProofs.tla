----------------------------- MODULE AuditProofs -----------------------------
(***************************************************************************)
(* Theorems about Audit: what the audit client has printed stays true, for *)
(* every roster size, schedule and set of voters, however the chain moves  *)
(* between the two reads of a command and after its report.                *)
(***************************************************************************)
EXTENDS Audit, ChainProofs

-----------------------------------------------------------------------------
(* The totals of the candidates *)

\* What audit-tally adds up from the shards is what rebuild-tally counts, and
\* the accumulate_votes sent without a ballot.
TotalInv ==
    \A c \in CountedCandidates :
       CandidateTotal(c) = Cardinality(BallotsFor(c)) + Cardinality(DirectFor(c))

\* What is counted for a candidate only grows.
Grows ==
    \A c \in CountedCandidates :
       /\ BallotsFor(c) \subseteq BallotsFor(c)'
       /\ Cardinality(DirectFor(c)) <= Cardinality(DirectFor(c)')

LEMMA EntriesAreFinite ==
  ASSUME NEW d \in Seq(Shards), NEW c
  PROVE  Cardinality({i \in DOMAIN d : d[i] \div CANDIDATE_SHARDS = c}) \in Nat
  <1>1. IsFiniteSet(1..Len(d)) /\ DOMAIN d = 1..Len(d)
    BY FS_Interval
  <1>2. QED
    BY <1>1, FS_Subset, FS_CardinalityType

LEMMA CountsAreNumbers ==
  ASSUME TypeOK, CountInv
  PROVE  \A c : /\ IsFiniteSet(BallotsFor(c)) /\ Cardinality(BallotsFor(c)) \in Nat
               /\ Cardinality(DirectFor(c)) \in Nat
  <1>1. \A c : IsFiniteSet(BallotsFor(c)) /\ Cardinality(BallotsFor(c)) \in Nat
    BY FS_Subset, FS_CardinalityType DEF CountInv, BallotsFor
  <1>2. \A c : Cardinality(DirectFor(c)) \in Nat
    BY EntriesAreFinite DEF DirectFor, TypeOK
  <1>3. QED
    BY <1>1, <1>2

LEMMA ZeroTotals ==
  ASSUME NEW c \in CountedCandidates, \A s \in Shards : tally.counters[s] = 0
  PROVE  CandidateTotal(c) = 0
  <1>1. /\ c * 4 \in Shards /\ c * 4 + 1 \in Shards
        /\ c * 4 + 2 \in Shards /\ c * 4 + 3 \in Shards
    BY CountersAssumption DEF CountedCandidates, Shards, CANDIDATE_SHARDS
  <1>2. QED
    BY <1>1 DEF CandidateTotal, CANDIDATE_SHARDS

LEMMA TotalInvInit == ChainInit => TotalInv
  <1> SUFFICES ASSUME ChainInit, NEW c \in CountedCandidates
               PROVE  CandidateTotal(c)
                        = Cardinality(BallotsFor(c)) + Cardinality(DirectFor(c))
    BY DEF TotalInv
  <1>1. CandidateTotal(c) = 0
    BY ZeroTotals DEF ChainInit, TallyInit, ZeroTally
  <1>2. BallotsFor(c) = {} /\ DirectFor(c) = {}
    BY DEF ChainInit, BallotInit, BallotsFor, DirectFor
  <1>3. Cardinality({}) = 0 /\ 0 + 0 = 0
    BY FS_EmptySet
  <1>4. QED
    BY <1>1, <1>2, <1>3

\* A ballot goes to the total of the candidate that it names and to no other.
LEMMA CastTotals ==
  ASSUME NEW auth \in HonestBallots, NEW index \in 0..MaxLeaves,
         NEW candidate \in CandidateIds, NEW state \in StateIds,
         TypeOK, CountInv, TotalInv, CastStep(auth, index, candidate, state)
  PROVE  TotalInv' /\ Grows
  <1> DEFINE n == auth.nullifier
  <1>1. /\ n \notin DOMAIN ballots
        /\ DOMAIN ballots' = DOMAIN ballots \cup {n}
        /\ \A m \in DOMAIN ballots : ballots'[m] = ballots[m]
        /\ ballots'[n].candidate = candidate
        /\ direct' = direct
    BY DEF CastStep, Cast
  <1>2. tally'.counters = [tally.counters EXCEPT ![Shard(candidate, state)] = @ + 1]
    BY DEF CastStep, Cast, AccumulateVotes, TypeOK, TallyTypeOK
  <1>3. candidate \in CountedCandidates /\ state \in Nat
    BY ElectionAssumption, StateAssumption, CountersAssumption
    DEF CastStep, Cast, AccumulateVotes, CandidateIds, CountedCandidates,
        CANDIDATE_SHARDS
  <1>4. ASSUME NEW c \in CountedCandidates
        PROVE  /\ CandidateTotal(c)'
                    = Cardinality(BallotsFor(c)') + Cardinality(DirectFor(c)')
               /\ BallotsFor(c) \subseteq BallotsFor(c)'
               /\ Cardinality(DirectFor(c)) <= Cardinality(DirectFor(c)')
    <2>1. CandidateTotal(c)' =
            IF c = candidate THEN CandidateTotal(c) + 1 ELSE CandidateTotal(c)
      BY <1>2, <1>3, TotalAfterVote
    <2>2. BallotsFor(c)' = IF c = candidate THEN BallotsFor(c) \cup {n} ELSE BallotsFor(c)
      BY <1>1 DEF BallotsFor
    <2>3. /\ IsFiniteSet(BallotsFor(c)) /\ n \notin BallotsFor(c)
          /\ Cardinality(BallotsFor(c)) \in Nat /\ Cardinality(DirectFor(c)) \in Nat
      BY <1>1, CountsAreNumbers DEF BallotsFor
    <2>4. Cardinality(BallotsFor(c) \cup {n}) = Cardinality(BallotsFor(c)) + 1
      BY <2>3, FS_AddElement
    <2>5. CandidateTotal(c) = Cardinality(BallotsFor(c)) + Cardinality(DirectFor(c))
      BY DEF TotalInv
    <2>6. DirectFor(c)' = DirectFor(c)
      BY <1>1 DEF DirectFor
    <2>7. QED
      BY <2>1, <2>2, <2>3, <2>4, <2>5, <2>6
  <1>5. QED
    BY <1>4 DEF TotalInv, Grows

\* So does an accumulate_votes without a ballot.
LEMMA DirectTotals ==
  ASSUME NEW candidate \in SentCandidates, NEW state \in StateIds,
         TypeOK, CountInv, TotalInv, DirectStep(candidate, state)
  PROVE  TotalInv' /\ Grows
  <1> DEFINE own == Shard(candidate, state)
  <1>1. /\ candidate \in CountedCandidates /\ own \in Shards
        /\ direct' = Append(direct, own)
        /\ tally'.counters = [tally.counters EXCEPT ![own] = @ + 1]
        /\ ballots' = ballots
    BY DirectStepEffect
  <1>2. candidate \in Nat /\ state \in Nat
    BY <1>1, StateAssumption DEF CountedCandidates
  <1>3. own \div CANDIDATE_SHARDS = candidate
    BY <1>2, ShardNamesCandidate
  <1>4. ASSUME NEW c \in CountedCandidates
        PROVE  /\ CandidateTotal(c)'
                    = Cardinality(BallotsFor(c)') + Cardinality(DirectFor(c)')
               /\ BallotsFor(c) \subseteq BallotsFor(c)'
               /\ Cardinality(DirectFor(c)) <= Cardinality(DirectFor(c)')
    <2>1. CandidateTotal(c)' =
            IF c = candidate THEN CandidateTotal(c) + 1 ELSE CandidateTotal(c)
      BY <1>1, <1>2, TotalAfterVote
    <2> HIDE DEF own
    <2>2. Cardinality(DirectFor(c)') =
            Cardinality(DirectFor(c)) + (IF candidate = c THEN 1 ELSE 0)
      BY <1>1, <1>3, DirectAppended DEF TypeOK
    <2>3. Cardinality(BallotsFor(c)) \in Nat /\ Cardinality(DirectFor(c)) \in Nat
      BY CountsAreNumbers
    <2>4. BallotsFor(c)' = BallotsFor(c)
      BY <1>1 DEF BallotsFor
    <2>5. CandidateTotal(c) = Cardinality(BallotsFor(c)) + Cardinality(DirectFor(c))
      BY DEF TotalInv
    <2>6. QED
      BY <2>1, <2>2, <2>3, <2>4, <2>5
  <1>5. QED
    BY <1>4 DEF TotalInv, Grows

LEMMA TotalInvStep ==
  ASSUME TypeOK, CountInv, TotalInv, [ChainNext]_chainVars
  PROVE  TotalInv' /\ Grows
  <1>1. ASSUME NEW auth \in HonestBallots, NEW index \in 0..MaxLeaves,
               NEW candidate \in CandidateIds, NEW state \in StateIds,
               CastStep(auth, index, candidate, state)
        PROVE  TotalInv' /\ Grows
    BY <1>1, CastTotals
  <1>2. ASSUME NEW candidate \in SentCandidates, NEW state \in StateIds,
               DirectStep(candidate, state)
        PROVE  TotalInv' /\ Grows
    BY <1>2, DirectTotals
  <1>3. ASSUME UNCHANGED <<ballots, direct>>
        PROVE  Grows /\ \A c : BallotsFor(c)' = BallotsFor(c) /\ DirectFor(c)' = DirectFor(c)
    <2>1. \A c : BallotsFor(c)' = BallotsFor(c) /\ DirectFor(c)' = DirectFor(c)
      BY <1>3 DEF BallotsFor, DirectFor
    <2>2. QED
      BY <2>1, CountsAreNumbers DEF Grows
  <1>4. CASE TallySetup
    <2>1. /\ ballots = << >> /\ direct = << >> /\ UNCHANGED <<ballots, direct>>
          /\ tally' = ZeroTally(TRUE)
      BY <1>4 DEF TallySetup, InitTally, CountInv
    <2>2. \A c \in CountedCandidates : CandidateTotal(c)' = 0
      <3>1. \A s \in Shards : tally'.counters[s] = 0
        BY <2>1 DEF ZeroTally
      <3>2. \A c \in CountedCandidates : /\ c * 4 \in Shards /\ c * 4 + 1 \in Shards
                                         /\ c * 4 + 2 \in Shards /\ c * 4 + 3 \in Shards
        BY CountersAssumption DEF CountedCandidates, Shards, CANDIDATE_SHARDS
      <3>3. QED
        BY <3>1, <3>2 DEF CandidateTotal, CANDIDATE_SHARDS
    <2>3. \A c : BallotsFor(c)' = {} /\ DirectFor(c)' = {}
      BY <2>1 DEF BallotsFor, DirectFor
    <2>4. Cardinality({}) = 0 /\ 0 + 0 = 0
      BY FS_EmptySet
    <2>5. QED
      BY <1>3, <2>1, <2>2, <2>3, <2>4 DEF TotalInv
  <1>5. CASE UNCHANGED <<tally.counters, ballots, direct>>
    BY <1>3, <1>5 DEF TotalInv, CandidateTotal
  <1>6. CASE TallyFinalisation
    <2>1. tally'.counters = tally.counters /\ UNCHANGED <<ballots, direct>>
      BY <1>6 DEF TallyFinalisation, FinaliseTally, TypeOK, TallyTypeOK
    <2>2. QED
      BY <1>5, <2>1
  <1>7. QED
    BY <1>1, <1>2, <1>4, <1>5, <1>6
    DEF ChainNext, chainVars, ElectionStep, RegistrySetup, RegisterStep

-----------------------------------------------------------------------------
(* The invariant of the audit client *)

\* What one read of a tally shows remains true: votes beyond those that were
\* sent without a ballot are for somebody who has ballots, and a finalized
\* tally shows all there will ever be.
Stands(seen) ==
    \A c \in CountedCandidates :
       /\ seen.votes[c] \in Nat
       /\ seen.votes[c] > Cardinality(DirectFor(c)) => BallotsFor(c) # {}
       /\ seen.finalized =>
            /\ tally.finalized
            /\ seen.votes[c] = Cardinality(BallotsFor(c)) + Cardinality(DirectFor(c))

\* What is counted without a ballot only grows; what was counted when the
\* total was read has its nullifier, or its entry in the history.
NullifierInv ==
    /\ foreign \in Nat
    /\ audit.command = "check-nullifiers" =>
         audit.total \in Nat /\ audit.total <= tally.totalVotes
    /\ report.command = "check-nullifiers" =>
         /\ report.total \in Nat /\ report.marked \in Nat
         /\ report.total <= report.marked + Len(direct)
         /\ report.marked + Len(direct) <= tally.totalVotes + foreign

ReportInv ==
    /\ audit.command = "audit-tally" => Stands(audit)
    /\ report.command = "audit-tally" => Stands(report)
    /\ NamesOfTheElected
    /\ NullifierInv

AuditInv ==
    /\ TypeOK /\ CountInv /\ OrderInv /\ TotalInv
    /\ ReportInv

LEMMA AuditInvInit == AuditInit => AuditInv
  BY TypeInit, CountInvInit, OrderInvInit, TotalInvInit
  DEF AuditInit, AuditInv, ReportInv, NamesOfTheElected, NullifierInv, Idle

\* A step of the chain leaves what has been read and printed true.
LEMMA StandsStep ==
  ASSUME NEW seen, AuditInv, [ChainNext]_chainVars, Stands(seen)
  PROVE  Stands(seen)'
  <1>1. Grows
    BY TotalInvStep DEF AuditInv
  <1>2. tally.finalized => UNCHANGED <<tally, ballots, direct>>
    BY FinalisedStep DEF AuditInv
  <1>3. ASSUME NEW c \in CountedCandidates
        PROVE  /\ Cardinality(DirectFor(c)) \in Nat
               /\ Cardinality(DirectFor(c)') \in Nat
               /\ Cardinality(DirectFor(c)) <= Cardinality(DirectFor(c)')
    <2>1. TypeOK' /\ CountInv'
      BY TypeStep, CountInvStep DEF AuditInv
    <2>2. \A d : Cardinality(DirectFor(d)) \in Nat
      BY CountsAreNumbers DEF AuditInv
    <2>3. \A d : Cardinality(DirectFor(d)') \in Nat
      BY <2>1, EntriesAreFinite DEF DirectFor, TypeOK
    <2>4. QED
      BY <1>1, <2>2, <2>3 DEF Grows
  <1>4. ASSUME NEW c \in CountedCandidates, seen.votes[c] > Cardinality(DirectFor(c)')
        PROVE  BallotsFor(c)' # {}
    BY <1>1, <1>3, <1>4 DEF Stands, Grows
  <1>5. ASSUME NEW c \in CountedCandidates, seen.finalized
        PROVE  /\ tally'.finalized
               /\ seen.votes[c] = Cardinality(BallotsFor(c)') + Cardinality(DirectFor(c)')
    <2>1. /\ tally.finalized
          /\ seen.votes[c] = Cardinality(BallotsFor(c)) + Cardinality(DirectFor(c))
      BY <1>5 DEF Stands
    <2>2. tally' = tally /\ BallotsFor(c)' = BallotsFor(c) /\ DirectFor(c)' = DirectFor(c)
      BY <1>2, <2>1 DEF BallotsFor, DirectFor
    <2>3. QED
      BY <2>1, <2>2
  <1>6. QED
    BY <1>4, <1>5 DEF Stands

\* Who has a ballot is on the roster, and the roster stays.
LEMMA NamesStep ==
  ASSUME AuditInv, [ChainNext]_chainVars, UNCHANGED report
  PROVE  NamesOfTheElected'
  <1> SUFFICES ASSUME report.command = "audit-tally", NEW c \in CountedCandidates,
                      report.votes[c] > Cardinality(DirectFor(c)')
               PROVE  /\ c < report.listed
                      /\ c < election'.candidateCount
                      /\ report.names[c] = election'.candidates[c]
    BY DEF NamesOfTheElected
  <1>d. report.votes[c] > Cardinality(DirectFor(c))
    <2>1. Cardinality(DirectFor(c)) <= Cardinality(DirectFor(c)')
      BY TotalInvStep DEF AuditInv, Grows
    <2>2. Cardinality(DirectFor(c)) \in Nat /\ Cardinality(DirectFor(c)') \in Nat
      BY TypeStep, EntriesAreFinite DEF AuditInv, DirectFor, TypeOK
    <2>3. report.votes[c] \in Nat
      BY DEF AuditInv, ReportInv, Stands
    <2>4. QED
      BY <2>1, <2>2, <2>3
  <1>1. nullifiers # {}
    BY <1>d DEF AuditInv, ReportInv, Stands, BallotsFor, CountInv, CountMatchesBallots
  <1>2. UNCHANGED <<election.candidates, election.candidateCount>>
    BY <1>1, ElectorateStep DEF AuditInv
  <1>3. QED
    BY <1>2, <1>d DEF AuditInv, ReportInv, NamesOfTheElected

LEMMA ChainInvStep ==
  ASSUME AuditInv, [ChainNext]_chainVars
  PROVE  (TypeOK /\ CountInv /\ OrderInv /\ TotalInv)'
  BY TypeStep, CountInvStep, OrderInvStep, TotalInvStep DEF AuditInv

\* Every entry of the history is a vote more in the total.
LEMMA VotesOnlyGrow ==
  ASSUME TypeOK, CountInv, [ChainNext]_chainVars
  PROVE  /\ tally.totalVotes \in Nat /\ tally'.totalVotes \in Nat
         /\ Len(direct) \in Nat /\ Len(direct') \in Nat
         /\ tally.totalVotes <= tally'.totalVotes
         /\ Len(direct) <= Len(direct')
         /\ tally.totalVotes + Len(direct') <= tally'.totalVotes + Len(direct)
  <1>1. tally.totalVotes \in Nat /\ Len(direct) \in Nat
    BY DirectFinite DEF TypeOK, TallyTypeOK
  <1>2. CASE TallySetup
    <2>1. ballots = << >> /\ direct = << >> /\ direct' = direct
      BY <1>2 DEF TallySetup, InitTally, CountInv
    <2>2. Cardinality(DOMAIN ballots) = 0 /\ Len(direct) = 0
      BY <2>1, FS_EmptySet
    <2>3. tally.totalVotes = 0
      BY <2>2 DEF CountInv, CountMatchesBallots
    <2>4. QED
      BY <1>2, <2>1, <2>2, <2>3 DEF TallySetup, InitTally, ZeroTally
  <1>3. CASE TallyFinalisation
    BY <1>1, <1>3 DEF TallyFinalisation, FinaliseTally, TypeOK, TallyTypeOK
  <1>4. ASSUME NEW auth \in HonestBallots, NEW index \in 0..MaxLeaves,
               NEW candidate \in CandidateIds, NEW state \in StateIds,
               CastStep(auth, index, candidate, state)
        PROVE  tally'.totalVotes = tally.totalVotes + 1 /\ direct' = direct
    BY <1>1, <1>4 DEF CastStep, Cast, AccumulateVotes, TypeOK, TallyTypeOK
  <1>5. ASSUME NEW candidate \in SentCandidates, NEW state \in StateIds,
               DirectStep(candidate, state)
        PROVE  /\ tally'.totalVotes = tally.totalVotes + 1
               /\ Len(direct') = Len(direct) + 1
    <2>1. /\ tally'.totalVotes = tally.totalVotes + 1
          /\ direct' = Append(direct, Shard(candidate, state))
          /\ Shard(candidate, state) \in Shards
      BY <1>5, DirectStepEffect
    <2>2. QED
      BY <2>1, DirectAppended DEF TypeOK
  <1>6. CASE UNCHANGED <<tally, direct>>
    BY <1>1, <1>6
  <1>7. QED
    BY <1>1, <1>2, <1>3, <1>4, <1>5, <1>6
    DEF ChainNext, chainVars, ElectionStep, RegistrySetup, RegisterStep

-----------------------------------------------------------------------------
(* The commands *)

LEMMA ChainKeepsReports ==
  ASSUME AuditInv, [ChainNext]_chainVars, UNCHANGED <<foreign, audit, report>>
  PROVE  AuditInv'
  <1>1. /\ audit.command = "audit-tally" => Stands(audit)'
        /\ report.command = "audit-tally" => Stands(report)'
    BY StandsStep DEF AuditInv, ReportInv, Stands
  <1>2. NullifierInv'
    <2>1. /\ tally.totalVotes \in Nat /\ tally'.totalVotes \in Nat
          /\ Len(direct) \in Nat /\ Len(direct') \in Nat
          /\ tally.totalVotes <= tally'.totalVotes
          /\ Len(direct) <= Len(direct')
          /\ tally.totalVotes + Len(direct') <= tally'.totalVotes + Len(direct)
      BY VotesOnlyGrow DEF AuditInv
    <2>2. NullifierInv
      BY DEF AuditInv, ReportInv
    <2>3. audit.command = "check-nullifiers" =>
            audit.total \in Nat /\ audit.total <= tally'.totalVotes
      BY <2>1, <2>2 DEF NullifierInv
    <2>4. report.command = "check-nullifiers" =>
            /\ report.total <= report.marked + Len(direct')
            /\ report.marked + Len(direct') <= tally'.totalVotes + foreign
      <3>1. foreign \in Nat
        BY <2>2 DEF NullifierInv
      <3>2. CASE report.command = "check-nullifiers"
        <4> DEFINE total == report.total  marked == report.marked
                   votes == tally.totalVotes  votes1 == tally'.totalVotes
                   sent == Len(direct)  sent1 == Len(direct')
        <4>1. /\ total \in Nat /\ marked \in Nat
              /\ total <= marked + sent /\ marked + sent <= votes + foreign
          BY <2>2, <3>2 DEF NullifierInv
        <4>2. /\ votes \in Nat /\ votes1 \in Nat /\ sent \in Nat /\ sent1 \in Nat
              /\ sent <= sent1 /\ votes + sent1 <= votes1 + sent
          BY <2>1
        <4> HIDE DEF total, marked, votes, votes1, sent, sent1
        <4>3. total <= marked + sent1
          BY <4>1, <4>2
        <4>4. marked + sent1 <= votes1 + foreign
          BY <3>1, <4>1, <4>2
        <4>5. QED
          BY <4>3, <4>4 DEF total, marked, votes, votes1, sent, sent1
      <3>3. QED
        BY <3>2
    <2>5. QED
      BY <2>2, <2>3, <2>4 DEF NullifierInv
  <1>3. QED
    BY <1>1, <1>2, NamesStep, ChainInvStep DEF AuditInv, ReportInv, Stands

LEMMA CommandKeepsChain ==
  ASSUME AuditInv, UNCHANGED chainVars
  PROVE  /\ (TypeOK /\ CountInv /\ OrderInv /\ TotalInv)'
         /\ \A seen : Stands(seen) => Stands(seen)'
         /\ UNCHANGED report => NamesOfTheElected'
  BY ChainInvStep, StandsStep, NamesStep DEF Stands

LEMMA ReadTallyStep ==
  ASSUME AuditInv, ReadTally
  PROVE  AuditInv'
  <1>1. \A c \in CountedCandidates :
          /\ CandidateTotal(c) = Cardinality(BallotsFor(c)) + Cardinality(DirectFor(c))
          /\ Cardinality(BallotsFor(c)) \in Nat /\ Cardinality(DirectFor(c)) \in Nat
          /\ BallotsFor(c) = {} => Cardinality(BallotsFor(c)) = 0
    BY CountsAreNumbers, FS_EmptySet DEF AuditInv, TotalInv
  <1>2. audit'.command = "audit-tally" /\ audit'.finalized = tally.finalized
    BY DEF ReadTally
  <1>3. \A c \in CountedCandidates : audit'.votes[c] = CandidateTotal(c)
    BY DEF ReadTally
  <1>4. UNCHANGED <<chainVars, foreign, report>>
    BY DEF ReadTally
  <1>5. Stands(audit)'
    <2>1. /\ \A c : BallotsFor(c)' = BallotsFor(c) /\ DirectFor(c)' = DirectFor(c)
          /\ tally' = tally
      BY <1>4 DEF BallotsFor, DirectFor, chainVars
    <2>2. QED
      BY <1>1, <1>2, <1>3, <2>1 DEF Stands
  <1>6. NullifierInv'
    BY <1>2, <1>4 DEF AuditInv, ReportInv, NullifierInv, chainVars
  <1>7. QED
    BY <1>4, <1>5, <1>6, CommandKeepsChain DEF AuditInv, ReportInv, Stands

LEMMA PrintTallyStep ==
  ASSUME AuditInv, PrintTally
  PROVE  AuditInv'
  <1>1. /\ audit.command = "audit-tally" /\ Stands(audit)
        /\ UNCHANGED <<chainVars, foreign>> /\ audit' = Idle
    BY DEF PrintTally, AuditInv, ReportInv
  <1>2. /\ report'.command = "audit-tally"
        /\ report'.votes = audit.votes /\ report'.finalized = audit.finalized
        /\ report'.listed = election.candidateCount
        /\ report'.names = election.candidates
    BY DEF PrintTally
  <1>3. Stands(report)'
    BY <1>1, <1>2 DEF Stands, BallotsFor, DirectFor, chainVars
  <1>4. NamesOfTheElected'
    <2>1. ASSUME NEW c \in CountedCandidates, BallotsFor(c) # {}
          PROVE  c < election.candidateCount
      BY <2>1 DEF AuditInv, OrderInv, BallotInv, BallotsInOrder, BallotsFor
    <2>2. UNCHANGED <<election, direct>> /\ \A c : DirectFor(c)' = DirectFor(c)
      BY <1>1 DEF chainVars, DirectFor
    <2>3. QED
      BY <1>1, <1>2, <2>1, <2>2 DEF Stands, NamesOfTheElected
  <1>5. NullifierInv'
    BY <1>1, <1>2 DEF AuditInv, ReportInv, NullifierInv, Idle, chainVars
  <1>6. audit'.command # "audit-tally"
    BY <1>1 DEF Idle
  <1>7. QED
    BY <1>1, <1>3, <1>4, <1>5, <1>6, CommandKeepsChain
    DEF AuditInv, ReportInv, Stands, chainVars

LEMMA PrintNullifiersStep ==
  ASSUME AuditInv, PrintNullifiers
  PROVE  AuditInv'
  <1>1. /\ audit.command = "check-nullifiers" /\ audit.total \in Nat
        /\ audit.total <= tally.totalVotes
        /\ UNCHANGED <<chainVars, foreign>> /\ audit' = Idle
    BY DEF PrintNullifiers, AuditInv, ReportInv, NullifierInv
  <1>2. /\ report'.command = "check-nullifiers"
        /\ report'.total = audit.total
        /\ report'.marked = Cardinality(nullifiers) + foreign
    BY DEF PrintNullifiers, MarkedAccounts
  <1>3. /\ foreign \in Nat /\ Len(direct) \in Nat /\ Cardinality(nullifiers) \in Nat
        /\ tally.totalVotes = Cardinality(nullifiers) + Len(direct)
    BY DirectFinite, FS_CardinalityType
    DEF AuditInv, ReportInv, NullifierInv, TypeOK, CountInv, CountMatchesBallots
  <1>4. NullifierInv'
    BY <1>1, <1>2, <1>3 DEF NullifierInv, Idle, chainVars
  <1>5. QED
    BY <1>1, <1>2, <1>4, CommandKeepsChain
    DEF AuditInv, ReportInv, NamesOfTheElected, Idle

LEMMA OtherStep ==
  ASSUME AuditInv,
         \/ VoteElsewhere \/ RebuildTally \/ ReadTotal
         \/ ReadHeader \/ PrintRoot \/ AuditFails
  PROVE  AuditInv'
  <1>1. UNCHANGED chainVars
    BY DEF VoteElsewhere, RebuildTally, ReadTotal, ReadHeader, PrintRoot, AuditFails
  <1>2. /\ audit'.command = "audit-tally" => audit' = audit
        /\ report'.command = "audit-tally" => report' = report
    BY DEF VoteElsewhere, RebuildTally, ReadTotal, ReadHeader, PrintRoot, AuditFails, Idle
  <1>3. foreign' \in Nat /\ foreign <= foreign'
    BY DEF VoteElsewhere, RebuildTally, ReadTotal, ReadHeader, PrintRoot, AuditFails,
           AuditInv, ReportInv, NullifierInv
  <1>4. audit'.command = "check-nullifiers" =>
          audit'.total \in Nat /\ audit'.total <= tally.totalVotes
    BY DEF VoteElsewhere, RebuildTally, ReadTotal, ReadHeader, PrintRoot, AuditFails,
           Idle, AuditInv, ReportInv, NullifierInv, TypeOK, TallyTypeOK
  <1>5. report'.command = "check-nullifiers" => report' = report
    BY DEF VoteElsewhere, RebuildTally, ReadTotal, ReadHeader, PrintRoot, AuditFails
  <1>6. NullifierInv'
    BY <1>1, <1>3, <1>4, <1>5
    DEF AuditInv, ReportInv, NullifierInv, TypeOK, TallyTypeOK, chainVars
  <1>7. NamesOfTheElected'
    <2>1. UNCHANGED election /\ \A c : DirectFor(c)' = DirectFor(c)
      BY <1>1 DEF chainVars, DirectFor
    <2>2. QED
      BY <1>2, <2>1 DEF AuditInv, ReportInv, NamesOfTheElected
  <1>8. QED
    BY <1>1, <1>2, <1>6, <1>7, CommandKeepsChain DEF AuditInv, ReportInv

LEMMA AuditInvStep == AuditInv /\ [AuditNext]_auditVars => AuditInv'
  <1> SUFFICES ASSUME AuditInv, [AuditNext]_auditVars PROVE AuditInv'
    OBVIOUS
  <1>1. CASE ChainStep
    BY <1>1, ChainKeepsReports DEF ChainStep
  <1>2. CASE UNCHANGED auditVars
    BY <1>2, ChainKeepsReports DEF auditVars, chainVars
  <1>3. QED
    BY <1>1, <1>2, ReadTallyStep, PrintTallyStep, PrintNullifiersStep, OtherStep
    DEF AuditNext

-----------------------------------------------------------------------------
(* The sum of the candidates' totals *)

\* The ballot box only grows.
LEMMA BallotsOnlyGrow ==
  ASSUME CountInv, [ChainNext]_chainVars
  PROVE  /\ DOMAIN ballots \subseteq DOMAIN ballots'
         /\ \A n \in DOMAIN ballots : ballots'[n] = ballots[n]
  <1>1. ASSUME NEW auth \in HonestBallots, NEW index \in 0..MaxLeaves,
               NEW candidate \in CandidateIds, NEW state \in StateIds,
               CastStep(auth, index, candidate, state)
        PROVE  /\ DOMAIN ballots \subseteq DOMAIN ballots'
               /\ \A n \in DOMAIN ballots : ballots'[n] = ballots[n]
    BY <1>1 DEF CastStep, Cast
  <1>2. QED
    BY <1>1
    DEF ChainNext, chainVars, ElectionStep, RegistrySetup, RegisterStep, DirectStep,
        TallySetup, TallyFinalisation

\* What one read of the tally shows, if nothing is counted without a ballot, is
\* the count of a part of the ballots, those that had been cast.
PartCounted(seen) ==
    \E part \in SUBSET DOMAIN ballots :
       /\ seen.total = Cardinality(part)
       /\ \A c \in CountedCandidates :
             seen.votes[c] = Cardinality({n \in part : ballots[n].candidate = c})

SumInv ==
    /\ audit.command = "audit-tally" /\ direct = << >> => PartCounted(audit)
    /\ AuditWarnsForCause

\* What has been sent without a ballot is not taken back.
LEMMA DirectOnlyGrows ==
  ASSUME TypeOK, CountInv, [ChainNext]_chainVars, direct' = << >>
  PROVE  direct = << >>
  <1>1. Len(direct) <= Len(direct') /\ Len(direct) \in Nat /\ Len(direct') = 0
    BY VotesOnlyGrow
  <1>2. QED
    BY <1>1 DEF TypeOK

\* Ballots are neither removed nor changed.
LEMMA PartCountedStep ==
  ASSUME NEW seen, CountInv, [ChainNext]_chainVars, PartCounted(seen)
  PROVE  PartCounted(seen)'
  <1>1. PICK part \in SUBSET DOMAIN ballots :
          /\ seen.total = Cardinality(part)
          /\ \A c \in CountedCandidates :
               seen.votes[c] = Cardinality({n \in part : ballots[n].candidate = c})
    BY DEF PartCounted
  <1>2. part \in SUBSET DOMAIN ballots'
    BY BallotsOnlyGrow
  <1>3. ASSUME NEW c \in CountedCandidates
        PROVE  {n \in part : ballots'[n].candidate = c}
                 = {n \in part : ballots[n].candidate = c}
    BY BallotsOnlyGrow
  <1>4. QED
    BY <1>1, <1>2, <1>3 DEF PartCounted

\* At the moment of the read, the part is all of them.
LEMMA ReadsAPart ==
  ASSUME AuditInv, direct = << >>, ReadTally
  PROVE  PartCounted(audit)'
  <1> DEFINE part == DOMAIN ballots
  <1>e. /\ Len(direct) = 0 /\ \A c : DirectFor(c) = {}
        /\ Cardinality({}) = 0
    BY FS_EmptySet DEF DirectFor
  <1>1. audit'.total = Cardinality(part)
    <2>1. Cardinality(part) \in Nat
      BY FS_CardinalityType DEF AuditInv, CountInv
    <2>2. QED
      BY <1>e, <2>1 DEF ReadTally, AuditInv, CountInv, CountMatchesBallots
  <1>2. ASSUME NEW c \in CountedCandidates
        PROVE  audit'.votes[c] = Cardinality({n \in part : ballots[n].candidate = c})
    <2>1. Cardinality(BallotsFor(c)) \in Nat
      BY CountsAreNumbers DEF AuditInv
    <2>2. CandidateTotal(c) = Cardinality(BallotsFor(c))
      BY <1>e, <2>1 DEF AuditInv, TotalInv
    <2>3. QED
      BY <2>2 DEF ReadTally, BallotsFor
  <1>3. ballots' = ballots
    BY DEF ReadTally, chainVars
  <1>4. QED
    BY <1>1, <1>2, <1>3 DEF PartCounted

\* The sum over the roster misses none of them: every ballot names a candidate
\* of the roster that is read afterwards.
LEMMA SumOfPart ==
  ASSUME NEW seen, AuditInv, PartCounted(seen)
  PROVE  SumOfCandidates(seen.votes, election.candidateCount) = seen.total
  <1> DEFINE S == 0..(election.candidateCount - 1)
  <1>1. IsFiniteSet(S) /\ S \subseteq CountedCandidates
    <2>1. election.candidateCount \in 0..MAX_CANDIDATES
      BY DEF AuditInv, TypeOK, ElectionTypeOK, ElectionAccount
    <2>2. election.candidateCount \in Int
          /\ election.candidateCount <= COUNTERS_LEN \div CANDIDATE_SHARDS
      BY <2>1, RosterAssumption, ElectionAssumption, CountersAssumption
      DEF CANDIDATE_SHARDS
    <2>3. IsFiniteSet(S)
      BY <2>2, FS_Interval
    <2>4. S \subseteq CountedCandidates
      BY <2>2, CountersAssumption DEF CountedCandidates, CANDIDATE_SHARDS
    <2>5. QED
      BY <2>3, <2>4
  <1>2. PICK part \in SUBSET DOMAIN ballots :
          /\ seen.total = Cardinality(part)
          /\ \A c \in CountedCandidates :
               seen.votes[c] = Cardinality({n \in part : ballots[n].candidate = c})
    BY DEF PartCounted
  <1> DEFINE choice == [n \in part |-> ballots[n].candidate]
             sum == CHOOSE g : IsSum(g, seen.votes, SUBSET S)
  <1>3. IsSum(sum, seen.votes, SUBSET S)
    BY <1>1, SumExists
  <1>4. SumOfCandidates(seen.votes, election.candidateCount) = sum[S]
    BY DEF SumOfCandidates, MapThenSumSet, MapThenFoldSet, IsSum, Chosen
  <1>5. ASSUME NEW c \in S
        PROVE  seen.votes[c] = Cardinality(Fibre(choice, part, c))
    <2>1. {n \in part : ballots[n].candidate = c} = Fibre(choice, part, c)
      BY DEF Fibre
    <2>2. QED
      BY <1>1, <1>2, <2>1
  <1>6. IsFiniteSet(part)
    BY FS_Subset DEF AuditInv, CountInv
  <1>7. \A n \in part : choice[n] \in S
    BY DEF AuditInv, OrderInv, BallotInv, BallotsInOrder, TypeOK, BallotTypeOK,
           BallotRecord, ElectionTypeOK, ElectionAccount
  <1> HIDE DEF S, choice, sum
  <1>8. sum[S] = Cardinality(Preimage(choice, part, S))
    BY <1>1, <1>3, <1>5, <1>6, SumOfFibres
  <1>9. Preimage(choice, part, S) = part
    BY <1>7 DEF Preimage
  <1>10. QED
    BY <1>2, <1>4, <1>8, <1>9

LEMMA SumInvInit == AuditInit => SumInv
  BY DEF AuditInit, SumInv, AuditWarnsForCause, Idle

LEMMA SumInvStep ==
  AuditInv /\ SumInv /\ [AuditNext]_auditVars => SumInv'
  <1> SUFFICES ASSUME AuditInv, SumInv, [AuditNext]_auditVars
               PROVE  SumInv'
    OBVIOUS
  <1>1. ASSUME [ChainNext]_chainVars, UNCHANGED <<audit, report>>
        PROVE  SumInv'
    <2>1. direct' = << >> => direct = << >>
      BY <1>1, DirectOnlyGrows DEF AuditInv
    <2>2. audit.command = "audit-tally" /\ direct' = << >> => PartCounted(audit)'
      BY <1>1, <2>1, PartCountedStep DEF AuditInv, SumInv, PartCounted
    <2>3. QED
      BY <1>1, <2>1, <2>2 DEF SumInv, AuditWarnsForCause, PartCounted
  <1>2. CASE ReadTally
    <2>1. direct' = direct /\ report' = report
      BY <1>2 DEF ReadTally, chainVars
    <2>2. direct = << >> => PartCounted(audit)'
      BY <1>2, ReadsAPart
    <2>3. QED
      BY <2>1, <2>2 DEF SumInv, AuditWarnsForCause
  <1>3. CASE PrintTally
    <2>1. audit'.command # "audit-tally" /\ direct' = direct
      BY <1>3 DEF PrintTally, Idle, chainVars
    <2>2. direct = << >> => report'.warning = FALSE
      BY <1>3, SumOfPart DEF PrintTally, SumInv
    <2>3. QED
      BY <2>1, <2>2 DEF SumInv, AuditWarnsForCause
  <1>4. CASE \/ VoteElsewhere \/ RebuildTally \/ ReadTotal \/ PrintNullifiers
             \/ ReadHeader \/ PrintRoot \/ AuditFails
    <2>1. /\ audit'.command = "audit-tally" => audit' = audit
          /\ report'.command = "audit-tally" => report' = report
          /\ UNCHANGED <<ballots, direct>>
      BY <1>4 DEF VoteElsewhere, RebuildTally, ReadTotal, PrintNullifiers, ReadHeader,
                  PrintRoot, AuditFails, Idle, chainVars
    <2>2. QED
      BY <2>1 DEF SumInv, AuditWarnsForCause, PartCounted
  <1>5. QED
    BY <1>1, <1>2, <1>3, <1>4 DEF AuditNext, ChainStep, auditVars, chainVars

-----------------------------------------------------------------------------
(* The root *)

\* A sequence of n indices in ascending order.
Ascending(at, n) ==
    /\ at \in [1..n -> 0..(n - 1)]
    /\ \A j, k \in DOMAIN at : j < k => at[j] < at[k]

\* An ascending sequence of n numbers below n skips none: there are k - 1
\* numbers before the k-th, and n - k after it.
LEMMA AscendingSkipsNone ==
  ASSUME NEW n \in Nat, NEW at, Ascending(at, n), NEW k \in 1..n
  PROVE  at[k] = k - 1
  <1> DEFINE Low == {i \in Nat : i + 1 \in 1..n => at[i + 1] >= i}
             High == {i \in Nat : n - i \in 1..n => at[n - i] <= n - i - 1}
  <1>1. 0 \in Low
    BY DEF Ascending
  <1>2. ASSUME NEW i \in Nat, i \in Low
        PROVE  i + 1 \in Low
    <2>1. SUFFICES ASSUME i + 2 \in 1..n PROVE at[i + 2] >= i + 1
      OBVIOUS
    <2>2. i + 1 \in 1..n /\ at[i + 1] >= i
      BY <1>2, <2>1
    <2>3. at[i + 1] < at[i + 2] /\ at[i + 1] \in Int /\ at[i + 2] \in Int
      BY <2>1, <2>2 DEF Ascending
    <2>4. QED
      BY <2>2, <2>3
  <1>3. 0 \in High
    BY DEF Ascending
  <1>4. ASSUME NEW i \in Nat, i \in High
        PROVE  i + 1 \in High
    <2>1. SUFFICES ASSUME n - (i + 1) \in 1..n
                   PROVE  at[n - (i + 1)] <= n - (i + 1) - 1
      OBVIOUS
    <2>2. n - i \in 1..n /\ at[n - i] <= n - i - 1
      BY <1>4, <2>1
    <2>3. at[n - (i + 1)] < at[n - i] /\ at[n - i] \in Int /\ at[n - (i + 1)] \in Int
      BY <2>1, <2>2 DEF Ascending
    <2>4. QED
      BY <2>2, <2>3
  <1>5. Nat \subseteq Low /\ Nat \subseteq High
    <2> HIDE DEF Low, High
    <2>1. QED
      BY <1>1, <1>2, <1>3, <1>4, NatInductionSet
  <1>6. k - 1 \in Low /\ n - k \in High
    BY <1>5
  <1>7. at[k] >= k - 1 /\ at[k] <= k - 1 /\ at[k] \in Int
    BY <1>6 DEF Ascending
  <1>8. QED
    BY <1>7

\* The leaves are contiguous, so that sorting them by their index gives the
\* log itself.
LEMMA RebuiltRootIsTheLog ==
  ASSUME TypeOK, RegistryInv
  PROVE  /\ RebuiltRoot \in Seq(Commitments)
         /\ Len(RebuiltRoot) = registry.leafCount
         /\ \A k \in 1..registry.leafCount : RebuiltRoot[k] = leaf[k - 1]
  <1> DEFINE n == registry.leafCount
             in == CHOOSE at \in [1..Cardinality(DOMAIN leaf) -> DOMAIN leaf] :
                     \A j, k \in DOMAIN at : j < k => at[j] < at[k]
  <1>1. n \in Nat /\ DOMAIN leaf = 0..(n - 1)
    BY DEF TypeOK, RegistryTypeOK, RegistryInv, LeavesContiguous
  <1>2. Cardinality(DOMAIN leaf) = n
    BY <1>1, FS_Interval
  <1>3. RebuiltRoot = [k \in DOMAIN in |-> leaf[in[k]]]
    BY DEF RebuiltRoot
  <1>4. Ascending(in, n)
    <2>1. Ascending([k \in 1..n |-> k - 1], n)
      BY <1>1 DEF Ascending
    <2>2. \E at \in [1..Cardinality(DOMAIN leaf) -> DOMAIN leaf] :
            \A j, k \in DOMAIN at : j < k => at[j] < at[k]
      BY <1>1, <1>2, <2>1 DEF Ascending
    <2>3. /\ in \in [1..Cardinality(DOMAIN leaf) -> DOMAIN leaf]
          /\ \A j, k \in DOMAIN in : j < k => in[j] < in[k]
      BY <2>2
    <2> HIDE DEF in
    <2>4. QED
      BY <1>1, <1>2, <2>3 DEF Ascending
  <1> HIDE DEF in
  <1>5. DOMAIN in = 1..n /\ \A k \in 1..n : in[k] = k - 1
    BY <1>1, <1>4, AscendingSkipsNone DEF Ascending
  <1>6. RebuiltRoot = [k \in 1..n |-> leaf[k - 1]]
    BY <1>3, <1>5
  <1>7. \A k \in 1..n : leaf[k - 1] \in Commitments
    BY <1>1 DEF TypeOK, RegistryTypeOK
  <1>8. QED
    BY <1>1, <1>6, <1>7, SMTT(30)

\* What the header said stays a lower bound of the log, and what has been
\* printed a beginning of it.
RootInv ==
    /\ audit.command = "rebuild-merkle" =>
         audit.count \in Nat /\ audit.count <= registry.leafCount
    /\ report.command = "rebuild-merkle" =>
         /\ report.count \in Nat
         /\ report.root \in Seq(Commitments)
         /\ report.count <= Len(report.root)
         /\ Len(report.root) <= registry.leafCount
         /\ \A k \in 1..Len(report.root) : report.root[k] = leaf[k - 1]

LEMMA RootInvInit == AuditInit => RootInv
  BY DEF AuditInit, RootInv, Idle

LEMMA LeavesOnlyGrow ==
  ASSUME TypeOK, RegistryInv, [ChainNext]_chainVars
  PROVE  /\ registry'.leafCount \in Nat
         /\ registry.leafCount <= registry'.leafCount
         /\ \A i \in DOMAIN leaf : leaf'[i] = leaf[i]
  <1>1. registry.leafCount \in Nat
    BY DEF TypeOK, RegistryTypeOK
  <1>2. CASE RegistrySetup
    BY <1>1, <1>2 DEF RegistrySetup, InitVoterRegistry, RegistryInv
  <1>3. ASSUME NEW at \in 0..MaxLeaves, NEW c \in Commitments, RegisterStep(at, c)
        PROVE  /\ registry'.leafCount = registry.leafCount + 1
               /\ \A i \in DOMAIN leaf : leaf'[i] = leaf[i]
    BY <1>3 DEF RegisterStep, InsertCommitment, TypeOK, RegistryTypeOK
  <1>4. CASE UNCHANGED <<registry, leaf>>
    BY <1>1, <1>4
  <1>5. QED
    BY <1>1, <1>2, <1>3, <1>4
    DEF ChainNext, chainVars, ElectionStep, CastStep, DirectStep, TallySetup,
        TallyFinalisation

LEMMA RootInvStep ==
  TypeOK /\ RegistryInv /\ RootInv /\ [AuditNext]_auditVars => RootInv'
  <1> SUFFICES ASSUME TypeOK, RegistryInv, RootInv, [AuditNext]_auditVars
               PROVE  RootInv'
    OBVIOUS
  <1>1. registry.leafCount \in Nat /\ DOMAIN leaf = 0..(registry.leafCount - 1)
    BY DEF TypeOK, RegistryTypeOK, RegistryInv, LeavesContiguous
  <1>2. ASSUME [ChainNext]_chainVars, UNCHANGED <<audit, report>>
        PROVE  RootInv'
    <2>1. /\ registry'.leafCount \in Nat
          /\ registry.leafCount <= registry'.leafCount
          /\ \A i \in DOMAIN leaf : leaf'[i] = leaf[i]
      BY <1>2, LeavesOnlyGrow
    <2>2. report.command = "rebuild-merkle" =>
            \A k \in 1..Len(report.root) : report.root[k] = leaf'[k - 1]
      BY <1>1, <2>1 DEF RootInv
    <2>3. report.command = "rebuild-merkle" => Len(report.root) \in Nat
      BY DEF RootInv
    <2>4. QED
      BY <1>1, <1>2, <2>1, <2>2, <2>3 DEF RootInv
  <1>3. CASE ReadHeader
    BY <1>1, <1>3 DEF ReadHeader, RootInv, chainVars
  <1>4. CASE PrintRoot
    <2>1. /\ audit'.command # "rebuild-merkle"
          /\ report'.root = RebuiltRoot /\ report'.count = audit.count
          /\ UNCHANGED chainVars /\ audit.command = "rebuild-merkle"
      BY <1>4 DEF PrintRoot, Idle
    <2>2. audit.count \in Nat /\ audit.count <= registry.leafCount
      BY <2>1 DEF RootInv
    <2>3. /\ RebuiltRoot \in Seq(Commitments)
          /\ Len(RebuiltRoot) = registry.leafCount
          /\ \A k \in 1..registry.leafCount : RebuiltRoot[k] = leaf[k - 1]
      BY RebuiltRootIsTheLog
    <2>4. UNCHANGED <<registry, leaf>>
      BY <2>1 DEF chainVars
    <2>5. QED
      BY <1>1, <2>1, <2>2, <2>3, <2>4 DEF RootInv
  <1>5. CASE \/ VoteElsewhere \/ ReadTally \/ PrintTally \/ RebuildTally \/ ReadTotal
             \/ PrintNullifiers \/ AuditFails
    <2>1. /\ audit'.command = "rebuild-merkle" => audit' = audit
          /\ report'.command = "rebuild-merkle" => report' = report
          /\ UNCHANGED <<registry, leaf>>
      BY <1>5 DEF VoteElsewhere, ReadTally, PrintTally, RebuildTally, ReadTotal,
                  PrintNullifiers, AuditFails, Idle, chainVars
    <2>2. QED
      BY <2>1 DEF RootInv
  <1>6. QED
    BY <1>2, <1>3, <1>4, <1>5 DEF AuditNext, ChainStep, auditVars, chainVars

\* The audit client takes no part in the election: apart from its own
\* variables, its steps are steps of the chain.
LEMMA AuditRunsChain ==
  /\ AuditInit => ChainInit
  /\ [AuditNext]_auditVars => [ChainNext]_chainVars
  <1>1. AuditNext => [ChainNext]_chainVars
    BY DEF AuditNext, ChainStep, VoteElsewhere, ReadTally, PrintTally, RebuildTally,
           ReadTotal, PrintNullifiers, ReadHeader, PrintRoot, AuditFails, chainVars
  <1>2. QED
    BY <1>1 DEF AuditInit, auditVars, chainVars

-----------------------------------------------------------------------------
(* Types *)

LEMMA TotalsAreNumbers ==
  ASSUME TypeOK, CountInv, TotalInv
  PROVE  /\ tally.totalVotes \in Nat /\ tally.finalized \in BOOLEAN
         /\ \A c \in CountedCandidates :
              Cardinality(BallotsFor(c)) \in Nat /\ CandidateTotal(c) \in Nat
         /\ Cardinality(UNION {BallotsFor(c) : c \in CountedCandidates}) \in Nat
  <1>1. \A c \in CountedCandidates :
          Cardinality(BallotsFor(c)) \in Nat /\ Cardinality(DirectFor(c)) \in Nat
    BY CountsAreNumbers
  <1>2. Cardinality(UNION {BallotsFor(c) : c \in CountedCandidates}) \in Nat
    <2> DEFINE all == UNION {BallotsFor(c) : c \in CountedCandidates}
    <2>1. all \subseteq DOMAIN ballots
      BY DEF BallotsFor
    <2> HIDE DEF all
    <2>2. QED
      BY <2>1, FS_Subset, FS_CardinalityType DEF CountInv, all
  <1>3. QED
    BY <1>1, <1>2 DEF TypeOK, TallyTypeOK, TotalInv

AuditReports == TallyReports \cup RebuiltReports \cup NullifierReports \cup MerkleReports

LEMMA AuditTypeSplits ==
  AuditTypeOK <=> /\ TypeOK /\ foreign \in 0..MaxForeign
                  /\ audit \in Underway \cup {Idle}
                  /\ report \in AuditReports \cup {Idle}
  BY DEF AuditTypeOK, AuditReports, TallyReports, RebuiltReports, NullifierReports,
         MerkleReports, Idle

LEMMA AuditReadType ==
  ASSUME AuditTypeOK, AuditInv, ReadTally \/ ReadTotal \/ ReadHeader
  PROVE  audit' \in Underway
  <1>1. CASE ReadTally
    <2> DEFINE votes == [c \in CountedCandidates |-> CandidateTotal(c)]
    <2>1. votes \in [CountedCandidates -> Nat]
      BY TotalsAreNumbers DEF AuditInv
    <2>2. tally.totalVotes \in Nat /\ tally.finalized \in BOOLEAN
      BY TotalsAreNumbers DEF AuditInv
    <2>3. audit' = [command |-> "audit-tally", finalized |-> tally.finalized,
                    total |-> tally.totalVotes, votes |-> votes]
      BY <1>1 DEF ReadTally
    <2> HIDE DEF votes
    <2>4. QED
      BY <2>1, <2>2, <2>3 DEF Underway
  <1>2. CASE ReadTotal
    BY <1>2, TotalsAreNumbers DEF ReadTotal, AuditInv, Underway
  <1>3. CASE ReadHeader
    BY <1>3 DEF ReadHeader, Underway, AuditInv, TypeOK, RegistryTypeOK
  <1>4. QED
    BY <1>1, <1>2, <1>3

LEMMA AuditPrintType ==
  ASSUME AuditTypeOK, AuditInv, RegistryInv,
         PrintTally \/ RebuildTally \/ PrintNullifiers \/ PrintRoot
  PROVE  report' \in AuditReports
  <1>1. CASE PrintTally
    <2> DEFINE warning == SumOfCandidates(audit.votes, election.candidateCount) # audit.total
    <2>1. /\ audit.finalized \in BOOLEAN /\ audit.total \in Nat
          /\ audit.votes \in [CountedCandidates -> Nat]
      BY <1>1 DEF PrintTally, AuditTypeOK, Underway, Idle
    <2>2. /\ election.candidateCount \in 0..MAX_CANDIDATES
          /\ election.candidates \in [CandidateIds -> Names \cup {Blank}]
      BY DEF AuditInv, TypeOK, ElectionTypeOK, ElectionAccount
    <2>3. warning \in BOOLEAN
      OBVIOUS
    <2>4. report' = [command |-> "audit-tally", finalized |-> audit.finalized,
                     total |-> audit.total, votes |-> audit.votes,
                     listed |-> election.candidateCount, names |-> election.candidates,
                     warning |-> warning]
      BY <1>1 DEF PrintTally
    <2> HIDE DEF warning
    <2>5. report' \in TallyReports
      BY <2>1, <2>2, <2>3, <2>4 DEF TallyReports
    <2>6. QED
      BY <2>5 DEF AuditReports
  <1>2. CASE RebuildTally
    <2> DEFINE all == Cardinality(UNION {BallotsFor(c) : c \in CountedCandidates})
               votes == [c \in CountedCandidates |-> Cardinality(BallotsFor(c))]
    <2>1. all \in Nat /\ votes \in [CountedCandidates -> Nat]
      BY TotalsAreNumbers DEF AuditInv
    <2>2. report' = [command |-> "rebuild-tally", total |-> all, votes |-> votes]
      BY <1>2 DEF RebuildTally
    <2> HIDE DEF all, votes
    <2>3. report' \in RebuiltReports
      BY <2>1, <2>2 DEF RebuiltReports
    <2>4. QED
      BY <2>3 DEF AuditReports
  <1>3. CASE PrintNullifiers
    <2>1. audit.total \in Nat /\ MarkedAccounts \in Nat
      BY <1>3, FS_CardinalityType
      DEF PrintNullifiers, AuditInv, ReportInv, NullifierInv, MarkedAccounts, CountInv,
          CountMatchesBallots
    <2>2. report' \in NullifierReports
      BY <1>3, <2>1 DEF PrintNullifiers, NullifierReports
    <2>3. QED
      BY <2>2 DEF AuditReports
  <1>4. CASE PrintRoot
    <2>1. audit.count \in Nat
      BY <1>4 DEF PrintRoot, AuditTypeOK, Underway, Idle
    <2>2. RebuiltRoot \in Seq(Commitments)
      BY RebuiltRootIsTheLog DEF AuditInv
    <2>3. report' \in MerkleReports
      BY <1>4, <2>1, <2>2 DEF PrintRoot, MerkleReports
    <2>4. QED
      BY <2>3 DEF AuditReports
  <1>5. QED
    BY <1>1, <1>2, <1>3, <1>4

LEMMA AuditTypeStep ==
  ASSUME AuditTypeOK, AuditInv, AuditInv', RegistryInv, [AuditNext]_auditVars
  PROVE  AuditTypeOK'
  <1>1. TypeOK'
    BY DEF AuditInv
  <1>2. foreign' \in 0..MaxForeign
    BY ForeignAssumption
    DEF AuditTypeOK, AuditNext, ChainStep, VoteElsewhere, ReadTally, PrintTally,
        RebuildTally, ReadTotal, PrintNullifiers, ReadHeader, PrintRoot, AuditFails,
        auditVars
  <1>3. audit' \in Underway \cup {Idle}
    <2>1. CASE ReadTally \/ ReadTotal \/ ReadHeader
      BY <2>1, AuditReadType
    <2>2. CASE audit' \in {audit, Idle}
      BY <2>2 DEF AuditTypeOK
    <2>3. QED
      BY <2>1, <2>2
      DEF AuditNext, ChainStep, VoteElsewhere, PrintTally, RebuildTally, PrintNullifiers,
          PrintRoot, AuditFails, auditVars
  <1>4. report' \in AuditReports \cup {Idle}
    <2>1. CASE PrintTally \/ RebuildTally \/ PrintNullifiers \/ PrintRoot
      BY <2>1, AuditPrintType
    <2>2. CASE report' = report
      BY <2>2, AuditTypeSplits
    <2>3. QED
      BY <2>1, <2>2
      DEF AuditNext, ChainStep, VoteElsewhere, ReadTally, ReadTotal, ReadHeader,
          AuditFails, auditVars
  <1>5. QED
    BY <1>1, <1>2, <1>3, <1>4
    DEF AuditTypeOK, AuditReports, TallyReports, RebuiltReports, NullifierReports,
        MerkleReports

-----------------------------------------------------------------------------
(* Theorems *)

\* What a command has read and what it has printed keep their shapes.
THEOREM AuditTypeCorrect == AuditSpec => []AuditTypeOK
  <1>1. AuditInit => AuditTypeOK
    BY TypeInit, ForeignAssumption DEF AuditInit, AuditTypeOK
  <1>2. AuditTypeOK /\ AuditInv /\ AuditInv' /\ RegistryInv /\ [AuditNext]_auditVars
          => AuditTypeOK'
    BY AuditTypeStep
  <1>3. QED
    BY <1>1, <1>2, AuditRunsChain, AuditInvInit, AuditInvStep, TypeInit, TypeStep,
       RegistryInvInit, RegistryInvStep, PTL DEF AuditSpec

\* The names printed next to votes are the names of those they were given to,
\* although the roster is read after the tally and may be edited before the
\* polls open.
THEOREM AuditNamesOfTheElected == AuditSpec => []NamesOfTheElected
  <1>1. AuditInv => NamesOfTheElected
    BY DEF AuditInv, ReportInv
  <1>2. QED
    BY <1>1, AuditInvInit, AuditInvStep, PTL DEF AuditSpec

\* A result printed as finalized is the number of ballots in the box and of
\* the accumulate_votes sent without one, whenever they are counted again.
THEOREM AuditFinalReportStands == AuditSpec => []FinalReportStands
  <1>1. AuditInv => FinalReportStands
    BY DEF AuditInv, ReportInv, Stands, FinalReportStands
  <1>2. QED
    BY <1>1, AuditInvInit, AuditInvStep, PTL DEF AuditSpec

\* check-nullifiers finds fewer nullifiers than votes only by the number of
\* accumulate_votes sent without a ballot, and by exactly that number where
\* nothing has been counted since and there is no other election.
THEOREM AuditNullifiersAccountForVotes == AuditSpec => []NullifiersAccountForVotes
  <1>1. AuditInv => NullifiersAccountForVotes
    <2> SUFFICES ASSUME AuditInv PROVE NullifiersAccountForVotes
      OBVIOUS
    <2>1. tally.totalVotes \in Nat /\ Len(direct) \in Nat
      BY DirectFinite DEF AuditInv, TypeOK, TallyTypeOK
    <2>2. QED
      BY <2>1 DEF AuditInv, ReportInv, NullifierInv, NullifiersAccountForVotes
  <1>2. QED
    BY <1>1, AuditInvInit, AuditInvStep, PTL DEF AuditSpec

\* Unless an accumulate_votes was sent without a ballot, audit-tally does not
\* warn: the totals that it read add up over the roster that it reads later, at
\* every size of either.
THEOREM AuditTotalsAddUp == AuditSpec => []AuditWarnsForCause
  <1>1. SumInv => AuditWarnsForCause
    BY DEF SumInv
  <1>2. QED
    BY <1>1, AuditInvInit, AuditInvStep, SumInvInit, SumInvStep, PTL DEF AuditSpec

\* rebuild-merkle rebuilds the root of a beginning of the log, and of no less
\* of it than the header had counted.
THEOREM AuditRootOfTheLog == AuditSpec => []RootOfTheLog
  <1>1. TypeOK /\ RegistryInv /\ RootInv => RootOfTheLog
    <2> SUFFICES ASSUME TypeOK, RegistryInv, RootInv, report.command = "rebuild-merkle"
                 PROVE  /\ \A k \in DOMAIN report.root :
                              k - 1 \in DOMAIN leaf /\ report.root[k] = leaf[k - 1]
                        /\ report.count <= Len(report.root)
                        /\ registry.leafCount = report.count =>
                             Len(report.root) = report.count
      BY DEF RootOfTheLog
    <2>1. registry.leafCount \in Nat /\ DOMAIN leaf = 0..(registry.leafCount - 1)
      BY DEF TypeOK, RegistryTypeOK, RegistryInv, LeavesContiguous
    <2>2. /\ report.count \in Nat /\ report.root \in Seq(Commitments)
          /\ report.count <= Len(report.root)
          /\ Len(report.root) <= registry.leafCount
          /\ \A k \in 1..Len(report.root) : report.root[k] = leaf[k - 1]
      BY DEF RootInv
    <2>3. DOMAIN report.root = 1..Len(report.root) /\ Len(report.root) \in Nat
      BY <2>2
    <2>4. QED
      BY <2>1, <2>2, <2>3
  <1>2. QED
    BY <1>1, AuditRunsChain, TypeInit, TypeStep, RegistryInvInit, RegistryInvStep,
       RootInvInit, RootInvStep, PTL DEF AuditSpec
=============================================================================
