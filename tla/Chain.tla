------------------------------- MODULE Chain --------------------------------
(***************************************************************************)
(* The four programs deployed together, with the transactions they accept: *)
(* the authority administers the election, relayers register commitments   *)
(* and submit ballots, in any order and however often, and anybody sends   *)
(* accumulate_votes to the tally program, which asks nobody for a          *)
(* signature.  What the deployment guarantees of the ballots is            *)
(* HonestBallots: the enclave signs a voter's nullifier only together with *)
(* a commitment that it issued to this voter.                              *)
(***************************************************************************)
EXTENDS Ballot

CONSTANTS
    MaxLeaves,  \* bound on the leaves a run registers
    MaxDirect   \* bound on the accumulate_votes that are no CPI

ASSUME LeavesAssumption == MaxLeaves \in Nat
ASSUME DirectAssumption == MaxDirect \in Nat

VARIABLE direct  \* history: the shards that the accumulate_votes sent to the
                 \* tally program itself have counted in, in their order

chainVars == <<slot, election, registry, leaf, tally, nullifiers, ballots, direct>>

HonestBallots ==
    {auth \in Authorisations : auth.commitment.voter = auth.nullifier}

ChainInit ==
    /\ ElectionInit
    /\ RegistryInit
    /\ TallyInit
    /\ BallotInit
    /\ direct = << >>

\* admin create-election, set-candidates, rotate key, advance-phase, and the
\* passing of time.
ElectionStep ==
    /\ \/ \E sched \in Schedules, key \in Keys : CreateElection(sched, key)
       \/ \E n \in 0..MAX_CANDIDATES + 1 :
            \E roster \in [0..(n - 1) -> Names] : SetCandidates(n, roster)
       \/ \E key \in Keys : RotateAggregationKey(key)
       \/ \E target \in Phases : AdvancePhase(target)
       \/ Tick
    /\ UNCHANGED <<registry, leaf, tally, nullifiers, ballots, direct>>

\* admin init-registry.
RegistrySetup ==
    /\ InitVoterRegistry
    /\ UNCHANGED <<slot, election, tally, nullifiers, ballots, direct>>

\* A registration transaction built for leaf index at.
RegisterStep(at, commitment) ==
    /\ registry.leafCount < MaxLeaves
    /\ InsertCommitment(at, commitment)
    /\ UNCHANGED <<slot, election, tally, nullifiers, ballots, direct>>

\* A ballot transaction.
CastStep(auth, index, candidate, state) ==
    /\ Cast(auth, index, candidate, state)
    /\ UNCHANGED <<slot, election, registry, leaf, direct>>

\* The candidate ids anybody may send: those with counters, and one without.
SentCandidates == 0..(COUNTERS_LEN \div CANDIDATE_SHARDS)

\* accumulate_votes as an instruction of its own.  The program dispatches it
\* to any sender, in any phase and for any candidate it has counters for;
\* only the CPI of a cast is preceded by the checks of a ballot.
DirectStep(candidate, state) ==
    /\ Len(direct) < MaxDirect
    /\ AccumulateVotes(candidate, state)
    /\ direct' = Append(direct, Shard(candidate, state))
    /\ UNCHANGED <<slot, election, registry, leaf, nullifiers, ballots>>

\* admin init-tally and finalise-tally.
TallySetup ==
    /\ InitTally
    /\ UNCHANGED <<slot, election, registry, leaf, nullifiers, ballots, direct>>

TallyFinalisation ==
    /\ FinaliseTally
    /\ UNCHANGED <<slot, election, registry, leaf, nullifiers, ballots, direct>>

ChainNext ==
    \/ ElectionStep
    \/ RegistrySetup
    \/ \E at \in 0..MaxLeaves, c \in Commitments : RegisterStep(at, c)
    \/ \E auth \in HonestBallots, index \in 0..MaxLeaves,
          candidate \in CandidateIds, state \in StateIds :
         CastStep(auth, index, candidate, state)
    \/ \E candidate \in SentCandidates, state \in StateIds :
         DirectStep(candidate, state)
    \/ TallySetup
    \/ TallyFinalisation

ChainSpec == ChainInit /\ [][ChainNext]_chainVars

-----------------------------------------------------------------------------
(* Invariants *)

\* Every account has the shape its program gives it.
TypeOK ==
    /\ ElectionTypeOK
    /\ RegistryTypeOK
    /\ TallyTypeOK
    /\ BallotTypeOK
    /\ direct \in Seq(Shards)

\* The leaf log has no gap and no leaf beyond the header's count: the count
\* is both the number of leaves and the next free index, which is what the
\* enclave and the auditors use it for.
LeavesContiguous == DOMAIN leaf = 0..(registry.leafCount - 1)

\* Nullifiers, ballots and the tally are three accounts that one transaction
\* updates: a voter has a spent nullifier exactly when the ballot box holds
\* that voter's ballot, every ballot is counted in its candidate's shard for
\* its state and nowhere else, and whatever else is counted, in a shard as
\* in the total, was sent to the tally program as accumulate_votes without
\* a ballot.
BallotsIn(s) ==
    {n \in DOMAIN ballots : Shard(ballots[n].candidate, ballots[n].state) = s}

DirectIn(s) == {i \in DOMAIN direct : direct[i] = s}

CountMatchesBallots ==
    /\ nullifiers = DOMAIN ballots
    /\ tally.totalVotes = Cardinality(DOMAIN ballots) + Len(direct)
    /\ \A s \in Shards :
         tally.counters[s] = Cardinality(BallotsIn(s)) + Cardinality(DirectIn(s))

\* A ballot was cast while the polls were open by the clock, and it names a
\* candidate of the roster, although the roster and the phase are moved by
\* other instructions than the one that stores the ballot.
BallotsInOrder ==
    \A n \in DOMAIN ballots :
       /\ election.schedule.votingOpen <= ballots[n].slot
       /\ ballots[n].slot < election.schedule.votingClose
       /\ ballots[n].slot <= tally.lastUpdatedSlot
       /\ ballots[n].candidate < election.candidateCount
       /\ election.candidates[ballots[n].candidate] \in Names

\* Whoever has a ballot in the box has a commitment in the leaf log.
OnlyRegisteredVote ==
    \A n \in DOMAIN ballots : \E i \in DOMAIN leaf : leaf[i].voter = n

\* "If it fails, something tampered with the counter outside the ballot CPI
\* path": where its two accounts exist, the counters add up to the total and
\* verify_tally fails only after an accumulate_votes without a ballot, also
\* when a voter is registered twice and when nobody has asked for the tally
\* yet.
VerifyTallyFailsForCause ==
    tally.created /\ registry.created =>
      /\ CounterSum = tally.totalVotes
      /\ direct = << >> => VerifyTally

-----------------------------------------------------------------------------
(* Action properties *)

\* Once somebody has voted, neither the electorate nor the meaning of a
\* ballot can change: no leaf is added, the roster's entries keep their
\* names and the schedule stays; and registration is over by the clock
\* before the first slot in which anybody can vote.
ElectorateFixed ==
    [][/\ nullifiers # {} =>
            /\ UNCHANGED leaf
            /\ UNCHANGED <<election.candidates, election.candidateCount>>
            /\ UNCHANGED election.schedule
       /\ DOMAIN leaf' # DOMAIN leaf =>
            /\ slot < election.schedule.votingOpen
            /\ DOMAIN leaf \subseteq DOMAIN leaf']_chainVars

\* A finalised tally is final, and so is the ballot box it counts: a ballot
\* whose CPI the tally rejects leaves no nullifier and no ballot behind.
FinalisedIsFinal ==
    [][tally.finalized => UNCHANGED <<tally, ballots, nullifiers>>]_chainVars

-----------------------------------------------------------------------------
(* The ballot box that the programs implement *)

Enrolled == {leaf[i].voter : i \in DOMAIN leaf}

StageOf ==
    IF ~election.created \/ election.phase = DRAFT THEN 0
    ELSE IF election.phase = TALLIED THEN VOTING_CLOSED ELSE election.phase

DirectFor(c) == {i \in DOMAIN direct : direct[i] \div CANDIDATE_SHARDS = c}

Box == INSTANCE BallotBox WITH
         People  <- Voters,
         Options <- CountedCandidates,
         stage   <- StageOf,
         roll    <- Enrolled,
         vote    <- [n \in DOMAIN ballots |-> ballots[n].candidate],
         count   <- [c \in CountedCandidates |-> CandidateTotal(c)],
         extra   <- [c \in CountedCandidates |-> Cardinality(DirectFor(c))],
         sealed  <- tally.finalized

\* The programs implement the ballot box: a vote goes in at most once per
\* enrolled voter and is counted at once for the candidate it names, what is
\* added to the count without a vote is an accumulate_votes sent to the tally
\* program, and neither happens after the tally is final.
ImplementsBallotBox == Box!BoxSpec
=============================================================================
