------------------------------- MODULE Tally --------------------------------
(***************************************************************************)
(* The tally program: sharded vote counters, incremented by a CPI from     *)
(* ballot::cast and locked by finalise_tally.                              *)
(***************************************************************************)
EXTENDS VoterRegistry, FiniteSets, FiniteSetsExt

CONSTANT COUNTERS_LEN  \* length of the counter array, 128 in the code

ASSUME CountersAssumption == COUNTERS_LEN \in Nat

VARIABLE tally  \* TallyAccount

CANDIDATE_SHARDS == 4
Shards == 0..(COUNTERS_LEN - 1)
CountedCandidates == 0..((COUNTERS_LEN \div CANDIDATE_SHARDS) - 1)

TallyTypeOK ==
    tally \in [created : BOOLEAN, finalized : BOOLEAN, totalVotes : Nat,
               lastUpdatedSlot : Nat, counters : [Shards -> Nat]]

ZeroTally(exists) ==
    [created |-> exists, finalized |-> FALSE, totalVotes |-> 0,
     lastUpdatedSlot |-> 0, counters |-> [s \in Shards |-> 0]]

TallyInit == tally = ZeroTally(FALSE)

-----------------------------------------------------------------------------
(* Instructions *)

InitTally ==
    /\ ~tally.created
    /\ tally' = ZeroTally(TRUE)

Shard(candidate, state) ==
    candidate * CANDIDATE_SHARDS + (state % CANDIDATE_SHARDS)

\* Variant: a finalised tally still counts.
AccumulateVotesUnlocked(candidate, state) ==
    /\ tally.created
    /\ candidate < COUNTERS_LEN \div CANDIDATE_SHARDS
    /\ tally' = [tally EXCEPT !.counters[Shard(candidate, state)] = @ + 1,
                              !.totalVotes = @ + 1,
                              !.lastUpdatedSlot = slot]

AccumulateVotes(candidate, state) ==
    /\ tally.created
    /\ candidate < COUNTERS_LEN \div CANDIDATE_SHARDS
    /\ ~tally.finalized
    /\ tally' = [tally EXCEPT !.counters[Shard(candidate, state)] = @ + 1,
                              !.totalVotes = @ + 1,
                              !.lastUpdatedSlot = slot]

\* The authority is read from the ElectionAccount, which must exist; its
\* phase is not looked at.
FinaliseTally ==
    /\ tally.created
    /\ election.created
    /\ ~tally.finalized
    /\ tally' = [tally EXCEPT !.finalized = TRUE]

-----------------------------------------------------------------------------
(* What the program and its clients compute from the account *)

CandidateTotal(candidate) ==
    LET base == candidate * CANDIDATE_SHARDS
    IN  tally.counters[base] + tally.counters[base + 1]
          + tally.counters[base + 2] + tally.counters[base + 3]

CounterSum == MapThenSumSet(LAMBDA s : tally.counters[s], Shards)

\* The bound that verify_tally checks against the voter registry.
VotesWithinRoll == tally.totalVotes <= registry.leafCount

\* verify_tally returns Ok.
VerifyTally ==
    /\ tally.created
    /\ registry.created
    /\ CounterSum = tally.totalVotes
    /\ VotesWithinRoll
=============================================================================
