---------------------------- MODULE ChainProofs -----------------------------
(***************************************************************************)
(* Theorems about Chain, for every roster size, schedule, clock bound, set *)
(* of voters and number of leaves.                                         *)
(***************************************************************************)
EXTENDS Chain, FiniteSetTheorems, TLAPS

USE DEF Phases, DRAFT, REG_OPEN, REG_CLOSED, VOTING_OPEN, VOTING_CLOSED, TALLIED

-----------------------------------------------------------------------------
(* Induction over data *)
(*                                                                         *)
(* The induction theorems of the library have an operator as parameter.    *)
(* Here the statement to be proved is the set of the elements that satisfy *)
(* it, and the induction is on the least element outside of that set.      *)

\* A set of natural numbers has a least element: among the intervals up to
\* its elements, one contains no other.
LEMMA LeastNat ==
  ASSUME NEW T \in SUBSET Nat, T # {}
  PROVE  \E m \in T : \A k \in T : m <= k
  <1> DEFINE F == {0..k : k \in T}
  <1>1. F \subseteq FiniteSubsetsOf(Nat)
    <2>1. \A k \in T : 0..k \subseteq Nat /\ IsFiniteSet(0..k)
      BY FS_Interval
    <2>2. QED
      BY <2>1 DEF FiniteSubsetsOf
  <1>2. F # {}
    OBVIOUS
  <1>3. PICK x \in F : \A y \in F : ~(<<y, x>> \in StrictSubsetOrdering(Nat))
    <2> HIDE DEF F
    <2>1. IsWellFoundedOn(StrictSubsetOrdering(Nat), FiniteSubsetsOf(Nat))
      BY FS_StrictSubsetOrderingWellFounded, Zenon
    <2>2. QED
      BY <1>1, <1>2, <2>1, WFMin, Zenon
  <1>4. PICK m \in T : x = 0..m
    OBVIOUS
  <1>5. ASSUME NEW k \in T, k < m PROVE FALSE
    <2> DEFINE a == 0..k
               b == 0..m
    <2>1. a \in SUBSET Nat /\ b \in SUBSET Nat /\ a \subseteq b
      BY <1>5
    <2>2. m \in b /\ m \notin a
      BY <1>5
    <2>3. a \in F /\ b = x
      BY <1>4
    <2> HIDE DEF a, b, F
    <2>4. <<a, b>> \in StrictSubsetOrdering(Nat)
      BY <2>1, <2>2 DEF StrictSubsetOrdering
    <2>5. QED
      BY <1>3, <2>3, <2>4
  <1>6. QED
    BY <1>5

LEMMA NatInductionSet ==
  ASSUME NEW S, 0 \in S, \A n \in Nat : n \in S => n + 1 \in S
  PROVE  Nat \subseteq S
  <1> DEFINE T == Nat \ S
  <1>1. ASSUME T # {} PROVE FALSE
    <2>1. PICK m \in T : \A k \in T : m <= k
      BY <1>1, LeastNat
    <2>2. m # 0 /\ m - 1 \in Nat /\ m - 1 \notin T
      BY <2>1
    <2>3. QED
      BY <2>2
  <1>2. QED
    BY <1>1

\* The element of a set that a fold takes first.
Chosen(T) == CHOOSE x \in T : TRUE

LEMMA ChosenIn == \A T : T # {} => Chosen(T) \in T
  BY DEF Chosen

\* Whatever holds of the empty set, and of a set if it holds of the set
\* without its chosen element, holds of every finite set.
LEMMA SubsetInduction ==
  ASSUME NEW S, IsFiniteSet(S), NEW Q,
         {} \in Q,
         \A T \in SUBSET S : T # {} /\ T \ {Chosen(T)} \in Q => T \in Q
  PROVE  SUBSET S \subseteq Q
  <1> DEFINE Bad == (SUBSET S) \ Q
  <1>1. SUFFICES ASSUME Bad # {} PROVE FALSE
    OBVIOUS
  <1>2. FiniteSubsetsOf(S) = SUBSET S
    BY FS_FiniteSubsetsOfFinite
  <1>3. IsWellFoundedOn(StrictSubsetOrdering(S), SUBSET S)
    BY <1>2, FS_StrictSubsetOrderingWellFounded
  <1>4. PICK T \in Bad : \A U \in Bad : ~(<<U, T>> \in StrictSubsetOrdering(S))
    <2>1. Bad \subseteq SUBSET S
      OBVIOUS
    <2> HIDE DEF Bad
    <2>2. QED
      BY <1>1, <1>3, <2>1, WFMin, Zenon
  <1>5. T # {} /\ Chosen(T) \in T
    BY ChosenIn
  <1>6. <<T \ {Chosen(T)}, T>> \in StrictSubsetOrdering(S)
    BY <1>5 DEF StrictSubsetOrdering
  <1>7. T \ {Chosen(T)} \in Q
    BY <1>4, <1>6
  <1>8. QED
    BY <1>5, <1>7

-----------------------------------------------------------------------------
(* Sums over finite sets *)

\* g maps each set of D to the sum of f over it, by the recursion that
\* MapThenSumSet is defined with.
IsSum(g, f, D) ==
    g = [T \in D |->
           IF T = {} THEN 0 ELSE f[Chosen(T)] + g[T \ {Chosen(T)}]]

\* The recursion has a solution: it is found for the sets of one element more
\* from the one for smaller sets.
LEMMA SumExists ==
  ASSUME NEW S, IsFiniteSet(S), NEW f
  PROVE  \E g : IsSum(g, f, SUBSET S)
  <1> DEFINE Small(k) == {T \in SUBSET S : Cardinality(T) <= k}
             Known == {k \in Nat : \E g : IsSum(g, f, Small(k))}
  <1>1. \A T \in SUBSET S : /\ IsFiniteSet(T) /\ Cardinality(T) \in Nat
                            /\ Cardinality(T) <= Cardinality(S)
                            /\ Cardinality(T) = 0 <=> T = {}
    BY FS_Subset, FS_CardinalityType, FS_EmptySet
  <1>2. 0 \in Known
    <2> DEFINE g == [T \in Small(0) |-> 0]
    <2>1. \A T \in Small(0) : T = {}
      BY <1>1
    <2>2. IsSum(g, f, Small(0))
      BY <2>1 DEF IsSum
    <2>3. QED
      BY <2>2
  <1>3. ASSUME NEW k \in Nat, k \in Known
        PROVE  k + 1 \in Known
    <2>1. PICK g : IsSum(g, f, Small(k))
      BY <1>3
    <2> DEFINE h == [T \in Small(k + 1) |->
                       IF T = {} THEN 0 ELSE f[Chosen(T)] + g[T \ {Chosen(T)}]]
    <2>2. ASSUME NEW T \in Small(k + 1), T # {}
          PROVE  h[T \ {Chosen(T)}] = g[T \ {Chosen(T)}]
      <3> DEFINE U == T \ {Chosen(T)}
      <3>1. U \in SUBSET S /\ Cardinality(U) = Cardinality(T) - 1
        BY <1>1, <2>2, ChosenIn, FS_RemoveElement
      <3>2. U \in Small(k) /\ U \in Small(k + 1)
        BY <1>1, <3>1
      <3> HIDE DEF U
      <3>3. h[U] = g[U]
        BY <2>1, <3>2 DEF IsSum
      <3>4. QED
        BY <3>3 DEF U
    <2>3. IsSum(h, f, Small(k + 1))
      BY <2>2 DEF IsSum
    <2> HIDE DEF h, Small
    <2>4. k + 1 \in Nat /\ \E e : IsSum(e, f, Small(k + 1))
      BY <2>3
    <2>5. QED
      BY <2>4, Zenon
  <1>4. Cardinality(S) \in Known
    <2>1. Cardinality(S) \in Nat
      BY FS_CardinalityType
    <2> HIDE DEF Known
    <2>2. QED
      BY <1>2, <1>3, <2>1, NatInductionSet
  <1>5. Small(Cardinality(S)) = SUBSET S
    BY <1>1
  <1>6. QED
    BY <1>4, <1>5

LEMMA DisjointUnion ==
  ASSUME NEW A, IsFiniteSet(A), NEW B, IsFiniteSet(B), A \cap B = {}
  PROVE  Cardinality(A \cup B) = Cardinality(A) + Cardinality(B)
  <1>1. Cardinality(A) \in Nat /\ Cardinality(B) \in Nat
    BY FS_CardinalityType
  <1>2. QED
    BY <1>1, FS_Union, FS_EmptySet

\* The elements of D that h sends into T, and to x.
Preimage(h, D, T) == {d \in D : h[d] \in T}
Fibre(h, D, x) == {d \in D : h[d] = x}

\* Counting the elements of D by where h sends them, and adding up.
LEMMA SumOfFibres ==
  ASSUME NEW S, IsFiniteSet(S), NEW D, IsFiniteSet(D), NEW h, NEW f, NEW g,
         IsSum(g, f, SUBSET S),
         \A s \in S : f[s] = Cardinality(Fibre(h, D, s))
  PROVE  g[S] = Cardinality(Preimage(h, D, S))
  <1> DEFINE Q == {T \in SUBSET S : g[T] = Cardinality(Preimage(h, D, T))}
  <1>1. {} \in Q
    <2>1. Preimage(h, D, {}) = {}
      BY DEF Preimage
    <2>2. QED
      BY <2>1, FS_EmptySet DEF IsSum
  <1>2. ASSUME NEW T \in SUBSET S, T # {}, T \ {Chosen(T)} \in Q
        PROVE  T \in Q
    <2> DEFINE x == Chosen(T)
               Own == Fibre(h, D, x)
               Rest == Preimage(h, D, T \ {x})
    <2>1. x \in T
      BY <1>2, ChosenIn
    <2>2. g[T] = f[x] + g[T \ {x}]
      BY <1>2 DEF IsSum
    <2>3. f[x] = Cardinality(Own) /\ g[T \ {x}] = Cardinality(Rest)
      BY <1>2, <2>1
    <2>4. Preimage(h, D, T) = Own \cup Rest /\ Own \cap Rest = {}
      BY <2>1 DEF Preimage, Fibre
    <2>5. IsFiniteSet(Own) /\ IsFiniteSet(Rest)
      BY FS_Subset DEF Preimage, Fibre
    <2>6. Cardinality(Preimage(h, D, T)) = Cardinality(Own) + Cardinality(Rest)
      <3> HIDE DEF Own, Rest
      <3>1. QED
        BY <2>4, <2>5, DisjointUnion
    <2>7. QED
      BY <2>2, <2>3, <2>6
  <1>3. SUBSET S \subseteq Q
    <2> HIDE DEF Q
    <2>1. QED
      BY <1>1, <1>2, SubsetInduction
  <1>4. QED
    BY <1>3

\* The sum of two functions adds up to their two sums.
LEMMA SumOfSums ==
  ASSUME NEW S, IsFiniteSet(S), NEW f, NEW f1, NEW f2, NEW g, NEW g1, NEW g2,
         IsSum(g, f, SUBSET S), IsSum(g1, f1, SUBSET S), IsSum(g2, f2, SUBSET S),
         \A s \in S : f1[s] \in Nat /\ f2[s] \in Nat /\ f[s] = f1[s] + f2[s]
  PROVE  g[S] = g1[S] + g2[S]
  <1> DEFINE Q == {T \in SUBSET S : /\ g1[T] \in Nat /\ g2[T] \in Nat
                                   /\ g[T] = g1[T] + g2[T]}
  <1>1. {} \in Q
    BY DEF IsSum
  <1>2. ASSUME NEW T \in SUBSET S, T # {}, T \ {Chosen(T)} \in Q
        PROVE  T \in Q
    <2> DEFINE x == Chosen(T)
               U == T \ {x}
    <2>1. x \in T
      BY <1>2, ChosenIn
    <2>2. /\ g[T] = f[x] + g[U]
          /\ g1[T] = f1[x] + g1[U]
          /\ g2[T] = f2[x] + g2[U]
      BY <1>2 DEF IsSum
    <2>3. f1[x] \in Nat /\ f2[x] \in Nat /\ f[x] = f1[x] + f2[x]
      BY <2>1
    <2>4. g1[U] \in Nat /\ g2[U] \in Nat /\ g[U] = g1[U] + g2[U]
      BY <1>2
    <2> HIDE DEF x, U
    <2>5. QED
      BY <2>2, <2>3, <2>4
  <1>3. SUBSET S \subseteq Q
    <2> HIDE DEF Q
    <2>1. QED
      BY <1>1, <1>2, SubsetInduction
  <1>4. QED
    BY <1>3

-----------------------------------------------------------------------------
(* Type correctness *)

LEMMA TypeInit == ChainInit => TypeOK
  <1> SUFFICES ASSUME ChainInit PROVE TypeOK
    OBVIOUS
  <1>1. ElectionTypeOK
    BY ElectionAssumption
    DEF ChainInit, ElectionInit, NoElection, ElectionTypeOK, ElectionAccount,
        Schedule, CandidateIds
  <1>2. RegistryTypeOK
    BY DEF ChainInit, RegistryInit, RegistryTypeOK, EmptyTreeRoot
  <1>3. TallyTypeOK
    BY DEF ChainInit, TallyInit, TallyTypeOK, ZeroTally
  <1>4. BallotTypeOK
    BY DEF ChainInit, BallotInit, BallotTypeOK
  <1>5. direct \in Seq(Shards)
    BY DEF ChainInit
  <1>6. QED
    BY <1>1, <1>2, <1>3, <1>4, <1>5 DEF TypeOK

LEMMA ElectionStepType ==
  ASSUME ElectionTypeOK, ElectionStep
  PROVE  ElectionTypeOK'
  <1> USE ElectionAssumption DEF ElectionTypeOK, ElectionAccount
  <1>1. ASSUME NEW sched \in Schedules, NEW key \in Keys, CreateElection(sched, key)
        PROVE  ElectionTypeOK'
    <2> DEFINE empty == [i \in CandidateIds |-> Blank]
    <2>1. empty \in [CandidateIds -> Names \cup {Blank}]
      OBVIOUS
    <2>2. sched \in Schedule /\ key \in Keys \cup {ZeroKey}
      OBVIOUS
    <2> HIDE DEF empty
    <2>3. election' = [created |-> TRUE, schedule |-> sched, aggregationKey |-> key,
                       phase |-> 0, candidateCount |-> 0, candidates |-> empty]
      BY <1>1 DEF CreateElection, NoElection, empty
    <2>4. slot' \in 0..MaxSlot
      BY <1>1 DEF CreateElection
    <2>5. QED
      BY <2>1, <2>2, <2>3, <2>4
  <1>2. ASSUME NEW n \in 0..MAX_CANDIDATES + 1, NEW roster \in [0..(n - 1) -> Names],
               SetCandidates(n, roster)
        PROVE  ElectionTypeOK'
    <2> DEFINE merged == [i \in CandidateIds |->
                            IF i < n THEN roster[i] ELSE election.candidates[i]]
    <2>1. merged \in [CandidateIds -> Names \cup {Blank}]
      BY DEF CandidateIds
    <2> HIDE DEF merged
    <2>2. n \in 0..MAX_CANDIDATES
      BY <1>2 DEF SetCandidates
    <2>3. election' = [election EXCEPT
                         !.candidates = merged,
                         !.candidateCount = n,
                         !.phase = IF election.phase = 0 THEN 1 ELSE election.phase]
      BY <1>2, Zenon DEF SetCandidates, merged, DRAFT, REG_OPEN
    <2>4. election' = [created |-> election.created,
                       schedule |-> election.schedule,
                       aggregationKey |-> election.aggregationKey,
                       phase |-> IF election.phase = 0 THEN 1 ELSE election.phase,
                       candidateCount |-> n, candidates |-> merged]
      BY <2>3
    <2>5. slot' \in 0..MaxSlot
      BY <1>2 DEF SetCandidates
    <2>6. QED
      BY <2>1, <2>2, <2>4, <2>5
  <1>3. ASSUME NEW key \in Keys, RotateAggregationKey(key)
        PROVE  ElectionTypeOK'
    BY <1>3 DEF RotateAggregationKey
  <1>4. ASSUME NEW target \in Phases, AdvancePhase(target)
        PROVE  ElectionTypeOK'
    BY <1>4 DEF AdvancePhase
  <1>5. CASE Tick
    BY <1>5 DEF Tick
  <1>6. QED
    BY <1>1, <1>2, <1>3, <1>4, <1>5 DEF ElectionStep

LEMMA RegisterStepType ==
  ASSUME NEW at \in Nat, NEW c \in Commitments,
         RegistryTypeOK, InsertCommitment(at, c)
  PROVE  RegistryTypeOK'
  BY DEF RegistryTypeOK, InsertCommitment

LEMMA ShardInRange ==
  ASSUME NEW candidate \in Nat, NEW state \in Nat,
         candidate < COUNTERS_LEN \div CANDIDATE_SHARDS
  PROVE  Shard(candidate, state) \in Shards
  <1>1. state % 4 \in 0..3
    OBVIOUS
  <1>2. 4 * (COUNTERS_LEN \div 4) <= COUNTERS_LEN
    BY CountersAssumption
  <1>3. QED
    BY <1>1, <1>2, CountersAssumption DEF Shard, Shards, CANDIDATE_SHARDS

LEMMA AccumulateVotesType ==
  ASSUME NEW candidate \in Nat, NEW state \in Nat,
         TallyTypeOK, slot \in Nat, AccumulateVotes(candidate, state)
  PROVE  TallyTypeOK'
  <1>1. Shard(candidate, state) \in Shards
    BY ShardInRange DEF AccumulateVotes
  <1> DEFINE counted == [tally.counters EXCEPT ![Shard(candidate, state)] = @ + 1]
  <1>2. counted \in [Shards -> Nat]
    BY <1>1 DEF TallyTypeOK
  <1>3. tally' = [created |-> tally.created, finalized |-> tally.finalized,
                  totalVotes |-> tally.totalVotes + 1,
                  lastUpdatedSlot |-> slot, counters |-> counted]
    BY DEF AccumulateVotes, TallyTypeOK
  <1> HIDE DEF counted
  <1>4. QED
    BY <1>2, <1>3 DEF TallyTypeOK

LEMMA CastType ==
  ASSUME NEW auth \in HonestBallots, NEW index \in 0..MaxLeaves,
         NEW candidate \in CandidateIds, NEW state \in StateIds,
         TypeOK, Cast(auth, index, candidate, state)
  PROVE  TallyTypeOK' /\ BallotTypeOK'
  <1>1. candidate \in Nat /\ state \in Nat /\ slot \in Nat
    BY ElectionAssumption, StateAssumption DEF CandidateIds, TypeOK, ElectionTypeOK
  <1>2. auth.nullifier \in Nullifiers
    BY DEF HonestBallots, Authorisations
  <1>3. TallyTypeOK'
    BY <1>1, AccumulateVotesType DEF Cast, TypeOK
  <1>4. BallotTypeOK'
    BY <1>1, <1>2 DEF Cast, TypeOK, BallotTypeOK, BallotRecord
  <1>5. QED
    BY <1>3, <1>4

\* An accumulate_votes of its own counts in one shard and is recorded.
LEMMA DirectStepEffect ==
  ASSUME NEW candidate \in SentCandidates, NEW state \in StateIds,
         TypeOK, DirectStep(candidate, state)
  PROVE  /\ TypeOK'
         /\ candidate \in CountedCandidates
         /\ Shard(candidate, state) \in Shards
         /\ direct' = Append(direct, Shard(candidate, state))
         /\ tally.created /\ tally'.created
         /\ ~tally.finalized /\ ~tally'.finalized
         /\ tally'.totalVotes = tally.totalVotes + 1
         /\ tally'.counters = [tally.counters EXCEPT ![Shard(candidate, state)] = @ + 1]
         /\ tally'.lastUpdatedSlot = slot
         /\ UNCHANGED <<slot, election, registry, leaf, nullifiers, ballots>>
  <1>1. candidate \in Nat /\ state \in Nat /\ slot \in Nat
    BY ElectionAssumption, StateAssumption, CountersAssumption
    DEF SentCandidates, CANDIDATE_SHARDS, TypeOK, ElectionTypeOK
  <1>2. /\ candidate < COUNTERS_LEN \div CANDIDATE_SHARDS
        /\ Shard(candidate, state) \in Shards
    BY <1>1, ShardInRange DEF DirectStep, AccumulateVotes
  <1>3. TallyTypeOK'
    BY <1>1, AccumulateVotesType DEF DirectStep, TypeOK
  <1>4. candidate \in CountedCandidates
    BY <1>1, <1>2, CountersAssumption DEF CountedCandidates, CANDIDATE_SHARDS
  <1>5. /\ direct' = Append(direct, Shard(candidate, state))
        /\ UNCHANGED <<slot, election, registry, leaf, nullifiers, ballots>>
    BY DEF DirectStep
  <1>6. direct' \in Seq(Shards)
    BY <1>2, <1>5 DEF TypeOK
  <1>7. TypeOK'
    BY <1>3, <1>5, <1>6 DEF TypeOK, ElectionTypeOK, RegistryTypeOK, BallotTypeOK
  <1>8. /\ tally.created /\ tally'.created
        /\ ~tally.finalized /\ ~tally'.finalized
        /\ tally'.totalVotes = tally.totalVotes + 1
        /\ tally'.counters = [tally.counters EXCEPT ![Shard(candidate, state)] = @ + 1]
        /\ tally'.lastUpdatedSlot = slot
    BY DEF DirectStep, AccumulateVotes, TypeOK, TallyTypeOK
  <1>9. QED
    BY <1>2, <1>4, <1>5, <1>7, <1>8

LEMMA TypeStep == TypeOK /\ [ChainNext]_chainVars => TypeOK'
  <1> SUFFICES ASSUME TypeOK, [ChainNext]_chainVars PROVE TypeOK'
    OBVIOUS
  <1> USE DEF TypeOK
  <1>1. CASE ElectionStep
    BY <1>1, ElectionStepType
    DEF ElectionStep, RegistryTypeOK, TallyTypeOK, BallotTypeOK
  <1>2. CASE RegistrySetup
    BY <1>2
    DEF RegistrySetup, InitVoterRegistry, EmptyTreeRoot, ElectionTypeOK,
        RegistryTypeOK, TallyTypeOK, BallotTypeOK
  <1>3. ASSUME NEW at \in 0..MaxLeaves, NEW c \in Commitments, RegisterStep(at, c)
        PROVE  TypeOK'
    BY <1>3, RegisterStepType, LeavesAssumption
    DEF RegisterStep, ElectionTypeOK, TallyTypeOK, BallotTypeOK
  <1>4. ASSUME NEW auth \in HonestBallots, NEW index \in 0..MaxLeaves,
               NEW candidate \in CandidateIds, NEW state \in StateIds,
               CastStep(auth, index, candidate, state)
        PROVE  TypeOK'
    BY <1>4, CastType DEF CastStep, ElectionTypeOK, RegistryTypeOK
  <1>5. CASE TallySetup
    BY <1>5
    DEF TallySetup, InitTally, ZeroTally, ElectionTypeOK, RegistryTypeOK,
        TallyTypeOK, BallotTypeOK
  <1>6. CASE TallyFinalisation
    BY <1>6
    DEF TallyFinalisation, FinaliseTally, ElectionTypeOK, RegistryTypeOK,
        TallyTypeOK, BallotTypeOK
  <1>7. CASE UNCHANGED chainVars
    BY <1>7
    DEF chainVars, ElectionTypeOK, RegistryTypeOK, TallyTypeOK, BallotTypeOK
  <1>8. ASSUME NEW candidate \in SentCandidates, NEW state \in StateIds,
               DirectStep(candidate, state)
        PROVE  TypeOK'
    BY <1>8, DirectStepEffect
  <1>9. QED
    BY <1>1, <1>2, <1>3, <1>4, <1>5, <1>6, <1>7, <1>8 DEF ChainNext

\* Every account keeps the shape its program gives it, whatever transactions
\* the deployment sends and in whatever order.
THEOREM ChainTypeCorrect == ChainSpec => []TypeOK
  BY TypeInit, TypeStep, PTL DEF ChainSpec

-----------------------------------------------------------------------------
(* The leaf log *)

\* The inductive invariant of the registry: the log is the interval below
\* the header's count, and it is empty until the header exists.
RegistryInv ==
    /\ LeavesContiguous
    /\ ~registry.created => registry.leafCount = 0

LEMMA RegistryInvInit == ChainInit => RegistryInv
  BY DEF ChainInit, RegistryInit, RegistryInv, LeavesContiguous

LEMMA RegistryInvStep ==
  TypeOK /\ RegistryInv /\ [ChainNext]_chainVars => RegistryInv'
  <1> SUFFICES ASSUME TypeOK, RegistryInv, [ChainNext]_chainVars
               PROVE  RegistryInv'
    OBVIOUS
  <1> USE DEF RegistryInv, LeavesContiguous
  <1>1. CASE RegistrySetup
    BY <1>1 DEF RegistrySetup, InitVoterRegistry
  <1>2. ASSUME NEW at \in 0..MaxLeaves, NEW c \in Commitments, RegisterStep(at, c)
        PROVE  RegistryInv'
    <2>1. /\ registry.leafCount \in Nat
          /\ at = registry.leafCount
          /\ DOMAIN leaf' = DOMAIN leaf \cup {at}
      BY <1>2 DEF RegisterStep, InsertCommitment, TypeOK, RegistryTypeOK
    <2>2. registry'.leafCount = at + 1 /\ registry'.created
      BY <1>2 DEF RegisterStep, InsertCommitment, TypeOK, RegistryTypeOK
    <2>3. QED
      BY <2>1, <2>2
  <1>3. CASE UNCHANGED <<registry, leaf>>
    BY <1>3
  <1>4. QED
    BY <1>1, <1>2, <1>3
    DEF ChainNext, chainVars, ElectionStep, CastStep, DirectStep, TallySetup,
        TallyFinalisation

\* The leaf log has no gap and ends at the header's count, however
\* registration transactions built for stale counts are interleaved.
THEOREM ChainLeavesContiguous == ChainSpec => []LeavesContiguous
  <1>1. RegistryInv => LeavesContiguous
    BY DEF RegistryInv
  <1>2. QED
    BY <1>1, RegistryInvInit, RegistryInvStep, ChainTypeCorrect, PTL DEF ChainSpec

-----------------------------------------------------------------------------
(* Nullifiers, ballots and the tally *)

\* The inductive invariant of the count.  The tally account may be created
\* at any time, so its counters must be known to be zero, and the ballot box
\* to be empty, for as long as it does not exist.
CountInv ==
    /\ IsFiniteSet(DOMAIN ballots)
    /\ CountMatchesBallots
    /\ ~tally.created => ballots = << >> /\ direct = << >> /\ ~tally.finalized

LEMMA CountInvInit == ChainInit => CountInv
  <1> SUFFICES ASSUME ChainInit PROVE CountInv
    OBVIOUS
  <1>1. DOMAIN ballots = {} /\ ballots = << >> /\ nullifiers = {} /\ tally = ZeroTally(FALSE)
    BY DEF ChainInit, BallotInit, TallyInit
  <1>2. direct = << >> /\ Len(direct) = 0 /\ DOMAIN direct = {}
    BY DEF ChainInit
  <1>3. \A s \in Shards : BallotsIn(s) = {} /\ DirectIn(s) = {}
    BY <1>1, <1>2 DEF BallotsIn, DirectIn
  <1>4. IsFiniteSet({}) /\ Cardinality({}) = 0 /\ 0 + 0 = 0
    BY FS_EmptySet
  <1>5. QED
    BY <1>1, <1>2, <1>3, <1>4 DEF CountInv, CountMatchesBallots, ZeroTally

LEMMA DirectFinite ==
  ASSUME direct \in Seq(Shards)
  PROVE  /\ DOMAIN direct = 1..Len(direct)
         /\ Len(direct) \in Nat
         /\ IsFiniteSet(DOMAIN direct)
         /\ Cardinality(DOMAIN direct) = Len(direct)
         /\ \A T \in SUBSET DOMAIN direct : IsFiniteSet(T) /\ Cardinality(T) \in Nat
  <1>1. DOMAIN direct = 1..Len(direct) /\ Len(direct) \in Nat
    OBVIOUS
  <1>2. IsFiniteSet(DOMAIN direct) /\ Cardinality(DOMAIN direct) = Len(direct)
    BY <1>1, FS_Interval
  <1>3. QED
    BY <1>1, <1>2, FS_Subset, FS_CardinalityType

\* What one more entry of the history does to the entries of one shard and of
\* one candidate.
LEMMA DirectAppended ==
  ASSUME direct \in Seq(Shards), NEW x \in Shards, direct' = Append(direct, x)
  PROVE  /\ Len(direct') = Len(direct) + 1
         /\ \A s : Cardinality(DirectIn(s)') =
                     Cardinality(DirectIn(s)) + (IF s = x THEN 1 ELSE 0)
         /\ \A c : Cardinality(DirectFor(c)') =
                     Cardinality(DirectFor(c))
                       + (IF x \div CANDIDATE_SHARDS = c THEN 1 ELSE 0)
  <1> DEFINE new == Len(direct) + 1
  <1>1. /\ Len(direct') = new
        /\ DOMAIN direct' = DOMAIN direct \cup {new}
        /\ new \notin DOMAIN direct
        /\ direct'[new] = x
        /\ \A i \in DOMAIN direct : direct'[i] = direct[i]
    BY DirectFinite
  <1>2. \A T \in SUBSET DOMAIN direct :
          /\ Cardinality(T) \in Nat
          /\ Cardinality(T \cup {new}) = Cardinality(T) + 1
    BY <1>1, DirectFinite, FS_AddElement
  <1> HIDE DEF new
  <1>3. ASSUME NEW s
        PROVE  Cardinality(DirectIn(s)') =
                 Cardinality(DirectIn(s)) + (IF s = x THEN 1 ELSE 0)
    <2>1. DirectIn(s)' = IF s = x THEN DirectIn(s) \cup {new} ELSE DirectIn(s)
      BY <1>1 DEF DirectIn
    <2>2. DirectIn(s) \in SUBSET DOMAIN direct
      BY DEF DirectIn
    <2>3. Cardinality(DirectIn(s)) \in Nat /\ Cardinality(DirectIn(s) \cup {new}) = Cardinality(DirectIn(s)) + 1
      BY <1>2, <2>2
    <2>4. CASE s = x
      BY <2>1, <2>3, <2>4
    <2>5. CASE ~(s = x)
      BY <2>1, <2>3, <2>5
    <2>6. QED
      BY <2>4, <2>5
  <1>4. ASSUME NEW c
        PROVE  Cardinality(DirectFor(c)') =
                 Cardinality(DirectFor(c))
                   + (IF x \div CANDIDATE_SHARDS = c THEN 1 ELSE 0)
    <2>1. DirectFor(c)' = IF x \div CANDIDATE_SHARDS = c
                          THEN DirectFor(c) \cup {new} ELSE DirectFor(c)
      BY <1>1 DEF DirectFor
    <2>2. DirectFor(c) \in SUBSET DOMAIN direct
      BY DEF DirectFor
    <2>3. Cardinality(DirectFor(c)) \in Nat /\ Cardinality(DirectFor(c) \cup {new}) = Cardinality(DirectFor(c)) + 1
      BY <1>2, <2>2
    <2>4. CASE x \div CANDIDATE_SHARDS = c
      BY <2>1, <2>3, <2>4
    <2>5. CASE ~(x \div CANDIDATE_SHARDS = c)
      BY <2>1, <2>3, <2>5
    <2>6. QED
      BY <2>4, <2>5
  <1>5. QED
    BY <1>1, <1>3, <1>4 DEF new

\* Casting adds one ballot to the box and to its shard, and to no other.
LEMMA CastCounts ==
  ASSUME NEW auth \in HonestBallots, NEW index \in 0..MaxLeaves,
         NEW candidate \in CandidateIds, NEW state \in StateIds,
         TypeOK, CountInv, CastStep(auth, index, candidate, state)
  PROVE  CountInv'
  <1> DEFINE n == auth.nullifier
             own == Shard(candidate, state)
  <1>1. /\ n \notin DOMAIN ballots
        /\ DOMAIN ballots' = DOMAIN ballots \cup {n}
        /\ \A m \in DOMAIN ballots : ballots'[m] = ballots[m]
        /\ ballots'[n].candidate = candidate
        /\ ballots'[n].state = state
        /\ direct' = direct
    BY DEF CastStep, Cast
  <1>2. own \in Shards
    BY ShardInRange, ElectionAssumption, StateAssumption
    DEF CastStep, Cast, AccumulateVotes, CandidateIds
  <1>3. /\ tally'.totalVotes = tally.totalVotes + 1
        /\ tally'.counters = [tally.counters EXCEPT ![own] = @ + 1]
        /\ tally'.created
    BY DEF CastStep, Cast, AccumulateVotes, TypeOK, TallyTypeOK
  <1>4. /\ IsFiniteSet(DOMAIN ballots')
        /\ Cardinality(DOMAIN ballots) \in Nat
        /\ Cardinality(DOMAIN ballots') = Cardinality(DOMAIN ballots) + 1
    BY <1>1, FS_AddElement, FS_CardinalityType DEF CountInv
  <1>5. ASSUME NEW s \in Shards
        PROVE  tally'.counters[s] =
                 Cardinality(BallotsIn(s)') + Cardinality(DirectIn(s)')
    <2>1. /\ IsFiniteSet(BallotsIn(s))
          /\ n \notin BallotsIn(s)
          /\ Cardinality(BallotsIn(s)) \in Nat
      BY <1>1, FS_Subset, FS_CardinalityType DEF CountInv, BallotsIn
    <2>2. tally.counters[s] = Cardinality(BallotsIn(s)) + Cardinality(DirectIn(s))
      BY DEF CountInv, CountMatchesBallots
    <2>d. DirectIn(s)' = DirectIn(s) /\ Cardinality(DirectIn(s)) \in Nat
      BY <1>1, DirectFinite DEF DirectIn, TypeOK
    <2>3. CASE s = own
      <3>1. BallotsIn(s)' = BallotsIn(s) \cup {n}
        BY <1>1, <2>3 DEF BallotsIn
      <3>2. Cardinality(BallotsIn(s)') = Cardinality(BallotsIn(s)) + 1
        BY <2>1, <3>1, FS_AddElement
      <3>3. QED
        BY <1>2, <1>3, <2>1, <2>2, <2>d, <2>3, <3>2 DEF TypeOK, TallyTypeOK
    <2>4. CASE s # own
      <3>1. BallotsIn(s)' = BallotsIn(s)
        BY <1>1, <2>4 DEF BallotsIn
      <3>2. QED
        BY <1>2, <1>3, <2>2, <2>d, <2>4, <3>1 DEF TypeOK, TallyTypeOK
    <2>5. QED
      BY <2>3, <2>4
  <1>6. nullifiers' = DOMAIN ballots'
    BY <1>1 DEF CastStep, Cast, CountInv, CountMatchesBallots
  <1>7. tally'.totalVotes = Cardinality(DOMAIN ballots') + Len(direct')
    BY <1>1, <1>3, <1>4, DirectFinite DEF CountInv, CountMatchesBallots, TypeOK
  <1>8. QED
    BY <1>3, <1>4, <1>5, <1>6, <1>7 DEF CountInv, CountMatchesBallots

\* An accumulate_votes without a ballot adds one vote to its shard, and to no
\* other.
LEMMA DirectCounts ==
  ASSUME NEW candidate \in SentCandidates, NEW state \in StateIds,
         TypeOK, CountInv, DirectStep(candidate, state)
  PROVE  CountInv'
  <1> DEFINE own == Shard(candidate, state)
  <1>1. /\ own \in Shards
        /\ direct' = Append(direct, own)
        /\ tally'.created
        /\ tally'.totalVotes = tally.totalVotes + 1
        /\ tally'.counters = [tally.counters EXCEPT ![own] = @ + 1]
        /\ UNCHANGED <<nullifiers, ballots>>
    BY DirectStepEffect
  <1>2. direct \in Seq(Shards) /\ tally.counters \in [Shards -> Nat]
    BY DEF TypeOK, TallyTypeOK
  <1> HIDE DEF own
  <1>3. /\ Len(direct') = Len(direct) + 1 /\ Len(direct) \in Nat
        /\ \A s : Cardinality(DirectIn(s)') =
                    Cardinality(DirectIn(s)) + (IF s = own THEN 1 ELSE 0)
    BY <1>1, <1>2, DirectAppended, DirectFinite
  <1>4. Cardinality(DOMAIN ballots) \in Nat
    BY FS_CardinalityType DEF CountInv
  <1>5. tally'.totalVotes = Cardinality(DOMAIN ballots') + Len(direct')
    BY <1>1, <1>3, <1>4 DEF CountInv, CountMatchesBallots
  <1>6. ASSUME NEW s \in Shards
        PROVE  tally'.counters[s] =
                 Cardinality(BallotsIn(s)') + Cardinality(DirectIn(s)')
    <2>1. BallotsIn(s)' = BallotsIn(s)
      BY <1>1 DEF BallotsIn
    <2>2. Cardinality(BallotsIn(s)) \in Nat
      BY FS_Subset, FS_CardinalityType DEF CountInv, BallotsIn
    <2>3. Cardinality(DirectIn(s)) \in Nat
      BY <1>2, DirectFinite DEF DirectIn
    <2>4. tally.counters[s] = Cardinality(BallotsIn(s)) + Cardinality(DirectIn(s))
      BY DEF CountInv, CountMatchesBallots
    <2>5. tally'.counters[s] = tally.counters[s] + (IF s = own THEN 1 ELSE 0)
      BY <1>1, <1>2
    <2>6. Cardinality(DirectIn(s)') =
            Cardinality(DirectIn(s)) + (IF s = own THEN 1 ELSE 0)
      BY <1>3
    <2>7. QED
      BY <2>1, <2>2, <2>3, <2>4, <2>5, <2>6
  <1>7. QED
    BY <1>1, <1>5, <1>6 DEF CountInv, CountMatchesBallots

LEMMA CountInvStep ==
  TypeOK /\ CountInv /\ [ChainNext]_chainVars => CountInv'
  <1> SUFFICES ASSUME TypeOK, CountInv, [ChainNext]_chainVars
               PROVE  CountInv'
    OBVIOUS
  <1>1. ASSUME NEW auth \in HonestBallots, NEW index \in 0..MaxLeaves,
               NEW candidate \in CandidateIds, NEW state \in StateIds,
               CastStep(auth, index, candidate, state)
        PROVE  CountInv'
    BY <1>1, CastCounts
  <1>2. ASSUME NEW candidate \in SentCandidates, NEW state \in StateIds,
               DirectStep(candidate, state)
        PROVE  CountInv'
    BY <1>2, DirectCounts
  <1>3. CASE TallySetup
    <2>1. /\ ballots = << >> /\ ballots' = ballots /\ nullifiers' = nullifiers
          /\ direct = << >> /\ direct' = direct
          /\ tally' = ZeroTally(TRUE)
      BY <1>3 DEF TallySetup, InitTally, CountInv
    <2>2. DOMAIN ballots = {} /\ nullifiers = {} /\ Len(direct) = 0 /\ DOMAIN direct = {}
      BY <2>1 DEF CountInv, CountMatchesBallots
    <2>3. \A s \in Shards : BallotsIn(s)' = {} /\ DirectIn(s)' = {}
      BY <2>1, <2>2 DEF BallotsIn, DirectIn
    <2>4. /\ tally'.created /\ tally'.totalVotes = 0
          /\ \A s \in Shards : tally'.counters[s] = 0
      BY <2>1 DEF ZeroTally
    <2>5. IsFiniteSet({}) /\ Cardinality({}) = 0 /\ 0 + 0 = 0
      BY FS_EmptySet
    <2>6. QED
      BY <2>1, <2>2, <2>3, <2>4, <2>5 DEF CountInv, CountMatchesBallots
  <1>4. CASE TallyFinalisation
    <2>1. /\ ballots' = ballots /\ nullifiers' = nullifiers /\ tally'.created
          /\ direct' = direct
          /\ tally'.totalVotes = tally.totalVotes /\ tally'.counters = tally.counters
      BY <1>4 DEF TallyFinalisation, FinaliseTally, TypeOK, TallyTypeOK
    <2>2. \A s \in Shards : BallotsIn(s)' = BallotsIn(s) /\ DirectIn(s)' = DirectIn(s)
      BY <2>1 DEF BallotsIn, DirectIn
    <2>3. QED
      BY <2>1, <2>2 DEF CountInv, CountMatchesBallots
  <1>5. CASE UNCHANGED <<tally, nullifiers, ballots, direct>>
    BY <1>5 DEF CountInv, CountMatchesBallots, BallotsIn, DirectIn
  <1>6. QED
    BY <1>1, <1>2, <1>3, <1>4, <1>5
    DEF ChainNext, chainVars, ElectionStep, RegistrySetup, RegisterStep

\* The spent nullifiers, the ballots and the tally agree in every state: one
\* ballot per spent nullifier, counted once, in its own shard; the rest of the
\* count is, shard for shard, the accumulate_votes sent without a ballot.
THEOREM ChainCountMatchesBallots == ChainSpec => []CountMatchesBallots
  <1>1. CountInv => CountMatchesBallots
    BY DEF CountInv
  <1>2. QED
    BY <1>1, CountInvInit, CountInvStep, ChainTypeCorrect, PTL DEF ChainSpec

-----------------------------------------------------------------------------
(* Ballots, the voting window and the roster *)

\* The inductive invariant behind BallotsInOrder.  It has to remember that
\* the schedule was ordered when the account was created, that the polls
\* opened no earlier than the schedule says, that the roster has no blank
\* entry, that there is no ballot before the polls open, and that the
\* tally's clock never runs ahead.
ElectionInv ==
    /\ election.created => WellOrdered(election.schedule)
    /\ ~election.created => election.phase = DRAFT
    /\ election.phase >= VOTING_OPEN => election.schedule.votingOpen <= slot
    /\ \A i \in CandidateIds :
         i < election.candidateCount => election.candidates[i] \in Names

BallotInv ==
    /\ BallotsInOrder
    /\ tally.lastUpdatedSlot <= slot
    /\ DOMAIN ballots # {} => election.phase >= VOTING_OPEN

OrderInv == ElectionInv /\ BallotInv

LEMMA OrderInvInit == ChainInit => OrderInv
  <1> SUFFICES ASSUME ChainInit PROVE OrderInv
    OBVIOUS
  <1>1. /\ slot = 0 /\ ~election.created /\ election.phase = 0
        /\ election.candidateCount = 0
    BY DEF ChainInit, ElectionInit, NoElection
  <1>2. DOMAIN ballots = {} /\ tally.lastUpdatedSlot = 0
    BY DEF ChainInit, TallyInit, ZeroTally, BallotInit
  <1>3. ElectionInv
    BY <1>1 DEF ElectionInv, CandidateIds
  <1>4. BallotInv
    BY <1>1, <1>2 DEF BallotInv, BallotsInOrder
  <1>5. QED
    BY <1>3, <1>4 DEF OrderInv

\* Every election instruction, and the clock, keeps ElectionInv; none of them
\* moves the phase or the clock back; and from REG_CLOSED on, none of them
\* touches the roster or the schedule.
LEMMA ElectionStepInv ==
  ASSUME TypeOK, ElectionInv, ElectionStep
  PROVE  /\ ElectionInv'
         /\ slot <= slot'
         /\ election.phase <= election'.phase
         /\ election.phase >= REG_CLOSED =>
              /\ election'.schedule = election.schedule
              /\ election'.candidates = election.candidates
              /\ election'.candidateCount = election.candidateCount
  <1> DEFINE Goal == /\ ElectionInv'
                     /\ slot <= slot'
                     /\ election.phase <= election'.phase
                     /\ election.phase >= REG_CLOSED =>
                          /\ election'.schedule = election.schedule
                          /\ election'.candidates = election.candidates
                          /\ election'.candidateCount = election.candidateCount
  <1>t. /\ slot \in Nat
        /\ election.phase \in 0..5
        /\ election.schedule \in Schedule
        /\ DOMAIN election =
             {"created", "schedule", "aggregationKey", "phase", "candidateCount",
              "candidates"}
    BY ElectionAssumption DEF TypeOK, ElectionTypeOK, ElectionAccount
  <1>1. ASSUME NEW sched \in Schedules, NEW key \in Keys, CreateElection(sched, key)
        PROVE  Goal
    <2>1. /\ WellOrdered(sched) /\ sched \in Schedule /\ slot' = slot
          /\ election.phase = 0
      BY <1>1, ElectionAssumption DEF CreateElection, ElectionInv
    <2>2. /\ election'.schedule = sched /\ election'.created
          /\ election'.phase = 0 /\ election'.candidateCount = 0
      BY <1>1 DEF CreateElection, NoElection
    <2>3. ElectionInv'
      BY <2>1, <2>2 DEF ElectionInv, CandidateIds
    <2>4. QED
      BY <2>1, <2>2, <2>3, <1>t
  <1>2. ASSUME NEW n \in 0..MAX_CANDIDATES + 1, NEW roster \in [0..(n - 1) -> Names],
               SetCandidates(n, roster)
        PROVE  Goal
    <2>1. /\ slot' = slot /\ election.created /\ election.phase < 2
          /\ election'.created = election.created
          /\ election'.schedule = election.schedule
          /\ election'.candidateCount = n
      BY <1>2, <1>t DEF SetCandidates
    <2>p. election'.phase = IF election.phase = 0 THEN 1 ELSE election.phase
      BY <1>2, <1>t DEF SetCandidates
    <2>2. \A i \in CandidateIds : i < n => election'.candidates[i] \in Names
      BY <1>2, <1>t DEF SetCandidates, CandidateIds
    <2>3. QED
      BY <1>t, <2>1, <2>p, <2>2 DEF ElectionInv
  <1>3. ASSUME NEW key \in Keys, RotateAggregationKey(key)
        PROVE  Goal
    BY <1>3, <1>t DEF RotateAggregationKey, ElectionInv
  <1>4. ASSUME NEW target \in Phases, AdvancePhase(target)
        PROVE  Goal
    <2>1. /\ slot' = slot /\ election.created
          /\ election' = [election EXCEPT !.phase = target]
          /\ target \in 2..5 /\ election.phase = target - 1
      BY <1>4, Zenon DEF AdvancePhase, REG_CLOSED, TALLIED
    <2>g. target = 3 => slot >= election.schedule.votingOpen
      BY <1>4 DEF AdvancePhase, GateOpen
    <2>2. /\ election'.phase = target
          /\ election'.created = election.created
          /\ election'.schedule = election.schedule
          /\ election'.candidates = election.candidates
          /\ election'.candidateCount = election.candidateCount
      BY <2>1, <1>t
    <2>3. QED
      BY <2>1, <2>g, <2>2, <1>t DEF ElectionInv
  <1>5. CASE Tick
    BY <1>5, <1>t DEF Tick, ElectionInv, Schedule, WellOrdered
  <1>6. QED
    BY <1>1, <1>2, <1>3, <1>4, <1>5 DEF ElectionStep

LEMMA CastOrder ==
  ASSUME NEW auth \in HonestBallots, NEW index \in 0..MaxLeaves,
         NEW candidate \in CandidateIds, NEW state \in StateIds,
         TypeOK, OrderInv, CastStep(auth, index, candidate, state)
  PROVE  BallotInv'
  <1> DEFINE n == auth.nullifier
  <1>1. /\ DOMAIN ballots' = DOMAIN ballots \cup {n}
        /\ \A m \in DOMAIN ballots : ballots'[m] = ballots[m]
        /\ ballots'[n].candidate = candidate
        /\ ballots'[n].slot = slot
        /\ n \notin DOMAIN ballots
    BY DEF CastStep, Cast
  <1>2. /\ tally'.lastUpdatedSlot = slot
        /\ slot' = slot /\ election' = election
        /\ slot \in Nat
    BY ElectionAssumption
    DEF CastStep, Cast, AccumulateVotes, TypeOK, TallyTypeOK, ElectionTypeOK
  <1>3. /\ election.phase = VOTING_OPEN
        /\ slot < election.schedule.votingClose
        /\ candidate < election.candidateCount
    BY DEF CastStep, Cast
  <1>4. \A m \in DOMAIN ballots : ballots[m].slot \in Nat
    BY DEF TypeOK, BallotTypeOK, BallotRecord
  <1>5. tally.lastUpdatedSlot \in Nat
    BY DEF TypeOK, TallyTypeOK
  <1>6. ASSUME NEW m \in DOMAIN ballots'
        PROVE  /\ election.schedule.votingOpen <= ballots'[m].slot
               /\ ballots'[m].slot < election.schedule.votingClose
               /\ ballots'[m].slot <= slot
               /\ ballots'[m].candidate < election.candidateCount
               /\ election.candidates[ballots'[m].candidate] \in Names
    <2>1. CASE m = n
      BY <1>1, <1>2, <1>3, <2>1 DEF OrderInv, ElectionInv
    <2>2. CASE m # n
      <3>1. m \in DOMAIN ballots /\ ballots'[m] = ballots[m]
        BY <1>1, <2>2
      <3>2. ballots[m].slot <= tally.lastUpdatedSlot /\ tally.lastUpdatedSlot <= slot
        BY <3>1 DEF OrderInv, BallotInv, BallotsInOrder
      <3>3. QED
        BY <3>1, <3>2, <1>2, <1>4, <1>5 DEF OrderInv, BallotInv, BallotsInOrder
    <2>3. QED
      BY <2>1, <2>2
  <1>7. QED
    BY <1>2, <1>3, <1>6 DEF BallotInv, BallotsInOrder

LEMMA OrderInvStep ==
  TypeOK /\ CountInv /\ OrderInv /\ [ChainNext]_chainVars => OrderInv'
  <1> SUFFICES ASSUME TypeOK, CountInv, OrderInv, [ChainNext]_chainVars
               PROVE  OrderInv'
    OBVIOUS
  <1>1. CASE ElectionStep
    <2>1. /\ ElectionInv'
          /\ slot <= slot'
          /\ election.phase <= election'.phase
          /\ election.phase >= REG_CLOSED =>
               /\ election'.schedule = election.schedule
               /\ election'.candidates = election.candidates
               /\ election'.candidateCount = election.candidateCount
      BY <1>1, ElectionStepInv DEF OrderInv
    <2>2. ballots' = ballots /\ tally' = tally
      BY <1>1 DEF ElectionStep
    <2>3. /\ slot \in Nat /\ slot' \in Nat
          /\ election.phase \in 0..5 /\ election'.phase \in 0..5
          /\ tally.lastUpdatedSlot \in Nat
      BY TypeStep, ElectionAssumption
      DEF TypeOK, ElectionTypeOK, ElectionAccount, TallyTypeOK
    <2>4. QED
      BY <2>1, <2>2, <2>3 DEF OrderInv, BallotInv, BallotsInOrder
  <1>2. ASSUME NEW auth \in HonestBallots, NEW index \in 0..MaxLeaves,
               NEW candidate \in CandidateIds, NEW state \in StateIds,
               CastStep(auth, index, candidate, state)
        PROVE  OrderInv'
    <2>1. ElectionInv'
      BY <1>2 DEF CastStep, OrderInv, ElectionInv
    <2>2. QED
      BY <1>2, <2>1, CastOrder DEF OrderInv
  <1>3. CASE TallySetup
    <2>1. /\ DOMAIN ballots' = {} /\ tally'.lastUpdatedSlot = 0
          /\ slot' = slot /\ election' = election /\ slot \in Nat
      BY <1>3, ElectionAssumption
      DEF TallySetup, InitTally, ZeroTally, CountInv, TypeOK, ElectionTypeOK
    <2>2. QED
      BY <2>1 DEF OrderInv, ElectionInv, BallotInv, BallotsInOrder
  <1>4. CASE TallyFinalisation
    <2>1. /\ ballots' = ballots /\ tally'.lastUpdatedSlot = tally.lastUpdatedSlot
          /\ slot' = slot /\ election' = election
      BY <1>4 DEF TallyFinalisation, FinaliseTally, TypeOK, TallyTypeOK
    <2>2. QED
      BY <2>1 DEF OrderInv, ElectionInv, BallotInv, BallotsInOrder
  <1>5. CASE UNCHANGED <<slot, election, tally, ballots>>
    BY <1>5 DEF OrderInv, ElectionInv, BallotInv, BallotsInOrder
  <1>6. ASSUME NEW candidate \in SentCandidates, NEW state \in StateIds,
               DirectStep(candidate, state)
        PROVE  OrderInv'
    <2>1. /\ tally'.lastUpdatedSlot = slot
          /\ UNCHANGED <<slot, election, ballots>>
      BY <1>6, DirectStepEffect
    <2>2. /\ slot \in Nat /\ tally.lastUpdatedSlot \in Nat
          /\ \A m \in DOMAIN ballots : ballots[m].slot \in Nat
      BY ElectionAssumption
      DEF TypeOK, ElectionTypeOK, TallyTypeOK, BallotTypeOK, BallotRecord
    <2>3. QED
      BY <2>1, <2>2 DEF OrderInv, ElectionInv, BallotInv, BallotsInOrder
  <1>7. QED
    BY <1>1, <1>2, <1>3, <1>4, <1>5, <1>6
    DEF ChainNext, chainVars, RegistrySetup, RegisterStep

\* Every ballot was cast inside the voting window and names a candidate of
\* the roster, and this stays true whatever the authority does later.
THEOREM ChainBallotsInOrder == ChainSpec => []BallotsInOrder
  <1>1. OrderInv => BallotsInOrder
    BY DEF OrderInv, BallotInv
  <1>2. QED
    BY <1>1, OrderInvInit, OrderInvStep, CountInvInit, CountInvStep,
       ChainTypeCorrect, PTL DEF ChainSpec

-----------------------------------------------------------------------------
(* Votes and the roll *)

LEMMA OnlyRegisteredInit == ChainInit => OnlyRegisteredVote
  BY DEF ChainInit, BallotInit, OnlyRegisteredVote

LEMMA OnlyRegisteredStep ==
  TypeOK /\ OnlyRegisteredVote /\ [ChainNext]_chainVars => OnlyRegisteredVote'
  <1> SUFFICES ASSUME TypeOK, OnlyRegisteredVote, [ChainNext]_chainVars,
                      NEW n \in DOMAIN ballots'
               PROVE  \E i \in DOMAIN leaf' : leaf'[i].voter = n
    BY DEF OnlyRegisteredVote
  <1>1. ASSUME NEW at \in 0..MaxLeaves, NEW c \in Commitments, RegisterStep(at, c)
        PROVE  \E i \in DOMAIN leaf' : leaf'[i].voter = n
    <2>1. /\ ballots' = ballots
          /\ DOMAIN leaf' = DOMAIN leaf \cup {at}
          /\ \A i \in DOMAIN leaf : leaf'[i] = leaf[i]
      BY <1>1 DEF RegisterStep, InsertCommitment
    <2>2. QED
      BY <2>1 DEF OnlyRegisteredVote
  <1>2. ASSUME NEW auth \in HonestBallots, NEW index \in 0..MaxLeaves,
               NEW candidate \in CandidateIds, NEW state \in StateIds,
               CastStep(auth, index, candidate, state)
        PROVE  \E i \in DOMAIN leaf' : leaf'[i].voter = n
    <2>1. /\ leaf' = leaf
          /\ DOMAIN ballots' = DOMAIN ballots \cup {auth.nullifier}
          /\ index \in DOMAIN leaf
          /\ leaf[index].voter = auth.nullifier
      BY <1>2 DEF CastStep, Cast, HonestBallots
    <2>2. QED
      BY <2>1 DEF OnlyRegisteredVote
  <1>3. CASE UNCHANGED <<leaf, ballots>>
    BY <1>3 DEF OnlyRegisteredVote
  <1>4. QED
    BY <1>1, <1>2, <1>3
    DEF ChainNext, chainVars, ElectionStep, RegistrySetup, InitVoterRegistry,
        DirectStep, TallySetup, TallyFinalisation

\* Whoever has a ballot in the box has a commitment in the leaf log.
THEOREM ChainOnlyRegisteredVote == ChainSpec => []OnlyRegisteredVote
  BY OnlyRegisteredInit, OnlyRegisteredStep, ChainTypeCorrect, PTL DEF ChainSpec

BallotsWithinRoll == Cardinality(DOMAIN ballots) <= registry.leafCount

\* Sending each ballot to a leaf of its voter is an injection of the ballots
\* into the leaf log.
LEMMA RollBound ==
  ASSUME TypeOK, RegistryInv, CountInv, OnlyRegisteredVote
  PROVE  BallotsWithinRoll
  <1> DEFINE f == [n \in DOMAIN ballots |->
                     CHOOSE i \in DOMAIN leaf : leaf[i].voter = n]
  <1>1. registry.leafCount \in Nat
    BY DEF TypeOK, RegistryTypeOK
  <1>2. \A n \in DOMAIN ballots : f[n] \in DOMAIN leaf /\ leaf[f[n]].voter = n
    BY DEF OnlyRegisteredVote
  <1>3. f \in Injection(DOMAIN ballots, DOMAIN leaf)
    BY <1>2 DEF Injection, IsInjective
  <1>4. /\ IsFiniteSet(DOMAIN leaf)
        /\ Cardinality(DOMAIN leaf) = registry.leafCount
    BY <1>1, FS_Interval DEF RegistryInv, LeavesContiguous
  <1>5. Cardinality(DOMAIN ballots) <= Cardinality(DOMAIN leaf)
    BY <1>3, <1>4, FS_Injection
  <1>6. QED
    BY <1>4, <1>5 DEF BallotsWithinRoll

\* There are never more ballots than leaves, for any number of voters and of
\* re-registrations, whatever accumulate_votes do to the total.
THEOREM ChainBallotsWithinRoll == ChainSpec => []BallotsWithinRoll
  BY RollBound, RegistryInvInit, RegistryInvStep, CountInvInit, CountInvStep,
     OnlyRegisteredInit, OnlyRegisteredStep, ChainTypeCorrect, PTL DEF ChainSpec

-----------------------------------------------------------------------------
(* verify_tally *)

\* Every ballot names a candidate that the counters have room for.
RoomInv == \A n \in DOMAIN ballots : ballots[n].candidate \in CountedCandidates

LEMMA RoomInvInit == ChainInit => RoomInv
  BY DEF ChainInit, BallotInit, RoomInv

LEMMA RoomInvStep == RoomInv /\ [ChainNext]_chainVars => RoomInv'
  <1> SUFFICES ASSUME RoomInv, [ChainNext]_chainVars PROVE RoomInv'
    OBVIOUS
  <1>1. ASSUME NEW auth \in HonestBallots, NEW index \in 0..MaxLeaves,
               NEW candidate \in CandidateIds, NEW state \in StateIds,
               CastStep(auth, index, candidate, state)
        PROVE  RoomInv'
    <2>1. candidate \in CountedCandidates
      BY <1>1, ElectionAssumption, CountersAssumption
      DEF CastStep, Cast, AccumulateVotes, CandidateIds, CountedCandidates,
          CANDIDATE_SHARDS
    <2>2. QED
      BY <1>1, <2>1 DEF CastStep, Cast, RoomInv
  <1>2. CASE UNCHANGED ballots
    BY <1>2 DEF RoomInv
  <1>3. QED
    BY <1>1, <1>2
    DEF ChainNext, chainVars, ElectionStep, RegistrySetup, RegisterStep, DirectStep,
        TallySetup, TallyFinalisation

\* verify_tally adds up the counters of the account.
LEMMA CounterSumUnfolds ==
  ASSUME IsFiniteSet(Shards)
  PROVE  \E g : IsSum(g, tally.counters, SUBSET Shards) /\ CounterSum = g[Shards]
  <1> DEFINE sum == CHOOSE g : IsSum(g, tally.counters, SUBSET Shards)
  <1>1. IsSum(sum, tally.counters, SUBSET Shards)
    BY SumExists
  <1>2. CounterSum = sum[Shards]
    BY DEF CounterSum, MapThenSumSet, MapThenFoldSet, IsSum, Chosen
  <1>3. QED
    BY <1>1, <1>2

\* Every ballot is in one shard, and so is every accumulate_votes without one,
\* so that the shards add up to both.
LEMMA CountersAddUp ==
  ASSUME TypeOK, CountInv, RoomInv
  PROVE  CounterSum = tally.totalVotes
  <1> DEFINE shardOf == [n \in DOMAIN ballots |->
                           Shard(ballots[n].candidate, ballots[n].state)]
             inBox == [s \in Shards |-> Cardinality(Fibre(shardOf, DOMAIN ballots, s))]
             byHand == [s \in Shards |-> Cardinality(Fibre(direct, DOMAIN direct, s))]
  <1>1. IsFiniteSet(Shards)
    BY FS_Interval, CountersAssumption DEF Shards
  <1>2. PICK g : IsSum(g, tally.counters, SUBSET Shards) /\ CounterSum = g[Shards]
    BY <1>1, CounterSumUnfolds
  <1>3. IsFiniteSet(DOMAIN ballots) /\ IsFiniteSet(DOMAIN direct)
    BY DirectFinite DEF CountInv, TypeOK
  <1>4. ASSUME NEW s \in Shards
        PROVE  /\ inBox[s] \in Nat /\ byHand[s] \in Nat
               /\ tally.counters[s] = inBox[s] + byHand[s]
    <2>1. /\ BallotsIn(s) = Fibre(shardOf, DOMAIN ballots, s)
          /\ DirectIn(s) = Fibre(direct, DOMAIN direct, s)
      BY DEF BallotsIn, DirectIn, Fibre
    <2>2. IsFiniteSet(BallotsIn(s)) /\ IsFiniteSet(DirectIn(s))
      BY <1>3, FS_Subset DEF BallotsIn, DirectIn
    <2>3. tally.counters[s] = Cardinality(BallotsIn(s)) + Cardinality(DirectIn(s))
      BY DEF CountInv, CountMatchesBallots
    <2>4. QED
      BY <2>1, <2>2, <2>3, FS_CardinalityType
  <1>5. \A n \in DOMAIN ballots : shardOf[n] \in Shards
    <2>1. ASSUME NEW n \in DOMAIN ballots
          PROVE  shardOf[n] \in Shards
      <3>1. /\ ballots[n].candidate \in Nat /\ ballots[n].state \in Nat
            /\ ballots[n].candidate < COUNTERS_LEN \div CANDIDATE_SHARDS
        BY StateAssumption, CountersAssumption
        DEF TypeOK, BallotTypeOK, BallotRecord, RoomInv, CountedCandidates,
            CANDIDATE_SHARDS
      <3>2. QED
        BY <3>1, ShardInRange
    <2>2. QED
      BY <2>1
  <1>6. \A s \in Shards : /\ inBox[s] = Cardinality(Fibre(shardOf, DOMAIN ballots, s))
                          /\ byHand[s] = Cardinality(Fibre(direct, DOMAIN direct, s))
    OBVIOUS
  <1> HIDE DEF shardOf, inBox, byHand
  <1>7. PICK g1 : IsSum(g1, inBox, SUBSET Shards)
    BY <1>1, SumExists
  <1>8. PICK g2 : IsSum(g2, byHand, SUBSET Shards)
    BY <1>1, SumExists
  <1>9. g[Shards] = g1[Shards] + g2[Shards]
    BY <1>1, <1>2, <1>4, <1>7, <1>8, SumOfSums
  <1>10. g1[Shards] = Cardinality(Preimage(shardOf, DOMAIN ballots, Shards))
    BY <1>1, <1>3, <1>6, <1>7, SumOfFibres
  <1>11. g2[Shards] = Cardinality(Preimage(direct, DOMAIN direct, Shards))
    BY <1>1, <1>3, <1>6, <1>8, SumOfFibres
  <1>12. /\ Preimage(shardOf, DOMAIN ballots, Shards) = DOMAIN ballots
         /\ Preimage(direct, DOMAIN direct, Shards) = DOMAIN direct
    <2>1. direct \in Seq(Shards)
      BY DEF TypeOK
    <2>2. \A i \in DOMAIN direct : direct[i] \in Shards
      BY <2>1
    <2>3. QED
      BY <1>5, <2>2 DEF Preimage
  <1>13. QED
    BY <1>2, <1>9, <1>10, <1>11, <1>12, DirectFinite
    DEF CountInv, CountMatchesBallots, TypeOK

\* Where its two accounts exist, verify_tally fails only after an
\* accumulate_votes without a ballot, at every number of shards, ballots and
\* leaves: the counters always add up to the total, and nobody votes without a
\* leaf.
THEOREM ChainVerifyTallyFailsForCause == ChainSpec => []VerifyTallyFailsForCause
  <1>1. ASSUME TypeOK, RegistryInv, CountInv, OnlyRegisteredVote, direct = << >>
        PROVE  VotesWithinRoll
    <2>1. Cardinality(DOMAIN ballots) <= registry.leafCount /\ Len(direct) = 0
      BY <1>1, RollBound DEF BallotsWithinRoll
    <2>2. Cardinality(DOMAIN ballots) \in Nat
      BY <1>1, FS_CardinalityType DEF CountInv
    <2>3. QED
      BY <1>1, <2>1, <2>2 DEF VotesWithinRoll, CountInv, CountMatchesBallots
  <1>2. TypeOK /\ RegistryInv /\ CountInv /\ RoomInv /\ OnlyRegisteredVote
          => VerifyTallyFailsForCause
    BY <1>1, CountersAddUp DEF VerifyTallyFailsForCause, VerifyTally
  <1>3. QED
    BY <1>2, RegistryInvInit, RegistryInvStep, CountInvInit, CountInvStep,
       RoomInvInit, RoomInvStep, OnlyRegisteredInit, OnlyRegisteredStep,
       ChainTypeCorrect, PTL DEF ChainSpec

-----------------------------------------------------------------------------
(* Action properties *)

LEMMA ElectorateStep ==
  ASSUME TypeOK, CountInv, OrderInv, [ChainNext]_chainVars
  PROVE  /\ nullifiers # {} =>
              /\ UNCHANGED leaf
              /\ UNCHANGED <<election.candidates, election.candidateCount>>
              /\ UNCHANGED election.schedule
         /\ DOMAIN leaf' # DOMAIN leaf =>
              /\ slot < election.schedule.votingOpen
              /\ DOMAIN leaf \subseteq DOMAIN leaf'
  <1>1. nullifiers # {} => election.phase >= VOTING_OPEN
    BY DEF OrderInv, BallotInv, CountInv, CountMatchesBallots
  <1>2. election.phase \in 0..5 /\ slot \in Nat
    BY ElectionAssumption DEF TypeOK, ElectionTypeOK, ElectionAccount
  <1>3. CASE ElectionStep
    BY <1>1, <1>2, <1>3, ElectionStepInv DEF OrderInv, ElectionStep
  <1>4. ASSUME NEW at \in 0..MaxLeaves, NEW c \in Commitments, RegisterStep(at, c)
        PROVE  /\ nullifiers = {}
               /\ slot < election.schedule.votingOpen
               /\ DOMAIN leaf \subseteq DOMAIN leaf'
    <2>1. /\ election.created /\ election.phase = REG_OPEN
          /\ slot < election.schedule.registrationClose
          /\ DOMAIN leaf' = DOMAIN leaf \cup {at}
      BY <1>4 DEF RegisterStep, InsertCommitment
    <2>2. /\ election.schedule.registrationClose <= election.schedule.votingOpen
          /\ election.schedule \in Schedule
      BY <2>1 DEF OrderInv, ElectionInv, WellOrdered, TypeOK, ElectionTypeOK,
                  ElectionAccount
    <2>3. QED
      BY <1>1, <1>2, <2>1, <2>2 DEF Schedule
  <1>5. CASE UNCHANGED <<leaf, election>>
    BY <1>5
  <1>6. QED
    BY <1>3, <1>4, <1>5
    DEF ChainNext, chainVars, RegistrySetup, CastStep, DirectStep, RegisterStep,
        InitVoterRegistry, TallySetup, TallyFinalisation

\* Once somebody has voted, the electorate, the roster and the schedule are
\* fixed, and no leaf is ever added from the opening slot of the polls on.
THEOREM ChainElectorateFixed == ChainSpec => ElectorateFixed
  <1>1. TypeOK /\ CountInv /\ OrderInv /\ [ChainNext]_chainVars =>
          [/\ nullifiers # {} =>
                /\ UNCHANGED leaf
                /\ UNCHANGED <<election.candidates, election.candidateCount>>
                /\ UNCHANGED election.schedule
           /\ DOMAIN leaf' # DOMAIN leaf =>
                /\ slot < election.schedule.votingOpen
                /\ DOMAIN leaf \subseteq DOMAIN leaf']_chainVars
    BY ElectorateStep
  <1>2. QED
    BY <1>1, OrderInvInit, OrderInvStep, CountInvInit, CountInvStep,
       ChainTypeCorrect, PTL DEF ChainSpec, ElectorateFixed

LEMMA FinalisedStep ==
  ASSUME CountInv, [ChainNext]_chainVars, tally.finalized
  PROVE  UNCHANGED <<tally, ballots, nullifiers, direct>>
  BY DEF CountInv, ChainNext, chainVars, ElectionStep, RegistrySetup, RegisterStep,
         CastStep, Cast, DirectStep, AccumulateVotes, TallySetup, InitTally,
         TallyFinalisation, FinaliseTally

\* After finalise_tally neither the tally nor the ballot box changes again.
THEOREM ChainFinalisedIsFinal == ChainSpec => FinalisedIsFinal
  <1>1. CountInv /\ [ChainNext]_chainVars =>
          [tally.finalized => UNCHANGED <<tally, ballots, nullifiers>>]_chainVars
    BY FinalisedStep
  <1>2. QED
    BY <1>1, CountInvInit, CountInvStep, ChainTypeCorrect, PTL
    DEF ChainSpec, FinalisedIsFinal

-----------------------------------------------------------------------------
(* The programs implement the ballot box *)

\* The values the refinement mapping gives to the box's count and votes, and
\* to what is counted without a vote.
BoxCount == [c \in CountedCandidates |-> CandidateTotal(c)]
BoxVote == [n \in DOMAIN ballots |-> ballots[n].candidate]
BoxExtra == [c \in CountedCandidates |-> Cardinality(DirectFor(c))]

LEMMA BoxInitRefined == ChainInit => Box!BoxInit
  <1> SUFFICES ASSUME ChainInit PROVE Box!BoxInit
    OBVIOUS
  <1>1. StageOf = 0
    BY DEF ChainInit, ElectionInit, NoElection, StageOf
  <1>2. Enrolled = {}
    BY DEF ChainInit, RegistryInit, Enrolled
  <1>3. BoxVote = << >>
    BY DEF ChainInit, BallotInit, BoxVote
  <1>4. \A c \in CountedCandidates : CandidateTotal(c) = 0
    <2>1. \A s \in Shards : tally.counters[s] = 0
      BY DEF ChainInit, TallyInit, ZeroTally
    <2>2. ASSUME NEW c \in CountedCandidates
          PROVE  /\ c * 4 \in Shards /\ c * 4 + 1 \in Shards
                 /\ c * 4 + 2 \in Shards /\ c * 4 + 3 \in Shards
      BY CountersAssumption DEF CountedCandidates, Shards, CANDIDATE_SHARDS
    <2>3. QED
      BY <2>1, <2>2 DEF CandidateTotal, CANDIDATE_SHARDS
  <1>5. ~tally.finalized
    BY DEF ChainInit, TallyInit, ZeroTally
  <1>6. \A c \in CountedCandidates : Cardinality(DirectFor(c)) = 0
    <2>1. \A c \in CountedCandidates : DirectFor(c) = {}
      BY DEF ChainInit, DirectFor
    <2>2. QED
      BY <2>1, FS_EmptySet
  <1>7. QED
    BY <1>1, <1>2, <1>3, <1>4, <1>5, <1>6 DEF Box!BoxInit, BoxVote

LEMMA BoxElectionStep ==
  ASSUME TypeOK, ElectionInv, ElectionStep
  PROVE  Box!NextStage \/ UNCHANGED Box!boxVars
  <1>1. UNCHANGED <<Enrolled, BoxVote, BoxCount, BoxExtra, tally.finalized>>
    BY DEF ElectionStep, Enrolled, BoxVote, BoxCount, BoxExtra, CandidateTotal, DirectFor
  <1>2. /\ election.phase \in 0..5
        /\ DOMAIN election =
             {"created", "schedule", "aggregationKey", "phase", "candidateCount",
              "candidates"}
    BY DEF TypeOK, ElectionTypeOK, ElectionAccount
  <1>3. \/ StageOf' = StageOf
        \/ StageOf' = StageOf + 1 /\ StageOf + 1 \in 0..4
    <2>1. ASSUME NEW sched \in Schedules, NEW key \in Keys, CreateElection(sched, key)
          PROVE  StageOf' = StageOf
      BY <2>1 DEF CreateElection, NoElection, StageOf
    <2>2. ASSUME NEW n \in 0..MAX_CANDIDATES + 1, NEW roster \in [0..(n - 1) -> Names],
                 SetCandidates(n, roster)
          PROVE  \/ StageOf' = StageOf
                 \/ StageOf' = StageOf + 1 /\ StageOf + 1 \in 0..4
      <3>1. /\ election.created /\ election.phase < 2
            /\ election'.created
            /\ election'.phase = IF election.phase = 0 THEN 1 ELSE election.phase
        BY <2>2, <1>2 DEF SetCandidates
      <3>2. QED
        BY <3>1, <1>2 DEF StageOf
    <2>3. ASSUME NEW key \in Keys, RotateAggregationKey(key)
          PROVE  StageOf' = StageOf
      BY <2>3, <1>2 DEF RotateAggregationKey, StageOf
    <2>4. ASSUME NEW target \in Phases, AdvancePhase(target)
          PROVE  \/ StageOf' = StageOf
                 \/ StageOf' = StageOf + 1 /\ StageOf + 1 \in 0..4
      <3>1. /\ election.created /\ election.phase = target - 1
            /\ target \in 2..5
            /\ election'.created /\ election'.phase = target
        BY <2>4, <1>2 DEF AdvancePhase
      <3>2. QED
        BY <3>1 DEF StageOf
    <2>5. CASE Tick
      BY <2>5 DEF Tick, StageOf
    <2>6. QED
      BY <2>1, <2>2, <2>3, <2>4, <2>5 DEF ElectionStep
  <1>4. QED
    BY <1>1, <1>3
    DEF Box!NextStage, Box!Stages, Box!boxVars, BoxVote, BoxCount, BoxExtra

LEMMA BoxRegisterStep ==
  ASSUME NEW at \in 0..MaxLeaves, NEW c \in Commitments,
         TypeOK, RegisterStep(at, c)
  PROVE  Box!Enrol(c.voter)
  <1>1. StageOf = 1 /\ StageOf' = StageOf
    BY DEF RegisterStep, InsertCommitment, StageOf
  <1>2. Enrolled' = Enrolled \cup {c.voter}
    <2>1. /\ DOMAIN leaf' = DOMAIN leaf \cup {at}
          /\ at \notin DOMAIN leaf
          /\ leaf'[at] = c
          /\ \A i \in DOMAIN leaf : leaf'[i] = leaf[i]
      BY DEF RegisterStep, InsertCommitment
    <2>2. QED
      BY <2>1 DEF Enrolled
  <1>3. UNCHANGED <<BoxVote, BoxCount, BoxExtra, tally.finalized>>
    BY DEF RegisterStep, BoxVote, BoxCount, BoxExtra, CandidateTotal, DirectFor
  <1>4. QED
    BY <1>1, <1>2, <1>3 DEF Box!Enrol, Box!Enrolling, BoxVote, BoxCount, BoxExtra

\* The four shards of a candidate hold exactly that candidate's votes.
LEMMA TotalAfterVote ==
  ASSUME NEW candidate \in CountedCandidates, NEW state \in Nat,
         NEW c \in CountedCandidates,
         TypeOK,
         tally'.counters = [tally.counters EXCEPT ![Shard(candidate, state)] = @ + 1]
  PROVE  CandidateTotal(c)' =
           IF c = candidate THEN CandidateTotal(c) + 1 ELSE CandidateTotal(c)
  <1> DEFINE r == state % 4
  <1>1. r \in 0..3 /\ Shard(candidate, state) = candidate * 4 + r
    BY DEF Shard, CANDIDATE_SHARDS
  <1>2. c \in Nat /\ candidate \in Nat
    BY DEF CountedCandidates
  <1>3. /\ c * 4 \in Shards /\ c * 4 + 1 \in Shards
        /\ c * 4 + 2 \in Shards /\ c * 4 + 3 \in Shards
    BY CountersAssumption DEF CountedCandidates, Shards, CANDIDATE_SHARDS
  <1>4. tally.counters \in [Shards -> Nat]
    BY DEF TypeOK, TallyTypeOK
  <1> HIDE DEF r
  <1>5. \A j \in 0..3 : c * 4 + j = candidate * 4 + r <=> c = candidate /\ j = r
    BY <1>1, <1>2
  <1>6. \A s \in Shards :
          tally'.counters[s] =
            IF s = candidate * 4 + r THEN tally.counters[s] + 1 ELSE tally.counters[s]
    BY <1>1, <1>4
  <1>7. \A s \in Shards : tally.counters[s] \in Nat
    BY <1>4
  <1>8. \A j \in 0..3 :
          tally'.counters[c * 4 + j] =
            IF c = candidate /\ j = r
            THEN tally.counters[c * 4 + j] + 1 ELSE tally.counters[c * 4 + j]
    BY <1>2, <1>3, <1>5, <1>6
  <1>9. QED
    BY <1>1, <1>2, <1>3, <1>7, <1>8 DEF CandidateTotal, CANDIDATE_SHARDS

LEMMA BoxCastStep ==
  ASSUME NEW auth \in HonestBallots, NEW index \in 0..MaxLeaves,
         NEW candidate \in CandidateIds, NEW state \in StateIds,
         TypeOK, CastStep(auth, index, candidate, state)
  PROVE  Box!Vote(auth.nullifier, candidate) /\ candidate \in CountedCandidates
  <1> DEFINE n == auth.nullifier
  <1>1. StageOf = 3 /\ StageOf' = StageOf /\ ~tally.finalized
    BY DEF CastStep, Cast, AccumulateVotes, StageOf
  <1>2. n \in Enrolled /\ Enrolled' = Enrolled
    BY DEF CastStep, Cast, HonestBallots, Enrolled
  <1>3. /\ n \notin DOMAIN BoxVote
        /\ BoxVote' = [m \in DOMAIN BoxVote \cup {n} |->
                         IF m = n THEN candidate ELSE BoxVote[m]]
    BY DEF CastStep, Cast, BoxVote
  <1>4. /\ tally'.counters = [tally.counters EXCEPT ![Shard(candidate, state)] = @ + 1]
        /\ tally'.finalized = tally.finalized
    BY DEF CastStep, Cast, AccumulateVotes, TypeOK, TallyTypeOK
  <1>5. candidate \in CountedCandidates /\ state \in Nat
    BY ElectionAssumption, StateAssumption, CountersAssumption
    DEF CastStep, Cast, AccumulateVotes, CandidateIds, CountedCandidates,
        CANDIDATE_SHARDS
  <1>6. \A c \in CountedCandidates :
          CandidateTotal(c)' =
            IF c = candidate THEN CandidateTotal(c) + 1 ELSE CandidateTotal(c)
    BY <1>4, <1>5, TotalAfterVote
  <1>7. BoxCount' = [BoxCount EXCEPT ![candidate] = @ + 1]
    BY <1>5, <1>6 DEF BoxCount
  <1>8. UNCHANGED BoxExtra
    BY DEF CastStep, BoxExtra, DirectFor
  <1>9. QED
    BY <1>1, <1>2, <1>3, <1>4, <1>5, <1>7, <1>8
    DEF Box!Vote, Box!Polling, BoxVote, BoxCount, BoxExtra

\* The shard of an entry of the history names its candidate.
LEMMA ShardNamesCandidate ==
  ASSUME NEW candidate \in Nat, NEW state \in Nat
  PROVE  Shard(candidate, state) \div CANDIDATE_SHARDS = candidate
  <1>1. state % 4 \in 0..3
    OBVIOUS
  <1>2. QED
    BY <1>1 DEF Shard, CANDIDATE_SHARDS

LEMMA BoxDirectStep ==
  ASSUME NEW candidate \in SentCandidates, NEW state \in StateIds,
         TypeOK, DirectStep(candidate, state)
  PROVE  Box!AddByHand(candidate) /\ candidate \in CountedCandidates
  <1> DEFINE own == Shard(candidate, state)
  <1>1. /\ candidate \in CountedCandidates /\ own \in Shards
        /\ direct' = Append(direct, own)
        /\ tally'.counters = [tally.counters EXCEPT ![own] = @ + 1]
        /\ ~tally.finalized /\ tally'.finalized = tally.finalized
        /\ UNCHANGED <<election, leaf, ballots>>
    <2>1. tally.finalized \in BOOLEAN /\ tally'.finalized \in BOOLEAN
      BY DirectStepEffect DEF TypeOK, TallyTypeOK
    <2>2. QED
      BY <2>1, DirectStepEffect
  <1>2. candidate \in Nat /\ state \in Nat
    BY <1>1, StateAssumption DEF CountedCandidates
  <1>3. \A c \in CountedCandidates :
          CandidateTotal(c)' =
            IF c = candidate THEN CandidateTotal(c) + 1 ELSE CandidateTotal(c)
    BY <1>1, <1>2, TotalAfterVote
  <1>4. \A c \in CountedCandidates :
          Cardinality(DirectFor(c)') =
            IF c = candidate THEN Cardinality(DirectFor(c)) + 1
            ELSE Cardinality(DirectFor(c))
    <2>1. own \div CANDIDATE_SHARDS = candidate
      BY <1>2, ShardNamesCandidate
    <2>2. \A c : Cardinality(DirectFor(c)) \in Nat
      BY DirectFinite DEF DirectFor, TypeOK
    <2> HIDE DEF own
    <2>3. \A c : Cardinality(DirectFor(c)') =
                   Cardinality(DirectFor(c))
                     + (IF own \div CANDIDATE_SHARDS = c THEN 1 ELSE 0)
      BY <1>1, DirectAppended DEF TypeOK
    <2>4. QED
      BY <2>1, <2>2, <2>3
  <1>5. /\ BoxCount' = [BoxCount EXCEPT ![candidate] = @ + 1]
        /\ BoxExtra' = [BoxExtra EXCEPT ![candidate] = @ + 1]
    BY <1>1, <1>3, <1>4 DEF BoxCount, BoxExtra
  <1>6. UNCHANGED <<StageOf, Enrolled, BoxVote>>
    BY <1>1 DEF StageOf, Enrolled, BoxVote
  <1>7. QED
    BY <1>1, <1>5, <1>6 DEF Box!AddByHand, BoxCount, BoxExtra, BoxVote

LEMMA BoxStep ==
  ASSUME TypeOK, CountInv, OrderInv, [ChainNext]_chainVars
  PROVE  [Box!BoxNext]_(Box!boxVars)
  <1> USE DEF Box!boxVars, BoxVote, BoxCount, BoxExtra
  <1>1. CASE ElectionStep
    BY <1>1, BoxElectionStep DEF OrderInv, Box!BoxNext
  <1>2. CASE RegistrySetup
    BY <1>2
    DEF RegistrySetup, InitVoterRegistry, StageOf, Enrolled, CandidateTotal, DirectFor
  <1>3. ASSUME NEW at \in 0..MaxLeaves, NEW c \in Commitments, RegisterStep(at, c)
        PROVE  Box!BoxNext
    BY <1>3, BoxRegisterStep DEF Commitments, Box!BoxNext
  <1>4. ASSUME NEW auth \in HonestBallots, NEW index \in 0..MaxLeaves,
               NEW candidate \in CandidateIds, NEW state \in StateIds,
               CastStep(auth, index, candidate, state)
        PROVE  Box!BoxNext
    <2>1. auth.nullifier \in Voters
      BY DEF HonestBallots, Authorisations, Nullifiers
    <2>2. QED
      BY <1>4, <2>1, BoxCastStep DEF Box!BoxNext
  <1>5. CASE TallySetup
    <2>1. /\ tally.finalized = FALSE /\ tally'.finalized = FALSE
          /\ ballots = << >>
          /\ tally' = ZeroTally(TRUE)
      BY <1>5 DEF TallySetup, InitTally, ZeroTally, CountInv, TypeOK, TallyTypeOK
    <2>2. \A s \in Shards : BallotsIn(s) = {} /\ DirectIn(s) = {}
      BY <1>5, <2>1 DEF BallotsIn, DirectIn, TallySetup, InitTally, CountInv
    <2>e. Cardinality({}) = 0 /\ 0 + 0 = 0
      BY FS_EmptySet
    <2>3. \A s \in Shards : tally.counters[s] = 0 /\ tally'.counters[s] = 0
      BY <2>1, <2>2, <2>e DEF CountInv, CountMatchesBallots, ZeroTally
    <2>4. ASSUME NEW c \in CountedCandidates
          PROVE  CandidateTotal(c)' = CandidateTotal(c)
      <3>1. /\ c * 4 \in Shards /\ c * 4 + 1 \in Shards
            /\ c * 4 + 2 \in Shards /\ c * 4 + 3 \in Shards
        BY CountersAssumption DEF CountedCandidates, Shards, CANDIDATE_SHARDS
      <3>2. QED
        BY <2>3, <3>1 DEF CandidateTotal, CANDIDATE_SHARDS
    <2>5. BoxCount' = BoxCount
      BY <2>4
    <2>6. UNCHANGED <<StageOf, Enrolled, BoxVote, BoxExtra, tally.finalized>>
      BY <1>5, <2>1 DEF TallySetup, StageOf, Enrolled, DirectFor
    <2>7. QED
      BY <2>5, <2>6
  <1>6. CASE TallyFinalisation
    <2>1. /\ UNCHANGED <<StageOf, Enrolled, BoxVote, BoxCount, BoxExtra>>
          /\ ~tally.finalized
          /\ tally'.finalized = TRUE
      BY <1>6 DEF TallyFinalisation, FinaliseTally, StageOf, Enrolled,
                  CandidateTotal, DirectFor, TypeOK, TallyTypeOK
    <2>2. QED
      BY <2>1 DEF Box!Seal, Box!BoxNext
  <1>7. CASE UNCHANGED chainVars
    BY <1>7 DEF chainVars, StageOf, Enrolled, CandidateTotal, DirectFor
  <1>8. ASSUME NEW candidate \in SentCandidates, NEW state \in StateIds,
               DirectStep(candidate, state)
        PROVE  Box!BoxNext
    BY <1>8, BoxDirectStep DEF Box!BoxNext
  <1>9. QED
    BY <1>1, <1>2, <1>3, <1>4, <1>5, <1>6, <1>7, <1>8 DEF ChainNext

\* The four programs implement the ballot box: at most one vote per enrolled
\* person, counted at once for the candidate it names; every other addition to
\* the count is an accumulate_votes sent by hand; and nothing after sealing.
THEOREM ChainImplementsBallotBox == ChainSpec => ImplementsBallotBox
  <1>1. TypeOK /\ CountInv /\ OrderInv /\ [ChainNext]_chainVars
          => [Box!BoxNext]_(Box!boxVars)
    BY BoxStep
  <1>2. QED
    BY <1>1, BoxInitRefined, OrderInvInit, OrderInvStep, CountInvInit,
       CountInvStep, ChainTypeCorrect, PTL
    DEF ChainSpec, ImplementsBallotBox, Box!BoxSpec
=============================================================================
