------------------------------- MODULE Ballot -------------------------------
(***************************************************************************)
(* The ballot program: cast checks a ballot against the election, the      *)
(* voter's leaf and the HSM's signature, spends the nullifier, stores the  *)
(* ballot and counts it by CPI, all in one transaction.                    *)
(***************************************************************************)
EXTENDS Tally

VARIABLES
    nullifiers,  \* the NullifierAccounts that exist
    ballots      \* BallotAccounts: nullifier -> ballot

ballotVars == <<nullifiers, ballots>>

\* A nullifier is a deterministic function of the voter's credential and the
\* election, so in one election it is named by the voter.
Nullifiers == Voters

\* Ed25519 ballot authorisation: the signing key and the signed message.
Authorisations == [key : Keys, nullifier : Nullifiers, commitment : Commitments]

BallotRecord == [state : StateIds, candidate : Nat, slot : Nat]

BallotTypeOK ==
    /\ nullifiers \subseteq Nullifiers
    /\ DOMAIN ballots \subseteq Nullifiers
    /\ ballots \in [DOMAIN ballots -> BallotRecord]

BallotInit ==
    /\ nullifiers = {}
    /\ ballots = << >>

\* Variant: spends a nullifier without asking whether it is spent.
CastTwice(auth, index, candidate, state) ==
    /\ election.created
    /\ election.phase = VOTING_OPEN
    /\ slot < election.schedule.votingClose
    /\ candidate < election.candidateCount
    /\ registry.created
    /\ index \in DOMAIN leaf
    /\ auth.key = election.aggregationKey
    /\ auth.commitment = leaf[index]
    /\ nullifiers' = nullifiers \cup {auth.nullifier}
    /\ ballots' = [n \in DOMAIN ballots \cup {auth.nullifier} |->
                     IF n = auth.nullifier
                     THEN [state |-> state, candidate |-> candidate, slot |-> slot]
                     ELSE ballots[n]]
    /\ AccumulateVotes(candidate, state)

\* Variant: the closing slot still belongs to the voting window.
CastInClosingSlot(auth, index, candidate, state) ==
    /\ election.created
    /\ election.phase = VOTING_OPEN
    /\ slot <= election.schedule.votingClose
    /\ candidate < election.candidateCount
    /\ registry.created
    /\ index \in DOMAIN leaf
    /\ auth.key = election.aggregationKey
    /\ auth.commitment = leaf[index]
    /\ auth.nullifier \notin nullifiers
    /\ nullifiers' = nullifiers \cup {auth.nullifier}
    /\ auth.nullifier \notin DOMAIN ballots
    /\ ballots' = [n \in DOMAIN ballots \cup {auth.nullifier} |->
                     IF n = auth.nullifier
                     THEN [state |-> state, candidate |-> candidate, slot |-> slot]
                     ELSE ballots[n]]
    /\ AccumulateVotes(candidate, state)

\* Variant: any existing leaf will do, whatever commitment was signed.
CastAnyLeaf(auth, index, candidate, state) ==
    /\ election.created
    /\ election.phase = VOTING_OPEN
    /\ slot < election.schedule.votingClose
    /\ candidate < election.candidateCount
    /\ registry.created
    /\ index \in DOMAIN leaf
    /\ auth.key = election.aggregationKey
    /\ auth.nullifier \notin nullifiers
    /\ nullifiers' = nullifiers \cup {auth.nullifier}
    /\ auth.nullifier \notin DOMAIN ballots
    /\ ballots' = [n \in DOMAIN ballots \cup {auth.nullifier} |->
                     IF n = auth.nullifier
                     THEN [state |-> state, candidate |-> candidate, slot |-> slot]
                     ELSE ballots[n]]
    /\ AccumulateVotes(candidate, state)

\* cast: the relayer passes the leaf's index, the HSM's authorisation and the
\* voter's choice.  The signature check compares the signed commitment with
\* the one in the leaf.  AccumulateVotes is the CPI: where it fails, the
\* whole transaction fails.
Cast(auth, index, candidate, state) ==
    /\ election.created
    /\ election.phase = VOTING_OPEN
    /\ slot < election.schedule.votingClose
    /\ candidate < election.candidateCount
    /\ registry.created
    /\ index \in DOMAIN leaf
    /\ auth.key = election.aggregationKey
    /\ auth.commitment = leaf[index]
    /\ auth.nullifier \notin nullifiers
    /\ nullifiers' = nullifiers \cup {auth.nullifier}
    /\ auth.nullifier \notin DOMAIN ballots
    /\ ballots' = [n \in DOMAIN ballots \cup {auth.nullifier} |->
                     IF n = auth.nullifier
                     THEN [state |-> state, candidate |-> candidate, slot |-> slot]
                     ELSE ballots[n]]
    /\ AccumulateVotes(candidate, state)
=============================================================================
