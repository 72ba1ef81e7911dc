--------------------------- MODULE VoterRegistry ----------------------------
(***************************************************************************)
(* The voter_registry program: the registry header and the append-only log *)
(* of LeafAccounts.                                                        *)
(*                                                                         *)
(* A commitment is a Pedersen commitment to a voter's credential and       *)
(* polling unit under a random blinding.  It is binding, so two            *)
(* commitments are equal only when all three agree, and a commitment is    *)
(* the record of what it commits to.  SHA-256 is collision-free, so a      *)
(* Merkle root is the sequence of leaves it was computed from; << >> is    *)
(* the root of the empty tree.                                             *)
(***************************************************************************)
EXTENDS ElectionRegistry, Sequences

CONSTANTS
    Voters,     \* the people in the NIMC register
    StateIds,   \* state ids of the polling units
    Blindings   \* blinding scalars

ASSUME StateAssumption == StateIds \subseteq Nat

Commitments == [voter : Voters, state : StateIds, blinding : Blindings]

VARIABLES
    registry,  \* VoterRegistryAccount header
    leaf       \* LeafAccounts: index -> commitment, for the indices created

registryVars == <<registry, leaf>>

RegistryTypeOK ==
    /\ registry \in [created : BOOLEAN, leafCount : Nat,
                     merkleRoot : Seq(Commitments)]
    /\ DOMAIN leaf \subseteq Nat
    /\ leaf \in [DOMAIN leaf -> Commitments]

EmptyTreeRoot == << >>

RegistryInit ==
    /\ registry = [created |-> FALSE, leafCount |-> 0, merkleRoot |-> EmptyTreeRoot]
    /\ leaf = << >>

-----------------------------------------------------------------------------
(* Instructions *)

\* Variant: the header may be initialised again.
ReInitVoterRegistry ==
    /\ registry' = [created |-> TRUE, leafCount |-> 0, merkleRoot |-> EmptyTreeRoot]
    /\ UNCHANGED leaf

InitVoterRegistry ==
    /\ ~registry.created
    /\ registry' = [created |-> TRUE, leafCount |-> 0, merkleRoot |-> EmptyTreeRoot]
    /\ UNCHANGED leaf

\* Variant: trusts the transaction's index instead of the header's count.
InsertCommitmentAnywhere(at, commitment) ==
    /\ election.created
    /\ election.phase = REG_OPEN
    /\ slot < election.schedule.registrationClose
    /\ registry.created
    /\ at \notin DOMAIN leaf
    /\ leaf' = [i \in DOMAIN leaf \cup {at} |->
                  IF i = at THEN commitment ELSE leaf[i]]
    /\ registry' = [registry EXCEPT !.leafCount = at + 1]

\* at is the index whose LeafAccount PDA the transaction carries.  The leaf
\* is created with the seeds of the current leaf count, so a transaction
\* built for another index fails, as does one whose leaf already exists.
InsertCommitment(at, commitment) ==
    /\ election.created
    /\ election.phase = REG_OPEN
    /\ slot < election.schedule.registrationClose
    /\ registry.created
    /\ at = registry.leafCount
    /\ at \notin DOMAIN leaf
    /\ leaf' = [i \in DOMAIN leaf \cup {at} |->
                  IF i = at THEN commitment ELSE leaf[i]]
    /\ registry' = [registry EXCEPT !.leafCount = at + 1]
=============================================================================
