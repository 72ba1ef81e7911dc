----------------------------- MODULE SmtMirror ------------------------------
(***************************************************************************)
(* The SMT server next to the leaf log.  The server keeps its tree in      *)
(* memory; it hears of a leaf from the admin client's register-voter,      *)
(* which posts the commitment after the transaction that inserted it, and  *)
(* ignores the outcome.  The enclave servers insert leaves as well and     *)
(* tell nobody.                                                            *)
(***************************************************************************)
EXTENDS VoterRegistry, Merkle

CONSTANTS
    Relayers,          \* runs of register-voter under way at once
    MaxLeaves,         \* bound on the leaves of the log
    Idle

\* The tree's documented capacity; no code refuses a leaf beyond it.
ASSUME CapacityAssumption == MaxLeaves \in Nat /\ MaxLeaves <= 2 ^ DEPTH

VARIABLES
    mirror,   \* the tree: leaves in insertion order, and the index of each
    relayer,  \* what each of them is doing
    serial    \* the operator starts one run at a time; chosen once

mirrorVars == <<slot, election, registry, leaf, mirror, relayer, serial>>

Registrations == [pc : {"sent", "gone", "notify"}, commitment : Commitments, index : Nat]

EmptyMirror == [leaves |-> << >>, index |-> << >>]

MirrorTypeOK ==
    /\ ElectionTypeOK
    /\ RegistryTypeOK
    /\ mirror.leaves \in Seq(Commitments)
    /\ mirror.index \in [DOMAIN mirror.index -> Nat]
    /\ relayer \in [Relayers -> Registrations \cup {Idle}]
    /\ serial \in BOOLEAN

MirrorInit ==
    /\ ElectionInit
    /\ RegistryInit
    /\ mirror = EmptyMirror
    /\ relayer = [r \in Relayers |-> Idle]
    /\ serial \in BOOLEAN

-----------------------------------------------------------------------------
(* The server *)

\* Variant: does not look the commitment up.
InsertTwice(c) ==
    mirror' = [leaves |-> Append(mirror.leaves, c),
               index  |-> [d \in DOMAIN mirror.index \cup {c} |->
                             IF d = c THEN Len(mirror.leaves) ELSE mirror.index[d]]]

Insert(c) ==
    \/ /\ c \in DOMAIN mirror.index
       /\ UNCHANGED mirror
    \/ /\ c \notin DOMAIN mirror.index
       /\ mirror' = [leaves |-> Append(mirror.leaves, c),
                     index  |-> [d \in DOMAIN mirror.index \cup {c} |->
                                   IF d = c THEN Len(mirror.leaves) ELSE mirror.index[d]]]

\* The tree lives in memory only.
RestartServer ==
    /\ mirror' = EmptyMirror
    /\ UNCHANGED <<slot, election, registry, leaf, relayer, serial>>

-----------------------------------------------------------------------------
(* register-voter *)

Running(r) == relayer[r] # Idle

\* Reads the leaf count and sends the transaction.
Send(r, c) ==
    /\ relayer[r] = Idle
    /\ registry.created
    /\ serial => \A q \in Relayers : Running(q) => relayer[q].pc = "gone"
    /\ relayer' = [relayer EXCEPT ![r] =
                     [pc |-> "sent", commitment |-> c, index |-> registry.leafCount]]
    /\ UNCHANGED <<slot, election, registry, leaf, mirror, serial>>

\* The client stops waiting for a transaction that may still land.
GiveUp(r) ==
    /\ Running(r) /\ relayer[r].pc = "sent"
    /\ relayer' = [relayer EXCEPT ![r].pc = "gone"]
    /\ UNCHANGED <<slot, election, registry, leaf, mirror, serial>>

Land(r) ==
    /\ Running(r) /\ relayer[r].pc \in {"sent", "gone"}
    /\ registry.leafCount < MaxLeaves
    /\ InsertCommitment(relayer[r].index, relayer[r].commitment)
    /\ \/ /\ relayer[r].pc = "sent"
          /\ relayer' = [relayer EXCEPT ![r].pc = "notify"]
       \/ /\ relayer[r].pc = "gone"
          /\ relayer' = [relayer EXCEPT ![r] = Idle]
    /\ UNCHANGED <<slot, election, mirror, serial>>

\* Variant: posts the commitment also when the transaction has failed.
RejectAndNotify(r) ==
    /\ Running(r) /\ relayer[r].pc \in {"sent", "gone"}
    /\ relayer' = [relayer EXCEPT ![r] = Idle]
    /\ Insert(relayer[r].commitment)
    /\ UNCHANGED <<slot, election, registry, leaf, serial>>

\* The program rejects the transaction, or it is dropped.
Reject(r) ==
    /\ Running(r) /\ relayer[r].pc \in {"sent", "gone"}
    /\ relayer' = [relayer EXCEPT ![r] = Idle]
    /\ UNCHANGED <<slot, election, registry, leaf, mirror, serial>>

Notify(r) ==
    /\ Running(r) /\ relayer[r].pc = "notify"
    /\ Insert(relayer[r].commitment)
    /\ relayer' = [relayer EXCEPT ![r] = Idle]
    /\ UNCHANGED <<slot, election, registry, leaf, serial>>

\* An error of the call is ignored.
NotifyFails(r) ==
    /\ Running(r) /\ relayer[r].pc = "notify"
    /\ relayer' = [relayer EXCEPT ![r] = Idle]
    /\ UNCHANGED <<slot, election, registry, leaf, mirror, serial>>

-----------------------------------------------------------------------------
(* The rest of the deployment *)

\* An enclave server's registration lands.
EnclaveRegisters(c) ==
    /\ registry.leafCount < MaxLeaves
    /\ InsertCommitment(registry.leafCount, c)
    /\ UNCHANGED <<slot, election, mirror, relayer, serial>>

MirrorAdminister ==
    \/ /\ \/ \E sched \in Schedules, key \in Keys : CreateElection(sched, key)
          \/ \E roster \in [{0} -> Names] : SetCandidates(1, roster)
          \/ \E target \in Phases : AdvancePhase(target)
          \/ Tick
       /\ UNCHANGED <<registry, leaf, mirror, relayer, serial>>
    \/ /\ InitVoterRegistry
       /\ UNCHANGED <<slot, election, mirror, relayer, serial>>

RelayerStep(r) ==
    \/ \E c \in Commitments : Send(r, c)
    \/ GiveUp(r) \/ Land(r) \/ Reject(r)
    \/ Notify(r) \/ NotifyFails(r)

MirrorNext ==
    \/ MirrorAdminister
    \/ \E r \in Relayers : RelayerStep(r)
    \/ \E c \in Commitments : EnclaveRegisters(c)
    \/ RestartServer

MirrorSpec == MirrorInit /\ [][MirrorNext]_mirrorVars

-----------------------------------------------------------------------------
(* Properties *)

\* The server never vouches for a commitment that is not in the log: what it
\* can prove membership of is a leaf, whatever fails or restarts.
MirrorSound ==
    \A i \in DOMAIN mirror.leaves : \E j \in DOMAIN leaf : leaf[j] = mirror.leaves[i]

\* The map by which proofs are looked up and the list from which they are
\* computed agree: each commitment has one place.
IndexNamesLeaf ==
    /\ \A i \in DOMAIN mirror.leaves :
          /\ mirror.leaves[i] \in DOMAIN mirror.index
          /\ mirror.index[mirror.leaves[i]] = i - 1
    /\ \A c \in DOMAIN mirror.index :
          /\ mirror.index[c] + 1 \in DOMAIN mirror.leaves
          /\ mirror.leaves[mirror.index[c] + 1] = c

\* The root that the server computes along the frontier is the root of the
\* whole tree.
RootIsReference == Root(mirror.leaves) = ReferenceRoot(mirror.leaves)

\* Every membership proof that the server hands out leads the programs' path
\* computation to its root.
ProofsVerify ==
    \A c \in DOMAIN mirror.index :
       LET index == mirror.index[c]
       IN  ComputeRootFromPath(LeafHash(c), SiblingPath(mirror.leaves, index), index)
             = Root(mirror.leaves)

\* The insertion path leads from an empty leaf to the present root and, with
\* any commitment in that place, to the root after its insertion.
AppendsVerify ==
    LET next == Len(mirror.leaves)
        path == SiblingPath(mirror.leaves, next)
    IN  next < 2 ^ DEPTH =>
          /\ ComputeRootFromPath(EmptyLeaf, path, next) = Root(mirror.leaves)
          /\ \A c \in Commitments :
                ComputeRootFromPath(LeafHash(c), path, next)
                  = Root(Append(mirror.leaves, c))

\* Whoever asks for a path, of a leaf or of the next empty place, is given one
\* that the programs can check, at every number of leaves.
PathsVerify == ProofsVerify /\ AppendsVerify

\* When register-voter runs one at a time, the tree is a subsequence of the
\* log, whatever notification is lost, whenever the server restarts, and
\* whatever is registered twice or elsewhere.  Hence, when the counts of /root
\* and of the header agree, so do the trees.
OrderKept ==
    serial =>
      \E at \in [DOMAIN mirror.leaves -> DOMAIN leaf] :
         /\ \A i \in DOMAIN mirror.leaves : leaf[at[i]] = mirror.leaves[i]
         /\ \A i, j \in DOMAIN mirror.leaves : i < j => at[i] < at[j]
=============================================================================
