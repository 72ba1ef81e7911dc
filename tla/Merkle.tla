------------------------------- MODULE Merkle -------------------------------
(***************************************************************************)
(* The Merkle tree of the SMT server and the path functions that the       *)
(* programs and the clients share with it.                                 *)
(*                                                                         *)
(* SHA-256 has no collisions, so a digest is the tuple of what was hashed: *)
(* a leaf of one part, a node of two; the empty leaf, which is no digest,  *)
(* is << >>.                                                               *)
(***************************************************************************)
EXTENDS Integers, Sequences

CONSTANT DEPTH  \* levels above the leaves, 28 in the code

ASSUME DepthAssumption == DEPTH \in Nat

EmptyLeaf == << >>
LeafHash(commitment) == <<commitment>>
NodeHash(left, right) == <<left, right>>

EmptySubtree[level \in 0..DEPTH] ==
    IF level = 0 THEN EmptyLeaf
    ELSE NodeHash(EmptySubtree[level - 1], EmptySubtree[level - 1])

\* Variant: the right half starts as far away as the next subtree.
SubtreeHashWide(leaves, level, start) ==
    LET hash[l \in 0..DEPTH] ==
          [s \in Nat |->
             IF s >= Len(leaves) THEN EmptySubtree[l]
             ELSE IF l = 0 THEN LeafHash(leaves[s + 1])
             ELSE NodeHash(hash[l - 1][s], hash[l - 1][s + 2 ^ l])]
    IN  hash[level][start]

\* The subtree of height level whose leaves begin at start.
SubtreeHash(leaves, level, start) ==
    LET hash[l \in 0..DEPTH] ==
          [s \in Nat |->
             IF s >= Len(leaves) THEN EmptySubtree[l]
             ELSE IF l = 0 THEN LeafHash(leaves[s + 1])
             ELSE NodeHash(hash[l - 1][s], hash[l - 1][s + 2 ^ (l - 1)])]
    IN  hash[level][start]

Root(leaves) == SubtreeHash(leaves, DEPTH, 0)

\* The node next to a node, x ^ 1.
Sibling(node) == IF node % 2 = 0 THEN node + 1 ELSE node - 1

\* Variant: on every level the sibling on the right.
SiblingPathRight(leaves, index) ==
    [i \in 1..DEPTH |->
       SubtreeHash(leaves, i - 1, ((index \div 2 ^ (i - 1)) + 1) * 2 ^ (i - 1))]

\* The siblings on the way from a leaf to the root.  A membership proof is
\* this path for a leaf of the tree, an insertion path the one for the next.
SiblingPath(leaves, index) ==
    [i \in 1..DEPTH |->
       SubtreeHash(leaves, i - 1, Sibling(index \div 2 ^ (i - 1)) * 2 ^ (i - 1))]

\* compute_root_from_path of the programs; the bits of index say on which
\* side the sibling of a level is.
ComputeRootFromPath(leafHash, path, index) ==
    LET walk[i \in 0..DEPTH] ==
          IF i = 0 THEN leafHash
          ELSE IF (index \div 2 ^ (i - 1)) % 2 = 0 THEN NodeHash(walk[i - 1], path[i])
          ELSE NodeHash(path[i], walk[i - 1])
    IN  walk[DEPTH]

\* What the root of a Merkle tree is: pair the whole layer of 2^DEPTH leaves,
\* the unused ones empty, until one node is left.
ReferenceRoot(leaves) ==
    LET layer[l \in 0..DEPTH] ==
          [n \in 0..(2 ^ (DEPTH - l) - 1) |->
             IF l > 0 THEN NodeHash(layer[l - 1][2 * n], layer[l - 1][2 * n + 1])
             ELSE IF n < Len(leaves) THEN LeafHash(leaves[n + 1]) ELSE EmptyLeaf]
    IN  layer[DEPTH][0]
=============================================================================
