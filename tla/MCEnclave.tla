----------------------------- MODULE MCEnclave ------------------------------
(***************************************************************************)
(* Small instances of Enclave for TLC.                                     *)
(***************************************************************************)
EXTENDS Enclave, TLC

MCSchedules == {[registrationOpen |-> 0, registrationClose |-> 1,
                 votingOpen |-> 1, votingClose |-> 2]}

\* The units lie in states that share a shard.
MCPollingState == [u \in Units |-> IF u = CHOOSE x \in Units : TRUE THEN 1 ELSE 5]

\* Voters are interchangeable, and so are requests.
RequestSymmetry == Permutations(Requests)
Symmetry == RequestSymmetry \cup Permutations(Voters)
=============================================================================
