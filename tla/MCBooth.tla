------------------------------ MODULE MCBooth -------------------------------
(***************************************************************************)
(* Small instances of Booth for TLC.                                       *)
(***************************************************************************)
EXTENDS Booth, TLC

\* Voters are interchangeable, and so are candidates.
BoothSymmetry == Permutations(Voters) \cup Permutations(Candidates)
=============================================================================
