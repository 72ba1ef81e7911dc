---------------------------- MODULE MCSmtMirror -----------------------------
(***************************************************************************)
(* Small instances of SmtMirror for TLC.                                   *)
(***************************************************************************)
EXTENDS SmtMirror, TLC

MCSchedules == {[registrationOpen |-> 0, registrationClose |-> 1,
                 votingOpen |-> 1, votingClose |-> 2]}

\* Voters are interchangeable, and so are runs of register-voter.
MirrorSymmetry == Permutations(Relayers) \cup Permutations(Voters)
=============================================================================
