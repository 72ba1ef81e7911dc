------------------------------ MODULE MCAudit -------------------------------
(***************************************************************************)
(* Small instances of Audit for TLC.                                       *)
(***************************************************************************)
EXTENDS Audit, TLC

\* Registration and voting take one slot each.
MCSchedules == {[registrationOpen |-> 0, registrationClose |-> 1,
                 votingOpen |-> 1, votingClose |-> 2]}

\* Voters are interchangeable, and so are the candidates' names.
Symmetry == Permutations(Voters) \cup Permutations(Names)
=============================================================================
