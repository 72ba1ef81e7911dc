------------------------------ MODULE MCChain -------------------------------
(***************************************************************************)
(* Small instances of Chain for TLC.                                       *)
(***************************************************************************)
EXTENDS Chain, TLC

\* One schedule that create_election accepts; the others break one ordering
\* each, by one slot.
Good == [registrationOpen |-> 0, registrationClose |-> 1,
         votingOpen |-> 2, votingClose |-> 4]
EmptyRegistration == [Good EXCEPT !.registrationClose = 0]
Overlapping == [Good EXCEPT !.registrationClose = 3]
EmptyVoting == [Good EXCEPT !.votingClose = 2]

MCSchedules == {Good, EmptyRegistration, Overlapping, EmptyVoting}

\* Voters are interchangeable, and so are the candidates' names and the keys.
Symmetry == Permutations(Voters) \cup Permutations(Names) \cup Permutations(Keys)
=============================================================================
