--------------------------- MODULE MCPhaseMonitor ---------------------------
(***************************************************************************)
(* Small instances of PhaseMonitor for TLC.                                *)
(***************************************************************************)
EXTENDS PhaseMonitor

\* With and without a gap between the two gates.
MCSchedules == {[registrationOpen |-> 1, registrationClose |-> 2,
                 votingOpen |-> 2, votingClose |-> 4],
                [registrationOpen |-> 1, registrationClose |-> 2,
                 votingOpen |-> 3, votingClose |-> 4]}
=============================================================================
