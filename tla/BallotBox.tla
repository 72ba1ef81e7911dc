----------------------------- MODULE BallotBox ------------------------------
(***************************************************************************)
(* What the four programs promise together, with no account, slot, key,    *)
(* leaf or nullifier in sight: a ballot box.  People enrol while the roll  *)
(* is open; while the polls are open each enrolled person puts at most one *)
(* vote in, which is counted at once for its candidate.  The count can be  *)
(* added to by hand, without a vote, and how often that was done is known. *)
(* A sealed box takes no more votes and its count stays.                   *)
(***************************************************************************)
EXTENDS Integers

CONSTANTS People, Options

VARIABLES
    stage,   \* where the election stands
    roll,    \* the people enrolled
    vote,    \* person -> choice, for those who voted
    count,   \* choice -> votes counted for it
    extra,   \* choice -> how many of them nobody put in
    sealed   \* the count is final

boxVars == <<stage, roll, vote, count, extra, sealed>>

\* The stages in order: the roll is being prepared, is open, is closed, the
\* polls are open, the polls are closed.
Stages == 0..4
Enrolling == 1
Polling == 3

BoxInit ==
    /\ stage = 0
    /\ roll = {}
    /\ vote = << >>
    /\ count = [c \in Options |-> 0]
    /\ extra = [c \in Options |-> 0]
    /\ sealed = FALSE

NextStage ==
    /\ stage + 1 \in Stages
    /\ stage' = stage + 1
    /\ UNCHANGED <<roll, vote, count, extra, sealed>>

Enrol(p) ==
    /\ stage = Enrolling
    /\ roll' = roll \cup {p}
    /\ UNCHANGED <<stage, vote, count, extra, sealed>>

Vote(p, c) ==
    /\ stage = Polling
    /\ ~sealed
    /\ p \in roll
    /\ p \notin DOMAIN vote
    /\ vote' = [q \in DOMAIN vote \cup {p} |-> IF q = p THEN c ELSE vote[q]]
    /\ count' = [count EXCEPT ![c] = @ + 1]
    /\ UNCHANGED <<stage, roll, extra, sealed>>

AddByHand(c) ==
    /\ ~sealed
    /\ count' = [count EXCEPT ![c] = @ + 1]
    /\ extra' = [extra EXCEPT ![c] = @ + 1]
    /\ UNCHANGED <<stage, roll, vote, sealed>>

Seal ==
    /\ ~sealed
    /\ sealed' = TRUE
    /\ UNCHANGED <<stage, roll, vote, count, extra>>

BoxNext ==
    \/ NextStage
    \/ \E p \in People : Enrol(p)
    \/ \E p \in People, c \in Options : Vote(p, c)
    \/ \E c \in Options : AddByHand(c)
    \/ Seal

BoxSpec == BoxInit /\ [][BoxNext]_boxVars
=============================================================================
