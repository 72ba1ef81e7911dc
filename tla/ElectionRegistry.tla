-------------------------- MODULE ElectionRegistry --------------------------
(***************************************************************************)
(* The election_registry program: one ElectionAccount, the state machine   *)
(* of its phases, and the cluster's slot clock that its gates read.        *)
(*                                                                         *)
(* An instruction that the program rejects leaves the ledger as it was, so *)
(* an action is an accepted instruction: its guard is the conjunction of   *)
(* the handler's early returns.  The checks that an account is the right   *)
(* one (PDA derivation, owner, discriminator, election id, authority key)  *)
(* are abstracted: there is one election and its authority sends the       *)
(* instructions that need one.                                             *)
(***************************************************************************)
EXTENDS Integers

CONSTANTS
    MAX_CANDIDATES,  \* capacity of the inline roster, 32 in the code
    Names,           \* contents of a Candidate entry
    Blank,           \* the zeroed entry of a freshly allocated account
    Keys,            \* aggregation (ballot-signing) public keys
    ZeroKey,         \* the zeroed key of an account that does not exist
    Schedules,       \* slot schedules an authority may ask for
    MaxSlot          \* bound: the slot at which the clock stops

Schedule == [registrationOpen : Nat, registrationClose : Nat,
             votingOpen : Nat, votingClose : Nat]

ASSUME ElectionAssumption ==
    /\ MAX_CANDIDATES \in Nat \ {0}
    /\ MaxSlot \in Nat
    /\ Schedules \subseteq Schedule
    /\ Blank \notin Names
    /\ ZeroKey \notin Keys

VARIABLES
    slot,     \* Clock sysvar
    election  \* ElectionAccount; created is FALSE while the PDA has no data

electionVars == <<slot, election>>

DRAFT         == 0
REG_OPEN      == 1
REG_CLOSED    == 2
VOTING_OPEN   == 3
VOTING_CLOSED == 4
TALLIED       == 5

Phases == DRAFT..TALLIED
CandidateIds == 0..(MAX_CANDIDATES - 1)

ElectionAccount ==
    [created : BOOLEAN,
     schedule : Schedule,
     aggregationKey : Keys \cup {ZeroKey},
     phase : Phases,
     candidateCount : 0..MAX_CANDIDATES,
     candidates : [CandidateIds -> Names \cup {Blank}]]

ElectionTypeOK ==
    /\ slot \in 0..MaxSlot
    /\ election \in ElectionAccount

NoElection ==
    [created |-> FALSE,
     schedule |-> [registrationOpen |-> 0, registrationClose |-> 0,
                   votingOpen |-> 0, votingClose |-> 0],
     aggregationKey |-> ZeroKey,
     phase |-> DRAFT,
     candidateCount |-> 0,
     candidates |-> [i \in CandidateIds |-> Blank]]

ElectionInit ==
    /\ slot = 0
    /\ election = NoElection

-----------------------------------------------------------------------------
(* Instructions *)

\* Variant: compares the voting window with the wrong end of registration.
WellOrderedByOpening(sched) ==
    /\ sched.registrationClose > sched.registrationOpen
    /\ sched.votingOpen >= sched.registrationOpen
    /\ sched.votingClose > sched.votingOpen

\* The slot ordering that create_election insists on.
WellOrdered(sched) ==
    /\ sched.registrationClose > sched.registrationOpen
    /\ sched.votingOpen >= sched.registrationClose
    /\ sched.votingClose > sched.votingOpen

CreateElection(sched, key) ==
    /\ ~election.created
    /\ WellOrdered(sched)
    /\ election' = [NoElection EXCEPT !.created = TRUE,
                                      !.schedule = sched,
                                      !.aggregationKey = key]
    /\ UNCHANGED slot

\* Variant: no upper bound on the size of the roster.
SetCandidatesUnbounded(n, roster) ==
    /\ election.created
    /\ n # 0
    /\ election.phase < REG_CLOSED
    /\ election' =
         [election EXCEPT
            !.candidates = [i \in CandidateIds |->
                              IF i < n THEN roster[i] ELSE election.candidates[i]],
            !.candidateCount = n,
            !.phase = IF @ = DRAFT THEN REG_OPEN ELSE @]
    /\ UNCHANGED slot

\* Variant: in every phase.
SetCandidatesAnytime(n, roster) ==
    /\ election.created
    /\ n \in 1..MAX_CANDIDATES
    /\ election' =
         [election EXCEPT
            !.candidates = [i \in CandidateIds |->
                              IF i < n THEN roster[i] ELSE election.candidates[i]],
            !.candidateCount = n,
            !.phase = IF @ = DRAFT THEN REG_OPEN ELSE @]
    /\ UNCHANGED slot

\* Overwrites the first n entries; entries beyond n keep what they held.
SetCandidates(n, roster) ==
    /\ election.created
    /\ n \in 1..MAX_CANDIDATES
    /\ election.phase < REG_CLOSED
    /\ election' =
         [election EXCEPT
            !.candidates = [i \in CandidateIds |->
                              IF i < n THEN roster[i] ELSE election.candidates[i]],
            !.candidateCount = n,
            !.phase = IF @ = DRAFT THEN REG_OPEN ELSE @]
    /\ UNCHANGED slot

RotateAggregationKey(key) ==
    /\ election.created
    /\ election' = [election EXCEPT !.aggregationKey = key]
    /\ UNCHANGED slot

\* The slot from which advance_phase lets the election enter a phase.
GateOpen(target) ==
    CASE target = REG_CLOSED    -> slot >= election.schedule.registrationClose
      [] target = VOTING_OPEN   -> slot >= election.schedule.votingOpen
      [] target = VOTING_CLOSED -> slot >= election.schedule.votingClose
      [] target = TALLIED       -> TRUE

\* Variant: any later phase may be the target.
AdvancePhaseSkipping(target) ==
    /\ election.created
    /\ target \in REG_CLOSED..TALLIED
    /\ election.phase < target
    /\ GateOpen(target)
    /\ election' = [election EXCEPT !.phase = target]
    /\ UNCHANGED slot

AdvancePhase(target) ==
    /\ election.created
    /\ target \in REG_CLOSED..TALLIED
    /\ election.phase = target - 1
    /\ GateOpen(target)
    /\ election' = [election EXCEPT !.phase = target]
    /\ UNCHANGED slot

\* The cluster produces a slot.
Tick ==
    /\ slot < MaxSlot
    /\ slot' = slot + 1
    /\ UNCHANGED election
=============================================================================
