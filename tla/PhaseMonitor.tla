---------------------------- MODULE PhaseMonitor ----------------------------
(***************************************************************************)
(* The loop at the end of scripts/demo.sh that moves the election through  *)
(* its phases while the booths are open: every few seconds it reads the    *)
(* slot and, when a gate has opened, sends one advance-phase transaction.  *)
(* Nobody else advances the phase, except an operator who may do it by     *)
(* hand.                                                                   *)
(***************************************************************************)
EXTENDS ElectionRegistry

CONSTANT Reliable  \* every transaction gets the cluster's verdict in time

VARIABLES
    pc,        \* what the script is doing
    target,    \* the transition that it is looking at
    current,   \* CURRENT_SLOT
    advanced,  \* REG_CLOSED_ADVANCED and VOTE_OPEN_ADVANCED
    sent       \* targets of the transactions under way

scriptVars == <<pc, target, current, advanced, sent>>
monitorVars == <<slot, election, scriptVars>>

Targets == {REG_CLOSED, VOTING_OPEN}

MonitorTypeOK ==
    /\ ElectionTypeOK
    /\ pc \in {"setup", "poll", "check", "await"}
    /\ target \in Targets
    /\ current \in 0..MaxSlot
    /\ advanced \in [Targets -> BOOLEAN]
    /\ sent \subseteq Targets

MonitorInit ==
    /\ ElectionInit
    /\ pc = "setup"
    /\ target = REG_CLOSED
    /\ current = 0
    /\ advanced = [t \in Targets |-> FALSE]
    /\ sent = {}

-----------------------------------------------------------------------------
(* The script *)

CreateStep ==
    /\ pc = "setup"
    /\ \E sched \in Schedules, key \in Keys : CreateElection(sched, key)
    /\ UNCHANGED scriptVars

CandidatesStep ==
    /\ pc = "setup"
    /\ \E n \in 1..MAX_CANDIDATES :
         \E roster \in [0..(n - 1) -> Names] : SetCandidates(n, roster)
    /\ pc' = "poll"
    /\ UNCHANGED <<target, current, advanced, sent>>

\* A failing call of "solana slot" reads as slot 0.
Poll(reading) ==
    /\ pc = "poll"
    /\ current' = reading
    /\ pc' = "check"
    /\ UNCHANGED <<slot, election, target, advanced, sent>>

\* On to the second transition, or to the next iteration.
Proceed ==
    /\ pc' = IF target = REG_CLOSED THEN "check" ELSE "poll"
    /\ target' = IF target = REG_CLOSED THEN VOTING_OPEN ELSE REG_CLOSED
    /\ UNCHANGED <<slot, election, current, advanced, sent>>

GateSlot(t) ==
    IF t = REG_CLOSED THEN election.schedule.registrationClose
    ELSE election.schedule.votingOpen

\* Variant: registration is closed when it should open.
DueTooEarly ==
    /\ ~advanced[target]
    /\ target = VOTING_OPEN => advanced[REG_CLOSED]
    /\ current >= IF target = REG_CLOSED THEN election.schedule.registrationOpen
                  ELSE election.schedule.votingOpen

Due ==
    /\ ~advanced[target]
    /\ target = VOTING_OPEN => advanced[REG_CLOSED]
    /\ current >= GateSlot(target)

Skip ==
    /\ pc = "check"
    /\ ~Due
    /\ Proceed

\* Variant: one flag serves both transitions.
AttemptOneFlag ==
    /\ pc = "check"
    /\ Due
    /\ advanced' = [t \in Targets |-> TRUE]
    /\ sent' = sent \cup {target}
    /\ pc' = "await"
    /\ UNCHANGED <<slot, election, target, current>>

\* The flag is set before the attempt, whose failure is only reported.
Attempt ==
    /\ pc = "check"
    /\ Due
    /\ advanced' = [advanced EXCEPT ![target] = TRUE]
    /\ sent' = sent \cup {target}
    /\ pc' = "await"
    /\ UNCHANGED <<slot, election, target, current>>

\* The verdict is in, or the wait for it has failed.
Answer ==
    /\ pc = "await"
    /\ target \in sent => ~Reliable
    /\ Proceed

Script ==
    \/ CreateStep \/ CandidatesStep
    \/ \E reading \in {0, slot} : Poll(reading)
    \/ Skip \/ Attempt \/ Answer

-----------------------------------------------------------------------------
(* The cluster and the operator *)

Accept(t) ==
    /\ t \in sent
    /\ AdvancePhase(t)
    /\ sent' = sent \ {t}
    /\ UNCHANGED <<pc, target, current, advanced>>

\* The program rejects the transaction, or it is lost on its way.
Reject(t) ==
    /\ t \in sent
    /\ election.phase = t - 1 /\ GateOpen(t) => ~Reliable
    /\ sent' = sent \ {t}
    /\ UNCHANGED <<slot, election, pc, target, current, advanced>>

\* An operator runs admin advance-phase.
Operate(t) ==
    /\ AdvancePhase(t)
    /\ UNCHANGED scriptVars

Clock ==
    /\ Tick
    /\ UNCHANGED scriptVars

MonitorNext ==
    \/ Script
    \/ \E t \in Targets : Accept(t) \/ Reject(t)
    \/ \E t \in Phases : Operate(t)
    \/ Clock

\* The script keeps running, slots keep coming, every transaction is decided
\* in the end, and now and then the slot can be read.
Fairness ==
    /\ WF_monitorVars(Script)
    /\ SF_monitorVars(Poll(slot))
    /\ WF_monitorVars(Clock)
    /\ \A t \in Targets : WF_monitorVars(Accept(t) \/ Reject(t))

MonitorSpec == MonitorInit /\ [][MonitorNext]_monitorVars /\ Fairness

-----------------------------------------------------------------------------
(* Properties *)

\* The script never spends one of its two attempts on a transaction that the
\* program must reject: what it knows when it sends is enough for the gate,
\* and for the order of the phases when nothing is lost.
NoWastedAttempt ==
    \A t \in sent :
       /\ GateOpen(t)
       /\ Reliable => election.phase >= t - 1

\* "Auto-advances the on-chain election phase when slot gates open": the
\* booths are unlocked in the end.
VotingOpens == <>(election.phase >= VOTING_OPEN)
=============================================================================
