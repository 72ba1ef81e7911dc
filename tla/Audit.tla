------------------------------- MODULE Audit --------------------------------
(***************************************************************************)
(* The public audit client next to the programs.  A command reads one      *)
(* account, then one more or all accounts of a program, and prints what it *)
(* makes of them; the chain moves between the two reads, and what has been *)
(* printed stays printed while the chain moves on.                         *)
(***************************************************************************)
EXTENDS Chain

CONSTANT MaxForeign  \* bound on the votes in other elections

ASSUME ForeignAssumption == MaxForeign \in Nat

\* The counter array has shards for every candidate of a full roster.
ASSUME RosterAssumption == MAX_CANDIDATES <= COUNTERS_LEN \div CANDIDATE_SHARDS

VARIABLES
    foreign,  \* nullifier accounts that the ballot program holds of other elections
    audit,    \* the command under way, with what its first read returned
    report    \* what the last command to finish has printed

auditVars == <<slot, election, registry, leaf, tally, nullifiers, ballots, direct,
               foreign, audit, report>>

Idle == [command |-> "none"]

Underway ==
    [command : {"audit-tally"}, finalized : BOOLEAN, total : Nat,
     votes : [CountedCandidates -> Nat]]
      \cup [command : {"check-nullifiers"}, total : Nat]
      \cup [command : {"rebuild-merkle"}, count : Nat]

TallyReports ==
    [command : {"audit-tally"}, finalized : BOOLEAN, total : Nat,
     votes : [CountedCandidates -> Nat], listed : 0..MAX_CANDIDATES,
     names : [CandidateIds -> Names \cup {Blank}], warning : BOOLEAN]

RebuiltReports ==
    [command : {"rebuild-tally"}, total : Nat, votes : [CountedCandidates -> Nat]]

NullifierReports ==
    [command : {"check-nullifiers"}, total : Nat, marked : Nat]

MerkleReports ==
    [command : {"rebuild-merkle"}, count : Nat, root : Seq(Commitments)]

AuditTypeOK ==
    /\ TypeOK
    /\ foreign \in 0..MaxForeign
    /\ audit \in Underway \cup {Idle}
    /\ \/ report = Idle
       \/ /\ report.command = "audit-tally"      /\ report \in TallyReports
       \/ /\ report.command = "rebuild-tally"    /\ report \in RebuiltReports
       \/ /\ report.command = "check-nullifiers" /\ report \in NullifierReports
       \/ /\ report.command = "rebuild-merkle"   /\ report \in MerkleReports

AuditInit ==
    /\ ChainInit
    /\ foreign = 0
    /\ audit = Idle
    /\ report = Idle

-----------------------------------------------------------------------------
(* audit-tally *)

ReadTally ==
    /\ audit = Idle
    /\ tally.created
    /\ audit' = [command |-> "audit-tally", finalized |-> tally.finalized,
                 total |-> tally.totalVotes,
                 votes |-> [c \in CountedCandidates |-> CandidateTotal(c)]]
    /\ UNCHANGED <<chainVars, foreign, report>>

\* Variant: candidate ids begin at one.
SumOfCandidatesFromOne(votes, n) == MapThenSumSet(LAMBDA c : votes[c], 1..(n - 1))

SumOfCandidates(votes, n) == MapThenSumSet(LAMBDA c : votes[c], 0..(n - 1))

\* The number of candidates and their names come from the election account,
\* read after the tally.
PrintTally ==
    /\ audit.command = "audit-tally"
    /\ election.created
    /\ report' = [command |-> "audit-tally", finalized |-> audit.finalized,
                  total |-> audit.total, votes |-> audit.votes,
                  listed |-> election.candidateCount, names |-> election.candidates,
                  warning |-> SumOfCandidates(audit.votes, election.candidateCount)
                                # audit.total]
    /\ audit' = Idle
    /\ UNCHANGED <<chainVars, foreign>>

-----------------------------------------------------------------------------
(* rebuild-tally *)

BallotsFor(c) == {n \in DOMAIN ballots : ballots[n].candidate = c}

\* One read of all accounts, from which it takes this election's ballots.
RebuildTally ==
    /\ audit = Idle
    /\ report' = [command |-> "rebuild-tally",
                  total |-> Cardinality(UNION {BallotsFor(c) : c \in CountedCandidates}),
                  votes |-> [c \in CountedCandidates |-> Cardinality(BallotsFor(c))]]
    /\ UNCHANGED <<chainVars, foreign, audit>>

-----------------------------------------------------------------------------
(* check-nullifiers *)

ReadTotal ==
    /\ audit = Idle
    /\ tally.created
    /\ audit' = [command |-> "check-nullifiers", total |-> tally.totalVotes]
    /\ UNCHANGED <<chainVars, foreign, report>>

\* Variant: takes every account of the program for a nullifier.
MarkedAccountsOfAnyKind ==
    Cardinality(nullifiers) + Cardinality(DOMAIN ballots) + foreign

\* A nullifier account does not say of which election it is.
MarkedAccounts == Cardinality(nullifiers) + foreign

PrintNullifiers ==
    /\ audit.command = "check-nullifiers"
    /\ report' = [command |-> "check-nullifiers", total |-> audit.total,
                  marked |-> MarkedAccounts]
    /\ audit' = Idle
    /\ UNCHANGED <<chainVars, foreign>>

-----------------------------------------------------------------------------
(* rebuild-merkle *)

ReadHeader ==
    /\ audit = Idle
    /\ registry.created
    /\ audit' = [command |-> "rebuild-merkle", count |-> registry.leafCount]
    /\ UNCHANGED <<chainVars, foreign, report>>

\* Variant: the last leaf first.
RebuiltRootBackwards ==
    LET indices == CHOOSE at \in [1..Cardinality(DOMAIN leaf) -> DOMAIN leaf] :
                     \A j, k \in DOMAIN at : j < k => at[j] > at[k]
    IN  [k \in DOMAIN indices |-> leaf[indices[k]]]

\* The root of the tree of all leaves, sorted by the index that each leaf
\* account holds.
RebuiltRoot ==
    LET indices == CHOOSE at \in [1..Cardinality(DOMAIN leaf) -> DOMAIN leaf] :
                     \A j, k \in DOMAIN at : j < k => at[j] < at[k]
    IN  [k \in DOMAIN indices |-> leaf[indices[k]]]

\* Only the number of leaves is compared with the header.
PrintRoot ==
    /\ audit.command = "rebuild-merkle"
    /\ report' = [command |-> "rebuild-merkle", count |-> audit.count,
                  root |-> RebuiltRoot]
    /\ audit' = Idle
    /\ UNCHANGED <<chainVars, foreign>>

-----------------------------------------------------------------------------

\* The second account is not there, or the node does not answer.
AuditFails ==
    /\ audit # Idle
    /\ audit' = Idle
    /\ UNCHANGED <<chainVars, foreign, report>>

\* A vote in another election of the same ballot program.
VoteElsewhere ==
    /\ foreign < MaxForeign
    /\ foreign' = foreign + 1
    /\ UNCHANGED <<chainVars, audit, report>>

ChainStep ==
    /\ ChainNext
    /\ UNCHANGED <<foreign, audit, report>>

AuditNext ==
    \/ ChainStep
    \/ VoteElsewhere
    \/ ReadTally \/ PrintTally
    \/ RebuildTally
    \/ ReadTotal \/ PrintNullifiers
    \/ ReadHeader \/ PrintRoot
    \/ AuditFails

AuditSpec == AuditInit /\ [][AuditNext]_auditVars

-----------------------------------------------------------------------------
(* Properties *)

\* audit-tally raises no false alarm: the totals of the candidates add up to
\* the total of the votes, unless an accumulate_votes was sent without a
\* ballot, although the one comes from an account that was read before the
\* account that says how many candidates there are.
AuditWarnsForCause ==
    report.command = "audit-tally" /\ report.warning => direct # << >>

\* The name that audit-tally prints next to votes that ballots gave is the
\* name of the candidate they were given to, now and ever after.
NamesOfTheElected ==
    report.command = "audit-tally" =>
      \A c \in CountedCandidates :
         report.votes[c] > Cardinality(DirectFor(c)) =>
           /\ c < report.listed
           /\ c < election.candidateCount
           /\ report.names[c] = election.candidates[c]

\* A result printed as finalized is the result: whoever counts the ballots of
\* the election again, whenever, and the accumulate_votes sent without one,
\* finds the same numbers.
FinalReportStands ==
    report.command = "audit-tally" /\ report.finalized =>
      \A c \in CountedCandidates :
         report.votes[c] = Cardinality(BallotsFor(c)) + Cardinality(DirectFor(c))

\* check-nullifiers finds fewer nullifiers than votes only by as many as
\* accumulate_votes were sent without a ballot; and by exactly as many, unless
\* the total has moved since it was read or the program holds nullifiers of
\* another election.
NullifiersAccountForVotes ==
    report.command = "check-nullifiers" =>
      /\ report.total <= report.marked + Len(direct)
      /\ foreign = 0 /\ tally.totalVotes = report.total =>
           report.total = report.marked + Len(direct)

\* rebuild-merkle rebuilds the tree of a beginning of the leaf log, in the
\* order of insertion; it has all leaves that the header counted and, unless
\* somebody has registered since, no other.
RootOfTheLog ==
    report.command = "rebuild-merkle" =>
      /\ \A k \in DOMAIN report.root :
            k - 1 \in DOMAIN leaf /\ report.root[k] = leaf[k - 1]
      /\ report.count <= Len(report.root)
      /\ registry.leafCount = report.count => Len(report.root) = report.count
=============================================================================
