------------------------------ MODULE Observer ------------------------------
(***************************************************************************)
(* The live tally: the dashboard server's poller, which counts the ballot  *)
(* accounts every five seconds, the web sockets by which it pushes the     *)
(* count, and the observer pages, each of which also asks once for the     *)
(* count when it is loaded.                                                *)
(*                                                                         *)
(* A tally is represented by the set of ballots that it counts: totals and *)
(* totals by state are functions of that set, and accounts are never       *)
(* closed, so that a larger set is a later tally.                          *)
(***************************************************************************)
EXTENDS Naturals, Sequences, FiniteSets

CONSTANTS
    Pages,           \* observer pages
    Elections,       \* elections whose ballots the ballot program holds
    Nullifiers,
    CandidateIds,    \* candidate ids in ballot accounts
    CandidateCount,  \* length of the list the dashboard is started with
    Capacity,        \* of the broadcast channel
    SocketBuffer,    \* messages that a socket holds before a send waits
    MaxFaults        \* bound on lost connections and restarts

ASSUME ObserverAssumption ==
    /\ CandidateIds \subseteq Nat
    /\ CandidateCount \in Nat
    /\ Capacity \in Nat \ {0} /\ SocketBuffer \in Nat \ {0} /\ MaxFaults \in Nat

VARIABLES
    ledger,   \* the ballot accounts
    poller,   \* the poller's step, and what it has read
    tally,    \* the tally behind the lock
    conn,     \* page -> state of its connection, the handler's step included
    backlog,  \* page -> broadcasts that its handler has not taken yet
    wire,     \* page -> messages sent to it, not yet handled by it
    page,     \* page -> what it shows, and its question for the tally
    faults    \* faults so far

serverVars == <<poller, tally>>
socketVars == <<conn, backlog, wire>>
observerVars == <<ledger, poller, tally, conn, backlog, wire, page, faults>>

BallotAccounts == [election : Elections, nullifier : Nullifiers, candidate : CandidateIds]

\* What refresh_tally counts of the accounts it has fetched: every ballot of
\* a candidate it knows, of whatever election.
Counted(accounts) == {b \in accounts : b.candidate < CandidateCount}

Tallies == SUBSET Counted(BallotAccounts)

Pollers == [pc : {"tick", "fetched", "stored"}, read : Tallies]

\* closed; accepted by the server; snapshot being sent under the read lock;
\* snapshot sent; subscribed; subscribed and too far behind; ended by the server.
Connections ==
    {"closed", "accepted", "sending", "sent", "live", "lagged", "ended"}

\* named: the page has the list of parties to show the totals with.
PageStates ==
    [shown : Tallies, named : BOOLEAN, seed : {"asked", "answered", "done"},
     answer : Tallies]

ObserverTypeOK ==
    /\ ledger \subseteq BallotAccounts
    /\ poller \in Pollers
    /\ tally \in Tallies
    /\ conn \in [Pages -> Connections]
    /\ backlog \in [Pages -> Seq(Tallies)]
    /\ wire \in [Pages -> Seq(Tallies)]
    /\ \A p \in Pages : Len(backlog[p]) <= Capacity /\ Len(wire[p]) <= SocketBuffer
    /\ page \in [Pages -> PageStates]
    /\ faults \in 0..MaxFaults

\* The dashboard has just started; every page has been loaded: it shows
\* nothing, opens its socket and asks /api/tally.
ObserverInit ==
    /\ ledger = {}
    /\ poller = [pc |-> "tick", read |-> {}]
    /\ tally = {}
    /\ conn = [p \in Pages |-> "closed"]
    /\ backlog = [p \in Pages |-> << >>]
    /\ wire = [p \in Pages |-> << >>]
    /\ page = [p \in Pages |->
                 [shown |-> {}, named |-> FALSE, seed |-> "asked", answer |-> {}]]
    /\ faults = 0

\* The ballot program accepts a ballot: one account per election and nullifier.
CastBallot(b) ==
    /\ \A other \in ledger :
          other.election # b.election \/ other.nullifier # b.nullifier
    /\ ledger' = ledger \cup {b}
    /\ UNCHANGED <<serverVars, socketVars, page, faults>>

-----------------------------------------------------------------------------
(* refresh_tally *)

\* Variant: counts into the lists without looking at the candidate id.
FetchAll ==
    /\ poller.pc = "tick"
    /\ poller' = [pc |-> "fetched", read |-> ledger]
    /\ UNCHANGED <<ledger, tally, socketVars, page, faults>>

\* Variant: a round that finds the tally as it was ends there.
FetchChanged ==
    /\ poller.pc = "tick"
    /\ poller' = IF Counted(ledger) = tally THEN poller
                 ELSE [pc |-> "fetched", read |-> Counted(ledger)]
    /\ UNCHANGED <<ledger, tally, socketVars, page, faults>>

\* get_program_accounts; a round in which it fails changes nothing.
Fetch ==
    /\ poller.pc = "tick"
    /\ poller' = [pc |-> "fetched", read |-> Counted(ledger)]
    /\ UNCHANGED <<ledger, tally, socketVars, page, faults>>

\* The write lock is granted when no reader holds the lock.
Store ==
    /\ poller.pc = "fetched"
    /\ \A p \in Pages : conn[p] # "sending"
    /\ tally' = poller.read
    /\ poller' = [poller EXCEPT !.pc = "stored"]
    /\ UNCHANGED <<ledger, socketVars, page, faults>>

\* Variant: a channel without a bound.
PublishAll(message) ==
    /\ backlog' = [p \in Pages |-> IF conn[p] = "live"
                                   THEN Append(backlog[p], message) ELSE backlog[p]]
    /\ UNCHANGED conn

\* Subscribers whose buffer is full have lagged: their next receive fails.
Publish(message) ==
    /\ backlog' = [p \in Pages |->
                     IF conn[p] = "live" /\ Len(backlog[p]) < Capacity
                     THEN Append(backlog[p], message) ELSE backlog[p]]
    /\ conn' = [p \in Pages |->
                  IF conn[p] = "live" /\ Len(backlog[p]) = Capacity
                  THEN "lagged" ELSE conn[p]]

\* Every round is broadcast, whether anything has changed or not.
Broadcast ==
    /\ poller.pc = "stored"
    /\ Publish(poller.read)
    /\ poller' = [pc |-> "tick", read |-> {}]
    /\ UNCHANGED <<ledger, tally, wire, page, faults>>

-----------------------------------------------------------------------------
(* ws_handler *)

\* The lock is fair: nobody gets it to read while the poller waits to write.
\* (A reader that gets it while the poller still counts commutes with Fetch.)
MayRead == poller.pc # "fetched"

Connect(p) ==
    /\ conn[p] = "closed"
    /\ conn' = [conn EXCEPT ![p] = "accepted"]
    /\ UNCHANGED <<ledger, serverVars, backlog, wire, page, faults>>

TakeSnapshot(p) ==
    /\ conn[p] = "accepted"
    /\ MayRead
    /\ conn' = [conn EXCEPT ![p] = "sending"]
    /\ UNCHANGED <<ledger, serverVars, backlog, wire, page, faults>>

\* The read lock is held until the snapshot has been sent; it is the first
\* message on its socket, which has room for it.
SendSnapshot(p) ==
    /\ conn[p] = "sending"
    /\ wire' = [wire EXCEPT ![p] = Append(@, tally)]
    /\ conn' = [conn EXCEPT ![p] = "sent"]
    /\ UNCHANGED <<ledger, serverVars, backlog, page, faults>>

\* From here on broadcasts reach the handler; those since the snapshot do not.
Subscribe(p) ==
    /\ conn[p] = "sent"
    /\ conn' = [conn EXCEPT ![p] = "live"]
    /\ UNCHANGED <<ledger, serverVars, backlog, wire, page, faults>>

\* Variant: sends the newest broadcast first.
ForwardNewest(p) ==
    /\ conn[p] = "live"
    /\ backlog[p] # << >>
    /\ Len(wire[p]) < SocketBuffer
    /\ wire' = [wire EXCEPT ![p] = Append(@, backlog[p][Len(backlog[p])])]
    /\ backlog' = [backlog EXCEPT ![p] = SubSeq(@, 1, Len(@) - 1)]
    /\ UNCHANGED <<ledger, serverVars, conn, page, faults>>

Forward(p) ==
    /\ conn[p] = "live"
    /\ backlog[p] # << >>
    /\ Len(wire[p]) < SocketBuffer
    /\ wire' = [wire EXCEPT ![p] = Append(@, Head(backlog[p]))]
    /\ backlog' = [backlog EXCEPT ![p] = Tail(@)]
    /\ UNCHANGED <<ledger, serverVars, conn, page, faults>>

\* Receiving fails, and the handler closes the socket.
EndLagged(p) ==
    /\ conn[p] = "lagged"
    /\ conn' = [conn EXCEPT ![p] = "ended"]
    /\ backlog' = [backlog EXCEPT ![p] = << >>]
    /\ UNCHANGED <<ledger, serverVars, wire, page, faults>>

-----------------------------------------------------------------------------
(* index.html *)

\* applyUpdate
Receive(p) ==
    /\ wire[p] # << >>
    /\ wire' = [wire EXCEPT ![p] = Tail(@)]
    /\ page' = [page EXCEPT ![p].shown = Head(wire[p]), ![p].named = TRUE]
    /\ UNCHANGED <<ledger, serverVars, conn, backlog, faults>>

\* onclose: a new socket is opened three seconds later.
NoticeEnd(p) ==
    /\ conn[p] = "ended"
    /\ wire[p] = << >>
    /\ conn' = [conn EXCEPT ![p] = "closed"]
    /\ UNCHANGED <<ledger, serverVars, backlog, wire, page, faults>>

\* handle_tally
AnswerSeed(p) ==
    /\ page[p].seed = "asked"
    /\ MayRead
    /\ page' = [page EXCEPT ![p].seed = "answered", ![p].answer = tally]
    /\ UNCHANGED <<ledger, serverVars, socketVars, faults>>

\* The answer replaces what the page shows, whatever has come by the socket
\* meanwhile.  Its list of parties is named candidates, and the page looks for
\* candidate_names.
ApplySeed(p) ==
    /\ page[p].seed = "answered"
    /\ page' = [page EXCEPT ![p].shown = page[p].answer, ![p].named = FALSE,
                            ![p].seed = "done", ![p].answer = {}]
    /\ UNCHANGED <<ledger, serverVars, socketVars, faults>>

-----------------------------------------------------------------------------
(* Faults *)

\* Both ends lose the connection, with what is under way on it; the handler
\* leaves its loop, or its send fails and the lock is free again.
Drop(p) ==
    /\ faults < MaxFaults
    /\ faults' = faults + 1
    /\ conn[p] # "closed"
    /\ conn' = [conn EXCEPT ![p] = "closed"]
    /\ backlog' = [backlog EXCEPT ![p] = << >>]
    /\ wire' = [wire EXCEPT ![p] = << >>]
    /\ UNCHANGED <<ledger, serverVars, page>>

\* A question or its answer is lost; the page does not ask again.
SeedLost(p) ==
    /\ faults < MaxFaults
    /\ faults' = faults + 1
    /\ page[p].seed # "done"
    /\ page' = [page EXCEPT ![p].seed = "done", ![p].answer = {}]
    /\ UNCHANGED <<ledger, serverVars, socketVars>>

\* The tally is only in memory.
RestartDashboard ==
    /\ faults < MaxFaults
    /\ faults' = faults + 1
    /\ poller' = [pc |-> "tick", read |-> {}]
    /\ tally' = {}
    /\ conn' = [p \in Pages |-> "closed"]
    /\ backlog' = [p \in Pages |-> << >>]
    /\ wire' = [p \in Pages |-> << >>]
    /\ page' = [p \in Pages |-> IF page[p].seed = "asked"
                                THEN [page[p] EXCEPT !.seed = "done"] ELSE page[p]]
    /\ UNCHANGED ledger

Poll == Fetch \/ Store \/ Broadcast

PageStep(p) ==
    \/ Connect(p) \/ TakeSnapshot(p) \/ SendSnapshot(p) \/ Subscribe(p)
    \/ Forward(p) \/ EndLagged(p)
    \/ Receive(p) \/ NoticeEnd(p) \/ AnswerSeed(p) \/ ApplySeed(p)

Fault == RestartDashboard \/ \E p \in Pages : Drop(p) \/ SeedLost(p)

ObserverNext ==
    \/ \E b \in BallotAccounts : CastBallot(b)
    \/ Poll
    \/ \E p \in Pages : PageStep(p)
    \/ Fault

\* The poller loops for ever and its calls do not fail for ever; a snapshot
\* is sent in the end, and a broadcast when the socket has room; the lock is
\* granted in the order in which it was asked for; a page reads what it is sent
\* and reopens its socket.  Nobody has to vote, and nothing has to fail.
ObserverFairness ==
    /\ WF_observerVars(Poll)
    /\ \A p \in Pages :
          /\ WF_observerVars(Connect(p))
          /\ SF_observerVars(TakeSnapshot(p))
          /\ WF_observerVars(SendSnapshot(p))
          /\ WF_observerVars(Subscribe(p))
          /\ WF_observerVars(Forward(p))
          /\ WF_observerVars(EndLagged(p))
          /\ WF_observerVars(Receive(p))
          /\ WF_observerVars(NoticeEnd(p))
          /\ SF_observerVars(AnswerSeed(p))
          /\ WF_observerVars(ApplySeed(p))

ObserverSpec == ObserverInit /\ [][ObserverNext]_observerVars /\ ObserverFairness

-----------------------------------------------------------------------------
(* Properties *)

\* "Live tally updates": a page never shows a vote that is not in a ballot
\* account, by whichever of the two ways and after whatever faults it came.
ShownIsOnLedger == \A p \in Pages : page[p].shown \subseteq Counted(ledger)

\* As far as they come by the socket, the numbers of a page never go back, not
\* with the snapshot after a lost connection nor with broadcasts that waited
\* for their turn; only after a restart of the dashboard do they start again
\* from nothing.  (The answer to the page's question may set them back.)
NeverGoesBack ==
    [][\A p \in Pages : page[p].named /\ page'[p].named =>
         page'[p].shown = {} \/ page[p].shown \subseteq page'[p].shown]_observerVars

\* Every page that goes on reading its socket shows the whole count in the end
\* and goes on showing it, with the parties' names, although it may have missed broadcasts between snapshot
\* and subscription, lagged, lost its connection, or seen the dashboard restart.
FinalTallyShown ==
    \A p \in Pages :
       <>[](page[p].shown = Counted(ledger) /\ page[p].named)
=============================================================================
