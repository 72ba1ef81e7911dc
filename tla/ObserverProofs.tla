---------------------------- MODULE ObserverProofs ---------------------------
(***************************************************************************)
(* Theorems about Observer, for any number of pages, elections, candidates *)
(* and faults, and any size of the channel and of the sockets.             *)
(***************************************************************************)
EXTENDS Observer, SequenceTheorems, TLAPS

-----------------------------------------------------------------------------
(* Messages on their way to one page: w on the socket, b in the channel.   *)

\* They are in the order in which they were counted, and t is the last count.
InLine(w, b, t) ==
    /\ \A i \in 1..Len(w) : w[i] \subseteq t
    /\ \A i \in 1..Len(b) : b[i] \subseteq t
    /\ \A i, j \in 1..Len(w) : i <= j => w[i] \subseteq w[j]
    /\ \A i, j \in 1..Len(b) : i <= j => b[i] \subseteq b[j]
    /\ \A i \in 1..Len(w), j \in 1..Len(b) : w[i] \subseteq b[j]

\* Each of them is a tally from before the first round, or not behind x.
Ahead(x, w, b) ==
    /\ \A i \in 1..Len(w) : w[i] = {} \/ x \subseteq w[i]
    /\ \A i \in 1..Len(b) : b[i] = {} \/ x \subseteq b[i]

LEMMA NoMessages ==
  ASSUME NEW t, NEW x
  PROVE  InLine(<< >>, << >>, t) /\ Ahead(x, << >>, << >>)
  BY DEF InLine, Ahead

LEMMA BehindNothing == \A w, b : Ahead({}, w, b)
  BY DEF Ahead

LEMMA LaterCount ==
  ASSUME NEW w, NEW b, NEW t, NEW u, InLine(w, b, t), t \subseteq u
  PROVE  InLine(w, b, u)
  BY DEF InLine

LEMMA SnapshotInLine ==
  ASSUME NEW w \in Seq(Tallies), NEW t \in Tallies, NEW x,
         InLine(w, << >>, t), Ahead(x, w, << >>), t = {} \/ x \subseteq t
  PROVE  InLine(Append(w, t), << >>, t) /\ Ahead(x, Append(w, t), << >>)
  <1>1. /\ Len(Append(w, t)) = Len(w) + 1 /\ Len(w) \in Nat
        /\ \A i \in 1..Len(w) : Append(w, t)[i] = w[i]
        /\ Append(w, t)[Len(w) + 1] = t
    OBVIOUS
  <1>2. QED
    BY <1>1 DEF InLine, Ahead

LEMMA BroadcastInLine ==
  ASSUME NEW w, NEW b \in Seq(Tallies), NEW t \in Tallies, NEW x,
         InLine(w, b, t), Ahead(x, w, b), t = {} \/ x \subseteq t
  PROVE  InLine(w, Append(b, t), t) /\ Ahead(x, w, Append(b, t))
  <1>1. /\ Len(Append(b, t)) = Len(b) + 1 /\ Len(b) \in Nat
        /\ \A i \in 1..Len(b) : Append(b, t)[i] = b[i]
        /\ Append(b, t)[Len(b) + 1] = t
    OBVIOUS
  <1>2. QED
    BY <1>1 DEF InLine, Ahead

LEMMA ForwardInLine ==
  ASSUME NEW w \in Seq(Tallies), NEW b \in Seq(Tallies), NEW t, NEW x,
         b # << >>, InLine(w, b, t), Ahead(x, w, b)
  PROVE  /\ InLine(Append(w, Head(b)), Tail(b), t)
         /\ Ahead(x, Append(w, Head(b)), Tail(b))
  <1>1. /\ Len(w) \in Nat /\ Len(b) \in Nat \ {0}
        /\ Len(Append(w, Head(b))) = Len(w) + 1
        /\ \A i \in 1..Len(w) : Append(w, Head(b))[i] = w[i]
        /\ Append(w, Head(b))[Len(w) + 1] = b[1]
        /\ Len(Tail(b)) = Len(b) - 1
        /\ \A i \in 1..Len(Tail(b)) : Tail(b)[i] = b[i + 1]
    OBVIOUS
  <1>2. QED
    BY <1>1 DEF InLine, Ahead

LEMMA ReceiveInLine ==
  ASSUME NEW w \in Seq(Tallies), NEW b \in Seq(Tallies), NEW t,
         w # << >>, InLine(w, b, t)
  PROVE  /\ InLine(Tail(w), b, t)
         /\ Ahead(Head(w), Tail(w), b)
         /\ Head(w) \subseteq t
  <1>1. /\ Len(w) \in Nat \ {0} /\ Head(w) = w[1]
        /\ Len(Tail(w)) = Len(w) - 1
        /\ \A i \in 1..Len(Tail(w)) : Tail(w)[i] = w[i + 1]
    OBVIOUS
  <1>2. QED
    BY <1>1 DEF InLine, Ahead

-----------------------------------------------------------------------------
(* The invariant *)

\* What the poller knows.
PollInv ==
    /\ tally \subseteq Counted(ledger)
    /\ poller.read \subseteq Counted(ledger)
    /\ poller.pc = "fetched" => tally \subseteq poller.read
    /\ poller.pc = "stored" => poller.read = tally

\* What has been sent to a page, and what it shows of it.
PageInv(p) ==
    /\ page[p].shown \subseteq Counted(ledger)
    /\ page[p].answer \subseteq Counted(ledger)
    /\ InLine(wire[p], backlog[p], tally)
    /\ conn[p] \notin {"live", "lagged"} => backlog[p] = << >>
    /\ conn[p] \in {"closed", "accepted", "sending"} => wire[p] = << >>
    /\ page[p].named =>
         /\ tally = {} \/ page[p].shown \subseteq tally
         /\ poller.pc = "fetched" => page[p].shown \subseteq poller.read
         /\ Ahead(page[p].shown, wire[p], backlog[p])

ObserverInv == ObserverTypeOK /\ PollInv /\ \A p \in Pages : PageInv(p)

LEMMA CountedGrows ==
  ASSUME NEW A, NEW B, A \subseteq B
  PROVE  Counted(A) \subseteq Counted(B)
  BY DEF Counted

LEMMA ObserverInvInit == ObserverInit => ObserverInv
  <1> SUFFICES ASSUME ObserverInit PROVE ObserverInv
    OBVIOUS
  <1>1. {} \in Tallies /\ << >> \in Seq(Tallies) /\ Len(<< >>) = 0
    BY DEF Tallies
  <1>2. ObserverTypeOK
    BY <1>1, ObserverAssumption
    DEF ObserverInit, ObserverTypeOK, Pollers, Connections, PageStates
  <1>3. PollInv
    BY DEF ObserverInit, PollInv
  <1>4. \A p \in Pages : PageInv(p)
    BY NoMessages DEF ObserverInit, PageInv
  <1>5. QED
    BY <1>2, <1>3, <1>4 DEF ObserverInv

-----------------------------------------------------------------------------
(* Ballots and the poller *)

LEMMA CastStepInv ==
  ASSUME ObserverInv, NEW b \in BallotAccounts, CastBallot(b)
  PROVE  ObserverInv'
  <1>1. /\ ledger' = ledger \cup {b}
        /\ UNCHANGED <<poller, tally, conn, backlog, wire, page, faults>>
    BY DEF CastBallot, serverVars, socketVars
  <1>2. Counted(ledger) \subseteq Counted(ledger')
    BY <1>1, CountedGrows
  <1>3. ObserverTypeOK'
    BY <1>1 DEF ObserverInv, ObserverTypeOK
  <1>4. PollInv'
    BY <1>1, <1>2 DEF ObserverInv, PollInv, Counted
  <1>5. ASSUME NEW p \in Pages
        PROVE  PageInv(p)'
    <2>1. PageInv(p)
      BY DEF ObserverInv
    <2>2. page'[p].shown \subseteq Counted(ledger') /\ page'[p].answer \subseteq Counted(ledger')
      BY <1>1, <1>2, <2>1 DEF PageInv
    <2>3. QED
      BY <1>1, <2>1, <2>2 DEF PageInv, Counted
  <1>6. QED
    BY <1>3, <1>4, <1>5 DEF ObserverInv

LEMMA FetchStepInv ==
  ASSUME ObserverInv, Fetch
  PROVE  ObserverInv'
  <1>1. /\ poller.pc = "tick"
        /\ poller' = [pc |-> "fetched", read |-> Counted(ledger)]
        /\ UNCHANGED <<ledger, tally, conn, backlog, wire, page, faults>>
    BY DEF Fetch, socketVars
  <1>2. Counted(ledger) \in Tallies
    BY CountedGrows DEF ObserverInv, ObserverTypeOK, Tallies
  <1>3. ObserverTypeOK'
    BY <1>1, <1>2 DEF ObserverInv, ObserverTypeOK, Pollers
  <1>4. PollInv'
    BY <1>1 DEF ObserverInv, PollInv, Counted
  <1>5. ASSUME NEW p \in Pages
        PROVE  PageInv(p)'
    BY <1>1 DEF ObserverInv, PageInv, Counted
  <1>6. QED
    BY <1>3, <1>4, <1>5 DEF ObserverInv

LEMMA StoreStepInv ==
  ASSUME ObserverInv, Store
  PROVE  ObserverInv'
  <1>1. /\ poller.pc = "fetched" /\ poller'.pc = "stored" /\ poller'.read = poller.read
        /\ poller' \in Pollers
        /\ tally' = poller.read
        /\ UNCHANGED <<ledger, conn, backlog, wire, page, faults>>
    BY DEF Store, socketVars, ObserverInv, ObserverTypeOK, Pollers
  <1>2. tally' \in Tallies /\ tally \subseteq tally'
    BY <1>1 DEF ObserverInv, ObserverTypeOK, PollInv, Pollers
  <1>3. ObserverTypeOK'
    BY <1>1, <1>2 DEF ObserverInv, ObserverTypeOK
  <1>4. PollInv'
    BY <1>1 DEF ObserverInv, PollInv, Counted
  <1>5. ASSUME NEW p \in Pages
        PROVE  PageInv(p)'
    <2>1. PageInv(p)
      BY DEF ObserverInv
    <2>2. InLine(wire[p], backlog[p], tally')
      BY <1>2, <2>1, LaterCount DEF PageInv
    <2>3. QED
      BY <1>1, <2>1, <2>2 DEF PageInv, Counted
  <1>6. QED
    BY <1>3, <1>4, <1>5 DEF ObserverInv

LEMMA BroadcastStepInv ==
  ASSUME ObserverInv, Broadcast
  PROVE  ObserverInv'
  <1>1. /\ poller.pc = "stored" /\ poller.read = tally
        /\ poller'.pc = "tick" /\ poller'.read = {} /\ poller' \in Pollers
        /\ UNCHANGED <<ledger, tally, wire, page, faults>>
    BY DEF Broadcast, ObserverInv, PollInv, Pollers, Tallies
  <1>2. tally \in Tallies
    BY DEF ObserverInv, ObserverTypeOK
  <1>3. /\ backlog' = [p \in Pages |->
                         IF conn[p] = "live" /\ Len(backlog[p]) < Capacity
                         THEN Append(backlog[p], tally) ELSE backlog[p]]
        /\ conn' = [p \in Pages |->
                      IF conn[p] = "live" /\ Len(backlog[p]) = Capacity
                      THEN "lagged" ELSE conn[p]]
    BY <1>1 DEF Broadcast, Publish
  <1>4. ASSUME NEW p \in Pages
        PROVE  /\ backlog'[p] \in Seq(Tallies) /\ Len(backlog'[p]) <= Capacity
               /\ conn'[p] \in Connections
               /\ PageInv(p)'
    <2>1. /\ PageInv(p)
          /\ backlog[p] \in Seq(Tallies) /\ Len(backlog[p]) <= Capacity
          /\ conn[p] \in Connections
      BY DEF ObserverInv, ObserverTypeOK
    <2>2. CASE conn[p] = "live" /\ Len(backlog[p]) < Capacity
      <3>1. backlog'[p] = Append(backlog[p], tally) /\ conn'[p] = "live"
        BY <1>3, <2>2, ObserverAssumption
      <3>2. Len(backlog'[p]) = Len(backlog[p]) + 1 /\ backlog'[p] \in Seq(Tallies)
        BY <1>2, <2>1, <3>1
      <3>3. InLine(wire[p], backlog'[p], tally)
        <4>1. InLine(wire[p], backlog[p], tally)
          BY <2>1 DEF PageInv
        <4>2. Ahead({}, wire[p], backlog[p])
          BY BehindNothing
        <4>3. InLine(wire[p], Append(backlog[p], tally), tally)
          BY <1>2, <2>1, <4>1, <4>2, BroadcastInLine
        <4>4. QED
          BY <3>1, <4>3
      <3>4. page[p].named => Ahead(page[p].shown, wire[p], backlog'[p])
        BY <1>2, <2>1, <3>1, BroadcastInLine DEF PageInv
      <3>5. QED
        BY <1>1, <2>1, <2>2, <3>1, <3>2, <3>3, <3>4, ObserverAssumption
        DEF PageInv, Counted
    <2>3. CASE ~(conn[p] = "live" /\ Len(backlog[p]) < Capacity)
      <3>1. backlog'[p] = backlog[p] /\ conn'[p] \in {conn[p], "lagged"}
            /\ (conn'[p] \notin {"live", "lagged"} => conn[p] \notin {"live", "lagged"})
        BY <1>3, <2>3
      <3>2. QED
        BY <1>1, <2>1, <3>1 DEF PageInv, Counted, Connections
    <2>4. QED
      BY <2>2, <2>3
  <1>5. ObserverTypeOK'
    BY <1>1, <1>3, <1>4 DEF ObserverInv, ObserverTypeOK
  <1>6. PollInv'
    BY <1>1 DEF ObserverInv, PollInv, Counted
  <1>7. QED
    BY <1>4, <1>5, <1>6 DEF ObserverInv

-----------------------------------------------------------------------------
(* One page and its handler *)

\* A step of one page leaves the others alone.
LEMMA OnePage ==
  ASSUME ObserverInv, NEW p \in Pages,
         UNCHANGED <<ledger, poller, tally>>, faults' \in 0..MaxFaults,
         \A q \in Pages \ {p} :
            /\ conn'[q] = conn[q] /\ backlog'[q] = backlog[q]
            /\ wire'[q] = wire[q] /\ page'[q] = page[q],
         conn' \in [Pages -> Connections],
         backlog' \in [Pages -> Seq(Tallies)], wire' \in [Pages -> Seq(Tallies)],
         Len(backlog'[p]) <= Capacity, Len(wire'[p]) <= SocketBuffer,
         page' \in [Pages -> PageStates],
         PageInv(p)'
  PROVE  ObserverInv'
  <1>1. ObserverTypeOK'
    BY DEF ObserverInv, ObserverTypeOK
  <1>2. PollInv'
    BY DEF ObserverInv, PollInv, Counted
  <1>3. ASSUME NEW q \in Pages \ {p}
        PROVE  PageInv(q)'
    BY DEF ObserverInv, PageInv, Counted
  <1>4. QED
    BY <1>1, <1>2, <1>3 DEF ObserverInv

LEMMA PageTypes ==
  ASSUME ObserverInv, NEW p \in Pages
  PROVE  /\ PageInv(p)
         /\ wire[p] \in Seq(Tallies) /\ Len(wire[p]) <= SocketBuffer
         /\ backlog[p] \in Seq(Tallies) /\ Len(backlog[p]) <= Capacity
         /\ page[p] \in PageStates /\ conn[p] \in Connections
         /\ tally \in Tallies /\ poller \in Pollers /\ faults \in 0..MaxFaults
  BY DEF ObserverInv, ObserverTypeOK

\* A handler that only moves on: no message is sent, and the channel is empty
\* before it has subscribed.
LEMMA HandlerMoves ==
  ASSUME ObserverInv, NEW p \in Pages, NEW to \in Connections,
         conn' = [conn EXCEPT ![p] = to],
         conn[p] \notin {"live", "lagged"},
         conn[p] \in {"closed", "accepted", "sending"} \/ wire[p] = << >>
            \/ to \notin {"closed", "accepted", "sending"},
         UNCHANGED <<ledger, poller, tally, backlog, wire, page, faults>>
  PROVE  ObserverInv'
  <1>1. PageInv(p)'
    BY DEF ObserverInv, PageInv, Counted
  <1>2. QED
    BY <1>1, OnePage DEF ObserverInv, ObserverTypeOK

LEMMA SendSnapshotInv ==
  ASSUME ObserverInv, NEW p \in Pages, SendSnapshot(p)
  PROVE  ObserverInv'
  <1>1. /\ conn[p] = "sending"
        /\ wire' = [wire EXCEPT ![p] = Append(@, tally)]
        /\ conn' = [conn EXCEPT ![p] = "sent"]
        /\ UNCHANGED <<ledger, poller, tally, backlog, page, faults>>
    BY DEF SendSnapshot, serverVars
  <1>2. /\ wire[p] \in Seq(Tallies) /\ tally \in Tallies /\ PageInv(p)
        /\ wire[p] = << >>
    BY <1>1, PageTypes DEF PageInv
  <1>3. /\ Append(wire[p], tally) \in Seq(Tallies)
        /\ Len(Append(wire[p], tally)) <= SocketBuffer
    BY <1>2, ObserverAssumption
  <1>4. wire'[p] = Append(wire[p], tally) /\ conn'[p] = "sent" /\ backlog[p] = << >>
    BY <1>1, <1>2 DEF ObserverInv, ObserverTypeOK, PageInv
  <1>5. InLine(wire'[p], backlog[p], tally)
    BY <1>2, <1>4, BehindNothing, SnapshotInLine DEF PageInv
  <1>6. page[p].named => Ahead(page[p].shown, wire'[p], backlog[p])
    BY <1>2, <1>4, SnapshotInLine DEF PageInv
  <1>7. PageInv(p)'
    BY <1>1, <1>2, <1>4, <1>5, <1>6 DEF PageInv, Counted
  <1>8. QED
    BY <1>1, <1>3, <1>7, OnePage DEF ObserverInv, ObserverTypeOK, Connections

LEMMA ForwardInv ==
  ASSUME ObserverInv, NEW p \in Pages, Forward(p)
  PROVE  ObserverInv'
  <1>1. /\ conn[p] = "live" /\ backlog[p] # << >> /\ Len(wire[p]) < SocketBuffer
        /\ wire' = [wire EXCEPT ![p] = Append(@, Head(backlog[p]))]
        /\ backlog' = [backlog EXCEPT ![p] = Tail(@)]
        /\ UNCHANGED <<ledger, poller, tally, conn, page, faults>>
    BY DEF Forward, serverVars
  <1>2. /\ wire[p] \in Seq(Tallies) /\ backlog[p] \in Seq(Tallies)
        /\ Len(backlog[p]) <= Capacity /\ PageInv(p)
    BY PageTypes
  <1>3. /\ Append(wire[p], Head(backlog[p])) \in Seq(Tallies)
        /\ Len(Append(wire[p], Head(backlog[p]))) <= SocketBuffer
        /\ Tail(backlog[p]) \in Seq(Tallies)
        /\ Len(Tail(backlog[p])) <= Capacity
    BY <1>1, <1>2, ObserverAssumption
  <1>4. wire'[p] = Append(wire[p], Head(backlog[p])) /\ backlog'[p] = Tail(backlog[p])
    BY <1>1 DEF ObserverInv, ObserverTypeOK
  <1>5. InLine(wire'[p], backlog'[p], tally)
    BY <1>1, <1>2, <1>4, BehindNothing, ForwardInLine DEF PageInv
  <1>6. page[p].named => Ahead(page[p].shown, wire'[p], backlog'[p])
    BY <1>1, <1>2, <1>4, ForwardInLine DEF PageInv
  <1>7. PageInv(p)'
    BY <1>1, <1>2, <1>5, <1>6 DEF PageInv, Counted
  <1>8. QED
    BY <1>1, <1>3, <1>4, <1>7, OnePage DEF ObserverInv, ObserverTypeOK

LEMMA EndLaggedInv ==
  ASSUME ObserverInv, NEW p \in Pages, EndLagged(p)
  PROVE  ObserverInv'
  <1>1. /\ conn' = [conn EXCEPT ![p] = "ended"]
        /\ backlog' = [backlog EXCEPT ![p] = << >>]
        /\ UNCHANGED <<ledger, poller, tally, wire, page, faults>>
    BY DEF EndLagged, serverVars
  <1>2. PageInv(p) /\ << >> \in Seq(Tallies) /\ Len(<< >>) <= Capacity
    BY PageTypes, ObserverAssumption
  <1>3. conn'[p] = "ended" /\ backlog'[p] = << >>
    BY <1>1 DEF ObserverInv, ObserverTypeOK
  <1>4. InLine(wire[p], backlog'[p], tally)
    BY <1>2, <1>3 DEF PageInv, InLine
  <1>5. page[p].named => Ahead(page[p].shown, wire[p], backlog'[p])
    BY <1>2, <1>3 DEF PageInv, Ahead
  <1>6. PageInv(p)'
    BY <1>1, <1>2, <1>3, <1>4, <1>5 DEF PageInv, Counted
  <1>7. QED
    BY <1>1, <1>2, <1>3, <1>6, OnePage DEF ObserverInv, ObserverTypeOK, Connections

-----------------------------------------------------------------------------
(* The page *)

Showing(r, x) == [r EXCEPT !.shown = x, !.named = TRUE]
AnsweredWith(r, x) == [r EXCEPT !.seed = "answered", !.answer = x]
Seeded(r) == [r EXCEPT !.shown = r.answer, !.named = FALSE, !.seed = "done", !.answer = {}]
GivenUp(r) == [r EXCEPT !.seed = "done", !.answer = {}]

LEMMA ShowingFields ==
  ASSUME NEW r \in PageStates, NEW x \in Tallies
  PROVE  /\ Showing(r, x) \in PageStates
         /\ Showing(r, x).shown = x /\ Showing(r, x).answer = r.answer
  BY DEF PageStates, Showing

LEMMA AnsweredFields ==
  ASSUME NEW r \in PageStates, NEW x \in Tallies
  PROVE  /\ AnsweredWith(r, x) \in PageStates
         /\ AnsweredWith(r, x).shown = r.shown /\ AnsweredWith(r, x).answer = x
         /\ AnsweredWith(r, x).named = r.named
  BY DEF PageStates, AnsweredWith

LEMMA DoneFields ==
  ASSUME NEW r \in PageStates
  PROVE  /\ /\ Seeded(r) \in PageStates
            /\ Seeded(r).shown = r.answer /\ Seeded(r).answer = {}
            /\ Seeded(r).named = FALSE
         /\ /\ GivenUp(r) \in PageStates
            /\ GivenUp(r).shown = r.shown /\ GivenUp(r).answer = {}
            /\ GivenUp(r).named = r.named
  <1>1. {} \in Tallies
    BY DEF Tallies
  <1>2. /\ Seeded(r) \in PageStates
        /\ Seeded(r).shown = r.answer /\ Seeded(r).answer = {}
        /\ Seeded(r).named = FALSE
    BY <1>1 DEF PageStates, Seeded
  <1>3. /\ GivenUp(r) \in PageStates
        /\ GivenUp(r).shown = r.shown /\ GivenUp(r).answer = {}
        /\ GivenUp(r).named = r.named
    BY <1>1 DEF PageStates, GivenUp
  <1>4. QED
    BY <1>2, <1>3

LEMMA ReceiveInv ==
  ASSUME ObserverInv, NEW p \in Pages, Receive(p)
  PROVE  /\ ObserverInv'
         /\ page[p].named => page'[p].shown = {} \/ page[p].shown \subseteq page'[p].shown
  <1>1. /\ wire[p] # << >>
        /\ wire' = [wire EXCEPT ![p] = Tail(@)]
        /\ page' = [page EXCEPT ![p] = Showing(@, Head(wire[p]))]
        /\ UNCHANGED <<ledger, poller, tally, conn, backlog, faults>>
    BY DEF Receive, serverVars, Showing
  <1>2. /\ PageInv(p)
        /\ wire[p] \in Seq(Tallies) /\ Len(wire[p]) <= SocketBuffer
        /\ backlog[p] \in Seq(Tallies) /\ page[p] \in PageStates
    BY PageTypes
  <1>3. /\ Head(wire[p]) \in Tallies /\ Head(wire[p]) = wire[p][1] /\ 1 \in 1..Len(wire[p])
        /\ Tail(wire[p]) \in Seq(Tallies) /\ Len(Tail(wire[p])) <= SocketBuffer
    BY <1>1, <1>2, ObserverAssumption
  <1>4. /\ wire'[p] = Tail(wire[p]) /\ page'[p] = Showing(page[p], Head(wire[p]))
    BY <1>1 DEF ObserverInv, ObserverTypeOK
  <1>5. /\ page'[p] \in PageStates
        /\ page'[p].shown = Head(wire[p]) /\ page'[p].answer = page[p].answer
    <2>1. /\ Showing(page[p], Head(wire[p])) \in PageStates
          /\ Showing(page[p], Head(wire[p])).shown = Head(wire[p])
          /\ Showing(page[p], Head(wire[p])).answer = page[p].answer
      <3>1. page[p] \in PageStates /\ Head(wire[p]) \in Tallies
        BY <1>2, <1>3
      <3>2. QED
        BY <3>1, ShowingFields
    <2>2. QED
      BY <1>4, <2>1, Zenon
  <1>6. /\ InLine(wire'[p], backlog[p], tally)
        /\ Ahead(Head(wire[p]), wire'[p], backlog[p])
        /\ Head(wire[p]) \subseteq tally
    BY <1>1, <1>2, <1>4, ReceiveInLine DEF PageInv
  <1>7. /\ Head(wire[p]) \subseteq Counted(ledger)
        /\ poller.pc = "fetched" => Head(wire[p]) \subseteq poller.read
    BY <1>6 DEF ObserverInv, PollInv
  <1>8. PageInv(p)'
    BY <1>1, <1>2, <1>5, <1>6, <1>7 DEF PageInv, Counted
  <1>9. ObserverInv'
    BY <1>1, <1>2, <1>3, <1>4, <1>5, <1>8, OnePage, PageTypes
    DEF ObserverInv, ObserverTypeOK
  <1>10. page[p].named => Head(wire[p]) = {} \/ page[p].shown \subseteq Head(wire[p])
    BY <1>2, <1>3 DEF PageInv, Ahead
  <1>11. QED
    BY <1>5, <1>9, <1>10

\* The page's own question: the answer is a tally, of whatever age.
LEMMA SeedInv ==
  ASSUME ObserverInv, NEW p \in Pages, AnswerSeed(p) \/ ApplySeed(p) \/ SeedLost(p)
  PROVE  /\ ObserverInv'
         /\ page[p].named /\ page'[p].named => page'[p].shown = page[p].shown
  <1>1. /\ UNCHANGED <<ledger, poller, tally, conn, backlog, wire>>
        /\ faults' \in 0..MaxFaults
    BY ObserverAssumption
    DEF AnswerSeed, ApplySeed, SeedLost, serverVars, socketVars, ObserverInv,
        ObserverTypeOK
  <1>2. PageInv(p) /\ page[p] \in PageStates /\ tally \in Tallies
    BY PageTypes
  <1>3. tally \subseteq Counted(ledger)
    BY DEF ObserverInv, PollInv
  <1>4. \E r \in PageStates :
           /\ page' = [page EXCEPT ![p] = r]
           /\ r.answer \subseteq Counted(ledger) /\ r.shown \subseteq Counted(ledger)
           /\ r.named => page[p].named /\ r.shown = page[p].shown
    <2>1. CASE AnswerSeed(p)
      <3>1. page' = [page EXCEPT ![p] = AnsweredWith(page[p], tally)]
        BY <2>1 DEF AnswerSeed, AnsweredWith
      <3>2. /\ AnsweredWith(page[p], tally) \in PageStates
            /\ AnsweredWith(page[p], tally).shown = page[p].shown
            /\ AnsweredWith(page[p], tally).answer = tally
            /\ AnsweredWith(page[p], tally).named = page[p].named
        BY <1>2, AnsweredFields
      <3>3. page[p].shown \subseteq Counted(ledger)
        BY <1>2 DEF PageInv
      <3>4. QED
        BY <1>3, <3>1, <3>2, <3>3
    <2>2. CASE ApplySeed(p)
      <3>1. page' = [page EXCEPT ![p] = Seeded(page[p])]
        BY <2>2 DEF ApplySeed, Seeded
      <3>2. QED
        BY <1>2, <3>1, DoneFields DEF PageInv
    <2>3. CASE SeedLost(p)
      <3>1. page' = [page EXCEPT ![p] = GivenUp(page[p])]
        BY <2>3 DEF SeedLost, GivenUp
      <3>2. QED
        BY <1>2, <3>1, DoneFields DEF PageInv
    <2>4. QED
      BY <2>1, <2>2, <2>3
  <1>5. PICK r \in PageStates :
           /\ page' = [page EXCEPT ![p] = r]
           /\ r.answer \subseteq Counted(ledger) /\ r.shown \subseteq Counted(ledger)
           /\ r.named => page[p].named /\ r.shown = page[p].shown
    BY <1>4
  <1>6. page'[p] = r
    BY <1>5 DEF ObserverInv, ObserverTypeOK
  <1>7. PageInv(p)'
    BY <1>1, <1>2, <1>5, <1>6 DEF PageInv, Counted
  <1>8. ObserverInv'
    BY <1>1, <1>5, <1>7, OnePage, PageTypes DEF ObserverInv, ObserverTypeOK
  <1>9. QED
    BY <1>5, <1>6, <1>8

-----------------------------------------------------------------------------
(* Faults *)

LEMMA DropInv ==
  ASSUME ObserverInv, NEW p \in Pages, Drop(p)
  PROVE  ObserverInv'
  <1>1. /\ faults' \in 0..MaxFaults
        /\ conn' = [conn EXCEPT ![p] = "closed"]
        /\ backlog' = [backlog EXCEPT ![p] = << >>]
        /\ wire' = [wire EXCEPT ![p] = << >>]
        /\ UNCHANGED <<ledger, poller, tally, page>>
    BY ObserverAssumption DEF Drop, serverVars, ObserverInv, ObserverTypeOK
  <1>2. /\ PageInv(p) /\ << >> \in Seq(Tallies)
        /\ Len(<< >>) <= Capacity /\ Len(<< >>) <= SocketBuffer
    BY PageTypes, ObserverAssumption
  <1>3. conn'[p] = "closed" /\ backlog'[p] = << >> /\ wire'[p] = << >>
    BY <1>1 DEF ObserverInv, ObserverTypeOK
  <1>4. /\ InLine(wire'[p], backlog'[p], tally)
        /\ Ahead(page[p].shown, wire'[p], backlog'[p])
    BY <1>3, NoMessages
  <1>5. PageInv(p)'
    BY <1>1, <1>2, <1>3, <1>4 DEF PageInv, Counted
  <1>6. QED
    BY <1>1, <1>2, <1>3, <1>5, OnePage DEF ObserverInv, ObserverTypeOK, Connections

LEMMA RestartInv ==
  ASSUME ObserverInv, RestartDashboard
  PROVE  /\ ObserverInv'
         /\ \A p \in Pages : page'[p].shown = page[p].shown
  <1>1. /\ faults' \in 0..MaxFaults
        /\ poller' = [pc |-> "tick", read |-> {}] /\ tally' = {} /\ ledger' = ledger
        /\ conn' = [p \in Pages |-> "closed"]
        /\ backlog' = [p \in Pages |-> << >>] /\ wire' = [p \in Pages |-> << >>]
    BY ObserverAssumption DEF RestartDashboard, ObserverInv, ObserverTypeOK
  <1>2. /\ {} \in Tallies /\ << >> \in Seq(Tallies)
        /\ Len(<< >>) <= Capacity /\ Len(<< >>) <= SocketBuffer
    BY ObserverAssumption DEF Tallies
  <1>3. /\ page' \in [Pages -> PageStates]
        /\ \A p \in Pages : /\ page'[p].shown = page[p].shown
                            /\ page'[p].answer = page[p].answer
                            /\ page'[p].named = page[p].named
    <2>1. page' = [p \in Pages |-> IF page[p].seed = "asked"
                                   THEN [page[p] EXCEPT !.seed = "done"] ELSE page[p]]
      BY DEF RestartDashboard
    <2>2. ASSUME NEW r \in PageStates
          PROVE  /\ [r EXCEPT !.seed = "done"] \in PageStates
                 /\ [r EXCEPT !.seed = "done"].shown = r.shown
                 /\ [r EXCEPT !.seed = "done"].answer = r.answer
                 /\ [r EXCEPT !.seed = "done"].named = r.named
      BY DEF PageStates
    <2>3. \A p \in Pages : page[p] \in PageStates
      BY PageTypes
    <2>4. QED
      BY <2>1, <2>2, <2>3
  <1>4. ObserverTypeOK'
    BY <1>1, <1>2, <1>3 DEF ObserverInv, ObserverTypeOK, Pollers, Connections
  <1>5. PollInv'
    BY <1>1 DEF PollInv
  <1>6. ASSUME NEW p \in Pages
        PROVE  PageInv(p)'
    <2>1. /\ InLine(wire'[p], backlog'[p], tally')
          /\ Ahead(page'[p].shown, wire'[p], backlog'[p])
      BY <1>1, NoMessages
    <2>2. PageInv(p)
      BY PageTypes
    <2>3. QED
      BY <1>1, <1>3, <2>1, <2>2 DEF PageInv, Counted
  <1>7. QED
    BY <1>3, <1>4, <1>5, <1>6 DEF ObserverInv

-----------------------------------------------------------------------------
(* Every step *)

Forwards ==
    \A p \in Pages : page[p].named /\ page'[p].named =>
      page'[p].shown = {} \/ page[p].shown \subseteq page'[p].shown

LEMMA PageStepInv ==
  ASSUME ObserverInv, NEW p \in Pages, PageStep(p) \/ Drop(p) \/ SeedLost(p)
  PROVE  ObserverInv' /\ Forwards
  <1>1. CASE Receive(p)
    <2>1. \A q \in Pages \ {p} : page'[q] = page[q]
      BY <1>1 DEF Receive, ObserverInv, ObserverTypeOK
    <2>2. QED
      BY <1>1, <2>1, ReceiveInv DEF Forwards
  <1>2. CASE AnswerSeed(p) \/ ApplySeed(p) \/ SeedLost(p)
    <2>1. \A q \in Pages \ {p} : page'[q] = page[q]
      BY <1>2 DEF AnswerSeed, ApplySeed, SeedLost, ObserverInv, ObserverTypeOK
    <2>2. QED
      BY <1>2, <2>1, SeedInv DEF Forwards
  <1>3. CASE Connect(p) \/ TakeSnapshot(p) \/ Subscribe(p) \/ NoticeEnd(p)
    <2>1. PICK to \in Connections :
            /\ conn' = [conn EXCEPT ![p] = to]
            /\ conn[p] \notin {"live", "lagged"}
            /\ \/ conn[p] \in {"closed", "accepted", "sending"}
               \/ wire[p] = << >>
               \/ to \notin {"closed", "accepted", "sending"}
            /\ UNCHANGED <<ledger, poller, tally, backlog, wire, page, faults>>
      BY <1>3 DEF Connect, TakeSnapshot, Subscribe, NoticeEnd, serverVars, Connections
    <2>2. ObserverInv'
      BY <2>1, HandlerMoves
    <2>3. QED
      BY <2>1, <2>2 DEF Forwards
  <1>4. CASE SendSnapshot(p) \/ Forward(p) \/ EndLagged(p) \/ Drop(p)
    <2>1. page' = page
      BY <1>4 DEF SendSnapshot, Forward, EndLagged, Drop
    <2>2. ObserverInv'
      BY <1>4, SendSnapshotInv, ForwardInv, EndLaggedInv, DropInv
    <2>3. QED
      BY <2>1, <2>2 DEF Forwards
  <1>5. QED
    BY <1>1, <1>2, <1>3, <1>4 DEF PageStep

LEMMA StutterInv ==
  ASSUME ObserverInv, UNCHANGED observerVars
  PROVE  ObserverInv' /\ Forwards
  <1>1. UNCHANGED <<ledger, poller, tally, conn, backlog, wire, page, faults>>
    BY DEF observerVars
  <1>2. ObserverTypeOK' /\ PollInv'
    BY <1>1 DEF ObserverInv, ObserverTypeOK, PollInv, Counted
  <1>3. \A p \in Pages : PageInv(p)'
    BY <1>1 DEF ObserverInv, PageInv, Counted
  <1>4. QED
    BY <1>1, <1>2, <1>3 DEF ObserverInv, Forwards

LEMMA ObserverInvStep ==
  ObserverInv /\ [ObserverNext]_observerVars => ObserverInv' /\ Forwards
  <1> SUFFICES ASSUME ObserverInv, [ObserverNext]_observerVars
               PROVE  ObserverInv' /\ Forwards
    OBVIOUS
  <1>1. ASSUME NEW b \in BallotAccounts, CastBallot(b)
        PROVE  ObserverInv' /\ Forwards
    BY <1>1, CastStepInv DEF CastBallot, Forwards
  <1>2. CASE Poll
    <2>1. page' = page
      BY <1>2 DEF Poll, Fetch, Store, Broadcast
    <2>2. ObserverInv'
      BY <1>2, FetchStepInv, StoreStepInv, BroadcastStepInv DEF Poll
    <2>3. QED
      BY <2>1, <2>2 DEF Forwards
  <1>3. ASSUME NEW p \in Pages, PageStep(p) \/ Drop(p) \/ SeedLost(p)
        PROVE  ObserverInv' /\ Forwards
    BY <1>3, PageStepInv
  <1>4. CASE RestartDashboard
    BY <1>4, RestartInv DEF Forwards
  <1>5. CASE UNCHANGED observerVars
    BY <1>5, StutterInv
  <1>6. QED
    BY <1>1, <1>2, <1>3, <1>4, <1>5 DEF ObserverNext, Fault

-----------------------------------------------------------------------------
(* Theorems *)

\* Poller, channel, sockets and pages keep their shapes; in particular neither
\* the channel nor a socket ever holds more than it has room for.
THEOREM ObserverTypeCorrect == ObserverSpec => []ObserverTypeOK
  <1>1. ObserverInv => ObserverTypeOK
    BY DEF ObserverInv
  <1>2. QED
    BY <1>1, ObserverInvInit, ObserverInvStep, PTL DEF ObserverSpec

\* A page never shows a vote that no ballot account holds.
THEOREM ObserverShownIsOnLedger == ObserverSpec => []ShownIsOnLedger
  <1>1. ObserverInv => ShownIsOnLedger
    BY DEF ObserverInv, PageInv, ShownIsOnLedger
  <1>2. QED
    BY <1>1, ObserverInvInit, ObserverInvStep, PTL DEF ObserverSpec

\* As far as they come by the socket, the numbers of a page never go back but
\* to nothing, whatever was lost, queued or restarted.
THEOREM ObserverNeverGoesBack == ObserverSpec => NeverGoesBack
  <1>1. ObserverInv /\ [ObserverNext]_observerVars =>
          [\A p \in Pages : page[p].named /\ page'[p].named =>
             page'[p].shown = {} \/ page[p].shown \subseteq page'[p].shown]_observerVars
    BY ObserverInvStep DEF Forwards
  <1>2. QED
    BY <1>1, ObserverInvInit, ObserverInvStep, PTL DEF ObserverSpec, NeverGoesBack
=============================================================================
