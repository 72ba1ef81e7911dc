----------------------------- MODULE BoothProofs -----------------------------
(***************************************************************************)
(* Theorems about Booth, for any set of voters and candidates, whatever is *)
(* clicked, reloaded or answered late.                                     *)
(***************************************************************************)
EXTENDS Booth, FiniteSetTheorems, TLAPS

-----------------------------------------------------------------------------
(* The invariant *)

\* Where the page is limits what can be under way.
PanelInv ==
    /\ page.panel \in {"fp", "result"} => Pending("confirm") = {}
    /\ page.panel # "fp" =>
         /\ Pending("identify") = {}
         /\ page.fpInput \in Voters /\ page.voter \in Voters
    /\ Pending("identify") # {} => page.fpInput \in Voters

\* The button of a request under way is disabled.
ButtonInv ==
    \A kind \in Buttons :
       /\ Pending(kind) # {} => kind \in page.disabled
       /\ \A p, q \in Pending(kind) : p = q

\* A vote that was answered with ok is with the server.
VoteInv ==
    \A q \in requests : q.kind = "confirm" =>
       /\ q.candidate \in Candidates
       /\ q.status = "ok" => q.voter \in DOMAIN voted /\ voted[q.voter] = q.candidate

\* The field, the screen and the requests are about the same voter.
CarefulInv ==
    careful =>
      /\ \A q \in Pending("identify") : q.voter = page.fpInput
      /\ page.panel # "fp" => page.fpInput = page.voter
      /\ \A q \in Pending("confirm") : q.voter = page.voter
      /\ page.panel = "result" =>
           page.voter \in DOMAIN voted /\ voted[page.voter] = page.receipt

BoothInv ==
    BoothTypeOK /\ PanelInv /\ ButtonInv /\ VoteInv /\ CarefulInv

LEMMA BoothInvInit == BoothInit => BoothInv
  <1> SUFFICES ASSUME BoothInit PROVE BoothInv
    OBVIOUS
  <1>1. requests = {} /\ page.panel = "fp" /\ page \in Pages /\ voted = << >>
    BY DEF BoothInit, FreshPage, Pages, Panels
  <1>2. BoothTypeOK
    BY <1>1 DEF BoothInit, BoothTypeOK
  <1>3. QED
    BY <1>1, <1>2 DEF BoothInv, PanelInv, ButtonInv, VoteInv, CarefulInv, Pending

-----------------------------------------------------------------------------
(* Clicks *)

LEMMA RequestFields ==
  ASSUME NEW kind \in Buttons, NEW v \in Voters, NEW c \in Candidates \cup {NoCandidate}
  PROVE  /\ Request(kind, v, c) \in RequestRecords
         /\ Request(kind, v, c).kind = kind /\ Request(kind, v, c).voter = v
         /\ Request(kind, v, c).candidate = c
         /\ Request(kind, v, c).live /\ Request(kind, v, c).status = "sent"
  BY DEF Request, RequestRecords

\* A click that sends a request whose button is enabled and disables it.
LEMMA ClickKeeps ==
  ASSUME BoothInv, NEW kind \in Buttons, NEW v \in Voters,
         NEW c \in Candidates \cup {NoCandidate},
         kind \notin page.disabled,
         page' = [page EXCEPT !.disabled = @ \cup {kind}],
         requests' = requests \cup {Request(kind, v, c)},
         UNCHANGED <<enrolled, voted, careful>>,
         kind = "identify" => page.panel = "fp" /\ v = page.fpInput,
         kind = "confirm" =>
           page.panel = "confirm" /\ c \in Candidates /\ v = page.fpInput
  PROVE  BoothInv'
  <1> DEFINE new == Request(kind, v, c)
  <1>1. /\ new \in RequestRecords /\ new.kind = kind /\ new.voter = v
        /\ new.candidate = c /\ new.live /\ new.status = "sent"
    BY RequestFields
  <1>2. /\ page' \in Pages
        /\ page'.panel = page.panel /\ page'.fpInput = page.fpInput
        /\ page'.voter = page.voter /\ page'.receipt = page.receipt
        /\ page'.disabled = page.disabled \cup {kind}
    BY DEF BoothInv, BoothTypeOK, Pages
  <1>3. requests' = requests \cup {new}
    OBVIOUS
  <1> HIDE DEF new
  <1>4. /\ Pending(kind)' = {new} /\ Pending(kind) = {}
        /\ \A k \in Buttons \ {kind} : Pending(k)' = Pending(k)
    BY <1>1, <1>3 DEF BoothInv, ButtonInv, Pending
  <1>5. BoothTypeOK'
    BY <1>1, <1>2, <1>3 DEF BoothInv, BoothTypeOK
  <1>6. PanelInv'
    BY <1>2, <1>4 DEF BoothInv, PanelInv, BoothTypeOK, Buttons
  <1>7. ButtonInv'
    BY <1>2, <1>4 DEF BoothInv, ButtonInv
  <1>8. VoteInv'
    BY <1>1, <1>3 DEF BoothInv, VoteInv
  <1>9. CarefulInv'
    BY <1>1, <1>2, <1>4 DEF BoothInv, CarefulInv, Buttons
  <1>10. QED
    BY <1>5, <1>6, <1>7, <1>8, <1>9 DEF BoothInv

\* A click that sends nothing, and leaves the page's voter alone.
LEMMA QuietKeeps ==
  ASSUME BoothInv, page' \in Pages,
         page'.panel \in {"vote", "confirm"}, page.panel \in {"vote", "confirm"},
         page'.fpInput = page.fpInput, page'.voter = page.voter,
         page'.disabled = page.disabled,
         UNCHANGED <<requests, enrolled, voted, careful>>
  PROVE  BoothInv'
  BY DEF BoothInv, BoothTypeOK, PanelInv, ButtonInv, VoteInv, CarefulInv, Pending

LEMMA ClickStep ==
  ASSUME BoothInv, Click
  PROVE  BoothInv'
  <1> USE BoothAssumption
  <1>t. page \in Pages
    BY DEF BoothInv, BoothTypeOK
  <1>1. ASSUME NEW v \in Voters, Type(v) PROVE BoothInv'
    <2>1. /\ page' \in Pages /\ page.panel = "fp" /\ page'.panel = "fp"
          /\ page'.fpInput = v /\ page'.voter = page.voter
          /\ page'.disabled = page.disabled
      BY <1>t, <1>1 DEF Type, Pages
    <2>2. /\ UNCHANGED <<requests, enrolled, voted, careful>>
          /\ careful => "identify" \notin page.disabled
      BY <1>1 DEF Type, Enabled
    <2>3. careful => Pending("identify") = {}
      BY <2>2 DEF BoothInv, ButtonInv, Buttons
    <2>4. QED
      BY <2>1, <2>2, <2>3
      DEF BoothInv, BoothTypeOK, PanelInv, ButtonInv, VoteInv, CarefulInv, Pending
  <1>2. CASE ClickIdentify
    <2>1. page.fpInput \in Voters
      BY <1>t, <1>2 DEF ClickIdentify, Pages
    <2>2. QED
      BY <1>2, <2>1, ClickKeeps DEF ClickIdentify, Enabled, Buttons
  <1>3. CASE ClickRegister
    <2>1. page.fpInput \in Voters
      BY <1>3 DEF ClickRegister, BoothInv, PanelInv
    <2>2. QED
      BY <1>3, <2>1, ClickKeeps DEF ClickRegister, Enabled, Buttons
  <1>4. CASE ClickConfirm
    <2>1. page.fpInput \in Voters /\ page.selected \in Candidates
      BY <1>t, <1>4 DEF ClickConfirm, BoothInv, PanelInv, Pages
    <2>2. QED
      BY <1>4, <2>1, ClickKeeps DEF ClickConfirm, Enabled, Buttons
  <1>5. ASSUME NEW c \in Candidates, SelectCandidate(c) PROVE BoothInv'
    BY <1>t, <1>5, QuietKeeps DEF SelectCandidate, Pages, Panels
  <1>6. CASE GoBack
    BY <1>t, <1>6, QuietKeeps DEF GoBack, Pages, Panels
  <1>7. CASE NewVoter
    <2>1. /\ page' \in Pages /\ page.panel = "result" /\ page'.panel = "fp"
          /\ page'.disabled = page.disabled
      BY <1>t, <1>7 DEF NewVoter, Pages, Panels
    <2>2. UNCHANGED <<requests, enrolled, voted, careful>>
      BY <1>7 DEF NewVoter
    <2>3. QED
      BY <2>1, <2>2
      DEF BoothInv, BoothTypeOK, PanelInv, ButtonInv, VoteInv, CarefulInv, Pending
  <1>8. CASE Reload
    <2>1. page' \in Pages /\ page'.panel = "fp"
      BY <1>8 DEF Reload, FreshPage, Pages, Panels
    <2>2. ASSUME NEW p \in RequestRecords
          PROVE  /\ [p EXCEPT !.live = FALSE] \in RequestRecords
                 /\ ~[p EXCEPT !.live = FALSE].live
                 /\ [p EXCEPT !.live = FALSE].kind = p.kind
                 /\ [p EXCEPT !.live = FALSE].status = p.status
                 /\ [p EXCEPT !.live = FALSE].candidate = p.candidate
      BY DEF RequestRecords
    <2>3. ASSUME NEW q \in requests'
          PROVE  /\ q \in RequestRecords /\ ~q.live /\ q.status # "ok"
                 /\ q.kind = "confirm" => q.candidate \in Candidates
      <3>1. PICK p \in requests : p.status = "sent" /\ q = [p EXCEPT !.live = FALSE]
        BY <1>8 DEF Reload
      <3>2. p \in RequestRecords /\ (p.kind = "confirm" => p.candidate \in Candidates)
        BY DEF BoothInv, BoothTypeOK, VoteInv
      <3>3. QED
        BY <2>2, <3>1, <3>2
    <2>4. \A q \in requests' :
             /\ q \in RequestRecords /\ ~q.live /\ q.status # "ok"
             /\ q.kind = "confirm" => q.candidate \in Candidates
      BY <2>3
    <2>5. \A kind \in Buttons : Pending(kind)' = {}
      BY <2>4 DEF Pending
    <2>6. UNCHANGED <<enrolled, voted, careful>>
      BY <1>8 DEF Reload
    <2>7. BoothTypeOK'
      BY <2>1, <2>4, <2>6 DEF BoothInv, BoothTypeOK
    <2>8. QED
      BY <2>1, <2>4, <2>5, <2>7
      DEF BoothInv, PanelInv, ButtonInv, VoteInv, CarefulInv, Buttons
  <1>9. QED
    BY <1>1, <1>2, <1>3, <1>4, <1>5, <1>6, <1>7, <1>8 DEF Click

-----------------------------------------------------------------------------
(* The server and its answers *)

\* A request that has been served is still the same request.
ServedAs(r, status, b) == [r EXCEPT !.status = status, !.registered = b]

LEMMA ServedAsFields ==
  ASSUME NEW r \in RequestRecords, NEW status \in {"ok", "error"}, NEW b \in BOOLEAN
  PROVE  /\ ServedAs(r, status, b) \in RequestRecords
         /\ ServedAs(r, status, b).kind = r.kind
         /\ ServedAs(r, status, b).voter = r.voter
         /\ ServedAs(r, status, b).candidate = r.candidate
         /\ ServedAs(r, status, b).live = r.live
         /\ ServedAs(r, status, b).status = status
  BY DEF RequestRecords, ServedAs

LEMMA ServedFields ==
  ASSUME BoothInv, NEW q \in requests, NEW status \in {"ok", "error"},
         Served(q, status)
  PROVE  \E s \in RequestRecords :
           /\ s.kind = q.kind /\ s.voter = q.voter /\ s.candidate = q.candidate
           /\ s.live = q.live /\ s.status = status
           /\ requests' = (requests \ {q}) \cup (IF q.live THEN {s} ELSE {})
  <1>1. q \in RequestRecords
    BY DEF BoothInv, BoothTypeOK
  <1>2. requests' = (requests \ {q}) \cup
                      (IF q.live THEN {ServedAs(q, status, q.voter \in enrolled)} ELSE {})
    BY Zenon DEF Served, ServedAs
  <1>3. CASE q.voter \in enrolled
    <2>1. (q.voter \in enrolled) = TRUE
      BY <1>3, Zenon
    <2>2. requests' = (requests \ {q}) \cup
                        (IF q.live THEN {ServedAs(q, status, TRUE)} ELSE {})
      BY <1>2, <2>1, Zenon
    <2>3. QED
      BY <1>1, <2>2, ServedAsFields
  <1>4. CASE q.voter \notin enrolled
    <2>1. (q.voter \in enrolled) = FALSE
      <3>1. (q.voter \in enrolled) <=> FALSE
        BY <1>4
      <3>2. QED
        BY <3>1, SMT
    <2>2. requests' = (requests \ {q}) \cup
                        (IF q.live THEN {ServedAs(q, status, FALSE)} ELSE {})
      BY <1>2, <2>1, Zenon
    <2>3. QED
      BY <1>1, <2>2, ServedAsFields
  <1>5. QED
    BY <1>3, <1>4

LEMMA ServeStep ==
  ASSUME BoothInv, NEW q \in requests, Serve(q)
  PROVE  BoothInv'
  <1>1. PICK status \in {"ok", "error"} :
          /\ Served(q, status)
          /\ status = "ok" /\ q.kind = "confirm" =>
               q.voter \in DOMAIN voted' /\ voted'[q.voter] = q.candidate
    <2>1. CASE Served(q, "error")
      BY <2>1
    <2>2. CASE Served(q, "ok") /\ q.kind # "confirm"
      BY <2>2
    <2>3. CASE /\ q.kind = "confirm"
               /\ voted' = [v \in DOMAIN voted \cup {q.voter} |->
                              IF v = q.voter THEN q.candidate ELSE voted[v]]
               /\ \E status \in {"ok", "error"} : Served(q, status)
      BY <2>3
    <2>4. QED
      BY <2>1, <2>2, <2>3 DEF Serve
  <1>2. /\ q \in RequestRecords /\ q.status = "sent"
        /\ q.voter \in Voters
        /\ q.kind = "confirm" => q.candidate \in Candidates
    BY DEF Serve, BoothInv, BoothTypeOK, VoteInv, RequestRecords
  <1>3. PICK s \in RequestRecords :
          /\ s.kind = q.kind /\ s.voter = q.voter /\ s.candidate = q.candidate
          /\ s.live = q.live /\ s.status = status
          /\ requests' = (requests \ {q}) \cup (IF q.live THEN {s} ELSE {})
    BY <1>1, ServedFields
  <1>4. /\ page' = page /\ careful' = careful
        /\ enrolled' \subseteq Voters
    BY <1>2 DEF Serve, BoothInv, BoothTypeOK
  <1>5. /\ voted' \in [DOMAIN voted' -> Candidates]
        /\ DOMAIN voted' \subseteq Voters
        /\ \A v \in DOMAIN voted : v \in DOMAIN voted' /\ voted'[v] = voted[v]
    <2>1. CASE voted' = voted
      BY <2>1 DEF BoothInv, BoothTypeOK
    <2>2. CASE /\ q.kind = "confirm" /\ q.voter \in enrolled \ DOMAIN voted
               /\ voted' = [v \in DOMAIN voted \cup {q.voter} |->
                              IF v = q.voter THEN q.candidate ELSE voted[v]]
      BY <1>2, <2>2 DEF BoothInv, BoothTypeOK
    <2>3. QED
      BY <2>1, <2>2 DEF Serve
  <1>6. \A kind \in Buttons :
          \/ Pending(kind)' = Pending(kind)
          \/ kind = q.kind /\ q \in Pending(kind) /\ Pending(kind)' = {s}
    BY <1>3 DEF BoothInv, ButtonInv, Pending
  <1>7. BoothTypeOK'
    BY <1>3, <1>4, <1>5 DEF BoothInv, BoothTypeOK
  <1>8. PanelInv'
    BY <1>4, <1>6 DEF BoothInv, PanelInv, Buttons
  <1>9. ButtonInv'
    BY <1>4, <1>6 DEF BoothInv, ButtonInv
  <1>10. VoteInv'
    <2>1. ASSUME NEW r \in requests', r.kind = "confirm"
          PROVE  /\ r.candidate \in Candidates
                 /\ r.status = "ok" => r.voter \in DOMAIN voted' /\ voted'[r.voter] = r.candidate
      <3>1. CASE r \in requests
        BY <1>5, <2>1, <3>1 DEF BoothInv, VoteInv
      <3>2. CASE r = s
        BY <1>1, <1>2, <1>3, <2>1, <3>2
      <3>3. QED
        BY <1>3, <3>1, <3>2
    <2>2. QED
      BY <2>1 DEF VoteInv
  <1>11. CarefulInv'
    BY <1>3, <1>4, <1>5, <1>6 DEF BoothInv, CarefulInv, Buttons
  <1>12. QED
    BY <1>7, <1>8, <1>9, <1>10, <1>11 DEF BoothInv

\* An answer takes its request off the page; nothing else of its kind is there.
LEMMA AnsweredKeeps ==
  ASSUME BoothInv, NEW q \in requests, NEW kind \in Buttons, Answered(q, kind)
  PROVE  /\ requests' = requests \ {q} /\ q \in Pending(kind)
         /\ Pending(kind)' = {}
         /\ \A k \in Buttons \ {kind} : Pending(k)' = Pending(k)
         /\ VoteInv' /\ requests' \subseteq RequestRecords
         /\ UNCHANGED <<enrolled, voted, careful>>
  BY DEF Answered, BoothInv, BoothTypeOK, ButtonInv, VoteInv, Pending

LEMMA AnswerStep ==
  ASSUME BoothInv, NEW q \in requests,
         AnswerIdentify(q) \/ AnswerRegister(q) \/ AnswerVote(q)
  PROVE  BoothInv'
  <1>t. page \in Pages /\ q \in RequestRecords /\ q.voter \in Voters
    BY DEF BoothInv, BoothTypeOK, RequestRecords
  <1>1. CASE AnswerIdentify(q)
    <2>1. /\ requests' = requests \ {q} /\ q \in Pending("identify")
          /\ Pending("identify")' = {}
          /\ \A k \in Buttons \ {"identify"} : Pending(k)' = Pending(k)
          /\ VoteInv' /\ requests' \subseteq RequestRecords
          /\ UNCHANGED <<enrolled, voted, careful>>
      BY <1>1, AnsweredKeeps DEF AnswerIdentify, Buttons
    <2>2. page.panel = "fp" /\ page.fpInput \in Voters
      BY <2>1 DEF BoothInv, PanelInv
    <2>3. /\ page' \in Pages /\ page'.fpInput = page.fpInput
          /\ page'.disabled = page.disabled \ {"identify"}
          /\ \/ page'.panel = "vote" /\ page'.voter = q.voter
             \/ page'.panel = "fp" /\ page'.voter = page.voter
      <3>1. CASE q.status = "ok"
        BY <1>t, <1>1, <3>1 DEF AnswerIdentify, Pages, Panels, RequestRecords
      <3>2. CASE q.status # "ok"
        BY <1>t, <1>1, <2>2, <3>2 DEF AnswerIdentify, Pages
      <3>3. QED
        BY <3>1, <3>2
    <2>4. BoothTypeOK'
      BY <2>1, <2>3 DEF BoothInv, BoothTypeOK
    <2>5. PanelInv'
      BY <1>t, <2>1, <2>2, <2>3 DEF BoothInv, PanelInv, Buttons
    <2>6. ButtonInv'
      BY <2>1, <2>3 DEF BoothInv, ButtonInv
    <2>7. CarefulInv'
      BY <2>1, <2>2, <2>3 DEF BoothInv, CarefulInv, PanelInv, Buttons
    <2>8. QED
      BY <2>1, <2>4, <2>5, <2>6, <2>7 DEF BoothInv
  <1>2. CASE AnswerRegister(q)
    <2>1. /\ requests' = requests \ {q} /\ q \in Pending("register")
          /\ Pending("register")' = {}
          /\ \A k \in Buttons \ {"register"} : Pending(k)' = Pending(k)
          /\ VoteInv' /\ requests' \subseteq RequestRecords
          /\ UNCHANGED <<enrolled, voted, careful>>
      BY <1>2, AnsweredKeeps DEF AnswerRegister, Buttons
    <2>2. /\ page' \in Pages
          /\ page'.panel = page.panel /\ page'.fpInput = page.fpInput
          /\ page'.voter = page.voter /\ page'.receipt = page.receipt
          /\ page'.disabled = page.disabled \ {"register"}
      BY <1>t, <1>2 DEF AnswerRegister, Pages
    <2>3. BoothTypeOK'
      BY <2>1, <2>2 DEF BoothInv, BoothTypeOK
    <2>4. PanelInv'
      BY <2>1, <2>2 DEF BoothInv, PanelInv, Buttons
    <2>5. ButtonInv'
      BY <2>1, <2>2 DEF BoothInv, ButtonInv
    <2>6. CarefulInv'
      BY <2>1, <2>2 DEF BoothInv, CarefulInv, Buttons
    <2>7. QED
      BY <2>1, <2>3, <2>4, <2>5, <2>6 DEF BoothInv
  <1>3. CASE AnswerVote(q)
    <2>1. /\ requests' = requests \ {q} /\ q \in Pending("confirm")
          /\ Pending("confirm")' = {}
          /\ \A k \in Buttons \ {"confirm"} : Pending(k)' = Pending(k)
          /\ VoteInv' /\ requests' \subseteq RequestRecords
          /\ UNCHANGED <<enrolled, voted, careful>>
      BY <1>3, AnsweredKeeps DEF AnswerVote, Buttons
    <2>2. /\ page.panel \notin {"fp", "result"}
          /\ page.fpInput \in Voters /\ page.voter \in Voters
          /\ q.kind = "confirm" /\ q.candidate \in Candidates
          /\ q.status = "ok" => q.voter \in DOMAIN voted /\ voted[q.voter] = q.candidate
      BY <2>1 DEF BoothInv, PanelInv, VoteInv, Pending
    <2>3. /\ page' \in Pages
          /\ page'.fpInput = page.fpInput /\ page'.voter = page.voter
          /\ \/ /\ q.status = "ok" /\ page'.panel = "result"
                /\ page'.receipt = q.candidate /\ page'.disabled = page.disabled
             \/ /\ page'.panel = page.panel
                /\ page'.disabled = page.disabled \ {"confirm"}
      <3>1. CASE q.status = "ok"
        BY <1>t, <1>3, <2>2, <3>1 DEF AnswerVote, Pages, Panels
      <3>2. CASE q.status # "ok"
        BY <1>t, <1>3, <3>2 DEF AnswerVote, Pages
      <3>3. QED
        BY <3>1, <3>2
    <2>4. BoothTypeOK'
      BY <2>1, <2>3 DEF BoothInv, BoothTypeOK
    <2>5. PanelInv'
      BY <2>1, <2>2, <2>3 DEF BoothInv, PanelInv, Buttons
    <2>6. ButtonInv'
      BY <2>1, <2>3 DEF BoothInv, ButtonInv
    <2>7. CarefulInv'
      BY <2>1, <2>2, <2>3 DEF BoothInv, CarefulInv, Buttons
    <2>8. QED
      BY <2>1, <2>4, <2>5, <2>6, <2>7 DEF BoothInv
  <1>4. QED
    BY <1>1, <1>2, <1>3

LEMMA BoothInvStep == BoothInv /\ [BoothNext]_boothVars => BoothInv'
  <1>1. CASE BoothNext
    BY <1>1, ClickStep, ServeStep, AnswerStep DEF BoothNext
  <1>2. CASE UNCHANGED boothVars
    BY <1>2
    DEF boothVars, BoothInv, BoothTypeOK, PanelInv, ButtonInv, VoteInv, CarefulInv, Pending
  <1>3. QED
    BY <1>1, <1>2

LEMMA BoothInvariant == BoothSpec => []BoothInv
  <1>1. QED
    BY BoothInvInit, BoothInvStep, PTL DEF BoothSpec

-----------------------------------------------------------------------------
(* Theorems *)

\* The page, the requests and the server's votes keep their types.
THEOREM BoothTypeCorrect == BoothSpec => []BoothTypeOK
  <1>1. BoothInv => BoothTypeOK
    BY DEF BoothInv
  <1>2. QED
    BY <1>1, BoothInvariant, PTL

\* A terminal never has two requests of a kind under way, however impatient
\* its user is.
THEOREM BoothOneRequestOfAKind == BoothSpec => []OneRequestOfAKind
  <1>1. ASSUME BoothInv, NEW kind \in Buttons
        PROVE  Cardinality(Pending(kind)) <= 1
    <2>1. CASE Pending(kind) = {}
      BY <2>1, FS_EmptySet
    <2>2. CASE Pending(kind) # {}
      <3>1. PICK q \in Pending(kind) : Pending(kind) = {q}
        BY <1>1, <2>2 DEF BoothInv, ButtonInv
      <3>2. QED
        BY <3>1, FS_Singleton
    <2>3. QED
      BY <2>1, <2>2
  <1>2. BoothInv => OneRequestOfAKind
    BY <1>1 DEF OneRequestOfAKind
  <1>3. QED
    BY <1>2, BoothInvariant, PTL

\* When the field is left alone during a scan, the vote that is sent is the
\* vote of the voter on the screen.
THEOREM BoothVoteForTheVoterShown == BoothSpec => []VoteForTheVoterShown
  <1>1. BoothInv => VoteForTheVoterShown
    BY DEF BoothInv, CarefulInv, VoteForTheVoterShown
  <1>2. QED
    BY <1>1, BoothInvariant, PTL

\* And the receipt names the candidate whom the server has counted for the
\* voter on the screen.
THEOREM BoothReceiptNamesTheVote == BoothSpec => []ReceiptNamesTheVote
  <1>1. BoothInv => ReceiptNamesTheVote
    BY DEF BoothInv, CarefulInv, ReceiptNamesTheVote
  <1>2. QED
    BY <1>1, BoothInvariant, PTL
=============================================================================
