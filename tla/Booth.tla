------------------------------- MODULE Booth --------------------------------
(***************************************************************************)
(* The page of one voting terminal, and its polling unit's server as far   *)
(* as the page can tell: a request is served once, an answer may be an     *)
(* error although the request took effect, and answers to requests that    *)
(* are under way together arrive in any order.                             *)
(***************************************************************************)
EXTENDS Integers, FiniteSets

CONSTANTS
    Voters, Candidates,
    NoVoter, NoCandidate

ASSUME BoothAssumption == NoVoter \notin Voters /\ NoCandidate \notin Candidates

VARIABLES
    page,      \* the page
    requests,  \* requests under way, with their answers
    enrolled,  \* voters the server takes for registered
    voted,     \* accepted votes: voter -> candidate
    careful    \* the field is left alone during a scan; chosen once

boothVars == <<page, requests, enrolled, voted, careful>>

Panels == {"fp", "vote", "confirm", "result"}
Buttons == {"identify", "register", "confirm"}

Pages ==
    [panel : Panels,
     fpInput : Voters \cup {NoVoter},         \* the fingerprint field
     voter : Voters \cup {NoVoter},           \* voterData
     registered : BOOLEAN,                    \* voterData.registered
     registerRow : BOOLEAN,                   \* the register button is shown
     selected : Candidates \cup {NoCandidate},
     disabled : SUBSET Buttons,
     receipt : Candidates \cup {NoCandidate}] \* the candidate on the last panel

FreshPage ==
    [panel |-> "fp", fpInput |-> NoVoter, voter |-> NoVoter, registered |-> FALSE,
     registerRow |-> FALSE, selected |-> NoCandidate, disabled |-> {},
     receipt |-> NoCandidate]

\* live: the page that sent the request is still there to receive its answer.
RequestRecords ==
    [kind : Buttons, voter : Voters, candidate : Candidates \cup {NoCandidate},
     status : {"sent", "ok", "error"}, registered : BOOLEAN, live : BOOLEAN]

BoothTypeOK ==
    /\ page \in Pages
    /\ requests \subseteq RequestRecords
    /\ enrolled \subseteq Voters
    /\ voted \in [DOMAIN voted -> Candidates]
    /\ DOMAIN voted \subseteq Voters
    /\ careful \in BOOLEAN

BoothInit ==
    /\ page = FreshPage
    /\ requests = {}
    /\ enrolled = {}
    /\ voted = << >>
    /\ careful \in BOOLEAN

-----------------------------------------------------------------------------
(* Clicks *)

Request(kind, voter, candidate) ==
    [kind |-> kind, voter |-> voter, candidate |-> candidate, status |-> "sent",
     registered |-> FALSE, live |-> TRUE]

Enabled(button) == button \notin page.disabled

Type(voter) ==
    /\ page.panel = "fp"
    /\ careful => Enabled("identify")
    /\ page' = [page EXCEPT !.fpInput = voter]
    /\ UNCHANGED <<requests, enrolled, voted, careful>>

\* Variant: leaves the button enabled.
ClickIdentifyAgain ==
    /\ page.panel = "fp"
    /\ page.fpInput # NoVoter
    /\ requests' = requests \cup {Request("identify", page.fpInput, NoCandidate)}
    /\ UNCHANGED <<page, enrolled, voted, careful>>

ClickIdentify ==
    /\ page.panel = "fp"
    /\ Enabled("identify")
    /\ page.fpInput # NoVoter
    /\ page' = [page EXCEPT !.disabled = @ \cup {"identify"}]
    /\ requests' = requests \cup {Request("identify", page.fpInput, NoCandidate)}
    /\ UNCHANGED <<enrolled, voted, careful>>

\* The fingerprint is read from the field again, not from voterData.
ClickRegister ==
    /\ page.panel = "vote"
    /\ page.registerRow
    /\ Enabled("register")
    /\ page' = [page EXCEPT !.disabled = @ \cup {"register"}]
    /\ requests' = requests \cup {Request("register", page.fpInput, NoCandidate)}
    /\ UNCHANGED <<enrolled, voted, careful>>

SelectCandidate(c) ==
    /\ page.panel = "vote"
    /\ page.voter # NoVoter
    /\ page' = [page EXCEPT !.selected = c, !.panel = "confirm"]
    /\ UNCHANGED <<requests, enrolled, voted, careful>>

\* Variant: leaves the button enabled.
ClickConfirmAgain ==
    /\ page.panel = "confirm"
    /\ page.selected # NoCandidate
    /\ requests' = requests \cup {Request("confirm", page.fpInput, page.selected)}
    /\ UNCHANGED <<page, enrolled, voted, careful>>

ClickConfirm ==
    /\ page.panel = "confirm"
    /\ Enabled("confirm")
    /\ page.selected # NoCandidate
    /\ page' = [page EXCEPT !.disabled = @ \cup {"confirm"}]
    /\ requests' = requests \cup {Request("confirm", page.fpInput, page.selected)}
    /\ UNCHANGED <<enrolled, voted, careful>>

GoBack ==
    /\ page.panel = "confirm"
    /\ page' = [page EXCEPT !.selected = NoCandidate, !.panel = "vote"]
    /\ UNCHANGED <<requests, enrolled, voted, careful>>

\* "NEW VOTER": what it does not reset stays as the last voter left it.
NewVoter ==
    /\ page.panel = "result"
    /\ page' = [page EXCEPT !.voter = NoVoter, !.registered = FALSE,
                            !.selected = NoCandidate, !.fpInput = NoVoter,
                            !.panel = "fp"]
    /\ UNCHANGED <<requests, enrolled, voted, careful>>

\* The page is loaded anew; nobody receives the answers to its requests.
Reload ==
    /\ page' = FreshPage
    /\ requests' = {[q EXCEPT !.live = FALSE] : q \in {p \in requests : p.status = "sent"}}
    /\ UNCHANGED <<enrolled, voted, careful>>

-----------------------------------------------------------------------------
(* The server behind the page *)

Served(q, status) ==
    requests' =
      (requests \ {q}) \cup
        IF q.live THEN {[q EXCEPT !.status = status, !.registered = q.voter \in enrolled]}
        ELSE {}

\* An error answers a request that had no effect, or one that did.
Serve(q) ==
    /\ q \in requests
    /\ q.status = "sent"
    /\ \/ /\ q.kind = "identify"
          /\ Served(q, "ok")
          /\ UNCHANGED <<enrolled, voted>>
       \/ /\ Served(q, "error")
          /\ UNCHANGED <<enrolled, voted>>
       \/ /\ q.kind = "register" /\ q.voter \notin enrolled
          /\ enrolled' = enrolled \cup {q.voter}
          /\ \E status \in {"ok", "error"} : Served(q, status)
          /\ UNCHANGED voted
       \/ /\ q.kind = "confirm" /\ q.voter \in enrolled \ DOMAIN voted
          /\ voted' = [v \in DOMAIN voted \cup {q.voter} |->
                         IF v = q.voter THEN q.candidate ELSE voted[v]]
          /\ \E status \in {"ok", "error"} : Served(q, status)
          /\ UNCHANGED enrolled
    /\ UNCHANGED <<page, careful>>

-----------------------------------------------------------------------------
(* Answers *)

Answered(q, kind) ==
    /\ q \in requests
    /\ q.live /\ q.kind = kind /\ q.status # "sent"
    /\ requests' = requests \ {q}
    /\ UNCHANGED <<enrolled, voted, careful>>

AnswerIdentify(q) ==
    /\ Answered(q, "identify")
    /\ page' = IF q.status = "ok"
               THEN [page EXCEPT !.voter = q.voter, !.registered = q.registered,
                                 !.registerRow = ~q.registered, !.panel = "vote",
                                 !.disabled = @ \ {"identify"}]
               ELSE [page EXCEPT !.disabled = @ \ {"identify"}]

\* Marks whoever is on the page by now as registered.
AnswerRegister(q) ==
    /\ Answered(q, "register")
    /\ page' = IF q.status = "ok"
               THEN [page EXCEPT !.registerRow = FALSE, !.registered = page.voter # NoVoter,
                                 !.disabled = @ \ {"register"}]
               ELSE [page EXCEPT !.disabled = @ \ {"register"}]

\* Variant: shows what is selected when the answer arrives.
AnswerVoteSelected(q) ==
    /\ Answered(q, "confirm")
    /\ page' = IF q.status = "ok"
               THEN [page EXCEPT !.receipt = page.selected, !.panel = "result"]
               ELSE [page EXCEPT !.disabled = @ \ {"confirm"}]

\* An accepted vote shows the receipt of the candidate that was sent, from
\* whatever panel; only a failure enables the button again.
AnswerVote(q) ==
    /\ Answered(q, "confirm")
    /\ page' = IF q.status = "ok"
               THEN [page EXCEPT !.receipt = q.candidate, !.panel = "result"]
               ELSE [page EXCEPT !.disabled = @ \ {"confirm"}]

Click ==
    \/ \E voter \in Voters : Type(voter)
    \/ ClickIdentify \/ ClickRegister
    \/ \E c \in Candidates : SelectCandidate(c)
    \/ ClickConfirm \/ GoBack \/ NewVoter \/ Reload

BoothNext ==
    \/ Click
    \/ \E q \in requests :
         Serve(q) \/ AnswerIdentify(q) \/ AnswerRegister(q) \/ AnswerVote(q)

BoothSpec == BoothInit /\ [][BoothNext]_boothVars

-----------------------------------------------------------------------------
(* Properties *)

Pending(kind) == {q \in requests : q.live /\ q.kind = kind}

\* The terminal has at most one request of a kind under way, whatever is
\* clicked while an answer is outstanding: nobody votes twice by impatience.
OneRequestOfAKind == \A kind \in Buttons : Cardinality(Pending(kind)) <= 1

\* The vote that is sent is the vote of the voter on the screen, although the
\* page takes the fingerprint from its field when the vote is confirmed: the
\* field is out of reach on the other panels, but not during a scan.
VoteForTheVoterShown == careful => \A q \in Pending("confirm") : q.voter = page.voter

\* The last panel shows the vote that was accepted for this voter, also when
\* the voter went back and chose another candidate while it was under way.
ReceiptNamesTheVote ==
    careful /\ page.panel = "result" =>
       page.voter \in DOMAIN voted /\ voted[page.voter] = page.receipt

-----------------------------------------------------------------------------
(* What the page says and does not do *)

\* "NEW VOTER": whoever has chosen a candidate can confirm the choice, unless
\* the vote is under way.
ChoiceCanBeConfirmed ==
    page.panel = "confirm" /\ Pending("confirm") = {} => Enabled("confirm")
=============================================================================
