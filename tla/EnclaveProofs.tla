--------------------------- MODULE EnclaveProofs ----------------------------
(***************************************************************************)
(* Theorems about Enclave, for every number of units, voters, requests and *)
(* restarts, whether or not clients wait for their answers.                *)
(***************************************************************************)
EXTENDS Enclave, ChainProofs

-----------------------------------------------------------------------------
(* Handlers *)

LEMMA HandlerOfKind ==
  ASSUME EnclaveTypeOK, NEW r \in Requests, Active(r)
  PROVE  /\ request[r] \in Handlers
         /\ request[r].kind = "identify" => request[r] \in IdentifyHandlers
         /\ request[r].kind = "register" => request[r] \in RegisterHandlers
         /\ request[r].kind = "vote" => request[r] \in VoteHandlers
  BY DEF EnclaveTypeOK, Active, Handlers, IdentifyHandlers, RegisterHandlers,
         VoteHandlers

\* What every handler knows: the unit and the voter it serves.
LEMMA HandlerFields ==
  ASSUME NEW h \in Handlers
  PROVE  /\ h.unit \in Units
         /\ h.voter \in Voters
  BY DEF Handlers, IdentifyHandlers, RegisterHandlers, VoteHandlers

\* A handler that waits for its transaction can learn that it has landed.
LEMMA HandlerLanded ==
  ASSUME NEW h \in Handlers, h.pc = "sent"
  PROVE  [h EXCEPT !.pc = "landed"] \in Handlers
  <1>1. CASE h \in IdentifyHandlers
    BY <1>1 DEF IdentifyHandlers
  <1>2. CASE h \in RegisterHandlers
    BY <1>2 DEF RegisterHandlers, Handlers
  <1>3. CASE h \in VoteHandlers
    BY <1>3 DEF VoteHandlers, Handlers
  <1>4. QED
    BY <1>1, <1>2, <1>3 DEF Handlers

LEMMA RegisterHandlerMoves ==
  ASSUME NEW h \in RegisterHandlers, h.pc # "fetch",
         NEW pc \in {"issue", "sent", "landed", "loaded", "saved"}
  PROVE  [h EXCEPT !.pc = pc] \in Handlers
  BY DEF RegisterHandlers, Handlers

LEMMA VoteHandlerMoves ==
  ASSUME NEW h \in VoteHandlers, h.pc # "lookup",
         NEW pc \in {"sent", "landed"}
  PROVE  [h EXCEPT !.pc = pc] \in Handlers
  BY DEF VoteHandlers, Handlers

LEMMA CredentialWithLeaf ==
  ASSUME NEW c \in Credentials, NEW i \in LeafIndices
  PROVE  [c EXCEPT !.leafIndex = i] \in Credentials
  BY DEF Credentials

LEMMA DiskLeafType ==
  ASSUME EnclaveTypeOK, NEW unit \in Units, NEW voter \in Voters
  PROVE  DiskLeaf(unit, voter) \in LeafIndices
  BY DEF EnclaveTypeOK, DiskLeaf, Credentials, LeafIndices

-----------------------------------------------------------------------------
(* Type correctness of the servers *)

LEMMA EnclaveTypeInit == EnclaveInit => EnclaveTypeOK
  BY EnclaveAssumption DEF EnclaveInit, EnclaveTypeOK

\* A request that arrives is given a handler; nothing else changes.
LEMMA ClientHandler ==
  ASSUME EnclaveTypeOK, NEW r \in Requests, NEW unit \in Units,
         NEW voter \in Voters, ClientStep(r, unit, voter)
  PROVE  /\ request[r] = Idle
         /\ UNCHANGED <<chainVars, disk, session, network, issued, restarts>>
         /\ \E h \in Handlers :
              /\ request' = [request EXCEPT ![r] = h]
              /\ h.kind = "register" => h.credential = NoFile
  <1> USE DEF EnclaveTypeOK, MayStart
  <1>1. CASE Identify(r, unit, voter)
    <2> DEFINE h == [kind |-> "identify", unit |-> unit, voter |-> voter,
                     leafIndex |-> NoLeaf,
                     pc |-> IF HasLeaf(unit, voter) THEN "warm" ELSE "lookup"]
    <2>1. request' = [request EXCEPT ![r] = h]
      BY <1>1 DEF Identify
    <2>2. h \in Handlers /\ h.kind # "register"
      BY DEF Handlers, IdentifyHandlers, LeafIndices
    <2>3. QED
      BY <1>1, <2>1, <2>2 DEF Identify
  <1>2. CASE Register(r, unit, voter)
    <2> DEFINE h == [kind |-> "register", pc |-> "fetch", unit |-> unit,
                     voter |-> voter, leafIndex |-> NoLeaf, credential |-> NoFile]
    <2>1. h \in Handlers /\ h.credential = NoFile
      BY DEF Handlers, RegisterHandlers, LeafIndices
    <2>2. request' = [request EXCEPT ![r] = h]
      BY <1>2 DEF Register
    <2>3. QED
      BY <1>2, <2>1, <2>2 DEF Register
  <1>3. ASSUME NEW candidate \in CandidateIds, Vote(r, unit, voter, candidate)
        PROVE  /\ request[r] = Idle
               /\ UNCHANGED <<chainVars, disk, session, network, issued, restarts>>
               /\ \E h \in Handlers :
                    /\ request' = [request EXCEPT ![r] = h]
                    /\ h.kind = "register" => h.credential = NoFile
    <2> DEFINE i == IF HasLeaf(unit, voter) THEN session[unit][voter] ELSE NoLeaf
               p == IF HasLeaf(unit, voter) THEN "sign" ELSE "lookup"
               h == [kind |-> "vote", unit |-> unit, voter |-> voter,
                     candidate |-> candidate, pc |-> p, leafIndex |-> i]
    <2>1. /\ i \in LeafIndices
          /\ p \in {"lookup", "sign"}
          /\ p # "lookup" => i \in Nat
      BY DEF HasLeaf, LeafIndices
    <2>2. request' = [request EXCEPT ![r] = h]
      BY <1>3 DEF Vote
    <2> HIDE DEF i, p
    <2>3. h \in Handlers /\ h.kind # "register"
      BY <2>1 DEF Handlers, VoteHandlers
    <2>4. QED
      BY <1>3, <2>2, <2>3 DEF Vote
  <1>4. QED
    BY <1>1, <1>2, <1>3 DEF ClientStep

LEMMA ClientStepType ==
  ASSUME EnclaveTypeOK, NEW r \in Requests, NEW unit \in Units,
         NEW voter \in Voters, ClientStep(r, unit, voter)
  PROVE  EnclaveTypeOK'
  BY ClientHandler DEF EnclaveTypeOK

LEMMA HandlerStepType ==
  ASSUME TypeOK, EnclaveTypeOK, NEW r \in Requests, HandlerStep(r)
  PROVE  EnclaveTypeOK'
  <1> DEFINE h == request[r]
  <1> USE DEF EnclaveTypeOK
  <1>1. CASE WarmSession(r)
    <2>1. h \in IdentifyHandlers
      BY <1>1, HandlerOfKind DEF WarmSession, At
    <2>2. session' \in [Units -> [Voters -> LeafIndices \cup {NoSession}]]
      BY <1>1, <2>1 DEF WarmSession, IdentifyHandlers
    <2>3. QED
      BY <1>1, <2>2 DEF WarmSession, Finish
  <1>2. CASE FetchLeafCount(r)
    <2>1. h \in RegisterHandlers
      BY <1>2, HandlerOfKind DEF FetchLeafCount, At
    <2>2. registry.leafCount \in Nat
      BY DEF TypeOK, RegistryTypeOK
    <2>3. ASSUME NEW n \in Nat
          PROVE  [h EXCEPT !.leafIndex = n, !.pc = "issue"] \in Handlers
      BY <2>1 DEF RegisterHandlers, Handlers, LeafIndices
    <2>4. QED
      BY <1>2, <2>2, <2>3 DEF FetchLeafCount
  <1>3. CASE IssueAndSend(r)
    <2> DEFINE commitment == [voter |-> h.voter, state |-> PollingState[h.unit],
                              blinding |-> issued]
    <2>1. h \in RegisterHandlers
      BY <1>3, HandlerOfKind DEF IssueAndSend, At
    <2>2. commitment \in Commitments
      BY <1>3, <2>1, EnclaveAssumption
      DEF IssueAndSend, RegisterHandlers, Commitments
    <2>3. disk' \in [Units -> [Voters -> Credentials \cup {NoFile}]]
      <3>1. [commitment |-> commitment, leafIndex |-> NoLeaf] \in Credentials
        BY <2>2 DEF Credentials, LeafIndices
      <3>2. QED
        BY <1>3, <2>1, <3>1 DEF IssueAndSend, RegisterHandlers
    <2>4. network' \subseteq RegisterTxs \cup VoteTxs
      <3>1. h.leafIndex \in Nat
        BY <1>3, <2>1 DEF IssueAndSend, At, RegisterHandlers
      <3>2. QED
        BY <1>3, <2>2, <3>1 DEF IssueAndSend, RegisterTxs
    <2>5. request' \in [Requests -> Handlers \cup {Idle, Done}]
      BY <1>3, <2>1, RegisterHandlerMoves DEF IssueAndSend, At, Goto
    <2>6. QED
      BY <1>3, <2>3, <2>4, <2>5 DEF IssueAndSend
  <1>4. CASE LoadCredential(r)
    <2>1. h \in RegisterHandlers
      BY <1>4, HandlerOfKind DEF LoadCredential, At
    <2>2. disk[h.unit][h.voter] \in Credentials \cup {NoFile}
      BY <2>1 DEF RegisterHandlers
    <2>3. h.leafIndex \in Nat
      BY <1>4, <2>1 DEF LoadCredential, At, RegisterHandlers
    <2> DEFINE file == disk[h.unit][h.voter]
    <2> HIDE DEF file
    <2>4. [h EXCEPT !.credential = file, !.pc = "loaded"] \in Handlers
      BY <2>1, <2>2, <2>3 DEF RegisterHandlers, Handlers, file
    <2>5. QED
      BY <1>4, <2>4 DEF LoadCredential, file
  <1>5. CASE SaveCredential(r)
    <2>1. h \in RegisterHandlers
      BY <1>5, HandlerOfKind DEF SaveCredential, At
    <2>2. disk' \in [Units -> [Voters -> Credentials \cup {NoFile}]]
      <3>1. h.credential # NoFile =>
              [h.credential EXCEPT !.leafIndex = h.leafIndex] \in Credentials
        BY <2>1, CredentialWithLeaf DEF RegisterHandlers
      <3>2. h.unit \in Units /\ h.voter \in Voters
        BY <2>1 DEF RegisterHandlers
      <3>3. ASSUME NEW c \in Credentials
            PROVE  [disk EXCEPT ![h.unit][h.voter] = c]
                     \in [Units -> [Voters -> Credentials \cup {NoFile}]]
        BY <3>2
      <3>4. QED
        BY <1>5, <3>1, <3>3, ZenonT(30) DEF SaveCredential
    <2>3. request' \in [Requests -> Handlers \cup {Idle, Done}]
      BY <1>5, <2>1, RegisterHandlerMoves DEF SaveCredential, At, Goto
    <2>4. QED
      BY <1>5, <2>2, <2>3 DEF SaveCredential
  <1>6. CASE RecordSession(r)
    <2>1. h \in RegisterHandlers
      BY <1>6, HandlerOfKind DEF RecordSession, At
    <2>2. session' \in [Units -> [Voters -> LeafIndices \cup {NoSession}]]
      BY <1>6, <2>1 DEF RecordSession, RegisterHandlers
    <2>3. QED
      BY <1>6, <2>2 DEF RecordSession, Finish
  <1>7. CASE SignAndSend(r)
    <2> DEFINE credential == disk[h.unit][h.voter]
               auth == [key |-> HsmKey, nullifier |-> h.voter,
                        commitment |-> credential.commitment]
    <2>1. h \in VoteHandlers
      BY <1>7, HandlerOfKind DEF SignAndSend, At
    <2>2. credential \in Credentials
      BY <1>7, <2>1 DEF SignAndSend, VoteHandlers
    <2>3. auth \in Authorisations /\ credential.commitment.state \in StateIds
      BY <2>1, <2>2, EnclaveAssumption
      DEF VoteHandlers, Credentials, Commitments, Authorisations, Nullifiers
    <2>4. network' = network \cup
            {[kind |-> "vote", from |-> r, index |-> h.leafIndex, auth |-> auth,
              candidate |-> h.candidate, state |-> credential.commitment.state]}
      BY <1>7 DEF SignAndSend
    <2>8. h.leafIndex \in Nat /\ h.candidate \in CandidateIds
      BY <1>7, <2>1 DEF SignAndSend, At, VoteHandlers
    <2> HIDE DEF auth, credential
    <2>5. network' \subseteq RegisterTxs \cup VoteTxs
      BY <2>3, <2>4, <2>8 DEF VoteTxs
    <2>6. request' \in [Requests -> Handlers \cup {Idle, Done}]
      BY <1>7, <2>1, VoteHandlerMoves DEF SignAndSend, At, Goto
    <2>7. QED
      BY <1>7, <2>5, <2>6 DEF SignAndSend
  <1>8. CASE AnswerVote(r)
    <2>1. h \in VoteHandlers
      BY <1>8, HandlerOfKind DEF AnswerVote, At
    <2>2. session' \in [Units -> [Voters -> LeafIndices \cup {NoSession}]]
      BY <1>8, <2>1 DEF AnswerVote, VoteHandlers
    <2>3. QED
      BY <1>8, <2>2 DEF AnswerVote, Finish
  <1>9. CASE Fail(r)
    BY <1>9 DEF Fail, Finish
  <1>10. CASE IdentifyOnDisk(r)
    <2>1. h \in IdentifyHandlers
      BY <1>10, HandlerOfKind DEF IdentifyOnDisk, At
    <2>2. ASSUME NEW i \in LeafIndices
          PROVE  [h EXCEPT !.leafIndex = i, !.pc = "warm"] \in Handlers
      BY <2>1 DEF IdentifyHandlers, Handlers
    <2>3. DiskLeaf(h.unit, h.voter) \in LeafIndices
      BY <2>1, DiskLeafType DEF IdentifyHandlers
    <2>4. QED
      BY <1>10, <2>2, <2>3 DEF IdentifyOnDisk
  <1>11. CASE VoteFromDisk(r)
    <2>1. h \in VoteHandlers
      BY <1>11, HandlerOfKind DEF VoteFromDisk, At
    <2>2. ASSUME NEW i \in Nat
          PROVE  [h EXCEPT !.leafIndex = i, !.pc = "sign"] \in Handlers
      BY <2>1 DEF VoteHandlers, Handlers, LeafIndices
    <2>3. DiskLeaf(h.unit, h.voter) \in Nat \cup {NoLeaf}
      BY <2>1, DiskLeafType DEF VoteHandlers, LeafIndices
    <2>4. QED
      BY <1>11, <2>2, <2>3 DEF VoteFromDisk, Finish
  <1>12. QED
    BY <1>1, <1>2, <1>3, <1>4, <1>5, <1>6, <1>7, <1>8, <1>9, <1>10, <1>11
    DEF HandlerStep

LEMMA TxSender ==
  ASSUME EnclaveTypeOK, NEW tx \in network
  PROVE  tx.from \in Requests
  BY DEF EnclaveTypeOK, RegisterTxs, VoteTxs

\* A transaction that has landed while its sender waits is known to it.
LEMMA LandedType ==
  ASSUME EnclaveTypeOK, NEW tx \in network, Land(tx),
         Active(tx.from) => request[tx.from].pc = "sent"
  PROVE  EnclaveTypeOK'
  <1>1. request' \in [Requests -> Handlers \cup {Idle, Done}]
    <2>1. CASE Active(tx.from)
      BY <2>1, TxSender, HandlerOfKind, HandlerLanded
      DEF Land, Goto, EnclaveTypeOK
    <2>2. CASE ~Active(tx.from)
      BY <2>2 DEF Land, EnclaveTypeOK
    <2>3. QED
      BY <2>1, <2>2
  <1>2. QED
    BY <1>1 DEF Land, EnclaveTypeOK

LEMMA RestartType ==
  ASSUME EnclaveTypeOK, NEW unit \in Units, Restart(unit)
  PROVE  EnclaveTypeOK'
  BY EnclaveAssumption DEF EnclaveTypeOK, Restart

-----------------------------------------------------------------------------
(* What handlers, files and transactions under way have to do with each    *)
(* other                                                                   *)

\* A sender waits for its only transaction, and what the transaction carries is
\* what its sender remembers.
TransactionsMatch ==
    \A tx \in network :
       /\ \A t \in network : t.from = tx.from => t = tx
       /\ request[tx.from] # Idle
       /\ Active(tx.from) =>
            /\ request[tx.from].kind = tx.kind
            /\ request[tx.from].pc = "sent"
       /\ tx.kind = "register" /\ Active(tx.from) =>
            /\ request[tx.from].leafIndex = tx.index
            /\ request[tx.from].voter = tx.commitment.voter
            /\ PollingState[request[tx.from].unit] = tx.commitment.state
       /\ tx.kind = "vote" =>
            /\ tx.auth.commitment.voter = tx.auth.nullifier
            /\ tx.auth.commitment.state = tx.state

Issued(unit, voter, credential) ==
    credential # NoFile =>
       /\ credential.commitment.voter = voter
       /\ credential.commitment.state = PollingState[unit]

\* A credential is the voter's own and bound to the unit that issued it.
CredentialsOwned ==
    /\ \A unit \in Units, voter \in Voters : Issued(unit, voter, disk[unit][voter])
    /\ \A r \in Requests :
         Active(r) /\ request[r].kind = "register" =>
            Issued(request[r].unit, request[r].voter, request[r].credential)

LEMMA ServerInit == EnclaveInit => TransactionsMatch /\ CredentialsOwned
  BY DEF EnclaveInit, TransactionsMatch, CredentialsOwned, Issued, Active

LEMMA ClientStepServer ==
  ASSUME EnclaveTypeOK, TransactionsMatch, CredentialsOwned, NEW r \in Requests,
         NEW unit \in Units, NEW voter \in Voters, ClientStep(r, unit, voter)
  PROVE  TransactionsMatch' /\ CredentialsOwned'
  <1>1. /\ request[r] = Idle
        /\ UNCHANGED <<disk, network>>
        /\ \E h \in Handlers :
             /\ request' = [request EXCEPT ![r] = h]
             /\ h.kind = "register" => h.credential = NoFile
    BY ClientHandler
  <1>2. PICK h \in Handlers :
          /\ request' = [request EXCEPT ![r] = h]
          /\ h.kind = "register" => h.credential = NoFile
    BY <1>1
  <1>3. \A tx \in network : tx.from # r /\ request'[tx.from] = request[tx.from]
    BY <1>1, <1>2, TxSender DEF TransactionsMatch, EnclaveTypeOK
  <1>4. TransactionsMatch'
    BY <1>1, <1>3 DEF TransactionsMatch, Active
  <1>5. \A q \in Requests \ {r} : request'[q] = request[q]
    BY <1>2 DEF EnclaveTypeOK
  <1>6. request'[r] = h
    BY <1>2 DEF EnclaveTypeOK
  <1>7. CredentialsOwned'
    BY <1>1, <1>2, <1>5, <1>6 DEF CredentialsOwned, Issued, Active
  <1>8. QED
    BY <1>4, <1>7

\* A handler that signs sends one transaction, its ballot.
LEMMA VoteSent ==
  ASSUME NEW r, SignAndSend(r)
  PROVE  \E tx : network' = network \cup {tx} /\ tx.from = r /\ tx.kind = "vote"
  <1> DEFINE h == request[r]
             commitment == disk[h.unit][h.voter].commitment
             ballot == [kind |-> "vote", from |-> r, index |-> h.leafIndex,
                        auth |-> [key |-> HsmKey, nullifier |-> h.voter,
                                  commitment |-> commitment],
                        candidate |-> h.candidate, state |-> commitment.state]
  <1>1. network' = network \cup {ballot}
    BY Zenon DEF SignAndSend
  <1>2. ballot.from = r /\ ballot.kind = "vote"
    OBVIOUS
  <1> HIDE DEF ballot
  <1>3. QED
    BY <1>1, <1>2

\* A handler that does not wait for a transaction has none under way.
LEMMA NothingUnderWay ==
  ASSUME EnclaveTypeOK, TransactionsMatch, NEW r \in Requests, Active(r),
         request[r].pc # "sent", NEW tx \in network
  PROVE  tx.from # r
  <1>1. Active(tx.from) => request[tx.from].pc = "sent"
    BY DEF TransactionsMatch
  <1>2. QED
    BY <1>1

LEMMA OneHandlerMoves ==
  ASSUME EnclaveTypeOK, TransactionsMatch, NEW r \in Requests, Active(r),
         NEW h, request' = [request EXCEPT ![r] = h],
         request[r].pc # "sent" \/ h = Done,
         network' \subseteq network
  PROVE  TransactionsMatch'
  <1>1. SUFFICES ASSUME NEW tx \in network
        PROVE  \/ request'[tx.from] = request[tx.from]
               \/ request'[tx.from] = Done
    BY HandlersAssumption DEF TransactionsMatch, Active
  <1>2. CASE tx.from = r
    BY <1>2, NothingUnderWay DEF EnclaveTypeOK
  <1>3. CASE tx.from # r
    BY <1>3, TxSender DEF EnclaveTypeOK
  <1>4. QED
    BY <1>2, <1>3

LEMMA HandlerStepMatch ==
  ASSUME TypeOK, EnclaveTypeOK, TransactionsMatch, CredentialsOwned,
         NEW r \in Requests, HandlerStep(r)
  PROVE  TransactionsMatch'
  <1> USE DEF At, Goto, Finish
  <1> DEFINE h == request[r]
  <1>1. CASE WarmSession(r) \/ RecordSession(r) \/ AnswerVote(r) \/ Fail(r)
    <2>1. Active(r) /\ request' = [request EXCEPT ![r] = Done] /\ network' = network
      BY <1>1 DEF WarmSession, RecordSession, AnswerVote, Fail
    <2>2. QED
      BY <2>1, OneHandlerMoves
  <1>2. CASE \/ FetchLeafCount(r) \/ LoadCredential(r) \/ SaveCredential(r)
             \/ IdentifyOnDisk(r) \/ VoteFromDisk(r)
    <2>1. /\ Active(r) /\ h.pc # "sent" /\ network' = network
          /\ \E g : request' = [request EXCEPT ![r] = g]
      BY <1>2 DEF FetchLeafCount, LoadCredential, SaveCredential, IdentifyOnDisk,
                  VoteFromDisk
    <2>2. QED
      BY <2>1, OneHandlerMoves
  <1>3. ASSUME NEW tx,
               /\ Active(r) /\ h \in Handlers /\ h.pc # "sent"
               /\ [h EXCEPT !.pc = "sent"] \in Handlers
               /\ network' = network \cup {tx}
               /\ request' = [request EXCEPT ![r].pc = "sent"]
               /\ tx.from = r /\ tx.kind = h.kind
               /\ tx.kind = "register" =>
                    /\ h.leafIndex = tx.index
                    /\ h.voter = tx.commitment.voter
                    /\ PollingState[h.unit] = tx.commitment.state
               /\ tx.kind = "vote" =>
                    /\ tx.auth.commitment.voter = tx.auth.nullifier
                    /\ tx.auth.commitment.state = tx.state
        PROVE  TransactionsMatch'
    <2>1. request'[r] = [h EXCEPT !.pc = "sent"]
      BY <1>3 DEF EnclaveTypeOK
    <2>2. \A t \in network : request'[t.from] = request[t.from]
      BY <1>3, NothingUnderWay, TxSender DEF EnclaveTypeOK
    <2>3. /\ request'[r].kind = h.kind
          /\ request'[r].pc = "sent"
          /\ request'[r].leafIndex = h.leafIndex
          /\ request'[r].voter = h.voter
          /\ request'[r].unit = h.unit
      BY <1>3, <2>1 DEF Handlers, IdentifyHandlers, RegisterHandlers, VoteHandlers
    <2>4. request'[r] # Idle
      BY <1>3, <2>1, HandlersAssumption
    <2>5. QED
      BY <1>3, <2>2, <2>3, <2>4 DEF TransactionsMatch, Active
  <1>4. CASE IssueAndSend(r)
    <2> DEFINE c == [voter |-> h.voter, state |-> PollingState[h.unit],
                     blinding |-> issued]
               tx == [kind |-> "register", from |-> r, index |-> h.leafIndex,
                      commitment |-> c]
    <2>1. /\ Active(r) /\ h \in Handlers /\ h.pc # "sent" /\ h.kind = "register"
          /\ network' = network \cup {tx}
          /\ request' = [request EXCEPT ![r].pc = "sent"]
      BY <1>4, HandlerOfKind DEF IssueAndSend
    <2>2. [h EXCEPT !.pc = "sent"] \in Handlers
      BY <1>4, <2>1, HandlerOfKind, RegisterHandlerMoves DEF IssueAndSend
    <2>3. /\ tx.from = r /\ tx.kind = "register"
          /\ h.leafIndex = tx.index
          /\ h.voter = tx.commitment.voter
          /\ PollingState[h.unit] = tx.commitment.state
      OBVIOUS
    <2> HIDE DEF tx, c, h
    <2>4. QED
      BY <1>3, <2>1, <2>2, <2>3
  <1>5. CASE SignAndSend(r)
    <2> DEFINE credential == disk[h.unit][h.voter]
               auth == [key |-> HsmKey, nullifier |-> h.voter,
                        commitment |-> credential.commitment]
               tx == [kind |-> "vote", from |-> r, index |-> h.leafIndex,
                      auth |-> auth, candidate |-> h.candidate,
                      state |-> credential.commitment.state]
    <2>1. /\ Active(r) /\ h \in Handlers /\ h.pc # "sent" /\ h.kind = "vote"
          /\ network' = network \cup {tx}
          /\ request' = [request EXCEPT ![r].pc = "sent"]
          /\ credential # NoFile
      BY <1>5, HandlerOfKind DEF SignAndSend
    <2>2. credential.commitment.voter = h.voter
      BY <2>1, HandlerFields DEF CredentialsOwned, Issued
    <2>3. [h EXCEPT !.pc = "sent"] \in Handlers
      BY <1>5, <2>1, HandlerOfKind, VoteHandlerMoves DEF SignAndSend
    <2>4. /\ tx.from = r /\ tx.kind = "vote"
          /\ tx.auth.commitment.voter = tx.auth.nullifier
          /\ tx.auth.commitment.state = tx.state
      BY <2>2
    <2> HIDE DEF tx, auth, credential, h
    <2>5. QED
      BY <1>3, <2>1, <2>3, <2>4
  <1>6. QED
    BY <1>1, <1>2, <1>4, <1>5 DEF HandlerStep

LEMMA HandlerStepCredentials ==
  ASSUME TypeOK, EnclaveTypeOK, TransactionsMatch, CredentialsOwned,
         NEW r \in Requests, HandlerStep(r)
  PROVE  CredentialsOwned'
  <1> USE DEF At, Goto, Finish
  <1> DEFINE h == request[r]
  <1>1. ASSUME UNCHANGED disk, request' = [request EXCEPT ![r] = Done]
        PROVE  CredentialsOwned'
    <2>1. \A q \in Requests : request'[q] = request[q] \/ request'[q] = Done
      BY <1>1 DEF EnclaveTypeOK
    <2>2. QED
      BY <1>1, <2>1 DEF CredentialsOwned, Active
  \* A registration that keeps its credential, and a file that is replaced.
  <1>2. ASSUME h \in RegisterHandlers,
               NEW g, request' = [request EXCEPT ![r] = g],
               g.unit = h.unit, g.voter = h.voter,
               Issued(h.unit, h.voter, g.credential),
               NEW file, Issued(h.unit, h.voter, file),
               disk' = [disk EXCEPT ![h.unit][h.voter] = file] \/ UNCHANGED disk
        PROVE  CredentialsOwned'
    <2>1. /\ request'[r] = g
          /\ \A q \in Requests \ {r} : request'[q] = request[q]
      BY <1>2 DEF EnclaveTypeOK
    <2>2. \A r_1 \in Requests :
            (Active(r_1) /\ request[r_1].kind = "register" =>
               Issued(request[r_1].unit, request[r_1].voter, request[r_1].credential))'
      BY <1>2, <2>1 DEF CredentialsOwned, Active, Issued
    <2>3. ASSUME NEW unit \in Units, NEW voter \in Voters
          PROVE  Issued(unit, voter, disk[unit][voter])'
      <3>1. \/ disk'[unit][voter] = disk[unit][voter]
            \/ /\ unit = h.unit
               /\ voter = h.voter
               /\ disk'[unit][voter] = file
        BY <1>2 DEF EnclaveTypeOK
      <3>2. QED
        BY <1>2, <3>1 DEF CredentialsOwned, Issued
    <2>4. QED
      BY <2>2, <2>3 DEF CredentialsOwned
  <1>3. CASE WarmSession(r) \/ RecordSession(r) \/ AnswerVote(r) \/ Fail(r)
    BY <1>1, <1>3 DEF WarmSession, RecordSession, AnswerVote, Fail
  <1>4. CASE FetchLeafCount(r)
    <2>1. h \in RegisterHandlers /\ Issued(h.unit, h.voter, h.credential)
      BY <1>4, HandlerOfKind DEF FetchLeafCount, CredentialsOwned
    <2> DEFINE g == [h EXCEPT !.leafIndex = registry.leafCount, !.pc = "issue"]
    <2>2. g.unit = h.unit /\ g.voter = h.voter /\ g.credential = h.credential
      BY <2>1 DEF RegisterHandlers
    <2>3. request' = [request EXCEPT ![r] = g] /\ UNCHANGED disk
      BY <1>4 DEF FetchLeafCount
    <2> HIDE DEF g, h
    <2>4. QED
      BY <1>2, <2>1, <2>2, <2>3
  <1>5. CASE IssueAndSend(r)
    <2> DEFINE c == [voter |-> h.voter, state |-> PollingState[h.unit],
                     blinding |-> issued]
               file == [commitment |-> c, leafIndex |-> NoLeaf]
               g == [h EXCEPT !.pc = "sent"]
    <2>1. h \in RegisterHandlers /\ Issued(h.unit, h.voter, h.credential)
      BY <1>5, HandlerOfKind DEF IssueAndSend, CredentialsOwned
    <2>2. g.unit = h.unit /\ g.voter = h.voter /\ g.credential = h.credential
      BY <2>1 DEF RegisterHandlers
    <2>3. /\ request' = [request EXCEPT ![r] = g]
          /\ disk' = [disk EXCEPT ![h.unit][h.voter] = file]
      BY <1>5 DEF IssueAndSend
    <2>4. Issued(h.unit, h.voter, file)
      BY DEF Issued
    <2> HIDE DEF g, h, file
    <2>5. QED
      BY <1>2, <2>1, <2>2, <2>3, <2>4
  <1>6. CASE LoadCredential(r)
    <2> DEFINE g == [h EXCEPT !.credential = disk[h.unit][h.voter], !.pc = "loaded"]
    <2>1. h \in RegisterHandlers
      BY <1>6, HandlerOfKind DEF LoadCredential
    <2>2. Issued(h.unit, h.voter, disk[h.unit][h.voter])
      BY <2>1 DEF RegisterHandlers, CredentialsOwned
    <2>3. /\ g.unit = h.unit /\ g.voter = h.voter
          /\ g.credential = disk[h.unit][h.voter]
      BY <2>1 DEF RegisterHandlers
    <2>4. request' = [request EXCEPT ![r] = g] /\ UNCHANGED disk
      BY <1>6 DEF LoadCredential
    <2> HIDE DEF g, h
    <2>5. QED
      BY <1>2, <2>1, <2>2, <2>3, <2>4
  <1>7. CASE SaveCredential(r)
    <2> DEFINE file == [h.credential EXCEPT !.leafIndex = h.leafIndex]
               g == [h EXCEPT !.pc = "saved"]
    <2>1. h \in RegisterHandlers /\ Issued(h.unit, h.voter, h.credential)
      BY <1>7, HandlerOfKind DEF SaveCredential, CredentialsOwned
    <2>2. g.unit = h.unit /\ g.voter = h.voter /\ g.credential = h.credential
      BY <2>1 DEF RegisterHandlers
    <2>3. request' = [request EXCEPT ![r] = g]
      BY <1>7 DEF SaveCredential
    <2>4. CASE UNCHANGED disk
      <3> HIDE DEF g, h
      <3>1. QED
        BY <1>2, <2>1, <2>2, <2>3, <2>4
    <2>5. CASE /\ h.credential # NoFile
               /\ disk' = [disk EXCEPT ![h.unit][h.voter] = file]
      <3>1. h.credential \in Credentials
        BY <2>1, <2>5 DEF RegisterHandlers
      <3>2. file.commitment = h.credential.commitment
        BY <3>1 DEF Credentials
      <3>3. Issued(h.unit, h.voter, file)
        BY <2>1, <2>5, <3>2 DEF Issued
      <3> HIDE DEF g, h, file
      <3>4. QED
        BY <1>2, <2>1, <2>2, <2>3, <2>5, <3>3
    <2>6. QED
      BY <1>7, <2>4, <2>5 DEF SaveCredential
  <1>8. ASSUME NEW g, request' = [request EXCEPT ![r] = g], g.kind # "register",
               UNCHANGED disk
        PROVE  CredentialsOwned'
    <2>1. request'[r] = g /\ \A q \in Requests \ {r} : request'[q] = request[q]
      BY <1>8 DEF EnclaveTypeOK
    <2>2. QED
      BY <1>8, <2>1 DEF CredentialsOwned, Active
  <1>9. CASE SignAndSend(r)
    <2>1. h \in VoteHandlers
      BY <1>9, HandlerOfKind DEF SignAndSend
    <2>2. [h EXCEPT !.pc = "sent"].kind # "register"
      BY <2>1 DEF VoteHandlers
    <2>3. QED
      BY <1>8, <1>9, <2>2 DEF SignAndSend
  <1>10. CASE IdentifyOnDisk(r)
    <2>1. h \in IdentifyHandlers
      BY <1>10, HandlerOfKind DEF IdentifyOnDisk
    <2>2. \A i : [h EXCEPT !.leafIndex = i, !.pc = "warm"].kind # "register"
      BY <2>1 DEF IdentifyHandlers
    <2>3. QED
      BY <1>8, <1>10, <2>2, ZenonT(30) DEF IdentifyOnDisk
  <1>11. CASE VoteFromDisk(r)
    <2>1. h \in VoteHandlers
      BY <1>11, HandlerOfKind DEF VoteFromDisk
    <2> DEFINE i == DiskLeaf(h.unit, h.voter)
               g == [h EXCEPT !.leafIndex = i, !.pc = "sign"]
    <2>2. g.kind # "register"
      BY <2>1 DEF VoteHandlers
    <2>3. /\ UNCHANGED disk
          /\ \/ request' = [request EXCEPT ![r] = Done]
             \/ request' = [request EXCEPT ![r] = g]
      BY <1>11 DEF VoteFromDisk
    <2> HIDE DEF g, h
    <2>4. QED
      BY <1>1, <1>8, <2>2, <2>3
  <1>12. QED
    BY <1>3, <1>4, <1>5, <1>6, <1>7, <1>9, <1>10, <1>11 DEF HandlerStep

LEMMA LandServer ==
  ASSUME EnclaveTypeOK, TransactionsMatch, CredentialsOwned,
         NEW tx \in network, Land(tx)
  PROVE  EnclaveTypeOK' /\ TransactionsMatch' /\ CredentialsOwned'
  <1>1. EnclaveTypeOK'
    BY LandedType DEF TransactionsMatch
  <1>2. CASE ~Active(tx.from)
    BY <1>1, <1>2 DEF Land, TransactionsMatch, CredentialsOwned, Active
  <1>3. CASE Active(tx.from)
    <2> DEFINE r == tx.from
               g == [request[r] EXCEPT !.pc = "landed"]
    <2>1. /\ r \in Requests /\ request[r] \in Handlers
          /\ request' = [request EXCEPT ![r] = g]
          /\ UNCHANGED disk
          /\ network' = network \ {tx}
      BY <1>3, TxSender, HandlerOfKind DEF Land, Goto
    <2>2. \A t \in network \ {tx} : t.from # r /\ request'[t.from] = request[t.from]
      BY <2>1, TxSender DEF TransactionsMatch, EnclaveTypeOK
    <2>3. TransactionsMatch'
      BY <2>1, <2>2 DEF TransactionsMatch, Active
    <2>4. /\ request'[r] = g
          /\ \A q \in Requests \ {r} : request'[q] = request[q]
      BY <2>1 DEF EnclaveTypeOK
    <2>5. g.kind = request[r].kind
      BY <2>1 DEF Handlers, IdentifyHandlers, RegisterHandlers, VoteHandlers
    <2>6. request[r].kind = "register" =>
            /\ g.unit = request[r].unit
            /\ g.voter = request[r].voter
            /\ g.credential = request[r].credential
      BY <1>3, <2>1, HandlerOfKind DEF RegisterHandlers
    <2> HIDE DEF g
    <2>7. CredentialsOwned'
      BY <1>3, <2>1, <2>4, <2>5, <2>6 DEF CredentialsOwned, Issued, Active
    <2>8. QED
      BY <1>1, <2>3, <2>7
  <1>4. QED
    BY <1>1, <1>2, <1>3

LEMMA RestartServer ==
  ASSUME EnclaveTypeOK, TransactionsMatch, CredentialsOwned,
         NEW unit \in Units, Restart(unit)
  PROVE  EnclaveTypeOK' /\ TransactionsMatch' /\ CredentialsOwned'
  <1>1. \A r \in Requests : request'[r] = request[r] \/ request'[r] = Done
    BY DEF Restart, EnclaveTypeOK
  <1>2. TransactionsMatch'
    BY <1>1, TxSender, HandlersAssumption DEF Restart, TransactionsMatch, Active
  <1>3. CredentialsOwned'
    BY <1>1 DEF Restart, CredentialsOwned, Active
  <1>4. QED
    BY <1>2, <1>3, RestartType

ServersOK == EnclaveTypeOK /\ TransactionsMatch /\ CredentialsOwned

LEMMA ServersStep ==
  ASSUME TypeOK, ServersOK, [EnclaveNext]_vars
  PROVE  ServersOK'
  <1> USE DEF ServersOK
  <1>1. ASSUME NEW r \in Requests, NEW unit \in Units, NEW voter \in Voters,
               ClientStep(r, unit, voter)
        PROVE  ServersOK'
    BY <1>1, ClientStepType, ClientStepServer
  <1>2. ASSUME NEW r \in Requests, HandlerStep(r) PROVE ServersOK'
    BY <1>2, HandlerStepType, HandlerStepMatch, HandlerStepCredentials
  <1>3. ASSUME NEW tx \in network, Land(tx) PROVE ServersOK'
    BY <1>3, LandServer
  <1>4. ASSUME NEW tx \in network, Lose(tx) PROVE ServersOK'
    BY <1>4
    DEF Lose, EnclaveTypeOK, TransactionsMatch, CredentialsOwned, Active
  <1>5. ASSUME NEW unit \in Units, Restart(unit) PROVE ServersOK'
    BY <1>5, RestartServer
  <1>6. CASE UNCHANGED enclaveVars
    BY <1>6
    DEF enclaveVars, EnclaveTypeOK, TransactionsMatch, CredentialsOwned, Active
  <1>7. QED
    BY <1>1, <1>2, <1>3, <1>4, <1>5, <1>6 DEF EnclaveNext, Administer, vars

-----------------------------------------------------------------------------
(* What the chain sees of the servers *)

\* Leaves are created below the bound that ChainNext quantifies over.
LeavesBounded == DOMAIN leaf \subseteq 0..MaxLeaves

LEMMA LandOnChain ==
  ASSUME TypeOK, ServersOK, LeavesBounded, NEW tx \in network, Land(tx)
  PROVE  ChainNext
  <1>1. CASE tx.kind = "register"
    <2>1. tx \in RegisterTxs /\ RegisterStep(tx.index, tx.commitment)
      BY <1>1 DEF Land, ServersOK, EnclaveTypeOK, VoteTxs
    <2>2. tx.commitment \in Commitments
      BY <2>1 DEF RegisterTxs
    <2>3. tx.index \in 0..MaxLeaves
      BY <2>1, LeavesAssumption
      DEF RegisterStep, InsertCommitment, TypeOK, RegistryTypeOK
    <2>4. QED
      BY <2>1, <2>2, <2>3 DEF ChainNext
  <1>2. CASE tx.kind = "vote"
    <2>1. /\ tx \in VoteTxs
          /\ CastStep(tx.auth, tx.index, tx.candidate, tx.state)
      BY <1>2 DEF Land, ServersOK, EnclaveTypeOK, RegisterTxs
    <2>2. /\ tx.auth \in Authorisations
          /\ tx.candidate \in CandidateIds
          /\ tx.state \in StateIds
      BY <2>1 DEF VoteTxs
    <2>3. tx.auth \in HonestBallots
      BY <1>2, <2>2 DEF ServersOK, TransactionsMatch, HonestBallots
    <2>4. tx.index \in 0..MaxLeaves
      BY <2>1 DEF CastStep, Cast, LeavesBounded
    <2>5. QED
      BY <2>1, <2>2, <2>3, <2>4 DEF ChainNext
  <1>3. QED
    BY <1>1, <1>2 DEF Land

LEMMA ChainSees ==
  ASSUME TypeOK, ServersOK, LeavesBounded, [EnclaveNext]_vars
  PROVE  [ChainNext]_chainVars
  <1>1. CASE Administer
    BY <1>1 DEF Administer, ChainNext
  <1>2. ASSUME NEW r \in Requests, NEW unit \in Units, NEW voter \in Voters,
               ClientStep(r, unit, voter)
        PROVE  UNCHANGED chainVars
    BY <1>2, ClientHandler DEF ServersOK
  <1>3. ASSUME NEW r \in Requests, HandlerStep(r)
        PROVE  UNCHANGED chainVars
    BY <1>3
    DEF HandlerStep, IdentifyOnDisk, WarmSession, FetchLeafCount, IssueAndSend,
        LoadCredential, SaveCredential, RecordSession, VoteFromDisk, SignAndSend,
        AnswerVote, Fail
  <1>4. ASSUME NEW tx \in network, Land(tx) PROVE ChainNext
    BY <1>4, LandOnChain
  <1>5. ASSUME NEW tx \in network, Lose(tx) PROVE UNCHANGED chainVars
    BY <1>5 DEF Lose
  <1>6. ASSUME NEW unit \in Units, Restart(unit) PROVE UNCHANGED chainVars
    BY <1>6 DEF Restart
  <1>7. CASE UNCHANGED vars
    BY <1>7 DEF vars
  <1>8. QED
    BY <1>1, <1>2, <1>3, <1>4, <1>5, <1>6, <1>7 DEF EnclaveNext

LEMMA LeavesBoundedStep ==
  ASSUME TypeOK, LeavesBounded, [ChainNext]_chainVars
  PROVE  LeavesBounded'
  <1>1. ASSUME NEW at \in 0..MaxLeaves, NEW c \in Commitments, RegisterStep(at, c)
        PROVE  LeavesBounded'
    BY <1>1 DEF RegisterStep, InsertCommitment, LeavesBounded
  <1>2. CASE UNCHANGED leaf
    BY <1>2 DEF LeavesBounded
  <1>3. QED
    BY <1>1, <1>2
    DEF ChainNext, chainVars, ElectionStep, RegistrySetup, InitVoterRegistry,
        CastStep, DirectStep, TallySetup, TallyFinalisation

\* The inductive invariant of the servers together with the chain.
EnclaveInv == TypeOK /\ ServersOK /\ LeavesBounded

LEMMA EnclaveInvInit == EnclaveInit => EnclaveInv
  <1> SUFFICES ASSUME EnclaveInit PROVE EnclaveInv
    OBVIOUS
  <1>1. TypeOK
    BY TypeInit DEF EnclaveInit
  <1>2. LeavesBounded
    BY DEF EnclaveInit, ChainInit, RegistryInit, LeavesBounded
  <1>3. QED
    BY <1>1, <1>2, EnclaveTypeInit, ServerInit DEF EnclaveInv, ServersOK

LEMMA EnclaveInvStep ==
  EnclaveInv /\ [EnclaveNext]_vars => EnclaveInv' /\ [ChainNext]_chainVars
  <1> SUFFICES ASSUME EnclaveInv, [EnclaveNext]_vars
               PROVE  EnclaveInv' /\ [ChainNext]_chainVars
    OBVIOUS
  <1>1. [ChainNext]_chainVars
    BY ChainSees DEF EnclaveInv
  <1>2. QED
    BY <1>1, TypeStep, ServersStep, LeavesBoundedStep DEF EnclaveInv

\* The servers keep their shapes: sessions, files, handlers and transactions.
THEOREM EnclaveTypeCorrect == EnclaveSpec => []EnclaveTypeOK
  <1>1. EnclaveInv => EnclaveTypeOK
    BY DEF EnclaveInv, ServersOK
  <1>2. QED
    BY <1>1, EnclaveInvInit, EnclaveInvStep, PTL DEF EnclaveSpec

\* However the servers' handlers interleave, fail, are cut off by a restart
\* or have their transactions confirmed late, the chain sees ballots of an
\* honest deployment only: every theorem about Chain holds of the servers'
\* ledger, which also takes accumulate_votes from anybody.
THEOREM EnclaveImplementsChain == EnclaveSpec => ImplementsChain
  <1>1. EnclaveInit => ChainInit
    BY DEF EnclaveInit
  <1>2. QED
    BY <1>1, EnclaveInvInit, EnclaveInvStep, PTL
    DEF EnclaveSpec, ImplementsChain, ChainSpec

\* One ballot per voter in the tally, whatever clients and servers repeat; the
\* only other votes there are the accumulate_votes that somebody sent to the
\* tally program without a ballot.
THEOREM EnclaveCountMatchesBallots == EnclaveSpec => []CountMatchesBallots
  BY EnclaveImplementsChain, ChainCountMatchesBallots, PTL DEF ImplementsChain

\* The rest of what the chain promises an honest deployment, on the ledger that
\* the servers write to: nobody casts a ballot without a leaf, verify_tally
\* fails only after an accumulate_votes without a ballot, electorate and result
\* stay fixed, and the whole is a ballot box with additions by hand.
THEOREM EnclaveKeepsTheElection ==
  EnclaveSpec => /\ [](BallotsInOrder /\ OnlyRegisteredVote /\ VerifyTallyFailsForCause)
                 /\ ElectorateFixed /\ FinalisedIsFinal /\ ImplementsBallotBox
  BY EnclaveImplementsChain, ChainBallotsInOrder, ChainOnlyRegisteredVote,
     ChainVerifyTallyFailsForCause, ChainElectorateFixed, ChainFinalisedIsFinal,
     ChainImplementsBallotBox, PTL
  DEF ImplementsChain

-----------------------------------------------------------------------------
(* Where a ballot is counted *)

LEMMA LeavesStay ==
  ASSUME [ChainNext]_chainVars, NEW i \in DOMAIN leaf
  PROVE  i \in DOMAIN leaf' /\ leaf'[i] = leaf[i]
  <1>1. ASSUME NEW at \in 0..MaxLeaves, NEW c \in Commitments, RegisterStep(at, c)
        PROVE  i \in DOMAIN leaf' /\ leaf'[i] = leaf[i]
    BY <1>1 DEF RegisterStep, InsertCommitment
  <1>2. CASE UNCHANGED leaf
    BY <1>2
  <1>3. QED
    BY <1>1, <1>2
    DEF ChainNext, chainVars, ElectionStep, RegistrySetup, InitVoterRegistry,
        CastStep, DirectStep, TallySetup, TallyFinalisation

\* Only the landing of a ballot transaction puts a ballot in.
LEMMA BallotsFromNetwork ==
  ASSUME [EnclaveNext]_vars, EnclaveInv
  PROVE  \/ UNCHANGED ballots
         \/ \E tx \in network :
              /\ tx.kind = "vote"
              /\ CastStep(tx.auth, tx.index, tx.candidate, tx.state)
  <1>1. CASE Administer
    BY <1>1
    DEF Administer, ElectionStep, RegistrySetup, TallySetup, TallyFinalisation,
        DirectStep
  <1>2. ASSUME NEW tx \in network, Land(tx)
        PROVE  \/ UNCHANGED ballots
               \/ /\ tx.kind = "vote"
                  /\ CastStep(tx.auth, tx.index, tx.candidate, tx.state)
    BY <1>2 DEF Land, RegisterStep
  <1>3. ASSUME NEW r \in Requests, NEW unit \in Units, NEW voter \in Voters,
               ClientStep(r, unit, voter)
        PROVE  UNCHANGED ballots
    BY <1>3, ClientHandler DEF EnclaveInv, ServersOK, chainVars
  <1>4. ASSUME NEW r \in Requests, HandlerStep(r)
        PROVE  UNCHANGED ballots
    BY <1>4
    DEF HandlerStep, IdentifyOnDisk, WarmSession, FetchLeafCount, IssueAndSend,
        LoadCredential, SaveCredential, RecordSession, VoteFromDisk, SignAndSend,
        AnswerVote, Fail, chainVars
  <1>5. CASE UNCHANGED ballots
    BY <1>5
  <1>6. QED
    BY <1>1, <1>2, <1>3, <1>4, <1>5 DEF EnclaveNext, Lose, Restart, vars, chainVars

LEMMA GeographyStep ==
  EnclaveInv /\ BallotGeography /\ [EnclaveNext]_vars => BallotGeography'
  <1> SUFFICES ASSUME EnclaveInv, BallotGeography, [EnclaveNext]_vars,
                      NEW n \in DOMAIN ballots'
               PROVE  \E i \in DOMAIN leaf' :
                        leaf'[i].voter = n /\ leaf'[i].state = ballots'[n].state
    BY DEF BallotGeography
  <1>1. [ChainNext]_chainVars
    BY EnclaveInvStep
  <1>2. SUFFICES \E i \in DOMAIN leaf :
                   leaf[i].voter = n /\ leaf[i].state = ballots'[n].state
    BY <1>1, LeavesStay
  <1>3. CASE UNCHANGED ballots
    BY <1>3 DEF BallotGeography
  <1>4. ASSUME NEW tx \in network, tx.kind = "vote",
               CastStep(tx.auth, tx.index, tx.candidate, tx.state)
        PROVE  \E i \in DOMAIN leaf :
                 leaf[i].voter = n /\ leaf[i].state = ballots'[n].state
    <2>1. /\ tx.index \in DOMAIN leaf
          /\ leaf[tx.index] = tx.auth.commitment
          /\ ballots' = [m \in DOMAIN ballots \cup {tx.auth.nullifier} |->
                           IF m = tx.auth.nullifier
                           THEN [state |-> tx.state, candidate |-> tx.candidate,
                                 slot |-> slot]
                           ELSE ballots[m]]
      BY <1>4 DEF CastStep, Cast
    <2>2. /\ tx.auth.commitment.voter = tx.auth.nullifier
          /\ tx.auth.commitment.state = tx.state
      BY <1>4 DEF EnclaveInv, ServersOK, TransactionsMatch
    <2>3. CASE n = tx.auth.nullifier
      BY <2>1, <2>2, <2>3
    <2>4. CASE n # tx.auth.nullifier
      BY <2>1, <2>4 DEF BallotGeography
    <2>5. QED
      BY <2>3, <2>4
  <1>5. QED
    BY <1>3, <1>4, BallotsFromNetwork

\* A ballot is counted under a polling unit where its voter enrolled: the
\* program does not compare the state in the ballot with anything, the
\* servers take it from the credential that the leaf commits to.
THEOREM EnclaveBallotGeography == EnclaveSpec => []BallotGeography
  <1>1. EnclaveInit => BallotGeography
    BY DEF EnclaveInit, ChainInit, BallotInit, BallotGeography
  <1>2. QED
    BY <1>1, EnclaveInvInit, EnclaveInvStep, GeographyStep, PTL DEF EnclaveSpec

-----------------------------------------------------------------------------
(* Whose leaf a session names *)

\* The leaf index that a handler has read or had confirmed is its voter's.
HandlersOwn ==
    \A r \in Requests :
       Active(r) =>
          \/ /\ request[r].kind # "register"
             /\ request[r].leafIndex = NoLeaf
          \/ /\ request[r].kind = "register"
             /\ request[r].pc \in {"fetch", "issue", "sent"}
          \/ OwnsLeaf(request[r].unit, request[r].voter, request[r].leafIndex)

OwnershipInv == HandlersOwn /\ LeafIndexOwned

LEMMA OwnershipInit == EnclaveInit => OwnershipInv
  BY EnclaveAssumption
  DEF EnclaveInit, OwnershipInv, HandlersOwn, LeafIndexOwned, Active, DiskLeaf

LEMMA OwnedStays ==
  ASSUME EnclaveInv, [EnclaveNext]_vars,
         NEW unit, NEW voter, NEW index, OwnsLeaf(unit, voter, index)
  PROVE  OwnsLeaf(unit, voter, index)'
  BY EnclaveInvStep, LeavesStay DEF OwnsLeaf

\* Ownership survives a step that adds no leaf index to a session or a file
\* other than one that a voter of that unit owns already.
LEMMA IndexOwnedStep ==
  ASSUME EnclaveInv, OwnershipInv, [EnclaveNext]_vars,
         \A unit \in Units, voter \in Voters :
            \A index \in {session'[unit][voter], DiskLeaf(unit, voter)'} :
               \/ index \in {NoLeaf, NoSession}
               \/ index \in {session[unit][voter], DiskLeaf(unit, voter)}
               \/ OwnsLeaf(unit, voter, index)
  PROVE  LeafIndexOwned'
  BY OwnedStays DEF OwnershipInv, LeafIndexOwned

LEMMA HandlersOwnStep ==
  ASSUME EnclaveInv, OwnershipInv, [EnclaveNext]_vars,
         \A q \in Requests :
            \/ request'[q] \in {Idle, Done}
            \/ request'[q] = request[q]
            \/ /\ request'[q].kind # "register"
               /\ request'[q].leafIndex = NoLeaf
            \/ /\ request'[q].kind = "register"
               /\ request'[q].pc \in {"fetch", "issue", "sent"}
            \/ OwnsLeaf(request[q].unit, request[q].voter, request[q].leafIndex)'
  PROVE  HandlersOwn'
  <1> SUFFICES ASSUME NEW q \in Requests, request'[q] \notin {Idle, Done}
               PROVE
         \/ /\ request'[q].kind # "register"
            /\ request'[q].leafIndex = NoLeaf
         \/ /\ request'[q].kind = "register"
            /\ request'[q].pc \in {"fetch", "issue", "sent"}
         \/ OwnsLeaf(request[q].unit, request[q].voter, request[q].leafIndex)'
    BY DEF HandlersOwn, Active
  <1>1. CASE request'[q] = request[q]
    <2> DEFINE h == request[q]
    <2>1. CASE OwnsLeaf(h.unit, h.voter, h.leafIndex)
      <3>1. \A unit, voter, index :
              OwnsLeaf(unit, voter, index) => OwnsLeaf(unit, voter, index)'
        BY OwnedStays
      <3>2. QED
        BY <1>1, <2>1, <3>1 DEF OwnsLeaf
    <2>2. QED
      BY <1>1, <2>1 DEF OwnershipInv, HandlersOwn, Active
  <1>2. QED
    BY <1>1

LEMMA OwnedNow ==
  ASSUME EnclaveInv, OwnershipInv, NEW unit \in Units, NEW voter \in Voters
  PROVE  /\ \/ session[unit][voter] \in {NoLeaf, NoSession}
            \/ OwnsLeaf(unit, voter, session[unit][voter])
         /\ \/ DiskLeaf(unit, voter) = NoLeaf
            \/ OwnsLeaf(unit, voter, DiskLeaf(unit, voter))
  <1>1. DiskLeaf(unit, voter) # NoSession
    BY DiskLeafType, EnclaveAssumption DEF EnclaveInv, ServersOK
  <1>2. QED
    BY <1>1 DEF OwnershipInv, LeafIndexOwned

LEMMA ClientStepOwned ==
  ASSUME EnclaveInv, OwnershipInv, [EnclaveNext]_vars, NEW r \in Requests,
         NEW unit \in Units, NEW voter \in Voters, ClientStep(r, unit, voter)
  PROVE  OwnershipInv'
  <1> USE DEF EnclaveInv, ServersOK
  <1>1. /\ UNCHANGED <<disk, session, leaf>>
        /\ request' \in [Requests -> Handlers \cup {Idle, Done}]
    BY ClientHandler, ClientStepType DEF chainVars, EnclaveTypeOK
  <1>2. LeafIndexOwned'
    BY <1>1 DEF OwnershipInv, LeafIndexOwned, OwnsLeaf, DiskLeaf
  <1>3. \A q \in Requests \ {r} : request'[q] = request[q]
    BY ClientHandler DEF EnclaveTypeOK
  <1>4. \/ /\ request'[r].kind # "register"
           /\ request'[r].leafIndex = NoLeaf
        \/ /\ request'[r].kind = "register"
           /\ request'[r].pc \in {"fetch", "issue", "sent"}
        \/ OwnsLeaf(request'[r].unit, request'[r].voter, request'[r].leafIndex)
    <2>1. CASE Identify(r, unit, voter)
      BY <2>1 DEF Identify, EnclaveTypeOK
    <2>2. CASE Register(r, unit, voter)
      BY <2>2 DEF Register, EnclaveTypeOK
    <2>3. ASSUME NEW candidate \in CandidateIds, Vote(r, unit, voter, candidate)
          PROVE  \/ /\ request'[r].kind # "register"
                    /\ request'[r].leafIndex = NoLeaf
                 \/ OwnsLeaf(request'[r].unit, request'[r].voter,
                             request'[r].leafIndex)
      <3> DEFINE i == IF HasLeaf(unit, voter) THEN session[unit][voter] ELSE NoLeaf
                 p == IF HasLeaf(unit, voter) THEN "sign" ELSE "lookup"
                 h == [kind |-> "vote", unit |-> unit, voter |-> voter,
                       candidate |-> candidate, pc |-> p, leafIndex |-> i]
      <3>1. i = NoLeaf \/ OwnsLeaf(unit, voter, i)
        <4>1. HasLeaf(unit, voter) => session[unit][voter] \notin {NoLeaf, NoSession}
          BY EnclaveAssumption DEF HasLeaf, LeafIndices
        <4>2. QED
          BY <4>1, OwnedNow
      <3>2. request'[r] = h
        BY <2>3 DEF Vote, EnclaveTypeOK
      <3> HIDE DEF i, p
      <3>3. QED
        BY <3>1, <3>2
    <2>4. QED
      BY <2>1, <2>2, <2>3 DEF ClientStep
  <1>5. HandlersOwn'
    BY <1>1, <1>3, <1>4 DEF OwnershipInv, HandlersOwn, OwnsLeaf, Active
  <1>6. QED
    BY <1>2, <1>5 DEF OwnershipInv

\* What a handler that has its leaf does with it.
LEMMA HandlerStepOwned ==
  ASSUME EnclaveInv, OwnershipInv, [EnclaveNext]_vars, NEW r \in Requests,
         HandlerStep(r)
  PROVE  OwnershipInv'
  <1> USE DEF EnclaveInv, ServersOK, At, Goto, Finish
  <1> DEFINE h == request[r]
  <1>1. Active(r)
    BY DEF HandlerStep, IdentifyOnDisk, WarmSession, FetchLeafCount, IssueAndSend,
           LoadCredential, SaveCredential, RecordSession, VoteFromDisk, SignAndSend,
           AnswerVote, Fail
  <1>2. h.unit \in Units /\ h.voter \in Voters
    BY <1>1, HandlerOfKind, HandlerFields
  <1>3. \/ h.kind # "register" /\ h.leafIndex = NoLeaf
        \/ h.kind = "register" /\ h.pc \in {"fetch", "issue", "sent"}
        \/ OwnsLeaf(h.unit, h.voter, h.leafIndex)
    BY <1>1 DEF OwnershipInv, HandlersOwn
  <1>4. ASSUME NEW g, request' = [request EXCEPT ![r] = g],
               \/ g = Done
               \/ g.kind = "register" /\ g.pc \in {"fetch", "issue", "sent"}
               \/ g.kind # "register" /\ g.leafIndex = NoLeaf
               \/ OwnsLeaf(h.unit, h.voter, g.leafIndex)
                  /\ g.unit = h.unit /\ g.voter = h.voter
        PROVE  HandlersOwn'
    <2>1. request'[r] = g /\ \A q \in Requests \ {r} : request'[q] = request[q]
      BY <1>4 DEF EnclaveTypeOK
    <2>2. UNCHANGED leaf
      BY DEF HandlerStep, IdentifyOnDisk, WarmSession, FetchLeafCount,
             IssueAndSend, LoadCredential, SaveCredential, RecordSession,
             VoteFromDisk, SignAndSend, AnswerVote, Fail, chainVars
    <2>3. QED
      BY <1>4, <2>1, <2>2 DEF OwnershipInv, HandlersOwn, OwnsLeaf, Active
  <1>5. ASSUME NEW i, i = NoLeaf \/ OwnsLeaf(h.unit, h.voter, i),
               \/ /\ UNCHANGED disk
                  /\ \/ UNCHANGED session
                     \/ session' = [session EXCEPT ![h.unit][h.voter] = i]
               \/ /\ UNCHANGED session
                  /\ \E c \in Credentials :
                       /\ disk' = [disk EXCEPT ![h.unit][h.voter] = c]
                       /\ c.leafIndex = i
        PROVE  LeafIndexOwned'
    <2> SUFFICES ASSUME NEW unit \in Units, NEW voter \in Voters,
                        NEW index \in {session'[unit][voter], DiskLeaf(unit, voter)'}
                 PROVE  \/ index \in {NoLeaf, NoSession}
                        \/ index \in {session[unit][voter], DiskLeaf(unit, voter)}
                        \/ OwnsLeaf(unit, voter, index)
      BY IndexOwnedStep
    <2>1. CASE UNCHANGED <<disk, session>>
      BY <2>1 DEF DiskLeaf
    <2>2. CASE /\ UNCHANGED disk
               /\ session' = [session EXCEPT ![h.unit][h.voter] = i]
      <3>1. \/ session'[unit][voter] = session[unit][voter]
            \/ /\ unit = h.unit
               /\ voter = h.voter
               /\ session'[unit][voter] = i
        BY <1>2, <2>2 DEF EnclaveTypeOK
      <3>2. DiskLeaf(unit, voter)' = DiskLeaf(unit, voter)
        BY <2>2 DEF DiskLeaf
      <3>3. QED
        BY <1>5, <3>1, <3>2
    <2>3. ASSUME UNCHANGED session, NEW c \in Credentials, c.leafIndex = i,
                 disk' = [disk EXCEPT ![h.unit][h.voter] = c]
          PROVE  \/ index \in {NoLeaf, NoSession}
                 \/ index \in {session[unit][voter], DiskLeaf(unit, voter)}
                 \/ OwnsLeaf(unit, voter, index)
      <3>1. \/ disk'[unit][voter] = disk[unit][voter]
            \/ /\ unit = h.unit
               /\ voter = h.voter
               /\ disk'[unit][voter] = c
        BY <1>2, <2>3 DEF EnclaveTypeOK
      <3>2. \/ DiskLeaf(unit, voter)' = DiskLeaf(unit, voter)
            \/ /\ unit = h.unit
               /\ voter = h.voter
               /\ DiskLeaf(unit, voter)' = i
        BY <2>3, <3>1, EnclaveAssumption DEF DiskLeaf
      <3>3. QED
        BY <1>5, <2>3, <3>2
    <2>4. QED
      BY <1>5, <2>1, <2>2, <2>3
  <1>6. CASE WarmSession(r) \/ RecordSession(r)
    <2>1. UNCHANGED disk /\ request' = [request EXCEPT ![r] = Done]
      BY <1>6 DEF WarmSession, RecordSession
    <2>2. h.leafIndex = NoLeaf \/ OwnsLeaf(h.unit, h.voter, h.leafIndex)
      BY <1>3, <1>6 DEF WarmSession, RecordSession
    <2>3. \/ session' = [session EXCEPT ![h.unit][h.voter] = h.leafIndex]
          \/ session' = [session EXCEPT ![h.unit][h.voter] = session[h.unit][h.voter]]
      BY <1>6 DEF WarmSession, RecordSession
    <2>4. [session EXCEPT ![h.unit][h.voter] = session[h.unit][h.voter]] = session
      BY <1>2 DEF EnclaveTypeOK
    <2> HIDE DEF h
    <2>5. LeafIndexOwned'
      BY <1>5, <2>1, <2>2, <2>3, <2>4
    <2>6. HandlersOwn'
      BY <1>4, <2>1
    <2>7. QED
      BY <2>5, <2>6 DEF OwnershipInv
  <1>7. CASE FetchLeafCount(r) \/ LoadCredential(r)
    <2>1. UNCHANGED <<disk, session>> /\ h \in RegisterHandlers
      BY <1>7, HandlerOfKind DEF FetchLeafCount, LoadCredential
    <2>2. LeafIndexOwned'
      BY <1>5, <2>1
    <2>3. CASE FetchLeafCount(r)
      <3> DEFINE g == [h EXCEPT !.leafIndex = registry.leafCount, !.pc = "issue"]
      <3>1. request' = [request EXCEPT ![r] = g]
        BY <2>3 DEF FetchLeafCount
      <3>2. g.kind = "register" /\ g.pc = "issue"
        BY <2>1 DEF RegisterHandlers
      <3> HIDE DEF g, h
      <3>3. QED
        BY <1>4, <2>2, <3>1, <3>2 DEF OwnershipInv
    <2>4. CASE LoadCredential(r)
      <3> DEFINE g == [h EXCEPT !.credential = disk[h.unit][h.voter], !.pc = "loaded"]
      <3>1. request' = [request EXCEPT ![r] = g]
        BY <2>4 DEF LoadCredential
      <3>2. g.unit = h.unit /\ g.voter = h.voter /\ g.leafIndex = h.leafIndex
        BY <2>1 DEF RegisterHandlers
      <3>3. OwnsLeaf(h.unit, h.voter, h.leafIndex)
        BY <1>3, <2>4 DEF LoadCredential
      <3> HIDE DEF g, h
      <3>4. QED
        BY <1>4, <2>2, <3>1, <3>2, <3>3 DEF OwnershipInv
    <2>5. QED
      BY <1>7, <2>3, <2>4
  <1>8. CASE IssueAndSend(r)
    <2> DEFINE c == [voter |-> h.voter, state |-> PollingState[h.unit],
                     blinding |-> issued]
               file == [commitment |-> c, leafIndex |-> NoLeaf]
               g == [h EXCEPT !.pc = "sent"]
    <2>1. /\ UNCHANGED session
          /\ disk' = [disk EXCEPT ![h.unit][h.voter] = file]
          /\ request' = [request EXCEPT ![r] = g]
          /\ h \in RegisterHandlers
      BY <1>8, HandlerOfKind DEF IssueAndSend
    <2>2. g.kind = "register" /\ g.pc = "sent"
      BY <2>1 DEF RegisterHandlers
    <2>3. file \in Credentials /\ file.leafIndex = NoLeaf
      BY <1>2, <1>8, EnclaveAssumption
      DEF IssueAndSend, Credentials, Commitments, LeafIndices
    <2> HIDE DEF g, h, file
    <2>4. LeafIndexOwned'
      BY <1>5, <2>1, <2>3
    <2>5. HandlersOwn'
      BY <1>4, <2>1, <2>2
    <2>6. QED
      BY <2>4, <2>5 DEF OwnershipInv
  <1>9. CASE SaveCredential(r)
    <2> DEFINE file == [h.credential EXCEPT !.leafIndex = h.leafIndex]
               g == [h EXCEPT !.pc = "saved"]
    <2>1. /\ UNCHANGED session
          /\ request' = [request EXCEPT ![r] = g]
          /\ h \in RegisterHandlers
          /\ \/ UNCHANGED disk
             \/ /\ h.credential # NoFile
                /\ disk' = [disk EXCEPT ![h.unit][h.voter] = file]
      BY <1>9, HandlerOfKind DEF SaveCredential
    <2>2. g.unit = h.unit /\ g.voter = h.voter /\ g.leafIndex = h.leafIndex
      BY <2>1 DEF RegisterHandlers
    <2>3. OwnsLeaf(h.unit, h.voter, h.leafIndex)
      BY <1>3, <1>9 DEF SaveCredential
    <2>4. h.credential # NoFile =>
            file \in Credentials /\ file.leafIndex = h.leafIndex
      BY <2>1 DEF RegisterHandlers, Credentials
    <2> HIDE DEF g, h, file
    <2>5. LeafIndexOwned'
      BY <1>5, <2>1, <2>3, <2>4
    <2>6. HandlersOwn'
      BY <1>4, <2>1, <2>2, <2>3
    <2>7. QED
      BY <2>5, <2>6 DEF OwnershipInv
  <1>10. CASE SignAndSend(r)
    <2> DEFINE g == [h EXCEPT !.pc = "sent"]
    <2>1. /\ UNCHANGED <<disk, session>>
          /\ request' = [request EXCEPT ![r] = g]
          /\ h \in VoteHandlers
      BY <1>10, HandlerOfKind DEF SignAndSend
    <2>2. g.unit = h.unit /\ g.voter = h.voter /\ g.leafIndex = h.leafIndex
      BY <2>1 DEF VoteHandlers
    <2>3. OwnsLeaf(h.unit, h.voter, h.leafIndex)
      BY <1>3, <1>10, <2>1, EnclaveAssumption DEF SignAndSend, VoteHandlers
    <2> HIDE DEF g, h
    <2>4. QED
      BY <1>4, <1>5, <2>1, <2>2, <2>3 DEF OwnershipInv
  <1>11. CASE AnswerVote(r)
    <2>1. UNCHANGED disk /\ request' = [request EXCEPT ![r] = Done]
      BY <1>11 DEF AnswerVote
    <2>2. OwnsLeaf(h.unit, h.voter, h.leafIndex)
      BY <1>3, <1>11, HandlerOfKind, EnclaveAssumption DEF AnswerVote, VoteHandlers
    <2>3. \/ session' = [session EXCEPT ![h.unit][h.voter] = h.leafIndex]
          \/ session' = [session EXCEPT ![h.unit][h.voter] = session[h.unit][h.voter]]
      BY <1>11 DEF AnswerVote
    <2>4. [session EXCEPT ![h.unit][h.voter] = session[h.unit][h.voter]] = session
      BY <1>2 DEF EnclaveTypeOK
    <2> HIDE DEF h
    <2>5. QED
      BY <1>4, <1>5, <2>1, <2>2, <2>3, <2>4 DEF OwnershipInv
  <1>12. CASE Fail(r)
    <2>1. UNCHANGED <<disk, session>> /\ request' = [request EXCEPT ![r] = Done]
      BY <1>12 DEF Fail
    <2> HIDE DEF h
    <2>2. QED
      BY <1>4, <1>5, <2>1 DEF OwnershipInv
  <1>13. CASE IdentifyOnDisk(r) \/ VoteFromDisk(r)
    <2> DEFINE i == DiskLeaf(h.unit, h.voter)
    <2>1. UNCHANGED <<disk, session>>
      BY <1>13 DEF IdentifyOnDisk, VoteFromDisk
    <2>2. i = NoLeaf \/ OwnsLeaf(h.unit, h.voter, i)
      BY <1>2, OwnedNow
    <2>3. h \in IdentifyHandlers \cup VoteHandlers
      BY <1>13, HandlerOfKind DEF IdentifyOnDisk, VoteFromDisk
    <2>4. ASSUME NEW p, NEW g, g = [h EXCEPT !.leafIndex = i, !.pc = p]
          PROVE  /\ g.kind # "register" /\ g.leafIndex = i
                 /\ g.unit = h.unit /\ g.voter = h.voter
      BY <2>3, <2>4 DEF IdentifyHandlers, VoteHandlers
    <2>5. \/ request' = [request EXCEPT ![r] = Done]
          \/ request' = [request EXCEPT ![r] = [h EXCEPT !.leafIndex = i, !.pc = "warm"]]
          \/ request' = [request EXCEPT ![r] = [h EXCEPT !.leafIndex = i, !.pc = "sign"]]
      BY <1>13 DEF IdentifyOnDisk, VoteFromDisk
    <2>6. HandlersOwn'
      <3>1. ASSUME NEW p,
                   request' = [request EXCEPT ![r] = [h EXCEPT !.leafIndex = i, !.pc = p]]
            PROVE  HandlersOwn'
        <4> DEFINE g == [h EXCEPT !.leafIndex = i, !.pc = p]
        <4>1. /\ g.kind # "register" /\ g.leafIndex = i
              /\ g.unit = h.unit /\ g.voter = h.voter
          BY <2>4
        <4>2. request' = [request EXCEPT ![r] = g]
          BY <3>1
        <4> HIDE DEF g, h, i
        <4>3. QED
          BY <1>4, <2>2, <4>1, <4>2
      <3> HIDE DEF h, i
      <3>2. QED
        BY <1>4, <2>5, <3>1
    <2>7. LeafIndexOwned'
      BY <1>5, <2>1
    <2>8. QED
      BY <2>6, <2>7 DEF OwnershipInv
  <1>14. QED
    BY <1>6, <1>7, <1>8, <1>9, <1>10, <1>11, <1>12, <1>13 DEF HandlerStep

\* The leaf that a landed registration created is its sender's.
LEMMA LandOwned ==
  ASSUME EnclaveInv, OwnershipInv, [EnclaveNext]_vars, NEW tx \in network, Land(tx)
  PROVE  OwnershipInv'
  <1> USE DEF EnclaveInv, ServersOK
  <1> DEFINE r == tx.from
  <1>1. UNCHANGED <<disk, session>>
    BY DEF Land
  <1>2. LeafIndexOwned'
    BY <1>1, IndexOwnedStep DEF DiskLeaf
  <1>3. CASE ~Active(r)
    BY <1>2, <1>3, HandlersOwnStep DEF Land, OwnershipInv
  <1>4. CASE Active(r)
    <2> DEFINE g == [request[r] EXCEPT !.pc = "landed"]
    <2>1. /\ r \in Requests /\ request[r] \in Handlers
          /\ request' = [request EXCEPT ![r] = g]
      BY <1>4, TxSender, HandlerOfKind DEF Land, Goto
    <2>2. /\ request'[r] = g
          /\ \A q \in Requests \ {r} : request'[q] = request[q]
      BY <2>1 DEF EnclaveTypeOK
    <2>3. OwnsLeaf(request[r].unit, request[r].voter, request[r].leafIndex)'
      <3>1. /\ g.unit = request[r].unit
            /\ g.voter = request[r].voter
            /\ g.leafIndex = request[r].leafIndex
        BY <2>1 DEF Handlers, IdentifyHandlers, RegisterHandlers, VoteHandlers
      <3>2. CASE tx.kind = "register"
        <4>1. RegisterStep(tx.index, tx.commitment)
          BY <3>2 DEF Land
        <4>2. tx.index \in DOMAIN leaf' /\ leaf'[tx.index] = tx.commitment
          BY <4>1 DEF RegisterStep, InsertCommitment
        <4>3. /\ request[r].leafIndex = tx.index
              /\ request[r].voter = tx.commitment.voter
              /\ PollingState[request[r].unit] = tx.commitment.state
          BY <1>4, <3>2 DEF TransactionsMatch
        <4> HIDE DEF g
        <4>4. QED
          BY <2>2, <3>1, <4>2, <4>3 DEF OwnsLeaf
      <3>3. CASE tx.kind = "vote"
        <4>1. request[r].kind = "vote"
          BY <1>4, <3>3 DEF TransactionsMatch
        <4>2. OwnsLeaf(request[r].unit, request[r].voter, request[r].leafIndex)
          <5>1. request[r].pc = "sent" /\ request[r] \in VoteHandlers
            BY <1>4, <2>1, <4>1, HandlerOfKind DEF TransactionsMatch
          <5>2. request[r].leafIndex # NoLeaf
            BY <5>1, EnclaveAssumption DEF VoteHandlers
          <5>3. QED
            BY <1>4, <2>1, <4>1, <5>2 DEF OwnershipInv, HandlersOwn
        <4>3. UNCHANGED leaf
          BY <3>3 DEF Land, CastStep
        <4> HIDE DEF g
        <4>4. QED
          BY <2>2, <3>1, <4>2, <4>3 DEF OwnsLeaf
      <3>4. QED
        BY <3>2, <3>3 DEF Land
    <2>4. QED
      BY <1>2, <2>2, <2>3, HandlersOwnStep DEF OwnershipInv
  <1>5. QED
    BY <1>2, <1>3, <1>4 DEF OwnershipInv

LEMMA OwnershipStep ==
  EnclaveInv /\ OwnershipInv /\ [EnclaveNext]_vars => OwnershipInv'
  <1> SUFFICES ASSUME EnclaveInv, OwnershipInv, [EnclaveNext]_vars
               PROVE  OwnershipInv'
    OBVIOUS
  <1>1. ASSUME UNCHANGED <<disk, session, request>>
        PROVE  OwnershipInv'
    <2>1. LeafIndexOwned'
      BY <1>1, IndexOwnedStep DEF DiskLeaf
    <2>2. HandlersOwn'
      BY <1>1, HandlersOwnStep
    <2>3. QED
      BY <2>1, <2>2 DEF OwnershipInv
  <1>2. ASSUME NEW unit \in Units, Restart(unit)
        PROVE  OwnershipInv'
    <2>1. \A r \in Requests : request'[r] = request[r] \/ request'[r] = Done
      BY <1>2 DEF Restart, EnclaveInv, ServersOK, EnclaveTypeOK
    <2>2. \A u \in Units, v \in Voters :
            session'[u][v] = session[u][v] \/ session'[u][v] = NoSession
      BY <1>2 DEF Restart, EnclaveInv, ServersOK, EnclaveTypeOK
    <2>3. UNCHANGED disk
      BY <1>2 DEF Restart
    <2>4. LeafIndexOwned'
      BY <2>2, <2>3, IndexOwnedStep DEF DiskLeaf
    <2>5. QED
      BY <2>1, <2>4, HandlersOwnStep DEF OwnershipInv
  <1>3. ASSUME NEW tx \in network, Lose(tx)
        PROVE  OwnershipInv'
    BY <1>1, <1>3 DEF Lose
  <1>4. CASE Administer \/ UNCHANGED vars
    BY <1>1, <1>4 DEF Administer, enclaveVars, vars
  <1>5. QED
    BY <1>2, <1>3, <1>4, ClientStepOwned, HandlerStepOwned, LandOwned DEF EnclaveNext

\* Whatever leaf index a session or a file holds for a voter, the leaf is
\* this voter's, created by this unit: of registrations that fetched the same
\* count only one lands, and its index goes to nobody else.
THEOREM EnclaveLeafIndexOwned == EnclaveSpec => []LeafIndexOwned
  <1>1. OwnershipInv => LeafIndexOwned
    BY DEF OwnershipInv
  <1>2. QED
    BY <1>1, EnclaveInvInit, EnclaveInvStep, OwnershipInit, OwnershipStep, PTL
    DEF EnclaveSpec

-----------------------------------------------------------------------------
(* Clients that wait: nobody but the one request of a voter touches the    *)
(* voter's session and file, and a registration that replaces the file     *)
(* finds no session that still names a leaf of the file before.            *)

\* The leaf with this index is that of the commitment in the voter's file.
LeafOfFile(unit, voter, index) ==
    /\ disk[unit][voter] # NoFile
    /\ index \in DOMAIN leaf
    /\ leaf[index] = disk[unit][voter].commitment

\* A handler that has read a leaf index or had it confirmed.
HoldsLeaf(h) ==
    \/ h.kind = "register" /\ h.pc \in {"landed", "loaded", "saved"}
    \/ h.kind = "vote" /\ h.pc # "lookup"
    \/ h.kind = "identify" /\ h.leafIndex # NoLeaf

HandlerTrue(r) ==
    Active(r) =>
       LET h == request[r]
       IN  /\ HoldsLeaf(h) => LeafOfFile(h.unit, h.voter, h.leafIndex)
           /\ h.kind = "register" =>
                /\ ~HasLeaf(h.unit, h.voter)
                /\ h.pc = "loaded" => h.credential = disk[h.unit][h.voter]

\* The commitment under way is the one in the file.
TxTrue(tx) ==
    tx.kind = "register" /\ Active(tx.from) =>
       LET h == request[tx.from]
       IN  /\ disk[h.unit][h.voter] # NoFile
           /\ disk[h.unit][h.voter].commitment = tx.commitment

EntryTrue(unit, voter) ==
    /\ HasLeaf(unit, voter) => LeafOfFile(unit, voter, session[unit][voter])
    /\ DiskLeaf(unit, voter) # NoLeaf =>
         LeafOfFile(unit, voter, DiskLeaf(unit, voter))

OneRequestEach ==
    \A q, r \in Requests :
       Active(q) /\ Active(r) /\ request[q].voter = request[r].voter => q = r

WaitingInv ==
    serial =>
      /\ OneRequestEach
      /\ \A r \in Requests : HandlerTrue(r)
      /\ \A tx \in network : TxTrue(tx)
      /\ \A unit \in Units, voter \in Voters : EntryTrue(unit, voter)

LEMMA WaitingInit == EnclaveInit => WaitingInv
  BY EnclaveAssumption
  DEF EnclaveInit, WaitingInv, OneRequestEach, HandlerTrue, TxTrue, EntryTrue, Active,
      HasLeaf, DiskLeaf, LeafIndices

\* The voter's file is as before, and the session is, or it is gone.
SameEntry(unit, voter) ==
    /\ disk'[unit][voter] = disk[unit][voter]
    /\ session'[unit][voter] \in {session[unit][voter], NoSession}

LEMMA SameHasLeaf ==
  ASSUME NEW unit, NEW voter, SameEntry(unit, voter), HasLeaf(unit, voter)'
  PROVE  HasLeaf(unit, voter) /\ session'[unit][voter] = session[unit][voter]
  BY EnclaveAssumption DEF SameEntry, HasLeaf, LeafIndices

LEMMA EntryStays ==
  ASSUME EnclaveInv, [EnclaveNext]_vars, NEW unit, NEW voter,
         EntryTrue(unit, voter), SameEntry(unit, voter)
  PROVE  EntryTrue(unit, voter)'
  <1>1. DiskLeaf(unit, voter)' = DiskLeaf(unit, voter)
    BY DEF SameEntry, DiskLeaf
  <1>2. \A i \in DOMAIN leaf : i \in DOMAIN leaf' /\ leaf'[i] = leaf[i]
    BY EnclaveInvStep, LeavesStay
  <1>3. QED
    BY <1>1, <1>2, SameHasLeaf DEF EntryTrue, LeafOfFile, SameEntry

LEMMA HandlerStays ==
  ASSUME EnclaveInv, [EnclaveNext]_vars, NEW r, HandlerTrue(r),
         request'[r] = request[r],
         Active(r) => SameEntry(request[r].unit, request[r].voter)
  PROVE  HandlerTrue(r)'
  <1> SUFFICES ASSUME Active(r)
               PROVE  HandlerTrue(r)'
    BY DEF HandlerTrue, Active
  <1> DEFINE h == request[r]
  <1>1. \A i \in DOMAIN leaf : i \in DOMAIN leaf' /\ leaf'[i] = leaf[i]
    BY EnclaveInvStep, LeavesStay
  <1>2. HasLeaf(h.unit, h.voter) \/ ~(session'[h.unit][h.voter] \in Nat)
    BY EnclaveAssumption DEF SameEntry, HasLeaf, LeafIndices
  <1>3. QED
    BY <1>1, <1>2 DEF HandlerTrue, SameEntry, LeafOfFile, HoldsLeaf, HasLeaf

\* A step of the request of one voter: other voters' sessions and files, and
\* other requests' handlers, stay as they are.
LEMMA OneVoterStep ==
  ASSUME EnclaveInv, WaitingInv, [EnclaveNext]_vars, UNCHANGED serial, serial,
         NEW r \in Requests, NEW v \in Voters,
         \A q \in Requests : Active(q) /\ request[q].voter = v => q = r,
         \A unit \in Units, voter \in Voters \ {v} : SameEntry(unit, voter),
         \A q \in Requests \ {r} : request'[q] = request[q],
         request'[r] \in {Idle, Done} \/ request'[r].voter = v,
         \A tx \in network' : tx.from # r => tx \in network,
         HandlerTrue(r)',
         \A tx \in network' : tx.from = r => TxTrue(tx)',
         \A unit \in Units : EntryTrue(unit, v)'
  PROVE  WaitingInv'
  <1> USE DEF EnclaveInv, ServersOK
  <1>1. OneRequestEach'
    BY DEF WaitingInv, OneRequestEach, Active
  <1>2. \A q \in Requests \ {r} :
          Active(q) => SameEntry(request[q].unit, request[q].voter)
    BY HandlerOfKind, HandlerFields
  <1>3. \A q \in Requests : HandlerTrue(q)'
    BY <1>2, HandlerStays DEF WaitingInv
  <1>4. ASSUME NEW tx \in network', tx.from # r
        PROVE  TxTrue(tx)'
    <2>1. tx \in network /\ tx.from \in Requests \ {r}
      BY <1>4, TxSender
    <2>2. QED
      BY <1>2, <2>1, SMTT(30) DEF WaitingInv, TxTrue, Active, SameEntry
  <1>5. ASSUME NEW unit \in Units, NEW voter \in Voters
        PROVE  EntryTrue(unit, voter)'
    BY EntryStays DEF WaitingInv
  <1>6. QED
    BY <1>1, <1>3, <1>4, <1>5 DEF WaitingInv

\* A step in which files stay, sessions stay or vanish, and handlers stay or
\* end.
LEMMA QuietStep ==
  ASSUME EnclaveInv, WaitingInv, [EnclaveNext]_vars, UNCHANGED serial,
         \A unit \in Units, voter \in Voters : SameEntry(unit, voter),
         \A q \in Requests : request'[q] \in {request[q], Idle, Done},
         network' \subseteq network
  PROVE  WaitingInv'
  <1> USE DEF EnclaveInv, ServersOK
  <1> SUFFICES ASSUME serial PROVE WaitingInv'
    BY DEF WaitingInv
  <1>1. \A q \in Requests : Active(q)' => request'[q] = request[q] /\ Active(q)
    BY DEF Active
  <1>2. OneRequestEach'
    BY <1>1 DEF WaitingInv, OneRequestEach
  <1>3. \A q \in Requests :
          Active(q) => SameEntry(request[q].unit, request[q].voter)
    BY HandlerOfKind, HandlerFields
  <1>4. ASSUME NEW q \in Requests
        PROVE  HandlerTrue(q)'
    <2>1. CASE request'[q] = request[q]
      BY <1>3, <2>1, HandlerStays DEF WaitingInv
    <2>2. QED
      BY <1>1, <2>1 DEF HandlerTrue
  <1>5. ASSUME NEW tx \in network'
        PROVE  TxTrue(tx)'
    BY <1>1, <1>3, TxSender DEF WaitingInv, TxTrue, SameEntry
  <1>6. ASSUME NEW unit \in Units, NEW voter \in Voters
        PROVE  EntryTrue(unit, voter)'
    BY EntryStays DEF WaitingInv
  <1>7. QED
    BY <1>2, <1>4, <1>5, <1>6 DEF WaitingInv

\* A request of a waiting client is the only one of its voter.
LEMMA ClientStepWaits ==
  ASSUME EnclaveInv, WaitingInv, [EnclaveNext]_vars, NEW r \in Requests,
         NEW unit \in Units, NEW voter \in Voters, ClientStep(r, unit, voter)
  PROVE  WaitingInv'
  <1> USE DEF EnclaveInv, ServersOK
  <1>1. /\ UNCHANGED <<leaf, disk, session, network, serial>>
        /\ request[r] = Idle
        /\ \A q \in Requests \ {r} : request'[q] = request[q]
    BY ClientHandler DEF chainVars, EnclaveTypeOK, ClientStep, Identify, Register, Vote
  <1> SUFFICES ASSUME serial PROVE WaitingInv'
    BY <1>1 DEF WaitingInv
  <1>2. \A q \in Requests : Active(q) => request[q].voter # voter
    BY DEF ClientStep, Identify, Register, Vote, MayStart
  <1>3. \A u \in Units, v \in Voters : SameEntry(u, v)
    BY <1>1 DEF SameEntry
  <1>4. \A u \in Units : EntryTrue(u, voter)'
    BY <1>3, EntryStays DEF WaitingInv
  <1>5. \A tx \in network : tx.from # r
    BY <1>1 DEF TransactionsMatch
  <1>6. request'[r].voter = voter /\ HandlerTrue(r)'
    <2>1. CASE Identify(r, unit, voter)
      <3>1. request'[r].kind = "identify" /\ request'[r].leafIndex = NoLeaf
            /\ request'[r].voter = voter
        BY <2>1 DEF Identify, EnclaveTypeOK
      <3>2. QED
        BY <3>1 DEF HandlerTrue, HoldsLeaf
    <2>2. CASE Register(r, unit, voter)
      <3>1. /\ request'[r].kind = "register" /\ request'[r].pc = "fetch"
            /\ request'[r].unit = unit /\ request'[r].voter = voter
            /\ ~HasLeaf(unit, voter)
        BY <2>2 DEF Register, EnclaveTypeOK
      <3>2. QED
        BY <1>1, <3>1 DEF HandlerTrue, HoldsLeaf, HasLeaf
    <2>3. ASSUME NEW candidate \in CandidateIds, Vote(r, unit, voter, candidate)
          PROVE  request'[r].voter = voter /\ HandlerTrue(r)'
      <3>1. /\ request'[r].kind = "vote"
            /\ request'[r].unit = unit /\ request'[r].voter = voter
            /\ \/ request'[r].pc = "lookup"
               \/ HasLeaf(unit, voter) /\ request'[r].leafIndex = session[unit][voter]
        BY <2>3 DEF Vote, EnclaveTypeOK
      <3>2. HasLeaf(unit, voter) => LeafOfFile(unit, voter, session[unit][voter])
        BY DEF WaitingInv, EntryTrue
      <3>3. QED
        BY <1>1, <3>1, <3>2 DEF HandlerTrue, HoldsLeaf, LeafOfFile
    <2>4. QED
      BY <2>1, <2>2, <2>3 DEF ClientStep
  <1>7. QED
    BY <1>1, <1>2, <1>3, <1>4, <1>5, <1>6, OneVoterStep

\* What a registration and the handlers of its voter do between the leaf count
\* and the session: the file is replaced while no session of the voter has a
\* leaf, and gets its leaf index when the leaf is there.
LEMMA HandlerStepWaits ==
  ASSUME EnclaveInv, WaitingInv, [EnclaveNext]_vars, NEW r \in Requests,
         HandlerStep(r)
  PROVE  WaitingInv'
  <1> USE DEF EnclaveInv, ServersOK, At, Goto, Finish
  <1> DEFINE h == request[r]
  <1>1. Active(r) /\ UNCHANGED <<leaf, serial>>
    BY DEF HandlerStep, IdentifyOnDisk, WarmSession, FetchLeafCount, IssueAndSend,
           LoadCredential, SaveCredential, RecordSession, VoteFromDisk, SignAndSend,
           AnswerVote, Fail, chainVars
  <1> SUFFICES ASSUME serial PROVE WaitingInv'
    BY <1>1 DEF WaitingInv
  <1>2. PICK unit \in Units, voter \in Voters : unit = h.unit /\ voter = h.voter
    BY <1>1, HandlerOfKind, HandlerFields
  <1>3. /\ HandlerTrue(r)
        /\ \A u \in Units, v \in Voters : EntryTrue(u, v)
        /\ \A q \in Requests : Active(q) /\ request[q].voter = h.voter => q = r
    BY <1>1 DEF WaitingInv, OneRequestEach
  <1>4. ASSUME NEW g, request' = [request EXCEPT ![r] = g],
               \/ g = Done
               \/ g.unit = h.unit /\ g.voter = h.voter,
               \A u \in Units, v \in Voters :
                  u # h.unit \/ v # h.voter => SameEntry(u, v),
               \A tx \in network' : tx.from # r => tx \in network,
               \A tx \in network' : tx.from = r => TxTrue(tx)',
               HandlerTrue(r)', EntryTrue(unit, voter)'
        PROVE  WaitingInv'
    <2>1. request'[r] = g /\ \A q \in Requests \ {r} : request'[q] = request[q]
      BY <1>4 DEF EnclaveTypeOK
    <2>2. \A u \in Units : EntryTrue(u, voter)'
      BY <1>2, <1>3, <1>4, EntryStays
    <2> HIDE DEF h
    <2>3. QED
      BY <1>1, <1>2, <1>3, <1>4, <2>1, <2>2, OneVoterStep
  <1>5. ASSUME UNCHANGED <<disk, session, network>>, h.pc # "sent",
               NEW g, request' = [request EXCEPT ![r] = g],
               g.unit = h.unit /\ g.voter = h.voter,
               HandlerTrue(r)'
        PROVE  WaitingInv'
    <2>1. \A u \in Units, v \in Voters : SameEntry(u, v)
      BY <1>5 DEF SameEntry
    <2>2. EntryTrue(unit, voter)'
      BY <1>2, <1>3, <2>1, EntryStays
    <2>3. \A tx \in network : tx.from # r
      BY <1>1, <1>5, NothingUnderWay
    <2> HIDE DEF h
    <2>4. QED
      BY <1>4, <1>5, <2>1, <2>2, <2>3
  <1>6. CASE Fail(r)
    <2>1. \A u \in Units, v \in Voters : SameEntry(u, v)
      BY <1>6 DEF Fail, SameEntry
    <2>2. QED
      BY <1>1, <1>6, <2>1, QuietStep DEF Fail, EnclaveTypeOK
  <1>7. CASE FetchLeafCount(r)
    <2> DEFINE g == [h EXCEPT !.leafIndex = registry.leafCount, !.pc = "issue"]
    <2>1. /\ request' = [request EXCEPT ![r] = g]
          /\ UNCHANGED <<disk, session, network>>
          /\ h \in RegisterHandlers /\ h.pc = "fetch"
      BY <1>7, HandlerOfKind DEF FetchLeafCount
    <2>2. /\ g.kind = "register" /\ g.pc = "issue"
          /\ g.unit = h.unit /\ g.voter = h.voter
      BY <2>1 DEF RegisterHandlers
    <2>3. HandlerTrue(r)'
      <3>1. request'[r] = g
        BY <2>1 DEF EnclaveTypeOK
      <3>2. ~HasLeaf(h.unit, h.voter)
        BY <1>1, <1>3, <2>1 DEF HandlerTrue, RegisterHandlers
      <3> HIDE DEF g, h
      <3>3. QED
        BY <2>1, <2>2, <3>1, <3>2 DEF HandlerTrue, HoldsLeaf, HasLeaf
    <2> HIDE DEF g, h
    <2>4. QED
      BY <1>5, <2>1, <2>2, <2>3
  <1>8. CASE LoadCredential(r)
    <2> DEFINE g == [h EXCEPT !.credential = disk[h.unit][h.voter], !.pc = "loaded"]
    <2>1. /\ request' = [request EXCEPT ![r] = g]
          /\ UNCHANGED <<disk, session, network>>
          /\ h \in RegisterHandlers /\ h.pc = "landed"
      BY <1>8, HandlerOfKind DEF LoadCredential
    <2>2. /\ g.kind = "register" /\ g.pc = "loaded"
          /\ g.unit = h.unit /\ g.voter = h.voter /\ g.leafIndex = h.leafIndex
          /\ g.credential = disk[h.unit][h.voter]
      BY <2>1 DEF RegisterHandlers
    <2>3. HandlerTrue(r)'
      <3>1. request'[r] = g
        BY <2>1 DEF EnclaveTypeOK
      <3>2. ~HasLeaf(h.unit, h.voter) /\ LeafOfFile(h.unit, h.voter, h.leafIndex)
        BY <1>1, <1>3, <2>1 DEF HandlerTrue, HoldsLeaf, RegisterHandlers
      <3> HIDE DEF g, h
      <3>3. QED
        BY <1>1, <2>1, <2>2, <3>1, <3>2
        DEF HandlerTrue, HoldsLeaf, HasLeaf, LeafOfFile
    <2> HIDE DEF g, h
    <2>4. QED
      BY <1>5, <2>1, <2>2, <2>3
  <1>9. CASE SignAndSend(r)
    <2> DEFINE g == [h EXCEPT !.pc = "sent"]
    <2>1. /\ request' = [request EXCEPT ![r] = g]
          /\ UNCHANGED <<disk, session>>
          /\ h \in VoteHandlers /\ h.pc = "sign"
      BY <1>9, HandlerOfKind DEF SignAndSend
    <2>2. /\ g.kind = "vote" /\ g.pc = "sent"
          /\ g.unit = h.unit /\ g.voter = h.voter /\ g.leafIndex = h.leafIndex
      BY <2>1 DEF VoteHandlers
    <2>3. PICK sent : network' = network \cup {sent} /\ sent.from = r /\ sent.kind = "vote"
      BY <1>9, VoteSent
    <2>4. /\ \A tx \in network' : tx.from # r => tx \in network
          /\ \A tx \in network' : tx.from = r => tx.kind # "register"
      <3>1. Active(r) /\ request[r].pc # "sent"
        BY <1>9 DEF SignAndSend, At
      <3>2. \A tx \in network : tx.from # r
        BY <1>1, <3>1, NothingUnderWay
      <3>3. QED
        BY <2>3, <3>2
    <2>5. \A u \in Units, v \in Voters : SameEntry(u, v)
      BY <2>1 DEF SameEntry
    <2>6. EntryTrue(unit, voter)'
      BY <1>2, <1>3, <2>5, EntryStays
    <2>7. HandlerTrue(r)'
      <3>1. request'[r] = g
        BY <2>1 DEF EnclaveTypeOK
      <3>2. LeafOfFile(h.unit, h.voter, h.leafIndex)
        BY <1>1, <1>3, <2>1 DEF HandlerTrue, HoldsLeaf, VoteHandlers
      <3> HIDE DEF g, h
      <3>3. QED
        BY <1>1, <2>1, <2>2, <3>1, <3>2 DEF HandlerTrue, HoldsLeaf, LeafOfFile
    <2> HIDE DEF g, h
    <2>8. QED
      BY <1>4, <2>1, <2>2, <2>3, <2>4, <2>5, <2>6, <2>7 DEF TxTrue
  <1>10. CASE IdentifyOnDisk(r) \/ VoteFromDisk(r)
    <2> DEFINE i == DiskLeaf(h.unit, h.voter)
    <2>1. /\ UNCHANGED <<disk, session, network>>
          /\ h \in IdentifyHandlers \cup VoteHandlers /\ h.pc = "lookup"
      BY <1>10, HandlerOfKind DEF IdentifyOnDisk, VoteFromDisk
    <2>2. CASE request' = [request EXCEPT ![r] = Done]
      <3>1. HandlerTrue(r)'
        BY <2>2 DEF HandlerTrue, Active, EnclaveTypeOK
      <3>2. \A u \in Units, v \in Voters : SameEntry(u, v)
        BY <2>1 DEF SameEntry
      <3>3. QED
        BY <1>1, <2>1, <2>2, <3>2, QuietStep DEF EnclaveTypeOK
    <2>3. CASE \E p \in {"warm", "sign"} :
                 /\ request' = [request EXCEPT ![r] = [h EXCEPT !.leafIndex = i, !.pc = p]]
                 /\ i # NoLeaf \/ h.kind = "identify"
      <3>1. PICK p \in {"warm", "sign"} :
              /\ request' = [request EXCEPT ![r] = [h EXCEPT !.leafIndex = i, !.pc = p]]
              /\ i # NoLeaf \/ h.kind = "identify"
        BY <2>3
      <3> DEFINE g == [h EXCEPT !.leafIndex = i, !.pc = p]
      <3>2. /\ g.kind = h.kind /\ g.kind # "register"
            /\ g.unit = h.unit /\ g.voter = h.voter /\ g.leafIndex = i
        BY <2>1 DEF IdentifyHandlers, VoteHandlers
      <3>3. request'[r] = g
        BY <3>1 DEF EnclaveTypeOK
      <3>4. i # NoLeaf => LeafOfFile(h.unit, h.voter, i)
        BY <1>2, <1>3 DEF EntryTrue
      <3>5. request' = [request EXCEPT ![r] = g]
        BY <3>1
      <3>6. h.pc # "sent"
        BY <2>1
      <3>7. (i # NoLeaf \/ g.kind = "identify") /\ (HoldsLeaf(g) => i # NoLeaf)
        BY <3>1, <3>2 DEF HoldsLeaf
      <3> HIDE DEF g, h, i
      <3>8. HandlerTrue(r)'
        BY <1>1, <2>1, <3>2, <3>3, <3>4, <3>7
        DEF HandlerTrue, HoldsLeaf, LeafOfFile
      <3>9. QED
        BY <1>5, <2>1, <3>2, <3>5, <3>6, <3>8
    <2>4. QED
      BY <1>10, <2>2, <2>3 DEF IdentifyOnDisk, VoteFromDisk
  <1>11. ASSUME NEW i, UNCHANGED <<disk, network>>, h.pc # "sent",
                request' = [request EXCEPT ![r] = Done],
                session' = [session EXCEPT ![h.unit][h.voter] = i],
                i \in Nat => LeafOfFile(h.unit, h.voter, i)
         PROVE  WaitingInv'
    <2>1. \A u \in Units, v \in Voters :
            u # h.unit \/ v # h.voter => SameEntry(u, v)
      BY <1>2, <1>11 DEF SameEntry, EnclaveTypeOK
    <2>2. EntryTrue(unit, voter)'
      <3>1. session'[unit][voter] = i
        BY <1>2, <1>11 DEF EnclaveTypeOK
      <3>2. EntryTrue(unit, voter)
        BY <1>3
      <3>3. QED
        BY <1>1, <1>2, <1>11, <3>1, <3>2
        DEF EntryTrue, HasLeaf, DiskLeaf, LeafOfFile
    <2>3. HandlerTrue(r)'
      BY <1>11 DEF HandlerTrue, Active, EnclaveTypeOK
    <2>4. \A tx \in network : tx.from # r
      BY <1>1, <1>11, NothingUnderWay
    <2> HIDE DEF h
    <2>5. QED
      BY <1>4, <1>11, <2>1, <2>2, <2>3, <2>4
  <1>12. CASE WarmSession(r)
    <2> DEFINE i == IF session[h.unit][h.voter] \in Nat THEN session[h.unit][h.voter]
                    ELSE h.leafIndex
    <2>1. /\ UNCHANGED <<disk, network>> /\ h.pc # "sent"
          /\ request' = [request EXCEPT ![r] = Done]
          /\ session' = [session EXCEPT ![h.unit][h.voter] = i]
          /\ h.kind = "identify"
      BY <1>12 DEF WarmSession
    <2>2. h.leafIndex \in Nat => LeafOfFile(h.unit, h.voter, h.leafIndex)
      BY <1>1, <1>3, <2>1, EnclaveAssumption DEF HandlerTrue, HoldsLeaf
    <2>3. session[h.unit][h.voter] \in Nat =>
            LeafOfFile(h.unit, h.voter, session[h.unit][h.voter])
      BY <1>2, <1>3 DEF EntryTrue, HasLeaf
    <2>4. i \in Nat => LeafOfFile(h.unit, h.voter, i)
      BY <2>2, <2>3
    <2> HIDE DEF h, i
    <2>5. QED
      BY <1>11, <2>1, <2>4
  <1>13. CASE RecordSession(r)
    <2>1. /\ UNCHANGED <<disk, network>> /\ h.pc # "sent"
          /\ request' = [request EXCEPT ![r] = Done]
          /\ session' = [session EXCEPT ![h.unit][h.voter] = h.leafIndex]
      BY <1>13 DEF RecordSession
    <2>2. LeafOfFile(h.unit, h.voter, h.leafIndex)
      BY <1>1, <1>3, <1>13 DEF RecordSession, HandlerTrue, HoldsLeaf
    <2> HIDE DEF h
    <2>3. QED
      BY <1>11, <2>1, <2>2
  <1>14. CASE AnswerVote(r)
    <2> DEFINE i == IF session[h.unit][h.voter] = NoLeaf THEN h.leafIndex
                    ELSE session[h.unit][h.voter]
    <2>1. /\ UNCHANGED <<disk, network>> /\ h.pc # "sent"
          /\ request' = [request EXCEPT ![r] = Done]
          /\ session' = [session EXCEPT ![h.unit][h.voter] = i]
      BY <1>14 DEF AnswerVote
    <2>2. LeafOfFile(h.unit, h.voter, h.leafIndex)
      BY <1>1, <1>3, <1>14 DEF AnswerVote, HandlerTrue, HoldsLeaf
    <2>3. session[h.unit][h.voter] \in Nat =>
            LeafOfFile(h.unit, h.voter, session[h.unit][h.voter])
      BY <1>2, <1>3 DEF EntryTrue, HasLeaf
    <2>4. i \in Nat => LeafOfFile(h.unit, h.voter, i)
      BY <2>2, <2>3
    <2> HIDE DEF h, i
    <2>5. QED
      BY <1>11, <2>1, <2>4
  <1>15. CASE IssueAndSend(r)
    <2> DEFINE c == [voter |-> h.voter, state |-> PollingState[h.unit],
                     blinding |-> issued]
               file == [commitment |-> c, leafIndex |-> NoLeaf]
               g == [h EXCEPT !.pc = "sent"]
               sent == [kind |-> "register", from |-> r, index |-> h.leafIndex,
                        commitment |-> c]
    <2>1. /\ UNCHANGED session
          /\ disk' = [disk EXCEPT ![h.unit][h.voter] = file]
          /\ request' = [request EXCEPT ![r] = g]
          /\ network' = network \cup {sent}
          /\ h \in RegisterHandlers /\ h.pc = "issue"
      BY <1>15, HandlerOfKind DEF IssueAndSend
    <2>2. /\ g.kind = "register" /\ g.pc = "sent"
          /\ g.unit = h.unit /\ g.voter = h.voter
      BY <2>1 DEF RegisterHandlers
    <2>3. file \in Credentials /\ file.leafIndex = NoLeaf /\ file.commitment = c
      BY <1>2, <1>15, EnclaveAssumption
      DEF IssueAndSend, Credentials, Commitments, LeafIndices
    <2>4. ~HasLeaf(h.unit, h.voter)
      BY <1>1, <1>3, <2>1 DEF HandlerTrue, RegisterHandlers
    <2>5. \A tx \in network' : /\ tx.from # r => tx \in network
                               /\ tx.from = r => tx = sent
      BY <1>1, <2>1, NothingUnderWay
    <2>6. sent.commitment = c
      OBVIOUS
    <2> HIDE DEF c, file, g, h, sent
    <2>7. request'[r] = g /\ disk'[h.unit][h.voter] = file
      BY <1>2, <2>1 DEF EnclaveTypeOK
    <2>8. \A u \in Units, v \in Voters :
            u # h.unit \/ v # h.voter => SameEntry(u, v)
      BY <1>2, <2>1 DEF SameEntry, EnclaveTypeOK
    <2>9. EntryTrue(unit, voter)'
      BY <1>2, <2>1, <2>3, <2>4, <2>7, EnclaveAssumption
      DEF EntryTrue, HasLeaf, DiskLeaf
    <2>10. HandlerTrue(r)'
      BY <2>1, <2>2, <2>4, <2>7 DEF HandlerTrue, HoldsLeaf, HasLeaf
    <2>11. \A tx \in network' : tx.from = r => TxTrue(tx)'
      BY <2>2, <2>3, <2>5, <2>6, <2>7, EnclaveAssumption DEF TxTrue
    <2>12. QED
      BY <1>4, <2>1, <2>2, <2>5, <2>8, <2>9, <2>10, <2>11
  <1>16. CASE SaveCredential(r)
    <2> DEFINE file == [h.credential EXCEPT !.leafIndex = h.leafIndex]
               g == [h EXCEPT !.pc = "saved"]
    <2>1. /\ UNCHANGED <<session, network>>
          /\ request' = [request EXCEPT ![r] = g]
          /\ h \in RegisterHandlers /\ h.pc = "loaded"
          /\ \/ UNCHANGED disk
             \/ /\ h.credential # NoFile
                /\ disk' = [disk EXCEPT ![h.unit][h.voter] = file]
      BY <1>16, HandlerOfKind DEF SaveCredential
    <2>2. /\ g.kind = "register" /\ g.pc = "saved"
          /\ g.unit = h.unit /\ g.voter = h.voter /\ g.leafIndex = h.leafIndex
      BY <2>1 DEF RegisterHandlers
    <2>3. h.credential # NoFile =>
            /\ file \in Credentials /\ file.leafIndex = h.leafIndex
            /\ file.commitment = h.credential.commitment
      BY <2>1 DEF RegisterHandlers, Credentials
    <2>4. /\ ~HasLeaf(h.unit, h.voter)
          /\ LeafOfFile(h.unit, h.voter, h.leafIndex)
          /\ h.credential = disk[h.unit][h.voter]
      BY <1>1, <1>3, <2>1 DEF HandlerTrue, HoldsLeaf, RegisterHandlers
    <2>5. \A tx \in network : tx.from # r
      BY <1>1, <2>1, NothingUnderWay
    <2> HIDE DEF file, g, h
    <2>6. /\ request'[r] = g
          /\ disk'[h.unit][h.voter] \in {disk[h.unit][h.voter], file}
      BY <1>2, <2>1 DEF EnclaveTypeOK
    <2>7. /\ disk'[unit][voter] # NoFile
          /\ disk'[unit][voter].commitment = disk[unit][voter].commitment
      BY <1>2, <2>3, <2>4, <2>6, EnclaveAssumption DEF LeafOfFile
    <2>8. /\ h.leafIndex \in DOMAIN leaf
          /\ leaf[h.leafIndex] = disk'[unit][voter].commitment
      BY <1>2, <2>4, <2>7 DEF LeafOfFile
    <2>9. HandlerTrue(r)'
      BY <1>1, <1>2, <2>1, <2>2, <2>4, <2>6, <2>7, <2>8
      DEF HandlerTrue, HoldsLeaf, HasLeaf, LeafOfFile
    <2>10. EntryTrue(unit, voter)'
      <3>1. disk'[unit][voter].leafIndex \in {disk[unit][voter].leafIndex, h.leafIndex}
        BY <1>2, <2>3, <2>4, <2>6 DEF LeafOfFile
      <3>2. disk[unit][voter] # NoFile /\ EntryTrue(unit, voter)
        BY <1>2, <1>3, <2>4 DEF LeafOfFile
      <3>3. QED
        BY <1>1, <1>2, <2>1, <2>4, <2>7, <2>8, <3>1, <3>2
        DEF EntryTrue, HasLeaf, DiskLeaf, LeafOfFile
    <2>11. \A u \in Units, v \in Voters :
             u # h.unit \/ v # h.voter => SameEntry(u, v)
      BY <1>2, <2>1 DEF SameEntry, EnclaveTypeOK
    <2>12. QED
      BY <1>4, <2>1, <2>2, <2>5, <2>9, <2>10, <2>11
  <1>17. QED
    BY <1>6, <1>7, <1>8, <1>9, <1>10, <1>12, <1>13, <1>14, <1>15, <1>16
    DEF HandlerStep

\* The leaf that lands is that of the commitment in its sender's file.
LEMMA LandWaits ==
  ASSUME EnclaveInv, WaitingInv, [EnclaveNext]_vars, NEW tx \in network, Land(tx)
  PROVE  WaitingInv'
  <1> USE DEF EnclaveInv, ServersOK
  <1> DEFINE r == tx.from
  <1>1. UNCHANGED <<disk, session, serial>> /\ network' = network \ {tx}
    BY DEF Land
  <1>2. \A u \in Units, v \in Voters : SameEntry(u, v)
    BY <1>1 DEF SameEntry
  <1>3. CASE ~Active(r)
    BY <1>1, <1>2, <1>3, QuietStep DEF Land
  <1>4. CASE serial /\ Active(r)
    <2> DEFINE h == request[r]
               g == [h EXCEPT !.pc = "landed"]
    <2>1. /\ r \in Requests /\ h \in Handlers
          /\ request' = [request EXCEPT ![r] = g]
      BY <1>4, TxSender, HandlerOfKind DEF Land, Goto
    <2>2. PICK unit \in Units, voter \in Voters : unit = h.unit /\ voter = h.voter
      BY <2>1, HandlerFields
    <2>3. /\ g.kind = h.kind /\ g.pc = "landed" /\ g.leafIndex = h.leafIndex
          /\ g.unit = unit /\ g.voter = voter
      BY <2>1, <2>2 DEF Handlers, IdentifyHandlers, RegisterHandlers, VoteHandlers
    <2>4. /\ h.kind = tx.kind /\ h.pc = "sent" /\ tx.kind \in {"register", "vote"}
          /\ tx.kind = "register" => h.leafIndex = tx.index
          /\ \A t \in network' : t.from # r
      BY <1>1, <1>4 DEF TransactionsMatch, Land
    <2>5. \A q \in Requests : Active(q) /\ request[q].voter = voter => q = r
      BY <1>4, <2>1, <2>2 DEF WaitingInv, OneRequestEach
    <2>6. request'[r] = g /\ \A q \in Requests \ {r} : request'[q] = request[q]
      BY <2>1 DEF EnclaveTypeOK
    <2>7. LeafOfFile(unit, voter, h.leafIndex) \/ h.kind = "register"
      BY <1>4, <2>1, <2>2, <2>4 DEF WaitingInv, HandlerTrue, HoldsLeaf
    <2>8. /\ disk[unit][voter] # NoFile
          /\ h.leafIndex \in DOMAIN leaf'
          /\ leaf'[h.leafIndex] = disk[unit][voter].commitment
      <3>1. CASE tx.kind = "register"
        <4>1. RegisterStep(tx.index, tx.commitment)
          BY <3>1 DEF Land
        <4>2. tx.index \in DOMAIN leaf' /\ leaf'[tx.index] = tx.commitment
          BY <4>1 DEF RegisterStep, InsertCommitment
        <4>3. QED
          BY <1>4, <2>2, <2>4, <3>1, <4>2 DEF WaitingInv, TxTrue
      <3>2. CASE tx.kind = "vote"
        BY <2>4, <2>7, <3>2, EnclaveInvStep, LeavesStay DEF LeafOfFile
      <3>3. QED
        BY <2>4, <3>1, <3>2
    <2>9. h.kind = "register" => ~HasLeaf(unit, voter)
      BY <1>4, <2>1, <2>2 DEF WaitingInv, HandlerTrue
    <2>10. \A u \in Units : EntryTrue(u, voter)'
      BY <1>2, <1>4, EntryStays DEF WaitingInv
    <2> HIDE DEF g, h, r
    <2>11. HandlerTrue(r)'
      BY <1>1, <2>3, <2>6, <2>8, <2>9 DEF HandlerTrue, LeafOfFile, HasLeaf
    <2>12. QED
      BY <1>1, <1>2, <1>4, <2>1, <2>3, <2>4, <2>5, <2>6, <2>10, <2>11, OneVoterStep
  <1>5. QED
    BY <1>1, <1>3, <1>4 DEF WaitingInv

LEMMA WaitingStep ==
  EnclaveInv /\ WaitingInv /\ [EnclaveNext]_vars => WaitingInv'
  <1> SUFFICES ASSUME EnclaveInv, WaitingInv, [EnclaveNext]_vars
               PROVE  WaitingInv'
    OBVIOUS
  <1>1. ASSUME UNCHANGED <<disk, session, request, serial>>, network' \subseteq network
        PROVE  WaitingInv'
    BY <1>1, QuietStep DEF SameEntry
  <1>2. ASSUME NEW unit \in Units, Restart(unit)
        PROVE  WaitingInv'
    <2>1. \A q \in Requests : request'[q] \in {request[q], Done}
      BY <1>2 DEF Restart, EnclaveInv, ServersOK, EnclaveTypeOK
    <2>2. \A u \in Units, v \in Voters : SameEntry(u, v)
      BY <1>2 DEF Restart, SameEntry, EnclaveInv, ServersOK, EnclaveTypeOK
    <2>3. QED
      BY <1>2, <2>1, <2>2, QuietStep DEF Restart
  <1>3. ASSUME NEW tx \in network, Lose(tx)
        PROVE  WaitingInv'
    BY <1>1, <1>3 DEF Lose
  <1>4. CASE Administer \/ UNCHANGED vars
    BY <1>1, <1>4 DEF Administer, enclaveVars, vars
  <1>5. QED
    BY <1>2, <1>3, <1>4, ClientStepWaits, HandlerStepWaits, LandWaits DEF EnclaveNext

\* Whoever a session takes for registered can vote, if clients wait: the
\* commitment that the HSM would sign is that of the voter's leaf, however often
\* a registration failed half-way, landed late or was repeated.
THEOREM EnclaveRegisteredCanVote == EnclaveSpec => []RegisteredCanVote
  <1>1. WaitingInv => RegisteredCanVote
    BY DEF WaitingInv, EntryTrue, LeafOfFile, RegisteredCanVote
  <1>2. QED
    BY <1>1, EnclaveInvInit, EnclaveInvStep, WaitingInit, WaitingStep, PTL
    DEF EnclaveSpec

\* The leaf index in a credential file is that of the file's commitment, if
\* clients wait, whatever fails between the three writes of a registration.
THEOREM EnclaveWaitingKeepsFilesTrue == EnclaveSpec => []WaitingKeepsFilesTrue
  <1>1. WaitingInv => WaitingKeepsFilesTrue
    BY DEF WaitingInv, EntryTrue, LeafOfFile, WaitingKeepsFilesTrue, FileNamesItsLeaf
  <1>2. QED
    BY <1>1, EnclaveInvInit, EnclaveInvStep, WaitingInit, WaitingStep, PTL
    DEF EnclaveSpec
=============================================================================
