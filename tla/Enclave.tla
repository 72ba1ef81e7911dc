------------------------------ MODULE Enclave -------------------------------
(***************************************************************************)
(* The enclave servers, one per polling unit, in front of the chain.  Each *)
(* keeps a session per voter in memory and a credential file per voter on  *)
(* disk, and serves requests concurrently; a handler is cut into steps at  *)
(* every await, RPC call and file operation after which another handler's  *)
(* step can be observed.                                                   *)
(*                                                                         *)
(* A transaction travels through the network on its own: it may land late, *)
(* land although its sender has been told that it failed, or never land,   *)
(* and it survives the restart of the server that sent it.                 *)
(***************************************************************************)
EXTENDS Chain

CONSTANTS
    Units,         \* polling units, one enclave server each
    PollingState,  \* the state in which a unit lies
    HsmKey,        \* the ballot-signing key in the HSM's root slot
    Requests,      \* identities of the requests clients send
    MaxRestarts,   \* bound on the restarts of servers
    NoFile, NoSession, NoLeaf, Idle, Done

LeafIndices == Nat \cup {NoLeaf}

\* VoterCredential: what the file of a voter holds.
Credentials == [commitment : Commitments, leafIndex : LeafIndices]

ASSUME EnclaveAssumption ==
    /\ PollingState \in [Units -> StateIds]
    /\ HsmKey \in Keys
    /\ MaxRestarts \in Nat
    /\ NoLeaf \notin Nat /\ NoSession \notin LeafIndices
    /\ NoFile \notin Credentials

VARIABLES
    disk,      \* the credential files: unit, voter -> credential
    session,   \* the session maps: unit, voter -> leaf index
    request,   \* the requests in flight and their handlers' local variables
    network,   \* transactions sent, neither landed nor lost
    issued,    \* commitments issued so far; the next one's blinding
    restarts,  \* restarts so far
    serial     \* clients wait for an answer before the next request for a
               \* voter; chosen once

enclaveVars == <<disk, session, request, network, issued, restarts, serial>>
vars == <<chainVars, enclaveVars>>

RegisterTxs == [kind : {"register"}, from : Requests, index : Nat,
                commitment : Commitments]
VoteTxs == [kind : {"vote"}, from : Requests, index : Nat, auth : Authorisations,
            candidate : CandidateIds, state : StateIds]

IdentifyHandlers ==
    [kind : {"identify"}, pc : {"lookup", "warm"}, unit : Units, voter : Voters,
     leafIndex : LeafIndices]

RegisterHandlers ==
    {h \in [kind : {"register"},
            pc : {"fetch", "issue", "sent", "landed", "loaded", "saved"},
            unit : Units, voter : Voters, leafIndex : LeafIndices,
            credential : Credentials \cup {NoFile}] :
       h.pc # "fetch" => h.leafIndex \in Nat}

VoteHandlers ==
    {h \in [kind : {"vote"}, pc : {"lookup", "sign", "sent", "landed"},
            unit : Units, voter : Voters, leafIndex : LeafIndices,
            candidate : CandidateIds] :
       h.pc # "lookup" => h.leafIndex \in Nat}

Handlers == IdentifyHandlers \cup RegisterHandlers \cup VoteHandlers

ASSUME HandlersAssumption == Idle # Done /\ {Idle, Done} \cap Handlers = {}

EnclaveTypeOK ==
    /\ disk \in [Units -> [Voters -> Credentials \cup {NoFile}]]
    /\ session \in [Units -> [Voters -> LeafIndices \cup {NoSession}]]
    /\ request \in [Requests -> Handlers \cup {Idle, Done}]
    /\ network \subseteq RegisterTxs \cup VoteTxs
    /\ issued \in Nat
    /\ restarts \in 0..MaxRestarts

EnclaveInit ==
    /\ ChainInit
    /\ disk = [unit \in Units |-> [voter \in Voters |-> NoFile]]
    /\ session = [unit \in Units |-> [voter \in Voters |-> NoSession]]
    /\ request = [r \in Requests |-> Idle]
    /\ network = {}
    /\ issued = 0
    /\ restarts = 0
    /\ serial \in BOOLEAN

-----------------------------------------------------------------------------
(* Requests *)

Active(r) == request[r] \notin {Idle, Done}

At(r, kind, pc) ==
    /\ Active(r)
    /\ request[r].kind = kind
    /\ request[r].pc = pc

\* The enclaves are started once the election, the voter registry, the tally
\* and the roster are in place.
Deployed ==
    /\ election.phase >= REG_OPEN
    /\ registry.created
    /\ tally.created

MayStart(r, voter) ==
    /\ Deployed
    /\ request[r] = Idle
    /\ serial => \A q \in Requests : Active(q) => request[q].voter # voter

HasLeaf(unit, voter) == session[unit][voter] \in Nat

\* The leaf index in the voter's file, if there is one.
DiskLeaf(unit, voter) ==
    IF disk[unit][voter] = NoFile THEN NoLeaf ELSE disk[unit][voter].leafIndex

Goto(r, pc) == request' = [request EXCEPT ![r].pc = pc]
Finish(r) == request' = [request EXCEPT ![r] = Done]

-----------------------------------------------------------------------------
(* handle_identify *)

\* Looks the voter up in the session map...
Identify(r, unit, voter) ==
    /\ MayStart(r, voter)
    /\ request' =
         [request EXCEPT ![r] =
            [kind |-> "identify", unit |-> unit, voter |-> voter, leafIndex |-> NoLeaf,
             pc |-> IF HasLeaf(unit, voter) THEN "warm" ELSE "lookup"]]
    /\ UNCHANGED <<chainVars, disk, session, network, issued, restarts, serial>>

\* ... and without a leaf there, on disk.
IdentifyOnDisk(r) ==
    /\ At(r, "identify", "lookup")
    /\ LET h == request[r]
       IN  request' = [request EXCEPT ![r].leafIndex = DiskLeaf(h.unit, h.voter),
                                      ![r].pc = "warm"]
    /\ UNCHANGED <<chainVars, disk, session, network, issued, restarts, serial>>

\* Creates the session, or warms one that has no leaf, from what it read.
WarmSession(r) ==
    /\ At(r, "identify", "warm")
    /\ LET h == request[r]
       IN  session' = [session EXCEPT ![h.unit][h.voter] =
                         IF @ \in Nat THEN @ ELSE h.leafIndex]
    /\ Finish(r)
    /\ UNCHANGED <<chainVars, disk, network, issued, restarts, serial>>

-----------------------------------------------------------------------------
(* handle_register *)

\* Variant: does not ask whether the voter is registered.
RegisterAgain(r, unit, voter) ==
    /\ MayStart(r, voter)
    /\ request' =
         [request EXCEPT ![r] =
            [kind |-> "register", pc |-> "fetch", unit |-> unit, voter |-> voter,
             leafIndex |-> NoLeaf, credential |-> NoFile]]
    /\ UNCHANGED <<chainVars, disk, session, network, issued, restarts, serial>>

\* Only the session map is asked whether the voter is registered already.
Register(r, unit, voter) ==
    /\ MayStart(r, voter)
    /\ ~HasLeaf(unit, voter)
    /\ request' =
         [request EXCEPT ![r] =
            [kind |-> "register", pc |-> "fetch", unit |-> unit, voter |-> voter,
             leafIndex |-> NoLeaf, credential |-> NoFile]]
    /\ UNCHANGED <<chainVars, disk, session, network, issued, restarts, serial>>

FetchLeafCount(r) ==
    /\ At(r, "register", "fetch")
    /\ registry.created
    /\ request' = [request EXCEPT ![r].leafIndex = registry.leafCount,
                                  ![r].pc = "issue"]
    /\ UNCHANGED <<chainVars, disk, session, network, issued, restarts, serial>>

\* Variant: saves the leaf index before the transaction is confirmed.
IssueAndSendIndexed(r) ==
    /\ At(r, "register", "issue")
    /\ issued \in Blindings
    /\ LET h == request[r]
           commitment == [voter |-> h.voter, state |-> PollingState[h.unit],
                          blinding |-> issued]
       IN  /\ disk' = [disk EXCEPT ![h.unit][h.voter] =
                         [commitment |-> commitment, leafIndex |-> h.leafIndex]]
           /\ network' = network \cup
                {[kind |-> "register", from |-> r, index |-> h.leafIndex,
                  commitment |-> commitment]}
    /\ issued' = issued + 1
    /\ Goto(r, "sent")
    /\ UNCHANGED <<chainVars, session, restarts, serial>>

\* Issues a credential under a fresh blinding, replaces the voter's file with
\* it, and sends the transaction that inserts its commitment.  The attestation
\* is verified against the credential just issued.
IssueAndSend(r) ==
    /\ At(r, "register", "issue")
    /\ issued \in Blindings
    /\ LET h == request[r]
           commitment == [voter |-> h.voter, state |-> PollingState[h.unit],
                          blinding |-> issued]
       IN  /\ disk' = [disk EXCEPT ![h.unit][h.voter] =
                         [commitment |-> commitment, leafIndex |-> NoLeaf]]
           /\ network' = network \cup
                {[kind |-> "register", from |-> r, index |-> h.leafIndex,
                  commitment |-> commitment]}
    /\ issued' = issued + 1
    /\ Goto(r, "sent")
    /\ UNCHANGED <<chainVars, session, restarts, serial>>

\* After the confirmation: load the voter's file, whatever it holds by now...
LoadCredential(r) ==
    /\ At(r, "register", "landed")
    /\ LET h == request[r]
       IN  request' = [request EXCEPT ![r].credential = disk[h.unit][h.voter],
                                      ![r].pc = "loaded"]
    /\ UNCHANGED <<chainVars, disk, session, network, issued, restarts, serial>>

\* ... and save it with the leaf index; an error here is ignored.
SaveCredential(r) ==
    /\ At(r, "register", "loaded")
    /\ LET h == request[r]
       IN  \/ /\ h.credential # NoFile
              /\ disk' = [disk EXCEPT ![h.unit][h.voter] =
                            [h.credential EXCEPT !.leafIndex = h.leafIndex]]
           \/ UNCHANGED disk
    /\ Goto(r, "saved")
    /\ UNCHANGED <<chainVars, session, network, issued, restarts, serial>>

\* Variant: records the last leaf at this time, not the one it asked for.
RecordSessionFromCount(r) ==
    /\ At(r, "register", "saved")
    /\ LET h == request[r]
       IN  session' = [session EXCEPT ![h.unit][h.voter] = registry.leafCount - 1]
    /\ Finish(r)
    /\ UNCHANGED <<chainVars, disk, network, issued, restarts, serial>>

RecordSession(r) ==
    /\ At(r, "register", "saved")
    /\ LET h == request[r]
       IN  session' = [session EXCEPT ![h.unit][h.voter] = h.leafIndex]
    /\ Finish(r)
    /\ UNCHANGED <<chainVars, disk, network, issued, restarts, serial>>

-----------------------------------------------------------------------------
(* handle_vote *)

\* The leaf index comes from the session...
Vote(r, unit, voter, candidate) ==
    /\ MayStart(r, voter)
    /\ LET known == HasLeaf(unit, voter)
       IN  request' =
             [request EXCEPT ![r] =
                [kind |-> "vote", unit |-> unit, voter |-> voter,
                 candidate |-> candidate,
                 pc |-> IF known THEN "sign" ELSE "lookup",
                 leafIndex |-> IF known THEN session[unit][voter] ELSE NoLeaf]]
    /\ UNCHANGED <<chainVars, disk, session, network, issued, restarts, serial>>

\* Variant: does not refuse a voter without a leaf index.
VoteUnregistered(r) ==
    /\ At(r, "vote", "lookup")
    /\ LET h == request[r]
       IN  request' = [request EXCEPT ![r].leafIndex = DiskLeaf(h.unit, h.voter),
                                      ![r].pc = "sign"]
    /\ UNCHANGED <<chainVars, disk, session, network, issued, restarts, serial>>

\* ... or else from disk; without one the voter is refused.
VoteFromDisk(r) ==
    /\ At(r, "vote", "lookup")
    /\ LET index == DiskLeaf(request[r].unit, request[r].voter)
       IN  \/ /\ index # NoLeaf
              /\ request' = [request EXCEPT ![r].leafIndex = index, ![r].pc = "sign"]
           \/ /\ index = NoLeaf
              /\ Finish(r)
    /\ UNCHANGED <<chainVars, disk, session, network, issued, restarts, serial>>

\* Variant: the nullifier is not tied to the voter whose file is used.
SignAnyNullifier(r) ==
    /\ At(r, "vote", "sign")
    /\ LET h == request[r]
           credential == disk[h.unit][h.voter]
       IN  /\ credential # NoFile
           /\ \E other \in Voters :
                network' = network \cup
                  {[kind |-> "vote", from |-> r, index |-> h.leafIndex,
                    auth |-> [key |-> HsmKey, nullifier |-> other,
                              commitment |-> credential.commitment],
                    candidate |-> h.candidate,
                    state |-> credential.commitment.state]}
    /\ Goto(r, "sent")
    /\ UNCHANGED <<chainVars, disk, session, issued, restarts, serial>>

\* Variant: the ballot's state is the voter's home state.
SignHomeState(r) ==
    /\ At(r, "vote", "sign")
    /\ LET h == request[r]
           credential == disk[h.unit][h.voter]
       IN  /\ credential # NoFile
           /\ \E home \in StateIds :
                network' = network \cup
                  {[kind |-> "vote", from |-> r, index |-> h.leafIndex,
                    auth |-> [key |-> HsmKey, nullifier |-> h.voter,
                              commitment |-> credential.commitment],
                    candidate |-> h.candidate,
                    state |-> home]}
    /\ Goto(r, "sent")
    /\ UNCHANGED <<chainVars, disk, session, issued, restarts, serial>>

\* Loads the credential, has the HSM sign the voter's nullifier with the
\* commitment in it, and sends the ballot with the credential's state.
SignAndSend(r) ==
    /\ At(r, "vote", "sign")
    /\ LET h == request[r]
           credential == disk[h.unit][h.voter]
       IN  /\ credential # NoFile
           /\ network' = network \cup
                {[kind |-> "vote", from |-> r, index |-> h.leafIndex,
                  auth |-> [key |-> HsmKey, nullifier |-> h.voter,
                            commitment |-> credential.commitment],
                  candidate |-> h.candidate,
                  state |-> credential.commitment.state]}
    /\ Goto(r, "sent")
    /\ UNCHANGED <<chainVars, disk, session, issued, restarts, serial>>

\* A session without a leaf index receives it.
AnswerVote(r) ==
    /\ At(r, "vote", "landed")
    /\ LET h == request[r]
       IN  session' = [session EXCEPT ![h.unit][h.voter] =
                         IF @ = NoLeaf THEN h.leafIndex ELSE @]
    /\ Finish(r)
    /\ UNCHANGED <<chainVars, disk, network, issued, restarts, serial>>

-----------------------------------------------------------------------------
(* Failures and the network *)

\* An RPC call, the HSM or send_and_confirm returns an error, the latter also
\* while the transaction is still under way or after it has landed; or the
\* client has gone, and the handler is dropped where it awaits the sessions.
Fail(r) ==
    /\ Active(r)
    /\ request[r].pc # "loaded"
    /\ Finish(r)
    /\ UNCHANGED <<chainVars, disk, session, network, issued, restarts, serial>>

\* A transaction is executed; its sender, if it still waits, can see that.
Land(tx) ==
    /\ \/ /\ tx.kind = "register"
          /\ RegisterStep(tx.index, tx.commitment)
       \/ /\ tx.kind = "vote"
          /\ CastStep(tx.auth, tx.index, tx.candidate, tx.state)
    /\ network' = network \ {tx}
    /\ IF Active(tx.from) THEN Goto(tx.from, "landed") ELSE UNCHANGED request
    /\ UNCHANGED <<disk, session, issued, restarts, serial>>

\* A transaction is rejected or its blockhash expires.
Lose(tx) ==
    /\ network' = network \ {tx}
    /\ UNCHANGED <<chainVars, disk, session, request, issued, restarts, serial>>

\* The server of a unit restarts: the session map and the handlers are gone.
Restart(unit) ==
    /\ restarts < MaxRestarts
    /\ restarts' = restarts + 1
    /\ session' = [session EXCEPT ![unit] = [voter \in Voters |-> NoSession]]
    /\ request' = [r \in Requests |->
                     IF Active(r) /\ request[r].unit = unit THEN Done ELSE request[r]]
    /\ UNCHANGED <<chainVars, disk, network, issued, serial>>

\* The authority, the clock and whoever sends accumulate_votes go their own
\* way.
Administer ==
    /\ \/ ElectionStep \/ RegistrySetup \/ TallySetup \/ TallyFinalisation
       \/ \E candidate \in SentCandidates, state \in StateIds :
            DirectStep(candidate, state)
    /\ UNCHANGED enclaveVars

HandlerStep(r) ==
    \/ IdentifyOnDisk(r) \/ WarmSession(r)
    \/ FetchLeafCount(r) \/ IssueAndSend(r)
    \/ LoadCredential(r) \/ SaveCredential(r) \/ RecordSession(r)
    \/ VoteFromDisk(r) \/ SignAndSend(r) \/ AnswerVote(r)
    \/ Fail(r)

ClientStep(r, unit, voter) ==
    \/ Identify(r, unit, voter)
    \/ Register(r, unit, voter)
    \/ \E candidate \in CandidateIds : Vote(r, unit, voter, candidate)

EnclaveNext ==
    \/ Administer
    \/ \E r \in Requests, unit \in Units, voter \in Voters : ClientStep(r, unit, voter)
    \/ \E r \in Requests : HandlerStep(r)
    \/ \E tx \in network : Land(tx) \/ Lose(tx)
    \/ \E unit \in Units : Restart(unit)

EnclaveSpec == EnclaveInit /\ [][EnclaveNext]_vars

-----------------------------------------------------------------------------
(* Properties *)

OwnsLeaf(unit, voter, index) ==
    /\ index \in DOMAIN leaf
    /\ leaf[index].voter = voter
    /\ leaf[index].state = PollingState[unit]

\* The leaf index that a session or a credential file holds for a voter is
\* the index of a leaf that this unit created for this voter: however
\* registrations race for the next index, crash, or are confirmed late,
\* nobody is given somebody else's leaf.
LeafIndexOwned ==
    \A unit \in Units, voter \in Voters :
       \A index \in {session[unit][voter], DiskLeaf(unit, voter)} \ {NoLeaf, NoSession} :
          OwnsLeaf(unit, voter, index)

\* A ballot is counted under the polling unit where its voter enrolled, also
\* for a voter who enrolled at several units or several times.
BallotGeography ==
    \A n \in DOMAIN ballots :
       \E i \in DOMAIN leaf : leaf[i].voter = n /\ leaf[i].state = ballots[n].state

\* As long as clients wait for their answers, whoever a session takes for
\* registered can vote: the commitment that the HSM would sign is the one in
\* the leaf.
RegisteredCanVote ==
    serial => \A unit \in Units, voter \in Voters :
       HasLeaf(unit, voter) =>
          /\ session[unit][voter] \in DOMAIN leaf
          /\ disk[unit][voter] # NoFile
          /\ leaf[session[unit][voter]] = disk[unit][voter].commitment

\* "On-chain leaf index confirmed after successful insert_commitment tx": the
\* file's commitment is the leaf that its leaf index names.
FileNamesItsLeaf ==
    \A unit \in Units, voter \in Voters :
       DiskLeaf(unit, voter) # NoLeaf =>
          /\ DiskLeaf(unit, voter) \in DOMAIN leaf
          /\ leaf[DiskLeaf(unit, voter)] = disk[unit][voter].commitment

\* As long as clients wait for their answers, every file does, whatever fails or
\* restarts between the three writes of a registration.
WaitingKeepsFilesTrue == serial => FileNamesItsLeaf

\* The servers implement the chain's environment: whatever they do, crash or
\* repeat, the ledger sees the transactions of an honest deployment.
ImplementsChain == ChainSpec

-----------------------------------------------------------------------------
(* What the sources say and the servers do not do *)

\* "re-issue is NOT needed; the same leaf will be re-inserted idempotently":
\* a unit leaves at most one leaf for a voter whose client waits for answers.
OneLeafPerUnit ==
    serial => \A i, j \in DOMAIN leaf :
       leaf[i].voter = leaf[j].voter /\ leaf[i].state = leaf[j].state => i = j
=============================================================================
