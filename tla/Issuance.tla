------------------------------ MODULE Issuance ------------------------------
(***************************************************************************)
(* What the handlers of an enclave server do with the HSM and with a       *)
(* voter's credential file, before and after the network: a registration   *)
(* opens a context and a session of its own, issues the credential, saves  *)
(* it, verifies the attestation and logs out, sends, and saves again with  *)
(* the leaf index; a vote loads the file and signs in a session of its     *)
(* own.  Handlers run at the same time in one process.                     *)
(***************************************************************************)
EXTENDS KeyCeremony, CredentialFile

CONSTANTS
    MaxRequests,  \* bound on the requests
    MaxOutages    \* bound on the losses of power

ASSUME IssuanceAssumption ==
    /\ Writers = Clients
    /\ NoFile \notin Inodes
    /\ {NoFile, Empty, Garbage} \cap Credentials = {}
    /\ MaxRequests \in Nat /\ MaxOutages \in Nat

VARIABLES
    server,   \* "up" or "down"
    handler,  \* what each handler is doing
    serial,   \* the server is given one request at a time; chosen once
    requests, \* so far
    outages   \* losses of power so far

issuanceVars ==
    <<library, token, ceremony, printed, orderly,
      names, syncedPath, data, syncedData, open, server, handler, serial, requests, outages>>

SaveSteps == {"create", "write", "sync", "rename", "sync directory"}

HandlerSteps ==
    {"idle", "load", "context", "session", "login", "issue", "verify", "sign",
     "logout", "send", "failed"} \cup SaveSteps

Handlers ==
    [pc : HandlerSteps, request : {"register", "confirm", "vote"},
     credential : Credentials \cup {NoFile}]

Idle == [pc |-> "idle", request |-> "vote", credential |-> NoFile]

IssuanceTypeOK ==
    /\ HsmTypeOK
    /\ CeremonyTypeOK
    /\ FileTypeOK
    /\ server \in {"up", "down"}
    /\ handler \in [Clients -> Handlers]
    /\ serial \in BOOLEAN
    /\ requests \in 0..MaxRequests
    /\ outages \in 0..MaxOutages

IssuanceInit ==
    /\ HsmInit
    /\ CeremonyInit
    /\ CredentialFileInit
    /\ server = "down"
    /\ handler = [h \in Clients |-> Idle]
    /\ serial \in BOOLEAN
    /\ requests = 0
    /\ outages = 0

At(h, pc) == handler[h].pc = pc
Goto(h, pc) == handler' = [handler EXCEPT ![h].pc = pc]

\* What handlers leave alone.
setupVars == <<token, ceremony, printed, orderly, server, serial, outages>>

-----------------------------------------------------------------------------
(* Requests *)

Accept(h) ==
    /\ server = "up"
    /\ requests < MaxRequests
    /\ requests' = requests + 1
    /\ At(h, "idle")
    /\ serial => \A other \in Clients : At(other, "idle")

Register(h) ==
    /\ Accept(h)
    /\ handler' = [handler EXCEPT ![h] = [Idle EXCEPT !.pc = "context",
                                                       !.request = "register"]]
    /\ UNCHANGED <<setupVars, library, fsVars>>

Vote(h) ==
    /\ Accept(h)
    /\ handler' = [handler EXCEPT ![h] = [Idle EXCEPT !.pc = "load"]]
    /\ UNCHANGED <<setupVars, library, fsVars>>

\* Variant: saves what it has read, whole or not.
LoadUnparsed(h) ==
    /\ At(h, "load")
    /\ handler[h].request = "confirm"
    /\ handler' = [handler EXCEPT ![h].pc = "create", ![h].credential = Loaded]
    /\ UNCHANGED <<setupVars, requests, library, fsVars>>

\* A vote stops without a credential.
LoadForVote(h) ==
    /\ At(h, "load")
    /\ handler[h].request = "vote"
    /\ \/ Loaded \in Credentials /\ Goto(h, "context")
       \/ Loaded \notin Credentials /\ handler' = [handler EXCEPT ![h] = Idle]
    /\ UNCHANGED <<setupVars, requests, library, fsVars>>

\* Without a credential the second save is left out.
LoadForConfirm(h) ==
    /\ At(h, "load")
    /\ handler[h].request = "confirm"
    /\ \/ /\ Loaded \in Credentials
          /\ handler' = [handler EXCEPT
                           ![h].pc = "create",
                           ![h].credential = [Loaded EXCEPT !.confirmed = TRUE]]
       \/ /\ Loaded \notin Credentials
          /\ handler' = [handler EXCEPT ![h] = Idle]
    /\ UNCHANGED <<setupVars, requests, library, fsVars>>

LoadFile(h) == LoadForVote(h) \/ LoadForConfirm(h)

-----------------------------------------------------------------------------
(* The HSM section *)

\* An error ends the section; session and context are dropped.
Abort(h) ==
    /\ DropContext
    /\ Goto(h, "failed")

OpenContext(h) ==
    /\ At(h, "context")
    /\ \/ InitialiseLibrary /\ Goto(h, "session")
       \/ InitialiseTwice /\ Goto(h, "failed")
    /\ UNCHANGED <<setupVars, requests, fsVars>>

StartSession(h) ==
    /\ At(h, "session")
    /\ \/ OpenSession(h) /\ Goto(h, "login")
       \/ ~library.up /\ Abort(h)
    /\ UNCHANGED <<setupVars, requests, fsVars>>

LogIn(h) ==
    /\ At(h, "login")
    /\ \/ /\ Login(h)
          /\ Goto(h, IF handler[h].request = "register" THEN "issue" ELSE "sign")
       \/ LoginRefused(h) /\ Abort(h)
    /\ UNCHANGED <<setupVars, requests, fsVars>>

\* A fresh blinding makes a fresh credential.
Issue(h) ==
    /\ At(h, "issue")
    /\ \/ /\ Usable(h)
          /\ Found("kwrap", "secret") # {} /\ Found("attestation", "secret") # {}
          /\ \E b \in Blindings :
               handler' = [handler EXCEPT
                             ![h].pc = "create",
                             ![h].credential = [blinding |-> b, confirmed |-> FALSE]]
          /\ UNCHANGED library
       \/ /\ \/ UseRefused(h)
             \/ Found("kwrap", "secret") = {} \/ Found("attestation", "secret") = {}
          /\ Abort(h)
    /\ UNCHANGED <<setupVars, requests, fsVars>>

\* The attestation is computed again; of several keys another may be found.
Verify(h) ==
    /\ At(h, "verify")
    /\ \/ Usable(h) /\ Found("attestation", "secret") # {}
            /\ Goto(h, "logout") /\ UNCHANGED library
       \/ /\ UseRefused(h) \/ Cardinality(Found("attestation", "secret")) # 1
          /\ Abort(h)
    /\ UNCHANGED <<setupVars, requests, fsVars>>

Sign(h) ==
    /\ At(h, "sign")
    /\ \/ /\ Usable(h)
          /\ Found("ballot-sign", "private") # {} /\ Found("ballot-sign", "public") # {}
          /\ Goto(h, "logout")
          /\ UNCHANGED library
       \/ /\ \/ UseRefused(h)
             \/ Found("ballot-sign", "private") = {} \/ Found("ballot-sign", "public") = {}
          /\ Abort(h)
    /\ UNCHANGED <<setupVars, requests, fsVars>>

\* Variant: logs out, and keeps the context.
LogOutOnly(h) ==
    /\ At(h, "logout")
    /\ library' = [library EXCEPT !.login = FALSE]
    /\ Goto(h, "send")
    /\ UNCHANGED <<setupVars, requests, fsVars>>

\* Log out, close, and drop the context.
LogOut(h) ==
    /\ At(h, "logout")
    /\ \/ Usable(h) /\ DropContext /\ Goto(h, "send")
       \/ UseRefused(h) /\ Abort(h)
    /\ UNCHANGED <<setupVars, requests, fsVars>>

\* "hsm error"
AnswerFailure(h) ==
    /\ At(h, "failed")
    /\ handler' = [handler EXCEPT ![h] = Idle]
    /\ UNCHANGED <<setupVars, requests, library, fsVars>>

-----------------------------------------------------------------------------
(* Saving, twice, and sending in between *)

AfterSave(h) == IF handler[h].request = "register" THEN "verify" ELSE "idle"

SaveStep(h) ==
    /\ \/ At(h, "create") /\ CreateTmp(h) /\ Goto(h, "write")
       \/ At(h, "write") /\ WriteTmp(h, handler[h].credential) /\ Goto(h, "sync")
       \/ At(h, "sync") /\ SyncTmp(h) /\ Goto(h, "rename")
       \/ At(h, "rename") /\ RenameTmp /\ Goto(h, "sync directory")
       \/ At(h, "sync directory") /\ SyncDirectory(h) /\ Goto(h, AfterSave(h))
    /\ UNCHANGED <<setupVars, requests, library>>

\* Any step of a save may fail: the disk is full, the temporary name is gone.
SaveAborted(h) ==
    /\ handler[h].pc \in SaveSteps
    /\ CloseFile(h)
    /\ handler' = [handler EXCEPT ![h] = Idle]
    /\ UNCHANGED <<setupVars, requests>>

\* The first save ends the registration with its section...
FirstSaveFails(h) ==
    /\ handler[h].request = "register"
    /\ SaveAborted(h)
    /\ DropContext

\* ... the second one fails in silence.
SecondSaveFails(h) ==
    /\ handler[h].request = "confirm"
    /\ SaveAborted(h)
    /\ UNCHANGED library

SaveFails(h) == FirstSaveFails(h) \/ SecondSaveFails(h)

\* The transaction is confirmed or not.
SendTransaction(h) ==
    /\ At(h, "send")
    /\ \/ handler' = [handler EXCEPT ![h] = Idle]
       \/ /\ handler[h].request = "register"
          /\ handler' = [handler EXCEPT ![h].pc = "load", ![h].request = "confirm"]
    /\ UNCHANGED <<setupVars, requests, library, fsVars>>

-----------------------------------------------------------------------------
(* The server's life *)

\* Asks for the public key only.  The operator has ended the ceremony.
StartServer ==
    /\ server = "down"
    /\ NoCeremony
    /\ Found("ballot-sign", "public") # {}
    /\ server' = "up"
    /\ UNCHANGED <<library, token, ceremonyVars, fsVars, handler, serial, requests, outages>>

Die ==
    /\ server = "up"
    /\ server' = "down"
    /\ handler' = [h \in Clients |-> Idle]
    /\ library' = Finalised
    /\ UNCHANGED <<token, ceremonyVars, serial, requests>>

Crash ==
    /\ Die
    /\ CloseAll
    /\ UNCHANGED outages

LosePower ==
    /\ Die
    /\ PowerLoss
    /\ outages < MaxOutages
    /\ outages' = outages + 1

\* Ceremonies are held while the server is down.
HoldCeremony ==
    /\ server = "down"
    /\ \E m \in Makers : CeremonyStep(m)
    /\ UNCHANGED <<library, fsVars, server, handler, serial, requests, outages>>

HandlerStep(h) ==
    \/ Register(h) \/ Vote(h) \/ LoadFile(h)
    \/ OpenContext(h) \/ StartSession(h) \/ LogIn(h)
    \/ Issue(h) \/ Verify(h) \/ Sign(h) \/ LogOut(h) \/ AnswerFailure(h)
    \/ SaveStep(h) \/ SaveFails(h) \/ SendTransaction(h)

IssuanceNext ==
    \/ \E h \in Clients : HandlerStep(h)
    \/ HoldCeremony
    \/ StartServer
    \/ Crash \/ LosePower

IssuanceSpec == IssuanceInit /\ [][IssuanceNext]_issuanceVars

-----------------------------------------------------------------------------
(* Properties *)

InSection(h) ==
    \/ handler[h].pc \in {"session", "login", "issue", "verify", "sign", "logout"}
    \/ handler[h].request = "register" /\ handler[h].pc \in SaveSteps

\* "Call this after every voting operation to shrink the authenticated
\* window": nobody stays logged in, and the library is not left initialised,
\* when no handler is in its HSM section, whatever has failed there and
\* whichever handler has pulled the library from under another.  (A login may
\* outlive its handler while another one is in its section.)
NothingLeftOpen ==
    library # Finalised => \E h \in Clients : InSection(h)

\* One request at a time, after orderly ceremonies: no handler ever fails for
\* the HSM's sake, although the server has asked for one key only when it
\* started, and although handlers before may have been cut off anywhere.
AloneSucceeds ==
    serial /\ orderly => \A h \in Clients : ~At(h, "failed")

\* "Persisted to disk before any network call": a commitment that is about to
\* be sent is in the voter's file, and would still be there without power.
SentIsOnDisk ==
    serial =>
      \A h \in Clients :
         handler[h].request = "register" /\ At(h, "send") =>
           /\ Loaded = handler[h].credential
           /\ Behind(syncedPath, syncedData) = handler[h].credential

\* The file is the atomic file of the servers' specification, through crashes
\* and losses of power at any step, as long as the server is given one request
\* at a time.
File == INSTANCE AtomicFile WITH
          Contents  <- Credentials,
          NoContent <- NoFile,
          content   <- IF serial THEN Loaded ELSE NoFile,
          stable    <- IF serial THEN Behind(syncedPath, syncedData) ELSE NoFile

ImplementsAtomicFile == File!FileSpec

-----------------------------------------------------------------------------
(* What the sources say and the handlers do not do *)

\* "Loaded and initialized PKCS#11 library.  Construct once at process start":
\* with one library for all, handlers would not fail for each other's sake.
NoHsmErrors == orderly => \A h \in Clients : ~At(h, "failed")
=============================================================================
