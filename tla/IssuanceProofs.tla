--------------------------- MODULE IssuanceProofs ---------------------------
(***************************************************************************)
(* Theorems about Issuance, for any number of handlers and ceremonies, any *)
(* number of crashes and losses of power, and any bound on requests.       *)
(***************************************************************************)
EXTENDS Issuance, FiniteSetTheorems, TLAPS

-----------------------------------------------------------------------------
(* Type correctness *)

\* What a handler carries at each of its steps.
Fit(pc, request, credential) ==
    /\ pc \in SaveSteps => credential \in Credentials /\ request # "vote"
    /\ pc \in {"issue", "verify"} => request = "register"
    /\ pc = "verify" => credential \in Credentials
    /\ pc = "sign" => request = "vote"
    /\ pc \in {"context", "session", "login", "logout"} => request # "confirm"
    /\ pc = "load" => request # "register"

FitHandlers == {r \in Handlers : Fit(r.pc, r.request, r.credential)}

IssuanceTypeInv ==
    /\ IssuanceTypeOK
    /\ handler \in [Clients -> FitHandlers]

LEMMA TypeInit == IssuanceInit => IssuanceTypeInv
  <1> SUFFICES ASSUME IssuanceInit PROVE IssuanceTypeInv
    OBVIOUS
  <1>1. Idle \in FitHandlers
    BY DEF FitHandlers, Fit, Idle, Handlers, HandlerSteps, SaveSteps
  <1>2. handler \in [Clients -> FitHandlers] /\ handler \in [Clients -> Handlers]
    BY <1>1 DEF IssuanceInit, FitHandlers
  <1>3. IssuanceTypeOK
    BY <1>2, IssuanceAssumption
    DEF IssuanceInit, IssuanceTypeOK, HsmInit, HsmTypeOK, Finalised, CeremonyInit,
        CeremonyTypeOK, Steps, CredentialFileInit, FileTypeOK, Places, Data
  <1>4. QED
    BY <1>2, <1>3 DEF IssuanceTypeInv

LEMMA CeremonyStepType ==
  ASSUME HsmTypeOK, CeremonyTypeOK, NEW m \in Makers, CeremonyStep(m), UNCHANGED library
  PROVE  HsmTypeOK' /\ CeremonyTypeOK'
  <1> USE DEF HsmTypeOK, CeremonyTypeOK, Steps
  <1>1. CASE StartCeremony(m)
    BY <1>1 DEF StartCeremony
  <1>2. ASSUME NEW step \in Steps, NEW label \in Labels,
               NEW half \in {"secret", "public", "private"},
               NEW generate \in Steps, NEW next \in Steps,
               LookFor(m, step, label, half, generate, next)
        PROVE  HsmTypeOK' /\ CeremonyTypeOK'
    BY <1>2 DEF LookFor
  <1>3. ASSUME NEW step \in Steps, NEW label \in Labels,
               NEW half \in {"secret", "public", "private"}, NEW next \in Steps,
               Generate(m, step, label, half, next)
        PROVE  HsmTypeOK' /\ CeremonyTypeOK'
    <2>1. token' \subseteq Objects
      BY <1>3 DEF Generate, Generated, Objects
    <2>2. QED
      BY <1>3, <2>1 DEF Generate
  <1>4. CASE WrapKey(m)
    BY <1>4, <1>2, <1>3 DEF WrapKey, Labels
  <1>5. CASE AttestationKey(m)
    BY <1>5, <1>2, <1>3 DEF AttestationKey, Labels
  <1>6. CASE BallotSignKey(m)
    BY <1>6, <1>2, <1>3 DEF BallotSignKey, Labels
  <1>7. CASE PrintKey(m)
    BY <1>7 DEF PrintKey, Found, Objects
  <1>8. CASE KillCeremony(m)
    BY <1>8 DEF KillCeremony
  <1>9. QED
    BY <1>1, <1>4, <1>5, <1>6, <1>7, <1>8 DEF CeremonyStep

\* Every operation on the file keeps its type.
LEMMA FileOperationsType ==
  ASSUME FileTypeOK, NEW w \in Writers,
         \/ CreateTmp(w)
         \/ \E c \in Credentials : WriteTmp(w, c)
         \/ SyncTmp(w) \/ RenameTmp \/ SyncDirectory(w) \/ CloseFile(w) \/ CloseAll
  PROVE  FileTypeOK'
  <1> USE DEF FileTypeOK, Places, Data
  <1>1. CASE CreateTmp(w)
    <2>1. CASE names.tmp # NoFile
      BY <1>1, <2>1 DEF CreateTmp
    <2>2. CASE names.tmp = NoFile
      <3> DEFINE new == CHOOSE i \in Inodes : i \notin InUse
      <3>1. new \in Inodes
        BY <1>1, <2>2 DEF CreateTmp
      <3>2. open' = [open EXCEPT ![w] = new] /\ names' = [names EXCEPT !.tmp = new]
        BY <1>1, <2>2 DEF CreateTmp
      <3> HIDE DEF new
      <3>3. QED
        BY <1>1, <3>1, <3>2 DEF CreateTmp
    <2>3. QED
      BY <2>1, <2>2
  <1>2. ASSUME NEW c \in Credentials, WriteTmp(w, c) PROVE FileTypeOK'
    BY <1>2 DEF WriteTmp
  <1>3. CASE SyncTmp(w)
    <2>1. open[w] \in Inodes => data[open[w]] \in Data
      OBVIOUS
    <2>2. QED
      BY <1>3, <2>1 DEF SyncTmp
  <1>4. CASE RenameTmp
    BY <1>4 DEF RenameTmp
  <1>5. CASE SyncDirectory(w)
    BY <1>5 DEF SyncDirectory
  <1>6. CASE CloseFile(w)
    BY <1>6 DEF CloseFile
  <1>7. CASE CloseAll
    BY <1>7 DEF CloseAll
  <1>8. QED
    BY <1>1, <1>2, <1>3, <1>4, <1>5, <1>6, <1>7

LEMMA PowerLossType ==
  ASSUME FileTypeOK, PowerLoss
  PROVE  FileTypeOK'
  <1> USE DEF FileTypeOK, Places, Data
  <1>1. PICK kept \in [Unsynced -> {"synced", "written", "neither"}] :
          data' = [i \in Inodes |->
                     IF i \notin Unsynced \/ kept[i] = "synced" THEN syncedData[i]
                     ELSE IF kept[i] = "written" THEN data[i] ELSE Garbage]
    BY DEF PowerLoss
  <1>2. data' \in [Inodes -> Data]
    BY <1>1
  <1>3. QED
    BY <1>2 DEF PowerLoss

-----------------------------------------------------------------------------
(* What the steps of a handler do to the handlers *)

LEMMA MovedRecord ==
  ASSUME NEW r \in Handlers, NEW pc \in HandlerSteps
  PROVE  /\ [r EXCEPT !.pc = pc] \in Handlers
         /\ [r EXCEPT !.pc = pc].pc = pc
         /\ [r EXCEPT !.pc = pc].request = r.request
         /\ [r EXCEPT !.pc = pc].credential = r.credential
  BY DEF Handlers

\* A record that changes in two fields.
WithCredential(r, pc, c) == [r EXCEPT !.pc = pc, !.credential = c]
WithRequest(r, pc, q) == [r EXCEPT !.pc = pc, !.request = q]

LEMMA RecordWithCredential ==
  ASSUME NEW r \in Handlers, NEW pc \in HandlerSteps, NEW c \in Credentials
  PROVE  /\ WithCredential(r, pc, c) \in Handlers
         /\ WithCredential(r, pc, c).pc = pc
         /\ WithCredential(r, pc, c).credential = c
         /\ WithCredential(r, pc, c).request = r.request
  BY DEF Handlers, WithCredential

LEMMA RecordWithRequest ==
  ASSUME NEW r \in Handlers, NEW pc \in HandlerSteps,
         NEW q \in {"register", "confirm", "vote"}
  PROVE  /\ WithRequest(r, pc, q) \in Handlers
         /\ WithRequest(r, pc, q).pc = pc
         /\ WithRequest(r, pc, q).request = q
         /\ WithRequest(r, pc, q).credential = r.credential
  BY DEF Handlers, WithRequest

\* A handler that goes on to another step of the same request.
LEMMA GoesOn ==
  ASSUME IssuanceTypeInv, NEW h \in Clients, NEW pc \in HandlerSteps, Goto(h, pc)
  PROVE  /\ handler' \in [Clients -> Handlers]
         /\ \A g \in Clients \ {h} : handler'[g] = handler[g]
         /\ handler'[h].pc = pc
         /\ handler'[h].request = handler[h].request
         /\ handler'[h].credential = handler[h].credential
  <1>1. handler \in [Clients -> Handlers]
    BY DEF IssuanceTypeInv, IssuanceTypeOK
  <1>2. PICK r \in Handlers : r = handler[h]
    BY <1>1
  <1>3. handler' = [handler EXCEPT ![h] = [r EXCEPT !.pc = pc]]
    BY <1>2, Zenon DEF Goto
  <1>4. QED
    BY <1>1, <1>2, <1>3, MovedRecord

\* A handler that becomes idle, takes a request, or reads a file.
LEMMA Becomes ==
  ASSUME IssuanceTypeInv, NEW h \in Clients, NEW r \in Handlers,
         handler' = [handler EXCEPT ![h] = r]
  PROVE  /\ handler' \in [Clients -> Handlers]
         /\ \A g \in Clients \ {h} : handler'[g] = handler[g]
         /\ handler'[h] = r
  BY DEF IssuanceTypeInv, IssuanceTypeOK

LEMMA HandlerStepNames ==
  /\ "load" \in HandlerSteps /\ "context" \in HandlerSteps /\ "create" \in HandlerSteps
  /\ "register" \in {"register", "confirm", "vote"}
  /\ "confirm" \in {"register", "confirm", "vote"}
  BY DEF HandlerSteps, SaveSteps

LEMMA IdleFits == Idle \in Handlers /\ Idle \in FitHandlers
  BY DEF Idle, Handlers, HandlerSteps, SaveSteps, FitHandlers, Fit

LEMMA BecomesIdle ==
  ASSUME IssuanceTypeInv, NEW h \in Clients, handler' = [handler EXCEPT ![h] = Idle]
  PROVE  /\ handler' \in [Clients -> Handlers]
         /\ \A g \in Clients \ {h} : handler'[g] = handler[g]
         /\ handler'[h] = Idle
  BY Becomes, IdleFits

LEMMA TakesRequest ==
  ASSUME IssuanceTypeInv, NEW h \in Clients, Register(h) \/ Vote(h)
  PROVE  /\ handler' \in [Clients -> FitHandlers]
         /\ \A g \in Clients \ {h} : handler'[g] = handler[g]
         /\ \/ handler'[h].pc = "context" /\ handler'[h].request = "register"
            \/ handler'[h].pc = "load" /\ handler'[h].request = "vote"
  <1>1. Idle.credential = NoFile /\ Idle.request = "vote"
    BY DEF Idle
  <1>2. CASE Register(h)
    <2>1. PICK r \in Handlers :
            /\ r = WithRequest(Idle, "context", "register")
            /\ r.pc = "context" /\ r.request = "register"
      BY IdleFits, RecordWithRequest, HandlerStepNames
    <2>2. handler' = [handler EXCEPT ![h] = r]
      BY <1>2, <2>1 DEF Register, WithRequest
    <2>3. r \in FitHandlers
      BY <1>1, <2>1 DEF FitHandlers, Fit, SaveSteps
    <2>4. QED
      BY <1>1, <2>1, <2>2, <2>3, Becomes DEF IssuanceTypeInv
  <1>3. CASE Vote(h)
    <2>1. PICK r \in Handlers :
            r = [Idle EXCEPT !.pc = "load"] /\ r.pc = "load" /\ r.request = Idle.request
      BY IdleFits, MovedRecord, HandlerStepNames
    <2>2. handler' = [handler EXCEPT ![h] = r]
      BY <1>3, <2>1 DEF Vote
    <2>3. r \in FitHandlers
      BY <1>1, <2>1 DEF FitHandlers, Fit, SaveSteps
    <2>4. QED
      BY <1>1, <2>1, <2>2, <2>3, Becomes DEF IssuanceTypeInv
  <1>4. QED
    BY <1>2, <1>3

LEMMA ReadsFile ==
  ASSUME IssuanceTypeInv, NEW h \in Clients, LoadFile(h)
  PROVE  /\ handler' \in [Clients -> FitHandlers]
         /\ \A g \in Clients \ {h} : handler'[g] = handler[g]
         /\ handler[h].request # "register"
         /\ \/ handler'[h] = Idle
            \/ handler'[h].pc = "context" /\ handler'[h].request = "vote"
            \/ handler'[h].pc = "create" /\ handler'[h].request = "confirm"
  <1>1. /\ handler[h] \in Handlers
        /\ Fit(handler[h].pc, handler[h].request, handler[h].credential)
        /\ handler[h].pc = "load"
    BY DEF IssuanceTypeInv, FitHandlers, LoadFile, LoadForVote, LoadForConfirm, At
  <1>2. handler[h].request # "register"
    BY <1>1 DEF Fit
  <1>3. CASE handler' = [handler EXCEPT ![h] = Idle]
    BY <1>2, <1>3, BecomesIdle, IdleFits DEF IssuanceTypeInv
  <1>4. CASE handler[h].request = "vote" /\ Goto(h, "context")
    <2>1. "context" \in HandlerSteps
      BY DEF HandlerSteps
    <2>2. Fit(handler'[h].pc, handler'[h].request, handler'[h].credential)
      BY <1>4, <2>1, GoesOn DEF Fit, SaveSteps
    <2>3. QED
      BY <1>2, <1>4, <2>1, <2>2, GoesOn DEF FitHandlers, IssuanceTypeInv
  <1>5. CASE /\ Loaded \in Credentials
             /\ handler[h].request = "confirm"
             /\ handler' = [handler EXCEPT
                              ![h].pc = "create",
                              ![h].credential = [Loaded EXCEPT !.confirmed = TRUE]]
    <2>1. PICK c \in Credentials : c = [Loaded EXCEPT !.confirmed = TRUE]
      BY <1>5 DEF Credentials
    <2>2. PICK old \in Handlers : old = handler[h]
      BY <1>1
    <2>3. PICK r \in Handlers :
            /\ r = WithCredential(old, "create", c)
            /\ r.pc = "create" /\ r.credential = c /\ r.request = old.request
      BY <2>1, <2>2, RecordWithCredential, HandlerStepNames
    <2>4. handler' = [handler EXCEPT ![h] = WithCredential(old, "create", c)]
      <3>1. handler' = [handler EXCEPT ![h].pc = "create", ![h].credential = c]
        BY <1>5, <2>1, Zenon
      <3>2. QED
        BY <3>1, <2>2 DEF IssuanceTypeInv, WithCredential
    <2>5. r \in FitHandlers
      BY <1>5, <2>2, <2>3 DEF FitHandlers, Fit, SaveSteps
    <2>6. QED
      BY <1>2, <1>5, <2>2, <2>3, <2>4, <2>5, Becomes DEF IssuanceTypeInv
  <1>6. QED
    BY <1>3, <1>4, <1>5 DEF LoadFile, LoadForVote, LoadForConfirm

LEMMA Issues ==
  ASSUME IssuanceTypeInv, NEW h \in Clients, NEW b \in Blindings, At(h, "issue"),
         handler' = [handler EXCEPT
                       ![h].pc = "create",
                       ![h].credential = [blinding |-> b, confirmed |-> FALSE]]
  PROVE  /\ handler' \in [Clients -> FitHandlers]
         /\ \A g \in Clients \ {h} : handler'[g] = handler[g]
         /\ handler'[h].pc = "create" /\ handler'[h].request = "register"
  <1>1. PICK c \in Credentials : c = [blinding |-> b, confirmed |-> FALSE]
    BY DEF Credentials
  <1>2. PICK old \in Handlers : old = handler[h] /\ old.request = "register"
    BY DEF IssuanceTypeInv, FitHandlers, Fit, At
  <1>3. PICK r \in Handlers :
          /\ r = WithCredential(old, "create", c)
          /\ r.pc = "create" /\ r.credential = c /\ r.request = old.request
    BY <1>1, <1>2, RecordWithCredential, HandlerStepNames
  <1>4. handler' = [handler EXCEPT ![h] = WithCredential(old, "create", c)]
    <2>1. handler' = [handler EXCEPT ![h].pc = "create", ![h].credential = c]
      BY <1>1, Zenon
    <2>2. QED
      BY <2>1, <1>2 DEF IssuanceTypeInv, WithCredential
  <1>5. r \in FitHandlers
    BY <1>2, <1>3 DEF FitHandlers, Fit, SaveSteps
  <1>6. QED
    BY <1>2, <1>3, <1>4, <1>5, Becomes DEF IssuanceTypeInv

LEMMA Sends ==
  ASSUME IssuanceTypeInv, NEW h \in Clients, SendTransaction(h)
  PROVE  /\ handler' \in [Clients -> FitHandlers]
         /\ \A g \in Clients \ {h} : handler'[g] = handler[g]
         /\ \/ handler'[h] = Idle
            \/ handler'[h].pc = "load" /\ handler'[h].request = "confirm"
  <1>1. CASE handler' = [handler EXCEPT ![h] = Idle]
    BY <1>1, BecomesIdle, IdleFits DEF IssuanceTypeInv
  <1>2. CASE handler' = [handler EXCEPT ![h].pc = "load", ![h].request = "confirm"]
    <2>1. PICK old \in Handlers : old = handler[h]
      BY DEF IssuanceTypeInv, FitHandlers
    <2>2. PICK r \in Handlers :
            /\ r = WithRequest(old, "load", "confirm")
            /\ r.pc = "load" /\ r.request = "confirm"
      BY RecordWithRequest, HandlerStepNames
    <2>3. handler' = [handler EXCEPT ![h] = WithRequest(old, "load", "confirm")]
      BY <1>2, <2>1 DEF IssuanceTypeInv, WithRequest
    <2>4. r \in FitHandlers
      BY <2>2 DEF FitHandlers, Fit, SaveSteps
    <2>5. QED
      BY <2>2, <2>3, <2>4, Becomes DEF IssuanceTypeInv
  <1>3. QED
    BY <1>1, <1>2 DEF SendTransaction

LEMMA LibraryType ==
  ASSUME HsmTypeOK, NEW h \in Clients,
         \/ InitialiseLibrary \/ InitialiseTwice \/ DropContext
         \/ OpenSession(h) \/ Login(h) \/ UNCHANGED library
  PROVE  library' \in [up : BOOLEAN, sessions : SUBSET Clients, login : BOOLEAN]
  <1> USE DEF HsmTypeOK, Finalised
  <1>1. CASE InitialiseLibrary
    BY <1>1 DEF InitialiseLibrary
  <1>2. CASE library' = library \/ library' = Finalised
    <2>1. library \in [up : BOOLEAN, sessions : SUBSET Clients, login : BOOLEAN]
      OBVIOUS
    <2>2. Finalised \in [up : BOOLEAN, sessions : SUBSET Clients, login : BOOLEAN]
      OBVIOUS
    <2> HIDE DEF Finalised
    <2>3. QED
      BY <1>2, <2>1, <2>2
  <1>3. CASE OpenSession(h)
    BY <1>3 DEF OpenSession
  <1>4. CASE Login(h)
    BY <1>4 DEF Login
  <1>5. QED
    BY <1>1, <1>2, <1>3, <1>4 DEF InitialiseTwice, DropContext

\* The steps by the library call that they make.
LEMMA LibrarySteps ==
  ASSUME NEW h \in Clients, HandlerStep(h)
  PROVE  \/ InitialiseLibrary \/ InitialiseTwice \/ DropContext
         \/ OpenSession(h) \/ Login(h) \/ UNCHANGED library
  <1>1. CASE Register(h) \/ Vote(h) \/ LoadFile(h)
    BY <1>1 DEF Register, Vote, LoadFile, LoadForVote, LoadForConfirm
  <1>2. CASE OpenContext(h) \/ StartSession(h) \/ LogIn(h)
    BY <1>2 DEF OpenContext, StartSession, LogIn, Abort
  <1>3. CASE Issue(h) \/ Verify(h) \/ Sign(h) \/ LogOut(h)
    BY <1>3 DEF Issue, Verify, Sign, LogOut, Abort
  <1>4. CASE AnswerFailure(h) \/ SaveStep(h) \/ SaveFails(h) \/ SendTransaction(h)
    BY <1>4
    DEF AnswerFailure, SaveStep, SaveFails, FirstSaveFails, SecondSaveFails,
        SaveAborted, SendTransaction
  <1>5. QED
    BY <1>1, <1>2, <1>3, <1>4 DEF HandlerStep

\* The steps by what they do to the file.
LEMMA FileSteps ==
  ASSUME IssuanceTypeInv, NEW h \in Clients, HandlerStep(h)
  PROVE  \/ UNCHANGED fsVars
         \/ CreateTmp(h)
         \/ \E c \in Credentials : WriteTmp(h, c)
         \/ SyncTmp(h) \/ RenameTmp \/ SyncDirectory(h) \/ CloseFile(h)
  <1>1. CASE Register(h) \/ Vote(h) \/ LoadFile(h)
    BY <1>1 DEF Register, Vote, LoadFile, LoadForVote, LoadForConfirm
  <1>2. CASE OpenContext(h) \/ StartSession(h) \/ LogIn(h)
    BY <1>2 DEF OpenContext, StartSession, LogIn
  <1>3. CASE Issue(h) \/ Verify(h) \/ Sign(h) \/ LogOut(h)
    BY <1>3 DEF Issue, Verify, Sign, LogOut
  <1>4. CASE AnswerFailure(h) \/ SaveFails(h) \/ SendTransaction(h)
    BY <1>4
    DEF AnswerFailure, SaveFails, FirstSaveFails, SecondSaveFails, SaveAborted,
        SendTransaction
  <1>5. CASE SaveStep(h)
    <2>1. At(h, "write") => handler[h].credential \in Credentials
      BY DEF IssuanceTypeInv, FitHandlers, Fit, At, SaveSteps
    <2>2. QED
      BY <1>5, <2>1 DEF SaveStep
  <1>6. QED
    BY <1>1, <1>2, <1>3, <1>4, <1>5 DEF HandlerStep

\* Abort and AnswerFailure, and the failures of a save, end the request.
LEMMA HandlerStepFits ==
  ASSUME IssuanceTypeInv, NEW h \in Clients, HandlerStep(h)
  PROVE  /\ handler' \in [Clients -> FitHandlers]
         /\ \A g \in Clients \ {h} : handler'[g] = handler[g]
  <1>1. /\ handler[h] \in Handlers
        /\ Fit(handler[h].pc, handler[h].request, handler[h].credential)
    BY DEF IssuanceTypeInv, FitHandlers
  <1>2. ASSUME NEW pc \in HandlerSteps, Goto(h, pc),
               Fit(pc, handler[h].request, handler[h].credential)
        PROVE  /\ handler' \in [Clients -> FitHandlers]
               /\ \A g \in Clients \ {h} : handler'[g] = handler[g]
    <2>1. /\ handler'[h] \in Handlers
          /\ Fit(handler'[h].pc, handler'[h].request, handler'[h].credential)
      BY <1>2, GoesOn
    <2>2. QED
      BY <1>2, <2>1, GoesOn DEF IssuanceTypeInv, FitHandlers
  <1>3. CASE Register(h) \/ Vote(h)
    BY <1>3, TakesRequest
  <1>4. CASE LoadFile(h)
    BY <1>4, ReadsFile
  <1>5. CASE handler' = [handler EXCEPT ![h] = Idle]
    BY <1>5, BecomesIdle, IdleFits DEF IssuanceTypeInv
  <1>6. CASE Goto(h, "failed") \/ Goto(h, "idle") \/ Goto(h, "send")
    BY <1>2, <1>6 DEF Fit, HandlerSteps, SaveSteps
  <1>7. CASE Goto(h, "session") /\ At(h, "context")
    BY <1>1, <1>2, <1>7 DEF Fit, HandlerSteps, SaveSteps, At
  <1>8. CASE Goto(h, "login") /\ At(h, "session")
    BY <1>1, <1>2, <1>8 DEF Fit, HandlerSteps, SaveSteps, At
  <1>9. CASE /\ Goto(h, IF handler[h].request = "register" THEN "issue" ELSE "sign")
             /\ At(h, "login")
    <2>1. CASE handler[h].request = "register"
      BY <1>1, <1>2, <1>9, <2>1 DEF Fit, HandlerSteps, SaveSteps, At
    <2>2. CASE handler[h].request = "vote"
      BY <1>1, <1>2, <1>9, <2>2 DEF Fit, HandlerSteps, SaveSteps, At
    <2>3. QED
      BY <1>1, <1>9, <2>1, <2>2 DEF Fit, Handlers, At
  <1>10. CASE Goto(h, "logout") /\ (At(h, "verify") \/ At(h, "sign"))
    BY <1>1, <1>2, <1>10 DEF Fit, HandlerSteps, SaveSteps, At
  <1>11. CASE \/ At(h, "create") /\ Goto(h, "write")
              \/ At(h, "write") /\ Goto(h, "sync")
              \/ At(h, "sync") /\ Goto(h, "rename")
              \/ At(h, "rename") /\ Goto(h, "sync directory")
    BY <1>1, <1>2, <1>11 DEF Fit, HandlerSteps, SaveSteps, At
  <1>12. CASE At(h, "sync directory") /\ Goto(h, AfterSave(h))
    <2>1. CASE handler[h].request = "register"
      BY <1>1, <1>2, <1>12, <2>1 DEF Fit, HandlerSteps, SaveSteps, At, AfterSave
    <2>2. CASE handler[h].request # "register"
      BY <1>6, <1>12, <2>2 DEF AfterSave
    <2>3. QED
      BY <2>1, <2>2
  <1>13. CASE OpenContext(h) \/ StartSession(h) \/ LogIn(h)
    BY <1>13, <1>6, <1>7, <1>8, <1>9 DEF OpenContext, StartSession, LogIn, Abort
  <1>14. CASE Issue(h)
    BY <1>14, <1>6, Issues DEF Issue, Abort
  <1>15. CASE Verify(h) \/ Sign(h) \/ LogOut(h)
    BY <1>15, <1>6, <1>10 DEF Verify, Sign, LogOut, Abort
  <1>16. CASE SaveStep(h)
    BY <1>16, <1>11, <1>12 DEF SaveStep
  <1>17. CASE AnswerFailure(h) \/ SaveFails(h)
    BY <1>17, <1>5
    DEF AnswerFailure, SaveFails, FirstSaveFails, SecondSaveFails, SaveAborted
  <1>18. CASE SendTransaction(h)
    BY <1>18, Sends
  <1>19. QED
    BY <1>3, <1>4, <1>13, <1>14, <1>15, <1>16, <1>17, <1>18 DEF HandlerStep

\* No step of a handler touches keys, ceremonies or the server, and only a new
\* request counts.
LEMMA HandlerStepFrame ==
  ASSUME NEW h \in Clients, HandlerStep(h)
  PROVE  /\ UNCHANGED setupVars
         /\ \/ UNCHANGED requests
            \/ requests < MaxRequests /\ requests' = requests + 1
  <1>1. CASE Register(h) \/ Vote(h)
    BY <1>1 DEF Register, Vote, Accept
  <1>2. CASE LoadFile(h) \/ OpenContext(h) \/ StartSession(h) \/ LogIn(h)
    BY <1>2
    DEF LoadFile, LoadForVote, LoadForConfirm, OpenContext, StartSession, LogIn
  <1>3. CASE Issue(h) \/ Verify(h) \/ Sign(h) \/ LogOut(h)
    BY <1>3 DEF Issue, Verify, Sign, LogOut
  <1>4. CASE AnswerFailure(h) \/ SaveStep(h) \/ SaveFails(h) \/ SendTransaction(h)
    BY <1>4
    DEF AnswerFailure, SaveStep, SaveFails, FirstSaveFails, SecondSaveFails,
        SaveAborted, SendTransaction
  <1>5. QED
    BY <1>1, <1>2, <1>3, <1>4 DEF HandlerStep

LEMMA HandlerStepType ==
  ASSUME IssuanceTypeInv, NEW h \in Clients, HandlerStep(h)
  PROVE  IssuanceTypeInv'
  <1> USE DEF IssuanceTypeInv
  <1>1. HsmTypeOK'
    BY HandlerStepFrame, LibrarySteps, LibraryType DEF IssuanceTypeOK, HsmTypeOK, setupVars
  <1>2. CeremonyTypeOK'
    BY HandlerStepFrame DEF IssuanceTypeOK, CeremonyTypeOK, setupVars
  <1>3. FileTypeOK'
    <2>1. CASE UNCHANGED fsVars
      BY <2>1 DEF IssuanceTypeOK, FileTypeOK, fsVars
    <2>2. CASE ~UNCHANGED fsVars
      BY <2>2, FileSteps, FileOperationsType, IssuanceAssumption DEF IssuanceTypeOK
    <2>3. QED
      BY <2>1, <2>2
  <1>4. requests' \in 0..MaxRequests
    BY HandlerStepFrame, IssuanceAssumption DEF IssuanceTypeOK
  <1>5. server' = server /\ serial' = serial /\ outages' = outages
    BY HandlerStepFrame DEF setupVars
  <1>6. handler' \in [Clients -> FitHandlers] /\ handler' \in [Clients -> Handlers]
    BY HandlerStepFits DEF FitHandlers
  <1>7. QED
    BY <1>1, <1>2, <1>3, <1>4, <1>5, <1>6 DEF IssuanceTypeOK

LEMMA DieType ==
  ASSUME IssuanceTypeInv, Die
  PROVE  /\ HsmTypeOK' /\ CeremonyTypeOK'
         /\ server' \in {"up", "down"} /\ serial' \in BOOLEAN
         /\ requests' \in 0..MaxRequests
         /\ handler' \in [Clients -> FitHandlers] /\ handler' \in [Clients -> Handlers]
  BY IdleFits
  DEF Die, IssuanceTypeInv, IssuanceTypeOK, HsmTypeOK, Finalised, CeremonyTypeOK, ceremonyVars

LEMMA TypeNext ==
  IssuanceTypeInv /\ [IssuanceNext]_issuanceVars => IssuanceTypeInv'
  <1> SUFFICES ASSUME IssuanceTypeInv, [IssuanceNext]_issuanceVars
               PROVE  IssuanceTypeInv'
    OBVIOUS
  <1>1. ASSUME NEW h \in Clients, HandlerStep(h) PROVE IssuanceTypeInv'
    BY <1>1, HandlerStepType
  <1>2. CASE HoldCeremony
    <2>1. HsmTypeOK' /\ CeremonyTypeOK'
      BY <1>2, CeremonyStepType DEF HoldCeremony, IssuanceTypeInv, IssuanceTypeOK
    <2>2. QED
      BY <1>2, <2>1
      DEF HoldCeremony, IssuanceTypeInv, IssuanceTypeOK, fsVars, FileTypeOK
  <1>3. CASE StartServer
    BY <1>3
    DEF StartServer, IssuanceTypeInv, IssuanceTypeOK, fsVars, FileTypeOK,
        HsmTypeOK, CeremonyTypeOK, ceremonyVars
  <1>4. CASE Crash
    <2>1. FileTypeOK'
      BY <1>4 DEF Crash, CloseAll, IssuanceTypeInv, IssuanceTypeOK, FileTypeOK, Places
    <2>2. QED
      BY <1>4, <2>1, DieType DEF Crash, IssuanceTypeInv, IssuanceTypeOK
  <1>5. CASE LosePower
    <2>1. FileTypeOK'
      BY <1>5, PowerLossType DEF LosePower, IssuanceTypeInv, IssuanceTypeOK
    <2>2. outages' \in 0..MaxOutages
      BY <1>5, IssuanceAssumption DEF LosePower, IssuanceTypeInv, IssuanceTypeOK
    <2>3. QED
      BY <1>5, <2>1, <2>2, DieType DEF LosePower, IssuanceTypeInv, IssuanceTypeOK
  <1>6. CASE UNCHANGED issuanceVars
    BY <1>6
    DEF issuanceVars, IssuanceTypeInv, IssuanceTypeOK, FileTypeOK, HsmTypeOK, CeremonyTypeOK
  <1>7. QED
    BY <1>1, <1>2, <1>3, <1>4, <1>5, <1>6 DEF IssuanceNext

LEMMA IssuanceTypeInvariant == IssuanceSpec => []IssuanceTypeInv
  <1>1. QED
    BY TypeInit, TypeNext, PTL DEF IssuanceSpec

\* Whatever the servers, ceremonies and losses of power do, every variable of
\* the library, the token, the file and the handlers keeps its type.
THEOREM IssuanceTypeCorrect == IssuanceSpec => []IssuanceTypeOK
  <1>1. IssuanceTypeInv => IssuanceTypeOK
    BY DEF IssuanceTypeInv
  <1>2. QED
    BY <1>1, IssuanceTypeInvariant, PTL

-----------------------------------------------------------------------------
(* Nothing is left open *)

\* A handler outside its section has the library as the others left it, one
\* that leaves the section has finalised it, and one that stays in it may do
\* anything.
LEMMA SectionStep ==
  ASSUME IssuanceTypeInv, NEW h \in Clients, HandlerStep(h)
  PROVE  \/ library' = Finalised
         \/ InSection(h)'
         \/ library' = library /\ ~InSection(h)
  <1> USE DEF InSection, SaveSteps
  <1>1. /\ handler[h] \in Handlers
        /\ Fit(handler[h].pc, handler[h].request, handler[h].credential)
    BY DEF IssuanceTypeInv, FitHandlers
  <1>2. ASSUME NEW pc \in HandlerSteps, Goto(h, pc)
        PROVE  handler'[h].pc = pc /\ handler'[h].request = handler[h].request
    BY <1>2, GoesOn
  <1>3. CASE Register(h) \/ Vote(h) \/ AnswerFailure(h) \/ SendTransaction(h)
    BY <1>3 DEF Register, Vote, Accept, AnswerFailure, SendTransaction, At
  <1>4. CASE LoadFile(h)
    BY <1>4 DEF LoadFile, LoadForVote, LoadForConfirm, At
  <1>5. CASE OpenContext(h)
    BY <1>2, <1>5 DEF OpenContext, InitialiseTwice, At, HandlerSteps
  <1>6. CASE StartSession(h)
    BY <1>2, <1>6 DEF StartSession, Abort, DropContext, HandlerSteps
  <1>7. CASE LogIn(h)
    <2>1. CASE Login(h) /\ handler[h].request = "register"
      BY <1>2, <1>7, <2>1 DEF LogIn, Abort, DropContext, HandlerSteps
    <2>2. CASE Login(h) /\ handler[h].request # "register"
      BY <1>2, <1>7, <2>2 DEF LogIn, Abort, DropContext, HandlerSteps
    <2>3. QED
      BY <1>7, <2>1, <2>2 DEF LogIn, Abort, DropContext
  <1>8. CASE Issue(h)
    BY <1>8, Issues DEF Issue, Abort, DropContext
  <1>9. CASE Verify(h) \/ Sign(h) \/ LogOut(h)
    BY <1>2, <1>9 DEF Verify, Sign, LogOut, Abort, DropContext, HandlerSteps
  <1>10. CASE SaveStep(h)
    <2>1. CASE handler[h].request = "register"
      <3>1. \E pc \in SaveSteps \cup {"verify"} : Goto(h, pc)
        BY <1>10, <2>1 DEF SaveStep, AfterSave
      <3>2. QED
        BY <1>2, <2>1, <3>1 DEF HandlerSteps
    <2>2. CASE handler[h].request # "register"
      BY <1>10, <2>2 DEF SaveStep, At
    <2>3. QED
      BY <2>1, <2>2
  <1>11. CASE SaveFails(h)
    BY <1>11
    DEF SaveFails, FirstSaveFails, SecondSaveFails, SaveAborted, DropContext
  <1>12. QED
    BY <1>3, <1>4, <1>5, <1>6, <1>7, <1>8, <1>9, <1>10, <1>11 DEF HandlerStep

LEMMA NothingLeftOpenNext ==
  IssuanceTypeInv /\ NothingLeftOpen /\ [IssuanceNext]_issuanceVars => NothingLeftOpen'
  <1> SUFFICES ASSUME IssuanceTypeInv, NothingLeftOpen, [IssuanceNext]_issuanceVars
               PROVE  NothingLeftOpen'
    OBVIOUS
  <1>1. ASSUME NEW h \in Clients, HandlerStep(h) PROVE NothingLeftOpen'
    <2>1. \A g \in Clients \ {h} : InSection(g) => InSection(g)'
      BY <1>1, HandlerStepFits DEF InSection
    <2>2. CASE library' = Finalised
      BY <2>2 DEF NothingLeftOpen, Finalised
    <2>3. CASE InSection(h)'
      BY <2>3 DEF NothingLeftOpen
    <2>4. CASE library' = library /\ ~InSection(h) /\ library # Finalised
      BY <2>1, <2>4 DEF NothingLeftOpen
    <2>5. QED
      BY <1>1, <2>2, <2>3, <2>4, SectionStep
  <1>2. CASE HoldCeremony \/ StartServer
    BY <1>2 DEF HoldCeremony, StartServer, NothingLeftOpen, InSection, Finalised
  <1>3. CASE Crash \/ LosePower
    BY <1>3 DEF Crash, LosePower, Die, NothingLeftOpen, Finalised
  <1>4. CASE UNCHANGED issuanceVars
    BY <1>4 DEF issuanceVars, NothingLeftOpen, InSection, Finalised
  <1>5. QED
    BY <1>1, <1>2, <1>3, <1>4 DEF IssuanceNext

\* The library is initialised, and somebody logged in, only while a handler is
\* in its HSM section, however handlers get in each other's way and whatever
\* fails.
THEOREM IssuanceNothingLeftOpen == IssuanceSpec => []NothingLeftOpen
  <1>1. IssuanceInit => NothingLeftOpen
    BY DEF IssuanceInit, HsmInit, NothingLeftOpen
  <1>2. QED
    BY <1>1, IssuanceTypeInvariant, NothingLeftOpenNext, PTL DEF IssuanceSpec

-----------------------------------------------------------------------------
(* One request at a time: the file *)

Alone(h) == \A g \in Clients \ {h} : At(g, "idle")

OneAtATime == serial => \A h \in Clients : At(h, "idle") \/ Alone(h)

\* The paths lead to whole credentials that are synced, and the temporary
\* name to something else.
PathsWhole ==
    /\ \A i \in {names.path, syncedPath} \ {NoFile} :
          data[i] \in Credentials /\ syncedData[i] = data[i]
    /\ names.tmp # NoFile => names.tmp # names.path /\ names.tmp # syncedPath

OpensTmp(h) == open[h] = names.tmp /\ open[h] \in Inodes

\* How far the handler has got with the save.
SaveAt(h) ==
    /\ handler[h].pc \notin {"write", "sync", "rename", "sync directory"} => open[h] = NoFile
    /\ At(h, "write") => OpensTmp(h) /\ data[open[h]] = Empty
    /\ At(h, "sync") => OpensTmp(h) /\ data[open[h]] = handler[h].credential
    /\ At(h, "rename") =>
         /\ OpensTmp(h)
         /\ data[open[h]] = handler[h].credential
         /\ syncedData[open[h]] = handler[h].credential
    /\ At(h, "sync directory") =>
         names.path \in Inodes /\ data[names.path] = handler[h].credential
    /\ handler[h].request = "register" /\ handler[h].pc \in {"verify", "logout", "send"} =>
         /\ names.path \in Inodes /\ syncedPath = names.path
         /\ data[names.path] = handler[h].credential

FileInv == serial => PathsWhole /\ \A h \in Clients : SaveAt(h)

IssuanceFileInv == IssuanceTypeInv /\ OneAtATime /\ FileInv

\* Only a new request moves an idle handler.
LEMMA IdleAccepts ==
  ASSUME NEW h \in Clients, HandlerStep(h), At(h, "idle")
  PROVE  Accept(h)
  BY DEF HandlerStep, Register, Vote, LoadFile, LoadForVote, LoadForConfirm,
         OpenContext, StartSession, LogIn, Issue, Verify, Sign, LogOut,
         AnswerFailure, SaveStep, SaveFails, FirstSaveFails, SecondSaveFails,
         SaveAborted, SaveSteps, SendTransaction, At

\* A handler that moves is alone.
LEMMA AloneSteps ==
  ASSUME OneAtATime, serial, NEW h \in Clients, HandlerStep(h)
  PROVE  Alone(h)
  <1>1. CASE At(h, "idle")
    BY <1>1, IdleAccepts DEF Accept, Alone
  <1>2. QED
    BY <1>1 DEF OneAtATime

LEMMA OneAtATimeNext ==
  IssuanceTypeInv /\ OneAtATime /\ [IssuanceNext]_issuanceVars => OneAtATime'
  <1> SUFFICES ASSUME IssuanceTypeInv, OneAtATime, [IssuanceNext]_issuanceVars
               PROVE  OneAtATime'
    OBVIOUS
  <1>1. ASSUME NEW h \in Clients, HandlerStep(h) PROVE OneAtATime'
    <2>1. serial' = serial /\ \A g \in Clients \ {h} : handler'[g] = handler[g]
      BY <1>1, HandlerStepFits, HandlerStepFrame DEF setupVars
    <2>2. serial => Alone(h)
      BY <1>1, AloneSteps
    <2>3. QED
      BY <2>1, <2>2 DEF OneAtATime, Alone, At
  <1>2. CASE HoldCeremony \/ StartServer
    BY <1>2 DEF HoldCeremony, StartServer, OneAtATime, Alone, At
  <1>3. CASE Crash \/ LosePower
    <2>1. serial' = serial /\ \A h \in Clients : handler'[h] = Idle
      BY <1>3 DEF Crash, LosePower, Die
    <2>2. QED
      BY <2>1 DEF Idle, OneAtATime, Alone, At
  <1>4. CASE UNCHANGED issuanceVars
    BY <1>4 DEF issuanceVars, OneAtATime, Alone, At
  <1>5. QED
    BY <1>1, <1>2, <1>3, <1>4 DEF IssuanceNext

\* What a step of a save does when one handler saves at a time.
LEMMA SaveStepKeeps ==
  ASSUME IssuanceFileInv, serial, NEW h \in Clients, SaveStep(h)
  PROVE  /\ PathsWhole' /\ SaveAt(h)'
         /\ \A g \in Clients \ {h} : open'[g] = open[g]
         /\ \/ Loaded' = Loaded /\ Behind(syncedPath, syncedData)' = Behind(syncedPath, syncedData)
            \/ /\ Loaded' \in Credentials
               /\ Behind(syncedPath, syncedData)' = Behind(syncedPath, syncedData)
            \/ /\ Behind(syncedPath, syncedData)' = Loaded
               /\ Loaded' = Loaded
  <1> DEFINE c == handler[h].credential
  <1>1. /\ PathsWhole /\ SaveAt(h) /\ FileTypeOK
        /\ handler[h] \in Handlers
        /\ c \in Credentials
        /\ names \in [tmp : Places, path : Places] /\ syncedPath \in Places
        /\ data \in [Inodes -> Data] /\ syncedData \in [Inodes -> Data]
        /\ open \in [Clients -> Places] /\ NoFile \notin Inodes
        /\ Writers = Clients
    BY IssuanceAssumption
    DEF IssuanceFileInv, FileInv, IssuanceTypeInv, IssuanceTypeOK, FileTypeOK, FitHandlers, Fit,
        SaveStep, At, SaveSteps
  <1>2. ASSUME NEW pc \in HandlerSteps, Goto(h, pc)
        PROVE  /\ handler'[h].pc = pc /\ handler'[h].request = handler[h].request
               /\ handler'[h].credential = c
    BY <1>2, GoesOn DEF IssuanceFileInv
  <1>3. Empty \in Data /\ c \in Data /\ c # NoFile
    BY <1>1, IssuanceAssumption DEF Data
  <1>4. CASE At(h, "create") /\ CreateTmp(h) /\ Goto(h, "write")
    <2>1. /\ handler'[h].pc = "write"
          /\ handler'[h].request = handler[h].request /\ handler'[h].credential = c
      BY <1>2, <1>4 DEF HandlerSteps, SaveSteps
    <2>2. \E new \in Inodes :
            /\ new # names.path /\ new # syncedPath
            /\ open' = [open EXCEPT ![h] = new]
            /\ names'.tmp = new /\ names'.path = names.path
            /\ data' = [data EXCEPT ![new] = Empty]
      <3>1. CASE names.tmp # NoFile
        BY <1>1, <1>4, <3>1 DEF CreateTmp, PathsWhole, Places
      <3>2. CASE names.tmp = NoFile
        <4> DEFINE new == CHOOSE i \in Inodes : i \notin InUse
        <4>1. new \in Inodes /\ new \notin InUse
          BY <1>4, <3>2 DEF CreateTmp
        <4>2. open' = [open EXCEPT ![h] = new] /\ names' = [names EXCEPT !.tmp = new]
          BY <1>4, <3>2 DEF CreateTmp
        <4> HIDE DEF new
        <4>3. new # names.path /\ new # syncedPath
          BY <4>1 DEF InUse
        <4>4. open'[h] = new /\ names'.tmp = new /\ names'.path = names.path
          BY <1>1, <4>2
        <4>5. data' = [data EXCEPT ![new] = Empty]
          BY <1>4, <4>4 DEF CreateTmp
        <4>6. QED
          BY <4>1, <4>2, <4>3, <4>4, <4>5
      <3>3. QED
        BY <3>1, <3>2
    <2>3. syncedPath' = syncedPath /\ syncedData' = syncedData
      BY <1>4 DEF CreateTmp
    <2>4. PICK new \in Inodes :
            /\ new # names.path /\ new # syncedPath
            /\ open' = [open EXCEPT ![h] = new]
            /\ names'.tmp = new /\ names'.path = names.path
            /\ data' = [data EXCEPT ![new] = Empty]
      BY <2>2
    <2>5. data'[new] = Empty /\ \A i \in Inodes \ {new} : data'[i] = data[i]
      BY <1>1, <2>4
    <2>6. PathsWhole'
      BY <1>1, <2>3, <2>4, <2>5 DEF PathsWhole, Places
    <2>7. SaveAt(h)'
      BY <1>1, <2>1, <2>4, <2>5 DEF SaveAt, OpensTmp, At
    <2>8. Loaded' = Loaded /\ Behind(syncedPath, syncedData)' = Behind(syncedPath, syncedData)
      BY <1>1, <2>3, <2>4, <2>5 DEF Loaded, Behind, Places
    <2>9. QED
      BY <1>1, <2>4, <2>6, <2>7, <2>8
  <1>5. CASE At(h, "write") /\ WriteTmp(h, c) /\ Goto(h, "sync")
    <2>1. /\ handler'[h].pc = "sync"
          /\ handler'[h].request = handler[h].request /\ handler'[h].credential = c
      BY <1>2, <1>5 DEF HandlerSteps, SaveSteps
    <2>2. data' = [data EXCEPT ![open[h]] = c]
      BY <1>1, <1>5 DEF WriteTmp, SaveAt
    <2>3. QED
      BY <1>1, <1>5, <2>1, <2>2
      DEF WriteTmp, PathsWhole, SaveAt, OpensTmp, At, Loaded, Behind, Places
  <1>6. CASE At(h, "sync") /\ SyncTmp(h) /\ Goto(h, "rename")
    <2>1. /\ handler'[h].pc = "rename"
          /\ handler'[h].request = handler[h].request /\ handler'[h].credential = c
      BY <1>2, <1>6 DEF HandlerSteps, SaveSteps
    <2>2. QED
      BY <1>1, <1>6, <2>1
      DEF SyncTmp, PathsWhole, SaveAt, OpensTmp, At, Loaded, Behind, Places
  <1>7. CASE At(h, "rename") /\ RenameTmp /\ Goto(h, "sync directory")
    <2>1. /\ handler'[h].pc = "sync directory"
          /\ handler'[h].request = handler[h].request /\ handler'[h].credential = c
      BY <1>2, <1>7 DEF HandlerSteps, SaveSteps
    <2>2. names'.tmp = NoFile /\ names'.path = names.tmp
      BY <1>7 DEF RenameTmp
    <2>3. /\ data' = data /\ syncedData' = syncedData
          /\ syncedPath' = syncedPath /\ open' = open
      BY <1>7 DEF RenameTmp
    <2>4. /\ names.tmp \in Inodes /\ data[names.tmp] = c /\ syncedData[names.tmp] = c
          /\ open[h] = names.tmp
      BY <1>1, <1>7 DEF SaveAt, OpensTmp
    <2>5. PathsWhole'
      BY <1>1, <2>2, <2>3, <2>4 DEF PathsWhole, Places
    <2>6. SaveAt(h)'
      BY <1>1, <2>1, <2>2, <2>3, <2>4 DEF SaveAt, At
    <2>7. /\ Loaded' \in Credentials
          /\ Behind(syncedPath, syncedData)' = Behind(syncedPath, syncedData)
      BY <1>1, <2>2, <2>3, <2>4 DEF Loaded, Behind
    <2>8. QED
      BY <2>3, <2>5, <2>6, <2>7
  <1>8. CASE At(h, "sync directory") /\ SyncDirectory(h) /\ Goto(h, AfterSave(h))
    <2>1. \E pc \in {"verify", "idle"} :
            /\ handler'[h].pc = pc
            /\ handler'[h].request = handler[h].request /\ handler'[h].credential = c
      BY <1>2, <1>8 DEF AfterSave, HandlerSteps
    <2>2. QED
      BY <1>1, <1>8, <2>1
      DEF SyncDirectory, PathsWhole, SaveAt, OpensTmp, At, Loaded, Behind, Places
  <1>9. QED
    BY <1>4, <1>5, <1>6, <1>7, <1>8, Zenon DEF SaveStep, IssuanceFileInv

LEMMA OtherStepKeeps ==
  ASSUME IssuanceFileInv, serial, NEW h \in Clients, HandlerStep(h), ~SaveStep(h)
  PROVE  /\ PathsWhole' /\ SaveAt(h)'
         /\ \A g \in Clients \ {h} : open'[g] = open[g]
         /\ Loaded' = Loaded /\ Behind(syncedPath, syncedData)' = Behind(syncedPath, syncedData)
  <1>1. /\ PathsWhole /\ SaveAt(h) /\ FileTypeOK
        /\ handler[h] \in Handlers
        /\ Fit(handler[h].pc, handler[h].request, handler[h].credential)
        /\ open \in [Clients -> Places]
    BY IssuanceAssumption
    DEF IssuanceFileInv, FileInv, IssuanceTypeInv, IssuanceTypeOK, FileTypeOK, FitHandlers
  <1>2. ASSUME NEW pc \in HandlerSteps, Goto(h, pc)
        PROVE  /\ handler'[h].pc = pc /\ handler'[h].request = handler[h].request
               /\ handler'[h].credential = handler[h].credential
    BY <1>2, GoesOn DEF IssuanceFileInv
  <1>3. /\ names' = names /\ syncedPath' = syncedPath
        /\ data' = data /\ syncedData' = syncedData
        /\ \/ open' = open /\ ~SaveFails(h)
           \/ open' = [open EXCEPT ![h] = NoFile] /\ SaveFails(h)
    BY DEF HandlerStep, Register, Vote, LoadFile, LoadForVote, LoadForConfirm,
           OpenContext, StartSession, LogIn, Issue, Verify, Sign, LogOut,
           AnswerFailure, SaveFails, FirstSaveFails, SecondSaveFails, SaveAborted,
           CloseFile, SendTransaction, fsVars, At, SaveSteps
  <1>4. PathsWhole' /\ Loaded' = Loaded
        /\ Behind(syncedPath, syncedData)' = Behind(syncedPath, syncedData)
    BY <1>1, <1>3 DEF PathsWhole, Loaded, Behind
  <1>5. SaveAt(h)'
    <2> USE DEF SaveAt, At
    <2>1. CASE SaveFails(h)
      <3>1. handler'[h] = Idle /\ open'[h] = NoFile
        BY <1>1, <1>3, <2>1, BecomesIdle
        DEF SaveFails, FirstSaveFails, SecondSaveFails, SaveAborted,
            IssuanceFileInv
      <3>2. QED
        BY <3>1 DEF Idle
    <2>2. CASE Register(h) \/ Vote(h)
      <3>1. open'[h] = NoFile
        BY <1>1, <1>3, <2>2
        DEF Register, Vote, Accept, SaveFails, FirstSaveFails, SecondSaveFails,
            SaveAborted, SaveSteps
      <3>2. QED
        BY <2>2, <3>1, TakesRequest DEF IssuanceFileInv
    <2>3. CASE LoadFile(h)
      <3>1. open'[h] = NoFile
        BY <1>1, <1>3, <2>3
        DEF LoadFile, LoadForVote, LoadForConfirm, SaveFails, FirstSaveFails,
            SecondSaveFails, SaveAborted, SaveSteps
      <3>2. handler'[h].pc \in {"idle", "context", "create"}
        BY <2>3, ReadsFile DEF IssuanceFileInv, Idle
      <3>3. QED
        BY <3>1, <3>2
    <2>4. CASE OpenContext(h) \/ StartSession(h) \/ LogIn(h)
      <3>1. open'[h] = NoFile
        BY <1>1, <1>3, <2>4
        DEF OpenContext, StartSession, LogIn, SaveFails, FirstSaveFails,
            SecondSaveFails, SaveAborted, SaveSteps
      <3>2. \E pc \in {"session", "login", "issue", "sign", "failed"} : Goto(h, pc)
        BY <2>4 DEF OpenContext, StartSession, LogIn, Abort
      <3>3. QED
        BY <1>2, <3>1, <3>2 DEF HandlerSteps
    <2>5. CASE Issue(h)
      <3>1. open'[h] = NoFile
        BY <1>1, <1>3, <2>5
        DEF Issue, SaveFails, FirstSaveFails, SecondSaveFails, SaveAborted,
            SaveSteps
      <3>2. CASE Goto(h, "failed")
        <4>1. handler'[h].pc = "failed"
          BY <1>2, <3>2 DEF HandlerSteps
        <4>2. QED
          BY <3>1, <4>1
      <3>3. CASE ~Goto(h, "failed")
        <4>1. handler'[h].pc = "create"
          BY <2>5, <3>3, Issues DEF Issue, Abort, IssuanceFileInv
        <4>2. QED
          BY <3>1, <4>1
      <3>4. QED
        BY <3>2, <3>3
    <2>6. CASE Verify(h) \/ Sign(h) \/ LogOut(h)
      <3>1. open' = open /\ handler[h].pc \in {"verify", "sign", "logout"}
        BY <1>3, <2>6
        DEF Verify, Sign, LogOut, SaveFails, FirstSaveFails, SecondSaveFails,
            SaveAborted, SaveSteps
      <3>2. handler[h].pc = "sign" => handler[h].request = "vote"
        BY <1>1 DEF Fit
      <3>3. \E pc \in {"logout", "send", "failed"} : Goto(h, pc)
        BY <2>6 DEF Verify, Sign, LogOut, Abort
      <3>4. QED
        BY <1>1, <1>2, <1>3, <3>1, <3>2, <3>3 DEF HandlerSteps
    <2>7. CASE AnswerFailure(h)
      <3>1. open'[h] = NoFile /\ handler'[h] = Idle
        BY <1>1, <1>3, <2>7, BecomesIdle
        DEF AnswerFailure, SaveFails, FirstSaveFails, SecondSaveFails,
            SaveAborted, SaveSteps, IssuanceFileInv
      <3>2. QED
        BY <3>1 DEF Idle
    <2>8. CASE SendTransaction(h)
      <3>1. open'[h] = NoFile
        BY <1>1, <1>3, <2>8
        DEF SendTransaction, SaveFails, FirstSaveFails, SecondSaveFails,
            SaveAborted, SaveSteps
      <3>2. handler'[h].pc \in {"idle", "load"}
        BY <2>8, Sends DEF IssuanceFileInv, Idle
      <3>3. QED
        BY <3>1, <3>2
    <2>9. QED
      BY <2>1, <2>2, <2>3, <2>4, <2>5, <2>6, <2>7, <2>8 DEF HandlerStep
  <1>6. QED
    BY <1>1, <1>3, <1>4, <1>5

\* Losing power leaves what is behind one of the two paths.
LEMMA PowerLossKeeps ==
  ASSUME IssuanceFileInv, serial, PowerLoss
  PROVE  /\ PathsWhole'
         /\ \A h \in Clients : open'[h] = NoFile
         /\ Behind(syncedPath, syncedData)' = Loaded'
         /\ \/ Loaded' = Loaded
            \/ Loaded' = Behind(syncedPath, syncedData)
  <1>1. /\ PathsWhole /\ NoFile \notin Inodes /\ Writers = Clients
        /\ names.path \in Places /\ syncedPath \in Places
        /\ data \in [Inodes -> Data] /\ syncedData \in [Inodes -> Data]
    BY IssuanceAssumption
    DEF IssuanceFileInv, FileInv, IssuanceTypeInv, IssuanceTypeOK, FileTypeOK
  <1>2. PICK place \in {names.path, syncedPath} :
          names' = [tmp |-> NoFile, path |-> place] /\ syncedPath' = place
    BY DEF PowerLoss
  <1>3. PICK kept \in [Unsynced -> {"synced", "written", "neither"}] :
          data' = [i \in Inodes |->
                     IF i \notin Unsynced \/ kept[i] = "synced" THEN syncedData[i]
                     ELSE IF kept[i] = "written" THEN data[i] ELSE Garbage]
    BY DEF PowerLoss
  <1>4. place # NoFile =>
          /\ place \in Inodes /\ data[place] = syncedData[place]
          /\ syncedData[place] \in Credentials
    BY <1>1, <1>2 DEF PathsWhole, Places
  <1>5. place # NoFile => data'[place] = syncedData[place]
    BY <1>3, <1>4 DEF Unsynced
  <1>6. syncedData' = data' /\ open' = [w \in Writers |-> NoFile]
    BY DEF PowerLoss
  <1>7. names'.tmp = NoFile /\ names'.path = place
    BY <1>2
  <1>8. PathsWhole'
    BY <1>2, <1>4, <1>5, <1>6, <1>7 DEF PathsWhole
  <1>9. QED
    BY <1>1, <1>2, <1>4, <1>5, <1>6, <1>7, <1>8 DEF Loaded, Behind

LEMMA SerialKept == [IssuanceNext]_issuanceVars => serial' = serial
  <1>1. ASSUME NEW h \in Clients, HandlerStep(h) PROVE serial' = serial
    BY <1>1, HandlerStepFrame DEF setupVars
  <1>2. HoldCeremony \/ StartServer \/ Crash \/ LosePower => serial' = serial
    BY DEF HoldCeremony, StartServer, Crash, LosePower, Die
  <1>3. UNCHANGED issuanceVars => serial' = serial
    BY DEF issuanceVars
  <1>4. QED
    BY <1>1, <1>2, <1>3 DEF IssuanceNext

LEMMA FileInvNext ==
  IssuanceFileInv /\ [IssuanceNext]_issuanceVars => FileInv'
  <1> SUFFICES ASSUME IssuanceFileInv, [IssuanceNext]_issuanceVars, serial
               PROVE  PathsWhole' /\ \A h \in Clients : SaveAt(h)'
    BY SerialKept DEF FileInv
  <1>1. PathsWhole /\ \A h \in Clients : SaveAt(h)
    BY DEF IssuanceFileInv, FileInv
  <1>2. ASSUME NEW h \in Clients, HandlerStep(h)
        PROVE  PathsWhole' /\ \A g \in Clients : SaveAt(g)'
    <2>1. /\ PathsWhole' /\ SaveAt(h)'
          /\ \A g \in Clients \ {h} : open'[g] = open[g]
      BY <1>2, SaveStepKeeps, OtherStepKeeps, Zenon
    <2>2. \A g \in Clients \ {h} : handler'[g] = handler[g] /\ At(g, "idle")
      BY <1>2, AloneSteps, HandlerStepFits DEF IssuanceFileInv, Alone
    <2>3. \A g \in Clients \ {h} : SaveAt(g)'
      BY <1>1, <2>1, <2>2 DEF SaveAt, At
    <2>4. QED
      BY <2>1, <2>3
  <1>3. CASE UNCHANGED <<fsVars, handler>>
    BY <1>1, <1>3 DEF fsVars, PathsWhole, SaveAt, OpensTmp, At
  <1>4. CASE Crash
    <2>1. /\ names' = names /\ syncedPath' = syncedPath
          /\ data' = data /\ syncedData' = syncedData
          /\ \A h \in Clients : open'[h] = NoFile /\ handler'[h] = Idle
      BY <1>4, IssuanceAssumption DEF Crash, Die, CloseAll
    <2>2. \A h \in Clients : handler'[h].pc = "idle" /\ handler'[h].request = "vote"
      BY <2>1 DEF Idle
    <2>3. PathsWhole'
      BY <1>1, <2>1 DEF PathsWhole
    <2>4. QED
      BY <2>1, <2>2, <2>3 DEF SaveAt, At
  <1>5. CASE LosePower
    <2>1. \A h \in Clients : handler'[h] = Idle
      BY <1>5 DEF LosePower, Die
    <2>2. \A h \in Clients : handler'[h].pc = "idle" /\ handler'[h].request = "vote"
      BY <2>1 DEF Idle
    <2>3. PathsWhole' /\ \A h \in Clients : open'[h] = NoFile
      BY <1>5, PowerLossKeeps DEF LosePower
    <2>4. QED
      BY <2>2, <2>3 DEF SaveAt, At
  <1>6. CASE HoldCeremony \/ StartServer \/ UNCHANGED issuanceVars
    BY <1>3, <1>6 DEF HoldCeremony, StartServer, issuanceVars, fsVars
  <1>7. QED
    BY <1>2, <1>4, <1>5, <1>6 DEF IssuanceNext

LEMMA FileInit == IssuanceInit => OneAtATime /\ FileInv
  <1> SUFFICES ASSUME IssuanceInit PROVE OneAtATime /\ FileInv
    OBVIOUS
  <1>1. \A h \in Clients : handler[h].pc = "idle" /\ handler[h].request = "vote"
    BY DEF IssuanceInit, Idle
  <1>2. names.tmp = NoFile /\ names.path = NoFile /\ syncedPath = NoFile
    BY DEF IssuanceInit, CredentialFileInit
  <1>3. \A h \in Clients : open[h] = NoFile
    BY IssuanceAssumption DEF IssuanceInit, CredentialFileInit
  <1>4. QED
    BY <1>1, <1>2, <1>3 DEF OneAtATime, FileInv, PathsWhole, SaveAt, OpensTmp, At

LEMMA IssuanceFileInvariant == IssuanceSpec => []IssuanceFileInv
  <1>1. IssuanceInit => IssuanceFileInv
    BY TypeInit, FileInit DEF IssuanceFileInv
  <1>2. IssuanceFileInv /\ [IssuanceNext]_issuanceVars => IssuanceFileInv'
    BY TypeNext, OneAtATimeNext, FileInvNext DEF IssuanceFileInv
  <1>3. QED
    BY <1>1, <1>2, PTL DEF IssuanceSpec

\* A commitment that is about to be sent to the chain is in the voter's file,
\* synced under its final name, whatever the crashes and losses of power before.
THEOREM IssuanceSentIsOnDisk == IssuanceSpec => []SentIsOnDisk
  <1>1. ASSUME IssuanceFileInv, serial, NEW h \in Clients,
               handler[h].request = "register", At(h, "send")
        PROVE  /\ Loaded = handler[h].credential
               /\ Behind(syncedPath, syncedData) = handler[h].credential
    <2>1. /\ names.path \in Inodes /\ syncedPath = names.path
          /\ data[names.path] = handler[h].credential
      BY <1>1 DEF IssuanceFileInv, FileInv, SaveAt, At
    <2>2. names.path # NoFile /\ syncedData[names.path] = data[names.path]
      BY <1>1, <2>1, IssuanceAssumption DEF IssuanceFileInv, FileInv, PathsWhole
    <2>3. QED
      BY <2>1, <2>2 DEF Loaded, Behind
  <1>2. QED
    <2>1. IssuanceFileInv => SentIsOnDisk
      BY <1>1 DEF SentIsOnDisk
    <2>2. QED
      BY <2>1, IssuanceFileInvariant, PTL

-----------------------------------------------------------------------------
(* The file implements the atomic file *)

\* One request at a time, a rename saves, syncing the directory settles, and a
\* loss of power settles what was saved or takes it back.
LEMMA FileStepsImplement ==
  ASSUME IssuanceFileInv, serial, serial' = serial, [IssuanceNext]_issuanceVars
  PROVE  \/ /\ Loaded' \in Credentials
            /\ Behind(syncedPath, syncedData)' = Behind(syncedPath, syncedData)
         \/ /\ Behind(syncedPath, syncedData)' = Loaded
            /\ Loaded' = Loaded
         \/ /\ Loaded' = Behind(syncedPath, syncedData)
            /\ Behind(syncedPath, syncedData)' = Behind(syncedPath, syncedData)
         \/ /\ Loaded' = Loaded
            /\ Behind(syncedPath, syncedData)' = Behind(syncedPath, syncedData)
  <1>1. ASSUME NEW h \in Clients, HandlerStep(h), ~SaveStep(h)
        PROVE  /\ Loaded' = Loaded
               /\ Behind(syncedPath, syncedData)' = Behind(syncedPath, syncedData)
    BY <1>1, OtherStepKeeps
  <1>2. ASSUME NEW h \in Clients, SaveStep(h)
        PROVE  \/ /\ Loaded' = Loaded
                  /\ Behind(syncedPath, syncedData)' = Behind(syncedPath, syncedData)
               \/ /\ Loaded' \in Credentials
                  /\ Behind(syncedPath, syncedData)' = Behind(syncedPath, syncedData)
               \/ /\ Behind(syncedPath, syncedData)' = Loaded
                  /\ Loaded' = Loaded
    BY <1>2, SaveStepKeeps
  <1>3. CASE Crash \/ HoldCeremony \/ StartServer \/ UNCHANGED issuanceVars
    BY <1>3 DEF Crash, CloseAll, HoldCeremony, StartServer, issuanceVars, fsVars, Loaded, Behind
  <1>4. CASE LosePower
    BY <1>4, PowerLossKeeps DEF LosePower
  <1>5. QED
    BY <1>1, <1>2, <1>3, <1>4 DEF IssuanceNext

LEMMA FileStepsMap ==
  IssuanceFileInv /\ [IssuanceNext]_issuanceVars => [File!FileNext]_(File!fileVars)
  <1> SUFFICES ASSUME IssuanceFileInv, [IssuanceNext]_issuanceVars
               PROVE  [File!FileNext]_(File!fileVars)
    OBVIOUS
  <1> USE DEF File!FileNext, File!Save, File!Settle, File!PowerFails, File!fileVars
  <1>1. CASE serial
    BY <1>1, SerialKept, FileStepsImplement
  <1>2. CASE ~serial
    BY <1>2, SerialKept
  <1>3. QED
    BY <1>1, <1>2

\* Loading, saving with its five steps, crashing and losing power implement
\* the atomic file that the servers count on, one request at a time.
THEOREM IssuanceImplementsAtomicFile == IssuanceSpec => ImplementsAtomicFile
  <1>1. IssuanceInit => File!FileInit
    BY DEF IssuanceInit, CredentialFileInit, File!FileInit, Loaded, Behind
  <1>2. QED
    BY <1>1, IssuanceFileInvariant, FileStepsMap, PTL
    DEF IssuanceSpec, ImplementsAtomicFile, File!FileSpec

-----------------------------------------------------------------------------
(* Ceremonies *)

Pub == Found("ballot-sign", "public")
Priv == Found("ballot-sign", "private")

\* Labels go with halves, and every key that a later step counts on is there,
\* however ceremonies interleave.
TokenFits ==
    /\ \A o \in token : o.label = "ballot-sign" <=> o.half # "secret"
    /\ Priv # {} => Pub # {}
    /\ \A m \in Makers :
         /\ ceremony[m] \in {"attestation?", "attestation", "pair?", "public", "private"} =>
              Found("kwrap", "secret") # {}
         /\ ceremony[m] \in {"pair?", "public", "private"} =>
              Found("attestation", "secret") # {}
         /\ ceremony[m] = "private" => Pub # {}
    /\ Pub # {} => Found("kwrap", "secret") # {} /\ Found("attestation", "secret") # {}

\* Ceremonies one at a time: what the one that runs is about to generate is
\* not there yet, and nothing is there twice.
OneOfEach ==
    /\ \A m, n \in Makers : ceremony[m] # "out" /\ ceremony[n] # "out" => m = n
    /\ \A a, b \in token : a.label = b.label => a.maker = b.maker
    /\ \A m \in Makers :
         /\ ceremony[m] = "kwrap" => Found("kwrap", "secret") = {}
         /\ ceremony[m] = "attestation" => Found("attestation", "secret") = {}
         /\ ceremony[m] = "public" => Pub = {} /\ Priv = {}
         /\ ceremony[m] = "private" =>
              Priv = {} /\ printed = {} /\ \A o \in Pub : o.maker = m
    /\ \A m \in printed : \E o \in Pub : o.maker = m
    /\ Pub # {} /\ (\A m \in Makers : ceremony[m] # "private") => Priv # {}

CeremonyInv == TokenFits /\ (orderly => OneOfEach)

LEMMA GenerateKeeps ==
  ASSUME CeremonyTypeOK, HsmTypeOK, CeremonyInv, NEW m \in Makers,
         NEW step \in Steps, NEW label \in Labels,
         NEW half \in {"secret", "public", "private"}, NEW next \in Steps,
         Generate(m, step, label, half, next),
         label = "ballot-sign" <=> half # "secret",
         \/ step = "kwrap" /\ label = "kwrap" /\ next = "attestation?"
         \/ step = "attestation" /\ label = "attestation" /\ next = "pair?"
         \/ step = "public" /\ half = "public" /\ next = "private"
         \/ step = "private" /\ half = "private" /\ next = "print"
  PROVE  CeremonyInv'
  <1> DEFINE new == [label |-> label, half |-> half, maker |-> m]
  <1>1. /\ ceremony[m] = step /\ ceremony'[m] = next
        /\ \A n \in Makers \ {m} : ceremony'[n] = ceremony[n]
        /\ printed' = printed /\ orderly' = orderly
        /\ token' = token \cup {new}
    BY DEF Generate, Generated, CeremonyTypeOK
  <1>2. /\ new.label = label /\ new.half = half /\ new.maker = m
    OBVIOUS
  <1>3. \A l, k : Found(l, k)' = Found(l, k) \cup (IF l = label /\ k = half THEN {new} ELSE {})
    BY <1>1, <1>2 DEF Found
  <1>4. \A l, k : \A o \in Found(l, k) : o.label = l /\ o.half = k /\ o \in token
    BY DEF Found
  <1> HIDE DEF new
  <1>5. TokenFits'
    <2> USE DEF TokenFits, CeremonyInv, Pub, Priv
    <2>1. (\A o \in token : o.label = "ballot-sign" <=> o.half # "secret")'
      BY <1>1, <1>2
    <2>2. (Priv # {} => Pub # {})'
      BY <1>1, <1>3
    <2>3. (\A n \in Makers :
             /\ ceremony[n] \in {"attestation?", "attestation", "pair?", "public", "private"} =>
                  Found("kwrap", "secret") # {}
             /\ ceremony[n] \in {"pair?", "public", "private"} =>
                  Found("attestation", "secret") # {}
             /\ ceremony[n] = "private" => Pub # {})'
      BY <1>1, <1>3
    <2>4. (Pub # {} => Found("kwrap", "secret") # {} /\ Found("attestation", "secret") # {})'
      BY <1>1, <1>3
    <2>5. QED
      BY <2>1, <2>2, <2>3, <2>4
  <1>6. orderly => OneOfEach'
    <2> SUFFICES ASSUME orderly PROVE OneOfEach'
      OBVIOUS
    <2> USE DEF OneOfEach, CeremonyInv, Pub, Priv
    <2>1. (\A a, b \in token : a.label = b.label => a.maker = b.maker)'
      <3>1. \A o \in token : o.label = label => o.maker = m
        <4>1. \A o \in token : o \in Found(o.label, o.half)
          BY DEF Found
        <4>2. \A o \in token : o.half \in {"secret", "public", "private"}
          BY DEF HsmTypeOK, Objects
        <4>3. QED
          BY <1>1, <4>1, <4>2 DEF TokenFits
      <3>2. QED
        BY <1>1, <1>2, <3>1
    <2>2. (\A a, b \in Makers : ceremony[a] # "out" /\ ceremony[b] # "out" => a = b)'
      BY <1>1
    <2>3. \A n \in Makers \ {m} : ceremony'[n] = "out"
      BY <1>1
    <2>4. (/\ ceremony[m] = "kwrap" => Found("kwrap", "secret") = {}
           /\ ceremony[m] = "attestation" => Found("attestation", "secret") = {}
           /\ ceremony[m] = "public" => Pub = {} /\ Priv = {}
           /\ ceremony[m] = "private" =>
                Priv = {} /\ printed = {} /\ \A o \in Pub : o.maker = m)'
      BY <1>1, <1>2, <1>3
    <2>5. (\A n \in printed : \E o \in Pub : o.maker = n)'
      BY <1>1, <1>3
    <2>6. (Pub # {} /\ (\A n \in Makers : ceremony[n] # "private") => Priv # {})'
      BY <1>1, <1>3, <2>3
    <2>7. QED
      BY <2>1, <2>2, <2>3, <2>4, <2>5, <2>6
  <1>7. QED
    BY <1>1, <1>5, <1>6 DEF CeremonyInv

LEMMA LookForKeeps ==
  ASSUME CeremonyTypeOK, CeremonyInv, NEW m \in Makers,
         \/ LookFor(m, "kwrap?", "kwrap", "secret", "kwrap", "attestation?")
         \/ LookFor(m, "attestation?", "attestation", "secret", "attestation", "pair?")
         \/ LookFor(m, "pair?", "ballot-sign", "public", "public", "print")
  PROVE  CeremonyInv'
  <1>1. /\ token' = token /\ printed' = printed /\ orderly' = orderly
        /\ \A n \in Makers \ {m} : ceremony'[n] = ceremony[n]
        /\ ceremony[m] # "out"
    BY DEF LookFor, CeremonyTypeOK
  <1>2. \/ /\ ceremony[m] = "kwrap?"
           /\ \/ Found("kwrap", "secret") = {} /\ ceremony'[m] = "kwrap"
              \/ Found("kwrap", "secret") # {} /\ ceremony'[m] = "attestation?"
        \/ /\ ceremony[m] = "attestation?"
           /\ \/ Found("attestation", "secret") = {} /\ ceremony'[m] = "attestation"
              \/ Found("attestation", "secret") # {} /\ ceremony'[m] = "pair?"
        \/ /\ ceremony[m] = "pair?"
           /\ Found("ballot-sign", "public") = {} /\ ceremony'[m] = "public"
        \/ /\ ceremony[m] = "pair?"
           /\ Found("ballot-sign", "public") # {} /\ ceremony'[m] = "print"
    BY DEF LookFor, CeremonyTypeOK
  <1>3. Found("kwrap", "secret")' = Found("kwrap", "secret")
        /\ Found("attestation", "secret")' = Found("attestation", "secret")
        /\ Pub' = Pub /\ Priv' = Priv
    BY <1>1 DEF Found, Pub, Priv
  <1>4. TokenFits'
    BY <1>1, <1>2, <1>3 DEF CeremonyInv, TokenFits
  <1>5. orderly => OneOfEach'
    BY <1>1, <1>2, <1>3 DEF CeremonyInv, OneOfEach, TokenFits, Pub
  <1>6. QED
    BY <1>1, <1>4, <1>5 DEF CeremonyInv

LEMMA CeremonyStepKeeps ==
  ASSUME CeremonyTypeOK, HsmTypeOK, CeremonyInv, NEW m \in Makers, CeremonyStep(m)
  PROVE  CeremonyInv'
  <1>1. CASE \/ LookFor(m, "kwrap?", "kwrap", "secret", "kwrap", "attestation?")
             \/ LookFor(m, "attestation?", "attestation", "secret", "attestation", "pair?")
             \/ LookFor(m, "pair?", "ballot-sign", "public", "public", "print")
    BY <1>1, LookForKeeps
  <1>2. CASE Generate(m, "kwrap", "kwrap", "secret", "attestation?")
    BY <1>2, GenerateKeeps DEF Steps, Labels
  <1>3. CASE Generate(m, "attestation", "attestation", "secret", "pair?")
    BY <1>3, GenerateKeeps DEF Steps, Labels
  <1>4. CASE Generate(m, "public", "ballot-sign", "public", "private")
    BY <1>4, GenerateKeeps DEF Steps, Labels
  <1>5. CASE Generate(m, "private", "ballot-sign", "private", "print")
    BY <1>5, GenerateKeeps DEF Steps, Labels
  <1>6. CASE StartCeremony(m)
    <2>1. /\ token' = token /\ printed' = printed /\ orderly' = orderly
          /\ ceremony[m] = "out" /\ ceremony'[m] = "kwrap?"
          /\ \A n \in Makers \ {m} : ceremony'[n] = ceremony[n]
          /\ orderly => \A n \in Makers : ceremony[n] = "out"
      BY <1>6 DEF StartCeremony, CeremonyTypeOK, NoCeremony
    <2>2. QED
      BY <2>1 DEF CeremonyInv, TokenFits, OneOfEach, Pub, Priv, Found
  <1>7. CASE PrintKey(m)
    <2>1. /\ token' = token /\ orderly' = orderly
          /\ ceremony[m] = "print" /\ ceremony'[m] = "out"
          /\ \A n \in Makers \ {m} : ceremony'[n] = ceremony[n]
          /\ \E o \in Pub : printed' = printed \cup {o.maker}
      BY <1>7 DEF PrintKey, CeremonyTypeOK, Pub
    <2>2. TokenFits'
      BY <2>1 DEF CeremonyInv, TokenFits, Pub, Priv, Found
    <2>3. orderly => OneOfEach'
      BY <2>1 DEF CeremonyInv, OneOfEach, Pub, Priv, Found
    <2>4. QED
      BY <2>1, <2>2, <2>3 DEF CeremonyInv
  <1>8. CASE KillCeremony(m)
    <2>1. /\ token' = token /\ printed' = printed /\ orderly' = orderly
          /\ ceremony'[m] = "out" /\ (orderly => ceremony[m] # "private")
          /\ \A n \in Makers \ {m} : ceremony'[n] = ceremony[n]
      BY <1>8 DEF KillCeremony, CeremonyTypeOK
    <2>2. QED
      BY <2>1 DEF CeremonyInv, TokenFits, OneOfEach, Pub, Priv, Found
  <1>9. QED
    BY <1>1, <1>2, <1>3, <1>4, <1>5, <1>6, <1>7, <1>8
    DEF CeremonyStep, WrapKey, AttestationKey, BallotSignKey

LEMMA CeremonyInvNext ==
  IssuanceTypeInv /\ CeremonyInv /\ [IssuanceNext]_issuanceVars => CeremonyInv'
  <1> SUFFICES ASSUME IssuanceTypeInv, CeremonyInv, [IssuanceNext]_issuanceVars
               PROVE  CeremonyInv'
    OBVIOUS
  <1>1. CASE UNCHANGED <<token, ceremony, printed, orderly>>
    BY <1>1 DEF CeremonyInv, TokenFits, OneOfEach, Pub, Priv, Found
  <1>2. ASSUME NEW h \in Clients, HandlerStep(h) PROVE CeremonyInv'
    BY <1>1, <1>2, HandlerStepFrame DEF setupVars
  <1>3. CASE HoldCeremony
    BY <1>3, CeremonyStepKeeps DEF HoldCeremony, IssuanceTypeInv, IssuanceTypeOK
  <1>4. CASE StartServer \/ Crash \/ LosePower
    BY <1>1, <1>4 DEF StartServer, Crash, LosePower, Die, ceremonyVars
  <1>5. CASE UNCHANGED issuanceVars
    BY <1>1, <1>5 DEF issuanceVars
  <1>6. QED
    BY <1>2, <1>3, <1>4, <1>5 DEF IssuanceNext

LEMMA CeremonyInvariant == IssuanceSpec => []CeremonyInv
  <1>1. IssuanceInit => CeremonyInv
    BY DEF IssuanceInit, HsmInit, CeremonyInit, CeremonyInv, TokenFits, OneOfEach, Pub, Priv, Found
  <1>2. QED
    BY <1>1, IssuanceTypeInvariant, CeremonyInvNext, PTL DEF IssuanceSpec

\* As long as ceremonies are held one at a time and are not killed between the
\* halves of the key pair, every public key that was printed is the one whose
\* private half signs, and no secret exists twice.
THEOREM IssuancePublishedKeySigns == IssuanceSpec => []PublishedKeySigns
  <1>1. ASSUME CeremonyInv, orderly, printed # {}
        PROVE  Priv # {}
    BY <1>1 DEF CeremonyInv, OneOfEach
  <1>2. ASSUME CeremonyInv, orderly, NEW m \in printed, NEW o \in Priv
        PROVE  o.maker = m
    <2>1. PICK p \in Pub : p.maker = m
      BY <1>2 DEF CeremonyInv, OneOfEach
    <2>2. p \in token /\ o \in token /\ p.label = o.label
      BY <2>1 DEF Pub, Priv, Found
    <2>3. QED
      BY <1>2, <2>1, <2>2 DEF CeremonyInv, OneOfEach
  <1>3. CeremonyInv => PublishedKeySigns
    BY <1>1, <1>2 DEF PublishedKeySigns, CeremonyInv, OneOfEach, Priv
  <1>4. QED
    BY <1>3, CeremonyInvariant, PTL

-----------------------------------------------------------------------------
(* One request at a time, after orderly ceremonies: no failures *)

\* The server runs when there are no ceremonies, and was given a key.
ServerInv ==
    /\ server = "up" => NoCeremony /\ Pub # {}
    /\ server = "down" => \A h \in Clients : At(h, "idle")

\* The library is as far as the handler.
LibraryAt(h) ==
    /\ At(h, "session") => library.up /\ library.sessions = {} /\ ~library.login
    /\ At(h, "login") => library.up /\ library.sessions = {h} /\ ~library.login
    /\ \/ handler[h].pc \in {"issue", "verify", "sign", "logout"}
       \/ handler[h].pc \in SaveSteps /\ handler[h].request = "register"
       => library.up /\ library.sessions = {h} /\ library.login

AloneInv == serial /\ orderly => \A h \in Clients : LibraryAt(h) /\ ~At(h, "failed")

IssuanceInv ==
    /\ IssuanceTypeInv /\ NothingLeftOpen /\ OneAtATime
    /\ CeremonyInv /\ ServerInv /\ AloneInv

LEMMA ServerInvNext ==
  IssuanceTypeInv /\ ServerInv /\ [IssuanceNext]_issuanceVars => ServerInv'
  <1> SUFFICES ASSUME IssuanceTypeInv, ServerInv, [IssuanceNext]_issuanceVars
               PROVE  ServerInv'
    OBVIOUS
  <1> USE DEF ServerInv, NoCeremony, Pub, Found, At
  <1>1. ASSUME NEW h \in Clients, HandlerStep(h) PROVE ServerInv'
    <2>1. /\ server' = server /\ token' = token /\ ceremony' = ceremony
          /\ \A g \in Clients \ {h} : handler'[g] = handler[g]
      BY <1>1, HandlerStepFrame, HandlerStepFits DEF setupVars
    <2>2. server = "up"
      <3>1. At(h, "idle") => Accept(h)
        BY <1>1, IdleAccepts
      <3>2. QED
        BY <3>1 DEF Accept, IssuanceTypeInv, IssuanceTypeOK
    <2>3. QED
      BY <2>1, <2>2
  <1>2. CASE HoldCeremony
    BY <1>2 DEF HoldCeremony
  <1>3. CASE StartServer
    BY <1>3 DEF StartServer, ceremonyVars
  <1>4. CASE Crash \/ LosePower
    <2>1. server' = "down" /\ \A h \in Clients : handler'[h] = Idle
      BY <1>4 DEF Crash, LosePower, Die
    <2>2. QED
      BY <2>1 DEF Idle
  <1>5. CASE UNCHANGED issuanceVars
    BY <1>5 DEF issuanceVars
  <1>6. QED
    BY <1>1, <1>2, <1>3, <1>4, <1>5 DEF IssuanceNext

\* With one attestation key, the key that verifies is the one that attested.
LEMMA OneAttestationKey ==
  ASSUME OneOfEach, HsmTypeOK, Found("attestation", "secret") # {}
  PROVE  Cardinality(Found("attestation", "secret")) = 1
  <1>1. PICK o \in Found("attestation", "secret") : TRUE
    OBVIOUS
  <1>2. \A p \in Found("attestation", "secret") : p = o
    BY <1>1 DEF Found, OneOfEach, HsmTypeOK, Objects
  <1>3. Found("attestation", "secret") = {o}
    BY <1>1, <1>2
  <1>4. QED
    BY <1>3, FS_Singleton

LEMMA AloneHandlerStep ==
  ASSUME IssuanceInv, serial, orderly, NEW h \in Clients, HandlerStep(h)
  PROVE  LibraryAt(h)' /\ ~At(h, "failed")'
  <1> USE DEF LibraryAt
  <1>1. /\ handler[h] \in Handlers
        /\ Fit(handler[h].pc, handler[h].request, handler[h].credential)
        /\ library \in [up : BOOLEAN, sessions : SUBSET Clients, login : BOOLEAN]
        /\ LibraryAt(h) /\ ~At(h, "failed")
    BY DEF IssuanceInv, IssuanceTypeInv, IssuanceTypeOK, HsmTypeOK, FitHandlers, AloneInv
  <1>2. ASSUME NEW pc \in HandlerSteps, Goto(h, pc)
        PROVE  handler'[h].pc = pc /\ handler'[h].request = handler[h].request
    BY <1>2, GoesOn DEF IssuanceInv
  <1>3. Alone(h)
    BY AloneSteps DEF IssuanceInv
  <1>4. server = "up"
    <2>1. At(h, "idle") => Accept(h)
      BY IdleAccepts
    <2>2. QED
      BY <2>1 DEF Accept, IssuanceInv, ServerInv, IssuanceTypeInv, IssuanceTypeOK
  <1>5. /\ Pub # {} /\ Priv # {}
        /\ Found("kwrap", "secret") # {} /\ Found("attestation", "secret") # {}
        /\ Cardinality(Found("attestation", "secret")) = 1
    <2>1. Pub # {} /\ \A m \in Makers : ceremony[m] = "out"
      BY <1>4 DEF IssuanceInv, ServerInv, NoCeremony
    <2>2. Priv # {}
      BY <2>1 DEF IssuanceInv, CeremonyInv, OneOfEach
    <2>3. Found("kwrap", "secret") # {} /\ Found("attestation", "secret") # {}
      BY <2>1 DEF IssuanceInv, CeremonyInv, TokenFits
    <2>4. QED
      BY <2>1, <2>2, <2>3, OneAttestationKey
      DEF IssuanceInv, CeremonyInv, IssuanceTypeInv, IssuanceTypeOK
  <1>6. CASE Register(h) \/ Vote(h)
    BY <1>6, TakesRequest DEF IssuanceInv, At, SaveSteps
  <1>7. CASE LoadFile(h)
    <2>1. \/ handler'[h].pc \in {"idle", "context"}
          \/ handler'[h].pc = "create" /\ handler'[h].request = "confirm"
      BY <1>7, ReadsFile DEF IssuanceInv, Idle
    <2>2. QED
      BY <2>1 DEF At, SaveSteps
  <1>8. CASE OpenContext(h)
    <2>1. ~InSection(h)
      BY <1>8 DEF OpenContext, InSection, At, SaveSteps
    <2>2. \A g \in Clients \ {h} : ~InSection(g)
      BY <1>3 DEF Alone, At, InSection, SaveSteps
    <2>3. library = Finalised
      BY <2>1, <2>2 DEF IssuanceInv, NothingLeftOpen
    <2>4. ~library.up /\ library.sessions = {} /\ ~library.login
      BY <2>3 DEF Finalised
    <2>5. library' = [library EXCEPT !.up = TRUE] /\ Goto(h, "session")
      BY <1>8, <2>4 DEF OpenContext, InitialiseLibrary, InitialiseTwice
    <2>6. handler'[h].pc = "session"
      BY <1>2, <2>5 DEF HandlerSteps
    <2>7. library'.up /\ library'.sessions = {} /\ ~library'.login
      BY <1>1, <2>4, <2>5
    <2>8. QED
      BY <2>6, <2>7 DEF At, SaveSteps
  <1>9. CASE StartSession(h)
    <2>1. library.up /\ library.sessions = {} /\ ~library.login
      BY <1>1, <1>9 DEF StartSession
    <2>2. library' = [library EXCEPT !.sessions = @ \cup {h}] /\ Goto(h, "login")
      BY <1>9, <2>1 DEF StartSession, OpenSession
    <2>3. handler'[h].pc = "login"
      BY <1>2, <2>2 DEF HandlerSteps
    <2>4. library'.up /\ library'.sessions = {h} /\ ~library'.login
      BY <1>1, <2>1, <2>2
    <2>5. QED
      BY <2>3, <2>4 DEF At, SaveSteps
  <1>10. CASE LogIn(h)
    <2>1. library.up /\ library.sessions = {h} /\ ~library.login
      BY <1>1, <1>10 DEF LogIn
    <2>2. library' = [library EXCEPT !.login = TRUE]
          /\ Goto(h, IF handler[h].request = "register" THEN "issue" ELSE "sign")
      BY <1>10, <2>1 DEF LogIn, Login, LoginRefused, Live
    <2>3. handler'[h].pc \in {"issue", "sign"}
      <3>1. CASE handler[h].request = "register"
        BY <1>2, <2>2, <3>1 DEF HandlerSteps
      <3>2. CASE handler[h].request # "register"
        BY <1>2, <2>2, <3>2 DEF HandlerSteps
      <3>3. QED
        BY <3>1, <3>2
    <2>4. library'.up /\ library'.sessions = {h} /\ library'.login
      BY <1>1, <2>1, <2>2
    <2>5. QED
      BY <2>3, <2>4 DEF At, SaveSteps
  <1>11. CASE Issue(h) \/ Verify(h) \/ Sign(h) \/ LogOut(h)
    <2>1. library.up /\ library.sessions = {h} /\ library.login
      BY <1>1, <1>11 DEF Issue, Verify, Sign, LogOut, At
    <2>2. Usable(h) /\ ~UseRefused(h)
      BY <2>1 DEF Usable, UseRefused, Hit, Live
    <2>3. CASE Issue(h)
      <3>1. library' = library /\ handler'[h].pc = "create"
        BY <1>5, <2>2, <2>3, Issues DEF Issue, IssuanceInv
      <3>2. QED
        BY <2>1, <3>1 DEF At
    <2>4. CASE Verify(h) \/ Sign(h)
      <3>1. library' = library /\ Goto(h, "logout")
        BY <1>5, <2>2, <2>4 DEF Verify, Sign, Pub, Priv
      <3>2. handler'[h].pc = "logout"
        BY <1>2, <3>1 DEF HandlerSteps
      <3>3. QED
        BY <2>1, <3>1, <3>2 DEF At
    <2>5. CASE LogOut(h)
      <3>1. Goto(h, "send")
        BY <2>2, <2>5 DEF LogOut
      <3>2. handler'[h].pc = "send"
        BY <1>2, <3>1 DEF HandlerSteps
      <3>3. QED
        BY <3>2 DEF At, SaveSteps
    <2>6. QED
      BY <1>11, <2>3, <2>4, <2>5
  <1>12. CASE SaveStep(h)
    <2>1. library' = library /\ handler[h].pc \in SaveSteps
      BY <1>12 DEF SaveStep, At, SaveSteps
    <2>2. \E pc \in SaveSteps \cup {"verify", "idle"} :
             Goto(h, pc) /\ (handler[h].request # "register" => pc # "verify")
      <3>1. CASE Goto(h, AfterSave(h)) /\ handler[h].request = "register"
        BY <3>1 DEF AfterSave
      <3>2. CASE Goto(h, AfterSave(h)) /\ handler[h].request # "register"
        BY <3>2 DEF AfterSave
      <3>3. CASE \E pc \in SaveSteps : Goto(h, pc)
        BY <3>3 DEF SaveSteps
      <3>4. QED
        BY <1>12, <3>1, <3>2, <3>3 DEF SaveStep, SaveSteps
    <2>3. /\ handler'[h].pc \in SaveSteps \cup {"verify", "idle"}
          /\ handler'[h].request = handler[h].request
          /\ handler[h].request # "register" => handler'[h].pc # "verify"
      BY <1>2, <2>2 DEF HandlerSteps
    <2>4. QED
      BY <1>1, <2>1, <2>3 DEF At, SaveSteps
  <1>13. CASE SaveFails(h) \/ AnswerFailure(h)
    <2>1. handler'[h] = Idle
      BY <1>13, BecomesIdle
      DEF SaveFails, FirstSaveFails, SecondSaveFails, SaveAborted, AnswerFailure,
          IssuanceInv
    <2>2. QED
      BY <2>1 DEF Idle, At, SaveSteps
  <1>14. CASE SendTransaction(h)
    <2>1. handler'[h].pc \in {"idle", "load"}
      BY <1>14, Sends DEF IssuanceInv, Idle
    <2>2. QED
      BY <2>1 DEF At, SaveSteps
  <1>15. QED
    BY <1>6, <1>7, <1>8, <1>9, <1>10, <1>11, <1>12, <1>13, <1>14 DEF HandlerStep

LEMMA AloneInvNext ==
  IssuanceInv /\ [IssuanceNext]_issuanceVars => AloneInv'
  <1> SUFFICES ASSUME IssuanceInv, [IssuanceNext]_issuanceVars PROVE AloneInv'
    OBVIOUS
  <1>1. ASSUME NEW h \in Clients, HandlerStep(h) PROVE AloneInv'
    <2>1. serial' = serial /\ orderly' = orderly
      BY <1>1, HandlerStepFrame DEF setupVars
    <2>2. serial /\ orderly => LibraryAt(h)' /\ ~At(h, "failed")'
      BY <1>1, AloneHandlerStep
    <2>3. serial => \A g \in Clients \ {h} : handler'[g].pc = "idle"
      BY <1>1, AloneSteps, HandlerStepFits DEF IssuanceInv, Alone, At
    <2>4. serial => \A g \in Clients \ {h} : LibraryAt(g)' /\ ~At(g, "failed")'
      BY <2>3 DEF LibraryAt, At, SaveSteps
    <2>5. QED
      BY <2>1, <2>2, <2>4 DEF AloneInv
  <1>2. CASE HoldCeremony \/ StartServer
    <2>1. library' = library /\ handler' = handler /\ serial' = serial
      BY <1>2 DEF HoldCeremony, StartServer
    <2>2. \A m \in Makers : CeremonyStep(m) => orderly' = orderly
      BY DEF CeremonyStep, StartCeremony, WrapKey, AttestationKey, BallotSignKey, LookFor,
             Generate, PrintKey, KillCeremony
    <2>3. orderly' = orderly
      BY <1>2, <2>2 DEF HoldCeremony, StartServer, ceremonyVars
    <2>4. QED
      BY <2>1, <2>3 DEF IssuanceInv, AloneInv, LibraryAt, At
  <1>3. CASE Crash \/ LosePower
    <2>1. \A h \in Clients : handler'[h] = Idle
      BY <1>3 DEF Crash, LosePower, Die
    <2>2. \A h \in Clients : handler'[h].pc = "idle"
      BY <2>1 DEF Idle
    <2>3. QED
      BY <2>2 DEF AloneInv, LibraryAt, At, SaveSteps
  <1>4. CASE UNCHANGED issuanceVars
    BY <1>4 DEF issuanceVars, IssuanceInv, AloneInv, LibraryAt, At
  <1>5. QED
    BY <1>1, <1>2, <1>3, <1>4 DEF IssuanceNext

\* One request at a time and after orderly ceremonies, no handler fails for
\* the HSM's sake: the library is as each step needs it whatever was cut off
\* before, and the server's one question at its start answers for all keys.
THEOREM IssuanceAloneSucceeds == IssuanceSpec => []AloneSucceeds
  <1>1. IssuanceInit => IssuanceInv
    <2>1. ASSUME IssuanceInit PROVE ServerInv /\ AloneInv
      <3>1. \A h \in Clients : handler[h].pc = "idle"
        BY <2>1 DEF IssuanceInit, Idle
      <3>2. server = "down"
        BY <2>1 DEF IssuanceInit
      <3>3. QED
        BY <3>1, <3>2 DEF ServerInv, AloneInv, LibraryAt, At, SaveSteps
    <2>2. IssuanceInit => CeremonyInv /\ NothingLeftOpen
      BY DEF IssuanceInit, HsmInit, CeremonyInit, CeremonyInv, TokenFits, OneOfEach, Pub, Priv,
             Found, NothingLeftOpen
    <2>3. QED
      BY <2>1, <2>2, TypeInit, FileInit DEF IssuanceInv
  <1>2. IssuanceInv /\ [IssuanceNext]_issuanceVars => IssuanceInv'
    BY TypeNext, NothingLeftOpenNext, OneAtATimeNext, CeremonyInvNext, ServerInvNext, AloneInvNext
    DEF IssuanceInv
  <1>3. IssuanceInv => AloneSucceeds
    BY DEF IssuanceInv, AloneInv, AloneSucceeds
  <1>4. QED
    BY <1>1, <1>2, <1>3, PTL DEF IssuanceSpec
=============================================================================
