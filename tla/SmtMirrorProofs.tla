-------------------------- MODULE SmtMirrorProofs ---------------------------
(***************************************************************************)
(* Theorems about SmtMirror, for any number of runs of register-voter, of  *)
(* voters and of leaves, with losses, restarts and enclave registrations.  *)
(***************************************************************************)
EXTENDS SmtMirror, FiniteSetTheorems, TLAPS

-----------------------------------------------------------------------------
(* The inductive invariant *)

MirrorShape ==
    /\ RegistryTypeOK
    /\ mirror.leaves \in Seq(Commitments)
    /\ mirror.index \in [DOMAIN mirror.index -> Nat]
    /\ relayer \in [Relayers -> Registrations \cup {Idle}]

InLog(c) == \E j \in DOMAIN leaf : leaf[j] = c

\* A run that is about to notify the server has its leaf in the log.
NotifiedLanded ==
    \A r \in Relayers :
       Running(r) /\ relayer[r].pc = "notify" => InLog(relayer[r].commitment)

MirrorInv ==
    /\ MirrorShape
    /\ MirrorSound
    /\ NotifiedLanded
    /\ IndexNamesLeaf

LEMMA MirrorInvInit == MirrorInit => MirrorInv
  <1> SUFFICES ASSUME MirrorInit PROVE MirrorInv
    OBVIOUS
  <1> USE DEF MirrorInit, EmptyMirror
  <1>1. MirrorShape
    BY DEF RegistryInit, RegistryTypeOK, EmptyTreeRoot, MirrorShape
  <1>2. MirrorSound
    BY DEF MirrorSound
  <1>3. NotifiedLanded
    BY DEF NotifiedLanded, Running
  <1>4. IndexNamesLeaf
    BY DEF IndexNamesLeaf
  <1>5. QED
    BY <1>1, <1>2, <1>3, <1>4 DEF MirrorInv

-----------------------------------------------------------------------------
(* What the log and the server's insert preserve *)

\* The log only grows, and the new leaf is in it.
LEMMA LogGrows ==
  ASSUME NEW at \in Nat, NEW c \in Commitments,
         RegistryTypeOK, InsertCommitment(at, c)
  PROVE  /\ RegistryTypeOK'
         /\ InLog(c)'
         /\ \A d : InLog(d) => InLog(d)'
  <1>1. DOMAIN leaf' = DOMAIN leaf \cup {at} /\ at \notin DOMAIN leaf
    BY DEF InsertCommitment
  <1>2. leaf'[at] = c /\ \A i \in DOMAIN leaf : leaf'[i] = leaf[i]
    BY <1>1 DEF InsertCommitment
  <1>3. RegistryTypeOK'
    BY DEF RegistryTypeOK, InsertCommitment
  <1>4. QED
    BY <1>1, <1>2, <1>3 DEF InLog

\* An insert of a commitment of the log keeps the list sound, and the list
\* and the map together.
LEMMA InsertKeeps ==
  ASSUME NEW c \in Commitments, InLog(c), UNCHANGED leaf,
         mirror.leaves \in Seq(Commitments), mirror.index \in [DOMAIN mirror.index -> Nat],
         MirrorSound, IndexNamesLeaf, Insert(c)
  PROVE  /\ mirror'.leaves \in Seq(Commitments)
         /\ mirror'.index \in [DOMAIN mirror'.index -> Nat]
         /\ MirrorSound' /\ IndexNamesLeaf'
  <1>1. CASE UNCHANGED mirror
    BY <1>1 DEF MirrorSound, IndexNamesLeaf
  <1>2. CASE c \notin DOMAIN mirror.index /\ ~UNCHANGED mirror
    <2> DEFINE last == Len(mirror.leaves) + 1
    <2>1. mirror'.leaves = Append(mirror.leaves, c)
      BY <1>2 DEF Insert
    <2>2. /\ DOMAIN mirror'.index = DOMAIN mirror.index \cup {c}
          /\ mirror'.index[c] = Len(mirror.leaves)
          /\ \A d \in DOMAIN mirror.index : mirror'.index[d] = mirror.index[d]
      BY <1>2 DEF Insert
    <2>3. /\ Len(mirror.leaves) \in Nat
          /\ DOMAIN mirror.leaves = 1..Len(mirror.leaves)
          /\ DOMAIN mirror'.leaves = 1..last
          /\ mirror'.leaves[last] = c
          /\ \A i \in DOMAIN mirror.leaves : mirror'.leaves[i] = mirror.leaves[i]
          /\ mirror'.leaves \in Seq(Commitments)
      BY <2>1
    <2>4. MirrorSound'
      BY <2>3 DEF MirrorSound, InLog
    <2>5. ASSUME NEW i \in DOMAIN mirror'.leaves
          PROVE  /\ mirror'.leaves[i] \in DOMAIN mirror'.index
                 /\ mirror'.index[mirror'.leaves[i]] = i - 1
      <3>1. CASE i = last
        BY <3>1, <2>2, <2>3
      <3>2. CASE i # last
        <4>1. i \in DOMAIN mirror.leaves /\ mirror.leaves[i] \in DOMAIN mirror.index
          BY <3>2, <2>3 DEF IndexNamesLeaf
        <4>2. QED
          BY <4>1, <2>2, <2>3 DEF IndexNamesLeaf
      <3>3. QED
        BY <3>1, <3>2
    <2>6. ASSUME NEW d \in DOMAIN mirror'.index
          PROVE  /\ mirror'.index[d] + 1 \in DOMAIN mirror'.leaves
                 /\ mirror'.leaves[mirror'.index[d] + 1] = d
      <3>1. CASE d = c
        BY <3>1, <2>2, <2>3
      <3>2. CASE d # c
        <4>1. /\ d \in DOMAIN mirror.index /\ mirror.index[d] + 1 \in DOMAIN mirror.leaves
              /\ mirror.leaves[mirror.index[d] + 1] = d
          BY <3>2, <2>2 DEF IndexNamesLeaf
        <4>2. QED
          BY <4>1, <2>2, <2>3
      <3>3. QED
        BY <3>1, <3>2
    <2>7. IndexNamesLeaf'
      BY <2>5, <2>6 DEF IndexNamesLeaf
    <2>8. mirror'.index \in [DOMAIN mirror'.index -> Nat]
      <3>1. mirror'.index = [d \in DOMAIN mirror.index \cup {c} |->
                               IF d = c THEN Len(mirror.leaves) ELSE mirror.index[d]]
        BY <1>2 DEF Insert
      <3>2. QED
        BY <2>3, <3>1
    <2>9. QED
      BY <2>3, <2>4, <2>7, <2>8
  <1>3. QED
    BY <1>1, <1>2 DEF Insert

-----------------------------------------------------------------------------
(* Steps *)

LEMMA RelayerType ==
  ASSUME MirrorShape, NEW r \in Relayers, Running(r)
  PROVE  relayer[r] \in Registrations
  BY DEF MirrorShape, Running

\* A step that leaves log and tree alone, and sends nobody to the server.
LEMMA RelayerOnly ==
  ASSUME MirrorInv, UNCHANGED <<registry, leaf, mirror>>,
         NEW r \in Relayers, NEW next \in Registrations \cup {Idle},
         relayer' = [relayer EXCEPT ![r] = next],
         next = Idle \/ next.pc # "notify"
  PROVE  MirrorInv'
  <1>1. MirrorShape'
    BY DEF MirrorInv, MirrorShape, RegistryTypeOK
  <1>2. MirrorSound' /\ IndexNamesLeaf'
    BY DEF MirrorInv, MirrorSound, IndexNamesLeaf
  <1>3. NotifiedLanded'
    BY DEF MirrorInv, MirrorShape, NotifiedLanded, Running, InLog
  <1>4. QED
    BY <1>1, <1>2, <1>3 DEF MirrorInv

\* A leaf lands, and the run of register-voter that sent it, if any, moves on.
LEMMA LogStep ==
  ASSUME MirrorInv, NEW at \in Nat, NEW c \in Commitments,
         InsertCommitment(at, c), UNCHANGED mirror,
         relayer' \in [Relayers -> Registrations \cup {Idle}],
         \A q \in Relayers : \/ relayer'[q] = relayer[q]
                             \/ relayer'[q] = Idle
                             \/ relayer'[q].commitment = c
  PROVE  MirrorInv'
  <1>1. RegistryTypeOK' /\ InLog(c)' /\ \A d : InLog(d) => InLog(d)'
    BY LogGrows DEF MirrorInv, MirrorShape
  <1>2. MirrorShape'
    BY <1>1 DEF MirrorInv, MirrorShape
  <1>3. MirrorSound' /\ IndexNamesLeaf'
    <2>1. \A i \in DOMAIN mirror.leaves : InLog(mirror.leaves[i])
      BY DEF MirrorInv, MirrorSound, InLog
    <2>2. \A i \in DOMAIN mirror.leaves : InLog(mirror.leaves[i])'
      BY <2>1, <1>1
    <2>3. QED
      BY <2>2 DEF MirrorInv, MirrorSound, IndexNamesLeaf, InLog
  <1>4. NotifiedLanded'
    <2> SUFFICES ASSUME NEW q \in Relayers, Running(q)', relayer'[q].pc = "notify"
                 PROVE  InLog(relayer[q].commitment)'
      BY DEF NotifiedLanded
    <2>1. CASE relayer'[q] = relayer[q]
      <3>1. InLog(relayer[q].commitment)
        BY <2>1 DEF MirrorInv, NotifiedLanded, Running
      <3>2. QED
        BY <3>1, <2>1, <1>1 DEF InLog
    <2>2. CASE relayer'[q] = Idle
      BY <2>2 DEF Running
    <2>3. CASE relayer'[q].commitment = c
      BY <2>3, <1>1 DEF InLog
    <2>4. QED
      BY <2>1, <2>2, <2>3
  <1>5. QED
    BY <1>2, <1>3, <1>4 DEF MirrorInv

LEMMA RelayerStepKeeps ==
  ASSUME MirrorInv, NEW r \in Relayers, RelayerStep(r)
  PROVE  MirrorInv'
  <1>1. ASSUME NEW c \in Commitments, Send(r, c)
        PROVE  MirrorInv'
    <2> DEFINE next == [pc |-> "sent", commitment |-> c, index |-> registry.leafCount]
    <2>1. next \in Registrations
      BY DEF MirrorInv, MirrorShape, RegistryTypeOK, Registrations
    <2>2. next.pc # "notify"
      OBVIOUS
    <2>3. relayer' = [relayer EXCEPT ![r] = next] /\ UNCHANGED <<registry, leaf, mirror>>
      BY <1>1 DEF Send
    <2> HIDE DEF next
    <2>4. QED
      BY <2>1, <2>2, <2>3, RelayerOnly
  <1>2. CASE GiveUp(r)
    <2> DEFINE next == [relayer[r] EXCEPT !.pc = "gone"]
    <2>1. next \in Registrations /\ next.pc # "notify"
      BY <1>2, RelayerType DEF MirrorInv, GiveUp, Registrations
    <2>2. relayer' = [relayer EXCEPT ![r] = next] /\ UNCHANGED <<registry, leaf, mirror>>
      BY <1>2 DEF GiveUp, MirrorInv, MirrorShape
    <2> HIDE DEF next
    <2>3. QED
      BY <2>1, <2>2, RelayerOnly
  <1>3. CASE Land(r)
    <2> DEFINE c == relayer[r].commitment
               next == [relayer[r] EXCEPT !.pc = "notify"]
    <2>1. relayer[r] \in Registrations /\ relayer[r].index \in Nat /\ c \in Commitments
      BY <1>3, RelayerType DEF MirrorInv, Land, Registrations
    <2>2. next \in Registrations /\ next.commitment = c
      BY <2>1 DEF Registrations
    <2>3. \/ relayer' = [relayer EXCEPT ![r] = next]
          \/ relayer' = [relayer EXCEPT ![r] = Idle]
      BY <1>3 DEF Land, MirrorInv, MirrorShape
    <2>4. InsertCommitment(relayer[r].index, c) /\ UNCHANGED mirror
      BY <1>3 DEF Land
    <2> HIDE DEF next, c
    <2>5. /\ relayer' \in [Relayers -> Registrations \cup {Idle}]
          /\ \A q \in Relayers : \/ relayer'[q] = relayer[q]
                                 \/ relayer'[q] = Idle
                                 \/ relayer'[q].commitment = c
      BY <2>2, <2>3 DEF MirrorInv, MirrorShape
    <2>6. QED
      BY <2>1, <2>4, <2>5, LogStep
  <1>4. CASE Reject(r) \/ NotifyFails(r)
    BY <1>4, RelayerOnly DEF Reject, NotifyFails
  <1>5. CASE Notify(r)
    <2>1. relayer[r].commitment \in Commitments /\ InLog(relayer[r].commitment)
      BY <1>5, RelayerType DEF Notify, MirrorInv, NotifiedLanded, Registrations
    <2>2. /\ mirror'.leaves \in Seq(Commitments)
          /\ mirror'.index \in [DOMAIN mirror'.index -> Nat]
          /\ MirrorSound' /\ IndexNamesLeaf'
      BY <1>5, <2>1, InsertKeeps DEF Notify, MirrorInv, MirrorShape
    <2>3. relayer' = [relayer EXCEPT ![r] = Idle] /\ UNCHANGED <<registry, leaf>>
      BY <1>5 DEF Notify
    <2>4. MirrorShape'
      BY <2>2, <2>3 DEF MirrorInv, MirrorShape, RegistryTypeOK
    <2>5. NotifiedLanded'
      BY <2>3 DEF MirrorInv, MirrorShape, NotifiedLanded, Running, InLog
    <2>6. QED
      BY <2>2, <2>4, <2>5 DEF MirrorInv
  <1>6. QED
    BY <1>1, <1>2, <1>3, <1>4, <1>5 DEF RelayerStep

LEMMA MirrorInvStep == MirrorInv /\ [MirrorNext]_mirrorVars => MirrorInv'
  <1> SUFFICES ASSUME MirrorInv, [MirrorNext]_mirrorVars PROVE MirrorInv'
    OBVIOUS
  <1>1. CASE MirrorAdminister
    <2>1. UNCHANGED <<leaf, mirror, relayer>>
      BY <1>1 DEF MirrorAdminister, InitVoterRegistry
    <2>2. RegistryTypeOK'
      <3>1. CASE UNCHANGED <<registry, leaf>>
        BY <3>1 DEF MirrorInv, MirrorShape, RegistryTypeOK
      <3>2. CASE InitVoterRegistry
        BY <3>2 DEF InitVoterRegistry, EmptyTreeRoot, MirrorInv, MirrorShape, RegistryTypeOK
      <3>3. QED
        BY <1>1, <3>1, <3>2 DEF MirrorAdminister
    <2>3. QED
      BY <2>1, <2>2
      DEF MirrorInv, MirrorShape, MirrorSound, NotifiedLanded, Running, InLog, IndexNamesLeaf
  <1>2. ASSUME NEW r \in Relayers, RelayerStep(r)
        PROVE  MirrorInv'
    BY <1>2, RelayerStepKeeps
  <1>3. ASSUME NEW c \in Commitments, EnclaveRegisters(c)
        PROVE  MirrorInv'
    <2>1. registry.leafCount \in Nat /\ relayer' = relayer /\ UNCHANGED mirror
      BY <1>3 DEF MirrorInv, MirrorShape, RegistryTypeOK, EnclaveRegisters
    <2>2. relayer' \in [Relayers -> Registrations \cup {Idle}]
      BY <2>1 DEF MirrorInv, MirrorShape
    <2>3. InsertCommitment(registry.leafCount, c)
      BY <1>3 DEF EnclaveRegisters
    <2>4. \A q \in Relayers : relayer'[q] = relayer[q]
      BY <2>1
    <2>5. QED
      BY <2>1, <2>2, <2>3, <2>4, LogStep
  <1>4. CASE RestartServer
    <2>1. mirror' = EmptyMirror /\ UNCHANGED <<registry, leaf, relayer>>
      BY <1>4 DEF RestartServer
    <2>2. MirrorShape' /\ NotifiedLanded'
      BY <2>1
      DEF EmptyMirror, MirrorInv, MirrorShape, RegistryTypeOK, NotifiedLanded, Running, InLog
    <2>3. MirrorSound' /\ IndexNamesLeaf'
      BY <2>1 DEF EmptyMirror, MirrorSound, IndexNamesLeaf
    <2>4. QED
      BY <2>2, <2>3 DEF MirrorInv
  <1>5. CASE UNCHANGED mirrorVars
    BY <1>5
    DEF mirrorVars, MirrorInv, MirrorShape, RegistryTypeOK, MirrorSound, NotifiedLanded,
        Running, InLog, IndexNamesLeaf
  <1>6. QED
    BY <1>1, <1>2, <1>3, <1>4, <1>5 DEF MirrorNext

-----------------------------------------------------------------------------
(* The order of the tree *)

\* The log has no gap.
LogInv ==
    /\ DOMAIN leaf = 0..(registry.leafCount - 1)
    /\ ~registry.created => registry.leafCount = 0

\* A run whose transaction may still send it to the server, or has.
Busy(r) == Running(r) /\ relayer[r].pc # "gone"

OneBusy == serial => \A q, r \in Relayers : Busy(q) /\ Busy(r) => q = r

Notifying(r) == Running(r) /\ relayer[r].pc = "notify"

\* The tree embeds into the log, and a run that is about to notify the server
\* has its leaf behind all leaves of the tree.
Embeds(at) ==
    /\ at \in [DOMAIN mirror.leaves -> DOMAIN leaf]
    /\ \A i \in DOMAIN mirror.leaves : leaf[at[i]] = mirror.leaves[i]
    /\ \A i, j \in DOMAIN mirror.leaves : i < j => at[i] < at[j]
    /\ \A r \in Relayers : Notifying(r) =>
         /\ relayer[r].index \in DOMAIN leaf
         /\ leaf[relayer[r].index] = relayer[r].commitment
         /\ \A i \in DOMAIN mirror.leaves : at[i] < relayer[r].index

OrderInv ==
    /\ LogInv
    /\ OneBusy
    /\ serial => \E at : Embeds(at)

LEMMA OrderInvInit == MirrorInit => OrderInv
  <1> SUFFICES ASSUME MirrorInit PROVE OrderInv
    OBVIOUS
  <1>1. /\ DOMAIN leaf = {} /\ registry.leafCount = 0
        /\ mirror.leaves = << >> /\ \A r \in Relayers : ~Running(r)
    BY DEF MirrorInit, EmptyMirror, RegistryInit, Running
  <1>2. Embeds(<< >>)
    BY <1>1 DEF Embeds, Notifying
  <1>3. QED
    BY <1>1, <1>2 DEF OrderInv, LogInv, OneBusy, Busy

\* The log and the tree stay, and no run comes to notify the server.
LEMMA OrderStays ==
  ASSUME OrderInv, UNCHANGED <<leaf, mirror, serial>>, LogInv', OneBusy',
         \A q \in Relayers : Notifying(q)' => relayer'[q] = relayer[q]
  PROVE  OrderInv'
  <1>1. ASSUME NEW at, Embeds(at)
        PROVE  Embeds(at)'
    BY <1>1 DEF Embeds, Notifying, Running
  <1>2. QED
    BY <1>1 DEF OrderInv

\* A leaf is added behind all others; the run that comes to notify the server,
\* if any, has sent it.
LEMMA OrderGrows ==
  ASSUME MirrorInv, OrderInv, NEW k \in Nat, NEW c \in Commitments,
         InsertCommitment(k, c), UNCHANGED <<mirror, serial>>, OneBusy',
         \A q \in Relayers : Notifying(q)' =>
            \/ relayer'[q] = relayer[q]
            \/ relayer'[q].index = k /\ relayer'[q].commitment = c
  PROVE  OrderInv'
  <1>1. /\ k = registry.leafCount /\ registry.leafCount \in Nat
        /\ DOMAIN leaf' = DOMAIN leaf \cup {k} /\ k \notin DOMAIN leaf
        /\ leaf'[k] = c /\ \A i \in DOMAIN leaf : leaf'[i] = leaf[i]
        /\ registry'.leafCount = k + 1 /\ registry'.created = registry.created
        /\ registry.created
    BY DEF InsertCommitment, MirrorInv, MirrorShape, RegistryTypeOK
  <1>2. \A i \in DOMAIN leaf : i \in Nat /\ i < k
    BY <1>1 DEF OrderInv, LogInv
  <1>3. LogInv'
    BY <1>1 DEF OrderInv, LogInv
  <1>4. ASSUME NEW at, Embeds(at)
        PROVE  Embeds(at)'
    <2>1. \A i \in DOMAIN mirror.leaves : at[i] \in DOMAIN leaf /\ at[i] < k
      BY <1>2, <1>4 DEF Embeds
    <2>2. at \in [DOMAIN mirror.leaves -> DOMAIN leaf']
      BY <1>1, <1>4 DEF Embeds
    <2>3. \A i \in DOMAIN mirror.leaves : leaf'[at[i]] = mirror.leaves[i]
      BY <1>1, <1>4, <2>1 DEF Embeds
    <2>4. ASSUME NEW q \in Relayers, Notifying(q)'
          PROVE  /\ relayer'[q].index \in DOMAIN leaf'
                 /\ leaf'[relayer'[q].index] = relayer'[q].commitment
                 /\ \A i \in DOMAIN mirror.leaves : at[i] < relayer'[q].index
      <3>1. CASE relayer'[q] = relayer[q]
        BY <1>1, <1>4, <2>4, <3>1 DEF Embeds, Notifying, Running
      <3>2. CASE relayer'[q].index = k /\ relayer'[q].commitment = c
        BY <1>1, <2>1, <3>2
      <3>3. QED
        BY <2>4, <3>1, <3>2
    <2>5. QED
      BY <1>4, <2>2, <2>3, <2>4 DEF Embeds
  <1>5. QED
    BY <1>3, <1>4 DEF OrderInv

\* The leaf of the only run that notifies the server goes to the end of the tree.
LEMMA OrderNotified ==
  ASSUME MirrorInv, OrderInv, NEW r \in Relayers, Notify(r)
  PROVE  OrderInv'
  <1> DEFINE c == relayer[r].commitment
             k == relayer[r].index
             last == Len(mirror.leaves) + 1
  <1>1. /\ Notifying(r) /\ relayer' = [relayer EXCEPT ![r] = Idle]
        /\ UNCHANGED <<registry, leaf, serial>> /\ Insert(c)
    BY DEF Notify, Notifying
  <1>2. \A q \in Relayers : ~Notifying(r)' /\ (Busy(q)' => Busy(q) /\ q # r)
    BY <1>1 DEF Notifying, Busy, Running, MirrorInv, MirrorShape
  <1>3. LogInv' /\ OneBusy'
    BY <1>1, <1>2 DEF OrderInv, LogInv, OneBusy
  <1>4. CASE mirror' = mirror
    BY <1>1, <1>3, <1>4, OrderStays
    DEF Notifying, Running, MirrorInv, MirrorShape
  <1>5. CASE mirror'.leaves = Append(mirror.leaves, c) /\ serial
    <2>1. PICK at : Embeds(at)
      BY <1>5 DEF OrderInv
    <2>2. \A q \in Relayers : ~Notifying(q)'
      BY <1>1, <1>2, <1>5 DEF OrderInv, OneBusy, Notifying, Busy
    <2>3. /\ k \in DOMAIN leaf /\ leaf[k] = c
          /\ \A i \in DOMAIN mirror.leaves : at[i] < k
      BY <1>1, <2>1 DEF Embeds
    <2>4. /\ Len(mirror.leaves) \in Nat
          /\ DOMAIN mirror.leaves = 1..Len(mirror.leaves)
          /\ DOMAIN mirror'.leaves = 1..last
          /\ mirror'.leaves[last] = c
          /\ \A i \in DOMAIN mirror.leaves : mirror'.leaves[i] = mirror.leaves[i]
      BY <1>5 DEF MirrorInv, MirrorShape
    <2>5. PICK to : to = [i \in 1..last |-> IF i = last THEN k ELSE at[i]]
      OBVIOUS
    <2>6. to \in [DOMAIN mirror'.leaves -> DOMAIN leaf']
      BY <1>1, <2>1, <2>3, <2>4, <2>5 DEF Embeds
    <2>7. \A i \in DOMAIN mirror'.leaves : leaf'[to[i]] = mirror'.leaves[i]
      BY <1>1, <2>1, <2>3, <2>4, <2>5 DEF Embeds
    <2>8. \A i, j \in DOMAIN mirror'.leaves : i < j => to[i] < to[j]
      <3>1. ASSUME NEW i \in DOMAIN mirror'.leaves, NEW j \in DOMAIN mirror'.leaves, i < j
            PROVE  to[i] < to[j]
        <4>1. i \in DOMAIN mirror.leaves
          BY <2>4, <3>1
        <4>2. j = last \/ j \in DOMAIN mirror.leaves
          BY <2>4
        <4>3. to[last] = k /\ \A l \in DOMAIN mirror.leaves : to[l] = at[l]
          BY <2>4, <2>5
        <4>4. CASE j = last
          BY <2>3, <4>1, <4>3, <4>4
        <4>5. CASE j \in DOMAIN mirror.leaves
          BY <2>1, <3>1, <4>1, <4>3, <4>5 DEF Embeds
        <4>6. QED
          BY <4>2, <4>4, <4>5
      <3>2. QED
        BY <3>1
    <2>9. Embeds(to)'
      BY <2>2, <2>6, <2>7, <2>8 DEF Embeds
    <2>10. QED
      BY <1>3, <2>9 DEF OrderInv
  <1>6. CASE ~serial
    BY <1>1, <1>3, <1>6 DEF OrderInv
  <1>7. QED
    BY <1>1, <1>4, <1>5, <1>6 DEF Insert

LEMMA OrderRelayer ==
  ASSUME MirrorInv, OrderInv, NEW r \in Relayers, RelayerStep(r)
  PROVE  OrderInv'
  <1> USE DEF MirrorInv, MirrorShape
  <1>1. ASSUME NEW c \in Commitments, Send(r, c)
        PROVE  OrderInv'
    <2> DEFINE next == [pc |-> "sent", commitment |-> c, index |-> registry.leafCount]
    <2>1. /\ relayer' = [relayer EXCEPT ![r] = next] /\ next.pc = "sent"
          /\ UNCHANGED <<registry, leaf, mirror, serial>>
          /\ serial => \A q \in Relayers : ~Busy(q)
      BY <1>1 DEF Send, Busy
    <2> HIDE DEF next
    <2>2. \A q \in Relayers : q # r => relayer'[q] = relayer[q]
      BY <2>1
    <2>3. relayer'[r] = next
      BY <2>1
    <2>4. LogInv' /\ OneBusy'
      BY <2>1, <2>2 DEF OrderInv, LogInv, OneBusy, Busy, Running
    <2>5. \A q \in Relayers : Notifying(q)' => relayer'[q] = relayer[q]
      BY <2>1, <2>2, <2>3 DEF Notifying, Running
    <2>6. QED
      BY <2>1, <2>4, <2>5, OrderStays
  <1>2. CASE GiveUp(r)
    <2> DEFINE next == [relayer[r] EXCEPT !.pc = "gone"]
    <2>1. next.pc = "gone"
      BY <1>2, RelayerType DEF GiveUp, Registrations
    <2>2. /\ relayer' = [relayer EXCEPT ![r] = next]
          /\ UNCHANGED <<registry, leaf, mirror, serial>>
      BY <1>2 DEF GiveUp
    <2> HIDE DEF next
    <2>3. /\ \A q \in Relayers : q # r => relayer'[q] = relayer[q]
          /\ relayer'[r] = next
      BY <2>2
    <2>4. LogInv' /\ OneBusy'
      BY <2>1, <2>2, <2>3 DEF OrderInv, LogInv, OneBusy, Busy, Running
    <2>5. \A q \in Relayers : Notifying(q)' => relayer'[q] = relayer[q]
      BY <2>1, <2>3 DEF Notifying, Running
    <2>6. QED
      BY <2>2, <2>4, <2>5, OrderStays
  <1>3. CASE Land(r)
    <2> DEFINE next == [relayer[r] EXCEPT !.pc = "notify"]
    <2>1. /\ relayer[r] \in Registrations /\ Running(r)
          /\ next.index = relayer[r].index /\ next.commitment = relayer[r].commitment
          /\ relayer[r].index \in Nat /\ relayer[r].commitment \in Commitments
      BY <1>3, RelayerType DEF Land, Registrations
    <2>2. /\ \/ relayer' = [relayer EXCEPT ![r] = next] /\ relayer[r].pc = "sent"
             \/ relayer' = [relayer EXCEPT ![r] = Idle]
          /\ UNCHANGED <<mirror, serial>>
          /\ InsertCommitment(relayer[r].index, relayer[r].commitment)
      BY <1>3 DEF Land
    <2> HIDE DEF next
    <2>3. /\ \A q \in Relayers : q # r => relayer'[q] = relayer[q]
          /\ relayer'[r] = Idle \/ (relayer'[r] = next /\ Busy(r))
      BY <2>1, <2>2 DEF Busy
    <2>4. OneBusy'
      BY <2>2, <2>3 DEF OrderInv, OneBusy, Busy, Running
    <2>5. \A q \in Relayers : Notifying(q)' =>
            \/ relayer'[q] = relayer[q]
            \/ /\ relayer'[q].index = relayer[r].index
               /\ relayer'[q].commitment = relayer[r].commitment
      BY <2>1, <2>3 DEF Notifying, Running
    <2>6. QED
      BY <2>1, <2>2, <2>4, <2>5, OrderGrows
  <1>4. CASE Reject(r) \/ NotifyFails(r)
    <2>1. /\ relayer' = [relayer EXCEPT ![r] = Idle]
          /\ UNCHANGED <<registry, leaf, mirror, serial>>
      BY <1>4 DEF Reject, NotifyFails
    <2>2. \A q \in Relayers : relayer'[q] = relayer[q] \/ relayer'[q] = Idle
      BY <2>1
    <2>3. LogInv' /\ OneBusy'
      BY <2>1, <2>2 DEF OrderInv, LogInv, OneBusy, Busy, Running
    <2>4. QED
      BY <2>1, <2>2, <2>3, OrderStays DEF Notifying, Running
  <1>5. CASE Notify(r)
    BY <1>5, OrderNotified
  <1>6. QED
    BY <1>1, <1>2, <1>3, <1>4, <1>5 DEF RelayerStep

LEMMA OrderInvStep ==
  MirrorInv /\ OrderInv /\ [MirrorNext]_mirrorVars => OrderInv'
  <1> SUFFICES ASSUME MirrorInv, OrderInv, [MirrorNext]_mirrorVars PROVE OrderInv'
    OBVIOUS
  <1>1. CASE MirrorAdminister
    <2>1. UNCHANGED <<leaf, mirror, relayer, serial>>
      BY <1>1 DEF MirrorAdminister, InitVoterRegistry
    <2>2. LogInv'
      <3>1. CASE UNCHANGED registry
        BY <2>1, <3>1 DEF OrderInv, LogInv
      <3>2. CASE InitVoterRegistry
        BY <2>1, <3>2 DEF OrderInv, LogInv, InitVoterRegistry
      <3>3. QED
        BY <1>1, <3>1, <3>2 DEF MirrorAdminister
    <2>3. OneBusy'
      BY <2>1 DEF OrderInv, OneBusy, Busy, Running
    <2>4. QED
      BY <2>1, <2>2, <2>3, OrderStays
  <1>2. ASSUME NEW r \in Relayers, RelayerStep(r)
        PROVE  OrderInv'
    BY <1>2, OrderRelayer
  <1>3. ASSUME NEW c \in Commitments, EnclaveRegisters(c)
        PROVE  OrderInv'
    <2>1. /\ UNCHANGED <<mirror, relayer, serial>> /\ registry.leafCount \in Nat
          /\ InsertCommitment(registry.leafCount, c)
      BY <1>3 DEF EnclaveRegisters, MirrorInv, MirrorShape, RegistryTypeOK
    <2>2. OneBusy'
      BY <2>1 DEF OrderInv, OneBusy, Busy, Running
    <2>3. QED
      BY <2>1, <2>2, OrderGrows
  <1>4. CASE RestartServer
    <2>1. mirror'.leaves = << >> /\ UNCHANGED <<registry, leaf, relayer, serial>>
      BY <1>4 DEF RestartServer, EmptyMirror
    <2>2. LogInv' /\ OneBusy'
      BY <2>1 DEF OrderInv, LogInv, OneBusy, Busy, Running
    <2>3. ASSUME NEW at, Embeds(at)
          PROVE  Embeds(<< >>)'
      BY <2>1, <2>3 DEF Embeds, Notifying, Running
    <2>4. QED
      BY <2>1, <2>2, <2>3 DEF OrderInv
  <1>5. CASE UNCHANGED mirrorVars
    <2>1. UNCHANGED <<registry, leaf, mirror, relayer, serial>>
      BY <1>5 DEF mirrorVars
    <2>2. LogInv' /\ OneBusy'
      BY <2>1 DEF OrderInv, LogInv, OneBusy, Busy, Running
    <2>3. QED
      BY <2>1, <2>2, OrderStays
  <1>6. QED
    BY <1>1, <1>2, <1>3, <1>4, <1>5 DEF MirrorNext

-----------------------------------------------------------------------------
(* Induction over data: a set that holds 0 and is closed under + 1 *)

\* A set of natural numbers has a least element: among the intervals up to
\* its elements, one contains no other.
LEMMA LeastNat ==
  ASSUME NEW T \in SUBSET Nat, T # {}
  PROVE  \E m \in T : \A k \in T : m <= k
  <1> DEFINE F == {0..k : k \in T}
  <1>1. F \subseteq FiniteSubsetsOf(Nat)
    <2>1. \A k \in T : 0..k \subseteq Nat /\ IsFiniteSet(0..k)
      BY FS_Interval
    <2>2. QED
      BY <2>1 DEF FiniteSubsetsOf
  <1>2. F # {}
    OBVIOUS
  <1>3. PICK x \in F : \A y \in F : ~(<<y, x>> \in StrictSubsetOrdering(Nat))
    <2> HIDE DEF F
    <2>1. IsWellFoundedOn(StrictSubsetOrdering(Nat), FiniteSubsetsOf(Nat))
      BY FS_StrictSubsetOrderingWellFounded, Zenon
    <2>2. QED
      BY <1>1, <1>2, <2>1, WFMin, Zenon
  <1>4. PICK m \in T : x = 0..m
    OBVIOUS
  <1>5. ASSUME NEW k \in T, k < m PROVE FALSE
    <2> DEFINE a == 0..k
               b == 0..m
    <2>1. a \in SUBSET Nat /\ b \in SUBSET Nat /\ a \subseteq b
      BY <1>5
    <2>2. m \in b /\ m \notin a
      BY <1>5
    <2>3. a \in F /\ b = x
      BY <1>4
    <2> HIDE DEF a, b, F
    <2>4. <<a, b>> \in StrictSubsetOrdering(Nat)
      BY <2>1, <2>2 DEF StrictSubsetOrdering
    <2>5. QED
      BY <1>3, <2>3, <2>4
  <1>6. QED
    BY <1>5

LEMMA NatInductionSet ==
  ASSUME NEW S, 0 \in S, \A n \in Nat : n \in S => n + 1 \in S
  PROVE  Nat \subseteq S
  <1> DEFINE T == Nat \ S
  <1>1. ASSUME T # {} PROVE FALSE
    <2>1. PICK m \in T : \A k \in T : m <= k
      BY <1>1, LeastNat
    <2>2. m # 0 /\ m - 1 \in Nat /\ m - 1 \notin T
      BY <2>1
    <2>3. QED
      BY <2>2
  <1>2. QED
    BY <1>1

-----------------------------------------------------------------------------
(* Powers of two *)

\* An interval of one more number has twice as many subsets: those without
\* the new number, and these with the number added.
LEMMA SubsetsOfMore ==
  ASSUME NEW n \in Nat
  PROVE  Cardinality(SUBSET (1..(n + 1))) = Cardinality(SUBSET (1..n)) + Cardinality(SUBSET (1..n))
  <1> DEFINE Without == SUBSET (1..n)
             With == {T \cup {n + 1} : T \in SUBSET (1..n)}
             f == [T \in Without |-> T \cup {n + 1}]
  <1>1. IsFiniteSet(Without) /\ Cardinality(Without) \in Nat
    <2>1. IsFiniteSet(1..n)
      BY FS_Interval
    <2>2. IsFiniteSet(Without)
      BY <2>1, FS_SUBSET
    <2>3. QED
      BY <2>2, FS_CardinalityType
  <1>2. \A T \in Without : n + 1 \notin T
    OBVIOUS
  <1>3. f \in Bijection(Without, With)
    <2>1. f \in [Without -> With]
      OBVIOUS
    <2>2. ASSUME NEW T \in Without, NEW U \in Without, f[T] = f[U]
          PROVE  T = U
      BY <1>2, <2>2
    <2>3. \A V \in With : \E T \in Without : f[T] = V
      OBVIOUS
    <2>4. QED
      BY <2>1, <2>2, <2>3 DEF Bijection, Injection, Surjection, IsInjective
  <1>4. IsFiniteSet(With) /\ Cardinality(With) = Cardinality(Without)
    <2> HIDE DEF f, With, Without
    <2> QED
      BY <1>1, <1>3, FS_Bijection DEF ExistsBijection
  <1>5. SUBSET (1..(n + 1)) = Without \cup With
    <2>1. ASSUME NEW T \in SUBSET (1..(n + 1)), T \notin Without
          PROVE  T \in With
      <3>1. n + 1 \in T /\ T \ {n + 1} \in SUBSET (1..n)
        BY <2>1
      <3>2. T = (T \ {n + 1}) \cup {n + 1}
        BY <3>1
      <3>3. QED
        BY <3>1, <3>2
    <2>2. ASSUME NEW U \in Without
          PROVE  U \cup {n + 1} \in SUBSET (1..(n + 1))
      OBVIOUS
    <2>3. ASSUME NEW T \in Without
          PROVE  T \in SUBSET (1..(n + 1))
      OBVIOUS
    <2>4. \A T \in With : T \in SUBSET (1..(n + 1))
      BY <2>2
    <2> HIDE DEF With, Without
    <2>5. QED
      BY <2>1, <2>3, <2>4
  <1>6. Without \cap With = {}
    BY <1>2
  <1>7. QED
    <2> HIDE DEF f, With, Without
    <2>1. Cardinality(Without \cap With) = 0
      BY <1>6, FS_EmptySet
    <2>2. Cardinality(Without \cup With)
            = Cardinality(Without) + Cardinality(With) - Cardinality(Without \cap With)
      BY <1>1, <1>4, FS_Union
    <2>3. Cardinality(Without \cup With) = Cardinality(Without) + Cardinality(Without)
      BY <1>1, <1>4, <2>1, <2>2
    <2>4. QED
      BY <1>5, <2>3, Zenon DEF Without

LEMMA PowerIsCardinality ==
  ASSUME NEW n \in Nat
  PROVE  2 ^ n = Cardinality(SUBSET (1..n)) /\ 2 ^ n \in Nat
  <1>1. IsFiniteSet(1..n) /\ Cardinality(1..n) = n
    BY FS_Interval
  <1>2. IsFiniteSet(SUBSET (1..n)) /\ Cardinality(SUBSET (1..n)) = 2 ^ n
    BY <1>1, FS_SUBSET
  <1>3. QED
    BY <1>2, FS_CardinalityType

LEMMA PowerOfTwo ==
  ASSUME NEW n \in Nat
  PROVE  /\ 2 ^ n \in Nat /\ 2 ^ n > 0
         /\ 2 ^ (n + 1) = 2 ^ n + 2 ^ n
  <1>1. \A k \in Nat : 2 ^ k \in Nat /\ 2 ^ (k + 1) = 2 ^ k + 2 ^ k
    <2> TAKE k \in Nat
    <2>1. k + 1 \in Nat
      OBVIOUS
    <2>2. QED
      BY <2>1, PowerIsCardinality, SubsetsOfMore
  <1> DEFINE S == {k \in Nat : 2 ^ k > 0}
  <1>2. 0 \in S
    OBVIOUS
  <1>3. ASSUME NEW k \in Nat, k \in S
        PROVE  k + 1 \in S
    <2>1. 2 ^ k \in Nat /\ 2 ^ k > 0 /\ 2 ^ (k + 1) = 2 ^ k + 2 ^ k
      BY <1>1, <1>3
    <2>2. QED
      BY <2>1
  <1> HIDE DEF S
  <1>4. n \in S
    BY <1>2, <1>3, NatInductionSet
  <1>5. QED
    BY <1>1, <1>4 DEF S
-----------------------------------------------------------------------------
(* The tree's recursive functions do what their equations say *)

EmptySubtrees(g, k) ==
    g = [level \in 0..k |-> IF level = 0 THEN EmptyLeaf
                            ELSE NodeHash(g[level - 1], g[level - 1])]

LEMMA EmptyUnfolds ==
  /\ EmptySubtree[0] = EmptyLeaf
  /\ \A l \in 1..DEPTH : EmptySubtree[l] = NodeHash(EmptySubtree[l - 1], EmptySubtree[l - 1])
  <1> DEFINE S == {k \in Nat : \E g : EmptySubtrees(g, k)}
  <1>1. 0 \in S
    <2>1. EmptySubtrees([level \in 0..0 |-> EmptyLeaf], 0)
      BY DEF EmptySubtrees
    <2>2. 0 \in Nat /\ \E g : EmptySubtrees(g, 0)
      BY <2>1
    <2>3. QED
      BY <2>2, Zenon
  <1>2. ASSUME NEW k \in Nat, k \in S
        PROVE  k + 1 \in S
    <2>1. PICK g : EmptySubtrees(g, k)
      BY <1>2
    <2> DEFINE e == [level \in 0..(k + 1) |-> IF level <= k THEN g[level]
                                              ELSE NodeHash(g[k], g[k])]
    <2>2. EmptySubtrees(e, k + 1)
      BY <2>1 DEF EmptySubtrees
    <2>3. k + 1 \in Nat /\ \E h : EmptySubtrees(h, k + 1)
      BY <2>2
    <2>4. QED
      BY <2>3, Zenon
  <1> HIDE DEF S
  <1>3. DEPTH \in S
    BY <1>1, <1>2, NatInductionSet, DepthAssumption
  <1>4. PICK g : EmptySubtrees(g, DEPTH)
    BY <1>3 DEF S
  <1>5. EmptySubtrees(EmptySubtree, DEPTH)
    BY <1>4 DEF EmptySubtree, EmptySubtrees
  <1>6. \A h : EmptySubtrees(h, DEPTH) =>
          \A l \in 0..DEPTH : h[l] = IF l = 0 THEN EmptyLeaf ELSE NodeHash(h[l - 1], h[l - 1])
    BY DepthAssumption DEF EmptySubtrees
  <1>7. QED
    BY <1>5, <1>6, DepthAssumption

HashTable(g, leaves, k) ==
    g = [l \in 0..k |->
          [s \in Nat |->
             IF s >= Len(leaves) THEN EmptySubtree[l]
             ELSE IF l = 0 THEN LeafHash(leaves[s + 1])
             ELSE NodeHash(g[l - 1][s], g[l - 1][s + 2 ^ (l - 1)])]]

LEMMA HashRow ==
  ASSUME NEW g, NEW leaves, NEW k \in Nat, HashTable(g, leaves, k), NEW l \in 0..k
  PROVE  g[l] = [s \in Nat |->
           IF s >= Len(leaves) THEN EmptySubtree[l]
           ELSE IF l = 0 THEN LeafHash(leaves[s + 1])
           ELSE NodeHash(g[l - 1][s], g[l - 1][s + 2 ^ (l - 1)])]
  BY DEF HashTable

LEMMA HashUnfolds ==
  ASSUME NEW leaves, NEW l \in 0..DEPTH, NEW s \in Nat
  PROVE  SubtreeHash(leaves, l, s) =
           IF s >= Len(leaves) THEN EmptySubtree[l]
           ELSE IF l = 0 THEN LeafHash(leaves[s + 1])
           ELSE NodeHash(SubtreeHash(leaves, l - 1, s),
                         SubtreeHash(leaves, l - 1, s + 2 ^ (l - 1)))
  <1> DEFINE S == {k \in Nat : \E g : HashTable(g, leaves, k)}
  <1>1. 0 \in S
    <2> DEFINE e == [m \in 0..0 |->
                      [t \in Nat |-> IF t >= Len(leaves) THEN EmptySubtree[m]
                                     ELSE LeafHash(leaves[t + 1])]]
    <2>1. HashTable(e, leaves, 0)
      BY DEF HashTable
    <2>2. 0 \in Nat /\ \E g : HashTable(g, leaves, 0)
      BY <2>1
    <2>3. QED
      BY <2>2, Zenon
  <1>2. ASSUME NEW k \in Nat, k \in S
        PROVE  k + 1 \in S
    <2>1. PICK g : HashTable(g, leaves, k)
      BY <1>2
    <2> DEFINE e == [m \in 0..(k + 1) |->
                      IF m <= k THEN g[m]
                      ELSE [t \in Nat |-> IF t >= Len(leaves) THEN EmptySubtree[m]
                                          ELSE NodeHash(g[k][t], g[k][t + 2 ^ k])]]
    <2>2. \A m \in 0..(k + 1) :
             e[m] = [t \in Nat |->
                       IF t >= Len(leaves) THEN EmptySubtree[m]
                       ELSE IF m = 0 THEN LeafHash(leaves[t + 1])
                       ELSE NodeHash(e[m - 1][t], e[m - 1][t + 2 ^ (m - 1)])]
      <3> TAKE m \in 0..(k + 1)
      <3>1. CASE m <= k
        <4>1. e[m] = g[m] /\ (m > 0 => e[m - 1] = g[m - 1])
          BY <3>1
        <4>2. g[m] = [t \in Nat |->
                       IF t >= Len(leaves) THEN EmptySubtree[m]
                       ELSE IF m = 0 THEN LeafHash(leaves[t + 1])
                       ELSE NodeHash(g[m - 1][t], g[m - 1][t + 2 ^ (m - 1)])]
          BY <2>1, <3>1, HashRow
        <4> HIDE DEF e
        <4>3. CASE m = 0
          BY <4>1, <4>2, <4>3
        <4>4. CASE m > 0
          BY <4>1, <4>2, <4>4
        <4>5. QED
          BY <4>3, <4>4
      <3>2. CASE m = k + 1
        <4>1. e[m] = [t \in Nat |-> IF t >= Len(leaves) THEN EmptySubtree[m]
                                    ELSE NodeHash(g[k][t], g[k][t + 2 ^ k])]
          BY <3>2
        <4>2. e[m - 1] = g[k] /\ m - 1 = k /\ m # 0
          BY <3>2
        <4> HIDE DEF e
        <4>3. QED
          BY <4>1, <4>2
      <3>3. m <= k \/ m = k + 1
        OBVIOUS
      <3>4. QED
        BY <3>1, <3>2, <3>3, Zenon
    <2>3. HashTable(e, leaves, k + 1)
      <3>1. DOMAIN e = 0..(k + 1) /\ e = [m \in 0..(k + 1) |-> e[m]]
        OBVIOUS
      <3> HIDE DEF e
      <3>2. QED
        BY <2>2, <3>1 DEF HashTable
    <2>4. k + 1 \in Nat /\ \E h : HashTable(h, leaves, k + 1)
      BY <2>3
    <2>5. QED
      BY <2>4, Zenon
  <1> HIDE DEF S
  <1>3. DEPTH \in S
    BY <1>1, <1>2, NatInductionSet, DepthAssumption
  <1>4. PICK g : HashTable(g, leaves, DEPTH)
    BY <1>3 DEF S
  <1> DEFINE hash[m \in 0..DEPTH] ==
               [t \in Nat |->
                  IF t >= Len(leaves) THEN EmptySubtree[m]
                  ELSE IF m = 0 THEN LeafHash(leaves[t + 1])
                  ELSE NodeHash(hash[m - 1][t], hash[m - 1][t + 2 ^ (m - 1)])]
  <1>5. HashTable(hash, leaves, DEPTH)
    BY <1>4 DEF HashTable
  <1>6. \A m, t : SubtreeHash(leaves, m, t) = hash[m][t]
    BY DEF SubtreeHash
  <1> HIDE DEF hash
  <1>7. hash[l][s] =
           IF s >= Len(leaves) THEN EmptySubtree[l]
           ELSE IF l = 0 THEN LeafHash(leaves[s + 1])
           ELSE NodeHash(hash[l - 1][s], hash[l - 1][s + 2 ^ (l - 1)])
    <2>1. hash[l] = [t \in Nat |->
             IF t >= Len(leaves) THEN EmptySubtree[l]
             ELSE IF l = 0 THEN LeafHash(leaves[t + 1])
             ELSE NodeHash(hash[l - 1][t], hash[l - 1][t + 2 ^ (l - 1)])]
      BY <1>5, HashRow, DepthAssumption
    <2>2. QED
      BY <2>1
  <1>8. QED
    BY <1>6, <1>7
-----------------------------------------------------------------------------
(* The root *)

\* A subtree is made of its halves, also where leaves are missing.
LEMMA HashSplits ==
  ASSUME NEW Things, NEW leaves \in Seq(Things), NEW l \in 0..(DEPTH - 1), NEW s \in Nat
  PROVE  SubtreeHash(leaves, l + 1, s) =
           NodeHash(SubtreeHash(leaves, l, s), SubtreeHash(leaves, l, s + 2 ^ l))
  <1>1. /\ l \in 0..DEPTH /\ l + 1 \in 0..DEPTH /\ l + 1 # 0 /\ (l + 1) - 1 = l
        /\ 2 ^ l \in Nat /\ s + 2 ^ l \in Nat /\ Len(leaves) \in Nat
        /\ l + 1 \in 1..DEPTH
    BY PowerOfTwo, DepthAssumption
  <1>2. CASE s < Len(leaves)
    BY <1>1, <1>2, HashUnfolds
  <1>3. CASE s >= Len(leaves)
    <2>1. SubtreeHash(leaves, l + 1, s) = EmptySubtree[l + 1]
      BY <1>1, <1>3, HashUnfolds
    <2>2. SubtreeHash(leaves, l, s) = EmptySubtree[l]
      BY <1>1, <1>3, HashUnfolds
    <2>3. s + 2 ^ l >= Len(leaves)
      BY <1>1, <1>3
    <2>4. SubtreeHash(leaves, l, s + 2 ^ l) = EmptySubtree[l]
      BY <1>1, <2>3, HashUnfolds
    <2>5. EmptySubtree[l + 1] = NodeHash(EmptySubtree[l], EmptySubtree[l])
      BY <1>1, EmptyUnfolds
    <2>6. QED
      BY <2>1, <2>2, <2>4, <2>5
  <1>4. QED
    BY <1>1, <1>2, <1>3

LEMMA HashOfOne ==
  ASSUME NEW Things, NEW leaves \in Seq(Things), NEW s \in Nat
  PROVE  SubtreeHash(leaves, 0, s) =
           IF s < Len(leaves) THEN LeafHash(leaves[s + 1]) ELSE EmptyLeaf
  BY HashUnfolds, EmptyUnfolds, DepthAssumption

\* The layer of height l holds the subtrees of that height.
Layer(leaves, l) == [n \in 0..(2 ^ (DEPTH - l) - 1) |-> SubtreeHash(leaves, l, n * 2 ^ l)]

LayersFrom(g, leaves) ==
    g = [l \in 0..DEPTH |->
          [n \in 0..(2 ^ (DEPTH - l) - 1) |->
             IF l > 0 THEN NodeHash(g[l - 1][2 * n], g[l - 1][2 * n + 1])
             ELSE IF n < Len(leaves) THEN LeafHash(leaves[n + 1]) ELSE EmptyLeaf]]

LEMMA LayerPairs ==
  ASSUME NEW Things, NEW leaves \in Seq(Things), NEW l \in 1..DEPTH,
         NEW n \in 0..(2 ^ (DEPTH - l) - 1)
  PROVE  /\ Layer(leaves, l)[n]
              = NodeHash(Layer(leaves, l - 1)[2 * n], Layer(leaves, l - 1)[2 * n + 1])
         /\ 2 * n \in 0..(2 ^ (DEPTH - (l - 1)) - 1)
         /\ 2 * n + 1 \in 0..(2 ^ (DEPTH - (l - 1)) - 1)
  <1> DEFINE p == 2 ^ (l - 1)
             q == 2 ^ (DEPTH - l)
  <1>1. l - 1 \in Nat /\ DEPTH - l \in Nat /\ l - 1 \in 0..(DEPTH - 1)
    BY DepthAssumption
  <1>2. /\ p \in Nat /\ 2 ^ l = p + p
        /\ q \in Nat /\ 2 ^ (DEPTH - (l - 1)) = q + q
    <2>1. (l - 1) + 1 = l /\ (DEPTH - l) + 1 = DEPTH - (l - 1)
      BY DepthAssumption
    <2>2. QED
      BY <1>1, <2>1, PowerOfTwo
  <1>3. n \in Nat /\ n <= q - 1
    BY <1>2
  <1> HIDE DEF p, q
  <1>4. /\ 2 * n \in 0..((q + q) - 1) /\ 2 * n + 1 \in 0..((q + q) - 1)
    BY <1>2, <1>3
  <1>5. /\ n * (p + p) = (2 * n) * p /\ n * (p + p) + p = (2 * n + 1) * p
        /\ n * (p + p) \in Nat
    BY <1>2, <1>3
  <1>6. SubtreeHash(leaves, l, n * (p + p))
          = NodeHash(SubtreeHash(leaves, l - 1, n * (p + p)),
                     SubtreeHash(leaves, l - 1, n * (p + p) + p))
    <2>1. (l - 1) + 1 = l
      OBVIOUS
    <2>2. QED
      BY <1>1, <1>5, <2>1, HashSplits, ZenonT(30) DEF p
  <1>7. Layer(leaves, l)[n] = SubtreeHash(leaves, l, n * (p + p))
    BY <1>2 DEF Layer
  <1>8. /\ Layer(leaves, l - 1)[2 * n] = SubtreeHash(leaves, l - 1, (2 * n) * p)
        /\ Layer(leaves, l - 1)[2 * n + 1] = SubtreeHash(leaves, l - 1, (2 * n + 1) * p)
    BY <1>2, <1>4 DEF Layer, p
  <1>9. QED
    BY <1>2, <1>4, <1>5, <1>6, <1>7, <1>8

LEMMA LayersAt ==
  ASSUME NEW g, NEW leaves, LayersFrom(g, leaves), NEW l \in 0..DEPTH,
         NEW n \in 0..(2 ^ (DEPTH - l) - 1)
  PROVE  g[l][n] = IF l > 0 THEN NodeHash(g[l - 1][2 * n], g[l - 1][2 * n + 1])
                   ELSE IF n < Len(leaves) THEN LeafHash(leaves[n + 1]) ELSE EmptyLeaf
  <1>1. g[l] = [i \in 0..(2 ^ (DEPTH - l) - 1) |->
             IF l > 0 THEN NodeHash(g[l - 1][2 * i], g[l - 1][2 * i + 1])
             ELSE IF i < Len(leaves) THEN LeafHash(leaves[i + 1]) ELSE EmptyLeaf]
    BY DEF LayersFrom
  <1>2. QED
    BY <1>1

LEMMA LayersAreHashes ==
  ASSUME NEW Things, NEW leaves \in Seq(Things), NEW g, LayersFrom(g, leaves)
  PROVE  \A l \in 0..DEPTH : \A n \in 0..(2 ^ (DEPTH - l) - 1) :
            g[l][n] = Layer(leaves, l)[n]
  <1> DEFINE S == {l \in Nat : l <= DEPTH =>
                     \A n \in 0..(2 ^ (DEPTH - l) - 1) : g[l][n] = Layer(leaves, l)[n]}
  <1>1. 0 \in S
    <2> SUFFICES ASSUME NEW n \in 0..(2 ^ (DEPTH - 0) - 1)
                 PROVE  g[0][n] = Layer(leaves, 0)[n]
      OBVIOUS
    <2>1. 2 ^ (DEPTH - 0) \in Nat /\ n \in Nat /\ n * 2 ^ 0 = n /\ 0 \in 0..DEPTH
      BY PowerOfTwo, DepthAssumption
    <2>2. g[0][n] = IF n < Len(leaves) THEN LeafHash(leaves[n + 1]) ELSE EmptyLeaf
      BY <2>1, LayersAt
    <2>3. Layer(leaves, 0)[n] = SubtreeHash(leaves, 0, n * 2 ^ 0)
      BY DEF Layer
    <2>4. QED
      BY <2>1, <2>2, <2>3, HashOfOne
  <1>2. ASSUME NEW k \in Nat, k \in S
        PROVE  k + 1 \in S
    <2>1. ASSUME NEW m \in 1..DEPTH, m = k + 1, NEW n \in 0..(2 ^ (DEPTH - m) - 1)
          PROVE  g[m][n] = Layer(leaves, m)[n]
      <3>1. \A i \in 0..(2 ^ (DEPTH - (m - 1)) - 1) : g[m - 1][i] = Layer(leaves, m - 1)[i]
        BY <1>2, <2>1, DepthAssumption
      <3>2. /\ Layer(leaves, m)[n]
                 = NodeHash(Layer(leaves, m - 1)[2 * n], Layer(leaves, m - 1)[2 * n + 1])
            /\ 2 * n \in 0..(2 ^ (DEPTH - (m - 1)) - 1)
            /\ 2 * n + 1 \in 0..(2 ^ (DEPTH - (m - 1)) - 1)
        BY LayerPairs
      <3>3. g[m][n] = NodeHash(g[m - 1][2 * n], g[m - 1][2 * n + 1])
        BY LayersAt, DepthAssumption
      <3>4. QED
        BY <3>1, <3>2, <3>3
    <2>2. QED
      BY <2>1, DepthAssumption
  <1> HIDE DEF S
  <1>3. Nat \subseteq S
    BY <1>1, <1>2, NatInductionSet
  <1>4. QED
    BY <1>3, DepthAssumption DEF S

LEMMA LayersExist ==
  ASSUME NEW Things, NEW leaves \in Seq(Things)
  PROVE  LayersFrom([l \in 0..DEPTH |-> Layer(leaves, l)], leaves)
  <1> DEFINE g == [l \in 0..DEPTH |-> Layer(leaves, l)]
  <1>1. ASSUME NEW l \in 0..DEPTH
        PROVE  g[l] = [n \in 0..(2 ^ (DEPTH - l) - 1) |->
             IF l > 0 THEN NodeHash(g[l - 1][2 * n], g[l - 1][2 * n + 1])
             ELSE IF n < Len(leaves) THEN LeafHash(leaves[n + 1]) ELSE EmptyLeaf]
    <2>1. CASE l = 0
      <3>1. 2 ^ (DEPTH - l) \in Nat
        BY <2>1, PowerOfTwo, DepthAssumption
      <3>2. \A n \in Nat : n * 2 ^ 0 = n
        OBVIOUS
      <3>3. \A n \in Nat : SubtreeHash(leaves, 0, n * 2 ^ 0) =
              IF n < Len(leaves) THEN LeafHash(leaves[n + 1]) ELSE EmptyLeaf
        BY <3>2, HashOfOne
      <3>4. QED
        BY <2>1, <3>1, <3>3 DEF Layer
    <2>2. CASE l > 0
      <3>1. l \in 1..DEPTH /\ g[l] = Layer(leaves, l) /\ g[l - 1] = Layer(leaves, l - 1)
        BY <2>2, DepthAssumption
      <3>2. \A n \in 0..(2 ^ (DEPTH - l) - 1) :
               Layer(leaves, l)[n]
                 = NodeHash(Layer(leaves, l - 1)[2 * n], Layer(leaves, l - 1)[2 * n + 1])
        BY <3>1, LayerPairs
      <3>3. Layer(leaves, l)
              = [n \in 0..(2 ^ (DEPTH - l) - 1) |-> Layer(leaves, l)[n]]
        BY DEF Layer
      <3> HIDE DEF g
      <3>4. QED
        BY <2>2, <3>1, <3>2, <3>3
    <2>3. l = 0 \/ l > 0
      OBVIOUS
    <2>4. QED
      BY <2>1, <2>2, <2>3, Zenon
  <1>2. g = [l \in 0..DEPTH |-> g[l]]
    OBVIOUS
  <1> HIDE DEF g
  <1>3. LayersFrom(g, leaves)
    BY <1>1, <1>2 DEF LayersFrom
  <1>4. QED
    BY <1>3 DEF g

LEMMA RootOfLayers ==
  ASSUME NEW Things, NEW leaves \in Seq(Things)
  PROVE  Root(leaves) = ReferenceRoot(leaves)
  <1> DEFINE layer[l \in 0..DEPTH] ==
               [n \in 0..(2 ^ (DEPTH - l) - 1) |->
                  IF l > 0 THEN NodeHash(layer[l - 1][2 * n], layer[l - 1][2 * n + 1])
                  ELSE IF n < Len(leaves) THEN LeafHash(leaves[n + 1]) ELSE EmptyLeaf]
  <1>1. PICK g : LayersFrom(g, leaves)
    BY LayersExist
  <1>2. LayersFrom(layer, leaves)
    BY <1>1 DEF LayersFrom
  <1>3. ReferenceRoot(leaves) = layer[DEPTH][0]
    BY DEF ReferenceRoot
  <1> HIDE DEF layer
  <1>4. \A n \in 0..(2 ^ (DEPTH - DEPTH) - 1) : layer[DEPTH][n] = Layer(leaves, DEPTH)[n]
    <2>1. DEPTH \in 0..DEPTH
      BY DepthAssumption
    <2>2. \A l \in 0..DEPTH : \A n \in 0..(2 ^ (DEPTH - l) - 1) :
             layer[l][n] = Layer(leaves, l)[n]
      BY <1>2, LayersAreHashes
    <2>3. QED
      BY <2>1, <2>2
  <1>5. /\ 2 ^ (DEPTH - DEPTH) = 1 /\ 0 \in 0..(1 - 1) /\ 2 ^ DEPTH \in Nat
    BY PowerOfTwo, DepthAssumption
  <1>6. Layer(leaves, DEPTH)[0] = SubtreeHash(leaves, DEPTH, 0 * 2 ^ DEPTH)
    BY <1>5 DEF Layer
  <1>7. 0 * 2 ^ DEPTH = 0
    BY <1>5
  <1>8. QED
    BY <1>3, <1>4, <1>5, <1>6, <1>7 DEF Root

-----------------------------------------------------------------------------
(* Division by powers of two *)

LEMMA DivisionOf ==
  ASSUME NEW a \in Nat, NEW p \in Nat, p > 0
  PROVE  /\ a \div p \in Nat
         /\ (a \div p) * p <= a /\ a < (a \div p) * p + p
  OBVIOUS

LEMMA DivisionIs ==
  ASSUME NEW a \in Nat, NEW p \in Nat, p > 0, NEW q \in Nat,
         q * p <= a, a < q * p + p
  PROVE  a \div p = q
  <1> DEFINE d == a \div p
  <1>1. d \in Nat /\ d * p <= a /\ a < d * p + p
    BY DivisionOf
  <1> HIDE DEF d
  <1>2. ASSUME d < q PROVE FALSE
    <2>1. d + 1 <= q
      BY <1>1, <1>2
    <2>2. (d + 1) * p <= q * p
      BY <1>1, <2>1
    <2>3. (d + 1) * p = d * p + p
      BY <1>1
    <2>4. QED
      BY <1>1, <2>2, <2>3
  <1>3. ASSUME q < d PROVE FALSE
    <2>1. q + 1 <= d
      BY <1>1, <1>3
    <2>2. (q + 1) * p <= d * p
      BY <1>1, <2>1
    <2>3. (q + 1) * p = q * p + p
      BY <1>1
    <2>4. QED
      BY <1>1, <2>2, <2>3
  <1>4. d = q
    BY <1>1, <1>2, <1>3
  <1>5. QED
    BY <1>4 DEF d

LEMMA Halve ==
  ASSUME NEW a \in Nat
  PROVE  /\ a \div 2 \in Nat
         /\ a % 2 = 0 => a = (a \div 2) + (a \div 2)
         /\ a % 2 # 0 => a = (a \div 2) + (a \div 2) + 1
  OBVIOUS

LEMMA DivideByTwice ==
  ASSUME NEW a \in Nat, NEW p \in Nat, p > 0
  PROVE  a \div (p + p) = (a \div p) \div 2
  <1> DEFINE d == a \div p
             h == d \div 2
  <1>1. d \in Nat /\ d * p <= a /\ a < d * p + p
    BY DivisionOf
  <1>2. h \in Nat /\ (d = h + h \/ d = h + h + 1)
    BY <1>1, Halve
  <1> HIDE DEF d, h
  <1>3. h * (p + p) = (h + h) * p /\ (h + h + 1) * p = (h + h) * p + p
        /\ h * (p + p) \in Nat /\ p + p \in Nat /\ p + p > 0
    BY <1>2
  <1>4. h * (p + p) <= a /\ a < h * (p + p) + (p + p)
    BY <1>1, <1>2, <1>3
  <1>5. a \div (p + p) = h
    BY <1>2, <1>3, <1>4, DivisionIs
  <1>6. QED
    BY <1>5 DEF d, h

-----------------------------------------------------------------------------
(* Paths *)

\* Where the node of height i above the leaf at index begins.
NodeAbove(index, i) == index \div 2 ^ i

\* A node is one half of the node above it; the other half does not contain
\* the leaf.
LEMMA NodesAbove ==
  ASSUME NEW index \in Nat, NEW i \in Nat
  PROVE  LET p == 2 ^ i
             n == NodeAbove(index, i)
             m == NodeAbove(index, i + 1)
         IN  /\ p \in Nat /\ n \in Nat /\ m \in Nat
             /\ m * 2 ^ (i + 1) \in Nat
             /\ n % 2 = 0 => /\ m * 2 ^ (i + 1) = n * p
                             /\ m * 2 ^ (i + 1) + p = Sibling(n) * p
                             /\ index < Sibling(n) * p
             /\ n % 2 # 0 => /\ m * 2 ^ (i + 1) = Sibling(n) * p
                             /\ m * 2 ^ (i + 1) + p = n * p
                             /\ Sibling(n) * p + p <= index
  <1> DEFINE p == 2 ^ i
             n == NodeAbove(index, i)
             m == NodeAbove(index, i + 1)
  <1>1. p \in Nat /\ p > 0 /\ 2 ^ (i + 1) = p + p
    BY PowerOfTwo
  <1>2. n \in Nat /\ n * p <= index /\ index < n * p + p
    BY <1>1, DivisionOf DEF NodeAbove
  <1>3. m = n \div 2
    BY <1>1, DivideByTwice DEF NodeAbove
  <1> HIDE DEF p, n, m
  <1>4. /\ m \in Nat
        /\ n % 2 = 0 => n = m + m
        /\ n % 2 # 0 => n = m + m + 1
    BY <1>2, <1>3, Halve
  <1>5. /\ m * (p + p) = (m + m) * p /\ (m + m + 1) * p = (m + m) * p + p
        /\ m * (p + p) \in Nat
    BY <1>1, <1>4
  <1>6. CASE n % 2 = 0
    <2>1. n = m + m /\ Sibling(n) = m + m + 1
      BY <1>4, <1>6 DEF Sibling
    <2>2. QED
      BY <1>1, <1>2, <1>4, <1>5, <1>6, <2>1 DEF p, n, m
  <1>7. CASE n % 2 # 0
    <2>1. n = m + m + 1 /\ Sibling(n) = m + m
      BY <1>4, <1>7 DEF Sibling
    <2>2. QED
      BY <1>1, <1>2, <1>4, <1>5, <1>7, <2>1 DEF p, n, m
  <1>8. QED
    BY <1>6, <1>7

\* Two lists of leaves have the same subtree wherever it does not contain the
\* leaf at index.
AgreeBeside(leaves, other, index) ==
    \A l \in 0..DEPTH : \A s \in Nat :
       (s + 2 ^ l <= index \/ index < s) =>
          SubtreeHash(other, l, s) = SubtreeHash(leaves, l, s)

WalkFrom(w, leafHash, path, index) ==
    w = [i \in 0..DEPTH |->
          IF i = 0 THEN leafHash
          ELSE IF (index \div 2 ^ (i - 1)) % 2 = 0 THEN NodeHash(w[i - 1], path[i])
          ELSE NodeHash(path[i], w[i - 1])]

\* The subtree above a leaf that i steps of the walk arrive at.
Arrival(leaves, index, i) == SubtreeHash(leaves, i, NodeAbove(index, i) * 2 ^ i)

LEMMA WalkStep ==
  ASSUME NEW Things, NEW leaves \in Seq(Things), NEW other \in Seq(Things),
         NEW index \in Nat, AgreeBeside(leaves, other, index), NEW i \in 1..DEPTH
  PROVE  Arrival(other, index, i) =
           IF (index \div 2 ^ (i - 1)) % 2 = 0
           THEN NodeHash(Arrival(other, index, i - 1), SiblingPath(leaves, index)[i])
           ELSE NodeHash(SiblingPath(leaves, index)[i], Arrival(other, index, i - 1))
  <1> DEFINE p == 2 ^ (i - 1)
             n == NodeAbove(index, i - 1)
             s == NodeAbove(index, i) * 2 ^ i
  <1>1. i - 1 \in 0..(DEPTH - 1) /\ i - 1 \in Nat /\ (i - 1) + 1 = i /\ i - 1 \in 0..DEPTH
    BY DepthAssumption
  <1>2. /\ p \in Nat /\ n \in Nat /\ s \in Nat
        /\ n % 2 = 0 => s = n * p /\ s + p = Sibling(n) * p /\ index < Sibling(n) * p
        /\ n % 2 # 0 => s = Sibling(n) * p /\ s + p = n * p /\ Sibling(n) * p + p <= index
    BY <1>1, NodesAbove
  <1>3. SubtreeHash(other, i, s)
          = NodeHash(SubtreeHash(other, i - 1, s), SubtreeHash(other, i - 1, s + p))
    BY <1>1, <1>2, HashSplits
  <1>4. SiblingPath(leaves, index)[i] = SubtreeHash(leaves, i - 1, Sibling(n) * p)
    BY DEF SiblingPath, NodeAbove
  <1>5. n = index \div 2 ^ (i - 1)
    BY DEF NodeAbove
  <1>6. /\ Arrival(other, index, i) = SubtreeHash(other, i, s)
        /\ Arrival(other, index, i - 1) = SubtreeHash(other, i - 1, n * p)
    BY DEF Arrival
  <1>7. /\ Sibling(n) * p \in Nat
        /\ SubtreeHash(other, i - 1, Sibling(n) * p)
             = SubtreeHash(leaves, i - 1, Sibling(n) * p)
    <2> HIDE DEF n, s
    <2>1. Sibling(n) * p \in Nat
      BY <1>2
    <2>2. Sibling(n) * p + 2 ^ (i - 1) <= index \/ index < Sibling(n) * p
      BY <1>2
    <2>3. QED
      BY <1>1, <2>1, <2>2 DEF AgreeBeside
  <1> HIDE DEF n, s, p
  <1>8. QED
    BY <1>2, <1>3, <1>4, <1>5, <1>6, <1>7

LEMMA WalkAt ==
  ASSUME NEW w, NEW leafHash, NEW path, NEW index, WalkFrom(w, leafHash, path, index),
         NEW i \in 0..DEPTH
  PROVE  w[i] = IF i = 0 THEN leafHash
                ELSE IF (index \div 2 ^ (i - 1)) % 2 = 0 THEN NodeHash(w[i - 1], path[i])
                ELSE NodeHash(path[i], w[i - 1])
  BY DEF WalkFrom

LEMMA AgreesWithItself ==
  ASSUME NEW leaves, NEW index
  PROVE  AgreeBeside(leaves, leaves, index)
  BY DEF AgreeBeside

LEMMA ArrivalAtLeaf ==
  ASSUME NEW leaves, NEW index \in Nat
  PROVE  Arrival(leaves, index, 0) = SubtreeHash(leaves, 0, index)
  <1>1. NodeAbove(index, 0) * 2 ^ 0 = index
    BY DEF NodeAbove
  <1>2. QED
    BY <1>1 DEF Arrival

LEMMA ArrivalAtRoot ==
  ASSUME NEW leaves, NEW index \in Nat, index < 2 ^ DEPTH
  PROVE  Arrival(leaves, index, DEPTH) = Root(leaves)
  <1> DEFINE p == 2 ^ DEPTH
  <1>1. p \in Nat /\ p > 0 /\ index < p
    BY PowerOfTwo, DepthAssumption
  <1> HIDE DEF p
  <1>2. 0 * p <= index /\ index < 0 * p + p /\ 0 * p = 0
    BY <1>1
  <1>3. index \div p = 0
    BY <1>1, <1>2, DivisionIs
  <1>4. QED
    BY <1>2, <1>3 DEF NodeAbove, Arrival, Root, p

\* The walk along the siblings of one list, from a leaf of another that agrees
\* with it beside that leaf, ends in the root of the other.
LEMMA WalkToRoot ==
  ASSUME NEW Things, NEW leaves \in Seq(Things), NEW other \in Seq(Things),
         NEW index \in Nat, index < 2 ^ DEPTH, AgreeBeside(leaves, other, index)
  PROVE  ComputeRootFromPath(SubtreeHash(other, 0, index), SiblingPath(leaves, index), index)
           = Root(other)
  <1> DEFINE path == SiblingPath(leaves, index)
             start == SubtreeHash(other, 0, index)
             w == [i \in 0..DEPTH |-> Arrival(other, index, i)]
             walk[i \in 0..DEPTH] ==
               IF i = 0 THEN start
               ELSE IF (index \div 2 ^ (i - 1)) % 2 = 0 THEN NodeHash(walk[i - 1], path[i])
               ELSE NodeHash(path[i], walk[i - 1])
  <1>1. Arrival(other, index, 0) = start
    BY ArrivalAtLeaf
  <1>2. WalkFrom(w, start, path, index)
    <2>1. ASSUME NEW i \in 0..DEPTH
          PROVE  w[i] = IF i = 0 THEN start
                        ELSE IF (index \div 2 ^ (i - 1)) % 2 = 0 THEN NodeHash(w[i - 1], path[i])
                        ELSE NodeHash(path[i], w[i - 1])
      <3>1. CASE i = 0
        BY <1>1, <3>1
      <3>2. CASE i # 0
        <4>1. i \in 1..DEPTH /\ w[i] = Arrival(other, index, i)
              /\ w[i - 1] = Arrival(other, index, i - 1)
          BY <3>2, DepthAssumption
        <4> HIDE DEF w, start
        <4>2. QED
          BY <3>2, <4>1, WalkStep
      <3>3. QED
        BY <3>1, <3>2
    <2>2. w = [i \in 0..DEPTH |-> w[i]]
      OBVIOUS
    <2> HIDE DEF w, start, path
    <2>3. QED
      BY <2>1, <2>2 DEF WalkFrom
  <1>3. WalkFrom(walk, start, path, index)
    <2> HIDE DEF w, start, path
    <2>1. QED
      BY <1>2 DEF WalkFrom
  <1>4. ComputeRootFromPath(start, path, index) = walk[DEPTH]
    BY DEF ComputeRootFromPath
  <1> DEFINE S == {i \in Nat : i <= DEPTH => walk[i] = Arrival(other, index, i)}
  <1>5. DEPTH \in S
    <2> HIDE DEF walk, w, start, path
    <2>1. 0 \in S
      BY <1>1, <1>3, WalkAt, DepthAssumption
    <2>2. ASSUME NEW k \in Nat, k \in S
          PROVE  k + 1 \in S
      <3>1. ASSUME NEW m \in 1..DEPTH, m = k + 1
            PROVE  walk[m] = Arrival(other, index, m)
        <4>1. walk[m - 1] = Arrival(other, index, m - 1)
          BY <2>2, <3>1, DepthAssumption
        <4>2. walk[m] = IF (index \div 2 ^ (m - 1)) % 2 = 0 THEN NodeHash(walk[m - 1], path[m])
                        ELSE NodeHash(path[m], walk[m - 1])
          BY <1>3, WalkAt, DepthAssumption
        <4>3. QED
          BY <4>1, <4>2, WalkStep DEF path
      <3>2. QED
        BY <3>1, DepthAssumption
    <2> HIDE DEF S
    <2>3. QED
      BY <2>1, <2>2, NatInductionSet, DepthAssumption
  <1>6. Arrival(other, index, DEPTH) = Root(other)
    BY ArrivalAtRoot
  <1>7. QED
    BY <1>4, <1>5, <1>6, DepthAssumption

\* What an appended leaf leaves alone.
LEMMA AppendAgrees ==
  ASSUME NEW Things, NEW leaves \in Seq(Things), NEW c \in Things
  PROVE  AgreeBeside(leaves, Append(leaves, c), Len(leaves))
  <1> DEFINE other == Append(leaves, c)
             last == Len(leaves)
             S == {l \in Nat : l <= DEPTH => \A s \in Nat :
                     (s + 2 ^ l <= last \/ last < s) =>
                        SubtreeHash(other, l, s) = SubtreeHash(leaves, l, s)}
  <1>1. /\ other \in Seq(Things) /\ last \in Nat /\ Len(other) = last + 1
        /\ \A i \in 1..last : other[i] = leaves[i]
    OBVIOUS
  <1> HIDE DEF other, last
  <1>2. 0 \in S
    <2> SUFFICES ASSUME NEW s \in Nat, s + 1 <= last \/ last < s
                 PROVE  SubtreeHash(other, 0, s) = SubtreeHash(leaves, 0, s)
      BY DepthAssumption
    <2>1. s + 1 \in 1..last => other[s + 1] = leaves[s + 1]
      BY <1>1
    <2>2. SubtreeHash(leaves, 0, s) = IF s < last THEN LeafHash(leaves[s + 1]) ELSE EmptyLeaf
      BY HashOfOne DEF last
    <2>3. SubtreeHash(other, 0, s) = IF s < last + 1 THEN LeafHash(other[s + 1]) ELSE EmptyLeaf
      BY <1>1, HashOfOne
    <2>4. QED
      BY <1>1, <2>1, <2>2, <2>3
  <1>3. ASSUME NEW k \in Nat, k \in S
        PROVE  k + 1 \in S
    <2>1. ASSUME k + 1 <= DEPTH, NEW s \in Nat, s + 2 ^ (k + 1) <= last \/ last < s
          PROVE  SubtreeHash(other, k + 1, s) = SubtreeHash(leaves, k + 1, s)
      <3> DEFINE p == 2 ^ k
      <3>1. p \in Nat /\ p > 0 /\ 2 ^ (k + 1) = p + p /\ k \in 0..(DEPTH - 1)
        BY <2>1, PowerOfTwo, DepthAssumption
      <3>2. \A t \in Nat : (t + p <= last \/ last < t) =>
               SubtreeHash(other, k, t) = SubtreeHash(leaves, k, t)
        BY <1>3, <2>1, DepthAssumption
      <3>3. /\ SubtreeHash(other, k + 1, s)
                 = NodeHash(SubtreeHash(other, k, s), SubtreeHash(other, k, s + p))
            /\ SubtreeHash(leaves, k + 1, s)
                 = NodeHash(SubtreeHash(leaves, k, s), SubtreeHash(leaves, k, s + p))
        BY <1>1, <3>1, HashSplits
      <3> HIDE DEF p
      <3>4. /\ s + p \in Nat
            /\ s + p <= last \/ last < s
            /\ (s + p) + p <= last \/ last < s + p
        BY <1>1, <2>1, <3>1
      <3>5. QED
        BY <3>2, <3>3, <3>4
    <2>2. QED
      BY <2>1, DepthAssumption
  <1> HIDE DEF S
  <1>4. Nat \subseteq S
    BY <1>2, <1>3, NatInductionSet
  <1>5. AgreeBeside(leaves, other, last)
    BY <1>4, DepthAssumption DEF AgreeBeside, S
  <1>6. QED
    BY <1>5 DEF other, last

-----------------------------------------------------------------------------
(* What paths and roots bind *)

LEMMA WalkExists ==
  ASSUME NEW leafHash, NEW path, NEW index
  PROVE  \E w : WalkFrom(w, leafHash, path, index) /\ ComputeRootFromPath(leafHash, path, index) = w[DEPTH]
  <1> DEFINE Upto(w, k) ==
               w = [i \in 0..k |->
                     IF i = 0 THEN leafHash
                     ELSE IF (index \div 2 ^ (i - 1)) % 2 = 0 THEN NodeHash(w[i - 1], path[i])
                     ELSE NodeHash(path[i], w[i - 1])]
             S == {k \in Nat : \E w : Upto(w, k)}
  <1>1. 0 \in S
    <2>1. Upto([i \in 0..0 |-> leafHash], 0)
      OBVIOUS
    <2> HIDE DEF Upto
    <2>2. 0 \in Nat /\ \E w : Upto(w, 0)
      BY <2>1
    <2>3. QED
      BY <2>2, Zenon
  <1>2. ASSUME NEW k \in Nat, k \in S
        PROVE  k + 1 \in S
    <2>1. PICK w : Upto(w, k)
      BY <1>2
    <2> DEFINE e == [i \in 0..(k + 1) |->
                      IF i <= k THEN w[i]
                      ELSE IF (index \div 2 ^ k) % 2 = 0 THEN NodeHash(w[k], path[k + 1])
                      ELSE NodeHash(path[k + 1], w[k])]
    <2>2. \A i \in 0..k :
             w[i] = IF i = 0 THEN leafHash
                    ELSE IF (index \div 2 ^ (i - 1)) % 2 = 0 THEN NodeHash(w[i - 1], path[i])
                    ELSE NodeHash(path[i], w[i - 1])
      BY <2>1
    <2>3. Upto(e, k + 1)
      <3>1. ASSUME NEW i \in 0..(k + 1)
            PROVE  e[i] = IF i = 0 THEN leafHash
                          ELSE IF (index \div 2 ^ (i - 1)) % 2 = 0 THEN NodeHash(e[i - 1], path[i])
                          ELSE NodeHash(path[i], e[i - 1])
        <4>1. CASE i <= k
          BY <2>2, <4>1
        <4>2. CASE i = k + 1
          BY <4>2
        <4>3. i <= k \/ i = k + 1
          OBVIOUS
        <4>4. QED
          BY <4>1, <4>2, <4>3, Zenon
      <3>2. e = [i \in 0..(k + 1) |-> e[i]]
        OBVIOUS
      <3> HIDE DEF e
      <3>3. QED
        BY <3>1, <3>2
    <2> HIDE DEF Upto
    <2>4. k + 1 \in Nat /\ \E v : Upto(v, k + 1)
      BY <2>3
    <2>5. QED
      BY <2>4, Zenon
  <1> HIDE DEF S
  <1>3. DEPTH \in S
    BY <1>1, <1>2, NatInductionSet, DepthAssumption
  <1>4. PICK w : Upto(w, DEPTH)
    BY <1>3 DEF S
  <1> DEFINE walk[i \in 0..DEPTH] ==
               IF i = 0 THEN leafHash
               ELSE IF (index \div 2 ^ (i - 1)) % 2 = 0 THEN NodeHash(walk[i - 1], path[i])
               ELSE NodeHash(path[i], walk[i - 1])
  <1>5. WalkFrom(walk, leafHash, path, index)
    BY <1>4 DEF WalkFrom
  <1>6. ComputeRootFromPath(leafHash, path, index) = walk[DEPTH]
    BY DEF ComputeRootFromPath
  <1> HIDE DEF walk
  <1>7. QED
    BY <1>5, <1>6

\* Whatever the path, only what the tree has at a place leads from there to
\* the root.
LEMMA PathBinds ==
  ASSUME NEW Things, NEW leaves \in Seq(Things), NEW index \in Nat, index < 2 ^ DEPTH,
         NEW leafHash, NEW path, ComputeRootFromPath(leafHash, path, index) = Root(leaves)
  PROVE  leafHash = SubtreeHash(leaves, 0, index)
  <1>1. PICK w : /\ WalkFrom(w, leafHash, path, index)
                 /\ ComputeRootFromPath(leafHash, path, index) = w[DEPTH]
    BY WalkExists
  <1> DEFINE S == {j \in Nat : j <= DEPTH => w[DEPTH - j] = Arrival(leaves, index, DEPTH - j)}
  <1>2. 0 \in S
    <2>1. DEPTH - 0 = DEPTH
      BY DepthAssumption
    <2>2. w[DEPTH] = Arrival(leaves, index, DEPTH)
      BY <1>1, ArrivalAtRoot
    <2>3. QED
      BY <2>1, <2>2
  <1>3. ASSUME NEW k \in Nat, k \in S
        PROVE  k + 1 \in S
    <2>1. ASSUME NEW i \in 1..DEPTH, i = DEPTH - k
          PROVE  w[i - 1] = Arrival(leaves, index, i - 1)
      <3>1. w[i] = Arrival(leaves, index, i)
        BY <1>3, <2>1, DepthAssumption
      <3>2. w[i] = IF (index \div 2 ^ (i - 1)) % 2 = 0 THEN NodeHash(w[i - 1], path[i])
                   ELSE NodeHash(path[i], w[i - 1])
        BY <1>1, WalkAt, DepthAssumption
      <3>3. Arrival(leaves, index, i) =
              IF (index \div 2 ^ (i - 1)) % 2 = 0
              THEN NodeHash(Arrival(leaves, index, i - 1), SiblingPath(leaves, index)[i])
              ELSE NodeHash(SiblingPath(leaves, index)[i], Arrival(leaves, index, i - 1))
        BY AgreesWithItself, WalkStep
      <3>4. CASE (index \div 2 ^ (i - 1)) % 2 = 0
        <4>1. w[i] = NodeHash(w[i - 1], path[i])
          BY <3>2, <3>4
        <4>2. Arrival(leaves, index, i)
                = NodeHash(Arrival(leaves, index, i - 1), SiblingPath(leaves, index)[i])
          BY <3>3, <3>4
        <4>3. NodeHash(w[i - 1], path[i])
                = NodeHash(Arrival(leaves, index, i - 1), SiblingPath(leaves, index)[i])
          BY <3>1, <4>1, <4>2
        <4>4. QED
          BY <4>3 DEF NodeHash
      <3>5. CASE (index \div 2 ^ (i - 1)) % 2 # 0
        <4>1. w[i] = NodeHash(path[i], w[i - 1])
          BY <3>2, <3>5
        <4>2. Arrival(leaves, index, i)
                = NodeHash(SiblingPath(leaves, index)[i], Arrival(leaves, index, i - 1))
          BY <3>3, <3>5
        <4>3. NodeHash(path[i], w[i - 1])
                = NodeHash(SiblingPath(leaves, index)[i], Arrival(leaves, index, i - 1))
          BY <3>1, <4>1, <4>2
        <4>4. QED
          BY <4>3 DEF NodeHash
      <3>6. QED
        BY <3>4, <3>5
    <2>2. k + 1 <= DEPTH => /\ DEPTH - k \in 1..DEPTH
                            /\ DEPTH - (k + 1) = (DEPTH - k) - 1
      BY DepthAssumption
    <2>3. QED
      BY <2>1, <2>2
  <1> HIDE DEF S
  <1>4. DEPTH \in S
    BY <1>2, <1>3, NatInductionSet, DepthAssumption
  <1>5. w[0] = Arrival(leaves, index, 0)
    BY <1>4, DepthAssumption DEF S
  <1>6. w[0] = leafHash
    BY <1>1, WalkAt, DepthAssumption
  <1>7. QED
    BY <1>5, <1>6, ArrivalAtLeaf

\* A path that checks proves that the commitment is the leaf at its index: the
\* programs' path computation accepts no other, whatever the path.
THEOREM MerkleProofsBind ==
  ASSUME NEW Things, NEW leaves \in Seq(Things), NEW index \in Nat, index < 2 ^ DEPTH,
         NEW c, NEW path, ComputeRootFromPath(LeafHash(c), path, index) = Root(leaves)
  PROVE  index + 1 \in DOMAIN leaves /\ leaves[index + 1] = c
  <1>1. LeafHash(c) = SubtreeHash(leaves, 0, index)
    BY PathBinds
  <1>2. SubtreeHash(leaves, 0, index) =
          IF index < Len(leaves) THEN LeafHash(leaves[index + 1]) ELSE EmptyLeaf
    BY HashOfOne
  <1>3. LeafHash(c) # EmptyLeaf
    BY DEF LeafHash, EmptyLeaf
  <1>4. index < Len(leaves) /\ LeafHash(c) = LeafHash(leaves[index + 1])
    BY <1>1, <1>2, <1>3
  <1>5. QED
    BY <1>4 DEF LeafHash

\* A root determines the leaves, their number and their order, up to the
\* tree's capacity: the model of merkle_root as the leaves themselves loses
\* nothing.
THEOREM MerkleRootBinds ==
  ASSUME NEW Things, NEW leaves \in Seq(Things), NEW other \in Seq(Things),
         Len(leaves) <= 2 ^ DEPTH, Len(other) <= 2 ^ DEPTH, Root(leaves) = Root(other)
  PROVE  leaves = other
  <1>1. /\ 2 ^ DEPTH \in Nat
        /\ Len(leaves) \in Nat /\ DOMAIN leaves = 1..Len(leaves)
        /\ Len(other) \in Nat /\ DOMAIN other = 1..Len(other)
    BY PowerOfTwo, DepthAssumption
  <1>2. ASSUME NEW s \in Nat, s < 2 ^ DEPTH
        PROVE  SubtreeHash(leaves, 0, s) = SubtreeHash(other, 0, s)
    <2>1. ComputeRootFromPath(SubtreeHash(leaves, 0, s), SiblingPath(leaves, s), s) = Root(other)
      BY <1>2, AgreesWithItself, WalkToRoot
    <2>2. QED
      BY <1>2, <2>1, PathBinds
  <1>3. ASSUME NEW s \in Nat, s < 2 ^ DEPTH
        PROVE  /\ s < Len(leaves) <=> s < Len(other)
               /\ s < Len(leaves) => leaves[s + 1] = other[s + 1]
    <2>1. /\ SubtreeHash(leaves, 0, s) =
                IF s < Len(leaves) THEN LeafHash(leaves[s + 1]) ELSE EmptyLeaf
          /\ SubtreeHash(other, 0, s) =
                IF s < Len(other) THEN LeafHash(other[s + 1]) ELSE EmptyLeaf
      BY HashOfOne
    <2>2. \A c : LeafHash(c) # EmptyLeaf
      BY DEF LeafHash, EmptyLeaf
    <2>3. \A c, d : LeafHash(c) = LeafHash(d) => c = d
      BY DEF LeafHash
    <2>4. QED
      BY <1>2, <1>3, <2>1, <2>2, <2>3
  <1>4. Len(leaves) = Len(other)
    <2>1. ASSUME Len(leaves) < Len(other) PROVE FALSE
      BY <1>1, <1>3, <2>1
    <2>2. ASSUME Len(other) < Len(leaves) PROVE FALSE
      BY <1>1, <1>3, <2>2
    <2>3. Len(leaves) \in Nat /\ Len(other) \in Nat
      BY <1>1
    <2>4. QED
      BY <2>1, <2>2, <2>3
  <1>5. ASSUME NEW i \in 1..Len(leaves)
        PROVE  leaves[i] = other[i]
    <2>1. i - 1 \in Nat /\ i - 1 < 2 ^ DEPTH /\ i - 1 < Len(leaves) /\ (i - 1) + 1 = i
      BY <1>1
    <2>2. QED
      BY <1>3, <2>1
  <1>6. QED
    BY <1>1, <1>4, <1>5

-----------------------------------------------------------------------------
(* The server's paths *)

CountInv == registry.leafCount <= MaxLeaves

LEMMA CountInvInit == MirrorInit => CountInv
  BY CapacityAssumption DEF MirrorInit, RegistryInit, CountInv

LEMMA CountInvStep == MirrorInv /\ CountInv /\ [MirrorNext]_mirrorVars => CountInv'
  <1> SUFFICES ASSUME MirrorInv, CountInv, [MirrorNext]_mirrorVars PROVE CountInv'
    OBVIOUS
  <1>1. MaxLeaves \in Nat /\ registry.leafCount \in Nat
    BY CapacityAssumption DEF MirrorInv, MirrorShape, RegistryTypeOK
  <1>2. CASE MirrorAdminister
    BY <1>1, <1>2 DEF MirrorAdminister, InitVoterRegistry, CountInv
  <1>3. ASSUME NEW r \in Relayers, RelayerStep(r)
        PROVE  CountInv'
    <2>1. CASE Land(r)
      BY <1>1, <2>1 DEF Land, InsertCommitment, CountInv, MirrorInv, MirrorShape, RegistryTypeOK
    <2>2. CASE UNCHANGED registry
      BY <2>2 DEF CountInv
    <2>3. QED
      BY <1>3, <2>1, <2>2 DEF RelayerStep, Send, GiveUp, Reject, Notify, NotifyFails
  <1>4. ASSUME NEW c \in Commitments, EnclaveRegisters(c)
        PROVE  CountInv'
    BY <1>1, <1>4
    DEF EnclaveRegisters, InsertCommitment, CountInv, MirrorInv, MirrorShape, RegistryTypeOK
  <1>5. CASE RestartServer \/ UNCHANGED mirrorVars
    BY <1>5 DEF RestartServer, mirrorVars, CountInv
  <1>6. QED
    BY <1>2, <1>3, <1>4, <1>5 DEF MirrorNext

\* No two leaves of the tree are one leaf of the log, so the tree has room.
LEMMA TreeFits ==
  ASSUME MirrorInv, OrderInv, CountInv
  PROVE  Len(mirror.leaves) <= 2 ^ DEPTH
  <1> DEFINE places == 1..Len(mirror.leaves)
             log == 0..(registry.leafCount - 1)
             at == [i \in places |-> CHOOSE j \in log : leaf[j] = mirror.leaves[i]]
  <1>1. /\ Len(mirror.leaves) \in Nat /\ DOMAIN mirror.leaves = places
        /\ registry.leafCount \in Nat /\ DOMAIN leaf = log
    BY DEF MirrorInv, MirrorShape, RegistryTypeOK, OrderInv, LogInv
  <1>2. \A i \in places : \E j \in log : leaf[j] = mirror.leaves[i]
    BY <1>1 DEF MirrorInv, MirrorSound
  <1>3. \A i \in places : at[i] \in log /\ leaf[at[i]] = mirror.leaves[i]
    BY <1>2
  <1>4. at = [i \in places |-> at[i]]
    OBVIOUS
  <1>5. \A i \in places : mirror.index[mirror.leaves[i]] = i - 1
    BY <1>1 DEF MirrorInv, IndexNamesLeaf
  <1>6. /\ IsFiniteSet(log) /\ Cardinality(log) = registry.leafCount
        /\ IsFiniteSet(places) /\ Cardinality(places) = Len(mirror.leaves)
    <2>1. \A n \in Nat : /\ IsFiniteSet(0..(n - 1)) /\ Cardinality(0..(n - 1)) = n
                        /\ IsFiniteSet(1..n) /\ Cardinality(1..n) = n
      BY FS_Interval
    <2>2. QED
      BY <1>1, <2>1
  <1>7. at \in Injection(places, log)
    <2>1. ASSUME NEW i \in places, NEW j \in places, at[i] = at[j]
          PROVE  i = j
      <3>1. mirror.leaves[i] = mirror.leaves[j]
        BY <1>3, <2>1
      <3>2. i - 1 = j - 1
        BY <1>5, <3>1
      <3>3. QED
        BY <3>2
    <2> HIDE DEF at, places, log
    <2>2. QED
      BY <1>3, <1>4, <2>1 DEF Injection, IsInjective
  <1>8. Cardinality(places) <= Cardinality(log)
    <2> HIDE DEF at, places, log
    <2>1. QED
      BY <1>6, <1>7, FS_Injection
  <1>9. 2 ^ DEPTH \in Nat
    BY PowerOfTwo, DepthAssumption
  <1>10. QED
    BY <1>1, <1>6, <1>8, <1>9, CapacityAssumption DEF CountInv

LEMMA PathsOfTree ==
  ASSUME MirrorInv, OrderInv, CountInv
  PROVE  PathsVerify
  <1> DEFINE leaves == mirror.leaves
             count == Len(leaves)
  <1>1. /\ leaves \in Seq(Commitments) /\ count \in Nat /\ DOMAIN leaves = 1..count
        /\ count <= 2 ^ DEPTH /\ 2 ^ DEPTH \in Nat
    BY TreeFits, PowerOfTwo, DepthAssumption DEF MirrorInv, MirrorShape
  <1>2. ProofsVerify
    <2> SUFFICES ASSUME NEW c \in DOMAIN mirror.index
                 PROVE  ComputeRootFromPath(LeafHash(c),
                          SiblingPath(leaves, mirror.index[c]), mirror.index[c]) = Root(leaves)
      BY DEF ProofsVerify
    <2> DEFINE index == mirror.index[c]
    <2>1. index + 1 \in DOMAIN leaves /\ index \in Nat /\ leaves[index + 1] = c
      BY DEF MirrorInv, MirrorShape, IndexNamesLeaf
    <2> HIDE DEF index, leaves
    <2>2. index < count /\ index < 2 ^ DEPTH
      BY <1>1, <2>1
    <2> HIDE DEF count
    <2>3. SubtreeHash(leaves, 0, index) = LeafHash(c)
      BY <1>1, <2>1, <2>2, HashOfOne DEF count
    <2>4. ComputeRootFromPath(SubtreeHash(leaves, 0, index), SiblingPath(leaves, index), index)
            = Root(leaves)
      BY <1>1, <2>1, <2>2, AgreesWithItself, WalkToRoot
    <2>5. QED
      BY <2>3, <2>4 DEF index
  <1>3. AppendsVerify
    <2> SUFFICES ASSUME count < 2 ^ DEPTH
                 PROVE  /\ ComputeRootFromPath(EmptyLeaf, SiblingPath(leaves, count), count)
                             = Root(leaves)
                        /\ \A c \in Commitments :
                              ComputeRootFromPath(LeafHash(c), SiblingPath(leaves, count), count)
                                = Root(Append(leaves, c))
      BY DEF AppendsVerify
    <2> HIDE DEF leaves
    <2>1. SubtreeHash(leaves, 0, count) = EmptyLeaf
      BY <1>1, HashOfOne
    <2>2. ComputeRootFromPath(SubtreeHash(leaves, 0, count), SiblingPath(leaves, count), count)
            = Root(leaves)
      BY <1>1, AgreesWithItself, WalkToRoot
    <2>3. ASSUME NEW c \in Commitments
          PROVE  ComputeRootFromPath(LeafHash(c), SiblingPath(leaves, count), count)
                   = Root(Append(leaves, c))
      <3> DEFINE other == Append(leaves, c)
      <3>1. other \in Seq(Commitments) /\ Len(other) = count + 1 /\ other[count + 1] = c
        BY <1>1
      <3>2. AgreeBeside(leaves, other, count)
        BY <1>1, AppendAgrees
      <3> HIDE DEF other, count
      <3>3. SubtreeHash(other, 0, count) = LeafHash(c)
        BY <1>1, <3>1, HashOfOne
      <3>4. ComputeRootFromPath(SubtreeHash(other, 0, count), SiblingPath(leaves, count), count)
              = Root(other)
        BY <1>1, <3>1, <3>2, WalkToRoot
      <3>5. QED
        BY <3>3, <3>4 DEF other
    <2>4. QED
      BY <2>1, <2>2, <2>3
  <1>4. QED
    BY <1>2, <1>3 DEF PathsVerify

-----------------------------------------------------------------------------
(* A full tree *)

Ascending(at, n) ==
    /\ at \in [1..n -> 0..(n - 1)]
    /\ \A j, k \in DOMAIN at : j < k => at[j] < at[k]

\* There is one increasing map of n places to n indices.
LEMMA AscendingSkipsNone ==
  ASSUME NEW n \in Nat, NEW at, Ascending(at, n), NEW k \in 1..n
  PROVE  at[k] = k - 1
  <1> DEFINE Low == {i \in Nat : i + 1 \in 1..n => at[i + 1] >= i}
             High == {i \in Nat : n - i \in 1..n => at[n - i] <= n - i - 1}
  <1>1. 0 \in Low
    BY DEF Ascending
  <1>2. ASSUME NEW i \in Nat, i \in Low
        PROVE  i + 1 \in Low
    <2>1. SUFFICES ASSUME i + 2 \in 1..n PROVE at[i + 2] >= i + 1
      OBVIOUS
    <2>2. i + 1 \in 1..n /\ at[i + 1] >= i
      BY <1>2, <2>1
    <2>3. at[i + 1] < at[i + 2] /\ at[i + 1] \in Int /\ at[i + 2] \in Int
      BY <2>1, <2>2 DEF Ascending
    <2>4. QED
      BY <2>2, <2>3
  <1>3. 0 \in High
    BY DEF Ascending
  <1>4. ASSUME NEW i \in Nat, i \in High
        PROVE  i + 1 \in High
    <2>1. SUFFICES ASSUME n - (i + 1) \in 1..n
                   PROVE  at[n - (i + 1)] <= n - (i + 1) - 1
      OBVIOUS
    <2>2. n - i \in 1..n /\ at[n - i] <= n - i - 1
      BY <1>4, <2>1
    <2>3. at[n - (i + 1)] < at[n - i] /\ at[n - i] \in Int /\ at[n - (i + 1)] \in Int
      BY <2>1, <2>2 DEF Ascending
    <2>4. QED
      BY <2>2, <2>3
  <1>5. Nat \subseteq Low /\ Nat \subseteq High
    <2> HIDE DEF Low, High
    <2>1. QED
      BY <1>1, <1>2, <1>3, <1>4, NatInductionSet
  <1>6. k - 1 \in Low /\ n - k \in High
    BY <1>5
  <1>7. at[k] >= k - 1 /\ at[k] <= k - 1 /\ at[k] \in Int
    BY <1>6 DEF Ascending
  <1>8. QED
    BY <1>7

LogInOrder == [i \in 1..registry.leafCount |-> leaf[i - 1]]

\* When the counts of /root and of the header agree, so do the trees.
EqualCountsEqualTrees ==
    serial /\ Len(mirror.leaves) = registry.leafCount =>
       /\ mirror.leaves = LogInOrder
       /\ Root(mirror.leaves) = ReferenceRoot(LogInOrder)

LEMMA FullTreeIsTheLog ==
  ASSUME MirrorInv, OrderInv
  PROVE  EqualCountsEqualTrees
  <1> SUFFICES ASSUME serial, Len(mirror.leaves) = registry.leafCount
               PROVE  /\ mirror.leaves = LogInOrder
                      /\ Root(mirror.leaves) = ReferenceRoot(LogInOrder)
    BY DEF EqualCountsEqualTrees
  <1> DEFINE n == registry.leafCount
  <1>1. /\ mirror.leaves \in Seq(Commitments) /\ n \in Nat /\ DOMAIN mirror.leaves = 1..n
        /\ DOMAIN leaf = 0..(n - 1)
    BY DEF MirrorInv, MirrorShape, RegistryTypeOK, OrderInv, LogInv
  <1>2. PICK at : Embeds(at)
    BY DEF OrderInv
  <1>3. /\ Ascending(at, n)
        /\ \A k \in 1..n : leaf[at[k]] = mirror.leaves[k]
    BY <1>1, <1>2 DEF Embeds, Ascending
  <1> HIDE DEF n
  <1>4. \A k \in 1..n : leaf[k - 1] = mirror.leaves[k]
    BY <1>1, <1>3, AscendingSkipsNone
  <1>5. mirror.leaves = LogInOrder
    <2>1. mirror.leaves = [k \in 1..n |-> mirror.leaves[k]]
      BY <1>1
    <2>2. mirror.leaves = [k \in 1..n |-> leaf[k - 1]]
      BY <1>4, <2>1
    <2>3. QED
      BY <2>2 DEF LogInOrder, n
  <1>6. QED
    BY <1>1, <1>5, RootOfLayers

-----------------------------------------------------------------------------
(* Types *)

USE DEF Phases, DRAFT, REG_OPEN, REG_CLOSED, VOTING_OPEN, VOTING_CLOSED, TALLIED

LEMMA MirrorTypeInit == MirrorInit => MirrorTypeOK
  <1> SUFFICES ASSUME MirrorInit PROVE MirrorTypeOK
    OBVIOUS
  <1>1. ElectionTypeOK
    BY ElectionAssumption
    DEF MirrorInit, ElectionInit, NoElection, ElectionTypeOK, ElectionAccount,
        Schedule, CandidateIds
  <1>2. MirrorShape
    BY MirrorInvInit DEF MirrorInv
  <1>3. QED
    BY <1>1, <1>2 DEF MirrorInit, MirrorTypeOK, MirrorShape

LEMMA MirrorElectionType ==
  ASSUME ElectionTypeOK, MirrorAdminister
  PROVE  ElectionTypeOK'
  <1> USE ElectionAssumption DEF ElectionTypeOK, ElectionAccount
  <1>1. ASSUME NEW sched \in Schedules, NEW key \in Keys, CreateElection(sched, key)
        PROVE  ElectionTypeOK'
    <2> DEFINE empty == [i \in CandidateIds |-> Blank]
    <2>1. empty \in [CandidateIds -> Names \cup {Blank}]
      OBVIOUS
    <2>2. sched \in Schedule
      OBVIOUS
    <2> HIDE DEF empty
    <2>3. election' = [created |-> TRUE, schedule |-> sched, aggregationKey |-> key,
                       phase |-> 0, candidateCount |-> 0, candidates |-> empty]
      BY <1>1 DEF CreateElection, NoElection, empty
    <2>4. slot' \in 0..MaxSlot
      BY <1>1 DEF CreateElection
    <2>5. QED
      BY <2>1, <2>2, <2>3, <2>4
  <1>2. ASSUME NEW roster \in [{0} -> Names], SetCandidates(1, roster)
        PROVE  ElectionTypeOK'
    <2> DEFINE merged == [i \in CandidateIds |->
                            IF i < 1 THEN roster[i] ELSE election.candidates[i]]
               phase == IF election.phase = 0 THEN 1 ELSE election.phase
    <2>1. merged \in [CandidateIds -> Names \cup {Blank}] /\ phase \in Phases
      BY DEF CandidateIds
    <2>2. election' = [election EXCEPT
                         !.candidates = merged, !.candidateCount = 1, !.phase = phase]
      BY <1>2, Zenon DEF SetCandidates, DRAFT, REG_OPEN
    <2> HIDE DEF merged, phase
    <2>3. election' = [created |-> election.created,
                       schedule |-> election.schedule,
                       aggregationKey |-> election.aggregationKey,
                       phase |-> phase, candidateCount |-> 1, candidates |-> merged]
      BY <2>2
    <2>4. slot' \in 0..MaxSlot
      BY <1>2 DEF SetCandidates
    <2>5. QED
      BY <2>1, <2>3, <2>4
  <1>3. ASSUME NEW target \in Phases, AdvancePhase(target)
        PROVE  ElectionTypeOK'
    BY <1>3 DEF AdvancePhase
  <1>4. CASE Tick
    BY <1>4 DEF Tick
  <1>5. CASE UNCHANGED <<slot, election>>
    BY <1>5
  <1>6. QED
    BY <1>1, <1>2, <1>3, <1>4, <1>5 DEF MirrorAdminister

LEMMA MirrorTypeStep ==
  ASSUME MirrorTypeOK, MirrorInv', [MirrorNext]_mirrorVars
  PROVE  MirrorTypeOK'
  <1>1. ElectionTypeOK'
    <2>1. CASE MirrorAdminister
      BY <2>1, MirrorElectionType DEF MirrorTypeOK
    <2>2. CASE UNCHANGED <<slot, election>>
      BY <2>2 DEF MirrorTypeOK, ElectionTypeOK
    <2>3. QED
      BY <2>1, <2>2
      DEF MirrorNext, RelayerStep, Send, GiveUp, Land, Reject, Notify, NotifyFails,
          EnclaveRegisters, RestartServer, mirrorVars
  <1>2. serial' = serial
    BY DEF MirrorNext, MirrorAdminister, RelayerStep, Send, GiveUp, Land, Reject, Notify,
           NotifyFails, EnclaveRegisters, RestartServer, mirrorVars
  <1>3. QED
    BY <1>1, <1>2 DEF MirrorTypeOK, MirrorInv, MirrorShape

-----------------------------------------------------------------------------
(* Theorems *)

\* The log, the server's tree and the runs of register-voter keep their shapes.
THEOREM MirrorTypeCorrect == MirrorSpec => []MirrorTypeOK
  <1>1. MirrorTypeOK /\ MirrorInv' /\ [MirrorNext]_mirrorVars => MirrorTypeOK'
    BY MirrorTypeStep
  <1>2. QED
    BY <1>1, MirrorTypeInit, MirrorInvInit, MirrorInvStep, PTL DEF MirrorSpec

\* The SMT server never vouches for a commitment that the voter_registry
\* program has not recorded, whatever is lost, reordered or restarted.
THEOREM MirrorOnlyLeaves == MirrorSpec => []MirrorSound
  <1>1. MirrorInv => MirrorSound
    BY DEF MirrorInv
  <1>2. QED
    BY <1>1, MirrorInvInit, MirrorInvStep, PTL DEF MirrorSpec

\* The map of the tree's proof lookup and its list of leaves agree.
THEOREM MirrorIndexNamesLeaf == MirrorSpec => []IndexNamesLeaf
  <1>1. MirrorInv => IndexNamesLeaf
    BY DEF MirrorInv
  <1>2. QED
    BY <1>1, MirrorInvInit, MirrorInvStep, PTL DEF MirrorSpec

\* When register-voter runs one at a time, the server's tree has its leaves in
\* the order of the log, whatever is lost, registered elsewhere or restarted.
THEOREM MirrorOrderKept == MirrorSpec => []OrderKept
  <1>1. OrderInv => OrderKept
    BY DEF OrderInv, Embeds, OrderKept
  <1>2. QED
    BY <1>1, MirrorInvInit, MirrorInvStep, OrderInvInit, OrderInvStep, PTL DEF MirrorSpec

\* The root that the server computes along the frontier is the root of the
\* whole tree of 2^DEPTH leaves, for any depth and whatever it holds.
THEOREM MirrorRootIsReference == MirrorSpec => []RootIsReference
  <1>1. MirrorInv => RootIsReference
    BY RootOfLayers DEF MirrorInv, MirrorShape, RootIsReference
  <1>2. QED
    BY <1>1, MirrorInvInit, MirrorInvStep, PTL DEF MirrorSpec

\* Every membership proof and every insertion path that the server hands out
\* is one the programs can check, for any depth and any number of leaves.
THEOREM MirrorPathsVerify == MirrorSpec => []PathsVerify
  <1>1. MirrorInv /\ OrderInv /\ CountInv => PathsVerify
    BY PathsOfTree
  <1>2. QED
    BY <1>1, MirrorInvInit, MirrorInvStep, OrderInvInit, OrderInvStep,
       CountInvInit, CountInvStep, PTL
    DEF MirrorSpec

\* When register-voter runs one at a time and /root counts as many leaves as
\* the header, the server's tree is the log, leaf for leaf, and its root the
\* root of the log.
THEOREM MirrorEqualCounts == MirrorSpec => []EqualCountsEqualTrees
  <1>1. MirrorInv /\ OrderInv => EqualCountsEqualTrees
    BY FullTreeIsTheLog
  <1>2. QED
    BY <1>1, MirrorInvInit, MirrorInvStep, OrderInvInit, OrderInvStep, PTL DEF MirrorSpec
=============================================================================
