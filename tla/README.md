# IDV2: formal model

This directory holds TLA+ specifications of IDV2, a voting system whose ballots
are counted by four Solana programs and submitted by enclave servers in polling
units. The specifications are checked with TLC on small instances, and their
main safety properties are proved with TLAPS for every instance. Paths below
are relative to `src/rust-workspace/`.

## 1. The system

### Components

| component | where | state it keeps | operations |
|---|---|---|---|
| election_registry | `programs/election_registry` | one `ElectionAccount`: phase, four slots, aggregation key, roster | `create_election`, `set_candidates`, `rotate_aggregation_key`, `advance_phase` |
| voter_registry | `programs/voter_registry` | header (`merkle_root`, `leaf_count`) and one `LeafAccount` per registration | `init_voter_registry`, `insert_commitment` |
| ballot | `programs/ballot` | one `NullifierAccount` and one `BallotAccount` per voter who voted | `cast` (with a CPI into tally) |
| tally | `programs/tally` | `TallyAccount`: counters sharded by candidate and state, total, `finalized` | `init_tally`, `accumulate_votes` (by the CPI of a cast, and from anybody as an instruction of its own), `finalise_tally`, `verify_tally` |
| enclave server | `enclave/src/bin/server.rs`, one process per polling unit | sessions in memory (voter, leaf index), a credential file per voter | `/identify`, `/register`, `/vote` |
| enclave library | `enclave/src/*.rs` | the credential file, replaced by way of a temporary file | `issue`, `save_atomic`, `load`, `verify_attestation`, `authorize_ballot`, `derive` |
| HSM wrapper | `enclave/src/hsm.rs` | the process's PKCS#11 library, its sessions and login; the token's objects | `HsmContext::new`, `HsmSession`: open, login, find, generate, sign, logout |
| key ceremony | `enclave/src/bin/key_ceremony.rs` | none (the token) | generate the secrets that are not there, print the public key |
| admin client | `clients/src/admin` | none | one command per administrative instruction, `register-voter` |
| voter client | `clients/src/voter` | none | `cast-vote` |
| verify client | `clients/src/verify` | none | `audit-tally`, `rebuild-tally`, `check-nullifiers`, `rebuild-merkle`, `show-election` |
| SMT server | `smt-server` | an incremental Merkle tree in memory | `/insert`, `/root`, `/proof` |
| dashboard server | `dashboard/src/main.rs` | the last tally it read, behind a lock; a broadcast channel of 256 messages; a handler per web socket | proxy to the enclaves (30 s timeout), tally poller, `/api/tally`, web socket |
| booth page | `dashboard/static/booth.html` | panels, buttons, the current voter | one terminal's dialogue |
| observer page | `dashboard/static/index.html` | the totals shown, a web socket | ask once, apply updates, reconnect |
| phase monitor | end of `scripts/demo.sh` | `CURRENT_SLOT` and two flags | advance the phase when a gate opens |
| monotonic counter, client stubs, set-up scripts | `enclave/src/counter.rs`, ... | none that changes while an election runs | — |

### Interactions

The booth page asks the dashboard, the dashboard forwards to the enclave server
of the polling unit (HMAC-authenticated), and the server builds transactions
which the cluster executes on the programs' accounts. `cast` reads the accounts
of election_registry and voter_registry and calls tally. The dashboard poller
and the verify client read accounts, and the dashboard pushes what it has
counted to the observer pages. Each request handler of an enclave server opens
the HSM's library for itself and reads and replaces the voter's credential file.
The key ceremony leaves its keys in the token and prints the public key that the
operator passes to `create_election`. The demo script and an operator advance
the phase. `register-voter` tells the SMT server of each leaf it inserted.

The programs share a ledger: one transaction is one atomic step, and a program
may read accounts of the others as they are at that moment. Everything else is
asynchronous. A transaction can be executed long after it was sent, after its
sender was told that it failed, or never; a server can restart at any time; a
server runs its handlers concurrently, and a handler keeps what it read before
an `await` or an RPC call and uses it after.

### What is hard, and what makes each component correct

* **Programs.** Four state machines, each with its own gates (phase, slot,
  flag), which together have to be one ballot box: nobody is counted twice, a
  vote is counted for the candidate it names, voters and roster are fixed
  before the first vote, the result is final. No single instruction shows this,
  since every one is small and checks only its own accounts.
* **Enclave servers.** The leaf index is fetched before it is used; the
  credential file is written before the transaction, read and written again
  after it; the session map and the file each hold the leaf index; the
  client may retry. What must hold: nobody is given another voter's leaf, the
  HSM signs a voter's nullifier only with that voter's commitment, the ballot
  is counted where its voter enrolled, a registered voter can vote.
* **Phase monitor.** One attempt for each transition. What must hold: it never
  spends an attempt too early, and voting opens.
* **SMT server.** It should hold the leaves of the ledger in the ledger's
  order; it hears of them by a call whose errors are ignored, and forgets them
  at a restart.
* **Credential file.** Write, sync, rename and sync again are four places for a
  crash, and the temporary name is the same for every save of a voter. What must
  hold: what is sent to the network is on disk and survives a loss of power, and a
  reader finds a whole credential.
* **HSM and key ceremony.** A process has one PKCS#11 library, and every request
  initialises it and finalises it. The ceremony may be killed between any two
  keys and repeated. What must hold: no login is left when no
  request is using it, and the key that was published is the one that signs.
* **Dashboard and observer page.** A socket's handler sends the snapshot while it
  holds the lock that the poller needs, subscribes after that, may fall behind the
  channel, and may lose its connection; the answer to the page's question races
  the broadcasts. What must hold: a page shows only votes of the ledger, and all
  of them in the end.
* **Booth page.** Late answers, buttons left disabled, a field that is edited
  while a request is under way. What must hold: the vote is for the voter and the
  candidate on the screen.
* **Verify client.** Its commands read two accounts at different times, of an
  election that goes on in between. What must hold: what it prints is true, now
  and later.

`PROJECT.json` lists the hazards at their lines, with the properties that
cover them.

## 2. The modules

```
ElectionRegistry <- VoterRegistry <- Tally <- Ballot <- Chain <- Enclave
       ^                  ^                               ^        (MCEnclave, EnclaveProofs)
       |                  |                               |
  PhaseMonitor        SmtMirror -> Merkle                 +--- Audit (MCAudit, AuditProofs)
  (MCPhaseMonitor,    (MCSmtMirror,                       |
   PhaseMonitorProofs) SmtMirrorProofs)                   +--- refines BallotBox
                                                               (MCChain, ChainProofs)
  Hsm <- KeyCeremony <- Issuance -> CredentialFile
                           |         (MCIssuance, IssuanceProofs)
                           +-- refines AtomicFile

  Booth (MCBooth, BoothProofs)          Observer (MCObserver, ObserverProofs)
```

An arrow is an `EXTENDS`. The lowest four modules each describe the instructions
of one program, `Chain` composes them, and `Enclave` puts the servers in front:
`Enclave` uses the very actions of `Chain` when a transaction lands. `Audit` lets
the verify client read the accounts of a `Chain` that moves. `SmtMirror`
puts the SMT server and its notifications next to the voter_registry program.
`Issuance` looks into the steps that `Enclave` takes at once, those between a
handler, the HSM and the disk. `Booth` and `Observer` stand alone: a page knows the
rest of the system by its answers only, and the poller knows it by the ballot
accounts.

### ElectionRegistry, VoterRegistry, Tally, Ballot

One action per instruction; its guard is the conjunction of the checks of the
code, and a failing instruction leaves everything alone, which is no step.
Accounts are records: `election`, `registry` (the header), `leaf` (index to
commitment, the `LeafAccount`s that exist), `tally`, `nullifiers` (the accounts
that exist) and `ballots` (nullifier to `BallotAccount`). `slot` is the clock
sysvar and advances by `Tick` up to `MaxSlot`. `Ballot!Cast` includes the CPI:
`AccumulateVotes` is a conjunct of it, so the two succeed or fail together, as
the runtime guarantees. `VerifyTally` changes nothing and is a predicate.

Data is abstracted as follows.

* A commitment is the record of what it binds (voter, state of the unit,
  blinding); a nullifier is the voter it is derived from. Hashes are thereby
  free of collisions. The LGA, which the programs only copy, is left out.
* An Ed25519 instruction that passed the precompile is the record of its key and
  message; `cast` compares both. Only the holder of the key makes one.
* There is one election. Account ownership, PDA derivation, discriminators and
  the authority's signature are taken as checked; they do not change state.
* Counters are natural numbers; a `u64` does not overflow here.
* `COUNTERS_LEN` (128 in the code) and `MAX_CANDIDATES` (32) are constants; the
  number of shards per candidate is four, as in the code.
* `merkle_root` is the sequence of leaves it was computed from; both programs
  only ever store the root of the empty tree.

### Chain and BallotBox

`Chain` lets transactions come in any order and any number. Two things are taken from
the deployment. Ballots are `HonestBallots`: the key signs a voter's nullifier only with
a commitment of that voter, which is no assumption of the whole project, since `Enclave`
implements it (`ImplementsChain`). And what a program asks the election authority's signature
for is sent by the authority.

`tally` asks nobody for a signature on `accumulate_votes`, and its dispatcher takes it
from any sender (`tally/src/lib.rs:38`), in any phase and for any candidate that has
counters. `DirectStep` is that transaction. The history variable `direct` remembers the
shards it has counted in, so that the properties of the count can say what is true
with it: the count is the ballots and the direct additions, and nothing else. The tally
account does not tell the two kinds of votes apart. The other programs' accounts are
untouched by it, apart from the tally's slot.

`BallotBox` is the abstract specification: stages, a roll, at most one vote per
enrolled person, a count. The refinement mapping is in `Chain` (`Box`): the roll
is the set of voters with a leaf, the vote of a voter is the candidate in the
ballot of their nullifier, and the count of a candidate is the sum of its
shards; what is added without a vote is `AddByHand`, and `extra` knows how much that
was. TALLIED is a closed box; `create_election` with its `DRAFT` phase is a box
in preparation.

### Enclave

`disk[unit][voter]` is the credential file, `session[unit][voter]` the entry of
the session map (`NoSession` when absent, `NoLeaf` when it has no leaf index),
`request[r]` a request with its handler's local variables and `pc`, `network`
the transactions sent and not yet decided. Handlers are cut at every `await`,
RPC call and file operation where another handler's effect can be seen:

| handler | steps |
|---|---|
| `handle_identify` | `Identify` (read sessions), `IdentifyOnDisk`, `WarmSession` |
| `handle_register` | `Register` (the conflict check), `FetchLeafCount`, `IssueAndSend`, *landed*, `LoadCredential`, `SaveCredential`, `RecordSession` |
| `handle_vote` | `Vote` (read sessions), `VoteFromDisk`, `SignAndSend`, *landed*, `AnswerVote` |

`Fail` is any error of an RPC call, the HSM or the confirmation, and a client that goes
away; `Land` and `Lose` are the cluster's, `Restart` clears sessions and handlers of a
unit. Issuing, saving and sending are one step because nothing that another handler does
in between changes what is sent, and a credential that was saved but never sent is the
behaviour `IssueAndSend; Lose; Fail`. A save replaces the file at once: this is
`AtomicFile`, which `Issuance` shows to be what the steps of `save_atomic` amount to for
one request at a time; what overlapping saves of one voter do below that is said there
and among the differences. HMAC authentication is left out: requests come from the
dashboard.

Some properties depend on whether a client sends its next request for a voter
only when the last one is answered. The dashboard's timeout of 30 s means that
this does not hold in general, so it is a variable, `serial`, which is chosen in
the initial state and never changes: the runs cover both, and a property that
needs waiting clients says `serial => ...`. Different voters are never serialised.

### PhaseMonitor

The loop of `demo.sh`: `Poll` reads the slot (0 when the call fails), each of the
two transitions is looked at in turn, `Attempt` sets the flag and sends, `Answer`
is the end of `admin advance-phase`, be it the verdict or, unless `Reliable`, an
error while the transaction is under way. `Operate` is an operator who advances
the phase by hand.

### Merkle and SmtMirror

`Merkle` holds the pure functions of `smt-server/src/tree.rs` and the programs'
`compute_root_from_path`, as recursive functions. A digest is the tuple of what was
hashed, so that two digests are equal only when the inputs were. `ReferenceRoot` is
the definition they are compared with: pair the whole layer of 2^DEPTH leaves
until one node is left. `DEPTH` is a constant (28 in the code).

In `SmtMirror` the tree is `mirror`, the list of leaves and the lookup map. A run of
`register-voter` (`relayer[r]`) reads the leaf count and sends (`Send`), may stop
waiting (`GiveUp`), and its transaction lands or is rejected (`Land`, `Reject`); only
after a confirmation does it post to `/insert` (`Notify`), and the outcome of that call
is ignored (`NotifyFails`). `EnclaveRegisters` is a leaf that an enclave server inserts,
of which nobody tells the SMT server. `RestartServer` empties the tree. `serial`, chosen
once, says that the operator starts one run at a time.

### Booth

`page` is the state of one `booth.html`: the panel, the fingerprint field,
`voterData`, the selected candidate and which buttons are disabled. A click sends a
request (`requests`), the server side serves each one once (`Serve`; an answer may be
an error although the request took effect, as when the dashboard's timeout has
passed), and the answers to requests under way together arrive in any order. A reload
forgets the page but not what it sent. `careful`, chosen once, says that the field is
left alone while a scan is under way; nothing in the page prevents editing it.

### Hsm, KeyCeremony, CredentialFile, AtomicFile and Issuance

`library` is the PKCS#11 library of the server's process: whether it is
initialised, the sessions that are open, and whether the token is logged in.
`C_Initialize` succeeds once, a dropped context finalises the library for everybody,
and a handle from before may hit another session; where what happens then depends on
the numbers the library gives to handles, the model has both outcomes. `token` is the
set of objects, each with its label and the process that made it. These are
external definitions as far as they describe the token's software, and code as far
as they describe `hsm.rs`.

`ceremony[m]` is the next step of a run of the key ceremony; `KillCeremony` ends it
anywhere. Generating the key pair is two steps, since the token stores two
objects. `orderly`, chosen once, says that ceremonies run one at a time and that
none is killed between the two halves of the pair; without it two runs both find
nothing, and the model has that too.

`CredentialFile` is one voter's file as a POSIX file system has it. A name leads to an
inode; `File::create` empties the one that is there; a writer keeps its inode when the
name moves on. `data` is what a reader finds, `syncedData` and `syncedPath` what a
loss of power certainly leaves: data that is not synced may be as synced, as written,
or garbage, and the path may lead to either inode. `AtomicFile` is the abstract
file: a save replaces it at once, and what has settled survives.

`Issuance` runs the handlers through their sections: `OpenContext`, `StartSession`,
`LogIn`, `Issue`, the five `SaveStep`s, `Verify`, `LogOut`, `SendTransaction`, then for a
registration `LoadForConfirm` and the second save; a vote starts with `LoadForVote` and
signs. An error of the first save fails the request (`FirstSaveFails`), one of the
second is dropped (`SecondSaveFails`).
An error in the section drops session and context (`Abort`). `Crash` ends the
process, `LosePower` also takes what is not synced. `serial` says here that the server is
given one request at a time. A registration and the vote of the same voter are what
share a file, so there is one voter; other voters have other files and share
only the library, in which requests of one voter behave like those of several.

### Audit

`audit` is the command of the verify client that is under way, with what its first
read returned, and `report` what the last command to finish has printed; the report
stays while the chain moves on, so that an invariant about it speaks of every later
moment too. `audit-tally`, `check-nullifiers` and `rebuild-merkle` have two reads
(`ReadTally; PrintTally`, ...), `rebuild-tally` has one. `foreign` counts nullifier
accounts of other elections, which the client cannot tell apart. `merkle_root` is a
sequence of leaves, as in the programs.

### Observer

A tally is the set of ballots that it counts. The poller's round is `Fetch` (read all
ballot accounts, count those whose candidate is known), `Store` (under the write lock)
and `Broadcast`. A socket's handler is `conn[p]`: `TakeSnapshot` waits for the read
lock, `SendSnapshot` sends the first message of the fresh socket while it holds the
lock, `Subscribe` comes after that, `Forward` hands on broadcasts when the socket has
room, and `EndLagged` closes a connection whose `backlog` overflowed. The page handles
one message at a time (`Receive`), reopens the socket, and asks once for the tally,
whose answer is applied when it arrives (`AnswerSeed`, `ApplySeed`). A connection may be
lost at any time (`Drop`), a question or its answer may be lost (`SeedLost`), and the
dashboard may be restarted with an empty tally (`RestartDashboard`).

## 3. What is checked

Every run explores its whole state space. `PROJECT.json` gives for each property
a plausible bug in the code (a `Variant` in the modules) that the run detects.

| run | instance | what holds |
|---|---|---|
| `chain` | 2 voters, 2 candidates, 2 states in one shard, 4 schedules (one good, three off by one slot), 3 leaves, 6 slots, 1 direct `accumulate_votes` | `TypeOK`; `LeavesContiguous`; `CountMatchesBallots`: nullifiers, ballots, direct additions and every shard agree; `BallotsInOrder`: ballots lie in the window and name a candidate; `OnlyRegisteredVote`; `VerifyTallyFailsForCause`: the counters add up, and `verify_tally` fails only after a direct `accumulate_votes`; `ElectorateFixed`: nothing about the electorate or the roster changes once somebody voted; `FinalisedIsFinal`; `ImplementsBallotBox` |
| `enclave` | 2 units whose states share a shard, 2 voters, 3 requests, 1 restart, 2 leaves | `EnclaveTypeOK`; `LeafIndexOwned`: a session or file names only the voter's own leaf; `BallotGeography`: a ballot counts where its voter enrolled; `ImplementsChain`; when clients wait, `RegisteredCanVote` and `WaitingKeepsFilesTrue` |
| `issuance` | 2 handlers, 2 requests, 2 ceremonies, 2 blindings, 1 loss of power, any number of crashes | `IssuanceTypeOK`; `PublishedKeySigns`; `NothingLeftOpen`: when no handler is in its HSM section, nobody is logged in (weaker than "no login outlives its handler": that of a handler that has ended may last as long as another is in its section); when the server is given one request at a time, `AloneSucceeds`, `SentIsOnDisk` and `ImplementsAtomicFile` |
| `monitor` | 2 schedules, transactions decided before the script goes on | `NoWastedAttempt`; `VotingOpens` (liveness) |
| `mirror` | 4 voters, 2 runs of register-voter under way, 4 leaves in a tree of 4 | `MirrorSound`: the server vouches only for leaves of the log; `IndexNamesLeaf`: the lookup map leads to places of the tree that hold the leaf; `RootIsReference`; `PathsVerify`: paths of leaves and of insertions lead to the root; `OrderKept`: with one run at a time the tree is a subsequence of the log |
| `booth` | 2 voters, 2 candidates | `OneRequestOfAKind`; if the field is left alone during a scan, `VoteForTheVoterShown` and `ReceiptNamesTheVote` |
| `observer` | 1 page, 2 ballots that count and 2 that do not, a channel of 2, a socket of 1, 2 faults | `ObserverTypeOK`; `ShownIsOnLedger`; `NeverGoesBack`; `FinalTallyShown` (liveness) |
| `audit` | 2 voters, 2 candidates, 2 leaves, 1 vote in another election, 1 direct `accumulate_votes` | `AuditWarnsForCause`; `NamesOfTheElected`; `FinalReportStands`; `NullifiersAccountForVotes`; `RootOfTheLog`; each says what becomes of it after a direct `accumulate_votes` |

The type invariants of `PhaseMonitor`, `Booth`, `SmtMirror` and `Audit` are proved and
not checked in a run.

**Bounds.** `MaxSlot` lies beyond the last gate of every schedule that
`create_election` accepts, so each gate is seen closed and open; `enclave` stops
with the polls open, because the servers do not look at the clock and the programs'
refusal of a late ballot is the refusal of an early one to them. Two voters are
enough for every race between voters, and with `MaxLeaves` above or equal to their
number one of them can be registered twice. Three requests allow two concurrent
registrations and a vote, or a registration, its retry and a vote, at one unit or
at two. One restart is enough to lose each copy of the leaf index once. In
`enclave` nobody sends a direct `accumulate_votes` (`MaxDirect = 0`): it would change the
tally only, which no server reads, and the theorems have it. Elsewhere one
direct `accumulate_votes` comes before, between or after the ballots, in each shard and for
a candidate that is not on the roster; a second one does to the sums what the first did.
Two candidates and two states
in one shard distinguish a wrong candidate, a wrong shard and a wrong total. A tree
of depth 2 has subtrees that are full, partly empty and empty at every level, a left
and a right sibling on every level, and is filled to its last leaf; four leaves and
two runs under way allow a notification that overtakes another, a commitment
registered twice, and an enclave's leaf in between. Two voters at a terminal are the
one whose answers are late and the one who comes next. In `issuance`, two requests
at once are all that a library with one login can tell from one, two requests in a
row give a second save on top of a first, two blindings tell the new credential
from the old, and one loss of power may come at any of the steps; more losses begin
from states that the first has already left. Five inodes serve two names,
the synced path and two writers. In `observer`, the channel overflows with the third
message and the socket with the second; pages interact only by the lock, for
which one page already competes with the poller. Two
faults are, say, a restart and then a lost connection. In `audit`, the roster can be
replaced, and a voter can register or vote, between the reads.
Voters, requests, handlers, ceremonies and blindings are interchangeable, and
symmetric in the safety runs, and so are names and keys in `chain`; the states of the units
are not.

**Deadlock** is checked in every run that passes: every
instance always has a step (a key can be rotated, a request sent, the page or the
server restarted, a round polled, ...).

**Fairness** appears in `PhaseMonitor` and `Observer`. The script runs until it is
interrupted (`WF(Script)`); slots keep coming (`WF(Clock)`); the cluster executes,
rejects or drops every transaction in the end, since a blockhash expires (`WF(Accept \/
Reject)` for each target); and an RPC node that answers now and then gives
`SF(Poll(slot))`: the loop polls again and again, and not every reading is the failed
one. The dashboard's poller is a loop with a timer (`WF(Poll)`), and the other steps of
handlers and pages are tasks and event handlers that run once they can (`WF`). The lock
between them is tokio's, which is granted in the order in which it was asked for:
whoever waits for it is not passed for ever by poller rounds, although each round takes
it away for a while, hence `SF(TakeSnapshot(p))` and `SF(AnswerSeed(p))`.
`FinalTallyShown` thus speaks of pages that go on reading their socket (`WF(Receive)`)
or lose it (`Drop`), and of sends that end. Nobody has to vote, and faults need not
happen and end. Neither the programs nor the servers promise that anything happens, so
their specifications have no fairness.

### Where code and documentation differ

Runs that are expected to find a violation, one property each:

| run | the source says | the run shows |
|---|---|---|
| `reissue` | a failed registration is retried with the same credential, "idempotently" | a new credential is issued, and the voter has two leaves |
| `hsm_at_once` | the PKCS#11 library is loaded and initialised "once at process start" | each request initialises it for itself; of two at once one fails, or loses its session when the other ends |
| `monitor_lost` | the script "auto-advances the on-chain election phase when slot gates open" | one failed attempt and the booths stay locked |
| `booth_new_voter` | the last panel offers "NEW VOTER" | the confirm button stays disabled after an accepted vote, and the next voter cannot confirm until the page is reloaded |

None of them gives anybody a second ballot (`CountMatchesBallots`).
What `reissue` and `hsm_at_once` cost is that a voter may have to try again, while
registration is still open.

Other differences met on the way, which have no run of their own:

* `tally/src/lib.rs:8` says "0 = accumulate_votes (CPI-only from ballot::cast)"; line 38
  takes it from any sender, as the comment at `tally/src/instructions.rs:103-106` admits and
  `tally/tests/tests.rs:156` and `201` do. So the total is not the number of ballots, and
  no property here says that it is: `CountMatchesBallots`, `VerifyTallyFailsForCause`,
  `ImplementsBallotBox` and the properties of `audit` count the direct additions beside
  the ballots. In the `chain` run one comes at every moment. `rebuild-tally`, which counts
  ballots, tells the two apart; `check-nullifiers` finds fewer nullifiers than votes, where
  the program holds no other election's; `verify_tally` notices only when there are more
  votes than leaves.
* `tally/src/instructions.rs:180` says that `finalise_tally` "locks the TallyAccount
  after voting closes"; it accepts any phase (line 192), and casts fail after it while
  the polls are still open.
* `advance_phase` to TALLIED does not look at the tally.
* `issuance.rs:82` says that the file's leaf index is "confirmed after successful
  insert_commitment tx"; two overlapping registrations of a voter can leave a file with
  the commitment of one and the leaf of the other (`server.rs:427`), and a registration
  repeated after a restart overwrites the file of the first (`server.rs:388`), although
  `server.rs:425` persists the leaf index "so it survives a restart". `WaitingKeepsFilesTrue`
  holds only of clients that wait.
* `issuance.rs:88` says that `save_atomic` persists "atomically". Two saves at once, of one
  voter, share the temporary file: one may rename what the other is still writing, and the
  voter must register again. `ImplementsAtomicFile` and `SentIsOnDisk` are about one request
  at a time.
* `scripts/demo.sh:274` calls the key ceremony "idempotent"; it looks for the public half of
  the signing key only (`key_ceremony.rs:70`), so that one that is killed between the two
  halves and run again prints a public key whose private half does not exist.
  `PublishedKeySigns` excludes this, and two ceremonies at once.
* `voter_registry/src/lib.rs:4-5` says that the header stores the Merkle root over all
  leaf hashes, and `tests/tests/lifecycle.rs:324` asserts it after an insertion;
  `insert_commitment` leaves the root of the empty tree there, and the comment above it
  (`instructions.rs:110`) leaves the root to the SMT server. `verify/src/main.rs:18-20`
  says of `rebuild-merkle` that it compares the root with the one on chain; it compares
  the number of leaves.
* `smt-server/src/tree.rs:1` says that the tree "mirrors voter_registry on-chain state",
  and `smt-server/src/main.rs:3-5` that the relayer calls `/insert` after each
  `insert_commitment`; the enclave servers do not, a restart empties the tree, and a
  commitment inserted twice has two leaves in the log and one in the tree. The tree is
  the log's only when the two counts agree and runs do not overlap (`OrderKept`,
  `MirrorEqualCounts`).
* `smt-server/src/tree.rs:39-40` says that the program verifies an insertion path from
  `leaf_hash([0u8;32])`; no program reads a path, and the path verifies from the
  bare `[0u8;32]` (`AppendsVerify`, a conjunct of `PathsVerify`).
* `index.html:187` takes the parties' names from `candidate_names` of the answer to its
  question, where the server sends `candidates`; until the next broadcast the page
  shows totals without names. This is `named`, and `FinalTallyShown` includes it.
* On the booth page, a fingerprint edited during a scan makes one voter's screen send
  another's vote (`VoteForTheVoterShown` needs `careful`), and a late registration
  answer shows the next voter as registered.

## 4. What is proved

Each of the eight modules of proofs (`ChainProofs`, `EnclaveProofs`, `IssuanceProofs`,
`SmtMirrorProofs`, `PhaseMonitorProofs`, `BoothProofs`, `AuditProofs`, `ObserverProofs`)
proves safety properties for every value of the constants: any set of voters, units,
requests, handlers and pages (finite or not), any number of candidates, any schedules,
any bound on slots, leaves, direct `accumulate_votes`, restarts and faults. The
assumptions are those named in the modules: the constants have the right types
(`ElectionAssumption`, `StateAssumption`, `CountersAssumption`, `LeavesAssumption`,
`DirectAssumption`, `EnclaveAssumption`, `IssuanceAssumption`, `ObserverAssumption`,
`ForeignAssumption`, `DepthAssumption`, ...), and the values for "none" differ from the
values they stand beside. Two of them say more than a type. `RosterAssumption`
(`Audit`): the counter array has room for a full roster, as the comment on
`COUNTERS_LEN` has it (`tally/src/lib.rs:48`); the programs check each candidate against
the array, and `Chain` does without it. `CapacityAssumption` (`SmtMirror`): the log is
not longer than the tree's capacity (`smt-server/src/tree.rs:8`), 2^28 leaves, which no
code checks.

**What needs an induction** over a sum, a sequence or the tree's depth is proved from sets,
since the provers take no induction rule: a set of naturals that holds 0, and n + 1
with every n, is `Nat` (`NatInductionSet`, from a least counterexample, `LeastNat`). A
recursive function is given its equations by a lemma that there is such a function at
all (`SumExists`, `EmptyUnfolds`, `HashRow`, `LayersExist`, `WalkExists`), since a
recursive definition is a CHOOSE.

**Chain.** Type correctness is inductive as it stands. The other invariants are not.

* `RegistryInv` adds to `LeavesContiguous` that the count is zero until the header
  exists: `init_voter_registry` sets it to zero.
* `CountInv` adds to `CountMatchesBallots` that the set of ballots is finite (so that
  its cardinality grows by one with a new element) and that there is no ballot while
  there is no tally account, which `init_tally` zeroes, nor anything in `direct`. That
  `Cast` adds to exactly one shard's set of ballots is the lemma `CastCounts`, and that
  a direct addition adds to exactly one shard's part of `direct` is `DirectCounts`.
* `OrderInv` is behind `BallotsInOrder`: the schedule was ordered when the account was
  created, the polls opened no earlier than the schedule says, the roster has no
  blank entry, there is no ballot before VOTING_OPEN, and the tally's slot never
  runs ahead of the clock. With `CountInv` it also gives `ElectorateFixed`.
* `ChainBallotsWithinRoll` maps each ballot to a leaf of its voter, an injection
  into the finite log (`RollBound`).
* `VerifyTallyFailsForCause` rests on `CountInv` and on `RoomInv`, that every ballot
  names a candidate with counters. The total is the number of ballots and of direct
  additions; a sum of the sizes of the shards' parts of a set is the size of the whole
  (`SumOfFibres`), and that is what `verify_tally` adds up (`CountersAddUp`). So the total
  never differs from the counters, at any moment and for any number of candidates and shards;
  what a direct addition can break is the comparison with the roll.
* The refinement maps each action to a `BallotBox` action or a stutter. The case
  with work in it is `Cast`: the sum of the four shards of its candidate grows by
  one and no other candidate's changes (`TotalAfterVote`). `DirectStep` is an
  `AddByHand` (`BoxDirectStep`).

**Enclave.** The inductive invariant is `EnclaveInv`: beyond the types and the bound
on leaf indices, every transaction under way is the only one of its sender, agrees
with what its sender remembers, and signs a nullifier with a commitment of the same
voter and carries that commitment's state (`TransactionsMatch`); and every credential,
in a file or in a handler, is the voter's own and bound to the unit that issued
it (`CredentialsOwned`). `EnclaveImplementsChain` follows: what lands is one of
`HonestBallots`, so that every theorem about `Chain` holds of the ledger that the servers
write to; `EnclaveCountMatchesBallots` and `EnclaveKeepsTheElection` spell them out. That
ledger takes `accumulate_votes` from anybody too, and the theorems say of it what those
about `Chain` say. For `LeafIndexOwned` the
invariant is strengthened once more (`OwnershipInv`): a handler past the confirmation,
and one that has read a session or a file, owns the leaf index it holds, because
`insert_commitment` takes the index from the transaction, refuses it unless it is
the next one, and no leaf is ever replaced. For clients that wait, `WaitingInv` says of
every leaf index, whether it is in a session, in a file or in a handler, that it names the
leaf of the commitment in the voter's file. The step that could break it is
`IssueAndSend`, which replaces the file. It does not, because a handler that registers
has found no leaf in the session, the voter has no other request that could put one
there or holds one (`OneRequestEach`), and the transaction it sends carries the new
file's commitment, so that a leaf confirmed to this handler is the file's. A leaf of an
earlier attempt that lands late is confirmed to nobody. This gives
`RegisteredCanVote` and `WaitingKeepsFilesTrue`.

**Issuance.** `FitHandlers` refines the types: which steps belong to which kind of request,
and who holds a credential. `NothingLeftOpen` is inductive with it. Under `serial`,
`OneAtATime` says that every handler that is not idle is the only one; `FileInv`, that the
paths lead to whole credentials that are synced and the temporary name to something else
(`PathsWhole`), and how far a handler has got with its save (`SaveAt`). With them each step
of the system is a `Save`, a `Settle`, a `PowerFails` or a stutter of `AtomicFile`, and
`SentIsOnDisk` follows. `CeremonyInv` says which objects the token has at each step of
any ceremony (`TokenFits`) and, of orderly ceremonies, that each kind of secret has one
maker and the published key its private half (`OneOfEach`). Orderly excludes what
`key_ceremony.rs` does not survive: two ceremonies at once, and a kill between the two
halves of the pair. For `AloneSucceeds`,
`ServerInv` adds that a running server has the public key, hence all of them (it looks
for that one only, but the pair is what a ceremony makes last), and `LibraryAt` that the
library is as far as the one handler.

**SmtMirror.** `MirrorInv` adds to `MirrorSound` that whoever is about to notify the
server has its commitment in the log (`NotifiedLanded`), which holds because only a
confirmed transaction leads there and leaves are never replaced (`LogGrows`).
`IndexNamesLeaf` is preserved by `Insert` alone (`InsertKeeps`). For `OrderKept`, `OrderInv`
gives the embedding: an increasing map from the tree's places to the log, all of whose
values lie before the leaf of the one run that may be about to notify the server
(`OneBusy`), so that the map can be extended when it does.

**Merkle**, in `SmtMirrorProofs`. `NodeHash` and `LeafHash` bind their arguments; the rest
holds of any depth and any sequence of leaves.

* A subtree's hash is that of its halves also where the code takes the empty subtree
  instead (`HashSplits`). The layers of the reference definition therefore are the
  hashes of all subtrees of a level (`LayersAreHashes`), the last of them the root
  (`RootOfLayers`): `MirrorRootIsReference`.
* A walk up the path of a place passes, on every level, the subtree above that place
  (`WalkAt`), in any tree whose leaves agree beside it: `WalkToRoot`, for a leaf's path
  and, with `AppendAgrees`, for the path of an insertion, whose old root comes from the
  empty leaf and whose new root from the new one. `MirrorPathsVerify` needs in addition
  that the tree has room (`CountInv`, `TreeFits`: every leaf of the tree is one of the log
  and has a place of its own there).
* Conversely, a path that leads from a leaf to the root shows that the leaf is at that
  place, whatever the path is: `PathBinds`, `MerkleProofsBind`. And a root fixes
  the leaves, their number and their order, up to the tree's capacity: `MerkleRootBinds`.
  This is why the other modules may have the leaves themselves for `merkle_root`.
* `MirrorEqualCounts`: with one run of `register-voter` at a time, a server whose leaf
  count is that of the header has the log's tree and its root. An increasing map from
  n places into n leaves skips none (`AscendingSkipsNone`, `FullTreeIsTheLog`).

**PhaseMonitor.** `NoWastedAttempt` is made inductive by what the script knows
(`AttemptInv`): the slot it has read is not ahead of the clock, what has been sent was
sent with its gate open, and, where transactions are decided before the script goes on,
only the transition it waits for is under way and the phase before it has been reached.

**Booth.** What the panel implies of the field, the voter and the requests under way
(`PanelInv`), that the button of a request under way is disabled and there is one such
request (`ButtonInv`), that a vote answered with ok is with the server (`VoteInv`),
and, with `careful`, that the field, the screen and the requests are about the same voter
(`CarefulInv`).

**Audit.** The invariants of `ChainProofs` hold of it, since every step is a step of the
chain or leaves the chain alone. `TotalInv` makes a candidate's total the number of
ballots for them; `Stands` says of what was read, and of what was printed, that a
candidate with more votes than direct additions has ballots, which fix the roster, and
that a finalised total no longer changes; `NullifierInv` puts the total that was read
below the one of now, and what was found between the two. For `AuditWarnsForCause`,
`SumInv` says that, as long as nothing is in `direct`, the counters that one read
returned are the count of some part of the ballots (`PartCounted`), which stays so while
more are cast; `SumOfPart` then gives the total. For `RootOfTheLog`, `RootInv` bounds
what the header said by the log, and `RebuiltRootIsTheLog` shows that leaves sorted by
their index are the log in its order: the client finds no gap in it, although
registrations go on between its two reads.

**Observer.** `InLine` says that the messages on their way to a page, on the socket and
in the channel, are in the order in which they were counted and not ahead of the
server's tally; `Ahead`, that each of them is empty or not behind what the page shows.
`PollInv` and `PageInv` tie them to the ledger, the poller and the pages; the empty
tally is that of a dashboard that has just been restarted, and the wire of a page that
has not been sent its first message is empty, so that this send never waits.
`NeverGoesBack` and `ShownIsOnLedger` follow.

`PROJECT.json` lists the theorems with the run that checks each property.

**Model-checked only.** Every safety property of a passing run has a theorem. Liveness
(`VotingOpens`, `FinalTallyShown`) has none: it is out of the prover's reach, as is
`ENABLED`. The properties of the runs that end in a violation are false.

## 5. What is not modelled

* `enclave/src/counter.rs` and the client stubs have no behaviour yet: they return
  errors, and nothing calls them.
* The biometric session paths of `hsm.rs` and `unwrap_key`: nothing calls them.
  With them goes every failure of the HSM that is not one of its own rules (a token that
  is pulled out, a wrong PIN); a failing call is modelled where a handler has a path
  for it.
* The set-up scripts, which install and start everything once, in order. The end of
  `demo.sh` is `PhaseMonitor`.
* `show-election`, which prints one account.
* Cryptography: commitment, nullifier, hash, MAC and signature are represented by
  what they bind, so that there are no collisions and no forgeries; HMAC
  authentication of requests is left out with them.
* Several elections in the servers: a credential file is named by its voter only
  (`issuance.rs:118`), and `demo.sh` deletes the files before a new ledger starts. The
  poller and the audit client, which see the accounts of all elections, do have
  several.
* More than one HSM token, rent and fees, account validation, layout and wording of pages
  and of command-line output.
