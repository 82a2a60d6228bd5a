# TLA+ verification of the Insight API

This directory holds TLA+ modules that model the parts of the Insight API that
keep state: the block index (`lib/BlockDb.js`) and the reorganisation algorithm
(`lib/Sync.js`); the two sources that feed it (`lib/HistoricSync.js` over RPC or
from bitcoind's block files with `lib/BlockExtractor.js`, and `lib/PeerSync.js`), as
`insight.js` puts them together; the ledger on top of it (`lib/TransactionDb.js`)
with the requests for an address (`app/models/Address.js`) and for a transaction
(`app/controllers/transactions.js`); the e-mail store (`plugins/emailstore.js`); and
the price in memory (`app/controllers/currency.js`). TLC checks them on small
instances; TLAPS proves the central safety properties for every instance. Run

    tlc -workers 2 -config MCSync.cfg MCSync.tla      # any .cfg, with its MC module
    tlapm SyncProofs.tla

## 1. Inventory

### The system

The API is one Node.js process next to one bitcoind. It copies what it needs of
bitcoind's block chain into LevelDB and answers HTTP requests from there.
JavaScript runs one callback at a time, but every database and RPC call gives
way to other callbacks, so the state that a function read before such a call may
be gone when the call returns.

| Component | State it keeps | Operations | Hard behaviours | What makes it correct | Modelled |
|---|---|---|---|---|---|
| **BlockDb** `lib/BlockDb.js` | keys `bpr-` (previous), `bne-` (next), `bma-` (height), `btx-` (transaction -> block), `bts-` (timestamp), `bti` (tip), the file index; `cachedTip` in memory | `add`, `has`, `getPrev/Next/Height/Tip`, `setNext`, `setTip`, `setBlockMain`, `setBlockNotMain`, `fromHashWithInfo`, `getBlocksByDate`, confirmations | a block is stored in several writes; 0 is Genesis' height and "missing" | heights and transaction entries agree with the chain at every moment | partly |
| **Sync** `lib/Sync.js` | `storingBlock`, `cachedLastHash` per object; the locals of a running job | `storeTipBlock`, `processReorg`, `_setBranchOrphan`, `setBranchConnectedBackwards` | interleaving of two Sync objects, stale locals, delayed calls, failures between writes | after a job exactly the best chain is on the main chain, linked and indexed; jobs end; waiting calls are served | yes |
| **HistoricSync** `lib/HistoricSync.js` | `status`, `currentRpcHash`, `blockChainHeight`, `blockExtractor`, locals of `updateStartBlock` | `start`, `prepareToSync`, `updateStartBlock`, `getBlockFromFile`, `getBlockFromRPC`, the loop | restart at an orphan, bitcoind moving while it is read, RPC failures | a sync resumes on bitcoind's chain and reaches its tip | partly |
| **BlockExtractor** `lib/BlockExtractor.js` | list of files, current file, buffer | `getNextBlock`, `readCurrentFileSync`, `nextFile` | end of a file, files that grow after the list was made | no block twice or skipped | yes |
| **PeerSync** `lib/PeerSync.js` | `allowReorgs`, the Sync object, messages under way | `handleInv`, `handleBlock`, `handleTx`, `run` | announcements missed or overlapping a sync | an announced block becomes the tip | partly |
| **insight.js**, `config/config.js` | which syncs run, the switch of `allowReorgs` | start-up | restarts, hand-over from HistoricSync to PeerSync | at rest the store shows one chain | partly |
| **bitcoind** (external) | its active chain, its block files | `getblock`, `getblockcount`, `getinfo`, `getrawtransaction`, announcements | reorganises at any time | - | as the code uses it |
| **TransactionDb** `lib/TransactionDb.js` | outputs, spends, address keys, cached confirmations | `add`, `addMany`, `fromAddr`, `cacheConfirmations`, `fillScriptPubKey`, `fromIdWithInfo` | two spends of one output, confirmation cached across a reorganisation | what is indexed is stored; cached confirmations are true | partly |
| **Address** `app/models/Address.js` | sums and list of one request | `update`, `_addTxItem` | unconfirmed and double-spent items | balance, list and unspent outputs are those of the chain | partly |
| **transactions controller** | one request | `transaction`, `list`, `send`, raw | lookups that are answered at different times | inputs and outputs shown are those of the chain | partly |
| **emailstore** `plugins/emailstore.js` | secret, records, code and validation per address | `post`, `get`, `validate` | registrations that meet, calls that fail half-way, lost mail | an address keeps its secret; success means stored; only a mailed code validates | yes |
| **currency controller** | price, time it was asked for | `index` | requests during a fetch, fetches that overtake each other | a price is not older than promised, one refresh at a time | yes |
| **leveldb wrapper** `lib/leveldb.js` | open flag | calls, streams | a callback called twice, reversed ranges | answers pass unchanged | partly |
| **Rpc**, **Status**, **socket**, HTTP controllers, ratelimiter, PoolMatch, base58, bufferUtils, logger, `util/` | none, a library's, or a subscription list | pass-through, conversions | - | - | no |
| **MessageDb**, **mailbox**, **cleaner**, **monitor**, **credentialstore**, **publicInfo** | messages and records by key | put, get, remove | key collisions | - | no: nothing starts them |

How they interact: `insight.js` makes a `HistoricSync` and a `PeerSync`; each
makes a `Sync` of its own, and both share one `BlockDb` (a module-level
LevelDB handle and a module-level `cachedTip`). `HistoricSync` takes one block after
another from bitcoind's files or over RPC and hands it to its `Sync`; `PeerSync`
gets `inv` and `block` messages and hands the blocks to its own. The answer
`NEED_SYNC` makes `PeerSync` call `HistoricSync.start` again, with `forceRPC`. When
the first sync ends, `insight.js` sets `PeerSync.allowReorgs`. `Sync` calls
`BlockDb.add`, which calls `TransactionDb.addMany`, which asks bitcoind for every
transaction.

A request for an address makes an `Address`, whose `update` reads the address rows
and the spends from `TransactionDb`, asks bitcoind about what is not cached as
confirmed, asks `BlockDb` for tip and blocks, writes what is now deep enough back
into the address rows, and sums up. A request for a transaction asks bitcoind for it,
then `TransactionDb` for the rows of its inputs and the spends of its inputs and
outputs, then `BlockDb` for the depth of the inputs. Dozens of callbacks of storing
jobs, peers and other requests may run between any two of these. emailstore and the
price share nothing with the rest but the process.

`PROJECT.json` lists every hazard of the code at the line where it bites, and
which property would catch it.

## 2. Modules

| Module | Models | Relation to the code |
|---|---|---|
| `BlockDb` | `lib/BlockDb.js` | one variable per key prefix, one operator per method. A method that writes does so in one `put` or `batch`, which LevelDB applies whole. |
| `Sync` | `lib/Sync.js` | `pc[s]` is the call a job waits for, `job[s]` the arguments and locals of the closure. One action per callback. |
| `BestChain` | - | the abstract specification: what the store promises its readers. |
| `SyncCallers` | the callers of `storeTipBlock` | closes `Sync` with callers that deliver blocks in any order, for the runs and the proofs of that component. |
| `SyncInvariant`, `SyncLemmas`, `SyncProofs` | - | the inductive invariant; what every step of a Sync object keeps of it, whoever runs beside it; the theorems. |
| `Bitcoind` | bitcoind (external) | its tip, `getblock`'s `confirmations` and `nextblockhash`, its announcements. |
| `BlockFiles` | `lib/BlockExtractor.js`, the blk files | a file is the sequence of its blocks; the extractor is a record with the file, whether it was read and what is left of it. |
| `HistoricSync` | `lib/HistoricSync.js` | `hist` holds the object and the locals of `updateStartBlock`; one action per call. |
| `PeerSync` | `lib/PeerSync.js` | `inbox` are the blocks under way; `allowReorgs`. |
| `Insight` | `insight.js`, `config/config.js` | composes HistoricSync, PeerSync, both Sync objects, bitcoind and restarts. |
| `TransactionDb` | `lib/TransactionDb.js` | one variable per key prefix: `txo` (outputs), `txs` (spends), `txa` (address rows with the cached confirmations, one per time). |
| `Address` | `app/models/Address.js`, `fillConfirmations` of `lib/BlockDb.js` | `req[r]` holds the locals of `update`; `pc` is the phase, `todo` and `looks` the lookups of it that have not answered. One action per lookup. |
| `TransactionView` | `transaction` of the controller, `fromIdWithInfo`, `fillVinConfirmations` | `view[v]` holds `txInfo` and the lookups that have not answered. One action per lookup. |
| `Ledger` | what runs around a request | composes requests of both kinds with a Sync object that follows bitcoind, reorganisations, and unconfirmed transactions from a peer (`handleTx`). |
| `EmailStore` | `plugins/emailstore.js` | one variable per key prefix; `at[r]` is the database call a request waits for. |
| `EmailRegistry` | - | the abstract specification of it: an address belongs to the secret it was registered with. |
| `Currency` | `app/controllers/currency.js` | its two module variables, and the fetch each client waits for, over a clock. |
| `ReorgInvariant`, `ReorgLemmas` | - | the inductive invariant of a reorganisation: which blocks are on the main chain, phase by phase; what every step keeps of it. |
| `HistoricInvariant` | - | the inductive invariant of a HistoricSync that works alone, from the start of the process to the end of its loop. |
| `LedgerInvariant` | - | the inductive invariant of the cached confirmations. |
| `AnswerInvariant` | - | the inductive invariant of a request: what its lookups have made of the answer so far. |
| `InsightProofs`, `LedgerProofs`, `AnswerProofs`, `EmailProofs`, `CurrencyProofs` | - | the other proofs. |
| `MCSync`, `MCInsight`, `MCLedger`, `MCEmail` | - | block trees, a small ledger and a few requests, for TLC. |

`Insight` -> `PeerSync` -> `HistoricSync` -> `BlockFiles` -> `Bitcoind` -> `Sync` ->
`BlockDb` extend each other; `SyncCallers` and `SyncInvariant` extend `Sync`, and `ReorgInvariant` extends `SyncInvariant`;
`HistoricInvariant` extends `Insight` and `ReorgInvariant`;
`Ledger` -> `TransactionView` -> `Address` -> `TransactionDb` -> `Bitcoind` is the second
stack on `Sync`, with `LedgerInvariant` and `AnswerInvariant` on top of it. `EmailStore` (an instance of `EmailRegistry` in it) and `Currency` stand
alone.

### How a job of `storeTipBlock` is cut into steps

`check` (is the parent stored?) - `tip` (`getTip`) - `next` (`getNext` of the
parent) - `reorg` (`getHeight` of the parent, in `processReorg`) - then, for a
parent that is off the main chain or has no next block, `walk`/`walked` (back to a
block with a positive height), `connect` (`setBlockMain` up the branch),
`fork`/`relink` (read and replace the next pointer of the fork block) - then
`orphan`/`follow` (`setBlockNotMain` along the old branch) - `addTxs`
(`TransactionDb.addMany`) - `add` (the batch of the block) - `setTip` - `setNext`.
`timer` is the five seconds before the one retry. With `allowReorgs` false a job
goes from the start straight to `addTxs`, and from `add` to `setNext`.

### How a sync is cut into steps

`count` (`getblockcount`) - `tip` (`getTip`) - `info`/`height` (what bitcoind and the
database say of the block looked at; `Judge` is the decision of `updateStartBlock`) -
`demote` (`setBlockNotMain` of the block that is left) and back to `info` - then `seek`
(read the files up to the start block) or straight to `fetch` (the next block from the
files or by `getblock`) - `store` (until the Sync object has stored it) - `fetch`.

### How a request is cut into steps

For an address: `spends` (`fromAddr` read the rows in one stream; now the spends of
each output) - `rpc` (bitcoind is asked for each output that is not cached as
confirmed) - `rpcSpent` (for each first spender) - `tip` (`getTip`) - `fill`
(`getBlockForTx` of each output, then of each attempt to spend it) - `cache`
(`cacheConfirmations`, one batch; sums and list are made in the same callback) -
`script` (unspent outputs only: bitcoind is asked for each script, and the answer is
cached).

For a transaction: `getrawtransaction` - `outpoints` (for each input the row of the
output it spends, then the first spend of that) - `spent` (the spends of its outputs, in
one stream) - `tip` - `vin` (for each input `getBlockForTx`, then bitcoind when there is
no entry).

The lookups of a phase answer in any order, and a phase ends with the last of them.

### Abstractions

* A hash or a transaction is a model value, a timestamp a number. The header facts
  a block carries (`Parent`, `Depth`, `TxsOf`, `TimeOf`) are constants: a block does
  not change. Block bodies are left out.
* A missing key reads as the code sees it: `NoHash` (null), or height 0.
* An address row is keyed by a time that stands for the transaction's: the one of
  its block, that of its arrival, or 0 for the missing time of a transaction that
  is in no block of the active chain (NaN in the code's key; both sort last). bitcoind
  runs with `txindex=1` (`etc/bitcoind/*.conf`), so it finds the latter.
* `addMany` asks bitcoind for every transaction and writes one batch: one step in
  `Ledger`. The cache of a script is written without waiting for it: one step too.
* Values are small numbers and scripts are left out. The list of transactions of
  an address is a set: `_addTxItem` adds none twice. A request with `txLimit` 0 does
  without it.
* Blocks from the files carry their transactions, so that `addMany` does not need
  bitcoind then and does not fail. Files are listed when the extractor is made and
  each is read once, whole, as in the code. Magic numbers, padding, files that are
  out of order and files above the size limit of the reader are not modelled.
* A lock is free exactly when `pc[s] = "idle"`; the one-second timers of delayed
  calls are the set `waiting[s]`, any of which may fire first.
* `lib/leveldb.js` turns a callback into `.then(cb).catch(cb)`: a callback that
  throws is called a second time, with the exception as its error. Where the
  second call has an error path it is taken (`Judge`); where the callback is one of
  the `async` library's, which refuses to be called twice, the process ends.
* An uncaught exception and `process.exit` end the process (`crashed`), and so
  does a kill; a restart keeps the database and loses the memory.
* The tests of `async.whilst` and `async.doWhilst` return their answer
  (`lib/Sync.js:248`, `285`, `293`, `lib/HistoricSync.js:289`, `372`, `495`).
  `package.json` asks for async 3, which gives a test a callback instead and waits for
  it. The constant `Async3` stands for the library that is installed: if TRUE, these
  actions (`Orphan`, `WalkTest`, `Connect`, `Seek`, `Fetch`) never happen, and `Judge`
  takes the callback for an error, as its test calls its first parameter `err`. If
  FALSE, a test answers by its value, as the code means it; everything about what the
  loops do is checked with that. The safety theorems hold with either (but see
  `Alone` in section 4). No fairness makes a loop pass its test.
* `RollbackLimit` is 100 for every network: `self.network` is an object, so the
  comparison with `'livenet'` (`lib/HistoricSync.js`) never holds.
* Records and codes of the e-mail store are random to the server and named after the
  registration that brought them; each request is sent once. A price is named after the
  time the market made it, so that its age can be told.

## 3. Runs

Passing runs:

| Run | States | Instance | Shows |
|---|---|---|---|
| `sync` | 8.8 k | 8 blocks, forks at heights 1 and 2, one Sync object, each block once plus repeats of the tip, up to 5 open calls; liveness | every reorganisation ends with the best chain, and nothing else, connected, linked and indexed; no step throws; the inductive invariant of the reorganisation proofs (`RInv`, `OwnIndexInv`); a job that does not stand still at the test of a loop ends, and the calls it delayed are served |
| `sync_faults` | 57 k | 5 blocks with a transaction in both branches, any block at any time, RPC failures, kills, restarts | heights and the transaction index stay truthful; the inductive invariant; refinement of `BestChain` |
| `insight` | 21 k | 8 blocks, two long branches; HistoricSync alone, over RPC or from the files, with bitcoind moving at any time; HistoricSync with PeerSync over RPC, with bitcoind moving at rest and announcing only its tip; restarts at rest; liveness | a sync reaches the tip of a bitcoind that does not move, and every announced tip becomes the tip of the store, through a resync for what was missed, unless a loop stands still at its test; the store is left in order; the inductive invariant of HistoricSync (`LineKept`) |
| `insight_faults` | 195 k | PeerSync with the resyncs it starts; HistoricSync from files of two blocks; HistoricSync over RPC; a rollback limit of 1, bitcoind moving twice at any time, two kills, failures at any step | resyncs that run into each other, resumes that walk back from an orphan and resumes that are refused: what is stored stays truthful |
| `ledger` | 826 k | 5 blocks, two branches; t1 pays an address, t2 and t3 compete for its output on the two branches, t2 also comes from a peer first; two requests for the address (with and without the cache, for balances or unspent outputs) or for a transaction; bitcoind fails to answer them at will | sums, list, unspent outputs, and the inputs and outputs of a transaction are those of the chain for a request that began with the store up to date and saw no move of bitcoind; a cached confirmation is true for good, and its inductive invariant (`CacheInv`) holds; so does that of the requests (`AnswersInv`); an indexed transaction has its outputs and spends stored |
| `email` | 703 k | two addresses; three registrations of one (two with the same secret), one of the other, a retrieval, a validation; failing calls, lost mail, restarts | the store implements `EmailRegistry`; after a registration that succeeded there is a code, handed on to the mail unless the process ended in between; only a mailed code validates |
| `currency` | 17 k | three clients, a refresh time of 3, answers within 2, failures, restarts | one refresh at a time; a price answered with nothing under way is younger than refresh time and latency together |

Every property of a passing run has a mutant in `PROJECT.json`: a plausible bug in
one definition under which the run finds the property violated.

### Bounds, and why they are enough

* *Trees.* Every case of the comment at the head of `storeTipBlock` needs two
  branches; orphaning more than the first block needs a branch of two; connecting
  more than one block needs the other branch to be two longer; coming back to a
  branch needs a third block there. The trees of `MCSync` have a fork at height 1,
  a fork inside the branch that gets orphaned, and room to come back; those of
  `MCInsight` have a branch that must be walked back two blocks on resume.
* `MaxCalls` bounds the open calls of one object: 5 in `sync`, so that several
  delayed calls overtake each other; 1 per object in `sync_faults`, where the
  interleaving is between a job and failures.
* `Repeat` are the blocks a sync may store again while they are the tip: those of
  height 2 or more in `sync` (see the conditions below).
* `Configs` are the ways the process is configured, `MoveAnytime` those of them with
  which bitcoind may move while the process is busy.
* `PerFile` bounds the blocks of a file: 2 in `insight_faults`, so that a sync crosses
  from file to file and a resume starts behind the first; 6 in `insight` (see below).
* `MaxMoves`, `MaxKills` bound how often bitcoind moves and the process stops.
  One restart is enough for a second boot to meet the remains of the first;
  `insight_faults` has two, so that a resume can be refused or killed and tried
  again.
* `RollbackLimit` is 1 in `insight_faults`, so that the limit is met in a tree of
  this height; it is the code's 100 elsewhere.
* The tree of `MCLedger` lets both competing transactions be stored and indexed in
  turn, one of them before and after it has a block, and has an output of another
  address that no answer may count. `MaxRequests` = 2, for requests of both kinds
  together, one open at a time: requests meet only in the rows they write, the cached
  confirmations and scripts, and the second meets what the first one wrote.
  `Safe` = 2 and `MaxReorg` = 1: a confirmation can be cached before
  and after the reorganisation. `MaxStamp` is one more than any block's time.
* `MCEmail` has the smallest set of requests in which two registrations meet with the
  same and with another secret, and another address whose code must not do.
* `MaxTime` = 8 in `currency` is room for two refreshes and the fetches that overtake
  each other while there is no price yet.

### Conditions that a passing run assumes, and why

`sync`, `insight` and the others have a library whose loops run (`Async3 = FALSE`).
`sync` uses one Sync object, own transactions per block and no failure; `insight`
stops the process only at rest, with the tip at height 2 or more, and with a peer
lets bitcoind move only at rest. Each of these conditions is *needed*: some are the
findings below, and the others can be seen by changing one constant of a passing
configuration.

| Condition | Change | What then happens |
|---|---|---|
| the loops run | `Async3 = TRUE` (the finding `sync_async3`) | a reorganisation stands still with the lock taken, and a sync ends in an error or stands still before it fetches a block; the properties of `sync` and `insight` hold all the same, most of them because little happens |
| the tip is stored again at height 2 or more only | `Repeat <- TreeBlock` in `MCSync.cfg` | the next pointer of the parent names the repeated block, so it is taken for a fork at Genesis, whose height 0 reads as a missing block: the job throws (`NeverCrashes`) |
| a branch that is left does not fork itself | `Parent <- NestParent`, `Depth <- NestDepth` in `MCSync.cfg` | an orphaned block keeps its next pointer; connected again under another child, it still leads to the first one, and a later reorganisation orphans that branch instead of the one that is connected (`BranchesOrphaned`, `ForwardLinks`; see the observations) |
| no block but one has Genesis for its parent | a tree with `d` on `g` in `MCSync.tla` (`OneFirstBlock` in the proofs) | its height 0 reads as a missing block, as in the row above (`NeverCrashes`) |
| jobs have `allowReorgs` true | `AllowModes = {TRUE, FALSE}` in `MCSyncFaults.cfg` | a block stored with `allowReorgs` false needs no stored parent and indexes its transactions with height -1 (`IInv`, `TxIndexTruthful`) |
| with a peer bitcoind moves at rest | `MoveAnytime <- AllModes` in `MCInsight.cfg` | a block announced during the first sync is stored by both sides, and the peer's copy writes height -1 over the tip's height (`ChainAtRest`) |
| the process stops at rest | `KillAnytime = TRUE` in `MCInsight.cfg` | after a kill between `setTip` and `setNext` the tip is stored again: its parent is connected and then orphaned as the block that follows the fork (`ChainAtRest`, `LinksAtRest`) |
| no call to bitcoind fails | `Faults = {"rpc", "kill"}` in `MCInsight.cfg` | without an answer for the tip `updateStartBlock` takes it off the main chain, and without one for no block at all it ends in an error: the tip stays there, until a restart stores it again (`ChainAtRest`) |
| branches share the blocks up to height 2 (`SharedBase`) | - | the search stops at the fork, and storing a block of height 0 or 1 again throws, as in the first row: so does every restart, and the store is never at rest again |
| the start block is in the file of the last stored block, or behind it | `PerFile = 4` (or 2, 3, 5) in `MCInsight.cfg` | `prepareFileSync` searches from the file of the last stored block on; the start block after a walk back may lie in an earlier one: the sync ends with "Could not find block", and so does that of every restart (`ChainAtRest`, `CatchesUp`) |
| reorganisations are shorter than `safeConfirmations` | `Safe = 1` in `MCLedger.cfg` | a confirmation is cached that a reorganisation takes back (`CacheTruthful`), which is what the option is for |
| a free address is registered with one secret at a time | `Overlap = TRUE` (the finding `email_race`) | the second secret replaces the first |
| the price service answers before the next refresh is due (`Latency < Delay`) | an assumption of `Currency`; the https request has no timeout | two refreshes overlap. While a fetch is under way, or after it failed, an old price is served without limit |

The Sync object of `ledger` gets the blocks of the active chain from below, one at a
time, and storing does not fail there: failures, kills and overlapping sources are the
subject of the other runs.

The safety properties that hold without any of them, as long as callers allow
reorganisations, are `HeightsTruthful`, `TxIndexTruthful` and
`BlocksOnStoredParents`; so does `OwnIndexInv`, of transactions that one block alone holds.

### Fairness

`SyncCallers.Fairness` is weak fairness of a job's steps and of the delayed calls:
every database call calls back, and every timer fires. It leaves out the steps that wait for
the test of a loop (`AtTest`, `Looping`): with the version of async that `package.json` asks
for they never come. So the liveness properties promise no more than the code does. A job
answers *or stands at a test for ever* (`LockReleased`); a delayed call is served, or the
job in its way stands there (`WaitersServed`); a sync reaches bitcoind's tip, reports an
error, or stands there (`CatchesUp`; `AnnouncedIsStored` likewise). What they rule out is every
other way not to end: a walk along pointers without end, a lock that is kept on some path, a
poll or a message that is lost, a resync that does not bring what is missing. That the loops do
stand still is a property of its own, `ReorgsAnswered`, refuted in `sync_async3`. No block has to
arrive, and no failure has to happen or to stay away. `InsightSpec` asks the same
of HistoricSync (outside its loops' tests), of PeerSync together with its messages,
and of the restart of a process that ended (a supervisor). Failing is not part of what
is fair. bitcoind never has to move. `WaitersServed` holds only once no new call
arrives: the polls are not queued, so a stream of new calls may overtake a waiting one
for ever. `EmailStore` and `Currency` have no liveness property: a request whose
call fails or whose process restarts is not taken up again, and lost mail is not sent
again.

### Findings (violation runs)

| Run | What the code says | What happens |
|---|---|---|
| `sync_shared_tx` | case 2 "Set F-G as connected (mark TXs as valid)" `lib/Sync.js:66` | the old branch is orphaned *after* the new one is connected, and orphaning deletes `btx-<txid>` whoever wrote it: a transaction in both branches loses its entry. Case 2c of `test/integration/99-sync.js.descructive-test` (lines 267-273) expects `case1.tx`, which is in C1 and in C2b, at C1's height after C2b was orphaned |
| `sync_async3` | "async": "^3.2.5" `package.json:50`; "trigger reorg case 2", 'shouldnt return error' `test/integration/99-sync.js.descructive-test:197` | the test of each loop of a reorganisation only returns its value, async 3 waits for its callback: the job never answers and keeps the lock, and a delayed call polls for ever. The loops of HistoricSync stand still likewise or (`lib/HistoricSync.js:289`) end in an error |
| `insight_overlap` | "Storing a block already. Delaying storeTipBlock" `lib/Sync.js:90` | the lock belongs to one Sync object; both sources store the same block and the tip moves back |
| `insight_files` | "forceRPC option enabled" `lib/HistoricSync.js:334` | the resync a peer starts after a sync from files goes on reading the files, which are at their end: the announced block is not stored |
| `email_race` | "That email is already registered" `plugins/emailstore.js:76` | two registrations both see the address free, both succeed, and the second secret replaces the first |

### Observations

What reading and the runs showed besides, and no run refutes a statement of the
repository with:

* "Declare D-E orphans" (`lib/Sync.js:61-68`) does not hold for every tree. Connecting a
  branch corrects the next pointer of the fork only, not those inside the branch, and
  `_setBranchOrphan` follows next pointers. With `b` and `d` on `a`, `e` and `c` on `d`, `q` on
  `e` and `f` on `d`, stored in the order d, e, c, b, q, f: `c` takes over from `e`, `b` from both, `q`
  comes back to `e`; the pointer of `d` still leads to `c`, so that storing `f` orphans `c`
  instead of `e` and `q`, and two blocks stay at height 3 of the main chain. It takes three
  branches of which one was left and come back to. With `StraightBranches` as a
  constraint the same tree passes all of `sync`; what does not depend on it
  (`BestChainConnected`, `TxIndexComplete`, `NeverCrashes`, `OwnIndexInv`) passes on this
  tree anyway.
* "NEW is ignored (if allowReorgs is false)" (`lib/Sync.js:75`): the check of the parent
  is skipped exactly then (line 112), and the block is stored. A kill between `add` and
  `setTip` of Genesis, followed by an announced block 1, gives that block height 0.
* `updateStartBlock` also accepts a tip whose height equals a block count read earlier
  (`lib/HistoricSync.js:299`); a bitcoind that reorganised in between lets a sync
  resume from an orphan.
* Rows of spends are never removed, so an output whose only spend was orphaned or never
  confirmed is missing from the unspent outputs, while the balance counts it.
  `UnspentExact` is stated accordingly.
* A request for unspent outputs writes `<value>:<0 or 1>:<script>` over the row
  `<addr>:<value>` of each output (`lib/TransactionDb.js:685`); the view of a transaction
  then takes 0 or 1 for the value of the input, and its fees are wrong. `ViewExact`
  speaks of the other rows.
* Of two attempts to spend an output the confirmed one is cached with the input number
  and time of the first one (`lib/BlockDb.js:428`).
* A view reports a double spend only when the other spender sorts first, because of
  `ret.multipleSpentAttempt` (a misspelt field) and `mul.spentTxId` (undefined); the input of a
  coinbase is shown as unconfirmed; `firstSeenTs` is always undefined.
* A list of transactions that holds one bitcoind does not find never answers
  (`app/controllers/transactions.js:103`); `blockList.pop;` in the blocks controller is no call.
* `getBlocksByDate` hands the end of its range to the stream as the start ("Inverted since list
  is reversed", `lib/BlockDb.js:390`), as the old level package asked; `lib/leveldb.js:221`
  takes start and end as the lowest and the highest key also in reverse, so no block is ever
  listed by date (`test/integration/blocklist.js:27` expects two). Two blocks with one timestamp
  would share a `bts-` key besides. It is not modelled.
* A kill between storing a validation code and handing on its mail (`MailCode`) leaves an address
  whose later registrations find the code, succeed and mail nothing.
* Two first registrations with one secret may both mail a code, and the earlier is refused.
* `plugins/emailstore.js` requires `levelup`, which `package.json` does not list;
  `plugins/currencyrates`, which `insight.js` may load, does not exist.

## 4. Proofs

Every constant is a parameter in all of them: trees need not be finite, and the numbers of Sync
objects, calls, requests, failures, moves and restarts are not bounded. Of the ledger only that
its transactions have finitely many outputs between them, and that the times of blocks lie below
the greatest time there is. Of a tree only `BlockTreeAssumption` is assumed: a parent function
with Genesis at its root and depths that count along it.

| Theorem | States | Assumes |
|---|---|---|
| `SyncProofs.TypeCorrect` | `Spec => []TypeOK` | - |
| `SyncProofs.HeightsCorrect`, `TxIndexCorrect` | `HeightsTruthful`, `TxIndexTruthful` | `AllowModes = {TRUE}` |
| `SyncProofs.Invariant` | `IInv` | `AllowModes = {TRUE}` |
| `SyncProofs.ReorgInvariantHolds` | `RInv` | `OneAtATime`, `StraightBranches` |
| `SyncProofs.BestChainIsConnected`, `OldBranchIsOrphaned`, `NextLeadsToTip`, `ReorgNeverThrows` | `BestChainConnected`, `BranchesOrphaned`, `ForwardLinks`, `NeverCrashes` | `OneAtATime`, `StraightBranches` |
| `SyncProofs.OwnIndexCorrect` | `OwnIndexInv`, with any number of Sync objects and all failures | `AllowModes = {TRUE}`, `OwnTxs` |
| `SyncProofs.TxIndexIsComplete` | `TxIndexComplete` | `OneAtATime`, `StraightBranches`, `OwnTxs` |
| `SyncProofs.StoreRefines` | `Spec` implements `BestChain` | `AllowModes = {TRUE}` |
| `InsightProofs.InsightTypes` | `InsightSpec => []InsightTypeOK` | - |
| `InsightProofs.InsightHeights`, `InsightTxIndex`, `InsightRefines` | `HeightsTruthful`, `TxIndexTruthful` and the refinement of `InsightSpec`: two Sync objects on one database, and `updateStartBlock` writing beside them | `Allowed` |
| `InsightProofs.HistoricLineKept`, `HistoricChainAtRest`, `HistoricLinksAtRest` | `LineKept`, `ChainAtRest`, `LinksAtRest` | `Alone` |
| `InsightProofs.HistoricIndexAtRest` | `IndexAtRest` | `Alone`, `OwnTxs` |
| `LedgerProofs.IndexedCorrect` | `LedgerSpec => []IndexedIsStored` | - |
| `LedgerProofs.LedgerReorg` | `RInv`, with requests and peers in between | `OneFollower`, `StraightBranches` |
| `LedgerProofs.CacheInvariant`, `CacheIsTruthful` | `CacheInv`, `CacheTruthful` | `OneFollower`, `StraightBranches`, `MaxReorg < Safe` |
| `AnswerProofs.LedgerTypeCorrect` | `LedgerSpec => []LedgerTypeOK` | - |
| `AnswerProofs.AnswersInvariant`, `BalanceIsExact`, `ListIsExact`, `UnspentIsExact`, `ViewIsExact` | `AnswersInv`, `BalanceExact`, `ListExact`, `UnspentExact`, `ViewExact` | `OneFollower`, `StraightBranches`, `MaxReorg < Safe`, `OwnTxs`, `ValidBlocks` |
| `EmailProofs.EmailTypeCorrect`, `ValidatedRight`, `CodeMailed` | `EmailTypeOK`, `ValidatedByMail`, `CodeOnItsWay` | - |
| `EmailProofs.RegistryKept` | `EmailSpec` implements `EmailRegistry` | `Overlap = FALSE` |
| `CurrencyProofs.CurrencyTypeCorrect`, `RefreshAlone`, `MemoryFresh` | `CurrencyTypeOK`, `OneRefresh`, `PricesFresh` | - |

`OneAtATime` is the caller discipline of the run `sync`: one Sync object, no failure, no
restart, every block once and then only the tip again, at height 2 or more, and one child of
Genesis. `OneFollower` is one Sync object and one child of Genesis; `Ledger` keeps the rest of
the discipline by its actions. `OwnTxs`: no two blocks hold the same transaction (the finding
`sync_shared_tx` is about the others). `ValidBlocks`: a transaction of a block spends outputs of
transactions on the same chain, and no output is spent twice on a chain; bitcoind accepts no
other block. `StraightBranches` is a state predicate, and theorems that need it read `Spec =>
([]StraightBranches => []P)`: of a behaviour in which a job is started for a branch that forks
itself they say nothing. `Allowed` is the setting of the run `insight_faults`: HistoricSync
works without a peer, from the block files or over RPC, or the peer reorganises from the start
(`disableHistoric`) and asks for syncs itself; then no block but one has Genesis for its parent,
and bitcoind is at height 1 or more when it is first seen. `Alone` is the discipline of the run
`insight` without a peer: HistoricSync over RPC, loops that run (`Async3` is FALSE), no failing call, stops at rest with the tip at
height 2 or more, and `SharedBase`, branches that share the blocks up to height 2. Each of these
is needed (see the table of conditions above); a tree whose forks are all on one chain satisfies
them as well as the tree of `sync`, which has two.

**Sync.** `HeightsTruthful` is not inductive: a job writes heights it computed from what it read
several calls ago, and other jobs, a crash or a restart may have come between. What makes it
work is that two kinds of fact *survive* every step of anybody: a stored block stays stored,
with the parent its header names, and a database that has a tip keeps one. `IInv` (module
`SyncInvariant`) is built from those alone. Besides the types it says that links lead to stored
blocks, that the tip on disk and in memory is a stored block at its own depth, and, for each
phase of a job, what the coming calls may rely on: the branch collected by the walk is a run of
stored blocks whose depths end at the new parent's, the height being counted is the depth of the
block it will be given to, and a walk that ran past Genesis has the all-zeros hash at the head
of the branch, so that the next `setBlockMain` throws before it writes. Because `IInv` speaks of
stored blocks only, a step of one job preserves the phase invariants of all others: the lemmas
about stability say so once, and each action then has to re-establish only its own job's. TLC
checks `IInv` itself in `sync_faults`. The refinement follows from the same invariant:
`AddBlock` is `Store`, `MoveTip` is `Adopt`, everything else stutters. `SyncLemmas` holds all of
this for a step of a Sync object in *any* environment, which is what the next two build on.

**Reorganisations.** `IInv` survives anything, and so says nothing of *which* blocks are
connected. `RInv` (module `ReorgInvariant`) does: writing p for the parent of the block that is
stored, the connected blocks are those of the best chain while a job reads; of the best chain
and of p's chain below the height reached, while the branch is connected; of both chains, while
the fork is relinked; of p's chain and what is above the block to orphan next, while the old
branch is orphaned; of p's chain until the tip moves, and of the new best chain then. The walk
back needs that no block strictly between p and the fork is connected, the orphaning that the
next pointers from the fork upwards run through exactly the old branch and end at the old tip,
which nothing points beyond. That is where `StraightBranches` enters: pointers inside a branch
that is connected again are those it was stored with, and they are right only if it never forked
(`PointerInv`: a pointer leads to a child, and every stored block was pointed to when it came).
`OwnIndexInv` needs none of that: `setBlockMain` writes height and entries in one batch, and
only the orphaning of the block itself deletes them when no other block has the transaction,
whatever fails.

**The process.** `SyncProofs` assumes of callers that they allow reorganisations, that the first
block of an empty store is Genesis, and that nobody else writes. `InsightProofs` shows that
HistoricSync and PeerSync together are such callers, and that what `updateStartBlock` writes
itself does no harm. `InsightInv` joins `IInv` with two parts. `HistInv`: while the search for a
start goes on there is a tip, and it only visits stored blocks; a block it leaves is one
bitcoind said is off its chain, so never Genesis, and the search does not go on to the all-zeros
hash; an empty store is only ever fetched into from Genesis, or from the first block of the
first file; and files are read without a peer only, because the sync a peer asks for forces RPC.
`SourceInv`: the first block of the files is Genesis, an empty store has no `lastFile`, and
nothing the peer announces has Genesis for its parent. The last is why `Allowed` asks for a
bitcoind past its start: a block announced into an empty store is refused because its parent is
missing, but a child of Genesis has, between `add` and `setTip` of Genesis, a parent and no tip,
and would get height 0 (see the observations). The call that is made is therefore not known to
have a stored parent, only not to be that child (`CallInv`), and a job past its first read knows
more (`Founded`). Before the proof TLC checked `InsightInv`, in a module that extends `MCInsight`
and `InsightProofs`, with the constants of `insight_faults` (all 195 k states, no error). With a peer that waits `allowReorgs` is false
for a time, and the theorems do not hold (see the conditions).

**Types of the process.** `InsightTypeOK` is not inductive: the search steps from a block to
what its keys say is the previous one, and from a file to the next. `TypesInv` adds that the
search and the tip only hold hashes of blocks or none (`HistType`, `TipType`), that a search
which looked at Genesis knows it to be on bitcoind's chain, so that it does not go on to the
all-zeros hash, and that a reader past its last file is empty. That the files hold no block
twice is a fact about lists: `ByDepth` takes the deepest block last, by a fold over a set, and
`FoldExists` (below) with induction on the size of the set shows that it lists each block of a
chain once, a lowest one first (`ByDepthLists`). That Genesis is on every chain of bitcoind, and
that `nextblockhash` leads to a block, needs the recursive definition of `Chain`: `SyncLemmas`
solves its equation (a chain reaches down to Genesis and leads up again from each of its blocks)
by the well-foundedness of the natural numbers; by the same argument a chain is finite.

**The store at rest.** `InsightInv` does not say which blocks are connected either, and `RInv`
cannot: after `updateStartBlock` the tip on disk is one that is off the main chain, and the loop
stores a block *below* it again. `LineInv` (module `HistoricInvariant`) follows one HistoricSync
through all of that. While it searches, exactly the chain of the block it came from is connected
(`WayBackInv`); it always stops at height 2 or above, because bitcoind, which is at least as
high as the stored tip (`ReachInv`), has the block 2 that all branches share (`ReachesBase`).
The block it stops at is then fetched as one that `Repeats`: it finds the next pointer of its
parent leading to itself, so that it takes itself for the branch to orphan, goes off the main
chain and, along the pointers that are left from the old branch, whatever came above it, and is
connected again by its own `add` (`PhasesInv`). What keeps this walk away from the chain below
is only that a next pointer leads to a child (`PointsInv`); no assumption about forks of
branches is needed, because from then on each block `Comes` on the tip. A search that gave up
half-way (`process.exit`) leaves the tip at -1 (`Lost`), and then -1 is too far from its height
for every later start, too: the process ends again, and the store does not come to rest. At rest
the loop has ended, and the connected blocks are those of the best chain.

**Ledger.** `IndexedIsStored` is not inductive because a branch that is connected again puts its
transactions back in the index and writes nothing else. `KeptInv` therefore says that the
outputs and spends of *every stored block's* transactions are stored, and of those of a job that
is about to add its block; no write of a request or a peer removes a row. `TipThere` (a store
with a block has a tip, or a job is about to set it) shows that the block that is fed next meets
what `IInv` asks of callers.

**The cache.** A request counts confirmations as the difference of two numbers it read at
different times: the tip's height and the height of an entry's block, or what bitcoind said,
while Sync may be anywhere in a reorganisation and bitcoind may have left the chain Sync is at.
`CacheInv` bounds both. A height to count from (`CountsFrom`: the tip on disk, in memory, and in
each request) is never `MaxReorg` or more above a block that is on the main chain here, or that
a job may put there, and is not on bitcoind's chain; so a count of `Safe > MaxReorg` is of a
block bitcoind still has, `MaxReorg` or deeper under its tip. Such a transaction is `Settled`,
and stays so at every move of bitcoind. Items, requests and rows then only count what is
settled. The bound survives a step of `storeTipBlock` because only blocks of the job's chain are
connected (`StepConnects`, from `RInv`) and the tip only moves to the job's block
(`StepMovesTip`), and a move of bitcoind because it gives up fewer than `MaxReorg` levels at a
time (`Advance`).

**Answers.** A request is marked with the tip of bitcoind if the store is up to date when it
begins (`at`), and its answer is judged if bitcoind is still there at the end. `AnswersInv`
(module `AnswerInvariant`) says what may be relied on in between. While the mark is bitcoind's
tip the store is up to date (`Marked`), and then the index *is* the chain (`StoreIsCurrent`):
the connected blocks are those of bitcoind (`RInv`), each of their transactions is indexed under
its block (`OwnIndexInv`), nothing else is (`TxIndexTruthful`), and their rows are stored
(`KeptInv`). Nothing is fed until bitcoind moves (`NothingFed`), and a bitcoind that moves only
goes to higher tips, so a mark that is passed by stays so (`AdvanceMarks`). What does move
meanwhile are the rows: a peer adds outputs and spends, other requests cache confirmations and
scripts. So the invariant speaks of rows only upwards (`SpendersKnown`: who is taken for a
spender is a known one) and of the chain exactly. `ItemTrue` is what an item never says wrongly:
it is confirmed, or its spender is, only if that is so on the chain; this needs that a cached
row is settled (`CacheInv`). `ItemWhole` is what an item says completely, phase by phase: after
the spends are read, each spender on the chain is among the spenders of the item or will be;
when all lookups are answered, an item whose output is spent on the chain has that spender and
knows that it is confirmed, whichever rival was listed first. There is one such spender at most
(`OneSpender`, from `ValidBlocks`), so rivals that are looked up after it change nothing. A view
of a transaction is simpler (`ViewTrue`): its transaction *is* the one spender of its inputs, so
the first recorded spend is a rival exactly when it is another.

**Sums.** `Sums` folds the items of a request in key order. A fold over a set is a recursive
function on its subsets, and the library's induction theorems are out of reach here, so
`SyncLemmas` proves what stands in for them: subsets of a finite set can be taken in order of
their size (`SmallerSets`: a property of the empty set that a set has when it has one element
less holds of all, by the least counterexample), and the fold exists and satisfies its equation
(`FoldExists`). With these `LedgerProofs` shows what every partial sum is (`SumsTrue`): amounts
received, kept and sent are those of the items so far, the list holds exactly their
transactions, and an appearance is counted once for each transaction of it that is confirmed,
because `seen` is the list. This does not depend on the order of the items, only on one of them
coming last. `ItemTrue` and `ItemWhole` then turn the sums over items into sums over the chain.
A mark of confirmed that an item lacks can only be missing on what is not on the chain, so what
is unconfirmed in the answer is at most what is in no block.

**Types of the ledger.** `LedgerTypeOK` is inductive with one addition, what an answer, a row
and a view may hold beside its fields' types (`ReplyType`, `RowsType`, `ViewType`): sums are
natural numbers because amounts are and `Out` is finite, and a stamp is below the bound because
a block's is.

**E-mail.** For the registry: whoever is at work on a free address agrees on its secret
(`Agreement`); whoever got past the check has the secret (`Ownership`), and it stays the right
one because only a free address is written. For the codes: a code in the database is that of a
mail to this address, unless the process went down with the request that was about to send it
(`CodesMailed`), and a validation goes on only with it (`CodesArrived`).

**Price.** The refresh under way is the last that was asked for, or older (`Refreshing`), no
fetch is older than the latency (`InTime`), so another can only be due when it is gone; and the
price left when nothing is under way is at most the latency older than the time it was asked for
(`LeftFresh`).

**Only model-checked.** The properties about a store at rest when PeerSync runs too or blocks
come from files (`ChainAtRest`, `LinksAtRest`, `IndexAtRest`, `LineKept`), which are proved of a
HistoricSync over RPC only. A peer that waits for the first sync is checked in `insight` only,
where bitcoind moves at rest, and so announces no block while the first sync runs. All liveness
properties stay with TLC, because liveness under fairness and `ENABLED` are beyond the prover:
`LockReleased`, `WaitersServed`, `CatchesUp` and `AnnouncedIsStored`. So does what happens to
rows that two open requests write at once, short of the theorems: the run `ledger` has one
request open at a time. No passing run stores a block with `allowReorgs` false, and of the theorems about Sync and the
process only those about types cover it; it occurs in the refutation `insight_overlap`.

## 5. Not modelled

`PROJECT.json` lists each component with its reason. Of the modelled files: the
`startAt`/`stopAt`/`forceStartFile` options of HistoricSync and `rollbackToBlock` (which calls
methods BlockDb does not have); the broadcasts of PeerSync; the migration of BlockDb from
v0.2 and `setPrev` (called by tests only); the pools and the migration of
TransactionDb, `fromTxId`, `fromIdInfoSimple` and the unused duplicates of its functions;
`update2`, `update3` and their `_addTxItem` of Address (unused); of the transactions
controller the list (one transaction after another), sending and the raw transaction.
Of BlockDb `getBlocksByDate` (see the observations). Database reads do not fail in `Ledger`; a request whose lookup fails inside
`_fillConfirmationsOneSpent` (`lib/BlockDb.js:425`) is lost, by the shape of the code.

`examples/` holds a browser bundle of the bitcoin library, which is not part of the server.
MessageDb, mailbox, cleaner, monitor, credentialstore and publicInfo are neither
started by `insight.js` nor reached from the routes.

## 6. Plan

Done, in the order it was planned: `BlockDb`, `Sync` and its proofs (the heart of the
system), the composition with its two sources and the block files, the ledger with both
kinds of requests, the e-mail store, the price; the proofs about each. What could follow:

1. *A peer that waits, in `InsightProofs`*: blocks stored with `allowReorgs` false apart from
   the rest of the store, and the store at rest with both sources.
2. *MessageDb, mailbox, socket, cleaner*, once something starts them: keys by
   recipient and rounded microsecond, delivery to a subscriber against `removeUpTo`.
3. *Pure parts*: the block reward of `Rpc` in 32 bits, pagination and dates of the blocks
   controller.
