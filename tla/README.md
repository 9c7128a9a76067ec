# bazo-miner: a TLA+ verification project

Bazo is a proof-of-stake block chain. This repository is its miner: it keeps
the chain and the account state, exchanges blocks and transactions with other
miners, validates what it receives, switches to longer branches and mines
blocks itself. It also shrinks old blocks: payments are *aggregated*, and a
block all of whose transactions are aggregated is moved to a bucket of blocks
without transactions. Payments with data run contracts on a small stack machine.

The project models that machinery in TLA+, checks it with TLC on small
instances and proves the central results with TLAPS: about the chain for every
block tree, about accounts, statistics, start-up, fetching and peers for every
value of the constants.

## 1. The system

| Part | State | Operations | Interacts with |
|---|---|---|---|
| Block validation and reorganisation (`miner/block_validation.go`, `longestchain.go`, `blockrollback.go`) | buckets `closedblocks`, `closedblockswithouttx`, `lastclosedblock`, global `lastBlock` | `validate`, `getBlockSequences`, `getNewChain`, `rollback`, `postValidate` | called by the incoming-data goroutine and by the mining goroutine under the mutex `blockValidation`; asks peers for missing blocks |
| Mining loop and proof of stake (`miner/blockchain.go`, `proofofstake.go`, `block.go`) | the block under construction | `mining`, `finalizeBlock`, `proofOfStake` | prepares under the mutex, mines *without* it, reads and repairs `lastBlock`, then calls `validate` |
| Block intake (`miner/p2p_interface.go`, `p2p/miner_interface.go`, `miner_request.go`, `response.go`) | `ReceivedBlockStash` (100 entries), unbuffered `BlockReqChan` | `processBlock`, `forwardBlockReqToMiner`, `BlockReq` | peer goroutines block on the channel; `getNewChain` reads it with a timeout |
| Account state (`miner/state.go`, `staterollback.go`) | `storage.State`, `storage.RootKeys` | seven stages of `validateState` and their seven rollbacks | called by `validate` and `rollback` |
| Block preparation (`miner/blockpreparation.go`, `block_*tx.go`, `tx_verification.go`) | `StateCopy`, `FundsTxBeforeAggregation` | `addTx` and the `add…Tx` functions | reads the state, fills the block, runs contracts |
| Aggregation and emptying (`miner/block_aggregatetx.go`, `storage/update.go`) | `Aggregated` flags, blocks without transactions | `AggregateTransactions`, `UpdateBlocksToBlocksWithoutTx`, `reactivateHistoricBlockDueToRollback` | runs inside preparation, validation and rollback |
| Storage (`storage/*.go`) | bolt buckets, mempool, stashes | one bolt transaction per call | all of the above |
| Statistics and parameters (`miner/blockchainparam.go`, `configs.go`) | `globalBlockCount`, `localBlockCount`, target stack, parameter slice | `collectStatistics`, `CheckAndChangeParameters`, their rollbacks | `postValidate`, `rollback` |
| Slashing (`miner/slashing.go`) | slashing dictionary | `seekSlashingProof`, `slashingCheck` | `finalizeBlock`, `preValidate` |
| Start-up (`miner/state.go: initState`) | everything | replay of the stored chain or of the peers' | runs once before the goroutines |
| Fetching transactions (`miner/fetch_transactions.go`, `block_*tx.go`) | one channel and one stash per kind of transaction | one fetcher goroutine per kind | inside `validate`, with `TXFETCH_TIMEOUT` |
| Update transactions (`miner/block_updatetx.go`) | closed transactions and blocks, rewritten in place | `processUpdate…` | chameleon hashes keep the block hash |
| Peers (`p2p/server.go`, `peer.go`, `services.go`, `process.go`) | registry of connections, `sendingMap`, a channel per connection, `iplistChan` | connect, disconnect, broadcast, search for miners | feeds everything |
| System time (`p2p/time.go`) | peer times | median of the peers' clocks | timestamps of blocks |
| Contract VM (`vm/*.go`) | evaluation stack, call stack, gas | one step per op-code | called for payments with data |
| Encodings, keys, command line | – | pure conversions and I/O | – |

What is hard about it: the mining goroutine runs outside the mutex that
protects the chain; requests are broadcast, time out, and share unbuffered
channels that belong to a kind of data and not to a request; a reorganisation is
a sequence of separate database transactions, and the process may die between
any two; a block is applied to the accounts in seven stages each of which may
fail and has its own list of undo steps; the state of the accounts is never
stored, only moved forwards and backwards and rebuilt at start-up; blocks change
their bucket while the chain above them grows; broadcasts wait on channels with
a mutex held; and the stack machine edits maps and arrays as byte strings that
share memory. `PROJECT.json` lists these hazards at the line where they bite,
with the properties aimed at them.

What makes each part correct, in one line each: *chain* – the buckets are one
chain whose end is both the persisted and the in-memory tip, and a validation
only ever moves that tip to a higher block; *accounts* – rolling a block back
restores the accounts, a refused block changes nothing, money is conserved and
counters count payments; *preparation* – payments continue every sender's
counter, however they are grouped (that a miner accepts the block it built is not
true, see section 4);
*statistics* – rollback restores counts, targets and parameters; *recovery* –
start-up rebuilds exactly the state the chain stands for, whatever was emptied
and wherever the process died; *fetching* – a validation that goes on has the
transactions its block names, and fetching ends; *peers* – the registry is
exact, a broadcast reaches who stays connected, and no wait for a channel or a
mutex is for ever that does not depend on another node's answer;
*machine* – gas ends every execution, memory is accounted for, a call is
atomic, and containers mean what their instructions say.

## 2. Modules

| Module | Contents |
|---|---|
| `LongestChain` | Abstract specification: one tip, moved in one step to a strictly higher block. |
| `Chain` | The block store, the two goroutines, the walk with its block requests, rollback and validation step by step. |
| `ChainProofs` | Type correctness and absence of nil dereferences, without assumptions on the environment; the inductive invariant of the store, the refinement of `LongestChain`, and the store with forks of any depth. |
| `Ledger` | Accounts, block preparation, grouping, `validateState`, `validateStateRollback`. |
| `FoldFacts` | What all loops over a sequence have in common; parameters are the step and the sets its values stay in. |
| `LedgerProofs` | Each stage of `validateState` and its undoing, which together are inverse; the inductive invariant of `Ledger`: counters follow the chain, rollbacks restore the accounts. |
| `Statistics` | System parameters, block counts and target history, forwards and backwards. |
| `StatisticsProofs` | Rolling back statistics and parameters is the inverse of collecting them. |
| `Recovery` | The database write by write, aggregation and emptying, crashes, start-up. |
| `RecoveryProofs` | The inductive invariant of `Recovery`: no block is lost at any crash point; the miner resumes where it stopped; the walk notes a chain. |
| `TxFetch` | The fetchers of a validation, their channels, stashes and time-outs. |
| `TxFetchProofs` | A fetch that succeeds has what the block names; when an answer may reach the wrong goroutine. |
| `Peers` | Connections, the registry, broadcasts, the search for miners. |
| `PeersProofs` | The registry is exact; connections stay registered; broadcasts find their miner. |
| `VM` | The contract machine and the calls of a contract during preparation. |
| `VMProofs` | The invariant of the machine: types, memory and gas, instruction by instruction; accepted calls store what they say. |
| `MCChain`, `MCLedger`, `MCStatistics`, `MCRecovery`, `MCTxFetch`, `MCPeers`, `MCVM` | Block trees, accounts, transactions, environments and contracts for TLC. |

### 2.1 Chain

A block is identified with its hash. The constants give the tree of all blocks
that exist or will be mined: `Prev`, `Height`, and `Anc`, the set of proper
ancestors, which the assumption `TreeAssumption` ties to `Prev` (a set instead
of a recursive definition, so that the proofs need no induction over the tree).

Variables and what they stand for: `closed`, `withoutTx`, `lastclosed` are the
three bolt buckets; `lastBlock`, `stash`, `mutex`, `reqChan` are the globals of
the same names; `newBlock`, `newChain`, `ancestor`, `tmpBlock`, `toRollback` are
the local variables of the walk (only the holder of the mutex has any);
`answers` are BLOCK_RES messages on their way; `minePrev` is the block being
mined upon; `oldTip` and `stale` are history variables. `stale` collects the
blocks with which an *unexpected* answer was under way (`Unexpected`): one that
nobody waits for and that the stash, which filters out what it holds, does not
hold. Such an answer comes into being when a request is given up, when another
block is taken for its answer, or when the stash drops a block several miners
have sent.

Each goroutine has a program counter. One action is one stretch of code between
two points where another goroutine can interfere or where the database is
written: `Receive` (intake and stash), `Lock`, the iterations of `getNewChain`
(`FoundAncestor`, `TakeFromStash`, `RequestBlock`, `ReceiveAnswer`, `Timeout`),
`CountRollback` and `CompareLengths` (`getBlockSequences`), `RollbackStatistics`
and `RollbackStore` (the two halves of a rollback: first `lastBlock` moves, then
the database), `ValidateStatistics` and `ValidateStore` (the two halves of
`postValidate`), `RejectBlock`, `RollbackFails`, and the mining goroutine's
`PrepareBlock`, `MineTick`, `MineAbort`, `MineFound`. The halves matter because
`proofOfStake` reads and writes `lastBlock` between them.

Whether a block passes `preValidate`, `fetchTransactions` and `validateState` is
decided in `Ledger` and `TxFetch` and is here the fault `"reject"`. `Faults`
names what else the environment may do: lose an answer, deliver it late, deliver
two. Which old blocks are emptied is decided in `Recovery` and is here any
subset of the candidates. `OpenBlocks`, the bucket `openblocks`, is empty: its
only writer, `WriteOpenBlock`, is called by tests alone. If it were not,
`getNewChain` would look up the same open block again and again
(`longestchain.go:99`); with an empty bucket that branch is never taken.
`"panic"` is the end of the process after a nil dereference in `mining()`.

### 2.2 Ledger

`S` is `storage.State` with `RootKeys`; money is unsigned and wraps at `Wrap`.
The operators carry the names of the Go functions. A loop that returns at the
first error is `ForEach`, which keeps what the iterations before the error did:
the code does not undo them, and the failure lists of `validateState` decide
what is undone. A missing account is dereferenced: the field `dead`, then
`pc = "panic"`.

Actions: `NewBlock`, `addTx` (with the four `add…Tx` functions on `StateCopy`),
`TxsSelected`, `AggregateTransactions` (one group of
`splitSortedAggregatableTransactions` at a time), `Validate`, `Abandon`,
`Rollback`. Every block comes from the preparation of an honest miner, this
node or another one with the same state. `snaps`, `verdict` and `flaws` are
history. `flaws` names what has happened that no rollback undoes (`Flaws`, and
section 4): a refused block left something behind, a block took a root key away,
a slashing proof hit an account that is not, or not only by the proof, leaving the
validators. The invariants speak of the time before.

Left out here: aggregation of payments of *older* blocks (it changes no
account; only its effect on whether a single payment becomes an aggregate is
kept), parameter changes (module `Statistics`), contract variables (module
`VM`), the replay mode `initialSetup` (module `Recovery`).

### 2.3 Statistics

`stat` holds the global variables of `blockchainparam.go`: the two block counts,
the stack of targets, the time ranges they were computed from, the start of the
current range, `parameterSlice`, and which accounts are validators (a raised
staking minimum removes some). `PostValidate` is the part of `postValidate` that
touches them, parameters first; `Rollback` is `configStateChangeRollback`
followed by `collectStatisticsRollback`, also parameters first. The loop of
`CheckAndChangeParameters` is expressed by its result: of several changes of one
parameter the last valid one stays. The logarithm of `calculateNewDifficulty` is
replaced by an exact comparison of squares; the sum is a byte that wraps.
`Faults` says what root keys may configure: `"shrink"` a shorter `DiffInterval`,
`"unstake"` a staking minimum that some validator does not have.

### 2.4 Recovery

`db` is what the process keeps on disk: the buckets of closed blocks and of
blocks without transactions, the last closed block, and the closed payments and
AggTxs with their `Aggregated` flag and the block they belong to. `mem` is what
a crash loses: of the account state, how often each payment and each block
reward has been applied. A task (`postValidate`, `postValidateRollback`, the
genesis block, the walk) is the list `todo` of writes in the order of the code;
`Write` performs the next one, and `Crash` may come before any of them that
the environment allows.

Actions: `Receive` and `Mine` (a block of another miner, the block prepared by
this one), `prepareBlock` (which already marks the historic transactions it
aggregates), `rollback` (with `reactivateHistoricBlockDueToRollback`), `Write`,
`Crash`, and the start: `initState` replays the database of the bootstrap
miner; `StartWalk`, `PeerAnswers`, `TakeAnswer`, `TimeOut`, `Lose`, `GiveUp`
walk back along the chain of the peers, and `Replay` applies it.

`Sound` names the circumstances under which start-up is right, `Untorn` those
under which no block is lost; section 4 has the counterexamples for the others.

A block has at most one AggTx, and a rollback does not reach blocks that have
been emptied (that case is in `Chain`).

### 2.5 TxFetch

A call of `fetchTransactions` starts one goroutine per kind of transaction;
`fetch[g][k]` is the one of call `g` for kind `k`, with its loop counters, its
tries and, for AggTxs, the frames of `fetchFundsTxRecursively`. Each waits on
the unbuffered channel of its kind; `forwardTxReqToMiner` is the handler of an
answer, which passes it on while it holds the mutex of the stash. `errs` is
`errChan`, and `Collect` the loop that returns at the first error while the
other fetchers go on. `SeekMissing`, `SeekTake` and `SeekTimeOut` are
`prepareBlock`, which asks for missing payments over the same channel. `seen` is
history: on which channels somebody gave up waiting, and on which two waited at
once (two fetchers, or a fetcher and `prepareBlock`).

### 2.6 Peers

A connection stands for its `*peer` and has the program counter of its reading
goroutine `peerConn`, the channel `ch`, and the messages its other end has got.
`register` is buffered, `disconnect` is not: `TakeDisconnect` is a rendezvous.
`sendingMap` points to numbered entries, because a broadcast goroutine goes on
with the entry its `range` gave it after another one has taken its place.
`sender[m]` is the goroutine of `sendAndSearchMessages` for message `m`, step by
step between the points where it looks at shared state; `caster` is
`clientBroadcastService`; `health` is `checkHealthService`, which dials and then
waits for a MINER_PONG without a time-out (`Unanswered`): `Pong` is the answer,
which need not come, `PongFails` the end of a connection that breaks; `tried` is
`lastTriedPeer` with its mutex; `emptier` is `EmptyingiplistChan`, called by
`mining()`; `request` is the loop in `BlockReq` that waits for a first miner.

`SendOlder` is the loop over `delayedMessages`, whose slice expression panics when
the list has become shorter than the copy it walks over: `Panicked`, the end of
the process.

Operations on the Go maps are atomic: the unsynchronised accesses of the code
either happen not to overlap or abort the program. A list of delayed messages is
a value; that the copies in Go share one array, so that an `append` may overwrite
what another goroutine still walks over, is left out. The other end of a
connection reads what it is sent or the connection breaks; a peer that stays
connected and never reads would stop all broadcasts, since `conn.Write` has no
deadline.

### 2.7 VM

The machine has a heap of byte arrays, and a Go slice is a window into one of
them, so that `append` writes in place exactly where it does in Go; `heap[1]` is
the contract, so that a pushed constant is a window into its code. There is one
action per family of op-codes (`ExecStack`, `ExecArithmetic`, …), one for a
machine that cannot go on, and the host: `Call` (`addFundsTx`), `Accept` with
`PersistChanges`, `Refuse`, `ValidateBlock`, `AbandonBlock`. Gas prices and
factors are those of `op_codes.go`. `"panic"` and `"hang"` are ends that
`RunsOutOfGas` excludes.

Error texts, which the code pushes onto the stack before it returns, and
`trace()` are left out.

## 3. Runs

| Run | Question | Answer |
|---|---|---|
| `chain_reorg` | Is the store one chain at every step, and the tip in memory the persisted one, with lost and duplicated answers and rejected blocks? | yes, 971 467 states |
| `chain_longest` | With a stash that drops blocks: is the whole of `validate` one step of `LongestChain`, and does a received block get adopted or lose against a chain at least as long? | yes under fairness, 5 098 states |
| `chain_deep` | With a fork below an emptied block, rejected blocks, late and doubled answers and a stash that drops blocks: can only an unexpected answer get into the wrong place of a branch, does a stored block keep its parent without one, and does `validate` meet no nil block? | yes, 6 967 319 states |
| `chain_reject` | Does a rejected block leave the node on its chain? | no, finding 1 |
| `ledger_rollback` | Up to the first step that has no undo: does rolling back restore the accounts, and are supply and counters right? Does a refused block change nothing, apart from the cases listed in section 4? | yes, 660 480 states |
| `ledger_fees` | Do balances stay in range when fees are collected? | no, finding 2 |
| `statistics_rollback` | Are counts, targets, ranges and parameters restored by a rollback? | yes, 82 115 states |
| `recovery` | Does start-up rebuild the state of the chain, wherever the process died and whatever was emptied? Does it always come to an end? | yes, at the points and under the circumstances of 2.4 and 4, 614 959 states |
| `recovery_restart` | Also when a plain payment was aggregated later? | no, finding 3 |
| `fetch` | Does a validation that goes on hold the transactions its block names and every payment below its AggTxs, is a foreign answer taken only after a time-out or on a shared channel, and does fetching end? | yes, 53 072 states |
| `peers` | Is the registry exact, does a broadcast reach a miner that connects once and stays, do broadcasts end, and, while no handshake stays unanswered, readers of broken connections and block requests? | yes under fairness, 659 596 states |
| `vm_exec` | Is memory accounted for, does gas end every execution, is a call atomic, do containers mean what they should? | yes, 179 451 states |

### Bounds

*Chain.* The tree of most runs has a trunk of two blocks and branches of
two and three, so that a switch rolls back several blocks and validates several,
own and received blocks alternate, and a second switch can follow the first. In
`chain_deep` the branches of two and three leave at the genesis block and
`EmptyAfter = 0` lets every block below the tip be emptied, so that the switch rolls
back a block that has been emptied. Its `StashCap = 2`, and that of `chain_longest`,
makes the stash overflow, so that a late or doubled answer finds its block no longer
in the stash and reaches the channel. `chain_reorg` has a stash that never
overflows, in which doubled answers are filtered out. `MaxReorg` is never reached
by these trees.

*Ledger.* Two blocks from six transactions are the smallest chains in which an
aggregate meets an older payment, a new root account is used later, a slashing
proof hits a validator that also mines, a grouping by receiver takes a sender's
payments apart, and blocks are rolled back and rebuilt with the transactions
regrouped. `MaxMoney` is 15, a little above the largest initial balance, so that
blocks are refused at a transfer, a fee, a block reward and a slash reward. What
the constraint `Flawless` cuts off is what comes after a step that has no undo;
the step itself is still checked. `ledger_fees` is one block of a validator that leaves and pays.

*Statistics.* Six blocks with an interval of three (MIN_DIFF_INTERVAL) are two
adaptions, the first from the genesis block and the second computed from times,
each with rollbacks across it; config lists change a parameter once, twice, with
an unknown id and out of bounds.

*Recovery.* Four blocks with one transaction each, emptied one block later
(`Lag = 1` for 100), two starts, one lost request. With an AggTx of two payments
and one of that AggTx and a third payment, a block can be made, aggregated,
emptied, and its payments found again below two levels at a restart. Seven
environments: `Plain` (payments and reorganisations), `Nested` (AggTxs of
AggTxs), `Retaken` (AggTxs that take plain payments of earlier blocks), `Race`
(prepared blocks that lose), `Synced` (a miner with peers that may die
anywhere), `Dying` (aggregation and crashes anywhere) and `Reorganised` (that
with rollbacks, and crashes anywhere but within the move of a block); only
`BlocksKept` and `WalkContiguous` are claimed in the last two.

*TxFetch.* Eight plans of one or two validations: blocks with payments and
AggTxs, with transactions of all six kinds, nested AggTxs at start-up, a second
validation that meets the fetchers left over from a failed first one, and a
payment that was broadcast before. A stash of one answer (100 in the code) makes
it forget, two answers may be under way for each transaction.

*Peers.* Three connections of two miners and a client, channels of capacity one
(100), a registration buffer of one (20), `iplistChan` of one (400), `MAX_MINERS = 2`
(30), one delayed message (40). Seven environments: a miner that connects again
while its old connection is still registered; a miner that loses both its
connections; two miners and one connection too many; a client with two
connections; a node that has to find a first miner for a block request; two miners
that leave while the node looks for them; neighbours that name miners while
`mining()` empties the list. With these capacities every channel is full at some
time, and both exceptions of `WaitsEnd` are needed: without the one TLC finds a
reader that holds `lastpeerMutex` for ever because `iplistChan` is full, without the
other a block request without a miner.

*VM.* 3 373 contracts: all pairs of instructions on two numbers, of jumps and
calls, of bodies of a function, of container instructions on a fresh and on a
stored map and array, loops that fill the stack, each called twice with enough
and with little gas. Sizes are scaled: memory 64 bytes, a contract 60, a hash 2,
a key 4, a unit of gas 4 bytes, `SSTORE` 20; numbers have up to four bytes. The
container properties compare with sequences of up to `MaxEntries = 3` entries.

### Deadlock

It is checked except where the system really may stop. `chain_deep`: `mining()`
dereferences a nil `lastBlock`. `recovery`: start-up fails or the bound on starts
is reached. `fetch`, `peers`, `vm_exec`: the plan, the environment or the calls
are used up. What must not stop is stated as liveness in those runs (`Resumes`,
`Returns`, `WaitsEnd`, `Delivered`) and, for the machine, as `RunsOutOfGas`:
gas is the ranking that decreases with every step.

### Fairness

`chain_longest`: weak fairness of every step of a goroutine: the Go scheduler is
preemptive and no step waits on another component except for the mutex and a
channel with a timeout. Strong fairness of `Lock`: `sync.Mutex` hands over to a
waiter after 1 ms and starves nobody. Weak fairness of `ForwardAnswer`: a peer
goroutine delivers what it has read. Nothing is assumed of the mining goroutine
outside `validate` or of the arrival of blocks.

`recovery`: weak fairness of start-up and of the writes. Requests may be lost,
`MaxLost` times; nothing is assumed of crashes or of further blocks.

`fetch`: weak fairness of `Run`, all goroutines of the fetch and their timers
taken together, the weakest form: each takes finitely many steps. Nothing is
assumed of the network.

`peers`: weak fairness of all goroutines taken together, and of the health
service, which loops for ever and would otherwise be the only one to run.
Nothing is assumed of connections that come and break, nor of the answer to a
handshake: `Pong` is not fair, since `RcvData` (`server.go:105`) has no time-out
and a node with `MAX_MINERS` miners neither answers nor closes
(`response.go:288`). That a block request finds a miner needs the bootstrap
server to accept a connection at last: it refuses `refusals` times.

## 4. Findings

Shown by runs of the project:

1. *Rollback before checks* (`block_validation.go:60`, run `chain_reject`). The
   current branch is rolled back before the first block of the new one is
   checked; a failed check leaves the shorter chain. The proofs show this is the
   only way the node can lose height while forks are shallow.
2. *Fees after checks* (`state.go:527`, run `ledger_fees`). The comment at line 511
   says whether a fee may be subtracted "has already been done in the block
   validation". Each transaction was checked, but against a balance from which
   the fees of the others were not yet taken. A validator that leaves and pays in
   one block passes every check, and its balance wraps below zero.
3. *Payments applied twice at start-up* (`state.go:208`, run
   `recovery_restart`). An AggTx may take plain payments of earlier blocks. As
   long as such a block is not emptied, a restart replays the payment with its
   own block and again below the AggTx; the checks that would notice are
   switched off during start-up.

Cases in which the properties fail and which they therefore except by a condition,
or whose inputs the passing runs leave out. Each was seen with TLC on the instance
described and is easily reproduced:

*Chain*

- *Late answers* (`longestchain.go:130`): with the fault `"late"`, an answer that
  arrives after `BLOCKFETCH_TIMEOUT` stays blocked on `BlockReqChan`; the next
  request takes it for its own answer. A doubled answer does the same when the
  stash has dropped its block. `chain_deep` includes both: `NewChainLinked` says
  which link of a branch may be wrong then, and `AncestorsStored` ends with the
  first unexpected answer.
- *Rollback onto an emptied block* (`blockrollback.go:219`): the previous block
  is looked up only among blocks with transactions; `lastclosedblock` is deleted
  and nothing written. `chain_deep` includes this and shows that `validate`
  survives it; `TipAgrees` and `OneChain` fail there.

*Ledger*

- *Root key removal* (`staterollback.go:19`): the undo of an account transaction
  deletes the account also when the transaction had only removed a root key. The
  account is gone, and what dereferences it next ends the process.
  `RollbackRestores` and `UnchangedOnError` except it.
- *Proof against a former validator* (`staterollback.go:217`): the account had left
  by a stake transaction when the proof came, or leaves in the same block; rolling
  the block back makes it a validator. `RollbackRestores` excepts it.
- *Failure within a stage* (`state.go:387`): a payment that fails in the middle of
  a block leaves the payments before it applied, since the failure list of
  `validateState` starts with the stages before; so does the second of two account
  or stake transactions.
- *Failed block with aggregates* (`block_validation.go:266`): two payments that
  form an aggregate in a block that fails at a fee or a reward. The undo looks
  for them among the closed transactions. `UnchangedOnError` excepts this and the
  case before.

A miner may refuse the block it has built itself. The run includes the first two
ways:

- *Cut groups* (`block_aggregatetx.go:173`): three payments to one receiver, one
  of them a sender's first, whose second goes elsewhere. The group by receiver
  takes the first payment, the second stays plain and is applied first, and its
  counter is too high.
- *Fees and rewards* (`state.go:496`, `572`, `591`): the preparation checks balances
  against payments, not the miner's own against what it will receive; the block
  fails when that exceeds MAX_MONEY.
- *Double creation* (`block_accounttx.go:18`): `addAccTx` looks into the state and not
  into the block, and lets two transactions that create one account in; the block
  fails at the second and the first stays.

*Statistics*

- *Shortened interval* (`blockchainparam.go:100`, fault `"shrink"`): a block that
  shortens `DiffInterval` and completes an interval is undone with the longer
  interval; the block count is off and `StatisticsRestored` fails.
- *Disqualified validators* (`state.go:54`, fault `"unstake"`): a rollback does
  not bring removed validators back, and `StatisticsRestored` fails.
- *Target below zero* (`blockchainparam.go:147`): after six slow intervals the
  target, 13 at first, is 254: the change is added as a byte. The run's chains
  are too short for it.

*Recovery*, for the bootstrap miner unless said otherwise

| Where | What start-up makes of it |
|---|---|
| crash while `postValidate` writes transactions of a block with AggTxs, before `WriteClosedBlock` | payments are flagged that no block holds: `NothingLost` fails |
| crash between the two writes that empty a block (`update.go:11`) | it is in both buckets and replayed twice: `NothingTwice` fails |
| the same, and a later reorganisation takes that block back | one copy is deleted; the other, without its predecessors, may be the highest block at the next start: `BlocksKept` fails without `Untorn` |
| crash between `DeleteAllLastClosedBlock` and `WriteLastClosedBlock` (`block_validation.go:421`) | a second genesis block is made: `ResumesChain` and `NothingTwice` fail |
| crash in a rollback after the transactions are deleted and before the block is | start-up fails |
| rollback of a block with an AggTx of new payments | the payments keep their flag, their next block may be emptied: `NothingLost` fails |
| rollback of a block with an AggTx of an AggTx | `NothingLost` fails, or start-up ends in a nil dereference |
| rollback of a block that aggregates plain payments of earlier blocks (`block_validation.go:316`) | the block of those payments was never stored: `NothingLost` fails |
| a prepared block with historic transactions is given up, or the process dies before it is validated (`block_aggregatetx.go:239`) | they are flagged and in no aggregate: `NothingLost` fails |

A miner that is not the bootstrap miner rebuilds its state from its peers and
survives a crash at any point. A prepared block may be lost without harm if it
aggregates new payments only: only historic transactions are flagged before the
block is validated.

*TxFetch*

- *Foreign answers* (`miner_interface.go:154`): the comment expects the stash to
  prevent "Received txHash did not correspond to our request". A block with a
  payment and an AggTx, both missing, is enough: the fetchers of payments and of
  AggTxs listen on the same channels and each may get the other's answer.
  `StashFilters` states when a foreign answer is possible.
- *Two AggTxs at start-up* (`block_aggregatetx.go:351`): the payments of the
  second AggTx replace those of the first, although the comment says that "All
  FundsTransactions are needed"; `PaymentsComplete` is therefore about
  validations.
- `fetchFundsTxRecursively` looks for an AggTx that timed out in the stash of
  payments and dereferences nil; the errors of nested calls are overwritten.
- Answers of accounts, stakes and updates are put into a stash that no time-out
  looks into; after a time-out the fetchers of accounts and updates report the
  error and go on, and report a second one.
- A late answer keeps its handler, with the mutex of the stash, until the next
  fetch of that kind. The run includes this; it delays but stops nothing.
- `prepareBlock` accepts a payment unless both its sender and its counter are
  wrong (`blockpreparation.go:152`).

*Peers*

- *Ghosts* (`services.go:22`): the disconnect of a short-lived connection may
  overtake its own registration, which is buffered; the broken connection is
  then registered for good. `RegistryExact` makes this one exception.
- *Stale entries* (`services.go:75`): the comment says the lookup is "used to get
  the newest channel for given IP+Port", but it puts the connection of the
  visited entry back into `sendingMap`, also if a newer one has taken its place.
  `Delivered` is therefore about miners that connect once.
- *Bound on miners* (`response.go:288`): the check is made before the
  registration and not at all for connections this node opens, so `MAX_MINERS`
  can be exceeded; it also refuses clients, which `configs.go` says are always
  accepted. A refused connection is neither answered nor closed. The node that
  dialled waits for the answer without a time-out (`server.go:105`), and with it
  `checkHealthService`: it looks for no other miner, `iplistChan` may fill up, and a
  reader that wants to reconnect, or a block request without a miner, waits for as
  long. `WaitsEnd` excepts these two waits.
- *Emptying the list* (`process.go:141`): the length is read, then an address is
  received; the health service may take it in between, and `mining()` waits
  until another one comes.
- *Delayed messages* (`services.go:84`): a message that is passed over because
  the channel is full stays, but the next one that is sent removes the first of
  the list: one is lost and one is sent twice.
- *Shrinking list* (`services.go:88`): the list is read without the mutex. Two
  messages are delayed, the miner connects again, broadcast 1 starts on a copy of
  the list, broadcast 2, which had read it empty, stores its own message as the
  whole list, and broadcast 1 drops two from it: the slice expression panics.
  This takes four messages, more than the run has; the model includes the panic,
  and what is proved holds with it.
- `bootstrap()` starts `peerConn` with a nil peer when its dial fails.

*VM*

- *Abandoned calls* (`block_fundstx.go:103`): `addFundsTx` copies the account but
  not the array behind `ContractVariables`, so a call changes the state while its
  block is only being prepared, and an abandoned block leaves the change.
- Not among the contracts, because the properties fail on them: `DUP` of a
  container with spare capacity followed by two appends (they share the array,
  `StackKept` fails); an append to a pushed literal or to call data (it writes
  into the contract or the transaction); malformed maps, on which
  `MapContainsKey` may loop.

## 5. Proofs

Every module states what it assumes of its constants in a named `ASSUME`, which
TLC evaluates on every run: types and, for `Chain`, that parents, heights and
ancestor sets belong together (`TreeAssumption`). The environments are constants
too: a theorem holds for every environment, those a run leaves out included.

The first part of `ChainProofs` holds for every tree, every depth of
reorganisation and every combination of faults:

- `TypeCorrect` – `TypeOK`, including the capacity of the stash;
- `NoNilDereference` – `PointersSet`. It is not inductive alone: that only the
  holder of the mutex is inside `validate` and has walk variables is part of the
  invariant.

The second part assumes `ShallowForks` (blocks more than `NO_EMPTYING_LENGTH` below a
tip are never reorganised) and speaks of the time before the first unexpected
answer, `stale = {}`. The unexpected answers and the rollback onto an emptied block
of section 4 show why.

- `StoreIsOneChain`, `TipIsPersisted` – also with rejected
  blocks, failing rollbacks, and answers that are lost, late or doubled but find
  their block in the stash or its request;
- `NeverShrinks`, `ChainImplementsLongestChain` – if no block is rejected
  (finding 1 shows why).

The inductive invariant `IInv` has five parts. `StoreInv`: `OneChain`, and the
emptied blocks together with their children are settled, which is what keeps a
rollback away from them. `TipInv`: where `lastBlock` is while it and the
database differ. `AnswerInv`: only the answer to the current request is on its
way, so the block taken off the channel is the parent asked for. `BranchInv`:
the collected branch is linked and hangs below the block under validation, and
later on the stored tip. `RollbackInv`: the blocks to roll back are the path
from the tip down to the common ancestor. For `NeverShrinks` and the refinement
`LengthInv` adds the accounting of heights: after the comparison of the lengths,
the old tip is lower than what the branch will reach. The proof has one lemma
per action, and the refinement shows that every action but the last unlock
leaves the mapped tip (`oldTip` while the mutex is held) unchanged.

- `NoBlockIsOrphaned` (`AncestorsStored`) and `BranchIsLinked`
  (`NewChainLinked`) assume nothing: forks may be of any depth,
  `NO_EMPTYING_LENGTH` may be 0, blocks may be rejected, rollbacks may fail
  anywhere, and answers may come late, twice or not at all; what an unexpected
  answer may do is part of the two properties. `OneChain`
  fails then. What is left is `DeepInv`: whatever is a tip
  (`lastBlock`, the last closed block, or the next block to roll back) is above
  every block with transactions, even while one of the three is nil or stale;
  the blocks to roll back are a path that ends in the stored ancestor; and the
  branch hangs on a stored block. The case that looks dangerous is an ancestor
  beside the path, an emptied block an earlier reorganisation has left behind.
  The search never stops at it: it would go on to the genesis block, which is
  its own parent.

`LedgerProofs` holds for all accounts, all transactions of every kind, all
balances, limits and word sizes and chains of any length. The heart is
`RollbackInverse`, about a single block: if `validateState` accepts it, then
`validateStateRollback`, applied to any state that looks like the result, gives
back what was there before. It needs no induction over the chain, but the undo
is not the mirror image of the stages: the fees of plain and of aggregated payments
are collected in one loop and given back in two, rewards and fees come off in an
order of their own, payments of root accounts issue coins first, and balances wrap.
What makes it true is that money is a group: every loop over payments adds to
each balance and counter a sum over the list, modulo `Wrap` (`Shift`), and
sums do not depend on the order. The undo of account transactions deletes
what they created and nothing else, because an accepted block never creates an
account that is there.

The theorems about `Spec` are then `LedgerInvariant`, `LedgerTypes` (`TypeOK`),
`CountersFollowChain` (`CountersMatch`), `RollbacksRestore` (`RollbackRestores`)
and `NoNilDereference`. They assume nothing of transactions and environment, but
speak of the time before the first flaw (`flaws = {}`): once a refused block has left
something behind, the counters of the accounts are no longer those of the chain; a
block that took a root key away, or a proof against an account that is no validator,
is not undone by its rollback. These are the cases of section 4 in which the code
is wrong, and after the rollback of a revoked root key an account may be missing
that is dereferenced. `CountersMatch`, `RollbackRestores` and the last part of
`TypeOK` contain that condition, so that the theorems are about the formulas that
run `ledger_rollback` checks.

The parts of `IInv`: `ChainInv` says for every block of the chain that rolling it
back leads from the accounts after it to those recorded before it (`Undoes`), and of
every recorded state that root accounts and those a proof may name exist and
that an account's counter numbers its payments in the blocks before (`Settled`).
`PreparationInv` says what the block under construction promises: its payments
are new, each in one list only, and continue every sender's counter without gap,
which `CopyInv` relates to `StateCopy`. This is what carries `CountersMatch` over
`AggregateTransactions`, which moves payments from one list to another.

A loop is `FoldLeft`, whose definition ends in a recursive function on sets that
the provers cannot unfold. `FoldFacts` proves once what is needed: a fold is the
last of a list of values each made from the one before by the step (`FoldRuns`),
and what every step keeps, the fold keeps (`FoldInvariant`). That the recursive
function exists is proved with the smallest set size for which it would not.
`INSTANCE` with the step of a loop as parameter then takes the place of the
induction theorems, which cannot be instantiated.

`StatisticsProofs` assumes no faults (no shortened interval, no disqualified
validator; section 4 shows why) and `ConfigAssumption` (types, and a lower bound
of at least 2 on the interval, which is 3 in the code). The heart is the lemma
`CollectUndone`: for sound statistics, rolling back after collecting is the
identity. Sound means that the count is below the active interval and not above
the height, that no recorded parameter set stems from a block above, and that
the ranges are contiguous; the count can then only be completed at exactly
interval minus one, which is what the rollback restores. The inductive invariant
`IInv` says that every recorded earlier state is sound and is what undoing the
next block yields; `StatisticsTypeCorrect`, `RangesStayContiguous` and
`RollbackRestoresStatistics` follow.

`PeersProofs` holds for every set of miners, clients and connections, every
finite set of messages and every environment: `PeersTypeCorrect`,
`RegistryIsExact` (`RegistryExact`), `ConnectionsStayRegistered`
(`StaysRegistered`) and `BroadcastsFindTheirMiner`, which says that a broadcast
in the middle of a map that others change meets no nil peer and sends to the
miner it looked up. `PeersAssumption` says that addresses, connections and
messages are told apart and that channels have room for at least one. The
invariant has one part per shared structure. `RegisterInv`: nothing is queued
twice, or queued and listed, and a listed connection that has ended is in the
hands of `peerService` or has overtaken its registration. That last clause is
the ghost of section 4, and is why `RegistryExact` names it. `EntryInv`: a
connected miner has an entry in `sendingMap`, and the peer of an entry is a
connection of that miner; entries are replaced but never emptied. `SenderInv`:
what a broadcast holds while it is at an entry, and that the mutex is held
exactly between its `Lock` and `Unlock`, or for ever after a panic.

`TxFetchProofs` holds for every set of transactions, blocks and plans and every
combination of lost, late and doubled answers: `TypeCorrect` (with the capacity
of stashes and channels), `FetchesWhatIsNamed` (`FetchedIsNamed`),
`CollectsAllPayments` (`PaymentsComplete`) and `ForeignNeedsCause`
(`StashFilters`). `TxFetchAssumption` says that a block lists every transaction
under its own kind and that an AggTx aggregates payments and AggTxs (`Inner`).

- The difficulty of the first two is that a report on `errChan` does not say who
  sent it, and `Collect` only counts. A goroutine may go on after an error and
  report again, so six reports without an error could come from fewer than six
  goroutines. `ReportInv` says that the reports can be attributed: there are a
  set of goroutines whose nil has been counted and an owner of each report still
  in the channel, such that whoever has strayed from the block has an error on
  its way ahead of its nil. When the count is complete, nobody is left who could
  have strayed.
- `AnswerInv` is for `StashFilters`: as long as nobody has given up waiting on a
  channel and no two have waited on it, it has at most one listener, and every
  answer under way to it is one that this listener waits for. The first attempt
  at the proof failed for `prepareBlock`, which waits on the channel of payments
  too and had not been counted in `seen.shared`.

`RecoveryProofs` holds for every number of transactions, blocks, starts and lost
requests and every environment, that is for every set of crash points:
`WalkIsContiguous`, `NoBlockIsLost` (`BlocksKept`), `ResumesWhereItStopped`
(`ResumesChain`), and `Invariance`, the inductive invariant itself.
`RecoveryAssumption` says that payments and AggTxs are different and that the
chain of the peers is a chain. The parts of `IInv`:

- `MadeInv` and `DbInv`: blocks are made in order, each on top of an earlier one,
  and what is stored, or about to be, is one of them.
- `TodoInv`: what the list of writes looks like at every point of each task.
  `Closing` is `postValidate` up to the new block, `Ending` the rest, `Reopening`
  a rollback: a write into one bucket is followed by the deletion from the other,
  and a deletion at the head of the list finds the block in the other bucket.
- `WalkInv`: the stash holds what was asked for, never a block below the one
  being asked for; so what is taken for the next block is the next one.
- `KeptInv`: there is a set of blocks that contains the tip and is closed under
  predecessors, and it is stored, but for the block being worked on.
- `GenesisInv`, `StoreInv`, `BranchInv` are about the bootstrap miner, which takes
  the highest block it finds for its tip: the genesis block stays, every stored
  block has its predecessor stored, and, if blocks are taken back, nothing is
  stored above the tip and no block is in both buckets but the one on its way.
  Without the last, the orphan of section 4 appears: the proof got stuck there
  and TLC confirmed it, which is where `Untorn` comes from.
- `SoundInv` says that at the survivable points the highest stored block is the
  tip; this strengthened `ResumesChain` from "some block of the chain" to "the
  block it stopped at".

`Path` and `FlattenSeq` are defined by recursion. What they compute is out of
reach, since no induction theorem can be instantiated, but what they stay within
is not: a set closed under predecessors holds the path of each of its members.
Such facts are proved by the smallest counterexample, an element of a set, with
`WFMin` of the library (`SmallestExists`). Heights are compared in the same way.

`VMProofs` holds for every contract and call data, every amount of gas, every
memory limit, code limit and word size: `VMTypes` (`TypeOK`), `VMMemory`
(`MemoryAccounted`), `VMGasSpent` and `VMStores`. `VMAssumption` only types the
constants and says that storing a variable is not free and that there is a
transaction to call with. The contracts are arbitrary bytes: op-codes that do
not exist, code that ends within an argument, jumps to anywhere, containers with
sizes and prefixes that disagree.

- The invariant `Machines` is about a machine in any state, failed ones included,
  because an instruction that fails after it popped its operands goes on working
  on what it has left. Every element of the stack is a slice inside the capacity
  of an allocated array, the counter is the memory of the stack (`Used`) and not
  above the limit, and the variables of every frame are big integers.
- `Follows` relates a machine to one it leads to: arrays are added and keep their
  length, gas does not grow. That is what makes a slice taken before an append, a
  push or a removal still valid after it, so that it can be composed along an
  instruction. There is one lemma for every helper and every instruction.
- `VMGasSpent` is the safety part of `RunsOutOfGas`. The other part, that an
  instruction neither panics nor hangs, is false for malformed containers
  (section 4) and is model-checked for well-formed ones. Here the theorem says
  that a call of fee f executes at most f + 1 instructions.
- `VMStores` is `CallIsAtomic`. It is about variables only: the code of the contract
  may change, since an append to a pushed literal writes into it (section 4).

Loops of the machine are `Turns`, a fold, so `FoldFacts` applies. The proof found
two places where the model was undefined for contracts the run does not have:
`goToIndex` adds to a `uint16` before it slices, which wraps and then panics
for an element at the end of 64 KiB, and the size of an array of fewer than
three bytes does not exist. Both now do what the code does.

### Only model-checked

- The liveness properties `Adopted`, `Resumes`, `Returns`, `Delivered` and
  `WaitsEnd`: liveness under fairness is out of the prover's reach.
- `NothingLost`, `NothingTwice`: they count how often a payment is applied by a
  replay, a fold over sequences of blocks and AggTxs within AggTxs.
- `SupplyAccounted`: a sum over all accounts.
- `UnchangedOnError`: which of seven stages failed, and how far it got.
- `StackKept`, `MapsMatch`, `ArraysMatch`: what instructions compute on byte
  sequences, and only without shared spare capacity and malformed containers
  (section 4).
- `RunsOutOfGas` beyond `VMGasSpent`: false in general, as said above.

Worth proving next, in this order: `UnchangedOnError`, stage by stage, from the
lemmas of `RollbackInverse`; `StackKept` from a condition on the stack that no
two elements share spare capacity; `SupplyAccounted` from the sums that `Shift`
already speaks of.

## 6. Not modelled

- *Update transactions* rewrite closed transactions and blocks in place, and
  `processBlock` replaces such a block without the mutex; only fetching them is
  modelled. Their core is the collision of a chameleon hash, arithmetic on big
  numbers.
- *Slashing*: `Ledger` has the effect of a proof. The search for two blocks of
  one validator on different branches and its check are left out.
- *System time*: the median of the peers' clocks; the even case of the code
  averages the elements n/2 and n/2+1.
- *Mempool*: `checkBestCombination` and the search for missing counters are a
  nondeterministic choice of transactions.
- *The hash condition* of `proofOfStake`, and the check of previous proofs.
- Encodings, hashes and Merkle trees (blocks and transactions are identified
  with their hashes), cryptographic primitives (a signature is an attribute of a
  transaction), the command line, logging.
