------------------------------ MODULE Recovery ------------------------------
(***************************************************************************)
(* The database of a miner, crashes, and start-up.                         *)
(*                                                                         *)
(* The account state lives in memory only.  What a miner keeps on disk is  *)
(* its blocks, its transactions and the last closed block (storage/*.go),  *)
(* and every write is a bolt transaction of its own, so that a crash may   *)
(* fall between any two of them.  Start-up rebuilds the state: the         *)
(* bootstrap miner replays the blocks of its database, any other miner     *)
(* walks the chain of its peers back to the genesis block and replays it   *)
(* (miner/state.go, initState).                                            *)
(*                                                                         *)
(* Of the account state the model keeps how often the effect of each       *)
(* payment and the reward of each block is in it.  A transaction stands    *)
(* for its hash, a block's number for both of its hashes; 0 is the genesis *)
(* block.  Transactions other than payments and their aggregations are     *)
(* left out: they are stored like plain payments and never emptied away.   *)
(***************************************************************************)
EXTENDS Integers, Sequences, FiniteSets, SequencesExt, FiniteSetsExt

CONSTANTS
    Payments,     \* FundsTx
    AggTxs,       \* AggTx
    None,         \* no block
    MaxBlocks,    \* bound: blocks there will ever be, without the genesis block
    Lag,          \* NO_EMPTYING_LENGTH (100)
    MaxTx,        \* bound: transactions in a block
    MaxStarts,    \* bound: starts of the process
    MaxLost,      \* bound: requests of the walk that get no answer
    Environments  \* the environments to explore, see Environment

Txs == Payments \cup AggTxs
Blocks == 0..MaxBlocks

\* The writes to the database, by the storage function that performs them.
Ops == {"WriteClosedTx", "DeleteClosedTx", "WriteClosedBlock",
        "DeleteClosedBlock", "WriteClosedBlockWithoutTx",
        "DeleteClosedBlockWithoutTx", "DeleteAllLastClosedBlock",
        "WriteLastClosedBlock"}
Tasks == {"down", "walk", "replay", "idle", "genesis", "postValidate",
          "postValidateRollback", "prepare", "failed"}

\* A block: height, predecessor, FundsTxData, AggTxData, the sum of NrFundsTx
\* and NrAggTx, and the flag Aggregated.
Block == [height : Nat, prev : Blocks, funds : SUBSET Payments,
          aggs : SUBSET AggTxs, nr : Nat, aggregated : BOOLEAN]

\* What the environment may do.
\*   crash     where the process may die: the task and its next write
\*   aggregate what an AggTx may hold: payments that are new with it, plain
\*             payments of earlier blocks, AggTxs of earlier blocks
\*   rollback  a reorganisation may take back the last block
\*   prepare   the miner prepares blocks itself
\*   abandon   another miner's block may arrive before the prepared one is done
\*   peer      the chain of the peers, block 1 first; a miner without peers is
\*             the bootstrap miner
\*   members   AggregatedTxSlice of the AggTxs
Environment ==
    [crash : SUBSET (Tasks \X (Ops \cup {"-"})),
     aggregate : SUBSET {"new", "funds", "agg"},
     rollback : BOOLEAN, prepare : BOOLEAN, abandon : BOOLEAN,
     peer : Seq(Block), members : [AggTxs -> SUBSET Txs]]

ASSUME RecoveryAssumption ==
    /\ Payments \cap AggTxs = {}
    /\ IsFiniteSet(Txs)
    /\ {MaxBlocks, Lag, MaxTx, MaxStarts, MaxLost} \subseteq Nat
    /\ None \notin Nat \cup Block
    /\ Environments \subseteq Environment
    /\ \A env \in Environments :
          /\ Len(env.peer) <= MaxBlocks
          /\ \A i \in 1..Len(env.peer) : env.peer[i].height = i /\ env.peer[i].prev = i - 1

VARIABLES
    env,      \* the environment, chosen once
    db,       \* the database
    mem,      \* state and mempool; lost in a crash
    tip,      \* lastBlock; after a crash, what it was before it
    task,     \* what the process is doing
    todo,     \* the writes of the task that are left
    cur,      \* the block the task is about; after a crash, the one it was about
    prepared, \* the block mining() works on, or None
    walk,     \* the walk of initState along the peers' chain
    made,     \* every block ever made, as it was made
    starts    \* starts so far

vars == <<env, db, mem, tip, task, todo, cur, prepared, walk, made, starts>>

NoTx == [closed |-> FALSE, aggregated |-> FALSE, block |-> None]
Genesis == [height |-> 0, prev |-> 0, funds |-> {}, aggs |-> {}, nr |-> 0,
            aggregated |-> FALSE]
NoEffect == [applied |-> [p \in Payments |-> 0], rewards |-> [b \in Blocks |-> 0],
             pool |-> [t \in Txs |-> NoTx]]
NoWalk == [last |-> None, list |-> <<>>, net |-> {}, chan |-> None, stash |-> <<>>,
           lost |-> 0]

bootstrap == env.peer = <<>>

Init ==
    /\ env \in Environments
    /\ db = [closed |-> [b \in Blocks |-> None], without |-> [b \in Blocks |-> None],
             last |-> {}, tx |-> [t \in Txs |-> NoTx]]
    /\ mem = NoEffect
    /\ tip = 0
    /\ task = "down"
    /\ todo = <<>>
    /\ cur = 0
    /\ prepared = None
    /\ walk = NoWalk
    /\ made = [b \in Blocks |-> IF b = 0 THEN Genesis
                                ELSE IF b <= Len(env.peer) THEN env.peer[b] ELSE None]
    /\ starts = 0

----------------------------------------------------------------------------
(* The storage package.                                                    *)

WriteClosedTx(t, as) == [op |-> "WriteClosedTx", tx |-> t, as |-> as]
DeleteClosedTx(t) == [op |-> "DeleteClosedTx", tx |-> t]
WriteClosedBlock(b, c) == [op |-> "WriteClosedBlock", block |-> b, as |-> c]
DeleteClosedBlock(b) == [op |-> "DeleteClosedBlock", block |-> b]
WriteClosedBlockWithoutTx(b, c) ==
    [op |-> "WriteClosedBlockWithoutTx", block |-> b, as |-> c]
DeleteClosedBlockWithoutTx(b) == [op |-> "DeleteClosedBlockWithoutTx", block |-> b]
DeleteAllLastClosedBlock == [op |-> "DeleteAllLastClosedBlock"]
WriteLastClosedBlock(b) == [op |-> "WriteLastClosedBlock", block |-> b]

\* One bolt transaction.
Update(d, w) ==
    CASE w.op = "WriteClosedTx" -> [d EXCEPT !.tx[w.tx] = w.as]
      [] w.op = "DeleteClosedTx" -> [d EXCEPT !.tx[w.tx] = NoTx]
      [] w.op = "WriteClosedBlock" -> [d EXCEPT !.closed[w.block] = w.as]
      [] w.op = "DeleteClosedBlock" -> [d EXCEPT !.closed[w.block] = None]
      [] w.op = "WriteClosedBlockWithoutTx" -> [d EXCEPT !.without[w.block] = w.as]
      [] w.op = "DeleteClosedBlockWithoutTx" -> [d EXCEPT !.without[w.block] = None]
      [] w.op = "DeleteAllLastClosedBlock" -> [d EXCEPT !.last = {}]
      [] w.op = "WriteLastClosedBlock" -> [d EXCEPT !.last = @ \cup {w.block}]

\* The blocks of both buckets; none at all if there is no last closed block.  A
\* block that is in both is read twice.
ReadAllClosedBlocks(d) ==
    LET Stored(bucket) == {b \in Blocks : bucket[b] # None}
    IN  IF d.last = {} THEN {}
        ELSE {[id |-> b, c |-> d.closed[b], from |-> "closed"] : b \in Stored(d.closed)}
             \cup {[id |-> b, c |-> d.without[b], from |-> "without"] : b \in Stored(d.without)}

\* Mutant: forgets that AggTxs must be aggregated, too.
PaymentsAggregated(d, c) ==
    \/ c.nr = 0
    \/ \A t \in c.funds : d.tx[t].closed /\ d.tx[t].aggregated

BlockReadyToAggregate(d, c) ==
    \/ c.nr = 0
    \/ \A t \in c.funds \cup c.aggs : d.tx[t].closed /\ d.tx[t].aggregated

\* A block without transactions keeps its data as it is.
Emptied(c) ==
    IF c.nr = 0 THEN [c EXCEPT !.aggregated = TRUE]
    ELSE [c EXCEPT !.aggregated = TRUE, !.funds = {}, !.aggs = {}, !.nr = 0]

\* Mutant: the block is deleted from its old bucket first.
DeleteFirst(b, c) ==
    <<DeleteClosedBlock(b), WriteClosedBlockWithoutTx(b, Emptied(c))>>

UpdateBlocksToBlocksWithoutTx(b, c) ==
    <<WriteClosedBlockWithoutTx(b, Emptied(c)), DeleteClosedBlock(b)>>

----------------------------------------------------------------------------
(* Blocks and payments.                                                    *)

\* The payments an AggTx stands for, through the AggTxs it holds
\* (fetchFundsTxRecursively).
Leaves(a) ==
    LET level[n \in 0..Cardinality(AggTxs)] ==
            IF n = 0 THEN env.members[a]
            ELSE UNION {env.members[x] : x \in level[n - 1] \cap AggTxs}
    IN  UNION {level[n] : n \in 0..Cardinality(AggTxs)}

Bump(f, S, n) == [x \in DOMAIN f |-> IF x \in S THEN f[x] + n ELSE f[x]]

\* A transaction as validation holds it: from closed storage, from the mempool,
\* or fresh from a client.
Held(d, t) == [IF d.tx[t].closed THEN d.tx[t] ELSE mem.pool[t] EXCEPT !.closed = TRUE]

\* The blocks from the genesis block to b, as they were made.
Path(b) ==
    LET before[n \in Nat] == IF n = 0 THEN b ELSE made[before[n - 1]].prev
    IN  {before[n] : n \in 0..made[b].height}

\* The payments that are in effect if the chain ends in b.
InEffect(b) ==
    UNION {made[x].funds \cup UNION {Leaves(a) \cap Payments : a \in made[x].aggs} : x \in Path(b)}

----------------------------------------------------------------------------
(* postValidate.                                                           *)

\* Mutant: stores the AggTxs without the payments that are new with them.
WithoutMembers(b, c, initialSetup) ==
    LET txs == SetToSeq(c.funds \cup c.aggs)
    IN  [i \in 1..Len(txs) |-> WriteClosedTx(txs[i],
            [Held(db, txs[i]) EXCEPT !.block = IF txs[i] \in AggTxs THEN b ELSE @])]

\* Every transaction of the block goes to closed storage.  A plain payment is
\* written before its Block is set; a payment that is new with an AggTx after.
ClosingWrites(b, c, initialSetup) ==
    LET plain == [i \in 1..Cardinality(c.funds) |->
                    LET p == SetToSeq(c.funds)[i] IN WriteClosedTx(p, Held(db, p))]
        Below(a) == SetToSeq(IF initialSetup /\ ~Held(db, a).aggregated THEN Leaves(a) \cap Payments ELSE {})
        fetched(a) == [i \in 1..Len(Below(a)) |->
                         WriteClosedTx(Below(a)[i], [Held(db, Below(a)[i]) EXCEPT !.aggregated = TRUE])]
        Known(a, m) == db.tx[m].closed \/ \E i \in 1..Len(Below(a)) : Below(a)[i] = m
        Member(a, m) == WriteClosedTx(m, [Held(db, m) EXCEPT !.aggregated = TRUE,
                                             !.block = IF m \in AggTxs \/ Known(a, m) THEN @ ELSE b])
        Of(a) == fetched(a)
                   \o [i \in 1..Cardinality(env.members[a]) |-> Member(a, SetToSeq(env.members[a])[i])]
                   \o <<WriteClosedTx(a, [closed |-> TRUE, aggregated |-> FALSE, block |-> b])>>
    IN  plain \o FlattenSeq([i \in 1..Cardinality(c.aggs) |-> Of(SetToSeq(c.aggs)[i])])

\* Mutant: the last closed block is deleted before old blocks are emptied.
LastFirst(d, b, c) ==
    LET old == SetToSeq({x \in ReadAllClosedBlocks(d) : /\ ~x.c.aggregated
                                                        /\ x.c.height > 0
                                                        /\ x.c.height < c.height - Lag
                                                        /\ BlockReadyToAggregate(d, x.c)})
    IN  <<DeleteAllLastClosedBlock>>
          \o FlattenSeq([i \in 1..Len(old) |-> UpdateBlocksToBlocksWithoutTx(old[i].id, old[i].c)])
          \o <<WriteLastClosedBlock(b)>>

\* All blocks that are old enough and whose transactions are aggregated lose
\* their transactions, then the last closed block is replaced.
\* Blocks are taken in the order of their heights.
EndingWrites(d, b, c) ==
    LET old == {x \in ReadAllClosedBlocks(d) : /\ ~x.c.aggregated
                                               /\ x.c.height > 0
                                               /\ x.c.height < c.height - Lag
                                               /\ BlockReadyToAggregate(d, x.c)}
        At(h) == SetToSeq({x \in old : x.c.height = h})
        Empty(xs) == FlattenSeq([i \in 1..Len(xs) |-> UpdateBlocksToBlocksWithoutTx(xs[i].id, xs[i].c)])
    IN  FlattenSeq([h \in 1..MaxBlocks |-> Empty(At(h))])
          \o <<DeleteAllLastClosedBlock, WriteLastClosedBlock(b)>>

postValidate(b, c, initialSetup) ==
    /\ task' = "postValidate"
    /\ todo' = Append(ClosingWrites(b, c, initialSetup), WriteClosedBlock(b, c))
    /\ cur' = b
    /\ tip' = b

----------------------------------------------------------------------------
(* Validating a new block.                                                 *)

Fresh == {p \in Payments : ~db.tx[p].closed}

\* Transactions an AggTx made now can take from earlier blocks: those of the
\* closed blocks that are not aggregated yet (searchTransactionsInHistoricBlocks).
Historic ==
    {t \in Txs :
        /\ (IF t \in Payments THEN "funds" ELSE "agg") \in env.aggregate
        /\ db.tx[t].closed
        /\ ~db.tx[t].aggregated
        /\ \E b \in Blocks : db.closed[b] # None /\ t \in db.closed[b].funds \cup db.closed[b].aggs}

\* What AggregateTransactions can make on top of the chain: blocks with plain
\* payments that are not in the chain yet, or with an AggTx whose members are
\* new or historic.
Candidates ==
    LET new == Payments \ InEffect(tip)
        Aggregates(a) == /\ "new" \in env.aggregate
                         /\ \A b \in Path(tip) : a \notin made[b].aggs
                         /\ env.members[a] \subseteq new \cup Historic
                         /\ env.members[a] \cap new # {}
    IN  {[height |-> made[tip].height + 1, prev |-> tip, funds |-> x[1], aggs |-> x[2],
          nr |-> Cardinality(x[1]) + Cardinality(x[2]), aggregated |-> FALSE] :
            x \in {y \in (SUBSET new) \X (SUBSET {a \in AggTxs : Aggregates(a)}) :
                /\ Cardinality(y[1]) + Cardinality(y[2]) <= MaxTx
                /\ Cardinality(y[2]) <= 1
                /\ \A a \in y[2] : env.members[a] \cap y[1] = {}}}

\* A block is refused if it names a transaction that closed storage holds.
Acceptable(c) ==
    /\ c.prev = tip
    /\ \A t \in c.funds \cup c.aggs : ~db.tx[t].closed

NextBlock == {b \in Blocks : made[b] = None}

\* validate for a block on top of the chain whose transactions are at hand: the
\* payments that are not in closed storage yet take effect.
validate(b, c) ==
    /\ mem' = [mem EXCEPT
           !.applied = Bump(@, c.funds \cup (Fresh \cap UNION {env.members[a] : a \in c.aggs}), 1),
           !.rewards = Bump(@, {b}, 1)]
    /\ made' = [made EXCEPT ![b] = c]
    /\ postValidate(b, c, FALSE)

\* Another miner's block arrives.
Receive ==
    /\ task = "idle"
    /\ bootstrap
    /\ NextBlock # {}
    /\ prepared # None => env.abandon
    /\ \E c \in Candidates : Acceptable(c) /\ validate(Min(NextBlock), c)
    /\ UNCHANGED <<env, db, prepared, walk, starts>>

\* prepareBlock marks the historic transactions it takes as aggregated, in
\* closed storage, before the block is mined.
prepareBlock ==
    /\ task = "idle"
    /\ env.prepare
    /\ prepared = None
    /\ NextBlock # {}
    /\ \E c \in Candidates :
          /\ c.nr > 0
          /\ Acceptable(c)
          /\ prepared' = c
          /\ LET taken == SetToSeq((UNION {env.members[a] : a \in c.aggs}) \cap Historic)
             IN  todo' = [i \in 1..Len(taken) |->
                            WriteClosedTx(taken[i], [db.tx[taken[i]] EXCEPT !.aggregated = TRUE])]
    /\ task' = IF todo' = <<>> THEN "idle" ELSE "prepare"
    /\ UNCHANGED <<env, db, mem, tip, cur, walk, made, starts>>

\* The mined block is validated, unless the chain has moved on.
Mine ==
    /\ task = "idle"
    /\ prepared # None
    /\ NextBlock # {}
    /\ prepared' = None
    /\ IF Acceptable(prepared)
       THEN validate(Min(NextBlock), prepared)
       ELSE UNCHANGED <<mem, made, task, todo, cur, tip>>
    /\ UNCHANGED <<env, db, walk, starts>>

----------------------------------------------------------------------------
(* Rolling a block back.                                                   *)

\* The closed transactions that carry block b, put back into an emptied block.
\* NrFundsTx and NrAggTx stay as they are.
Refilled(b, c) ==
    LET of == {t \in Txs : db.tx[t].closed /\ db.tx[t].block = b}
    IN  [c EXCEPT !.aggregated = FALSE, !.funds = @ \cup (of \cap Payments),
                  !.aggs = @ \cup (of \cap AggTxs)]

\* The i-th of the historic transactions ms becomes visible again; the first of
\* a block that was emptied restores that block.
reactivateHistoricBlockDueToRollback(ms, i) ==
    LET home(j) == db.tx[ms[j]].block
    IN  <<WriteClosedTx(ms[i], [db.tx[ms[i]] EXCEPT !.aggregated = FALSE])>>
          \o IF \/ home(i) = None
                \/ home(i) # None /\ db.without[home(i)] = None
                \/ \E j \in 1..(i - 1) : home(j) = home(i)
             THEN <<>>
             ELSE <<WriteClosedBlock(home(i), Refilled(home(i), db.without[home(i)])),
                    DeleteClosedBlockWithoutTx(home(i))>>

\* The last block is rolled back, by a reorganisation.  Bound: no deeper than
\* the blocks that are not emptied.
rollback ==
    /\ task = "idle"
    /\ env.rollback
    /\ tip # 0
    /\ LET b == tip
           c == db.closed[tip]
           held == UNION {env.members[a] : a \in c.aggs}
           own == {m \in held : db.tx[m].closed /\ db.tx[m].block = b}
           old == SetToSeq({m \in held : db.tx[m].closed /\ db.tx[m].block # b})
           gone == SetToSeq(c.funds \cup own \cup c.aggs)
       IN  /\ c # None
           /\ db.closed[c.prev] # None
           /\ \A t \in c.funds \cup c.aggs : db.tx[t].closed
           /\ mem' = [mem EXCEPT
                  !.applied = Bump(@, c.funds \cup (own \cap Payments), -1),
                  !.rewards = Bump(@, {b}, -1),
                  !.pool = [t \in Txs |-> IF t \in c.funds \cup own \cup c.aggs
                                          THEN [db.tx[t] EXCEPT !.closed = FALSE] ELSE @[t]]]
           /\ todo' = FlattenSeq([i \in 1..Len(old) |-> reactivateHistoricBlockDueToRollback(old, i)])
                         \o [i \in 1..Len(gone) |-> DeleteClosedTx(gone[i])]
                         \o <<DeleteClosedBlock(b), DeleteAllLastClosedBlock,
                              WriteLastClosedBlock(c.prev)>>
           /\ task' = "postValidateRollback"
           /\ cur' = b
           /\ tip' = c.prev
    /\ UNCHANGED <<env, db, prepared, walk, made, starts>>

----------------------------------------------------------------------------
(* Start-up.                                                               *)

\* The replay finds what it needs: the transactions of the block and, of an
\* AggTx that is not aggregated itself, all below it; and the slices it makes
\* from NrFundsTx and NrAggTx hold them.
CanReplay(d, c) ==
    /\ c.funds \cup c.aggs # {} => c.nr > 0
    /\ \A t \in c.funds \cup c.aggs : d.tx[t].closed
    /\ \A a \in c.aggs : ~d.tx[a].aggregated => \A t \in Leaves(a) : d.tx[t].closed

\* Mutant: AggTxs that are aggregated themselves are replayed as well.
ReplaysAll(d, c, p) ==
    (IF p \in c.funds THEN 1 ELSE 0) + Cardinality({a \in c.aggs : p \in Leaves(a)})

\* The payments a replay of the block applies, closed or not.
Replays(d, c, p) ==
    (IF p \in c.funds THEN 1 ELSE 0)
      + Cardinality({a \in c.aggs : ~d.tx[a].aggregated /\ p \in Leaves(a)})

Highest(S) == CHOOSE x \in S : \A y \in S : y.c.height <= x.c.height

\* initState of the bootstrap miner: all blocks of the database are replayed,
\* nothing is written; without a last closed block it starts a new chain.  A
\* transaction that is missing cannot be fetched from anywhere.
initState ==
    /\ task = "down"
    /\ starts < MaxStarts
    /\ starts' = starts + 1
    /\ bootstrap
    /\ LET read == ReadAllClosedBlocks(db)
       IN  \/ /\ read = {}
              /\ todo' = <<WriteLastClosedBlock(0), WriteClosedBlock(0, Genesis)>>
              /\ task' = "genesis"
              /\ tip' = 0
              /\ UNCHANGED mem
           \/ /\ read # {}
              /\ \A x \in read : CanReplay(db, x.c)
              /\ mem' = [mem EXCEPT
                     !.applied = [p \in Payments |-> MapThenSumSet(LAMBDA x : Replays(db, x.c, p), read)],
                     !.rewards = [b \in Blocks |-> Cardinality({x \in read : x.id = b /\ b # 0})]]
              /\ task' = "idle"
              /\ tip' = Highest(read).id
              /\ UNCHANGED todo
           \/ /\ \E x \in read : ~CanReplay(db, x.c)
              /\ task' = "failed"
              /\ UNCHANGED <<mem, todo, tip>>
    /\ UNCHANGED <<env, db, cur, prepared, walk, made>>

\* initState of any other miner: LastBlockReq asks one miner for its last block.
StartWalk ==
    /\ task = "down"
    /\ starts < MaxStarts
    /\ starts' = starts + 1
    /\ ~bootstrap
    /\ walk' = [walk EXCEPT !.net = {Len(env.peer)}]
    /\ task' = "walk"
    /\ UNCHANGED <<env, db, mem, tip, todo, cur, prepared, made>>

\* The block the walk waits for.
Asked == IF walk.last = None THEN Len(env.peer) ELSE made[walk.last].prev

\* forwardBlockReqToMiner: any miner that was asked, now or earlier, answers;
\* a block that is in the stash goes no further.  The handler then waits on the
\* unbuffered BlockReqChan and keeps the other handlers out.
PeerAnswers ==
    /\ task = "walk"
    /\ walk.chan = None
    /\ \E b \in walk.net \ ToSet(walk.stash) :
          walk' = [walk EXCEPT !.stash = Append(@, b), !.chan = b]
    /\ UNCHANGED <<env, db, mem, tip, task, todo, cur, prepared, made, starts>>

\* A request or its answer is lost.  Bound: not that of the last start.
Lose ==
    /\ task = "walk"
    /\ walk.lost < MaxLost
    /\ walk.last = None => starts < MaxStarts
    /\ \E b \in walk.net : walk' = [walk EXCEPT !.net = @ \ {b}, !.lost = @ + 1]
    /\ UNCHANGED <<env, db, mem, tip, task, todo, cur, prepared, made, starts>>

\* Mutant: notes a block again that it took from the stash before.
NotesAgain(b, w) ==
    LET first == w.last = None
    IN  /\ todo' = IF first
                   THEN <<WriteClosedBlock(b, made[b]), WriteLastClosedBlock(b)>>
                   ELSE <<WriteClosedBlock(b, made[b])>>
        /\ walk' = [w EXCEPT !.last = b, !.list = Append(@, b),
                             !.net = IF ~first /\ b = 0 THEN {} ELSE @ \cup {made[b].prev}]

\* The walk continues from block b: it is stored, noted unless it was noted just
\* before, and its predecessor asked for, until the genesis block is reached.
ContinueFrom(b, w) ==
    LET first == w.last = None
        done == ~first /\ b = 0
    IN  /\ todo' = IF first
                   THEN <<WriteClosedBlock(b, made[b]), WriteLastClosedBlock(b)>>
                   ELSE IF made[b].aggregated THEN <<WriteClosedBlockWithoutTx(b, made[b])>>
                   ELSE <<WriteClosedBlock(b, made[b])>>
        /\ walk' = [w EXCEPT !.last = b,
                             !.list = IF @ # <<>> /\ Last(@) = b THEN @ ELSE Append(@, b),
                             !.net = IF done THEN {} ELSE @ \cup {made[b].prev}]

TakeAnswer ==
    /\ task = "walk"
    /\ todo = <<>>
    /\ walk.chan # None
    /\ ContinueFrom(walk.chan, [walk EXCEPT !.chan = None])
    /\ UNCHANGED <<env, db, mem, tip, task, cur, prepared, made, starts>>

\* After BLOCKFETCH_TIMEOUT the stash is searched; the request is repeated if
\* the block is not there.
TimeOut ==
    /\ task = "walk"
    /\ todo = <<>>
    /\ walk.last # None
    /\ IF Asked \in ToSet(walk.stash)
       THEN ContinueFrom(Asked, walk)
       ELSE walk' = [walk EXCEPT !.net = @ \cup {Asked}] /\ UNCHANGED todo
    /\ UNCHANGED <<env, db, mem, tip, task, cur, prepared, made, starts>>

\* No last block within BLOCKFETCH_TIMEOUT: Init returns.
GiveUp ==
    /\ task = "walk"
    /\ walk.last = None
    /\ walk.chan = None
    /\ walk.net = {}
    /\ task' = "down"
    /\ UNCHANGED <<env, db, mem, tip, todo, cur, prepared, walk, made, starts>>

\* The blocks of the walk are validated, the genesis block first, and written
\* once more.  Missing transactions come from the peers.
Replay ==
    /\ task = "replay"
    /\ walk.list # <<>>
    /\ LET b == Last(walk.list)
           c == made[b]
       IN  /\ mem' = IF b = 0 THEN mem
                     ELSE [mem EXCEPT !.applied = [p \in Payments |-> @[p] + Replays(db, c, p)],
                                      !.rewards = Bump(@, {b}, 1)]
           /\ postValidate(b, c, TRUE)
    /\ walk' = [walk EXCEPT !.list = Front(@)]
    /\ UNCHANGED <<env, db, prepared, made, starts>>

----------------------------------------------------------------------------
(* Writes and crashes.                                                     *)

\* What follows when a task has written all it had to write.
Done ==
    CASE task = "walk" /\ walk.last = 0 -> "replay"
      [] task = "walk" /\ walk.last # 0 -> "walk"
      [] task = "postValidate" /\ walk.list # <<>> -> "replay"
      [] OTHER -> "idle"

\* The next bolt transaction.  postValidate decides which blocks to empty when
\* the new block is in the database.
Write ==
    /\ todo # <<>>
    /\ db' = Update(db, Head(todo))
    /\ LET closing == task = "postValidate" /\ Head(todo).op = "WriteClosedBlock"
       IN  /\ todo' = IF closing THEN EndingWrites(db', cur, made[cur]) ELSE Tail(todo)
           /\ task' = IF todo' = <<>> THEN Done ELSE task
    /\ UNCHANGED <<env, mem, tip, cur, prepared, walk, made, starts>>

\* Where the process is: its task and the write it does next.
Point ==
    IF todo # <<>> THEN <<task, Head(todo).op>>
    ELSE IF prepared # None THEN <<"prepare", "-">> ELSE <<task, "-">>

Crash ==
    /\ task \notin {"down", "failed"}
    /\ starts < MaxStarts
    /\ Point \in env.crash
    /\ mem' = NoEffect
    /\ task' = "down"
    /\ todo' = <<>>
    /\ cur' = IF task = "idle" THEN None ELSE cur
    /\ prepared' = None
    /\ walk' = [NoWalk EXCEPT !.lost = walk.lost]
    /\ UNCHANGED <<env, db, tip, made, starts>>

----------------------------------------------------------------------------
StartUp == initState \/ StartWalk \/ PeerAnswers \/ TakeAnswer \/ TimeOut \/ GiveUp \/ Replay
Work == Receive \/ prepareBlock \/ Mine \/ rollback

Next == StartUp \/ Work \/ Write \/ Lose \/ Crash

\* A started process goes on, and a request that is repeated gets an answer.
Spec == Init /\ [][Next]_vars /\ WF_vars(StartUp) /\ WF_vars(Write)

----------------------------------------------------------------------------
(* Properties.                                                             *)

\* The points where the bootstrap miner may die without harm: between tasks,
\* before a block is emptied, and when all but the last closed block is written.
Survivable ==
    {<<"idle", "-">>, <<"genesis", "WriteLastClosedBlock">>,
     <<"genesis", "WriteClosedBlock">>,
     <<"postValidate", "WriteClosedBlockWithoutTx">>,
     <<"postValidate", "DeleteAllLastClosedBlock">>,
     <<"postValidateRollback", "DeleteAllLastClosedBlock">>}

\* The circumstances under which start-up is right: the bootstrap miner dies
\* nowhere else, blocks with AggTxs are not rolled back, and a prepared block
\* that aggregates earlier transactions is not lost, by a crash or because
\* another miner's block comes first.
Sound ==
    /\ bootstrap => env.crash \subseteq Survivable
                      \cup (IF env.aggregate \subseteq {"new"} THEN {<<"prepare", "-">>} ELSE {})
    /\ env.rollback => env.aggregate = {}
    /\ env.abandon => env.aggregate \subseteq {"new"}

\* Dying between the two writes that move a block leaves it in both buckets.  A
\* rollback of that block later deletes one copy only, and the other, an orphan,
\* may be the highest block that the next start of the bootstrap miner finds.
Torn == {<<"postValidate", "DeleteClosedBlock">>,
         <<"postValidateRollback", "DeleteClosedBlockWithoutTx">>}
Untorn == bootstrap /\ env.rollback => env.crash \cap Torn = {}

\* Wherever the process dies, every block of its chain other than the one it
\* was working on is in one of the two buckets: a block changes buckets by being
\* written to the one before it is deleted from the other (storage/update.go,
\* reactivateHistoricBlockDueToRollback), and start-up chooses a tip all of
\* whose ancestors are there.
BlocksKept ==
    Untorn => \A b \in Path(tip) \ (IF task = "idle" THEN {} ELSE {cur}) :
                  db.closed[b] # None \/ db.without[b] # None

\* A miner at work has every payment of its chain in its state and was paid for
\* every block, also after a restart that found some of the blocks emptied and
\* their payments only below the AggTxs of later blocks (initState, postValidate).
NothingLost ==
    Sound /\ task = "idle" =>
        /\ \A p \in InEffect(tip) : mem.applied[p] >= 1
        /\ \A b \in Path(tip) \ {0} : mem.rewards[b] >= 1

\* And none of them twice, provided no AggTx takes plain payments from earlier
\* blocks: AggTxs that are aggregated themselves are skipped by the replay.
NothingTwice ==
    Sound /\ task = "idle" /\ "funds" \notin env.aggregate =>
        /\ \A p \in Payments : mem.applied[p] <= IF p \in InEffect(tip) THEN 1 ELSE 0
        /\ \A b \in Blocks : mem.rewards[b] <= IF b \in Path(tip) \ {0} THEN 1 ELSE 0

\* The comment in fundsStateChange: "In the end it should match the wanted state."
MatchesWantedState ==
    Sound /\ task = "idle" =>
        \A p \in Payments : mem.applied[p] = IF p \in InEffect(tip) THEN 1 ELSE 0

\* The walk of initState notes a chain: every block is followed by its
\* predecessor, whatever the order in which answers come, time out and are
\* taken from the stash.
WalkContiguous ==
    \A i \in 1..(Len(walk.list) - 1) : made[walk.list[i]].prev = walk.list[i + 1]

\* A miner resumes with the block it stopped at: the highest block of its
\* database, in which no rejected or rolled back block is left (initState).
ResumesChain ==
    [][Sound /\ bootstrap /\ task = "down" /\ task' \in {"idle", "genesis"} =>
          tip' = tip]_vars

\* A miner that went down is at work again, after finitely many crashes.
Resumes == Sound => (task = "down" ~> task = "idle")

=============================================================================
