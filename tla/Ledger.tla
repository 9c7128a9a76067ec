------------------------------- MODULE Ledger -------------------------------
(***************************************************************************)
(* The account state and the transactions that change it: how a miner      *)
(* builds a block from open transactions (addTx on a copy of the state,    *)
(* then aggregation into groups), how validateState applies the block to   *)
(* the accounts and undoes it when a stage fails, and how a validated      *)
(* block is rolled back.                                                   *)
(*                                                                         *)
(* Every block comes from the block preparation of an honest miner.        *)
(* Signatures are an attribute of the transaction (signer); money is       *)
(* unsigned and wraps at Wrap.  Aggregation of transactions of older       *)
(* blocks changes no account and is left out, as are parameter changes:    *)
(* a config transaction only pays its fee here.                            *)
(***************************************************************************)
EXTENDS Integers, Sequences, SequencesExt, FiniteSetsExt

CONSTANTS
    Account,          \* account hashes
    Tx,               \* the transactions users may issue, see TxOK
    InitAcc,          \* accounts in the state after the last known block
    InitRoot,         \* RootKeys after the last known block
    Miners,           \* validators whose blocks this node sees
    Slashable,        \* addresses some slashing proof exists for
    MaxHeight,        \* bound on the number of blocks
    MaxMoney,         \* MAX_MONEY
    Wrap,             \* stands for 2^64
    FeeMinimum, BlockReward, SlashReward, StakingMinimum, WaitingMinimum,
                      \* activeParameters
    MinStaking,       \* MIN_STAKING_MINIMUM
    Nil               \* a missing account, no address

(* The fields of each kind of transaction that the code below reads.       *)
FundsOK(t) == /\ t.kind = "funds" /\ {t.from, t.to} \subseteq Account
              /\ t.amount \in Nat /\ t.fee \in Nat /\ t.cnt \in Nat
AccOK(t)   == /\ t.kind = "acc" /\ {t.acc, t.signer} \subseteq Account
              /\ t.header \in {0, 1, 2} /\ t.fee \in Nat
StakeOK(t) == t.kind = "stake" /\ t.acc \in Account /\ t.staking \in BOOLEAN /\ t.fee \in Nat
ConfigOK(t) == t.kind = "config" /\ t.signer \in Account /\ t.fee \in Nat

(* An account of storage.State, and what View keeps of it.                 *)
AccountState == [bal : 0 .. Wrap - 1, cnt : Int, staking : BOOLEAN, height : Nat]
AccountView  == (0 .. Wrap - 1) \X Int \X BOOLEAN

(* Every root key comes with its account (initRootKey).                    *)
ASSUME LedgerAssumption ==
    /\ \A t \in Tx : FundsOK(t) \/ AccOK(t) \/ StakeOK(t) \/ ConfigOK(t)
    /\ Miners \subseteq Account /\ Slashable \subseteq Account
    /\ {MaxHeight, MaxMoney, Wrap, FeeMinimum, BlockReward, SlashReward,
         StakingMinimum, WaitingMinimum, MinStaking} \subseteq Nat
    /\ Wrap > 2 * MaxMoney
    /\ Nil \notin Account \cup AccountState \cup AccountView
    /\ InitAcc \in [Account -> AccountState \cup {Nil}]
    /\ \A a \in Account : InitAcc[a] # Nil => InitAcc[a].bal <= MaxMoney /\ InitAcc[a].cnt = 0
    /\ InitRoot \subseteq {a \in Account : InitAcc[a] # Nil}

VARIABLES
    S,            \* storage.State and storage.RootKeys; dead after a nil dereference
    closed,       \* closed transactions
    aggregated,   \* transactions whose Aggregated flag is set
    chain,        \* the validated blocks, oldest first
    pc,           \* "idle", or how far the block under construction is
    block,        \* the block under construction
    copy,         \* its StateCopy
    before,       \* FundsTxBeforeAggregation
    verdict,      \* history: what the last validation said
    snaps,        \* history: the account view before each block of chain
    flaws         \* history: what so far no rollback can undo, see Flaws

vars == <<S, closed, aggregated, chain, pc, block, copy, before, verdict, snaps, flaws>>

NoBlock == [acc |-> <<>>, funds |-> <<>>, agg |-> <<>>, config |-> <<>>,
            stake |-> <<>>, beneficiary |-> Nil, slashed |-> Nil, height |-> 0]

NoCopy == [x \in Account |-> Nil]      \* an empty StateCopy

BlockTxs(b) == UNION {ToSet(b.acc), ToSet(b.funds), ToSet(b.agg),
                      ToSet(b.config), ToSet(b.stake)}

(* What a rollback has to restore: balances, counters, the validator set   *)
(* and the root keys (StakingBlockHeight is never rolled back).            *)
View(s) ==
    [acc  |-> [a \in Account |->
                  IF s.acc[a] = Nil THEN Nil
                  ELSE <<s.acc[a].bal, s.acc[a].cnt, s.acc[a].staking>>],
     root |-> s.root]

Init ==
    /\ S = [acc |-> InitAcc, root |-> InitRoot, dead |-> FALSE]
    /\ closed = {}
    /\ aggregated = {}
    /\ chain = <<>>
    /\ pc = "idle"
    /\ block = NoBlock
    /\ copy = NoCopy
    /\ before = {}
    /\ verdict = "none"
    /\ snaps = <<>>
    /\ flaws = {}

----------------------------------------------------------------------------
(* Access to accounts goes through pointers: a missing one ends the process. *)
Update(s, a, account) ==
    IF s.acc[a] = Nil THEN [s EXCEPT !.dead = TRUE]
    ELSE [s EXCEPT !.acc[a] = account]

Pay(s, a, n) == Update(s, a, [s.acc[a] EXCEPT !.bal = (@ + n) % Wrap])

Exceeds(x, limit) == x % Wrap > limit

Ok(s)     == [s |-> s, err |-> FALSE]
Failed(s) == [s |-> s, err |-> TRUE]

(* A loop over transactions that returns at the first error.               *)
ForEach(step(_, _), s, txs) ==
    FoldLeft(LAMBDA r, tx : IF r.err THEN r ELSE step(r.s, tx), Ok(s), txs)

NewAccount == [bal |-> 0, cnt |-> 0, staking |-> FALSE, height |-> 0]

accStateChange(s, txs) ==
    LET step(u, tx) ==
          IF (u.acc[tx.acc] = Nil) = (tx.header = 2) THEN Failed(u)
          ELSE IF tx.header = 2 THEN Ok([u EXCEPT !.root = @ \ {tx.acc}])
          ELSE Ok([u EXCEPT !.acc[tx.acc] = NewAccount,
                            !.root = IF tx.header = 1 THEN @ \cup {tx.acc} ELSE @])
    IN ForEach(step, s, txs)

(* Root accounts issue coins: they are credited what they spend.           *)
Issue(s, tx, sign) ==
    IF tx.from \in s.root THEN Pay(s, tx.from, sign * (tx.amount + tx.fee)) ELSE s

(* Mutant: the counter only counts up.                                     *)
CountUp(s, tx, sign) ==
    LET u == Update(s, tx.from, [s.acc[tx.from] EXCEPT !.cnt = @ + (IF sign = 1 THEN 1 ELSE 0)])
    IN Pay(Pay(u, tx.from, -sign * tx.amount), tx.to, sign * tx.amount)

(* The sender's counter moves with the amount.                             *)
Transfer(s, tx, sign) ==
    LET u == Update(s, tx.from, [s.acc[tx.from] EXCEPT !.cnt = @ + sign])
    IN Pay(Pay(u, tx.from, -sign * tx.amount), tx.to, sign * tx.amount)

(* The checks of fundsStateChange, made after the issue.  A counter that   *)
(* is too low is only logged, the counter of an aggregated transaction is  *)
(* not looked at.                                                          *)
FundsRefused(u, tx) ==
    LET from == u.acc[tx.from] IN
    \/ tx \notin aggregated /\ tx.cnt > from.cnt
    \/ tx.amount + tx.fee > from.bal
    \/ from.staking /\ tx.fee + MinStaking + tx.amount > from.bal
    \/ Exceeds(tx.amount + u.acc[tx.to].bal, MaxMoney)

fundsStateChange(s, txs) ==
    LET step(u, tx) ==
          IF tx \in closed THEN Ok(u)
          ELSE IF tx.from \in u.root /\ (u.acc[tx.from] = Nil
                    \/ Exceeds(u.acc[tx.from].bal + tx.amount + tx.fee, MaxMoney))
          THEN Failed(u)
          ELSE IF Nil \in {u.acc[tx.from], u.acc[tx.to]} THEN Ok([u EXCEPT !.dead = TRUE])
          ELSE IF FundsRefused(Issue(u, tx, 1), tx) THEN Failed(u)
          ELSE Ok(Transfer(Issue(u, tx, 1), tx, 1))
    IN ForEach(step, s, txs)

stakeStateChange(s, txs, height) ==
    LET refused(from, tx) ==
          \/ tx.staking = from.staking
          \/ tx.staking /\ from.bal < tx.fee + StakingMinimum
          \/ tx.fee > from.bal
        step(u, tx) ==
          IF u.acc[tx.acc] = Nil THEN Ok([u EXCEPT !.dead = TRUE])
          ELSE IF refused(u.acc[tx.acc], tx) THEN Failed(u)
          ELSE Ok(Update(u, tx.acc, [u.acc[tx.acc] EXCEPT
                                        !.staking = tx.staking, !.height = height]))
    IN ForEach(step, s, txs)

(* Who pays the fee of a transaction: nobody for those signed by root.     *)
Payer(tx) == IF tx.kind = "funds" THEN tx.from
             ELSE IF tx.kind = "stake" THEN tx.acc ELSE Nil

MoveFee(s, tx, miner, sign) ==
    LET u == Pay(s, miner, sign * tx.fee)
    IN IF Payer(tx) = Nil THEN u ELSE Pay(u, Payer(tx), -sign * tx.fee)

(* collectTxFees takes the transactions in this order.  Where the sender   *)
(* is looked up, the lookup overwrites the error of the overflow check.    *)
(* On an error the fees moved so far are moved back.                       *)
collectTxFees(s, b) ==
    LET txs == b.acc \o b.funds \o b.agg \o b.config \o b.stake
        step(u, tx) ==
          IF IF Payer(tx) = Nil THEN Exceeds(u.acc[b.beneficiary].bal + tx.fee, MaxMoney)
             ELSE u.acc[Payer(tx)] = Nil
          THEN Failed(u)
          ELSE Ok(MoveFee(u, tx, b.beneficiary, 1))
        moved == ForEach(step, s, txs)
    IN IF s.acc[b.beneficiary] = Nil \/ moved.err THEN Failed(s) ELSE moved

collectBlockReward(s, b) ==
    IF Exceeds(s.acc[b.beneficiary].bal + BlockReward, MaxMoney) THEN Failed(s)
    ELSE Ok(Pay(s, b.beneficiary, BlockReward))

collectSlashReward(s, b) ==
    IF b.slashed = Nil THEN Ok(s)
    ELSE IF \/ Exceeds(s.acc[b.beneficiary].bal + SlashReward, MaxMoney)
            \/ s.acc[b.slashed] = Nil
    THEN Failed(s)
    ELSE LET u == Pay(Pay(s, b.beneficiary, SlashReward), b.slashed, -StakingMinimum)
         IN Ok(Update(u, b.slashed, [u.acc[b.slashed] EXCEPT !.staking = FALSE]))

updateStakingHeight(s, b) ==
    Update(s, b.beneficiary, [s.acc[b.beneficiary] EXCEPT !.height = b.height])

----------------------------------------------------------------------------
(* The state change is undone by loops that check nothing.                 *)
accStateChangeRollback(s, txs) ==
    LET step(u, tx) ==
          IF u.acc[tx.acc] = Nil THEN [u EXCEPT !.dead = TRUE]
          ELSE [u EXCEPT !.acc[tx.acc] = Nil,
                         !.root = IF tx.header = 1 THEN @ \ {tx.acc}
                                  ELSE IF tx.header = 2 THEN @ \cup {tx.acc} ELSE @]
    IN FoldLeft(step, s, txs)

(* Mutant: the coins a root account issued are not taken back.             *)
KeepIssued(s, txs) ==
    FoldLeft(LAMBDA u, tx : Transfer(u, tx, -1), s, Reverse(txs))

(* Mutant: the counter is taken back for every aggregate again.            *)
CountedTwice(s, txs) ==
    FoldLeft(LAMBDA u, tx : Issue(Transfer(Update(u, tx.from,
                [u.acc[tx.from] EXCEPT !.cnt = @ - 1]), tx, -1), tx, -1), s, Reverse(txs))

fundsStateChangeRollback(s, txs) ==
    FoldLeft(LAMBDA u, tx : Issue(Transfer(u, tx, -1), tx, -1), s, Reverse(txs))

stakeStateChangeRollback(s, txs) ==
    FoldLeft(LAMBDA u, tx : Update(u, tx.acc, [u.acc[tx.acc] EXCEPT !.staking = ~@]),
             s, Reverse(txs))

collectTxFeesRollback(s, txs, miner) ==
    FoldLeft(LAMBDA u, tx : MoveFee(u, tx, miner, -1), s, txs)

(* Mutant: the fees of aggregated transactions stay with the miner.        *)
AggFeesKept(s, b) == fundsStateChangeRollback(s, b.agg)

(* The transactions first validated in this block; they are closed by now. *)
aggregatedStateRollback(s, b) ==
    collectTxFeesRollback(fundsStateChangeRollback(s, b.agg), b.agg, b.beneficiary)

collectBlockRewardRollback(s, b) == Pay(s, b.beneficiary, -BlockReward)

collectSlashRewardRollback(s, b) ==
    IF b.slashed = Nil THEN s
    ELSE LET u == Pay(Pay(s, b.beneficiary, -SlashReward), b.slashed, StakingMinimum)
         IN Update(u, b.slashed, [u.acc[b.slashed] EXCEPT !.staking = TRUE])

NoStakeFees(b) == b.acc \o b.funds \o b.config                   \* mutant
OwnFees(b) == b.acc \o b.funds \o b.config \o b.stake

validateStateRollback(s, b) ==
    LET u == collectBlockRewardRollback(collectSlashRewardRollback(s, b), b)
        v == stakeStateChangeRollback(
                collectTxFeesRollback(u, OwnFees(b), b.beneficiary), b.stake)
        w == aggregatedStateRollback(fundsStateChangeRollback(v, b.funds), b)
    IN accStateChangeRollback(w, b.acc)

(* The stages of validateState and what is undone when one of them fails.  *)
(* aggregatedStateRollback finds nothing to undo there: it looks for       *)
(* closed transactions and the ones of this block are still open.          *)
validateState(s, b) ==
    LET a == accStateChange(s, b.acc)
        f == fundsStateChange(a.s, b.funds)
        g == fundsStateChange(f.s, b.agg)
        k == stakeStateChange(g.s, b.stake, b.height)
        e == collectTxFees(k.s, b)
        r == collectBlockReward(e.s, b)
        x == collectSlashReward(r.s, b)
        undoAcc(u)   == Failed(accStateChangeRollback(u, b.acc))
        undoFunds(u) == undoAcc(fundsStateChangeRollback(u, b.funds))
        undoStake(u) == undoFunds(stakeStateChangeRollback(u, b.stake))
        undoFees(u)  == undoStake(collectTxFeesRollback(u, OwnFees(b), b.beneficiary))
    IN IF a.err THEN a
       ELSE IF f.err THEN undoAcc(f.s)
       ELSE IF g.err THEN undoFunds(g.s)
       ELSE IF k.err THEN undoFunds(k.s)
       ELSE IF e.err THEN undoStake(e.s)
       ELSE IF r.err THEN undoFees(r.s)
       ELSE IF x.err THEN undoFees(collectBlockRewardRollback(x.s, b))
       ELSE Ok(updateStakingHeight(x.s, b))

----------------------------------------------------------------------------
(* Block preparation: newBlock, then the open transactions one by one.     *)
NewBlock(m) ==
    /\ pc = "idle"
    /\ Len(chain) < MaxHeight
    /\ S.acc[m] # Nil
    /\ pc' = "adding"
    /\ block' = [NoBlock EXCEPT !.beneficiary = m, !.height = Len(chain) + 1]
    /\ copy' = S.acc
    /\ verdict' = "none"
    /\ UNCHANGED <<S, closed, aggregated, chain, before, snaps, flaws>>

(* verify: the checks that need no StateCopy.                              *)
verify(tx) ==
    \/ /\ tx.kind = "funds"
       /\ tx.amount \in 1 .. MaxMoney
       /\ Nil \notin {S.acc[tx.from], S.acc[tx.to]}
    \/ tx.kind \in {"acc", "config"} /\ tx.signer \in S.root
    \/ tx.kind = "stake" /\ S.acc[tx.acc] # Nil

addAccTx(tx) ==
    /\ tx.kind = "acc"
    /\ tx.header = 2 \/ S.acc[tx.acc] = Nil
    /\ block' = [block EXCEPT !.acc = Append(@, tx)]
    /\ UNCHANGED <<copy, before>>

addConfigTx(tx) ==
    /\ tx.kind = "config"
    /\ block' = [block EXCEPT !.config = Append(@, tx)]
    /\ UNCHANGED <<copy, before>>

addStakeTx(tx) ==
    /\ tx.kind = "stake"
    /\ tx.acc \in S.root \/ tx.fee + StakingMinimum < copy[tx.acc].bal
    /\ copy[tx.acc].staking # tx.staking
    /\ copy' = [copy EXCEPT ![tx.acc].staking = tx.staking]
    /\ block' = [block EXCEPT !.stake = Append(@, tx)]
    /\ UNCHANGED before

addFundsTx(tx) ==
    /\ tx.kind = "funds"
    /\ tx.from \in S.root \/ tx.amount + tx.fee <= copy[tx.from].bal
    /\ tx.cnt = copy[tx.from].cnt
    /\ ~Exceeds(copy[tx.to].bal + tx.amount, MaxMoney)
    /\ LET paid == [copy EXCEPT ![tx.from].cnt = @ + 1,
                                ![tx.from].bal = (@ - (tx.amount + tx.fee)) % Wrap]
       IN copy' = [paid EXCEPT ![tx.to].bal = (@ + tx.amount) % Wrap]
    /\ before' = before \cup {tx}
    /\ UNCHANGED block

(* prepareBlock offers the transactions it selected sorted: those that     *)
(* move no funds first, then by counter.  A refused one changes nothing.   *)
addTx(tx) ==
    /\ pc = "adding"
    /\ tx \in Tx \ (closed \cup before \cup BlockTxs(block))
    /\ \A t \in before : tx.kind = "funds" /\ t.cnt <= tx.cnt
    /\ tx.fee >= FeeMinimum
    /\ verify(tx)
    /\ addAccTx(tx) \/ addConfigTx(tx) \/ addStakeTx(tx) \/ addFundsTx(tx)
    /\ UNCHANGED <<S, closed, aggregated, chain, pc, verdict, snaps, flaws>>

(* All transactions are offered; StateCopy is not used any more.           *)
TxsSelected ==
    /\ pc = "adding"
    /\ pc' = "grouping"
    /\ copy' = NoCopy
    /\ UNCHANGED <<S, closed, aggregated, chain, block, before, verdict, snaps, flaws>>

BySender   == [a \in Account |-> {t \in before : t.from = a}]
ByReceiver == [a \in Account |-> {t \in before : t.to = a}]

(* getMaxKeyAndValueFormMap: the largest count, and the groups that have it *)
(* (the map's iteration order picks one of them).                          *)
Most(group)    == Max({Cardinality(group[a]) : a \in Account})
Largest(group) == {group[a] : a \in {x \in Account : Cardinality(group[x]) = Most(group)}}

(* splitSortedAggregatableTransactions: the group of the most frequent     *)
(* sender or, when there are more, receiver.                               *)
Groups == IF Most(BySender) >= Most(ByReceiver) THEN Largest(BySender)
          ELSE Largest(ByReceiver)

(* AggregateTransactions: a group of one stays a plain transaction unless  *)
(* a historic transaction can join it.                                     *)
AggregateTransactions ==
    /\ pc = "grouping"
    /\ before # {}
    /\ \E group \in Groups :
         /\ before' = before \ group
         /\ \/ /\ \/ Cardinality(group) > 1
                  \/ \E t \in group, c \in closed :
                        c.kind = "funds" /\ (c.from = t.from \/ c.to = t.to)
               /\ block' = [block EXCEPT !.agg = @ \o SetToSeq(group)]
            \/ /\ Cardinality(group) = 1
               /\ block' = [block EXCEPT !.funds = @ \o SetToSeq(group)]
    /\ UNCHANGED <<S, closed, aggregated, chain, pc, copy, verdict, snaps, flaws>>

(* aggTxStateChange sorts the aggregated transactions by counter.          *)
ByTxCount(txs) ==
    {s \in SetToSeqs(ToSet(txs)) : IsSorted(s, LAMBDA t, u : t.cnt <= u.cnt)}

(* preValidate, as far as it reads accounts.                               *)
preValidate(b) ==
    /\ S.acc[b.beneficiary] # Nil
    /\ S.acc[b.beneficiary].staking
    /\ (b.height - S.acc[b.beneficiary].height) % Wrap >= WaitingMinimum

(* What no rollback undoes: a block that takes a root key away, whose      *)
(* rollback deletes the account; a slashing proof against an account that  *)
(* is not, or not only by the proof, leaving the validators, whose         *)
(* rollback makes it a validator; a refused block that left changes.       *)
Flaws(b, result) ==
    {f \in {"rootkey", "proof", "refused"} :
        \/ f = "rootkey" /\ \E i \in DOMAIN b.acc : b.acc[i].header = 2
        \/ /\ f = "proof" /\ b.slashed # Nil
           /\ \/ S.acc[b.slashed] = Nil
              \/ ~S.acc[b.slashed].staking
              \/ \E i \in DOMAIN b.stake : b.stake[i].acc = b.slashed
        \/ f = "refused" /\ result.err /\ View(result.s) # View(S)}

(* finalizeBlock adds a slashing proof, validate judges the block.  Every  *)
(* proof is used once on a chain.                                          *)
Validate(slashed) ==
    /\ pc = "grouping"
    /\ before = {}
    /\ \E agg \in ByTxCount(block.agg) :
         LET b == [block EXCEPT !.agg = agg, !.slashed = slashed]
             result == validateState(S, b) IN
         /\ slashed # Nil => \A i \in DOMAIN chain : chain[i].slashed # slashed
         /\ preValidate(b)
         /\ S' = result.s
         /\ flaws' = flaws \cup Flaws(b, result)
         /\ IF result.err
            THEN /\ verdict' = "rejected"
                 /\ UNCHANGED <<closed, aggregated, chain, snaps>>
            ELSE /\ verdict' = "accepted"
                 /\ closed' = closed \cup BlockTxs(b)
                 /\ aggregated' = aggregated \cup ToSet(agg)
                 /\ chain' = Append(chain, b)
                 /\ snaps' = Append(snaps, View(S))
         /\ pc' = IF result.s.dead THEN "panic" ELSE "idle"
    /\ block' = NoBlock
    /\ UNCHANGED <<copy, before>>

(* The block never becomes valid, or another one arrives first.            *)
Abandon ==
    /\ pc = "grouping"
    /\ before = {}
    /\ pc' = "idle"
    /\ block' = NoBlock
    /\ verdict' = "none"
    /\ UNCHANGED <<S, closed, aggregated, chain, copy, before, snaps, flaws>>

(* rollback of the last block; its transactions are open again, with the   *)
(* Aggregated flag they have.                                              *)
Rollback ==
    /\ pc = "idle"
    /\ chain # <<>>
    /\ LET s == validateStateRollback(S, Last(chain)) IN
       /\ S' = s
       /\ pc' = IF s.dead THEN "panic" ELSE "idle"
    /\ closed' = closed \ BlockTxs(Last(chain))
    /\ chain' = Front(chain)
    /\ snaps' = Front(snaps)
    /\ verdict' = "none"
    /\ UNCHANGED <<aggregated, block, copy, before, flaws>>

Next ==
    \/ \E m \in Miners : NewBlock(m)
    \/ \E tx \in Tx : addTx(tx)
    \/ TxsSelected
    \/ AggregateTransactions
    \/ \E a \in Slashable \cup {Nil} : Validate(a)
    \/ Abandon
    \/ Rollback

Spec == Init /\ [][Next]_vars

----------------------------------------------------------------------------
(* Rolling a block back restores balances, counters, the validator set,    *)
(* the existence of accounts and the root keys: the seven rollback loops   *)
(* undo the seven stages of validateState, as long as nothing happened     *)
(* that has no undo.                                                       *)
RollbackRestores ==
    [][Len(chain') < Len(chain) /\ flaws = {} => View(S') = Last(snaps)]_vars

(* A block that validateState refuses leaves the accounts as they were,    *)
(* unless a loop over transactions stops after its first one (nothing      *)
(* undoes the part done), the block revokes a root key (undone by deleting *)
(* the account), or aggregated transactions were applied already (nothing  *)
(* finds them).  The undo of every other failure is complete.              *)
Undoable ==
    LET a == accStateChange(S, block.acc)
        f == fundsStateChange(a.s, block.funds)
        k == stakeStateChange(f.s, block.stake, block.height)
    IN IF a.err THEN a.s = S
       ELSE /\ \A i \in DOMAIN block.acc : block.acc[i].header # 2
            /\ IF f.err THEN f.s = a.s
               ELSE block.agg = <<>> /\ (k.err => k.s = f.s)

UnchangedOnError ==
    [][verdict' = "rejected" /\ Undoable => View(S') = View(S)]_vars

(* The comment at state.go:511: whether a fee may be subtracted "has       *)
(* already been done in the block validation".  Then no balance underflows *)
(* when the fees of a block are collected, nor leaves 0 .. MAX_MONEY.      *)
BalancesBounded ==
    \A a \in Account : S.acc[a] # Nil => S.acc[a].bal <= MaxMoney

(* The counter of an account is the number of its transfers on the chain,  *)
(* which carry the counters 0, 1, ... without gap or repetition: however   *)
(* they were aggregated, cut into groups, rolled back and prepared again,  *)
(* and although validateState lets counters below the sender's pass.       *)
Transfers(a) == {t \in closed : t.kind = "funds" /\ t.from = a}

CountersMatch ==
    flaws = {} => \A a \in Account : S.acc[a] # Nil =>
        /\ S.acc[a].cnt = Cardinality(Transfers(a))
        /\ {t.cnt : t \in Transfers(a)} = 0 .. S.acc[a].cnt - 1

(* The money in circulation follows from the chain alone: rewards, what    *)
(* root accounts issued and the fees nobody paid are added, slashed stakes *)
(* destroyed.  Every other coin only changes hands, in either direction of *)
(* the chain and in blocks that are refused.                               *)
Supply(acc) ==
    MapThenSumSet(LAMBDA a : IF acc[a] = Nil THEN 0 ELSE acc[a].bal, Account)

Issuers(i) ==
    snaps[i].root \ {t.acc : t \in {x \in ToSet(chain[i].acc) : x.header = 2}}

Created(b, issuers) ==
    BlockReward
    + (IF b.slashed = Nil THEN 0 ELSE SlashReward - StakingMinimum)
    + MapThenSumSet(LAMBDA t : IF t.kind \in {"acc", "config"} THEN t.fee
                               ELSE IF t.kind = "funds" /\ t.from \in issuers
                               THEN t.amount + t.fee ELSE 0, BlockTxs(b))

SupplyAccounted ==
    flaws = {} =>
        Supply(S.acc) = Supply(InitAcc)
            + MapThenSumSet(LAMBDA i : Created(chain[i], Issuers(i)), DOMAIN chain)

TypeOK ==
    /\ \A a \in Account : S.acc[a] # Nil =>
          S.acc[a].bal \in 0 .. Wrap - 1 /\ S.acc[a].cnt \in Int
          /\ S.acc[a].staking \in BOOLEAN
    /\ S.root \subseteq Account
    /\ closed \subseteq Tx /\ aggregated \subseteq Tx /\ before \subseteq Tx
    /\ pc \in {"idle", "adding", "grouping", "panic"}
    /\ Len(chain) <= MaxHeight /\ Len(snaps) = Len(chain)
    /\ verdict \in {"none", "accepted", "rejected"}
    /\ flaws \subseteq {"refused", "rootkey", "proof"}
    /\ flaws = {} => pc # "panic" /\ \A a \in Account : S.acc[a] # Nil => S.acc[a].cnt >= 0
=============================================================================
