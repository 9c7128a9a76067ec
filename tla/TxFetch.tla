------------------------------ MODULE TxFetch ------------------------------
(***************************************************************************)
(* How a block's transactions are brought together before it is validated  *)
(* (miner/fetch_transactions.go, the fetch...TxData functions of           *)
(* miner/block_*.go, p2p/miner_interface.go) and how prepareBlock asks for *)
(* missing payments over the same channel.                                 *)
(*                                                                         *)
(* fetchTransactions starts one goroutine per kind of transaction.  Each   *)
(* looks in the closed and the open storage, and asks the network for what *)
(* is missing: a request goes to every miner, the first answer is handed   *)
(* over on an unbuffered channel that belongs to the kind, not to the      *)
(* request, and a stash of answers already seen keeps the other answers    *)
(* away from the channel.  The goroutines report on errChan;               *)
(* fetchTransactions returns at the first error and does not wait for the  *)
(* others, which go on taking answers from the channels.                   *)
(*                                                                         *)
(* A transaction stands for itself and for its hash; NoTx is nil.          *)
(***************************************************************************)
EXTENDS Naturals, Sequences, FiniteSets, SequencesExt

CONSTANTS
    Tx,          \* transactions, of the blocks and of the network
    NoTx,        \* the nil transaction
    KindOf,      \* [Tx -> Kinds]
    Members,     \* [Tx -> Seq(Inner)]: AggregatedTxSlice of an AggTx
    Sender,      \* [Tx -> sender], the From of a FundsTx
    TxCnt,       \* [Tx -> Nat], the counter of a FundsTx
    Aggregated,  \* AggTxs that a closed AggTx aggregates
    Valid,       \* transactions that verify() accepts
    Closed,      \* transactions in closed storage at the start
    Invalid,     \* transactions in the INVALID mempool
    Known,       \* transactions some other miner holds
    Blocks,      \* [block -> [Kinds -> Seq(Tx)]]
    Plan,        \* bound: sequences of calls, each with its block, initialSetup
                 \* and the transactions that are broadcast before it
    StashMax,    \* answers a stash keeps (100)
    MaxReplies,  \* bound: answers to one transaction that are under way
    MaxFetches   \* bound: calls of fetchTransactions

Kinds == {"acc", "funds", "config", "stake", "update", "agg"}
nrOfChannels == Cardinality(Kinds)
MaxTries == 2

\* Kinds whose answers pass through a Received...Stash under its mutex.
Stashed == Kinds \ {"config"}

\* What an AggTx can aggregate.
Inner == {t \in Tx : KindOf[t] \in {"agg", "funds"}}

ASSUME TxFetchAssumption ==
    /\ NoTx \notin Tx
    /\ KindOf \in [Tx -> Kinds]
    /\ Members \in [Tx -> Seq(Inner)]
    /\ Closed \cup Invalid \cup Known \cup Aggregated \cup Valid \subseteq Tx
    /\ Blocks \in [DOMAIN Blocks -> [Kinds -> Seq(Tx)]]
    /\ \A b \in DOMAIN Blocks, k \in Kinds : \A i \in 1..Len(Blocks[b][k]) :
          KindOf[Blocks[b][k][i]] = k
    /\ Plan \subseteq Seq([block : DOMAIN Blocks, init : BOOLEAN, heard : SUBSET Tx])
    /\ \A p \in Plan : Len(p) <= MaxFetches
    /\ {StashMax, MaxReplies, MaxFetches} \subseteq Nat \ {0}

VARIABLES
    closed,   \* the closed...-buckets
    open,     \* txMemPool
    stash,    \* Received...Stash per kind, oldest first
    chan,     \* per kind, the handlers waiting to send their answer
    replies,  \* per transaction, the answers under way
    job,      \* per call of fetchTransactions, its block and initialSetup
    fetch,    \* per call and kind, the goroutine
    errs,     \* per call, the contents of errChan
    slots,    \* per call and kind, the slice the goroutine fills
    funds,    \* per call, the contents of aggregatedFundsChan
    main,     \* the goroutine that holds blockValidation, and its calls to come
    prep,     \* the payment prepareBlock waits for, or NoTx
    seen      \* history: the channels where an answer may come loose (a waiter
              \* gave up, or the stash forgot an answer), those two goroutines
              \* waited on at once, and those that gave a wrong transaction

vars == <<closed, open, stash, chan, replies, job, fetch, errs, slots, funds,
          main, prep, seen>>

Calls == 1..MaxFetches
Results == {"none", "ok", "err"}

Wanted(g, k) == Blocks[job[g].block][k][fetch[g][k].i]

\* The next call of the plan, if there is one.
More == main.calls # <<>>
Coming == Head(main.calls)

Idle == [pc |-> "done", i |-> 1, j |-> 1, tries |-> 0, cur |-> NoTx,
         trans |-> <<>>, frames |-> <<>>, out |-> <<>>]

Init ==
    /\ closed = Closed
    /\ open = {}
    /\ stash = [k \in Kinds |-> <<>>]
    /\ chan = [k \in Kinds |-> <<>>]
    /\ replies = [t \in Tx |-> 0]
    /\ job = [g \in Calls |-> [block |-> NoTx, init |-> FALSE, result |-> "none"]]
    /\ fetch = [g \in Calls |-> [k \in Kinds |-> Idle]]
    /\ errs = [g \in Calls |-> <<>>]
    /\ slots = [g \in Calls |-> [k \in Kinds |-> <<>>]]
    /\ funds = [g \in Calls |-> <<>>]
    /\ \E p \in Plan : main = [pc |-> "idle", gen |-> 0, cnt |-> 0, calls |-> p]
    /\ prep = NoTx
    /\ seen = [loose |-> {}, shared |-> {}, wrong |-> {}]

----------------------------------------------------------------------------
(* The network: requests, answers, broadcasts.                             *)

\* TxReq sends the request to every miner; those that hold the transaction
\* answer, each answer may be lost, and several may come.
TxReq(t) ==
    \E n \in 0..MaxReplies :
        /\ n > 0 => t \in Known
        /\ replies' = [replies EXCEPT ![t] = IF n > @ THEN n ELSE @]

AlreadyInStash(k, t) == Contains(stash[k], t)

\* Mutant: the answer is sent without the mutex of its stash.
forwardUnlocked(t) ==
    LET k == KindOf[t] IN
    /\ replies[t] > 0
    /\ replies' = [replies EXCEPT ![t] = @ - 1]
    /\ IF k \in Stashed /\ AlreadyInStash(k, t)
       THEN UNCHANGED <<stash, chan>>
       ELSE /\ chan' = [chan EXCEPT ![k] = Append(@, t)]
            /\ stash' = IF k \in Stashed
                        THEN [stash EXCEPT ![k] = Append(@, t)] ELSE stash
    /\ UNCHANGED <<closed, open, job, fetch, errs, slots, funds, main, prep, seen>>

\* Mutant: an answer that is in the stash already is sent again.
forwardAgain(t) ==
    LET k == KindOf[t] IN
    /\ replies[t] > 0
    /\ k \in Stashed => chan[k] = <<>>
    /\ replies' = [replies EXCEPT ![t] = @ - 1]
    /\ chan' = [chan EXCEPT ![k] = Append(@, t)]
    /\ stash' = IF k \in Stashed /\ ~AlreadyInStash(k, t)
                THEN [stash EXCEPT ![k] = Append(@, t)] ELSE stash
    /\ UNCHANGED <<closed, open, job, fetch, errs, slots, funds, main, prep, seen>>

\* forwardTxReqToMiner: under the mutex of the kind's stash, an answer that
\* is new is appended to the stash and sent; the handler keeps the mutex
\* until somebody takes it.  A ConfigTx is sent without stash or mutex.
forwardTxReqToMiner(t) ==
    LET k == KindOf[t] IN
    /\ replies[t] > 0
    /\ k \in Stashed => chan[k] = <<>>
    /\ replies' = [replies EXCEPT ![t] = @ - 1]
    /\ IF k \in Stashed /\ AlreadyInStash(k, t)
       THEN UNCHANGED <<stash, chan>>
       ELSE /\ chan' = [chan EXCEPT ![k] = Append(@, t)]
            /\ stash' = IF k \in Stashed
                        THEN [stash EXCEPT ![k] = Append(@, t)] ELSE stash
    /\ UNCHANGED <<closed, open, job, fetch, errs, slots, funds, main, prep, seen>>

\* A receive from the channel of kind k lets the handler go on: it drops the
\* oldest answer of a stash that has become too long, and unlocks.
Receive(k) ==
    /\ chan[k] # <<>>
    /\ chan' = [chan EXCEPT ![k] = Tail(@)]
    /\ stash' = IF Len(stash[k]) > StashMax
                THEN [stash EXCEPT ![k] = Tail(@)] ELSE stash

\* processTxBrdcst: a broadcast transaction is kept if it is new.
processTxBrdcst(t) ==
    /\ More /\ t \in Coming.heard
    /\ t \notin open \cup closed
    /\ open' = open \cup {t}
    /\ UNCHANGED <<closed, stash, chan, replies, job, fetch, errs, slots, funds,
                   main, prep, seen>>

----------------------------------------------------------------------------
(* The goroutines.  `out' holds what a goroutine still has to send on      *)
(* errChan; it goes on only when everything has found room there.          *)

\* The channels a goroutine listens on.
Listens(f, k) ==
    CASE f.pc = "wait" -> {k}
      [] f.pc \in {"mwait", "fwait"} -> {"agg", "funds"}
      [] OTHER -> {}

Ready(g, k, pc) ==
    /\ main.pc # "crashed"
    /\ fetch[g][k].pc = pc
    /\ fetch[g][k].out = <<>>

Fit(g, msgs) == LET room == nrOfChannels - Len(errs[g])
                IN  IF Len(msgs) < room THEN Len(msgs) ELSE room

\* The goroutine becomes f and sends msgs, as far as errChan has room.
Becomes(g, k, f, msgs) ==
    LET n == Fit(g, msgs) IN
    /\ fetch' = [fetch EXCEPT ![g][k] =
                    [f EXCEPT !.out = SubSeq(msgs, n + 1, Len(msgs))]]
    /\ errs' = [errs EXCEPT ![g] = @ \o SubSeq(msgs, 1, n)]

\* It waits on a channel: the channels with a second listener are noted.
Waits(g, k, f) ==
    /\ Becomes(g, k, f, <<>>)
    /\ seen' = [seen EXCEPT !.shared = @ \cup {c \in Listens(f, k) :
                   \/ c = "funds" /\ prep # NoTx
                   \/ \E h \in Calls, l \in Kinds :
                         (h # g \/ l # k) /\ c \in Listens(fetch[h][l], l)}]

Fill(g, k, t) == slots' = [slots EXCEPT ![g][k] = Append(@, t)]

Leaves(cs) == seen' = [seen EXCEPT !.loose = @ \cup cs]

\* Mutant: a wrong transaction is not reported.
Trust(x, want) == <<>>

\* A message that does not answer the request is reported, not refused.
Report(x, want) == IF x = want THEN <<>> ELSE <<"err">>

Noted(x, want, c) ==
    seen' = [seen EXCEPT !.wrong = IF x = want THEN @ ELSE @ \cup {c},
                         !.loose = IF Len(stash[c]) > StashMax THEN @ \cup {c} ELSE @]

ErrSend(g, k) ==
    /\ fetch[g][k].out # <<>>
    /\ Len(errs[g]) < nrOfChannels
    /\ Becomes(g, k, fetch[g][k], fetch[g][k].out)
    /\ UNCHANGED <<closed, open, stash, chan, replies, job, slots, funds, main,
                   prep, seen>>

\* End of the loop over the block's transactions.
Finish(g, k) ==
    LET f == fetch[g][k] IN
    /\ Ready(g, k, "next")
    /\ f.i > Len(Blocks[job[g].block][k])
    /\ Becomes(g, k, [f EXCEPT !.pc = "done"], <<"nil">>)
    /\ funds' = IF k = "agg" THEN [funds EXCEPT ![g] = <<f.trans>>] ELSE funds
    /\ UNCHANGED <<closed, open, stash, chan, replies, job, slots, main, prep, seen>>

\* Found in the invalid mempool and valid by now (FundsTx only).
ValidNow(k, t) == k = "funds" /\ t \in Invalid /\ t \in Valid

Next1(f) == [f EXCEPT !.i = @ + 1, !.pc = "next"]

\* One turn of the loop of fetchAccTxData and the other plain fetchers, up to
\* the request.
Look(g, k) ==
    LET f == fetch[g][k]
        t == Wanted(g, k)
    IN
    /\ Ready(g, k, "next")
    /\ f.i <= Len(Blocks[job[g].block][k])
    /\ IF t \in closed
       THEN IF job[g].init
            THEN Becomes(g, k, Next1(f), <<>>) /\ Fill(g, k, t)
            ELSE Becomes(g, k, [f EXCEPT !.pc = "done"], <<"err">>) /\ UNCHANGED slots
       ELSE /\ t \in open \/ ValidNow(k, t)
            /\ Becomes(g, k, Next1(f), <<>>)
            /\ Fill(g, k, t)
    /\ UNCHANGED <<closed, open, stash, chan, replies, job, funds, main, prep, seen>>

Request(g, k) ==
    LET f == fetch[g][k]
        t == Wanted(g, k)
    IN
    /\ Ready(g, k, "next")
    /\ f.i <= Len(Blocks[job[g].block][k])
    /\ t \notin closed \cup open /\ ~ ValidNow(k, t)
    /\ TxReq(t)
    /\ Waits(g, k, [f EXCEPT !.pc = "wait"])
    /\ UNCHANGED <<closed, open, stash, chan, job, slots, funds, main, prep>>

\* The select takes an answer.  A wrong one is reported and then used.
Take(g, k) ==
    LET f == fetch[g][k]
        x == Head(chan[k])
    IN
    /\ Ready(g, k, "wait")
    /\ Receive(k)
    /\ open' = IF k = "funds" THEN open \cup {x} ELSE open
    /\ Fill(g, k, x)
    /\ Noted(x, Wanted(g, k), k)
    /\ Becomes(g, k, Next1(f), Report(x, Wanted(g, k)))
    /\ UNCHANGED <<closed, replies, job, funds, main, prep>>

\* The select times out.  fetchAccTxData and fetchUpdateTxData report it and go
\* on with nil, whose hash is not the one they asked for.
GoOnWithNil(g, k) ==
    /\ Ready(g, k, "wait")
    /\ Becomes(g, k, Next1(fetch[g][k]), <<"err", "err">>)
    /\ Fill(g, k, NoTx)
    /\ Leaves({k})
    /\ UNCHANGED <<closed, open, stash, chan, replies, job, funds, main, prep>>

\* Mutant: a goroutine that gives up returns without a report.
GiveUpSilently(g, k) ==
    /\ Ready(g, k, "wait")
    /\ Becomes(g, k, [fetch[g][k] EXCEPT !.pc = "done"], <<>>)
    /\ Leaves({k})
    /\ UNCHANGED <<closed, open, stash, chan, replies, job, slots, funds, main, prep>>

\* fetchConfigTxData and fetchStakeTxData report it and return.
GiveUp(g, k) ==
    /\ Ready(g, k, "wait")
    /\ Becomes(g, k, [fetch[g][k] EXCEPT !.pc = "done"], <<"err">>)
    /\ Leaves({k})
    /\ UNCHANGED <<closed, open, stash, chan, replies, job, slots, funds, main, prep>>

\* fetchFundsTxData looks in the stash first.
LookInStash(g) ==
    /\ Ready(g, "funds", "wait")
    /\ AlreadyInStash("funds", Wanted(g, "funds"))
    /\ Becomes(g, "funds", Next1(fetch[g]["funds"]), <<>>)
    /\ Fill(g, "funds", Wanted(g, "funds"))
    /\ Leaves({"funds"})
    /\ UNCHANGED <<closed, open, stash, chan, replies, job, funds, main, prep>>

Plain(g, k) == ErrSend(g, k) \/ Finish(g, k) \/ Look(g, k) \/ Request(g, k) \/ Take(g, k)

fetchAccTxData(g) == Plain(g, "acc") \/ GoOnWithNil(g, "acc")
fetchUpdateTxData(g) == Plain(g, "update") \/ GoOnWithNil(g, "update")
fetchConfigTxData(g) == Plain(g, "config") \/ GiveUp(g, "config")
fetchStakeTxData(g) == Plain(g, "stake") \/ GiveUp(g, "stake")
fetchFundsTxData(g) ==
    \/ Plain(g, "funds")
    \/ LookInStash(g)
    \/ GiveUp(g, "funds") /\ ~ AlreadyInStash("funds", Wanted(g, "funds"))

----------------------------------------------------------------------------
(* fetchAggTxData: the AggTxs of the block, then what they aggregate.      *)

\* The AggTx is in the slice; go through the transactions it aggregates.
\* Under initialSetup they are fetched recursively, unless a later AggTx
\* aggregates this one.
Descend(g, f, a) ==
    IF ~ job[g].init THEN [f EXCEPT !.pc = "member", !.j = 1, !.cur = a]
    ELSE IF a \in Aggregated THEN Next1(f)
    ELSE [f EXCEPT !.pc = "frame",
                   !.frames = <<[todo |-> Members[a], acc |-> <<>>, err |-> FALSE]>>]

AggLook(g) ==
    LET f == fetch[g]["agg"]
        t == Wanted(g, "agg")
    IN
    /\ Ready(g, "agg", "next")
    /\ f.i <= Len(Blocks[job[g].block]["agg"])
    /\ IF ~ job[g].init /\ t \in closed \ Aggregated
       THEN Becomes(g, "agg", [f EXCEPT !.pc = "done"], <<"err">>) /\ UNCHANGED slots
       ELSE /\ t \in closed \cup open \cup Invalid
            /\ Becomes(g, "agg", Descend(g, f, t), <<>>)
            /\ Fill(g, "agg", t)
    /\ UNCHANGED <<closed, open, stash, chan, replies, job, funds, main, prep, seen>>

AggRequest(g) ==
    LET f == fetch[g]["agg"] IN
    /\ Ready(g, "agg", "next")
    /\ f.i <= Len(Blocks[job[g].block]["agg"])
    /\ Wanted(g, "agg") \notin closed \cup open \cup Invalid
    /\ TxReq(Wanted(g, "agg"))
    /\ Waits(g, "agg", [f EXCEPT !.pc = "wait", !.tries = 0])
    /\ UNCHANGED <<closed, open, stash, chan, job, slots, funds, main, prep>>

AggTake(g) ==
    LET f == fetch[g]["agg"]
        x == Head(chan["agg"])
    IN
    /\ Ready(g, "agg", "wait")
    /\ Receive("agg")
    /\ open' = open \cup {x}
    /\ Fill(g, "agg", x)
    /\ Noted(x, Wanted(g, "agg"), "agg")
    /\ Becomes(g, "agg", Descend(g, f, x), Report(x, Wanted(g, "agg")))
    /\ UNCHANGED <<closed, replies, job, funds, main, prep>>

AggTimeOut(g) ==
    LET f == fetch[g]["agg"]
        t == Wanted(g, "agg")
    IN
    /\ Ready(g, "agg", "wait")
    /\ IF AlreadyInStash("agg", t)
       THEN /\ Becomes(g, "agg", Descend(g, f, t), <<>>)
            /\ Fill(g, "agg", t)
            /\ UNCHANGED replies
       ELSE /\ UNCHANGED slots
            /\ IF f.tries < MaxTries
               THEN Becomes(g, "agg", [f EXCEPT !.tries = @ + 1], <<>>) /\ TxReq(t)
               ELSE Becomes(g, "agg", [f EXCEPT !.pc = "done"], <<"err">>) /\ UNCHANGED replies
    /\ Leaves({"agg"})
    /\ UNCHANGED <<closed, open, stash, chan, job, funds, main, prep>>

Member(f) == Members[f.cur][f.j]
Next2(f) == [f EXCEPT !.j = @ + 1, !.pc = "member"]

\* Mutant: the payment is kept in the mempool but not collected.
Next2Only(f, t) == Next2(f)

Next2With(f, t) == [Next2(f) EXCEPT !.trans = Append(@, t)]

\* One turn of the loop over AggregatedTxSlice.  The INVALID mempool is never
\* consulted: the branch that would is inside an else of its own condition.
MemberLook(g) ==
    LET f == fetch[g]["agg"] IN
    /\ Ready(g, "agg", "member")
    /\ IF f.j > Len(Members[f.cur])
       THEN Becomes(g, "agg", Next1(f), <<>>)
       ELSE LET t == Member(f) IN
            /\ t \in closed \cup open
            /\ Becomes(g, "agg", IF t \in closed \/ KindOf[t] = "agg"
                                 THEN Next2(f) ELSE Next2With(f, t), <<>>)
    /\ UNCHANGED <<closed, open, stash, chan, replies, job, slots, funds, main,
                   prep, seen>>

MemberRequest(g) ==
    LET f == fetch[g]["agg"] IN
    /\ Ready(g, "agg", "member")
    /\ f.j <= Len(Members[f.cur])
    /\ Member(f) \notin closed \cup open
    /\ TxReq(Member(f))
    /\ Waits(g, "agg", [f EXCEPT !.pc = "mwait", !.tries = 0])
    /\ UNCHANGED <<closed, open, stash, chan, job, slots, funds, main, prep>>

MemberTake(g, c) ==
    LET f == fetch[g]["agg"]
        x == Head(chan[c])
    IN
    /\ Ready(g, "agg", "mwait")
    /\ Receive(c)
    /\ open' = open \cup {x}
    /\ Noted(x, Member(f), c)
    /\ Becomes(g, "agg", IF c = "agg" THEN Next2(f) ELSE Next2With(f, x),
               Report(x, Member(f)))
    /\ UNCHANGED <<closed, replies, job, slots, funds, main, prep>>

MemberTimeOut(g) ==
    LET f == fetch[g]["agg"]
        t == Member(f)
        found == AlreadyInStash("agg", t) \/ AlreadyInStash("funds", t)
    IN
    /\ Ready(g, "agg", "mwait")
    /\ open' = IF found THEN open \cup {t} ELSE open
    /\ CASE found ->
              /\ Becomes(g, "agg", IF KindOf[t] = "agg" THEN Next2(f)
                                   ELSE Next2With(f, t), <<>>)
              /\ UNCHANGED replies
         [] ~ found /\ f.tries < MaxTries ->
              Becomes(g, "agg", [f EXCEPT !.tries = @ + 1], <<>>) /\ TxReq(t)
         [] OTHER ->
              Becomes(g, "agg", [f EXCEPT !.pc = "done"], <<"err">>) /\ UNCHANGED replies
    /\ Leaves({"agg", "funds"})
    /\ UNCHANGED <<closed, stash, chan, job, slots, funds, main, prep>>

fetchAggTxData(g) ==
    \/ ErrSend(g, "agg") \/ Finish(g, "agg")
    \/ AggLook(g) \/ AggRequest(g) \/ AggTake(g) \/ AggTimeOut(g)
    \/ MemberLook(g) \/ MemberRequest(g) \/ MemberTimeOut(g)
    \/ \E c \in {"agg", "funds"} : MemberTake(g, c)

----------------------------------------------------------------------------
(* fetchFundsTxRecursively: one frame per active call, the innermost last. *)

Top(f) == Last(f.frames)

\* The head of the list is t: a payment is collected, an AggTx is entered.
Handle(f, t) ==
    LET here == [Top(f) EXCEPT !.todo = Tail(@)] IN
    IF KindOf[t] = "agg"
    THEN [f EXCEPT !.pc = "frame", !.frames = Append(Append(Front(@), here),
                [todo |-> Members[t], acc |-> <<>>, err |-> FALSE])]
    ELSE [f EXCEPT !.pc = "frame",
                   !.frames = Append(Front(@), [here EXCEPT !.acc = Append(@, t)])]

\* The innermost call returns (acc, err).  A caller appends what it got and
\* overwrites its own err with the one returned; fetchAggTxData, outermost,
\* overwrites the transactions it has so far, or reports the error and ends.
Return(g, f, acc, err) ==
    IF Len(f.frames) > 1
    THEN LET caller == f.frames[Len(f.frames) - 1]
             back == [caller EXCEPT !.acc = IF err THEN @ ELSE @ \o acc, !.err = err]
         IN  Becomes(g, "agg", [f EXCEPT !.pc = "frame",
                     !.frames = Append(Front(Front(@)), back)], <<>>)
    ELSE IF err THEN Becomes(g, "agg", [f EXCEPT !.pc = "done", !.frames = <<>>], <<"err">>)
    ELSE Becomes(g, "agg", [Next1(f) EXCEPT !.trans = acc, !.frames = <<>>], <<>>)

FrameLook(g) ==
    LET f == fetch[g]["agg"] IN
    /\ Ready(g, "agg", "frame")
    /\ IF Top(f).todo = <<>>
       THEN Return(g, f, Top(f).acc, Top(f).err)
       ELSE /\ Head(Top(f).todo) \in closed \cup open \cup Invalid
            /\ Becomes(g, "agg", Handle(f, Head(Top(f).todo)), <<>>)
    /\ UNCHANGED <<closed, open, stash, chan, replies, job, slots, funds, main,
                   prep, seen>>

FrameRequest(g) ==
    LET f == fetch[g]["agg"] IN
    /\ Ready(g, "agg", "frame")
    /\ Top(f).todo # <<>>
    /\ Head(Top(f).todo) \notin closed \cup open \cup Invalid
    /\ TxReq(Head(Top(f).todo))
    /\ Waits(g, "agg", [f EXCEPT !.pc = "fwait"])
    /\ UNCHANGED <<closed, open, stash, chan, job, slots, funds, main, prep>>

FrameTake(g, c) ==
    LET f == fetch[g]["agg"]
        t == Head(Top(f).todo)
        x == Head(chan[c])
    IN
    /\ Ready(g, "agg", "fwait")
    /\ Receive(c)
    /\ Noted(x, t, c)
    /\ IF x = t
       THEN Becomes(g, "agg", Handle(f, t), <<>>) /\ open' = open \cup {t}
       ELSE Return(g, f, <<>>, TRUE) /\ UNCHANGED open
    /\ UNCHANGED <<closed, replies, job, slots, funds, main, prep>>

\* An AggTx that is in its stash is then looked for in the stash of payments:
\* tx stays nil and tx.Hash() panics.
FrameTimeOut(g) ==
    LET f == fetch[g]["agg"]
        t == Head(Top(f).todo)
    IN
    /\ Ready(g, "agg", "fwait")
    /\ CASE AlreadyInStash("funds", t) ->
              /\ Becomes(g, "agg", Handle(f, t), <<>>)
              /\ open' = open \cup {t}
              /\ UNCHANGED main
         [] AlreadyInStash("agg", t) ->
              main' = [main EXCEPT !.pc = "crashed"] /\ UNCHANGED <<fetch, errs, open>>
         [] OTHER ->
              Return(g, f, <<>>, TRUE) /\ UNCHANGED <<open, main>>
    /\ Leaves({"agg", "funds"})
    /\ UNCHANGED <<closed, stash, chan, replies, job, slots, funds, prep>>

fetchFundsTxRecursively(g) ==
    \/ FrameLook(g) \/ FrameRequest(g) \/ FrameTimeOut(g)
    \/ \E c \in {"agg", "funds"} : FrameTake(g, c)

----------------------------------------------------------------------------
(* The goroutine that holds blockValidation: validate or prepareBlock.     *)

\* fetchTransactions starts the goroutines, with channels of their own.  One
\* that has nothing to fetch has sent its nil, and main has read it.
Begin ==
    LET g == main.gen + 1
        b == Coming.block
        busy == {k \in Kinds : Blocks[b][k] # <<>>}
    IN
    /\ main.pc = "idle" /\ prep = NoTx
    /\ More
    /\ main' = [pc |-> IF busy = {} THEN "gather" ELSE "collect", gen |-> g,
                cnt |-> nrOfChannels - Cardinality(busy), calls |-> Tail(main.calls)]
    /\ job' = [job EXCEPT ![g] = [block |-> b, init |-> Coming.init, result |-> "none"]]
    /\ fetch' = [fetch EXCEPT ![g] = [k \in Kinds |->
                    IF k \in busy THEN [Idle EXCEPT !.pc = "next"] ELSE Idle]]
    /\ UNCHANGED <<closed, open, stash, chan, replies, errs, slots, funds, prep, seen>>

\* It takes one report; the first error ends it.
Collect ==
    LET g == main.gen
        last == main.cnt + 1 = nrOfChannels
    IN
    /\ main.pc = "collect"
    /\ errs[g] # <<>>
    /\ errs' = [errs EXCEPT ![g] = Tail(@)]
    /\ IF Head(errs[g]) = "err"
       THEN /\ job' = [job EXCEPT ![g].result = "err"]
            /\ main' = [main EXCEPT !.pc = "idle"]
       ELSE /\ main' = [main EXCEPT !.cnt = @ + 1,
                                    !.pc = IF last THEN "gather" ELSE "collect"]
            /\ UNCHANGED job
    /\ UNCHANGED <<closed, open, stash, chan, replies, fetch, slots, funds, prep, seen>>

\* After six nils it takes the aggregated payments; ten minutes without them
\* are an error.
Gather ==
    LET g == main.gen
        missing == Blocks[job[g].block]["agg"] # <<>> /\ funds[g] = <<>>
    IN
    /\ main.pc = "gather"
    /\ job' = [job EXCEPT ![g].result = IF missing THEN "err" ELSE "ok"]
    /\ main' = [main EXCEPT !.pc = IF missing THEN "idle" ELSE "fetched"]
    /\ UNCHANGED <<closed, open, stash, chan, replies, fetch, errs, slots, funds,
                   prep, seen>>

\* What an AggTx aggregates and postValidate finds, up to the first it does not.
Moved(g, a) ==
    LET there(t) == t \in closed \cup open \cup ToSet(funds[g][1])
        n == CHOOSE m \in 0..Len(Members[a]) :
                /\ \A i \in 1..m : there(Members[a][i])
                /\ m < Len(Members[a]) => ~ there(Members[a][m + 1])
    IN  {Members[a][i] : i \in 1..n}

\* validateState accepts the block or not; postValidate moves the
\* transactions of an accepted block to closed storage.
Conclude(valid) ==
    LET g == main.gen
        own == UNION {ToSet(slots[g][k]) : k \in Kinds}
        inner == UNION {Moved(g, a) : a \in ToSet(slots[g]["agg"])}
        rec == IF job[g].init /\ funds[g] # <<>> THEN ToSet(funds[g][1]) ELSE {}
    IN
    /\ main.pc = "fetched"
    /\ main' = [main EXCEPT !.pc = "idle"]
    /\ closed' = IF valid THEN closed \cup own \cup inner \cup rec ELSE closed
    /\ open' = IF valid THEN open \ (own \cup inner \cup rec) ELSE open
    /\ UNCHANGED <<stash, chan, replies, job, fetch, errs, slots, funds, prep, seen>>

\* prepareBlock misses the payment t of a sender whose later payment it has:
\* it asks for it by sender and counter.
SeekMissing(t) ==
    /\ main.pc = "idle" /\ prep = NoTx /\ More
    /\ KindOf[t] = "funds"
    /\ t \notin open \cup closed \cup Invalid
    /\ \E u \in open : KindOf[u] = "funds" /\ Sender[u] = Sender[t] /\ TxCnt[u] > TxCnt[t]
    /\ TxReq(t)
    /\ prep' = t
    /\ seen' = [seen EXCEPT !.shared = @ \cup {c \in {"funds"} :
                   \E h \in Calls, l \in Kinds : c \in Listens(fetch[h][l], l)}]
    /\ UNCHANGED <<closed, open, stash, chan, job, fetch, errs, slots, funds, main>>

\* It takes whatever payment comes, unless both sender and counter are wrong.
SeekTake ==
    LET x == Head(chan["funds"]) IN
    /\ prep # NoTx
    /\ Receive("funds")
    /\ open' = IF TxCnt[x] # TxCnt[prep] /\ Sender[x] # Sender[prep]
               THEN open ELSE open \cup {x}
    /\ Noted(x, prep, "funds")
    /\ prep' = NoTx
    /\ UNCHANGED <<closed, replies, job, fetch, errs, slots, funds, main>>

SeekTimeOut ==
    /\ prep # NoTx
    /\ open' = IF AlreadyInStash("funds", prep) THEN open \cup {prep} ELSE open
    /\ prep' = NoTx
    /\ Leaves({"funds"})
    /\ UNCHANGED <<closed, stash, chan, replies, job, fetch, errs, slots, funds, main>>

----------------------------------------------------------------------------

\* The goroutines of call g.
Fetchers(g) ==
    \/ fetchAccTxData(g) \/ fetchFundsTxData(g) \/ fetchConfigTxData(g)
    \/ fetchStakeTxData(g) \/ fetchUpdateTxData(g)
    \/ fetchAggTxData(g) \/ fetchFundsTxRecursively(g)

Validate ==
    \/ Begin \/ Collect \/ Gather
    \/ \E valid \in BOOLEAN : Conclude(valid)

Next ==
    \/ \E g \in Calls : Fetchers(g)
    \/ Validate
    \/ \E t \in Tx : forwardTxReqToMiner(t) \/ processTxBrdcst(t) \/ SeekMissing(t)
    \/ SeekTake \/ SeekTimeOut

\* The Go scheduler and the timers let some goroutine of a fetch go on as long
\* as one can.  Each takes finitely many steps, so this weak condition is all
\* that a return needs; nothing is assumed of the network.
Run ==
    \/ \E g \in Calls : Fetchers(g)
    \/ Collect \/ Gather

Spec == Init /\ [][Next]_vars /\ WF_vars(Run)

----------------------------------------------------------------------------
(* Properties.                                                             *)

Frame == [todo : Seq(Inner), acc : Seq(Tx), err : BOOLEAN]
Fetcher == [pc : {"next", "wait", "member", "mwait", "frame", "fwait", "done"},
            i : Nat, j : Nat, tries : 0..MaxTries, cur : Tx \cup {NoTx},
            trans : Seq(Tx), frames : Seq(Frame), out : Seq({"nil", "err"})]

\* The stashes, the channels and errChan keep their bounds: a kind with a
\* stash has at most one handler at its channel, the one with the mutex.
TypeOK ==
    /\ closed \subseteq Tx /\ open \subseteq Tx
    /\ \A k \in Kinds : /\ stash[k] \in Seq(Tx) /\ Len(stash[k]) <= StashMax + 1
                        /\ chan[k] \in Seq(Tx)
                        /\ k \in Stashed => Len(chan[k]) <= 1
    /\ replies \in [Tx -> 0..MaxReplies]
    /\ \A g \in Calls : /\ errs[g] \in Seq({"nil", "err"})
                        /\ Len(errs[g]) <= nrOfChannels
                        /\ job[g].result \in Results
                        /\ \A k \in Kinds : fetch[g][k] \in Fetcher
    /\ main.pc \in {"idle", "collect", "gather", "fetched", "crashed"}
    /\ prep \in Tx \cup {NoTx}

\* A fetch that returns without error has filled every slice with exactly the
\* transactions the block names, although a goroutine that received a foreign
\* one or none stores it and carries on: its error is on errChan before its
\* nil, and nobody reports nil twice.
FetchedIsNamed ==
    \A g \in Calls : job[g].result = "ok" =>
        \A k \in Kinds : slots[g][k] = Blocks[job[g].block][k]

\* Outside the start-up, the payments a validation takes from a block's AggTxs
\* are payments they aggregate, and none is left out: those collected and those
\* already closed make up all, whatever came over which channel in between.
PaymentsComplete ==
    \A g \in Calls : job[g].result = "ok" /\ ~ job[g].init /\ main.gen = g
                        /\ main.pc = "fetched" /\ funds[g] # <<>> =>
        LET aggs == ToSet(Blocks[job[g].block]["agg"])
            inner == {t \in UNION {ToSet(Members[a]) : a \in aggs} : KindOf[t] = "funds"}
        IN  /\ ToSet(funds[g][1]) \subseteq inner
            /\ inner \subseteq ToSet(funds[g][1]) \cup closed

\* Channels on which one goroutine may take the answer of another.
Together(k) == IF k \in {"agg", "funds"} THEN {"agg", "funds"} ELSE {k}

\* The stash does its work: a goroutine gets a transaction it did not ask for
\* only where, on its channel or on one that a single select shares with it,
\* somebody gave up waiting, the full stash forgot an answer, or two waited at
\* once; never just because several miners answered one request.
StashFilters ==
    \A k \in seen.wrong \cap Stashed :
        Together(k) \cap (seen.loose \cup seen.shared) # {}

\* Every call of fetchTransactions returns, whatever is lost: nobody waits
\* without a clock and errChan never keeps the first error from being read.
Returns ==
    \A g \in Calls :
        (main.gen = g /\ main.pc = "collect")
            ~> (job[g].result # "none" \/ main.pc = "crashed")

============================================================================
