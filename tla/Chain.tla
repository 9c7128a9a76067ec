------------------------------- MODULE Chain -------------------------------
(***************************************************************************)
(* The block store of one miner and everything that changes it: validation *)
(* of received and of self-mined blocks under the blockValidation mutex,   *)
(* the search for the common ancestor (with block requests to the network),*)
(* the rollback of the losing branch, the validation of the winning one,   *)
(* and the mining loop that reads lastBlock without holding the mutex.     *)
(*                                                                         *)
(* A block is identified with its hash.  The tree of all blocks that exist *)
(* anywhere in the network is given by the constants; honest miners set    *)
(* Height to the height of the parent plus one (newBlock in mining()).     *)
(***************************************************************************)
EXTENDS Integers, Sequences, SequencesExt

CONSTANTS
    Block,        \* every block that exists or will be mined
    Genesis,      \* the block with the all-zero hash
    Prev,         \* Prev[b]: the block whose hash is b.PrevHash
    Height,       \* Height[b]: b.Height
    Anc,          \* Anc[b]: the proper ancestors of b
    Own,          \* the blocks this node may mine
    InitTip,      \* the last block initState validated
    EmptyAfter,   \* NO_EMPTYING_LENGTH
    StashCap,     \* capacity of ReceivedBlockStash (100)
    MaxReorg,     \* bound on the length of blocksToRollback
    Faults,       \* what the environment may do, see FaultKinds
    Nil           \* the nil pointer

FaultKinds == {
    "lost",       \* a block request stays unanswered (or NOT_FOUND)
    "late",       \* an answer arrives after BLOCKFETCH_TIMEOUT
    "dup",        \* more than one miner answers the broadcast request
    "reject"}     \* a block fails preValidate, fetchTransactions or validateState,
                  \* or preValidateRollback misses a transaction

Threads == {"incoming", "mining"}     \* incomingData() and mining()

Path(b) == Anc[b] \cup {b}

ASSUME TreeAssumption ==
    /\ Nil \notin Block \cup Threads
    /\ Genesis \in Block
    /\ Prev \in [Block -> Block]
    /\ Height \in [Block -> Nat]
    /\ Anc \in [Block -> SUBSET Block]
    /\ Prev[Genesis] = Genesis        \* all hash fields of the genesis block are zero
    /\ Height[Genesis] = 0
    /\ Anc[Genesis] = {}
    /\ \A b \in Block \ {Genesis} :
          /\ Height[b] = Height[Prev[b]] + 1
          /\ Anc[b] = Path(Prev[b])
    /\ \A b \in Block : Genesis \in Path(b)
    /\ \A b \in Block : \A a \in Anc[b] :
          /\ Height[a] < Height[b]
          /\ Anc[a] \subseteq Anc[b]

ASSUME ParameterAssumption ==
    /\ Own \subseteq Block \ {Genesis}
    /\ InitTip \in Block
    /\ EmptyAfter \in Nat
    /\ StashCap \in Nat \ {0}
    /\ MaxReorg \in Nat
    /\ Faults \subseteq FaultKinds

VARIABLES
    closed,       \* bucket closedblocks
    withoutTx,    \* bucket closedblockswithouttx
    lastclosed,   \* bucket lastclosedblock (Nil when empty)
    lastBlock,    \* the global lastBlock pointer
    stash,        \* ReceivedBlockStash, oldest first
    mutex,        \* holder of blockValidation, or Nil
    pc,           \* where each goroutine is
    arg,          \* the block each goroutine wants validated
    minePrev,     \* PrevHash of the block being mined
    mined,        \* own blocks produced so far
    newBlock,     \* getNewChain: the block being walked
    newChain,     \* getNewChain: the branch found so far, oldest first
    ancestor,     \* getNewChain: the common ancestor
    tmpBlock,     \* getBlockSequences: the block being walked
    toRollback,   \* blocksToRollback
    answers,      \* BLOCK_RES messages travelling to this node
    reqChan,      \* BlockReqChan: the block its blocked sender offers, or Nil
    oldTip,       \* history: lastBlock when the running validation started
    stale         \* history: blocks an unexpected answer was under way with

storeVars == <<closed, withoutTx, lastclosed>>
walkVars  == <<newBlock, newChain, ancestor, tmpBlock, toRollback>>
netVars   == <<answers, reqChan, stale>>
mineVars  == <<minePrev, mined>>
vars == <<storeVars, lastBlock, stash, mutex, pc, arg, mineVars, walkVars,
          netVars, oldTip>>

Stages  == {"walk", "fetch", "count", "rollback", "unstore", "validate", "store"}
PCs     == {"idle", "prepare", "mine", "panic", "lock"} \cup Stages

Stored == closed \cup withoutTx       \* what either closed bucket holds

(* A block is known to the network unless this node has yet to mine it.    *)
Known == (Block \ Own) \cup mined

(* Bucket openblocks: only the tests of the storage package write to it.   *)
(* getNewChain looks the parent up there too, and would look for ever.     *)
OpenBlocks == {}

(* Answers nobody waits for that the received stash would not filter out.  *)
(* They come into being when a request is given up, when another block is  *)
(* taken for its answer, or when the stash drops a block that several      *)
(* miners have sent.                                                       *)
Unexpected ==
    {b \in answers : b \notin ToSet(stash)
                     /\ ~ \E t \in Threads : pc[t] = "fetch" /\ Prev[newBlock] = b}

----------------------------------------------------------------------------
(* After Init() and initState(): the chain up to InitTip is closed, the    *)
(* mining goroutine is about to work on a child of the initial block.      *)
Init ==
    /\ closed = Path(InitTip)
    /\ withoutTx = {}
    /\ lastclosed = InitTip
    /\ lastBlock = InitTip
    /\ stash = <<>>
    /\ mutex = Nil
    /\ pc = [t \in Threads |-> IF t = "mining" THEN "mine" ELSE "idle"]
    /\ arg = [t \in Threads |-> Nil]
    /\ minePrev = InitTip
    /\ mined = {}
    /\ newBlock = Nil
    /\ newChain = <<>>
    /\ ancestor = Nil
    /\ tmpBlock = Nil
    /\ toRollback = <<>>
    /\ answers = {}
    /\ reqChan = Nil
    /\ oldTip = InitTip
    /\ stale = {}

(* Mutant: the capacity check is off by one.                               *)
StashOverfull(s, b) ==
    IF b \in ToSet(s) THEN s
    ELSE IF Len(s) <= StashCap THEN Append(s, b) ELSE Tail(Append(s, b))

(* WriteToReceivedStash: no duplicates, the oldest entry is dropped.       *)
WriteToReceivedStash(s, b) ==
    IF b \in ToSet(s) THEN s
    ELSE IF Len(s) < StashCap THEN Append(s, b) ELSE Tail(Append(s, b))

(* getNewChain appends the walked blocks and inverts the array at the end. *)
NotInverted(b, branch) == Append(branch, b)                     \* mutant
AddToBranch(b, branch) == <<b>> \o branch

(* getBlockSequences appends: the blocks to roll back start with the tip.  *)
OldestFirst(blocks, b) == <<b>> \o blocks                       \* mutant
AddToRollback(blocks, b) == Append(blocks, b)

(* Only a strictly longer branch replaces the current one.                 *)
AnyBranch(branch, blocks) == branch # <<>>                      \* mutant
TwoAhead(branch, blocks) == Len(branch) > Len(blocks) + 1       \* mutant
Outgrows(branch, blocks) == Len(branch) > Len(blocks)

(* The deferred unlock of validate; each goroutine returns to its loop.    *)
Finish(t) ==
    /\ mutex' = Nil
    /\ pc' = [pc EXCEPT ![t] = IF t = "mining" THEN "prepare" ELSE "idle"]
    /\ arg' = [arg EXCEPT ![t] = Nil]
    /\ newBlock' = Nil
    /\ newChain' = <<>>
    /\ ancestor' = Nil
    /\ tmpBlock' = Nil
    /\ toRollback' = <<>>

Goto(t, stage) == pc' = [pc EXCEPT ![t] = stage]

----------------------------------------------------------------------------
(* incomingData/processBlock: a block that is not closed goes to the stash *)
(* before the mutex is requested.                                          *)
Receive(b) ==
    /\ pc["incoming"] = "idle"
    /\ b \in Known \ closed
    /\ stash' = WriteToReceivedStash(stash, b)
    /\ arg' = [arg EXCEPT !["incoming"] = b]
    /\ Goto("incoming", "lock")
    /\ UNCHANGED <<storeVars, lastBlock, mutex, mineVars, walkVars, answers,
                   reqChan, oldTip>>
    /\ stale' = stale \cup Unexpected'

(* validate: the lock, and the check whether the block is closed already.  *)
Lock(t) ==
    /\ pc[t] = "lock"
    /\ mutex = Nil
    /\ oldTip' = lastBlock
    /\ IF arg[t] \in closed
       THEN Finish(t)
       ELSE /\ mutex' = t
            /\ newBlock' = arg[t]
            /\ Goto(t, "walk")
            /\ UNCHANGED <<arg, newChain, ancestor, tmpBlock, toRollback>>
    /\ UNCHANGED <<storeVars, lastBlock, stash, mineVars, netVars>>

(* The block getBlockSequences starts from.                                *)
CurrentTip == IF lastBlock # Nil THEN lastBlock ELSE lastclosed
TipAssumed == FALSE                                             \* mutant
TipMissing == CurrentTip = Nil

(* getNewChain, one iteration whose parent is in a closed bucket, and the  *)
(* nil checks of getBlockSequences that follow.                            *)
FoundAncestor(t) ==
    /\ pc[t] = "walk"
    /\ Prev[newBlock] \in Stored
    /\ IF TipMissing
       THEN Finish(t)
       ELSE /\ newChain' = AddToBranch(newBlock, newChain)
            /\ ancestor' = Prev[newBlock]
            /\ tmpBlock' = CurrentTip
            /\ Goto(t, "count")
            /\ UNCHANGED <<newBlock, toRollback, mutex, arg>>
    /\ UNCHANGED <<storeVars, lastBlock, stash, mineVars, netVars, oldTip>>

(* getNewChain, one iteration whose parent is in the received stash and in *)
(* none of the buckets of blocks.                                          *)
TakeFromStash(t) ==
    /\ pc[t] = "walk"
    /\ Prev[newBlock] \notin Stored \cup OpenBlocks
    /\ Prev[newBlock] \in ToSet(stash)
    /\ newChain' = AddToBranch(newBlock, newChain)
    /\ newBlock' = Prev[newBlock]
    /\ UNCHANGED <<storeVars, lastBlock, stash, mutex, pc, arg, mineVars,
                   ancestor, tmpBlock, toRollback, netVars, oldTip>>

(* getNewChain, one iteration that has to ask the network: BlockReq sends  *)
(* the request to every miner, the goroutine then waits on BlockReqChan.   *)
RequestBlock(t) ==
    /\ pc[t] = "walk"
    /\ Prev[newBlock] \notin Stored \cup OpenBlocks
    /\ Prev[newBlock] \notin ToSet(stash)
    /\ newChain' = AddToBranch(newBlock, newChain)
    /\ answers' = answers \cup {Prev[newBlock]}
    /\ Goto(t, "fetch")
    /\ UNCHANGED <<storeVars, lastBlock, stash, mutex, arg, mineVars, newBlock,
                   ancestor, tmpBlock, toRollback, reqChan, oldTip, stale>>

(* The select takes whatever block is offered on the channel.              *)
ReceiveAnswer(t) ==
    /\ pc[t] = "fetch"
    /\ reqChan # Nil
    /\ newBlock' = reqChan
    /\ stash' = WriteToReceivedStash(stash, reqChan)
    /\ reqChan' = Nil
    /\ Goto(t, "walk")
    /\ UNCHANGED <<storeVars, lastBlock, mutex, arg, mineVars, newChain,
                   ancestor, tmpBlock, toRollback, answers, oldTip>>
    /\ stale' = stale \cup Unexpected'

(* The timer of the select fires: the requested block is searched in the   *)
(* stash once more, else the search is given up.                           *)
Timeout(t) ==
    /\ pc[t] = "fetch"
    /\ "late" \in Faults \/ (Prev[newBlock] \notin answers /\ reqChan = Nil)
    /\ IF Prev[newBlock] \in ToSet(stash)
       THEN /\ newBlock' = Prev[newBlock]
            /\ Goto(t, "walk")
            /\ UNCHANGED <<mutex, arg, newChain, ancestor, tmpBlock, toRollback>>
       ELSE Finish(t)
    /\ UNCHANGED <<storeVars, lastBlock, stash, mineVars, answers, reqChan, oldTip>>
    /\ stale' = stale \cup Unexpected' \cup ({reqChan} \ {Nil})

(* Mutant: an answer that is in the stash already is offered all the same. *)
ForwardAgain(b) ==
    /\ b \in answers
    /\ pc["mining"] # "panic"
    /\ reqChan = Nil
    /\ answers' = answers \ {b} \/ ("dup" \in Faults /\ answers' = answers)
    /\ stash' = WriteToReceivedStash(stash, b)
    /\ reqChan' = b
    /\ UNCHANGED <<storeVars, lastBlock, mutex, pc, arg, mineVars, walkVars, oldTip>>
    /\ stale' = stale \cup Unexpected'

(* forwardBlockReqToMiner: the peer goroutine stores the answer in the     *)
(* stash and blocks on the unbuffered channel while it holds               *)
(* blockStashMutex; an answer that is in the stash already is dropped.     *)
ForwardAnswer(b) ==
    /\ b \in answers
    /\ pc["mining"] # "panic"
    /\ reqChan = Nil
    /\ answers' = answers \ {b} \/ ("dup" \in Faults /\ answers' = answers)
    /\ IF b \in ToSet(stash)
       THEN UNCHANGED <<stash, reqChan>>
       ELSE /\ stash' = WriteToReceivedStash(stash, b)
            /\ reqChan' = b
    /\ UNCHANGED <<storeVars, lastBlock, mutex, pc, arg, mineVars, walkVars, oldTip>>
    /\ stale' = stale \cup Unexpected'

(* No miner has the block (NOT_FOUND), or the connection broke.            *)
LoseAnswer(b) ==
    /\ "lost" \in Faults
    /\ b \in answers
    /\ answers' = answers \ {b}
    /\ UNCHANGED <<storeVars, lastBlock, stash, mutex, pc, arg, mineVars,
                   walkVars, reqChan, oldTip, stale>>

(* getBlockSequences, one step from the tip towards the ancestor.          *)
CountRollback(t) ==
    /\ pc[t] = "count"
    /\ tmpBlock # ancestor
    /\ Len(toRollback) < MaxReorg
    /\ IF Prev[tmpBlock] \in Stored
       THEN /\ toRollback' = AddToRollback(toRollback, tmpBlock)
            /\ tmpBlock' = Prev[tmpBlock]
            /\ UNCHANGED <<mutex, pc, arg, newBlock, newChain, ancestor>>
       ELSE Finish(t)
    /\ UNCHANGED <<storeVars, lastBlock, stash, mineVars, netVars, oldTip>>

(* getBlockSequences compares the lengths; the longer branch wins.         *)
CompareLengths(t) ==
    /\ pc[t] = "count"
    /\ tmpBlock = ancestor
    /\ IF Outgrows(newChain, toRollback)
       THEN Goto(t, "rollback") /\ UNCHANGED <<mutex, arg, walkVars>>
       ELSE Finish(t)
    /\ UNCHANGED <<storeVars, lastBlock, stash, mineVars, netVars, oldTip>>

----------------------------------------------------------------------------
(* Mutant: the rollback of the statistics leaves lastBlock where it was.   *)
KeepLastBlock(t) ==
    /\ pc[t] = "rollback"
    /\ toRollback # <<>>
    /\ Goto(t, "unstore")
    /\ UNCHANGED <<storeVars, lastBlock, stash, mutex, arg, mineVars, walkVars,
                   netVars, oldTip>>

(* rollback of the next block up to collectStatisticsRollback, which moves *)
(* lastBlock and only looks into the closedblocks bucket.                  *)
RollbackStatistics(t) ==
    /\ pc[t] = "rollback"
    /\ toRollback # <<>>
    /\ LET p == Prev[Head(toRollback)] IN
       lastBlock' = IF p \in closed THEN p ELSE Nil
    /\ Goto(t, "unstore")
    /\ UNCHANGED <<storeVars, stash, mutex, arg, mineVars, walkVars, netVars, oldTip>>

(* The rest of postValidateRollback: the block leaves closedblocks and is  *)
(* kept in the stash, its parent becomes the last closed block if it is in *)
(* closedblocks (the second lookup uses that bucket too).                  *)
RollbackStore(t) ==
    /\ pc[t] = "unstore"
    /\ LET b == Head(toRollback) IN
       /\ closed' = closed \ {b}
       /\ stash' = WriteToReceivedStash(stash, b)
       /\ lastclosed' = IF Prev[b] \in closed' THEN Prev[b] ELSE Nil
    /\ toRollback' = Tail(toRollback)
    /\ Goto(t, "rollback")
    /\ UNCHANGED <<withoutTx, lastBlock, mutex, arg, mineVars, newBlock, newChain,
                   ancestor, tmpBlock, answers, reqChan, oldTip>>
    /\ stale' = stale \cup Unexpected'

(* preValidateRollback misses a transaction: validate returns the error    *)
(* with the blocks above already rolled back.                              *)
RollbackFails(t) ==
    /\ pc[t] = "rollback"
    /\ toRollback # <<>>
    /\ "reject" \in Faults
    /\ Finish(t)
    /\ UNCHANGED <<storeVars, lastBlock, stash, mineVars, netVars, oldTip>>

RollbackDone(t) ==
    /\ pc[t] = "rollback"
    /\ toRollback = <<>>
    /\ Goto(t, "validate")
    /\ UNCHANGED <<storeVars, lastBlock, stash, mutex, arg, mineVars, walkVars,
                   netVars, oldTip>>

(* preValidate, fetchTransactions and validateState of the next block all  *)
(* succeed; postValidate starts with collectStatistics, which sets         *)
(* lastBlock.                                                              *)
ValidateStatistics(t) ==
    /\ pc[t] = "validate"
    /\ newChain # <<>>
    /\ lastBlock' = Head(newChain)
    /\ Goto(t, "store")
    /\ UNCHANGED <<storeVars, stash, mutex, arg, mineVars, walkVars, netVars, oldTip>>

(* Closed blocks more than EmptyAfter below b; UpdateBlocksToBlocksWithoutTx *)
(* moves the ones whose transactions are all aggregated (decided by the    *)
(* aggregation, hence any subset).                                         *)
OldBlocks(b, blocks) ==
    {x \in blocks : Height[x] > 0 /\ Height[x] < Height[b] - EmptyAfter}

(* The rest of postValidate: the block is closed, old blocks are emptied   *)
(* (ReadAllClosedBlocks yields nothing while lastclosedblock is empty),    *)
(* and the block becomes the last closed block.                            *)
ValidateStore(t) ==
    /\ pc[t] = "store"
    /\ LET b == Head(newChain)
           old == IF lastclosed = Nil THEN {} ELSE OldBlocks(b, closed \cup {b}) IN
       \E emptied \in SUBSET old :
          /\ closed' = (closed \cup {b}) \ emptied
          /\ withoutTx' = withoutTx \cup emptied
          /\ lastclosed' = b
    /\ newChain' = Tail(newChain)
    /\ Goto(t, "validate")
    /\ UNCHANGED <<lastBlock, stash, mutex, arg, mineVars, newBlock, ancestor,
                   tmpBlock, toRollback, netVars, oldTip>>

(* One of the checks of the next block fails: validate returns the error   *)
(* and leaves the store as it is.                                          *)
RejectBlock(t) ==
    /\ pc[t] = "validate"
    /\ newChain # <<>>
    /\ "reject" \in Faults
    /\ Finish(t)
    /\ UNCHANGED <<storeVars, lastBlock, stash, mineVars, netVars, oldTip>>

ValidateDone(t) ==
    /\ pc[t] = "validate"
    /\ newChain = <<>>
    /\ Finish(t)
    /\ UNCHANGED <<storeVars, lastBlock, stash, mineVars, netVars, oldTip>>

----------------------------------------------------------------------------
(* mining: under the mutex the next block is created on top of lastBlock;  *)
(* a nil lastBlock is dereferenced, which ends the process.                *)
PrepareBlock ==
    /\ pc["mining"] = "prepare"
    /\ mutex = Nil
    /\ IF lastBlock = Nil
       THEN pc' = [t \in Threads |-> "panic"] /\ UNCHANGED minePrev
       ELSE Goto("mining", "mine") /\ minePrev' = lastBlock
    /\ UNCHANGED <<storeVars, lastBlock, stash, mutex, arg, mined, walkVars,
                   netVars, oldTip>>

(* proofOfStake runs without the mutex; every second it repairs a nil      *)
(* lastBlock from the lastclosedblock bucket.                              *)
Repaired == IF lastBlock = Nil THEN lastclosed ELSE lastBlock

MineTick ==
    /\ pc["mining"] = "mine"
    /\ lastBlock = Nil
    /\ minePrev = Repaired
    /\ lastBlock' = Repaired
    /\ UNCHANGED <<storeVars, stash, mutex, pc, arg, mineVars, walkVars, netVars, oldTip>>

(* finalizeBlock gives up: an error before proofOfStake, no last block,    *)
(* another tip, or mined too long.                                         *)
MineAbort ==
    /\ pc["mining"] = "mine"
    /\ lastBlock' \in {lastBlock, Repaired}
    /\ Goto("mining", "prepare")
    /\ UNCHANGED <<storeVars, stash, mutex, arg, mineVars, walkVars, netVars, oldTip>>

(* proofOfStake succeeds while the tip is still the block mined upon.      *)
MineFound(b) ==
    /\ pc["mining"] = "mine"
    /\ lastBlock' = Repaired
    /\ minePrev = Repaired
    /\ b \in Own \ mined
    /\ Prev[b] = minePrev
    /\ mined' = mined \cup {b}
    /\ arg' = [arg EXCEPT !["mining"] = b]
    /\ Goto("mining", "lock")
    /\ UNCHANGED <<storeVars, stash, mutex, minePrev, walkVars, netVars, oldTip>>

----------------------------------------------------------------------------
Step(t) ==
    \/ Lock(t)
    \/ FoundAncestor(t) \/ TakeFromStash(t) \/ RequestBlock(t)
    \/ ReceiveAnswer(t) \/ Timeout(t)
    \/ CountRollback(t) \/ CompareLengths(t)
    \/ RollbackStatistics(t) \/ RollbackStore(t) \/ RollbackFails(t) \/ RollbackDone(t)
    \/ ValidateStatistics(t) \/ ValidateStore(t)
    \/ RejectBlock(t) \/ ValidateDone(t)

Next ==
    \/ \E t \in Threads : Step(t)
    \/ \E b \in Block : Receive(b) \/ ForwardAnswer(b) \/ LoseAnswer(b) \/ MineFound(b)
    \/ PrepareBlock \/ MineTick \/ MineAbort

Spec == Init /\ [][Next]_vars

(* The goroutines keep running, the Go mutex is starvation free, and the   *)
(* peer goroutines forward what they received.                             *)
Fairness ==
    /\ \A t \in Threads : WF_vars(Step(t)) /\ SF_vars(Lock(t))
    /\ \A b \in Block : WF_vars(ForwardAnswer(b))

FairSpec == Spec /\ Fairness

----------------------------------------------------------------------------
TypeOK ==
    /\ closed \in SUBSET Block
    /\ withoutTx \in SUBSET Block
    /\ lastclosed \in Block \cup {Nil}
    /\ lastBlock \in Block \cup {Nil}
    /\ stash \in Seq(Block) /\ Len(stash) <= StashCap
    /\ mutex \in Threads \cup {Nil}
    /\ pc \in [Threads -> PCs]
    /\ arg \in [Threads -> Block \cup {Nil}]
    /\ minePrev \in Block
    /\ mined \in SUBSET Own
    /\ newBlock \in Block \cup {Nil}
    /\ newChain \in Seq(Block)
    /\ ancestor \in Block \cup {Nil}
    /\ tmpBlock \in Block \cup {Nil}
    /\ toRollback \in Seq(Block)
    /\ answers \in SUBSET Block
    /\ reqChan \in Block \cup {Nil}
    /\ oldTip \in Block \cup {Nil}
    /\ stale \in SUBSET Block

(* validate and its callees never dereference a nil block and never take   *)
(* the head of an empty slice, even when a deep rollback has emptied both  *)
(* lastBlock and the lastclosedblock bucket.                               *)
PointersSet ==
    \A t \in Threads :
        /\ pc[t] \in {"walk", "fetch"} => newBlock # Nil
        /\ pc[t] = "count" => tmpBlock # Nil /\ ancestor # Nil
        /\ pc[t] = "unstore" => toRollback # <<>>
        /\ pc[t] = "store" => newChain # <<>>

(* The two closed buckets hold exactly the blocks of one chain, from the   *)
(* last closed block down to the genesis block, each in one bucket, and    *)
(* the last closed block still has its transactions.  Rollback, validation *)
(* and emptying all rely on this and have to restore it block by block.    *)
OneChain ==
    /\ lastclosed \in closed
    /\ Stored = Path(lastclosed)
    /\ closed \cap withoutTx = {}

(* Whenever no validation is running, the lastBlock pointer that mining    *)
(* and getBlockSequences use is the persisted last closed block.           *)
TipAgrees == mutex = Nil => lastBlock = lastclosed

(* A validation never leaves the node on a chain shorter than the one it   *)
(* started from: all checks that can reject a block come before a change.  *)
NoShrink == mutex = Nil /\ oldTip # Nil => lastBlock # Nil /\ Height[lastBlock] >= Height[oldTip]

(* Seen from outside the mutex, a whole reorganisation (walk, rollback of  *)
(* one branch, validation of the other) is one step to a higher block.     *)
LC == INSTANCE LongestChain WITH tip <- IF mutex = Nil THEN lastBlock ELSE oldTip

ImplementsLongestChain == LC!Spec

(* The branch getNewChain collects is a chain of successive blocks that    *)
(* ends in the block under validation, although answers come late, twice   *)
(* or not at all: only a block whose answer was under way when nobody      *)
(* waited for it and the stash did not hold it can be taken for another.   *)
NewChainLinked ==
    \A i \in 1 .. Len(newChain) - 1 :
        Prev[newChain[i + 1]] = newChain[i] \/ newChain[i] \in stale

(* No stored block ever loses its parent, not even by a reorganisation     *)
(* that reaches below the emptied blocks, as long as no unexpected answer  *)
(* was under way.                                                          *)
AncestorsStored == stale = {} => \A b \in closed : Prev[b] \in Stored

(* When every request is answered and every block is valid, a received     *)
(* block that reaches validation ends up on the chain or meets a chain at  *)
(* least as long.                                                          *)
Adopted ==
    \A b \in Block :
        (pc["incoming"] = "lock" /\ arg["incoming"] = b)
            ~> (lastBlock # Nil /\ Height[lastBlock] >= Height[b])

(* Blocks at least EmptyAfter below a tip are never reorganised: every     *)
(* other block is their ancestor or their descendant.                      *)
Settled(x) == \A c \in Block : x \in Path(c) \/ c \in Path(x)

ShallowForks ==
    \A t \in Block : \A x \in Path(t) :
        Height[t] >= Height[x] + EmptyAfter => Settled(x)

=============================================================================
