---------------------------- MODULE ChainProofs -----------------------------
(***************************************************************************)
(* Theorems about Chain, for every block tree and whatever the environment *)
(* does.  The first part: types, the agreement of program counters and     *)
(* mutex, no nil dereference in validate; which answers may be under way,  *)
(* and what the branch getNewChain collects is made of.                    *)
(*                                                                         *)
(* The second part holds as long as no unexpected answer was under way     *)
(* (stale is empty).  When forks are shallower than the emptied part of    *)
(* the chain, the two closed buckets hold one chain at every step of a     *)
(* reorganisation and the lastBlock pointer agrees with the persisted tip  *)
(* between validations.  If moreover no block is rejected, Chain           *)
(* implements LongestChain.  The last part is about forks of any depth,    *)
(* where the two buckets need not be one chain.                            *)
(***************************************************************************)
EXTENDS Chain, TLAPS

(* pc and mutex agree.                                                     *)
MutexInv ==
    /\ \A t \in Threads : pc[t] \in Stages <=> mutex = t
    /\ \A t \in Threads : pc[t] \in Stages \cup {"lock"} => arg[t] \in Block

At(stages) == mutex \in Threads /\ pc[mutex] \in stages

----------------------------------------------------------------------------
(* Types.  The pointers a stage dereferences are set in that stage.        *)
TypeInv ==
    /\ TypeOK
    /\ MutexInv
    /\ At({"walk", "fetch"}) => newBlock \in Block
    /\ At({"count"}) => tmpBlock \in Block /\ ancestor \in Block
    /\ At({"unstore"}) => toRollback # <<>>
    /\ At({"store"}) => newChain # <<>>

(* The nil pointer is neither a block nor a goroutine.                     *)
LEMMA NilFacts == Nil \notin Block
BY TreeAssumption

(* Writing to the received stash keeps it a sequence within its capacity.  *)
LEMMA StashType ==
    ASSUME NEW s \in Seq(Block), NEW b \in Block, Len(s) <= StashCap
    PROVE  /\ WriteToReceivedStash(s, b) \in Seq(Block)
           /\ Len(WriteToReceivedStash(s, b)) <= StashCap
<1>1. StashCap \in Nat \ {0}
  BY ParameterAssumption
<1>2. Append(s, b) \in Seq(Block) /\ Len(Append(s, b)) = Len(s) + 1
  OBVIOUS
<1>3. Tail(Append(s, b)) \in Seq(Block) /\ Len(Tail(Append(s, b))) = Len(s)
  BY <1>2
<1>4. QED
  BY <1>1, <1>2, <1>3 DEF WriteToReceivedStash

(* Elements of a typed stash are blocks.                                   *)
LEMMA StashElements ==
    ASSUME NEW s \in Seq(Block), NEW b \in ToSet(s)
    PROVE  b \in Block
BY DEF ToSet

(* Whatever is unexpected is an answer.                                    *)
LEMMA UnexpectedType == Unexpected' \subseteq answers' /\ Unexpected \subseteq answers
BY DEF Unexpected

(* The initial state is well typed.                                        *)
LEMMA InitTypeInv == Init => TypeInv
<1> SUFFICES ASSUME Init PROVE TypeInv
  OBVIOUS
<1> USE TreeAssumption, ParameterAssumption
<1>1. Path(InitTip) \subseteq Block
  BY DEF Path
<1>2. mutex = Nil /\ Nil \notin Threads
  BY DEF Init
<1>3. QED
  BY <1>1, <1>2 DEF Init, TypeInv, TypeOK, MutexInv, At, Threads, PCs, Stages

(* A branch grows at its old end by one block.                             *)
LEMMA BranchType ==
    ASSUME NEW s \in Seq(Block), NEW b \in Block
    PROVE  /\ AddToBranch(b, s) \in Seq(Block)
           /\ Len(AddToBranch(b, s)) = Len(s) + 1
           /\ AddToBranch(b, s)[1] = b
           /\ \A i \in 1 .. Len(s) : AddToBranch(b, s)[i + 1] = s[i]
<1>1. <<b>> \in Seq(Block) /\ Len(<<b>>) = 1 /\ <<b>>[1] = b
  OBVIOUS
<1>2. QED
  BY <1>1 DEF AddToBranch

(* The blocks to roll back grow at the far end by one block.               *)
LEMMA RollbackType ==
    ASSUME NEW s \in Seq(Block), NEW b \in Block
    PROVE  /\ AddToRollback(s, b) \in Seq(Block)
           /\ Len(AddToRollback(s, b)) = Len(s) + 1
           /\ AddToRollback(s, b)[Len(s) + 1] = b
           /\ \A i \in 1 .. Len(s) : AddToRollback(s, b)[i] = s[i]
BY DEF AddToRollback

(* Whoever holds the mutex in a stage is the goroutine in that stage.      *)
LEMMA HolderAt ==
    ASSUME MutexInv, NEW t \in Threads, NEW stages, pc[t] \in stages, stages \subseteq Stages
    PROVE  mutex = t /\ At(stages)
BY DEF MutexInv, At

(* A goroutine that leaves validate releases the mutex and its variables.  *)
LEMMA FinishType ==
    ASSUME TypeOK, NEW t \in Threads, Finish(t)
    PROVE  /\ mutex' = Nil
           /\ pc' \in [Threads -> PCs]
           /\ arg' \in [Threads -> Block \cup {Nil}]
           /\ newBlock' = Nil /\ ancestor' = Nil /\ tmpBlock' = Nil
           /\ newChain' = <<>> /\ newChain' \in Seq(Block)
           /\ toRollback' = <<>> /\ toRollback' \in Seq(Block)
BY DEF TypeOK, Finish, PCs

(* Every step keeps the types.                                             *)
LEMMA NextTypeInv == TypeInv /\ [Next]_vars => TypeInv'
<1> SUFFICES ASSUME TypeInv, [Next]_vars PROVE TypeInv'
  OBVIOUS
<1>c. /\ Nil \notin Block /\ Nil \notin Threads
      /\ Prev \in [Block -> Block]
      /\ Own \subseteq Block
  BY TreeAssumption, ParameterAssumption
<1>s. \A b \in Block : /\ WriteToReceivedStash(stash, b) \in Seq(Block)
                       /\ Len(WriteToReceivedStash(stash, b)) <= StashCap
  BY StashType DEF TypeInv, TypeOK
<1>e. ToSet(stash) \subseteq Block
  BY StashElements DEF TypeInv, TypeOK
<1>n. \A b \in Block : AddToBranch(b, newChain) \in Seq(Block)
  BY BranchType DEF TypeInv, TypeOK
<1>r. \A b \in Block : AddToRollback(toRollback, b) \in Seq(Block)
  BY RollbackType DEF TypeInv, TypeOK
<1>p. \A t \in Threads, x \in PCs : [pc EXCEPT ![t] = x] \in [Threads -> PCs]
  BY DEF TypeInv, TypeOK
<1>h. \A t \in Threads : Head(newChain) \in Block \/ newChain = <<>>
  BY DEF TypeInv, TypeOK
<1> USE <1>c DEF Goto, storeVars, walkVars, netVars, mineVars
<1>1. ASSUME NEW t \in Threads, Lock(t) PROVE TypeInv'
  <2>h. arg[t] \in Block
    BY <1>1 DEF Lock, TypeInv, MutexInv
  <2>1. CASE arg[t] \in closed
    <3>1. Finish(t)
      BY <1>1, <2>1 DEF Lock
    <3>2. TypeOK'
      BY <1>1, <3>1, FinishType DEF Lock, TypeInv, TypeOK
    <3>3. MutexInv'
      BY <1>1, <3>1, <2>h DEF Lock, Finish, TypeInv, TypeOK, MutexInv, Stages, Threads
    <3>4. QED
      BY <3>1, <3>2, <3>3 DEF Finish, TypeInv, At
  <2>2. CASE ~(arg[t] \in closed)
    <3>1. TypeOK'
      BY <1>1, <1>p, <2>2, <2>h DEF Lock, TypeInv, TypeOK, PCs, Stages
    <3>2. MutexInv'
      BY <1>1, <2>2, <2>h DEF Lock, TypeInv, TypeOK, MutexInv, Threads, Stages
    <3>3. QED
      BY <1>1, <2>2, <3>1, <3>2, <2>h DEF Lock, TypeInv, TypeOK, MutexInv, At, Threads, Stages
  <2>3. QED
    BY <2>1, <2>2
<1>2. ASSUME NEW t \in Threads, FoundAncestor(t) PROVE TypeInv'
  <2>h. mutex = t /\ At({"walk"}) /\ newBlock \in Block
    BY <1>2, HolderAt DEF FoundAncestor, TypeInv, TypeOK, At, MutexInv, Stages
  <2>1. CASE TipMissing
    <3>1. Finish(t)
      BY <1>2, <2>1 DEF FoundAncestor
    <3>2. TypeOK'
      BY <1>2, <3>1, FinishType DEF FoundAncestor, TypeInv, TypeOK
    <3>3. MutexInv'
      BY <1>2, <3>1, <2>h DEF FoundAncestor, Finish, TypeInv, TypeOK, MutexInv, Stages, Threads
    <3>4. QED
      BY <3>1, <3>2, <3>3 DEF Finish, TypeInv, At
  <2>2. CASE ~TipMissing
    <3>0. /\ newChain' = AddToBranch(newBlock, newChain)
          /\ ancestor' = Prev[newBlock]
          /\ tmpBlock' = CurrentTip
          /\ pc' = [pc EXCEPT ![t] = "count"]
          /\ UNCHANGED <<newBlock, toRollback, mutex, arg>>
          /\ UNCHANGED <<storeVars, lastBlock, stash, mineVars, netVars, oldTip>>
      BY <1>2, <2>2 DEF FoundAncestor
    <3>a. newChain' \in Seq(Block) /\ ancestor' \in Block
      BY <3>0, <2>h, <1>n
    <3>b. tmpBlock' \in Block
      BY <3>0, <2>2 DEF CurrentTip, TypeInv, TypeOK, TipMissing
    <3>d. pc' \in [Threads -> PCs]
      BY <3>0, <1>p DEF PCs, Stages
    <3>1. TypeOK'
      BY <3>0, <3>a, <3>b, <3>d DEF TypeInv, TypeOK
    <3>2. MutexInv'
      BY <1>2, <2>2, <2>h DEF FoundAncestor, TypeInv, TypeOK, MutexInv, Threads, Stages
    <3>3. QED
      BY <3>0, <3>1, <3>2, <3>a, <3>b, <2>h DEF TypeInv, At, MutexInv, TypeOK, Threads, Stages
  <2>3. QED
    BY <2>1, <2>2
<1>3. ASSUME NEW t \in Threads, TakeFromStash(t) PROVE TypeInv'
  <2>h. mutex = t /\ At({"walk"}) /\ newBlock \in Block
    BY <1>3, HolderAt DEF TakeFromStash, TypeInv, TypeOK, At, MutexInv, Stages
  <2>1. TypeOK'
    BY <1>3, <1>p, <2>h, <1>n, <1>e DEF TakeFromStash, TypeInv, TypeOK, PCs, Stages, Threads
  <2>2. MutexInv'
    BY <1>3 DEF TakeFromStash, TypeInv, TypeOK, MutexInv, Threads, Stages
  <2>3. QED
    BY <1>3, <2>1, <2>2, <2>h, <1>n, <1>e DEF TakeFromStash, TypeInv, TypeOK, MutexInv, At, Threads, Stages
<1>4. ASSUME NEW t \in Threads, RequestBlock(t) PROVE TypeInv'
  <2>h. mutex = t /\ At({"walk"}) /\ newBlock \in Block
    BY <1>4, HolderAt DEF RequestBlock, TypeInv, TypeOK, At, MutexInv, Stages
  <2>1. TypeOK'
    BY <1>4, <1>p, <2>h, <1>n, ZenonT(40) DEF RequestBlock, TypeInv, TypeOK, PCs, Stages, Threads
  <2>2. MutexInv'
    BY <1>4 DEF RequestBlock, TypeInv, TypeOK, MutexInv, Threads, Stages
  <2>3. QED
    BY <1>4, <2>1, <2>2, <2>h, <1>n DEF RequestBlock, TypeInv, TypeOK, MutexInv, At, Threads, Stages
<1>5. ASSUME NEW t \in Threads, ReceiveAnswer(t) PROVE TypeInv'
  <2>h. mutex = t /\ At({"fetch"}) /\ newBlock \in Block
    BY <1>5, HolderAt DEF ReceiveAnswer, TypeInv, TypeOK, At, MutexInv, Stages
  <2>1. TypeOK'
    BY <1>5, <1>p, <2>h, <1>s, UnexpectedType DEF ReceiveAnswer, TypeInv, TypeOK, PCs, Stages, Threads
  <2>2. MutexInv'
    BY <1>5 DEF ReceiveAnswer, TypeInv, TypeOK, MutexInv, Threads, Stages
  <2>3. QED
    BY <1>5, <2>1, <2>2, <2>h, <1>s DEF ReceiveAnswer, TypeInv, TypeOK, MutexInv, At, Threads, Stages
<1>6. ASSUME NEW t \in Threads, Timeout(t) PROVE TypeInv'
  <2>h. mutex = t /\ At({"fetch"}) /\ newBlock \in Block
    BY <1>6, HolderAt DEF Timeout, TypeInv, TypeOK, At, MutexInv, Stages
  <2>1. CASE Prev[newBlock] \notin ToSet(stash)
    <3>1. Finish(t)
      BY <1>6, <2>1 DEF Timeout
    <3>2. TypeOK'
      BY <1>6, <3>1, FinishType, UnexpectedType DEF Timeout, TypeInv, TypeOK
    <3>3. MutexInv'
      BY <1>6, <3>1, <2>h DEF Timeout, Finish, TypeInv, TypeOK, MutexInv, Stages, Threads
    <3>4. QED
      BY <3>1, <3>2, <3>3 DEF Finish, TypeInv, At
  <2>2. CASE ~(Prev[newBlock] \notin ToSet(stash))
    <3>1. TypeOK'
      BY <1>6, <1>p, <2>2, <2>h, <1>e, UnexpectedType, SMTT(40) DEF Timeout, TypeInv, TypeOK, PCs, Stages
    <3>2. MutexInv'
      BY <1>6, <2>2, <2>h DEF Timeout, TypeInv, TypeOK, MutexInv, Threads, Stages
    <3>3. QED
      BY <1>6, <2>2, <3>1, <3>2, <2>h, <1>e DEF Timeout, TypeInv, TypeOK, MutexInv, At, Threads, Stages
  <2>3. QED
    BY <2>1, <2>2
<1>7. ASSUME NEW t \in Threads, CountRollback(t) PROVE TypeInv'
  <2>h. mutex = t /\ At({"count"}) /\ tmpBlock \in Block
    BY <1>7, HolderAt DEF CountRollback, TypeInv, TypeOK, At, MutexInv, Stages
  <2>1. CASE Prev[tmpBlock] \notin Stored
    <3>1. Finish(t)
      BY <1>7, <2>1 DEF CountRollback
    <3>2. TypeOK'
      BY <1>7, <3>1, FinishType DEF CountRollback, TypeInv, TypeOK
    <3>3. MutexInv'
      BY <1>7, <3>1, <2>h DEF CountRollback, Finish, TypeInv, TypeOK, MutexInv, Stages, Threads
    <3>4. QED
      BY <3>1, <3>2, <3>3 DEF Finish, TypeInv, At
  <2>2. CASE ~(Prev[tmpBlock] \notin Stored)
    <3>1. TypeOK'
      BY <1>7, <1>p, <2>2, <2>h, <1>r, SMTT(60) DEF CountRollback, TypeInv, TypeOK, PCs, Stages, Stored
    <3>2. MutexInv'
      BY <1>7, <2>2, <2>h DEF CountRollback, TypeInv, TypeOK, MutexInv, Threads, Stages
    <3>3. QED
      BY <1>7, <2>2, <3>1, <3>2, <2>h, <1>r DEF CountRollback, TypeInv, TypeOK, MutexInv, At, Threads, Stages, Stored
  <2>3. QED
    BY <2>1, <2>2
<1>8. ASSUME NEW t \in Threads, CompareLengths(t) PROVE TypeInv'
  <2>h. mutex = t /\ At({"count"}) /\ tmpBlock \in Block
    BY <1>8, HolderAt DEF CompareLengths, TypeInv, TypeOK, At, MutexInv, Stages
  <2>1. CASE ~Outgrows(newChain, toRollback)
    <3>1. Finish(t)
      BY <1>8, <2>1 DEF CompareLengths
    <3>2. TypeOK'
      BY <1>8, <3>1, FinishType DEF CompareLengths, TypeInv, TypeOK
    <3>3. MutexInv'
      BY <1>8, <3>1, <2>h DEF CompareLengths, Finish, TypeInv, TypeOK, MutexInv, Stages, Threads
    <3>4. QED
      BY <3>1, <3>2, <3>3 DEF Finish, TypeInv, At
  <2>2. CASE ~(~Outgrows(newChain, toRollback))
    <3>1. TypeOK'
      BY <1>8, <1>p, <2>2, <2>h DEF CompareLengths, TypeInv, TypeOK, PCs, Stages
    <3>2. MutexInv'
      BY <1>8, <2>2, <2>h DEF CompareLengths, TypeInv, TypeOK, MutexInv, Threads, Stages
    <3>3. QED
      BY <1>8, <2>2, <3>1, <3>2, <2>h DEF CompareLengths, TypeInv, TypeOK, MutexInv, At, Threads, Stages
  <2>3. QED
    BY <2>1, <2>2
<1>9. ASSUME NEW t \in Threads, RollbackStatistics(t) PROVE TypeInv'
  <2>h. mutex = t /\ At({"rollback"}) /\ Head(toRollback) \in Block
    BY <1>9, HolderAt DEF RollbackStatistics, TypeInv, TypeOK, At, MutexInv, Stages
  <2>1. TypeOK'
    BY <1>9, <1>p, <2>h DEF RollbackStatistics, TypeInv, TypeOK, PCs, Stages, Threads
  <2>2. MutexInv'
    BY <1>9 DEF RollbackStatistics, TypeInv, TypeOK, MutexInv, Threads, Stages
  <2>3. QED
    BY <1>9, <2>1, <2>2, <2>h DEF RollbackStatistics, TypeInv, TypeOK, MutexInv, At, Threads, Stages
<1>10. ASSUME NEW t \in Threads, RollbackStore(t) PROVE TypeInv'
  <2>h. mutex = t /\ At({"unstore"}) /\ toRollback # <<>> /\ Head(toRollback) \in Block
    BY <1>10, HolderAt DEF RollbackStore, TypeInv, TypeOK, At, MutexInv, Stages
  <2>t. Tail(toRollback) \in Seq(Block) /\ pc' \in [Threads -> PCs]
    BY <1>10, <1>p, <2>h DEF RollbackStore, TypeInv, TypeOK, PCs, Stages
  <2>1. TypeOK'
    BY <1>10, <2>t, <2>h, <1>s, UnexpectedType DEF RollbackStore, TypeInv, TypeOK
  <2>2. MutexInv'
    BY <1>10 DEF RollbackStore, TypeInv, TypeOK, MutexInv, Threads, Stages
  <2>3. QED
    BY <1>10, <2>1, <2>2, <2>h, <1>s DEF RollbackStore, TypeInv, TypeOK, MutexInv, At, Threads, Stages
<1>11. ASSUME NEW t \in Threads, RollbackDone(t) PROVE TypeInv'
  <2>h. mutex = t /\ At({"rollback"})
    BY <1>11, HolderAt DEF RollbackDone, TypeInv, TypeOK, At, MutexInv, Stages
  <2>1. TypeOK'
    BY <1>11, <1>p, <2>h DEF RollbackDone, TypeInv, TypeOK, PCs, Stages, Threads
  <2>2. MutexInv'
    BY <1>11 DEF RollbackDone, TypeInv, TypeOK, MutexInv, Threads, Stages
  <2>3. QED
    BY <1>11, <2>1, <2>2, <2>h DEF RollbackDone, TypeInv, TypeOK, MutexInv, At, Threads, Stages
<1>12. ASSUME NEW t \in Threads, ValidateStatistics(t) PROVE TypeInv'
  <2>h. mutex = t /\ At({"validate"}) /\ Head(newChain) \in Block
    BY <1>12, HolderAt DEF ValidateStatistics, TypeInv, TypeOK, At, MutexInv, Stages
  <2>1. TypeOK'
    BY <1>12, <1>p, <2>h DEF ValidateStatistics, TypeInv, TypeOK, PCs, Stages, Threads
  <2>2. MutexInv'
    BY <1>12 DEF ValidateStatistics, TypeInv, TypeOK, MutexInv, Threads, Stages
  <2>3. QED
    BY <1>12, <2>1, <2>2, <2>h DEF ValidateStatistics, TypeInv, TypeOK, MutexInv, At, Threads, Stages
<1>13. ASSUME NEW t \in Threads, ValidateStore(t) PROVE TypeInv'
  <2>h. mutex = t /\ At({"store"}) /\ newChain # <<>> /\ Head(newChain) \in Block
    BY <1>13, HolderAt DEF ValidateStore, TypeInv, TypeOK, At, MutexInv, Stages
  <2>1. TypeOK'
    BY <1>13, <1>p, <2>h DEF ValidateStore, TypeInv, TypeOK, PCs, Stages, Threads, OldBlocks
  <2>2. MutexInv'
    BY <1>13 DEF ValidateStore, TypeInv, TypeOK, MutexInv, Threads, Stages
  <2>3. QED
    BY <1>13, <2>1, <2>2, <2>h DEF ValidateStore, TypeInv, TypeOK, MutexInv, At, Threads, Stages
<1>14. ASSUME NEW t \in Threads, RejectBlock(t) PROVE TypeInv'
  <2>h. mutex = t /\ At({"validate"})
    BY <1>14, HolderAt DEF RejectBlock, TypeInv, TypeOK, At, MutexInv, Stages
  <2>1. CASE TRUE
    <3>1. Finish(t)
      BY <1>14, <2>1 DEF RejectBlock
    <3>2. TypeOK'
      BY <1>14, <3>1, FinishType DEF RejectBlock, TypeInv, TypeOK
    <3>3. MutexInv'
      BY <1>14, <3>1, <2>h DEF RejectBlock, Finish, TypeInv, TypeOK, MutexInv, Stages, Threads
    <3>4. QED
      BY <3>1, <3>2, <3>3 DEF Finish, TypeInv, At
  <2>2. QED
    BY <2>1
<1>15. ASSUME NEW t \in Threads, ValidateDone(t) PROVE TypeInv'
  <2>h. mutex = t /\ At({"validate"})
    BY <1>15, HolderAt DEF ValidateDone, TypeInv, TypeOK, At, MutexInv, Stages
  <2>1. CASE TRUE
    <3>1. Finish(t)
      BY <1>15, <2>1 DEF ValidateDone
    <3>2. TypeOK'
      BY <1>15, <3>1, FinishType DEF ValidateDone, TypeInv, TypeOK
    <3>3. MutexInv'
      BY <1>15, <3>1, <2>h DEF ValidateDone, Finish, TypeInv, TypeOK, MutexInv, Stages, Threads
    <3>4. QED
      BY <3>1, <3>2, <3>3 DEF Finish, TypeInv, At
  <2>2. QED
    BY <2>1
<1>16. ASSUME NEW b \in Block, Receive(b) PROVE TypeInv'
  <2>1. TypeOK'
    BY <1>16, <1>p, <1>s, UnexpectedType DEF Receive, TypeInv, TypeOK, PCs, Stages, Threads, Known
  <2>2. MutexInv'
    BY <1>16 DEF Receive, TypeInv, TypeOK, MutexInv, Threads, Stages
  <2>3. QED
    BY <1>16, <2>1, <2>2, <1>s DEF Receive, TypeInv, TypeOK, MutexInv, At, Threads, Stages
<1>17. ASSUME NEW b \in Block, ForwardAnswer(b) PROVE TypeInv'
  <2>1. TypeOK'
    BY <1>17, <1>p, <1>s, UnexpectedType, SMTT(40) DEF ForwardAnswer, TypeInv, TypeOK, PCs, Stages, Threads
  <2>2. MutexInv'
    BY <1>17 DEF ForwardAnswer, TypeInv, TypeOK, MutexInv, Threads, Stages
  <2>3. QED
    BY <1>17, <2>1, <2>2, <1>s DEF ForwardAnswer, TypeInv, TypeOK, MutexInv, At, Threads, Stages
<1>18. ASSUME NEW b \in Block, LoseAnswer(b) PROVE TypeInv'
  <2>1. TypeOK'
    BY <1>18, <1>p DEF LoseAnswer, TypeInv, TypeOK, PCs, Stages, Threads
  <2>2. MutexInv'
    BY <1>18 DEF LoseAnswer, TypeInv, TypeOK, MutexInv, Threads, Stages
  <2>3. QED
    BY <1>18, <2>1, <2>2 DEF LoseAnswer, TypeInv, TypeOK, MutexInv, At, Threads, Stages
<1>19. ASSUME NEW b \in Block, MineFound(b) PROVE TypeInv'
  <2>1. TypeOK'
    BY <1>19, <1>p DEF MineFound, TypeInv, TypeOK, PCs, Stages, Threads, Repaired
  <2>2. MutexInv'
    BY <1>19 DEF MineFound, TypeInv, TypeOK, MutexInv, Threads, Stages
  <2>3. QED
    BY <1>19, <2>1, <2>2 DEF MineFound, TypeInv, TypeOK, MutexInv, At, Threads, Stages
<1>20. ASSUME PrepareBlock PROVE TypeInv'
  <2>1. TypeOK'
    BY <1>20, <1>p DEF PrepareBlock, TypeInv, TypeOK, PCs, Stages, Threads
  <2>2. MutexInv'
    BY <1>20 DEF PrepareBlock, TypeInv, TypeOK, MutexInv, Threads, Stages
  <2>3. QED
    BY <1>20, <2>1, <2>2 DEF PrepareBlock, TypeInv, TypeOK, MutexInv, At, Threads, Stages
<1>21. ASSUME MineAbort PROVE TypeInv'
  <2>1. TypeOK'
    BY <1>21, <1>p DEF MineAbort, TypeInv, TypeOK, PCs, Stages, Threads, Repaired
  <2>2. MutexInv'
    BY <1>21 DEF MineAbort, TypeInv, TypeOK, MutexInv, Threads, Stages
  <2>3. QED
    BY <1>21, <2>1, <2>2 DEF MineAbort, TypeInv, TypeOK, MutexInv, At, Threads, Stages
<1>22. ASSUME UNCHANGED vars PROVE TypeInv'
  BY <1>22 DEF vars, TypeInv, TypeOK, MutexInv, At
<1>23. ASSUME NEW t \in Threads, RollbackFails(t) PROVE TypeInv'
  <2>h. mutex = t /\ At({"rollback"})
    BY <1>23, HolderAt DEF RollbackFails, TypeInv, TypeOK, At, MutexInv, Stages
  <2>1. CASE TRUE
    <3>1. Finish(t)
      BY <1>23, <2>1 DEF RollbackFails
    <3>2. TypeOK'
      BY <1>23, <3>1, FinishType DEF RollbackFails, TypeInv, TypeOK
    <3>3. MutexInv'
      BY <1>23, <3>1, <2>h DEF RollbackFails, Finish, TypeInv, TypeOK, MutexInv, Stages, Threads
    <3>4. QED
      BY <3>1, <3>2, <3>3 DEF Finish, TypeInv, At
  <2>2. QED
    BY <2>1
<1>24. ASSUME MineTick PROVE TypeInv'
  <2>1. TypeOK'
    BY <1>24, <1>p DEF MineTick, TypeInv, TypeOK, PCs, Stages, Threads, Repaired
  <2>2. MutexInv'
    BY <1>24 DEF MineTick, TypeInv, TypeOK, MutexInv, Threads, Stages
  <2>3. QED
    BY <1>24, <2>1, <2>2 DEF MineTick, TypeInv, TypeOK, MutexInv, At, Threads, Stages
<1>q. QED
  BY <1>1, <1>2, <1>3, <1>4, <1>5, <1>6, <1>7, <1>8, <1>9, <1>10, <1>11, <1>12, <1>13, <1>14, <1>15, <1>16, <1>17, <1>18, <1>19, <1>20, <1>21, <1>22, <1>23, <1>24 DEF Next, Step

(* Every variable keeps its type, under every fault the environment can    *)
(* produce and for every block tree; the stash keeps its capacity.         *)
THEOREM TypeCorrect == Spec => []TypeOK
<1>1. TypeInv => TypeOK
  BY DEF TypeInv
<1>2. QED
  BY <1>1, InitTypeInv, NextTypeInv, PTL DEF Spec

(* validate, getNewChain, getBlockSequences and the two loops over blocks  *)
(* never dereference a nil pointer or the head of an empty slice, however  *)
(* deep the reorganisation and whatever the network does.                  *)
THEOREM NoNilDereference == Spec => []PointersSet
<1>1. TypeInv => PointersSet
  <2> SUFFICES ASSUME TypeInv, NEW t \in Threads, pc[t] \in Stages
               PROVE  /\ pc[t] \in {"walk", "fetch"} => newBlock # Nil
                      /\ pc[t] = "count" => tmpBlock # Nil /\ ancestor # Nil
                      /\ pc[t] = "unstore" => toRollback # <<>>
                      /\ pc[t] = "store" => newChain # <<>>
    BY DEF PointersSet, Stages
  <2>1. mutex = t /\ t \in Threads
    BY DEF TypeInv, MutexInv
  <2>2. QED
    BY <2>1, NilFacts DEF TypeInv, At
<1>2. QED
  BY <1>1, InitTypeInv, NextTypeInv, PTL DEF Spec

-----------------------------------------------------------------------------
(* Answers.  An answer nobody waits for is filtered by the stash, and the  *)
(* channel offers what was asked for, or else it was under way             *)
(* unexpectedly.                                                           *)
AnswerInv ==
    /\ Unexpected \subseteq stale
    /\ reqChan # Nil /\ reqChan \notin stale => At({"fetch"}) /\ reqChan = Prev[newBlock]

LEMMA InitAnswerInv == Init => AnswerInv
BY DEF Init, AnswerInv, Unexpected

(* Only the goroutine that holds the mutex fetches.                        *)
LEMMA OneFetches ==
    ASSUME TypeInv
    PROVE  \A t \in Threads : pc[t] = "fetch" <=> At({"fetch"}) /\ t = mutex
BY TreeAssumption DEF TypeInv, MutexInv, At, Stages

(* Steps before and after which nobody fetches.                            *)
LEMMA QuietStep ==
    ASSUME AnswerInv, UNCHANGED <<netVars, stash>>, ~At({"fetch"}),
           \A t \in Threads : pc[t] # "fetch" /\ pc'[t] # "fetch"
    PROVE  AnswerInv'
BY DEF AnswerInv, Unexpected, netVars

(* Steps of other goroutines while one may be fetching.                    *)
LEMMA BesideFetch ==
    ASSUME AnswerInv, UNCHANGED <<reqChan, stash, stale, newBlock, mutex>>, answers' \subseteq answers,
           mutex \in Threads => pc'[mutex] = pc[mutex],
           \A t \in Threads : pc'[t] = "fetch" <=> pc[t] = "fetch"
    PROVE  AnswerInv'
BY DEF AnswerInv, Unexpected, At

(* Every step keeps it, and what was unexpected once stays noted.          *)
LEMMA NextAnswerInv ==
    ASSUME TypeInv, AnswerInv, [Next]_vars
    PROVE  AnswerInv' /\ stale \subseteq stale'
<1>t. TypeInv'
  BY NextTypeInv
<1>1. ASSUME NEW t \in Threads,
             \/ Lock(t) \/ FoundAncestor(t) \/ TakeFromStash(t) \/ CountRollback(t)
             \/ CompareLengths(t) \/ RollbackStatistics(t) \/ RollbackFails(t)
             \/ RollbackDone(t) \/ ValidateStatistics(t) \/ ValidateStore(t)
             \/ RejectBlock(t) \/ ValidateDone(t)
      PROVE  AnswerInv' /\ stale \subseteq stale'
  <2>1. UNCHANGED <<netVars, stash>>
    BY <1>1 DEF Lock, FoundAncestor, TakeFromStash, CountRollback, CompareLengths,
                RollbackStatistics, RollbackFails, RollbackDone, ValidateStatistics,
                ValidateStore, RejectBlock, ValidateDone
  <2>2. pc[t] # "fetch" /\ (pc[t] \in Stages \/ mutex = Nil)
    BY <1>1 DEF Lock, FoundAncestor, TakeFromStash, CountRollback, CompareLengths,
                RollbackStatistics, RollbackFails, RollbackDone, ValidateStatistics,
                ValidateStore, RejectBlock, ValidateDone, Stages
  <2>3. \E x \in PCs \ {"fetch"} : pc' = pc \/ pc' = [pc EXCEPT ![t] = x]
    BY <1>1 DEF Lock, FoundAncestor, TakeFromStash, CountRollback, CompareLengths,
                RollbackStatistics, RollbackFails, RollbackDone, ValidateStatistics,
                ValidateStore, RejectBlock, ValidateDone, Finish, Goto, PCs, Stages
  <2>4. ~At({"fetch"}) /\ \A u \in Threads : pc[u] # "fetch"
    BY <2>2, TreeAssumption DEF TypeInv, MutexInv, At, Stages
  <2>5. \A u \in Threads : pc'[u] # "fetch"
    BY <2>3, <2>4 DEF TypeInv, TypeOK
  <2>6. QED
    BY <2>1, <2>4, <2>5, QuietStep DEF netVars
<1>2. ASSUME NEW t \in Threads, RequestBlock(t) PROVE AnswerInv' /\ stale \subseteq stale'
  <2>1. /\ mutex = t /\ pc[t] = "walk" /\ pc'[t] = "fetch"
        /\ answers' = answers \cup {Prev[newBlock]}
        /\ UNCHANGED <<stash, newBlock, reqChan, stale>>
    BY <1>2 DEF RequestBlock, Goto, TypeInv, TypeOK, MutexInv, Stages
  <2>2. ~At({"fetch"}) /\ \A u \in Threads : pc[u] # "fetch"
    BY <2>1, OneFetches DEF At
  <2>3. Unexpected' \subseteq Unexpected
    BY <2>1, <2>2 DEF Unexpected
  <2>4. QED
    BY <2>1, <2>2, <2>3 DEF AnswerInv
<1>3. ASSUME NEW t \in Threads, ReceiveAnswer(t) \/ Timeout(t)
      PROVE  AnswerInv' /\ stale \subseteq stale'
  BY <1>3, <1>t DEF ReceiveAnswer, Timeout, AnswerInv, TypeInv
<1>4. ASSUME NEW t \in Threads, RollbackStore(t) PROVE AnswerInv' /\ stale \subseteq stale'
  <2>1. mutex = t /\ pc[t] = "unstore"
    BY <1>4 DEF RollbackStore, TypeInv, MutexInv, Stages
  <2>2. ~At({"fetch"})
    BY <2>1 DEF At
  <2>3. QED
    BY <1>4, <2>2 DEF RollbackStore, AnswerInv
<1>5. ASSUME NEW b \in Block, ForwardAnswer(b) PROVE AnswerInv' /\ stale \subseteq stale'
  <2>1. /\ b \in answers /\ UNCHANGED <<mutex, pc, newBlock>>
        /\ stale' = stale \cup Unexpected'
        /\ reqChan' = reqChan \/ (reqChan' = b /\ b \notin ToSet(stash))
    BY <1>5 DEF ForwardAnswer, walkVars
  <2>2. CASE reqChan' = reqChan
    BY <2>1, <2>2 DEF AnswerInv, At
  <2>3. CASE reqChan' = b /\ b \notin ToSet(stash)
    <3>1. b \in stale \/ (At({"fetch"}) /\ Prev[newBlock] = b)
      BY <2>1, <2>3, OneFetches DEF AnswerInv, Unexpected
    <3>2. QED
      BY <2>1, <2>3, <3>1 DEF AnswerInv, At
  <2>4. QED
    BY <2>1, <2>2, <2>3
<1>6. ASSUME NEW b \in Block, LoseAnswer(b) PROVE AnswerInv' /\ stale \subseteq stale'
  BY <1>6, BesideFetch DEF LoseAnswer, walkVars
<1>7. ASSUME NEW b \in Block, Receive(b) PROVE AnswerInv' /\ stale \subseteq stale'
  <2>1. mutex \in Threads => pc'[mutex] = pc[mutex]
    BY <1>7, TreeAssumption DEF Receive, Goto, TypeInv, TypeOK, MutexInv, Stages, Threads
  <2>2. QED
    BY <1>7, <2>1 DEF Receive, AnswerInv, At, walkVars
<1>8. ASSUME PrepareBlock \/ MineTick \/ MineAbort \/ \E b \in Block : MineFound(b)
      PROVE  AnswerInv' /\ stale \subseteq stale'
  <2>1. UNCHANGED <<netVars, stash, newBlock, mutex>>
    BY <1>8 DEF PrepareBlock, MineTick, MineAbort, MineFound, walkVars
  <2>2. pc["mining"] \notin Stages /\ (pc' = pc \/ mutex = Nil \/ \E x : pc' = [pc EXCEPT !["mining"] = x])
    BY <1>8 DEF PrepareBlock, MineTick, MineAbort, MineFound, Goto, Stages
  <2>3. mutex \in Threads => pc'[mutex] = pc[mutex]
    BY <2>2, TreeAssumption DEF TypeInv, TypeOK, MutexInv
  <2>4. \A t \in Threads : pc'[t] = "fetch" <=> pc[t] = "fetch"
    BY <1>t, <2>1, <2>3, OneFetches DEF TypeInv, MutexInv, At, Stages
  <2>5. QED
    BY <2>1, <2>3, <2>4, BesideFetch DEF netVars
<1>9. ASSUME UNCHANGED vars PROVE AnswerInv' /\ stale \subseteq stale'
  BY <1>9, BesideFetch DEF vars, netVars, walkVars
<1>10. QED
  BY <1>1, <1>2, <1>3, <1>4, <1>5, <1>6, <1>7, <1>8, <1>9 DEF Next, Step

-----------------------------------------------------------------------------
(* The branch.  Its oldest block is a child of the block the walk has come *)
(* to, unless that block was taken for the answer to another request.      *)
BranchLinks ==
    /\ NewChainLinked
    /\ mutex = Nil => newChain = <<>>
    /\ At({"walk"}) /\ newChain # <<>> => newBlock = Prev[newChain[1]] \/ newBlock \in stale
    /\ At({"fetch"}) => newChain # <<>> /\ newBlock = newChain[1]

(* One more block at the old end of the branch.                            *)
LEMMA LongerBranch ==
    ASSUME TypeInv, BranchLinks, At({"walk"}), newChain' = AddToBranch(newBlock, newChain),
           stale \subseteq stale'
    PROVE  NewChainLinked' /\ newChain' # <<>> /\ newChain'[1] = newBlock
<1>t. newChain \in Seq(Block) /\ newBlock \in Block
  BY DEF TypeInv, TypeOK, At
<1>b. /\ AddToBranch(newBlock, newChain) \in Seq(Block)
      /\ Len(AddToBranch(newBlock, newChain)) = Len(newChain) + 1
      /\ AddToBranch(newBlock, newChain)[1] = newBlock
      /\ \A i \in 1 .. Len(newChain) : AddToBranch(newBlock, newChain)[i + 1] = newChain[i]
  BY <1>t, BranchType
<1>1. /\ newChain' \in Seq(Block) /\ Len(newChain') = Len(newChain) + 1
      /\ newChain'[1] = newBlock
      /\ \A i \in 1 .. Len(newChain) : newChain'[i + 1] = newChain[i]
      /\ Len(newChain) \in Nat
  BY <1>t, <1>b
<1>2. ASSUME NEW i \in 1 .. Len(newChain') - 1
      PROVE  Prev[newChain'[i + 1]] = newChain'[i] \/ newChain'[i] \in stale
  <2>1. i \in 1 .. Len(newChain) /\ newChain'[i + 1] = newChain[i]
    BY <1>1
  <2>2. CASE i = 1
    BY <1>1, <2>1, <2>2 DEF BranchLinks
  <2>3. CASE i # 1
    <3>1. i - 1 \in 1 .. Len(newChain) - 1 /\ newChain'[(i - 1) + 1] = newChain[i - 1]
      BY <1>1, <2>1, <2>3
    <3>2. Prev[newChain[(i - 1) + 1]] = newChain[i - 1] \/ newChain[i - 1] \in stale
      BY <3>1 DEF BranchLinks, NewChainLinked
    <3>3. QED
      BY <2>1, <3>1, <3>2
  <2>4. QED
    BY <2>2, <2>3
<1>3. QED
  BY <1>1, <1>2 DEF NewChainLinked

(* Steps that leave the branch alone and do not search.                    *)
LEMMA SameBranch ==
    ASSUME BranchLinks, newChain' = newChain, stale \subseteq stale', mutex' # Nil,
           ~At({"walk"})', ~At({"fetch"})'
    PROVE  BranchLinks'
BY DEF BranchLinks, NewChainLinked

(* Steps of other goroutines.                                              *)
LEMMA BesideBranch ==
    ASSUME BranchLinks, UNCHANGED <<newChain, newBlock, mutex>>, stale \subseteq stale',
           mutex \in Threads => pc'[mutex] = pc[mutex]
    PROVE  BranchLinks'
BY DEF BranchLinks, NewChainLinked, At

(* A validation that ends drops the branch.                                *)
LEMMA DropBranch ==
    ASSUME BranchLinks, mutex' = Nil, newChain' = <<>>
    PROVE  BranchLinks'
BY TreeAssumption DEF BranchLinks, NewChainLinked, At

(* Every step keeps the links.                                             *)
LEMMA NextBranchLinks ==
    ASSUME TypeInv, AnswerInv, BranchLinks, [Next]_vars
    PROVE  BranchLinks'
<1>s. stale \subseteq stale'
  BY NextAnswerInv
<1>n. Nil \notin Threads
  BY TreeAssumption
<1>f. ASSUME NEW t \in Threads, Finish(t) PROVE BranchLinks'
  BY <1>f, DropBranch DEF Finish
<1>1. ASSUME NEW t \in Threads, Lock(t) PROVE BranchLinks'
  <2>1. CASE arg[t] \in closed
    BY <1>1, <1>f, <2>1 DEF Lock
  <2>2. CASE arg[t] \notin closed
    <3>1. mutex = Nil /\ mutex' = t /\ newChain' = newChain /\ pc'[t] = "walk"
      BY <1>1, <2>2 DEF Lock, Goto, TypeInv, TypeOK
    <3>2. QED
      BY <1>n, <3>1 DEF BranchLinks, NewChainLinked, At
  <2>3. QED
    BY <2>1, <2>2
<1>2. ASSUME NEW t \in Threads, FoundAncestor(t) PROVE BranchLinks'
  <2>1. CASE TipMissing
    BY <1>2, <1>f, <2>1 DEF FoundAncestor
  <2>2. CASE ~TipMissing
    <3>1. /\ mutex = t /\ mutex' = t /\ pc[t] = "walk" /\ pc'[t] = "count"
          /\ newChain' = AddToBranch(newBlock, newChain)
      BY <1>2, <2>2 DEF FoundAncestor, Goto, TypeInv, TypeOK, MutexInv, Stages
    <3>2. QED
      BY <1>n, <1>s, <3>1, LongerBranch DEF BranchLinks, At
  <2>3. QED
    BY <2>1, <2>2
<1>3. ASSUME NEW t \in Threads, TakeFromStash(t) \/ RequestBlock(t) PROVE BranchLinks'
  <2>1. /\ mutex = t /\ mutex' = t /\ pc[t] = "walk"
        /\ newChain' = AddToBranch(newBlock, newChain)
        /\ \/ pc'[t] = "walk" /\ newBlock' = Prev[newBlock]
           \/ pc'[t] = "fetch" /\ newBlock' = newBlock
    BY <1>3 DEF TakeFromStash, RequestBlock, Goto, TypeInv, TypeOK, MutexInv, Stages
  <2>2. NewChainLinked' /\ newChain' # <<>> /\ newChain'[1] = newBlock
    BY <1>s, <2>1, LongerBranch DEF At
  <2>3. QED
    BY <1>n, <2>1, <2>2 DEF BranchLinks, At
<1>4. ASSUME NEW t \in Threads, ReceiveAnswer(t) PROVE BranchLinks'
  <2>1. /\ mutex = t /\ mutex' = t /\ pc[t] = "fetch" /\ pc'[t] = "walk"
        /\ reqChan # Nil /\ newBlock' = reqChan /\ newChain' = newChain
    BY <1>4 DEF ReceiveAnswer, Goto, TypeInv, TypeOK, MutexInv, Stages
  <2>2. newChain # <<>> /\ newBlock = newChain[1]
    BY <2>1 DEF BranchLinks, At
  <2>3. reqChan = Prev[newBlock] \/ reqChan \in stale
    BY <2>1 DEF AnswerInv
  <2>4. NewChainLinked'
    BY <1>s, <2>1 DEF BranchLinks, NewChainLinked
  <2>5. QED
    BY <1>n, <1>s, <2>1, <2>2, <2>3, <2>4 DEF BranchLinks, At
<1>5. ASSUME NEW t \in Threads, Timeout(t) PROVE BranchLinks'
  <2>1. mutex = t /\ pc[t] = "fetch"
    BY <1>5 DEF Timeout, TypeInv, MutexInv, Stages
  <2>2. newChain # <<>> /\ newBlock = newChain[1]
    BY <2>1 DEF BranchLinks, At
  <2>3. CASE Prev[newBlock] \in ToSet(stash)
    <3>1. newBlock' = Prev[newBlock] /\ pc'[t] = "walk" /\ mutex' = t /\ newChain' = newChain
      BY <1>5, <2>1, <2>3 DEF Timeout, Goto, TypeInv, TypeOK
    <3>2. NewChainLinked'
      BY <1>s, <3>1 DEF BranchLinks, NewChainLinked
    <3>3. QED
      BY <1>n, <2>2, <3>1, <3>2 DEF BranchLinks, At
  <2>4. CASE Prev[newBlock] \notin ToSet(stash)
    BY <1>5, <1>f, <2>4 DEF Timeout
  <2>5. QED
    BY <2>3, <2>4
<1>6. ASSUME NEW t \in Threads, CountRollback(t) \/ CompareLengths(t) PROVE BranchLinks'
  <2>1. mutex = t /\ pc[t] = "count"
    BY <1>6 DEF CountRollback, CompareLengths, TypeInv, MutexInv, Stages
  <2>2. CASE Finish(t)
    BY <1>f, <2>2
  <2>3. CASE ~Finish(t)
    <3>1. pc'[t] \in {"count", "rollback"} /\ mutex' = t /\ newChain' = newChain
      BY <1>6, <2>1, <2>3 DEF CountRollback, CompareLengths, Goto, walkVars, TypeInv, TypeOK
    <3>2. QED
      BY <1>n, <1>s, <3>1, SameBranch DEF At
  <2>4. QED
    BY <2>2, <2>3
<1>7. ASSUME NEW t \in Threads,
             \/ RollbackStatistics(t) \/ RollbackStore(t) \/ RollbackDone(t)
             \/ ValidateStatistics(t)
      PROVE  BranchLinks'
  <2>1. /\ mutex = t /\ mutex' = t /\ newChain' = newChain
        /\ pc'[t] \in {"unstore", "rollback", "validate", "store"}
    BY <1>7 DEF RollbackStatistics, RollbackStore, RollbackDone, ValidateStatistics, Goto,
                walkVars, TypeInv, TypeOK, MutexInv, Stages
  <2>2. QED
    BY <1>n, <1>s, <2>1, SameBranch DEF At
<1>8. ASSUME NEW t \in Threads, ValidateStore(t) PROVE BranchLinks'
  <2>1. /\ mutex = t /\ mutex' = t /\ newChain' = Tail(newChain) /\ pc[t] = "store"
        /\ pc'[t] = "validate" /\ newChain # <<>> /\ newChain \in Seq(Block)
    BY <1>8 DEF ValidateStore, Goto, TypeInv, TypeOK, MutexInv, Stages, At
  <2>2. /\ Len(newChain') = Len(newChain) - 1 /\ Len(newChain) \in Nat
        /\ \A i \in 1 .. Len(newChain') : newChain'[i] = newChain[i + 1]
    BY <2>1
  <2>3. ASSUME NEW i \in 1 .. Len(newChain') - 1
        PROVE  Prev[newChain'[i + 1]] = newChain'[i] \/ newChain'[i] \in stale
    <3>1. /\ i + 1 \in 1 .. Len(newChain) - 1
          /\ i + 1 \in 1 .. Len(newChain') /\ i \in 1 .. Len(newChain')
      BY <2>2
    <3>2. Prev[newChain[(i + 1) + 1]] = newChain[i + 1] \/ newChain[i + 1] \in stale
      BY <3>1 DEF BranchLinks, NewChainLinked
    <3>3. QED
      BY <2>2, <3>1, <3>2
  <2>4. NewChainLinked'
    BY <1>s, <2>3 DEF NewChainLinked
  <2>5. QED
    BY <1>n, <2>1, <2>4 DEF BranchLinks, At
<1>9. ASSUME NEW t \in Threads, RollbackFails(t) \/ RejectBlock(t) \/ ValidateDone(t)
      PROVE  BranchLinks'
  BY <1>9, <1>f DEF RollbackFails, RejectBlock, ValidateDone
<1>10. ASSUME NEW b \in Block, ForwardAnswer(b) \/ LoseAnswer(b) PROVE BranchLinks'
  BY <1>10, <1>s, BesideBranch DEF ForwardAnswer, LoseAnswer, walkVars
<1>11. ASSUME PrepareBlock \/ MineTick \/ MineAbort \/ \E b \in Block : Receive(b) \/ MineFound(b)
       PROVE  BranchLinks'
  <2>1. UNCHANGED <<newChain, newBlock, mutex>>
    BY <1>11 DEF PrepareBlock, MineTick, MineAbort, Receive, MineFound, walkVars
  <2>2. mutex \in Threads => pc'[mutex] = pc[mutex]
    BY <1>11, <1>n DEF PrepareBlock, MineTick, MineAbort, Receive, MineFound, Goto, Stages,
                       Threads, TypeInv, TypeOK, MutexInv
  <2>3. QED
    BY <1>s, <2>1, <2>2, BesideBranch
<1>12. ASSUME UNCHANGED vars PROVE BranchLinks'
  BY <1>12, <1>s, BesideBranch DEF vars, walkVars
<1>13. QED
  BY <1>1, <1>2, <1>3, <1>4, <1>5, <1>6, <1>7, <1>8, <1>9, <1>10, <1>11, <1>12 DEF Next, Step

(* Whatever the network does and however deep the fork: the branch         *)
(* getNewChain hands to the rollback and to the validation is a chain of   *)
(* successive blocks, but for blocks whose answer was under way            *)
(* unexpectedly.                                                           *)
THEOREM BranchIsLinked == Spec => []NewChainLinked
<1>1. Init => BranchLinks
  BY TreeAssumption DEF Init, BranchLinks, NewChainLinked, At
<1>2. BranchLinks => NewChainLinked
  BY DEF BranchLinks
<1>3. QED
  BY <1>1, <1>2, InitTypeInv, NextTypeInv, InitAnswerInv, NextAnswerInv, NextBranchLinks,
     PTL DEF Spec

----------------------------------------------------------------------------
(* What follows from the shape of the tree.                                *)
LEMMA PathFacts ==
    ASSUME NEW b \in Block
    PROVE  /\ Path(b) \subseteq Block
           /\ Genesis \in Path(b)
           /\ b \in Path(b)
           /\ Height[b] \in Nat
           /\ \A a \in Path(b) : Height[a] <= Height[b]
           /\ \A a \in Anc[b] : Height[a] < Height[b]
<1>1. Anc[b] \subseteq Block /\ Height[b] \in Nat
  BY TreeAssumption
<1>2. \A a \in Anc[b] : Height[a] < Height[b] /\ Height[a] \in Nat
  BY <1>1, TreeAssumption
<1>3. Genesis \in Path(b)
  BY TreeAssumption
<1>4. QED
  BY <1>1, <1>2, <1>3 DEF Path

LEMMA ParentFacts ==
    ASSUME NEW b \in Block, b # Genesis
    PROVE  /\ Prev[b] \in Block
           /\ Prev[b] # b
           /\ Anc[b] = Path(Prev[b])
           /\ Path(b) = Path(Prev[b]) \cup {b}
           /\ b \notin Path(Prev[b])
           /\ Height[b] = Height[Prev[b]] + 1
<1>1. Prev[b] \in Block /\ Anc[b] = Path(Prev[b]) /\ Height[b] = Height[Prev[b]] + 1
  BY TreeAssumption
<1>2. Height[Prev[b]] \in Nat /\ \A a \in Path(Prev[b]) : Height[a] <= Height[Prev[b]]
  BY <1>1, PathFacts
<1>3. b \notin Path(Prev[b]) /\ Prev[b] # b
  BY <1>1, <1>2
<1>4. Path(b) = Path(Prev[b]) \cup {b}
  BY <1>1 DEF Path
<1>5. QED
  BY <1>1, <1>3, <1>4

(* A block that is neither the ancestor itself nor above it has a parent   *)
(* still at or above the ancestor.                                         *)
LEMMA WalkDown ==
    ASSUME NEW b \in Block, NEW a \in Path(b), a # b
    PROVE  b # Genesis /\ a \in Anc[b] /\ a \in Path(Prev[b])
<1>1. a \in Anc[b]
  BY DEF Path
<1>2. b # Genesis
  BY <1>1, TreeAssumption
<1>3. QED
  BY <1>1, <1>2, ParentFacts

(* A settled block on the current chain is not above the point where a     *)
(* branch that is not stored leaves the chain.                             *)
LEMMA SettledBelowFork ==
    ASSUME NEW r \in Block, NEW n \in Block, Settled(r), n # Genesis,
           n \notin Path(r), Prev[n] \in Anc[r]
    PROVE  FALSE
<1>1. r \in Path(n)
  BY DEF Settled
<1>2. r # n
  BY PathFacts
<1>3. r \in Path(Prev[n]) /\ Prev[n] \in Block
  BY <1>1, <1>2, WalkDown, ParentFacts
<1>4. Height[r] <= Height[Prev[n]] /\ Height[Prev[n]] < Height[r]
  BY <1>3, PathFacts
<1>5. Height[r] \in Nat /\ Height[Prev[n]] \in Nat
  BY <1>3, PathFacts
<1>6. QED
  BY <1>4, <1>5

-----------------------------------------------------------------------------
(* All of it holds as long as no unexpected answer was under way; the      *)
(* branch is then strictly linked.                                         *)
Linked == \A i \in 1 .. Len(newChain) - 1 : Prev[newChain[i + 1]] = newChain[i]

(* The store between two steps: one chain, whose emptied part is settled.  *)
StoreInv ==
    /\ OneChain
    /\ \A x \in withoutTx :
          /\ x # Genesis
          /\ Settled(x)
          /\ \A y \in Stored : Prev[y] = x => Settled(y)

(* lastBlock is ahead of the store only between the two halves of a step.  *)
TipInv ==
    /\ At({"unstore"}) => lastBlock = Prev[lastclosed]
    /\ At({"store"}) => lastBlock = newChain[1]
    /\ ~At({"unstore", "store"}) => lastBlock = lastclosed

(* What getNewChain has collected.                                         *)
BranchInv ==
    /\ Linked
    /\ mutex = Nil => newChain = <<>> /\ toRollback = <<>>
    /\ \A i \in 1 .. Len(newChain) : newChain[i] # Genesis
    /\ At({"walk"}) => /\ newBlock \in Block \ {Genesis}
                       /\ toRollback = <<>>
                       /\ newChain # <<>> =>
                             newBlock = Prev[newChain[1]] /\ newBlock \notin Stored
    /\ At({"fetch"}) => /\ newChain # <<>>
                        /\ toRollback = <<>>
                        /\ newBlock = newChain[1]
                        /\ Prev[newBlock] \notin Stored
    /\ At({"count", "rollback", "unstore"}) =>
          newChain # <<>> /\ ancestor = Prev[newChain[1]]
    /\ At({"count"}) /\ Len(newChain) > 1 => newChain[1] \notin Stored
    /\ At({"rollback", "unstore"}) => newChain[1] \notin Stored
    /\ At({"validate", "store"}) /\ newChain # <<>> => Prev[newChain[1]] = lastclosed
    /\ At({"store"}) => newChain # <<>>

(* The blocks to roll back lead from the tip to the ancestor.              *)
RollbackInv ==
    /\ At({"count"}) =>
          /\ tmpBlock \in Block
          /\ ancestor \in Path(tmpBlock)
          /\ toRollback = <<>> => tmpBlock = lastclosed
          /\ toRollback # <<>> => Prev[toRollback[Len(toRollback)]] = tmpBlock
    /\ At({"rollback", "unstore"}) =>
          /\ toRollback = <<>> => lastclosed = ancestor
          /\ toRollback # <<>> => Prev[toRollback[Len(toRollback)]] = ancestor
    /\ At({"unstore"}) => toRollback # <<>>
    /\ At({"count", "rollback", "unstore"}) =>
          /\ toRollback # <<>> => toRollback[1] = lastclosed
          /\ \A i \in 1 .. Len(toRollback) - 1 : Prev[toRollback[i]] = toRollback[i + 1]
          /\ \A i \in 1 .. Len(toRollback) : ancestor \in Anc[toRollback[i]]

IInv == StoreInv /\ TipInv /\ BranchInv /\ RollbackInv

(* The accounting of heights that makes a completed switch an improvement. *)
LengthInv ==
    /\ oldTip \in Block
    /\ At({"walk", "fetch", "count"}) => oldTip = lastclosed
    /\ At({"count"}) => Height[oldTip] = Height[tmpBlock] + Len(toRollback)
    /\ At({"rollback", "unstore"}) => Height[oldTip] < Height[ancestor] + Len(newChain)
    /\ At({"validate", "store"}) => Height[oldTip] < Height[lastclosed] + Len(newChain)
    /\ mutex = Nil => Height[oldTip] <= Height[lastclosed]

----------------------------------------------------------------------------
(* The initial state satisfies the invariant.                              *)
LEMMA InitIInv == Init => IInv
<1> SUFFICES ASSUME Init PROVE IInv
  OBVIOUS
<1>1. Nil \notin Threads /\ InitTip \in Block
  BY TreeAssumption, ParameterAssumption
<1>2. InitTip \in Path(InitTip)
  BY DEF Path
<1>3. StoreInv
  BY <1>2 DEF Init, StoreInv, OneChain, Stored
<1>4. ~At({"unstore"}) /\ ~At({"store"}) /\ ~At({"unstore", "store"}) /\ ~At({"fetch"})
      /\ ~At({"walk"}) /\ ~At({"count"}) /\ ~At({"count", "rollback", "unstore"})
      /\ ~At({"rollback", "unstore"}) /\ ~At({"validate", "store"})
  BY <1>1 DEF At, Init
<1>5. TipInv
  BY <1>4 DEF Init, TipInv
<1>6. BranchInv
  BY <1>4 DEF Init, BranchInv, Linked
<1>7. RollbackInv
  BY <1>4 DEF Init, RollbackInv
<1>8. QED
  BY <1>3, <1>5, <1>6, <1>7 DEF IInv

(* Steps that leave the three buckets alone keep what holds of the store.  *)
LEMMA StoreUnchanged ==
    ASSUME StoreInv, UNCHANGED storeVars
    PROVE  StoreInv'
BY DEF StoreInv, storeVars, OneChain, Stored

(* Steps of the peers and of the mining goroutine outside validate do not  *)
(* disturb the goroutine that holds the mutex.                             *)
LEMMA OutsideStep ==
    ASSUME IInv, TypeInv,
           mutex' = mutex, mutex \in Threads => pc'[mutex] = pc[mutex],
           UNCHANGED <<storeVars, lastBlock, walkVars>>
    PROVE  IInv'
<1> USE DEF storeVars, walkVars
<1>1. StoreInv'
  BY StoreUnchanged DEF IInv
<1>2. TipInv'
  BY DEF IInv, TipInv, At
<1>3. BranchInv'
  BY DEF IInv, BranchInv, At, Linked, Stored
<1>4. RollbackInv'
  BY DEF IInv, RollbackInv, At
<1>5. QED
  BY <1>1, <1>2, <1>3, <1>4 DEF IInv

(* A validation may end wherever lastBlock is the last closed block.       *)
LEMMA FinishStep ==
    ASSUME IInv, TypeInv, NEW t \in Threads, Finish(t), lastBlock = lastclosed,
           UNCHANGED <<storeVars, lastBlock>>
    PROVE  IInv'
<1> USE DEF storeVars, netVars
<1>0. mutex' = Nil /\ newChain' = <<>> /\ toRollback' = <<>> /\ Nil \notin Threads
  BY TreeAssumption DEF Finish
<1>1. StoreInv'
  BY StoreUnchanged DEF IInv
<1>2. TipInv'
  BY <1>0 DEF TipInv, At
<1>3. BranchInv'
  BY <1>0 DEF BranchInv, At, Linked
<1>4. RollbackInv'
  BY <1>0 DEF RollbackInv, At
<1>5. QED
  BY <1>1, <1>2, <1>3, <1>4 DEF IInv

(* The tip of the store is a block other than nil.                         *)
LEMMA StoreFacts ==
    ASSUME IInv, TypeInv
    PROVE  /\ lastclosed \in Block /\ lastclosed # Nil
           /\ Stored = Path(lastclosed) /\ lastclosed \in Stored
           /\ Genesis \in closed /\ Stored \subseteq Block
           /\ ~At({"unstore", "store"}) => lastBlock = lastclosed
<1>1. closed \subseteq Block /\ Nil \notin Block
  BY NilFacts DEF TypeInv, TypeOK
<1>2. lastclosed \in Block /\ lastclosed # Nil /\ Stored = Path(lastclosed)
  BY <1>1 DEF IInv, StoreInv, OneChain
<1>3. Genesis \in Stored /\ Stored \subseteq Block /\ lastclosed \in Stored
  BY <1>2, PathFacts
<1>4. Genesis \notin withoutTx
  BY DEF IInv, StoreInv
<1>5. QED
  BY <1>2, <1>3, <1>4 DEF Stored, IInv, TipInv

(* lastBlock is never nil.                                                 *)
LEMMA TipIsBlock ==
    ASSUME IInv, TypeInv
    PROVE  lastBlock \in Block /\ lastBlock # Nil
<1>1. lastclosed \in Block /\ Nil \notin Block /\ Prev[lastclosed] \in Block
  BY StoreFacts, NilFacts, TreeAssumption
<1>2. CASE At({"store"})
  <2>1. newChain # <<>> /\ newChain \in Seq(Block)
    BY <1>2 DEF TypeInv, TypeOK
  <2>2. newChain[1] \in Block
    BY <2>1
  <2>3. QED
    BY <1>1, <1>2, <2>2 DEF IInv, TipInv
<1>3. CASE At({"unstore"})
  BY <1>1, <1>3 DEF IInv, TipInv
<1>4. CASE ~At({"store"}) /\ ~At({"unstore"})
  BY <1>1, <1>4 DEF IInv, TipInv, At
<1>5. QED
  BY <1>2, <1>3, <1>4

(* validate takes the mutex.                                               *)
LEMMA LockStep ==
    ASSUME IInv, TypeInv, NEW t \in Threads, Lock(t)
    PROVE  IInv'
<1> USE DEF storeVars, netVars, mineVars, Goto
<1>0. /\ mutex = Nil /\ Nil \notin Threads /\ arg[t] \in Block
      /\ lastBlock = lastclosed
      /\ newChain = <<>> /\ toRollback = <<>>
  BY TreeAssumption DEF Lock, IInv, TipInv, BranchInv, At, TypeInv, MutexInv
<1>1. CASE arg[t] \in closed
  BY <1>0, <1>1, FinishStep DEF Lock
<1>2. CASE arg[t] \notin closed
  <2>1. /\ mutex' = t /\ pc'[t] = "walk" /\ newBlock' = arg[t]
        /\ newChain' = <<>> /\ toRollback' = <<>>
        /\ UNCHANGED <<storeVars, lastBlock, netVars>>
    BY <1>0, <1>2 DEF Lock, TypeInv, TypeOK
  <2>2. newBlock' \in Block \ {Genesis}
    BY <1>0, <1>2, <2>1, StoreFacts
  <2>3. StoreInv'
    BY <2>1, StoreUnchanged DEF IInv
  <2>4. TipInv' /\ RollbackInv'
    BY <1>0, <2>1 DEF TipInv, RollbackInv, At
  <2>5. BranchInv'
    BY <1>0, <2>1, <2>2 DEF BranchInv, At, Linked
  <2>6. QED
    BY <2>3, <2>4, <2>5 DEF IInv
<1>3. QED
  BY <1>1, <1>2

(* A branch stays linked when the parent of its oldest block is added.     *)
LEMMA GrowBranch ==
    ASSUME Linked, newChain \in Seq(Block), newBlock \in Block,
           newBlock # Genesis, \A i \in 1 .. Len(newChain) : newChain[i] # Genesis,
           newChain # <<>> => newBlock = Prev[newChain[1]],
           newChain' = AddToBranch(newBlock, newChain)
    PROVE  /\ Linked'
           /\ newChain'[1] = newBlock /\ newChain' # <<>>
           /\ Len(newChain') > 1 => newChain # <<>>
           /\ \A i \in 1 .. Len(newChain') : newChain'[i] # Genesis
<1>1. /\ newChain' \in Seq(Block) /\ Len(newChain') = Len(newChain) + 1
      /\ newChain'[1] = newBlock
      /\ \A i \in 1 .. Len(newChain) : newChain'[i + 1] = newChain[i]
  BY BranchType
<1>2. Len(newChain) \in Nat
  OBVIOUS
<1>3. ASSUME NEW i \in 1 .. Len(newChain') PROVE newChain'[i] # Genesis
  <2>1. CASE i = 1
    BY <1>1, <2>1
  <2>2. CASE i # 1
    <3>1. i - 1 \in 1 .. Len(newChain) /\ newChain'[(i - 1) + 1] = newChain[i - 1]
      BY <1>1, <1>2, <2>2
    <3>2. QED
      BY <3>1
  <2>3. QED
    BY <2>1, <2>2
<1>4. ASSUME NEW i \in 1 .. Len(newChain') - 1 PROVE Prev[newChain'[i + 1]] = newChain'[i]
  <2>1. i \in 1 .. Len(newChain) /\ newChain'[i + 1] = newChain[i]
    BY <1>1, <1>2
  <2>2. CASE i = 1
    BY <1>1, <2>1, <2>2
  <2>3. CASE i # 1
    <3>1. i - 1 \in 1 .. Len(newChain) - 1 /\ newChain'[(i - 1) + 1] = newChain[i - 1]
      BY <1>1, <1>2, <2>1, <2>3
    <3>2. Prev[newChain[(i - 1) + 1]] = newChain[i - 1]
      BY <3>1 DEF Linked
    <3>3. QED
      BY <2>1, <3>1, <3>2
  <2>4. QED
    BY <2>2, <2>3
<1>5. QED
  BY <1>1, <1>2, <1>3, <1>4 DEF Linked

(* What is known of the branch while getNewChain walks.                    *)
LEMMA WalkFacts ==
    ASSUME IInv, TypeInv, NEW t \in Threads, pc[t] = "walk"
    PROVE  /\ mutex = t /\ Nil \notin Threads /\ t # Nil
           /\ newBlock \in Block /\ newBlock # Genesis
           /\ newChain \in Seq(Block) /\ toRollback = <<>>
           /\ Linked
           /\ \A i \in 1 .. Len(newChain) : newChain[i] # Genesis
           /\ newChain # <<>> => newBlock = Prev[newChain[1]] /\ newBlock \notin Stored
           /\ lastBlock = lastclosed
<1>1. mutex = t /\ Nil \notin Threads /\ t # Nil
  BY TreeAssumption DEF TypeInv, MutexInv, Stages
<1>2. At({"walk"}) /\ ~At({"fetch"}) /\ ~At({"unstore", "store"})
  BY <1>1 DEF At
<1>3. QED
  BY <1>1, <1>2 DEF IInv, BranchInv, TipInv, TypeInv, TypeOK

(* The search ends at an ancestor, which lies on the stored chain.         *)
LEMMA FoundAncestorStep ==
    ASSUME IInv, TypeInv, NEW t \in Threads, FoundAncestor(t)
    PROVE  IInv'
<1> USE DEF storeVars, netVars, mineVars, Goto
<1>1. pc[t] = "walk" /\ Prev[newBlock] \in Stored /\ UNCHANGED <<storeVars, lastBlock, netVars>>
  BY DEF FoundAncestor
<1>2. ~TipMissing /\ CurrentTip = lastclosed /\ lastclosed \in Block
  BY <1>1, WalkFacts, StoreFacts DEF TipMissing, CurrentTip
<1>3. /\ newChain' = AddToBranch(newBlock, newChain) /\ ancestor' = Prev[newBlock]
      /\ tmpBlock' = lastclosed /\ UNCHANGED <<newBlock, toRollback>>
      /\ mutex' = t /\ pc'[t] = "count"
  BY <1>1, <1>2, WalkFacts DEF FoundAncestor, TypeInv, TypeOK
<1>4. /\ Linked' /\ newChain'[1] = newBlock /\ newChain' # <<>>
      /\ Len(newChain') > 1 => newChain # <<>>
      /\ \A i \in 1 .. Len(newChain') : newChain'[i] # Genesis
  BY <1>1, <1>3, WalkFacts, GrowBranch
<1>5. StoreInv'
  BY <1>1, StoreUnchanged DEF IInv
<1>6. TipInv'
  BY <1>1, <1>3, WalkFacts DEF TipInv, At
<1>7. BranchInv'
  BY <1>1, <1>3, <1>4, WalkFacts DEF BranchInv, At, Stored
<1>8. RollbackInv'
  BY <1>1, <1>2, <1>3, WalkFacts, StoreFacts DEF RollbackInv, At
<1>9. QED
  BY <1>5, <1>6, <1>7, <1>8 DEF IInv

(* The search continues with a block of the stash.                         *)
LEMMA TakeFromStashStep ==
    ASSUME IInv, TypeInv, NEW t \in Threads, TakeFromStash(t)
    PROVE  IInv'
<1> USE DEF storeVars, netVars, mineVars
<1>1. /\ pc[t] = "walk" /\ Prev[newBlock] \notin Stored
      /\ newChain' = AddToBranch(newBlock, newChain) /\ newBlock' = Prev[newBlock]
      /\ UNCHANGED <<storeVars, lastBlock, netVars, toRollback>>
      /\ mutex' = t /\ pc'[t] = "walk"
  BY WalkFacts DEF TakeFromStash
<1>2. /\ Linked' /\ newChain'[1] = newBlock /\ newChain' # <<>>
      /\ \A i \in 1 .. Len(newChain') : newChain'[i] # Genesis
  BY <1>1, WalkFacts, GrowBranch
<1>3. newBlock' \in Block \ {Genesis}
  BY <1>1, WalkFacts, StoreFacts, ParentFacts DEF Stored
<1>4. StoreInv'
  BY <1>1, StoreUnchanged DEF IInv
<1>5. TipInv' /\ RollbackInv'
  BY <1>1, WalkFacts DEF TipInv, RollbackInv, At
<1>6. BranchInv'
  BY <1>1, <1>2, <1>3, WalkFacts DEF BranchInv, At, Stored
<1>7. QED
  BY <1>4, <1>5, <1>6 DEF IInv

(* The search asks for the parent.                                         *)
LEMMA RequestBlockStep ==
    ASSUME IInv, TypeInv, NEW t \in Threads, RequestBlock(t)
    PROVE  IInv'
<1> USE DEF storeVars, netVars, mineVars, Goto
<1>1. /\ pc[t] = "walk" /\ Prev[newBlock] \notin Stored
      /\ newChain' = AddToBranch(newBlock, newChain)
      /\ UNCHANGED <<storeVars, lastBlock, newBlock, toRollback>>
      /\ mutex' = t /\ pc'[t] = "fetch"
  BY WalkFacts DEF RequestBlock, TypeInv, TypeOK
<1>2. /\ Linked' /\ newChain'[1] = newBlock /\ newChain' # <<>>
      /\ \A i \in 1 .. Len(newChain') : newChain'[i] # Genesis
  BY <1>1, WalkFacts, GrowBranch
<1>4. StoreInv'
  BY <1>1, StoreUnchanged DEF IInv
<1>5. TipInv' /\ RollbackInv'
  BY <1>1, WalkFacts DEF TipInv, RollbackInv, At
<1>6. BranchInv'
  BY <1>1, <1>2, WalkFacts DEF BranchInv, At, Stored
<1>7. QED
  BY <1>4, <1>5, <1>6 DEF IInv

(* What is known while getNewChain waits for an answer.                    *)
LEMMA FetchFacts ==
    ASSUME IInv, TypeInv, NEW t \in Threads, pc[t] = "fetch"
    PROVE  /\ mutex = t /\ Nil \notin Threads /\ t # Nil
           /\ newBlock \in Block /\ newBlock # Genesis
           /\ newChain # <<>> /\ toRollback = <<>> /\ newBlock = newChain[1]
           /\ Linked
           /\ \A i \in 1 .. Len(newChain) : newChain[i] # Genesis
           /\ Prev[newBlock] \notin Stored
           /\ Prev[newBlock] \in Block \ {Genesis}
           /\ lastBlock = lastclosed
<1>1. mutex = t /\ Nil \notin Threads /\ t # Nil
  BY TreeAssumption DEF TypeInv, MutexInv, Stages
<1>2. At({"fetch"}) /\ ~At({"unstore", "store"}) /\ At({"walk", "fetch"})
  BY <1>1 DEF At
<1>3. newBlock \in Block /\ newChain \in Seq(Block) /\ newChain # <<>> /\ newBlock = newChain[1]
  BY <1>2 DEF IInv, BranchInv, TypeInv, TypeOK
<1>4. newBlock # Genesis
  BY <1>3 DEF IInv, BranchInv
<1>5. Prev[newBlock] \in Block /\ Prev[newBlock] \notin Stored /\ Prev[newBlock] # Genesis
  BY <1>2, <1>3, <1>4, ParentFacts, StoreFacts DEF IInv, BranchInv, Stored
<1>6. QED
  BY <1>1, <1>2, <1>3, <1>4, <1>5 DEF IInv, BranchInv, TipInv

(* The walk goes on with the requested parent.                             *)
LEMMA ResumeWalk ==
    ASSUME IInv, TypeInv, NEW t \in Threads, pc[t] = "fetch",
           newBlock' = Prev[newBlock], pc'[t] = "walk", mutex' = mutex,
           UNCHANGED <<storeVars, lastBlock, newChain, toRollback>>
    PROVE  IInv'
<1> USE DEF storeVars
<1>1. StoreInv'
  BY StoreUnchanged DEF IInv
<1>2. TipInv' /\ RollbackInv'
  BY FetchFacts DEF TipInv, RollbackInv, At
<1>3. BranchInv'
  BY FetchFacts DEF BranchInv, At, Stored, Linked
<1>4. QED
  BY <1>1, <1>2, <1>3 DEF IInv

(* The answer on the channel is the requested block.                       *)
LEMMA ReceiveAnswerStep ==
    ASSUME IInv, TypeInv, AnswerInv, stale = {}, NEW t \in Threads, ReceiveAnswer(t)
    PROVE  IInv'
<1>1. /\ pc[t] = "fetch" /\ reqChan # Nil /\ newBlock' = reqChan
      /\ pc'[t] = "walk" /\ mutex' = mutex
      /\ UNCHANGED <<storeVars, lastBlock, newChain, toRollback>>
  BY DEF ReceiveAnswer, Goto, storeVars, TypeInv, TypeOK
<1>2. newBlock' = Prev[newBlock]
  BY <1>1 DEF AnswerInv
<1> QED
  BY <1>1, <1>2, ResumeWalk

(* The timer of the request fires: the walk goes on from the stash, or     *)
(* ends.                                                                   *)
LEMMA TimeoutStep ==
    ASSUME IInv, TypeInv, NEW t \in Threads, Timeout(t)
    PROVE  IInv'
<1>1. pc[t] = "fetch" /\ UNCHANGED <<storeVars, lastBlock>>
  BY DEF Timeout
<1>2. lastBlock = lastclosed
  BY <1>1, FetchFacts
<1>3. CASE Prev[newBlock] \in ToSet(stash)
  <2>1. /\ newBlock' = Prev[newBlock] /\ pc'[t] = "walk"
        /\ UNCHANGED <<mutex, newChain, toRollback>>
    BY <1>3 DEF Timeout, Goto, TypeInv, TypeOK
  <2> QED
    BY <1>1, <2>1, ResumeWalk
<1>4. CASE Prev[newBlock] \notin ToSet(stash)
  BY <1>1, <1>2, <1>4, FinishStep DEF Timeout
<1> QED
  BY <1>3, <1>4

(* A peer goroutine forwards an answer, or it gets lost.                   *)
LEMMA AnswerStep ==
    ASSUME IInv, TypeInv, NEW b \in Block, ForwardAnswer(b) \/ LoseAnswer(b)
    PROVE  IInv'
BY OutsideStep DEF ForwardAnswer, LoseAnswer

(* The steps of the two goroutines outside validate.                       *)
LEMMA IdleSteps ==
    ASSUME IInv, TypeInv,
           PrepareBlock \/ MineTick \/ MineAbort \/ \E b \in Block : Receive(b) \/ MineFound(b)
    PROVE  IInv' /\ lastBlock' = lastBlock /\ mutex' = mutex /\ oldTip' = oldTip
<1>1. lastBlock # Nil /\ Repaired = lastBlock
  BY TipIsBlock DEF Repaired
<1>2. /\ mutex' = mutex /\ oldTip' = oldTip
      /\ UNCHANGED <<storeVars, lastBlock, walkVars>>
  BY <1>1 DEF PrepareBlock, MineTick, MineAbort, Receive, MineFound
<1>3. mutex \in Threads => pc'[mutex] = pc[mutex]
  <2> SUFFICES ASSUME mutex \in Threads PROVE pc'[mutex] = pc[mutex]
    OBVIOUS
  <2>1. pc[mutex] \in Stages /\ mutex # Nil
    BY TreeAssumption DEF TypeInv, MutexInv
  <2>2. QED
    BY <1>1, <2>1 DEF PrepareBlock, MineTick, MineAbort, Receive, MineFound, Goto, Stages,
                       TypeInv, TypeOK, Threads
<1>5. QED
  BY <1>2, <1>3, OutsideStep

(* What is known once the ancestor is found.                               *)
LEMMA SwitchFacts ==
    ASSUME IInv, TypeInv, NEW t \in Threads, pc[t] \in {"count", "rollback", "unstore"}
    PROVE  /\ mutex = t /\ Nil \notin Threads /\ t # Nil
           /\ newChain \in Seq(Block) /\ newChain # <<>>
           /\ newChain[1] \in Block /\ newChain[1] # Genesis
           /\ ancestor = Prev[newChain[1]]
           /\ toRollback \in Seq(Block)
           /\ toRollback # <<>> => toRollback[1] = lastclosed
           /\ \A i \in 1 .. Len(toRollback) - 1 : Prev[toRollback[i]] = toRollback[i + 1]
           /\ \A i \in 1 .. Len(toRollback) : ancestor \in Anc[toRollback[i]]
<1>1. mutex = t /\ Nil \notin Threads /\ t # Nil
  BY TreeAssumption DEF TypeInv, MutexInv, Stages
<1>2. At({"count", "rollback", "unstore"}) /\ ~At({"fetch"})
  BY <1>1 DEF At
<1>3. newChain \in Seq(Block) /\ newChain # <<>> /\ ancestor = Prev[newChain[1]]
  BY <1>2 DEF IInv, BranchInv, TypeInv, TypeOK
<1>4. 1 \in 1 .. Len(newChain) /\ newChain[1] \in Block
  BY <1>3
<1>5. newChain[1] # Genesis
  BY <1>4 DEF IInv, BranchInv
<1>6. QED
  BY <1>1, <1>2, <1>3, <1>4, <1>5 DEF IInv, RollbackInv, TypeInv, TypeOK

(* getBlockSequences walks one block down the stored chain.                *)
LEMMA CountRollbackStep ==
    ASSUME IInv, TypeInv, NEW t \in Threads, CountRollback(t)
    PROVE  IInv'
<1> USE DEF storeVars, netVars, mineVars
<1>1. pc[t] = "count" /\ tmpBlock # ancestor /\ UNCHANGED <<storeVars, lastBlock, netVars>>
  BY DEF CountRollback
<1>2. /\ tmpBlock \in Block /\ ancestor \in Path(tmpBlock)
      /\ toRollback = <<>> => tmpBlock = lastclosed
      /\ toRollback # <<>> => Prev[toRollback[Len(toRollback)]] = tmpBlock
      /\ lastBlock = lastclosed
  BY <1>1, SwitchFacts DEF IInv, RollbackInv, TipInv, At
<1>3. CASE Prev[tmpBlock] \notin Stored
  BY <1>1, <1>2, <1>3, SwitchFacts, FinishStep DEF CountRollback
<1>4. CASE Prev[tmpBlock] \in Stored
  <2>1. /\ toRollback' = AddToRollback(toRollback, tmpBlock)
        /\ tmpBlock' = Prev[tmpBlock]
        /\ UNCHANGED <<mutex, pc, newBlock, newChain, ancestor>>
    BY <1>4 DEF CountRollback
  <2>2. ancestor \in Anc[tmpBlock] /\ ancestor \in Path(Prev[tmpBlock]) /\ Prev[tmpBlock] \in Block
    BY <1>1, <1>2, WalkDown, ParentFacts
  <2>3. /\ toRollback' \in Seq(Block) /\ Len(toRollback') = Len(toRollback) + 1
        /\ toRollback'[Len(toRollback) + 1] = tmpBlock
        /\ \A i \in 1 .. Len(toRollback) : toRollback'[i] = toRollback[i]
        /\ Len(toRollback) \in Nat
    <3>1. toRollback \in Seq(Block)
      BY <1>1, SwitchFacts
    <3>2. /\ AddToRollback(toRollback, tmpBlock) \in Seq(Block)
          /\ Len(AddToRollback(toRollback, tmpBlock)) = Len(toRollback) + 1
          /\ AddToRollback(toRollback, tmpBlock)[Len(toRollback) + 1] = tmpBlock
          /\ \A i \in 1 .. Len(toRollback) :
                AddToRollback(toRollback, tmpBlock)[i] = toRollback[i]
      BY <1>2, <3>1, RollbackType
    <3>3. Len(toRollback) \in Nat
      BY <3>1
    <3>4. QED
      BY <2>1, <3>2, <3>3
  <2>4. toRollback' # <<>> /\ Prev[toRollback'[Len(toRollback')]] = tmpBlock'
    BY <2>1, <2>3
  <2>5. toRollback'[1] = lastclosed
    BY <1>1, <1>2, <2>3, SwitchFacts
  <2>6. \A i \in 1 .. Len(toRollback') - 1 : Prev[toRollback'[i]] = toRollback'[i + 1]
    <3> SUFFICES ASSUME NEW i \in 1 .. Len(toRollback') - 1
                 PROVE  Prev[toRollback'[i]] = toRollback'[i + 1]
      OBVIOUS
    <3>1. i \in 1 .. Len(toRollback) /\ toRollback'[i] = toRollback[i]
      BY <2>3
    <3>2. CASE i = Len(toRollback)
      BY <1>2, <2>3, <3>1, <3>2
    <3>3. CASE i # Len(toRollback)
      <4>1. i \in 1 .. Len(toRollback) - 1 /\ i + 1 \in 1 .. Len(toRollback)
        BY <2>3, <3>1, <3>3
      <4>2. QED
        BY <1>1, <2>3, <3>1, <4>1, SwitchFacts
    <3>4. QED
      BY <3>2, <3>3
  <2>7. \A i \in 1 .. Len(toRollback') : ancestor \in Anc[toRollback'[i]]
    <3> SUFFICES ASSUME NEW i \in 1 .. Len(toRollback') PROVE ancestor \in Anc[toRollback'[i]]
      OBVIOUS
    <3>1. i = Len(toRollback) + 1 \/ i \in 1 .. Len(toRollback)
      BY <2>3
    <3>2. QED
      BY <1>1, <2>2, <2>3, <3>1, SwitchFacts
  <2>8. StoreInv'
    BY <1>1, StoreUnchanged DEF IInv
  <2>9. TipInv'
    BY <1>1, <1>2, <2>1, SwitchFacts DEF TipInv, At
  <2>10. BranchInv'
    BY <1>1, <2>1, SwitchFacts DEF IInv, BranchInv, At, Stored, Linked
  <2>11. RollbackInv'
    BY <1>1, <2>1, <2>2, <2>4, <2>5, <2>6, <2>7, SwitchFacts DEF RollbackInv, At
  <2>12. QED
    BY <2>8, <2>9, <2>10, <2>11 DEF IInv
<1>5. QED
  BY <1>3, <1>4

(* The walk down the stored chain has met the ancestor.                    *)
LEMMA CompareLengthsStep ==
    ASSUME IInv, TypeInv, NEW t \in Threads, CompareLengths(t)
    PROVE  IInv'
<1> USE DEF storeVars, netVars, mineVars, walkVars, Goto
<1>1. pc[t] = "count" /\ tmpBlock = ancestor /\ UNCHANGED <<storeVars, lastBlock, netVars>>
  BY DEF CompareLengths
<1>2. /\ toRollback = <<>> => tmpBlock = lastclosed
      /\ toRollback # <<>> => Prev[toRollback[Len(toRollback)]] = tmpBlock
      /\ lastBlock = lastclosed
  BY <1>1, SwitchFacts DEF IInv, RollbackInv, TipInv, At
<1>3. CASE ~Outgrows(newChain, toRollback)
  BY <1>1, <1>2, <1>3, SwitchFacts, FinishStep DEF CompareLengths
<1>4. CASE Outgrows(newChain, toRollback)
  <2>1. pc'[t] = "rollback" /\ UNCHANGED <<mutex, walkVars>>
    BY <1>4 DEF CompareLengths, TypeInv, TypeOK
  <2>2. newChain[1] \notin Stored
    <3>1. CASE Len(newChain) > 1
      BY <1>1, <3>1, SwitchFacts DEF IInv, BranchInv, At
    <3>2. CASE ~(Len(newChain) > 1)
      <4>1. toRollback = <<>>
        BY <1>1, <1>4, <3>2, SwitchFacts DEF Outgrows
      <4>2. Prev[newChain[1]] = lastclosed
        BY <1>1, <1>2, <4>1, SwitchFacts
      <4>3. QED
        BY <1>1, <4>2, SwitchFacts, StoreFacts, ParentFacts
    <3>3. QED
      BY <3>1, <3>2
  <2>3. StoreInv'
    BY <1>1, StoreUnchanged DEF IInv
  <2>4. TipInv'
    BY <1>1, <1>2, <2>1, SwitchFacts DEF TipInv, At
  <2>5. BranchInv'
    <3>1. /\ Linked' /\ newChain'[1] \notin Stored' /\ mutex' = t /\ t # Nil
          /\ newChain' # <<>> /\ ancestor' = Prev[newChain'[1]]
          /\ \A i \in 1 .. Len(newChain') : newChain'[i] # Genesis
      BY <1>1, <2>1, <2>2, SwitchFacts DEF IInv, BranchInv, Stored, Linked
    <3>2. QED
      BY <2>1, <3>1 DEF BranchInv, At
  <2>6. RollbackInv'
    BY <1>1, <1>2, <2>1, SwitchFacts DEF RollbackInv, At
  <2>7. QED
    BY <2>3, <2>4, <2>5, <2>6 DEF IInv
<1>5. QED
  BY <1>3, <1>4

(* The tip that is rolled back and its parent still have transactions.     *)
LEMMA RollbackAboveEmptied ==
    ASSUME IInv, TypeInv, NEW t \in Threads, pc[t] \in {"rollback", "unstore"}, toRollback # <<>>
    PROVE  /\ Head(toRollback) = lastclosed /\ toRollback[1] = lastclosed
           /\ lastclosed # Genesis
           /\ Prev[lastclosed] \in closed /\ lastclosed \notin withoutTx
<1>1. /\ toRollback \in Seq(Block) /\ toRollback[1] = lastclosed /\ Head(toRollback) = lastclosed
      /\ ancestor \in Anc[lastclosed]
      /\ newChain[1] \in Block /\ newChain[1] # Genesis /\ Prev[newChain[1]] = ancestor
  BY SwitchFacts
<1>2. newChain[1] \notin Path(lastclosed) /\ lastclosed \in Block /\ lastclosed \in Stored
  BY SwitchFacts, StoreFacts DEF IInv, BranchInv, At
<1>3. ~Settled(lastclosed)
  BY <1>1, <1>2, SettledBelowFork
<1>4. lastclosed # Genesis
  BY <1>1, TreeAssumption
<1>5. Prev[lastclosed] \in Stored
  BY <1>2, <1>4, StoreFacts, ParentFacts, PathFacts
<1>6. lastclosed \notin withoutTx /\ Prev[lastclosed] \notin withoutTx
  BY <1>2, <1>3 DEF IInv, StoreInv
<1>7. QED
  BY <1>1, <1>4, <1>5, <1>6 DEF Stored

(* The first half of the rollback of a block.                              *)
LEMMA RollbackStatisticsStep ==
    ASSUME IInv, TypeInv, NEW t \in Threads, RollbackStatistics(t)
    PROVE  IInv'
<1> USE DEF storeVars, netVars, mineVars, walkVars, Goto
<1>1. /\ pc[t] = "rollback" /\ toRollback # <<>> /\ pc'[t] = "unstore"
      /\ UNCHANGED <<storeVars, netVars, mutex, walkVars>>
  BY DEF RollbackStatistics, TypeInv, TypeOK
<1>2. lastBlock' = Prev[lastclosed]
  BY <1>1, RollbackAboveEmptied DEF RollbackStatistics
<1>3. StoreInv'
  BY <1>1, StoreUnchanged DEF IInv
<1>4. TipInv'
  BY <1>1, <1>2, SwitchFacts DEF TipInv, At
<1>5. BranchInv'
  BY <1>1, SwitchFacts DEF IInv, BranchInv, At, Stored, Linked
<1>6. RollbackInv'
  BY <1>1, SwitchFacts DEF IInv, RollbackInv, At
<1>7. QED
  BY <1>3, <1>4, <1>5, <1>6 DEF IInv

(* The second half of the rollback of a block: the chain loses its tip.    *)
LEMMA RollbackStoreStep ==
    ASSUME IInv, TypeInv, NEW t \in Threads, RollbackStore(t)
    PROVE  IInv'
<1> USE DEF netVars, mineVars, Goto
<1>1. /\ pc[t] = "unstore" /\ pc'[t] = "rollback"
      /\ toRollback' = Tail(toRollback)
      /\ UNCHANGED <<withoutTx, lastBlock, mutex, newBlock, newChain, ancestor>>
  BY DEF RollbackStore, TypeInv, TypeOK
<1>2. toRollback # <<>> /\ lastBlock = Prev[lastclosed]
  BY <1>1, SwitchFacts DEF IInv, RollbackInv, TipInv, At
<1>3. /\ Head(toRollback) = lastclosed /\ toRollback[1] = lastclosed
      /\ lastclosed # Genesis /\ Prev[lastclosed] \in closed /\ lastclosed \notin withoutTx
  BY <1>1, <1>2, RollbackAboveEmptied
<1>4. lastclosed \in Block /\ Stored = Path(lastclosed)
  BY StoreFacts
<1>5. /\ Prev[lastclosed] # lastclosed
      /\ Path(lastclosed) = Path(Prev[lastclosed]) \cup {lastclosed}
      /\ lastclosed \notin Path(Prev[lastclosed])
  BY <1>3, <1>4, ParentFacts
<1>6. closed' = closed \ {lastclosed} /\ lastclosed' = Prev[lastclosed]
  BY <1>3, <1>5 DEF RollbackStore
<1>7. Stored' = Path(lastclosed') /\ Stored' \subseteq Stored
  BY <1>1, <1>3, <1>4, <1>5, <1>6 DEF Stored
<1>8. StoreInv'
  BY <1>1, <1>3, <1>5, <1>6, <1>7 DEF IInv, StoreInv, OneChain
<1>9. TipInv'
  BY <1>1, <1>2, <1>6, SwitchFacts DEF TipInv, At
<1>10. BranchInv'
  <2>1. /\ Linked' /\ newChain'[1] \notin Stored' /\ mutex' = t /\ t # Nil
        /\ newChain' # <<>> /\ ancestor' = Prev[newChain'[1]]
        /\ \A i \in 1 .. Len(newChain') : newChain'[i] # Genesis
    BY <1>1, <1>7, SwitchFacts DEF IInv, BranchInv, Linked, At
  <2>2. QED
    BY <1>1, <2>1 DEF BranchInv, At
<1>11. RollbackInv'
  <2>1. /\ toRollback \in Seq(Block) /\ Len(toRollback) \in Nat \ {0}
        /\ toRollback' \in Seq(Block) /\ Len(toRollback') = Len(toRollback) - 1
        /\ \A i \in 1 .. Len(toRollback') : toRollback'[i] = toRollback[i + 1]
    BY <1>1, <1>2, SwitchFacts
  <2>2. \A i \in 1 .. Len(toRollback') - 1 : Prev[toRollback'[i]] = toRollback'[i + 1]
    <3> SUFFICES ASSUME NEW i \in 1 .. Len(toRollback') - 1
                 PROVE  Prev[toRollback'[i]] = toRollback'[i + 1]
      OBVIOUS
    <3>1. i + 1 \in 1 .. Len(toRollback) - 1 /\ i + 1 \in 1 .. Len(toRollback') /\ i \in 1 .. Len(toRollback')
      BY <2>1
    <3>2. Prev[toRollback[i + 1]] = toRollback[(i + 1) + 1]
      BY <1>1, <3>1, SwitchFacts
    <3>3. QED
      BY <2>1, <3>1, <3>2
  <2>3. \A i \in 1 .. Len(toRollback') : ancestor \in Anc[toRollback'[i]]
    <3> SUFFICES ASSUME NEW i \in 1 .. Len(toRollback') PROVE ancestor \in Anc[toRollback'[i]]
      OBVIOUS
    <3>1. i + 1 \in 1 .. Len(toRollback)
      BY <2>1
    <3>2. QED
      BY <1>1, <2>1, <3>1, SwitchFacts
  <2>4. Prev[toRollback[Len(toRollback)]] = ancestor
    BY <1>1, <1>2, SwitchFacts DEF IInv, RollbackInv, At
  <2>5. toRollback' = <<>> => lastclosed' = ancestor
    <3>1. toRollback' = <<>> => Len(toRollback) = 1
      BY <2>1
    <3>2. QED
      BY <1>3, <1>6, <2>4, <3>1
  <2>6. toRollback' # <<>> => /\ toRollback'[1] = lastclosed'
                             /\ Prev[toRollback'[Len(toRollback')]] = ancestor
    <3> SUFFICES ASSUME toRollback' # <<>>
                 PROVE  /\ toRollback'[1] = lastclosed'
                        /\ Prev[toRollback'[Len(toRollback')]] = ancestor
      OBVIOUS
    <3>1. Len(toRollback') >= 1 /\ 1 \in 1 .. Len(toRollback) - 1
      BY <2>1
    <3>2. toRollback'[1] = toRollback[1 + 1] /\ Prev[toRollback[1]] = toRollback[1 + 1]
      BY <1>1, <2>1, <3>1, SwitchFacts
    <3>3. toRollback'[Len(toRollback')] = toRollback[Len(toRollback)]
      BY <2>1, <3>1
    <3>4. QED
      BY <1>3, <1>6, <2>4, <3>2, <3>3
  <2>7. QED
    BY <1>1, <2>2, <2>3, <2>5, <2>6, SwitchFacts DEF RollbackInv, At
<1>12. QED
  BY <1>8, <1>9, <1>10, <1>11 DEF IInv

(* After the rollback the branch continues the stored chain.               *)
LEMMA RollbackDoneStep ==
    ASSUME IInv, TypeInv, NEW t \in Threads, RollbackDone(t)
    PROVE  IInv'
<1> USE DEF storeVars, netVars, mineVars, walkVars, Goto
<1>1. /\ pc[t] = "rollback" /\ toRollback = <<>> /\ pc'[t] = "validate"
      /\ UNCHANGED <<storeVars, lastBlock, netVars, mutex, walkVars>>
  BY DEF RollbackDone, TypeInv, TypeOK
<1>2. lastBlock = lastclosed /\ lastclosed = ancestor
  BY <1>1, SwitchFacts DEF IInv, TipInv, RollbackInv, At
<1>3. StoreInv'
  BY <1>1, StoreUnchanged DEF IInv
<1>4. TipInv' /\ RollbackInv'
  BY <1>1, <1>2, SwitchFacts DEF TipInv, RollbackInv, At
<1>5. BranchInv'
  <2>1. /\ Linked' /\ mutex' = t /\ t # Nil /\ Prev[newChain'[1]] = lastclosed'
        /\ \A i \in 1 .. Len(newChain') : newChain'[i] # Genesis
    BY <1>1, <1>2, SwitchFacts DEF IInv, BranchInv, Linked
  <2>2. QED
    BY <1>1, <2>1 DEF BranchInv, At
<1>6. QED
  BY <1>3, <1>4, <1>5 DEF IInv

(* What is known while the branch is validated.                            *)
LEMMA ValidateFacts ==
    ASSUME IInv, TypeInv, NEW t \in Threads, pc[t] \in {"validate", "store"}
    PROVE  /\ mutex = t /\ Nil \notin Threads /\ t # Nil
           /\ newChain \in Seq(Block)
           /\ newChain # <<>> => /\ newChain[1] \in Block /\ newChain[1] # Genesis
                                 /\ Head(newChain) = newChain[1]
                                 /\ Prev[newChain[1]] = lastclosed
           /\ Linked
           /\ \A i \in 1 .. Len(newChain) : newChain[i] # Genesis
           /\ pc[t] = "validate" => lastBlock = lastclosed
           /\ pc[t] = "store" => lastBlock = newChain[1] /\ newChain # <<>>
<1>1. mutex = t /\ Nil \notin Threads /\ t # Nil
  BY TreeAssumption DEF TypeInv, MutexInv, Stages
<1>2. At({"validate", "store"}) /\ ~At({"fetch"})
  BY <1>1 DEF At
<1>3. newChain \in Seq(Block) /\ Linked
      /\ \A i \in 1 .. Len(newChain) : newChain[i] # Genesis
  BY <1>2 DEF IInv, BranchInv, TypeInv, TypeOK
<1>4. newChain # <<>> => 1 \in 1 .. Len(newChain) /\ newChain[1] \in Block /\ Head(newChain) = newChain[1]
  BY <1>3
<1>5. newChain # <<>> => Prev[newChain[1]] = lastclosed
  BY <1>2 DEF IInv, BranchInv
<1>6. /\ pc[t] = "validate" => lastBlock = lastclosed
      /\ pc[t] = "store" => lastBlock = newChain[1] /\ newChain # <<>>
  BY <1>1 DEF IInv, TipInv, BranchInv, At
<1>7. QED
  BY <1>1, <1>2, <1>3, <1>4, <1>5, <1>6 DEF IInv

(* The first half of postValidate.                                         *)
LEMMA ValidateStatisticsStep ==
    ASSUME IInv, TypeInv, NEW t \in Threads, ValidateStatistics(t)
    PROVE  IInv'
<1> USE DEF storeVars, netVars, mineVars, walkVars, Goto
<1>1. /\ pc[t] = "validate" /\ newChain # <<>> /\ pc'[t] = "store"
      /\ lastBlock' = Head(newChain)
      /\ UNCHANGED <<storeVars, netVars, mutex, walkVars>>
  BY DEF ValidateStatistics, TypeInv, TypeOK
<1>2. StoreInv'
  BY <1>1, StoreUnchanged DEF IInv
<1>3. TipInv' /\ RollbackInv'
  BY <1>1, ValidateFacts DEF TipInv, RollbackInv, At
<1>4. BranchInv'
  <2>1. /\ Linked' /\ mutex' = t /\ t # Nil /\ Prev[newChain'[1]] = lastclosed'
        /\ newChain' # <<>>
        /\ \A i \in 1 .. Len(newChain') : newChain'[i] # Genesis
    BY <1>1, ValidateFacts DEF Linked
  <2>2. QED
    BY <1>1, <2>1 DEF BranchInv, At
<1>5. QED
  BY <1>2, <1>3, <1>4 DEF IInv

(* The second half of postValidate: the chain gets a new tip, and what is  *)
(* emptied is settled.                                                     *)
LEMMA ValidateStoreStep ==
    ASSUME ShallowForks, IInv, TypeInv, NEW t \in Threads, ValidateStore(t)
    PROVE  IInv'
<1> USE DEF netVars, mineVars, Goto
<1> DEFINE b == newChain[1]
<1>1. /\ pc[t] = "store" /\ pc'[t] = "validate" /\ newChain' = Tail(newChain)
      /\ UNCHANGED <<lastBlock, netVars, mutex, toRollback>>
  BY DEF ValidateStore, TypeInv, TypeOK
<1>2. /\ newChain \in Seq(Block) /\ newChain # <<>> /\ b \in Block /\ b # Genesis
      /\ Head(newChain) = b /\ Prev[b] = lastclosed /\ lastBlock = b
  BY <1>1, ValidateFacts
<1>3. /\ Path(b) = Path(lastclosed) \cup {b} /\ b \notin Path(lastclosed)
      /\ Height[b] \in Nat /\ Path(b) \subseteq Block
      /\ Stored = Path(lastclosed) /\ lastclosed # Nil
  BY <1>2, ParentFacts, PathFacts, StoreFacts
<1>4. PICK emptied \in SUBSET OldBlocks(b, closed \cup {b}) :
        /\ closed' = (closed \cup {b}) \ emptied
        /\ withoutTx' = withoutTx \cup emptied
        /\ lastclosed' = b
  BY <1>2, <1>3 DEF ValidateStore
<1> HIDE DEF b
<1>5. EmptyAfter \in Nat
  BY ParameterAssumption
<1>6. ASSUME NEW x \in emptied
      PROVE  /\ x \in Path(b) /\ x \in Block /\ x # Genesis /\ Height[x] \in Nat
             /\ Height[b] > Height[x] + EmptyAfter
  <2>1. x \in closed \cup {b} /\ Height[x] > 0 /\ Height[x] < Height[b] - EmptyAfter
    BY DEF OldBlocks
  <2>2. x \in Path(b) /\ x \in Block
    BY <2>1, <1>3 DEF Stored
  <2>3. Height[x] \in Nat
    BY <2>2, PathFacts
  <2>4. x # Genesis
    BY <2>1, TreeAssumption
  <2>5. QED
    BY <1>3, <1>5, <2>1, <2>2, <2>3, <2>4
<1>7. b \notin emptied
  <2>1. SUFFICES ASSUME b \in emptied PROVE FALSE
    OBVIOUS
  <2>2. Height[b] > Height[b] + EmptyAfter
    BY <1>6, <2>1
  <2>3. QED
    BY <1>3, <1>5, <2>2
<1>8. Stored' = Path(b) /\ Stored' = Stored \cup {b}
  BY <1>3, <1>4 DEF Stored, OldBlocks
<1>9. OneChain'
  <2>1. b \notin withoutTx /\ closed \cap withoutTx = {}
    BY <1>3 DEF Stored, IInv, StoreInv, OneChain
  <2>2. QED
    BY <1>4, <1>7, <1>8, <2>1 DEF OneChain, OldBlocks
<1>10. ASSUME NEW x \in withoutTx'
       PROVE  x # Genesis /\ Settled(x) /\ \A y \in Stored' : Prev[y] = x => Settled(y)
  <2>1. CASE x \in withoutTx
    <3>1. /\ x # Genesis /\ Settled(x)
          /\ \A y \in Stored : Prev[y] = x => Settled(y)
      BY <2>1 DEF IInv, StoreInv
    <3>2. x # lastclosed
      BY <2>1 DEF IInv, StoreInv, OneChain
    <3>3. QED
      BY <1>2, <1>8, <3>1, <3>2
  <2>2. CASE x \in emptied
    <3>1. /\ x \in Path(b) /\ x \in Block /\ x # Genesis /\ Height[x] \in Nat
          /\ Height[b] > Height[x] + EmptyAfter
      BY <1>6, <2>2
    <3>2. Settled(x)
      <4>1. Height[b] >= Height[x] + EmptyAfter
        BY <1>3, <1>5, <3>1
      <4>2. QED
        BY <1>2, <3>1, <4>1 DEF ShallowForks, b
    <3>3. ASSUME NEW y \in Stored', Prev[y] = x PROVE Settled(y)
      <4>1. y \in Path(b) /\ y \in Block
        BY <1>3, <1>8
      <4>2. CASE y = Genesis
        BY <3>1, <3>3, <4>2, TreeAssumption
      <4>3. CASE y # Genesis
        <5>1. Height[y] = Height[x] + 1
          BY <3>3, <4>1, <4>3, ParentFacts
        <5>2. Height[b] >= Height[y] + EmptyAfter
          BY <1>3, <1>5, <3>1, <5>1
        <5>3. QED
          BY <1>2, <4>1, <5>2 DEF ShallowForks, b
      <4>4. QED
        BY <4>2, <4>3
    <3>4. QED
      BY <3>1, <3>2, <3>3
  <2>3. QED
    BY <1>4, <2>1, <2>2
<1>11. StoreInv'
  BY <1>9, <1>10 DEF StoreInv
<1>12. TipInv' /\ RollbackInv'
  BY <1>1, <1>2, <1>4, ValidateFacts DEF TipInv, RollbackInv, At, b
<1>13. BranchInv'
  <2>1. /\ Len(newChain) \in Nat \ {0} /\ Len(newChain') = Len(newChain) - 1
        /\ newChain' \in Seq(Block)
        /\ \A i \in 1 .. Len(newChain') : newChain'[i] = newChain[i + 1]
    BY <1>1, <1>2
  <2>2. Linked'
    <3> SUFFICES ASSUME NEW i \in 1 .. Len(newChain') - 1
                 PROVE  Prev[newChain'[i + 1]] = newChain'[i]
      BY DEF Linked
    <3>1. i + 1 \in 1 .. Len(newChain) - 1 /\ i + 1 \in 1 .. Len(newChain') /\ i \in 1 .. Len(newChain')
      BY <2>1
    <3>2. Prev[newChain[(i + 1) + 1]] = newChain[i + 1]
      BY <1>1, <3>1, ValidateFacts DEF Linked
    <3>3. QED
      BY <2>1, <3>1, <3>2
  <2>3. \A i \in 1 .. Len(newChain') : newChain'[i] # Genesis
    <3> SUFFICES ASSUME NEW i \in 1 .. Len(newChain') PROVE newChain'[i] # Genesis
      OBVIOUS
    <3>1. i + 1 \in 1 .. Len(newChain)
      BY <2>1
    <3>2. QED
      BY <1>1, <2>1, <3>1, ValidateFacts
  <2>4. newChain' # <<>> => Prev[newChain'[1]] = lastclosed'
    <3> SUFFICES ASSUME newChain' # <<>> PROVE Prev[newChain'[1]] = lastclosed'
      OBVIOUS
    <3>1. 1 \in 1 .. Len(newChain') /\ 1 \in 1 .. Len(newChain) - 1
      BY <2>1
    <3>2. newChain'[1] = newChain[1 + 1] /\ Prev[newChain[1 + 1]] = newChain[1]
      BY <1>1, <2>1, <3>1, ValidateFacts DEF Linked
    <3>3. QED
      BY <1>4, <3>2 DEF b
  <2>5. mutex' = t /\ t # Nil
    BY <1>1, ValidateFacts
  <2>6. QED
    BY <1>1, <2>2, <2>3, <2>4, <2>5 DEF BranchInv, At
<1>14. QED
  BY <1>11, <1>12, <1>13 DEF IInv

(* A rejected block, or a block that cannot be rolled back, ends the       *)
(* validation with the chain it has reached.                               *)
LEMMA ValidateEndStep ==
    ASSUME IInv, TypeInv, NEW t \in Threads,
           RejectBlock(t) \/ ValidateDone(t) \/ RollbackFails(t)
    PROVE  IInv'
<1>1. /\ pc[t] = "validate" \/ pc[t] = "rollback"
      /\ Finish(t) /\ UNCHANGED <<storeVars, lastBlock, netVars>>
  BY DEF RejectBlock, ValidateDone, RollbackFails, netVars, storeVars
<1>2. lastBlock = lastclosed
  <2>1. CASE pc[t] = "validate"
    BY <2>1, ValidateFacts
  <2>2. CASE pc[t] = "rollback"
    BY <2>2, SwitchFacts DEF IInv, TipInv, At
  <2>3. QED
    BY <1>1, <2>1, <2>2
<1>3. QED
  BY <1>1, <1>2, FinishStep

(* Every step keeps the invariant.                                         *)
LEMMA NextIInv ==
    ASSUME ShallowForks, TypeInv, AnswerInv, stale = {}, IInv, [Next]_vars
    PROVE  IInv'
<1>1. ASSUME NEW t \in Threads, Step(t) PROVE IInv'
  BY <1>1, LockStep, FoundAncestorStep, TakeFromStashStep, RequestBlockStep,
     ReceiveAnswerStep, TimeoutStep, CountRollbackStep, CompareLengthsStep,
     RollbackStatisticsStep, RollbackStoreStep, RollbackDoneStep,
     ValidateStatisticsStep, ValidateStoreStep, ValidateEndStep DEF Step
<1>2. ASSUME NEW b \in Block, Receive(b) \/ ForwardAnswer(b) \/ LoseAnswer(b) \/ MineFound(b)
      PROVE  IInv'
  BY <1>2, AnswerStep, IdleSteps
<1>3. ASSUME PrepareBlock \/ MineTick \/ MineAbort PROVE IInv'
  BY <1>3, IdleSteps
<1>4. ASSUME UNCHANGED vars PROVE IInv'
  BY <1>4, OutsideStep DEF vars
<1>5. QED
  BY <1>1, <1>2, <1>3, <1>4 DEF Next

(* The invariant as it is kept through a whole behaviour.                  *)
Safe == TypeInv /\ AnswerInv /\ (stale = {} => IInv)

LEMMA InitSafe == Init => Safe
BY InitTypeInv, InitAnswerInv, InitIInv DEF Safe

LEMMA NextSafe == ASSUME ShallowForks PROVE Safe /\ [Next]_vars => Safe'
BY NextTypeInv, NextAnswerInv, NextIInv DEF Safe

(* Through every step of a reorganisation (rollback block by block, then   *)
(* validation block by block, with old blocks emptied meanwhile) the two   *)
(* closed buckets hold exactly one chain down to the genesis block.        *)
THEOREM StoreIsOneChain ==
    ASSUME ShallowForks
    PROVE  Spec => [](stale = {} => OneChain)
<1>1. Safe => (stale = {} => OneChain)
  BY DEF Safe, IInv, StoreInv
<1>2. QED
  BY <1>1, InitSafe, NextSafe, PTL DEF Spec

(* The lastBlock pointer, which mining and getBlockSequences trust, is the *)
(* persisted last closed block whenever the blockValidation mutex is free. *)
THEOREM TipIsPersisted ==
    ASSUME ShallowForks
    PROVE  Spec => [](stale = {} => TipAgrees)
<1>1. Safe => (stale = {} => TipAgrees)
  BY TreeAssumption DEF Safe, IInv, TipInv, TipAgrees, At
<1>2. QED
  BY <1>1, InitSafe, NextSafe, PTL DEF Spec

----------------------------------------------------------------------------
(* The longest chain.                                                      *)
LEMMA InitLengthInv == Init => LengthInv
<1>1. Nil \notin Threads /\ InitTip \in Block /\ Height[InitTip] \in Nat
  BY TreeAssumption, ParameterAssumption
<1>2. QED
  BY <1>1 DEF Init, LengthInv, At

(* A validation that ends before the rollback leaves the tip.              *)
LEMMA LengthAtEnd ==
    ASSUME TypeInv, IInv, LengthInv, NEW t \in Threads, Finish(t),
           UNCHANGED <<storeVars, oldTip>>, Height[oldTip] <= Height[lastclosed]
    PROVE  LengthInv'
BY TreeAssumption DEF LengthInv, At, Finish, storeVars

(* Steps within validate that leave the heights alone.                     *)
LEMMA LengthOutside ==
    ASSUME LengthInv, mutex' = mutex, mutex \in Threads => pc'[mutex] = pc[mutex],
           UNCHANGED <<storeVars, walkVars, oldTip>>
    PROVE  LengthInv'
BY DEF LengthInv, At, storeVars, walkVars

(* The search for the ancestor and the comparison of the two branches.     *)
LEMMA LengthSearch ==
    ASSUME TypeInv, IInv, LengthInv, NEW t \in Threads,
           \/ Lock(t) \/ FoundAncestor(t) \/ TakeFromStash(t) \/ RequestBlock(t)
           \/ ReceiveAnswer(t) \/ Timeout(t) \/ CountRollback(t) \/ CompareLengths(t)
    PROVE  LengthInv'
<1> USE DEF storeVars, netVars, mineVars, walkVars, Goto
<1>0. lastclosed \in Block /\ Height[lastclosed] \in Nat /\ Nil \notin Threads
  BY StoreFacts, PathFacts, TreeAssumption
<1>1. CASE Lock(t)
  <2>1. mutex = Nil /\ oldTip' = lastclosed /\ UNCHANGED <<closed, withoutTx, lastclosed>>
    BY <1>0, <1>1 DEF Lock, IInv, TipInv, At
  <2>2. mutex' = Nil \/ (mutex' = t /\ pc'[t] = "walk")
    BY <1>1 DEF Lock, Finish, TypeInv, TypeOK
  <2>3. QED
    BY <1>0, <2>1, <2>2 DEF LengthInv, At
<1>2. CASE FoundAncestor(t)
  <2>1. pc[t] = "walk" /\ oldTip = lastclosed /\ oldTip' = oldTip /\ lastclosed' = lastclosed
    BY <1>2, WalkFacts DEF FoundAncestor, LengthInv, At
  <2>2. ~TipMissing /\ CurrentTip = lastclosed
    BY <2>1, WalkFacts, StoreFacts DEF TipMissing, CurrentTip
  <2>3. mutex' = t /\ pc'[t] = "count" /\ tmpBlock' = lastclosed /\ toRollback' = <<>> /\ t # Nil
    BY <1>2, <2>1, <2>2, WalkFacts DEF FoundAncestor, TypeInv, TypeOK
  <2>4. QED
    BY <1>0, <2>1, <2>3 DEF LengthInv, At
<1>3. CASE TakeFromStash(t) \/ RequestBlock(t)
  <2>1. pc[t] = "walk" /\ oldTip' = oldTip /\ lastclosed' = lastclosed /\ mutex' = mutex
        /\ pc'[t] \in {"walk", "fetch"}
    BY <1>3 DEF TakeFromStash, RequestBlock, TypeInv, TypeOK
  <2>2. QED
    BY <1>0, <2>1, WalkFacts DEF LengthInv, At
<1>4. CASE ReceiveAnswer(t) \/ Timeout(t)
  <2>1. pc[t] = "fetch" /\ UNCHANGED <<storeVars, oldTip>> /\ oldTip = lastclosed
        /\ mutex = t /\ t # Nil
    BY <1>4, FetchFacts DEF ReceiveAnswer, Timeout, LengthInv, At
  <2>2. (mutex' = mutex /\ pc'[t] = "walk") \/ Finish(t)
    BY <1>4 DEF ReceiveAnswer, Timeout, TypeInv, TypeOK
  <2>3. CASE Finish(t)
    BY <1>0, <2>1, <2>3, LengthAtEnd
  <2>4. CASE mutex' = mutex /\ pc'[t] = "walk"
    BY <1>0, <2>1, <2>4 DEF LengthInv, At
  <2>5. QED
    BY <2>2, <2>3, <2>4
<1>5. CASE CountRollback(t)
  <2>1. pc[t] = "count" /\ UNCHANGED <<storeVars, oldTip>> /\ tmpBlock # ancestor
    BY <1>5 DEF CountRollback
  <2>2. /\ mutex = t /\ t # Nil /\ oldTip = lastclosed /\ toRollback \in Seq(Block)
        /\ Height[oldTip] = Height[tmpBlock] + Len(toRollback)
        /\ tmpBlock \in Block /\ ancestor \in Path(tmpBlock)
    BY <2>1, SwitchFacts DEF LengthInv, IInv, RollbackInv, At
  <2>3. CASE Prev[tmpBlock] \notin Stored
    BY <1>0, <1>5, <2>1, <2>2, <2>3, LengthAtEnd DEF CountRollback
  <2>4. CASE Prev[tmpBlock] \in Stored
    <3>1. /\ toRollback' = AddToRollback(toRollback, tmpBlock)
          /\ tmpBlock' = Prev[tmpBlock] /\ UNCHANGED <<mutex, pc>>
      BY <1>5, <2>4 DEF CountRollback
    <3>2. Len(toRollback') = Len(toRollback) + 1 /\ Len(toRollback) \in Nat
      BY <2>2, <3>1, RollbackType
    <3>3. Height[tmpBlock] = Height[tmpBlock'] + 1 /\ Height[tmpBlock'] \in Nat
      BY <2>1, <2>2, <3>1, WalkDown, ParentFacts, PathFacts
    <3>4. Height[oldTip'] = Height[tmpBlock'] + Len(toRollback')
      BY <2>1, <2>2, <3>2, <3>3
    <3>5. QED
      BY <1>0, <2>1, <2>2, <3>1, <3>4 DEF LengthInv, At
  <2>5. QED
    BY <2>3, <2>4
<1>6. CASE CompareLengths(t)
  <2>1. pc[t] = "count" /\ UNCHANGED <<storeVars, oldTip>> /\ tmpBlock = ancestor
    BY <1>6 DEF CompareLengths
  <2>2. /\ mutex = t /\ t # Nil /\ oldTip = lastclosed
        /\ toRollback \in Seq(Block) /\ newChain \in Seq(Block)
        /\ Height[oldTip] = Height[tmpBlock] + Len(toRollback) /\ tmpBlock \in Block
    BY <2>1, SwitchFacts DEF LengthInv, IInv, RollbackInv, At
  <2>3. CASE ~Outgrows(newChain, toRollback)
    BY <1>0, <1>6, <2>1, <2>2, <2>3, LengthAtEnd DEF CompareLengths
  <2>4. CASE Outgrows(newChain, toRollback)
    <3>1. pc'[t] = "rollback" /\ UNCHANGED <<mutex, walkVars>>
      BY <1>6, <2>4 DEF CompareLengths, TypeInv, TypeOK
    <3>2. Height[tmpBlock] \in Nat /\ Len(toRollback) \in Nat /\ Len(newChain) \in Nat
      BY <2>2, PathFacts
    <3>3. Height[oldTip] < Height[ancestor] + Len(newChain)
      BY <2>1, <2>2, <2>4, <3>2 DEF Outgrows
    <3>4. QED
      BY <1>0, <2>1, <2>2, <3>1, <3>3 DEF LengthInv, At
  <2>5. QED
    BY <2>3, <2>4
<1>7. QED
  BY <1>1, <1>2, <1>3, <1>4, <1>5, <1>6

(* The rollback and the validation of the branch.                          *)
LEMMA LengthSwitch ==
    ASSUME TypeInv, IInv, LengthInv, NEW t \in Threads,
           \/ RollbackStatistics(t) \/ RollbackStore(t) \/ RollbackDone(t)
           \/ ValidateStatistics(t) \/ ValidateStore(t) \/ ValidateDone(t)
    PROVE  LengthInv'
<1> USE DEF storeVars, netVars, mineVars, walkVars, Goto
<1>0. lastclosed \in Block /\ Height[lastclosed] \in Nat /\ oldTip \in Block /\ Height[oldTip] \in Nat
  BY StoreFacts, PathFacts DEF LengthInv
<1>1. CASE RollbackStatistics(t) \/ RollbackStore(t)
  <2>1. /\ pc[t] \in {"rollback", "unstore"} /\ pc'[t] \in {"rollback", "unstore"}
        /\ UNCHANGED <<mutex, oldTip, ancestor, newChain>>
    BY <1>1 DEF RollbackStatistics, RollbackStore, TypeInv, TypeOK
  <2>2. mutex = t /\ t # Nil /\ Height[oldTip] < Height[ancestor] + Len(newChain)
    BY <2>1, SwitchFacts DEF LengthInv, At
  <2>3. QED
    BY <1>0, <2>1, <2>2 DEF LengthInv, At
<1>2. CASE RollbackDone(t)
  <2>1. /\ pc[t] = "rollback" /\ pc'[t] = "validate" /\ toRollback = <<>>
        /\ UNCHANGED <<mutex, oldTip, lastclosed, newChain>>
    BY <1>2 DEF RollbackDone, TypeInv, TypeOK
  <2>2. /\ mutex = t /\ t # Nil /\ lastclosed = ancestor
        /\ Height[oldTip] < Height[ancestor] + Len(newChain)
    BY <2>1, SwitchFacts DEF LengthInv, IInv, RollbackInv, At
  <2>3. QED
    BY <1>0, <2>1, <2>2 DEF LengthInv, At
<1>3. CASE ValidateStatistics(t)
  <2>1. /\ pc[t] = "validate" /\ pc'[t] = "store"
        /\ UNCHANGED <<mutex, oldTip, lastclosed, newChain>>
    BY <1>3 DEF ValidateStatistics, TypeInv, TypeOK
  <2>2. mutex = t /\ t # Nil /\ Height[oldTip] < Height[lastclosed] + Len(newChain)
    BY <2>1, ValidateFacts DEF LengthInv, At
  <2>3. QED
    BY <1>0, <2>1, <2>2 DEF LengthInv, At
<1>4. CASE ValidateStore(t)
  <2>1. /\ pc[t] = "store" /\ pc'[t] = "validate" /\ newChain' = Tail(newChain)
        /\ lastclosed' = Head(newChain) /\ UNCHANGED <<mutex, oldTip>>
    BY <1>4 DEF ValidateStore, TypeInv, TypeOK
  <2>2. /\ mutex = t /\ t # Nil /\ newChain \in Seq(Block) /\ newChain # <<>>
        /\ lastclosed' \in Block /\ lastclosed' # Genesis /\ Prev[lastclosed'] = lastclosed
        /\ Height[oldTip] < Height[lastclosed] + Len(newChain)
    BY <2>1, ValidateFacts DEF LengthInv, At
  <2>3. Height[lastclosed'] = Height[lastclosed] + 1 /\ Len(newChain') = Len(newChain) - 1
        /\ Len(newChain) \in Nat
    BY <2>1, <2>2, ParentFacts
  <2>4. Height[oldTip'] < Height[lastclosed'] + Len(newChain')
    BY <1>0, <2>1, <2>2, <2>3
  <2>5. QED
    BY <1>0, <2>1, <2>2, <2>4 DEF LengthInv, At
<1>5. CASE ValidateDone(t)
  <2>1. pc[t] = "validate" /\ Finish(t) /\ UNCHANGED <<storeVars, oldTip>> /\ newChain = <<>>
    BY <1>5 DEF ValidateDone
  <2>2. Height[oldTip] < Height[lastclosed] + Len(newChain) /\ Len(newChain) = 0
    BY <2>1, ValidateFacts DEF LengthInv, At
  <2>3. QED
    BY <1>0, <2>1, <2>2, LengthAtEnd
<1>6. QED
  BY <1>1, <1>2, <1>3, <1>4, <1>5

(* Every step keeps the accounting when no block is rejected.              *)
LEMMA NextLengthInv ==
    ASSUME "reject" \notin Faults
    PROVE  TypeInv /\ IInv /\ LengthInv /\ [Next]_vars => LengthInv'
<1> SUFFICES ASSUME TypeInv, IInv, LengthInv, [Next]_vars PROVE LengthInv'
  OBVIOUS
<1>1. ASSUME NEW t \in Threads, Step(t) PROVE LengthInv'
  BY <1>1, LengthSearch, LengthSwitch DEF Step, RejectBlock, RollbackFails
<1>2. ASSUME NEW b \in Block, ForwardAnswer(b) \/ LoseAnswer(b) PROVE LengthInv'
  BY <1>2, LengthOutside DEF ForwardAnswer, LoseAnswer
<1>3. ASSUME PrepareBlock \/ MineTick \/ MineAbort \/ \E b \in Block : Receive(b) \/ MineFound(b)
      PROVE  LengthInv'
  <2>1. mutex' = mutex /\ UNCHANGED <<storeVars, walkVars, oldTip>>
    BY <1>3 DEF PrepareBlock, MineTick, MineAbort, Receive, MineFound
  <2>2. mutex \in Threads => pc'[mutex] = pc[mutex]
    <3> SUFFICES ASSUME mutex \in Threads PROVE pc'[mutex] = pc[mutex]
      OBVIOUS
    <3>1. pc[mutex] \in Stages /\ mutex # Nil
      BY TreeAssumption DEF TypeInv, MutexInv
    <3>2. QED
      BY <1>3, <3>1 DEF PrepareBlock, MineTick, MineAbort, Receive, MineFound, Goto, Stages,
                         TypeInv, TypeOK, Threads
  <2>3. QED
    BY <2>1, <2>2, LengthOutside
<1>4. ASSUME UNCHANGED vars PROVE LengthInv'
  BY <1>4, LengthOutside DEF vars
<1>5. QED
  BY <1>1, <1>2, <1>3, <1>4 DEF Next

(* With the accounting of heights.                                         *)
Growing == Safe /\ (stale = {} => LengthInv)

LEMMA InitGrowing == Init => Growing
BY InitSafe, InitLengthInv DEF Growing

LEMMA NextGrowing ==
    ASSUME ShallowForks, "reject" \notin Faults
    PROVE  Growing /\ [Next]_vars => Growing'
BY NextSafe, NextAnswerInv, NextLengthInv DEF Growing, Safe

(* A validation never leaves the node on a shorter chain.                  *)
THEOREM NeverShrinks ==
    ASSUME ShallowForks, "reject" \notin Faults
    PROVE  Spec => [](stale = {} => NoShrink)
<1>1. Growing => (stale = {} => NoShrink)
  <2> SUFFICES ASSUME TypeInv, IInv, LengthInv, mutex = Nil
               PROVE  lastBlock # Nil /\ Height[lastBlock] >= Height[oldTip]
    BY DEF NoShrink, Growing, Safe
  <2>1. lastBlock = lastclosed /\ lastBlock # Nil /\ Height[oldTip] <= Height[lastclosed]
    BY TipIsBlock, TreeAssumption DEF IInv, TipInv, At, LengthInv
  <2>2. Height[oldTip] \in Nat /\ Height[lastclosed] \in Nat
    BY StoreFacts, PathFacts DEF LengthInv
  <2>3. QED
    BY <2>1, <2>2
<1>2. QED
  BY <1>1, InitGrowing, NextGrowing, PTL DEF Spec

(* The tip seen from outside the mutex.                                    *)
Tip == IF mutex = Nil THEN lastBlock ELSE oldTip

(* Every step keeps that tip or moves it to a strictly higher block.       *)
LEMMA StepAdopts ==
    ASSUME "reject" \notin Faults, TypeInv, AnswerInv, stale = {}, IInv, LengthInv, [Next]_vars
    PROVE  Tip' = Tip \/ \E b \in Block : Height[b] > Height[Tip] /\ Tip' = b
<1> USE DEF storeVars, netVars, mineVars, walkVars
<1>0. Nil \notin Threads
  BY TreeAssumption
<1>1. ASSUME NEW t \in Threads, Lock(t) PROVE Tip' = Tip
  <2>1. mutex = Nil /\ oldTip' = lastBlock /\ lastBlock' = lastBlock
    BY <1>1 DEF Lock
  <2>2. QED
    BY <2>1 DEF Tip
<1>2. ASSUME NEW t \in Threads, ValidateDone(t)
      PROVE  \E b \in Block : Height[b] > Height[Tip] /\ Tip' = b
  <2>1. /\ pc[t] = "validate" /\ mutex' = Nil /\ lastBlock' = lastBlock /\ newChain = <<>>
    BY <1>2 DEF ValidateDone, Finish
  <2>2. /\ mutex = t /\ t # Nil /\ lastBlock = lastclosed
        /\ Height[oldTip] < Height[lastclosed] + Len(newChain)
    BY <2>1, ValidateFacts DEF LengthInv, At
  <2>3. lastclosed \in Block /\ Height[lastclosed] \in Nat /\ Height[oldTip] \in Nat /\ Len(newChain) = 0
    BY <2>1, StoreFacts, PathFacts DEF LengthInv
  <2>4. Height[lastclosed] > Height[oldTip] /\ Tip' = lastclosed /\ Tip = oldTip
    BY <2>1, <2>2, <2>3 DEF Tip
  <2>5. QED
    BY <2>3, <2>4
<1>3. ASSUME NEW t \in Threads, Finish(t), UNCHANGED lastBlock, pc[t] \in {"walk", "fetch", "count"}
      PROVE  Tip' = Tip
  <2>1. mutex' = Nil /\ mutex = t /\ t # Nil
    BY <1>0, <1>3 DEF Finish, TypeInv, MutexInv, Stages
  <2>2. oldTip = lastclosed /\ lastBlock = lastclosed
    BY <1>3, <2>1 DEF LengthInv, IInv, TipInv, At
  <2>3. QED
    BY <1>3, <2>1, <2>2 DEF Tip
<1>4. ASSUME UNCHANGED <<mutex, oldTip>>, mutex # Nil \/ UNCHANGED lastBlock PROVE Tip' = Tip
  BY <1>4 DEF Tip
<1>5. ASSUME NEW t \in Threads, Step(t), ~Lock(t), ~ValidateDone(t) PROVE Tip' = Tip
  <2>1. pc[t] \in Stages /\ oldTip' = oldTip
    BY <1>5 DEF Step, FoundAncestor, TakeFromStash, RequestBlock, ReceiveAnswer, Timeout,
         CountRollback, CompareLengths, RollbackStatistics, RollbackStore, RollbackDone,
         ValidateStatistics, ValidateStore, RejectBlock, RollbackFails, Stages
  <2>2. mutex # Nil
    BY <1>0, <2>1 DEF TypeInv, MutexInv
  <2>3. mutex' = mutex \/ (Finish(t) /\ UNCHANGED lastBlock /\ pc[t] \in {"walk", "fetch", "count"})
    BY <1>5 DEF Step, FoundAncestor, TakeFromStash, RequestBlock, ReceiveAnswer, Timeout,
         CountRollback, CompareLengths, RollbackStatistics, RollbackStore, RollbackDone,
         ValidateStatistics, ValidateStore, RejectBlock, RollbackFails
  <2>4. QED
    BY <1>3, <1>4, <2>1, <2>2, <2>3
<1>6. ASSUME NEW b \in Block, ForwardAnswer(b) \/ LoseAnswer(b) PROVE Tip' = Tip
  BY <1>4, <1>6 DEF ForwardAnswer, LoseAnswer
<1>7. ASSUME PrepareBlock \/ MineTick \/ MineAbort \/ \E b \in Block : Receive(b) \/ MineFound(b)
      PROVE  Tip' = Tip
  BY <1>4, <1>7, IdleSteps
<1>8. ASSUME UNCHANGED vars PROVE Tip' = Tip
  BY <1>4, <1>8 DEF vars
<1>9. QED
  BY <1>1, <1>2, <1>5, <1>6, <1>7, <1>8 DEF Next

(* Chain implements LongestChain: as long as no unexpected answer was      *)
(* under way, a complete reorganisation, seen from outside the mutex, is   *)
(* one step to a strictly higher block.                                    *)
THEOREM ChainImplementsLongestChain ==
    ASSUME ShallowForks, "reject" \notin Faults
    PROVE  Spec /\ [](stale = {}) => ImplementsLongestChain
<1>1. Init => LC!Init
  BY DEF Init, LC!Init
<1>2. Growing /\ stale = {} /\ [Next]_vars =>
        [LC!Next]_(IF mutex = Nil THEN lastBlock ELSE oldTip)
  <2> SUFFICES ASSUME Growing, stale = {}, [Next]_vars
               PROVE  [LC!Next]_(IF mutex = Nil THEN lastBlock ELSE oldTip)
    OBVIOUS
  <2>1. Tip' = Tip \/ \E b \in Block : Height[b] > Height[Tip] /\ Tip' = b
    BY StepAdopts DEF Growing, Safe
  <2>2. QED
    BY <2>1 DEF Tip, LC!Next, LC!Adopt
<1>3. QED
  BY <1>1, <1>2, InitGrowing, NextGrowing, PTL DEF Spec, ImplementsLongestChain, LC!Spec

----------------------------------------------------------------------------
(* Forks of any depth.  A rollback below an emptied block leaves lastBlock *)
(* and the last closed block nil, or stale, and the emptied block in its   *)
(* bucket; a later branch may start from it.                               *)
ParentsStored == \A b \in closed : Prev[b] \in Stored

(* The blocks with transactions that stay when the running half of a       *)
(* rollback is completed.                                                  *)
Staying == IF At({"unstore"}) THEN closed \ {toRollback[1]} ELSE closed

(* Blocks keep their parents, and whatever tip there is, it is above all   *)
(* blocks with transactions.                                               *)
DeepStoreInv ==
    /\ Genesis \in closed
    /\ ParentsStored
    /\ lastclosed # Nil => closed \subseteq Path(lastclosed)
    /\ lastBlock # Nil => Staying \subseteq Path(lastBlock)

(* The branch hangs below the block under validation, and from the moment  *)
(* its ancestor is found, on a stored block; when the rollback is done, no *)
(* block with transactions is beside it.                                   *)
DeepBranchInv ==
    /\ Linked
    /\ \A i \in 1 .. Len(newChain) : newChain[i] # Genesis
    /\ mutex = Nil => newChain = <<>> /\ toRollback = <<>>
    /\ At({"walk"}) => /\ newBlock # Genesis
                       /\ toRollback = <<>>
                       /\ newChain # <<>> => newBlock = Prev[newChain[1]]
    /\ At({"fetch"}) => /\ newChain # <<>> /\ newBlock = newChain[1]
                        /\ toRollback = <<>>
                        /\ Prev[newBlock] \notin Stored
    /\ At({"count", "rollback", "unstore"}) =>
          newChain # <<>> /\ ancestor = Prev[newChain[1]] /\ ancestor \in Stored
    /\ At({"validate", "store"}) /\ newChain # <<>> =>
          Prev[newChain[1]] \in Stored /\ closed \subseteq Path(Prev[newChain[1]])
    /\ At({"store"}) => newChain # <<>> /\ lastBlock = newChain[1]

(* The blocks to roll back are a path that starts above all blocks with    *)
(* transactions.  An ancestor beside it is never met: the search would go  *)
(* on at the genesis block, which is its own parent.                       *)
DeepRollbackInv ==
    /\ At({"count"}) =>
          /\ toRollback = <<>> => closed \subseteq Path(tmpBlock)
          /\ toRollback # <<>> => Prev[toRollback[Len(toRollback)]] = tmpBlock
          /\ \A i \in 1 .. Len(toRollback) :
                \/ tmpBlock \in Anc[toRollback[i]]
                \/ tmpBlock = Genesis /\ ancestor # Genesis
    /\ At({"rollback", "unstore"}) =>
          /\ toRollback = <<>> => closed \subseteq Path(ancestor)
          /\ toRollback # <<>> => Prev[toRollback[Len(toRollback)]] = ancestor
          /\ \A i \in 1 .. Len(toRollback) : ancestor \in Anc[toRollback[i]]
    /\ At({"unstore"}) => toRollback # <<>>
    /\ At({"count", "rollback", "unstore"}) =>
          /\ toRollback # <<>> => closed \subseteq Path(toRollback[1])
          /\ \A i \in 1 .. Len(toRollback) - 1 : Prev[toRollback[i]] = toRollback[i + 1]

DeepInv == DeepStoreInv /\ DeepBranchInv /\ DeepRollbackInv

(* The initial state satisfies it.                                         *)
LEMMA InitDeepInv == Init => DeepInv
<1> SUFFICES ASSUME Init PROVE DeepInv
  OBVIOUS
<1>1. Nil \notin Threads /\ InitTip \in Block
  BY TreeAssumption, ParameterAssumption
<1>2. \A stages : ~At(stages)
  BY <1>1 DEF At, Init
<1>3. ParentsStored
  <2> SUFFICES ASSUME NEW b \in Path(InitTip) PROVE Prev[b] \in Path(InitTip)
    BY DEF Init, ParentsStored, Stored
  <2>1. b \in Block
    BY <1>1, PathFacts
  <2>2. CASE b = Genesis
    BY <2>2, TreeAssumption
  <2>3. CASE b # Genesis
    <3>1. Prev[b] \in Path(b)
      BY <2>1, <2>3, ParentFacts, PathFacts
    <3>2. Path(b) \subseteq Path(InitTip)
      BY <1>1, TreeAssumption DEF Path
    <3> QED
      BY <3>1, <3>2
  <2> QED
    BY <2>2, <2>3
<1>4. DeepStoreInv
  BY <1>1, <1>2, <1>3, PathFacts DEF Init, DeepStoreInv, Staying
<1>5. DeepBranchInv /\ DeepRollbackInv
  BY <1>2 DEF Init, DeepBranchInv, DeepRollbackInv, Linked
<1> QED
  BY <1>4, <1>5 DEF DeepInv

(* Steps of the peers and of the mining goroutine outside validate: the    *)
(* latter may set a nil lastBlock to the last closed block.                *)
LEMMA DeepOutsideStep ==
    ASSUME DeepInv, TypeInv,
           mutex' = mutex, mutex \in Threads => pc'[mutex] = pc[mutex],
           UNCHANGED <<storeVars, walkVars>>, lastBlock' \in {lastBlock, Repaired}
    PROVE  DeepInv'
<1> USE DEF storeVars, walkVars
<1>1. At({"unstore"})' <=> At({"unstore"})
  BY DEF At
<1>2. DeepStoreInv'
  <2>1. Staying' = Staying /\ Staying \subseteq closed
    BY <1>1 DEF Staying
  <2>2. lastBlock' # Nil => Staying \subseteq Path(lastBlock')
    BY <2>1 DEF DeepInv, DeepStoreInv, Repaired
  <2> QED
    BY <2>1, <2>2 DEF DeepInv, DeepStoreInv, ParentsStored, Stored
<1>3. DeepBranchInv'
  <2>1. At({"store"}) => lastBlock' = lastBlock
    <3>1. At({"store"}) => lastBlock \in Block
      BY DEF DeepInv, DeepBranchInv, TypeInv, TypeOK
    <3> QED
      BY <3>1, NilFacts DEF Repaired
  <2> QED
    BY <2>1 DEF DeepInv, DeepBranchInv, At, Linked, Stored
<1>4. DeepRollbackInv'
  BY DEF DeepInv, DeepRollbackInv, At
<1> QED
  BY <1>2, <1>3, <1>4 DEF DeepInv

(* A validation may end between two blocks.                                *)
LEMMA DeepFinishStep ==
    ASSUME DeepInv, TypeInv, NEW t \in Threads, Finish(t), ~At({"unstore"}),
           UNCHANGED <<storeVars, lastBlock>>
    PROVE  DeepInv'
<1> USE DEF storeVars, netVars
<1>1. mutex' = Nil /\ newChain' = <<>> /\ toRollback' = <<>> /\ Nil \notin Threads
  BY TreeAssumption DEF Finish
<1>2. ~At({"unstore"})'
  BY <1>1 DEF At
<1>3. DeepStoreInv'
  BY <1>2 DEF DeepInv, DeepStoreInv, ParentsStored, Stored, Staying
<1>4. DeepBranchInv' /\ DeepRollbackInv'
  BY <1>1 DEF DeepBranchInv, DeepRollbackInv, At, Linked
<1> QED
  BY <1>3, <1>4 DEF DeepInv

(* Steps of validate that leave the store and lastBlock alone and neither  *)
(* begin nor complete half of a rollback.                                  *)
LEMMA DeepStoreUnchanged ==
    ASSUME DeepInv, UNCHANGED <<storeVars, lastBlock>>, ~At({"unstore"}), ~At({"unstore"})'
    PROVE  DeepStoreInv'
BY DEF DeepInv, DeepStoreInv, ParentsStored, Stored, Staying, storeVars

(* A goroutine at a stage of validate holds the mutex.                     *)
LEMMA HolderFacts ==
    ASSUME TypeInv, NEW t \in Threads, pc[t] \in Stages
    PROVE  mutex = t /\ Nil \notin Threads /\ t # Nil
BY TreeAssumption DEF TypeInv, MutexInv

(* validate takes the mutex.                                               *)
LEMMA DeepLockStep ==
    ASSUME DeepInv, TypeInv, NEW t \in Threads, Lock(t)
    PROVE  DeepInv'
<1> USE DEF storeVars, netVars, mineVars, Goto
<1>1. /\ mutex = Nil /\ Nil \notin Threads /\ arg[t] \in Block
      /\ newChain = <<>> /\ toRollback = <<>> /\ ~At({"unstore"})
  BY TreeAssumption DEF Lock, DeepInv, DeepBranchInv, At, TypeInv, MutexInv
<1>2. CASE arg[t] \in closed
  BY <1>1, <1>2, DeepFinishStep DEF Lock
<1>3. CASE arg[t] \notin closed
  <2>1. /\ mutex' = t /\ pc'[t] = "walk" /\ newBlock' = arg[t]
        /\ newChain' = <<>> /\ toRollback' = <<>>
        /\ UNCHANGED <<storeVars, lastBlock, netVars>>
    BY <1>1, <1>3 DEF Lock, TypeInv, TypeOK
  <2>2. newBlock' # Genesis
    BY <1>3, <2>1 DEF DeepInv, DeepStoreInv
  <2>3. DeepStoreInv'
    BY <1>1, <2>1, DeepStoreUnchanged DEF At
  <2>4. DeepRollbackInv'
    BY <1>1, <2>1 DEF DeepRollbackInv, At
  <2>5. DeepBranchInv'
    BY <1>1, <2>1, <2>2 DEF DeepBranchInv, At, Linked
  <2> QED
    BY <2>3, <2>4, <2>5 DEF DeepInv
<1> QED
  BY <1>2, <1>3

(* What is known of the branch while getNewChain walks.                    *)
LEMMA DeepWalkFacts ==
    ASSUME DeepInv, TypeInv, NEW t \in Threads, pc[t] = "walk"
    PROVE  /\ mutex = t /\ Nil \notin Threads /\ t # Nil
           /\ newBlock \in Block /\ newBlock # Genesis
           /\ newChain \in Seq(Block) /\ toRollback = <<>>
           /\ Linked
           /\ \A i \in 1 .. Len(newChain) : newChain[i] # Genesis
           /\ newChain # <<>> => newBlock = Prev[newChain[1]]
           /\ ~At({"unstore"})
<1>1. mutex = t /\ Nil \notin Threads /\ t # Nil
  BY HolderFacts DEF Stages
<1>2. At({"walk"}) /\ ~At({"fetch"}) /\ ~At({"unstore"})
  BY <1>1 DEF At
<1> QED
  BY <1>1, <1>2 DEF DeepInv, DeepBranchInv, TypeInv, TypeOK, At

(* The search ends at an ancestor, and the one down from the tip begins.   *)
LEMMA DeepFoundAncestorStep ==
    ASSUME DeepInv, TypeInv, NEW t \in Threads, FoundAncestor(t)
    PROVE  DeepInv'
<1> USE DEF storeVars, netVars, mineVars, Goto
<1>1. pc[t] = "walk" /\ Prev[newBlock] \in Stored /\ UNCHANGED <<storeVars, lastBlock, netVars>>
  BY DEF FoundAncestor
<1>2. CASE TipMissing
  BY <1>1, <1>2, DeepWalkFacts, DeepFinishStep DEF FoundAncestor
<1>3. CASE ~TipMissing
  <2>1. /\ newChain' = AddToBranch(newBlock, newChain) /\ ancestor' = Prev[newBlock]
        /\ tmpBlock' = CurrentTip /\ UNCHANGED <<newBlock, toRollback>>
        /\ mutex' = t /\ pc'[t] = "count"
    BY <1>1, <1>3, DeepWalkFacts DEF FoundAncestor, TypeInv, TypeOK
  <2>2. closed \subseteq Path(CurrentTip)
    BY <1>1, <1>3, DeepWalkFacts DEF DeepInv, DeepStoreInv, Staying, TipMissing, CurrentTip
  <2>3. /\ Linked' /\ newChain'[1] = newBlock /\ newChain' # <<>>
        /\ \A i \in 1 .. Len(newChain') : newChain'[i] # Genesis
    BY <1>1, <2>1, DeepWalkFacts, GrowBranch
  <2>4. DeepStoreInv'
    BY <1>1, <2>1, DeepWalkFacts, DeepStoreUnchanged DEF At
  <2>5. DeepRollbackInv'
    BY <1>1, <2>1, <2>2, DeepWalkFacts DEF DeepRollbackInv, At
  <2>6. DeepBranchInv'
    BY <1>1, <2>1, <2>3, DeepWalkFacts DEF DeepBranchInv, At, Stored
  <2> QED
    BY <2>4, <2>5, <2>6 DEF DeepInv
<1> QED
  BY <1>2, <1>3

(* A block that is not stored is not the genesis block.                    *)
LEMMA GenesisStored == DeepInv => Genesis \in Stored
BY DEF DeepInv, DeepStoreInv, Stored

(* The search continues with a block of the stash.                         *)
LEMMA DeepTakeFromStashStep ==
    ASSUME DeepInv, TypeInv, NEW t \in Threads, TakeFromStash(t)
    PROVE  DeepInv'
<1> USE DEF storeVars, netVars, mineVars
<1>1. /\ pc[t] = "walk" /\ Prev[newBlock] \notin Stored
      /\ newChain' = AddToBranch(newBlock, newChain) /\ newBlock' = Prev[newBlock]
      /\ UNCHANGED <<storeVars, lastBlock, netVars, toRollback>>
      /\ mutex' = t /\ pc'[t] = "walk"
  BY DeepWalkFacts DEF TakeFromStash
<1>2. /\ Linked' /\ newChain'[1] = newBlock /\ newChain' # <<>>
      /\ \A i \in 1 .. Len(newChain') : newChain'[i] # Genesis
  BY <1>1, DeepWalkFacts, GrowBranch
<1>3. newBlock' # Genesis
  BY <1>1, GenesisStored
<1>4. DeepStoreInv'
  BY <1>1, DeepWalkFacts, DeepStoreUnchanged DEF At
<1>5. DeepRollbackInv'
  BY <1>1, DeepWalkFacts DEF DeepRollbackInv, At
<1>6. DeepBranchInv'
  BY <1>1, <1>2, <1>3, DeepWalkFacts DEF DeepBranchInv, At
<1> QED
  BY <1>4, <1>5, <1>6 DEF DeepInv

(* The search asks for the parent.                                         *)
LEMMA DeepRequestBlockStep ==
    ASSUME DeepInv, TypeInv, NEW t \in Threads, RequestBlock(t)
    PROVE  DeepInv'
<1> USE DEF storeVars, netVars, mineVars, Goto
<1>1. /\ pc[t] = "walk" /\ Prev[newBlock] \notin Stored
      /\ newChain' = AddToBranch(newBlock, newChain)
      /\ UNCHANGED <<storeVars, lastBlock, newBlock, toRollback>>
      /\ mutex' = t /\ pc'[t] = "fetch"
  BY DeepWalkFacts DEF RequestBlock, TypeInv, TypeOK
<1>2. /\ Linked' /\ newChain'[1] = newBlock /\ newChain' # <<>>
      /\ \A i \in 1 .. Len(newChain') : newChain'[i] # Genesis
  BY <1>1, DeepWalkFacts, GrowBranch
<1>3. DeepStoreInv'
  BY <1>1, DeepWalkFacts, DeepStoreUnchanged DEF At
<1>4. DeepRollbackInv'
  BY <1>1, DeepWalkFacts DEF DeepRollbackInv, At
<1>5. DeepBranchInv'
  BY <1>1, <1>2, DeepWalkFacts DEF DeepBranchInv, At, Stored
<1> QED
  BY <1>3, <1>4, <1>5 DEF DeepInv

(* What is known while getNewChain waits for an answer.                    *)
LEMMA DeepFetchFacts ==
    ASSUME DeepInv, TypeInv, NEW t \in Threads, pc[t] = "fetch"
    PROVE  /\ mutex = t /\ Nil \notin Threads /\ t # Nil /\ ~At({"unstore"})
           /\ newChain # <<>> /\ toRollback = <<>> /\ newBlock = newChain[1]
           /\ Linked
           /\ \A i \in 1 .. Len(newChain) : newChain[i] # Genesis
           /\ Prev[newBlock] # Genesis
<1>1. mutex = t /\ Nil \notin Threads /\ t # Nil
  BY HolderFacts DEF Stages
<1>2. At({"fetch"}) /\ ~At({"unstore"})
  BY <1>1 DEF At
<1>3. Prev[newBlock] \notin Stored /\ newChain # <<>> /\ toRollback = <<>> /\ newBlock = newChain[1]
  BY <1>2 DEF DeepInv, DeepBranchInv
<1>4. Prev[newBlock] # Genesis
  BY <1>3, GenesisStored
<1> QED
  BY <1>1, <1>2, <1>3, <1>4 DEF DeepInv, DeepBranchInv

(* The walk goes on with the requested parent.                             *)
LEMMA DeepResumeWalk ==
    ASSUME DeepInv, TypeInv, NEW t \in Threads, pc[t] = "fetch",
           newBlock' = Prev[newBlock], pc'[t] = "walk", mutex' = mutex,
           UNCHANGED <<storeVars, lastBlock, newChain, toRollback>>
    PROVE  DeepInv'
<1> USE DEF storeVars
<1>1. DeepStoreInv'
  BY DeepFetchFacts, DeepStoreUnchanged DEF At
<1>2. DeepRollbackInv'
  BY DeepFetchFacts DEF DeepRollbackInv, At
<1>3. DeepBranchInv'
  BY DeepFetchFacts DEF DeepBranchInv, At, Linked
<1> QED
  BY <1>1, <1>2, <1>3 DEF DeepInv

(* The answer on the channel is the requested block.                       *)
LEMMA DeepReceiveAnswerStep ==
    ASSUME DeepInv, TypeInv, AnswerInv, stale = {}, NEW t \in Threads, ReceiveAnswer(t)
    PROVE  DeepInv'
<1>1. /\ pc[t] = "fetch" /\ reqChan # Nil /\ newBlock' = reqChan
      /\ pc'[t] = "walk" /\ mutex' = mutex
      /\ UNCHANGED <<storeVars, lastBlock, newChain, toRollback>>
  BY DEF ReceiveAnswer, Goto, storeVars, TypeInv, TypeOK
<1>2. newBlock' = Prev[newBlock]
  BY <1>1 DEF AnswerInv
<1> QED
  BY <1>1, <1>2, DeepResumeWalk

(* The timer of the request fires: the walk goes on from the stash, or     *)
(* ends.                                                                   *)
LEMMA DeepTimeoutStep ==
    ASSUME DeepInv, TypeInv, NEW t \in Threads, Timeout(t)
    PROVE  DeepInv'
<1>1. pc[t] = "fetch" /\ UNCHANGED <<storeVars, lastBlock>>
  BY DEF Timeout
<1>2. ~At({"unstore"})
  BY <1>1, DeepFetchFacts
<1>3. CASE Prev[newBlock] \in ToSet(stash)
  <2>1. /\ newBlock' = Prev[newBlock] /\ pc'[t] = "walk"
        /\ UNCHANGED <<mutex, newChain, toRollback>>
    BY <1>3 DEF Timeout, Goto, TypeInv, TypeOK
  <2> QED
    BY <1>1, <2>1, DeepResumeWalk
<1>4. CASE Prev[newBlock] \notin ToSet(stash)
  BY <1>1, <1>2, <1>4, DeepFinishStep DEF Timeout
<1> QED
  BY <1>3, <1>4

(* A peer goroutine forwards an answer, or it gets lost.                   *)
LEMMA DeepAnswerStep ==
    ASSUME DeepInv, TypeInv, NEW b \in Block, ForwardAnswer(b) \/ LoseAnswer(b)
    PROVE  DeepInv'
BY DeepOutsideStep DEF ForwardAnswer, LoseAnswer

(* The steps of the two goroutines outside validate.                       *)
LEMMA DeepIdleSteps ==
    ASSUME DeepInv, TypeInv,
           PrepareBlock \/ MineTick \/ MineAbort \/ \E b \in Block : Receive(b) \/ MineFound(b)
    PROVE  DeepInv'
<1>1. UNCHANGED <<mutex, storeVars, walkVars>> /\ lastBlock' \in {lastBlock, Repaired}
  BY DEF PrepareBlock, MineTick, MineAbort, Receive, MineFound
<1>2. ASSUME mutex \in Threads PROVE pc'[mutex] = pc[mutex]
  <2>1. pc[mutex] \in Stages /\ mutex # Nil
    BY <1>2, TreeAssumption DEF TypeInv, MutexInv
  <2> QED
    BY <2>1 DEF PrepareBlock, MineTick, MineAbort, Receive, MineFound, Goto, Stages,
                TypeInv, TypeOK, Threads
<1> QED
  BY <1>1, <1>2, DeepOutsideStep

(* What is known once the ancestor is found.                               *)
LEMMA DeepSwitchFacts ==
    ASSUME DeepInv, TypeInv, NEW t \in Threads, pc[t] \in {"count", "rollback", "unstore"}
    PROVE  /\ mutex = t /\ Nil \notin Threads /\ t # Nil
           /\ newChain \in Seq(Block) /\ newChain # <<>> /\ Linked
           /\ \A i \in 1 .. Len(newChain) : newChain[i] # Genesis
           /\ ancestor = Prev[newChain[1]] /\ ancestor \in Stored
           /\ toRollback \in Seq(Block)
           /\ toRollback # <<>> => /\ toRollback[1] \in Block
                                   /\ closed \subseteq Path(toRollback[1])
           /\ \A i \in 1 .. Len(toRollback) - 1 : Prev[toRollback[i]] = toRollback[i + 1]
<1>1. mutex = t /\ Nil \notin Threads /\ t # Nil
  BY HolderFacts DEF Stages
<1>2. At({"count", "rollback", "unstore"}) /\ ~At({"fetch"})
  BY <1>1 DEF At
<1>3. newChain \in Seq(Block) /\ toRollback \in Seq(Block)
  BY DEF TypeInv, TypeOK
<1>4. /\ newChain # <<>> /\ Linked
      /\ \A i \in 1 .. Len(newChain) : newChain[i] # Genesis
      /\ ancestor = Prev[newChain[1]] /\ ancestor \in Stored
  BY <1>2 DEF DeepInv, DeepBranchInv
<1>5. /\ toRollback # <<>> => closed \subseteq Path(toRollback[1])
      /\ \A i \in 1 .. Len(toRollback) - 1 : Prev[toRollback[i]] = toRollback[i + 1]
  BY <1>2 DEF DeepInv, DeepRollbackInv
<1>6. toRollback # <<>> => toRollback[1] \in Block
  BY <1>3
<1> QED
  BY <1>1, <1>3, <1>4, <1>5, <1>6

(* The branch stays as it is while blocks are counted and rolled back.     *)
LEMMA DeepBranchKept ==
    ASSUME DeepInv, TypeInv, NEW t \in Threads, pc[t] \in {"count", "rollback", "unstore"},
           pc'[t] \in {"count", "rollback", "unstore"},
           UNCHANGED <<mutex, newChain, ancestor>>, ancestor \in Stored'
    PROVE  DeepBranchInv'
BY DeepSwitchFacts DEF DeepBranchInv, At, Linked

(* getBlockSequences walks one block down.                                 *)
LEMMA DeepCountRollbackStep ==
    ASSUME DeepInv, TypeInv, NEW t \in Threads, CountRollback(t)
    PROVE  DeepInv'
<1> USE DEF storeVars, netVars, mineVars
<1>1. /\ pc[t] = "count" /\ tmpBlock # ancestor /\ UNCHANGED <<storeVars, lastBlock, netVars>>
      /\ ~At({"unstore"}) /\ mutex = t
  BY DeepSwitchFacts DEF CountRollback, At
<1>2. /\ tmpBlock \in Block
      /\ toRollback = <<>> => closed \subseteq Path(tmpBlock)
      /\ toRollback # <<>> => Prev[toRollback[Len(toRollback)]] = tmpBlock
      /\ \A i \in 1 .. Len(toRollback) :
            \/ tmpBlock \in Anc[toRollback[i]]
            \/ tmpBlock = Genesis /\ ancestor # Genesis
  BY <1>1 DEF DeepInv, DeepRollbackInv, TypeInv, At
<1>3. CASE Prev[tmpBlock] \notin Stored
  BY <1>1, <1>3, DeepSwitchFacts, DeepFinishStep DEF CountRollback
<1>4. CASE Prev[tmpBlock] \in Stored
  <2>1. /\ toRollback' = AddToRollback(toRollback, tmpBlock)
        /\ tmpBlock' = Prev[tmpBlock]
        /\ UNCHANGED <<mutex, pc, newBlock, newChain, ancestor>>
    BY <1>4 DEF CountRollback
  <2>2. /\ toRollback' \in Seq(Block) /\ Len(toRollback') = Len(toRollback) + 1
        /\ toRollback'[Len(toRollback) + 1] = tmpBlock
        /\ \A i \in 1 .. Len(toRollback) : toRollback'[i] = toRollback[i]
        /\ Len(toRollback) \in Nat /\ toRollback \in Seq(Block)
    <3>1. toRollback \in Seq(Block)
      BY <1>1, DeepSwitchFacts
    <3>2. Len(toRollback) \in Nat
      BY <3>1
    <3> QED
      BY <1>2, <2>1, <3>1, <3>2, RollbackType
  <2>3. toRollback' # <<>> /\ Prev[toRollback'[Len(toRollback')]] = tmpBlock'
    BY <2>1, <2>2
  <2>4. closed \subseteq Path(toRollback'[1])
    <3>1. CASE toRollback = <<>>
      BY <1>2, <2>2, <3>1
    <3>2. CASE toRollback # <<>>
      <4>1. toRollback'[1] = toRollback[1]
        BY <2>2, <3>2
      <4> QED
        BY <1>1, <3>2, <4>1, DeepSwitchFacts
    <3> QED
      BY <3>1, <3>2
  <2>5. ASSUME NEW i \in 1 .. Len(toRollback') - 1
        PROVE  Prev[toRollback'[i]] = toRollback'[i + 1]
    <3>1. i \in 1 .. Len(toRollback) /\ toRollback'[i] = toRollback[i]
      BY <2>2
    <3>2. CASE i = Len(toRollback)
      BY <1>2, <2>2, <3>1, <3>2
    <3>3. CASE i # Len(toRollback)
      <4>1. i \in 1 .. Len(toRollback) - 1 /\ i + 1 \in 1 .. Len(toRollback)
        BY <2>2, <3>1, <3>3
      <4> QED
        BY <1>1, <2>2, <3>1, <4>1, DeepSwitchFacts
    <3> QED
      BY <3>2, <3>3
  <2>6. ASSUME NEW i \in 1 .. Len(toRollback')
        PROVE  \/ tmpBlock' \in Anc[toRollback'[i]]
               \/ tmpBlock' = Genesis /\ ancestor # Genesis
    <3>1. CASE tmpBlock = Genesis
      BY <1>1, <2>1, <3>1, TreeAssumption
    <3>2. CASE tmpBlock # Genesis
      <4>1. tmpBlock' \in Anc[tmpBlock]
        BY <1>2, <2>1, <3>2, ParentFacts, PathFacts
      <4>2. CASE i = Len(toRollback) + 1
        BY <2>2, <4>1, <4>2
      <4>3. CASE i # Len(toRollback) + 1
        <5>1. i \in 1 .. Len(toRollback) /\ toRollback'[i] = toRollback[i] /\ toRollback[i] \in Block
          BY <2>2, <4>3
        <5>2. tmpBlock \in Anc[toRollback[i]]
          BY <1>2, <3>2, <5>1
        <5>3. Anc[tmpBlock] \subseteq Anc[toRollback[i]]
          BY <5>1, <5>2, TreeAssumption
        <5> QED
          BY <4>1, <5>1, <5>3
      <4> QED
        BY <4>2, <4>3
    <3> QED
      BY <3>1, <3>2
  <2>7. DeepStoreInv'
    BY <1>1, <2>1, DeepStoreUnchanged DEF At
  <2>9. DeepBranchInv'
    BY <1>1, <2>1, DeepSwitchFacts, DeepBranchKept DEF Stored
  <2>10. DeepRollbackInv'
    BY <1>1, <2>1, <2>3, <2>4, <2>5, <2>6 DEF DeepRollbackInv, At
  <2> QED
    BY <2>7, <2>9, <2>10 DEF DeepInv
<1> QED
  BY <1>3, <1>4

(* The walk down from the tip has met the ancestor, which is therefore a   *)
(* proper ancestor of every block it has noted.                            *)
LEMMA DeepCompareLengthsStep ==
    ASSUME DeepInv, TypeInv, NEW t \in Threads, CompareLengths(t)
    PROVE  DeepInv'
<1> USE DEF storeVars, netVars, mineVars, walkVars, Goto
<1>1. /\ pc[t] = "count" /\ tmpBlock = ancestor /\ UNCHANGED <<storeVars, lastBlock, netVars>>
      /\ ~At({"unstore"}) /\ mutex = t
  BY DeepSwitchFacts DEF CompareLengths, At
<1>2. /\ toRollback = <<>> => closed \subseteq Path(ancestor)
      /\ toRollback # <<>> => Prev[toRollback[Len(toRollback)]] = ancestor
      /\ \A i \in 1 .. Len(toRollback) : ancestor \in Anc[toRollback[i]]
  BY <1>1 DEF DeepInv, DeepRollbackInv, At
<1>3. CASE ~Outgrows(newChain, toRollback)
  BY <1>1, <1>3, DeepSwitchFacts, DeepFinishStep DEF CompareLengths
<1>4. CASE Outgrows(newChain, toRollback)
  <2>1. pc'[t] = "rollback" /\ UNCHANGED <<mutex, walkVars>>
    BY <1>4 DEF CompareLengths, TypeInv, TypeOK
  <2>2. DeepStoreInv'
    BY <1>1, <2>1, DeepStoreUnchanged DEF At
  <2>4. DeepBranchInv'
    BY <1>1, <2>1, DeepSwitchFacts, DeepBranchKept DEF Stored
  <2>5. DeepRollbackInv'
    BY <1>1, <1>2, <2>1, DeepSwitchFacts DEF DeepRollbackInv, At
  <2> QED
    BY <2>2, <2>4, <2>5 DEF DeepInv
<1> QED
  BY <1>3, <1>4

(* What is known while blocks are rolled back.                             *)
LEMMA DeepRollbackFacts ==
    ASSUME DeepInv, TypeInv, NEW t \in Threads, pc[t] \in {"rollback", "unstore"}
    PROVE  /\ toRollback = <<>> => closed \subseteq Path(ancestor)
           /\ toRollback # <<>> =>
                /\ Prev[toRollback[Len(toRollback)]] = ancestor
                /\ Head(toRollback) = toRollback[1]
                /\ toRollback[1] # Genesis
                /\ closed \ {toRollback[1]} \subseteq Path(Prev[toRollback[1]])
           /\ \A i \in 1 .. Len(toRollback) : ancestor \in Anc[toRollback[i]]
           /\ pc[t] = "unstore" => toRollback # <<>>
<1>1. At({"rollback", "unstore"}) /\ (pc[t] = "unstore" => At({"unstore"}))
  BY DeepSwitchFacts DEF At
<1>2. /\ toRollback = <<>> => closed \subseteq Path(ancestor)
      /\ toRollback # <<>> => Prev[toRollback[Len(toRollback)]] = ancestor
      /\ \A i \in 1 .. Len(toRollback) : ancestor \in Anc[toRollback[i]]
      /\ pc[t] = "unstore" => toRollback # <<>>
  BY <1>1 DEF DeepInv, DeepRollbackInv
<1>3. ASSUME toRollback # <<>>
      PROVE  /\ Head(toRollback) = toRollback[1]
             /\ toRollback[1] # Genesis
             /\ closed \ {toRollback[1]} \subseteq Path(Prev[toRollback[1]])
  <2>1. /\ toRollback \in Seq(Block) /\ toRollback[1] \in Block
        /\ closed \subseteq Path(toRollback[1])
    BY <1>3, DeepSwitchFacts
  <2>2. Head(toRollback) = toRollback[1] /\ 1 \in 1 .. Len(toRollback)
    BY <1>3, <2>1
  <2>3. toRollback[1] # Genesis
    BY <1>2, <2>2, TreeAssumption
  <2> QED
    BY <2>1, <2>2, <2>3, ParentFacts
<1> QED
  BY <1>2, <1>3

(* The first half of the rollback of a block.                              *)
LEMMA DeepRollbackStatisticsStep ==
    ASSUME DeepInv, TypeInv, NEW t \in Threads, RollbackStatistics(t)
    PROVE  DeepInv'
<1> USE DEF storeVars, netVars, mineVars, walkVars, Goto
<1>1. /\ pc[t] = "rollback" /\ toRollback # <<>> /\ pc'[t] = "unstore"
      /\ UNCHANGED <<storeVars, netVars, mutex, walkVars>>
      /\ lastBlock' \in {Nil, Prev[Head(toRollback)]}
      /\ mutex = t
  BY DeepSwitchFacts DEF RollbackStatistics, TypeInv, TypeOK
<1>2. Staying' = closed \ {toRollback[1]}
  BY <1>1 DEF Staying, At
<1>3. DeepStoreInv'
  BY <1>1, <1>2, DeepRollbackFacts DEF DeepInv, DeepStoreInv, ParentsStored, Stored
<1>5. DeepBranchInv'
  BY <1>1, DeepSwitchFacts, DeepBranchKept DEF Stored
<1>6. DeepRollbackInv'
  BY <1>1, DeepSwitchFacts, DeepRollbackFacts DEF DeepRollbackInv, At
<1> QED
  BY <1>3, <1>5, <1>6 DEF DeepInv

(* The second half of the rollback of a block b.  No block with            *)
(* transactions has it for its parent, since all others are below it.      *)
LEMMA DeepRollbackStoreStep ==
    ASSUME DeepInv, TypeInv, NEW t \in Threads, RollbackStore(t)
    PROVE  DeepInv'
<1> USE DEF netVars, mineVars, Goto
<1> DEFINE b == toRollback[1]
<1>1. /\ pc[t] = "unstore" /\ pc'[t] = "rollback" /\ mutex = t
      /\ toRollback' = Tail(toRollback) /\ toRollback # <<>> /\ Head(toRollback) = b
      /\ UNCHANGED <<withoutTx, lastBlock, mutex, newBlock, newChain, ancestor>>
  BY DeepSwitchFacts, DeepRollbackFacts DEF RollbackStore, TypeInv, TypeOK
<1>2. closed' = closed \ {b} /\ lastclosed' \in {Nil, Prev[b]}
  BY <1>1 DEF RollbackStore
<1>3. b \in Block /\ b # Genesis /\ closed \ {b} \subseteq Path(Prev[b])
  BY <1>1, DeepSwitchFacts, DeepRollbackFacts
<1>4. ancestor \in Anc[b]
  <2>1. 1 \in 1 .. Len(toRollback)
    BY <1>1, DeepSwitchFacts
  <2> QED
    BY <1>1, <2>1, DeepRollbackFacts
<1> HIDE DEF b
<1>5. b \notin Path(Prev[b]) /\ Prev[b] \in Block /\ Path(Prev[b]) = Anc[b]
  BY <1>3, ParentFacts
<1>6. ASSUME NEW c \in closed' PROVE Prev[c] \in Stored'
  <2>1. c \in closed /\ c \in Path(Prev[b]) /\ Prev[c] \in Stored
    BY <1>2, <1>3 DEF DeepInv, DeepStoreInv, ParentsStored
  <2>2. c \in Block /\ Height[c] \in Nat
    BY <1>5, <2>1, PathFacts
  <2>3. Prev[c] # b
    <3>1. CASE c = Genesis
      BY <1>3, <3>1, TreeAssumption
    <3>2. CASE c # Genesis
      <4>1. Prev[c] \in Path(c)
        BY <2>2, <3>2, ParentFacts, PathFacts
      <4>2. Path(c) \subseteq Path(Prev[b])
        BY <1>5, <2>1, TreeAssumption DEF Path
      <4> QED
        BY <1>5, <4>1, <4>2
    <3> QED
      BY <3>1, <3>2
  <2> QED
    BY <1>1, <1>2, <2>1, <2>3 DEF Stored
<1>7. ancestor \in Stored'
  <2>1. ancestor # b
    BY <1>4, <1>5
  <2> QED
    BY <1>1, <1>2, <2>1, DeepSwitchFacts DEF Stored
<1>8. DeepStoreInv'
  <2>1. Staying = closed \ {b} /\ Staying' = closed'
    BY <1>1 DEF Staying, At, b
  <2>2. lastBlock' # Nil => Staying' \subseteq Path(lastBlock')
    BY <1>1, <1>2, <2>1 DEF DeepInv, DeepStoreInv
  <2>3. lastclosed' # Nil => closed' \subseteq Path(lastclosed')
    BY <1>2, <1>3
  <2>4. Genesis \in closed'
    BY <1>2, <1>3 DEF DeepInv, DeepStoreInv
  <2> QED
    BY <1>6, <2>2, <2>3, <2>4 DEF DeepStoreInv, ParentsStored
<1>10. DeepBranchInv'
  BY <1>1, <1>7, DeepBranchKept
<1>11. DeepRollbackInv'
  <2>1. /\ toRollback \in Seq(Block) /\ Len(toRollback) \in Nat \ {0}
        /\ toRollback' \in Seq(Block) /\ Len(toRollback') = Len(toRollback) - 1
        /\ \A i \in 1 .. Len(toRollback') : toRollback'[i] = toRollback[i + 1]
    BY <1>1, DeepSwitchFacts
  <2>2. ASSUME NEW i \in 1 .. Len(toRollback') - 1
        PROVE  Prev[toRollback'[i]] = toRollback'[i + 1]
    <3>1. i + 1 \in 1 .. Len(toRollback) - 1 /\ i + 1 \in 1 .. Len(toRollback') /\ i \in 1 .. Len(toRollback')
      BY <2>1
    <3>2. Prev[toRollback[i + 1]] = toRollback[(i + 1) + 1]
      BY <1>1, <3>1, DeepSwitchFacts
    <3> QED
      BY <2>1, <3>1, <3>2
  <2>3. ASSUME NEW i \in 1 .. Len(toRollback') PROVE ancestor \in Anc[toRollback'[i]]
    <3>1. i + 1 \in 1 .. Len(toRollback)
      BY <2>1
    <3> QED
      BY <1>1, <2>1, <3>1, DeepRollbackFacts
  <2>4. Prev[toRollback[Len(toRollback)]] = ancestor
    BY <1>1, DeepRollbackFacts
  <2>5. toRollback' = <<>> => closed' \subseteq Path(ancestor)
    <3>1. toRollback' = <<>> => Len(toRollback) = 1
      BY <2>1
    <3> QED
      BY <1>2, <1>3, <2>4, <3>1 DEF b
  <2>6. ASSUME toRollback' # <<>>
        PROVE  /\ closed' \subseteq Path(toRollback'[1])
               /\ Prev[toRollback'[Len(toRollback')]] = ancestor
    <3>1. Len(toRollback') >= 1 /\ 1 \in 1 .. Len(toRollback) - 1
      BY <2>1, <2>6
    <3>2. toRollback'[1] = toRollback[1 + 1] /\ Prev[b] = toRollback[1 + 1]
      BY <1>1, <2>1, <3>1, DeepSwitchFacts DEF b
    <3>3. toRollback'[Len(toRollback')] = toRollback[Len(toRollback)]
      BY <2>1, <3>1
    <3> QED
      BY <1>2, <1>3, <2>4, <3>2, <3>3
  <2> QED
    BY <1>1, <2>2, <2>3, <2>5, <2>6, DeepSwitchFacts DEF DeepRollbackInv, At
<1> QED
  BY <1>8, <1>10, <1>11 DEF DeepInv

(* After the rollback the branch continues the chain below.                *)
LEMMA DeepRollbackDoneStep ==
    ASSUME DeepInv, TypeInv, NEW t \in Threads, RollbackDone(t)
    PROVE  DeepInv'
<1> USE DEF storeVars, netVars, mineVars, walkVars, Goto
<1>1. /\ pc[t] = "rollback" /\ toRollback = <<>> /\ pc'[t] = "validate" /\ mutex = t
      /\ UNCHANGED <<storeVars, lastBlock, netVars, mutex, walkVars>>
  BY DeepSwitchFacts DEF RollbackDone, TypeInv, TypeOK
<1>2. DeepStoreInv'
  BY <1>1, DeepStoreUnchanged DEF At
<1>3. DeepRollbackInv'
  BY <1>1, DeepSwitchFacts DEF DeepRollbackInv, At
<1>4. DeepBranchInv'
  BY <1>1, DeepSwitchFacts, DeepRollbackFacts DEF DeepBranchInv, At, Linked, Stored
<1> QED
  BY <1>2, <1>3, <1>4 DEF DeepInv

(* What is known while the branch is validated.                            *)
LEMMA DeepValidateFacts ==
    ASSUME DeepInv, TypeInv, NEW t \in Threads, pc[t] \in {"validate", "store"}
    PROVE  /\ mutex = t /\ Nil \notin Threads /\ t # Nil /\ ~At({"unstore"})
           /\ newChain \in Seq(Block)
           /\ newChain # <<>> => /\ newChain[1] \in Block /\ newChain[1] # Genesis
                                 /\ Head(newChain) = newChain[1]
                                 /\ Prev[newChain[1]] \in Stored
                                 /\ closed \subseteq Path(Prev[newChain[1]])
           /\ Linked
           /\ \A i \in 1 .. Len(newChain) : newChain[i] # Genesis
           /\ pc[t] = "store" => lastBlock = newChain[1] /\ newChain # <<>>
<1>1. mutex = t /\ Nil \notin Threads /\ t # Nil
  BY HolderFacts DEF Stages
<1>2. /\ At({"validate", "store"}) /\ ~At({"fetch"}) /\ ~At({"unstore"})
      /\ pc[t] = "store" => At({"store"})
  BY <1>1 DEF At
<1>3. newChain \in Seq(Block) /\ Linked
      /\ \A i \in 1 .. Len(newChain) : newChain[i] # Genesis
  BY <1>2 DEF DeepInv, DeepBranchInv, TypeInv, TypeOK
<1>4. newChain # <<>> => 1 \in 1 .. Len(newChain) /\ newChain[1] \in Block /\ Head(newChain) = newChain[1]
  BY <1>3
<1> QED
  BY <1>1, <1>2, <1>3, <1>4 DEF DeepInv, DeepBranchInv

(* The first half of postValidate.                                         *)
LEMMA DeepValidateStatisticsStep ==
    ASSUME DeepInv, TypeInv, NEW t \in Threads, ValidateStatistics(t)
    PROVE  DeepInv'
<1> USE DEF storeVars, netVars, mineVars, walkVars, Goto
<1>1. /\ pc[t] = "validate" /\ newChain # <<>> /\ pc'[t] = "store" /\ mutex = t
      /\ lastBlock' = newChain[1]
      /\ UNCHANGED <<storeVars, netVars, mutex, walkVars>>
  BY DeepValidateFacts DEF ValidateStatistics, TypeInv, TypeOK
<1>2. DeepStoreInv'
  <2>1. Staying' = closed
    BY <1>1 DEF Staying, At
  <2>2. closed \subseteq Path(newChain[1])
    BY <1>1, DeepValidateFacts, ParentFacts
  <2> QED
    BY <1>1, <2>1, <2>2 DEF DeepInv, DeepStoreInv, ParentsStored, Stored
<1>3. DeepRollbackInv'
  BY <1>1, DeepValidateFacts DEF DeepRollbackInv, At
<1>4. DeepBranchInv'
  BY <1>1, DeepValidateFacts DEF DeepBranchInv, At, Linked, Stored
<1> QED
  BY <1>2, <1>3, <1>4 DEF DeepInv

(* The second half of postValidate: b is closed on top of its parent, and  *)
(* whatever is emptied stays stored.                                       *)
LEMMA DeepValidateStoreStep ==
    ASSUME DeepInv, TypeInv, NEW t \in Threads, ValidateStore(t)
    PROVE  DeepInv'
<1> USE DEF netVars, mineVars, Goto
<1> DEFINE b == newChain[1]
<1>1. /\ pc[t] = "store" /\ pc'[t] = "validate" /\ newChain' = Tail(newChain) /\ mutex = t
      /\ UNCHANGED <<lastBlock, netVars, mutex, toRollback>>
  BY DeepValidateFacts DEF ValidateStore, TypeInv, TypeOK
<1>2. /\ newChain \in Seq(Block) /\ newChain # <<>> /\ b \in Block /\ b # Genesis
      /\ Head(newChain) = b /\ Prev[b] \in Stored /\ closed \subseteq Path(Prev[b])
      /\ lastBlock = b
  BY <1>1, DeepValidateFacts
<1>3. closed \cup {b} \subseteq Path(b) /\ Height[b] \in Nat /\ Height[Genesis] = 0
  BY <1>2, ParentFacts, PathFacts, TreeAssumption
<1>4. PICK emptied \in SUBSET OldBlocks(b, closed \cup {b}) :
        /\ closed' = (closed \cup {b}) \ emptied
        /\ withoutTx' = withoutTx \cup emptied
        /\ lastclosed' = b
  BY <1>2 DEF ValidateStore
<1> HIDE DEF b
<1>5. b \notin emptied /\ Genesis \notin emptied
  BY <1>3, <1>4, ParameterAssumption DEF OldBlocks
<1>6. Stored' = Stored \cup {b}
  BY <1>4 DEF Stored, OldBlocks
<1>7. DeepStoreInv'
  <2>1. Staying' = closed' /\ closed' \subseteq Path(b)
    BY <1>1, <1>3, <1>4 DEF Staying, At
  <2>2. \A c \in closed' : Prev[c] \in Stored'
    BY <1>2, <1>4, <1>6 DEF DeepInv, DeepStoreInv, ParentsStored
  <2>3. Genesis \in closed'
    BY <1>4, <1>5 DEF DeepInv, DeepStoreInv
  <2> QED
    BY <1>1, <1>2, <1>4, <2>1, <2>2, <2>3 DEF DeepStoreInv, ParentsStored
<1>8. DeepRollbackInv'
  BY <1>1, DeepValidateFacts DEF DeepRollbackInv, At
<1>9. DeepBranchInv'
  <2>1. /\ Len(newChain) \in Nat \ {0} /\ Len(newChain') = Len(newChain) - 1
        /\ newChain' \in Seq(Block)
        /\ \A i \in 1 .. Len(newChain') : newChain'[i] = newChain[i + 1]
    BY <1>1, <1>2
  <2>2. Linked'
    <3> SUFFICES ASSUME NEW i \in 1 .. Len(newChain') - 1
                 PROVE  Prev[newChain'[i + 1]] = newChain'[i]
      BY DEF Linked
    <3>1. i + 1 \in 1 .. Len(newChain) - 1 /\ i + 1 \in 1 .. Len(newChain') /\ i \in 1 .. Len(newChain')
      BY <2>1
    <3>2. Prev[newChain[(i + 1) + 1]] = newChain[i + 1]
      BY <1>1, <3>1, DeepValidateFacts DEF Linked
    <3> QED
      BY <2>1, <3>1, <3>2
  <2>3. ASSUME NEW i \in 1 .. Len(newChain') PROVE newChain'[i] # Genesis
    <3>1. i + 1 \in 1 .. Len(newChain)
      BY <2>1
    <3> QED
      BY <1>1, <2>1, <3>1, DeepValidateFacts
  <2>4. newChain' # <<>> => Prev[newChain'[1]] = b
    <3> SUFFICES ASSUME newChain' # <<>> PROVE Prev[newChain'[1]] = b
      OBVIOUS
    <3>1. 1 \in 1 .. Len(newChain') /\ 1 \in 1 .. Len(newChain) - 1
      BY <2>1
    <3>2. newChain'[1] = newChain[1 + 1] /\ Prev[newChain[1 + 1]] = newChain[1]
      BY <1>1, <2>1, <3>1, DeepValidateFacts DEF Linked
    <3> QED
      BY <3>2 DEF b
  <2>5. b \in Stored' /\ closed' \subseteq Path(b)
    BY <1>3, <1>4, <1>6
  <2>6. mutex' = t /\ t # Nil
    BY <1>1, DeepValidateFacts
  <2> QED
    BY <1>1, <2>2, <2>3, <2>4, <2>5, <2>6 DEF DeepBranchInv, At
<1> QED
  BY <1>7, <1>8, <1>9 DEF DeepInv

(* A rejected block, or a block that cannot be rolled back, ends the       *)
(* validation wherever it has got.                                         *)
LEMMA DeepEndStep ==
    ASSUME DeepInv, TypeInv, NEW t \in Threads,
           RejectBlock(t) \/ ValidateDone(t) \/ RollbackFails(t)
    PROVE  DeepInv'
<1>1. /\ pc[t] = "validate" \/ pc[t] = "rollback"
      /\ Finish(t) /\ UNCHANGED <<storeVars, lastBlock, netVars>>
  BY DEF RejectBlock, ValidateDone, RollbackFails, netVars, storeVars
<1>2. mutex = t
  BY <1>1, DeepValidateFacts, DeepSwitchFacts
<1>3. ~At({"unstore"})
  BY <1>1, <1>2 DEF At
<1> QED
  BY <1>1, <1>2, <1>3, DeepFinishStep

(* Every step keeps the invariant.                                         *)
LEMMA NextDeepInv ==
    ASSUME TypeInv, AnswerInv, stale = {}, DeepInv, [Next]_vars
    PROVE  DeepInv'
<1>1. ASSUME NEW t \in Threads, Step(t) PROVE DeepInv'
  BY <1>1, DeepLockStep, DeepFoundAncestorStep, DeepTakeFromStashStep, DeepRequestBlockStep,
     DeepReceiveAnswerStep, DeepTimeoutStep, DeepCountRollbackStep, DeepCompareLengthsStep,
     DeepRollbackStatisticsStep, DeepRollbackStoreStep, DeepRollbackDoneStep,
     DeepValidateStatisticsStep, DeepValidateStoreStep, DeepEndStep DEF Step
<1>2. ASSUME NEW b \in Block, Receive(b) \/ ForwardAnswer(b) \/ LoseAnswer(b) \/ MineFound(b)
      PROVE  DeepInv'
  BY <1>2, DeepAnswerStep, DeepIdleSteps
<1>3. ASSUME PrepareBlock \/ MineTick \/ MineAbort PROVE DeepInv'
  BY <1>3, DeepIdleSteps
<1>4. ASSUME UNCHANGED vars PROVE DeepInv'
  BY <1>4, DeepOutsideStep DEF vars
<1> QED
  BY <1>1, <1>2, <1>3, <1>4 DEF Next

(* The invariant as it is kept through a whole behaviour.                  *)
DeepSafe == TypeInv /\ AnswerInv /\ (stale = {} => DeepInv)

(* However deep a fork reaches below the emptied blocks, whatever the      *)
(* rollback leaves of lastBlock and of the last closed block, and wherever *)
(* it fails: as long as no unexpected answer was under way, a block with   *)
(* transactions has its parent stored.                                     *)
THEOREM NoBlockIsOrphaned == Spec => []AncestorsStored
<1>1. Init => DeepSafe
  BY InitTypeInv, InitAnswerInv, InitDeepInv DEF DeepSafe
<1>2. DeepSafe /\ [Next]_vars => DeepSafe'
  BY NextTypeInv, NextAnswerInv, NextDeepInv DEF DeepSafe
<1>3. DeepSafe => AncestorsStored
  BY DEF DeepSafe, DeepInv, DeepStoreInv, ParentsStored, AncestorsStored
<1> QED
  BY <1>1, <1>2, <1>3, PTL DEF Spec
=============================================================================
