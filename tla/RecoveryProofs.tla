--------------------------- MODULE RecoveryProofs ---------------------------
(***************************************************************************)
(* Theorems about Recovery, for every set of transactions, every number of *)
(* blocks and starts and every environment: the walk of initState notes    *)
(* the chain of the peers without a gap, no block of the chain is lost     *)
(* wherever the process dies, and the bootstrap miner resumes where it     *)
(* stopped.                                                                *)
(*                                                                         *)
(* First the inductive invariant, and lemmas about the operators of the    *)
(* model: a bolt transaction, the lists of writes of each task, the chain  *)
(* of a block, and what the database gives back at start-up.  Then one     *)
(* lemma per action that shows that it keeps IInv, and Write one per task. *)
(*                                                                         *)
(* The path of a block and FlattenSeq are recursive.  What they compute is *)
(* not needed, only what they stay in: a set that holds a block and the    *)
(* predecessor of each of its members holds the path of the block, and a   *)
(* set of sequences that is closed under concatenation is closed under     *)
(* flattening.  Both go by the smallest counterexample, which is a set.    *)
(***************************************************************************)
EXTENDS Recovery, TLAPS, FiniteSetTheorems, SequenceTheorems, WellFoundedInduction

\* A transaction in closed storage or in the mempool.
TxRec == [closed : BOOLEAN, aggregated : BOOLEAN, block : Blocks \cup {None}]
Bucket == [Blocks -> Block \cup {None}]
Database == [closed : Bucket, without : Bucket, last : SUBSET Blocks, tx : [Txs -> TxRec]]
Walk == [last : Blocks \cup {None}, list : Seq(Blocks), net : SUBSET Blocks,
         chan : Blocks \cup {None}, stash : Seq(Blocks), lost : Nat]

\* The bolt transactions: those that put a block into a bucket, those that are
\* about a block otherwise, and those about transactions.
Puts == {"WriteClosedBlock", "WriteClosedBlockWithoutTx"}
PutOp == [op : Puts, block : Blocks, as : Block]
BlockOp == [op : {"DeleteClosedBlock", "DeleteClosedBlockWithoutTx", "WriteLastClosedBlock"},
            block : Blocks]
PlainOp == [op : {"DeleteAllLastClosedBlock"}]
TxOp == [op : {"WriteClosedTx"}, tx : Txs, as : TxRec] \cup [op : {"DeleteClosedTx"}, tx : Txs]
Writes == PutOp \cup BlockOp \cup PlainOp \cup TxOp

\* The blocks of a database, in whichever bucket.
StoredIn(d) == {b \in Blocks : d.closed[b] # None \/ d.without[b] # None}
Stored == StoredIn(db)

\* c is block b, perhaps emptied.
Same(m, b, c) == m[b] # None /\ c.height = m[b].height /\ c.prev = m[b].prev

\* The types of the variables.
Types ==
    /\ env \in Environments
    /\ made \in Bucket
    /\ db \in Database
    /\ "pool" \in DOMAIN mem
    /\ mem.pool \in [Txs -> TxRec]
    /\ tip \in Blocks
    /\ task \in Tasks
    /\ todo \in Seq(Writes)
    /\ cur \in Blocks \cup {None}
    /\ prepared \in Block \cup {None}
    /\ walk \in Walk

\* Blocks are made in the order of their numbers, each on top of an earlier one.
MadeInv ==
    /\ made[0] = Genesis
    /\ made[tip] # None
    /\ \A b \in Blocks : made[b] # None => \A a \in Blocks : a < b => made[a] # None
    /\ \A b \in Blocks : made[b] # None /\ b # 0 =>
          made[b].prev < b /\ made[b].height = made[made[b].prev].height + 1
    /\ \A b \in 1..Len(env.peer) : made[b] = env.peer[b]
    /\ prepared # None =>
          made[prepared.prev] # None /\ prepared.height = made[prepared.prev].height + 1

\* What is stored, or about to be, is a block that was made.
DbInv ==
    /\ \A b \in Blocks : db.closed[b] # None => Same(made, b, db.closed[b])
    /\ \A b \in Blocks : db.without[b] # None => Same(made, b, db.without[b])
    /\ \A i \in 1..Len(todo) : todo[i].op \in Puts => Same(made, todo[i].block, todo[i].as)

\* postValidate before the new block b is stored.
Closing(q, b) ==
    /\ q # <<>>
    /\ q[Len(q)].op = "WriteClosedBlock" /\ q[Len(q)].block = b
    /\ \A i \in 1..(Len(q) - 1) : q[i].op = "WriteClosedTx"

\* Step i of q puts a block into a bucket, the next deletes it from the other.
Puts1(q, i, del) ==
    i < Len(q) /\ q[i + 1].op = del /\ q[i + 1].block = q[i].block

\* Step i of q deletes a block that is in the other bucket.
Deletes(q, i, put, bucket) ==
    IF i = 1 THEN bucket[q[i].block] # None
    ELSE q[i - 1].op = put /\ q[i - 1].block = q[i].block

\* postValidate after that.
Ending(q, d) ==
    /\ q # <<>>
    /\ q[Len(q)].op = "WriteLastClosedBlock"
    /\ \A i \in 1..(Len(q) - 1) :
          /\ q[i].op \in {"WriteClosedBlockWithoutTx", "DeleteClosedBlock", "DeleteAllLastClosedBlock"}
          /\ q[i].op = "DeleteAllLastClosedBlock" => i = Len(q) - 1
          /\ q[i].op = "WriteClosedBlockWithoutTx" =>
                /\ q[i].block \in StoredIn(d) \ {0}
                /\ Puts1(q, i, "DeleteClosedBlock")
          /\ q[i].op = "DeleteClosedBlock" => Deletes(q, i, "WriteClosedBlockWithoutTx", d.without)

\* The rollback of block b.
Reopening(q, d, b) ==
    /\ q # <<>>
    /\ q[Len(q)].op = "WriteLastClosedBlock"
    /\ \A i \in 1..(Len(q) - 1) :
          /\ q[i].op \in {"WriteClosedTx", "DeleteClosedTx", "WriteClosedBlock",
                          "DeleteClosedBlockWithoutTx", "DeleteClosedBlock",
                          "DeleteAllLastClosedBlock"}
          /\ q[i].op = "DeleteAllLastClosedBlock" => i = Len(q) - 1
          /\ q[i].op = "DeleteClosedBlock" => q[i].block = b
          /\ q[i].op = "WriteClosedBlock" =>
                /\ q[i].block \in StoredIn(d) \ {b}
                /\ Puts1(q, i, "DeleteClosedBlockWithoutTx")
          /\ q[i].op = "DeleteClosedBlockWithoutTx" =>
                /\ q[i].block # b
                /\ Deletes(q, i, "WriteClosedBlock", d.closed)

\* The writes that are left, by task.
TodoInv ==
    /\ task \in {"down", "idle", "replay", "failed"} => todo = <<>>
    /\ task = "walk" => \A i \in 1..Len(todo) : todo[i].op \in Puts \cup {"WriteLastClosedBlock"}
    /\ task = "prepare" =>
          todo # <<>> /\ \A i \in 1..Len(todo) : todo[i].op = "WriteClosedTx"
    /\ task = "genesis" =>
          /\ tip = 0
          /\ \/ todo = <<WriteLastClosedBlock(0), WriteClosedBlock(0, Genesis)>>
             \/ todo = <<WriteClosedBlock(0, Genesis)>>
    /\ task = "postValidate" =>
          /\ cur = tip
          /\ Closing(todo, cur) \/ (Ending(todo, db) /\ cur \in Stored)
    /\ task = "postValidateRollback" =>
          /\ env.rollback
          /\ cur \in Blocks \ {0} /\ made[cur] # None /\ tip = made[cur].prev
          /\ Reopening(todo, db, cur)

\* The walk: what was asked for is in the stash, except for the block it waits
\* for, and what it has noted is stored.
WalkInv ==
    /\ bootstrap => task \notin {"walk", "replay"} /\ walk.list = <<>>
    /\ ~ bootstrap => task \notin {"genesis", "failed"}
    /\ ToSet(walk.list) \subseteq 0..Len(env.peer)
    /\ task = "walk" =>
          /\ walk.net \cup ToSet(walk.stash) \subseteq 0..Len(env.peer)
          /\ walk.net \ ToSet(walk.stash) \subseteq {Asked}
          /\ \A b \in ToSet(walk.stash) : b >= Asked
          /\ walk.chan # None => walk.chan \in ToSet(walk.stash) \cap {Asked, walk.last}
          /\ walk.chan # None /\ walk.chan = walk.last /\ walk.last # 0 => Asked \notin ToSet(walk.stash)
          /\ walk.last = None => walk.list = <<>> /\ todo = <<>> /\ (walk.chan = None => walk.stash = <<>>)
          /\ walk.last # None => /\ walk.list # <<>> /\ Last(walk.list) = walk.last
                                 /\ walk.last \in ToSet(walk.stash)
          /\ walk.last = 0 => todo # <<>>
          /\ \A b \in ToSet(walk.list) :
                b \in Stored \/ (todo # <<>> /\ Head(todo).op \in Puts /\ Head(todo).block = b)
    /\ task = "down" => walk.list = <<>> /\ walk.last = None /\ walk.chan = None
                          /\ walk.net = {} /\ walk.stash = <<>>
    /\ task \notin {"walk", "down"} => ToSet(walk.list) \subseteq Stored
    /\ task \notin {"walk", "down", "replay", "postValidate"} => walk.list = <<>>
    /\ task = "replay" => walk.list # <<>>
    /\ task \in {"replay", "postValidate"} /\ walk.list # <<>> =>
          Last(walk.list) = 0 \/ made[Last(walk.list)].prev = tip
    /\ WalkContiguous

\* The genesis block is the first to be stored, and stays.
GenesisInv ==
    bootstrap => \/ 0 \in Stored /\ db.without[0] = None
                 \/ Stored = {} /\ cur = 0 /\ tip = 0 /\ task \in {"down", "genesis"}

\* A set of blocks with all their predecessors.
Ancestral(A) == \A x \in A : made[x] # None /\ made[x].prev \in A

\* The blocks of the chain are stored, as BlocksKept says.
KeptInv ==
    Untorn => \E A \in SUBSET Blocks :
                 /\ tip \in A
                 /\ Ancestral(A)
                 /\ A \subseteq Stored \cup {cur}
                 /\ \/ task \in {"idle", "prepare", "postValidateRollback"}
                    \/ task = "replay" /\ Last(walk.list) # 0
                    => A \subseteq Stored
                 /\ task = "postValidateRollback" => cur \notin A

\* The database of a bootstrap miner holds no block without its predecessor.
StoreInv ==
    Untorn /\ bootstrap => \A x \in Stored : made[x].prev \in Stored

Working == {"idle", "prepare", "postValidate", "postValidateRollback"}

\* Of a bootstrap miner that takes blocks back: no block is in both buckets but
\* the one on its way, branches leave the chain at the genesis block only, and
\* nothing is stored above the tip.
BranchInv ==
    Untorn /\ bootstrap /\ env.rollback =>
        /\ \A x \in Blocks : db.closed[x] # None /\ db.without[x] # None =>
              /\ todo # <<>>
              /\ Head(todo).op \in {"DeleteClosedBlock", "DeleteClosedBlockWithoutTx"}
              /\ Head(todo).block = x
              /\ task = "postValidateRollback" => x # cur
        /\ \A x, y \in Stored : x # y /\ made[x].prev = made[y].prev => made[x].prev = 0
        /\ task \in Working /\ tip # 0 =>
              \A x \in Stored : made[x].prev = tip => task = "postValidateRollback" /\ x = cur
        /\ task = "postValidate" =>
              /\ Closing(todo, cur) => cur \notin Stored
              /\ made[cur].prev = 0 \/ \A y \in Stored : y # cur => made[y].prev # made[cur].prev
        /\ task = "postValidateRollback" =>
              /\ \A x \in Stored : made[x].prev # cur
              /\ db.without[cur] = None
              /\ cur \in Stored =>
                    Len(todo) >= 3 /\ todo[Len(todo) - 2].op = "DeleteClosedBlock"

\* If start-up is to be right: the database is the chain up to the tip.
SoundInv ==
    Sound /\ bootstrap =>
        /\ \A x, y \in Stored : made[x].height = made[y].height => x = y
        /\ \A x \in Stored : \/ made[x].height <= made[tip].height
                             \/ task = "postValidateRollback" /\ x = cur
        /\ \/ tip \in Stored
           \/ task = "postValidate"
           \/ Stored = {} /\ tip = 0
        /\ task = "postValidate" => \A x \in Stored : x # cur => made[x].height < made[cur].height
        /\ db.last = {} =>
              \/ Stored = {} /\ tip = 0 /\ task = "down"
              \/ todo # <<>> /\ Head(todo).op = "WriteLastClosedBlock" /\ (task = "genesis" => Stored = {})

\* The inductive invariant.
Ground == Types /\ MadeInv /\ DbInv /\ TodoInv
IInv == Ground /\ WalkInv /\ GenesisInv /\ KeptInv /\ StoreInv /\ BranchInv /\ SoundInv

----------------------------------------------------------------------------
(* Sequences and finite sets.                                              *)

\* A set of natural numbers that is not empty has a smallest element.
LEMMA SmallestExists ==
    ASSUME NEW S \in SUBSET Nat, S # {}
    PROVE  \E x \in S : \A y \in S : x <= y
<1>1. PICK x \in S : \A y \in S : ~ (<<y, x>> \in OpToRel(<, Nat))
  BY NatLessThanWellFounded, WFMin
<1>2. \A y \in S : ~(y < x)
  BY <1>1 DEF OpToRel
<1> QED
  BY <1>2

\* The recursion in FlattenSeq defines a function.
LEMMA FlattenDefined ==
    ASSUME NEW seqs, NEW n \in Nat
    PROVE  \E g : g = [i \in 1..n |-> IF i = 1 THEN seqs[i] ELSE g[i - 1] \o seqs[i]]
<1> DEFINE D(k) == \E g : g = [i \in 1..k |-> IF i = 1 THEN seqs[i] ELSE g[i - 1] \o seqs[i]]
<1> DEFINE T == {k \in Nat : ~ D(k)}
<1>1. SUFFICES ASSUME T # {} PROVE FALSE
  OBVIOUS
<1>2. PICK k \in T : \A y \in T : k <= y
  BY <1>1, SmallestExists
<1>3. CASE k = 0
  <2> DEFINE e == [i \in 1..0 |-> seqs[i]]
  <2>1. e = [i \in 1..0 |-> IF i = 1 THEN seqs[i] ELSE e[i - 1] \o seqs[i]]
    OBVIOUS
  <2>2. D(0)
    BY <2>1
  <2>3. ~ D(k)
    BY <1>2
  <2> HIDE DEF D
  <2> QED
    BY <1>3, <2>2, <2>3
<1>4. CASE k # 0
  <2>1. k \in Nat /\ k - 1 \in Nat /\ k - 1 \notin T
    <3> HIDE DEF D
    <3>1. k \in Nat
      BY <1>2
    <3>2. \A y \in T : k <= y
      BY <1>2
    <3> HIDE DEF T
    <3> QED
      BY <1>4, <3>1, <3>2
  <2>2. PICK g : g = [i \in 1..(k - 1) |-> IF i = 1 THEN seqs[i] ELSE g[i - 1] \o seqs[i]]
    BY <2>1
  <2> DEFINE h == [i \in 1..k |-> IF i < k THEN g[i]
                                  ELSE IF k = 1 THEN seqs[k] ELSE g[k - 1] \o seqs[k]]
  <2>3. ASSUME NEW i \in 1..k
        PROVE  h[i] = IF i = 1 THEN seqs[i] ELSE h[i - 1] \o seqs[i]
    <3>1. CASE i < k
      <4>1. i \in 1..(k - 1) /\ h[i] = g[i]
        BY <3>1, <2>1
      <4>2. i # 1 => i - 1 \in 1..k /\ h[i - 1] = g[i - 1]
        BY <4>1, <2>1
      <4>3. g[i] = IF i = 1 THEN seqs[i] ELSE g[i - 1] \o seqs[i]
        BY <4>1, <2>2
      <4> QED
        BY <4>1, <4>2, <4>3
    <3>2. CASE i = k
      <4>1. h[i] = IF k = 1 THEN seqs[k] ELSE g[k - 1] \o seqs[k]
        BY <3>2, <2>1
      <4>2. k # 1 => k - 1 \in 1..k /\ h[k - 1] = g[k - 1]
        BY <2>1
      <4> QED
        BY <4>1, <4>2, <3>2
    <3> QED
      BY <3>1, <3>2, <2>1
  <2>4. h = [i \in 1..k |-> IF i = 1 THEN seqs[i] ELSE h[i - 1] \o seqs[i]]
    BY <2>3
  <2>5. D(k)
    BY <2>4
  <2> QED
    BY <2>5, <1>2
<1> QED
  BY <1>3, <1>4

\* What a set of sequences is closed under, flattening is, too.
LEMMA FlattenIn ==
    ASSUME NEW G, <<>> \in G, \A s, t \in G : s \o t \in G, NEW seqs \in Seq(G)
    PROVE  FlattenSeq(seqs) \in G
<1> DEFINE n == Len(seqs)
<1>1. n \in Nat
  BY LenProperties
<1>2. CASE n = 0
  BY <1>2, EmptySeq DEF FlattenSeq
<1>3. CASE n # 0
  <2> DEFINE F(g) == [i \in 1..n |-> IF i = 1 THEN seqs[i] ELSE g[i - 1] \o seqs[i]]
  <2> DEFINE f == CHOOSE g : g = F(g)
  <2>1. \E g : g = F(g)
    BY <1>1, FlattenDefined
  <2>2. f = F(f)
    BY <2>1
  <2>3. FlattenSeq(seqs) = f[n]
    BY <1>3 DEF FlattenSeq
  <2> HIDE DEF f
  <2> DEFINE T == {k \in 1..n : f[k] \notin G}
  <2>4. ASSUME T # {} PROVE FALSE
    <3>1. T \subseteq Nat
      BY <1>1
    <3>2. PICK k \in T : \A y \in T : k <= y
      BY <2>4, <3>1, SmallestExists
    <3>3. k \in 1..n /\ seqs[k] \in G
      BY <3>2, <1>1, ElementOfSeq
    <3>4. f[k] = IF k = 1 THEN seqs[k] ELSE f[k - 1] \o seqs[k]
      BY <3>3, <2>2
    <3>5. CASE k = 1
      BY <3>5, <3>4, <3>3, <3>2
    <3>6. CASE k # 1
      <4>1. k - 1 \in 1..n /\ k - 1 \notin T
        BY <3>6, <3>3, <3>2, <1>1
      <4> QED
        BY <4>1, <3>6, <3>4, <3>3, <3>2
    <3> QED
      BY <3>5, <3>6
  <2> QED
    BY <2>3, <2>4, <1>1, <1>3
<1> QED
  BY <1>2, <1>3

\* A finite set as a sequence.
LEMMA SetToSeqType ==
    ASSUME NEW S, IsFiniteSet(S)
    PROVE  /\ SetToSeq(S) \in [1..Cardinality(S) -> S]
           /\ SetToSeq(S) \in Seq(S)
           /\ Len(SetToSeq(S)) = Cardinality(S)
           /\ Cardinality(S) \in Nat
<1>1. Cardinality(S) \in Nat /\ ExistsBijection(1..Cardinality(S), S)
  BY FS_CardinalityType
<1>2. PICK f \in [1..Cardinality(S) -> S] : IsInjective(f)
  BY <1>1 DEF ExistsBijection, Bijection, Injection, IsInjective
<1>3. SetToSeq(S) \in [1..Cardinality(S) -> S]
  BY <1>2 DEF SetToSeq
<1>4. SetToSeq(S) \in Seq(S)
  BY <1>3, <1>1
<1> QED
  BY <1>1, <1>3, <1>4, LenProperties

\* Every element of the set is in it.
LEMMA SetToSeqRange ==
    ASSUME NEW S, IsFiniteSet(S)
    PROVE  \A x \in S : \E i \in 1..Cardinality(S) : SetToSeq(S)[i] = x
<1>1. SetToSeq(S) \in Injection(1..Cardinality(S), S)
  <2>1. Cardinality(S) \in Nat /\ ExistsBijection(1..Cardinality(S), S)
    BY FS_CardinalityType
  <2>2. PICK f \in [1..Cardinality(S) -> S] : IsInjective(f)
    BY <2>1 DEF ExistsBijection, Bijection, Injection, IsInjective
  <2>3. SetToSeq(S) \in [1..Cardinality(S) -> S] /\ IsInjective(SetToSeq(S))
    BY <2>2 DEF SetToSeq
  <2> QED
    BY <2>3 DEF Injection, IsInjective
<1>2. IsFiniteSet(1..Cardinality(S)) /\ Cardinality(1..Cardinality(S)) = Cardinality(S)
  BY FS_CardinalityType, FS_Interval
<1>3. SetToSeq(S) \in Surjection(1..Cardinality(S), S)
  BY <1>1, <1>2, FS_Injection
<1> QED
  BY <1>3 DEF Surjection

----------------------------------------------------------------------------
(* The recursion in Path.                                                  *)

\* g holds the first iterates of b, for the indices in I.
Iterates(m, b, I, g) == g = [i \in I |-> IF i = 0 THEN b ELSE m[g[i - 1]].prev]

LEMMA IterateFinite ==
    ASSUME NEW m, NEW b, NEW n \in Nat
    PROVE  \E g : Iterates(m, b, 0..n, g)
<1> DEFINE D(k) == \E g : Iterates(m, b, 0..k, g)
<1> DEFINE T == {k \in Nat : ~ D(k)}
<1>1. SUFFICES ASSUME T # {} PROVE FALSE
  OBVIOUS
<1>2. PICK k \in T : \A y \in T : k <= y
  BY <1>1, SmallestExists
<1>3. CASE k = 0
  <2> DEFINE e == [i \in 0..0 |-> b]
  <2>1. e = [i \in 0..0 |-> IF i = 0 THEN b ELSE m[e[i - 1]].prev]
    OBVIOUS
  <2>2. D(0)
    BY <2>1 DEF Iterates
  <2>3. ~ D(k)
    BY <1>2
  <2> HIDE DEF D
  <2> QED
    BY <1>3, <2>2, <2>3
<1>4. CASE k # 0
  <2>1. k \in Nat /\ k - 1 \in Nat /\ k - 1 \notin T
    <3> HIDE DEF D
    <3>1. k \in Nat
      BY <1>2
    <3>2. \A y \in T : k <= y
      BY <1>2
    <3> HIDE DEF T
    <3> QED
      BY <1>4, <3>1, <3>2
  <2>2. PICK g : Iterates(m, b, 0..(k - 1), g)
    BY <2>1
  <2> DEFINE h == [i \in 0..k |-> IF i < k THEN g[i] ELSE m[g[k - 1]].prev]
  <2>3. ASSUME NEW i \in 0..k
        PROVE  h[i] = IF i = 0 THEN b ELSE m[h[i - 1]].prev
    <3>1. CASE i < k
      <4>1. i \in 0..(k - 1) /\ h[i] = g[i]
        BY <3>1, <2>1
      <4>2. i # 0 => i - 1 \in 0..k /\ h[i - 1] = g[i - 1]
        BY <4>1, <2>1
      <4>3. g[i] = IF i = 0 THEN b ELSE m[g[i - 1]].prev
        BY <4>1, <2>2 DEF Iterates
      <4> QED
        BY <4>1, <4>2, <4>3
    <3>2. CASE i = k
      <4>1. h[i] = m[g[k - 1]].prev
        BY <3>2, <2>1
      <4>2. k - 1 \in 0..k /\ h[k - 1] = g[k - 1]
        BY <2>1
      <4> QED
        BY <4>1, <4>2, <3>2, <1>4
    <3> QED
      BY <3>1, <3>2, <2>1
  <2>4. h = [i \in 0..k |-> IF i = 0 THEN b ELSE m[h[i - 1]].prev]
    BY <2>3
  <2>5. D(k)
    BY <2>4 DEF Iterates
  <2> QED
    BY <2>5, <1>2
<1> QED
  BY <1>3, <1>4

LEMMA IterateUnique ==
    ASSUME NEW m, NEW b, NEW n \in Nat, NEW k \in 0..n, NEW g, NEW h,
           Iterates(m, b, 0..n, g), Iterates(m, b, 0..k, h)
    PROVE  \A i \in 0..k : g[i] = h[i]
<1> DEFINE T == {i \in 0..k : g[i] # h[i]}
<1>1. SUFFICES ASSUME T # {} PROVE FALSE
  OBVIOUS
<1>2. T \subseteq Nat
  OBVIOUS
<1>3. PICK i \in T : \A y \in T : i <= y
  BY <1>1, <1>2, SmallestExists
<1>4. i \in 0..k /\ i \in 0..n
  BY <1>3
<1>5. g[i] = (IF i = 0 THEN b ELSE m[g[i - 1]].prev) /\ h[i] = (IF i = 0 THEN b ELSE m[h[i - 1]].prev)
  BY <1>4 DEF Iterates
<1>6. i # 0 => i - 1 \in 0..k /\ i - 1 \notin T
  <2> HIDE DEF T
  <2> QED
    BY <1>3, <1>4
<1>7. i # 0 => g[i - 1] = h[i - 1]
  BY <1>6
<1> QED
  BY <1>3, <1>5, <1>7

LEMMA IterateDefined ==
    ASSUME NEW m, NEW b
    PROVE  \E f : Iterates(m, b, Nat, f)
<1> DEFINE C(n) == CHOOSE g : Iterates(m, b, 0..n, g)
<1> DEFINE f == [n \in Nat |-> C(n)[n]]
<1>1. \A n \in Nat : Iterates(m, b, 0..n, C(n))
  BY IterateFinite
<1> HIDE DEF C
<1>2. ASSUME NEW n \in Nat
      PROVE  f[n] = IF n = 0 THEN b ELSE m[f[n - 1]].prev
  <2>1. Iterates(m, b, 0..n, C(n))
    BY <1>1
  <2>2. C(n)[n] = IF n = 0 THEN b ELSE m[C(n)[n - 1]].prev
    BY <2>1 DEF Iterates
  <2>3. ASSUME n # 0 PROVE C(n)[n - 1] = C(n - 1)[n - 1]
    <3>1. n - 1 \in 0..n /\ n - 1 \in 0..(n - 1) /\ n - 1 \in Nat
      BY <2>3
    <3>2. Iterates(m, b, 0..(n - 1), C(n - 1))
      BY <1>1, <3>1
    <3>3. \A i \in 0..(n - 1) : C(n)[i] = C(n - 1)[i]
      BY <2>1, <3>2, <3>1, IterateUnique
    <3> QED
      BY <3>3, <3>1
  <2>4. f[n] = C(n)[n] /\ (n # 0 => f[n - 1] = C(n - 1)[n - 1])
    OBVIOUS
  <2> HIDE DEF f
  <2> QED
    BY <2>2, <2>3, <2>4
<1>3. f = [n \in Nat |-> f[n]]
  OBVIOUS
<1> HIDE DEF f
<1>4. f = [i \in Nat |-> IF i = 0 THEN b ELSE m[f[i - 1]].prev]
  BY <1>2, <1>3
<1> QED
  BY <1>4 DEF Iterates

\* The path of a block stays in every set that contains the block and is closed
\* under predecessors.
LEMMA PathStays ==
    ASSUME NEW A, NEW b \in A, \A x \in A : made[x].prev \in A
    PROVE  Path(b) \subseteq A
<1> DEFINE before == CHOOSE f : Iterates(made, b, Nat, f)
<1>1. Iterates(made, b, Nat, before)
  BY IterateDefined
<1>2. Path(b) = {before[n] : n \in 0..made[b].height}
  BY DEF Path, Iterates
<1> HIDE DEF before
<1> DEFINE T == {n \in Nat : before[n] \notin A}
<1>3. ASSUME T # {} PROVE FALSE
  <2>1. PICK n \in T : \A y \in T : n <= y
    BY <1>3, SmallestExists
  <2>2. before[n] = IF n = 0 THEN b ELSE made[before[n - 1]].prev
    BY <1>1, <2>1 DEF Iterates
  <2>3. n # 0 => n - 1 \in Nat /\ n - 1 \notin T
    BY <2>1
  <2> QED
    BY <2>1, <2>2, <2>3
<1>4. \A n \in 0..made[b].height : n \in Nat
  OBVIOUS
<1> QED
  BY <1>2, <1>3, <1>4

----------------------------------------------------------------------------
(* The bolt transactions.                                                  *)

LEMMA PutsAreWrites ==
    ASSUME NEW b \in Blocks, NEW c \in Block
    PROVE  /\ WriteClosedBlock(b, c) \in Writes
           /\ WriteClosedBlockWithoutTx(b, c) \in Writes
BY DEF WriteClosedBlock, WriteClosedBlockWithoutTx, Writes, PutOp, Puts

LEMMA BlockOpsAreWrites ==
    ASSUME NEW b \in Blocks
    PROVE  /\ DeleteClosedBlock(b) \in Writes
           /\ DeleteClosedBlockWithoutTx(b) \in Writes
           /\ WriteLastClosedBlock(b) \in Writes
           /\ DeleteAllLastClosedBlock \in Writes
BY DEF DeleteClosedBlock, DeleteClosedBlockWithoutTx, WriteLastClosedBlock,
       DeleteAllLastClosedBlock, Writes, BlockOp, PlainOp

LEMMA TxOpsAreWrites ==
    ASSUME NEW t \in Txs, NEW r \in TxRec
    PROVE  WriteClosedTx(t, r) \in Writes /\ DeleteClosedTx(t) \in Writes
BY DEF WriteClosedTx, DeleteClosedTx, Writes, TxOp

\* The parts of a write.
LEMMA WriteParts ==
    ASSUME NEW w \in Writes
    PROVE  /\ w.op \in Ops
           /\ w.op \in Puts => w.block \in Blocks /\ w.as \in Block
           /\ w.op \in {"DeleteClosedBlock", "DeleteClosedBlockWithoutTx", "WriteLastClosedBlock"}
                 => w.block \in Blocks
           /\ w.op = "WriteClosedTx" => w.tx \in Txs /\ w.as \in TxRec
           /\ w.op = "DeleteClosedTx" => w.tx \in Txs
<1>1. CASE w \in PutOp
  BY <1>1 DEF PutOp, Puts, Ops
<1>2. CASE w \in BlockOp
  BY <1>2 DEF BlockOp, Puts, Ops
<1>3. CASE w \in PlainOp
  BY <1>3 DEF PlainOp, Puts, Ops
<1>4. CASE w \in TxOp
  BY <1>4 DEF TxOp, Puts, Ops
<1> QED
  BY <1>1, <1>2, <1>3, <1>4 DEF Writes

LEMMA NoTxType == NoTx \in TxRec
BY DEF NoTx, TxRec

\* What a bolt transaction does to each of the buckets.
LEMMA UpdateParts ==
    ASSUME NEW d \in Database, NEW w \in Writes
    PROVE  /\ Update(d, w) \in Database
           /\ Update(d, w).closed =
                 IF w.op = "WriteClosedBlock" THEN [d.closed EXCEPT ![w.block] = w.as]
                 ELSE IF w.op = "DeleteClosedBlock" THEN [d.closed EXCEPT ![w.block] = None]
                 ELSE d.closed
           /\ Update(d, w).without =
                 IF w.op = "WriteClosedBlockWithoutTx" THEN [d.without EXCEPT ![w.block] = w.as]
                 ELSE IF w.op = "DeleteClosedBlockWithoutTx" THEN [d.without EXCEPT ![w.block] = None]
                 ELSE d.without
           /\ Update(d, w).last =
                 IF w.op = "DeleteAllLastClosedBlock" THEN {}
                 ELSE IF w.op = "WriteLastClosedBlock" THEN d.last \cup {w.block}
                 ELSE d.last
<1> DEFINE e == Update(d, w)
<1>0. /\ w.op \in Ops
      /\ w.op \in Puts => w.block \in Blocks /\ w.as \in Block
      /\ w.op \in {"DeleteClosedBlock", "DeleteClosedBlockWithoutTx", "WriteLastClosedBlock"}
            => w.block \in Blocks
      /\ w.op = "WriteClosedTx" => w.tx \in Txs /\ w.as \in TxRec
      /\ w.op = "DeleteClosedTx" => w.tx \in Txs
  BY WriteParts
<1>1. CASE w.op = "WriteClosedTx"
  <2>1. e = [d EXCEPT !.tx[w.tx] = w.as]
    BY <1>1 DEF Update
  <2> QED
    BY <1>0, <1>1, <2>1 DEF Database
<1>2. CASE w.op = "DeleteClosedTx"
  <2>1. e = [d EXCEPT !.tx[w.tx] = NoTx]
    BY <1>2 DEF Update
  <2> QED
    BY <1>0, <1>2, <2>1, NoTxType DEF Database
<1>3. CASE w.op = "WriteClosedBlock"
  <2>1. e = [d EXCEPT !.closed[w.block] = w.as]
    BY <1>3 DEF Update
  <2> QED
    BY <1>0, <1>3, <2>1 DEF Database, Bucket, Puts
<1>4. CASE w.op = "DeleteClosedBlock"
  <2>1. e = [d EXCEPT !.closed[w.block] = None]
    BY <1>4 DEF Update
  <2> QED
    BY <1>0, <1>4, <2>1 DEF Database, Bucket
<1>5. CASE w.op = "WriteClosedBlockWithoutTx"
  <2>1. e = [d EXCEPT !.without[w.block] = w.as]
    BY <1>5 DEF Update
  <2> QED
    BY <1>0, <1>5, <2>1 DEF Database, Bucket, Puts
<1>6. CASE w.op = "DeleteClosedBlockWithoutTx"
  <2>1. e = [d EXCEPT !.without[w.block] = None]
    BY <1>6 DEF Update
  <2> QED
    BY <1>0, <1>6, <2>1 DEF Database, Bucket
<1>7. CASE w.op = "DeleteAllLastClosedBlock"
  <2>1. e = [d EXCEPT !.last = {}]
    BY <1>7 DEF Update
  <2> QED
    BY <1>0, <1>7, <2>1 DEF Database
<1>8. CASE w.op = "WriteLastClosedBlock"
  <2>1. e = [d EXCEPT !.last = @ \cup {w.block}]
    BY <1>8 DEF Update
  <2> QED
    BY <1>0, <1>8, <2>1 DEF Database
<1> QED
  BY <1>0, <1>1, <1>2, <1>3, <1>4, <1>5, <1>6, <1>7, <1>8 DEF Ops

LEMMA UpdateStored ==
    ASSUME NEW d \in Database, NEW w \in Writes
    PROVE  /\ w.op \in Puts => StoredIn(Update(d, w)) = StoredIn(d) \cup {w.block}
           /\ w.op = "DeleteClosedBlock" =>
                 StoredIn(Update(d, w)) = IF d.without[w.block] # None THEN StoredIn(d)
                                          ELSE StoredIn(d) \ {w.block}
           /\ w.op = "DeleteClosedBlockWithoutTx" =>
                 StoredIn(Update(d, w)) = IF d.closed[w.block] # None THEN StoredIn(d)
                                          ELSE StoredIn(d) \ {w.block}
           /\ w.op \notin Puts \cup {"DeleteClosedBlock", "DeleteClosedBlockWithoutTx"} =>
                 StoredIn(Update(d, w)) = StoredIn(d)
<1> DEFINE e == Update(d, w)
<1>1. d.closed \in Bucket /\ d.without \in Bucket
  BY DEF Database
<1>2. /\ w.op \in Puts => w.block \in Blocks /\ w.as \in Block /\ w.as # None
      /\ w.op \in {"DeleteClosedBlock", "DeleteClosedBlockWithoutTx"} => w.block \in Blocks
  BY WriteParts, RecoveryAssumption
<1>3. /\ e.closed = IF w.op = "WriteClosedBlock" THEN [d.closed EXCEPT ![w.block] = w.as]
                    ELSE IF w.op = "DeleteClosedBlock" THEN [d.closed EXCEPT ![w.block] = None]
                    ELSE d.closed
      /\ e.without = IF w.op = "WriteClosedBlockWithoutTx" THEN [d.without EXCEPT ![w.block] = w.as]
                     ELSE IF w.op = "DeleteClosedBlockWithoutTx" THEN [d.without EXCEPT ![w.block] = None]
                     ELSE d.without
  BY UpdateParts
<1> HIDE DEF e
<1>4. w.op = "WriteClosedBlock" => StoredIn(e) = StoredIn(d) \cup {w.block}
  BY <1>1, <1>2, <1>3 DEF StoredIn, Bucket, Puts
<1>5. w.op = "WriteClosedBlockWithoutTx" => StoredIn(e) = StoredIn(d) \cup {w.block}
  BY <1>1, <1>2, <1>3 DEF StoredIn, Bucket, Puts
<1>6. w.op = "DeleteClosedBlock" =>
        StoredIn(e) = IF d.without[w.block] # None THEN StoredIn(d) ELSE StoredIn(d) \ {w.block}
  BY <1>1, <1>2, <1>3 DEF StoredIn, Bucket
<1>7. w.op = "DeleteClosedBlockWithoutTx" =>
        StoredIn(e) = IF d.closed[w.block] # None THEN StoredIn(d) ELSE StoredIn(d) \ {w.block}
  BY <1>1, <1>2, <1>3 DEF StoredIn, Bucket
<1>8. w.op \notin Puts \cup {"DeleteClosedBlock", "DeleteClosedBlockWithoutTx"} => StoredIn(e) = StoredIn(d)
  BY <1>3 DEF StoredIn, Puts
<1> QED
  BY <1>4, <1>5, <1>6, <1>7, <1>8 DEF e, Puts

\* The head and the tail of what is left to write.
LEMMA TodoTail ==
    ASSUME NEW q \in Seq(Writes), q # <<>>
    PROVE  /\ Len(q) \in Nat \ {0}
           /\ Head(q) = q[1] /\ Head(q) \in Writes
           /\ Tail(q) \in Seq(Writes)
           /\ Len(Tail(q)) = Len(q) - 1
           /\ \A i \in 1..(Len(q) - 1) : Tail(q)[i] = q[i + 1]
           /\ Tail(q) = <<>> <=> Len(q) = 1
           /\ \A i \in 1..Len(q) : q[i] \in Writes
<1>1. Len(q) \in Nat \ {0} /\ \A i \in 1..Len(q) : q[i] \in Writes
  BY EmptySeq, LenProperties, ElementOfSeq
<1>2. Head(q) = q[1] /\ Head(q) \in Writes /\ Tail(q) \in Seq(Writes) /\ Len(Tail(q)) = Len(q) - 1
      /\ \A i \in 1..Len(Tail(q)) : Tail(q)[i] = q[i + 1]
  BY HeadTailProperties
<1>3. Tail(q) = <<>> <=> Len(q) = 1
  BY <1>1, <1>2, EmptySeq
<1> QED
  BY <1>1, <1>2, <1>3

LEMMA ClosingTail ==
    ASSUME NEW q \in Seq(Writes), NEW b, Closing(q, b), Head(q).op # "WriteClosedBlock"
    PROVE  Closing(Tail(q), b) /\ Head(q).op = "WriteClosedTx"
<1>1. q # <<>>
  BY DEF Closing
<1> DEFINE n == Len(q)
           t == Tail(q)
<1>2. /\ n \in Nat \ {0} /\ Head(q) = q[1]
      /\ Len(t) = n - 1
      /\ \A i \in 1..(n - 1) : t[i] = q[i + 1]
      /\ t = <<>> <=> n = 1
  BY <1>1, TodoTail
<1>3. q[n].op = "WriteClosedBlock" /\ q[n].block = b /\ \A i \in 1..(n - 1) : q[i].op = "WriteClosedTx"
  BY DEF Closing
<1> HIDE DEF n, t
<1>4. n # 1 /\ n - 1 \in 1..(n - 1) /\ 1 \in 1..(n - 1)
  BY <1>2, <1>3
<1>5. t[n - 1] = q[n]
  BY <1>2, <1>4
<1>6. \A i \in 1..(Len(t) - 1) : i + 1 \in 1..(n - 1) /\ t[i] = q[i + 1]
  BY <1>2, <1>4
<1>7. Closing(t, b)
  BY <1>2, <1>3, <1>4, <1>5, <1>6 DEF Closing
<1> QED
  BY <1>7, <1>2, <1>3, <1>4 DEF t

LEMMA EndingTail ==
    ASSUME NEW d \in Database, NEW q \in Seq(Writes), Ending(q, d)
    PROVE  /\ StoredIn(Update(d, Head(q))) = StoredIn(d)
           /\ Head(q).op \in {"WriteClosedBlockWithoutTx", "DeleteClosedBlock",
                              "DeleteAllLastClosedBlock", "WriteLastClosedBlock"}
           /\ Head(q).op = "WriteLastClosedBlock" <=> Tail(q) = <<>>
           /\ Tail(q) # <<>> => Ending(Tail(q), Update(d, Head(q)))
           /\ Head(q).op = "WriteClosedBlockWithoutTx" =>
                 /\ Head(q).block # 0
                 /\ Tail(q) # <<>>
                 /\ Head(Tail(q)).op = "DeleteClosedBlock"
                 /\ Head(Tail(q)).block = Head(q).block
           /\ Head(q).op = "DeleteAllLastClosedBlock" =>
                 Tail(q) # <<>> /\ Head(Tail(q)).op = "WriteLastClosedBlock"
<1>1. q # <<>>
  BY DEF Ending
<1> DEFINE n == Len(q)
           t == Tail(q)
           w == Head(q)
           e == Update(d, w)
<1>2. /\ n \in Nat \ {0} /\ w = q[1] /\ w \in Writes
      /\ t \in Seq(Writes)
      /\ Len(t) = n - 1
      /\ \A i \in 1..(n - 1) : t[i] = q[i + 1]
      /\ t = <<>> <=> n = 1
  BY <1>1, TodoTail
<1>3. q[n].op = "WriteLastClosedBlock"
  BY DEF Ending
<1>4. \A i \in 1..(n - 1) :
          /\ q[i].op \in {"WriteClosedBlockWithoutTx", "DeleteClosedBlock", "DeleteAllLastClosedBlock"}
          /\ q[i].op = "DeleteAllLastClosedBlock" => i = n - 1
          /\ q[i].op = "WriteClosedBlockWithoutTx" =>
                /\ q[i].block \in StoredIn(d) \ {0}
                /\ i < n /\ q[i + 1].op = "DeleteClosedBlock" /\ q[i + 1].block = q[i].block
          /\ q[i].op = "DeleteClosedBlock" =>
                IF i = 1 THEN d.without[q[i].block] # None
                ELSE q[i - 1].op = "WriteClosedBlockWithoutTx" /\ q[i - 1].block = q[i].block
  BY DEF Ending, Puts1, Deletes
<1>5. t # <<>> => Head(t) = q[2]
  <2>1. SUFFICES ASSUME t # <<>> PROVE Head(t) = q[2]
    OBVIOUS
  <2>2. Head(t) = t[1]
    BY <1>2, <2>1, TodoTail
  <2>3. 1 \in 1..(n - 1)
    BY <1>2, <2>1
  <2> QED
    BY <2>2, <2>3, <1>2
<1>6. w.op \in {"WriteClosedBlockWithoutTx", "DeleteClosedBlock", "DeleteAllLastClosedBlock",
                "WriteLastClosedBlock"} /\ (w.op = "WriteLastClosedBlock" <=> n = 1)
  <2>1. CASE n = 1
    BY <2>1, <1>2, <1>3
  <2>2. CASE n # 1
    <3>1. 1 \in 1..(n - 1)
      BY <2>2, <1>2
    <3> QED
      BY <3>1, <2>2, <1>2, <1>4
  <2> QED
    BY <2>1, <2>2
<1>7. w.op # "WriteLastClosedBlock" =>
        /\ n # 1 /\ 1 \in 1..(n - 1)
        /\ w.op = "WriteClosedBlockWithoutTx" =>
              w.block \in StoredIn(d) \ {0} /\ q[2].op = "DeleteClosedBlock" /\ q[2].block = w.block
        /\ w.op = "DeleteClosedBlock" => d.without[w.block] # None
        /\ w.op = "DeleteAllLastClosedBlock" => n = 2
  <2>1. SUFFICES ASSUME w.op # "WriteLastClosedBlock"
                 PROVE  /\ n # 1 /\ 1 \in 1..(n - 1)
                        /\ w.op = "WriteClosedBlockWithoutTx" =>
                              w.block \in StoredIn(d) \ {0} /\ q[2].op = "DeleteClosedBlock" /\ q[2].block = w.block
                        /\ w.op = "DeleteClosedBlock" => d.without[w.block] # None
                        /\ w.op = "DeleteAllLastClosedBlock" => n = 2
    OBVIOUS
  <2>2. n # 1 /\ 1 \in 1..(n - 1)
    BY <2>1, <1>6, <1>2
  <2>3. 1 + 1 = 2 /\ (1 = n - 1 => n = 2)
    BY <1>2
  <2>4. /\ q[1].op = "DeleteAllLastClosedBlock" => 1 = n - 1
        /\ q[1].op = "WriteClosedBlockWithoutTx" =>
              q[1].block \in StoredIn(d) \ {0} /\ q[1 + 1].op = "DeleteClosedBlock" /\ q[1 + 1].block = q[1].block
        /\ q[1].op = "DeleteClosedBlock" => d.without[q[1].block] # None
    BY <2>2, <1>4
  <2> HIDE DEF n, w
  <2> QED
    BY <2>2, <2>3, <2>4, <1>2
<1>8. StoredIn(e) = StoredIn(d)
  <2>1. /\ w.op \in Puts => StoredIn(e) = StoredIn(d) \cup {w.block}
        /\ w.op = "DeleteClosedBlock" =>
              StoredIn(e) = IF d.without[w.block] # None THEN StoredIn(d) ELSE StoredIn(d) \ {w.block}
        /\ w.op \notin Puts \cup {"DeleteClosedBlock", "DeleteClosedBlockWithoutTx"} => StoredIn(e) = StoredIn(d)
    BY <1>2, UpdateStored
  <2> HIDE DEF w, e, n
  <2>2. CASE w.op = "WriteClosedBlockWithoutTx"
    BY <2>1, <2>2, <1>7 DEF Puts
  <2>3. CASE w.op = "DeleteClosedBlock"
    BY <2>1, <2>3, <1>7
  <2>4. CASE w.op \in {"DeleteAllLastClosedBlock", "WriteLastClosedBlock"}
    BY <2>1, <2>4 DEF Puts
  <2> QED
    BY <2>2, <2>3, <2>4, <1>6
<1>9. w.op = "WriteClosedBlockWithoutTx" => e.without[w.block] # None
  <2>1. SUFFICES ASSUME w.op = "WriteClosedBlockWithoutTx" PROVE e.without[w.block] # None
    OBVIOUS
  <2>2. w.block \in Blocks /\ w.as \in Block /\ w.as # None
    BY <2>1, <1>2, WriteParts, RecoveryAssumption DEF Puts
  <2>3. e.without = [d.without EXCEPT ![w.block] = w.as] /\ d.without \in Bucket
    BY <2>1, <1>2, UpdateParts DEF Database
  <2> QED
    BY <2>2, <2>3 DEF Bucket
<1>10. ASSUME t # <<>> PROVE Ending(t, e)
  <2> HIDE DEF n, t, w, e
  <2>1. n \in Nat /\ n >= 2 /\ Len(t) = n - 1
    BY <1>10, <1>2
  <2>2. t[Len(t)].op = "WriteLastClosedBlock"
    <3>1. n - 1 \in 1..(n - 1) /\ (n - 1) + 1 = n
      BY <2>1
    <3>2. t[n - 1] = q[n]
      BY <3>1, <1>2
    <3> QED
      BY <3>2, <1>3, <2>1
  <2>3. ASSUME NEW i \in 1..(Len(t) - 1)
        PROVE  /\ t[i].op \in {"WriteClosedBlockWithoutTx", "DeleteClosedBlock", "DeleteAllLastClosedBlock"}
               /\ t[i].op = "DeleteAllLastClosedBlock" => i = Len(t) - 1
               /\ t[i].op = "WriteClosedBlockWithoutTx" =>
                     t[i].block \in StoredIn(e) \ {0} /\ Puts1(t, i, "DeleteClosedBlock")
               /\ t[i].op = "DeleteClosedBlock" => Deletes(t, i, "WriteClosedBlockWithoutTx", e.without)
    <3> DEFINE j == i + 1
    <3>1. i \in Nat /\ j \in 1..(n - 1) /\ i \in 1..(n - 1) /\ j - 1 = i /\ j # 1
      BY <2>1
    <3>2. t[i] = q[j] /\ t[j] = q[j + 1]
      BY <3>1, <1>2
    <3>3. /\ q[j].op \in {"WriteClosedBlockWithoutTx", "DeleteClosedBlock", "DeleteAllLastClosedBlock"}
          /\ q[j].op = "DeleteAllLastClosedBlock" => j = n - 1
          /\ q[j].op = "WriteClosedBlockWithoutTx" =>
                /\ q[j].block \in StoredIn(d) \ {0}
                /\ j < n /\ q[j + 1].op = "DeleteClosedBlock" /\ q[j + 1].block = q[j].block
          /\ q[j].op = "DeleteClosedBlock" =>
                q[i].op = "WriteClosedBlockWithoutTx" /\ q[i].block = q[j].block
      BY <3>1, <1>4
    <3>4. t[i].op = "DeleteAllLastClosedBlock" => i = Len(t) - 1
      BY <3>2, <3>3, <3>1, <2>1
    <3>5. t[i].op = "WriteClosedBlockWithoutTx" =>
            t[i].block \in StoredIn(e) \ {0} /\ Puts1(t, i, "DeleteClosedBlock")
      <4>1. i < Len(t)
        BY <2>1, <3>1
      <4> QED
        BY <3>2, <3>3, <1>8, <4>1 DEF Puts1
    <3>6. t[i].op = "DeleteClosedBlock" => Deletes(t, i, "WriteClosedBlockWithoutTx", e.without)
      <4>1. CASE i = 1
        BY <4>1, <3>2, <3>3, <1>2, <1>9 DEF Deletes
      <4>2. CASE i # 1
        <5>1. i - 1 \in 1..(n - 1) /\ (i - 1) + 1 = i
          BY <4>2, <3>1, <2>1
        <5>2. t[i - 1] = q[i]
          BY <5>1, <1>2
        <5> QED
          BY <4>2, <5>2, <3>2, <3>3 DEF Deletes
      <4> QED
        BY <4>1, <4>2
    <3> QED
      BY <3>2, <3>3, <3>4, <3>5, <3>6
  <2> QED
    BY <1>10, <2>2, <2>3 DEF Ending
<1>11. w.op = "WriteLastClosedBlock" <=> t = <<>>
  BY <1>2, <1>6
<1>12. w.op = "WriteClosedBlockWithoutTx" =>
         w.block # 0 /\ t # <<>> /\ Head(t).op = "DeleteClosedBlock" /\ Head(t).block = w.block
  BY <1>5, <1>7, <1>11
<1>13. w.op = "DeleteAllLastClosedBlock" => t # <<>> /\ Head(t).op = "WriteLastClosedBlock"
  BY <1>3, <1>5, <1>7, <1>11
<1> QED
  BY <1>6, <1>8, <1>10, <1>11, <1>12, <1>13

LEMMA ReopeningTail ==
    ASSUME NEW d \in Database, NEW q \in Seq(Writes), NEW b, Reopening(q, d, b)
    PROVE  /\ Head(q).op \in {"WriteClosedTx", "DeleteClosedTx", "WriteClosedBlock",
                              "DeleteClosedBlockWithoutTx", "DeleteClosedBlock",
                              "DeleteAllLastClosedBlock", "WriteLastClosedBlock"}
           /\ Head(q).op # "DeleteClosedBlock" => StoredIn(Update(d, Head(q))) = StoredIn(d)
           /\ Head(q).op = "DeleteClosedBlock" =>
                 /\ Head(q).block = b
                 /\ StoredIn(Update(d, Head(q))) = IF d.without[b] # None THEN StoredIn(d)
                                                   ELSE StoredIn(d) \ {b}
           /\ Head(q).op = "WriteLastClosedBlock" <=> Tail(q) = <<>>
           /\ Tail(q) # <<>> => Reopening(Tail(q), Update(d, Head(q)), b)
           /\ Head(q).op = "WriteClosedBlock" =>
                 /\ Head(q).block \in StoredIn(d) \ {b}
                 /\ Tail(q) # <<>>
                 /\ Head(Tail(q)).op = "DeleteClosedBlockWithoutTx"
                 /\ Head(Tail(q)).block = Head(q).block
           /\ Head(q).op = "DeleteAllLastClosedBlock" =>
                 Len(q) = 2 /\ Tail(q) # <<>> /\ Head(Tail(q)).op = "WriteLastClosedBlock"
<1>1. q # <<>>
  BY DEF Reopening
<1> DEFINE n == Len(q)
           t == Tail(q)
           w == Head(q)
           e == Update(d, w)
<1>2. /\ n \in Nat \ {0} /\ w = q[1] /\ w \in Writes
      /\ t \in Seq(Writes)
      /\ Len(t) = n - 1
      /\ \A i \in 1..(n - 1) : t[i] = q[i + 1]
      /\ t = <<>> <=> n = 1
  BY <1>1, TodoTail
<1>3. q[n].op = "WriteLastClosedBlock"
  BY DEF Reopening
<1> DEFINE Some == {"WriteClosedTx", "DeleteClosedTx", "WriteClosedBlock",
                    "DeleteClosedBlockWithoutTx", "DeleteClosedBlock", "DeleteAllLastClosedBlock"}
<1>4. \A i \in 1..(n - 1) :
          /\ q[i].op \in Some
          /\ q[i].op = "DeleteAllLastClosedBlock" => i = n - 1
          /\ q[i].op = "DeleteClosedBlock" => q[i].block = b
          /\ q[i].op = "WriteClosedBlock" =>
                /\ q[i].block \in StoredIn(d) \ {b}
                /\ i < n /\ q[i + 1].op = "DeleteClosedBlockWithoutTx" /\ q[i + 1].block = q[i].block
          /\ q[i].op = "DeleteClosedBlockWithoutTx" =>
                /\ q[i].block # b
                /\ IF i = 1 THEN d.closed[q[i].block] # None
                   ELSE q[i - 1].op = "WriteClosedBlock" /\ q[i - 1].block = q[i].block
  BY DEF Reopening, Puts1, Deletes
<1>5. t # <<>> => Head(t) = q[2]
  <2>1. SUFFICES ASSUME t # <<>> PROVE Head(t) = q[2]
    OBVIOUS
  <2>2. Head(t) = t[1]
    BY <1>2, <2>1, TodoTail
  <2>3. 1 \in 1..(n - 1)
    BY <1>2, <2>1
  <2> QED
    BY <2>2, <2>3, <1>2
<1>6. w.op \in Some \cup {"WriteLastClosedBlock"} /\ (w.op = "WriteLastClosedBlock" <=> n = 1)
  <2>1. CASE n = 1
    BY <2>1, <1>2, <1>3
  <2>2. CASE n # 1
    <3>1. 1 \in 1..(n - 1)
      BY <2>2, <1>2
    <3> QED
      BY <3>1, <2>2, <1>2, <1>4
  <2> QED
    BY <2>1, <2>2
<1>7. w.op # "WriteLastClosedBlock" =>
        /\ n # 1
        /\ w.op = "WriteClosedBlock" =>
              w.block \in StoredIn(d) \ {b} /\ q[2].op = "DeleteClosedBlockWithoutTx" /\ q[2].block = w.block
        /\ w.op = "DeleteClosedBlock" => w.block = b
        /\ w.op = "DeleteClosedBlockWithoutTx" => d.closed[w.block] # None
        /\ w.op = "DeleteAllLastClosedBlock" => n = 2
  <2>1. SUFFICES ASSUME w.op # "WriteLastClosedBlock"
                 PROVE  /\ n # 1
                        /\ w.op = "WriteClosedBlock" =>
                              w.block \in StoredIn(d) \ {b} /\ q[2].op = "DeleteClosedBlockWithoutTx" /\ q[2].block = w.block
                        /\ w.op = "DeleteClosedBlock" => w.block = b
                        /\ w.op = "DeleteClosedBlockWithoutTx" => d.closed[w.block] # None
                        /\ w.op = "DeleteAllLastClosedBlock" => n = 2
    OBVIOUS
  <2>2. n # 1 /\ 1 \in 1..(n - 1)
    BY <2>1, <1>6, <1>2
  <2>3. 1 + 1 = 2 /\ (1 = n - 1 => n = 2)
    BY <1>2
  <2>4. /\ q[1].op = "DeleteAllLastClosedBlock" => 1 = n - 1
        /\ q[1].op = "DeleteClosedBlock" => q[1].block = b
        /\ q[1].op = "WriteClosedBlock" =>
              q[1].block \in StoredIn(d) \ {b} /\ q[1 + 1].op = "DeleteClosedBlockWithoutTx" /\ q[1 + 1].block = q[1].block
        /\ q[1].op = "DeleteClosedBlockWithoutTx" => d.closed[q[1].block] # None
    BY <2>2, <1>4
  <2> HIDE DEF n, w
  <2> QED
    BY <2>2, <2>3, <2>4, <1>2
<1>8. /\ w.op # "DeleteClosedBlock" => StoredIn(e) = StoredIn(d)
      /\ w.op = "DeleteClosedBlock" =>
           StoredIn(e) = IF d.without[b] # None THEN StoredIn(d) ELSE StoredIn(d) \ {b}
  <2>1. /\ w.op \in Puts => StoredIn(e) = StoredIn(d) \cup {w.block}
        /\ w.op = "DeleteClosedBlock" =>
              StoredIn(e) = IF d.without[w.block] # None THEN StoredIn(d) ELSE StoredIn(d) \ {w.block}
        /\ w.op = "DeleteClosedBlockWithoutTx" =>
              StoredIn(e) = IF d.closed[w.block] # None THEN StoredIn(d) ELSE StoredIn(d) \ {w.block}
        /\ w.op \notin Puts \cup {"DeleteClosedBlock", "DeleteClosedBlockWithoutTx"} => StoredIn(e) = StoredIn(d)
    BY <1>2, UpdateStored
  <2> HIDE DEF w, e, n
  <2>2. CASE w.op = "WriteClosedBlock"
    BY <2>1, <2>2, <1>7 DEF Puts
  <2>3. CASE w.op = "DeleteClosedBlock"
    BY <2>1, <2>3, <1>7
  <2>4. CASE w.op = "DeleteClosedBlockWithoutTx"
    BY <2>1, <2>4, <1>7
  <2>5. CASE w.op \in {"WriteClosedTx", "DeleteClosedTx", "DeleteAllLastClosedBlock", "WriteLastClosedBlock"}
    BY <2>1, <2>5 DEF Puts
  <2> QED
    BY <2>2, <2>3, <2>4, <2>5, <1>6
<1>9. w.op = "WriteClosedBlock" => e.closed[w.block] # None
  <2>1. SUFFICES ASSUME w.op = "WriteClosedBlock" PROVE e.closed[w.block] # None
    OBVIOUS
  <2>2. w.block \in Blocks /\ w.as \in Block /\ w.as # None
    BY <2>1, <1>2, WriteParts, RecoveryAssumption DEF Puts
  <2>3. e.closed = [d.closed EXCEPT ![w.block] = w.as] /\ d.closed \in Bucket
    BY <2>1, <1>2, UpdateParts DEF Database
  <2> QED
    BY <2>2, <2>3 DEF Bucket
<1>10. ASSUME t # <<>> PROVE Reopening(t, e, b)
  <2> HIDE DEF n, t, w, e
  <2>1. n \in Nat /\ n >= 2 /\ Len(t) = n - 1
    BY <1>10, <1>2
  <2>2. t[Len(t)].op = "WriteLastClosedBlock"
    <3>1. n - 1 \in 1..(n - 1) /\ (n - 1) + 1 = n
      BY <2>1
    <3>2. t[n - 1] = q[n]
      BY <3>1, <1>2
    <3> QED
      BY <3>2, <1>3, <2>1
  <2>3. ASSUME NEW i \in 1..(Len(t) - 1)
        PROVE  /\ t[i].op \in Some
               /\ t[i].op = "DeleteAllLastClosedBlock" => i = Len(t) - 1
               /\ t[i].op = "DeleteClosedBlock" => t[i].block = b
               /\ t[i].op = "WriteClosedBlock" =>
                     t[i].block \in StoredIn(e) \ {b} /\ Puts1(t, i, "DeleteClosedBlockWithoutTx")
               /\ t[i].op = "DeleteClosedBlockWithoutTx" =>
                     t[i].block # b /\ Deletes(t, i, "WriteClosedBlock", e.closed)
    <3> DEFINE j == i + 1
    <3>1. i \in Nat /\ j \in 1..(n - 1) /\ i \in 1..(n - 1) /\ j - 1 = i /\ j # 1
      BY <2>1
    <3>2. t[i] = q[j] /\ t[j] = q[j + 1]
      BY <3>1, <1>2
    <3>3. /\ q[j].op \in Some
          /\ q[j].op = "DeleteAllLastClosedBlock" => j = n - 1
          /\ q[j].op = "DeleteClosedBlock" => q[j].block = b
          /\ q[j].op = "WriteClosedBlock" =>
                /\ q[j].block \in StoredIn(d) \ {b}
                /\ j < n /\ q[j + 1].op = "DeleteClosedBlockWithoutTx" /\ q[j + 1].block = q[j].block
          /\ q[j].op = "DeleteClosedBlockWithoutTx" =>
                q[j].block # b /\ q[i].op = "WriteClosedBlock" /\ q[i].block = q[j].block
      BY <3>1, <1>4
    <3>4. t[i].op = "DeleteAllLastClosedBlock" => i = Len(t) - 1
      BY <3>2, <3>3, <3>1, <2>1
    <3>5. t[i].op = "WriteClosedBlock" =>
            t[i].block \in StoredIn(e) \ {b} /\ Puts1(t, i, "DeleteClosedBlockWithoutTx")
      <4>1. i < Len(t)
        BY <2>1, <3>1
      <4>2. StoredIn(d) \ {b} \subseteq StoredIn(e)
        BY <1>8
      <4> QED
        BY <3>2, <3>3, <4>1, <4>2 DEF Puts1
    <3>6. t[i].op = "DeleteClosedBlockWithoutTx" => Deletes(t, i, "WriteClosedBlock", e.closed)
      <4>1. CASE i = 1
        BY <4>1, <3>2, <3>3, <1>2, <1>9 DEF Deletes
      <4>2. CASE i # 1
        <5>1. i - 1 \in 1..(n - 1) /\ (i - 1) + 1 = i
          BY <4>2, <3>1, <2>1
        <5>2. t[i - 1] = q[i]
          BY <5>1, <1>2
        <5> QED
          BY <4>2, <5>2, <3>2, <3>3 DEF Deletes
      <4> QED
        BY <4>1, <4>2
    <3> QED
      BY <3>2, <3>3, <3>4, <3>5, <3>6
  <2> QED
    BY <1>10, <2>2, <2>3 DEF Reopening
<1>11. w.op = "WriteLastClosedBlock" <=> t = <<>>
  BY <1>2, <1>6
<1>12. w.op = "WriteClosedBlock" =>
         /\ w.block \in StoredIn(d) \ {b}
         /\ t # <<>> /\ Head(t).op = "DeleteClosedBlockWithoutTx" /\ Head(t).block = w.block
  BY <1>5, <1>7, <1>11
<1>13. w.op = "DeleteAllLastClosedBlock" => n = 2 /\ t # <<>> /\ Head(t).op = "WriteLastClosedBlock"
  BY <1>3, <1>5, <1>7, <1>11
<1>14. w.op = "DeleteClosedBlock" => w.block = b
  BY <1>7
<1> QED
  BY <1>6, <1>8, <1>10, <1>11, <1>12, <1>13, <1>14

----------------------------------------------------------------------------
(* What the tasks have to write.                                           *)

TxWrites == {w \in Writes : w.op = "WriteClosedTx"}

LEMMA FiniteParts ==
    /\ IsFiniteSet(Txs)
    /\ \A S \in SUBSET Txs : IsFiniteSet(S)
    /\ IsFiniteSet(Blocks)
    /\ \A S \in SUBSET Blocks : IsFiniteSet(S)
    /\ None \notin Block /\ None \notin Blocks
    /\ 0 \in Blocks /\ MaxBlocks \in Nat
<1>1. IsFiniteSet(Txs) /\ MaxBlocks \in Nat /\ None \notin Block /\ None \notin Nat
  BY RecoveryAssumption
<1>2. IsFiniteSet(Blocks)
  BY <1>1, FS_Interval DEF Blocks
<1>3. \A S \in SUBSET Txs : IsFiniteSet(S)
  BY <1>1, FS_Subset
<1>4. \A S \in SUBSET Blocks : IsFiniteSet(S)
  BY <1>2, FS_Subset
<1>5. None \notin Blocks /\ 0 \in Blocks
  BY <1>1 DEF Blocks
<1> QED
  BY <1>1, <1>2, <1>3, <1>4, <1>5

LEMMA HeldType ==
    ASSUME Types, NEW t \in Txs
    PROVE  Held(db, t) \in TxRec
<1>1. db.tx[t] \in TxRec /\ mem.pool[t] \in TxRec
  BY DEF Types, Database
<1> DEFINE r == IF db.tx[t].closed THEN db.tx[t] ELSE mem.pool[t]
<1>2. r \in TxRec
  BY <1>1
<1>3. Held(db, t) = [r EXCEPT !.closed = TRUE]
  BY DEF Held
<1> HIDE DEF r
<1> QED
  BY <1>2, <1>3 DEF TxRec

LEMMA TxRecUpdate ==
    ASSUME NEW r \in TxRec, NEW f \in BOOLEAN, NEW b \in Blocks \cup {None}
    PROVE  /\ [r EXCEPT !.aggregated = f] \in TxRec
           /\ [r EXCEPT !.closed = f] \in TxRec
           /\ [r EXCEPT !.aggregated = f, !.block = b] \in TxRec
           /\ [closed |-> TRUE, aggregated |-> f, block |-> b] \in TxRec
           /\ r.block \in Blocks \cup {None}
BY DEF TxRec

LEMMA TxWrite ==
    ASSUME NEW t \in Txs, NEW r \in TxRec
    PROVE  WriteClosedTx(t, r) \in TxWrites
BY TxOpsAreWrites DEF TxWrites, WriteClosedTx

\* postValidate stores the transactions of the block first.
LEMMA ClosingWritesType ==
    ASSUME Types, NEW b \in Blocks, NEW c \in Block, NEW initialSetup \in BOOLEAN
    PROVE  ClosingWrites(b, c, initialSetup) \in Seq(TxWrites)
<1> DEFINE plain == [i \in 1..Cardinality(c.funds) |->
                       LET p == SetToSeq(c.funds)[i] IN WriteClosedTx(p, Held(db, p))]
           Below(a) == SetToSeq(IF initialSetup /\ ~Held(db, a).aggregated THEN Leaves(a) \cap Payments ELSE {})
           fetched(a) == [i \in 1..Len(Below(a)) |->
                            WriteClosedTx(Below(a)[i], [Held(db, Below(a)[i]) EXCEPT !.aggregated = TRUE])]
           Known(a, m) == db.tx[m].closed \/ \E i \in 1..Len(Below(a)) : Below(a)[i] = m
           Member(a, m) == WriteClosedTx(m, [Held(db, m) EXCEPT !.aggregated = TRUE,
                                                !.block = IF m \in AggTxs \/ Known(a, m) THEN @ ELSE b])
           members(a) == [i \in 1..Cardinality(env.members[a]) |-> Member(a, SetToSeq(env.members[a])[i])]
           Of(a) == fetched(a) \o members(a)
                      \o <<WriteClosedTx(a, [closed |-> TRUE, aggregated |-> FALSE, block |-> b])>>
           all == [i \in 1..Cardinality(c.aggs) |-> Of(SetToSeq(c.aggs)[i])]
<1>1. ClosingWrites(b, c, initialSetup) = plain \o FlattenSeq(all)
  BY DEF ClosingWrites
<1>2. c.funds \subseteq Payments /\ c.aggs \subseteq AggTxs /\ Payments \subseteq Txs /\ AggTxs \subseteq Txs
  BY DEF Block, Txs
<1>3. plain \in Seq(TxWrites)
  <2>1. IsFiniteSet(c.funds)
    BY <1>2, FiniteParts
  <2>2. Cardinality(c.funds) \in Nat /\ SetToSeq(c.funds) \in [1..Cardinality(c.funds) -> c.funds]
    BY <2>1, SetToSeqType
  <2>3. ASSUME NEW i \in 1..Cardinality(c.funds) PROVE plain[i] \in TxWrites
    <3>1. SetToSeq(c.funds)[i] \in Txs
      BY <2>2, <1>2
    <3> QED
      BY <3>1, HeldType, TxWrite
  <2> QED
    BY <2>2, <2>3, IsASeq
<1>4. ASSUME NEW a \in AggTxs PROVE Of(a) \in Seq(TxWrites)
  <2>1. a \in Txs
    BY <1>2
  <2>2. fetched(a) \in Seq(TxWrites)
    <3> DEFINE S == IF initialSetup /\ ~Held(db, a).aggregated THEN Leaves(a) \cap Payments ELSE {}
    <3>1. S \subseteq Txs
      BY <1>2
    <3> HIDE DEF S
    <3>2. Len(SetToSeq(S)) = Cardinality(S) /\ Cardinality(S) \in Nat
            /\ SetToSeq(S) \in [1..Cardinality(S) -> S]
      BY <3>1, FiniteParts, SetToSeqType
    <3> DEFINE s == SetToSeq(S)
    <3>3. ASSUME NEW i \in 1..Len(s)
          PROVE  WriteClosedTx(s[i], [Held(db, s[i]) EXCEPT !.aggregated = TRUE]) \in TxWrites
      <4>1. s[i] \in Txs
        BY <3>1, <3>2
      <4>2. Held(db, s[i]) \in TxRec
        BY <4>1, HeldType
      <4> HIDE DEF s
      <4>3. [Held(db, s[i]) EXCEPT !.aggregated = TRUE] \in TxRec
        BY <4>2, TxRecUpdate
      <4> QED
        BY <4>1, <4>3, TxWrite
    <3>4. [i \in 1..Len(s) |-> WriteClosedTx(s[i], [Held(db, s[i]) EXCEPT !.aggregated = TRUE])] \in Seq(TxWrites)
      <4>1. Len(s) \in Nat
        BY <3>2
      <4> HIDE DEF s
      <4> QED
        BY <4>1, <3>3, IsASeq
    <3> QED
      BY <3>4 DEF S
  <2>3. members(a) \in Seq(TxWrites)
    <3> DEFINE M == env.members[a]
    <3>1. M \subseteq Txs
      <4>1. env \in Environment
        BY RecoveryAssumption DEF Types
      <4> QED
        BY <4>1 DEF Environment
    <3>2. Cardinality(M) \in Nat /\ SetToSeq(M) \in [1..Cardinality(M) -> M]
      BY <3>1, FiniteParts, SetToSeqType
    <3>3. ASSUME NEW m \in Txs PROVE Member(a, m) \in TxWrites
      <4> DEFINE h == Held(db, m)
                 x == IF m \in AggTxs \/ Known(a, m) THEN h.block ELSE b
      <4>1. h \in TxRec
        BY HeldType
      <4>2. x \in Blocks \cup {None}
        <5> HIDE DEF h, Known
        <5> QED
          BY <4>1 DEF TxRec
      <4>3. Member(a, m) = WriteClosedTx(m, [h EXCEPT !.aggregated = TRUE, !.block = x])
        <5>1. [h EXCEPT !.aggregated = TRUE].block = h.block
          <6> HIDE DEF h
          <6> QED
            BY <4>1 DEF TxRec
        <5> QED
          BY <5>1
      <4> HIDE DEF x, h, Member
      <4>4. [h EXCEPT !.aggregated = TRUE, !.block = x] \in TxRec
        BY <4>1, <4>2, TxRecUpdate
      <4> QED
        BY <4>3, <4>4, TxWrite
    <3>4. \A i \in 1..Cardinality(M) : SetToSeq(M)[i] \in Txs
      BY <3>1, <3>2
    <3> HIDE DEF Member, M
    <3>5. [i \in 1..Cardinality(M) |-> Member(a, SetToSeq(M)[i])] \in Seq(TxWrites)
      BY <3>2, <3>3, <3>4, IsASeq
    <3> QED
      BY <3>5 DEF M
  <2>4. <<WriteClosedTx(a, [closed |-> TRUE, aggregated |-> FALSE, block |-> b])>> \in Seq(TxWrites)
    <3>0. [closed |-> TRUE, aggregated |-> FALSE, block |-> b] \in TxRec
      BY DEF TxRec
    <3>1. WriteClosedTx(a, [closed |-> TRUE, aggregated |-> FALSE, block |-> b]) \in TxWrites
      BY <2>1, <3>0, TxWrite
    <3> QED
      BY <3>1
  <2> HIDE DEF fetched, members
  <2>5. fetched(a) \o members(a) \in Seq(TxWrites)
    BY <2>2, <2>3, ConcatProperties
  <2> QED
    BY <2>5, <2>4, ConcatProperties
<1>5. all \in Seq(Seq(TxWrites))
  <2>1. IsFiniteSet(c.aggs)
    BY <1>2, FiniteParts
  <2>2. Cardinality(c.aggs) \in Nat /\ SetToSeq(c.aggs) \in [1..Cardinality(c.aggs) -> c.aggs]
    BY <2>1, SetToSeqType
  <2>3. \A i \in 1..Cardinality(c.aggs) : SetToSeq(c.aggs)[i] \in AggTxs
    BY <2>2, <1>2
  <2> HIDE DEF Of
  <2>4. \A i \in 1..Cardinality(c.aggs) : Of(SetToSeq(c.aggs)[i]) \in Seq(TxWrites)
    BY <2>3, <1>4
  <2> QED
    BY <2>2, <2>4, IsASeq
<1> HIDE DEF all, plain
<1>6. FlattenSeq(all) \in Seq(TxWrites)
  <2>1. <<>> \in Seq(TxWrites) /\ \A s, t \in Seq(TxWrites) : s \o t \in Seq(TxWrites)
    BY ConcatProperties
  <2> QED
    BY <2>1, <1>5, FlattenIn
<1> QED
  BY <1>1, <1>3, <1>6, ConcatProperties

\* Writes that move blocks of X from one bucket to the other: each put is
\* followed by the delete of the same block, each delete follows its put.
Moves(ops, put, del, m, X) ==
    {q \in Seq(Writes) : \A i \in 1..Len(q) :
        /\ q[i].op \in ops \cup {put, del}
        /\ q[i].op = put => /\ q[i].block \in X
                            /\ Same(m, q[i].block, q[i].as)
                            /\ Puts1(q, i, del)
        /\ q[i].op = del => i # 1 /\ q[i - 1].op = put /\ q[i - 1].block = q[i].block}

LEMMA MovesConcat ==
    ASSUME NEW ops, NEW put, NEW del, NEW m, NEW X,
           NEW s \in Moves(ops, put, del, m, X), NEW t \in Moves(ops, put, del, m, X)
    PROVE  s \o t \in Moves(ops, put, del, m, X)
<1> DEFINE k == Len(s)
           n == Len(t)
           q == s \o t
<1>1. s \in Seq(Writes) /\ t \in Seq(Writes)
  BY DEF Moves
<1>2. /\ k \in Nat /\ n \in Nat /\ q \in Seq(Writes) /\ Len(q) = k + n
      /\ \A i \in 1..(k + n) : q[i] = IF i <= k THEN s[i] ELSE t[i - k]
  BY <1>1, ConcatProperties, LenProperties
<1> HIDE DEF k, n, q
<1>3. ASSUME NEW i \in 1..Len(q)
      PROVE  /\ q[i].op \in ops \cup {put, del}
             /\ q[i].op = put => /\ q[i].block \in X
                                 /\ Same(m, q[i].block, q[i].as)
                                 /\ Puts1(q, i, del)
             /\ q[i].op = del => i # 1 /\ q[i - 1].op = put /\ q[i - 1].block = q[i].block
  <2>1. CASE i <= k
    <3>1. i \in 1..k /\ i \in 1..(k + n) /\ i < k => i + 1 \in 1..(k + n) /\ i + 1 <= k
      BY <2>1, <1>2
    <3>2. q[i] = s[i] /\ (i < k => q[i + 1] = s[i + 1])
      BY <2>1, <1>2
    <3>3. i # 1 => q[i - 1] = s[i - 1]
      BY <2>1, <1>2
    <3>4. /\ s[i].op \in ops \cup {put, del}
          /\ s[i].op = put => /\ s[i].block \in X
                              /\ Same(m, s[i].block, s[i].as)
                              /\ i < k /\ s[i + 1].op = del /\ s[i + 1].block = s[i].block
          /\ s[i].op = del => i # 1 /\ s[i - 1].op = put /\ s[i - 1].block = s[i].block
      <4>1. i \in 1..Len(s)
        BY <2>1, <1>2 DEF k
      <4> QED
        BY <4>1 DEF Moves, Puts1, k
    <3>5. i < k => i < Len(q)
      BY <1>2
    <3> QED
      BY <3>2, <3>3, <3>4, <3>5 DEF Puts1
  <2>2. CASE i > k
    <3> DEFINE j == i - k
    <3>1. j \in 1..n /\ i \in 1..(k + n) /\ ~(i <= k)
      BY <2>2, <1>2
    <3>2. q[i] = t[j]
      BY <3>1, <1>2
    <3>3. j < n => q[i + 1] = t[j + 1]
      <4>1. SUFFICES ASSUME j < n PROVE q[i + 1] = t[j + 1]
        OBVIOUS
      <4>2. i + 1 \in 1..(k + n) /\ ~(i + 1 <= k) /\ (i + 1) - k = j + 1
        BY <4>1, <3>1, <1>2
      <4> QED
        BY <4>2, <1>2
    <3>4. j # 1 => q[i - 1] = t[j - 1]
      <4>1. SUFFICES ASSUME j # 1 PROVE q[i - 1] = t[j - 1]
        OBVIOUS
      <4>2. i - 1 \in 1..(k + n) /\ ~(i - 1 <= k) /\ (i - 1) - k = j - 1
        BY <4>1, <3>1, <1>2
      <4> QED
        BY <4>2, <1>2
    <3>5. /\ t[j].op \in ops \cup {put, del}
          /\ t[j].op = put => /\ t[j].block \in X
                              /\ Same(m, t[j].block, t[j].as)
                              /\ j < n /\ t[j + 1].op = del /\ t[j + 1].block = t[j].block
          /\ t[j].op = del => j # 1 /\ t[j - 1].op = put /\ t[j - 1].block = t[j].block
      <4> HIDE DEF j
      <4>1. j \in 1..Len(t)
        BY <3>1 DEF n
      <4> QED
        BY <4>1 DEF Moves, Puts1, n
    <3>6. (j < n => i < Len(q)) /\ (j # 1 => i # 1)
      BY <3>1, <1>2
    <3> HIDE DEF j
    <3> QED
      BY <3>2, <3>3, <3>4, <3>5, <3>6 DEF Puts1
  <2> QED
    BY <2>1, <2>2, <1>2
<1> QED
  BY <1>2, <1>3 DEF Moves, q

LEMMA MovesEmpty ==
    ASSUME NEW ops, NEW put, NEW del, NEW m, NEW X
    PROVE  <<>> \in Moves(ops, put, del, m, X)
<1>1. <<>> \in Seq(Writes) /\ Len(<<>>) = 0
  OBVIOUS
<1> QED
  BY <1>1 DEF Moves

LEMMA MovesFlatten ==
    ASSUME NEW ops, NEW put, NEW del, NEW m, NEW X,
           NEW seqs \in Seq(Moves(ops, put, del, m, X))
    PROVE  FlattenSeq(seqs) \in Moves(ops, put, del, m, X)
<1> DEFINE G == Moves(ops, put, del, m, X)
<1>1. <<>> \in G /\ \A s, t \in G : s \o t \in G
  BY MovesEmpty, MovesConcat
<1> HIDE DEF G
<1> QED
  BY <1>1, FlattenIn DEF G

\* A single move.
LEMMA MovesPair ==
    ASSUME NEW ops, NEW put, NEW del, NEW m, NEW X, NEW v \in Writes, NEW w \in Writes,
           v.op = put, w.op = del, put # del, v.block \in X, w.block = v.block,
           Same(m, v.block, v.as)
    PROVE  <<v, w>> \in Moves(ops, put, del, m, X)
<1> DEFINE q == <<v, w>>
<1>1. q \in Seq(Writes) /\ Len(q) = 2 /\ q[1] = v /\ q[2] = w
  OBVIOUS
<1> HIDE DEF q
<1>2. ASSUME NEW i \in 1..Len(q)
      PROVE  /\ q[i].op \in ops \cup {put, del}
             /\ q[i].op = put => /\ q[i].block \in X
                                 /\ Same(m, q[i].block, q[i].as)
                                 /\ Puts1(q, i, del)
             /\ q[i].op = del => i # 1 /\ q[i - 1].op = put /\ q[i - 1].block = q[i].block
  <2>1. CASE i = 1
    <3>1. 1 + 1 = 2 /\ 1 < 2
      OBVIOUS
    <3> QED
      BY <2>1, <3>1, <1>1 DEF Puts1
  <2>2. CASE i = 2
    <3>1. 2 - 1 = 1 /\ 2 # 1
      OBVIOUS
    <3> QED
      BY <2>2, <3>1, <1>1
  <2> QED
    BY <2>1, <2>2, <1>1
<1> QED
  BY <1>1, <1>2 DEF Moves, q

LEMMA EmptiedType ==
    ASSUME NEW c \in Block
    PROVE  Emptied(c) \in Block /\ Emptied(c).height = c.height /\ Emptied(c).prev = c.prev
BY DEF Emptied, Block

\* The blocks of the database.
LEMMA ReadFacts ==
    ASSUME NEW d \in Database, NEW x \in ReadAllClosedBlocks(d)
    PROVE  /\ d.last # {}
           /\ x.id \in StoredIn(d)
           /\ x.c \in Block
           /\ x.c = d.closed[x.id] \/ x.c = d.without[x.id]
<1>1. d.closed \in Bucket /\ d.without \in Bucket
  BY DEF Database
<1>2. d.last # {}
  BY DEF ReadAllClosedBlocks
<1>3. \/ \E b \in Blocks : d.closed[b] # None /\ x = [id |-> b, c |-> d.closed[b], from |-> "closed"]
      \/ \E b \in Blocks : d.without[b] # None /\ x = [id |-> b, c |-> d.without[b], from |-> "without"]
  BY <1>2 DEF ReadAllClosedBlocks
<1> QED
  BY <1>1, <1>2, <1>3 DEF StoredIn, Bucket

LEMMA ReadCovers ==
    ASSUME NEW d \in Database, d.last # {}, NEW b \in StoredIn(d)
    PROVE  \E x \in ReadAllClosedBlocks(d) : x.id = b
<1>1. CASE d.closed[b] # None
  <2> DEFINE x == [id |-> b, c |-> d.closed[b], from |-> "closed"]
  <2>1. x \in ReadAllClosedBlocks(d)
    BY <1>1 DEF ReadAllClosedBlocks, StoredIn
  <2> QED
    BY <2>1
<1>2. CASE d.without[b] # None
  <2> DEFINE x == [id |-> b, c |-> d.without[b], from |-> "without"]
  <2>1. x \in ReadAllClosedBlocks(d)
    BY <1>2 DEF ReadAllClosedBlocks, StoredIn
  <2> QED
    BY <2>1
<1> QED
  BY <1>1, <1>2 DEF StoredIn

LEMMA ReadFinite ==
    ASSUME NEW d
    PROVE  \A S \in SUBSET ReadAllClosedBlocks(d) : IsFiniteSet(S)
<1> DEFINE C == {b \in Blocks : d.closed[b] # None}
           W == {b \in Blocks : d.without[b] # None}
           f == [b \in C |-> [id |-> b, c |-> d.closed[b], from |-> "closed"]]
           g == [b \in W |-> [id |-> b, c |-> d.without[b], from |-> "without"]]
           RC == {[id |-> b, c |-> d.closed[b], from |-> "closed"] : b \in C}
           RW == {[id |-> b, c |-> d.without[b], from |-> "without"] : b \in W}
<1>1. IsFiniteSet(C) /\ IsFiniteSet(W)
  BY FiniteParts
<1>2. f \in Surjection(C, RC) /\ g \in Surjection(W, RW)
  BY DEF Surjection
<1>3. IsFiniteSet(RC) /\ IsFiniteSet(RW)
  BY <1>1, <1>2, FS_Surjection
<1>4. ReadAllClosedBlocks(d) \subseteq RC \cup RW
  BY DEF ReadAllClosedBlocks
<1>5. IsFiniteSet(RC \cup RW)
  BY <1>3, FS_Union
<1> QED
  BY <1>4, <1>5, FS_Subset

\* The parts of a concatenation.
LEMMA Joined ==
    ASSUME NEW S, NEW s \in Seq(S), NEW t \in Seq(S), NEW q, q = s \o t,
           NEW k, k = Len(s), NEW n, n = Len(t)
    PROVE  /\ k \in Nat /\ n \in Nat
           /\ q \in Seq(S) /\ Len(q) = k + n
           /\ \A i \in 1..k : q[i] = s[i]
           /\ \A i \in 1..n : q[k + i] = t[i]
<1>1. k \in Nat /\ n \in Nat
  BY LenProperties
<1>2. /\ q \in Seq(S) /\ Len(q) = k + n
      /\ \A i \in 1..(k + n) : q[i] = IF i <= k THEN s[i] ELSE t[i - k]
  BY ConcatProperties
<1>3. \A i \in 1..k : q[i] = s[i]
  BY <1>1, <1>2
<1>4. ASSUME NEW i \in 1..n PROVE q[k + i] = t[i]
  <2>1. k + i \in 1..(k + n) /\ ~(k + i <= k) /\ (k + i) - k = i
    BY <1>1
  <2> QED
    BY <2>1, <1>2
<1> QED
  BY <1>1, <1>2, <1>3, <1>4

\* What d holds are blocks that were made.
Faithful(d, m) ==
    /\ \A b \in Blocks : d.closed[b] # None => Same(m, b, d.closed[b])
    /\ \A b \in Blocks : d.without[b] # None => Same(m, b, d.without[b])

LEMMA EndingWritesType ==
    ASSUME NEW d \in Database, Faithful(d, made), made[0] = Genesis,
           NEW b \in Blocks, NEW c \in Block
    PROVE  /\ EndingWrites(d, b, c) \in Seq(Writes)
           /\ Ending(EndingWrites(d, b, c), d)
           /\ LET q == EndingWrites(d, b, c) IN
                 \A i \in 1..Len(q) : q[i].op \in Puts => Same(made, q[i].block, q[i].as)
<1> DEFINE old == {x \in ReadAllClosedBlocks(d) : /\ ~x.c.aggregated
                                                  /\ x.c.height > 0
                                                  /\ x.c.height < c.height - Lag
                                                  /\ BlockReadyToAggregate(d, x.c)}
           At(h) == SetToSeq({x \in old : x.c.height = h})
           Empty(xs) == FlattenSeq([i \in 1..Len(xs) |-> UpdateBlocksToBlocksWithoutTx(xs[i].id, xs[i].c)])
           moves == FlattenSeq([h \in 1..MaxBlocks |-> Empty(At(h))])
           end == <<DeleteAllLastClosedBlock, WriteLastClosedBlock(b)>>
           q == moves \o end
           put == "WriteClosedBlockWithoutTx"
           del == "DeleteClosedBlock"
           G == Moves({}, put, del, made, StoredIn(d) \ {0})
<1>1. EndingWrites(d, b, c) = q
  BY DEF EndingWrites
<1>2. ASSUME NEW x \in old PROVE UpdateBlocksToBlocksWithoutTx(x.id, x.c) \in G
  <2>1. x \in ReadAllClosedBlocks(d) /\ x.c.height > 0
    BY <1>2
  <2>2. x.id \in StoredIn(d) /\ x.c \in Block /\ (x.c = d.closed[x.id] \/ x.c = d.without[x.id])
    BY <2>1, ReadFacts
  <2>3. x.id \in Blocks
    BY <2>2 DEF StoredIn
  <2>4. x.c # None
    BY <2>2, FiniteParts
  <2>5. Same(made, x.id, x.c)
    BY <2>2, <2>3, <2>4 DEF Faithful
  <2>6. x.id # 0
    BY <2>5, <2>1 DEF Same, Genesis
  <2> DEFINE v == WriteClosedBlockWithoutTx(x.id, Emptied(x.c))
             w == DeleteClosedBlock(x.id)
  <2>7. /\ v \in Writes /\ v.op = put /\ v.block = x.id /\ v.as = Emptied(x.c)
        /\ w \in Writes /\ w.op = del /\ w.block = x.id
    BY <2>2, <2>3, EmptiedType, PutsAreWrites, BlockOpsAreWrites
       DEF WriteClosedBlockWithoutTx, DeleteClosedBlock
  <2>8. Same(made, v.block, v.as)
    BY <2>2, <2>5, <2>7, EmptiedType DEF Same
  <2>9. v.block \in StoredIn(d) \ {0} /\ put # del
    BY <2>2, <2>6, <2>7
  <2> HIDE DEF v, w
  <2>10. <<v, w>> \in G
    BY <2>7, <2>8, <2>9, MovesPair
  <2> QED
    BY <2>10 DEF v, w, UpdateBlocksToBlocksWithoutTx
<1> HIDE DEF G
<1>3. ASSUME NEW h \in 1..MaxBlocks PROVE Empty(At(h)) \in G
  <2> DEFINE S == {x \in old : x.c.height = h}
             xs == SetToSeq(S)
  <2>1. S \subseteq old /\ S \in SUBSET ReadAllClosedBlocks(d)
    OBVIOUS
  <2>2. xs \in [1..Cardinality(S) -> S] /\ Len(xs) = Cardinality(S) /\ Cardinality(S) \in Nat
    BY <2>1, ReadFinite, SetToSeqType
  <2>3. \A i \in 1..Len(xs) : xs[i] \in old
    BY <2>1, <2>2
  <2> HIDE DEF xs, old
  <2>4. \A i \in 1..Len(xs) : UpdateBlocksToBlocksWithoutTx(xs[i].id, xs[i].c) \in G
    BY <2>3, <1>2
  <2>5. Len(xs) \in Nat
    BY <2>2
  <2>6. [i \in 1..Len(xs) |-> UpdateBlocksToBlocksWithoutTx(xs[i].id, xs[i].c)] \in Seq(G)
    BY <2>4, <2>5, IsASeq
  <2>7. FlattenSeq([i \in 1..Len(xs) |-> UpdateBlocksToBlocksWithoutTx(xs[i].id, xs[i].c)]) \in G
    BY <2>6, MovesFlatten DEF G
  <2> QED
    BY <2>7 DEF xs
<1>4. moves \in G
  <2> HIDE DEF Empty, At
  <2>1. [h \in 1..MaxBlocks |-> Empty(At(h))] \in Seq(G)
    BY <1>3, FiniteParts, IsASeq
  <2> QED
    BY <2>1, MovesFlatten DEF G
<1> HIDE DEF moves
<1> DEFINE k == Len(moves)
<1>5. /\ moves \in Seq(Writes) /\ k \in Nat
      /\ \A i \in 1..k :
          /\ moves[i].op \in {put, del}
          /\ moves[i].op = put => /\ moves[i].block \in StoredIn(d) \ {0}
                                  /\ Same(made, moves[i].block, moves[i].as)
                                  /\ i < k /\ moves[i + 1].op = del /\ moves[i + 1].block = moves[i].block
          /\ moves[i].op = del => i # 1 /\ moves[i - 1].op = put /\ moves[i - 1].block = moves[i].block
  BY <1>4, LenProperties DEF G, Moves, Puts1
<1>6. /\ end \in Seq(Writes) /\ Len(end) = 2
      /\ end[1].op = "DeleteAllLastClosedBlock" /\ end[2].op = "WriteLastClosedBlock"
  <2>1. DeleteAllLastClosedBlock \in Writes /\ WriteLastClosedBlock(b) \in Writes
    BY BlockOpsAreWrites
  <2>2. DeleteAllLastClosedBlock.op = "DeleteAllLastClosedBlock" /\ WriteLastClosedBlock(b).op = "WriteLastClosedBlock"
    BY DEF DeleteAllLastClosedBlock, WriteLastClosedBlock
  <2> QED
    BY <2>1, <2>2
<1> HIDE DEF end
<1> DEFINE n == Len(end)
<1>7. /\ n = 2 /\ q \in Seq(Writes) /\ Len(q) = k + n
      /\ \A i \in 1..k : q[i] = moves[i]
      /\ \A i \in 1..n : q[k + i] = end[i]
  <2>1. moves \in Seq(Writes) /\ end \in Seq(Writes)
    BY <1>5, <1>6
  <2>4. n = 2
    BY <1>6
  <2>2. q = moves \o end /\ k = Len(moves) /\ n = Len(end)
    OBVIOUS
  <2> HIDE DEF q, k, n
  <2>3. /\ q \in Seq(Writes) /\ Len(q) = k + n
        /\ \A i \in 1..k : q[i] = moves[i]
        /\ \A i \in 1..n : q[k + i] = end[i]
    BY <2>1, <2>2, Joined
  <2> QED
    BY <2>3, <2>4
<1> HIDE DEF q, k, n
<1>8. \A i \in 1..k : q[i] = moves[i]
  BY <1>7
<1>9. q[k + 1] = end[1] /\ q[k + 2] = end[2]
  BY <1>7
<1>10. ASSUME NEW i \in 1..(Len(q) - 1)
       PROVE  /\ q[i].op \in {"WriteClosedBlockWithoutTx", "DeleteClosedBlock", "DeleteAllLastClosedBlock"}
              /\ q[i].op = "DeleteAllLastClosedBlock" => i = Len(q) - 1
              /\ q[i].op = "WriteClosedBlockWithoutTx" =>
                    /\ q[i].block \in StoredIn(d) \ {0}
                    /\ Puts1(q, i, "DeleteClosedBlock")
              /\ q[i].op = "DeleteClosedBlock" => Deletes(q, i, "WriteClosedBlockWithoutTx", d.without)
              /\ q[i].op \in Puts => Same(made, q[i].block, q[i].as)
  <2>1. CASE i \in 1..k
    <3>1. q[i] = moves[i]
      BY <2>1, <1>8
    <3>2. i < k => q[i + 1] = moves[i + 1]
      BY <2>1, <1>8, <1>5
    <3>3. i # 1 => q[i - 1] = moves[i - 1]
      BY <2>1, <1>8, <1>5
    <3>4. i < Len(q)
      BY <2>1, <1>7, <1>5
    <3>5. moves[i].op \in {put, del}
      BY <2>1, <1>5
    <3>6. CASE moves[i].op = put
      <4>1. /\ moves[i].block \in StoredIn(d) \ {0}
            /\ Same(made, moves[i].block, moves[i].as)
            /\ i < k /\ moves[i + 1].op = del /\ moves[i + 1].block = moves[i].block
        BY <2>1, <1>5, <3>6
      <4> QED
        BY <3>1, <3>2, <3>4, <3>6, <4>1 DEF Puts1
    <3>7. CASE moves[i].op = del
      <4>1. i # 1 /\ moves[i - 1].op = put /\ moves[i - 1].block = moves[i].block
        BY <2>1, <1>5, <3>7
      <4> QED
        BY <3>1, <3>3, <3>7, <4>1 DEF Deletes, Puts
    <3> QED
      BY <3>5, <3>6, <3>7
  <2>2. CASE i = k + 1
    <3>1. i = Len(q) - 1
      BY <2>2, <1>7, <1>5
    <3> QED
      BY <2>2, <3>1, <1>9, <1>6 DEF Puts
  <2> QED
    BY <2>1, <2>2, <1>7, <1>5
<1>11. q # <<>> /\ q[Len(q)].op = "WriteLastClosedBlock"
  <2>1. Len(q) # 0
    BY <1>7, <1>5
  <2> QED
    BY <2>1, <1>6, <1>7, <1>9
<1>12. Ending(q, d)
  BY <1>10, <1>11 DEF Ending
<1>13. \A i \in 1..Len(q) : q[i].op \in Puts => Same(made, q[i].block, q[i].as)
  <2>1. \A i \in 1..Len(q) : i \in 1..(Len(q) - 1) \/ i = Len(q)
    BY <1>5, <1>7
  <2> QED
    BY <2>1, <1>10, <1>11 DEF Puts
<1> QED
  BY <1>1, <1>7, <1>12, <1>13

\* Writes that move no block.
LEMMA MovesNothing ==
    ASSUME NEW ops, NEW put, NEW del, NEW m, NEW X, NEW q \in Seq(Writes),
           \A i \in 1..Len(q) : q[i].op \in ops, put \notin ops, del \notin ops
    PROVE  q \in Moves(ops, put, del, m, X)
BY DEF Moves

LEMMA RefilledType ==
    ASSUME Types, NEW b \in Blocks, NEW c \in Block
    PROVE  Refilled(b, c) \in Block /\ Refilled(b, c).height = c.height /\ Refilled(b, c).prev = c.prev
<1> DEFINE of == {t \in Txs : db.tx[t].closed /\ db.tx[t].block = b}
           F == of \cap Payments
           A == of \cap AggTxs
<1>1. F \subseteq Payments /\ A \subseteq AggTxs
  OBVIOUS
<1>2. Refilled(b, c) = [c EXCEPT !.aggregated = FALSE, !.funds = @ \cup F, !.aggs = @ \cup A]
  BY DEF Refilled
<1> HIDE DEF F, A
<1> QED
  BY <1>1, <1>2 DEF Block

\* The writes of a rollback.
RollbackWrites ==
    LET b == tip
        c == db.closed[tip]
        held == UNION {env.members[a] : a \in c.aggs}
        own == {m \in held : db.tx[m].closed /\ db.tx[m].block = b}
        old == SetToSeq({m \in held : db.tx[m].closed /\ db.tx[m].block # b})
        gone == SetToSeq(c.funds \cup own \cup c.aggs)
    IN  FlattenSeq([i \in 1..Len(old) |-> reactivateHistoricBlockDueToRollback(old, i)])
          \o [i \in 1..Len(gone) |-> DeleteClosedTx(gone[i])]
          \o <<DeleteClosedBlock(b), DeleteAllLastClosedBlock, WriteLastClosedBlock(c.prev)>>

LEMMA RollbackWritesType ==
    ASSUME Types, Faithful(db, made), db.closed[tip] # None
    PROVE  /\ RollbackWrites \in Seq(Writes)
           /\ Reopening(RollbackWrites, db, tip)
           /\ \A i \in 1..Len(RollbackWrites) : RollbackWrites[i].op \in Puts =>
                 Same(made, RollbackWrites[i].block, RollbackWrites[i].as)
           /\ Len(RollbackWrites) >= 3
           /\ RollbackWrites[Len(RollbackWrites) - 2].op = "DeleteClosedBlock"
<1> DEFINE b == tip
           c == db.closed[tip]
           held == UNION {env.members[a] : a \in c.aggs}
           own == {m \in held : db.tx[m].closed /\ db.tx[m].block = b}
           oldset == {m \in held : db.tx[m].closed /\ db.tx[m].block # b}
           old == SetToSeq(oldset)
           goneset == c.funds \cup own \cup c.aggs
           gone == SetToSeq(goneset)
           react == FlattenSeq([i \in 1..Len(old) |-> reactivateHistoricBlockDueToRollback(old, i)])
           dels == [i \in 1..Len(gone) |-> DeleteClosedTx(gone[i])]
           moves == react \o dels
           end == <<DeleteClosedBlock(b), DeleteAllLastClosedBlock, WriteLastClosedBlock(c.prev)>>
           q == moves \o end
           put == "WriteClosedBlock"
           del == "DeleteClosedBlockWithoutTx"
           ops == {"WriteClosedTx", "DeleteClosedTx"}
           X == StoredIn(db) \ {b}
           G == Moves(ops, put, del, made, X)
<1>1. RollbackWrites = q
  BY DEF RollbackWrites
<1>2. b \in Blocks /\ c \in Block /\ c.prev \in Blocks /\ c.funds \subseteq Txs /\ c.aggs \subseteq AggTxs
      /\ AggTxs \subseteq Txs
  <2>1. b \in Blocks /\ c \in Block
    BY DEF Types, Database, Bucket
  <2> HIDE DEF c
  <2> QED
    BY <2>1 DEF Block, Txs
<1>3. held \subseteq Txs
  <2>1. env \in Environment
    BY RecoveryAssumption DEF Types
  <2>2. \A a \in AggTxs : env.members[a] \subseteq Txs
    BY <2>1 DEF Environment
  <2> HIDE DEF c
  <2> QED
    BY <2>2, <1>2
<1>4. oldset \subseteq Txs /\ goneset \subseteq Txs
  <2> HIDE DEF held, c
  <2> QED
    BY <1>2, <1>3
<1>5. /\ old \in [1..Len(old) -> oldset] /\ Len(old) \in Nat
      /\ gone \in [1..Len(gone) -> goneset] /\ Len(gone) \in Nat
  <2>1. IsFiniteSet(oldset) /\ IsFiniteSet(goneset)
    BY <1>4, FiniteParts
  <2> HIDE DEF oldset, goneset
  <2> QED
    BY <2>1, SetToSeqType
<1>6. ASSUME NEW t \in Txs, NEW r \in TxRec
      PROVE  /\ <<WriteClosedTx(t, r)>> \in G
             /\ DeleteClosedTx(t) \in Writes /\ DeleteClosedTx(t).op = "DeleteClosedTx"
  <2> DEFINE w == WriteClosedTx(t, r)
             s == <<w>>
  <2>1. w \in Writes /\ w.op = "WriteClosedTx" /\ DeleteClosedTx(t) \in Writes /\ DeleteClosedTx(t).op = "DeleteClosedTx"
    BY TxOpsAreWrites DEF WriteClosedTx, DeleteClosedTx
  <2> HIDE DEF w
  <2>2. s \in Seq(Writes) /\ Len(s) = 1 /\ s[1] = w
    BY <2>1
  <2>3. \A i \in 1..Len(s) : s[i].op \in ops
    <3> HIDE DEF s
    <3> QED
      BY <2>1, <2>2
  <2>4. put \notin ops /\ del \notin ops
    OBVIOUS
  <2> HIDE DEF s, ops, put, del
  <2>5. s \in G
    BY <2>2, <2>3, <2>4, MovesNothing
  <2> QED
    BY <2>1, <2>5 DEF s, w
<1>7. ASSUME NEW i \in 1..Len(old)
      PROVE  reactivateHistoricBlockDueToRollback(old, i) \in G
  <2> DEFINE t == old[i]
             r == db.tx[t]
             home == r.block
             first == <<WriteClosedTx(t, [r EXCEPT !.aggregated = FALSE])>>
             pair == <<WriteClosedBlock(home, Refilled(home, db.without[home])), DeleteClosedBlockWithoutTx(home)>>
  <2>1. t \in Txs /\ t \in oldset
    BY <1>4, <1>5
  <2>2. r \in TxRec /\ r.block # b
    BY <2>1 DEF Types, Database
  <2>3. first \in G
    <3> HIDE DEF r
    <3>1. [r EXCEPT !.aggregated = FALSE] \in TxRec
      BY <2>2, TxRecUpdate
    <3> HIDE DEF t
    <3> QED
      BY <2>1, <3>1, <1>6
  <2>4. ASSUME home # None, db.without[home] # None
        PROVE  pair \in G
    <3>1. home \in Blocks /\ home # b
      BY <2>2, <2>4 DEF TxRec
    <3> HIDE DEF home
    <3>2. db.without[home] \in Block /\ home \in X
      BY <3>1, <2>4 DEF Types, Database, Bucket, StoredIn
    <3>3. Same(made, home, db.without[home])
      BY <3>1, <2>4 DEF Faithful
    <3> DEFINE z == Refilled(home, db.without[home])
               v == WriteClosedBlock(home, z)
               w == DeleteClosedBlockWithoutTx(home)
    <3>4. z \in Block /\ Same(made, home, z)
      BY <3>1, <3>2, <3>3, RefilledType DEF Same
    <3> HIDE DEF z
    <3>5. /\ v \in Writes /\ v.op = put /\ v.block = home /\ v.as = z
          /\ w \in Writes /\ w.op = del /\ w.block = home
      BY <3>1, <3>4, PutsAreWrites, BlockOpsAreWrites DEF WriteClosedBlock, DeleteClosedBlockWithoutTx
    <3> HIDE DEF v, w, X
    <3>6. Same(made, v.block, v.as) /\ v.block \in X /\ w.block = v.block /\ put # del
      BY <3>2, <3>4, <3>5
    <3>7. <<v, w>> \in G
      BY <3>5, <3>6, MovesPair
    <3> QED
      BY <3>7 DEF v, w, z
  <2>5. \/ reactivateHistoricBlockDueToRollback(old, i) = first \o <<>>
        \/ home # None /\ db.without[home] # None /\ reactivateHistoricBlockDueToRollback(old, i) = first \o pair
    BY DEF reactivateHistoricBlockDueToRollback
  <2>6. <<>> \in G
    BY MovesEmpty
  <2>7. \A x, y \in G : x \o y \in G
    BY MovesConcat
  <2> HIDE DEF first, pair, home, G
  <2> QED
    BY <2>3, <2>4, <2>5, <2>6, <2>7
<1>8. react \in G
  <2> HIDE DEF old, G
  <2>1. [i \in 1..Len(old) |-> reactivateHistoricBlockDueToRollback(old, i)] \in Seq(G)
    BY <1>5, <1>7, IsASeq
  <2> QED
    BY <2>1, MovesFlatten DEF G
<1>9. dels \in G
  <2> HIDE DEF gone
  <2>1. \A i \in 1..Len(gone) : gone[i] \in Txs
    BY <1>4, <1>5
  <2>2. NoTx \in TxRec
    BY NoTxType
  <2>3. \A i \in 1..Len(gone) : dels[i] \in Writes /\ dels[i].op \in ops
    BY <2>1, <2>2, <1>6
  <2>4. dels \in Seq(Writes) /\ Len(dels) = Len(gone)
    <3>1. Len(gone) \in Nat
      BY <1>5
    <3> QED
      BY <3>1, <2>3, IsASeq
  <2>5. put \notin ops /\ del \notin ops
    OBVIOUS
  <2> HIDE DEF dels, put, del, ops
  <2> QED
    BY <2>3, <2>4, <2>5, MovesNothing
<1>10. moves \in G
  <2> HIDE DEF react, dels
  <2> QED
    BY <1>8, <1>9, MovesConcat
<1> HIDE DEF moves
<1> DEFINE k == Len(moves)
<1>11. /\ moves \in Seq(Writes) /\ k \in Nat
       /\ \A i \in 1..k :
          /\ moves[i].op \in ops \cup {put, del}
          /\ moves[i].op = put => /\ moves[i].block \in X
                                  /\ Same(made, moves[i].block, moves[i].as)
                                  /\ i < k /\ moves[i + 1].op = del /\ moves[i + 1].block = moves[i].block
          /\ moves[i].op = del => i # 1 /\ moves[i - 1].op = put /\ moves[i - 1].block = moves[i].block
  BY <1>10, LenProperties DEF Moves, Puts1
<1>12. /\ end \in Seq(Writes) /\ Len(end) = 3
       /\ end[1].op = "DeleteClosedBlock" /\ end[1].block = b
       /\ end[2].op = "DeleteAllLastClosedBlock" /\ end[3].op = "WriteLastClosedBlock"
  <2> HIDE DEF c
  <2>1. DeleteAllLastClosedBlock \in Writes /\ WriteLastClosedBlock(c.prev) \in Writes /\ DeleteClosedBlock(b) \in Writes
    BY <1>2, BlockOpsAreWrites
  <2>2. /\ DeleteAllLastClosedBlock.op = "DeleteAllLastClosedBlock"
        /\ WriteLastClosedBlock(c.prev).op = "WriteLastClosedBlock"
        /\ DeleteClosedBlock(b).op = "DeleteClosedBlock" /\ DeleteClosedBlock(b).block = b
    BY DEF DeleteAllLastClosedBlock, WriteLastClosedBlock, DeleteClosedBlock
  <2> QED
    BY <2>1, <2>2
<1> HIDE DEF end
<1> DEFINE n == Len(end)
<1>13. /\ n = 3 /\ q \in Seq(Writes) /\ Len(q) = k + n
       /\ \A i \in 1..k : q[i] = moves[i]
       /\ \A i \in 1..n : q[k + i] = end[i]
  <2>1. moves \in Seq(Writes) /\ end \in Seq(Writes)
    BY <1>11, <1>12
  <2>2. n = 3
    BY <1>12
  <2>3. q = moves \o end /\ k = Len(moves) /\ n = Len(end)
    OBVIOUS
  <2> HIDE DEF q, k, n
  <2>4. /\ q \in Seq(Writes) /\ Len(q) = k + n
        /\ \A i \in 1..k : q[i] = moves[i]
        /\ \A i \in 1..n : q[k + i] = end[i]
    BY <2>1, <2>3, Joined
  <2> QED
    BY <2>2, <2>4
<1> HIDE DEF q, k, n
<1>14. q[k + 1] = end[1] /\ q[k + 2] = end[2] /\ q[k + 3] = end[3]
  BY <1>13
<1>15. ASSUME NEW i \in 1..(Len(q) - 1)
       PROVE  /\ q[i].op \in {"WriteClosedTx", "DeleteClosedTx", "WriteClosedBlock",
                              "DeleteClosedBlockWithoutTx", "DeleteClosedBlock",
                              "DeleteAllLastClosedBlock"}
              /\ q[i].op = "DeleteAllLastClosedBlock" => i = Len(q) - 1
              /\ q[i].op = "DeleteClosedBlock" => q[i].block = b
              /\ q[i].op = "WriteClosedBlock" =>
                    /\ q[i].block \in StoredIn(db) \ {b}
                    /\ Puts1(q, i, "DeleteClosedBlockWithoutTx")
              /\ q[i].op = "DeleteClosedBlockWithoutTx" =>
                    /\ q[i].block # b
                    /\ Deletes(q, i, "WriteClosedBlock", db.closed)
              /\ q[i].op \in Puts => Same(made, q[i].block, q[i].as)
  <2>1. CASE i \in 1..k
    <3>1. q[i] = moves[i]
      BY <2>1, <1>13
    <3>2. i < k => q[i + 1] = moves[i + 1]
      BY <2>1, <1>13, <1>11
    <3>3. i # 1 => q[i - 1] = moves[i - 1]
      BY <2>1, <1>13, <1>11
    <3>4. i < Len(q)
      BY <2>1, <1>13, <1>11
    <3>5. moves[i].op \in {"WriteClosedTx", "DeleteClosedTx", put, del}
      BY <2>1, <1>11
    <3>6. CASE moves[i].op = put
      <4>1. /\ moves[i].block \in StoredIn(db) \ {b}
            /\ Same(made, moves[i].block, moves[i].as)
            /\ i < k /\ moves[i + 1].op = del /\ moves[i + 1].block = moves[i].block
        BY <2>1, <1>11, <3>6
      <4> QED
        BY <3>1, <3>2, <3>4, <3>6, <4>1 DEF Puts1
    <3>7. CASE moves[i].op = del
      <4>1. i # 1 /\ moves[i - 1].op = put /\ moves[i - 1].block = moves[i].block
        BY <2>1, <1>11, <3>7
      <4>2. i - 1 \in 1..k
        BY <4>1, <2>1, <1>11
      <4>3. moves[i - 1].block # b
        BY <4>1, <4>2, <1>11
      <4> QED
        BY <3>1, <3>3, <3>7, <4>1, <4>3 DEF Deletes, Puts
    <3>8. CASE moves[i].op \in {"WriteClosedTx", "DeleteClosedTx"}
      BY <3>1, <3>8 DEF Puts
    <3> QED
      BY <3>5, <3>6, <3>7, <3>8
  <2>2. CASE i = k + 1
    BY <2>2, <1>14, <1>12 DEF Puts
  <2>3. CASE i = k + 2
    <3>1. i = Len(q) - 1
      BY <2>3, <1>13, <1>11
    <3> QED
      BY <2>3, <3>1, <1>14, <1>12 DEF Puts
  <2> QED
    BY <2>1, <2>2, <2>3, <1>13, <1>11
<1>16. q # <<>> /\ q[Len(q)].op = "WriteLastClosedBlock"
  <2>1. Len(q) # 0
    BY <1>13, <1>11
  <2> QED
    BY <2>1, <1>12, <1>13, <1>14
<1>17. Reopening(q, db, b)
  BY <1>15, <1>16 DEF Reopening
<1>18. \A i \in 1..Len(q) : q[i].op \in Puts => Same(made, q[i].block, q[i].as)
  <2>1. \A i \in 1..Len(q) : i \in 1..(Len(q) - 1) \/ i = Len(q)
    BY <1>13, <1>11
  <2> QED
    BY <2>1, <1>15, <1>16 DEF Puts
<1>19. Len(q) >= 3 /\ q[Len(q) - 2].op = "DeleteClosedBlock"
  <2>1. Len(q) >= 3 /\ Len(q) - 2 = k + 1
    BY <1>13, <1>11
  <2> QED
    BY <2>1, <1>14, <1>12
<1> QED
  BY <1>1, <1>13, <1>17, <1>18, <1>19

\* What prepareBlock writes.
LEMMA TakenWritesType ==
    ASSUME Types, NEW S \in SUBSET Txs
    PROVE  [i \in 1..Len(SetToSeq(S)) |->
              WriteClosedTx(SetToSeq(S)[i], [db.tx[SetToSeq(S)[i]] EXCEPT !.aggregated = TRUE])]
             \in Seq(TxWrites)
<1> DEFINE s == SetToSeq(S)
<1>1. s \in [1..Cardinality(S) -> S] /\ Len(s) = Cardinality(S) /\ Cardinality(S) \in Nat
  BY FiniteParts, SetToSeqType
<1>2. \A i \in 1..Len(s) : s[i] \in Txs
  BY <1>1
<1>3. Len(s) \in Nat
  BY <1>1
<1> HIDE DEF s
<1>4. ASSUME NEW i \in 1..Len(s)
      PROVE  WriteClosedTx(s[i], [db.tx[s[i]] EXCEPT !.aggregated = TRUE]) \in TxWrites
  <2> DEFINE r == db.tx[s[i]]
  <2>1. r \in TxRec
    BY <1>2 DEF Types, Database
  <2> HIDE DEF r
  <2>2. [r EXCEPT !.aggregated = TRUE] \in TxRec
    BY <2>1, TxRecUpdate
  <2> QED
    BY <2>2, <1>2, TxWrite DEF r
<1>5. [i \in 1..Len(s) |-> WriteClosedTx(s[i], [db.tx[s[i]] EXCEPT !.aggregated = TRUE])] \in Seq(TxWrites)
  BY <1>3, <1>4, IsASeq
<1> QED
  BY <1>5 DEF s

----------------------------------------------------------------------------
(* Blocks.                                                                 *)

LEMMA CandidatesType ==
    ASSUME Types, MadeInv, NEW c \in Candidates
    PROVE  c \in Block /\ c.prev = tip /\ c.height = made[tip].height + 1
<1> DEFINE new == Payments \ InEffect(tip)
           Aggregates(a) == /\ "new" \in env.aggregate
                            /\ \A b \in Path(tip) : a \notin made[b].aggs
                            /\ env.members[a] \subseteq new \cup Historic
                            /\ env.members[a] \cap new # {}
<1>1. PICK x \in {y \in (SUBSET new) \X (SUBSET {a \in AggTxs : Aggregates(a)}) :
                    /\ Cardinality(y[1]) + Cardinality(y[2]) <= MaxTx
                    /\ Cardinality(y[2]) <= 1
                    /\ \A a \in y[2] : env.members[a] \cap y[1] = {}} :
        c = [height |-> made[tip].height + 1, prev |-> tip, funds |-> x[1], aggs |-> x[2],
             nr |-> Cardinality(x[1]) + Cardinality(x[2]), aggregated |-> FALSE]
  BY DEF Candidates
<1>2. x[1] \subseteq Payments /\ x[2] \subseteq AggTxs
  <2> HIDE DEF Aggregates
  <2> QED
    BY <1>1
<1>3. Cardinality(x[1]) \in Nat /\ Cardinality(x[2]) \in Nat
  <2>1. x[1] \subseteq Txs /\ x[2] \subseteq Txs
    BY <1>2 DEF Txs
  <2>2. IsFiniteSet(x[1]) /\ IsFiniteSet(x[2])
    BY <2>1, FiniteParts
  <2> QED
    BY <2>2, FS_CardinalityType
<1>4. made[tip] \in Block /\ tip \in Blocks
  BY DEF Types, Bucket, MadeInv
<1>5. made[tip].height + 1 \in Nat
  BY <1>4 DEF Block
<1> DEFINE nr == Cardinality(x[1]) + Cardinality(x[2])
           h == made[tip].height + 1
<1>6. nr \in Nat /\ h \in Nat
  BY <1>3, <1>5
<1>7. c = [height |-> h, prev |-> tip, funds |-> x[1], aggs |-> x[2], nr |-> nr, aggregated |-> FALSE]
  BY <1>1
<1> HIDE DEF nr
<1> QED
  BY <1>2, <1>4, <1>6, <1>7 DEF Block

\* What is known of a block that was made.
LEMMA MadeFacts ==
    ASSUME Types, MadeInv
    PROVE  /\ made[0] = Genesis /\ Genesis \in Block /\ made[0] # None
           /\ made[0].prev = 0 /\ made[0].height = 0
           /\ \A x \in Blocks : made[x] # None =>
                 /\ made[x] \in Block /\ made[x].height \in Nat /\ made[x].prev \in Blocks
                 /\ made[made[x].prev] # None
                 /\ made[x].prev <= x
                 /\ x # 0 => /\ made[x].prev < x /\ made[x].prev # x
                             /\ made[x].height = made[made[x].prev].height + 1
           /\ tip \in Blocks /\ made[tip] # None
           /\ Blocks \subseteq Nat
<1>1. made[0] = Genesis /\ Genesis \in Block /\ made[0] # None /\ made[0].prev = 0 /\ made[0].height = 0
  <2>1. Genesis \in Block
    BY FiniteParts DEF Genesis, Block
  <2>2. Genesis # None
    BY <2>1, FiniteParts
  <2>3. Genesis.prev = 0 /\ Genesis.height = 0
    BY DEF Genesis
  <2>4. made[0] = Genesis
    BY DEF MadeInv
  <2> QED
    BY <2>1, <2>2, <2>3, <2>4
<1>2. tip \in Blocks /\ made[tip] # None /\ Blocks \subseteq Nat
  BY DEF Types, MadeInv, Blocks
<1>3. ASSUME NEW x \in Blocks, made[x] # None
      PROVE  /\ made[x] \in Block /\ made[x].height \in Nat /\ made[x].prev \in Blocks
             /\ made[made[x].prev] # None
             /\ made[x].prev <= x
             /\ x # 0 => /\ made[x].prev < x /\ made[x].prev # x
                         /\ made[x].height = made[made[x].prev].height + 1
  <2>1. made[x] \in Block
    BY <1>3 DEF Types, Bucket
  <2>2. made[x].height \in Nat /\ made[x].prev \in Blocks
    BY <2>1 DEF Block
  <2>3. x # 0 => made[x].prev < x /\ made[x].height = made[made[x].prev].height + 1
    BY <1>3 DEF MadeInv
  <2>4. made[x].prev <= x /\ (x # 0 => made[x].prev # x)
    <3>1. x \in Nat /\ made[x].prev \in Nat
      BY <1>2, <2>2
    <3> QED
      BY <3>1, <2>3, <1>1
  <2>5. made[made[x].prev] # None
    <3>1. CASE x = 0
      BY <3>1, <1>1
    <3>2. CASE x # 0
      BY <3>2, <2>2, <2>3, <1>3 DEF MadeInv
    <3> QED
      BY <3>1, <3>2
  <2> QED
    BY <2>1, <2>2, <2>3, <2>4, <2>5
<1> QED
  BY <1>1, <1>2, <1>3

\* The number of the next block.
LEMMA NextBlockIsNext ==
    ASSUME Types, MadeInv, NextBlock # {}, NEW b, b = Min(NextBlock)
    PROVE  /\ b \in Blocks \ {0} /\ made[b] = None
           /\ \A x \in Blocks : made[x] # None => x < b
           /\ \A x \in Blocks : x < b => made[x] # None
<1>1. NextBlock \subseteq Blocks /\ Blocks \subseteq Nat
  BY DEF NextBlock, Blocks
<1>2. \E x \in NextBlock : \A y \in NextBlock : x <= y
  BY <1>1, SmallestExists
<1>3. b \in NextBlock /\ \A y \in NextBlock : b <= y
  BY <1>2 DEF Min
<1>4. b \in Blocks /\ made[b] = None
  BY <1>3 DEF NextBlock
<1>5. b # 0
  BY <1>4, MadeFacts
<1>6. ASSUME NEW x \in Blocks, made[x] # None PROVE x < b
  <2>1. ~(b < x)
    BY <1>4, <1>6 DEF MadeInv
  <2>2. x # b
    BY <1>4, <1>6
  <2> QED
    BY <2>1, <2>2, <1>1, <1>4
<1>7. ASSUME NEW x \in Blocks, x < b PROVE made[x] # None
  <2>1. ~(b <= x)
    BY <1>7, <1>1, <1>4
  <2> QED
    BY <2>1, <1>3 DEF NextBlock
<1> QED
  BY <1>4, <1>5, <1>6, <1>7

\* No block is higher than its number.
LEMMA HeightBounded ==
    ASSUME Types, MadeInv, NEW b \in Blocks, made[b] # None
    PROVE  made[b].height <= b
<1> DEFINE T == {x \in Blocks : made[x] # None /\ ~(made[x].height <= x)}
<1>1. T = {}
  <2>1. SUFFICES ASSUME T # {} PROVE FALSE
    OBVIOUS
  <2>2. T \subseteq Nat
    BY MadeFacts
  <2>3. PICK x \in T : \A y \in T : x <= y
    BY <2>1, <2>2, SmallestExists
  <2>4. x \in Blocks /\ made[x] # None /\ ~(made[x].height <= x)
    BY <2>3
  <2>5. x # 0
    BY <2>4, MadeFacts
  <2> DEFINE p == made[x].prev
  <2>6. p \in Blocks /\ p \in Nat /\ x \in Nat /\ p < x /\ made[p] # None /\ made[x].height = made[p].height + 1
        /\ made[p].height \in Nat
    BY <2>4, <2>5, MadeFacts
  <2> HIDE DEF p
  <2>7. p \notin T
    <3>1. \A y \in T : x <= y
      BY <2>3
    <3> HIDE DEF T
    <3> QED
      BY <3>1, <2>6
  <2>8. made[p].height <= p
    BY <2>6, <2>7
  <2> QED
    BY <2>4, <2>6, <2>8
<1> QED
  BY <1>1

\* The highest of the blocks of the database.
LEMMA HighestExists ==
    ASSUME Types, MadeInv, Faithful(db, made), NEW S \in SUBSET ReadAllClosedBlocks(db), S # {}
    PROVE  /\ Highest(S) \in S
           /\ \A y \in S : made[y.id].height <= made[Highest(S).id].height
<1>0. db \in Database
  BY DEF Types
<1>1. ASSUME NEW x \in S
      PROVE  /\ x.id \in Blocks /\ made[x.id] # None /\ x.c.height = made[x.id].height
             /\ x.c.height \in Nat /\ x.c.height <= MaxBlocks
  <2>1. x.id \in StoredIn(db) /\ x.c \in Block /\ (x.c = db.closed[x.id] \/ x.c = db.without[x.id])
    BY <1>0, ReadFacts
  <2>2. x.id \in Blocks /\ x.c # None
    BY <2>1, FiniteParts DEF StoredIn
  <2>3. Same(made, x.id, x.c)
    BY <2>1, <2>2 DEF Faithful
  <2>4. made[x.id] # None /\ x.c.height = made[x.id].height
    BY <2>3 DEF Same
  <2>5. made[x.id].height <= x.id /\ x.id \in 0..MaxBlocks /\ MaxBlocks \in Nat
    BY <2>2, <2>4, HeightBounded, FiniteParts DEF Blocks
  <2>6. x.c.height \in Nat
    BY <2>1 DEF Block
  <2> QED
    BY <2>2, <2>4, <2>5, <2>6
<1> DEFINE D == {MaxBlocks - x.c.height : x \in S}
<1>2. D \subseteq Nat /\ D # {}
  <2>1. \A x \in S : MaxBlocks - x.c.height \in Nat
    BY <1>1, FiniteParts
  <2> QED
    BY <2>1
<1>3. PICK k \in D : \A y \in D : k <= y
  BY <1>2, SmallestExists
<1>4. PICK x \in S : k = MaxBlocks - x.c.height
  BY <1>3
<1>5. \A y \in S : y.c.height <= x.c.height
  <2>1. \A y \in S : k <= MaxBlocks - y.c.height
    BY <1>3
  <2> QED
    BY <2>1, <1>4, <1>1, FiniteParts
<1>6. Highest(S) \in S /\ \A y \in S : y.c.height <= Highest(S).c.height
  BY <1>5 DEF Highest
<1> QED
  BY <1>6, <1>1

-----------------------------------------------------------------------------
LEMMA EnvFrame ==
    ASSUME env' = env
    PROVE  (bootstrap' <=> bootstrap) /\ (Untorn' <=> Untorn) /\ (Sound' <=> Sound)
BY DEF bootstrap, Untorn, Sound

LEMMA SoundUntorn ==
    ASSUME Sound, bootstrap
    PROVE  Untorn
<1>1. env.crash \subseteq Survivable \cup {<<"prepare", "-">>}
  BY DEF Sound
<1>2. (Survivable \cup {<<"prepare", "-">>}) \cap Torn = {}
  BY DEF Survivable, Torn
<1> QED
  BY <1>1, <1>2 DEF Untorn

LEMMA MemFrame ==
    ASSUME NEW m, NEW x, NEW y, "pool" \in DOMAIN m
    PROVE  LET n == [m EXCEPT !.applied = x, !.rewards = y]
           IN  "pool" \in DOMAIN n /\ n.pool = m.pool
OBVIOUS

LEMMA MemPool ==
    ASSUME NEW m, NEW x, NEW y, NEW z, "pool" \in DOMAIN m
    PROVE  LET n == [m EXCEPT !.applied = x, !.rewards = y, !.pool = z]
           IN  "pool" \in DOMAIN n /\ n.pool = z
OBVIOUS

\* Stored blocks are blocks that were made.
LEMMA StoredFacts ==
    ASSUME Types, MadeInv, DbInv
    PROVE  /\ Faithful(db, made)
           /\ db.closed \in Bucket /\ db.without \in Bucket
           /\ Stored \subseteq Blocks
           /\ \A x \in Stored : x \in Blocks /\ made[x] # None
           /\ \A x \in Blocks : x \in Stored <=> db.closed[x] # None \/ db.without[x] # None
<1>1. Faithful(db, made)
  BY DEF DbInv, Faithful
<1> QED
  BY <1>1 DEF Types, Database, Faithful, Stored, StoredIn, Same

\* What postValidate has to write.
LEMMA PostValidateTodo ==
    ASSUME Types, NEW b \in Blocks, NEW c \in Block, NEW q,
           \E setup \in BOOLEAN : q = Append(ClosingWrites(b, c, setup), WriteClosedBlock(b, c))
    PROVE  /\ q \in Seq(Writes)
           /\ Closing(q, b)
           /\ \A i \in 1..Len(q) : q[i].op \in Puts => q[i].block = b /\ q[i].as = c
<1>0. PICK setup \in BOOLEAN : q = Append(ClosingWrites(b, c, setup), WriteClosedBlock(b, c))
  OBVIOUS
<1>1. PICK s \in Seq(TxWrites) : s = ClosingWrites(b, c, setup)
  BY ClosingWritesType
<1> DEFINE w == WriteClosedBlock(b, c)
           n == Len(s)
<1>2. s \in Seq(Writes) /\ w \in Writes
  BY PutsAreWrites, SeqMonotonic DEF TxWrites
<1>3. n \in Nat /\ \A i \in 1..n : s[i].op = "WriteClosedTx"
  BY LenProperties, ElementOfSeq DEF TxWrites
<1>4. w.op = "WriteClosedBlock" /\ w.block = b /\ w.as = c
  BY DEF WriteClosedBlock
<1>5. q = Append(s, w)
  BY <1>0, <1>1
<1> HIDE DEF w, n
<1>6. q \in Seq(Writes) /\ Len(q) = Len(s) + 1
      /\ (\A i \in 1..Len(s) : q[i] = s[i]) /\ q[Len(s) + 1] = w
  BY <1>2, <1>5, AppendProperties
<1>7. Len(q) = n + 1 /\ q[n + 1] = w /\ \A i \in 1..n : q[i].op = "WriteClosedTx"
  BY <1>3, <1>6 DEF n
<1>8. q # <<>> /\ Len(q) - 1 = n
  BY <1>3, <1>6, <1>7, EmptySeq
<1>9. Closing(q, b)
  BY <1>4, <1>7, <1>8 DEF Closing
<1>10. \A i \in 1..Len(q) : i \in 1..n \/ i = n + 1
  BY <1>7, <1>3
<1>11. \A i \in 1..Len(q) : q[i].op \in Puts => q[i].block = b /\ q[i].as = c
  BY <1>10, <1>7, <1>4 DEF Puts
<1> QED
  BY <1>6, <1>9, <1>11

----------------------------------------------------------------------------
(* A new block on top of the chain.                                        *)

\* The block gets the next number.
LEMMA ExtendMade ==
    ASSUME Types, MadeInv, NextBlock # {}, NEW c \in Block, c.prev = tip,
           c.height = made[tip].height + 1, NEW b, b = Min(NextBlock),
           made' = [made EXCEPT ![b] = c]
    PROVE  /\ made' \in Bucket
           /\ b \in Blocks \ {0} /\ made[b] = None /\ made'[b] = c
           /\ \A x \in Blocks : made[x] # None => made'[x] = made[x] /\ x # b /\ x < b /\ made[x].prev # b
           /\ \A x \in Blocks : x # b => made'[x] = made[x]
           /\ \A x \in Blocks : x < b => made[x] # None
<1>1. /\ b \in Blocks \ {0} /\ made[b] = None
      /\ \A x \in Blocks : made[x] # None => x < b
      /\ \A x \in Blocks : x < b => made[x] # None
  BY NextBlockIsNext
<1>2. made \in Bucket
  BY DEF Types
<1>3. made' \in Bucket /\ made'[b] = c /\ \A x \in Blocks : x # b => made'[x] = made[x]
  BY <1>1, <1>2 DEF Bucket
<1>4. ASSUME NEW x \in Blocks, made[x] # None PROVE made[x].prev # b
  BY <1>4, <1>1, MadeFacts
<1> QED
  BY <1>1, <1>3, <1>4

LEMMA ValidateKeeps ==
    ASSUME IInv, task = "idle", NextBlock # {}, NEW c \in Block, c.prev = tip,
           c.height = made[tip].height + 1, validate(Min(NextBlock), c),
           env' = env, db' = db, walk' = walk, prepared' \in {prepared, None}
    PROVE  IInv'
<1> DEFINE b == Min(NextBlock)
<1>0. Types /\ MadeInv /\ DbInv /\ TodoInv
  BY DEF IInv, Ground
<1>1. /\ made' = [made EXCEPT ![b] = c]
      /\ task' = "postValidate" /\ cur' = b /\ tip' = b
      /\ todo' = Append(ClosingWrites(b, c, FALSE), WriteClosedBlock(b, c))
  BY DEF validate, postValidate
<1>2. "pool" \in DOMAIN mem' /\ mem'.pool = mem.pool
  <2>1. mem' = [mem EXCEPT
           !.applied = Bump(mem.applied, c.funds \cup (Fresh \cap UNION {env.members[a] : a \in c.aggs}), 1),
           !.rewards = Bump(mem.rewards, {b}, 1)]
    BY DEF validate
  <2>2. "pool" \in DOMAIN mem
    BY <1>0 DEF Types
  <2> QED
    BY <2>1, <2>2, MemFrame
<1>3. /\ made' \in Bucket
      /\ b \in Blocks \ {0} /\ made[b] = None /\ made'[b] = c
      /\ \A x \in Blocks : made[x] # None => made'[x] = made[x] /\ x # b /\ x < b /\ made[x].prev # b
      /\ \A x \in Blocks : x # b => made'[x] = made[x]
      /\ \A x \in Blocks : x < b => made[x] # None
  BY <1>0, <1>1, ExtendMade
<1> HIDE DEF b
<1>4. /\ todo' \in Seq(Writes)
      /\ Closing(todo', b)
      /\ \A i \in 1..Len(todo') : todo'[i].op \in Puts => todo'[i].block = b /\ todo'[i].as = c
  <2>1. b \in Blocks /\ Types
    BY <1>0, <1>3
  <2>2. \E setup \in BOOLEAN : todo' = Append(ClosingWrites(b, c, setup), WriteClosedBlock(b, c))
    BY <1>1
  <2>3. \A q : (\E setup \in BOOLEAN : q = Append(ClosingWrites(b, c, setup), WriteClosedBlock(b, c))) =>
          /\ q \in Seq(Writes)
          /\ Closing(q, b)
          /\ \A i \in 1..Len(q) : q[i].op \in Puts => q[i].block = b /\ q[i].as = c
    BY <2>1, PostValidateTodo
  <2> QED
    BY <2>2, <2>3
<1>5. /\ Stored \subseteq Blocks /\ \A x \in Stored : x \in Blocks /\ made[x] # None
  BY <1>0, StoredFacts
<1>6. Stored' = Stored /\ (bootstrap' <=> bootstrap) /\ (Untorn' <=> Untorn) /\ (Sound' <=> Sound)
  BY EnvFrame DEF Stored
<1>7. \A x \in Stored : x \in Blocks /\ made'[x] = made[x] /\ x # b
  BY <1>3, <1>5
<1>8. b \notin Stored /\ tip # b /\ tip < b /\ tip \in Blocks /\ made'[tip] = made[tip] /\ made[tip] # None
  BY <1>0, <1>3, <1>7, MadeFacts
<1>9. Types'
  <2>1. task' \in Tasks /\ tip' \in Blocks /\ cur' \in Blocks \cup {None}
    BY <1>1, <1>3 DEF Tasks
  <2>2. prepared' \in Block \cup {None}
    BY <1>0 DEF Types
  <2> QED
    BY <1>0, <1>2, <1>3, <1>4, <2>1, <2>2 DEF Types
<1>10. MadeInv'
  <2>1. made'[0] = Genesis
    <3>1. made[0] = Genesis /\ made[0] # None /\ 0 \in Blocks
      BY <1>0, MadeFacts, FiniteParts
    <3> QED
      BY <3>1, <1>3
  <2>2. made'[tip'] # None
    BY <1>1, <1>3, FiniteParts
  <2>3. \A x \in Blocks : made'[x] # None => \A a \in Blocks : a < x => made'[a] # None
    <3>1. ASSUME NEW x \in Blocks, made'[x] # None, NEW a \in Blocks, a < x PROVE made'[a] # None
      <4>1. x = b \/ made[x] # None
        BY <3>1, <1>3
      <4>2. made[a] # None
        BY <4>1, <3>1, <1>3, <1>0 DEF MadeInv
      <4> QED
        BY <4>2, <1>3
    <3> QED
      BY <3>1
  <2>4. \A x \in Blocks : made'[x] # None /\ x # 0 =>
          made'[x].prev < x /\ made'[x].height = made'[made'[x].prev].height + 1
    <3>1. ASSUME NEW x \in Blocks, made'[x] # None, x # 0
          PROVE  made'[x].prev < x /\ made'[x].height = made'[made'[x].prev].height + 1
      <4>1. CASE x = b
        BY <4>1, <1>3, <1>8
      <4>2. CASE x # b
        <5>1. made[x] # None /\ made'[x] = made[x]
          BY <3>1, <4>2, <1>3
        <5>2. /\ made[x].prev < x /\ made[x].height = made[made[x].prev].height + 1
              /\ made[x].prev \in Blocks /\ made[made[x].prev] # None
          BY <5>1, <3>1, <1>0, MadeFacts
        <5> QED
          BY <5>1, <5>2, <1>3
      <4> QED
        BY <4>1, <4>2
    <3> QED
      BY <3>1
  <2>5. \A x \in 1..Len(env'.peer) : made'[x] = env'.peer[x]
    <3>1. env \in Environments /\ env \in Environment
      BY <1>0, RecoveryAssumption DEF Types
    <3>2. env.peer \in Seq(Block) /\ Len(env.peer) <= MaxBlocks /\ Len(env.peer) \in Nat
      BY <3>1, RecoveryAssumption DEF Environment
    <3>3. ASSUME NEW x \in 1..Len(env.peer) PROVE made'[x] = env.peer[x]
      <4>1. x \in Blocks /\ env.peer[x] \in Block
        BY <3>2, FiniteParts DEF Blocks
      <4>2. made[x] = env.peer[x]
        BY <1>0 DEF MadeInv
      <4>3. made[x] # None
        BY <4>1, <4>2, FiniteParts
      <4> QED
        BY <4>1, <4>2, <4>3, <1>3
    <3> QED
      BY <3>3
  <2>6. prepared' # None =>
          made'[prepared'.prev] # None /\ prepared'.height = made'[prepared'.prev].height + 1
    <3>1. SUFFICES ASSUME prepared' # None
                   PROVE  made'[prepared'.prev] # None /\ prepared'.height = made'[prepared'.prev].height + 1
      OBVIOUS
    <3>2. prepared' = prepared
      BY <3>1
    <3>3. prepared \in Block /\ made[prepared.prev] # None /\ prepared.height = made[prepared.prev].height + 1
      BY <3>1, <3>2, <1>0 DEF Types, MadeInv
    <3>4. prepared.prev \in Blocks
      BY <3>3 DEF Block
    <3> QED
      BY <3>2, <3>3, <3>4, <1>3
  <2> QED
    BY <2>1, <2>2, <2>3, <2>4, <2>5, <2>6 DEF MadeInv
<1>11. DbInv'
  <2>1. \A x \in Blocks : Same(made, x, db.closed[x]) => Same(made', x, db.closed[x])
    BY <1>3 DEF Same
  <2>2. \A x \in Blocks : Same(made, x, db.without[x]) => Same(made', x, db.without[x])
    BY <1>3 DEF Same
  <2>3. Same(made', b, c)
    BY <1>3, FiniteParts DEF Same
  <2> QED
    BY <1>0, <1>4, <2>1, <2>2, <2>3 DEF DbInv
<1>12. TodoInv'
  BY <1>1, <1>4 DEF TodoInv
<1>13. WalkInv'
  <2>0. WalkInv
    BY DEF IInv
  <2>1. walk.list = <<>>
    BY <2>0 DEF WalkInv
  <2>2. walk'.list = <<>> /\ Len(walk'.list) = 0 /\ ToSet(walk'.list) = {}
    BY <2>1 DEF ToSet
  <2>3. WalkContiguous'
    BY <2>2 DEF WalkContiguous
  <2> QED
    BY <1>1, <2>2, <2>3 DEF WalkInv
<1>14. GenesisInv'
  BY <1>1, <1>6 DEF IInv, GenesisInv
<1>15. KeptInv'
  <2>1. SUFFICES ASSUME Untorn
                 PROVE  \E A \in SUBSET Blocks :
                           /\ b \in A
                           /\ \A x \in A : made'[x] # None /\ made'[x].prev \in A
                           /\ A \subseteq Stored \cup {b}
    BY <1>1, <1>6 DEF KeptInv, Ancestral
  <2>2. PICK A \in SUBSET Blocks : tip \in A /\ Ancestral(A) /\ A \subseteq Stored
    BY <2>1 DEF IInv, KeptInv
  <2>3. \A x \in A : x \in Blocks /\ made[x] # None /\ made'[x] = made[x] /\ made[x].prev \in A
    BY <2>2, <1>7 DEF Ancestral
  <2>4. made'[b] # None /\ made'[b].prev = tip
    BY <1>3, FiniteParts
  <2>5. \A x \in A \cup {b} : made'[x] # None /\ made'[x].prev \in A \cup {b}
    BY <2>2, <2>3, <2>4
  <2>6. A \cup {b} \in SUBSET Blocks /\ b \in A \cup {b} /\ A \cup {b} \subseteq Stored \cup {b}
    BY <2>2, <1>3
  <2> QED
    BY <2>5, <2>6
<1>16. StoreInv'
  BY <1>6, <1>7 DEF IInv, StoreInv
<1>17. BranchInv'
  <2>1. SUFFICES ASSUME Untorn, bootstrap, env.rollback PROVE BranchInv'
    BY <1>6 DEF BranchInv
  <2>2. todo = <<>>
    BY <1>0 DEF TodoInv
  <2>3. /\ \A x \in Blocks : ~ (db.closed[x] # None /\ db.without[x] # None)
        /\ \A x, y \in Stored : x # y /\ made[x].prev = made[y].prev => made[x].prev = 0
        /\ tip # 0 => \A x \in Stored : made[x].prev # tip
    BY <2>1, <2>2 DEF IInv, BranchInv, Working
  <2>4. \A x, y \in Stored : x # y /\ made'[x].prev = made'[y].prev => made'[x].prev = 0
    BY <2>3, <1>7
  <2>5. \A x \in Stored : made'[x].prev # b
    BY <1>3, <1>5, <1>7
  <2>6. made'[b].prev = 0 \/ \A y \in Stored : y # b => made'[y].prev # made'[b].prev
    BY <2>3, <1>3, <1>7
  <2> QED
    BY <1>1, <1>6, <1>8, <2>3, <2>4, <2>5, <2>6 DEF BranchInv
<1>18. SoundInv'
  <2>1. SUFFICES ASSUME Sound, bootstrap PROVE SoundInv'
    BY <1>6 DEF SoundInv
  <2>2. /\ todo = <<>>
        /\ \A x, y \in Stored : made[x].height = made[y].height => x = y
        /\ \A x \in Stored : made[x].height <= made[tip].height
        /\ db.last # {}
    BY <2>1, <1>0 DEF IInv, SoundInv, TodoInv
  <2>3. made'[b].height = made[tip].height + 1 /\ made[tip].height \in Nat
    BY <1>0, <1>3, MadeFacts
  <2>4. \A x \in Stored : made'[x].height < made'[b].height /\ made'[x].height <= made'[b].height
    <3>1. \A x \in Stored : made[x].height \in Nat
      BY <1>0, <1>5, MadeFacts
    <3> QED
      BY <3>1, <2>2, <2>3, <1>7
  <2>5. \A x, y \in Stored : made'[x].height = made'[y].height => x = y
    BY <2>2, <1>7
  <2>6. db' = db
    OBVIOUS
  <2> QED
    BY <1>1, <1>6, <2>2, <2>4, <2>5, <2>6 DEF SoundInv
<1> QED
  BY <1>9, <1>10, <1>11, <1>12, <1>13, <1>14, <1>15, <1>16, <1>17, <1>18 DEF IInv, Ground

LEMMA ReceiveKeeps ==
    ASSUME IInv, Receive
    PROVE  IInv'
<1>1. PICK c \in Candidates : Acceptable(c) /\ validate(Min(NextBlock), c)
  BY DEF Receive
<1>2. c \in Block /\ c.prev = tip /\ c.height = made[tip].height + 1
  BY CandidatesType DEF IInv, Ground
<1>3. task = "idle" /\ NextBlock # {} /\ env' = env /\ db' = db /\ walk' = walk /\ prepared' \in {prepared, None}
  BY DEF Receive
<1> QED
  BY <1>1, <1>2, <1>3, ValidateKeeps

----------------------------------------------------------------------------
(* Preparing a block.                                                      *)

\* Writes of transactions only.
LEMMA TxWritesFacts ==
    ASSUME NEW q \in Seq(TxWrites)
    PROVE  q \in Seq(Writes) /\ \A i \in 1..Len(q) : q[i].op = "WriteClosedTx" /\ q[i].op \notin Puts
<1>1. q \in Seq(Writes)
  BY SeqMonotonic DEF TxWrites
<1> QED
  BY <1>1, ElementOfSeq DEF TxWrites, Puts

LEMMA QuietKeeps ==
    ASSUME IInv, task = "idle", env' = env, db' = db, mem' = mem, tip' = tip, cur' = cur,
           walk' = walk, made' = made, todo' \in Seq(TxWrites),
           task' = IF todo' = <<>> THEN "idle" ELSE "prepare",
           prepared' \in Block \cup {None},
           prepared' # None =>
              made[prepared'.prev] # None /\ prepared'.height = made[prepared'.prev].height + 1
    PROVE  IInv'
<1>0. Types /\ MadeInv /\ DbInv /\ TodoInv
  BY DEF IInv, Ground
<1>1. todo' \in Seq(Writes) /\ \A i \in 1..Len(todo') : todo'[i].op = "WriteClosedTx" /\ todo'[i].op \notin Puts
  BY TxWritesFacts
<1>2. todo = <<>> /\ Stored' = Stored
  BY <1>0 DEF TodoInv, Stored
<1>3. (bootstrap' <=> bootstrap) /\ (Untorn' <=> Untorn) /\ (Sound' <=> Sound)
  BY EnvFrame
<1>4. task' \in {"idle", "prepare"} /\ (task' = "idle" => todo' = <<>>) /\ (task' = "prepare" => todo' # <<>>)
  OBVIOUS
<1>5. Types'
  <2>1. task' \in Tasks
    BY <1>4 DEF Tasks
  <2> QED
    BY <1>0, <1>1, <2>1 DEF Types
<1>6. MadeInv'
  BY <1>0 DEF MadeInv
<1>7. DbInv'
  BY <1>0, <1>1 DEF DbInv
<1>8. TodoInv'
  BY <1>1, <1>4 DEF TodoInv
<1>9. WalkInv'
  <2>0. WalkInv
    BY DEF IInv
  <2>1. walk.list = <<>>
    BY <2>0 DEF WalkInv
  <2>2. walk'.list = <<>> /\ Len(walk'.list) = 0 /\ ToSet(walk'.list) = {}
    BY <2>1 DEF ToSet
  <2>3. WalkContiguous'
    BY <2>2 DEF WalkContiguous
  <2> QED
    BY <1>4, <2>2, <2>3 DEF WalkInv
<1>10. GenesisInv'
  BY <1>2, <1>3 DEF IInv, GenesisInv
<1>11. KeptInv'
  <2>1. SUFFICES ASSUME Untorn
                 PROVE  \E A \in SUBSET Blocks : tip \in A /\ Ancestral(A) /\ A \subseteq Stored
    BY <1>2, <1>3, <1>4 DEF KeptInv, Ancestral
  <2> QED
    BY <2>1 DEF IInv, KeptInv
<1>12. StoreInv'
  BY <1>2, <1>3 DEF IInv, StoreInv
<1>13. BranchInv'
  <2>1. SUFFICES ASSUME Untorn, bootstrap, env.rollback PROVE BranchInv'
    BY <1>3 DEF BranchInv
  <2>2. /\ \A x \in Blocks : ~ (db.closed[x] # None /\ db.without[x] # None)
        /\ \A x, y \in Stored : x # y /\ made[x].prev = made[y].prev => made[x].prev = 0
        /\ tip # 0 => \A x \in Stored : made[x].prev # tip
    BY <2>1, <1>2 DEF IInv, BranchInv, Working
  <2> QED
    BY <1>2, <1>4, <2>2 DEF BranchInv
<1>14. SoundInv'
  <2>1. SUFFICES ASSUME Sound, bootstrap PROVE SoundInv'
    BY <1>3 DEF SoundInv
  <2>2. /\ \A x, y \in Stored : made[x].height = made[y].height => x = y
        /\ \A x \in Stored : made[x].height <= made[tip].height
        /\ tip \in Stored \/ (Stored = {} /\ tip = 0)
        /\ db.last # {}
    BY <2>1, <1>2 DEF IInv, SoundInv
  <2> QED
    BY <1>2, <1>4, <2>2 DEF SoundInv
<1> QED
  BY <1>5, <1>6, <1>7, <1>8, <1>9, <1>10, <1>11, <1>12, <1>13, <1>14 DEF IInv, Ground

LEMMA PrepareKeeps ==
    ASSUME IInv, prepareBlock
    PROVE  IInv'
<1>0. Types /\ MadeInv
  BY DEF IInv, Ground
<1> DEFINE T(c) == (UNION {env.members[a] : a \in c.aggs}) \cap Historic
<1>1. PICK c \in Candidates :
         /\ prepared' = c
         /\ todo' = [i \in 1..Len(SetToSeq(T(c))) |->
                       WriteClosedTx(SetToSeq(T(c))[i], [db.tx[SetToSeq(T(c))[i]] EXCEPT !.aggregated = TRUE])]
  BY DEF prepareBlock
<1> DEFINE S == T(c)
<1>2. S \in SUBSET Txs
  <2>1. Historic \subseteq Txs
    BY DEF Historic
  <2>2. \A t \in T(c) : t \in Historic
    OBVIOUS
  <2> HIDE DEF T
  <2> QED
    BY <2>1, <2>2
<1> HIDE DEF T
<1>3. todo' = [i \in 1..Len(SetToSeq(S)) |->
                 WriteClosedTx(SetToSeq(S)[i], [db.tx[SetToSeq(S)[i]] EXCEPT !.aggregated = TRUE])]
  BY <1>1
<1> HIDE DEF S
<1>4. todo' \in Seq(TxWrites)
  BY <1>0, <1>2, <1>3, TakenWritesType
<1>5. c \in Block /\ c.prev = tip /\ c.height = made[tip].height + 1
  BY <1>0, CandidatesType
<1>6. made[c.prev] # None /\ c.height = made[c.prev].height + 1
  BY <1>0, <1>5 DEF MadeInv
<1>7. /\ task = "idle" /\ env' = env /\ db' = db /\ mem' = mem /\ tip' = tip /\ cur' = cur
      /\ walk' = walk /\ made' = made /\ task' = IF todo' = <<>> THEN "idle" ELSE "prepare"
  BY DEF prepareBlock
<1>8. prepared' \in Block \cup {None} /\ (prepared' # None =>
              made[prepared'.prev] # None /\ prepared'.height = made[prepared'.prev].height + 1)
  BY <1>1, <1>5, <1>6
<1> QED
  BY <1>4, <1>7, <1>8, QuietKeeps

LEMMA MineKeeps ==
    ASSUME IInv, Mine
    PROVE  IInv'
<1>0. Types /\ MadeInv /\ TodoInv
  BY DEF IInv, Ground
<1>1. task = "idle" /\ prepared # None /\ NextBlock # {} /\ prepared' = None
      /\ env' = env /\ db' = db /\ walk' = walk
  BY DEF Mine
<1>2. CASE Acceptable(prepared)
  <2>1. validate(Min(NextBlock), prepared)
    BY <1>2 DEF Mine
  <2>2. prepared \in Block /\ prepared.prev = tip /\ prepared.height = made[tip].height + 1
    BY <1>0, <1>1, <1>2 DEF Types, MadeInv, Acceptable
  <2> QED
    BY <1>1, <2>1, <2>2, ValidateKeeps
<1>3. CASE ~ Acceptable(prepared)
  <2>1. mem' = mem /\ made' = made /\ task' = task /\ todo' = todo /\ cur' = cur /\ tip' = tip
    BY <1>3 DEF Mine
  <2>2. todo = <<>> /\ todo' \in Seq(TxWrites) /\ task' = IF todo' = <<>> THEN "idle" ELSE "prepare"
    BY <1>0, <1>1, <2>1 DEF TodoInv
  <2> QED
    BY <1>1, <2>1, <2>2, QuietKeeps
<1> QED
  BY <1>2, <1>3

----------------------------------------------------------------------------
(* Rolling a block back.                                                   *)

LEMMA RollbackKeeps ==
    ASSUME IInv, rollback
    PROVE  IInv'
<1> DEFINE c == db.closed[tip]
<1>0. Types /\ MadeInv /\ DbInv /\ TodoInv
  BY DEF IInv, Ground
<1>1. /\ task = "idle" /\ env.rollback /\ tip # 0 /\ c # None
      /\ todo' = RollbackWrites
      /\ task' = "postValidateRollback" /\ cur' = tip /\ tip' = c.prev
      /\ env' = env /\ db' = db /\ prepared' = prepared /\ walk' = walk /\ made' = made
  BY DEF rollback, RollbackWrites
<1>2. "pool" \in DOMAIN mem' /\ mem'.pool \in [Txs -> TxRec]
  <2> DEFINE held == UNION {env.members[a] : a \in c.aggs}
             own == {m \in held : db.tx[m].closed /\ db.tx[m].block = tip}
             gone == c.funds \cup own \cup c.aggs
             pool == [t \in Txs |-> IF t \in gone THEN [db.tx[t] EXCEPT !.closed = FALSE] ELSE mem.pool[t]]
  <2>1. mem' = [mem EXCEPT !.applied = Bump(mem.applied, c.funds \cup (own \cap Payments), -1),
                           !.rewards = Bump(mem.rewards, {tip}, -1), !.pool = pool]
    BY DEF rollback
  <2>2. "pool" \in DOMAIN mem /\ mem.pool \in [Txs -> TxRec] /\ db.tx \in [Txs -> TxRec]
    BY <1>0 DEF Types, Database
  <2> HIDE DEF gone
  <2>3. ASSUME NEW t \in Txs PROVE pool[t] \in TxRec
    <3> DEFINE r == db.tx[t]
    <3>1. r \in TxRec
      BY <2>2
    <3> HIDE DEF r
    <3>2. [r EXCEPT !.closed = FALSE] \in TxRec
      BY <3>1, TxRecUpdate
    <3> QED
      BY <2>2, <3>2 DEF r
  <2>4. pool \in [Txs -> TxRec]
    BY <2>3
  <2> HIDE DEF pool, own
  <2> QED
    BY <2>1, <2>2, <2>4, MemPool
<1>3. /\ Faithful(db, made) /\ Stored \subseteq Blocks
      /\ \A x \in Stored : x \in Blocks /\ made[x] # None
      /\ \A x \in Blocks : x \in Stored <=> db.closed[x] # None \/ db.without[x] # None
  BY <1>0, StoredFacts
<1>4. tip \in Blocks /\ tip \in Stored /\ made[tip] # None /\ c.prev = made[tip].prev
  BY <1>0, <1>1, <1>3, MadeFacts DEF Faithful, Same
<1>5. /\ made[tip].prev \in Blocks /\ made[tip].prev # tip /\ made[tip].prev < tip
      /\ made[made[tip].prev] # None /\ made[tip].height = made[made[tip].prev].height + 1
      /\ made[made[tip].prev].height \in Nat
  BY <1>0, <1>1, <1>4, MadeFacts
<1>6. tip' = made[tip].prev
  BY <1>1, <1>4
<1> HIDE DEF c
<1>7. /\ todo' \in Seq(Writes)
      /\ Reopening(todo', db, tip)
      /\ \A i \in 1..Len(todo') : todo'[i].op \in Puts => Same(made, todo'[i].block, todo'[i].as)
      /\ Len(todo') >= 3 /\ todo'[Len(todo') - 2].op = "DeleteClosedBlock"
  BY <1>0, <1>1, <1>3, RollbackWritesType DEF c
<1>8. Stored' = Stored /\ (bootstrap' <=> bootstrap) /\ (Untorn' <=> Untorn) /\ (Sound' <=> Sound)
  BY <1>1, EnvFrame DEF Stored
<1>9. Types'
  <2>1. task' \in Tasks /\ tip' \in Blocks /\ cur' \in Blocks \cup {None}
    BY <1>1, <1>4, <1>5, <1>6 DEF Tasks
  <2> QED
    BY <1>0, <1>1, <1>2, <1>7, <2>1 DEF Types
<1>10. MadeInv'
  BY <1>0, <1>1, <1>5, <1>6 DEF MadeInv
<1>11. DbInv'
  BY <1>0, <1>1, <1>7 DEF DbInv
<1>12. TodoInv'
  BY <1>1, <1>4, <1>6, <1>7 DEF TodoInv
<1>13. WalkInv'
  <2>0. WalkInv
    BY DEF IInv
  <2>1. walk.list = <<>>
    BY <1>1, <2>0 DEF WalkInv
  <2>2. walk'.list = <<>> /\ Len(walk'.list) = 0 /\ ToSet(walk'.list) = {}
    BY <1>1, <2>1 DEF ToSet
  <2>3. WalkContiguous'
    BY <2>2 DEF WalkContiguous
  <2> QED
    BY <1>1, <2>2, <2>3 DEF WalkInv
<1>14. GenesisInv'
  BY <1>1, <1>8 DEF IInv, GenesisInv
<1>15. KeptInv'
  <2>1. SUFFICES ASSUME Untorn
                 PROVE  \E A \in SUBSET Blocks :
                           made[tip].prev \in A /\ Ancestral(A) /\ A \subseteq Stored /\ tip \notin A
    BY <1>1, <1>6, <1>8 DEF KeptInv, Ancestral
  <2>2. PICK A \in SUBSET Blocks : tip \in A /\ Ancestral(A) /\ A \subseteq Stored
    BY <2>1, <1>1 DEF IInv, KeptInv
  <2> DEFINE B == {x \in A : x < tip}
  <2>3. tip \in Nat /\ \A x \in A : x \in Nat /\ made[x] # None /\ made[x].prev \in A
                        /\ made[x].prev \in Nat /\ made[x].prev <= x
    BY <1>0, <2>2, MadeFacts DEF Ancestral
  <2>4. \A x \in B : made[x] # None /\ made[x].prev \in B
    BY <2>3
  <2>5. made[tip].prev \in B
    BY <2>2, <2>3, <1>5
  <2>6. tip \notin B
    BY <2>3
  <2>7. B \subseteq Stored /\ B \in SUBSET Blocks
    BY <2>2
  <2> HIDE DEF B
  <2> QED
    BY <2>4, <2>5, <2>6, <2>7 DEF Ancestral
<1>16. StoreInv'
  BY <1>1, <1>8 DEF IInv, StoreInv
<1>17. BranchInv'
  <2>1. SUFFICES ASSUME Untorn, bootstrap, env.rollback PROVE BranchInv'
    BY <1>1, <1>8 DEF BranchInv
  <2>2. todo = <<>>
    BY <1>0, <1>1 DEF TodoInv
  <2>3. /\ \A x \in Blocks : ~ (db.closed[x] # None /\ db.without[x] # None)
        /\ \A x, y \in Stored : x # y /\ made[x].prev = made[y].prev => made[x].prev = 0
        /\ \A x \in Stored : made[x].prev # tip
    BY <1>1, <2>1, <2>2 DEF IInv, BranchInv, Working
  <2>4. db.without[tip] = None
    BY <2>3, <1>1, <1>4 DEF c
  <2>5. tip' # 0 => \A x \in Stored : made[x].prev = tip' => x = tip
    BY <2>3, <1>4, <1>6
  <2> QED
    BY <1>1, <1>7, <1>8, <2>3, <2>4, <2>5 DEF BranchInv
<1>18. SoundInv'
  <2>1. SUFFICES ASSUME Sound, bootstrap PROVE SoundInv'
    BY <1>1, <1>8 DEF SoundInv
  <2>2. Untorn /\ todo = <<>>
    BY <2>1, <1>0, <1>1, SoundUntorn DEF TodoInv
  <2>3. /\ \A x, y \in Stored : made[x].height = made[y].height => x = y
        /\ \A x \in Stored : made[x].height <= made[tip].height
        /\ db.last # {}
    BY <1>1, <2>1, <2>2 DEF IInv, SoundInv
  <2>4. made[tip].prev \in Stored
    BY <2>1, <2>2, <1>4 DEF IInv, StoreInv
  <2>5. ASSUME NEW x \in Stored PROVE made[x].height <= made[tip'].height \/ x = tip
    <3>1. made[x].height \in Nat
      BY <1>0, <1>3, MadeFacts
    <3> QED
      BY <3>1, <2>3, <1>4, <1>5, <1>6
  <2> QED
    BY <1>1, <1>6, <1>8, <2>3, <2>4, <2>5 DEF SoundInv
<1> QED
  BY <1>9, <1>10, <1>11, <1>12, <1>13, <1>14, <1>15, <1>16, <1>17, <1>18 DEF IInv, Ground

----------------------------------------------------------------------------
(* Start-up of the bootstrap miner.                                        *)

\* There is nothing to read only if nothing is stored or there is no last block.
LEMMA NothingRead ==
    ASSUME Types, ReadAllClosedBlocks(db) = {}
    PROVE  db.last = {} \/ Stored = {}
<1>1. db \in Database
  BY DEF Types
<1> QED
  BY <1>1, ReadCovers DEF Stored

LEMMA TipFound ==
    ASSUME Types, MadeInv, DbInv, ReadAllClosedBlocks(db) # {}
    PROVE  LET t == Highest(ReadAllClosedBlocks(db)).id
           IN  t \in Stored /\ db.last # {} /\ \A x \in Stored : made[x].height <= made[t].height
<1> DEFINE R == ReadAllClosedBlocks(db)
           t == Highest(R).id
<1>1. Faithful(db, made) /\ db \in Database
  BY StoredFacts DEF Types
<1>2. Highest(R) \in R /\ \A y \in R : made[y.id].height <= made[t].height
  BY <1>1, HighestExists
<1>3. t \in Stored /\ db.last # {}
  BY <1>1, <1>2, ReadFacts DEF Stored
<1>4. ASSUME NEW x \in Stored PROVE made[x].height <= made[t].height
  <2>1. PICK y \in R : y.id = x
    BY <1>1, <1>3, ReadCovers DEF Stored
  <2> QED
    BY <2>1, <1>2
<1> QED
  BY <1>3, <1>4

\* The step, in one of three ways.
LEMMA InitStateCases ==
    ASSUME initState
    PROVE  /\ task = "down" /\ bootstrap
           /\ env' = env /\ db' = db /\ cur' = cur /\ prepared' = prepared /\ walk' = walk /\ made' = made
           /\ \/ /\ ReadAllClosedBlocks(db) = {}
                 /\ todo' = <<WriteLastClosedBlock(0), WriteClosedBlock(0, Genesis)>>
                 /\ task' = "genesis" /\ tip' = 0 /\ mem' = mem
              \/ /\ ReadAllClosedBlocks(db) # {}
                 /\ task' = "idle" /\ tip' = Highest(ReadAllClosedBlocks(db)).id /\ todo' = todo
                 /\ \E x, y : mem' = [mem EXCEPT !.applied = x, !.rewards = y]
              \/ task' = "failed" /\ mem' = mem /\ todo' = todo /\ tip' = tip
BY DEF initState

LEMMA InitStateResumes ==
    ASSUME IInv, initState, Sound, task' \in {"idle", "genesis"}
    PROVE  tip' = tip
<1> DEFINE R == ReadAllClosedBlocks(db)
<1>0. Types /\ MadeInv /\ DbInv /\ todo = <<>> /\ task = "down" /\ bootstrap
  BY InitStateCases DEF IInv, Ground, TodoInv
<1>1. /\ \A x, y \in Stored : made[x].height = made[y].height => x = y
      /\ \A x \in Stored : made[x].height <= made[tip].height
      /\ tip \in Stored \/ (Stored = {} /\ tip = 0)
      /\ db.last = {} => Stored = {} /\ tip = 0
  BY <1>0 DEF IInv, SoundInv
<1>2. CASE task' = "genesis"
  <2>1. R = {} /\ tip' = 0
    BY <1>2, InitStateCases
  <2> QED
    BY <2>1, <1>0, <1>1, NothingRead
<1>3. CASE task' = "idle"
  <2>1. R # {} /\ tip' = Highest(R).id
    BY <1>3, InitStateCases
  <2>2. tip' \in Stored /\ \A x \in Stored : made[x].height <= made[tip'].height
    BY <1>0, <2>1, TipFound
  <2>3. tip \in Stored /\ made[tip].height \in Nat /\ made[tip'].height \in Nat
    BY <1>0, <1>1, <2>2, StoredFacts, MadeFacts
  <2>4. made[tip].height <= made[tip'].height /\ made[tip'].height <= made[tip].height
    BY <1>1, <2>2, <2>3
  <2>5. made[tip].height = made[tip'].height
    BY <2>3, <2>4
  <2> QED
    BY <2>2, <2>3, <2>5, <1>1
<1> QED
  BY <1>2, <1>3

LEMMA InitStateKeeps ==
    ASSUME IInv, initState
    PROVE  IInv'
<1> DEFINE R == ReadAllClosedBlocks(db)
<1>0. Types /\ MadeInv /\ DbInv /\ TodoInv /\ todo = <<>> /\ task = "down" /\ bootstrap
  BY InitStateCases DEF IInv, Ground, TodoInv
<1>1. /\ env' = env /\ db' = db /\ cur' = cur /\ prepared' = prepared /\ walk' = walk /\ made' = made
      /\ task' \in {"genesis", "idle", "failed"}
  BY InitStateCases
<1>2. Stored' = Stored /\ bootstrap' /\ (Untorn' <=> Untorn) /\ (Sound' <=> Sound)
  BY <1>0, <1>1, EnvFrame DEF Stored
<1>3. "pool" \in DOMAIN mem' /\ mem'.pool = mem.pool
  <2>1. "pool" \in DOMAIN mem
    BY <1>0 DEF Types
  <2>2. mem' = mem \/ \E x, y : mem' = [mem EXCEPT !.applied = x, !.rewards = y]
    BY InitStateCases
  <2> QED
    BY <2>1, <2>2, MemFrame
<1>4. task' = "genesis" => R = {} /\ tip' = 0
        /\ todo' = <<WriteLastClosedBlock(0), WriteClosedBlock(0, Genesis)>>
  BY InitStateCases
<1>5. task' = "idle" => /\ todo' = <<>> /\ tip' \in Stored /\ db.last # {}
                        /\ \A x \in Stored : made[x].height <= made[tip'].height
  BY <1>0, InitStateCases, TipFound
<1>6. task' = "failed" => todo' = <<>> /\ tip' = tip
  BY <1>0, InitStateCases
<1>7. \A x \in Stored : x \in Blocks /\ made[x] # None
  BY <1>0, StoredFacts
<1>8. 0 \in Blocks /\ made[0] = Genesis /\ made[0] # None /\ made[0].prev = 0 /\ Genesis \in Block
      /\ tip \in Blocks /\ made[tip] # None
  BY <1>0, MadeFacts, FiniteParts
<1>9. tip' \in Blocks /\ made[tip'] # None
  BY <1>1, <1>4, <1>5, <1>6, <1>7, <1>8
<1>10. /\ WriteLastClosedBlock(0) \in Writes /\ WriteClosedBlock(0, Genesis) \in Writes
       /\ WriteLastClosedBlock(0).op = "WriteLastClosedBlock"
       /\ WriteClosedBlock(0, Genesis).op = "WriteClosedBlock"
       /\ WriteClosedBlock(0, Genesis).block = 0 /\ WriteClosedBlock(0, Genesis).as = Genesis
  <2>1. WriteLastClosedBlock(0) \in Writes /\ WriteClosedBlock(0, Genesis) \in Writes
    BY <1>8, PutsAreWrites, BlockOpsAreWrites
  <2> QED
    BY <2>1 DEF WriteLastClosedBlock, WriteClosedBlock
<1>11. /\ todo' \in Seq(Writes)
       /\ \A i \in 1..Len(todo') : todo'[i].op \in Puts => todo'[i].block = 0 /\ todo'[i].as = Genesis
       /\ task' = "genesis" => todo' # <<>> /\ Head(todo') = WriteLastClosedBlock(0)
  <2>1. CASE task' = "genesis"
    <3> DEFINE v == WriteLastClosedBlock(0)
               w == WriteClosedBlock(0, Genesis)
    <3>1. todo' = <<v, w>> /\ v \in Writes /\ w \in Writes /\ v.op = "WriteLastClosedBlock"
          /\ w.block = 0 /\ w.as = Genesis
      BY <2>1, <1>4, <1>10
    <3> HIDE DEF v, w
    <3>2. todo' \in Seq(Writes) /\ Len(todo') = 2 /\ todo'[1] = v /\ todo'[2] = w /\ todo' # <<>> /\ Head(todo') = v
      BY <3>1
    <3>3. \A i \in 1..2 : i = 1 \/ i = 2
      OBVIOUS
    <3> QED
      BY <3>1, <3>2, <3>3 DEF Puts, v
  <2>2. CASE task' # "genesis"
    <3>1. todo' = <<>> /\ Len(todo') = 0
      BY <2>2, <1>1, <1>5, <1>6
    <3> QED
      BY <2>2, <3>1
  <2> QED
    BY <2>1, <2>2
<1>12. Types'
  <2>1. task' \in Tasks
    BY <1>1 DEF Tasks
  <2> QED
    BY <1>0, <1>1, <1>3, <1>9, <1>11, <2>1 DEF Types
<1>13. MadeInv'
  BY <1>0, <1>1, <1>9 DEF MadeInv
<1>14. DbInv'
  <2>1. Same(made, 0, Genesis)
    BY <1>8 DEF Same
  <2> QED
    BY <1>0, <1>1, <1>11, <2>1 DEF DbInv
<1>15. TodoInv'
  BY <1>1, <1>4, <1>5, <1>6 DEF TodoInv
<1>16. WalkInv'
  <2>0. WalkInv
    BY DEF IInv
  <2>1. walk.list = <<>>
    BY <1>0, <2>0 DEF WalkInv
  <2>2. walk'.list = <<>> /\ Len(walk'.list) = 0 /\ ToSet(walk'.list) = {}
    BY <1>1, <2>1 DEF ToSet
  <2>3. WalkContiguous'
    BY <2>2 DEF WalkContiguous
  <2> QED
    BY <1>1, <1>2, <2>2, <2>3 DEF WalkInv
<1>17. GenesisInv /\ (0 \in Stored \/ (Stored = {} /\ cur = 0 /\ tip = 0))
  BY <1>0 DEF IInv, GenesisInv
<1>18. Stored = {} => task' # "idle" /\ tip' = 0
  <2>1. task' = "idle" => tip' \in Stored
    BY <1>5
  <2> QED
    BY <2>1, <1>1, <1>4, <1>6, <1>17
<1>19. Stored = {} => task' # "failed"
  <2>1. task' = "failed" => \E x \in R : TRUE
    BY DEF initState
  <2>2. \A x \in R : x.id \in Stored
    BY <1>0, ReadFacts DEF Types, Stored
  <2> QED
    BY <2>1, <2>2
<1>20. GenesisInv'
  BY <1>0, <1>1, <1>2, <1>17, <1>18, <1>19 DEF GenesisInv
<1>21. KeptInv'
  <2>1. SUFFICES ASSUME Untorn PROVE KeptInv'
    BY <1>2 DEF KeptInv
  <2>2. CASE task' = "genesis"
    <3>1. Ancestral({0}) /\ {0} \in SUBSET Blocks
      BY <1>8 DEF Ancestral
    <3>2. {0} \subseteq Stored \cup {cur}
      BY <1>17
    <3> QED
      BY <3>1, <3>2, <2>2, <1>1, <1>2, <1>4 DEF KeptInv, Ancestral
  <2>3. CASE task' = "idle"
    <3>1. Ancestral(Stored) /\ Stored \in SUBSET Blocks
      BY <2>1, <1>0, <1>7 DEF IInv, StoreInv, Ancestral
    <3> QED
      BY <3>1, <2>3, <1>1, <1>2, <1>5 DEF KeptInv, Ancestral
  <2>4. CASE task' = "failed"
    <3>1. PICK A \in SUBSET Blocks : tip \in A /\ Ancestral(A) /\ A \subseteq Stored \cup {cur}
      BY <2>1 DEF IInv, KeptInv
    <3> QED
      BY <3>1, <2>4, <1>1, <1>2, <1>6 DEF KeptInv, Ancestral
  <2> QED
    BY <2>2, <2>3, <2>4, <1>1
<1>22. StoreInv'
  BY <1>0, <1>1, <1>2 DEF IInv, StoreInv
<1>23. BranchInv'
  <2>1. SUFFICES ASSUME Untorn, env.rollback PROVE BranchInv'
    BY <1>1, <1>2 DEF BranchInv
  <2>2. /\ \A x \in Blocks : ~ (db.closed[x] # None /\ db.without[x] # None)
        /\ \A x, y \in Stored : x # y /\ made[x].prev = made[y].prev => made[x].prev = 0
    BY <1>0, <2>1 DEF IInv, BranchInv
  <2>3. ASSUME task' = "idle", tip' # 0, NEW x \in Stored PROVE made[x].prev # tip'
    <3>1. SUFFICES ASSUME made[x].prev = tip' PROVE FALSE
      OBVIOUS
    <3>2. x # 0
      BY <2>3, <3>1, <1>8
    <3>3. made[x].height = made[tip'].height + 1 /\ made[tip'].height \in Nat
      BY <3>1, <3>2, <1>0, <1>7, <1>9, MadeFacts
    <3>4. made[x].height <= made[tip'].height
      BY <1>5, <2>3
    <3> QED
      BY <3>3, <3>4
  <2> QED
    BY <1>1, <1>2, <2>2, <2>3 DEF BranchInv, Working
<1>24. SoundInv'
  <2>1. SUFFICES ASSUME Sound PROVE SoundInv'
    BY <1>2 DEF SoundInv
  <2>2. /\ \A x, y \in Stored : made[x].height = made[y].height => x = y
        /\ \A x \in Stored : made[x].height <= made[tip].height
        /\ tip \in Stored \/ (Stored = {} /\ tip = 0)
        /\ db.last = {} => Stored = {} /\ tip = 0
    BY <1>0, <2>1 DEF IInv, SoundInv
  <2>3. tip' = tip
    BY <1>1, <1>6, <2>1, InitStateResumes
  <2>4. db.last = {} => todo' # <<>> /\ Head(todo').op = "WriteLastClosedBlock"
    <3>1. SUFFICES ASSUME db.last = {} PROVE todo' # <<>> /\ Head(todo').op = "WriteLastClosedBlock"
      OBVIOUS
    <3>2. task' = "genesis"
      BY <3>1, <2>2, <1>1, <1>18, <1>19
    <3> QED
      BY <3>2, <1>10, <1>11
  <2> QED
    BY <1>1, <1>2, <2>2, <2>3, <2>4 DEF SoundInv
<1> QED
  BY <1>12, <1>13, <1>14, <1>15, <1>16, <1>20, <1>21, <1>22, <1>23, <1>24 DEF IInv, Ground

----------------------------------------------------------------------------
(* The walk along the chain of the peers.                                  *)

LEMMA AppendFacts ==
    ASSUME NEW S, NEW s \in Seq(S), NEW x \in S
    PROVE  /\ Append(s, x) \in Seq(S) /\ Append(s, x) # <<>>
           /\ Len(s) \in Nat /\ Len(Append(s, x)) = Len(s) + 1
           /\ \A i \in 1..Len(s) : Append(s, x)[i] = s[i]
           /\ Append(s, x)[Len(s) + 1] = x
           /\ Last(Append(s, x)) = x
           /\ ToSet(Append(s, x)) = ToSet(s) \cup {x}
<1> DEFINE q == Append(s, x)
           n == Len(s)
<1>1. q \in Seq(S) /\ n \in Nat /\ Len(q) = n + 1 /\ (\A i \in 1..n : q[i] = s[i]) /\ q[n + 1] = x
  BY AppendProperties, LenProperties
<1>2. DOMAIN s = 1..n /\ DOMAIN q = 1..(n + 1)
  BY <1>1, LenProperties
<1> HIDE DEF q, n
<1>3. q # <<>>
  BY <1>1, EmptySeq
<1>4. Last(q) = x
  BY <1>1 DEF Last
<1>5. ToSet(q) = ToSet(s) \cup {x}
  <2>1. \A i \in 1..(n + 1) : i \in 1..n \/ i = n + 1
    BY <1>1
  <2>2. \A i \in 1..n : i \in 1..(n + 1)
    BY <1>1
  <2>3. n + 1 \in 1..(n + 1)
    BY <1>1
  <2>4. ASSUME NEW y \in ToSet(q) PROVE y \in ToSet(s) \cup {x}
    BY <2>1, <1>1, <1>2 DEF ToSet
  <2>5. ASSUME NEW y \in ToSet(s) PROVE y \in ToSet(q)
    BY <2>2, <1>1, <1>2 DEF ToSet
  <2>6. x \in ToSet(q)
    BY <2>3, <1>1, <1>2 DEF ToSet
  <2> QED
    BY <2>4, <2>5, <2>6
<1> QED
  BY <1>1, <1>3, <1>4, <1>5 DEF q, n

\* The last element of a sequence is one of its elements.
LEMMA LastIn ==
    ASSUME NEW S, NEW s \in Seq(S), s # <<>>
    PROVE  Last(s) \in ToSet(s) /\ Last(s) \in S /\ Len(s) \in Nat \ {0}
<1>1. Len(s) \in Nat \ {0} /\ DOMAIN s = 1..Len(s)
  BY EmptySeq, LenProperties
<1>2. Len(s) \in 1..Len(s)
  BY <1>1
<1> QED
  BY <1>1, <1>2, ElementOfSeq DEF Last, ToSet

\* The blocks of the peers.
LEMMA PeerFacts ==
    ASSUME Types, MadeInv
    PROVE  /\ Len(env.peer) \in Nat /\ Len(env.peer) \in Blocks
           /\ ~ bootstrap => Len(env.peer) > 0
           /\ \A b \in 0..Len(env.peer) :
                /\ b \in Blocks /\ b \in Nat /\ made[b] \in Block /\ made[b] # None
                /\ made[b].prev = IF b = 0 THEN 0 ELSE b - 1
                /\ made[b].prev \in 0..Len(env.peer)
<1> DEFINE n == Len(env.peer)
<1>1. env \in Environments /\ env \in Environment
  BY RecoveryAssumption DEF Types
<1>2. env.peer \in Seq(Block) /\ n <= MaxBlocks /\ n \in Nat /\ MaxBlocks \in Nat
  BY <1>1, RecoveryAssumption DEF Environment
<1>3. \A i \in 1..n : made[i] = env.peer[i] /\ env.peer[i].prev = i - 1
  BY <1>1, RecoveryAssumption DEF MadeInv
<1>4. ~ bootstrap => n > 0
  BY <1>2, EmptySeq DEF bootstrap
<1>5. made[0] # None /\ made[0] \in Block /\ made[0].prev = 0
  BY MadeFacts
<1>6. ASSUME NEW b \in 0..n
      PROVE  /\ b \in Blocks /\ b \in Nat /\ made[b] \in Block /\ made[b] # None
             /\ made[b].prev = (IF b = 0 THEN 0 ELSE b - 1)
             /\ made[b].prev \in 0..n
  <2>1. b \in Blocks /\ b \in Nat
    BY <1>2 DEF Blocks
  <2>2. CASE b = 0
    BY <2>1, <2>2, <1>2, <1>5
  <2>3. CASE b # 0
    <3>1. b \in 1..n
      BY <2>1, <2>3, <1>2
    <3>2. env.peer[b] \in Block
      BY <3>1, <1>2, ElementOfSeq
    <3>3. made[b] \in Block /\ made[b] # None
      BY <3>1, <3>2, <1>3, FiniteParts
    <3>4. made[b].prev = b - 1
      BY <3>1, <1>3
    <3>5. b - 1 \in 0..n
      BY <3>1, <1>2
    <3> QED
      BY <2>1, <2>3, <3>3, <3>4, <3>5
  <2> QED
    BY <2>2, <2>3
<1>7. n \in Blocks
  BY <1>2 DEF Blocks
<1> QED
  BY <1>2, <1>4, <1>6, <1>7

\* What a step of the walk leaves alone.
LEMMA PeerStepKeeps ==
    ASSUME IInv, ~ bootstrap, task \in {"down", "walk"}, task' \in {"down", "walk"},
           env' = env, db' = db, mem' = mem, tip' = tip, cur' = cur, prepared' = prepared,
           made' = made, walk' \in Walk, todo' \in Seq(Writes),
           \A i \in 1..Len(todo') : /\ todo'[i].op \in Puts \cup {"WriteLastClosedBlock"}
                                    /\ todo'[i].op \in Puts => Same(made, todo'[i].block, todo'[i].as),
           task' = "down" => todo' = <<>>,
           WalkInv'
    PROVE  IInv'
<1>0. Types /\ MadeInv /\ DbInv
  BY DEF IInv, Ground
<1>1. ~ bootstrap' /\ (Untorn' <=> Untorn) /\ Stored' = Stored
  BY EnvFrame DEF Stored
<1>2. Types'
  <2>1. task' \in Tasks
    BY DEF Tasks
  <2> QED
    BY <1>0, <2>1 DEF Types
<1>3. MadeInv'
  BY <1>0 DEF MadeInv
<1>4. DbInv'
  BY <1>0 DEF DbInv
<1>5. TodoInv'
  BY DEF TodoInv
<1>6. KeptInv'
  <2>1. SUFFICES ASSUME Untorn
                 PROVE  \E A \in SUBSET Blocks : tip \in A /\ Ancestral(A) /\ A \subseteq Stored \cup {cur}
    BY <1>1 DEF KeptInv, Ancestral
  <2> QED
    BY <2>1 DEF IInv, KeptInv
<1>7. GenesisInv' /\ StoreInv' /\ BranchInv' /\ SoundInv'
  BY <1>1 DEF GenesisInv, StoreInv, BranchInv, SoundInv
<1> QED
  BY <1>2, <1>3, <1>4, <1>5, <1>6, <1>7 DEF IInv, Ground

\* The walk as it is between two steps.
LEMMA WalkFacts ==
    ASSUME IInv, task = "walk"
    PROVE  /\ Types /\ MadeInv /\ DbInv /\ walk \in Walk /\ ~ bootstrap
           /\ walk.list \in Seq(Blocks) /\ walk.stash \in Seq(Blocks)
           /\ Asked \in 0..Len(env.peer) /\ Asked \in Nat /\ Asked \in Blocks
           /\ walk.last # None => /\ walk.last \in 0..Len(env.peer) /\ Asked = made[walk.last].prev
                                  /\ walk.last \in ToSet(walk.stash)
                                  /\ walk.list # <<>> /\ Last(walk.list) = walk.last
           /\ walk.last = None => Asked = Len(env.peer) /\ walk.list = <<>> /\ todo = <<>>
           /\ todo = <<>> => walk.last # 0
           /\ \A i \in 1..Len(todo) :
                 /\ todo[i].op \in Puts \cup {"WriteLastClosedBlock"}
                 /\ todo[i].op \in Puts => Same(made, todo[i].block, todo[i].as)
<1>0. Types /\ MadeInv /\ DbInv /\ TodoInv /\ WalkInv
  BY DEF IInv, Ground
<1>1. walk \in Walk /\ walk.list \in Seq(Blocks) /\ walk.stash \in Seq(Blocks)
  BY <1>0 DEF Types, Walk
<1>2. ~ bootstrap
  BY <1>0 DEF WalkInv
<1>3. walk.last # None => /\ walk.last \in ToSet(walk.stash)
                          /\ walk.list # <<>> /\ Last(walk.list) = walk.last
  BY <1>0 DEF WalkInv
<1>4. ToSet(walk.stash) \subseteq 0..Len(env.peer)
  BY <1>0 DEF WalkInv
<1>5. walk.last # None => walk.last \in 0..Len(env.peer) /\ Asked = made[walk.last].prev
  BY <1>3, <1>4 DEF Asked
<1>6. walk.last = None => Asked = Len(env.peer) /\ walk.list = <<>> /\ todo = <<>>
  BY <1>0 DEF WalkInv, Asked
<1>7. Len(env.peer) \in 0..Len(env.peer)
  BY <1>0, PeerFacts
<1>8. Asked \in 0..Len(env.peer)
  BY <1>0, <1>5, <1>6, <1>7, PeerFacts
<1>9. Asked \in Nat /\ Asked \in Blocks
  BY <1>0, <1>8, PeerFacts
<1>10. todo = <<>> => walk.last # 0
  BY <1>0 DEF WalkInv
<1>11. \A i \in 1..Len(todo) :
          /\ todo[i].op \in Puts \cup {"WriteLastClosedBlock"}
          /\ todo[i].op \in Puts => Same(made, todo[i].block, todo[i].as)
  BY <1>0 DEF TodoInv, DbInv
<1> QED
  BY <1>0, <1>1, <1>2, <1>3, <1>5, <1>6, <1>8, <1>9, <1>10, <1>11

LEMMA StartWalkKeeps ==
    ASSUME IInv, StartWalk
    PROVE  IInv'
<1>0. Types /\ MadeInv /\ TodoInv /\ WalkInv
  BY DEF IInv, Ground
<1>1. /\ task = "down" /\ task' = "walk" /\ ~ bootstrap
      /\ env' = env /\ db' = db /\ mem' = mem /\ tip' = tip /\ cur' = cur
      /\ prepared' = prepared /\ made' = made /\ todo' = todo
      /\ walk' = [walk EXCEPT !.net = {Len(env.peer)}]
  BY DEF StartWalk
<1>2. todo = <<>> /\ walk \in Walk /\ walk.list = <<>> /\ walk.last = None /\ walk.chan = None
      /\ walk.stash = <<>>
  BY <1>0, <1>1 DEF Types, TodoInv, WalkInv
<1>3. Len(env.peer) \in Blocks /\ Len(env.peer) \in Nat
  BY <1>0, PeerFacts
<1>4. /\ walk' \in Walk /\ walk'.net = {Len(env.peer)} /\ walk'.last = None
      /\ walk'.list = <<>> /\ walk'.chan = None /\ walk'.stash = <<>>
  <2> DEFINE net == {Len(env.peer)}
  <2>1. net \in SUBSET Blocks
    BY <1>3
  <2>2. walk' = [walk EXCEPT !.net = net]
    BY <1>1
  <2> HIDE DEF net
  <2>3. /\ walk' \in Walk /\ walk'.net = net /\ walk'.last = walk.last
        /\ walk'.list = walk.list /\ walk'.chan = walk.chan /\ walk'.stash = walk.stash
    BY <1>2, <2>1, <2>2 DEF Walk
  <2> QED
    BY <1>2, <2>3 DEF net
<1>5. ToSet(walk'.list) = {} /\ ToSet(walk'.stash) = {} /\ Len(walk'.list) = 0
  BY <1>4 DEF ToSet
<1>6. Asked' = Len(env.peer) /\ ~ bootstrap'
  BY <1>1, <1>4 DEF Asked, bootstrap
<1>7. WalkContiguous'
  BY <1>5 DEF WalkContiguous
<1>8. None # 0
  BY FiniteParts
<1>9. WalkInv'
  <2>1. Len(env.peer) \in 0..Len(env.peer)
    BY <1>3
  <2> QED
    BY <1>1, <1>2, <1>4, <1>5, <1>6, <1>7, <1>8, <2>1 DEF WalkInv
<1>10. todo' \in Seq(Writes) /\ Len(todo') = 0
  BY <1>1, <1>2
<1> QED
  BY <1>1, <1>4, <1>9, <1>10, PeerStepKeeps

LEMMA PeerAnswersKeeps ==
    ASSUME IInv, PeerAnswers
    PROVE  IInv'
<1>0. WalkInv /\ task = "walk"
  BY DEF IInv, PeerAnswers
<1>1. PICK b \in walk.net \ ToSet(walk.stash) : walk' = [walk EXCEPT !.stash = Append(walk.stash, b), !.chan = b]
  BY DEF PeerAnswers
<1>2. /\ task' = "walk" /\ walk.chan = None
      /\ env' = env /\ db' = db /\ mem' = mem /\ tip' = tip /\ cur' = cur
      /\ prepared' = prepared /\ made' = made /\ todo' = todo
  BY <1>0 DEF PeerAnswers
<1>3. /\ Types /\ MadeInv /\ walk \in Walk /\ ~ bootstrap /\ walk.stash \in Seq(Blocks)
      /\ Asked \in 0..Len(env.peer) /\ Asked \in Nat /\ Asked \in Blocks
      /\ walk.last # None => walk.last \in ToSet(walk.stash)
  BY <1>0, WalkFacts
<1>4. b = Asked /\ b \notin ToSet(walk.stash)
  BY <1>0, <1>1 DEF WalkInv
<1> DEFINE s == Append(walk.stash, b)
<1>5. s \in Seq(Blocks) /\ ToSet(s) = ToSet(walk.stash) \cup {b} /\ s # <<>>
  BY <1>3, <1>4, AppendFacts
<1>6. walk' = [walk EXCEPT !.stash = s, !.chan = b]
  BY <1>1
<1> HIDE DEF s
<1>7. /\ walk' \in Walk /\ walk'.net = walk.net /\ walk'.last = walk.last
      /\ walk'.list = walk.list /\ walk'.chan = b /\ walk'.stash = s
  BY <1>3, <1>4, <1>5, <1>6 DEF Walk
<1>8. Asked' = Asked /\ ~ bootstrap' /\ Stored' = Stored
  BY <1>2, <1>3, <1>7 DEF Asked, bootstrap, Stored
<1>9. WalkContiguous'
  BY <1>0, <1>2, <1>7 DEF WalkInv, WalkContiguous
<1>10. b # walk.last /\ b # None
  BY <1>3, <1>4, FiniteParts
<1>11. WalkInv'
  <2>1. /\ walk.net \cup ToSet(walk.stash) \subseteq 0..Len(env.peer)
        /\ walk.net \ ToSet(walk.stash) \subseteq {Asked}
        /\ \A x \in ToSet(walk.stash) : x >= Asked
        /\ walk.last = None => walk.list = <<>> /\ todo = <<>>
        /\ walk.last # None => walk.list # <<>> /\ Last(walk.list) = walk.last
        /\ walk.last = 0 => todo # <<>>
        /\ ToSet(walk.list) \subseteq 0..Len(env.peer)
        /\ \A x \in ToSet(walk.list) :
              x \in Stored \/ (todo # <<>> /\ Head(todo).op \in Puts /\ Head(todo).block = x)
    BY <1>0 DEF WalkInv
  <2>2. walk.net \cup ToSet(s) \subseteq 0..Len(env.peer) /\ walk.net \ ToSet(s) \subseteq {Asked}
    BY <2>1, <1>3, <1>4, <1>5
  <2>3. \A x \in ToSet(s) : x >= Asked
    BY <2>1, <1>3, <1>4, <1>5
  <2>4. b \in ToSet(s)
    BY <1>5
  <2>5. walk.last # None => walk.last \in ToSet(s)
    BY <1>3, <1>5
  <2> QED
    BY <1>2, <1>4, <1>7, <1>8, <1>9, <1>10, <2>1, <2>2, <2>3, <2>4, <2>5 DEF WalkInv
<1>12. /\ todo' \in Seq(Writes)
       /\ \A i \in 1..Len(todo') : /\ todo'[i].op \in Puts \cup {"WriteLastClosedBlock"}
                                   /\ todo'[i].op \in Puts => Same(made, todo'[i].block, todo'[i].as)
  <2>1. todo \in Seq(Writes)
    BY <1>3 DEF Types
  <2> QED
    BY <1>0, <1>2, <2>1, WalkFacts
<1> QED
  BY <1>0, <1>2, <1>3, <1>7, <1>11, <1>12, PeerStepKeeps

LEMMA LoseKeeps ==
    ASSUME IInv, Lose
    PROVE  IInv'
<1>0. WalkInv /\ task = "walk"
  BY DEF IInv, Lose
<1>1. PICK b \in walk.net : walk' = [walk EXCEPT !.net = walk.net \ {b}, !.lost = walk.lost + 1]
  BY DEF Lose
<1>2. /\ task' = "walk"
      /\ env' = env /\ db' = db /\ mem' = mem /\ tip' = tip /\ cur' = cur
      /\ prepared' = prepared /\ made' = made /\ todo' = todo
  BY <1>0 DEF Lose
<1>3. Types /\ MadeInv /\ walk \in Walk /\ ~ bootstrap
  BY <1>0, WalkFacts
<1> DEFINE net == walk.net \ {b}
           k == walk.lost + 1
<1>4. net \in SUBSET Blocks /\ k \in Nat /\ net \subseteq walk.net
  BY <1>3 DEF Walk
<1>5. walk' = [walk EXCEPT !.net = net, !.lost = k]
  BY <1>1
<1> HIDE DEF net, k
<1>6. /\ walk' \in Walk /\ walk'.net = net /\ walk'.last = walk.last
      /\ walk'.list = walk.list /\ walk'.chan = walk.chan /\ walk'.stash = walk.stash
  BY <1>3, <1>4, <1>5 DEF Walk
<1>7. Asked' = Asked /\ ~ bootstrap' /\ Stored' = Stored
  BY <1>2, <1>3, <1>6 DEF Asked, bootstrap, Stored
<1>8. WalkContiguous'
  BY <1>0, <1>2, <1>6 DEF WalkInv, WalkContiguous
<1>9. WalkInv'
  BY <1>0, <1>2, <1>4, <1>6, <1>7, <1>8 DEF WalkInv
<1>10. /\ todo' \in Seq(Writes)
       /\ \A i \in 1..Len(todo') : /\ todo'[i].op \in Puts \cup {"WriteLastClosedBlock"}
                                   /\ todo'[i].op \in Puts => Same(made, todo'[i].block, todo'[i].as)
  <2>1. todo \in Seq(Writes)
    BY <1>3 DEF Types
  <2> QED
    BY <1>0, <1>2, <2>1, WalkFacts
<1> QED
  BY <1>0, <1>2, <1>3, <1>6, <1>9, <1>10, PeerStepKeeps

LEMMA GiveUpKeeps ==
    ASSUME IInv, GiveUp
    PROVE  IInv'
<1>0. WalkInv /\ task = "walk"
  BY DEF IInv, GiveUp
<1>1. /\ task' = "down" /\ walk' = walk
      /\ env' = env /\ db' = db /\ mem' = mem /\ tip' = tip /\ cur' = cur
      /\ prepared' = prepared /\ made' = made /\ todo' = todo
      /\ walk.last = None /\ walk.chan = None /\ walk.net = {}
  BY DEF GiveUp
<1>2. Types /\ MadeInv /\ walk \in Walk /\ ~ bootstrap /\ walk.list = <<>> /\ todo = <<>>
  BY <1>0, <1>1, WalkFacts
<1>3. walk.stash = <<>>
  BY <1>0, <1>1 DEF WalkInv
<1>4. ~ bootstrap' /\ Len(walk'.list) = 0 /\ ToSet(walk'.list) = {}
  BY <1>1, <1>2 DEF bootstrap, ToSet
<1>5. WalkContiguous'
  BY <1>4 DEF WalkContiguous
<1>6. WalkInv'
  BY <1>1, <1>2, <1>3, <1>4, <1>5 DEF WalkInv
<1>7. todo' = <<>> /\ todo' \in Seq(Writes) /\ Len(todo') = 0
  BY <1>1, <1>2
<1> QED
  BY <1>0, <1>1, <1>2, <1>6, <1>7, PeerStepKeeps

\* The walk goes on from a block that has arrived: the one it waits for, or the
\* one it took last.
LEMMA ContinueKeeps ==
    ASSUME IInv, task = "walk", todo = <<>>, NEW w \in Walk,
           w.last = walk.last, w.list = walk.list, w.net = walk.net, w.stash = walk.stash,
           NEW b \in ToSet(walk.stash), b = Asked \/ b = walk.last,
           w.chan # None => w.chan = b /\ b = Asked,
           ContinueFrom(b, w), task' = "walk", env' = env, db' = db, mem' = mem, tip' = tip,
           cur' = cur, prepared' = prepared, made' = made
    PROVE  IInv'
<1> DEFINE p == made[b].prev
           c == made[b]
           list == walk.list
           L == IF list # <<>> /\ Last(list) = b THEN list ELSE Append(list, b)
           N == IF w.last # None /\ b = 0 THEN {} ELSE walk.net \cup {p}
<1>0. WalkInv
  BY DEF IInv
<1>1. /\ Types /\ MadeInv /\ DbInv /\ ~ bootstrap
      /\ list \in Seq(Blocks) /\ walk.stash \in Seq(Blocks)
      /\ Asked \in 0..Len(env.peer) /\ Asked \in Nat /\ Asked \in Blocks
      /\ walk.last # None => /\ walk.last \in 0..Len(env.peer) /\ Asked = made[walk.last].prev
                             /\ list # <<>> /\ Last(list) = walk.last
      /\ walk.last = None => list = <<>>
      /\ walk.last # 0
  BY WalkFacts
<1>2. /\ walk.net \cup ToSet(walk.stash) \subseteq 0..Len(env.peer)
      /\ walk.net \ ToSet(walk.stash) \subseteq {Asked}
      /\ \A x \in ToSet(walk.stash) : x >= Asked
      /\ ToSet(list) \subseteq 0..Len(env.peer)
      /\ \A x \in ToSet(list) : x \in Stored
      /\ WalkContiguous
  BY <1>0 DEF WalkInv
<1>3. /\ b \in 0..Len(env.peer) /\ b \in Blocks /\ b \in Nat /\ b # None /\ c \in Block /\ c # None
      /\ p = (IF b = 0 THEN 0 ELSE b - 1) /\ p \in 0..Len(env.peer) /\ p \in Blocks /\ p \in Nat
  BY <1>1, <1>2, PeerFacts, FiniteParts
<1>4. /\ walk' = [w EXCEPT !.last = b, !.list = L, !.net = N]
  <2>1. w.list = walk.list /\ w.net = walk.net
    OBVIOUS
  <2>2. walk' = [w EXCEPT !.last = b,
                          !.list = IF w.list # <<>> /\ Last(w.list) = b THEN w.list ELSE Append(w.list, b),
                          !.net = IF ~(w.last = None) /\ b = 0 THEN {} ELSE w.net \cup {made[b].prev}]
    BY DEF ContinueFrom
  <2> QED
    BY <2>1, <2>2
<1>5. /\ L \in Seq(Blocks) /\ L # <<>> /\ Last(L) = b /\ ToSet(L) = ToSet(list) \cup {b}
  <2>1. CASE list # <<>> /\ Last(list) = b
    BY <2>1, <1>1, LastIn
  <2>2. CASE ~(list # <<>> /\ Last(list) = b)
    <3>1. L = Append(list, b)
      BY <2>2
    <3> HIDE DEF L, list
    <3> QED
      BY <3>1, <1>1, <1>3, AppendFacts
  <2> QED
    BY <2>1, <2>2
<1>6. N \in SUBSET Blocks
  BY <1>3 DEF Walk
<1>7. /\ walk' \in Walk /\ walk'.last = b /\ walk'.list = L /\ walk'.net = N
      /\ walk'.chan = w.chan /\ walk'.stash = walk.stash
  <2> HIDE DEF L, N
  <2> QED
    BY <1>3, <1>4, <1>5, <1>6 DEF Walk
<1>8. /\ todo' \in Seq(Writes) /\ todo' # <<>> /\ Head(todo').op \in Puts /\ Head(todo').block = b
      /\ \A i \in 1..Len(todo') : /\ todo'[i].op \in Puts \cup {"WriteLastClosedBlock"}
                                  /\ todo'[i].op \in Puts => todo'[i].block = b /\ todo'[i].as = c
  <2> DEFINE u == WriteClosedBlock(b, c)
             v == WriteClosedBlockWithoutTx(b, c)
             z == WriteLastClosedBlock(b)
  <2>1. /\ u \in Writes /\ u.op \in Puts /\ u.block = b /\ u.as = c
        /\ v \in Writes /\ v.op \in Puts /\ v.block = b /\ v.as = c
        /\ z \in Writes /\ z.op = "WriteLastClosedBlock" /\ z.op \notin Puts
    <3>1. u \in Writes /\ v \in Writes /\ z \in Writes
      BY <1>3, PutsAreWrites, BlockOpsAreWrites
    <3> QED
      BY <3>1 DEF WriteClosedBlock, WriteClosedBlockWithoutTx, WriteLastClosedBlock, Puts
  <2>2. todo' \in {<<u, z>>, <<v>>, <<u>>}
    BY DEF ContinueFrom
  <2> HIDE DEF u, v, z
  <2>3. CASE todo' = <<u, z>>
    <3>1. todo' \in Seq(Writes) /\ Len(todo') = 2 /\ todo'[1] = u /\ todo'[2] = z /\ todo' # <<>> /\ Head(todo') = u
      BY <2>1, <2>3
    <3>2. \A i \in 1..2 : i = 1 \/ i = 2
      OBVIOUS
    <3> QED
      BY <2>1, <3>1, <3>2
  <2>4. CASE todo' = <<v>>
    <3>1. todo' \in Seq(Writes) /\ Len(todo') = 1 /\ todo'[1] = v /\ todo' # <<>> /\ Head(todo') = v
      BY <2>1, <2>4
    <3>2. \A i \in 1..1 : i = 1
      OBVIOUS
    <3> QED
      BY <2>1, <3>1, <3>2
  <2>5. CASE todo' = <<u>>
    <3>1. todo' \in Seq(Writes) /\ Len(todo') = 1 /\ todo'[1] = u /\ todo' # <<>> /\ Head(todo') = u
      BY <2>1, <2>5
    <3>2. \A i \in 1..1 : i = 1
      OBVIOUS
    <3> QED
      BY <2>1, <3>1, <3>2
  <2> QED
    BY <2>2, <2>3, <2>4, <2>5
<1>9. Asked' = p /\ ~ bootstrap' /\ Stored' = Stored
  BY <1>1, <1>3, <1>7 DEF Asked, bootstrap, Stored
<1>10. p <= Asked /\ N \ ToSet(walk.stash) \subseteq {p} /\ N \subseteq 0..Len(env.peer)
  <2>1. CASE b = Asked
    BY <2>1, <1>1, <1>2, <1>3
  <2>2. CASE b = walk.last
    <3>1. p = Asked
      BY <2>2, <1>1, <1>3
    <3> HIDE DEF p
    <3> QED
      BY <3>1, <1>1, <1>2, <1>3
  <2> QED
    BY <2>1, <2>2
<1>11. \A x \in ToSet(walk.stash) : x >= p
  <2>1. \A x \in ToSet(walk.stash) : x \in Nat
    BY <1>1, <1>2
  <2> HIDE DEF p
  <2> QED
    BY <2>1, <1>1, <1>2, <1>3, <1>10
<1>12. w.chan # None /\ b # 0 => p \notin ToSet(walk.stash)
  <2>1. SUFFICES ASSUME w.chan # None, b # 0 PROVE ~ (p >= Asked)
    BY <1>2
  <2> QED
    BY <2>1, <1>1, <1>3
<1>13. WalkContiguous'
  <2>1. \A i \in 1..(Len(L) - 1) : made[L[i]].prev = L[i + 1]
    <3>0. \A i \in 1..(Len(list) - 1) : made[list[i]].prev = list[i + 1]
      BY <1>2 DEF WalkContiguous
    <3>1. CASE list # <<>> /\ Last(list) = b
      BY <3>0, <3>1
    <3>2. CASE list = <<>>
      <4>1. L = <<b>> /\ Len(L) = 1
        BY <3>2
      <4> HIDE DEF L
      <4> QED
        BY <4>1
    <3>3. CASE list # <<>> /\ Last(list) # b
      <4> DEFINE n == Len(list)
      <4>1. L = Append(list, b) /\ n \in Nat \ {0}
        BY <3>3, <1>1, LastIn
      <4>2. Len(L) = Len(list) + 1 /\ (\A i \in 1..Len(list) : L[i] = list[i]) /\ L[Len(list) + 1] = b
        <5> HIDE DEF L, list
        <5> QED
          BY <4>1, <1>1, <1>3, AppendFacts
      <4>3. Len(L) = n + 1 /\ (\A i \in 1..n : L[i] = list[i]) /\ L[n + 1] = b
        BY <4>2
      <4>4. walk.last # None /\ list[n] = walk.last /\ b = Asked /\ made[walk.last].prev = b
        BY <3>3, <1>1 DEF Last
      <4> HIDE DEF L, n
      <4>5. ASSUME NEW i \in 1..(Len(L) - 1) PROVE made[L[i]].prev = L[i + 1]
        <5>1. CASE i = n
          BY <5>1, <4>1, <4>3, <4>4
        <5>2. CASE i # n
          <6>1. i \in 1..n /\ i + 1 \in 1..n /\ i \in 1..(n - 1)
            BY <5>2, <4>1, <4>3
          <6>2. made[list[i]].prev = list[i + 1]
            BY <6>1, <3>0 DEF n
          <6> QED
            BY <6>1, <6>2, <4>3
        <5> QED
          BY <5>1, <5>2
      <4> QED
        BY <4>5
    <3> QED
      BY <3>1, <3>2, <3>3
  <2> HIDE DEF L
  <2> QED
    BY <2>1, <1>7 DEF WalkContiguous
<1>14. WalkInv'
  <2> HIDE DEF p, L, N, list, c
  <2>1. ToSet(L) \subseteq 0..Len(env.peer)
    BY <1>2, <1>3, <1>5
  <2>2. N \cup ToSet(walk.stash) \subseteq 0..Len(env.peer)
    BY <1>2, <1>10
  <2>3. \A x \in ToSet(L) :
          x \in Stored \/ (todo' # <<>> /\ Head(todo').op \in Puts /\ Head(todo').block = x)
    BY <1>2, <1>5, <1>8
  <2> QED
    BY <1>3, <1>5, <1>7, <1>8, <1>9, <1>10, <1>11, <1>12, <1>13, <2>1, <2>2, <2>3 DEF WalkInv
<1>15. \A i \in 1..Len(todo') : /\ todo'[i].op \in Puts \cup {"WriteLastClosedBlock"}
                                /\ todo'[i].op \in Puts => Same(made, todo'[i].block, todo'[i].as)
  <2>1. Same(made, b, c)
    BY <1>3 DEF Same
  <2> HIDE DEF c
  <2> QED
    BY <2>1, <1>8
<1> QED
  BY <1>1, <1>7, <1>8, <1>14, <1>15, PeerStepKeeps

LEMMA TakeAnswerKeeps ==
    ASSUME IInv, TakeAnswer
    PROVE  IInv'
<1>0. WalkInv
  BY DEF IInv
<1> DEFINE w == [walk EXCEPT !.chan = None]
           b == walk.chan
<1>1. /\ task = "walk" /\ todo = <<>> /\ b # None /\ ContinueFrom(b, w)
      /\ task' = "walk" /\ env' = env /\ db' = db /\ mem' = mem /\ tip' = tip
      /\ cur' = cur /\ prepared' = prepared /\ made' = made
  BY DEF TakeAnswer
<1>2. b \in ToSet(walk.stash) /\ (b = Asked \/ b = walk.last)
  BY <1>0, <1>1 DEF WalkInv
<1>3. walk \in Walk
  BY <1>1, WalkFacts
<1>4. /\ w \in Walk /\ w.last = walk.last /\ w.list = walk.list /\ w.net = walk.net
      /\ w.stash = walk.stash /\ w.chan = None
  BY <1>3 DEF Walk
<1> HIDE DEF w, b
<1> QED
  BY <1>1, <1>2, <1>4, ContinueKeeps

LEMMA TimeOutKeeps ==
    ASSUME IInv, TimeOut
    PROVE  IInv'
<1>0. WalkInv
  BY DEF IInv
<1>1. /\ task = "walk" /\ todo = <<>> /\ walk.last # None
      /\ task' = "walk" /\ env' = env /\ db' = db /\ mem' = mem /\ tip' = tip
      /\ cur' = cur /\ prepared' = prepared /\ made' = made
  BY DEF TimeOut
<1>2. /\ Types /\ MadeInv /\ walk \in Walk /\ ~ bootstrap /\ walk.last # 0
      /\ Asked \in 0..Len(env.peer) /\ Asked \in Blocks
  BY <1>1, WalkFacts
<1>3. CASE Asked \in ToSet(walk.stash)
  <2>1. ContinueFrom(Asked, walk)
    BY <1>3 DEF TimeOut
  <2>2. walk.chan # None => walk.chan = Asked
    BY <1>0, <1>1, <1>2, <1>3 DEF WalkInv
  <2> QED
    BY <1>1, <1>2, <1>3, <2>1, <2>2, ContinueKeeps
<1>4. CASE Asked \notin ToSet(walk.stash)
  <2>1. walk' = [walk EXCEPT !.net = walk.net \cup {Asked}] /\ todo' = todo
    BY <1>4 DEF TimeOut
  <2> DEFINE net == walk.net \cup {Asked}
  <2>2. net \in SUBSET Blocks
    BY <1>2 DEF Walk
  <2>3. walk' = [walk EXCEPT !.net = net]
    BY <2>1
  <2>4. net \subseteq 0..Len(env.peer) \cup walk.net /\ net \ ToSet(walk.stash) \subseteq {Asked} \cup (walk.net \ ToSet(walk.stash))
    BY <1>2
  <2> HIDE DEF net
  <2>5. /\ walk' \in Walk /\ walk'.net = net /\ walk'.last = walk.last
        /\ walk'.list = walk.list /\ walk'.chan = walk.chan /\ walk'.stash = walk.stash
    BY <1>2, <2>2, <2>3 DEF Walk
  <2>6. Asked' = Asked /\ ~ bootstrap' /\ Stored' = Stored
    BY <1>1, <1>2, <2>5 DEF Asked, bootstrap, Stored
  <2>7. WalkContiguous'
    BY <1>0, <1>1, <2>5 DEF WalkInv, WalkContiguous
  <2>8. WalkInv'
    BY <1>0, <1>1, <2>1, <2>4, <2>5, <2>6, <2>7 DEF WalkInv
  <2>9. todo' \in Seq(Writes) /\ Len(todo') = 0
    BY <1>1, <2>1
  <2> QED
    BY <1>1, <1>2, <2>5, <2>8, <2>9, PeerStepKeeps
<1> QED
  BY <1>3, <1>4

----------------------------------------------------------------------------
(* Replaying the blocks of the walk.                                       *)

LEMMA FrontFacts ==
    ASSUME NEW S, NEW s \in Seq(S), s # <<>>, NEW f, f = Front(s)
    PROVE  /\ f \in Seq(S) /\ Len(f) = Len(s) - 1 /\ Len(s) \in Nat \ {0}
           /\ \A i \in 1..(Len(s) - 1) : f[i] = s[i]
           /\ ToSet(f) \subseteq ToSet(s)
           /\ f # <<>> => Len(s) - 1 \in 1..(Len(s) - 1) /\ Last(f) = s[Len(s) - 1]
           /\ Last(s) = s[Len(s)]
<1> DEFINE n == Len(s)
<1>1. n \in Nat \ {0} /\ s \in [1..n -> S]
  BY EmptySeq, LenProperties
<1>2. f = SubSeq(s, 1, n - 1)
  BY DEF Front
<1>3. f = [i \in 1..(n - 1) |-> s[i]]
  <2>1. \A i \in 1..(n - 1) : s[i] \in S
    BY <1>1
  <2>2. /\ f \in Seq(S) /\ Len(f) = IF 1 <= n - 1 THEN (n - 1) - 1 + 1 ELSE 0
        /\ \A i \in 1..((n - 1) - 1 + 1) : f[i] = s[1 + i - 1]
    BY <1>1, <1>2, <2>1, SubSeqProperties
  <2>3. Len(f) = n - 1 /\ (n - 1) - 1 + 1 = n - 1 /\ \A i \in 1..(n - 1) : 1 + i - 1 = i
    <3> HIDE DEF n
    <3>1. n \in Nat \ {0} /\ Len(f) = IF 1 <= n - 1 THEN (n - 1) - 1 + 1 ELSE 0
      BY <1>1, <2>2
    <3>2. Len(f) = n - 1
      BY <3>1
    <3> QED
      BY <3>1, <3>2
  <2>4. DOMAIN f = 1..(n - 1) /\ f = [i \in DOMAIN f |-> f[i]]
    BY <2>2, <2>3, LenProperties
  <2> QED
    BY <2>2, <2>3, <2>4
<1>4. \A i \in 1..(n - 1) : i \in 1..n
  BY <1>1
<1>5. f \in [1..(n - 1) -> S] /\ n - 1 \in Nat
  BY <1>1, <1>3, <1>4
<1>6. f \in Seq(S) /\ Len(f) = n - 1
  BY <1>5, LenProperties
<1>7. ToSet(f) \subseteq ToSet(s)
  BY <1>1, <1>3, <1>4 DEF ToSet
<1>8. f # <<>> => n - 1 \in 1..(n - 1) /\ Last(f) = s[n - 1]
  <2>1. SUFFICES ASSUME f # <<>> PROVE n - 1 \in 1..(n - 1) /\ Last(f) = s[n - 1]
    OBVIOUS
  <2>2. Len(f) # 0
    BY <2>1, <1>6, EmptySeq
  <2>3. n - 1 \in 1..(n - 1)
    BY <2>2, <1>6, <1>1
  <2> QED
    BY <2>3, <1>3, <1>6 DEF Last
<1> QED
  BY <1>1, <1>3, <1>6, <1>7, <1>8 DEF Last

LEMMA ReplayKeeps ==
    ASSUME IInv, Replay
    PROVE  IInv'
<1> DEFINE b == Last(walk.list)
           c == made[b]
           n == Len(walk.list)
<1>0. Types /\ MadeInv /\ DbInv /\ TodoInv /\ WalkInv
  BY DEF IInv, Ground
<1>1. /\ task = "replay" /\ walk.list # <<>>
      /\ mem' = IF b = 0 THEN mem
                ELSE [mem EXCEPT !.applied = [p \in Payments |-> mem.applied[p] + Replays(db, c, p)],
                                 !.rewards = Bump(mem.rewards, {b}, 1)]
      /\ todo' = Append(ClosingWrites(b, c, TRUE), WriteClosedBlock(b, c))
      /\ task' = "postValidate" /\ cur' = b /\ tip' = b
      /\ walk' = [walk EXCEPT !.list = Front(walk.list)]
      /\ env' = env /\ db' = db /\ prepared' = prepared /\ made' = made
  BY DEF Replay, postValidate
<1>2. "pool" \in DOMAIN mem' /\ mem'.pool = mem.pool
  <2>1. "pool" \in DOMAIN mem
    BY <1>0 DEF Types
  <2>2. CASE b = 0
    BY <1>1, <2>1, <2>2
  <2>3. CASE b # 0
    <3>1. mem' = [mem EXCEPT !.applied = [p \in Payments |-> mem.applied[p] + Replays(db, c, p)],
                             !.rewards = Bump(mem.rewards, {b}, 1)]
      BY <1>1, <2>3
    <3> QED
      BY <3>1, <2>1, MemFrame
  <2> QED
    BY <2>2, <2>3
<1>3. walk \in Walk /\ walk.list \in Seq(Blocks) /\ ~ bootstrap
  BY <1>0, <1>1 DEF Types, Walk, WalkInv
<1>4. b \in ToSet(walk.list) /\ b \in Blocks /\ b \in 0..Len(env.peer) /\ b \in Stored
  <2>1. b \in ToSet(walk.list) /\ b \in Blocks
    BY <1>1, <1>3, LastIn
  <2> QED
    BY <2>1, <1>0, <1>1 DEF WalkInv
<1>5. c \in Block /\ c # None /\ (b = 0 => c.prev = 0)
  BY <1>0, <1>4, PeerFacts
<1>6. /\ walk' \in Walk /\ walk'.list = Front(walk.list)
  <2>1. Front(walk.list) \in Seq(Blocks)
    BY <1>1, <1>3, FrontFacts
  <2> DEFINE l == Front(walk.list)
  <2> HIDE DEF l
  <2>2. walk' = [walk EXCEPT !.list = l] /\ l \in Seq(Blocks)
    BY <1>1, <2>1 DEF l
  <2>3. walk' \in Walk /\ walk'.list = l
    BY <2>2, <1>3 DEF Walk
  <2> QED
    BY <2>3 DEF l
<1>7. /\ walk'.list \in Seq(Blocks) /\ Len(walk'.list) = n - 1 /\ n \in Nat \ {0}
      /\ \A i \in 1..(n - 1) : walk'.list[i] = walk.list[i]
      /\ ToSet(walk'.list) \subseteq ToSet(walk.list)
      /\ walk'.list # <<>> => n - 1 \in 1..(n - 1) /\ Last(walk'.list) = walk.list[n - 1]
      /\ b = walk.list[n]
  BY <1>1, <1>3, <1>6, FrontFacts
<1>8. /\ todo' \in Seq(Writes)
      /\ Closing(todo', b)
      /\ \A i \in 1..Len(todo') : todo'[i].op \in Puts => todo'[i].block = b /\ todo'[i].as = c
  <2>1. b \in Blocks /\ c \in Block /\ Types
    BY <1>0, <1>4, <1>5
  <2>2. \E setup \in BOOLEAN : todo' = Append(ClosingWrites(b, c, setup), WriteClosedBlock(b, c))
    BY <1>1
  <2> HIDE DEF b, c
  <2>3. \A q : (\E setup \in BOOLEAN : q = Append(ClosingWrites(b, c, setup), WriteClosedBlock(b, c))) =>
          /\ q \in Seq(Writes)
          /\ Closing(q, b)
          /\ \A i \in 1..Len(q) : q[i].op \in Puts => q[i].block = b /\ q[i].as = c
    BY <2>1, PostValidateTodo
  <2> QED
    BY <2>2, <2>3
<1>9. Stored' = Stored /\ ~ bootstrap' /\ (Untorn' <=> Untorn)
  BY <1>1, <1>3, EnvFrame DEF Stored
<1>10. b = 0 \/ c.prev = tip
  BY <1>0, <1>1 DEF WalkInv
<1>11. KeptInv'
  <2>1. SUFFICES ASSUME Untorn
                 PROVE  \E A \in SUBSET Blocks :
                           b \in A /\ Ancestral(A) /\ A \subseteq Stored \cup {b}
    BY <1>1, <1>9 DEF KeptInv, Ancestral
  <2>2. CASE b = 0
    <3>1. b \in {b} /\ Ancestral({b}) /\ {b} \subseteq Stored \cup {b} /\ {b} \in SUBSET Blocks
      BY <1>4, <1>5, <2>2 DEF Ancestral
    <3> QED
      BY <3>1
  <2>3. CASE b # 0
    <3>1. PICK A \in SUBSET Blocks : tip \in A /\ Ancestral(A) /\ A \subseteq Stored
      BY <1>1, <2>1, <2>3 DEF IInv, KeptInv
    <3>2. \A x \in A \cup {b} : made[x] # None /\ made[x].prev \in A \cup {b}
      BY <1>5, <1>10, <2>3, <3>1 DEF Ancestral
    <3>3. A \cup {b} \in SUBSET Blocks /\ b \in A \cup {b} /\ A \cup {b} \subseteq Stored \cup {b}
      BY <3>1, <1>4
    <3> QED
      BY <3>2, <3>3 DEF Ancestral
  <2> QED
    BY <2>2, <2>3
<1>12. WalkInv'
  <2>1. ToSet(walk'.list) \subseteq 0..Len(env'.peer) /\ ToSet(walk'.list) \subseteq Stored'
    BY <1>0, <1>1, <1>7, <1>9 DEF WalkInv
  <2>2. walk'.list # <<>> => Last(walk'.list) = 0 \/ made'[Last(walk'.list)].prev = tip'
    <3>1. SUFFICES ASSUME walk'.list # <<>> PROVE made[walk.list[n - 1]].prev = b
      BY <1>1, <1>7
    <3>2. n - 1 \in 1..(n - 1) /\ n - 1 + 1 = n
      BY <3>1, <1>7
    <3>3. made[walk.list[n - 1]].prev = walk.list[n - 1 + 1]
      BY <3>2, <1>0 DEF WalkInv, WalkContiguous
    <3> QED
      BY <3>2, <3>3, <1>7
  <2>3. WalkContiguous'
    <3>1. ASSUME NEW i \in 1..(n - 1 - 1)
          PROVE  made[walk'.list[i]].prev = walk'.list[i + 1]
      <4>1. i \in 1..(n - 1) /\ i + 1 \in 1..(n - 1)
        BY <1>7
      <4>2. made[walk.list[i]].prev = walk.list[i + 1]
        BY <4>1, <1>0 DEF WalkInv, WalkContiguous
      <4> QED
        BY <4>1, <4>2, <1>7
    <3>2. Len(walk'.list) - 1 = n - 1 - 1
      BY <1>7
    <3> QED
      BY <3>1, <3>2, <1>1 DEF WalkContiguous
  <2> QED
    BY <1>1, <1>9, <2>1, <2>2, <2>3 DEF WalkInv
<1>13. Types'
  <2>1. task' \in Tasks /\ tip' \in Blocks /\ cur' \in Blocks \cup {None}
    BY <1>1, <1>4 DEF Tasks
  <2> QED
    BY <1>0, <1>1, <1>2, <1>6, <1>8, <2>1 DEF Types
<1>14. MadeInv'
  BY <1>0, <1>1, <1>5 DEF MadeInv
<1>15. DbInv'
  <2>1. Same(made, b, c)
    BY <1>5 DEF Same
  <2> QED
    BY <1>0, <1>1, <1>8, <2>1 DEF DbInv
<1>16. TodoInv'
  BY <1>1, <1>8 DEF TodoInv
<1>17. GenesisInv' /\ StoreInv' /\ BranchInv' /\ SoundInv'
  BY <1>9 DEF GenesisInv, StoreInv, BranchInv, SoundInv
<1> QED
  BY <1>11, <1>12, <1>13, <1>14, <1>15, <1>16, <1>17 DEF IInv, Ground

----------------------------------------------------------------------------
(* One write.                                                              *)

\* What every write has in common.
LEMMA WriteFacts ==
    ASSUME IInv, Write, NEW w, w = Head(todo)
    PROVE  /\ Types /\ MadeInv /\ DbInv /\ TodoInv /\ WalkInv
           /\ todo # <<>> /\ w \in Writes
           /\ db \in Database /\ db' = Update(db, w) /\ db' \in Database
           /\ env' = env /\ mem' = mem /\ tip' = tip /\ cur' = cur /\ prepared' = prepared
           /\ walk' = walk /\ made' = made
           /\ (bootstrap' <=> bootstrap) /\ (Untorn' <=> Untorn) /\ (Sound' <=> Sound)
           /\ todo' = IF task = "postValidate" /\ w.op = "WriteClosedBlock"
                      THEN EndingWrites(db', cur, made[cur]) ELSE Tail(todo)
           /\ task' = IF todo' = <<>> THEN Done ELSE task
           /\ w.op \in Puts => Same(made, w.block, w.as)
           /\ Faithful(db', made)
           /\ Stored' = StoredIn(Update(db, w))
<1>0. Types /\ MadeInv /\ DbInv /\ TodoInv /\ WalkInv
  BY DEF IInv, Ground
<1>1. /\ todo # <<>> /\ db' = Update(db, w)
      /\ env' = env /\ mem' = mem /\ tip' = tip /\ cur' = cur /\ prepared' = prepared
      /\ walk' = walk /\ made' = made
      /\ todo' = IF task = "postValidate" /\ w.op = "WriteClosedBlock"
                 THEN EndingWrites(db', cur, made[cur]) ELSE Tail(todo)
      /\ task' = IF todo' = <<>> THEN Done ELSE task
  BY DEF Write
<1>2. todo \in Seq(Writes) /\ db \in Database /\ made \in Bucket
  BY <1>0 DEF Types
<1>3. w \in Writes /\ w = todo[1] /\ 1 \in 1..Len(todo)
  <2>1. Len(todo) \in Nat \ {0} /\ Head(todo) = todo[1] /\ Head(todo) \in Writes
    BY <1>1, <1>2, TodoTail
  <2> QED
    BY <2>1
<1>4. db' \in Database
  BY <1>1, <1>2, <1>3, UpdateParts
<1>5. w.op \in Puts => Same(made, w.block, w.as)
  BY <1>0, <1>3 DEF DbInv
<1>6. Faithful(db', made)
  <2>0. Faithful(db, made)
    BY <1>0, StoredFacts
  <2>1. /\ db'.closed =
                 IF w.op = "WriteClosedBlock" THEN [db.closed EXCEPT ![w.block] = w.as]
                 ELSE IF w.op = "DeleteClosedBlock" THEN [db.closed EXCEPT ![w.block] = None]
                 ELSE db.closed
        /\ db'.without =
                 IF w.op = "WriteClosedBlockWithoutTx" THEN [db.without EXCEPT ![w.block] = w.as]
                 ELSE IF w.op = "DeleteClosedBlockWithoutTx" THEN [db.without EXCEPT ![w.block] = None]
                 ELSE db.without
    BY <1>1, <1>2, <1>3, UpdateParts
  <2>2. db.closed \in Bucket /\ db.without \in Bucket
    BY <1>2 DEF Database
  <2>3. ASSUME NEW b \in Blocks, db'.closed[b] # None PROVE Same(made, b, db'.closed[b])
    <3>1. db'.closed[b] = db.closed[b] \/ (w.op \in Puts /\ b = w.block /\ db'.closed[b] = w.as)
      BY <2>1, <2>2, <2>3 DEF Bucket, Puts
    <3> QED
      BY <3>1, <2>0, <2>3, <1>5 DEF Faithful
  <2>4. ASSUME NEW b \in Blocks, db'.without[b] # None PROVE Same(made, b, db'.without[b])
    <3>1. db'.without[b] = db.without[b] \/ (w.op \in Puts /\ b = w.block /\ db'.without[b] = w.as)
      BY <2>1, <2>2, <2>4 DEF Bucket, Puts
    <3> QED
      BY <3>1, <2>0, <2>4, <1>5 DEF Faithful
  <2> QED
    BY <2>3, <2>4 DEF Faithful
<1>7. (bootstrap' <=> bootstrap) /\ (Untorn' <=> Untorn) /\ (Sound' <=> Sound)
  BY <1>1, EnvFrame
<1>8. Stored' = StoredIn(Update(db, w))
  BY <1>1 DEF Stored
<1> QED
  BY <1>0, <1>1, <1>2, <1>3, <1>4, <1>5, <1>6, <1>7, <1>8

\* Types and blocks, once the writes that are left are known.
LEMMA WriteGround ==
    ASSUME IInv, Write, todo' \in Seq(Writes), task' \in Tasks,
           \A i \in 1..Len(todo') : todo'[i].op \in Puts => Same(made, todo'[i].block, todo'[i].as)
    PROVE  Types' /\ MadeInv' /\ DbInv'
<1> DEFINE w == Head(todo)
<1>1. /\ Types /\ MadeInv /\ DbInv
      /\ db' \in Database
      /\ env' = env /\ mem' = mem /\ tip' = tip /\ cur' = cur /\ prepared' = prepared
      /\ walk' = walk /\ made' = made
      /\ Faithful(db', made)
  BY WriteFacts
<1>2. Types'
  BY <1>1 DEF Types
<1>3. MadeInv'
  BY <1>1 DEF MadeInv
<1>4. DbInv'
  BY <1>1 DEF DbInv, Faithful
<1> QED
  BY <1>2, <1>3, <1>4

\* The tail of the writes.
LEMMA TailKeeps ==
    ASSUME IInv, Write, todo' = Tail(todo)
    PROVE  /\ todo' \in Seq(Writes)
           /\ \A i \in 1..Len(todo') : todo'[i].op \in Puts => Same(made, todo'[i].block, todo'[i].as)
           /\ \A i \in 1..Len(todo') : i + 1 \in 1..Len(todo) /\ todo'[i] = todo[i + 1]
           /\ Len(todo) \in Nat \ {0} /\ Len(todo') = Len(todo) - 1
<1>1. DbInv /\ todo # <<>> /\ todo \in Seq(Writes)
  BY WriteFacts DEF Types
<1>2. /\ Len(todo) \in Nat \ {0}
      /\ Tail(todo) \in Seq(Writes)
      /\ Len(Tail(todo)) = Len(todo) - 1
      /\ \A i \in 1..(Len(todo) - 1) : Tail(todo)[i] = todo[i + 1]
  BY <1>1, TodoTail
<1>3. \A i \in 1..Len(todo') : i + 1 \in 1..Len(todo) /\ todo'[i] = todo[i + 1]
  BY <1>2
<1>4. \A i \in 1..Len(todo') : todo'[i].op \in Puts => Same(made, todo'[i].block, todo'[i].as)
  BY <1>1, <1>3 DEF DbInv
<1> QED
  BY <1>2, <1>3, <1>4

\* A write of the walk.
LEMMA WriteWalkKeeps ==
    ASSUME IInv, Write, task = "walk"
    PROVE  IInv'
<1> DEFINE w == Head(todo)
<1>1. /\ Types /\ MadeInv /\ DbInv /\ TodoInv /\ WalkInv
      /\ todo # <<>> /\ w \in Writes
      /\ db \in Database /\ db' = Update(db, w)
      /\ env' = env /\ tip' = tip /\ cur' = cur /\ walk' = walk /\ made' = made
      /\ (bootstrap' <=> bootstrap) /\ (Untorn' <=> Untorn)
      /\ todo' = Tail(todo) /\ task' = IF todo' = <<>> THEN Done ELSE task
      /\ Stored' = StoredIn(Update(db, w))
  BY WriteFacts
<1>2. /\ todo' \in Seq(Writes)
      /\ \A i \in 1..Len(todo') : todo'[i].op \in Puts => Same(made, todo'[i].block, todo'[i].as)
      /\ \A i \in 1..Len(todo') : i + 1 \in 1..Len(todo) /\ todo'[i] = todo[i + 1]
      /\ Len(todo) \in Nat \ {0} /\ Len(todo') = Len(todo) - 1
  BY <1>1, TailKeeps
<1>3. /\ w.op \in Puts \cup {"WriteLastClosedBlock"}
      /\ \A i \in 1..Len(todo') : todo'[i].op \in Puts \cup {"WriteLastClosedBlock"}
  <2>1. todo \in Seq(Writes) /\ Head(todo) = todo[1] /\ 1 \in 1..Len(todo)
    BY <1>1, <1>2, TodoTail DEF Types
  <2> QED
    BY <2>1, <1>1, <1>2 DEF TodoInv
<1>4. Stored \subseteq Stored' /\ (w.op \in Puts => w.block \in Stored')
  <2>1. w.op \in Puts => Stored' = StoredIn(db) \cup {w.block}
    BY <1>1, UpdateStored
  <2>2. w.op = "WriteLastClosedBlock" => Stored' = StoredIn(db)
    BY <1>1, UpdateStored DEF Puts
  <2> QED
    BY <2>1, <2>2, <1>3 DEF Stored
<1>5. /\ task' \in {"walk", "replay"}
      /\ task' = "replay" <=> todo' = <<>> /\ walk.last = 0
  <2>1. Done = IF walk.last = 0 THEN "replay" ELSE "walk"
    BY DEF Done
  <2> QED
    BY <2>1, <1>1
<1>6. ~ bootstrap /\ ~ bootstrap'
  BY <1>1 DEF WalkInv
<1>7. ToSet(walk.list) \subseteq Stored'
  BY <1>1, <1>4 DEF WalkInv
<1>8. task' \in Tasks
  BY <1>5 DEF Tasks
<1>9. Types' /\ MadeInv' /\ DbInv'
  BY <1>2, <1>8, WriteGround
<1>10. TodoInv'
  BY <1>3, <1>5 DEF TodoInv
<1>11. walk.last = 0 => walk.list # <<>> /\ Last(walk.list) = 0
  BY <1>1, FiniteParts DEF WalkInv
<1>12. WalkInv'
  <2>1. WalkContiguous' /\ Asked' = Asked
    BY <1>1 DEF WalkInv, WalkContiguous, Asked
  <2>2. ToSet(walk.list) \subseteq 0..Len(env.peer)
    BY <1>1 DEF WalkInv
  <2>3. CASE task' = "walk"
    <3>1. walk.last # None
      BY <1>1 DEF WalkInv
    <3>2. walk.last = 0 => todo' # <<>>
      BY <2>3, <1>5
    <3> QED
      BY <1>1, <1>6, <1>7, <2>1, <2>2, <2>3, <3>1, <3>2 DEF WalkInv
  <2>4. CASE task' = "replay"
    BY <1>1, <1>5, <1>6, <1>7, <1>11, <2>1, <2>2, <2>4 DEF WalkInv
  <2> QED
    BY <1>5, <2>3, <2>4
<1>13. KeptInv'
  <2>1. SUFFICES ASSUME Untorn
                 PROVE  \E A \in SUBSET Blocks :
                           tip \in A /\ Ancestral(A) /\ A \subseteq Stored' \cup {cur}
    BY <1>1, <1>5, <1>11 DEF KeptInv, Ancestral
  <2> QED
    BY <2>1, <1>4 DEF IInv, KeptInv
<1>14. GenesisInv' /\ StoreInv' /\ BranchInv' /\ SoundInv'
  BY <1>6 DEF GenesisInv, StoreInv, BranchInv, SoundInv
<1> QED
  BY <1>9, <1>10, <1>12, <1>13, <1>14 DEF IInv, Ground

\* A write at the beginning of a new chain.
LEMMA WriteGenesisKeeps ==
    ASSUME IInv, Write, task = "genesis"
    PROVE  IInv'
<1> DEFINE w == Head(todo)
           wl == WriteLastClosedBlock(0)
           wc == WriteClosedBlock(0, Genesis)
<1>1. /\ Types /\ MadeInv /\ DbInv /\ TodoInv /\ WalkInv
      /\ todo # <<>> /\ w \in Writes
      /\ db \in Database /\ db' = Update(db, w)
      /\ env' = env /\ tip' = tip /\ cur' = cur /\ walk' = walk /\ made' = made
      /\ (bootstrap' <=> bootstrap) /\ (Untorn' <=> Untorn) /\ (Sound' <=> Sound)
      /\ todo' = Tail(todo) /\ task' = IF todo' = <<>> THEN Done ELSE task
      /\ Stored' = StoredIn(Update(db, w))
  BY WriteFacts
<1>2. /\ todo' \in Seq(Writes)
      /\ \A i \in 1..Len(todo') : todo'[i].op \in Puts => Same(made, todo'[i].block, todo'[i].as)
  BY <1>1, TailKeeps
<1>3. tip = 0 /\ bootstrap /\ walk.list = <<>>
  BY <1>1 DEF TodoInv, WalkInv
<1>4. wl.op = "WriteLastClosedBlock" /\ wl.block = 0 /\ wc.op = "WriteClosedBlock" /\ wc.block = 0 /\ wc.as = Genesis
  BY DEF WriteLastClosedBlock, WriteClosedBlock
<1>5. \/ w = wl /\ todo' = <<wc>> /\ todo' # <<>>
      \/ w = wc /\ todo' = <<>>
  <2>1. todo = <<wl, wc>> \/ todo = <<wc>>
    BY <1>1 DEF TodoInv
  <2> HIDE DEF wl, wc
  <2>2. CASE todo = <<wl, wc>>
    <3>1. w = wl /\ Tail(todo) = <<wc>>
      BY <2>2
    <3> QED
      BY <3>1, <1>1
  <2>3. CASE todo = <<wc>>
    <3>1. w = wc /\ Tail(todo) = <<>>
      BY <2>3
    <3> QED
      BY <3>1, <1>1
  <2> QED
    BY <2>1, <2>2, <2>3
<1> HIDE DEF wl, wc, w
<1>6. /\ db'.closed = IF w = wc THEN [db.closed EXCEPT ![0] = Genesis] ELSE db.closed
      /\ db'.without = db.without
      /\ db'.last = IF w = wl THEN db.last \cup {0} ELSE db.last
  <2>0. /\ db'.closed =
                 IF w.op = "WriteClosedBlock" THEN [db.closed EXCEPT ![w.block] = w.as]
                 ELSE IF w.op = "DeleteClosedBlock" THEN [db.closed EXCEPT ![w.block] = None]
                 ELSE db.closed
        /\ db'.without =
                 IF w.op = "WriteClosedBlockWithoutTx" THEN [db.without EXCEPT ![w.block] = w.as]
                 ELSE IF w.op = "DeleteClosedBlockWithoutTx" THEN [db.without EXCEPT ![w.block] = None]
                 ELSE db.without
        /\ db'.last =
                 IF w.op = "DeleteAllLastClosedBlock" THEN {}
                 ELSE IF w.op = "WriteLastClosedBlock" THEN db.last \cup {w.block}
                 ELSE db.last
    BY <1>1, UpdateParts
  <2>1. CASE w = wl
    BY <2>0, <2>1, <1>4
  <2>2. CASE w = wc
    BY <2>0, <2>2, <1>4
  <2> QED
    BY <1>5, <2>1, <2>2
<1>7. Stored' = IF w = wc THEN Stored \cup {0} ELSE Stored
  <2>1. w.op \in Puts => Stored' = StoredIn(db) \cup {w.block}
    BY <1>1, UpdateStored
  <2>2. w.op = "WriteLastClosedBlock" => Stored' = StoredIn(db)
    BY <1>1, UpdateStored DEF Puts
  <2> QED
    BY <2>1, <2>2, <1>4, <1>5 DEF Stored, Puts
<1>8. task' = IF w = wc THEN "idle" ELSE "genesis"
  BY <1>1, <1>4, <1>5 DEF Done
<1>9. Types' /\ MadeInv' /\ DbInv'
  <2>1. task' \in Tasks
    BY <1>8 DEF Tasks
  <2> QED
    BY <1>2, <2>1, WriteGround
<1>10. TodoInv'
  BY <1>1, <1>3, <1>4, <1>5, <1>8 DEF TodoInv, wl, wc
<1>11. /\ Stored \subseteq Blocks /\ 0 \in Blocks /\ made[0].prev = 0 /\ made[0].height = 0 /\ made[0] # None
       /\ \A x \in Blocks : x \in Stored <=> db.closed[x] # None \/ db.without[x] # None
       /\ db.closed \in Bucket
  BY <1>1, StoredFacts, MadeFacts, FiniteParts
<1>12. db.without[0] = None /\ (0 \in Stored \/ (Stored = {} /\ cur = 0))
  <2>1. (0 \in Stored /\ db.without[0] = None) \/ (Stored = {} /\ cur = 0)
    BY <1>3 DEF IInv, GenesisInv
  <2>2. 0 \notin Stored => db.without[0] = None
    BY <1>11
  <2> QED
    BY <2>1, <2>2
<1>13. WalkInv'
  <2>1. ToSet(walk.list) = {} /\ Len(walk.list) = 0
    BY <1>3 DEF ToSet
  <2>2. WalkContiguous'
    BY <1>1, <2>1 DEF WalkContiguous
  <2> QED
    BY <1>1, <1>3, <1>8, <2>1, <2>2 DEF WalkInv
<1>14. GenesisInv'
  BY <1>1, <1>3, <1>6, <1>7, <1>8, <1>12 DEF GenesisInv
<1>15. KeptInv'
  <2>1. CASE w = wc
    <3>1. 0 \in {0} /\ {0} \in SUBSET Blocks /\ {0} \subseteq Stored'
      BY <2>1, <1>7, <1>11
    <3>2. \A x \in {0} : made[x] # None /\ made[x].prev \in {0}
      BY <1>11
    <3> QED
      BY <2>1, <3>1, <3>2, <1>1, <1>3, <1>8 DEF KeptInv, Ancestral
  <2>2. CASE w # wc
    BY <2>2, <1>1, <1>7, <1>8 DEF IInv, KeptInv, Ancestral
  <2> QED
    BY <2>1, <2>2
<1>16. StoreInv'
  <2>1. SUFFICES ASSUME Untorn PROVE \A x \in Stored' : made[x].prev \in Stored'
    BY <1>1, <1>3 DEF StoreInv
  <2>2. \A x \in Stored : made[x].prev \in Stored
    BY <2>1, <1>3 DEF IInv, StoreInv
  <2> QED
    BY <2>2, <1>7, <1>11
<1>17. BranchInv'
  <2>1. SUFFICES ASSUME Untorn, env.rollback PROVE BranchInv'
    BY <1>1, <1>3 DEF BranchInv
  <2>2. \A x \in Blocks : ~ (db.closed[x] # None /\ db.without[x] # None)
    <3>1. w.op \notin {"DeleteClosedBlock", "DeleteClosedBlockWithoutTx"}
      BY <1>4, <1>5
    <3> QED
      BY <2>1, <3>1, <1>3 DEF IInv, BranchInv, w
  <2>3. \A x, y \in Stored : x # y /\ made[x].prev = made[y].prev => made[x].prev = 0
    BY <2>1, <1>3 DEF IInv, BranchInv
  <2>4. \A x \in Blocks : ~ (db'.closed[x] # None /\ db'.without[x] # None)
    BY <2>2, <1>6, <1>11, <1>12 DEF Bucket
  <2>5. \A x, y \in Stored' : x # y /\ made[x].prev = made[y].prev => made[x].prev = 0
    BY <2>3, <1>7, <1>11
  <2> QED
    BY <1>1, <1>3, <1>8, <2>4, <2>5 DEF BranchInv
<1>18. SoundInv'
  <2>1. SUFFICES ASSUME Sound PROVE SoundInv'
    BY <1>1, <1>3 DEF SoundInv
  <2>2. /\ \A x, y \in Stored : made[x].height = made[y].height => x = y
        /\ \A x \in Stored : made[x].height <= made[tip].height
        /\ db.last = {} => w.op = "WriteLastClosedBlock"
        /\ tip \in Stored \/ Stored = {}
    BY <2>1, <1>3 DEF IInv, SoundInv, w
  <2>3. db'.last # {}
    BY <2>2, <1>4, <1>5, <1>6
  <2>4. \A x, y \in Stored' : made[x].height = made[y].height => x = y
    BY <2>2, <1>7, <1>12
  <2>5. \A x \in Stored' : made[x].height <= made[tip].height
    BY <2>2, <1>3, <1>7, <1>11
  <2>6. tip \in Stored' \/ Stored' = {}
    BY <2>2, <1>3, <1>7
  <2> QED
    BY <1>1, <1>3, <1>8, <2>3, <2>4, <2>5, <2>6 DEF SoundInv
<1> QED
  BY <1>9, <1>10, <1>13, <1>14, <1>15, <1>16, <1>17, <1>18 DEF IInv, Ground

\* A transaction of a new or a prepared block.
LEMMA WriteTxKeeps ==
    ASSUME IInv, Write, task = "prepare" \/ (task = "postValidate" /\ Closing(todo, cur)),
           Head(todo).op # "WriteClosedBlock"
    PROVE  IInv'
<1> DEFINE w == Head(todo)
<1>1. /\ Types /\ MadeInv /\ DbInv /\ TodoInv /\ WalkInv
      /\ todo # <<>> /\ w \in Writes
      /\ db \in Database /\ db' = Update(db, w)
      /\ env' = env /\ tip' = tip /\ cur' = cur /\ walk' = walk /\ made' = made
      /\ (bootstrap' <=> bootstrap) /\ (Untorn' <=> Untorn) /\ (Sound' <=> Sound)
      /\ todo' = Tail(todo) /\ task' = IF todo' = <<>> THEN Done ELSE task
      /\ Stored' = StoredIn(Update(db, w))
  BY WriteFacts
<1>2. /\ todo' \in Seq(Writes)
      /\ \A i \in 1..Len(todo') : todo'[i].op \in Puts => Same(made, todo'[i].block, todo'[i].as)
      /\ \A i \in 1..Len(todo') : i + 1 \in 1..Len(todo) /\ todo'[i] = todo[i + 1]
      /\ Len(todo) \in Nat \ {0} /\ Len(todo') = Len(todo) - 1
  BY <1>1, TailKeeps
<1>3. w.op = "WriteClosedTx"
  <2>1. todo \in Seq(Writes) /\ Head(todo) = todo[1] /\ 1 \in 1..Len(todo)
    BY <1>1, <1>2, TodoTail DEF Types
  <2>2. CASE task = "prepare"
    BY <2>1, <2>2, <1>1 DEF TodoInv
  <2>3. CASE Closing(todo, cur)
    BY <2>1, <2>3, ClosingTail
  <2> QED
    BY <2>2, <2>3
<1>4. db'.closed = db.closed /\ db'.without = db.without /\ db'.last = db.last
  BY <1>1, <1>3, UpdateParts
<1>5. Stored' = Stored
  BY <1>1, <1>3, UpdateStored DEF Stored, Puts
<1>6. /\ task = "prepare" => /\ task' = IF todo' = <<>> THEN "idle" ELSE "prepare"
                             /\ \A i \in 1..Len(todo') : todo'[i].op = "WriteClosedTx"
      /\ task = "postValidate" => task' = "postValidate" /\ todo' # <<>> /\ Closing(todo', cur)
  <2>1. CASE task = "prepare"
    BY <2>1, <1>1, <1>2 DEF TodoInv, Done
  <2>2. CASE task = "postValidate"
    <3>1. todo \in Seq(Writes) /\ Closing(todo, cur)
      BY <1>1, <2>2 DEF Types
    <3>2. Closing(todo', cur)
      BY <3>1, <1>1, ClosingTail
    <3>3. todo' # <<>>
      BY <3>2 DEF Closing
    <3> QED
      BY <2>2, <3>2, <3>3, <1>1
  <2> QED
    BY <2>1, <2>2
<1> HIDE DEF w
<1>7. Types' /\ MadeInv' /\ DbInv'
  <2>1. task' \in Tasks
    BY <1>6 DEF Tasks
  <2> QED
    BY <1>2, <2>1, WriteGround
<1>8. TodoInv'
  <2>1. CASE task = "prepare"
    BY <2>1, <1>6 DEF TodoInv
  <2>2. CASE task = "postValidate"
    BY <2>2, <1>1, <1>6 DEF TodoInv
  <2> QED
    BY <2>1, <2>2
<1>9. WalkInv'
  <2>1. WalkContiguous'
    BY <1>1 DEF WalkInv, WalkContiguous
  <2>2. CASE task = "prepare"
    <3>1. walk.list = <<>> /\ ToSet(walk.list) = {}
      BY <2>2, <1>1 DEF WalkInv, ToSet
    <3> QED
      BY <2>1, <2>2, <3>1, <1>1, <1>6 DEF WalkInv
  <2>3. CASE task = "postValidate"
    BY <2>1, <2>3, <1>1, <1>5, <1>6 DEF WalkInv
  <2> QED
    BY <2>2, <2>3
<1>10. task' \in Working /\ task \in Working /\ task' # "postValidateRollback"
  BY <1>6 DEF Working
<1>11. GenesisInv'
  BY <1>1, <1>4, <1>5 DEF IInv, GenesisInv
<1>12. KeptInv'
  <2>1. CASE task = "prepare"
    BY <2>1, <1>1, <1>5, <1>6 DEF IInv, KeptInv, Ancestral
  <2>2. CASE task = "postValidate"
    BY <2>2, <1>1, <1>5, <1>6 DEF IInv, KeptInv, Ancestral
  <2> QED
    BY <2>1, <2>2
<1>13. StoreInv'
  BY <1>1, <1>5 DEF IInv, StoreInv
<1>14. BranchInv'
  <2>1. SUFFICES ASSUME Untorn, bootstrap, env.rollback PROVE BranchInv'
    BY <1>1 DEF BranchInv
  <2>2. \A x \in Blocks : ~ (db.closed[x] # None /\ db.without[x] # None)
    <3>1. w.op \notin {"DeleteClosedBlock", "DeleteClosedBlockWithoutTx"}
      BY <1>3
    <3> QED
      BY <2>1, <3>1 DEF IInv, BranchInv, w
  <2>3. /\ \A x, y \in Stored : x # y /\ made[x].prev = made[y].prev => made[x].prev = 0
        /\ tip # 0 => \A x \in Stored : made[x].prev # tip
        /\ task = "postValidate" =>
              /\ cur \notin Stored
              /\ made[cur].prev = 0 \/ \A y \in Stored : y # cur => made[y].prev # made[cur].prev
    BY <2>1, <1>10 DEF IInv, BranchInv
  <2>4. task' = "postValidate" => task = "postValidate"
    BY <1>6
  <2> QED
    BY <1>1, <1>4, <1>5, <1>10, <2>2, <2>3, <2>4 DEF BranchInv
<1>15. SoundInv'
  <2>1. SUFFICES ASSUME Sound, bootstrap PROVE SoundInv'
    BY <1>1 DEF SoundInv
  <2>2. /\ \A x, y \in Stored : made[x].height = made[y].height => x = y
        /\ \A x \in Stored : made[x].height <= made[tip].height
        /\ tip \in Stored \/ task = "postValidate" \/ (Stored = {} /\ tip = 0)
        /\ task = "postValidate" => \A x \in Stored : x # cur => made[x].height < made[cur].height
        /\ db.last # {}
    BY <2>1, <1>3, <1>10 DEF IInv, SoundInv, w
  <2>3. task' = "postValidate" <=> task = "postValidate"
    BY <1>6
  <2> QED
    BY <1>1, <1>4, <1>5, <2>2, <2>3 DEF SoundInv
<1> QED
  BY <1>7, <1>8, <1>9, <1>11, <1>12, <1>13, <1>14, <1>15 DEF IInv, Ground

\* The new block is stored, and what is to be emptied is found.
LEMMA WriteBlockKeeps ==
    ASSUME IInv, Write, task = "postValidate", Closing(todo, cur),
           Head(todo).op = "WriteClosedBlock"
    PROVE  IInv'
<1> DEFINE w == Head(todo)
<1>1. /\ Types /\ MadeInv /\ DbInv /\ TodoInv /\ WalkInv
      /\ todo # <<>> /\ w \in Writes
      /\ db \in Database /\ db' = Update(db, w) /\ db' \in Database
      /\ env' = env /\ tip' = tip /\ cur' = cur /\ walk' = walk /\ made' = made
      /\ (bootstrap' <=> bootstrap) /\ (Untorn' <=> Untorn) /\ (Sound' <=> Sound)
      /\ todo' = EndingWrites(db', cur, made[cur]) /\ task' = IF todo' = <<>> THEN Done ELSE task
      /\ Faithful(db', made)
      /\ Stored' = StoredIn(Update(db, w))
  BY WriteFacts
<1>2. cur = tip /\ cur \in Blocks /\ made[cur] \in Block /\ made[cur] # None /\ made[0] = Genesis
  BY <1>1, MadeFacts DEF TodoInv
<1>3. w.block = cur /\ w.op = "WriteClosedBlock"
  <2>1. todo \in Seq(Writes)
    BY <1>1 DEF Types
  <2>2. Head(todo) = todo[1] /\ Len(todo) \in Nat \ {0}
    BY <1>1, <2>1, TodoTail
  <2>3. Len(todo) # 1 => 1 \in 1..(Len(todo) - 1)
    BY <2>2
  <2> QED
    BY <2>2, <2>3 DEF Closing
<1>4. /\ todo' \in Seq(Writes)
      /\ Ending(todo', db')
      /\ \A i \in 1..Len(todo') : todo'[i].op \in Puts => Same(made, todo'[i].block, todo'[i].as)
  BY <1>1, <1>2, EndingWritesType
<1>5. todo' # <<>> /\ task' = "postValidate" /\ ~ Closing(todo', cur)
  <2>1. todo' # <<>> /\ todo'[Len(todo')].op = "WriteLastClosedBlock"
    BY <1>4 DEF Ending
  <2> QED
    BY <2>1, <1>1 DEF Closing
<1> HIDE DEF w
<1>6. /\ db'.closed = [db.closed EXCEPT ![cur] = w.as]
      /\ db'.without = db.without /\ db'.last = db.last
  BY <1>1, <1>3, UpdateParts
<1>7. Stored' = Stored \cup {cur}
  BY <1>1, <1>3, UpdateStored DEF Stored, Puts
<1>8. Types' /\ MadeInv' /\ DbInv'
  <2>1. task' \in Tasks
    BY <1>5 DEF Tasks
  <2> QED
    BY <1>4, <2>1, WriteGround
<1>9. TodoInv'
  BY <1>1, <1>2, <1>4, <1>5, <1>7 DEF TodoInv
<1>10. WalkInv'
  <2>1. WalkContiguous'
    BY <1>1 DEF WalkInv, WalkContiguous
  <2> QED
    BY <2>1, <1>1, <1>5, <1>7 DEF WalkInv
<1>11. GenesisInv'
  BY <1>1, <1>6, <1>7 DEF IInv, GenesisInv
<1>12. KeptInv'
  BY <1>1, <1>5, <1>7 DEF IInv, KeptInv, Ancestral
<1>13. StoreInv'
  <2>1. SUFFICES ASSUME Untorn, bootstrap PROVE \A x \in Stored' : made[x].prev \in Stored'
    BY <1>1 DEF StoreInv
  <2>2. PICK A \in SUBSET Blocks : tip \in A /\ Ancestral(A) /\ A \subseteq Stored \cup {cur}
    BY <2>1 DEF IInv, KeptInv
  <2>3. made[cur].prev \in Stored'
    BY <2>2, <1>2, <1>7 DEF Ancestral
  <2> QED
    BY <2>1, <2>3, <1>7 DEF IInv, StoreInv
<1>14. /\ Stored \subseteq Blocks
       /\ \A x \in Blocks : x \in Stored <=> db.closed[x] # None \/ db.without[x] # None
       /\ db.closed \in Bucket
  BY <1>1, StoredFacts
<1>15. BranchInv'
  <2>1. SUFFICES ASSUME Untorn, bootstrap, env.rollback PROVE BranchInv'
    BY <1>1 DEF BranchInv
  <2>2. \A x \in Blocks : ~ (db.closed[x] # None /\ db.without[x] # None)
    <3>1. w.op \notin {"DeleteClosedBlock", "DeleteClosedBlockWithoutTx"}
      BY <1>3
    <3> QED
      BY <2>1, <3>1 DEF IInv, BranchInv, w
  <2>3. /\ \A x, y \in Stored : x # y /\ made[x].prev = made[y].prev => made[x].prev = 0
        /\ tip # 0 => \A x \in Stored : made[x].prev # tip
        /\ cur \notin Stored
        /\ made[cur].prev = 0 \/ \A y \in Stored : y # cur => made[y].prev # made[cur].prev
    BY <2>1 DEF IInv, BranchInv, Working
  <2>4. \A x \in Blocks : ~ (db'.closed[x] # None /\ db'.without[x] # None)
    BY <2>2, <2>3, <1>2, <1>6, <1>14 DEF Bucket
  <2>5. \A x, y \in Stored' : x # y /\ made[x].prev = made[y].prev => made[x].prev = 0
    BY <2>3, <1>7
  <2>6. tip # 0 => \A x \in Stored' : made[x].prev # tip
    <3>1. tip # 0 => made[tip].prev # tip
      BY <1>1, <1>2, MadeFacts
    <3> QED
      BY <3>1, <2>3, <1>2, <1>7
  <2>7. made[cur].prev = 0 \/ \A y \in Stored' : y # cur => made[y].prev # made[cur].prev
    BY <2>3, <1>7
  <2> QED
    BY <1>1, <1>5, <2>4, <2>5, <2>6, <2>7 DEF BranchInv
<1>16. SoundInv'
  <2>1. SUFFICES ASSUME Sound, bootstrap PROVE SoundInv'
    BY <1>1 DEF SoundInv
  <2>2. /\ \A x, y \in Stored : made[x].height = made[y].height => x = y
        /\ \A x \in Stored : made[x].height <= made[tip].height
        /\ \A x \in Stored : x # cur => made[x].height < made[cur].height
        /\ db.last # {}
    BY <2>1, <1>3 DEF IInv, SoundInv, w
  <2>3. \A x \in Stored \cup {cur} : made[x].height \in Nat
    BY <1>1, <1>2, StoredFacts, MadeFacts
  <2>4. \A x, y \in Stored' : made[x].height = made[y].height => x = y
    BY <2>2, <2>3, <1>7
  <2>5. \A x \in Stored' : made[x].height <= made[tip].height
    BY <2>2, <2>3, <1>2, <1>7
  <2>6. \A x \in Stored' : x # cur => made[x].height < made[cur].height
    BY <2>2, <1>7
  <2> QED
    BY <1>1, <1>5, <1>6, <2>2, <2>4, <2>5, <2>6 DEF SoundInv
<1> QED
  BY <1>8, <1>9, <1>10, <1>11, <1>12, <1>13, <1>15, <1>16 DEF IInv, Ground

\* A write after the new block was stored: an old block is emptied, or the last
\* closed block replaced.
LEMMA WriteEndingKeeps ==
    ASSUME IInv, Write, task = "postValidate", Ending(todo, db), cur \in Stored
    PROVE  IInv'
<1> DEFINE w == Head(todo)
<1>1. /\ Types /\ MadeInv /\ DbInv /\ TodoInv /\ WalkInv
      /\ todo # <<>> /\ w \in Writes
      /\ db \in Database /\ db' = Update(db, w)
      /\ env' = env /\ tip' = tip /\ cur' = cur /\ walk' = walk /\ made' = made
      /\ (bootstrap' <=> bootstrap) /\ (Untorn' <=> Untorn) /\ (Sound' <=> Sound)
      /\ todo' = IF w.op = "WriteClosedBlock"
                 THEN EndingWrites(db', cur, made[cur]) ELSE Tail(todo)
      /\ task' = IF todo' = <<>> THEN Done ELSE task
      /\ Stored' = StoredIn(Update(db, w))
  BY WriteFacts
<1>2. todo \in Seq(Writes) /\ cur = tip
  BY <1>1 DEF Types, TodoInv
<1>3. /\ StoredIn(Update(db, w)) = StoredIn(db)
      /\ w.op \in {"WriteClosedBlockWithoutTx", "DeleteClosedBlock",
                   "DeleteAllLastClosedBlock", "WriteLastClosedBlock"}
      /\ w.op = "WriteLastClosedBlock" <=> Tail(todo) = <<>>
      /\ Tail(todo) # <<>> => Ending(Tail(todo), Update(db, w))
      /\ w.op = "WriteClosedBlockWithoutTx" =>
            /\ w.block # 0
            /\ Tail(todo) # <<>>
            /\ Head(Tail(todo)).op = "DeleteClosedBlock"
            /\ Head(Tail(todo)).block = w.block
      /\ w.op = "DeleteAllLastClosedBlock" =>
            Tail(todo) # <<>> /\ Head(Tail(todo)).op = "WriteLastClosedBlock"
  BY <1>1, <1>2, EndingTail
<1>4. todo' = Tail(todo)
  BY <1>1, <1>3
<1>5. Stored' = Stored
  BY <1>1, <1>3 DEF Stored
<1>6. /\ todo' \in Seq(Writes)
      /\ \A i \in 1..Len(todo') : todo'[i].op \in Puts => Same(made, todo'[i].block, todo'[i].as)
  BY <1>4, TailKeeps
<1>7. task' = IF todo' # <<>> THEN "postValidate" ELSE IF walk.list # <<>> THEN "replay" ELSE "idle"
  <2>1. Done = IF walk.list # <<>> THEN "replay" ELSE "idle"
    BY DEF Done
  <2> QED
    BY <2>1, <1>1
<1>8. todo' # <<>> => Ending(todo', db') /\ ~ Closing(todo', cur)
  <2>1. todo' # <<>> => Ending(todo', db')
    BY <1>1, <1>3, <1>4
  <2> QED
    BY <2>1 DEF Ending, Closing
<1> HIDE DEF w
<1>9. /\ db'.closed = IF w.op = "DeleteClosedBlock" THEN [db.closed EXCEPT ![w.block] = None] ELSE db.closed
      /\ db'.without = IF w.op = "WriteClosedBlockWithoutTx"
                       THEN [db.without EXCEPT ![w.block] = w.as] ELSE db.without
      /\ w.op = "DeleteAllLastClosedBlock" \/ w.op = "WriteLastClosedBlock" \/ db'.last = db.last
      /\ w.op = "WriteLastClosedBlock" => db'.last # {}
  <2>0. /\ db'.closed =
                 IF w.op = "WriteClosedBlock" THEN [db.closed EXCEPT ![w.block] = w.as]
                 ELSE IF w.op = "DeleteClosedBlock" THEN [db.closed EXCEPT ![w.block] = None]
                 ELSE db.closed
        /\ db'.without =
                 IF w.op = "WriteClosedBlockWithoutTx" THEN [db.without EXCEPT ![w.block] = w.as]
                 ELSE IF w.op = "DeleteClosedBlockWithoutTx" THEN [db.without EXCEPT ![w.block] = None]
                 ELSE db.without
        /\ db'.last =
                 IF w.op = "DeleteAllLastClosedBlock" THEN {}
                 ELSE IF w.op = "WriteLastClosedBlock" THEN db.last \cup {w.block}
                 ELSE db.last
    BY <1>1, UpdateParts
  <2> QED
    BY <2>0, <1>3
<1>10. Types' /\ MadeInv' /\ DbInv'
  <2>1. task' \in Tasks
    BY <1>7 DEF Tasks
  <2> QED
    BY <1>6, <2>1, WriteGround
<1>11. TodoInv'
  BY <1>1, <1>2, <1>5, <1>7, <1>8 DEF TodoInv
<1>12. bootstrap => walk.list = <<>>
  BY <1>1 DEF WalkInv
<1>13. WalkInv'
  <2>1. WalkContiguous'
    BY <1>1 DEF WalkInv, WalkContiguous
  <2> QED
    BY <2>1, <1>1, <1>5, <1>7 DEF WalkInv
<1>14. /\ db.closed \in Bucket /\ db.without \in Bucket /\ 0 \in Blocks
       /\ \A x \in Blocks : x \in Stored <=> db.closed[x] # None \/ db.without[x] # None
  BY <1>1, StoredFacts, FiniteParts
<1>15. GenesisInv'
  <2>1. bootstrap => 0 \in Stored /\ db.without[0] = None
    BY DEF IInv, GenesisInv
  <2>2. db'.without[0] = db.without[0]
    BY <1>3, <1>9, <1>14 DEF Bucket
  <2> QED
    BY <2>1, <2>2, <1>1, <1>5 DEF GenesisInv
<1>16. KeptInv'
  <2>1. SUFFICES ASSUME Untorn
                 PROVE  \E A \in SUBSET Blocks : tip \in A /\ Ancestral(A) /\ A \subseteq Stored
    BY <1>1, <1>5, <1>7 DEF KeptInv, Ancestral
  <2>2. PICK A \in SUBSET Blocks : tip \in A /\ Ancestral(A) /\ A \subseteq Stored \cup {cur}
    BY <2>1 DEF IInv, KeptInv
  <2> QED
    BY <2>2
<1>17. StoreInv'
  BY <1>1, <1>5 DEF IInv, StoreInv
<1>18. BranchInv'
  <2>1. SUFFICES ASSUME Untorn, bootstrap, env.rollback PROVE BranchInv'
    BY <1>1 DEF BranchInv
  <2>2. /\ \A x \in Blocks : db.closed[x] # None /\ db.without[x] # None =>
              w.op \in {"DeleteClosedBlock", "DeleteClosedBlockWithoutTx"} /\ w.block = x
        /\ \A x, y \in Stored : x # y /\ made[x].prev = made[y].prev => made[x].prev = 0
        /\ tip # 0 => \A x \in Stored : made[x].prev # tip
        /\ made[cur].prev = 0 \/ \A y \in Stored : y # cur => made[y].prev # made[cur].prev
    BY <2>1 DEF IInv, BranchInv, Working, w
  <2>3. ASSUME NEW x \in Blocks, db'.closed[x] # None, db'.without[x] # None
        PROVE  todo' # <<>> /\ Head(todo').op = "DeleteClosedBlock" /\ Head(todo').block = x
    <3>1. CASE w.op = "WriteClosedBlockWithoutTx"
      <4>1. x = w.block
        BY <2>2, <2>3, <3>1, <1>9, <1>14 DEF Bucket
      <4> QED
        BY <4>1, <3>1, <1>3, <1>4
    <3>2. CASE w.op = "DeleteClosedBlock"
      BY <2>2, <2>3, <3>2, <1>9, <1>14 DEF Bucket
    <3>3. CASE w.op \in {"DeleteAllLastClosedBlock", "WriteLastClosedBlock"}
      BY <2>2, <2>3, <3>3, <1>9
    <3> QED
      BY <1>3, <3>1, <3>2, <3>3
  <2>4. task' = "postValidate" => todo' # <<>>
    BY <1>7
  <2> QED
    BY <1>1, <1>5, <1>7, <1>8, <2>2, <2>3, <2>4 DEF BranchInv
<1>19. SoundInv'
  <2>1. SUFFICES ASSUME Sound, bootstrap PROVE SoundInv'
    BY <1>1 DEF SoundInv
  <2>2. /\ \A x, y \in Stored : made[x].height = made[y].height => x = y
        /\ \A x \in Stored : made[x].height <= made[tip].height
        /\ \A x \in Stored : x # cur => made[x].height < made[cur].height
        /\ db.last = {} => w.op = "WriteLastClosedBlock"
    BY <2>1 DEF IInv, SoundInv, w
  <2>3. db'.last = {} => todo' # <<>> /\ Head(todo').op = "WriteLastClosedBlock" /\ task' # "genesis"
    <3>1. SUFFICES ASSUME db'.last = {}
                   PROVE  todo' # <<>> /\ Head(todo').op = "WriteLastClosedBlock" /\ task' # "genesis"
      OBVIOUS
    <3>2. w.op = "DeleteAllLastClosedBlock"
      BY <3>1, <2>2, <1>9
    <3> QED
      BY <3>2, <1>3, <1>4, <1>7
  <2>4. tip \in Stored
    BY <1>2
  <2> QED
    BY <1>1, <1>5, <1>7, <2>2, <2>3, <2>4 DEF SoundInv
<1> QED
  BY <1>10, <1>11, <1>13, <1>15, <1>16, <1>17, <1>18, <1>19 DEF IInv, Ground

\* A write of a rollback.
LEMMA WriteRollbackKeeps ==
    ASSUME IInv, Write, task = "postValidateRollback"
    PROVE  IInv'
<1> DEFINE w == Head(todo)
<1>1. /\ Types /\ MadeInv /\ DbInv /\ TodoInv /\ WalkInv
      /\ todo # <<>> /\ w \in Writes
      /\ db \in Database /\ db' = Update(db, w)
      /\ env' = env /\ tip' = tip /\ cur' = cur /\ walk' = walk /\ made' = made
      /\ (bootstrap' <=> bootstrap) /\ (Untorn' <=> Untorn) /\ (Sound' <=> Sound)
      /\ todo' = Tail(todo)
      /\ task' = IF todo' = <<>> THEN Done ELSE task
      /\ Stored' = StoredIn(Update(db, w))
  BY WriteFacts
<1>2. /\ todo \in Seq(Writes) /\ env.rollback
      /\ cur \in Blocks \ {0} /\ made[cur] # None /\ tip = made[cur].prev
      /\ Reopening(todo, db, cur)
  BY <1>1 DEF Types, TodoInv
<1>3. /\ w.op \in {"WriteClosedTx", "DeleteClosedTx", "WriteClosedBlock",
                   "DeleteClosedBlockWithoutTx", "DeleteClosedBlock",
                   "DeleteAllLastClosedBlock", "WriteLastClosedBlock"}
      /\ w.op # "DeleteClosedBlock" => StoredIn(Update(db, w)) = StoredIn(db)
      /\ w.op = "DeleteClosedBlock" =>
            /\ w.block = cur
            /\ StoredIn(Update(db, w)) = IF db.without[cur] # None THEN StoredIn(db)
                                         ELSE StoredIn(db) \ {cur}
      /\ w.op = "WriteLastClosedBlock" <=> Tail(todo) = <<>>
      /\ Tail(todo) # <<>> => Reopening(Tail(todo), Update(db, w), cur)
      /\ w.op = "WriteClosedBlock" =>
            /\ w.block \in StoredIn(db) \ {cur}
            /\ Tail(todo) # <<>>
            /\ Head(Tail(todo)).op = "DeleteClosedBlockWithoutTx"
            /\ Head(Tail(todo)).block = w.block
      /\ w.op = "DeleteAllLastClosedBlock" =>
            Len(todo) = 2 /\ Tail(todo) # <<>> /\ Head(Tail(todo)).op = "WriteLastClosedBlock"
  BY <1>1, <1>2, ReopeningTail
<1>4. /\ Stored' = Stored \/ (Stored' = Stored \ {cur} /\ w.op = "DeleteClosedBlock")
      /\ w.op = "DeleteClosedBlock" /\ db.without[cur] = None => cur \notin Stored'
  BY <1>1, <1>3 DEF Stored
<1>5. /\ todo' \in Seq(Writes)
      /\ \A i \in 1..Len(todo') : todo'[i].op \in Puts => Same(made, todo'[i].block, todo'[i].as)
      /\ \A i \in 1..Len(todo') : i + 1 \in 1..Len(todo) /\ todo'[i] = todo[i + 1]
      /\ Len(todo) \in Nat \ {0} /\ Len(todo') = Len(todo) - 1
      /\ w = todo[1]
  BY <1>1, <1>2, TailKeeps, TodoTail
<1>6. task' = IF todo' = <<>> THEN "idle" ELSE "postValidateRollback"
  BY <1>1 DEF Done
<1>7. todo' # <<>> => Reopening(todo', db', cur)
  BY <1>1, <1>3
<1> HIDE DEF w
<1>8. /\ db'.closed = IF w.op = "WriteClosedBlock" THEN [db.closed EXCEPT ![w.block] = w.as]
                      ELSE IF w.op = "DeleteClosedBlock" THEN [db.closed EXCEPT ![w.block] = None]
                      ELSE db.closed
      /\ db'.without = IF w.op = "DeleteClosedBlockWithoutTx"
                       THEN [db.without EXCEPT ![w.block] = None] ELSE db.without
      /\ w.op = "DeleteAllLastClosedBlock" \/ w.op = "WriteLastClosedBlock" \/ db'.last = db.last
      /\ w.op = "WriteLastClosedBlock" => db'.last # {}
  <2>0. /\ db'.closed =
                 IF w.op = "WriteClosedBlock" THEN [db.closed EXCEPT ![w.block] = w.as]
                 ELSE IF w.op = "DeleteClosedBlock" THEN [db.closed EXCEPT ![w.block] = None]
                 ELSE db.closed
        /\ db'.without =
                 IF w.op = "WriteClosedBlockWithoutTx" THEN [db.without EXCEPT ![w.block] = w.as]
                 ELSE IF w.op = "DeleteClosedBlockWithoutTx" THEN [db.without EXCEPT ![w.block] = None]
                 ELSE db.without
        /\ db'.last =
                 IF w.op = "DeleteAllLastClosedBlock" THEN {}
                 ELSE IF w.op = "WriteLastClosedBlock" THEN db.last \cup {w.block}
                 ELSE db.last
    BY <1>1, UpdateParts
  <2> QED
    BY <2>0, <1>3
<1>9. Types' /\ MadeInv' /\ DbInv'
  <2>1. task' \in Tasks
    BY <1>6 DEF Tasks
  <2> QED
    BY <1>5, <2>1, WriteGround
<1>10. TodoInv'
  BY <1>1, <1>2, <1>6, <1>7 DEF TodoInv
<1>11. WalkInv'
  <2>1. walk.list = <<>> /\ ToSet(walk.list) = {}
    BY <1>1 DEF WalkInv, ToSet
  <2>2. WalkContiguous'
    BY <1>1 DEF WalkInv, WalkContiguous
  <2> QED
    BY <2>1, <2>2, <1>1, <1>6 DEF WalkInv
<1>12. /\ db.closed \in Bucket /\ db.without \in Bucket /\ 0 \in Blocks
       /\ Stored \subseteq Blocks
       /\ \A x \in Blocks : x \in Stored <=> db.closed[x] # None \/ db.without[x] # None
  BY <1>1, StoredFacts, FiniteParts
<1>13. bootstrap => 0 \in Stored /\ db.without[0] = None
  BY DEF IInv, GenesisInv
<1>14. GenesisInv'
  <2>1. bootstrap => db'.without[0] = None
    BY <1>8, <1>12, <1>13 DEF Bucket
  <2> QED
    BY <2>1, <1>1, <1>2, <1>4, <1>13 DEF GenesisInv
<1>15. KeptInv'
  <2>1. SUFFICES ASSUME Untorn
                 PROVE  \E A \in SUBSET Blocks :
                           tip \in A /\ Ancestral(A) /\ A \subseteq Stored' /\ cur \notin A
    BY <1>1, <1>6 DEF KeptInv, Ancestral
  <2>2. PICK A \in SUBSET Blocks : tip \in A /\ Ancestral(A) /\ A \subseteq Stored /\ cur \notin A
    BY <2>1 DEF IInv, KeptInv
  <2>3. A \subseteq Stored'
    BY <2>2, <1>4
  <2> QED
    BY <2>2, <2>3
<1>16. ASSUME Untorn, bootstrap
       PROVE  /\ \A x \in Blocks : db.closed[x] # None /\ db.without[x] # None =>
                    /\ w.op \in {"DeleteClosedBlock", "DeleteClosedBlockWithoutTx"} /\ w.block = x
                    /\ x # cur
              /\ \A x, y \in Stored : x # y /\ made[x].prev = made[y].prev => made[x].prev = 0
              /\ tip # 0 => \A x \in Stored : made[x].prev = tip => x = cur
              /\ \A x \in Stored : made[x].prev # cur
              /\ db.without[cur] = None
              /\ cur \in Stored => Len(todo) >= 3 /\ todo[Len(todo) - 2].op = "DeleteClosedBlock"
  BY <1>16, <1>2 DEF IInv, BranchInv, Working, w
<1>17. StoreInv'
  <2>1. SUFFICES ASSUME Untorn, bootstrap PROVE \A x \in Stored' : made[x].prev \in Stored'
    BY <1>1 DEF StoreInv
  <2>2. \A x \in Stored : made[x].prev \in Stored /\ made[x].prev # cur
    BY <2>1, <1>16 DEF IInv, StoreInv
  <2> QED
    BY <2>2, <1>4
<1>18. ASSUME Untorn, bootstrap, cur \in Stored'
       PROVE  Len(todo') >= 3 /\ todo'[Len(todo') - 2].op = "DeleteClosedBlock"
  <2>1. Len(todo) >= 3 /\ todo[Len(todo) - 2].op = "DeleteClosedBlock" /\ db.without[cur] = None
    BY <1>4, <1>16, <1>18
  <2>2. Len(todo) # 3
    BY <2>1, <1>4, <1>5, <1>18
  <2>3. Len(todo') >= 3 /\ Len(todo') - 2 \in 1..Len(todo') /\ Len(todo') - 2 + 1 = Len(todo) - 2
    BY <2>1, <2>2, <1>5
  <2>4. todo'[Len(todo') - 2] = todo[Len(todo') - 2 + 1]
    BY <2>3, <1>5
  <2> QED
    BY <2>1, <2>3, <2>4
<1>19. ASSUME Untorn, bootstrap, todo' = <<>> PROVE cur \notin Stored'
  <2>1. Len(todo') = 0
    BY <1>19, EmptySeq
  <2> QED
    BY <2>1, <1>18, <1>19
<1>20. BranchInv'
  <2>1. SUFFICES ASSUME Untorn, bootstrap PROVE BranchInv'
    BY <1>1 DEF BranchInv
  <2>2. ASSUME NEW x \in Blocks, db'.closed[x] # None, db'.without[x] # None
        PROVE  /\ todo' # <<>> /\ Head(todo').op = "DeleteClosedBlockWithoutTx"
               /\ Head(todo').block = x /\ x # cur
    <3>1. CASE w.op = "WriteClosedBlock"
      <4>1. x = w.block
        BY <2>1, <2>2, <3>1, <1>8, <1>12, <1>16 DEF Bucket
      <4> QED
        BY <4>1, <3>1, <1>1, <1>3
    <3>2. CASE w.op = "DeleteClosedBlock"
      BY <2>1, <2>2, <3>2, <1>8, <1>12, <1>16 DEF Bucket
    <3>3. CASE w.op = "DeleteClosedBlockWithoutTx"
      BY <2>1, <2>2, <3>3, <1>8, <1>12, <1>16 DEF Bucket
    <3>4. CASE w.op \in {"WriteClosedTx", "DeleteClosedTx", "DeleteAllLastClosedBlock", "WriteLastClosedBlock"}
      BY <2>1, <2>2, <3>4, <1>8, <1>16
    <3> QED
      BY <1>3, <3>1, <3>2, <3>3, <3>4
  <2>3. Stored' \subseteq Stored
    BY <1>4
  <2>4. db'.without[cur] = None
    BY <2>1, <1>2, <1>8, <1>12, <1>16 DEF Bucket
  <2>5. tip # 0 => \A x \in Stored' : made[x].prev = tip => task' = "postValidateRollback" /\ x = cur
    BY <2>1, <2>3, <1>6, <1>16, <1>19
  <2> QED
    BY <1>1, <1>6, <1>16, <1>18, <2>1, <2>2, <2>3, <2>4, <2>5 DEF BranchInv
<1>21. SoundInv'
  <2>1. SUFFICES ASSUME Sound, bootstrap PROVE SoundInv'
    BY <1>1 DEF SoundInv
  <2>2. Untorn
    BY <2>1, SoundUntorn
  <2>3. /\ \A x, y \in Stored : made[x].height = made[y].height => x = y
        /\ \A x \in Stored : made[x].height <= made[tip].height \/ x = cur
        /\ tip \in Stored \/ tip = 0
        /\ db.last = {} => w.op = "WriteLastClosedBlock"
    BY <2>1 DEF IInv, SoundInv, w
  <2>4. tip \in Stored'
    <3>1. tip # cur
      BY <1>1, <1>2, MadeFacts
    <3> QED
      BY <3>1, <2>1, <2>3, <1>4, <1>13
  <2>5. db'.last = {} => todo' # <<>> /\ Head(todo').op = "WriteLastClosedBlock" /\ task' # "genesis"
    <3>1. SUFFICES ASSUME db'.last = {}
                   PROVE  todo' # <<>> /\ Head(todo').op = "WriteLastClosedBlock" /\ task' # "genesis"
      OBVIOUS
    <3>2. w.op = "DeleteAllLastClosedBlock"
      BY <3>1, <2>3, <1>8
    <3> QED
      BY <3>2, <1>1, <1>3, <1>6
  <2>6. \A x \in Stored' : made[x].height <= made[tip].height \/ (task' = "postValidateRollback" /\ x = cur)
    BY <2>1, <2>2, <2>3, <1>4, <1>6, <1>19
  <2>7. \A x, y \in Stored' : made[x].height = made[y].height => x = y
    BY <2>3, <1>4
  <2>8. task' # "postValidate"
    BY <1>6
  <2> QED
    BY <1>1, <2>4, <2>5, <2>6, <2>7, <2>8 DEF SoundInv
<1> QED
  BY <1>9, <1>10, <1>11, <1>14, <1>15, <1>17, <1>20, <1>21 DEF IInv, Ground

LEMMA WriteKeeps ==
    ASSUME IInv, Write
    PROVE  IInv'
<1>1. /\ todo # <<>> /\ task \in Tasks /\ TodoInv
  BY WriteFacts DEF Types
<1>2. task \in {"walk", "genesis", "prepare", "postValidate", "postValidateRollback"}
  BY <1>1 DEF TodoInv, Tasks
<1>3. task = "postValidate" => Closing(todo, cur) \/ (Ending(todo, db) /\ cur \in Stored)
  BY <1>1 DEF TodoInv
<1>4. ASSUME task = "prepare" PROVE Head(todo).op # "WriteClosedBlock"
  <2>1. todo \in Seq(Writes)
    BY WriteFacts DEF Types
  <2>2. Head(todo) = todo[1] /\ Len(todo) \in Nat \ {0}
    BY <1>1, <2>1, TodoTail
  <2>3. 1 \in 1..Len(todo)
    BY <2>2
  <2> QED
    BY <2>2, <2>3, <1>1, <1>4 DEF TodoInv
<1> QED
  BY <1>2, <1>3, <1>4, WriteWalkKeeps, WriteGenesisKeeps, WriteTxKeeps, WriteBlockKeeps,
     WriteEndingKeeps, WriteRollbackKeeps

----------------------------------------------------------------------------
(* Crashes.                                                                *)

LEMMA NoEffectType == "pool" \in DOMAIN NoEffect /\ NoEffect.pool \in [Txs -> TxRec]
<1>1. NoTx \in TxRec
  BY DEF NoTx, TxRec
<1> QED
  BY <1>1 DEF NoEffect

\* What is known of the place where the process dies.
LEMMA CrashPoint ==
    ASSUME IInv, task \notin {"down", "failed"}
    PROVE  /\ todo # <<>> => Point = <<task, Head(todo).op>>
           /\ todo # <<>> /\ Head(todo).op = "DeleteClosedBlock" =>
                 task = "postValidate" \/ (task = "postValidateRollback" /\ Head(todo).block = cur)
           /\ todo # <<>> /\ Head(todo).op = "DeleteClosedBlockWithoutTx" => task = "postValidateRollback"
           /\ task = "postValidate" =>
                 /\ todo # <<>>
                 /\ \/ Head(todo).op \in {"WriteClosedTx", "WriteClosedBlock"}
                    \/ cur = tip /\ cur \in Stored /\ Head(todo).op # "-"
           /\ task = "postValidateRollback" =>
                 /\ todo # <<>> /\ Head(todo).op # "-"
                 /\ Head(todo).op = "DeleteAllLastClosedBlock" => Len(todo) = 2
<1>0. Types /\ TodoInv
  BY DEF IInv, Ground
<1>1. todo \in Seq(Writes) /\ db \in Database /\ task \in Tasks
  BY <1>0 DEF Types
<1>2. todo # <<>> => Head(todo) = todo[1] /\ 1 \in 1..Len(todo)
  <2>1. SUFFICES ASSUME todo # <<>> PROVE Head(todo) = todo[1] /\ 1 \in 1..Len(todo)
    OBVIOUS
  <2>2. Head(todo) = todo[1] /\ Len(todo) \in Nat \ {0}
    BY <1>1, <2>1, TodoTail
  <2> QED
    BY <2>2
<1>3. todo # <<>> => Point = <<task, Head(todo).op>>
  BY DEF Point
<1>4. ASSUME task = "postValidate"
      PROVE  /\ todo # <<>> /\ Head(todo).op # "DeleteClosedBlockWithoutTx"
             /\ \/ Head(todo).op \in {"WriteClosedTx", "WriteClosedBlock"}
                \/ cur = tip /\ cur \in Stored /\ Head(todo).op # "-"
  <2>1. cur = tip /\ (Closing(todo, cur) \/ (Ending(todo, db) /\ cur \in Stored))
    BY <1>0, <1>4 DEF TodoInv
  <2>2. CASE Closing(todo, cur)
    <3>1. todo # <<>>
      BY <2>2 DEF Closing
    <3>2. Head(todo).op # "WriteClosedBlock" => Head(todo).op = "WriteClosedTx"
      BY <2>2, <1>1, ClosingTail
    <3> QED
      BY <3>1, <3>2
  <2>3. CASE Ending(todo, db) /\ cur \in Stored
    <3>1. todo # <<>>
      BY <2>3 DEF Ending
    <3>2. Head(todo).op \in {"WriteClosedBlockWithoutTx", "DeleteClosedBlock",
                             "DeleteAllLastClosedBlock", "WriteLastClosedBlock"}
      BY <2>3, <1>1, EndingTail
    <3> QED
      BY <2>1, <2>3, <3>1, <3>2
  <2> QED
    BY <2>1, <2>2, <2>3
<1>5. ASSUME task = "postValidateRollback"
      PROVE  /\ todo # <<>> /\ Head(todo).op # "-"
             /\ Head(todo).op = "DeleteClosedBlock" => Head(todo).block = cur
             /\ Head(todo).op = "DeleteAllLastClosedBlock" => Len(todo) = 2
  <2>1. Reopening(todo, db, cur)
    BY <1>0, <1>5 DEF TodoInv
  <2>2. todo # <<>>
    BY <2>1 DEF Reopening
  <2>3. /\ Head(todo).op \in {"WriteClosedTx", "DeleteClosedTx", "WriteClosedBlock",
                              "DeleteClosedBlockWithoutTx", "DeleteClosedBlock",
                              "DeleteAllLastClosedBlock", "WriteLastClosedBlock"}
        /\ Head(todo).op = "DeleteClosedBlock" => Head(todo).block = cur
        /\ Head(todo).op = "DeleteAllLastClosedBlock" => Len(todo) = 2
    BY <2>1, <1>1, ReopeningTail
  <2> QED
    BY <2>2, <2>3
<1>6. ASSUME task \notin {"postValidate", "postValidateRollback"}, todo # <<>>
      PROVE  Head(todo).op \notin {"DeleteClosedBlock", "DeleteClosedBlockWithoutTx"}
  <2>1. task \in {"walk", "prepare", "genesis"}
    BY <1>0, <1>1, <1>6 DEF TodoInv, Tasks
  <2>2. CASE task = "walk"
    BY <2>2, <1>0, <1>2, <1>6 DEF TodoInv, Puts
  <2>3. CASE task = "prepare"
    BY <2>3, <1>0, <1>2, <1>6 DEF TodoInv
  <2>4. CASE task = "genesis"
    <3>1. todo[1] = WriteLastClosedBlock(0) \/ todo[1] = WriteClosedBlock(0, Genesis)
      BY <2>4, <1>0 DEF TodoInv
    <3> QED
      BY <3>1, <1>2, <1>6 DEF WriteLastClosedBlock, WriteClosedBlock
  <2> QED
    BY <2>1, <2>2, <2>3, <2>4
<1> QED
  BY <1>3, <1>4, <1>5, <1>6

LEMMA CrashKeeps ==
    ASSUME IInv, Crash
    PROVE  IInv'
<1>0. Types /\ MadeInv /\ DbInv /\ TodoInv
  BY DEF IInv, Ground
<1>1. /\ task \notin {"down", "failed"} /\ Point \in env.crash
      /\ mem' = NoEffect /\ task' = "down" /\ todo' = <<>> /\ prepared' = None
      /\ cur' = IF task = "idle" THEN None ELSE cur
      /\ walk' = [NoWalk EXCEPT !.lost = walk.lost]
      /\ env' = env /\ db' = db /\ tip' = tip /\ made' = made
  BY DEF Crash
<1>2. /\ walk' \in Walk /\ walk'.list = <<>> /\ walk'.last = None /\ walk'.chan = None
      /\ walk'.net = {} /\ walk'.stash = <<>>
  <2>1. walk.lost \in Nat
    BY <1>0 DEF Types, Walk
  <2> DEFINE l == walk.lost
  <2>2. l \in Nat /\ walk' = [NoWalk EXCEPT !.lost = l]
    BY <1>1, <2>1
  <2> HIDE DEF l
  <2>3. walk' = [last |-> None, list |-> <<>>, net |-> {}, chan |-> None, stash |-> <<>>, lost |-> l]
    BY <2>2 DEF NoWalk
  <2> DEFINE e == <<>>
  <2>4. e \in Seq(Blocks)
    BY EmptySeq
  <2>5. walk' = [last |-> None, list |-> e, net |-> {}, chan |-> None, stash |-> e, lost |-> l]
    BY <2>3
  <2> HIDE DEF e
  <2>6. walk' \in Walk
    <3>1. l \in Nat /\ {} \in SUBSET Blocks /\ None \in Blocks \cup {None}
      BY <2>2
    <3>2. [last |-> None, list |-> e, net |-> {}, chan |-> None, stash |-> e, lost |-> l] \in Walk
      BY <3>1, <2>4 DEF Walk
    <3> QED
      BY <3>2, <2>5
  <2>7. /\ walk'.list = e /\ walk'.last = None /\ walk'.chan = None
        /\ walk'.net = {} /\ walk'.stash = e
    BY <2>5
  <2> QED
    BY <2>6, <2>7 DEF e
<1>3. Stored' = Stored /\ (bootstrap' <=> bootstrap) /\ (Untorn' <=> Untorn) /\ (Sound' <=> Sound)
  BY <1>1, EnvFrame DEF Stored
<1>4. Types'
  <2>1. task' \in Tasks /\ cur' \in Blocks \cup {None} /\ todo' \in Seq(Writes)
    BY <1>0, <1>1 DEF Tasks, Types
  <2> QED
    BY <1>0, <1>1, <1>2, <2>1, NoEffectType DEF Types
<1>5. MadeInv'
  BY <1>0, <1>1 DEF MadeInv
<1>6. DbInv'
  BY <1>0, <1>1 DEF DbInv
<1>7. TodoInv'
  BY <1>1 DEF TodoInv
<1>8. WalkInv'
  <2>1. ToSet(walk'.list) = {} /\ Len(walk'.list) = 0
    BY <1>2 DEF ToSet
  <2>2. WalkContiguous'
    BY <2>1 DEF WalkContiguous
  <2> QED
    BY <1>1, <1>2, <2>1, <2>2 DEF WalkInv
<1>9. GenesisInv'
  BY <1>1, <1>3 DEF IInv, GenesisInv
<1>10. KeptInv'
  <2>1. SUFFICES ASSUME Untorn
                 PROVE  \E A \in SUBSET Blocks :
                           tip \in A /\ Ancestral(A) /\ A \subseteq Stored \cup {cur'}
    BY <1>1, <1>3 DEF KeptInv, Ancestral
  <2>2. PICK A \in SUBSET Blocks : /\ tip \in A /\ Ancestral(A) /\ A \subseteq Stored \cup {cur}
                                   /\ task = "idle" => A \subseteq Stored
    BY <2>1 DEF IInv, KeptInv
  <2> QED
    BY <2>2, <1>1
<1>11. StoreInv'
  BY <1>1, <1>3 DEF IInv, StoreInv
<1>12. /\ todo # <<>> => Point = <<task, Head(todo).op>>
       /\ todo # <<>> /\ Head(todo).op = "DeleteClosedBlock" =>
             task = "postValidate" \/ (task = "postValidateRollback" /\ Head(todo).block = cur)
       /\ todo # <<>> /\ Head(todo).op = "DeleteClosedBlockWithoutTx" => task = "postValidateRollback"
       /\ task = "postValidate" =>
             /\ todo # <<>>
             /\ \/ Head(todo).op \in {"WriteClosedTx", "WriteClosedBlock"}
                \/ cur = tip /\ cur \in Stored /\ Head(todo).op # "-"
       /\ task = "postValidateRollback" =>
             /\ todo # <<>> /\ Head(todo).op # "-"
             /\ Head(todo).op = "DeleteAllLastClosedBlock" => Len(todo) = 2
  BY <1>1, CrashPoint
<1>13. BranchInv'
  <2>1. SUFFICES ASSUME Untorn, bootstrap, env.rollback PROVE BranchInv'
    BY <1>1, <1>3 DEF BranchInv
  <2>2. ASSUME NEW x \in Blocks, db.closed[x] # None, db.without[x] # None PROVE FALSE
    <3>1. /\ todo # <<>>
          /\ Head(todo).op \in {"DeleteClosedBlock", "DeleteClosedBlockWithoutTx"}
          /\ Head(todo).block = x
          /\ task = "postValidateRollback" => x # cur
      BY <2>1, <2>2 DEF IInv, BranchInv
    <3>2. <<task, Head(todo).op>> \in Torn
      BY <3>1, <1>12 DEF Torn
    <3>3. env.crash \cap Torn = {}
      BY <2>1 DEF Untorn
    <3> QED
      BY <3>1, <3>2, <3>3, <1>1, <1>12
  <2>3. \A x, y \in Stored : x # y /\ made[x].prev = made[y].prev => made[x].prev = 0
    BY <2>1 DEF IInv, BranchInv
  <2> QED
    BY <1>1, <1>3, <2>2, <2>3 DEF BranchInv, Working
<1>14. SoundInv'
  <2>1. SUFFICES ASSUME Sound, bootstrap PROVE SoundInv'
    BY <1>1, <1>3 DEF SoundInv
  <2>2. Untorn
    BY <2>1, SoundUntorn
  <2>3. Point \in Survivable \cup {<<"prepare", "-">>}
    BY <2>1, <1>1 DEF Sound
  <2>4. todo # <<>> =>
          \/ task = "genesis" /\ Head(todo).op \in {"WriteLastClosedBlock", "WriteClosedBlock"}
          \/ task = "postValidate" /\ Head(todo).op \in {"WriteClosedBlockWithoutTx", "DeleteAllLastClosedBlock"}
          \/ task = "postValidateRollback" /\ Head(todo).op = "DeleteAllLastClosedBlock"
          \/ Head(todo).op = "-"
    BY <2>3, <1>12 DEF Survivable
  <2>5. /\ \A x, y \in Stored : made[x].height = made[y].height => x = y
        /\ \A x \in Stored : made[x].height <= made[tip].height \/ (task = "postValidateRollback" /\ x = cur)
        /\ tip \in Stored \/ task = "postValidate" \/ (Stored = {} /\ tip = 0)
        /\ db.last = {} => todo # <<>> /\ Head(todo).op = "WriteLastClosedBlock" /\ (task = "genesis" => Stored = {})
    BY <2>1, <1>1 DEF IInv, SoundInv
  <2>6. task = "postValidate" => tip \in Stored
    BY <2>4, <1>12
  <2>7. task = "postValidateRollback" => cur \notin Stored
    <3>1. SUFFICES ASSUME task = "postValidateRollback" PROVE cur \notin Stored
      OBVIOUS
    <3>2. Len(todo) = 2
      BY <3>1, <2>4, <1>12
    <3>3. env.rollback
      BY <3>1, <1>0 DEF TodoInv
    <3>4. cur \in Stored => Len(todo) >= 3
      BY <3>1, <3>3, <2>1, <2>2 DEF IInv, BranchInv
    <3> QED
      BY <3>2, <3>4
  <2>8. db.last = {} => Stored = {} /\ tip = 0
    <3>1. task = "genesis" => tip = 0
      BY <1>0 DEF TodoInv
    <3> QED
      BY <3>1, <2>4, <2>5
  <2>9. task' # "postValidate" /\ task' # "postValidateRollback" /\ db' = db
    BY <1>1
  <2>10. \A x \in Stored : made[x].height <= made[tip].height
    BY <2>5, <2>7
  <2> QED
    BY <1>1, <1>3, <2>5, <2>6, <2>8, <2>9, <2>10 DEF SoundInv
<1> QED
  BY <1>4, <1>5, <1>6, <1>7, <1>8, <1>9, <1>10, <1>11, <1>13, <1>14 DEF IInv, Ground

----------------------------------------------------------------------------
(* The invariant.                                                          *)

LEMMA InitInv ==
    ASSUME Init
    PROVE  IInv
<1>1. /\ env \in Environments
      /\ db = [closed |-> [b \in Blocks |-> None], without |-> [b \in Blocks |-> None],
               last |-> {}, tx |-> [t \in Txs |-> NoTx]]
      /\ mem = NoEffect /\ tip = 0 /\ task = "down" /\ todo = <<>> /\ cur = 0
      /\ prepared = None /\ walk = NoWalk
      /\ made = [b \in Blocks |-> IF b = 0 THEN Genesis
                                  ELSE IF b <= Len(env.peer) THEN env.peer[b] ELSE None]
  BY DEF Init
<1> DEFINE n == Len(env.peer)
<1>2. env.peer \in Seq(Block) /\ n \in Nat /\ n <= MaxBlocks /\ MaxBlocks \in Nat
  BY <1>1, RecoveryAssumption DEF Environment
<1>3. \A b \in 1..n : env.peer[b] \in Block /\ env.peer[b] # None
                        /\ env.peer[b].height = b /\ env.peer[b].prev = b - 1
  BY <1>1, <1>2, RecoveryAssumption, FiniteParts
<1>4. /\ made[0] = Genesis
      /\ \A b \in 1..n : b \in Blocks /\ made[b] = env.peer[b]
      /\ \A b \in Blocks : b \in Nat /\ (b \in 1..n \/ b = 0 \/ made[b] = None)
  BY <1>1, <1>2 DEF Blocks
<1>5. Genesis \in Block /\ Genesis # None /\ Genesis.prev = 0 /\ Genesis.height = 0
  <2>1. Genesis \in Block /\ Genesis.prev = 0 /\ Genesis.height = 0
    BY FiniteParts DEF Genesis, Block
  <2> QED
    BY <2>1, FiniteParts
<1>6. made \in Bucket
  <2>1. \A b \in Blocks : made[b] \in Block \cup {None}
    BY <1>3, <1>4, <1>5
  <2> QED
    BY <1>1, <2>1 DEF Bucket
<1>7. \A b \in Blocks : db.closed[b] = None /\ db.without[b] = None
  BY <1>1
<1>8. Stored = {} /\ db.last = {}
  BY <1>1, <1>7 DEF Stored, StoredIn
<1>9. db \in Database
  <2>1. NoTx \in TxRec
    BY DEF NoTx, TxRec
  <2> QED
    BY <1>1, <2>1 DEF Database, Bucket
<1>10. walk \in Walk /\ walk.list = <<>> /\ walk.last = None /\ walk.chan = None
       /\ walk.net = {} /\ walk.stash = <<>>
  BY <1>1 DEF NoWalk, Walk
<1>11. Types
  <2>1. task \in Tasks /\ tip \in Blocks /\ cur \in Blocks \cup {None} /\ todo \in Seq(Writes)
    BY <1>1, FiniteParts DEF Tasks
  <2> QED
    BY <1>1, <1>6, <1>9, <1>10, <2>1, NoEffectType DEF Types
<1>12. MadeInv
  <2>1. ASSUME NEW b \in Blocks, made[b] # None, NEW a \in Blocks, a < b PROVE made[a] # None
    <3>1. b \in 0..n /\ a \in 0..n
      BY <2>1, <1>2, <1>4
    <3> QED
      BY <3>1, <1>2, <1>3, <1>4, <1>5
  <2>2. ASSUME NEW b \in Blocks, made[b] # None, b # 0
        PROVE  made[b].prev < b /\ made[b].height = made[made[b].prev].height + 1
    <3>1. b \in 1..n /\ b \in Nat
      BY <2>2, <1>4
    <3>2. made[b].prev = b - 1 /\ made[b].height = b
      BY <3>1, <1>3, <1>4
    <3>3. made[b - 1].height = b - 1
      <4>1. CASE b = 1
        BY <4>1, <1>4, <1>5
      <4>2. CASE b # 1
        <5>1. b - 1 \in 1..n
          BY <4>2, <3>1, <1>2
        <5> QED
          BY <5>1, <1>3, <1>4
      <4> QED
        BY <4>1, <4>2
    <3> QED
      BY <3>1, <3>2, <3>3
  <2> QED
    BY <1>1, <1>4, <1>5, <2>1, <2>2 DEF MadeInv
<1>13. DbInv
  BY <1>1, <1>7 DEF DbInv
<1>14. TodoInv
  BY <1>1 DEF TodoInv
<1>15. WalkInv
  <2>1. ToSet(walk.list) = {} /\ Len(walk.list) = 0
    BY <1>10 DEF ToSet
  <2>2. WalkContiguous
    BY <2>1 DEF WalkContiguous
  <2> QED
    BY <1>1, <1>10, <2>1, <2>2 DEF WalkInv
<1>16. GenesisInv
  BY <1>1, <1>8 DEF GenesisInv
<1>17. KeptInv
  <2>1. {0} \in SUBSET Blocks /\ tip \in {0} /\ {0} \subseteq Stored \cup {cur}
    BY <1>1, FiniteParts
  <2>2. Ancestral({0})
    BY <1>4, <1>5 DEF Ancestral
  <2> QED
    BY <1>1, <2>1, <2>2 DEF KeptInv
<1>18. StoreInv /\ SoundInv
  BY <1>1, <1>8 DEF StoreInv, SoundInv
<1>19. BranchInv
  BY <1>1, <1>7, <1>8 DEF BranchInv, Working
<1> QED
  BY <1>11, <1>12, <1>13, <1>14, <1>15, <1>16, <1>17, <1>18, <1>19 DEF IInv, Ground

LEMMA NextKeeps ==
    ASSUME IInv, Next
    PROVE  IInv'
BY InitStateKeeps, StartWalkKeeps, PeerAnswersKeeps, TakeAnswerKeeps, TimeOutKeeps, GiveUpKeeps,
   ReplayKeeps, ReceiveKeeps, PrepareKeeps, MineKeeps, RollbackKeeps, WriteKeeps, LoseKeeps, CrashKeeps
   DEF Next, StartUp, Work

LEMMA StutterKeeps ==
    ASSUME IInv, vars' = vars
    PROVE  IInv'
<1>1. /\ env' = env /\ db' = db /\ mem' = mem /\ tip' = tip /\ task' = task /\ todo' = todo
      /\ cur' = cur /\ prepared' = prepared /\ walk' = walk /\ made' = made
  BY DEF vars
<1>2. (bootstrap' <=> bootstrap) /\ (Untorn' <=> Untorn) /\ (Sound' <=> Sound) /\ Stored' = Stored
  BY <1>1, EnvFrame DEF Stored
<1>3. Types' /\ MadeInv' /\ DbInv' /\ TodoInv'
  BY <1>1, <1>2 DEF IInv, Ground, Types, MadeInv, DbInv, TodoInv
<1>4. WalkInv'
  <2>1. Asked' = Asked /\ (WalkContiguous' <=> WalkContiguous)
    BY <1>1 DEF Asked, WalkContiguous
  <2> QED
    BY <1>1, <1>2, <2>1 DEF IInv, WalkInv
<1>5. GenesisInv' /\ StoreInv'
  BY <1>1, <1>2 DEF IInv, GenesisInv, StoreInv
<1>6. KeptInv'
  BY <1>1, <1>2 DEF IInv, KeptInv, Ancestral
<1>7. BranchInv'
  BY <1>1, <1>2 DEF IInv, BranchInv
<1>8. SoundInv'
  BY <1>1, <1>2 DEF IInv, SoundInv
<1> QED
  BY <1>3, <1>4, <1>5, <1>6, <1>7, <1>8 DEF IInv, Ground

\* Of a database and its miner, in every reachable state: the types, that the
\* blocks and writes are those of the chain, that the walk of initState keeps to
\* the peers' chain, and that the chain is stored.
THEOREM Invariance == Spec => []IInv
<1>1. Init => IInv
  BY InitInv
<1>2. IInv /\ [Next]_vars => IInv'
  BY NextKeeps, StutterKeeps
<1> QED
  BY <1>1, <1>2, PTL DEF Spec

----------------------------------------------------------------------------
(* The theorems.                                                           *)

\* The walk of initState (miner/state.go) notes a chain without gaps and without
\* a block twice, whatever answers are late, lost or taken from the stash.
THEOREM WalkIsContiguous == Spec => []WalkContiguous
<1>1. IInv => WalkContiguous
  BY DEF IInv, WalkInv
<1> QED
  BY <1>1, Invariance, PTL

\* No block of the chain is lost from the database, wherever the process dies:
\* neither by emptying (storage/update.go), nor by a reorganisation, nor because
\* start-up resumes at a block whose ancestors are gone (initState).
THEOREM NoBlockIsLost == Spec => []BlocksKept
<1>1. IInv => BlocksKept
  <2>1. SUFFICES ASSUME IInv, Untorn,
                        NEW b \in Path(tip) \ (IF task = "idle" THEN {} ELSE {cur})
                 PROVE  db.closed[b] # None \/ db.without[b] # None
    BY DEF BlocksKept
  <2>2. PICK A \in SUBSET Blocks : /\ tip \in A /\ Ancestral(A) /\ A \subseteq Stored \cup {cur}
                                   /\ task = "idle" => A \subseteq Stored
    BY <2>1 DEF IInv, KeptInv
  <2>3. \A x \in A : made[x].prev \in A
    BY <2>2 DEF Ancestral
  <2>4. Path(tip) \subseteq A
    BY <2>2, <2>3, PathStays
  <2>5. b \in Stored
    BY <2>1, <2>2, <2>4
  <2> QED
    BY <2>5 DEF Stored, StoredIn
<1> QED
  BY <1>1, Invariance, PTL

\* After a crash that Sound allows the bootstrap miner resumes with the very
\* block it stopped at (initState).
THEOREM ResumesWhereItStopped == Spec => ResumesChain
<1>1. IInv /\ [Next]_vars =>
        [Sound /\ bootstrap /\ task = "down" /\ task' \in {"idle", "genesis"} => tip' = tip]_vars
  <2>1. SUFFICES ASSUME IInv, Next, Sound, bootstrap, task = "down", task' \in {"idle", "genesis"}
                 PROVE  tip' = tip
    OBVIOUS
  <2>2. todo = <<>>
    BY <2>1 DEF IInv, Ground, TodoInv
  <2>3. CASE initState
    BY <2>1, <2>3, InitStateResumes
  <2>4. CASE StartWalk \/ PeerAnswers \/ TakeAnswer \/ TimeOut \/ GiveUp \/ Replay \/ Lose
    BY <2>1, <2>4 DEF StartWalk, PeerAnswers, TakeAnswer, TimeOut, GiveUp, Replay, Lose
  <2>5. CASE Receive \/ prepareBlock \/ Mine \/ rollback
    BY <2>1, <2>5 DEF Receive, prepareBlock, Mine, rollback
  <2>6. CASE Write \/ Crash
    BY <2>1, <2>2, <2>6 DEF Write, Crash
  <2> QED
    BY <2>1, <2>3, <2>4, <2>5, <2>6 DEF Next, StartUp, Work
<1> QED
  BY <1>1, Invariance, PTL DEF Spec, ResumesChain
=============================================================================
