------------------------------ MODULE VMProofs ------------------------------
(* Theorems about VM for every contract and every call: the machine keeps  *)
(* its types whatever instructions it executes, its memory counter is the  *)
(* memory of its stack, and every instruction costs gas.                   *)
EXTENDS VM, SequenceTheorems, WellFoundedInduction, TLAPS

-----------------------------------------------------------------------------
(* Bytes and numbers.                                                      *)
Byte == 0 .. 255
BigInts == [neg : BOOLEAN, mag : ByteSeq]

LEMMA Quotient ==
    ASSUME NEW x \in Nat, NEW w \in Nat, w > 0
    PROVE  x \div w \in Nat
<1> DEFINE q == x \div w
           r == x % w
<1>1. q \in Int /\ r \in 0 .. w - 1 /\ x = w * q + r
  OBVIOUS
<1> HIDE DEF q, r
<1>2. ASSUME q < 0 PROVE FALSE
  <2>1. q + 1 <= 0
    BY <1>1, <1>2
  <2>2. w * (q + 1) <= 0
    BY <1>1, <2>1
  <2>3. w * (q + 1) = w * q + w
    BY <1>1
  <2> QED
    BY <1>1, <2>2, <2>3
<1> QED
  BY <1>1, <1>2 DEF q

LEMMA IntQuotient ==
    ASSUME NEW x \in Int, NEW w \in Int, w > 0
    PROVE  x \div w \in Int /\ x % w \in Int
OBVIOUS

LEMMA FunctionIsSeq ==
    ASSUME NEW D, NEW n \in Nat, NEW f, f = [i \in 1 .. n |-> f[i]],
           \A i \in 1 .. n : f[i] \in D
    PROVE  f \in Seq(D) /\ Len(f) = n
<1>1. f \in [1 .. n -> D]
  OBVIOUS
<1> QED
  BY <1>1

LEMMA SubSeqType ==
    ASSUME NEW D, NEW s \in Seq(D), NEW i \in Nat, NEW j \in Int, i >= 1, j <= Len(s)
    PROVE  /\ SubSeq(s, i, j) \in Seq(D)
           /\ Len(SubSeq(s, i, j)) = IF i <= j THEN j - i + 1 ELSE 0
OBVIOUS

LEMMA ReverseType ==
    ASSUME NEW D, NEW s \in Seq(D)
    PROVE  Reverse(s) \in Seq(D) /\ Len(Reverse(s)) = Len(s)
<1> DEFINE n == Len(s)
           f == Reverse(s)
<1>1. n \in Nat /\ \A i \in 1 .. n : s[(n - i) + 1] \in D
  OBVIOUS
<1>2. f = [i \in 1 .. n |-> s[(n - i) + 1]]
  BY DEF Reverse
<1> HIDE DEF f, n
<1>3. f = [i \in 1 .. n |-> f[i]] /\ \A i \in 1 .. n : f[i] \in D
  BY <1>1, <1>2
<1> QED
  BY <1>1, <1>3, FunctionIsSeq DEF f, n

(* Byte sequences.                                                         *)
LEMMA BytesFrom ==
    ASSUME NEW n \in Nat, NEW f, f = [i \in 1 .. n |-> f[i]],
           \A i \in 1 .. n : f[i] \in 0 .. 255
    PROVE  f \in ByteSeq /\ Len(f) = n
<1> DEFINE D == 0 .. 255
<1>1. \A i \in 1 .. n : f[i] \in D
  OBVIOUS
<1> HIDE DEF D
<1>2. f \in Seq(D) /\ Len(f) = n
  BY <1>1, FunctionIsSeq
<1> QED
  BY <1>2 DEF D, ByteSeq

LEMMA BytesAre ==
    ASSUME NEW b \in ByteSeq
    PROVE  Len(b) \in Nat /\ DOMAIN b = 1 .. Len(b) /\ \A i \in 1 .. Len(b) : b[i] \in 0 .. 255
<1> DEFINE D == 0 .. 255
<1>1. b \in Seq(D)
  BY DEF ByteSeq
<1> HIDE DEF D
<1>2. Len(b) \in Nat /\ DOMAIN b = 1 .. Len(b) /\ \A i \in 1 .. Len(b) : b[i] \in D
  BY <1>1
<1> QED
  BY <1>2 DEF D

LEMMA BytesJoined ==
    ASSUME NEW a \in ByteSeq, NEW b \in ByteSeq
    PROVE  a \o b \in ByteSeq /\ Len(a \o b) = Len(a) + Len(b)
BY DEF ByteSeq

LEMMA BytesCut ==
    ASSUME NEW b \in ByteSeq, NEW i \in Nat, NEW j \in Int, i >= 1, j <= Len(b)
    PROVE  SubSeq(b, i, j) \in ByteSeq /\ Len(SubSeq(b, i, j)) = IF i <= j THEN j - i + 1 ELSE 0
<1> DEFINE D == 0 .. 255
<1>1. b \in Seq(D)
  BY DEF ByteSeq
<1> HIDE DEF D
<1>2. /\ SubSeq(b, i, j) \in Seq(D)
      /\ Len(SubSeq(b, i, j)) = IF i <= j THEN j - i + 1 ELSE 0
  BY <1>1, SubSeqType
<1> QED
  BY <1>2 DEF D, ByteSeq

LEMMA NoBytes == <<>> \in ByteSeq /\ Len(<<>>) = 0
BY DEF ByteSeq

LEMMA LittleEndianType ==
    ASSUME NEW n \in Nat, NEW w \in Nat
    PROVE  LittleEndian(n, w) \in ByteSeq /\ Len(LittleEndian(n, w)) = w
<1> DEFINE f == LittleEndian(n, w)
<1>1. \A i \in 1 .. w : (n \div (256 ^ (i - 1))) % 256 \in 0 .. 255
  OBVIOUS
<1>2. f = [i \in 1 .. w |-> (n \div (256 ^ (i - 1))) % 256]
  BY DEF LittleEndian
<1> HIDE DEF f
<1>3. f = [i \in 1 .. w |-> f[i]] /\ \A i \in 1 .. w : f[i] \in 0 .. 255
  BY <1>1, <1>2
<1>4. f \in ByteSeq /\ Len(f) = w
  BY <1>3, BytesFrom
<1> QED
  BY <1>4 DEF f

LEMMA BigEndianType ==
    ASSUME NEW n \in Nat, NEW w \in Nat
    PROVE  BigEndian(n, w) \in ByteSeq /\ Len(BigEndian(n, w)) = w
BY LittleEndianType, ReverseType DEF BigEndian, ByteSeq

LEMMA UInt16Type ==
    ASSUME NEW n \in Nat
    PROVE  UInt16ToByteArray(n) \in ByteSeq /\ Len(UInt16ToByteArray(n)) = 2
BY LittleEndianType DEF UInt16ToByteArray

LEMMA UInt64Type ==
    ASSUME NEW n \in Nat
    PROVE  UInt64ToByteArray(n) \in ByteSeq /\ Len(UInt64ToByteArray(n)) = 8
<1> DEFINE f == [i \in 1 .. 4 |-> 0]
           g == BigEndian(n, 4)
<1>1. f = [i \in 1 .. 4 |-> f[i]] /\ \A i \in 1 .. 4 : f[i] \in 0 .. 255
  OBVIOUS
<1>2. UInt64ToByteArray(n) = f \o g
  BY DEF UInt64ToByteArray
<1>3. g \in ByteSeq /\ Len(g) = 4
  BY BigEndianType
<1> HIDE DEF f, g
<1>4. f \in ByteSeq /\ Len(f) = 4
  BY <1>1, BytesFrom
<1>5. f \o g \in ByteSeq /\ Len(f \o g) = 4 + 4
  BY <1>3, <1>4, BytesJoined
<1> QED
  BY <1>2, <1>5

LEMMA SmallestOf ==
    ASSUME NEW T \in SUBSET Nat, T # {}
    PROVE  Min(T) \in T
<1>1. PICK x \in T : \A y \in T : ~ (<<y, x>> \in OpToRel(<, Nat))
  BY NatLessThanWellFounded, WFMin
<1>2. \A y \in T : ~(y < x)
  BY <1>1 DEF OpToRel
<1>3. \A y \in T : x <= y
  BY <1>2
<1> QED
  BY <1>3 DEF Min

LEMMA SetBytesType ==
    ASSUME NEW b \in ByteSeq
    PROVE  SetBytes(b) \in ByteSeq
<1> DEFINE T == {i \in DOMAIN b : b[i] # 0}
<1>0. Len(b) \in Nat /\ DOMAIN b = 1 .. Len(b)
  BY BytesAre
<1>1. T \in SUBSET Nat /\ Len(b) \in Nat /\ \A i \in T : i \in Nat /\ i >= 1
  BY <1>0
<1>2. CASE T = {}
  <2>1. SetBytes(b) = <<>>
    BY <1>2 DEF SetBytes
  <2> QED
    BY <2>1 DEF ByteSeq
<1>3. CASE T # {}
  <2>1. Min(T) \in T
    BY <1>1, <1>3, SmallestOf
  <2> DEFINE m == Min(T)
  <2>2. SetBytes(b) = SubSeq(b, m, Len(b))
    BY <1>3 DEF SetBytes
  <2> HIDE DEF T
  <2>3. m \in Nat /\ m >= 1
    BY <1>1, <2>1
  <2> HIDE DEF m
  <2>4. Len(b) \in Int /\ Len(b) <= Len(b)
    BY <1>1
  <2> QED
    BY <2>2, <2>3, <2>4, BytesCut
<1> QED
  BY <1>2, <1>3

(* Numbers.                                                                *)
numberStep(p, n, x) == 256 * n + x
Number == INSTANCE FoldFacts WITH step <- numberStep, X <- Nat, Y <- Byte

LEMMA NumberType ==
    ASSUME NEW b \in ByteSeq
    PROVE  ByteArrayToInt(b) \in Nat
<1>1. ByteArrayToInt(b) = Number!Folded(0, 0, b)
  BY Zenon DEF ByteArrayToInt, numberStep, FoldLeft, MapThenFoldSet, Max,
               Number!Folded, Number!MapThenFoldSet, Number!Largest
<1>2. \A n \in Nat, x \in Byte : numberStep(0, n, x) \in Nat
  BY DEF numberStep, Byte
<1>3. b \in Seq(Byte)
  BY DEF ByteSeq, Byte
<1>4. Number!Runs(0, 0, b)
  BY <1>2, <1>3, Number!FoldRuns
<1>5. Len(b) \in Nat
  BY <1>3
<1> QED
  BY <1>1, <1>4, <1>5 DEF Number!Runs

LEMMA BigIntType ==
    ASSUME NEW neg \in BOOLEAN, NEW mag \in ByteSeq
    PROVE  BigInt(neg, mag) \in BigInts
<1>1. (neg /\ mag # <<>>) \in BOOLEAN
  OBVIOUS
<1> QED
  BY <1>1, Zenon DEF BigInt, BigInts

LEMMA UnsignedType ==
    ASSUME NEW b \in ByteSeq
    PROVE  UnsignedBigIntConversion(b) \in BigInts
BY BigIntType, SetBytesType DEF UnsignedBigIntConversion

LEMMA SignedType ==
    ASSUME NEW b \in ByteSeq, b # <<>>
    PROVE  SignedBigIntConversion(b) \in BigInts
<1>1. Tail(b) \in ByteSeq
  BY DEF ByteSeq
<1>2. SetBytes(Tail(b)) \in ByteSeq /\ (b[1] = 1) \in BOOLEAN
  BY <1>1, SetBytesType
<1> QED
  BY <1>2, BigIntType DEF SignedBigIntConversion

LEMMA SignType ==
    ASSUME NEW z \in BigInts
    PROVE  /\ SignedByteArrayConversion(z) \in ByteSeq
           /\ SignedByteArrayConversion(z) # <<>>
<1>1. z.mag \in ByteSeq /\ <<IF z.neg THEN 1 ELSE 0>> \in ByteSeq
      /\ Len(<<IF z.neg THEN 1 ELSE 0>>) = 1
  BY DEF BigInts, ByteSeq
<1> DEFINE a == <<IF z.neg THEN 1 ELSE 0>>
<1> HIDE DEF a
<1>2. a \o z.mag \in ByteSeq /\ Len(a \o z.mag) = 1 + Len(z.mag) /\ Len(z.mag) \in Nat
  BY <1>1, BytesJoined, BytesAre DEF a
<1>3. a \o z.mag # <<>>
  BY <1>2, NoBytes
<1> QED
  BY <1>2, <1>3 DEF a, SignedByteArrayConversion

LEMMA ValueType ==
    ASSUME NEW z \in BigInts
    PROVE  Value(z) \in Int
<1>1. ByteArrayToInt(z.mag) \in Nat
  BY NumberType DEF BigInts
<1> HIDE DEF ByteArrayToInt
<1> QED
  BY <1>1 DEF Value

LEMMA OfValueType ==
    ASSUME NEW n \in Int
    PROVE  OfValue(n) \in BigInts
<1> DEFINE k == IF n < 0 THEN -n ELSE n
<1>1. k \in Nat
  OBVIOUS
<1> HIDE DEF k
<1>2. SetBytes(BigEndian(k, 4)) \in ByteSeq
  BY <1>1, BigEndianType, SetBytesType
<1>3. (n < 0) \in BOOLEAN
  OBVIOUS
<1> QED
  BY <1>2, <1>3, BigIntType DEF OfValue, k

LEMMA ArithmeticType ==
    ASSUME NEW op \in ArithmeticCodes, NEW x \in Int, NEW y \in Int,
           op \in {"DIV", "MOD"} => y # 0
    PROVE  Arithmetic(op, x, y) \in Int
<1>1. CASE op = "ADD"
  BY <1>1 DEF Arithmetic
<1>2. CASE op = "SUB"
  BY <1>2 DEF Arithmetic
<1>3. CASE op = "MULT"
  BY <1>3 DEF Arithmetic
<1>4. CASE op = "DIV"
  <2>1. CASE y > 0
    BY <1>4, <2>1, IntQuotient DEF Arithmetic
  <2>2. CASE -y > 0
    <3>1. x \div (-y) \in Int
      BY <2>2, IntQuotient
    <3> QED
      BY <1>4, <2>2, <3>1 DEF Arithmetic
  <2> QED
    BY <1>4, <2>1, <2>2
<1>5. CASE op = "MOD"
  <2>1. CASE y > 0
    BY <1>5, <2>1, IntQuotient DEF Arithmetic
  <2>2. CASE -y > 0
    <3>1. x % (-y) \in Int
      BY <2>2, IntQuotient
    <3> QED
      BY <1>5, <2>2, <3>1 DEF Arithmetic
  <2> QED
    BY <1>5, <2>1, <2>2
<1> QED
  BY <1>1, <1>2, <1>3, <1>4, <1>5 DEF ArithmeticCodes

(* Shifts.                                                                 *)
doubleStep(p, y, i) == 2 * y
halveStep(p, y, i) == y \div 2
Doubling == INSTANCE FoldFacts WITH step <- doubleStep, X <- Int, Y <- Nat
Halving == INSTANCE FoldFacts WITH step <- halveStep, X <- Int, Y <- Nat

LEMMA UpTo ==
    ASSUME NEW n \in Nat
    PROVE  [i \in 1 .. n |-> i] \in Seq(Nat) /\ Len([i \in 1 .. n |-> i]) = n
<1> DEFINE f == [i \in 1 .. n |-> i]
<1>1. f = [i \in 1 .. n |-> f[i]] /\ \A i \in 1 .. n : f[i] \in Nat
  OBVIOUS
<1> HIDE DEF f
<1> QED
  BY <1>1, FunctionIsSeq DEF f

LEMMA ShiftType ==
    ASSUME NEW x \in Int, NEW n \in Nat
    PROVE  /\ Turns(LAMBDA y : 2 * y, x, n) \in Int
           /\ Turns(LAMBDA y : y \div 2, x, n) \in Int
<1> DEFINE f == [i \in 1 .. n |-> i]
<1>1. Turns(LAMBDA y : 2 * y, x, n) = Doubling!Folded(0, x, f)
  BY Zenon DEF Turns, doubleStep, FoldLeft, MapThenFoldSet, Max,
               Doubling!Folded, Doubling!MapThenFoldSet, Doubling!Largest
<1>2. Turns(LAMBDA y : y \div 2, x, n) = Halving!Folded(0, x, f)
  BY Zenon DEF Turns, halveStep, FoldLeft, MapThenFoldSet, Max,
               Halving!Folded, Halving!MapThenFoldSet, Halving!Largest
<1>3. f \in Seq(Nat) /\ Len(f) = n
  BY UpTo
<1> HIDE DEF f
<1>4. \A y \in Int, i \in Nat : doubleStep(0, y, i) \in Int /\ halveStep(0, y, i) \in Int
  BY DEF doubleStep, halveStep
<1>5. Doubling!Runs(0, x, f) /\ Halving!Runs(0, x, f)
  BY <1>3, <1>4, Doubling!FoldRuns, Halving!FoldRuns
<1>6. Doubling!Folded(0, x, f) \in Int
  BY <1>3, <1>5 DEF Doubling!Runs
<1>7. Halving!Folded(0, x, f) \in Int
  BY <1>3, <1>5 DEF Halving!Runs
<1> QED
  BY <1>1, <1>2, <1>6, <1>7, Zenon DEF f

-----------------------------------------------------------------------------
(* The machine.  A slice is a window into an array of the heap.            *)
Slices == [arr : Nat, off : Nat, len : Nat]
Heaps == {h \in Seq(ByteSeq) : Len(h) >= 2}
Windows(h) == {s \in Slices : s.arr \in 1 .. Len(h) /\ s.off + s.len <= Len(h[s.arr])}
Assignments == UNION {[D -> BigInts] : D \in SUBSET Nat}
Frames == [returnAddress : Nat, variables : Assignments]
Changes == [index : Nat, value : ByteSeq]
Statuses == {"idle", "run", "true", "false", "panic", "hang"}

(* The memory the elements of a stack take.                                *)
memoryStep(p, n, s) == n + s.len
Footprint == INSTANCE FoldFacts WITH step <- memoryStep, X <- Nat, Y <- Slices
Used(stack) == Footprint!Folded(0, 0, stack)

MachineTypes ==
    [pc : Nat, fee : Nat, stack : Seq(Slices), memoryUsage : Nat, callStack : Seq(Frames),
     changes : Seq(Changes), heap : Heaps, status : Statuses]
Machines ==
    {m \in MachineTypes :
        /\ \A i \in 1 .. Len(m.stack) : m.stack[i] \in Windows(m.heap)
        /\ m.memoryUsage = Used(m.stack)
        /\ m.memoryUsage <= MemoryMax}

(* Arrays keep their length, so that windows stay windows.                 *)
Kept(h, g) == Len(h) <= Len(g) /\ \A i \in 1 .. Len(h) : Len(g[i]) = Len(h[i])

(* What every part of an instruction leaves behind: a machine with at most *)
(* as much gas; and, where it returns a slice, a window.                   *)
Follows(m, q) == q \in Machines /\ q.fee <= m.fee /\ Kept(m.heap, q.heap)
Yields(m, r) == Follows(m, r.m) /\ r.v \in Windows(r.m.heap)

LEMMA UsedRuns ==
    ASSUME NEW st \in Seq(Slices)
    PROVE  Footprint!Runs(0, 0, st) /\ Used(st) \in Nat
<1>1. \A n \in Nat, s \in Slices : memoryStep(0, n, s) \in Nat
  BY DEF memoryStep, Slices
<1>2. Footprint!Runs(0, 0, st)
  BY <1>1, Footprint!FoldRuns
<1>3. Len(st) \in Nat
  OBVIOUS
<1> QED
  BY <1>2, <1>3 DEF Footprint!Runs, Used

LEMMA UsedUnique ==
    ASSUME NEW st \in Seq(Slices), NEW r, r[0] = 0,
           \A k \in 1 .. Len(st) : r[k] = r[k - 1] + st[k].len
    PROVE  r[Len(st)] = Used(st)
<1>0. Len(st) \in Nat
  OBVIOUS
<1>1. PICK q \in [0 .. Len(st) -> Nat] :
        /\ q[0] = 0
        /\ q[Len(st)] = Used(st)
        /\ \A k \in 1 .. Len(st) : q[k] = q[k - 1] + st[k].len
  BY UsedRuns DEF Footprint!Runs, Used, memoryStep
<1> DEFINE G == {k \in 0 .. Len(st) : r[k] = q[k]}
<1>2. 0 \in G
  BY <1>0, <1>1
<1>3. ASSUME NEW k \in 1 .. Len(st), k - 1 \in G PROVE k \in G
  BY <1>0, <1>1, <1>3
<1> HIDE DEF G
<1>4. \A k \in 0 .. Len(st) : k \in G
  BY <1>0, <1>2, <1>3, Footprint!Reaches
<1>5. Len(st) \in G
  BY <1>0, <1>4
<1> QED
  BY <1>5, <1>1 DEF G

LEMMA PartialUse ==
    ASSUME NEW st \in Seq(Slices)
    PROVE  \E q \in [0 .. Len(st) -> Nat] :
              /\ q[0] = 0
              /\ q[Len(st)] = Used(st)
              /\ \A k \in 1 .. Len(st) : q[k] = q[k - 1] + st[k].len
BY UsedRuns DEF Footprint!Runs, Used, memoryStep

LEMMA UsedEmpty == Used(<<>>) = 0
<1> DEFINE st == <<>>
           r == [k \in {0} |-> 0]
<1>1. st \in Seq(Slices) /\ Len(st) = 0 /\ r[0] = 0
  OBVIOUS
<1>2. \A k \in 1 .. Len(st) : r[k] = r[k - 1] + st[k].len
  BY <1>1
<1> HIDE DEF st, r
<1>3. r[Len(st)] = Used(st)
  BY <1>1, <1>2, UsedUnique
<1> QED
  BY <1>1, <1>3 DEF st

LEMMA UsedAppend ==
    ASSUME NEW st \in Seq(Slices), NEW s \in Slices
    PROVE  Used(Append(st, s)) = Used(st) + s.len
<1> DEFINE n == Len(st)
           t == Append(st, s)
<1>0. n \in Nat /\ t \in Seq(Slices) /\ Len(t) = n + 1 /\ t[n + 1] = s
      /\ \A k \in 1 .. n : t[k] = st[k]
  OBVIOUS
<1>1. PICK q \in [0 .. n -> Nat] :
        /\ q[0] = 0 /\ q[n] = Used(st)
        /\ \A k \in 1 .. n : q[k] = q[k - 1] + st[k].len
  BY PartialUse
<1> DEFINE r == [k \in 0 .. (n + 1) |-> IF k = n + 1 THEN q[n] + s.len ELSE q[k]]
<1> HIDE DEF n, t
<1>2. r[0] = 0 /\ r[n + 1] = q[n] + s.len
  BY <1>0, <1>1
<1>3. ASSUME NEW k \in 1 .. Len(t) PROVE r[k] = r[k - 1] + t[k].len
  <2>1. k - 1 \in 0 .. n /\ k - 1 # n + 1 /\ r[k - 1] = q[k - 1]
    BY <1>0
  <2>2. CASE k = n + 1
    BY <1>0, <1>2, <2>1, <2>2
  <2>3. CASE k # n + 1
    <3>1. k \in 1 .. n /\ r[k] = q[k]
      BY <1>0, <2>3
    <3> QED
      BY <1>0, <1>1, <2>1, <3>1
  <2> QED
    BY <2>2, <2>3
<1> HIDE DEF r
<1>4. r[Len(t)] = Used(t)
  BY <1>0, <1>2, <1>3, UsedUnique
<1> QED
  BY <1>0, <1>1, <1>2, <1>4 DEF t

LEMMA RemoveAtIs ==
    ASSUME NEW st \in Seq(Slices), NEW i \in 1 .. Len(st)
    PROVE  /\ RemoveAt(st, i) \in Seq(Slices)
           /\ Len(RemoveAt(st, i)) = Len(st) - 1
           /\ \A k \in 1 .. (Len(st) - 1) :
                 RemoveAt(st, i)[k] = IF k < i THEN st[k] ELSE st[k + 1]
<1> DEFINE n == Len(st)
           a == SubSeq(st, 1, i - 1)
           b == SubSeq(st, i + 1, n)
<1>0. n \in Nat /\ i \in 1 .. n /\ i \in Int /\ \A k \in 1 .. n : st[k] \in Slices
  OBVIOUS
<1>1. /\ a \in Seq(Slices) /\ Len(a) = i - 1
      /\ \A k \in 1 .. (i - 1) : a[k] = st[k]
  OBVIOUS
<1>2. /\ b \in Seq(Slices) /\ Len(b) = n - i
      /\ \A k \in 1 .. (n - i) : b[k] = st[k + i]
  OBVIOUS
<1>3. RemoveAt(st, i) = a \o b
  BY DEF RemoveAt
<1> HIDE DEF n, a, b
<1>4. /\ a \o b \in Seq(Slices) /\ Len(a \o b) = Len(a) + Len(b)
      /\ \A k \in 1 .. Len(a) + Len(b) :
            (a \o b)[k] = IF k <= Len(a) THEN a[k] ELSE b[k - Len(a)]
  BY <1>1, <1>2, ConcatProperties
<1>5. Len(a) + Len(b) = n - 1
  BY <1>0, <1>1, <1>2
<1>6. ASSUME NEW k \in 1 .. (n - 1)
      PROVE  (a \o b)[k] = IF k < i THEN st[k] ELSE st[k + 1]
  <2>1. CASE k < i
    BY <1>0, <1>1, <1>4, <1>5, <2>1
  <2>2. CASE k >= i
    <3>1. k - (i - 1) \in 1 .. (n - i) /\ (k - (i - 1)) + i = k + 1
      BY <1>0, <2>2
    <3>2. b[k - (i - 1)] = st[k + 1]
      BY <1>2, <3>1
    <3>3. (a \o b)[k] = b[k - (i - 1)]
      BY <1>0, <1>1, <1>4, <1>5, <2>2
    <3>4. ~(k < i)
      BY <1>0, <2>2
    <3> QED
      BY <3>2, <3>3, <3>4, Zenon
  <2>3. k < i \/ k >= i
    BY <1>0
  <2> QED
    BY <2>1, <2>2, <2>3, Zenon
<1> QED
  BY <1>3, <1>4, <1>5, <1>6 DEF n



LEMMA UsedRemove ==
    ASSUME NEW st \in Seq(Slices), NEW i \in 1 .. Len(st)
    PROVE  Used(st) = Used(RemoveAt(st, i)) + st[i].len
<1> DEFINE n == Len(st)
           t == RemoveAt(st, i)
<1>0. n \in Nat /\ t \in Seq(Slices) /\ Len(t) = n - 1 /\ i \in 1 .. n
      /\ \A k \in 1 .. (n - 1) : t[k] = IF k < i THEN st[k] ELSE st[k + 1]
  BY RemoveAtIs
<1>1. PICK q \in [0 .. n -> Nat] :
        /\ q[0] = 0 /\ q[n] = Used(st)
        /\ \A k \in 1 .. n : q[k] = q[k - 1] + st[k].len
  BY PartialUse
<1>l. \A k \in 1 .. n : st[k].len \in Nat
  <2>1. \A k \in 1 .. n : st[k] \in Slices
    OBVIOUS
  <2> QED
    BY <2>1 DEF Slices
<1> DEFINE r == [k \in 0 .. (n - 1) |-> IF k < i THEN q[k] ELSE q[k + 1] - st[i].len]
<1> HIDE DEF n, t
<1>2. r[0] = 0 /\ r[n - 1] = q[n] - st[i].len
  <2>1. r[0] = 0
    BY <1>0, <1>1
  <2>2. CASE n = i
    BY <1>0, <1>1, <1>l, <2>2
  <2>3. CASE n # i
    BY <1>0, <1>1, <1>l, <2>3
  <2> QED
    BY <2>1, <2>2, <2>3
<1>3. ASSUME NEW k \in 1 .. Len(t) PROVE r[k] = r[k - 1] + t[k].len
  <2>0. k \in 1 .. (n - 1) /\ k \in 1 .. n /\ k + 1 \in 1 .. n
    BY <1>0
  <2>4. /\ q[k] = q[k - 1] + st[k].len
        /\ q[k + 1] = q[(k + 1) - 1] + st[k + 1].len
    BY <1>1, <2>0, Zenon
  <2>a. (k + 1) - 1 = k /\ k - 1 \in 0 .. n /\ k \in 0 .. n /\ k + 1 \in 0 .. n
    BY <1>0, <2>0
  <2>b. q[k - 1] \in Nat /\ q[k] \in Nat /\ q[k + 1] \in Nat
    BY <1>1, <2>a
  <2>c. st[k].len \in Nat /\ st[k + 1].len \in Nat /\ st[i].len \in Nat
    BY <1>0, <1>l, <2>0
  <2>5. (k + 1) - 1 = k /\ q[k - 1] \in Nat /\ q[k] \in Nat /\ q[k + 1] \in Nat
        /\ st[k].len \in Nat /\ st[k + 1].len \in Nat /\ st[i].len \in Nat
    BY <2>a, <2>b, <2>c, Zenon
  <2>6. /\ t[k] = IF k < i THEN st[k] ELSE st[k + 1]
        /\ r[k] = IF k < i THEN q[k] ELSE q[k + 1] - st[i].len
        /\ r[k - 1] = IF k - 1 < i THEN q[k - 1] ELSE q[(k - 1) + 1] - st[i].len
    BY <1>0, <2>0
  <2>7. (k - 1) + 1 = k
    BY <2>0
  <2> HIDE DEF r
  <2>8. q[k + 1] = q[k] + st[k + 1].len
    BY <2>4, <2>5, Zenon
  <2>1. CASE k < i
    <3>1. k < i /\ k - 1 < i
      BY <1>0, <2>0, <2>1
    <3>2. r[k] = q[k] /\ r[k - 1] = q[k - 1] /\ t[k] = st[k]
      BY <2>6, <3>1, Zenon
    <3> QED
      BY <2>4, <3>2, Zenon
  <2>2. CASE k = i
    <3>1. ~(k < i) /\ k - 1 < i
      BY <1>0, <2>0, <2>2
    <3>2. r[k] = q[k + 1] - st[k].len /\ r[k - 1] = q[k - 1] /\ t[k] = st[k + 1]
      BY <2>2, <2>6, <3>1, Zenon
    <3>3. q[k] = q[k - 1] + st[k].len
      BY <2>4, Zenon
    <3>4. t[k].len = st[k + 1].len
      BY <3>2, Zenon
    <3>5. q[k + 1] - st[k].len = q[k - 1] + st[k + 1].len
      <4> DEFINE a == q[k - 1]
                 b == q[k]
                 c == q[k + 1]
                 x == st[k].len
                 y == st[k + 1].len
      <4>1. /\ a \in Nat /\ b \in Nat /\ c \in Nat /\ x \in Nat /\ y \in Nat
            /\ b = a + x /\ c = b + y
        BY <2>5, <2>8, <3>3, Zenon
      <4> HIDE DEF a, b, c, x, y
      <4>2. c - x = a + y
        BY <4>1
      <4> QED
        BY <4>2, Zenon DEF a, b, c, x, y
    <3> QED
      BY <3>2, <3>4, <3>5
  <2>3. CASE k > i
    <3>1. ~(k < i) /\ ~(k - 1 < i)
      BY <1>0, <2>0, <2>3
    <3>2. r[k] = q[k + 1] - st[i].len /\ r[k - 1] = q[k] - st[i].len /\ t[k] = st[k + 1]
      BY <2>6, <2>7, <3>1, Zenon
    <3>4. t[k].len = st[k + 1].len
      BY <3>2, Zenon
    <3> DEFINE b == q[k]
               c == q[k + 1]
               x == st[i].len
               y == st[k + 1].len
    <3>5. b \in Nat /\ c \in Nat /\ x \in Nat /\ y \in Nat /\ c = b + y
      BY <2>5, <2>8, Zenon
    <3> HIDE DEF b, c, x, y
    <3>6. c - x = (b - x) + y
      BY <3>5
    <3> QED
      BY <3>2, <3>4, <3>6, Zenon DEF b, c, x, y
  <2> QED
    BY <1>0, <2>0, <2>1, <2>2, <2>3
<1> HIDE DEF r
<1>4. r[Len(t)] = Used(t)
  BY <1>0, <1>2, <1>3, UsedUnique
<1>5. q[n] - st[i].len = Used(t)
  BY <1>0, <1>2, <1>4
<1>6. q[n] \in Nat /\ st[i].len \in Nat
  BY <1>0, <1>1, <1>l
<1> HIDE DEF r
<1>7. Used(t) \in Nat
  BY <1>0, UsedRuns
<1> QED
  BY <1>1, <1>5, <1>6, <1>7 DEF t

(* The heap.                                                               *)
LEMMA HeapIs ==
    ASSUME NEW h \in Heaps
    PROVE  /\ Len(h) \in Nat /\ Len(h) >= 2 /\ DOMAIN h = 1 .. Len(h)
           /\ \A i \in 1 .. Len(h) : h[i] \in ByteSeq /\ Len(h[i]) \in Nat
<1>1. h \in Seq(ByteSeq) /\ Len(h) >= 2
  BY DEF Heaps
<1>2. \A i \in 1 .. Len(h) : h[i] \in ByteSeq
  BY <1>1
<1> QED
  BY <1>1, <1>2, BytesAre

LEMMA KeptSelf ==
    ASSUME NEW h \in Heaps
    PROVE  Kept(h, h)
BY HeapIs DEF Kept

LEMMA KeptTwice ==
    ASSUME NEW h \in Heaps, NEW g \in Heaps, NEW f \in Heaps, Kept(h, g), Kept(g, f)
    PROVE  Kept(h, f)
<1>1. Len(h) \in Nat /\ Len(g) \in Nat /\ Len(f) \in Nat
  BY HeapIs
<1>2. Len(h) <= Len(g) /\ Len(g) <= Len(f)
  BY DEF Kept
<1>3. ASSUME NEW i \in 1 .. Len(h) PROVE Len(f[i]) = Len(h[i])
  <2>1. i \in 1 .. Len(g)
    BY <1>1, <1>2
  <2> QED
    BY <2>1 DEF Kept
<1> QED
  BY <1>1, <1>2, <1>3 DEF Kept

LEMMA WindowKept ==
    ASSUME NEW h \in Heaps, NEW g \in Heaps, Kept(h, g), NEW s \in Windows(h)
    PROVE  s \in Windows(g)
<1>1. s \in Slices /\ s.arr \in 1 .. Len(h) /\ s.off + s.len <= Len(h[s.arr])
  BY DEF Windows
<1>2. Len(h) \in Nat /\ Len(g) \in Nat /\ Len(h) <= Len(g) /\ Len(g[s.arr]) = Len(h[s.arr])
  BY <1>1, HeapIs DEF Kept
<1>3. s.arr \in 1 .. Len(g)
  BY <1>1, <1>2
<1> QED
  BY <1>1, <1>2, <1>3 DEF Windows

LEMMA HeapSet ==
    ASSUME NEW h \in Heaps, NEW a \in 1 .. Len(h), NEW b \in ByteSeq, Len(b) = Len(h[a])
    PROVE  /\ [h EXCEPT ![a] = b] \in Heaps
           /\ Kept(h, [h EXCEPT ![a] = b])
<1> DEFINE g == [h EXCEPT ![a] = b]
<1>1. h \in Seq(ByteSeq)
  BY DEF Heaps
<1>2. /\ g \in Seq(ByteSeq) /\ Len(g) = Len(h)
      /\ \A j \in 1 .. Len(h) : g[j] = IF j = a THEN b ELSE h[j]
  BY <1>1, ExceptSeq
<1> HIDE DEF g
<1>3. g \in Heaps
  BY <1>2, HeapIs DEF Heaps
<1>4. Kept(h, g)
  BY <1>2, HeapIs DEF Kept
<1> QED
  BY <1>3, <1>4 DEF g

LEMMA HeapGrown ==
    ASSUME NEW h \in Heaps, NEW b \in ByteSeq
    PROVE  /\ Append(h, b) \in Heaps /\ Kept(h, Append(h, b))
           /\ Len(Append(h, b)) = Len(h) + 1 /\ Append(h, b)[Len(h) + 1] = b
<1> DEFINE g == Append(h, b)
<1>1. h \in Seq(ByteSeq) /\ Len(h) \in Nat /\ Len(h) >= 2
  BY HeapIs DEF Heaps
<1>2. /\ g \in Seq(ByteSeq) /\ Len(g) = Len(h) + 1 /\ g[Len(h) + 1] = b
      /\ \A j \in 1 .. Len(h) : g[j] = h[j]
  BY <1>1
<1> HIDE DEF g
<1>3. g \in Heaps /\ Kept(h, g)
  BY <1>1, <1>2 DEF Heaps, Kept
<1> QED
  BY <1>2, <1>3 DEF g

(* The machine.                                                            *)
LEMMA MachineIs ==
    ASSUME NEW m \in Machines
    PROVE  /\ m \in MachineTypes /\ m.heap \in Heaps /\ m.stack \in Seq(Slices)
           /\ m.pc \in Nat /\ m.fee \in Nat /\ m.memoryUsage \in Nat
           /\ m.callStack \in Seq(Frames) /\ m.changes \in Seq(Changes)
           /\ m.status \in Statuses
           /\ m.memoryUsage = Used(m.stack) /\ m.memoryUsage <= MemoryMax
           /\ \A i \in 1 .. Len(m.stack) : m.stack[i] \in Windows(m.heap)
BY DEF Machines, MachineTypes

LEMMA FollowsSelf ==
    ASSUME NEW m \in Machines
    PROVE  Follows(m, m)
<1>1. m.heap \in Heaps /\ m.fee \in Nat
  BY MachineIs
<1>2. Kept(m.heap, m.heap)
  BY <1>1, KeptSelf
<1> QED
  BY <1>1, <1>2 DEF Follows

LEMMA FollowsTwice ==
    ASSUME NEW m \in Machines, NEW q, NEW r, Follows(m, q), Follows(q, r)
    PROVE  Follows(m, r)
<1>1. q \in Machines /\ r \in Machines /\ Kept(m.heap, q.heap) /\ Kept(q.heap, r.heap)
      /\ q.fee <= m.fee /\ r.fee <= q.fee
  BY DEF Follows
<1>2. /\ m.heap \in Heaps /\ q.heap \in Heaps /\ r.heap \in Heaps
      /\ m.fee \in Nat /\ q.fee \in Nat /\ r.fee \in Nat
  BY <1>1, MachineIs
<1>3. Kept(m.heap, r.heap)
  BY <1>1, <1>2, KeptTwice
<1>4. r.fee <= m.fee
  BY <1>1, <1>2
<1> QED
  BY <1>1, <1>3, <1>4 DEF Follows

LEMMA WindowFollows ==
    ASSUME NEW m \in Machines, NEW q, Follows(m, q), NEW s \in Windows(m.heap)
    PROVE  s \in Windows(q.heap)
<1>1. q \in Machines /\ Kept(m.heap, q.heap)
  BY DEF Follows
<1>2. m.heap \in Heaps /\ q.heap \in Heaps
  BY <1>1, MachineIs
<1> QED
  BY <1>1, <1>2, WindowKept

LEMMA YieldsTwice ==
    ASSUME NEW m \in Machines, NEW q, Follows(m, q), NEW r, Yields(q, r)
    PROVE  Yields(m, r)
BY FollowsTwice, Zenon DEF Yields

LEMMA SetHeap ==
    ASSUME NEW m \in Machines, NEW g \in Heaps, Kept(m.heap, g)
    PROVE  /\ Follows(m, [m EXCEPT !.heap = g])
           /\ [m EXCEPT !.heap = g].heap = g
<1> DEFINE q == [m EXCEPT !.heap = g]
<1>1. m \in MachineTypes /\ m.heap \in Heaps /\ m.fee \in Nat
  BY MachineIs
<1>2. /\ q \in MachineTypes /\ q.heap = g /\ q.fee = m.fee /\ q.stack = m.stack
      /\ q.memoryUsage = m.memoryUsage
  BY <1>1 DEF MachineTypes
<1> HIDE DEF q
<1>3. \A i \in 1 .. Len(q.stack) : q.stack[i] \in Windows(q.heap)
  <2>1. \A i \in 1 .. Len(m.stack) : m.stack[i] \in Windows(m.heap)
    BY MachineIs
  <2>2. \A s \in Windows(m.heap) : s \in Windows(g)
    BY <1>1, WindowKept
  <2> QED
    BY <1>2, <2>1, <2>2, Zenon
<1>4. q.memoryUsage = Used(q.stack) /\ q.memoryUsage <= MemoryMax
  BY <1>2, MachineIs
<1>5. q \in Machines
  BY <1>2, <1>3, <1>4 DEF Machines
<1> QED
  BY <1>1, <1>2, <1>5 DEF Follows, q

LEMMA SetStatus ==
    ASSUME NEW m \in Machines, NEW why \in Statuses
    PROVE  /\ Follows(m, [m EXCEPT !.status = why])
           /\ [m EXCEPT !.status = why].heap = m.heap
<1> DEFINE q == [m EXCEPT !.status = why]
<1>1. m \in MachineTypes /\ m.heap \in Heaps /\ m.fee \in Nat
  BY MachineIs
<1>2. /\ q \in MachineTypes /\ q.heap = m.heap /\ q.fee = m.fee /\ q.stack = m.stack
      /\ q.memoryUsage = m.memoryUsage
  BY <1>1 DEF MachineTypes
<1> HIDE DEF q
<1>3. q \in Machines
  BY <1>2, MachineIs DEF Machines
<1> QED
  BY <1>1, <1>2, <1>3, KeptSelf DEF Follows, q

LEMMA SetPc ==
    ASSUME NEW m \in Machines, NEW n \in Nat
    PROVE  /\ Follows(m, [m EXCEPT !.pc = n])
           /\ [m EXCEPT !.pc = n].heap = m.heap
<1> DEFINE q == [m EXCEPT !.pc = n]
<1>1. m \in MachineTypes /\ m.heap \in Heaps /\ m.fee \in Nat
  BY MachineIs
<1>2. /\ q \in MachineTypes /\ q.heap = m.heap /\ q.fee = m.fee /\ q.stack = m.stack
      /\ q.memoryUsage = m.memoryUsage
  BY <1>1 DEF MachineTypes
<1> HIDE DEF q
<1>3. q \in Machines
  BY <1>2, MachineIs DEF Machines
<1> QED
  BY <1>1, <1>2, <1>3, KeptSelf DEF Follows, q

LEMMA FailFollows ==
    ASSUME NEW m \in Machines
    PROVE  Follows(m, Fail(m)) /\ Fail(m).heap = m.heap
<1>1. "false" \in Statuses
  BY DEF Statuses
<1> QED
  BY <1>1, SetStatus, FollowsSelf DEF Fail

LEMMA StopFollows ==
    ASSUME NEW m \in Machines, NEW why \in Statuses
    PROVE  Follows(m, Stop(m, why)) /\ Stop(m, why).heap = m.heap
BY SetStatus DEF Stop

LEMMA CheckFollows ==
    ASSUME NEW m \in Machines, NEW good
    PROVE  Follows(m, Check(m, good)) /\ Check(m, good).heap = m.heap
BY FailFollows, FollowsSelf DEF Check

(* Slices of a machine.                                                    *)
Ready(r) == r.m \in Machines /\ r.v \in Windows(r.m.heap)

LEMMA YieldsReady ==
    ASSUME NEW m, NEW r, Yields(m, r)
    PROVE  Ready(r) /\ Follows(m, r.m)
BY DEF Yields, Follows, Ready

LEMMA WindowIs ==
    ASSUME NEW m \in Machines, NEW s \in Windows(m.heap)
    PROVE  /\ s \in Slices /\ s.arr \in Nat /\ s.off \in Nat /\ s.len \in Nat
           /\ s.arr \in 1 .. Len(m.heap) /\ m.heap \in Heaps
           /\ m.heap[s.arr] \in ByteSeq /\ Len(m.heap[s.arr]) \in Nat
           /\ s.off + s.len <= Len(m.heap[s.arr])
<1>1. m.heap \in Heaps
  BY MachineIs
<1>2. s \in Slices /\ s.arr \in 1 .. Len(m.heap) /\ s.off + s.len <= Len(m.heap[s.arr])
  BY DEF Windows
<1>3. m.heap[s.arr] \in ByteSeq /\ Len(m.heap[s.arr]) \in Nat
  BY <1>1, <1>2, HeapIs
<1> QED
  BY <1>1, <1>2, <1>3 DEF Slices

LEMMA NothingWindow ==
    ASSUME NEW m \in Machines
    PROVE  Nothing \in Windows(m.heap) /\ Nothing.len = 0
<1>1. Len(m.heap) \in Nat /\ Len(m.heap) >= 2 /\ Len(m.heap[1]) \in Nat
  BY MachineIs, HeapIs
<1>2. 1 \in 1 .. Len(m.heap)
  BY <1>1
<1> QED
  BY <1>1, <1>2 DEF Nothing, Slice, Windows, Slices

LEMMA SubWindow ==
    ASSUME NEW m \in Machines, NEW s \in Windows(m.heap), NEW from \in Nat, NEW to \in Nat,
           from <= to, to <= Cap(m, s)
    PROVE  Sub(s, from, to) \in Windows(m.heap) /\ Sub(s, from, to).len = to - from
<1> DEFINE n == Len(m.heap[s.arr])
           o == s.off
<1>1. /\ n \in Nat /\ o \in Nat /\ to <= n - o
      /\ s.arr \in Nat /\ s.arr \in 1 .. Len(m.heap)
  BY WindowIs DEF Cap
<1> HIDE DEF n, o
<1>2. o + from \in Nat /\ to - from \in Nat /\ (o + from) + (to - from) <= n
  BY <1>1
<1>3. Sub(s, from, to) = [arr |-> s.arr, off |-> o + from, len |-> to - from]
  BY DEF Sub, Slice, o
<1> QED
  BY <1>1, <1>2, <1>3 DEF Windows, Slices, n

LEMMA CapType ==
    ASSUME NEW m \in Machines, NEW s \in Windows(m.heap)
    PROVE  Cap(m, s) \in Nat /\ s.len <= Cap(m, s)
<1> DEFINE n == Len(m.heap[s.arr])
<1>1. n \in Nat /\ s.off \in Nat /\ s.len \in Nat /\ s.off + s.len <= n
  BY WindowIs
<1>2. Cap(m, s) = n - s.off
  BY DEF Cap
<1> HIDE DEF n
<1> QED
  BY <1>1, <1>2

LEMMA BytesOf ==
    ASSUME NEW m \in Machines, NEW s \in Windows(m.heap)
    PROVE  Bytes(m, s) \in ByteSeq /\ Len(Bytes(m, s)) = s.len
<1> DEFINE b == m.heap[s.arr]
           i == s.off + 1
           j == s.off + s.len
<1>1. /\ b \in ByteSeq /\ i \in Nat /\ i >= 1 /\ j \in Int /\ j <= Len(b)
      /\ (IF i <= j THEN j - i + 1 ELSE 0) = s.len
  BY WindowIs
<1>2. Bytes(m, s) = SubSeq(b, i, j)
  BY DEF Bytes
<1> HIDE DEF b, i, j
<1>3. SubSeq(b, i, j) \in ByteSeq /\ Len(SubSeq(b, i, j)) = IF i <= j THEN j - i + 1 ELSE 0
  BY <1>1, BytesCut
<1> QED
  BY <1>1, <1>2, <1>3

LEMMA Zeros ==
    ASSUME NEW n \in Int
    PROVE  /\ [i \in 1 .. n |-> 0] \in ByteSeq
           /\ Len([i \in 1 .. n |-> 0]) = IF n > 0 THEN n ELSE 0
<1> DEFINE k == IF n > 0 THEN n ELSE 0
           f == [i \in 1 .. n |-> 0]
<1>1. k \in Nat /\ 1 .. n = 1 .. k
  OBVIOUS
<1>2. f = [i \in 1 .. k |-> f[i]] /\ \A i \in 1 .. k : f[i] \in 0 .. 255
  BY <1>1
<1> HIDE DEF f, k
<1>3. f \in ByteSeq /\ Len(f) = k
  BY <1>1, <1>2, BytesFrom
<1> QED
  BY <1>3 DEF f, k

LEMMA NewYields ==
    ASSUME NEW m \in Machines, NEW bytes \in ByteSeq, NEW cap \in Nat
    PROVE  Yields(m, New(m, bytes, cap)) /\ New(m, bytes, cap).v.len = Len(bytes)
<1> DEFINE z == [i \in 1 .. cap - Len(bytes) |-> 0]
           b == bytes \o z
           g == Append(m.heap, b)
           q == [m EXCEPT !.heap = g]
           v == Slice(Len(m.heap) + 1, 0, Len(bytes))
<1>0. New(m, bytes, cap) = [m |-> q, v |-> v]
  BY DEF New
<1>1. Len(bytes) \in Nat /\ cap - Len(bytes) \in Int
  BY BytesAre
<1>2. z \in ByteSeq
  BY <1>1, Zeros
<1>3. Len(z) \in Nat
  BY <1>2, BytesAre
<1> HIDE DEF z
<1>4. b \in ByteSeq /\ Len(b) = Len(bytes) + Len(z)
  BY <1>2, BytesJoined
<1> HIDE DEF b
<1>5. m.heap \in Heaps /\ Len(m.heap) \in Nat
  BY MachineIs, HeapIs
<1>6. g \in Heaps /\ Kept(m.heap, g) /\ Len(g) = Len(m.heap) + 1 /\ g[Len(m.heap) + 1] = b
  BY <1>4, <1>5, HeapGrown
<1> HIDE DEF g
<1>7. Follows(m, q) /\ q.heap = g
  BY <1>6, SetHeap
<1>8. v \in Windows(g) /\ v.len = Len(bytes)
  BY <1>1, <1>3, <1>4, <1>5, <1>6 DEF Slice, Windows, Slices
<1> HIDE DEF q, v
<1> QED
  BY <1>0, <1>7, <1>8 DEF Yields

LEMMA GrownType ==
    ASSUME NEW cap \in Nat, NEW need \in Nat
    PROVE  Grown(cap, need) \in Nat
BY DEF Grown

LEMMA BytesReplaced ==
    ASSUME NEW h \in ByteSeq, NEW t \in ByteSeq, NEW at \in Nat, at + Len(t) <= Len(h)
    PROVE  LET b == SubSeq(h, 1, at) \o t \o SubSeq(h, at + Len(t) + 1, Len(h))
           IN  b \in ByteSeq /\ Len(b) = Len(h)
<1> DEFINE n == Len(h)
           k == Len(t)
           i == at + k + 1
           x == SubSeq(h, 1, at)
           y == SubSeq(h, i, n)
<1>1. n \in Nat /\ k \in Nat /\ at + k <= n /\ 1 \in Nat
  BY BytesAre
<1>2. SubSeq(h, 1, at) \in ByteSeq
      /\ Len(SubSeq(h, 1, at)) = IF 1 <= at THEN at - 1 + 1 ELSE 0
  <2>1. at \in Int /\ at <= n
    BY <1>1
  <2> QED
    BY <1>1, <2>1, BytesCut
<1>3. i \in Nat /\ i >= 1 /\ n \in Int
  BY <1>1
<1>4. SubSeq(h, i, n) \in ByteSeq /\ Len(SubSeq(h, i, n)) = IF i <= n THEN n - i + 1 ELSE 0
  <2>1. n <= Len(h)
    BY <1>1
  <2> HIDE DEF i, n
  <2> QED
    BY <1>3, <2>1, BytesCut
<1> HIDE DEF x, y, n, k
<1>5. Len(x) = at /\ Len(y) = n - (at + k)
  BY <1>1, <1>2, <1>4 DEF x, y
<1>6. x \o t \in ByteSeq /\ Len(x \o t) = at + k
  BY <1>2, <1>5, BytesJoined DEF x, k
<1>7. (x \o t) \o y \in ByteSeq /\ Len((x \o t) \o y) = (at + k) + (n - (at + k))
  BY <1>4, <1>5, <1>6, BytesJoined DEF y
<1>8. (at + k) + (n - (at + k)) = n
  BY <1>1
<1> QED
  BY <1>7, <1>8 DEF x, y, n, k

LEMMA AppendYields ==
    ASSUME NEW m \in Machines, NEW s \in Windows(m.heap), NEW t \in ByteSeq
    PROVE  /\ Yields(m, AppendBytes(m, s, t))
           /\ AppendBytes(m, s, t).v.len = s.len + Len(t)
<1> DEFINE need == s.len + Len(t)
           at == s.off + s.len
           h == m.heap[s.arr]
           b == SubSeq(h, 1, at) \o t \o SubSeq(h, at + Len(t) + 1, Len(h))
           q == [m EXCEPT !.heap[s.arr] = b]
           v == Slice(s.arr, s.off, need)
<1>0. /\ s \in Slices /\ s.arr \in Nat /\ s.off \in Nat /\ s.len \in Nat
      /\ s.arr \in 1 .. Len(m.heap) /\ m.heap \in Heaps
      /\ h \in ByteSeq /\ Len(h) \in Nat /\ at <= Len(h) /\ Len(t) \in Nat
  BY WindowIs, BytesAre
<1>1. CASE need <= Cap(m, s)
  <2>1. AppendBytes(m, s, t) = [m |-> q, v |-> v]
    BY <1>1 DEF AppendBytes
  <2>2. at + Len(t) <= Len(h) /\ at \in Nat
    <3> DEFINE n == Len(h)
               k == Len(t)
               o == s.off
               l == s.len
    <3>1. n \in Nat /\ k \in Nat /\ o \in Nat /\ l \in Nat /\ l + k <= n - o
      BY <1>0, <1>1 DEF Cap
    <3> HIDE DEF n, k, o, l
    <3>2. (o + l) + k <= n /\ o + l \in Nat
      BY <3>1
    <3> QED
      BY <3>2 DEF n, k, o, l
  <2>5. b \in ByteSeq /\ Len(b) = Len(h)
    BY <1>0, <2>2, BytesReplaced
  <2> HIDE DEF b
  <2>6. /\ [m.heap EXCEPT ![s.arr] = b] \in Heaps
        /\ Kept(m.heap, [m.heap EXCEPT ![s.arr] = b])
    BY <1>0, <2>5, HeapSet
  <2>7. q = [m EXCEPT !.heap = [m.heap EXCEPT ![s.arr] = b]]
    OBVIOUS
  <2>8. Follows(m, q) /\ q.heap = [m.heap EXCEPT ![s.arr] = b]
    BY <2>6, <2>7, SetHeap
  <2>9. v \in Windows(m.heap) /\ v.len = need
    BY <1>0, <1>1 DEF Slice, Windows, Slices, Cap
  <2> HIDE DEF q, v, need
  <2>10. v \in Windows(q.heap)
    BY <2>8, <2>9, WindowFollows
  <2>11. Yields(m, [m |-> q, v |-> v]) /\ [m |-> q, v |-> v].v.len = need
    BY <2>8, <2>9, <2>10 DEF Yields
  <2> QED
    BY <2>1, <2>11 DEF need
<1>2. CASE ~(need <= Cap(m, s))
  <2> DEFINE c == Bytes(m, s) \o t
             g == Grown(Cap(m, s), need)
  <2>1. AppendBytes(m, s, t) = New(m, c, g)
    BY <1>2 DEF AppendBytes
  <2>2. c \in ByteSeq /\ Len(c) = need
    BY BytesOf, BytesJoined
  <2>3. g \in Nat
    <3>1. need \in Nat
      BY <1>0
    <3> HIDE DEF need
    <3> QED
      BY <3>1, CapType, GrownType
  <2> HIDE DEF c, g
  <2>4. Yields(m, New(m, c, g)) /\ New(m, c, g).v.len = Len(c)
    BY <2>2, <2>3, NewYields
  <2> QED
    BY <2>1, <2>2, <2>4
<1> QED
  BY <1>1, <1>2

LEMMA AppendToYields ==
    ASSUME NEW r, Ready(r), NEW t \in ByteSeq
    PROVE  /\ Yields(r.m, AppendTo(r, t))
           /\ AppendTo(r, t).v.len = r.v.len + Len(t)
BY AppendYields DEF AppendTo, Ready

(* Fetching and the evaluation stack.                                      *)
LEMMA CodeType ==
    ASSUME NEW m \in Machines
    PROVE  Code(m) \in ByteSeq /\ Len(Code(m)) \in Nat /\ 1 \in 1 .. Len(m.heap)
<1>1. m.heap \in Heaps /\ Len(m.heap) \in Nat /\ Len(m.heap) >= 2
  BY MachineIs, HeapIs
<1>2. 1 \in 1 .. Len(m.heap)
  BY <1>1
<1> QED
  BY <1>1, <1>2, HeapIs DEF Code

LEMMA FetchFollows ==
    ASSUME NEW m \in Machines
    PROVE  Follows(m, fetch(m).m) /\ fetch(m).v \in 0 .. 255
<1>1. CASE Len(Code(m)) > m.pc
  <2>1. m.pc + 1 \in Nat /\ m.pc + 1 \in 1 .. Len(Code(m))
    BY <1>1, MachineIs, CodeType
  <2>2. fetch(m) = [m |-> [m EXCEPT !.pc = m.pc + 1], v |-> Code(m)[m.pc + 1]]
    BY <1>1 DEF fetch
  <2>3. Code(m)[m.pc + 1] \in 0 .. 255
    BY <2>1, CodeType, BytesAre
  <2>4. Follows(m, [m EXCEPT !.pc = m.pc + 1])
    BY <2>1, SetPc
  <2> QED
    BY <2>2, <2>3, <2>4
<1>2. CASE ~(Len(Code(m)) > m.pc)
  <2>1. fetch(m) = [m |-> Fail(m), v |-> 0]
    BY <1>2 DEF fetch
  <2> QED
    BY <2>1, FailFollows
<1> QED
  BY <1>1, <1>2

LEMMA FetchManyYields ==
    ASSUME NEW m \in Machines, NEW n \in Nat
    PROVE  Yields(m, fetchMany(m, n))
<1>1. CASE Len(Code(m)) - m.pc > n
  <2> DEFINE q == [m EXCEPT !.pc = m.pc + n]
  <2>1. fetchMany(m, n) = [m |-> q, v |-> Slice(1, m.pc, n)]
    BY <1>1 DEF fetchMany
  <2>2. m.pc + n \in Nat /\ m.pc + n <= Len(Code(m)) /\ m.pc \in Nat
    BY <1>1, MachineIs, CodeType
  <2>3. Follows(m, q)
    BY <2>2, SetPc
  <2>4. Slice(1, m.pc, n) \in Windows(m.heap)
    BY <2>2, CodeType DEF Slice, Windows, Slices, Code
  <2> HIDE DEF q
  <2>5. Slice(1, m.pc, n) \in Windows(q.heap)
    BY <2>3, <2>4, WindowFollows
  <2> QED
    BY <2>1, <2>3, <2>5 DEF Yields
<1>2. CASE ~(Len(Code(m)) - m.pc > n)
  <2>1. fetchMany(m, n) = [m |-> Fail(m), v |-> Nothing]
    BY <1>2 DEF fetchMany
  <2>2. Follows(m, Fail(m)) /\ Fail(m) \in Machines
    BY FailFollows DEF Follows
  <2> QED
    BY <2>1, <2>2, NothingWindow DEF Yields
<1> QED
  BY <1>1, <1>2

LEMMA SetStack ==
    ASSUME NEW m \in Machines, NEW st \in Seq(Slices), NEW n,
           \A i \in 1 .. Len(st) : st[i] \in Windows(m.heap),
           n \in Nat, n = Used(st), n <= MemoryMax
    PROVE  Follows(m, [m EXCEPT !.stack = st, !.memoryUsage = n])
<1> DEFINE q == [m EXCEPT !.stack = st, !.memoryUsage = n]
<1>1. m \in MachineTypes /\ m.heap \in Heaps /\ m.fee \in Nat
  BY MachineIs
<1>2. q \in MachineTypes /\ q.heap = m.heap /\ q.fee = m.fee /\ q.stack = st /\ q.memoryUsage = n
  BY <1>1 DEF MachineTypes
<1> HIDE DEF q
<1>3. q \in Machines
  BY <1>2 DEF Machines
<1> QED
  BY <1>1, <1>2, <1>3, KeptSelf DEF Follows, q

LEMMA PushedFollows ==
    ASSUME NEW m \in Machines, NEW s \in Windows(m.heap), hasEnoughMemory(m, s.len)
    PROVE  Follows(m, Pushed(m, s))
<1> DEFINE st == Append(m.stack, s)
           q == [m EXCEPT !.stack = st, !.memoryUsage = m.memoryUsage + s.len]
<1>0. Pushed(m, s) = q
  BY DEF Pushed
<1>1. /\ m \in MachineTypes /\ m.heap \in Heaps /\ m.fee \in Nat /\ m.stack \in Seq(Slices)
      /\ m.memoryUsage = Used(m.stack) /\ m.memoryUsage \in Nat
  BY MachineIs
<1>2. s \in Slices /\ s.len \in Nat
  BY WindowIs
<1>3. st \in Seq(Slices) /\ Used(st) = Used(m.stack) + s.len
  BY <1>1, <1>2, UsedAppend
<1>4. \A i \in 1 .. Len(st) : st[i] \in Windows(m.heap)
  <2>1. Len(m.stack) \in Nat /\ Len(st) = Len(m.stack) + 1 /\ st[Len(m.stack) + 1] = s
        /\ \A i \in 1 .. Len(m.stack) : st[i] = m.stack[i]
    BY <1>1, <1>2
  <2>2. \A i \in 1 .. Len(m.stack) : m.stack[i] \in Windows(m.heap)
    BY MachineIs
  <2> HIDE DEF st
  <2> QED
    BY <2>1, <2>2
<1>5. m.memoryUsage + s.len <= MemoryMax
  <2>1. MemoryMax \in Nat
    BY VMAssumption
  <2> QED
    BY <1>1, <1>2, <2>1 DEF hasEnoughMemory
<1> DEFINE n == m.memoryUsage + s.len
<1>6. n \in Nat /\ n = Used(st) /\ n <= MemoryMax
  BY <1>1, <1>2, <1>3, <1>5
<1> HIDE DEF st, n
<1>7. Follows(m, [m EXCEPT !.stack = st, !.memoryUsage = n])
  BY <1>3, <1>4, <1>6, SetStack
<1> QED
  BY <1>0, <1>7 DEF n

LEMMA PushFollows ==
    ASSUME NEW m \in Machines, NEW s \in Windows(m.heap)
    PROVE  Follows(m, Push(m, s)) /\ Follows(m, TryPush(m, s))
BY PushedFollows, FailFollows, FollowsSelf DEF Push, TryPush

LEMMA PushResultFollows ==
    ASSUME NEW r, Ready(r)
    PROVE  Follows(r.m, PushResult(r)) /\ Follows(r.m, TryPushResult(r))
BY PushFollows DEF PushResult, TryPushResult, Ready

LEMMA PushYielded ==
    ASSUME NEW m \in Machines, NEW r, Yields(m, r)
    PROVE  Follows(m, PushResult(r)) /\ Follows(m, TryPushResult(r))
BY PushResultFollows, YieldsReady, FollowsTwice

LEMMA PushNewFollows ==
    ASSUME NEW m \in Machines, NEW bytes \in ByteSeq, NEW cap \in Nat
    PROVE  Follows(m, PushNew(m, bytes, cap)) /\ Follows(m, TryPushNew(m, bytes, cap))
BY PushYielded, NewYields DEF PushNew, TryPushNew

LEMMA PopAtFollows ==
    ASSUME NEW m \in Machines, NEW i \in 1 .. Len(m.stack)
    PROVE  /\ Yields(m, PopIndexAt(m, i))
           /\ PopIndexAt(m, i).m.fee = m.fee /\ PopIndexAt(m, i).m.heap = m.heap
<1> DEFINE st == RemoveAt(m.stack, i)
           s == m.stack[i]
           q == [m EXCEPT !.stack = st, !.memoryUsage = m.memoryUsage - s.len]
<1>0. PopIndexAt(m, i) = [m |-> q, v |-> s]
  BY DEF PopIndexAt
<1>1. /\ m \in MachineTypes /\ m.heap \in Heaps /\ m.fee \in Nat /\ m.stack \in Seq(Slices)
      /\ m.memoryUsage = Used(m.stack) /\ m.memoryUsage \in Nat
      /\ m.memoryUsage <= MemoryMax
      /\ \A k \in 1 .. Len(m.stack) : m.stack[k] \in Windows(m.heap)
  BY MachineIs
<1>2. s \in Windows(m.heap) /\ s \in Slices /\ s.len \in Nat
  BY <1>1, WindowIs
<1>3. st \in Seq(Slices) /\ Used(m.stack) = Used(st) + s.len
  BY <1>1, RemoveAtIs, UsedRemove
<1>n. Used(st) \in Nat
  BY <1>3, UsedRuns
<1>4. \A k \in 1 .. Len(st) : st[k] \in Windows(m.heap)
  <2>0. Len(m.stack) \in Nat
    BY <1>1
  <2>1. /\ Len(st) = Len(m.stack) - 1
        /\ \A k \in 1 .. (Len(m.stack) - 1) :
              st[k] = IF k < i THEN m.stack[k] ELSE m.stack[k + 1]
    BY <1>1, RemoveAtIs, Zenon
  <2> HIDE DEF st
  <2>2. ASSUME NEW k \in 1 .. Len(st) PROVE st[k] \in Windows(m.heap)
    <3>1. k \in 1 .. (Len(m.stack) - 1) /\ k \in 1 .. Len(m.stack) /\ k + 1 \in 1 .. Len(m.stack)
      BY <2>0, <2>1
    <3>2. m.stack[k] \in Windows(m.heap) /\ m.stack[k + 1] \in Windows(m.heap)
      BY <1>1, <3>1
    <3> QED
      BY <2>1, <3>1, <3>2
  <2> QED
    BY <2>2
<1> HIDE DEF st, s
<1>5. MemoryMax \in Nat /\ m.memoryUsage - s.len = Used(st) /\ m.memoryUsage - s.len \in Nat
      /\ m.memoryUsage - s.len <= MemoryMax
  <2>1. MemoryMax \in Nat
    BY VMAssumption
  <2>2. m.memoryUsage = Used(st) + s.len /\ m.memoryUsage <= MemoryMax
    BY <1>1, <1>3, Zenon
  <2>3. m.memoryUsage \in Nat /\ Used(st) \in Nat /\ s.len \in Nat
    BY <1>1, <1>2, <1>n, Zenon
  <2> QED
    BY ONLY <2>1, <2>2, <2>3
<1> DEFINE n == m.memoryUsage - s.len
<1>6. n \in Nat /\ n = Used(st) /\ n <= MemoryMax
  BY <1>5
<1> HIDE DEF n
<1>3a. st \in Seq(Slices)
  BY <1>3
<1>7. Follows(m, [m EXCEPT !.stack = st, !.memoryUsage = n])
  BY <1>3a, <1>4, <1>6, SetStack
<1>8. Follows(m, q) /\ q.heap = m.heap /\ q.fee = m.fee
  BY <1>1, <1>7 DEF n, MachineTypes
<1> HIDE DEF q
<1>9. PopIndexAt(m, i).m = q /\ PopIndexAt(m, i).v = s
  BY <1>0
<1> QED
  BY <1>2, <1>8, <1>9, Zenon DEF Yields

LEMMA SetFee ==
    ASSUME NEW m \in Machines, NEW n \in Nat, n <= m.fee
    PROVE  Follows(m, [m EXCEPT !.fee = n]) /\ [m EXCEPT !.fee = n].heap = m.heap
<1> DEFINE q == [m EXCEPT !.fee = n]
<1>1. m \in MachineTypes /\ m.heap \in Heaps /\ m.fee \in Nat
  BY MachineIs
<1>2. /\ q \in MachineTypes /\ q.heap = m.heap /\ q.fee = n /\ q.stack = m.stack
      /\ q.memoryUsage = m.memoryUsage
  BY <1>1 DEF MachineTypes
<1> HIDE DEF q
<1>3. q \in Machines
  BY <1>2, MachineIs DEF Machines
<1> QED
  BY <1>1, <1>2, <1>3, KeptSelf DEF Follows, q

LEMMA PopBytesYields ==
    ASSUME NEW m \in Machines, NEW gas \in Nat
    PROVE  Yields(m, PopBytes(m, gas)) /\ PopBytes(m, gas).ok \in BOOLEAN
<1>0. m.stack \in Seq(Slices) /\ m.fee \in Nat
  BY MachineIs
<1>1. CASE m.stack = <<>>
  <2>1. PopBytes(m, gas) = [m |-> Fail(m), v |-> Nothing, ok |-> FALSE]
    BY <1>1 DEF PopBytes
  <2>2. Follows(m, Fail(m)) /\ Fail(m) \in Machines
    BY FailFollows DEF Follows
  <2> QED
    BY <2>1, <2>2, NothingWindow DEF Yields
<1>2. CASE m.stack # <<>>
  <2> DEFINE i == Len(m.stack)
             p == PopIndexAt(m, i)
             cost == gas * ((p.v.len + GasWord - 1) \div GasWord)
             q == [p.m EXCEPT !.fee = p.m.fee - cost]
  <2>1. i \in 1 .. Len(m.stack)
    BY <1>0, <1>2, EmptySeq
  <2>2. Yields(m, p) /\ p.m.fee = m.fee /\ p.m.heap = m.heap
    BY <2>1, PopAtFollows
  <2>3. PopBytes(m, gas) = IF m.fee < cost THEN [m |-> Fail(p.m), v |-> Nothing, ok |-> FALSE]
                           ELSE [m |-> q, v |-> p.v, ok |-> TRUE]
    BY <1>2 DEF PopBytes
  <2> HIDE DEF p
  <2>4. Ready(p) /\ Follows(m, p.m) /\ p.m \in Machines /\ p.v \in Windows(p.m.heap)
    BY <2>2, YieldsReady DEF Ready
  <2>5. cost \in Nat
    <3> DEFINE n == p.v.len + GasWord - 1
               k == n \div GasWord
    <3>1. p.v.len \in Nat
      BY <2>4, WindowIs
    <3>2. n \in Nat /\ GasWord \in Nat /\ GasWord > 0
      BY <3>1, VMAssumption
    <3> HIDE DEF n
    <3>3. k \in Nat
      BY <3>2, Quotient
    <3> HIDE DEF k
    <3>4. gas * k \in Nat
      BY <3>3
    <3> QED
      BY <3>4 DEF k, n
  <2> HIDE DEF cost
  <2>6. CASE m.fee < cost
    <3>1. Follows(p.m, Fail(p.m)) /\ Fail(p.m) \in Machines
      BY <2>4, FailFollows DEF Follows
    <3>2. Follows(m, Fail(p.m))
      BY <2>4, <3>1, FollowsTwice
    <3>3. PopBytes(m, gas) = [m |-> Fail(p.m), v |-> Nothing, ok |-> FALSE]
      BY <2>3, <2>6
    <3> QED
      BY <3>1, <3>2, <3>3, NothingWindow DEF Yields
  <2>7. CASE ~(m.fee < cost)
    <3>1. p.m.fee - cost \in Nat /\ p.m.fee - cost <= p.m.fee
      BY <1>0, <2>2, <2>5, <2>7
    <3>2. Follows(p.m, q) /\ q.heap = p.m.heap
      BY <2>4, <3>1, SetFee
    <3>3. PopBytes(m, gas) = [m |-> q, v |-> p.v, ok |-> TRUE]
      BY <2>3, <2>7
    <3> HIDE DEF q
    <3>4. Follows(m, q)
      BY <2>4, <3>2, FollowsTwice
    <3> QED
      BY <2>4, <3>2, <3>3, <3>4 DEF Yields
  <2> QED
    BY <2>6, <2>7
<1> QED
  BY <1>1, <1>2

LEMMA PopUnsignedFollows ==
    ASSUME NEW m \in Machines, NEW gas \in Nat
    PROVE  /\ Follows(m, PopUnsignedBigInt(m, gas).m)
           /\ PopUnsignedBigInt(m, gas).v \in BigInts
<1> DEFINE p == PopBytes(m, gas)
<1>1. Ready(p) /\ Follows(m, p.m)
  BY PopBytesYields, YieldsReady
<1>2. PopUnsignedBigInt(m, gas) = [m |-> p.m, v |-> UnsignedBigIntConversion(Bytes(p.m, p.v))]
  BY DEF PopUnsignedBigInt
<1> HIDE DEF p
<1>3. Bytes(p.m, p.v) \in ByteSeq
  BY <1>1, BytesOf DEF Ready
<1>4. UnsignedBigIntConversion(Bytes(p.m, p.v)) \in BigInts
  BY <1>3, UnsignedType
<1> QED
  BY <1>1, <1>2, <1>4

LEMMA ZeroType == BigInt(FALSE, <<>>) \in BigInts
BY BigIntType, NoBytes

LEMMA PopSignedFollows ==
    ASSUME NEW m \in Machines, NEW gas \in Nat
    PROVE  /\ Follows(m, PopSignedBigInt(m, gas).m)
           /\ PopSignedBigInt(m, gas).v \in BigInts
<1> DEFINE p == PopBytes(m, gas)
           b == Bytes(p.m, p.v)
           zero == BigInt(FALSE, <<>>)
           r == PopSignedBigInt(m, gas)
<1>1. Ready(p) /\ Follows(m, p.m) /\ p.ok \in BOOLEAN
  BY PopBytesYields, YieldsReady
<1>2. r = CASE ~p.ok -> [m |-> p.m, v |-> zero]
            [] p.ok /\ b = <<>> -> [m |-> Stop(p.m, "panic"), v |-> zero]
            [] p.ok /\ b # <<>> /\ b[1] \notin {0, 1} -> [m |-> Fail(p.m), v |-> zero]
            [] OTHER -> [m |-> p.m, v |-> SignedBigIntConversion(b)]
  BY DEF PopSignedBigInt, Signed
<1> HIDE DEF p
<1>3. b \in ByteSeq /\ p.m \in Machines
  BY <1>1, BytesOf DEF Ready
<1> HIDE DEF b, r, zero
<1>4. \/ r = [m |-> p.m, v |-> zero]
      \/ r = [m |-> Stop(p.m, "panic"), v |-> zero]
      \/ r = [m |-> Fail(p.m), v |-> zero]
      \/ b # <<>> /\ r = [m |-> p.m, v |-> SignedBigIntConversion(b)]
  BY <1>1, <1>2
<1>5. zero \in BigInts
  BY ZeroType DEF zero
<1>6. Follows(p.m, Stop(p.m, "panic")) /\ Follows(p.m, Fail(p.m))
  BY <1>3, StopFollows, FailFollows DEF Statuses
<1>7. Follows(m, Stop(p.m, "panic")) /\ Follows(m, Fail(p.m))
  BY <1>1, <1>6, FollowsTwice
<1>8. b # <<>> => SignedBigIntConversion(b) \in BigInts
  BY <1>3, SignedType
<1>9. Follows(m, r.m) /\ r.v \in BigInts
  BY <1>1, <1>4, <1>5, <1>7, <1>8
<1> QED
  BY <1>9 DEF r

(* Several operands.                                                       *)
Popped(p, n) ==
    /\ p.m \in Machines /\ p.vs \in Seq(Slices) /\ Len(p.vs) = n
    /\ \A i \in 1 .. n : p.vs[i] \in Windows(p.m.heap)

LEMMA PopAlsoFollows ==
    ASSUME NEW p, NEW n \in Nat, Popped(p, n), NEW gas \in Nat
    PROVE  Popped(PopAlso(p, gas), n + 1) /\ Follows(p.m, PopAlso(p, gas).m)
<1> DEFINE q == PopBytes(p.m, gas)
           vs == Append(p.vs, q.v)
<1>1. p.m \in Machines /\ p.vs \in Seq(Slices) /\ Len(p.vs) = n
      /\ \A i \in 1 .. n : p.vs[i] \in Windows(p.m.heap)
  BY DEF Popped
<1>2. Ready(q) /\ Follows(p.m, q.m)
  BY <1>1, PopBytesYields, YieldsReady
<1>3. PopAlso(p, gas) = [m |-> q.m, vs |-> vs]
  BY DEF PopAlso
<1> HIDE DEF q
<1>4. q.m \in Machines /\ q.v \in Windows(q.m.heap) /\ q.v \in Slices
  BY <1>2, WindowIs DEF Ready
<1>5. /\ vs \in Seq(Slices) /\ Len(vs) = n + 1 /\ vs[n + 1] = q.v
      /\ \A i \in 1 .. n : vs[i] = p.vs[i]
  BY <1>1, <1>4
<1>6. \A i \in 1 .. n : p.vs[i] \in Windows(q.m.heap)
  BY <1>1, <1>2, WindowFollows
<1> HIDE DEF vs
<1>7. \A i \in 1 .. n + 1 : vs[i] \in Windows(q.m.heap)
  BY <1>4, <1>5, <1>6
<1> QED
  BY <1>2, <1>3, <1>4, <1>5, <1>7 DEF Popped

LEMMA OperandsFollow ==
    ASSUME NEW m \in Machines, NEW n \in {2, 3}, NEW gas \in Nat
    PROVE  Popped(Operands(m, n, gas), n) /\ Follows(m, Operands(m, n, gas).m)
<1> DEFINE none == [m |-> m, vs |-> <<>>]
           one == PopAlso(none, gas)
           two == PopAlso(one, gas)
           three == PopAlso(two, gas)
<1>1. Popped(none, 0) /\ none.m = m
  BY DEF Popped
<1>2. Operands(m, n, gas) = IF n = 2 THEN two ELSE three
  BY DEF Operands
<1> HIDE DEF none
<1>3. Popped(one, 1) /\ Follows(m, one.m)
  <2>1. Popped(one, 0 + 1) /\ Follows(none.m, one.m)
    BY <1>1, PopAlsoFollows
  <2> QED
    BY <1>1, <2>1
<1> HIDE DEF one
<1>4. Popped(two, 2) /\ Follows(m, two.m)
  <2>1. Popped(two, 1 + 1) /\ Follows(one.m, two.m)
    BY <1>3, PopAlsoFollows
  <2> QED
    BY <1>3, <2>1, FollowsTwice
<1> HIDE DEF two
<1>5. Popped(three, 3) /\ Follows(m, three.m)
  <2>1. Popped(three, 2 + 1) /\ Follows(two.m, three.m)
    BY <1>4, PopAlsoFollows
  <2> QED
    BY <1>4, <2>1, FollowsTwice
<1> QED
  BY <1>2, <1>4, <1>5

LEMMA NewNumberYields ==
    ASSUME NEW m \in Machines, NEW z \in BigInts
    PROVE  Yields(m, NewNumber(m, z))
<1> DEFINE b == SignedByteArrayConversion(z)
           a == <<b[1]>>
           c == Tail(b)
           r == New(m, a, 1)
<1>1. NewNumber(m, z) = AppendTo(r, c)
  BY DEF NewNumber
<1>2. b \in ByteSeq /\ b # <<>>
  BY SignType
<1> HIDE DEF b
<1>3. c \in ByteSeq /\ b[1] \in 0 .. 255
  <2>1. Len(b) \in Nat /\ Len(b) # 0
    BY <1>2, EmptySeq DEF ByteSeq
  <2>2. 1 \in 1 .. Len(b)
    BY <2>1
  <2> QED
    BY <1>2, <2>2, BytesAre, HeadTailProperties DEF ByteSeq
<1>4. a \in ByteSeq
  BY <1>3 DEF ByteSeq
<1> HIDE DEF a, c
<1>5. Ready(r) /\ Follows(m, r.m)
  BY <1>4, NewYields, YieldsReady
<1> HIDE DEF r
<1>6. Yields(r.m, AppendTo(r, c))
  BY <1>3, <1>5, AppendToYields
<1> QED
  BY <1>1, <1>5, <1>6, YieldsTwice

LEMMA PushNumberFollows ==
    ASSUME NEW m \in Machines, NEW z \in BigInts
    PROVE  /\ Follows(m, PushNumber(m, z))
           /\ Follows(m, TryPushResult(NewNumber(m, z)))
BY NewNumberYields, PushYielded DEF PushNumber

(* Stack, arithmetic, comparisons.                                         *)
LEMMA RollIndex ==
    ASSUME NEW n \in Nat, NEW k \in Nat, n # k + 1, ~(k >= n)
    PROVE  n - k - 1 \in 1 .. n
OBVIOUS

LEMMA StackFollows ==
    ASSUME NEW m \in Machines, NEW op \in StackCodes, NEW gas \in Nat
    PROVE  Follows(m, StackOp(m, op, gas))
<1> DEFINE p == PopBytes(m, gas)
           arg == fetch(m)
           many == fetchMany(arg.m, arg.v + 1)
           n == Len(m.stack)
           q == StackOp(m, op, gas)
<1>1. CASE op = "PUSH"
  <2>1. q = Push(many.m, many.v)
    BY <1>1 DEF StackOp
  <2>2. Follows(m, arg.m) /\ arg.v + 1 \in Nat /\ arg.m \in Machines
    BY FetchFollows DEF Follows
  <2> HIDE DEF arg
  <2>3. Ready(many) /\ Follows(arg.m, many.m)
    BY <2>2, FetchManyYields, YieldsReady
  <2> HIDE DEF many
  <2>4. Follows(many.m, Push(many.m, many.v))
    BY <2>3, PushFollows DEF Ready
  <2>5. Follows(m, many.m)
    BY <2>2, <2>3, FollowsTwice
  <2> HIDE DEF q
  <2>6. Follows(m, q)
    BY <2>1, <2>4, <2>5, FollowsTwice
  <2> QED
    BY <2>6 DEF q
<1>2. CASE op = "DUP"
  <2>1. q = Push(Push(p.m, p.v), p.v)
    BY <1>2 DEF StackOp
  <2>2. Ready(p) /\ Follows(m, p.m)
    BY PopBytesYields, YieldsReady
  <2> HIDE DEF p
  <2> DEFINE u == Push(p.m, p.v)
  <2>3. Follows(p.m, u)
    BY <2>2, PushFollows DEF Ready
  <2> HIDE DEF u
  <2>4. u \in Machines /\ p.v \in Windows(u.heap) /\ p.m \in Machines
    BY <2>2, <2>3, WindowFollows DEF Ready, Follows
  <2>5. Follows(u, Push(u, p.v))
    BY <2>4, PushFollows
  <2>6. Follows(m, u)
    BY <2>2, <2>3, FollowsTwice
  <2>7. Follows(m, Push(u, p.v))
    BY <2>5, <2>6, FollowsTwice
  <2> QED
    BY <2>1, <2>7 DEF u
<1>3. CASE op = "ROLL"
  <2>0. n \in Nat
    BY MachineIs
  <2>1. Follows(m, arg.m) /\ arg.v \in 0 .. 255 /\ arg.m \in Machines /\ arg.m.stack = m.stack
    <3>1. arg.m.stack = m.stack
      BY MachineIs DEF fetch, Fail, MachineTypes
    <3> QED
      BY <3>1, FetchFollows DEF Follows
  <2> DEFINE r == PopIndexAt(arg.m, n - arg.v - 1)
  <2>2. q = IF ~Running(arg.m) \/ n = arg.v + 1 THEN arg.m
            ELSE IF arg.v >= n THEN Fail(arg.m) ELSE Push(r.m, r.v)
    BY <1>3 DEF StackOp
  <2> HIDE DEF arg, q
  <2>3. CASE ~Running(arg.m) \/ n = arg.v + 1
    BY <2>1, <2>2, <2>3 DEF q
  <2>4. CASE ~(~Running(arg.m) \/ n = arg.v + 1) /\ arg.v >= n
    <3>1. q = Fail(arg.m)
      BY <2>2, <2>4
    <3> QED
      BY <2>1, <3>1, FailFollows, FollowsTwice DEF q
  <2>5. CASE ~(~Running(arg.m) \/ n = arg.v + 1) /\ ~(arg.v >= n)
    <3>1. q = Push(r.m, r.v)
      BY <2>2, <2>5
    <3>2. n - arg.v - 1 \in 1 .. n
      <4> HIDE DEF n
      <4>1. arg.v \in Nat
        BY <2>1
      <4>2. n # arg.v + 1
        BY Zenon, <2>5
      <4>3. ~(arg.v >= n)
        BY Zenon, <2>5
      <4> QED
        BY <2>0, <4>1, <4>2, <4>3, RollIndex
    <3>3. n - arg.v - 1 \in 1 .. Len(arg.m.stack)
      BY <2>1, <3>2
    <3>4. Ready(r) /\ Follows(arg.m, r.m)
      BY <2>1, <3>3, PopAtFollows, YieldsReady
    <3> HIDE DEF r
    <3>5. Follows(r.m, q)
      BY <3>1, <3>4, PushFollows DEF Ready
    <3>6. Follows(m, r.m)
      BY <2>1, <3>4, FollowsTwice
    <3> QED
      BY <3>5, <3>6, FollowsTwice DEF q
  <2> QED
    BY <2>3, <2>4, <2>5
<1>4. CASE op = "POP"
  <2>1. q = p.m
    BY <1>4 DEF StackOp
  <2> QED
    BY <2>1, PopBytesYields, YieldsReady
<1> QED
  BY <1>1, <1>2, <1>3, <1>4 DEF StackCodes

LEMMA ArithmeticFollows ==
    ASSUME NEW m \in Machines, NEW op \in ArithmeticCodes, NEW gas \in Nat
    PROVE  Follows(m, ArithmeticOp(m, op, gas))
<1> DEFINE right == PopSignedBigInt(m, gas)
           left == PopSignedBigInt(right.m, gas)
           x == Value(left.v)
           y == Value(right.v)
           q == ArithmeticOp(m, op, gas)
<1>1. q = IF ~Running(left.m) \/ (op \in {"DIV", "MOD"} /\ y = 0) THEN Fail(left.m)
          ELSE PushNumber(left.m, OfValue(Arithmetic(op, x, y)))
  BY DEF ArithmeticOp
<1>2. Follows(m, right.m) /\ right.v \in BigInts
  BY PopSignedFollows
<1> HIDE DEF right
<1>3. right.m \in Machines
  BY <1>2 DEF Follows
<1>4. Follows(right.m, left.m) /\ left.v \in BigInts
  BY <1>3, PopSignedFollows
<1> HIDE DEF left
<1>5. Follows(m, left.m) /\ left.m \in Machines
  BY <1>2, <1>4, FollowsTwice DEF Follows
<1>6. x \in Int /\ y \in Int
  BY <1>2, <1>4, ValueType
<1> HIDE DEF x, y, q
<1>7. Follows(left.m, q)
  <2>1. CASE ~Running(left.m) \/ (op \in {"DIV", "MOD"} /\ y = 0)
    BY <1>1, <1>5, <2>1, FailFollows
  <2>2. CASE ~(~Running(left.m) \/ (op \in {"DIV", "MOD"} /\ y = 0))
    <3>1. OfValue(Arithmetic(op, x, y)) \in BigInts
      BY <1>6, <2>2, ArithmeticType, OfValueType
    <3> QED
      BY <1>1, <1>5, <2>2, <3>1, PushNumberFollows
  <2> QED
    BY <2>1, <2>2
<1> QED
  BY <1>5, <1>7, FollowsTwice DEF q

LEMMA BoolType ==
    ASSUME NEW b
    PROVE  BoolToByteArray(b) \in ByteSeq
<1>1. <<IF b THEN 1 ELSE 0>> \in Seq(0 .. 255)
  OBVIOUS
<1> QED
  BY <1>1 DEF BoolToByteArray, ByteSeq

LEMMA CompareFollows ==
    ASSUME NEW m \in Machines, NEW op \in CompareCodes, NEW gas \in Nat
    PROVE  Follows(m, CompareOp(m, op, gas))
<1> DEFINE Taken(u) == IF op \in {"EQ", "NEQ"} THEN PopUnsignedBigInt(u, gas)
                       ELSE PopSignedBigInt(u, gas)
           right == Taken(m)
           left == Taken(right.m)
           q == CompareOp(m, op, gas)
           b == BoolToByteArray(Compare(op, left.v, right.v))
<1>1. q = IF ~Running(left.m) THEN left.m ELSE TryPushNew(left.m, b, 1)
  BY DEF CompareOp
<1>2. ASSUME NEW u \in Machines PROVE Follows(u, Taken(u).m)
  BY PopSignedFollows, PopUnsignedFollows
<1>3. Follows(m, right.m) /\ right.m \in Machines
  BY <1>2 DEF Follows
<1> HIDE DEF right
<1>4. Follows(right.m, left.m)
  BY <1>2, <1>3
<1> HIDE DEF left
<1>5. Follows(m, left.m) /\ left.m \in Machines
  BY <1>3, <1>4, FollowsTwice DEF Follows
<1>6. b \in ByteSeq
  BY BoolType
<1> HIDE DEF b, q
<1>7. Follows(left.m, q)
  BY <1>1, <1>5, <1>6, FollowsSelf, PushNewFollows
<1> QED
  BY <1>5, <1>7, FollowsTwice DEF q

LEMMA UnaryFollows ==
    ASSUME NEW m \in Machines, NEW op \in UnaryCodes, NEW gas \in Nat
    PROVE  Follows(m, UnaryOp(m, op, gas))
<1> DEFINE arg == fetch(m)
           shifted == PopSignedBigInt(arg.m, gas)
           x == Value(shifted.v)
           tos == PopSignedBigInt(m, gas)
           neg == BigInt(~tos.v.neg, tos.v.mag)
           q == UnaryOp(m, op, gas)
           l == OfValue(Turns(LAMBDA y : 2 * y, x, arg.v))
           r == OfValue(Turns(LAMBDA y : y \div 2, x, arg.v))
<1>1. /\ op = "NOP" => q = arg.m
      /\ op = "SHIFTL" => q = PushNumber(shifted.m, l)
      /\ op = "SHIFTR" => q = PushNumber(shifted.m, r)
      /\ op = "NEG" => q = TryPushResult(NewNumber(tos.m, neg))
  BY Zenon DEF UnaryOp
<1>2. Follows(m, arg.m) /\ arg.v \in Nat /\ arg.m \in Machines
  BY FetchFollows DEF Follows
<1> HIDE DEF arg
<1>3. Follows(arg.m, shifted.m) /\ shifted.v \in BigInts
  BY <1>2, PopSignedFollows
<1> HIDE DEF shifted
<1>4. Follows(m, shifted.m) /\ shifted.m \in Machines
  BY <1>2, <1>3, FollowsTwice DEF Follows
<1>5. x \in Int
  BY <1>3, ValueType
<1> HIDE DEF x
<1>6. l \in BigInts /\ r \in BigInts
  BY <1>2, <1>5, ShiftType, OfValueType
<1> HIDE DEF l, r
<1>7. Follows(m, tos.m) /\ tos.v \in BigInts /\ tos.m \in Machines
  BY PopSignedFollows DEF Follows
<1> HIDE DEF tos
<1>8. neg \in BigInts
  BY <1>7, BigIntType DEF BigInts
<1> HIDE DEF neg, q
<1>9. CASE op = "NOP"
  BY <1>1, <1>2, <1>9 DEF q
<1>10. CASE op \in {"SHIFTL", "SHIFTR"}
  <2>1. Follows(shifted.m, q)
    BY <1>1, <1>4, <1>6, <1>10, PushNumberFollows
  <2> QED
    BY <1>4, <2>1, FollowsTwice DEF q
<1>11. CASE op = "NEG"
  <2>1. Follows(tos.m, q)
    BY <1>1, <1>7, <1>8, <1>11, PushNumberFollows
  <2> QED
    BY <1>7, <2>1, FollowsTwice DEF q
<1> QED
  BY <1>9, <1>10, <1>11 DEF UnaryCodes

(* Frames of local variables.                                               *)
LEMMA WithType ==
    ASSUME NEW variables \in Assignments, NEW address \in Nat, NEW z \in BigInts
    PROVE  With(variables, address, z) \in Assignments
<1>1. PICK D \in SUBSET Nat : variables \in [D -> BigInts]
  BY DEF Assignments
<1>2. With(variables, address, z) \in [D \cup {address} -> BigInts]
  BY <1>1 DEF With
<1> QED
  BY <1>2 DEF Assignments

LEMMA NoVariables == <<>> \in Assignments
<1>1. <<>> \in [{} -> BigInts]
  OBVIOUS
<1> QED
  BY <1>1 DEF Assignments

LEMMA SetFrames ==
    ASSUME NEW m \in Machines, NEW n \in Nat, NEW cs \in Seq(Frames)
    PROVE  Follows(m, [m EXCEPT !.pc = n, !.callStack = cs])
<1> DEFINE q == [m EXCEPT !.pc = n, !.callStack = cs]
<1>1. m \in MachineTypes /\ m.heap \in Heaps /\ m.fee \in Nat
  BY MachineIs
<1>2. /\ q \in MachineTypes /\ q.heap = m.heap /\ q.fee = m.fee /\ q.stack = m.stack
      /\ q.memoryUsage = m.memoryUsage
  BY <1>1 DEF MachineTypes
<1> HIDE DEF q
<1>3. q \in Machines
  BY <1>2, MachineIs DEF Machines
<1> QED
  BY <1>1, <1>2, <1>3, KeptSelf DEF Follows, q

LEMMA SetCallStack ==
    ASSUME NEW m \in Machines, NEW cs \in Seq(Frames)
    PROVE  Follows(m, [m EXCEPT !.callStack = cs])
<1> DEFINE q == [m EXCEPT !.callStack = cs]
<1>1. m \in MachineTypes /\ m.heap \in Heaps /\ m.fee \in Nat
  BY MachineIs
<1>2. /\ q \in MachineTypes /\ q.heap = m.heap /\ q.fee = m.fee /\ q.stack = m.stack
      /\ q.memoryUsage = m.memoryUsage
  BY <1>1 DEF MachineTypes
<1> HIDE DEF q
<1>3. q \in Machines
  BY <1>2, MachineIs DEF Machines
<1> QED
  BY <1>1, <1>2, <1>3, KeptSelf DEF Follows, q

LEMMA SetChanges ==
    ASSUME NEW m \in Machines, NEW ch \in Seq(Changes)
    PROVE  Follows(m, [m EXCEPT !.changes = ch])
<1> DEFINE q == [m EXCEPT !.changes = ch]
<1>1. m \in MachineTypes /\ m.heap \in Heaps /\ m.fee \in Nat
  BY MachineIs
<1>2. /\ q \in MachineTypes /\ q.heap = m.heap /\ q.fee = m.fee /\ q.stack = m.stack
      /\ q.memoryUsage = m.memoryUsage
  BY <1>1 DEF MachineTypes
<1> HIDE DEF q
<1>3. q \in Machines
  BY <1>2, MachineIs DEF Machines
<1> QED
  BY <1>1, <1>2, <1>3, KeptSelf DEF Follows, q

(* The arguments of a call are popped one after the other.                  *)
Arguments == [m : Machines, variables : Assignments]
enterStep(gas, acc, address) ==
    LET p == PopUnsignedBigInt(acc.m, gas)
    IN  IF Running(acc.m)
        THEN [m |-> p.m, variables |-> With(acc.variables, address, p.v)] ELSE acc
Entering == INSTANCE FoldFacts WITH step <- enterStep, X <- Arguments, Y <- Nat

LEMMA EnterStep ==
    ASSUME NEW gas \in Nat, NEW acc \in Arguments, NEW address \in Nat
    PROVE  enterStep(gas, acc, address) \in Arguments /\ Follows(acc.m, enterStep(gas, acc, address).m)
<1> DEFINE p == PopUnsignedBigInt(acc.m, gas)
           r == enterStep(gas, acc, address)
<1>1. acc.m \in Machines /\ acc.variables \in Assignments
  BY DEF Arguments
<1>2. r = IF Running(acc.m)
          THEN [m |-> p.m, variables |-> With(acc.variables, address, p.v)] ELSE acc
  BY DEF enterStep
<1>3. Follows(acc.m, p.m) /\ p.v \in BigInts /\ p.m \in Machines
  BY <1>1, PopUnsignedFollows DEF Follows
<1> HIDE DEF p, r
<1>4. With(acc.variables, address, p.v) \in Assignments
  BY <1>1, <1>3, WithType
<1>5. r \in Arguments
  BY <1>2, <1>3, <1>4 DEF Arguments
<1>6. Follows(acc.m, r.m)
  BY <1>1, <1>2, <1>3, FollowsSelf
<1> QED
  BY <1>5, <1>6 DEF r

LEMMA Countdown ==
    ASSUME NEW n \in Nat
    PROVE  [i \in 1 .. n |-> n - i] \in Seq(Nat) /\ Len([i \in 1 .. n |-> n - i]) = n
<1> DEFINE f == [i \in 1 .. n |-> n - i]
<1>1. f = [i \in 1 .. n |-> f[i]] /\ \A i \in 1 .. n : f[i] \in Nat
  OBVIOUS
<1> HIDE DEF f
<1> QED
  BY <1>1, FunctionIsSeq DEF f

LEMMA ArgumentsFollow ==
    ASSUME NEW m \in Machines, NEW nargs \in Nat, NEW gas \in Nat
    PROVE  LET args == Entering!Folded(gas, [m |-> m, variables |-> <<>>], [i \in 1 .. nargs |-> nargs - i])
           IN  args \in Arguments /\ Follows(m, args.m)
<1> DEFINE f == [i \in 1 .. nargs |-> nargs - i]
           start == [m |-> m, variables |-> <<>>]
           J == {acc \in Arguments : Follows(m, acc.m)}
           I == [k \in 0 .. nargs |-> J]
<1>1. f \in Seq(Nat) /\ Len(f) = nargs
  BY Countdown
<1>2. start \in Arguments /\ start.m = m
  BY NoVariables DEF Arguments
<1>3. start \in J
  BY <1>2, FollowsSelf
<1> HIDE DEF f, start
<1>4. \A acc \in Arguments, address \in Nat : enterStep(gas, acc, address) \in Arguments
  BY EnterStep
<1>5. ASSUME NEW acc \in J, NEW address \in Nat PROVE enterStep(gas, acc, address) \in J
  <2>1. acc \in Arguments /\ Follows(m, acc.m)
    OBVIOUS
  <2> DEFINE r == enterStep(gas, acc, address)
  <2>2. r \in Arguments /\ Follows(acc.m, r.m)
    BY <2>1, EnterStep
  <2> HIDE DEF r
  <2>3. Follows(m, r.m)
    BY <2>1, <2>2, FollowsTwice
  <2> QED
    BY <2>2, <2>3 DEF r
<1> HIDE DEF J
<1>6. \A k \in 0 .. nargs : I[k] = J
  OBVIOUS
<1> HIDE DEF I
<1>7. \A k \in 1 .. nargs : f[k] \in Nat
  BY <1>1
<1>8. Entering!Keeps(gas, start, f, I)
  BY <1>1, <1>3, <1>5, <1>6, <1>7 DEF Entering!Keeps
<1>9. Entering!Folded(gas, start, f) \in I[Len(f)]
  BY <1>1, <1>2, <1>4, <1>8, Entering!FoldInvariant
<1>10. Entering!Folded(gas, start, f) \in J
  BY <1>1, <1>6, <1>9
<1> QED
  BY <1>10 DEF J, start, f

LEMMA EnterFollows ==
    ASSUME NEW m \in Machines, NEW target \in Nat, NEW nargs \in Nat, NEW gas \in Nat
    PROVE  Follows(m, Enter(m, target, nargs, gas))
<1> DEFINE start == [m |-> m, variables |-> <<>>]
           f == [i \in 1 .. nargs |-> nargs - i]
           args == Entering!Folded(gas, start, f)
           frame == [returnAddress |-> m.pc, variables |-> args.variables]
           q == Enter(m, target, nargs, gas)
<1>1. q = IF target = 0 \/ target > Len(Code(m)) \/ ~Running(args.m) THEN Fail(args.m)
          ELSE [args.m EXCEPT !.pc = target, !.callStack = Append(@, frame)]
  BY Zenon DEF Enter, enterStep, FoldLeft, MapThenFoldSet, Max,
               Entering!Folded, Entering!MapThenFoldSet, Entering!Largest
<1>2. args \in Arguments /\ Follows(m, args.m)
  BY ArgumentsFollow
<1> HIDE DEF args, q
<1>3. args.m \in Machines /\ args.variables \in Assignments
  BY <1>2 DEF Arguments
<1>4. frame \in Frames
  BY <1>3, MachineIs DEF Frames
<1> HIDE DEF frame
<1>5. Append(args.m.callStack, frame) \in Seq(Frames)
  BY <1>3, <1>4, MachineIs
<1>6. Follows(args.m, q)
  <2>1. CASE target = 0 \/ target > Len(Code(m)) \/ ~Running(args.m)
    BY <1>1, <1>3, <2>1, FailFollows
  <2>2. CASE ~(target = 0 \/ target > Len(Code(m)) \/ ~Running(args.m))
    <3>1. q = [args.m EXCEPT !.pc = target, !.callStack = Append(args.m.callStack, frame)]
      BY <1>1, <2>2
    <3> QED
      BY <1>3, <1>5, <3>1, SetFrames
  <2> QED
    BY <2>1, <2>2
<1> QED
  BY <1>2, <1>6, FollowsTwice DEF q

LEMMA FetchManyHeap ==
    ASSUME NEW m \in Machines, NEW n \in Nat
    PROVE  fetchMany(m, n).m.heap = m.heap
<1>1. m \in MachineTypes
  BY MachineIs
<1> QED
  BY <1>1 DEF fetchMany, Fail, MachineTypes

LEMMA LastFrame ==
    ASSUME NEW cs \in Seq(Frames), cs # <<>>
    PROVE  Last(cs).returnAddress \in Nat /\ Front(cs) \in Seq(Frames)
<1>1. Len(cs) \in Nat /\ Len(cs) >= 1 /\ Len(cs) \in 1 .. Len(cs)
  BY EmptySeq, LenProperties
<1>2. cs[Len(cs)] \in Frames
  BY <1>1
<1>3. SubSeq(cs, 1, Len(cs) - 1) \in Seq(Frames)
  BY <1>1, SubSeqType
<1> QED
  BY <1>2, <1>3 DEF Last, Front, Frames

LEMMA JumpFollows ==
    ASSUME NEW m \in Machines, NEW op \in JumpCodes, NEW gas \in Nat
    PROVE  Follows(m, JumpOp(m, op, gas))
<1> DEFINE label == fetchMany(m, 2)
           target == ByteArrayToInt(Bytes(m, label.v))
           nargs == fetch(label.m)
           p == PopBytes(IF op = "JMPIF" THEN label.m ELSE nargs.m, gas)
           taken == Running(p.m) /\ p.v.len > 0 /\ Bytes(p.m, p.v)[1] = 1
           functionHash == fetchMany(fetchMany(m, HashLen).m, 4)
           q == JumpOp(m, op, gas)
<1>1. /\ op = "JMP" => q = IF Running(label.m) THEN [label.m EXCEPT !.pc = target] ELSE label.m
      /\ op = "CALL" => q = IF Running(nargs.m) THEN Enter(nargs.m, target, nargs.v, gas) ELSE nargs.m
      /\ op = "CALLEXT" => q = fetch(functionHash.m).m
      /\ op = "RET" => q = IF m.callStack = <<>> THEN Fail(m)
                           ELSE [m EXCEPT !.pc = Last(m.callStack).returnAddress,
                                          !.callStack = Front(@)]
      /\ op \in {"JMPIF", "CALLIF"} =>
            \/ q = Stop(p.m, "panic")
            \/ op = "JMPIF" /\ q = [p.m EXCEPT !.pc = target]
            \/ q = Enter(p.m, target, nargs.v, gas)
            \/ q = p.m
  <2> HIDE DEF label, target, nargs, functionHash, p
  <2>1. op = "JMP" => q = IF Running(label.m) THEN [label.m EXCEPT !.pc = target] ELSE label.m
    BY DEF JumpOp, label, target
  <2>2. op = "CALL" => q = IF Running(nargs.m) THEN Enter(nargs.m, target, nargs.v, gas) ELSE nargs.m
    BY DEF JumpOp, label, target, nargs
  <2>3. op = "CALLEXT" => q = fetch(functionHash.m).m
    BY DEF JumpOp, functionHash
  <2>4. op = "RET" => q = IF m.callStack = <<>> THEN Fail(m)
                          ELSE [m EXCEPT !.pc = Last(m.callStack).returnAddress,
                                         !.callStack = Front(@)]
    BY DEF JumpOp
  <2>5. op \in {"JMPIF", "CALLIF"} =>
           q = CASE Running(p.m) /\ p.v.len = 0 -> Stop(p.m, "panic")
                 [] taken /\ op = "JMPIF" -> [p.m EXCEPT !.pc = target]
                 [] taken /\ op = "CALLIF" -> Enter(p.m, target, nargs.v, gas)
                 [] OTHER -> p.m
    BY DEF JumpOp, label, target, nargs, p
  <2> HIDE DEF q, taken
  <2> QED
    BY Zenon, <2>1, <2>2, <2>3, <2>4, <2>5
<1>2. Follows(m, label.m) /\ label.m \in Machines /\ label.v \in Windows(label.m.heap)
  BY FetchManyYields DEF Yields, Follows
<1>3. label.v \in Windows(m.heap)
  BY <1>2, FetchManyHeap
<1> HIDE DEF label
<1>4. target \in Nat
  BY <1>3, BytesOf, NumberType
<1> HIDE DEF target
<1>5. Follows(m, nargs.m) /\ nargs.m \in Machines /\ nargs.v \in Nat
  <2>1. Follows(label.m, nargs.m) /\ nargs.v \in 0 .. 255
    BY <1>2, FetchFollows
  <2> HIDE DEF nargs
  <2> QED
    BY <1>2, <2>1, FollowsTwice DEF Follows
<1> HIDE DEF nargs
<1>6. Follows(m, p.m) /\ p.m \in Machines
  <2> DEFINE from == IF op = "JMPIF" THEN label.m ELSE nargs.m
  <2>1. Follows(m, from) /\ from \in Machines
    BY <1>2, <1>5
  <2> HIDE DEF from
  <2>2. Yields(from, PopBytes(from, gas))
    BY <2>1, PopBytesYields
  <2>3. Follows(from, p.m)
    BY <2>2 DEF Yields, from
  <2> HIDE DEF p
  <2> QED
    BY <2>1, <2>3, FollowsTwice DEF Follows
<1> HIDE DEF p
<1>7. Follows(m, functionHash.m) /\ functionHash.m \in Machines
  <2> DEFINE first == fetchMany(m, HashLen)
  <2>1. Follows(m, first.m) /\ first.m \in Machines
    BY VMAssumption, FetchManyYields DEF Yields, Follows
  <2> HIDE DEF first
  <2>2. Follows(first.m, fetchMany(first.m, 4).m)
    BY <2>1, FetchManyYields DEF Yields
  <2>3. Follows(first.m, functionHash.m)
    BY <2>2 DEF first
  <2> HIDE DEF functionHash
  <2> QED
    BY <2>1, <2>3, FollowsTwice DEF Follows
<1> HIDE DEF functionHash, q
<1>8. CASE op = "JMP"
  <2>1. CASE Running(label.m)
    <3>1. Follows(label.m, q)
      BY <1>1, <1>2, <1>4, <1>8, <2>1, SetPc
    <3> QED
      BY <1>2, <3>1, FollowsTwice DEF q
  <2>2. CASE ~Running(label.m)
    BY <1>1, <1>2, <1>8, <2>2 DEF q
  <2> QED
    BY <2>1, <2>2
<1>9. CASE op = "CALL"
  <2>1. CASE Running(nargs.m)
    <3>1. Follows(nargs.m, q)
      BY <1>1, <1>4, <1>5, <1>9, <2>1, EnterFollows
    <3> QED
      BY <1>5, <3>1, FollowsTwice DEF q
  <2>2. CASE ~Running(nargs.m)
    BY <1>1, <1>5, <1>9, <2>2 DEF q
  <2> QED
    BY <2>1, <2>2
<1>10. CASE op = "CALLEXT"
  <2>1. Follows(functionHash.m, q)
    BY <1>1, <1>7, <1>10, FetchFollows
  <2> QED
    BY <1>7, <2>1, FollowsTwice DEF q
<1>11. CASE op = "RET"
  <2>1. CASE m.callStack = <<>>
    BY <1>1, <1>11, <2>1, FailFollows DEF q
  <2>2. CASE m.callStack # <<>>
    <3>1. q = [m EXCEPT !.pc = Last(m.callStack).returnAddress, !.callStack = Front(m.callStack)]
      BY <1>1, <1>11, <2>2
    <3>2. Last(m.callStack).returnAddress \in Nat /\ Front(m.callStack) \in Seq(Frames)
      BY <2>2, MachineIs, LastFrame
    <3> QED
      BY <3>1, <3>2, SetFrames DEF q
  <2> QED
    BY <2>1, <2>2
<1>12. CASE op \in {"JMPIF", "CALLIF"}
  <2>1. CASE q = Stop(p.m, "panic")
    <3>1. "panic" \in Statuses
      BY DEF Statuses
    <3>2. Follows(p.m, q)
      BY <1>6, <2>1, <3>1, StopFollows
    <3> QED
      BY <1>6, <3>2, FollowsTwice DEF q
  <2>2. CASE q = [p.m EXCEPT !.pc = target]
    <3>1. Follows(p.m, q)
      BY <1>4, <1>6, <2>2, SetPc
    <3> QED
      BY <1>6, <3>1, FollowsTwice DEF q
  <2>3. CASE q = Enter(p.m, target, nargs.v, gas)
    <3>1. Follows(p.m, q)
      BY <1>4, <1>5, <1>6, <2>3, EnterFollows
    <3> QED
      BY <1>6, <3>1, FollowsTwice DEF q
  <2>4. CASE q = p.m
    BY <1>6, <2>4 DEF q
  <2> QED
    BY <1>1, <1>12, <2>1, <2>2, <2>3, <2>4
<1> QED
  BY <1>8, <1>9, <1>10, <1>11, <1>12 DEF JumpCodes

LEMMA FrameSet ==
    ASSUME NEW cs \in Seq(Frames), NEW i \in Nat, NEW address \in Nat, NEW z \in BigInts
    PROVE  [cs EXCEPT ![i].variables = With(@, address, z)] \in Seq(Frames)
<1> DEFINE n == Len(cs)
           r == [cs EXCEPT ![i].variables = With(@, address, z)]
<1>1. n \in Nat /\ cs = [k \in 1 .. n |-> cs[k]] /\ \A k \in 1 .. n : cs[k] \in Frames
  OBVIOUS
<1>2. \A k \in 1 .. n : r[k] = IF k = i THEN [cs[k] EXCEPT !.variables = With(@, address, z)] ELSE cs[k]
  BY <1>1
<1>3. ASSUME NEW k \in 1 .. n PROVE [cs[k] EXCEPT !.variables = With(@, address, z)] \in Frames
  <2>1. cs[k] \in Frames
    BY <1>1
  <2>2. cs[k].variables \in Assignments
    BY <2>1 DEF Frames
  <2>3. With(cs[k].variables, address, z) \in Assignments
    BY <2>2, WithType
  <2> QED
    BY <2>1, <2>3 DEF Frames
<1>4. r = [k \in 1 .. n |-> r[k]]
  BY <1>1
<1> HIDE DEF r, n
<1>5. \A k \in 1 .. n : r[k] \in Frames
  BY <1>1, <1>2, <1>3
<1>6. r \in Seq(Frames)
  BY <1>1, <1>4, <1>5, FunctionIsSeq
<1> QED
  BY <1>6 DEF r

LEMMA VariableFollows ==
    ASSUME NEW m \in Machines, NEW op \in VariableCodes, NEW gas \in Nat,
           contractVariables \in Seq(ByteSeq)
    PROVE  Follows(m, VariableOp(m, op, gas))
<1> DEFINE arg == fetch(m)
           p == PopBytes(IF op = "SIZE" THEN m ELSE arg.m, gas)
           right == PopSignedBigInt(arg.m, gas)
           frame == Len(m.callStack)
           known == IsVariable(arg.v)
           v == contractVariables[arg.v + 1]
           local == m.callStack[frame].variables
           z == IF arg.v \in DOMAIN local THEN local[arg.v] ELSE OfValue(0)
           q == VariableOp(m, op, gas)
<1>1. /\ op = "SIZE" => q = PushNew(p.m, UInt64ToByteArray(p.v.len), 8)
      /\ op = "SSTORE" => q = IF ~Running(p.m) \/ ~known THEN Fail(p.m)
                              ELSE SetContractVariable(p.m, arg.v, Bytes(p.m, p.v))
      /\ op = "STORE" => q = IF ~Running(right.m) \/ frame = 0 THEN Fail(right.m)
                             ELSE [right.m EXCEPT !.callStack[frame].variables =
                                        With(@, arg.v, right.v)]
      /\ op = "SLOAD" => q = IF ~Running(arg.m) \/ ~known THEN Fail(arg.m)
                             ELSE PushNew(arg.m, v, Len(v))
      /\ op = "LOAD" => q = IF ~Running(arg.m) \/ frame = 0 THEN Fail(arg.m)
                            ELSE PushNumber(arg.m, z)
  <2>1. op = "SIZE" => q = PushNew(p.m, UInt64ToByteArray(p.v.len), 8)
    BY DEF VariableOp
  <2>2. op = "SSTORE" => q = IF ~Running(p.m) \/ ~known THEN Fail(p.m)
                             ELSE SetContractVariable(p.m, arg.v, Bytes(p.m, p.v))
    BY DEF VariableOp
  <2>3. op = "STORE" => q = IF ~Running(right.m) \/ frame = 0 THEN Fail(right.m)
                            ELSE [right.m EXCEPT !.callStack[frame].variables =
                                        With(@, arg.v, right.v)]
    BY DEF VariableOp
  <2>4. op = "SLOAD" => q = IF ~Running(arg.m) \/ ~known THEN Fail(arg.m)
                            ELSE PushNew(arg.m, v, Len(v))
    BY DEF VariableOp
  <2>5. op = "LOAD" => q = IF ~Running(arg.m) \/ frame = 0 THEN Fail(arg.m)
                           ELSE PushNumber(arg.m, z)
    BY DEF VariableOp
  <2> QED
    BY <2>1, <2>2, <2>3, <2>4, <2>5
<1>2. Follows(m, arg.m) /\ arg.m \in Machines /\ arg.v \in Nat
  <2>1. Follows(m, arg.m) /\ arg.v \in 0 .. 255
    BY FetchFollows
  <2> HIDE DEF arg
  <2>2. \A x \in 0 .. 255 : x \in Nat
    OBVIOUS
  <2>3. arg.v \in Nat
    BY Zenon, <2>1, <2>2
  <2> QED
    BY Zenon, <2>1, <2>3 DEF Follows
<1> HIDE DEF arg
<1>3. Follows(m, p.m) /\ p.m \in Machines /\ p.v \in Windows(p.m.heap)
  <2> DEFINE from == IF op = "SIZE" THEN m ELSE arg.m
  <2>1. Follows(m, from) /\ from \in Machines
    BY <1>2, FollowsSelf
  <2> HIDE DEF from
  <2>2. Yields(from, PopBytes(from, gas))
    BY <2>1, PopBytesYields
  <2>3. Follows(from, p.m) /\ p.v \in Windows(p.m.heap)
    BY <2>2 DEF Yields, from
  <2> HIDE DEF p
  <2> QED
    BY <2>1, <2>3, FollowsTwice DEF Follows
<1> HIDE DEF p
<1>4. p.v.len \in Nat /\ Bytes(p.m, p.v) \in ByteSeq
  BY <1>3, WindowIs, BytesOf
<1>5. /\ Follows(m, right.m) /\ right.v \in BigInts /\ right.m \in Machines
      /\ right.m.callStack \in Seq(Frames)
  <2>1. Follows(arg.m, right.m) /\ right.v \in BigInts
    BY <1>2, PopSignedFollows
  <2> HIDE DEF right
  <2> QED
    BY <1>2, <2>1, FollowsTwice, MachineIs DEF Follows
<1> HIDE DEF right, q
<1>6. frame \in Nat /\ m.callStack \in Seq(Frames)
  BY MachineIs
<1>7. CASE op = "SIZE"
  <2>1. UInt64ToByteArray(p.v.len) \in ByteSeq
    BY <1>4, UInt64Type
  <2>2. Follows(p.m, q)
    BY <1>1, <1>3, <1>7, <2>1, PushNewFollows
  <2> QED
    BY <1>3, <2>2, FollowsTwice DEF q
<1>8. CASE op = "SSTORE"
  <2>1. CASE ~Running(p.m) \/ ~known
    <3>1. Follows(p.m, q)
      BY <1>1, <1>3, <1>8, <2>1, FailFollows
    <3> QED
      BY <1>3, <3>1, FollowsTwice DEF q
  <2>2. CASE ~(~Running(p.m) \/ ~known)
    <3> DEFINE c == [index |-> arg.v, value |-> Bytes(p.m, p.v)]
    <3>1. q = [p.m EXCEPT !.changes = Append(p.m.changes, c)]
      BY <1>1, <1>8, <2>2 DEF SetContractVariable
    <3>2. c \in Changes
      BY <1>2, <1>4 DEF Changes
    <3> HIDE DEF c
    <3>3. Append(p.m.changes, c) \in Seq(Changes)
      BY <1>3, <3>2, MachineIs
    <3>4. Follows(p.m, q)
      BY <1>3, <3>1, <3>3, SetChanges
    <3> QED
      BY <1>3, <3>4, FollowsTwice DEF q
  <2> QED
    BY <2>1, <2>2
<1>9. CASE op = "STORE"
  <2>1. CASE ~Running(right.m) \/ frame = 0
    <3>1. Follows(right.m, q)
      BY <1>1, <1>5, <1>9, <2>1, FailFollows
    <3> QED
      BY <1>5, <3>1, FollowsTwice DEF q
  <2>2. CASE ~(~Running(right.m) \/ frame = 0)
    <3> DEFINE cs == [right.m.callStack EXCEPT ![frame].variables = With(@, arg.v, right.v)]
    <3>1. q = [right.m EXCEPT !.callStack = cs]
      BY <1>1, <1>9, <2>2
    <3>2. cs \in Seq(Frames)
      BY <1>2, <1>5, FrameSet
    <3> HIDE DEF cs
    <3>3. Follows(right.m, q)
      BY <1>5, <3>1, <3>2, SetCallStack
    <3> QED
      BY <1>5, <3>3, FollowsTwice DEF q
  <2> QED
    BY <2>1, <2>2
<1>10. CASE op = "SLOAD"
  <2>1. CASE ~Running(arg.m) \/ ~known
    <3>1. Follows(arg.m, q)
      BY <1>1, <1>2, <1>10, <2>1, FailFollows
    <3> QED
      BY <1>2, <3>1, FollowsTwice DEF q
  <2>2. CASE ~(~Running(arg.m) \/ ~known)
    <3>1. v \in ByteSeq
      BY <1>2, <2>2 DEF IsVariable
    <3> HIDE DEF v
    <3>2. Len(v) \in Nat
      BY <3>1, BytesAre
    <3>3. Follows(arg.m, q)
      BY <1>1, <1>2, <1>10, <2>2, <3>1, <3>2, PushNewFollows
    <3> QED
      BY <1>2, <3>3, FollowsTwice DEF q
  <2> QED
    BY <2>1, <2>2
<1>11. CASE op = "LOAD"
  <2>1. CASE ~Running(arg.m) \/ frame = 0
    <3>1. Follows(arg.m, q)
      BY <1>1, <1>2, <1>11, <2>1, FailFollows
    <3> QED
      BY <1>2, <3>1, FollowsTwice DEF q
  <2>2. CASE ~(~Running(arg.m) \/ frame = 0)
    <3>1. frame \in 1 .. Len(m.callStack)
      BY <1>6, <2>2
    <3>2. local \in Assignments
      <4>1. m.callStack[frame] \in Frames
        BY <1>6, <3>1
      <4> QED
        BY <4>1 DEF Frames
    <3> HIDE DEF local
    <3>3. arg.v \in DOMAIN local => local[arg.v] \in BigInts
      BY <3>2 DEF Assignments
    <3>4. z \in BigInts
      BY <3>3, OfValueType
    <3> HIDE DEF z
    <3>5. Follows(arg.m, q)
      BY <1>1, <1>2, <1>11, <2>2, <3>4, PushNumberFollows
    <3> QED
      BY <1>2, <3>5, FollowsTwice DEF q
  <2> QED
    BY <2>1, <2>2
<1> QED
  BY <1>7, <1>8, <1>9, <1>10, <1>11 DEF VariableCodes

(* The balance of the account is paid amounts on top of it.                 *)
balanceStep(p, n, t) == n + t.Amount
Balance == INSTANCE FoldFacts WITH step <- balanceStep, X <- Nat, Y <- Calls

LEMMA BalanceType ==
    ASSUME balance \in Nat, prepared \in Seq(Calls)
    PROVE  GetBalance \in Nat
<1>1. GetBalance = balance + Balance!Folded(0, 0, prepared)
  BY Zenon DEF GetBalance, balanceStep, FoldLeft, MapThenFoldSet, Max,
               Balance!Folded, Balance!MapThenFoldSet, Balance!Largest
<1>2. \A n \in Nat, t \in Calls : balanceStep(0, n, t) \in Nat
  BY VMAssumption DEF balanceStep
<1>3. Balance!Runs(0, 0, prepared)
  BY <1>2, Balance!FoldRuns
<1>4. Balance!Folded(0, 0, prepared) \in Nat
  BY <1>3 DEF Balance!Runs
<1> QED
  BY <1>1, <1>4

(* PushData walks over the data of the call.                                *)
Walks == [m : MachineTypes, i : Nat]
paramStep(td, w, k) ==
    CASE ~Running(w.m) \/ w.i >= Len(td) -> w
      [] Running(w.m) /\ w.i < Len(td) /\ Len(td) - w.i - 1 <= td[w.i + 1] ->
            [w EXCEPT !.m = Fail(w.m)]
      [] OTHER -> [m |-> Push(w.m, Slice(2, w.i + 1, td[w.i + 1] + 1)),
                   i |-> w.i + td[w.i + 1] + 2]
Params == INSTANCE FoldFacts WITH step <- paramStep, X <- Walks, Y <- Nat

LEMMA ByteAt ==
    ASSUME NEW b \in ByteSeq, NEW i \in Nat, i < Len(b)
    PROVE  b[i + 1] \in Nat
<1>1. i + 1 \in 1 .. Len(b) /\ \A k \in 1 .. Len(b) : b[k] \in 0 .. 255
  BY BytesAre
<1>2. b[i + 1] \in 0 .. 255
  BY Zenon, <1>1
<1>3. \A x \in 0 .. 255 : x \in Nat
  OBVIOUS
<1> QED
  BY Zenon, <1>2, <1>3

LEMMA ParamTypes ==
    ASSUME NEW td \in ByteSeq, NEW w \in Walks, NEW k \in Nat
    PROVE  paramStep(td, w, k) \in Walks
<1> DEFINE s == Slice(2, w.i + 1, td[w.i + 1] + 1)
           r == paramStep(td, w, k)
<1>1. w.m \in MachineTypes /\ w.i \in Nat /\ Len(td) \in Nat
  BY BytesAre DEF Walks
<1>2. Fail(w.m) \in MachineTypes
  BY <1>1 DEF Fail, MachineTypes, Statuses
<1>3. w.i < Len(td) => td[w.i + 1] \in Nat
  BY <1>1, ByteAt
<1>4. CASE ~Running(w.m) \/ w.i >= Len(td)
  <2>1. r = w
    BY <1>1, <1>4 DEF paramStep
  <2> QED
    BY <2>1
<1>5. CASE Running(w.m) /\ w.i < Len(td) /\ Len(td) - w.i - 1 <= td[w.i + 1]
  <2>1. r = [w EXCEPT !.m = Fail(w.m)]
    BY <1>1, <1>5 DEF paramStep
  <2> HIDE DEF r
  <2>2. r \in Walks
    BY <1>1, <1>2, <2>1 DEF Walks
  <2> QED
    BY <2>2 DEF r
<1>6. CASE Running(w.m) /\ w.i < Len(td) /\ ~(Len(td) - w.i - 1 <= td[w.i + 1])
  <2>1. r = [m |-> Push(w.m, s), i |-> w.i + td[w.i + 1] + 2]
    BY <1>1, <1>6 DEF paramStep
  <2>2. s \in Slices /\ w.i + td[w.i + 1] + 2 \in Nat
    <3>1. td[w.i + 1] \in Nat /\ w.i \in Nat
      BY <1>1, <1>3, <1>6, Zenon
    <3>2. w.i + 1 \in Nat /\ td[w.i + 1] + 1 \in Nat /\ w.i + td[w.i + 1] + 2 \in Nat
      BY ONLY <3>1
    <3> QED
      BY <3>2 DEF Slice, Slices
  <2> HIDE DEF s, r
  <2>3. Push(w.m, s) \in MachineTypes
    <3>0. w.m.stack \in Seq(Slices) /\ w.m.memoryUsage \in Nat
      BY <1>1 DEF MachineTypes
    <3>n. s.len \in Nat
      BY <2>2 DEF Slices
    <3>1. Append(w.m.stack, s) \in Seq(Slices) /\ w.m.memoryUsage + s.len \in Nat
      BY <2>2, <3>0, <3>n
    <3>2. Pushed(w.m, s) \in MachineTypes
      BY <1>1, <3>1 DEF Pushed, MachineTypes
    <3> QED
      BY <1>2, <3>2 DEF Push
  <2>4. r \in Walks
    BY <2>1, <2>2, <2>3 DEF Walks
  <2> QED
    BY <2>4 DEF r
<1> QED
  BY <1>1, <1>4, <1>5, <1>6

LEMMA ParamFollows ==
    ASSUME NEW m \in Machines, NEW w \in Walks, Follows(m, w.m), NEW k \in Nat
    PROVE  Follows(m, paramStep(m.heap[2], w, k).m)
<1> DEFINE td == m.heap[2]
           s == Slice(2, w.i + 1, td[w.i + 1] + 1)
           r == paramStep(td, w, k)
<1>1. td \in ByteSeq /\ Len(td) \in Nat /\ m.heap \in Heaps /\ Len(m.heap) >= 2
  BY MachineIs, HeapIs
<1>2. w.m \in Machines /\ w.i \in Nat
  BY DEF Walks, Follows
<1>3. Len(w.m.heap) >= 2 /\ Len(w.m.heap) \in Nat /\ Len(w.m.heap[2]) = Len(td)
  <2>1. w.m.heap \in Heaps /\ Kept(m.heap, w.m.heap)
    BY <1>2, MachineIs DEF Follows
  <2> QED
    BY <1>1, <2>1, HeapIs DEF Kept
<1>4. w.i < Len(td) => td[w.i + 1] \in Nat
  BY <1>1, <1>2, ByteAt
<1>5. CASE ~Running(w.m) \/ w.i >= Len(td)
  <2>1. r = w
    BY <1>1, <1>2, <1>5 DEF paramStep
  <2> QED
    BY <2>1
<1>6. CASE Running(w.m) /\ w.i < Len(td) /\ Len(td) - w.i - 1 <= td[w.i + 1]
  <2>1. r = [w EXCEPT !.m = Fail(w.m)]
    BY <1>1, <1>2, <1>6 DEF paramStep
  <2>2. r.m = Fail(w.m)
    BY <2>1 DEF Walks
  <2> HIDE DEF r
  <2>3. Follows(w.m, r.m)
    BY <1>2, <2>2, FailFollows
  <2> QED
    BY <2>3, FollowsTwice DEF r
<1>7. CASE Running(w.m) /\ w.i < Len(td) /\ ~(Len(td) - w.i - 1 <= td[w.i + 1])
  <2>1. r = [m |-> Push(w.m, s), i |-> w.i + td[w.i + 1] + 2]
    BY <1>1, <1>2, <1>7 DEF paramStep
  <2>2. s \in Windows(w.m.heap)
    <3> DEFINE n == Len(td)
               b == td[w.i + 1]
               i == w.i
               h == w.m.heap
    <3>1. b \in Nat /\ i \in Nat /\ n \in Nat /\ ~(n - i - 1 <= b) /\ Len(h[2]) = n
      BY <1>1, <1>2, <1>3, <1>4, <1>7
    <3>2. 2 \in 1 .. Len(h)
      BY <1>3
    <3>3. s = [arr |-> 2, off |-> i + 1, len |-> b + 1]
      BY DEF Slice
    <3> HIDE DEF n, b, i, s, h
    <3>4. s \in Slices /\ s.arr = 2 /\ s.off + s.len <= n
      BY <3>1, <3>3 DEF Slices
    <3> SUFFICES s \in Windows(h)
      BY DEF h, s
    <3> QED
      BY <3>1, <3>2, <3>4 DEF Windows
  <2>3. r.m = Push(w.m, s)
    BY <2>1
  <2> HIDE DEF s, r
  <2>4. Follows(w.m, r.m)
    BY <1>2, <2>2, <2>3, PushFollows
  <2> QED
    BY <2>4, FollowsTwice DEF r
<1> QED
  BY <1>1, <1>2, <1>5, <1>6, <1>7

LEMMA PushDataFollows ==
    ASSUME NEW m \in Machines
    PROVE  Follows(m, PushData(m))
<1> DEFINE td == m.heap[2]
           n == Len(td)
           f == [i \in 1 .. n |-> i]
           start == [m |-> m, i |-> 0]
           end == Params!Folded(td, start, f)
           J == {w \in Walks : Follows(m, w.m)}
           I == [k \in 0 .. n |-> J]
<1>1. PushData(m) = end.m
  BY Zenon DEF PushData, Turns, paramStep, FoldLeft, MapThenFoldSet, Max,
               Params!Folded, Params!MapThenFoldSet, Params!Largest
<1>2. td \in ByteSeq /\ n \in Nat
  BY MachineIs, HeapIs
<1>3. f \in Seq(Nat) /\ Len(f) = n
  BY <1>2, UpTo
<1>4. start \in Walks /\ start.m = m
  BY MachineIs DEF Walks
<1>5. start \in J
  BY <1>4, FollowsSelf
<1>6. \A w \in Walks, k \in Nat : paramStep(td, w, k) \in Walks
  BY <1>2, ParamTypes
<1>7. ASSUME NEW w \in J, NEW k \in Nat PROVE paramStep(td, w, k) \in J
  <2>1. w \in Walks /\ Follows(m, w.m)
    OBVIOUS
  <2>2. Follows(m, paramStep(td, w, k).m)
    BY <2>1, ParamFollows
  <2> QED
    BY <1>6, <2>1, <2>2
<1> HIDE DEF f, start, J
<1>8. \A k \in 0 .. n : I[k] = J
  OBVIOUS
<1> HIDE DEF I
<1>9. \A k \in 1 .. n : f[k] \in Nat
  BY <1>3
<1> HIDE DEF td, n
<1>10. Params!Keeps(td, start, f, I)
  BY <1>2, <1>3, <1>5, <1>7, <1>8, <1>9 DEF Params!Keeps
<1>11. Params!Folded(td, start, f) \in I[Len(f)]
  BY <1>3, <1>4, <1>6, <1>10, Params!FoldInvariant
<1>12. end \in J
  BY <1>2, <1>3, <1>8, <1>11
<1> HIDE DEF end
<1> QED
  BY <1>1, <1>12 DEF J

LEMMA ContextFollows ==
    ASSUME NEW m \in Machines, NEW op \in ContextCodes,
           balance \in Nat, prepared \in Seq(Calls), call \in Calls
    PROVE  Follows(m, ContextOp(m, op))
<1> DEFINE q == ContextOp(m, op)
           b == Reverse(UInt64ToByteArray(GetBalance))
           a == Reverse(UInt64ToByteArray(call.Amount))
<1>1. /\ op = "ADDRESS" => q = PushNew(m, Account.Address, KeyLen)
      /\ op = "ISSUER" => q = PushNew(m, Account.Issuer, HashLen)
      /\ op = "BALANCE" => q = PushNew(m, b, 8)
      /\ op = "CALLER" => q = PushNew(m, call.From, HashLen)
      /\ op = "CALLVAL" => q = PushNew(m, a, 8)
      /\ op = "CALLDATA" => q = PushData(m)
  BY DEF ContextOp
<1>2. /\ KeyLen \in Nat /\ HashLen \in Nat /\ 8 \in Nat
      /\ Account.Address \in ByteSeq /\ Account.Issuer \in ByteSeq /\ call.From \in ByteSeq
      /\ call.Amount \in Nat
  BY VMAssumption
<1>3. a \in ByteSeq
  <2>1. UInt64ToByteArray(call.Amount) \in ByteSeq
    BY <1>2, UInt64Type
  <2> QED
    BY <2>1, ReverseType DEF ByteSeq
<1>4. b \in ByteSeq
  <2>1. UInt64ToByteArray(GetBalance) \in ByteSeq
    BY BalanceType, UInt64Type
  <2> QED
    BY <2>1, ReverseType DEF ByteSeq
<1> HIDE DEF a, b, q
<1>5. Follows(m, q)
  BY <1>1, <1>2, <1>3, <1>4, PushNewFollows, PushDataFollows DEF ContextCodes
<1> QED
  BY <1>5 DEF q

LEMMA Residue == \A n \in Nat : n % 256 \in 0 .. 255
OBVIOUS

LEMMA Sha3Type ==
    ASSUME NEW b \in ByteSeq
    PROVE  Sha3(b) \in ByteSeq
<1> DEFINE f == Sha3(b)
<1>1. Len(b) \in Nat /\ HashLen \in Nat /\ DOMAIN b = 1 .. Len(b) /\ \A i \in 1 .. Len(b) : b[i] \in 0 .. 255
  BY BytesAre, VMAssumption
<1>2. f = [i \in 1 .. HashLen |-> IF i < HashLen /\ i <= Len(b) THEN b[i] ELSE Len(b) % 256]
  BY DEF Sha3
<1>3. Len(b) % 256 \in 0 .. 255
  BY Zenon, <1>1, Residue
<1> DEFINE n == Len(b)
           d == n % 256
<1> HIDE DEF d
<1>4. f = [i \in 1 .. HashLen |-> f[i]]
  BY <1>2
<1>5. \A i \in 1 .. HashLen : f[i] \in 0 .. 255
  BY <1>1, <1>2, <1>3
<1> HIDE DEF f
<1>6. f \in ByteSeq
  BY <1>1, <1>4, <1>5, BytesFrom
<1> QED
  BY <1>6 DEF f

LEMMA CryptoFollows ==
    ASSUME NEW m \in Machines, NEW op \in CryptoCodes, NEW gas \in Nat
    PROVE  Follows(m, CryptoOp(m, op, gas))
<1> DEFINE p1 == PopBytes(m, gas)
           p2 == PopBytes(p1.m, gas)
           sized == Check(p2.m, p1.v.len = KeyLen /\ p2.v.len = HashLen)
           h == Sha3(Bytes(p1.m, p1.v))
           b == BoolToByteArray(Verify(Bytes(sized, p1.v), Bytes(sized, p2.v), call.Sig1))
           q == CryptoOp(m, op, gas)
<1>1. /\ op = "SHA3" => q = PushNew(p1.m, h, HashLen)
      /\ op # "SHA3" => q = TryPushNew(sized, b, 1)
  BY DEF CryptoOp
<1>2. Follows(m, p1.m) /\ p1.m \in Machines /\ p1.v \in Windows(p1.m.heap)
  <2>1. Ready(p1) /\ Follows(m, p1.m)
    BY PopBytesYields, YieldsReady
  <2> HIDE DEF p1
  <2> QED
    BY <2>1 DEF Ready
<1>3. h \in ByteSeq
  <2> HIDE DEF p1
  <2> QED
    BY <1>2, BytesOf, Sha3Type
<1> HIDE DEF h, p1
<1>4. Follows(p1.m, sized) /\ sized \in Machines
  <2>1. Follows(p1.m, p2.m) /\ p2.m \in Machines
    BY <1>2, PopBytesYields DEF Yields, Follows
  <2> HIDE DEF p2
  <2>2. Follows(p2.m, sized)
    BY <2>1, CheckFollows
  <2> HIDE DEF sized
  <2> QED
    BY <1>2, <2>1, <2>2, FollowsTwice DEF Follows
<1>5. b \in ByteSeq
  BY BoolType
<1> HIDE DEF b, sized, q, p2
<1>6. HashLen \in Nat /\ 1 \in Nat
  BY VMAssumption
<1>7. CASE op = "SHA3"
  <2>1. Follows(p1.m, q)
    BY <1>1, <1>2, <1>3, <1>6, <1>7, PushNewFollows
  <2> QED
    BY <1>2, <2>1, FollowsTwice DEF q
<1>8. CASE op # "SHA3"
  <2>1. Follows(sized, q)
    BY <1>1, <1>4, <1>5, <1>6, <1>8, PushNewFollows
  <2>2. Follows(m, sized)
    BY <1>2, <1>4, FollowsTwice
  <2> QED
    BY <2>1, <2>2, FollowsTwice DEF q
<1> QED
  BY <1>7, <1>8

-----------------------------------------------------------------------------
(* Containers.                                                              *)
LEMMA Wrapped ==
    ASSUME NEW n \in Nat
    PROVE  UInt16(n) \in Nat /\ UInt16(n) <= n
BY DEF UInt16

LEMMA UI16Type ==
    ASSUME NEW m \in Machines, NEW s \in Windows(m.heap), NEW i \in Nat, InCap(m, s, i + 2)
    PROVE  UI16At(m, s, i) \in Nat
<1> DEFINE a == m.heap[s.arr]
           o == s.off
           n == Len(a)
<1>1. a \in ByteSeq /\ o \in Nat /\ n \in Nat
  BY WindowIs
<1>2. UI16At(m, s, i) = a[o + i + 1] + 256 * a[o + i + 2]
  BY DEF UI16At
<1>3. i + 2 <= n - o
  BY DEF InCap, Cap
<1> HIDE DEF a, o, n
<1>4. o + i \in Nat /\ o + i < n /\ o + i + 1 \in Nat /\ o + i + 1 < n
  BY <1>1, <1>3
<1>5. a[(o + i) + 1] \in Nat /\ a[(o + i + 1) + 1] \in Nat
  BY <1>1, <1>4, ByteAt DEF n
<1>6. (o + i + 1) + 1 = o + i + 2
  BY <1>1
<1> QED
  BY <1>2, <1>5, <1>6

LEMMA ByteSet ==
    ASSUME NEW b \in ByteSeq, NEW i \in 1 .. Len(b), NEW x \in 0 .. 255
    PROVE  [b EXCEPT ![i] = x] \in ByteSeq /\ Len([b EXCEPT ![i] = x]) = Len(b)
<1> DEFINE n == Len(b)
           f == [b EXCEPT ![i] = x]
<1>1. n \in Nat /\ b = [k \in 1 .. n |-> b[k]] /\ \A k \in 1 .. n : b[k] \in 0 .. 255
  BY BytesAre DEF ByteSeq
<1>2. f = [k \in 1 .. n |-> f[k]] /\ \A k \in 1 .. n : f[k] = IF k = i THEN x ELSE b[k]
  BY <1>1
<1> HIDE DEF f, n
<1>3. \A k \in 1 .. n : f[k] \in 0 .. 255
  BY <1>1, <1>2
<1>4. f \in ByteSeq /\ Len(f) = n
  BY <1>1, <1>2, <1>3, BytesFrom
<1> QED
  BY <1>4 DEF f, n

LEMMA SizeBytes ==
    ASSUME NEW n \in Nat, NEW o \in Nat, NEW l \in Nat, l >= 3, o + l <= n
    PROVE  o + 2 \in 1 .. n /\ o + 3 \in 1 .. n
OBVIOUS

LEMMA SetSizeFollows ==
    ASSUME NEW m \in Machines, NEW s \in Windows(m.heap), s.len >= 3, NEW n \in Nat
    PROVE  Follows(m, setSize(m, s, n))
<1> DEFINE u == UInt16ToByteArray(n)
           h == m.heap
           o == s.off
           b == [h[s.arr] EXCEPT ![o + 2] = u[1]]
           c == [b EXCEPT ![o + 3] = u[2]]
<1>0. u \in ByteSeq /\ Len(u) = 2
  BY UInt16Type
<1> HIDE DEF u
<1>1. u[1] \in 0 .. 255 /\ u[2] \in 0 .. 255
  <2>1. 1 \in 1 .. Len(u) /\ 2 \in 1 .. Len(u)
    BY <1>0
  <2>2. \A i \in 1 .. Len(u) : u[i] \in 0 .. 255
    BY <1>0, BytesAre
  <2> QED
    BY <2>1, <2>2, Zenon
<1>2. /\ h \in Heaps /\ s.arr \in 1 .. Len(h) /\ h[s.arr] \in ByteSeq /\ o \in Nat
      /\ s.len \in Nat /\ Len(h[s.arr]) \in Nat /\ o + s.len <= Len(h[s.arr])
  BY WindowIs
<1>3. o + 2 \in 1 .. Len(h[s.arr]) /\ o + 3 \in 1 .. Len(h[s.arr])
  BY Zenon, <1>2, SizeBytes
<1>4. b \in ByteSeq /\ Len(b) = Len(h[s.arr])
  <2>1. h[s.arr] \in ByteSeq /\ o + 2 \in 1 .. Len(h[s.arr]) /\ u[1] \in 0 .. 255
    BY <1>1, <1>2, <1>3, Zenon
  <2> QED
    BY <2>1, ByteSet, Zenon
<1>5. setSize(m, s, n) = [m EXCEPT !.heap = [h EXCEPT ![s.arr] = c]]
  <2>1. m \in MachineTypes /\ DOMAIN h = 1 .. Len(h)
    BY <1>2, MachineIs, HeapIs
  <2>2. setSize(m, s, n) = [m EXCEPT !.heap[s.arr][s.off + 2] = u[1],
                                     !.heap[s.arr][s.off + 3] = u[2]]
    BY Zenon DEF setSize, u
  <2> QED
    BY <1>2, <2>1, <2>2 DEF MachineTypes
<1> HIDE DEF b, o
<1>6. c \in ByteSeq /\ Len(c) = Len(h[s.arr])
  <2>1. b \in ByteSeq /\ o + 3 \in 1 .. Len(b) /\ u[2] \in 0 .. 255
    BY <1>1, <1>3, <1>4, Zenon
  <2>2. c \in ByteSeq /\ Len(c) = Len(b)
    BY <2>1, ByteSet, Zenon
  <2> QED
    BY <1>4, <2>2, Zenon
<1> HIDE DEF c
<1>7. [h EXCEPT ![s.arr] = c] \in Heaps /\ Kept(h, [h EXCEPT ![s.arr] = c])
  BY <1>2, <1>6, HeapSet
<1> QED
  BY <1>5, <1>7, SetHeap

LEMMA IncrementYields ==
    ASSUME NEW r, Ready(r)
    PROVE  Yields(r.m, IncrementSize(r))
<1> DEFINE k == UInt16(UI16At(r.m, r.v, 1) + 1)
           q == IncrementSize(r)
<1>1. q = IF r.v.len < 3 THEN r ELSE [m |-> setSize(r.m, r.v, k), v |-> r.v]
  BY DEF IncrementSize
<1>2. r.m \in Machines /\ r.v \in Windows(r.m.heap)
  BY DEF Ready
<1>3. r.v.len \in Nat
  BY <1>2, WindowIs
<1>4. CASE r.v.len < 3
  BY <1>1, <1>2, <1>4, FollowsSelf DEF Yields
<1>5. CASE ~(r.v.len < 3)
  <2>1. InCap(r.m, r.v, 1 + 2)
    BY <1>2, <1>3, <1>5, CapType DEF InCap
  <2>2. UI16At(r.m, r.v, 1) \in Nat
    BY <1>2, <2>1, UI16Type
  <2>3. k \in Nat
    BY <2>2, Wrapped
  <2>4. q = [m |-> setSize(r.m, r.v, k), v |-> r.v]
    BY <1>1, <1>5
  <2> HIDE DEF k
  <2>5. Follows(r.m, setSize(r.m, r.v, k))
    BY <1>2, <1>3, <1>5, <2>3, SetSizeFollows
  <2>6. q.m = setSize(r.m, r.v, k) /\ q.v = r.v
    BY <2>4
  <2> HIDE DEF q
  <2>7. Follows(r.m, q.m)
    BY <2>5, <2>6
  <2>8. q.v \in Windows(q.m.heap)
    BY <1>2, <2>6, <2>7, WindowFollows
  <2>9. Yields(r.m, q)
    BY <2>7, <2>8 DEF Yields
  <2> QED
    BY <2>9 DEF q
<1> QED
  BY <1>4, <1>5

(* A copy of a container without some of its bytes.                         *)
LEMMA WithoutYields ==
    ASSUME NEW m \in Machines, NEW s \in Windows(m.heap), NEW from \in Nat, NEW to \in Nat,
           from <= s.len, to <= s.len
    PROVE  /\ Yields(m, Without(m, s, from, to))
           /\ Without(m, s, from, to).v.len = from + (s.len - to)
<1> DEFINE head == Bytes(m, Sub(s, 0, from))
           rest == Bytes(m, Sub(s, to, s.len))
           a == New(m, <<>>, 0)
           b == AppendTo(a, head)
           c == AppendTo(b, rest)
<1>1. s.len \in Nat /\ Cap(m, s) \in Nat /\ s.len <= Cap(m, s)
  BY WindowIs, CapType
<1>2. /\ Sub(s, 0, from) \in Windows(m.heap) /\ Sub(s, 0, from).len = from
      /\ Sub(s, to, s.len) \in Windows(m.heap) /\ Sub(s, to, s.len).len = s.len - to
  BY <1>1, SubWindow
<1>3. head \in ByteSeq /\ Len(head) = from /\ rest \in ByteSeq /\ Len(rest) = s.len - to
  BY <1>2, BytesOf
<1> HIDE DEF head, rest
<1>4. Yields(m, a) /\ a.v.len = 0
  BY NoBytes, NewYields
<1> HIDE DEF a
<1>5. Ready(a) /\ Follows(m, a.m)
  BY <1>4, YieldsReady
<1>6. Yields(a.m, b) /\ b.v.len = from
  BY <1>3, <1>4, <1>5, AppendToYields
<1> HIDE DEF b
<1>7. Ready(b) /\ Follows(a.m, b.m)
  BY <1>6, YieldsReady
<1>8. Yields(b.m, c) /\ c.v.len = from + (s.len - to)
  BY <1>3, <1>6, <1>7, AppendToYields
<1>9. Without(m, s, from, to) = c
  BY DEF Without, a, b, head, rest
<1> HIDE DEF c
<1>10. Follows(m, b.m)
  BY <1>5, <1>7, FollowsTwice
<1>11. Yields(m, c)
  BY <1>8, <1>10, YieldsTwice
<1> QED
  BY <1>8, <1>9, <1>11

LEMMA ElementIs ==
    ASSUME NEW m \in Machines, NEW s \in Windows(m.heap), NEW i \in Nat
    PROVE  LET e == getElement(m, s, i)
           IN  /\ e.res \in {"ok", "err", "panic"} /\ e.v \in Windows(m.heap) /\ e.end \in Nat
               /\ e.res = "ok" => e.end >= i + 2 /\ e.end <= s.len
               /\ e.res # "panic" => InCap(m, s, i + 2)
<1> DEFINE e == getElement(m, s, i)
           n == UI16At(m, s, i)
           end == i + 2 + n
<1>1. e = IF ~InCap(m, s, i + 2) THEN [res |-> "panic", v |-> Nothing, end |-> 0]
          ELSE IF s.len < i + 2 \/ s.len < end THEN [res |-> "err", v |-> Nothing, end |-> 0]
          ELSE [res |-> "ok", v |-> Sub(s, i + 2, end), end |-> end]
  BY DEF getElement
<1>2. s.len \in Nat /\ Cap(m, s) \in Nat /\ s.len <= Cap(m, s)
  BY WindowIs, CapType
<1>3. Nothing \in Windows(m.heap)
  BY NothingWindow
<1>4. InCap(m, s, i + 2) => n \in Nat
  BY UI16Type
<1> HIDE DEF n, e
<1>5. CASE ~InCap(m, s, i + 2)
  <2>1. e = [res |-> "panic", v |-> Nothing, end |-> 0]
    BY <1>1, <1>5
  <2> QED
    BY <1>3, <1>5, <2>1 DEF e
<1>6. CASE InCap(m, s, i + 2) /\ (s.len < i + 2 \/ s.len < end)
  <2>1. e = [res |-> "err", v |-> Nothing, end |-> 0]
    BY <1>1, <1>6
  <2> QED
    BY <1>3, <1>6, <2>1 DEF e
<1>7. CASE InCap(m, s, i + 2) /\ ~(s.len < i + 2 \/ s.len < end)
  <2>1. e = [res |-> "ok", v |-> Sub(s, i + 2, end), end |-> end]
    BY <1>1, <1>7
  <2>2. n \in Nat /\ i + 2 \in Nat /\ end \in Nat /\ i + 2 <= end /\ end <= s.len /\ end <= Cap(m, s)
    BY <1>2, <1>4, <1>7
  <2> HIDE DEF end
  <2>3. Sub(s, i + 2, end) \in Windows(m.heap)
    BY <2>2, SubWindow
  <2> QED
    BY <1>7, <2>1, <2>2, <2>3 DEF e
<1> QED
  BY <1>5, <1>6, <1>7

(* Where a search of a map can be.                                          *)
Outcomes == {"walk", "panic", "err", "found", "missing", "hang"}
Searches == [res : Outcomes, at : Nat, value : Slices, end : Nat]
Places(p) ==
    {w \in Searches : /\ w.value \in Windows(p.m.heap)
                      /\ w.res = "found" => w.at < p.s.len
                      /\ p.op = "remove" => w.at >= 3}
searchStep(p, w, k) ==
    IF w.res = "walk" /\ w.at < p.s.len THEN MapTurn(p.m, p.s, p.key, p.op, w) ELSE w
Searching == INSTANCE FoldFacts WITH step <- searchStep, X <- Searches, Y <- Nat

LEMMA TurnIs ==
    ASSUME NEW m \in Machines, NEW s \in Windows(m.heap), NEW key, NEW op,
           NEW w \in Searches, w.res = "walk", w.at < s.len
    PROVE  LET q == MapTurn(m, s, key, op, w)
           IN  /\ q \in Searches
               /\ w.value \in Windows(m.heap) => q.value \in Windows(m.heap)
               /\ q.res = "found" => q.at < s.len
               /\ op = "remove" /\ w.at >= 3 => q.at >= 3
<1> DEFINE k == getElement(m, s, w.at)
           v == getElement(m, s, k.end)
           valueEnd == k.end + 2 + UI16At(m, s, k.end)
           q == MapTurn(m, s, key, op, w)
<1>1. q = IF k.res = "panic" THEN [w EXCEPT !.res = "panic"]
          ELSE IF k.res = "err" /\ op # "has" THEN [w EXCEPT !.res = "err"]
          ELSE IF v.res = "panic" THEN [w EXCEPT !.res = "panic"]
          ELSE IF v.res = "err" /\ op = "get" THEN [w EXCEPT !.res = "err"]
          ELSE IF Bytes(m, k.v) = key THEN [w EXCEPT !.res = "found", !.value = v.v, !.end = valueEnd]
          ELSE IF w.at = valueEnd THEN [w EXCEPT !.res = "err"]
          ELSE [w EXCEPT !.at = valueEnd]
  BY DEF MapTurn
<1>2. /\ w.at \in Nat /\ w.res \in Outcomes /\ w.value \in Slices /\ w.end \in Nat
      /\ w = [res |-> w.res, at |-> w.at, value |-> w.value, end |-> w.end]
  BY DEF Searches
<1>3. /\ k.end \in Nat /\ k.res \in {"ok", "err", "panic"}
      /\ k.res = "ok" => k.end >= w.at + 2
  BY <1>2, ElementIs
<1> HIDE DEF k
<1>4. v.v \in Windows(m.heap) /\ (v.res # "panic" => InCap(m, s, k.end + 2))
  BY <1>3, ElementIs
<1> HIDE DEF v
<1>5. v.res # "panic" => UI16At(m, s, k.end) \in Nat
  BY <1>3, <1>4, UI16Type
<1>6. v.res # "panic" => valueEnd \in Nat /\ (k.res = "ok" => valueEnd >= w.at + 4)
  BY <1>2, <1>3, <1>5
<1> HIDE DEF valueEnd, q
<1>7. v.v \in Slices
  BY <1>4 DEF Windows
<1>8. CASE \E x \in {"panic", "err"} : q = [w EXCEPT !.res = x]
  <2>1. PICK x \in {"panic", "err"} : q = [w EXCEPT !.res = x]
    BY <1>8
  <2>2. q = [res |-> x, at |-> w.at, value |-> w.value, end |-> w.end]
    BY <1>2, <2>1
  <2>3. x \in Outcomes
    BY DEF Outcomes
  <2>4. q \in Searches /\ q.value = w.value /\ q.at = w.at /\ q.res # "found"
    BY <1>2, <2>2, <2>3 DEF Searches
  <2> QED
    BY <2>4 DEF q
<1>9. CASE q = [w EXCEPT !.res = "found", !.value = v.v, !.end = valueEnd] /\ v.res # "panic"
  <2>1. q = [res |-> "found", at |-> w.at, value |-> v.v, end |-> valueEnd]
    BY <1>2, <1>9
  <2>2. "found" \in Outcomes
    BY DEF Outcomes
  <2>3. q \in Searches /\ q.value = v.v /\ q.at = w.at
    BY <1>2, <1>6, <1>7, <1>9, <2>1, <2>2 DEF Searches
  <2> QED
    BY <1>4, <2>3 DEF q
<1>10. CASE q = [w EXCEPT !.at = valueEnd] /\ v.res # "panic" /\ k.res # "panic"
            /\ ~(k.res = "err" /\ op # "has") /\ w.res = "walk"
  <2>1. q = [res |-> w.res, at |-> valueEnd, value |-> w.value, end |-> w.end]
    BY <1>2, <1>10
  <2>2. q \in Searches /\ q.value = w.value /\ q.at = valueEnd /\ q.res # "found"
    BY <1>2, <1>6, <1>10, <2>1 DEF Searches
  <2>3. op = "remove" => k.res = "ok"
    BY <1>3, <1>10
  <2>4. op = "remove" /\ w.at >= 3 => q.at >= 3
    BY <1>2, <1>6, <1>10, <2>2, <2>3
  <2> QED
    BY <2>2, <2>4 DEF q
<1>11. \/ \E x \in {"panic", "err"} : q = [w EXCEPT !.res = x]
       \/ q = [w EXCEPT !.res = "found", !.value = v.v, !.end = valueEnd] /\ v.res # "panic"
       \/ q = [w EXCEPT !.at = valueEnd] /\ v.res # "panic" /\ k.res # "panic"
          /\ ~(k.res = "err" /\ op # "has") /\ w.res = "walk"
  BY <1>1
<1> QED
  BY <1>8, <1>9, <1>10, <1>11

LEMMA SearchStep ==
    ASSUME NEW p, p.m \in Machines, p.s \in Windows(p.m.heap), NEW w \in Searches, NEW k
    PROVE  /\ searchStep(p, w, k) \in Searches
           /\ w \in Places(p) => searchStep(p, w, k) \in Places(p)
<1> DEFINE q == MapTurn(p.m, p.s, p.key, p.op, w)
           r == searchStep(p, w, k)
<1>1. r = IF w.res = "walk" /\ w.at < p.s.len THEN q ELSE w
  BY DEF searchStep
<1>2. CASE w.res = "walk" /\ w.at < p.s.len
  <2>1. /\ q \in Searches
        /\ w.value \in Windows(p.m.heap) => q.value \in Windows(p.m.heap)
        /\ q.res = "found" => q.at < p.s.len
        /\ p.op = "remove" /\ w.at >= 3 => q.at >= 3
    BY <1>2, TurnIs
  <2>2. r = q
    BY <1>1, <1>2
  <2> HIDE DEF q, r
  <2> QED
    BY <2>1, <2>2 DEF Places, r
<1>3. CASE ~(w.res = "walk" /\ w.at < p.s.len)
  BY <1>1, <1>3
<1> QED
  BY <1>2, <1>3

LEMMA SearchEnds ==
    ASSUME NEW p, p.m \in Machines, p.s \in Windows(p.m.heap)
    PROVE  LET w == Searching!Folded(p, [res |-> "walk", at |-> 3, value |-> Nothing, end |-> 0],
                                     [i \in 1 .. p.s.len |-> i])
           IN  w \in Searches /\ w \in Places(p)
<1> DEFINE n == p.s.len
           f == [i \in 1 .. n |-> i]
           start == [res |-> "walk", at |-> 3, value |-> Nothing, end |-> 0]
           I == [k \in 0 .. n |-> Places(p)]
<1>1. n \in Nat
  BY WindowIs
<1>2. f \in Seq(Nat) /\ Len(f) = n
  BY <1>1, UpTo
<1>3. start \in Searches /\ start \in Places(p)
  <2>1. Nothing \in Windows(p.m.heap)
    BY NothingWindow
  <2>2. Nothing \in Slices
    BY <2>1 DEF Windows
  <2> QED
    BY <2>1, <2>2 DEF Searches, Outcomes, Places
<1> HIDE DEF f, start
<1>4. \A w \in Searches, k \in Nat : searchStep(p, w, k) \in Searches
  BY SearchStep
<1>5. \A w \in Searches, k \in Nat : w \in Places(p) => searchStep(p, w, k) \in Places(p)
  BY SearchStep
<1>6. \A k \in 0 .. n : I[k] = Places(p)
  OBVIOUS
<1> HIDE DEF I
<1>7. \A k \in 1 .. n : f[k] \in Nat
  BY <1>2
<1> HIDE DEF n
<1>8. Searching!Keeps(p, start, f, I)
  BY <1>1, <1>2, <1>3, <1>5, <1>6, <1>7 DEF Searching!Keeps
<1>9. Searching!Folded(p, start, f) \in Searches /\ Searching!Folded(p, start, f) \in I[Len(f)]
  BY <1>2, <1>3, <1>4, <1>8, Searching!FoldInvariant
<1>10. Searching!Folded(p, start, f) \in Places(p)
  BY <1>1, <1>2, <1>6, <1>9
<1> QED
  BY <1>9, <1>10 DEF f, start, n

LEMMA MapFindFolds ==
    ASSUME NEW p
    PROVE  MapFind(p.m, p.s, p.key, p.op) =
              LET u == Searching!Folded(p, [res |-> "walk", at |-> 3, value |-> Nothing, end |-> 0],
                                        [i \in 1 .. p.s.len |-> i])
              IN  CASE u.res = "walk" /\ u.at >= p.s.len -> [u EXCEPT !.res = "missing"]
                    [] u.res = "walk" /\ u.at < p.s.len -> [u EXCEPT !.res = "hang"]
                    [] u.res = "found" /\ p.op = "remove" /\ u.end > p.s.len -> [u EXCEPT !.res = "panic"]
                    [] OTHER -> u
BY Zenon DEF MapFind, Turns, searchStep, FoldLeft, MapThenFoldSet, Max,
             Searching!Folded, Searching!MapThenFoldSet, Searching!Largest

LEMMA MapFindIs ==
    ASSUME NEW m \in Machines, NEW s \in Windows(m.heap), NEW key, NEW op
    PROVE  LET w == MapFind(m, s, key, op)
           IN  /\ w.res \in Outcomes /\ w.at \in Nat /\ w.end \in Nat
               /\ w.value \in Windows(m.heap)
               /\ w.res = "found" => w.at < s.len
               /\ w.res = "found" /\ op = "remove" => w.at >= 3 /\ w.end <= s.len
<1> DEFINE p == [m |-> m, s |-> s, key |-> key, op |-> op]
           start == [res |-> "walk", at |-> 3, value |-> Nothing, end |-> 0]
           f == [i \in 1 .. s.len |-> i]
           w == Searching!Folded(p, start, f)
           q == MapFind(m, s, key, op)
<1>1. p.m = m /\ p.s = s /\ p.key = key /\ p.op = op
  OBVIOUS
<1>2. w \in Searches /\ w \in Places(p)
  <2>1. Searching!Folded(p, start, [i \in 1 .. p.s.len |-> i]) \in Searches
    BY <1>1, SearchEnds
  <2>2. Searching!Folded(p, start, [i \in 1 .. p.s.len |-> i]) \in Places(p)
    BY <1>1, SearchEnds
  <2> QED
    BY <1>1, <2>1, <2>2
<1>3. q = CASE w.res = "walk" /\ w.at >= s.len -> [w EXCEPT !.res = "missing"]
            [] w.res = "walk" /\ w.at < s.len -> [w EXCEPT !.res = "hang"]
            [] w.res = "found" /\ op = "remove" /\ w.end > s.len -> [w EXCEPT !.res = "panic"]
            [] OTHER -> w
  <2> HIDE DEF p
  <2>1. MapFind(p.m, p.s, p.key, p.op) =
            LET u == Searching!Folded(p, start, [i \in 1 .. p.s.len |-> i])
            IN  CASE u.res = "walk" /\ u.at >= p.s.len -> [u EXCEPT !.res = "missing"]
                  [] u.res = "walk" /\ u.at < p.s.len -> [u EXCEPT !.res = "hang"]
                  [] u.res = "found" /\ p.op = "remove" /\ u.end > p.s.len -> [u EXCEPT !.res = "panic"]
                  [] OTHER -> u
    BY MapFindFolds
  <2> QED
    BY Zenon, <1>1, <2>1
<1> HIDE DEF w, q, p
<1>4. /\ w.at \in Nat /\ w.res \in Outcomes /\ w.end \in Nat
      /\ w = [res |-> w.res, at |-> w.at, value |-> w.value, end |-> w.end]
      /\ w.value \in Windows(m.heap)
      /\ w.res = "found" => w.at < s.len
      /\ op = "remove" => w.at >= 3
  BY <1>1, <1>2 DEF Searches, Places
<1>5. s.len \in Nat
  BY WindowIs
<1>6. \/ \E x \in {"missing", "hang", "panic"} : q = [w EXCEPT !.res = x]
      \/ q = w /\ ~(w.res = "found" /\ op = "remove" /\ w.end > s.len)
  BY <1>3
<1>7. CASE \E x \in {"missing", "hang", "panic"} : q = [w EXCEPT !.res = x]
  <2>1. PICK x \in {"missing", "hang", "panic"} : q = [w EXCEPT !.res = x]
    BY <1>7
  <2>2. q = [res |-> x, at |-> w.at, value |-> w.value, end |-> w.end]
    BY <1>4, <2>1
  <2> QED
    BY <1>4, <2>2 DEF Outcomes, q
<1>8. CASE q = w /\ ~(w.res = "found" /\ op = "remove" /\ w.end > s.len)
  BY <1>4, <1>5, <1>8 DEF q
<1> QED
  BY <1>6, <1>7, <1>8

LEMMA FoundFollows ==
    ASSUME NEW m \in Machines, NEW w, w.res \in Outcomes
    PROVE  Follows(m, Found(m, w))
<1>1. CASE w.res \in {"panic", "hang"}
  <2>1. w.res \in Statuses
    BY <1>1 DEF Statuses
  <2> QED
    BY <1>1, <2>1, StopFollows DEF Found
<1>2. CASE w.res \notin {"panic", "hang"}
  BY <1>2, CheckFollows DEF Found
<1> QED
  BY <1>1, <1>2

LEMMA ReadyFollows ==
    ASSUME NEW r, Ready(r), NEW e \in Windows(r.m.heap), NEW q, Yields(r.m, q)
    PROVE  Ready(q) /\ e \in Windows(q.m.heap) /\ Follows(r.m, q.m) /\ r.m \in Machines
BY WindowFollows DEF Ready, Yields, Follows

(* An element is appended with its length in front.                         *)
AddTo(r, e) ==
    LET sized == AppendTo(r, UInt16ToByteArray(e.len))
    IN  AppendTo(sized, Bytes(sized.m, e))

LEMMA AddYields ==
    ASSUME NEW r, Ready(r), NEW e \in Windows(r.m.heap)
    PROVE  Yields(r.m, AddTo(r, e))
<1> DEFINE u == UInt16ToByteArray(e.len)
           sized == AppendTo(r, u)
           b == Bytes(sized.m, e)
           q == AppendTo(sized, b)
<1>1. u \in ByteSeq
  BY WindowIs, UInt16Type DEF Ready
<1> HIDE DEF u
<1>2. Yields(r.m, sized)
  BY <1>1, AppendToYields
<1> HIDE DEF sized
<1>3. Ready(sized) /\ e \in Windows(sized.m.heap) /\ Follows(r.m, sized.m) /\ r.m \in Machines
  BY <1>2, ReadyFollows
<1>4. b \in ByteSeq
  BY <1>3, BytesOf DEF Ready
<1> HIDE DEF b
<1>5. Yields(sized.m, q)
  BY <1>3, <1>4, AppendToYields
<1>6. AddTo(r, e) = q
  BY DEF AddTo, q, b, sized, u
<1> HIDE DEF q
<1> QED
  BY <1>3, <1>5, <1>6, YieldsTwice

LEMMA MapAppendYields ==
    ASSUME NEW m \in Machines, NEW s \in Windows(m.heap),
           NEW key \in Windows(m.heap), NEW value \in Windows(m.heap)
    PROVE  Yields(m, MapAppend(m, s, key, value))
<1> DEFINE r == [m |-> m, v |-> s]
           a == AddTo(r, key)
           b == AddTo(a, value)
           q == IncrementSize(b)
<1>1. MapAppend(m, s, key, value) = q
  BY DEF MapAppend, AddTo
<1>2. Ready(r) /\ r.m = m
  BY DEF Ready
<1> HIDE DEF r
<1>3. Yields(m, a)
  BY <1>2, AddYields
<1> HIDE DEF a
<1>4. Ready(a) /\ value \in Windows(a.m.heap) /\ Follows(m, a.m)
  BY <1>2, <1>3, ReadyFollows
<1>5. Yields(a.m, b)
  BY <1>4, AddYields
<1> HIDE DEF b
<1>6. Yields(m, b)
  BY <1>4, <1>5, YieldsTwice
<1>7. Ready(b) /\ Follows(m, b.m)
  BY <1>6, YieldsReady
<1>8. Yields(b.m, q)
  BY <1>7, IncrementYields
<1> HIDE DEF q
<1>9. Yields(m, q)
  BY <1>7, <1>8, YieldsTwice
<1> QED
  BY <1>1, <1>9

(* The size of a container goes down by one.                                *)
LEMMA SizeSetYields ==
    ASSUME NEW r, Ready(r), r.v.len >= 3, NEW n \in Nat, NEW q,
           q = [m |-> setSize(r.m, r.v, n), v |-> r.v]
    PROVE  Yields(r.m, q)
<1>1. Follows(r.m, setSize(r.m, r.v, n))
  BY SetSizeFollows DEF Ready
<1>2. q.m = setSize(r.m, r.v, n) /\ q.v = r.v
  OBVIOUS
<1>3. q.v \in Windows(q.m.heap)
  BY <1>1, <1>2, WindowFollows DEF Ready
<1> QED
  BY <1>1, <1>2, <1>3 DEF Yields

LEMMA MapRemoveYields ==
    ASSUME NEW m \in Machines, NEW s \in Windows(m.heap), NEW w,
           w.at \in Nat, w.end \in Nat, w.at >= 3, w.at < s.len, w.end <= s.len
    PROVE  Yields(m, MapRemove(m, s, w))
<1> DEFINE r == Without(m, s, w.at, w.end)
           n == UI16At(r.m, r.v, 1)
           q == MapRemove(m, s, w)
<1>1. q = [m |-> IF n > 0 THEN setSize(r.m, r.v, n - 1) ELSE r.m, v |-> r.v]
  BY DEF MapRemove
<1>2. s.len \in Nat
  BY WindowIs
<1>3. Yields(m, r) /\ r.v.len = w.at + (s.len - w.end)
  BY <1>2, WithoutYields
<1>4. r.v.len >= 3
  BY <1>2, <1>3
<1> HIDE DEF r
<1>5. Ready(r) /\ Follows(m, r.m)
  BY <1>3, YieldsReady
<1>6. n \in Nat
  <2>1. InCap(r.m, r.v, 1 + 2)
    <3>1. Cap(r.m, r.v) \in Nat /\ r.v.len \in Nat /\ r.v.len <= Cap(r.m, r.v)
      BY <1>5, CapType, WindowIs DEF Ready
    <3> QED
      BY <1>4, <3>1 DEF InCap
  <2> QED
    BY <1>5, <2>1, UI16Type DEF Ready
<1> HIDE DEF n, q
<1>7. CASE n > 0
  <2>1. q = [m |-> setSize(r.m, r.v, n - 1), v |-> r.v] /\ n - 1 \in Nat
    BY <1>1, <1>6, <1>7
  <2>2. Yields(r.m, q)
    BY <1>4, <1>5, <2>1, SizeSetYields
  <2> QED
    BY <1>5, <2>2, YieldsTwice DEF q
<1>8. CASE ~(n > 0)
  <2>1. q.m = r.m /\ q.v = r.v
    BY <1>1, <1>8
  <2> QED
    BY <1>3, <2>1 DEF Yields, q
<1> QED
  BY <1>7, <1>8

LEMMA WithoutKeyYields ==
    ASSUME NEW m \in Machines, NEW s \in Windows(m.heap), NEW w, w.res \in Outcomes,
           w.res = "found" => /\ w.at \in Nat /\ w.end \in Nat
                              /\ w.at >= 3 /\ w.at < s.len /\ w.end <= s.len
    PROVE  Yields(m, WithoutKey(m, s, w))
<1> DEFINE f == Found(m, w)
           q == WithoutKey(m, s, w)
<1>1. q = IF w.res = "found" THEN MapRemove(f, s, w) ELSE [m |-> f, v |-> s]
  BY DEF WithoutKey
<1>2. Follows(m, f) /\ f \in Machines
  BY FoundFollows DEF Follows
<1> HIDE DEF f, q
<1>3. s \in Windows(f.heap)
  BY <1>2, WindowFollows
<1>4. CASE w.res = "found"
  <2>1. Yields(f, q)
    BY <1>1, <1>2, <1>3, <1>4, MapRemoveYields
  <2> QED
    BY <1>2, <2>1, YieldsTwice DEF q
<1>5. CASE w.res # "found"
  <2>1. q.m = f /\ q.v = s
    BY <1>1, <1>5
  <2> QED
    BY <1>2, <1>3, <2>1 DEF Yields, q
<1> QED
  BY <1>4, <1>5

LEMMA SetValYields ==
    ASSUME NEW r, Ready(r), NEW vs, vs[2] \in Windows(r.m.heap), vs[3] \in Windows(r.m.heap)
    PROVE  Yields(r.m, SetVal(r, vs))
<1> DEFINE q == MapAppend(r.m, r.v, vs[2], vs[3])
<1>1. Yields(r.m, q)
  BY MapAppendYields DEF Ready
<1>2. Yields(r.m, r)
  BY FollowsSelf DEF Ready, Yields
<1> HIDE DEF q
<1> QED
  BY <1>1, <1>2 DEF SetVal, q

LEMMA KeyInstructionFollows ==
    ASSUME NEW m \in Machines, NEW op \in MapCodes \ {"NEWMAP", "MAPPUSH"}, NEW vs, NEW w,
           vs[1] \in Windows(m.heap), vs[2] \in Windows(m.heap),
           op = "MAPSETVAL" => vs[3] \in Windows(m.heap),
           w.res \in Outcomes, w.value \in Windows(m.heap),
           w.res = "found" /\ Search(op) = "remove" =>
                /\ w.at \in Nat /\ w.end \in Nat
                /\ w.at >= 3 /\ w.at < vs[1].len /\ w.end <= vs[1].len
    PROVE  Follows(m, KeyInstruction(m, op, vs, w))
<1> DEFINE f == Found(m, w)
           b == BoolToByteArray(w.res = "found")
           k == WithoutKey(m, vs[1], w)
           l == SetVal(k, vs)
           q == KeyInstruction(m, op, vs, w)
<1>1. /\ op = "MAPHASKEY" => q = IF w.res \in {"found", "missing"} THEN TryPushNew(m, b, 1) ELSE f
      /\ op = "MAPGETVAL" => q = Push(f, w.value)
      /\ op = "MAPREMOVE" => q = PushResult(k)
      /\ op = "MAPSETVAL" => q = PushResult(l)
  BY DEF KeyInstruction
<1>2. Follows(m, f) /\ f \in Machines /\ w.value \in Windows(f.heap)
  <2>1. Follows(m, f)
    BY FoundFollows
  <2> HIDE DEF f
  <2> QED
    BY <2>1, WindowFollows DEF Follows
<1>3. b \in ByteSeq
  BY BoolType
<1>4. op \in {"MAPREMOVE", "MAPSETVAL"} => Yields(m, k)
  BY WithoutKeyYields DEF Search
<1> HIDE DEF b, f, k
<1>5. op = "MAPSETVAL" => Yields(m, l)
  <2>1. SUFFICES ASSUME op = "MAPSETVAL" PROVE Yields(m, l)
    OBVIOUS
  <2>2. Ready(k) /\ Follows(m, k.m)
    BY <1>4, <2>1, YieldsReady
  <2>3. vs[2] \in Windows(k.m.heap) /\ vs[3] \in Windows(k.m.heap)
    BY <2>1, <2>2, WindowFollows
  <2>4. Yields(k.m, l)
    BY <2>2, <2>3, SetValYields
  <2> HIDE DEF l
  <2> QED
    BY <2>2, <2>4, YieldsTwice
<1> HIDE DEF l, q
<1>6. CASE op = "MAPHASKEY"
  <2>1. CASE w.res \in {"found", "missing"}
    BY <1>1, <1>3, <1>6, <2>1, PushNewFollows DEF q
  <2>2. CASE w.res \notin {"found", "missing"}
    BY <1>1, <1>2, <1>6, <2>2 DEF q
  <2> QED
    BY <2>1, <2>2
<1>7. CASE op = "MAPGETVAL"
  <2>1. Follows(f, q)
    BY <1>1, <1>2, <1>7, PushFollows
  <2> QED
    BY <1>2, <2>1, FollowsTwice DEF q
<1>8. CASE op = "MAPREMOVE"
  BY <1>1, <1>4, <1>8, PushYielded DEF q
<1>9. CASE op = "MAPSETVAL"
  BY <1>1, <1>5, <1>9, PushYielded DEF q
<1> QED
  BY <1>6, <1>7, <1>8, <1>9 DEF MapCodes

LEMMA MapInstructionFollows ==
    ASSUME NEW m \in Machines, NEW op \in MapCodes \ {"NEWMAP"}, NEW vs,
           vs[1] \in Windows(m.heap), vs[2] \in Windows(m.heap),
           op \in {"MAPPUSH", "MAPSETVAL"} => vs[3] \in Windows(m.heap)
    PROVE  Follows(m, MapInstruction(m, op, vs))
<1> DEFINE w == MapFind(m, vs[1], Bytes(m, vs[2]), Search(op))
           a == MapAppend(m, vs[1], vs[2], vs[3])
           q == MapInstruction(m, op, vs)
<1>1. /\ ~Running(m) => q = m
      /\ Running(m) /\ op = "MAPPUSH" =>
            q = IF vs[2].len <= 65535 /\ vs[3].len <= 65535 THEN PushResult(a) ELSE Fail(m)
      /\ Running(m) /\ op # "MAPPUSH" => q = KeyInstruction(m, op, vs, w)
  BY DEF MapInstruction
<1>2. /\ w.res \in Outcomes /\ w.value \in Windows(m.heap)
      /\ w.res = "found" /\ Search(op) = "remove" =>
            /\ w.at \in Nat /\ w.end \in Nat
            /\ w.at >= 3 /\ w.at < vs[1].len /\ w.end <= vs[1].len
  BY MapFindIs
<1> HIDE DEF w
<1>3. op = "MAPPUSH" => Yields(m, a)
  BY MapAppendYields
<1> HIDE DEF a, q
<1>4. CASE ~Running(m)
  BY <1>1, <1>4, FollowsSelf DEF q
<1>5. CASE Running(m) /\ op = "MAPPUSH"
  BY <1>1, <1>3, <1>5, PushYielded, FailFollows DEF q
<1>6. CASE Running(m) /\ op # "MAPPUSH"
  BY <1>1, <1>2, <1>6, KeyInstructionFollows DEF q
<1> QED
  BY <1>4, <1>5, <1>6

LEMMA OperandWindows ==
    ASSUME NEW m \in Machines, NEW n \in {2, 3}, NEW gas \in Nat, NEW good
    PROVE  LET p == Operands(m, n, gas)
               c == Check(p.m, good)
           IN  /\ Follows(m, c) /\ c \in Machines /\ p.m \in Machines
               /\ p.vs[1] \in Windows(p.m.heap) /\ p.vs[2] \in Windows(p.m.heap)
               /\ p.vs[1] \in Windows(c.heap) /\ p.vs[2] \in Windows(c.heap)
               /\ n = 3 => p.vs[3] \in Windows(c.heap)
<1> DEFINE p == Operands(m, n, gas)
           c == Check(p.m, good)
<1>1. Popped(p, n) /\ Follows(m, p.m)
  BY OperandsFollow
<1> HIDE DEF p
<1>2. p.m \in Machines /\ \A i \in 1 .. n : p.vs[i] \in Windows(p.m.heap)
  BY <1>1 DEF Popped
<1>3. Follows(p.m, c)
  BY <1>2, CheckFollows
<1> HIDE DEF c
<1>4. Follows(m, c) /\ c \in Machines
  BY <1>1, <1>2, <1>3, FollowsTwice DEF Follows
<1>5. \A i \in 1 .. n : p.vs[i] \in Windows(c.heap)
  BY <1>2, <1>3, WindowFollows
<1>6. 1 \in 1 .. n /\ 2 \in 1 .. n /\ (n = 3 => 3 \in 1 .. n)
  OBVIOUS
<1> QED
  BY <1>2, <1>4, <1>5, <1>6 DEF c, p

LEMMA MapFollows ==
    ASSUME NEW m \in Machines, NEW op \in MapCodes, NEW gas \in Nat
    PROVE  Follows(m, MapOp(m, op, gas))
<1> DEFINE n == IF op \in {"MAPPUSH", "MAPSETVAL"} THEN 3 ELSE 2
           p == Operands(m, n, gas)
           good == IsContainer(p.m, p.vs[1], 1)
           c == Check(p.m, good)
           q == MapOp(m, op, gas)
<1>1. q = IF op = "NEWMAP" THEN PushNew(m, <<1, 0, 0>>, 3) ELSE MapInstruction(c, op, p.vs)
  BY DEF MapOp
<1>2. /\ Follows(m, c) /\ c \in Machines
      /\ p.vs[1] \in Windows(c.heap) /\ p.vs[2] \in Windows(c.heap)
      /\ n = 3 => p.vs[3] \in Windows(c.heap)
  <2>1. n \in {2, 3}
    OBVIOUS
  <2> HIDE DEF n, good
  <2> QED
    BY <2>1, OperandWindows
<1> HIDE DEF p, c, q
<1>3. CASE op = "NEWMAP"
  <2>1. <<1, 0, 0>> \in ByteSeq
    BY DEF ByteSeq
  <2> QED
    BY <1>1, <1>3, <2>1, PushNewFollows DEF q
<1>4. CASE op # "NEWMAP"
  <2>1. op \in {"MAPPUSH", "MAPSETVAL"} => p.vs[3] \in Windows(c.heap)
    BY <1>2
  <2>2. Follows(c, q)
    BY <1>1, <1>2, <1>4, <2>1, MapInstructionFollows
  <2> QED
    BY <1>2, <2>2, FollowsTwice DEF q
<1> QED
  BY <1>3, <1>4

(* Where the search for an element of an array can be.                      *)
Visits == [res : {"err", "panic", "found"}, at : Nat, n : Nat, size : Nat]
Stays(p) == {w \in Visits : w.res = "found" => w.at < p.s.len}
visitStep(p, w, k) ==
    IF w.res # "err" \/ w.at >= UInt16(p.s.len) \/ w.n > p.index THEN w
    ELSE IF UInt16(w.at + 2) < w.at \/ ~InCap(p.m, p.s, w.at + 2) THEN [w EXCEPT !.res = "panic"]
    ELSE IF w.n = p.index THEN [w EXCEPT !.res = "found", !.size = UI16At(p.m, p.s, w.at)]
    ELSE [w EXCEPT !.n = @ + 1, !.at = UInt16(@ + 2 + UI16At(p.m, p.s, @))]
Visiting == INSTANCE FoldFacts WITH step <- visitStep, X <- Visits, Y <- Nat

LEMMA VisitStep ==
    ASSUME NEW p, p.m \in Machines, p.s \in Windows(p.m.heap), NEW w \in Visits, NEW k
    PROVE  /\ visitStep(p, w, k) \in Visits
           /\ w \in Stays(p) => visitStep(p, w, k) \in Stays(p)
<1> DEFINE u == UI16At(p.m, p.s, w.at)
           next == UInt16(w.at + 2 + u)
           r == visitStep(p, w, k)
<1>1. r = IF w.res # "err" \/ w.at >= UInt16(p.s.len) \/ w.n > p.index THEN w
          ELSE IF UInt16(w.at + 2) < w.at \/ ~InCap(p.m, p.s, w.at + 2) THEN [w EXCEPT !.res = "panic"]
          ELSE IF w.n = p.index THEN [w EXCEPT !.res = "found", !.size = u]
          ELSE [w EXCEPT !.n = @ + 1, !.at = next]
  BY DEF visitStep
<1>2. /\ w.at \in Nat /\ w.res \in {"err", "panic", "found"} /\ w.n \in Nat /\ w.size \in Nat
      /\ w = [res |-> w.res, at |-> w.at, n |-> w.n, size |-> w.size]
  BY DEF Visits
<1>3. p.s.len \in Nat
  BY WindowIs
<1>4. UInt16(p.s.len) \in Nat /\ UInt16(p.s.len) <= p.s.len
  BY <1>3, Wrapped
<1>5. InCap(p.m, p.s, w.at + 2) => u \in Nat
  BY <1>2, UI16Type
<1> HIDE DEF u, r
<1>6. InCap(p.m, p.s, w.at + 2) => next \in Nat
  <2>1. SUFFICES ASSUME InCap(p.m, p.s, w.at + 2) PROVE next \in Nat
    OBVIOUS
  <2>2. w.at + 2 + u \in Nat
    BY <1>2, <1>5, <2>1
  <2> QED
    BY <2>2, Wrapped
<1> HIDE DEF next
<1>7. CASE r = w
  BY <1>7 DEF r
<1>8. CASE r = [w EXCEPT !.res = "panic"]
  <2>1. r = [res |-> "panic", at |-> w.at, n |-> w.n, size |-> w.size]
    BY <1>2, <1>8
  <2>2. r \in Visits /\ r.res # "found"
    BY <1>2, <2>1 DEF Visits
  <2> QED
    BY <2>2 DEF Stays, r
<1>9. CASE r = [w EXCEPT !.res = "found", !.size = u] /\ InCap(p.m, p.s, w.at + 2)
           /\ w.at < p.s.len
  <2>1. r = [res |-> "found", at |-> w.at, n |-> w.n, size |-> u]
    BY <1>2, <1>9
  <2>2. r \in Visits /\ r.at = w.at
    BY <1>2, <1>5, <1>9, <2>1 DEF Visits
  <2> QED
    BY <1>9, <2>2 DEF Stays, r
<1>10. CASE r = [w EXCEPT !.n = @ + 1, !.at = next] /\ InCap(p.m, p.s, w.at + 2) /\ w.res = "err"
  <2>1. r = [res |-> w.res, at |-> next, n |-> w.n + 1, size |-> w.size]
    BY <1>2, <1>10
  <2>2. r \in Visits /\ r.res # "found"
    BY <1>2, <1>6, <1>10, <2>1 DEF Visits
  <2> QED
    BY <2>2 DEF Stays, r
<1>11. \/ r = w
       \/ r = [w EXCEPT !.res = "panic"]
       \/ r = [w EXCEPT !.res = "found", !.size = u] /\ InCap(p.m, p.s, w.at + 2)
          /\ w.at < p.s.len
       \/ r = [w EXCEPT !.n = @ + 1, !.at = next] /\ InCap(p.m, p.s, w.at + 2) /\ w.res = "err"
  <2> DEFINE l == UInt16(p.s.len)
  <2>1. w.at < l => w.at < p.s.len
    <3>1. l \in Nat /\ l <= p.s.len
      BY <1>4
    <3> HIDE DEF l
    <3> QED
      BY <1>2, <1>3, <3>1
  <2>2. r = IF w.res # "err" \/ w.at >= l \/ w.n > p.index THEN w
            ELSE IF UInt16(w.at + 2) < w.at \/ ~InCap(p.m, p.s, w.at + 2) THEN [w EXCEPT !.res = "panic"]
            ELSE IF w.n = p.index THEN [w EXCEPT !.res = "found", !.size = u]
            ELSE [w EXCEPT !.n = @ + 1, !.at = next]
    BY <1>1
  <2>3. l \in Nat
    BY <1>4
  <2> HIDE DEF l
  <2>4. ~(w.at >= l) => w.at < l
    BY <1>2, <2>3
  <2> QED
    BY <2>1, <2>2, <2>4
<1> QED
  BY <1>7, <1>8, <1>9, <1>10, <1>11

LEMMA VisitEnds ==
    ASSUME NEW p, p.m \in Machines, p.s \in Windows(p.m.heap), NEW n \in Nat
    PROVE  LET w == Visiting!Folded(p, [res |-> "err", at |-> 3, n |-> 0, size |-> 0],
                                    [i \in 1 .. n |-> i])
           IN  w \in Visits /\ w \in Stays(p)
<1> DEFINE f == [i \in 1 .. n |-> i]
           start == [res |-> "err", at |-> 3, n |-> 0, size |-> 0]
           I == [k \in 0 .. n |-> Stays(p)]
<1>2. f \in Seq(Nat) /\ Len(f) = n
  BY UpTo
<1>3. start \in Visits /\ start \in Stays(p)
  BY DEF Visits, Stays
<1> HIDE DEF f, start
<1>4. \A w \in Visits, k \in Nat : visitStep(p, w, k) \in Visits
  BY VisitStep
<1>5. \A w \in Visits, k \in Nat : w \in Stays(p) => visitStep(p, w, k) \in Stays(p)
  BY VisitStep
<1>6. \A k \in 0 .. n : I[k] = Stays(p)
  OBVIOUS
<1> HIDE DEF I
<1>7. \A k \in 1 .. n : f[k] \in Nat
  BY <1>2
<1>8. Visiting!Keeps(p, start, f, I)
  BY <1>2, <1>3, <1>5, <1>6, <1>7 DEF Visiting!Keeps
<1>9. Visiting!Folded(p, start, f) \in Visits /\ Visiting!Folded(p, start, f) \in I[Len(f)]
  BY <1>2, <1>3, <1>4, <1>8, Visiting!FoldInvariant
<1>10. Visiting!Folded(p, start, f) \in Stays(p)
  BY <1>2, <1>6, <1>9
<1> QED
  BY <1>9, <1>10 DEF f, start

LEMMA GoToIndexFolds ==
    ASSUME NEW p
    PROVE  goToIndex(p.m, p.s, p.index) =
              LET start == [res |-> "err", at |-> 3, n |-> 0, size |-> 0]
              IN  IF p.s.len < 3 \/ UI16At(p.m, p.s, 1) < p.index THEN start
                  ELSE Visiting!Folded(p, start, [i \in 1 .. (p.index + 1) |-> i])
BY Zenon DEF goToIndex, Turns, visitStep, FoldLeft, MapThenFoldSet, Max,
             Visiting!Folded, Visiting!MapThenFoldSet, Visiting!Largest

LEMMA GoToIndexIs ==
    ASSUME NEW m \in Machines, NEW s \in Windows(m.heap), NEW index \in Nat
    PROVE  LET w == goToIndex(m, s, index)
           IN  /\ w.res \in {"err", "panic", "found"} /\ w.res \in Outcomes
               /\ w.at \in Nat /\ w.size \in Nat
               /\ w.res = "found" => w.at < s.len
<1> DEFINE p == [m |-> m, s |-> s, index |-> index]
           start == [res |-> "err", at |-> 3, n |-> 0, size |-> 0]
           w == Visiting!Folded(p, start, [i \in 1 .. (index + 1) |-> i])
           q == goToIndex(m, s, index)
<1>1. p.m = m /\ p.s = s /\ p.index = index
  OBVIOUS
<1> HIDE DEF p
<1>2. goToIndex(p.m, p.s, p.index) =
           IF p.s.len < 3 \/ UI16At(p.m, p.s, 1) < p.index THEN start
           ELSE Visiting!Folded(p, start, [i \in 1 .. (p.index + 1) |-> i])
  BY GoToIndexFolds
<1>3. q = start \/ q = w
  BY Zenon, <1>1, <1>2
<1>4. w \in Visits /\ w \in Stays(p)
  <2>1. index + 1 \in Nat
    OBVIOUS
  <2> QED
    BY <1>1, <2>1, VisitEnds
<1>5. start \in Visits /\ start \in Stays(p)
  BY DEF Visits, Stays
<1> HIDE DEF w, start, q
<1>6. q \in Visits /\ q \in Stays(p)
  BY <1>3, <1>4, <1>5
<1> QED
  BY <1>1, <1>6 DEF Visits, Stays, Outcomes, q

LEMMA ArrayAppendYields ==
    ASSUME NEW m \in Machines, NEW s \in Windows(m.heap), NEW element \in ByteSeq
    PROVE  Yields(m, ArrayAppend(m, s, element))
<1> DEFINE b == UInt16ToByteArray(Len(element)) \o element
           a == AppendBytes(m, s, b)
           q == IncrementSize(a)
<1>1. ArrayAppend(m, s, element) = q
  BY DEF ArrayAppend
<1>2. b \in ByteSeq
  BY BytesAre, UInt16Type, BytesJoined
<1> HIDE DEF b
<1>3. Yields(m, a)
  BY <1>2, AppendYields
<1> HIDE DEF a
<1>4. Ready(a) /\ Follows(m, a.m)
  BY <1>3, YieldsReady
<1>5. Yields(a.m, q)
  BY <1>4, IncrementYields
<1> HIDE DEF q
<1> QED
  BY <1>1, <1>4, <1>5, YieldsTwice

LEMMA DecrementYields ==
    ASSUME NEW r, Ready(r)
    PROVE  Yields(r.m, DecrementSize(r))
<1> DEFINE n == UI16At(r.m, r.v, 1)
           q == DecrementSize(r)
<1>1. q = [m |-> IF r.v.len >= 3 /\ n > 0 THEN setSize(r.m, r.v, n - 1) ELSE Fail(r.m),
           v |-> r.v]
  BY DEF DecrementSize
<1>2. r.m \in Machines /\ r.v \in Windows(r.m.heap) /\ r.v.len \in Nat
  BY WindowIs DEF Ready
<1>3. r.v.len >= 3 => n \in Nat
  <2>1. SUFFICES ASSUME r.v.len >= 3 PROVE n \in Nat
    OBVIOUS
  <2>2. Cap(r.m, r.v) \in Nat /\ r.v.len <= Cap(r.m, r.v)
    BY <1>2, CapType
  <2>3. InCap(r.m, r.v, 1 + 2)
    BY <1>2, <2>1, <2>2 DEF InCap
  <2> QED
    BY <1>2, <2>3, UI16Type
<1> HIDE DEF n, q
<1>4. CASE r.v.len >= 3 /\ n > 0
  <2>1. q = [m |-> setSize(r.m, r.v, n - 1), v |-> r.v] /\ n - 1 \in Nat
    BY <1>1, <1>3, <1>4
  <2> QED
    BY <1>4, <2>1, SizeSetYields DEF q
<1>5. CASE ~(r.v.len >= 3 /\ n > 0)
  <2>1. q.m = Fail(r.m) /\ q.v = r.v
    BY <1>1, <1>5
  <2>2. Follows(r.m, q.m)
    BY <1>2, <2>1, FailFollows
  <2>3. q.v \in Windows(q.m.heap)
    BY <1>2, <2>1, <2>2, WindowFollows
  <2> QED
    BY <2>2, <2>3 DEF Yields, q
<1> QED
  BY <1>4, <1>5

LEMMA PairYields ==
    ASSUME NEW m \in Machines, NEW s \in Windows(m.heap), NEW f, Follows(m, f), NEW q,
           q = [m |-> f, v |-> s]
    PROVE  Yields(m, q)
<1>1. q.m = f /\ q.v = s
  OBVIOUS
<1>2. s \in Windows(f.heap)
  BY WindowFollows
<1> QED
  BY <1>1, <1>2 DEF Yields

LEMMA ArrayRemoveYields ==
    ASSUME NEW m \in Machines, NEW s \in Windows(m.heap), NEW index \in Nat
    PROVE  Yields(m, ArrayRemove(m, s, index))
<1> DEFINE w == goToIndex(m, s, index)
           to == ElementEnd(w)
           c == Without(m, s, w.at, to)
           q == ArrayRemove(m, s, index)
<1>1. q = CASE w.res # "found" -> [m |-> Found(m, w), v |-> s]
            [] w.res = "found" /\ to > s.len -> [m |-> Stop(m, "panic"), v |-> s]
            [] OTHER -> DecrementSize(c)
  BY DEF ArrayRemove, RemoveElement
<1>2. /\ w.res \in Outcomes /\ w.at \in Nat /\ w.size \in Nat
      /\ w.res = "found" => w.at < s.len
  BY GoToIndexIs
<1> HIDE DEF w
<1>3. to \in Nat
  <2>1. w.at + 2 + w.size \in Nat
    BY <1>2
  <2> QED
    BY <2>1, Wrapped DEF ElementEnd
<1>4. s.len \in Nat
  BY WindowIs
<1> HIDE DEF to, c, q
<1>5. \/ w.res # "found" /\ q = [m |-> Found(m, w), v |-> s]
      \/ q = [m |-> Stop(m, "panic"), v |-> s]
      \/ w.res = "found" /\ to <= s.len /\ q = DecrementSize(c)
  BY <1>1, <1>3, <1>4
<1>6. CASE w.res # "found" /\ q = [m |-> Found(m, w), v |-> s]
  BY <1>2, <1>6, FoundFollows, PairYields DEF q
<1>7. CASE q = [m |-> Stop(m, "panic"), v |-> s]
  <2>1. "panic" \in Statuses
    BY DEF Statuses
  <2>2. Follows(m, Stop(m, "panic"))
    BY <2>1, StopFollows
  <2> QED
    BY <1>7, <2>2, PairYields DEF q
<1>8. CASE w.res = "found" /\ to <= s.len /\ q = DecrementSize(c)
  <2>1. w.at <= s.len
    BY <1>2, <1>4, <1>8
  <2>2. Yields(m, c)
    BY <1>2, <1>3, <1>8, <2>1, WithoutYields DEF c
  <2>3. Ready(c) /\ Follows(m, c.m)
    BY <2>2, YieldsReady
  <2>4. Yields(c.m, q)
    BY <1>8, <2>3, DecrementYields
  <2> QED
    BY <2>3, <2>4, YieldsTwice DEF q
<1> QED
  BY <1>5, <1>6, <1>7, <1>8

LEMMA InsertElementYields ==
    ASSUME NEW r, Ready(r), NEW element \in ByteSeq, NEW w, w.res \in Outcomes, w.at \in Nat,
           w.res = "found" => w.at < r.v.len
    PROVE  Yields(r.m, InsertElement(r, w, element))
<1> DEFINE front == Bytes(r.m, Sub(r.v, 0, w.at))
           rest == Bytes(r.m, Sub(r.v, w.at, r.v.len))
           fresh == New(r.m, <<>>, 0)
           head == AppendTo(fresh, front)
           grown == ArrayAppend(head.m, head.v, element)
           whole == AppendTo(grown, rest)
           q == InsertElement(r, w, element)
<1>1. \/ q = r
      \/ q = [m |-> Found(r.m, w), v |-> r.v]
      \/ w.res = "found" /\ q = whole
  BY DEF InsertElement
<1>2. r.m \in Machines /\ r.v \in Windows(r.m.heap)
  BY DEF Ready
<1>3. r.v.len \in Nat /\ Cap(r.m, r.v) \in Nat /\ r.v.len <= Cap(r.m, r.v)
  BY <1>2, WindowIs, CapType
<1> HIDE DEF q
<1>4. CASE q = r
  BY <1>2, <1>4, FollowsSelf DEF Yields, q
<1>5. CASE q = [m |-> Found(r.m, w), v |-> r.v]
  BY <1>2, <1>5, FoundFollows, PairYields DEF q
<1>6. CASE w.res = "found" /\ q = whole
  <2>1. w.at <= r.v.len /\ w.at <= Cap(r.m, r.v)
    BY <1>3, <1>6
  <2>2. Sub(r.v, 0, w.at) \in Windows(r.m.heap) /\ Sub(r.v, w.at, r.v.len) \in Windows(r.m.heap)
    BY <1>2, <1>3, <2>1, SubWindow
  <2>3. front \in ByteSeq /\ rest \in ByteSeq
    BY <1>2, <2>2, BytesOf
  <2> HIDE DEF front, rest
  <2>4. Yields(r.m, fresh)
    BY <1>2, NoBytes, NewYields
  <2> HIDE DEF fresh
  <2>5. Ready(fresh) /\ Follows(r.m, fresh.m)
    BY <2>4, YieldsReady
  <2>6. Yields(fresh.m, head)
    BY <2>3, <2>5, AppendToYields
  <2> HIDE DEF head
  <2>7. Ready(head) /\ Follows(r.m, head.m)
    BY <1>2, <2>5, <2>6, YieldsReady, FollowsTwice
  <2>8. Yields(head.m, grown)
    BY <2>7, ArrayAppendYields DEF Ready
  <2> HIDE DEF grown
  <2>9. Ready(grown) /\ Follows(r.m, grown.m)
    BY <1>2, <2>7, <2>8, YieldsReady, FollowsTwice
  <2>10. Yields(grown.m, whole)
    BY <2>3, <2>9, AppendToYields
  <2> HIDE DEF whole
  <2>11. Yields(r.m, whole)
    BY <1>2, <2>9, <2>10, YieldsTwice
  <2> QED
    BY <1>6, <2>11 DEF q
<1> QED
  BY <1>1, <1>4, <1>5, <1>6

LEMMA ArrayInsertYields ==
    ASSUME NEW m \in Machines, NEW s \in Windows(m.heap), NEW index \in Nat,
           NEW element \in ByteSeq
    PROVE  Yields(m, ArrayInsert(m, s, index, element))
<1> DEFINE r == ArrayRemove(m, s, index)
           w == goToIndex(r.m, r.v, index)
           q == InsertElement(r, w, element)
<1>1. ArrayInsert(m, s, index, element) = q
  BY DEF ArrayInsert
<1>2. Ready(r) /\ Follows(m, r.m)
  BY ArrayRemoveYields, YieldsReady
<1> HIDE DEF r
<1>3. w.res \in Outcomes /\ w.at \in Nat /\ (w.res = "found" => w.at < r.v.len)
  BY <1>2, GoToIndexIs DEF Ready
<1> HIDE DEF w
<1>4. Yields(r.m, q)
  BY <1>2, <1>3, InsertElementYields
<1> HIDE DEF q
<1> QED
  BY <1>1, <1>2, <1>4, YieldsTwice

LEMMA ArrayAtFollows ==
    ASSUME NEW m \in Machines, NEW s \in Windows(m.heap), NEW w, w.res \in Outcomes,
           w.at \in Nat, w.size \in Nat
    PROVE  Follows(m, ArrayAt(m, s, w))
<1> DEFINE to == ElementEnd(w)
           q == ArrayAt(m, s, w)
<1>1. q = CASE w.res # "found" -> Found(m, w)
            [] w.res = "found" /\ (to < w.at + 2 \/ ~InCap(m, s, to)) -> Stop(m, "panic")
            [] OTHER -> Push(m, Sub(s, w.at + 2, to))
  BY DEF ArrayAt
<1>2. to \in Nat
  <2>1. w.at + 2 + w.size \in Nat
    OBVIOUS
  <2> QED
    BY <2>1, Wrapped DEF ElementEnd
<1> HIDE DEF to, q
<1>3. \/ q = Found(m, w)
      \/ q = Stop(m, "panic")
      \/ q = Push(m, Sub(s, w.at + 2, to)) /\ ~(to < w.at + 2) /\ InCap(m, s, to)
  BY <1>1
<1>4. CASE q = Found(m, w)
  BY <1>4, FoundFollows DEF q
<1>5. CASE q = Stop(m, "panic")
  <2>1. "panic" \in Statuses
    BY DEF Statuses
  <2> QED
    BY <1>5, <2>1, StopFollows DEF q
<1>6. CASE q = Push(m, Sub(s, w.at + 2, to)) /\ ~(to < w.at + 2) /\ InCap(m, s, to)
  <2>1. w.at + 2 \in Nat /\ w.at + 2 <= to /\ to <= Cap(m, s)
    BY <1>2, <1>6 DEF InCap
  <2>2. Sub(s, w.at + 2, to) \in Windows(m.heap)
    BY <1>2, <2>1, SubWindow
  <2> QED
    BY <1>6, <2>2, PushFollows DEF q
<1> QED
  BY <1>3, <1>4, <1>5, <1>6

LEMMA ArrayInstructionFollows ==
    ASSUME NEW m \in Machines, NEW op \in ArrayCodes \ {"NEWARR"}, NEW vs, NEW index \in Nat,
           vs[1] \in Windows(m.heap), vs[2] \in Windows(m.heap),
           op = "ARRINSERT" => vs[3] \in Windows(m.heap)
    PROVE  Follows(m, ArrayInstruction(m, op, vs, index))
<1> DEFINE a == ArrayAppend(m, vs[1], Bytes(m, vs[2]))
           i == ArrayInsert(m, vs[1], index, Bytes(m, vs[3]))
           r == ArrayRemove(m, vs[1], index)
           w == goToIndex(m, vs[1], index)
           q == ArrayInstruction(m, op, vs, index)
<1>1. \/ q = m
      \/ q = Fail(m)
      \/ q = PushResult(a)
      \/ op = "ARRINSERT" /\ q = PushResult(i)
      \/ q = PushResult(r)
      \/ q = ArrayAt(m, vs[1], w)
  BY DEF ArrayInstruction, ArrayCodes
<1>2. Yields(m, a)
  BY BytesOf, ArrayAppendYields
<1>3. op = "ARRINSERT" => Yields(m, i)
  BY BytesOf, ArrayInsertYields
<1>4. Yields(m, r)
  BY ArrayRemoveYields
<1>5. w.res \in Outcomes /\ w.at \in Nat /\ w.size \in Nat
  BY GoToIndexIs
<1> HIDE DEF a, i, r, w, q
<1>6. Follows(m, ArrayAt(m, vs[1], w))
  BY <1>5, ArrayAtFollows
<1>7. Follows(m, q)
  BY <1>1, <1>2, <1>3, <1>4, <1>6, PushYielded, FailFollows, FollowsSelf
<1> QED
  BY <1>7 DEF q

LEMMA UI16ConversionType ==
    ASSUME NEW b \in ByteSeq
    PROVE  ByteArrayToUI16(b).v \in Nat
<1>1. Len(b) = 2 => b[1] \in Nat /\ b[2] \in Nat
  <2>1. Len(b) = 2 => 1 \in 1 .. Len(b) /\ 2 \in 1 .. Len(b)
    OBVIOUS
  <2>2. \A i \in 1 .. Len(b) : b[i] \in 0 .. 255
    BY BytesAre
  <2>3. \A x \in 0 .. 255 : x \in Nat
    OBVIOUS
  <2> QED
    BY <2>1, <2>2, <2>3, Zenon
<1> QED
  BY <1>1 DEF ByteArrayToUI16

LEMMA ArrayFollows ==
    ASSUME NEW m \in Machines, NEW op \in ArrayCodes, NEW gas \in Nat
    PROVE  Follows(m, ArrayOp(m, op, gas))
<1> DEFINE n == IF op = "ARRINSERT" THEN 3 ELSE 2
           p == Operands(m, n, gas)
           index == ByteArrayToUI16(Bytes(p.m, p.vs[2]))
           good == IsContainer(p.m, p.vs[1], 2) /\ (op = "ARRAPPEND" \/ index.ok)
           c == Check(p.m, good)
           fresh == AppendTo(New(m, <<2>>, 1), <<0, 0>>)
           q == ArrayOp(m, op, gas)
<1>1. q = IF op = "NEWARR" THEN TryPushResult(fresh) ELSE ArrayInstruction(c, op, p.vs, index.v)
  BY DEF ArrayOp
<1>2. /\ Follows(m, c) /\ c \in Machines /\ p.m \in Machines
      /\ p.vs[2] \in Windows(p.m.heap)
      /\ p.vs[1] \in Windows(c.heap) /\ p.vs[2] \in Windows(c.heap)
      /\ n = 3 => p.vs[3] \in Windows(c.heap)
  <2>1. n \in {2, 3}
    OBVIOUS
  <2> HIDE DEF n, good
  <2> QED
    BY <2>1, OperandWindows
<1> HIDE DEF p, c
<1>3. index.v \in Nat
  BY <1>2, BytesOf, UI16ConversionType
<1> HIDE DEF index
<1>4. Yields(m, fresh)
  <2> DEFINE one == New(m, <<2>>, 1)
  <2>1. <<2>> \in ByteSeq /\ <<0, 0>> \in ByteSeq
    BY DEF ByteSeq
  <2>2. Ready(one) /\ Follows(m, one.m)
    BY <2>1, NewYields, YieldsReady
  <2> HIDE DEF one
  <2>3. Yields(one.m, AppendTo(one, <<0, 0>>))
    BY <2>1, <2>2, AppendToYields
  <2>4. Yields(m, AppendTo(one, <<0, 0>>))
    BY <2>2, <2>3, YieldsTwice
  <2> QED
    BY <2>4 DEF one
<1> HIDE DEF fresh, q
<1>5. CASE op = "NEWARR"
  BY <1>1, <1>4, <1>5, PushYielded DEF q
<1>6. CASE op # "NEWARR"
  <2>1. op = "ARRINSERT" => p.vs[3] \in Windows(c.heap)
    BY <1>2
  <2>2. Follows(c, q)
    BY <1>1, <1>2, <1>3, <1>6, <2>1, ArrayInstructionFollows
  <2> QED
    BY <1>2, <2>2, FollowsTwice DEF q
<1> QED
  BY <1>5, <1>6

-----------------------------------------------------------------------------
(* The host.                                                                *)
LEMMA OpCodeIs ==
    ASSUME NEW k \in 1 .. Len(OpCodes)
    PROVE  /\ OpCodes[k][2] \in Nat /\ OpCodes[k][3] \in Nat
           /\ OpCodes[k][1] \notin {"HALT", "ERRHALT"} => OpCodes[k][2] > 0
<1>1. Len(OpCodes) = 51
  BY DEF OpCodes
<1>2. StorePrice \in Nat /\ StorePrice > 0 /\ k \in 1 .. 51
  BY <1>1, VMAssumption
<1>3. OpCodes[k][2] \in Nat
  BY <1>2 DEF OpCodes
<1>4. OpCodes[k][3] \in Nat
  BY <1>2 DEF OpCodes
<1>5. OpCodes[k][2] = 0 => k > 49
  BY <1>2 DEF OpCodes
<1>6. k > 49 => k = 50 \/ k = 51
  BY <1>2
<1>7. OpCodes[50][1] = "ERRHALT" /\ OpCodes[51][1] = "HALT"
  BY DEF OpCodes
<1> QED
  BY <1>3, <1>4, <1>5, <1>6, <1>7

LEMMA NewVMType ==
    ASSUME NEW code \in ByteSeq, NEW data \in ByteSeq, NEW fee \in Nat
    PROVE  NewVM(code, data, fee) \in Machines /\ NoVM \in Machines
<1>1. ASSUME NEW c \in ByteSeq, NEW d \in ByteSeq, NEW f \in Nat, NEW st \in Statuses
      PROVE  [NewVM(c, d, f) EXCEPT !.status = st] \in Machines
  <2> DEFINE q == [NewVM(c, d, f) EXCEPT !.status = st]
  <2>1. <<c, d>> \in Heaps
    BY DEF Heaps
  <2>2. <<>> \in Seq(Slices) /\ <<>> \in Seq(Frames) /\ <<>> \in Seq(Changes) /\ Len(<<>>) = 0
    OBVIOUS
  <2>3. q = [pc |-> 0, fee |-> f, stack |-> <<>>, memoryUsage |-> 0, callStack |-> <<>>,
             changes |-> <<>>, heap |-> <<c, d>>, status |-> st]
    BY DEF NewVM
  <2> DEFINE h == <<c, d>>
  <2> HIDE DEF q, h
  <2>6. q = [pc |-> 0, fee |-> f, stack |-> <<>>, memoryUsage |-> 0, callStack |-> <<>>,
             changes |-> <<>>, heap |-> h, status |-> st]
    BY <2>3 DEF h
  <2>7. h \in Heaps
    BY <2>1 DEF h
  <2>4. q \in MachineTypes /\ q.stack = <<>> /\ q.memoryUsage = 0
    BY <2>2, <2>6, <2>7 DEF MachineTypes
  <2>5. q \in Machines
    BY <2>2, <2>4, UsedEmpty, VMAssumption DEF Machines
  <2> QED
    BY <2>5 DEF q
<1>2. NoVM \in Machines
  <2>1. <<>> \in ByteSeq /\ "idle" \in Statuses
    BY NoBytes DEF Statuses
  <2> QED
    BY <1>1, <2>1 DEF NoVM
<1>3. NewVM(code, data, fee) \in Machines
  <2> DEFINE st == IF Len(code) > MaxCode THEN "false" ELSE "run"
  <2>1. st \in Statuses
    BY DEF Statuses
  <2>2. NewVM(code, data, fee) = [NewVM(code, data, fee) EXCEPT !.status = st]
    BY DEF NewVM
  <2> QED
    BY <1>1, <2>1, <2>2
<1> QED
  BY <1>2, <1>3

(* What is true between two instructions.                                   *)
Inv ==
    /\ vm \in Machines
    /\ contract \in ByteSeq /\ contractVariables \in Seq(ByteSeq)
    /\ call \in Calls /\ prepared \in Seq(Calls)
    /\ balance \in Nat /\ ncalls \in 0 .. MaxCalls

LEMMA InvInit == Init => Inv
<1> SUFFICES ASSUME Init PROVE Inv
  OBVIOUS
<1>1. call \in Calls
  BY VMAssumption DEF Init
<1>2. contract \in ByteSeq /\ contractVariables \in Seq(ByteSeq)
  BY VMAssumption DEF Init
<1>3. vm \in Machines
  BY <1>2, NewVMType, NoBytes DEF Init
<1>4. balance \in Nat /\ prepared \in Seq(Calls) /\ ncalls \in 0 .. MaxCalls
  BY VMAssumption DEF Init
<1> QED
  BY <1>1, <1>2, <1>3, <1>4 DEF Inv

(* The instruction that was fetched is paid for.                            *)
LEMMA PaidFollows ==
    ASSUME Inv, NEW codes, Decodes(codes)
    PROVE  /\ Follows(vm, Paid) /\ Paid \in Machines /\ Gas \in Nat /\ Op \in codes
           /\ Op \notin {"HALT", "ERRHALT"} => Paid.fee < vm.fee
<1> DEFINE k == Next0
           price == OpCodes[k][2]
<1>1. vm \in Machines /\ vm.pc \in Nat /\ vm.fee \in Nat /\ vm \in MachineTypes
  BY MachineIs DEF Inv
<1>2. Len(Code(vm)) > vm.pc /\ k <= Len(OpCodes) /\ vm.fee >= price /\ OpCodes[k][1] \in codes
  BY DEF Decodes, Executable
<1>3. Code(vm)[vm.pc + 1] \in Nat
  BY <1>1, <1>2, CodeType, ByteAt
<1>4. k \in 1 .. Len(OpCodes)
  <2>1. Len(OpCodes) = 51
    BY DEF OpCodes
  <2>2. k = Code(vm)[vm.pc + 1] + 1
    BY DEF Next0
  <2> HIDE DEF price
  <2>3. k <= 51
    BY <1>2, <2>1
  <2>4. k \in Nat /\ k >= 1
    BY <1>3, <2>2
  <2> HIDE DEF k
  <2> QED
    BY <2>1, <2>3, <2>4
<1> HIDE DEF k
<1>5. price \in Nat /\ OpCodes[k][3] \in Nat
      /\ (OpCodes[k][1] \notin {"HALT", "ERRHALT"} => price > 0)
  BY <1>4, OpCodeIs
<1>6. Op = OpCodes[k][1] /\ Gas = OpCodes[k][3]
  BY DEF Op, Gas, k
<1> DEFINE q == [vm EXCEPT !.pc = vm.pc + 1]
           r == [q EXCEPT !.fee = vm.fee - price]
<1>7. Paid = r
  BY <1>1 DEF Paid, MachineTypes, k
<1> HIDE DEF price
<1>8. Follows(vm, q) /\ q.fee = vm.fee
  <2>1. q.fee = vm.fee
    BY <1>1 DEF MachineTypes
  <2>2. vm.pc + 1 \in Nat
    BY <1>1
  <2> QED
    BY <1>1, <2>1, <2>2, SetPc
<1> HIDE DEF q
<1>9. q \in Machines /\ q \in MachineTypes
  BY <1>8, MachineIs DEF Follows
<1>10. vm.fee - price \in Nat /\ vm.fee - price <= q.fee /\ (price > 0 => vm.fee - price < vm.fee)
  <2>1. vm.fee \in Nat /\ price \in Nat /\ vm.fee >= price /\ q.fee = vm.fee
    BY <1>1, <1>2, <1>5, <1>8, Zenon DEF price
  <2> QED
    BY ONLY <2>1
<1>11. Follows(q, r) /\ r.fee = vm.fee - price
  BY <1>9, <1>10, SetFee DEF MachineTypes
<1> HIDE DEF r
<1>12. Follows(vm, r)
  BY <1>1, <1>8, <1>11, FollowsTwice
<1>13. r \in Machines
  BY <1>12 DEF Follows
<1>14. Op \notin {"HALT", "ERRHALT"} => r.fee < vm.fee
  BY <1>5, <1>6, <1>10, <1>11
<1> QED
  BY <1>2, <1>5, <1>6, <1>7, <1>12, <1>13, <1>14

(* Every instruction leaves a machine, and less gas if it goes on.          *)
LEMMA InstructionGoesOn ==
    ASSUME Inv, NEW codes, Decodes(codes), NEW q, Follows(Paid, q),
           "HALT" \notin codes, "ERRHALT" \notin codes
    PROVE  q \in Machines /\ q.fee < vm.fee
<1>1. /\ Paid \in Machines /\ Op \in codes
      /\ Op \notin {"HALT", "ERRHALT"} => Paid.fee < vm.fee
  BY PaidFollows
<1>2. Paid.fee < vm.fee /\ Paid.fee \in Nat
  BY <1>1, MachineIs
<1>3. q \in Machines /\ q.fee <= Paid.fee
  BY DEF Follows
<1>4. q.fee \in Nat /\ vm.fee \in Nat
  BY <1>3, MachineIs DEF Inv
<1> QED
  BY <1>2, <1>3, <1>4

LEMMA ExecFollows ==
    ASSUME Inv, Exec
    PROVE  /\ vm' \in Machines /\ UNCHANGED host
           /\ Running(vm') => vm'.fee < vm.fee
<1>1. CASE ExecStack
  <2>1. Decodes(StackCodes) /\ vm' = StackOp(Paid, Op, Gas) /\ UNCHANGED host
    BY <1>1 DEF ExecStack
  <2>2. Follows(Paid, vm')
    BY <2>1, PaidFollows, StackFollows
  <2> QED
    BY <2>1, <2>2, InstructionGoesOn DEF StackCodes
<1>2. CASE ExecArithmetic
  <2>1. Decodes(ArithmeticCodes) /\ vm' = ArithmeticOp(Paid, Op, Gas) /\ UNCHANGED host
    BY <1>2 DEF ExecArithmetic
  <2>2. Follows(Paid, vm')
    BY <2>1, PaidFollows, ArithmeticFollows
  <2> QED
    BY <2>1, <2>2, InstructionGoesOn DEF ArithmeticCodes
<1>3. CASE ExecCompare
  <2>1. Decodes(CompareCodes) /\ vm' = CompareOp(Paid, Op, Gas) /\ UNCHANGED host
    BY <1>3 DEF ExecCompare
  <2>2. Follows(Paid, vm')
    BY <2>1, PaidFollows, CompareFollows
  <2> QED
    BY <2>1, <2>2, InstructionGoesOn DEF CompareCodes
<1>4. CASE ExecUnary
  <2>1. Decodes(UnaryCodes) /\ vm' = UnaryOp(Paid, Op, Gas) /\ UNCHANGED host
    BY <1>4 DEF ExecUnary
  <2>2. Follows(Paid, vm')
    BY <2>1, PaidFollows, UnaryFollows
  <2> QED
    BY <2>1, <2>2, InstructionGoesOn DEF UnaryCodes
<1>5. CASE ExecJump
  <2>1. Decodes(JumpCodes) /\ vm' = JumpOp(Paid, Op, Gas) /\ UNCHANGED host
    BY <1>5 DEF ExecJump
  <2>2. Follows(Paid, vm')
    BY <2>1, PaidFollows, JumpFollows
  <2> QED
    BY <2>1, <2>2, InstructionGoesOn DEF JumpCodes
<1>6. CASE ExecVariable
  <2>1. Decodes(VariableCodes) /\ vm' = VariableOp(Paid, Op, Gas) /\ UNCHANGED host
    BY <1>6 DEF ExecVariable
  <2>2. Follows(Paid, vm')
    BY <2>1, PaidFollows, VariableFollows DEF Inv
  <2> QED
    BY <2>1, <2>2, InstructionGoesOn DEF VariableCodes
<1>7. CASE ExecContext
  <2>1. Decodes(ContextCodes) /\ vm' = ContextOp(Paid, Op) /\ UNCHANGED host
    BY <1>7 DEF ExecContext
  <2>2. Follows(Paid, vm')
    BY <2>1, PaidFollows, ContextFollows DEF Inv
  <2> QED
    BY <2>1, <2>2, InstructionGoesOn DEF ContextCodes
<1>8. CASE ExecMap
  <2>1. Decodes(MapCodes) /\ vm' = MapOp(Paid, Op, Gas) /\ UNCHANGED host
    BY <1>8 DEF ExecMap
  <2>2. Follows(Paid, vm')
    BY <2>1, PaidFollows, MapFollows
  <2> QED
    BY <2>1, <2>2, InstructionGoesOn DEF MapCodes
<1>9. CASE ExecArray
  <2>1. Decodes(ArrayCodes) /\ vm' = ArrayOp(Paid, Op, Gas) /\ UNCHANGED host
    BY <1>9 DEF ExecArray
  <2>2. Follows(Paid, vm')
    BY <2>1, PaidFollows, ArrayFollows
  <2> QED
    BY <2>1, <2>2, InstructionGoesOn DEF ArrayCodes
<1>10. CASE ExecCrypto
  <2>1. Decodes(CryptoCodes) /\ vm' = CryptoOp(Paid, Op, Gas) /\ UNCHANGED host
    BY <1>10 DEF ExecCrypto
  <2>2. Follows(Paid, vm')
    BY <2>1, PaidFollows, CryptoFollows
  <2> QED
    BY <2>1, <2>2, InstructionGoesOn DEF CryptoCodes
<1>11. CASE ExecHalt
  <2>1. Decodes({"HALT"}) /\ vm' = Stop(Paid, "true") /\ UNCHANGED host
    BY <1>11 DEF ExecHalt
  <2>2. Paid \in Machines /\ Paid \in MachineTypes /\ "true" \in Statuses
    BY <2>1, PaidFollows, MachineIs DEF Statuses
  <2>3. Follows(Paid, vm')
    BY <2>1, <2>2, StopFollows
  <2>4. ~Running(vm')
    BY <2>1, <2>2 DEF Stop, Running, MachineTypes
  <2> QED
    BY <2>1, <2>3, <2>4 DEF Follows
<1>12. CASE ExecErrHalt
  <2>1. Decodes({"ERRHALT"}) /\ vm' = Fail(Paid) /\ UNCHANGED host
    BY <1>12 DEF ExecErrHalt
  <2>2. Paid \in Machines /\ Paid \in MachineTypes
    BY <2>1, PaidFollows, MachineIs
  <2>3. Follows(Paid, vm')
    BY <2>1, <2>2, FailFollows
  <2>4. ~Running(vm')
    BY <2>1, <2>2 DEF Fail, Running, MachineTypes
  <2> QED
    BY <2>1, <2>3, <2>4 DEF Follows
<1>13. CASE ExecStops
  <2>1. vm' = Fail(vm) /\ UNCHANGED host
    BY <1>13 DEF ExecStops
  <2>2. vm \in Machines /\ vm \in MachineTypes
    BY MachineIs DEF Inv
  <2>3. Follows(vm, vm')
    BY <2>1, <2>2, FailFollows
  <2>4. ~Running(vm')
    BY <2>1, <2>2 DEF Fail, Running, MachineTypes
  <2> QED
    BY <2>1, <2>3, <2>4 DEF Follows
<1> QED
  BY <1>1, <1>2, <1>3, <1>4, <1>5, <1>6, <1>7, <1>8, <1>9, <1>10, <1>11, <1>12, <1>13 DEF Exec

(* An accepted call writes its changes in the order they were made.         *)
writeStep(p, v, c) == [v EXCEPT ![c.index + 1] = c.value]
Writing == INSTANCE FoldFacts WITH step <- writeStep, X <- Seq(ByteSeq), Y <- Changes

LEMMA WriteType ==
    ASSUME NEW v \in Seq(ByteSeq), NEW c \in Changes, NEW p
    PROVE  writeStep(p, v, c) \in Seq(ByteSeq) /\ Len(writeStep(p, v, c)) = Len(v)
<1> DEFINE n == Len(v)
           f == writeStep(p, v, c)
<1>1. /\ n \in Nat /\ v = [k \in 1 .. n |-> v[k]] /\ \A k \in 1 .. n : v[k] \in ByteSeq
      /\ c.index \in Nat /\ c.value \in ByteSeq
  BY DEF Changes
<1>2. /\ f = [k \in 1 .. n |-> f[k]]
      /\ \A k \in 1 .. n : f[k] = IF k = c.index + 1 THEN c.value ELSE v[k]
  BY <1>1 DEF writeStep
<1> HIDE DEF f, n
<1>3. \A k \in 1 .. n : f[k] \in ByteSeq
  BY <1>1, <1>2
<1>4. f \in Seq(ByteSeq) /\ Len(f) = n
  BY <1>1, <1>2, <1>3, FunctionIsSeq
<1> QED
  BY <1>4 DEF f, n

LEMMA PersistIs ==
    ASSUME NEW cv \in Seq(ByteSeq), NEW changes \in Seq(Changes)
    PROVE  /\ PersistChanges(cv, changes) = Writing!Folded(0, cv, changes)
           /\ Writing!Runs(0, cv, changes)
           /\ PersistChanges(cv, changes) \in Seq(ByteSeq)
<1>1. PersistChanges(cv, changes) = Writing!Folded(0, cv, changes)
  BY Zenon DEF PersistChanges, writeStep, FoldLeft, MapThenFoldSet, Max,
               Writing!Folded, Writing!MapThenFoldSet, Writing!Largest
<1>2. Writing!Runs(0, cv, changes)
  BY WriteType, Writing!FoldRuns
<1>3. Writing!Folded(0, cv, changes) \in Seq(ByteSeq)
  BY <1>2 DEF Writing!Runs
<1> QED
  BY <1>1, <1>2, <1>3, Zenon

LEMMA InvNext == Inv /\ [Next]_vars => Inv'
<1> SUFFICES ASSUME Inv, [Next]_vars PROVE Inv'
  OBVIOUS
<1>1. ASSUME NEW t \in Calls, Call(t) PROVE Inv'
  <2>1. t.Data \in ByteSeq /\ t.Fee \in Nat
    BY VMAssumption
  <2>2. vm' \in Machines
    BY <1>1, <2>1, NewVMType DEF Call, Inv
  <2>3. ncalls' \in 0 .. MaxCalls
    BY <1>1, VMAssumption DEF Call, Inv
  <2> QED
    BY <1>1, <2>2, <2>3 DEF Call, Inv
<1>2. CASE Exec
  BY <1>2, ExecFollows DEF Inv, host
<1>3. CASE Accept
  <2>1. vm.changes \in Seq(Changes) /\ Code(vm) \in ByteSeq
    BY MachineIs, CodeType DEF Inv
  <2>2. contractVariables' \in Seq(ByteSeq)
    BY <1>3, <2>1, PersistIs DEF Accept, Inv
  <2>3. vm' \in Machines
    BY <1>3, NewVMType, NoBytes DEF Accept
  <2>4. prepared' \in Seq(Calls)
    BY <1>3 DEF Accept, Inv
  <2> QED
    BY <1>3, <2>1, <2>2, <2>3, <2>4 DEF Accept, Inv
<1>4. CASE Refuse
  <2>1. Code(vm) \in ByteSeq
    BY CodeType DEF Inv
  <2>2. vm' \in Machines
    BY <1>4, NewVMType, NoBytes DEF Refuse
  <2> QED
    BY <1>4, <2>1, <2>2 DEF Refuse, Inv
<1>5. CASE ValidateBlock
  <2>1. balance' \in Nat /\ prepared' \in Seq(Calls)
    BY <1>5, BalanceType DEF ValidateBlock, Inv
  <2> QED
    BY <1>5, <2>1 DEF ValidateBlock, Inv
<1>6. CASE AbandonBlock
  BY <1>6 DEF AbandonBlock, Inv
<1>7. CASE UNCHANGED vars
  BY <1>7 DEF vars, Inv
<1> QED
  BY <1>1, <1>2, <1>3, <1>4, <1>5, <1>6, <1>7 DEF Next

LEMMA VMInvariant == Spec => []Inv
<1> QED
  BY InvInit, InvNext, PTL DEF Spec

-----------------------------------------------------------------------------
(* The machine stays typed whatever contract and call data it executes:     *)
(* every element of the stack is a window into an allocated array, the      *)
(* program counter and the gas are natural numbers, and the contract and    *)
(* its variables stay sequences of bytes (vm.go: Exec).                     *)
THEOREM VMTypes == Spec => []TypeOK
<1>1. Inv => TypeOK
  <2> SUFFICES ASSUME Inv PROVE TypeOK
    OBVIOUS
  <2>1. /\ vm \in MachineTypes /\ vm.heap \in Heaps /\ vm.stack \in Seq(Slices)
        /\ vm.pc \in Nat /\ vm.fee \in Nat /\ vm.memoryUsage \in Nat
        /\ vm.callStack \in Seq(Frames) /\ vm.status \in Statuses
        /\ \A i \in 1 .. Len(vm.stack) : vm.stack[i] \in Windows(vm.heap)
    BY MachineIs DEF Inv
  <2>2. \A i \in DOMAIN vm.heap : vm.heap[i] \in ByteSeq
    BY <2>1 DEF Heaps
  <2>3. ASSUME NEW i \in DOMAIN vm.stack
        PROVE  LET s == vm.stack[i]
               IN  s.arr \in DOMAIN vm.heap /\ s.off >= 0 /\ s.len \in 0 .. Cap(vm, s)
    <3> DEFINE s == vm.stack[i]
    <3>0. i \in 1 .. Len(vm.stack)
      BY <2>1
    <3>1. s \in Windows(vm.heap) /\ vm \in Machines
      BY <2>1, <3>0 DEF Inv
    <3> HIDE DEF s
    <3>2. s.off \in Nat /\ s.len \in Nat /\ s.arr \in 1 .. Len(vm.heap)
      BY <3>1, WindowIs
    <3>3. Cap(vm, s) \in Nat /\ s.len <= Cap(vm, s)
      BY <3>1, CapType
    <3>4. DOMAIN vm.heap = 1 .. Len(vm.heap)
      BY <2>1, HeapIs
    <3> QED
      BY <3>2, <3>3, <3>4 DEF s
  <2>4. ASSUME NEW i \in DOMAIN vm.callStack PROVE vm.callStack[i].returnAddress \in Nat
    <3>1. vm.callStack[i] \in Frames
      BY <2>1
    <3> QED
      BY <3>1 DEF Frames
  <2>5. \A i \in DOMAIN contractVariables : contractVariables[i] \in ByteSeq
    BY DEF Inv
  <2> QED
    BY <2>1, <2>2, <2>3, <2>4, <2>5 DEF TypeOK, Inv, Statuses
<1> QED
  BY <1>1, VMInvariant, PTL

(* The memory counter of the evaluation stack is exact and never above the  *)
(* maximum, also when a push fails for want of memory after its operands    *)
(* were popped, or its error is dropped (stack.go: Push, PopIndexAt).       *)
THEOREM VMMemory == Spec => []MemoryAccounted
<1>1. Inv => MemoryAccounted
  <2> SUFFICES ASSUME Inv PROVE MemoryAccounted
    OBVIOUS
  <2>1. vm.memoryUsage = Used(vm.stack) /\ vm.memoryUsage <= MemoryMax
    BY MachineIs DEF Inv
  <2>2. Used(vm.stack) = FoldLeft(LAMBDA n, s : n + s.len, 0, vm.stack)
    BY Zenon DEF Used, memoryStep, FoldLeft, MapThenFoldSet, Max,
                 Footprint!Folded, Footprint!MapThenFoldSet, Footprint!Largest
  <2>3. vm.memoryUsage = FoldLeft(LAMBDA n, s : n + s.len, 0, vm.stack)
    BY <2>1, <2>2, Zenon
  <2> QED
    BY <2>1, <2>3, Zenon DEF MemoryAccounted
<1> QED
  BY <1>1, VMInvariant, PTL

(* Every instruction the machine goes on after leaves less gas than before: *)
(* a call of fee f executes at most f + 1 instructions, with whatever       *)
(* jumps, calls and returns (Exec: "Infinite Loop until return called").    *)
THEOREM VMGasSpent == Spec => [][Running(vm) /\ Running(vm') => vm'.fee < vm.fee]_vars
<1>1. Inv /\ [Next]_vars => [Running(vm) /\ Running(vm') => vm'.fee < vm.fee]_vars
  <2> SUFFICES ASSUME Inv, Next, Running(vm), Running(vm') PROVE vm'.fee < vm.fee
    BY DEF vars
  <2>1. CASE Exec
    BY <2>1, ExecFollows
  <2>2. ~(\E t \in Calls : Call(t)) /\ ~ValidateBlock /\ ~AbandonBlock
    BY DEF Call, ValidateBlock, AbandonBlock, Idle, Running
  <2>3. ~Accept /\ ~Refuse
    BY DEF Accept, Refuse, Running
  <2> QED
    BY <2>1, <2>2, <2>3 DEF Next
<1> QED
  BY <1>1, VMInvariant, PTL DEF Spec

LEMMA PersistLength ==
    ASSUME NEW cv \in Seq(ByteSeq), NEW changes \in Seq(Changes)
    PROVE  Len(PersistChanges(cv, changes)) = Len(cv)
<1> DEFINE n == Len(changes)
<1>1. n \in Nat /\ \A k \in 1 .. n : changes[k] \in Changes
  OBVIOUS
<1>2. PICK r \in [0 .. n -> Seq(ByteSeq)] :
         /\ r[0] = cv
         /\ r[n] = Writing!Folded(0, cv, changes)
         /\ \A k \in 1 .. n : r[k] = writeStep(0, r[k - 1], changes[k])
  BY PersistIs DEF Writing!Runs
<1>3. PersistChanges(cv, changes) = r[n]
  BY <1>2, PersistIs
<1> HIDE DEF n
<1> DEFINE G == {k \in 0 .. n : Len(r[k]) = Len(cv)}
<1>4. 0 \in G
  BY <1>1, <1>2
<1>5. ASSUME NEW k \in 1 .. n, k - 1 \in G PROVE k \in G
  <2>1. r[k - 1] \in Seq(ByteSeq) /\ Len(r[k - 1]) = Len(cv) /\ k \in 0 .. n
    BY <1>1, <1>2, <1>5
  <2> DEFINE u == r[k - 1]
             c == changes[k]
  <2>2. r[k] = writeStep(0, u, c) /\ c \in Changes
    BY <1>1, <1>2
  <2>3. u \in Seq(ByteSeq)
    BY <2>1
  <2> HIDE DEF u, c
  <2>4. Len(r[k]) = Len(u)
    BY <2>2, <2>3, WriteType
  <2> QED
    BY <2>1, <2>4 DEF u
<1> HIDE DEF G
<1>6. \A k \in 0 .. n : k \in G
  BY <1>1, <1>4, <1>5, Writing!Reaches
<1>7. n \in G
  BY <1>1, <1>6
<1> QED
  BY <1>3, <1>7 DEF G

LEMMA LastWriteStays ==
    ASSUME NEW cv \in Seq(ByteSeq), NEW changes \in Seq(Changes), NEW i \in 1 .. Len(cv)
    PROVE  LET at == {k \in DOMAIN changes : changes[k].index = i - 1}
               v == PersistChanges(cv, changes)
           IN  /\ v \in Seq(ByteSeq) /\ Len(v) = Len(cv)
               /\ v[i] = IF at = {} THEN cv[i] ELSE changes[Max(at)].value
<1> DEFINE n == Len(changes)
           at == {k \in DOMAIN changes : changes[k].index = i - 1}
           v == PersistChanges(cv, changes)
           last == Max(at)
<1>1. n \in Nat /\ DOMAIN changes = 1 .. n /\ \A k \in 1 .. n : changes[k] \in Changes
  OBVIOUS
<1>2. \A k \in 1 .. n : changes[k].index \in Nat /\ changes[k].value \in ByteSeq
  BY <1>1 DEF Changes
<1>3. PICK r \in [0 .. n -> Seq(ByteSeq)] :
         /\ r[0] = cv
         /\ r[n] = Writing!Folded(0, cv, changes)
         /\ \A k \in 1 .. n : r[k] = writeStep(0, r[k - 1], changes[k])
  BY PersistIs DEF Writing!Runs
<1>4. v = r[n]
  BY <1>3, PersistIs
<1> HIDE DEF v
<1>5. ASSUME NEW k \in 1 .. n
      PROVE  /\ r[k - 1] \in Seq(ByteSeq) /\ Len(r[k]) = Len(r[k - 1])
             /\ i \in 1 .. Len(r[k - 1]) =>
                   r[k][i] = IF k \in at THEN changes[k].value ELSE r[k - 1][i]
  <2> DEFINE u == r[k - 1]
  <2>0. k - 1 \in 0 .. n
    BY <1>1
  <2>5. u \in Seq(ByteSeq)
    BY <1>3, <2>0
  <2>6. r[k] = writeStep(0, u, changes[k]) /\ changes[k] \in Changes
    BY <1>1, <1>3
  <2>1. u \in Seq(ByteSeq) /\ r[k] = writeStep(0, u, changes[k]) /\ changes[k] \in Changes
    BY <2>5, <2>6
  <2> HIDE DEF u
  <2>2. Len(r[k]) = Len(u)
    BY <2>1, WriteType
  <2>3. i \in 1 .. Len(u) => r[k][i] = IF i = changes[k].index + 1 THEN changes[k].value ELSE u[i]
    BY <2>1 DEF writeStep
  <2>4. i = changes[k].index + 1 <=> k \in at
    BY <1>1, <1>2
  <2> QED
    BY <2>1, <2>2, <2>3, <2>4 DEF u
<1> HIDE DEF n
<1> DEFINE G == {k \in 0 .. n : Len(r[k]) = Len(cv)}
<1>6. \A k \in 0 .. n : k \in G
  <2>1. 0 \in G
    BY <1>1, <1>3
  <2>2. \A k \in 1 .. n : k - 1 \in G => k \in G
    BY <1>1, <1>5
  <2> HIDE DEF G
  <2> QED
    BY <1>1, <2>1, <2>2, Writing!Reaches
<1>7. \A k \in 0 .. n : Len(r[k]) = Len(cv)
  BY <1>6
<1> HIDE DEF G
<1>8. \A k \in 1 .. n : r[k][i] = IF k \in at THEN changes[k].value ELSE r[k - 1][i]
  <2> SUFFICES ASSUME NEW k \in 1 .. n
               PROVE  r[k][i] = IF k \in at THEN changes[k].value ELSE r[k - 1][i]
    OBVIOUS
  <2>1. k - 1 \in 0 .. n
    BY <1>1
  <2>2. i \in 1 .. Len(r[k - 1])
    BY <1>7, <2>1
  <2> QED
    BY <1>5, <2>2
<1>9. v \in Seq(ByteSeq) /\ Len(v) = Len(cv)
  <2>1. n \in 0 .. n
    BY <1>1
  <2> QED
    BY <1>3, <1>4, <1>7, <2>1
<1>10. CASE at = {}
  <2> DEFINE H == {k \in 0 .. n : r[k][i] = cv[i]}
  <2>1. 0 \in H
    BY <1>1, <1>3
  <2> HIDE DEF at
  <2>2. ASSUME NEW k \in 1 .. n, k - 1 \in H PROVE k \in H
    <3>1. k \notin at /\ k \in 0 .. n /\ r[k - 1][i] = cv[i]
      BY <1>1, <1>10, <2>2
    <3>2. r[k][i] = r[k - 1][i]
      BY <1>8, <3>1
    <3> QED
      BY <3>1, <3>2
  <2> HIDE DEF H
  <2>3. n \in H
    <3>1. \A k \in 0 .. n : k \in H
      BY <1>1, <2>1, <2>2, Writing!Reaches
    <3> QED
      BY <1>1, <3>1
  <2> QED
    BY <1>4, <1>9, <1>10, <2>3 DEF H, v, at
<1>11. CASE at # {}
  <2>1. last \in at /\ \A y \in at : last >= y
    <3>1. at \in SUBSET (1 .. n)
      BY <1>1
    <3>2. last = Writing!Largest(at)
      BY Zenon DEF Max, Writing!Largest
    <3> HIDE DEF at, last
    <3> QED
      BY <1>1, <1>11, <3>1, <3>2, Writing!MaxUpTo
  <2>2. last \in 1 .. n
    BY <1>1, <2>1
  <2> DEFINE H == {k \in 0 .. n : k >= last => r[k][i] = changes[last].value}
  <2> HIDE DEF last, at
  <2>3. 0 \in H
    BY <1>1, <2>2
  <2>4. ASSUME NEW k \in 1 .. n, k - 1 \in H PROVE k \in H
    <3>1. CASE k < last
      BY <1>1, <2>2, <3>1
    <3>2. CASE k = last
      BY <1>1, <1>8, <2>1, <2>2, <3>2
    <3>3. CASE k > last
      <4>1. k \notin at
        BY <1>1, <2>1, <2>2, <3>3
      <4>2. k - 1 >= last /\ r[k - 1][i] = changes[last].value
        BY <1>1, <2>2, <2>4, <3>3
      <4> QED
        BY <1>8, <4>1, <4>2
    <3> QED
      BY <1>1, <2>2, <3>1, <3>2, <3>3
  <2> HIDE DEF H
  <2>5. n \in H
    <3>1. \A k \in 0 .. n : k \in H
      BY <1>1, <2>3, <2>4, Writing!Reaches
    <3> QED
      BY <1>1, <3>1
  <2>6. v[i] = changes[last].value
    BY <1>1, <1>4, <2>2, <2>5 DEF H
  <2> QED
    BY <1>9, <1>11, <2>6 DEF v, last, at
<1> QED
  BY <1>10, <1>11

(* An accepted call leaves in every variable the value it stored last, and  *)
(* no other step touches a variable: not an instruction, a refused call, a  *)
(* validated or an abandoned block (vm_context.go: PersistChanges).         *)
THEOREM VMStores == Spec => CallIsAtomic
<1> DEFINE Stored == /\ Len(contractVariables') = Len(contractVariables)
                     /\ \A i \in DOMAIN contractVariables : contractVariables'[i] = LastStored(i)
<1>1. Inv /\ [Next]_vars => [Stored]_vars
  <2> SUFFICES ASSUME Inv, Next PROVE Stored
    BY DEF vars
  <2>1. CASE Accept
    <3>1. /\ contractVariables' = PersistChanges(contractVariables, vm.changes)
          /\ vm.status = "true" /\ vm.changes \in Seq(Changes)
          /\ contractVariables \in Seq(ByteSeq)
      BY <2>1, MachineIs DEF Accept, Inv
    <3>2. ASSUME NEW i \in DOMAIN contractVariables
          PROVE  contractVariables'[i] = LastStored(i)
      <4>1. i \in 1 .. Len(contractVariables)
        BY <3>1
      <4> QED
        BY <3>1, <4>1, LastWriteStays DEF LastStored
    <3>3. Len(contractVariables') = Len(contractVariables)
      BY <3>1, PersistLength
    <3> QED
      BY <3>2, <3>3
  <2>2. CASE ~Accept
    <3>1. contractVariables' = contractVariables /\ vm.status # "true"
      <4>1. CASE Exec
        <5>1. UNCHANGED host
          BY <4>1, ExecFollows
        <5>2. Running(vm)
          BY <4>1 DEF Exec, ExecStack, ExecArithmetic, ExecCompare, ExecUnary, ExecJump,
                      ExecVariable, ExecContext, ExecMap, ExecArray, ExecCrypto, ExecHalt,
                      ExecErrHalt, ExecStops, Decodes
        <5> QED
          BY <5>1, <5>2 DEF host, Running
      <4>2. CASE ~Exec
        BY <2>2, <4>2 DEF Next, Call, Refuse, ValidateBlock, AbandonBlock, Idle
      <4> QED
        BY <4>1, <4>2
    <3>2. \A i \in DOMAIN contractVariables : LastStored(i) = contractVariables[i]
      BY <3>1 DEF LastStored
    <3> QED
      BY <3>1, <3>2
  <2> QED
    BY <2>1, <2>2
<1> QED
  BY <1>1, VMInvariant, PTL DEF Spec, CallIsAtomic
=============================================================================
