---------------------------- MODULE LedgerProofs ----------------------------
(***************************************************************************)
(* Theorems about Ledger for every set of accounts and transactions:       *)
(* whatever blocks the miners prepare, validate and roll back, until one   *)
(* of the steps recorded in flaws happens, accounts keep their types and   *)
(* their counters, no nil account is dereferenced and a rollback restores  *)
(* what was there before the block.                                        *)
(*                                                                         *)
(* Every loop of the block validation is a fold; FoldFacts is instantiated *)
(* for each.  The first part is about one block and its undo, the second   *)
(* about the chain as a state machine.                                     *)
(***************************************************************************)
EXTENDS Ledger, FiniteSetTheorems, SequenceTheorems, TLAPS

-----------------------------------------------------------------------------
(* Balances wrap at Wrap, which makes them a group: what is added modulo   *)
(* Wrap in several steps is added in one.                                  *)
LEMMA WrapPositive == Wrap \in Nat /\ Wrap > 0 /\ MaxMoney \in Nat /\ MaxMoney < Wrap
BY LedgerAssumption

LEMMA Division ==
    ASSUME NEW w \in Int, w > 0, NEW x \in Int
    PROVE  /\ x \div w \in Int /\ x % w \in 0 .. w - 1
           /\ x = (x \div w) * w + (x % w)
<1>1. x \div w \in Int
  OBVIOUS
<1>2. x % w \in 0 .. w - 1
  OBVIOUS
<1>3. x = (x \div w) * w + (x % w)
  OBVIOUS
<1> QED
  BY <1>1, <1>2, <1>3, Zenon

LEMMA RemainderUnique ==
    ASSUME NEW w \in Nat, w > 0, NEW q \in Int, NEW r \in 0 .. w - 1
    PROVE  (w * q + r) % w = r
<1> DEFINE x == w * q + r
           k == x \div w
           s == x % w
<1>1. x \in Int /\ k \in Int /\ s \in 0 .. w - 1 /\ x = k * w + s
  <2>1. w \in Int /\ x \in Int
    OBVIOUS
  <2> HIDE DEF x
  <2> QED
    BY <2>1, Division, Zenon
<1> HIDE DEF k, s
<1>2. w * (q - k) = s - r
  BY <1>1
<1>3. q - k = 0
  <2> DEFINE z == q - k
  <2>1. z \in Int /\ w * z = s - r /\ s - r < w /\ s - r > -w
    BY <1>1, <1>2
  <2> HIDE DEF z
  <2>2. ~(z >= 1)
    <3> SUFFICES ASSUME z >= 1 PROVE FALSE
      OBVIOUS
    <3>1. w * z >= w
      BY <2>1
    <3> QED
      BY <3>1, <2>1, <1>1
  <2>3. ~(z <= -1)
    <3> SUFFICES ASSUME z <= -1 PROVE FALSE
      OBVIOUS
    <3>1. w * z <= -w
      BY <2>1
    <3> QED
      BY <3>1, <2>1, <1>1
  <2> QED
    BY <2>1, <2>2, <2>3 DEF z
<1>4. s = r
  BY <1>1, <1>3
<1> QED
  BY <1>4 DEF s

LEMMA RemainderAdds ==
    ASSUME NEW w \in Nat, w > 0, NEW x \in Int, NEW y \in Int
    PROVE  ((x % w) + y) % w = (x + y) % w
<1> DEFINE q == x \div w
           r == x % w
           p == (r + y) \div w
           s == (r + y) % w
<1>0. w \in Int
  OBVIOUS
<1>1. q \in Int /\ r \in 0 .. w - 1 /\ x = q * w + r
  BY <1>0, Division, Zenon
<1> HIDE DEF q, r
<1>2. p \in Int /\ s \in 0 .. w - 1 /\ r + y = p * w + s
  <2>1. r + y \in Int
    BY <1>1
  <2> QED
    BY <1>0, <2>1, Division, Zenon
<1> HIDE DEF p, s
<1>3. x + y = w * (q + p) + s
  BY <1>1, <1>2
<1>4. (w * (q + p) + s) % w = s
  BY <1>1, <1>2, RemainderUnique
<1> QED
  BY <1>3, <1>4 DEF s, r

LEMMA RemainderSmall ==
    ASSUME NEW w \in Nat, w > 0, NEW x \in 0 .. w - 1
    PROVE  x % w = x
<1>1. (w * 0 + x) % w = x
  BY RemainderUnique
<1> QED
  BY <1>1

-----------------------------------------------------------------------------
(* Sums over sequences of transactions.                                    *)
sumStep(d, x, t) == x + d[t]
Summing == INSTANCE FoldFacts WITH step <- sumStep, X <- Int, Y <- Tx
Sum(d, txs) == Summing!Folded(d, 0, txs)

Weight == [Tx -> Int]

PartialSums(d, txs) ==
    CHOOSE r \in [0 .. Len(txs) -> Int] :
        /\ r[0] = 0
        /\ r[Len(txs)] = Sum(d, txs)
        /\ \A k \in 1 .. Len(txs) : r[k] = r[k - 1] + d[txs[k]]

LEMMA SumRuns ==
    ASSUME NEW d \in Weight, NEW txs \in Seq(Tx)
    PROVE  /\ PartialSums(d, txs) \in [0 .. Len(txs) -> Int]
           /\ PartialSums(d, txs)[0] = 0
           /\ PartialSums(d, txs)[Len(txs)] = Sum(d, txs)
           /\ \A k \in 1 .. Len(txs) :
                 PartialSums(d, txs)[k] = PartialSums(d, txs)[k - 1] + d[txs[k]]
           /\ Sum(d, txs) \in Int
<1>1. \A x \in Int, t \in Tx : sumStep(d, x, t) \in Int
  BY DEF Weight, sumStep
<1>2. Summing!Runs(d, 0, txs)
  BY <1>1, Summing!FoldRuns
<1>3. \E r \in [0 .. Len(txs) -> Int] :
        /\ r[0] = 0
        /\ r[Len(txs)] = Sum(d, txs)
        /\ \A k \in 1 .. Len(txs) : r[k] = r[k - 1] + d[txs[k]]
  BY <1>2 DEF Summing!Runs, Sum, sumStep
<1>4. /\ PartialSums(d, txs) \in [0 .. Len(txs) -> Int]
      /\ PartialSums(d, txs)[0] = 0
      /\ PartialSums(d, txs)[Len(txs)] = Sum(d, txs)
      /\ \A k \in 1 .. Len(txs) :
            PartialSums(d, txs)[k] = PartialSums(d, txs)[k - 1] + d[txs[k]]
  BY <1>3 DEF PartialSums
<1> QED
  BY <1>4

(* Whatever runs like the sum is the sum.                                  *)
LEMMA SumUnique ==
    ASSUME NEW d \in Weight, NEW txs \in Seq(Tx), NEW r, r[0] = 0,
           \A k \in 1 .. Len(txs) : r[k] = r[k - 1] + d[txs[k]]
    PROVE  Sum(d, txs) = r[Len(txs)]
<1> DEFINE q == PartialSums(d, txs)
           G == {k \in 0 .. Len(txs) : r[k] = q[k]}
<1>0. Len(txs) \in Nat
  OBVIOUS
<1>1. 0 \in G
  BY <1>0, SumRuns
<1>2. ASSUME NEW k \in 1 .. Len(txs), k - 1 \in G PROVE k \in G
  BY <1>0, <1>2, SumRuns
<1> HIDE DEF G
<1>3. \A k \in 0 .. Len(txs) : k \in G
  BY <1>0, <1>1, <1>2, Summing!Reaches
<1>4. Len(txs) \in G
  BY <1>0, <1>3
<1> QED
  BY <1>4, SumRuns DEF G

LEMMA SumConcat ==
    ASSUME NEW d \in Weight, NEW s \in Seq(Tx), NEW t \in Seq(Tx)
    PROVE  Sum(d, s \o t) = Sum(d, s) + Sum(d, t)
<1> DEFINE p == PartialSums(d, s)
           q == PartialSums(d, t)
           m == Len(s)
           n == Len(t)
           r == [k \in 0 .. m + n |-> IF k <= m THEN p[k] ELSE p[m] + q[k - m]]
<1>1. m \in Nat /\ n \in Nat /\ s \o t \in Seq(Tx) /\ Len(s \o t) = m + n
  OBVIOUS
<1>2. \A k \in 1 .. m + n : (s \o t)[k] = IF k <= m THEN s[k] ELSE t[k - m]
  BY <1>1
<1>3. p \in [0 .. m -> Int] /\ q \in [0 .. n -> Int] /\ p[0] = 0 /\ q[0] = 0
      /\ p[m] = Sum(d, s) /\ q[n] = Sum(d, t)
  BY SumRuns
<1>4. \A k \in 1 .. m : p[k] = p[k - 1] + d[s[k]]
  BY SumRuns
<1>5. \A k \in 1 .. n : q[k] = q[k - 1] + d[t[k]]
  BY SumRuns
<1>6. \A k \in 1 .. n : d[t[k]] \in Int
  BY <1>1 DEF Weight
<1> HIDE DEF p, q
<1>7. ASSUME NEW k \in 1 .. m + n PROVE r[k] = r[k - 1] + d[(s \o t)[k]]
  <2>1. CASE k <= m
    BY <2>1, <1>1, <1>2, <1>3, <1>4
  <2>2. CASE k > m
    <3>1. k - m \in 1 .. n /\ (s \o t)[k] = t[k - m]
      BY <2>2, <1>1, <1>2
    <3>2. q[k - m] = q[k - m - 1] + d[t[k - m]]
      BY <3>1, <1>5
    <3>3. r[k] = p[m] + q[k - m]
      BY <2>2, <1>1
    <3>4. r[k - 1] = p[m] + q[k - m - 1]
      <4>1. CASE k - 1 = m
        <5>1. k - m - 1 = 0 /\ k - 1 <= m /\ k - 1 \in 0 .. m + n /\ p[m] \in Int
          BY <4>1, <1>1, <1>3
        <5>2. r[k - 1] = p[m]
          BY <5>1, <4>1
        <5> QED
          BY <5>1, <5>2, <1>3
      <4>2. CASE k - 1 > m
        <5>1. k - 1 \in 0 .. m + n /\ k - 1 - m = k - m - 1
          BY <1>1
        <5> QED
          BY <5>1, <4>2, <1>1
      <4> QED
        BY <4>1, <4>2, <2>2, <1>1
    <3>5. q[k - m - 1] \in Int /\ p[m] \in Int
      <4>1. k - m - 1 \in 0 .. n /\ m \in 0 .. m
        BY <3>1, <1>1
      <4> QED
        BY <4>1, <1>3
    <3>6. d[t[k - m]] \in Int
      BY <3>1, <1>6
    <3> HIDE DEF r
    <3> QED
      <4>1. \A x, y, z \in Int : x + (y + z) = (x + y) + z
        OBVIOUS
      <4>2. (s \o t)[k] = t[k - m]
        BY <3>1
      <4> QED
        <5>1. r[k] = p[m] + (q[k - m - 1] + d[t[k - m]])
          BY <3>2, <3>3, Zenon
        <5>2. r[k] = (p[m] + q[k - m - 1]) + d[t[k - m]]
          BY <5>1, <4>1, <3>5, <3>6, Zenon
        <5> QED
          BY <5>2, <3>4, <4>2, Zenon
  <2> QED
    BY <2>1, <2>2, <1>1
<1>8. r[0] = 0
  BY <1>1, <1>3
<1>9. r[m + n] = p[m] + q[n]
  <2>1. m \in 0 .. m + n /\ m + n \in 0 .. m + n /\ (m + n) - m = n /\ m + n >= m
    BY <1>1
  <2> QED
    BY <1>1, <1>3, <2>1
<1> HIDE DEF r
<1> QED
  BY <1>1, <1>3, <1>7, <1>8, <1>9, SumUnique

LEMMA SumReverse ==
    ASSUME NEW d \in Weight, NEW s \in Seq(Tx)
    PROVE  Sum(d, Reverse(s)) = Sum(d, s)
<1> DEFINE p == PartialSums(d, s)
           n == Len(s)
           r == [k \in 0 .. n |-> p[n] - p[n - k]]
<1>1. n \in Nat /\ Reverse(s) \in Seq(Tx) /\ Len(Reverse(s)) = n
  BY DEF Reverse
<1>2. \A k \in 1 .. n : Reverse(s)[k] = s[n - k + 1]
  BY DEF Reverse
<1>3. p \in [0 .. n -> Int] /\ p[0] = 0 /\ p[n] = Sum(d, s)
  BY SumRuns
<1>4. \A k \in 1 .. n : p[k] = p[k - 1] + d[s[k]]
  BY SumRuns
<1>5. \A k \in 1 .. n : d[s[k]] \in Int
  BY <1>1 DEF Weight
<1> HIDE DEF p
<1>6. ASSUME NEW k \in 1 .. n PROVE r[k] = r[k - 1] + d[Reverse(s)[k]]
  <2>1. n - k + 1 \in 1 .. n /\ n - k + 1 - 1 = n - k /\ n - (k - 1) = n - k + 1
    BY <1>1
  <2>2. p[n - k + 1] = p[n - k] + d[s[n - k + 1]]
    BY <2>1, <1>4
  <2>3. r[k] = p[n] - p[n - k] /\ r[k - 1] = p[n] - p[n - k + 1]
    BY <2>1, <1>1
  <2>4. p[n] \in Int /\ p[n - k] \in Int /\ p[n - k + 1] \in Int
    <3>1. n \in 0 .. n /\ n - k \in 0 .. n /\ n - k + 1 \in 0 .. n
      BY <2>1, <1>1
    <3> QED
      BY ONLY <3>1, <1>3
  <2>5. d[s[n - k + 1]] \in Int
    BY <2>1, <1>5
  <2>6. Reverse(s)[k] = s[n - k + 1]
    BY <1>2
  <2> HIDE DEF r, n
  <2> QED
    BY <2>2, <2>3, <2>4, <2>5, <2>6
<1>7. r[0] = 0 /\ r[n] = p[n]
  BY <1>1, <1>3
<1> HIDE DEF r
<1> QED
  BY <1>1, <1>3, <1>6, <1>7, SumUnique

(* Negated weights, for the loops that undo.                               *)
Minus(d) == [t \in Tx |-> 0 - d[t]]

LEMMA SumMinus ==
    ASSUME NEW d \in Weight, NEW txs \in Seq(Tx)
    PROVE  Minus(d) \in Weight /\ Sum(Minus(d), txs) = 0 - Sum(d, txs)
<1> DEFINE p == PartialSums(d, txs)
           n == Len(txs)
           r == [k \in 0 .. n |-> 0 - p[k]]
<1>1. n \in Nat /\ \A k \in 1 .. n : txs[k] \in Tx
  OBVIOUS
<1>2. Minus(d) \in Weight /\ \A t \in Tx : Minus(d)[t] = 0 - d[t] /\ d[t] \in Int
  BY DEF Minus, Weight
<1>3. /\ p \in [0 .. n -> Int] /\ p[0] = 0 /\ p[n] = Sum(d, txs)
      /\ \A k \in 1 .. n : p[k] = p[k - 1] + d[txs[k]]
  BY SumRuns
<1> HIDE DEF p
<1>4. r[0] = 0 /\ r[n] = 0 - Sum(d, txs)
  BY <1>1, <1>3
<1>5. ASSUME NEW k \in 1 .. n PROVE r[k] = r[k - 1] + Minus(d)[txs[k]]
  <2>1. p[k] = p[k - 1] + d[txs[k]] /\ p[k] \in Int /\ p[k - 1] \in Int
        /\ r[k] = 0 - p[k] /\ r[k - 1] = 0 - p[k - 1]
    BY <1>1, <1>3
  <2>2. Minus(d)[txs[k]] = 0 - d[txs[k]] /\ d[txs[k]] \in Int
    BY <1>1, <1>2
  <2>3. \A x, y \in Int : 0 - (x + y) = (0 - x) + (0 - y)
    OBVIOUS
  <2> HIDE DEF r
  <2> QED
    BY <2>1, <2>2, <2>3, Zenon
<1> HIDE DEF r
<1> QED
  BY <1>1, <1>2, <1>4, <1>5, SumUnique

-----------------------------------------------------------------------------
(* What a rollback restores of an account: its balance, a number modulo    *)
(* Wrap, its counter, a number, and whether it is a validator, a number    *)
(* modulo 2.                                                               *)
Slot == Account \X {"bal", "cnt", "staking"}

Red(i, n) == IF i[2] = "bal" THEN n % Wrap ELSE IF i[2] = "cnt" THEN n ELSE n % 2

Val(s, i) == IF i[2] = "bal" THEN s.acc[i[1]].bal
             ELSE IF i[2] = "cnt" THEN s.acc[i[1]].cnt
             ELSE IF s.acc[i[1]].staking THEN 1 ELSE 0

States == [acc : [Account -> AccountState \cup {Nil}], root : SUBSET Account, dead : BOOLEAN]
Results == [s : States, err : BOOLEAN]

(* y is x with d added to the accounts, which exist in both or in neither. *)
Shift(x, y, d) ==
    /\ y \in States /\ y.root = x.root /\ y.dead = x.dead
    /\ \A a \in Account : x.acc[a] = Nil <=> y.acc[a] = Nil
    /\ \A i \in Slot : x.acc[i[1]] # Nil => Val(y, i) = Red(i, Val(x, i) + d[i])

Change == [Slot -> Int]
Zero == [i \in Slot |-> 0]
Plus(d, e) == [i \in Slot |-> d[i] + e[i]]
At(a, field, n) == [i \in Slot |-> IF i = <<a, field>> THEN n ELSE 0]

LEMMA RedAdds ==
    ASSUME NEW i \in Slot, NEW x \in Int, NEW y \in Int
    PROVE  Red(i, x) \in Int /\ Red(i, Red(i, x) + y) = Red(i, x + y)
<1>1. x % Wrap \in Int /\ ((x % Wrap) + y) % Wrap = (x + y) % Wrap
  <2>1. Wrap \in Int /\ Wrap \in Nat /\ Wrap > 0
    BY WrapPositive
  <2>2. x % Wrap \in 0 .. Wrap - 1
    BY <2>1, Division, Zenon
  <2>3. ((x % Wrap) + y) % Wrap = (x + y) % Wrap
    BY <2>1, RemainderAdds, Zenon
  <2> QED
    BY <2>1, <2>2, <2>3
<1>2. x % 2 \in Int /\ ((x % 2) + y) % 2 = (x + y) % 2
  OBVIOUS
<1> QED
  BY <1>1, <1>2 DEF Red

LEMMA ValInt ==
    ASSUME NEW s \in States, NEW i \in Slot, s.acc[i[1]] # Nil
    PROVE  Val(s, i) \in Int /\ Red(i, Val(s, i)) = Val(s, i)
<1>1. i[1] \in Account /\ s.acc[i[1]] \in AccountState
  BY DEF Slot, States
<1>2. \A n \in 0 .. Wrap - 1 : n % Wrap = n
  BY WrapPositive, RemainderSmall
<1>3. 0 % 2 = 0 /\ 1 % 2 = 1
  OBVIOUS
<1>4. s.acc[i[1]].bal \in 0 .. Wrap - 1 /\ s.acc[i[1]].cnt \in Int /\ s.acc[i[1]].staking \in BOOLEAN
  BY <1>1 DEF AccountState
<1> QED
  BY <1>2, <1>3, <1>4, WrapPositive DEF Val, Red

LEMMA ShiftZero ==
    ASSUME NEW s \in States PROVE Shift(s, s, Zero)
<1>1. \A i \in Slot : s.acc[i[1]] # Nil => Val(s, i) = Red(i, Val(s, i) + 0)
  BY ValInt
<1> QED
  BY <1>1 DEF Shift, Zero

LEMMA ShiftPlus ==
    ASSUME NEW x \in States, NEW y \in States, NEW z \in States, NEW d \in Change, NEW e \in Change,
           Shift(x, y, d), Shift(y, z, e)
    PROVE  Shift(x, z, Plus(d, e)) /\ Plus(d, e) \in Change
<1>1. ASSUME NEW i \in Slot, x.acc[i[1]] # Nil
      PROVE  Val(z, i) = Red(i, Val(x, i) + (d[i] + e[i]))
  <2>1. i[1] \in Account /\ d[i] \in Int /\ e[i] \in Int
    BY DEF Slot, Change
  <2>2. y.acc[i[1]] # Nil
    BY <1>1, <2>1 DEF Shift
  <2>3. Val(y, i) = Red(i, Val(x, i) + d[i]) /\ Val(z, i) = Red(i, Val(y, i) + e[i])
    BY <1>1, <2>2 DEF Shift
  <2>4. Val(x, i) \in Int
    BY <1>1, ValInt
  <2>5. Val(x, i) + d[i] \in Int /\ (Val(x, i) + d[i]) + e[i] = Val(x, i) + (d[i] + e[i])
    BY <2>1, <2>4
  <2>6. Red(i, Red(i, Val(x, i) + d[i]) + e[i]) = Red(i, (Val(x, i) + d[i]) + e[i])
    BY <2>1, <2>5, RedAdds, Zenon
  <2> QED
    BY <2>3, <2>5, <2>6, Zenon
<1> QED
  BY <1>1 DEF Shift, Plus, Change

(* The change may be read off any function with the same values.           *)
LEMMA ShiftSame ==
    ASSUME NEW x, NEW y, NEW d, NEW e, Shift(x, y, d), \A i \in Slot : d[i] = e[i]
    PROVE  Shift(x, y, e)
BY DEF Shift

(* View is blind to what Shift does not look at.                           *)
LEMMA ShiftView ==
    ASSUME NEW x \in States, NEW y \in States, NEW z \in States, NEW d,
           Shift(x, y, d), View(z) = View(y), z.dead = y.dead
    PROVE  Shift(x, z, d)
<1>1. z.root = y.root
  BY DEF View
<1>2. ASSUME NEW a \in Account
      PROVE  /\ z.acc[a] = Nil <=> y.acc[a] = Nil
             /\ z.acc[a] # Nil => /\ z.acc[a].bal = y.acc[a].bal
                                  /\ z.acc[a].cnt = y.acc[a].cnt
                                  /\ z.acc[a].staking = y.acc[a].staking
  <2> DEFINE K(s) == IF s.acc[a] = Nil THEN Nil
                     ELSE <<s.acc[a].bal, s.acc[a].cnt, s.acc[a].staking>>
  <2>1. K(z) = K(y)
    <3>1. View(z).acc[a] = K(z) /\ View(y).acc[a] = K(y)
      BY DEF View
    <3> QED
      BY <3>1
  <2>2. \A s \in States : s.acc[a] # Nil =>
            <<s.acc[a].bal, s.acc[a].cnt, s.acc[a].staking>> \in AccountView
    BY DEF States, AccountState, AccountView
  <2>3. \A s \in States : s.acc[a] # Nil =>
            <<s.acc[a].bal, s.acc[a].cnt, s.acc[a].staking>> # Nil
    BY <2>2, LedgerAssumption
  <2> QED
    BY <2>1, <2>3
<1>3. \A i \in Slot : i[1] \in Account
  BY DEF Slot
<1>4. \A i \in Slot : y.acc[i[1]] # Nil => Val(z, i) = Val(y, i)
  BY <1>2, <1>3 DEF Val
<1> QED
  BY <1>1, <1>2, <1>3, <1>4 DEF Shift

LEMMA ViewShift ==
    ASSUME NEW x \in States, NEW y \in States, NEW d, Shift(x, y, d),
           \A i \in Slot : d[i] = 0
    PROVE  View(y) = View(x)
<1>1. ASSUME NEW a \in Account, x.acc[a] # Nil
      PROVE  /\ x.acc[a].bal = y.acc[a].bal
             /\ x.acc[a].cnt = y.acc[a].cnt
             /\ x.acc[a].staking = y.acc[a].staking
  <2>1. ASSUME NEW i \in Slot, i[1] = a PROVE Val(y, i) = Val(x, i)
    <3>1. Val(x, i) \in Int /\ Red(i, Val(x, i)) = Val(x, i)
      BY <1>1, <2>1, ValInt
    <3>2. Val(y, i) = Red(i, Val(x, i) + d[i]) /\ d[i] = 0
      BY <1>1, <2>1 DEF Shift
    <3> QED
      BY <3>1, <3>2
  <2>2. <<a, "bal">> \in Slot /\ <<a, "cnt">> \in Slot /\ <<a, "staking">> \in Slot
    BY DEF Slot
  <2>3. Val(y, <<a, "bal">>) = Val(x, <<a, "bal">>) /\ Val(y, <<a, "cnt">>) = Val(x, <<a, "cnt">>)
    BY <2>1, <2>2
  <2>4. Val(y, <<a, "staking">>) = Val(x, <<a, "staking">>)
    BY <2>1, <2>2
  <2>5. x.acc[a].staking = y.acc[a].staking
    <3>1. x.acc[a] \in AccountState /\ y.acc[a] \in AccountState
      BY <1>1 DEF States, Shift
    <3>2. x.acc[a].staking \in BOOLEAN /\ y.acc[a].staking \in BOOLEAN
      BY <3>1 DEF AccountState
    <3> QED
      BY <3>2, <2>4 DEF Val
  <2> QED
    BY <2>3, <2>5 DEF Val
<1> QED
  BY <1>1 DEF Shift, View

-----------------------------------------------------------------------------
(* The single updates.                                                     *)
Live(s, a) == a \in Account /\ s.acc[a] # Nil

LEMMA UpdateType ==
    ASSUME NEW s \in States, NEW a \in Account, NEW v, s.acc[a] # Nil => v \in AccountState
    PROVE  /\ Update(s, a, v) \in States
           /\ Update(s, a, v).root = s.root
           /\ \A x \in Account : Update(s, a, v).acc[x] = Nil <=> s.acc[x] = Nil
           /\ s.acc[a] # Nil => Update(s, a, v) = [s EXCEPT !.acc[a] = v]
<1>1. CASE s.acc[a] = Nil
  BY <1>1 DEF Update, States
<1>2. CASE s.acc[a] # Nil
  <2>1. v \in AccountState /\ v # Nil
    BY <1>2, LedgerAssumption
  <2> QED
    BY <1>2, <2>1 DEF Update, States
<1> QED
  BY <1>1, <1>2

LEMMA UpdateShift ==
    ASSUME NEW s \in States, NEW a \in Account, s.acc[a] # Nil, NEW v \in AccountState,
           NEW d, \A i \in Slot : i[1] # a => d[i] = 0,
           v.bal = (s.acc[a].bal + d[<<a, "bal">>]) % Wrap,
           v.cnt = s.acc[a].cnt + d[<<a, "cnt">>],
           (IF v.staking THEN 1 ELSE 0)
              = ((IF s.acc[a].staking THEN 1 ELSE 0) + d[<<a, "staking">>]) % 2
    PROVE  Shift(s, Update(s, a, v), d)
<1> DEFINE u == Update(s, a, v)
<1>1. /\ u \in States /\ u.root = s.root
      /\ \A x \in Account : u.acc[x] = Nil <=> s.acc[x] = Nil
      /\ u = [s EXCEPT !.acc[a] = v]
  BY UpdateType
<1>2. u.dead = s.dead /\ u.acc[a] = v /\ \A x \in Account : x # a => u.acc[x] = s.acc[x]
  BY <1>1 DEF States
<1> HIDE DEF u
<1>3. ASSUME NEW i \in Slot, s.acc[i[1]] # Nil
      PROVE  Val(u, i) = Red(i, Val(s, i) + d[i])
  <2>0. PICK x \in Account, f \in {"bal", "cnt", "staking"} : i = <<x, f>>
    BY DEF Slot
  <2>1. CASE x # a
    <3>1. Val(u, i) = Val(s, i) /\ d[i] = 0
      BY <2>0, <2>1, <1>2 DEF Val
    <3>2. Val(s, i) \in Int /\ Red(i, Val(s, i)) = Val(s, i)
      BY <1>3, ValInt
    <3> QED
      BY <3>1, <3>2
  <2>2. CASE x = a
    BY <2>0, <2>2, <1>2 DEF Val, Red
  <2> QED
    BY <2>1, <2>2
<1> QED
  BY <1>1, <1>2, <1>3 DEF Shift, u

LEMMA BalInt ==
    ASSUME NEW n \in Int PROVE n % Wrap \in 0 .. Wrap - 1 /\ n % Wrap \in Int
<1>1. Wrap \in Int /\ Wrap > 0
  BY WrapPositive
<1>2. n % Wrap \in 0 .. Wrap - 1
  BY <1>1, Division, Zenon
<1> QED
  BY <1>1, <1>2

LEMMA AtChange ==
    ASSUME NEW a, NEW f, NEW n \in Int
    PROVE  At(a, f, n) \in Change /\ \A i \in Slot : i[1] # a => At(a, f, n)[i] = 0
BY DEF At, Change

LEMMA AtValues ==
    ASSUME NEW a \in Account, NEW n
    PROVE  /\ At(a, "bal", n)[<<a, "bal">>] = n /\ At(a, "bal", n)[<<a, "cnt">>] = 0
           /\ At(a, "bal", n)[<<a, "staking">>] = 0
           /\ At(a, "cnt", n)[<<a, "bal">>] = 0 /\ At(a, "cnt", n)[<<a, "cnt">>] = n
           /\ At(a, "cnt", n)[<<a, "staking">>] = 0
           /\ At(a, "staking", n)[<<a, "bal">>] = 0 /\ At(a, "staking", n)[<<a, "cnt">>] = 0
           /\ At(a, "staking", n)[<<a, "staking">>] = n
<1>1. <<a, "bal">> \in Slot /\ <<a, "cnt">> \in Slot /\ <<a, "staking">> \in Slot
  BY DEF Slot
<1>2. <<a, "bal">> # <<a, "cnt">> /\ <<a, "bal">> # <<a, "staking">> /\ <<a, "cnt">> # <<a, "staking">>
  OBVIOUS
<1> QED
  BY <1>1, <1>2 DEF At

LEMMA PayType ==
    ASSUME NEW s \in States, NEW a \in Account, NEW n \in Int
    PROVE  /\ Pay(s, a, n) \in States
           /\ Pay(s, a, n).root = s.root
           /\ \A x \in Account : Pay(s, a, n).acc[x] = Nil <=> s.acc[x] = Nil
<1>1. ASSUME s.acc[a] # Nil
      PROVE  [s.acc[a] EXCEPT !.bal = (@ + n) % Wrap] \in AccountState
  <2>1. s.acc[a] \in AccountState
    BY <1>1 DEF States
  <2>2. s.acc[a].bal + n \in Int
    BY <2>1, WrapPositive DEF AccountState
  <2>3. (s.acc[a].bal + n) % Wrap \in 0 .. Wrap - 1
    BY <2>2, BalInt
  <2> QED
    BY <2>1, <2>3 DEF AccountState
<1> DEFINE v == [s.acc[a] EXCEPT !.bal = (@ + n) % Wrap]
<1>2. s.acc[a] # Nil => v \in AccountState
  BY <1>1
<1> HIDE DEF v
<1>3. /\ Update(s, a, v) \in States /\ Update(s, a, v).root = s.root
      /\ \A x \in Account : Update(s, a, v).acc[x] = Nil <=> s.acc[x] = Nil
  BY <1>2, UpdateType
<1> QED
  BY <1>3 DEF Pay, v

LEMMA PayShift ==
    ASSUME NEW s \in States, NEW a \in Account, s.acc[a] # Nil, NEW n \in Int
    PROVE  Shift(s, Pay(s, a, n), At(a, "bal", n))
<1> DEFINE v == [s.acc[a] EXCEPT !.bal = (@ + n) % Wrap]
<1>1. s.acc[a] \in AccountState
  BY DEF States
<1>2. s.acc[a].bal \in 0 .. Wrap - 1 /\ s.acc[a].cnt \in Int /\ s.acc[a].staking \in BOOLEAN
  BY <1>1 DEF AccountState
<1>3. s.acc[a].bal + n \in Int
  BY <1>2, WrapPositive
<1>4. (s.acc[a].bal + n) % Wrap \in 0 .. Wrap - 1
  BY <1>3, BalInt
<1>5. v \in AccountState /\ v.bal = (s.acc[a].bal + n) % Wrap /\ v.cnt = s.acc[a].cnt
      /\ v.staking = s.acc[a].staking
  BY <1>1, <1>4 DEF AccountState
<1>6. v.cnt = s.acc[a].cnt + 0
      /\ (IF v.staking THEN 1 ELSE 0) = ((IF s.acc[a].staking THEN 1 ELSE 0) + 0) % 2
  BY <1>2, <1>5
<1> HIDE DEF v
<1> DEFINE d == At(a, "bal", n)
<1>8. d[<<a, "bal">>] = n /\ d[<<a, "cnt">>] = 0 /\ d[<<a, "staking">>] = 0
  BY AtValues, Zenon
<1>9. \A i \in Slot : i[1] # a => d[i] = 0
  <2>1. n \in Int
    OBVIOUS
  <2> QED
    BY <2>1, AtChange, Zenon
<1> HIDE DEF d
<1>10. /\ v.bal = (s.acc[a].bal + d[<<a, "bal">>]) % Wrap
      /\ v.cnt = s.acc[a].cnt + d[<<a, "cnt">>]
      /\ (IF v.staking THEN 1 ELSE 0)
            = ((IF s.acc[a].staking THEN 1 ELSE 0) + d[<<a, "staking">>]) % 2
  BY <1>5, <1>6, <1>8, Zenon
<1>11. Shift(s, Update(s, a, v), d)
  BY <1>5, <1>9, <1>10, UpdateShift, Zenon
<1>7. Shift(s, Update(s, a, v), At(a, "bal", n))
  BY <1>11 DEF d
<1> QED
  BY <1>7 DEF Pay, v

LEMMA CountShift ==
    ASSUME NEW s \in States, NEW a \in Account, s.acc[a] # Nil, NEW n \in Int
    PROVE  Shift(s, Update(s, a, [s.acc[a] EXCEPT !.cnt = @ + n]), At(a, "cnt", n))
<1> DEFINE v == [s.acc[a] EXCEPT !.cnt = @ + n]
<1>1. s.acc[a] \in AccountState
  BY DEF States
<1>2. s.acc[a].bal \in 0 .. Wrap - 1 /\ s.acc[a].cnt \in Int /\ s.acc[a].staking \in BOOLEAN
  BY <1>1 DEF AccountState
<1>3. v \in AccountState /\ v.bal = s.acc[a].bal /\ v.cnt = s.acc[a].cnt + n
      /\ v.staking = s.acc[a].staking
  BY <1>1, <1>2 DEF AccountState
<1>4. v.bal = (s.acc[a].bal + 0) % Wrap
  <2>1. v.bal = v.bal % Wrap
    BY <1>2, <1>3, WrapPositive, RemainderSmall
  <2> QED
    BY <2>1, <1>2, <1>3
<1>5. (IF v.staking THEN 1 ELSE 0) = ((IF s.acc[a].staking THEN 1 ELSE 0) + 0) % 2
  BY <1>2, <1>3
<1> HIDE DEF v
<1> DEFINE d == At(a, "cnt", n)
<1>8. d[<<a, "bal">>] = 0 /\ d[<<a, "cnt">>] = n /\ d[<<a, "staking">>] = 0
  BY AtValues, Zenon
<1>9. \A i \in Slot : i[1] # a => d[i] = 0
  <2>1. n \in Int
    OBVIOUS
  <2> QED
    BY <2>1, AtChange, Zenon
<1> HIDE DEF d
<1>10. /\ v.bal = (s.acc[a].bal + d[<<a, "bal">>]) % Wrap
      /\ v.cnt = s.acc[a].cnt + d[<<a, "cnt">>]
      /\ (IF v.staking THEN 1 ELSE 0)
            = ((IF s.acc[a].staking THEN 1 ELSE 0) + d[<<a, "staking">>]) % 2
  BY <1>3, <1>4, <1>5, <1>8, Zenon
<1>11. Shift(s, Update(s, a, v), d)
  BY <1>3, <1>9, <1>10, UpdateShift, Zenon
<1>7. Shift(s, Update(s, a, v), At(a, "cnt", n))
  BY <1>11 DEF d
<1> QED
  BY <1>7 DEF v

LEMMA NegationOdd ==
    ASSUME NEW n \in Int, n + 1 = 0 \/ n = 1
    PROVE  (0 + n) % 2 = 1 /\ (1 + n) % 2 = 0
OBVIOUS

(* Setting the flag to the other value is the same in both directions.     *)
LEMMA StakeShift ==
    ASSUME NEW s \in States, NEW a \in Account, s.acc[a] # Nil, NEW v \in AccountState,
           v.bal = s.acc[a].bal, v.cnt = s.acc[a].cnt, v.staking # s.acc[a].staking,
           NEW n \in Int, n + 1 = 0 \/ n = 1
    PROVE  Shift(s, Update(s, a, v), At(a, "staking", n))
<1>1. s.acc[a] \in AccountState
  BY DEF States
<1>2. /\ s.acc[a].bal \in 0 .. Wrap - 1 /\ s.acc[a].cnt \in Int /\ s.acc[a].staking \in BOOLEAN
      /\ v.staking \in BOOLEAN
  BY <1>1 DEF AccountState
<1>4. v.bal = (s.acc[a].bal + 0) % Wrap
  <2>1. v.bal = v.bal % Wrap
    BY <1>2, WrapPositive, RemainderSmall
  <2> QED
    BY <2>1, <1>2
<1>5. (IF v.staking THEN 1 ELSE 0) = ((IF s.acc[a].staking THEN 1 ELSE 0) + n) % 2
  <2>1. (0 + n) % 2 = 1 /\ (1 + n) % 2 = 0
    BY NegationOdd
  <2> QED
    BY <1>2, <2>1
<1>6. v.cnt = s.acc[a].cnt + 0 /\ n \in Int
  BY <1>2
<1> DEFINE d == At(a, "staking", n)
<1>8. d[<<a, "bal">>] = 0 /\ d[<<a, "cnt">>] = 0 /\ d[<<a, "staking">>] = n
  BY AtValues, Zenon
<1>9. \A i \in Slot : i[1] # a => d[i] = 0
  <2>1. n \in Int
    BY <1>6
  <2> QED
    BY <2>1, AtChange, Zenon
<1> HIDE DEF d
<1>10. /\ v.bal = (s.acc[a].bal + d[<<a, "bal">>]) % Wrap
      /\ v.cnt = s.acc[a].cnt + d[<<a, "cnt">>]
      /\ (IF v.staking THEN 1 ELSE 0)
            = ((IF s.acc[a].staking THEN 1 ELSE 0) + d[<<a, "staking">>]) % 2
  BY <1>4, <1>5, <1>6, <1>8, Zenon
<1>11. Shift(s, Update(s, a, v), d)
  BY <1>9, <1>10, UpdateShift, Zenon
<1>7. Shift(s, Update(s, a, v), At(a, "staking", n))
  BY <1>11 DEF d
<1> QED
  BY <1>7

-----------------------------------------------------------------------------
(* What one transaction changes, in both directions.                       *)
FundsTx == {t \in Tx : t.kind = "funds"}
AccTx   == {t \in Tx : t.kind = "acc"}
StakeTx == {t \in Tx : t.kind = "stake"}

LEMMA TxFields ==
    /\ \A t \in FundsTx : /\ t.from \in Account /\ t.to \in Account /\ t.amount \in Nat
                          /\ t.fee \in Nat /\ t.cnt \in Nat
    /\ \A t \in AccTx : t.acc \in Account /\ t.header \in {0, 1, 2}
    /\ \A t \in StakeTx : t.acc \in Account /\ t.staking \in BOOLEAN /\ t.fee \in Nat
    /\ \A t \in Tx : t.fee \in Nat
    /\ \A t \in Tx : Payer(t) \in Account \cup {Nil}
BY LedgerAssumption DEF FundsTx, AccTx, StakeTx, FundsOK, AccOK, StakeOK, ConfigOK, Payer

Sign(n) == n \in Int /\ (n + 1 = 0 \/ n = 1)

TransferChange(tx, n) ==
    Plus(Plus(At(tx.from, "cnt", n), At(tx.from, "bal", -n * tx.amount)),
         At(tx.to, "bal", n * tx.amount))

IssueChange(R, tx, n) ==
    IF tx.from \in R THEN At(tx.from, "bal", n * (tx.amount + tx.fee)) ELSE Zero

FeeChange(m, tx, n) ==
    IF Payer(tx) = Nil THEN At(m, "bal", n * tx.fee)
    ELSE Plus(At(m, "bal", n * tx.fee), At(Payer(tx), "bal", -n * tx.fee))

LEMMA ZeroChange == Zero \in Change
BY DEF Zero, Change

LEMMA ShiftExists ==
    ASSUME NEW x, NEW y, NEW d, Shift(x, y, d)
    PROVE  /\ y \in States /\ y.root = x.root /\ y.dead = x.dead
           /\ \A a \in Account : x.acc[a] = Nil <=> y.acc[a] = Nil
BY DEF Shift

LEMMA SignInt ==
    ASSUME NEW n, Sign(n), NEW x \in Nat
    PROVE  n \in Int /\ n * x \in Int /\ -n * x \in Int
BY DEF Sign

LEMMA PayChange ==
    ASSUME NEW s \in States, NEW a \in Account, s.acc[a] # Nil, NEW n \in Int
    PROVE  /\ Shift(s, Pay(s, a, n), At(a, "bal", n))
           /\ At(a, "bal", n) \in Change
           /\ Pay(s, a, n) \in States
           /\ \A x \in Account : Pay(s, a, n).acc[x] = Nil <=> s.acc[x] = Nil
<1>1. Shift(s, Pay(s, a, n), At(a, "bal", n))
  BY PayShift, Zenon
<1>2. At(a, "bal", n) \in Change
  BY AtChange, Zenon
<1>3. Pay(s, a, n) \in States /\ \A x \in Account : Pay(s, a, n).acc[x] = Nil <=> s.acc[x] = Nil
  BY PayType, Zenon
<1> QED
  BY <1>1, <1>2, <1>3, Zenon

LEMMA TransferShift ==
    ASSUME NEW s \in States, NEW tx \in FundsTx, s.acc[tx.from] # Nil, s.acc[tx.to] # Nil,
           NEW n, Sign(n)
    PROVE  Shift(s, Transfer(s, tx, n), TransferChange(tx, n)) /\ TransferChange(tx, n) \in Change
<1> DEFINE u == Update(s, tx.from, [s.acc[tx.from] EXCEPT !.cnt = @ + n])
           v == Pay(u, tx.from, -n * tx.amount)
           w == Pay(v, tx.to, n * tx.amount)
<1>1. /\ tx.from \in Account /\ tx.to \in Account
      /\ n \in Int /\ n * tx.amount \in Int /\ -n * tx.amount \in Int
  BY TxFields, SignInt
<1>2. Shift(s, u, At(tx.from, "cnt", n)) /\ At(tx.from, "cnt", n) \in Change
  BY <1>1, CountShift, AtChange, Zenon
<1>3. u \in States /\ u.acc[tx.from] # Nil /\ u.acc[tx.to] # Nil
  BY <1>1, <1>2, ShiftExists, Zenon
<1> HIDE DEF u
<1>4. /\ Shift(u, v, At(tx.from, "bal", -n * tx.amount)) /\ v \in States
      /\ At(tx.from, "bal", -n * tx.amount) \in Change
      /\ v.acc[tx.to] # Nil
  BY <1>1, <1>3, PayChange, Zenon
<1> HIDE DEF v
<1>5. /\ Shift(v, w, At(tx.to, "bal", n * tx.amount)) /\ w \in States
      /\ At(tx.to, "bal", n * tx.amount) \in Change
  BY <1>1, <1>4, PayChange, Zenon
<1> HIDE DEF w
<1>6. /\ Shift(s, v, Plus(At(tx.from, "cnt", n), At(tx.from, "bal", -n * tx.amount)))
      /\ Plus(At(tx.from, "cnt", n), At(tx.from, "bal", -n * tx.amount)) \in Change
  BY <1>2, <1>3, <1>4, ShiftPlus, Zenon
<1>7. Shift(s, w, TransferChange(tx, n)) /\ TransferChange(tx, n) \in Change
  BY <1>4, <1>5, <1>6, ShiftPlus, Zenon DEF TransferChange
<1> QED
  BY <1>7 DEF Transfer, u, v, w

LEMMA IssueShift ==
    ASSUME NEW s \in States, NEW tx \in FundsTx, s.acc[tx.from] # Nil, NEW n, Sign(n)
    PROVE  Shift(s, Issue(s, tx, n), IssueChange(s.root, tx, n))
           /\ IssueChange(s.root, tx, n) \in Change
<1>1. tx.from \in Account /\ tx.amount + tx.fee \in Nat
  BY TxFields
<1>2. n * (tx.amount + tx.fee) \in Int
  BY <1>1, SignInt
<1>3. CASE tx.from \in s.root
  BY <1>1, <1>2, <1>3, PayChange, Zenon DEF Issue, IssueChange
<1>4. CASE tx.from \notin s.root
  BY <1>4, ShiftZero, ZeroChange, Zenon DEF Issue, IssueChange
<1> QED
  BY <1>3, <1>4

LEMMA FeeShift ==
    ASSUME NEW s \in States, NEW tx \in Tx, NEW m \in Account, s.acc[m] # Nil,
           Payer(tx) = Nil \/ s.acc[Payer(tx)] # Nil, NEW n, Sign(n)
    PROVE  Shift(s, MoveFee(s, tx, m, n), FeeChange(m, tx, n)) /\ FeeChange(m, tx, n) \in Change
<1> DEFINE u == Pay(s, m, n * tx.fee)
           v == Pay(u, Payer(tx), -n * tx.fee)
<1>1. /\ Payer(tx) \in Account \cup {Nil}
      /\ n \in Int /\ n * tx.fee \in Int /\ -n * tx.fee \in Int
  BY TxFields, SignInt
<1>2. /\ Shift(s, u, At(m, "bal", n * tx.fee)) /\ At(m, "bal", n * tx.fee) \in Change
      /\ u \in States /\ \A x \in Account : u.acc[x] = Nil <=> s.acc[x] = Nil
  BY <1>1, PayChange, Zenon
<1> HIDE DEF u
<1>3. CASE Payer(tx) = Nil
  BY <1>2, <1>3, Zenon DEF MoveFee, FeeChange, u
<1>4. CASE Payer(tx) # Nil
  <2>1. Payer(tx) \in Account /\ u.acc[Payer(tx)] # Nil
    BY <1>1, <1>2, <1>4
  <2>2. /\ Shift(u, v, At(Payer(tx), "bal", -n * tx.fee)) /\ v \in States
        /\ At(Payer(tx), "bal", -n * tx.fee) \in Change
    BY <1>1, <1>2, <2>1, PayChange, Zenon
  <2> HIDE DEF v
  <2>3. /\ Shift(s, v, Plus(At(m, "bal", n * tx.fee), At(Payer(tx), "bal", -n * tx.fee)))
        /\ Plus(At(m, "bal", n * tx.fee), At(Payer(tx), "bal", -n * tx.fee)) \in Change
    BY <1>2, <2>2, ShiftPlus, Zenon
  <2> QED
    BY <2>3, <1>4, Zenon DEF MoveFee, FeeChange, u, v
<1> QED
  BY <1>3, <1>4

(* Both directions are opposite.                                           *)
FundsChange(R, tx) == Plus(IssueChange(R, tx, 1), TransferChange(tx, 1))

LEMMA ChangesOpposite ==
    /\ \A R : \A i \in Slot, tx \in FundsTx :
          Plus(TransferChange(tx, -1), IssueChange(R, tx, -1))[i] = 0 - FundsChange(R, tx)[i]
    /\ \A m : \A i \in Slot, tx \in Tx : FeeChange(m, tx, -1)[i] = 0 - FeeChange(m, tx, 1)[i]
    /\ Sign(1) /\ Sign(-1)
<1>1. Sign(1) /\ Sign(-1)
  BY DEF Sign
<1>2. ASSUME NEW R, NEW i \in Slot, NEW tx \in FundsTx
      PROVE Plus(TransferChange(tx, -1), IssueChange(R, tx, -1))[i] = 0 - FundsChange(R, tx)[i]
  <2>1. tx.amount \in Nat /\ tx.fee \in Nat
    BY TxFields
  <2> QED
    BY <2>1 DEF FundsChange, Plus, TransferChange, IssueChange, At, Zero
<1>3. ASSUME NEW m, NEW i \in Slot, NEW tx \in Tx
      PROVE FeeChange(m, tx, -1)[i] = 0 - FeeChange(m, tx, 1)[i]
  <2>1. tx.fee \in Nat
    BY TxFields
  <2> QED
    BY <2>1 DEF Plus, FeeChange, At
<1> QED
  BY <1>1, <1>2, <1>3

LEMMA CountType ==
    ASSUME NEW s \in States, NEW a \in Account, NEW n \in Int
    PROVE  Update(s, a, [s.acc[a] EXCEPT !.cnt = @ + n]) \in States
<1> DEFINE v == [s.acc[a] EXCEPT !.cnt = @ + n]
<1>1. s.acc[a] # Nil => v \in AccountState
  <2> SUFFICES ASSUME s.acc[a] # Nil PROVE v \in AccountState
    OBVIOUS
  <2>1. s.acc[a] \in AccountState
    BY DEF States
  <2> QED
    BY <2>1 DEF AccountState
<1> HIDE DEF v
<1>2. Update(s, a, v) \in States
  BY <1>1, UpdateType
<1> QED
  BY <1>2 DEF v

(* Whatever is missing, the result is a state.                             *)
LEMMA MovesType ==
    ASSUME NEW s \in States, NEW n, Sign(n)
    PROVE  /\ \A tx \in FundsTx : Transfer(s, tx, n) \in States /\ Issue(s, tx, n) \in States
           /\ \A tx \in Tx, m \in Account : MoveFee(s, tx, m, n) \in States
<1>1. ASSUME NEW tx \in FundsTx PROVE Transfer(s, tx, n) \in States
  <2> DEFINE u == Update(s, tx.from, [s.acc[tx.from] EXCEPT !.cnt = @ + n])
  <2>1. /\ tx.from \in Account /\ tx.to \in Account
        /\ n \in Int /\ n * tx.amount \in Int /\ -n * tx.amount \in Int
    BY TxFields, SignInt
  <2>2. u \in States
    BY <2>1, CountType, Zenon
  <2> HIDE DEF u
  <2>3. Pay(u, tx.from, -n * tx.amount) \in States
    BY <2>1, <2>2, PayType, Zenon
  <2>4. Pay(Pay(u, tx.from, -n * tx.amount), tx.to, n * tx.amount) \in States
    BY <2>1, <2>3, PayType, Zenon
  <2> QED
    BY <2>4 DEF Transfer, u
<1>2. ASSUME NEW tx \in FundsTx PROVE Issue(s, tx, n) \in States
  <2>1. tx.from \in Account /\ tx.amount + tx.fee \in Nat
    BY TxFields
  <2>2. n * (tx.amount + tx.fee) \in Int
    BY <2>1, SignInt
  <2> QED
    BY <2>1, <2>2, PayType, Zenon DEF Issue
<1>3. ASSUME NEW tx \in Tx, NEW m \in Account PROVE MoveFee(s, tx, m, n) \in States
  <2>1. /\ Payer(tx) \in Account \cup {Nil}
        /\ n \in Int /\ n * tx.fee \in Int /\ -n * tx.fee \in Int
    BY TxFields, SignInt
  <2>2. Pay(s, m, n * tx.fee) \in States
    BY <2>1, PayType, Zenon
  <2>3. Payer(tx) # Nil => Pay(Pay(s, m, n * tx.fee), Payer(tx), -n * tx.fee) \in States
    BY <2>1, <2>2, PayType, Zenon
  <2> QED
    BY <2>2, <2>3, Zenon DEF MoveFee
<1> QED
  BY <1>1, <1>2, <1>3

-----------------------------------------------------------------------------
(* What a sequence of transactions changes.                                *)
Weights == [Slot -> Weight]

FundsW(R) == [i \in Slot |->
                 [tx \in Tx |-> IF tx.kind = "funds" THEN FundsChange(R, tx)[i] ELSE 0]]
FeeW(m)   == [i \in Slot |-> [tx \in Tx |-> FeeChange(m, tx, 1)[i]]]
StakeW    == [i \in Slot |->
                 [tx \in Tx |-> IF tx.kind = "stake" THEN At(tx.acc, "staking", 1)[i] ELSE 0]]
MinusW(W) == [i \in Slot |-> Minus(W[i])]

UpTo(W, txs, k) == [i \in Slot |-> PartialSums(W[i], txs)[k]]
Total(W, txs)   == [i \in Slot |-> Sum(W[i], txs)]

LEMMA ChangeTypes ==
    /\ \A R : \A tx \in FundsTx : FundsChange(R, tx) \in Change
    /\ \A tx \in Tx, m \in Account : FeeChange(m, tx, 1) \in Change
    /\ \A tx \in StakeTx : At(tx.acc, "staking", 1) \in Change
<1>1. \A a, f : \A n \in Int : At(a, f, n) \in Change
  BY AtChange
<1>2. \A d, e \in Change : Plus(d, e) \in Change
  BY DEF Plus, Change
<1>3. ASSUME NEW R, NEW tx \in FundsTx PROVE FundsChange(R, tx) \in Change
  <2>1. tx.amount \in Nat /\ tx.fee \in Nat
    BY TxFields
  <2>2. 1 * (tx.amount + tx.fee) \in Int /\ -1 * tx.amount \in Int /\ 1 * tx.amount \in Int /\ 1 \in Int
    BY <2>1
  <2>3. IssueChange(R, tx, 1) \in Change
    BY <1>1, <2>2, ZeroChange, Zenon DEF IssueChange
  <2>4. TransferChange(tx, 1) \in Change
    BY <1>1, <1>2, <2>2, Zenon DEF TransferChange
  <2> QED
    BY <1>2, <2>3, <2>4 DEF FundsChange
<1>4. ASSUME NEW tx \in Tx, NEW m \in Account PROVE FeeChange(m, tx, 1) \in Change
  <2>1. 1 * tx.fee \in Int /\ -1 * tx.fee \in Int
    BY TxFields
  <2> QED
    BY <1>1, <1>2, <2>1, Zenon DEF FeeChange
<1>5. ASSUME NEW tx \in StakeTx PROVE At(tx.acc, "staking", 1) \in Change
  <2>1. 1 \in Int
    OBVIOUS
  <2> QED
    BY <1>1, <2>1, Zenon
<1> QED
  BY <1>3, <1>4, <1>5

LEMMA WeightTypes ==
    /\ \A R : FundsW(R) \in Weights
    /\ \A m \in Account : FeeW(m) \in Weights
    /\ StakeW \in Weights
    /\ \A W \in Weights : MinusW(W) \in Weights
<1>1. ASSUME NEW R PROVE FundsW(R) \in Weights
  <2>1. \A tx \in Tx, i \in Slot : tx.kind = "funds" => FundsChange(R, tx)[i] \in Int
    BY ChangeTypes DEF Change, FundsTx
  <2> QED
    BY <2>1 DEF FundsW, Weights, Weight
<1>2. ASSUME NEW m \in Account PROVE FeeW(m) \in Weights
  <2>1. \A tx \in Tx, i \in Slot : FeeChange(m, tx, 1)[i] \in Int
    BY ChangeTypes DEF Change
  <2> QED
    BY <2>1 DEF FeeW, Weights, Weight
<1>3. StakeW \in Weights
  <2>1. \A tx \in Tx, i \in Slot : tx.kind = "stake" => At(tx.acc, "staking", 1)[i] \in Int
    BY ChangeTypes DEF Change, StakeTx
  <2> QED
    BY <2>1 DEF StakeW, Weights, Weight
<1>4. ASSUME NEW W \in Weights PROVE MinusW(W) \in Weights
  BY DEF MinusW, Weights, Minus, Weight
<1> QED
  BY <1>1, <1>2, <1>3, <1>4

LEMMA UpToEnds ==
    ASSUME NEW W \in Weights, NEW txs \in Seq(Tx)
    PROVE  /\ \A k \in 0 .. Len(txs) : UpTo(W, txs, k) \in Change
           /\ UpTo(W, txs, 0) = Zero
           /\ UpTo(W, txs, Len(txs)) = Total(W, txs)
           /\ Total(W, txs) \in Change
<1>1. \A i \in Slot : W[i] \in Weight
  BY DEF Weights
<1>2. ASSUME NEW i \in Slot
      PROVE  /\ PartialSums(W[i], txs) \in [0 .. Len(txs) -> Int]
             /\ PartialSums(W[i], txs)[0] = 0
             /\ PartialSums(W[i], txs)[Len(txs)] = Sum(W[i], txs)
             /\ Sum(W[i], txs) \in Int
  BY <1>1, SumRuns
<1> QED
  BY <1>2 DEF UpTo, Total, Zero, Change

LEMMA ShiftNext ==
    ASSUME NEW x \in States, NEW y \in States, NEW z \in States, NEW W \in Weights,
           NEW txs \in Seq(Tx), NEW k \in 1 .. Len(txs), NEW e \in Change,
           Shift(x, y, UpTo(W, txs, k - 1)), Shift(y, z, e),
           \A i \in Slot : e[i] = W[i][txs[k]]
    PROVE  Shift(x, z, UpTo(W, txs, k))
<1>0. k \in 0 .. Len(txs) /\ k - 1 \in 0 .. Len(txs)
  OBVIOUS
<1>1. UpTo(W, txs, k - 1) \in Change
  BY <1>0, UpToEnds
<1>2. Shift(x, z, Plus(UpTo(W, txs, k - 1), e))
  BY <1>1, ShiftPlus
<1>3. ASSUME NEW i \in Slot PROVE Plus(UpTo(W, txs, k - 1), e)[i] = UpTo(W, txs, k)[i]
  <2>1. W[i] \in Weight
    BY DEF Weights
  <2>2. PartialSums(W[i], txs)[k] = PartialSums(W[i], txs)[k - 1] + W[i][txs[k]]
    BY <2>1, SumRuns
  <2> QED
    BY <2>2 DEF Plus, UpTo
<1> QED
  BY <1>2, <1>3, ShiftSame

LEMMA TotalMinus ==
    ASSUME NEW W \in Weights, NEW txs \in Seq(Tx)
    PROVE  /\ \A i \in Slot : Total(MinusW(W), txs)[i] = 0 - Total(W, txs)[i]
           /\ \A i \in Slot : Total(MinusW(W), Reverse(txs))[i] = 0 - Total(W, txs)[i]
           /\ Total(MinusW(W), txs) \in Change /\ Total(MinusW(W), Reverse(txs)) \in Change
<1>1. Reverse(txs) \in Seq(Tx)
  BY DEF Reverse
<1>2. ASSUME NEW i \in Slot
      PROVE  /\ Sum(Minus(W[i]), txs) = 0 - Sum(W[i], txs)
             /\ Sum(Minus(W[i]), Reverse(txs)) = 0 - Sum(W[i], txs)
  <2>1. W[i] \in Weight
    BY DEF Weights
  <2>2. Sum(Minus(W[i]), txs) = 0 - Sum(W[i], txs)
    BY <2>1, SumMinus
  <2>3. Sum(Minus(W[i]), Reverse(txs)) = 0 - Sum(W[i], Reverse(txs))
    BY <1>1, <2>1, SumMinus
  <2>4. Sum(W[i], Reverse(txs)) = Sum(W[i], txs)
    BY <2>1, SumReverse
  <2> QED
    BY <2>2, <2>3, <2>4
<1>3. Total(MinusW(W), txs) \in Change /\ Total(MinusW(W), Reverse(txs)) \in Change
  BY <1>1, WeightTypes, UpToEnds
<1> QED
  BY <1>2, <1>3 DEF Total, MinusW

LEMMA TotalConcat ==
    ASSUME NEW W \in Weights, NEW s \in Seq(Tx), NEW t \in Seq(Tx)
    PROVE  /\ s \o t \in Seq(Tx)
           /\ \A i \in Slot : Total(W, s \o t)[i] = Total(W, s)[i] + Total(W, t)[i]
<1>1. \A i \in Slot : W[i] \in Weight
  BY DEF Weights
<1> QED
  BY <1>1, SumConcat DEF Total

-----------------------------------------------------------------------------
(* The same accounts exist, whatever they hold.                            *)
Alike(x, y) ==
    /\ y \in States /\ y.root = x.root /\ y.dead = x.dead
    /\ \A a \in Account : x.acc[a] = Nil <=> y.acc[a] = Nil

LEMMA ShiftAlike ==
    ASSUME NEW x, NEW y, NEW d, Shift(x, y, d)
    PROVE  Alike(x, y)
BY DEF Shift, Alike

LEMMA AlikeTwice ==
    ASSUME NEW x, NEW y, NEW z, Alike(x, y), Alike(y, z)
    PROVE  Alike(x, z)
BY DEF Alike

LEMMA ResultTypes ==
    ASSUME NEW s \in States
    PROVE  /\ Ok(s) \in Results /\ Ok(s).s = s /\ Ok(s).err = FALSE
           /\ Failed(s) \in Results /\ Failed(s).s = s /\ Failed(s).err = TRUE
BY DEF Ok, Failed, Results

LEMMA PartsOfTx ==
    /\ \A txs \in Seq(FundsTx) : txs \in Seq(Tx) /\ Reverse(txs) \in Seq(FundsTx)
    /\ \A txs \in Seq(AccTx) : txs \in Seq(Tx) /\ Reverse(txs) \in Seq(AccTx)
    /\ \A txs \in Seq(StakeTx) : txs \in Seq(Tx) /\ Reverse(txs) \in Seq(StakeTx)
BY DEF FundsTx, AccTx, StakeTx, Reverse

(* What holds after k transactions of a loop that may fail ...             *)
Forth(s, W, txs) ==
    [k \in 0 .. Len(txs) |->
        {r \in Results : Alike(s, r.s) /\ (r.err \/ Shift(s, r.s, UpTo(W, txs, k)))}]

(* ... and of one that undoes.                                             *)
Back(s, W, txs) ==
    [k \in 0 .. Len(txs) |-> {u \in States : Shift(s, u, UpTo(W, txs, k))}]

LEMMA ForthStart ==
    ASSUME NEW s \in States, NEW W \in Weights, NEW txs \in Seq(Tx)
    PROVE  Ok(s) \in Forth(s, W, txs)[0] /\ s \in Back(s, W, txs)[0]
<1>1. Shift(s, s, UpTo(W, txs, 0))
  BY UpToEnds, ShiftZero
<1>2. Alike(s, s) /\ Ok(s) \in Results /\ Ok(s).s = s /\ Ok(s).err = FALSE
  BY <1>1, ResultTypes, ShiftAlike
<1>3. 0 \in 0 .. Len(txs)
  OBVIOUS
<1> QED
  BY <1>1, <1>2, <1>3, Zenon DEF Forth, Back

LEMMA ForthEnd ==
    ASSUME NEW s \in States, NEW W \in Weights, NEW txs \in Seq(Tx)
    PROVE  /\ \A r : r \in Forth(s, W, txs)[Len(txs)] =>
                 r \in Results /\ Alike(s, r.s) /\ (r.err \/ Shift(s, r.s, Total(W, txs)))
           /\ \A u : u \in Back(s, W, txs)[Len(txs)] =>
                 u \in States /\ Shift(s, u, Total(W, txs))
<1>1. UpTo(W, txs, Len(txs)) = Total(W, txs) /\ Len(txs) \in 0 .. Len(txs)
  BY UpToEnds
<1>2. Forth(s, W, txs)[Len(txs)] =
         {r \in Results : Alike(s, r.s) /\ (r.err \/ Shift(s, r.s, UpTo(W, txs, Len(txs))))}
  BY <1>1, Zenon DEF Forth
<1>3. Back(s, W, txs)[Len(txs)] = {u \in States : Shift(s, u, UpTo(W, txs, Len(txs)))}
  BY <1>1, Zenon DEF Back
<1> QED
  BY <1>1, <1>2, <1>3, Zenon

LEMMA ForthIn ==
    ASSUME NEW s, NEW W, NEW txs, NEW k \in 1 .. Len(txs), NEW r, Len(txs) \in Nat,
           r \in Forth(s, W, txs)[k - 1]
    PROVE  r \in Results /\ r.s \in States /\ Alike(s, r.s)
           /\ (r.err \/ Shift(s, r.s, UpTo(W, txs, k - 1)))
<1>1. k - 1 \in 0 .. Len(txs)
  OBVIOUS
<1>2. Forth(s, W, txs)[k - 1] =
         {x \in Results : Alike(s, x.s) /\ (x.err \/ Shift(s, x.s, UpTo(W, txs, k - 1)))}
  BY <1>1, Zenon DEF Forth
<1>3. r \in Results /\ Alike(s, r.s) /\ (r.err \/ Shift(s, r.s, UpTo(W, txs, k - 1)))
  BY <1>2, Zenon
<1> QED
  BY <1>3 DEF Results

LEMMA ForthStep ==
    ASSUME NEW s \in States, NEW W \in Weights, NEW txs \in Seq(Tx),
           NEW k \in 1 .. Len(txs), NEW r, r \in Forth(s, W, txs)[k - 1], NEW q \in Results,
           \/ q = r /\ r.err
           \/ q = Failed(r.s)
           \/ /\ ~r.err
              /\ \E e \in Change, u \in States :
                    /\ q = Ok(u) /\ Shift(r.s, u, e)
                    /\ \A i \in Slot : e[i] = W[i][txs[k]]
    PROVE  q \in Forth(s, W, txs)[k]
<1>0. k \in 0 .. Len(txs) /\ Len(txs) \in Nat
  OBVIOUS
<1>1. r \in Results /\ r.s \in States /\ Alike(s, r.s)
      /\ (r.err \/ Shift(s, r.s, UpTo(W, txs, k - 1)))
  BY <1>0, ForthIn, Zenon
<1>2. SUFFICES Alike(s, q.s) /\ (q.err \/ Shift(s, q.s, UpTo(W, txs, k)))
  BY <1>0, Zenon DEF Forth
<1>3. CASE q = r /\ r.err
  BY <1>1, <1>3
<1>4. CASE q = Failed(r.s)
  BY <1>1, <1>4, ResultTypes, Zenon
<1>5. CASE /\ ~r.err
           /\ \E e \in Change, u \in States :
                 /\ q = Ok(u) /\ Shift(r.s, u, e)
                 /\ \A i \in Slot : e[i] = W[i][txs[k]]
  <2>1. PICK e \in Change, u \in States :
                 /\ q = Ok(u) /\ Shift(r.s, u, e)
                 /\ \A i \in Slot : e[i] = W[i][txs[k]]
    BY <1>5, Zenon
  <2>4. Shift(s, r.s, UpTo(W, txs, k - 1)) /\ r.s \in States
    BY <1>1, <1>5
  <2>2. Shift(s, u, UpTo(W, txs, k))
    BY <2>1, <2>4, ShiftNext, Zenon
  <2>3. q.s = u
    BY <2>1, ResultTypes, Zenon
  <2> QED
    BY <2>2, <2>3, ShiftAlike, Zenon
<1> QED
  BY <1>3, <1>4, <1>5

LEMMA BackStep ==
    ASSUME NEW s \in States, NEW W \in Weights, NEW txs \in Seq(Tx),
           NEW k \in 1 .. Len(txs), NEW x, x \in Back(s, W, txs)[k - 1], NEW y \in States,
           NEW e \in Change, Shift(x, y, e), \A i \in Slot : e[i] = W[i][txs[k]]
    PROVE  y \in Back(s, W, txs)[k]
<1>0. k \in 0 .. Len(txs) /\ k - 1 \in 0 .. Len(txs)
  OBVIOUS
<1>1. Back(s, W, txs)[k - 1] = {u \in States : Shift(s, u, UpTo(W, txs, k - 1))}
  BY <1>0, Zenon DEF Back
<1>2. x \in States /\ Shift(s, x, UpTo(W, txs, k - 1))
  BY <1>1, Zenon
<1>3. Shift(s, y, UpTo(W, txs, k))
  BY <1>2, ShiftNext, Zenon
<1> QED
  BY <1>0, <1>3, Zenon DEF Back

LEMMA BackIn ==
    ASSUME NEW s, NEW W, NEW txs, NEW k \in 1 .. Len(txs), NEW u, Len(txs) \in Nat,
           u \in Back(s, W, txs)[k - 1]
    PROVE  u \in States /\ Alike(s, u)
<1>1. k - 1 \in 0 .. Len(txs)
  OBVIOUS
<1>2. Back(s, W, txs)[k - 1] = {x \in States : Shift(s, x, UpTo(W, txs, k - 1))}
  BY <1>1, Zenon DEF Back
<1>3. u \in States /\ Shift(s, u, UpTo(W, txs, k - 1))
  BY <1>2, Zenon
<1> QED
  BY <1>3, ShiftAlike, Zenon

(* The loop of fundsStateChange.                                           *)
fundsStep(p, r, tx) ==
    IF r.err THEN r
    ELSE IF tx \in closed THEN Ok(r.s)
    ELSE IF tx.from \in r.s.root /\ (r.s.acc[tx.from] = Nil
              \/ Exceeds(r.s.acc[tx.from].bal + tx.amount + tx.fee, MaxMoney))
    THEN Failed(r.s)
    ELSE IF Nil \in {r.s.acc[tx.from], r.s.acc[tx.to]} THEN Ok([r.s EXCEPT !.dead = TRUE])
    ELSE IF FundsRefused(Issue(r.s, tx, 1), tx) THEN Failed(r.s)
    ELSE Ok(Transfer(Issue(r.s, tx, 1), tx, 1))

FundsLoop == INSTANCE FoldFacts WITH step <- fundsStep, X <- Results, Y <- FundsTx

LEMMA FundsStepType ==
    ASSUME NEW p PROVE \A r \in Results, tx \in FundsTx : fundsStep(p, r, tx) \in Results
<1> SUFFICES ASSUME NEW r \in Results, NEW tx \in FundsTx PROVE fundsStep(p, r, tx) \in Results
  OBVIOUS
<1>1. r.s \in States /\ Sign(1)
  BY ChangesOpposite DEF Results
<1>2. Issue(r.s, tx, 1) \in States
  BY <1>1, MovesType, Zenon
<1>3. Transfer(Issue(r.s, tx, 1), tx, 1) \in States
  BY <1>1, <1>2, MovesType, Zenon
<1>4. [r.s EXCEPT !.dead = TRUE] \in States
  BY <1>1 DEF States
<1> QED
  BY <1>1, <1>3, <1>4, ResultTypes, Zenon DEF fundsStep

(* A transfer and, for a root account, the issue before it.                *)
LEMMA FundsForth ==
    ASSUME NEW s \in States, NEW tx \in FundsTx, s.acc[tx.from] # Nil, s.acc[tx.to] # Nil
    PROVE  /\ Shift(s, Transfer(Issue(s, tx, 1), tx, 1), FundsChange(s.root, tx))
           /\ FundsChange(s.root, tx) \in Change
<1> DEFINE u == Issue(s, tx, 1)
<1>1. tx.from \in Account /\ tx.to \in Account /\ Sign(1)
  BY TxFields, ChangesOpposite
<1>2. Shift(s, u, IssueChange(s.root, tx, 1)) /\ IssueChange(s.root, tx, 1) \in Change
  BY <1>1, IssueShift, Zenon
<1> HIDE DEF u
<1>3. u \in States /\ u.acc[tx.from] # Nil /\ u.acc[tx.to] # Nil
  BY <1>1, <1>2, ShiftExists, Zenon
<1>4. /\ Shift(u, Transfer(u, tx, 1), TransferChange(tx, 1))
      /\ TransferChange(tx, 1) \in Change
  BY <1>1, <1>3, TransferShift, Zenon
<1>5. Transfer(u, tx, 1) \in States
  BY <1>4, ShiftExists, Zenon
<1>6. Shift(s, Transfer(u, tx, 1), FundsChange(s.root, tx)) /\ FundsChange(s.root, tx) \in Change
  BY <1>2, <1>3, <1>4, <1>5, ShiftPlus, Zenon DEF FundsChange
<1> QED
  BY <1>6 DEF u

LEMMA FundsStepShift ==
    ASSUME NEW p, NEW r \in Results, NEW tx \in FundsTx, tx \notin closed,
           r.s.acc[tx.from] # Nil, r.s.acc[tx.to] # Nil
    PROVE  \/ fundsStep(p, r, tx) = r /\ r.err
           \/ fundsStep(p, r, tx) = Failed(r.s)
           \/ /\ ~r.err
              /\ fundsStep(p, r, tx) = Ok(Transfer(Issue(r.s, tx, 1), tx, 1))
<1>1. Nil \notin {r.s.acc[tx.from], r.s.acc[tx.to]}
  OBVIOUS
<1> QED
  BY <1>1, Zenon DEF fundsStep

LEMMA FundsIsFold ==
    ASSUME NEW s, NEW txs
    PROVE  fundsStateChange(s, txs) = FundsLoop!Folded(0, Ok(s), txs)
BY Zenon DEF fundsStateChange, ForEach, fundsStep, FoldLeft, MapThenFoldSet, Max,
             FundsLoop!Folded, FundsLoop!MapThenFoldSet, FundsLoop!Largest

(* The senders and receivers exist and the transactions are new.           *)
Payable(s, txs) ==
    /\ txs \in Seq(FundsTx)
    /\ \A k \in 1 .. Len(txs) : Live(s, txs[k].from) /\ Live(s, txs[k].to)

LEMMA FundsForward ==
    ASSUME NEW s \in States, NEW txs, Payable(s, txs), \A k \in 1 .. Len(txs) : txs[k] \notin closed
    PROVE  /\ fundsStateChange(s, txs) \in Results
           /\ Alike(s, fundsStateChange(s, txs).s)
           /\ \/ fundsStateChange(s, txs).err
              \/ Shift(s, fundsStateChange(s, txs).s, Total(FundsW(s.root), txs))
<1> DEFINE W == FundsW(s.root)
           I == Forth(s, W, txs)
<1>0. txs \in Seq(FundsTx) /\ txs \in Seq(Tx) /\ Len(txs) \in Nat /\ W \in Weights
  BY PartsOfTx, WeightTypes DEF Payable
<1>1. Ok(s) \in I[0]
  BY <1>0, ForthStart, Zenon
<1>2. ASSUME NEW k \in 1 .. Len(txs), NEW r \in Results, r \in I[k - 1]
      PROVE  fundsStep(0, r, txs[k]) \in I[k]
  <2> DEFINE tx == txs[k]
             q == fundsStep(0, r, tx)
             u == Transfer(Issue(r.s, tx, 1), tx, 1)
  <2>1. tx \in FundsTx /\ tx \in Tx /\ tx \notin closed
    BY <1>0 DEF FundsTx
  <2>2. Alike(s, r.s) /\ r.s \in States
    BY <1>0, <1>2, ForthIn, Zenon
  <2>3. r.s.acc[tx.from] # Nil /\ r.s.acc[tx.to] # Nil /\ r.s.root = s.root
    BY <2>2 DEF Payable, Live, Alike
  <2>4. q \in Results
    BY <2>1, FundsStepType, Zenon
  <2>5. Shift(r.s, u, FundsChange(s.root, tx)) /\ FundsChange(s.root, tx) \in Change
    BY <2>1, <2>2, <2>3, FundsForth
  <2>6. u \in States
    BY <2>5, ShiftExists, Zenon
  <2>7. \A i \in Slot : FundsChange(s.root, tx)[i] = W[i][tx]
    BY <2>1 DEF FundsW, FundsTx
  <2>8. \/ q = r /\ r.err
        \/ q = Failed(r.s)
        \/ ~r.err /\ q = Ok(u)
    BY <2>1, <2>3, FundsStepShift, Zenon
  <2> HIDE DEF W, u, q
  <2>9. \/ q = r /\ r.err
        \/ q = Failed(r.s)
        \/ /\ ~r.err
           /\ \E e \in Change, v \in States :
                 /\ q = Ok(v) /\ Shift(r.s, v, e)
                 /\ \A i \in Slot : e[i] = W[i][txs[k]]
    BY <2>5, <2>6, <2>7, <2>8, Zenon
  <2>10. q \in Forth(s, W, txs)[k]
    BY <1>0, <1>2, <2>4, <2>9, ForthStep, Zenon
  <2> QED
    BY <2>10 DEF q
<1>3. FundsLoop!Keeps(0, Ok(s), txs, I)
  BY <1>1, <1>2, Zenon DEF FundsLoop!Keeps
<1>4. \A r \in Results, tx \in FundsTx : fundsStep(0, r, tx) \in Results
  BY FundsStepType, Zenon
<1>5. Ok(s) \in Results
  BY ResultTypes
<1>6. fundsStateChange(s, txs) \in I[Len(txs)]
  <2> HIDE DEF I
  <2>1. FundsLoop!Folded(0, Ok(s), txs) \in I[Len(txs)]
    BY <1>0, <1>3, <1>4, <1>5, FundsLoop!FoldInvariant, Zenon
  <2> QED
    BY <2>1, FundsIsFold, Zenon
<1> QED
  BY <1>0, <1>6, ForthEnd, Zenon

-----------------------------------------------------------------------------
(* The loop of stakeStateChange.                                           *)
stakeStep(p, r, tx) ==
    IF r.err THEN r
    ELSE IF r.s.acc[tx.acc] = Nil THEN Ok([r.s EXCEPT !.dead = TRUE])
    ELSE IF \/ tx.staking = r.s.acc[tx.acc].staking
            \/ tx.staking /\ r.s.acc[tx.acc].bal < tx.fee + StakingMinimum
            \/ tx.fee > r.s.acc[tx.acc].bal
    THEN Failed(r.s)
    ELSE Ok(Update(r.s, tx.acc, [r.s.acc[tx.acc] EXCEPT
                                    !.staking = tx.staking, !.height = p]))

StakeLoop == INSTANCE FoldFacts WITH step <- stakeStep, X <- Results, Y <- StakeTx

LEMMA StakeIsFold ==
    ASSUME NEW s, NEW txs, NEW height
    PROVE  stakeStateChange(s, txs, height) = StakeLoop!Folded(height, Ok(s), txs)
BY Zenon DEF stakeStateChange, ForEach, stakeStep, FoldLeft, MapThenFoldSet, Max,
             StakeLoop!Folded, StakeLoop!MapThenFoldSet, StakeLoop!Largest

LEMMA StakeStepType ==
    ASSUME NEW p \in Nat
    PROVE  \A r \in Results, tx \in StakeTx : stakeStep(p, r, tx) \in Results
<1> SUFFICES ASSUME NEW r \in Results, NEW tx \in StakeTx PROVE stakeStep(p, r, tx) \in Results
  OBVIOUS
<1> DEFINE v == [r.s.acc[tx.acc] EXCEPT !.staking = tx.staking, !.height = p]
<1>1. r.s \in States /\ tx.acc \in Account /\ tx.staking \in BOOLEAN
  BY TxFields DEF Results
<1>2. r.s.acc[tx.acc] # Nil => v \in AccountState
  <2> SUFFICES ASSUME r.s.acc[tx.acc] # Nil PROVE v \in AccountState
    OBVIOUS
  <2>1. r.s.acc[tx.acc] \in AccountState
    BY <1>1 DEF States
  <2> QED
    BY <2>1, <1>1 DEF AccountState
<1>3. Update(r.s, tx.acc, v) \in States
  <2> HIDE DEF v
  <2> QED
    BY <1>1, <1>2, UpdateType, Zenon
<1>4. [r.s EXCEPT !.dead = TRUE] \in States
  BY <1>1 DEF States
<1> QED
  BY <1>1, <1>3, <1>4, ResultTypes, Zenon DEF stakeStep

LEMMA StakeForth ==
    ASSUME NEW s \in States, NEW tx \in StakeTx, s.acc[tx.acc] # Nil,
           tx.staking # s.acc[tx.acc].staking, NEW h \in Nat
    PROVE  Shift(s, Update(s, tx.acc, [s.acc[tx.acc] EXCEPT !.staking = tx.staking, !.height = h]),
                 At(tx.acc, "staking", 1))
<1> DEFINE v == [s.acc[tx.acc] EXCEPT !.staking = tx.staking, !.height = h]
<1>1. tx.acc \in Account /\ tx.staking \in BOOLEAN /\ 1 \in Int
  BY TxFields
<1>2. s.acc[tx.acc] \in AccountState
  BY <1>1 DEF States
<1>3. v \in AccountState /\ v.bal = s.acc[tx.acc].bal /\ v.cnt = s.acc[tx.acc].cnt
      /\ v.staking # s.acc[tx.acc].staking
  BY <1>1, <1>2 DEF AccountState
<1> HIDE DEF v
<1>4. Shift(s, Update(s, tx.acc, v), At(tx.acc, "staking", 1))
  BY <1>1, <1>3, StakeShift, Zenon
<1> QED
  BY <1>4 DEF v

(* The validators named in stake transactions exist.                       *)
Stakeable(s, txs) ==
    /\ txs \in Seq(StakeTx)
    /\ \A k \in 1 .. Len(txs) : Live(s, txs[k].acc)

LEMMA StakeForward ==
    ASSUME NEW s \in States, NEW txs, Stakeable(s, txs), NEW h \in Nat
    PROVE  /\ stakeStateChange(s, txs, h) \in Results
           /\ Alike(s, stakeStateChange(s, txs, h).s)
           /\ \/ stakeStateChange(s, txs, h).err
              \/ Shift(s, stakeStateChange(s, txs, h).s, Total(StakeW, txs))
<1> DEFINE W == StakeW
           I == Forth(s, W, txs)
<1>0. txs \in Seq(StakeTx) /\ txs \in Seq(Tx) /\ Len(txs) \in Nat /\ W \in Weights
  BY PartsOfTx, WeightTypes DEF Stakeable
<1>1. Ok(s) \in I[0]
  BY <1>0, ForthStart, Zenon
<1>2. ASSUME NEW k \in 1 .. Len(txs), NEW r \in Results, r \in I[k - 1]
      PROVE  stakeStep(h, r, txs[k]) \in I[k]
  <2> DEFINE tx == txs[k]
             q == stakeStep(h, r, tx)
             u == Update(r.s, tx.acc, [r.s.acc[tx.acc] EXCEPT !.staking = tx.staking, !.height = h])
             e == At(tx.acc, "staking", 1)
  <2>1. tx \in StakeTx /\ tx \in Tx /\ tx.acc \in Account
    BY <1>0, TxFields DEF StakeTx
  <2>2. Alike(s, r.s) /\ r.s \in States
    BY <1>0, <1>2, ForthIn, Zenon
  <2>3. r.s.acc[tx.acc] # Nil
    BY <2>2 DEF Stakeable, Live, Alike
  <2>4. q \in Results
    BY <2>1, StakeStepType, Zenon
  <2>5. tx.staking # r.s.acc[tx.acc].staking => Shift(r.s, u, e)
    BY <2>1, <2>2, <2>3, StakeForth, Zenon
  <2>6. e \in Change
    BY <2>1, ChangeTypes, Zenon
  <2>7. \A i \in Slot : e[i] = W[i][tx]
    BY <2>1 DEF StakeW, StakeTx
  <2>8. \/ q = r /\ r.err
        \/ q = Failed(r.s)
        \/ ~r.err /\ q = Ok(u) /\ tx.staking # r.s.acc[tx.acc].staking
    BY <2>3, Zenon DEF stakeStep
  <2> HIDE DEF W, u, q, e
  <2>9. \/ q = r /\ r.err
        \/ q = Failed(r.s)
        \/ /\ ~r.err
           /\ \E d \in Change, v \in States :
                 /\ q = Ok(v) /\ Shift(r.s, v, d)
                 /\ \A i \in Slot : d[i] = W[i][txs[k]]
    BY <2>5, <2>6, <2>7, <2>8, ShiftExists, Zenon
  <2>10. q \in Forth(s, W, txs)[k]
    BY <1>0, <1>2, <2>4, <2>9, ForthStep, Zenon
  <2> QED
    BY <2>10 DEF q
<1>3. StakeLoop!Keeps(h, Ok(s), txs, I)
  BY <1>1, <1>2, Zenon DEF StakeLoop!Keeps
<1>4. \A r \in Results, tx \in StakeTx : stakeStep(h, r, tx) \in Results
  BY StakeStepType, Zenon
<1>5. Ok(s) \in Results
  BY ResultTypes
<1>6. stakeStateChange(s, txs, h) \in I[Len(txs)]
  <2> HIDE DEF I
  <2>1. StakeLoop!Folded(h, Ok(s), txs) \in I[Len(txs)]
    BY <1>0, <1>3, <1>4, <1>5, StakeLoop!FoldInvariant, Zenon
  <2> QED
    BY <2>1, StakeIsFold, Zenon
<1> QED
  BY <1>0, <1>6, ForthEnd, Zenon

-----------------------------------------------------------------------------
(* The loop of collectTxFees.                                              *)
feeStep(p, r, tx) ==
    IF r.err THEN r
    ELSE IF IF Payer(tx) = Nil THEN Exceeds(r.s.acc[p].bal + tx.fee, MaxMoney)
            ELSE r.s.acc[Payer(tx)] = Nil
    THEN Failed(r.s)
    ELSE Ok(MoveFee(r.s, tx, p, 1))

FeeLoop == INSTANCE FoldFacts WITH step <- feeStep, X <- Results, Y <- Tx

FeeTxs(b) == b.acc \o b.funds \o b.agg \o b.config \o b.stake
FeesMoved(s, m, txs) == FeeLoop!Folded(m, Ok(s), txs)

LEMMA FeesAreFold ==
    ASSUME NEW s, NEW b
    PROVE  collectTxFees(s, b) =
              LET moved == FeesMoved(s, b.beneficiary, FeeTxs(b))
              IN IF s.acc[b.beneficiary] = Nil \/ moved.err THEN Failed(s) ELSE moved
BY Zenon DEF collectTxFees, ForEach, feeStep, FoldLeft, MapThenFoldSet, Max, FeesMoved, FeeTxs,
             FeeLoop!Folded, FeeLoop!MapThenFoldSet, FeeLoop!Largest

LEMMA FeeStepType ==
    ASSUME NEW p \in Account
    PROVE  \A r \in Results, tx \in Tx : feeStep(p, r, tx) \in Results
<1> SUFFICES ASSUME NEW r \in Results, NEW tx \in Tx PROVE feeStep(p, r, tx) \in Results
  OBVIOUS
<1>1. r.s \in States /\ Sign(1)
  BY ChangesOpposite DEF Results
<1>2. MoveFee(r.s, tx, p, 1) \in States
  BY <1>1, MovesType, Zenon
<1> QED
  BY <1>1, <1>2, ResultTypes, Zenon DEF feeStep

LEMMA FeesForward ==
    ASSUME NEW s \in States, NEW m, Live(s, m), NEW txs \in Seq(Tx)
    PROVE  /\ FeesMoved(s, m, txs) \in Results
           /\ Alike(s, FeesMoved(s, m, txs).s)
           /\ \/ FeesMoved(s, m, txs).err
              \/ Shift(s, FeesMoved(s, m, txs).s, Total(FeeW(m), txs))
<1> DEFINE W == FeeW(m)
           I == Forth(s, W, txs)
<1>0. Len(txs) \in Nat /\ m \in Account /\ W \in Weights
  BY WeightTypes DEF Live
<1>1. Ok(s) \in I[0]
  BY <1>0, ForthStart, Zenon
<1>2. ASSUME NEW k \in 1 .. Len(txs), NEW r \in Results, r \in I[k - 1]
      PROVE  feeStep(m, r, txs[k]) \in I[k]
  <2> DEFINE tx == txs[k]
             q == feeStep(m, r, tx)
             u == MoveFee(r.s, tx, m, 1)
             e == FeeChange(m, tx, 1)
  <2>1. tx \in Tx /\ Sign(1)
    BY <1>0, ChangesOpposite
  <2>2. Alike(s, r.s) /\ r.s \in States
    BY <1>0, <1>2, ForthIn, Zenon
  <2>3. r.s.acc[m] # Nil
    BY <2>2 DEF Live, Alike
  <2>4. q \in Results
    BY <1>0, <2>1, FeeStepType, Zenon
  <2>5. Payer(tx) = Nil \/ r.s.acc[Payer(tx)] # Nil => Shift(r.s, u, e)
    BY <1>0, <2>1, <2>2, <2>3, FeeShift, Zenon
  <2>6. e \in Change
    BY <1>0, <2>1, ChangeTypes, Zenon
  <2>7. \A i \in Slot : e[i] = W[i][tx]
    BY <2>1 DEF FeeW
  <2>8. \/ q = r /\ r.err
        \/ q = Failed(r.s)
        \/ ~r.err /\ q = Ok(u) /\ (Payer(tx) = Nil \/ r.s.acc[Payer(tx)] # Nil)
    BY Zenon DEF feeStep
  <2> HIDE DEF W, u, q, e
  <2>9. \/ q = r /\ r.err
        \/ q = Failed(r.s)
        \/ /\ ~r.err
           /\ \E d \in Change, v \in States :
                 /\ q = Ok(v) /\ Shift(r.s, v, d)
                 /\ \A i \in Slot : d[i] = W[i][txs[k]]
    BY <2>5, <2>6, <2>7, <2>8, ShiftExists, Zenon
  <2>10. q \in Forth(s, W, txs)[k]
    BY <1>0, <1>2, <2>4, <2>9, ForthStep, Zenon
  <2> QED
    BY <2>10 DEF q
<1>3. FeeLoop!Keeps(m, Ok(s), txs, I)
  BY <1>1, <1>2, Zenon DEF FeeLoop!Keeps
<1>4. \A r \in Results, tx \in Tx : feeStep(m, r, tx) \in Results
  BY <1>0, FeeStepType, Zenon
<1>5. Ok(s) \in Results
  BY ResultTypes
<1>6. FeesMoved(s, m, txs) \in I[Len(txs)]
  <2> HIDE DEF I
  <2> QED
    BY <1>0, <1>3, <1>4, <1>5, FeeLoop!FoldInvariant, Zenon DEF FeesMoved
<1> QED
  BY <1>0, <1>6, ForthEnd, Zenon

-----------------------------------------------------------------------------
(* The loops that undo.                                                    *)
fundsBackStep(p, u, tx) == Issue(Transfer(u, tx, -1), tx, -1)
feeBackStep(p, u, tx)   == MoveFee(u, tx, p, -1)
stakeBackStep(p, u, tx) == Update(u, tx.acc, [u.acc[tx.acc] EXCEPT !.staking = ~@])

FundsBackLoop == INSTANCE FoldFacts WITH step <- fundsBackStep, X <- States, Y <- FundsTx
FeeBackLoop   == INSTANCE FoldFacts WITH step <- feeBackStep, X <- States, Y <- Tx
StakeBackLoop == INSTANCE FoldFacts WITH step <- stakeBackStep, X <- States, Y <- StakeTx

LEMMA BacksAreFolds ==
    ASSUME NEW s, NEW txs, NEW m
    PROVE  /\ fundsStateChangeRollback(s, txs) = FundsBackLoop!Folded(0, s, Reverse(txs))
           /\ collectTxFeesRollback(s, txs, m) = FeeBackLoop!Folded(m, s, txs)
           /\ stakeStateChangeRollback(s, txs) = StakeBackLoop!Folded(0, s, Reverse(txs))
<1>1. fundsStateChangeRollback(s, txs) = FundsBackLoop!Folded(0, s, Reverse(txs))
  BY Zenon DEF fundsStateChangeRollback, fundsBackStep, FoldLeft, MapThenFoldSet, Max,
         Reverse, FundsBackLoop!Folded, FundsBackLoop!MapThenFoldSet, FundsBackLoop!Largest
<1>2. collectTxFeesRollback(s, txs, m) = FeeBackLoop!Folded(m, s, txs)
  BY Zenon DEF collectTxFeesRollback, feeBackStep, FoldLeft, MapThenFoldSet, Max,
         FeeBackLoop!Folded, FeeBackLoop!MapThenFoldSet, FeeBackLoop!Largest
<1>3. stakeStateChangeRollback(s, txs) = StakeBackLoop!Folded(0, s, Reverse(txs))
  BY Zenon DEF stakeStateChangeRollback, stakeBackStep, FoldLeft, MapThenFoldSet, Max,
         Reverse, StakeBackLoop!Folded, StakeBackLoop!MapThenFoldSet, StakeBackLoop!Largest
<1> QED
  BY <1>1, <1>2, <1>3, Zenon

LEMMA StakeToggled ==
    ASSUME NEW s \in States, NEW tx \in StakeTx
    PROVE  /\ stakeBackStep(0, s, tx) \in States
           /\ s.acc[tx.acc] # Nil =>
                 \E d \in Change : /\ Shift(s, stakeBackStep(0, s, tx), d)
                                   /\ \A i \in Slot : d[i] = 0 - At(tx.acc, "staking", 1)[i]
<1> DEFINE v == [s.acc[tx.acc] EXCEPT !.staking = ~@]
<1>1. tx.acc \in Account
  BY TxFields
<1>2. ASSUME s.acc[tx.acc] # Nil
      PROVE  v \in AccountState /\ v.bal = s.acc[tx.acc].bal /\ v.cnt = s.acc[tx.acc].cnt
             /\ v.staking # s.acc[tx.acc].staking
  <2>1. s.acc[tx.acc] \in AccountState
    BY <1>1, <1>2 DEF States
  <2> QED
    BY <2>1 DEF AccountState
<1> HIDE DEF v
<1>3. Update(s, tx.acc, v) \in States
  BY <1>1, <1>2, UpdateType, Zenon
<1>4. ASSUME s.acc[tx.acc] # Nil PROVE Shift(s, Update(s, tx.acc, v), At(tx.acc, "staking", -1))
  <2>1. -1 \in Int /\ -1 + 1 = 0
    OBVIOUS
  <2> QED
    BY <1>1, <1>2, <1>4, <2>1, StakeShift, Zenon
<1>5. At(tx.acc, "staking", -1) \in Change
  <2>1. -1 \in Int
    OBVIOUS
  <2> QED
    BY <2>1, AtChange, Zenon
<1>6. \A i \in Slot : At(tx.acc, "staking", -1)[i] = 0 - At(tx.acc, "staking", 1)[i]
  BY DEF At
<1> QED
  BY <1>3, <1>4, <1>5, <1>6, Zenon DEF stakeBackStep, v

LEMMA FundsUndone ==
    ASSUME NEW s \in States, NEW tx \in FundsTx, s.acc[tx.from] # Nil, s.acc[tx.to] # Nil
    PROVE  \E d \in Change : /\ Shift(s, fundsBackStep(0, s, tx), d)
                             /\ \A i \in Slot : d[i] = 0 - FundsChange(s.root, tx)[i]
<1> DEFINE u == Transfer(s, tx, -1)
           v == Issue(u, tx, -1)
<1>1. tx.from \in Account /\ Sign(-1)
  BY TxFields, ChangesOpposite
<1>2. Shift(s, u, TransferChange(tx, -1)) /\ TransferChange(tx, -1) \in Change
  BY <1>1, TransferShift, Zenon
<1> HIDE DEF u
<1>3. u \in States /\ u.root = s.root /\ u.acc[tx.from] # Nil
  BY <1>1, <1>2, ShiftExists, Zenon
<1>4. Shift(u, v, IssueChange(s.root, tx, -1)) /\ IssueChange(s.root, tx, -1) \in Change
  <2>1. Shift(u, v, IssueChange(u.root, tx, -1)) /\ IssueChange(u.root, tx, -1) \in Change
    BY <1>1, <1>3, IssueShift, Zenon
  <2> QED
    BY <1>3, <2>1, Zenon
<1> HIDE DEF v
<1>5. v \in States
  BY <1>4, ShiftExists, Zenon
<1>6. /\ Shift(s, v, Plus(TransferChange(tx, -1), IssueChange(s.root, tx, -1)))
      /\ Plus(TransferChange(tx, -1), IssueChange(s.root, tx, -1)) \in Change
  BY <1>2, <1>3, <1>4, <1>5, ShiftPlus, Zenon
<1>7. \A i \in Slot :
         Plus(TransferChange(tx, -1), IssueChange(s.root, tx, -1))[i] = 0 - FundsChange(s.root, tx)[i]
  BY ChangesOpposite
<1>8. v = fundsBackStep(0, s, tx)
  BY DEF fundsBackStep, u, v
<1> QED
  BY <1>6, <1>7, <1>8, Zenon

LEMMA FundsBackward ==
    ASSUME NEW s \in States, NEW txs, Payable(s, txs)
    PROVE  Shift(s, fundsStateChangeRollback(s, txs), Total(MinusW(FundsW(s.root)), Reverse(txs)))
<1> DEFINE W == MinusW(FundsW(s.root))
           rev == Reverse(txs)
           I == Back(s, W, rev)
<1>0. rev \in Seq(FundsTx) /\ rev \in Seq(Tx) /\ Len(rev) \in Nat /\ W \in Weights
  <2>1. W \in Weights
    BY WeightTypes
  <2> QED
    BY <2>1, PartsOfTx DEF Payable
<1>1. s \in I[0]
  BY <1>0, ForthStart, Zenon
<1>2. ASSUME NEW u \in States, NEW tx \in FundsTx PROVE fundsBackStep(0, u, tx) \in States
  <2>1. Sign(-1)
    BY ChangesOpposite
  <2>2. Transfer(u, tx, -1) \in States
    BY <2>1, MovesType, Zenon
  <2> QED
    BY <2>1, <2>2, MovesType, Zenon DEF fundsBackStep
<1>3. ASSUME NEW k \in 1 .. Len(rev), NEW u \in States, u \in I[k - 1]
      PROVE  fundsBackStep(0, u, rev[k]) \in I[k]
  <2> DEFINE tx == rev[k]
             v == fundsBackStep(0, u, tx)
  <2>1. tx \in FundsTx /\ tx \in Tx
    BY <1>0 DEF FundsTx
  <2>2. Alike(s, u)
    BY <1>0, <1>3, BackIn, Zenon
  <2>3. u.acc[tx.from] # Nil /\ u.acc[tx.to] # Nil /\ u.root = s.root
    <3>1. k \in 1 .. Len(txs) /\ Len(txs) + 1 - k \in 1 .. Len(txs) /\ tx = txs[Len(txs) + 1 - k]
      BY DEF Payable, Reverse
    <3> QED
      BY <2>2, <3>1 DEF Payable, Live, Alike
  <2>4. v \in States
    BY <1>2, <2>1
  <2>8. \E d \in Change : Shift(u, v, d) /\ \A i \in Slot : d[i] = 0 - FundsChange(u.root, tx)[i]
    <3> HIDE DEF tx, I
    <3> QED
      BY <2>1, <2>3, FundsUndone, Zenon
  <2>5. PICK d \in Change : Shift(u, v, d) /\ \A i \in Slot : d[i] = 0 - FundsChange(s.root, tx)[i]
    BY <2>3, <2>8, Zenon
  <2>6. \A i \in Slot : d[i] = W[i][tx]
    BY <2>1, <2>5 DEF MinusW, Minus, FundsW, FundsTx
  <2> HIDE DEF W, v
  <2>7. v \in Back(s, W, rev)[k]
    BY <1>0, <1>3, <2>4, <2>5, <2>6, BackStep, Zenon
  <2> QED
    BY <2>7 DEF v
<1>4. FundsBackLoop!Keeps(0, s, rev, I)
  BY <1>1, <1>3, Zenon DEF FundsBackLoop!Keeps
<1>5. fundsStateChangeRollback(s, txs) \in I[Len(rev)]
  <2> HIDE DEF I, rev
  <2>0. \A u \in States, tx \in FundsTx : fundsBackStep(0, u, tx) \in States
    BY <1>2
  <2>1. FundsBackLoop!Folded(0, s, rev) \in I[Len(rev)]
    BY <1>0, <2>0, <1>4, FundsBackLoop!FoldInvariant, Zenon
  <2> QED
    BY <2>1, BacksAreFolds, Zenon DEF rev
<1> QED
  BY <1>0, <1>5, ForthEnd, Zenon

LEMMA StakeBackward ==
    ASSUME NEW s \in States, NEW txs, Stakeable(s, txs)
    PROVE  Shift(s, stakeStateChangeRollback(s, txs), Total(MinusW(StakeW), Reverse(txs)))
<1> DEFINE W == MinusW(StakeW)
           rev == Reverse(txs)
           I == Back(s, W, rev)
<1>0. rev \in Seq(StakeTx) /\ rev \in Seq(Tx) /\ Len(rev) \in Nat /\ W \in Weights
  <2>1. W \in Weights
    BY WeightTypes
  <2> QED
    BY <2>1, PartsOfTx DEF Stakeable
<1>1. s \in I[0]
  BY <1>0, ForthStart, Zenon
<1>2. \A u \in States, tx \in StakeTx : stakeBackStep(0, u, tx) \in States
  BY StakeToggled, Zenon
<1>3. ASSUME NEW k \in 1 .. Len(rev), NEW u \in States, u \in I[k - 1]
      PROVE  stakeBackStep(0, u, rev[k]) \in I[k]
  <2> DEFINE tx == rev[k]
             v == stakeBackStep(0, u, tx)
  <2>1. tx \in StakeTx /\ tx \in Tx
    BY <1>0 DEF StakeTx
  <2>2. Alike(s, u)
    BY <1>0, <1>3, BackIn, Zenon
  <2>3. u.acc[tx.acc] # Nil
    <3>1. k \in 1 .. Len(txs) /\ Len(txs) + 1 - k \in 1 .. Len(txs) /\ tx = txs[Len(txs) + 1 - k]
      BY DEF Stakeable, Reverse
    <3> QED
      BY <2>2, <3>1 DEF Stakeable, Live, Alike
  <2>4. v \in States
    BY <1>2, <2>1
  <2>5. PICK d \in Change : Shift(u, v, d) /\ \A i \in Slot : d[i] = 0 - At(tx.acc, "staking", 1)[i]
    BY <2>1, <2>3, StakeToggled, Zenon
  <2>6. \A i \in Slot : d[i] = W[i][tx]
    BY <2>1, <2>5 DEF MinusW, Minus, StakeW, StakeTx
  <2> HIDE DEF W, v
  <2>7. v \in Back(s, W, rev)[k]
    BY <1>0, <1>3, <2>4, <2>5, <2>6, BackStep, Zenon
  <2> QED
    BY <2>7 DEF v
<1>4. StakeBackLoop!Keeps(0, s, rev, I)
  BY <1>1, <1>3, Zenon DEF StakeBackLoop!Keeps
<1>5. stakeStateChangeRollback(s, txs) \in I[Len(rev)]
  <2> HIDE DEF I, rev
  <2>1. StakeBackLoop!Folded(0, s, rev) \in I[Len(rev)]
    BY <1>0, <1>2, <1>4, StakeBackLoop!FoldInvariant, Zenon
  <2> QED
    BY <2>1, BacksAreFolds, Zenon DEF rev
<1> QED
  BY <1>0, <1>5, ForthEnd, Zenon

LEMMA FeesBackward ==
    ASSUME NEW s \in States, NEW m, Live(s, m), NEW txs \in Seq(Tx),
           \A k \in 1 .. Len(txs) : Payer(txs[k]) = Nil \/ s.acc[Payer(txs[k])] # Nil
    PROVE  Shift(s, collectTxFeesRollback(s, txs, m), Total(MinusW(FeeW(m)), txs))
<1> DEFINE W == MinusW(FeeW(m))
           I == Back(s, W, txs)
<1>0. Len(txs) \in Nat /\ m \in Account /\ W \in Weights /\ Sign(-1)
  BY WeightTypes, ChangesOpposite DEF Live
<1>1. s \in I[0]
  BY <1>0, ForthStart, Zenon
<1>2. \A u \in States, tx \in Tx : feeBackStep(m, u, tx) \in States
  BY <1>0, MovesType, Zenon DEF feeBackStep
<1>3. ASSUME NEW k \in 1 .. Len(txs), NEW u \in States, u \in I[k - 1]
      PROVE  feeBackStep(m, u, txs[k]) \in I[k]
  <2> DEFINE tx == txs[k]
             v == feeBackStep(m, u, tx)
             d == FeeChange(m, tx, -1)
  <2>1. tx \in Tx /\ Payer(tx) \in Account \cup {Nil}
    BY <1>0, TxFields
  <2>2. Alike(s, u)
    BY <1>0, <1>3, BackIn, Zenon
  <2>3. u.acc[m] # Nil /\ (Payer(tx) = Nil \/ u.acc[Payer(tx)] # Nil)
    BY <2>1, <2>2 DEF Live, Alike
  <2>4. v \in States
    BY <1>2, <2>1
  <2>5. Shift(u, v, d) /\ d \in Change
    BY <1>0, <2>1, <2>3, FeeShift, Zenon DEF feeBackStep
  <2>6. \A i \in Slot : d[i] = W[i][tx]
    <3>1. \A i \in Slot : d[i] = 0 - FeeChange(m, tx, 1)[i]
      BY <2>1, ChangesOpposite
    <3> HIDE DEF d
    <3> QED
      BY <2>1, <3>1 DEF MinusW, Minus, FeeW
  <2> HIDE DEF W, v, d
  <2>7. v \in Back(s, W, txs)[k]
    BY <1>0, <1>3, <2>4, <2>5, <2>6, BackStep, Zenon
  <2> QED
    BY <2>7 DEF v
<1>4. FeeBackLoop!Keeps(m, s, txs, I)
  BY <1>1, <1>3, Zenon DEF FeeBackLoop!Keeps
<1>5. collectTxFeesRollback(s, txs, m) \in I[Len(txs)]
  <2> HIDE DEF I
  <2>1. FeeBackLoop!Folded(m, s, txs) \in I[Len(txs)]
    BY <1>0, <1>2, <1>4, FeeBackLoop!FoldInvariant, Zenon
  <2> QED
    BY <2>1, BacksAreFolds, Zenon
<1> QED
  BY <1>0, <1>5, ForthEnd, Zenon

-----------------------------------------------------------------------------
(* The accounts a block creates.                                           *)
accStep(p, r, tx) ==
    IF r.err THEN r
    ELSE IF (r.s.acc[tx.acc] = Nil) = (tx.header = 2) THEN Failed(r.s)
    ELSE IF tx.header = 2 THEN Ok([r.s EXCEPT !.root = @ \ {tx.acc}])
    ELSE Ok([r.s EXCEPT !.acc[tx.acc] = NewAccount,
                        !.root = IF tx.header = 1 THEN @ \cup {tx.acc} ELSE @])

accBackStep(p, u, tx) ==
    IF u.acc[tx.acc] = Nil THEN [u EXCEPT !.dead = TRUE]
    ELSE [u EXCEPT !.acc[tx.acc] = Nil,
                   !.root = IF tx.header = 1 THEN @ \ {tx.acc}
                            ELSE IF tx.header = 2 THEN @ \cup {tx.acc} ELSE @]

AccLoop     == INSTANCE FoldFacts WITH step <- accStep, X <- Results, Y <- AccTx
AccBackLoop == INSTANCE FoldFacts WITH step <- accBackStep, X <- States, Y <- AccTx

LEMMA AccsAreFolds ==
    ASSUME NEW s, NEW txs
    PROVE  /\ accStateChange(s, txs) = AccLoop!Folded(0, Ok(s), txs)
           /\ accStateChangeRollback(s, txs) = AccBackLoop!Folded(0, s, txs)
<1>1. accStateChange(s, txs) = AccLoop!Folded(0, Ok(s), txs)
  BY Zenon DEF accStateChange, ForEach, accStep, FoldLeft, MapThenFoldSet, Max,
         AccLoop!Folded, AccLoop!MapThenFoldSet, AccLoop!Largest
<1>2. accStateChangeRollback(s, txs) = AccBackLoop!Folded(0, s, txs)
  BY Zenon DEF accStateChangeRollback, accBackStep, FoldLeft, MapThenFoldSet, Max,
         AccBackLoop!Folded, AccBackLoop!MapThenFoldSet, AccBackLoop!Largest
<1> QED
  BY <1>1, <1>2

(* The accounts of the first k transactions, and the root accounts there.  *)
Named(txs, k) == {txs[j].acc : j \in 1 .. k}
Roots(txs, k) == {txs[j].acc : j \in {x \in 1 .. k : txs[x].header = 1}}

(* No transaction takes the root key of an account away.                   *)
Creating(txs) == txs \in Seq(AccTx) /\ \A k \in 1 .. Len(txs) : txs[k].header # 2

(* Each of the first k transactions made an account of its own.            *)
Made(s, u, txs, k) ==
    /\ u \in States /\ u.dead = s.dead
    /\ \A a \in Named(txs, k) : s.acc[a] = Nil /\ u.acc[a] # Nil /\ u.acc[a].cnt = 0
    /\ \A a \in Account \ Named(txs, k) : u.acc[a] = s.acc[a]
    /\ u.root = s.root \cup Roots(txs, k)
    /\ \A i \in 1 .. k, j \in 1 .. k : i < j => txs[i].acc # txs[j].acc

(* The accounts of the first k transactions are deleted again.             *)
Deleted(s, u, txs, k) ==
    /\ u \in States /\ u.dead = s.dead
    /\ \A a \in Named(txs, k) : u.acc[a] = Nil
    /\ \A a \in Account \ Named(txs, k) : u.acc[a] = s.acc[a]
    /\ u.root = s.root \ Roots(txs, k)

LEMMA NamedNext ==
    ASSUME NEW txs \in Seq(AccTx), NEW k \in 1 .. Len(txs)
    PROVE  /\ Named(txs, k) = Named(txs, k - 1) \cup {txs[k].acc}
           /\ txs[k].header = 1 => Roots(txs, k) = Roots(txs, k - 1) \cup {txs[k].acc}
           /\ txs[k].header # 1 => Roots(txs, k) = Roots(txs, k - 1)
           /\ Named(txs, 0) = {} /\ Roots(txs, 0) = {}
           /\ txs[k] \in AccTx /\ txs[k].acc \in Account
<1>1. txs[k] \in AccTx /\ txs[k].acc \in Account
  BY TxFields
<1>2. \A j : j \in 1 .. k <=> j \in 1 .. (k - 1) \/ j = k
  OBVIOUS
<1>3. Named(txs, k) = Named(txs, k - 1) \cup {txs[k].acc}
  BY <1>2, Zenon DEF Named
<1>4. txs[k].header = 1 => Roots(txs, k) = Roots(txs, k - 1) \cup {txs[k].acc}
  BY <1>2, Zenon DEF Roots
<1>5. txs[k].header # 1 => Roots(txs, k) = Roots(txs, k - 1)
  BY <1>2, Zenon DEF Roots
<1>6. Named(txs, 0) = {} /\ Roots(txs, 0) = {}
  BY DEF Named, Roots
<1> QED
  BY <1>1, <1>3, <1>4, <1>5, <1>6

LEMMA NothingNamed == \A txs : Named(txs, 0) = {} /\ Roots(txs, 0) = {}
BY DEF Named, Roots

LEMMA NewAccountType == NewAccount \in AccountState /\ NewAccount # Nil /\ NewAccount.cnt = 0
<1>1. NewAccount \in AccountState /\ NewAccount.cnt = 0
  BY WrapPositive DEF NewAccount, AccountState
<1> QED
  BY <1>1, LedgerAssumption

LEMMA AccStepTypes ==
    /\ \A r \in Results, tx \in AccTx : accStep(0, r, tx) \in Results
    /\ \A u \in States, tx \in AccTx : accBackStep(0, u, tx) \in States
<1>1. ASSUME NEW r \in Results, NEW tx \in AccTx PROVE accStep(0, r, tx) \in Results
  <2>1. r.s \in States /\ tx.acc \in Account
    BY TxFields DEF Results
  <2>2. [r.s EXCEPT !.root = @ \ {tx.acc}] \in States
    BY <2>1 DEF States
  <2>3. [r.s EXCEPT !.acc[tx.acc] = NewAccount,
                    !.root = IF tx.header = 1 THEN @ \cup {tx.acc} ELSE @] \in States
    BY <2>1, NewAccountType DEF States
  <2> QED
    BY <2>1, <2>2, <2>3, ResultTypes, Zenon DEF accStep
<1>2. ASSUME NEW u \in States, NEW tx \in AccTx PROVE accBackStep(0, u, tx) \in States
  <2>1. tx.acc \in Account
    BY TxFields
  <2> QED
    BY <2>1 DEF accBackStep, States
<1> QED
  BY <1>1, <1>2

LEMMA MakeOne ==
    ASSUME NEW s \in States, NEW u, NEW txs, Creating(txs), NEW k \in 1 .. Len(txs),
           Made(s, u, txs, k - 1), u.acc[txs[k].acc] = Nil
    PROVE  Made(s, [u EXCEPT !.acc[txs[k].acc] = NewAccount,
                             !.root = IF txs[k].header = 1 THEN @ \cup {txs[k].acc} ELSE @], txs, k)
<1> DEFINE tx == txs[k]
           v == [u EXCEPT !.acc[tx.acc] = NewAccount,
                          !.root = IF tx.header = 1 THEN @ \cup {tx.acc} ELSE @]
<1>1. txs \in Seq(AccTx) /\ u \in States
  BY DEF Creating, Made
<1>2. /\ Named(txs, k) = Named(txs, k - 1) \cup {tx.acc}
      /\ tx.header = 1 => Roots(txs, k) = Roots(txs, k - 1) \cup {tx.acc}
      /\ tx.header # 1 => Roots(txs, k) = Roots(txs, k - 1)
      /\ tx.acc \in Account
  BY <1>1, NamedNext
<1>3. tx.acc \notin Named(txs, k - 1)
  BY DEF Made
<1>4. /\ v \in States /\ v.dead = u.dead /\ v.acc[tx.acc] = NewAccount
      /\ \A a \in Account : a # tx.acc => v.acc[a] = u.acc[a]
      /\ v.root = IF tx.header = 1 THEN u.root \cup {tx.acc} ELSE u.root
  BY <1>1, <1>2, NewAccountType DEF States
<1>5. \A a \in Named(txs, k - 1) : a \in Account
  <2>1. Named(txs, k - 1) \subseteq Account
    <3>1. \A j \in 1 .. (k - 1) : j \in 1 .. Len(txs)
      BY <1>1
    <3>2. \A j \in 1 .. Len(txs) : txs[j].acc \in Account
      BY <1>1, TxFields
    <3> QED
      BY <3>1, <3>2 DEF Named
  <2> QED
    BY <2>1
<1>6. \A i \in 1 .. k, j \in 1 .. k : i < j => txs[i].acc # txs[j].acc
  <2> SUFFICES ASSUME NEW i \in 1 .. k, NEW j \in 1 .. k, i < j PROVE txs[i].acc # txs[j].acc
    OBVIOUS
  <2>1. CASE j = k
    <3>1. i \in 1 .. (k - 1)
      BY <2>1
    <3>2. txs[i].acc \in Named(txs, k - 1)
      BY <3>1 DEF Named
    <3> QED
      BY <3>2, <1>3, <2>1
  <2>2. CASE j # k
    <3>1. i \in 1 .. (k - 1) /\ j \in 1 .. (k - 1)
      BY <2>2
    <3> QED
      BY <3>1 DEF Made
  <2> QED
    BY <2>1, <2>2
<1>7. s.acc[tx.acc] = Nil
  BY <1>2, <1>3 DEF Made
<1> HIDE DEF v, tx
<1>8. Made(s, v, txs, k)
  BY <1>2, <1>3, <1>4, <1>5, <1>6, <1>7, NewAccountType DEF Made
<1> QED
  BY <1>8 DEF v, tx

LEMMA AccForward ==
    ASSUME NEW s \in States, NEW txs, Creating(txs)
    PROVE  /\ accStateChange(s, txs) \in Results
           /\ accStateChange(s, txs).s.dead = s.dead
           /\ accStateChange(s, txs).err \/ Made(s, accStateChange(s, txs).s, txs, Len(txs))
<1> DEFINE I == [k \in 0 .. Len(txs) |->
                    {r \in Results : r.s.dead = s.dead /\ (r.err \/ Made(s, r.s, txs, k))}]
<1>0. txs \in Seq(AccTx) /\ Len(txs) \in Nat
  BY DEF Creating
<1>1. \A r : \A k \in 0 .. Len(txs) : r \in I[k] <=>
         r \in Results /\ r.s.dead = s.dead /\ (r.err \/ Made(s, r.s, txs, k))
  BY Zenon
<1> HIDE DEF I
<1>2. Ok(s) \in I[0]
  <2>1. Made(s, s, txs, 0)
    BY NothingNamed DEF Made
  <2>2. 0 \in 0 .. Len(txs)
    BY <1>0
  <2> QED
    BY <1>1, <2>1, <2>2, ResultTypes, Zenon
<1>3. ASSUME NEW k \in 1 .. Len(txs), NEW r \in Results, r \in I[k - 1]
      PROVE  accStep(0, r, txs[k]) \in I[k]
  <2> DEFINE tx == txs[k]
             u == [r.s EXCEPT !.acc[tx.acc] = NewAccount,
                              !.root = IF tx.header = 1 THEN @ \cup {tx.acc} ELSE @]
             q == accStep(0, r, tx)
  <2>1. k \in 0 .. Len(txs) /\ k - 1 \in 0 .. Len(txs) /\ tx \in AccTx /\ tx.header # 2
    BY <1>0 DEF Creating
  <2>2. r.s.dead = s.dead /\ (r.err \/ Made(s, r.s, txs, k - 1)) /\ r.s \in States
    BY <1>1, <1>3, <2>1 DEF Results
  <2>3. q \in Results
    BY <2>1, AccStepTypes, Zenon
  <2>4. \/ q = r /\ r.err
        \/ q = Failed(r.s)
        \/ ~r.err /\ q = Ok(u) /\ r.s.acc[tx.acc] = Nil
    BY <2>1, Zenon DEF accStep
  <2>5. CASE q = r /\ r.err
    <3>1. q \in Results /\ q.s.dead = s.dead /\ q.err
      BY <2>2, <2>3, <2>5
    <3> QED
      BY <1>1, <2>1, <3>1, Zenon
  <2>6. CASE q = Failed(r.s)
    <3>1. q \in Results /\ q.s.dead = s.dead /\ q.err
      BY <2>2, <2>3, <2>6, ResultTypes
    <3> QED
      BY <1>1, <2>1, <3>1, Zenon
  <2>7. CASE ~r.err /\ q = Ok(u) /\ r.s.acc[tx.acc] = Nil
    <3>1. Made(s, u, txs, k)
      BY <2>2, <2>7, MakeOne, Zenon
    <3>2. u \in States /\ u.dead = s.dead
      BY <3>1, Zenon DEF Made
    <3>3. q.s = u
      BY <2>7, <3>2, ResultTypes, Zenon
    <3> QED
      BY <1>1, <2>1, <2>3, <3>1, <3>2, <3>3, Zenon
  <2> QED
    BY <2>4, <2>5, <2>6, <2>7
<1>4. AccLoop!Keeps(0, Ok(s), txs, I)
  BY <1>2, <1>3, Zenon DEF AccLoop!Keeps
<1>5. Ok(s) \in Results /\ Len(txs) \in 0 .. Len(txs)
  <2>1. Ok(s) \in Results
    BY ResultTypes
  <2>2. Len(txs) \in 0 .. Len(txs)
    BY <1>0
  <2> QED
    BY <2>1, <2>2
<1>6. AccLoop!Folded(0, Ok(s), txs) \in I[Len(txs)]
  BY <1>0, <1>4, <1>5, AccStepTypes, AccLoop!FoldInvariant, Zenon
<1>7. accStateChange(s, txs) \in I[Len(txs)]
  BY <1>6, AccsAreFolds, Zenon
<1> QED
  BY <1>1, <1>5, <1>7, Zenon

LEMMA AccBackward ==
    ASSUME NEW s \in States, NEW txs, Creating(txs),
           \A k \in 1 .. Len(txs) : s.acc[txs[k].acc] # Nil,
           \A i \in 1 .. Len(txs), j \in 1 .. Len(txs) : i < j => txs[i].acc # txs[j].acc
    PROVE  Deleted(s, accStateChangeRollback(s, txs), txs, Len(txs))
<1> DEFINE I == [k \in 0 .. Len(txs) |-> {u \in States : Deleted(s, u, txs, k)}]
<1>0. txs \in Seq(AccTx) /\ Len(txs) \in Nat
  BY DEF Creating
<1>1. \A u : \A k \in 0 .. Len(txs) : u \in I[k] <=> u \in States /\ Deleted(s, u, txs, k)
  BY Zenon
<1> HIDE DEF I
<1>2. s \in I[0]
  <2>1. Deleted(s, s, txs, 0)
    BY NothingNamed DEF Deleted
  <2>2. 0 \in 0 .. Len(txs)
    BY <1>0
  <2> QED
    BY <1>1, <2>1, <2>2, Zenon
<1>3. ASSUME NEW k \in 1 .. Len(txs), NEW u \in States, u \in I[k - 1]
      PROVE  accBackStep(0, u, txs[k]) \in I[k]
  <2> DEFINE tx == txs[k]
             v == accBackStep(0, u, tx)
  <2>1. k \in 0 .. Len(txs) /\ k - 1 \in 0 .. Len(txs) /\ tx \in AccTx /\ tx.header # 2
        /\ tx.acc \in Account
    BY <1>0, TxFields DEF Creating
  <2>2. Deleted(s, u, txs, k - 1)
    BY <1>1, <1>3, <2>1, Zenon
  <2>3. tx.acc \notin Named(txs, k - 1)
    <3>1. \A j \in 1 .. (k - 1) : j \in 1 .. Len(txs) /\ j < k
      BY <1>0
    <3> QED
      BY <3>1 DEF Named
  <2>4. u.acc[tx.acc] # Nil
    BY <2>1, <2>2, <2>3 DEF Deleted
  <2>5. v = [u EXCEPT !.acc[tx.acc] = Nil, !.root = IF tx.header = 1 THEN @ \ {tx.acc} ELSE @]
    BY <2>1, <2>4 DEF accBackStep
  <2>6. /\ v \in States /\ v.dead = u.dead /\ v.acc[tx.acc] = Nil
        /\ \A a \in Account : a # tx.acc => v.acc[a] = u.acc[a]
        /\ v.root = IF tx.header = 1 THEN u.root \ {tx.acc} ELSE u.root
    <3> HIDE DEF v, tx
    <3> QED
      BY <2>1, <2>5 DEF States
  <2>7. /\ Named(txs, k) = Named(txs, k - 1) \cup {tx.acc}
        /\ tx.header = 1 => Roots(txs, k) = Roots(txs, k - 1) \cup {tx.acc}
        /\ tx.header # 1 => Roots(txs, k) = Roots(txs, k - 1)
    BY <1>0, NamedNext
  <2>8. \A a \in Named(txs, k - 1) : a \in Account
    <3>1. \A j \in 1 .. (k - 1) : j \in 1 .. Len(txs)
      BY <1>0
    <3>2. \A j \in 1 .. Len(txs) : txs[j].acc \in Account
      BY <1>0, TxFields
    <3> QED
      BY <3>1, <3>2 DEF Named
  <2> HIDE DEF v, tx
  <2>9. Deleted(s, v, txs, k)
    BY <2>2, <2>3, <2>6, <2>7, <2>8 DEF Deleted
  <2> QED
    BY <1>1, <2>1, <2>6, <2>9 DEF v, tx
<1>4. AccBackLoop!Keeps(0, s, txs, I)
  BY <1>2, <1>3, Zenon DEF AccBackLoop!Keeps
<1>5. Len(txs) \in 0 .. Len(txs)
  BY <1>0
<1>6. AccBackLoop!Folded(0, s, txs) \in I[Len(txs)]
  BY <1>0, <1>4, AccStepTypes, AccBackLoop!FoldInvariant, Zenon
<1> QED
  BY <1>1, <1>5, <1>6, AccsAreFolds, Zenon
-----------------------------------------------------------------------------
(* The stages after the loops.                                             *)
ConfigTx == {t \in Tx : t.kind = "config"}

(* A block whose accounts exist in state s; it slashes nobody, or a        *)
(* validator that it does not name otherwise.                              *)
WellFormed(s, b) ==
    /\ Creating(b.acc) /\ Payable(s, b.funds) /\ Payable(s, b.agg)
    /\ b.config \in Seq(ConfigTx) /\ Stakeable(s, b.stake)
    /\ Live(s, b.beneficiary) /\ b.height \in Nat
    /\ b.slashed = Nil \/ Live(s, b.slashed)

Unslashed(s, b) ==
    b.slashed # Nil =>
        /\ s.acc[b.slashed].staking
        /\ \A k \in 1 .. Len(b.stake) : b.stake[k].acc # b.slashed

LEMMA WellFormedAlike ==
    ASSUME NEW s, NEW b, WellFormed(s, b), NEW u, \A a \in Account : s.acc[a] # Nil => u.acc[a] # Nil
    PROVE  WellFormed(u, b)
BY DEF WellFormed, Payable, Stakeable, Live

LEMMA WellFormedParts ==
    ASSUME NEW s, NEW b, WellFormed(s, b)
    PROVE  /\ b.acc \in Seq(Tx) /\ b.funds \in Seq(Tx) /\ b.agg \in Seq(Tx)
           /\ b.config \in Seq(Tx) /\ b.stake \in Seq(Tx)
           /\ FeeTxs(b) \in Seq(Tx) /\ OwnFees(b) \in Seq(Tx)
<1>1. /\ b.acc \in Seq(Tx) /\ b.funds \in Seq(Tx) /\ b.agg \in Seq(Tx) /\ b.stake \in Seq(Tx)
  BY PartsOfTx DEF WellFormed, Creating, Payable, Stakeable
<1>2. b.config \in Seq(Tx)
  BY DEF WellFormed, ConfigTx
<1> QED
  BY <1>1, <1>2 DEF FeeTxs, OwnFees

LEMMA FeesStage ==
    ASSUME NEW s \in States, NEW b, Live(s, b.beneficiary), FeeTxs(b) \in Seq(Tx)
    PROVE  /\ collectTxFees(s, b) \in Results
           /\ Alike(s, collectTxFees(s, b).s)
           /\ \/ collectTxFees(s, b).err
              \/ Shift(s, collectTxFees(s, b).s, Total(FeeW(b.beneficiary), FeeTxs(b)))
<1> DEFINE moved == FeesMoved(s, b.beneficiary, FeeTxs(b))
<1>1. /\ moved \in Results /\ Alike(s, moved.s)
      /\ moved.err \/ Shift(s, moved.s, Total(FeeW(b.beneficiary), FeeTxs(b)))
  BY FeesForward, Zenon
<1>2. collectTxFees(s, b) = IF moved.err THEN Failed(s) ELSE moved
  BY FeesAreFold, Zenon DEF Live
<1> HIDE DEF moved
<1>3. CASE moved.err
  <2>1. collectTxFees(s, b) = Failed(s)
    BY <1>2, <1>3
  <2>2. Alike(s, s)
    BY ShiftZero, ShiftAlike, Zenon
  <2>3. collectTxFees(s, b) \in Results /\ collectTxFees(s, b).s = s /\ collectTxFees(s, b).err
    BY <2>1, ResultTypes
  <2> QED
    BY <2>2, <2>3
<1>4. CASE ~moved.err
  <2>1. collectTxFees(s, b) = moved
    BY <1>2, <1>4
  <2> QED
    BY <1>1, <2>1, Zenon
<1> QED
  BY <1>3, <1>4

LEMMA Parameters ==
    /\ BlockReward \in Int /\ -BlockReward \in Int
    /\ SlashReward \in Int /\ -SlashReward \in Int
    /\ StakingMinimum \in Int /\ -StakingMinimum \in Int
BY LedgerAssumption

LEMMA RewardStage ==
    ASSUME NEW s \in States, NEW b, Live(s, b.beneficiary)
    PROVE  /\ collectBlockReward(s, b) \in Results
           /\ Alike(s, collectBlockReward(s, b).s)
           /\ \/ collectBlockReward(s, b).err
              \/ Shift(s, collectBlockReward(s, b).s, At(b.beneficiary, "bal", BlockReward))
           /\ At(b.beneficiary, "bal", BlockReward) \in Change
           /\ Shift(s, collectBlockRewardRollback(s, b), At(b.beneficiary, "bal", -BlockReward))
           /\ At(b.beneficiary, "bal", -BlockReward) \in Change
<1> DEFINE m == b.beneficiary
           u == Pay(s, m, BlockReward)
<1>1. m \in Account /\ s.acc[m] # Nil
  BY DEF Live
<1>2. /\ Shift(s, u, At(m, "bal", BlockReward)) /\ At(m, "bal", BlockReward) \in Change
      /\ u \in States
  BY <1>1, Parameters, PayChange, Zenon
<1>3. /\ Shift(s, collectBlockRewardRollback(s, b), At(m, "bal", -BlockReward))
      /\ At(m, "bal", -BlockReward) \in Change
  BY <1>1, Parameters, PayChange, Zenon DEF collectBlockRewardRollback
<1>4. Alike(s, s) /\ Alike(s, u)
  BY <1>2, ShiftZero, ShiftAlike, Zenon
<1>5. collectBlockReward(s, b) = Failed(s) \/ collectBlockReward(s, b) = Ok(u)
  BY Zenon DEF collectBlockReward
<1> HIDE DEF u
<1>6. CASE collectBlockReward(s, b) = Failed(s)
  BY <1>2, <1>3, <1>4, <1>6, ResultTypes, Zenon
<1>7. CASE collectBlockReward(s, b) = Ok(u)
  BY <1>2, <1>3, <1>4, <1>7, ResultTypes, Zenon
<1> QED
  BY <1>5, <1>6, <1>7

(* The slashed validator pays and leaves the validator set.                *)
SlashChange(b, n) ==
    IF b.slashed = Nil THEN Zero
    ELSE Plus(Plus(At(b.beneficiary, "bal", n * SlashReward), At(b.slashed, "bal", -n * StakingMinimum)),
              At(b.slashed, "staking", n))

LEMMA SlashStep ==
    ASSUME NEW s \in States, NEW b, Live(s, b.beneficiary), Live(s, b.slashed),
           NEW n, Sign(n), NEW flag \in BOOLEAN
    PROVE  LET u == Pay(Pay(s, b.beneficiary, n * SlashReward), b.slashed, -n * StakingMinimum)
               v == Update(u, b.slashed, [u.acc[b.slashed] EXCEPT !.staking = flag])
           IN /\ Alike(s, v)
              /\ v.acc[b.slashed].staking = flag
              /\ s.acc[b.slashed].staking # flag =>
                    Shift(s, v, SlashChange(b, n)) /\ SlashChange(b, n) \in Change
<1> DEFINE m == b.beneficiary
           c == b.slashed
           t == Pay(s, m, n * SlashReward)
           u == Pay(t, c, -n * StakingMinimum)
           w == [u.acc[c] EXCEPT !.staking = flag]
           v == Update(u, c, w)
           d == Plus(At(m, "bal", n * SlashReward), At(c, "bal", -n * StakingMinimum))
<1>1. m \in Account /\ c \in Account /\ s.acc[m] # Nil /\ s.acc[c] # Nil /\ c # Nil
  BY LedgerAssumption DEF Live
<1>2. n * SlashReward \in Int /\ -n * StakingMinimum \in Int /\ n \in Int /\ (n + 1 = 0 \/ n = 1)
  <2>1. SlashReward \in Nat /\ StakingMinimum \in Nat
    BY LedgerAssumption
  <2> QED
    BY <2>1, SignInt DEF Sign
<1>3. /\ Shift(s, t, At(m, "bal", n * SlashReward)) /\ At(m, "bal", n * SlashReward) \in Change
      /\ t \in States /\ t.acc[c] # Nil
  BY <1>1, <1>2, PayChange, Zenon
<1> HIDE DEF t
<1>4. /\ Shift(t, u, At(c, "bal", -n * StakingMinimum)) /\ At(c, "bal", -n * StakingMinimum) \in Change
      /\ u \in States
  BY <1>1, <1>2, <1>3, PayChange, Zenon
<1> HIDE DEF u
<1>5. Shift(s, u, d) /\ d \in Change
  BY <1>3, <1>4, ShiftPlus, Zenon
<1>6. u.acc[c] # Nil /\ u.acc[c] \in AccountState
  <2>1. u.acc[c] # Nil
    BY <1>1, <1>5, ShiftExists, Zenon
  <2> QED
    BY <1>1, <1>4, <2>1 DEF States
<1>7. /\ w \in AccountState /\ w.bal = u.acc[c].bal /\ w.cnt = u.acc[c].cnt
      /\ w.staking = flag
  BY <1>6 DEF AccountState
<1> HIDE DEF w
<1>8. /\ v \in States /\ v.root = u.root /\ v = [u EXCEPT !.acc[c] = w]
      /\ \A x \in Account : v.acc[x] = Nil <=> u.acc[x] = Nil
  <2>1. u.acc[c] # Nil => w \in AccountState
    BY <1>7
  <2>2. /\ Update(u, c, w) \in States /\ Update(u, c, w).root = u.root
        /\ \A x \in Account : Update(u, c, w).acc[x] = Nil <=> u.acc[x] = Nil
        /\ u.acc[c] # Nil => Update(u, c, w) = [u EXCEPT !.acc[c] = w]
    <3>1. u \in States /\ c \in Account
      BY <1>1, <1>4
    <3> HIDE DEF c
    <3> QED
      BY <3>1, <2>1, UpdateType
  <2> QED
    BY <2>2, <1>6
<1>9. v.dead = u.dead /\ v.acc[c] = w
  BY <1>1, <1>4, <1>8 DEF States
<1>10. Alike(s, v)
  <2>1. Alike(u, v)
    BY <1>8, <1>9 DEF Alike
  <2> QED
    BY <1>5, <2>1, ShiftAlike, AlikeTwice, Zenon
<1>11. ASSUME s.acc[c].staking # flag
       PROVE  Shift(s, v, SlashChange(b, n)) /\ SlashChange(b, n) \in Change
  <2>1. u.acc[c].staking = s.acc[c].staking
    <3> DEFINE i == <<c, "staking">>
    <3>1. i \in Slot /\ i[1] = c
      BY <1>1 DEF Slot
    <3>2. d[i] = 0
      BY <3>1 DEF Plus, At
    <3>3. Val(u, i) = Red(i, Val(s, i) + d[i])
      BY <1>1, <1>5, <3>1 DEF Shift
    <3>4. Val(s, i) \in Int /\ Red(i, Val(s, i)) = Val(s, i)
      BY <1>1, <3>1, ValInt, Zenon
    <3>5. Val(u, i) = Val(s, i)
      BY <3>2, <3>3, <3>4
    <3>6. u.acc[c].staking \in BOOLEAN /\ s.acc[c].staking \in BOOLEAN
      <4>1. s.acc[c] \in AccountState
        BY <1>1 DEF States
      <4> QED
        BY <1>6, <4>1 DEF AccountState
    <3> QED
      BY <3>5, <3>6 DEF Val
  <2>2. Shift(u, v, At(c, "staking", n))
    BY <1>1, <1>2, <1>4, <1>6, <1>7, <1>11, <2>1, StakeShift, Zenon
  <2>3. At(c, "staking", n) \in Change
    BY <1>2, AtChange, Zenon
  <2>4. Shift(s, v, Plus(d, At(c, "staking", n))) /\ Plus(d, At(c, "staking", n)) \in Change
    <3> HIDE DEF d, v
    <3> QED
      BY <1>4, <1>5, <1>8, <2>2, <2>3, ShiftPlus, Zenon
  <2>5. SlashChange(b, n) = Plus(d, At(c, "staking", n))
    BY <1>1 DEF SlashChange
  <2> QED
    BY <2>4, <2>5
<1> QED
  BY <1>7, <1>9, <1>10, <1>11 DEF t, u, w

LEMMA SlashStage ==
    ASSUME NEW s \in States, NEW b, Live(s, b.beneficiary), b.slashed = Nil \/ Live(s, b.slashed)
    PROVE  /\ collectSlashReward(s, b) \in Results
           /\ Alike(s, collectSlashReward(s, b).s)
           /\ \/ collectSlashReward(s, b).err
              \/ b.slashed # Nil => ~collectSlashReward(s, b).s.acc[b.slashed].staking
           /\ \/ collectSlashReward(s, b).err
              \/ b.slashed # Nil /\ s.acc[b.slashed].staking # TRUE
              \/ Shift(s, collectSlashReward(s, b).s, SlashChange(b, 1)) /\ SlashChange(b, 1) \in Change
<1>1. Alike(s, s) /\ Shift(s, s, Zero)
  BY ShiftZero, ShiftAlike, Zenon
<1>2. CASE b.slashed = Nil
  <2>1. collectSlashReward(s, b) = Ok(s)
    BY <1>2 DEF collectSlashReward
  <2>2. SlashChange(b, 1) = Zero
    BY <1>2 DEF SlashChange
  <2>3. Ok(s) \in Results /\ Ok(s).s = s
    BY ResultTypes
  <2> QED
    BY <1>1, <1>2, <2>1, <2>2, <2>3, ZeroChange
<1>3. CASE b.slashed # Nil
  <2> DEFINE u == Pay(Pay(s, b.beneficiary, 1 * SlashReward), b.slashed, -1 * StakingMinimum)
             v == Update(u, b.slashed, [u.acc[b.slashed] EXCEPT !.staking = FALSE])
  <2>1. Sign(1) /\ FALSE \in BOOLEAN /\ Live(s, b.slashed)
    BY <1>3, ChangesOpposite
  <2>2. /\ Alike(s, v) /\ v.acc[b.slashed].staking = FALSE
        /\ s.acc[b.slashed].staking # FALSE => Shift(s, v, SlashChange(b, 1)) /\ SlashChange(b, 1) \in Change
    BY <2>1, SlashStep, Zenon
  <2>3. u = Pay(Pay(s, b.beneficiary, SlashReward), b.slashed, -StakingMinimum)
    <3>1. 1 * SlashReward = SlashReward /\ -1 * StakingMinimum = -StakingMinimum
      BY Parameters
    <3> QED
      BY <3>1
  <2>4. collectSlashReward(s, b) = Failed(s) \/ collectSlashReward(s, b) = Ok(v)
    <3> HIDE DEF u
    <3> QED
      BY <1>3, <2>3, Zenon DEF collectSlashReward
  <2>5. v \in States
    BY <2>2 DEF Alike
  <2> HIDE DEF v
  <2>6. CASE collectSlashReward(s, b) = Failed(s)
    BY <1>1, <2>6, ResultTypes
  <2>7. CASE collectSlashReward(s, b) = Ok(v)
    <3>1. Ok(v) \in Results /\ Ok(v).s = v
      BY <2>5, ResultTypes
    <3>2. ~collectSlashReward(s, b).s.acc[b.slashed].staking /\ Alike(s, collectSlashReward(s, b).s)
          /\ collectSlashReward(s, b) \in Results
      BY <2>2, <2>7, <3>1
    <3>3. ASSUME s.acc[b.slashed].staking = TRUE
          PROVE  Shift(s, collectSlashReward(s, b).s, SlashChange(b, 1)) /\ SlashChange(b, 1) \in Change
      BY <2>2, <2>7, <3>1, <3>3
    <3> QED
      BY <1>3, <3>2, <3>3, Zenon
  <2> QED
    BY <2>4, <2>6, <2>7
<1> QED
  BY <1>2, <1>3

LEMMA SlashUndone ==
    ASSUME NEW s \in States, NEW b, Live(s, b.beneficiary), b.slashed = Nil \/ Live(s, b.slashed)
    PROVE  /\ Alike(s, collectSlashRewardRollback(s, b))
           /\ \/ b.slashed # Nil /\ s.acc[b.slashed].staking # FALSE
              \/ Shift(s, collectSlashRewardRollback(s, b), SlashChange(b, -1)) /\ SlashChange(b, -1) \in Change
<1>1. Alike(s, s) /\ Shift(s, s, Zero)
  BY ShiftZero, ShiftAlike, Zenon
<1>2. CASE b.slashed = Nil
  <2>1. collectSlashRewardRollback(s, b) = s
    BY <1>2 DEF collectSlashRewardRollback
  <2>2. SlashChange(b, -1) = Zero
    BY <1>2 DEF SlashChange
  <2> QED
    BY <1>1, <2>1, <2>2, ZeroChange
<1>3. CASE b.slashed # Nil
  <2> DEFINE u == Pay(Pay(s, b.beneficiary, (-1) * SlashReward), b.slashed, -(-1) * StakingMinimum)
             v == Update(u, b.slashed, [u.acc[b.slashed] EXCEPT !.staking = TRUE])
  <2>1. Sign(-1) /\ TRUE \in BOOLEAN /\ Live(s, b.slashed)
    BY <1>3, ChangesOpposite
  <2>2. /\ Alike(s, v) /\ v.acc[b.slashed].staking = TRUE
        /\ s.acc[b.slashed].staking # TRUE => Shift(s, v, SlashChange(b, -1)) /\ SlashChange(b, -1) \in Change
    BY <2>1, SlashStep, Zenon
  <2>3. u = Pay(Pay(s, b.beneficiary, -SlashReward), b.slashed, StakingMinimum)
    <3>1. (-1) * SlashReward = -SlashReward /\ -(-1) * StakingMinimum = StakingMinimum
      BY Parameters
    <3> QED
      BY <3>1
  <2>4. collectSlashRewardRollback(s, b) = v
    <3> HIDE DEF u
    <3> QED
      BY <1>3, <2>3, Zenon DEF collectSlashRewardRollback
  <2>5. s.acc[b.slashed].staking \in BOOLEAN
    BY <2>1 DEF Live, States, AccountState
  <2> HIDE DEF v
  <2>6. ASSUME s.acc[b.slashed].staking = FALSE
        PROVE  Shift(s, v, SlashChange(b, -1)) /\ SlashChange(b, -1) \in Change
    BY <2>2, <2>6
  <2> QED
    BY <1>3, <2>2, <2>4, <2>6, Zenon
<1> QED
  BY <1>2, <1>3

LEMMA HeightStage ==
    ASSUME NEW s \in States, NEW b, Live(s, b.beneficiary), b.height \in Nat
    PROVE  /\ Shift(s, updateStakingHeight(s, b), Zero)
           /\ View(updateStakingHeight(s, b)) = View(s)
<1> DEFINE m == b.beneficiary
           v == [s.acc[m] EXCEPT !.height = b.height]
           u == Update(s, m, v)
<1>1. m \in Account /\ s.acc[m] # Nil /\ s.acc[m] \in AccountState
  BY DEF Live, States
<1>2. v \in AccountState /\ v.bal = s.acc[m].bal /\ v.cnt = s.acc[m].cnt
      /\ v.staking = s.acc[m].staking
  BY <1>1 DEF AccountState
<1>3. /\ s.acc[m].bal \in 0 .. Wrap - 1 /\ s.acc[m].cnt \in Int /\ s.acc[m].staking \in BOOLEAN
  BY <1>1 DEF AccountState
<1>4. (s.acc[m].bal + 0) % Wrap = s.acc[m].bal
  <2>1. s.acc[m].bal % Wrap = s.acc[m].bal
    BY <1>3, WrapPositive, RemainderSmall
  <2> QED
    BY <2>1, <1>3
<1> HIDE DEF v
<1>5. /\ Zero[<<m, "bal">>] = 0 /\ Zero[<<m, "cnt">>] = 0 /\ Zero[<<m, "staking">>] = 0
      /\ \A i \in Slot : i[1] # m => Zero[i] = 0
  BY <1>1 DEF Zero, Slot
<1>6. /\ v.bal = (s.acc[m].bal + Zero[<<m, "bal">>]) % Wrap
      /\ v.cnt = s.acc[m].cnt + Zero[<<m, "cnt">>]
      /\ (IF v.staking THEN 1 ELSE 0)
            = ((IF s.acc[m].staking THEN 1 ELSE 0) + Zero[<<m, "staking">>]) % 2
  <2>1. (IF v.staking THEN 1 ELSE 0) = ((IF s.acc[m].staking THEN 1 ELSE 0) + 0) % 2
    BY <1>2, <1>3
  <2> QED
    BY <1>2, <1>3, <1>4, <1>5, <2>1
<1>7. Shift(s, u, Zero)
  BY <1>1, <1>2, <1>5, <1>6, UpdateShift, Zenon
<1>8. u \in States
  BY <1>7 DEF Shift
<1> HIDE DEF u
<1>9. \A i \in Slot : Zero[i] = 0
  BY DEF Zero
<1>10. View(u) = View(s)
  BY <1>7, <1>8, <1>9, ViewShift, Zenon
<1> QED
  BY <1>7, <1>10 DEF updateStakingHeight, u, v

-----------------------------------------------------------------------------
(* Deleting the accounts a block made brings the old ones back.            *)
Rooted(s) == \A a \in s.root : s.acc[a] # Nil

LEMMA NamedAccounts ==
    ASSUME NEW txs, Creating(txs)
    PROVE  /\ Roots(txs, Len(txs)) \subseteq Named(txs, Len(txs))
           /\ Named(txs, Len(txs)) \subseteq Account
           /\ \A k \in 1 .. Len(txs) : txs[k].acc \in Named(txs, Len(txs))
<1>1. \A k \in 1 .. Len(txs) : txs[k].acc \in Account
  BY TxFields DEF Creating
<1> QED
  BY <1>1 DEF Named, Roots

LEMMA UndoAcc ==
    ASSUME NEW s \in States, NEW a, NEW u, NEW txs, Creating(txs),
           Made(s, a, txs, Len(txs)), Alike(a, u)
    PROVE  /\ accStateChangeRollback(u, txs) \in States
           /\ accStateChangeRollback(u, txs).dead = s.dead
           /\ Rooted(s) /\ View(u) = View(a) => View(accStateChangeRollback(u, txs)) = View(s)
<1> DEFINE v == accStateChangeRollback(u, txs)
           n == Len(txs)
<1>0. n \in Nat /\ u \in States /\ a \in States
  BY DEF Creating, Alike, Made
<1>1. \A k \in 1 .. n : txs[k].acc \in Named(txs, n) /\ txs[k].acc \in Account
  BY NamedAccounts
<1>2. \A k \in 1 .. n : u.acc[txs[k].acc] # Nil
  BY <1>1 DEF Made, Alike
<1>3. \A i \in 1 .. n, j \in 1 .. n : i < j => txs[i].acc # txs[j].acc
  BY DEF Made
<1>4. Deleted(u, v, txs, n)
  BY <1>0, <1>2, <1>3, AccBackward
<1> HIDE DEF v
<1>5. v \in States /\ v.dead = s.dead
  BY <1>4 DEF Deleted, Alike, Made
<1>6. ASSUME Rooted(s), View(u) = View(a) PROVE View(v) = View(s)
  <2>1. v.root = s.root
    <3>1. u.root = s.root \cup Roots(txs, n) /\ v.root = u.root \ Roots(txs, n)
      BY <1>4 DEF Made, Alike, Deleted
    <3>2. \A x \in Roots(txs, n) : s.acc[x] = Nil
      BY NamedAccounts DEF Made
    <3>3. s.root \cap Roots(txs, n) = {}
      BY <3>2, <1>6 DEF Rooted
    <3> QED
      BY <3>1, <3>3
  <2> DEFINE K(y, x) == IF y.acc[x] = Nil THEN Nil
                        ELSE <<y.acc[x].bal, y.acc[x].cnt, y.acc[x].staking>>
  <2>2. \A y : View(y) = [acc |-> [x \in Account |-> K(y, x)], root |-> y.root]
    BY DEF View
  <2>3. \A x \in Account : K(u, x) = K(a, x)
    <3>1. View(u).acc = View(a).acc
      BY <1>6
    <3>2. [x \in Account |-> K(u, x)] = [x \in Account |-> K(a, x)]
      BY <2>2, <3>1
    <3> HIDE DEF K
    <3> QED
      BY <3>2
  <2>4. ASSUME NEW x \in Account PROVE K(v, x) = K(s, x)
    <3>1. CASE x \in Named(txs, n)
      BY <3>1, <1>4 DEF Deleted, Made
    <3>2. CASE x \notin Named(txs, n)
      <4>1. v.acc[x] = u.acc[x] /\ a.acc[x] = s.acc[x]
        BY <3>2, <1>4 DEF Deleted, Made
      <4> QED
        BY <2>3, <4>1
    <3> QED
      BY <3>1, <3>2
  <2> HIDE DEF K
  <2>5. [x \in Account |-> K(v, x)] = [x \in Account |-> K(s, x)]
    BY <2>4
  <2> QED
    BY <2>1, <2>2, <2>5
<1> QED
  BY <1>5, <1>6 DEF v

LEMMA MadeAlive ==
    ASSUME NEW s \in States, NEW a, NEW txs, Creating(txs), Made(s, a, txs, Len(txs))
    PROVE  /\ a \in States /\ a.dead = s.dead
           /\ \A x \in Account : s.acc[x] # Nil => a.acc[x] # Nil /\ a.acc[x] = s.acc[x]
<1>1. ASSUME NEW x \in Account, s.acc[x] # Nil PROVE a.acc[x] # Nil /\ a.acc[x] = s.acc[x]
  <2>1. x \notin Named(txs, Len(txs))
    BY <1>1 DEF Made
  <2> QED
    BY <1>1, <2>1 DEF Made
<1> QED
  BY <1>1 DEF Made

(* What the accepted block b changes after its accounts are made.          *)
BlockChange(R, b) ==
    Plus(Plus(Plus(Plus(Plus(Total(FundsW(R), b.funds), Total(FundsW(R), b.agg)),
                        Total(StakeW, b.stake)),
                   Total(FeeW(b.beneficiary), FeeTxs(b))),
              At(b.beneficiary, "bal", BlockReward)),
         SlashChange(b, 1))

(* Whoever pays a fee exists.                                              *)
Paying(s, txs) ==
    \A k \in 1 .. Len(txs) : Payer(txs[k]) = Nil \/ s.acc[Payer(txs[k])] # Nil

LEMMA PayingConcat ==
    ASSUME NEW s, NEW s1 \in Seq(Tx), NEW s2 \in Seq(Tx), Paying(s, s1), Paying(s, s2)
    PROVE  s1 \o s2 \in Seq(Tx) /\ Paying(s, s1 \o s2)
<1>1. ASSUME NEW k \in 1 .. Len(s1 \o s2)
      PROVE  \/ k \in 1 .. Len(s1) /\ (s1 \o s2)[k] = s1[k]
             \/ k - Len(s1) \in 1 .. Len(s2) /\ (s1 \o s2)[k] = s2[k - Len(s1)]
  OBVIOUS
<1> QED
  BY <1>1 DEF Paying

(* The undo loops of a refused block find every account they need.         *)
LEMMA UndoAlike ==
    ASSUME NEW s \in States, NEW b, WellFormed(s, b)
    PROVE  /\ Alike(s, fundsStateChangeRollback(s, b.funds))
           /\ Alike(s, fundsStateChangeRollback(s, b.agg))
           /\ Alike(s, stakeStateChangeRollback(s, b.stake))
           /\ Alike(s, collectTxFeesRollback(s, OwnFees(b), b.beneficiary))
           /\ Alike(s, collectTxFeesRollback(s, b.agg, b.beneficiary))
           /\ Shift(s, collectTxFeesRollback(s, OwnFees(b), b.beneficiary),
                    Total(MinusW(FeeW(b.beneficiary)), OwnFees(b)))
           /\ Shift(s, collectTxFeesRollback(s, b.agg, b.beneficiary),
                    Total(MinusW(FeeW(b.beneficiary)), b.agg))
<1>1. /\ Alike(s, fundsStateChangeRollback(s, b.funds))
      /\ Alike(s, fundsStateChangeRollback(s, b.agg))
  BY FundsBackward, ShiftAlike, Zenon DEF WellFormed
<1>2. Alike(s, stakeStateChangeRollback(s, b.stake))
  BY StakeBackward, ShiftAlike, Zenon DEF WellFormed
<1>3. Paying(s, b.acc) /\ Paying(s, b.config)
  BY DEF WellFormed, Creating, AccTx, ConfigTx, Payer, Paying
<1>4. Paying(s, b.funds) /\ Paying(s, b.agg)
  BY DEF WellFormed, Payable, Live, FundsTx, Payer, Paying
<1>5. Paying(s, b.stake)
  BY DEF WellFormed, Stakeable, Live, StakeTx, Payer, Paying
<1>7. /\ b.acc \in Seq(Tx) /\ b.funds \in Seq(Tx) /\ b.agg \in Seq(Tx)
      /\ b.config \in Seq(Tx) /\ b.stake \in Seq(Tx) /\ OwnFees(b) \in Seq(Tx)
  BY WellFormedParts
<1>8. Paying(s, OwnFees(b))
  <2>1. b.acc \o b.funds \in Seq(Tx) /\ Paying(s, b.acc \o b.funds)
    BY <1>3, <1>4, PayingConcat, <1>7
  <2>2. b.acc \o b.funds \o b.config \in Seq(Tx) /\ Paying(s, b.acc \o b.funds \o b.config)
    BY <1>3, PayingConcat, <1>7, <2>1
  <2> QED
    BY <1>5, PayingConcat, <1>7, <2>2 DEF OwnFees
<1>9. Live(s, b.beneficiary)
  BY DEF WellFormed
<1>10. Shift(s, collectTxFeesRollback(s, OwnFees(b), b.beneficiary),
                    Total(MinusW(FeeW(b.beneficiary)), OwnFees(b)))
  BY <1>7, <1>8, <1>9, FeesBackward, Zenon DEF Paying
<1>11. Shift(s, collectTxFeesRollback(s, b.agg, b.beneficiary),
                    Total(MinusW(FeeW(b.beneficiary)), b.agg))
  BY <1>4, <1>7, <1>9, FeesBackward, Zenon DEF Paying
<1> QED
  BY <1>1, <1>2, <1>10, <1>11, ShiftAlike, Zenon

-----------------------------------------------------------------------------
(* Only stake transactions and slashing change the validator set.          *)
LEMMA SumZero ==
    ASSUME NEW d \in Weight, NEW txs \in Seq(Tx), \A k \in 1 .. Len(txs) : d[txs[k]] = 0
    PROVE  Sum(d, txs) = 0
<1> DEFINE r == [k \in 0 .. Len(txs) |-> 0]
<1>1. Len(txs) \in Nat
  OBVIOUS
<1>2. r[0] = 0 /\ r[Len(txs)] = 0
  BY <1>1
<1>3. \A k \in 1 .. Len(txs) : r[k] = r[k - 1] + d[txs[k]]
  BY <1>1
<1> HIDE DEF r
<1> QED
  BY <1>2, <1>3, SumUnique

BeforeSlash(R, b) ==
    Plus(Plus(Plus(Plus(Total(FundsW(R), b.funds), Total(FundsW(R), b.agg)),
                        Total(StakeW, b.stake)),
                   Total(FeeW(b.beneficiary), FeeTxs(b))),
              At(b.beneficiary, "bal", BlockReward))

LEMMA StakingKept ==
    ASSUME NEW s, NEW b, WellFormed(s, b), NEW R, NEW c \in Account,
           \A k \in 1 .. Len(b.stake) : b.stake[k].acc # c
    PROVE  BeforeSlash(R, b)[<<c, "staking">>] = 0
<1> DEFINE i == <<c, "staking">>
<1>0. i \in Slot
  BY DEF Slot
<1>1. /\ b.funds \in Seq(Tx) /\ b.agg \in Seq(Tx) /\ b.stake \in Seq(Tx) /\ FeeTxs(b) \in Seq(Tx)
      /\ b.beneficiary \in Account /\ b.stake \in Seq(StakeTx)
  BY WellFormedParts DEF WellFormed, Live, Stakeable
<1>2. \A a, n : At(a, "bal", n)[i] = 0 /\ At(a, "cnt", n)[i] = 0
  BY <1>0 DEF At
<1>3. Zero[i] = 0 /\ \A d, e : Plus(d, e)[i] = d[i] + e[i]
  BY <1>0 DEF Zero, Plus
<1> HIDE DEF i
<1>4. \A tx : /\ FundsChange(R, tx)[i] = 0
              /\ FeeChange(b.beneficiary, tx, 1)[i] = 0
  BY <1>2, <1>3 DEF FundsChange, IssueChange, TransferChange, FeeChange
<1>5. FundsW(R)[i] \in Weight /\ FeeW(b.beneficiary)[i] \in Weight /\ StakeW[i] \in Weight
  BY <1>0, <1>1, WeightTypes DEF Weights
<1>6. \A tx \in Tx : FundsW(R)[i][tx] = 0 /\ FeeW(b.beneficiary)[i][tx] = 0
  BY <1>0, <1>4 DEF FundsW, FeeW
<1>7. \A k \in 1 .. Len(b.stake) : StakeW[i][b.stake[k]] = 0
  <2> TAKE k \in 1 .. Len(b.stake)
  <2>1. b.stake[k] \in StakeTx /\ b.stake[k] \in Tx /\ b.stake[k].acc # c
    BY <1>1
  <2>2. At(b.stake[k].acc, "staking", 1)[i] = 0
    BY <1>0, <2>1 DEF At, i
  <2> QED
    BY <1>0, <2>1, <2>2 DEF StakeW
<1>8. Sum(FundsW(R)[i], b.funds) = 0 /\ Sum(FundsW(R)[i], b.agg) = 0
  <2>1. \A txs \in Seq(Tx) : \A k \in 1 .. Len(txs) : FundsW(R)[i][txs[k]] = 0
    BY <1>6
  <2> QED
    BY <2>1, <1>1, <1>5, SumZero, Zenon
<1>9. Sum(FeeW(b.beneficiary)[i], FeeTxs(b)) = 0
  <2>1. \A k \in 1 .. Len(FeeTxs(b)) : FeeW(b.beneficiary)[i][FeeTxs(b)[k]] = 0
    BY <1>1, <1>6
  <2> QED
    BY <2>1, <1>1, <1>5, SumZero, Zenon
<1>10. Sum(StakeW[i], b.stake) = 0
  BY <1>1, <1>5, <1>7, SumZero, Zenon
<1>11. /\ Total(FundsW(R), b.funds)[i] = 0 /\ Total(FundsW(R), b.agg)[i] = 0
       /\ Total(StakeW, b.stake)[i] = 0 /\ Total(FeeW(b.beneficiary), FeeTxs(b))[i] = 0
  BY <1>0, <1>8, <1>9, <1>10 DEF Total
<1> QED
  BY <1>2, <1>3, <1>11 DEF BeforeSlash, i

LEMMA StakingSame ==
    ASSUME NEW x \in States, NEW y \in States, NEW d, Shift(x, y, d), NEW c \in Account,
           x.acc[c] # Nil, d[<<c, "staking">>] = 0
    PROVE  y.acc[c].staking = x.acc[c].staking
<1> DEFINE i == <<c, "staking">>
<1>1. i \in Slot /\ i[1] = c /\ d[i] = 0
  BY DEF Slot
<1>2. Val(y, i) = Red(i, Val(x, i) + d[i])
  BY <1>1 DEF Shift
<1>3. Val(x, i) \in Int /\ Red(i, Val(x, i)) = Val(x, i)
  BY <1>1, ValInt, Zenon
<1>4. Val(y, i) = Val(x, i)
  BY <1>1, <1>2, <1>3
<1>5. x.acc[c] \in AccountState /\ y.acc[c] \in AccountState
  BY DEF Shift, States
<1>6. x.acc[c].staking \in BOOLEAN /\ y.acc[c].staking \in BOOLEAN
  BY <1>5 DEF AccountState
<1> QED
  BY <1>4, <1>6 DEF Val

(* The transfers of a block are not closed: it is new.                     *)
Open(b) == /\ \A k \in 1 .. Len(b.funds) : b.funds[k] \notin closed
           /\ \A k \in 1 .. Len(b.agg) : b.agg[k] \notin closed

LEMMA ValidateForward ==
    ASSUME NEW s \in States, NEW b, WellFormed(s, b), Open(b)
    PROVE  /\ validateState(s, b) \in Results
           /\ validateState(s, b).s.dead = s.dead
           /\ \/ validateState(s, b).err
              \/ \E a \in States :
                    /\ Made(s, a, b.acc, Len(b.acc))
                    /\ Alike(a, validateState(s, b).s)
                    /\ b.slashed # Nil => ~validateState(s, b).s.acc[b.slashed].staking
                    /\ Unslashed(s, b) => Shift(a, validateState(s, b).s, BlockChange(a.root, b))
<1> DEFINE a == accStateChange(s, b.acc)
           f == fundsStateChange(a.s, b.funds)
           g == fundsStateChange(f.s, b.agg)
           k == stakeStateChange(g.s, b.stake, b.height)
           e == collectTxFees(k.s, b)
           r == collectBlockReward(e.s, b)
           x == collectSlashReward(r.s, b)
           h == updateStakingHeight(x.s, b)
           V == validateState(s, b)
           m == b.beneficiary
<1>1. /\ a \in Results /\ a.s.dead = s.dead /\ (a.err \/ Made(s, a.s, b.acc, Len(b.acc)))
      /\ a.s \in States /\ Creating(b.acc)
  <2>1. Creating(b.acc)
    BY DEF WellFormed
  <2>2. /\ a \in Results /\ a.s.dead = s.dead /\ (a.err \/ Made(s, a.s, b.acc, Len(b.acc)))
    BY <2>1, AccForward, Zenon
  <2> QED
    BY <2>1, <2>2 DEF Results
<1>2. CASE a.err
  <2>1. V = a
    BY <1>2 DEF validateState
  <2> QED
    BY <1>1, <1>2, <2>1, Zenon
<1>3. CASE ~a.err
  <2>1. Made(s, a.s, b.acc, Len(b.acc)) /\ WellFormed(a.s, b)
    <3>1. Made(s, a.s, b.acc, Len(b.acc))
      BY <1>1, <1>3
    <3>2. \A y \in Account : s.acc[y] # Nil => a.s.acc[y] # Nil
      BY <1>1, <3>1, MadeAlive
    <3> QED
      BY <3>1, <3>2, WellFormedAlike
  <2> DEFINE R == a.s.root
  <2> HIDE DEF a
  <2>2. \A u : Alike(a.s, u) => u \in States /\ WellFormed(u, b) /\ u.root = R /\ u.dead = s.dead
    <3> SUFFICES ASSUME NEW u, Alike(a.s, u)
                 PROVE  u \in States /\ WellFormed(u, b) /\ u.root = R /\ u.dead = s.dead
      OBVIOUS
    <3>1. u \in States /\ u.root = R /\ u.dead = s.dead
          /\ \A y \in Account : a.s.acc[y] # Nil => u.acc[y] # Nil
      BY <1>1 DEF Alike
    <3> QED
      BY <2>1, <3>1, WellFormedAlike
  <2>3. Alike(a.s, a.s)
    BY <1>1, ShiftZero, ShiftAlike, Zenon
  <2>4. /\ f \in Results /\ Alike(a.s, f.s)
        /\ f.err \/ Shift(a.s, f.s, Total(FundsW(R), b.funds))
    BY <1>1, <2>1, FundsForward, Zenon DEF WellFormed, Open
  <2> HIDE DEF f
  <2>5. /\ f.s \in States /\ WellFormed(f.s, b) /\ f.s.root = R
    BY <2>2, <2>4
  <2>6. /\ g \in Results /\ Alike(f.s, g.s)
        /\ g.err \/ Shift(f.s, g.s, Total(FundsW(R), b.agg))
    <3>1. /\ g \in Results /\ Alike(f.s, g.s)
          /\ g.err \/ Shift(f.s, g.s, Total(FundsW(f.s.root), b.agg))
      BY <2>5, FundsForward, Zenon DEF WellFormed, Open
    <3> QED
      BY <2>5, <3>1, Zenon
  <2> HIDE DEF g
  <2>7. Alike(a.s, g.s) /\ g.s \in States /\ WellFormed(g.s, b)
    BY <2>2, <2>4, <2>6, AlikeTwice
  <2>8. /\ k \in Results /\ Alike(g.s, k.s)
        /\ k.err \/ Shift(g.s, k.s, Total(StakeW, b.stake))
    BY <2>7, StakeForward, Zenon DEF WellFormed
  <2> HIDE DEF k
  <2>9. Alike(a.s, k.s) /\ k.s \in States /\ WellFormed(k.s, b)
    BY <2>2, <2>7, <2>8, AlikeTwice
  <2>10. /\ e \in Results /\ Alike(k.s, e.s)
         /\ e.err \/ Shift(k.s, e.s, Total(FeeW(m), FeeTxs(b)))
    BY <2>9, FeesStage, WellFormedParts, Zenon DEF WellFormed
  <2> HIDE DEF e
  <2>11. Alike(a.s, e.s) /\ e.s \in States /\ WellFormed(e.s, b)
    BY <2>2, <2>9, <2>10, AlikeTwice
  <2>12. /\ r \in Results /\ Alike(e.s, r.s)
         /\ r.err \/ Shift(e.s, r.s, At(m, "bal", BlockReward))
         /\ At(m, "bal", BlockReward) \in Change
    BY <2>11, RewardStage, Zenon DEF WellFormed
  <2> HIDE DEF r
  <2>13. Alike(a.s, r.s) /\ r.s \in States /\ WellFormed(r.s, b)
    BY <2>2, <2>11, <2>12, AlikeTwice
  <2>14. /\ x \in Results /\ Alike(r.s, x.s)
         /\ x.err \/ (b.slashed # Nil => ~x.s.acc[b.slashed].staking)
         /\ \/ x.err
            \/ b.slashed # Nil /\ r.s.acc[b.slashed].staking # TRUE
            \/ Shift(r.s, x.s, SlashChange(b, 1)) /\ SlashChange(b, 1) \in Change
    BY <2>13, SlashStage, Zenon DEF WellFormed
  <2> HIDE DEF x
  <2>15. Alike(a.s, x.s) /\ x.s \in States /\ WellFormed(x.s, b)
    BY <2>2, <2>13, <2>14, AlikeTwice
  <2>16. Shift(x.s, h, Zero) /\ View(h) = View(x.s) /\ Alike(x.s, h) /\ h \in States
    <3>1. Shift(x.s, h, Zero) /\ View(h) = View(x.s)
      BY <2>15, HeightStage, Zenon DEF WellFormed
    <3> QED
      BY <3>1, ShiftAlike, ShiftExists, Zenon
  <2> HIDE DEF h
  <2> DEFINE Undone(u) == Failed(accStateChangeRollback(u, b.acc))
  <2>17. \A u : Alike(a.s, u) => Undone(u) \in Results /\ Undone(u).s.dead = s.dead /\ Undone(u).err
    <3> SUFFICES ASSUME NEW u, Alike(a.s, u)
                 PROVE  Undone(u) \in Results /\ Undone(u).s.dead = s.dead /\ Undone(u).err
      OBVIOUS
    <3>1. /\ accStateChangeRollback(u, b.acc) \in States
          /\ accStateChangeRollback(u, b.acc).dead = s.dead
      BY <1>1, <2>1, UndoAcc
    <3> QED
      BY <3>1, ResultTypes
  <2>18. \A u : Alike(a.s, u) =>
            /\ Alike(a.s, fundsStateChangeRollback(u, b.funds))
            /\ Alike(a.s, stakeStateChangeRollback(u, b.stake))
            /\ Alike(a.s, collectTxFeesRollback(u, OwnFees(b), b.beneficiary))
            /\ Alike(a.s, collectBlockRewardRollback(u, b))
    <3> SUFFICES ASSUME NEW u, Alike(a.s, u)
        PROVE   /\ Alike(a.s, fundsStateChangeRollback(u, b.funds))
                /\ Alike(a.s, stakeStateChangeRollback(u, b.stake))
                /\ Alike(a.s, collectTxFeesRollback(u, OwnFees(b), b.beneficiary))
                /\ Alike(a.s, collectBlockRewardRollback(u, b))
      OBVIOUS
    <3>1. u \in States /\ WellFormed(u, b)
      BY <2>2
    <3>2. Alike(u, collectBlockRewardRollback(u, b))
      BY <3>1, RewardStage, ShiftAlike, Zenon DEF WellFormed
    <3>3. /\ Alike(u, fundsStateChangeRollback(u, b.funds))
          /\ Alike(u, stakeStateChangeRollback(u, b.stake))
          /\ Alike(u, collectTxFeesRollback(u, OwnFees(b), b.beneficiary))
      BY <3>1, UndoAlike, Zenon
    <3> QED
      BY <3>2, <3>3, AlikeTwice, Zenon
  <2>19. V = IF f.err THEN Undone(f.s)
             ELSE IF g.err THEN Undone(fundsStateChangeRollback(g.s, b.funds))
             ELSE IF k.err THEN Undone(fundsStateChangeRollback(k.s, b.funds))
             ELSE IF e.err
             THEN Undone(fundsStateChangeRollback(stakeStateChangeRollback(e.s, b.stake), b.funds))
             ELSE IF r.err
             THEN Undone(fundsStateChangeRollback(stakeStateChangeRollback(
                     collectTxFeesRollback(r.s, OwnFees(b), b.beneficiary), b.stake), b.funds))
             ELSE IF x.err
             THEN Undone(fundsStateChangeRollback(stakeStateChangeRollback(
                     collectTxFeesRollback(collectBlockRewardRollback(x.s, b),
                        OwnFees(b), b.beneficiary), b.stake), b.funds))
             ELSE Ok(h)
    BY <1>3, Zenon DEF validateState, a, f, g, k, e, r, x, h
  <2> HIDE DEF V, Undone
  <2>20. CASE f.err \/ g.err \/ k.err \/ e.err \/ r.err \/ x.err
    <3>1. \E u : Alike(a.s, u) /\ V = Undone(u)
      BY <2>4, <2>7, <2>9, <2>11, <2>13, <2>15, <2>18, <2>19, <2>20, Zenon
    <3> QED
      BY <2>17, <3>1 DEF V
  <2>21. CASE ~(f.err \/ g.err \/ k.err \/ e.err \/ r.err \/ x.err)
    <3>1. V = Ok(h)
      BY <2>19, <2>21, Zenon
    <3>2. V \in Results /\ V.s = h /\ V.s.dead = s.dead /\ Alike(a.s, h)
      <4>1. Alike(a.s, h)
        BY <2>15, <2>16, AlikeTwice
      <4> QED
        BY <2>2, <2>16, <3>1, <4>1, ResultTypes
    <3>3. b.slashed # Nil => ~h.acc[b.slashed].staking
      <4>1. CASE b.slashed = Nil
        BY <4>1
      <4>2. CASE b.slashed # Nil
        <5>1. b.slashed \in Account /\ x.s.acc[b.slashed] # Nil
          BY <2>15, <4>2 DEF WellFormed, Live
        <5>2. h.acc[b.slashed].staking = x.s.acc[b.slashed].staking
          <6>1. Zero[<<b.slashed, "staking">>] = 0
            BY <5>1 DEF Zero, Slot
          <6> QED
            BY <2>15, <2>16, <5>1, <6>1, StakingSame, Zenon
        <5> QED
          BY <2>14, <2>21, <4>2, <5>2
      <4> QED
        BY <4>1, <4>2
    <3>4. ASSUME Unslashed(s, b) PROVE Shift(a.s, h, BlockChange(R, b))
      <4>1. /\ Total(FundsW(R), b.funds) \in Change /\ Total(FundsW(R), b.agg) \in Change
            /\ Total(StakeW, b.stake) \in Change /\ Total(FeeW(m), FeeTxs(b)) \in Change
        <5>1. m \in Account
          BY DEF WellFormed, Live
        <5> QED
          BY <5>1, WellFormedParts, WeightTypes, UpToEnds, Zenon
      <4>2. /\ Shift(a.s, g.s, Plus(Total(FundsW(R), b.funds), Total(FundsW(R), b.agg)))
            /\ Plus(Total(FundsW(R), b.funds), Total(FundsW(R), b.agg)) \in Change
        BY <1>1, <2>4, <2>5, <2>6, <2>7, <2>21, <4>1, ShiftPlus, Zenon
      <4> DEFINE D2 == Plus(Total(FundsW(R), b.funds), Total(FundsW(R), b.agg))
                 D3 == Plus(D2, Total(StakeW, b.stake))
                 D4 == Plus(D3, Total(FeeW(m), FeeTxs(b)))
                 D5 == Plus(D4, At(m, "bal", BlockReward))
      <4> HIDE DEF D2
      <4>3. Shift(a.s, k.s, D3) /\ D3 \in Change
        BY <1>1, <2>7, <2>8, <2>9, <2>21, <4>1, <4>2, ShiftPlus, Zenon DEF D2
      <4> HIDE DEF D3
      <4>4. Shift(a.s, e.s, D4) /\ D4 \in Change
        BY <1>1, <2>9, <2>10, <2>11, <2>21, <4>1, <4>3, ShiftPlus, Zenon
      <4> HIDE DEF D4
      <4>5. Shift(a.s, r.s, D5) /\ D5 \in Change
        BY <1>1, <2>11, <2>12, <2>13, <2>21, <4>4, ShiftPlus, Zenon
      <4> HIDE DEF D5
      <4>6. D5 = BeforeSlash(R, b)
        BY DEF D2, D3, D4, D5, BeforeSlash
      <4>7. b.slashed # Nil => r.s.acc[b.slashed].staking = TRUE
        <5> SUFFICES ASSUME b.slashed # Nil PROVE r.s.acc[b.slashed].staking = TRUE
          OBVIOUS
        <5>1. b.slashed \in Account /\ s.acc[b.slashed] # Nil /\ s.acc[b.slashed].staking
              /\ \A j \in 1 .. Len(b.stake) : b.stake[j].acc # b.slashed
          BY <3>4 DEF WellFormed, Live, Unslashed
        <5>2. a.s.acc[b.slashed] # Nil /\ a.s.acc[b.slashed] = s.acc[b.slashed]
          BY <1>1, <2>1, <5>1, MadeAlive
        <5>3. D5[<<b.slashed, "staking">>] = 0
          BY <4>6, <5>1, StakingKept
        <5>4. r.s.acc[b.slashed].staking = a.s.acc[b.slashed].staking
          BY <1>1, <2>13, <4>5, <5>1, <5>2, <5>3, StakingSame, Zenon
        <5>5. s.acc[b.slashed].staking = TRUE
          <6>1. s.acc[b.slashed] \in AccountState
            BY <5>1 DEF States
          <6> QED
            BY <5>1, <6>1 DEF AccountState
        <5> QED
          BY <5>2, <5>4, <5>5, Zenon
      <4>8. Shift(r.s, x.s, SlashChange(b, 1)) /\ SlashChange(b, 1) \in Change
        BY <2>14, <2>21, <4>7, Zenon
      <4>9. Shift(a.s, x.s, Plus(D5, SlashChange(b, 1)))
        BY <1>1, <2>13, <2>15, <4>5, <4>8, ShiftPlus, Zenon
      <4>10. h.dead = x.s.dead
        BY <2>16 DEF Alike
      <4>11. Shift(a.s, h, Plus(D5, SlashChange(b, 1)))
        BY <1>1, <2>15, <2>16, <4>9, <4>10, ShiftView, Zenon
      <4>12. Plus(D5, SlashChange(b, 1)) = BlockChange(R, b)
        BY <4>6 DEF BlockChange, BeforeSlash
      <4> QED
        BY <4>11, <4>12
    <3> QED
      BY <1>1, <2>1, <3>2, <3>3, <3>4 DEF V
  <2> QED
    BY <2>20, <2>21
<1> QED
  BY <1>2, <1>3

-----------------------------------------------------------------------------
(* The rollback loops take back what the stages changed, although they run *)
(* in another order.                                                       *)
Unwound(y, b) ==
    LET u == collectBlockRewardRollback(collectSlashRewardRollback(y, b), b)
        v == stakeStateChangeRollback(
                collectTxFeesRollback(u, OwnFees(b), b.beneficiary), b.stake)
    IN aggregatedStateRollback(fundsStateChangeRollback(v, b.funds), b)

UnwoundChange(R, b) ==
    Plus(Plus(Plus(Plus(Plus(Plus(SlashChange(b, -1),
                                  At(b.beneficiary, "bal", -BlockReward)),
                             Total(MinusW(FeeW(b.beneficiary)), OwnFees(b))),
                        Total(MinusW(StakeW), Reverse(b.stake))),
                   Total(MinusW(FundsW(R)), Reverse(b.funds))),
              Total(MinusW(FundsW(R)), Reverse(b.agg))),
         Total(MinusW(FeeW(b.beneficiary)), b.agg))

LEMMA ChangesCancel ==
    ASSUME NEW s, NEW b, WellFormed(s, b), NEW R, NEW i \in Slot
    PROVE  Plus(BlockChange(R, b), UnwoundChange(R, b))[i] = 0
<1> DEFINE m == b.beneficiary
           F == FundsW(R)
           E == FeeW(m)
<1>1. /\ b.acc \in Seq(Tx) /\ b.funds \in Seq(Tx) /\ b.agg \in Seq(Tx)
      /\ b.config \in Seq(Tx) /\ b.stake \in Seq(Tx) /\ m \in Account
  BY WellFormedParts DEF WellFormed, Live
<1>2. F \in Weights /\ E \in Weights /\ StakeW \in Weights
  BY <1>1, WeightTypes
<1> DEFINE ea == Total(E, b.acc)[i]
           ef == Total(E, b.funds)[i]
           eg == Total(E, b.agg)[i]
           ec == Total(E, b.config)[i]
           es == Total(E, b.stake)[i]
           ff == Total(F, b.funds)[i]
           fg == Total(F, b.agg)[i]
           st == Total(StakeW, b.stake)[i]
<1> HIDE DEF m, F, E
<1>3. /\ ea \in Int /\ ef \in Int /\ eg \in Int /\ ec \in Int /\ es \in Int
      /\ ff \in Int /\ fg \in Int /\ st \in Int
  <2>1. \A W \in Weights, txs \in Seq(Tx) : Total(W, txs)[i] \in Int
    BY UpToEnds DEF Change
  <2> QED
    BY <1>1, <1>2, <2>1
<1>20. \A s1, s2 \in Seq(Tx) :
          s1 \o s2 \in Seq(Tx) /\ Total(E, s1 \o s2)[i] = Total(E, s1)[i] + Total(E, s2)[i]
  BY <1>2, TotalConcat
<1>4. Total(E, FeeTxs(b))[i] = ea + ef + eg + ec + es
  <2> DEFINE p2 == b.acc \o b.funds
             p3 == p2 \o b.agg
             p4 == p3 \o b.config
  <2>1. p2 \in Seq(Tx) /\ Total(E, p2)[i] = ea + ef
    BY <1>1, <1>20
  <2> HIDE DEF p2
  <2>2. p3 \in Seq(Tx) /\ Total(E, p3)[i] = ea + ef + eg
    BY <1>1, <1>20, <2>1
  <2> HIDE DEF p3
  <2>3. p4 \in Seq(Tx) /\ Total(E, p4)[i] = ea + ef + eg + ec
    BY <1>1, <1>20, <2>2
  <2> HIDE DEF p4
  <2>4. Total(E, p4 \o b.stake)[i] = ea + ef + eg + ec + es
    BY <1>1, <1>20, <2>3
  <2> QED
    BY <2>4 DEF FeeTxs, p2, p3, p4
<1>5. OwnFees(b) \in Seq(Tx) /\ Total(E, OwnFees(b))[i] = ea + ef + ec + es
  <2> DEFINE p2 == b.acc \o b.funds
             p3 == p2 \o b.config
  <2>1. p2 \in Seq(Tx) /\ Total(E, p2)[i] = ea + ef
    BY <1>1, <1>20
  <2> HIDE DEF p2
  <2>2. p3 \in Seq(Tx) /\ Total(E, p3)[i] = ea + ef + ec
    BY <1>1, <1>20, <2>1
  <2> HIDE DEF p3
  <2>3. p3 \o b.stake \in Seq(Tx) /\ Total(E, p3 \o b.stake)[i] = ea + ef + ec + es
    BY <1>1, <1>20, <2>2
  <2> QED
    BY <2>3 DEF OwnFees, p2, p3
<1>6. /\ Total(MinusW(E), OwnFees(b))[i] = 0 - (ea + ef + ec + es)
      /\ Total(MinusW(E), b.agg)[i] = 0 - eg
      /\ Total(MinusW(StakeW), Reverse(b.stake))[i] = 0 - st
      /\ Total(MinusW(F), Reverse(b.funds))[i] = 0 - ff
      /\ Total(MinusW(F), Reverse(b.agg))[i] = 0 - fg
  BY <1>1, <1>2, <1>5, TotalMinus
<1>7. At(m, "bal", -BlockReward)[i] = 0 - At(m, "bal", BlockReward)[i]
      /\ At(m, "bal", BlockReward)[i] \in Int
  BY Parameters DEF At
<1>8. SlashChange(b, -1)[i] = 0 - SlashChange(b, 1)[i] /\ SlashChange(b, 1)[i] \in Int
  <2>1. CASE b.slashed = Nil
    BY <2>1 DEF SlashChange, Zero
  <2>2. CASE b.slashed # Nil
    BY <2>2, Parameters DEF SlashChange, Plus, At
  <2> QED
    BY <2>1, <2>2
<1> DEFINE d1 == At(m, "bal", BlockReward)[i]
           d2 == SlashChange(b, 1)[i]
<1>9. BlockChange(R, b)[i] = ff + fg + st + (ea + ef + eg + ec + es) + d1 + d2
  BY <1>4 DEF BlockChange, Plus, F, E, m
<1>10. UnwoundChange(R, b)[i] =
          (0 - d2) + (0 - d1) + (0 - (ea + ef + ec + es)) + (0 - st) + (0 - ff) + (0 - fg) + (0 - eg)
  BY <1>6, <1>7, <1>8 DEF UnwoundChange, Plus, F, E, m
<1> HIDE DEF ea, ef, eg, ec, es, ff, fg, st, d1, d2
<1>11. Plus(BlockChange(R, b), UnwoundChange(R, b))[i] = BlockChange(R, b)[i] + UnwoundChange(R, b)[i]
  BY DEF Plus
<1> QED
  BY <1>3, <1>7, <1>8, <1>9, <1>10, <1>11 DEF d1, d2

LEMMA ChangeOfBlock ==
    ASSUME NEW s, NEW b, WellFormed(s, b), NEW R
    PROVE  BlockChange(R, b) \in Change
<1>1. \A d, e \in Change : Plus(d, e) \in Change
  BY DEF Plus, Change
<1>2. b.beneficiary \in Account
  BY DEF WellFormed, Live
<1>3. /\ Total(FundsW(R), b.funds) \in Change /\ Total(FundsW(R), b.agg) \in Change
      /\ Total(StakeW, b.stake) \in Change /\ Total(FeeW(b.beneficiary), FeeTxs(b)) \in Change
  BY <1>2, WellFormedParts, WeightTypes, UpToEnds, Zenon
<1>4. At(b.beneficiary, "bal", BlockReward) \in Change
  BY Parameters, AtChange, Zenon
<1>5. SlashChange(b, 1) \in Change
  <2>1. 1 * SlashReward \in Int /\ -1 * StakingMinimum \in Int /\ 1 \in Int
    BY Parameters
  <2> QED
    BY <1>1, <2>1, AtChange, ZeroChange, Zenon DEF SlashChange
<1> QED
  BY <1>1, <1>3, <1>4, <1>5, Zenon DEF BlockChange

LEMMA Unwinds ==
    ASSUME NEW a \in States, NEW b, WellFormed(a, b), NEW y \in States,
           Shift(a, y, BlockChange(a.root, b)), BlockChange(a.root, b) \in Change,
           b.slashed # Nil => ~y.acc[b.slashed].staking
    PROVE  Alike(a, Unwound(y, b)) /\ View(Unwound(y, b)) = View(a)
<1> DEFINE m == b.beneficiary
           R == a.root
           t1 == collectSlashRewardRollback(y, b)
           t2 == collectBlockRewardRollback(t1, b)
           t3 == collectTxFeesRollback(t2, OwnFees(b), m)
           t4 == stakeStateChangeRollback(t3, b.stake)
           t5 == fundsStateChangeRollback(t4, b.funds)
           t6 == fundsStateChangeRollback(t5, b.agg)
           t7 == collectTxFeesRollback(t6, b.agg, m)
<1> DEFINE e1 == SlashChange(b, -1)
           e2 == At(m, "bal", -BlockReward)
           e3 == Total(MinusW(FeeW(m)), OwnFees(b))
           e4 == Total(MinusW(StakeW), Reverse(b.stake))
           e5 == Total(MinusW(FundsW(R)), Reverse(b.funds))
           e6 == Total(MinusW(FundsW(R)), Reverse(b.agg))
           e7 == Total(MinusW(FeeW(m)), b.agg)
<1>1. e3 \in Change /\ e4 \in Change /\ e5 \in Change /\ e6 \in Change /\ e7 \in Change
  <2>1. m \in Account
    BY DEF WellFormed, Live
  <2> QED
    BY <2>1, WellFormedParts, WeightTypes, TotalMinus, Zenon
<1>2. \A u, v : Shift(u, v, e1) \/ Shift(u, v, e2) \/ Shift(u, v, e3) \/ Shift(u, v, e4)
                \/ Shift(u, v, e5) \/ Shift(u, v, e6) \/ Shift(u, v, e7) => Alike(u, v)
  BY ShiftAlike, Zenon
<1>3. \A u : Alike(a, u) => u \in States /\ WellFormed(u, b) /\ u.root = R
  <2> SUFFICES ASSUME NEW u, Alike(a, u) PROVE u \in States /\ WellFormed(u, b) /\ u.root = R
    OBVIOUS
  <2>1. u \in States /\ u.root = R /\ \A x \in Account : a.acc[x] # Nil => u.acc[x] # Nil
    BY DEF Alike
  <2> QED
    BY <2>1, WellFormedAlike
<1>4. Alike(a, y)
  BY ShiftAlike, Zenon
<1>5. Shift(y, t1, e1) /\ e1 \in Change
  <2>1. ~(b.slashed # Nil /\ y.acc[b.slashed].staking # FALSE)
    <3>1. b.slashed # Nil => y.acc[b.slashed].staking \in BOOLEAN
      <4>1. b.slashed # Nil => b.slashed \in Account /\ y.acc[b.slashed] # Nil
        BY <1>3, <1>4 DEF WellFormed, Live
      <4> QED
        BY <4>1 DEF States, AccountState
    <3> QED
      BY <3>1
  <2> QED
    BY <1>3, <1>4, <2>1, SlashUndone, Zenon DEF WellFormed
<1> HIDE DEF t1, e1
<1>6. Alike(a, t1)
  BY <1>2, <1>4, <1>5, AlikeTwice, Zenon
<1>7. Shift(t1, t2, e2) /\ e2 \in Change
  BY <1>3, <1>6, RewardStage, Zenon DEF WellFormed
<1> HIDE DEF t2, e2
<1>8. Alike(a, t2)
  BY <1>2, <1>6, <1>7, AlikeTwice, Zenon
<1>9. Shift(t2, t3, e3)
  BY <1>3, <1>8, UndoAlike, Zenon
<1> HIDE DEF t3, e3
<1>10. Alike(a, t3)
  BY <1>2, <1>8, <1>9, AlikeTwice, Zenon
<1>11. Shift(t3, t4, e4)
  BY <1>3, <1>10, StakeBackward, Zenon DEF WellFormed
<1> HIDE DEF t4, e4
<1>12. Alike(a, t4)
  BY <1>2, <1>10, <1>11, AlikeTwice, Zenon
<1>13. Shift(t4, t5, e5)
  <2>1. t4 \in States /\ Payable(t4, b.funds) /\ t4.root = R
    BY <1>3, <1>12 DEF WellFormed
  <2>2. Shift(t4, t5, Total(MinusW(FundsW(t4.root)), Reverse(b.funds)))
    BY <2>1, FundsBackward, Zenon
  <2> QED
    BY <2>1, <2>2, Zenon
<1> HIDE DEF t5, e5
<1>14. Alike(a, t5)
  BY <1>2, <1>12, <1>13, AlikeTwice, Zenon
<1>15. Shift(t5, t6, e6)
  <2>1. t5 \in States /\ Payable(t5, b.agg) /\ t5.root = R
    BY <1>3, <1>14 DEF WellFormed
  <2>2. Shift(t5, t6, Total(MinusW(FundsW(t5.root)), Reverse(b.agg)))
    BY <2>1, FundsBackward, Zenon
  <2> QED
    BY <2>1, <2>2, Zenon
<1> HIDE DEF t6, e6
<1>16. Alike(a, t6)
  BY <1>2, <1>14, <1>15, AlikeTwice, Zenon
<1>17. Shift(t6, t7, e7)
  BY <1>3, <1>16, UndoAlike, Zenon
<1> HIDE DEF t7, e7
<1>18. Alike(a, t7)
  BY <1>2, <1>16, <1>17, AlikeTwice, Zenon
<1>19. /\ y \in States /\ t1 \in States /\ t2 \in States /\ t3 \in States /\ t4 \in States
       /\ t5 \in States /\ t6 \in States /\ t7 \in States
  BY <1>3, <1>6, <1>8, <1>10, <1>12, <1>14, <1>16, <1>18
<1> DEFINE s2 == Plus(e1, e2)
           s3 == Plus(s2, e3)
           s4 == Plus(s3, e4)
           s5 == Plus(s4, e5)
           s6 == Plus(s5, e6)
           s7 == Plus(s6, e7)
<1>20. Shift(y, t2, s2) /\ s2 \in Change
  BY <1>5, <1>7, <1>19, ShiftPlus, Zenon
<1> HIDE DEF s2
<1>21. Shift(y, t3, s3) /\ s3 \in Change
  BY <1>1, <1>9, <1>19, <1>20, ShiftPlus, Zenon
<1> HIDE DEF s3
<1>22. Shift(y, t4, s4) /\ s4 \in Change
  BY <1>1, <1>11, <1>19, <1>21, ShiftPlus, Zenon
<1> HIDE DEF s4
<1>23. Shift(y, t5, s5) /\ s5 \in Change
  BY <1>1, <1>13, <1>19, <1>22, ShiftPlus, Zenon
<1> HIDE DEF s5
<1>24. Shift(y, t6, s6) /\ s6 \in Change
  BY <1>1, <1>15, <1>19, <1>23, ShiftPlus, Zenon
<1> HIDE DEF s6
<1>25. Shift(y, t7, s7) /\ s7 \in Change
  BY <1>1, <1>17, <1>19, <1>24, ShiftPlus, Zenon
<1> HIDE DEF s7
<1>26. s7 = UnwoundChange(R, b)
  BY DEF UnwoundChange, s2, s3, s4, s5, s6, s7, e1, e2, e3, e4, e5, e6, e7
<1>27. Shift(a, t7, Plus(BlockChange(R, b), UnwoundChange(R, b)))
  BY <1>19, <1>25, <1>26, ShiftPlus, Zenon
<1>30. \A i \in Slot : Plus(BlockChange(R, b), UnwoundChange(R, b))[i] = 0
  BY ChangesCancel, Zenon
<1>28. View(t7) = View(a)
  BY <1>19, <1>27, <1>30, ViewShift, Zenon
<1>29. Unwound(y, b) = t7
  BY DEF Unwound, aggregatedStateRollback, t1, t2, t3, t4, t5, t6, t7
<1> QED
  BY <1>18, <1>28, <1>29

(* A block that was accepted is undone by its rollback: balances,          *)
(* counters, the validator set, the accounts and the root keys are those   *)
(* before the block, whatever transactions it contains.  It needs only     *)
(* that the accounts the block names exist, that the block takes no root   *)
(* key away and that it slashes a validator it does not name otherwise.    *)
THEOREM RollbackInverse ==
    ASSUME NEW s \in States, NEW b, WellFormed(s, b), Open(b), Rooted(s), Unslashed(s, b),
           ~validateState(s, b).err,
           NEW y \in States, View(y) = View(validateState(s, b).s), y.dead = s.dead
    PROVE  /\ validateStateRollback(y, b) \in States
           /\ validateStateRollback(y, b).dead = s.dead
           /\ View(validateStateRollback(y, b)) = View(s)
<1> DEFINE z == validateState(s, b).s
<1>1. PICK a \in States :
         /\ Made(s, a, b.acc, Len(b.acc))
         /\ Alike(a, z)
         /\ b.slashed # Nil => ~z.acc[b.slashed].staking
         /\ Shift(a, z, BlockChange(a.root, b))
  BY ValidateForward, Zenon
<1>2. z \in States /\ z.dead = s.dead
  BY ValidateForward DEF Results
<1> HIDE DEF z
<1>3. Creating(b.acc) /\ WellFormed(a, b)
  <2>1. Creating(b.acc)
    BY DEF WellFormed
  <2>2. \A x \in Account : s.acc[x] # Nil => a.acc[x] # Nil
    BY <1>1, <2>1, MadeAlive
  <2> QED
    BY <2>1, <2>2, WellFormedAlike
<1>4. Shift(a, y, BlockChange(a.root, b))
  BY <1>1, <1>2, ShiftView, Zenon DEF z
<1>5. b.slashed # Nil => ~y.acc[b.slashed].staking
  <2> SUFFICES ASSUME b.slashed # Nil PROVE ~y.acc[b.slashed].staking
    OBVIOUS
  <2>1. b.slashed \in Account /\ z.acc[b.slashed] # Nil
    BY <1>1, <1>3 DEF WellFormed, Live, Alike
  <2>2. Shift(z, y, Zero)
    BY <1>2, ShiftZero, ShiftView, Zenon DEF z
  <2>3. Zero[<<b.slashed, "staking">>] = 0
    BY <2>1 DEF Zero, Slot
  <2>4. y.acc[b.slashed].staking = z.acc[b.slashed].staking
    BY <1>2, <2>1, <2>2, <2>3, StakingSame, Zenon
  <2> QED
    BY <1>1, <2>4
<1>6. BlockChange(a.root, b) \in Change
  BY <1>3, ChangeOfBlock
<1>7. Alike(a, Unwound(y, b)) /\ View(Unwound(y, b)) = View(a)
  BY <1>3, <1>4, <1>5, <1>6, Unwinds, Zenon
<1>8. validateStateRollback(y, b) = accStateChangeRollback(Unwound(y, b), b.acc)
  BY DEF validateStateRollback, Unwound
<1> DEFINE u == Unwound(y, b)
<1> HIDE DEF u
<1>9. Alike(a, u) /\ View(u) = View(a)
  BY <1>7 DEF u
<1>10. /\ accStateChangeRollback(u, b.acc) \in States
       /\ accStateChangeRollback(u, b.acc).dead = s.dead
       /\ Rooted(s) /\ View(u) = View(a) => View(accStateChangeRollback(u, b.acc)) = View(s)
  BY <1>1, <1>3, <1>9, UndoAcc
<1> QED
  BY <1>8, <1>9, <1>10 DEF u

-----------------------------------------------------------------------------
(* What the run of blocks is made of.                                      *)
Blocks == [acc : Seq(Tx), funds : Seq(Tx), agg : Seq(Tx), config : Seq(Tx), stake : Seq(Tx),
           beneficiary : Account, slashed : Account \cup {Nil}, height : Nat]
ViewType == [acc : [Account -> AccountView \cup {Nil}], root : SUBSET Account]

(* The views before and after each block of the chain.                     *)
Views == Append(snaps, View(S))

(* The transactions of the blocks of c before the i-th.                    *)
ClosedBefore(c, i) == UNION {BlockTxs(c[j]) : j \in 1 .. (i - 1)}

OfSender(txs, a) == {t \in txs : t.kind = "funds" /\ t.from = a}

(* The transactions carry the counters lo, lo + 1, ... hi - 1.             *)
Numbered(txs, lo, hi) ==
    /\ IsFiniteSet(txs)
    /\ lo \in Nat /\ hi = lo + Cardinality(txs)
    /\ {t.cnt : t \in txs} = lo .. hi - 1

(* What is known of the accounts before the i-th block of c.               *)
Counted(v, txs, a) ==
    IF v.acc[a] = Nil THEN OfSender(txs, a) = {}
    ELSE Numbered(OfSender(txs, a), 0, v.acc[a][2])

Settled(v, c, i) ==
    /\ \A a \in v.root : v.acc[a] # Nil
    /\ \A a \in Account : Counted(v, ClosedBefore(c, i), a)

(* Rolling back b leads from view w to view v.                             *)
Undoes(b, v, w) ==
    \A s \in States : ~s.dead /\ View(s) = w =>
        LET u == validateStateRollback(s, b)
        IN u \in States /\ ~u.dead /\ View(u) = v

TypeInv ==
    /\ S \in States /\ ~S.dead
    /\ aggregated \subseteq Tx /\ before \subseteq Tx /\ IsFiniteSet(before)
    /\ pc \in {"idle", "adding", "grouping"}
    /\ verdict \in {"none", "accepted", "rejected"}
    /\ chain \in Seq(Blocks) /\ snaps \in Seq(ViewType)
    /\ Len(snaps) = Len(chain) /\ Len(chain) <= MaxHeight
    /\ pc # "idle" => Len(chain) < MaxHeight

ChainInv ==
    /\ closed = ClosedBefore(chain, Len(chain) + 1)
    /\ \A i, j \in 1 .. Len(chain) : i # j => BlockTxs(chain[i]) \cap BlockTxs(chain[j]) = {}
    /\ \A i \in 1 .. Len(chain) + 1 : Settled(Views[i], chain, i)
    /\ \A i \in 1 .. Len(chain) : Undoes(chain[i], Views[i], Views[i + 1])

(* The transfers that will be in the block under construction.             *)
Pending == before \cup ToSet(block.funds) \cup ToSet(block.agg)

Distinct(txs) == \A i, j \in 1 .. Len(txs) : i # j => txs[i] # txs[j]

(* A block under construction: well formed unless it takes a root key.     *)
Drafted(s, b) ==
    /\ b.acc \in Seq(AccTx) /\ Payable(s, b.funds) /\ Payable(s, b.agg)
    /\ b.config \in Seq(ConfigTx) /\ Stakeable(s, b.stake)
    /\ Live(s, b.beneficiary) /\ b.height \in Nat

BlockInv ==
    /\ block \in Blocks /\ block.slashed = Nil /\ Drafted(S, block)
    /\ \A t \in before : t.kind = "funds" /\ Live(S, t.from) /\ Live(S, t.to)
    /\ (before \cup BlockTxs(block)) \cap closed = {}
    /\ Distinct(block.funds) /\ Distinct(block.agg)
    /\ before \cap (ToSet(block.funds) \cup ToSet(block.agg)) = {}
    /\ ToSet(block.funds) \cap ToSet(block.agg) = {}
    /\ \A a \in Account : S.acc[a] # Nil =>
          Numbered(OfSender(Pending, a), S.acc[a].cnt,
                   S.acc[a].cnt + Cardinality(OfSender(Pending, a)))

(* StateCopy counts the transfers of the block under construction.         *)
CopyInv ==
    /\ copy \in [Account -> AccountState \cup {Nil}]
    /\ \A a \in Account : S.acc[a] = Nil <=> copy[a] = Nil
    /\ \A a \in Account : S.acc[a] # Nil =>
          copy[a].cnt = S.acc[a].cnt + Cardinality(OfSender(Pending, a))

PreparationInv ==
    /\ pc = "idle" => block = NoBlock /\ before = {}
    /\ pc # "idle" => BlockInv
    /\ pc = "adding" => CopyInv

IInv == TypeInv /\ ChainInv /\ PreparationInv

-----------------------------------------------------------------------------
(* Numbered sets of transactions.                                          *)
LEMMA NumberedEmpty ==
    ASSUME NEW n \in Nat
    PROVE  Numbered({}, n, n)
<1>1. {t.cnt : t \in {}} = {} /\ n .. n - 1 = {}
  OBVIOUS
<1> QED
  BY <1>1, FS_EmptySet DEF Numbered

LEMMA NumberedAdd ==
    ASSUME NEW txs, NEW lo, NEW hi, Numbered(txs, lo, hi), NEW tx, tx \notin txs, tx.cnt = hi
    PROVE  /\ Numbered(txs \cup {tx}, lo, hi + 1)
           /\ Cardinality(txs \cup {tx}) = Cardinality(txs) + 1
<1> DEFINE new == txs \cup {tx}
<1>1. IsFiniteSet(new) /\ Cardinality(new) = Cardinality(txs) + 1 /\ Cardinality(txs) \in Nat
  BY FS_AddElement, FS_CardinalityType DEF Numbered
<1>2. lo \in Nat /\ hi = lo + Cardinality(txs) /\ {t.cnt : t \in txs} = lo .. hi - 1
  BY DEF Numbered
<1>3. hi \in Nat /\ lo <= hi
  BY <1>1, <1>2
<1>4. {t.cnt : t \in new} = {t.cnt : t \in txs} \cup {hi}
  OBVIOUS
<1>5. lo .. (hi + 1) - 1 = (lo .. hi - 1) \cup {hi}
  BY <1>2, <1>3
<1>6. {t.cnt : t \in new} = lo .. (hi + 1) - 1
  BY <1>2, <1>4, <1>5, Zenon
<1>7. hi + 1 = lo + Cardinality(new)
  BY <1>1, <1>2
<1> QED
  BY <1>1, <1>2, <1>6, <1>7 DEF Numbered

LEMMA NumberedUnion ==
    ASSUME NEW txs, NEW new, NEW lo, NEW mid, NEW hi,
           Numbered(txs, lo, mid), Numbered(new, mid, hi), txs \cap new = {}
    PROVE  /\ Numbered(txs \cup new, lo, hi)
           /\ Cardinality(txs \cup new) = Cardinality(txs) + Cardinality(new)
<1> DEFINE all == txs \cup new
<1>1. /\ IsFiniteSet(all) /\ Cardinality(all) = Cardinality(txs) + Cardinality(new)
      /\ Cardinality(txs) \in Nat /\ Cardinality(new) \in Nat
  <2>1. IsFiniteSet(txs) /\ IsFiniteSet(new) /\ Cardinality(txs \cap new) = 0
    BY FS_EmptySet DEF Numbered
  <2>2. Cardinality(txs) \in Nat /\ Cardinality(new) \in Nat
    BY <2>1, FS_CardinalityType
  <2>3. IsFiniteSet(all) /\ Cardinality(all) = Cardinality(txs) + Cardinality(new) - Cardinality(txs \cap new)
    BY <2>1, FS_Union
  <2> QED
    BY <2>1, <2>2, <2>3
<1>2. /\ lo \in Nat /\ mid = lo + Cardinality(txs) /\ hi = mid + Cardinality(new)
      /\ {t.cnt : t \in txs} = lo .. mid - 1 /\ {t.cnt : t \in new} = mid .. hi - 1
  BY DEF Numbered
<1>3. mid \in Nat /\ hi \in Nat /\ lo <= mid /\ mid <= hi /\ hi = lo + Cardinality(all)
  BY <1>1, <1>2
<1>4. {t.cnt : t \in all} = {t.cnt : t \in txs} \cup {t.cnt : t \in new}
  OBVIOUS
<1>5. lo .. hi - 1 = (lo .. mid - 1) \cup (mid .. hi - 1)
  BY <1>2, <1>3
<1>6. {t.cnt : t \in all} = lo .. hi - 1
  BY <1>2, <1>4, <1>5, Zenon
<1> QED
  BY <1>1, <1>2, <1>3, <1>6 DEF Numbered

-----------------------------------------------------------------------------
(* Sequences without repetition.                                           *)
LEMMA Permutation ==
    ASSUME NEW set, IsFiniteSet(set), NEW s \in [1 .. Cardinality(set) -> set],
           \A i, j \in 1 .. Cardinality(set) : i # j => s[i] # s[j]
    PROVE  s \in Seq(set) /\ ToSet(s) = set /\ Distinct(s)
<1> DEFINE n == Cardinality(set)
           D == 1 .. n
<1>1. n \in Nat
  BY FS_CardinalityType
<1>2. s \in Seq(set) /\ Len(s) = n /\ DOMAIN s = D
  BY <1>1
<1>3. IsFiniteSet(D) /\ Cardinality(D) = n
  BY <1>1, FS_Interval
<1>4. s \in Injection(D, set)
  BY DEF Injection, IsInjective
<1>5. s \in Surjection(D, set)
  BY <1>3, <1>4, FS_Injection, Zenon
<1>6. ToSet(s) = set
  BY <1>2, <1>5 DEF Surjection, ToSet
<1> QED
  BY <1>2, <1>6 DEF Distinct

LEMMA OneSequence ==
    ASSUME NEW set, IsFiniteSet(set)
    PROVE  SetToSeq(set) \in Seq(set) /\ ToSet(SetToSeq(set)) = set /\ Distinct(SetToSeq(set))
<1> DEFINE n == Cardinality(set)
           s == SetToSeq(set)
<1>1. \E f \in [1 .. n -> set] : IsInjective(f)
  <2>1. ExistsBijection(1 .. n, set)
    BY FS_CardinalityType
  <2> QED
    BY <2>1 DEF ExistsBijection, Bijection, Injection, IsInjective
<1>2. s \in [1 .. n -> set] /\ IsInjective(s)
  BY <1>1 DEF SetToSeq
<1>3. \A i, j \in 1 .. n : i # j => s[i] # s[j]
  BY <1>2 DEF IsInjective
<1> HIDE DEF s
<1>4. s \in Seq(set) /\ ToSet(s) = set /\ Distinct(s)
  BY <1>2, <1>3, Permutation
<1> QED
  BY <1>4 DEF s

LEMMA AnySequence ==
    ASSUME NEW set, IsFiniteSet(set), NEW s \in SetToSeqs(set)
    PROVE  s \in Seq(set) /\ ToSet(s) = set /\ Distinct(s)
<1>1. s \in [1 .. Cardinality(set) -> set] /\ \A i, j \in 1 .. Cardinality(set) : i # j => s[i] # s[j]
  BY DEF SetToSeqs
<1> QED
  BY <1>1, Permutation

LEMMA DistinctConcat ==
    ASSUME NEW set, NEW s \in Seq(set), NEW t \in Seq(set)
    PROVE  /\ s \o t \in Seq(set) /\ ToSet(s \o t) = ToSet(s) \cup ToSet(t)
           /\ Distinct(s) /\ Distinct(t) /\ ToSet(s) \cap ToSet(t) = {} => Distinct(s \o t)
<1> DEFINE c == s \o t
<1>1. /\ c \in Seq(set) /\ Len(c) = Len(s) + Len(t) /\ Len(s) \in Nat /\ Len(t) \in Nat
      /\ DOMAIN c = 1 .. Len(s) + Len(t) /\ DOMAIN s = 1 .. Len(s) /\ DOMAIN t = 1 .. Len(t)
  OBVIOUS
<1>2. /\ \A i \in 1 .. Len(s) : c[i] = s[i] /\ i \in 1 .. Len(c)
      /\ \A i \in 1 .. Len(t) : c[i + Len(s)] = t[i] /\ i + Len(s) \in 1 .. Len(c)
  OBVIOUS
<1>3. \A i \in 1 .. Len(c) : \/ i \in 1 .. Len(s) /\ c[i] = s[i]
                             \/ i - Len(s) \in 1 .. Len(t) /\ c[i] = t[i - Len(s)]
  OBVIOUS
<1> HIDE DEF c
<1>4. ToSet(c) = ToSet(s) \cup ToSet(t)
  <2>1. \A x : /\ x \in ToSet(c) <=> \E i \in 1 .. Len(c) : x = c[i]
               /\ x \in ToSet(s) <=> \E i \in 1 .. Len(s) : x = s[i]
               /\ x \in ToSet(t) <=> \E i \in 1 .. Len(t) : x = t[i]
    BY <1>1 DEF ToSet
  <2>2. ToSet(c) \subseteq ToSet(s) \cup ToSet(t)
    BY <1>3, <2>1
  <2>3. ToSet(s) \subseteq ToSet(c) /\ ToSet(t) \subseteq ToSet(c)
    BY <1>2, <2>1
  <2> QED
    BY <2>2, <2>3
<1>5. ASSUME Distinct(s), Distinct(t), ToSet(s) \cap ToSet(t) = {} PROVE Distinct(c)
  <2> SUFFICES ASSUME NEW i \in 1 .. Len(c), NEW j \in 1 .. Len(c), i # j PROVE c[i] # c[j]
    BY DEF Distinct
  <2>1. CASE i \in 1 .. Len(s) /\ c[i] = s[i] /\ j \in 1 .. Len(s) /\ c[j] = s[j]
    BY <1>5, <2>1 DEF Distinct
  <2>2. CASE i - Len(s) \in 1 .. Len(t) /\ c[i] = t[i - Len(s)] /\ j - Len(s) \in 1 .. Len(t) /\ c[j] = t[j - Len(s)]
    BY <1>1, <1>5, <2>2 DEF Distinct
  <2>3. CASE i \in 1 .. Len(s) /\ c[i] = s[i] /\ j - Len(s) \in 1 .. Len(t) /\ c[j] = t[j - Len(s)]
    BY <1>1, <1>5, <2>3 DEF ToSet
  <2>4. CASE i - Len(s) \in 1 .. Len(t) /\ c[i] = t[i - Len(s)] /\ j \in 1 .. Len(s) /\ c[j] = s[j]
    BY <1>1, <1>5, <2>4 DEF ToSet
  <2> QED
    BY <1>3, <2>1, <2>2, <2>3, <2>4
<1> QED
  BY <1>1, <1>4, <1>5 DEF c

LEMMA ToSetFinite ==
    ASSUME NEW set, NEW s \in Seq(set)
    PROVE  /\ IsFiniteSet(ToSet(s)) /\ ToSet(s) \subseteq set
           /\ \A x : x \in ToSet(s) <=> \E i \in 1 .. Len(s) : x = s[i]
<1>1. DOMAIN s = 1 .. Len(s) /\ Len(s) \in Nat
  OBVIOUS
<1>2. IsFiniteSet(1 .. Len(s))
  BY <1>1, FS_Interval
<1>3. s \in Surjection(1 .. Len(s), ToSet(s))
  BY <1>1 DEF Surjection, ToSet
<1>4. IsFiniteSet(ToSet(s))
  BY <1>2, <1>3, FS_Surjection
<1> QED
  BY <1>1, <1>4 DEF ToSet

-----------------------------------------------------------------------------
(* What a block adds to a counter is the number of transfers it contains.  *)
LEMMA OneTransfer ==
    ASSUME NEW R, NEW a \in Account, NEW tx \in FundsTx
    PROVE  FundsW(R)[<<a, "cnt">>][tx] = IF tx.from = a THEN 1 ELSE 0
<1> DEFINE i == <<a, "cnt">>
<1>1. i \in Slot /\ tx \in Tx /\ tx.kind = "funds"
  BY DEF Slot, FundsTx
<1>2. \A x, n : At(x, "bal", n)[i] = 0
  BY <1>1 DEF At
<1>3. At(tx.from, "cnt", 1)[i] = IF tx.from = a THEN 1 ELSE 0
  BY <1>1 DEF At
<1>4. Zero[i] = 0 /\ \A d, e : Plus(d, e)[i] = d[i] + e[i]
  BY <1>1 DEF Zero, Plus
<1>5. FundsW(R)[i][tx] = FundsChange(R, tx)[i]
  BY <1>1 DEF FundsW
<1> HIDE DEF i
<1>6. FundsChange(R, tx)[i] = IF tx.from = a THEN 1 ELSE 0
  BY <1>2, <1>3, <1>4 DEF FundsChange, IssueChange, TransferChange
<1> QED
  BY <1>5, <1>6 DEF i

LEMMA TransferCount ==
    ASSUME NEW txs \in Seq(FundsTx), Distinct(txs), NEW a \in Account, NEW R
    PROVE  Total(FundsW(R), txs)[<<a, "cnt">>] = Cardinality(OfSender(ToSet(txs), a))
<1> DEFINE n == Len(txs)
           d == FundsW(R)[<<a, "cnt">>]
           P(k) == {t \in FundsTx : t.from = a /\ \E j \in 1 .. k : t = txs[j]}
           r == [k \in 0 .. n |-> Cardinality(P(k))]
<1>1. n \in Nat /\ txs \in Seq(Tx) /\ d \in Weight
  <2>1. <<a, "cnt">> \in Slot
    BY DEF Slot
  <2> QED
    BY <2>1, WeightTypes, PartsOfTx DEF Weights
<1>2. \A k \in 0 .. n : IsFiniteSet(P(k)) /\ Cardinality(P(k)) \in Nat
  <2> SUFFICES ASSUME NEW k \in 0 .. n PROVE IsFiniteSet(P(k)) /\ Cardinality(P(k)) \in Nat
    OBVIOUS
  <2>1. \A j \in 1 .. k : j \in 1 .. n
    BY <1>1
  <2>2. P(k) \in SUBSET ToSet(txs)
    BY <2>1, ToSetFinite
  <2>3. IsFiniteSet(ToSet(txs))
    BY ToSetFinite
  <2> HIDE DEF P
  <2>4. IsFiniteSet(P(k))
    BY <2>2, <2>3, FS_Subset
  <2> QED
    BY <2>4, FS_CardinalityType
<1>3. P(0) = {}
  OBVIOUS
<1>4. ASSUME NEW k \in 1 .. n
      PROVE  Cardinality(P(k)) = Cardinality(P(k - 1)) + d[txs[k]]
  <2>1. txs[k] \in FundsTx /\ k - 1 \in 0 .. n /\ \A j : j \in 1 .. k <=> j \in 1 .. (k - 1) \/ j = k
    BY <1>1
  <2>2. d[txs[k]] = IF txs[k].from = a THEN 1 ELSE 0
    BY <2>1, OneTransfer, Zenon
  <2>3. txs[k] \notin P(k - 1)
    <3>1. \A j \in 1 .. (k - 1) : j \in 1 .. n /\ j # k
      BY <1>1
    <3> QED
      BY <3>1 DEF Distinct
  <2>4. CASE txs[k].from = a
    <3>1. P(k) = P(k - 1) \cup {txs[k]}
      BY <2>1, <2>4
    <3> HIDE DEF P
    <3> QED
      BY <1>2, <2>1, <2>2, <2>3, <2>4, <3>1, FS_AddElement
  <2>5. CASE txs[k].from # a
    <3>1. P(k) = P(k - 1)
      BY <2>1, <2>5
    <3> HIDE DEF P
    <3> QED
      BY <1>2, <2>1, <2>2, <2>5, <3>1
  <2> QED
    BY <2>4, <2>5
<1>5. P(n) = OfSender(ToSet(txs), a)
  <2>1. \A t \in ToSet(txs) : t \in FundsTx /\ t.kind = "funds"
    BY ToSetFinite DEF FundsTx
  <2> QED
    BY <2>1, ToSetFinite DEF OfSender
<1> HIDE DEF P, d
<1>6. r[0] = 0 /\ r[n] = Cardinality(P(n))
  <2>1. 0 \in 0 .. n /\ n \in 0 .. n
    BY <1>1
  <2>2. Cardinality(P(0)) = 0
    BY <1>3, FS_EmptySet, Zenon
  <2> QED
    BY <2>1, <2>2
<1>7. \A k \in 1 .. n : r[k] = r[k - 1] + d[txs[k]]
  <2> TAKE k \in 1 .. n
  <2>1. k \in 0 .. n /\ k - 1 \in 0 .. n
    BY <1>1
  <2> QED
    BY <1>4, <2>1
<1> HIDE DEF r
<1>8. Sum(d, txs) = r[n]
  BY <1>1, <1>6, <1>7, SumUnique
<1>9. Total(FundsW(R), txs)[<<a, "cnt">>] = Sum(d, txs)
  BY DEF Total, Slot, d
<1> QED
  BY <1>5, <1>6, <1>8, <1>9

LEMMA CounterChange ==
    ASSUME NEW s, NEW b, WellFormed(s, b), Distinct(b.funds), Distinct(b.agg), NEW R,
           NEW a \in Account
    PROVE  BlockChange(R, b)[<<a, "cnt">>] =
              Cardinality(OfSender(ToSet(b.funds), a)) + Cardinality(OfSender(ToSet(b.agg), a))
<1> DEFINE i == <<a, "cnt">>
<1>0. i \in Slot
  BY DEF Slot
<1>1. /\ b.funds \in Seq(FundsTx) /\ b.agg \in Seq(FundsTx)
      /\ b.stake \in Seq(Tx) /\ FeeTxs(b) \in Seq(Tx) /\ b.beneficiary \in Account
  BY WellFormedParts DEF WellFormed, Payable, Live
<1> DEFINE nf == Cardinality(OfSender(ToSet(b.funds), a))
           ng == Cardinality(OfSender(ToSet(b.agg), a))
<1>2. Total(FundsW(R), b.funds)[i] = nf /\ Total(FundsW(R), b.agg)[i] = ng
  BY <1>1, TransferCount
<1>3. nf \in Nat /\ ng \in Nat
  <2>1. \A txs \in Seq(FundsTx) : IsFiniteSet(OfSender(ToSet(txs), a))
    <3> TAKE txs \in Seq(FundsTx)
    <3>1. IsFiniteSet(ToSet(txs)) /\ OfSender(ToSet(txs), a) \in SUBSET ToSet(txs)
      BY ToSetFinite DEF OfSender
    <3> QED
      BY <3>1, FS_Subset
  <2> QED
    BY <1>1, <2>1, FS_CardinalityType
<1>4. \A x, n : At(x, "bal", n)[i] = 0 /\ At(x, "staking", n)[i] = 0
  BY <1>0 DEF At
<1>5. Zero[i] = 0 /\ \A d, e : Plus(d, e)[i] = d[i] + e[i]
  BY <1>0 DEF Zero, Plus
<1> HIDE DEF i, nf, ng
<1>6. \A tx \in Tx : FeeW(b.beneficiary)[i][tx] = 0 /\ StakeW[i][tx] = 0
  BY <1>0, <1>4, <1>5 DEF FeeW, FeeChange, StakeW
<1>7. FeeW(b.beneficiary)[i] \in Weight /\ StakeW[i] \in Weight
  BY <1>0, <1>1, WeightTypes DEF Weights
<1>8. Sum(FeeW(b.beneficiary)[i], FeeTxs(b)) = 0 /\ Sum(StakeW[i], b.stake) = 0
  <2>1. /\ \A k \in 1 .. Len(FeeTxs(b)) : FeeW(b.beneficiary)[i][FeeTxs(b)[k]] = 0
        /\ \A k \in 1 .. Len(b.stake) : StakeW[i][b.stake[k]] = 0
    BY <1>1, <1>6
  <2> QED
    BY <2>1, <1>1, <1>7, SumZero, Zenon
<1>9. Total(FeeW(b.beneficiary), FeeTxs(b))[i] = 0 /\ Total(StakeW, b.stake)[i] = 0
  BY <1>0, <1>8 DEF Total
<1>10. SlashChange(b, 1)[i] = 0
  BY <1>4, <1>5 DEF SlashChange
<1>11. BlockChange(R, b)[i] = nf + ng
  BY <1>2, <1>3, <1>4, <1>5, <1>9, <1>10 DEF BlockChange
<1> QED
  BY <1>11 DEF i, nf, ng

-----------------------------------------------------------------------------
(* What an accepted block does to the accounts.                            *)
LEMMA CounterShift ==
    ASSUME NEW x \in States, NEW y \in States, NEW d, Shift(x, y, d), NEW c \in Account,
           x.acc[c] # Nil
    PROVE  y.acc[c].cnt = x.acc[c].cnt + d[<<c, "cnt">>]
<1> DEFINE i == <<c, "cnt">>
<1>1. i \in Slot /\ i[1] = c /\ i[2] = "cnt"
  BY DEF Slot
<1>2. Val(y, i) = Red(i, Val(x, i) + d[i])
  BY <1>1 DEF Shift
<1>3. \A s, n : Val(s, i) = s.acc[c].cnt /\ Red(i, n) = n
  BY <1>1 DEF Val, Red
<1> QED
  BY <1>2, <1>3

LEMMA StakingUnchanged ==
    ASSUME NEW s, NEW b, WellFormed(s, b), NEW R, NEW c \in Account, c # b.slashed,
           \A k \in 1 .. Len(b.stake) : b.stake[k].acc # c
    PROVE  BlockChange(R, b)[<<c, "staking">>] = 0
<1> DEFINE i == <<c, "staking">>
<1>1. i \in Slot
  BY DEF Slot
<1>2. BeforeSlash(R, b)[i] = 0
  BY StakingKept
<1>3. At(b.slashed, "staking", 1)[i] = 0 /\ \A x, n : At(x, "bal", n)[i] = 0
  BY <1>1 DEF At
<1>4. Zero[i] = 0 /\ \A d, e : Plus(d, e)[i] = d[i] + e[i]
  BY <1>1 DEF Zero, Plus
<1>5. BlockChange(R, b) = Plus(BeforeSlash(R, b), SlashChange(b, 1))
  BY DEF BlockChange, BeforeSlash
<1> HIDE DEF i
<1>6. SlashChange(b, 1)[i] = 0
  BY <1>3, <1>4 DEF SlashChange
<1> QED
  BY <1>2, <1>4, <1>5, <1>6 DEF i

Counter(s, c) == IF s.acc[c] = Nil THEN 0 ELSE s.acc[c].cnt

LEMMA BlockEffect ==
    ASSUME NEW s \in States, NEW b, WellFormed(s, b), Open(b), Unslashed(s, b),
           ~validateState(s, b).err
    PROVE  LET z == validateState(s, b).s IN
           /\ z \in States /\ z.dead = s.dead
           /\ Rooted(s) => Rooted(z)
           /\ \A c \in Account : s.acc[c] # Nil => z.acc[c] # Nil
           /\ \A c \in Account :
                 (/\ s.acc[c] # Nil /\ c # b.slashed
                  /\ \A k \in 1 .. Len(b.stake) : b.stake[k].acc # c)
                 => z.acc[c].staking = s.acc[c].staking
           /\ Distinct(b.funds) /\ Distinct(b.agg) => \A c \in Account :
                 z.acc[c] # Nil =>
                    z.acc[c].cnt = Counter(s, c) + (Cardinality(OfSender(ToSet(b.funds), c))
                                                    + Cardinality(OfSender(ToSet(b.agg), c)))
<1> DEFINE z == validateState(s, b).s
<1>1. PICK a \in States :
         /\ Made(s, a, b.acc, Len(b.acc))
         /\ Alike(a, z)
         /\ Shift(a, z, BlockChange(a.root, b))
  BY ValidateForward, Zenon
<1>2. z \in States /\ z.dead = s.dead
  BY ValidateForward DEF Results
<1> HIDE DEF z
<1> DEFINE Names == Named(b.acc, Len(b.acc))
<1>3. /\ Names \subseteq Account /\ Roots(b.acc, Len(b.acc)) \subseteq Names
      /\ \A x \in Account : s.acc[x] # Nil => a.acc[x] # Nil /\ a.acc[x] = s.acc[x]
  BY <1>1, NamedAccounts, MadeAlive DEF WellFormed
<1>4. /\ \A x \in Names : s.acc[x] = Nil /\ a.acc[x] # Nil /\ a.acc[x].cnt = 0
      /\ \A x \in Account \ Names : a.acc[x] = s.acc[x]
      /\ a.root = s.root \cup Roots(b.acc, Len(b.acc))
  BY <1>1 DEF Made
<1>5. z.root = a.root /\ \A x \in Account : a.acc[x] = Nil <=> z.acc[x] = Nil
  BY <1>1 DEF Alike
<1>6. WellFormed(a, b)
  BY <1>3, WellFormedAlike
<1> HIDE DEF Names
<1>7. Rooted(s) => Rooted(z)
  <2>1. s.root \subseteq Account
    BY DEF States
  <2> QED
    BY <1>3, <1>4, <1>5, <2>1 DEF Rooted
<1>8. ASSUME NEW c \in Account, s.acc[c] # Nil, c # b.slashed,
             \A k \in 1 .. Len(b.stake) : b.stake[k].acc # c
      PROVE  z.acc[c].staking = s.acc[c].staking
  <2>1. BlockChange(a.root, b)[<<c, "staking">>] = 0
    BY <1>6, <1>8, StakingUnchanged
  <2>2. a.acc[c] # Nil /\ a.acc[c] = s.acc[c]
    BY <1>3, <1>8
  <2> QED
    BY <1>1, <1>2, <2>1, <2>2, StakingSame
<1>9. ASSUME Distinct(b.funds), Distinct(b.agg), NEW c \in Account, z.acc[c] # Nil
      PROVE  z.acc[c].cnt = Counter(s, c) + (Cardinality(OfSender(ToSet(b.funds), c))
                                             + Cardinality(OfSender(ToSet(b.agg), c)))
  <2>1. a.acc[c] # Nil /\ a.acc[c].cnt = Counter(s, c)
    BY <1>3, <1>4, <1>5, <1>9 DEF Counter
  <2>2. z.acc[c].cnt = a.acc[c].cnt + BlockChange(a.root, b)[<<c, "cnt">>]
    BY <1>1, <1>2, <2>1, CounterShift
  <2>3. BlockChange(a.root, b)[<<c, "cnt">>] =
           Cardinality(OfSender(ToSet(b.funds), c)) + Cardinality(OfSender(ToSet(b.agg), c))
    BY <1>6, <1>9, CounterChange
  <2> QED
    BY <2>1, <2>2, <2>3
<1>10. \A c \in Account : s.acc[c] # Nil => z.acc[c] # Nil
  BY <1>3, <1>5
<1> QED
  BY <1>2, <1>7, <1>8, <1>9, <1>10 DEF z

LEMMA ViewFields ==
    ASSUME NEW s \in States
    PROVE  /\ View(s) \in ViewType /\ View(s).root = s.root
           /\ \A a \in Account : View(s).acc[a] = Nil <=> s.acc[a] = Nil
           /\ \A a \in Account : s.acc[a] # Nil =>
                 View(s).acc[a][2] = s.acc[a].cnt /\ View(s).acc[a][3] = s.acc[a].staking
<1>1. \A a \in Account : s.acc[a] \in AccountState \cup {Nil}
  BY DEF States
<1>2. \A a \in Account : s.acc[a] # Nil =>
         <<s.acc[a].bal, s.acc[a].cnt, s.acc[a].staking>> \in AccountView
  BY <1>1 DEF AccountState, AccountView
<1>3. Nil \notin AccountView
  BY LedgerAssumption
<1>4. View(s).root = s.root /\ \A a \in Account : View(s).acc[a] =
         IF s.acc[a] = Nil THEN Nil ELSE <<s.acc[a].bal, s.acc[a].cnt, s.acc[a].staking>>
  BY DEF View
<1>5. View(s) \in ViewType
  <2>1. s.root \in SUBSET Account
    BY DEF States
  <2> QED
    BY <1>2, <2>1 DEF View, ViewType
<1>6. ASSUME NEW a \in Account, s.acc[a] # Nil
      PROVE  /\ View(s).acc[a] # Nil
             /\ View(s).acc[a][2] = s.acc[a].cnt /\ View(s).acc[a][3] = s.acc[a].staking
  <2>1. View(s).acc[a] = <<s.acc[a].bal, s.acc[a].cnt, s.acc[a].staking>>
    BY <1>4, <1>6, Zenon
  <2>2. \A v, x, y, z : v = <<x, y, z>> => v[2] = y /\ v[3] = z
    OBVIOUS
  <2>3. View(s).acc[a] # Nil
    BY <1>2, <1>3, <1>6, <2>1, Zenon
  <2> DEFINE v == View(s).acc[a]
  <2> HIDE DEF v
  <2>4. v = <<s.acc[a].bal, s.acc[a].cnt, s.acc[a].staking>>
    BY <2>1 DEF v
  <2>5. v[2] = s.acc[a].cnt /\ v[3] = s.acc[a].staking
    BY <2>2, <2>4, Zenon
  <2> QED
    BY <2>3, <2>5 DEF v
<1> QED
  BY <1>4, <1>5, <1>6

-----------------------------------------------------------------------------
(* The chain and the views: what is known before a block depends only on   *)
(* the blocks before it.                                                   *)
LEMMA SettledSame ==
    ASSUME NEW v, NEW c, NEW d, NEW i, \A j \in 1 .. (i - 1) : d[j] = c[j]
    PROVE  /\ ClosedBefore(d, i) = ClosedBefore(c, i)
           /\ Settled(v, c, i) => Settled(v, d, i)
<1>1. ClosedBefore(d, i) = ClosedBefore(c, i)
  BY DEF ClosedBefore
<1> QED
  BY <1>1 DEF Settled

LEMMA NothingClosed == \A c : ClosedBefore(c, 1) = {}
BY DEF ClosedBefore

LEMMA ClosedNext ==
    ASSUME NEW c, NEW n \in Nat
    PROVE  ClosedBefore(c, n + 2) = ClosedBefore(c, n + 1) \cup BlockTxs(c[n + 1])
<1>1. \A j : j \in 1 .. ((n + 2) - 1) <=> j \in 1 .. ((n + 1) - 1) \/ j = n + 1
  OBVIOUS
<1> QED
  BY <1>1, Zenon DEF ClosedBefore

(* The views and the chain after a block is accepted, or rolled back.      *)
LEMMA Appended ==
    ASSUME NEW set, NEW s \in Seq(set), NEW x
    PROVE  /\ Len(Append(s, x)) = Len(s) + 1 /\ Len(s) \in Nat
           /\ \A i \in 1 .. Len(s) : Append(s, x)[i] = s[i]
           /\ Append(s, x)[Len(s) + 1] = x
           /\ x \in set => Append(s, x) \in Seq(set)
OBVIOUS

LEMMA Shortened ==
    ASSUME NEW set, NEW s \in Seq(set), s # <<>>
    PROVE  /\ Len(s) \in Nat \ {0} /\ Len(Front(s)) = Len(s) - 1 /\ Front(s) \in Seq(set)
           /\ \A i \in 1 .. Len(s) - 1 : Front(s)[i] = s[i]
           /\ Last(s) = s[Len(s)] /\ Last(s) \in set
<1>1. Len(s) \in Nat \ {0} /\ s[Len(s)] \in set
  OBVIOUS
<1> DEFINE f == SubSeq(s, 1, Len(s) - 1)
<1>2. Len(f) = Len(s) - 1 /\ f \in Seq(set) /\ \A i \in 1 .. Len(s) - 1 : f[i] = s[i]
  <2> DEFINE n == Len(s) - 1
  <2>1. n \in Int /\ 1 \in Int /\ n \in Nat /\ \A i \in 1 .. n : s[i] \in set
    BY <1>1
  <2>2. /\ SubSeq(s, 1, n) \in Seq(set)
        /\ Len(SubSeq(s, 1, n)) = IF 1 <= n THEN n - 1 + 1 ELSE 0
        /\ \A i \in 1 .. n - 1 + 1 : SubSeq(s, 1, n)[i] = s[1 + i - 1]
    <3> HIDE DEF n
    <3> QED
      BY <2>1, SubSeqProperties
  <2> DEFINE g == SubSeq(s, 1, n)
  <2> HIDE DEF g
  <2>3. g \in Seq(set) /\ Len(g) = n /\ \A i \in 1 .. n : g[i] = s[i]
    <3>1. /\ g \in Seq(set) /\ Len(g) = IF 1 <= n THEN n - 1 + 1 ELSE 0
          /\ \A i \in 1 .. n - 1 + 1 : g[i] = s[1 + i - 1]
      BY <2>2 DEF g
    <3> HIDE DEF n
    <3>2. n - 1 + 1 = n /\ \A i \in 1 .. n : 1 + i - 1 = i
      BY <2>1
    <3> QED
      BY <2>1, <3>1, <3>2
  <2> QED
    BY <2>3 DEF g
<1> HIDE DEF f
<1>3. Front(s) = f /\ Last(s) = s[Len(s)]
  BY DEF Front, Last, f
<1> QED
  BY <1>1, <1>2, <1>3

LEMMA ViewsAre ==
    ASSUME TypeInv
    PROVE  /\ Len(Views) = Len(chain) + 1 /\ Len(chain) \in Nat
           /\ \A i \in 1 .. Len(chain) : Views[i] = snaps[i]
           /\ Views[Len(chain) + 1] = View(S)
<1>1. snaps \in Seq(ViewType) /\ Len(snaps) = Len(chain)
  BY DEF TypeInv
<1> DEFINE v == Append(snaps, View(S))
<1>2. /\ Len(v) = Len(snaps) + 1 /\ Len(snaps) \in Nat
      /\ \A i \in 1 .. Len(snaps) : v[i] = snaps[i]
      /\ v[Len(snaps) + 1] = View(S)
  BY <1>1
<1> HIDE DEF v
<1> QED
  BY <1>1, <1>2 DEF Views, v

LEMMA ClosedTypes ==
    ASSUME TypeInv, ChainInv
    PROVE  closed \subseteq Tx
<1>1. \A b \in Blocks : BlockTxs(b) \subseteq Tx
  <2> TAKE b \in Blocks
  <2>1. /\ ToSet(b.acc) \subseteq Tx /\ ToSet(b.funds) \subseteq Tx /\ ToSet(b.agg) \subseteq Tx
        /\ ToSet(b.config) \subseteq Tx /\ ToSet(b.stake) \subseteq Tx
    BY ToSetFinite DEF Blocks
  <2> QED
    BY <2>1 DEF BlockTxs
<1>2. \A j \in 1 .. Len(chain) : chain[j] \in Blocks
  BY DEF TypeInv
<1>3. Len(chain) \in Nat
  BY DEF TypeInv
<1>4. closed = UNION {BlockTxs(chain[j]) : j \in 1 .. Len(chain)}
  <2>1. (Len(chain) + 1) - 1 = Len(chain)
    BY <1>3
  <2> QED
    BY <2>1 DEF ChainInv, ClosedBefore
<1> QED
  BY <1>1, <1>2, <1>4

(* Steps that change neither the view nor the chain.                       *)
LEMMA ChainKept ==
    ASSUME ChainInv, chain' = chain, snaps' = snaps, closed' = closed, View(S)' = View(S)
    PROVE  ChainInv'
<1>1. Views' = Views
  BY DEF Views
<1> QED
  BY <1>1 DEF ChainInv

LEMMA InitInv ==
    ASSUME Init
    PROVE  IInv
<1>1. /\ S = [acc |-> InitAcc, root |-> InitRoot, dead |-> FALSE] /\ S \in States
      /\ S.acc = InitAcc /\ S.root = InitRoot /\ ~S.dead
  BY LedgerAssumption DEF Init, States
<1>2. /\ closed = {} /\ aggregated = {} /\ before = {} /\ pc = "idle" /\ verdict = "none"
      /\ chain = <<>> /\ snaps = <<>> /\ block = NoBlock
  BY DEF Init
<1>3. TypeInv
  BY <1>1, <1>2, LedgerAssumption, FS_EmptySet DEF TypeInv
<1>4. Settled(View(S), chain, 1)
  <2>1. \A a \in View(S).root : View(S).acc[a] # Nil
    BY <1>1, ViewFields, LedgerAssumption
  <2>3. \A a \in Account : Counted(View(S), {}, a)
    <3> TAKE a \in Account
    <3>1. OfSender({}, a) = {}
      BY DEF OfSender
    <3>2. View(S).acc[a] # Nil => View(S).acc[a][2] = 0
      BY <1>1, ViewFields, LedgerAssumption
    <3> QED
      BY <3>1, <3>2, NumberedEmpty DEF Counted
  <2> QED
    BY <2>1, <2>3, NothingClosed DEF Settled
<1>5. ChainInv
  <2>1. Len(chain) = 0 /\ Views[1] = View(S)
    BY <1>2, <1>3, ViewsAre
  <2>2. \A i : i \in 1 .. Len(chain) + 1 <=> i = 1
    BY <2>1
  <2>3. \A i \in 1 .. Len(chain) + 1 : Settled(Views[i], chain, i)
    BY <1>4, <2>1, <2>2
  <2>4. closed = ClosedBefore(chain, Len(chain) + 1)
    BY <1>2, <2>1, NothingClosed
  <2> QED
    BY <2>1, <2>3, <2>4 DEF ChainInv
<1>6. PreparationInv
  BY <1>2 DEF PreparationInv
<1> QED
  BY <1>3, <1>5, <1>6 DEF IInv

(* A block whose transfers carry the next counters and whose transactions  *)
(* are new keeps what is known of the chain when it is accepted.           *)
NextBlock(b) ==
    /\ b \in Blocks /\ WellFormed(S, b)
    /\ BlockTxs(b) \cap closed = {}
    /\ Distinct(b.funds) /\ Distinct(b.agg) /\ ToSet(b.funds) \cap ToSet(b.agg) = {}
    /\ \A a \in Account : S.acc[a] # Nil =>
          LET txs == OfSender(ToSet(b.funds) \cup ToSet(b.agg), a)
          IN Numbered(txs, S.acc[a].cnt, S.acc[a].cnt + Cardinality(txs))
    /\ Unslashed(S, b)

LEMMA TransfersOfBlock ==
    ASSUME NEW s, NEW b, WellFormed(s, b), NEW a
    PROVE  /\ OfSender(BlockTxs(b), a) = OfSender(ToSet(b.funds) \cup ToSet(b.agg), a)
           /\ s.acc[a] = Nil => OfSender(BlockTxs(b), a) = {}
<1>1. \A t \in ToSet(b.acc) \cup ToSet(b.config) \cup ToSet(b.stake) : t.kind # "funds"
  <2>1. b.acc \in Seq(AccTx) /\ b.config \in Seq(ConfigTx) /\ b.stake \in Seq(StakeTx)
    BY DEF WellFormed, Creating, Stakeable
  <2>2. /\ ToSet(b.acc) \subseteq AccTx /\ ToSet(b.config) \subseteq ConfigTx
        /\ ToSet(b.stake) \subseteq StakeTx
    BY <2>1, ToSetFinite
  <2> QED
    BY <2>2 DEF AccTx, ConfigTx, StakeTx
<1>2. ASSUME NEW t \in ToSet(b.funds) \cup ToSet(b.agg) PROVE s.acc[t.from] # Nil
  <2>1. b.funds \in Seq(FundsTx) /\ b.agg \in Seq(FundsTx)
    BY DEF WellFormed, Payable
  <2> QED
    <3>1. \A k \in 1 .. Len(b.funds) : s.acc[b.funds[k].from] # Nil
      BY DEF WellFormed, Payable, Live
    <3>2. \A k \in 1 .. Len(b.agg) : s.acc[b.agg[k].from] # Nil
      BY DEF WellFormed, Payable, Live
    <3>3. \A x : x \in ToSet(b.funds) => \E k \in 1 .. Len(b.funds) : x = b.funds[k]
      BY <2>1, ToSetFinite
    <3>4. \A x : x \in ToSet(b.agg) => \E k \in 1 .. Len(b.agg) : x = b.agg[k]
      BY <2>1, ToSetFinite
    <3>5. CASE t \in ToSet(b.funds)
      <4>1. PICK k \in 1 .. Len(b.funds) : t = b.funds[k]
        BY <3>3, <3>5
      <4> QED
        BY <3>1, <4>1
    <3>6. CASE t \in ToSet(b.agg)
      <4>1. PICK k \in 1 .. Len(b.agg) : t = b.agg[k]
        BY <3>4, <3>6
      <4> QED
        BY <3>2, <4>1
    <3> QED
      BY <1>2, <3>5, <3>6
<1> QED
  BY <1>1, <1>2 DEF OfSender, BlockTxs

LEMMA CountedNext ==
    ASSUME NEW s \in States, NEW b, WellFormed(s, b), NEW z \in States, NEW txs, NEW a \in Account,
           s.acc[a] # Nil => z.acc[a] # Nil,
           z.acc[a] # Nil => z.acc[a].cnt = Counter(s, a)
                                 + (Cardinality(OfSender(ToSet(b.funds), a))
                                    + Cardinality(OfSender(ToSet(b.agg), a))),
           ToSet(b.funds) \cap ToSet(b.agg) = {}, BlockTxs(b) \cap txs = {},
           Counted(View(s), txs, a),
           s.acc[a] # Nil => LET new == OfSender(ToSet(b.funds) \cup ToSet(b.agg), a)
                             IN Numbered(new, s.acc[a].cnt, s.acc[a].cnt + Cardinality(new))
    PROVE  Counted(View(z), txs \cup BlockTxs(b), a)
<1> DEFINE f == OfSender(ToSet(b.funds), a)
           g == OfSender(ToSet(b.agg), a)
           new == OfSender(ToSet(b.funds) \cup ToSet(b.agg), a)
           old == OfSender(txs, a)
<1>1. /\ OfSender(BlockTxs(b), a) = new /\ (s.acc[a] = Nil => new = {})
      /\ new = f \cup g /\ f \cap g = {} /\ old \cap new = {}
  <2>1. /\ OfSender(BlockTxs(b), a) = new /\ (s.acc[a] = Nil => OfSender(BlockTxs(b), a) = {})
    BY TransfersOfBlock, Zenon
  <2>2. new = f \cup g /\ f \cap g = {} /\ old \cap OfSender(BlockTxs(b), a) = {}
    BY DEF OfSender
  <2> QED
    BY <2>1, <2>2
<1>2. OfSender(txs \cup BlockTxs(b), a) = old \cup new
  BY <1>1 DEF OfSender
<1>3. IsFiniteSet(f) /\ IsFiniteSet(g)
  <2>1. \A q \in Seq(FundsTx) : IsFiniteSet(OfSender(ToSet(q), a))
    <3> TAKE q \in Seq(FundsTx)
    <3>1. IsFiniteSet(ToSet(q)) /\ OfSender(ToSet(q), a) \in SUBSET ToSet(q)
      BY ToSetFinite DEF OfSender
    <3> QED
      BY <3>1, FS_Subset
  <2> QED
    BY <2>1 DEF WellFormed, Payable
<1> HIDE DEF f, g, new, old
<1>4. /\ Cardinality(new) = Cardinality(f) + Cardinality(g)
      /\ Cardinality(f) \in Nat /\ Cardinality(g) \in Nat
  <2>1. Cardinality(f \cap g) = 0
    BY <1>1, FS_EmptySet
  <2>2. Cardinality(f \cup g) = Cardinality(f) + Cardinality(g) - Cardinality(f \cap g)
    BY <1>3, FS_Union
  <2>3. Cardinality(f) \in Nat /\ Cardinality(g) \in Nat
    BY <1>3, FS_CardinalityType
  <2> QED
    BY <1>1, <2>1, <2>2, <2>3
<1>5. CASE z.acc[a] = Nil
  <2>1. s.acc[a] = Nil
    BY <1>5
  <2>2. old = {} /\ new = {}
    BY <1>1, <2>1, ViewFields DEF Counted, old
  <2>3. View(z).acc[a] = Nil
    BY <1>5, ViewFields
  <2> QED
    BY <1>2, <2>2, <2>3 DEF Counted
<1>6. CASE z.acc[a] # Nil /\ s.acc[a] = Nil
  <2>1. old = {} /\ new = {}
    BY <1>1, <1>6, ViewFields DEF Counted, old
  <2>2. Cardinality(new) = 0
    BY <2>1, FS_EmptySet
  <2>3. z.acc[a].cnt = 0 + (Cardinality(f) + Cardinality(g))
    BY <1>6 DEF Counter, f, g
  <2>4. z.acc[a].cnt = 0
    BY <1>4, <2>2, <2>3
  <2>5. View(z).acc[a] # Nil /\ View(z).acc[a][2] = 0
    BY <1>6, <2>4, ViewFields
  <2>6. old \cup new = {}
    BY <2>1
  <2> QED
    BY <1>2, <2>5, <2>6, NumberedEmpty DEF Counted
<1>7. CASE z.acc[a] # Nil /\ s.acc[a] # Nil
  <2>1. /\ View(s).acc[a] # Nil /\ View(s).acc[a][2] = s.acc[a].cnt
        /\ View(z).acc[a] # Nil /\ View(z).acc[a][2] = z.acc[a].cnt
    BY <1>7, ViewFields
  <2>2. Numbered(old, 0, s.acc[a].cnt)
    BY <2>1 DEF Counted, old
  <2>3. Numbered(new, s.acc[a].cnt, s.acc[a].cnt + Cardinality(new))
    BY <1>7 DEF new
  <2>4. Numbered(old \cup new, 0, s.acc[a].cnt + Cardinality(new))
    BY <1>1, <2>2, <2>3, NumberedUnion
  <2>5. z.acc[a].cnt = s.acc[a].cnt + (Cardinality(f) + Cardinality(g))
    BY <1>7 DEF Counter, f, g
  <2>6. z.acc[a].cnt = s.acc[a].cnt + Cardinality(new)
    BY <1>4, <2>5
  <2> QED
    BY <1>2, <2>1, <2>4, <2>6 DEF Counted
<1> QED
  BY <1>5, <1>6, <1>7

LEMMA KnownBefore ==
    ASSUME TypeInv, ChainInv
    PROVE  /\ S \in States /\ ~S.dead /\ Rooted(S) /\ Len(chain) \in Nat
           /\ Settled(View(S), chain, Len(chain) + 1)
           /\ closed = ClosedBefore(chain, Len(chain) + 1)
<1>1. S \in States /\ ~S.dead
  BY DEF TypeInv
<1>2. Len(chain) \in Nat /\ Views[Len(chain) + 1] = View(S)
  BY ViewsAre
<1>3. Settled(View(S), chain, Len(chain) + 1)
  <2>1. Len(chain) + 1 \in 1 .. Len(chain) + 1
    BY <1>2
  <2> QED
    BY <1>2, <2>1 DEF ChainInv
<1>4. Rooted(S)
  <2>1. S.root \subseteq Account
    BY <1>1 DEF States
  <2> QED
    BY <1>1, <1>3, <2>1, ViewFields DEF Rooted, Settled
<1> QED
  BY <1>1, <1>2, <1>3, <1>4 DEF ChainInv

LEMMA NextSettled ==
    ASSUME TypeInv, ChainInv, NEW b, NextBlock(b), ~validateState(S, b).err
    PROVE  LET z == validateState(S, b).s IN
           /\ z \in States /\ z.dead = S.dead
           /\ Settled(View(z), Append(chain, b), Len(chain) + 2)
           /\ Undoes(b, View(S), View(z))
<1> DEFINE z == validateState(S, b).s
           n == Len(chain)
           c == Append(chain, b)
<1>1. /\ S \in States /\ ~S.dead /\ Rooted(S) /\ n \in Nat
      /\ Settled(View(S), chain, n + 1)
      /\ closed = ClosedBefore(chain, n + 1)
  BY KnownBefore
<1>2. WellFormed(S, b) /\ b \in Blocks
  BY DEF NextBlock
<1>3. Open(b)
  <2>1. /\ \A k \in 1 .. Len(b.funds) : b.funds[k] \in ToSet(b.funds)
        /\ \A k \in 1 .. Len(b.agg) : b.agg[k] \in ToSet(b.agg)
    BY <1>2, ToSetFinite DEF Blocks
  <2> QED
    BY <2>1 DEF NextBlock, Open, BlockTxs
<1>4. /\ chain \in Seq(Blocks) /\ DOMAIN chain = 1 .. n
      /\ \A j \in 1 .. n : c[j] = chain[j]
      /\ c[n + 1] = b
  BY DEF TypeInv
<1> HIDE DEF c
<1>6. Unslashed(S, b)
  BY DEF NextBlock
<1>7. /\ z \in States /\ z.dead = S.dead /\ Rooted(z)
      /\ \A a \in Account : S.acc[a] # Nil => z.acc[a] # Nil
      /\ \A a \in Account :
            (/\ S.acc[a] # Nil /\ a # b.slashed
             /\ \A k \in 1 .. Len(b.stake) : b.stake[k].acc # a)
            => z.acc[a].staking = S.acc[a].staking
      /\ \A a \in Account :
            z.acc[a] # Nil =>
               z.acc[a].cnt = Counter(S, a) + (Cardinality(OfSender(ToSet(b.funds), a))
                                               + Cardinality(OfSender(ToSet(b.agg), a)))
  <2>1. Distinct(b.funds) /\ Distinct(b.agg)
    BY DEF NextBlock
  <2> QED
    BY <1>1, <1>2, <1>3, <1>6, <2>1, BlockEffect, Zenon
<1>8. Undoes(b, View(S), View(z))
  <2> SUFFICES ASSUME NEW y \in States, ~y.dead, View(y) = View(z)
               PROVE  LET u == validateStateRollback(y, b)
                      IN u \in States /\ ~u.dead /\ View(u) = View(S)
    BY DEF Undoes
  <2>1. y.dead = S.dead
    BY <1>1 DEF States
  <2> QED
    BY <1>1, <1>2, <1>3, <1>6, <2>1, RollbackInverse
<1> HIDE DEF z
<1>9. \A a \in View(z).root : View(z).acc[a] # Nil
  <2>1. z.root \subseteq Account
    BY <1>7 DEF States
  <2> QED
    BY <1>7, <2>1, ViewFields DEF Rooted
<1>11. ClosedBefore(c, n + 2) = closed \cup BlockTxs(b)
  <2>1. ClosedBefore(c, n + 2) = ClosedBefore(c, n + 1) \cup BlockTxs(c[n + 1])
    BY <1>1, ClosedNext
  <2>2. \A j \in 1 .. ((n + 1) - 1) : c[j] = chain[j]
    BY <1>1, <1>4
  <2> QED
    BY <1>1, <1>4, <2>1, <2>2, SettledSame
<1>12. ASSUME NEW a \in Account PROVE Counted(View(z), closed \cup BlockTxs(b), a)
  <2>1. Counted(View(S), closed, a)
    BY <1>1 DEF Settled
  <2>2. /\ ToSet(b.funds) \cap ToSet(b.agg) = {} /\ BlockTxs(b) \cap closed = {}
        /\ S.acc[a] # Nil => LET new == OfSender(ToSet(b.funds) \cup ToSet(b.agg), a)
                             IN Numbered(new, S.acc[a].cnt, S.acc[a].cnt + Cardinality(new))
    BY DEF NextBlock
  <2> QED
    BY <1>1, <1>2, <1>7, <2>1, <2>2, CountedNext
<1>13. Settled(View(z), c, n + 2)
  BY <1>9, <1>11, <1>12 DEF Settled
<1> QED
  BY <1>7, <1>8, <1>13 DEF z, c

LEMMA AcceptedChain ==
    ASSUME TypeInv, ChainInv, NEW b, NextBlock(b), ~validateState(S, b).err,
           S' = validateState(S, b).s, closed' = closed \cup BlockTxs(b),
           chain' = Append(chain, b), snaps' = Append(snaps, View(S))
    PROVE  ChainInv' /\ S' \in States /\ S'.dead = S.dead
<1> DEFINE n == Len(chain)
<1>1. /\ S \in States /\ n \in Nat
      /\ closed = ClosedBefore(chain, n + 1)
  BY KnownBefore
<1>2. /\ S' \in States /\ S'.dead = S.dead
      /\ Settled(View(S'), chain', n + 2)
      /\ Undoes(b, View(S), View(S'))
  BY NextSettled
<1>3. /\ chain \in Seq(Blocks) /\ snaps \in Seq(ViewType) /\ Len(snaps) = n
  BY DEF TypeInv
<1>4. /\ Len(chain') = n + 1 /\ chain'[n + 1] = b
      /\ \A i \in 1 .. n : chain'[i] = chain[i]
  BY <1>3
<1>5. /\ Len(Views) = n + 1 /\ Views[n + 1] = View(S)
      /\ \A i \in 1 .. n : Views[i] = snaps[i]
  BY ViewsAre
<1> DEFINE w == Append(Append(snaps, View(S)), View(S'))
<1>6. /\ w[n + 2] = View(S') /\ w[n + 1] = View(S)
      /\ \A i \in 1 .. n : w[i] = snaps[i]
  <2> DEFINE q == Append(snaps, View(S))
  <2>1. /\ Len(q) = n + 1 /\ q[n + 1] = View(S) /\ \A i \in 1 .. n : q[i] = snaps[i]
    BY <1>3
  <2>2. q \in Seq(ViewType)
    BY <1>1, <1>3, ViewFields
  <2> HIDE DEF q
  <2>3. Append(q, View(S'))[n + 2] = View(S') /\ \A i \in 1 .. n + 1 : Append(q, View(S'))[i] = q[i]
    BY <1>1, <2>1, <2>2
  <2>4. n + 1 \in 1 .. n + 1 /\ \A i \in 1 .. n : i \in 1 .. n + 1
    BY <1>1
  <2> QED
    BY <2>1, <2>3, <2>4 DEF q
<1>7. Views' = w
  BY DEF Views
<1> HIDE DEF w
<1>8. /\ Views'[n + 2] = View(S')
      /\ \A i \in 1 .. n + 1 : Views'[i] = Views[i]
  BY <1>1, <1>5, <1>6, <1>7
<1>9. closed' = ClosedBefore(chain', n + 2)
  <2> HIDE DEF n
  <2>1. ClosedBefore(chain', n + 2) = ClosedBefore(chain', n + 1) \cup BlockTxs(chain'[n + 1])
    BY <1>1, ClosedNext, Zenon
  <2>2. \A j \in 1 .. ((n + 1) - 1) : chain'[j] = chain[j]
    BY <1>1, <1>4
  <2>3. ClosedBefore(chain', n + 1) = ClosedBefore(chain, n + 1)
    BY <2>2, SettledSame, Zenon
  <2> QED
    BY <1>1, <1>4, <2>1, <2>3
<1>10. \A i \in 1 .. n : BlockTxs(chain[i]) \subseteq closed
  <2>1. (n + 1) - 1 = n
    BY <1>1
  <2> QED
    BY <1>1, <2>1 DEF ClosedBefore
<1>11. \A i, j \in 1 .. n + 1 : i # j => BlockTxs(chain'[i]) \cap BlockTxs(chain'[j]) = {}
  <2> SUFFICES ASSUME NEW i \in 1 .. n + 1, NEW j \in 1 .. n + 1, i # j
               PROVE  BlockTxs(chain'[i]) \cap BlockTxs(chain'[j]) = {}
    OBVIOUS
  <2>1. /\ i = n + 1 \/ i \in 1 .. n
        /\ j = n + 1 \/ j \in 1 .. n
    BY <1>1
  <2>2. BlockTxs(b) \cap closed = {}
    BY DEF NextBlock
  <2>3. CASE i \in 1 .. n /\ j \in 1 .. n
    BY <1>4, <2>3 DEF ChainInv
  <2>4. CASE i = n + 1 /\ j \in 1 .. n
    BY <1>4, <1>10, <2>2, <2>4
  <2>5. CASE i \in 1 .. n /\ j = n + 1
    BY <1>4, <1>10, <2>2, <2>5
  <2> QED
    BY <2>1, <2>3, <2>4, <2>5, Zenon
<1>12. \A i \in 1 .. n + 2 : Settled(Views'[i], chain', i)
  <2> SUFFICES ASSUME NEW i \in 1 .. n + 2 PROVE Settled(Views'[i], chain', i)
    OBVIOUS
  <2>1. CASE i = n + 2
    BY <1>2, <1>8, <2>1
  <2>2. CASE i # n + 2
    <3>1. i \in 1 .. n + 1 /\ \A j \in 1 .. (i - 1) : j \in 1 .. n
      BY <1>1, <2>2
    <3>2. Settled(Views[i], chain, i)
      BY <3>1 DEF ChainInv
    <3>3. \A j \in 1 .. (i - 1) : chain'[j] = chain[j]
      BY <1>4, <3>1
    <3> QED
      BY <1>8, <3>1, <3>2, <3>3, SettledSame
  <2> QED
    BY <2>1, <2>2
<1>13. \A i \in 1 .. n + 1 : Undoes(chain'[i], Views'[i], Views'[i + 1])
  <2> SUFFICES ASSUME NEW i \in 1 .. n + 1 PROVE Undoes(chain'[i], Views'[i], Views'[i + 1])
    OBVIOUS
  <2>1. CASE i = n + 1
    <3>1. i + 1 = n + 2
      BY <1>1, <2>1
    <3> QED
      BY <1>2, <1>4, <1>5, <1>8, <2>1, <3>1
  <2>2. CASE i # n + 1
    <3>1. i \in 1 .. n /\ i \in 1 .. n + 1 /\ i + 1 \in 1 .. n + 1
      BY <1>1, <2>2
    <3> QED
      BY <1>4, <1>8, <3>1 DEF ChainInv
  <2> QED
    BY <2>1, <2>2
<1>14. Len(chain') + 1 = n + 2
  BY <1>1, <1>4
<1> HIDE DEF n
<1>15. ChainInv'
  BY <1>4, <1>9, <1>11, <1>12, <1>13, <1>14 DEF ChainInv
<1> QED
  BY <1>2, <1>15

LEMMA RolledBackChain ==
    ASSUME TypeInv, ChainInv, chain # <<>>,
           S' = validateStateRollback(S, Last(chain)), closed' = closed \ BlockTxs(Last(chain)),
           chain' = Front(chain), snaps' = Front(snaps)
    PROVE  ChainInv' /\ S' \in States /\ ~S'.dead /\ View(S') = Last(snaps)
<1> DEFINE n == Len(chain)
<1>1. /\ S \in States /\ ~S.dead /\ closed = ClosedBefore(chain, n + 1)
  BY KnownBefore
<1>2. /\ chain \in Seq(Blocks) /\ snaps \in Seq(ViewType) /\ Len(snaps) = n
  BY DEF TypeInv
<1>3. /\ n \in Nat \ {0} /\ Len(chain') = n - 1 /\ \A i \in 1 .. n - 1 : chain'[i] = chain[i]
      /\ Last(chain) = chain[n]
  BY <1>2, Shortened
<1>4. /\ Len(snaps') = n - 1 /\ \A i \in 1 .. n - 1 : snaps'[i] = snaps[i]
      /\ Last(snaps) = snaps[n] /\ snaps' \in Seq(ViewType)
  <2>1. snaps # <<>>
    BY <1>2, <1>3
  <2> QED
    BY <1>2, <2>1, Shortened
<1>5. /\ Len(Views) = n + 1 /\ Views[n + 1] = View(S)
      /\ \A i \in 1 .. n : Views[i] = snaps[i]
  BY ViewsAre
<1>6. S' \in States /\ ~S'.dead /\ View(S') = snaps[n]
  <2>1. n \in 1 .. n
    BY <1>3
  <2>2. Undoes(chain[n], snaps[n], View(S))
    BY <1>5, <2>1 DEF ChainInv
  <2> QED
    BY <1>1, <1>3, <2>2 DEF Undoes
<1>7. Views' = Append(snaps', View(S'))
  BY DEF Views
<1>8. \A i \in 1 .. n : Views'[i] = Views[i]
  <2> SUFFICES ASSUME NEW i \in 1 .. n PROVE Views'[i] = Views[i]
    OBVIOUS
  <2>1. /\ Views'[n] = View(S')
        /\ \A k \in 1 .. n - 1 : Views'[k] = snaps'[k]
    BY <1>3, <1>4, <1>7
  <2>2. CASE i = n
    BY <1>5, <1>6, <2>1, <2>2
  <2>3. CASE i # n
    <3>1. i \in 1 .. n - 1
      BY <1>3, <2>3
    <3> QED
      BY <1>4, <1>5, <2>1, <3>1
  <2> QED
    BY <2>2, <2>3
<1>9. closed' = ClosedBefore(chain', n)
  <2>1. ClosedBefore(chain, n + 1) = ClosedBefore(chain, n) \cup BlockTxs(chain[n])
    <3> DEFINE k == n - 1
    <3>1. k \in Nat /\ k + 1 = n /\ k + 2 = n + 1
      BY <1>3
    <3> HIDE DEF k
    <3> QED
      BY <3>1, ClosedNext
  <2>2. ClosedBefore(chain', n) = ClosedBefore(chain, n)
    BY <1>3, SettledSame
  <2>3. ClosedBefore(chain, n) \cap BlockTxs(chain[n]) = {}
    <3>1. \A i \in 1 .. (n - 1) : i \in 1 .. n /\ n \in 1 .. n /\ i # n
      BY <1>3
    <3>2. \A i \in 1 .. (n - 1) : BlockTxs(chain[i]) \cap BlockTxs(chain[n]) = {}
      BY <3>1 DEF ChainInv
    <3> QED
      BY <3>2 DEF ClosedBefore
  <2> QED
    BY <1>1, <1>3, <2>1, <2>2, <2>3
<1>10. \A i, j \in 1 .. n - 1 : i # j => BlockTxs(chain'[i]) \cap BlockTxs(chain'[j]) = {}
  <2>1. \A i \in 1 .. n - 1 : i \in 1 .. n
    BY <1>3
  <2> QED
    BY <1>3, <2>1 DEF ChainInv
<1>11. \A i \in 1 .. n : Settled(Views'[i], chain', i)
  <2> SUFFICES ASSUME NEW i \in 1 .. n PROVE Settled(Views'[i], chain', i)
    OBVIOUS
  <2>1. i \in 1 .. n + 1 /\ \A j \in 1 .. (i - 1) : j \in 1 .. n - 1
    BY <1>3
  <2>2. Settled(Views[i], chain, i)
    BY <2>1 DEF ChainInv
  <2>3. \A j \in 1 .. (i - 1) : chain'[j] = chain[j]
    BY <1>3, <2>1
  <2> QED
    BY <1>8, <2>2, <2>3, SettledSame
<1>12. \A i \in 1 .. n - 1 : Undoes(chain'[i], Views'[i], Views'[i + 1])
  <2> SUFFICES ASSUME NEW i \in 1 .. n - 1 PROVE Undoes(chain'[i], Views'[i], Views'[i + 1])
    OBVIOUS
  <2>1. i \in 1 .. n /\ i + 1 \in 1 .. n
    BY <1>3
  <2> QED
    BY <1>3, <1>8, <2>1 DEF ChainInv
<1>13. Len(chain') + 1 = n
  BY <1>3
<1> HIDE DEF n
<1>14. ChainInv'
  BY <1>3, <1>9, <1>10, <1>11, <1>12, <1>13 DEF ChainInv
<1> QED
  BY <1>4, <1>6, <1>14

-----------------------------------------------------------------------------
(* The block under construction.                                           *)
LEMMA EmptyParts ==
    ASSUME NEW b, b.acc = <<>>, b.funds = <<>>, b.agg = <<>>, b.config = <<>>, b.stake = <<>>
    PROVE  BlockTxs(b) = {} /\ ToSet(b.funds) = {} /\ ToSet(b.agg) = {}
<1>1. ToSet(<<>>) = {}
  BY DEF ToSet
<1> QED
  BY <1>1 DEF BlockTxs

LEMMA CountersAreNatural ==
    ASSUME TypeInv, ChainInv, NEW a \in Account, S.acc[a] # Nil
    PROVE  /\ S.acc[a].cnt \in Nat /\ S.acc[a].cnt = Cardinality(OfSender(closed, a))
           /\ Numbered(OfSender(closed, a), 0, S.acc[a].cnt)
<1>1. S \in States /\ Counted(View(S), closed, a)
  BY KnownBefore DEF Settled
<1>2. Numbered(OfSender(closed, a), 0, S.acc[a].cnt)
  BY <1>1, ViewFields DEF Counted
<1>3. Cardinality(OfSender(closed, a)) \in Nat
  BY <1>2, FS_CardinalityType DEF Numbered
<1> QED
  BY <1>2, <1>3 DEF Numbered

LEMMA NewBlockInv ==
    ASSUME IInv, NEW m \in Miners, NewBlock(m)
    PROVE  IInv'
<1>0. TypeInv /\ ChainInv /\ PreparationInv
  BY DEF IInv
<1>1. /\ pc = "idle" /\ Len(chain) < MaxHeight /\ S.acc[m] # Nil /\ pc' = "adding"
      /\ block' = [NoBlock EXCEPT !.beneficiary = m, !.height = Len(chain) + 1]
      /\ copy' = S.acc /\ verdict' = "none"
      /\ S' = S /\ closed' = closed /\ aggregated' = aggregated /\ chain' = chain
      /\ before' = before /\ snaps' = snaps
  BY DEF NewBlock
<1>2. m \in Account /\ Len(chain) \in Nat /\ before = {} /\ S \in States
  BY <1>0, <1>1, LedgerAssumption DEF TypeInv, PreparationInv
<1>3. TypeInv'
  BY <1>0, <1>1 DEF TypeInv
<1>4. ChainInv'
  BY <1>0, <1>1, ChainKept
<1>5. /\ block'.acc = <<>> /\ block'.funds = <<>> /\ block'.agg = <<>> /\ block'.config = <<>>
      /\ block'.stake = <<>> /\ block'.beneficiary = m /\ block'.slashed = Nil
      /\ block'.height = Len(chain) + 1
      /\ block' = [acc |-> <<>>, funds |-> <<>>, agg |-> <<>>, config |-> <<>>,
                   stake |-> <<>>, beneficiary |-> m, slashed |-> Nil, height |-> Len(chain) + 1]
  BY <1>1 DEF NoBlock
<1>6. block' \in Blocks
  BY <1>2, <1>5 DEF Blocks
<1>7. Drafted(S, block')
  <2>1. /\ <<>> \in Seq(AccTx) /\ Payable(S, <<>>) /\ Stakeable(S, <<>>) /\ <<>> \in Seq(ConfigTx)
    BY DEF Payable, Stakeable
  <2>2. Live(S, m) /\ Len(chain) + 1 \in Nat
    BY <1>1, <1>2 DEF Live
  <2> QED
    BY <1>5, <2>1, <2>2 DEF Drafted
<1>8. BlockTxs(block') = {} /\ ToSet(block'.funds) = {} /\ ToSet(block'.agg) = {} /\ Pending' = {}
  <2>1. BlockTxs(block') = {} /\ ToSet(block'.funds) = {} /\ ToSet(block'.agg) = {}
    BY <1>5, EmptyParts, Zenon
  <2> QED
    BY <1>1, <1>2, <2>1 DEF Pending
<1>9. \A a : OfSender({}, a) = {} /\ Cardinality(OfSender({}, a)) = 0
  <2>1. \A a : OfSender({}, a) = {}
    BY DEF OfSender
  <2> QED
    BY <2>1, FS_EmptySet
<1>10. \A a \in Account : S.acc[a] # Nil =>
           /\ S.acc[a].cnt + Cardinality(OfSender({}, a)) = S.acc[a].cnt
           /\ Numbered(OfSender({}, a), S.acc[a].cnt, S.acc[a].cnt)
  BY <1>0, <1>9, CountersAreNatural, NumberedEmpty
<1>11. Distinct(<<>>)
  BY DEF Distinct
<1>12. BlockInv'
  BY <1>1, <1>2, <1>5, <1>6, <1>7, <1>8, <1>10, <1>11 DEF BlockInv
<1>13. CopyInv'
  BY <1>1, <1>2, <1>8, <1>10 DEF CopyInv, States
<1> QED
  BY <1>1, <1>3, <1>4, <1>12, <1>13 DEF IInv, PreparationInv

(* A transaction that moves no funds goes straight into the block.         *)
LEMMA BlockExtended ==
    ASSUME BlockInv, block' \in Blocks, block'.slashed = Nil, Drafted(S, block'),
           block'.funds = block.funds, block'.agg = block.agg,
           before' = before, S' = S, closed' = closed,
           NEW tx, tx \notin closed, BlockTxs(block') \subseteq BlockTxs(block) \cup {tx}
    PROVE  BlockInv' /\ Pending' = Pending
<1>1. Pending' = Pending
  BY DEF Pending
<1>2. (before' \cup BlockTxs(block')) \cap closed' = {}
  BY DEF BlockInv
<1> QED
  BY <1>1, <1>2 DEF BlockInv

LEMMA CopyKept ==
    ASSUME CopyInv, copy' = copy, S' = S, Pending' = Pending
    PROVE  CopyInv'
BY DEF CopyInv

LEMMA AppendedPart ==
    ASSUME NEW set, NEW q \in Seq(set), NEW tx \in set
    PROVE  /\ Append(q, tx) \in Seq(set) /\ ToSet(Append(q, tx)) = ToSet(q) \cup {tx}
           /\ Len(Append(q, tx)) = Len(q) + 1 /\ Len(q) \in Nat
           /\ \A k \in 1 .. Len(Append(q, tx)) :
                 \/ Append(q, tx)[k] = tx
                 \/ k \in 1 .. Len(q) /\ Append(q, tx)[k] = q[k]
<1> DEFINE r == Append(q, tx)
<1>1. /\ r \in Seq(set) /\ Len(r) = Len(q) + 1 /\ Len(q) \in Nat /\ r[Len(q) + 1] = tx
      /\ \A k \in 1 .. Len(q) : r[k] = q[k] /\ k \in 1 .. Len(r)
      /\ Len(q) + 1 \in 1 .. Len(r)
  OBVIOUS
<1>2. \A k \in 1 .. Len(r) : r[k] = tx \/ (k \in 1 .. Len(q) /\ r[k] = q[k])
  OBVIOUS
<1> HIDE DEF r
<1>3. \A x : /\ x \in ToSet(r) <=> \E i \in 1 .. Len(r) : x = r[i]
             /\ x \in ToSet(q) <=> \E i \in 1 .. Len(q) : x = q[i]
  BY <1>1, ToSetFinite
<1>4. ToSet(r) \subseteq ToSet(q) \cup {tx}
  BY <1>2, <1>3
<1>5. ToSet(q) \cup {tx} \subseteq ToSet(r)
  BY <1>1, <1>3
<1> QED
  BY <1>1, <1>2, <1>4, <1>5 DEF r

LEMMA AddOtherInv ==
    ASSUME BlockInv, CopyInv, S \in States, NEW tx \in Tx, tx \notin closed,
           verify(tx), addAccTx(tx) \/ addConfigTx(tx) \/ addStakeTx(tx),
           S' = S, closed' = closed
    PROVE  BlockInv' /\ CopyInv' /\ before' = before
<1>1. /\ block \in Blocks /\ block.slashed = Nil /\ Drafted(S, block)
  BY DEF BlockInv
<1>2. CASE addAccTx(tx)
  <2>1. /\ tx.kind = "acc" /\ block' = [block EXCEPT !.acc = Append(block.acc, tx)]
        /\ copy' = copy /\ before' = before
    BY <1>2 DEF addAccTx
  <2>2. /\ block'.acc = Append(block.acc, tx) /\ block'.funds = block.funds
        /\ block'.agg = block.agg /\ block'.config = block.config /\ block'.stake = block.stake
        /\ block'.beneficiary = block.beneficiary /\ block'.slashed = block.slashed
        /\ block'.height = block.height
    BY <1>1, <2>1 DEF Blocks
  <2>3. tx \in AccTx
    BY <2>1 DEF AccTx
  <2>4. block'.acc \in Seq(AccTx)
    <3>1. block.acc \in Seq(AccTx)
      BY <1>1 DEF Drafted
    <3> QED
      BY <2>2, <2>3, <3>1, AppendedPart
  <2>5. Drafted(S, block')
    BY <1>1, <2>2, <2>4 DEF Drafted
  <2>6. block' \in Blocks
    <3>1. Append(block.acc, tx) \in Seq(Tx)
      BY <1>1 DEF Blocks
    <3> QED
      BY <1>1, <2>1, <3>1 DEF Blocks
  <2>7. BlockTxs(block') = BlockTxs(block) \cup {tx}
    <3>1. ToSet(Append(block.acc, tx)) = ToSet(block.acc) \cup {tx}
      BY <1>1, AppendedPart DEF Blocks
    <3> QED
      BY <2>2, <3>1 DEF BlockTxs
  <2>8. BlockInv' /\ Pending' = Pending
    BY <1>1, <2>1, <2>2, <2>5, <2>6, <2>7, BlockExtended
  <2> QED
    BY <2>1, <2>8, CopyKept
<1>3. CASE addConfigTx(tx)
  <2>1. /\ tx.kind = "config" /\ block' = [block EXCEPT !.config = Append(block.config, tx)]
        /\ copy' = copy /\ before' = before
    BY <1>3 DEF addConfigTx
  <2>2. /\ block'.config = Append(block.config, tx) /\ block'.funds = block.funds
        /\ block'.agg = block.agg /\ block'.acc = block.acc /\ block'.stake = block.stake
        /\ block'.beneficiary = block.beneficiary /\ block'.slashed = block.slashed
        /\ block'.height = block.height
    BY <1>1, <2>1 DEF Blocks
  <2>3. block'.config \in Seq(ConfigTx)
    BY <1>1, <2>1, <2>2 DEF Drafted, ConfigTx
  <2>5. Drafted(S, block')
    BY <1>1, <2>2, <2>3 DEF Drafted
  <2>6. block' \in Blocks
    <3>1. Append(block.config, tx) \in Seq(Tx)
      BY <1>1 DEF Blocks
    <3> QED
      BY <1>1, <2>1, <3>1 DEF Blocks
  <2>7. BlockTxs(block') = BlockTxs(block) \cup {tx}
    <3>1. ToSet(Append(block.config, tx)) = ToSet(block.config) \cup {tx}
      BY <1>1, AppendedPart DEF Blocks
    <3> QED
      BY <2>2, <3>1 DEF BlockTxs
  <2>8. BlockInv' /\ Pending' = Pending
    BY <1>1, <2>1, <2>2, <2>5, <2>6, <2>7, BlockExtended
  <2> QED
    BY <2>1, <2>8, CopyKept
<1>4. CASE addStakeTx(tx)
  <2>1. /\ tx.kind = "stake" /\ block' = [block EXCEPT !.stake = Append(block.stake, tx)]
        /\ copy' = [copy EXCEPT ![tx.acc].staking = tx.staking] /\ before' = before
    BY <1>4 DEF addStakeTx
  <2>2. /\ block'.stake = Append(block.stake, tx) /\ block'.funds = block.funds
        /\ block'.agg = block.agg /\ block'.acc = block.acc /\ block'.config = block.config
        /\ block'.beneficiary = block.beneficiary /\ block'.slashed = block.slashed
        /\ block'.height = block.height
    BY <1>1, <2>1 DEF Blocks
  <2>3. /\ tx \in StakeTx /\ tx.acc \in Account /\ tx.staking \in BOOLEAN
        /\ S.acc[tx.acc] # Nil
    BY <2>1, TxFields DEF verify, StakeTx
  <2>4. Stakeable(S, block'.stake)
    <3>1. block.stake \in Seq(StakeTx) /\ \A k \in 1 .. Len(block.stake) : Live(S, block.stake[k].acc)
      BY <1>1 DEF Drafted, Stakeable
    <3> QED
      BY <2>2, <2>3, <3>1, AppendedPart DEF Stakeable, Live
  <2>5. Drafted(S, block')
    BY <1>1, <2>2, <2>4 DEF Drafted
  <2>6. block' \in Blocks
    <3>1. Append(block.stake, tx) \in Seq(Tx)
      BY <1>1 DEF Blocks
    <3> QED
      BY <1>1, <2>1, <3>1 DEF Blocks
  <2>7. BlockTxs(block') = BlockTxs(block) \cup {tx}
    <3>1. ToSet(Append(block.stake, tx)) = ToSet(block.stake) \cup {tx}
      BY <1>1, AppendedPart DEF Blocks
    <3> QED
      BY <2>2, <3>1 DEF BlockTxs
  <2>8. BlockInv' /\ Pending' = Pending
    BY <1>1, <2>1, <2>2, <2>5, <2>6, <2>7, BlockExtended
  <2>9. CopyInv'
    <3> DEFINE v == [copy[tx.acc] EXCEPT !.staking = tx.staking]
    <3>1. copy[tx.acc] \in AccountState /\ copy[tx.acc] # Nil
      BY <2>3 DEF CopyInv
    <3>2. v \in AccountState /\ v # Nil /\ v.cnt = copy[tx.acc].cnt
      BY <2>3, <3>1, LedgerAssumption DEF AccountState
    <3> HIDE DEF v
    <3>3. copy' = [copy EXCEPT ![tx.acc] = v]
      BY <2>1 DEF v
    <3> QED
      BY <2>3, <2>8, <3>1, <3>2, <3>3 DEF CopyInv
  <2> QED
    BY <2>1, <2>8, <2>9
<1> QED
  BY <1>2, <1>3, <1>4

LEMMA AddFundsInv ==
    ASSUME BlockInv, CopyInv, S \in States, NEW tx \in Tx, tx \notin closed \cup before \cup BlockTxs(block),
           verify(tx), addFundsTx(tx), S' = S, closed' = closed
    PROVE  BlockInv' /\ CopyInv' /\ before' = before \cup {tx}
<1>1. /\ tx.kind = "funds" /\ before' = before \cup {tx} /\ block' = block
      /\ tx.cnt = copy[tx.from].cnt
      /\ LET paid == [copy EXCEPT ![tx.from].cnt = @ + 1,
                                  ![tx.from].bal = (@ - (tx.amount + tx.fee)) % Wrap]
         IN copy' = [paid EXCEPT ![tx.to].bal = (@ + tx.amount) % Wrap]
  BY DEF addFundsTx
<1>2. tx \in FundsTx /\ tx.from \in Account /\ tx.to \in Account
      /\ S.acc[tx.from] # Nil /\ S.acc[tx.to] # Nil /\ tx.amount \in Nat /\ tx.fee \in Nat
  <2>1. tx \in FundsTx
    BY <1>1 DEF FundsTx
  <2> QED
    BY <1>1, <2>1, TxFields DEF verify
<1>3. /\ copy \in [Account -> AccountState \cup {Nil}]
      /\ \A a \in Account : S.acc[a] = Nil <=> copy[a] = Nil
      /\ \A a \in Account : S.acc[a] # Nil =>
            copy[a].cnt = S.acc[a].cnt + Cardinality(OfSender(Pending, a))
  BY DEF CopyInv
<1>4. Pending' = Pending \cup {tx} /\ tx \notin Pending
  BY <1>1 DEF Pending, BlockTxs
<1>5. /\ \A a \in Account : a # tx.from => OfSender(Pending', a) = OfSender(Pending, a)
      /\ OfSender(Pending', tx.from) = OfSender(Pending, tx.from) \cup {tx}
      /\ tx \notin OfSender(Pending, tx.from)
  BY <1>1, <1>4 DEF OfSender
<1>6. \A a \in Account : S.acc[a] # Nil =>
          Numbered(OfSender(Pending, a), S.acc[a].cnt,
                   S.acc[a].cnt + Cardinality(OfSender(Pending, a)))
  BY DEF BlockInv
<1>7. /\ Numbered(OfSender(Pending', tx.from), S.acc[tx.from].cnt,
                  S.acc[tx.from].cnt + Cardinality(OfSender(Pending', tx.from)))
      /\ Cardinality(OfSender(Pending', tx.from)) = Cardinality(OfSender(Pending, tx.from)) + 1
      /\ Cardinality(OfSender(Pending, tx.from)) \in Nat /\ S.acc[tx.from].cnt \in Nat
  <2> DEFINE old == OfSender(Pending, tx.from)
             n == S.acc[tx.from].cnt
  <2>1. Numbered(old, n, n + Cardinality(old)) /\ tx.cnt = n + Cardinality(old) /\ tx \notin old
    BY <1>1, <1>2, <1>3, <1>5, <1>6
  <2>2. Cardinality(old) \in Nat /\ n \in Nat
    BY <2>1, FS_CardinalityType DEF Numbered
  <2> HIDE DEF old, n
  <2>3. /\ Numbered(old \cup {tx}, n, (n + Cardinality(old)) + 1)
        /\ Cardinality(old \cup {tx}) = Cardinality(old) + 1
    BY <2>1, NumberedAdd
  <2>4. (n + Cardinality(old)) + 1 = n + Cardinality(old \cup {tx})
    BY <2>2, <2>3
  <2>5. Numbered(old \cup {tx}, n, n + Cardinality(old \cup {tx}))
    BY <2>3, <2>4
  <2> QED
    BY <1>5, <2>2, <2>3, <2>5 DEF old, n
<1>8. BlockInv'
  <2>1. \A a \in Account : S.acc[a] # Nil =>
          Numbered(OfSender(Pending', a), S.acc[a].cnt,
                   S.acc[a].cnt + Cardinality(OfSender(Pending', a)))
    BY <1>5, <1>6, <1>7
  <2>2. /\ (before' \cup BlockTxs(block)) \cap closed = {}
        /\ before' \cap (ToSet(block.funds) \cup ToSet(block.agg)) = {}
        /\ \A t \in before' : t.kind = "funds" /\ Live(S, t.from) /\ Live(S, t.to)
    BY <1>1, <1>2 DEF BlockInv, BlockTxs, Live
  <2> QED
    BY <1>1, <2>1, <2>2 DEF BlockInv
<1>9. /\ copy' \in [Account -> AccountState \cup {Nil}]
      /\ \A a \in Account : copy[a] = Nil <=> copy'[a] = Nil
      /\ \A a \in Account : copy[a] # Nil =>
            copy'[a].cnt = IF a = tx.from THEN copy[a].cnt + 1 ELSE copy[a].cnt
  <2> DEFINE v == [copy[tx.from] EXCEPT !.cnt = @ + 1, !.bal = (@ - (tx.amount + tx.fee)) % Wrap]
             paid == [copy EXCEPT ![tx.from] = v]
             w == [paid[tx.to] EXCEPT !.bal = (@ + tx.amount) % Wrap]
  <2>0. \A x \in Int : x % Wrap \in 0 .. Wrap - 1
    BY WrapPositive, Division
  <2>1. copy[tx.from] \in AccountState /\ copy[tx.to] \in AccountState
        /\ copy[tx.from] # Nil /\ copy[tx.to] # Nil
    BY <1>2, <1>3
  <2>2. v \in AccountState /\ v.cnt = copy[tx.from].cnt + 1
    <3>1. copy[tx.from].bal - (tx.amount + tx.fee) \in Int /\ copy[tx.from].cnt + 1 \in Int
      BY <1>2, <2>1 DEF AccountState
    <3>2. (copy[tx.from].bal - (tx.amount + tx.fee)) % Wrap \in 0 .. Wrap - 1
      BY <2>0, <3>1, Zenon
    <3> DEFINE p == (copy[tx.from].bal - (tx.amount + tx.fee)) % Wrap
               k == copy[tx.from].cnt + 1
    <3>3. v = [copy[tx.from] EXCEPT !.cnt = k, !.bal = p]
      OBVIOUS
    <3> HIDE DEF p
    <3> QED
      BY <2>1, <3>1, <3>2, <3>3 DEF AccountState, p
  <2> HIDE DEF v
  <2>3. /\ paid[tx.to] \in AccountState /\ paid \in [Account -> AccountState \cup {Nil}]
        /\ paid[tx.to].cnt = IF tx.to = tx.from THEN copy[tx.to].cnt + 1 ELSE copy[tx.to].cnt
        /\ \A a \in Account : a # tx.from => paid[a] = copy[a]
        /\ paid[tx.from] = v
    <3>1. copy \in [Account -> AccountState \cup {Nil}] /\ tx.from \in Account /\ tx.to \in Account
      BY <1>2, <1>3
    <3>2. \A a \in Account : paid[a] = IF a = tx.from THEN v ELSE copy[a]
      BY <3>1
    <3>3. paid \in [Account -> AccountState \cup {Nil}]
      BY <2>2, <3>1
    <3> HIDE DEF paid
    <3> QED
      BY <2>1, <2>2, <3>1, <3>2, <3>3, Zenon
  <2>4. copy' = [paid EXCEPT ![tx.to] = w]
    <3>1. paid = [copy EXCEPT ![tx.from].cnt = @ + 1,
                                  ![tx.from].bal = (@ - (tx.amount + tx.fee)) % Wrap]
      BY DEF v
    <3> QED
      BY <1>1, <3>1
  <2> HIDE DEF paid
  <2>5. w \in AccountState /\ w.cnt = paid[tx.to].cnt
    <3>1. paid[tx.to].bal + tx.amount \in Int
      BY <1>2, <2>3 DEF AccountState
    <3>2. (paid[tx.to].bal + tx.amount) % Wrap \in 0 .. Wrap - 1
      BY <2>0, <3>1, Zenon
    <3> DEFINE p == (paid[tx.to].bal + tx.amount) % Wrap
    <3>3. w = [paid[tx.to] EXCEPT !.bal = p]
      OBVIOUS
    <3> HIDE DEF p
    <3> QED
      BY <2>3, <3>2, <3>3 DEF AccountState, p
  <2> HIDE DEF w
  <2>6. v # Nil /\ w # Nil
    BY <2>2, <2>5, LedgerAssumption
  <2> QED
    BY <1>2, <1>3, <2>1, <2>2, <2>3, <2>4, <2>5, <2>6
<1>10. CopyInv'
  <2>1. ASSUME NEW a \in Account, S.acc[a] # Nil
        PROVE  copy'[a].cnt = S.acc[a].cnt + Cardinality(OfSender(Pending', a))
    <3>1. CASE a = tx.from
      BY <1>3, <1>7, <1>9, <2>1, <3>1
    <3>2. CASE a # tx.from
      BY <1>3, <1>5, <1>9, <2>1, <3>2
    <3> QED
      BY <3>1, <3>2
  <2> QED
    BY <1>3, <1>9, <2>1 DEF CopyInv
<1> QED
  BY <1>1, <1>8, <1>10

LEMMA AddTxInv ==
    ASSUME IInv, NEW tx \in Tx, addTx(tx)
    PROVE  IInv'
<1>0. TypeInv /\ ChainInv /\ BlockInv /\ CopyInv
  BY DEF IInv, PreparationInv, addTx
<1>1. /\ pc = "adding" /\ tx \notin closed \cup before \cup BlockTxs(block) /\ verify(tx)
      /\ S' = S /\ closed' = closed /\ aggregated' = aggregated /\ chain' = chain /\ pc' = pc
      /\ verdict' = verdict /\ snaps' = snaps
      /\ addAccTx(tx) \/ addConfigTx(tx) \/ addStakeTx(tx) \/ addFundsTx(tx)
  BY DEF addTx
<1>2. BlockInv' /\ CopyInv' /\ (before' = before \/ before' = before \cup {tx})
  <2>1. S \in States
    BY <1>0 DEF TypeInv
  <2>2. CASE addFundsTx(tx)
    BY <1>0, <1>1, <2>1, <2>2, AddFundsInv, Zenon
  <2>3. CASE addAccTx(tx) \/ addConfigTx(tx) \/ addStakeTx(tx)
    <3>1. tx \notin closed
      BY <1>1
    <3> QED
      BY <1>0, <1>1, <2>1, <2>3, <3>1, AddOtherInv, Zenon
  <2> QED
    BY <1>1, <2>2, <2>3
<1>3. TypeInv'
  <2>1. IsFiniteSet(before) /\ IsFiniteSet(before \cup {tx}) /\ before \subseteq Tx
    BY <1>0, FS_AddElement DEF TypeInv
  <2>2. IsFiniteSet(before') /\ before' \subseteq Tx
    BY <1>2, <2>1
  <2> QED
    BY <1>0, <1>1, <2>2 DEF TypeInv
<1>4. ChainInv'
  BY <1>0, <1>1, ChainKept
<1> QED
  BY <1>1, <1>2, <1>3, <1>4 DEF IInv, PreparationInv

(* The transactions are selected: StateCopy is dropped.                    *)
LEMMA TxsSelectedInv ==
    ASSUME IInv, TxsSelected
    PROVE  IInv'
<1>0. TypeInv /\ ChainInv /\ BlockInv
  BY DEF IInv, PreparationInv, TxsSelected
<1>1. /\ pc = "adding" /\ pc' = "grouping" /\ S' = S /\ closed' = closed
      /\ aggregated' = aggregated /\ chain' = chain /\ block' = block /\ before' = before
      /\ verdict' = verdict /\ snaps' = snaps
  BY DEF TxsSelected
<1>2. TypeInv'
  BY <1>0, <1>1 DEF TypeInv
<1>3. ChainInv'
  BY <1>0, <1>1, ChainKept
<1>4. BlockInv'
  BY <1>0, <1>1 DEF BlockInv, Pending
<1> QED
  BY <1>1, <1>2, <1>3, <1>4 DEF IInv, PreparationInv

LEMMA AbandonInv ==
    ASSUME IInv, Abandon
    PROVE  IInv'
<1>0. TypeInv /\ ChainInv
  BY DEF IInv
<1>1. /\ pc' = "idle" /\ S' = S /\ closed' = closed /\ verdict' = "none"
      /\ aggregated' = aggregated /\ chain' = chain /\ block' = NoBlock
      /\ before' = before /\ before = {} /\ snaps' = snaps
  BY DEF Abandon
<1>2. TypeInv'
  BY <1>0, <1>1 DEF TypeInv
<1>3. ChainInv'
  BY <1>0, <1>1, ChainKept
<1> QED
  BY <1>1, <1>2, <1>3 DEF IInv, PreparationInv

(* A rollback ends without a nil dereference and restores the view.        *)
LEMMA RollbackInv ==
    ASSUME IInv, Rollback
    PROVE  IInv' /\ View(S') = Last(snaps)
<1>0. TypeInv /\ ChainInv /\ pc = "idle" /\ block = NoBlock /\ before = {}
  BY DEF IInv, PreparationInv, Rollback
<1>1. /\ chain # <<>> /\ S' = validateStateRollback(S, Last(chain))
      /\ pc' = (IF S'.dead THEN "panic" ELSE "idle")
      /\ closed' = closed \ BlockTxs(Last(chain)) /\ chain' = Front(chain)
      /\ snaps' = Front(snaps) /\ verdict' = "none"
      /\ aggregated' = aggregated /\ block' = block /\ before' = before
  BY DEF Rollback
<1>2. ChainInv' /\ S' \in States /\ ~S'.dead /\ View(S') = Last(snaps)
  BY <1>0, <1>1, RolledBackChain
<1>3. /\ Len(chain') = Len(chain) - 1 /\ chain' \in Seq(Blocks) /\ Len(chain) \in Nat
      /\ Len(snaps') = Len(snaps) - 1 /\ snaps' \in Seq(ViewType)
  <2>1. chain \in Seq(Blocks) /\ snaps \in Seq(ViewType) /\ snaps # <<>>
    BY <1>0, <1>1 DEF TypeInv
  <2> QED
    BY <1>1, <2>1, Shortened
<1>4. TypeInv'
  <2>1. MaxHeight \in Nat
    BY LedgerAssumption
  <2>2. Len(chain') <= MaxHeight /\ Len(snaps') = Len(chain')
    BY <1>0, <1>3, <2>1 DEF TypeInv
  <2> QED
    BY <1>0, <1>1, <1>2, <1>3, <2>2 DEF TypeInv
<1> QED
  BY <1>0, <1>1, <1>2, <1>4 DEF IInv, PreparationInv

(* A group moves from the selected transfers into the block.               *)
LEMMA GroupsOfSelected == \A group \in Groups : group \subseteq before
<1>1. \A a \in Account : BySender[a] \subseteq before /\ ByReceiver[a] \subseteq before
  BY DEF BySender, ByReceiver
<1> DEFINE s == BySender
           r == ByReceiver
<1> HIDE DEF s, r
<1>2. \A a \in Account : s[a] \subseteq before /\ r[a] \subseteq before
  BY <1>1 DEF s, r
<1>3. Groups = IF Most(s) >= Most(r) THEN Largest(s) ELSE Largest(r)
  BY Zenon DEF Groups, s, r
<1>4. \A group \in Largest(s) \cup Largest(r) : group \subseteq before
  BY <1>2 DEF Largest
<1> QED
  BY <1>3, <1>4

(* The sequence of a group, appended to one part of the block.             *)
LEMMA GroupAppended ==
    ASSUME NEW group, IsFiniteSet(group), NEW part,
           \A t \in group : t \in FundsTx /\ Live(S, t.from) /\ Live(S, t.to),
           Payable(S, part), Distinct(part), ToSet(part) \cap group = {}
    PROVE  LET q == part \o SetToSeq(group) IN
           /\ Payable(S, q) /\ Distinct(q) /\ q \in Seq(Tx)
           /\ ToSet(q) = ToSet(part) \cup group
<1> DEFINE g == SetToSeq(group)
           q == part \o g
<1>1. g \in Seq(group) /\ ToSet(g) = group /\ Distinct(g)
  BY OneSequence
<1> HIDE DEF g
<1>2. g \in Seq(FundsTx) /\ part \in Seq(FundsTx)
  <2>1. group \subseteq FundsTx
    OBVIOUS
  <2>2. g \in Seq(FundsTx)
    BY <1>1, <2>1
  <2> QED
    BY <2>2 DEF Payable
<1>3. q \in Seq(FundsTx) /\ ToSet(q) = ToSet(part) \cup group /\ Distinct(q)
  BY <1>1, <1>2, DistinctConcat
<1> HIDE DEF q
<1>4. \A t \in ToSet(part) : Live(S, t.from) /\ Live(S, t.to)
  BY <1>2, ToSetFinite DEF Payable
<1>5. \A k \in 1 .. Len(q) : q[k] \in ToSet(part) \cup group
  BY <1>3, ToSetFinite
<1>6. Payable(S, q)
  BY <1>3, <1>4, <1>5 DEF Payable
<1>7. q \in Seq(Tx)
  BY <1>3, PartsOfTx
<1> QED
  BY <1>3, <1>6, <1>7 DEF q, g

(* What BlockInv says of a block that the group has moved into.            *)
LEMMA GroupMoved ==
    ASSUME BlockInv, NEW group, group \subseteq before, before' = before \ group,
           S' = S, closed' = closed,
           block' \in Blocks, block'.slashed = Nil, Drafted(S, block'),
           BlockTxs(block') = BlockTxs(block) \cup group,
           Distinct(block'.funds), Distinct(block'.agg),
           ToSet(block'.funds) \cap ToSet(block'.agg) = {},
           ToSet(block'.funds) \cup ToSet(block'.agg)
              = (ToSet(block.funds) \cup ToSet(block.agg)) \cup group
    PROVE  BlockInv'
<1>1. Pending' = Pending
  BY DEF Pending
<1>2. before' \cap (ToSet(block'.funds) \cup ToSet(block'.agg)) = {}
  BY DEF BlockInv
<1>3. (before' \cup BlockTxs(block')) \cap closed' = {}
  BY DEF BlockInv
<1>4. \A t \in before' : t.kind = "funds" /\ Live(S, t.from) /\ Live(S, t.to)
  BY DEF BlockInv
<1>5. \A a \in Account : S.acc[a] # Nil =>
          Numbered(OfSender(Pending', a), S.acc[a].cnt,
                   S.acc[a].cnt + Cardinality(OfSender(Pending', a)))
  BY <1>1 DEF BlockInv
<1> QED
  BY <1>2, <1>3, <1>4, <1>5 DEF BlockInv

LEMMA AggregateInv ==
    ASSUME IInv, AggregateTransactions
    PROVE  IInv'
<1>0. TypeInv /\ ChainInv /\ BlockInv
  BY DEF IInv, PreparationInv, AggregateTransactions
<1>1. PICK group \in Groups :
         /\ before' = before \ group
         /\ \/ block' = [block EXCEPT !.agg = @ \o SetToSeq(group)]
            \/ block' = [block EXCEPT !.funds = @ \o SetToSeq(group)]
  BY Zenon DEF AggregateTransactions
<1>2. /\ pc = "grouping" /\ pc' = pc /\ S' = S /\ closed' = closed
      /\ aggregated' = aggregated /\ chain' = chain /\ verdict' = verdict /\ snaps' = snaps
  BY DEF AggregateTransactions
<1>3. group \subseteq before /\ IsFiniteSet(group) /\ IsFiniteSet(before') /\ before' \subseteq Tx
  <2>1. group \in SUBSET before /\ before' \in SUBSET before
    BY <1>1, GroupsOfSelected
  <2> QED
    BY <1>0, <2>1, FS_Subset DEF TypeInv
<1>4. TypeInv'
  BY <1>0, <1>2, <1>3 DEF TypeInv
<1>5. ChainInv'
  BY <1>0, <1>2, ChainKept
<1>6. \A t \in group : t \in FundsTx /\ Live(S, t.from) /\ Live(S, t.to)
  BY <1>0, <1>3 DEF BlockInv, TypeInv, FundsTx
<1>7. /\ block \in Blocks /\ block.slashed = Nil /\ Drafted(S, block)
      /\ Payable(S, block.funds) /\ Payable(S, block.agg)
      /\ Distinct(block.funds) /\ Distinct(block.agg)
      /\ ToSet(block.funds) \cap group = {} /\ ToSet(block.agg) \cap group = {}
      /\ ToSet(block.funds) \cap ToSet(block.agg) = {}
  BY <1>0, <1>3 DEF BlockInv, Drafted
<1>8. CASE block' = [block EXCEPT !.agg = @ \o SetToSeq(group)]
  <2> DEFINE q == block.agg \o SetToSeq(group)
  <2>1. Payable(S, q) /\ Distinct(q) /\ q \in Seq(Tx) /\ ToSet(q) = ToSet(block.agg) \cup group
    BY <1>3, <1>6, <1>7, GroupAppended, Zenon
  <2>2. block' = [block EXCEPT !.agg = q]
    BY <1>8
  <2> HIDE DEF q
  <2>3. /\ block'.agg = q /\ block'.funds = block.funds /\ block'.acc = block.acc
        /\ block'.config = block.config /\ block'.stake = block.stake
        /\ block'.beneficiary = block.beneficiary /\ block'.slashed = block.slashed
        /\ block'.height = block.height /\ block' \in Blocks
    BY <1>7, <2>1, <2>2 DEF Blocks
  <2>4. Drafted(S, block')
    BY <1>7, <2>1, <2>3 DEF Drafted
  <2>5. /\ ToSet(block'.agg) = ToSet(block.agg) \cup group /\ ToSet(block'.funds) = ToSet(block.funds)
        /\ BlockTxs(block') = BlockTxs(block) \cup group
    BY <2>1, <2>3 DEF BlockTxs
  <2>6. /\ Distinct(block'.funds) /\ Distinct(block'.agg) /\ block'.slashed = Nil
        /\ ToSet(block'.funds) \cap ToSet(block'.agg) = {}
        /\ ToSet(block'.funds) \cup ToSet(block'.agg)
              = (ToSet(block.funds) \cup ToSet(block.agg)) \cup group
    BY <1>7, <2>1, <2>3, <2>5
  <2>7. BlockInv'
    BY <1>0, <1>1, <1>2, <1>3, <2>3, <2>4, <2>5, <2>6, GroupMoved, Zenon
  <2> QED
    BY <1>2, <1>4, <1>5, <2>7 DEF IInv, PreparationInv
<1>9. CASE block' = [block EXCEPT !.funds = @ \o SetToSeq(group)]
  <2> DEFINE q == block.funds \o SetToSeq(group)
  <2>1. Payable(S, q) /\ Distinct(q) /\ q \in Seq(Tx) /\ ToSet(q) = ToSet(block.funds) \cup group
    BY <1>3, <1>6, <1>7, GroupAppended, Zenon
  <2>2. block' = [block EXCEPT !.funds = q]
    BY <1>9
  <2> HIDE DEF q
  <2>3. /\ block'.funds = q /\ block'.agg = block.agg /\ block'.acc = block.acc
        /\ block'.config = block.config /\ block'.stake = block.stake
        /\ block'.beneficiary = block.beneficiary /\ block'.slashed = block.slashed
        /\ block'.height = block.height /\ block' \in Blocks
    BY <1>7, <2>1, <2>2 DEF Blocks
  <2>4. Drafted(S, block')
    BY <1>7, <2>1, <2>3 DEF Drafted
  <2>5. /\ ToSet(block'.funds) = ToSet(block.funds) \cup group /\ ToSet(block'.agg) = ToSet(block.agg)
        /\ BlockTxs(block') = BlockTxs(block) \cup group
    BY <2>1, <2>3 DEF BlockTxs
  <2>6. /\ Distinct(block'.funds) /\ Distinct(block'.agg) /\ block'.slashed = Nil
        /\ ToSet(block'.funds) \cap ToSet(block'.agg) = {}
        /\ ToSet(block'.funds) \cup ToSet(block'.agg)
              = (ToSet(block.funds) \cup ToSet(block.agg)) \cup group
    BY <1>7, <2>1, <2>3, <2>5
  <2>7. BlockInv'
    BY <1>0, <1>1, <1>2, <1>3, <2>3, <2>4, <2>5, <2>6, GroupMoved, Zenon
  <2> QED
    BY <1>2, <1>4, <1>5, <2>7 DEF IInv, PreparationInv
<1> QED
  BY <1>1, <1>8, <1>9

-----------------------------------------------------------------------------
(* Validation of the finished block.  Its aggregated transactions are      *)
(* reordered and a slashing proof is added.                                *)
LEMMA OrderedAreSequences ==
    ASSUME NEW txs, NEW s \in ByTxCount(txs)
    PROVE  s \in SetToSeqs(ToSet(txs))
BY Zenon DEF ByTxCount

LEMMA FinishedBlock ==
    ASSUME IInv, pc = "grouping", before = {}, NEW slashed \in Slashable \cup {Nil},
           NEW agg \in ByTxCount(block.agg), NEW b, b = [block EXCEPT !.agg = agg, !.slashed = slashed],
           NEW result, Flaws(b, result) = {}
    PROVE  /\ NextBlock(b) /\ BlockTxs(b) \subseteq Tx /\ ToSet(agg) \subseteq Tx
<1>0. TypeInv /\ ChainInv /\ BlockInv
  BY DEF IInv, PreparationInv
<1>1. /\ block \in Blocks /\ block.slashed = Nil /\ Drafted(S, block)
      /\ block.agg \in Seq(Tx) /\ Payable(S, block.agg) /\ block.agg \in Seq(FundsTx)
  BY <1>0 DEF BlockInv, Blocks, Drafted, Payable
<1>2. /\ agg \in Seq(ToSet(block.agg)) /\ ToSet(agg) = ToSet(block.agg) /\ Distinct(agg)
      /\ ToSet(block.agg) \subseteq Tx /\ ToSet(block.agg) \subseteq FundsTx
  <2>1. IsFiniteSet(ToSet(block.agg)) /\ ToSet(block.agg) \subseteq Tx /\ ToSet(block.agg) \subseteq FundsTx
    BY <1>1, ToSetFinite
  <2>2. agg \in SetToSeqs(ToSet(block.agg))
    BY OrderedAreSequences
  <2> QED
    BY <2>1, <2>2, AnySequence
<1>3. agg \in Seq(FundsTx) /\ agg \in Seq(Tx)
  BY <1>2
<1>4. Payable(S, agg)
  <2>1. \A t \in ToSet(block.agg) : Live(S, t.from) /\ Live(S, t.to)
    BY <1>1, ToSetFinite DEF Payable
  <2>2. \A k \in 1 .. Len(agg) : agg[k] \in ToSet(block.agg)
    BY <1>2
  <2> QED
    BY <1>3, <2>1, <2>2 DEF Payable
<1>6. /\ b.agg = agg /\ b.slashed = slashed /\ b.funds = block.funds /\ b.acc = block.acc
      /\ b.config = block.config /\ b.stake = block.stake
      /\ b.beneficiary = block.beneficiary /\ b.height = block.height
  BY <1>1 DEF Blocks
<1>7. b \in Blocks
  <2>1. slashed \in Account \cup {Nil}
    BY LedgerAssumption
  <2> QED
    BY <1>1, <1>3, <2>1 DEF Blocks
<1>5. /\ \A i \in DOMAIN b.acc : b.acc[i].header # 2
      /\ b.slashed # Nil => /\ S.acc[b.slashed] # Nil /\ S.acc[b.slashed].staking
                            /\ \A i \in DOMAIN b.stake : b.stake[i].acc # b.slashed
  <2>1. \A f \in {"rootkey", "proof", "refused"} : f \notin Flaws(b, result)
    OBVIOUS
  <2>2. "rootkey" \notin Flaws(b, result) /\ "proof" \notin Flaws(b, result)
    BY <2>1
  <2> QED
    BY <2>2 DEF Flaws
<1>8. WellFormed(S, b) /\ Unslashed(S, b)
  <2>1. DOMAIN b.acc = 1 .. Len(b.acc) /\ DOMAIN b.stake = 1 .. Len(b.stake)
    BY <1>7 DEF Blocks
  <2>2. b.slashed = Nil \/ Live(S, b.slashed)
    BY <1>5, <1>7 DEF Blocks, Live
  <2>3. Creating(b.acc)
    BY <1>1, <1>5, <1>6, <2>1 DEF Creating, Drafted
  <2>4. Unslashed(S, b)
    BY <1>5, <2>1 DEF Unslashed
  <2> QED
    BY <1>1, <1>4, <1>6, <2>2, <2>3, <2>4 DEF WellFormed, Drafted
<1>9. BlockTxs(b) = BlockTxs(block)
  BY <1>2, <1>6 DEF BlockTxs
<1>10. ToSet(b.funds) \cup ToSet(b.agg) = Pending
  BY <1>2, <1>6 DEF Pending
<1>11. \A a \in Account : S.acc[a] # Nil =>
          LET txs == OfSender(ToSet(b.funds) \cup ToSet(b.agg), a)
          IN Numbered(txs, S.acc[a].cnt, S.acc[a].cnt + Cardinality(txs))
  BY <1>0, <1>10 DEF BlockInv
<1>12. /\ BlockTxs(b) \cap closed = {} /\ Distinct(b.funds) /\ Distinct(b.agg)
       /\ ToSet(b.funds) \cap ToSet(b.agg) = {}
  BY <1>0, <1>2, <1>6, <1>9 DEF BlockInv
<1>13. BlockTxs(b) \subseteq Tx
  <2>1. /\ ToSet(b.acc) \subseteq Tx /\ ToSet(b.funds) \subseteq Tx /\ ToSet(b.agg) \subseteq Tx
        /\ ToSet(b.config) \subseteq Tx /\ ToSet(b.stake) \subseteq Tx
    BY <1>7, ToSetFinite DEF Blocks
  <2> QED
    BY <2>1 DEF BlockTxs
<1>14. NextBlock(b)
  BY <1>7, <1>8, <1>11, <1>12 DEF NextBlock
<1> QED
  BY <1>2, <1>13, <1>14

LEMMA ValidateInv ==
    ASSUME IInv, NEW slashed \in Slashable \cup {Nil}, Validate(slashed), flaws' = {}
    PROVE  IInv'
<1>0. /\ TypeInv /\ ChainInv /\ pc = "grouping" /\ before = {} /\ before' = before
      /\ block' = NoBlock
  BY DEF IInv, Validate
<1>1. PICK agg \in ByTxCount(block.agg) :
         LET b == [block EXCEPT !.agg = agg, !.slashed = slashed]
             result == validateState(S, b) IN
         /\ S' = result.s
         /\ flaws' = flaws \cup Flaws(b, result)
         /\ IF result.err
            THEN /\ verdict' = "rejected"
                 /\ UNCHANGED <<closed, aggregated, chain, snaps>>
            ELSE /\ verdict' = "accepted"
                 /\ closed' = closed \cup BlockTxs(b)
                 /\ aggregated' = aggregated \cup ToSet(agg)
                 /\ chain' = Append(chain, b)
                 /\ snaps' = Append(snaps, View(S))
         /\ pc' = IF result.s.dead THEN "panic" ELSE "idle"
  BY Zenon DEF Validate
<1> DEFINE b == [block EXCEPT !.agg = agg, !.slashed = slashed]
           result == validateState(S, b)
<1>f. Flaws(b, result) = {}
  BY <1>1
<1>2. NextBlock(b) /\ BlockTxs(b) \subseteq Tx /\ ToSet(agg) \subseteq Tx
  <2>1. b = [block EXCEPT !.agg = agg, !.slashed = slashed]
    OBVIOUS
  <2> HIDE DEF b, result
  <2> QED
    BY <1>0, <1>f, <2>1, FinishedBlock, Zenon
<1>3. b \in Blocks /\ WellFormed(S, b) /\ BlockTxs(b) \cap closed = {}
  BY <1>2 DEF NextBlock
<1> HIDE DEF b
<1>4. S \in States /\ ~S.dead
  BY <1>0 DEF TypeInv
<1>5. S' \in States /\ ~S'.dead /\ pc' = "idle"
  <2>1. \A k \in 1 .. Len(b.funds) : b.funds[k] \in BlockTxs(b)
    BY <1>3, ToSetFinite DEF BlockTxs, Blocks
  <2>2. \A k \in 1 .. Len(b.agg) : b.agg[k] \in BlockTxs(b)
    BY <1>3, ToSetFinite DEF BlockTxs, Blocks
  <2>3. Open(b)
    BY <1>3, <2>1, <2>2 DEF Open
  <2>4. result \in Results /\ result.s.dead = S.dead
    BY <1>3, <1>4, <2>3, ValidateForward, Zenon
  <2> HIDE DEF result
  <2>5. S' = result.s /\ pc' = IF result.s.dead THEN "panic" ELSE "idle"
    BY <1>1 DEF b, result
  <2> QED
    BY <1>4, <2>4, <2>5 DEF Results
<1>6. PreparationInv'
  BY <1>0, <1>5 DEF PreparationInv
<1>7. CASE result.err
  <2>1. /\ verdict' = "rejected" /\ closed' = closed /\ aggregated' = aggregated
        /\ chain' = chain /\ snaps' = snaps
    BY <1>1, <1>7 DEF b
  <2>2. TypeInv'
    BY <1>0, <1>5, <2>1 DEF TypeInv
  <2>3. ChainInv'
    <3>1. "refused" \notin Flaws(b, result)
      BY <1>f
    <3>2. View(result.s) = View(S)
      BY <1>7, <3>1 DEF Flaws
    <3>3. S' = result.s
      BY <1>1 DEF b
    <3> QED
      BY <1>0, <2>1, <3>2, <3>3, ChainKept
  <2> QED
    BY <1>6, <2>2, <2>3 DEF IInv
<1>8. CASE ~result.err
  <2>1. /\ S' = validateState(S, b).s /\ verdict' = "accepted" /\ closed' = closed \cup BlockTxs(b)
        /\ aggregated' = aggregated \cup ToSet(agg) /\ chain' = Append(chain, b)
        /\ snaps' = Append(snaps, View(S))
    BY <1>1, <1>8 DEF b
  <2>2. ChainInv'
    BY <1>0, <1>2, <1>8, <2>1, AcceptedChain
  <2>3. /\ Len(chain') = Len(chain) + 1 /\ chain' \in Seq(Blocks) /\ Len(chain) \in Nat
        /\ Len(snaps') = Len(snaps) + 1 /\ snaps' \in Seq(ViewType)
    <3>1. chain \in Seq(Blocks) /\ snaps \in Seq(ViewType) /\ View(S) \in ViewType
      BY <1>0, <1>4, ViewFields DEF TypeInv
    <3> QED
      BY <1>3, <2>1, <3>1
  <2>4. Len(chain') <= MaxHeight /\ Len(snaps') = Len(chain')
    <3>1. MaxHeight \in Nat
      BY LedgerAssumption
    <3> QED
      BY <1>0, <2>3, <3>1 DEF TypeInv
  <2>5. aggregated' \subseteq Tx
    BY <1>0, <1>2, <2>1 DEF TypeInv
  <2>6. TypeInv'
    BY <1>0, <1>5, <2>1, <2>3, <2>4, <2>5 DEF TypeInv
  <2> QED
    BY <1>6, <2>2, <2>6 DEF IInv
<1> QED
  BY <1>7, <1>8

-----------------------------------------------------------------------------
(* Every step after which there is still no flaw keeps the invariant, and  *)
(* only a rollback makes the chain shorter.                                *)
LEMMA NextInv ==
    ASSUME IInv, [Next]_vars, flaws' = {}
    PROVE  IInv'
<1>1. CASE UNCHANGED vars
  <2>1. /\ S' = S /\ closed' = closed /\ aggregated' = aggregated /\ chain' = chain
        /\ pc' = pc /\ block' = block /\ copy' = copy /\ before' = before
        /\ verdict' = verdict /\ snaps' = snaps
    BY <1>1 DEF vars
  <2>2. TypeInv' /\ PreparationInv'
    BY <2>1 DEF IInv, TypeInv, PreparationInv, BlockInv, CopyInv, Pending
  <2>3. ChainInv'
    BY <2>1, ChainKept DEF IInv
  <2> QED
    BY <2>2, <2>3 DEF IInv
<1>2. ASSUME NEW m \in Miners, NewBlock(m) PROVE IInv'
  BY <1>2, NewBlockInv
<1>3. ASSUME NEW tx \in Tx, addTx(tx) PROVE IInv'
  BY <1>3, AddTxInv
<1>4. CASE TxsSelected
  BY <1>4, TxsSelectedInv
<1>5. CASE AggregateTransactions
  BY <1>5, AggregateInv
<1>6. ASSUME NEW a \in Slashable \cup {Nil}, Validate(a) PROVE IInv'
  BY <1>6, ValidateInv
<1>7. CASE Abandon
  BY <1>7, AbandonInv
<1>8. CASE Rollback
  BY <1>8, RollbackInv
<1> QED
  BY <1>1, <1>2, <1>3, <1>4, <1>5, <1>6, <1>7, <1>8 DEF Next

LEMMA OnlyRollbackShortens ==
    ASSUME IInv, [Next]_vars, Len(chain') < Len(chain)
    PROVE  Rollback
<1>1. Len(chain) \in Nat /\ chain \in Seq(Blocks)
  BY DEF IInv, TypeInv
<1>2. chain' # chain
  BY <1>1
<1>3. ASSUME NEW m \in Miners, NewBlock(m) PROVE FALSE
  BY <1>2, <1>3 DEF NewBlock
<1>4. ASSUME NEW tx \in Tx, addTx(tx) PROVE FALSE
  BY <1>2, <1>4 DEF addTx
<1>5. ASSUME NEW a \in Slashable \cup {Nil}, Validate(a) PROVE FALSE
  <2>1. \E b : chain' = Append(chain, b)
    BY <1>2, <1>5 DEF Validate
  <2>2. \A b : Len(Append(chain, b)) = Len(chain) + 1
    BY <1>1
  <2> QED
    BY <1>1, <2>1, <2>2
<1>6. ~TxsSelected /\ ~AggregateTransactions /\ ~Abandon /\ ~UNCHANGED vars
  BY <1>2 DEF TxsSelected, AggregateTransactions, Abandon, vars
<1> QED
  BY <1>3, <1>4, <1>5, <1>6 DEF Next

(* Flaws are never forgotten.                                              *)
LEMMA FlawsStay ==
    ASSUME [Next]_vars
    PROVE  flaws \subseteq flaws'
<1>1. ASSUME NEW m \in Miners, NewBlock(m) PROVE flaws' = flaws
  BY <1>1 DEF NewBlock
<1>2. ASSUME NEW tx \in Tx, addTx(tx) PROVE flaws' = flaws
  BY <1>2 DEF addTx
<1>3. ASSUME NEW a \in Slashable \cup {Nil}, Validate(a) PROVE flaws \subseteq flaws'
  BY <1>3 DEF Validate
<1>4. TxsSelected \/ AggregateTransactions \/ Abandon \/ Rollback \/ UNCHANGED vars
      => flaws' = flaws
  BY DEF TxsSelected, AggregateTransactions, Abandon, Rollback, vars
<1> QED
  BY <1>1, <1>2, <1>3, <1>4 DEF Next

(* Whatever blocks are prepared, validated, abandoned and rolled back, the *)
(* invariant holds up to the first step that no rollback undoes: a refused *)
(* block that leaves something behind, a block that takes a root key away, *)
(* a proof against an account that is not a validator.                     *)
THEOREM LedgerInvariant == Spec => [](flaws = {} => IInv)
<1>1. Init => (flaws = {} => IInv)
  BY InitInv
<1>2. (flaws = {} => IInv) /\ [Next]_vars => (flaws = {} => IInv)'
  <2> SUFFICES ASSUME flaws = {} => IInv, [Next]_vars, flaws' = {}
               PROVE  IInv'
    OBVIOUS
  <2>1. flaws = {}
    BY FlawsStay
  <2> QED
    BY <2>1, NextInv
<1> QED
  BY <1>1, <1>2, PTL DEF Spec

(* Without a flaw the state of the ledger keeps its types: balances are    *)
(* unsigned and counters never negative, although rollbacks count them     *)
(* down, and the process has not ended.                                    *)
THEOREM LedgerTypes == Spec => [](flaws = {} => TypeOK)
<1>1. (flaws = {} => IInv) => (flaws = {} => TypeOK)
  <2> SUFFICES ASSUME IInv, flaws = {} PROVE TypeOK
    OBVIOUS
  <2>0. TypeInv /\ ChainInv
    BY DEF IInv
  <2>1. S \in States /\ S.root \subseteq Account
    BY <2>0 DEF TypeInv, States
  <2>2. \A a \in Account : S.acc[a] # Nil =>
           /\ S.acc[a].bal \in 0 .. Wrap - 1 /\ S.acc[a].cnt \in Int /\ S.acc[a].cnt >= 0
           /\ S.acc[a].staking \in BOOLEAN
    BY <2>0, <2>1, CountersAreNatural DEF States, AccountState
  <2>3. closed \subseteq Tx
    BY <2>0, ClosedTypes
  <2> QED
    BY <2>0, <2>1, <2>2, <2>3 DEF TypeInv, TypeOK
<1> QED
  BY <1>1, LedgerInvariant, PTL

(* The counter of every account is the number of its transfers on the      *)
(* chain, which carry the counters 0, 1, ... without gap or repetition:    *)
(* addFundsTx and the copied counters admit no other, fundsStateChange and *)
(* its rollback count each of them once.  CountersMatch says so as long as *)
(* there is no flaw.                                                       *)
THEOREM CountersFollowChain == Spec => []CountersMatch
<1>1. (flaws = {} => IInv) => CountersMatch
  <2> SUFFICES ASSUME IInv, NEW a \in Account, S.acc[a] # Nil
               PROVE  /\ S.acc[a].cnt = Cardinality(Transfers(a))
                      /\ {t.cnt : t \in Transfers(a)} = 0 .. S.acc[a].cnt - 1
    BY DEF CountersMatch
  <2>1. Transfers(a) = OfSender(closed, a)
    BY DEF Transfers, OfSender
  <2>2. /\ S.acc[a].cnt = Cardinality(OfSender(closed, a))
        /\ Numbered(OfSender(closed, a), 0, S.acc[a].cnt)
    BY CountersAreNatural DEF IInv
  <2> QED
    BY <2>1, <2>2 DEF Numbered
<1> QED
  BY <1>1, LedgerInvariant, PTL

(* validateStateRollback restores the balances, counters, validators and   *)
(* root keys from before the block, whichever block is rolled back and     *)
(* whatever came before, as long as no block took away a root key, no      *)
(* proof hit an account that was not a validator or left in that block,    *)
(* and no refused block left something behind.                             *)
THEOREM RollbacksRestore == Spec => RollbackRestores
<1>1. (flaws = {} => IInv) /\ [Next]_vars
      => [Len(chain') < Len(chain) /\ flaws = {} => View(S') = Last(snaps)]_vars
  BY OnlyRollbackShortens, RollbackInv
<1>2. Spec => [][Next]_vars
  BY PTL DEF Spec
<1> QED
  BY <1>1, <1>2, LedgerInvariant, PTL DEF RollbackRestores

(* No account that validateState, its undo steps or validateStateRollback  *)
(* dereference is missing: without a flaw the process never ends in a nil  *)
(* dereference.  With one it may: the rollback of a block that took a root *)
(* key away deletes an account that is still used.                         *)
THEOREM NoNilDereference == Spec => [](flaws = {} => pc # "panic" /\ ~S.dead)
<1>1. (flaws = {} => IInv) => (flaws = {} => pc # "panic" /\ ~S.dead)
  BY DEF IInv, TypeInv
<1> QED
  BY <1>1, LedgerInvariant, PTL
=============================================================================
