------------------------------ MODULE FoldFacts ------------------------------
(* What every loop over a sequence has in common.  A loop is a fold of a   *)
(* step over the sequence; step, the set X its values stay in and the set  *)
(* Y of the elements are parameters, so that INSTANCE yields these facts   *)
(* for each loop of the code.                                              *)
EXTENDS Integers, Sequences, Folds, WellFoundedInduction, TLAPS

CONSTANTS step(_, _, _), X, Y

(* FoldLeft and Max, from nothing but MapThenFoldSet: every instance of     *)
(* this module brings in what it extends.                                  *)
Largest(s) == CHOOSE x \in s : \A y \in s : x >= y

Folded(p, base, seq) ==
    MapThenFoldSet(LAMBDA x, y : step(p, y, x), base, LAMBDA i : seq[i],
                   LAMBDA s : Largest(s), DOMAIN seq)

(* The loop passes through the values r[0], r[1], ...                      *)
Runs(p, base, seq) ==
    \E r \in [0 .. Len(seq) -> X] :
        /\ r[0] = base
        /\ r[Len(seq)] = Folded(p, base, seq)
        /\ \A k \in 1 .. Len(seq) : r[k] = step(p, r[k - 1], seq[k])

(* I[k] holds after k elements.                                            *)
Keeps(p, base, seq, I) ==
    /\ base \in I[0]
    /\ \A k \in 1 .. Len(seq) : \A x \in X : x \in I[k - 1] => step(p, x, seq[k]) \in I[k]

-----------------------------------------------------------------------------
LEMMA SmallestExists ==
    ASSUME NEW S \in SUBSET Nat, S # {}
    PROVE  \E x \in S : \A y \in S : x <= y
<1>1. PICK x \in S : \A y \in S : ~ (<<y, x>> \in OpToRel(<, Nat))
  BY NatLessThanWellFounded, WFMin
<1>2. \A y \in S : ~(y < x)
  BY <1>1 DEF OpToRel
<1> QED
  BY <1>2

(* A set of numbers that holds 0 and, up to n, the successors of its       *)
(* members reaches n.                                                      *)
LEMMA Reaches ==
    ASSUME NEW n \in Nat, NEW G, 0 \in G,
           \A k \in 1 .. n : k - 1 \in G => k \in G
    PROVE  \A k \in 0 .. n : k \in G
<1> DEFINE T == {k \in 0 .. n : k \notin G}
<1>1. SUFFICES ASSUME T # {} PROVE FALSE
  OBVIOUS
<1>4. T \in SUBSET Nat
  OBVIOUS
<1>2. PICK k \in T : \A y \in T : k <= y
  <2> HIDE DEF T
  <2> QED
    BY <1>1, <1>4, SmallestExists
<1>3. k \in 1 .. n /\ k - 1 \notin T
  BY <1>2
<1> QED
  BY <1>3, <1>2

LEMMA MaxUpTo ==
    ASSUME NEW n \in Nat, NEW s \in SUBSET (1 .. n), s # {}
    PROVE  Largest(s) \in s /\ \A y \in s : Largest(s) >= y
<1> DEFINE T == {t \in Nat : \E y \in s : t = n - y}
<1>1. \A y \in s : y \in Nat /\ n - y \in T
  OBVIOUS
<1>2. T \in SUBSET Nat /\ T # {}
  BY <1>1
<1>3. PICK t \in T : \A y \in T : t <= y
  <2> HIDE DEF T
  <2> QED
    BY <1>2, SmallestExists
<1>4. PICK x \in s : t = n - x
  BY <1>3
<1>5. ASSUME NEW y \in s PROVE x >= y
  <2>1. n - x <= n - y
    BY <1>1, <1>3, <1>4
  <2> QED
    BY <2>1, <1>1
<1> QED
  BY <1>4, <1>5 DEF Largest

THEOREM FoldRuns ==
    \A p : (\A x \in X, y \in Y : step(p, x, y) \in X)
           => \A base \in X, seq \in Seq(Y) : Runs(p, base, seq)
<1> SUFFICES ASSUME NEW p, \A x \in X, y \in Y : step(p, x, y) \in X,
                    NEW base \in X, NEW seq \in Seq(Y)
             PROVE  Runs(p, base, seq)
  OBVIOUS
<1> DEFINE n == Len(seq)
           Made(it, k) == [s \in SUBSET (1 .. k) |->
                              IF s = {} THEN base
                              ELSE step(p, it[s \ {Largest(s)}], seq[Largest(s)])]
           D(k) == \E it \in [SUBSET (1 .. k) -> X] : it = Made(it, k)
<1>1. n \in Nat /\ DOMAIN seq = 1 .. n /\ \A i \in 1 .. n : seq[i] \in Y
  OBVIOUS
<1>2. D(0)
  <2> DEFINE it == [s \in SUBSET (1 .. 0) |-> base]
  <2>1. \A s \in SUBSET (1 .. 0) : s = {}
    OBVIOUS
  <2>2. it = Made(it, 0)
    BY <2>1
  <2>3. it \in [SUBSET (1 .. 0) -> X]
    OBVIOUS
  <2> QED
    BY <2>2, <2>3
<1>3. ASSUME NEW k \in 1 .. n, D(k - 1) PROVE D(k)
  <2>1. PICK it \in [SUBSET (1 .. (k - 1)) -> X] : it = Made(it, k - 1)
    BY <1>3
  <2> DEFINE ju == [s \in SUBSET (1 .. k) |->
                       IF k \in s THEN step(p, it[s \ {k}], seq[k]) ELSE it[s]]
  <2>2. \A s \in SUBSET (1 .. k) : s \ {k} \in SUBSET (1 .. (k - 1))
    BY <1>1
  <2>3. \A s \in SUBSET (1 .. k) : k \notin s => s \in SUBSET (1 .. (k - 1))
    BY <2>2
  <2>4. ju \in [SUBSET (1 .. k) -> X]
    BY <2>1, <2>2, <2>3, <1>1
  <2>5. ASSUME NEW s \in SUBSET (1 .. k), s # {}
        PROVE  ju[s] = step(p, ju[s \ {Largest(s)}], seq[Largest(s)])
    <3>0. k \in Nat
      BY <1>1
    <3>1. Largest(s) \in s /\ \A y \in s : Largest(s) >= y
      BY <2>5, <3>0, MaxUpTo
    <3>2. CASE k \in s
      <4>0. Largest(s) \in 1 .. k /\ Largest(s) >= k
        BY <3>1, <3>2
      <4>1. Largest(s) = k
        BY <4>0, <3>0
      <4>2. ju[s \ {k}] = it[s \ {k}]
        BY <2>2
      <4> QED
        BY <4>1, <4>2, <3>2
    <3>3. CASE k \notin s
      <4>1. s \in SUBSET (1 .. (k - 1)) /\ s \ {Largest(s)} \in SUBSET (1 .. (k - 1))
        BY <3>3, <2>3
      <4>2. it[s] = step(p, it[s \ {Largest(s)}], seq[Largest(s)])
        BY <4>1, <2>1, <2>5
      <4>3. ju[s] = it[s] /\ ju[s \ {Largest(s)}] = it[s \ {Largest(s)}]
        BY <3>3, <4>1
      <4> QED
        BY <4>2, <4>3
    <3> QED
      BY <3>2, <3>3
  <2>6. ju[{}] = base
    <3>1. {} \in SUBSET (1 .. k) /\ {} \in SUBSET (1 .. (k - 1))
      OBVIOUS
    <3>2. it[{}] = base
      BY <2>1, <3>1
    <3> QED
      BY <3>1, <3>2
  <2> HIDE DEF ju
  <2>7. ju = Made(ju, k)
    BY <2>4, <2>5, <2>6
  <2> QED
    BY <2>4, <2>7
<1> HIDE DEF D
<1>4. \A k \in 0 .. n : D(k)
  <2> DEFINE G == {k \in 0 .. n : D(k)}
  <2>1. 0 \in G /\ \A k \in 1 .. n : k - 1 \in G => k \in G
    BY <1>1, <1>2, <1>3
  <2> HIDE DEF G
  <2>2. \A k \in 0 .. n : k \in G
    BY <2>1, <1>1, Reaches
  <2> QED
    BY <2>2 DEF G
<1>5. PICK it \in [SUBSET (1 .. n) -> X] : it = Made(it, n)
  <2>1. D(n)
    BY <1>4, <1>1
  <2> QED
    BY <2>1 DEF D
<1> DEFINE chosen == CHOOSE f : f = Made(f, n)
<1>6. chosen = Made(chosen, n)
  BY <1>5
<1>7. Folded(p, base, seq) = chosen[1 .. n]
  BY <1>1, Zenon DEF Folded, MapThenFoldSet
<1> HIDE DEF chosen
<1> DEFINE r == [k \in 0 .. n |-> chosen[1 .. k]]
<1>8. r[0] = base /\ r[n] = Folded(p, base, seq)
  <2>1. 1 .. 0 = {} /\ {} \in SUBSET (1 .. n)
    OBVIOUS
  <2>2. chosen[{}] = base
    BY <1>6, <2>1
  <2> QED
    BY <2>1, <2>2, <1>1, <1>7
<1>9. \A k \in 1 .. n : r[k] = step(p, r[k - 1], seq[k])
  <2> TAKE k \in 1 .. n
  <2>0. k \in Nat /\ k >= 1 /\ k <= n
    BY <1>1
  <2>1. 1 .. k \in SUBSET (1 .. n) /\ 1 .. k # {} /\ k \in Nat
    <3>1. 1 \in 1 .. k
      BY <2>0
    <3>2. \A i \in 1 .. k : i \in 1 .. n
      BY <2>0, <1>1
    <3> QED
      BY <3>1, <3>2, <2>0
  <2>2. Largest(1 .. k) \in 1 .. k /\ \A y \in 1 .. k : Largest(1 .. k) >= y
    BY <2>1, MaxUpTo
  <2>3. Largest(1 .. k) = k
    BY <2>1, <2>2
  <2>4. (1 .. k) \ {k} = 1 .. (k - 1)
    BY <2>1
  <2>5. chosen[1 .. k] = step(p, chosen[1 .. (k - 1)], seq[k])
    BY <1>6, <2>1, <2>3, <2>4
  <2> QED
    BY <2>5, <1>1
<1>10. r \in [0 .. n -> X]
  <2> DEFINE G == {k \in 0 .. n : r[k] \in X}
  <2>1. 0 \in G /\ \A k \in 1 .. n : k - 1 \in G => k \in G
    <3> HIDE DEF r
    <3> QED
      BY <1>1, <1>8, <1>9
  <2> HIDE DEF G
  <2>2. \A k \in 0 .. n : k \in G
    BY <2>1, <1>1, Reaches
  <2> QED
    BY <2>2 DEF G
<1> QED
  BY <1>8, <1>9, <1>10 DEF Runs

THEOREM FoldInvariant ==
    \A p : (\A x \in X, y \in Y : step(p, x, y) \in X)
           => \A I : \A base \in X, seq \in Seq(Y) :
                 Keeps(p, base, seq, I)
                 => Folded(p, base, seq) \in X /\ Folded(p, base, seq) \in I[Len(seq)]
<1> SUFFICES ASSUME NEW p, \A x \in X, y \in Y : step(p, x, y) \in X,
                    NEW base \in X, NEW seq \in Seq(Y), NEW I,
                    Keeps(p, base, seq, I)
             PROVE  Folded(p, base, seq) \in X /\ Folded(p, base, seq) \in I[Len(seq)]
  OBVIOUS
<1>1. PICK r \in [0 .. Len(seq) -> X] :
        /\ r[0] = base
        /\ r[Len(seq)] = Folded(p, base, seq)
        /\ \A k \in 1 .. Len(seq) : r[k] = step(p, r[k - 1], seq[k])
  <2>1. Runs(p, base, seq)
    BY FoldRuns
  <2> QED
    BY <2>1 DEF Runs
<1>0. Len(seq) \in Nat
  OBVIOUS
<1> DEFINE G == {k \in 0 .. Len(seq) : r[k] \in I[k]}
<1>2. 0 \in G
  BY <1>0, <1>1 DEF Keeps
<1>3. ASSUME NEW k \in 1 .. Len(seq), k - 1 \in G PROVE k \in G
  <2>1. k \in 0 .. Len(seq) /\ k - 1 \in 0 .. Len(seq) /\ r[k - 1] \in X
    BY <1>0, <1>1
  <2>2. step(p, r[k - 1], seq[k]) \in I[k]
    BY <1>3, <2>1 DEF Keeps
  <2> QED
    BY <2>1, <2>2, <1>1
<1> HIDE DEF G
<1>4. \A k \in 0 .. Len(seq) : k \in G
  BY <1>0, <1>2, <1>3, Reaches
<1>5. Len(seq) \in G /\ Len(seq) \in 0 .. Len(seq)
  BY <1>0, <1>4
<1> QED
  BY <1>1, <1>5 DEF G
=============================================================================
