-------------------------- MODULE StatisticsProofs --------------------------
(***************************************************************************)
(* Rolling back is the inverse of collecting: proofs about Statistics for  *)
(* every set of config transactions, timestamps and parameter bounds, as   *)
(* long as no block shortens DiffInterval or disqualifies a validator.     *)
(***************************************************************************)
EXTENDS Statistics, TLAPS, SequenceTheorems, FiniteSetTheorems, WellFoundedInduction

Calm == Faults = {}

(* What collectStatistics and its rollback rely on.                        *)
Sound(s) ==
    /\ s \in Stat
    /\ s.target # <<>> /\ s.params # <<>>
    /\ s.local <= s.global
    /\ s.local < DiffInterval(s)
    /\ \A i \in 1 .. Len(s.params) :
          /\ s.params[i].hash.height <= s.global
          /\ s.params[i].val["DIFF_INTERVAL"] >= 2
    /\ Len(s.target) = Len(s.times) + 1
    /\ \A i \in 1 .. Len(s.times) :
          s.times[i].last = IF i = Len(s.times) THEN s.first ELSE s.times[i + 1].first

Collected(s, b) == collectStatistics(configStateChange(s, b), b)

(* The statistics after block i of the chain.                              *)
After(i) == IF i = Len(chain) THEN stat ELSE snaps[i + 1]

(* Every recorded state is sound, and undoing a block leads to the state   *)
(* recorded before it.                                                     *)
IInv ==
    /\ chain \in Seq(BlockData)
    /\ snaps \in Seq(Stat)
    /\ Len(snaps) = Len(chain)
    /\ Sound(stat) /\ stat.global = Len(chain)
    /\ \A i \in 1 .. Len(chain) :
          /\ Sound(snaps[i]) /\ snaps[i].global = i - 1
          /\ Rolled(After(i), chain[i]) = snaps[i]

----------------------------------------------------------------------------
(* A nonempty set of positions of a sequence has a maximum.                *)
LEMMA MaxIsMember ==
    ASSUME NEW n \in Nat, NEW S \in SUBSET (1 .. n), S # {}
    PROVE  Max(S) \in S
<1> DEFINE T == {n - i : i \in S}
<1>1. T \subseteq Nat /\ T # {}
  <2>1. PICK j \in S : TRUE
    OBVIOUS
  <2>2. n - j \in T
    OBVIOUS
  <2>3. \A i \in S : n - i \in Nat
    OBVIOUS
  <2> QED
    BY <2>2, <2>3
<1>2. PICK x \in T : \A y \in T : ~(<<y, x>> \in OpToRel(<, Nat))
  BY <1>1, WFMin, NatLessThanWellFounded
<1>3. \A y \in T : ~(y < x)
  BY <1>1, <1>2 DEF OpToRel
<1>4. PICK m \in S : x = n - m
  OBVIOUS
<1>5. \A y \in S : m >= y
  <2> SUFFICES ASSUME NEW y \in S
               PROVE  m >= y
    OBVIOUS
  <2>1. ~(n - y < x)
    BY <1>3
  <2> HIDE DEF T
  <2> QED BY <1>4, <2>1
<1> QED
  BY <1>5 DEF Max

(* The last element of a sequence that was just extended.                  *)
LEMMA AppendUndone ==
    ASSUME NEW S, NEW q \in Seq(S), NEW e \in S
    PROVE  /\ Append(q, e) \in Seq(S) /\ Len(Append(q, e)) = Len(q) + 1
           /\ Append(q, e) # <<>>
           /\ Append(q, e)[Len(q) + 1] = e
           /\ \A i \in 1 .. Len(q) : Append(q, e)[i] = q[i]
           /\ Front(Append(q, e)) = q
           /\ Last(Append(q, e)) = e
<1>1. /\ Append(q, e) \in Seq(S) /\ Len(Append(q, e)) = Len(q) + 1
      /\ Append(q, e) # <<>>
      /\ Append(q, e)[Len(q) + 1] = e
      /\ \A i \in 1 .. Len(q) : Append(q, e)[i] = q[i]
  BY AppendProperties
<1>2. Front(Append(q, e)) = q
  <2>1. Front(Append(q, e)) = SubSeq(Append(q, e), 1, Len(q))
    BY <1>1 DEF Front
  <2>2. \A i \in 1 .. Len(q) : Append(q, e)[i] \in S
    BY <1>1
  <2>3. /\ SubSeq(Append(q, e), 1, Len(q)) \in Seq(S)
        /\ Len(SubSeq(Append(q, e), 1, Len(q))) = Len(q)
        /\ \A i \in 1 .. Len(q) : SubSeq(Append(q, e), 1, Len(q))[i] = q[i]
    BY <1>1, <2>2, SubSeqProperties, LenProperties
  <2> QED
    BY <2>1, <2>3, SeqEqual
<1> QED
  BY <1>1, <1>2 DEF Last

LEMMA FrontFacts ==
    ASSUME NEW S, NEW q \in Seq(S), q # <<>>
    PROVE  /\ Front(q) \in Seq(S) /\ Len(Front(q)) = Len(q) - 1 /\ Len(q) >= 1
           /\ \A i \in 1 .. Len(q) - 1 : Front(q)[i] = q[i]
           /\ Last(q) \in S /\ Last(q) = q[Len(q)]
<1>1. PICK r \in Seq(S), e \in S : q = Append(r, e)
  BY SequenceEmptyOrAppend
<1>2. Front(q) = r /\ Len(q) = Len(r) + 1 /\ Last(q) = e /\ q[Len(r) + 1] = e
  BY <1>1, AppendUndone
<1>3. \A i \in 1 .. Len(r) : q[i] = r[i]
  BY <1>1, AppendUndone
<1> QED
  BY <1>2, <1>3, LenProperties

(* One adaption of the target stays within a byte.                         *)
LEMMA TargetType ==
    ASSUME NEW s \in Stat, s.target # <<>>, s.params # <<>>, NEW b \in BlockData
    PROVE  NewTarget(s, b) \in 0 .. 255
<1>1. getDifficulty(s) \in 0 .. 255
  <2> DEFINE Byte == 0 .. 255
  <2>1. s.target \in Seq(Byte)
    BY DEF Stat
  <2>2. s.target[Len(s.target)] \in Byte
    <3> HIDE DEF Byte
    <3> QED BY <2>1, FrontFacts
  <2> QED
    BY <2>2 DEF getDifficulty
<1>2. \A x, y : Steps(x, y) \in Nat
  <2> SUFFICES ASSUME NEW x, NEW y PROVE Steps(x, y) \in Nat
    OBVIOUS
  <2> DEFINE K == {k \in 1 .. 3 : x * x >= y * y * 2^(2 * k - 1)}
  <2>1. IsFiniteSet(K)
    BY FS_Interval, FS_Subset
  <2> QED
    BY <2>1, FS_CardinalityType DEF Steps
<1>3. \A now : calculateNewDifficulty(s, now) \in 0 .. 255
  <2> SUFFICES ASSUME NEW now PROVE calculateNewDifficulty(s, now) \in 0 .. 255
    OBVIOUS
  <2> DEFINE w == activeParameters(s)["BLOCK_INTERVAL"] * DiffInterval(s)
             g == getDifficulty(s)
             p == Steps(w, now)
             q == Steps(now, w)
             d == g + p - q
  <2>1. d \in Int
    <3>1. g \in 0 .. 255 /\ p \in Nat /\ q \in Nat
      BY <1>1, <1>2, Zenon
    <3> HIDE DEF g, p, q
    <3> QED BY <3>1
  <2>2. d % 256 \in 0 .. 255
    <3> HIDE DEF d
    <3> QED BY <2>1
  <2>3. calculateNewDifficulty(s, now) = IF now < 0 THEN getDifficulty(s) ELSE d % 256
    BY Zenon DEF calculateNewDifficulty
  <2> QED
    BY <1>1, <2>2, <2>3
<1> QED
  BY <1>1, <1>3 DEF NewTarget

----------------------------------------------------------------------------
(* A relevant config transaction list yields well-typed parameters whose   *)
(* interval respects the lower bound.                                      *)
LEMMA NewParametersType ==
    ASSUME NEW val \in [ParameterIds -> Nat], val["DIFF_INTERVAL"] >= 2,
           NEW config \in Configs \cup {<<>>}
    PROVE  /\ NewParameters(val, config) \in [ParameterIds -> Nat]
           /\ NewParameters(val, config)["DIFF_INTERVAL"] >= 2
<1>1. config \in Seq(ConfigTx)
  BY ConfigAssumption, EmptySeq
<1>2. \A i \in DOMAIN config : config[i] \in ConfigTx
  BY <1>1, LenProperties, ElementOfSeq
<1>3. ASSUME NEW id \in ParameterIds, Changes(config, id) # {}
      PROVE  /\ Max(Changes(config, id)) \in DOMAIN config
             /\ config[Max(Changes(config, id))].id = id
             /\ parameterBoundsChecking(config[Max(Changes(config, id))])
  <2>1. Changes(config, id) \subseteq 1 .. Len(config) /\ Len(config) \in Nat
    BY <1>1, LenProperties DEF Changes
  <2>2. Max(Changes(config, id)) \in Changes(config, id)
    BY <1>3, <2>1, MaxIsMember
  <2> QED
    BY <2>2 DEF Changes
<1>4. ASSUME NEW id \in ParameterIds
      PROVE  /\ NewParameters(val, config)[id] \in Nat
             /\ id = "DIFF_INTERVAL" => NewParameters(val, config)[id] >= 2
  <2>1. CASE Changes(config, id) = {}
    BY <2>1, <1>4 DEF NewParameters
  <2>2. CASE Changes(config, id) # {}
    <3> DEFINE tx == config[Max(Changes(config, id))]
    <3>1. tx \in ConfigTx /\ tx.id = id /\ parameterBoundsChecking(tx)
      BY <1>2, <1>3, <2>2
    <3>2. NewParameters(val, config)[id] = tx.payload
      BY <2>2, <1>4 DEF NewParameters
    <3>3. tx.payload \in Nat
      BY <3>1 DEF ConfigTx
    <3>4. id = "DIFF_INTERVAL" => tx.payload >= 2
      BY <3>1, <3>3, ConfigAssumption DEF parameterBoundsChecking
    <3> QED
      BY <3>2, <3>3, <3>4
  <2> QED
    BY <2>1, <2>2
<1>5. "DIFF_INTERVAL" \in ParameterIds
  BY DEF ParameterIds
<1>6. NewParameters(val, config) \in [ParameterIds -> Nat]
  BY <1>4 DEF NewParameters
<1> QED
  BY <1>4, <1>5, <1>6

(* The effect of configStateChange, and that its rollback undoes it.       *)
LEMMA ConfigUndone ==
    ASSUME Calm, NEW s, Sound(s), NEW b \in BlockData, b.height = s.global + 1,
           Allowed(s, b)
    PROVE  LET u == configStateChange(s, b) IN
           /\ u \in Stat /\ u.params # <<>>
           /\ u.global = s.global /\ u.local = s.local /\ u.target = s.target
           /\ u.times = s.times /\ u.first = s.first
           /\ u.staking = s.staking
           /\ DiffInterval(u) \in Nat /\ DiffInterval(s) \in Nat
           /\ DiffInterval(u) >= DiffInterval(s) /\ DiffInterval(s) >= 2
           /\ \A i \in 1 .. Len(u.params) :
                 /\ u.params[i].hash.height <= s.global + 1
                 /\ u.params[i].val["DIFF_INTERVAL"] >= 2
           /\ IF b.config # <<>> /\ u.params[Len(u.params)].hash = b
              THEN Front(u.params) = s.params ELSE u.params = s.params
<1> DEFINE u == configStateChange(s, b)
           P == [hash : BlockData, val : [ParameterIds -> Nat]]
           e == [hash |-> b, val |-> NewParameters(activeParameters(s), b.config)]
<1>1. /\ s \in Stat /\ s.params \in Seq(P) /\ s.params # <<>> /\ s.global \in Nat
      /\ \A i \in 1 .. Len(s.params) : s.params[i].hash.height <= s.global
                                     /\ s.params[i].val["DIFF_INTERVAL"] >= 2
  BY DEF Sound, Stat
<1>2. /\ Len(s.params) \in 1 .. Len(s.params)
      /\ \A i \in 1 .. Len(s.params) : s.params[i] \in P
  <2> HIDE DEF P
  <2>1. Len(s.params) >= 1 /\ Len(s.params) \in Nat
    BY <1>1, FrontFacts, LenProperties
  <2> QED
    BY <1>1, <2>1, ElementOfSeq
<1>3. /\ activeParameters(s) \in [ParameterIds -> Nat]
      /\ activeParameters(s)["DIFF_INTERVAL"] >= 2
      /\ DiffInterval(s) \in Nat /\ DiffInterval(s) >= 2
  BY <1>1, <1>2 DEF activeParameters, DiffInterval, ParameterIds
<1>4. /\ DiffInterval(u) >= DiffInterval(s)
      /\ Removed(b.config) = {}
  BY DEF Allowed, Calm
<1>5. CASE ~Relevant(b.config)
  <2>1. u = s
    BY <1>5 DEF configStateChange
  <2>2. s.params[Len(s.params)].hash # b
    BY <1>1, <1>2 DEF BlockData
  <2>3. \A i \in 1 .. Len(s.params) : s.params[i].hash.height \in Nat
    BY <1>2 DEF BlockData
  <2>4. \A i \in 1 .. Len(s.params) : s.params[i].hash.height <= s.global + 1
    BY <1>1, <2>3
  <2> HIDE DEF u
  <2> QED
    BY <1>1, <1>3, <2>1, <2>2, <2>4 DEF u
<1>6. CASE Relevant(b.config)
  <2>1. b.config # <<>> /\ b.config \in Configs \cup {<<>>}
    BY <1>6 DEF Relevant, BlockData
  <2>2. e \in P /\ e.val["DIFF_INTERVAL"] >= 2 /\ e.hash = b
    BY <1>3, <2>1, NewParametersType
  <2>3. /\ Append(s.params, e) \in Seq(P) /\ Len(Append(s.params, e)) = Len(s.params) + 1
        /\ Append(s.params, e) # <<>>
        /\ Append(s.params, e)[Len(s.params) + 1] = e
        /\ \A i \in 1 .. Len(s.params) : Append(s.params, e)[i] = s.params[i]
        /\ Front(Append(s.params, e)) = s.params
    <3> HIDE DEF P, e
    <3> QED BY <1>1, <2>2, AppendUndone
  <2>4. u = [s EXCEPT !.params = Append(s.params, e), !.staking = s.staking \ {}]
    BY <1>4, <1>6 DEF configStateChange
  <2>5. /\ u \in Stat /\ u.params = Append(s.params, e) /\ u.staking = s.staking
        /\ u.global = s.global /\ u.local = s.local /\ u.target = s.target
        /\ u.times = s.times /\ u.first = s.first
    <3> HIDE DEF e, u
    <3> QED BY <1>1, <2>3, <2>4 DEF Stat
  <2>6. DiffInterval(u) \in Nat
    BY <2>2, <2>3, <2>5 DEF DiffInterval, activeParameters, ParameterIds
  <2>7. \A i \in 1 .. Len(u.params) :
           /\ u.params[i].hash.height <= s.global + 1
           /\ u.params[i].val["DIFF_INTERVAL"] >= 2
    <3> SUFFICES ASSUME NEW i \in 1 .. Len(s.params) + 1
                 PROVE  /\ Append(s.params, e)[i].hash.height <= s.global + 1
                        /\ Append(s.params, e)[i].val["DIFF_INTERVAL"] >= 2
      BY <2>3, <2>5
    <3>1. CASE i = Len(s.params) + 1
      BY <3>1, <1>1, <2>2, <2>3
    <3>2. CASE i \in 1 .. Len(s.params)
      <4>1. Append(s.params, e)[i] = s.params[i]
        BY <3>2, <2>3
      <4>2. s.params[i].hash.height \in Nat
        BY <3>2, <1>2 DEF BlockData
      <4> QED
        BY <3>2, <1>1, <4>1, <4>2
    <3> QED
      BY <3>1, <3>2, <1>1, LenProperties
  <2>8. u.params[Len(u.params)].hash = b /\ Front(u.params) = s.params
    BY <2>2, <2>3, <2>5
  <2> QED
    BY <1>3, <1>4, <2>1, <2>3, <2>5, <2>6, <2>7, <2>8
<1> QED
  BY <1>5, <1>6

LEMMA StatEqual ==
    ASSUME NEW x \in Stat, NEW y \in Stat,
           x.global = y.global, x.local = y.local, x.target = y.target, x.times = y.times,
           x.first = y.first, x.params = y.params, x.staking = y.staking
    PROVE  x = y
BY DEF Stat

----------------------------------------------------------------------------
(* Validating a block keeps the statistics sound, and rolling the block    *)
(* back is the inverse: the count is restored because the interval that    *)
(* was completed is the one that was active before the block.              *)
LEMMA CollectUndone ==
    ASSUME Calm, NEW s, Sound(s), NEW b \in BlockData, b.height = s.global + 1,
           Allowed(s, b)
    PROVE  /\ Sound(Collected(s, b))
           /\ Collected(s, b).global = s.global + 1
           /\ Rolled(Collected(s, b), b) = s
<1> DEFINE c == configStateChange(s, b)
           u == [c EXCEPT !.global = @ + 1, !.local = @ + 1]
           v == collectStatistics(c, b)
           x == configStateChangeRollback(v, b)
           y == [x EXCEPT !.global = @ - 1]
           Range01 == [first : Int, last : Int]
<1>1. /\ s \in Stat /\ s.global \in Nat /\ s.local \in Nat /\ s.local <= s.global
      /\ s.local < DiffInterval(s) /\ s.target # <<>> /\ s.params # <<>>
      /\ s.target \in Seq(0 .. 255) /\ s.times \in Seq(Range01) /\ s.first \in Int
      /\ Len(s.target) = Len(s.times) + 1
      /\ \A i \in 1 .. Len(s.times) :
            s.times[i].last = IF i = Len(s.times) THEN s.first ELSE s.times[i + 1].first
  BY DEF Sound, Stat
<1>2. /\ c \in Stat /\ c.params # <<>>
      /\ c.global = s.global /\ c.local = s.local /\ c.target = s.target
      /\ c.times = s.times /\ c.first = s.first /\ c.staking = s.staking
      /\ DiffInterval(c) \in Nat /\ DiffInterval(s) \in Nat
      /\ DiffInterval(c) >= DiffInterval(s) /\ DiffInterval(s) >= 2
      /\ \A i \in 1 .. Len(c.params) :
            /\ c.params[i].hash.height <= s.global + 1
            /\ c.params[i].val["DIFF_INTERVAL"] >= 2
      /\ IF b.config # <<>> /\ c.params[Len(c.params)].hash = b
         THEN Front(c.params) = s.params ELSE c.params = s.params
  BY ConfigUndone
<1> HIDE DEF c
<1>3. /\ u \in Stat /\ u.global = s.global + 1 /\ u.local = s.local + 1
      /\ u.target = s.target /\ u.times = s.times /\ u.first = s.first
      /\ u.params = c.params /\ u.staking = s.staking
  <2>1. c \in Stat /\ c.global + 1 \in Nat /\ c.local + 1 \in Nat
    BY <1>1, <1>2
  <2>2. /\ u \in Stat /\ u.global = c.global + 1 /\ u.local = c.local + 1
        /\ u.target = c.target /\ u.times = c.times /\ u.first = c.first
        /\ u.params = c.params /\ u.staking = c.staking
    BY <2>1 DEF Stat
  <2> HIDE DEF u
  <2> QED
    BY <1>2, <2>2
<1>4. DiffInterval(u) = DiffInterval(c)
  BY <1>3 DEF DiffInterval, activeParameters
<1>5. ASSUME v \in Stat, v.params = c.params
      PROVE  /\ x \in Stat /\ x.params = s.params /\ x.global = v.global
             /\ x.local = v.local /\ x.target = v.target /\ x.times = v.times
             /\ x.first = v.first /\ x.staking = v.staking
             /\ DiffInterval(x) = DiffInterval(s)
  <2> HIDE DEF v
  <2>1. s.params \in Seq([hash : BlockData, val : [ParameterIds -> Nat]])
    BY <1>1 DEF Stat
  <2>2. x = IF b.config # <<>> /\ c.params[Len(c.params)].hash = b
            THEN [v EXCEPT !.params = Front(c.params)] ELSE v
    BY <1>5 DEF configStateChangeRollback
  <2>3. /\ x \in Stat /\ x.params = s.params /\ x.global = v.global
        /\ x.local = v.local /\ x.target = v.target /\ x.times = v.times
        /\ x.first = v.first /\ x.staking = v.staking
    <3> HIDE DEF x
    <3>1. CASE b.config # <<>> /\ c.params[Len(c.params)].hash = b
      <4>1. x = [v EXCEPT !.params = s.params]
        BY <1>2, <2>2, <3>1
      <4> QED BY <4>1, <1>5, <2>1, ZenonT(40) DEF Stat
    <3>2. CASE ~(b.config # <<>> /\ c.params[Len(c.params)].hash = b)
      BY <1>2, <1>5, <2>2, <3>2
    <3> QED BY <3>1, <3>2
  <2> QED
    BY <2>3 DEF DiffInterval, activeParameters
<1>6. CASE s.local + 1 < DiffInterval(c)
  <2>1. v = u
    BY <1>3, <1>4, <1>6 DEF collectStatistics
  <2>2. Sound(v) /\ v.global = s.global + 1
    <3> HIDE DEF u, v
    <3>1. /\ v \in Stat /\ v.target # <<>> /\ v.params # <<>> /\ v.params = c.params
          /\ v.local = s.local + 1 /\ v.global = s.global + 1 /\ v.target = s.target
          /\ v.times = s.times /\ v.first = s.first /\ DiffInterval(v) = DiffInterval(c)
      BY <1>1, <1>2, <1>3, <1>4, <2>1
    <3>2. v.local <= v.global /\ v.local < DiffInterval(v)
      BY <1>1, <1>6, <3>1
    <3>3. \A i \in 1 .. Len(v.params) : v.params[i].hash.height <= v.global
                                     /\ v.params[i].val["DIFF_INTERVAL"] >= 2
      BY <1>2, <3>1
    <3>4. /\ Len(v.target) = Len(v.times) + 1
          /\ \A i \in 1 .. Len(v.times) :
                v.times[i].last = IF i = Len(v.times) THEN v.first ELSE v.times[i + 1].first
      BY <1>1, <3>1
    <3> QED BY <3>1, <3>2, <3>3, <3>4 DEF Sound
  <2>3. /\ x \in Stat /\ x.params = s.params /\ x.global = s.global + 1
        /\ x.local = s.local + 1 /\ x.target = s.target /\ x.times = s.times
        /\ x.first = s.first /\ x.staking = s.staking
    <3> HIDE DEF u, v, x
    <3> QED BY <1>3, <1>5, <2>1
  <2>4. Rolled(v, b) = [y EXCEPT !.local = @ - 1]
    <3> HIDE DEF v, x
    <3>1. y.local = s.local + 1
      BY <2>3 DEF Stat
    <3>2. Rolled(v, b) = collectStatisticsRollback(x)
      BY DEF Rolled, x
    <3> QED BY <1>1, <3>1, <3>2 DEF collectStatisticsRollback
  <2>5. Rolled(v, b) = s
    <3> HIDE DEF x
    <3> DEFINE z == [y EXCEPT !.local = @ - 1]
    <3>1. /\ z \in Stat /\ z.global = s.global /\ z.local = s.local /\ z.target = s.target
          /\ z.times = s.times /\ z.first = s.first /\ z.params = s.params
          /\ z.staking = s.staking
      <4>1. x \in Stat /\ x.global - 1 = s.global /\ x.local - 1 = s.local
        BY <1>1, <2>3
      <4>2. y \in Stat /\ y = [x EXCEPT !.global = s.global] /\ y.local = x.local
        BY <1>1, <4>1 DEF Stat
      <4>3. z = [y EXCEPT !.local = s.local]
        BY <4>1, <4>2
      <4>4. /\ y.global = s.global /\ y.target = x.target /\ y.times = x.times
            /\ y.first = x.first /\ y.params = x.params /\ y.staking = x.staking
        BY <4>1, <4>2 DEF Stat
      <4> HIDE DEF y, z
      <4>5. /\ z \in Stat /\ z.global = y.global /\ z.local = s.local
            /\ z.target = y.target /\ z.times = y.times /\ z.first = y.first
            /\ z.params = y.params /\ z.staking = y.staking
        <5>1. s.local \in Nat
          BY <1>1 DEF Stat
        <5> QED BY <4>2, <4>3, <5>1, ZenonT(40) DEF Stat
      <4> QED BY <2>3, <4>4, <4>5
    <3> HIDE DEF z
    <3>2. z = s
      BY <1>1, <3>1, StatEqual
    <3> QED BY <2>4, <3>2 DEF z
  <2> QED
    BY <2>2, <2>5 DEF Collected, c
<1>7. CASE ~(s.local + 1 < DiffInterval(c))
  <2> DEFINE nt == NewTarget(u, b)
             tr == [first |-> s.first, last |-> b.time]
  <2>1. /\ s.local = DiffInterval(s) - 1 /\ s.global # 0
    BY <1>1, <1>2, <1>7
  <2>2. nt \in 0 .. 255 /\ tr \in Range01 /\ b.time \in Int
    <3>1. b.time \in Int
      BY DEF BlockData
    <3>2. nt \in 0 .. 255
      <4> HIDE DEF u
      <4> QED BY <1>1, <1>2, <1>3, TargetType
    <3> QED BY <1>1, <3>1, <3>2
  <2>3. /\ Append(s.target, nt) \in Seq(0 .. 255)
        /\ Len(Append(s.target, nt)) = Len(s.target) + 1
        /\ Append(s.target, nt) # <<>>
        /\ Front(Append(s.target, nt)) = s.target
    <3> DEFINE Byte == 0 .. 255
    <3>1. s.target \in Seq(Byte) /\ nt \in Byte
      BY <1>1, <2>2
    <3> HIDE DEF Byte, nt
    <3>2. /\ Append(s.target, nt) \in Seq(Byte)
          /\ Len(Append(s.target, nt)) = Len(s.target) + 1
          /\ Append(s.target, nt) # <<>>
          /\ Front(Append(s.target, nt)) = s.target
      BY <3>1, AppendUndone
    <3> QED BY <3>2 DEF Byte
  <2>4. /\ Append(s.times, tr) \in Seq(Range01)
        /\ Len(Append(s.times, tr)) = Len(s.times) + 1
        /\ Append(s.times, tr)[Len(s.times) + 1] = tr
        /\ \A i \in 1 .. Len(s.times) : Append(s.times, tr)[i] = s.times[i]
        /\ Front(Append(s.times, tr)) = s.times
        /\ Last(Append(s.times, tr)) = tr
    <3> HIDE DEF Range01, tr
    <3> QED BY <1>1, <2>2, AppendUndone
  <2>5. v = [u EXCEPT !.target = Append(@, NewTarget(u, b)),
                      !.times = Append(@, [first |-> u.first, last |-> b.time]),
                      !.local = 0,
                      !.first = b.time]
    <3>1. ~(u.local < DiffInterval(u))
      <4> HIDE DEF u
      <4> QED BY <1>3, <1>4, <1>7
    <3> QED BY <3>1, Zenon DEF collectStatistics
  <2>6. /\ v \in Stat /\ v.global = s.global + 1 /\ v.local = 0
        /\ v.target = Append(s.target, nt) /\ v.times = Append(s.times, tr)
        /\ v.first = b.time /\ v.params = c.params /\ v.staking = s.staking
    <3> HIDE DEF u, v, nt
    <3>1. v = [u EXCEPT !.target = Append(s.target, nt), !.times = Append(s.times, tr),
                        !.local = 0, !.first = b.time]
      BY <1>3, <2>5 DEF nt
    <3> HIDE DEF tr
    <3> QED BY <1>3, <2>2, <2>3, <2>4, <3>1, ZenonT(40) DEF Stat
  <2>7. Sound(v)
    <3> HIDE DEF v, nt
    <3>1. DiffInterval(v) = DiffInterval(c)
      BY <2>6 DEF DiffInterval, activeParameters
    <3>2. \A i \in 1 .. Len(v.times) :
             v.times[i].last = IF i = Len(v.times) THEN v.first ELSE v.times[i + 1].first
      <4> SUFFICES ASSUME NEW i \in 1 .. Len(s.times) + 1
                   PROVE  v.times[i].last = IF i = Len(s.times) + 1 THEN b.time
                                            ELSE v.times[i + 1].first
        <5>1. Len(v.times) = Len(s.times) + 1 /\ v.first = b.time
          BY <2>4, <2>6
        <5> HIDE DEF tr
        <5> QED BY <5>1, Zenon
      <4>1. Len(s.times) \in Nat
        BY <1>1, LenProperties
      <4>2. CASE i = Len(s.times) + 1
        BY <2>4, <2>6, <4>2
      <4>3. CASE i = Len(s.times)
        <5>1. v.times[i] = s.times[i] /\ v.times[i + 1] = tr /\ i \in 1 .. Len(s.times)
          BY <2>4, <2>6, <4>1, <4>3
        <5>2. s.times[i].last = s.first
          BY <1>1, <4>3, <5>1
        <5>3. i # Len(s.times) + 1 /\ tr.first = s.first
          BY <4>1, <4>3
        <5> HIDE DEF tr
        <5> QED BY <5>1, <5>2, <5>3
      <4>4. CASE i \in 1 .. Len(s.times) - 1
        <5>1. v.times[i] = s.times[i] /\ v.times[i + 1] = s.times[i + 1]
          <6> HIDE DEF tr
          <6>1. i \in 1 .. Len(s.times) /\ i + 1 \in 1 .. Len(s.times)
            BY <4>1, <4>4
          <6>2. \A j \in 1 .. Len(s.times) : v.times[j] = s.times[j]
            BY <2>4, <2>6, Zenon
          <6> QED BY <6>1, <6>2, Zenon
        <5>2. s.times[i].last = s.times[i + 1].first /\ i # Len(s.times) + 1
          <6>1. /\ i \in 1 .. Len(s.times) /\ i # Len(s.times)
                /\ i # Len(s.times) + 1
            BY <4>1, <4>4
          <6>2. s.times[i].last = IF i = Len(s.times) THEN s.first ELSE s.times[i + 1].first
            BY <1>1, <6>1
          <6> QED BY <6>1, <6>2
        <5> QED BY <5>1, <5>2
      <4> QED
        BY <4>1, <4>2, <4>3, <4>4
    <3>3. v.local <= v.global /\ v.local < DiffInterval(v)
      BY <1>1, <1>2, <2>6, <3>1
    <3>4. \A i \in 1 .. Len(v.params) : v.params[i].hash.height <= v.global
                                     /\ v.params[i].val["DIFF_INTERVAL"] >= 2
      BY <1>2, <2>6
    <3>5. v.target # <<>> /\ v.params # <<>> /\ Len(v.target) = Len(v.times) + 1
      BY <1>1, <1>2, <2>3, <2>4, <2>6
    <3> QED
      BY <2>6, <3>2, <3>3, <3>4, <3>5 DEF Sound
  <2>8. /\ x \in Stat /\ x.params = s.params /\ x.global = s.global + 1 /\ x.local = 0
        /\ x.target = Append(s.target, nt) /\ x.times = Append(s.times, tr)
        /\ x.staking = s.staking /\ DiffInterval(x) = DiffInterval(s)
    <3> HIDE DEF v, x, nt, tr
    <3> QED BY <1>5, <2>6
  <2>9. Rolled(v, b) = [y EXCEPT !.local = DiffInterval(s) - 1, !.target = s.target,
                                 !.first = s.first, !.times = s.times]
    <3> HIDE DEF v, x, nt
    <3>1. /\ y.local = 0 /\ y.global = s.global /\ y.times = Append(s.times, tr)
          /\ y.target = Append(s.target, nt) /\ y.params = s.params
      <4> HIDE DEF tr
      <4>1. x \in Stat /\ x.global - 1 = s.global
        BY <1>1, <2>8
      <4>2. /\ y.local = x.local /\ y.global = x.global - 1 /\ y.times = x.times
            /\ y.target = x.target /\ y.params = x.params
        BY <4>1 DEF Stat
      <4> HIDE DEF y
      <4> QED BY <2>8, <4>1, <4>2
    <3>2. Rolled(v, b) = collectStatisticsRollback(x)
      BY DEF Rolled, x
    <3>3. collectStatisticsRollback(x) =
             [y EXCEPT !.local = DiffInterval(y) - 1, !.target = Front(@),
                       !.first = Last(y.times).first, !.times = Front(@)]
      BY <2>1, <3>1 DEF collectStatisticsRollback
    <3>4. DiffInterval(y) = DiffInterval(s)
      BY <3>1 DEF DiffInterval, activeParameters
    <3>5. /\ Front(y.target) = s.target /\ Front(y.times) = s.times
          /\ Last(y.times).first = s.first
      <4>1. tr.first = s.first
        OBVIOUS
      <4> HIDE DEF y, tr
      <4> QED BY <2>3, <2>4, <3>1, <4>1
    <3> HIDE DEF y
    <3> QED BY <3>2, <3>3, <3>4, <3>5
  <2>10. Rolled(v, b) = s
    <3> HIDE DEF x
    <3> DEFINE z == [y EXCEPT !.local = DiffInterval(s) - 1, !.target = s.target,
                              !.first = s.first, !.times = s.times]
    <3>1. /\ z \in Stat /\ z.global = s.global /\ z.local = s.local /\ z.target = s.target
          /\ z.times = s.times /\ z.first = s.first /\ z.params = s.params
          /\ z.staking = s.staking
      <4> HIDE DEF nt, tr
      <4>1. x \in Stat /\ x.global - 1 = s.global /\ DiffInterval(s) - 1 = s.local
        BY <1>1, <1>2, <2>1, <2>8
      <4>2. /\ y \in Stat /\ y.global = s.global /\ y.params = x.params
            /\ y.staking = x.staking
        BY <1>1, <4>1 DEF Stat
      <4>3. z = [y EXCEPT !.local = s.local, !.target = s.target,
                          !.first = s.first, !.times = s.times]
        BY <4>1
      <4>4. /\ s.local \in Nat /\ s.target \in Seq(0 .. 255) /\ s.first \in Int
            /\ s.times \in Seq([first : Int, last : Int])
        BY <1>1
      <4> HIDE DEF y, z
      <4>5. /\ z \in Stat /\ z.global = y.global /\ z.local = s.local
            /\ z.target = s.target /\ z.times = s.times /\ z.first = s.first
            /\ z.params = y.params /\ z.staking = y.staking
        BY <4>2, <4>3, <4>4, ZenonT(40) DEF Stat
      <4> QED BY <2>8, <4>2, <4>5
    <3> HIDE DEF z
    <3>2. z = s
      BY <1>1, <3>1, StatEqual
    <3> QED BY <2>9, <3>2 DEF z
  <2> QED
    BY <2>6, <2>7, <2>10 DEF Collected, c
<1> QED
  BY <1>6, <1>7

----------------------------------------------------------------------------
LEMMA InitIInv == Init => IInv
<1> SUFFICES ASSUME Init PROVE IInv
  OBVIOUS
<1> DEFINE Q == [hash : BlockData, val : [ParameterIds -> Nat]]
           d == [hash |-> Genesis, val |-> DefaultParameters]
<1>1. /\ chain = <<>> /\ snaps = <<>>
      /\ stat = [global |-> 0, local |-> 0, target |-> <<FirstTarget>>, times |-> <<>>,
                 first |-> 0, params |-> <<d>>, staking |-> DOMAIN Balance]
  BY DEF Init
<1>2. "DIFF_INTERVAL" \in ParameterIds
  BY DEF ParameterIds
<1>3. /\ DefaultParameters \in [ParameterIds -> Nat]
      /\ DefaultParameters["DIFF_INTERVAL"] >= 2
      /\ FirstTarget \in 0 .. 255
  BY <1>2, ConfigAssumption
<1>4. d \in Q
  BY <1>3 DEF Genesis, BlockData
<1>5. stat \in Stat
  BY <1>1, <1>3, <1>4 DEF Stat
<1>6. Sound(stat)
  <2>1. /\ stat.global = 0 /\ stat.local = 0 /\ stat.params = <<d>>
        /\ stat.target = <<FirstTarget>> /\ stat.times = <<>>
    BY <1>1
  <2>2. /\ Len(stat.params) = 1 /\ stat.params[1] = d /\ stat.params # <<>>
        /\ Len(stat.target) = 1 /\ stat.target # <<>> /\ Len(stat.times) = 0
    BY <2>1
  <2>3. d.hash.height = 0 /\ d.val["DIFF_INTERVAL"] >= 2 /\ d.val["DIFF_INTERVAL"] \in Nat
    BY <1>2, <1>3 DEF Genesis
  <2> HIDE DEF d
  <2>4. DiffInterval(stat) = d.val["DIFF_INTERVAL"]
    BY <2>2 DEF DiffInterval, activeParameters
  <2> QED
    BY <1>5, <2>1, <2>2, <2>3, <2>4 DEF Sound
<1> QED
  BY <1>1, <1>6 DEF IInv

LEMMA PostValidateStep ==
    ASSUME Calm, IInv, NEW gap \in Gaps, NEW config \in Configs,
           PostValidate(NextBlock(gap, config))
    PROVE  IInv'
<1> DEFINE b == NextBlock(gap, config)
           n == Len(chain)
<1>1. /\ chain \in Seq(BlockData) /\ snaps \in Seq(Stat) /\ Len(snaps) = n /\ n \in Nat
      /\ Sound(stat) /\ stat.global = n /\ stat \in Stat
  BY LenProperties DEF IInv, Sound
<1>2. b \in BlockData /\ b.height = n + 1
  <2>1. Tip \in BlockData
    <3>1. CASE chain = <<>>
      BY <3>1 DEF Tip, Genesis, BlockData
    <3>2. CASE chain # <<>>
      BY <3>2, <1>1, FrontFacts DEF Tip
    <3> QED BY <3>1, <3>2
  <2>2. Tip.time + gap \in Int /\ GenesisGap \in Int
    BY <2>1, ConfigAssumption DEF BlockData
  <2> QED
    BY <1>1, <2>2 DEF NextBlock, BlockData
<1>3. /\ Allowed(stat, b) /\ stat' = Collected(stat, b)
      /\ chain' = Append(chain, b) /\ snaps' = Append(snaps, stat)
  BY DEF PostValidate, Collected
<1> HIDE DEF b
<1>4. /\ Sound(stat') /\ stat'.global = n + 1 /\ Rolled(stat', b) = stat
  BY <1>1, <1>2, <1>3, CollectUndone
<1>5. /\ chain' \in Seq(BlockData) /\ Len(chain') = n + 1 /\ chain'[n + 1] = b
      /\ \A i \in 1 .. n : chain'[i] = chain[i]
  BY <1>1, <1>2, <1>3, AppendUndone
<1>6. /\ snaps' \in Seq(Stat) /\ Len(snaps') = n + 1 /\ snaps'[n + 1] = stat
      /\ \A i \in 1 .. n : snaps'[i] = snaps[i]
  BY <1>1, <1>3, AppendUndone
<1>7. ASSUME NEW i \in 1 .. n + 1
      PROVE  /\ Sound(snaps'[i]) /\ snaps'[i].global = i - 1
             /\ Rolled(After(i)', chain'[i]) = snaps'[i]
  <2>1. CASE i = n + 1
    <3>1. After(i)' = stat'
      BY <1>5, <2>1 DEF After
    <3> QED
      BY <1>1, <1>4, <1>5, <1>6, <2>1, <3>1
  <2>2. CASE i \in 1 .. n
    <3>1. After(i)' = snaps'[i + 1]
      BY <1>1, <1>5, <2>2 DEF After
    <3>2. snaps'[i + 1] = After(i)
      <4>1. CASE i = n
        BY <1>6, <4>1 DEF After
      <4>2. CASE i # n
        BY <1>1, <1>6, <2>2, <4>2 DEF After
      <4> QED BY <4>1, <4>2
    <3>3. /\ Sound(snaps[i]) /\ snaps[i].global = i - 1
          /\ Rolled(After(i), chain[i]) = snaps[i]
      BY <2>2 DEF IInv
    <3> QED
      BY <1>5, <1>6, <2>2, <3>1, <3>2, <3>3
  <2> QED
    BY <1>1, <2>1, <2>2
<1> QED
  BY <1>4, <1>5, <1>6, <1>7 DEF IInv

LEMMA RollbackStep ==
    ASSUME IInv, Rollback
    PROVE  IInv' /\ stat' = Last(snaps)
<1> DEFINE n == Len(chain)
<1>1. /\ chain \in Seq(BlockData) /\ snaps \in Seq(Stat) /\ Len(snaps) = n /\ n \in Nat
      /\ chain # <<>>
  BY LenProperties DEF IInv, Rollback
<1>2. /\ chain' \in Seq(BlockData) /\ Len(chain') = n - 1 /\ n >= 1
      /\ \A i \in 1 .. n - 1 : chain'[i] = chain[i]
      /\ Last(chain) = chain[n]
  BY <1>1, FrontFacts DEF Rollback
<1>3. snaps # <<>>
  BY <1>1, <1>2
<1>4. /\ snaps' \in Seq(Stat) /\ Len(snaps') = n - 1
      /\ \A i \in 1 .. n - 1 : snaps'[i] = snaps[i]
      /\ Last(snaps) = snaps[n]
  BY <1>1, <1>3, FrontFacts DEF Rollback
<1>5. \A i \in 1 .. n : /\ Sound(snaps[i]) /\ snaps[i].global = i - 1
                        /\ Rolled(After(i), chain[i]) = snaps[i]
  BY DEF IInv
<1>6. stat' = snaps[n]
  <2>1. After(n) = stat
    BY DEF After
  <2>2. Rolled(After(n), chain[n]) = snaps[n]
    BY <1>1, <1>2, <1>5
  <2> QED
    BY <1>2, <2>1, <2>2 DEF Rollback
<1>7. Sound(stat') /\ stat'.global = n - 1
  BY <1>1, <1>2, <1>5, <1>6
<1>8. ASSUME NEW i \in 1 .. n - 1
      PROVE  /\ Sound(snaps'[i]) /\ snaps'[i].global = i - 1
             /\ Rolled(After(i)', chain'[i]) = snaps'[i]
  <2>1. After(i) = snaps[i + 1]
    BY <1>1 DEF After
  <2>2. After(i)' = snaps[i + 1]
    <3>1. CASE i = n - 1
      BY <1>1, <1>2, <1>6, <3>1 DEF After
    <3>2. CASE i # n - 1
      <4>1. i + 1 \in 1 .. n - 1
        BY <1>1, <3>2
      <4> QED BY <1>2, <1>4, <3>2, <4>1 DEF After
    <3> QED BY <3>1, <3>2
  <2>3. i \in 1 .. n
    BY <1>1
  <2> QED
    BY <1>2, <1>4, <1>5, <2>1, <2>2, <2>3
<1> QED
  BY <1>1, <1>2, <1>4, <1>6, <1>7, <1>8 DEF IInv

LEMMA NextIInv == Calm /\ IInv /\ [Next]_vars => IInv'
<1> SUFFICES ASSUME Calm, IInv, [Next]_vars PROVE IInv'
  OBVIOUS
<1>1. CASE \E gap \in Gaps, config \in Configs : PostValidate(NextBlock(gap, config))
  BY <1>1, PostValidateStep
<1>2. CASE Rollback
  BY <1>2, RollbackStep
<1>3. CASE UNCHANGED vars
  BY <1>3 DEF vars, IInv, After
<1> QED
  BY <1>1, <1>2, <1>3 DEF Next

LEMMA StatisticsInvariant == Calm /\ Spec => []IInv
<1>1. SUFFICES ASSUME Calm PROVE Spec => []IInv
  OBVIOUS
<1>2. IInv /\ [Next]_vars => IInv'
  BY <1>1, NextIInv
<1> QED
  BY <1>2, InitIInv, PTL DEF Spec

----------------------------------------------------------------------------
(* The variables of blockchainparam.go keep their types: the target stays  *)
(* a byte, the counts never become negative, and neither the target nor    *)
(* the parameter slice is ever emptied by a rollback.                      *)
THEOREM StatisticsTypeCorrect == Calm /\ Spec => []TypeOK
<1>1. IInv => TypeOK
  BY DEF IInv, Sound, TypeOK
<1> QED
  BY <1>1, StatisticsInvariant, PTL

(* The time ranges behind the targets follow each other without gap, after *)
(* any sequence of adaptions and rollbacks.                                *)
THEOREM RangesStayContiguous == Calm /\ Spec => []RangesContiguous
<1>1. IInv => RangesContiguous
  BY DEF IInv, Sound, RangesContiguous
<1> QED
  BY <1>1, StatisticsInvariant, PTL

(* configStateChangeRollback followed by collectStatisticsRollback is the  *)
(* inverse of configStateChange followed by collectStatistics, whatever    *)
(* blocks were validated and rolled back before.                           *)
THEOREM RollbackRestoresStatistics == Calm /\ Spec => StatisticsRestored
<1>1. IInv /\ [Next]_vars => [Len(chain') < Len(chain) => stat' = Last(snaps)]_vars
  <2> SUFFICES ASSUME IInv, Next, Len(chain') < Len(chain)
               PROVE  stat' = Last(snaps)
    OBVIOUS
  <2>1. CASE \E gap \in Gaps, config \in Configs : PostValidate(NextBlock(gap, config))
    <3>1. PICK b : chain' = Append(chain, b)
      BY <2>1 DEF PostValidate
    <3>2. chain \in Seq(BlockData \cup {b}) /\ b \in BlockData \cup {b}
      BY SeqMonotonic DEF IInv
    <3>3. Len(chain') = Len(chain) + 1 /\ Len(chain) \in Nat
      BY <3>1, <3>2, AppendProperties, LenProperties
    <3> QED BY <3>3
  <2>2. CASE Rollback
    BY <2>2, RollbackStep
  <2> QED
    BY <2>1, <2>2 DEF Next
<1> QED
  BY <1>1, StatisticsInvariant, PTL DEF Spec, StatisticsRestored
=============================================================================
