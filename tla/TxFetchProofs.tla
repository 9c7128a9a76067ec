--------------------------- MODULE TxFetchProofs ---------------------------
(***************************************************************************)
(* Theorems about TxFetch, for every set of transactions, every set of     *)
(* blocks and every plan of calls: a fetch that returns without error has  *)
(* exactly the transactions of the block, the payments of its AggTxs are   *)
(* complete, and the stashes keep foreign answers away from those who      *)
(* wait.                                                                   *)
(*                                                                         *)
(* The heart of the invariant is ReportInv.  errChan does not say who sent *)
(* a report, so the invariant says that the reports can be attributed:     *)
(* there are the goroutines C whose nil has been counted and an owner for  *)
(* every report in errChan such that whoever strayed from the block has an *)
(* error on its way, in front of its nil.                                  *)
(***************************************************************************)
EXTENDS TxFetch, TLAPS, FiniteSetTheorems, SequenceTheorems, WellFoundedInduction

Reports == {"nil", "err"}
Pcs == {"next", "wait", "member", "mwait", "frame", "fwait", "done"}
Job == [block : DOMAIN Blocks \cup {NoTx}, init : BOOLEAN, result : Results]
Planned == [block : DOMAIN Blocks, init : BOOLEAN, heard : SUBSET Tx]
Main == [pc : {"idle", "collect", "gather", "fetched", "crashed"}, gen : Nat, cnt : Nat,
         calls : Seq(Planned)]
Seen == [loose : SUBSET Kinds, shared : SUBSET Kinds, wrong : SUBSET Kinds]

\* The transactions of kind k that the call with job jb is about.
Named(jb, k) == Blocks[jb.block][k]

\* The types of the variables.
Types ==
    /\ closed \subseteq Tx /\ open \subseteq Tx
    /\ stash \in [Kinds -> Seq(Tx)]
    /\ chan \in [Kinds -> Seq(Tx)]
    /\ replies \in [Tx -> 0..MaxReplies]
    /\ job \in [Calls -> Job]
    /\ fetch \in [Calls -> [Kinds -> Fetcher]]
    /\ errs \in [Calls -> Seq(Reports)]
    /\ slots \in [Calls -> [Kinds -> Seq(Tx \cup {NoTx})]]
    /\ funds \in [Calls -> Seq(Seq(Tx))]
    /\ main \in Main
    /\ prep \in Tx \cup {NoTx}
    /\ seen \in Seen

\* The channels and stashes: a stash is over its limit only while the handler
\* that filled it waits for a receiver, and all of a kind are of the kind.
StashInv ==
    /\ \A k \in Kinds :
          /\ \A i \in 1..Len(chan[k]) : KindOf[chan[k][i]] = k
          /\ Len(stash[k]) <= StashMax + 1
    /\ \A k \in Stashed :
          /\ Len(chan[k]) <= 1
          /\ chan[k] = <<>> => Len(stash[k]) <= StashMax
          /\ \A i \in 1..Len(chan[k]) : \E j \in 1..Len(stash[k]) : stash[k][j] = chan[k][i]
    /\ stash["config"] = <<>>

\* The calls of fetchTransactions: none has left a trace before it begins.
CallInv ==
    /\ main.gen + Len(main.calls) <= MaxFetches
    /\ main.pc \in {"collect", "gather", "fetched"} => main.gen > 0
    /\ main.pc = "gather" => main.cnt = nrOfChannels
    /\ main.pc = "fetched" => job[main.gen].result = "ok"
    /\ \A g \in Calls :
          /\ Len(errs[g]) <= nrOfChannels
          /\ g <= main.gen => job[g].block \in DOMAIN Blocks
          /\ g > main.gen => /\ job[g].result = "none"
                             /\ errs[g] = <<>>
                             /\ funds[g] = <<>>
                             /\ \A k \in Kinds : /\ fetch[g][k].pc = "done"
                                                 /\ fetch[g][k].out = <<>>
                                                 /\ slots[g][k] = <<>>

\* Where a goroutine f may be, and that what it is about to read is there.
Placed(k, jb, f) ==
    /\ f.i > 0 /\ f.j > 0
    /\ f.pc # "done" => f.i <= Len(Named(jb, k)) + 1
    /\ f.pc \notin {"next", "done"} => f.i <= Len(Named(jb, k))
    /\ f.pc \in {"member", "mwait", "frame", "fwait"} => k = "agg"
    /\ f.pc \in {"member", "mwait"} => ~ jb.init /\ f.cur \in Tx
    /\ f.pc \in {"frame", "fwait"} => jb.init /\ f.frames # <<>>
    /\ f.pc = "mwait" => f.j <= Len(Members[f.cur])
    /\ f.pc = "fwait" => Last(f.frames).todo # <<>>

PlaceInv == \A g \in Calls, k \in Kinds : Placed(k, job[g], fetch[g][k])

\* The slice s holds what the block names (B), as far as the goroutine f has
\* come.
Filled(B, f, s) ==
    /\ f.pc \in {"next", "wait"} => s = SubSeq(B, 1, f.i - 1)
    /\ f.pc \in {"member", "mwait", "frame", "fwait"} => s = SubSeq(B, 1, f.i)
    /\ f.pc = "done" => s = B

\* The fetcher f of AggTxs has passed member y of AggTx x.
Passed(f, x, y) ==
    \/ x < f.i
    \/ f.pc = "done"
    \/ x = f.i /\ f.pc \in {"member", "mwait"} /\ y < f.j

\* Its transactions are payments of the block's AggTxs B, among them all it has
\* passed that are not closed.
Paid(B, cl, f) ==
    /\ \A n \in 1..Len(f.trans) : \E x \in 1..Len(B) : \E y \in 1..Len(Members[B[x]]) :
          f.trans[n] = Members[B[x]][y] /\ KindOf[f.trans[n]] = "funds"
    /\ \A x \in 1..Len(B) : \A y \in 1..Len(Members[B[x]]) :
          Passed(f, x, y) /\ KindOf[Members[B[x]][y]] = "funds" =>
              \/ Members[B[x]][y] \in cl
              \/ \E n \in 1..Len(f.trans) : f.trans[n] = Members[B[x]][y]
    /\ f.pc \in {"member", "mwait"} => f.cur = B[f.i]

Clean(k, jb, cl, f, s) ==
    /\ Filled(Named(jb, k), f, s)
    /\ k = "agg" /\ ~ jb.init => Paid(Named(jb, k), cl, f)

CleanNow(g, k) == Clean(k, job[g], closed, fetch[g][k], slots[g][k])

\* C are the goroutines of call g whose nil has been counted, o the owners of
\* the reports in errChan.
Attributed(g, C, o) ==
    /\ Len(o) = Len(errs[g])
    /\ Cardinality(C) = main.cnt
    /\ \A k \in C : /\ fetch[g][k].pc = "done" /\ fetch[g][k].out = <<>>
                    /\ CleanNow(g, k)
                    /\ \A p \in 1..Len(o) : o[p] # k
    /\ \A k \in Kinds \ C :
          \/ CleanNow(g, k)
          \/ \E i \in 1..Len(fetch[g][k].out) : fetch[g][k].out[i] = "err"
          \/ \E p \in 1..Len(o) : o[p] = k /\ errs[g][p] = "err"
    /\ \A p \in 1..Len(o) : errs[g][p] = "nil" =>
          /\ fetch[g][o[p]].pc = "done" /\ fetch[g][o[p]].out = <<>>
          /\ \A q \in 1..Len(o) : q > p => o[q] # o[p]

\* The last thing a goroutine has to send is its nil.
OutInv ==
    \A g \in Calls, k \in Kinds : \A i \in 1..Len(fetch[g][k].out) :
        fetch[g][k].out[i] = "nil" => fetch[g][k].pc = "done" /\ i = Len(fetch[g][k].out)

ReportInv ==
    main.pc \in {"collect", "gather"} =>
        \E C \in SUBSET Kinds, o \in Seq(Kinds) : Attributed(main.gen, C, o)

\* What is true of a call once it has returned without error.
OkInv ==
    \A g \in Calls :
        /\ job[g].result = "ok" =>
              \A k \in Kinds : fetch[g][k].pc = "done" /\ CleanNow(g, k)
        /\ funds[g] # <<>> => /\ fetch[g]["agg"].pc = "done"
                              /\ funds[g] = <<fetch[g]["agg"].trans>>

\* What a goroutine waits for.
Want(k, jb, f) ==
    CASE f.pc = "wait" -> Named(jb, k)[f.i]
      [] f.pc = "mwait" -> Members[f.cur][f.j]
      [] f.pc = "fwait" -> Head(Last(f.frames).todo)
      [] OTHER -> NoTx

Free(c) == Together(c) \cap (seen.loose \cup seen.shared) = {}
Hears(g, k, c) == c \in Listens(fetch[g][k], k)

\* An answer that is at the channel or will get there.
UnderWay(t, c) ==
    \/ \E i \in 1..Len(chan[c]) : chan[c][i] = t
    \/ replies[t] > 0 /\ \A j \in 1..Len(stash[c]) : stash[c][j] # t

Awaited(t, c) ==
    \/ \E g \in Calls, k \in Kinds : Hears(g, k, c) /\ Want(k, job[g], fetch[g][k]) = t
    \/ c = "funds" /\ prep = t

\* Where nobody gave up and nobody shared, a channel has one listener, and an
\* answer on its way to the channel is one that is waited for.
AnswerInv ==
    \A c \in Stashed : Free(c) =>
        /\ \A g, h \in Calls, k, l \in Kinds :
              Hears(g, k, c) /\ Hears(h, l, c) => g = h /\ k = l
        /\ c = "funds" /\ prep # NoTx => \A g \in Calls, k \in Kinds : ~ Hears(g, k, c)
        /\ \A t \in Tx : KindOf[t] = c /\ UnderWay(t, c) => Awaited(t, c)

\* The inductive invariant: the types, what concerns calls and reports, and
\* what concerns channels and answers.
Core == CallInv /\ PlaceInv /\ OutInv /\ ReportInv /\ OkInv
Net == StashInv /\ AnswerInv /\ StashFilters
IInv == Types /\ Core /\ Net

----------------------------------------------------------------------------
(* Sequences.                                                              *)

LEMMA PrefixFacts ==
    ASSUME NEW S, NEW s \in Seq(S)
    PROVE  /\ SubSeq(s, 1, 0) = <<>>
           /\ SubSeq(s, 1, Len(s)) = s
           /\ \A i \in 1..Len(s) : Append(SubSeq(s, 1, i - 1), s[i]) = SubSeq(s, 1, i)
<1>1. SubSeq(s, 1, 0) = <<>> /\ SubSeq(s, 1, Len(s)) = s
  BY SubSeqEmpty, SubSeqFull
<1>2. ASSUME NEW i \in 1..Len(s)
      PROVE  Append(SubSeq(s, 1, i - 1), s[i]) = SubSeq(s, 1, i)
  <2>1. SubSeq(s, 1, i - 1) \in Seq(S) /\ SubSeq(s, 1, i) \in Seq(S) /\ s[i] \in S
    BY ElementOfSeq
  <2>2. Len(SubSeq(s, 1, i - 1)) = i - 1 /\ Len(SubSeq(s, 1, i)) = i
    OBVIOUS
  <2>3. \A n \in 1..(i - 1) : SubSeq(s, 1, i - 1)[n] = s[n]
    OBVIOUS
  <2>4. \A n \in 1..i : SubSeq(s, 1, i)[n] = s[n]
    OBVIOUS
  <2> DEFINE a == SubSeq(s, 1, i - 1)
             b == SubSeq(s, 1, i)
  <2>5. Append(a, s[i]) \in Seq(S) /\ Len(Append(a, s[i])) = i
    BY <2>1, <2>2
  <2>6. \A n \in 1..i : Append(a, s[i])[n] = b[n]
    <3> HIDE DEF a, b
    <3> QED
      BY <2>1, <2>2, <2>3, <2>4 DEF a, b
  <2> HIDE DEF a, b
  <2> QED
    BY <2>1, <2>2, <2>5, <2>6, SeqEqual DEF a, b
<1> QED
  BY <1>1, <1>2

\* Of the messages m, n find room behind s; the others stay.
LEMMA Sending ==
    ASSUME NEW S, NEW s \in Seq(S), NEW m \in Seq(S), NEW n \in 0..Len(m)
    PROVE  /\ s \o SubSeq(m, 1, n) \in Seq(S)
           /\ Len(s \o SubSeq(m, 1, n)) = Len(s) + n
           /\ \A p \in 1..Len(s) : (s \o SubSeq(m, 1, n))[p] = s[p]
           /\ \A p \in 1..n : (s \o SubSeq(m, 1, n))[Len(s) + p] = m[p]
           /\ SubSeq(m, n + 1, Len(m)) \in Seq(S)
           /\ Len(SubSeq(m, n + 1, Len(m))) = Len(m) - n
           /\ \A p \in 1..(Len(m) - n) : SubSeq(m, n + 1, Len(m))[p] = m[n + p]
<1> DEFINE a == SubSeq(m, 1, n)
           b == SubSeq(m, n + 1, Len(m))
<1>1. a \in Seq(S) /\ Len(a) = n /\ \A p \in 1..n : a[p] = m[p]
  BY ElementOfSeq
<1>2. b \in Seq(S) /\ Len(b) = Len(m) - n /\ \A p \in 1..(Len(m) - n) : b[p] = m[n + p]
  <2>1. \A i \in (n + 1)..Len(m) : m[i] \in S
    BY ElementOfSeq
  <2>2. /\ b \in Seq(S)
        /\ Len(b) = IF n + 1 <= Len(m) THEN Len(m) - (n + 1) + 1 ELSE 0
        /\ \A p \in 1..(Len(m) - (n + 1) + 1) : b[p] = m[n + 1 + p - 1]
    BY <2>1, SubSeqProperties
  <2> HIDE DEF b
  <2> QED
    BY <2>2
<1> HIDE DEF a, b
<1>3. /\ s \o a \in Seq(S) /\ Len(s \o a) = Len(s) + n
      /\ \A i \in 1 .. Len(s) + Len(a) : (s \o a)[i] =
                     IF i <= Len(s) THEN s[i] ELSE a[i - Len(s)]
  BY <1>1, ConcatProperties
<1>4. \A p \in 1..Len(s) : (s \o a)[p] = s[p]
  BY <1>1, <1>3
<1>5. \A p \in 1..n : (s \o a)[Len(s) + p] = m[p]
  BY <1>1, <1>3
<1> QED
  BY <1>2, <1>3, <1>4, <1>5 DEF a, b

LEMMA LastFront ==
    ASSUME NEW S, NEW s \in Seq(S), s # <<>>
    PROVE  /\ Last(s) \in S
           /\ Front(s) \in Seq(S)
           /\ Len(Front(s)) = Len(s) - 1
<1>1. Len(s) \in 1..Len(s)
  BY EmptySeq
<1>2. Last(s) \in S
  BY <1>1, ElementOfSeq DEF Last
<1>3. \A i \in 1..(Len(s) - 1) : s[i] \in S
  BY ElementOfSeq
<1> DEFINE n == Len(s) - 1
<1>4. n \in Nat
  BY <1>1
<1> HIDE DEF n
<1>5. SubSeq(s, 1, n) \in Seq(S) /\ Len(SubSeq(s, 1, n)) = IF 1 <= n THEN n - 1 + 1 ELSE 0
  BY <1>3, <1>4, SubSeqProperties DEF n
<1>6. Len(SubSeq(s, 1, n)) = n
  BY <1>4, <1>5
<1> QED
  BY <1>2, <1>5, <1>6 DEF Front, n

LEMMA LastAppend ==
    ASSUME NEW S, NEW s \in Seq(S), NEW e \in S
    PROVE  /\ Append(s, e) \in Seq(S)
           /\ Append(s, e) # <<>>
           /\ Last(Append(s, e)) = e
BY DEF Last

----------------------------------------------------------------------------
(* The states of a goroutine.                                              *)

LEMMA Fields ==
    ASSUME NEW f \in Fetcher
    PROVE  /\ f.pc \in Pcs /\ f.i \in Nat /\ f.j \in Nat /\ f.tries \in 0..MaxTries
           /\ f.cur \in Tx \cup {NoTx} /\ f.trans \in Seq(Tx) /\ f.frames \in Seq(Frame)
           /\ f.out \in Seq(Reports)
BY DEF Fetcher, Pcs, Reports

LEMMA SetPc ==
    ASSUME NEW f \in Fetcher, NEW p \in Pcs
    PROVE  LET r == [f EXCEPT !.pc = p] IN
           /\ r \in Fetcher
           /\ r.pc = p /\ r.i = f.i /\ r.j = f.j /\ r.tries = f.tries /\ r.cur = f.cur
           /\ r.trans = f.trans /\ r.frames = f.frames /\ r.out = f.out
BY DEF Fetcher, Pcs

LEMMA SetPcTries ==
    ASSUME NEW f \in Fetcher, NEW p \in Pcs
    PROVE  LET r == [f EXCEPT !.pc = p, !.tries = 0] IN
           /\ r \in Fetcher
           /\ r.pc = p /\ r.i = f.i /\ r.j = f.j /\ r.cur = f.cur
           /\ r.trans = f.trans /\ r.frames = f.frames /\ r.out = f.out
<1>1. 0 \in 0..MaxTries
  BY DEF MaxTries
<1> QED
  BY <1>1 DEF Fetcher, Pcs

LEMMA NextTry ==
    ASSUME NEW f \in Fetcher, f.tries < MaxTries
    PROVE  LET r == [f EXCEPT !.tries = @ + 1] IN
           /\ r \in Fetcher
           /\ r.pc = f.pc /\ r.i = f.i /\ r.j = f.j /\ r.cur = f.cur
           /\ r.trans = f.trans /\ r.frames = f.frames /\ r.out = f.out
<1>1. f.tries + 1 \in 0..MaxTries
  BY Fields DEF MaxTries
<1> DEFINE t == f.tries + 1
<1> HIDE DEF t
<1>2. LET r == [f EXCEPT !.tries = t] IN
           /\ r \in Fetcher
           /\ r.pc = f.pc /\ r.i = f.i /\ r.j = f.j /\ r.cur = f.cur
           /\ r.trans = f.trans /\ r.frames = f.frames /\ r.out = f.out
  BY <1>1 DEF Fetcher, t
<1> QED
  BY <1>2 DEF t

LEMMA SetOut ==
    ASSUME NEW f \in Fetcher, NEW m \in Seq(Reports)
    PROVE  LET r == [f EXCEPT !.out = m] IN
           /\ r \in Fetcher
           /\ r.pc = f.pc /\ r.i = f.i /\ r.j = f.j /\ r.tries = f.tries /\ r.cur = f.cur
           /\ r.trans = f.trans /\ r.frames = f.frames /\ r.out = m
BY DEF Fetcher, Reports

LEMMA NextFields ==
    ASSUME NEW f \in Fetcher
    PROVE  /\ Next1(f) \in Fetcher
           /\ Next1(f).pc = "next" /\ Next1(f).i = f.i + 1 /\ Next1(f).j = f.j
           /\ Next1(f).cur = f.cur /\ Next1(f).trans = f.trans /\ Next1(f).frames = f.frames
<1>1. f.i + 1 \in Nat
  BY Fields
<1> DEFINE n == f.i + 1
<1> HIDE DEF n
<1>2. LET r == [f EXCEPT !.i = n, !.pc = "next"] IN
           /\ r \in Fetcher
           /\ r.pc = "next" /\ r.i = n /\ r.j = f.j
           /\ r.cur = f.cur /\ r.trans = f.trans /\ r.frames = f.frames
  BY <1>1 DEF Fetcher, n
<1> QED
  BY <1>2 DEF n, Next1

LEMMA MemberFields ==
    ASSUME NEW f \in Fetcher
    PROVE  /\ Next2(f) \in Fetcher
           /\ Next2(f).pc = "member" /\ Next2(f).i = f.i /\ Next2(f).j = f.j + 1
           /\ Next2(f).cur = f.cur /\ Next2(f).trans = f.trans /\ Next2(f).frames = f.frames
<1>1. f.j + 1 \in Nat
  BY Fields
<1> DEFINE n == f.j + 1
<1> HIDE DEF n
<1>2. LET r == [f EXCEPT !.j = n, !.pc = "member"] IN
           /\ r \in Fetcher
           /\ r.pc = "member" /\ r.i = f.i /\ r.j = n
           /\ r.cur = f.cur /\ r.trans = f.trans /\ r.frames = f.frames
  BY <1>1 DEF Fetcher, n
<1> QED
  BY <1>2 DEF n, Next2

LEMMA WithFields ==
    ASSUME NEW f \in Fetcher, NEW t \in Tx
    PROVE  LET r == Next2With(f, t) IN
           /\ r \in Fetcher
           /\ r.pc = "member" /\ r.i = f.i /\ r.j = f.j + 1
           /\ r.cur = f.cur /\ r.trans = Append(f.trans, t) /\ r.frames = f.frames
<1> DEFINE h == Next2(f)
<1>1. /\ h \in Fetcher
      /\ h.pc = "member" /\ h.i = f.i /\ h.j = f.j + 1
      /\ h.cur = f.cur /\ h.trans = f.trans /\ h.frames = f.frames
  BY MemberFields
<1> HIDE DEF h
<1>2. Append(h.trans, t) \in Seq(Tx)
  BY <1>1, Fields
<1> DEFINE s == Append(h.trans, t)
<1> HIDE DEF s
<1>3. LET r == [h EXCEPT !.trans = s] IN
           /\ r \in Fetcher
           /\ r.pc = h.pc /\ r.i = h.i /\ r.j = h.j
           /\ r.cur = h.cur /\ r.trans = s /\ r.frames = h.frames
  BY <1>1, <1>2 DEF Fetcher, s
<1> QED
  BY <1>1, <1>3 DEF h, s, Next2With

LEMMA InnerTx == Inner \subseteq Tx /\ \A t \in Inner : KindOf[t] \in {"agg", "funds"}
BY DEF Inner

\* Where fetchAggTxData goes after it has put an AggTx into the slice.
LEMMA DescendFields ==
    ASSUME Types, NEW g \in Calls, NEW f \in Fetcher, NEW a \in Tx
    PROVE  LET r == Descend(g, f, a) IN
           /\ r \in Fetcher
           /\ r.trans = f.trans
           /\ ~ job[g].init => r.pc = "member" /\ r.i = f.i /\ r.j = 1 /\ r.cur = a
           /\ job[g].init => /\ r.j = f.j
                             /\ \/ r.pc = "next" /\ r.i = f.i + 1
                                \/ r.pc = "frame" /\ r.i = f.i /\ r.frames # <<>>
<1>1. CASE ~ job[g].init
  <2>1. LET r == [f EXCEPT !.pc = "member", !.j = 1, !.cur = a] IN
           /\ r \in Fetcher
           /\ r.trans = f.trans
           /\ r.pc = "member" /\ r.i = f.i /\ r.j = 1 /\ r.cur = a
    BY DEF Fetcher
  <2> QED
    BY <1>1, <2>1 DEF Descend
<1>2. CASE job[g].init /\ a \in Aggregated
  BY <1>2, NextFields DEF Descend
<1>3. CASE job[g].init /\ a \notin Aggregated
  <2> DEFINE s == <<[todo |-> Members[a], acc |-> <<>>, err |-> FALSE]>>
  <2>1. Members[a] \in Seq(Inner)
    BY TxFetchAssumption
  <2>2. [todo |-> Members[a], acc |-> <<>>, err |-> FALSE] \in Frame
    BY <2>1 DEF Frame
  <2>3. s \in Seq(Frame) /\ s # <<>>
    BY <2>2
  <2> HIDE DEF s
  <2>4. LET r == [f EXCEPT !.pc = "frame", !.frames = s] IN
           /\ r \in Fetcher
           /\ r.trans = f.trans /\ r.j = f.j /\ r.pc = "frame" /\ r.i = f.i /\ r.frames = s
    BY <2>3 DEF Fetcher
  <2> QED
    BY <1>3, <2>3, <2>4 DEF Descend, s
<1> QED
  BY <1>1, <1>2, <1>3

\* One turn of fetchFundsTxRecursively.
LEMMA HandleFields ==
    ASSUME NEW f \in Fetcher, f.frames # <<>>, Last(f.frames).todo # <<>>,
           NEW t \in Tx
    PROVE  LET r == Handle(f, t) IN
           /\ r \in Fetcher
           /\ r.pc = "frame" /\ r.i = f.i /\ r.j = f.j /\ r.trans = f.trans
           /\ r.frames # <<>>
<1> DEFINE here == [Last(f.frames) EXCEPT !.todo = Tail(@)]
           low == Front(f.frames)
           new == [todo |-> Members[t], acc |-> <<>>, err |-> FALSE]
           paid == [here EXCEPT !.acc = Append(@, t)]
<1>1. f.frames \in Seq(Frame)
  BY Fields
<1>2. Last(f.frames) \in Frame /\ low \in Seq(Frame)
  BY <1>1, LastFront
<1> DEFINE top == Last(f.frames)
<1> HIDE DEF top
<1>3. Tail(top.todo) \in Seq(Inner)
  BY <1>2, HeadTailProperties DEF top, Frame
<1> DEFINE rest == Tail(top.todo)
<1> HIDE DEF rest
<1>4. [top EXCEPT !.todo = rest] \in Frame
  BY <1>2, <1>3 DEF top, rest, Frame
<1>5. here \in Frame
  BY <1>4 DEF top, rest
<1>6. new \in Frame
  BY TxFetchAssumption DEF Frame
<1> HIDE DEF low, here
<1>7. paid \in Frame
  <2>1. Append(here.acc, t) \in Seq(Tx)
    BY <1>5 DEF Frame
  <2> DEFINE more == Append(here.acc, t)
  <2> HIDE DEF more
  <2>2. [here EXCEPT !.acc = more] \in Frame
    BY <1>5, <2>1 DEF Frame, more
  <2> QED
    BY <2>2 DEF more
<1> HIDE DEF new, paid
<1> DEFINE s == IF KindOf[t] = "agg" THEN Append(Append(low, here), new) ELSE Append(low, paid)
<1>8. s \in Seq(Frame) /\ s # <<>>
  <2>1. Append(low, here) \in Seq(Frame)
    BY <1>2, <1>5, LastAppend
  <2> DEFINE u == Append(low, here)
  <2> HIDE DEF u
  <2>2. Append(u, new) \in Seq(Frame) /\ Append(u, new) # <<>>
    BY <2>1, <1>6, LastAppend DEF u
  <2>3. Append(low, paid) \in Seq(Frame) /\ Append(low, paid) # <<>>
    BY <1>2, <1>7, LastAppend
  <2> QED
    BY <2>2, <2>3 DEF u
<1> HIDE DEF s
<1>9. LET r == [f EXCEPT !.pc = "frame", !.frames = s] IN
           /\ r \in Fetcher
           /\ r.pc = "frame" /\ r.i = f.i /\ r.j = f.j /\ r.trans = f.trans
           /\ r.frames = s
  BY <1>8 DEF Fetcher
<1>10. Handle(f, t) = [f EXCEPT !.pc = "frame", !.frames = s]
  <2>1. CASE KindOf[t] = "agg"
    <3>1. s = Append(Append(Front(f.frames), here), new)
      BY <2>1 DEF s, low
    <3> QED
      BY <2>1, <3>1 DEF Handle, Top, here, new
  <2>2. CASE KindOf[t] # "agg"
    <3>1. s = Append(Front(f.frames), paid)
      BY <2>2 DEF s, low
    <3> QED
      BY <2>2, <3>1 DEF Handle, Top, here, paid
  <2> QED
    BY <2>1, <2>2
<1> QED
  BY <1>8, <1>9, <1>10

LEMMA KindsFinite == IsFiniteSet(Kinds) /\ nrOfChannels \in Nat
<1>1. /\ IsFiniteSet({"acc"}) /\ IsFiniteSet({"funds"}) /\ IsFiniteSet({"config"})
      /\ IsFiniteSet({"stake"}) /\ IsFiniteSet({"update"}) /\ IsFiniteSet({"agg"})
  BY FS_Singleton
<1>2. IsFiniteSet({"acc"} \cup {"funds"})
  BY <1>1, FS_Union
<1>3. IsFiniteSet(({"acc"} \cup {"funds"}) \cup {"config"})
  BY <1>1, <1>2, FS_Union
<1>4. IsFiniteSet((({"acc"} \cup {"funds"}) \cup {"config"}) \cup {"stake"})
  BY <1>1, <1>3, FS_Union
<1>5. IsFiniteSet(((({"acc"} \cup {"funds"}) \cup {"config"}) \cup {"stake"}) \cup {"update"})
  BY <1>1, <1>4, FS_Union
<1>6. IsFiniteSet((((({"acc"} \cup {"funds"}) \cup {"config"}) \cup {"stake"}) \cup {"update"})
                    \cup {"agg"})
  BY <1>1, <1>5, FS_Union
<1>7. Kinds = (((({"acc"} \cup {"funds"}) \cup {"config"}) \cup {"stake"}) \cup {"update"})
                    \cup {"agg"}
  BY DEF Kinds
<1>8. IsFiniteSet(Kinds)
  BY <1>6, <1>7
<1> QED
  BY <1>8, FS_CardinalityType DEF nrOfChannels

\* What a step of goroutine <<g, k>> does to the goroutines and to errChan, n
\* of its messages m having found room.
Effect(g, k, f, m, n) ==
    LET r == fetch'[g][k] IN
    /\ fetch' \in [Calls -> [Kinds -> Fetcher]]
    /\ r.pc = f.pc /\ r.i = f.i /\ r.j = f.j /\ r.cur = f.cur /\ r.trans = f.trans
    /\ r.frames = f.frames
    /\ r.out \in Seq(Reports)
    /\ Len(r.out) = Len(m) - n
    /\ \A p \in 1..(Len(m) - n) : r.out[p] = m[n + p]
    /\ \A h \in Calls, l \in Kinds : (h # g \/ l # k) => fetch'[h][l] = fetch[h][l]
    /\ errs' \in [Calls -> Seq(Reports)]
    /\ Len(errs'[g]) = Len(errs[g]) + n
    /\ \A p \in 1..Len(errs[g]) : errs'[g][p] = errs[g][p]
    /\ \A p \in 1..n : errs'[g][Len(errs[g]) + p] = m[p]
    /\ Len(errs'[g]) <= nrOfChannels
    /\ \A h \in Calls : h # g => errs'[h] = errs[h]

LEMMA BecomesEffect ==
    ASSUME Types, CallInv, NEW g \in Calls, NEW k \in Kinds, NEW f \in Fetcher,
           NEW m \in Seq(Reports), Becomes(g, k, f, m)
    PROVE  \E n \in 0..Len(m) : Effect(g, k, f, m, n)
<1> DEFINE n == Fit(g, m)
<1>1. n \in 0..Len(m) /\ Len(errs[g]) + n <= nrOfChannels
  <2>1. Len(errs[g]) \in Nat /\ Len(m) \in Nat /\ Len(errs[g]) <= nrOfChannels
    BY DEF Types, CallInv
  <2> DEFINE a == Len(errs[g])
             b == Len(m)
  <2>2. n = IF b < nrOfChannels - a THEN b ELSE nrOfChannels - a
    BY DEF Fit
  <2>3. nrOfChannels \in Nat
    BY KindsFinite
  <2> HIDE DEF n, a, b
  <2>4. a \in Nat /\ b \in Nat /\ a <= nrOfChannels
    BY <2>1 DEF a, b
  <2>5. n \in 0..b /\ a + n <= nrOfChannels
    BY <2>2, <2>3, <2>4
  <2> QED
    BY <2>5 DEF a, b
<1>2. /\ fetch' = [fetch EXCEPT ![g][k] = [f EXCEPT !.out = SubSeq(m, n + 1, Len(m))]]
      /\ errs' = [errs EXCEPT ![g] = @ \o SubSeq(m, 1, n)]
  BY DEF Becomes
<1> HIDE DEF n
<1> DEFINE r == [f EXCEPT !.out = SubSeq(m, n + 1, Len(m))]
           e == errs[g] \o SubSeq(m, 1, n)
           u == SubSeq(m, n + 1, Len(m))
<1>3. /\ e \in Seq(Reports) /\ Len(e) = Len(errs[g]) + n
      /\ \A p \in 1..Len(errs[g]) : e[p] = errs[g][p]
      /\ \A p \in 1..n : e[Len(errs[g]) + p] = m[p]
      /\ u \in Seq(Reports)
      /\ Len(u) = Len(m) - n
      /\ \A p \in 1..(Len(m) - n) : u[p] = m[n + p]
  BY <1>1, Sending, SMTT(30) DEF Types
<1>4. /\ r \in Fetcher
      /\ r.pc = f.pc /\ r.i = f.i /\ r.j = f.j /\ r.cur = f.cur /\ r.trans = f.trans
      /\ r.frames = f.frames /\ r.out = u
  BY <1>3, SetOut
<1>5. fetch' = [fetch EXCEPT ![g][k] = r] /\ errs' = [errs EXCEPT ![g] = e]
  BY <1>2
<1> HIDE DEF r, e, u
<1>6. /\ fetch' \in [Calls -> [Kinds -> Fetcher]]
      /\ fetch'[g][k] = r
      /\ \A h \in Calls, l \in Kinds : (h # g \/ l # k) => fetch'[h][l] = fetch[h][l]
  BY <1>4, <1>5 DEF Types
<1>7. /\ errs' \in [Calls -> Seq(Reports)]
      /\ errs'[g] = e
      /\ \A h \in Calls : h # g => errs'[h] = errs[h]
  BY <1>3, <1>5 DEF Types
<1>8. Len(errs'[g]) = Len(errs[g]) + n /\ Len(errs'[g]) <= nrOfChannels
  BY <1>1, <1>3, <1>7
<1>9. Effect(g, k, f, m, n)
  BY <1>3, <1>4, <1>6, <1>7, <1>8 DEF Effect
<1> QED
  BY <1>1, <1>9

LEMMA CleanSame ==
    ASSUME NEW k, NEW jb, NEW cl, NEW f, NEW r, NEW s,
           r.pc = f.pc, r.i = f.i, r.j = f.j, r.cur = f.cur, r.trans = f.trans
    PROVE  Clean(k, jb, cl, r, s) <=> Clean(k, jb, cl, f, s)
<1>1. \A B : Filled(B, r, s) <=> Filled(B, f, s)
  BY DEF Filled
<1>2. \A x, y : Passed(r, x, y) <=> Passed(f, x, y)
  BY DEF Passed
<1>3. \A B : Paid(B, cl, r) <=> Paid(B, cl, f)
  BY <1>2 DEF Paid
<1> QED
  BY <1>1, <1>3 DEF Clean

LEMMA CleanMore ==
    ASSUME NEW k, NEW jb, NEW jb2, NEW cl, NEW cl2, NEW f, NEW s, cl \subseteq cl2,
           jb2.block = jb.block, jb2.init = jb.init,
           Clean(k, jb, cl, f, s)
    PROVE  Clean(k, jb2, cl2, f, s)
<1>1. Named(jb2, k) = Named(jb, k)
  BY DEF Named
<1>2. ASSUME NEW B, Paid(B, cl, f) PROVE Paid(B, cl2, f)
  BY <1>2 DEF Paid
<1> QED
  BY <1>1, <1>2 DEF Clean

LEMMA Numbers ==
    ASSUME Types
    PROVE  /\ main.gen \in Nat /\ main.cnt \in Nat /\ MaxFetches \in Nat
           /\ \A g \in Calls : g \in Nat /\ g > 0 /\ g <= MaxFetches
<1>1. main.gen \in Nat /\ main.cnt \in Nat
  BY DEF Types, Main
<1>2. MaxFetches \in Nat
  BY TxFetchAssumption
<1> QED
  BY <1>1, <1>2 DEF Calls

\* A goroutine that can go on belongs to a call that has begun.
LEMMA Begun ==
    ASSUME Types, CallInv, NEW g \in Calls, NEW k \in Kinds,
           fetch[g][k].pc # "done" \/ fetch[g][k].out # <<>>
    PROVE  g <= main.gen /\ job[g].block \in DOMAIN Blocks
<1>1. g \in Nat /\ main.gen \in Nat
  BY Numbers
<1>2. ~ (g > main.gen)
  BY DEF CallInv
<1> QED
  BY <1>1, <1>2 DEF CallInv

\* The reports of a step, and the slice.
Step(g, k, f, m) ==
    /\ Becomes(g, k, f, m)
    /\ UNCHANGED <<job, closed, main>>
    /\ \/ fetch[g][k].pc # "done" /\ fetch[g][k].out = <<>>
       \/ /\ f = fetch[g][k] /\ slots' = slots /\ funds' = funds
          /\ m = fetch[g][k].out /\ m # <<>>
    /\ Placed(k, job[g], f)
    /\ \A i \in 1..Len(m) : m[i] = "nil" => f.pc = "done" /\ i = Len(m)
    /\ slots' \in [Calls -> [Kinds -> Seq(Tx \cup {NoTx})]]
    /\ \A h \in Calls, l \in Kinds : (h # g \/ l # k) => slots'[h][l] = slots[h][l]
    /\ CleanNow(g, k) =>
          Clean(k, job[g], closed, f, slots'[g][k]) \/ \E i \in 1..Len(m) : m[i] = "err"
    /\ \/ funds' = funds
       \/ k = "agg" /\ f.pc = "done" /\ funds' = [funds EXCEPT ![g] = <<f.trans>>]

LEMMA StepPlaces ==
    ASSUME Types, CallInv, PlaceInv, NEW g \in Calls, NEW k \in Kinds, NEW f \in Fetcher,
           NEW m \in Seq(Reports), Step(g, k, f, m)
    PROVE  PlaceInv'
<1>0. PICK n \in 0..Len(m) : Effect(g, k, f, m, n)
  BY BecomesEffect DEF Step
<1>1. \A h \in Calls, l \in Kinds : (h # g \/ l # k) => fetch'[h][l] = fetch[h][l]
  BY <1>0 DEF Effect
<1> DEFINE r == fetch'[g][k]
<1>3. r.pc = f.pc /\ r.i = f.i /\ r.j = f.j /\ r.cur = f.cur /\ r.frames = f.frames
  BY <1>0 DEF Effect
<1> HIDE DEF r
<1>4. Placed(k, job[g], r)
  BY <1>3 DEF Step, Placed
<1>5. ASSUME NEW h \in Calls, NEW l \in Kinds PROVE Placed(l, job'[h], fetch'[h][l])
  BY <1>1, <1>4 DEF Step, PlaceInv, r
<1> QED
  BY <1>5 DEF PlaceInv

LEMMA StepOut ==
    ASSUME Types, CallInv, OutInv, NEW g \in Calls, NEW k \in Kinds, NEW f \in Fetcher,
           NEW m \in Seq(Reports), Step(g, k, f, m)
    PROVE  OutInv'
<1>0. PICK n \in 0..Len(m) : Effect(g, k, f, m, n)
  BY BecomesEffect DEF Step
<1> SUFFICES ASSUME NEW h \in Calls, NEW l \in Kinds, NEW i \in 1..Len(fetch'[h][l].out),
                    fetch'[h][l].out[i] = "nil"
             PROVE  fetch'[h][l].pc = "done" /\ i = Len(fetch'[h][l].out)
  BY DEF OutInv
<1>1. CASE h # g \/ l # k
  <2>1. fetch'[h][l] = fetch[h][l]
    BY <1>0, <1>1 DEF Effect
  <2> QED
    BY <2>1 DEF OutInv
<1>2. CASE h = g /\ l = k
  <2> DEFINE r == fetch'[g][k]
  <2>0. Len(m) \in Nat
    OBVIOUS
  <2>1. /\ r.pc = f.pc /\ Len(r.out) = Len(m) - n
        /\ \A p \in 1..(Len(m) - n) : r.out[p] = m[n + p]
    BY <1>0 DEF Effect
  <2> HIDE DEF r
  <2>2. i \in 1..(Len(m) - n) /\ r.out[i] = "nil"
    BY <1>2, <2>1 DEF r
  <2>3. n + i \in 1..Len(m) /\ m[n + i] = "nil"
    BY <2>0, <2>1, <2>2
  <2>4. f.pc = "done" /\ n + i = Len(m)
    BY <2>3 DEF Step
  <2>5. i = Len(m) - n
    BY <2>0, <2>1, <2>2, <2>4
  <2> QED
    BY <1>2, <2>1, <2>4, <2>5 DEF r
<1> QED
  BY <1>1, <1>2

LEMMA StepCalls ==
    ASSUME Types, CallInv, NEW g \in Calls, NEW k \in Kinds, NEW f \in Fetcher,
           NEW m \in Seq(Reports), Step(g, k, f, m)
    PROVE  CallInv'
<1>0. PICK n \in 0..Len(m) : Effect(g, k, f, m, n)
  BY BecomesEffect DEF Step
<1>1. /\ \A h \in Calls, l \in Kinds : (h # g \/ l # k) => fetch'[h][l] = fetch[h][l]
      /\ Len(errs'[g]) <= nrOfChannels
      /\ \A h \in Calls : h # g => errs'[h] = errs[h]
  BY <1>0 DEF Effect
<1>2. g <= main.gen
  BY Begun DEF Step
<1>3. \A h \in Calls : h # g => funds'[h] = funds[h]
  BY DEF Step, Types
<1>4. main' = main /\ job' = job
  BY DEF Step
<1>5. \A h \in Calls, l \in Kinds : (h # g \/ l # k) => slots'[h][l] = slots[h][l]
  BY DEF Step
<1>6. main.gen \in Nat /\ g \in Nat /\ ~(g > main.gen)
  BY <1>2, Numbers
<1>7. \A h \in Calls :
          /\ Len(errs'[h]) <= nrOfChannels
          /\ h <= main'.gen => job'[h].block \in DOMAIN Blocks
  BY <1>1, <1>4 DEF CallInv
<1>8. ASSUME NEW h \in Calls, h > main.gen
      PROVE  /\ job'[h].result = "none"
             /\ errs'[h] = <<>>
             /\ funds'[h] = <<>>
             /\ \A l \in Kinds : /\ fetch'[h][l].pc = "done"
                                 /\ fetch'[h][l].out = <<>>
                                 /\ slots'[h][l] = <<>>
  <2>1. h # g
    BY <1>6, <1>8
  <2> QED
    BY <1>1, <1>3, <1>4, <1>5, <1>8, <2>1 DEF CallInv
<1> QED
  BY <1>4, <1>7, <1>8 DEF CallInv

LEMMA StepOk ==
    ASSUME Types, CallInv, OkInv, NEW g \in Calls, NEW k \in Kinds, NEW f \in Fetcher,
           NEW m \in Seq(Reports), Step(g, k, f, m)
    PROVE  OkInv'
<1>0. PICK n \in 0..Len(m) : Effect(g, k, f, m, n)
  BY BecomesEffect DEF Step
<1>1. \A h \in Calls, l \in Kinds : (h # g \/ l # k) => fetch'[h][l] = fetch[h][l]
  BY <1>0 DEF Effect
<1> DEFINE r == fetch'[g][k]
<1>3. r.pc = f.pc /\ r.i = f.i /\ r.j = f.j /\ r.cur = f.cur /\ r.trans = f.trans
  BY <1>0 DEF Effect
<1> HIDE DEF r
<1>4. ASSUME NEW h \in Calls, job'[h].result = "ok", NEW l \in Kinds
      PROVE  fetch'[h][l].pc = "done" /\ Clean(l, job'[h], closed', fetch'[h][l], slots'[h][l])
  <2>1. job' = job /\ closed' = closed
    BY DEF Step
  <2>2. fetch[h][l].pc = "done" /\ Clean(l, job[h], closed, fetch[h][l], slots[h][l])
    BY <1>4, <2>1 DEF OkInv, CleanNow
  <2>3. CASE h # g \/ l # k
    BY <1>1, <2>1, <2>2, <2>3 DEF Step
  <2>4. CASE h = g /\ l = k
    <3>1. f = fetch[g][k] /\ slots' = slots
      BY <2>2, <2>4 DEF Step
    <3>2. Clean(k, job[g], closed, r, slots[g][k])
      BY <1>3, <2>2, <2>4, <3>1, CleanSame
    <3> QED
      BY <1>3, <2>1, <2>2, <2>4, <3>1, <3>2 DEF r
  <2> QED
    BY <2>3, <2>4
<1>5. ASSUME NEW h \in Calls, funds'[h] # <<>>
      PROVE  fetch'[h]["agg"].pc = "done" /\ funds'[h] = <<fetch'[h]["agg"].trans>>
  <2>0. "agg" \in Kinds
    BY DEF Kinds
  <2>1. CASE h # g
    <3>1. funds'[h] = funds[h]
      BY <2>1 DEF Step, Types
    <3> QED
      BY <1>1, <1>5, <2>0, <2>1, <3>1 DEF OkInv
  <2>2. CASE h = g /\ funds' = funds
    <3>1. fetch[g]["agg"].pc = "done" /\ funds[g] = <<fetch[g]["agg"].trans>>
      BY <1>5, <2>2 DEF OkInv
    <3>2. CASE k # "agg"
      BY <1>1, <2>0, <2>2, <3>1, <3>2
    <3>3. CASE k = "agg"
      <4>1. f = fetch[g][k]
        BY <3>1, <3>3 DEF Step
      <4> QED
        BY <1>3, <2>2, <3>1, <3>3, <4>1 DEF r
    <3> QED
      BY <3>2, <3>3
  <2>3. CASE h = g /\ k = "agg" /\ f.pc = "done" /\ funds' = [funds EXCEPT ![g] = <<f.trans>>]
    <3>1. funds'[g] = <<f.trans>>
      BY <2>3 DEF Types
    <3> QED
      BY <1>3, <2>3, <3>1 DEF r
  <2> QED
    BY <2>1, <2>2, <2>3 DEF Step
<1> QED
  BY <1>4, <1>5 DEF OkInv, CleanNow

\* The reports of a step keep their attribution: the new ones are k's.
LEMMA StepAttributed ==
    ASSUME Types, CallInv, NEW g \in Calls, NEW k \in Kinds, NEW f \in Fetcher,
           NEW m \in Seq(Reports), Step(g, k, f, m), NEW n \in 0..Len(m), Effect(g, k, f, m, n),
           NEW C \in SUBSET Kinds, NEW o \in Seq(Kinds), Attributed(g, C, o)
    PROVE  \E o2 \in Seq(Kinds) : Attributed(g, C, o2)'
<1> DEFINE w == [p \in 1..n |-> k]
           o2 == o \o w
           E == errs[g]
           E2 == errs'[g]
           r == fetch'[g][k]
<1>1. w \in Seq(Kinds) /\ Len(w) = n /\ \A p \in 1..n : w[p] = k
  <2>1. w \in [1..n -> Kinds] /\ n \in Nat
    OBVIOUS
  <2> QED
    BY <2>1
<1> HIDE DEF w
<1>2. /\ o2 \in Seq(Kinds) /\ Len(o2) = Len(o) + n
      /\ \A p \in 1..Len(o) : o2[p] = o[p]
      /\ \A p \in 1..n : o2[Len(o) + p] = k
  BY <1>1
<1> HIDE DEF o2
<1>3. Len(o) = Len(E) /\ Len(o) \in Nat /\ Len(m) \in Nat
  BY DEF Attributed, Types
<1>4. /\ Len(E2) = Len(E) + n
      /\ \A p \in 1..Len(E) : E2[p] = E[p]
      /\ \A p \in 1..n : E2[Len(E) + p] = m[p]
      /\ r.pc = f.pc /\ r.i = f.i /\ r.j = f.j /\ r.cur = f.cur /\ r.trans = f.trans
      /\ Len(r.out) = Len(m) - n
      /\ \A p \in 1..(Len(m) - n) : r.out[p] = m[n + p]
  BY DEF Effect
<1>5. \A l \in Kinds : l # k => fetch'[g][l] = fetch[g][l] /\ slots'[g][l] = slots[g][l]
  BY DEF Effect, Step
<1>6. job' = job /\ closed' = closed /\ main' = main
  BY DEF Step
<1>7. \A l \in Kinds : l # k =>
         (Clean(l, job'[g], closed', fetch'[g][l], slots'[g][l]) <=> CleanNow(g, l))
  BY <1>5, <1>6 DEF CleanNow
<1> DEFINE clean == Clean(k, job'[g], closed', fetch'[g][k], slots'[g][k])
<1>8. clean <=> Clean(k, job[g], closed, f, slots'[g][k])
  BY <1>4, <1>6, CleanSame
<1> HIDE DEF r, E, E2
<1>9. fetch[g][k].pc # "done" \/ fetch[g][k].out # <<>>
  BY DEF Step
<1>10. k \notin C
  BY <1>9 DEF Attributed
<1>11. \A p \in 1..Len(o) : E[p] = "nil" => o[p] # k
  BY <1>9 DEF Attributed, E
<1>12. \A p \in 1..Len(o2) :
          \/ p \in 1..Len(o) /\ o2[p] = o[p] /\ E2[p] = E[p]
          \/ \E q \in 1..n : p = Len(o) + q /\ o2[p] = k /\ E2[p] = m[q]
  <2> TAKE p \in 1..Len(o2)
  <2>1. p \in 1..Len(o) \/ \E q \in 1..n : p = Len(o) + q
    <3>1. p \in Nat /\ p > 0 /\ p <= Len(o) + n
      BY <1>2, <1>3
    <3>2. CASE p > Len(o)
      <4>1. p - Len(o) \in 1..n /\ p = Len(o) + (p - Len(o))
        BY <1>3, <3>1, <3>2
      <4> QED
        BY <4>1
    <3> QED
      BY <1>3, <3>1, <3>2
  <2>2. CASE p \in 1..Len(o)
    BY <1>2, <1>3, <1>4, <2>2
  <2>3. ASSUME NEW q \in 1..n, p = Len(o) + q
        PROVE  o2[p] = k /\ E2[p] = m[q]
    BY <1>2, <1>3, <1>4, <2>3
  <2> QED
    BY <2>1, <2>2, <2>3
<1>13. \A l \in C : /\ fetch'[g][l].pc = "done" /\ fetch'[g][l].out = <<>>
                    /\ Clean(l, job'[g], closed', fetch'[g][l], slots'[g][l])
                    /\ \A p \in 1..Len(o2) : o2[p] # l
  <2> TAKE l \in C
  <2>1. l \in Kinds /\ l # k
    BY <1>10
  <2>2. /\ fetch[g][l].pc = "done" /\ fetch[g][l].out = <<>>
        /\ CleanNow(g, l)
        /\ \A p \in 1..Len(o) : o[p] # l
    BY DEF Attributed
  <2>3. \A p \in 1..Len(o2) : o2[p] # l
    BY <1>12, <2>1, <2>2
  <2> QED
    BY <1>5, <1>7, <2>1, <2>2, <2>3
<1>14. ASSUME NEW l \in Kinds \ C
       PROVE  \/ Clean(l, job'[g], closed', fetch'[g][l], slots'[g][l])
              \/ \E i \in 1..Len(fetch'[g][l].out) : fetch'[g][l].out[i] = "err"
              \/ \E p \in 1..Len(o2) : o2[p] = l /\ E2[p] = "err"
  <2>1. \/ CleanNow(g, l)
        \/ \E i \in 1..Len(fetch[g][l].out) : fetch[g][l].out[i] = "err"
        \/ \E p \in 1..Len(o) : o[p] = l /\ E[p] = "err"
    BY DEF Attributed, E
  <2>2. ASSUME NEW p \in 1..Len(o), o[p] = l, E[p] = "err"
        PROVE  \E q \in 1..Len(o2) : o2[q] = l /\ E2[q] = "err"
    <3>1. p \in 1..Len(o2)
      BY <1>2, <1>3
    <3> QED
      BY <1>2, <1>3, <1>4, <2>2, <3>1 DEF E, E2
  <2>3. CASE l # k
    BY <1>5, <1>7, <2>1, <2>2, <2>3
  <2>4. CASE l = k
    <3>1. ASSUME NEW i \in 1..Len(m), m[i] = "err"
          PROVE  \/ \E j \in 1..Len(fetch'[g][k].out) : fetch'[g][k].out[j] = "err"
                 \/ \E p \in 1..Len(o2) : o2[p] = k /\ E2[p] = "err"
      <4>1. CASE i <= n
        <5>1. Len(o) + i \in 1..Len(o2) /\ i \in 1..n
          BY <1>2, <1>3, <4>1
        <5>2. o2[Len(o) + i] = k /\ E2[Len(o) + i] = "err"
          BY <1>2, <1>3, <1>4, <3>1, <5>1 DEF E, E2
        <5> QED
          BY <5>1, <5>2
      <4>2. CASE i > n
        <5>1. i - n \in 1..(Len(m) - n) /\ n + (i - n) = i
          BY <1>3, <4>2
        <5>2. r.out[i - n] = "err" /\ i - n \in 1..Len(r.out)
          BY <1>4, <3>1, <5>1
        <5> QED
          BY <5>2 DEF r
      <4> QED
        BY <1>3, <4>1, <4>2
    <3>2. CASE CleanNow(g, k)
      <4>1. clean \/ \E i \in 1..Len(m) : m[i] = "err"
        BY <1>8, <3>2 DEF Step
      <4> QED
        BY <2>4, <3>1, <4>1
    <3>3. CASE \E p \in 1..Len(o) : o[p] = k /\ E[p] = "err"
      BY <2>2, <2>4, <3>3
    <3>4. CASE \E i \in 1..Len(fetch[g][k].out) : fetch[g][k].out[i] = "err"
      <4>1. fetch[g][k].out # <<>>
        BY <3>4
      <4>2. m = fetch[g][k].out
        BY <4>1 DEF Step
      <4> QED
        BY <2>4, <3>1, <3>4, <4>2
    <3> QED
      BY <2>1, <2>4, <3>2, <3>3, <3>4
  <2> QED
    BY <2>3, <2>4
<1>15. ASSUME NEW p \in 1..Len(o2), E2[p] = "nil"
       PROVE  /\ fetch'[g][o2[p]].pc = "done" /\ fetch'[g][o2[p]].out = <<>>
              /\ \A q \in 1..Len(o2) : q > p => o2[q] # o2[p]
  <2>1. CASE p \in 1..Len(o) /\ o2[p] = o[p] /\ E2[p] = E[p]
    <3>1. o[p] # k /\ o[p] \in Kinds
      BY <1>11, <1>15, <2>1
    <3>2. /\ fetch[g][o[p]].pc = "done" /\ fetch[g][o[p]].out = <<>>
          /\ \A q \in 1..Len(o) : q > p => o[q] # o[p]
      BY <1>15, <2>1 DEF Attributed, E
    <3>3. \A q \in 1..Len(o2) : q > p => o2[q] # o2[p]
      BY <1>12, <2>1, <3>1, <3>2
    <3> QED
      BY <1>5, <2>1, <3>1, <3>2, <3>3
  <2>2. ASSUME NEW q \in 1..n, p = Len(o) + q, o2[p] = k, E2[p] = m[q]
        PROVE  /\ fetch'[g][o2[p]].pc = "done" /\ fetch'[g][o2[p]].out = <<>>
               /\ \A x \in 1..Len(o2) : x > p => o2[x] # o2[p]
    <3>1. q \in 1..Len(m) /\ m[q] = "nil"
      BY <1>3, <1>15, <2>2
    <3>2. f.pc = "done" /\ q = Len(m)
      BY <3>1 DEF Step
    <3>3. n = Len(m)
      BY <1>3, <3>2
    <3>4. r.out = <<>>
      <4>1. r.out \in Seq(Reports) /\ Len(r.out) = 0
        BY <1>3, <1>4, <3>3 DEF Effect, r
      <4> QED
        BY <4>1, EmptySeq
    <3>5. p = Len(o2)
      BY <1>2, <1>3, <2>2, <3>2, <3>3
    <3>6. \A x \in 1..Len(o2) : ~ (x > p)
      BY <1>2, <1>3, <3>5
    <3> QED
      BY <1>4, <2>2, <3>2, <3>4, <3>6 DEF r
  <2> QED
    BY <1>12, <2>1, <2>2
<1>17. Len(o2) = Len(E2) /\ Cardinality(C) = main'.cnt
  BY <1>2, <1>3, <1>4, <1>6 DEF Attributed, E, E2
<1>18. Attributed(g, C, o2)'
  BY <1>13, <1>14, <1>15, <1>17 DEF Attributed, CleanNow, E2
<1> QED
  BY <1>2, <1>18

LEMMA GenInCalls ==
    ASSUME Types, CallInv, main.pc \in {"collect", "gather", "fetched"}
    PROVE  main.gen \in Calls
<1>1. Len(main.calls) \in Nat
  BY DEF Types, Main
<1>2. main.gen > 0 /\ main.gen + Len(main.calls) <= MaxFetches
  BY DEF CallInv
<1>3. main.gen \in Nat /\ MaxFetches \in Nat
  BY Numbers
<1> QED
  BY <1>1, <1>2, <1>3 DEF Calls

\* A step that concerns neither the goroutines nor the reports of a call.
LEMMA AttributedKept ==
    ASSUME NEW h \in Calls, NEW C \in SUBSET Kinds, NEW o \in Seq(Kinds), Attributed(h, C, o),
           \A l \in Kinds : fetch'[h][l] = fetch[h][l] /\ slots'[h][l] = slots[h][l],
           errs'[h] = errs[h], job'[h].block = job[h].block, job'[h].init = job[h].init,
           closed \subseteq closed', main'.cnt = main.cnt
    PROVE  Attributed(h, C, o)'
<1>1. \A p \in 1..Len(o) : o[p] \in Kinds
  BY ElementOfSeq
<1>2. \A l \in Kinds :
          CleanNow(h, l) => Clean(l, job'[h], closed', fetch'[h][l], slots'[h][l])
  BY CleanMore DEF CleanNow
<1>3. /\ Len(o) = Len(errs'[h])
      /\ Cardinality(C) = main'.cnt
      /\ \A l \in C : /\ fetch'[h][l].pc = "done" /\ fetch'[h][l].out = <<>>
                      /\ Clean(l, job'[h], closed', fetch'[h][l], slots'[h][l])
                      /\ \A p \in 1..Len(o) : o[p] # l
  BY <1>2 DEF Attributed
<1>4. \A l \in Kinds \ C :
          \/ Clean(l, job'[h], closed', fetch'[h][l], slots'[h][l])
          \/ \E i \in 1..Len(fetch'[h][l].out) : fetch'[h][l].out[i] = "err"
          \/ \E p \in 1..Len(o) : o[p] = l /\ errs'[h][p] = "err"
  BY <1>2 DEF Attributed
<1>5. ASSUME NEW p \in 1..Len(o), errs'[h][p] = "nil"
      PROVE  /\ fetch'[h][o[p]].pc = "done" /\ fetch'[h][o[p]].out = <<>>
             /\ \A q \in 1..Len(o) : q > p => o[q] # o[p]
  BY <1>1, <1>5 DEF Attributed
<1> QED
  BY <1>3, <1>4, <1>5 DEF Attributed, CleanNow

LEMMA StepReports ==
    ASSUME Types, CallInv, ReportInv, NEW g \in Calls, NEW k \in Kinds, NEW f \in Fetcher,
           NEW m \in Seq(Reports), Step(g, k, f, m)
    PROVE  ReportInv'
<1>1. PICK n \in 0..Len(m) : Effect(g, k, f, m, n)
  BY BecomesEffect DEF Step
<1>2. main' = main /\ job' = job /\ closed' = closed
  BY DEF Step
<1> SUFFICES ASSUME main.pc \in {"collect", "gather"}
             PROVE  \E C \in SUBSET Kinds, o \in Seq(Kinds) : Attributed(main.gen, C, o)'
  BY <1>2 DEF ReportInv
<1>3. PICK C \in SUBSET Kinds, o \in Seq(Kinds) : Attributed(main.gen, C, o)
  BY DEF ReportInv
<1>4. CASE main.gen = g
  <2>1. PICK o2 \in Seq(Kinds) : Attributed(g, C, o2)'
    BY <1>1, <1>3, <1>4, StepAttributed
  <2>2. main'.gen = g
    BY <1>2, <1>4
  <2>3. Attributed(main.gen, C, o2)'
    BY <2>1, <2>2
  <2> QED
    BY <2>3
<1>5. CASE main.gen # g
  <2>1. main.gen \in Calls
    BY GenInCalls
  <2>2. ASSUME NEW h \in Calls, h = main.gen PROVE Attributed(h, C, o)'
    <3>1. /\ \A l \in Kinds : fetch'[h][l] = fetch[h][l] /\ slots'[h][l] = slots[h][l]
          /\ errs'[h] = errs[h]
      BY <1>1, <1>5, <2>2 DEF Effect, Step
    <3> QED
      BY <1>2, <1>3, <2>2, <3>1, AttributedKept
  <2>3. main'.gen = main.gen
    BY <1>2
  <2>4. \A h \in Calls : h = main.gen => Attributed(h, C, o)'
    BY <2>2
  <2>5. Attributed(main.gen, C, o)'
    BY <2>1, <2>3, <2>4
  <2> QED
    BY <2>5
<1> QED
  BY <1>4, <1>5

\* Everything that follows from Step.
LEMMA StepCore ==
    ASSUME Types, Core, NEW g \in Calls, NEW k \in Kinds, NEW f \in Fetcher,
           NEW m \in Seq(Reports), Step(g, k, f, m)
    PROVE  /\ Core'
           /\ job' = job /\ closed' = closed /\ main' = main
           /\ fetch' \in [Calls -> [Kinds -> Fetcher]]
           /\ errs' \in [Calls -> Seq(Reports)]
           /\ slots' \in [Calls -> [Kinds -> Seq(Tx \cup {NoTx})]]
           /\ funds' \in [Calls -> Seq(Seq(Tx))]
           /\ \A h \in Calls, l \in Kinds : (h # g \/ l # k) => fetch'[h][l] = fetch[h][l]
           /\ fetch'[g][k].pc = f.pc /\ fetch'[g][k].i = f.i /\ fetch'[g][k].j = f.j
           /\ fetch'[g][k].cur = f.cur /\ fetch'[g][k].frames = f.frames
<1>1. Core'
  BY StepCalls, StepPlaces, StepOut, StepReports, StepOk DEF Core
<1>2. PICK n \in 0..Len(m) : Effect(g, k, f, m, n)
  BY BecomesEffect DEF Step, Core
<1>3. funds' \in [Calls -> Seq(Seq(Tx))]
  <2>1. <<f.trans>> \in Seq(Seq(Tx))
    BY Fields
  <2> QED
    BY <2>1 DEF Step, Types
<1> QED
  BY <1>1, <1>2, <1>3 DEF Step, Effect

----------------------------------------------------------------------------
(* The channels and those who listen.                                      *)

LEMMA ListensFacts ==
    ASSUME NEW f, NEW k
    PROVE  /\ f.pc = "wait" => Listens(f, k) = {k}
           /\ f.pc \in {"mwait", "fwait"} => Listens(f, k) = {"agg", "funds"}
           /\ f.pc \notin {"wait", "mwait", "fwait"} => Listens(f, k) = {}
BY DEF Listens

LEMMA TogetherFacts ==
    ASSUME NEW c, NEW k
    PROVE  c \in Together(c) /\ (c \in Together(k) => Together(c) = Together(k))
BY DEF Together

LEMMA ListensTogether ==
    ASSUME NEW f, NEW k, NEW jb, Placed(k, jb, f)
    PROVE  Listens(f, k) \subseteq Together(k)
<1>1. f.pc \in {"mwait", "fwait"} => k = "agg"
  BY DEF Placed
<1> QED
  BY <1>1, ListensFacts DEF Together

LEMMA KindsFacts ==
    /\ Stashed \subseteq Kinds /\ "config" \in Kinds /\ "funds" \in Stashed /\ "agg" \in Stashed
    /\ \A k \in Kinds : k \notin Stashed => k = "config"
    /\ \A k \in Kinds : Together(k) \subseteq Kinds
BY DEF Stashed, Kinds, Together

Orderly(c) ==
    /\ \A g, h \in Calls, k, l \in Kinds :
          Hears(g, k, c) /\ Hears(h, l, c) => g = h /\ k = l
    /\ c = "funds" /\ prep # NoTx => \A g \in Calls, k \in Kinds : ~ Hears(g, k, c)
    /\ \A t \in Tx : KindOf[t] = c /\ UnderWay(t, c) => Awaited(t, c)

LEMMA AnswerOrderly == AnswerInv <=> \A c \in Stashed : Free(c) => Orderly(c)
BY DEF AnswerInv, Orderly

\* A channel where a step changes nothing that matters.
LEMMA OrderlyKept ==
    ASSUME NEW c \in Stashed, Orderly(c), prep' = prep \/ c # "funds",
           stash'[c] = stash[c], chan'[c] = chan[c],
           \A t \in Tx : KindOf[t] = c => replies'[t] = replies[t],
           \A h \in Calls, l \in Kinds :
              /\ c \in Listens(fetch'[h][l], l) <=> c \in Listens(fetch[h][l], l)
              /\ c \in Listens(fetch[h][l], l) =>
                    Want(l, job'[h], fetch'[h][l]) = Want(l, job[h], fetch[h][l])
    PROVE  Orderly(c)'
<1>1. \A h \in Calls, l \in Kinds : Hears(h, l, c)' <=> Hears(h, l, c)
  BY DEF Hears
<1>2. \A g, h \in Calls, k, l \in Kinds :
          Hears(g, k, c)' /\ Hears(h, l, c)' => g = h /\ k = l
  BY <1>1 DEF Orderly
<1>3. c = "funds" /\ prep' # NoTx => \A g \in Calls, k \in Kinds : ~ Hears(g, k, c)'
  BY <1>1 DEF Orderly
<1>4. ASSUME NEW t \in Tx, KindOf[t] = c, UnderWay(t, c)' PROVE Awaited(t, c)'
  <2>1. UnderWay(t, c)
    BY <1>4 DEF UnderWay
  <2>2. Awaited(t, c)
    BY <1>4, <2>1 DEF Orderly
  <2>3. CASE c = "funds" /\ prep = t
    BY <2>3 DEF Awaited
  <2>4. ASSUME NEW h \in Calls, NEW l \in Kinds, Hears(h, l, c), Want(l, job[h], fetch[h][l]) = t
        PROVE  Awaited(t, c)'
    BY <1>1, <2>4 DEF Awaited, Hears
  <2> QED
    BY <2>2, <2>3, <2>4 DEF Awaited
<1> QED
  BY <1>2, <1>3, <1>4 DEF Orderly

\* seen only grows.
LEMMA FreeBefore ==
    ASSUME NEW c, seen.loose \subseteq seen'.loose, seen.shared \subseteq seen'.shared, Free(c)'
    PROVE  Free(c)
BY DEF Free

LEMMA FiltersKept ==
    ASSUME StashFilters, seen.loose \subseteq seen'.loose, seen.shared \subseteq seen'.shared,
           \A k \in seen'.wrong : k \in seen.wrong \/ ~ Free(k)'
    PROVE  StashFilters'
BY DEF StashFilters, Free

\* A goroutine goes from one state where it does not listen to another.
LEMMA QuietStep ==
    ASSUME AnswerInv, StashFilters, NEW g \in Calls, NEW k \in Kinds,
           UNCHANGED <<job, stash, chan, replies, prep, seen>>,
           \A h \in Calls, l \in Kinds : (h # g \/ l # k) => fetch'[h][l] = fetch[h][l],
           Listens(fetch[g][k], k) = {}, Listens(fetch'[g][k], k) = {}
    PROVE  AnswerInv' /\ StashFilters'
<1>1. ASSUME NEW c \in Stashed, Free(c)' PROVE Orderly(c)'
  <2>1. Orderly(c)
    BY <1>1, FreeBefore, AnswerOrderly
  <2>2. \A h \in Calls, l \in Kinds :
              /\ c \in Listens(fetch'[h][l], l) <=> c \in Listens(fetch[h][l], l)
              /\ c \in Listens(fetch[h][l], l) =>
                    Want(l, job'[h], fetch'[h][l]) = Want(l, job[h], fetch[h][l])
    OBVIOUS
  <2> QED
    BY <2>1, <2>2, OrderlyKept
<1> QED
  BY <1>1, FiltersKept DEF AnswerInv, Orderly

\* A goroutine that has waited gives up, or waits once more.
LEMMA LeaveStep ==
    ASSUME Types, AnswerInv, StashFilters, NEW g \in Calls, NEW k \in Kinds,
           NEW cs \in SUBSET Kinds, cs \cap Together(k) # {},
           Leaves(cs), UNCHANGED <<job, stash, chan, prep>>,
           \A t \in Tx : KindOf[t] \notin Together(k) => replies'[t] = replies[t],
           \A h \in Calls, l \in Kinds : (h # g \/ l # k) => fetch'[h][l] = fetch[h][l],
           Listens(fetch[g][k], k) \subseteq Together(k),
           Listens(fetch'[g][k], k) \subseteq Together(k)
    PROVE  AnswerInv' /\ StashFilters' /\ seen' \in Seen
<1>1. /\ seen' \in Seen
      /\ seen'.loose = seen.loose \cup cs /\ seen'.shared = seen.shared
      /\ seen'.wrong = seen.wrong
  BY DEF Leaves, Types, Seen
<1>2. ASSUME NEW c \in Stashed, Free(c)' PROVE Orderly(c)'
  <2>1. Orderly(c)
    BY <1>1, <1>2, FreeBefore, AnswerOrderly
  <2>2. c \notin Together(k)
    <3>1. Together(c) \cap cs = {}
      BY <1>1, <1>2 DEF Free
    <3> QED
      BY <3>1, TogetherFacts
  <2>3. \A h \in Calls, l \in Kinds :
              /\ c \in Listens(fetch'[h][l], l) <=> c \in Listens(fetch[h][l], l)
              /\ c \in Listens(fetch[h][l], l) =>
                    Want(l, job'[h], fetch'[h][l]) = Want(l, job[h], fetch[h][l])
    <3> TAKE h \in Calls, l \in Kinds
    <3>1. CASE h # g \/ l # k
      BY <3>1
    <3>2. CASE h = g /\ l = k
      BY <2>2, <3>2
    <3> QED
      BY <3>1, <3>2
  <2>4. \A t \in Tx : KindOf[t] = c => replies'[t] = replies[t]
    BY <2>2
  <2> QED
    BY <2>1, <2>3, <2>4, OrderlyKept
<1> QED
  BY <1>1, <1>2, FiltersKept DEF AnswerInv, Orderly

LEMMA TxReqEffect ==
    ASSUME Types, NEW t \in Tx, TxReq(t)
    PROVE  /\ replies' \in [Tx -> 0..MaxReplies]
           /\ \A u \in Tx : u # t => replies'[u] = replies[u]
<1>1. PICK n \in 0..MaxReplies : replies' = [replies EXCEPT ![t] = IF n > @ THEN n ELSE @]
  BY DEF TxReq
<1> DEFINE v == IF n > replies[t] THEN n ELSE replies[t]
<1>2. v \in 0..MaxReplies
  BY DEF Types
<1>3. replies' = [replies EXCEPT ![t] = v]
  BY <1>1
<1> HIDE DEF v
<1> QED
  BY <1>2, <1>3 DEF Types

\* A goroutine asks for t and begins to listen.
LEMMA WaitStep ==
    ASSUME Types, AnswerInv, StashFilters, NEW g \in Calls, NEW k \in Kinds, NEW t \in Tx,
           NEW f, fetch'[g][k].pc = f.pc,
           UNCHANGED <<job, stash, chan, prep>>, TxReq(t),
           \A h \in Calls, l \in Kinds : (h # g \/ l # k) => fetch'[h][l] = fetch[h][l],
           Listens(fetch[g][k], k) = {}, Listens(f, k) \subseteq Kinds,
           KindOf[t] \in Listens(f, k),
           Want(k, job'[g], fetch'[g][k]) = t,
           seen' = [seen EXCEPT !.shared = @ \cup {c \in Listens(f, k) :
                       \/ c = "funds" /\ prep # NoTx
                       \/ \E h \in Calls, l \in Kinds :
                             (h # g \/ l # k) /\ c \in Listens(fetch[h][l], l)}]
    PROVE  AnswerInv' /\ StashFilters' /\ seen' \in Seen
<1> DEFINE new == {c \in Listens(f, k) :
                       \/ c = "funds" /\ prep # NoTx
                       \/ \E h \in Calls, l \in Kinds :
                             (h # g \/ l # k) /\ c \in Listens(fetch[h][l], l)}
<1>0. new \subseteq Kinds /\ seen' = [seen EXCEPT !.shared = @ \cup new]
  OBVIOUS
<1>1. /\ seen' \in Seen
      /\ seen'.loose = seen.loose /\ seen'.shared = seen.shared \cup new
      /\ seen'.wrong = seen.wrong
  <2> HIDE DEF new
  <2> QED
    BY <1>0 DEF Types, Seen
<1>2. Listens(fetch'[g][k], k) = Listens(f, k)
  BY DEF Listens
<1>3. ASSUME NEW c \in Stashed, Free(c)' PROVE Orderly(c)'
  <2>1. Orderly(c)
    BY <1>1, <1>3, FreeBefore, AnswerOrderly
  <2>2. c \notin new
    BY <1>1, <1>3, TogetherFacts DEF Free
  <2>3. \A h \in Calls, l \in Kinds : (h # g \/ l # k) => (Hears(h, l, c)' <=> Hears(h, l, c))
    BY DEF Hears
  <2>4. ~ Hears(g, k, c)
    BY DEF Hears
  <2>5. Hears(g, k, c)' => /\ ~ (c = "funds" /\ prep # NoTx)
                           /\ \A h \in Calls, l \in Kinds : (h # g \/ l # k) => ~ Hears(h, l, c)
    BY <1>2, <2>2 DEF Hears
  <2>6. \A h, i \in Calls, l, j \in Kinds :
          Hears(h, l, c)' /\ Hears(i, j, c)' => h = i /\ l = j
    BY <2>1, <2>3, <2>5 DEF Orderly
  <2>7. c = "funds" /\ prep' # NoTx => \A h \in Calls, l \in Kinds : ~ Hears(h, l, c)'
    BY <2>1, <2>3, <2>5 DEF Orderly
  <2>8. ASSUME NEW u \in Tx, KindOf[u] = c, UnderWay(u, c)' PROVE Awaited(u, c)'
    <3>1. CASE u = t
      <4>1. Hears(g, k, c)'
        BY <1>2, <2>8, <3>1 DEF Hears
      <4> QED
        BY <3>1, <4>1 DEF Awaited
    <3>2. CASE u # t
      <4>1. replies'[u] = replies[u]
        BY <3>2, TxReqEffect
      <4>2. UnderWay(u, c)
        BY <2>8, <4>1 DEF UnderWay
      <4>3. Awaited(u, c)
        BY <2>1, <2>8, <4>2 DEF Orderly
      <4>4. ASSUME NEW h \in Calls, NEW l \in Kinds, Hears(h, l, c),
                   Want(l, job[h], fetch[h][l]) = u
            PROVE  Awaited(u, c)'
        <5>1. h # g \/ l # k
          BY <2>4, <4>4
        <5> QED
          BY <2>3, <4>4, <5>1 DEF Awaited
      <4> QED
        BY <4>3, <4>4 DEF Awaited
    <3> QED
      BY <3>1, <3>2
  <2> QED
    BY <2>6, <2>7, <2>8 DEF Orderly
<1> QED
  BY <1>1, <1>3, FiltersKept DEF AnswerInv, Orderly

\* A receive from the channel of kind c.
LEMMA ReceiveEffect ==
    ASSUME Types, StashInv, NEW c \in Kinds, Receive(c)
    PROVE  /\ Head(chan[c]) \in Tx /\ KindOf[Head(chan[c])] = c
           /\ \E i \in 1..Len(chan[c]) : chan[c][i] = Head(chan[c])
           /\ chan' \in [Kinds -> Seq(Tx)] /\ stash' \in [Kinds -> Seq(Tx)]
           /\ StashInv'
           /\ \A d \in Kinds : d # c => chan'[d] = chan[d] /\ stash'[d] = stash[d]
           /\ c \in Stashed => chan'[c] = <<>>
           /\ Len(stash[c]) > StashMax \/ stash'[c] = stash[c]
           /\ c \in Stashed => \E j \in 1..Len(stash[c]) : stash[c][j] = Head(chan[c])
<1>1. chan[c] \in Seq(Tx) /\ chan[c] # <<>> /\ stash[c] \in Seq(Tx)
  BY DEF Types, Receive
<1>2. Head(chan[c]) = chan[c][1] /\ 1 \in 1..Len(chan[c]) /\ Head(chan[c]) \in Tx
  BY <1>1, EmptySeq, HeadTailProperties
<1>3. StashMax \in Nat
  BY TxFetchAssumption
<1> DEFINE rest == Tail(chan[c])
           left == IF Len(stash[c]) > StashMax THEN Tail(stash[c]) ELSE stash[c]
<1>4. /\ rest \in Seq(Tx) /\ Len(rest) = Len(chan[c]) - 1
      /\ \A i \in 1..Len(rest) : rest[i] = chan[c][i + 1]
  BY <1>1
<1>5. left \in Seq(Tx) /\ Len(left) <= StashMax
  <2>1. CASE Len(stash[c]) > StashMax
    <3>1. stash[c] # <<>> /\ Len(stash[c]) <= StashMax + 1 /\ Len(stash[c]) \in Nat
      BY <1>1, <1>3, <2>1 DEF StashInv
    <3>2. Tail(stash[c]) \in Seq(Tx) /\ Len(Tail(stash[c])) = Len(stash[c]) - 1
      BY <1>1, <3>1, HeadTailProperties
    <3> QED
      BY <1>3, <2>1, <3>1, <3>2
  <2>2. CASE ~(Len(stash[c]) > StashMax)
    BY <1>1, <1>3, <2>2
  <2> QED
    BY <2>1, <2>2
<1>6. chan' = [chan EXCEPT ![c] = rest] /\ stash' = [stash EXCEPT ![c] = left]
  <2>1. CASE Len(stash[c]) > StashMax
    BY <2>1 DEF Receive
  <2>2. CASE ~(Len(stash[c]) > StashMax)
    <3>1. [stash EXCEPT ![c] = left] = stash
      BY <2>2 DEF Types
    <3> QED
      BY <2>2, <3>1 DEF Receive
  <2> QED
    BY <2>1, <2>2
<1>7. Len(stash[c]) > StashMax \/ left = stash[c]
  OBVIOUS
<1> HIDE DEF rest, left
<1>8. /\ chan' \in [Kinds -> Seq(Tx)] /\ stash' \in [Kinds -> Seq(Tx)]
      /\ chan'[c] = rest /\ stash'[c] = left
      /\ \A d \in Kinds : d # c => chan'[d] = chan[d] /\ stash'[d] = stash[d]
  BY <1>4, <1>5, <1>6 DEF Types
<1>9. KindOf[Head(chan[c])] = c
  BY <1>2 DEF StashInv
<1>10. c \in Stashed => Len(chan[c]) <= 1 /\ rest = <<>>
  <2> SUFFICES ASSUME c \in Stashed PROVE Len(chan[c]) <= 1 /\ rest = <<>>
    OBVIOUS
  <2>1. Len(chan[c]) <= 1 /\ Len(chan[c]) \in Nat
    BY <1>1 DEF StashInv
  <2>2. Len(chan[c]) = 1
    <3>1. Len(chan[c]) \in Nat \ {0}
      BY <1>1, EmptySeq
    <3> DEFINE v == Len(chan[c])
    <3> HIDE DEF v
    <3>2. v \in Nat /\ v # 0 /\ v <= 1
      BY <2>1, <3>1 DEF v
    <3>3. v = 1
      BY <3>2
    <3> QED
      BY <3>3 DEF v
  <2>3. Len(rest) = 0
    BY <1>4, <2>2
  <2> QED
    BY <1>4, <2>1, <2>3, EmptySeq
<1>11. StashInv'
  <2>1. ASSUME NEW d \in Kinds
        PROVE  /\ \A i \in 1..Len(chan'[d]) : KindOf[chan'[d][i]] = d
               /\ Len(stash'[d]) <= StashMax + 1
    <3>1. CASE d # c
      BY <1>8, <3>1 DEF StashInv
    <3>2. CASE d = c
      <4>1. \A i \in 1..Len(rest) : KindOf[rest[i]] = c
        <5> TAKE i \in 1..Len(rest)
        <5>1. i + 1 \in 1..Len(chan[c])
          BY <1>1, <1>4
        <5> QED
          BY <1>4, <5>1 DEF StashInv
      <4>2. Len(left) <= StashMax + 1
        BY <1>3, <1>5
      <4> QED
        BY <1>8, <3>2, <4>1, <4>2
    <3> QED
      BY <3>1, <3>2
  <2>2. ASSUME NEW d \in Stashed
        PROVE  /\ Len(chan'[d]) <= 1
               /\ chan'[d] = <<>> => Len(stash'[d]) <= StashMax
               /\ \A i \in 1..Len(chan'[d]) :
                     \E j \in 1..Len(stash'[d]) : stash'[d][j] = chan'[d][i]
    <3>0. d \in Kinds
      BY KindsFacts
    <3>1. CASE d # c
      <4>1. chan'[d] = chan[d] /\ stash'[d] = stash[d]
        BY <1>8, <3>0, <3>1
      <4> QED
        BY <4>1 DEF StashInv
    <3>2. CASE d = c
      <4>1. chan'[d] = <<>> /\ Len(<<>>) = 0
        BY <1>8, <1>10, <3>2
      <4> QED
        BY <1>5, <1>8, <3>2, <4>1
    <3> QED
      BY <3>1, <3>2
  <2>3. stash'["config"] = <<>>
    <3>1. CASE c # "config"
      BY <1>8, <3>1, KindsFacts DEF StashInv
    <3>2. CASE c = "config"
      <4>1. stash[c] = <<>> /\ Len(stash[c]) = 0
        BY <3>2 DEF StashInv
      <4>2. left = <<>>
        BY <1>3, <1>7, <4>1
      <4> QED
        BY <1>8, <3>2, <4>2
    <3> QED
      BY <3>1, <3>2
  <2> QED
    BY <2>1, <2>2, <2>3 DEF StashInv
<1>12. c \in Stashed => \E j \in 1..Len(stash[c]) : stash[c][j] = Head(chan[c])
  BY <1>2 DEF StashInv
<1> QED
  BY <1>2, <1>7, <1>8, <1>9, <1>10, <1>11, <1>12

\* What Noted remembers of a receive.
LEMMA NotedEffect ==
    ASSUME Types, NEW c \in Kinds, NEW x, NEW want, Noted(x, want, c)
    PROVE  /\ seen' \in Seen
           /\ seen.loose \subseteq seen'.loose /\ seen'.shared = seen.shared
           /\ Len(stash[c]) > StashMax => c \in seen'.loose
           /\ x = want => seen'.wrong = seen.wrong
           /\ seen'.wrong \subseteq seen.wrong \cup {c}
<1> DEFINE w == IF x = want THEN seen.wrong ELSE seen.wrong \cup {c}
           b == IF Len(stash[c]) > StashMax THEN seen.loose \cup {c} ELSE seen.loose
<1>1. seen' = [seen EXCEPT !.wrong = w, !.loose = b]
  BY DEF Noted
<1>2. w \in SUBSET Kinds /\ b \in SUBSET Kinds
  BY DEF Types, Seen
<1>3. /\ seen.loose \subseteq b /\ (Len(stash[c]) > StashMax => c \in b)
      /\ x = want => w = seen.wrong
      /\ w \subseteq seen.wrong \cup {c}
  OBVIOUS
<1> HIDE DEF w, b
<1>4. seen' \in Seen /\ seen'.loose = b /\ seen'.shared = seen.shared /\ seen'.wrong = w
  BY <1>1, <1>2 DEF Types, Seen
<1> QED
  BY <1>3, <1>4

\* On a channel in order, a goroutine receives what it asked for; it stops
\* listening.
LEMMA TakeStep ==
    ASSUME Types, StashInv, AnswerInv, StashFilters, NEW g \in Calls, NEW k \in Kinds,
           NEW c \in Kinds, Receive(c), Hears(g, k, c),
           Noted(Head(chan[c]), Want(k, job[g], fetch[g][k]), c),
           UNCHANGED <<job, replies, prep>>,
           \A h \in Calls, l \in Kinds : (h # g \/ l # k) => fetch'[h][l] = fetch[h][l],
           Listens(fetch'[g][k], k) = {}
    PROVE  AnswerInv' /\ StashFilters' /\ seen' \in Seen
<1> DEFINE x == Head(chan[c])
           want == Want(k, job[g], fetch[g][k])
<1>1. /\ seen' \in Seen
      /\ seen.loose \subseteq seen'.loose /\ seen'.shared = seen.shared
      /\ Len(stash[c]) > StashMax => c \in seen'.loose
      /\ x = want => seen'.wrong = seen.wrong
      /\ seen'.wrong \subseteq seen.wrong \cup {c}
  BY NotedEffect
<1>2. /\ x \in Tx /\ KindOf[x] = c
      /\ \E i \in 1..Len(chan[c]) : chan[c][i] = x
      /\ \A d \in Kinds : d # c => chan'[d] = chan[d] /\ stash'[d] = stash[d]
      /\ c \in Stashed => chan'[c] = <<>>
      /\ Len(stash[c]) > StashMax \/ stash'[c] = stash[c]
      /\ c \in Stashed => \E j \in 1..Len(stash[c]) : stash[c][j] = x
  BY ReceiveEffect
<1> HIDE DEF x, want
<1>3. ASSUME c \in Stashed, Free(c) PROVE x = want
  <2>1. Orderly(c)
    BY <1>3, AnswerOrderly
  <2>2. Awaited(x, c)
    BY <1>2, <2>1 DEF Orderly, UnderWay
  <2>3. ASSUME NEW h \in Calls, NEW l \in Kinds, Hears(h, l, c),
               Want(l, job[h], fetch[h][l]) = x
        PROVE  x = want
    <3>1. h = g /\ l = k
      BY <2>1, <2>3 DEF Orderly
    <3> QED
      BY <2>3, <3>1 DEF want
  <2>4. ~ (c = "funds" /\ prep = x)
    <3>1. x # NoTx
      BY <1>2, TxFetchAssumption
    <3> QED
      BY <2>1, <3>1 DEF Orderly
  <2> QED
    BY <2>2, <2>3, <2>4 DEF Awaited
<1>4. ASSUME NEW d \in Stashed, Free(d)' PROVE Orderly(d)'
  <2>0. d \in Kinds
    BY KindsFacts
  <2>1. Orderly(d) /\ Free(d)
    BY <1>1, <1>4, FreeBefore, AnswerOrderly
  <2>2. \A h \in Calls, l \in Kinds : (h # g \/ l # k) => (Hears(h, l, d)' <=> Hears(h, l, d))
    BY DEF Hears
  <2>3. ~ Hears(g, k, d)'
    BY DEF Hears
  <2>4. \A h, i \in Calls, l, j \in Kinds :
          Hears(h, l, d)' /\ Hears(i, j, d)' => h = i /\ l = j
    BY <2>1, <2>2, <2>3 DEF Orderly
  <2>5. d = "funds" /\ prep' # NoTx => \A h \in Calls, l \in Kinds : ~ Hears(h, l, d)'
    BY <2>1, <2>2, <2>3 DEF Orderly
  <2>6. ASSUME NEW u \in Tx, KindOf[u] = d, UnderWay(u, d)' PROVE Awaited(u, d)'
    <3>1. UnderWay(u, d) /\ u # x
      <4>1. CASE d # c
        <5>1. chan'[d] = chan[d] /\ stash'[d] = stash[d] /\ replies' = replies
          BY <1>2, <2>0, <4>1
        <5> QED
          BY <1>2, <2>6, <4>1, <5>1 DEF UnderWay
      <4>2. CASE d = c
        <5>1. c \notin seen'.loose
          BY <1>4, <4>2, TogetherFacts DEF Free
        <5>2. stash'[c] = stash[c]
          BY <1>1, <1>2, <5>1
        <5>3. chan'[c] = <<>>
          BY <1>2, <4>2
        <5>4. replies[u] > 0 /\ \A j \in 1..Len(stash[c]) : stash[c][j] # u
          BY <2>6, <4>2, <5>2, <5>3 DEF UnderWay
        <5> QED
          BY <1>2, <4>2, <5>4 DEF UnderWay
      <4> QED
        BY <4>1, <4>2
    <3>2. Awaited(u, d)
      BY <2>1, <2>6, <3>1 DEF Orderly
    <3>3. ASSUME NEW h \in Calls, NEW l \in Kinds, Hears(h, l, d),
                 Want(l, job[h], fetch[h][l]) = u
          PROVE  Awaited(u, d)'
      <4>1. h # g \/ l # k
        <5> SUFFICES ASSUME h = g, l = k PROVE FALSE
          OBVIOUS
        <5>1. u = want
          BY <3>3 DEF want
        <5>2. d # c \/ x # want
          BY <3>1, <5>1
        <5>3. Free(c) => x = want \/ c \notin Stashed
          BY <1>3
        <5>4. Together(c) = Together(d) => Free(c)
          BY <2>1 DEF Free
        <5>5. Hears(g, k, d) /\ Hears(g, k, c)
          BY <3>3
        <5>6. Together(c) = Together(d)
          <6>1. CASE fetch[g][k].pc = "wait"
            <7>1. c = k /\ d = k
              BY <5>5, <6>1, ListensFacts DEF Hears
            <7> QED
              BY <7>1
          <6>2. CASE fetch[g][k].pc \in {"mwait", "fwait"}
            <7>1. c \in {"agg", "funds"} /\ d \in {"agg", "funds"}
              BY <5>5, <6>2, ListensFacts DEF Hears
            <7> QED
              BY <7>1 DEF Together
          <6>3. CASE fetch[g][k].pc \notin {"wait", "mwait", "fwait"}
            BY <5>5, <6>3, ListensFacts DEF Hears
          <6> QED
            BY <6>1, <6>2, <6>3
        <5>7. c \in Stashed
          BY <5>5, ListensFacts, KindsFacts DEF Hears
        <5> QED
          BY <3>1, <5>1, <5>3, <5>4, <5>6, <5>7
      <4> QED
        BY <2>2, <3>3, <4>1 DEF Awaited
    <3> QED
      BY <3>2, <3>3 DEF Awaited
  <2> QED
    BY <2>4, <2>5, <2>6 DEF Orderly
<1>5. StashFilters'
  <2>1. CASE seen'.wrong = seen.wrong
    BY <1>1, <2>1, FiltersKept
  <2>2. CASE c \notin Stashed
    BY <1>1, <2>2 DEF StashFilters
  <2>3. CASE c \in Stashed /\ x # want
    <3>1. ~ Free(c)
      BY <1>3, <2>3
    <3>2. ~ Free(c)'
      BY <1>1, <3>1, FreeBefore
    <3>3. \A d \in seen'.wrong : d \in seen.wrong \/ ~ Free(d)'
      BY <1>1, <3>2
    <3> QED
      BY <1>1, <3>3, FiltersKept
  <2> QED
    BY <1>1, <2>1, <2>2, <2>3
<1> QED
  BY <1>1, <1>4, <1>5 DEF AnswerInv, Orderly

----------------------------------------------------------------------------
(* The slices and the payments.                                            *)

LEMMA FillEffect ==
    ASSUME Types, NEW g \in Calls, NEW k \in Kinds, NEW x \in Tx \cup {NoTx}, Fill(g, k, x)
    PROVE  /\ slots' \in [Calls -> [Kinds -> Seq(Tx \cup {NoTx})]]
           /\ \A h \in Calls, l \in Kinds : (h # g \/ l # k) => slots'[h][l] = slots[h][l]
           /\ slots'[g][k] = Append(slots[g][k], x)
<1> DEFINE s == Append(slots[g][k], x)
<1>1. s \in Seq(Tx \cup {NoTx})
  BY DEF Types
<1>2. slots' = [slots EXCEPT ![g][k] = s]
  BY DEF Fill
<1> HIDE DEF s
<1>3. /\ slots' \in [Calls -> [Kinds -> Seq(Tx \cup {NoTx})]]
      /\ \A h \in Calls, l \in Kinds : (h # g \/ l # k) => slots'[h][l] = slots[h][l]
      /\ slots'[g][k] = s
  BY <1>1, <1>2 DEF Types
<1> QED
  BY <1>3 DEF s

LEMMA NamedType ==
    ASSUME NEW b \in DOMAIN Blocks, NEW k \in Kinds, NEW jb, jb.block = b
    PROVE  /\ Named(jb, k) \in Seq(Tx)
           /\ \A i \in 1..Len(Named(jb, k)) : /\ Named(jb, k)[i] \in Tx
                                             /\ KindOf[Named(jb, k)[i]] = k
<1>1. Blocks[b][k] \in Seq(Tx)
  BY TxFetchAssumption
<1>2. \A i \in 1..Len(Blocks[b][k]) : Blocks[b][k][i] \in Tx /\ KindOf[Blocks[b][k][i]] = k
  BY <1>1, ElementOfSeq, TxFetchAssumption
<1> QED
  BY <1>1, <1>2 DEF Named

Outer == {"next", "wait"}
Within == {"member", "mwait", "frame", "fwait"}

\* How the slice of a goroutine follows it.
LEMMA FilledSteps ==
    ASSUME NEW B \in Seq(Tx), NEW f, NEW r, NEW s, Filled(B, f, s), f.i \in Nat, f.i > 0
    PROVE  /\ f.pc \in Outer /\ r.pc \in Outer /\ r.i = f.i => Filled(B, r, s)
           /\ f.pc \in Outer /\ f.i <= Len(B) /\ r.pc = "next" /\ r.i = f.i + 1 =>
                 Filled(B, r, Append(s, B[f.i]))
           /\ f.pc \in Outer /\ f.i <= Len(B) /\ r.pc \in Within /\ r.i = f.i =>
                 Filled(B, r, Append(s, B[f.i]))
           /\ f.pc \in Within /\ r.pc \in Within /\ r.i = f.i => Filled(B, r, s)
           /\ f.pc \in Within /\ r.pc = "next" /\ r.i = f.i + 1 => Filled(B, r, s)
           /\ f.pc = "next" /\ f.i = Len(B) + 1 /\ r.pc = "done" => Filled(B, r, s)
<1>0. Len(B) \in Nat
  OBVIOUS
<1>1. f.pc \in Outer /\ r.pc \in Outer /\ r.i = f.i => Filled(B, r, s)
  BY DEF Filled, Outer
<1>2. ASSUME f.i <= Len(B), f.pc \in Outer PROVE Append(s, B[f.i]) = SubSeq(B, 1, f.i)
  <2>1. s = SubSeq(B, 1, f.i - 1)
    BY <1>2 DEF Filled, Outer
  <2>2. f.i \in 1..Len(B)
    BY <1>0, <1>2
  <2>3. \A i \in 1..Len(B) : Append(SubSeq(B, 1, i - 1), B[i]) = SubSeq(B, 1, i)
    BY PrefixFacts, Zenon
  <2>4. Append(SubSeq(B, 1, f.i - 1), B[f.i]) = SubSeq(B, 1, f.i)
    BY <2>2, <2>3, Zenon
  <2> QED
    BY <2>1, <2>4, Zenon
<1>3. f.pc \in Outer /\ f.i <= Len(B) /\ r.pc = "next" /\ r.i = f.i + 1 =>
                 Filled(B, r, Append(s, B[f.i]))
  <2> SUFFICES ASSUME f.pc \in Outer, f.i <= Len(B), r.pc = "next", r.i = f.i + 1
               PROVE  Filled(B, r, Append(s, B[f.i]))
    OBVIOUS
  <2>1. r.i - 1 = f.i
    OBVIOUS
  <2> QED
    BY <1>2, <2>1 DEF Filled
<1>4. f.pc \in Outer /\ f.i <= Len(B) /\ r.pc \in Within /\ r.i = f.i =>
                 Filled(B, r, Append(s, B[f.i]))
  BY <1>2 DEF Filled, Within
<1>5. f.pc \in Within /\ r.pc \in Within /\ r.i = f.i => Filled(B, r, s)
  BY DEF Filled, Within
<1>6. f.pc \in Within /\ r.pc = "next" /\ r.i = f.i + 1 => Filled(B, r, s)
  <2> SUFFICES ASSUME f.pc \in Within, r.pc = "next", r.i = f.i + 1 PROVE Filled(B, r, s)
    OBVIOUS
  <2>1. r.i - 1 = f.i
    OBVIOUS
  <2> QED
    BY <2>1 DEF Filled, Within
<1>7. f.pc = "next" /\ f.i = Len(B) + 1 /\ r.pc = "done" => Filled(B, r, s)
  <2> SUFFICES ASSUME f.pc = "next", f.i = Len(B) + 1, r.pc = "done" PROVE Filled(B, r, s)
    OBVIOUS
  <2>1. f.i - 1 = Len(B)
    BY <1>0
  <2>2. s = SubSeq(B, 1, Len(B))
    BY <2>1 DEF Filled
  <2>3. SubSeq(B, 1, Len(B)) = B
    BY SubSeqFull
  <2>4. s = B
    BY <2>2, <2>3, Zenon
  <2> QED
    BY <2>4 DEF Filled
<1> QED
  BY <1>1, <1>3, <1>4, <1>5, <1>6, <1>7

\* How the payments of the fetcher of AggTxs follow it between two AggTxs.
LEMMA PaidSteps ==
    ASSUME NEW B \in Seq(Tx), NEW cl, NEW f, NEW r, Paid(B, cl, f), f.i \in Nat, f.i > 0,
           r.trans = f.trans
    PROVE  /\ f.pc \in Outer /\ r.pc \in Outer /\ r.i = f.i => Paid(B, cl, r)
           /\ f.pc \in Outer /\ f.i <= Len(B) /\ r.pc = "member" /\ r.i = f.i /\ r.j = 1
                 /\ r.cur = B[f.i] => Paid(B, cl, r)
           /\ f.pc \in {"member", "mwait"} /\ r.pc \in {"member", "mwait"} /\ r.i = f.i
                 /\ r.j = f.j /\ r.cur = f.cur => Paid(B, cl, r)
           /\ f.pc = "member" /\ f.j \in Nat /\ f.j > Len(Members[f.cur]) /\ r.pc = "next"
                 /\ r.i = f.i + 1 => Paid(B, cl, r)
           /\ f.pc = "next" /\ f.i = Len(B) + 1 /\ r.pc = "done" => Paid(B, cl, r)
<1>0. Len(B) \in Nat /\ \A x \in 1..Len(B) : Members[B[x]] \in Seq(Inner)
  BY ElementOfSeq, TxFetchAssumption
<1>1. ASSUME r.pc \in {"member", "mwait"} => r.cur = B[r.i],
             \A x \in 1..Len(B) : \A y \in 1..Len(Members[B[x]]) :
                Passed(r, x, y) => Passed(f, x, y)
      PROVE  Paid(B, cl, r)
  BY <1>1 DEF Paid
<1>2. f.pc \in Outer /\ r.pc \in Outer /\ r.i = f.i => Paid(B, cl, r)
  BY <1>1 DEF Passed, Outer
<1>3. ASSUME f.pc \in Outer, f.i <= Len(B), r.pc = "member", r.i = f.i, r.j = 1, r.cur = B[f.i]
      PROVE  Paid(B, cl, r)
  <2>1. \A x \in 1..Len(B) : \A y \in 1..Len(Members[B[x]]) : Passed(r, x, y) => Passed(f, x, y)
    <3> TAKE x \in 1..Len(B)
    <3> TAKE y \in 1..Len(Members[B[x]])
    <3>1. y \in Nat /\ ~(y < 1)
      BY <1>0
    <3> QED
      BY <1>3, <3>1 DEF Passed
  <2> QED
    BY <1>1, <1>3, <2>1
<1>4. f.pc \in {"member", "mwait"} /\ r.pc \in {"member", "mwait"} /\ r.i = f.i
                 /\ r.j = f.j /\ r.cur = f.cur => Paid(B, cl, r)
  <2> SUFFICES ASSUME f.pc \in {"member", "mwait"}, r.pc \in {"member", "mwait"}, r.i = f.i,
                      r.j = f.j, r.cur = f.cur
               PROVE  Paid(B, cl, r)
    OBVIOUS
  <2>1. \A x, y : Passed(r, x, y) => Passed(f, x, y)
    BY DEF Passed
  <2> QED
    BY <1>1, <2>1 DEF Paid
<1>5. ASSUME f.pc = "member", f.j \in Nat, f.j > Len(Members[f.cur]), r.pc = "next",
             r.i = f.i + 1
      PROVE  Paid(B, cl, r)
  <2>1. \A x \in 1..Len(B) : \A y \in 1..Len(Members[B[x]]) : Passed(r, x, y) => Passed(f, x, y)
    <3> TAKE x \in 1..Len(B)
    <3> TAKE y \in 1..Len(Members[B[x]])
    <3> SUFFICES ASSUME Passed(r, x, y) PROVE Passed(f, x, y)
      OBVIOUS
    <3>1. x < f.i + 1
      BY <1>5 DEF Passed
    <3>2. CASE x < f.i
      BY <3>2 DEF Passed
    <3>3. CASE x = f.i
      <4>1. f.cur = B[x]
        BY <1>5, <3>3 DEF Paid
      <4>2. y < f.j
        BY <1>0, <1>5, <4>1
      <4> QED
        BY <1>5, <3>3, <4>2 DEF Passed
    <3> QED
      BY <3>1, <3>2, <3>3
  <2> QED
    BY <1>1, <1>5, <2>1
<1>6. ASSUME f.pc = "next", f.i = Len(B) + 1, r.pc = "done"
      PROVE  Paid(B, cl, r)
  <2>1. \A x \in 1..Len(B) : x < f.i
    BY <1>0, <1>6
  <2> QED
    BY <1>1, <1>6, <2>1 DEF Passed
<1> QED
  BY <1>2, <1>3, <1>4, <1>5, <1>6

\* One member further.
LEMMA PaidMember ==
    ASSUME NEW B \in Seq(Tx), NEW cl, NEW f, NEW r, Paid(B, cl, f), f.i \in 1..Len(B),
           f.pc \in {"member", "mwait"}, r.pc = "member", r.i = f.i, r.cur = f.cur,
           f.trans \in Seq(Tx),
           f.j \in 1..Len(Members[f.cur]), r.j = f.j + 1, NEW t, t = Members[f.cur][f.j],
           \/ r.trans = f.trans /\ (KindOf[t] # "funds" \/ t \in cl)
           \/ r.trans = Append(f.trans, t) /\ KindOf[t] = "funds" /\ t \in Tx
    PROVE  Paid(B, cl, r)
<1>0. Len(B) \in Nat /\ \A x \in 1..Len(B) : Members[B[x]] \in Seq(Inner)
  BY ElementOfSeq, TxFetchAssumption
<1>1. f.cur = B[f.i]
  BY DEF Paid
<1>2. /\ Len(f.trans) \in Nat /\ Len(r.trans) \in Nat /\ Len(f.trans) <= Len(r.trans)
      /\ \A n \in 1..Len(f.trans) : r.trans[n] = f.trans[n]
      /\ \A n \in 1..Len(r.trans) : n <= Len(f.trans) \/ (r.trans[n] = t /\ KindOf[t] = "funds")
  <2> DEFINE u == f.trans
             v == r.trans
  <2>1. u \in Seq(Tx) /\ (v = u \/ (v = Append(u, t) /\ KindOf[t] = "funds" /\ t \in Tx))
    BY Zenon
  <2> HIDE DEF u, v
  <2> SUFFICES /\ Len(u) \in Nat /\ Len(v) \in Nat /\ Len(u) <= Len(v)
               /\ \A n \in 1..Len(u) : v[n] = u[n]
               /\ \A n \in 1..Len(v) : n <= Len(u) \/ (v[n] = t /\ KindOf[t] = "funds")
    BY DEF u, v
  <2>2. CASE v = u
    <3>1. Len(u) \in Nat
      BY <2>1
    <3> QED
      BY <2>2, <3>1
  <2>3. CASE v = Append(u, t) /\ KindOf[t] = "funds" /\ t \in Tx
    <3>1. /\ Len(u) \in Nat /\ Len(v) = Len(u) + 1
          /\ \A n \in 1..Len(u) : v[n] = u[n]
          /\ v[Len(u) + 1] = t
      BY <2>1, <2>3, AppendProperties
    <3>2. \A n \in 1..Len(v) : n <= Len(u) \/ v[n] = t
      <4> TAKE n \in 1..Len(v)
      <4>1. n <= Len(u) \/ n = Len(u) + 1
        BY <3>1
      <4> QED
        BY <3>1, <4>1
    <3> QED
      BY <2>3, <3>1, <3>2
  <2> QED
    BY <2>1, <2>2, <2>3
<1>3. \A n \in 1..Len(r.trans) : \E x \in 1..Len(B) : \E y \in 1..Len(Members[B[x]]) :
          r.trans[n] = Members[B[x]][y] /\ KindOf[r.trans[n]] = "funds"
  <2> TAKE n \in 1..Len(r.trans)
  <2>1. CASE n <= Len(f.trans)
    <3>1. n \in 1..Len(f.trans)
      BY <1>2, <2>1
    <3>2. \E x \in 1..Len(B) : \E y \in 1..Len(Members[B[x]]) :
             f.trans[n] = Members[B[x]][y] /\ KindOf[f.trans[n]] = "funds"
      BY <3>1 DEF Paid
    <3> QED
      BY <1>2, <3>1, <3>2
  <2>2. CASE r.trans[n] = t /\ KindOf[t] = "funds"
    BY <1>1, <2>2
  <2> QED
    BY <1>2, <2>1, <2>2
<1>4. ASSUME NEW x \in 1..Len(B), NEW y \in 1..Len(Members[B[x]]), Passed(r, x, y),
             KindOf[Members[B[x]][y]] = "funds"
      PROVE  \/ Members[B[x]][y] \in cl
             \/ \E n \in 1..Len(r.trans) : r.trans[n] = Members[B[x]][y]
  <2>1. CASE Passed(f, x, y)
    <3>1. \/ Members[B[x]][y] \in cl
          \/ \E n \in 1..Len(f.trans) : f.trans[n] = Members[B[x]][y]
      BY <1>4, <2>1 DEF Paid
    <3>2. \A n \in 1..Len(f.trans) : n \in 1..Len(r.trans)
      BY <1>2
    <3> QED
      BY <1>2, <3>1, <3>2
  <2>2. CASE ~ Passed(f, x, y)
    <3>1. x = f.i /\ y \in Nat /\ y < f.j + 1 /\ ~ (y < f.j)
      BY <1>0, <1>4, <2>2 DEF Passed
    <3>2. y = f.j
      BY <3>1
    <3>3. Members[B[x]][y] = t
      BY <1>1, <3>1, <3>2
    <3>4. CASE r.trans = Append(f.trans, t)
      <4>1. r.trans[Len(f.trans) + 1] = t /\ Len(f.trans) + 1 \in 1..Len(r.trans)
        BY <3>4
      <4> QED
        BY <3>3, <4>1
    <3> QED
      BY <1>4, <3>3, <3>4
  <2> QED
    BY <2>1, <2>2
<1> QED
  BY <1>1, <1>3, <1>4 DEF Paid

----------------------------------------------------------------------------
(* The four ways a goroutine takes a step: apart from the channels, or as  *)
(* one that begins to listen, receives, or times out.                      *)

LEMMA QuietAction ==
    ASSUME IInv, NEW g \in Calls, NEW k \in Kinds, NEW f \in Fetcher, NEW m \in Seq(Reports),
           Step(g, k, f, m), UNCHANGED <<open, stash, chan, replies, prep, seen>>,
           \/ fetch[g][k].pc \notin {"wait", "mwait", "fwait"} /\ f.pc \notin {"wait", "mwait", "fwait"}
           \/ f = fetch[g][k]
    PROVE  IInv'
<1>1. Types /\ Core /\ Net
  BY DEF IInv
<1>2. /\ Core'
      /\ job' = job /\ closed' = closed /\ main' = main
      /\ fetch' \in [Calls -> [Kinds -> Fetcher]]
      /\ errs' \in [Calls -> Seq(Reports)]
      /\ slots' \in [Calls -> [Kinds -> Seq(Tx \cup {NoTx})]]
      /\ funds' \in [Calls -> Seq(Seq(Tx))]
      /\ \A h \in Calls, l \in Kinds : (h # g \/ l # k) => fetch'[h][l] = fetch[h][l]
      /\ fetch'[g][k].pc = f.pc /\ fetch'[g][k].i = f.i /\ fetch'[g][k].j = f.j
      /\ fetch'[g][k].cur = f.cur /\ fetch'[g][k].frames = f.frames
  BY <1>1, StepCore
<1>3. Types'
  BY <1>1, <1>2 DEF Types
<1>4. StashInv'
  BY <1>1 DEF Net, StashInv
<1>5. AnswerInv' /\ StashFilters'
  <2>1. CASE /\ fetch[g][k].pc \notin {"wait", "mwait", "fwait"}
             /\ f.pc \notin {"wait", "mwait", "fwait"}
    <3>1. Listens(fetch[g][k], k) = {} /\ Listens(fetch'[g][k], k) = {}
      BY <1>2, <2>1, ListensFacts
    <3> QED
      BY <1>1, <1>2, <3>1, QuietStep DEF Net
  <2>2. CASE f = fetch[g][k]
    <3>1. \A h \in Calls, l \in Kinds :
              /\ Listens(fetch'[h][l], l) = Listens(fetch[h][l], l)
              /\ Want(l, job'[h], fetch'[h][l]) = Want(l, job[h], fetch[h][l])
      <4> TAKE h \in Calls, l \in Kinds
      <4>1. CASE h # g \/ l # k
        BY <1>2, <4>1
      <4>2. CASE h = g /\ l = k
        BY <1>2, <2>2, <4>2 DEF Listens, Want
      <4> QED
        BY <4>1, <4>2
    <3>2. ASSUME NEW c \in Stashed, Free(c)' PROVE Orderly(c)'
      <4>1. Orderly(c)
        BY <1>1, <3>2, FreeBefore, AnswerOrderly DEF Net
      <4> QED
        BY <3>1, <4>1, OrderlyKept
    <3> QED
      BY <1>1, <3>2, FiltersKept DEF Net, AnswerInv, Orderly
  <2> QED
    BY <2>1, <2>2
<1> QED
  BY <1>2, <1>3, <1>4, <1>5 DEF IInv, Net

LEMMA LeaveAction ==
    ASSUME IInv, NEW g \in Calls, NEW k \in Kinds, NEW f \in Fetcher, NEW m \in Seq(Reports),
           Step(g, k, f, m), open' \in SUBSET Tx, UNCHANGED <<stash, chan, prep>>,
           NEW cs \in SUBSET Kinds, cs \cap Together(k) # {}, Leaves(cs),
           replies' = replies \/ \E t \in Tx : TxReq(t) /\ KindOf[t] \in Together(k)
    PROVE  IInv'
<1>1. Types /\ Core /\ Net
  BY DEF IInv
<1>2. /\ Core'
      /\ job' = job /\ closed' = closed /\ main' = main
      /\ fetch' \in [Calls -> [Kinds -> Fetcher]]
      /\ errs' \in [Calls -> Seq(Reports)]
      /\ slots' \in [Calls -> [Kinds -> Seq(Tx \cup {NoTx})]]
      /\ funds' \in [Calls -> Seq(Seq(Tx))]
      /\ \A h \in Calls, l \in Kinds : (h # g \/ l # k) => fetch'[h][l] = fetch[h][l]
  BY <1>1, StepCore
<1>3. /\ replies' \in [Tx -> 0..MaxReplies]
      /\ \A t \in Tx : KindOf[t] \notin Together(k) => replies'[t] = replies[t]
  <2>1. CASE replies' = replies
    BY <1>1, <2>1 DEF Types
  <2>2. ASSUME NEW t \in Tx, TxReq(t), KindOf[t] \in Together(k)
        PROVE  /\ replies' \in [Tx -> 0..MaxReplies]
               /\ \A u \in Tx : KindOf[u] \notin Together(k) => replies'[u] = replies[u]
    BY <1>1, <2>2, TxReqEffect
  <2> QED
    BY <2>1, <2>2
<1>4. Listens(fetch[g][k], k) \subseteq Together(k) /\ Listens(fetch'[g][k], k) \subseteq Together(k)
  BY <1>1, <1>2, ListensTogether DEF Core, PlaceInv
<1>5. AnswerInv' /\ StashFilters' /\ seen' \in Seen
  BY <1>1, <1>2, <1>3, <1>4, LeaveStep DEF Net
<1>6. Types'
  BY <1>1, <1>2, <1>3, <1>5 DEF Types
<1>7. StashInv'
  BY <1>1 DEF Net, StashInv
<1> QED
  BY <1>2, <1>5, <1>6, <1>7 DEF IInv, Net

LEMMA WaitAction ==
    ASSUME IInv, NEW g \in Calls, NEW k \in Kinds, NEW f \in Fetcher,
           Step(g, k, f, <<>>), UNCHANGED <<open, stash, chan, prep>>, Waits(g, k, f),
           fetch[g][k].pc \notin {"wait", "mwait", "fwait"},
           NEW t \in Tx, TxReq(t), Want(k, job[g], f) = t, KindOf[t] \in Listens(f, k)
    PROVE  IInv'
<1>1. Types /\ Core /\ Net
  BY DEF IInv
<1>2. /\ Core'
      /\ job' = job /\ closed' = closed /\ main' = main
      /\ fetch' \in [Calls -> [Kinds -> Fetcher]]
      /\ errs' \in [Calls -> Seq(Reports)]
      /\ slots' \in [Calls -> [Kinds -> Seq(Tx \cup {NoTx})]]
      /\ funds' \in [Calls -> Seq(Seq(Tx))]
      /\ \A h \in Calls, l \in Kinds : (h # g \/ l # k) => fetch'[h][l] = fetch[h][l]
      /\ fetch'[g][k].pc = f.pc /\ fetch'[g][k].i = f.i /\ fetch'[g][k].j = f.j
      /\ fetch'[g][k].cur = f.cur /\ fetch'[g][k].frames = f.frames
  BY <1>1, StepCore, EmptySeq
<1>3. replies' \in [Tx -> 0..MaxReplies]
  BY <1>1, TxReqEffect
<1>4. Want(k, job'[g], fetch'[g][k]) = t
  BY <1>2 DEF Want
<1>5. Listens(fetch[g][k], k) = {}
  BY ListensFacts
<1>6. Listens(f, k) \subseteq Kinds
  BY ListensTogether, KindsFacts DEF Step
<1>7. AnswerInv' /\ StashFilters' /\ seen' \in Seen
  BY <1>1, <1>2, <1>4, <1>5, <1>6, WaitStep DEF Net, Waits
<1>8. Types'
  BY <1>1, <1>2, <1>3, <1>7 DEF Types
<1>9. StashInv'
  BY <1>1 DEF Net, StashInv
<1> QED
  BY <1>2, <1>7, <1>8, <1>9 DEF IInv, Net

LEMMA TakeAction ==
    ASSUME IInv, NEW g \in Calls, NEW k \in Kinds, NEW f \in Fetcher, NEW m \in Seq(Reports),
           Step(g, k, f, m), open' \in SUBSET Tx, UNCHANGED <<replies, prep>>,
           NEW c \in Kinds, Receive(c), c \in Listens(fetch[g][k], k),
           Noted(Head(chan[c]), Want(k, job[g], fetch[g][k]), c),
           f.pc \notin {"wait", "mwait", "fwait"}
    PROVE  IInv'
<1>1. Types /\ Core /\ Net
  BY DEF IInv
<1>2. /\ Core'
      /\ job' = job /\ closed' = closed /\ main' = main
      /\ fetch' \in [Calls -> [Kinds -> Fetcher]]
      /\ errs' \in [Calls -> Seq(Reports)]
      /\ slots' \in [Calls -> [Kinds -> Seq(Tx \cup {NoTx})]]
      /\ funds' \in [Calls -> Seq(Seq(Tx))]
      /\ \A h \in Calls, l \in Kinds : (h # g \/ l # k) => fetch'[h][l] = fetch[h][l]
      /\ fetch'[g][k].pc = f.pc
  BY <1>1, StepCore
<1>3. /\ chan' \in [Kinds -> Seq(Tx)] /\ stash' \in [Kinds -> Seq(Tx)]
      /\ StashInv'
  BY <1>1, ReceiveEffect DEF Net
<1>4. Listens(fetch'[g][k], k) = {}
  BY <1>2, ListensFacts
<1>5. AnswerInv' /\ StashFilters' /\ seen' \in Seen
  BY <1>1, <1>2, <1>4, TakeStep DEF Net, Hears
<1>6. Types'
  BY <1>1, <1>2, <1>3, <1>5 DEF Types
<1> QED
  BY <1>2, <1>3, <1>5, <1>6 DEF IInv, Net

----------------------------------------------------------------------------
(* The plain fetchers.                                                     *)

LEMMA ReadyFacts ==
    ASSUME IInv, NEW g \in Calls, NEW k \in Kinds, NEW pc, Ready(g, k, pc), pc # "done"
    PROVE  /\ fetch[g][k] \in Fetcher
           /\ fetch[g][k].pc = pc /\ fetch[g][k].out = <<>>
           /\ fetch[g][k].i \in Nat /\ fetch[g][k].i > 0
           /\ fetch[g][k].j \in Nat /\ fetch[g][k].j > 0
           /\ job[g] \in Job
           /\ Named(job[g], k) \in Seq(Tx)
           /\ Placed(k, job[g], fetch[g][k])
           /\ Wanted(g, k) = Named(job[g], k)[fetch[g][k].i]
           /\ fetch[g][k].i <= Len(Named(job[g], k)) => /\ Wanted(g, k) \in Tx
                                                        /\ KindOf[Wanted(g, k)] = k
<1>1. Types /\ CallInv /\ PlaceInv
  BY DEF IInv, Core
<1>2. fetch[g][k] \in Fetcher /\ fetch[g][k].pc = pc /\ fetch[g][k].out = <<>>
  BY <1>1 DEF Types, Ready
<1>3. Placed(k, job[g], fetch[g][k])
  BY <1>1 DEF PlaceInv
<1>4. /\ fetch[g][k].i \in Nat /\ fetch[g][k].i > 0
      /\ fetch[g][k].j \in Nat /\ fetch[g][k].j > 0
  BY <1>2, <1>3, Fields DEF Placed
<1>5. job[g].block \in DOMAIN Blocks /\ job[g] \in Job
  BY <1>1, <1>2, Begun DEF Types
<1>6. /\ Named(job[g], k) \in Seq(Tx)
      /\ \A i \in 1..Len(Named(job[g], k)) : /\ Named(job[g], k)[i] \in Tx
                                             /\ KindOf[Named(job[g], k)[i]] = k
  BY <1>5, NamedType
<1>7. Wanted(g, k) = Named(job[g], k)[fetch[g][k].i]
  BY DEF Wanted, Named
<1>8. fetch[g][k].i <= Len(Named(job[g], k)) => fetch[g][k].i \in 1..Len(Named(job[g], k))
  BY <1>4, <1>6
<1> QED
  BY <1>2, <1>3, <1>4, <1>5, <1>6, <1>7, <1>8

Messages == {<<>>, <<"err">>, <<"err", "err">>}

LEMMA MessageFacts ==
    ASSUME NEW m \in Messages
    PROVE  /\ m \in Seq(Reports)
           /\ \A i \in 1..Len(m) : m[i] = "err"
           /\ m # <<>> => \E i \in 1..Len(m) : m[i] = "err"
<1>1. CASE m = <<>>
  BY <1>1 DEF Reports
<1>2. CASE m = <<"err">>
  BY <1>2 DEF Reports
<1>3. CASE m = <<"err", "err">>
  BY <1>3 DEF Reports
<1> QED
  BY <1>1, <1>2, <1>3 DEF Messages

LEMMA StepIntro ==
    ASSUME IInv, NEW g \in Calls, NEW k \in Kinds, NEW pc, Ready(g, k, pc), pc # "done",
           NEW f \in Fetcher, NEW m \in Messages, Becomes(g, k, f, m),
           UNCHANGED <<job, closed, main, funds>>, Placed(k, job[g], f),
           slots' \in [Calls -> [Kinds -> Seq(Tx \cup {NoTx})]],
           \A h \in Calls, l \in Kinds : (h # g \/ l # k) => slots'[h][l] = slots[h][l],
           CleanNow(g, k) /\ m = <<>> => Clean(k, job[g], closed, f, slots'[g][k])
    PROVE  Step(g, k, f, m) /\ m \in Seq(Reports)
<1>1. fetch[g][k].pc # "done" /\ fetch[g][k].out = <<>>
  BY ReadyFacts
<1>2. /\ m \in Seq(Reports)
      /\ \A i \in 1..Len(m) : m[i] = "nil" => f.pc = "done" /\ i = Len(m)
  BY MessageFacts
<1>3. CleanNow(g, k) => Clean(k, job[g], closed, f, slots'[g][k]) \/ \E i \in 1..Len(m) : m[i] = "err"
  BY MessageFacts
<1> QED
  BY <1>1, <1>2, <1>3 DEF Step

LEMMA ErrSendIInv ==
    ASSUME IInv, NEW g \in Calls, NEW k \in Kinds, ErrSend(g, k)
    PROVE  IInv'
<1> DEFINE f == fetch[g][k]
           m == fetch[g][k].out
<1>1. Types /\ CallInv /\ PlaceInv /\ ReportInv
  BY DEF IInv, Core
<1>2. f \in Fetcher /\ m \in Seq(Reports) /\ Placed(k, job[g], f)
  BY <1>1, Fields DEF Types, PlaceInv
<1>3. \A i \in 1..Len(m) : m[i] = "nil" => f.pc = "done" /\ i = Len(m)
  BY DEF IInv, Core, OutInv
<1>4. Step(g, k, f, m)
  <2>1. slots' = slots /\ funds' = funds /\ job' = job /\ closed' = closed /\ main' = main
    BY DEF ErrSend
  <2>2. CleanNow(g, k) => Clean(k, job[g], closed, f, slots'[g][k])
    BY <2>1 DEF CleanNow
  <2>3. Becomes(g, k, f, m) /\ m # <<>>
    BY DEF ErrSend
  <2> HIDE DEF f, m
  <2>4. f = fetch[g][k] /\ m = fetch[g][k].out
    BY DEF f, m
  <2> QED
    BY <1>1, <1>2, <1>3, <2>1, <2>2, <2>3, <2>4 DEF Step, Types
<1> QED
  BY <1>2, <1>4, QuietAction DEF ErrSend

LEMMA FinishIInv ==
    ASSUME IInv, NEW g \in Calls, NEW k \in Kinds, Finish(g, k)
    PROVE  IInv'
<1> DEFINE f == fetch[g][k]
           r == [f EXCEPT !.pc = "done"]
           B == Named(job[g], k)
           m == <<"nil">>
<1>1. /\ f \in Fetcher /\ f.pc = "next" /\ f.out = <<>> /\ f.i \in Nat /\ f.i > 0
      /\ f.j > 0 /\ B \in Seq(Tx) /\ Placed(k, job[g], f)
  BY ReadyFacts DEF Finish
<1>2. /\ r \in Fetcher
      /\ r.pc = "done" /\ r.i = f.i /\ r.j = f.j /\ r.trans = f.trans
  BY <1>1, SetPc DEF Pcs
<1>3. m \in Seq(Reports) /\ Len(m) = 1 /\ \A i \in 1..Len(m) : i = 1
  BY DEF Reports
<1>4. f.i = Len(B) + 1
  <2>1. f.i <= Len(B) + 1 /\ f.i > Len(B) /\ Len(B) \in Nat
    BY <1>1 DEF Placed, Finish, Named
  <2> QED
    BY <1>1, <2>1
<1>5. Becomes(g, k, r, m) /\ UNCHANGED <<closed, open, stash, chan, replies, job, slots, main, prep, seen>>
  BY DEF Finish
<1>6. \/ funds' = funds
      \/ k = "agg" /\ funds' = [funds EXCEPT ![g] = <<f.trans>>]
  BY DEF Finish
<1> HIDE DEF f, r, B, m
<1>7. CleanNow(g, k) => Clean(k, job[g], closed, r, slots'[g][k])
  <2> SUFFICES ASSUME CleanNow(g, k) PROVE Clean(k, job[g], closed, r, slots[g][k])
    BY <1>5
  <2>1. Filled(B, f, slots[g][k]) /\ (k = "agg" /\ ~ job[g].init => Paid(B, closed, f))
    BY DEF CleanNow, Clean, B, f
  <2>2. Filled(B, r, slots[g][k])
    BY <1>1, <1>2, <1>4, <2>1, FilledSteps
  <2>3. k = "agg" /\ ~ job[g].init => Paid(B, closed, r)
    BY <1>1, <1>2, <1>4, <2>1, PaidSteps
  <2> QED
    BY <2>2, <2>3 DEF Clean, B
<1>8. Placed(k, job[g], r)
  BY <1>1, <1>2 DEF Placed
<1>9. Step(g, k, r, m)
  <2>1. slots' \in [Calls -> [Kinds -> Seq(Tx \cup {NoTx})]] /\ slots' = slots
    BY <1>5 DEF IInv, Types
  <2>2. \/ funds' = funds
        \/ k = "agg" /\ r.pc = "done" /\ funds' = [funds EXCEPT ![g] = <<r.trans>>]
    BY <1>2, <1>6
  <2>3. fetch[g][k].pc # "done" /\ fetch[g][k].out = <<>>
    BY <1>1 DEF f
  <2> QED
    BY <1>2, <1>3, <1>5, <1>7, <1>8, <2>1, <2>2, <2>3 DEF Step
<1>10. fetch[g][k].pc \notin {"wait", "mwait", "fwait"} /\ r.pc \notin {"wait", "mwait", "fwait"}
  BY <1>1, <1>2 DEF f
<1> QED
  BY <1>2, <1>3, <1>5, <1>9, <1>10, QuietAction

\* The slice of a plain fetcher after one more transaction.
LEMMA PlainClean ==
    ASSUME NEW k, k # "agg", NEW jb, NEW cl, NEW f, NEW r, NEW s, Named(jb, k) \in Seq(Tx),
           f.i \in Nat, f.i > 0, f.pc \in Outer, Clean(k, jb, cl, f, s)
    PROVE  /\ f.i <= Len(Named(jb, k)) /\ r.pc = "next" /\ r.i = f.i + 1 =>
                 Clean(k, jb, cl, r, Append(s, Named(jb, k)[f.i]))
           /\ r.pc \in Outer /\ r.i = f.i => Clean(k, jb, cl, r, s)
<1> DEFINE B == Named(jb, k)
<1> HIDE DEF B
<1>1. B \in Seq(Tx) /\ Filled(B, f, s)
  BY DEF B, Clean
<1>2. f.i <= Len(B) /\ r.pc = "next" /\ r.i = f.i + 1 => Filled(B, r, Append(s, B[f.i]))
  BY <1>1, FilledSteps
<1>3. r.pc \in Outer /\ r.i = f.i => Filled(B, r, s)
  BY <1>1, FilledSteps
<1> QED
  BY <1>2, <1>3 DEF B, Clean

LEMMA NextPlaced ==
    ASSUME NEW k, NEW jb, NEW f \in Fetcher, Placed(k, jb, f), f.i <= Len(Named(jb, k)),
           Named(jb, k) \in Seq(Tx)
    PROVE  Placed(k, jb, Next1(f))
<1>1. /\ Next1(f).pc = "next" /\ Next1(f).i = f.i + 1 /\ Next1(f).j = f.j
      /\ f.i \in Nat /\ f.i > 0 /\ f.j > 0
  BY NextFields, Fields DEF Placed
<1> DEFINE n == Len(Named(jb, k))
           r == Next1(f)
<1>2. n \in Nat /\ f.i <= n
  OBVIOUS
<1> HIDE DEF n, r
<1>3. r.i > 0 /\ r.i <= n + 1
  BY <1>1, <1>2 DEF r
<1> QED
  BY <1>1, <1>3 DEF Placed, n, r

LEMMA DonePlaced ==
    ASSUME NEW k, NEW jb, NEW f \in Fetcher, Placed(k, jb, f)
    PROVE  Placed(k, jb, [f EXCEPT !.pc = "done"])
<1> DEFINE r == [f EXCEPT !.pc = "done"]
<1>1. r.pc = "done" /\ r.i = f.i /\ r.j = f.j
  BY SetPc DEF Pcs
<1> HIDE DEF r
<1>2. Placed(k, jb, r)
  BY <1>1 DEF Placed
<1> QED
  BY <1>2 DEF r

\* The goroutine ends, or goes on, after an error.
LEMMA DoneStep ==
    ASSUME IInv, NEW g \in Calls, NEW k \in Kinds, NEW pc, Ready(g, k, pc), pc # "done",
           Becomes(g, k, [fetch[g][k] EXCEPT !.pc = "done"], <<"err">>),
           UNCHANGED <<job, closed, main, funds, slots>>
    PROVE  /\ [fetch[g][k] EXCEPT !.pc = "done"] \in Fetcher
           /\ <<"err">> \in Seq(Reports)
           /\ Step(g, k, [fetch[g][k] EXCEPT !.pc = "done"], <<"err">>)
           /\ [fetch[g][k] EXCEPT !.pc = "done"].pc = "done"
<1> DEFINE r == [fetch[g][k] EXCEPT !.pc = "done"]
<1>1. fetch[g][k] \in Fetcher /\ Placed(k, job[g], fetch[g][k])
  BY ReadyFacts
<1>2. r \in Fetcher /\ Placed(k, job[g], r) /\ r.pc = "done"
  BY <1>1, SetPc, DonePlaced DEF Pcs
<1> HIDE DEF r
<1>3. slots' \in [Calls -> [Kinds -> Seq(Tx \cup {NoTx})]]
  BY DEF IInv, Types
<1>4. <<"err">> \in Messages /\ <<"err">> # <<>>
  BY DEF Messages
<1>5. Becomes(g, k, r, <<"err">>)
  BY DEF r
<1>6. Step(g, k, r, <<"err">>) /\ <<"err">> \in Seq(Reports)
  BY <1>2, <1>3, <1>4, <1>5, StepIntro
<1> QED
  BY <1>2, <1>6 DEF r

\* A plain goroutine puts x into its slice and goes to its next transaction.
LEMMA FillStep ==
    ASSUME IInv, NEW g \in Calls, NEW k \in Kinds, k # "agg", NEW pc \in Outer, Ready(g, k, pc),
           fetch[g][k].i <= Len(Named(job[g], k)), NEW x \in Tx \cup {NoTx}, Fill(g, k, x),
           NEW m \in Messages, x # Wanted(g, k) => m # <<>>,
           Becomes(g, k, Next1(fetch[g][k]), m), UNCHANGED <<job, closed, main, funds>>
    PROVE  /\ Next1(fetch[g][k]) \in Fetcher /\ Next1(fetch[g][k]).pc = "next"
           /\ m \in Seq(Reports)
           /\ Step(g, k, Next1(fetch[g][k]), m)
<1> DEFINE f == fetch[g][k]
           r == Next1(f)
<1>0. pc # "done"
  BY DEF Outer
<1>1. /\ f \in Fetcher /\ f.pc \in Outer /\ f.i \in Nat /\ f.i > 0
      /\ Named(job[g], k) \in Seq(Tx) /\ Placed(k, job[g], f)
      /\ Wanted(g, k) = Named(job[g], k)[f.i]
  BY <1>0, ReadyFacts
<1>2. r \in Fetcher /\ r.pc = "next" /\ r.i = f.i + 1
  BY <1>1, NextFields
<1>3. Placed(k, job[g], r)
  BY <1>1, NextPlaced
<1>4. /\ slots' \in [Calls -> [Kinds -> Seq(Tx \cup {NoTx})]]
      /\ \A h \in Calls, l \in Kinds : (h # g \/ l # k) => slots'[h][l] = slots[h][l]
      /\ slots'[g][k] = Append(slots[g][k], x)
  BY FillEffect DEF IInv
<1> HIDE DEF r
<1>5. CleanNow(g, k) /\ m = <<>> => Clean(k, job[g], closed, r, slots'[g][k])
  <2> SUFFICES ASSUME Clean(k, job[g], closed, f, slots[g][k]), x = Named(job[g], k)[f.i]
               PROVE  Clean(k, job[g], closed, r, Append(slots[g][k], x))
    BY <1>1, <1>4 DEF CleanNow
  <2> HIDE DEF f
  <2>1. f.i <= Len(Named(job[g], k))
    BY DEF f
  <2> QED
    BY <1>1, <1>2, <2>1, PlainClean
<1>6. Becomes(g, k, r, m)
  BY DEF r
<1> QED
  BY <1>0, <1>2, <1>3, <1>4, <1>5, <1>6, StepIntro DEF r

LEMMA LookIInv ==
    ASSUME IInv, NEW g \in Calls, NEW k \in Kinds, k # "agg", Look(g, k)
    PROVE  IInv'
<1> DEFINE t == Wanted(g, k)
<1>1. Ready(g, k, "next") /\ "next" \in Outer /\ fetch[g][k].i <= Len(Named(job[g], k))
  BY DEF Look, Named, Outer
<1>2. fetch[g][k].pc = "next" /\ t \in Tx
  BY <1>1, ReadyFacts
<1>3. UNCHANGED <<closed, open, stash, chan, replies, job, funds, main, prep, seen>>
  BY DEF Look
<1>4. \/ /\ Becomes(g, k, [fetch[g][k] EXCEPT !.pc = "done"], <<"err">>)
         /\ UNCHANGED slots
      \/ Becomes(g, k, Next1(fetch[g][k]), <<>>) /\ Fill(g, k, t)
  BY DEF Look
<1>5. CASE /\ Becomes(g, k, [fetch[g][k] EXCEPT !.pc = "done"], <<"err">>)
           /\ UNCHANGED slots
  <2> DEFINE r == [fetch[g][k] EXCEPT !.pc = "done"]
  <2>1. r \in Fetcher /\ <<"err">> \in Seq(Reports) /\ Step(g, k, r, <<"err">>) /\ r.pc = "done"
    BY <1>1, <1>3, <1>5, DoneStep
  <2> HIDE DEF r
  <2> QED
    BY <1>2, <1>3, <2>1, QuietAction
<1>6. CASE Becomes(g, k, Next1(fetch[g][k]), <<>>) /\ Fill(g, k, t)
  <2> DEFINE r == Next1(fetch[g][k])
  <2>1. <<>> \in Messages
    BY DEF Messages
  <2>2. r \in Fetcher /\ r.pc = "next" /\ <<>> \in Seq(Reports) /\ Step(g, k, r, <<>>)
    BY <1>1, <1>2, <1>3, <1>6, <2>1, FillStep
  <2> HIDE DEF r
  <2> QED
    BY <1>2, <1>3, <2>2, QuietAction
<1> QED
  BY <1>4, <1>5, <1>6

LEMMA RequestIInv ==
    ASSUME IInv, NEW g \in Calls, NEW k \in Kinds, k # "agg", Request(g, k)
    PROVE  IInv'
<1> DEFINE f == fetch[g][k]
           r == [f EXCEPT !.pc = "wait"]
           t == Wanted(g, k)
<1>1. Ready(g, k, "next") /\ f.i <= Len(Named(job[g], k))
  BY DEF Request, Named
<1>2. /\ f \in Fetcher /\ f.pc = "next" /\ f.i \in Nat /\ f.i > 0
      /\ Named(job[g], k) \in Seq(Tx) /\ Placed(k, job[g], f)
      /\ t = Named(job[g], k)[f.i] /\ t \in Tx /\ KindOf[t] = k
  BY <1>1, ReadyFacts
<1>3. r \in Fetcher /\ r.pc = "wait" /\ r.i = f.i /\ r.j = f.j
  BY <1>2, SetPc DEF Pcs
<1>4. /\ UNCHANGED <<closed, open, stash, chan, job, slots, funds, main, prep>>
      /\ TxReq(t) /\ Waits(g, k, r)
  BY DEF Request
<1> HIDE DEF f, r, t
<1>5. Becomes(g, k, r, <<>>) /\ <<>> \in Messages
  BY <1>4 DEF Waits, Messages
<1>6. Placed(k, job[g], r)
  BY <1>1, <1>2, <1>3 DEF Placed
<1>7. CleanNow(g, k) => Clean(k, job[g], closed, r, slots'[g][k])
  <2> SUFFICES ASSUME Clean(k, job[g], closed, f, slots[g][k])
               PROVE  Clean(k, job[g], closed, r, slots[g][k])
    BY <1>4 DEF CleanNow, f
  <2>1. f.pc \in Outer /\ r.pc \in Outer
    BY <1>2, <1>3 DEF Outer
  <2> QED
    BY <1>2, <1>3, <2>1, PlainClean
<1>8. slots' \in [Calls -> [Kinds -> Seq(Tx \cup {NoTx})]]
  BY <1>4 DEF IInv, Types
<1>9. Step(g, k, r, <<>>)
  BY <1>1, <1>3, <1>4, <1>5, <1>6, <1>7, <1>8, StepIntro
<1>10. Want(k, job[g], r) = t /\ KindOf[t] \in Listens(r, k)
  BY <1>2, <1>3, ListensFacts DEF Want
<1>11. fetch[g][k].pc \notin {"wait", "mwait", "fwait"}
  BY <1>2 DEF f
<1> QED
  BY <1>2, <1>3, <1>4, <1>9, <1>10, <1>11, WaitAction

LEMMA WaitFacts ==
    ASSUME IInv, NEW g \in Calls, NEW k \in Kinds, Ready(g, k, "wait")
    PROVE  /\ fetch[g][k] \in Fetcher /\ fetch[g][k].pc = "wait" /\ fetch[g][k].pc \in Outer
           /\ fetch[g][k].i <= Len(Named(job[g], k))
           /\ Wanted(g, k) \in Tx /\ KindOf[Wanted(g, k)] = k
           /\ Want(k, job[g], fetch[g][k]) = Wanted(g, k)
           /\ Listens(fetch[g][k], k) = {k}
           /\ k \in Together(k)
<1>1. /\ fetch[g][k] \in Fetcher /\ fetch[g][k].pc = "wait"
      /\ Placed(k, job[g], fetch[g][k]) /\ Wanted(g, k) = Named(job[g], k)[fetch[g][k].i]
  BY ReadyFacts
<1>2. fetch[g][k].i <= Len(Named(job[g], k))
  BY <1>1 DEF Placed
<1>3. Wanted(g, k) \in Tx /\ KindOf[Wanted(g, k)] = k
  BY <1>2, ReadyFacts
<1> QED
  BY <1>1, <1>2, <1>3, ListensFacts, TogetherFacts DEF Outer, Want

LEMMA TakeIInv ==
    ASSUME IInv, NEW g \in Calls, NEW k \in Kinds, k # "agg", Take(g, k)
    PROVE  IInv'
<1> DEFINE x == Head(chan[k])
           m == Report(x, Wanted(g, k))
           r == Next1(fetch[g][k])
<1>1. Ready(g, k, "wait") /\ "wait" \in Outer
  BY DEF Take, Outer
<1>2. x \in Tx
  <2>1. Receive(k)
    BY DEF Take
  <2> QED
    BY <2>1, ReceiveEffect DEF IInv, Net
<1>3. m \in Messages /\ (x # Wanted(g, k) => m # <<>>)
  BY DEF Report, Messages
<1>4. /\ Receive(k) /\ Fill(g, k, x) /\ Noted(x, Wanted(g, k), k)
      /\ Becomes(g, k, r, m) /\ UNCHANGED <<closed, replies, job, funds, main, prep>>
      /\ (open' = open \cup {x} \/ open' = open)
  BY DEF Take
<1>5. open' \in SUBSET Tx
  BY <1>2, <1>4 DEF IInv, Types
<1> HIDE DEF m, x
<1>6. r \in Fetcher /\ r.pc = "next" /\ m \in Seq(Reports) /\ Step(g, k, r, m)
  BY <1>1, <1>2, <1>3, <1>4, WaitFacts, FillStep
<1>7. Noted(Head(chan[k]), Want(k, job[g], fetch[g][k]), k) /\ k \in Listens(fetch[g][k], k)
  BY <1>1, <1>4, WaitFacts DEF x
<1> HIDE DEF r
<1> QED
  BY <1>4, <1>5, <1>6, <1>7, TakeAction

LEMMA GoOnWithNilIInv ==
    ASSUME IInv, NEW g \in Calls, NEW k \in Kinds, k # "agg", GoOnWithNil(g, k)
    PROVE  IInv'
<1> DEFINE m == <<"err", "err">>
           r == Next1(fetch[g][k])
<1>1. Ready(g, k, "wait") /\ "wait" \in Outer
  BY DEF GoOnWithNil, Outer
<1>2. /\ Becomes(g, k, r, m) /\ Fill(g, k, NoTx) /\ Leaves({k})
      /\ UNCHANGED <<closed, open, stash, chan, replies, job, funds, main, prep>>
  BY DEF GoOnWithNil
<1>3. m \in Messages /\ m # <<>>
  BY DEF Messages
<1> HIDE DEF m
<1>4. r \in Fetcher /\ m \in Seq(Reports) /\ Step(g, k, r, m)
  BY <1>1, <1>2, <1>3, WaitFacts, FillStep
<1>5. {k} \in SUBSET Kinds /\ {k} \cap Together(k) # {} /\ open' \in SUBSET Tx
  BY <1>1, <1>2, WaitFacts DEF IInv, Types
<1> HIDE DEF r
<1> QED
  BY <1>2, <1>4, <1>5, LeaveAction

LEMMA GiveUpIInv ==
    ASSUME IInv, NEW g \in Calls, NEW k \in Kinds, GiveUp(g, k)
    PROVE  IInv'
<1> DEFINE r == [fetch[g][k] EXCEPT !.pc = "done"]
<1>1. Ready(g, k, "wait")
  BY DEF GiveUp
<1>2. /\ Becomes(g, k, r, <<"err">>) /\ Leaves({k})
      /\ UNCHANGED <<closed, open, stash, chan, replies, job, slots, funds, main, prep>>
  BY DEF GiveUp
<1>3. r \in Fetcher /\ <<"err">> \in Seq(Reports) /\ Step(g, k, r, <<"err">>)
  BY <1>1, <1>2, DoneStep
<1>4. {k} \in SUBSET Kinds /\ {k} \cap Together(k) # {} /\ open' \in SUBSET Tx
  BY <1>1, <1>2, WaitFacts DEF IInv, Types
<1> HIDE DEF r
<1> QED
  BY <1>2, <1>3, <1>4, LeaveAction

LEMMA LookInStashIInv ==
    ASSUME IInv, NEW g \in Calls, LookInStash(g)
    PROVE  IInv'
<1> DEFINE r == Next1(fetch[g]["funds"])
           t == Wanted(g, "funds")
           k == "funds"
<1>0. k \in Kinds /\ k # "agg"
  BY DEF Kinds
<1>1. Ready(g, k, "wait") /\ "wait" \in Outer
  BY DEF LookInStash, Outer
<1>2. /\ Becomes(g, k, r, <<>>) /\ Leaves({k}) /\ Fill(g, k, t)
      /\ UNCHANGED <<closed, open, stash, chan, replies, job, funds, main, prep>>
  BY DEF LookInStash
<1>3. <<>> \in Messages
  BY DEF Messages
<1> HIDE DEF k
<1>4. t = Wanted(g, k) /\ r = Next1(fetch[g][k])
  BY DEF k
<1>5. {k} \in SUBSET Kinds /\ {k} \cap Together(k) # {} /\ open' \in SUBSET Tx /\ t \in Tx
  BY <1>0, <1>1, <1>2, <1>4, WaitFacts DEF IInv, Types
<1> HIDE DEF t, r
<1>6. r \in Fetcher /\ <<>> \in Seq(Reports) /\ Step(g, k, r, <<>>)
  BY <1>0, <1>1, <1>2, <1>3, <1>4, <1>5, WaitFacts, FillStep
<1> QED
  BY <1>0, <1>2, <1>5, <1>6, LeaveAction

----------------------------------------------------------------------------
(* The fetcher of AggTxs.                                                  *)

LEMMA AggKind == "agg" \in Kinds /\ "funds" \in Kinds
BY DEF Kinds

\* Its slice gets x, and it goes on to what x aggregates.
LEMMA DescendStep ==
    ASSUME IInv, NEW g \in Calls, NEW pc \in Outer, Ready(g, "agg", pc),
           fetch[g]["agg"].i <= Len(Named(job[g], "agg")), NEW x \in Tx, Fill(g, "agg", x),
           NEW m \in Messages, x # Wanted(g, "agg") => m # <<>>,
           Becomes(g, "agg", Descend(g, fetch[g]["agg"], x), m),
           UNCHANGED <<job, closed, main, funds>>
    PROVE  /\ Descend(g, fetch[g]["agg"], x) \in Fetcher
           /\ Descend(g, fetch[g]["agg"], x).pc \notin {"wait", "mwait", "fwait"}
           /\ m \in Seq(Reports)
           /\ Step(g, "agg", Descend(g, fetch[g]["agg"], x), m)
<1> DEFINE f == fetch[g]["agg"]
           r == Descend(g, f, x)
           B == Named(job[g], "agg")
<1>0. pc # "done"
  BY DEF Outer
<1>1. /\ f \in Fetcher /\ f.pc \in Outer /\ f.i \in Nat /\ f.i > 0 /\ f.j > 0
      /\ B \in Seq(Tx) /\ Placed("agg", job[g], f)
      /\ Wanted(g, "agg") = B[f.i] /\ job[g] \in Job
  BY <1>0, AggKind, ReadyFacts
<1>2. /\ r \in Fetcher
      /\ r.trans = f.trans
      /\ ~ job[g].init => r.pc = "member" /\ r.i = f.i /\ r.j = 1 /\ r.cur = x
      /\ job[g].init => /\ r.j = f.j
                        /\ \/ r.pc = "next" /\ r.i = f.i + 1
                           \/ r.pc = "frame" /\ r.i = f.i /\ r.frames # <<>>
  BY <1>1, DescendFields DEF IInv
<1>3. /\ slots' \in [Calls -> [Kinds -> Seq(Tx \cup {NoTx})]]
      /\ \A h \in Calls, l \in Kinds : (h # g \/ l # "agg") => slots'[h][l] = slots[h][l]
      /\ slots'[g]["agg"] = Append(slots[g]["agg"], x)
  BY AggKind, FillEffect DEF IInv
<1>4. f.i <= Len(B)
  OBVIOUS
<1>5. Becomes(g, "agg", r, m)
  OBVIOUS
<1> HIDE DEF r, f, B
<1>6. job[g].init \in BOOLEAN
  BY <1>1 DEF Job
<1>7. Placed("agg", job[g], r)
  <2> DEFINE n == Len(B)
  <2>1. n \in Nat /\ f.i <= n /\ Len(Named(job[g], "agg")) = n
    BY <1>1, <1>4 DEF B
  <2> HIDE DEF n
  <2>2. r.i > 0 /\ r.j > 0 /\ r.i <= n + 1 /\ (r.pc # "next" => r.i <= n)
    BY <1>1, <1>2, <1>6, <2>1
  <2> QED
    BY <1>2, <1>6, <2>1, <2>2 DEF Placed
<1>8. CleanNow(g, "agg") /\ m = <<>> => Clean("agg", job[g], closed, r, slots'[g]["agg"])
  <2> DEFINE s == slots[g]["agg"]
  <2> SUFFICES ASSUME Clean("agg", job[g], closed, f, s), x = B[f.i]
               PROVE  Clean("agg", job[g], closed, r, Append(s, x))
    BY <1>1, <1>3 DEF CleanNow, f
  <2> HIDE DEF s
  <2>1. Filled(B, f, s) /\ (~ job[g].init => Paid(B, closed, f))
    BY DEF Clean, B
  <2>2. (r.pc = "next" /\ r.i = f.i + 1) \/ (r.pc \in Within /\ r.i = f.i)
    BY <1>2, <1>6 DEF Within
  <2>3. Filled(B, r, Append(s, x))
    BY <1>1, <1>4, <2>1, <2>2, FilledSteps
  <2>4. ~ job[g].init => Paid(B, closed, r)
    BY <1>1, <1>2, <1>4, <2>1, PaidSteps
  <2> QED
    BY <2>3, <2>4 DEF Clean, B
<1>9. Step(g, "agg", r, m) /\ m \in Seq(Reports)
  BY <1>0, <1>2, <1>3, <1>5, <1>7, <1>8, AggKind, StepIntro
<1>10. r.pc \notin {"wait", "mwait", "fwait"}
  BY <1>2, <1>6
<1> QED
  BY <1>2, <1>9, <1>10 DEF r, f

LEMMA AggLookIInv ==
    ASSUME IInv, NEW g \in Calls, AggLook(g)
    PROVE  IInv'
<1> DEFINE t == Wanted(g, "agg")
           f == fetch[g]["agg"]
<1>1. Ready(g, "agg", "next") /\ "next" \in Outer /\ f.i <= Len(Named(job[g], "agg"))
  BY DEF AggLook, Named, Outer
<1>2. f.pc = "next" /\ t \in Tx
  BY <1>1, ReadyFacts, AggKind
<1>3. UNCHANGED <<closed, open, stash, chan, replies, job, funds, main, prep, seen>>
  BY DEF AggLook
<1>4. \/ /\ Becomes(g, "agg", [f EXCEPT !.pc = "done"], <<"err">>)
         /\ UNCHANGED slots
      \/ Becomes(g, "agg", Descend(g, f, t), <<>>) /\ Fill(g, "agg", t)
  BY DEF AggLook
<1>5. CASE /\ Becomes(g, "agg", [f EXCEPT !.pc = "done"], <<"err">>)
           /\ UNCHANGED slots
  <2> DEFINE r == [f EXCEPT !.pc = "done"]
  <2>1. r \in Fetcher /\ <<"err">> \in Seq(Reports) /\ Step(g, "agg", r, <<"err">>) /\ r.pc = "done"
    BY <1>1, <1>3, <1>5, DoneStep, AggKind
  <2> HIDE DEF r
  <2> QED
    BY <1>2, <1>3, <2>1, QuietAction, AggKind
<1>6. CASE Becomes(g, "agg", Descend(g, f, t), <<>>) /\ Fill(g, "agg", t)
  <2> DEFINE r == Descend(g, f, t)
  <2>1. <<>> \in Messages
    BY DEF Messages
  <2>2. /\ r \in Fetcher /\ r.pc \notin {"wait", "mwait", "fwait"}
        /\ <<>> \in Seq(Reports) /\ Step(g, "agg", r, <<>>)
    BY <1>1, <1>2, <1>3, <1>6, <2>1, DescendStep
  <2> HIDE DEF r
  <2> QED
    BY <1>2, <1>3, <2>2, QuietAction, AggKind
<1> QED
  BY <1>4, <1>5, <1>6

\* It goes on without a change to what it has: it waits, or asks once more.
LEMMA StayStep ==
    ASSUME IInv, NEW g \in Calls, NEW pc, Ready(g, "agg", pc), pc # "done", NEW r \in Fetcher,
           r.i = fetch[g]["agg"].i, r.j = fetch[g]["agg"].j, r.cur = fetch[g]["agg"].cur,
           r.trans = fetch[g]["agg"].trans,
           \/ pc \in Outer /\ r.pc \in Outer
           \/ pc \in Within /\ r.pc \in Within
              /\ (pc \in {"member", "mwait"} <=> r.pc \in {"member", "mwait"}),
           Placed("agg", job[g], r), Becomes(g, "agg", r, <<>>),
           UNCHANGED <<job, closed, main, funds, slots>>
    PROVE  Step(g, "agg", r, <<>>) /\ <<>> \in Seq(Reports)
<1> DEFINE f == fetch[g]["agg"]
           s == slots[g]["agg"]
           B == Named(job[g], "agg")
<1>1. /\ f \in Fetcher /\ f.pc = pc /\ f.i \in Nat /\ f.i > 0 /\ f.j > 0
      /\ B \in Seq(Tx) /\ Placed("agg", job[g], f)
  BY AggKind, ReadyFacts
<1>2. r.i = f.i /\ r.j = f.j /\ r.cur = f.cur /\ r.trans = f.trans
  OBVIOUS
<1>3. slots' \in [Calls -> [Kinds -> Seq(Tx \cup {NoTx})]] /\ slots' = slots
  BY DEF IInv, Types
<1>4. <<>> \in Messages
  BY DEF Messages
<1> HIDE DEF f, s, B
<1>5. CleanNow(g, "agg") => Clean("agg", job[g], closed, r, slots'[g]["agg"])
  <2> SUFFICES ASSUME Clean("agg", job[g], closed, f, s)
               PROVE  Clean("agg", job[g], closed, r, s)
    BY <1>3 DEF CleanNow, f, s
  <2>1. Filled(B, f, s) /\ (~ job[g].init => Paid(B, closed, f))
    BY DEF Clean, B
  <2>2. Filled(B, r, s)
    BY <1>1, <1>2, <2>1, FilledSteps
  <2>3. ~ job[g].init => Paid(B, closed, r)
    <3> SUFFICES ASSUME ~ job[g].init PROVE Paid(B, closed, r)
      OBVIOUS
    <3>1. r.pc \in Within => r.pc \in {"member", "mwait"} /\ pc \in {"member", "mwait"}
      BY DEF Placed, Within, Outer
    <3> QED
      BY <1>1, <1>2, <2>1, <3>1, PaidSteps
  <2> QED
    BY <2>2, <2>3 DEF Clean, B
<1> QED
  BY <1>3, <1>4, <1>5, AggKind, StepIntro

LEMMA AggRequestIInv ==
    ASSUME IInv, NEW g \in Calls, AggRequest(g)
    PROVE  IInv'
<1> DEFINE f == fetch[g]["agg"]
           r == [f EXCEPT !.pc = "wait", !.tries = 0]
           t == Wanted(g, "agg")
<1>1. Ready(g, "agg", "next") /\ f.i <= Len(Named(job[g], "agg"))
  BY DEF AggRequest, Named
<1>2. /\ f \in Fetcher /\ f.pc = "next" /\ f.i \in Nat /\ f.i > 0
      /\ Placed("agg", job[g], f)
      /\ t = Named(job[g], "agg")[f.i] /\ t \in Tx /\ KindOf[t] = "agg"
  BY <1>1, ReadyFacts, AggKind
<1>3. /\ r \in Fetcher /\ r.pc = "wait" /\ r.i = f.i /\ r.j = f.j /\ r.cur = f.cur
      /\ r.trans = f.trans
  BY <1>2, SetPcTries DEF Pcs
<1>4. /\ UNCHANGED <<closed, open, stash, chan, job, slots, funds, main, prep>>
      /\ TxReq(t) /\ Waits(g, "agg", r)
  BY DEF AggRequest
<1>5. Becomes(g, "agg", r, <<>>)
  BY <1>4 DEF Waits
<1> HIDE DEF r, t
<1>6. Placed("agg", job[g], r)
  BY <1>1, <1>2, <1>3 DEF Placed
<1>7. "next" \in Outer /\ r.pc \in Outer
  BY <1>3 DEF Outer
<1>9. Step(g, "agg", r, <<>>)
  BY <1>1, <1>3, <1>4, <1>5, <1>6, <1>7, StayStep
<1>10. Want("agg", job[g], r) = t /\ KindOf[t] \in Listens(r, "agg")
  BY <1>2, <1>3, ListensFacts DEF Want
<1>11. fetch[g]["agg"].pc \notin {"wait", "mwait", "fwait"}
  BY <1>2
<1> HIDE DEF f
<1> QED
  BY <1>2, <1>3, <1>4, <1>9, <1>10, <1>11, WaitAction, AggKind

LEMMA AggTakeIInv ==
    ASSUME IInv, NEW g \in Calls, AggTake(g)
    PROVE  IInv'
<1> DEFINE x == Head(chan["agg"])
           m == Report(x, Wanted(g, "agg"))
           r == Descend(g, fetch[g]["agg"], x)
<1>1. Ready(g, "agg", "wait") /\ "wait" \in Outer
  BY DEF AggTake, Outer
<1>2. x \in Tx
  <2>1. Receive("agg")
    BY DEF AggTake
  <2> QED
    BY <2>1, ReceiveEffect, AggKind DEF IInv, Net
<1>3. m \in Messages /\ (x # Wanted(g, "agg") => m # <<>>)
  BY DEF Report, Messages
<1>4. /\ Receive("agg") /\ Fill(g, "agg", x) /\ Noted(x, Wanted(g, "agg"), "agg")
      /\ Becomes(g, "agg", r, m) /\ UNCHANGED <<closed, replies, job, funds, main, prep>>
      /\ open' = open \cup {x}
  BY DEF AggTake
<1>5. open' \in SUBSET Tx
  BY <1>2, <1>4 DEF IInv, Types
<1> HIDE DEF m, x
<1>6. /\ r \in Fetcher /\ r.pc \notin {"wait", "mwait", "fwait"}
      /\ m \in Seq(Reports) /\ Step(g, "agg", r, m)
  BY <1>1, <1>2, <1>3, <1>4, WaitFacts, DescendStep, AggKind
<1>7. /\ Noted(Head(chan["agg"]), Want("agg", job[g], fetch[g]["agg"]), "agg")
      /\ "agg" \in Listens(fetch[g]["agg"], "agg")
  BY <1>1, <1>4, WaitFacts, AggKind DEF x
<1> HIDE DEF r
<1> QED
  BY <1>4, <1>5, <1>6, <1>7, TakeAction, AggKind

LEMMA AggTimeOutIInv ==
    ASSUME IInv, NEW g \in Calls, AggTimeOut(g)
    PROVE  IInv'
<1> DEFINE f == fetch[g]["agg"]
           t == Wanted(g, "agg")
<1>1. Ready(g, "agg", "wait") /\ "wait" \in Outer
  BY DEF AggTimeOut, Outer
<1>2. /\ f \in Fetcher /\ f.pc = "wait" /\ t \in Tx /\ KindOf[t] = "agg"
      /\ f.i <= Len(Named(job[g], "agg")) /\ Placed("agg", job[g], f)
  BY <1>1, WaitFacts, ReadyFacts, AggKind
<1>3. /\ UNCHANGED <<closed, open, stash, chan, job, funds, main, prep>> /\ Leaves({"agg"})
  BY DEF AggTimeOut
<1>4. /\ {"agg"} \in SUBSET Kinds /\ {"agg"} \cap Together("agg") # {} /\ open' \in SUBSET Tx
      /\ KindOf[t] \in Together("agg")
  BY <1>1, <1>2, <1>3, WaitFacts, AggKind DEF IInv, Types
<1>5. \/ Becomes(g, "agg", Descend(g, f, t), <<>>) /\ Fill(g, "agg", t) /\ UNCHANGED replies
      \/ /\ UNCHANGED slots /\ f.tries < MaxTries
         /\ Becomes(g, "agg", [f EXCEPT !.tries = @ + 1], <<>>) /\ TxReq(t)
      \/ /\ UNCHANGED slots
         /\ Becomes(g, "agg", [f EXCEPT !.pc = "done"], <<"err">>) /\ UNCHANGED replies
  BY DEF AggTimeOut
<1>6. CASE Becomes(g, "agg", Descend(g, f, t), <<>>) /\ Fill(g, "agg", t) /\ UNCHANGED replies
  <2> DEFINE r == Descend(g, f, t)
  <2>1. <<>> \in Messages
    BY DEF Messages
  <2>2. r \in Fetcher /\ <<>> \in Seq(Reports) /\ Step(g, "agg", r, <<>>)
    BY <1>1, <1>2, <1>3, <1>6, <2>1, DescendStep
  <2> HIDE DEF r
  <2> QED
    BY <1>3, <1>4, <1>6, <2>2, LeaveAction, AggKind
<1>7. CASE /\ UNCHANGED slots /\ f.tries < MaxTries
           /\ Becomes(g, "agg", [f EXCEPT !.tries = @ + 1], <<>>) /\ TxReq(t)
  <2> DEFINE r == [f EXCEPT !.tries = @ + 1]
  <2>1. /\ r \in Fetcher
        /\ r.pc = f.pc /\ r.i = f.i /\ r.j = f.j /\ r.cur = f.cur
        /\ r.trans = f.trans /\ r.frames = f.frames
    BY <1>2, <1>7, NextTry
  <2>2. Becomes(g, "agg", r, <<>>)
    BY <1>7
  <2> HIDE DEF r
  <2>3. Placed("agg", job[g], r)
    BY <1>2, <2>1 DEF Placed
  <2>4. r.pc \in Outer
    BY <1>2, <2>1 DEF Outer
  <2>5. Step(g, "agg", r, <<>>) /\ <<>> \in Seq(Reports)
    BY <1>1, <1>3, <1>7, <2>1, <2>2, <2>3, <2>4, StayStep
  <2> QED
    BY <1>2, <1>3, <1>4, <1>7, <2>1, <2>5, LeaveAction, AggKind
<1>8. CASE /\ UNCHANGED slots
           /\ Becomes(g, "agg", [f EXCEPT !.pc = "done"], <<"err">>) /\ UNCHANGED replies
  <2> DEFINE r == [f EXCEPT !.pc = "done"]
  <2>1. r \in Fetcher /\ <<"err">> \in Seq(Reports) /\ Step(g, "agg", r, <<"err">>)
    BY <1>1, <1>3, <1>8, DoneStep, AggKind
  <2> HIDE DEF r
  <2> QED
    BY <1>3, <1>4, <1>8, <2>1, LeaveAction, AggKind
<1> QED
  BY <1>5, <1>6, <1>7, <1>8

LEMMA MemberFacts ==
    ASSUME IInv, NEW g \in Calls, NEW pc \in {"member", "mwait"}, Ready(g, "agg", pc)
    PROVE  LET f == fetch[g]["agg"] IN
           /\ f \in Fetcher /\ f.pc = pc /\ f.i \in Nat /\ f.i > 0 /\ f.j \in Nat /\ f.j > 0
           /\ f.i <= Len(Named(job[g], "agg")) /\ f.cur \in Tx /\ ~ job[g].init
           /\ Named(job[g], "agg") \in Seq(Tx) /\ Placed("agg", job[g], f)
           /\ Members[f.cur] \in Seq(Inner)
           /\ pc = "mwait" => f.j <= Len(Members[f.cur])
           /\ f.j <= Len(Members[f.cur]) => /\ f.j \in 1..Len(Members[f.cur])
                                            /\ Member(f) \in Tx
                                            /\ KindOf[Member(f)] \in {"agg", "funds"}
<1> DEFINE f == fetch[g]["agg"]
<1>1. /\ f \in Fetcher /\ f.pc = pc /\ f.i \in Nat /\ f.i > 0 /\ f.j \in Nat /\ f.j > 0
      /\ Named(job[g], "agg") \in Seq(Tx) /\ Placed("agg", job[g], f)
  BY ReadyFacts, AggKind
<1> HIDE DEF f
<1>2. /\ f.i <= Len(Named(job[g], "agg")) /\ f.cur \in Tx /\ ~ job[g].init
      /\ pc = "mwait" => f.j <= Len(Members[f.cur])
  BY <1>1 DEF Placed
<1>3. Members[f.cur] \in Seq(Inner)
  BY <1>2, TxFetchAssumption
<1>4. ASSUME f.j <= Len(Members[f.cur])
      PROVE  /\ f.j \in 1..Len(Members[f.cur])
             /\ Member(f) \in Tx /\ KindOf[Member(f)] \in {"agg", "funds"}
  <2>1. f.j \in 1..Len(Members[f.cur])
    BY <1>1, <1>3, <1>4
  <2>2. Member(f) \in Inner
    BY <1>3, <2>1, ElementOfSeq DEF Member
  <2> QED
    BY <2>1, <2>2, InnerTx
<1> QED
  BY <1>1, <1>2, <1>3, <1>4 DEF f

\* It has dealt with one member of the AggTx.
LEMMA MemberStep ==
    ASSUME IInv, NEW g \in Calls, NEW pc \in {"member", "mwait"}, Ready(g, "agg", pc),
           NEW r \in Fetcher, NEW m \in Messages, NEW f, f = fetch[g]["agg"],
           f.j <= Len(Members[f.cur]),
           r.pc = "member", r.i = f.i, r.j = f.j + 1, r.cur = f.cur,
           m = <<>> =>
               \/ r.trans = f.trans /\ (KindOf[Member(f)] # "funds" \/ Member(f) \in closed)
               \/ r.trans = Append(f.trans, Member(f)) /\ KindOf[Member(f)] = "funds",
           Becomes(g, "agg", r, m), UNCHANGED <<job, closed, main, funds, slots>>
    PROVE  Step(g, "agg", r, m) /\ m \in Seq(Reports)
<1> DEFINE s == slots[g]["agg"]
           B == Named(job[g], "agg")
<1>1. /\ f \in Fetcher /\ f.pc = pc /\ f.i \in Nat /\ f.i > 0 /\ f.j \in Nat /\ f.j > 0
      /\ f.i <= Len(B) /\ f.cur \in Tx /\ ~ job[g].init
      /\ B \in Seq(Tx) /\ f.j \in 1..Len(Members[f.cur]) /\ Member(f) \in Tx
  BY MemberFacts
<1>2. slots' \in [Calls -> [Kinds -> Seq(Tx \cup {NoTx})]] /\ slots' = slots
  BY DEF IInv, Types
<1> HIDE DEF s, B
<1>3. Placed("agg", job[g], r)
  <2>1. r.i > 0 /\ r.j > 0 /\ r.i <= Len(B) /\ r.i <= Len(B) + 1
    BY <1>1
  <2> QED
    BY <1>1, <2>1 DEF Placed, B
<1>4. CleanNow(g, "agg") /\ m = <<>> => Clean("agg", job[g], closed, r, slots'[g]["agg"])
  <2> SUFFICES ASSUME Clean("agg", job[g], closed, f, s), m = <<>>
               PROVE  Clean("agg", job[g], closed, r, s)
    BY <1>2 DEF CleanNow, s
  <2>1. Filled(B, f, s) /\ Paid(B, closed, f)
    BY <1>1 DEF Clean, B
  <2>2. Filled(B, r, s)
    BY <1>1, <2>1, FilledSteps DEF Within
  <2>3. Paid(B, closed, r)
    <3>1. f.i \in 1..Len(B) /\ f.trans \in Seq(Tx)
      BY <1>1, Fields
    <3> DEFINE t == Member(f)
    <3>2. t = Members[f.cur][f.j] /\ t \in Tx
      BY <1>1 DEF Member
    <3>3. \/ r.trans = f.trans /\ (KindOf[t] # "funds" \/ t \in closed)
          \/ r.trans = Append(f.trans, t) /\ KindOf[t] = "funds" /\ t \in Tx
      BY <3>2
    <3> HIDE DEF t
    <3> QED
      BY <1>1, <2>1, <3>1, <3>2, <3>3, PaidMember
  <2> QED
    BY <2>2, <2>3 DEF Clean, B
<1> QED
  BY <1>2, <1>3, <1>4, AggKind, StepIntro

LEMMA MemberLookIInv ==
    ASSUME IInv, NEW g \in Calls, MemberLook(g)
    PROVE  IInv'
<1> DEFINE f == fetch[g]["agg"]
           t == Member(f)
<1>1. Ready(g, "agg", "member") /\ "member" \in {"member", "mwait"}
  BY DEF MemberLook
<1>2. /\ f \in Fetcher /\ f.pc = "member" /\ f.i \in Nat /\ f.i > 0 /\ f.j \in Nat /\ f.j > 0
      /\ f.i <= Len(Named(job[g], "agg")) /\ f.cur \in Tx /\ ~ job[g].init
      /\ Named(job[g], "agg") \in Seq(Tx) /\ Placed("agg", job[g], f)
      /\ Members[f.cur] \in Seq(Inner)
      /\ f.j <= Len(Members[f.cur]) => t \in Tx /\ KindOf[t] \in {"agg", "funds"}
  BY <1>1, MemberFacts
<1>3. UNCHANGED <<closed, open, stash, chan, replies, job, slots, funds, main, prep, seen>>
  BY DEF MemberLook
<1>4. <<>> \in Messages
  BY DEF Messages
<1>5. CASE f.j > Len(Members[f.cur]) /\ Becomes(g, "agg", Next1(f), <<>>)
  <2> DEFINE r == Next1(f)
             s == slots[g]["agg"]
             B == Named(job[g], "agg")
  <2>1. /\ r \in Fetcher /\ r.pc = "next" /\ r.i = f.i + 1 /\ r.trans = f.trans
        /\ Placed("agg", job[g], r)
    BY <1>2, NextFields, NextPlaced
  <2>2. slots' \in [Calls -> [Kinds -> Seq(Tx \cup {NoTx})]] /\ slots' = slots
    BY <1>3 DEF IInv, Types
  <2>3. Becomes(g, "agg", r, <<>>)
    BY <1>5
  <2> HIDE DEF r, s, B, f
  <2>4. CleanNow(g, "agg") => Clean("agg", job[g], closed, r, slots'[g]["agg"])
    <3> SUFFICES ASSUME Clean("agg", job[g], closed, f, s)
                 PROVE  Clean("agg", job[g], closed, r, s)
      BY <2>2 DEF CleanNow, f, s
    <3>1. Filled(B, f, s) /\ Paid(B, closed, f) /\ B \in Seq(Tx)
      BY <1>2 DEF Clean, B
    <3>2. Filled(B, r, s)
      BY <1>2, <2>1, <3>1, FilledSteps DEF Within
    <3>3. Paid(B, closed, r)
      BY <1>2, <1>5, <2>1, <3>1, PaidSteps
    <3> QED
      BY <3>2, <3>3 DEF Clean, B
  <2>5. Step(g, "agg", r, <<>>) /\ <<>> \in Seq(Reports)
    BY <1>1, <1>3, <1>4, <2>1, <2>2, <2>3, <2>4, AggKind, StepIntro
  <2>6. fetch[g]["agg"].pc = "member"
    BY <1>2 DEF f
  <2> QED
    BY <1>3, <2>1, <2>5, <2>6, QuietAction, AggKind
<1>6. CASE /\ f.j <= Len(Members[f.cur])
           /\ Becomes(g, "agg", IF t \in closed \/ KindOf[t] = "agg"
                                THEN Next2(f) ELSE Next2With(f, t), <<>>)
  <2> DEFINE r == IF t \in closed \/ KindOf[t] = "agg" THEN Next2(f) ELSE Next2With(f, t)
  <2>1. /\ r \in Fetcher /\ r.pc = "member" /\ r.i = f.i /\ r.j = f.j + 1 /\ r.cur = f.cur
        /\ \/ r.trans = f.trans /\ (KindOf[t] # "funds" \/ t \in closed)
           \/ r.trans = Append(f.trans, t) /\ KindOf[t] = "funds"
    <3>1. CASE t \in closed \/ KindOf[t] = "agg"
      BY <1>2, <3>1, MemberFields
    <3>2. CASE ~ (t \in closed \/ KindOf[t] = "agg")
      <4>1. r = Next2With(f, t) /\ t \in Tx /\ KindOf[t] = "funds"
        BY <1>2, <1>6, <3>2
      <4> HIDE DEF r
      <4> QED
        BY <1>2, <4>1, WithFields
    <3> QED
      BY <3>1, <3>2
  <2>2. Becomes(g, "agg", r, <<>>)
    BY <1>6
  <2> HIDE DEF r
  <2>3. Step(g, "agg", r, <<>>) /\ <<>> \in Seq(Reports)
    BY <1>1, <1>3, <1>4, <1>6, <2>1, <2>2, MemberStep
  <2>6. fetch[g]["agg"].pc = "member"
    BY <1>2
  <2> QED
    BY <1>3, <2>1, <2>3, <2>6, QuietAction, AggKind
<1>7. \/ f.j > Len(Members[f.cur]) /\ Becomes(g, "agg", Next1(f), <<>>)
      \/ /\ ~ (f.j > Len(Members[f.cur]))
         /\ Becomes(g, "agg", IF t \in closed \/ KindOf[t] = "agg"
                                THEN Next2(f) ELSE Next2With(f, t), <<>>)
  BY DEF MemberLook
<1>8. Len(Members[f.cur]) \in Nat
  BY <1>2
<1> QED
  BY <1>2, <1>5, <1>6, <1>7, <1>8

LEMMA MemberRequestIInv ==
    ASSUME IInv, NEW g \in Calls, MemberRequest(g)
    PROVE  IInv'
<1> DEFINE f == fetch[g]["agg"]
           r == [f EXCEPT !.pc = "mwait", !.tries = 0]
           t == Member(f)
<1>1. Ready(g, "agg", "member") /\ "member" \in {"member", "mwait"} /\ f.j <= Len(Members[f.cur])
  BY DEF MemberRequest
<1>2. /\ f \in Fetcher /\ f.pc = "member"
      /\ Placed("agg", job[g], f)
      /\ t \in Tx /\ KindOf[t] \in {"agg", "funds"}
  BY <1>1, MemberFacts
<1>3. /\ r \in Fetcher /\ r.pc = "mwait" /\ r.i = f.i /\ r.j = f.j /\ r.cur = f.cur
      /\ r.trans = f.trans
  BY <1>2, SetPcTries DEF Pcs
<1>4. /\ UNCHANGED <<closed, open, stash, chan, job, slots, funds, main, prep>>
      /\ TxReq(t) /\ Waits(g, "agg", r)
  BY DEF MemberRequest
<1>5. Becomes(g, "agg", r, <<>>)
  BY <1>4 DEF Waits
<1> HIDE DEF r
<1>6. Placed("agg", job[g], r)
  BY <1>1, <1>2, <1>3 DEF Placed
<1>7. "member" \in Within /\ r.pc \in Within
  BY <1>3 DEF Within
<1>9. Step(g, "agg", r, <<>>)
  BY <1>1, <1>3, <1>4, <1>5, <1>6, <1>7, StayStep
<1>10. Want("agg", job[g], r) = t /\ KindOf[t] \in Listens(r, "agg")
  BY <1>2, <1>3, ListensFacts DEF Want, Member
<1>11. fetch[g]["agg"].pc \notin {"wait", "mwait", "fwait"}
  BY <1>2
<1> HIDE DEF f, t
<1> QED
  BY <1>2, <1>3, <1>4, <1>9, <1>10, <1>11, WaitAction, AggKind

LEMMA MemberTakeIInv ==
    ASSUME IInv, NEW g \in Calls, NEW c \in {"agg", "funds"}, MemberTake(g, c)
    PROVE  IInv'
<1> DEFINE f == fetch[g]["agg"]
           x == Head(chan[c])
           t == Member(f)
           m == Report(x, t)
           r == IF c = "agg" THEN Next2(f) ELSE Next2With(f, x)
<1>0. c \in Kinds
  BY AggKind
<1>1. Ready(g, "agg", "mwait") /\ "mwait" \in {"member", "mwait"}
  BY DEF MemberTake
<1>2. x \in Tx /\ KindOf[x] = c
  <2>1. Receive(c)
    BY DEF MemberTake
  <2> QED
    BY <1>0, <2>1, ReceiveEffect DEF IInv, Net
<1>3. m \in Messages /\ (m = <<>> => x = t)
  BY DEF Report, Messages
<1>4. /\ Receive(c) /\ Noted(x, t, c)
      /\ Becomes(g, "agg", r, m) /\ UNCHANGED <<closed, replies, job, slots, funds, main, prep>>
      /\ open' = open \cup {x}
  BY DEF MemberTake
<1>5. open' \in SUBSET Tx
  BY <1>2, <1>4 DEF IInv, Types
<1>6. f \in Fetcher /\ f.pc = "mwait" /\ f.j <= Len(Members[f.cur])
  BY <1>1, MemberFacts
<1>7. /\ r \in Fetcher /\ r.pc = "member" /\ r.i = f.i /\ r.j = f.j + 1 /\ r.cur = f.cur
      /\ \/ r.trans = f.trans /\ c = "agg"
         \/ r.trans = Append(f.trans, x) /\ c = "funds"
  <2>1. CASE c = "agg"
    BY <1>6, <2>1, MemberFields
  <2>2. CASE c = "funds"
    <3>1. r = Next2With(f, x)
      BY <2>2
    <3> HIDE DEF r
    <3> QED
      BY <1>2, <1>6, <2>2, <3>1, WithFields
  <2> QED
    BY <2>1, <2>2
<1> HIDE DEF m, x, r
<1>8. m = <<>> =>
         \/ r.trans = f.trans /\ (KindOf[t] # "funds" \/ t \in closed)
         \/ r.trans = Append(f.trans, t) /\ KindOf[t] = "funds"
  BY <1>2, <1>3, <1>7
<1>9. Step(g, "agg", r, m) /\ m \in Seq(Reports)
  BY <1>1, <1>3, <1>4, <1>6, <1>7, <1>8, MemberStep
<1>10. /\ Noted(Head(chan[c]), Want("agg", job[g], fetch[g]["agg"]), c)
       /\ c \in Listens(fetch[g]["agg"], "agg")
  <2>1. Want("agg", job[g], fetch[g]["agg"]) = t
    BY <1>6 DEF Want, Member
  <2>2. c \in Listens(fetch[g]["agg"], "agg")
    BY <1>6, ListensFacts
  <2> QED
    BY <1>4, <2>1, <2>2 DEF x
<1> QED
  BY <1>0, <1>4, <1>5, <1>7, <1>9, <1>10, TakeAction, AggKind

LEMMA BothLeave ==
    {"agg", "funds"} \in SUBSET Kinds /\ {"agg", "funds"} \cap Together("agg") # {}
BY AggKind DEF Together

LEMMA MemberTimeOutIInv ==
    ASSUME IInv, NEW g \in Calls, MemberTimeOut(g)
    PROVE  IInv'
<1> DEFINE f == fetch[g]["agg"]
           t == Member(f)
           found == AlreadyInStash("agg", t) \/ AlreadyInStash("funds", t)
<1>1. Ready(g, "agg", "mwait") /\ "mwait" \in {"member", "mwait"}
  BY DEF MemberTimeOut
<1>2. /\ f \in Fetcher /\ f.pc = "mwait" /\ f.j <= Len(Members[f.cur])
      /\ Placed("agg", job[g], f)
      /\ t \in Tx /\ KindOf[t] \in {"agg", "funds"}
  BY <1>1, MemberFacts
<1>3. /\ UNCHANGED <<closed, stash, chan, job, slots, funds, main, prep>>
      /\ Leaves({"agg", "funds"})
      /\ open' = open \cup {t} \/ open' = open
  BY DEF MemberTimeOut
<1>4. /\ open' \in SUBSET Tx
      /\ KindOf[t] \in Together("agg")
  BY <1>2, <1>3 DEF IInv, Types, Together
<1>5. \/ /\ Becomes(g, "agg", IF KindOf[t] = "agg" THEN Next2(f) ELSE Next2With(f, t), <<>>)
         /\ UNCHANGED replies
      \/ f.tries < MaxTries /\ Becomes(g, "agg", [f EXCEPT !.tries = @ + 1], <<>>) /\ TxReq(t)
      \/ Becomes(g, "agg", [f EXCEPT !.pc = "done"], <<"err">>) /\ UNCHANGED replies
  BY DEF MemberTimeOut
<1>6. CASE /\ Becomes(g, "agg", IF KindOf[t] = "agg" THEN Next2(f) ELSE Next2With(f, t), <<>>)
           /\ UNCHANGED replies
  <2> DEFINE r == IF KindOf[t] = "agg" THEN Next2(f) ELSE Next2With(f, t)
  <2>1. /\ r \in Fetcher /\ r.pc = "member" /\ r.i = f.i /\ r.j = f.j + 1 /\ r.cur = f.cur
        /\ \/ r.trans = f.trans /\ (KindOf[t] # "funds" \/ t \in closed)
           \/ r.trans = Append(f.trans, t) /\ KindOf[t] = "funds"
    <3>1. CASE KindOf[t] = "agg"
      BY <1>2, <3>1, MemberFields
    <3>2. CASE KindOf[t] # "agg"
      <4>1. r = Next2With(f, t) /\ KindOf[t] = "funds"
        BY <1>2, <3>2
      <4> HIDE DEF r
      <4> QED
        BY <1>2, <4>1, WithFields
    <3> QED
      BY <3>1, <3>2
  <2>2. Becomes(g, "agg", r, <<>>) /\ <<>> \in Messages
    BY <1>6 DEF Messages
  <2> HIDE DEF r
  <2>3. Step(g, "agg", r, <<>>) /\ <<>> \in Seq(Reports)
    BY <1>1, <1>2, <1>3, <2>1, <2>2, MemberStep
  <2> QED
    BY <1>3, <1>4, <1>6, <2>1, <2>3, LeaveAction, AggKind, BothLeave
<1>7. CASE f.tries < MaxTries /\ Becomes(g, "agg", [f EXCEPT !.tries = @ + 1], <<>>) /\ TxReq(t)
  <2> DEFINE r == [f EXCEPT !.tries = @ + 1]
  <2>1. /\ r \in Fetcher
        /\ r.pc = f.pc /\ r.i = f.i /\ r.j = f.j /\ r.cur = f.cur
        /\ r.trans = f.trans /\ r.frames = f.frames
    BY <1>2, <1>7, NextTry
  <2>2. Becomes(g, "agg", r, <<>>)
    BY <1>7
  <2> HIDE DEF r
  <2>3. Placed("agg", job[g], r)
    BY <1>2, <2>1 DEF Placed
  <2>4. r.pc \in Within /\ r.pc \in {"member", "mwait"} /\ "mwait" \in Within
    BY <1>2, <2>1 DEF Within
  <2>5. Step(g, "agg", r, <<>>) /\ <<>> \in Seq(Reports)
    BY <1>1, <1>3, <2>1, <2>2, <2>3, <2>4, StayStep
  <2> QED
    BY <1>2, <1>3, <1>4, <1>7, <2>1, <2>5, LeaveAction, AggKind, BothLeave
<1>8. CASE Becomes(g, "agg", [f EXCEPT !.pc = "done"], <<"err">>) /\ UNCHANGED replies
  <2> DEFINE r == [f EXCEPT !.pc = "done"]
  <2>1. r \in Fetcher /\ <<"err">> \in Seq(Reports) /\ Step(g, "agg", r, <<"err">>)
    BY <1>1, <1>3, <1>8, DoneStep, AggKind
  <2> HIDE DEF r
  <2> QED
    BY <1>3, <1>4, <1>8, <2>1, LeaveAction, AggKind, BothLeave
<1> QED
  BY <1>5, <1>6, <1>7, <1>8

----------------------------------------------------------------------------
(* The recursive fetch.                                                    *)

LEMMA FrameFacts ==
    ASSUME IInv, NEW g \in Calls, NEW pc \in {"frame", "fwait"}, Ready(g, "agg", pc)
    PROVE  LET f == fetch[g]["agg"] IN
           /\ f \in Fetcher /\ f.pc = pc /\ f.i \in Nat /\ f.i > 0 /\ f.j > 0
           /\ f.i <= Len(Named(job[g], "agg")) /\ job[g].init
           /\ Named(job[g], "agg") \in Seq(Tx)
           /\ f.frames # <<>> /\ Last(f.frames) \in Frame
           /\ pc = "fwait" => Last(f.frames).todo # <<>>
           /\ Last(f.frames).todo # <<>> =>
                 /\ Head(Last(f.frames).todo) \in Tx
                 /\ KindOf[Head(Last(f.frames).todo)] \in {"agg", "funds"}
<1> DEFINE f == fetch[g]["agg"]
           top == Last(f.frames)
<1>1. /\ f \in Fetcher /\ f.pc = pc /\ f.i \in Nat /\ f.i > 0 /\ f.j > 0
      /\ Named(job[g], "agg") \in Seq(Tx) /\ Placed("agg", job[g], f)
  BY ReadyFacts, AggKind
<1> HIDE DEF f
<1>2. /\ f.i <= Len(Named(job[g], "agg")) /\ job[g].init /\ f.frames # <<>>
      /\ pc = "fwait" => top.todo # <<>>
  BY <1>1 DEF Placed
<1>3. top \in Frame
  BY <1>1, <1>2, Fields, LastFront
<1> HIDE DEF top
<1>4. top.todo \in Seq(Inner)
  BY <1>3 DEF Frame
<1>5. top.todo # <<>> => Head(top.todo) \in Inner
  BY <1>4
<1> QED
  BY <1>1, <1>2, <1>3, <1>5, InnerTx DEF f, top

LEMMA FrameStep ==
    ASSUME IInv, NEW g \in Calls, NEW pc \in {"frame", "fwait"}, Ready(g, "agg", pc),
           NEW r \in Fetcher, NEW m \in Messages, NEW f, f = fetch[g]["agg"], r.j = f.j,
           \/ r.pc = "frame" /\ r.i = f.i /\ r.frames # <<>>
           \/ r.pc = "fwait" /\ r.i = f.i /\ r.frames # <<>> /\ Last(r.frames).todo # <<>>
           \/ r.pc = "next" /\ r.i = f.i + 1
           \/ r.pc = "done" /\ r.i = f.i /\ m # <<>>,
           Becomes(g, "agg", r, m), UNCHANGED <<job, closed, main, funds, slots>>
    PROVE  Step(g, "agg", r, m) /\ m \in Seq(Reports)
<1> DEFINE s == slots[g]["agg"]
           B == Named(job[g], "agg")
<1>1. /\ f \in Fetcher /\ f.pc = pc /\ f.i \in Nat /\ f.i > 0 /\ f.j > 0
      /\ f.i <= Len(B) /\ job[g].init
      /\ B \in Seq(Tx)
  BY FrameFacts
<1>2. slots' \in [Calls -> [Kinds -> Seq(Tx \cup {NoTx})]] /\ slots' = slots
  BY DEF IInv, Types
<1> HIDE DEF s, B
<1>3. Placed("agg", job[g], r)
  <2>1. r.i > 0 /\ r.j > 0 /\ (r.pc \notin {"next", "done"} => r.i <= Len(B)) /\ r.i <= Len(B) + 1
    BY <1>1
  <2> QED
    BY <1>1, <2>1 DEF Placed, B
<1>4. CleanNow(g, "agg") /\ m = <<>> => Clean("agg", job[g], closed, r, slots'[g]["agg"])
  <2> SUFFICES ASSUME Clean("agg", job[g], closed, f, s), m = <<>>
               PROVE  Clean("agg", job[g], closed, r, s)
    BY <1>2 DEF CleanNow, s
  <2>1. Filled(B, f, s)
    BY DEF Clean, B
  <2>2. Filled(B, r, s)
    BY <1>1, <2>1, FilledSteps DEF Within
  <2> QED
    BY <1>1, <2>2 DEF Clean, B
<1> QED
  BY <1>2, <1>3, <1>4, AggKind, StepIntro

\* A call returns to its caller, or the outermost one to fetchAggTxData.
LEMMA ReturnEffect ==
    ASSUME NEW g \in Calls, NEW f \in Fetcher, f.frames # <<>>, NEW acc \in Seq(Tx),
           NEW err \in BOOLEAN, Return(g, f, acc, err)
    PROVE  \E r \in Fetcher, m \in Messages :
              /\ r.j = f.j
              /\ \/ r.pc = "frame" /\ r.i = f.i /\ r.frames # <<>>
                 \/ r.pc = "next" /\ r.i = f.i + 1
                 \/ r.pc = "done" /\ r.i = f.i /\ m # <<>>
              /\ Becomes(g, "agg", r, m)
<1>0. <<>> \in Messages /\ <<"err">> \in Messages /\ <<"err">> # <<>>
  BY DEF Messages
<1>1. f.frames \in Seq(Frame) /\ f.trans \in Seq(Tx) /\ f.i \in Nat
  BY Fields
<1>2. CASE Len(f.frames) > 1
  <2> DEFINE caller == f.frames[Len(f.frames) - 1]
             back == [caller EXCEPT !.acc = IF err THEN @ ELSE @ \o acc, !.err = err]
             fr == Append(Front(Front(f.frames)), back)
             r == [f EXCEPT !.pc = "frame", !.frames = fr]
  <2>1. Len(f.frames) - 1 \in 1..Len(f.frames)
    BY <1>1, <1>2
  <2>2. caller \in Frame
    BY <1>1, <2>1, ElementOfSeq
  <2>3. back \in Frame
    <3> HIDE DEF caller
    <3> DEFINE a == IF err THEN caller.acc ELSE caller.acc \o acc
    <3>1. caller.acc \in Seq(Tx)
      BY <2>2 DEF Frame
    <3>2. a \in Seq(Tx)
      BY <3>1
    <3> HIDE DEF a
    <3>3. [caller EXCEPT !.acc = a, !.err = err] \in Frame
      BY <2>2, <3>2 DEF Frame
    <3> QED
      BY <3>3 DEF a
  <2> HIDE DEF back
  <2>4. Front(f.frames) \in Seq(Frame) /\ Len(Front(f.frames)) = Len(f.frames) - 1
    BY <1>1, LastFront
  <2>5. Front(f.frames) # <<>>
    BY <1>1, <1>2, <2>4, EmptySeq
  <2>6. Front(Front(f.frames)) \in Seq(Frame)
    BY <2>4, <2>5, LastFront
  <2>7. fr \in Seq(Frame) /\ fr # <<>>
    BY <2>3, <2>6, LastAppend
  <2>8. Becomes(g, "agg", r, <<>>)
    BY <1>2 DEF Return, back
  <2> HIDE DEF fr
  <2>9. r \in Fetcher /\ r.pc = "frame" /\ r.i = f.i /\ r.j = f.j /\ r.frames = fr
    BY <2>7 DEF Fetcher
  <2> HIDE DEF r
  <2> QED
    BY <1>0, <2>7, <2>8, <2>9
<1>3. CASE ~ (Len(f.frames) > 1) /\ err
  <2> DEFINE fr == <<>>
             r == [f EXCEPT !.pc = "done", !.frames = fr]
  <2>1. Becomes(g, "agg", r, <<"err">>)
    BY <1>3 DEF Return
  <2>2. fr \in Seq(Frame)
    OBVIOUS
  <2> HIDE DEF fr
  <2>3. r \in Fetcher /\ r.pc = "done" /\ r.i = f.i /\ r.j = f.j
    BY <2>2 DEF Fetcher
  <2> HIDE DEF r
  <2> QED
    BY <1>0, <2>1, <2>3
<1>4. CASE ~ (Len(f.frames) > 1) /\ ~ err
  <2> DEFINE fr == <<>>
             h == Next1(f)
             r == [h EXCEPT !.trans = acc, !.frames = fr]
  <2>1. Becomes(g, "agg", r, <<>>)
    BY <1>4 DEF Return
  <2>2. fr \in Seq(Frame)
    OBVIOUS
  <2>3. h \in Fetcher /\ h.pc = "next" /\ h.i = f.i + 1 /\ h.j = f.j
    BY NextFields
  <2> HIDE DEF fr, h
  <2>4. r \in Fetcher /\ r.pc = h.pc /\ r.i = h.i /\ r.j = h.j
    BY <2>2, <2>3 DEF Fetcher
  <2> HIDE DEF r
  <2> QED
    BY <1>0, <2>1, <2>3, <2>4
<1> QED
  BY <1>2, <1>3, <1>4

LEMMA FrameLookIInv ==
    ASSUME IInv, NEW g \in Calls, FrameLook(g)
    PROVE  IInv'
<1> DEFINE f == fetch[g]["agg"]
           top == Last(f.frames)
<1>1. Ready(g, "agg", "frame") /\ "frame" \in {"frame", "fwait"}
  BY DEF FrameLook
<1>2. /\ f \in Fetcher /\ f.pc = "frame" /\ f.frames # <<>> /\ top \in Frame
      /\ top.todo # <<>> => Head(top.todo) \in Tx
  BY <1>1, FrameFacts
<1>3. UNCHANGED <<closed, open, stash, chan, replies, job, slots, funds, main, prep, seen>>
  BY DEF FrameLook
<1>4. \/ Return(g, f, top.acc, top.err)
      \/ top.todo # <<>> /\ Becomes(g, "agg", Handle(f, Head(top.todo)), <<>>)
  BY DEF FrameLook, Top
<1>5. PICK r \in Fetcher, m \in Messages :
              /\ r.j = f.j
              /\ \/ r.pc = "frame" /\ r.i = f.i /\ r.frames # <<>>
                 \/ r.pc = "next" /\ r.i = f.i + 1
                 \/ r.pc = "done" /\ r.i = f.i /\ m # <<>>
              /\ Becomes(g, "agg", r, m)
  <2>1. CASE Return(g, f, top.acc, top.err)
    <3>1. top.acc \in Seq(Tx) /\ top.err \in BOOLEAN
      BY <1>2 DEF Frame
    <3> HIDE DEF f, top
    <3> QED
      BY <1>2, <2>1, <3>1, ReturnEffect
  <2>2. CASE top.todo # <<>> /\ Becomes(g, "agg", Handle(f, Head(top.todo)), <<>>)
    <3> DEFINE r == Handle(f, Head(top.todo))
    <3>1. r \in Fetcher /\ r.pc = "frame" /\ r.i = f.i /\ r.j = f.j /\ r.frames # <<>>
      BY <1>2, <2>2, HandleFields
    <3>2. <<>> \in Messages /\ Becomes(g, "agg", r, <<>>)
      BY <2>2 DEF Messages
    <3> HIDE DEF r
    <3> QED
      BY <3>1, <3>2
  <2> QED
    BY <1>4, <2>1, <2>2
<1>6. Step(g, "agg", r, m) /\ m \in Seq(Reports)
  BY <1>1, <1>3, <1>5, FrameStep
<1>7. r.pc \notin {"wait", "mwait", "fwait"} /\ fetch[g]["agg"].pc = "frame"
  BY <1>2, <1>5
<1> QED
  BY <1>3, <1>6, <1>7, QuietAction, AggKind

LEMMA FrameRequestIInv ==
    ASSUME IInv, NEW g \in Calls, FrameRequest(g)
    PROVE  IInv'
<1> DEFINE f == fetch[g]["agg"]
           r == [f EXCEPT !.pc = "fwait"]
           t == Head(Last(f.frames).todo)
<1>1. Ready(g, "agg", "frame") /\ "frame" \in {"frame", "fwait"} /\ Last(f.frames).todo # <<>>
  BY DEF FrameRequest, Top
<1>2. /\ f \in Fetcher /\ f.pc = "frame" /\ f.frames # <<>>
      /\ t \in Tx /\ KindOf[t] \in {"agg", "funds"}
  BY <1>1, FrameFacts
<1>3. r \in Fetcher /\ r.pc = "fwait" /\ r.i = f.i /\ r.j = f.j /\ r.frames = f.frames
  BY <1>2, SetPc DEF Pcs
<1>4. /\ UNCHANGED <<closed, open, stash, chan, job, slots, funds, main, prep>>
      /\ TxReq(t) /\ Waits(g, "agg", r)
  BY DEF FrameRequest, Top
<1>5. Becomes(g, "agg", r, <<>>) /\ <<>> \in Messages
  BY <1>4 DEF Waits, Messages
<1> HIDE DEF r
<1>9. Step(g, "agg", r, <<>>)
  BY <1>1, <1>2, <1>3, <1>4, <1>5, FrameStep
<1>10. Want("agg", job[g], r) = t /\ KindOf[t] \in Listens(r, "agg")
  BY <1>2, <1>3, ListensFacts DEF Want
<1>11. fetch[g]["agg"].pc \notin {"wait", "mwait", "fwait"}
  BY <1>2
<1> HIDE DEF f, t
<1> QED
  BY <1>2, <1>3, <1>4, <1>9, <1>10, <1>11, WaitAction, AggKind

LEMMA FrameTakeIInv ==
    ASSUME IInv, NEW g \in Calls, NEW c \in {"agg", "funds"}, FrameTake(g, c)
    PROVE  IInv'
<1> DEFINE f == fetch[g]["agg"]
           x == Head(chan[c])
           t == Head(Last(f.frames).todo)
<1>0. c \in Kinds
  BY AggKind
<1>1. Ready(g, "agg", "fwait") /\ "fwait" \in {"frame", "fwait"}
  BY DEF FrameTake
<1>2. /\ f \in Fetcher /\ f.pc = "fwait" /\ f.frames # <<>> /\ Last(f.frames).todo # <<>>
      /\ t \in Tx
  BY <1>1, FrameFacts
<1>4. /\ Receive(c) /\ Noted(x, t, c)
      /\ UNCHANGED <<closed, replies, job, slots, funds, main, prep>>
      /\ \/ Becomes(g, "agg", Handle(f, t), <<>>) /\ open' = open \cup {t}
         \/ Return(g, f, <<>>, TRUE) /\ UNCHANGED open
  BY DEF FrameTake, Top
<1>5. open' \in SUBSET Tx
  BY <1>2, <1>4 DEF IInv, Types
<1>6. PICK r \in Fetcher, m \in Messages :
              /\ r.j = f.j
              /\ \/ r.pc = "frame" /\ r.i = f.i /\ r.frames # <<>>
                 \/ r.pc = "next" /\ r.i = f.i + 1
                 \/ r.pc = "done" /\ r.i = f.i /\ m # <<>>
              /\ Becomes(g, "agg", r, m)
  <2>1. CASE Return(g, f, <<>>, TRUE)
    <3> HIDE DEF f
    <3>1. <<>> \in Seq(Tx) /\ TRUE \in BOOLEAN
      OBVIOUS
    <3> QED
      BY <1>2, <2>1, <3>1, ReturnEffect
  <2>2. CASE Becomes(g, "agg", Handle(f, t), <<>>)
    <3> DEFINE r == Handle(f, t)
    <3>1. r \in Fetcher /\ r.pc = "frame" /\ r.i = f.i /\ r.j = f.j /\ r.frames # <<>>
      BY <1>2, HandleFields
    <3>2. <<>> \in Messages /\ Becomes(g, "agg", r, <<>>)
      BY <2>2 DEF Messages
    <3> HIDE DEF r
    <3> QED
      BY <3>1, <3>2
  <2> QED
    BY <1>4, <2>1, <2>2
<1>7. Step(g, "agg", r, m) /\ m \in Seq(Reports)
  BY <1>1, <1>4, <1>6, FrameStep
<1>8. r.pc \notin {"wait", "mwait", "fwait"}
  BY <1>6
<1>10. /\ Noted(Head(chan[c]), Want("agg", job[g], fetch[g]["agg"]), c)
       /\ c \in Listens(fetch[g]["agg"], "agg")
  <2>1. Want("agg", job[g], fetch[g]["agg"]) = t
    BY <1>2 DEF Want
  <2>2. c \in Listens(fetch[g]["agg"], "agg")
    BY <1>2, ListensFacts
  <2> QED
    BY <1>4, <2>1, <2>2
<1> HIDE DEF f, x, t
<1> QED
  BY <1>0, <1>4, <1>5, <1>7, <1>8, <1>10, TakeAction, AggKind

\* Only the goroutine in front changes: its program counter, and no count.
LEMMA MainStep ==
    ASSUME Types, NEW p \in {"idle", "collect", "gather", "fetched", "crashed"},
           main' = [main EXCEPT !.pc = p]
    PROVE  /\ main' \in Main /\ main'.pc = p
           /\ main'.gen = main.gen /\ main'.cnt = main.cnt /\ main'.calls = main.calls
BY DEF Types, Main

LEMMA CrashIInv ==
    ASSUME IInv, main' = [main EXCEPT !.pc = "crashed"], Leaves({"agg", "funds"}),
           UNCHANGED <<fetch, errs, open, closed, stash, chan, replies, job, slots, funds, prep>>
    PROVE  IInv'
<1>1. Types /\ Core /\ Net
  BY DEF IInv
<1>2. /\ main' \in Main /\ main'.pc = "crashed"
      /\ main'.gen = main.gen /\ main'.cnt = main.cnt /\ main'.calls = main.calls
  BY <1>1, MainStep
<1>3. CallInv' /\ PlaceInv' /\ OutInv' /\ ReportInv' /\ OkInv'
  <2>1. CallInv'
    BY <1>1, <1>2 DEF Core, CallInv
  <2>2. PlaceInv' /\ OutInv'
    BY <1>1 DEF Core, PlaceInv, OutInv
  <2>3. OkInv'
    BY <1>1 DEF Core, OkInv, CleanNow
  <2>4. ReportInv'
    BY <1>2 DEF ReportInv
  <2> QED
    BY <2>1, <2>2, <2>3, <2>4
<1>4. AnswerInv' /\ StashFilters' /\ seen' \in Seen
  <2>1. PICK g : g \in Calls
    BY TxFetchAssumption, SMTT(30) DEF Calls
  <2>2. Placed("agg", job[g], fetch[g]["agg"])
    BY <1>1, <2>1, AggKind DEF Core, PlaceInv
  <2>3. Listens(fetch[g]["agg"], "agg") \subseteq Together("agg")
    BY <2>2, ListensTogether
  <2> QED
    BY <1>1, <2>1, <2>3, LeaveStep, AggKind, BothLeave DEF Net
<1>5. StashInv'
  BY <1>1 DEF Net, StashInv
<1>6. Types'
  BY <1>1, <1>2, <1>4 DEF Types
<1> QED
  BY <1>3, <1>4, <1>5, <1>6 DEF IInv, Core, Net

LEMMA FrameTimeOutIInv ==
    ASSUME IInv, NEW g \in Calls, FrameTimeOut(g)
    PROVE  IInv'
<1> DEFINE f == fetch[g]["agg"]
           t == Head(Last(f.frames).todo)
<1>1. Ready(g, "agg", "fwait") /\ "fwait" \in {"frame", "fwait"}
  BY DEF FrameTimeOut
<1>2. /\ f \in Fetcher /\ f.pc = "fwait" /\ f.frames # <<>> /\ Last(f.frames).todo # <<>>
      /\ t \in Tx
  BY <1>1, FrameFacts
<1>3. /\ Leaves({"agg", "funds"})
      /\ UNCHANGED <<closed, stash, chan, replies, job, slots, funds, prep>>
      /\ \/ Becomes(g, "agg", Handle(f, t), <<>>) /\ open' = open \cup {t} /\ UNCHANGED main
         \/ main' = [main EXCEPT !.pc = "crashed"] /\ UNCHANGED <<fetch, errs, open>>
         \/ Return(g, f, <<>>, TRUE) /\ UNCHANGED <<open, main>>
  BY DEF FrameTimeOut, Top
<1>4. CASE main' = [main EXCEPT !.pc = "crashed"] /\ UNCHANGED <<fetch, errs, open>>
  BY <1>3, <1>4, CrashIInv
<1>5. CASE /\ UNCHANGED main
           /\ \/ Becomes(g, "agg", Handle(f, t), <<>>) /\ open' = open \cup {t}
              \/ Return(g, f, <<>>, TRUE) /\ UNCHANGED open
  <2>1. open' \in SUBSET Tx
    BY <1>2, <1>5 DEF IInv, Types
  <2>2. PICK r \in Fetcher, m \in Messages :
              /\ r.j = f.j
              /\ \/ r.pc = "frame" /\ r.i = f.i /\ r.frames # <<>>
                 \/ r.pc = "next" /\ r.i = f.i + 1
                 \/ r.pc = "done" /\ r.i = f.i /\ m # <<>>
              /\ Becomes(g, "agg", r, m)
    <3>1. CASE Return(g, f, <<>>, TRUE)
      <4> HIDE DEF f
      <4>1. <<>> \in Seq(Tx) /\ TRUE \in BOOLEAN
        OBVIOUS
      <4> QED
        BY <1>2, <3>1, <4>1, ReturnEffect
    <3>2. CASE Becomes(g, "agg", Handle(f, t), <<>>)
      <4> DEFINE r == Handle(f, t)
      <4>1. r \in Fetcher /\ r.pc = "frame" /\ r.i = f.i /\ r.j = f.j /\ r.frames # <<>>
        BY <1>2, HandleFields
      <4>2. <<>> \in Messages /\ Becomes(g, "agg", r, <<>>)
        BY <3>2 DEF Messages
      <4> HIDE DEF r
      <4> QED
        BY <4>1, <4>2
    <3> QED
      BY <1>5, <3>1, <3>2
  <2>3. Step(g, "agg", r, m) /\ m \in Seq(Reports)
    BY <1>1, <1>3, <1>5, <2>2, FrameStep
  <2> QED
    BY <1>3, <2>1, <2>3, LeaveAction, AggKind, BothLeave
<1> QED
  BY <1>3, <1>4, <1>5

LEMMA FetchersIInv ==
    ASSUME IInv, NEW g \in Calls, Fetchers(g)
    PROVE  IInv'
<1>1. ASSUME NEW k \in Kinds, k # "agg", Plain(g, k) PROVE IInv'
  BY <1>1, ErrSendIInv, FinishIInv, LookIInv, RequestIInv, TakeIInv DEF Plain
<1>2. \A k \in {"acc", "update", "config", "stake", "funds"} : k \in Kinds /\ k # "agg"
  BY DEF Kinds
<1>3. CASE fetchAccTxData(g) \/ fetchUpdateTxData(g)
  BY <1>1, <1>2, <1>3, GoOnWithNilIInv DEF fetchAccTxData, fetchUpdateTxData
<1>4. CASE fetchConfigTxData(g) \/ fetchStakeTxData(g)
  BY <1>1, <1>2, <1>4, GiveUpIInv DEF fetchConfigTxData, fetchStakeTxData
<1>5. CASE fetchFundsTxData(g)
  BY <1>1, <1>2, <1>5, GiveUpIInv, LookInStashIInv DEF fetchFundsTxData
<1>6. CASE fetchAggTxData(g)
  BY <1>6, AggKind, ErrSendIInv, FinishIInv, AggLookIInv, AggRequestIInv, AggTakeIInv,
     AggTimeOutIInv, MemberLookIInv, MemberRequestIInv, MemberTimeOutIInv, MemberTakeIInv
     DEF fetchAggTxData
<1>7. CASE fetchFundsTxRecursively(g)
  BY <1>7, FrameLookIInv, FrameRequestIInv, FrameTakeIInv, FrameTimeOutIInv
     DEF fetchFundsTxRecursively
<1> QED
  BY <1>3, <1>4, <1>5, <1>6, <1>7 DEF Fetchers

----------------------------------------------------------------------------
(* The network and prepareBlock.                                           *)

LEMMA CoreKept ==
    ASSUME Types, Core, UNCHANGED <<closed, job, fetch, errs, slots, funds, main>>
    PROVE  Core'
<1>1. CallInv' /\ PlaceInv' /\ OutInv' /\ OkInv'
  BY DEF Core, CallInv, PlaceInv, OutInv, OkInv, CleanNow
<1>2. ReportInv'
  <2> SUFFICES ASSUME main.pc \in {"collect", "gather"}
               PROVE  \E C \in SUBSET Kinds, o \in Seq(Kinds) : Attributed(main.gen, C, o)'
    BY DEF ReportInv
  <2>1. main.gen \in Calls
    BY GenInCalls DEF Core
  <2>2. PICK C \in SUBSET Kinds, o \in Seq(Kinds) : Attributed(main.gen, C, o)
    BY DEF Core, ReportInv
  <2>3. ASSUME NEW h \in Calls, h = main.gen PROVE Attributed(h, C, o)'
    <3>1. Attributed(h, C, o)
      BY <2>2, <2>3
    <3> QED
      BY <3>1, AttributedKept
  <2>4. \A h \in Calls : h = main.gen => Attributed(h, C, o)'
    BY <2>3
  <2>5. main'.gen = main.gen
    OBVIOUS
  <2>6. Attributed(main.gen, C, o)'
    BY <2>1, <2>4, <2>5
  <2> QED
    BY <2>6
<1> QED
  BY <1>1, <1>2 DEF Core

LEMMA BrdcstIInv ==
    ASSUME IInv, NEW t \in Tx, processTxBrdcst(t)
    PROVE  IInv'
<1>1. /\ UNCHANGED <<closed, stash, chan, replies, job, fetch, errs, slots, funds, main, prep, seen>>
      /\ open' = open \cup {t}
  BY DEF processTxBrdcst
<1>2. Types'
  BY <1>1 DEF IInv, Types
<1>3. Core'
  BY <1>1, CoreKept DEF IInv
<1>4. StashInv' /\ StashFilters'
  BY <1>1 DEF IInv, Net, StashInv, StashFilters
<1>5. AnswerInv'
  BY <1>1 DEF IInv, Net, AnswerInv, Free, Hears, UnderWay, Awaited
<1> QED
  BY <1>2, <1>3, <1>4, <1>5 DEF IInv, Net

LEMMA ForwardEffect ==
    ASSUME Types, StashInv, NEW t \in Tx, forwardTxReqToMiner(t)
    PROVE  /\ replies' \in [Tx -> 0..MaxReplies]
           /\ \A u \in Tx : replies'[u] > 0 => replies[u] > 0
           /\ chan' \in [Kinds -> Seq(Tx)] /\ stash' \in [Kinds -> Seq(Tx)]
           /\ StashInv'
           /\ \A c \in Kinds : \A j \in 1..Len(stash[c]) :
                 \E i \in 1..Len(stash'[c]) : stash'[c][i] = stash[c][j]
           /\ \A c \in Kinds : \A i \in 1..Len(chan'[c]) :
                 \/ \E j \in 1..Len(chan[c]) : chan[c][j] = chan'[c][i]
                 \/ /\ chan'[c][i] = t /\ replies[t] > 0
                    /\ c \in Stashed => \A j \in 1..Len(stash[c]) : stash[c][j] # t
<1> DEFINE k == KindOf[t]
<1>1. k \in Kinds
  BY TxFetchAssumption
<1>2. replies[t] > 0 /\ replies[t] \in 0..MaxReplies /\ MaxReplies \in Nat
  BY TxFetchAssumption DEF forwardTxReqToMiner, Types
<1>3. /\ replies' \in [Tx -> 0..MaxReplies]
      /\ \A u \in Tx : replies'[u] > 0 => replies[u] > 0
  <2> DEFINE v == replies[t] - 1
  <2>1. v \in 0..MaxReplies
    BY <1>2
  <2>2. replies' = [replies EXCEPT ![t] = v]
    BY DEF forwardTxReqToMiner
  <2> HIDE DEF v
  <2> QED
    BY <1>2, <2>1, <2>2 DEF Types
<1>4. CASE UNCHANGED <<stash, chan>>
  BY <1>3, <1>4 DEF Types, StashInv
<1>5. CASE /\ chan' = [chan EXCEPT ![k] = Append(@, t)]
           /\ k \in Stashed => /\ stash' = [stash EXCEPT ![k] = Append(@, t)]
                               /\ chan[k] = <<>>
                               /\ \A j \in 1..Len(stash[k]) : stash[k][j] # t
           /\ k \notin Stashed => stash' = stash
  <2> DEFINE ch == Append(chan[k], t)
             st == Append(stash[k], t)
  <2>1. chan[k] \in Seq(Tx) /\ stash[k] \in Seq(Tx)
    BY <1>1 DEF Types
  <2>2. /\ ch \in Seq(Tx) /\ Len(ch) = Len(chan[k]) + 1
        /\ \A i \in 1..Len(chan[k]) : ch[i] = chan[k][i]
        /\ ch[Len(chan[k]) + 1] = t
    BY <2>1, AppendProperties
  <2>3. /\ st \in Seq(Tx) /\ Len(st) = Len(stash[k]) + 1
        /\ \A i \in 1..Len(stash[k]) : st[i] = stash[k][i]
        /\ st[Len(stash[k]) + 1] = t
    BY <2>1, AppendProperties
  <2>4. chan' = [chan EXCEPT ![k] = ch] /\ (k \in Stashed => stash' = [stash EXCEPT ![k] = st])
    BY <1>5
  <2> HIDE DEF ch, st
  <2>5. /\ chan' \in [Kinds -> Seq(Tx)] /\ stash' \in [Kinds -> Seq(Tx)]
        /\ chan'[k] = ch /\ \A c \in Kinds : c # k => chan'[c] = chan[c] /\ stash'[c] = stash[c]
        /\ k \in Stashed => stash'[k] = st
        /\ k \notin Stashed => stash'[k] = stash[k]
    <3>1. chan' \in [Kinds -> Seq(Tx)] /\ chan'[k] = ch /\ \A c \in Kinds : c # k => chan'[c] = chan[c]
      BY <1>1, <2>2, <2>4 DEF Types
    <3>2. CASE k \in Stashed
      <4> HIDE DEF k
      <4>1. stash \in [Kinds -> Seq(Tx)] /\ st \in Seq(Tx) /\ stash' = [stash EXCEPT ![k] = st]
        BY <2>3, <2>4, <3>2 DEF Types
      <4>2. /\ stash' \in [Kinds -> Seq(Tx)] /\ stash'[k] = st
            /\ \A c \in Kinds : c # k => stash'[c] = stash[c]
        BY <1>1, <4>1
      <4> QED
        BY <3>1, <3>2, <4>2
    <3>3. CASE k \notin Stashed
      BY <1>5, <3>1, <3>3 DEF Types
    <3> QED
      BY <3>2, <3>3
  <2>6. \A i \in 1..Len(ch) : i \in 1..Len(chan[k]) \/ i = Len(chan[k]) + 1
    BY <2>1, <2>2
  <2>7. \A j \in 1..Len(stash[k]) : j \in 1..Len(st)
    BY <2>1, <2>3
  <2>8. Len(st) \in 1..Len(st) /\ st[Len(st)] = t
    BY <2>1, <2>3
  <2>9. \A c \in Kinds : \A j \in 1..Len(stash[c]) :
                 \E i \in 1..Len(stash'[c]) : stash'[c][i] = stash[c][j]
    <3> TAKE c \in Kinds
    <3>1. CASE c # k
      BY <2>5, <3>1
    <3>2. CASE c = k /\ k \notin Stashed
      BY <2>5, <3>2
    <3>3. CASE c = k /\ k \in Stashed
      BY <2>3, <2>5, <2>7, <3>3
    <3> QED
      BY <3>1, <3>2, <3>3
  <2>10. \A c \in Kinds : \A i \in 1..Len(chan'[c]) :
                 \/ \E j \in 1..Len(chan[c]) : chan[c][j] = chan'[c][i]
                 \/ /\ chan'[c][i] = t /\ replies[t] > 0
                    /\ c \in Stashed => \A j \in 1..Len(stash[c]) : stash[c][j] # t
    <3> TAKE c \in Kinds
    <3> TAKE i \in 1..Len(chan'[c])
    <3>1. CASE c # k
      BY <2>5, <3>1
    <3>2. CASE c = k
      <4>1. i \in 1..Len(ch) /\ chan'[c][i] = ch[i]
        BY <2>5, <3>2
      <4>2. CASE i \in 1..Len(chan[k])
        BY <2>2, <3>2, <4>1, <4>2
      <4>3. CASE i = Len(chan[k]) + 1
        BY <1>2, <1>5, <2>2, <3>2, <4>1, <4>3
      <4> QED
        BY <2>6, <4>1, <4>2, <4>3
    <3> QED
      BY <3>1, <3>2
  <2>11. StashInv'
    <3>1. ASSUME NEW c \in Kinds PROVE /\ \A i \in 1..Len(chan'[c]) : KindOf[chan'[c][i]] = c
                                       /\ Len(stash'[c]) <= StashMax + 1
      <4>1. CASE c # k
        BY <2>5, <4>1 DEF StashInv
      <4>2. CASE c = k
        <5>1. \A i \in 1..Len(chan'[c]) : KindOf[chan'[c][i]] = c
          <6> SUFFICES ASSUME NEW i \in 1..Len(ch) PROVE KindOf[ch[i]] = k
            BY <2>5, <4>2
          <6>1. CASE i \in 1..Len(chan[k])
            BY <1>1, <2>2, <6>1 DEF StashInv
          <6>2. CASE i = Len(chan[k]) + 1
            BY <2>2, <6>2
          <6> QED
            BY <2>6, <6>1, <6>2
        <5>2. Len(stash'[c]) <= StashMax + 1
          <6>1. CASE k \notin Stashed
            BY <1>1, <2>5, <4>2, <6>1 DEF StashInv
          <6>2. CASE k \in Stashed
            <7>1. Len(stash[k]) <= StashMax /\ Len(stash[k]) \in Nat /\ StashMax \in Nat
              BY <1>5, <2>1, <6>2, TxFetchAssumption DEF StashInv
            <7> QED
              BY <2>3, <2>5, <4>2, <6>2, <7>1
          <6> QED
            BY <6>1, <6>2
        <5> QED
          BY <5>1, <5>2
      <4> QED
        BY <4>1, <4>2
    <3>2. ASSUME NEW c \in Stashed
          PROVE  /\ Len(chan'[c]) <= 1
                 /\ chan'[c] = <<>> => Len(stash'[c]) <= StashMax
                 /\ \A i \in 1..Len(chan'[c]) : \E j \in 1..Len(stash'[c]) : stash'[c][j] = chan'[c][i]
      <4>0. c \in Kinds
        BY KindsFacts
      <4>1. CASE c # k
        <5>1. chan'[c] = chan[c] /\ stash'[c] = stash[c]
          BY <2>5, <4>0, <4>1
        <5>2. /\ Len(chan[c]) <= 1
              /\ chan[c] = <<>> => Len(stash[c]) <= StashMax
              /\ \A i \in 1..Len(chan[c]) : \E j \in 1..Len(stash[c]) : stash[c][j] = chan[c][i]
          BY DEF StashInv
        <5> QED
          BY <5>1, <5>2
      <4>2. CASE c = k
        <5>1. chan'[c] = ch /\ stash'[c] = st /\ chan[k] = <<>>
          BY <1>5, <2>5, <4>2
        <5>2. Len(ch) = 1 /\ ch[1] = t
          BY <2>1, <2>2, <5>1
        <5>3. \A i \in 1..Len(ch) : i = 1
          BY <5>2
        <5>4. ch # <<>>
          BY <5>2
        <5> QED
          BY <2>8, <5>1, <5>2, <5>3, <5>4
      <4> QED
        BY <4>1, <4>2
    <3>3. stash'["config"] = <<>>
      BY <2>5, KindsFacts DEF StashInv, Stashed
    <3> QED
      BY <3>1, <3>2, <3>3 DEF StashInv
  <2> QED
    BY <1>3, <2>5, <2>9, <2>10, <2>11
<1>6. \/ UNCHANGED <<stash, chan>>
      \/ /\ chan' = [chan EXCEPT ![k] = Append(@, t)]
         /\ k \in Stashed => /\ stash' = [stash EXCEPT ![k] = Append(@, t)]
                             /\ chan[k] = <<>>
                             /\ ~ AlreadyInStash(k, t)
         /\ k \notin Stashed => stash' = stash
  BY DEF forwardTxReqToMiner
<1>7. AlreadyInStash(k, t) <=> \E j \in 1..Len(stash[k]) : stash[k][j] = t
  BY DEF AlreadyInStash, Contains
<1> QED
  BY <1>4, <1>5, <1>6, <1>7

LEMMA ForwardIInv ==
    ASSUME IInv, NEW t \in Tx, forwardTxReqToMiner(t)
    PROVE  IInv'
<1>1. Types /\ StashInv /\ AnswerInv /\ StashFilters
  BY DEF IInv, Net
<1>2. UNCHANGED <<closed, open, job, fetch, errs, slots, funds, main, prep, seen>>
  BY DEF forwardTxReqToMiner
<1>3. /\ replies' \in [Tx -> 0..MaxReplies]
      /\ \A u \in Tx : replies'[u] > 0 => replies[u] > 0
      /\ chan' \in [Kinds -> Seq(Tx)] /\ stash' \in [Kinds -> Seq(Tx)]
      /\ StashInv'
      /\ \A c \in Kinds : \A j \in 1..Len(stash[c]) :
            \E i \in 1..Len(stash'[c]) : stash'[c][i] = stash[c][j]
      /\ \A c \in Kinds : \A i \in 1..Len(chan'[c]) :
            \/ \E j \in 1..Len(chan[c]) : chan[c][j] = chan'[c][i]
            \/ /\ chan'[c][i] = t /\ replies[t] > 0
               /\ c \in Stashed => \A j \in 1..Len(stash[c]) : stash[c][j] # t
  BY <1>1, ForwardEffect
<1>4. ASSUME NEW c \in Stashed, NEW u \in Tx, UnderWay(u, c)' PROVE UnderWay(u, c)
  <2>0. c \in Kinds
    BY KindsFacts
  <2>1. CASE \E i \in 1..Len(chan'[c]) : chan'[c][i] = u
    BY <1>3, <2>0, <2>1 DEF UnderWay
  <2>2. CASE replies'[u] > 0 /\ \A j \in 1..Len(stash'[c]) : stash'[c][j] # u
    <3>1. ASSUME NEW j \in 1..Len(stash[c]) PROVE stash[c][j] # u
      <4>1. PICK i \in 1..Len(stash'[c]) : stash'[c][i] = stash[c][j]
        BY <1>3, <2>0
      <4> QED
        BY <2>2, <4>1
    <3> QED
      BY <1>3, <2>2, <3>1 DEF UnderWay
  <2> QED
    BY <1>4, <2>1, <2>2 DEF UnderWay
<1>5. ASSUME NEW c \in Stashed, Free(c)' PROVE Orderly(c)'
  <2>1. Free(c)
    BY <1>2, <1>5 DEF Free
  <2>2. Orderly(c)
    BY <1>1, <2>1, AnswerOrderly
  <2>3. \A u \in Tx : KindOf[u] = c /\ UnderWay(u, c)' => Awaited(u, c)'
    BY <1>2, <1>4, <2>2 DEF Orderly, Awaited, Hears
  <2> QED
    BY <1>2, <2>2, <2>3 DEF Orderly, Hears
<1>6. AnswerInv'
  BY <1>5 DEF AnswerInv, Orderly
<1>7. StashFilters'
  BY <1>1, <1>2 DEF StashFilters
<1>8. Types'
  BY <1>1, <1>2, <1>3 DEF Types
<1>9. Core'
  BY <1>2, CoreKept DEF IInv
<1> QED
  BY <1>3, <1>6, <1>7, <1>8, <1>9 DEF IInv, Net

\* The channels on which prepareBlock does not wait are as they were.
LEMMA SeekElsewhere ==
    ASSUME AnswerInv, NEW c \in Stashed, c # "funds", Free(c)', UNCHANGED <<job, fetch>>,
           seen.loose \subseteq seen'.loose, seen.shared \subseteq seen'.shared,
           stash'[c] = stash[c], chan'[c] = chan[c],
           \A t \in Tx : KindOf[t] = c => replies'[t] = replies[t]
    PROVE  Orderly(c)'
<1>1. Orderly(c)
  BY FreeBefore, AnswerOrderly
<1>2. \A h \in Calls, l \in Kinds :
              /\ c \in Listens(fetch'[h][l], l) <=> c \in Listens(fetch[h][l], l)
              /\ c \in Listens(fetch[h][l], l) =>
                    Want(l, job'[h], fetch'[h][l]) = Want(l, job[h], fetch[h][l])
  OBVIOUS
<1> QED
  BY <1>1, <1>2, OrderlyKept

LEMMA SeekMissingIInv ==
    ASSUME IInv, NEW t \in Tx, SeekMissing(t)
    PROVE  IInv'
<1> DEFINE S == {c \in {"funds"} :
                   \E h \in Calls, l \in Kinds : c \in Listens(fetch[h][l], l)}
<1>1. Types /\ StashInv /\ AnswerInv /\ StashFilters
  BY DEF IInv, Net
<1>2. /\ UNCHANGED <<closed, open, stash, chan, job, fetch, errs, slots, funds, main>>
      /\ prep = NoTx /\ prep' = t /\ KindOf[t] = "funds" /\ TxReq(t)
  BY DEF SeekMissing
<1>3. /\ seen' \in Seen
      /\ seen'.loose = seen.loose /\ seen'.shared = seen.shared \cup S
      /\ seen'.wrong = seen.wrong
  <2>1. S \in SUBSET Kinds
    BY AggKind
  <2>2. seen' = [seen EXCEPT !.shared = @ \cup S]
    BY DEF SeekMissing
  <2> HIDE DEF S
  <2> QED
    BY <1>1, <2>1, <2>2 DEF Types, Seen
<1>4. /\ replies' \in [Tx -> 0..MaxReplies]
      /\ \A u \in Tx : u # t => replies'[u] = replies[u]
  BY <1>1, <1>2, TxReqEffect
<1>5. ASSUME Free("funds")' PROVE Orderly("funds")'
  <2>1. Orderly("funds")
    BY <1>1, <1>3, <1>5, FreeBefore, AnswerOrderly, KindsFacts
  <2>2. "funds" \notin S
    BY <1>3, <1>5, TogetherFacts DEF Free
  <2>3. \A h \in Calls, l \in Kinds : ~ Hears(h, l, "funds")
    BY <2>2 DEF Hears
  <2>4. \A h \in Calls, l \in Kinds : ~ Hears(h, l, "funds")'
    BY <1>2, <2>3 DEF Hears
  <2>5. ASSUME NEW u \in Tx, KindOf[u] = "funds", UnderWay(u, "funds")' PROVE Awaited(u, "funds")'
    <3>1. CASE u = t
      BY <1>2, <3>1 DEF Awaited
    <3>2. CASE u # t
      <4>1. UnderWay(u, "funds")
        BY <1>2, <1>4, <2>5, <3>2 DEF UnderWay
      <4>2. Awaited(u, "funds")
        BY <2>1, <2>5, <4>1 DEF Orderly
      <4>3. prep = u
        BY <2>3, <4>2 DEF Awaited
      <4> QED
        BY <1>2, <4>3, TxFetchAssumption
    <3> QED
      BY <3>1, <3>2
  <2> QED
    BY <2>4, <2>5 DEF Orderly
<1>6. ASSUME NEW c \in Stashed, Free(c)' PROVE Orderly(c)'
  <2>1. CASE c = "funds"
    BY <1>5, <1>6, <2>1
  <2>2. CASE c # "funds"
    BY <1>1, <1>2, <1>3, <1>4, <1>6, <2>2, SeekElsewhere
  <2> QED
    BY <2>1, <2>2
<1>7. AnswerInv'
  BY <1>6 DEF AnswerInv, Orderly
<1>8. StashFilters'
  BY <1>1, <1>3, FiltersKept
<1>9. Types'
  BY <1>1, <1>2, <1>3, <1>4 DEF Types
<1>10. Core' /\ StashInv'
  BY <1>1, <1>2, CoreKept DEF IInv, StashInv
<1> QED
  BY <1>7, <1>8, <1>9, <1>10 DEF IInv, Net

LEMMA SeekTakeIInv ==
    ASSUME IInv, SeekTake
    PROVE  IInv'
<1> DEFINE x == Head(chan["funds"])
<1>1. Types /\ StashInv /\ AnswerInv /\ StashFilters
  BY DEF IInv, Net
<1>2. /\ UNCHANGED <<closed, replies, job, fetch, errs, slots, funds, main>>
      /\ prep # NoTx /\ prep' = NoTx /\ Receive("funds") /\ Noted(x, prep, "funds")
      /\ open' = open \/ open' = open \cup {x}
  BY DEF SeekTake
<1>3. /\ x \in Tx /\ KindOf[x] = "funds"
      /\ \E i \in 1..Len(chan["funds"]) : chan["funds"][i] = x
      /\ chan' \in [Kinds -> Seq(Tx)] /\ stash' \in [Kinds -> Seq(Tx)]
      /\ StashInv'
      /\ \A d \in Kinds : d # "funds" => chan'[d] = chan[d] /\ stash'[d] = stash[d]
      /\ chan'["funds"] = <<>>
      /\ Len(stash["funds"]) > StashMax \/ stash'["funds"] = stash["funds"]
      /\ \E j \in 1..Len(stash["funds"]) : stash["funds"][j] = x
  BY <1>1, <1>2, ReceiveEffect, KindsFacts, AggKind
<1>4. /\ seen' \in Seen
      /\ seen.loose \subseteq seen'.loose /\ seen'.shared = seen.shared
      /\ Len(stash["funds"]) > StashMax => "funds" \in seen'.loose
      /\ x = prep => seen'.wrong = seen.wrong
      /\ seen'.wrong \subseteq seen.wrong \cup {"funds"}
  BY <1>1, <1>2, NotedEffect, AggKind
<1> HIDE DEF x
<1>5. ASSUME Free("funds")' PROVE Orderly("funds") /\ x = prep /\ Orderly("funds")'
  <2>1. Orderly("funds")
    BY <1>1, <1>4, <1>5, FreeBefore, AnswerOrderly, KindsFacts
  <2>2. \A h \in Calls, l \in Kinds : ~ Hears(h, l, "funds")
    BY <1>2, <2>1 DEF Orderly
  <2>3. ASSUME NEW u \in Tx, KindOf[u] = "funds", UnderWay(u, "funds") PROVE u = prep
    BY <2>1, <2>2, <2>3 DEF Orderly, Awaited
  <2>4. x = prep
    BY <1>3, <2>3 DEF UnderWay
  <2>5. "funds" \notin seen'.loose
    BY <1>5, TogetherFacts DEF Free
  <2>6. stash'["funds"] = stash["funds"]
    BY <1>3, <1>4, <2>5
  <2>7. \A h \in Calls, l \in Kinds : ~ Hears(h, l, "funds")'
    BY <1>2, <2>2 DEF Hears
  <2>8. ASSUME NEW u \in Tx, KindOf[u] = "funds", UnderWay(u, "funds")' PROVE FALSE
    <3>1. \A i \in 1..Len(chan'["funds"]) : FALSE
      BY <1>3
    <3>2. replies'[u] > 0 /\ \A j \in 1..Len(stash'["funds"]) : stash'["funds"][j] # u
      BY <2>8, <3>1 DEF UnderWay
    <3>3. UnderWay(u, "funds")
      BY <1>2, <2>6, <3>2 DEF UnderWay
    <3>4. u = x
      BY <2>3, <2>4, <2>8, <3>3
    <3> QED
      BY <1>3, <2>6, <3>2, <3>4
  <2> QED
    BY <2>1, <2>4, <2>7, <2>8 DEF Orderly
<1>6. ASSUME NEW c \in Stashed, Free(c)' PROVE Orderly(c)'
  <2>1. CASE c = "funds"
    BY <1>5, <1>6, <2>1
  <2>2. CASE c # "funds"
    BY <1>1, <1>2, <1>3, <1>4, <1>6, <2>2, SeekElsewhere, KindsFacts
  <2> QED
    BY <2>1, <2>2
<1>7. AnswerInv'
  BY <1>6 DEF AnswerInv, Orderly
<1>8. StashFilters'
  BY <1>1, <1>4, <1>5, FiltersKept
<1>9. Types'
  <2>1. open' \subseteq Tx /\ prep' \in Tx \cup {NoTx}
    BY <1>1, <1>2, <1>3 DEF Types
  <2> QED
    BY <1>1, <1>2, <1>3, <1>4, <2>1 DEF Types
<1>10. Core'
  BY <1>1, <1>2, CoreKept DEF IInv
<1> QED
  BY <1>3, <1>7, <1>8, <1>9, <1>10 DEF IInv, Net

LEMMA SeekTimeOutIInv ==
    ASSUME IInv, SeekTimeOut
    PROVE  IInv'
<1>1. Types /\ StashInv /\ AnswerInv /\ StashFilters
  BY DEF IInv, Net
<1>2. /\ UNCHANGED <<closed, stash, chan, replies, job, fetch, errs, slots, funds, main>>
      /\ prep # NoTx /\ prep' = NoTx /\ Leaves({"funds"})
      /\ open' = open \/ open' = open \cup {prep}
  BY DEF SeekTimeOut
<1>3. /\ seen' \in Seen
      /\ seen'.loose = seen.loose \cup {"funds"} /\ seen'.shared = seen.shared
      /\ seen'.wrong = seen.wrong
  BY <1>1, <1>2, AggKind DEF Leaves, Types, Seen
<1>4. ASSUME NEW c \in Stashed, Free(c)' PROVE Orderly(c)'
  <2>1. c # "funds"
    BY <1>3, <1>4, TogetherFacts DEF Free
  <2> QED
    BY <1>1, <1>2, <1>3, <1>4, <2>1, SeekElsewhere
<1>5. AnswerInv'
  BY <1>4 DEF AnswerInv, Orderly
<1>6. StashFilters'
  BY <1>1, <1>3, FiltersKept
<1>7. Types'
  <2>1. open' \subseteq Tx /\ prep' \in Tx \cup {NoTx}
    BY <1>1, <1>2 DEF Types
  <2> QED
    BY <1>1, <1>2, <1>3, <2>1 DEF Types
<1>8. Core' /\ StashInv'
  BY <1>1, <1>2, CoreKept DEF IInv, StashInv
<1> QED
  BY <1>5, <1>6, <1>7, <1>8 DEF IInv, Net

----------------------------------------------------------------------------
(* The goroutine that holds blockValidation.                               *)

LEMMA NetKept ==
    ASSUME Net, UNCHANGED <<stash, chan, replies, prep, seen>>,
           \A h \in Calls, l \in Kinds :
              /\ Listens(fetch'[h][l], l) = Listens(fetch[h][l], l)
              /\ Listens(fetch[h][l], l) # {} =>
                    Want(l, job'[h], fetch'[h][l]) = Want(l, job[h], fetch[h][l])
    PROVE  Net'
<1>1. ASSUME NEW c \in Stashed, Free(c)' PROVE Orderly(c)'
  <2>1. Orderly(c)
    BY <1>1, FreeBefore, AnswerOrderly DEF Net
  <2>2. \A h \in Calls, l \in Kinds :
              /\ c \in Listens(fetch'[h][l], l) <=> c \in Listens(fetch[h][l], l)
              /\ c \in Listens(fetch[h][l], l) =>
                    Want(l, job'[h], fetch'[h][l]) = Want(l, job[h], fetch[h][l])
    OBVIOUS
  <2> QED
    BY <2>1, <2>2, OrderlyKept
<1>2. AnswerInv'
  BY <1>1 DEF AnswerInv, Orderly
<1>3. StashInv' /\ StashFilters'
  BY DEF Net, StashInv, StashFilters
<1> QED
  BY <1>2, <1>3 DEF Net

\* The result of a call changes, not what it is about.
LEMMA ResultStep ==
    ASSUME Types, NEW g \in Calls, NEW res \in Results, job' = [job EXCEPT ![g].result = res]
    PROVE  /\ job' \in [Calls -> Job] /\ job'[g].result = res
           /\ \A h \in Calls : job'[h].block = job[h].block /\ job'[h].init = job[h].init
           /\ \A h \in Calls : h # g => job'[h] = job[h]
<1> DEFINE r == [job[g] EXCEPT !.result = res]
<1>1. job[g] \in Job
  BY DEF Types
<1>2. r \in Job /\ r.result = res /\ r.block = job[g].block /\ r.init = job[g].init
  BY <1>1 DEF Job
<1>3. job' = [job EXCEPT ![g] = r]
  OBVIOUS
<1> HIDE DEF r
<1> QED
  BY <1>2, <1>3 DEF Types

LEMMA JobSame ==
    ASSUME NEW k, NEW jb, NEW jb2, NEW f, jb2.block = jb.block, jb2.init = jb.init
    PROVE  /\ Placed(k, jb, f) => Placed(k, jb2, f)
           /\ Want(k, jb2, f) = Want(k, jb, f)
<1>1. Named(jb2, k) = Named(jb, k)
  BY DEF Named
<1> QED
  BY <1>1 DEF Placed, Want

\* What a step of this goroutine leaves alone.
LEMMA SameCalls ==
    ASSUME IInv, UNCHANGED <<stash, chan, replies, fetch, slots, funds, prep, seen>>,
           \A h \in Calls : job'[h].block = job[h].block /\ job'[h].init = job[h].init
    PROVE  PlaceInv' /\ OutInv' /\ Net'
<1>1. PlaceInv'
  BY JobSame DEF IInv, Core, PlaceInv
<1>2. OutInv'
  BY DEF IInv, Core, OutInv
<1>3. Net'
  <2>1. \A h \in Calls, l \in Kinds : Want(l, job'[h], fetch'[h][l]) = Want(l, job[h], fetch[h][l])
    BY JobSame
  <2> QED
    BY <2>1, NetKept DEF IInv
<1> QED
  BY <1>1, <1>2, <1>3

LEMMA GatherIInv ==
    ASSUME IInv, Gather
    PROVE  IInv'
<1> DEFINE g == main.gen
           missing == Blocks[job[g].block]["agg"] # <<>> /\ funds[g] = <<>>
           res == IF missing THEN "err" ELSE "ok"
           p == IF missing THEN "idle" ELSE "fetched"
<1>1. Types /\ CallInv /\ ReportInv /\ OkInv
  BY DEF IInv, Core
<1>2. /\ main.pc = "gather"
      /\ UNCHANGED <<closed, open, stash, chan, replies, fetch, errs, slots, funds, prep, seen>>
      /\ job' = [job EXCEPT ![g].result = res] /\ main' = [main EXCEPT !.pc = p]
  BY DEF Gather
<1>3. g \in Calls
  BY <1>1, <1>2, GenInCalls
<1>4. /\ res \in Results /\ res # "none" /\ p \in {"idle", "fetched"} /\ (p = "fetched" => res = "ok")
  BY DEF Results
<1> HIDE DEF res, p
<1>5. /\ job' \in [Calls -> Job] /\ job'[g].result = res
      /\ \A h \in Calls : job'[h].block = job[h].block /\ job'[h].init = job[h].init
      /\ \A h \in Calls : h # g => job'[h] = job[h]
  BY <1>1, <1>2, <1>3, <1>4, ResultStep
<1>6. /\ main' \in Main /\ main'.pc = p
      /\ main'.gen = main.gen /\ main'.cnt = main.cnt /\ main'.calls = main.calls
  BY <1>1, <1>2, <1>4, MainStep
<1>7. \A k \in Kinds : fetch[g][k].pc = "done" /\ CleanNow(g, k)
  <2>1. PICK C \in SUBSET Kinds, o \in Seq(Kinds) : Attributed(g, C, o)
    BY <1>1, <1>2 DEF ReportInv
  <2>2. Cardinality(C) = nrOfChannels
    BY <1>1, <1>2, <2>1 DEF Attributed, CallInv
  <2>3. C = Kinds
    BY <2>2, KindsFinite, FS_Subset DEF nrOfChannels
  <2> QED
    BY <2>1, <2>3 DEF Attributed
<1>8. CallInv'
  <2>1. g <= main.gen /\ ~ (g > main.gen)
    BY <1>1, Numbers
  <2>2. \A h \in Calls :
          /\ Len(errs'[h]) <= nrOfChannels
          /\ h <= main'.gen => job'[h].block \in DOMAIN Blocks
          /\ h > main'.gen => /\ job'[h].result = "none"
                              /\ errs'[h] = <<>>
                              /\ funds'[h] = <<>>
                              /\ \A k \in Kinds : /\ fetch'[h][k].pc = "done"
                                                  /\ fetch'[h][k].out = <<>>
                                                  /\ slots'[h][k] = <<>>
    BY <1>1, <1>2, <1>5, <1>6, <2>1 DEF CallInv
  <2>3. /\ main'.gen + Len(main'.calls) <= MaxFetches
        /\ main'.pc \in {"collect", "gather", "fetched"} => main'.gen > 0
    BY <1>1, <1>2, <1>6 DEF CallInv
  <2>4. main'.pc = "fetched" => job'[main'.gen].result = "ok"
    BY <1>4, <1>5, <1>6
  <2>5. main'.pc # "gather"
    BY <1>4, <1>6
  <2> QED
    BY <2>2, <2>3, <2>4, <2>5 DEF CallInv
<1>9. PlaceInv' /\ OutInv' /\ Net'
  BY <1>2, <1>5, SameCalls
<1>10. ReportInv'
  BY <1>4, <1>6 DEF ReportInv
<1>11. OkInv'
  <2>1. ASSUME NEW h \in Calls, job'[h].result = "ok", NEW k \in Kinds
        PROVE  fetch'[h][k].pc = "done" /\ CleanNow(h, k)'
    <3>1. fetch[h][k].pc = "done" /\ CleanNow(h, k)
      <4>1. CASE h = g
        BY <1>7, <4>1
      <4>2. CASE h # g
        BY <1>1, <1>5, <2>1, <4>2 DEF OkInv
      <4> QED
        BY <4>1, <4>2
    <3>2. Clean(k, job'[h], closed, fetch[h][k], slots[h][k])
      BY <1>5, <3>1, CleanMore DEF CleanNow
    <3> QED
      BY <1>2, <3>1, <3>2 DEF CleanNow
  <2>2. \A h \in Calls : funds'[h] # <<>> => /\ fetch'[h]["agg"].pc = "done"
                                             /\ funds'[h] = <<fetch'[h]["agg"].trans>>
    BY <1>1, <1>2 DEF OkInv
  <2> QED
    BY <2>1, <2>2 DEF OkInv
<1>12. Types'
  BY <1>1, <1>2, <1>5, <1>6 DEF Types
<1> QED
  BY <1>8, <1>9, <1>10, <1>11, <1>12 DEF IInv, Core

\* A sequence has a longest prefix in T.
LEMMA PrefixIn ==
    ASSUME NEW S, NEW s \in Seq(S), NEW T
    PROVE  \E m \in 0..Len(s) : /\ \A i \in 1..m : s[i] \in T
                                /\ m < Len(s) => ~ s[m + 1] \in T
<1> DEFINE D == {i \in 1..Len(s) : s[i] \notin T}
           n == Len(s)
<1>0. n \in Nat
  OBVIOUS
<1>1. CASE D = {}
  <2>1. \A i \in 1..n : s[i] \in T
    BY <1>1
  <2>2. n \in 0..n /\ ~ (n < n)
    BY <1>0
  <2> QED
    BY <2>1, <2>2
<1>2. CASE D # {}
  <2>1. D \in SUBSET Nat
    OBVIOUS
  <2>2. PICK d \in D : \A y \in D : ~ (<<y, d>> \in OpToRel(<, Nat))
    BY <1>2, <2>1, NatLessThanWellFounded, WFMin
  <2>3. \A y \in D : ~(y < d)
    BY <2>1, <2>2 DEF OpToRel
  <2>4. d \in 1..n /\ s[d] \notin T
    OBVIOUS
  <2> DEFINE m == d - 1
  <2>5. m \in 0..n /\ m + 1 = d
    BY <1>0, <2>4
  <2>6. \A i \in 1..m : i \in 1..n /\ i < d
    BY <1>0, <2>4
  <2>7. \A i \in 1..m : s[i] \in T
    BY <2>3, <2>6
  <2> HIDE DEF m
  <2> QED
    BY <2>4, <2>5, <2>7
<1> QED
  BY <1>1, <1>2

LEMMA MovedTx ==
    ASSUME NEW g, NEW a \in Tx
    PROVE  Moved(g, a) \subseteq Tx
<1> DEFINE s == Members[a]
           T == closed \cup open \cup ToSet(funds[g][1])
           P(m) == /\ \A i \in 1..m : s[i] \in T
                   /\ m < Len(s) => ~ s[m + 1] \in T
           n == CHOOSE m \in 0..Len(s) : P(m)
<1>1. s \in Seq(Inner)
  BY TxFetchAssumption
<1>2. Moved(g, a) = {s[i] : i \in 1..n}
  BY DEF Moved
<1> HIDE DEF s, T
<1>3. \E m \in 0..Len(s) : P(m)
  BY <1>1, PrefixIn
<1> HIDE DEF P
<1>4. n \in 0..Len(s)
  BY <1>3
<1> HIDE DEF n
<1>5. \A i \in 1..n : i \in 1..Len(s)
  BY <1>1, <1>4
<1>6. \A i \in 1..n : s[i] \in Inner
  BY <1>1, <1>5, ElementOfSeq
<1> QED
  BY <1>2, <1>6, InnerTx

LEMMA ToSetType ==
    ASSUME NEW S, NEW s \in Seq(S)
    PROVE  ToSet(s) \subseteq S
<1>1. DOMAIN s = 1..Len(s)
  OBVIOUS
<1>2. \A i \in 1..Len(s) : s[i] \in S
  BY ElementOfSeq
<1> QED
  BY <1>1, <1>2 DEF ToSet

LEMMA FetchedSlots ==
    ASSUME Types, CallInv, OkInv, main.pc = "fetched", NEW k \in Kinds
    PROVE  slots[main.gen][k] \in Seq(Tx)
<1> DEFINE g == main.gen
<1>1. g \in Calls
  BY GenInCalls
<1>2. job[g].result = "ok"
  BY DEF CallInv
<1>3. fetch[g][k].pc = "done" /\ CleanNow(g, k)
  BY <1>1, <1>2 DEF OkInv
<1>4. slots[g][k] = Named(job[g], k)
  BY <1>3 DEF CleanNow, Clean, Filled
<1>5. job[g].block \in DOMAIN Blocks
  BY <1>1, Numbers DEF CallInv
<1> QED
  BY <1>4, <1>5, NamedType

LEMMA ConcludeIInv ==
    ASSUME IInv, NEW valid \in BOOLEAN, Conclude(valid)
    PROVE  IInv'
<1> DEFINE g == main.gen
           own == UNION {ToSet(slots[g][k]) : k \in Kinds}
           inner == UNION {Moved(g, a) : a \in ToSet(slots[g]["agg"])}
           rec == IF job[g].init /\ funds[g] # <<>> THEN ToSet(funds[g][1]) ELSE {}
<1>1. Types /\ CallInv /\ OkInv
  BY DEF IInv, Core
<1>2. /\ main.pc = "fetched" /\ main' = [main EXCEPT !.pc = "idle"]
      /\ closed' = closed \/ closed' = closed \cup own \cup inner \cup rec
      /\ open' = open \/ open' = open \ (own \cup inner \cup rec)
      /\ UNCHANGED <<stash, chan, replies, job, fetch, errs, slots, funds, prep, seen>>
  BY DEF Conclude
<1>3. g \in Calls
  BY <1>1, <1>2, GenInCalls
<1>4. own \subseteq Tx
  BY <1>1, <1>2, FetchedSlots, ToSetType
<1>5. inner \subseteq Tx
  <2>1. ToSet(slots[g]["agg"]) \subseteq Tx
    BY <1>1, <1>2, FetchedSlots, ToSetType, AggKind
  <2> QED
    BY <2>1, MovedTx
<1>6. rec \subseteq Tx
  <2>1. CASE funds[g] # <<>>
    <3>1. funds[g] \in Seq(Seq(Tx))
      BY <1>1, <1>3 DEF Types
    <3>2. 1 \in 1..Len(funds[g])
      BY <2>1, <3>1, EmptySeq
    <3>3. funds[g][1] \in Seq(Tx)
      BY <3>1, <3>2, ElementOfSeq
    <3> QED
      BY <3>3, ToSetType
  <2>2. CASE funds[g] = <<>>
    BY <2>2
  <2> QED
    BY <2>1, <2>2
<1> HIDE DEF own, inner, rec
<1>7. closed \subseteq closed' /\ closed' \subseteq Tx /\ open' \subseteq Tx
  BY <1>1, <1>2, <1>4, <1>5, <1>6 DEF Types
<1>8. /\ main' \in Main /\ main'.pc = "idle"
      /\ main'.gen = main.gen /\ main'.cnt = main.cnt /\ main'.calls = main.calls
  BY <1>1, <1>2, MainStep
<1>9. CallInv'
  BY <1>1, <1>2, <1>8 DEF CallInv
<1>10. PlaceInv' /\ OutInv' /\ Net'
  BY <1>2, SameCalls
<1>11. ReportInv'
  BY <1>8 DEF ReportInv
<1>12. OkInv'
  <2>1. ASSUME NEW h \in Calls, job[h].result = "ok", NEW k \in Kinds
        PROVE  fetch'[h][k].pc = "done" /\ CleanNow(h, k)'
    <3>1. fetch[h][k].pc = "done" /\ CleanNow(h, k)
      BY <1>1, <2>1 DEF OkInv
    <3>2. Clean(k, job[h], closed', fetch[h][k], slots[h][k])
      BY <1>7, <3>1, CleanMore DEF CleanNow
    <3> QED
      BY <1>2, <3>1, <3>2 DEF CleanNow
  <2>2. \A h \in Calls : funds'[h] # <<>> => /\ fetch'[h]["agg"].pc = "done"
                                             /\ funds'[h] = <<fetch'[h]["agg"].trans>>
    BY <1>1, <1>2 DEF OkInv
  <2> QED
    BY <1>2, <2>1, <2>2 DEF OkInv
<1>13. Types'
  BY <1>1, <1>2, <1>7, <1>8 DEF Types
<1> QED
  BY <1>9, <1>10, <1>11, <1>12, <1>13 DEF IInv, Core

\* The first report is a nil: the goroutine that sent it is counted.
LEMMA CountedNil ==
    ASSUME Types, NEW g \in Calls, NEW C \in SUBSET Kinds, NEW o \in Seq(Kinds),
           Attributed(g, C, o), errs[g] # <<>>, errs[g][1] = "nil",
           errs'[g] = Tail(errs[g]), main'.cnt = main.cnt + 1,
           UNCHANGED <<job, fetch, slots, closed>>
    PROVE  Attributed(g, C \cup {o[1]}, Tail(o))'
<1> DEFINE e == errs[g]
           k == o[1]
           e2 == Tail(e)
           o2 == Tail(o)
<1>1. e \in Seq(Reports) /\ Len(o) = Len(e) /\ e # <<>>
  BY DEF Types, Attributed
<1>2. Len(e) \in Nat /\ Len(e) > 0
  BY <1>1, EmptySeq
<1>3. o # <<>> /\ 1 \in 1..Len(o)
  BY <1>1, <1>2
<1>4. /\ e2 \in Seq(Reports) /\ Len(e2) = Len(e) - 1
      /\ \A i \in 1..Len(e2) : e2[i] = e[i + 1]
  BY <1>1, HeadTailProperties
<1>5. /\ o2 \in Seq(Kinds) /\ Len(o2) = Len(o) - 1
      /\ \A i \in 1..Len(o2) : o2[i] = o[i + 1]
  BY <1>3, HeadTailProperties
<1>6. k \in Kinds
  BY <1>3, ElementOfSeq
<1>7. \A i \in 1..Len(o2) : i + 1 \in 1..Len(o) /\ i + 1 > 1
  BY <1>1, <1>2, <1>5
<1>8. \A p \in 2..Len(o) : p - 1 \in 1..Len(o2) /\ (p - 1) + 1 = p
  BY <1>1, <1>2, <1>5
<1>9. /\ fetch[g][k].pc = "done" /\ fetch[g][k].out = <<>>
      /\ \A q \in 1..Len(o) : q > 1 => o[q] # k
  BY <1>3 DEF Attributed
<1>10. k \notin C
  BY <1>3 DEF Attributed
<1>11. CleanNow(g, k)
  <2>1. ~ \E i \in 1..Len(fetch[g][k].out) : fetch[g][k].out[i] = "err"
    BY <1>9
  <2>2. ASSUME NEW p \in 1..Len(o), o[p] = k, e[p] = "err" PROVE FALSE
    <3>1. p = 1 \/ p > 1
      OBVIOUS
    <3> QED
      BY <1>9, <2>2, <3>1
  <2>3. \/ CleanNow(g, k)
        \/ \E i \in 1..Len(fetch[g][k].out) : fetch[g][k].out[i] = "err"
        \/ \E p \in 1..Len(o) : o[p] = k /\ e[p] = "err"
    BY <1>6, <1>10 DEF Attributed
  <2> QED
    BY <2>1, <2>2, <2>3
<1>12. \A l \in Kinds : CleanNow(g, l)' <=> CleanNow(g, l)
  BY DEF CleanNow
<1>13. Cardinality(C \cup {k}) = main'.cnt
  <2>1. IsFiniteSet(C)
    BY KindsFinite, FS_Subset
  <2>2. Cardinality(C \cup {k}) = Cardinality(C) + 1
    <3> HIDE DEF k
    <3> QED
      BY <1>10, <2>1, FS_AddElement
  <2>3. Cardinality(C) = main.cnt
    BY DEF Attributed
  <2> QED
    BY <2>2, <2>3
<1>14. errs'[g] = e2 /\ Len(o2) = Len(e2)
  BY <1>1, <1>4, <1>5
<1> HIDE DEF e, k, e2, o2
<1>15. ASSUME NEW l \in C \cup {k}
       PROVE  /\ fetch[g][l].pc = "done" /\ fetch[g][l].out = <<>>
              /\ CleanNow(g, l)
              /\ \A p \in 1..Len(o2) : o2[p] # l
  <2>1. CASE l = k
    BY <1>5, <1>7, <1>9, <1>11, <2>1
  <2>2. CASE l \in C
    <3>1. /\ fetch[g][l].pc = "done" /\ fetch[g][l].out = <<>>
          /\ CleanNow(g, l)
          /\ \A p \in 1..Len(o) : o[p] # l
      BY <2>2 DEF Attributed
    <3> QED
      BY <1>5, <1>7, <3>1
  <2> QED
    BY <2>1, <2>2
<1>16. ASSUME NEW l \in Kinds \ (C \cup {k})
       PROVE  \/ CleanNow(g, l)
              \/ \E i \in 1..Len(fetch[g][l].out) : fetch[g][l].out[i] = "err"
              \/ \E p \in 1..Len(o2) : o2[p] = l /\ e2[p] = "err"
  <2>1. \/ CleanNow(g, l)
        \/ \E i \in 1..Len(fetch[g][l].out) : fetch[g][l].out[i] = "err"
        \/ \E p \in 1..Len(o) : o[p] = l /\ e[p] = "err"
    BY DEF Attributed, e
  <2>2. ASSUME NEW p \in 1..Len(o), o[p] = l, e[p] = "err"
        PROVE  \E q \in 1..Len(o2) : o2[q] = l /\ e2[q] = "err"
    <3>1. p # 1
      BY <2>2 DEF k
    <3>2. p \in 2..Len(o)
      BY <3>1
    <3>3. p - 1 \in 1..Len(o2) /\ (p - 1) + 1 = p /\ Len(o2) = Len(e2)
      BY <1>8, <1>14, <3>2
    <3>4. o2[p - 1] = l /\ e2[p - 1] = "err"
      BY <1>4, <1>5, <2>2, <3>3
    <3> QED
      BY <3>3, <3>4
  <2> QED
    BY <2>1, <2>2
<1>17. ASSUME NEW p \in 1..Len(o2), e2[p] = "nil"
       PROVE  /\ fetch[g][o2[p]].pc = "done" /\ fetch[g][o2[p]].out = <<>>
              /\ \A q \in 1..Len(o2) : q > p => o2[q] # o2[p]
  <2>1. o2[p] = o[p + 1] /\ e2[p] = e[p + 1] /\ p + 1 \in 1..Len(o)
    BY <1>4, <1>5, <1>7, <1>14
  <2>2. /\ fetch[g][o[p + 1]].pc = "done" /\ fetch[g][o[p + 1]].out = <<>>
        /\ \A q \in 1..Len(o) : q > p + 1 => o[q] # o[p + 1]
    BY <1>17, <2>1 DEF Attributed, e
  <2>3. \A q \in 1..Len(o2) : q > p => o2[q] # o2[p]
    <3> TAKE q \in 1..Len(o2)
    <3> HAVE q > p
    <3>1. q + 1 > p + 1 /\ q + 1 \in 1..Len(o) /\ o2[q] = o[q + 1]
      BY <1>5, <1>7
    <3> QED
      BY <2>1, <2>2, <3>1
  <2> QED
    BY <2>1, <2>2, <2>3
<1>18. Attributed(g, C \cup {k}, o2)'
  <2>1. \A l \in C \cup {k} : l \in Kinds
    BY <1>6
  <2>2. fetch' = fetch
    OBVIOUS
  <2>3. \A l \in C \cup {k} :
              /\ fetch'[g][l].pc = "done" /\ fetch'[g][l].out = <<>>
              /\ CleanNow(g, l)'
              /\ \A p \in 1..Len(o2) : o2[p] # l
    BY <1>12, <1>15, <2>1, <2>2
  <2>4. \A l \in Kinds \ (C \cup {k}) :
              \/ CleanNow(g, l)'
              \/ \E i \in 1..Len(fetch'[g][l].out) : fetch'[g][l].out[i] = "err"
              \/ \E p \in 1..Len(o2) : o2[p] = l /\ errs'[g][p] = "err"
    BY <1>12, <1>14, <1>16, <2>2
  <2>5. \A p \in 1..Len(o2) : errs'[g][p] = "nil" =>
          /\ fetch'[g][o2[p]].pc = "done" /\ fetch'[g][o2[p]].out = <<>>
          /\ \A q \in 1..Len(o2) : q > p => o2[q] # o2[p]
    BY <1>14, <1>17, <2>2
  <2> QED
    BY <1>13, <1>14, <2>3, <2>4, <2>5 DEF Attributed
<1> QED
  BY <1>18 DEF k, o2

LEMMA CollectIInv ==
    ASSUME IInv, Collect
    PROVE  IInv'
<1> DEFINE g == main.gen
           last == main.cnt + 1 = nrOfChannels
<1>1. Types /\ CallInv /\ ReportInv /\ OkInv
  BY DEF IInv, Core
<1>2. /\ main.pc = "collect" /\ errs[g] # <<>>
      /\ errs' = [errs EXCEPT ![g] = Tail(@)]
      /\ UNCHANGED <<closed, open, stash, chan, replies, fetch, slots, funds, prep, seen>>
  BY DEF Collect
<1>3. g \in Calls
  BY <1>1, <1>2, GenInCalls
<1>4. /\ errs' \in [Calls -> Seq(Reports)] /\ errs'[g] = Tail(errs[g])
      /\ \A h \in Calls : h # g => errs'[h] = errs[h]
      /\ Len(errs'[g]) <= nrOfChannels
      /\ Head(errs[g]) = errs[g][1] /\ errs[g][1] \in Reports
  <2> DEFINE e == errs[g]
             e2 == Tail(e)
  <2>1. e \in Seq(Reports) /\ Len(e) <= nrOfChannels /\ nrOfChannels \in Nat
    BY <1>1, <1>3, KindsFinite DEF Types, CallInv
  <2>2. e2 \in Seq(Reports) /\ Len(e2) = Len(e) - 1 /\ Head(e) = e[1] /\ Head(e) \in Reports
    BY <1>2, <2>1, HeadTailProperties
  <2>3. Len(e) \in Nat
    BY <2>1
  <2>4. errs' = [errs EXCEPT ![g] = e2]
    BY <1>2
  <2> HIDE DEF e2
  <2>5. Len(e2) <= nrOfChannels
    BY <2>1, <2>2, <2>3
  <2> QED
    BY <1>1, <1>3, <2>2, <2>4, <2>5 DEF Types, e2
<1>5. g <= main.gen /\ ~ (g > main.gen) /\ main.gen > 0
  BY <1>1, <1>2, Numbers DEF CallInv
<1>6. CASE /\ errs[g][1] = "err" /\ job' = [job EXCEPT ![g].result = "err"]
           /\ main' = [main EXCEPT !.pc = "idle"]
  <2>0. "err" \in Results
    BY DEF Results
  <2>1. /\ job' \in [Calls -> Job] /\ job'[g].result = "err"
        /\ \A h \in Calls : job'[h].block = job[h].block /\ job'[h].init = job[h].init
        /\ \A h \in Calls : h # g => job'[h] = job[h]
    BY <1>1, <1>3, <1>6, <2>0, ResultStep
  <2>2. /\ main' \in Main /\ main'.pc = "idle"
        /\ main'.gen = main.gen /\ main'.cnt = main.cnt /\ main'.calls = main.calls
    BY <1>1, <1>6, MainStep
  <2>3. CallInv'
    <3>1. \A h \in Calls :
          /\ Len(errs'[h]) <= nrOfChannels
          /\ h <= main'.gen => job'[h].block \in DOMAIN Blocks
          /\ h > main'.gen => /\ job'[h].result = "none"
                              /\ errs'[h] = <<>>
                              /\ funds'[h] = <<>>
                              /\ \A k \in Kinds : /\ fetch'[h][k].pc = "done"
                                                  /\ fetch'[h][k].out = <<>>
                                                  /\ slots'[h][k] = <<>>
      BY <1>1, <1>2, <1>4, <1>5, <2>1, <2>2 DEF CallInv
    <3> QED
      BY <1>1, <2>2, <3>1 DEF CallInv
  <2>4. PlaceInv' /\ OutInv' /\ Net'
    BY <1>2, <2>1, SameCalls
  <2>5. ReportInv'
    BY <2>2 DEF ReportInv
  <2>6. OkInv'
    <3>1. ASSUME NEW h \in Calls, job'[h].result = "ok", NEW k \in Kinds
          PROVE  fetch'[h][k].pc = "done" /\ CleanNow(h, k)'
      <4>1. h # g
        BY <2>1, <3>1
      <4>2. job'[h] = job[h]
        BY <2>1, <4>1
      <4> QED
        BY <1>1, <1>2, <3>1, <4>2 DEF OkInv, CleanNow
    <3>2. \A h \in Calls : funds'[h] # <<>> => /\ fetch'[h]["agg"].pc = "done"
                                               /\ funds'[h] = <<fetch'[h]["agg"].trans>>
      BY <1>1, <1>2 DEF OkInv
    <3> QED
      BY <3>1, <3>2 DEF OkInv
  <2>7. Types'
    BY <1>1, <1>2, <1>4, <2>1, <2>2 DEF Types
  <2> QED
    BY <2>3, <2>4, <2>5, <2>6, <2>7 DEF IInv, Core
<1>7. CASE /\ errs[g][1] = "nil" /\ UNCHANGED job
           /\ main' = [main EXCEPT !.cnt = @ + 1, !.pc = IF last THEN "gather" ELSE "collect"]
  <2> DEFINE p == IF last THEN "gather" ELSE "collect"
             n == main.cnt + 1
  <2>1. n \in Nat /\ p \in {"gather", "collect"} /\ (p = "gather" => n = nrOfChannels)
    BY <1>1, Numbers
  <2>2. main' = [main EXCEPT !.cnt = n, !.pc = p]
    BY <1>7
  <2> HIDE DEF n, p
  <2>3. /\ main' \in Main /\ main'.pc = p
        /\ main'.gen = main.gen /\ main'.cnt = n /\ main'.calls = main.calls
    BY <1>1, <2>1, <2>2 DEF Types, Main
  <2>4. CallInv'
    <3>1. \A h \in Calls :
          /\ Len(errs'[h]) <= nrOfChannels
          /\ h <= main'.gen => job'[h].block \in DOMAIN Blocks
          /\ h > main'.gen => /\ job'[h].result = "none"
                              /\ errs'[h] = <<>>
                              /\ funds'[h] = <<>>
                              /\ \A k \in Kinds : /\ fetch'[h][k].pc = "done"
                                                  /\ fetch'[h][k].out = <<>>
                                                  /\ slots'[h][k] = <<>>
      BY <1>1, <1>2, <1>4, <1>5, <1>7, <2>3 DEF CallInv
    <3> QED
      BY <1>1, <1>5, <2>1, <2>3, <3>1 DEF CallInv
  <2>5. PlaceInv' /\ OutInv' /\ Net'
    BY <1>2, <1>7, SameCalls
  <2>6. ReportInv'
    <3>1. PICK C \in SUBSET Kinds, o \in Seq(Kinds) : Attributed(g, C, o)
      BY <1>1, <1>2 DEF ReportInv
    <3>2. ASSUME NEW h \in Calls, h = g PROVE Attributed(h, C \cup {o[1]}, Tail(o))'
      <4>1. Attributed(h, C, o) /\ errs[h] # <<>> /\ errs[h][1] = "nil" /\ errs'[h] = Tail(errs[h])
        BY <1>2, <1>4, <1>7, <3>1, <3>2
      <4>2. main'.cnt = main.cnt + 1
        BY <2>3 DEF n
      <4> QED
        BY <1>1, <1>2, <1>7, <4>1, <4>2, CountedNil
    <3>3. \A h \in Calls : h = g => Attributed(h, C \cup {o[1]}, Tail(o))'
      BY <3>2
    <3>4. Attributed(main.gen, C \cup {o[1]}, Tail(o))'
      BY <1>3, <2>3, <3>3
    <3>5. C \cup {o[1]} \in SUBSET Kinds /\ Tail(o) \in Seq(Kinds)
      <4>1. Len(o) = Len(errs[g]) /\ errs[g] \in Seq(Reports)
        BY <1>1, <1>3, <3>1 DEF Attributed, Types
      <4>2. o # <<>> /\ 1 \in 1..Len(o)
        BY <1>2, <4>1, EmptySeq
      <4> QED
        BY <4>2, ElementOfSeq, HeadTailProperties
    <3> QED
      BY <3>4, <3>5 DEF ReportInv
  <2>7. OkInv'
    BY <1>1, <1>2, <1>7 DEF OkInv, CleanNow
  <2>8. Types'
    BY <1>1, <1>2, <1>4, <1>7, <2>3 DEF Types
  <2> QED
    BY <2>4, <2>5, <2>6, <2>7, <2>8 DEF IInv, Core
<1>8. \/ /\ Head(errs[g]) = "err" /\ job' = [job EXCEPT ![g].result = "err"]
         /\ main' = [main EXCEPT !.pc = "idle"]
      \/ /\ Head(errs[g]) # "err" /\ UNCHANGED job
         /\ main' = [main EXCEPT !.cnt = @ + 1, !.pc = IF last THEN "gather" ELSE "collect"]
  BY DEF Collect
<1> QED
  BY <1>4, <1>6, <1>7, <1>8 DEF Reports

LEMMA IdleFields ==
    LET r == [Idle EXCEPT !.pc = "next"] IN
    /\ Idle \in Fetcher /\ Idle.pc = "done" /\ Idle.i = 1 /\ Idle.j = 1 /\ Idle.out = <<>>
    /\ Idle.trans = <<>>
    /\ r \in Fetcher /\ r.pc = "next" /\ r.i = 1 /\ r.j = 1 /\ r.out = <<>> /\ r.trans = <<>>
<1>1. 0 \in 0..MaxTries
  BY DEF MaxTries
<1>2. /\ Idle \in Fetcher /\ Idle.pc = "done" /\ Idle.i = 1 /\ Idle.j = 1 /\ Idle.out = <<>>
      /\ Idle.trans = <<>>
  BY <1>1 DEF Idle, Fetcher
<1> QED
  BY <1>2, SetPc DEF Pcs

\* A goroutine that starts has an empty slice, as it should.
LEMMA FreshClean ==
    ASSUME NEW k \in Kinds, NEW jb, NEW cl, NEW f, Named(jb, k) \in Seq(Tx), f.i = 1, f.trans = <<>>,
           f.pc = "next" \/ (f.pc = "done" /\ Named(jb, k) = <<>>)
    PROVE  Clean(k, jb, cl, f, <<>>)
<1> DEFINE B == Named(jb, k)
<1>1. B \in Seq(Tx)
  OBVIOUS
<1> HIDE DEF B
<1>2. SubSeq(B, 1, 0) = <<>> /\ f.i - 1 = 0
  BY <1>1, PrefixFacts
<1>3. Filled(B, f, <<>>)
  BY <1>2 DEF Filled, B
<1>4. Paid(B, cl, f)
  <2>1. Len(f.trans) = 0
    OBVIOUS
  <2>2. \A x \in 1..Len(B) : \A y : ~ Passed(f, x, y)
    <3>1. CASE f.pc = "next"
      BY <1>1, <3>1 DEF Passed
    <3>2. CASE B = <<>>
      BY <3>2
    <3> QED
      BY <3>1, <3>2 DEF B
  <2>3. \A n \in 1..Len(f.trans) : FALSE
    BY <2>1
  <2>4. f.pc \notin {"member", "mwait"}
    OBVIOUS
  <2> QED
    BY <2>2, <2>3, <2>4 DEF Paid
<1> QED
  BY <1>3, <1>4 DEF Clean, B

LEMMA BeginIInv ==
    ASSUME IInv, Begin
    PROVE  IInv'
<1> DEFINE g == main.gen + 1
           b == Coming.block
           busy == {k \in Kinds : Blocks[b][k] # <<>>}
           jb == [block |-> b, init |-> Coming.init, result |-> "none"]
           r == [Idle EXCEPT !.pc = "next"]
           fs == [k \in Kinds |-> IF k \in busy THEN r ELSE Idle]
           p == IF busy = {} THEN "gather" ELSE "collect"
           n == nrOfChannels - Cardinality(busy)
<1>1. Types /\ Core /\ CallInv /\ PlaceInv /\ OutInv /\ OkInv /\ Net
  BY DEF IInv, Core
<1>2. /\ main.pc = "idle" /\ main.calls # <<>>
      /\ main' = [pc |-> p, gen |-> g, cnt |-> n, calls |-> Tail(main.calls)]
      /\ job' = [job EXCEPT ![g] = jb] /\ fetch' = [fetch EXCEPT ![g] = fs]
      /\ UNCHANGED <<closed, open, stash, chan, replies, errs, slots, funds, prep, seen>>
  BY DEF Begin, More
<1>3. /\ main.calls \in Seq(Planned) /\ main.gen \in Nat /\ Coming \in Planned
      /\ Tail(main.calls) \in Seq(Planned) /\ Len(Tail(main.calls)) = Len(main.calls) - 1
      /\ Len(main.calls) \in Nat /\ Len(main.calls) > 0
  <2>1. main.calls \in Seq(Planned) /\ main.gen \in Nat
    BY <1>1 DEF Types, Main
  <2>2. /\ Head(main.calls) \in Planned /\ Tail(main.calls) \in Seq(Planned)
        /\ Len(Tail(main.calls)) = Len(main.calls) - 1
    BY <1>2, <2>1, HeadTailProperties
  <2>3. Len(main.calls) \in Nat /\ Len(main.calls) > 0
    BY <1>2, <2>1, EmptySeq
  <2> QED
    BY <2>1, <2>2, <2>3 DEF Coming
<1>4. g \in Calls /\ g > main.gen /\ g \in Nat /\ g + Len(Tail(main.calls)) <= MaxFetches
  <2>1. main.gen + Len(main.calls) <= MaxFetches /\ MaxFetches \in Nat
    BY <1>1, Numbers DEF CallInv
  <2> QED
    BY <1>3, <2>1 DEF Calls
<1>5. b \in DOMAIN Blocks /\ Coming.init \in BOOLEAN
  BY <1>3 DEF Planned
<1>6. /\ busy \in SUBSET Kinds /\ IsFiniteSet(busy) /\ n \in Nat
      /\ Cardinality(Kinds \ busy) = n /\ (busy = {} => n = nrOfChannels)
  <2>1. busy \in SUBSET Kinds
    OBVIOUS
  <2> HIDE DEF busy
  <2>2. IsFiniteSet(busy) /\ Cardinality(busy) <= nrOfChannels /\ Cardinality(busy) \in Nat
    BY <2>1, KindsFinite, FS_Subset, FS_CardinalityType DEF nrOfChannels
  <2>3. Kinds \cap busy = busy
    BY <2>1
  <2>4. Cardinality(Kinds \ busy) = nrOfChannels - Cardinality(Kinds \cap busy)
    BY KindsFinite, FS_Difference DEF nrOfChannels
  <2>5. Cardinality({}) = 0
    BY FS_EmptySet
  <2>6. n \in Nat /\ (busy = {} => n = nrOfChannels)
    BY <2>2, <2>5, KindsFinite
  <2> QED
    BY <2>1, <2>2, <2>3, <2>4, <2>6
<1>7. /\ Idle \in Fetcher /\ Idle.pc = "done" /\ Idle.i = 1 /\ Idle.j = 1 /\ Idle.out = <<>>
      /\ Idle.trans = <<>>
      /\ r \in Fetcher /\ r.pc = "next" /\ r.i = 1 /\ r.j = 1 /\ r.out = <<>> /\ r.trans = <<>>
  BY IdleFields
<1> HIDE DEF r, n, p
<1>8. jb \in Job /\ jb.block = b /\ jb.result = "none" /\ jb.init \in BOOLEAN
  BY <1>5 DEF Job, Results
<1>9. \A k \in Kinds : Named(jb, k) \in Seq(Tx) /\ (k \in busy <=> Named(jb, k) # <<>>)
  BY <1>5, <1>8, NamedType DEF Named
<1> HIDE DEF jb, g, busy
<1>10. \A k \in Kinds :
          /\ fs[k] \in Fetcher /\ fs[k].i = 1 /\ fs[k].j = 1 /\ fs[k].out = <<>>
          /\ fs[k].trans = <<>>
          /\ k \in busy => fs[k].pc = "next"
          /\ k \notin busy => fs[k].pc = "done"
  BY <1>7
<1>11. fs \in [Kinds -> Fetcher]
  BY <1>7
<1> HIDE DEF fs
<1>12. /\ job' \in [Calls -> Job] /\ job'[g] = jb /\ \A h \in Calls : h # g => job'[h] = job[h]
       /\ fetch' \in [Calls -> [Kinds -> Fetcher]] /\ fetch'[g] = fs
       /\ \A h \in Calls : h # g => fetch'[h] = fetch[h]
  BY <1>1, <1>2, <1>4, <1>8, <1>11 DEF Types
<1>13. /\ main'.pc = p /\ main'.gen = g /\ main'.cnt = n /\ main'.calls = Tail(main.calls)
       /\ p \in {"gather", "collect"} /\ (p = "gather" => n = nrOfChannels)
  BY <1>2, <1>6 DEF p
<1>14. main' \in Main
  BY <1>2, <1>3, <1>4, <1>6, <1>13 DEF Main
<1>15. Types'
  BY <1>1, <1>2, <1>12, <1>14 DEF Types
<1>16. /\ job[g].result = "none" /\ errs[g] = <<>> /\ funds[g] = <<>>
       /\ \A k \in Kinds : fetch[g][k].pc = "done" /\ slots[g][k] = <<>>
  BY <1>1, <1>4 DEF CallInv
<1>17. \A h \in Calls : (h <= g <=> h = g \/ h <= main.gen) /\ (h > g => h > main.gen /\ h # g)
  BY <1>1, <1>3, Numbers DEF g
<1>18. CallInv'
  <2>1. \A h \in Calls :
          /\ Len(errs'[h]) <= nrOfChannels
          /\ h <= main'.gen => job'[h].block \in DOMAIN Blocks
          /\ h > main'.gen => /\ job'[h].result = "none"
                              /\ errs'[h] = <<>>
                              /\ funds'[h] = <<>>
                              /\ \A k \in Kinds : /\ fetch'[h][k].pc = "done"
                                                  /\ fetch'[h][k].out = <<>>
                                                  /\ slots'[h][k] = <<>>
    <3> TAKE h \in Calls
    <3>1. Len(errs'[h]) <= nrOfChannels
      BY <1>1, <1>2 DEF CallInv
    <3>2. h <= g => job'[h].block \in DOMAIN Blocks
      BY <1>1, <1>5, <1>8, <1>12, <1>17 DEF CallInv
    <3>3. ASSUME h > g
          PROVE  /\ job'[h].result = "none" /\ errs'[h] = <<>> /\ funds'[h] = <<>>
                 /\ \A k \in Kinds : /\ fetch'[h][k].pc = "done"
                                     /\ fetch'[h][k].out = <<>>
                                     /\ slots'[h][k] = <<>>
      <4>1. h > main.gen /\ h # g
        BY <1>17, <3>3
      <4>2. job'[h] = job[h] /\ fetch'[h] = fetch[h]
        BY <1>12, <4>1
      <4> QED
        BY <1>1, <1>2, <4>1, <4>2 DEF CallInv
    <3> QED
      BY <1>13, <3>1, <3>2, <3>3
  <2>2. main'.gen + Len(main'.calls) <= MaxFetches /\ main'.gen > 0
    BY <1>4, <1>13, Numbers, <1>1
  <2> QED
    BY <1>13, <2>1, <2>2 DEF CallInv
<1>19. PlaceInv'
  <2>1. ASSUME NEW k \in Kinds PROVE Placed(k, jb, fs[k])
    <3> DEFINE f == fs[k]
    <3>1. /\ f.i = 1 /\ f.j = 1 /\ f.pc \in {"next", "done"} /\ Len(Named(jb, k)) \in Nat
      BY <1>9, <1>10
    <3>2. f.i > 0 /\ f.j > 0 /\ f.i <= Len(Named(jb, k)) + 1
      BY <3>1
    <3> HIDE DEF f
    <3>3. Placed(k, jb, f)
      BY <3>1, <3>2 DEF Placed
    <3> QED
      BY <3>3 DEF f
  <2> QED
    BY <1>1, <1>12, <2>1 DEF PlaceInv
<1>20. OutInv'
  BY <1>1, <1>10, <1>12 DEF OutInv
<1>21. OkInv'
  <2>1. ASSUME NEW h \in Calls
        PROVE  /\ job'[h].result = "ok" =>
                     \A k \in Kinds : fetch'[h][k].pc = "done" /\ CleanNow(h, k)'
               /\ funds'[h] # <<>> => /\ fetch'[h]["agg"].pc = "done"
                                      /\ funds'[h] = <<fetch'[h]["agg"].trans>>
    <3>1. CASE h = g
      BY <1>2, <1>8, <1>12, <1>16, <3>1
    <3>2. CASE h # g
      <4>1. job'[h] = job[h] /\ fetch'[h] = fetch[h]
        BY <1>12, <3>2
      <4> QED
        BY <1>1, <1>2, <4>1 DEF OkInv, CleanNow
    <3> QED
      BY <3>1, <3>2
  <2> QED
    BY <2>1 DEF OkInv
<1>22. ReportInv'
  <2>1. ASSUME NEW h \in Calls, h = g, NEW k \in Kinds PROVE CleanNow(h, k)'
    <3>1. Clean(k, jb, closed, fs[k], <<>>)
      BY <1>9, <1>10, FreshClean
    <3>2. job'[h] = jb /\ fetch'[h] = fs /\ slots'[h][k] = <<>> /\ closed' = closed
      BY <1>2, <1>12, <1>16, <2>1
    <3> QED
      BY <3>1, <3>2 DEF CleanNow
  <2> DEFINE C == Kinds \ busy
  <2>2. ASSUME NEW h \in Calls, h = g, NEW D \in SUBSET Kinds, D = C PROVE Attributed(h, D, <<>>)'
    <3>1. Len(<<>>) = Len(errs'[h]) /\ Cardinality(D) = main'.cnt
      BY <1>2, <1>6, <1>13, <1>16, <2>2
    <3>2. \A k \in D : fetch'[h][k].pc = "done" /\ fetch'[h][k].out = <<>>
      BY <1>10, <1>12, <2>2
    <3>3. \A q \in 1..Len(<<>>) : FALSE
      OBVIOUS
    <3>4. \A k \in Kinds : CleanNow(h, k)'
      BY <2>1, <2>2
    <3> QED
      BY <3>1, <3>2, <3>3, <3>4 DEF Attributed
  <2>3. \E D \in SUBSET Kinds, o \in Seq(Kinds) : Attributed(main.gen, D, o)'
    <3>1. \A h \in Calls, D \in SUBSET Kinds : h = g /\ D = C => Attributed(h, D, <<>>)'
      BY <2>2
    <3>2. C \in SUBSET Kinds /\ <<>> \in Seq(Kinds)
      OBVIOUS
    <3>3. \A D \in SUBSET Kinds : D = C => Attributed(main.gen, D, <<>>)'
      BY <1>4, <1>13, <3>1
    <3> HIDE DEF C
    <3> QED
      BY <3>2, <3>3
  <2> QED
    BY <2>3 DEF ReportInv
<1>23. Net'
  <2>1. \A h \in Calls, l \in Kinds :
              /\ Listens(fetch'[h][l], l) = Listens(fetch[h][l], l)
              /\ Listens(fetch[h][l], l) # {} =>
                    Want(l, job'[h], fetch'[h][l]) = Want(l, job[h], fetch[h][l])
    <3> TAKE h \in Calls, l \in Kinds
    <3>1. CASE h = g
      <4>1. Listens(fetch[g][l], l) = {}
        BY <1>16, ListensFacts
      <4>2. fs[l].pc \in {"next", "done"}
        BY <1>10
      <4>3. Listens(fs[l], l) = {}
        BY <4>2, ListensFacts
      <4> QED
        BY <1>12, <3>1, <4>1, <4>3
    <3>2. CASE h # g
      BY <1>12, <3>2
    <3> QED
      BY <3>1, <3>2
  <2> QED
    BY <1>1, <1>2, <2>1, NetKept
<1> QED
  BY <1>15, <1>18, <1>19, <1>20, <1>21, <1>22, <1>23 DEF IInv, Core

----------------------------------------------------------------------------
(* The invariant holds.                                                    *)

LEMMA InitIInv == ASSUME Init PROVE IInv
<1>1. PICK q \in Plan : main = [pc |-> "idle", gen |-> 0, cnt |-> 0, calls |-> q]
  BY DEF Init
<1>2. q \in Seq(Planned) /\ Len(q) <= MaxFetches /\ Len(q) \in Nat
  <2>1. Plan \subseteq Seq(Planned) /\ \A s \in Plan : Len(s) <= MaxFetches
    BY TxFetchAssumption DEF Planned
  <2>2. q \in Seq(Planned)
    BY <2>1
  <2> QED
    BY <2>1, <2>2
<1>3. main \in Main /\ main.pc = "idle" /\ main.gen = 0 /\ main.calls = q
  BY <1>1, <1>2 DEF Main
<1>4. Idle \in Fetcher /\ Idle.pc = "done" /\ Idle.i = 1 /\ Idle.j = 1 /\ Idle.out = <<>>
  BY IdleFields
<1>5. [block |-> NoTx, init |-> FALSE, result |-> "none"] \in Job
  BY DEF Job, Results
<1>6. Types
  <2>1. 0 \in 0..MaxReplies
    BY TxFetchAssumption
  <2>2. replies \in [Tx -> 0..MaxReplies] /\ closed \subseteq Tx /\ open \subseteq Tx
    BY <2>1, TxFetchAssumption DEF Init
  <2>3. seen \in Seen /\ prep \in Tx \cup {NoTx}
    BY DEF Init, Seen
  <2>4. job \in [Calls -> Job] /\ fetch \in [Calls -> [Kinds -> Fetcher]]
    BY <1>4, <1>5 DEF Init
  <2>5. /\ stash \in [Kinds -> Seq(Tx)] /\ chan \in [Kinds -> Seq(Tx)]
        /\ errs \in [Calls -> Seq(Reports)] /\ funds \in [Calls -> Seq(Seq(Tx))]
        /\ slots \in [Calls -> [Kinds -> Seq(Tx \cup {NoTx})]]
    BY DEF Init
  <2> QED
    BY <1>3, <2>2, <2>3, <2>4, <2>5 DEF Types
<1>7. \A h \in Calls, k \in Kinds : fetch[h][k] = Idle /\ slots[h][k] = <<>>
  BY DEF Init
<1>8. \A h \in Calls : /\ errs[h] = <<>> /\ funds[h] = <<>> /\ job[h].result = "none"
                       /\ h > 0 /\ ~ (h <= 0)
  BY <1>6, Numbers DEF Init
<1>9. CallInv
  <2>1. main.gen + Len(main.calls) <= MaxFetches
    BY <1>2, <1>3
  <2>2. Len(<<>>) <= nrOfChannels
    BY KindsFinite
  <2> QED
    BY <1>3, <1>4, <1>7, <1>8, <2>1, <2>2 DEF CallInv
<1>10. PlaceInv
  <2>1. ASSUME NEW k, NEW jb PROVE Placed(k, jb, Idle)
    BY <1>4 DEF Placed
  <2> QED
    BY <1>7, <2>1 DEF PlaceInv
<1>11. OutInv /\ ReportInv /\ OkInv
  <2>1. \A i \in 1..Len(Idle.out) : FALSE
    BY <1>4
  <2> QED
    BY <1>3, <1>7, <1>8, <2>1 DEF OutInv, ReportInv, OkInv
<1>12. Net
  <2>1. \A k \in Kinds : chan[k] = <<>> /\ stash[k] = <<>>
    BY DEF Init
  <2>2. \A i \in 1..Len(<<>>) : FALSE
    OBVIOUS
  <2>3. Len(<<>>) = 0 /\ StashMax \in Nat
    BY TxFetchAssumption
  <2>4. StashInv
    <3>1. \A k \in Kinds : /\ \A i \in 1..Len(chan[k]) : KindOf[chan[k][i]] = k
                           /\ Len(stash[k]) <= StashMax + 1
      BY <2>1, <2>3
    <3>2. \A k \in Stashed :
            /\ Len(chan[k]) <= 1
            /\ chan[k] = <<>> => Len(stash[k]) <= StashMax
            /\ \A i \in 1..Len(chan[k]) : \E j \in 1..Len(stash[k]) : stash[k][j] = chan[k][i]
      <4> TAKE k \in Stashed
      <4>1. chan[k] = <<>> /\ stash[k] = <<>>
        BY <2>1, KindsFacts
      <4> QED
        BY <2>2, <2>3, <4>1
    <3> QED
      BY <2>1, <3>1, <3>2, KindsFacts DEF StashInv
  <2>5. \A h \in Calls, k \in Kinds : \A c : ~ Hears(h, k, c)
    BY <1>4, <1>7, ListensFacts DEF Hears
  <2>6. ASSUME NEW c \in Stashed, NEW t \in Tx PROVE ~ UnderWay(t, c)
    <3>1. chan[c] = <<>> /\ replies[t] = 0
      BY <2>1, KindsFacts DEF Init
    <3> QED
      BY <2>2, <3>1 DEF UnderWay
  <2>7. prep = NoTx /\ seen.wrong = {}
    BY DEF Init
  <2> QED
    BY <2>4, <2>5, <2>6, <2>7 DEF Net, AnswerInv, StashFilters
<1> QED
  BY <1>6, <1>9, <1>10, <1>11, <1>12 DEF IInv, Core

LEMMA StutterIInv == ASSUME IInv, UNCHANGED vars PROVE IInv'
<1>1. UNCHANGED <<closed, open, stash, chan, replies, job, fetch, errs, slots, funds, main, prep, seen>>
  BY DEF vars
<1>2. Types'
  BY <1>1 DEF IInv, Types
<1>3. Core'
  BY <1>1, CoreKept DEF IInv
<1>4. Net'
  BY <1>1, NetKept DEF IInv
<1> QED
  BY <1>2, <1>3, <1>4 DEF IInv

LEMMA NextIInv == ASSUME IInv, [Next]_vars PROVE IInv'
<1>1. CASE Next
  <2>1. CASE \E g \in Calls : Fetchers(g)
    BY <2>1, FetchersIInv
  <2>2. CASE Validate
    BY <2>2, BeginIInv, CollectIInv, GatherIInv, ConcludeIInv DEF Validate
  <2>3. CASE \E t \in Tx : forwardTxReqToMiner(t) \/ processTxBrdcst(t) \/ SeekMissing(t)
    BY <2>3, ForwardIInv, BrdcstIInv, SeekMissingIInv
  <2>4. CASE SeekTake \/ SeekTimeOut
    BY <2>4, SeekTakeIInv, SeekTimeOutIInv
  <2> QED
    BY <1>1, <2>1, <2>2, <2>3, <2>4 DEF Next
<1>2. CASE UNCHANGED vars
  BY <1>2, StutterIInv
<1> QED
  BY <1>1, <1>2

LEMMA Invariance == Spec => []IInv
<1>1. Init => IInv
  BY InitIInv
<1>2. IInv /\ [Next]_vars => IInv'
  BY NextIInv
<1> QED
  BY <1>1, <1>2, PTL DEF Spec

----------------------------------------------------------------------------
(* The theorems.                                                           *)

LEMMA TypesImply == ASSUME IInv PROVE TypeOK
<1>1. Types /\ StashInv /\ CallInv
  BY DEF IInv, Core, Net
<1>2. /\ closed \subseteq Tx /\ open \subseteq Tx
      /\ replies \in [Tx -> 0..MaxReplies] /\ prep \in Tx \cup {NoTx}
  BY <1>1 DEF Types
<1>3. \A k \in Kinds : /\ stash[k] \in Seq(Tx) /\ Len(stash[k]) <= StashMax + 1
                       /\ chan[k] \in Seq(Tx)
                       /\ k \in Stashed => Len(chan[k]) <= 1
  BY <1>1 DEF Types, StashInv
<1>4. \A g \in Calls : /\ errs[g] \in Seq({"nil", "err"})
                       /\ Len(errs[g]) <= nrOfChannels
                       /\ job[g].result \in Results
                       /\ \A k \in Kinds : fetch[g][k] \in Fetcher
  <2> TAKE g \in Calls
  <2>1. job[g] \in Job /\ errs[g] \in Seq({"nil", "err"}) /\ Len(errs[g]) <= nrOfChannels
    BY <1>1 DEF Types, CallInv, Reports
  <2>2. job[g].result \in Results
    BY <2>1 DEF Job
  <2>3. \A k \in Kinds : fetch[g][k] \in Fetcher
    BY <1>1 DEF Types
  <2> QED
    BY <2>1, <2>2, <2>3
<1>5. main.pc \in {"idle", "collect", "gather", "fetched", "crashed"}
  BY <1>1 DEF Types, Main
<1> QED
  BY <1>2, <1>3, <1>4, <1>5 DEF TypeOK

LEMMA NamedImply == ASSUME IInv PROVE FetchedIsNamed
<1> SUFFICES ASSUME NEW g \in Calls, job[g].result = "ok", NEW k \in Kinds
             PROVE  slots[g][k] = Blocks[job[g].block][k]
  BY DEF FetchedIsNamed
<1>1. fetch[g][k].pc = "done" /\ CleanNow(g, k)
  BY DEF IInv, Core, OkInv
<1> QED
  BY <1>1 DEF CleanNow, Clean, Filled, Named

LEMMA PaymentsImply == ASSUME IInv PROVE PaymentsComplete
<1> SUFFICES ASSUME NEW g \in Calls, job[g].result = "ok", ~ job[g].init, main.gen = g,
                    main.pc = "fetched", funds[g] # <<>>
             PROVE  LET aggs == ToSet(Blocks[job[g].block]["agg"])
                        inner == {t \in UNION {ToSet(Members[a]) : a \in aggs} : KindOf[t] = "funds"}
                    IN  /\ ToSet(funds[g][1]) \subseteq inner
                        /\ inner \subseteq ToSet(funds[g][1]) \cup closed
  BY DEF PaymentsComplete
<1> DEFINE B == Named(job[g], "agg")
           f == fetch[g]["agg"]
           T == f.trans
           inner == {t \in UNION {ToSet(Members[a]) : a \in ToSet(B)} : KindOf[t] = "funds"}
<1>1. Types /\ CallInv /\ OkInv
  BY DEF IInv, Core
<1>2. f.pc = "done" /\ CleanNow(g, "agg") /\ funds[g] = <<T>>
  BY <1>1, AggKind DEF OkInv
<1>3. job[g].block \in DOMAIN Blocks
  BY <1>1, Numbers DEF CallInv
<1>4. B \in Seq(Tx)
  BY <1>3, NamedType, AggKind
<1>5. Paid(B, closed, f) /\ T \in Seq(Tx)
  BY <1>1, <1>2, Fields, AggKind DEF CleanNow, Clean, Types
<1>6. funds[g][1] = T
  BY <1>2
<1> HIDE DEF B, f, T
<1>7. DOMAIN B = 1..Len(B) /\ DOMAIN T = 1..Len(T)
  BY <1>4, <1>5
<1>8. ASSUME NEW x \in 1..Len(B) PROVE B[x] \in Tx /\ DOMAIN Members[B[x]] = 1..Len(Members[B[x]])
  <2>1. B[x] \in Tx
    BY <1>4, ElementOfSeq
  <2>2. Members[B[x]] \in Seq(Inner)
    BY <2>1, TxFetchAssumption
  <2> QED
    BY <2>1, <2>2
<1>9. ToSet(T) \subseteq inner
  <2> SUFFICES ASSUME NEW n \in 1..Len(T) PROVE T[n] \in inner
    BY <1>7 DEF ToSet
  <2>0. PICK x \in 1..Len(B) : \E y \in 1..Len(Members[B[x]]) :
           T[n] = Members[B[x]][y] /\ KindOf[T[n]] = "funds"
    BY <1>5 DEF Paid, T
  <2>1. PICK y \in 1..Len(Members[B[x]]) :
           T[n] = Members[B[x]][y] /\ KindOf[T[n]] = "funds"
    BY <2>0
  <2>2. B[x] \in ToSet(B) /\ T[n] \in ToSet(Members[B[x]])
    BY <1>7, <1>8, <2>1 DEF ToSet
  <2> QED
    BY <2>1, <2>2
<1>10. inner \subseteq ToSet(T) \cup closed
  <2> SUFFICES ASSUME NEW t \in inner PROVE t \in ToSet(T) \cup closed
    OBVIOUS
  <2>1. PICK x \in 1..Len(B) : t \in ToSet(Members[B[x]])
    BY <1>7 DEF ToSet
  <2>2. PICK y \in 1..Len(Members[B[x]]) : t = Members[B[x]][y]
    BY <1>8, <2>1 DEF ToSet
  <2>3. Passed(f, x, y) /\ KindOf[Members[B[x]][y]] = "funds"
    BY <1>2, <2>2 DEF Passed
  <2>4. \/ Members[B[x]][y] \in closed
        \/ \E n \in 1..Len(T) : T[n] = Members[B[x]][y]
    BY <1>5, <2>3 DEF Paid, T
  <2> QED
    BY <1>7, <2>2, <2>4 DEF ToSet
<1> QED
  BY <1>6, <1>9, <1>10 DEF B, Named

\* The stashes, the channels and errChan keep their bounds for every limit of
\* the stash and every number of answers: at most one handler of a kind with a
\* stash is at its channel, because it keeps the mutex until its answer is taken.
THEOREM TypeCorrect == Spec => []TypeOK
<1>1. IInv => TypeOK
  BY TypesImply
<1> QED
  BY <1>1, Invariance, PTL

\* fetchTransactions returns without error only with exactly the transactions
\* that the block names, in their order: errChan has no sender, but six nils
\* come from six goroutines none of which strayed.
THEOREM FetchesWhatIsNamed == Spec => []FetchedIsNamed
<1>1. IInv => FetchedIsNamed
  BY NamedImply
<1> QED
  BY <1>1, Invariance, PTL

\* Outside the start-up, fetchAggTxData hands over payments of the block's
\* AggTxs, and all of them that are not closed.
THEOREM CollectsAllPayments == Spec => []PaymentsComplete
<1>1. IInv => PaymentsComplete
  BY PaymentsImply
<1> QED
  BY <1>1, Invariance, PTL

\* AlreadyInStash filters what is not waited for: a foreign answer is received
\* only after somebody gave up, the stash overflowed, or two shared a channel.
THEOREM ForeignNeedsCause == Spec => []StashFilters
<1>1. IInv => StashFilters
  BY DEF IInv, Net
<1> QED
  BY <1>1, Invariance, PTL

============================================================================
