---------------------------- MODULE PeersProofs ----------------------------
(***************************************************************************)
(* Theorems about Peers, for every finite set of messages, every set of    *)
(* miners, clients and connections and every environment: the registry     *)
(* holds the live connections and only those, a registered connection      *)
(* stays registered until it fails, and a broadcast never sends to a nil   *)
(* or a foreign connection.  The invariant IInv is TypeOK with one part    *)
(* per shared structure: the connections, the register and disconnect      *)
(* channels, the sending map, and the goroutines that walk over it.        *)
(***************************************************************************)
EXTENDS Peers, TLAPS, FiniteSetTheorems, WellFoundedInduction

Texts == Msgs \cup Notes
Pcs == {"unused", "ignored", "handshake", "joining", "open", "leaving", "left", "listing",
        "closed"}
Link == [addr : Miners \cup Clients \cup {None},
         pc : Pcs,
         up : BOOLEAN, ch : Seq(Texts), got : SUBSET Texts]
Entry == [peer : Conns \cup {None}, delayed : Seq(Msgs)]
Sender == [pc : {"idle", "range", "check", "lock", "receiver", "send", "older", "store", "panic",
                "done"},
           must : SUBSET Miners, seen : SUBSET Miners, addr : Miners \cup {None},
           id : {0} \cup Entries, receiver : Conns \cup {None}, older : Seq(Msgs),
           owed : SUBSET Conns]
Caster == [pc : {"idle", "range", "check", "send"}, must : SUBSET Conns, seen : SUBSET Conns,
           receiver : Conns \cup {None}, msg : Notes \cup {None}]

\* The types of the variables.
TypeOK ==
    /\ env \in Environment
    /\ link \in [Conns -> Link]
    /\ register \in Seq(Conns)
    /\ service \in Conns \cup {None}
    /\ peers \subseteq Conns
    /\ sendingMap \in [Miners -> {0} \cup Entries]
    /\ entry \in [Miners -> [Entries -> Entry]]
    /\ mutex \in Msgs \cup {None}
    /\ sender \in [Msgs -> Sender]
    /\ caster \in Caster
    /\ iplist \in Seq(Miners)
    /\ health \in [pc : {"sleep", "list", "pong"}, conn : Conns \cup {None}]
    /\ tried \in [last : Miners \cup {None}, holder : Conns \cup {None}]
    /\ neighbor \in Miners \cup {None}
    /\ emptier \in [pc : {"idle", "test", "take"}, i : Nat]
    /\ request \in {"none", "wait", "sent"}
    /\ overtaken \subseteq Conns

\* Connections that have passed peerConn's register.
Registered == {"open", "leaving"} \cup Gone

\* A connection has an address from the moment it is made; the health service
\* and the broadcaster hold on to connections and messages that exist.
LinkInv ==
    /\ \A c \in Conns : link[c].pc = "unused" <=> link[c].addr = None
    /\ \A c \in Conns : link[c].pc \in {"left", "listing"} => link[c].addr \in Miners
    /\ health.pc = "pong" => health.conn # None /\ link[health.conn].pc = "handshake"
    /\ caster.pc \in {"check", "send"} => caster.receiver # None
    /\ caster.pc # "idle" => caster.msg \in Notes

\* The register channel, the peer set and the disconnect that peerService works
\* on: nothing is queued twice or queued and listed, and what is listed of a
\* connection that has ended is on its way out or overtook its registration.
RegisterInv ==
    /\ \A i, j \in 1..Len(register) : register[i] = register[j] => i = j
    /\ \A i \in 1..Len(register) :
          /\ register[i] \notin peers
          /\ link[register[i]].pc \in Registered
          /\ link[register[i]].pc \in Gone => register[i] \in overtaken
    /\ \A c \in peers :
          /\ link[c].pc \in Registered
          /\ link[c].pc \in Gone => service = c \/ c \in overtaken
    /\ service # None => link[service].pc \in Gone

\* The sending map: a miner has one connection, every connected miner has an
\* entry, and an entry's peer is a connection to that miner.
EntryInv ==
    /\ \A c, d \in minerConns : link[c].addr = link[d].addr => c = d
    /\ \A c \in minerConns : sendingMap[link[c].addr] # 0
    /\ \A a \in Miners : sendingMap[a] # 0 => entry[a][sendingMap[a]].peer # None
    /\ \A a \in Miners, n \in Entries :
          entry[a][n].peer # None => link[entry[a][n].peer].addr = a

\* Program counters of a broadcast at an entry of the map, and of those that
\* hold the mutex.
Visiting == {"check", "lock", "receiver", "send", "older", "store"}
Locked == {"receiver", "send", "older", "panic"}

\* A broadcast at an entry has one that was filled, its receiver is a
\* connection to the entry's miner, and the mutex is held by whoever is
\* between Lock and Unlock.
SenderInv ==
    \A m \in Msgs :
        /\ sender[m].pc \in Visiting =>
              /\ sender[m].addr # None
              /\ sender[m].id # 0
              /\ sendingMap[sender[m].addr] # 0
              /\ entry[sender[m].addr][sender[m].id].peer # None
        /\ sender[m].pc \in {"send", "older"} =>
              sender[m].receiver # None /\ link[sender[m].receiver].addr = sender[m].addr
        /\ sender[m].pc \in Locked <=> mutex = m

\* The inductive invariant.
IInv == TypeOK /\ LinkInv /\ RegisterInv /\ EntryInv /\ SenderInv

----------------------------------------------------------------------------
(* Operators of the model.                                                 *)

LEMMA MinNat ==
    ASSUME NEW S \in SUBSET Nat, S # {}
    PROVE  Min(S) \in S
<1>1. PICK x \in S : \A y \in S : ~ (<<y, x>> \in OpToRel(<, Nat))
  BY NatLessThanWellFounded, WFMin
<1>2. \A y \in S : ~(y < x)
  BY <1>1 DEF OpToRel
<1>3. \A y \in S : x <= y
  BY <1>2
<1> QED
  BY <1>1, <1>3 DEF Min

LEMMA MinFresh ==
    ASSUME Fresh # {}
    PROVE  Min(Fresh) \in Conns /\ link[Min(Fresh)].pc = "unused"
BY MinNat, PeersAssumption DEF Fresh

LEMMA UnusedExists ==
    ASSUME NEW a \in Miners, TypeOK
    PROVE  Unused(a) \in Entries
<1> DEFINE used == {sender[m].id : m \in Msgs}
           free == {n \in Entries : /\ n # sendingMap[a]
                                    /\ \A m \in Msgs : sender[m].addr = a => sender[m].id # n}
<1>1. Cardinality(Msgs) \in Nat
  BY FS_CardinalityType, PeersAssumption
<1>2. IsFiniteSet(used) /\ Cardinality(used) <= Cardinality(Msgs)
  <2> DEFINE f == [m \in Msgs |-> sender[m].id]
  <2>1. f \in Surjection(Msgs, used)
    BY DEF Surjection
  <2> QED
    BY <2>1, FS_Surjection, PeersAssumption
<1>3. free # {}
  <2> SUFFICES ASSUME free = {} PROVE FALSE
    OBVIOUS
  <2>1. Entries \subseteq used \cup {sendingMap[a]}
    BY DEF Entries
  <2>2. IsFiniteSet(used \cup {sendingMap[a]})
        /\ Cardinality(used \cup {sendingMap[a]}) <= Cardinality(Msgs) + 1
    <3> HIDE DEF used
    <3>1. Cardinality(used) \in Nat
      BY <1>2, FS_CardinalityType
    <3>2. /\ IsFiniteSet(used \cup {sendingMap[a]})
          /\ \/ Cardinality(used \cup {sendingMap[a]}) = Cardinality(used)
             \/ Cardinality(used \cup {sendingMap[a]}) = Cardinality(used) + 1
      BY <1>2, FS_AddElement
    <3> QED
      BY <1>1, <1>2, <3>1, <3>2
  <2>3. Cardinality(Entries) = Cardinality(Msgs) + 2
    BY <1>1, FS_Interval DEF Entries
  <2> QED
    BY <1>1, <2>1, <2>2, <2>3, FS_Subset, FS_CardinalityType
<1>4. free \in SUBSET Nat
  BY <1>1 DEF Entries
<1>5. Min(free) \in free
  BY <1>3, <1>4, MinNat
<1> QED
  BY <1>5 DEF Unused

----------------------------------------------------------------------------
(* Updates of connections.                                                 *)

LEMMA SetPc ==
    ASSUME link \in [Conns -> Link], NEW c \in Conns, NEW p \in Pcs,
           link' = [link EXCEPT ![c].pc = p]
    PROVE  /\ link' \in [Conns -> Link]
           /\ \A d \in Conns : /\ link'[d].addr = link[d].addr
                               /\ link'[d].pc = IF d = c THEN p ELSE link[d].pc
<1> DEFINE r == [link[c] EXCEPT !.pc = p]
<1>1. r \in Link /\ r.addr = link[c].addr /\ r.pc = p
  BY DEF Link
<1>2. link' = [link EXCEPT ![c] = r]
  OBVIOUS
<1> HIDE DEF r
<1> QED
  BY <1>1, <1>2

\* What is sent, and whether the connection is up, concerns nobody else.
LEMMA SetTraffic ==
    ASSUME link \in [Conns -> Link], NEW c \in Conns, NEW up \in BOOLEAN,
           NEW ch \in Seq(Texts), NEW got \in SUBSET Texts,
           link' = [link EXCEPT ![c].up = up, ![c].ch = ch, ![c].got = got]
    PROVE  /\ link' \in [Conns -> Link]
           /\ \A d \in Conns : link'[d].addr = link[d].addr /\ link'[d].pc = link[d].pc
<1> DEFINE r == [link[c] EXCEPT !.up = up, !.ch = ch, !.got = got]
<1>1. r \in Link /\ r.addr = link[c].addr /\ r.pc = link[c].pc
  BY DEF Link
<1>2. link' = [link EXCEPT ![c] = r]
  OBVIOUS
<1> HIDE DEF r
<1> QED
  BY <1>1, <1>2

LEMMA SetChannel ==
    ASSUME link \in [Conns -> Link], NEW c \in Conns, NEW x \in Texts,
           link' = [link EXCEPT ![c].ch = Append(@, x)]
    PROVE  /\ link' \in [Conns -> Link]
           /\ \A d \in Conns : link'[d].addr = link[d].addr /\ link'[d].pc = link[d].pc
<1> DEFINE ch == Append(link[c].ch, x)
           r == [link[c] EXCEPT !.ch = ch]
<1>1. ch \in Seq(Texts)
  <2>1. link[c].ch \in Seq(Texts)
    BY DEF Link
  <2> QED
    BY <2>1
<1>2. link' = [link EXCEPT ![c] = r]
  OBVIOUS
<1> HIDE DEF ch
<1>3. r \in Link /\ r.addr = link[c].addr /\ r.pc = link[c].pc
  BY <1>1 DEF Link
<1> HIDE DEF r
<1> QED
  BY <1>2, <1>3

LEMMA SetNew ==
    ASSUME link \in [Conns -> Link], NEW c \in Conns, NEW a \in Miners \cup Clients,
           NEW p \in Pcs,
           link' = [link EXCEPT ![c] = [NoLink EXCEPT !.addr = a, !.up = TRUE, !.pc = p]]
    PROVE  /\ link' \in [Conns -> Link]
           /\ link'[c].addr = a /\ link'[c].pc = p
           /\ \A d \in Conns \ {c} : link'[d] = link[d]
<1> DEFINE r == [NoLink EXCEPT !.addr = a, !.up = TRUE, !.pc = p]
<1>1. NoLink \in Link
  BY DEF NoLink, Link, Pcs
<1>2. r \in Link /\ r.addr = a /\ r.pc = p
  BY <1>1 DEF Link
<1>3. link' = [link EXCEPT ![c] = r]
  OBVIOUS
<1> HIDE DEF r
<1> QED
  BY <1>2, <1>3

----------------------------------------------------------------------------
(* What a step that leaves a part alone preserves.                         *)

\* No connection in use changes its address.
AddrKept ==
    /\ link' \in [Conns -> Link]
    /\ \A d \in Conns : link[d].pc # "unused" => link'[d].addr = link[d].addr

\* No registered connection changes its state.
PcKept ==
    \A d \in Conns : link[d].pc \in Registered => link'[d].pc = link[d].pc

LEMMA EntryFrame ==
    ASSUME IInv, AddrKept, UNCHANGED <<peers, sendingMap, entry>>
    PROVE  EntryInv'
<1>1. \A d \in Conns : link[d].addr # None => link'[d].addr = link[d].addr
  BY DEF IInv, LinkInv, AddrKept
<1>2. \A c \in peers : c \in Conns /\ link'[c].addr = link[c].addr
  BY DEF IInv, TypeOK, RegisterInv, Registered, Gone, AddrKept
<1>3. minerConns' = minerConns
  BY <1>2 DEF minerConns
<1>4. \A c \in minerConns : c \in peers
  BY DEF minerConns
<1>5. \A a \in Miners, n \in Entries :
         entry[a][n].peer # None => entry[a][n].peer \in Conns
  BY DEF IInv, TypeOK, Entry
<1>6. \A a \in Miners, n \in Entries :
         entry[a][n].peer # None => link'[entry[a][n].peer].addr = a
  BY <1>1, <1>5, PeersAssumption DEF IInv, EntryInv
<1> QED
  BY <1>2, <1>3, <1>4, <1>6 DEF IInv, EntryInv

LEMMA SenderFrame ==
    ASSUME IInv, AddrKept, UNCHANGED <<sendingMap, entry, sender, mutex>>
    PROVE  SenderInv'
<1>1. \A d \in Conns : link[d].addr # None => link'[d].addr = link[d].addr
  BY DEF IInv, LinkInv, AddrKept
<1>2. \A m \in Msgs : sender[m].receiver \in Conns \cup {None}
  BY DEF IInv, TypeOK, Sender
<1>3. \A m \in Msgs : sender[m].pc \in {"send", "older"} =>
         link[sender[m].receiver].addr # None
  BY DEF IInv, SenderInv, Visiting
<1> QED
  BY <1>1, <1>2, <1>3 DEF IInv, SenderInv

LEMMA RegisterFrame ==
    ASSUME IInv, PcKept, UNCHANGED registry
    PROVE  RegisterInv'
<1>1. \A i \in 1..Len(register) : register[i] \in Conns
  BY DEF IInv, TypeOK
<1>2. service # None => service \in Conns
  BY DEF IInv, TypeOK
<1>3. peers \subseteq Conns
  BY DEF IInv, TypeOK
<1> QED
  BY <1>1, <1>2, <1>3 DEF IInv, RegisterInv, PcKept, registry, Registered

\* No pending handshake is forgotten.
HandshakeKept ==
    \A d \in Conns : link[d].pc = "handshake" => link'[d].pc = "handshake"

LEMMA LinkFrame ==
    ASSUME IInv, HandshakeKept, UNCHANGED <<caster, health>>,
           \A c \in Conns : link'[c].pc = "unused" <=> link'[c].addr = None,
           \A c \in Conns : link'[c].pc \in {"left", "listing"} => link'[c].addr \in Miners
    PROVE  LinkInv'
<1>1. health.conn \in Conns \cup {None}
  BY DEF IInv, TypeOK
<1> QED
  BY <1>1 DEF IInv, LinkInv, HandshakeKept

LEMMA Bounds ==
    ASSUME env \in Environment
    PROVE  /\ env.incoming \subseteq Miners \cup Clients
           /\ {env.accepts, env.breaks, env.refusals, env.answers, env.rounds} \subseteq Nat
           /\ \A n \in Nat : /\ [env EXCEPT !.accepts = n] \in Environment
                             /\ [env EXCEPT !.breaks = n] \in Environment
                             /\ [env EXCEPT !.refusals = n] \in Environment
                             /\ [env EXCEPT !.answers = n] \in Environment
                             /\ [env EXCEPT !.rounds = n] \in Environment
BY DEF Environment

----------------------------------------------------------------------------
(* The connections.                                                        *)

LEMMA pongResStep ==
    ASSUME IInv, pongRes
    PROVE  IInv'
<1>1. PICK a \in env.incoming :
        link' = [link EXCEPT ![Min(Fresh)] =
                    [NoLink EXCEPT !.addr = a, !.up = TRUE,
                        !.pc = IF Cardinality(minerConns) >= MAX_MINERS
                               THEN "ignored" ELSE "joining"]]
  BY DEF pongRes
<1> DEFINE c == Min(Fresh)
           p == IF Cardinality(minerConns) >= MAX_MINERS THEN "ignored" ELSE "joining"
<1>2. c \in Conns /\ link[c].pc = "unused"
  BY MinFresh DEF pongRes
<1>3. a \in Miners \cup Clients /\ env' \in Environment
  <2>1. env.accepts \in Nat /\ env.accepts > 0
    BY Bounds DEF IInv, TypeOK, pongRes
  <2>2. env.accepts - 1 \in Nat
    BY <2>1
  <2> QED
    BY <2>2, Bounds DEF IInv, TypeOK, pongRes
<1>4. p \in Pcs /\ p \in {"ignored", "joining"}
  BY DEF Pcs
<1> HIDE DEF c, p
<1>5. /\ link' \in [Conns -> Link]
      /\ link'[c].addr = a /\ link'[c].pc = p
      /\ \A d \in Conns \ {c} : link'[d] = link[d]
  <2>1. link \in [Conns -> Link]
    BY DEF IInv, TypeOK
  <2>2. link' = [link EXCEPT ![c] = [NoLink EXCEPT !.addr = a, !.up = TRUE, !.pc = p]]
    BY <1>1 DEF c, p
  <2> QED
    BY <1>2, <1>3, <1>4, <2>1, <2>2, SetNew
<1>6. TypeOK'
  BY <1>3, <1>5 DEF IInv, TypeOK, pongRes, registry, sending, search
<1>7. AddrKept /\ PcKept
  BY <1>2, <1>5 DEF AddrKept, PcKept, Registered, Gone
<1>8. UNCHANGED <<registry, sending, caster, health>>
  BY DEF pongRes, search
<1>9. LinkInv'
  <2>1. a # None /\ p \notin {"unused", "left", "listing"}
    BY <1>3, <1>4, PeersAssumption
  <2>2. HandshakeKept
    BY <1>2, <1>5 DEF HandshakeKept
  <2> QED
    BY <1>5, <1>8, <2>1, <2>2, LinkFrame DEF IInv, LinkInv
<1> QED
  BY <1>6, <1>7, <1>8, <1>9, EntryFrame, SenderFrame, RegisterFrame
  DEF IInv, registry, sending

LEMMA JoinStep ==
    ASSUME IInv, NEW c \in Conns, Join(c)
    PROVE  IInv'
<1>1. /\ link' \in [Conns -> Link]
      /\ \A d \in Conns : /\ link'[d].addr = link[d].addr
                          /\ link'[d].pc = IF d = c THEN "open" ELSE link[d].pc
  BY SetPc DEF IInv, TypeOK, Join, Pcs
<1>2. register' \in Seq(Conns) /\ link[c].pc = "joining"
  BY DEF IInv, TypeOK, Join
<1>3. TypeOK'
  BY <1>1, <1>2 DEF IInv, TypeOK, Join, sending, search
<1>4. AddrKept
  BY <1>1 DEF AddrKept
<1>5. UNCHANGED <<service, peers, overtaken, sending, caster, health>>
  BY DEF Join, search
<1>6. LinkInv'
  <2>1. HandshakeKept
    BY <1>1, <1>2 DEF HandshakeKept
  <2> QED
    BY <1>1, <1>2, <1>5, <2>1, LinkFrame DEF IInv, LinkInv
<1>7. RegisterInv'
  <2>1. /\ Len(register') = Len(register) + 1
        /\ register'[Len(register) + 1] = c
        /\ \A i \in 1..Len(register) : register'[i] = register[i] /\ register[i] \in Conns
        /\ Len(register) \in Nat
    BY DEF IInv, TypeOK, Join
  <2>2. c \notin peers /\ \A i \in 1..Len(register) : register[i] # c
    BY <1>2 DEF IInv, RegisterInv, Registered, Gone
  <2>3. service # c
    BY <1>2, PeersAssumption DEF IInv, RegisterInv, Gone
  <2>4. \A d \in Conns \ {c} : link'[d].pc = link[d].pc
    BY <1>1
  <2>5. link'[c].pc \in Registered \ Gone
    BY <1>1 DEF Registered, Gone
  <2>6. \A i \in 1..Len(register') : i \in 1..Len(register) \/ i = Len(register) + 1
    BY <2>1
  <2>7. \A i, j \in 1..Len(register') : register'[i] = register'[j] => i = j
    BY <2>1, <2>2, <2>6 DEF IInv, RegisterInv
  <2>8. \A i \in 1..Len(register') :
           /\ register'[i] \notin peers'
           /\ link'[register'[i]].pc \in Registered
           /\ link'[register'[i]].pc \in Gone => register'[i] \in overtaken'
    BY <1>5, <2>1, <2>2, <2>4, <2>5, <2>6 DEF IInv, RegisterInv
  <2>9. \A d \in peers' :
           /\ link'[d].pc \in Registered
           /\ link'[d].pc \in Gone => service' = d \/ d \in overtaken'
    BY <1>5, <2>2, <2>4 DEF IInv, TypeOK, RegisterInv
  <2>10. service' # None => link'[service'].pc \in Gone
    BY <1>5, <2>3, <2>4 DEF IInv, TypeOK, RegisterInv
  <2> QED
    BY <2>7, <2>8, <2>9, <2>10 DEF RegisterInv
<1> QED
  BY <1>3, <1>4, <1>5, <1>6, <1>7, EntryFrame, SenderFrame DEF IInv, sending

LEMMA TrafficStep ==
    ASSUME IInv, TypeOK', LinkInv', link' \in [Conns -> Link],
           \A d \in Conns : link'[d].addr = link[d].addr /\ link'[d].pc = link[d].pc,
           UNCHANGED <<registry, sending>>
    PROVE  IInv'
<1>1. AddrKept /\ PcKept
  BY DEF AddrKept, PcKept
<1> QED
  BY <1>1, EntryFrame, SenderFrame, RegisterFrame DEF IInv, registry, sending

LEMMA BreakStep ==
    ASSUME IInv, NEW c \in Conns, Break(c)
    PROVE  IInv'
<1>1. link[c] \in Link
  BY DEF IInv, TypeOK
<1>2. link' = [link EXCEPT ![c].up = FALSE, ![c].ch = link[c].ch, ![c].got = link[c].got]
  BY <1>1 DEF IInv, TypeOK, Break, Link
<1>3. link[c].ch \in Seq(Texts) /\ link[c].got \in SUBSET Texts
  BY <1>1 DEF Link
<1>4. /\ link' \in [Conns -> Link]
      /\ \A d \in Conns : link'[d].addr = link[d].addr /\ link'[d].pc = link[d].pc
  BY <1>2, <1>3, SetTraffic DEF IInv, TypeOK
<1>5. env' \in Environment
  <2>1. env.breaks \in Nat /\ env.breaks > 0
    BY Bounds DEF IInv, TypeOK, Break
  <2>2. env.breaks - 1 \in Nat
    BY <2>1
  <2> QED
    BY <2>2, Bounds DEF IInv, TypeOK, Break
<1>6. TypeOK'
  BY <1>4, <1>5 DEF IInv, TypeOK, Break, registry, sending, search
<1>7. LinkInv'
  BY <1>4, LinkFrame DEF IInv, LinkInv, HandshakeKept, Break, search
<1> QED
  BY <1>4, <1>6, <1>7, TrafficStep DEF Break

LEMMA peerBroadcastStep ==
    ASSUME IInv, NEW c \in Conns, peerBroadcast(c)
    PROVE  IInv'
<1> DEFINE got == IF link[c].up THEN link[c].got \cup {Head(link[c].ch)} ELSE link[c].got
<1>1. link[c] \in Link
  BY DEF IInv, TypeOK
<1>2. link' = [link EXCEPT ![c].up = link[c].up, ![c].ch = Tail(link[c].ch), ![c].got = got]
  BY <1>1 DEF IInv, TypeOK, peerBroadcast, Link
<1>3. link[c].up \in BOOLEAN /\ link[c].ch \in Seq(Texts) /\ link[c].got \in SUBSET Texts
  BY <1>1 DEF Link
<1>4. Tail(link[c].ch) \in Seq(Texts) /\ got \in SUBSET Texts
  BY <1>3 DEF peerBroadcast
<1>5. /\ link' \in [Conns -> Link]
      /\ \A d \in Conns : link'[d].addr = link[d].addr /\ link'[d].pc = link[d].pc
  <2> HIDE DEF got
  <2> QED
    BY <1>2, <1>3, <1>4, SetTraffic DEF IInv, TypeOK
<1>6. TypeOK'
  BY <1>5 DEF IInv, TypeOK, peerBroadcast, registry, sending, search
<1>7. LinkInv'
  BY <1>5, LinkFrame DEF IInv, LinkInv, HandshakeKept, peerBroadcast, search
<1> QED
  BY <1>5, <1>6, <1>7, TrafficStep DEF peerBroadcast

LEMMA HangupStep ==
    ASSUME IInv, NEW c \in Conns, Hangup(c)
    PROVE  IInv'
<1>1. /\ link' \in [Conns -> Link]
      /\ \A d \in Conns : /\ link'[d].addr = link[d].addr
                          /\ link'[d].pc = IF d = c THEN "leaving" ELSE link[d].pc
  BY SetPc DEF IInv, TypeOK, Hangup, Pcs
<1>2. link[c].pc = "open" /\ UNCHANGED <<registry, sending, caster, health>>
  BY DEF Hangup, search
<1>3. TypeOK'
  BY <1>1 DEF IInv, TypeOK, Hangup, registry, sending, search
<1>4. AddrKept
  BY <1>1 DEF AddrKept
<1>5. LinkInv'
  <2>1. HandshakeKept
    BY <1>1, <1>2 DEF HandshakeKept
  <2> QED
    BY <1>1, <1>2, <2>1, LinkFrame DEF IInv, LinkInv
<1>6. RegisterInv'
  <2>1. \A d \in Conns : link'[d].pc \in Registered <=> link[d].pc \in Registered
    BY <1>1, <1>2 DEF Registered
  <2>2. \A d \in Conns : link'[d].pc \in Gone <=> link[d].pc \in Gone
    BY <1>1, <1>2 DEF Gone
  <2>3. \A i \in 1..Len(register) : register[i] \in Conns
    BY DEF IInv, TypeOK
  <2> QED
    BY <1>2, <2>1, <2>2, <2>3 DEF IInv, TypeOK, RegisterInv, registry
<1> QED
  BY <1>2, <1>3, <1>4, <1>5, <1>6, EntryFrame, SenderFrame DEF IInv, registry, sending

\* A connection that is gone stays gone.
LEMMA GoneStep ==
    ASSUME IInv, TypeOK', NEW c \in Conns, NEW p \in Gone, link[c].pc \in Gone,
           p # "closed" => link[c].addr \in Miners,
           /\ link' \in [Conns -> Link]
           /\ \A d \in Conns : /\ link'[d].addr = link[d].addr
                               /\ link'[d].pc = IF d = c THEN p ELSE link[d].pc,
           UNCHANGED <<registry, sending, caster, health>>
    PROVE  IInv'
<1>1. AddrKept
  BY DEF AddrKept
<1>2. LinkInv'
  <2>1. HandshakeKept
    BY DEF HandshakeKept, Gone
  <2> QED
    BY <2>1, LinkFrame DEF IInv, LinkInv, Gone
<1>3. RegisterInv'
  <2>1. \A d \in Conns : link'[d].pc \in Registered <=> link[d].pc \in Registered
    BY DEF Registered
  <2>2. \A d \in Conns : link'[d].pc \in Gone <=> link[d].pc \in Gone
    OBVIOUS
  <2>3. \A i \in 1..Len(register) : register[i] \in Conns
    BY DEF IInv, TypeOK
  <2> QED
    BY <2>1, <2>2, <2>3 DEF IInv, TypeOK, RegisterInv, registry
<1> QED
  BY <1>1, <1>2, <1>3, EntryFrame, SenderFrame DEF IInv, registry, sending

LEMMA TryReconnectStep ==
    ASSUME IInv, NEW c \in Conns, TryReconnect(c)
    PROVE  IInv'
<1>1. link \in [Conns -> Link] /\ tried \in [last : Miners \cup {None}, holder : Conns \cup {None}]
  BY DEF IInv, TypeOK
<1>2. link[c].pc = "left" /\ link[c].addr \in Miners
  BY DEF IInv, LinkInv, TryReconnect
<1>3. UNCHANGED <<registry, sending, caster, health>>
  BY DEF TryReconnect
<1>4. CASE link' = [link EXCEPT ![c].pc = "closed"] /\ UNCHANGED tried
  <2>1. /\ link' \in [Conns -> Link]
        /\ \A d \in Conns : /\ link'[d].addr = link[d].addr
                            /\ link'[d].pc = IF d = c THEN "closed" ELSE link[d].pc
    BY <1>1, <1>4, SetPc DEF Pcs
  <2>2. TypeOK'
    BY <1>4, <2>1 DEF IInv, TypeOK, TryReconnect, registry, sending
  <2> QED
    BY <1>2, <1>3, <2>1, <2>2, GoneStep DEF Gone
<1>5. CASE link' = [link EXCEPT ![c].pc = "listing"] /\ tried' = [tried EXCEPT !.holder = c]
  <2>1. /\ link' \in [Conns -> Link]
        /\ \A d \in Conns : /\ link'[d].addr = link[d].addr
                            /\ link'[d].pc = IF d = c THEN "listing" ELSE link[d].pc
    BY <1>1, <1>5, SetPc DEF Pcs
  <2>2. tried' \in [last : Miners \cup {None}, holder : Conns \cup {None}]
    BY <1>1, <1>5
  <2>3. TypeOK'
    BY <2>1, <2>2 DEF IInv, TypeOK, TryReconnect, registry, sending
  <2> QED
    BY <1>2, <1>3, <2>1, <2>3, GoneStep DEF Gone
<1> QED
  BY <1>4, <1>5 DEF TryReconnect

LEMMA setLastTriedPeerStep ==
    ASSUME IInv, NEW c \in Conns, setLastTriedPeer(c)
    PROVE  IInv'
<1>1. link[c].pc = "listing" /\ link[c].addr \in Miners
  BY DEF IInv, LinkInv, setLastTriedPeer
<1>2. UNCHANGED <<registry, sending, caster, health>>
  BY DEF setLastTriedPeer
<1>3. /\ link' \in [Conns -> Link]
      /\ \A d \in Conns : /\ link'[d].addr = link[d].addr
                          /\ link'[d].pc = IF d = c THEN "closed" ELSE link[d].pc
  BY SetPc DEF IInv, TypeOK, setLastTriedPeer, Pcs
<1>4. iplist' \in Seq(Miners)
  BY <1>1 DEF IInv, TypeOK, setLastTriedPeer
<1>5. tried' \in [last : Miners \cup {None}, holder : Conns \cup {None}]
  BY <1>1 DEF IInv, TypeOK, setLastTriedPeer
<1>6. TypeOK'
  BY <1>3, <1>4, <1>5 DEF IInv, TypeOK, setLastTriedPeer, registry, sending
<1> QED
  BY <1>1, <1>2, <1>3, <1>6, GoneStep DEF Gone

----------------------------------------------------------------------------
(* peerService.                                                            *)

LEMMA TakeDisconnectStep ==
    ASSUME IInv, NEW c \in Conns, TakeDisconnect(c)
    PROVE  IInv'
<1> DEFINE p == IF link[c].addr \in Miners THEN "left" ELSE "closed"
<1>1. link[c].pc = "leaving" /\ service = None /\ service' = c
  BY DEF TakeDisconnect
<1>2. p \in Pcs /\ p \in Gone /\ (p # "closed" => link[c].addr \in Miners)
  BY DEF Pcs, Gone
<1>3. link' = [link EXCEPT ![c].pc = p]
  BY DEF TakeDisconnect
<1>4. UNCHANGED <<register, peers, sending, caster, health>>
  BY DEF TakeDisconnect, search
<1> HIDE DEF p
<1>5. /\ link' \in [Conns -> Link]
      /\ \A d \in Conns : /\ link'[d].addr = link[d].addr
                          /\ link'[d].pc = IF d = c THEN p ELSE link[d].pc
  BY <1>2, <1>3, SetPc DEF IInv, TypeOK
<1>6. /\ overtaken \subseteq overtaken' /\ overtaken' \subseteq Conns
      /\ \A i \in 1..Len(register) : register[i] = c => c \in overtaken'
  BY DEF IInv, TypeOK, TakeDisconnect, ToSet
<1>7. TypeOK'
  BY <1>1, <1>5, <1>6 DEF IInv, TypeOK, TakeDisconnect, sending, search
<1>8. AddrKept
  BY <1>5 DEF AddrKept
<1>9. LinkInv'
  <2>1. HandshakeKept
    BY <1>1, <1>5 DEF HandshakeKept
  <2> QED
    BY <1>1, <1>2, <1>4, <1>5, <2>1, LinkFrame DEF IInv, LinkInv, Gone
<1>10. RegisterInv'
  <2>1. \A d \in Conns : link[d].pc \in Registered => link'[d].pc \in Registered
    BY <1>2, <1>5 DEF Registered
  <2>2. \A d \in Conns : link'[d].pc \in Gone => d = c \/ link[d].pc \in Gone
    BY <1>5
  <2>3. \A i \in 1..Len(register) : register[i] \in Conns
    BY DEF IInv, TypeOK
  <2>4. \A i \in 1..Len(register) :
           /\ register[i] \notin peers'
           /\ link'[register[i]].pc \in Registered
           /\ link'[register[i]].pc \in Gone => register[i] \in overtaken'
    BY <1>4, <1>6, <2>1, <2>2, <2>3 DEF IInv, RegisterInv
  <2>5. \A d \in peers :
           /\ link'[d].pc \in Registered
           /\ link'[d].pc \in Gone => service' = d \/ d \in overtaken'
    BY <1>1, <1>6, <2>1, <2>2, PeersAssumption DEF IInv, TypeOK, RegisterInv
  <2>6. link'[c].pc \in Gone
    BY <1>2, <1>5
  <2> QED
    BY <1>1, <1>4, <2>4, <2>5, <2>6 DEF IInv, RegisterInv
<1> QED
  BY <1>4, <1>7, <1>8, <1>9, <1>10, EntryFrame, SenderFrame DEF IInv, sending

LEMMA DeleteStep ==
    ASSUME IInv, Delete
    PROVE  IInv'
<1>1. service # None /\ service' = None /\ peers' = peers \ {service}
  BY DEF Delete, delete
<1>2. UNCHANGED <<link, register, overtaken, sending, caster, health>>
  BY DEF Delete, search
<1>3. TypeOK'
  BY <1>1, <1>2 DEF IInv, TypeOK, Delete, sending, search
<1>4. LinkInv'
  BY <1>2 DEF IInv, LinkInv
<1>5. RegisterInv'
  BY <1>1, <1>2 DEF IInv, RegisterInv
<1>6. minerConns' \subseteq minerConns
  BY <1>1, <1>2 DEF minerConns
<1>7. EntryInv'
  BY <1>2, <1>6 DEF IInv, EntryInv, sending
<1>8. SenderInv'
  BY <1>2 DEF IInv, SenderInv, sending
<1> QED
  BY <1>3, <1>4, <1>5, <1>7, <1>8 DEF IInv

----------------------------------------------------------------------------
(* sendingMap.                                                             *)

\* What sendingMap and its entries may become: no address and no entry loses
\* its connection, and every entry has a connection of its address.
EntriesKept ==
    /\ sendingMap' \in [Miners -> {0} \cup Entries]
    /\ entry' \in [Miners -> [Entries -> Entry]]
    /\ \A a \in Miners : sendingMap[a] # 0 => sendingMap'[a] # 0
    /\ \A a \in Miners : sendingMap'[a] # 0 => entry'[a][sendingMap'[a]].peer # None
    /\ \A a \in Miners, n \in Entries :
          /\ entry[a][n].peer # None => entry'[a][n].peer # None
          /\ entry'[a][n].peer # None => link[entry'[a][n].peer].addr = a

LEMMA EnterKeeps ==
    ASSUME IInv, NEW moved \in SUBSET Miners, NEW owner,
           \A a \in moved : owner[a] \in Conns /\ link[owner[a]].addr = a,
           Enter(owner, moved)
    PROVE  EntriesKept /\ \A a \in moved : sendingMap'[a] # 0
<1>1. 0 \notin Entries
  BY FS_CardinalityType, PeersAssumption DEF Entries
<1>2. /\ sendingMap \in [Miners -> {0} \cup Entries]
      /\ entry \in [Miners -> [Entries -> Entry]]
  BY DEF IInv, TypeOK
<1>3. \A a \in Miners : Unused(a) \in Entries
  BY UnusedExists DEF IInv
<1>4. /\ sendingMap' \in [Miners -> {0} \cup Entries]
      /\ entry' = [a \in Miners |-> entry'[a]]
  BY <1>2, <1>3 DEF Enter
<1>5. ASSUME NEW a \in Miners
      PROVE  /\ entry'[a] \in [Entries -> Entry]
             /\ a \in moved \/ sendingMap[a] # 0 => sendingMap'[a] # 0
             /\ sendingMap'[a] # 0 => entry'[a][sendingMap'[a]].peer # None
             /\ \A n \in Entries :
                   /\ entry[a][n].peer # None => entry'[a][n].peer # None
                   /\ entry'[a][n].peer # None => link[entry'[a][n].peer].addr = a
  <2>1. CASE a \notin moved
    <3>1. sendingMap'[a] = sendingMap[a] /\ entry'[a] = entry[a]
      BY <2>1 DEF Enter
    <3> QED
      BY <1>2, <2>1, <3>1 DEF IInv, EntryInv
  <2>2. CASE a \in moved
    <3> DEFINE u == Unused(a)
               old == IF sendingMap[a] = 0 THEN <<>> ELSE entry[a][sendingMap[a]].delayed
               new == [peer |-> owner[a], delayed |-> old]
    <3>1. sendingMap'[a] = u /\ entry'[a] = [entry[a] EXCEPT ![u] = new]
      BY <2>2 DEF Enter
    <3>2. u \in Entries
      BY <1>3
    <3>3. old \in Seq(Msgs)
      BY <1>2 DEF Entry
    <3> HIDE DEF u, old
    <3>4. new \in Entry /\ new.peer = owner[a] /\ owner[a] # None
      BY <2>2, <3>3, PeersAssumption DEF Entry
    <3> HIDE DEF new
    <3>5. /\ entry'[a] \in [Entries -> Entry]
          /\ entry'[a][u] = new
          /\ \A n \in Entries \ {u} : entry'[a][n] = entry[a][n]
      BY <1>2, <3>1, <3>2, <3>4
    <3> QED
      BY <1>1, <2>2, <3>1, <3>2, <3>4, <3>5 DEF IInv, EntryInv
  <2> QED
    BY <2>1, <2>2
<1> QED
  BY <1>4, <1>5 DEF EntriesKept

LEMMA SendersKept ==
    ASSUME IInv, EntriesKept, UNCHANGED <<link, sender, mutex>>
    PROVE  SenderInv'
<1>1. \A m \in Msgs : /\ sender[m].addr # None => sender[m].addr \in Miners
                      /\ sender[m].id # 0 => sender[m].id \in Entries
  BY DEF IInv, TypeOK, Sender
<1> QED
  BY <1>1 DEF IInv, SenderInv, EntriesKept

LEMMA TakeRegisterStep ==
    ASSUME IInv, TakeRegister
    PROVE  IInv'
<1> DEFINE c == Head(register)
           older == {d \in minerConns : link[c].addr \in Miners /\ link[d].addr = link[c].addr}
           now == (peers \ older) \cup {c}
           Of(a) == {d \in now : link[d].addr = a}
           owner == [a \in Miners |-> IF Of(a) = {} THEN None ELSE CHOOSE d \in Of(a) : TRUE]
           moved == {a \in Miners : owner[a] # None
                                    /\ (sendingMap[a] = 0 \/ Stale(a, owner[a]))}
<1>1. /\ peers' = now
      /\ Enter(owner, moved)
      /\ register # <<>> /\ register' = Tail(register)
      /\ service = None
  BY DEF TakeRegister, add
<1>2. UNCHANGED <<link, service, overtaken, mutex, sender, caster, health>>
  BY DEF TakeRegister, search
<1>3. /\ c \in Conns /\ c = register[1] /\ 1 \in 1..Len(register)
      /\ register' \in Seq(Conns)
      /\ Len(register') = Len(register) - 1
      /\ \A i \in 1..Len(register') : register'[i] = register[i + 1] /\ i + 1 \in 1..Len(register)
      /\ Len(register) \in Nat
  BY <1>1 DEF IInv, TypeOK
<1>4. c \notin peers /\ link[c].pc \in Registered /\ (link[c].pc \in Gone => c \in overtaken)
  BY <1>3 DEF IInv, RegisterInv
<1> HIDE DEF c
<1>5. now \subseteq Conns
  BY <1>3 DEF IInv, TypeOK, minerConns
<1> HIDE DEF now
<1>6. \A a \in Miners : owner[a] # None => owner[a] \in Of(a)
  OBVIOUS
<1>7. \A a \in moved : owner[a] \in Conns /\ link[owner[a]].addr = a
  BY <1>5, <1>6
<1>8. \A d \in now : link[d].addr \in Miners => owner[link[d].addr] # None
  BY <1>5, PeersAssumption
<1>9. moved \in SUBSET Miners
  OBVIOUS
<1>10. EntriesKept /\ \A a \in moved : sendingMap'[a] # 0
  <2> HIDE DEF moved, owner
  <2> QED
    BY <1>1, <1>7, <1>9, EnterKeeps
<1>11. \A a \in Miners : owner[a] # None => sendingMap'[a] # 0
  BY <1>10 DEF EntriesKept
<1>12. TypeOK'
  <2> HIDE DEF moved, owner
  <2> QED
    BY <1>1, <1>3, <1>5, <1>10 DEF IInv, TypeOK, TakeRegister, EntriesKept, search
<1>13. LinkInv'
  BY <1>2 DEF IInv, LinkInv
<1>14. RegisterInv'
  <2>1. \A i, j \in 1..Len(register') : register'[i] = register'[j] => i = j
    <3> SUFFICES ASSUME NEW i \in 1..Len(register'), NEW j \in 1..Len(register'),
                        register'[i] = register'[j]
                 PROVE  i = j
      OBVIOUS
    <3>1. i + 1 = j + 1
      BY <1>3 DEF IInv, RegisterInv
    <3> QED
      BY <1>3, <3>1
  <2>2. \A i \in 1..Len(register') : register'[i] # c
    <3> SUFFICES ASSUME NEW i \in 1..Len(register'), register'[i] = c
                 PROVE  FALSE
      OBVIOUS
    <3>1. i + 1 = 1
      BY <1>3 DEF IInv, RegisterInv
    <3> QED
      BY <1>3, <3>1
  <2>3. now \subseteq peers \cup {c}
    BY DEF now
  <2>4. \A i \in 1..Len(register') :
           /\ register'[i] \notin peers'
           /\ link'[register'[i]].pc \in Registered
           /\ link'[register'[i]].pc \in Gone => register'[i] \in overtaken'
    BY <1>1, <1>2, <1>3, <2>2, <2>3 DEF IInv, RegisterInv
  <2>5. \A d \in peers' :
           /\ link'[d].pc \in Registered
           /\ link'[d].pc \in Gone => service' = d \/ d \in overtaken'
    BY <1>1, <1>2, <1>4, <2>3 DEF IInv, RegisterInv
  <2> QED
    BY <1>1, <1>2, <2>1, <2>4, <2>5 DEF RegisterInv
<1>15. EntryInv'
  <2>1. minerConns' = {d \in now : link[d].addr \in Miners}
    BY <1>1, <1>2 DEF minerConns
  <2>2. \A d, e \in minerConns' : link'[d].addr = link'[e].addr => d = e
    <3>1. \A d \in minerConns' : d = c \/ (d \in minerConns /\ d \notin older)
      BY <2>1 DEF now, minerConns
    <3> QED
      BY <1>2, <2>1, <3>1 DEF IInv, EntryInv
  <2>3. \A d \in minerConns' : sendingMap'[link'[d].addr] # 0
    BY <1>2, <1>8, <1>11, <2>1
  <2> QED
    BY <1>2, <1>10, <2>2, <2>3 DEF EntryInv, EntriesKept
<1>16. SenderInv'
  BY <1>2, <1>10, SendersKept
<1> QED
  BY <1>12, <1>13, <1>14, <1>15, <1>16 DEF IInv

----------------------------------------------------------------------------
(* Broadcasts to miners.                                                   *)

LEMMA EntriesSame ==
    ASSUME IInv, UNCHANGED <<sendingMap, entry>>
    PROVE  EntriesKept
BY DEF IInv, TypeOK, EntryInv, EntriesKept

\* An entry that only gets other delayed messages.
LEMMA DelayedKeeps ==
    ASSUME IInv, UNCHANGED sendingMap, NEW a \in Miners, NEW n \in Entries, NEW q \in Seq(Msgs),
           entry' = [entry EXCEPT ![a][n].delayed = q]
    PROVE  EntriesKept
<1> DEFINE e == [entry[a][n] EXCEPT !.delayed = q]
<1>1. entry \in [Miners -> [Entries -> Entry]]
  BY DEF IInv, TypeOK
<1>2. e \in Entry /\ e.peer = entry[a][n].peer
  <2>1. entry[a][n] \in Entry
    BY <1>1
  <2> QED
    BY <2>1 DEF Entry
<1> DEFINE f == [entry[a] EXCEPT ![n] = e]
<1>3. entry' = [entry EXCEPT ![a] = f]
  BY <1>1
<1> HIDE DEF e
<1>4. entry' \in [Miners -> [Entries -> Entry]]
  <2>1. f \in [Entries -> Entry]
    BY <1>1, <1>2
  <2> HIDE DEF f
  <2> QED
    BY <1>1, <1>3, <2>1
<1>5. \A b \in Miners, k \in Entries : entry'[b][k].peer = entry[b][k].peer
  BY <1>1, <1>2, <1>3
<1> QED
  BY <1>4, <1>5 DEF IInv, TypeOK, EntryInv, EntriesKept

LEMMA EntryStep ==
    ASSUME IInv, AddrKept, EntriesKept, UNCHANGED peers
    PROVE  EntryInv'
<1>1. \A d \in Conns : link[d].addr # None => link'[d].addr = link[d].addr
  BY DEF IInv, LinkInv, AddrKept
<1>2. \A c \in peers : c \in Conns /\ link'[c].addr = link[c].addr
  BY DEF IInv, TypeOK, RegisterInv, Registered, Gone, AddrKept
<1>3. minerConns' = minerConns /\ minerConns \subseteq peers
  BY <1>2 DEF minerConns
<1>4. \A c \in minerConns : link[c].addr \in Miners
  BY DEF minerConns
<1>5. \A a \in Miners, n \in Entries :
         entry'[a][n].peer # None => entry'[a][n].peer \in Conns
  BY DEF EntriesKept, Entry
<1>6. \A a \in Miners, n \in Entries :
         entry'[a][n].peer # None => link'[entry'[a][n].peer].addr = a
  BY <1>1, <1>5, PeersAssumption DEF EntriesKept
<1>7. \A c \in minerConns : sendingMap'[link'[c].addr] # 0
  BY <1>2, <1>3, <1>4 DEF IInv, EntryInv, EntriesKept
<1>8. \A c, d \in minerConns : link'[c].addr = link'[d].addr => c = d
  BY <1>2, <1>3 DEF IInv, EntryInv
<1> QED
  BY <1>3, <1>6, <1>7, <1>8 DEF EntryInv, EntriesKept

\* What must hold of a sender that becomes r.
SenderOK(m, r) ==
    /\ r.pc \in Visiting =>
          /\ r.addr # None
          /\ r.id # 0
          /\ sendingMap'[r.addr] # 0
          /\ entry'[r.addr][r.id].peer # None
    /\ r.pc \in {"send", "older"} => r.receiver # None /\ link'[r.receiver].addr = r.addr
    /\ r.pc \in Locked <=> mutex' = m

\* One broadcast goes on; the invariant holds of the others as before.
LEMMA SenderStep ==
    ASSUME IInv, AddrKept, EntriesKept, PcKept, HandshakeKept,
           NEW m \in Msgs, NEW r \in Sender, sender' = [sender EXCEPT ![m] = r],
           SenderOK(m, r),
           \A x \in Msgs \ {m} : mutex = x <=> mutex' = x,
           mutex' \in Msgs \cup {None},
           \A d \in Conns : /\ link'[d].pc = "unused" <=> link[d].pc = "unused"
                            /\ link'[d].addr = link[d].addr /\ link'[d].pc = link[d].pc,
           UNCHANGED <<env, registry, caster, search, request>>
    PROVE  IInv'
<1>1. sender \in [Msgs -> Sender] /\ health.conn \in Conns \cup {None}
  BY DEF IInv, TypeOK
<1>2. sender' \in [Msgs -> Sender] /\ sender'[m] = r /\ \A x \in Msgs \ {m} : sender'[x] = sender[x]
  BY <1>1
<1>3. TypeOK'
  BY <1>2 DEF IInv, TypeOK, AddrKept, EntriesKept, registry, search
<1>4. LinkInv'
  BY LinkFrame DEF IInv, LinkInv, search
<1>5. \A x \in Msgs : /\ sender[x].addr # None => sender[x].addr \in Miners
                      /\ sender[x].id # 0 => sender[x].id \in Entries
                      /\ sender[x].receiver # None => sender[x].receiver \in Conns
  BY <1>1 DEF Sender
<1>6. \A x \in Msgs \ {m} :
         /\ sender'[x].pc \in Visiting =>
               /\ sender'[x].addr # None
               /\ sender'[x].id # 0
               /\ sendingMap'[sender'[x].addr] # 0
               /\ entry'[sender'[x].addr][sender'[x].id].peer # None
         /\ sender'[x].pc \in {"send", "older"} =>
               sender'[x].receiver # None /\ link'[sender'[x].receiver].addr = sender'[x].addr
         /\ sender'[x].pc \in Locked <=> mutex' = x
  BY <1>2, <1>5 DEF IInv, SenderInv, EntriesKept
<1>7. SenderInv'
  BY <1>2, <1>6 DEF SenderInv, SenderOK
<1> QED
  BY <1>3, <1>4, <1>7, EntryStep, RegisterFrame DEF IInv, registry

\* The same when the broadcast changes nothing but itself.
LEMMA SenderAlone ==
    ASSUME IInv, NEW m \in Msgs, NEW r \in Sender, sender' = [sender EXCEPT ![m] = r],
           SenderOK(m, r),
           UNCHANGED <<env, link, registry, sendingMap, entry, mutex, caster, search, request>>
    PROVE  IInv'
<1>1. AddrKept /\ PcKept /\ HandshakeKept
  BY DEF IInv, TypeOK, AddrKept, PcKept, HandshakeKept
<1>2. mutex' \in Msgs \cup {None}
  BY DEF IInv, TypeOK
<1> QED
  BY <1>1, <1>2, EntriesSame, SenderStep

LEMMA BroadcastStep ==
    ASSUME IInv, NEW m \in Msgs, Broadcast(m)
    PROVE  IInv'
<1> DEFINE r == [sender[m] EXCEPT !.pc = "range", !.must = {a \in Miners : sendingMap[a] # 0},
                                  !.owed = minerConns]
<1>1. sender[m] \in Sender /\ sender[m].pc = "idle" /\ minerConns \in SUBSET Conns
  BY DEF IInv, TypeOK, Broadcast, minerConns
<1>2. r \in Sender /\ r.pc = "range"
  BY <1>1 DEF Sender
<1>3. sender' = [sender EXCEPT ![m] = r]
  BY DEF Broadcast
<1> HIDE DEF r
<1>4. SenderOK(m, r)
  BY <1>1, <1>2 DEF SenderOK, Visiting, Locked, IInv, SenderInv, Broadcast
<1> QED
  BY <1>2, <1>3, <1>4, SenderAlone DEF Broadcast

LEMMA NextEntryStep ==
    ASSUME IInv, NEW m \in Msgs, NextEntry(m)
    PROVE  IInv'
<1>1. sender[m] \in Sender /\ sender[m].pc = "range" /\ mutex # m
  BY DEF IInv, TypeOK, NextEntry, SenderInv, Locked
<1>2. ASSUME NEW a \in Miners, sendingMap[a] # 0,
             sender' = [sender EXCEPT ![m] = [sender[m] EXCEPT !.pc = "check", !.seen = @ \cup {a},
                                                       !.addr = a, !.id = sendingMap[a]]]
      PROVE  IInv'
  <2> DEFINE r == [sender[m] EXCEPT !.pc = "check", !.seen = @ \cup {a},
                                    !.addr = a, !.id = sendingMap[a]]
  <2>1. sendingMap[a] \in {0} \cup Entries
    BY DEF IInv, TypeOK
  <2>2. r \in Sender /\ r.pc = "check" /\ r.addr = a /\ r.id = sendingMap[a]
    BY <1>1, <2>1 DEF Sender
  <2>3. sender' = [sender EXCEPT ![m] = r]
    BY <1>2
  <2> HIDE DEF r
  <2>4. SenderOK(m, r)
    BY <1>1, <1>2, <2>2, PeersAssumption
    DEF SenderOK, Visiting, Locked, IInv, EntryInv, NextEntry
  <2> QED
    BY <2>2, <2>3, <2>4, SenderAlone DEF NextEntry
<1>3. ASSUME sender' = [sender EXCEPT ![m] = [Idle EXCEPT !.pc = "done", !.owed = sender[m].owed]]
      PROVE  IInv'
  <2> DEFINE r == [Idle EXCEPT !.pc = "done", !.owed = sender[m].owed]
  <2>1. Idle \in Sender
    BY DEF Idle, Sender
  <2>2. r \in Sender /\ r.pc = "done"
    BY <1>1, <2>1 DEF Sender
  <2>3. sender' = [sender EXCEPT ![m] = r]
    BY <1>3
  <2> HIDE DEF r
  <2>4. SenderOK(m, r)
    BY <1>1, <2>2 DEF SenderOK, Visiting, Locked, NextEntry
  <2> QED
    BY <2>2, <2>3, <2>4, SenderAlone DEF NextEntry
<1> QED
  BY <1>2, <1>3 DEF NextEntry

LEMMA CheckStep ==
    ASSUME IInv, NEW m \in Msgs, Check(m)
    PROVE  IInv'
<1> DEFINE r == IF contains(sender[m].addr) THEN [sender[m] EXCEPT !.pc = "lock"]
                ELSE [sender[m] EXCEPT !.pc = "store", !.older = Visited(m).delayed]
<1>1. sender[m] \in Sender /\ sender[m].pc = "check" /\ mutex # m
  BY DEF IInv, TypeOK, Check, SenderInv, Locked
<1>2. sender[m].addr \in Miners /\ sender[m].id \in Entries
  BY <1>1 DEF IInv, SenderInv, Visiting, Sender
<1>3. Visited(m).delayed \in Seq(Msgs)
  BY <1>2 DEF IInv, TypeOK, Entry, Visited
<1>4. /\ r \in Sender /\ r.pc \in {"lock", "store"}
      /\ r.addr = sender[m].addr /\ r.id = sender[m].id
  BY <1>1, <1>3 DEF Sender
<1>5. sender' = [sender EXCEPT ![m] = r]
  BY DEF Check
<1> HIDE DEF r
<1>6. SenderOK(m, r)
  BY <1>1, <1>4 DEF SenderOK, Visiting, Locked, IInv, SenderInv, Check
<1> QED
  BY <1>4, <1>5, <1>6, SenderAlone DEF Check

LEMMA LockStep ==
    ASSUME IInv, NEW m \in Msgs, Lock(m)
    PROVE  IInv'
<1> DEFINE r == [sender[m] EXCEPT !.pc = "receiver"]
           a == sender[m].addr
           p == Visited(m).peer
           moved == IF Stale(a, p) THEN {a} ELSE {}
           owner == [x \in Miners |-> p]
<1>1. sender[m] \in Sender /\ sender[m].pc = "lock" /\ mutex = None /\ mutex' = m
  BY DEF IInv, TypeOK, Lock
<1>2. /\ a \in Miners /\ a # None /\ p # None /\ sendingMap[a] # 0
      /\ sender[m].id \in Entries /\ sender[m].id # 0
  BY <1>1 DEF IInv, SenderInv, Visiting, Sender, Visited
<1>3. p \in Conns /\ link[p].addr = a
  BY <1>2 DEF IInv, TypeOK, Entry, EntryInv, Visited
<1>4. Enter(owner, moved) /\ sender' = [sender EXCEPT ![m] = r]
  BY DEF Lock
<1>5. r \in Sender /\ r.pc = "receiver" /\ r.addr = a /\ r.id = sender[m].id
  BY <1>1 DEF Sender
<1>6. UNCHANGED <<env, link, registry, caster, search, request>>
  BY DEF Lock
<1> HIDE DEF r, a, p
<1>7. EntriesKept
  <2>1. moved \in SUBSET Miners /\ \A x \in moved : owner[x] \in Conns /\ link[owner[x]].addr = x
    BY <1>2, <1>3
  <2> HIDE DEF moved, owner
  <2> QED
    BY <1>4, <2>1, EnterKeeps
<1>8. SenderOK(m, r)
  <2>1. entry[a][sender[m].id].peer # None
    BY <1>2 DEF p, a, Visited
  <2>2. sendingMap'[a] # 0 /\ entry'[a][sender[m].id].peer # None
    BY <1>2, <1>7, <2>1 DEF EntriesKept
  <2> QED
    BY <1>1, <1>2, <1>5, <2>2 DEF SenderOK, Locked
<1>9. AddrKept /\ PcKept /\ HandshakeKept
  BY <1>6 DEF IInv, TypeOK, AddrKept, PcKept, HandshakeKept
<1>10. \A x \in Msgs \ {m} : mutex = x <=> mutex' = x
  BY <1>1, PeersAssumption
<1> QED
  BY <1>1, <1>4, <1>5, <1>6, <1>7, <1>8, <1>9, <1>10, SenderStep

LEMMA ReceiverStep ==
    ASSUME IInv, NEW m \in Msgs, Receiver(m)
    PROVE  IInv'
<1> DEFINE a == sender[m].addr
           p == entry[a][sendingMap[a]].peer
           r == [sender[m] EXCEPT !.pc = "send", !.receiver = p]
<1>1. sender[m] \in Sender /\ sender[m].pc = "receiver" /\ mutex = m
  BY DEF IInv, TypeOK, Receiver, SenderInv, Locked
<1>2. a \in Miners /\ sender[m].id \in Entries /\ sendingMap[a] # 0
  BY <1>1 DEF IInv, SenderInv, Visiting, Sender
<1>3. sendingMap[a] \in Entries
  BY <1>2 DEF IInv, TypeOK
<1>4. p \in Conns /\ p # None /\ link[p].addr = a
  BY <1>2, <1>3 DEF IInv, TypeOK, Entry, EntryInv
<1>5. sender' = [sender EXCEPT ![m] = r]
  BY <1>1 DEF Receiver, Sender, IInv, TypeOK
<1> HIDE DEF p
<1>6. r \in Sender /\ r.pc = "send" /\ r.addr = a /\ r.id = sender[m].id /\ r.receiver = p
  BY <1>1, <1>4 DEF Sender
<1> HIDE DEF r
<1>7. SenderOK(m, r)
  BY <1>1, <1>4, <1>6 DEF SenderOK, Visiting, Locked, IInv, SenderInv, Receiver
<1> QED
  BY <1>5, <1>6, <1>7, SenderAlone DEF Receiver

LEMMA SendStep ==
    ASSUME IInv, NEW m \in Msgs, Send(m)
    PROVE  IInv'
<1> DEFINE c == sender[m].receiver
           r == [sender[m] EXCEPT !.pc = "older", !.older = Visited(m).delayed]
<1>1. sender[m] \in Sender /\ sender[m].pc = "send" /\ mutex = m
  BY DEF IInv, TypeOK, Send, SenderInv, Locked
<1>2. sender[m].addr \in Miners /\ sender[m].id \in Entries /\ c \in Conns
  BY <1>1 DEF IInv, SenderInv, Visiting, Sender
<1>3. Visited(m).delayed \in Seq(Msgs)
  BY <1>2 DEF IInv, TypeOK, Entry, Visited
<1>4. /\ r \in Sender /\ r.pc = "older" /\ r.receiver = c
      /\ r.addr = sender[m].addr /\ r.id = sender[m].id
  BY <1>1, <1>3 DEF Sender
<1>5. sender' = [sender EXCEPT ![m] = r]
  BY <1>1 DEF Send, Sender, IInv, TypeOK
<1>6. /\ link' \in [Conns -> Link]
      /\ \A d \in Conns : link'[d].addr = link[d].addr /\ link'[d].pc = link[d].pc
  BY <1>2, SetChannel DEF Send, IInv, TypeOK, Texts
<1> HIDE DEF r
<1>7. UNCHANGED <<env, registry, sendingMap, entry, mutex, caster, search, request>>
  BY DEF Send
<1>8. SenderOK(m, r)
  BY <1>1, <1>2, <1>4, <1>6, <1>7 DEF SenderOK, Visiting, Locked, IInv, SenderInv
<1>9. AddrKept /\ PcKept /\ HandshakeKept /\ EntriesKept
  BY <1>6, <1>7, EntriesSame DEF AddrKept, PcKept, HandshakeKept
<1>10. mutex' \in Msgs \cup {None}
  BY <1>7 DEF IInv, TypeOK
<1> QED
  BY <1>4, <1>5, <1>6, <1>7, <1>8, <1>9, <1>10, SenderStep

LEMMA SendOlderStep ==
    ASSUME IInv, NEW m \in Msgs, SendOlder(m)
    PROVE  IInv'
<1> DEFINE c == sender[m].receiver
           room == Len(link[c].ch) < ChanMax
           r == IF room /\ Visited(m).delayed = <<>> THEN [sender[m] EXCEPT !.pc = "panic"]
                ELSE [sender[m] EXCEPT !.older = Tail(@)]
<1>1. sender[m] \in Sender /\ sender[m].pc = "older" /\ sender[m].older # <<>>
  BY DEF IInv, TypeOK, SendOlder
<1>2. /\ sender[m].addr \in Miners /\ sender[m].id \in Entries
      /\ c \in Conns /\ sender[m].older \in Seq(Msgs)
  BY <1>1 DEF IInv, SenderInv, Visiting, Sender
<1>3. Tail(sender[m].older) \in Seq(Msgs) /\ Head(sender[m].older) \in Texts
  BY <1>1, <1>2 DEF Texts
<1>4. /\ r \in Sender /\ r.pc \in {"older", "panic"} /\ r.receiver = c
      /\ r.addr = sender[m].addr /\ r.id = sender[m].id
  BY <1>1, <1>3 DEF Sender
<1>5. sender' = [sender EXCEPT ![m] = r]
  BY DEF SendOlder
<1> HIDE DEF r, room
<1>6. UNCHANGED <<env, registry, sendingMap, mutex, caster, search, request>>
  BY DEF SendOlder
<1>7. /\ link' \in [Conns -> Link]
      /\ \A d \in Conns : link'[d].addr = link[d].addr /\ link'[d].pc = link[d].pc
  <2>1. CASE link' = link
    BY <2>1 DEF IInv, TypeOK
  <2>2. CASE link' = [link EXCEPT ![c].ch = Append(@, Head(sender[m].older))]
    BY <1>2, <1>3, <2>2, SetChannel DEF IInv, TypeOK
  <2> QED
    BY <2>1, <2>2 DEF SendOlder
<1>8. EntriesKept
  <2>1. CASE entry' = entry
    BY <1>6, <2>1, EntriesSame
  <2>2. CASE entry' = [entry EXCEPT ![sender[m].addr][sender[m].id].delayed =
                           IF @ = <<>> THEN @ ELSE Tail(@)]
    <3> DEFINE q == entry[sender[m].addr][sender[m].id].delayed
               t == IF q = <<>> THEN q ELSE Tail(q)
    <3>1. q \in Seq(Msgs)
      BY <1>2 DEF IInv, TypeOK, Entry
    <3>2. entry' = [entry EXCEPT ![sender[m].addr][sender[m].id].delayed = t]
      BY <2>2
    <3> HIDE DEF q
    <3>3. t \in Seq(Msgs)
      BY <3>1
    <3> HIDE DEF t
    <3> QED
      BY <1>2, <1>6, <3>2, <3>3, DelayedKeeps
  <2> QED
    BY <2>1, <2>2 DEF SendOlder
<1>9. SenderOK(m, r)
  BY <1>1, <1>2, <1>4, <1>6, <1>7, <1>8
  DEF SenderOK, Visiting, Locked, EntriesKept, IInv, SenderInv
<1>10. AddrKept /\ PcKept /\ HandshakeKept
  BY <1>7 DEF AddrKept, PcKept, HandshakeKept
<1>11. mutex' \in Msgs \cup {None}
  BY <1>6 DEF IInv, TypeOK
<1> QED
  BY <1>4, <1>5, <1>6, <1>7, <1>8, <1>9, <1>10, <1>11, SenderStep

LEMMA UnlockStep ==
    ASSUME IInv, NEW m \in Msgs, Unlock(m)
    PROVE  IInv'
<1> DEFINE r == [sender[m] EXCEPT !.pc = "range", !.receiver = None]
<1>1. sender[m] \in Sender /\ mutex = m /\ mutex' = None
  BY DEF IInv, TypeOK, Unlock, SenderInv, Locked
<1>2. r \in Sender /\ r.pc = "range"
  BY <1>1 DEF Sender
<1>3. sender' = [sender EXCEPT ![m] = r]
  BY DEF Unlock
<1> HIDE DEF r
<1>4. UNCHANGED <<env, link, registry, sendingMap, entry, caster, search, request>>
  BY DEF Unlock
<1>5. SenderOK(m, r) /\ \A x \in Msgs \ {m} : mutex = x <=> mutex' = x
  BY <1>1, <1>2, PeersAssumption DEF SenderOK, Visiting, Locked
<1>6. AddrKept /\ PcKept /\ HandshakeKept /\ EntriesKept
  BY <1>4, EntriesSame DEF IInv, TypeOK, AddrKept, PcKept, HandshakeKept
<1> QED
  BY <1>1, <1>2, <1>3, <1>4, <1>5, <1>6, SenderStep

LEMMA StoreStep ==
    ASSUME IInv, NEW m \in Msgs, Store(m)
    PROVE  IInv'
<1> DEFINE r == [sender[m] EXCEPT !.pc = "range", !.older = <<>>]
           older == sender[m].older
           q == Append(IF Len(older) > DelayMax THEN Tail(older) ELSE older, m)
<1>1. sender[m] \in Sender /\ sender[m].pc = "store" /\ mutex # m
  BY DEF IInv, TypeOK, Store, SenderInv, Locked
<1>2. sender[m].addr \in Miners /\ sender[m].id \in Entries /\ older \in Seq(Msgs)
  BY <1>1 DEF IInv, SenderInv, Visiting, Sender
<1>3. q \in Seq(Msgs)
  <2>1. CASE Len(older) > DelayMax
    <3>1. older # <<>>
      BY <2>1, PeersAssumption
    <3>2. Tail(older) \in Seq(Msgs)
      BY <1>2, <3>1
    <3> QED
      BY <2>1, <3>2
  <2>2. CASE ~(Len(older) > DelayMax)
    BY <1>2, <2>2
  <2> QED
    BY <2>1, <2>2
<1> DEFINE none == <<>>
<1>4. r \in Sender /\ r.pc = "range"
  <2>1. none \in Seq(Msgs)
    OBVIOUS
  <2>2. r = [sender[m] EXCEPT !.pc = "range", !.older = none]
    OBVIOUS
  <2> HIDE DEF none, r
  <2> QED
    BY <1>1, <2>1, <2>2 DEF Sender
<1>5. /\ sender' = [sender EXCEPT ![m] = r]
      /\ entry' = [entry EXCEPT ![sender[m].addr][sender[m].id].delayed = q]
  BY DEF Store
<1> HIDE DEF r, q
<1>6. UNCHANGED <<env, link, registry, sendingMap, mutex, caster, search, request>>
  BY DEF Store
<1>7. EntriesKept
  BY <1>2, <1>3, <1>5, <1>6, DelayedKeeps
<1>8. SenderOK(m, r)
  BY <1>1, <1>4, <1>6 DEF SenderOK, Visiting, Locked
<1>9. AddrKept /\ PcKept /\ HandshakeKept
  BY <1>6 DEF IInv, TypeOK, AddrKept, PcKept, HandshakeKept
<1>10. mutex' \in Msgs \cup {None}
  BY <1>6 DEF IInv, TypeOK
<1> QED
  BY <1>4, <1>5, <1>6, <1>7, <1>8, <1>9, <1>10, SenderStep

----------------------------------------------------------------------------
(* Broadcasts to clients.                                                  *)

\* A step that touches neither the connections nor the registry nor sendingMap.
LEMMA RestStep ==
    ASSUME IInv, TypeOK', LinkInv', UNCHANGED <<link, registry, sending>>
    PROVE  IInv'
<1>1. link' \in [Conns -> Link]
  BY DEF TypeOK
<1> QED
  BY <1>1, TrafficStep

LEMMA clientConnsType ==
    ASSUME IInv
    PROVE  clientConns \subseteq Conns
BY DEF IInv, TypeOK, clientConns

LEMMA TakeNoteStep ==
    ASSUME IInv, NEW n \in Notes, TakeNote(n)
    PROVE  IInv'
<1>1. caster \in Caster /\ env \in Environment
  BY DEF IInv, TypeOK
<1>2. /\ env' \in Environment /\ caster' \in Caster
      /\ caster'.pc = "range" /\ caster'.msg = n
  BY <1>1, clientConnsType DEF TakeNote, Environment, Caster
<1>3. UNCHANGED <<link, registry, sending, search, request>>
  BY DEF TakeNote
<1>4. TypeOK'
  BY <1>2, <1>3 DEF IInv, TypeOK, registry, sending, search
<1>5. LinkInv'
  BY <1>2, <1>3 DEF IInv, LinkInv, search
<1> QED
  BY <1>3, <1>4, <1>5, RestStep

LEMMA NextClientStep ==
    ASSUME IInv, NextClient
    PROVE  IInv'
<1>1. caster \in Caster /\ caster.msg \in Notes
  BY DEF IInv, TypeOK, LinkInv, NextClient
<1>2. UNCHANGED <<env, link, registry, sending, search, request>>
  BY DEF NextClient
<1>3. /\ caster' \in Caster
      /\ caster'.pc \in {"check", "send"} => caster'.receiver # None
      /\ caster'.pc # "idle" => caster'.msg \in Notes
  <2>1. ASSUME NEW c \in clientConns,
               caster' = [caster EXCEPT !.pc = "check", !.seen = @ \cup {c}, !.receiver = c]
        PROVE  <1>3!:
    BY <1>1, <2>1, clientConnsType, PeersAssumption DEF Caster
  <2>2. ASSUME caster' = NoCast
        PROVE  <1>3!:
    BY <2>2 DEF NoCast, Caster
  <2> QED
    BY <2>1, <2>2 DEF NextClient
<1>4. TypeOK'
  BY <1>2, <1>3 DEF IInv, TypeOK, registry, sending, search
<1>5. LinkInv'
  BY <1>2, <1>3 DEF IInv, LinkInv, search
<1> QED
  BY <1>2, <1>4, <1>5, RestStep

LEMMA CheckClientStep ==
    ASSUME IInv, CheckClient
    PROVE  IInv'
<1>1. caster \in Caster /\ caster.pc = "check" /\ caster.receiver # None
  BY DEF IInv, TypeOK, LinkInv, CheckClient
<1>2. UNCHANGED <<env, link, registry, sending, search, request>>
  BY DEF CheckClient
<1>3. caster' \in Caster /\ caster'.pc \in {"send", "range"} /\ caster'.receiver = caster.receiver
      /\ caster'.msg = caster.msg
  BY <1>1 DEF CheckClient, Caster
<1>4. TypeOK'
  BY <1>2, <1>3 DEF IInv, TypeOK, registry, sending, search
<1>5. LinkInv'
  BY <1>1, <1>2, <1>3 DEF IInv, LinkInv, search
<1> QED
  BY <1>2, <1>4, <1>5, RestStep

LEMMA SendClientStep ==
    ASSUME IInv, SendClient
    PROVE  IInv'
<1>1. /\ caster \in Caster /\ caster.receiver \in Conns
      /\ caster.msg \in Texts /\ caster.msg \in Notes
  BY DEF IInv, TypeOK, LinkInv, SendClient, Caster, Texts
<1>2. caster' \in Caster /\ caster'.pc = "range" /\ caster'.msg = caster.msg
  BY <1>1 DEF SendClient, Caster
<1>3. /\ link' \in [Conns -> Link]
      /\ \A d \in Conns : link'[d].addr = link[d].addr /\ link'[d].pc = link[d].pc
  BY <1>1, SetChannel DEF IInv, TypeOK, SendClient
<1>4. UNCHANGED <<env, registry, sending, search, request>>
  BY DEF SendClient
<1>5. TypeOK'
  BY <1>2, <1>3, <1>4 DEF IInv, TypeOK, registry, sending, search
<1>6. LinkInv'
  <2>1. health' = health /\ health.conn \in Conns \cup {None}
    BY <1>4 DEF IInv, TypeOK, search
  <2> QED
    BY <1>1, <1>2, <1>3, <2>1 DEF IInv, LinkInv
<1> QED
  BY <1>3, <1>4, <1>5, <1>6, TrafficStep

----------------------------------------------------------------------------
(* The search for miners.                                                  *)

Health == [pc : {"sleep", "list", "pong"}, conn : Conns \cup {None}]

\* A dial, whatever the list of addresses becomes.
LEMMA DialStep ==
    ASSUME IInv, NEW a \in Miners, initiateNewMinerConnection(a, "pong"),
           iplist' \in Seq(Miners),
           UNCHANGED <<registry, sending, caster, tried, neighbor, emptier, request>>
    PROVE  IInv'
<1>1. link \in [Conns -> Link] /\ env \in Environment /\ health \in Health
  BY DEF IInv, TypeOK, Health
<1>2. ASSUME Fresh # {},
             link' = [link EXCEPT ![Min(Fresh)] =
                         [NoLink EXCEPT !.addr = a, !.up = TRUE, !.pc = "handshake"]],
             health' = [pc |-> "pong", conn |-> Min(Fresh)],
             UNCHANGED env
      PROVE  IInv'
  <2> DEFINE c == Min(Fresh)
  <2>1. c \in Conns /\ link[c].pc = "unused"
    BY <1>2, MinFresh
  <2> HIDE DEF c
  <2>2. /\ link' \in [Conns -> Link]
        /\ link'[c].addr = a /\ link'[c].pc = "handshake"
        /\ \A d \in Conns \ {c} : link'[d] = link[d]
    BY <1>1, <1>2, <2>1, SetNew DEF Pcs, c
  <2>3. health' \in Health /\ health'.conn = c
    BY <1>2, <2>1 DEF Health, c
  <2>4. TypeOK'
    BY <1>2, <2>2, <2>3 DEF IInv, TypeOK, Health, registry, sending
  <2>5. AddrKept /\ PcKept
    BY <2>1, <2>2 DEF AddrKept, PcKept, Registered, Gone
  <2>6. LinkInv'
    BY <2>1, <2>2, <2>3, PeersAssumption DEF IInv, LinkInv
  <2> QED
    BY <2>4, <2>5, <2>6, EntryFrame, SenderFrame, RegisterFrame DEF IInv, registry, sending
<1>3. ASSUME env.refusals > 0 \/ Fresh = {},
             env' = [env EXCEPT !.refusals = IF Fresh = {} THEN @ ELSE @ - 1],
             health' = [health EXCEPT !.pc = "list"],
             UNCHANGED link
      PROVE  IInv'
  <2>1. env.refusals \in Nat
    BY <1>1, Bounds
  <2>2. (IF Fresh = {} THEN env.refusals ELSE env.refusals - 1) \in Nat
    BY <1>3, <2>1
  <2>3. env' \in Environment
    BY <1>1, <1>3, <2>2, Bounds
  <2>4. health' \in Health /\ health'.pc = "list"
    BY <1>1, <1>3 DEF Health
  <2>5. TypeOK'
    BY <1>3, <2>3, <2>4 DEF IInv, TypeOK, Health, registry, sending
  <2>6. LinkInv'
    BY <1>3, <2>4 DEF IInv, LinkInv
  <2> QED
    BY <1>3, <2>5, <2>6, RestStep
<1> QED
  BY <1>2, <1>3 DEF initiateNewMinerConnection

LEMMA CheckBootstrapStep ==
    ASSUME IInv, CheckBootstrap
    PROVE  IInv'
<1>1. health \in Health /\ iplist \in Seq(Miners)
  BY DEF IInv, TypeOK, Health
<1>2. CASE ~peerSelfConn(Boot) /\ ~contains(Boot)
  <2>1. Boot \in Miners
    BY <1>2, PeersAssumption DEF peerSelfConn
  <2> QED
    BY <1>1, <1>2, <2>1, DialStep DEF CheckBootstrap
<1>3. CASE ~(~peerSelfConn(Boot) /\ ~contains(Boot))
  <2>1. health' \in Health /\ health'.pc = "list" /\ UNCHANGED <<env, link>>
    BY <1>1, <1>3 DEF CheckBootstrap, Health
  <2>2. UNCHANGED <<registry, sending, caster, iplist, tried, neighbor, emptier, request>>
    BY DEF CheckBootstrap
  <2>3. TypeOK'
    BY <2>1, <2>2 DEF IInv, TypeOK, Health, registry, sending
  <2>4. LinkInv'
    BY <2>1, <2>2 DEF IInv, LinkInv
  <2> QED
    BY <2>1, <2>2, <2>3, <2>4, RestStep
<1> QED
  BY <1>2, <1>3

LEMMA TakeAddressStep ==
    ASSUME IInv, TakeAddress
    PROVE  IInv'
<1>1. Head(iplist) \in Miners /\ iplist' \in Seq(Miners)
  BY DEF IInv, TypeOK, TakeAddress
<1>2. UNCHANGED <<registry, sending, caster, tried, neighbor, emptier, request>>
  BY DEF TakeAddress
<1>3. CASE initiateNewMinerConnection(Head(iplist), "pong")
  BY <1>1, <1>2, <1>3, DialStep
<1>4. CASE UNCHANGED <<env, link, health>>
  <2>1. TypeOK'
    BY <1>1, <1>2, <1>4 DEF IInv, TypeOK, registry, sending
  <2>2. LinkInv'
    BY <1>2, <1>4 DEF IInv, LinkInv
  <2> QED
    BY <1>2, <1>4, <2>1, <2>2, RestStep
<1> QED
  BY <1>3, <1>4 DEF TakeAddress

LEMMA AskNeighborsStep ==
    ASSUME IInv, AskNeighbors
    PROVE  IInv'
<1>1. health \in Health
  BY DEF IInv, TypeOK, Health
<1>2. health' \in Health /\ health'.pc = "sleep"
  BY <1>1 DEF AskNeighbors, Health
<1>3. UNCHANGED <<env, link, registry, sending, caster, iplist, tried, neighbor, emptier, request>>
  BY DEF AskNeighbors
<1>4. TypeOK'
  BY <1>2, <1>3 DEF IInv, TypeOK, Health, registry, sending
<1>5. LinkInv'
  BY <1>2, <1>3 DEF IInv, LinkInv
<1> QED
  BY <1>3, <1>4, <1>5, RestStep

LEMMA PongStep ==
    ASSUME IInv, Pong \/ PongFails
    PROVE  IInv'
<1> DEFINE c == health.conn
<1>1. health \in Health /\ health.pc = "pong" /\ c # None /\ link[c].pc = "handshake"
  BY DEF IInv, TypeOK, Health, LinkInv, Pong, PongFails, Unanswered
<1>2. c \in Conns
  BY <1>1 DEF Health
<1>3. PICK p \in {"joining", "closed"} :
        link' = [link EXCEPT ![c].pc = p] /\ health' = [pc |-> "list", conn |-> None]
  BY DEF Pong, PongFails, HandshakeEnds
<1>4. p \in Pcs
  BY DEF Pcs
<1> HIDE DEF c
<1>5. /\ link' \in [Conns -> Link]
      /\ \A d \in Conns : /\ link'[d].addr = link[d].addr
                          /\ link'[d].pc = IF d = c THEN p ELSE link[d].pc
  BY <1>2, <1>3, <1>4, SetPc DEF IInv, TypeOK
<1>6. health' \in Health /\ health'.pc = "list"
  BY <1>3 DEF Health
<1>7. UNCHANGED <<env, registry, sending, caster, iplist, tried, neighbor, emptier, request>>
  BY DEF Pong, PongFails, HandshakeEnds
<1>8. TypeOK'
  BY <1>5, <1>6, <1>7 DEF IInv, TypeOK, Health, registry, sending
<1>9. link[c].pc = "handshake"
  BY <1>1 DEF c
<1>10. AddrKept /\ PcKept
  BY <1>2, <1>5, <1>9 DEF AddrKept, PcKept, Registered, Gone
<1>11. LinkInv'
  BY <1>2, <1>5, <1>6, <1>7, <1>9 DEF IInv, LinkInv
<1> QED
  BY <1>7, <1>8, <1>10, <1>11, EntryFrame, SenderFrame, RegisterFrame DEF IInv, registry, sending

LEMMA processNeighborResStep ==
    ASSUME IInv, processNeighborRes
    PROVE  IInv'
<1>1. env.answers \in Nat /\ env.answers > 0
  BY Bounds DEF IInv, TypeOK, processNeighborRes
<1>2. env.answers - 1 \in Nat
  BY <1>1
<1>3. env' \in Environment
  BY <1>2, Bounds DEF IInv, TypeOK, processNeighborRes
<1>4. neighbor' \in Miners \cup {None}
  BY DEF processNeighborRes, peerSelfConn
<1>5. UNCHANGED <<link, registry, sending, caster, iplist, health, tried, emptier, request>>
  BY DEF processNeighborRes
<1>6. TypeOK'
  BY <1>3, <1>4, <1>5 DEF IInv, TypeOK, registry, sending
<1>7. LinkInv'
  BY <1>5 DEF IInv, LinkInv
<1> QED
  BY <1>5, <1>6, <1>7, RestStep

LEMMA PutNeighborStep ==
    ASSUME IInv, PutNeighbor
    PROVE  IInv'
<1>1. iplist' \in Seq(Miners) /\ neighbor' = None
  BY DEF IInv, TypeOK, PutNeighbor
<1>2. UNCHANGED <<env, link, registry, sending, caster, health, tried, emptier, request>>
  BY DEF PutNeighbor
<1>3. TypeOK'
  BY <1>1, <1>2 DEF IInv, TypeOK, registry, sending
<1>4. LinkInv'
  BY <1>2 DEF IInv, LinkInv
<1> QED
  BY <1>2, <1>3, <1>4, RestStep

Emptier == [pc : {"idle", "test", "take"}, i : Nat]

LEMMA EmptyingiplistChanStep ==
    ASSUME IInv, EmptyingiplistChan \/ TestLength \/ DropAddress
    PROVE  IInv'
<1>1. emptier \in Emptier /\ iplist \in Seq(Miners) /\ env \in Environment
  BY DEF IInv, TypeOK, Emptier
<1>2. emptier' \in Emptier
  <2>1. emptier.i \in Nat
    BY <1>1 DEF Emptier
  <2> QED
    BY <1>1, <2>1 DEF Emptier, EmptyingiplistChan, TestLength, DropAddress
<1>3. iplist' \in Seq(Miners)
  BY <1>1 DEF EmptyingiplistChan, TestLength, DropAddress
<1>4. env' \in Environment
  <2>1. CASE EmptyingiplistChan
    <3>1. env.rounds \in Nat /\ env.rounds > 0
      BY <1>1, <2>1, Bounds DEF EmptyingiplistChan
    <3>2. env.rounds - 1 \in Nat
      BY <3>1
    <3> QED
      BY <1>1, <2>1, <3>2, Bounds DEF EmptyingiplistChan
  <2>2. CASE TestLength \/ DropAddress
    BY <1>1, <2>2 DEF TestLength, DropAddress
  <2> QED
    BY <2>1, <2>2
<1>5. UNCHANGED <<link, registry, sending, caster, health, tried, neighbor, request>>
  BY DEF EmptyingiplistChan, TestLength, DropAddress
<1>6. TypeOK'
  BY <1>2, <1>3, <1>4, <1>5 DEF IInv, TypeOK, Emptier, registry, sending
<1>7. LinkInv'
  BY <1>5 DEF IInv, LinkInv
<1> QED
  BY <1>5, <1>6, <1>7, RestStep

LEMMA BlockReqStep ==
    ASSUME IInv, BlockReq \/ FoundMiner
    PROVE  IInv'
<1>1. request' \in {"none", "wait", "sent"}
  BY DEF BlockReq, FoundMiner
<1>2. UNCHANGED <<env, link, registry, sending, caster, search>>
  BY DEF BlockReq, FoundMiner
<1>3. TypeOK'
  BY <1>1, <1>2 DEF IInv, TypeOK, registry, sending, search
<1>4. LinkInv'
  BY <1>2 DEF IInv, LinkInv, search
<1> QED
  BY <1>2, <1>3, <1>4, RestStep

----------------------------------------------------------------------------
(* The invariant and the theorems.                                         *)

LEMMA InitIInv == Init => IInv
<1> SUFFICES ASSUME Init PROVE IInv
  OBVIOUS
<1>1. NoLink \in Link /\ NoLink.addr = None /\ NoLink.pc = "unused"
  BY DEF NoLink, Link, Pcs
<1>2. NoEntry \in Entry /\ NoEntry.peer = None
  BY DEF NoEntry, Entry
<1>3. Idle \in Sender /\ Idle.pc = "idle"
  BY DEF Idle, Sender
<1>4. NoCast \in Caster /\ NoCast.pc = "idle"
  BY DEF NoCast, Caster
<1>5. /\ \A c \in Conns : link[c] = NoLink
      /\ \A a \in Miners : sendingMap[a] = 0
      /\ \A a \in Miners, n \in Entries : entry[a][n] = NoEntry
      /\ \A m \in Msgs : sender[m] = Idle
  BY DEF Init
<1>6. TypeOK
  BY <1>1, <1>2, <1>3, <1>4, PeersAssumption DEF Init, TypeOK
<1>7. LinkInv
  BY <1>1, <1>4, <1>5 DEF Init, LinkInv
<1>8. RegisterInv
  BY DEF Init, RegisterInv
<1>9. EntryInv
  BY <1>2, <1>5 DEF Init, EntryInv, minerConns
<1>10. SenderInv
  BY <1>3, <1>5, PeersAssumption DEF Init, SenderInv, Visiting, Locked
<1> QED
  BY <1>6, <1>7, <1>8, <1>9, <1>10 DEF IInv

LEMMA NextIInv == IInv /\ [Next]_vars => IInv'
<1> SUFFICES ASSUME IInv, [Next]_vars PROVE IInv'
  OBVIOUS
<1>1. CASE peerService
  BY <1>1, TakeRegisterStep, TakeDisconnectStep, DeleteStep DEF peerService
<1>2. ASSUME NEW c \in Conns, peerConn(c) \/ peerBroadcast(c) \/ Break(c)
      PROVE  IInv'
  BY <1>2, JoinStep, HangupStep, TryReconnectStep, setLastTriedPeerStep, peerBroadcastStep,
     BreakStep DEF peerConn
<1>3. ASSUME NEW m \in Msgs, sendAndSearchMessages(m) \/ Broadcast(m)
      PROVE  IInv'
  BY <1>3, NextEntryStep, CheckStep, LockStep, ReceiverStep, SendStep, SendOlderStep, UnlockStep,
     StoreStep, BroadcastStep DEF sendAndSearchMessages
<1>4. CASE clientBroadcastService \/ \E n \in Notes : TakeNote(n)
  BY <1>4, NextClientStep, CheckClientStep, SendClientStep, TakeNoteStep
  DEF clientBroadcastService
<1>5. CASE checkHealthService \/ Pong
  BY <1>5, CheckBootstrapStep, TakeAddressStep, AskNeighborsStep, PongStep DEF checkHealthService
<1>6. CASE \/ PutNeighbor \/ TestLength \/ DropAddress \/ FoundMiner
           \/ pongRes \/ processNeighborRes \/ EmptyingiplistChan \/ BlockReq
  BY <1>6, PutNeighborStep, EmptyingiplistChanStep, BlockReqStep, pongResStep,
     processNeighborResStep
<1>7. CASE UNCHANGED vars
  <2>1. TypeOK'
    BY <1>7 DEF IInv, TypeOK, vars
  <2>2. LinkInv'
    BY <1>7 DEF IInv, LinkInv, vars
  <2> QED
    BY <1>7, <2>1, <2>2, RestStep DEF vars, registry, sending
<1> QED
  BY <1>1, <1>2, <1>3, <1>4, <1>5, <1>6, <1>7 DEF Next, Goroutines

LEMMA Invariance == Spec => []IInv
BY InitIInv, NextIInv, PTL DEF Spec

\* Every variable keeps its type, for any number of connections, miners and
\* messages.
THEOREM PeersTypeCorrect == Spec => []TypeOK
<1>1. IInv => TypeOK
  BY DEF IInv
<1> QED
  BY Invariance, <1>1, PTL

\* The registry is exact (peers.add, peers.delete, sendingMap), whatever the
\* number of connections and messages and whoever connects, disconnects and
\* broadcasts in which order.
THEOREM RegistryIsExact == Spec => []RegistryExact
<1>1. IInv => RegistryExact
  <2> SUFFICES ASSUME IInv PROVE RegistryExact
    OBVIOUS
  <2>1. ASSUME NEW c \in minerConns
        PROVE  /\ sendingMap[link[c].addr] # 0
               /\ link[entry[link[c].addr][sendingMap[link[c].addr]].peer].addr = link[c].addr
    <3>1. link[c].addr \in Miners /\ sendingMap[link[c].addr] # 0
      BY DEF minerConns, IInv, EntryInv
    <3>2. sendingMap[link[c].addr] \in Entries
      BY <3>1 DEF IInv, TypeOK
    <3> QED
      BY <3>1, <3>2 DEF IInv, EntryInv
  <2> QED
    BY <2>1 DEF IInv, EntryInv, RegisterInv, RegistryExact
<1> QED
  BY Invariance, <1>1, PTL

\* A connection in use leaves the registry only when another one of its address
\* enters it: peerService deletes by pointer, and only connections that are gone.
THEOREM ConnectionsStayRegistered == Spec => StaysRegistered
<1> DEFINE Kept == \A c \in peers \ peers' :
                     link[c].pc = "open" => \E d \in peers' \ peers : link[d].addr = link[c].addr
<1>1. IInv /\ [Next]_vars => [Kept]_vars
  <2> SUFFICES ASSUME IInv, Next PROVE Kept
    OBVIOUS
  <2>1. CASE TakeRegister
    <3> DEFINE r == Head(register)
               older == {d \in minerConns : link[r].addr \in Miners /\ link[d].addr = link[r].addr}
    <3>1. peers' = (peers \ older) \cup {r}
      BY <2>1 DEF TakeRegister, add
    <3>2. r \notin peers
      <4>1. r = register[1] /\ 1 \in 1..Len(register)
        BY <2>1 DEF TakeRegister, IInv, TypeOK
      <4> QED
        BY <4>1 DEF IInv, RegisterInv
    <3> QED
      BY <3>1, <3>2
  <2>2. CASE Delete
    BY <2>2 DEF Delete, delete, IInv, RegisterInv, Gone
  <2>3. CASE ~TakeRegister /\ ~Delete
    <3>1. peers' = peers
      BY <2>3 DEF Next, Goroutines, peerService, TakeDisconnect, peerConn, Join, Hangup,
         TryReconnect, setLastTriedPeer, peerBroadcast, sendAndSearchMessages, NextEntry, Check,
         Lock, Receiver, Send, SendOlder, Unlock, Store, clientBroadcastService, NextClient,
         CheckClient, SendClient, PutNeighbor, TestLength, DropAddress, FoundMiner,
         checkHealthService, CheckBootstrap, TakeAddress, AskNeighbors, Pong, PongFails,
         HandshakeEnds, pongRes,
         processNeighborRes, EmptyingiplistChan, BlockReq, Break, Broadcast, TakeNote, registry
    <3> QED
      BY <3>1
  <2> QED
    BY <2>1, <2>2, <2>3
<1> QED
  BY Invariance, <1>1, PTL DEF Spec, StaysRegistered

\* A broadcast never dereferences a nil connection, never puts a message into
\* the channel of another miner than the one it visits, and is alone between
\* closeChannelMutex.Lock and Unlock (sendAndSearchMessages).
SendsWhereItShould ==
    \A m \in Msgs :
        /\ sender[m].pc \in {"send", "older"} =>
              /\ sender[m].receiver \in Conns
              /\ link[sender[m].receiver].addr = sender[m].addr
        /\ \A x \in Msgs : sender[m].pc \in Locked /\ sender[x].pc \in Locked => m = x

\* No reconnection and no other broadcast misleads one that holds the mutex.
THEOREM BroadcastsFindTheirMiner == Spec => []SendsWhereItShould
<1>1. IInv => SendsWhereItShould
  BY DEF IInv, TypeOK, Sender, SenderInv, SendsWhereItShould
<1> QED
  BY Invariance, <1>1, PTL

=============================================================================
