------------------------------- MODULE Peers -------------------------------
(***************************************************************************)
(* The connections of a node and its broadcasts (p2p/server.go, peer.go,   *)
(* services.go).                                                           *)
(*                                                                         *)
(* Every connection has a goroutine that reads (peerConn) and one that     *)
(* writes (peerBroadcast).  peerService keeps the registry of connections, *)
(* minerBroadcastService starts a goroutine for every message, which walks *)
(* through sendingMap, and checkHealthService looks for further miners.    *)
(*                                                                         *)
(* A connection stands for its *peer; it is opened once and has the        *)
(* address of the miner or client at its other end.  A message is its own  *)
(* contents.  Operations on sendingMap and on the registry are atomic: the *)
(* unsynchronised accesses of the code either are or end the program, when *)
(* the Go runtime notices a concurrent write to a map.                     *)
(***************************************************************************)
EXTENDS Integers, Sequences, FiniteSets, SequencesExt, FiniteSetsExt

CONSTANTS
    Conns,        \* bound: connections there will ever be, 1..n
    Msgs,         \* bound: messages broadcast to miners
    Notes,        \* bound: messages broadcast to clients
    Miners,       \* addresses of other miners
    Clients,      \* addresses of clients
    Boot,         \* storage.Bootstrap_Server
    Self,         \* Ipport
    None,
    ChanMax,      \* capacity of a connection's channel (100)
    RegMax,       \* capacity of register (MIN_MINERS, 20)
    IpMax,        \* capacity of iplistChan (400)
    DelayMax,     \* delayed messages are trimmed above this length (40)
    MAX_MINERS,   \* (30)
    Environments  \* the environments to explore, see Environment

\* What the environment does: the addresses that connect to the node, how many
\* of each bounded event there may be, whether the node looks for miners, and
\* the messages it broadcasts.
Environment ==
    [incoming : SUBSET (Miners \cup Clients), accepts : Nat, breaks : Nat, refusals : Nat,
     answers : Nat, rounds : Nat, healthy : BOOLEAN, request : BOOLEAN,
     msgs : SUBSET Msgs, notes : SUBSET Notes]

ASSUME PeersAssumption ==
    /\ Conns \subseteq Nat
    /\ IsFiniteSet(Msgs)
    /\ Miners \cap Clients = {}
    /\ Boot \in Miners \cup {Self}
    /\ Self \notin Miners \cup Clients
    /\ None \notin Conns /\ None \notin Miners \cup Clients \cup Msgs
    /\ {ChanMax, RegMax, IpMax, MAX_MINERS} \subseteq Nat \ {0}
    /\ DelayMax \in Nat
    /\ Environments \subseteq Environment

VARIABLES
    env,        \* the environment, with what is left of its bounds
    link,       \* the connections
    register,   \* the buffered channel of that name
    service,    \* peerService: the connection it is about to delete, or None
    peers,      \* minerConns \cup clientConns
    sendingMap, \* per miner address the number of its entry, 0 if there is none
    entry,      \* per miner address and number a delayedMessagesPerSender
    mutex,      \* who holds closeChannelMutex
    sender,     \* the goroutines of sendAndSearchMessages; owed: the miners that were
                \* registered when it started
    caster,     \* clientBroadcastService
    iplist,     \* iplistChan
    health,     \* checkHealthService
    tried,      \* lastTriedPeer, and who holds lastpeerMutex
    neighbor,   \* an address processNeighborRes is about to put into iplistChan
    emptier,    \* EmptyingiplistChan, called by mining()
    request,    \* BlockReq
    overtaken   \* connections whose disconnect was handled before their register

vars == <<env, link, register, service, peers, sendingMap, entry, mutex, sender, caster,
          iplist, health, tried, neighbor, emptier, request, overtaken>>
registry == <<register, service, peers, overtaken>>
sending == <<sendingMap, entry, mutex, sender>>
search == <<iplist, health, tried, neighbor, emptier>>

Entries == 1..(Cardinality(Msgs) + 2)
NoEntry == [peer |-> None, delayed |-> <<>>]
NoLink == [addr |-> None, pc |-> "unused", up |-> FALSE, ch |-> <<>>, got |-> {}]
Idle == [pc |-> "idle", must |-> {}, seen |-> {}, addr |-> None, id |-> 0,
         receiver |-> None, older |-> <<>>, owed |-> {}]
NoCast == [pc |-> "idle", must |-> {}, seen |-> {}, receiver |-> None, msg |-> None]

Init ==
    /\ env \in Environments
    /\ link = [c \in Conns |-> NoLink]
    /\ register = <<>>
    /\ service = None
    /\ peers = {}
    /\ sendingMap = [a \in Miners |-> 0]
    /\ entry = [a \in Miners |-> [n \in Entries |-> NoEntry]]
    /\ mutex = None
    /\ sender = [m \in Msgs |-> Idle]
    /\ caster = NoCast
    /\ iplist = <<>>
    /\ health = [pc |-> "sleep", conn |-> None]
    /\ tried = [last |-> None, holder |-> None]
    /\ neighbor = None
    /\ emptier = [pc |-> "idle", i |-> 0]
    /\ request = "none"
    /\ overtaken = {}

----------------------------------------------------------------------------
(* The registry.                                                           *)

minerConns == {c \in peers : link[c].addr \in Miners}
clientConns == peers \ minerConns

contains(a) == \E c \in peers : link[c].addr = a
peerExists(a) == contains(a)
peerSelfConn(a) == a = Self

\* A number for a new entry of address a: one nobody points to.
Unused(a) ==
    Min({n \in Entries : /\ n # sendingMap[a]
                         /\ \A m \in Msgs : sender[m].addr = a => sender[m].id # n})

\* isConnectionAlreadyInSendingMap: if another connection has taken the address
\* over, a new entry with the old delayed messages takes the place of the old.
Stale(a, c) == sendingMap[a] # 0 /\ entry[a][sendingMap[a]].peer # c

\* The entries that are new once the addresses of owner belong to these
\* connections.
Enter(owner, moved) ==
    /\ sendingMap' = [a \in Miners |-> IF a \in moved THEN Unused(a) ELSE sendingMap[a]]
    /\ entry' = [a \in Miners |->
           IF a \in moved
           THEN [entry[a] EXCEPT ![Unused(a)] =
                    [peer |-> owner[a],
                     delayed |-> IF sendingMap[a] = 0 THEN <<>> ELSE entry[a][sendingMap[a]].delayed]]
           ELSE entry[a]]

\* Mutant: the older connection stays.
addBeside(c) ==
    LET now == peers \cup {c}
        Of(a) == {d \in now : link[d].addr = a}
        owner == [a \in Miners |-> IF Of(a) = {} THEN None ELSE CHOOSE d \in Of(a) : TRUE]
    IN  /\ peers' = now
        /\ Enter(owner, {a \in Miners : owner[a] # None
                                        /\ (sendingMap[a] = 0 \/ Stale(a, owner[a]))})

\* add: an older miner connection with the same address is forgotten, and all
\* miner connections get their entry in sendingMap.
add(c) ==
    LET older == {d \in minerConns : link[c].addr \in Miners /\ link[d].addr = link[c].addr}
        now == (peers \ older) \cup {c}
        Of(a) == {d \in now : link[d].addr = a}
        owner == [a \in Miners |-> IF Of(a) = {} THEN None ELSE CHOOSE d \in Of(a) : TRUE]
    IN  /\ peers' = now
        /\ Enter(owner, {a \in Miners : owner[a] # None
                                        /\ (sendingMap[a] = 0 \/ Stale(a, owner[a]))})

\* Mutant: by address.
deleteAddress(c) == peers' = {d \in peers : link[d].addr # link[c].addr}

delete(c) == peers' = peers \ {c}

\* peerService takes a connection from register ...
TakeRegister ==
    /\ service = None
    /\ register # <<>>
    /\ register' = Tail(register)
    /\ add(Head(register))
    /\ UNCHANGED <<env, link, service, overtaken, mutex, sender, caster, search,
                   request>>

\* ... or one from disconnect, which is not buffered: the reader goes on.
TakeDisconnect(c) ==
    /\ service = None
    /\ link[c].pc = "leaving"
    /\ service' = c
    /\ link' = [link EXCEPT ![c].pc = IF link[c].addr \in Miners THEN "left" ELSE "closed"]
    /\ overtaken' = IF c \in ToSet(register) THEN overtaken \cup {c} ELSE overtaken
    /\ UNCHANGED <<env, register, peers, sending, caster, search, request>>

\* It deletes the connection under closeChannelMutex.
Delete ==
    /\ service # None
    /\ mutex = None
    /\ delete(service)
    /\ service' = None
    /\ UNCHANGED <<env, link, register, overtaken, sending, caster, search, request>>

----------------------------------------------------------------------------
(* A connection.                                                           *)

Fresh == {c \in Conns : link[c].pc = "unused"}

\* Another node connects.  pongRes completes the handshake unless there are too
\* many miners already; then nobody reads from the connection, which stays open.
pongRes ==
    /\ env.accepts > 0
    /\ Fresh # {}
    /\ \E a \in env.incoming :
          link' = [link EXCEPT ![Min(Fresh)] =
                      [NoLink EXCEPT !.addr = a, !.up = TRUE,
                          !.pc = IF Cardinality(minerConns) >= MAX_MINERS
                                 THEN "ignored" ELSE "joining"]]
    /\ env' = [env EXCEPT !.accepts = @ - 1]
    /\ UNCHANGED <<registry, sending, caster, search, request>>

\* peerConn: the connection gets its channel, is registered, and peerBroadcast
\* starts.
Join(c) ==
    /\ link[c].pc = "joining"
    /\ Len(register) < RegMax
    /\ register' = Append(register, c)
    /\ link' = [link EXCEPT ![c].pc = "open"]
    /\ UNCHANGED <<env, service, peers, overtaken, sending, caster, search, request>>

\* The other node goes away, or the connection breaks.
Break(c) ==
    /\ env.breaks > 0
    /\ link[c].up
    /\ link[c].pc \in {"handshake", "joining", "open"}
    /\ link' = [link EXCEPT ![c].up = FALSE]
    /\ env' = [env EXCEPT !.breaks = @ - 1]
    /\ UNCHANGED <<registry, sending, caster, search, request>>

\* RcvData fails: peerConn wants to send the connection on disconnect.
Hangup(c) ==
    /\ link[c].pc = "open"
    /\ ~link[c].up
    /\ link' = [link EXCEPT ![c].pc = "leaving"]
    /\ UNCHANGED <<env, registry, sending, caster, search, request>>

\* After a disconnect peerConn asks for a reconnection, unless it did so for the
\* same address the last time; it holds lastpeerMutex while it waits for room.
TryReconnect(c) ==
    /\ link[c].pc = "left"
    /\ tried.holder = None
    /\ IF tried.last = link[c].addr
       THEN link' = [link EXCEPT ![c].pc = "closed"] /\ UNCHANGED tried
       ELSE link' = [link EXCEPT ![c].pc = "listing"] /\ tried' = [tried EXCEPT !.holder = c]
    /\ UNCHANGED <<env, registry, sending, caster, iplist, health, neighbor, emptier,
                   request>>

setLastTriedPeer(c) ==
    /\ link[c].pc = "listing"
    /\ Len(iplist) < IpMax
    /\ iplist' = Append(iplist, link[c].addr)
    /\ tried' = [last |-> link[c].addr, holder |-> None]
    /\ link' = [link EXCEPT ![c].pc = "closed"]
    /\ UNCHANGED <<env, registry, sending, caster, health, neighbor, emptier, request>>

\* Mutant: stops with the connection.
peerBroadcastWhileUp(c) ==
    /\ link[c].up
    /\ link[c].ch # <<>>
    /\ link' = [link EXCEPT ![c].ch = Tail(@), ![c].got = @ \cup {Head(link[c].ch)}]
    /\ UNCHANGED <<env, registry, sending, caster, search, request>>

\* peerBroadcast writes the next message; it goes on when the connection is
\* gone, and what it writes then is lost.
peerBroadcast(c) ==
    /\ link[c].ch # <<>>
    /\ link' = [link EXCEPT ![c].ch = Tail(@),
                            ![c].got = IF link[c].up THEN @ \cup {Head(link[c].ch)} ELSE @]
    /\ UNCHANGED <<env, registry, sending, caster, search, request>>

----------------------------------------------------------------------------
(* Broadcasts to miners: sendAndSearchMessages.                            *)

\* minerBroadcastService starts a goroutine for the message.
Broadcast(m) ==
    /\ m \in env.msgs
    /\ sender[m].pc = "idle"
    /\ sender' = [sender EXCEPT ![m] =
          [@ EXCEPT !.pc = "range", !.must = {a \in Miners : sendingMap[a] # 0},
                    !.owed = minerConns]]
    /\ UNCHANGED <<env, link, registry, sendingMap, entry, mutex, caster, search,
                   request>>

\* The next entry of sendingMap.  One that is added meanwhile may be visited.
NextEntry(m) ==
    /\ sender[m].pc = "range"
    /\ \/ \E a \in Miners \ sender[m].seen :
             /\ sendingMap[a] # 0
             /\ sender' = [sender EXCEPT ![m] =
                   [sender[m] EXCEPT !.pc = "check", !.seen = @ \cup {a}, !.addr = a, !.id = sendingMap[a]]]
       \/ /\ sender[m].must \subseteq sender[m].seen
          /\ sender' = [sender EXCEPT ![m] = [Idle EXCEPT !.pc = "done", !.owed = sender[m].owed]]
    /\ UNCHANGED <<env, link, registry, sendingMap, entry, mutex, caster, search,
                   request>>

Visited(m) == entry[sender[m].addr][sender[m].id]

\* Is there a connection to the address?  If not, the delayed messages are read.
Check(m) ==
    /\ sender[m].pc = "check"
    /\ sender' = [sender EXCEPT ![m] =
          IF contains(sender[m].addr) THEN [@ EXCEPT !.pc = "lock"]
          ELSE [@ EXCEPT !.pc = "store", !.older = Visited(m).delayed]]
    /\ UNCHANGED <<env, link, registry, sendingMap, entry, mutex, caster, search,
                   request>>

\* Under closeChannelMutex the visited entry's connection becomes that of
\* sendingMap, also if sendingMap has a newer one.
Lock(m) ==
    /\ sender[m].pc = "lock"
    /\ mutex = None
    /\ mutex' = m
    /\ LET a == sender[m].addr
       IN  Enter([x \in Miners |-> Visited(m).peer],
                 IF Stale(a, Visited(m).peer) THEN {a} ELSE {})
    /\ sender' = [sender EXCEPT ![m].pc = "receiver"]
    /\ UNCHANGED <<env, link, registry, caster, search, request>>

Receiver(m) ==
    /\ sender[m].pc = "receiver"
    /\ sender' = [sender EXCEPT ![m].pc = "send",
          ![m].receiver = entry[sender[m].addr][sendingMap[sender[m].addr]].peer]
    /\ UNCHANGED <<env, link, registry, sendingMap, entry, mutex, caster, search,
                   request>>

\* Mutant: does not wait for room in the channel.
SendIfRoom(m) ==
    /\ sender[m].pc = "send"
    /\ link' = IF Len(link[sender[m].receiver].ch) < ChanMax
               THEN [link EXCEPT ![sender[m].receiver].ch = Append(@, m)] ELSE link
    /\ sender' = [sender EXCEPT ![m].pc = "older", ![m].older = Visited(m).delayed]
    /\ UNCHANGED <<env, registry, sendingMap, entry, mutex, caster, search, request>>

\* The message goes into the channel as soon as that has room; the delayed ones
\* of the visited entry follow.
Send(m) ==
    /\ sender[m].pc = "send"
    /\ Len(link[sender[m].receiver].ch) < ChanMax
    /\ link' = [link EXCEPT ![sender[m].receiver].ch = Append(@, m)]
    /\ sender' = [sender EXCEPT ![m].pc = "older", ![m].older = Visited(m).delayed]
    /\ UNCHANGED <<env, registry, sendingMap, entry, mutex, caster, search, request>>

\* A delayed message is passed over if the channel is full.  Otherwise it is
\* sent and the first of the delayed messages is dropped.  Store does not take
\* the mutex and may have replaced them by fewer: when none is left to drop, the
\* slice expression panics, which ends the process.
SendOlder(m) ==
    LET room == Len(link[sender[m].receiver].ch) < ChanMax
    IN
    /\ sender[m].pc = "older"
    /\ sender[m].older # <<>>
    /\ sender' = [sender EXCEPT ![m] =
          IF room /\ Visited(m).delayed = <<>> THEN [sender[m] EXCEPT !.pc = "panic"]
          ELSE [sender[m] EXCEPT !.older = Tail(@)]]
    /\ IF ~room
       THEN UNCHANGED <<link, entry>>
       ELSE /\ link' = [link EXCEPT ![sender[m].receiver].ch = Append(@, Head(sender[m].older))]
            /\ entry' = [entry EXCEPT ![sender[m].addr][sender[m].id].delayed =
                            IF @ = <<>> THEN @ ELSE Tail(@)]
    /\ UNCHANGED <<env, registry, sendingMap, mutex, caster, search, request>>

Unlock(m) ==
    /\ sender[m].pc = "older"
    /\ sender[m].older = <<>>
    /\ mutex' = None
    /\ sender' = [sender EXCEPT ![m] = [@ EXCEPT !.pc = "range", !.receiver = None]]
    /\ UNCHANGED <<env, link, registry, sendingMap, entry, caster, search, request>>

\* Without a connection the message joins the delayed ones read before.
Store(m) ==
    /\ sender[m].pc = "store"
    /\ LET older == sender[m].older
       IN  entry' = [entry EXCEPT ![sender[m].addr][sender[m].id].delayed =
                        Append(IF Len(older) > DelayMax THEN Tail(older) ELSE older, m)]
    /\ sender' = [sender EXCEPT ![m] = [@ EXCEPT !.pc = "range", !.older = <<>>]]
    /\ UNCHANGED <<env, link, registry, sendingMap, mutex, caster, search, request>>

sendAndSearchMessages(m) ==
    \/ NextEntry(m) \/ Check(m) \/ Lock(m) \/ Receiver(m)
    \/ Send(m) \/ SendOlder(m) \/ Unlock(m) \/ Store(m)

----------------------------------------------------------------------------
(* Broadcasts to clients: clientBroadcastService.                          *)

TakeNote(n) ==
    /\ caster.pc = "idle"
    /\ n \in env.notes
    /\ env' = [env EXCEPT !.notes = @ \ {n}]
    /\ caster' = [caster EXCEPT !.pc = "range", !.must = clientConns, !.msg = n]
    /\ UNCHANGED <<link, registry, sending, search, request>>

\* The next connection, if there is one to its address still.
NextClient ==
    /\ caster.pc = "range"
    /\ \/ \E c \in clientConns \ caster.seen :
             caster' = [caster EXCEPT !.pc = "check", !.seen = @ \cup {c}, !.receiver = c]
       \/ /\ caster.must \cap clientConns \subseteq caster.seen
          /\ caster' = NoCast
    /\ UNCHANGED <<env, link, registry, sending, search, request>>

CheckClient ==
    /\ caster.pc = "check"
    /\ caster' = [caster EXCEPT !.pc = IF contains(link[caster.receiver].addr)
                                       THEN "send" ELSE "range"]
    /\ UNCHANGED <<env, link, registry, sending, search, request>>

SendClient ==
    /\ caster.pc = "send"
    /\ Len(link[caster.receiver].ch) < ChanMax
    /\ link' = [link EXCEPT ![caster.receiver].ch = Append(@, caster.msg)]
    /\ caster' = [caster EXCEPT !.pc = "range"]
    /\ UNCHANGED <<env, registry, sending, search, request>>

clientBroadcastService == NextClient \/ CheckClient \/ SendClient

----------------------------------------------------------------------------
(* Looking for miners: checkHealthService.                                 *)

\* initiateNewMinerConnection: the dial is refused, or the other node is asked
\* for its MINER_PONG.  Bound: it is refused when no connection is left.
initiateNewMinerConnection(a, waiting) ==
    \/ /\ Fresh # {}
       /\ link' = [link EXCEPT ![Min(Fresh)] =
                      [NoLink EXCEPT !.addr = a, !.up = TRUE, !.pc = "handshake"]]
       /\ health' = [pc |-> waiting, conn |-> Min(Fresh)]
       /\ UNCHANGED env
    \/ /\ env.refusals > 0 \/ Fresh = {}
       /\ env' = [env EXCEPT !.refusals = IF Fresh = {} THEN @ ELSE @ - 1]
       /\ health' = [health EXCEPT !.pc = "list"]
       /\ UNCHANGED link

\* First the bootstrap server ...
CheckBootstrap ==
    /\ env.healthy
    /\ health.pc = "sleep"
    /\ IF ~peerSelfConn(Boot) /\ ~contains(Boot)
       THEN initiateNewMinerConnection(Boot, "pong")
       ELSE health' = [health EXCEPT !.pc = "list"] /\ UNCHANGED <<env, link>>
    /\ UNCHANGED <<registry, sending, caster, iplist, tried, neighbor, emptier,
                   request>>

\* ... then the addresses in iplistChan ...
TakeAddress ==
    /\ health.pc = "list"
    /\ iplist # <<>>
    /\ iplist' = Tail(iplist)
    /\ IF ~peerExists(Head(iplist)) /\ ~peerSelfConn(Head(iplist))
       THEN initiateNewMinerConnection(Head(iplist), "pong")
       ELSE UNCHANGED <<env, link, health>>
    /\ UNCHANGED <<registry, sending, caster, tried, neighbor, emptier, request>>

\* ... and when there are none, the miners are asked for more (NeighborReq).
AskNeighbors ==
    /\ health.pc = "list"
    /\ iplist = <<>>
    /\ health' = [health EXCEPT !.pc = "sleep"]
    /\ UNCHANGED <<env, link, registry, sending, caster, iplist, tried, neighbor,
                   emptier, request>>

\* The handshake waits in RcvData without a time-out ...
Unanswered == health.pc = "pong" /\ link[health.conn].up

HandshakeEnds(outcome) ==
    /\ link' = [link EXCEPT ![health.conn].pc = outcome]
    /\ health' = [pc |-> "list", conn |-> None]
    /\ UNCHANGED <<env, registry, sending, caster, iplist, tried, neighbor, emptier,
                   request>>

\* ... for the other node's answer, which never comes if that node has too many
\* miners already (pongRes), ...
Pong == Unanswered /\ HandshakeEnds("joining")

\* ... or for the connection to break.
PongFails ==
    /\ health.pc = "pong"
    /\ ~Unanswered
    /\ HandshakeEnds("closed")

checkHealthService == CheckBootstrap \/ TakeAddress \/ AskNeighbors \/ PongFails

\* A neighbour's answer names an address.  The length of iplistChan is checked
\* with <=, so that the handler may find it full.
processNeighborRes ==
    /\ env.answers > 0
    /\ neighbor = None
    /\ env' = [env EXCEPT !.answers = @ - 1]
    /\ \E a \in Miners \cup {Self} :
          neighbor' = IF ~contains(a) /\ ~peerSelfConn(a) /\ Len(iplist) <= IpMax
                      THEN a ELSE None
    /\ UNCHANGED <<link, registry, sending, caster, iplist, health, tried, emptier,
                   request>>

PutNeighbor ==
    /\ neighbor # None
    /\ Len(iplist) < IpMax
    /\ iplist' = Append(iplist, neighbor)
    /\ neighbor' = None
    /\ UNCHANGED <<env, link, registry, sending, caster, health, tried, emptier,
                   request>>

\* EmptyingiplistChan: between the look at the length and the receive, the
\* health service may take what was there; mining() then waits.
EmptyingiplistChan ==
    /\ emptier.pc = "idle"
    /\ env.rounds > 0
    /\ env' = [env EXCEPT !.rounds = @ - 1]
    /\ emptier' = [pc |-> "test", i |-> 0]
    /\ UNCHANGED <<link, registry, sending, caster, iplist, health, tried, neighbor,
                   request>>

TestLength ==
    /\ emptier.pc = "test"
    /\ emptier' = IF emptier.i < Len(iplist) THEN [emptier EXCEPT !.pc = "take"]
                  ELSE [pc |-> "idle", i |-> 0]
    /\ UNCHANGED <<env, link, registry, sending, caster, iplist, health, tried,
                   neighbor, request>>

DropAddress ==
    /\ emptier.pc = "take"
    /\ iplist # <<>>
    /\ iplist' = Tail(iplist)
    /\ emptier' = [pc |-> "test", i |-> emptier.i + 1]
    /\ UNCHANGED <<env, link, registry, sending, caster, health, tried, neighbor,
                   request>>

----------------------------------------------------------------------------
(* BlockReq waits until there is a miner to ask.                           *)

BlockReq ==
    /\ env.request
    /\ request = "none"
    /\ request' = IF minerConns = {} THEN "wait" ELSE "sent"
    /\ UNCHANGED <<env, link, registry, sending, caster, search>>

FoundMiner ==
    /\ request = "wait"
    /\ minerConns # {}
    /\ request' = "sent"
    /\ UNCHANGED <<env, link, registry, sending, caster, search>>

----------------------------------------------------------------------------
peerService == TakeRegister \/ Delete \/ \E c \in Conns : TakeDisconnect(c)
peerConn(c) == Join(c) \/ Hangup(c) \/ TryReconnect(c) \/ setLastTriedPeer(c)

Goroutines ==
    \/ peerService
    \/ \E c \in Conns : peerConn(c) \/ peerBroadcast(c)
    \/ \E m \in Msgs : sendAndSearchMessages(m)
    \/ clientBroadcastService
    \/ PutNeighbor \/ TestLength \/ DropAddress
    \/ FoundMiner

Next ==
    \/ Goroutines
    \/ checkHealthService \/ Pong
    \/ pongRes \/ processNeighborRes \/ EmptyingiplistChan \/ BlockReq
    \/ \E c \in Conns : Break(c)
    \/ \E m \in Msgs : Broadcast(m)
    \/ \E n \in Notes : TakeNote(n)

\* Every goroutine that can go on does: all of them but the health service,
\* which has a loop of its own, stop after finitely many steps.  A miner at the
\* other end reads what it is sent, or its connection breaks; but it need not
\* answer a handshake.
Spec == Init /\ [][Next]_vars /\ WF_vars(Goroutines) /\ WF_vars(checkHealthService)

----------------------------------------------------------------------------
(* Properties.                                                             *)

Gone == {"left", "listing", "closed"}

\* The process is over; what the model does from then on means nothing.
Panicked == \E m \in Msgs : sender[m].pc = "panic"

\* The registry is exact.  No two connections of one miner are registered, a
\* registered miner is found through sendingMap, and a connection that has been
\* reported on disconnect is out of the registry, whatever peerService, the
\* broadcasts and newer connections of the same miner do meanwhile; except
\* that a disconnect may overtake its own register, which is buffered.
RegistryExact ==
    /\ \A c, d \in minerConns : link[c].addr = link[d].addr => c = d
    /\ \A c \in minerConns :
          /\ sendingMap[link[c].addr] # 0
          /\ link[entry[link[c].addr][sendingMap[link[c].addr]].peer].addr = link[c].addr
    /\ \A c \in peers : link[c].pc \in Gone /\ service # c => c \in overtaken

\* A connection in use leaves the registry only for another one of the same
\* address: the late disconnect of an old connection does not take the new one
\* with it (peers.delete, by pointer).
StaysRegistered ==
    [][\A c \in peers \ peers' :
          link[c].pc = "open" => \E d \in peers' \ peers : link[d].addr = link[c].addr]_vars

\* A message reaches every miner that is registered when its broadcast starts,
\* stays connected, and does not connect a second time: no full channel, no
\* mutex and no other connection that breaks stops it (sendAndSearchMessages,
\* peerBroadcast).
Delivered ==
    []<>(\/ Panicked
         \/ \A m \in Msgs : \A c \in sender[m].owed :
               \/ m \in link[c].got
               \/ ~link[c].up
               \/ \E d \in Conns \ {c} : link[d].addr = link[c].addr)

\* These waits end.  A broadcast, to miners or to clients, ends although it
\* waits for room in the channels of connections that may be broken, the first
\* under closeChannelMutex.  The goroutine of a broken connection ends, although
\* disconnect, lastpeerMutex and iplistChan may each keep it waiting, and a
\* block request finds a miner: these two need checkHealthService, and so may
\* wait for as long as that waits for a MINER_PONG.
WaitsEnd ==
    []<>(\/ Panicked
         \/ /\ \A m \in Msgs : sender[m].pc \in {"idle", "done"}
            /\ caster.pc = "idle"
            /\ \A c \in Conns : \/ link[c].up
                                \/ link[c].pc \in {"unused", "closed"}
                                \/ link[c].pc \in {"left", "listing"} /\ Unanswered
            /\ request = "wait" => Unanswered \/ Fresh = {})

=============================================================================
