------------------------------ MODULE MCPeers ------------------------------
(***************************************************************************)
(* Instances of Peers for TLC.                                             *)
(***************************************************************************)
EXTENDS Peers

Env(incoming, accepts, breaks, msgs, notes) ==
    [incoming |-> incoming, accepts |-> accepts, breaks |-> breaks, refusals |-> 0,
     answers |-> 0, rounds |-> 0, healthy |-> FALSE, request |-> FALSE,
     msgs |-> msgs, notes |-> notes]

\* One miner that connects a second time.
Reconnecting == Env({"boot"}, 2, 1, {"x", "y"}, {})
\* One miner that loses both of its connections.
Leaving == Env({"boot"}, 2, 2, {"x"}, {})
\* Three connections of two miners: one too many for MAX_MINERS.
Pair == Env({"boot", "other"}, 3, 0, {"x"}, {})
\* Two connections of a client.
Serving == Env({"client"}, 2, 1, {}, {"n", "o"})
\* The node has to look for a first miner.
Searching ==
    [Env({"boot"}, 1, 1, {}, {}) EXCEPT !.refusals = 1, !.healthy = TRUE, !.request = TRUE]
\* Two miners leave; the node looks for them.
Losing == [Env({"boot", "other"}, 2, 2, {}, {}) EXCEPT !.healthy = TRUE]
\* Neighbours name miners while mining() empties the list.
Listing ==
    [Env({}, 0, 0, {}, {}) EXCEPT !.answers = 2, !.rounds = 1, !.refusals = 1, !.healthy = TRUE]

MCEnvironments == {Reconnecting, Leaving, Pair, Serving, Searching, Losing, Listing}
=============================================================================
