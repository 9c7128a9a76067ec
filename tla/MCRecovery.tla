----------------------------- MODULE MCRecovery -----------------------------
(***************************************************************************)
(* Instances of Recovery for TLC.                                          *)
(***************************************************************************)
EXTENDS Recovery

\* a aggregates two payments; b aggregates a and a third payment.
MCMembers == [x \in AggTxs |-> IF x = "a" THEN {"p", "q"} ELSE {"a", "r"}]

Env(crash, aggregate, rollsBack, prepares, abandons, peer) ==
    [crash |-> crash, aggregate |-> aggregate, rollback |-> rollsBack,
     prepare |-> prepares, abandon |-> abandons, peer |-> peer, members |-> MCMembers]

AllPoints == Tasks \X (Ops \cup {"-"})

PeerBlock(h, F, A, emptied) ==
    [height |-> h, prev |-> h - 1, funds |-> F, aggs |-> A,
     nr |-> Cardinality(F) + Cardinality(A), aggregated |-> emptied]

\* The chain of the peers: a block with a plain payment, an emptied block and a
\* block with an AggTx.
PeerChain == <<PeerBlock(1, {"r"}, {}, FALSE), PeerBlock(2, {}, {}, TRUE),
               PeerBlock(3, {}, {"a"}, FALSE)>>

\* Plain payments, reorganisations, crashes at the survivable points.
Plain == Env(Survivable, {}, TRUE, FALSE, FALSE, <<>>)
\* AggTxs of new payments and of AggTxs.
Nested == Env(Survivable, {"new", "agg"}, FALSE, FALSE, FALSE, <<>>)
\* AggTxs that also take plain payments of earlier blocks.
Retaken == Env(Survivable, {"new", "funds", "agg"}, FALSE, TRUE, FALSE, <<>>)
\* Prepared blocks that lose the race against another miner's.
Race == Env(Survivable \cup {<<"prepare", "-">>}, {"new"}, FALSE, TRUE, TRUE, <<>>)
\* A miner with peers that may die anywhere.
Synced == Env(AllPoints, {}, FALSE, FALSE, FALSE, PeerChain)
\* Aggregation and crashes at every point.
Dying == Env(AllPoints, {"new", "agg"}, FALSE, FALSE, FALSE, <<>>)
\* Reorganisations of blocks with AggTxs, too; no crash within the move of a block.
Reorganised == [Dying EXCEPT !.rollback = TRUE, !.crash = @ \ Torn]

MCEnvironments == {Plain, Nested, Retaken, Race, Synced, Dying, Reorganised}

\* Restarts between tasks only, of a chain whose AggTxs take plain payments of
\* earlier blocks.
Restarts == {Env({<<"idle", "-">>}, {"new", "funds"}, FALSE, FALSE, FALSE, <<>>)}
=============================================================================
