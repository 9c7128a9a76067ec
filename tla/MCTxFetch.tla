----------------------------- MODULE MCTxFetch -----------------------------
(***************************************************************************)
(* Instances of TxFetch for TLC.                                           *)
(***************************************************************************)
EXTENDS TxFetch

MCKindOf ==
    [t \in {"f1", "f2", "f3", "f4"} |-> "funds"] @@ [t \in {"g1", "g2", "g3", "g4", "g5"} |-> "agg"]
    @@ [t \in {"a1", "a2", "a3", "a4"} |-> "acc"] @@ ("c1" :> "config")
    @@ ("s1" :> "stake") @@ ("u1" :> "update")
MCTx == DOMAIN MCKindOf

\* g2 and g4 aggregate the older g5.
MCMembers ==
    [t \in MCTx |-> CASE t = "g1" -> <<"f2">>
                      [] t \in {"g2", "g4"} -> <<"g5", "f3">>
                      [] t = "g3" -> <<"f1">>
                      [] t = "g5" -> <<"f2">>
                      [] OTHER -> <<>>]
MCSender == [t \in MCTx |-> IF t = "f3" THEN "p" ELSE "q"]
MCTxCnt == [t \in MCTx |-> CASE t = "f2" -> 1 [] OTHER -> 0]

Block(acc, pay, config, stake, update, agg) ==
    ("acc" :> acc) @@ ("funds" :> pay) @@ ("config" :> config)
    @@ ("stake" :> stake) @@ ("update" :> update) @@ ("agg" :> agg)

MCBlocks ==
    << Block(<<>>, <<"f1">>, <<>>, <<>>, <<>>, <<"g1">>),
       Block(<<>>, <<"f4">>, <<"c1">>, <<"s1">>, <<>>, <<>>),
       Block(<<>>, <<>>, <<>>, <<>>, <<>>, <<"g3", "g2">>),
       Block(<<"a2", "a3", "a4">>, <<>>, <<>>, <<>>, <<"u1">>, <<>>),
       Block(<<>>, <<"f3">>, <<>>, <<>>, <<>>, <<>>),
       Block(<<"a1">>, <<"f1">>, <<>>, <<>>, <<>>, <<>>),
       Block(<<>>, <<>>, <<>>, <<>>, <<>>, <<"g4">>) >>

Call(b, initial, heard) == [block |-> b, init |-> initial, heard |-> heard]

MCPlan ==
    { <<Call(1, FALSE, {})>>, <<Call(2, FALSE, {})>>, <<Call(3, TRUE, {})>>,
      <<Call(4, FALSE, {})>>, <<Call(7, FALSE, {})>>,
      <<Call(6, FALSE, {}), Call(5, FALSE, {})>>,
      <<Call(5, FALSE, {}), Call(5, FALSE, {})>>,
      <<Call(5, FALSE, {"f2"})>> }

MCKnown == {"a1", "c1", "s1", "f1", "f2", "f3", "g1", "g2", "g4", "g5"}
============================================================================
