---------------------------- MODULE MCStatistics ----------------------------
(* Parameters and config transactions for model checking Statistics.       *)
EXTENDS Statistics, TLC

CONSTANTS alice, bob

Low  == [id \in ParameterIds |-> IF id = "DIFF_INTERVAL" THEN 3 ELSE 1]
High == [id \in ParameterIds |-> 9]

Default == [id \in ParameterIds |-> 3]
MCBalance == (alice :> 3) @@ (bob :> 9)

Config(id, payload) == [id |-> id, payload |-> payload]

(* Longer and shorter intervals, a minimum that every validator has, an    *)
(* unknown and an invalid parameter.                                       *)
SomeConfigs ==
    {<<>>, <<Config("DIFF_INTERVAL", 4)>>,
     <<Config("UNKNOWN", 3), Config("STAKING_MINIMUM", 0)>>,
     <<Config("DIFF_INTERVAL", 5), Config("DIFF_INTERVAL", 3), Config("STAKING_MINIMUM", 3)>>}

(* Clocks may run backwards from block to block.                           *)
SomeGaps == {-3, 8}
=============================================================================
