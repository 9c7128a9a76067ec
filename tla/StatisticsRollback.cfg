SPECIFICATION Spec
CONSTANTS
    alice = alice
    bob = bob
    Configs <- SomeConfigs
    Gaps <- SomeGaps
    GenesisGap = 100
    DefaultParameters <- Default
    Lowest <- Low
    Highest <- High
    Balance <- MCBalance
    FirstTarget = 13
    MaxHeight = 6
    Faults = {}
INVARIANTS TypeOK RangesContiguous
PROPERTIES StatisticsRestored
