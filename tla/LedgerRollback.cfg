SPECIFICATION Spec
CONSTANTS
    boss = boss
    staker = staker
    alice = alice
    bob = bob
    fresh = fresh
    Account = {boss, staker, alice, bob, fresh}
    Tx <- MixedTxs
    InitAcc <- MCAcc
    InitRoot = {boss}
    Miners = {boss, staker}
    Slashable = {staker, alice}
    MaxHeight = 2
    MaxMoney = 15
    Wrap = 64
    Purse = 8
    Stake = 10
    FeeMinimum = 1
    BlockReward = 1
    SlashReward = 2
    StakingMinimum = 2
    WaitingMinimum = 0
    MinStaking = 1
    Nil = Nil
INVARIANTS TypeOK SupplyAccounted CountersMatch
PROPERTIES RollbackRestores UnchangedOnError
CONSTRAINT Flawless
