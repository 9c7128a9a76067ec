SPECIFICATION Spec
CONSTANTS
    boss = boss
    staker = staker
    alice = alice
    bob = bob
    fresh = fresh
    Account = {boss, staker, alice, bob, fresh}
    Tx <- LeavingTxs
    InitAcc <- MCAcc
    InitRoot = {boss}
    Miners = {boss, staker}
    Slashable = {}
    MaxHeight = 1
    MaxMoney = 20
    Wrap = 64
    Purse = 8
    Stake = 8
    FeeMinimum = 1
    BlockReward = 1
    SlashReward = 2
    StakingMinimum = 2
    WaitingMinimum = 0
    MinStaking = 1
    Nil = Nil
INVARIANTS BalancesBounded
