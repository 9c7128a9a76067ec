----------------------------- MODULE Statistics -----------------------------
(***************************************************************************)
(* What a miner derives from the blocks of its chain besides the accounts: *)
(* the system parameters (config transactions), the block counts and the   *)
(* history of the mining target.  Nothing of this is stored; validating a  *)
(* block moves it forwards and rolling a block back must move it backwards *)
(* to exactly where it was.                                                *)
(*                                                                         *)
(* A block is identified with its hash.  Balances do not change here.      *)
(***************************************************************************)
EXTENDS Integers, Sequences, SequencesExt, FiniteSetsExt

CONSTANTS
    Configs,      \* the sequences of config transactions a block may carry
    Gaps,         \* the seconds between the timestamps of successive blocks
    GenesisGap,   \* the timestamp of the first block after the genesis block
    DefaultParameters,        \* NewDefaultParameters
    Lowest, Highest,          \* the MIN_ and MAX_ constants of the parameters
    Balance,      \* the balance of each validator
    FirstTarget,  \* the target before the first adaption (13)
    MaxHeight,    \* bound on the number of blocks
    Faults        \* what root keys may configure, see FaultKinds

FaultKinds == {
    "shrink",     \* a DiffInterval shorter than the active one
    "unstake"}    \* a StakingMinimum that some validator does not have

ParameterIds == {
    "BLOCK_SIZE", "DIFF_INTERVAL", "FEE_MINIMUM", "BLOCK_INTERVAL", "BLOCK_REWARD",
    "STAKING_MINIMUM", "WAITING_MINIMUM", "ACCEPTANCE_TIME_DIFF",
    "SLASHING_WINDOW_SIZE", "SLASHING_REWARD"}

ConfigTx == [id : ParameterIds \cup {"UNKNOWN"}, payload : Nat]

ASSUME ConfigAssumption ==
    /\ Configs \subseteq Seq(ConfigTx)
    /\ Gaps \subseteq Int /\ GenesisGap \in Nat \ {0}
    /\ {DefaultParameters, Lowest, Highest} \subseteq [ParameterIds -> Nat]
    /\ \A id \in ParameterIds : DefaultParameters[id] \in Lowest[id] .. Highest[id]
    /\ Lowest["DIFF_INTERVAL"] >= 2
    /\ Balance \in [DOMAIN Balance -> Nat]
    /\ FirstTarget \in 0 .. 255
    /\ MaxHeight \in Nat
    /\ Faults \subseteq FaultKinds

VARIABLES
    stat,         \* the global variables of blockchainparam.go, see Init
    chain,        \* the validated blocks above the genesis block
    snaps         \* history: stat before each block of chain

vars == <<stat, chain, snaps>>

Genesis == [height |-> 0, time |-> 0, config |-> <<>>]

(* After Init() and the genesis block, which counts as block 0.            *)
Init ==
    /\ stat = [global  |-> 0,                \* globalBlockCount
               local   |-> 0,                \* localBlockCount
               target  |-> <<FirstTarget>>,  \* target
               times   |-> <<>>,             \* targetTimes
               first   |-> 0,                \* currentTargetTime.first
               params  |-> <<[hash |-> Genesis, val |-> DefaultParameters]>>,
                                             \* parameterSlice
               staking |-> DOMAIN Balance]   \* accounts with IsStaking
    /\ chain = <<>>
    /\ snaps = <<>>

activeParameters(s) == s.params[Len(s.params)].val
DiffInterval(s) == activeParameters(s)["DIFF_INTERVAL"]
getDifficulty(s) == s.target[Len(s.target)]

----------------------------------------------------------------------------
(* parameterBoundsChecking: unknown ids are out of bounds.                 *)
parameterBoundsChecking(tx) ==
    tx.id \in ParameterIds /\ tx.payload \in Lowest[tx.id] .. Highest[tx.id]

(* CheckAndChangeParameters: of several changes of a parameter in one      *)
(* block the last one stays; validators that do not have a new staking     *)
(* minimum leave the validator set.                                        *)
Changes(config, id) ==
    {i \in DOMAIN config : config[i].id = id /\ parameterBoundsChecking(config[i])}

Relevant(config) == \E i \in DOMAIN config : parameterBoundsChecking(config[i])

NewParameters(val, config) ==
    [id \in ParameterIds |->
        IF Changes(config, id) = {} THEN val[id]
        ELSE config[Max(Changes(config, id))].payload]

Removed(config) ==
    {v \in DOMAIN Balance : \E i \in Changes(config, "STAKING_MINIMUM") :
                               Balance[v] < config[i].payload}

configStateChange(s, b) ==
    IF ~Relevant(b.config) THEN s
    ELSE [s EXCEPT !.params = Append(@, [hash |-> b,
                                 val |-> NewParameters(activeParameters(s), b.config)]),
                   !.staking = @ \ Removed(b.config)]

(* calculateNewDifficulty: the binary logarithm of wanted / now, rounded   *)
(* to the nearest integer and cut off at 3, is k or more iff               *)
(* (wanted / now)^2 >= 2^(2k-1).  The conversion of a negative change to   *)
(* uint8 and the addition wrap.                                            *)
Steps(x, y) == Cardinality({k \in 1 .. 3 : x * x >= y * y * 2^(2 * k - 1)})

calculateNewDifficulty(s, now) ==
    LET wanted == activeParameters(s)["BLOCK_INTERVAL"] * DiffInterval(s) IN
    IF now < 0 THEN getDifficulty(s)
    ELSE (getDifficulty(s) + Steps(wanted, now) - Steps(now, wanted)) % 256

NewTarget(s, b) ==
    IF s.first = 0 THEN getDifficulty(s) ELSE calculateNewDifficulty(s, b.time - s.first)

(* Mutant: the end of the range is not the start of the next one.          *)
StartLater(s, b) ==
    LET u == [s EXCEPT !.global = @ + 1, !.local = @ + 1] IN
    IF u.local < DiffInterval(u) THEN u
    ELSE [u EXCEPT !.target = Append(@, NewTarget(u, b)),
                   !.times = Append(@, [first |-> u.first, last |-> b.time]),
                   !.local = 0,
                   !.first = b.time + 1]

collectStatistics(s, b) ==
    LET u == [s EXCEPT !.global = @ + 1, !.local = @ + 1] IN
    IF u.local < DiffInterval(u) THEN u
    ELSE [u EXCEPT !.target = Append(@, NewTarget(u, b)),
                   !.times = Append(@, [first |-> u.first, last |-> b.time]),
                   !.local = 0,
                   !.first = b.time]

----------------------------------------------------------------------------
configStateChangeRollback(s, b) ==
    IF b.config # <<>> /\ s.params[Len(s.params)].hash = b
    THEN [s EXCEPT !.params = Front(@)] ELSE s

(* Mutant: the count starts again at the interval.                         *)
OneTooMany(s) ==
    LET u == [s EXCEPT !.global = @ - 1] IN
    IF u.local = 0 /\ u.global # 0
    THEN [u EXCEPT !.local = DiffInterval(u), !.target = Front(@),
                   !.first = Last(u.times).first, !.times = Front(@)]
    ELSE [u EXCEPT !.local = @ - 1]

(* Mutant: an interval that was completed is not opened again.             *)
NeverReopened(s) == [s EXCEPT !.global = @ - 1, !.local = @ - 1]

collectStatisticsRollback(s) ==
    LET u == [s EXCEPT !.global = @ - 1] IN
    IF u.local = 0 /\ u.global # 0
    THEN [u EXCEPT !.local = DiffInterval(u) - 1, !.target = Front(@),
                   !.first = Last(u.times).first, !.times = Front(@)]
    ELSE [u EXCEPT !.local = @ - 1]

----------------------------------------------------------------------------
Tip == IF chain = <<>> THEN Genesis ELSE Last(chain)

(* What root keys configure when the faults are excluded.                  *)
Allowed(s, b) ==
    /\ "shrink" \notin Faults => DiffInterval(configStateChange(s, b)) >= DiffInterval(s)
    /\ "unstake" \notin Faults => Removed(b.config) = {}

(* postValidate: parameters first, then statistics.                        *)
PostValidate(b) ==
    /\ Len(chain) < MaxHeight
    /\ Allowed(stat, b)
    /\ stat' = collectStatistics(configStateChange(stat, b), b)
    /\ chain' = Append(chain, b)
    /\ snaps' = Append(snaps, stat)

NextBlock(gap, config) ==
    [height |-> Len(chain) + 1,
     time   |-> IF chain = <<>> THEN GenesisGap ELSE Tip.time + gap,
     config |-> config]

(* rollback: parameters first, then (postValidateRollback) statistics.     *)
Rolled(s, b) == collectStatisticsRollback(configStateChangeRollback(s, b))

Rollback ==
    /\ chain # <<>>
    /\ stat' = Rolled(stat, Last(chain))
    /\ chain' = Front(chain)
    /\ snaps' = Front(snaps)

Next ==
    \/ \E gap \in Gaps, config \in Configs : PostValidate(NextBlock(gap, config))
    \/ Rollback

Spec == Init /\ [][Next]_vars

----------------------------------------------------------------------------
BlockData == [height : Nat, time : Int, config : Configs \cup {<<>>}]

Stat == [global : Nat, local : Nat,
         target : Seq(0 .. 255), times : Seq([first : Int, last : Int]), first : Int,
         params : Seq([hash : BlockData, val : [ParameterIds -> Nat]]),
         staking : SUBSET DOMAIN Balance]

TypeOK ==
    /\ stat \in Stat
    /\ stat.target # <<>> /\ stat.params # <<>>
    /\ chain \in Seq(BlockData)
    /\ snaps \in Seq(Stat)

(* Rolling a block back restores counts, target, time ranges, parameters   *)
(* and validators: the next adaption happens at the same height and with   *)
(* the same result as if the block had never been there.                   *)
StatisticsRestored ==
    [][Len(chain') < Len(chain) => stat' = Last(snaps)]_vars

(* The time ranges behind the targets follow each other without gap, and   *)
(* there is one target more than there are ranges: after any sequence of   *)
(* adaptions and rollbacks every range ends where the next one starts.     *)
RangesContiguous ==
    /\ Len(stat.target) = Len(stat.times) + 1
    /\ \A i \in 1 .. Len(stat.times) :
          stat.times[i].last =
              IF i = Len(stat.times) THEN stat.first ELSE stat.times[i + 1].first

=============================================================================
