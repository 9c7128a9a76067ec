------------------------------ MODULE MCLedger ------------------------------
(* Accounts and transactions for model checking Ledger: boss is a root     *)
(* and a validator, staker a validator, alice and bob are users, fresh     *)
(* does not exist at first.                                                *)
EXTENDS Ledger

CONSTANTS boss, staker, alice, bob, fresh, Purse, Stake

Funds(from, to, amount, fee, cnt) ==
    [kind |-> "funds", from |-> from, to |-> to, amount |-> amount, fee |-> fee, cnt |-> cnt]
NewAcc(acc, header, fee) ==
    [kind |-> "acc", acc |-> acc, header |-> header, signer |-> boss, fee |-> fee]
StakeTx(acc, staking, fee) == [kind |-> "stake", acc |-> acc, staking |-> staking, fee |-> fee]
Config(fee) == [kind |-> "config", signer |-> boss, fee |-> fee]

User(bal, staking) == [bal |-> bal, cnt |-> 0, staking |-> staking, height |-> 0]

MCAcc == (boss :> User(Stake, TRUE)) @@ (staker :> User(Stake, TRUE)) @@ (alice :> User(Purse, FALSE))
         @@ (bob :> User(Purse, FALSE)) @@ (fresh :> Nil)

(* Payments of several users, one of them root, most of them to the same   *)
(* validator: the groups that are formed by receiver cut the payments of   *)
(* alice apart.  A new root account; a user who joins the validators.      *)
MixedTxs == {Funds(alice, staker, 2, 1, 0), Funds(alice, fresh, 1, 1, 1), Funds(boss, staker, 3, 1, 0),
             Funds(bob, staker, 1, 1, 0), NewAcc(fresh, 1, 1), StakeTx(alice, TRUE, 1)}

(* Bound: nothing is explored beyond a step that has no undo.              *)
Flawless == flaws = {}

(* A validator that leaves and pays in the same block.                     *)
LeavingTxs == {Funds(staker, bob, 6, 1, 0), Funds(alice, bob, 2, 1, 0), StakeTx(staker, FALSE, 2)}
=============================================================================
