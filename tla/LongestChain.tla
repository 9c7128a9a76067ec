---------------------------- MODULE LongestChain ----------------------------
(***************************************************************************)
(* What validate promises its callers: the node has one tip, which changes *)
(* in a single step and only to a block that is strictly higher.           *)
(***************************************************************************)
EXTENDS Naturals

CONSTANTS Block, Height, InitTip

VARIABLE tip

Init == tip = InitTip

Adopt(b) == Height[b] > Height[tip] /\ tip' = b

Next == \E b \in Block : Adopt(b)

Spec == Init /\ [][Next]_tip
=============================================================================
