------------------------------ MODULE MCChain ------------------------------
(* Block trees for model checking Chain.  A tree is given by its parent    *)
(* function; heights and ancestors are computed from it.                   *)
EXTENDS Chain

CONSTANTS g, s1, s2, a1, a2, a3, a4, b1, b2, b3, b4, b5

RECURSIVE AncOf(_, _, _)
AncOf(prev, root, b) ==
    IF b = root THEN {} ELSE {prev[b]} \cup AncOf(prev, root, prev[b])

MCAnc == [b \in Block |-> AncOf(Prev, Genesis, b)]
MCHeight == [b \in Block |-> Cardinality(AncOf(Prev, Genesis, b))]

(* Trunk g-s1-s2, branches s2-a3-a4 and s2-b3-b4-b5.                       *)
TrunkBlocks == {g, s1, s2, a3, a4, b3, b4, b5}
TrunkPrev == (g :> g) @@ (s1 :> g) @@ (s2 :> s1) @@ (a3 :> s2) @@ (a4 :> a3)
             @@ (b3 :> s2) @@ (b4 :> b3) @@ (b5 :> b4)

(* Branches g-a1-a2 and g-b1-b2-b3: with EmptyAfter = 0 a1 is emptied when *)
(* a2 is closed, and b3 makes the node roll both of them back.             *)
DeepBlocks == {g, a1, a2, b1, b2, b3}
DeepPrev == (g :> g) @@ (a1 :> g) @@ (a2 :> a1)
            @@ (b1 :> g) @@ (b2 :> b1) @@ (b3 :> b2)

(* With EmptyAfter = 3 no branch leaves the part of a chain that may be    *)
(* emptied, which is what the second part of ChainProofs assumes.          *)
ASSUME ShallowTree == EmptyAfter >= 3 => ShallowForks
=============================================================================
