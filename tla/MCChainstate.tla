---------------------------- MODULE MCChainstate ----------------------------
(***************************************************************************)
(* Block trees for TLC.                                                    *)
(*                                                                         *)
(*         a1 - a2                      a1 - a2                            *)
(*       /                            /                                    *)
(*     g0                           g0                                     *)
(*       \                            \                                    *)
(*         b1 - b2 - b3                 b1 - b2                            *)
(*                                                                         *)
(* Every block has work 1, but b2 of the small tree has work 2: there a    *)
(* block two above the genesis block can outweigh a tip of the same height,*)
(* as a block of higher difficulty does.                                   *)
(***************************************************************************)
EXTENDS Chainstate, TLC

CONSTANTS g0, a1, a2, b1, b2, b3, t1, t2

MCParent == a1 :> g0 @@ a2 :> a1 @@ b1 :> g0 @@ b2 :> b1 @@ b3 :> b2
MCAddr == g0 :> 0 @@ a1 :> 1 @@ b2 :> 2 @@ a2 :> 3 @@ b1 :> 4 @@ b3 :> 5

PathsIn(blocks) ==
  LET up[b \in blocks] == IF b = g0 THEN {g0} ELSE {b} \cup up[MCParent[b]] IN up
HeightsIn(blocks) == [b \in blocks |-> Cardinality(PathsIn(blocks)[b]) - 1]

LargeBlocks == {g0, a1, a2, b1, b2, b3}
LargeParent == [b \in LargeBlocks \ {g0} |-> MCParent[b]]
LargePath == PathsIn(LargeBlocks)
LargeHeight == HeightsIn(LargeBlocks)
LargeWork == [b \in LargeBlocks |-> LargeHeight[b] + 1]
LargeAddr == [b \in LargeBlocks |-> MCAddr[b]]

SmallBlocks == LargeBlocks \ {b3}
SmallParent == [b \in SmallBlocks \ {g0} |-> MCParent[b]]
SmallPath == PathsIn(SmallBlocks)
SmallHeight == HeightsIn(SmallBlocks)
SmallWork == [b \in SmallBlocks |-> SmallHeight[b] + (IF b = b2 THEN 2 ELSE 1)]
SmallAddr == [b \in SmallBlocks |-> MCAddr[b]]

ThreadSymmetry == Permutations(Threads)
=============================================================================
