----------------------------- MODULE BlockTree -----------------------------
(***************************************************************************)
(* The tree of blocks as the block index has it: every block but the       *)
(* genesis block has a pprev and is one higher, and the chain of a block   *)
(* (GetAncestor) is that of pprev and the block.                           *)
(***************************************************************************)
EXTENDS Integers, FiniteSets

CONSTANTS
  Blocks, Genesis, NoBlock,
  Parent,   \* pprev
  Path,     \* Path[b]: b and its ancestors
  Height    \* nHeight

ASSUME TreeAssumption ==
  /\ IsFiniteSet(Blocks) /\ Genesis \in Blocks /\ NoBlock \notin Blocks
  /\ Parent[Genesis] = NoBlock /\ Path[Genesis] = {Genesis} /\ Height[Genesis] = 0
  /\ \A b \in Blocks \ {Genesis} :
       /\ Parent[b] \in Blocks
       /\ Path[b] = Path[Parent[b]] \cup {b}
       /\ Height[b] = Height[Parent[b]] + 1
  /\ Height \in [Blocks -> Nat]
=============================================================================
