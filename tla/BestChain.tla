------------------------------ MODULE BestChain ------------------------------
(***************************************************************************)
(* What the chainstate promises to everyone who reads the tip while        *)
(* cs_main is free: the published chain is valid from the genesis block    *)
(* up, and it changes only to a chain of at least the same work - or by    *)
(* one block backwards, when an operator invalidates the tip.  How long a  *)
(* reorganisation is and how many blocks are tried on the way is not       *)
(* visible.                                                                *)
(***************************************************************************)
EXTENDS Naturals

CONSTANTS
  Blocks, Genesis, Parent, Path, Work,
  Valid             \* the blocks that satisfy the consensus rules

VARIABLE published

Init == published = Genesis

Activate ==
  \E b \in Blocks : /\ Path[b] \subseteq Valid
                    /\ Work[b] >= Work[published]
                    /\ published' = b

StepBack == published # Genesis /\ published' = Parent[published]

Next == Activate \/ StepBack

Spec == Init /\ [][Next]_published
=============================================================================
