----------------------------- MODULE MCSubsidy -----------------------------
(***************************************************************************)
(* The parameters of the code, with hundredths of a TC as ticks and as     *)
(* Instants: the amounts then fit the 32-bit integers of TLC, and the      *)
(* table is the one of the code but for the rounding of the small rewards. *)
(***************************************************************************)
EXTENDS Subsidy, TLC

CONSTANTS validation, miner, index

\* The genesis block, the block after it, the seam of the first two seasons and the
\* blocks around the end of the emission, where the cap cuts the seasons.
SeamHeights == {0, 1, 4379, 4380, 3159962, 3159963, 3159964}

\* One seam is enough where it is not the heights that matter.
FewHeights == {0, 1, 4380}

TwoUnderCsMain == Permutations({validation, miner})
=============================================================================
