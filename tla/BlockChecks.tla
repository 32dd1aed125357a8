---------------------------- MODULE BlockChecks ----------------------------
(***************************************************************************)
(* What CheckBlock and ContextualCheckBlock decide of a body that comes    *)
(* with a header.  A header commits to its transactions, and they commit   *)
(* (or not) to their witness data; a body found with that header may be    *)
(* the one committed to or an altered one.                                 *)
(*                                                                         *)
(* A body is what the checks tell apart: txs is "same" for the committed   *)
(* transactions, "repeated" for those with a sequence repeated that leaves *)
(* the merkle root as it is, "other" for any others; witness is "none",    *)
(* "right" or "wrong" for what the transactions after the coinbase carry;  *)
(* nonce is the reserved value of the coinbase: "none", "right", "wrong"   *)
(* (32 bytes, not those committed to) or "malformed"; flaws are the rules  *)
(* this content breaks.                                                    *)
(***************************************************************************)
EXTENDS FiniteSets

CONSTANTS
  Committing,   \* the blocks that commit to witness data (GetWitnessCommitmentIndex)
  ZeroReserved  \* those of them whose reserved value is 32 zero bytes

ContentFlaws == {"bad-blk-length", "bad-cb", "bad-txns", "bad-blk-sigops"}
ContextFlaws == {"bad-txns-nonfinal", "bad-cb-height"}
Flaws == ContentFlaws \cup ContextFlaws \cup {"bad-blk-weight"}

Bodies ==
  [txs: {"same", "repeated", "other"}, witness: {"none", "right", "wrong"},
   nonce: {"none", "right", "wrong", "malformed"}, flaws: SUBSET Flaws]
-----------------------------------------------------------------------------
(* The outcome of a check: "ok", BLOCK_MUTATED when the body may not be the *)
(* one the header is about, BLOCK_CONSENSUS when the block itself is wrong. *)
CheckBlock_ContentFirst(body) ==                                    \* faulty
  CASE body.flaws \cap ContentFlaws # {} -> "BLOCK_CONSENSUS"
    [] body.txs # "same" -> "BLOCK_MUTATED"
    [] OTHER -> "ok"

\* The merkle root first, and whether it was reached by repetition; then the content.
CheckBlock(body) ==
  IF body.txs # "same" THEN "BLOCK_MUTATED"
  ELSE IF body.flaws \cap ContentFlaws # {} THEN "BLOCK_CONSENSUS" ELSE "ok"

HasWitness(body) == body.witness # "none" \/ body.nonce # "none"

(* The witness commitment: BlockWitnessMerkleRoot hashes the witness data   *)
(* with the reserved value.  Without a commitment no witness is allowed.    *)
WitnessAgrees(b, body) ==
  IF b \in Committing
    THEN body.nonce = "right" /\ body.witness = "right"
    ELSE ~HasWitness(body)

ContextualCheckBlock(b, body) ==
  IF body.flaws \cap ContextFlaws # {} THEN "BLOCK_CONSENSUS"
  ELSE IF ~WitnessAgrees(b, body) THEN "BLOCK_MUTATED"
  ELSE IF "bad-blk-weight" \in body.flaws THEN "BLOCK_CONSENSUS" ELSE "ok"

(* AcceptBlock runs both, and ContextualCheckBlock is only reached by a     *)
(* body CheckBlock passes.                                                  *)
CheckBody(b, body) ==
  IF CheckBlock(body) # "ok" THEN CheckBlock(body) ELSE ContextualCheckBlock(b, body)

(* UpdateUncommittedBlockStructures: a block that commits to witness data   *)
(* and comes without the reserved value gets the one of 32 zero bytes.      *)
UpdateUncommittedBlockStructures(b, body) ==
  IF b \in Committing /\ body.nonce = "none"
    THEN [body EXCEPT !.nonce = IF b \in ZeroReserved THEN "right" ELSE "wrong"]
    ELSE body
=============================================================================
