------------------------------- MODULE MCCoins -------------------------------
(***************************************************************************)
(* Two branches and a block that spends a coin twice.                      *)
(*                                                                         *)
(*                 a2             a2: x -> y, then k -> z and z -> w       *)
(*               /                                                         *)
(*     g0 - c1                                                             *)
(*               \                b2: k is spent, nothing created          *)
(*                 b2 - b3        b3: x -> y, the transaction of a2        *)
(*                    \                                                    *)
(*                     d3         d3: spends k once more                   *)
(*                                                                         *)
(* c1 creates x and k.  The other coinbases pay outputs that cannot be     *)
(* spent and never enter the coins.                                        *)
(***************************************************************************)
EXTENDS Coins, TLC

CONSTANTS g0, c1, a2, b2, b3, d3, x, y, z, w, k

MCBlocks == {g0, c1, a2, b2, b3, d3}
MCOuts == {x, y, z, w, k}
MCParent == g0 :> NoBlock @@ c1 :> g0 @@ a2 :> c1 @@ b2 :> c1 @@ b3 :> b2 @@ d3 :> b2
MCPath ==
  LET up[b \in MCBlocks] == IF b = g0 THEN {g0} ELSE {b} \cup up[MCParent[b]] IN up
MCHeight == [b \in MCBlocks |-> Cardinality(MCPath[b]) - 1]

Coinbase(outs) == [spends |-> {}, creates |-> outs]
Tx(from, to) == [spends |-> {from}, creates |-> to]
MCTxs ==
  g0 :> <<Coinbase({})>> @@ c1 :> <<Coinbase({x, k})>>
  @@ a2 :> <<Coinbase({}), Tx(x, {y}), Tx(k, {z}), Tx(z, {w})>>
  @@ b2 :> <<Coinbase({}), Tx(k, {})>> @@ b3 :> <<Coinbase({}), Tx(x, {y})>>
  @@ d3 :> <<Coinbase({}), Tx(k, {})>>
=============================================================================
