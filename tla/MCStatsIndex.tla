---------------------------- MODULE MCStatsIndex ----------------------------
(***************************************************************************)
(*             a2 - a3    a2: x -> y and v (unspendable), 1 is left as fee *)
(*           /            a3: y is spent, 2 of it into z                   *)
(*   g0 - c1                                                               *)
(*           \                                                             *)
(*             b2         b2: x -> y and v, the same transaction           *)
(*                                                                         *)
(* The coinbases claim 5 of 5, 6 of 7 and 6 of 8 in c1, a2 and a3; that of *)
(* b2 claims nothing.                                                      *)
(***************************************************************************)
EXTENDS StatsIndex, TLC

CONSTANTS g0, c1, a2, a3, b2, x, y, z, v, p, q

MCBlocks == {g0, c1, a2, a3, b2}
MCParent == g0 :> NoBlock @@ c1 :> g0 @@ a2 :> c1 @@ a3 :> a2 @@ b2 :> c1
MCPath ==
  LET up[b \in MCBlocks] == IF b = g0 THEN {g0} ELSE {b} \cup up[MCParent[b]] IN up
MCHeight == [b \in MCBlocks |-> Cardinality(MCPath[b]) - 1]

MCOuts == {x, y, z, v, p, q}
MCValue == x :> 5 @@ y :> 3 @@ v :> 1 @@ z :> 2 @@ p :> 6 @@ q :> 6
MCUnspendable == {v}
MCSubsidy == 0 :> 0 @@ 1 :> 5 @@ 2 :> 6 @@ 3 :> 7
Coinbase(outs) == [spends |-> {}, creates |-> outs]
Tx(from, to) == [spends |-> from, creates |-> to]
MCTxs ==
  g0 :> <<Coinbase({})>> @@ c1 :> <<Coinbase({x})>>
  @@ a2 :> <<Coinbase({p}), Tx({x}, {y, v})>> @@ a3 :> <<Coinbase({q}), Tx({y}, {z})>>
  @@ b2 :> <<Coinbase({}), Tx({x}, {y, v})>>
=============================================================================
