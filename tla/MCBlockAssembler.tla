-------------------------- MODULE MCBlockAssembler --------------------------
EXTENDS BlockAssembler, TLC

CONSTANTS
  g0, c1, c2, a3, a4, b3, b4, cb1, t1, r1, m, l1, j, low, q, f, k, n,
  x1, x2, y1, y2, y3, z1, v1, w1, w2, u1

MCBlocks == {g0, c1, c2, a3, a4, b3, b4}
MCParent ==
  g0 :> NoBlock @@ c1 :> g0 @@ c2 :> c1 @@ a3 :> c2 @@ a4 :> a3 @@ b3 :> c2 @@ b4 :> b3
MCPath ==
  LET up[b \in MCBlocks] == IF b = g0 THEN {g0} ELSE {b} \cup up[MCParent[b]] IN up
MCHeight == [b \in MCBlocks |-> Cardinality(MCPath[b]) - 1]
MCBlockTxs ==
  c1 :> <<cb1>> @@ a3 :> <<t1>> @@ a4 :> <<m>> @@ b4 :> <<t1>> @@ [b \in {g0, c2, b3} |-> <<>>]

MCTxs == {cb1, t1, r1, m, l1, j, low, q, f, k, n}
MCSpends ==
  cb1 :> {} @@ t1 :> {x1} @@ r1 :> {x1} @@ m :> {y1} @@ l1 :> {y3} @@ j :> {y2, w1}
  @@ low :> {x2} @@ q :> {v1, z1} @@ f :> {y3} @@ k :> {u1} @@ n :> {w2, v1}
MCCreates ==
  cb1 :> {x1, x2} @@ t1 :> {y1, y2, y3} @@ r1 :> {z1} @@ m :> {v1} @@ l1 :> {} @@ j :> {u1}
  @@ low :> {w1, w2} @@ q :> {} @@ f :> {} @@ k :> {} @@ n :> {}
MCFee ==
  cb1 :> 0 @@ t1 :> 2 @@ r1 :> 7 @@ m :> 2 @@ l1 :> 3 @@ j :> 6 @@ low :> 1 @@ q :> 4
  @@ f :> 6 @@ k :> 6 @@ n :> 2
MCSize == [t \in MCTxs |-> IF t = f THEN 2 ELSE 1]
MCLockTime == [t \in MCTxs |-> IF t = low THEN 2 ELSE 0]
MCRelLock == [t \in MCTxs |-> IF t = l1 THEN 2 ELSE 0]
MCPackages == {<<low, j>>, <<t1, low, j>>, <<m, r1, q>>}
=============================================================================
