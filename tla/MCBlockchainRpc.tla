--------------------------- MODULE MCBlockchainRpc ---------------------------
(***************************************************************************)
(* Two rival branches of two blocks after the genesis block: a scan of two *)
(* heights at a time needs two rounds, and may find the other branch, or   *)
(* no block at all, in the second one.                                     *)
(***************************************************************************)
EXTENDS BlockchainRpc, TLC

CONSTANTS g, a1, a2, b1, b2, t1, t2

FiveBlocks == {g, a1, a2, b1, b2}
HeightOf == (g :> 0) @@ (a1 :> 1) @@ (b1 :> 1) @@ (a2 :> 2) @@ (b2 :> 2)
BranchOf(x) == IF x \in {b1, b2} THEN <<g, b1, b2>> ELSE <<g, a1, a2>>
AncestorOf == [x \in FiveBlocks |-> [h \in 0 .. HeightOf[x] |-> BranchOf(x)[h + 1]]]

Wait(method) == [method |-> method, block |-> b2, height |-> 2, timeout |-> FALSE]
Scan(method, action) == [method |-> method, action |-> action, from |-> 0, to |-> -1]

WaitCalls == {Wait(m) : m \in Waits} \cup {[Wait("waitforblock") EXCEPT !.timeout = TRUE]}
ScanCalls(m) == {Scan(m, action) : action \in {"start", "abort", "status"}}

\* The groups share cs_main and the tip and nothing else, so that one at a time is enough.
MCCalls ==
  {WaitCalls, ScanCalls("scantxoutset"),
   ScanCalls("scanblocks") \cup {[Scan("scanblocks", "start") EXCEPT !.from = 1, !.to = 1]}}
CoinScans == {ScanCalls("scantxoutset")}
=============================================================================
