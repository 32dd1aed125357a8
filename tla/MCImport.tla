------------------------------ MODULE MCImport ------------------------------
(***************************************************************************)
(* A chain g - a - b - c and a block f after a whose content breaks a      *)
(* rule.  The block b commits to witness data.  The files hold the genesis *)
(* block and then any few of the records below, in any order.              *)
(***************************************************************************)
EXTENDS Import

CONSTANTS g, a, b, c, f, MaxRecords

FiveBlocks == {g, a, b, c, f}
ParentOf == (g :> NoBlock) @@ (a :> g) @@ (b :> a) @@ (c :> b) @@ (f :> a)
PathOf ==
  LET line[x \in FiveBlocks] == IF x = g THEN {g} ELSE {x} \cup line[ParentOf[x]] IN line
HeightOf == [x \in FiveBlocks |-> Cardinality(PathOf[x]) - 1]
FlawsOf == [x \in FiveBlocks |-> IF x = f THEN {"bad-txns"} ELSE {}]

\* The body a header commits to.
Own(x) ==
  LET part == IF x \in Committing THEN "right" ELSE "none"
  IN  [txs |-> "same", witness |-> part, nonce |-> part, flaws |-> FlawsOf[x]]

Rec(x, body) == [block |-> x, body |-> body]

\* Altered bodies: other transactions, repeated ones, witness data that was added,
\* stripped or changed, the last so that the block is too heavy.
OtherTxs(x) == [Own(x) EXCEPT !.txs = "other", !.flaws = {"bad-cb", "bad-cb-height"}]
RepeatedTxs(x) == [Own(x) EXCEPT !.txs = "repeated", !.flaws = {"bad-txns"}]
FatWitness(x) == [Own(x) EXCEPT !.witness = "wrong", !.flaws = @ \cup {"bad-blk-weight"}]
NoNonce(x) == [Own(x) EXCEPT !.nonce = "none"]

MCRecords ==
  {Rec(x, Own(x)) : x \in {a, b, c, f}} \cup
  {Rec(a, OtherTxs(a)), Rec(b, FatWitness(b)), Rec(b, Torn), Rec(c, RepeatedTxs(c)),
   Rec(a, FatWitness(a))}

\* Every content of MaxRecords records, and those of one more that hold the whole chain.
FilesOf(n) == {<<Rec(g, Own(g))>> \o s : s \in [1 .. n -> MCRecords]}
WholeChain == {Rec(x, Own(x)) : x \in {g, a, b, c}}
MCFiles == FilesOf(MaxRecords) \cup {s \in FilesOf(MaxRecords + 1) : WholeChain \subseteq Range(s)}

MCSubmitted == {Rec(a, Own(a)), Rec(b, NoNonce(b)), Rec(b, FatWitness(b)), Rec(f, Own(f))}

=============================================================================
