-------------------------- MODULE StatsIndex_proofs --------------------------
(***************************************************************************)
(* For every block tree, all amounts and all transactions: the entries of  *)
(* CoinStatsIndex are the statistics of their chains, none is missing when *)
(* it is wanted, and a lookup is answered right.                           *)
(*                                                                         *)
(* The first half is arithmetic: AppendTotals and AppendMuhash take the    *)
(* statistics after a block's parent, counted over the whole chain, to     *)
(* those after the block, and ReverseTotals and ReverseMuhash take them    *)
(* back.  The second half is the invariant.                                *)
(***************************************************************************)
EXTENDS StatsIndex, BlockTree_proofs

-----------------------------------------------------------------------------
(* Outputs and coins. *)

\* The chain of a block without the genesis block, one block at a time.
LEMMA ChainStep ==
  ASSUME NEW b \in Blocks \ {Genesis}
  PROVE  /\ Parent[b] \in Blocks /\ b \notin Chain(Parent[b]) /\ Chain(Parent[b]) \subseteq Blocks
         /\ Chain(b) = Chain(Parent[b]) \cup {b} /\ Path[b] = Path[Parent[b]] \cup {b}
         /\ b \notin Path[Parent[b]] /\ Height[b] = Height[Parent[b]] + 1
<1>1. Parent[b] \in Blocks /\ Path[b] = Path[Parent[b]] \cup {b}
      /\ Height[b] = Height[Parent[b]] + 1
  BY TreeAssumption
<1>2. b \notin Path[Parent[b]]
  <2> SUFFICES ASSUME b \in Path[Parent[b]]
               PROVE  FALSE
    OBVIOUS
  <2>1. b # Parent[b] => Height[b] < Height[Parent[b]]
    BY <1>1, OrderOnChain
  <2>2. Height[Parent[b]] \in Nat
    BY <1>1, TreeAssumption
  <2> QED BY <1>1, <2>1, <2>2
<1> QED BY <1>1, <1>2, ChainFacts DEF Chain

\* What a chain makes and spends, one block at a time.
LEMMA MadeStep ==
  ASSUME NEW b \in Blocks \ {Genesis}
  PROVE  /\ Made(b) = Made(Parent[b]) \cup AllOuts(b)
         /\ MadeByOthers(b) = MadeByOthers(Parent[b]) \cup OtherOuts(b)
         /\ MadeByCoinbases(b) = MadeByCoinbases(Parent[b]) \cup CoinbaseOuts(b)
         /\ Spent(b) = Spent(Parent[b]) \cup Prevouts(b)
         /\ UNION {NewCoins(a) : a \in Chain(b)}
              = (UNION {NewCoins(a) : a \in Chain(Parent[b])}) \cup NewCoins(b)
BY ChainStep DEF Made, MadeByOthers, MadeByCoinbases, Spent

\* A chain spends only what it made, what can be spent, and everything is an output of one kind.
LEMMA Ledger ==
  ASSUME NEW b \in Blocks
  PROVE  /\ Spent(b) \subseteq Made(b) \ Unspendable /\ Made(b) \subseteq Outs
         /\ Made(b) = MadeByOthers(b) \cup MadeByCoinbases(b)
         /\ MadeByOthers(b) \cap MadeByCoinbases(b) = {}
<1> DEFINE Balanced(x) == /\ Spent(x) \subseteq Made(x) \ Unspendable
                          /\ MadeByOthers(x) \cap MadeByCoinbases(x) = {}
           Good == {x \in Blocks : Balanced(x)}
<1>1. Made(b) = MadeByOthers(b) \cup MadeByCoinbases(b)
  BY DEF Made, MadeByOthers, MadeByCoinbases, AllOuts
<1>2. Made(b) \subseteq Outs
  BY ChainFacts, AmountsAssumption DEF Made, Chain
<1>3. Genesis \in Good
  <2>1. Chain(Genesis) = {}
    BY TreeAssumption DEF Chain
  <2> QED BY <2>1, TreeAssumption DEF Spent, MadeByOthers
<1>4. ASSUME NEW x \in Blocks \ {Genesis}, Parent[x] \in Good
      PROVE  x \in Good
  <2> DEFINE p == Parent[x]
  <2>1. Prevouts(x) \subseteq Made(x) \ Unspendable /\ CoinbaseOuts(x) \cap OtherOuts(x) = {}
        /\ \A a \in Path[p] : AllOuts(a) \cap AllOuts(x) = {}
    BY ChainsAssumption
  <2>2. Spent(x) \subseteq Made(x) \ Unspendable
    BY <1>4, <2>1, MadeStep
  <2>3. Made(p) \cap AllOuts(x) = {}
    BY <2>1 DEF Made, Chain
  <2>4. MadeByOthers(p) \subseteq Made(p) /\ MadeByCoinbases(p) \subseteq Made(p)
    BY DEF Made, MadeByOthers, MadeByCoinbases, AllOuts
  <2>5. OtherOuts(x) \subseteq AllOuts(x) /\ CoinbaseOuts(x) \subseteq AllOuts(x)
    BY DEF AllOuts
  <2>6. MadeByOthers(p) \cap MadeByCoinbases(p) = {}
    BY <1>4
  <2>7. MadeByOthers(x) \cap MadeByCoinbases(x) = {}
    BY <2>1, <2>3, <2>4, <2>5, <2>6, MadeStep
  <2> QED BY <2>2, <2>7
<1>5. Blocks \subseteq Good
  <2> HIDE DEF Good
  <2> QED BY <1>3, <1>4, TreeInduction
<1> QED BY <1>1, <1>2, <1>5

\* What a block does to the coins: they are those before, those made, and not those spent.
LEMMA CoinsStep ==
  ASSUME NEW b \in Blocks \ {Genesis}
  PROVE  /\ CoinsAfter(b) \cup Prevouts(b) = CoinsAfter(Parent[b]) \cup (AllOuts(b) \ Unspendable)
         /\ CoinsAfter(b) \cap Prevouts(b) = {} /\ Made(Parent[b]) \cap AllOuts(b) = {}
         /\ Spent(Parent[b]) \cap Prevouts(b) = {} /\ Prevouts(b) \subseteq Made(b) \ Unspendable
<1> DEFINE p == Parent[b]
<1>1. /\ Prevouts(b) \subseteq Made(b) \ Unspendable
      /\ \A a \in Path[p] : Prevouts(a) \cap Prevouts(b) = {} /\ AllOuts(a) \cap AllOuts(b) = {}
  BY ChainsAssumption
<1>2. Made(p) \cap AllOuts(b) = {} /\ Spent(p) \cap Prevouts(b) = {}
  BY <1>1 DEF Made, Spent, Chain
<1>3. Spent(p) \subseteq Made(p)
  BY ChainStep, Ledger
<1>4. Made(b) = Made(p) \cup AllOuts(b) /\ Spent(b) = Spent(p) \cup Prevouts(b)
  BY MadeStep
<1> HIDE DEF p
<1>5. CoinsAfter(b) \cup Prevouts(b) = CoinsAfter(p) \cup (AllOuts(b) \ Unspendable)
  BY <1>1, <1>2, <1>3, <1>4 DEF CoinsAfter
<1>6. CoinsAfter(b) \cap Prevouts(b) = {}
  BY <1>4 DEF CoinsAfter
<1> QED BY <1>1, <1>2, <1>5, <1>6 DEF p

\* Sums over outputs.
LEMMA OutsSum ==
  /\ \A S \in SUBSET Outs : IsFiniteSet(S) /\ SumOf(S) \in Int /\ Cardinality(S) \in Int
  /\ SumOf({}) = 0 /\ Cardinality({}) = 0
  /\ \A S, T \in SUBSET Outs : S \cap T = {} =>
       SumOf(S \cup T) = SumOf(S) + SumOf(T)
       /\ Cardinality(S \cup T) = Cardinality(S) + Cardinality(T)
<1>1. ASSUME NEW S \in SUBSET Outs
      PROVE  IsFiniteSet(S) /\ (\A x \in S : Value[x] \in Int) /\ Cardinality(S) \in Int
  BY AmountsAssumption, FS_Subset, FS_CardinalityType
<1>2. \A S \in SUBSET Outs : SumOf(S) \in Int
  BY <1>1, SumOut DEF SumOf
<1>3. SumOf({}) = 0 /\ Cardinality({}) = 0
  BY <1>1, SumOut, FS_EmptySet DEF SumOf
<1>4. ASSUME NEW S \in SUBSET Outs, NEW T \in SUBSET Outs, S \cap T = {}
      PROVE  SumOf(S \cup T) = SumOf(S) + SumOf(T)
             /\ Cardinality(S \cup T) = Cardinality(S) + Cardinality(T)
  <2>1. \A x \in S \cup T : Value[x] \in Int
    BY <1>1
  <2>2. SumOf(S \cup T) = SumOf(S) + SumOf(T)
    BY <1>1, <1>4, <2>1, SumUnion DEF SumOf
  <2>3. Cardinality(S \cup T) = Cardinality(S) + Cardinality(T) - Cardinality(S \cap T)
    BY <1>1, FS_Union
  <2>4. Cardinality(S) \in Int /\ Cardinality(T) \in Int /\ Cardinality(S \cap T) = 0
    BY <1>1, <1>3, <1>4
  <2>5. Cardinality(S \cup T) = Cardinality(S) + Cardinality(T)
    BY <2>3, <2>4
  <2> QED BY <2>2, <2>5
<1> QED BY <1>1, <1>2, <1>3, <1>4

-----------------------------------------------------------------------------
(* The totals. *)

Paid(b) == SumFunctionOnSet([a \in Blocks |-> Subsidy[Height[a]]], Path[b])
Scripts(b) == SumOf(Made(b) \cap Unspendable)
Lost(b) == Paid(b) - SumOf(CoinsAfter(b))

\* The totals after a block, one by one.
LEMMA TotalsAre ==
  ASSUME NEW b \in Blocks
  PROVE  LET t == StatsAfter[b].totals IN
           /\ t = [f \in Fields |-> t[f]]
           /\ t["outputCount"] = Cardinality(CoinsAfter(b)) /\ t["amount"] = SumOf(CoinsAfter(b))
           /\ t["subsidy"] = Paid(b) /\ t["unspendable"] = Lost(b)
           /\ t["prevoutSpent"] = SumOf(Spent(b))
           /\ t["newOutputs"] = SumOf(MadeByOthers(b) \ Unspendable)
           /\ t["coinbase"] = SumOf(MadeByCoinbases(b) \ Unspendable)
           /\ t["genesisBlock"] = Subsidy[0] /\ t["scripts"] = Scripts(b)
           /\ t["unclaimed"] = Lost(b) - Scripts(b) - Subsidy[0]
BY DEF StatsAfter, Entry, NoTotals, Fields, Paid, Scripts, Lost

\* What the totals of a block are, one by one.
LEMMA BlockTotalsAre ==
  ASSUME NEW b \in Blocks
  PROVE  LET t == BlockTotals[b] IN
           /\ t = [f \in Fields |-> t[f]]
           /\ t["outputCount"] = Cardinality(AllOuts(b) \ Unspendable) - Cardinality(Prevouts(b))
           /\ t["amount"] = SumOf(AllOuts(b) \ Unspendable) - SumOf(Prevouts(b))
           /\ t["subsidy"] = Subsidy[Height[b]]
           /\ t["unspendable"] = SumOf(AllOuts(b) \cap Unspendable)
           /\ t["scripts"] = SumOf(AllOuts(b) \cap Unspendable)
           /\ t["prevoutSpent"] = SumOf(Prevouts(b))
           /\ t["newOutputs"] = SumOf(OtherOuts(b) \ Unspendable)
           /\ t["coinbase"] = SumOf(CoinbaseOuts(b) \ Unspendable)
           /\ t["genesisBlock"] = 0 /\ t["unclaimed"] = 0
BY DEF BlockTotals, NoTotals, Fields

\* The subsidies of a chain, and the balance of what it makes, spends and leaves.
LEMMA PaidIs ==
  /\ \A b \in Blocks : Paid(b) \in Int
  /\ Paid(Genesis) = Subsidy[0] /\ Subsidy[0] \in Int
  /\ \A b \in Blocks \ {Genesis} : Paid(b) = Paid(Parent[b]) + Subsidy[Height[b]]
<1> DEFINE v == [a \in Blocks |-> Subsidy[Height[a]]]
<1>1. \A b \in Blocks : v[b] = Subsidy[Height[b]] /\ v[b] \in Int
  BY AmountsAssumption DEF Heights
<1>2. Subsidy[0] = v[Genesis] /\ Subsidy[0] \in Int
  BY <1>1, TreeAssumption
<1> HIDE DEF v
<1>3. ASSUME NEW b \in Blocks
      PROVE  /\ IsFiniteSet(Path[b]) /\ (\A x \in Path[b] : v[x] \in Int) /\ b \in Path[b]
             /\ SumFunctionOnSet(v, Path[b]) \in Int
             /\ SumFunctionOnSet(v, Path[b]) = v[b] + SumFunctionOnSet(v, Path[b] \ {b})
  <2>1. IsFiniteSet(Path[b]) /\ (\A x \in Path[b] : v[x] \in Int) /\ b \in Path[b]
    BY <1>1, ChainFacts, TreeAssumption, FS_Subset
  <2> QED BY <2>1, SumOut
<1>4. Path[Genesis] \ {Genesis} = {} /\ SumFunctionOnSet(v, {}) = 0
  BY TreeAssumption, SumOut, FS_EmptySet
<1>5. SumFunctionOnSet(v, Path[Genesis]) = v[Genesis]
  <2>1. SumFunctionOnSet(v, Path[Genesis])
          = v[Genesis] + SumFunctionOnSet(v, Path[Genesis] \ {Genesis})
    BY <1>3, TreeAssumption
  <2>2. v[Genesis] \in Int
    BY <1>1, TreeAssumption
  <2> QED BY <1>4, <2>1, <2>2
<1>6. ASSUME NEW b \in Blocks \ {Genesis}
      PROVE  SumFunctionOnSet(v, Path[b]) = SumFunctionOnSet(v, Path[Parent[b]]) + v[b]
  <2>1. Path[b] \ {b} = Path[Parent[b]] /\ Parent[b] \in Blocks
    BY ChainStep
  <2>2. SumFunctionOnSet(v, Path[b]) = v[b] + SumFunctionOnSet(v, Path[Parent[b]])
    BY <1>3, <2>1
  <2>3. v[b] \in Int /\ SumFunctionOnSet(v, Path[Parent[b]]) \in Int
    BY <1>1, <1>3, <2>1
  <2> QED BY <2>2, <2>3
<1>7. \A b : Paid(b) = SumFunctionOnSet(v, Path[b])
  BY DEF Paid, v
<1> HIDE DEF Paid
<1> QED BY <1>1, <1>2, <1>3, <1>5, <1>6, <1>7

\* What a chain leaves is what it made less what it spent.
LEMMA Balance ==
  ASSUME NEW b \in Blocks
  PROVE  SumOf(MadeByOthers(b) \ Unspendable) + SumOf(MadeByCoinbases(b) \ Unspendable)
           = SumOf(CoinsAfter(b)) + SumOf(Spent(b))
<1> DEFINE o == MadeByOthers(b) \ Unspendable
           c == MadeByCoinbases(b) \ Unspendable
<1>1. o \cup c = CoinsAfter(b) \cup Spent(b) /\ o \cap c = {} /\ CoinsAfter(b) \cap Spent(b) = {}
  BY Ledger DEF CoinsAfter
<1>2. /\ o \in SUBSET Outs /\ c \in SUBSET Outs
      /\ CoinsAfter(b) \in SUBSET Outs /\ Spent(b) \in SUBSET Outs
  BY Ledger DEF CoinsAfter
<1> HIDE DEF o, c
<1>3. SumOf(o \cup c) = SumOf(o) + SumOf(c)
  BY <1>1, <1>2, OutsSum
<1>4. SumOf(CoinsAfter(b) \cup Spent(b)) = SumOf(CoinsAfter(b)) + SumOf(Spent(b))
  BY <1>1, <1>2, OutsSum
<1> QED BY <1>1, <1>3, <1>4 DEF o, c

\* How the sums grow by one block.
LEMMA SumsStep ==
  ASSUME NEW b \in Blocks \ {Genesis}
  PROVE  LET p == Parent[b] IN
         /\ SumOf(CoinsAfter(b))
              = SumOf(CoinsAfter(p)) + SumOf(AllOuts(b) \ Unspendable) - SumOf(Prevouts(b))
         /\ Cardinality(CoinsAfter(b))
              = Cardinality(CoinsAfter(p))
                + Cardinality(AllOuts(b) \ Unspendable) - Cardinality(Prevouts(b))
         /\ SumOf(Spent(b)) = SumOf(Spent(p)) + SumOf(Prevouts(b))
         /\ SumOf(MadeByOthers(b) \ Unspendable)
              = SumOf(MadeByOthers(p) \ Unspendable) + SumOf(OtherOuts(b) \ Unspendable)
         /\ SumOf(MadeByCoinbases(b) \ Unspendable)
              = SumOf(MadeByCoinbases(p) \ Unspendable) + SumOf(CoinbaseOuts(b) \ Unspendable)
         /\ Scripts(b) = Scripts(p) + SumOf(AllOuts(b) \cap Unspendable)
<1> DEFINE p == Parent[b]
           Add(A, B, C) == /\ A \cup B = C /\ A \cap B = {}
                           /\ A \in SUBSET Outs /\ B \in SUBSET Outs /\ C \in SUBSET Outs
<1>1. \A A, B, C : Add(A, B, C) =>
        /\ SumOf(C) = SumOf(A) + SumOf(B) /\ SumOf(A) \in Int /\ SumOf(B) \in Int
        /\ Cardinality(C) = Cardinality(A) + Cardinality(B)
        /\ Cardinality(A) \in Int /\ Cardinality(B) \in Int
  BY OutsSum
<1>2. /\ b \in Blocks /\ p \in Blocks /\ Prevouts(b) \subseteq Outs /\ AllOuts(b) \subseteq Outs
      /\ Made(p) \subseteq Outs /\ Made(b) \subseteq Outs /\ Spent(p) \subseteq Outs
      /\ OtherOuts(b) \subseteq AllOuts(b) /\ CoinbaseOuts(b) \subseteq AllOuts(b)
      /\ MadeByOthers(p) \subseteq Made(p) /\ MadeByCoinbases(p) \subseteq Made(p)
      /\ CoinsAfter(p) \subseteq Made(p) /\ CoinsAfter(b) \subseteq Made(b)
  BY ChainStep, Ledger, AmountsAssumption DEF AllOuts, CoinsAfter
<1> DEFINE left == CoinsAfter(p)
           new == AllOuts(b) \ Unspendable
           all == left \cup new
<1> HIDE DEF p
<1>3. Add(left, new, all)
  BY <1>2, CoinsStep DEF p
<1>4. Add(CoinsAfter(b), Prevouts(b), all)
  BY <1>2, CoinsStep DEF p
<1>5. Add(Spent(p), Prevouts(b), Spent(b))
  BY <1>2, CoinsStep, MadeStep DEF p
<1>6. Add(MadeByOthers(p) \ Unspendable, OtherOuts(b) \ Unspendable, MadeByOthers(b) \ Unspendable)
  BY <1>2, CoinsStep, MadeStep DEF p
<1>7. Add(MadeByCoinbases(p) \ Unspendable, CoinbaseOuts(b) \ Unspendable, MadeByCoinbases(b) \ Unspendable)
  BY <1>2, CoinsStep, MadeStep DEF p
<1>8. Add(Made(p) \cap Unspendable, AllOuts(b) \cap Unspendable, Made(b) \cap Unspendable)
  BY <1>2, CoinsStep, MadeStep DEF p
<1> HIDE DEF Add, left, new, all
<1>9. /\ SumOf(CoinsAfter(b)) = SumOf(left) + SumOf(new) - SumOf(Prevouts(b))
      /\ Cardinality(CoinsAfter(b))
           = Cardinality(left) + Cardinality(new) - Cardinality(Prevouts(b))
  <2>1. /\ SumOf(all) = SumOf(left) + SumOf(new) /\ SumOf(left) \in Int /\ SumOf(new) \in Int
        /\ Cardinality(all) = Cardinality(left) + Cardinality(new)
        /\ Cardinality(left) \in Int /\ Cardinality(new) \in Int
    BY <1>1, <1>3
  <2>2. /\ SumOf(all) = SumOf(CoinsAfter(b)) + SumOf(Prevouts(b))
        /\ Cardinality(all) = Cardinality(CoinsAfter(b)) + Cardinality(Prevouts(b))
        /\ SumOf(CoinsAfter(b)) \in Int /\ SumOf(Prevouts(b)) \in Int
        /\ Cardinality(CoinsAfter(b)) \in Int /\ Cardinality(Prevouts(b)) \in Int
    BY <1>1, <1>4
  <2>3. ASSUME NEW i \in Int, NEW j \in Int, NEW k \in Int, NEW l \in Int, i + j = k + l
        PROVE  k = i + j - l
    BY <2>3
  <2>4. SumOf(left) + SumOf(new) = SumOf(CoinsAfter(b)) + SumOf(Prevouts(b))
    BY <2>1, <2>2
  <2>5. Cardinality(left) + Cardinality(new)
          = Cardinality(CoinsAfter(b)) + Cardinality(Prevouts(b))
    BY <2>1, <2>2
  <2>6. SumOf(CoinsAfter(b)) = SumOf(left) + SumOf(new) - SumOf(Prevouts(b))
    BY <2>1, <2>2, <2>3, <2>4
  <2>7. Cardinality(CoinsAfter(b))
          = Cardinality(left) + Cardinality(new) - Cardinality(Prevouts(b))
    <3>1. PICK i \in Int : i = Cardinality(left)
      BY <2>1
    <3>2. PICK j \in Int : j = Cardinality(new)
      BY <2>1
    <3>3. PICK k \in Int : k = Cardinality(CoinsAfter(b))
      BY <2>2
    <3>4. PICK l \in Int : l = Cardinality(Prevouts(b))
      BY <2>2
    <3>5. i + j = k + l
      BY <2>5, <3>1, <3>2, <3>3, <3>4
    <3>6. k = i + j - l
      BY <3>5
    <3> QED BY <3>1, <3>2, <3>3, <3>4, <3>6
  <2> QED BY <2>6, <2>7
<1>10. SumOf(Spent(b)) = SumOf(Spent(p)) + SumOf(Prevouts(b))
  BY <1>1, <1>5
<1>11. SumOf(MadeByOthers(b) \ Unspendable)
        = SumOf(MadeByOthers(p) \ Unspendable) + SumOf(OtherOuts(b) \ Unspendable)
  BY <1>1, <1>6
<1>12. SumOf(MadeByCoinbases(b) \ Unspendable)
        = SumOf(MadeByCoinbases(p) \ Unspendable) + SumOf(CoinbaseOuts(b) \ Unspendable)
  BY <1>1, <1>7
<1>13. Scripts(b) = Scripts(p) + SumOf(AllOuts(b) \cap Unspendable)
  BY <1>1, <1>8 DEF Scripts
<1> QED BY <1>9, <1>10, <1>11, <1>12, <1>13 DEF p, left, new

-----------------------------------------------------------------------------
(* Appending and reversing a block. *)

\* All of them are integers.
LEMMA TotalsAreInts ==
  ASSUME NEW b \in Blocks
  PROVE  /\ Paid(b) \in Int /\ Lost(b) \in Int /\ Scripts(b) \in Int /\ Subsidy[0] \in Int
         /\ SumOf(CoinsAfter(b)) \in Int /\ Cardinality(CoinsAfter(b)) \in Int
         /\ SumOf(Spent(b)) \in Int
         /\ SumOf(MadeByOthers(b) \ Unspendable) \in Int
         /\ SumOf(MadeByCoinbases(b) \ Unspendable) \in Int
         /\ StatsAfter[b].totals \in [Fields -> Int]
         /\ \A f \in Fields : BlockTotals[b][f] \in Int
<1>1. /\ CoinsAfter(b) \in SUBSET Outs /\ Spent(b) \in SUBSET Outs
      /\ Made(b) \cap Unspendable \in SUBSET Outs
      /\ MadeByOthers(b) \ Unspendable \in SUBSET Outs
      /\ MadeByCoinbases(b) \ Unspendable \in SUBSET Outs
      /\ AllOuts(b) \ Unspendable \in SUBSET Outs /\ Prevouts(b) \in SUBSET Outs
      /\ AllOuts(b) \cap Unspendable \in SUBSET Outs
      /\ OtherOuts(b) \ Unspendable \in SUBSET Outs
      /\ CoinbaseOuts(b) \ Unspendable \in SUBSET Outs
  BY Ledger, AmountsAssumption DEF CoinsAfter, AllOuts
<1>2. /\ SumOf(CoinsAfter(b)) \in Int /\ Cardinality(CoinsAfter(b)) \in Int
      /\ SumOf(Spent(b)) \in Int
      /\ SumOf(MadeByOthers(b) \ Unspendable) \in Int
      /\ SumOf(MadeByCoinbases(b) \ Unspendable) \in Int
      /\ Scripts(b) \in Int
  BY <1>1, OutsSum DEF Scripts
<1>3. Paid(b) \in Int /\ Subsidy[0] \in Int
  BY PaidIs
<1>4. Lost(b) \in Int
  BY <1>2, <1>3 DEF Lost
<1>5. \A f \in Fields : StatsAfter[b].totals[f] \in Int
  <2>1. Lost(b) - Scripts(b) - Subsidy[0] \in Int
    BY <1>2, <1>3, <1>4
  <2> QED BY <1>2, <1>3, <1>4, <2>1, TotalsAre DEF Fields
<1>6. \A f \in Fields : BlockTotals[b][f] \in Int
  <2>1. /\ SumOf(AllOuts(b) \ Unspendable) \in Int
        /\ Cardinality(AllOuts(b) \ Unspendable) \in Int
        /\ SumOf(Prevouts(b)) \in Int /\ Cardinality(Prevouts(b)) \in Int
        /\ SumOf(AllOuts(b) \cap Unspendable) \in Int
        /\ SumOf(OtherOuts(b) \ Unspendable) \in Int
        /\ SumOf(CoinbaseOuts(b) \ Unspendable) \in Int
    BY <1>1, OutsSum
  <2>2. /\ SumOf(AllOuts(b) \ Unspendable) - SumOf(Prevouts(b)) \in Int
        /\ Subsidy[Height[b]] \in Int
    BY <2>1, AmountsAssumption DEF Heights
  <2>3. Cardinality(AllOuts(b) \ Unspendable) - Cardinality(Prevouts(b)) \in Int
    <3>1. PICK i \in Int : i = Cardinality(AllOuts(b) \ Unspendable)
      BY <2>1
    <3>2. PICK j \in Int : j = Cardinality(Prevouts(b))
      BY <2>1
    <3>3. i - j \in Int
      OBVIOUS
    <3> QED BY <3>1, <3>2, <3>3
  <2>4. /\ BlockTotals[b]["outputCount"] \in Int /\ BlockTotals[b]["amount"] \in Int
        /\ BlockTotals[b]["subsidy"] \in Int
    BY <2>2, <2>3, BlockTotalsAre
  <2>5. /\ BlockTotals[b]["unspendable"] \in Int /\ BlockTotals[b]["scripts"] \in Int
        /\ BlockTotals[b]["prevoutSpent"] \in Int /\ BlockTotals[b]["newOutputs"] \in Int
        /\ BlockTotals[b]["coinbase"] \in Int
    BY <2>1, BlockTotalsAre
  <2>6. BlockTotals[b]["genesisBlock"] = 0 /\ BlockTotals[b]["unclaimed"] = 0
    BY BlockTotalsAre
  <2> QED BY <2>4, <2>5, <2>6 DEF Fields
<1> QED BY <1>2, <1>3, <1>4, <1>5, <1>6, TotalsAre

\* Every total of a block's parent and of the block add up to that of the block, except for
\* what is lost and unclaimed.
LEMMA TotalsStep ==
  ASSUME NEW b \in Blocks \ {Genesis}, NEW f \in Fields \ {"unspendable", "unclaimed"}
  PROVE  StatsAfter[b].totals[f] = StatsAfter[Parent[b]].totals[f] + BlockTotals[b][f]
<1>1. b \in Blocks /\ Parent[b] \in Blocks
  BY ChainStep
<1>2. CASE f = "outputCount"
  <2>1. Cardinality(CoinsAfter(b)) = Cardinality(CoinsAfter(Parent[b]))
          + (Cardinality(AllOuts(b) \ Unspendable) - Cardinality(Prevouts(b)))
    <3>1. PICK i \in Int : i = Cardinality(CoinsAfter(Parent[b]))
      BY <1>1, TotalsAreInts
    <3>2. PICK j \in Int : j = Cardinality(AllOuts(b) \ Unspendable)
      BY <1>1, OutsSum, AmountsAssumption
    <3>3. PICK k \in Int : k = Cardinality(Prevouts(b))
      BY <1>1, OutsSum, AmountsAssumption
    <3>4. i + (j - k) = (i + j) - k
      OBVIOUS
    <3> QED BY <3>1, <3>2, <3>3, <3>4, SumsStep
  <2> QED BY <1>1, <1>2, <2>1, TotalsAre, BlockTotalsAre
<1>3. CASE f = "amount"
  <2>1. /\ SumOf(CoinsAfter(Parent[b])) \in Int /\ SumOf(AllOuts(b) \ Unspendable) \in Int
        /\ SumOf(Prevouts(b)) \in Int
    BY <1>1, TotalsAreInts, OutsSum, AmountsAssumption
  <2>2. SumOf(CoinsAfter(b)) = SumOf(CoinsAfter(Parent[b]))
          + (SumOf(AllOuts(b) \ Unspendable) - SumOf(Prevouts(b)))
    BY <2>1, SumsStep
  <2> QED BY <1>1, <1>3, <2>2, TotalsAre, BlockTotalsAre
<1>4. CASE f = "subsidy"
  BY <1>1, <1>4, PaidIs, TotalsAre, BlockTotalsAre
<1>5. CASE f \in {"prevoutSpent", "newOutputs", "coinbase", "scripts"}
  <2>1. CASE f = "prevoutSpent"
    BY <1>1, <2>1, SumsStep, TotalsAre, BlockTotalsAre
  <2>2. CASE f = "newOutputs"
    BY <1>1, <2>2, SumsStep, TotalsAre, BlockTotalsAre
  <2>3. CASE f = "coinbase"
    BY <1>1, <2>3, SumsStep, TotalsAre, BlockTotalsAre
  <2>4. CASE f = "scripts"
    BY <1>1, <2>4, SumsStep, TotalsAre, BlockTotalsAre
  <2> QED BY <1>5, <2>1, <2>2, <2>3, <2>4
<1>6. CASE f = "genesisBlock"
  <2>1. Subsidy[0] = Subsidy[0] + 0
    BY PaidIs
  <2> QED BY <1>1, <1>6, <2>1, TotalsAre, BlockTotalsAre
<1> QED BY <1>2, <1>3, <1>4, <1>5, <1>6 DEF Fields

\* CustomAppend on the totals: what is lost is what the totals lack to balance.
LEMMA TotalsAppend ==
  ASSUME NEW b \in Blocks \ {Genesis}
  PROVE  AppendTotals(StatsAfter[Parent[b]].totals, b) = StatsAfter[b].totals
<1> DEFINE t == StatsAfter[Parent[b]].totals
           s == StatsAfter[b].totals
           d == BlockTotals[b]
           added == Plus(t, d)
<1>1. b \in Blocks /\ Parent[b] \in Blocks
  BY ChainStep
<1>2. /\ \A f \in Fields : t[f] \in Int /\ s[f] \in Int /\ d[f] \in Int
      /\ s = [f \in Fields |-> s[f]]
      /\ \A f \in Fields \ {"unspendable", "unclaimed"} : s[f] = t[f] + d[f]
  BY <1>1, TotalsAreInts, TotalsAre, TotalsStep
<1>3. /\ t["unspendable"] = t["subsidy"] - t["amount"]
      /\ t["unclaimed"] = t["unspendable"] - t["scripts"] - Subsidy[0]
      /\ s["unspendable"] = s["subsidy"] - s["amount"]
      /\ s["unclaimed"] = s["unspendable"] - s["scripts"] - Subsidy[0]
      /\ s["newOutputs"] + s["coinbase"] = s["amount"] + s["prevoutSpent"]
      /\ d["unspendable"] = d["scripts"] /\ d["unclaimed"] = 0 /\ Subsidy[0] \in Int
  BY <1>1, TotalsAre, Balance, BlockTotalsAre, TotalsAreInts DEF Lost
<1> HIDE DEF t, s, d
<1>4. /\ \A f \in Fields : added[f] = t[f] + d[f]
      /\ \A f \in Fields \ {"unspendable", "unclaimed"} : added[f] = s[f]
  BY <1>2 DEF Plus
<1> DEFINE u == Unclaimed(added)
<1>5. u = s["subsidy"] - s["amount"] - t["unspendable"] - d["unspendable"]
  <2>1. /\ added.prevoutSpent = s["prevoutSpent"] /\ added.subsidy = s["subsidy"]
        /\ added.newOutputs = s["newOutputs"] /\ added.coinbase = s["coinbase"]
        /\ added.unspendable = t["unspendable"] + d["unspendable"]
    BY <1>4 DEF Fields
  <2>2. /\ s["prevoutSpent"] \in Int /\ s["subsidy"] \in Int /\ s["newOutputs"] \in Int
        /\ s["coinbase"] \in Int /\ s["amount"] \in Int
        /\ t["unspendable"] \in Int /\ d["unspendable"] \in Int
    BY <1>2 DEF Fields
  <2>3. u = (s["prevoutSpent"] + s["subsidy"])
             - (s["newOutputs"] + s["coinbase"] + (t["unspendable"] + d["unspendable"]))
    BY <2>1 DEF Unclaimed
  <2> QED BY <1>3, <2>2, <2>3
<1>6. /\ s["subsidy"] \in Int /\ s["amount"] \in Int /\ t["unspendable"] \in Int
      /\ d["unspendable"] \in Int
      /\ t["scripts"] \in Int /\ s["scripts"] \in Int /\ d["scripts"] \in Int
      /\ s["scripts"] = t["scripts"] + d["scripts"]
  BY <1>2 DEF Fields
<1> HIDE DEF u
<1>7. added["unspendable"] + u = s["unspendable"]
  <2>1. added["unspendable"] = t["unspendable"] + d["unspendable"]
    BY <1>4 DEF Fields
  <2> QED BY <1>3, <1>5, <1>6, <2>1
<1>8. added["unclaimed"] + u = s["unclaimed"]
  <2>1. added["unclaimed"] = t["unclaimed"] + d["unclaimed"]
    BY <1>4 DEF Fields
  <2> QED BY <1>3, <1>5, <1>6, <2>1
<1>9. AddUnclaimed(added, u) = s
  BY <1>2, <1>4, <1>7, <1>8 DEF AddUnclaimed, Plus, Fields
<1> QED BY <1>9 DEF AppendTotals, s, t, d, u

\* ReverseBlock on the totals.
LEMMA TotalsReverse ==
  ASSUME NEW b \in Blocks \ {Genesis}
  PROVE  ReverseTotals(StatsAfter[b].totals, b) = StatsAfter[Parent[b]].totals
<1> DEFINE t == StatsAfter[Parent[b]].totals
           s == StatsAfter[b].totals
           d == BlockTotals[b]
           removed == Minus(s, d)
<1>1. b \in Blocks /\ Parent[b] \in Blocks
  BY ChainStep
<1>2. /\ \A f \in Fields : t[f] \in Int /\ s[f] \in Int /\ d[f] \in Int
      /\ t = [f \in Fields |-> t[f]]
      /\ \A f \in Fields \ {"unspendable", "unclaimed"} : s[f] = t[f] + d[f]
  BY <1>1, TotalsAreInts, TotalsAre, TotalsStep
<1>3. /\ t["unspendable"] = t["subsidy"] - t["amount"]
      /\ t["unclaimed"] = t["unspendable"] - t["scripts"] - Subsidy[0]
      /\ s["unspendable"] = s["subsidy"] - s["amount"]
      /\ s["unclaimed"] = s["unspendable"] - s["scripts"] - Subsidy[0]
      /\ t["newOutputs"] + t["coinbase"] = t["amount"] + t["prevoutSpent"]
      /\ d["unspendable"] = d["scripts"] /\ d["unclaimed"] = 0 /\ Subsidy[0] \in Int
  BY <1>1, TotalsAre, Balance, BlockTotalsAre, TotalsAreInts DEF Lost
<1> HIDE DEF t, s, d
<1>4. /\ \A f \in Fields : removed[f] = s[f] - d[f]
      /\ \A f \in Fields \ {"unspendable", "unclaimed"} : removed[f] = t[f]
  BY <1>2 DEF Minus
<1> DEFINE u == Unclaimed(removed)
<1>5. u = t["subsidy"] - t["amount"] - (s["unspendable"] - d["unspendable"])
  <2>1. /\ removed.prevoutSpent = t["prevoutSpent"] /\ removed.subsidy = t["subsidy"]
        /\ removed.newOutputs = t["newOutputs"] /\ removed.coinbase = t["coinbase"]
        /\ removed.unspendable = s["unspendable"] - d["unspendable"]
    BY <1>4 DEF Fields
  <2>2. /\ t["prevoutSpent"] \in Int /\ t["subsidy"] \in Int /\ t["newOutputs"] \in Int
        /\ t["coinbase"] \in Int /\ t["amount"] \in Int
        /\ s["unspendable"] \in Int /\ d["unspendable"] \in Int
    BY <1>2 DEF Fields
  <2>3. u = (t["prevoutSpent"] + t["subsidy"])
             - (t["newOutputs"] + t["coinbase"] + (s["unspendable"] - d["unspendable"]))
    BY <2>1 DEF Unclaimed
  <2> QED BY <1>3, <2>2, <2>3
<1>6. /\ t["subsidy"] \in Int /\ t["amount"] \in Int /\ s["unspendable"] \in Int
      /\ d["unspendable"] \in Int
      /\ t["scripts"] \in Int /\ s["scripts"] \in Int /\ d["scripts"] \in Int
      /\ s["scripts"] = t["scripts"] + d["scripts"]
  BY <1>2 DEF Fields
<1> HIDE DEF u
<1>7. removed["unspendable"] + u = t["unspendable"]
  <2>1. removed["unspendable"] = s["unspendable"] - d["unspendable"]
    BY <1>4 DEF Fields
  <2> QED BY <1>3, <1>5, <1>6, <2>1
<1>8. removed["unclaimed"] + u = t["unclaimed"]
  <2>1. removed["unclaimed"] = s["unclaimed"] - d["unclaimed"]
    BY <1>4 DEF Fields
  <2> QED BY <1>3, <1>5, <1>6, <2>1
<1>9. AddUnclaimed(removed, u) = t
  BY <1>2, <1>4, <1>7, <1>8 DEF AddUnclaimed, Minus, Fields
<1> QED BY <1>9 DEF ReverseTotals, s, t, d, u

\* CustomAppend of the genesis block.
LEMMA TotalsOfGenesis == AppendTotals(NoTotals, Genesis) = StatsAfter[Genesis].totals
<1> DEFINE s == StatsAfter[Genesis].totals
           added == GenesisReward(NoTotals)
           u == Unclaimed(added)
<1>1. Chain(Genesis) = {} /\ Genesis \in Blocks
  BY TreeAssumption DEF Chain
<1>2. CoinsAfter(Genesis) = {} /\ Made(Genesis) = {} /\ Spent(Genesis) = {}
      /\ MadeByOthers(Genesis) = {} /\ MadeByCoinbases(Genesis) = {}
  BY <1>1 DEF CoinsAfter, Made, Spent, MadeByOthers, MadeByCoinbases
<1>3. PICK i \in Int : i = Subsidy[0]
  BY PaidIs
<1>4. Paid(Genesis) = i /\ Lost(Genesis) = i /\ Scripts(Genesis) = 0
  <2>1. Scripts(Genesis) = 0 /\ SumOf(CoinsAfter(Genesis)) = 0
    <3>1. Made(Genesis) \cap Unspendable = {}
      BY <1>2
    <3> QED BY <1>2, <3>1, OutsSum DEF Scripts
  <2>2. Paid(Genesis) = i
    BY <1>3, PaidIs
  <2> QED BY <2>1, <2>2 DEF Lost
<1>5. SumOf(MadeByOthers(Genesis) \ Unspendable) = 0
      /\ SumOf(MadeByCoinbases(Genesis) \ Unspendable) = 0
      /\ SumOf(CoinsAfter(Genesis)) = 0 /\ Cardinality(CoinsAfter(Genesis)) = 0
      /\ SumOf(Spent(Genesis)) = 0
  <2>1. MadeByOthers(Genesis) \ Unspendable = {} /\ MadeByCoinbases(Genesis) \ Unspendable = {}
    BY <1>2
  <2> QED BY <1>2, <2>1, OutsSum
<1>6. /\ s = [f \in Fields |-> s[f]]
      /\ s["outputCount"] = 0 /\ s["amount"] = 0 /\ s["subsidy"] = i /\ s["unspendable"] = i
      /\ s["prevoutSpent"] = 0 /\ s["newOutputs"] = 0 /\ s["coinbase"] = 0
      /\ s["genesisBlock"] = i
      /\ s["scripts"] = 0
  BY <1>1, <1>3, <1>4, <1>5, TotalsAre
<1>7. s["unclaimed"] = 0
  <2>1. s["unclaimed"] = Lost(Genesis) - Scripts(Genesis) - Subsidy[0]
    BY <1>1, TotalsAre
  <2> QED BY <1>3, <1>4, <2>1
<1> HIDE DEF s
<1>8. /\ added = [f \in Fields |-> added[f]]
      /\ \A f \in Fields : added[f]
           = IF f \in {"subsidy", "unspendable", "genesisBlock"} THEN i ELSE 0
  <2>1. Subsidy[0] = i /\ 0 + i = i
    BY <1>3
  <2>2. added = [f \in Fields |-> added[f]]
    BY DEF GenesisReward, NoTotals
  <2>3. \A f \in Fields : NoTotals[f] = 0
    BY DEF NoTotals
  <2>4. NoTotals["subsidy"] = 0 /\ NoTotals["unspendable"] = 0 /\ NoTotals["genesisBlock"] = 0
    BY <2>3 DEF Fields
  <2>5. added = [NoTotals EXCEPT !.subsidy = i, !.unspendable = i, !.genesisBlock = i]
    BY <2>1, <2>4 DEF GenesisReward
  <2>6. \A f \in Fields : added[f]
          = IF f \in {"subsidy", "unspendable", "genesisBlock"} THEN i ELSE 0
    <3> HIDE DEF added
    <3> QED BY <2>5 DEF NoTotals, Fields
  <2> QED BY <2>2, <2>6
<1> HIDE DEF added
<1>9. u = 0
  BY <1>8 DEF Unclaimed, Fields
<1>10. AddUnclaimed(added, 0) = added
  <2>1. added["unspendable"] = i /\ added["unclaimed"] = 0
    BY <1>8 DEF Fields
  <2>2. added["unspendable"] + 0 = added["unspendable"]
        /\ added["unclaimed"] + 0 = added["unclaimed"]
    BY <2>1
  <2>3. AddUnclaimed(added, 0)
          = [added EXCEPT !.unspendable = added["unspendable"], !.unclaimed = added["unclaimed"]]
    BY <2>2 DEF AddUnclaimed
  <2> QED BY <1>8, <2>3
<1>11. added = s
  <2>1. \A f \in Fields : s[f] = IF f \in {"subsidy", "unspendable", "genesisBlock"} THEN i ELSE 0
    BY <1>6, <1>7 DEF Fields
  <2> QED BY <1>6, <1>8, <2>1
<1> QED BY <1>9, <1>10, <1>11 DEF AppendTotals, s, added

-----------------------------------------------------------------------------
(* The MuHash. *)

\* No two blocks of a chain create an output.
LEMMA CreatedOnce ==
  ASSUME NEW b \in Blocks, NEW a \in Path[b], NEW x \in Path[b],
  NEW o \in AllOuts(a) \cap AllOuts(x)
  PROVE  a = x
<1> DEFINE Once(y) == \A d, e \in Path[y] : AllOuts(d) \cap AllOuts(e) # {} => d = e
           Good == {y \in Blocks : Once(y)}
<1>1. Genesis \in Good
  BY TreeAssumption
<1>2. ASSUME NEW y \in Blocks \ {Genesis}, Parent[y] \in Good
      PROVE  y \in Good
  <2>1. Path[y] = Path[Parent[y]] \cup {y}
    BY ChainStep
  <2>2. \A d \in Path[Parent[y]] : AllOuts(d) \cap AllOuts(y) = {}
    BY ChainsAssumption
  <2>3. Once(Parent[y])
    BY <1>2
  <2>4. Once(y)
    <3> HIDE DEF AllOuts
    <3> QED BY <2>1, <2>2, <2>3
  <2> QED BY <2>4
<1>3. Blocks \subseteq Good
  <2> HIDE DEF Good
  <2> QED BY <1>1, <1>2, TreeInduction
<1> QED BY <1>3

\* The undo data of a block name the height of the block that created the coin.
LEMMA CreatedAtIs ==
  ASSUME NEW b \in Blocks \ {Genesis}, NEW o \in Prevouts(b)
  PROVE  \E a \in Chain(b) : o \in AllOuts(a) \ Unspendable /\ CreatedAt(b, o) = Height[a]
<1>1. PICK a \in Chain(b) : o \in AllOuts(a) \ Unspendable
  BY CoinsStep DEF Made
<1>2. a \in Path[b] /\ \A x \in Path[b] : o \in AllOuts(x) => x = a
  BY <1>1, CreatedOnce DEF Chain
<1>3. {Height[x] : x \in {y \in Path[b] : o \in AllOuts(y)}} = {Height[a]}
  BY <1>1, <1>2
<1>4. CreatedAt(b, o) = Height[a]
  BY <1>3 DEF CreatedAt
<1> QED BY <1>1, <1>4

\* What a coin of a chain is.
LEMMA CoinIs ==
  ASSUME NEW c \in Coins
  PROVE  /\ \A a : c \in NewCoins(a) <=> c[1] \in AllOuts(a) \ Unspendable /\ c[2] = Height[a]
         /\ \A a : c \in OldCoins(a) <=> c[1] \in Prevouts(a) /\ c[2] = CreatedAt(a, c[1])
         /\ \A b : c \in CoinsOf(b)
              <=> c[1] \in CoinsAfter(b) /\ \E a \in Chain(b) : c \in NewCoins(a)
<1>1. c = <<c[1], c[2]>>
  BY DEF Coins, NewCoins
<1>2. \A a : c \in NewCoins(a) <=> c[1] \in AllOuts(a) \ Unspendable /\ c[2] = Height[a]
  BY <1>1 DEF NewCoins
<1>3. \A a : c \in OldCoins(a) <=> c[1] \in Prevouts(a) /\ c[2] = CreatedAt(a, c[1])
  BY <1>1 DEF OldCoins
<1>4. \A b : c \in CoinsOf(b) <=> c[1] \in CoinsAfter(b) /\ \E a \in Chain(b) : c \in NewCoins(a)
  BY DEF CoinsOf
<1> QED BY <1>2, <1>3, <1>4

\* What a block does to the MuHash.
LEMMA MuhashStep ==
  ASSUME NEW b \in Blocks \ {Genesis}, NEW c \in Coins
  PROVE  One(c, CoinsOf(b)) = One(c, CoinsOf(Parent[b])) + BlockMuhash[b][c]
<1> DEFINE p == Parent[b]
           o == c[1]
           h == c[2]
<1>1. /\ b \in Blocks /\ p \in Blocks /\ Chain(b) = Chain(p) \cup {b}
      /\ Chain(p) \subseteq Path[b]
      /\ b \notin Chain(p) /\ b \in Path[b] /\ Chain(b) \subseteq Path[b]
  BY ChainStep DEF Chain
<1>2. BlockMuhash[b][c] = One(c, NewCoins(b)) - One(c, OldCoins(b))
  BY <1>1 DEF BlockMuhash
<1>3. \A a, x \in Path[b] : o \in AllOuts(a) /\ o \in AllOuts(x) => a = x
  BY <1>1, CreatedOnce
<1>4. o \in Prevouts(b) =>
        \E a \in Chain(b) : o \in AllOuts(a) \ Unspendable /\ CreatedAt(b, o) = Height[a]
  BY CreatedAtIs
<1>5. c \in OldCoins(b) <=> o \in Prevouts(b) /\ \E a \in Chain(b) : c \in NewCoins(a)
  BY <1>1, <1>3, <1>4, CoinIs
<1>6. /\ o \in CoinsAfter(b) \/ o \in Prevouts(b)
           <=> o \in CoinsAfter(p) \/ o \in AllOuts(b) \ Unspendable
      /\ ~(o \in CoinsAfter(b) /\ o \in Prevouts(b)) /\ ~(o \in CoinsAfter(p) /\ o \in AllOuts(b))
  BY CoinsStep DEF CoinsAfter
<1>7. (\E a \in Chain(b) : c \in NewCoins(a))
        <=> c \in NewCoins(b) \/ \E a \in Chain(p) : c \in NewCoins(a)
  BY <1>1
<1>8. c \in NewCoins(b) => o \in AllOuts(b) \ Unspendable
  BY CoinIs
<1>9. o \in AllOuts(b) => ~ \E a \in Chain(p) : c \in NewCoins(a)
  BY <1>1, <1>3, CoinIs
<1>10. c \in NewCoins(b) \/ c \in CoinsOf(p) <=> c \in OldCoins(b) \/ c \in CoinsOf(b)
  BY <1>5, <1>6, <1>7, <1>8, <1>9, CoinIs
<1>11. ~(c \in NewCoins(b) /\ c \in CoinsOf(p)) /\ ~(c \in OldCoins(b) /\ c \in CoinsOf(b))
  BY <1>5, <1>6, <1>7, <1>8, <1>9, CoinIs
<1> QED BY <1>2, <1>10, <1>11 DEF One

\* CustomAppend and ReverseBlock on the MuHash.
LEMMA MuhashAppend ==
  ASSUME NEW b \in Blocks \ {Genesis}
  PROVE  /\ AppendMuhash(StatsAfter[Parent[b]].muhash, b) = StatsAfter[b].muhash
         /\ ReverseMuhash(StatsAfter[b].muhash, b) = StatsAfter[Parent[b]].muhash
<1> DEFINE p == Parent[b]
<1>1. \A x \in Blocks : StatsAfter[x].muhash = [c \in Coins |-> One(c, CoinsOf(x))]
  BY DEF StatsAfter, Entry
<1>2. b \in Blocks /\ p \in Blocks /\ b # Genesis
  BY ChainStep
<1>3. ASSUME NEW c \in Coins
      PROVE  /\ One(c, CoinsOf(b)) = One(c, CoinsOf(p)) + BlockMuhash[b][c]
             /\ One(c, CoinsOf(p)) = One(c, CoinsOf(b)) - BlockMuhash[b][c]
  <2>1. One(c, CoinsOf(b)) = One(c, CoinsOf(p)) + BlockMuhash[b][c]
    BY MuhashStep
  <2>2. BlockMuhash[b][c] \in Int /\ One(c, CoinsOf(p)) \in Int
    BY <1>2 DEF BlockMuhash, One
  <2> QED BY <2>1, <2>2
<1>4. AppendMuhash(StatsAfter[p].muhash, b) = StatsAfter[b].muhash
  <2>1. AppendMuhash(StatsAfter[p].muhash, b) = [c \in Coins |-> One(c, CoinsOf(p)) + BlockMuhash[b][c]]
    BY <1>1, <1>2 DEF AppendMuhash
  <2> QED BY <1>1, <1>2, <1>3, <2>1
<1>5. ReverseMuhash(StatsAfter[b].muhash, b) = StatsAfter[p].muhash
  <2>1. ReverseMuhash(StatsAfter[b].muhash, b) = [c \in Coins |-> One(c, CoinsOf(b)) - BlockMuhash[b][c]]
    BY <1>1, <1>2 DEF ReverseMuhash
  <2> QED BY <1>1, <1>2, <1>3, <2>1
<1> QED BY <1>4, <1>5

\* The genesis block adds nothing to the MuHash.
LEMMA MuhashOfGenesis == AppendMuhash(NoMuhash, Genesis) = StatsAfter[Genesis].muhash
<1>1. Genesis \in Blocks /\ Chain(Genesis) = {}
  BY TreeAssumption DEF Chain
<1>2. CoinsOf(Genesis) = {}
  BY <1>1 DEF CoinsOf
<1> QED BY <1>1, <1>2 DEF AppendMuhash, NoMuhash, StatsAfter, Entry, One

-----------------------------------------------------------------------------
(* The statistics after a block: what the invariant needs to know of them. *)

StatsOf(b) == IF b = NoBlock THEN Entry(NoBlock, NoTotals, NoMuhash) ELSE StatsAfter[b]

\* They are an entry of the block.
LEMMA StatsAreEntries ==
  ASSUME NEW b \in Blocks
  PROVE  /\ StatsAfter[b] \in Entries /\ StatsAfter[b].block = b /\ StatsAfter[b] # NoEntry
         /\ Entry(b, StatsAfter[b].totals, StatsAfter[b].muhash) = StatsAfter[b]
         /\ StatsOf(b) = StatsAfter[b]
<1>1. StatsAfter[b] = Entry(b, StatsAfter[b].totals, StatsAfter[b].muhash)
  BY DEF StatsAfter, Entry
<1>2. StatsAfter[b].totals \in [Fields -> Int]
  BY TotalsAreInts
<1>3. StatsAfter[b].muhash \in [Coins -> Int]
  <2>1. StatsAfter[b].muhash = [c \in Coins |-> One(c, CoinsOf(b))]
    BY DEF StatsAfter, Entry
  <2>2. \A c : One(c, CoinsOf(b)) \in Int
    BY DEF One
  <2> QED BY <2>1, <2>2
<1>4. StatsAfter[b] \in Entries
  BY <1>1, <1>2, <1>3 DEF Entry, Entries
<1>5. StatsAfter[b].block = b
  BY DEF StatsAfter, Entry
<1>6. b # NoBlock
  BY TreeAssumption
<1> QED BY <1>1, <1>4, <1>5, <1>6, NothingAssumption DEF StatsOf

\* Appending a block to the statistics of what is before it gives those of the block.
LEMMA AppendGives ==
  ASSUME NEW b \in Blocks
  PROVE  /\ AppendTotals(StatsOf(Parent[b]).totals, b) = StatsAfter[b].totals
         /\ AppendMuhash(StatsOf(Parent[b]).muhash, b) = StatsAfter[b].muhash
<1>1. CASE b = Genesis
  BY <1>1, TotalsOfGenesis, MuhashOfGenesis, TreeAssumption DEF StatsOf, Entry
<1>2. CASE b # Genesis
  BY <1>2, ChainStep, StatsAreEntries, TotalsAppend, MuhashAppend
<1> QED BY <1>1, <1>2

-----------------------------------------------------------------------------
(* The invariant. *)

Indexed(b) == LookUpOne(b) # NoEntry
\* Entries are right, an entry by hash is only found beside one by height, and the chains up
\* to the current and to the committed block are complete.
EntriesInv ==
  /\ DOMAIN heightIndex = Heights /\ DOMAIN hashIndex = Blocks
  /\ \A h \in Heights : heightIndex[h] # NoEntry =>
       \E b \in Blocks : Height[b] = h /\ heightIndex[h] = StatsAfter[b]
  /\ \A b \in Blocks : hashIndex[b] # NoEntry =>
       hashIndex[b] = StatsAfter[b] /\ heightIndex[Height[b]] # NoEntry
  /\ \A b \in Blocks : \A a \in {best, dbBest} : a # NoBlock /\ b \in Path[a] => Indexed(b)
\* The committed MuHash is that of the committed block, which the index is never below: what
\* it overwrites is not on the chain it would restart from.
CommitInv ==
  /\ {best, dbBest} \subseteq Blocks \cup {NoBlock} /\ dbMuhash = StatsOf(dbBest).muhash
  /\ pc # "down" /\ dbBest # NoBlock => best # NoBlock /\ dbBest \in Path[best]
\* Memory holds the statistics of the block the index is at, or a rewind has come to.  The
\* blocks a rewind leaves have entries by hash.
ThreadInv ==
  /\ tip \in Blocks /\ pc \in {"idle", "reverse", "down"}
  /\ pc = "down" => best = NoBlock /\ totals = NoTotals /\ query = NoQuery
  /\ pc = "idle" => totals = StatsOf(best).totals /\ muhash = StatsOf(best).muhash
  /\ pc = "reverse" =>
       /\ best \in Blocks /\ iterTip \in Path[best] /\ rewindTo \in Path[iterTip]
       /\ totals = StatsOf(iterTip).totals /\ muhash = StatsOf(iterTip).muhash
       /\ \A b \in Path[best] \ Path[rewindTo] : hashIndex[b] # NoEntry
  /\ pc # "reverse" => rewindTo = NoBlock /\ iterTip = NoBlock
  /\ muhash \in [Coins -> Int]
\* A block that was indexed when a lookup began is on the chain of best or has an entry by
\* hash, and the latter once LookUpOne turns to it.
QueryInv ==
  query # NoQuery =>
    /\ query \in Queries
    /\ query.wasIndexed /\ query.step = "height" =>
         (best # NoBlock /\ query.block \in Path[best]) \/ hashIndex[query.block] # NoEntry
    /\ query.wasIndexed /\ query.step = "hash" => hashIndex[query.block] # NoEntry
    /\ query.step # "done" => query.answer = NoEntry
    /\ query.step = "done" =>
         /\ query.answer \in {NoEntry, StatsAfter[query.block]}
         /\ query.wasIndexed => query.answer # NoEntry

Inv == EntriesInv /\ CommitInv /\ ThreadInv /\ QueryInv

\* The block NextSyncBlock gives is the genesis block, or comes after a block of the chain
\* of best.
LEMMA NextIs ==
  ASSUME tip \in Blocks, best \in Blocks \cup {NoBlock}, NextSyncBlock # NoBlock
  PROVE  /\ NextSyncBlock \in Blocks
         /\ best = NoBlock => NextSyncBlock = Genesis
         /\ best # NoBlock => NextSyncBlock # Genesis /\ Parent[NextSyncBlock] \in Path[best]
<1>1. CASE best = NoBlock
  BY <1>1, TreeAssumption DEF NextSyncBlock
<1>2. CASE best # NoBlock
  <2>1. Fork \in Path[best] \cap Path[tip]
    BY <1>2, ForkOfChains DEF Fork
  <2>2. Fork \in Blocks /\ Fork # NoBlock
    BY <1>2, <2>1, ChainFacts, TreeAssumption
  <2>3. CASE Fork = tip
    BY <1>2, <2>3 DEF NextSyncBlock, ChainNext
  <2>4. CASE Fork # tip
    <3>1. \E n \in Path[tip] \ {Genesis} : Parent[n] = Fork
      BY <2>1, <2>4, OrderOnChain
    <3>2. \E n \in Blocks \cup {NoBlock} : n \in Path[tip] /\ Parent[n] = Fork
      BY <3>1, ChainFacts
    <3>3. ChainNext(Fork) \in Path[tip] /\ Parent[ChainNext(Fork)] = Fork
      BY <2>4, <3>2 DEF ChainNext
    <3>4. ChainNext(Fork) \in Blocks /\ ChainNext(Fork) # Genesis
      BY <2>2, <3>3, ChainFacts, TreeAssumption
    <3> QED BY <1>2, <2>1, <3>3, <3>4 DEF NextSyncBlock
  <2> QED BY <2>3, <2>4
<1> QED BY <1>1, <1>2

\* An entry is found by height or by hash, and is that of the block.
LEMMA LookUps ==
  ASSUME EntriesInv, NEW b \in Blocks
  PROVE  /\ LookUpOne(b) \in {NoEntry, StatsAfter[b]}
         /\ Indexed(b) => /\ heightIndex[Height[b]] # NoEntry /\ LookUpOne(b) = StatsAfter[b]
                          /\ heightIndex[Height[b]] = StatsAfter[b] \/ hashIndex[b] # NoEntry
         /\ hashIndex[b] # NoEntry => Indexed(b)
         /\ heightIndex[Height[b]] = StatsAfter[b] => Indexed(b)
<1>1. /\ Height[b] \in Heights /\ StatsAfter[b] # NoEntry /\ StatsAfter[b].block = b
      /\ \A a \in Blocks : StatsAfter[a] # NoEntry /\ StatsAfter[a].block = a
  BY StatsAreEntries DEF Heights
<1> QED BY <1>1 DEF EntriesInv, LookUpOne, Indexed

\* An empty index.
LEMMA InitInv == Init => Inv
<1> SUFFICES ASSUME Init
             PROVE  Inv
  OBVIOUS
<1>1. /\ Genesis \in Blocks /\ StatsOf(NoBlock).totals = NoTotals
      /\ StatsOf(NoBlock).muhash = NoMuhash
      /\ NoMuhash \in [Coins -> Int] /\ \A b \in Blocks : Height[b] \in Heights
  BY TreeAssumption DEF StatsOf, Entry, NoMuhash, Heights
<1> QED BY <1>1 DEF Init, Inv, EntriesInv, CommitInv, ThreadInv, QueryInv

-----------------------------------------------------------------------------
(* Every step keeps it. *)

\* The index does not follow the tip by itself.
LEMMA KeepsMoveTip == ASSUME Inv, NEW b \in Blocks, MoveTip(b) PROVE Inv'
BY DEF Inv, EntriesInv, CommitInv, ThreadInv, QueryInv, MoveTip, memVars, entryVars, commitVars,
       threadVars, Indexed, LookUpOne

\* Nor without a step.
LEMMA KeepsStutter == ASSUME Inv, UNCHANGED vars PROVE Inv'
BY DEF Inv, EntriesInv, CommitInv, ThreadInv, QueryInv, vars, memVars, entryVars, commitVars,
       threadVars, Indexed, LookUpOne

\* CustomCommit writes block and MuHash together.
LEMMA KeepsCustomCommit == ASSUME Inv, CustomCommit PROVE Inv'
<1>1. best \in Path[best]
  BY ChainFacts DEF Inv, CommitInv, CustomCommit
<1> QED BY <1>1 DEF Inv, EntriesInv, CommitInv, ThreadInv, QueryInv, CustomCommit, memVars,
           entryVars,
       threadVars, Indexed, LookUpOne, Goto

\* A crash leaves what was written.
LEMMA KeepsCrash == ASSUME Inv, Crash PROVE Inv'
<1>1. NoMuhash \in [Coins -> Int]
  BY DEF NoMuhash
<1> QED BY <1>1 DEF Inv, EntriesInv, CommitInv, ThreadInv, QueryInv, Crash, memVars, entryVars,
           commitVars,
       threadVars, Indexed, LookUpOne, Goto

\* CustomInit finds the entry of its block, with the MuHash that was committed.
LEMMA KeepsCustomInit == ASSUME Inv, CustomInit PROVE Inv'
<1>1. StatsOf(NoBlock).totals = NoTotals /\ StatsOf(NoBlock).muhash = NoMuhash
  BY DEF StatsOf, Entry
<1>2. dbBest # NoBlock =>
        /\ dbBest \in Path[dbBest] /\ dbBest \in Blocks
        /\ StatsOf(dbBest) = StatsAfter[dbBest] /\ StatsAfter[dbBest] # NoEntry
  BY ChainFacts, StatsAreEntries DEF Inv, CommitInv
<1>3. dbBest # NoBlock => LookUpOne(dbBest) = StatsAfter[dbBest]
  BY <1>2, LookUps DEF Inv, EntriesInv
<1>4. dbBest # NoBlock => pc' = "idle" /\ totals' = StatsOf(dbBest).totals
  BY <1>2, <1>3 DEF CustomInit, Inv, CommitInv, Goto, RestoredTotals
<1>5. dbBest = NoBlock => pc' = "idle" /\ totals' = StatsOf(dbBest).totals
  BY <1>1 DEF CustomInit, Inv, ThreadInv, Goto
<1>6. /\ pc' = "idle" /\ totals' = StatsOf(dbBest).totals /\ muhash' = StatsOf(dbBest).muhash
      /\ best' = dbBest /\ muhash' \in [Coins -> Int]
  <2>1. StatsOf(dbBest).muhash \in [Coins -> Int]
    BY <1>1, <1>2, StatsAreEntries DEF NoMuhash, Entries
  <2> QED BY <1>4, <1>5, <2>1 DEF CustomInit, Inv, CommitInv
<1>7. EntriesInv'
  BY <1>6 DEF Inv, EntriesInv, CustomInit, entryVars, commitVars, Indexed, LookUpOne
<1>8. CommitInv'
  BY <1>2, <1>6 DEF Inv, CommitInv, CustomInit, commitVars
<1>9. ThreadInv'
  BY <1>6 DEF Inv, ThreadInv, CustomInit
<1>10. QueryInv'
  BY DEF Inv, QueryInv, ThreadInv, CustomInit, entryVars
<1> QED BY <1>7, <1>8, <1>9, <1>10 DEF Inv

\* CustomAppend finds the entry of the previous block.  The entry it overwrites is no longer
\* that of a block of a chain that is needed, or is kept by hash.
LEMMA KeepsCustomAppend ==
  ASSUME Inv, pc = "idle", NEW b, b = NextSyncBlock, b # NoBlock, CustomAppend(b)
  PROVE  Inv'
<1> DEFINE h == Height[b]
<1> USE DEF Inv
<1>1. tip \in Blocks /\ best \in Blocks \cup {NoBlock} /\ best = Parent[b]
  BY DEF ThreadInv, CommitInv, CustomAppend
<1>2. b \in Blocks /\ (best = NoBlock <=> b = Genesis)
  BY <1>1, NextIs, TreeAssumption
<1>3. h \in Heights /\ b \in Path[b] /\ StatsOf(b) = StatsAfter[b] /\ StatsAfter[b] # NoEntry
      /\ Entry(b, StatsAfter[b].totals, StatsAfter[b].muhash) = StatsAfter[b]
      /\ StatsAfter[b].muhash \in [Coins -> Int]
  BY <1>2, ChainFacts, StatsAreEntries DEF Heights, Entries
<1>4. \A a \in Path[b] : a # b => best # NoBlock /\ a \in Path[best] /\ Height[a] # h
  <2> SUFFICES ASSUME NEW a \in Path[b], a # b
               PROVE  best # NoBlock /\ a \in Path[best] /\ Height[a] # h
    OBVIOUS
  <2>1. b # Genesis
    BY TreeAssumption
  <2>2. a \in Path[best]
    BY <1>1, <1>2, <2>1, ChainStep
  <2>3. Height[a] # Height[b]
    BY <1>2, <1>3, HeightsOnChain
  <2> QED BY <1>2, <2>1, <2>2, <2>3
<1>5. b = Genesis \/ LookUpOne(Parent[b]) # NoEntry
  BY <1>1, <1>2, ChainFacts DEF EntriesInv, Indexed
<1>6. totals' = AppendTotals(totals, b) /\ muhash' = AppendMuhash(muhash, b)
  BY <1>5 DEF CustomAppend
<1>7. /\ totals = StatsOf(Parent[b]).totals /\ muhash = StatsOf(Parent[b]).muhash
  BY <1>1 DEF ThreadInv
<1>8. totals' = StatsAfter[b].totals /\ muhash' = StatsAfter[b].muhash
  BY <1>2, <1>6, <1>7, AppendGives
<1>9. heightIndex' = [k \in Heights |-> IF k = h THEN StatsAfter[b] ELSE heightIndex[k]]
  <2>1. heightIndex'
          = [k \in Heights |-> IF k = HeightKey(b) THEN Entry(b, totals', muhash') ELSE heightIndex[k]]
    BY <1>5 DEF CustomAppend
  <2>2. Entry(b, totals', muhash') = StatsAfter[b] /\ HeightKey(b) = h
    BY <1>3, <1>8 DEF HeightKey
  <2> QED BY <2>1, <2>2
<1>10. /\ best' = b /\ pc' = "idle" /\ dbMuhash' = dbMuhash
       /\ UNCHANGED <<tip, hashIndex, dbBest, rewindTo, iterTip, query>>
  BY <1>5 DEF CustomAppend, MuhashOnAppend
<1>11. \A a \in Blocks : Height[a] \in Heights
  BY DEF Heights
<1>12. \A a \in Blocks : a # b /\ Height[a] # h /\ Indexed(a) => Indexed(a)'
  BY <1>9, <1>10, <1>11 DEF Indexed, LookUpOne
<1>13. Indexed(b)'
  BY <1>2, <1>3, <1>9, StatsAreEntries DEF Indexed, LookUpOne
<1>14. dbBest # NoBlock
         => best # NoBlock /\ dbBest \in Path[best] /\ dbBest \in Path[b]
           /\ Path[dbBest] \subseteq Path[best]
  <2> SUFFICES ASSUME dbBest # NoBlock
               PROVE  best # NoBlock /\ dbBest \in Path[best] /\ dbBest \in Path[b]
                      /\ Path[dbBest] \subseteq Path[best]
    OBVIOUS
  <2>1. best # NoBlock /\ dbBest \in Path[best]
    BY DEF CommitInv
  <2>2. dbBest \in Path[b]
    BY <1>1, <1>2, <2>1, ChainStep
  <2> QED BY <1>1, <2>1, <2>2, ChainFacts
<1>15. \A a \in Path[b] : Indexed(a)'
  <2> SUFFICES ASSUME NEW a \in Path[b], a # b
               PROVE  Indexed(a)'
    BY <1>13
  <2>1. best # NoBlock /\ a \in Path[best] /\ Height[a] # h /\ a \in Blocks
    BY <1>2, <1>4, ChainFacts
  <2>2. Indexed(a)
    BY <2>1 DEF EntriesInv
  <2> QED BY <1>12, <2>1, <2>2
<1>16. EntriesInv'
  <2>1. DOMAIN heightIndex' = Heights /\ DOMAIN hashIndex' = Blocks
    BY <1>9, <1>10 DEF EntriesInv
  <2>2. ASSUME NEW k \in Heights, heightIndex'[k] # NoEntry
        PROVE  \E a \in Blocks : Height[a] = k /\ heightIndex'[k] = StatsAfter[a]
    BY <1>2, <1>9, <2>2 DEF EntriesInv
  <2>3. ASSUME NEW a \in Blocks, hashIndex'[a] # NoEntry
        PROVE  hashIndex'[a] = StatsAfter[a] /\ heightIndex'[Height[a]] # NoEntry
    BY <1>3, <1>9, <1>10, <1>11, <2>3 DEF EntriesInv
  <2>4. ASSUME NEW a \in Blocks, NEW x \in {best', dbBest'}, x # NoBlock, a \in Path[x]
        PROVE  Indexed(a)'
    <3>1. a \in Path[b]
      <4>1. CASE x = b
        BY <2>4, <4>1
      <4>2. CASE x # b
        <5>1. x = dbBest
          BY <1>10, <2>4, <4>2
        <5> QED BY <1>2, <1>14, <2>4, <5>1, ChainFacts
      <4> QED BY <4>1, <4>2
    <3> QED BY <1>15, <3>1
  <2> QED BY <2>1, <2>2, <2>3, <2>4 DEF EntriesInv
<1>17. CommitInv'
  BY <1>2, <1>10, <1>14, TreeAssumption DEF CommitInv
<1>18. ThreadInv'
  BY <1>3, <1>8, <1>10 DEF ThreadInv
<1>19. QueryInv'
  <2>1. ASSUME best # NoBlock, query.block \in Path[best]
        PROVE  best' # NoBlock /\ query.block \in Path[best']
    BY <1>1, <1>2, <1>10, <2>1, ChainStep, TreeAssumption
  <2> QED BY <1>10, <2>1 DEF QueryInv
<1> QED BY <1>16, <1>17, <1>18, <1>19

\* Every height of the chain of best has an entry.
LEMMA HeightsKept ==
  ASSUME EntriesInv, best \in Blocks, best # NoBlock, NEW h \in 0 .. Height[best]
  PROVE  heightIndex[h] # NoEntry /\ h \in Heights
<1>1. PICK a \in Path[best] : Height[a] = h
  BY HeightsOnChain
<1>2. a \in Blocks /\ Indexed(a)
  BY <1>1, ChainFacts DEF EntriesInv
<1> QED BY <1>1, <1>2, LookUps DEF Heights

\* CustomRewind finds all entries, and keeps by hash those of the blocks it leaves.
LEMMA KeepsRewindCopy ==
  ASSUME Inv, pc = "idle", NEW b, b = NextSyncBlock, b # NoBlock, RewindCopy(b)
  PROVE  Inv'
<1> USE DEF Inv
<1>1. tip \in Blocks /\ best \in Blocks \cup {NoBlock} /\ best # Parent[b]
  BY DEF ThreadInv, CommitInv, RewindCopy
<1>2. best # NoBlock /\ b \in Blocks /\ Parent[b] \in Path[best] /\ Parent[b] \in Blocks
  BY <1>1, NextIs, ChainFacts, TreeAssumption
<1>3. rewindTo' = Parent[b] /\ iterTip' = best
      /\ UNCHANGED <<tip, memVars, heightIndex, commitVars, query>>
  BY DEF RewindCopy
<1>4. \A h \in Height[rewindTo'] .. Height[best] : heightIndex[h] # NoEntry /\ h \in Heights
  <2> TAKE h \in Height[rewindTo'] .. Height[best]
  <2>1. h \in 0 .. Height[best]
    BY <1>1, <1>2, <1>3, TreeAssumption
  <2> QED BY <1>1, <1>2, <2>1, HeightsKept
<1>5. CopyHeightIndexToHashIndex /\ pc' = "reverse"
  BY <1>4 DEF RewindCopy, Goto
<1> DEFINE Moved(a) == \E h \in CopiedHeights : heightIndex[h].block = a
<1>6. \A a \in Blocks : hashIndex'[a] = IF Moved(a) THEN heightIndex[Height[a]] ELSE hashIndex[a]
  BY <1>5 DEF CopyHeightIndexToHashIndex
<1>7. ASSUME NEW a \in Blocks, Moved(a)
      PROVE  heightIndex[Height[a]] = StatsAfter[a]
  <2>1. PICK h \in CopiedHeights : heightIndex[h].block = a
    BY <1>7
  <2>2. h \in Heights /\ heightIndex[h] # NoEntry
    BY <1>4, <2>1 DEF CopiedHeights
  <2>3. PICK x \in Blocks : Height[x] = h /\ heightIndex[h] = StatsAfter[x]
    BY <2>2 DEF EntriesInv
  <2> QED BY <2>1, <2>3, StatsAreEntries
<1>8. \A a \in Blocks :
        StatsAfter[a] # NoEntry /\ StatsAfter[a].block = a /\ Height[a] \in Heights
  BY StatsAreEntries DEF Heights
<1>9. ASSUME NEW a \in Path[best] \ Path[rewindTo']
      PROVE  hashIndex'[a] # NoEntry
  <2>1. a \in Blocks /\ Indexed(a)
    BY <1>1, <1>2, ChainFacts DEF EntriesInv
  <2>2. CASE hashIndex[a] # NoEntry
    BY <1>6, <1>7, <1>8, <2>1, <2>2
  <2>3. CASE hashIndex[a] = NoEntry
    <3>1. heightIndex[Height[a]] = StatsAfter[a]
      BY <2>1, <2>3, LookUps
    <3>2. Height[a] \in Height[rewindTo'] .. Height[best]
      <4>1. Parent[b] \in Path[a]
        BY <1>1, <1>2, <1>3, <1>9, OrderOnChain
      <4>2. Height[a] <= Height[best] /\ Height[Parent[b]] <= Height[a]
        BY <1>1, <1>2, <2>1, <4>1, OrderOnChain, TreeAssumption
      <4> QED BY <1>1, <1>2, <1>3, <2>1, <4>2, TreeAssumption
    <3>3. Moved(a)
      BY <1>8, <2>1, <3>1, <3>2 DEF CopiedHeights
    <3> QED BY <1>6, <1>7, <1>8, <2>1, <3>3
  <2> QED BY <2>2, <2>3
<1> HIDE DEF Moved
<1>10. \A a \in Blocks : hashIndex[a] # NoEntry => hashIndex'[a] # NoEntry
  BY <1>6, <1>7, <1>8
<1>11. \A a \in Blocks : Indexed(a) => Indexed(a)'
  BY <1>3, <1>10 DEF Indexed, LookUpOne
<1>12. EntriesInv'
  <2>1. DOMAIN hashIndex' = Blocks
    BY <1>5 DEF CopyHeightIndexToHashIndex
  <2>2. \A a \in Blocks : hashIndex'[a] # NoEntry =>
          hashIndex'[a] = StatsAfter[a] /\ heightIndex'[Height[a]] # NoEntry
    BY <1>3, <1>6, <1>7, <1>8 DEF EntriesInv
  <2>3. \A a \in Blocks : \A x \in {best', dbBest'} : x # NoBlock /\ a \in Path[x] => Indexed(a)'
    BY <1>3, <1>11 DEF EntriesInv, memVars, commitVars
  <2> QED BY <1>3, <2>1, <2>2, <2>3 DEF EntriesInv
<1>13. CommitInv'
  BY <1>3, <1>5 DEF CommitInv, memVars, commitVars
<1>14. ThreadInv'
  <2>1. best \in Path[best]
    BY <1>1, <1>2, ChainFacts
  <2> QED BY <1>1, <1>2, <1>3, <1>5, <1>9, <2>1 DEF ThreadInv, memVars
<1>15. QueryInv'
  BY <1>3, <1>10 DEF QueryInv, Queries, memVars
<1> QED BY <1>12, <1>13, <1>14, <1>15

\* ReverseBlock finds what is left to be the entry of the block below.
LEMMA KeepsReverseBlock == ASSUME Inv, ReverseBlock PROVE Inv'
<1> DEFINE p == Parent[iterTip]
<1> USE DEF Inv
<1>1. /\ best \in Blocks /\ iterTip \in Path[best] /\ rewindTo \in Path[iterTip]
      /\ iterTip # rewindTo
      /\ totals = StatsOf(iterTip).totals /\ muhash = StatsOf(iterTip).muhash
  BY DEF ThreadInv, ReverseBlock
<1>2. iterTip \in Blocks \ {Genesis} /\ iterTip \in Blocks
  BY <1>1, ChainFacts, TreeAssumption
<1>3. /\ p \in Blocks /\ p \in Path[best] /\ rewindTo \in Path[p] /\ best # NoBlock
  <2>1. p \in Blocks /\ Path[iterTip] = Path[p] \cup {iterTip}
    BY <1>2, ChainStep
  <2> QED BY <1>1, <1>2, <2>1, ChainFacts, TreeAssumption
<1>4. StatsOf(iterTip) = StatsAfter[iterTip] /\ StatsOf(p) = StatsAfter[p]
      /\ Entry(p, StatsAfter[p].totals, StatsAfter[p].muhash) = StatsAfter[p]
      /\ StatsAfter[p].muhash \in [Coins -> Int]
  BY <1>2, <1>3, StatsAreEntries DEF Entries
<1>5. totals' = StatsAfter[p].totals /\ muhash' = StatsAfter[p].muhash /\ iterTip' = p
  BY <1>1, <1>2, <1>4, TotalsReverse, MuhashAppend DEF ReverseBlock
<1>6. UNCHANGED <<tip, best, entryVars, commitVars, rewindTo, query>>
  BY DEF ReverseBlock
<1>7. LookUpOne(p) = StatsAfter[p]
  <2>1. Indexed(p)
    BY <1>3 DEF EntriesInv
  <2> QED BY <1>3, <2>1, LookUps
<1>8. LookUpOne(iterTip') = Entry(iterTip', totals', muhash')
  BY <1>4, <1>5, <1>7
<1>9. pc' = "reverse" /\ pc = "reverse"
  BY <1>8 DEF ReverseBlock, Goto
<1>10. EntriesInv' /\ CommitInv' /\ QueryInv'
  BY <1>6, <1>9 DEF EntriesInv, CommitInv, QueryInv, Queries, entryVars, commitVars, Indexed,
     LookUpOne
<1>11. ThreadInv'
  BY <1>1, <1>3, <1>4, <1>5, <1>6, <1>9 DEF ThreadInv, entryVars
<1> QED BY <1>10, <1>11

\* The blocks that leave the chain of best have entries by hash.
LEMMA KeepsRewindCommit == ASSUME Inv, RewindCommit PROVE Inv'
<1> USE DEF Inv
<1>1. /\ best \in Blocks /\ rewindTo \in Path[best] /\ best # NoBlock /\ pc = "reverse"
      /\ totals = StatsOf(rewindTo).totals /\ muhash = StatsOf(rewindTo).muhash
  BY TreeAssumption DEF ThreadInv, RewindCommit
<1>2. rewindTo \in Blocks /\ rewindTo # NoBlock /\ rewindTo \in Path[rewindTo]
      /\ Path[rewindTo] \subseteq Path[best]
  BY <1>1, ChainFacts, TreeAssumption
<1>3. /\ best' = rewindTo /\ dbBest' = rewindTo /\ dbMuhash' = muhash /\ pc' = "idle"
      /\ rewindTo' = NoBlock /\ iterTip' = NoBlock
      /\ UNCHANGED <<tip, totals, muhash, entryVars, query>>
  BY DEF RewindCommit, Goto
<1>4. EntriesInv'
  BY <1>1, <1>2, <1>3 DEF EntriesInv, entryVars, Indexed, LookUpOne
<1>5. CommitInv'
  BY <1>1, <1>2, <1>3 DEF CommitInv
<1>6. ThreadInv'
  BY <1>1, <1>3 DEF ThreadInv
<1>7. QueryInv'
  BY <1>1, <1>2, <1>3 DEF QueryInv, ThreadInv, entryVars
<1> QED BY <1>4, <1>5, <1>6, <1>7

\* A lookup of a block that is indexed begins on the chain of best.
LEMMA KeepsLookUpBegin == ASSUME Inv, NEW b \in Blocks, LookUpBegin(b) PROVE Inv'
<1> USE DEF Inv
<1>1. /\ best # NoBlock /\ pc # "down"
      /\ query' = [block |-> b, step |-> "height", wasIndexed |-> b \in Path[best], answer |-> NoEntry]
      /\ UNCHANGED <<tip, memVars, entryVars, commitVars, threadVars>>
  BY DEF LookUpBegin
<1>2. EntriesInv' /\ CommitInv' /\ ThreadInv'
  BY <1>1 DEF EntriesInv, CommitInv, ThreadInv, memVars, entryVars, commitVars, threadVars,
     Indexed, LookUpOne
<1>3. QueryInv'
  <2>1. PICK known \in BOOLEAN : known <=> b \in Path[best]
    OBVIOUS
  <2>2. query' = [block |-> b, step |-> "height", wasIndexed |-> known, answer |-> NoEntry]
    BY <1>1, <2>1
  <2>3. query' \in Queries
    BY <2>2 DEF Queries
  <2>4. query'.wasIndexed => best # NoBlock /\ query'.block \in Path[best]
    BY <1>1, <2>1, <2>2
  <2>5. query'.step = "height" /\ query'.answer = NoEntry
    BY <2>2
  <2> QED BY <1>1, <2>3, <2>4, <2>5 DEF QueryInv, memVars
<1> QED BY <1>2, <1>3

\* The entry of the height is that of the block, or there is one by hash.
LEMMA KeepsLookUpByHeight == ASSUME Inv, LookUpByHeight PROVE Inv'
<1> DEFINE b == query.block
           e == heightIndex[Height[b]]
<1> USE DEF Inv
<1>1. /\ query # NoQuery /\ query \in Queries /\ query.step = "height" /\ b \in Blocks
      /\ query' = IF e = NoEntry THEN [query EXCEPT !.step = "done"]
                  ELSE IF e.block = b THEN [query EXCEPT !.step = "done", !.answer = e]
                  ELSE [query EXCEPT !.step = "hash"]
      /\ UNCHANGED <<tip, memVars, entryVars, commitVars, threadVars>>
  BY DEF LookUpByHeight, QueryInv, Queries
<1>2. EntriesInv' /\ CommitInv' /\ ThreadInv'
  BY <1>1 DEF EntriesInv, CommitInv, ThreadInv, memVars, entryVars, commitVars, threadVars,
     Indexed, LookUpOne
<1>3. query.wasIndexed => Indexed(b)
  BY <1>1, LookUps DEF QueryInv, EntriesInv
<1>4. e # NoEntry => \E a \in Blocks : e = StatsAfter[a] /\ e.block = a /\ e \in Entries
  BY <1>1, StatsAreEntries DEF EntriesInv, Heights
<1>5. query.wasIndexed => e # NoEntry /\ (e.block = b \/ hashIndex[b] # NoEntry)
  BY <1>1, <1>3, LookUps, StatsAreEntries
<1>6. b \in Blocks /\ query.wasIndexed \in BOOLEAN /\ query.answer \in Entries \cup {NoEntry}
  BY <1>1 DEF Queries
<1>7. query' \in Queries /\ query'.block = b /\ query'.wasIndexed = query.wasIndexed
  BY <1>1, <1>4, <1>6 DEF Queries
<1>8. CASE e # NoEntry /\ e.block = b
  <2>1. query'.step = "done" /\ query'.answer = e
    BY <1>1, <1>8
  <2>2. e = StatsAfter[b]
    BY <1>4, <1>8
  <2> HIDE DEF b, e
  <2> QED BY <1>2, <1>7, <1>8, <2>1, <2>2 DEF QueryInv
<1>9. CASE e = NoEntry
  <2>1. query'.step = "done" /\ query'.answer = query.answer /\ ~query.wasIndexed
    BY <1>1, <1>5, <1>9 DEF Queries
  <2>2. query.answer = NoEntry
    BY <1>1 DEF QueryInv
  <2> HIDE DEF b, e
  <2> QED BY <1>2, <1>7, <2>1, <2>2 DEF QueryInv
<1>10. CASE e # NoEntry /\ e.block # b
  <2>1. query'.step = "hash" /\ (query.wasIndexed => hashIndex'[b] # NoEntry)
    BY <1>1, <1>5, <1>10 DEF entryVars
  <2>2. query'.answer = NoEntry
    <3>1. query' = [query EXCEPT !.step = "hash"] /\ query.answer = NoEntry
      BY <1>1, <1>10 DEF QueryInv
    <3> QED BY <1>1, <3>1 DEF Queries
  <2> HIDE DEF b, e
  <2> QED BY <1>2, <1>7, <2>1, <2>2 DEF QueryInv
<1> QED BY <1>2, <1>8, <1>9, <1>10

\* The entry by hash is that of the block.
LEMMA KeepsLookUpByHash == ASSUME Inv, LookUpByHash PROVE Inv'
<1> USE DEF Inv
<1>1. /\ query # NoQuery /\ query \in Queries /\ query.step = "hash" /\ query.block \in Blocks
      /\ query' = [query EXCEPT !.step = "done", !.answer = hashIndex[query.block]]
      /\ UNCHANGED <<tip, memVars, entryVars, commitVars, threadVars>>
  BY DEF LookUpByHash, QueryInv, Queries
<1>2. EntriesInv' /\ CommitInv' /\ ThreadInv'
  BY <1>1 DEF EntriesInv, CommitInv, ThreadInv, memVars, entryVars, commitVars, threadVars,
     Indexed, LookUpOne
<1>3. /\ hashIndex[query.block] \in {NoEntry, StatsAfter[query.block]}
      /\ hashIndex[query.block] \in Entries \cup {NoEntry}
      /\ query.wasIndexed => hashIndex[query.block] # NoEntry
  BY <1>1, StatsAreEntries DEF EntriesInv, QueryInv
<1>4. /\ query' \in Queries /\ query'.block = query.block /\ query'.wasIndexed = query.wasIndexed
      /\ query'.step = "done" /\ query'.answer = hashIndex[query.block]
  BY <1>1, <1>3 DEF Queries
<1>5. QueryInv'
  BY <1>3, <1>4 DEF QueryInv
<1> QED BY <1>2, <1>5

\* The answer is dropped.
LEMMA KeepsLookUpEnd == ASSUME Inv, LookUpEnd PROVE Inv'
BY DEF Inv, EntriesInv, CommitInv, ThreadInv, QueryInv, LookUpEnd, memVars, entryVars, commitVars,
       threadVars, Indexed, LookUpOne

\* The invariant is inductive.
LEMMA KeepsInv == ASSUME Inv, [Next]_vars PROVE Inv'
<1>1. CASE pc = "idle" /\ \E b \in {NextSyncBlock} \ {NoBlock} : CustomAppend(b) \/ RewindCopy(b)
  BY <1>1, KeepsCustomAppend, KeepsRewindCopy
<1>2. CASE ReverseBlock \/ RewindCommit \/ CustomInit
  BY <1>2, KeepsReverseBlock, KeepsRewindCommit, KeepsCustomInit
<1>3. CASE CustomCommit \/ Crash
  BY <1>3, KeepsCustomCommit, KeepsCrash
<1>4. CASE \E b \in Blocks : MoveTip(b) \/ LookUpBegin(b)
  BY <1>4, KeepsMoveTip, KeepsLookUpBegin
<1>5. CASE LookUpByHeight \/ LookUpByHash \/ LookUpEnd
  BY <1>5, KeepsLookUpByHeight, KeepsLookUpByHash, KeepsLookUpEnd
<1>6. CASE UNCHANGED vars
  BY <1>6, KeepsStutter
<1> QED BY <1>1, <1>2, <1>3, <1>4, <1>5, <1>6 DEF Next, Index

\* It holds in every state.
LEMMA InvariantHolds == Spec => []Inv
<1>1. Init => Inv
  BY InitInv
<1>2. Inv /\ [Next]_vars => Inv'
  BY KeepsInv
<1> QED BY <1>1, <1>2, PTL DEF Spec

\* The variables have their types.
LEMMA InvTypes == Inv => TypeOK
<1> SUFFICES ASSUME Inv
             PROVE  TypeOK
  OBVIOUS
<1> USE DEF Inv
<1>1. /\ tip \in Blocks /\ {best, dbBest} \subseteq Blocks \cup {NoBlock}
      /\ pc \in {"idle", "reverse", "down", "failed", "refused"} /\ muhash \in [Coins -> Int]
      /\ DOMAIN heightIndex = Heights /\ DOMAIN hashIndex = Blocks
      /\ query # NoQuery => query \in Queries
  BY DEF EntriesInv, CommitInv, ThreadInv, QueryInv
<1>2. {rewindTo, iterTip} \subseteq Blocks \cup {NoBlock}
  <2>1. CASE pc = "reverse"
    BY <2>1, ChainFacts DEF ThreadInv
  <2>2. CASE pc # "reverse"
    BY <2>2 DEF ThreadInv
  <2> QED BY <2>1, <2>2
<1>3. ASSUME NEW b \in Blocks \cup {NoBlock}
      PROVE  StatsOf(b).totals \in [Fields -> Int] /\ StatsOf(b).muhash \in [Coins -> Int]
  <2>1. CASE b = NoBlock
    BY <2>1 DEF StatsOf, Entry, NoTotals, NoMuhash
  <2>2. CASE b \in Blocks
    BY <2>2, StatsAreEntries DEF Entries
  <2> QED BY <2>1, <2>2
<1>4. totals \in [Fields -> Int]
  <2>1. CASE pc = "idle"
    BY <1>1, <1>3, <2>1 DEF ThreadInv
  <2>2. CASE pc = "reverse"
    BY <1>3, <2>2, ChainFacts DEF ThreadInv
  <2>3. CASE pc = "down"
    BY <2>3 DEF ThreadInv, NoTotals
  <2> QED BY <2>1, <2>2, <2>3 DEF ThreadInv
<1>5. dbMuhash \in [Coins -> Int]
  BY <1>1, <1>3 DEF CommitInv
<1>6. /\ \A h \in Heights : heightIndex[h] # NoEntry =>
           heightIndex[h] \in Entries /\ Height[heightIndex[h].block] = h
      /\ \A b \in Blocks : hashIndex[b] # NoEntry
           => hashIndex[b] \in Entries /\ hashIndex[b].block = b
  BY StatsAreEntries DEF EntriesInv
<1>7. pc = "reverse" => rewindTo \in Path[iterTip] /\ iterTip \in Path[best]
  BY DEF ThreadInv
<1> QED BY <1>1, <1>2, <1>4, <1>5, <1>6, <1>7 DEF TypeOK

-----------------------------------------------------------------------------
(* Theorems. *)

\* After any reorganisations, rewinds and crashes, whatever entry a block has holds the
\* statistics of the chain up to it, and while the indexing thread is idle the chain up to
\* its block is complete (CustomAppend, CustomRewind, CustomInit).
THEOREM RightEntries == Spec => []EntriesRight
<1>1. ASSUME Inv
      PROVE  EntriesRight
  <2>1. TypeOK
    BY <1>1, InvTypes
  <2>2. \A b \in Blocks : LookUpOne(b) \in {NoEntry, StatsAfter[b]}
    BY <1>1, LookUps DEF Inv
  <2>3. ASSUME pc = "idle", best # NoBlock
        PROVE  /\ \A b \in Path[best] : LookUpOne(b) # NoEntry
               /\ Entry(best, totals, muhash) = LookUpOne(best)
    <3>1. best \in Blocks /\ best \in Path[best] /\ Path[best] \subseteq Blocks
      BY <1>1, <2>3, ChainFacts DEF Inv, CommitInv
    <3>2. \A b \in Path[best] : Indexed(b)
      BY <1>1, <2>3, <3>1 DEF Inv, EntriesInv
    <3>3. LookUpOne(best) = StatsAfter[best]
      BY <1>1, <3>1, <3>2, LookUps DEF Inv
    <3>4. Entry(best, totals, muhash) = StatsAfter[best]
      BY <1>1, <2>3, <3>1, StatsAreEntries DEF Inv, ThreadInv
    <3> QED BY <3>2, <3>3, <3>4 DEF Indexed
  <2> QED BY <2>1, <2>2, <2>3 DEF EntriesRight
<1> QED BY <1>1, InvariantHolds, PTL

\* CustomAppend, CustomRewind and ReverseBlock find the entries they want, what ReverseBlock
\* leaves is what it asserts, and CustomInit never calls the index corrupted.
THEOREM NothingFails == Spec => []NeverFails
<1>1. Inv => NeverFails
  BY DEF Inv, ThreadInv, NeverFails
<1> QED BY <1>1, InvariantHolds, PTL

\* LookUpStats, reading twice without a lock, never answers with another block's statistics,
\* and answers for every block that was indexed when it began.
THEOREM RightLookUps == Spec => []LookUpsRight
<1>1. Inv => LookUpsRight
  BY DEF Inv, QueryInv, LookUpsRight
<1> QED BY <1>1, InvariantHolds, PTL
=============================================================================
