------------------------- MODULE BlockTree_proofs -------------------------
(***************************************************************************)
(* Induction, by the least counterexample, and what it says of block       *)
(* trees, of folds, of sums and of sequences gone through one by one.      *)
(***************************************************************************)
EXTENDS BlockTree, FiniteSetsExt, Functions, WellFoundedInduction, FiniteSetTheorems, TLAPS

\* A set of natural numbers that is not empty has a least element.
LEMMA LeastElement ==
  ASSUME NEW T, T \subseteq Nat, T # {}
  PROVE  \E x \in T : \A y \in T : x <= y
<1> DEFINE R == {ss \in Nat \X Nat : ss[1] < ss[2]}
<1>1. IsWellFoundedOn(R, Nat)
  BY NatLessThanWellFounded DEF OpToRel
<1>2. PICK x \in T : \A y \in T : ~ (<<y, x>> \in R)
  <2> HIDE DEF R
  <2> QED BY <1>1, WFMin
<1>3. \A y \in T : x <= y
  <2> TAKE y \in T
  <2>1. x \in Nat /\ y \in Nat
    OBVIOUS
  <2>2. ~(y < x)
    <3>1. <<y, x>> \in Nat \X Nat
      BY <2>1
    <3> QED BY <1>2, <3>1
  <2> QED BY <2>1, <2>2
<1> QED BY <1>3

\* What holds of 0, and of n + 1 if it holds of n, holds of every natural number.
LEMMA UpByOne ==
  ASSUME NEW Good, 0 \in Good, \A n \in Nat : n \in Good => n + 1 \in Good
  PROVE  Nat \subseteq Good
<1> DEFINE T == Nat \ Good
<1> SUFFICES ASSUME T # {}
             PROVE  FALSE
  OBVIOUS
<1>1. PICK n \in T : \A k \in T : n <= k
  BY LeastElement
<1>2. n \in Nat /\ n # 0
  OBVIOUS
<1>3. n - 1 \in Nat /\ n - 1 \notin T /\ (n - 1) + 1 = n
  BY <1>1, <1>2
<1> QED BY <1>3

Pick(s) == CHOOSE x \in s : TRUE

\* What holds of a finite set if it holds of the set without any of its elements, holds of
\* every subset of a finite set.
GrowsIn(S, Good) == \A s \in SUBSET S : (\A x \in s : s \ {x} \in Good) => s \in Good
LEMMA SubsetInduction ==
  ASSUME NEW S, IsFiniteSet(S), NEW Good, GrowsIn(S, Good)
  PROVE  SUBSET S \subseteq Good
<1> DEFINE T == {Cardinality(s) : s \in (SUBSET S) \ Good}
<1> SUFFICES ASSUME T # {}
             PROVE  FALSE
  OBVIOUS
<1>1. \A s \in SUBSET S : IsFiniteSet(s) /\ Cardinality(s) \in Nat
  BY FS_Subset, FS_CardinalityType
<1>2. T \subseteq Nat
  BY <1>1
<1>3. PICK n \in T : \A k \in T : n <= k
  <2> HIDE DEF T
  <2> QED BY <1>2, LeastElement
<1>4. PICK s \in (SUBSET S) \ Good : Cardinality(s) = n
  BY <1>3
<1>5. ASSUME NEW x \in s
      PROVE  s \ {x} \in Good
  <2>1. Cardinality(s \ {x}) = Cardinality(s) - 1
    BY <1>1, FS_RemoveElement
  <2>2. s \ {x} \notin Good => n <= n - 1
    BY <1>3, <1>4, <2>1
  <2> QED BY <1>2, <2>2
<1> QED BY <1>4, <1>5 DEF GrowsIn

-----------------------------------------------------------------------------
(* Trees. *)

\* What holds of the genesis block, and of a block whose parent it holds of, holds of all.
LEMMA TreeInduction ==
  ASSUME NEW Good, Genesis \in Good,
         \A b \in Blocks \ {Genesis} : Parent[b] \in Good => b \in Good
  PROVE  Blocks \subseteq Good
<1> DEFINE T == {Height[b] : b \in Blocks \ Good}
<1> SUFFICES ASSUME T # {}
             PROVE  FALSE
  OBVIOUS
<1>1. T \subseteq Nat
  BY TreeAssumption
<1>2. PICK h \in T : \A k \in T : h <= k
  <2> HIDE DEF T
  <2> QED BY <1>1, LeastElement
<1>3. PICK b \in Blocks \ Good : Height[b] = h
  BY <1>2
<1>4. b # Genesis /\ Parent[b] \in Blocks \ Good /\ Height[b] = Height[Parent[b]] + 1
  BY <1>3, TreeAssumption
<1>5. h <= Height[Parent[b]]
  BY <1>2, <1>4
<1>6. Height[Parent[b]] \in Nat
  BY <1>4, TreeAssumption
<1> QED BY <1>3, <1>4, <1>5, <1>6

\* A chain goes from its block to the genesis block, and holds the chains of all its blocks.
LEMMA ChainFacts ==
  ASSUME NEW b \in Blocks
  PROVE  /\ b \in Path[b] /\ Genesis \in Path[b] /\ Path[b] \subseteq Blocks
         /\ \A a \in Path[b] : Path[a] \subseteq Path[b]
<1> DEFINE Good == {x \in Blocks : /\ x \in Path[x] /\ Genesis \in Path[x] /\ Path[x] \subseteq Blocks
                                   /\ \A a \in Path[x] : Path[a] \subseteq Path[x]}
<1>1. Genesis \in Good
  BY TreeAssumption
<1>2. \A x \in Blocks \ {Genesis} : Parent[x] \in Good => x \in Good
  <2> SUFFICES ASSUME NEW x \in Blocks \ {Genesis}, Parent[x] \in Good
               PROVE  x \in Good
    OBVIOUS
  <2>1. Path[x] = Path[Parent[x]] \cup {x}
    BY TreeAssumption
  <2> QED BY <2>1
<1>3. Blocks \subseteq Good
  <2> HIDE DEF Good
  <2> QED BY <1>1, <1>2, TreeInduction
<1> QED BY <1>3

\* On a chain a block is lower than what comes after it, and it has a child unless it is the
\* last; two of a chain's blocks are one below the other.
LEMMA OrderOnChain ==
  ASSUME NEW b \in Blocks, NEW a \in Path[b]
  PROVE  /\ a # b => Height[a] < Height[b]
         /\ a # b => \E n \in Path[b] \ {Genesis} : Parent[n] = a
         /\ \A c \in Path[b] : a \in Path[c] \/ c \in Path[a]
         /\ b \in Path[a] => a = b
<1> DEFINE Below(x) == \A y \in Path[x] :
             /\ y # x => Height[y] < Height[x]
             /\ y # x => \E n \in Path[x] \ {Genesis} : Parent[n] = y
             /\ \A c \in Path[x] : y \in Path[c] \/ c \in Path[y]
           Good == {x \in Blocks : Below(x)}
<1>1. Genesis \in Good
  BY TreeAssumption, ChainFacts
<1>2. \A x \in Blocks \ {Genesis} : Parent[x] \in Good => x \in Good
  <2> SUFFICES ASSUME NEW x \in Blocks \ {Genesis}, Below(Parent[x]), NEW y \in Path[x]
               PROVE  /\ y # x => Height[y] < Height[x]
                      /\ y # x => \E n \in Path[x] \ {Genesis} : Parent[n] = y
                      /\ \A c \in Path[x] : y \in Path[c] \/ c \in Path[y]
    OBVIOUS
  <2>1. /\ Parent[x] \in Blocks /\ Path[x] = Path[Parent[x]] \cup {x}
        /\ Height[x] = Height[Parent[x]] + 1 /\ x \in Path[x]
    BY TreeAssumption, ChainFacts
  <2>2. Height[x] \in Nat /\ Height[Parent[x]] \in Nat /\ y \in Blocks /\ Height[y] \in Nat
    BY <2>1, TreeAssumption, ChainFacts
  <2>3. y # x => Height[y] < Height[x]
    BY <2>1, <2>2
  <2>4. y # x => \E n \in Path[x] \ {Genesis} : Parent[n] = y
    BY <2>1
  <2>5. \A c \in Path[x] : y \in Path[c] \/ c \in Path[y]
    BY <2>1
  <2> QED BY <2>3, <2>4, <2>5
<1>3. Blocks \subseteq Good
  <2> HIDE DEF Good
  <2> QED BY <1>1, <1>2, TreeInduction
<1>4. b \in Good /\ a \in Good
  BY <1>3, ChainFacts
<1>5. b \in Path[a] => a = b
  <2> SUFFICES ASSUME b \in Path[a], a # b
               PROVE  FALSE
    OBVIOUS
  <2>1. Height[a] < Height[b] /\ Height[b] < Height[a]
    BY <1>4
  <2>2. Height[a] \in Nat /\ Height[b] \in Nat
    BY <1>4, TreeAssumption
  <2> QED BY <2>1, <2>2
<1> QED BY <1>4, <1>5

\* A chain has one block of every height.
LEMMA HeightsOnChain ==
  ASSUME NEW b \in Blocks
  PROVE  /\ \A h \in 0 .. Height[b] : \E a \in Path[b] : Height[a] = h
         /\ \A a, c \in Path[b] : Height[a] = Height[c] => a = c
<1> DEFINE Full(x) == \A h \in 0 .. Height[x] : \E a \in Path[x] : Height[a] = h
           Good == {x \in Blocks : Full(x)}
<1>1. Genesis \in Good
  BY TreeAssumption
<1>2. \A x \in Blocks \ {Genesis} : Parent[x] \in Good => x \in Good
  <2> SUFFICES ASSUME NEW x \in Blocks \ {Genesis}, Full(Parent[x]), NEW h \in 0 .. Height[x]
               PROVE  \E a \in Path[x] : Height[a] = h
    OBVIOUS
  <2>1. /\ Parent[x] \in Blocks /\ Path[x] = Path[Parent[x]] \cup {x}
        /\ Height[x] = Height[Parent[x]] + 1 /\ Height[Parent[x]] \in Nat
    BY TreeAssumption
  <2>2. h = Height[x] \/ h \in 0 .. Height[Parent[x]]
    BY <2>1
  <2> QED BY <2>1, <2>2
<1>3. Blocks \subseteq Good
  <2> HIDE DEF Good
  <2> QED BY <1>1, <1>2, TreeInduction
<1>4. ASSUME NEW a \in Path[b], NEW c \in Path[b], Height[a] = Height[c]
      PROVE  a = c
  <2>1. a \in Blocks /\ c \in Blocks
    BY ChainFacts
  <2>2. Height[a] \in Nat /\ Height[c] \in Nat
    BY <2>1, TreeAssumption
  <2>3. a \in Path[c] \/ c \in Path[a]
    BY OrderOnChain
  <2> QED BY <1>4, <2>1, <2>2, <2>3, OrderOnChain
<1> QED BY <1>3, <1>4

\* Two chains part at one block.
LEMMA ForkOfChains ==
  ASSUME NEW a \in Blocks, NEW b \in Blocks
  PROVE  \E f \in Path[a] \cap Path[b] : \A c \in Path[a] \cap Path[b] : Height[c] <= Height[f]
<1> DEFINE common == Path[a] \cap Path[b]
           T == {Height[a] - Height[c] : c \in common}
<1>1. \A c \in common : Height[c] \in Nat /\ Height[c] <= Height[a]
  <2> TAKE c \in common
  <2>1. c \in Blocks /\ Height[c] \in Nat /\ Height[a] \in Nat
    BY ChainFacts, TreeAssumption
  <2> QED BY <2>1, OrderOnChain
<1>2. Height[a] \in Nat /\ Genesis \in common
  BY TreeAssumption, ChainFacts
<1>3. T \subseteq Nat /\ T # {}
  BY <1>1, <1>2
<1>4. PICK d \in T : \A e \in T : d <= e
  <2> HIDE DEF T
  <2> QED BY <1>3, LeastElement
<1>5. PICK f \in common : d = Height[a] - Height[f]
  BY <1>4
<1>6. \A c \in common : Height[c] <= Height[f]
  <2> TAKE c \in common
  <2>1. Height[a] - Height[f] <= Height[a] - Height[c]
    BY <1>4, <1>5
  <2> QED BY <1>1, <1>2, <2>1
<1> QED BY <1>6

\* A block is not on the chain of its parent.
LEMMA ParentFacts ==
  ASSUME NEW b \in Blocks \ {Genesis}
  PROVE  /\ Parent[b] \in Blocks /\ Path[b] = Path[Parent[b]] \cup {b}
         /\ b \notin Path[Parent[b]] /\ Height[b] = Height[Parent[b]] + 1
         /\ Height[Parent[b]] \in Nat /\ b \in Path[b]
<1>1. Parent[b] \in Blocks /\ Path[b] = Path[Parent[b]] \cup {b}
      /\ Height[b] = Height[Parent[b]] + 1
  BY TreeAssumption
<1>2. b \notin Path[Parent[b]]
  <2> SUFFICES ASSUME b \in Path[Parent[b]]
               PROVE  FALSE
    OBVIOUS
  <2>1. b # Parent[b] => Height[b] < Height[Parent[b]]
    BY <1>1, OrderOnChain
  <2>2. Height[Parent[b]] \in Nat
    BY <1>1, TreeAssumption
  <2> QED BY <1>1, <2>1, <2>2
<1> QED BY <1>1, <1>2, TreeAssumption

-----------------------------------------------------------------------------
(* Folds. *)

\* The function a fold over S is the value of: c chooses an element, g makes the value from
\* what is folded and the value of the rest.
FoldsInto(S, D, base, c, g) ==
  /\ IsFiniteSet(S) /\ base \in D
  /\ \A s \in SUBSET S : s # {} => c[s] \in s
  /\ \A s \in SUBSET S : \A d \in D : s # {} => g[s][d] \in D
IsFold(F, S, base, c, g) ==
  F = [s \in SUBSET S |-> IF s = {} THEN base ELSE g[s][F[s \ {c[s]}]]]

\* There is one.
LEMMA FoldExists ==
  ASSUME NEW S, NEW D, NEW base, NEW c, NEW g, FoldsInto(S, D, base, c, g)
  PROVE  \E F \in [SUBSET S -> D] : IsFold(F, S, base, c, g)
<1> DEFINE Sub(n) == {s \in SUBSET S : Cardinality(s) <= n}
           Upto(F, n) == /\ F \in [Sub(n) -> D]
                         /\ \A s \in Sub(n) : F[s] = IF s = {} THEN base ELSE g[s][F[s \ {c[s]}]]
           Good == {n \in Nat : \E F : Upto(F, n)}
<1> USE DEF FoldsInto
<1>1. \A s \in SUBSET S : IsFiniteSet(s) /\ Cardinality(s) \in Nat
        /\ (Cardinality(s) = 0 <=> s = {})
  BY FS_Subset, FS_CardinalityType, FS_EmptySet
<1>2. \A s \in SUBSET S : s # {}
        => s \ {c[s]} \in SUBSET S /\ Cardinality(s \ {c[s]}) = Cardinality(s) - 1
  BY <1>1, FS_RemoveElement
<1>3. 0 \in Good
  <2> DEFINE F == [s \in Sub(0) |-> base]
  <2>1. \A s \in Sub(0) : s = {}
    BY <1>1
  <2>2. Upto(F, 0)
    BY <2>1
  <2> QED BY <2>2
<1>4. ASSUME NEW n \in Nat, n \in Good
      PROVE  n + 1 \in Good
  <2>1. PICK F : Upto(F, n)
    BY <1>4
  <2> DEFINE G == [s \in Sub(n + 1) |-> IF s = {} THEN base ELSE g[s][F[s \ {c[s]}]]]
  <2>2. \A s \in Sub(n + 1) : s # {} => s \ {c[s]} \in Sub(n)
    BY <1>1, <1>2
  <2>3. G \in [Sub(n + 1) -> D]
    BY <2>1, <2>2
  <2>4. \A s \in Sub(n) : s \in Sub(n + 1) /\ G[s] = F[s]
    <3> TAKE s \in Sub(n)
    <3>1. Cardinality(s) <= n + 1
      BY <1>1
    <3> QED BY <2>1, <3>1
  <2>5. Upto(G, n + 1)
    BY <2>2, <2>3, <2>4
  <2> HIDE DEF Upto, G
  <2>6. n + 1 \in Nat
    OBVIOUS
  <2> QED BY <2>5, <2>6
<1>5. Nat \subseteq Good
  <2> HIDE DEF Good
  <2> QED BY <1>3, <1>4, UpByOne
<1>6. PICK F : Upto(F, Cardinality(S))
  BY <1>1, <1>5
<1>7. Sub(Cardinality(S)) = SUBSET S
  BY FS_Subset
<1>8. F \in [SUBSET S -> D] /\ IsFold(F, S, base, c, g)
  BY <1>6, <1>7 DEF IsFold
<1> QED BY <1>8

-----------------------------------------------------------------------------
(* Sums. *)

Picks(S) == [s \in SUBSET S |-> Pick(s)]
Adding(v, S) == [s \in SUBSET S |-> [d \in Int |-> v[Pick(s)] + d]]

SumsUp(v, S, F) == F = [s \in SUBSET S |-> IF s = {} THEN 0 ELSE v[Pick(s)] + F[s \ {Pick(s)}]]
SumIter(v, S) == CHOOSE F : SumsUp(v, S, F)

\* What SumFunctionOnSet stands for: the sum of the whole set, of the function it chooses.
LEMMA SumIs == ASSUME NEW v, NEW S PROVE SumFunctionOnSet(v, S) = SumIter(v, S)[S]
BY DEF SumFunctionOnSet, FoldFunctionOnSet, MapThenFoldSet, SumIter, SumsUp, Pick

\* There is such a function.
LEMMA SumExists ==
  ASSUME NEW v, NEW S, IsFiniteSet(S), \A x \in S : v[x] \in Int
  PROVE  \E F \in [SUBSET S -> Int] : SumsUp(v, S, F)
<1> DEFINE c == Picks(S)
           g == Adding(v, S)
<1>1. \A s \in SUBSET S : s # {} => Pick(s) \in s
  BY DEF Pick
<1>2. \A s \in SUBSET S : c[s] = Pick(s)
  BY DEF Picks
<1>3. \A s \in SUBSET S : \A d \in Int : g[s][d] = v[Pick(s)] + d
  BY DEF Adding
<1> HIDE DEF c, g
<1>4. FoldsInto(S, Int, 0, c, g)
  BY <1>1, <1>2, <1>3 DEF FoldsInto
<1>5. PICK F \in [SUBSET S -> Int] : IsFold(F, S, 0, c, g)
  BY <1>4, FoldExists
<1>6. \A s \in SUBSET S : s # {} => F[s \ {c[s]}] \in Int
  OBVIOUS
<1>7. ASSUME NEW s \in SUBSET S
      PROVE  F[s] = IF s = {} THEN 0 ELSE v[Pick(s)] + F[s \ {Pick(s)}]
  <2>1. F[s] = IF s = {} THEN 0 ELSE g[s][F[s \ {c[s]}]]
    BY <1>5 DEF IsFold
  <2> QED BY <1>2, <1>3, <1>6, <2>1
<1>8. SumsUp(v, S, F)
  BY <1>7 DEF SumsUp
<1> QED BY <1>8

\* Any two of them agree.
LEMMA SumUnique ==
  ASSUME NEW v, NEW S, IsFiniteSet(S), NEW R, R \subseteq S,
         NEW F, NEW G, SumsUp(v, S, F), SumsUp(v, R, G)
  PROVE  \A s \in SUBSET R : F[s] = G[s]
<1> DEFINE Good == {s \in SUBSET R : F[s] = G[s]}
<1>1. ASSUME NEW s \in SUBSET R, \A x \in s : s \ {x} \in Good
      PROVE  s \in Good
  <2>1. F[s] = IF s = {} THEN 0 ELSE v[Pick(s)] + F[s \ {Pick(s)}]
    BY DEF SumsUp
  <2>2. G[s] = IF s = {} THEN 0 ELSE v[Pick(s)] + G[s \ {Pick(s)}]
    BY DEF SumsUp
  <2>3. s # {} => Pick(s) \in s
    BY DEF Pick
  <2> QED BY <1>1, <2>1, <2>2, <2>3
<1>2. IsFiniteSet(R)
  BY FS_Subset
<1>3. SUBSET R \subseteq Good
  <2>1. GrowsIn(R, Good)
    <3> HIDE DEF Good
    <3> QED BY <1>1 DEF GrowsIn
  <2> HIDE DEF Good
  <2> QED BY <1>2, <2>1, SubsetInduction
<1> QED BY <1>3

\* The sum over a finite set is an integer, 0 over the empty set, and that of any element and
\* of the others.
LEMMA SumOut ==
  ASSUME NEW v, NEW S, IsFiniteSet(S), \A x \in S : v[x] \in Int
  PROVE  /\ SumFunctionOnSet(v, S) \in Int
         /\ S = {} => SumFunctionOnSet(v, S) = 0
         /\ \A x \in S : SumFunctionOnSet(v, S) = v[x] + SumFunctionOnSet(v, S \ {x})
<1>1. PICK F \in [SUBSET S -> Int] : SumsUp(v, S, F)
  BY SumExists
<1>2. ASSUME NEW R \in SUBSET S
      PROVE  SumFunctionOnSet(v, R) = F[R]
  <2>1. IsFiniteSet(R) /\ \A x \in R : v[x] \in Int
    BY FS_Subset
  <2>2. SumsUp(v, R, SumIter(v, R))
    BY <2>1, SumExists DEF SumIter
  <2>3. SumIter(v, R)[R] = F[R]
    BY <1>1, <2>2, SumUnique
  <2> QED BY <2>3, SumIs
<1>3. \A s \in SUBSET S : F[s] = IF s = {} THEN 0 ELSE v[Pick(s)] + F[s \ {Pick(s)}]
  BY <1>1 DEF SumsUp
<1> DEFINE Good == {s \in SUBSET S : \A x \in s : F[s] = v[x] + F[s \ {x}]}
<1>4. ASSUME NEW s \in SUBSET S, \A x \in s : s \ {x} \in Good
      PROVE  s \in Good
  <2> SUFFICES ASSUME NEW x \in s
               PROVE  F[s] = v[x] + F[s \ {x}]
    OBVIOUS
  <2> DEFINE y == Pick(s)
  <2>1. y \in s /\ F[s] = v[y] + F[s \ {y}]
    BY <1>3 DEF Pick
  <2>2. CASE x = y
    BY <2>1, <2>2
  <2>3. CASE x # y
    <3>1. F[s \ {y}] = v[x] + F[(s \ {y}) \ {x}]
      BY <1>4, <2>1, <2>3
    <3>2. F[s \ {x}] = v[y] + F[(s \ {x}) \ {y}]
      BY <1>4, <2>1, <2>3
    <3>3. F[(s \ {y}) \ {x}] = F[(s \ {x}) \ {y}]
      <4>1. (s \ {y}) \ {x} = (s \ {x}) \ {y}
        OBVIOUS
      <4> QED BY <4>1
    <3>4. F[(s \ {y}) \ {x}] \in Int /\ v[x] \in Int /\ v[y] \in Int
      BY <2>1
    <3> HIDE DEF y
    <3> QED BY <2>1, <3>1, <3>2, <3>3, <3>4
  <2> QED BY <2>2, <2>3
<1>5. S \in Good
  <2>1. GrowsIn(S, Good)
    <3> HIDE DEF Good
    <3> QED BY <1>4 DEF GrowsIn
  <2> HIDE DEF Good
  <2> QED BY <2>1, SubsetInduction
<1> QED BY <1>2, <1>3, <1>5

\* The sum over two sets that have nothing in common.
LEMMA SumUnion ==
  ASSUME NEW v, NEW S, NEW T, IsFiniteSet(S), IsFiniteSet(T), S \cap T = {},
         \A x \in S \cup T : v[x] \in Int
  PROVE  SumFunctionOnSet(v, S \cup T) = SumFunctionOnSet(v, S) + SumFunctionOnSet(v, T)
<1> DEFINE sum == [R \in SUBSET (S \cup T) |-> SumFunctionOnSet(v, R)]
           Good == {t \in SUBSET T : sum[S \cup t] = sum[S] + sum[t]}
<1>1. \A R \in SUBSET (S \cup T) : /\ IsFiniteSet(R) /\ \A x \in R : v[x] \in Int
                                   /\ sum[R] \in Int /\ (R = {} => sum[R] = 0)
                                   /\ \A x \in R : sum[R] = v[x] + sum[R \ {x}]
  <2> TAKE R \in SUBSET (S \cup T)
  <2>1. IsFiniteSet(R) /\ \A x \in R : v[x] \in Int
    BY FS_Union, FS_Subset
  <2> QED BY <2>1, SumOut
<1> HIDE DEF sum
<1>2. ASSUME NEW t \in SUBSET T, \A x \in t : t \ {x} \in Good
      PROVE  sum[S \cup t] = sum[S] + sum[t]
  <2>1. CASE t = {}
    <3>1. S \cup t = S /\ sum[t] = 0 /\ sum[S] \in Int
      BY <1>1, <2>1
    <3> QED BY <3>1
  <2>2. CASE t # {}
    <3>1. PICK x \in t : TRUE
      BY <2>2
    <3>2. sum[S \cup t] = v[x] + sum[(S \cup t) \ {x}] /\ sum[t] = v[x] + sum[t \ {x}]
      BY <1>1
    <3>3. sum[(S \cup t) \ {x}] = sum[S \cup (t \ {x})]
      <4>1. (S \cup t) \ {x} = S \cup (t \ {x})
        OBVIOUS
      <4> QED BY <4>1
    <3>4. sum[S \cup (t \ {x})] = sum[S] + sum[t \ {x}]
      BY <1>2
    <3>5. v[x] \in Int /\ sum[S] \in Int /\ sum[t \ {x}] \in Int
      BY <1>1
    <3> QED BY <3>2, <3>3, <3>4, <3>5
  <2> QED BY <2>1, <2>2
<1>3. GrowsIn(T, Good)
  BY <1>2 DEF GrowsIn
<1>4. T \in Good
  <2> HIDE DEF Good
  <2> QED BY <1>3, SubsetInduction
<1> QED BY <1>4 DEF sum

-----------------------------------------------------------------------------
(* Sequences folded from the left.  FoldLeft is a fold over the set of the  *)
(* positions, each time taking the largest out: g[k] is the step at k.      *)

\* The largest of the first numbers is the last.
LEMMA MaxOfFirst ==
  ASSUME NEW k \in Nat \ {0}
  PROVE  Max(1 .. k) = k /\ (1 .. k) \ {k} = 1 .. (k - 1) /\ 1 .. k # {}
<1>1. k \in 1 .. k /\ \A y \in 1 .. k : k >= y
  OBVIOUS
<1>2. \A x \in 1 .. k : (\A y \in 1 .. k : x >= y) => x = k
  BY <1>1
<1>3. Max(1 .. k) = k
  BY <1>1, <1>2 DEF Max
<1> QED BY <1>1, <1>3

\* A set of them has a largest.
LEMMA MaxOf ==
  ASSUME NEW n \in Nat, NEW s \in SUBSET (1 .. n), s # {}
  PROVE  Max(s) \in s
<1> DEFINE T == {n - x : x \in s}
<1>1. T \subseteq Nat /\ T # {}
  <2>1. \A x \in s : n - x \in Nat
    OBVIOUS
  <2> QED BY <2>1
<1>2. PICK d \in T : \A e \in T : d <= e
  <2> HIDE DEF T
  <2> QED BY <1>1, LeastElement
<1>3. PICK x \in s : d = n - x
  BY <1>2
<1>4. \A y \in s : x >= y
  <2> TAKE y \in s
  <2>1. n - x <= n - y
    BY <1>2, <1>3
  <2> QED BY <2>1
<1> QED BY <1>3, <1>4 DEF Max

\* The steps from 1 to n, from base and within D, and a fold that takes them.
StepsIn(n, D, base, g) == n \in Nat /\ base \in D /\ g \in [1 .. n -> [D -> D]]
RunsBy(F, n, D, base, g) ==
  \A s \in SUBSET (1 .. n) :
    /\ s = {} => F[s] = base
    /\ s # {} => /\ Max(s) \in 1 .. n /\ F[s \ {Max(s)}] \in D
                 /\ F[s] = g[Max(s)][F[s \ {Max(s)}]]

\* There is one.
LEMMA RunExists ==
  ASSUME NEW n, NEW D, NEW base, NEW g, StepsIn(n, D, base, g)
  PROVE  \E F \in [SUBSET (1 .. n) -> D] : RunsBy(F, n, D, base, g)
<1> DEFINE S == 1 .. n
           c == [s \in SUBSET S |-> Max(s)]
           h == [s \in SUBSET S |-> g[Max(s)]]
<1>0. n \in Nat /\ base \in D /\ g \in [1 .. n -> [D -> D]]
  BY DEF StepsIn
<1>1. \A s \in SUBSET S : s # {} => c[s] \in s /\ c[s] = Max(s) /\ h[s] = g[c[s]]
  BY <1>0, MaxOf
<1>2. \A s \in SUBSET S : \A d \in D : s # {} => h[s][d] \in D
  <2> TAKE s \in SUBSET S
  <2> TAKE d \in D
  <2> SUFFICES ASSUME s # {} PROVE h[s][d] \in D
    OBVIOUS
  <2>1. c[s] \in 1 .. n /\ h[s] = g[c[s]]
    BY <1>1
  <2> HIDE DEF c, h
  <2> QED BY <1>0, <2>1
<1>3. IsFiniteSet(S)
  BY <1>0, FS_Interval
<1> HIDE DEF c, h, S
<1>4. FoldsInto(S, D, base, c, h)
  BY <1>0, <1>1, <1>2, <1>3 DEF FoldsInto
<1>5. PICK F \in [SUBSET S -> D] : IsFold(F, S, base, c, h)
  BY <1>4, FoldExists
<1>6. \A s \in SUBSET S : F[s] = IF s = {} THEN base ELSE h[s][F[s \ {c[s]}]]
  BY <1>5 DEF IsFold
<1>7. ASSUME NEW s \in SUBSET (1 .. n), s # {}
      PROVE  /\ Max(s) \in 1 .. n /\ F[s \ {Max(s)}] \in D
             /\ F[s] = g[Max(s)][F[s \ {Max(s)}]]
  <2>1. Max(s) \in 1 .. n
    BY <1>0, <1>7, MaxOf
  <2>2. s \in SUBSET S /\ s \ {Max(s)} \in SUBSET S
    BY DEF S
  <2>3. h[s] = g[c[s]] /\ c[s] = Max(s)
    BY <1>1, <1>7, <2>2
  <2> QED BY <1>5, <1>6, <1>7, <2>1, <2>2, <2>3
<1>8. F[{}] = base
  BY <1>6
<1> QED BY <1>7, <1>8 DEF S, RunsBy

\* The first numbers, one more at a time.
LEMMA FirstNumbers ==
  ASSUME NEW n \in Nat, NEW k \in 1 .. n
  PROVE  /\ 1 .. k \in SUBSET (1 .. n) /\ 1 .. (k - 1) \in SUBSET (1 .. n) /\ 1 .. k # {}
         /\ Max(1 .. k) = k /\ (1 .. k) \ {k} = 1 .. (k - 1)
<1>1. k \in Nat \ {0}
  OBVIOUS
<1>2. 1 .. k \in SUBSET (1 .. n) /\ 1 .. (k - 1) \in SUBSET (1 .. n)
  OBVIOUS
<1> QED BY <1>1, <1>2, MaxOfFirst

\* A function of sets that does on the first k numbers what g[k] does on the first k - 1 goes
\* through them one by one.
LEMMA RunOf ==
  ASSUME NEW n, NEW D, NEW base, NEW g, StepsIn(n, D, base, g),
         NEW H, H[{}] = base,
         \A k \in 1 .. n : H[1 .. (k - 1)] \in D => H[1 .. k] = g[k][H[1 .. (k - 1)]]
  PROVE  \E P \in [0 .. n -> D] :
           P[0] = base /\ P[n] = H[1 .. n] /\ \A k \in 1 .. n : P[k] = g[k][P[k - 1]]
<1> DEFINE P == [k \in 0 .. n |-> H[1 .. k]]
           Good == {k \in Nat : k \in 0 .. n => P[k] \in D}
<1>1. n \in Nat /\ base \in D /\ g \in [1 .. n -> [D -> D]]
  BY DEF StepsIn
<1>2. P[0] = base /\ P[n] = H[1 .. n]
  <2>1. 1 .. 0 = {} /\ 0 \in 0 .. n /\ n \in 0 .. n
    BY <1>1
  <2> QED BY <2>1
<1>3. ASSUME NEW k \in 1 .. n, P[k - 1] \in D
      PROVE  P[k] = g[k][P[k - 1]]
  <2>1. k \in 0 .. n /\ k - 1 \in 0 .. n
    BY <1>1
  <2> QED BY <1>3, <2>1
<1> HIDE DEF P
<1>4. 0 \in Good
  BY <1>1, <1>2
<1>5. ASSUME NEW k \in Nat, k \in Good
      PROVE  k + 1 \in Good
  <2> SUFFICES ASSUME k + 1 \in 0 .. n
               PROVE  P[k + 1] \in D
    OBVIOUS
  <2>1. k \in 0 .. n /\ k + 1 \in 1 .. n /\ (k + 1) - 1 = k
    BY <1>1
  <2>2. P[k + 1] = g[k + 1][P[k]] /\ P[k] \in D
    BY <1>3, <1>5, <2>1
  <2> QED BY <1>1, <2>1, <2>2
<1>6. Nat \subseteq Good
  <2> HIDE DEF Good
  <2> QED BY <1>4, <1>5, UpByOne
<1>7. \A k \in 0 .. n : P[k] \in D
  BY <1>1, <1>6
<1>8. \A k \in 1 .. n : k - 1 \in 0 .. n
  BY <1>1
<1>9. P \in [0 .. n -> D]
  BY <1>7 DEF P
<1> QED BY <1>2, <1>3, <1>7, <1>8, <1>9

\* A fold that takes the steps of g wherever g is defined goes through the sequence one by one.
FoldsBy(G, n, D, base, g) ==
  \A s \in SUBSET (1 .. n) :
    /\ s = {} => G[s] = base
    /\ s # {} /\ Max(s) \in 1 .. n /\ G[s \ {Max(s)}] \in D
         => G[s] = g[Max(s)][G[s \ {Max(s)}]]

LEMMA FoldRuns ==
  ASSUME NEW n, NEW D, NEW base, NEW g, StepsIn(n, D, base, g), NEW G, FoldsBy(G, n, D, base, g)
  PROVE  \E P \in [0 .. n -> D] :
           P[0] = base /\ P[n] = G[1 .. n] /\ \A k \in 1 .. n : P[k] = g[k][P[k - 1]]
<1>1. n \in Nat
  BY DEF StepsIn
<1>2. G[{}] = base
  BY DEF FoldsBy
<1>3. ASSUME NEW k \in 1 .. n, G[1 .. (k - 1)] \in D
      PROVE  G[1 .. k] = g[k][G[1 .. (k - 1)]]
  <2>1. /\ 1 .. k \in SUBSET (1 .. n) /\ 1 .. k # {}
        /\ Max(1 .. k) = k /\ (1 .. k) \ {k} = 1 .. (k - 1)
    BY <1>1, FirstNumbers
  <2> QED BY <1>3, <2>1 DEF FoldsBy
<1> QED BY <1>2, <1>3, RunOf
=============================================================================
