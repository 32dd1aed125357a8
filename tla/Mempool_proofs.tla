--------------------------- MODULE Mempool_proofs ---------------------------
(***************************************************************************)
(* The pool fits the chain, what packages are told is true, every entry    *)
(* can go into the next block, templates are valid and leave nothing out,  *)
(* and reorganisations lose nothing but to the limits: for every set of    *)
(* transactions and tree of blocks that ConnectBlock would accept, all     *)
(* limits and all fees.                                                    *)
(*                                                                         *)
(* Five invariants are behind it, each resting on those before it.         *)
(*                                                                         *)
(* MempoolInv: an entry spends the coins of the tip, outputs of other      *)
(* entries and, during a reorganisation, outputs of the disconnected       *)
(* transactions.  Whatever leaves the pool leaves with its descendants, so *)
(* no entry that stays loses what it spends; and whatever comes in has no  *)
(* ancestor among its conflicts, so none of its inputs leave with them.    *)
(*                                                                         *)
(* LocksInv: the lock points of an entry tell the truth about every chain  *)
(* through their block, so that removeForReorg may believe them while they *)
(* are valid; and what has waited long enough on a chain has on any longer *)
(* one.                                                                    *)
(*                                                                         *)
(* AssemblyInv: the block so far has every transaction after its ancestors *)
(* and fits; mapModifiedTx sums what is left of each package.              *)
(*                                                                         *)
(* LimitsInv: only what descends from transactions that a reorganisation   *)
(* has brought back may have too many ancestors, and that is what          *)
(* UpdateTransactionsFromBlock looks at.                                   *)
(*                                                                         *)
(* ReturnInv: what was disconnected waits in the order of the old chain,   *)
(* at odds with nothing in the pool; so what has come back never leaves    *)
(* with what comes later, and what was refused for its locks or its coins  *)
(* would still be.                                                         *)
(***************************************************************************)
EXTENDS BlockAssembler, BlockTree_proofs, SequenceTheorems

-----------------------------------------------------------------------------
(* Ancestors and Descendants: the closures that the folds compute. *)

\* One step along a relation within P; repeated as often as P has elements.
Along(R, P, S) == {y \in P : \E x \in S : <<x, y>> \in R}
Closes(F, R, P, base) ==
  \A s \in SUBSET P :
    F[s] = IF s = {} THEN base ELSE F[s \ {Pick(s)}] \cup Along(R, P, F[s \ {Pick(s)}])
IsClosure(C, R, P, base) ==
  /\ base \subseteq C /\ C \subseteq base \cup P
  /\ Along(R, P, C) \subseteq C
  /\ \A Z \in SUBSET Txs : base \subseteq Z /\ Along(R, P, Z) \subseteq Z => C \subseteq Z

\* Such a fold computes the least set with base that is closed under the relation: every
\* round adds an element or there is nothing to add.
LEMMA ClosureIsLeast ==
  ASSUME NEW P \in SUBSET Txs, NEW R, NEW base \in SUBSET Txs,
         NEW F, Closes(F, R, P, base)
  PROVE  IsClosure(F[P], R, P, base)
<1> DEFINE Within(s) == base \subseteq F[s] /\ F[s] \subseteq base \cup P
           Least(s) == \A Z \in SUBSET Txs :
                         base \subseteq Z /\ Along(R, P, Z) \subseteq Z => F[s] \subseteq Z
           Full(s) == Along(R, P, F[s]) \subseteq F[s] \/ Cardinality(F[s] \cap P) >= Cardinality(s)
           Good == {s \in SUBSET P : Within(s) /\ Least(s) /\ Full(s)}
<1>0. \A s \in SUBSET P : IsFiniteSet(s) /\ Cardinality(s) \in Nat
  BY TxAssumption, FS_Subset, FS_CardinalityType
<1>1. ASSUME NEW s \in SUBSET P, s = {}
      PROVE  s \in Good
  <2>1. F[s] = base
    BY <1>1 DEF Closes
  <2>2. Cardinality(s) = 0 /\ Cardinality(F[s] \cap P) \in Nat
    BY <1>0, <1>1, FS_EmptySet
  <2> QED BY <2>1, <2>2
<1>2. ASSUME NEW s \in SUBSET P, s # {}, \A x \in s : s \ {x} \in Good
      PROVE  s \in Good
  <2> DEFINE x == Pick(s)
             r == s \ {x}
             f == F[r]
  <2>1. x \in s /\ r \in Good /\ r \in SUBSET P
    BY <1>2 DEF Pick
  <2>2. F[s] = f \cup Along(R, P, f)
    BY <1>2 DEF Closes
  <2>3. Within(r) /\ Least(r) /\ Full(r)
    BY <2>1
  <2>4. Within(s)
    BY <2>2, <2>3 DEF Along
  <2>5. Least(s)
    BY <2>2, <2>3 DEF Along
  <2>6. Full(s)
    <3>1. CASE Along(R, P, f) \subseteq f
      <4>1. F[s] = f
        BY <2>2, <3>1
      <4> QED BY <3>1, <4>1
    <3>2. CASE ~(Along(R, P, f) \subseteq f)
      <4>1. PICK y \in P : y \in Along(R, P, f) /\ y \notin f
        BY <3>2 DEF Along
      <4> DEFINE A == f \cap P
                 B == F[s] \cap P
      <4>2. A \in SUBSET P /\ B \in SUBSET P /\ A \cup {y} \in SUBSET B /\ y \notin A
        BY <2>2, <4>1
      <4> HIDE DEF A, B
      <4>3. /\ IsFiniteSet(A) /\ IsFiniteSet(B) /\ Cardinality(A) \in Nat /\ Cardinality(B) \in Nat
        BY <1>0, <4>2
      <4>4. Cardinality(A \cup {y}) = Cardinality(A) + 1
        BY <4>2, <4>3, FS_AddElement
      <4>5. Cardinality(A \cup {y}) <= Cardinality(B)
        BY <4>2, <4>3, FS_Subset
      <4>6. Cardinality(r) = Cardinality(s) - 1 /\ Cardinality(s) \in Nat
        BY <1>0, <2>1, FS_RemoveElement
      <4>7. Cardinality(A) >= Cardinality(r)
        BY <2>3, <3>2 DEF A
      <4>8. Cardinality(B) >= Cardinality(s)
        BY <4>3, <4>4, <4>5, <4>6, <4>7
      <4> QED BY <4>8 DEF B
    <3> QED BY <3>1, <3>2
  <2> QED BY <2>4, <2>5, <2>6
<1>3. GrowsIn(P, Good)
  BY <1>1, <1>2 DEF GrowsIn
<1>4. P \in Good
  <2> HIDE DEF Good
  <2> QED BY <1>0, <1>3, SubsetInduction
<1>5. Along(R, P, F[P]) \subseteq F[P]
  <2>1. CASE Cardinality(F[P] \cap P) >= Cardinality(P)
    <3> DEFINE B == F[P] \cap P
    <3>1. B \in SUBSET P /\ Cardinality(B) >= Cardinality(P)
      BY <2>1
    <3> HIDE DEF B
    <3>2. Cardinality(B) <= Cardinality(P) /\ Cardinality(B) \in Nat /\ Cardinality(P) \in Nat
      BY <1>0, <3>1, FS_Subset
    <3>3. B = P
      <4>1. Cardinality(P) = Cardinality(B) /\ IsFiniteSet(P)
        BY <1>0, <3>1, <3>2
      <4> QED BY <3>1, <4>1, FS_Subset
    <3> QED BY <3>3 DEF B, Along
  <2> QED BY <1>4, <2>1
<1> QED BY <1>4, <1>5 DEF IsClosure

\* There is such a fold.
LEMMA ClosureExists ==
  ASSUME NEW P \in SUBSET Txs, NEW R, NEW base \in SUBSET Txs
  PROVE  \E F \in [SUBSET P -> SUBSET Txs] : Closes(F, R, P, base)
<1> DEFINE c == Picks(P)
           g == [s \in SUBSET P |-> [d \in SUBSET Txs |-> d \cup Along(R, P, d)]]
<1>0. IsFiniteSet(P)
  BY TxAssumption, FS_Subset
<1>1. \A s \in SUBSET P : s # {} => Pick(s) \in s
  BY DEF Pick
<1>2. \A s \in SUBSET P : c[s] = Pick(s)
  BY DEF Picks
<1>3. \A s \in SUBSET P : \A d \in SUBSET Txs :
        g[s][d] = d \cup Along(R, P, d) /\ g[s][d] \in SUBSET Txs
  BY DEF Along
<1> HIDE DEF c, g
<1>4. FoldsInto(P, SUBSET Txs, base, c, g)
  BY <1>0, <1>1, <1>2, <1>3 DEF FoldsInto
<1>5. PICK F \in [SUBSET P -> SUBSET Txs] : IsFold(F, P, base, c, g)
  BY <1>0, <1>4, FoldExists
<1>6. ASSUME NEW s \in SUBSET P
      PROVE  F[s] = IF s = {} THEN base ELSE F[s \ {Pick(s)}] \cup Along(R, P, F[s \ {Pick(s)}])
  <2>1. F[s] = IF s = {} THEN base ELSE g[s][F[s \ {c[s]}]]
    BY <1>5 DEF IsFold
  <2>2. F[s \ {Pick(s)}] \in SUBSET Txs
    BY <1>5
  <2> QED BY <1>2, <1>3, <2>1, <2>2
<1> QED BY <1>6 DEF Closes

\* Who spends whose outputs, and the other way round.
SpentBy == {tc \in Txs \X Txs : Creates[tc[1]] \cap Spends[tc[2]] # {}}
SpendsOf == {tp \in Txs \X Txs : Creates[tp[2]] \cap Spends[tp[1]] # {}}

\* Children and parents are one step along these relations.
LEMMA Steps ==
  ASSUME NEW P \in SUBSET Txs, NEW S \in SUBSET Txs
  PROVE  Children(S, P) = Along(SpentBy, P, S) /\ Parents(S, P) = Along(SpendsOf, P, S)
BY DEF Children, Parents, Along, SpentBy, SpendsOf

\* The functions that the folds choose.
DescIter(S, P) ==
  CHOOSE F : F = [s \in SUBSET P |-> IF s = {} THEN S
                                     ELSE F[s \ {Pick(s)}] \cup Children(F[s \ {Pick(s)}], P)]
\* Descendants is such a fold.
LEMMA DescendantsAre ==
  ASSUME NEW S, NEW P
  PROVE  Descendants(S, P) = DescIter(S, P)[P]
BY DEF Descendants, FoldSet, MapThenFoldSet, DescIter, Pick

AncIter(t, P) ==
  CHOOSE F : F = [s \in SUBSET P |-> IF s = {} THEN Parents({t}, P)
                                     ELSE F[s \ {Pick(s)}] \cup Parents(F[s \ {Pick(s)}], P)]
\* Ancestors is such a fold.
LEMMA AncestorsAre ==
  ASSUME NEW t, NEW P
  PROVE  Ancestors(t, P) = AncIter(t, P)[P]
BY DEF Ancestors, FoldSet, MapThenFoldSet, AncIter, Pick

\* Descendants: the least set with S and the children of its members.
LEMMA DescendantFacts ==
  ASSUME NEW P \in SUBSET Txs, NEW S \in SUBSET Txs
  PROVE  /\ S \subseteq Descendants(S, P) /\ Descendants(S, P) \subseteq S \cup P
         /\ Children(Descendants(S, P), P) \subseteq Descendants(S, P)
         /\ \A Z \in SUBSET Txs :
              S \subseteq Z /\ Children(Z, P) \subseteq Z => Descendants(S, P) \subseteq Z
<1>0. IsFiniteSet(P)
  BY TxAssumption, FS_Subset
<1> DEFINE Eq(F) == F = [s \in SUBSET P |-> IF s = {} THEN S
                           ELSE F[s \ {Pick(s)}] \cup Children(F[s \ {Pick(s)}], P)]
<1>1. PICK F \in [SUBSET P -> SUBSET Txs] : Closes(F, SpentBy, P, S)
  BY <1>0, ClosureExists
<1>2. Eq(F)
  <2>1. \A s \in SUBSET P :
          F[s] = IF s = {} THEN S ELSE F[s \ {Pick(s)}] \cup Along(SpentBy, P, F[s \ {Pick(s)}])
    BY <1>1 DEF Closes
  <2>2. \A s \in SUBSET P :
          Children(F[s \ {Pick(s)}], P) = Along(SpentBy, P, F[s \ {Pick(s)}])
    BY <1>1, Steps
  <2> QED BY <1>1, <2>1, <2>2
<1> DEFINE G == DescIter(S, P)
<1>3. Eq(G)
  BY <1>2 DEF DescIter
<1> HIDE DEF G
<1>4. \A s \in SUBSET P : G[s] \in SUBSET Txs
  <2> DEFINE Good == {s \in SUBSET P : G[s] \in SUBSET Txs}
  <2>1. GrowsIn(P, Good)
    <3> SUFFICES ASSUME NEW s \in SUBSET P, \A x \in s : s \ {x} \in Good
                 PROVE  G[s] \in SUBSET Txs
      BY DEF GrowsIn
    <3>1. G[s] = IF s = {} THEN S ELSE G[s \ {Pick(s)}] \cup Children(G[s \ {Pick(s)}], P)
      BY <1>3
    <3>2. s # {} => G[s \ {Pick(s)}] \in SUBSET Txs
      BY DEF Pick
    <3> QED BY <3>1, <3>2 DEF Children
  <2> HIDE DEF Good
  <2>2. SUBSET P \subseteq Good
    BY <1>0, <2>1, SubsetInduction
  <2> QED BY <2>2 DEF Good
<1>5. Closes(G, SpentBy, P, S)
  <2>1. \A s \in SUBSET P :
          G[s] = IF s = {} THEN S ELSE G[s \ {Pick(s)}] \cup Children(G[s \ {Pick(s)}], P)
    BY <1>3
  <2>2. \A s \in SUBSET P :
          Children(G[s \ {Pick(s)}], P) = Along(SpentBy, P, G[s \ {Pick(s)}])
    BY <1>4, Steps
  <2> QED BY <2>1, <2>2 DEF Closes
<1>6. Descendants(S, P) = G[P]
  BY DescendantsAre DEF G
<1>7. IsClosure(G[P], SpentBy, P, S)
  BY <1>5, ClosureIsLeast
<1>8. \A Z \in SUBSET Txs : Children(Z, P) = Along(SpentBy, P, Z)
  BY Steps
<1> QED BY <1>4, <1>6, <1>7, <1>8 DEF IsClosure

\* Ancestors: the least set with the parents of t and those of its members.
LEMMA AncestorFacts ==
  ASSUME NEW P \in SUBSET Txs, NEW t \in Txs
  PROVE  /\ Parents({t}, P) \subseteq Ancestors(t, P) /\ Ancestors(t, P) \subseteq P
         /\ Parents(Ancestors(t, P), P) \subseteq Ancestors(t, P)
         /\ \A Z \in SUBSET Txs :
              Parents({t}, P) \subseteq Z /\ Parents(Z, P) \subseteq Z => Ancestors(t, P) \subseteq Z
<1> DEFINE S == Parents({t}, P)
<1>0. IsFiniteSet(P) /\ S \in SUBSET P /\ S \in SUBSET Txs
  BY TxAssumption, FS_Subset DEF Parents
<1> DEFINE Eq(F) == F = [s \in SUBSET P |-> IF s = {} THEN S
                           ELSE F[s \ {Pick(s)}] \cup Parents(F[s \ {Pick(s)}], P)]
           G == AncIter(t, P)
<1>6. Ancestors(t, P) = G[P]
  BY AncestorsAre
<1>11. G = CHOOSE F : Eq(F)
  BY DEF AncIter
<1> HIDE DEF S, G
<1>1. PICK F \in [SUBSET P -> SUBSET Txs] : Closes(F, SpendsOf, P, S)
  BY <1>0, ClosureExists
<1>2. Eq(F)
  <2>1. \A s \in SUBSET P :
          F[s] = IF s = {} THEN S ELSE F[s \ {Pick(s)}] \cup Along(SpendsOf, P, F[s \ {Pick(s)}])
    BY <1>1 DEF Closes
  <2>2. \A s \in SUBSET P :
          Parents(F[s \ {Pick(s)}], P) = Along(SpendsOf, P, F[s \ {Pick(s)}])
    BY <1>1, Steps
  <2> QED BY <1>1, <2>1, <2>2
<1>3. Eq(G)
  BY <1>2, <1>11
<1>4. \A s \in SUBSET P : G[s] \in SUBSET Txs
  <2> DEFINE Good == {s \in SUBSET P : G[s] \in SUBSET Txs}
  <2>1. GrowsIn(P, Good)
    <3> SUFFICES ASSUME NEW s \in SUBSET P, \A x \in s : s \ {x} \in Good
                 PROVE  G[s] \in SUBSET Txs
      BY DEF GrowsIn
    <3>1. G[s] = IF s = {} THEN S ELSE G[s \ {Pick(s)}] \cup Parents(G[s \ {Pick(s)}], P)
      BY <1>3
    <3>2. s # {} => G[s \ {Pick(s)}] \in SUBSET Txs
      BY DEF Pick
    <3> QED BY <1>0, <3>1, <3>2 DEF Parents
  <2> HIDE DEF Good
  <2>2. SUBSET P \subseteq Good
    BY <1>0, <2>1, SubsetInduction
  <2> QED BY <2>2 DEF Good
<1>5. Closes(G, SpendsOf, P, S)
  <2>1. \A s \in SUBSET P :
          G[s] = IF s = {} THEN S ELSE G[s \ {Pick(s)}] \cup Parents(G[s \ {Pick(s)}], P)
    BY <1>3
  <2>2. \A s \in SUBSET P :
          Parents(G[s \ {Pick(s)}], P) = Along(SpendsOf, P, G[s \ {Pick(s)}])
    BY <1>4, Steps
  <2> QED BY <2>1, <2>2 DEF Closes
<1>7. IsClosure(G[P], SpendsOf, P, S)
  BY <1>0, <1>5, ClosureIsLeast
<1>8. \A Z \in SUBSET Txs : Parents(Z, P) = Along(SpendsOf, P, Z)
  BY Steps
<1>9. S \subseteq G[P] /\ G[P] \subseteq P /\ Parents(G[P], P) \subseteq G[P]
  BY <1>0, <1>4, <1>7, <1>8 DEF IsClosure
<1>10. \A Z \in SUBSET Txs : S \subseteq Z /\ Parents(Z, P) \subseteq Z => G[P] \subseteq Z
  BY <1>7, <1>8 DEF IsClosure
<1>12. S = Parents({t}, P)
  BY DEF S
<1> QED BY <1>6, <1>9, <1>10, <1>12

\* When no ancestor of t is in K, none is among the descendants of K either.
LEMMA NoAncestorBelow ==
  ASSUME NEW P \in SUBSET Txs, NEW t \in Txs, NEW K \in SUBSET P, Ancestors(t, P) \cap K = {}
  PROVE  Ancestors(t, P) \cap Descendants(K, P) = {}
<1> DEFINE A == Ancestors(t, P)
           Z == P \ A
<1>1. A \subseteq P /\ Parents(A, P) \subseteq A
  BY AncestorFacts
<1>2. Z \in SUBSET Txs /\ K \subseteq Z /\ K \in SUBSET Txs
  OBVIOUS
<1> HIDE DEF A
<1>3. Children(Z, P) \subseteq Z
  BY <1>1 DEF Children, Parents
<1>4. Descendants(K, P) \subseteq Z
  <2> HIDE DEF Z
  <2> QED BY <1>2, <1>3, DescendantFacts
<1> QED BY <1>4 DEF A

-----------------------------------------------------------------------------
(* What makes a set of entries fit a set of coins. *)

Outs(S) == UNION {Creates[t] : t \in S}
Ins(S) == UNION {Spends[t] : t \in S}
OnceSpent(P) == \A t, u \in P : t # u => Spends[t] \cap Spends[u] = {}
Sourced(P, coins) == \A t \in P : Spends[t] \subseteq coins \cup Outs(P)
LockPoint == [height : Int, maxInputBlock : Blocks]
Entry == [lp : LockPoint, spendsCoinbase : BOOLEAN]
Sound(entries, coins) ==
  /\ DOMAIN entries \subseteq Txs \ Coinbases
  /\ entries \in [DOMAIN entries -> Entry]
  /\ OnceSpent(DOMAIN entries) /\ Sourced(DOMAIN entries, coins)

\* A set of transactions that has the entries that spend its outputs.
ClosedIn(D, P) == D \in SUBSET Txs /\ Children(D, P) \subseteq D
\* The rest of the entries stay sound.
LEMMA ClosedLeaves ==
  ASSUME NEW entries, NEW coins, Sound(entries, coins), NEW D, ClosedIn(D, DOMAIN entries)
  PROVE  /\ Sound(Without(entries, D), coins)
         /\ DOMAIN Without(entries, D) = DOMAIN entries \ D
         /\ \A t \in DOMAIN entries \ D : Without(entries, D)[t] = entries[t]
<1> DEFINE P == DOMAIN entries
           W == Without(entries, D)
<1>1. DOMAIN W = P \ D /\ \A t \in P \ D : W[t] = entries[t]
  BY DEF Without, Restrict
<1>2. W \in [DOMAIN W -> Entry]
  BY <1>1 DEF Without, Restrict, Sound
<1>3. ASSUME NEW t \in P \ D
      PROVE  Spends[t] \subseteq coins \cup Outs(P \ D)
  <2> SUFFICES ASSUME NEW o \in Spends[t], o \notin coins
               PROVE  o \in Outs(P \ D)
    OBVIOUS
  <2>1. PICK p \in P : o \in Creates[p]
    BY DEF Sound, Sourced, Outs
  <2>2. p \notin D
    BY <2>1, <1>3 DEF ClosedIn, Children
  <2> QED BY <2>1, <2>2 DEF Outs
<1>4. OnceSpent(P \ D) /\ P \ D \subseteq Txs \ Coinbases
  BY DEF Sound, OnceSpent
<1> HIDE DEF W
<1>5. Sound(W, coins)
  BY <1>1, <1>2, <1>3, <1>4 DEF Sound, Sourced
<1> QED BY <1>1, <1>5 DEF W

\* What the coins lose may be made up for by nobody left; more coins do no harm.
LEMMA OtherCoins ==
  ASSUME NEW entries, NEW coins, NEW more, Sound(entries, coins),
         \A t \in DOMAIN entries : Spends[t] \cap coins \subseteq more
  PROVE  Sound(entries, more)
BY DEF Sound, Sourced

\* What RemoveRecursive takes out is closed under children.
LEMMA RemovalIsClosed ==
  ASSUME NEW entries, DOMAIN entries \subseteq Txs, NEW S \in SUBSET Txs
  PROVE  \E D : /\ RemoveRecursive(entries, S) = Without(entries, D)
                /\ ClosedIn(D, DOMAIN entries)
                /\ S \cap DOMAIN entries \subseteq D /\ Children(S, DOMAIN entries) \subseteq D
<1> DEFINE P == DOMAIN entries
           X == S \cap P
           Y == Children(S, P)
           D1 == Descendants(X, P)
           D2 == Descendants(Y, P)
<1>1. P \in SUBSET Txs /\ X \in SUBSET Txs /\ Y \in SUBSET Txs /\ X \subseteq P /\ Y \subseteq P
  BY DEF Children
<1>2. RemoveRecursive(entries, S) = Without(entries, D1 \cup D2)
  BY DEF RemoveRecursive
<1> HIDE DEF P, X, Y
<1>3. /\ X \subseteq D1 /\ D1 \subseteq X \cup P /\ Children(D1, P) \subseteq D1
      /\ Y \subseteq D2 /\ D2 \subseteq Y \cup P /\ Children(D2, P) \subseteq D2
  BY <1>1, DescendantFacts
<1> HIDE DEF D1, D2
<1>4. ClosedIn(D1 \cup D2, P)
  BY <1>1, <1>3 DEF ClosedIn, Children
<1>5. X \subseteq D1 \cup D2 /\ Y \subseteq D1 \cup D2
  BY <1>3
<1> QED BY <1>2, <1>4, <1>5 DEF P, X, Y

\* RemoveRecursive keeps the entries sound, even without the coins of what it removes.
LEMMA RemovalSound ==
  ASSUME NEW entries, NEW coins, NEW S \in SUBSET Txs, Sound(entries, coins \cup Outs(S))
  PROVE  /\ Sound(RemoveRecursive(entries, S), coins)
         /\ DOMAIN RemoveRecursive(entries, S) \subseteq DOMAIN entries
         /\ \A t \in DOMAIN RemoveRecursive(entries, S) : RemoveRecursive(entries, S)[t] = entries[t]
<1> DEFINE P == DOMAIN entries
<1>1. DOMAIN entries \subseteq Txs
  BY DEF Sound
<1>2. PICK D : /\ RemoveRecursive(entries, S) = Without(entries, D)
               /\ ClosedIn(D, P) /\ Children(S, P) \subseteq D
  BY <1>1, RemovalIsClosed
<1> DEFINE W == Without(entries, D)
<1>3. Sound(W, coins \cup Outs(S)) /\ DOMAIN W = P \ D /\ \A t \in P \ D : W[t] = entries[t]
  BY <1>2, ClosedLeaves
<1> HIDE DEF W
<1>4. \A t \in P \ D : Spends[t] \cap Outs(S) = {}
  BY <1>2 DEF Children, Outs
<1>5. Sound(W, coins)
  BY <1>3, <1>4, OtherCoins
<1> QED BY <1>2, <1>3, <1>5 DEF W

-----------------------------------------------------------------------------
(* The coins of a chain. *)

\* The transactions of a block.
LEMMA BlockTxsAre ==
  ASSUME NEW b \in Blocks
  PROVE  /\ BlockTxs[b] \in Seq(Txs) /\ ToSet(BlockTxs[b]) \subseteq Txs
         /\ DOMAIN BlockTxs[b] = 1 .. Len(BlockTxs[b]) /\ Len(BlockTxs[b]) \in Nat
BY ChainAssumption DEF ToSet

\* What is confirmed on a chain, block by block.
LEMMA ConfirmedIs ==
  ASSUME NEW b \in Blocks
  PROVE  /\ ConfirmedAt[b] = UNION {ToSet(BlockTxs[a]) : a \in Path[b]}
         /\ ConfirmedAt[b] \subseteq Txs
         /\ b # Genesis => ConfirmedAt[b] = ConfirmedAt[Parent[b]] \cup ToSet(BlockTxs[b])
         /\ b = Genesis => ConfirmedAt[b] = {}
<1>1. \A a \in Blocks : ConfirmedAt[a] = UNION {ToSet(BlockTxs[x]) : x \in Path[a]}
  BY DEF ConfirmedAt, ToSet
<1>2. ConfirmedAt[b] \subseteq Txs
  BY <1>1, ChainFacts, BlockTxsAre
<1>3. ASSUME b # Genesis
      PROVE  ConfirmedAt[b] = ConfirmedAt[Parent[b]] \cup ToSet(BlockTxs[b])
  <2>1. Parent[b] \in Blocks /\ Path[b] = Path[Parent[b]] \cup {b}
    BY <1>3, ParentFacts
  <2> QED BY <1>1, <2>1
<1>4. ASSUME b = Genesis
      PROVE  ConfirmedAt[b] = {}
  <2>1. Path[b] = {Genesis} /\ ToSet(BlockTxs[Genesis]) = {}
    BY <1>4, TreeAssumption, ChainAssumption DEF ToSet
  <2> QED BY <1>1, <2>1
<1> QED BY <1>1, <1>2, <1>3, <1>4

\* The coins of a chain, and their heights.
LEMMA CoinsAre ==
  ASSUME NEW b \in Blocks
  PROVE  /\ DOMAIN CoinsAt[b] = Outs(ConfirmedAt[b]) \ Ins(ConfirmedAt[b])
         /\ \A o \in DOMAIN CoinsAt[b] : CoinsAt[b][o] \in 0 .. Height[b]
<1>1. DOMAIN CoinsAt[b] = Outs(ConfirmedAt[b]) \ Ins(ConfirmedAt[b])
  BY DEF CoinsAt, Outs, Ins
<1>2. ASSUME NEW o \in DOMAIN CoinsAt[b]
      PROVE  CoinsAt[b][o] \in 0 .. Height[b]
  <2> DEFINE At(h) == \E a \in Path[b] :
               Height[a] = h /\ \E i \in DOMAIN BlockTxs[a] : o \in Creates[BlockTxs[a][i]]
  <2>1. CoinsAt[b][o] = CHOOSE h \in 0 .. Height[b] : At(h)
    BY <1>1 DEF CoinsAt, Outs, Ins
  <2>2. PICK t \in ConfirmedAt[b] : o \in Creates[t]
    BY <1>1 DEF Outs
  <2>3. PICK a \in Path[b] : t \in ToSet(BlockTxs[a])
    BY ConfirmedIs
  <2>4. At(Height[a])
    BY <2>2, <2>3 DEF ToSet
  <2>5. Height[a] \in 0 .. Height[b]
    <3>1. a \in Blocks /\ Height[a] \in Nat /\ Height[b] \in Nat
      BY ChainFacts, TreeAssumption
    <3>2. a = b \/ Height[a] < Height[b]
      BY OrderOnChain
    <3> QED BY <3>1, <3>2
  <2> HIDE DEF At
  <2> QED BY <2>1, <2>4, <2>5
<1> QED BY <1>1, <1>2

\* A chain spends nothing that it does not create.
LEMMA ChainSpendsItsOwn ==
  ASSUME NEW b \in Blocks
  PROVE  Ins(ConfirmedAt[b]) \subseteq Outs(ConfirmedAt[b])
<1> DEFINE Good == {x \in Blocks : Ins(ConfirmedAt[x]) \subseteq Outs(ConfirmedAt[x])}
<1>1. Genesis \in Good
  BY ConfirmedIs, TreeAssumption DEF Ins
<1>2. ASSUME NEW x \in Blocks \ {Genesis}, Parent[x] \in Good
      PROVE  x \in Good
  <2>1. ConfirmedAt[x] = ConfirmedAt[Parent[x]] \cup ToSet(BlockTxs[x])
    BY ConfirmedIs
  <2>2. ASSUME NEW i \in DOMAIN BlockTxs[x]
        PROVE  Spends[BlockTxs[x][i]] \subseteq Outs(ConfirmedAt[x])
    <3>1. Spends[BlockTxs[x][i]] \subseteq
            DOMAIN CoinsAt[Parent[x]] \cup UNION {Creates[BlockTxs[x][j]] : j \in 1 .. i - 1}
      BY ChainAssumption
    <3>2. DOMAIN CoinsAt[Parent[x]] \subseteq Outs(ConfirmedAt[x])
      BY <2>1, <1>2, CoinsAre DEF Outs
    <3>3. \A j \in 1 .. i - 1 : j \in DOMAIN BlockTxs[x]
      BY BlockTxsAre
    <3>4. \A j \in 1 .. i - 1 : BlockTxs[x][j] \in ConfirmedAt[x]
      BY <2>1, <3>3 DEF ToSet
    <3>5. UNION {Creates[BlockTxs[x][j]] : j \in 1 .. i - 1} \subseteq Outs(ConfirmedAt[x])
      BY <3>4 DEF Outs
    <3> QED BY <3>1, <3>2, <3>5
  <2>3. \A t \in ToSet(BlockTxs[x]) : Spends[t] \subseteq Outs(ConfirmedAt[x])
    BY <2>2 DEF ToSet
  <2>4. \A t \in ConfirmedAt[Parent[x]] : Spends[t] \subseteq Outs(ConfirmedAt[x])
    BY <1>2, <2>1 DEF Ins, Outs
  <2> QED BY <2>1, <2>3, <2>4 DEF Ins
<1>3. Blocks \subseteq Good
  <2> HIDE DEF Good
  <2> QED BY <1>1, <1>2, TreeInduction
<1> QED BY <1>3

\* Without its last block a chain has the coins it had, but those the block created.
LEMMA CoinsBelow ==
  ASSUME NEW b \in Blocks \ {Genesis}
  PROVE  DOMAIN CoinsAt[b] \subseteq DOMAIN CoinsAt[Parent[b]] \cup Outs(ToSet(BlockTxs[b]))
<1>1. ConfirmedAt[b] = ConfirmedAt[Parent[b]] \cup ToSet(BlockTxs[b]) /\ Parent[b] \in Blocks
  BY ConfirmedIs, ParentFacts
<1>2. DOMAIN CoinsAt[b] = Outs(ConfirmedAt[b]) \ Ins(ConfirmedAt[b])
  BY CoinsAre
<1>3. DOMAIN CoinsAt[Parent[b]] = Outs(ConfirmedAt[Parent[b]]) \ Ins(ConfirmedAt[Parent[b]])
  BY <1>1, CoinsAre
<1> QED BY <1>1, <1>2, <1>3 DEF Outs, Ins

\* With one more block it has all of them, and all that the block creates, but what the
\* block spends.
LEMMA CoinsAbove ==
  ASSUME NEW b \in Blocks \ {Genesis}, NEW o,
         o \in DOMAIN CoinsAt[Parent[b]] \cup Outs(ToSet(BlockTxs[b])),
         o \notin Ins(ToSet(BlockTxs[b]))
  PROVE  o \in DOMAIN CoinsAt[b]
<1> DEFINE p == Parent[b]
           txns == ToSet(BlockTxs[b])
<1>1. ConfirmedAt[b] = ConfirmedAt[p] \cup txns /\ p \in Blocks
  BY ConfirmedIs, ParentFacts
<1>2. DOMAIN CoinsAt[b] = Outs(ConfirmedAt[b]) \ Ins(ConfirmedAt[b])
  BY CoinsAre
<1>3. DOMAIN CoinsAt[p] = Outs(ConfirmedAt[p]) \ Ins(ConfirmedAt[p])
  BY <1>1, CoinsAre
<1>4. ASSUME o \in Outs(txns)
      PROVE  o \notin Ins(ConfirmedAt[p])
  <2>1. PICK t \in txns : o \in Creates[t]
    BY <1>4 DEF Outs
  <2>2. t \notin ConfirmedAt[p] /\ t \in Txs
    BY <2>1, ChainAssumption, BlockTxsAre DEF ToSet
  <2>3. o \notin Outs(ConfirmedAt[p])
    <3>1. ConfirmedAt[p] \subseteq Txs
      BY <1>1, ConfirmedIs
    <3> QED BY <2>1, <2>2, <3>1, TxAssumption DEF Outs
  <2> QED BY <1>1, <2>3, ChainSpendsItsOwn
<1> HIDE DEF p, txns
<1>5. o \in Outs(ConfirmedAt[b])
  BY <1>1, <1>3 DEF Outs, p, txns
<1>6. o \notin Ins(ConfirmedAt[p])
  BY <1>3, <1>4 DEF p, txns
<1>7. o \notin Ins(ConfirmedAt[b])
  BY <1>1, <1>6 DEF Ins, txns
<1> QED BY <1>2, <1>5, <1>7

-----------------------------------------------------------------------------
(* New entries. *)

\* A finite set of natural numbers that is not empty has its Max.
LEMMA MaxOfFinite ==
  ASSUME NEW S \in SUBSET Nat, IsFiniteSet(S), S # {}
  PROVE  Max(S) \in S /\ \A x \in S : x <= Max(S)
<1> DEFINE Good == {s \in SUBSET S : s = {} \/ \E x \in s : \A y \in s : x >= y}
<1>1. ASSUME NEW s \in SUBSET S, \A x \in s : s \ {x} \in Good
      PROVE  s \in Good
  <2>1. CASE \E x \in s : s = {x}
    BY <2>1
  <2>2. CASE s # {} /\ ~ \E x \in s : s = {x}
    <3>0. PICK x \in s : TRUE
      BY <2>2
    <3>1. s \ {x} # {}
      BY <2>2
    <3>2. PICK z \in s \ {x} : \A y \in s \ {x} : z >= y
      BY <1>1, <3>1
    <3>3. x \in Nat /\ z \in Nat /\ s \subseteq Nat
      OBVIOUS
    <3> QED BY <3>2, <3>3
  <2> QED BY <2>1, <2>2
<1>2. GrowsIn(S, Good)
  BY <1>1 DEF GrowsIn
<1>3. S \in Good
  <2> HIDE DEF Good
  <2> QED BY <1>2, SubsetInduction
<1>4. PICK x \in S : \A y \in S : x >= y
  BY <1>3
<1> QED BY <1>4 DEF Max

\* Lock points name a height and a block: every input has a height, and the chain has a
\* block at the highest of them.
LEMMA LockPointsTyped ==
  ASSUME NEW t \in Txs \ Coinbases, tip \in Blocks
  PROVE  CalculateLockPointsAtTip(t) \in LockPoint
<1> DEFINE prev == {PrevHeight(o) : o \in Spends[t]}
           known == {0} \cup (prev \ {SpendHeight})
           height == IF RelLock[t] = 0 THEN -1 ELSE Max(prev) + RelLock[t] - 1
           last == CHOOSE b \in Path[tip] : Height[b] = Max(known)
<1>0. Height[tip] \in Nat /\ SpendHeight = Height[tip] + 1 /\ RelLock[t] \in Nat
  BY TreeAssumption, TxAssumption DEF SpendHeight
<1>1. \A o \in Spends[t] : PrevHeight(o) \in 0 .. Height[tip] \/ PrevHeight(o) = SpendHeight
  BY CoinsAre DEF PrevHeight, CoinsTip
<1>2. prev \in SUBSET Nat /\ IsFiniteSet(prev) /\ prev # {}
  <2>1. Spends[t] # {}
    BY TxAssumption
  <2>2. prev \in SUBSET (0 .. SpendHeight)
    BY <1>0, <1>1
  <2>3. IsFiniteSet(0 .. SpendHeight)
    BY <1>0, FS_Interval
  <2>4. IsFiniteSet(prev)
    BY <2>2, <2>3, FS_Subset
  <2> QED BY <1>0, <2>1, <2>2, <2>4
<1>3. Max(prev) \in Nat
  <2> HIDE DEF prev
  <2> QED BY <1>2, MaxOfFinite
<1>4. known \in SUBSET (0 .. Height[tip]) /\ IsFiniteSet(known) /\ known # {}
  <2>1. prev \ {SpendHeight} \in SUBSET (0 .. Height[tip])
    BY <1>1
  <2>2. IsFiniteSet({0}) /\ IsFiniteSet(prev \ {SpendHeight})
    BY <1>2, FS_Singleton, FS_Subset
  <2>3. IsFiniteSet(known)
    BY <2>2, FS_Union
  <2> QED BY <1>0, <2>1, <2>3
<1>5. Max(known) \in 0 .. Height[tip]
  <2> HIDE DEF known
  <2>1. known \in SUBSET Nat
    BY <1>4
  <2> QED BY <1>4, <2>1, MaxOfFinite
<1>6. last \in Blocks
  <2> HIDE DEF known
  <2>1. \E b \in Path[tip] : Height[b] = Max(known)
    BY <1>5, HeightsOnChain
  <2>2. Path[tip] \subseteq Blocks
    BY ChainFacts
  <2> QED BY <2>1, <2>2
<1>7. height \in Int
  <2> HIDE DEF prev
  <2> QED BY <1>0, <1>3
<1>8. CalculateLockPointsAtTip(t) = [height |-> height, maxInputBlock |-> last]
  BY DEF CalculateLockPointsAtTip
<1> HIDE DEF height, last
<1> QED BY <1>6, <1>7, <1>8 DEF LockPoint

\* An entry has its lock points and its flag.
LEMMA NewEntryTyped ==
  ASSUME NEW t \in Txs \ Coinbases, tip \in Blocks
  PROVE  NewEntry(t) \in Entry
BY LockPointsTyped DEF NewEntry, Entry, SpendsCoinbase

\* Transactions come in that spend what is there and nothing that an entry spends.
LEMMA WithSound ==
  ASSUME NEW entries, NEW coins, Sound(entries, coins), tip \in Blocks,
         NEW new \in SUBSET (Txs \ Coinbases),
         OnceSpent(DOMAIN entries \cup new), Sourced(new, coins \cup Outs(DOMAIN entries))
  PROVE  Sound(With(entries, new), coins) /\ DOMAIN With(entries, new) = DOMAIN entries \cup new
<1> DEFINE P == DOMAIN entries
           W == With(entries, new)
<1>1. DOMAIN W = P \cup new
  BY DEF With
<1>2. W \in [P \cup new -> Entry]
  <2>1. \A t \in P \cup new : (IF t \in new THEN NewEntry(t) ELSE entries[t]) \in Entry
    BY NewEntryTyped DEF Sound
  <2> QED BY <2>1 DEF With
<1>3. Sourced(P \cup new, coins)
  BY DEF Sourced, Sound, Outs
<1>4. P \cup new \subseteq Txs \ Coinbases
  BY DEF Sound
<1> HIDE DEF W
<1>5. Sound(W, coins)
  BY <1>1, <1>2, <1>3, <1>4 DEF Sound
<1> QED BY <1>1, <1>5 DEF W

\* What PreChecks lets through.
LEMMA PreChecksPassed ==
  ASSUME NEW t \in Txs, NEW args, NEW extra, PreChecks(t, args, extra) = "valid"
  PROVE  /\ t \notin Coinbases /\ t \notin DOMAIN pool
         /\ Spends[t] \subseteq extra \cup DOMAIN CoinsTip \cup Outs(DOMAIN pool)
         /\ Ancestors(t, DOMAIN pool) \cap Conflicts(t) = {}
         /\ args.allowReplacement = FALSE => Conflicts(t) = {}
<1> DEFINE available == extra \cup DOMAIN CoinsTip \cup UNION {Creates[p] : p \in DOMAIN pool}
<1>1. /\ ~(t \in Coinbases) /\ ~(t \in DOMAIN pool)
      /\ ~(Conflicts(t) # {} /\ ~(args.allowReplacement /\ Conflicts(t) \subseteq Signals))
      /\ Spends[t] \subseteq available
      /\ ~(Ancestors(t, DOMAIN pool) \cap Conflicts(t) # {})
  <2> HIDE DEF available
  <2> QED BY DEF PreChecks, available
<1> QED BY <1>1 DEF Outs

\* Finalize: the conflicts leave with all that descends from them, t comes in.
LEMMA FinalizeSound ==
  ASSUME NEW coins, Sound(pool, coins), tip \in Blocks, DOMAIN CoinsTip \subseteq coins,
         NEW t \in Txs, NEW args, NEW extra, extra \subseteq DOMAIN CoinsTip,
         PreChecks(t, args, extra) = "valid"
  PROVE  /\ Sound(Finalize(t), coins)
         /\ t \in DOMAIN Finalize(t) /\ DOMAIN Finalize(t) \subseteq DOMAIN pool \cup {t}
<1> DEFINE P == DOMAIN pool
           K == Conflicts(t)
           D == AllConflicting(t)
           W == Without(pool, D)
<1>1. P \in SUBSET Txs /\ K \in SUBSET P /\ K \in SUBSET Txs
  BY DEF Sound, Conflicts
<1>2. D = Descendants(K, P)
  BY DEF AllConflicting
<1>3. /\ t \notin Coinbases /\ t \notin P /\ Spends[t] \subseteq coins \cup Outs(P)
      /\ Ancestors(t, P) \cap K = {}
  BY PreChecksPassed
<1> HIDE DEF K, D
<1>4. K \subseteq D /\ D \subseteq P /\ Children(D, P) \subseteq D
  BY <1>1, <1>2, DescendantFacts
<1>5. Parents({t}, P) \cap D = {}
  <2>1. Ancestors(t, P) \cap D = {}
    BY <1>1, <1>2, <1>3, NoAncestorBelow
  <2>2. Parents({t}, P) \subseteq Ancestors(t, P)
    BY <1>1, AncestorFacts
  <2> QED BY <2>1, <2>2
<1>6. Sound(W, coins) /\ DOMAIN W = P \ D
  <2>1. ClosedIn(D, DOMAIN pool)
    BY <1>1, <1>4 DEF ClosedIn
  <2> QED BY <2>1, ClosedLeaves
<1> HIDE DEF W
<1>7. OnceSpent(DOMAIN W \cup {t})
  <2>1. \A c \in P \ D : Spends[c] \cap Spends[t] = {}
    BY <1>3, <1>4 DEF K, Conflicts
  <2>2. OnceSpent(P \ D)
    BY <1>6 DEF Sound
  <2> QED BY <1>6, <2>1, <2>2 DEF OnceSpent
<1>8. Sourced({t}, coins \cup Outs(DOMAIN W))
  <2>1. ASSUME NEW o \in Spends[t], o \notin coins
        PROVE  o \in Outs(P \ D)
    <3>1. PICK p \in P : o \in Creates[p]
      BY <1>3, <2>1 DEF Outs
    <3>2. p \notin D
      BY <1>5, <2>1, <3>1 DEF Parents
    <3> QED BY <3>1, <3>2 DEF Outs
  <2> QED BY <1>6, <2>1 DEF Sourced
<1>9. Finalize(t) = With(W, {t}) /\ {t} \in SUBSET (Txs \ Coinbases)
  BY <1>3 DEF Finalize, W, D
<1> QED BY <1>6, <1>7, <1>8, <1>9, WithSound

-----------------------------------------------------------------------------
(* Sequences of disconnected transactions. *)

KeptOr(kept, t, S) == IF t \in S THEN kept ELSE Append(kept, t)
Filters(F, q, S) ==
  F = [s \in SUBSET DOMAIN q |->
         IF s = {} THEN <<>> ELSE KeptOr(F[s \ {Max(s)}], q[Max(s)], S)]

\* WithoutTxs is such a fold.
LEMMA WithoutTxsIs ==
  ASSUME NEW q, NEW S
  PROVE  WithoutTxs(q, S) = (CHOOSE F : Filters(F, q, S))[DOMAIN q]
BY DEF WithoutTxs, FoldLeft, MapThenFoldSet, Filters, KeptOr

\* It goes through the sequence one by one.
LEMMA WithoutTxsRuns ==
  ASSUME NEW q \in Seq(Txs), NEW S
  PROVE  \E P \in [0 .. Len(q) -> Seq(Txs)] :
           /\ P[0] = <<>> /\ P[Len(q)] = WithoutTxs(q, S)
           /\ \A k \in 1 .. Len(q) : P[k] = KeptOr(P[k - 1], q[k], S)
<1> DEFINE n == Len(q)
           D == Seq(Txs)
           step(kept, i) == KeptOr(kept, q[i], S)
           g == [i \in 1 .. n |-> [kept \in D |-> step(kept, i)]]
<1>1. n \in Nat /\ DOMAIN q = 1 .. n /\ \A i \in 1 .. n : q[i] \in Txs
  OBVIOUS
<1>2. <<>> \in D
  OBVIOUS
<1>3. \A i \in 1 .. n : \A kept \in D : step(kept, i) \in D
  BY <1>1 DEF KeptOr
<1> HIDE DEF step
<1>4. \A i \in 1 .. n : \A kept \in D : g[i][kept] = step(kept, i)
  OBVIOUS
<1>5. StepsIn(n, D, <<>>, g)
  BY <1>1, <1>2, <1>3 DEF StepsIn
<1> HIDE DEF g, n, D
<1>6. PICK F \in [SUBSET (1 .. n) -> D] : RunsBy(F, n, D, <<>>, g)
  BY <1>5, RunExists
<1>7. Filters(F, q, S)
  <2>1. \A s \in SUBSET (1 .. n) : F[s] = IF s = {} THEN <<>> ELSE step(F[s \ {Max(s)}], Max(s))
    BY <1>4, <1>6 DEF RunsBy
  <2> QED BY <1>1, <2>1 DEF Filters, step
<1> DEFINE G == CHOOSE H : Filters(H, q, S)
<1>8. Filters(G, q, S)
  BY <1>7
<1>9. WithoutTxs(q, S) = G[1 .. n]
  BY <1>1, WithoutTxsIs
<1> HIDE DEF G
<1>10. FoldsBy(G, n, D, <<>>, g)
  <2>1. \A s \in SUBSET (1 .. n) : G[s] = IF s = {} THEN <<>> ELSE step(G[s \ {Max(s)}], Max(s))
    BY <1>1, <1>8 DEF Filters, step
  <2> QED BY <1>4, <2>1 DEF FoldsBy
<1>11. PICK P \in [0 .. n -> D] :
         P[0] = <<>> /\ P[n] = G[1 .. n] /\ \A k \in 1 .. n : P[k] = g[k][P[k - 1]]
  BY <1>5, <1>10, FoldRuns
<1>12. ASSUME NEW k \in 1 .. n
       PROVE  P[k] = KeptOr(P[k - 1], q[k], S) /\ P[k - 1] \in Seq(Txs)
  <2>1. k - 1 \in 0 .. n
    BY <1>1
  <2> QED BY <1>4, <1>11, <2>1 DEF step, D
<1> QED BY <1>9, <1>11, <1>12 DEF n, D

\* WithoutTxs drops what it is given and keeps the rest.
LEMMA WithoutTxsFacts ==
  ASSUME NEW q \in Seq(Txs), NEW S
  PROVE  /\ WithoutTxs(q, S) \in Seq(Txs) /\ Len(WithoutTxs(q, S)) <= Len(q)
         /\ ToSet(WithoutTxs(q, S)) = ToSet(q) \ S
<1> DEFINE n == Len(q)
<1>1. n \in Nat /\ DOMAIN q = 1 .. n /\ \A i \in 1 .. n : q[i] \in Txs
  OBVIOUS
<1>2. PICK P \in [0 .. n -> Seq(Txs)] :
         /\ P[0] = <<>> /\ P[n] = WithoutTxs(q, S)
         /\ \A k \in 1 .. n : P[k] = KeptOr(P[k - 1], q[k], S)
  BY WithoutTxsRuns
<1>3. ASSUME NEW k \in 1 .. n
       PROVE  P[k] = KeptOr(P[k - 1], q[k], S) /\ P[k - 1] \in Seq(Txs)
  <2>1. k - 1 \in 0 .. n
    BY <1>1
  <2> QED BY <1>2, <2>1
<1> DEFINE Upto(k) == {q[i] : i \in 1 .. k} \ S
           Good == {k \in Nat : k <= n => Len(P[k]) <= k /\ ToSet(P[k]) = Upto(k)}
<1>4. 0 \in Good
  BY <1>1, <1>2 DEF ToSet
<1>5. ASSUME NEW k \in Nat, k \in Good
       PROVE  k + 1 \in Good
  <2> SUFFICES ASSUME k + 1 <= n
               PROVE  Len(P[k + 1]) <= k + 1 /\ ToSet(P[k + 1]) = Upto(k + 1)
    OBVIOUS
  <2>1. k + 1 \in 1 .. n /\ (k + 1) - 1 = k /\ k <= n
    BY <1>1
  <2> DEFINE p == P[k]
             t == q[k + 1]
  <2>2. P[k + 1] = KeptOr(p, t, S) /\ p \in Seq(Txs) /\ t \in Txs
    BY <1>1, <1>3, <2>1
  <2>3. Len(p) <= k /\ ToSet(p) = Upto(k)
    BY <1>5, <2>1
  <2>4. Upto(k + 1) = Upto(k) \cup ({t} \ S)
    <3>1. 1 .. (k + 1) = (1 .. k) \cup {k + 1}
      OBVIOUS
    <3> QED BY <3>1
  <2> HIDE DEF p, t, Upto
  <2>5. CASE t \in S
    <3>1. P[k + 1] = p
      BY <2>2, <2>5 DEF KeptOr
    <3>2. Len(p) \in Nat
      BY <2>2
    <3>3. Upto(k + 1) = Upto(k)
      <4>1. {t} \ S = {}
        BY <2>5
      <4> QED BY <2>4, <4>1
    <3>4. Len(p) <= k + 1
      BY <2>3, <3>2
    <3> QED BY <2>3, <3>1, <3>3, <3>4
  <2>6. CASE t \notin S
    <3>1. P[k + 1] = Append(p, t)
      BY <2>2, <2>6 DEF KeptOr
    <3>2. Len(Append(p, t)) = Len(p) + 1 /\ Len(p) \in Nat
      BY <2>2
    <3>3. ToSet(Append(p, t)) = ToSet(p) \cup {t}
      <4>1. DOMAIN Append(p, t) = DOMAIN p \cup {Len(p) + 1} /\ DOMAIN p = 1 .. Len(p)
        BY <2>2, <3>2
      <4>2. /\ \A i \in DOMAIN p : Append(p, t)[i] = p[i]
            /\ Append(p, t)[Len(p) + 1] = t
        BY <2>2, <4>1, AppendProperties
      <4> QED BY <4>1, <4>2 DEF ToSet
    <3> QED BY <2>3, <2>4, <2>6, <3>1, <3>2, <3>3
  <2> QED BY <2>5, <2>6
<1>6. n \in Good
  <2> HIDE DEF Good
  <2> QED BY <1>1, <1>4, <1>5, UpByOne
<1>7. Upto(n) = ToSet(q) \ S
  BY <1>1 DEF ToSet
<1>8. WithoutTxs(q, S) \in Seq(Txs)
  BY <1>1, <1>2
<1> HIDE DEF Upto
<1>9. WithoutTxs(q, S) = P[n] /\ n <= n
  BY <1>1, <1>2
<1> QED BY <1>6, <1>7, <1>8, <1>9 DEF n

\* Cut in two, a sequence has all its elements in one part or the other.
LEMMA CutInTwo ==
  ASSUME NEW q \in Seq(Txs), NEW k \in 0 .. Len(q)
  PROVE  /\ SubSeq(q, 1, k) \in Seq(Txs) /\ SubSeq(q, k + 1, Len(q)) \in Seq(Txs)
         /\ Len(SubSeq(q, k + 1, Len(q))) = Len(q) - k
         /\ ToSet(q) \subseteq ToSet(SubSeq(q, 1, k)) \cup ToSet(SubSeq(q, k + 1, Len(q)))
         /\ ToSet(SubSeq(q, k + 1, Len(q))) \subseteq ToSet(q)
<1> DEFINE n == Len(q)
           a == SubSeq(q, 1, k)
           z == SubSeq(q, k + 1, n)
<1>1. n \in Nat /\ k \in Nat /\ k <= n /\ \A i \in 1 .. n : q[i] \in Txs
  OBVIOUS
<1>2. a \in Seq(Txs) /\ Len(a) = k /\ \A i \in 1 .. k : a[i] = q[i]
  <2>1. \A i \in 1 .. k : q[i] \in Txs
    BY <1>1
  <2> QED BY <1>1, <2>1, SubSeqProperties
<1>3. z \in Seq(Txs) /\ Len(z) = n - k /\ \A i \in 1 .. n - k : z[i] = q[k + i]
  <2>1. \A i \in k + 1 .. n : q[i] \in Txs
    BY <1>1
  <2> QED BY <1>1, <2>1, SubSeqProperties
<1> HIDE DEF a, z, n
<1>4. ASSUME NEW i \in 1 .. n
      PROVE  q[i] \in ToSet(a) \cup ToSet(z)
  <2>1. CASE i <= k
    <3>1. i \in DOMAIN a /\ a[i] = q[i]
      BY <1>1, <1>2, <2>1
    <3> QED BY <3>1 DEF ToSet
  <2>2. CASE i > k
    <3>1. i - k \in 1 .. n - k /\ k + (i - k) = i
      BY <1>1, <2>2
    <3>2. i - k \in DOMAIN z /\ z[i - k] = q[i]
      BY <1>1, <1>3, <3>1
    <3> QED BY <3>2 DEF ToSet
  <2> QED BY <1>1, <2>1, <2>2
<1>5. ToSet(q) \subseteq ToSet(a) \cup ToSet(z)
  BY <1>4 DEF ToSet, n
<1>6. ToSet(z) \subseteq ToSet(q)
  <2>1. DOMAIN z = 1 .. n - k /\ DOMAIN q = 1 .. n
    BY <1>1, <1>3 DEF n
  <2>2. \A i \in 1 .. n - k : k + i \in 1 .. n /\ z[i] = q[k + i]
    BY <1>1, <1>3
  <2> QED BY <2>1, <2>2 DEF ToSet
<1> QED BY <1>2, <1>3, <1>5, <1>6 DEF a, z, n

\* What the disconnection of a block leaves of disconnectpool, and what it gives up.
LEMMA OverflowFacts ==
  ASSUME NEW q \in Seq(Txs), NEW r \in Seq(Txs)
  PROVE  LET all == q \o Reverse(r)
             over == Overflow(all)
             lost == SubSeq(all, 1, over)
             left == SubSeq(all, over + 1, Len(all))
         IN  /\ left \in Seq(Txs) /\ Len(left) <= MaxDisconnected /\ ToSet(lost) \subseteq Txs
             /\ over \in 0 .. Len(all)
             /\ ToSet(q) \cup ToSet(r) \subseteq ToSet(lost) \cup ToSet(left)
             /\ ToSet(left) \subseteq ToSet(q) \cup ToSet(r)
<1> DEFINE all == q \o Reverse(r)
           over == Overflow(all)
<1>1. Reverse(r) \in Seq(Txs) /\ ToSet(Reverse(r)) = ToSet(r)
  <2> DEFINE n == Len(r)
             v == Reverse(r)
  <2>1. n \in Nat /\ \A i \in 1 .. n : r[i] \in Txs /\ (n - i) + 1 \in 1 .. n
    OBVIOUS
  <2>2. v = [i \in 1 .. n |-> r[(n - i) + 1]]
    BY DEF Reverse
  <2>3. v \in Seq(Txs)
    BY <2>1, <2>2
  <2>4. DOMAIN v = 1 .. n /\ \A i \in 1 .. n : v[i] = r[(n - i) + 1]
    BY <2>2
  <2> HIDE DEF v
  <2>5. \A i \in 1 .. n : v[(n - i) + 1] = r[i]
    <3> TAKE i \in 1 .. n
    <3>1. (n - i) + 1 \in 1 .. n /\ (n - ((n - i) + 1)) + 1 = i
      BY <2>1
    <3>2. v[(n - i) + 1] = r[(n - ((n - i) + 1)) + 1]
      BY <2>4, <3>1
    <3> QED BY <3>1, <3>2
  <2>6. DOMAIN r = 1 .. n
    OBVIOUS
  <2> HIDE DEF n
  <2>7. ToSet(v) \subseteq ToSet(r)
    BY <2>1, <2>4, <2>6 DEF ToSet
  <2>8. ToSet(r) \subseteq ToSet(v)
    BY <2>1, <2>4, <2>5, <2>6 DEF ToSet
  <2> QED BY <2>3, <2>7, <2>8 DEF v
<1>2. all \in Seq(Txs) /\ ToSet(all) = ToSet(q) \cup ToSet(r) /\ Len(all) \in Nat
  <2> DEFINE v == Reverse(r)
  <2>0. v \in Seq(Txs) /\ ToSet(v) = ToSet(r)
    BY <1>1
  <2> HIDE DEF v
  <2>1. /\ q \o v \in Seq(Txs) /\ Len(q \o v) = Len(q) + Len(v)
        /\ \A i \in 1 .. Len(q) + Len(v) : (q \o v)[i] = IF i <= Len(q) THEN q[i] ELSE v[i - Len(q)]
    BY <2>0, ConcatProperties
  <2>2. /\ Len(q) \in Nat /\ Len(v) \in Nat /\ DOMAIN q = 1 .. Len(q) /\ DOMAIN v = 1 .. Len(v)
        /\ DOMAIN (q \o v) = 1 .. Len(q) + Len(v)
    BY <2>0, <2>1
  <2>3. ToSet(q \o v) \subseteq ToSet(q) \cup ToSet(v)
    <3> SUFFICES ASSUME NEW i \in 1 .. Len(q) + Len(v)
                 PROVE  (q \o v)[i] \in ToSet(q) \cup ToSet(v)
      BY <2>2 DEF ToSet
    <3>1. CASE i <= Len(q)
      <4>1. (q \o v)[i] = q[i] /\ i \in DOMAIN q
        BY <2>1, <2>2, <3>1
      <4> QED BY <4>1 DEF ToSet
    <3>2. CASE i > Len(q)
      <4>1. i - Len(q) \in DOMAIN v /\ (q \o v)[i] = v[i - Len(q)]
        BY <2>1, <2>2, <3>2
      <4> QED BY <4>1 DEF ToSet
    <3> QED BY <2>2, <3>1, <3>2
  <2>4. ToSet(q) \subseteq ToSet(q \o v)
    <3> SUFFICES ASSUME NEW i \in 1 .. Len(q)
                 PROVE  q[i] \in ToSet(q \o v)
      BY <2>2 DEF ToSet
    <3>1. i \in DOMAIN (q \o v) /\ (q \o v)[i] = q[i]
      BY <2>1, <2>2
    <3> QED BY <3>1 DEF ToSet
  <2>5. ToSet(v) \subseteq ToSet(q \o v)
    <3> SUFFICES ASSUME NEW i \in 1 .. Len(v)
                 PROVE  v[i] \in ToSet(q \o v)
      BY <2>2 DEF ToSet
    <3>1. /\ i + Len(q) \in 1 .. Len(q) + Len(v) /\ ~(i + Len(q) <= Len(q))
          /\ (i + Len(q)) - Len(q) = i
      BY <2>2
    <3>2. i + Len(q) \in DOMAIN (q \o v) /\ (q \o v)[i + Len(q)] = v[i]
      BY <2>1, <2>2, <3>1
    <3> QED BY <3>2 DEF ToSet
  <2> QED BY <2>0, <2>1, <2>2, <2>3, <2>4, <2>5 DEF v
<1> HIDE DEF all
<1>3. over \in 0 .. Len(all) /\ Len(all) - over <= MaxDisconnected
  <2> DEFINE k == Len(all) - MaxDisconnected
  <2>1. k \in Int /\ MaxDisconnected \in Nat
    BY <1>2, PolicyAssumption
  <2>2. over = Max({0, k})
    BY DEF Overflow
  <2>3. over = IF k <= 0 THEN 0 ELSE k
    <3> HIDE DEF k
    <3>1. \E x \in {0, k} : \A y \in {0, k} : x >= y
      BY <2>1
    <3> HIDE DEF over
    <3>2. over \in {0, k} /\ over >= 0 /\ over >= k
      BY <2>2, <3>1 DEF Max
    <3> QED BY <2>1, <3>2
  <2> HIDE DEF over
  <2> QED BY <1>2, <2>1, <2>3
<1> HIDE DEF over
<1> DEFINE lost == SubSeq(all, 1, over)
           left == SubSeq(all, over + 1, Len(all))
<1>4. /\ lost \in Seq(Txs) /\ left \in Seq(Txs) /\ Len(left) = Len(all) - over
      /\ ToSet(all) \subseteq ToSet(lost) \cup ToSet(left) /\ ToSet(left) \subseteq ToSet(all)
  BY <1>2, <1>3, CutInTwo
<1> HIDE DEF lost, left
<1>5. ToSet(lost) \subseteq Txs
  BY <1>4 DEF ToSet
<1> QED BY <1>2, <1>3, <1>4, <1>5 DEF all, over, lost, left

-----------------------------------------------------------------------------
(* Eviction. *)

\* Fees and sizes of sets of transactions are natural numbers, and every transaction has a size.
LEMMA FeesAndSizes ==
  ASSUME NEW S \in SUBSET Txs
  PROVE  Fees(S) \in Nat /\ Sizes(S) \in Nat /\ (S # {} => Sizes(S) > 0)
<1> DEFINE fees == [s \in SUBSET Txs |-> Fees(s)]
           sizes == [s \in SUBSET Txs |-> Sizes(s)]
           Good == {s \in SUBSET Txs :
                      fees[s] \in Nat /\ sizes[s] \in Nat /\ (s # {} => sizes[s] > 0)}
<1>1. IsFiniteSet(Txs) /\ \A t \in Txs : Fee[t] \in Nat /\ Size[t] \in Nat /\ Size[t] > 0
  BY TxAssumption
<1>2. ASSUME NEW s \in SUBSET Txs
      PROVE  /\ s = {} => fees[s] = 0 /\ sizes[s] = 0
             /\ \A t \in s : fees[s] = Fee[t] + fees[s \ {t}] /\ sizes[s] = Size[t] + sizes[s \ {t}]
  <2>1. IsFiniteSet(s) /\ \A t \in s : Fee[t] \in Int /\ Size[t] \in Int
    BY <1>1, FS_Subset
  <2>2. /\ s = {} => Fees(s) = 0
        /\ \A t \in s : Fees(s) = Fee[t] + Fees(s \ {t})
    BY <2>1, SumOut DEF Fees
  <2>3. /\ s = {} => Sizes(s) = 0
        /\ \A t \in s : Sizes(s) = Size[t] + Sizes(s \ {t})
    BY <2>1, SumOut DEF Sizes
  <2>4. \A t \in s : s \ {t} \in SUBSET Txs
    OBVIOUS
  <2> QED BY <2>2, <2>3, <2>4
<1> HIDE DEF fees, sizes
<1>3. ASSUME NEW s \in SUBSET Txs, \A t \in s : s \ {t} \in Good
      PROVE  s \in Good
  <2>1. CASE s = {}
    BY <1>2, <2>1
  <2>2. CASE s # {}
    <3>1. PICK t \in s : TRUE
      BY <2>2
    <3>2. fees[s] = Fee[t] + fees[s \ {t}] /\ sizes[s] = Size[t] + sizes[s \ {t}]
      BY <1>2
    <3>3. fees[s \ {t}] \in Nat /\ sizes[s \ {t}] \in Nat
      BY <1>3
    <3>4. Fee[t] \in Nat /\ Size[t] \in Nat /\ Size[t] > 0
      BY <1>1
    <3>5. fees[s] \in Nat /\ sizes[s] \in Nat /\ sizes[s] > 0
      BY <3>2, <3>3, <3>4
    <3> QED BY <3>5
  <2> QED BY <2>1, <2>2
<1>4. GrowsIn(Txs, Good)
  BY <1>3 DEF GrowsIn
<1>5. S \in Good
  <2> HIDE DEF Good
  <2> QED BY <1>1, <1>4, SubsetInduction
<1> QED BY <1>5 DEF fees, sizes

\* Multiplication keeps the order of natural numbers.
LEMMA ProductGrows ==
  ASSUME NEW x \in Nat, NEW y \in Nat, NEW z \in Nat
  PROVE  /\ x <= y => x * z <= y * z
         /\ z > 0 /\ x * z <= y * z => x <= y
<1>1. ASSUME NEW a \in Nat, NEW k \in Nat
      PROVE  (a + k) * z = a * z + k * z /\ k * z \in Nat /\ a * z \in Nat
  OBVIOUS
<1>2. ASSUME x <= y
      PROVE  x * z <= y * z
  <2>1. PICK k \in Nat : y = x + k
    <3>1. y - x \in Nat /\ y = x + (y - x)
      BY <1>2
    <3> QED BY <3>1
  <2>2. y * z = x * z + k * z /\ k * z \in Nat /\ x * z \in Nat
    BY <1>1, <2>1
  <2> QED BY <2>2
<1>3. ASSUME z > 0, x > y
      PROVE  ~(x * z <= y * z)
  <2>1. PICK k \in Nat : x = y + (1 + k)
    <3>1. (x - y) - 1 \in Nat /\ x = y + (1 + ((x - y) - 1))
      BY <1>3
    <3> QED BY <3>1
  <2>2. x * z = y * z + (1 + k) * z /\ (1 + k) * z = 1 * z + k * z /\ k * z \in Nat /\ y * z \in Nat
    BY <1>1, <2>1
  <2>3. 1 * z = z
    OBVIOUS
  <2> QED BY <1>3, <2>2, <2>3
<1> QED BY <1>2, <1>3

\* Fractions are ordered transitively.
LEMMA RatioTransitive ==
  ASSUME NEW a \in Nat, NEW b \in Nat, NEW c \in Nat, NEW d \in Nat, NEW e \in Nat, NEW h \in Nat,
         d > 0, a * d <= c * b, c * h <= e * d
  PROVE  a * h <= e * b
<1>1. a * d \in Nat /\ c * b \in Nat /\ c * h \in Nat /\ e * d \in Nat /\ a * h \in Nat /\ e * b \in Nat
  OBVIOUS
<1>2. (a * d) * h <= (c * b) * h
  BY <1>1, ProductGrows
<1>3. (c * h) * b <= (e * d) * b
  BY <1>1, ProductGrows
<1>4. (c * b) * h = (c * h) * b /\ (a * d) * h = (a * h) * d /\ (e * d) * b = (e * b) * d
  OBVIOUS
<1>5. (a * d) * h \in Nat /\ (c * h) * b \in Nat /\ (e * d) * b \in Nat
  BY <1>1
<1>6. (a * h) * d <= (e * b) * d
  BY <1>2, <1>3, <1>4, <1>5
<1> QED BY <1>1, <1>6, ProductGrows

\* Among finitely many there is a least.
LEMMA LeastRatio ==
  ASSUME NEW S, IsFiniteSet(S), S # {}, NEW f \in [S -> Nat], NEW g \in [S -> Nat \ {0}]
  PROVE  \E t \in S : \A u \in S : f[t] * g[u] <= f[u] * g[t]
<1> DEFINE Below(t, u) == f[t] * g[u] <= f[u] * g[t]
           Good == {s \in SUBSET S : s = {} \/ \E t \in s : \A u \in s : Below(t, u)}
<1>1. \A t \in S : f[t] \in Nat /\ g[t] \in Nat /\ g[t] > 0 /\ f[t] * g[t] \in Nat
  OBVIOUS
<1>2. \A t, u \in S : Below(t, u) \/ Below(u, t)
  <2> TAKE t, u \in S
  <2>1. f[t] * g[u] \in Nat /\ f[u] * g[t] \in Nat
    BY <1>1
  <2> QED BY <2>1
<1>3. \A t, u, v \in S : Below(t, u) /\ Below(u, v) => Below(t, v)
  BY <1>1, RatioTransitive
<1>4. \A t \in S : Below(t, t)
  BY <1>2
<1> HIDE DEF Below
<1>5. ASSUME NEW s \in SUBSET S, \A x \in s : s \ {x} \in Good
      PROVE  s \in Good
  <2>1. CASE \E x \in s : s = {x}
    BY <1>4, <2>1
  <2>2. CASE s # {} /\ ~ \E x \in s : s = {x}
    <3>0. PICK x \in s : TRUE
      BY <2>2
    <3>1. s \ {x} # {}
      BY <2>2
    <3>2. PICK z \in s \ {x} : \A y \in s \ {x} : Below(z, y)
      BY <1>5, <3>1
    <3> QED BY <1>2, <1>3, <1>4, <3>2
  <2> QED BY <2>1, <2>2
<1>6. GrowsIn(S, Good)
  BY <1>5 DEF GrowsIn
<1>7. S \in Good
  <2> HIDE DEF Good
  <2> QED BY <1>6, SubsetInduction
<1> QED BY <1>7 DEF Below

\* There is an entry of the lowest score.
LEMMA LowestIsAnEntry ==
  ASSUME NEW P \in SUBSET Txs, P # {}
  PROVE  LowestScore(P) \in P
<1> DEFINE d(t) == Descendants({t}, P)
           Score(t) == IF Fees(d(t)) * Size[t] > Fee[t] * Sizes(d(t)) THEN <<Fees(d(t)), Sizes(d(t))>>
                       ELSE <<Fee[t], Size[t]>>
           f == [t \in P |-> Score(t)[1]]
           g == [t \in P |-> Score(t)[2]]
<1>1. ASSUME NEW t \in P
      PROVE  Score(t)[1] \in Nat /\ Score(t)[2] \in Nat \ {0}
  <2>1. {t} \subseteq d(t) /\ d(t) \in SUBSET Txs
    <3>1. {t} \in SUBSET Txs
      OBVIOUS
    <3> QED BY <3>1, DescendantFacts
  <2> HIDE DEF d
  <2>2. Fees(d(t)) \in Nat /\ Sizes(d(t)) \in Nat \ {0}
    BY <2>1, FeesAndSizes
  <2>3. Fee[t] \in Nat /\ Size[t] \in Nat \ {0}
    BY TxAssumption
  <2> QED BY <2>2, <2>3
<1>2. LowestScore(P) = CHOOSE t \in P : \A u \in P : Score(t)[1] * Score(u)[2] <= Score(u)[1] * Score(t)[2]
  BY DEF LowestScore
<1> HIDE DEF Score
<1>3. f \in [P -> Nat] /\ g \in [P -> Nat \ {0}]
  BY <1>1
<1>4. IsFiniteSet(P)
  BY TxAssumption, FS_Subset
<1>5. \E t \in P : \A u \in P : f[t] * g[u] <= f[u] * g[t]
  <2> HIDE DEF f, g
  <2> QED BY <1>3, <1>4, LeastRatio
<1>6. \E t \in P : \A u \in P : Score(t)[1] * Score(u)[2] <= Score(u)[1] * Score(t)[2]
  BY <1>5
<1> QED BY <1>2, <1>6

\* One round of TrimToSize, and the fold that it is.
TrimStep(s) ==
  IF Sizes(s.kept) <= MaxPoolSize THEN s
  ELSE LET d == Descendants({LowestScore(s.kept)}, s.kept)
       IN  [kept |-> s.kept \ d,
            minFee |-> Max({s.minFee, Fees(d) \div Sizes(d) + IncrementalRelayFee})]
TrimBase(P) == [kept |-> P, minFee |-> minFee]
Trims(F, P) ==
  F = [s \in SUBSET P |-> IF s = {} THEN TrimBase(P) ELSE TrimStep(F[s \ {Pick(s)}])]

\* TrimToSize is such a fold.
LEMMA TrimIs ==
  ASSUME NEW P
  PROVE  TrimToSize(P) = (CHOOSE F : Trims(F, P))[P]
BY DEF TrimToSize, FoldSet, MapThenFoldSet, Trims, TrimStep, TrimBase, Pick

\* What is given up has no child among what is kept.
Trimmed(P) ==
  {s \in [kept : SUBSET P, minFee : Nat] : \A p \in P \ s.kept : Children({p}, P) \cap s.kept = {}}

\* A round of it gives up an entry with all its descendants.
LEMMA TrimStepIn ==
  ASSUME NEW P \in SUBSET Txs, NEW s \in Trimmed(P)
  PROVE  TrimStep(s) \in Trimmed(P)
<1> DEFINE K == s.kept
           d == Descendants({LowestScore(K)}, K)
           fee == Fees(d) \div Sizes(d) + IncrementalRelayFee
<1>1. K \in SUBSET P /\ K \in SUBSET Txs /\ s.minFee \in Nat
  BY DEF Trimmed
<1>2. CASE Sizes(K) <= MaxPoolSize
  BY <1>2 DEF TrimStep
<1>3. CASE ~(Sizes(K) <= MaxPoolSize)
  <2>1. K # {}
    <3> SUFFICES ASSUME K = {}
                 PROVE  FALSE
      OBVIOUS
    <3>1. IsFiniteSet(K) /\ \A x \in K : Size[x] \in Int
      BY FS_EmptySet
    <3>2. Sizes(K) = 0
      BY <3>1, SumOut DEF Sizes
    <3>3. 0 <= MaxPoolSize
      BY PolicyAssumption
    <3> QED BY <1>3, <3>2, <3>3
  <2>2. LowestScore(K) \in K
    BY <1>1, <2>1, LowestIsAnEntry
  <2>3. {LowestScore(K)} \subseteq d /\ d \subseteq K /\ Children(d, K) \subseteq d
    <3>1. {LowestScore(K)} \in SUBSET K /\ {LowestScore(K)} \in SUBSET Txs
      BY <1>1, <2>2
    <3> QED BY <1>1, <3>1, DescendantFacts
  <2> HIDE DEF d
  <2>4. Fees(d) \in Nat /\ Sizes(d) \in Nat /\ Sizes(d) > 0
    BY <1>1, <2>2, <2>3, FeesAndSizes
  <2>5. fee \in Nat
    <3>1. Fees(d) \div Sizes(d) \in Nat
      BY <2>4
    <3> QED BY <3>1, PolicyAssumption
  <2> DEFINE m == Max({s.minFee, fee})
  <2>6. m \in Nat
    <3> HIDE DEF fee
    <3>1. \E x \in {s.minFee, fee} : \A y \in {s.minFee, fee} : x >= y
      BY <1>1, <2>5
    <3> QED BY <1>1, <2>5, <3>1 DEF Max
  <2>7. TrimStep(s) = [kept |-> K \ d, minFee |-> m]
    BY <1>3 DEF TrimStep, d
  <2> HIDE DEF m
  <2>8. ASSUME NEW p \in P \ (K \ d)
        PROVE  Children({p}, P) \cap (K \ d) = {}
    <3>1. CASE p \in d
      BY <1>1, <2>3, <3>1 DEF Children
    <3>2. CASE p \notin K
      BY <3>2 DEF Trimmed
    <3> QED BY <3>1, <3>2
  <2> QED BY <1>1, <2>6, <2>7, <2>8 DEF Trimmed
<1> QED BY <1>2, <1>3

\* So does every beginning of the fold.
Trimming(P) == CHOOSE F : Trims(F, P)
LEMMA TrimmingIs ==
  ASSUME NEW P \in SUBSET Txs, minFee \in Nat
  PROVE  /\ Trims(Trimming(P), P) /\ TrimToSize(P) = Trimming(P)[P]
         /\ \A s \in SUBSET P : Trimming(P)[s] \in Trimmed(P)
<1> DEFINE D == Trimmed(P)
           c == Picks(P)
           g == [s \in SUBSET P |-> [e \in D |-> TrimStep(e)]]
<1>0. IsFiniteSet(P)
  BY TxAssumption, FS_Subset
<1>1. \A s \in SUBSET P : s # {} => Pick(s) \in s
  BY DEF Pick
<1>2. \A s \in SUBSET P : c[s] = Pick(s)
  BY DEF Picks
<1>3. TrimBase(P) \in D
  BY DEF TrimBase, Trimmed
<1>4. \A e \in D : TrimStep(e) \in D
  BY TrimStepIn
<1> HIDE DEF c, D
<1>5. \A s \in SUBSET P : \A e \in D : g[s][e] = TrimStep(e)
  OBVIOUS
<1> HIDE DEF g
<1>6. FoldsInto(P, D, TrimBase(P), c, g)
  BY <1>0, <1>1, <1>2, <1>3, <1>4, <1>5 DEF FoldsInto
<1>7. PICK F \in [SUBSET P -> D] : IsFold(F, P, TrimBase(P), c, g)
  BY <1>6, FoldExists
<1>8. Trims(F, P)
  <2>1. ASSUME NEW s \in SUBSET P
        PROVE  F[s] = IF s = {} THEN TrimBase(P) ELSE TrimStep(F[s \ {Pick(s)}])
    <3>1. F[s] = IF s = {} THEN TrimBase(P) ELSE g[s][F[s \ {c[s]}]]
      BY <1>7 DEF IsFold
    <3>2. F[s \ {Pick(s)}] \in D
      BY <1>7
    <3> QED BY <1>2, <1>5, <3>1, <3>2
  <2> QED BY <1>7, <2>1 DEF Trims
<1> DEFINE G == Trimming(P)
           Good == {s \in SUBSET P : G[s] \in D}
<1>9. Trims(G, P) /\ TrimToSize(P) = G[P]
  BY <1>8, TrimIs DEF Trimming
<1> HIDE DEF G
<1>10. ASSUME NEW s \in SUBSET P, \A x \in s : s \ {x} \in Good
       PROVE  G[s] \in D
  <2>1. G[s] = IF s = {} THEN TrimBase(P) ELSE TrimStep(G[s \ {Pick(s)}])
    BY <1>9 DEF Trims
  <2>2. s # {} => G[s \ {Pick(s)}] \in D
    BY <1>1, <1>10
  <2> QED BY <1>3, <1>4, <2>1, <2>2
<1>11. GrowsIn(P, Good)
  BY <1>10 DEF GrowsIn
<1>12. SUBSET P \subseteq Good
  <2> HIDE DEF Good
  <2> QED BY <1>0, <1>11, SubsetInduction
<1>13. \A s \in SUBSET P : G[s] \in D
  BY <1>12
<1> QED BY <1>9, <1>13 DEF D, G

\* So TrimToSize gives up nothing whose child it keeps.
LEMMA TrimmedToSize ==
  ASSUME NEW P \in SUBSET Txs, minFee \in Nat
  PROVE  TrimToSize(P) \in Trimmed(P)
BY TrimmingIs

\* Nothing weighs nothing.
LEMMA NothingFits == Sizes({}) = 0 /\ 0 <= MaxPoolSize
<1>1. IsFiniteSet({})
  BY FS_EmptySet
<1> QED BY <1>1, SumOut, PolicyAssumption DEF Sizes

\* Every round gives up an entry at least until what is kept fits, so in the end it does.
LEMMA TrimmedFits ==
  ASSUME NEW P \in SUBSET Txs, minFee \in Nat
  PROVE  Sizes(TrimToSize(P).kept) <= MaxPoolSize
<1> DEFINE G == Trimming(P)
           Remaining(s) == G[s].kept
           Good == {s \in SUBSET P : \/ Sizes(Remaining(s)) <= MaxPoolSize
                                     \/ Cardinality(Remaining(s)) + Cardinality(s) <= Cardinality(P)}
<1>0. \A s \in SUBSET P : IsFiniteSet(s) /\ Cardinality(s) \in Nat /\ (Cardinality(s) = 0 <=> s = {})
  BY TxAssumption, FS_Subset, FS_CardinalityType, FS_EmptySet
<1>1. /\ Trims(G, P) /\ TrimToSize(P) = G[P] /\ \A s \in SUBSET P : G[s] \in Trimmed(P)
  BY TrimmingIs
<1> HIDE DEF G
<1>2. \A s \in SUBSET P : G[s] = IF s = {} THEN TrimBase(P) ELSE TrimStep(G[s \ {Pick(s)}])
  BY <1>1 DEF Trims
<1>3. ASSUME NEW s \in SUBSET P, \A x \in s : s \ {x} \in Good
      PROVE  s \in Good
  <2>1. CASE s = {}
    <3>1. Remaining(s) = P
      BY <1>2, <2>1 DEF TrimBase
    <3> QED BY <1>0, <2>1, <3>1
  <2>2. CASE s # {}
    <3> DEFINE x == Pick(s)
               r == s \ {x}
               K == Remaining(r)
               d == Descendants({LowestScore(K)}, K)
    <3>1. x \in s /\ r \in Good /\ r \in SUBSET P /\ G[s] = TrimStep(G[r])
      BY <1>2, <1>3, <2>2 DEF Pick
    <3>2. K \in SUBSET P /\ K \in SUBSET Txs
      BY <1>1, <3>1 DEF Trimmed
    <3>3. CASE Sizes(K) <= MaxPoolSize
      BY <3>1, <3>3 DEF TrimStep
    <3>4. CASE ~(Sizes(K) <= MaxPoolSize)
      <4>1. Cardinality(K) + Cardinality(r) <= Cardinality(P)
        BY <3>1, <3>4
      <4>2. Remaining(s) = K \ d
        BY <3>1, <3>4 DEF TrimStep
      <4> HIDE DEF K
      <4>3. K # {}
        BY <3>4, NothingFits
      <4>4. LowestScore(K) \in K
        BY <3>2, <4>3, LowestIsAnEntry
      <4>5. LowestScore(K) \in d
        <5>1. {LowestScore(K)} \in SUBSET Txs
          BY <3>2, <4>4
        <5> QED BY <3>2, <5>1, DescendantFacts
      <4> HIDE DEF d
      <4>6. Cardinality(K \ d) < Cardinality(K)
        <5> DEFINE L == LowestScore(K)
        <5>1. K \ d \in SUBSET (K \ {L}) /\ K \ {L} \in SUBSET P
          BY <3>2, <4>5
        <5>2. Cardinality(K \ {L}) = Cardinality(K) - 1
          BY <1>0, <3>2, <4>4, FS_RemoveElement
        <5>3. Cardinality(K \ d) <= Cardinality(K \ {L})
          BY <1>0, <5>1, FS_Subset
        <5> QED BY <1>0, <3>2, <5>1, <5>2, <5>3
      <4>7. Cardinality(r) = Cardinality(s) - 1
        BY <1>0, <3>1, FS_RemoveElement
      <4>8. /\ Cardinality(K \ d) \in Nat /\ Cardinality(K) \in Nat /\ Cardinality(r) \in Nat
            /\ Cardinality(s) \in Nat /\ Cardinality(P) \in Nat
        BY <1>0, <3>1, <3>2
      <4>9. Cardinality(Remaining(s)) + Cardinality(s) <= Cardinality(P)
        BY <4>1, <4>2, <4>6, <4>7, <4>8
      <4> QED BY <4>9
    <3> QED BY <3>3, <3>4
  <2> QED BY <2>1, <2>2
<1>4. P \in Good
  <2>1. GrowsIn(P, Good)
    BY <1>3 DEF GrowsIn
  <2> HIDE DEF Good
  <2> QED BY <1>0, <2>1, SubsetInduction
<1>5. CASE Cardinality(Remaining(P)) + Cardinality(P) <= Cardinality(P)
  <2>1. Remaining(P) \in SUBSET P
    BY <1>1 DEF Trimmed
  <2> DEFINE K == Remaining(P)
  <2> HIDE DEF K
  <2>2. Cardinality(K) \in Nat /\ Cardinality(P) \in Nat /\ Cardinality(K) + Cardinality(P) <= Cardinality(P)
    BY <1>0, <1>5, <2>1 DEF K
  <2>3. K = {}
    BY <1>0, <2>1, <2>2 DEF K
  <2>4. Sizes(Remaining(P)) = 0
    BY <2>3, NothingFits DEF K
  <2> QED BY <1>1, <2>4, NothingFits
<1> QED BY <1>1, <1>4, <1>5

\* LimitMempoolSize keeps the entries sound.
LEMMA LimitSound ==
  ASSUME NEW entries, NEW coins, Sound(entries, coins), minFee \in Nat, NEW fresh,
         LimitMempoolSize(entries, fresh)
  PROVE  Sound(pool', coins) /\ DOMAIN pool' \subseteq DOMAIN entries /\ minFee' \in Nat
<1> DEFINE P == DOMAIN entries
<1>1. PICK old \in Expired(entries, fresh) :
        /\ pool' = Restrict(entries, TrimToSize(P \ old).kept)
        /\ minFee' = TrimToSize(P \ old).minFee
  BY DEF LimitMempoolSize
<1>2. P \in SUBSET Txs
  BY DEF Sound
<1>3. PICK seeds \in SUBSET P : old = Descendants(seeds, P)
  BY DEF Expired, kSubset
<1>4. old \subseteq P /\ Children(old, P) \subseteq old
  <2>1. seeds \in SUBSET Txs
    BY <1>2
  <2> QED BY <1>2, <1>3, <2>1, DescendantFacts
<1> DEFINE R == P \ old
           K == TrimToSize(R).kept
<1>5. R \in SUBSET Txs
  BY <1>2
<1>6. TrimToSize(R) \in Trimmed(R)
  <2> HIDE DEF R
  <2> QED BY <1>5, TrimmedToSize
<1>7. K \subseteq R /\ minFee' \in Nat /\ \A p \in R \ K : Children({p}, R) \cap K = {}
  BY <1>1, <1>6 DEF Trimmed
<1> HIDE DEF K
<1>8. ClosedIn(P \ K, P)
  <2>1. ASSUME NEW p \in P \ K, NEW y \in P, Creates[p] \cap Spends[y] # {}
        PROVE  y \notin K
    <3>1. CASE p \in old
      BY <1>4, <1>7, <2>1, <3>1 DEF Children
    <3>2. CASE p \notin old
      BY <1>7, <2>1, <3>2 DEF Children
    <3> QED BY <3>1, <3>2
  <2> QED BY <1>2, <2>1 DEF ClosedIn, Children
<1>9. pool' = Without(entries, P \ K)
  <2>1. P \ (P \ K) = K
    BY <1>7
  <2> QED BY <1>1, <2>1 DEF Without, K
<1> HIDE DEF P
<1>10. Sound(pool', coins) /\ DOMAIN pool' = P \ (P \ K)
  BY <1>8, <1>9, ClosedLeaves DEF P
<1> QED BY <1>7, <1>10 DEF P

-----------------------------------------------------------------------------
(* The invariant. *)

\* What the pool may spend: the coins of the tip, and during a reorganisation what the
\* disconnected transactions create, until they have been tried again.
Spendable == DOMAIN CoinsTip \cup Outs(ToSet(disconnectpool))

Typed ==
  /\ tip \in Blocks /\ minFee \in Nat
  /\ pc \in {"rest", "package", "reported", "reorg", "update", "assemble", "template"}
  /\ pc \in {"package", "reported"} <=> pkg # NoPackage
  /\ pc \in {"reorg", "update"} <=> pindexOldTip # NoBlock
  /\ pc \notin {"reorg", "update"} => disconnectpool = <<>>
  /\ disconnectpool \in Seq(Txs) /\ Len(disconnectpool) <= MaxDisconnected
  /\ vHashUpdate \subseteq Txs

\* AcceptPackage: what was tried is in the report or not in the pool.
Trying ==
  /\ pkg \in PackageLocals /\ pkg.next \in 1 .. Len(pkg.txns) + 1
  /\ ToSet(pkg.eval) \subseteq ToSet(pkg.txns) /\ pkg.view \subseteq DOMAIN CoinsTip
  /\ \A t \in DOMAIN pkg.results : pkg.results[t] # "INVALID"
  /\ \A i \in 1 .. pkg.next - 1 : pkg.txns[i] \in DOMAIN pkg.results \/ pkg.txns[i] \notin DOMAIN pool

MempoolInv ==
  /\ Typed
  /\ Sound(pool, Spendable)
  /\ pc = "package" => Trying
  /\ ResultsTruthful

\* Nothing creates nothing.
LEMMA OutsOfNothing == Outs({}) = {} /\ ToSet(<<>>) = {} /\ Outs(ToSet(<<>>)) = {}
BY DEF Outs, ToSet

\* Between reorganisations the pool may spend the coins of the tip and no others.
LEMMA AtRest ==
  ASSUME Typed, disconnectpool = <<>>
  PROVE  Spendable = DOMAIN CoinsTip
BY OutsOfNothing DEF Spendable

\* The invariant implies what the run checks.
LEMMA InvConsistent ==
  ASSUME MempoolInv
  PROVE  PoolConsistent
<1>1. /\ DOMAIN pool \subseteq Txs \ Coinbases
      /\ \A t \in DOMAIN pool : pool[t].lp.height \in Int /\ pool[t].lp.maxInputBlock \in Blocks
  BY DEF MempoolInv, Sound, Entry, LockPoint
<1>2. TypeOK
  <2>1. ToSet(disconnectpool) \subseteq Txs
    BY DEF MempoolInv, Typed, ToSet
  <2> QED BY <1>1, <2>1 DEF TypeOK, MempoolInv, Typed
<1>3. ASSUME pc \in {"rest", "reported"} \/ AllTried
      PROVE  /\ \A t, u \in DOMAIN pool : t # u => Spends[t] \cap Spends[u] = {}
             /\ \A t \in DOMAIN pool :
                  Spends[t] \subseteq DOMAIN CoinsTip \cup UNION {Creates[p] : p \in DOMAIN pool}
  <2>1. disconnectpool = <<>>
    BY <1>3 DEF AllTried, MempoolInv, Typed
  <2>2. Sound(pool, DOMAIN CoinsTip)
    BY <2>1, AtRest DEF MempoolInv
  <2> QED BY <2>2 DEF Sound, OnceSpent, Sourced, Outs
<1> QED BY <1>2, <1>3 DEF PoolConsistent

-----------------------------------------------------------------------------
(* Single transactions. *)

\* A transaction is accepted only if PreChecks lets it through.
LEMMA SingleAccepted ==
  ASSUME NEW t, NEW args, NEW extra, AcceptSingleTransaction(t, args, extra) = "valid"
  PROVE  PreChecks(t, args, extra) = "valid"
BY DEF AcceptSingleTransaction

\* A transaction is submitted by itself.
LEMMA AcceptToMemoryPoolStep ==
  ASSUME MempoolInv, NEW t \in Txs, AcceptToMemoryPool(t)
  PROVE  MempoolInv'
<1>1. /\ pc = "rest" /\ disconnectpool = <<>> /\ tip \in Blocks /\ minFee \in Nat
      /\ Spendable = DOMAIN CoinsTip
  BY AtRest DEF AcceptToMemoryPool, MempoolInv, Typed
<1>2. Sound(Finalize(t), DOMAIN CoinsTip)
  <2>1. PreChecks(t, SingleAccept, {}) = "valid"
    BY SingleAccepted DEF AcceptToMemoryPool
  <2>2. Sound(pool, DOMAIN CoinsTip)
    BY <1>1 DEF MempoolInv
  <2>3. {} \subseteq DOMAIN CoinsTip
    OBVIOUS
  <2> HIDE DEF MempoolInv
  <2> QED BY <1>1, <2>1, <2>2, <2>3, FinalizeSound
<1>3. Sound(pool', DOMAIN CoinsTip) /\ minFee' \in Nat
  BY <1>1, <1>2, LimitSound DEF AcceptToMemoryPool
<1>4. UNCHANGED <<tip, pc, pindexOldTip, disconnectpool, vHashUpdate, pkg>>
  BY DEF AcceptToMemoryPool, reorgVars
<1>5. Sound(pool, Spendable)'
  BY <1>1, <1>3, <1>4 DEF Spendable, CoinsTip
<1>6. Typed'
  BY <1>3, <1>4 DEF MempoolInv, Typed
<1> QED BY <1>1, <1>4, <1>5, <1>6 DEF MempoolInv, ResultsTruthful

\* The minimum fee goes down.
LEMMA MinFeeDecaysStep ==
  ASSUME MempoolInv, MinFeeDecays
  PROVE  MempoolInv'
<1>1. UNCHANGED <<tip, pool, pc, pindexOldTip, disconnectpool, vHashUpdate, pkg>> /\ minFee' \in Nat
  BY DEF MinFeeDecays, reorgVars
<1> QED BY <1>1 DEF MempoolInv, Typed, Spendable, CoinsTip, Trying, ResultsTruthful

-----------------------------------------------------------------------------
(* Blocks. *)

\* A block is disconnected: its coins go, but its transactions wait in disconnectpool or
\* their descendants leave the pool.
LEMMA DisconnectTipStep ==
  ASSUME MempoolInv, DisconnectTip
  PROVE  MempoolInv'
<1> DEFINE all == disconnectpool \o Reverse(BlockTxs[tip])
           over == Overflow(all)
           lost == ToSet(SubSeq(all, 1, over))
           left == SubSeq(all, over + 1, Len(all))
<1>1. /\ pc \in {"rest", "reorg"} /\ tip \in Blocks \ {Genesis} /\ disconnectpool \in Seq(Txs)
      /\ disconnectpool' = left /\ pool' = RemoveRecursive(pool, lost)
      /\ tip' = Parent[tip] /\ pc' = "reorg"
      /\ pindexOldTip' = IF pc = "rest" THEN tip ELSE pindexOldTip
      /\ UNCHANGED <<minFee, vHashUpdate, pkg>>
  BY DEF DisconnectTip, MempoolInv, Typed, Goto
<1>2. BlockTxs[tip] \in Seq(Txs) /\ Parent[tip] \in Blocks
  BY <1>1, BlockTxsAre, ParentFacts
<1>3. /\ left \in Seq(Txs) /\ Len(left) <= MaxDisconnected /\ lost \in SUBSET Txs
      /\ ToSet(disconnectpool) \cup ToSet(BlockTxs[tip]) \subseteq lost \cup ToSet(left)
  BY <1>1, <1>2, OverflowFacts
<1> HIDE DEF lost, left
<1> DEFINE now == DOMAIN CoinsAt[Parent[tip]] \cup Outs(ToSet(left))
<1>4. Sound(pool, now \cup Outs(lost))
  <2>1. Spendable \subseteq now \cup Outs(lost)
    <3>1. DOMAIN CoinsTip \subseteq DOMAIN CoinsAt[Parent[tip]] \cup Outs(ToSet(BlockTxs[tip]))
      BY <1>1, CoinsBelow DEF CoinsTip
    <3> QED BY <1>3, <3>1 DEF Spendable, Outs
  <2>2. Sound(pool, Spendable) /\ \A t \in DOMAIN pool : Spends[t] \cap Spendable \subseteq now \cup Outs(lost)
    BY <2>1 DEF MempoolInv
  <2> HIDE DEF now
  <2> QED BY <2>2, OtherCoins
<1>5. Sound(pool', now)
  <2> HIDE DEF now
  <2> QED BY <1>1, <1>3, <1>4, RemovalSound
<1>6. Sound(pool, Spendable)'
  BY <1>1, <1>5 DEF Spendable, CoinsTip
<1>7. Typed'
  BY <1>1, <1>2, <1>3, TreeAssumption DEF MempoolInv, Typed
<1> QED BY <1>1, <1>6, <1>7 DEF MempoolInv, ResultsTruthful

\* The entries that a block leaves in the pool spend what is there after it.
LEMMA RemoveForBlockSound ==
  ASSUME NEW coins, Sound(pool, coins), NEW txns \in SUBSET Txs, NEW now,
         \A o \in coins \cup Outs(txns) : o \in Ins(txns) \/ o \in now
  PROVE  Sound(RemoveForBlock(txns), now)
<1> DEFINE P == DOMAIN pool
           W == Without(pool, txns)
           K == {c \in DOMAIN W : \E t \in txns : Spends[c] \cap Spends[t] # {}}
           Q == DOMAIN W
<1>1. Q = P \ txns /\ \A t \in Q : W[t] = pool[t]
  BY DEF Without, Restrict
<1>2. Q \in SUBSET Txs /\ K \in SUBSET Txs /\ K \subseteq Q /\ Q \subseteq Txs \ Coinbases
  BY <1>1 DEF Sound
<1>3. RemoveForBlock(txns) = RemoveRecursive(W, K)
  BY DEF RemoveForBlock
<1>4. \A t \in Q \ K : Spends[t] \cap Ins(txns) = {}
  BY DEF Ins
<1> HIDE DEF K, W
<1>5. PICK D : /\ RemoveRecursive(W, K) = Without(W, D)
               /\ ClosedIn(D, Q) /\ K \cap Q \subseteq D
  BY <1>2, RemovalIsClosed
<1> DEFINE V == Without(W, D)
<1>6. DOMAIN V = Q \ D /\ V \in [Q \ D -> Entry]
  <2>1. \A t \in Q \ D : W[t] \in Entry
    BY <1>1 DEF Sound
  <2> QED BY <2>1 DEF Without, Restrict
<1> HIDE DEF V, Q
<1>7. ASSUME NEW t \in Q \ D, NEW o \in Spends[t], o \notin now
      PROVE  o \in Outs(Q \ D)
  <2>1. o \notin Ins(txns)
    BY <1>2, <1>4, <1>5, <1>7
  <2>2. o \notin coins /\ o \notin Outs(txns)
    BY <1>7, <2>1
  <2>3. PICK p \in P : o \in Creates[p]
    BY <1>1, <1>7, <2>2 DEF Sound, Sourced, Outs
  <2>4. p \in Q
    BY <1>1, <2>2, <2>3 DEF Outs
  <2>5. p \notin D
    BY <1>5, <1>7, <2>3 DEF ClosedIn, Children
  <2> QED BY <2>3, <2>4, <2>5 DEF Outs
<1>8. Sourced(Q \ D, now)
  BY <1>7 DEF Sourced
<1>9. OnceSpent(Q \ D)
  BY <1>1 DEF Sound, OnceSpent
<1> QED BY <1>2, <1>3, <1>5, <1>6, <1>8, <1>9 DEF Sound, V

\* A block is connected: what it confirms becomes coins, what it spends is spent by no entry.
LEMMA ConnectTipStep ==
  ASSUME MempoolInv, NEW b \in Blocks, ConnectTip(b)
  PROVE  MempoolInv'
<1> DEFINE txns == ToSet(BlockTxs[b])
           left == WithoutTxs(disconnectpool, txns)
           now == DOMAIN CoinsAt[b] \cup Outs(ToSet(left))
<1>1. /\ pc \in {"rest", "reorg"} /\ tip = Parent[b] /\ tip \in Blocks /\ disconnectpool \in Seq(Txs)
      /\ disconnectpool' = left /\ pool' = RemoveForBlock(txns) /\ tip' = b
      /\ UNCHANGED <<minFee, pc, pindexOldTip, vHashUpdate, pkg>>
  BY DEF ConnectTip, MempoolInv, Typed
<1>2. b \in Blocks \ {Genesis} /\ txns \in SUBSET Txs
  BY <1>1, TreeAssumption, BlockTxsAre
<1>3. left \in Seq(Txs) /\ Len(left) <= Len(disconnectpool) /\ ToSet(left) = ToSet(disconnectpool) \ txns
  BY <1>1, WithoutTxsFacts
<1>4. ASSUME NEW o \in Spendable \cup Outs(txns), o \notin Ins(txns)
      PROVE  o \in now
  <2>1. CASE o \in DOMAIN CoinsAt[Parent[b]] \cup Outs(txns)
    BY <1>2, <1>4, <2>1, CoinsAbove
  <2>2. CASE o \notin DOMAIN CoinsAt[Parent[b]] \cup Outs(txns)
    <3>1. o \in Outs(ToSet(disconnectpool))
      BY <1>1, <2>2 DEF Spendable, CoinsTip
    <3>2. PICK t \in ToSet(disconnectpool) : o \in Creates[t]
      BY <3>1 DEF Outs
    <3>3. t \in ToSet(left)
      BY <1>3, <2>2, <3>2 DEF Outs
    <3> QED BY <3>2, <3>3 DEF Outs
  <2> QED BY <2>1, <2>2
<1> HIDE DEF txns, left
<1>5. Sound(pool', now)
  <2>1. Sound(pool, Spendable)
    BY DEF MempoolInv
  <2> HIDE DEF now
  <2> QED BY <1>1, <1>2, <1>4, <2>1, RemoveForBlockSound
<1>6. Sound(pool, Spendable)'
  BY <1>1, <1>5 DEF Spendable, CoinsTip
<1>7. left = <<>> \/ pc \in {"reorg", "update"}
  <2>1. CASE disconnectpool = <<>>
    <3>1. Len(left) = 0
      BY <1>3, <2>1
    <3> QED BY <1>3, <3>1
  <2> QED BY <2>1 DEF MempoolInv, Typed
<1>8. Typed'
  <2>1. Len(left) <= MaxDisconnected
    BY <1>1, <1>3, PolicyAssumption DEF MempoolInv, Typed
  <2> QED BY <1>1, <1>2, <1>3, <1>7, <2>1 DEF MempoolInv, Typed
<1> QED BY <1>1, <1>6, <1>8 DEF MempoolInv, ResultsTruthful

\* MaybeUpdateMempoolForReorg begins.
LEMMA MaybeUpdateStep ==
  ASSUME MempoolInv, NEW fAdd, MaybeUpdateMempoolForReorg(fAdd)
  PROVE  MempoolInv'
<1>1. /\ pc = "reorg" /\ pc' = "update" /\ vHashUpdate' = {}
      /\ UNCHANGED <<tip, pool, minFee, pindexOldTip, disconnectpool, pkg>>
  BY DEF MaybeUpdateMempoolForReorg, Goto
<1> QED BY <1>1 DEF MempoolInv, Typed, Spendable, CoinsTip, ResultsTruthful

\* A disconnected transaction comes back, or its descendants leave with it.
LEMMA ReAddTxStep ==
  ASSUME MempoolInv, ReAddTx
  PROVE  MempoolInv'
<1> DEFINE t == EarliestConfirmed
           left == WithoutTxs(disconnectpool, {t})
           now == DOMAIN CoinsTip \cup Outs(ToSet(left))
<1>1. /\ pc = "update" /\ disconnectpool # <<>> /\ disconnectpool \in Seq(Txs) /\ tip \in Blocks
      /\ disconnectpool' = left
      /\ UNCHANGED <<tip, minFee, pc, pindexOldTip, pkg>>
  BY DEF ReAddTx, MempoolInv, Typed
<1>2. t \in Txs
  <2>1. Len(disconnectpool) \in 1 .. Len(disconnectpool)
    BY <1>1
  <2> QED BY <1>1, <2>1 DEF EarliestConfirmed, Last
<1>3. left \in Seq(Txs) /\ Len(left) <= Len(disconnectpool) /\ ToSet(left) = ToSet(disconnectpool) \ {t}
  BY <1>1, WithoutTxsFacts
<1>4. Spendable \subseteq now \cup Outs({t}) /\ DOMAIN CoinsTip \subseteq now /\ now \subseteq Spendable
  BY <1>3 DEF Spendable, Outs
<1>5. Sound(pool, Spendable) /\ vHashUpdate \subseteq Txs
  BY DEF MempoolInv, Typed
<1> HIDE DEF now, t
<1>6. Sound(pool', now) /\ vHashUpdate' \subseteq Txs
  <2>1. CASE fAddToMempool /\ AcceptSingleTransaction(t, ReorgAccept, {}) = "valid"
    <3>1. pool' = Finalize(t) /\ vHashUpdate' = vHashUpdate \cup {t}
      BY <2>1 DEF ReAddTx, t
    <3>2. /\ Sound(Finalize(t), Spendable)
          /\ t \in DOMAIN Finalize(t)
      <4>1. PreChecks(t, ReorgAccept, {}) = "valid" /\ {} \subseteq DOMAIN CoinsTip
        BY <2>1, SingleAccepted
      <4>2. DOMAIN CoinsTip \subseteq Spendable
        BY DEF Spendable
      <4> QED BY <1>1, <1>2, <1>5, <4>1, <4>2, FinalizeSound
    <3> DEFINE F == Finalize(t)
    <3>3. Sound(F, Spendable) /\ t \in DOMAIN F
      BY <3>2
    <3> HIDE DEF F
    <3>4. Sound(F, now)
      <4>1. Outs({t}) \subseteq Outs(DOMAIN F)
        BY <3>3 DEF Outs
      <4>2. \A u \in DOMAIN F : Spends[u] \subseteq Spendable \cup Outs(DOMAIN F)
        BY <3>3 DEF Sound, Sourced
      <4>3. \A u \in DOMAIN F : Spends[u] \subseteq now \cup Outs(DOMAIN F)
        BY <1>4, <4>1, <4>2
      <4> QED BY <3>3, <4>3 DEF Sound, Sourced
    <3> QED BY <1>2, <1>5, <3>1, <3>4 DEF F
  <2>2. CASE ~(fAddToMempool /\ AcceptSingleTransaction(t, ReorgAccept, {}) = "valid")
    <3>1. pool' = RemoveRecursive(pool, {t}) /\ vHashUpdate' = vHashUpdate
      BY <2>2 DEF ReAddTx, t
    <3>2. Sound(pool, now \cup Outs({t}))
      BY <1>4, <1>5, OtherCoins
    <3>3. {t} \in SUBSET Txs
      BY <1>2
    <3> QED BY <1>5, <3>1, <3>2, <3>3, RemovalSound
  <2> QED BY <2>1, <2>2
<1>7. Sound(pool, Spendable)'
  BY <1>1, <1>6 DEF Spendable, CoinsTip, now
<1>8. Typed'
  <2>1. Len(left) <= MaxDisconnected
    BY <1>1, <1>3, PolicyAssumption DEF MempoolInv, Typed
  <2> QED BY <1>1, <1>3, <1>6, <2>1 DEF MempoolInv, Typed
<1> QED BY <1>1, <1>7, <1>8 DEF MempoolInv, ResultsTruthful

\* The filters of MaybeUpdateMempoolForReorg.
LEMMA FinishUpdateStep ==
  ASSUME MempoolInv, FinishUpdate
  PROVE  MempoolInv'
<1> DEFINE updated == UpdateTransactionsFromBlock
           kept == RemoveRecursive(updated, {t \in DOMAIN updated : ~FinalAndMature(t)})
           entries == [t \in DOMAIN kept |-> [kept[t] EXCEPT !.lp = LockPoints(t)]]
<1>1. /\ pc = "update" /\ disconnectpool = <<>> /\ tip \in Blocks /\ minFee \in Nat
      /\ pc' = "rest" /\ pindexOldTip' = NoBlock /\ vHashUpdate' = {}
      /\ UNCHANGED <<tip, disconnectpool, pkg>> /\ LimitMempoolSize(entries, vHashUpdate)
  BY DEF FinishUpdate, Goto, MempoolInv, Typed
<1> DEFINE coins == DOMAIN CoinsTip
<1>2. Sound(pool, coins)
  BY <1>1, AtRest DEF MempoolInv
<1> HIDE DEF coins
<1>3. /\ Sound(updated, coins) /\ DOMAIN updated \subseteq DOMAIN pool
      /\ \A t \in DOMAIN updated : updated[t] = pool[t]
  <2> DEFINE over == {t \in Descendants(vHashUpdate, DOMAIN pool) \ vHashUpdate :
                        Cardinality(Ancestors(t, DOMAIN pool)) + 1 > AncestorLimit}
  <2>1. over \in SUBSET Txs
    <3>1. DOMAIN pool \in SUBSET Txs /\ vHashUpdate \in SUBSET Txs
      BY <1>2 DEF Sound, MempoolInv, Typed
    <3>2. Descendants(vHashUpdate, DOMAIN pool) \subseteq vHashUpdate \cup DOMAIN pool
      BY <3>1, DescendantFacts
    <3> QED BY <3>1, <3>2
  <2>2. updated = RemoveRecursive(pool, over)
    BY DEF UpdateTransactionsFromBlock
  <2> HIDE DEF over, updated
  <2>3. Sound(pool, coins \cup Outs(over))
    BY <1>2, OtherCoins
  <2> QED BY <2>1, <2>2, <2>3, RemovalSound
<1> HIDE DEF updated
<1>4. /\ Sound(kept, coins) /\ DOMAIN kept \subseteq DOMAIN pool
      /\ \A t \in DOMAIN kept : kept[t] = pool[t]
  <2> DEFINE bad == {t \in DOMAIN updated : ~FinalAndMature(t)}
  <2>1. bad \in SUBSET Txs
    BY <1>3 DEF Sound
  <2>2. kept = RemoveRecursive(updated, bad)
    OBVIOUS
  <2> HIDE DEF bad, kept
  <2>3. Sound(updated, coins \cup Outs(bad))
    BY <1>3, OtherCoins
  <2>4. /\ Sound(kept, coins) /\ DOMAIN kept \subseteq DOMAIN updated
        /\ \A t \in DOMAIN kept : kept[t] = updated[t]
    BY <2>1, <2>2, <2>3, RemovalSound
  <2> QED BY <1>3, <2>4
<1> HIDE DEF kept
<1>5. Sound(entries, coins) /\ DOMAIN entries = DOMAIN kept
  <2>1. DOMAIN entries = DOMAIN kept
    OBVIOUS
  <2>2. ASSUME NEW t \in DOMAIN kept
        PROVE  [kept[t] EXCEPT !.lp = LockPoints(t)] \in Entry
    <3>1. kept[t] \in Entry /\ t \in Txs \ Coinbases /\ kept[t] = pool[t]
      BY <1>4 DEF Sound
    <3>2. LockPoints(t) \in LockPoint
      BY <1>1, <3>1, LockPointsTyped DEF LockPoints, Entry
    <3> QED BY <3>1, <3>2 DEF Entry
  <2>3. entries \in [DOMAIN kept -> Entry]
    BY <2>2
  <2> HIDE DEF entries
  <2> QED BY <1>4, <2>1, <2>3 DEF Sound
<1> HIDE DEF entries
<1>6. Sound(pool', coins) /\ minFee' \in Nat
  BY <1>1, <1>5, LimitSound
<1>7. Typed'
  BY <1>1, <1>6 DEF MempoolInv, Typed
<1>8. Sound(pool, Spendable)'
  <2>1. Spendable' = coins
    BY <1>1, OutsOfNothing DEF Spendable, CoinsTip, coins
  <2> QED BY <1>6, <2>1
<1> QED BY <1>1, <1>7, <1>8 DEF MempoolInv, ResultsTruthful

-----------------------------------------------------------------------------
(* Packages. *)

\* The transactions of a package differ and spend different coins.
LEMMA PackagesAre ==
  ASSUME NEW p \in Packages
  PROVE  /\ p \in Seq(Txs) /\ Len(p) \in Nat /\ DOMAIN p = 1 .. Len(p) /\ ToSet(p) \subseteq Txs
         /\ \A i, j \in 1 .. Len(p) : i # j => p[i] # p[j]
         /\ OnceSpent(ToSet(p))
<1>1. p \in Seq(Txs) /\ Len(p) \in Nat /\ DOMAIN p = 1 .. Len(p)
  BY PolicyAssumption
<1>2. \A i, j \in 1 .. Len(p) : i # j => p[i] # p[j] /\ Spends[p[i]] \cap Spends[p[j]] = {}
  BY <1>1, PolicyAssumption
<1>3. ASSUME NEW t \in ToSet(p), NEW u \in ToSet(p), t # u
      PROVE  Spends[t] \cap Spends[u] = {}
  <2>1. PICK i \in DOMAIN p : t = p[i]
    BY DEF ToSet
  <2>2. PICK j \in DOMAIN p : u = p[j]
    BY DEF ToSet
  <2> QED BY <1>1, <1>2, <1>3, <2>1, <2>2
<1> QED BY <1>1, <1>2, <1>3 DEF ToSet, OnceSpent

\* Coins are outputs of transactions.
LEMMA CoinsAreCreated ==
  ASSUME tip \in Blocks
  PROVE  DOMAIN CoinsTip \subseteq UNION {Creates[t] : t \in Txs}
BY CoinsAre, ConfirmedIs DEF CoinsTip, Outs

\* A package is submitted.
LEMMA ProcessNewPackageStep ==
  ASSUME MempoolInv, NEW p \in Packages, ProcessNewPackage(p)
  PROVE  MempoolInv'
<1> DEFINE none == [t \in {} |-> ""]
           view == Spends[Child(p)] \cap DOMAIN CoinsTip
<1>1. /\ pc = "rest" /\ pc' = "package" /\ tip \in Blocks
      /\ pkg' = [txns |-> p, next |-> 1, results |-> none, eval |-> <<>>,
                 quitEarly |-> FALSE, view |-> view]
      /\ UNCHANGED <<tip, pool, minFee, pindexOldTip, disconnectpool, vHashUpdate>>
  BY DEF ProcessNewPackage, Goto, reorgVars, MempoolInv, Typed
<1>2. pkg' \in PackageLocals
  <2>1. view \in SUBSET UNION {Creates[t] : t \in Txs}
    BY <1>1, CoinsAreCreated
  <2>2. none \in UNION {[S -> {"MEMPOOL_ENTRY", "VALID", "INVALID"}] : S \in SUBSET Txs}
    <3>1. none \in [{} -> {"MEMPOOL_ENTRY", "VALID", "INVALID"}] /\ {} \in SUBSET Txs
      OBVIOUS
    <3> QED BY <3>1
  <2>3. <<>> \in Seq(Txs)
    OBVIOUS
  <2> HIDE DEF none, view
  <2> QED BY <1>1, <2>1, <2>2, <2>3 DEF PackageLocals
<1>3. DOMAIN none = {} /\ view \subseteq DOMAIN CoinsTip /\ ToSet(<<>>) = {}
  BY DEF ToSet
<1> HIDE DEF none, view
<1>4. Trying'
  <2>1. 1 \in 1 .. Len(p) + 1 /\ 1 .. 1 - 1 = {}
    BY PackagesAre
  <2> QED BY <1>1, <1>2, <1>3, <2>1 DEF Trying, CoinsTip
<1>5. Typed'
  BY <1>1, <1>2, NoPackageAssumption DEF MempoolInv, Typed
<1>6. Sound(pool, Spendable)'
  BY <1>1 DEF MempoolInv, Spendable, CoinsTip
<1> QED BY <1>1, <1>4, <1>5, <1>6 DEF MempoolInv, ResultsTruthful

\* A transaction that is in the pool is not refused for a policy or a missing input.
LEMMA InPoolIsConflict ==
  ASSUME NEW t \in DOMAIN pool, NEW args, NEW extra
  PROVE  AcceptSingleTransaction(t, args, extra) \notin {"policy", "missing", "valid"}
BY DEF AcceptSingleTransaction, PreChecks

\* What the four outcomes of a transaction of a package have in common.
Results == UNION {[S -> {"MEMPOOL_ENTRY", "VALID", "INVALID"}] : S \in SUBSET Txs}
Outcome(t, results, eval, quit, coins) ==
  /\ pkg' = [pkg EXCEPT !.next = pkg.next + 1, !.results = results, !.eval = eval,
                        !.quitEarly = quit, !.view = coins]
  /\ results \in Results /\ \A x \in DOMAIN results : results[x] # "INVALID"
  /\ DOMAIN pkg.results \subseteq DOMAIN results
  /\ eval \in Seq(Txs) /\ ToSet(eval) \subseteq ToSet(pkg.txns) /\ quit \in BOOLEAN
  /\ coins \subseteq DOMAIN CoinsTip
  /\ Sound(pool', DOMAIN CoinsTip) /\ DOMAIN pool' \subseteq DOMAIN pool \cup {t}
  /\ t \in DOMAIN results \/ t \notin DOMAIN pool'

\* A transaction of a package is tried by itself.
LEMMA PackageTxStep ==
  ASSUME MempoolInv, PackageTx
  PROVE  MempoolInv'
<1> DEFINE t == pkg.txns[pkg.next]
           result == AcceptSingleTransaction(t, SingleAccept, pkg.view)
           found == Spends[t] \cap (DOMAIN CoinsTip \cup UNION {Creates[p] : p \in DOMAIN pool})
           view == CleanView(pkg.view \cup found)
           Report(r) == [x \in DOMAIN pkg.results \cup {t} |-> IF x = t THEN r ELSE pkg.results[x]]
           tried == [pkg EXCEPT !.next = @ + 1, !.view = CleanView(@ \cup found)]
           n == Len(pkg.txns)
<1>1. /\ pc = "package" /\ pkg.next <= n /\ Trying /\ tip \in Blocks
      /\ UNCHANGED <<tip, minFee, pc, pindexOldTip, disconnectpool, vHashUpdate>>
      /\ disconnectpool = <<>> /\ Spendable = DOMAIN CoinsTip
  BY AtRest DEF PackageTx, MempoolInv, Typed, reorgVars
<1>2. /\ pkg \in PackageLocals /\ pkg.txns \in Packages /\ pkg.next \in 1 .. n /\ n \in Nat
      /\ pkg.txns \in Seq(Txs) /\ DOMAIN pkg.txns = 1 .. n /\ t \in Txs /\ t \in ToSet(pkg.txns)
      /\ pkg.next + 1 \in 1 .. n + 1 /\ pkg.next + 1 \in Nat
      /\ 1 .. (pkg.next + 1) - 1 = (1 .. pkg.next - 1) \cup {pkg.next}
  <2>1. pkg \in PackageLocals /\ pkg.txns \in Packages /\ pkg.next \in 1 .. n + 1
    BY <1>1 DEF Trying, PackageLocals
  <2>2. n \in Nat /\ pkg.txns \in Seq(Txs) /\ DOMAIN pkg.txns = 1 .. n
    BY <2>1, PackagesAre
  <2>3. pkg.next \in 1 .. n
    BY <1>1, <2>1, <2>2
  <2>4. t \in ToSet(pkg.txns) /\ t \in Txs
    BY <2>2, <2>3 DEF ToSet
  <2> HIDE DEF n
  <2> QED BY <2>1, <2>2, <2>3, <2>4
<1>3. view \subseteq DOMAIN CoinsTip
  BY DEF CleanView
<1>4. ASSUME NEW r \in {"MEMPOOL_ENTRY", "VALID"}
      PROVE  /\ Report(r) \in Results
             /\ t \in DOMAIN Report(r) /\ DOMAIN pkg.results \subseteq DOMAIN Report(r)
             /\ \A x \in DOMAIN Report(r) : Report(r)[x] # "INVALID"
  <2>1. PICK S \in SUBSET Txs : pkg.results \in [S -> {"MEMPOOL_ENTRY", "VALID", "INVALID"}]
    BY <1>2 DEF PackageLocals, Results
  <2>2. DOMAIN pkg.results = S
    BY <2>1
  <2>3. Report(r) \in [S \cup {t} -> {"MEMPOOL_ENTRY", "VALID", "INVALID"}] /\ S \cup {t} \in SUBSET Txs
    BY <1>2, <2>1, <2>2
  <2>4. \A x \in DOMAIN pkg.results : pkg.results[x] # "INVALID"
    BY <1>1 DEF Trying
  <2> QED BY <2>2, <2>3, <2>4 DEF Results
<1>5. Sound(pool, DOMAIN CoinsTip) /\ pkg.view \subseteq DOMAIN CoinsTip
  BY <1>1 DEF MempoolInv, Trying
<1>6. ASSUME NEW results, NEW eval, NEW quit, NEW coins, Outcome(t, results, eval, quit, coins)
      PROVE  MempoolInv'
  <2> DEFINE next == pkg.next + 1
  <2> USE DEF Outcome
  <2>1. /\ pkg'.txns = pkg.txns /\ pkg'.next = next /\ pkg'.results = results /\ pkg'.eval = eval
        /\ pkg'.view = coins
    BY <1>2, <1>6 DEF PackageLocals
  <2>2. pkg' \in PackageLocals
    <3>1. coins \in SUBSET UNION {Creates[x] : x \in Txs}
      BY <1>1, <1>6, CoinsAreCreated
    <3> HIDE DEF t, n
    <3> QED BY <1>2, <1>6, <3>1 DEF PackageLocals, Results
  <2>3. ASSUME NEW i \in 1 .. next - 1
        PROVE  pkg.txns[i] \in DOMAIN results \/ pkg.txns[i] \notin DOMAIN pool'
    <3>1. CASE i = pkg.next
      BY <1>6, <3>1
    <3>2. CASE i # pkg.next
      <4>1. i \in 1 .. pkg.next - 1 /\ i \in 1 .. n
        BY <1>2, <1>6, <3>2
      <4>2. pkg.txns[i] \in DOMAIN pkg.results \/ pkg.txns[i] \notin DOMAIN pool
        BY <1>1, <4>1 DEF Trying
      <4>3. pkg.txns[i] # t
        BY <1>2, <3>2, <4>1, PackagesAre
      <4> QED BY <1>6, <4>2, <4>3
    <3> QED BY <3>1, <3>2
  <2>4. Trying'
    BY <1>1, <1>2, <1>6, <2>1, <2>2, <2>3 DEF Trying, CoinsTip
  <2>5. Typed'
    BY <1>1, <2>2, NoPackageAssumption DEF MempoolInv, Typed
  <2>6. Sound(pool, Spendable)'
    BY <1>1, <1>6, OutsOfNothing DEF Spendable, CoinsTip
  <2> QED BY <1>1, <2>4, <2>5, <2>6 DEF MempoolInv, ResultsTruthful
<1>7. /\ pkg.results \in Results
      /\ \A x \in DOMAIN pkg.results : pkg.results[x] # "INVALID"
      /\ pkg.eval \in Seq(Txs) /\ ToSet(pkg.eval) \subseteq ToSet(pkg.txns) /\ pkg.quitEarly \in BOOLEAN
  BY <1>1, <1>2 DEF Trying, PackageLocals, Results
<1>8. CASE t \in DOMAIN pool /\ pkg' = [pkg EXCEPT !.next = @ + 1, !.results = Report("MEMPOOL_ENTRY")]
           /\ UNCHANGED pool
  <2>1. pkg' = [pkg EXCEPT !.next = pkg.next + 1, !.results = Report("MEMPOOL_ENTRY"),
                           !.eval = pkg.eval, !.quitEarly = pkg.quitEarly, !.view = pkg.view]
    <3> HIDE DEF Report
    <3> QED BY <1>2, <1>8 DEF PackageLocals
  <2> HIDE DEF t, Report
  <2>2. DOMAIN pool' = DOMAIN pool /\ Sound(pool', DOMAIN CoinsTip)
    BY <1>5, <1>8
  <2>3. Outcome(t, Report("MEMPOOL_ENTRY"), pkg.eval, pkg.quitEarly, pkg.view)
    BY <1>4, <1>5, <1>7, <2>1, <2>2 DEF Outcome
  <2> QED BY <1>6, <2>3
<1>9. CASE t \notin DOMAIN pool /\ result = "valid" /\ pkg' = [tried EXCEPT !.results = Report("VALID")]
           /\ pool' = Finalize(t)
  <2>1. pkg' = [pkg EXCEPT !.next = pkg.next + 1, !.results = Report("VALID"),
                           !.eval = pkg.eval, !.quitEarly = pkg.quitEarly, !.view = view]
    <3> HIDE DEF Report
    <3> QED BY <1>2, <1>9 DEF PackageLocals
  <2>2. Sound(pool', DOMAIN CoinsTip) /\ DOMAIN pool' \subseteq DOMAIN pool \cup {t}
    <3>1. PreChecks(t, SingleAccept, pkg.view) = "valid"
      BY <1>9, SingleAccepted
    <3> HIDE DEF t
    <3> QED BY <1>1, <1>2, <1>5, <1>9, <3>1, FinalizeSound
  <2> HIDE DEF t, Report, view
  <2>3. Outcome(t, Report("VALID"), pkg.eval, pkg.quitEarly, view)
    BY <1>3, <1>4, <1>7, <2>1, <2>2 DEF Outcome
  <2> QED BY <1>6, <2>3
<1>10. CASE result \in {"policy", "missing"} /\ pkg' = [tried EXCEPT !.eval = Append(@, t)]
            /\ UNCHANGED pool
  <2>1. pkg' = [pkg EXCEPT !.next = pkg.next + 1, !.results = pkg.results,
                           !.eval = Append(pkg.eval, t), !.quitEarly = pkg.quitEarly, !.view = view]
    BY <1>2, <1>10 DEF PackageLocals
  <2>2. Append(pkg.eval, t) \in Seq(Txs) /\ ToSet(Append(pkg.eval, t)) \subseteq ToSet(pkg.txns)
    <3> DEFINE e == pkg.eval
               f == Append(e, t)
    <3>1. e \in Seq(Txs) /\ t \in Txs
      BY <1>2, <1>7
    <3> HIDE DEF e, t
    <3>2. /\ f \in Seq(Txs) /\ Len(f) = Len(e) + 1 /\ DOMAIN f = 1 .. Len(e) + 1 /\ Len(e) \in Nat
          /\ \A i \in 1 .. Len(e) : f[i] = e[i]
          /\ f[Len(e) + 1] = t
      BY <3>1, AppendProperties
    <3>3. DOMAIN e = 1 .. Len(e)
      BY <3>1
    <3> HIDE DEF f
    <3>4. ToSet(f) \subseteq ToSet(e) \cup {t}
      BY <3>2, <3>3 DEF ToSet
    <3> QED BY <1>2, <1>7, <3>2, <3>4 DEF e, f
  <2>3. t \notin DOMAIN pool
    BY <1>10, InPoolIsConflict
  <2> HIDE DEF t, view
  <2>4. DOMAIN pool' = DOMAIN pool /\ Sound(pool', DOMAIN CoinsTip)
    BY <1>5, <1>10
  <2>5. Outcome(t, pkg.results, Append(pkg.eval, t), pkg.quitEarly, view)
    BY <1>3, <1>7, <2>1, <2>2, <2>3, <2>4 DEF Outcome
  <2> QED BY <1>6, <2>5
<1>11. CASE t \notin DOMAIN pool /\ pkg' = [tried EXCEPT !.quitEarly = TRUE] /\ UNCHANGED pool
  <2>1. pkg' = [pkg EXCEPT !.next = pkg.next + 1, !.results = pkg.results,
                           !.eval = pkg.eval, !.quitEarly = TRUE, !.view = view]
    BY <1>2, <1>11 DEF PackageLocals
  <2> HIDE DEF t, view
  <2>2. DOMAIN pool' = DOMAIN pool /\ Sound(pool', DOMAIN CoinsTip)
    BY <1>5, <1>11
  <2>3. Outcome(t, pkg.results, pkg.eval, TRUE, view)
    BY <1>3, <1>7, <1>11, <2>1, <2>2 DEF Outcome
  <2> QED BY <1>6, <2>3
<1> HIDE DEF t, result, found, view, Report
<1> QED BY <1>8, <1>9, <1>10, <1>11 DEF PackageTx, t, result, found, Report

\* What passed the checks together fits the pool together.
LEMMA PackageSound ==
  ASSUME Trying, tip \in Blocks, Sound(pool, DOMAIN CoinsTip), PackageAccepted(pkg.eval)
  PROVE  Sound(With(pool, ToSet(pkg.eval)), DOMAIN CoinsTip)
         /\ DOMAIN With(pool, ToSet(pkg.eval)) = DOMAIN pool \cup ToSet(pkg.eval)
<1> DEFINE e == pkg.eval
           new == ToSet(e)
           P == DOMAIN pool
           coins == DOMAIN CoinsTip
<1>1. /\ e \in Seq(Txs) /\ DOMAIN e = 1 .. Len(e) /\ new \subseteq Txs
      /\ pkg.txns \in Packages /\ new \subseteq ToSet(pkg.txns) /\ pkg.view \subseteq coins
  <2>1. /\ e \in Seq(Txs) /\ pkg.txns \in Packages
        /\ new \subseteq ToSet(pkg.txns) /\ pkg.view \subseteq coins
    BY DEF Trying, PackageLocals
  <2>2. DOMAIN e = 1 .. Len(e) /\ \A i \in DOMAIN e : e[i] \in Txs
    BY <2>1
  <2> QED BY <2>1, <2>2 DEF ToSet
<1>2. ASSUME NEW i \in 1 .. Len(e)
      PROVE  /\ e[i] \notin Coinbases /\ e[i] \notin P /\ Conflicts(e[i]) = {}
             /\ Spends[e[i]] \subseteq coins \cup Outs(P) \cup Outs(new)
  <2> DEFINE extra == pkg.view \cup UNION {Creates[e[j]] : j \in 1 .. i - 1}
  <2>1. PreChecks(e[i], PackageChildWithParents, extra) = "valid"
    BY DEF PackageAccepted
  <2>2. PackageChildWithParents.allowReplacement = FALSE
    BY DEF PackageChildWithParents, SingleAccept
  <2>3. \A j \in 1 .. i - 1 : e[j] \in new
    BY <1>1 DEF ToSet
  <2>4. extra \subseteq coins \cup Outs(new)
    BY <1>1, <2>3 DEF Outs
  <2>5. e[i] \in Txs
    BY <1>1
  <2> HIDE DEF extra, e
  <2>6. /\ e[i] \notin Coinbases /\ e[i] \notin P /\ Conflicts(e[i]) = {}
        /\ Spends[e[i]] \subseteq extra \cup coins \cup Outs(P)
    BY <2>1, <2>2, <2>5, PreChecksPassed
  <2> QED BY <2>4, <2>6
<1>3. \A t \in new : /\ t \notin Coinbases /\ t \notin P /\ Conflicts(t) = {}
                     /\ Spends[t] \subseteq coins \cup Outs(P) \cup Outs(new)
  BY <1>1, <1>2 DEF ToSet
<1> HIDE DEF e, new
<1>4. OnceSpent(P \cup new)
  <2>1. OnceSpent(new)
    BY <1>1, PackagesAre DEF OnceSpent
  <2>2. \A c \in P, t \in new : Spends[c] \cap Spends[t] = {}
    BY <1>3 DEF Conflicts
  <2>3. OnceSpent(P)
    BY DEF Sound
  <2> QED BY <2>1, <2>2, <2>3 DEF OnceSpent
<1>5. new \in SUBSET (Txs \ Coinbases)
  BY <1>1, <1>3
<1> DEFINE W == With(pool, new)
<1>6. DOMAIN W = P \cup new /\ W \in [P \cup new -> Entry]
  <2>1. \A t \in P \cup new : (IF t \in new THEN NewEntry(t) ELSE pool[t]) \in Entry
    BY <1>5, NewEntryTyped DEF Sound
  <2> QED BY <2>1 DEF With
<1> HIDE DEF W
<1>7. Sourced(P \cup new, coins)
  <2>1. \A t \in P : Spends[t] \subseteq coins \cup Outs(P)
    BY DEF Sound, Sourced
  <2>2. Outs(P \cup new) = Outs(P) \cup Outs(new)
    BY DEF Outs
  <2> QED BY <1>3, <2>1, <2>2 DEF Sourced
<1>8. P \cup new \subseteq Txs \ Coinbases
  BY <1>5 DEF Sound
<1>9. Sound(W, coins)
  BY <1>4, <1>6, <1>7, <1>8 DEF Sound
<1> QED BY <1>6, <1>9 DEF W, new, e

\* Three ways out of a package: nothing is submitted, one transaction, or all that is left.
LEMMA SubmissionIs ==
  ASSUME Trying
  PROVE  \/ Submitted = {} /\ AfterSubmission = With(pool, {})
         \/ /\ Submitted = {pkg.eval[1]} /\ pkg.eval[1] \in Txs /\ pkg.eval[1] \in ToSet(pkg.eval)
            /\ AcceptSingleTransaction(pkg.eval[1], SingleAccept, pkg.view) = "valid"
            /\ AfterSubmission = Finalize(pkg.eval[1])
         \/ /\ PackageAccepted(pkg.eval) /\ Submitted = ToSet(pkg.eval) /\ Len(pkg.eval) > 1
            /\ AfterSubmission = With(pool, ToSet(pkg.eval))
<1> DEFINE e == pkg.eval
<1>1. e \in Seq(Txs) /\ Len(e) \in Nat /\ DOMAIN e = 1 .. Len(e) /\ (e = <<>> <=> Len(e) = 0)
  <2>1. e \in Seq(Txs)
    BY DEF Trying, PackageLocals
  <2> HIDE DEF e
  <2> QED BY <2>1
<1>2. \/ Submitted = {}
      \/ Len(e) = 1 /\ Submitted = {t \in ToSet(e) : AcceptSingleTransaction(t, SingleAccept, pkg.view) = "valid"}
      \/ Len(e) > 1 /\ PackageAccepted(e) /\ Submitted = ToSet(e)
  <2>1. CASE pkg.quitEarly \/ e = <<>>
    BY <2>1 DEF Submitted
  <2>2. CASE ~(pkg.quitEarly \/ e = <<>>) /\ Len(e) = 1
    BY <2>2 DEF Submitted
  <2>3. CASE ~(pkg.quitEarly \/ e = <<>>) /\ Len(e) > 1
    BY <2>3 DEF Submitted
  <2> HIDE DEF e
  <2>4. Len(e) = 0 \/ Len(e) = 1 \/ Len(e) > 1
    BY <1>1
  <2> QED BY <1>1, <2>1, <2>2, <2>3, <2>4
<1>3. CASE Submitted = {}
  BY <1>3 DEF AfterSubmission
<1>4. CASE Len(e) = 1 /\ Submitted # {}
           /\ Submitted = {t \in ToSet(e) : AcceptSingleTransaction(t, SingleAccept, pkg.view) = "valid"}
  <2>1. ToSet(e) = {e[1]} /\ e[1] \in Txs
    BY <1>1, <1>4 DEF ToSet
  <2> QED BY <1>4, <2>1 DEF AfterSubmission
<1>5. CASE Len(e) > 1 /\ PackageAccepted(e) /\ Submitted = ToSet(e)
  <2>1. Len(e) # 1
    <3> DEFINE n == Len(e)
    <3>1. n \in Nat /\ n > 1
      BY <1>1, <1>5
    <3> HIDE DEF n
    <3>2. n # 1
      BY <3>1
    <3> QED BY <3>2 DEF n
  <2> QED BY <1>5, <2>1 DEF AfterSubmission
<1> QED BY <1>2, <1>3, <1>4, <1>5

\* Whichever it is, the pool stays sound.
LEMMA AfterSubmissionSound ==
  ASSUME Trying, tip \in Blocks, Sound(pool, DOMAIN CoinsTip)
  PROVE  /\ Sound(AfterSubmission, DOMAIN CoinsTip)
         /\ DOMAIN AfterSubmission \subseteq DOMAIN pool \cup Submitted
         /\ Submitted \subseteq ToSet(pkg.txns)
<1> DEFINE e == pkg.eval
           t == e[1]
<1>1. /\ e \in Seq(Txs) /\ Len(e) \in Nat /\ DOMAIN e = 1 .. Len(e)
      /\ ToSet(e) \subseteq ToSet(pkg.txns) /\ pkg.view \subseteq DOMAIN CoinsTip
  <2>1. e \in Seq(Txs) /\ ToSet(e) \subseteq ToSet(pkg.txns) /\ pkg.view \subseteq DOMAIN CoinsTip
    BY DEF Trying, PackageLocals
  <2> HIDE DEF e
  <2> QED BY <2>1
<1>2. CASE Submitted = {} /\ AfterSubmission = With(pool, {})
  <2> DEFINE none == {}
  <2>1. /\ none \in SUBSET (Txs \ Coinbases) /\ OnceSpent(DOMAIN pool \cup none)
        /\ Sourced(none, DOMAIN CoinsTip \cup Outs(DOMAIN pool))
    BY DEF Sound, Sourced
  <2>2. Sound(With(pool, none), DOMAIN CoinsTip) /\ DOMAIN With(pool, none) = DOMAIN pool \cup none
    <3> HIDE DEF none
    <3> QED BY <2>1, WithSound
  <2> QED BY <1>2, <2>2
<1>3. CASE /\ Submitted = {t} /\ t \in Txs /\ t \in ToSet(e)
           /\ AcceptSingleTransaction(t, SingleAccept, pkg.view) = "valid"
           /\ AfterSubmission = Finalize(t)
  <2> HIDE DEF t
  <2>1. PreChecks(t, SingleAccept, pkg.view) = "valid" /\ DOMAIN CoinsTip \subseteq DOMAIN CoinsTip
    BY <1>3, SingleAccepted
  <2>2. Sound(Finalize(t), DOMAIN CoinsTip) /\ DOMAIN Finalize(t) \subseteq DOMAIN pool \cup {t}
    BY <1>1, <1>3, <2>1, FinalizeSound
  <2> QED BY <1>1, <1>3, <2>2
<1>4. CASE /\ PackageAccepted(e) /\ Submitted = ToSet(e) /\ AfterSubmission = With(pool, ToSet(e))
           /\ Len(e) > 1
  BY <1>1, <1>4, PackageSound
<1> QED BY <1>2, <1>3, <1>4, SubmissionIs

\* AcceptPackage trims the pool and reports.
LEMMA AcceptPackageStep ==
  ASSUME MempoolInv, AcceptPackage
  PROVE  MempoolInv'
<1> DEFINE new == Submitted \cup {t \in DOMAIN pkg.results : pkg.results[t] = "VALID"}
           all == ToSet(pkg.txns)
           results == [t \in all |->
                         IF t \in Submitted THEN FinalResult(t, "VALID")
                         ELSE IF t \in DOMAIN pkg.results THEN FinalResult(t, pkg.results[t])
                         ELSE "INVALID"]
<1>1. /\ pc = "package" /\ pkg.next > Len(pkg.txns) /\ Trying /\ tip \in Blocks /\ minFee \in Nat
      /\ LimitMempoolSize(AfterSubmission, new)
      /\ pkg' = [pkg EXCEPT !.results = results] /\ pc' = "reported"
      /\ UNCHANGED <<tip, pindexOldTip, disconnectpool, vHashUpdate>>
      /\ disconnectpool = <<>> /\ Spendable = DOMAIN CoinsTip
  BY AtRest DEF AcceptPackage, Goto, MempoolInv, Typed, reorgVars
<1>2. Sound(pool, DOMAIN CoinsTip)
  BY <1>1 DEF MempoolInv
<1>3. /\ Sound(AfterSubmission, DOMAIN CoinsTip)
      /\ DOMAIN AfterSubmission \subseteq DOMAIN pool \cup Submitted /\ Submitted \subseteq all
  BY <1>1, <1>2, AfterSubmissionSound
<1>4. Sound(pool', DOMAIN CoinsTip) /\ minFee' \in Nat /\ DOMAIN pool' \subseteq DOMAIN pool \cup Submitted
  <2>1. /\ Sound(pool', DOMAIN CoinsTip) /\ minFee' \in Nat
        /\ DOMAIN pool' \subseteq DOMAIN AfterSubmission
    <3> HIDE DEF new
    <3> QED BY <1>1, <1>3, LimitSound
  <2> QED BY <1>3, <2>1
<1>5. /\ pkg \in PackageLocals /\ pkg.txns \in Packages /\ all \subseteq Txs
      /\ \A t \in DOMAIN pkg.results : pkg.results[t] \in {"MEMPOOL_ENTRY", "VALID"}
      /\ \A t \in all : t \in DOMAIN pkg.results \/ t \notin DOMAIN pool
  <2>1. pkg \in PackageLocals /\ pkg.txns \in Packages /\ pkg.next \in 1 .. Len(pkg.txns) + 1
    BY <1>1 DEF Trying, PackageLocals
  <2>2. Len(pkg.txns) \in Nat /\ DOMAIN pkg.txns = 1 .. Len(pkg.txns) /\ all \subseteq Txs
    BY <2>1, PackagesAre
  <2>3. pkg.next - 1 = Len(pkg.txns)
    BY <1>1, <2>1, <2>2
  <2>4. \A t \in all : t \in DOMAIN pkg.results \/ t \notin DOMAIN pool
    BY <1>1, <2>2, <2>3 DEF Trying, ToSet
  <2>5. PICK S \in SUBSET Txs : pkg.results \in [S -> {"MEMPOOL_ENTRY", "VALID", "INVALID"}]
    BY <2>1 DEF PackageLocals
  <2>6. \A t \in DOMAIN pkg.results : pkg.results[t] \in {"MEMPOOL_ENTRY", "VALID"}
    BY <1>1, <2>5 DEF Trying
  <2> QED BY <2>1, <2>2, <2>4, <2>6
<1>6. \A t \in all : results[t] \in {"MEMPOOL_ENTRY", "VALID", "INVALID"}
                     /\ (results[t] # "INVALID" <=> t \in DOMAIN pool')
  <2> TAKE t \in all
  <2>1. CASE t \in Submitted
    BY <2>1 DEF FinalResult
  <2>2. CASE t \notin Submitted /\ t \in DOMAIN pkg.results
    BY <1>5, <2>2 DEF FinalResult
  <2>3. CASE t \notin Submitted /\ t \notin DOMAIN pkg.results
    BY <1>4, <1>5, <2>3
  <2> QED BY <2>1, <2>2, <2>3
<1>7. results \in [all -> {"MEMPOOL_ENTRY", "VALID", "INVALID"}]
  BY <1>6
<1> HIDE DEF results, new
<1>8. pkg'.txns = pkg.txns /\ pkg'.results = results /\ pkg' \in PackageLocals
  <2>1. results \in UNION {[S -> {"MEMPOOL_ENTRY", "VALID", "INVALID"}] : S \in SUBSET Txs}
    BY <1>5, <1>7
  <2> QED BY <1>1, <1>5, <2>1 DEF PackageLocals
<1>9. ResultsTruthful'
  BY <1>6, <1>8 DEF ResultsTruthful
<1>10. Typed'
  BY <1>1, <1>4, <1>8, NoPackageAssumption DEF MempoolInv, Typed
<1>11. Sound(pool, Spendable)'
  BY <1>1, <1>4, OutsOfNothing DEF Spendable, CoinsTip
<1> QED BY <1>1, <1>9, <1>10, <1>11 DEF MempoolInv

\* The report is returned.
LEMMA PackageReturnStep ==
  ASSUME MempoolInv, PackageReturn
  PROVE  MempoolInv'
<1>1. /\ pc = "reported" /\ pc' = "rest" /\ pkg' = NoPackage
      /\ UNCHANGED <<tip, pool, minFee, pindexOldTip, disconnectpool, vHashUpdate>>
  BY DEF PackageReturn, Goto, reorgVars
<1> QED BY <1>1 DEF MempoolInv, Typed, Spendable, CoinsTip, ResultsTruthful

-----------------------------------------------------------------------------
(* Every step of the mempool and of the block assembler. *)

\* Every step of the mempool keeps the invariant.
LEMMA MempoolStep ==
  ASSUME MempoolInv, Next
  PROVE  MempoolInv'
<1>1. CASE Continue
  BY <1>1, PackageTxStep, AcceptPackageStep, PackageReturnStep, ReAddTxStep, FinishUpdateStep
     DEF Continue
<1>2. CASE \E t \in Txs : AcceptToMemoryPool(t)
  BY <1>2, AcceptToMemoryPoolStep
<1>3. CASE \E p \in Packages : ProcessNewPackage(p)
  BY <1>3, ProcessNewPackageStep
<1>4. CASE MinFeeDecays
  BY <1>4, MinFeeDecaysStep
<1>5. CASE DisconnectTip
  BY <1>5, DisconnectTipStep
<1>6. CASE \E b \in Blocks : ConnectTip(b)
  BY <1>6, ConnectTipStep
<1>7. CASE \E fAdd \in BOOLEAN : MaybeUpdateMempoolForReorg(fAdd)
  BY <1>7, MaybeUpdateStep
<1> QED BY <1>1, <1>2, <1>3, <1>4, <1>5, <1>6, <1>7 DEF Next

\* The assembler looks at the pool at rest and changes nothing of it.
LEMMA AssemblerLabels ==
  ASSUME CreateNewBlock \/ addPackageTxs
  PROVE  pc \in {"rest", "assemble", "template"} /\ pc' \in {"rest", "assemble", "template"}
<1> DEFINE own == {"rest", "assemble", "template"}
<1>1. ASSUME NEW t, NEW e, NEW usingModified, Evaluate(t, e, usingModified), pc = "assemble"
      PROVE  pc' \in own
  BY <1>1 DEF Evaluate, AddPackage, EraseFailed, Goto
<1>2. CASE EvaluateModified \/ EvaluateMapTx
  BY <1>1, <1>2 DEF EvaluateModified, EvaluateMapTx
<1>3. CASE CreateNewBlock \/ NothingLeft \/ ReturnTemplate
  BY <1>3 DEF CreateNewBlock, NothingLeft, ReturnTemplate, Goto
<1>4. pc \in own
  BY DEF addPackageTxs, CreateNewBlock, EvaluateModified, EvaluateMapTx, NothingLeft, ReturnTemplate
<1> QED BY <1>2, <1>3, <1>4 DEF addPackageTxs

\* The assembler goes to and fro between labels of its own.
LEMMA AssemblerStep ==
  ASSUME MempoolInv, CreateNewBlock \/ addPackageTxs,
         UNCHANGED <<tip, pool, minFee, reorgVars, pkg>>
  PROVE  MempoolInv'
<1> DEFINE own == {"rest", "assemble", "template"}
<1>1. pc \in own /\ pc' \in own
  BY AssemblerLabels
<1>2. UNCHANGED <<tip, pool, minFee, pindexOldTip, disconnectpool, vHashUpdate, pkg>>
  BY DEF reorgVars
<1>3. Typed'
  BY <1>1, <1>2 DEF MempoolInv, Typed
<1>4. Sound(pool, Spendable)'
  BY <1>2 DEF MempoolInv, Spendable, CoinsTip
<1> QED BY <1>1, <1>3, <1>4 DEF MempoolInv, ResultsTruthful

\* A stuttering step keeps it.
LEMMA InvStays ==
  ASSUME MempoolInv, UNCHANGED <<vars, asmVars>>
  PROVE  MempoolInv'
BY DEF MempoolInv, Typed, Spendable, CoinsTip, Trying, ResultsTruthful, vars, reorgVars

\* It holds of an empty pool on the genesis block.
LEMMA InvInit ==
  ASSUME AssemblerInit
  PROVE  MempoolInv
<1> DEFINE none == [t \in {} |-> 0]
<1>1. /\ tip = Genesis /\ pool = none /\ minFee = 0 /\ pc = "rest" /\ pkg = NoPackage
      /\ pindexOldTip = NoBlock /\ disconnectpool = <<>> /\ vHashUpdate = {}
  BY DEF AssemblerInit, Init
<1>2. Typed
  BY <1>1, TreeAssumption, PolicyAssumption DEF Typed
<1>3. Sound(none, Spendable)
  BY DEF Sound, OnceSpent, Sourced
<1> HIDE DEF none
<1> QED BY <1>1, <1>2, <1>3 DEF MempoolInv, ResultsTruthful

\* It is an invariant of the mempool and the assembler together.
LEMMA InvHolds == AssemblerSpec => []MempoolInv
<1>1. AssemblerInit => MempoolInv
  BY InvInit
<1>2. MempoolInv /\ [AssemblerNext]_<<vars, asmVars>> => MempoolInv'
  <2> SUFFICES ASSUME MempoolInv, [AssemblerNext]_<<vars, asmVars>>
               PROVE  MempoolInv'
    OBVIOUS
  <2>1. CASE AssemblerNext
    BY <2>1, MempoolStep, AssemblerStep DEF AssemblerNext
  <2>2. CASE UNCHANGED <<vars, asmVars>>
    BY <2>2, InvStays
  <2> QED BY <2>1, <2>2
<1> QED BY <1>1, <1>2, PTL DEF AssemblerSpec

\* After every call no coin is spent twice by the mempool, and what an entry spends is a
\* coin of the chain or made by another entry: through acceptance, replacement, eviction,
\* packages, and blocks connected and disconnected in any order.
THEOREM PoolFitsChain == AssemblerSpec => []PoolConsistent
<1>1. MempoolInv => PoolConsistent
  BY InvConsistent
<1> QED BY <1>1, InvHolds, PTL

\* A transaction of a package is reported as accepted if and only if it is in the mempool.
THEOREM ReportsAreTrue == AssemblerSpec => []ResultsTruthful
<1>1. MempoolInv => ResultsTruthful
  BY DEF MempoolInv
<1> QED BY <1>1, InvHolds, PTL

-----------------------------------------------------------------------------
(* Locks.  What a lock has to wait for is said of a block, so that it can be *)
(* compared between chains.                                                *)

\* The chain of b creates o at height h.
MadeAt(o, h, b) == \E a \in Path[b] : Height[a] = h /\ o \in Outs(ToSet(BlockTxs[a]))

\* On the chain of b the locks of t have run out and its coinbases are mature.
ReadyAt(t, b) ==
  /\ LockTime[t] = 0 \/ LockTime[t] < Height[b] + 1
  /\ \A o \in Spends[t] \cap DOMAIN CoinsAt[b] :
       (\E c \in Coinbases : o \in Creates[c]) => Height[b] + 1 - CoinsAt[b][o] >= CoinbaseMaturity
  /\ RelLock[t] # 0 =>
       \A o \in Spends[t] : o \in DOMAIN CoinsAt[b] /\ CoinsAt[b][o] + RelLock[t] - 1 <= Height[b]

\* The same in the terms of the code.
LocksRunOut(t) ==
  CheckFinalTxAtTip(t) /\ Mature(t) /\ CheckSequenceLocksAtTip(CalculateLockPointsAtTip(t))

\* An entry says of its lock points what holds on every chain through their block.
Honest(t, e) ==
  /\ e.spendsCoinbase = SpendsCoinbase(t)
  /\ RelLock[t] # 0 =>
       \A o \in Spends[t] : \E h \in Nat :
         MadeAt(o, h, e.lp.maxInputBlock) /\ h + RelLock[t] - 1 <= e.lp.height

\* A coin was made at its height.
LEMMA CoinMadeAt ==
  ASSUME NEW b \in Blocks, NEW o \in DOMAIN CoinsAt[b]
  PROVE  MadeAt(o, CoinsAt[b][o], b) /\ CoinsAt[b][o] \in 0 .. Height[b]
<1>1. DOMAIN CoinsAt[b] = Outs(ConfirmedAt[b]) \ Ins(ConfirmedAt[b])
  BY DEF CoinsAt, Outs, Ins
<1> DEFINE At(h) == \E a \in Path[b] :
             Height[a] = h /\ \E i \in DOMAIN BlockTxs[a] : o \in Creates[BlockTxs[a][i]]
<1>2. CoinsAt[b][o] = CHOOSE h \in 0 .. Height[b] : At(h)
  BY <1>1 DEF CoinsAt, Outs, Ins
<1>3. \A h : At(h) <=> MadeAt(o, h, b)
  BY DEF MadeAt, Outs, ToSet
<1>4. PICK t \in ConfirmedAt[b] : o \in Creates[t]
  BY <1>1 DEF Outs
<1>5. PICK a \in Path[b] : t \in ToSet(BlockTxs[a])
  BY ConfirmedIs
<1>6. At(Height[a])
  BY <1>4, <1>5 DEF ToSet
<1>7. Height[a] \in 0 .. Height[b]
  <2>1. a \in Blocks /\ Height[a] \in Nat /\ Height[b] \in Nat
    BY ChainFacts, TreeAssumption
  <2>2. a = b \/ Height[a] < Height[b]
    BY OrderOnChain
  <2> QED BY <2>1, <2>2
<1> HIDE DEF At
<1> QED BY <1>2, <1>3, <1>6, <1>7

\* What a block creates, no block below it on its chain creates.
LEMMA MadeOnce ==
  ASSUME NEW b \in Blocks, NEW o, NEW g, NEW h, MadeAt(o, g, b), MadeAt(o, h, b)
  PROVE  g = h
<1>1. PICK x \in Path[b] : Height[x] = g /\ o \in Outs(ToSet(BlockTxs[x]))
  BY DEF MadeAt
<1>2. PICK y \in Path[b] : Height[y] = h /\ o \in Outs(ToSet(BlockTxs[y]))
  BY DEF MadeAt
<1>3. PICK t : t \in ToSet(BlockTxs[x]) /\ o \in Creates[t]
  BY <1>1 DEF Outs
<1>4. PICK u : u \in ToSet(BlockTxs[y]) /\ o \in Creates[u]
  BY <1>2 DEF Outs
<1>5. x \in Blocks /\ y \in Blocks
  BY ChainFacts
<1>6. t = u
  <2>1. t \in Txs /\ u \in Txs
    BY <1>3, <1>4, <1>5, BlockTxsAre
  <2> QED BY <1>3, <1>4, <2>1, TxAssumption
<1>7. ASSUME NEW c \in Blocks, NEW a \in Path[c], a # c, t \in ToSet(BlockTxs[a]),
             t \in ToSet(BlockTxs[c])
      PROVE  FALSE
  <2>1. c # Genesis
    BY <1>7, TreeAssumption
  <2>2. Path[c] = Path[Parent[c]] \cup {c} /\ Parent[c] \in Blocks
    BY <1>7, <2>1, ParentFacts
  <2>3. t \in ConfirmedAt[Parent[c]]
    BY <1>7, <2>2, ConfirmedIs
  <2> QED BY <1>7, <2>1, <2>3, ChainAssumption DEF ToSet
<1>8. x = y
  <2>1. x \in Path[y] \/ y \in Path[x]
    BY OrderOnChain
  <2> QED BY <1>3, <1>4, <1>5, <1>6, <1>7, <2>1
<1> QED BY <1>1, <1>2, <1>8

\* On every chain through a block, what its chain made was made at the same height.
LEMMA MadeAbove ==
  ASSUME NEW b \in Blocks, NEW a \in Path[b], NEW o, NEW h, MadeAt(o, h, a)
  PROVE  MadeAt(o, h, b)
BY ChainFacts DEF MadeAt

\* What a chain made, a transaction of it created.
LEMMA MadeIsConfirmed ==
  ASSUME NEW b \in Blocks, NEW o, NEW h, MadeAt(o, h, b)
  PROVE  o \in Outs(ConfirmedAt[b])
BY ConfirmedIs DEF MadeAt, Outs

\* The coins of a chain were made by it and are spent by nothing of it.
LEMMA MadeAndUnspent ==
  ASSUME NEW b \in Blocks, NEW Q \in SUBSET Txs, Q \cap ConfirmedAt[b] = {},
         NEW o, o \in DOMAIN CoinsAt[b] \cup Outs(Q)
  PROVE  /\ o \notin Ins(ConfirmedAt[b])
         /\ o \in Outs(ConfirmedAt[b]) => o \in DOMAIN CoinsAt[b]
<1>1. DOMAIN CoinsAt[b] = Outs(ConfirmedAt[b]) \ Ins(ConfirmedAt[b])
  BY CoinsAre
<1>2. ASSUME o \in Outs(Q)
      PROVE  o \notin Outs(ConfirmedAt[b])
  BY <1>2, ConfirmedIs, TxAssumption DEF Outs
<1> QED BY <1>1, <1>2, ChainSpendsItsOwn

\* What can still be bought has not been confirmed.
LEMMA NotConfirmed ==
  ASSUME NEW b \in Blocks, NEW Q \in SUBSET Txs, Q \cap ConfirmedAt[b] = {},
         NEW t \in Txs \ Coinbases, Spends[t] \subseteq DOMAIN CoinsAt[b] \cup Outs(Q)
  PROVE  t \notin ConfirmedAt[b]
<1>1. PICK o : o \in Spends[t]
  BY TxAssumption
<1>2. o \notin Ins(ConfirmedAt[b])
  BY <1>1, MadeAndUnspent
<1> QED BY <1>1, <1>2 DEF Ins

\* The heights that CalculateLockPointsAtTip looks at.
PrevHeights(t) == {PrevHeight(o) : o \in Spends[t]}
LEMMA PrevHeightsAre ==
  ASSUME NEW t \in Txs \ Coinbases, tip \in Blocks
  PROVE  /\ Height[tip] \in Nat /\ RelLock[t] \in Nat
         /\ PrevHeights(t) \in SUBSET (0 .. SpendHeight) /\ Max(PrevHeights(t)) \in PrevHeights(t)
         /\ \A o \in Spends[t] : PrevHeight(o) \in Nat /\ PrevHeight(o) <= Max(PrevHeights(t))
         /\ \A o \in Spends[t] : IF o \in DOMAIN CoinsAt[tip]
                                 THEN PrevHeight(o) = CoinsAt[tip][o] /\ PrevHeight(o) <= Height[tip]
                                 ELSE PrevHeight(o) = Height[tip] + 1
<1>0. Height[tip] \in Nat /\ SpendHeight = Height[tip] + 1 /\ RelLock[t] \in Nat
  BY TreeAssumption, TxAssumption DEF SpendHeight
<1>1. \A o \in Spends[t] : IF o \in DOMAIN CoinsAt[tip]
                           THEN PrevHeight(o) = CoinsAt[tip][o] /\ PrevHeight(o) \in 0 .. Height[tip]
                           ELSE PrevHeight(o) = SpendHeight
  BY CoinsAre DEF PrevHeight, CoinsTip
<1> DEFINE prev == PrevHeights(t)
<1>2. prev \in SUBSET (0 .. SpendHeight) /\ IsFiniteSet(prev) /\ prev # {}
  <2>1. Spends[t] # {}
    BY TxAssumption
  <2>2. prev \in SUBSET (0 .. SpendHeight)
    BY <1>0, <1>1 DEF PrevHeights
  <2>3. IsFiniteSet(0 .. SpendHeight)
    BY <1>0, FS_Interval
  <2>4. IsFiniteSet(prev)
    BY <2>2, <2>3, FS_Subset
  <2> QED BY <2>1, <2>2, <2>4 DEF PrevHeights
<1>3. \A o \in Spends[t] : PrevHeight(o) \in prev
  BY DEF PrevHeights
<1> HIDE DEF prev
<1>4. prev \in SUBSET Nat
  BY <1>0, <1>2
<1>5. Max(prev) \in prev /\ \A x \in prev : x <= Max(prev)
  BY <1>2, <1>4, MaxOfFinite
<1> QED BY <1>0, <1>1, <1>2, <1>3, <1>4, <1>5 DEF prev

\* Maturity is counted from the tip.
LEMMA MatureIs ==
  ASSUME NEW t, tip \in Blocks
  PROVE  Mature(t) <=> \A o \in Spends[t] \cap DOMAIN CoinsAt[tip] :
           (\E c \in Coinbases : o \in Creates[c]) => Height[tip] + 1 - CoinsAt[tip][o] >= CoinbaseMaturity
<1>1. Mature(t) <=> \A o \in Spends[t] \cap DOMAIN CoinsAt[tip] :
        (\E c \in Coinbases : o \in Creates[c]) => SpendHeight - CoinsAt[tip][o] >= CoinbaseMaturity
  BY Zenon DEF Mature, CoinsTip
<1>2. SpendHeight = Height[tip] + 1 /\ Height[tip] \in Nat
  BY TreeAssumption DEF SpendHeight
<1> DEFINE coin(o) == CoinsAt[tip][o]
<1>3. \A o \in DOMAIN CoinsAt[tip] : coin(o) \in Nat
  BY CoinMadeAt
<1>4. \A o \in DOMAIN CoinsAt[tip] : SpendHeight - coin(o) = Height[tip] + 1 - coin(o)
  BY <1>2, <1>3
<1> QED BY <1>1, <1>4, Zenon

\* The locks counted as the code counts them have run out if and only if the transaction is ready.
LEMMA ReadyIs ==
  ASSUME NEW t \in Txs \ Coinbases, tip \in Blocks
  PROVE  LocksRunOut(t) <=> ReadyAt(t, tip)
<1> DEFINE top == Max(PrevHeights(t))
<1>1. /\ Height[tip] \in Nat /\ RelLock[t] \in Nat /\ SpendHeight = Height[tip] + 1
      /\ top \in PrevHeights(t) /\ top \in Nat
      /\ \A o \in Spends[t] : PrevHeight(o) \in Nat /\ PrevHeight(o) <= top
      /\ \A o \in Spends[t] : IF o \in DOMAIN CoinsAt[tip]
                              THEN PrevHeight(o) = CoinsAt[tip][o] /\ PrevHeight(o) <= Height[tip]
                              ELSE PrevHeight(o) = Height[tip] + 1
  BY PrevHeightsAre DEF SpendHeight
<1>2. CheckSequenceLocksAtTip(CalculateLockPointsAtTip(t))
        <=> (IF RelLock[t] = 0 THEN -1 ELSE top + RelLock[t] - 1) < SpendHeight
  BY DEF CheckSequenceLocksAtTip, CalculateLockPointsAtTip, PrevHeights
<1>3. PICK p \in Spends[t] : PrevHeight(p) = top
  BY <1>1 DEF PrevHeights
<1> HIDE DEF top
<1>4. ASSUME RelLock[t] # 0
      PROVE  top + RelLock[t] - 1 < SpendHeight <=>
               \A o \in Spends[t] : o \in DOMAIN CoinsAt[tip]
                                    /\ CoinsAt[tip][o] + RelLock[t] - 1 <= Height[tip]
  <2>1. ASSUME top + RelLock[t] - 1 < SpendHeight, NEW o \in Spends[t]
        PROVE  o \in DOMAIN CoinsAt[tip] /\ CoinsAt[tip][o] + RelLock[t] - 1 <= Height[tip]
    <3>1. PrevHeight(o) \in Nat /\ PrevHeight(o) + RelLock[t] - 1 <= Height[tip]
      BY <1>1, <2>1
    <3>2. PrevHeight(o) # Height[tip] + 1
      BY <1>1, <1>4, <3>1
    <3>3. o \in DOMAIN CoinsAt[tip] /\ PrevHeight(o) = CoinsAt[tip][o]
      BY <1>1, <3>2
    <3> QED BY <3>1, <3>3
  <2>2. ASSUME \A o \in Spends[t] : o \in DOMAIN CoinsAt[tip]
                                    /\ CoinsAt[tip][o] + RelLock[t] - 1 <= Height[tip]
        PROVE  top + RelLock[t] - 1 < SpendHeight
    <3>1. p \in DOMAIN CoinsAt[tip] /\ CoinsAt[tip][p] + RelLock[t] - 1 <= Height[tip]
      BY <2>2
    <3>2. CoinsAt[tip][p] = top
      BY <1>1, <1>3, <3>1
    <3> QED BY <1>1, <3>1, <3>2
  <2> QED BY <2>1, <2>2
<1>5. CheckFinalTxAtTip(t) <=> (LockTime[t] = 0 \/ LockTime[t] < Height[tip] + 1)
  BY DEF CheckFinalTxAtTip, SpendHeight
<1> DEFINE sequence == \A o \in Spends[t] : o \in DOMAIN CoinsAt[tip]
                                    /\ CoinsAt[tip][o] + RelLock[t] - 1 <= Height[tip]
<1>6. CheckSequenceLocksAtTip(CalculateLockPointsAtTip(t)) <=> (RelLock[t] # 0 => sequence)
  <2>1. CASE RelLock[t] = 0
    BY <1>1, <1>2, <2>1
  <2>2. CASE RelLock[t] # 0
    <3> HIDE DEF sequence
    <3>1. CheckSequenceLocksAtTip(CalculateLockPointsAtTip(t)) <=> top + RelLock[t] - 1 < SpendHeight
      BY <1>2, <2>2
    <3>2. top + RelLock[t] - 1 < SpendHeight <=> sequence
      BY <1>4, <2>2 DEF sequence
    <3> QED BY <2>2, <3>1, <3>2
  <2> QED BY <2>1, <2>2
<1> QED BY <1>5, <1>6, MatureIs DEF ReadyAt, LocksRunOut

\* The lock points of a transaction whose locks have run out say what holds of their block.
LEMMA LockPointsHonest ==
  ASSUME NEW t \in Txs \ Coinbases, tip \in Blocks, ReadyAt(t, tip), NEW e,
         e.spendsCoinbase = SpendsCoinbase(t), e.lp = CalculateLockPointsAtTip(t)
  PROVE  Honest(t, e)
<1> DEFINE prev == PrevHeights(t)
           top == Max(prev)
           known == {0} \cup (prev \ {SpendHeight})
           last == CHOOSE b \in Path[tip] : Height[b] = Max(known)
<1>1. /\ Height[tip] \in Nat /\ RelLock[t] \in Nat /\ SpendHeight = Height[tip] + 1
      /\ prev \in SUBSET (0 .. SpendHeight)
      /\ \A o \in Spends[t] : PrevHeight(o) \in Nat /\ PrevHeight(o) <= top
      /\ \A o \in Spends[t] : IF o \in DOMAIN CoinsAt[tip]
                              THEN PrevHeight(o) = CoinsAt[tip][o] /\ PrevHeight(o) <= Height[tip]
                              ELSE PrevHeight(o) = Height[tip] + 1
      /\ top \in prev
  BY PrevHeightsAre DEF SpendHeight
<1>2. e.lp = [height |-> IF RelLock[t] = 0 THEN -1 ELSE top + RelLock[t] - 1, maxInputBlock |-> last]
  BY DEF CalculateLockPointsAtTip, PrevHeights
<1>3. \A o \in Spends[t] : PrevHeight(o) \in prev
  BY DEF PrevHeights
<1> HIDE DEF top, prev
<1>4. known \in SUBSET (0 .. Height[tip]) /\ IsFiniteSet(known) /\ known # {}
  <2>1. ASSUME NEW x \in prev, x # SpendHeight
        PROVE  x \in 0 .. Height[tip]
    <3>1. x \in 0 .. SpendHeight
      BY <1>1
    <3> QED BY <1>1, <2>1, <3>1
  <2>2. known \in SUBSET (0 .. Height[tip]) /\ known # {}
    <3>1. \A x \in known : x \in 0 .. Height[tip]
      <4> TAKE x \in known
      <4>1. CASE x = 0
        BY <1>1, <4>1
      <4>2. CASE x \in prev \ {SpendHeight}
        BY <2>1, <4>2
      <4> QED BY <4>1, <4>2
    <3>2. 0 \in known
      OBVIOUS
    <3> HIDE DEF known
    <3> QED BY <3>1, <3>2
  <2>3. IsFiniteSet(0 .. Height[tip])
    BY <1>1, FS_Interval
  <2> HIDE DEF known
  <2> QED BY <2>2, <2>3, FS_Subset
<1> HIDE DEF known
<1>5. Max(known) \in known /\ \A x \in known : x <= Max(known)
  <2>1. known \in SUBSET Nat
    BY <1>4
  <2> QED BY <1>4, <2>1, MaxOfFinite
<1>6. last \in Path[tip] /\ Height[last] = Max(known)
  <2>1. \E b \in Path[tip] : Height[b] = Max(known)
    BY <1>4, <1>5, HeightsOnChain
  <2> QED BY <2>1
<1> HIDE DEF last
<1>7. ASSUME RelLock[t] # 0, NEW o \in Spends[t]
      PROVE  \E h \in Nat : MadeAt(o, h, last) /\ h + RelLock[t] - 1 <= top + RelLock[t] - 1
  <2>1. o \in DOMAIN CoinsAt[tip]
    BY <1>7 DEF ReadyAt
  <2> DEFINE h == CoinsAt[tip][o]
  <2>2. h = PrevHeight(o) /\ h \in Nat /\ h <= Height[tip] /\ h <= top
    BY <1>1, <2>1
  <2>3. h \in known
    BY <1>1, <1>3, <2>2 DEF known
  <2>4. MadeAt(o, h, tip)
    BY <2>1, CoinMadeAt
  <2> HIDE DEF h
  <2>5. PICK a \in Path[tip] : Height[a] = h /\ o \in Outs(ToSet(BlockTxs[a]))
    BY <2>4 DEF MadeAt
  <2>6. a \in Path[last]
    <3>1. a \in Blocks /\ last \in Blocks /\ Height[a] \in Nat /\ Height[last] \in Nat
      BY <1>6, ChainFacts, TreeAssumption
    <3>2. Height[a] <= Height[last]
      BY <1>5, <1>6, <2>3, <2>5
    <3>3. a \in Path[last] \/ last \in Path[a]
      BY <1>6, OrderOnChain
    <3>4. last \in Path[a] => last = a \/ Height[last] < Height[a]
      BY <3>1, OrderOnChain
    <3>5. a \in Path[a]
      BY <3>1, ChainFacts
    <3> QED BY <3>1, <3>2, <3>3, <3>4, <3>5
  <2>7. MadeAt(o, h, last)
    BY <2>5, <2>6 DEF MadeAt
  <2>8. top \in Nat
    BY <1>1
  <2> QED BY <1>1, <2>2, <2>7, <2>8
<1>8. e.lp.maxInputBlock = last /\ (RelLock[t] # 0 => e.lp.height = top + RelLock[t] - 1)
  BY <1>2
<1> QED BY <1>7, <1>8 DEF Honest

-----------------------------------------------------------------------------
(* What the steps leave in the pool and what they add to it. *)

Kept(new, old) == DOMAIN new \subseteq DOMAIN old /\ \A t \in DOMAIN new : new[t] = old[t]

\* A transaction that may come into the pool on top of b, with its entry.
Worthy(t, e, b) == t \notin ConfirmedAt[b] /\ Honest(t, e) /\ ReadyAt(t, b)

\* Nothing but such transactions has come in.
Grown(new, old) ==
  \A t \in DOMAIN new : (t \in DOMAIN old /\ new[t] = old[t]) \/ Worthy(t, new[t], tip)

Reorganising == pc \in {"reorg", "update"}

\* No entry is confirmed; its lock points can be trusted where they are valid; and but for a
\* reorganisation, it could be mined in the next block.
LocksInv ==
  /\ DOMAIN pool \cap ConfirmedAt[tip] = {}
  /\ \A t \in DOMAIN pool : Honest(t, pool[t])
  /\ ~Reorganising => \A t \in DOMAIN pool : ReadyAt(t, tip)

\* RemoveRecursive changes no entry.
LEMMA RemovalKept == ASSUME NEW entries, NEW S PROVE Kept(RemoveRecursive(entries, S), entries)
BY DEF RemoveRecursive, Without, Restrict, Kept

\* Nor does LimitMempoolSize.
LEMMA LimitKept ==
  ASSUME NEW entries, DOMAIN entries \subseteq Txs, minFee \in Nat, NEW fresh,
         LimitMempoolSize(entries, fresh)
  PROVE  \E gone \in SUBSET DOMAIN entries :
           /\ pool' = Restrict(entries, TrimToSize(DOMAIN entries \ gone).kept)
           /\ Kept(pool', entries) /\ DOMAIN pool' = TrimToSize(DOMAIN entries \ gone).kept
<1>1. PICK old : pool' = Restrict(entries, TrimToSize(DOMAIN entries \ old).kept)
  BY DEF LimitMempoolSize
<1> DEFINE gone == old \cap DOMAIN entries
           P == DOMAIN entries \ gone
<1>2. DOMAIN entries \ old = P /\ P \in SUBSET Txs
  OBVIOUS
<1>3. TrimToSize(P) \in Trimmed(P)
  BY <1>2, TrimmedToSize
<1>4. TrimToSize(P).kept \subseteq P
  BY <1>3 DEF Trimmed
<1> QED BY <1>1, <1>2, <1>4 DEF Restrict, Kept

\* What passes PreChecks has no lock to wait for.
LEMMA PassedIsReady ==
  ASSUME NEW t \in Txs, tip \in Blocks, NEW args, NEW extra, PreChecks(t, args, extra) = "valid"
  PROVE  t \notin Coinbases /\ ReadyAt(t, tip) /\ Honest(t, NewEntry(t))
<1>1. t \notin Coinbases
  BY PreChecksPassed
<1>2. LocksRunOut(t)
  BY DEF PreChecks, LocksRunOut
<1>3. ReadyAt(t, tip)
  BY <1>1, <1>2, ReadyIs
<1> DEFINE e == NewEntry(t)
<1>4. e.spendsCoinbase = SpendsCoinbase(t) /\ e.lp = CalculateLockPointsAtTip(t)
  BY DEF NewEntry
<1> HIDE DEF e
<1>5. Honest(t, e)
  BY <1>1, <1>3, <1>4, LockPointsHonest
<1> QED BY <1>1, <1>3, <1>5 DEF e

\* A transaction that is submitted by itself is worthy of the pool.
LEMMA FinalizeGrows ==
  ASSUME tip \in Blocks, DOMAIN pool \subseteq Txs, DOMAIN pool \cap ConfirmedAt[tip] = {},
         NEW t \in Txs, NEW args, NEW extra, extra \subseteq DOMAIN CoinsTip,
         PreChecks(t, args, extra) = "valid"
  PROVE  Grown(Finalize(t), pool)
<1>1. t \notin Coinbases /\ ReadyAt(t, tip) /\ Honest(t, NewEntry(t))
  BY PassedIsReady
<1>2. Spends[t] \subseteq DOMAIN CoinsAt[tip] \cup Outs(DOMAIN pool)
  BY PreChecksPassed DEF CoinsTip
<1>3. t \notin ConfirmedAt[tip]
  BY <1>1, <1>2, NotConfirmed
<1>4. /\ DOMAIN Finalize(t) \subseteq DOMAIN pool \cup {t} /\ Finalize(t)[t] = NewEntry(t)
      /\ \A x \in DOMAIN Finalize(t) \ {t} : Finalize(t)[x] = pool[x]
  BY DEF Finalize, With, Without, Restrict
<1> QED BY <1>1, <1>3, <1>4 DEF Grown, Worthy

\* So are transactions that pass the checks as a package.
LEMMA PackageGrows ==
  ASSUME Trying, tip \in Blocks, DOMAIN pool \subseteq Txs, DOMAIN pool \cap ConfirmedAt[tip] = {},
         PackageAccepted(pkg.eval)
  PROVE  Grown(With(pool, ToSet(pkg.eval)), pool)
<1> DEFINE e == pkg.eval
<1>1. /\ e \in Seq(Txs) /\ Len(e) \in Nat /\ DOMAIN e = 1 .. Len(e) /\ \A i \in DOMAIN e : e[i] \in Txs
      /\ pkg.view \subseteq DOMAIN CoinsAt[tip]
  <2>1. e \in Seq(Txs) /\ pkg.view \subseteq DOMAIN CoinsAt[tip]
    BY DEF Trying, PackageLocals, CoinsTip
  <2> HIDE DEF e
  <2> QED BY <2>1
<1>2. ASSUME NEW i \in 1 .. Len(e)
      PROVE  /\ e[i] \notin Coinbases /\ ReadyAt(e[i], tip) /\ Honest(e[i], NewEntry(e[i]))
             /\ Spends[e[i]] \subseteq DOMAIN CoinsAt[tip] \cup Outs(DOMAIN pool)
                                         \cup UNION {Creates[e[j]] : j \in 1 .. i - 1}
  <2> DEFINE extra == pkg.view \cup UNION {Creates[e[j]] : j \in 1 .. i - 1}
  <2>1. PreChecks(e[i], PackageChildWithParents, extra) = "valid" /\ e[i] \in Txs
    BY <1>1 DEF PackageAccepted
  <2> HIDE DEF extra, e
  <2>2. Spends[e[i]] \subseteq extra \cup DOMAIN CoinsTip \cup Outs(DOMAIN pool)
    BY <2>1, PreChecksPassed
  <2>3. e[i] \notin Coinbases /\ ReadyAt(e[i], tip) /\ Honest(e[i], NewEntry(e[i]))
    BY <2>1, PassedIsReady
  <2> QED BY <1>1, <2>2, <2>3 DEF extra, CoinsTip
<1> HIDE DEF e
<1> DEFINE Good == {n \in Nat : \A i \in 1 .. Len(e) : i <= n => e[i] \notin ConfirmedAt[tip]}
<1>3. 0 \in Good
  BY <1>1
<1>4. ASSUME NEW n \in Nat, n \in Good
      PROVE  n + 1 \in Good
  <2>1. CASE n + 1 \in 1 .. Len(e)
    <3> DEFINE i == n + 1
               Q == DOMAIN pool \cup {e[j] : j \in 1 .. i - 1}
    <3>1. \A j \in 1 .. i - 1 : j \in 1 .. Len(e) /\ j <= n
      BY <1>1, <1>4, <2>1
    <3>2. Q \in SUBSET Txs /\ Q \cap ConfirmedAt[tip] = {}
      BY <1>1, <1>4, <3>1
    <3>3. Spends[e[i]] \subseteq DOMAIN CoinsAt[tip] \cup Outs(Q)
      BY <1>2, <2>1 DEF Outs
    <3>4. e[i] \in Txs \ Coinbases
      BY <1>1, <1>2, <2>1
    <3> HIDE DEF Q, i
    <3>5. e[i] \notin ConfirmedAt[tip]
      BY <3>2, <3>3, <3>4, NotConfirmed
    <3>6. \A x \in 1 .. Len(e) : x <= n + 1 => x <= n \/ x = i
      BY <1>1 DEF i
    <3> QED BY <1>4, <3>5, <3>6
  <2>2. CASE n + 1 \notin 1 .. Len(e)
    <3>1. \A i \in 1 .. Len(e) : i <= n + 1 => i <= n
      BY <1>1, <2>2
    <3> QED BY <1>4, <3>1
  <2> QED BY <2>1, <2>2
<1>5. Nat \subseteq Good
  <2> HIDE DEF Good
  <2> QED BY <1>3, <1>4, UpByOne
<1>6. \A i \in 1 .. Len(e) : e[i] \notin ConfirmedAt[tip]
  <2>1. Len(e) \in Good
    BY <1>1, <1>5
  <2> QED BY <1>1, <2>1
<1>7. \A t \in ToSet(e) : Worthy(t, NewEntry(t), tip)
  BY <1>1, <1>2, <1>6 DEF Worthy, ToSet
<1>8. \A t \in DOMAIN With(pool, ToSet(e)) :
        IF t \in ToSet(e) THEN With(pool, ToSet(e))[t] = NewEntry(t)
        ELSE t \in DOMAIN pool /\ With(pool, ToSet(e))[t] = pool[t]
  BY DEF With
<1> QED BY <1>7, <1>8 DEF Grown, e

\* Whichever it is.
LEMMA SubmissionGrows ==
  ASSUME Trying, tip \in Blocks, DOMAIN pool \subseteq Txs, DOMAIN pool \cap ConfirmedAt[tip] = {}
  PROVE  Grown(AfterSubmission, pool)
<1>1. CASE AfterSubmission = With(pool, {})
  BY <1>1 DEF With, Grown
<1>2. CASE /\ pkg.eval[1] \in Txs /\ AfterSubmission = Finalize(pkg.eval[1])
           /\ AcceptSingleTransaction(pkg.eval[1], SingleAccept, pkg.view) = "valid"
  <2> DEFINE t == pkg.eval[1]
  <2> HIDE DEF t
  <2>1. PreChecks(t, SingleAccept, pkg.view) = "valid" /\ pkg.view \subseteq DOMAIN CoinsTip
    BY <1>2, SingleAccepted DEF t, Trying
  <2>2. t \in Txs
    BY <1>2 DEF t
  <2>3. Grown(Finalize(t), pool)
    BY <2>1, <2>2, FinalizeGrows
  <2> QED BY <1>2, <2>3 DEF t
<1>3. CASE PackageAccepted(pkg.eval) /\ AfterSubmission = With(pool, ToSet(pkg.eval))
  BY <1>3, PackageGrows
<1> QED BY <1>1, <1>2, <1>3, SubmissionIs

\* What remains of grown entries has grown.
LEMMA GrownAndKept ==
  ASSUME NEW old, NEW between, NEW new, Grown(between, old), Kept(new, between)
  PROVE  Grown(new, old)
BY DEF Grown, Kept

-----------------------------------------------------------------------------
(* Every step keeps the entries honest and, at rest, ready. *)

\* While the tip stays and the pool grows by what is worthy of it.
LEMMA LocksKept ==
  ASSUME LocksInv, tip' = tip, Grown(pool', pool), ~Reorganising' => ~Reorganising
  PROVE  LocksInv'
<1>1. \A t \in DOMAIN pool' :
        t \notin ConfirmedAt[tip] /\ Honest(t, pool'[t]) /\ (~Reorganising' => ReadyAt(t, tip))
  BY DEF LocksInv, Grown, Worthy
<1> QED BY <1>1 DEF LocksInv

\* The entries of a sound pool are transactions, no coinbases.
LEMMA PoolIs ==
  ASSUME MempoolInv
  PROVE  /\ DOMAIN pool \subseteq Txs \ Coinbases /\ DOMAIN pool \subseteq Txs
         /\ tip \in Blocks /\ minFee \in Nat
         /\ ~Reorganising => Sourced(DOMAIN pool, DOMAIN CoinsTip)
<1>1. ~Reorganising => Spendable = DOMAIN CoinsTip
  BY AtRest DEF Reorganising, MempoolInv, Typed
<1> QED BY <1>1 DEF MempoolInv, Typed, Sound

\* Transactions and packages.
LEMMA AcceptanceKeepsLocks ==
  ASSUME MempoolInv, LocksInv,
         \/ \E t \in Txs : AcceptToMemoryPool(t)
         \/ \E p \in Packages : ProcessNewPackage(p)
         \/ PackageTx \/ AcceptPackage \/ PackageReturn \/ MinFeeDecays
  PROVE  LocksInv'
<1>1. /\ DOMAIN pool \subseteq Txs /\ DOMAIN pool \cap ConfirmedAt[tip] = {} /\ tip \in Blocks
      /\ minFee \in Nat
  BY PoolIs DEF LocksInv
<1>2. Kept(pool, pool) /\ Grown(pool, pool)
  BY DEF Kept, Grown
<1>3. CASE \E t \in Txs : AcceptToMemoryPool(t)
  <2>1. PICK t \in Txs : AcceptToMemoryPool(t)
    BY <1>3
  <2>2. /\ PreChecks(t, SingleAccept, {}) = "valid" /\ LimitMempoolSize(Finalize(t), {t})
        /\ tip' = tip /\ pc' = pc
    BY <2>1, SingleAccepted DEF AcceptToMemoryPool
  <2>3. Grown(Finalize(t), pool)
    <3>1. {} \subseteq DOMAIN CoinsTip
      OBVIOUS
    <3> QED BY <1>1, <2>2, <3>1, FinalizeGrows
  <2>4. DOMAIN Finalize(t) \subseteq Txs
    BY <1>1 DEF Finalize, With, Without, Restrict
  <2>5. Kept(pool', Finalize(t))
    BY <1>1, <2>2, <2>4, LimitKept
  <2> QED BY <2>2, <2>3, <2>5, GrownAndKept, LocksKept DEF Reorganising
<1>4. CASE PackageTx
  <2>1. /\ pc = "package" /\ UNCHANGED <<tip, pc>> /\ Trying
        /\ \/ UNCHANGED pool
           \/ /\ AcceptSingleTransaction(pkg.txns[pkg.next], SingleAccept, pkg.view) = "valid"
              /\ pkg.next <= Len(pkg.txns) /\ pool' = Finalize(pkg.txns[pkg.next])
    BY <1>4 DEF PackageTx, MempoolInv
  <2>2. CASE UNCHANGED pool
    BY <1>2, <2>1, <2>2, LocksKept DEF Reorganising
  <2>3. CASE /\ AcceptSingleTransaction(pkg.txns[pkg.next], SingleAccept, pkg.view) = "valid"
             /\ pkg.next <= Len(pkg.txns) /\ pool' = Finalize(pkg.txns[pkg.next])
    <3> DEFINE t == pkg.txns[pkg.next]
    <3>1. t \in Txs
      <4>1. pkg.txns \in Packages /\ pkg.next \in 1 .. Len(pkg.txns) + 1
        BY <2>1 DEF Trying, PackageLocals
      <4>2. Len(pkg.txns) \in Nat /\ DOMAIN pkg.txns = 1 .. Len(pkg.txns) /\ ToSet(pkg.txns) \subseteq Txs
        BY <4>1, PackagesAre
      <4>3. pkg.next \in DOMAIN pkg.txns
        BY <2>3, <4>1, <4>2
      <4> QED BY <4>2, <4>3 DEF ToSet
    <3> HIDE DEF t
    <3>2. PreChecks(t, SingleAccept, pkg.view) = "valid" /\ pkg.view \subseteq DOMAIN CoinsTip
      BY <2>1, <2>3, SingleAccepted DEF t, Trying
    <3>3. Grown(Finalize(t), pool)
      BY <1>1, <3>1, <3>2, FinalizeGrows
    <3>4. Grown(pool', pool)
      BY <2>3, <3>3 DEF t
    <3> QED BY <2>1, <3>4, LocksKept DEF Reorganising
  <2> QED BY <2>1, <2>2, <2>3
<1>5. CASE AcceptPackage
  <2>1. /\ pc = "package" /\ pc' = "reported" /\ tip' = tip /\ Trying
        /\ \E new : LimitMempoolSize(AfterSubmission, new)
    BY <1>5 DEF AcceptPackage, Goto, MempoolInv
  <2>2. Sound(pool, DOMAIN CoinsTip)
    BY <2>1, AtRest DEF MempoolInv, Typed
  <2>3. DOMAIN AfterSubmission \subseteq Txs
    BY <1>1, <2>1, <2>2, AfterSubmissionSound DEF Sound
  <2>4. Grown(AfterSubmission, pool) /\ Kept(pool', AfterSubmission)
    BY <1>1, <2>1, <2>3, SubmissionGrows, LimitKept
  <2> QED BY <2>1, <2>4, GrownAndKept, LocksKept DEF Reorganising
<1>6. CASE \/ \E p \in Packages : ProcessNewPackage(p)
           \/ PackageReturn \/ MinFeeDecays
  <2>1. UNCHANGED <<tip, pool>> /\ (~Reorganising' => ~Reorganising)
    BY <1>6 DEF ProcessNewPackage, PackageReturn, MinFeeDecays, Goto, Reorganising
  <2> QED BY <1>2, <2>1, LocksKept
<1> QED BY <1>3, <1>4, <1>5, <1>6

\* A block is disconnected.
LEMMA DisconnectTipKeepsLocks ==
  ASSUME MempoolInv, LocksInv, DisconnectTip
  PROVE  LocksInv'
<1>1. /\ tip \in Blocks \ {Genesis} /\ tip' = Parent[tip] /\ pc' = "reorg"
      /\ \E S : pool' = RemoveRecursive(pool, S)
  BY DEF DisconnectTip, Goto, MempoolInv, Typed
<1>2. Kept(pool', pool)
  BY <1>1, RemovalKept
<1>3. ConfirmedAt[tip'] \subseteq ConfirmedAt[tip]
  BY <1>1, ConfirmedIs
<1> QED BY <1>1, <1>2, <1>3 DEF LocksInv, Kept, Reorganising

\* A block is connected: what an entry waits for has gone on counting from the same height.
LEMMA ReadyOnTop ==
  ASSUME NEW b \in Blocks \ {Genesis}, NEW P \in SUBSET (Txs \ Coinbases),
         P \cap ConfirmedAt[Parent[b]] = {}, Sourced(P, DOMAIN CoinsAt[Parent[b]]),
         NEW Q \in SUBSET P, Q \cap ConfirmedAt[b] = {}, Sourced(Q, DOMAIN CoinsAt[b]),
         NEW t \in Q, ReadyAt(t, Parent[b])
  PROVE  ReadyAt(t, b)
<1> DEFINE p == Parent[b]
<1>1. /\ p \in Blocks /\ p \in Path[b] /\ Height[b] = Height[p] + 1 /\ Height[p] \in Nat
      /\ ConfirmedAt[b] = ConfirmedAt[p] \cup ToSet(BlockTxs[b])
  <2>1. p \in Path[p] /\ Path[b] = Path[p] \cup {b} /\ p \in Blocks
    BY ParentFacts, ChainFacts
  <2> QED BY <2>1, ParentFacts, ConfirmedIs
<1> HIDE DEF p
<1>2. ASSUME NEW o \in Spends[t], o \in DOMAIN CoinsAt[p]
      PROVE  o \in DOMAIN CoinsAt[b] /\ CoinsAt[b][o] = CoinsAt[p][o]
  <2>1. MadeAt(o, CoinsAt[p][o], b)
    BY <1>1, <1>2, CoinMadeAt, MadeAbove
  <2>2. o \in DOMAIN CoinsAt[b] \cup Outs(Q) /\ Q \in SUBSET Txs
    BY DEF Sourced
  <2>3. o \in DOMAIN CoinsAt[b]
    BY <2>1, <2>2, MadeIsConfirmed, MadeAndUnspent
  <2>4. MadeAt(o, CoinsAt[b][o], b)
    BY <2>3, CoinMadeAt
  <2> QED BY <2>1, <2>3, <2>4, MadeOnce
<1>3. ASSUME NEW o \in Spends[t], o \in DOMAIN CoinsAt[b], NEW c \in Coinbases, o \in Creates[c]
      PROVE  o \in DOMAIN CoinsAt[p]
  <2>1. o \in DOMAIN CoinsAt[p] \cup Outs(P)
    BY DEF Sourced, p
  <2>2. o \notin Outs(P)
    <3>1. \A u \in P : u \in Txs /\ c \in Txs /\ u # c
      BY TxAssumption
    <3> QED BY <1>3, <3>1, TxAssumption DEF Outs
  <2> QED BY <2>1, <2>2
<1>4. LockTime[t] = 0 \/ LockTime[t] < Height[b] + 1
  <2>1. LockTime[t] \in Nat
    BY TxAssumption
  <2> QED BY <1>1, <2>1 DEF ReadyAt, p
<1>5. ASSUME NEW o \in Spends[t] \cap DOMAIN CoinsAt[b], \E c \in Coinbases : o \in Creates[c]
      PROVE  Height[b] + 1 - CoinsAt[b][o] >= CoinbaseMaturity
  <2>1. o \in DOMAIN CoinsAt[p] /\ CoinsAt[b][o] = CoinsAt[p][o]
    BY <1>2, <1>3, <1>5
  <2>2. Height[p] + 1 - CoinsAt[p][o] >= CoinbaseMaturity
    BY <1>5, <2>1 DEF ReadyAt, p
  <2>3. CoinsAt[p][o] \in 0 .. Height[p]
    BY <1>1, <2>1, CoinMadeAt
  <2>4. CoinbaseMaturity \in Nat
    BY PolicyAssumption
  <2> DEFINE h == CoinsAt[p][o]
  <2>5. h \in Int /\ Height[p] + 1 - h >= CoinbaseMaturity
    BY <1>1, <2>2, <2>3
  <2> HIDE DEF h
  <2>6. Height[p] + 1 + 1 - h >= CoinbaseMaturity
    BY <1>1, <2>4, <2>5
  <2> QED BY <1>1, <2>1, <2>6 DEF h
<1>6. ASSUME RelLock[t] # 0, NEW o \in Spends[t]
      PROVE  o \in DOMAIN CoinsAt[b] /\ CoinsAt[b][o] + RelLock[t] - 1 <= Height[b]
  <2>1. o \in DOMAIN CoinsAt[p] /\ CoinsAt[p][o] + RelLock[t] - 1 <= Height[p]
    BY <1>6 DEF ReadyAt, p
  <2>2. o \in DOMAIN CoinsAt[b] /\ CoinsAt[b][o] = CoinsAt[p][o]
    BY <1>2, <2>1
  <2>3. CoinsAt[p][o] \in 0 .. Height[p] /\ RelLock[t] \in Nat
    BY <1>1, <2>1, CoinMadeAt, TxAssumption
  <2> QED BY <1>1, <2>1, <2>2, <2>3
<1> QED BY <1>4, <1>5, <1>6 DEF ReadyAt

LEMMA ConnectTipKeepsLocks ==
  ASSUME MempoolInv, MempoolInv', LocksInv, NEW b \in Blocks, ConnectTip(b)
  PROVE  LocksInv'
<1> DEFINE txns == ToSet(BlockTxs[b])
<1>1. tip' = b /\ Parent[b] = tip /\ tip \in Blocks /\ pc' = pc /\ pool' = RemoveForBlock(txns)
  BY DEF ConnectTip, MempoolInv, Typed
<1>2. b \in Blocks \ {Genesis}
  BY <1>1, TreeAssumption
<1>3. Kept(pool', pool) /\ DOMAIN pool' \cap txns = {}
  BY <1>1 DEF RemoveForBlock, RemoveRecursive, Without, Restrict, Kept
<1>4. DOMAIN pool' \cap ConfirmedAt[b] = {}
  BY <1>1, <1>2, <1>3, ConfirmedIs DEF LocksInv, Kept
<1>5. ASSUME ~Reorganising, NEW t \in DOMAIN pool'
      PROVE  ReadyAt(t, b)
  <2> DEFINE P == DOMAIN pool
             Q == DOMAIN pool'
  <2>1. P \in SUBSET (Txs \ Coinbases) /\ P \cap ConfirmedAt[Parent[b]] = {}
        /\ Sourced(P, DOMAIN CoinsAt[Parent[b]])
    BY <1>1, <1>5, PoolIs DEF LocksInv, CoinsTip
  <2>2. Q \in SUBSET P
    BY <1>3 DEF Kept
  <2>3. Sourced(Q, DOMAIN CoinsAt[b])
    <3>1. ~Reorganising'
      BY <1>1, <1>5 DEF Reorganising
    <3>2. Spendable' = DOMAIN CoinsAt[b]
      <4>1. disconnectpool' = <<>>
        BY <3>1 DEF MempoolInv, Typed, Reorganising
      <4> QED BY <1>1, <4>1, OutsOfNothing DEF Spendable, CoinsTip
    <3> QED BY <3>2 DEF MempoolInv, Sound
  <2>4. t \in Q /\ ReadyAt(t, Parent[b])
    BY <1>1, <1>3, <1>5 DEF LocksInv, Kept
  <2> HIDE DEF P, Q
  <2> QED BY <1>2, <1>4, <2>1, <2>2, <2>3, <2>4, ReadyOnTop DEF Q
<1> QED BY <1>1, <1>3, <1>4, <1>5 DEF LocksInv, Kept, Reorganising

\* What passes the filter of removeForReorg is ready, by fresh lock points or by cached ones.
LEMMA FilteredIsReady ==
  ASSUME NEW t \in DOMAIN pool, DOMAIN pool \subseteq Txs \ Coinbases, tip \in Blocks,
         DOMAIN pool \cap ConfirmedAt[tip] = {}, Sourced(DOMAIN pool, DOMAIN CoinsTip),
         pool[t] \in Entry, Honest(t, pool[t]), FinalAndMature(t)
  PROVE  ReadyAt(t, tip) /\ Honest(t, [pool[t] EXCEPT !.lp = LockPoints(t)])
<1> DEFINE e == pool[t]
           lp == LockPoints(t)
           new == [e EXCEPT !.lp = lp]
<1>1. /\ CheckFinalTxAtTip(t) /\ CheckSequenceLocksAtTip(lp) /\ (e.spendsCoinbase => Mature(t))
      /\ e.lp.height \in Int /\ e.lp.maxInputBlock \in Blocks /\ t \in Txs \ Coinbases
  BY DEF FinalAndMature, Entry, LockPoint
<1>2. Mature(t)
  <2>1. CASE SpendsCoinbase(t)
    BY <1>1, <2>1 DEF Honest
  <2>2. CASE ~SpendsCoinbase(t)
    BY <2>2 DEF SpendsCoinbase, Mature
  <2> QED BY <2>1, <2>2
<1>3. new.lp = lp /\ new.spendsCoinbase = SpendsCoinbase(t)
  BY DEF Honest, Entry
<1>4. CASE lp = CalculateLockPointsAtTip(t)
  <2>1. ReadyAt(t, tip)
    BY <1>1, <1>2, <1>4, ReadyIs DEF LocksRunOut
  <2> HIDE DEF lp, new
  <2>2. Honest(t, new)
    BY <1>1, <1>3, <1>4, <2>1, LockPointsHonest
  <2> QED BY <2>1, <2>2 DEF lp, new
<1>5. CASE lp = e.lp /\ e.lp.maxInputBlock \in Path[tip]
  <2>1. Honest(t, new)
    <3> HIDE DEF lp, new
    <3> QED BY <1>3, <1>5 DEF Honest, e
  <2>2. ASSUME RelLock[t] # 0, NEW o \in Spends[t]
        PROVE  o \in DOMAIN CoinsAt[tip] /\ CoinsAt[tip][o] + RelLock[t] - 1 <= Height[tip]
    <3>1. PICK h \in Nat : MadeAt(o, h, e.lp.maxInputBlock) /\ h + RelLock[t] - 1 <= e.lp.height
      BY <2>2 DEF Honest
    <3>2. MadeAt(o, h, tip)
      BY <1>5, <3>1, MadeAbove
    <3>3. o \in DOMAIN CoinsAt[tip] \cup Outs(DOMAIN pool) /\ DOMAIN pool \in SUBSET Txs
      BY DEF Sourced, CoinsTip
    <3>4. o \in DOMAIN CoinsAt[tip]
      BY <3>2, <3>3, MadeIsConfirmed, MadeAndUnspent
    <3>5. CoinsAt[tip][o] = h
      BY <3>2, <3>4, CoinMadeAt, MadeOnce
    <3>6. e.lp.height < Height[tip] + 1
      BY <1>1, <1>5 DEF CheckSequenceLocksAtTip, SpendHeight
    <3>7. RelLock[t] \in Nat /\ Height[tip] \in Nat
      BY <1>1, TxAssumption, TreeAssumption
    <3> DEFINE height == e.lp.height
    <3>8. height \in Int /\ height < Height[tip] + 1 /\ h + RelLock[t] - 1 <= height
      BY <1>1, <3>1, <3>6
    <3> HIDE DEF height
    <3>9. h + RelLock[t] - 1 <= Height[tip]
      BY <3>7, <3>8
    <3> QED BY <3>4, <3>5, <3>9
  <2>3. CheckFinalTxAtTip(t) <=> (LockTime[t] = 0 \/ LockTime[t] < Height[tip] + 1)
    BY DEF CheckFinalTxAtTip, SpendHeight
  <2>4. ReadyAt(t, tip)
    <3> HIDE DEF e, lp
    <3> QED BY <1>1, <1>2, <2>2, <2>3, MatureIs DEF ReadyAt
  <2> QED BY <2>1, <2>4
<1> QED BY <1>4, <1>5 DEF LockPoints, TestLockPointValidity

\* The end of a reorganisation.
LEMMA FinishUpdateKeepsLocks ==
  ASSUME MempoolInv, LocksInv, FinishUpdate
  PROVE  LocksInv'
<1> DEFINE updated == UpdateTransactionsFromBlock
           bad == {t \in DOMAIN updated : ~FinalAndMature(t)}
           kept == RemoveRecursive(updated, bad)
           entries == [t \in DOMAIN kept |-> [kept[t] EXCEPT !.lp = LockPoints(t)]]
<1>1. /\ disconnectpool = <<>> /\ LimitMempoolSize(entries, vHashUpdate)
      /\ tip' = tip /\ tip \in Blocks /\ minFee \in Nat
      /\ DOMAIN pool \subseteq Txs \ Coinbases /\ DOMAIN pool \subseteq Txs
      /\ pool \in [DOMAIN pool -> Entry]
  BY PoolIs DEF FinishUpdate, MempoolInv, Sound
<1>2. Sourced(DOMAIN pool, DOMAIN CoinsTip)
  BY <1>1, AtRest DEF MempoolInv, Sound
<1>3. Kept(updated, pool) /\ Kept(kept, updated)
  BY RemovalKept DEF UpdateTransactionsFromBlock
<1>4. DOMAIN kept \cap bad = {}
  <2>1. DOMAIN updated \subseteq Txs /\ bad \in SUBSET Txs
    BY <1>1, <1>3 DEF Kept
  <2> HIDE DEF updated, bad
  <2>2. PICK D : kept = Without(updated, D) /\ bad \cap DOMAIN updated \subseteq D
    BY <2>1, RemovalIsClosed
  <2> QED BY <2>2 DEF Without, Restrict
<1>5. \A t \in DOMAIN kept : t \in DOMAIN pool /\ kept[t] = pool[t] /\ FinalAndMature(t)
  BY <1>3, <1>4 DEF Kept
<1> HIDE DEF kept, updated, bad
<1>6. ASSUME NEW t \in DOMAIN kept
      PROVE  ReadyAt(t, tip) /\ Honest(t, [kept[t] EXCEPT !.lp = LockPoints(t)])
  <2>1. t \in DOMAIN pool /\ kept[t] = pool[t] /\ FinalAndMature(t) /\ pool[t] \in Entry
    BY <1>1, <1>5
  <2>2. Honest(t, pool[t]) /\ DOMAIN pool \cap ConfirmedAt[tip] = {}
    BY <2>1 DEF LocksInv
  <2> QED BY <1>1, <1>2, <2>1, <2>2, FilteredIsReady
<1>7. /\ DOMAIN entries \subseteq DOMAIN pool
      /\ \A t \in DOMAIN entries : Honest(t, entries[t]) /\ ReadyAt(t, tip)
  BY <1>5, <1>6
<1> HIDE DEF entries
<1>8. Kept(pool', entries)
  <2>1. DOMAIN entries \subseteq Txs
    BY <1>1, <1>7
  <2> QED BY <1>1, <2>1, LimitKept
<1> QED BY <1>1, <1>7, <1>8 DEF Kept, LocksInv

\* The steps before that.
LEMMA ReorgKeepsLocks ==
  ASSUME MempoolInv, LocksInv, ReAddTx \/ \E fAdd \in BOOLEAN : MaybeUpdateMempoolForReorg(fAdd)
  PROVE  LocksInv'
<1>1. CASE \E fAdd \in BOOLEAN : MaybeUpdateMempoolForReorg(fAdd)
  <2>1. UNCHANGED <<tip, pool>> /\ Reorganising'
    BY <1>1 DEF MaybeUpdateMempoolForReorg, Goto, Reorganising
  <2> QED BY <2>1 DEF LocksInv
<1>2. CASE ReAddTx
  <2> DEFINE t == EarliestConfirmed
  <2>1. /\ pc = "update" /\ tip' = tip /\ pc' = pc /\ disconnectpool \in Seq(Txs) /\ disconnectpool # <<>>
        /\ \/ AcceptSingleTransaction(t, ReorgAccept, {}) = "valid" /\ pool' = Finalize(t)
           \/ pool' = RemoveRecursive(pool, {t})
    BY <1>2 DEF ReAddTx, MempoolInv, Typed
  <2>2. t \in Txs
    <3>1. Len(disconnectpool) \in 1 .. Len(disconnectpool)
      BY <2>1
    <3> QED BY <2>1, <3>1 DEF EarliestConfirmed, Last
  <2>3. {} \subseteq DOMAIN CoinsTip /\ (Reorganising' <=> Reorganising)
    BY <2>1 DEF Reorganising
  <2> HIDE DEF t
  <2>4. CASE AcceptSingleTransaction(t, ReorgAccept, {}) = "valid" /\ pool' = Finalize(t)
    <3>1. PreChecks(t, ReorgAccept, {}) = "valid"
      BY <2>4, SingleAccepted
    <3>2. Grown(Finalize(t), pool)
      BY <2>2, <2>3, <3>1, FinalizeGrows, PoolIs DEF LocksInv
    <3> QED BY <2>1, <2>3, <2>4, <3>2, LocksKept
  <2>5. CASE pool' = RemoveRecursive(pool, {t})
    BY <2>1, <2>3, <2>5, RemovalKept, LocksKept DEF Grown, Kept
  <2> QED BY <2>1, <2>4, <2>5
<1> QED BY <1>1, <1>2

\* Every step keeps it.
LEMMA LocksStep ==
  ASSUME MempoolInv, MempoolInv', LocksInv, [AssemblerNext]_<<vars, asmVars>>
  PROVE  LocksInv'
<1>1. CASE Next
  BY <1>1, AcceptanceKeepsLocks, DisconnectTipKeepsLocks, ConnectTipKeepsLocks,
     FinishUpdateKeepsLocks, ReorgKeepsLocks DEF Next, Continue
<1>2. CASE (CreateNewBlock \/ addPackageTxs) /\ UNCHANGED <<tip, pool, minFee, reorgVars, pkg>>
  <2>1. ~Reorganising /\ ~Reorganising' /\ UNCHANGED <<tip, pool>>
    BY <1>2, AssemblerLabels DEF Reorganising
  <2> QED BY <2>1 DEF LocksInv
<1>3. CASE UNCHANGED <<vars, asmVars>>
  BY <1>3 DEF vars, LocksInv, Reorganising
<1> QED BY <1>1, <1>2, <1>3 DEF AssemblerNext

\* So the entries are ready whenever no reorganisation is under way.
LEMMA LocksHold == AssemblerSpec => []LocksInv
<1>1. AssemblerInit => LocksInv
  BY DEF AssemblerInit, Init, LocksInv
<1>2. MempoolInv /\ MempoolInv' /\ LocksInv /\ [AssemblerNext]_<<vars, asmVars>> => LocksInv'
  BY LocksStep
<1> QED BY <1>1, <1>2, InvHolds, PTL DEF AssemblerSpec

-----------------------------------------------------------------------------
(* Families: ancestors against descendants, and no circles.                *)

\* Nobody below t is an ancestor of t's ancestors: what descends from S, and nothing else, has
\* an ancestor in S.
LEMMA Relatives ==
  ASSUME NEW P \in SUBSET Txs, NEW S \in SUBSET P, NEW t \in P
  PROVE  t \in Descendants(S, P) <=> t \in S \/ \E x \in S : x \in Ancestors(t, P)
<1> DEFINE D == Descendants(S, P)
<1>1. S \subseteq D /\ D \subseteq P /\ Children(D, P) \subseteq D /\ S \in SUBSET Txs
  BY DescendantFacts
<1>2. \A u \in P : /\ Parents({u}, P) \subseteq Ancestors(u, P) /\ Ancestors(u, P) \subseteq P
                   /\ Parents(Ancestors(u, P), P) \subseteq Ancestors(u, P)
  BY AncestorFacts
<1>3. ASSUME NEW x \in S, x \in Ancestors(t, P), t \notin D
      PROVE  FALSE
  <2> DEFINE Z == P \ D
  <2>1. Z \in SUBSET Txs /\ Parents({t}, P) \subseteq Z /\ Parents(Z, P) \subseteq Z
    BY <1>1, <1>3 DEF Children, Parents
  <2> HIDE DEF Z, D
  <2>2. Ancestors(t, P) \subseteq Z
    BY <2>1, AncestorFacts
  <2> QED BY <1>1, <1>3, <2>2 DEF Z
<1>4. D \subseteq S \cup {u \in P : \E x \in S : x \in Ancestors(u, P)}
  <2> DEFINE Z == S \cup {u \in P : \E x \in S : x \in Ancestors(u, P)}
  <2>1. ASSUME NEW c \in P, NEW z \in Z, Creates[z] \cap Spends[c] # {}
        PROVE  c \in Z
    <3>1. z \in Parents({c}, P)
      BY <2>1 DEF Parents
    <3>2. z \in Ancestors(c, P)
      BY <1>2, <3>1
    <3>3. CASE z \in S
      BY <3>2, <3>3
    <3>4. CASE z \notin S
      <4>1. PICK x \in S : x \in Ancestors(z, P)
        BY <3>4
      <4>2. Ancestors(z, P) \subseteq Ancestors(c, P)
        <5> DEFINE Y == Ancestors(c, P)
        <5>1. Parents({z}, P) \subseteq Y /\ Parents(Y, P) \subseteq Y /\ Y \in SUBSET Txs
          BY <1>2, <3>2 DEF Parents
        <5> HIDE DEF Y
        <5> QED BY <5>1, AncestorFacts DEF Y
      <4> QED BY <4>1, <4>2
    <3> QED BY <3>3, <3>4
  <2>2. S \subseteq Z /\ Z \in SUBSET Txs /\ Children(Z, P) \subseteq Z
    BY <2>1 DEF Children
  <2> HIDE DEF Z
  <2>3. D \subseteq Z
    BY <1>1, <2>2, DescendantFacts
  <2> QED BY <2>3 DEF Z
<1> QED BY <1>1, <1>3, <1>4

\* The ancestors of an ancestor are ancestors.
LEMMA AncestorsNested ==
  ASSUME NEW P \in SUBSET Txs, NEW t \in Txs, NEW a \in Ancestors(t, P)
  PROVE  Ancestors(a, P) \subseteq Ancestors(t, P)
<1> DEFINE Y == Ancestors(t, P)
<1>1. Parents(Y, P) \subseteq Y /\ Y \subseteq P /\ a \in Txs
  BY AncestorFacts
<1>2. Parents({a}, P) \subseteq Y /\ Y \in SUBSET Txs
  BY <1>1 DEF Parents
<1> HIDE DEF Y
<1> QED BY <1>1, <1>2, AncestorFacts DEF Y

\* Nothing descends from itself.
LEMMA NoCircle ==
  ASSUME NEW P \in SUBSET Txs, NEW t \in Txs
  PROVE  t \notin Ancestors(t, P)
<1> SUFFICES ASSUME t \in Ancestors(t, P)
             PROVE  FALSE
  OBVIOUS
<1> DEFINE A == Ancestors(t, P)
           D == Descendants({t}, P)
           S == A \cap D
<1>1. A \subseteq P /\ Parents({t}, P) \subseteq A /\ Parents(A, P) \subseteq A /\ t \in P
  BY AncestorFacts
<1>2. {t} \in SUBSET P /\ t \in D /\ D \subseteq P
  BY <1>1, DescendantFacts
<1>3. S \in SUBSET Txs /\ S # {}
  BY <1>1, <1>2
<1>4. PICK m \in S : \A u \in S : Creates[u] \cap Spends[m] = {}
  BY <1>3, TxAssumption
<1>5. m \in P /\ Parents({m}, P) \subseteq A
  BY <1>1, <1>4 DEF Parents
<1>6. Parents({m}, P) \cap D = {}
  BY <1>4, <1>5 DEF Parents
<1>7. t \in Ancestors(m, P)
  BY <1>1, <1>2, <1>4, Relatives
<1>8. Ancestors(m, P) \subseteq P \ D
  <2> DEFINE Z == P \ D
  <2>1. Children(D, P) \subseteq D
    BY <1>1, <1>2, DescendantFacts
  <2>2. Z \in SUBSET Txs /\ Parents({m}, P) \subseteq Z /\ Parents(Z, P) \subseteq Z
    BY <1>6, <2>1 DEF Children, Parents
  <2> HIDE DEF Z, D
  <2>3. Ancestors(m, P) \subseteq Z
    BY <1>5, <2>2, AncestorFacts
  <2> QED BY <2>3 DEF Z
<1> QED BY <1>2, <1>7, <1>8

\* So an ancestor has fewer ancestors.
LEMMA FewerAncestors ==
  ASSUME NEW P \in SUBSET Txs, NEW t \in Txs, NEW a \in Ancestors(t, P)
  PROVE  /\ Cardinality(Ancestors(a, P)) \in Nat /\ Cardinality(Ancestors(t, P)) \in Nat
         /\ Cardinality(Ancestors(a, P)) < Cardinality(Ancestors(t, P))
<1> DEFINE A == Ancestors(a, P)
           T == Ancestors(t, P)
<1>1. T \subseteq P /\ a \in Txs /\ A \subseteq P
  BY AncestorFacts
<1>2. A \subseteq T /\ a \notin A
  BY <1>1, AncestorsNested, NoCircle
<1>3. IsFiniteSet(T)
  BY <1>1, TxAssumption, FS_Subset
<1> HIDE DEF A, T
<1>4. A # T
  BY <1>2 DEF T
<1>5. Cardinality(A) \in Nat /\ Cardinality(T) \in Nat /\ Cardinality(A) <= Cardinality(T)
      /\ Cardinality(A) # Cardinality(T)
  BY <1>2, <1>3, <1>4, FS_Subset, FS_CardinalityType
<1> QED BY <1>5 DEF A, T

\* Sizes and fees of two sets without a common transaction add up.
LEMMA SumsAdd ==
  ASSUME NEW S \in SUBSET Txs, NEW T \in SUBSET Txs, S \cap T = {}
  PROVE  /\ Sizes(S \cup T) = Sizes(S) + Sizes(T) /\ Fees(S \cup T) = Fees(S) + Fees(T)
         /\ Sizes(S) \in Nat /\ Sizes(T) \in Nat /\ Fees(S) \in Nat /\ Fees(T) \in Nat
<1>1. IsFiniteSet(S) /\ IsFiniteSet(T)
  BY TxAssumption, FS_Subset
<1>2. \A x \in S \cup T : Fee[x] \in Int /\ Size[x] \in Int
  BY TxAssumption
<1> QED BY <1>1, <1>2, SumUnion, FeesAndSizes DEF Sizes, Fees

\* Less weighs less.
LEMMA SumsGrow ==
  ASSUME NEW S \in SUBSET Txs, NEW T \in SUBSET S
  PROVE  Sizes(T) <= Sizes(S) /\ Fees(T) <= Fees(S) /\ Sizes(T) \in Nat /\ Sizes(S) \in Nat
<1>1. S = T \cup (S \ T) /\ T \in SUBSET Txs /\ S \ T \in SUBSET Txs /\ T \cap (S \ T) = {}
  OBVIOUS
<1> DEFINE R == S \ T
<1> HIDE DEF R
<1>2. /\ Sizes(T \cup R) = Sizes(T) + Sizes(R) /\ Fees(T \cup R) = Fees(T) + Fees(R)
      /\ Sizes(R) \in Nat /\ Sizes(T) \in Nat /\ Fees(R) \in Nat /\ Fees(T) \in Nat
  BY <1>1, SumsAdd DEF R
<1> QED BY <1>1, <1>2 DEF R

-----------------------------------------------------------------------------
(* SortForBlock. *)

InOrder(s, count) == \A i, n \in DOMAIN s : i < n => count[s[i]] <= count[s[n]]

\* Among finitely many there is one with the largest count.
LEMMA LargestCount ==
  ASSUME NEW S, IsFiniteSet(S), S # {}, NEW count \in [S -> Nat]
  PROVE  \E x \in S : \A y \in S : count[y] <= count[x]
<1> DEFINE Good == {s \in SUBSET S : s = {} \/ \E x \in s : \A y \in s : count[y] <= count[x]}
<1>1. ASSUME NEW s \in SUBSET S, \A x \in s : s \ {x} \in Good
      PROVE  s \in Good
  <2>1. CASE s = {}
    BY <2>1
  <2>2. CASE s # {}
    <3>1. PICK x \in s : TRUE
      BY <2>2
    <3>2. CASE s \ {x} = {}
      BY <3>2
    <3>3. CASE s \ {x} # {}
      <4>1. PICK z \in s \ {x} : \A y \in s \ {x} : count[y] <= count[z]
        BY <1>1, <3>3
      <4>2. count[x] \in Nat /\ count[z] \in Nat /\ \A y \in s : count[y] \in Nat
        OBVIOUS
      <4>3. CASE count[x] <= count[z]
        BY <4>1, <4>3
      <4>4. CASE count[z] <= count[x]
        BY <4>1, <4>2, <4>4
      <4> QED BY <4>2, <4>3, <4>4
    <3> QED BY <3>2, <3>3
  <2> QED BY <2>1, <2>2
<1> HIDE DEF Good
<1>2. SUBSET S \subseteq Good
  BY <1>1, SubsetInduction DEF GrowsIn
<1> QED BY <1>2 DEF Good

\* A finite set can be put in order.
LEMMA OrderExists ==
  ASSUME NEW S, IsFiniteSet(S), NEW count \in [S -> Nat]
  PROVE  \E q \in SetToSeqs(S) : InOrder(q, count)
<1> DEFINE Good == {s \in SUBSET S : \E q \in SetToSeqs(s) : InOrder(q, count)}
<1>1. ASSUME NEW s \in SUBSET S, \A x \in s : s \ {x} \in Good
      PROVE  s \in Good
  <2>0. IsFiniteSet(s)
    BY FS_Subset
  <2>1. CASE s = {}
    <3>1. Cardinality(s) = 0 /\ 1 .. 0 = {}
      BY <2>1, FS_EmptySet
    <3> DEFINE q == [i \in 1 .. 0 |-> i]
    <3>2. q \in SetToSeqs(s) /\ InOrder(q, count)
      BY <2>1, <3>1 DEF SetToSeqs, InOrder
    <3> QED BY <3>2
  <2>2. CASE s # {}
    <3> DEFINE part == [x \in s |-> count[x]]
    <3>1. PICK x \in s : \A y \in s : count[y] <= count[x]
      <4>1. part \in [s -> Nat] /\ \A y \in s : part[y] = count[y]
        OBVIOUS
      <4> HIDE DEF part
      <4>2. \E x \in s : \A y \in s : part[y] <= part[x]
        BY <2>0, <2>2, <4>1, LargestCount
      <4> QED BY <4>1, <4>2
    <3> DEFINE r == s \ {x}
               k == Cardinality(r)
    <3>2. k \in Nat /\ Cardinality(s) = k + 1
      <4>1. IsFiniteSet(r) /\ k \in Nat /\ k = Cardinality(s) - 1 /\ Cardinality(s) \in Nat
        BY <2>0, FS_RemoveElement, FS_CardinalityType
      <4> QED BY <4>1
    <3>3. PICK p \in SetToSeqs(r) : InOrder(p, count)
      BY <1>1
    <3>4. p \in [1 .. k -> r] /\ \A i, n \in 1 .. k : i # n => p[i] # p[n]
      BY <3>3 DEF SetToSeqs
    <3> DEFINE q == [i \in 1 .. k + 1 |-> IF i = k + 1 THEN x ELSE p[i]]
    <3> HIDE DEF k, r
    <3>5. \A i \in 1 .. k + 1 : i = k + 1 \/ i \in 1 .. k
      BY <3>2
    <3>6. \A i \in 1 .. k : p[i] \in s /\ p[i] # x /\ i # k + 1
      BY <3>2, <3>4 DEF r
    <3>7. q \in [1 .. k + 1 -> s] /\ \A i, n \in 1 .. k + 1 : i # n => q[i] # q[n]
      BY <3>4, <3>5, <3>6
    <3>8. InOrder(q, count)
      <4> SUFFICES ASSUME NEW i \in 1 .. k + 1, NEW n \in 1 .. k + 1, i < n
                   PROVE  count[q[i]] <= count[q[n]]
        BY DEF InOrder
      <4>1. i \in 1 .. k /\ q[i] = p[i] /\ p[i] \in s
        BY <3>2, <3>5, <3>6
      <4>2. CASE n = k + 1
        BY <3>1, <4>1, <4>2
      <4>3. CASE n \in 1 .. k
        BY <3>3, <3>4, <3>6, <4>1, <4>3 DEF InOrder
      <4> QED BY <3>5, <4>2, <4>3
    <3>9. q \in SetToSeqs(s)
      BY <3>2, <3>7 DEF SetToSeqs
    <3> QED BY <3>8, <3>9
  <2> QED BY <2>1, <2>2
<1> HIDE DEF Good
<1>2. SUBSET S \subseteq Good
  BY <1>1, SubsetInduction DEF GrowsIn
<1> QED BY <1>2 DEF Good

\* SortForBlock lists a set of entries, each once, those with fewer ancestors first.
LEMMA SortFacts ==
  ASSUME NEW S \in SUBSET Pool, Pool \subseteq Txs
  PROVE  LET s == SortForBlock(S) IN
         /\ s \in Seq(S) /\ Len(s) = Cardinality(S) /\ Cardinality(S) \in Nat /\ ToSet(s) = S
         /\ \A i, n \in 1 .. Len(s) : i # n => s[i] # s[n]
         /\ \A i, n \in 1 .. Len(s) : s[i] \in Ancestors(s[n], Pool) => i < n
<1> DEFINE count == AncestorCount(S)
           s == SortForBlock(S)
           m == Cardinality(S)
<1>1. IsFiniteSet(S) /\ m \in Nat
  BY TxAssumption, FS_Subset, FS_CardinalityType
<1>2. \A t \in S : count[t] = Cardinality(Ancestors(t, Pool)) /\ count[t] \in Nat
  <2> TAKE t \in S
  <2>1. Ancestors(t, Pool) \subseteq Txs
    BY AncestorFacts
  <2>2. Cardinality(Ancestors(t, Pool)) \in Nat
    BY <2>1, TxAssumption, FS_Subset, FS_CardinalityType
  <2> QED BY <2>2 DEF AncestorCount
<1>3. count \in [S -> Nat]
  BY <1>2 DEF AncestorCount
<1>4. s = CHOOSE q \in SetToSeqs(S) : InOrder(q, count)
  BY DEF SortForBlock, InOrder
<1> HIDE DEF count, s
<1>5. s \in SetToSeqs(S) /\ InOrder(s, count)
  BY <1>1, <1>3, <1>4, OrderExists
<1>6. s \in [1 .. m -> S] /\ \A i, n \in 1 .. m : i # n => s[i] # s[n]
  BY <1>5 DEF SetToSeqs
<1> HIDE DEF m
<1>7. s \in Seq(S) /\ Len(s) = m /\ DOMAIN s = 1 .. m
  BY <1>1, <1>6
<1>8. ToSet(s) = S
  <2>1. s \in Injection(1 .. m, S)
    BY <1>6 DEF Injection, IsInjective
  <2>2. Cardinality(1 .. m) = m
    BY <1>1, FS_Interval
  <2>3. s \in Surjection(1 .. m, S)
    BY <1>1, <2>1, <2>2, FS_Injection DEF m
  <2> QED BY <1>7, <2>3 DEF Surjection, ToSet
<1>9. ASSUME NEW i \in 1 .. m, NEW n \in 1 .. m, s[i] \in Ancestors(s[n], Pool)
      PROVE  i < n
  <2>1. s[i] \in S /\ s[n] \in S /\ s[n] \in Txs
    BY <1>6
  <2>2. count[s[i]] < count[s[n]]
    BY <1>2, <1>9, <2>1, FewerAncestors
  <2>3. n < i => count[s[n]] <= count[s[i]]
    BY <1>5, <1>7 DEF InOrder
  <2>4. count[s[i]] \in Nat /\ count[s[n]] \in Nat
    BY <1>2, <2>1
  <2>5. n # i
    BY <2>2, <2>4
  <2> QED BY <2>2, <2>3, <2>4, <2>5
<1> QED BY <1>1, <1>6, <1>7, <1>8, <1>9 DEF s, m

-----------------------------------------------------------------------------
(* The assembler.                                                          *)

Family(t, P) == {t} \cup Ancestors(t, P)

\* Each transaction is in the block once, after all its ancestors.
Arranged(q, P) ==
  /\ q \in Seq(P) /\ \A i, n \in 1 .. Len(q) : i # n => q[i] # q[n]
  /\ \A i \in 1 .. Len(q) : \A a \in Ancestors(q[i], P) : \E n \in 1 .. i - 1 : q[n] = a

\* The sums e are those of S; or larger, if the transaction they are kept for had failed.
Totals(e, S, exact) ==
  /\ e.size \in Int /\ e.fees \in Int /\ e.size >= Sizes(S) /\ e.fees >= Fees(S)
  /\ exact => e.size = Sizes(S) /\ e.fees = Fees(S)

\* mapModifiedTx has the sums of what is not in the block yet.
Updated(mm, q, failed, P) ==
  /\ DOMAIN mm \subseteq P \ ToSet(q)
  /\ \A t \in DOMAIN mm : Totals(mm[t], Family(t, P) \ ToSet(q), t \notin failed)

\* An entry that is in none of the sets has no ancestor in the block; and if it has left the
\* index, it did not fit.
Untouched(index, mm, q, failed, P) ==
  \A t \in P \ (ToSet(q) \cup failed \cup DOMAIN mm) :
    /\ Ancestors(t, P) \cap ToSet(q) = {}
    /\ t \notin index => ReservedSize + Sizes(ToSet(q)) + Sizes(Family(t, P)) >= MaxBlockSize

Fits(q) == ReservedSize + Sizes(ToSet(q)) <= MaxBlockSize

\* What was not taken and did not fail pays too little or does not fit.
Maximal(q, failed, P) ==
  \A t \in P \ (ToSet(q) \cup failed) :
    LET rest == Family(t, P) \ ToSet(q) IN
    \/ Fees(rest) < BlockMinFeeRate * Sizes(rest) \/ Fee[t] < BlockMinFeeRate * Size[t]
    \/ ReservedSize + Sizes(ToSet(q)) + Sizes(rest) >= MaxBlockSize

Assembling == pc \in {"assemble", "template"}
AssemblyInv ==
  Assembling =>
    /\ nConsecutiveFailed \in Nat /\ mi \subseteq Pool
    /\ Arranged(block, Pool) /\ Fits(block)
    /\ Updated(mapModifiedTx, block, failedTx, Pool)
    /\ pc = "assemble" => Untouched(mi, mapModifiedTx, block, failedTx, Pool)
    /\ pc = "template" /\ nConsecutiveFailed <= MaxConsecutiveFailures => Maximal(block, failedTx, Pool)

\* A transaction and its ancestors are of the pool.
LEMMA FamilyFacts ==
  ASSUME NEW P \in SUBSET Txs, NEW t \in P
  PROVE  /\ Family(t, P) \in SUBSET P /\ t \in Family(t, P) /\ Ancestors(t, P) \subseteq Family(t, P)
         /\ \A a \in Family(t, P) : Ancestors(a, P) \subseteq Family(t, P)
BY AncestorFacts, AncestorsNested DEF Family

\* The block has its elements.
LEMMA ArrangedIs ==
  ASSUME NEW P \in SUBSET Txs, NEW q, Arranged(q, P)
  PROVE  /\ q \in Seq(P) /\ Len(q) \in Nat /\ DOMAIN q = 1 .. Len(q) /\ ToSet(q) \in SUBSET P
         /\ \A i \in 1 .. Len(q) : q[i] \in ToSet(q)
         /\ \A t \in ToSet(q) : Ancestors(t, P) \subseteq ToSet(q)
<1>1. q \in Seq(P)
  BY DEF Arranged
<1>2. /\ Len(q) \in Nat /\ DOMAIN q = 1 .. Len(q)
      /\ \A i \in 1 .. Len(q) : q[i] \in P
  BY <1>1
<1>3. ToSet(q) = {q[i] : i \in 1 .. Len(q)}
  BY <1>2 DEF ToSet
<1>4. ASSUME NEW t \in ToSet(q), NEW a \in Ancestors(t, P)
      PROVE  a \in ToSet(q)
  <2>1. PICK i \in 1 .. Len(q) : t = q[i]
    BY <1>3
  <2>2. PICK n \in 1 .. i - 1 : q[n] = a
    BY <2>1 DEF Arranged
  <2>3. n \in 1 .. Len(q)
    BY <1>2, <2>1
  <2> QED BY <1>3, <2>2, <2>3
<1> QED BY <1>1, <1>2, <1>3, <1>4

\* What AddPackage adds comes after all it descends from.
LEMMA PackageIsArranged ==
  ASSUME Pool \subseteq Txs, Arranged(block, Pool), NEW t \in Pool \ inBlock
  PROVE  LET s == SortForBlock(Family(t, Pool) \ inBlock) IN
         /\ Arranged(block \o s, Pool) /\ ToSet(block \o s) = inBlock \cup Family(t, Pool)
         /\ Len(block \o s) > Len(block)
<1> DEFINE F == Family(t, Pool)
           added == F \ inBlock
           s == SortForBlock(added)
           q == block
           k == Len(q)
           m == Len(s)
           r == q \o s
<1>1. /\ q \in Seq(Pool) /\ k \in Nat /\ inBlock \in SUBSET Pool
      /\ \A i \in 1 .. k : q[i] \in inBlock
      /\ inBlock = {q[i] : i \in 1 .. k}
  BY ArrangedIs DEF inBlock, ToSet
<1>2. /\ F \in SUBSET Pool /\ t \in added /\ \A a \in F : Ancestors(a, Pool) \subseteq F
  BY FamilyFacts
<1>3. added \in SUBSET Pool /\ added \cap inBlock = {} /\ inBlock \cup F = inBlock \cup added
  BY <1>2
<1> HIDE DEF F
<1>4. /\ s \in Seq(added) /\ ToSet(s) = added
      /\ \A i, n \in 1 .. m : i # n => s[i] # s[n]
      /\ \A i, n \in 1 .. m : s[i] \in Ancestors(s[n], Pool) => i < n
  <2> HIDE DEF added
  <2> QED BY <1>3, SortFacts
<1>5. \A a \in added : Ancestors(a, Pool) \subseteq added \cup inBlock
  BY <1>2
<1> HIDE DEF added, s
<1>6. m \in Nat /\ added = {s[i] : i \in 1 .. m} /\ \A i \in 1 .. m : s[i] \in added
  BY <1>4 DEF ToSet
<1>7. m > 0
  BY <1>2, <1>6
<1>8. /\ r \in Seq(Pool) /\ Len(r) = k + m /\ \A i \in 1 .. k : r[i] = q[i]
      /\ \A i \in k + 1 .. k + m : r[i] = s[i - k] /\ i - k \in 1 .. m
      /\ \A j \in 1 .. m : r[k + j] = s[j] /\ k + j \in k + 1 .. k + m
  <2>1. s \in Seq(Pool)
    BY <1>3, <1>4
  <2>2. r \in Seq(Pool) /\ Len(r) = k + m
    BY <1>1, <2>1
  <2>3. \A i \in 1 .. k + m : r[i] = IF i <= k THEN q[i] ELSE s[i - k]
    BY <1>1, <1>6, <2>1
  <2> HIDE DEF r, k, m
  <2> QED BY <1>1, <1>6, <2>2, <2>3
<1> HIDE DEF r
<1>9. \A i \in 1 .. k + m : i \in 1 .. k \/ i \in k + 1 .. k + m
  BY <1>1, <1>6
<1>10. ASSUME NEW i \in 1 .. k + m, NEW n \in 1 .. k + m, i # n
       PROVE  r[i] # r[n]
  <2>1. CASE i \in 1 .. k /\ n \in 1 .. k
    BY <1>8, <1>10, <2>1 DEF Arranged
  <2>2. CASE i \in 1 .. k /\ n \in k + 1 .. k + m
    BY <1>1, <1>3, <1>6, <1>8, <2>2
  <2>3. CASE i \in k + 1 .. k + m /\ n \in 1 .. k
    BY <1>1, <1>3, <1>6, <1>8, <2>3
  <2>4. CASE i \in k + 1 .. k + m /\ n \in k + 1 .. k + m
    <3>1. i - k # n - k /\ i - k \in 1 .. m /\ n - k \in 1 .. m
      BY <1>1, <1>8, <1>10, <2>4
    <3> QED BY <1>4, <1>8, <2>4, <3>1
  <2> QED BY <1>9, <2>1, <2>2, <2>3, <2>4
<1>11. ASSUME NEW i \in 1 .. k + m, NEW a \in Ancestors(r[i], Pool)
       PROVE  \E n \in 1 .. i - 1 : r[n] = a
  <2>1. CASE i \in 1 .. k
    <3>1. PICK n \in 1 .. i - 1 : q[n] = a
      BY <1>8, <1>11, <2>1 DEF Arranged
    <3>2. n \in 1 .. k
      BY <1>1, <2>1
    <3> QED BY <1>8, <3>1, <3>2
  <2>2. CASE i \in k + 1 .. k + m
    <3>1. r[i] = s[i - k] /\ i - k \in 1 .. m /\ s[i - k] \in added
      BY <1>6, <1>8, <2>2
    <3>2. CASE a \in inBlock
      <4>1. PICK n \in 1 .. k : q[n] = a
        BY <1>1, <3>2
      <4>2. n \in 1 .. i - 1
        BY <1>1, <2>2
      <4> QED BY <1>8, <4>1, <4>2
    <3>3. CASE a \in added
      <4>1. PICK j \in 1 .. m : s[j] = a
        BY <1>6, <3>3
      <4>2. j < i - k
        BY <1>4, <1>11, <3>1, <4>1
      <4>3. k + j \in 1 .. i - 1 /\ r[k + j] = a
        BY <1>1, <1>8, <2>2, <4>1, <4>2
      <4> QED BY <4>3
    <3> QED BY <1>5, <1>11, <3>1, <3>2, <3>3
  <2> QED BY <1>9, <2>1, <2>2
<1>12. ToSet(r) = inBlock \cup added
  <2>1. DOMAIN r = 1 .. k + m
    BY <1>1, <1>6, <1>8
  <2>2. ToSet(r) = {r[i] : i \in 1 .. k + m}
    BY <2>1 DEF ToSet
  <2>3. \A i \in 1 .. k + m : r[i] \in inBlock \cup added
    BY <1>1, <1>6, <1>8, <1>9
  <2>4. \A a \in inBlock : \E i \in 1 .. k + m : r[i] = a
    <3>1. \A i \in 1 .. k : i \in 1 .. k + m
      BY <1>1, <1>6
    <3> QED BY <1>1, <1>8, <3>1
  <2>5. \A a \in added : \E i \in 1 .. k + m : r[i] = a
    <3> TAKE a \in added
    <3>1. PICK j \in 1 .. m : s[j] = a
      BY <1>6
    <3>2. r[k + j] = a /\ k + j \in 1 .. k + m
      BY <1>1, <1>6, <1>8, <3>1
    <3> QED BY <3>2
  <2> QED BY <2>2, <2>3, <2>4, <2>5
<1>13. Arranged(r, Pool) /\ Len(r) > k
  BY <1>1, <1>6, <1>7, <1>8, <1>10, <1>11 DEF Arranged
<1> QED BY <1>3, <1>12, <1>13 DEF r, s, added, F

\* Sums without those of a part are the sums of the rest.
LEMMA TotalsShrink ==
  ASSUME NEW S \in SUBSET Txs, NEW T \in SUBSET S, NEW e, NEW exact \in BOOLEAN,
         Totals(e, S, exact)
  PROVE  Totals(Minus(e, T), S \ T, exact)
<1> DEFINE R == S \ T
           size == e.size
           fees == e.fees
           m == Minus(e, T)
<1>1. R \in SUBSET Txs /\ T \in SUBSET Txs /\ R \cap T = {} /\ R \cup T = S
  OBVIOUS
<1>2. /\ size \in Int /\ fees \in Int /\ size >= Sizes(S) /\ fees >= Fees(S)
      /\ exact => size = Sizes(S) /\ fees = Fees(S)
  BY DEF Totals
<1>3. m.size = size - Sizes(T) /\ m.fees = fees - Fees(T)
  BY DEF Minus
<1> HIDE DEF R, size, fees, m
<1>4. /\ Sizes(S) = Sizes(R) + Sizes(T) /\ Fees(S) = Fees(R) + Fees(T)
      /\ Sizes(R) \in Nat /\ Sizes(T) \in Nat /\ Fees(R) \in Nat /\ Fees(T) \in Nat
  BY <1>1, SumsAdd
<1>5. Totals(m, R, exact)
  BY <1>2, <1>3, <1>4 DEF Totals
<1> QED BY <1>5 DEF m, R

\* The sums of the mempool are those of the whole family.
LEMMA TotalsOfAll ==
  ASSUME NEW F \in SUBSET Txs, NEW S \in SUBSET F, NEW exact \in BOOLEAN, exact => S = F
  PROVE  Totals(Sums(F), S, exact)
<1>1. /\ Sizes(S) <= Sizes(F) /\ Fees(S) <= Fees(F) /\ Sizes(F) \in Nat
      /\ Fees(S) \in Nat /\ Fees(F) \in Nat /\ Sizes(S) \in Nat
  BY SumsGrow, FeesAndSizes
<1>2. Sums(F).size = Sizes(F) /\ Sums(F).fees = Fees(F)
  BY DEF Sums
<1> QED BY <1>1, <1>2 DEF Totals

\* UpdatePackagesForAdded has the sums of everything that descends from what was added.
LEMMA PackagesUpdated ==
  ASSUME Pool \subseteq Txs, Arranged(block, Pool),
         Updated(mapModifiedTx, block, failedTx, Pool),
         Untouched(mi, mapModifiedTx, block, failedTx, Pool),
         NEW t \in Pool \ inBlock, NEW q, ToSet(q) = inBlock \cup Family(t, Pool)
  PROVE  Updated(UpdatePackagesForAdded(Family(t, Pool) \ inBlock), q, failedTx, Pool)
<1> DEFINE F == Family(t, Pool)
           added == F \ inBlock
           mm == mapModifiedTx
           updated == Descendants(added, Pool) \ added
           new == UpdatePackagesForAdded(added)
           Left(u) == Family(u, Pool) \ inBlock
<1>1. /\ inBlock \in SUBSET Pool /\ F \in SUBSET Pool /\ added \in SUBSET Pool
      /\ added \cap inBlock = {} /\ ToSet(q) = inBlock \cup added
      /\ \A u \in inBlock : Ancestors(u, Pool) \subseteq inBlock
  BY ArrangedIs, FamilyFacts DEF inBlock
<1> HIDE DEF F
<1>2. \A u \in Pool : u \in updated <=> u \notin added /\ \E x \in added : x \in Ancestors(u, Pool)
  <2> HIDE DEF added
  <2> QED BY <1>1, Relatives
<1>3. updated \in SUBSET Pool /\ updated \cap inBlock = {}
  <2>1. added \in SUBSET Txs
    BY <1>1
  <2>2. updated \in SUBSET Pool
    <3> HIDE DEF added
    <3> QED BY <1>1, <2>1, DescendantFacts
  <2> HIDE DEF added, updated
  <2> QED BY <1>1, <1>2, <2>2
<1>4. /\ DOMAIN new = (DOMAIN mm \cup updated) \ added
      /\ \A u \in DOMAIN new : new[u] = IF u \in updated THEN ModifiedEntry(u, added) ELSE mm[u]
  BY DEF UpdatePackagesForAdded
<1> HIDE DEF added, updated, new
<1>5. /\ DOMAIN mm \subseteq Pool \ inBlock
      /\ \A u \in DOMAIN mm : Totals(mm[u], Left(u), u \notin failedTx)
  BY DEF Updated, inBlock
<1>6. ASSUME NEW u \in updated
      PROVE  Totals(ModifiedEntry(u, added), Family(u, Pool) \ ToSet(q), u \notin failedTx)
  <2> DEFINE e == IF u \in DOMAIN mm THEN mm[u] ELSE MapTx(u)
             T == added \cap Ancestors(u, Pool)
  <2>1. u \in Pool /\ u \notin inBlock /\ u \notin added
    BY <1>2, <1>3
  <2>2. Family(u, Pool) \in SUBSET Txs /\ Ancestors(u, Pool) \subseteq Family(u, Pool)
    BY <2>1, FamilyFacts
  <2>3. Totals(e, Left(u), u \notin failedTx)
    <3>1. CASE u \in DOMAIN mm
      BY <1>5, <3>1
    <3>2. CASE u \notin DOMAIN mm
      <4>1. u \notin failedTx => Left(u) = Family(u, Pool)
        BY <2>1, <3>2 DEF Untouched, Family, inBlock
      <4>2. e = Sums(Family(u, Pool))
        BY <3>2 DEF MapTx, WithAncestors, Family
      <4> QED BY <2>2, <4>1, <4>2, TotalsOfAll
    <3> QED BY <3>1, <3>2
  <2>4. T \in SUBSET Left(u) /\ Left(u) \in SUBSET Txs
    BY <1>1, <2>2
  <2>5. Totals(Minus(e, T), Left(u) \ T, u \notin failedTx)
    <3> HIDE DEF e, T, Left
    <3> QED BY <2>3, <2>4, TotalsShrink
  <2>6. Left(u) \ T = Family(u, Pool) \ ToSet(q)
    BY <1>1, <2>1 DEF Family
  <2> QED BY <2>5, <2>6 DEF ModifiedEntry
<1>7. ASSUME NEW u \in DOMAIN mm, u \notin updated, u \notin added
      PROVE  Left(u) = Family(u, Pool) \ ToSet(q)
  <2>1. u \in Pool /\ added \cap Ancestors(u, Pool) = {}
    BY <1>2, <1>5, <1>7
  <2> QED BY <1>1, <1>7, <2>1 DEF Family
<1>8. DOMAIN new \subseteq Pool \ ToSet(q)
  BY <1>1, <1>3, <1>4, <1>5
<1>9. ASSUME NEW u \in DOMAIN new
      PROVE  Totals(new[u], Family(u, Pool) \ ToSet(q), u \notin failedTx)
  <2>1. CASE u \in updated
    BY <1>4, <1>6, <2>1
  <2>2. CASE u \notin updated
    <3>1. u \in DOMAIN mm /\ u \notin added /\ new[u] = mm[u]
      BY <1>4, <2>2
    <3>2. Totals(mm[u], Left(u), u \notin failedTx)
      BY <1>5, <3>1
    <3>3. Left(u) = Family(u, Pool) \ ToSet(q)
      BY <1>7, <2>2, <3>1
    <3> QED BY <3>1, <3>2, <3>3
  <2> QED BY <2>1, <2>2
<1>10. Updated(new, q, failedTx, Pool)
  BY <1>8, <1>9 DEF Updated
<1> QED BY <1>10 DEF new, added, F

\* What is in none of the sets then has no ancestor in the block still.
LEMMA RestUntouched ==
  ASSUME Pool \subseteq Txs, Arranged(block, Pool), ReservedSize \in Nat, MaxBlockSize \in Nat,
         Untouched(mi, mapModifiedTx, block, failedTx, Pool),
         NEW t \in Pool \ inBlock, NEW q, ToSet(q) = inBlock \cup Family(t, Pool),
         NEW index, \A u \in mi \ {t} : u \in index
  PROVE  Untouched(index, UpdatePackagesForAdded(Family(t, Pool) \ inBlock), q, failedTx, Pool)
<1> DEFINE F == Family(t, Pool)
           added == F \ inBlock
           new == UpdatePackagesForAdded(added)
<1>1. /\ inBlock \in SUBSET Pool /\ F \in SUBSET Pool /\ added \in SUBSET Pool /\ t \in added
      /\ ToSet(q) = inBlock \cup added /\ ToSet(q) \in SUBSET Txs
  BY ArrangedIs, FamilyFacts DEF inBlock
<1> HIDE DEF F
<1>2. DOMAIN new = (DOMAIN mapModifiedTx \cup (Descendants(added, Pool) \ added)) \ added
  BY DEF UpdatePackagesForAdded
<1> HIDE DEF added, new
<1>3. ASSUME NEW u \in Pool \ (ToSet(q) \cup failedTx \cup DOMAIN new)
      PROVE  /\ Ancestors(u, Pool) \cap ToSet(q) = {}
             /\ u \notin index => ReservedSize + Sizes(ToSet(q)) + Sizes(Family(u, Pool)) >= MaxBlockSize
  <2>1. u \notin Descendants(added, Pool) /\ u \notin added /\ u \notin inBlock
        /\ u \notin DOMAIN mapModifiedTx /\ u \notin failedTx
    BY <1>1, <1>2
  <2>2. Ancestors(u, Pool) \cap added = {}
    BY <1>1, <2>1, Relatives
  <2>3. /\ Ancestors(u, Pool) \cap inBlock = {}
        /\ u \notin mi => ReservedSize + Sizes(inBlock) + Sizes(Family(u, Pool)) >= MaxBlockSize
    BY <2>1 DEF Untouched, inBlock
  <2>4. u \notin index => u \notin mi
    BY <1>1, <2>1
  <2>5. /\ Sizes(inBlock) <= Sizes(ToSet(q)) /\ Sizes(inBlock) \in Nat /\ Sizes(ToSet(q)) \in Nat
        /\ Sizes(Family(u, Pool)) \in Nat
    <3>1. inBlock \in SUBSET ToSet(q) /\ Family(u, Pool) \in SUBSET Txs
      BY <1>1, FamilyFacts
    <3> QED BY <1>1, <3>1, SumsGrow, FeesAndSizes
  <2> QED BY <1>1, <2>2, <2>3, <2>4, <2>5
<1>4. Untouched(index, new, q, failedTx, Pool)
  BY <1>3 DEF Untouched
<1> QED BY <1>4 DEF new, added, F

\* What is no better than something too cheap is too cheap.
LEMMA Cheaper ==
  ASSUME NEW a \in Nat, NEW b \in Nat, NEW c \in Nat, NEW d \in Nat, NEW rate \in Nat,
         d > 0, a < rate * b, c * b <= a * d
  PROVE  c < rate * d
<1> SUFFICES ASSUME ~(c < rate * d)
             PROVE  FALSE
  OBVIOUS
<1>1. rate * d \in Nat /\ rate * b \in Nat /\ c * b \in Nat /\ a * d \in Nat
  OBVIOUS
<1>2. rate * d <= c
  BY <1>1
<1>3. (rate * d) * b <= c * b
  BY <1>1, <1>2, ProductGrows
<1>4. (rate * d) * b = (rate * b) * d /\ (rate * b) * d \in Nat
  BY <1>1
<1>5. (rate * b) * d <= a * d
  BY <1>1, <1>3, <1>4
<1>6. rate * b <= a
  BY <1>1, <1>5, ProductGrows
<1> QED BY <1>1, <1>6

\* The score of a package: if the package is too cheap the score is, and if the score is too
\* cheap the package is or the transaction by itself.
LEMMA RateFacts ==
  ASSUME NEW t \in Txs, NEW e, e.size \in Nat, e.size > 0, e.fees \in Nat, BlockMinFeeRate \in Nat
  PROVE  /\ Rate(t, e).size \in Nat /\ Rate(t, e).size > 0 /\ Rate(t, e).fees \in Nat
         /\ e.fees < BlockMinFeeRate * e.size =>
              Rate(t, e).fees < BlockMinFeeRate * Rate(t, e).size
         /\ Rate(t, e).fees < BlockMinFeeRate * Rate(t, e).size =>
              e.fees < BlockMinFeeRate * e.size \/ Fee[t] < BlockMinFeeRate * Size[t]
<1> DEFINE own == Sums({t})
           size == e.size
           fees == e.fees
<1>1. own.size = Size[t] /\ own.fees = Fee[t] /\ Size[t] \in Nat /\ Size[t] > 0 /\ Fee[t] \in Nat
  <2>1. Size[t] \in Nat /\ Size[t] > 0 /\ Fee[t] \in Nat
    BY TxAssumption
  <2>2. Sizes({t}) = Size[t] /\ Fees({t}) = Fee[t]
    <3>1. IsFiniteSet({t}) /\ {t} \ {t} = {} /\ IsFiniteSet({})
      BY FS_Singleton, FS_EmptySet
    <3>2. \A x \in {t} : Size[x] \in Int /\ Fee[x] \in Int
      BY <2>1
    <3>3. /\ SumFunctionOnSet(Size, {t}) = Size[t] + SumFunctionOnSet(Size, {t} \ {t})
          /\ SumFunctionOnSet(Fee, {t}) = Fee[t] + SumFunctionOnSet(Fee, {t} \ {t})
      BY <3>1, <3>2, SumOut
    <3>4. SumFunctionOnSet(Size, {}) = 0 /\ SumFunctionOnSet(Fee, {}) = 0
      BY <3>1, SumOut
    <3> QED BY <2>1, <3>1, <3>3, <3>4 DEF Sizes, Fees
  <2> QED BY <2>1, <2>2 DEF Sums
<1>2. Rate(t, e) = IF Fee[t] * size > fees * Size[t] THEN e ELSE own
  BY DEF Rate
<1> HIDE DEF own
<1>3. CASE Fee[t] * size > fees * Size[t]
  BY <1>2, <1>3
<1>4. CASE ~(Fee[t] * size > fees * Size[t])
  <2>1. Rate(t, e) = own /\ size \in Nat /\ fees \in Nat /\ size > 0
    BY <1>2, <1>4
  <2> HIDE DEF size, fees
  <2>2. Fee[t] * size <= fees * Size[t]
    BY <1>1, <1>4, <2>1
  <2>3. fees < BlockMinFeeRate * size => Fee[t] < BlockMinFeeRate * Size[t]
    BY <1>1, <2>1, <2>2, Cheaper
  <2> QED BY <1>1, <2>1, <2>3 DEF size, fees
<1> QED BY <1>3, <1>4

\* Totals of what is left of a family are sums that can be compared.
LEMMA TotalsAre ==
  ASSUME NEW P \in SUBSET Txs, NEW t \in P, NEW S, t \notin S, NEW e, NEW exact \in BOOLEAN,
         Totals(e, Family(t, P) \ S, exact)
  PROVE  e.size \in Nat /\ e.size > 0 /\ e.fees \in Nat
<1> DEFINE L == Family(t, P) \ S
<1>1. L \in SUBSET Txs /\ L # {}
  BY FamilyFacts
<1> HIDE DEF L
<1>2. Sizes(L) \in Nat /\ Sizes(L) > 0 /\ Fees(L) \in Nat
  BY <1>1, FeesAndSizes
<1> DEFINE size == e.size
           fees == e.fees
<1>3. size \in Int /\ fees \in Int /\ size >= Sizes(L) /\ fees >= Fees(L)
  BY DEF Totals, L
<1> HIDE DEF size, fees
<1>4. size \in Nat /\ size > 0 /\ fees \in Nat
  BY <1>2, <1>3
<1> QED BY <1>4 DEF size, fees

\* When the best package is too cheap, so is every other, by itself or with its ancestors.
LEMMA BestTooCheap ==
  ASSUME Pool \subseteq Txs, Arranged(block, Pool),
         Updated(mapModifiedTx, block, failedTx, Pool),
         Untouched(mi, mapModifiedTx, block, failedTx, Pool),
         NEW t \in Pool \ inBlock, NEW e, NEW exact \in BOOLEAN,
         Totals(e, Family(t, Pool) \ inBlock, exact),
         Best(t, e), e.fees < BlockMinFeeRate * e.size
  PROVE  Maximal(block, failedTx, Pool)
<1>0. BlockMinFeeRate \in Nat /\ ReservedSize \in Nat /\ MaxBlockSize \in Nat
  BY BlockAssumption
<1> SUFFICES ASSUME NEW u \in Pool \ (inBlock \cup failedTx)
             PROVE  LET rest == Family(u, Pool) \ inBlock IN
                    \/ Fees(rest) < BlockMinFeeRate * Sizes(rest) \/ Fee[u] < BlockMinFeeRate * Size[u]
                    \/ ReservedSize + Sizes(inBlock) + Sizes(rest) >= MaxBlockSize
  BY DEF Maximal, inBlock
<1> DEFINE rest == Family(u, Pool) \ inBlock
           r == Rate(t, e)
<1>1. r.size \in Nat /\ r.size > 0 /\ r.fees \in Nat /\ r.fees < BlockMinFeeRate * r.size
  <2>1. e.size \in Nat /\ e.size > 0 /\ e.fees \in Nat
    BY TotalsAre
  <2> QED BY <1>0, <2>1, RateFacts
<1>2. ASSUME NEW f, Totals(f, rest, TRUE), AtLeast(t, e, u, f)
      PROVE  Fees(rest) < BlockMinFeeRate * Sizes(rest) \/ Fee[u] < BlockMinFeeRate * Size[u]
  <2> DEFINE s == Rate(u, f)
  <2>1. f.size \in Nat /\ f.size > 0 /\ f.fees \in Nat
    BY <1>2, TotalsAre
  <2>2. /\ s.size \in Nat /\ s.size > 0 /\ s.fees \in Nat
        /\ s.fees < BlockMinFeeRate * s.size =>
              f.fees < BlockMinFeeRate * f.size \/ Fee[u] < BlockMinFeeRate * Size[u]
    BY <1>0, <2>1, RateFacts
  <2>3. r.fees * s.size >= s.fees * r.size
    BY <1>2 DEF AtLeast
  <2>4. f.size = Sizes(rest) /\ f.fees = Fees(rest)
    BY <1>2 DEF Totals
  <2> DEFINE a == r.fees
             b == r.size
             c == s.fees
             d == s.size
  <2>5. /\ a \in Nat /\ b \in Nat /\ c \in Nat /\ d \in Nat /\ d > 0 /\ a < BlockMinFeeRate * b
        /\ c * b <= a * d
    <3>1. a \in Nat /\ b \in Nat /\ c \in Nat /\ d \in Nat /\ a * d >= c * b
      BY <1>1, <2>2, <2>3
    <3>2. a * d \in Nat /\ c * b \in Nat
      BY <3>1
    <3> HIDE DEF r, s
    <3> QED BY <1>1, <2>2, <3>1, <3>2
  <2>6. c < BlockMinFeeRate * d
    <3> HIDE DEF a, b, c, d
    <3> QED BY <1>0, <2>5, Cheaper
  <2> QED BY <2>2, <2>4, <2>6
<1>3. CASE u \in DOMAIN mapModifiedTx
  <2>1. Totals(mapModifiedTx[u], rest, TRUE)
    <3>1. u \notin failedTx
      OBVIOUS
    <3> QED BY <1>3, <3>1 DEF Updated, inBlock
  <2>2. AtLeast(t, e, u, mapModifiedTx[u])
    BY <1>3 DEF Best
  <2> QED BY <1>2, <2>1, <2>2
<1>4. CASE u \notin DOMAIN mapModifiedTx
  <2>1. /\ Ancestors(u, Pool) \cap inBlock = {}
        /\ u \notin mi => ReservedSize + Sizes(inBlock) + Sizes(Family(u, Pool)) >= MaxBlockSize
    BY <1>4 DEF Untouched, inBlock
  <2>2. rest = Family(u, Pool)
    BY <2>1 DEF Family
  <2>3. CASE u \notin mi
    BY <2>1, <2>2, <2>3
  <2>4. CASE u \in mi
    <3>1. u \in Fresh
      BY <1>4, <2>4 DEF Fresh
    <3>2. AtLeast(t, e, u, MapTx(u))
      BY <3>1 DEF Best
    <3>3. Totals(MapTx(u), rest, TRUE)
      <4>1. MapTx(u) = Sums(Family(u, Pool))
        BY DEF MapTx, WithAncestors, Family
      <4>2. Family(u, Pool) \in SUBSET Txs
        BY FamilyFacts
      <4> QED BY <2>2, <4>1, <4>2, TotalsOfAll
    <3> QED BY <1>2, <3>2, <3>3
  <2> QED BY <2>3, <2>4
<1> QED BY <1>3, <1>4

\* The entries are ready, so TestPackageTransactions never fails.
LEMMA PackagesAreFinal ==
  ASSUME MempoolInv, LocksInv, ~Reorganising
  PROVE  \A t \in Pool : t \in Txs \ Coinbases /\ LocksRunOut(t)
BY PoolIs, ReadyIs DEF LocksInv, Pool

\* One pass of the loop.
LEMMA EvaluateKeeps ==
  ASSUME MempoolInv, LocksInv, AssemblyInv, pc = "assemble", UNCHANGED pool,
         NEW t, NEW e, NEW usingModified \in BOOLEAN,
         IF usingModified THEN t \in DOMAIN mapModifiedTx /\ e = mapModifiedTx[t] /\ mi' = mi
         ELSE t \in Fresh /\ e = MapTx(t) /\ mi' = mi \ {t},
         Best(t, e), Evaluate(t, e, usingModified)
  PROVE  /\ AssemblyInv' /\ t \in Pool \ inBlock
         /\ \/ pc' = "assemble" => block' = block /\ mapModifiedTx' =
                 IF usingModified THEN Without(mapModifiedTx, {t}) ELSE mapModifiedTx
            \/ Len(block') > Len(block)
<1>0. /\ Pool \subseteq Txs /\ Pool' = Pool /\ ReservedSize \in Nat /\ MaxBlockSize \in Nat
      /\ nConsecutiveFailed \in Nat /\ mi \subseteq Pool
      /\ Arranged(block, Pool) /\ Fits(block)
      /\ Updated(mapModifiedTx, block, failedTx, Pool)
      /\ Untouched(mi, mapModifiedTx, block, failedTx, Pool)
  BY PoolIs, BlockAssumption DEF AssemblyInv, Assembling, Pool
<1>1. t \in Pool \ inBlock /\ Totals(e, Family(t, Pool) \ inBlock, t \notin failedTx)
  <2>1. CASE usingModified
    BY <1>0, <2>1 DEF Updated, inBlock
  <2>2. CASE ~usingModified
    <3>1. /\ t \in Pool /\ t \notin DOMAIN mapModifiedTx /\ t \notin inBlock /\ t \notin failedTx
          /\ e = Sums(Family(t, Pool))
      BY <1>0, <2>2 DEF Fresh, MapTx, WithAncestors, Family
    <3>2. Family(t, Pool) \ inBlock = Family(t, Pool)
      BY <1>0, <3>1 DEF Untouched, Family, inBlock
    <3>3. Family(t, Pool) \in SUBSET Txs
      BY <1>0, <3>1, FamilyFacts
    <3> QED BY <3>1, <3>2, <3>3, TotalsOfAll
  <2> QED BY <2>1, <2>2
<1>2. e.size \in Nat /\ e.size > 0 /\ e.fees \in Nat
  <2>1. (t \notin failedTx) \in BOOLEAN
    OBVIOUS
  <2> QED BY <1>0, <1>1, <2>1, TotalsAre
<1>3. mi' \subseteq Pool /\ \A u \in mi \ {t} : u \in mi'
  BY <1>0
<1>4. CASE /\ e.fees < BlockMinFeeRate * e.size /\ pc' = "template"
           /\ UNCHANGED <<mapModifiedTx, failedTx, block, nConsecutiveFailed>>
  <2>1. Maximal(block, failedTx, Pool)
    BY <1>0, <1>1, <1>4, BestTooCheap
  <2> QED BY <1>0, <1>1, <1>3, <1>4, <2>1 DEF AssemblyInv
<1>5. CASE /\ EraseFailed(t, usingModified) /\ ~TestPackage(e.size)
           /\ nConsecutiveFailed' = nConsecutiveFailed + 1 /\ block' = block
           /\ pc' = IF nConsecutiveFailed' > MaxConsecutiveFailures /\ nBlockSize > MaxBlockSize - NearlyFull
                    THEN "template" ELSE "assemble"
  <2>1. ReservedSize + Sizes(inBlock) + e.size >= MaxBlockSize
    <3>1. ~(ReservedSize + Sizes(inBlock) + e.size < MaxBlockSize)
      BY <1>5 DEF TestPackage, nBlockSize
    <3>2. inBlock \in SUBSET Txs
      BY <1>0, ArrangedIs DEF inBlock
    <3>3. Sizes(inBlock) \in Nat
      BY <3>2, FeesAndSizes
    <3> QED BY <1>0, <1>2, <3>1, <3>3
  <2>0. /\ nConsecutiveFailed' \in Nat
        /\ pc' = "template" => ~(nConsecutiveFailed' <= MaxConsecutiveFailures)
    <3>1. nConsecutiveFailed' \in Nat /\ MaxConsecutiveFailures \in Nat
      BY <1>0, <1>5, BlockAssumption
    <3> QED BY <1>5, <3>1
  <2>2. CASE usingModified
    <3>1. /\ mi' = mi /\ failedTx' = failedTx \cup {t} /\ mapModifiedTx' = Without(mapModifiedTx, {t})
      BY <1>5, <2>2 DEF EraseFailed
    <3>2. /\ DOMAIN mapModifiedTx' = DOMAIN mapModifiedTx \ {t}
          /\ \A u \in DOMAIN mapModifiedTx' : mapModifiedTx'[u] = mapModifiedTx[u]
      BY <3>1 DEF Without, Restrict
    <3>3. Updated(mapModifiedTx', block, failedTx', Pool)
      BY <1>0, <3>1, <3>2 DEF Updated
    <3>4. Untouched(mi', mapModifiedTx', block, failedTx', Pool)
      BY <1>0, <3>1, <3>2 DEF Untouched
    <3>5. AssemblyInv'
      BY <1>0, <1>3, <1>5, <2>0, <3>3, <3>4 DEF AssemblyInv
    <3> QED BY <1>1, <1>5, <2>2, <3>1, <3>5
  <2>3. CASE ~usingModified
    <3>1. mi' = mi \ {t} /\ failedTx' = failedTx /\ mapModifiedTx' = mapModifiedTx
      BY <1>5, <2>3 DEF EraseFailed
    <3>2. e.size = Sizes(Family(t, Pool))
      BY <2>3 DEF MapTx, WithAncestors, Family, Sums
    <3>3. Untouched(mi', mapModifiedTx, block, failedTx, Pool)
      BY <1>0, <2>1, <3>1, <3>2 DEF Untouched, inBlock
    <3>4. AssemblyInv'
      BY <1>0, <1>3, <1>5, <2>0, <3>1, <3>3 DEF AssemblyInv
    <3> QED BY <1>1, <1>5, <2>3, <3>1, <3>4
  <2> QED BY <2>2, <2>3
<1>6. CASE TestPackage(e.size) /\ AddPackage(t)
  <2> DEFINE added == Family(t, Pool) \ inBlock
             q == block \o SortForBlock(added)
  <2>1. /\ block' = q /\ mapModifiedTx' = UpdatePackagesForAdded(added)
        /\ nConsecutiveFailed' = 0 /\ pc' = "assemble" /\ failedTx' = failedTx
    BY <1>6 DEF AddPackage, onlyUnconfirmed, WithAncestors, Family
  <2>2. /\ Arranged(q, Pool) /\ ToSet(q) = inBlock \cup Family(t, Pool) /\ Len(q) > Len(block)
    BY <1>0, <1>1, PackageIsArranged
  <2> HIDE DEF q
  <2>3. Updated(UpdatePackagesForAdded(added), q, failedTx, Pool)
    BY <1>0, <1>1, <2>2, PackagesUpdated
  <2>4. Untouched(mi', UpdatePackagesForAdded(added), q, failedTx, Pool)
    BY <1>0, <1>1, <1>3, <2>2, RestUntouched
  <2>5. Fits(q)
    <3>1. /\ inBlock \in SUBSET Txs /\ added \in SUBSET Txs /\ inBlock \cap added = {}
          /\ ToSet(q) = inBlock \cup added
      BY <1>0, <1>1, <2>2, ArrangedIs, FamilyFacts DEF inBlock
    <3>2. e.size >= Sizes(added)
      BY <1>1 DEF Totals
    <3>3. ReservedSize + Sizes(inBlock) + e.size < MaxBlockSize
      BY <1>6 DEF TestPackage, nBlockSize
    <3> HIDE DEF added
    <3>4. /\ Sizes(ToSet(q)) = Sizes(inBlock) + Sizes(added)
          /\ Sizes(inBlock) \in Nat /\ Sizes(added) \in Nat
      BY <3>1, SumsAdd
    <3>5. ReservedSize + Sizes(ToSet(q)) <= MaxBlockSize
      BY <1>0, <1>2, <3>2, <3>3, <3>4
    <3> QED BY <3>5 DEF Fits
  <2> QED BY <1>0, <1>1, <1>3, <2>1, <2>2, <2>3, <2>4, <2>5 DEF AssemblyInv
<1>7. \A S \in SUBSET Pool : TestPackageTransactions(S)
  BY PackagesAreFinal DEF TestPackageTransactions, LocksRunOut, Reorganising
<1>8. onlyUnconfirmed(WithAncestors(t)) \in SUBSET Pool
  BY <1>0, <1>1, FamilyFacts DEF onlyUnconfirmed, WithAncestors, Family
<1> QED BY <1>1, <1>4, <1>5, <1>6, <1>7, <1>8 DEF Evaluate, Goto

\* The mempool's own steps are none of the assembler's.
LEMMA MempoolLabels ==
  ASSUME Next
  PROVE  ~Assembling /\ ~Assembling'
<1> DEFINE own == {"assemble", "template"}
<1>1. CASE Continue
  BY <1>1 DEF Continue, PackageTx, AcceptPackage, PackageReturn, ReAddTx, FinishUpdate, Goto, Assembling
<1>2. CASE (\E t \in Txs : AcceptToMemoryPool(t)) \/ (\E p \in Packages : ProcessNewPackage(p)) \/ MinFeeDecays
  BY <1>2 DEF AcceptToMemoryPool, ProcessNewPackage, MinFeeDecays, Goto, Assembling
<1>3. CASE DisconnectTip \/ \E b \in Blocks : ConnectTip(b)
  BY <1>3 DEF DisconnectTip, ConnectTip, Goto, Assembling
<1>4. CASE \E fAdd \in BOOLEAN : MaybeUpdateMempoolForReorg(fAdd)
  BY <1>4 DEF MaybeUpdateMempoolForReorg, Goto, Assembling
<1> QED BY <1>1, <1>2, <1>3, <1>4 DEF Next

\* A block is begun empty.
LEMMA CreateNewBlockKeeps ==
  ASSUME MempoolInv, CreateNewBlock, UNCHANGED pool
  PROVE  AssemblyInv'
<1> DEFINE none == [t \in {} |-> 0]
<1>1. /\ mi' = Pool /\ Pool' = Pool /\ mapModifiedTx' = none /\ failedTx' = {} /\ block' = <<>>
      /\ nConsecutiveFailed' = 0 /\ pc' = "assemble"
  BY DEF CreateNewBlock, Goto, Pool
<1>2. DOMAIN none = {} /\ ToSet(<<>>) = {} /\ Len(<<>>) = 0 /\ 1 .. 0 = {} /\ <<>> \in Seq(Pool)
  BY OutsOfNothing
<1> HIDE DEF none
<1>3. Arranged(<<>>, Pool)
  BY <1>2 DEF Arranged
<1>4. Fits(<<>>)
  <2>1. Sizes({}) = 0
    <3>1. IsFiniteSet({})
      BY FS_EmptySet
    <3> QED BY <3>1, SumOut DEF Sizes
  <2>2. Sizes(ToSet(<<>>)) = 0
    BY <1>2, <2>1
  <2>3. ReservedSize + 0 <= MaxBlockSize
    BY BlockAssumption
  <2> QED BY <2>2, <2>3, Zenon DEF Fits
<1>5. Updated(none, <<>>, {}, Pool) /\ Untouched(Pool, none, <<>>, {}, Pool)
  BY <1>2 DEF Updated, Untouched
<1> QED BY <1>1, <1>3, <1>4, <1>5 DEF AssemblyInv

\* With nothing left to look at, nothing was left out that fits.
LEMMA NothingLeftKeeps ==
  ASSUME MempoolInv, AssemblyInv, NothingLeft, UNCHANGED pool
  PROVE  AssemblyInv'
<1>1. /\ pc = "assemble" /\ Fresh = {} /\ DOMAIN mapModifiedTx = {} /\ Pool' = Pool
      /\ pc' = "template" /\ UNCHANGED <<mi, mapModifiedTx, failedTx, block, nConsecutiveFailed>>
  BY DEF NothingLeft, Goto, Pool, asmVars
<1>2. Maximal(block, failedTx, Pool)
  <2> SUFFICES ASSUME NEW t \in Pool \ (ToSet(block) \cup failedTx)
               PROVE  ReservedSize + Sizes(ToSet(block)) + Sizes(Family(t, Pool) \ ToSet(block))
                        >= MaxBlockSize
    BY DEF Maximal
  <2>1. t \notin mi
    BY <1>1 DEF Fresh, inBlock
  <2>2. /\ Ancestors(t, Pool) \cap ToSet(block) = {}
        /\ ReservedSize + Sizes(ToSet(block)) + Sizes(Family(t, Pool)) >= MaxBlockSize
    BY <1>1, <2>1 DEF AssemblyInv, Assembling, Untouched
  <2>3. Family(t, Pool) \ ToSet(block) = Family(t, Pool)
    BY <2>2 DEF Family
  <2> QED BY <2>2, <2>3
<1> QED BY <1>1, <1>2 DEF AssemblyInv, Assembling

\* Every step keeps the invariant of the assembler.
LEMMA AssemblyStep ==
  ASSUME MempoolInv, LocksInv, AssemblyInv, [AssemblerNext]_<<vars, asmVars>>
  PROVE  AssemblyInv'
<1>1. CASE Next
  BY <1>1, MempoolLabels DEF AssemblyInv
<1>2. CASE (CreateNewBlock \/ addPackageTxs) /\ UNCHANGED <<tip, pool, minFee, reorgVars, pkg>>
  <2>1. CASE CreateNewBlock
    BY <1>2, <2>1, CreateNewBlockKeeps
  <2>2. CASE EvaluateModified
    <3>1. PICK t \in DOMAIN mapModifiedTx :
            Best(t, mapModifiedTx[t]) /\ Evaluate(t, mapModifiedTx[t], TRUE)
      BY <2>2 DEF EvaluateModified
    <3>2. pc = "assemble" /\ mi' = mi
      BY <2>2 DEF EvaluateModified
    <3> QED BY <1>2, <3>1, <3>2, EvaluateKeeps
  <2>3. CASE EvaluateMapTx
    <3>1. PICK t \in Fresh : Best(t, MapTx(t)) /\ Evaluate(t, MapTx(t), FALSE) /\ mi' = mi \ {t}
      BY <2>3 DEF EvaluateMapTx
    <3>2. pc = "assemble"
      BY <2>3 DEF EvaluateMapTx
    <3> QED BY <1>2, <3>1, <3>2, EvaluateKeeps
  <2>4. CASE NothingLeft
    BY <1>2, <2>4, NothingLeftKeeps
  <2>5. CASE ReturnTemplate
    BY <2>5 DEF ReturnTemplate, Goto, AssemblyInv, Assembling
  <2> QED BY <1>2, <2>1, <2>2, <2>3, <2>4, <2>5 DEF addPackageTxs
<1>3. CASE UNCHANGED <<vars, asmVars>>
  BY <1>3 DEF vars, asmVars, AssemblyInv, Assembling, Pool
<1> QED BY <1>1, <1>2, <1>3 DEF AssemblerNext

\* So it is an invariant.
LEMMA AssemblyHolds == AssemblerSpec => []AssemblyInv
<1>1. AssemblerInit => AssemblyInv
  BY DEF AssemblerInit, Init, AssemblyInv, Assembling
<1>2. MempoolInv /\ LocksInv /\ AssemblyInv /\ [AssemblerNext]_<<vars, asmVars>> => AssemblyInv'
  BY AssemblyStep
<1> QED BY <1>1, <1>2, InvHolds, LocksHold, PTL DEF AssemblerSpec

\* A template passes TestBlockValidity on the tip, whatever the mempool has been through:
\* addPackageTxs and SortForBlock put every transaction after those it spends from, no two
\* of them spend the same coin, and the locks of all of them have run out.
THEOREM TemplatesAreValid == AssemblerSpec => []TemplateValid
<1>1. ASSUME MempoolInv, LocksInv, AssemblyInv
      PROVE  TemplateValid
  <2> SUFFICES ASSUME pc = "template"
               PROVE  /\ \A i \in DOMAIN block :
                           /\ Spends[block[i]] \subseteq
                                DOMAIN CoinsTip \cup UNION {Creates[block[n]] : n \in 1 .. i - 1}
                           /\ \A n \in 1 .. i - 1 : Spends[block[n]] \cap Spends[block[i]] = {}
                           /\ LocksRunOut(block[i])
                      /\ nBlockSize <= MaxBlockSize
    BY DEF TemplateValid, LocksRunOut
  <2>1. Arranged(block, Pool) /\ Fits(block) /\ ~Reorganising
    BY <1>1 DEF AssemblyInv, Assembling, Reorganising
  <2>2. Sourced(Pool, DOMAIN CoinsTip) /\ Pool \subseteq Txs /\ OnceSpent(Pool)
    BY <1>1, <2>1, PoolIs DEF Pool, MempoolInv, Sound
  <2>3. /\ DOMAIN block = 1 .. Len(block) /\ Len(block) \in Nat
        /\ \A i \in 1 .. Len(block) : block[i] \in Pool
    BY <2>1, <2>2, ArrangedIs
  <2>4. ASSUME NEW i \in 1 .. Len(block), NEW o \in Spends[block[i]], o \notin DOMAIN CoinsTip
        PROVE  \E n \in 1 .. i - 1 : o \in Creates[block[n]]
    <3>1. PICK p \in Pool : o \in Creates[p]
      BY <2>2, <2>3, <2>4 DEF Sourced, Outs
    <3>2. p \in Parents({block[i]}, Pool)
      BY <2>4, <3>1 DEF Parents
    <3>3. p \in Ancestors(block[i], Pool)
      BY <2>2, <2>3, <3>2, AncestorFacts
    <3> QED BY <2>1, <3>1, <3>3 DEF Arranged
  <2>5. ASSUME NEW i \in 1 .. Len(block), NEW n \in 1 .. i - 1
        PROVE  Spends[block[n]] \cap Spends[block[i]] = {}
    <3>1. n \in 1 .. Len(block) /\ n # i
      BY <2>3
    <3>2. block[n] # block[i]
      BY <2>1, <3>1 DEF Arranged
    <3> QED BY <2>2, <2>3, <3>1, <3>2 DEF OnceSpent
  <2>6. \A i \in 1 .. Len(block) : LocksRunOut(block[i])
    BY <1>1, <2>1, <2>3, PackagesAreFinal
  <2>7. nBlockSize <= MaxBlockSize
    BY <2>1 DEF Fits, nBlockSize, inBlock
  <2> QED BY <2>3, <2>4, <2>5, <2>6, <2>7
<1> QED BY <1>1, InvHolds, LocksHold, AssemblyHolds, PTL

\* A template leaves nothing out that fits and pays, unless the search was given up or the
\* transaction had failed: the sums of mapModifiedTx stay those of what is left to take, and
\* an entry that has left the index is in the block or did not fit.
THEOREM TemplatesAreMaximal == AssemblerSpec => []TemplateMaximal
<1>1. ASSUME MempoolInv, AssemblyInv
      PROVE  TemplateMaximal
  <2> SUFFICES ASSUME pc = "template", nConsecutiveFailed <= MaxConsecutiveFailures,
                      NEW t \in Pool \ (inBlock \cup failedTx)
               PROVE  LET rest == WithAncestors(t) \ inBlock IN
                      \/ Fees(rest) < BlockMinFeeRate * Sizes(rest)
                      \/ Fee[t] < BlockMinFeeRate * Size[t]
                      \/ ~TestPackage(Sizes(rest))
    BY DEF TemplateMaximal
  <2> DEFINE rest == Family(t, Pool) \ inBlock
  <2>1. WithAncestors(t) \ inBlock = rest
    BY DEF WithAncestors, Family
  <2>2. \/ Fees(rest) < BlockMinFeeRate * Sizes(rest) \/ Fee[t] < BlockMinFeeRate * Size[t]
        \/ ReservedSize + Sizes(inBlock) + Sizes(rest) >= MaxBlockSize
    BY <1>1 DEF AssemblyInv, Assembling, Maximal, inBlock
  <2>3. ReservedSize \in Nat /\ MaxBlockSize \in Nat /\ Sizes(inBlock) \in Nat /\ Sizes(rest) \in Nat
    <3>1. Pool \subseteq Txs
      BY <1>1, PoolIs DEF Pool
    <3>2. inBlock \in SUBSET Txs /\ rest \in SUBSET Txs
      BY <1>1, <3>1, ArrangedIs, FamilyFacts DEF AssemblyInv, Assembling, inBlock
    <3> HIDE DEF rest
    <3> QED BY <3>2, FeesAndSizes, BlockAssumption
  <2> HIDE DEF rest
  <2>4. ReservedSize + Sizes(inBlock) + Sizes(rest) >= MaxBlockSize => ~TestPackage(Sizes(rest))
    BY <2>3 DEF TestPackage, nBlockSize
  <2> QED BY <2>1, <2>2, <2>4, Zenon
<1> QED BY <1>1, InvHolds, AssemblyHolds, PTL

\* Every pass of the loop adds to the block or leaves less to look at, so it ends.
THEOREM LoopGoesOn == AssemblerSpec => LoopProgresses
<1> DEFINE Progress == pc = "assemble" /\ pc' = "assemble" =>
             \/ Len(block') > Len(block)
             \/ /\ block' = block
                /\ Cardinality(mi') + Cardinality(DOMAIN mapModifiedTx')
                     < Cardinality(mi) + Cardinality(DOMAIN mapModifiedTx)
<1>1. ASSUME MempoolInv, LocksInv, AssemblyInv, AssemblerNext
      PROVE  Progress
  <2> SUFFICES ASSUME pc = "assemble", pc' = "assemble"
               PROVE  \/ Len(block') > Len(block)
                      \/ /\ block' = block
                         /\ Cardinality(mi') + Cardinality(DOMAIN mapModifiedTx')
                              < Cardinality(mi) + Cardinality(DOMAIN mapModifiedTx)
    OBVIOUS
  <2>1. (EvaluateModified \/ EvaluateMapTx) /\ UNCHANGED pool
    BY <1>1, MempoolLabels DEF AssemblerNext, addPackageTxs, CreateNewBlock, NothingLeft,
       ReturnTemplate, Goto, Assembling
  <2>2. /\ IsFiniteSet(mi) /\ IsFiniteSet(DOMAIN mapModifiedTx)
        /\ Cardinality(mi) \in Nat /\ Cardinality(DOMAIN mapModifiedTx) \in Nat
    <3>1. mi \subseteq Txs /\ DOMAIN mapModifiedTx \subseteq Txs
      BY <1>1, PoolIs DEF AssemblyInv, Assembling, Updated, Pool
    <3> QED BY <3>1, TxAssumption, FS_Subset, FS_CardinalityType
  <2>3. CASE EvaluateModified
    <3>1. PICK t \in DOMAIN mapModifiedTx :
            Best(t, mapModifiedTx[t]) /\ Evaluate(t, mapModifiedTx[t], TRUE)
      BY <2>3 DEF EvaluateModified
    <3>2. mi' = mi
      BY <2>3 DEF EvaluateModified
    <3>3. \/ block' = block /\ mapModifiedTx' = Without(mapModifiedTx, {t})
          \/ Len(block') > Len(block)
      BY <1>1, <2>1, <3>1, <3>2, EvaluateKeeps
    <3>4. DOMAIN Without(mapModifiedTx, {t}) = DOMAIN mapModifiedTx \ {t}
      BY DEF Without, Restrict
    <3>5. Cardinality(DOMAIN mapModifiedTx \ {t}) = Cardinality(DOMAIN mapModifiedTx) - 1
      BY <2>2, FS_RemoveElement
    <3> QED BY <2>2, <3>2, <3>3, <3>4, <3>5
  <2>4. CASE EvaluateMapTx
    <3>1. PICK t \in Fresh : Best(t, MapTx(t)) /\ Evaluate(t, MapTx(t), FALSE) /\ mi' = mi \ {t}
      BY <2>4 DEF EvaluateMapTx
    <3>2. \/ block' = block /\ mapModifiedTx' = mapModifiedTx
          \/ Len(block') > Len(block)
      BY <1>1, <2>1, <3>1, EvaluateKeeps
    <3>3. Cardinality(mi \ {t}) = Cardinality(mi) - 1
      <4>1. t \in mi
        BY DEF Fresh
      <4> QED BY <2>2, <4>1, FS_RemoveElement
    <3> QED BY <2>2, <3>1, <3>2, <3>3
  <2> QED BY <2>1, <2>3, <2>4
<1>2. UNCHANGED <<vars, asmVars>> \/ ~UNCHANGED <<vars, asmVars>>
  OBVIOUS
<1>3. MempoolInv /\ LocksInv /\ AssemblyInv /\ [AssemblerNext]_<<vars, asmVars>>
        => [Progress]_<<vars, asmVars>>
  BY <1>1
<1> HIDE DEF Progress
<1>4. AssemblerSpec => [][Progress]_<<vars, asmVars>>
  BY <1>3, InvHolds, LocksHold, AssemblyHolds, PTL DEF AssemblerSpec
<1> QED BY <1>4 DEF LoopProgresses, Progress

-----------------------------------------------------------------------------
(* Ancestors as the pool loses and gains transactions. *)

\* A smaller pool has fewer ancestors.
LEMMA AncestorsShrink ==
  ASSUME NEW P \in SUBSET Txs, NEW Q \in SUBSET P, NEW t \in Txs
  PROVE  Ancestors(t, Q) \subseteq Ancestors(t, P)
<1> DEFINE Z == Ancestors(t, P)
<1>1. Parents({t}, P) \subseteq Z /\ Parents(Z, P) \subseteq Z /\ Z \in SUBSET Txs
  BY AncestorFacts
<1>2. Parents({t}, Q) \subseteq Z /\ Parents(Z, Q) \subseteq Z
  BY <1>1 DEF Parents
<1> HIDE DEF Z
<1>3. Q \in SUBSET Txs
  OBVIOUS
<1> QED BY <1>1, <1>2, <1>3, AncestorFacts DEF Z

\* What is left has all its ancestors still when what leaves does so with its descendants.
LEMMA AncestorsStay ==
  ASSUME NEW P \in SUBSET Txs, NEW D, ClosedIn(D, P), NEW t \in P \ D
  PROVE  Ancestors(t, P) \subseteq P \ D /\ Ancestors(t, P \ D) = Ancestors(t, P)
<1> DEFINE Q == P \ D
           Y == Ancestors(t, Q)
<1>1. Q \in SUBSET P /\ Q \in SUBSET Txs
  OBVIOUS
<1>2. \A S \in SUBSET Q : Parents(S, P) \subseteq Q
  BY DEF ClosedIn, Children, Parents
<1>3. {t} \in SUBSET Q
  OBVIOUS
<1> HIDE DEF Q
<1>4. Ancestors(t, P) \subseteq Q
  BY <1>1, <1>2, <1>3, AncestorFacts
<1>5. Y \in SUBSET Q /\ Parents({t}, Q) \subseteq Y /\ Parents(Y, Q) \subseteq Y
  BY <1>1, AncestorFacts
<1>6. \A S \in SUBSET Q : Parents(S, P) \subseteq Parents(S, Q)
  BY <1>2 DEF Parents
<1>7. Ancestors(t, P) \subseteq Y
  <2>1. Parents({t}, P) \subseteq Y /\ Parents(Y, P) \subseteq Y /\ Y \in SUBSET Txs
    BY <1>1, <1>3, <1>5, <1>6
  <2> HIDE DEF Y
  <2> QED BY <2>1, AncestorFacts
<1>8. Y \subseteq Ancestors(t, P)
  BY <1>1, AncestorsShrink
<1> QED BY <1>4, <1>7, <1>8 DEF Q

\* New transactions that are no ancestors change nothing.
LEMMA AncestorsWithout ==
  ASSUME NEW P \in SUBSET Txs, NEW N \in SUBSET Txs, NEW t \in Txs,
         Ancestors(t, P \cup N) \cap N = {}
  PROVE  Ancestors(t, P \cup N) \subseteq Ancestors(t, P)
<1> DEFINE R == P \cup N
           Z == Ancestors(t, P)
           X == Ancestors(t, R)
<1>1. R \in SUBSET Txs /\ P \in SUBSET R
  OBVIOUS
<1>2. /\ Parents({t}, R) \subseteq X /\ Parents(X, R) \subseteq X /\ X \cap N = {}
      /\ Parents({t}, P) \subseteq Z /\ Parents(Z, P) \subseteq Z /\ Z \in SUBSET Txs
  BY <1>1, AncestorFacts
<1>3. Z \subseteq X
  BY <1>1, AncestorsShrink
<1> HIDE DEF Z, X
<1>4. Parents({t}, R) \subseteq Z /\ Parents(Z, R) \subseteq Z
  BY <1>2, <1>3 DEF Parents
<1> HIDE DEF R
<1> QED BY <1>1, <1>2, <1>4, AncestorFacts DEF Z, X, R

\* What nobody spends from is nobody's ancestor.
LEMMA NobodysAncestor ==
  ASSUME NEW P \in SUBSET Txs, NEW N \in SUBSET Txs, Children(N, P) = {}, NEW t \in P \ N
  PROVE  Ancestors(t, P \cup N) \cap N = {}
<1> DEFINE R == P \cup N
<1>1. R \in SUBSET Txs /\ N \in SUBSET R /\ t \in R
  OBVIOUS
<1>2. Children(N, R) \subseteq N
  BY DEF Children
<1> HIDE DEF R
<1>3. Descendants(N, R) \subseteq N
  BY <1>1, <1>2, DescendantFacts
<1>4. t \notin Descendants(N, R)
  BY <1>3
<1>5. \A x \in N : x \notin Ancestors(t, R)
  BY <1>1, <1>4, Relatives
<1> QED BY <1>5 DEF R

\* What is neither confirmed nor in a pool that fits the tip has no children in it.
LEMMA NothingBelow ==
  ASSUME NEW b \in Blocks, NEW P \in SUBSET Txs, Sourced(P, DOMAIN CoinsAt[b]),
         NEW N \in SUBSET Txs, N \cap P = {}, N \cap ConfirmedAt[b] = {}
  PROVE  Children(N, P) = {}
<1> SUFFICES ASSUME NEW c \in P, NEW t \in N, NEW o \in Creates[t] \cap Spends[c]
             PROVE  FALSE
  BY DEF Children
<1>1. o \in DOMAIN CoinsAt[b] \cup Outs(P)
  BY DEF Sourced
<1>2. DOMAIN CoinsAt[b] \subseteq Outs(ConfirmedAt[b]) /\ ConfirmedAt[b] \subseteq Txs
  BY CoinsAre, ConfirmedIs
<1>3. PICK u \in ConfirmedAt[b] \cup P : o \in Creates[u]
  BY <1>1, <1>2 DEF Outs
<1>4. u # t /\ u \in Txs /\ t \in Txs
  BY <1>2
<1> QED BY <1>3, <1>4, TxAssumption

-----------------------------------------------------------------------------
(* The limits. *)

MaxCount == Max({AncestorLimit, 2})
Few(t, P) == Cardinality(Ancestors(t, P)) + 1 <= MaxCount

\* Only what descends from what a reorganisation has brought back may have too many ancestors.
FewBut(P, V) == \A t \in P : t \in V \/ Ancestors(t, P) \cap V = {} => Few(t, P)

\* What was brought back spends coins and what was brought back.
BroughtBack(P, V, coins) == \A t \in V \cap P : Spends[t] \subseteq coins \cup Outs(V \cap P)

\* What waits to be brought back does not spend from what had come before it.
Waiting(q, P, V) == \A t \in ToSet(q) : Parents({t}, P \ V) = {}

LimitsInv ==
  /\ pc \notin {"package", "reorg", "update"} => Sizes(DOMAIN pool) <= MaxPoolSize
  /\ pc # "update" => vHashUpdate = {}
  /\ FewBut(DOMAIN pool, vHashUpdate)
  /\ BroughtBack(DOMAIN pool, vHashUpdate, DOMAIN CoinsTip)
  /\ Waiting(disconnectpool, DOMAIN pool, vHashUpdate)

\* Both limits on the number of ancestors are within it.
LEMMA MaxCountIs ==
  MaxCount \in Nat /\ AncestorLimit <= MaxCount /\ 2 <= MaxCount /\ AncestorLimit \in Nat
<1> DEFINE S == {AncestorLimit, 2}
<1>1. S \in SUBSET Nat /\ S # {} /\ AncestorLimit \in S /\ 2 \in S /\ AncestorLimit \in Nat
  BY PolicyAssumption
<1>2. IsFiniteSet(S)
  <2>1. IsFiniteSet({AncestorLimit}) /\ S = {AncestorLimit} \cup {2}
    BY FS_Singleton
  <2>2. IsFiniteSet({AncestorLimit} \cup {2})
    BY <2>1, FS_AddElement
  <2> QED BY <2>1, <2>2
<1> HIDE DEF S
<1>3. Max(S) \in S /\ \A x \in S : x <= Max(S)
  BY <1>1, <1>2, MaxOfFinite
<1> QED BY <1>1, <1>3 DEF MaxCount, S

\* Fewer ancestors are few.
LEMMA FewKept ==
  ASSUME NEW P \in SUBSET Txs, NEW Q \in SUBSET Txs, NEW t \in Txs,
         Ancestors(t, Q) \subseteq Ancestors(t, P)
  PROVE  /\ Cardinality(Ancestors(t, Q)) \in Nat /\ Cardinality(Ancestors(t, P)) \in Nat
         /\ Cardinality(Ancestors(t, Q)) <= Cardinality(Ancestors(t, P))
         /\ Few(t, P) => Few(t, Q)
<1> DEFINE X == Ancestors(t, Q)
           Y == Ancestors(t, P)
<1>1. Y \subseteq Txs /\ X \subseteq Y
  BY AncestorFacts
<1> HIDE DEF X, Y
<1>2. IsFiniteSet(Y)
  BY <1>1, TxAssumption, FS_Subset
<1>3. Cardinality(X) <= Cardinality(Y) /\ Cardinality(X) \in Nat /\ Cardinality(Y) \in Nat
  BY <1>1, <1>2, FS_Subset, FS_CardinalityType
<1>4. Cardinality(Y) + 1 <= MaxCount => Cardinality(X) + 1 <= MaxCount
  BY <1>3, MaxCountIs
<1> QED BY <1>3, <1>4 DEF X, Y, Few

\* Transactions leave with their descendants.
LEMMA LimitsWithout ==
  ASSUME NEW P \in SUBSET Txs, NEW V \in SUBSET Txs, NEW coins, NEW q,
         FewBut(P, V), BroughtBack(P, V, coins), Waiting(q, P, V),
         NEW D, ClosedIn(D, P)
  PROVE  FewBut(P \ D, V) /\ BroughtBack(P \ D, V, coins) /\ Waiting(q, P \ D, V)
<1> DEFINE Q == P \ D
<1>1. Q \in SUBSET P /\ Q \in SUBSET Txs
  OBVIOUS
<1>2. ASSUME NEW t \in Q, t \in V \/ Ancestors(t, Q) \cap V = {}
      PROVE  Few(t, Q)
  <2>1. Ancestors(t, Q) = Ancestors(t, P) /\ t \in P /\ t \in Txs
    BY AncestorsStay
  <2>2. Few(t, P)
    <3> HIDE DEF Q
    <3> QED BY <1>2, <2>1 DEF FewBut
  <2> QED BY <2>1, <2>2 DEF Few
<1>3. ASSUME NEW t \in V \cap Q, NEW o \in Spends[t], o \notin coins
      PROVE  o \in Outs(V \cap Q)
  <2>1. PICK p \in V \cap P : o \in Creates[p]
    BY <1>3 DEF BroughtBack, Outs
  <2>2. p \notin D
    BY <1>3, <2>1 DEF ClosedIn, Children
  <2> QED BY <2>1, <2>2 DEF Outs
<1>4. Waiting(q, Q, V)
  BY DEF Waiting, Parents
<1>5. FewBut(Q, V) /\ BroughtBack(Q, V, coins)
  BY <1>2, <1>3 DEF FewBut, BroughtBack
<1> QED BY <1>4, <1>5

\* With nothing brought back there is only the number of ancestors, whatever leaves.
LEMMA LimitsAtRest ==
  ASSUME NEW P \in SUBSET Txs
  PROVE  /\ FewBut(P, {}) <=> \A t \in P : Few(t, P)
         /\ \A coins : BroughtBack(P, {}, coins)
         /\ \A Q \in SUBSET P : FewBut(P, {}) => FewBut(Q, {})
<1>1. ASSUME NEW Q \in SUBSET P
      PROVE  FewBut(Q, {}) <=> \A t \in Q : Few(t, Q)
  BY DEF FewBut
<1>2. ASSUME NEW Q \in SUBSET P, NEW t \in Q, Few(t, P)
      PROVE  Few(t, Q)
  BY <1>2, AncestorsShrink, FewKept
<1> QED BY <1>1, <1>2 DEF BroughtBack

\* What passes PreChecks has few ancestors.
LEMMA PassedHasFew ==
  ASSUME NEW t \in Txs, DOMAIN pool \subseteq Txs, NEW args, NEW extra,
         PreChecks(t, args, extra) = "valid"
  PROVE  Few(t, DOMAIN pool)
<1> DEFINE n == Cardinality(Ancestors(t, DOMAIN pool))
<1>1. WithinLimits(t)
  BY DEF PreChecks
<1>2. n + 1 <= AncestorLimit \/ n + 1 <= 2
  BY <1>1 DEF WithinLimits, CalculateMemPoolAncestors
<1>3. n \in Nat
  BY FewKept
<1> HIDE DEF n
<1>4. n + 1 <= MaxCount
  BY <1>2, <1>3, MaxCountIs
<1> QED BY <1>4 DEF Few, n

\* A transaction that comes in, after its conflicts left, has the ancestors it was checked with.
LEMMA NewHasFew ==
  ASSUME NEW P \in SUBSET Txs, NEW D, NEW t \in Txs, Few(t, P)
  PROVE  Few(t, (P \ D) \cup {t})
<1> DEFINE Q == P \ D
           R == Q \cup {t}
<1>1. Q \in SUBSET Txs /\ R \in SUBSET Txs /\ {t} \in SUBSET Txs /\ Q \in SUBSET P
  OBVIOUS
<1>2. Ancestors(t, R) \cap {t} = {}
  <2> HIDE DEF R
  <2> QED BY <1>1, NoCircle
<1> HIDE DEF Q
<1>3. Ancestors(t, R) \subseteq Ancestors(t, Q) /\ Ancestors(t, Q) \subseteq Ancestors(t, P)
  BY <1>1, <1>2, AncestorsWithout, AncestorsShrink
<1> QED BY <1>1, <1>3, FewKept DEF Q

\* What Finalize leaves.
LEMMA FinalizeIs ==
  ASSUME DOMAIN pool \subseteq Txs, NEW t \in Txs, NEW args, NEW extra,
         PreChecks(t, args, extra) = "valid"
  PROVE  /\ DOMAIN Finalize(t) = (DOMAIN pool \ AllConflicting(t)) \cup {t}
         /\ ClosedIn(AllConflicting(t), DOMAIN pool)
         /\ Parents({t}, DOMAIN pool) \cap AllConflicting(t) = {}
         /\ t \notin DOMAIN pool
<1> DEFINE P == DOMAIN pool
           K == Conflicts(t)
           D == AllConflicting(t)
<1>1. P \in SUBSET Txs /\ K \in SUBSET P /\ K \in SUBSET Txs /\ D = Descendants(K, P)
  BY DEF Conflicts, AllConflicting
<1>2. t \notin P /\ Ancestors(t, P) \cap K = {}
  BY PreChecksPassed
<1> HIDE DEF K, D
<1>3. ClosedIn(D, P)
  BY <1>1, DescendantFacts DEF ClosedIn
<1>4. Ancestors(t, P) \cap D = {} /\ Parents({t}, P) \subseteq Ancestors(t, P)
  BY <1>1, <1>2, NoAncestorBelow, AncestorFacts
<1>5. DOMAIN Finalize(t) = (P \ D) \cup {t}
  BY DEF Finalize, With, Without, Restrict, D
<1> QED BY <1>2, <1>3, <1>4, <1>5 DEF D

\* Without a reorganisation, nothing in the pool descends from what comes in.
LEMMA FewAfterFinalize ==
  ASSUME DOMAIN pool \subseteq Txs, tip \in Blocks, DOMAIN pool \cap ConfirmedAt[tip] = {},
         Sourced(DOMAIN pool, DOMAIN CoinsTip), FewBut(DOMAIN pool, {}),
         NEW t \in Txs, NEW args, NEW extra, extra \subseteq DOMAIN CoinsTip,
         PreChecks(t, args, extra) = "valid"
  PROVE  FewBut(DOMAIN Finalize(t), {}) /\ DOMAIN Finalize(t) \subseteq Txs
<1> DEFINE P == DOMAIN pool
           D == AllConflicting(t)
           Q == P \ D
           R == Q \cup {t}
<1>1. DOMAIN Finalize(t) = R /\ t \notin P
  BY FinalizeIs
<1>2. Few(t, R)
  BY PassedHasFew, NewHasFew
<1>3. t \notin ConfirmedAt[tip]
  <2>1. /\ t \notin Coinbases
        /\ Spends[t] \subseteq extra \cup DOMAIN CoinsTip \cup Outs(DOMAIN pool)
    BY PreChecksPassed
  <2>2. Spends[t] \subseteq DOMAIN CoinsAt[tip] \cup Outs(DOMAIN pool)
    BY <2>1 DEF CoinsTip
  <2> QED BY <2>1, <2>2, NotConfirmed
<1>4. Children({t}, P) = {}
  <2>1. {t} \in SUBSET Txs /\ {t} \cap P = {} /\ {t} \cap ConfirmedAt[tip] = {}
    BY <1>1, <1>3
  <2> QED BY <2>1, NothingBelow DEF CoinsTip
<1> HIDE DEF D
<1>5. ASSUME NEW u \in Q
      PROVE  Few(u, R)
  <2>1. Q \in SUBSET Txs /\ Q \in SUBSET P /\ {t} \in SUBSET Txs /\ Children({t}, Q) = {} /\ u \in Q \ {t}
        /\ u \in P
    BY <1>1, <1>4 DEF Children
  <2>2. Few(u, P)
    BY <2>1 DEF FewBut
  <2> HIDE DEF Q
  <2>3. Ancestors(u, R) \cap {t} = {}
    BY <2>1, NobodysAncestor
  <2>4. Ancestors(u, R) \subseteq Ancestors(u, Q) /\ Ancestors(u, Q) \subseteq Ancestors(u, P)
    BY <2>1, <2>3, AncestorsWithout, AncestorsShrink
  <2>5. R \in SUBSET Txs /\ u \in Txs
    BY <2>1
  <2> HIDE DEF R
  <2> QED BY <2>2, <2>4, <2>5, FewKept
<1>6. FewBut(R, {}) /\ R \subseteq Txs
  BY <1>2, <1>5 DEF FewBut
<1> QED BY <1>1, <1>6

\* A transaction that comes back in a reorganisation may have descendants in the pool.
LEMMA LimitsAfterReAdd ==
  ASSUME DOMAIN pool \subseteq Txs, tip \in Blocks, DOMAIN pool \cap ConfirmedAt[tip] = {},
         NEW V \in SUBSET Txs, NEW q, FewBut(DOMAIN pool, V),
         BroughtBack(DOMAIN pool, V, DOMAIN CoinsTip), Waiting(q, DOMAIN pool, V),
         NEW t \in Txs, t \in ToSet(q), NEW args, PreChecks(t, args, {}) = "valid"
  PROVE  /\ FewBut(DOMAIN Finalize(t), V \cup {t})
         /\ BroughtBack(DOMAIN Finalize(t), V \cup {t}, DOMAIN CoinsTip)
         /\ Waiting(q, DOMAIN Finalize(t), V \cup {t})
<1> DEFINE P == DOMAIN pool
           D == AllConflicting(t)
           Q == P \ D
           R == Q \cup {t}
           W == V \cup {t}
           coins == DOMAIN CoinsTip
<1>1. /\ DOMAIN Finalize(t) = R /\ t \notin P /\ ClosedIn(D, P) /\ Parents({t}, P) \cap D = {}
  BY FinalizeIs
<1>2. Few(t, R)
  BY PassedHasFew, NewHasFew
<1>3. Spends[t] \subseteq coins \cup Outs(P) /\ t \notin Coinbases
  BY PreChecksPassed
<1>4. coins \subseteq Outs(ConfirmedAt[tip]) /\ ConfirmedAt[tip] \subseteq Txs
  BY CoinsAre, ConfirmedIs DEF CoinsTip
<1>5. Creates[t] \cap coins = {}
  <2>1. t \notin ConfirmedAt[tip]
    BY <1>3, NotConfirmed DEF CoinsTip
  <2> QED BY <1>4, <2>1, TxAssumption DEF Outs
<1> HIDE DEF D, coins
<1>6. /\ P \in SUBSET Txs /\ Q \in SUBSET P /\ Q \in SUBSET Txs /\ {t} \in SUBSET Txs /\ R \in SUBSET Txs
      /\ t \notin Q
  BY <1>1
<1>7. FewBut(Q, V) /\ BroughtBack(Q, V, coins) /\ Waiting(q, Q, V)
  BY <1>1, LimitsWithout DEF coins
<1>8. ASSUME NEW u \in Q, t \notin Ancestors(u, R)
      PROVE  Ancestors(u, R) = Ancestors(u, Q)
  <2>1. Ancestors(u, R) \cap {t} = {} /\ Q \in SUBSET R /\ u \in Txs
    BY <1>6, <1>8
  <2> HIDE DEF Q
  <2>2. Ancestors(u, Q \cup {t}) \subseteq Ancestors(u, Q)
    BY <1>6, <2>1, AncestorsWithout
  <2> HIDE DEF R
  <2>3. Ancestors(u, Q) \subseteq Ancestors(u, R)
    BY <1>6, <2>1, AncestorsShrink
  <2> QED BY <2>2, <2>3 DEF R
<1>9. Spends[t] \subseteq coins \cup Outs(V \cap Q)
  <2> SUFFICES ASSUME NEW o \in Spends[t], o \notin coins
               PROVE  o \in Outs(V \cap Q)
    OBVIOUS
  <2>1. PICK p \in P : o \in Creates[p]
    BY <1>3 DEF Outs
  <2>2. p \in Parents({t}, P)
    BY <2>1 DEF Parents
  <2>3. p \in V
    BY <2>1 DEF Waiting, Parents
  <2> QED BY <1>1, <2>1, <2>2, <2>3 DEF Outs
<1>10. BroughtBack(R, W, coins)
  <2>1. V \cap Q \subseteq W \cap R
    OBVIOUS
  <2>2. Outs(V \cap Q) \subseteq Outs(W \cap R)
    BY <2>1 DEF Outs
  <2>3. \A u \in W \cap R : u = t \/ u \in V \cap Q
    OBVIOUS
  <2> QED BY <1>7, <1>9, <2>2, <2>3 DEF BroughtBack
<1>11. Waiting(q, R, W)
  <2>1. R \ W \subseteq Q \ V
    OBVIOUS
  <2> QED BY <1>7, <2>1 DEF Waiting, Parents
<1>12. ASSUME NEW u \in V \cap Q
       PROVE  t \notin Ancestors(u, R)
  <2> DEFINE Z == V \cap Q
  <2>1. ASSUME NEW z \in Z, NEW p \in R, NEW o \in Creates[p] \cap Spends[z]
        PROVE  p \in Z
    <3>1. o \in coins \cup Outs(Z)
      BY <1>7 DEF BroughtBack
    <3>2. CASE o \in Outs(Z)
      <4>1. PICK y \in Z : o \in Creates[y]
        BY <3>2 DEF Outs
      <4>2. y \in Txs /\ p \in Txs
        BY <1>6
      <4> QED BY <4>1, <4>2, TxAssumption
    <3>3. CASE o \in coins
      <4>1. PICK c \in ConfirmedAt[tip] : o \in Creates[c]
        BY <1>4, <3>3 DEF Outs
      <4>2. c \in Txs /\ p \in Txs
        BY <1>4, <1>6
      <4>3. p = c
        BY <4>1, <4>2, TxAssumption
      <4>4. p \in Q
        BY <1>5, <3>3
      <4> QED BY <1>6, <4>1, <4>3, <4>4
    <3> QED BY <3>1, <3>2, <3>3
  <2>2. Z \in SUBSET Txs /\ Parents({u}, R) \subseteq Z /\ Parents(Z, R) \subseteq Z /\ t \notin Z
    BY <1>6, <2>1 DEF Parents
  <2> HIDE DEF Z
  <2>3. Ancestors(u, R) \subseteq Z
    <3> HIDE DEF R
    <3>1. u \in Txs
      BY <1>6
    <3> QED BY <1>6, <2>2, <3>1, AncestorFacts
  <2> QED BY <2>2, <2>3
<1>13. ASSUME NEW u \in Q, u \in W \/ Ancestors(u, R) \cap W = {}
       PROVE  Few(u, R)
  <2>1. t \notin Ancestors(u, R)
    BY <1>6, <1>12, <1>13
  <2>2. Ancestors(u, R) = Ancestors(u, Q)
    BY <1>8, <2>1
  <2>3. Few(u, Q)
    <3>1. u \in V \/ Ancestors(u, Q) \cap V = {}
      BY <1>6, <1>13, <2>2
    <3> HIDE DEF Q
    <3> QED BY <1>7, <3>1 DEF FewBut
  <2> QED BY <2>2, <2>3 DEF Few
<1>14. FewBut(R, W)
  BY <1>2, <1>13 DEF FewBut
<1> HIDE DEF R
<1> QED BY <1>1, <1>10, <1>11, <1>14 DEF coins

\* What LimitMempoolSize leaves has its size, and is nothing new.
LEMMA LimitFits ==
  ASSUME NEW entries, DOMAIN entries \subseteq Txs, minFee \in Nat, NEW fresh,
         LimitMempoolSize(entries, fresh)
  PROVE  Sizes(DOMAIN pool') <= MaxPoolSize /\ DOMAIN pool' \subseteq DOMAIN entries
<1>1. PICK gone \in SUBSET DOMAIN entries :
        Kept(pool', entries) /\ DOMAIN pool' = TrimToSize(DOMAIN entries \ gone).kept
  BY LimitKept
<1>2. DOMAIN entries \ gone \in SUBSET Txs
  OBVIOUS
<1> QED BY <1>1, <1>2, TrimmedFits DEF Kept

-----------------------------------------------------------------------------
(* Packages within their limits. *)

\* What is in one of two sets is counted with one of them.
LEMMA CountedWith ==
  ASSUME NEW Y \in SUBSET Txs, NEW N \in SUBSET Txs, NEW X, X \subseteq Y \cup N
  PROVE  /\ Cardinality(X) \in Nat /\ Cardinality(Y) \in Nat /\ Cardinality(N) \in Nat
         /\ Cardinality(X) <= Cardinality(Y) + Cardinality(N)
<1>1. /\ IsFiniteSet(Y) /\ IsFiniteSet(N) /\ IsFiniteSet(Y \cup N) /\ IsFiniteSet(Y \cap N)
      /\ IsFiniteSet(X)
  <2>1. Y \cup N \in SUBSET Txs /\ Y \cap N \in SUBSET Txs /\ X \in SUBSET Txs
    OBVIOUS
  <2> QED BY <2>1, TxAssumption, FS_Subset
<1>2. Cardinality(Y \cup N) = Cardinality(Y) + Cardinality(N) - Cardinality(Y \cap N)
  BY <1>1, FS_Union
<1>3. Cardinality(X) <= Cardinality(Y \cup N)
  BY <1>1, FS_Subset
<1>4. /\ Cardinality(X) \in Nat /\ Cardinality(Y) \in Nat /\ Cardinality(N) \in Nat
      /\ Cardinality(Y \cup N) \in Nat /\ Cardinality(Y \cap N) \in Nat
  BY <1>1, FS_CardinalityType
<1> QED BY <1>2, <1>3, <1>4

\* The first k of a sequence are no more than k.
LEMMA FirstOnes ==
  ASSUME NEW e \in Seq(Txs), NEW k \in 0 .. Len(e)
  PROVE  {e[j] : j \in 1 .. k} \in SUBSET Txs /\ Cardinality({e[j] : j \in 1 .. k}) <= k
<1> DEFINE n == Len(e)
           F(m) == {e[j] : j \in 1 .. m}
           Good == {m \in Nat : m <= n => F(m) \in SUBSET Txs /\ Cardinality(F(m)) <= m}
<1>0. n \in Nat /\ \A j \in 1 .. n : e[j] \in Txs
  OBVIOUS
<1>1. 0 \in Good
  <2>1. F(0) = {}
    OBVIOUS
  <2>2. Cardinality({}) = 0
    BY FS_EmptySet
  <2>3. F(0) \in SUBSET Txs /\ Cardinality(F(0)) <= 0
    BY <2>1, <2>2
  <2> HIDE DEF F
  <2> QED BY <2>3
<1>2. ASSUME NEW m \in Nat, m \in Good
      PROVE  m + 1 \in Good
  <2> SUFFICES ASSUME m + 1 <= n
               PROVE  F(m + 1) \in SUBSET Txs /\ Cardinality(F(m + 1)) <= m + 1
    OBVIOUS
  <2> DEFINE x == e[m + 1]
             f == F(m)
  <2>1. f \in SUBSET Txs /\ Cardinality(f) <= m
    BY <1>0, <1>2
  <2>2. F(m + 1) = f \cup {x} /\ x \in Txs
    <3>1. \A j \in 1 .. m + 1 : j \in 1 .. m \/ j = m + 1
      OBVIOUS
    <3>2. 1 .. m \subseteq 1 .. m + 1 /\ m + 1 \in 1 .. m + 1 /\ m + 1 \in 1 .. n
      BY <1>0
    <3> QED BY <1>0, <3>1, <3>2
  <2> HIDE DEF f, x, F
  <2>3. IsFiniteSet(f) /\ Cardinality(f) \in Nat
    BY <2>1, TxAssumption, FS_Subset, FS_CardinalityType
  <2>4. Cardinality(f \cup {x}) = Cardinality(f) \/ Cardinality(f \cup {x}) = Cardinality(f) + 1
    BY <2>3, FS_AddElement
  <2>5. Cardinality(f \cup {x}) <= m + 1
    BY <2>1, <2>3, <2>4
  <2> QED BY <2>1, <2>2, <2>5
<1>3. k \in Good
  <2> HIDE DEF Good
  <2>1. Nat \subseteq Good
    BY <1>1, <1>2, UpByOne
  <2> QED BY <1>0, <2>1
<1> QED BY <1>0, <1>3

\* All that the transactions of S descend from in P.
Above(S, P) == UNION {Ancestors(t, P) : t \in S}

\* With some of a package in the pool, one of it descends from these and what they descend from.
LEMMA AncestorsInPackage ==
  ASSUME NEW P \in SUBSET Txs, NEW S \in SUBSET Txs, NEW N \in SUBSET S, NEW t \in S
  PROVE  Ancestors(t, P \cup N) \subseteq Above(S, P) \cup N /\ Above(S, P) \in SUBSET P
<1> DEFINE R == P \cup N
           A == Above(S, P)
           Z == A \cup N
<1>1. \A x \in S : /\ Parents({x}, P) \subseteq Ancestors(x, P) /\ Ancestors(x, P) \subseteq P
                   /\ Parents(Ancestors(x, P), P) \subseteq Ancestors(x, P)
  BY AncestorFacts
<1>2. A \in SUBSET P /\ Z \in SUBSET Txs /\ R \in SUBSET Txs
  BY <1>1 DEF Above
<1>3. \A x \in S : Parents({x}, R) \subseteq Z
  BY <1>1 DEF Parents, Above
<1>4. ASSUME NEW z \in Z, NEW p \in R, Creates[p] \cap Spends[z] # {}
      PROVE  p \in Z
  <2>1. CASE z \in N
    BY <1>3, <1>4, <2>1 DEF Parents
  <2>2. CASE z \in A
    <3>1. PICK x \in S : z \in Ancestors(x, P)
      BY <2>2 DEF Above
    <3>2. CASE p \in P
      <4>1. p \in Parents(Ancestors(x, P), P)
        BY <1>4, <3>1, <3>2 DEF Parents
      <4> QED BY <1>1, <4>1 DEF Above
    <3> QED BY <3>2
  <2> QED BY <2>1, <2>2
<1>5. Parents(Z, R) \subseteq Z
  BY <1>4 DEF Parents
<1> HIDE DEF Z, R
<1>6. Ancestors(t, R) \subseteq Z
  BY <1>2, <1>3, <1>5, AncestorFacts
<1> QED BY <1>2, <1>6 DEF Z, R

\* And from an entry descends, besides, only what descended from it.
LEMMA DescendantsInPackage ==
  ASSUME NEW P \in SUBSET Txs, NEW N \in SUBSET Txs, Children(N, P) = {}, NEW a \in P \cup N
  PROVE  IF a \in N THEN Descendants({a}, P \cup N) \subseteq N
         ELSE Descendants({a}, P \cup N) \subseteq Descendants({a}, P) \cup N
              /\ Descendants({a}, P) \subseteq P
<1> DEFINE R == P \cup N
           E == Descendants({a}, P)
<1>1. R \in SUBSET Txs /\ {a} \in SUBSET Txs /\ Children(N, R) \subseteq N
  BY DEF Children
<1>2. CASE a \in N
  <2>1. {a} \subseteq N
    BY <1>2
  <2> HIDE DEF R
  <2>2. Descendants({a}, R) \subseteq N
    BY <1>1, <2>1, DescendantFacts
  <2> QED BY <1>2, <2>2 DEF R
<1>3. CASE a \notin N
  <2> DEFINE Z == E \cup N
  <2>1. a \in P /\ {a} \subseteq E /\ E \subseteq {a} \cup P /\ Children(E, P) \subseteq E
    BY <1>1, <1>3, DescendantFacts
  <2> HIDE DEF E
  <2>2. Children(Z, R) \subseteq Z
    <3>1. Children(Z, R) \subseteq Children(E, P) \cup Children(N, P) \cup N
      BY DEF Children
    <3> QED BY <2>1, <3>1
  <2>3. {a} \subseteq Z /\ Z \in SUBSET Txs
    BY <2>1
  <2> HIDE DEF Z, R
  <2>4. Descendants({a}, R) \subseteq Z
    BY <1>1, <2>2, <2>3, DescendantFacts
  <2> QED BY <1>3, <2>1, <2>4 DEF Z, R, E
<1> QED BY <1>2, <1>3

\* A package that passed its checks: new to the pool, the chain and the entries; and counted
\* with all it descends from it keeps the limits.
LEMMA PackageIs ==
  ASSUME Trying, MempoolInv, LocksInv, ~Reorganising, PackageAccepted(pkg.eval)
  PROVE  LET P == DOMAIN pool
             e == pkg.eval
             S == ToSet(e)
             A == Above(S, P)
         IN  /\ e \in Seq(Txs) /\ Len(e) \in Nat /\ S = {e[j] : j \in 1 .. Len(e)}
             /\ P \in SUBSET Txs /\ S \in SUBSET Txs /\ S \cap P = {} /\ Children(S, P) = {}
             /\ Cardinality(A) + Len(e) <= AncestorLimit /\ Len(e) <= DescendantLimit
             /\ \A a \in A : Cardinality(Descendants({a}, P)) + Len(e) <= DescendantLimit
<1> DEFINE P == DOMAIN pool
           e == pkg.eval
           S == ToSet(e)
<1>1. e \in Seq(Txs)
  BY DEF Trying, PackageLocals
<1>2. tip \in Blocks /\ P \in SUBSET Txs /\ P \cap ConfirmedAt[tip] = {} /\ Sourced(P, DOMAIN CoinsAt[tip])
  BY PoolIs DEF LocksInv, CoinsTip
<1>3. Grown(With(pool, S), pool)
  BY <1>2, PackageGrows
<1>4. \A t \in S : t \in DOMAIN With(pool, S)
  BY DEF With
<1>5. \A i \in 1 .. Len(e) : PreChecks(e[i], PackageChildWithParents,
                 pkg.view \cup UNION {Creates[e[j]] : j \in 1 .. i - 1}) = "valid"
  BY DEF PackageAccepted
<1>6. PackageMempoolChecks(e)
  BY DEF PackageAccepted
<1> HIDE DEF e
<1>7. /\ Len(e) \in Nat /\ DOMAIN e = 1 .. Len(e) /\ \A i \in 1 .. Len(e) : e[i] \in Txs
  BY <1>1
<1>8. S = {e[j] : j \in 1 .. Len(e)} /\ S \in SUBSET Txs
  BY <1>7 DEF ToSet
<1>9. S \cap P = {}
  BY <1>5, <1>7, <1>8, PreChecksPassed
<1>10. S \cap ConfirmedAt[tip] = {}
  BY <1>3, <1>4, <1>9 DEF Grown, Worthy
<1>11. Children(S, P) = {}
  <2> HIDE DEF S
  <2> QED BY <1>2, <1>8, <1>9, <1>10, NothingBelow
<1> QED BY <1>1, <1>2, <1>6, <1>7, <1>8, <1>9, <1>11 DEF PackageMempoolChecks, Above, e

\* Each transaction of a package that is let in finds room, whatever part of the package came
\* before it.
LEMMA RoomForEach ==
  ASSUME Trying, MempoolInv, LocksInv, ~Reorganising, PackageAccepted(pkg.eval),
         NEW i \in 1 .. Len(pkg.eval)
  PROVE  CalculateMemPoolAncestors(pkg.eval[i],
           DOMAIN pool \cup {pkg.eval[j] : j \in 1 .. i - 1}, AncestorLimit, DescendantLimit)
<1> DEFINE P == DOMAIN pool
           e == pkg.eval
           S == ToSet(e)
           A == Above(S, P)
           N == {e[j] : j \in 1 .. i - 1}
           R == P \cup N
           t == e[i]
<1>1. /\ e \in Seq(Txs) /\ Len(e) \in Nat /\ S = {e[j] : j \in 1 .. Len(e)}
      /\ P \in SUBSET Txs /\ S \in SUBSET Txs /\ S \cap P = {} /\ Children(S, P) = {}
      /\ Cardinality(A) + Len(e) <= AncestorLimit /\ Len(e) <= DescendantLimit
      /\ \A a \in A : Cardinality(Descendants({a}, P)) + Len(e) <= DescendantLimit
  BY PackageIs
<1> HIDE DEF S, e, P
<1>2. i \in 1 .. Len(e) /\ i - 1 \in 0 .. Len(e) /\ i \in Nat
  BY <1>1 DEF e
<1>3. N \in SUBSET Txs /\ Cardinality(N) <= i - 1
  BY <1>1, <1>2, FirstOnes
<1>4. t \in S /\ N \subseteq S
  <2>1. 1 .. i - 1 \subseteq 1 .. Len(e)
    BY <1>1, <1>2
  <2> QED BY <1>1, <1>2, <2>1
<1> HIDE DEF N, t
<1>5. Ancestors(t, R) \subseteq A \cup N
  BY <1>1, <1>4, AncestorsInPackage
<1>6. A \in SUBSET Txs
  <2>1. \A x \in S : Ancestors(x, P) \subseteq P
    BY <1>1, AncestorFacts
  <2> QED BY <1>1, <2>1 DEF Above
<1>7. Children(N, P) = {}
  BY <1>1, <1>4 DEF Children
<1>8. AncestorLimit \in Nat /\ DescendantLimit \in Nat
  BY PolicyAssumption
<1> HIDE DEF A
<1>9. Cardinality(Ancestors(t, R)) + 1 <= AncestorLimit
  <2>1. /\ Cardinality(Ancestors(t, R)) \in Nat /\ Cardinality(A) \in Nat /\ Cardinality(N) \in Nat
        /\ Cardinality(Ancestors(t, R)) <= Cardinality(A) + Cardinality(N)
    BY <1>3, <1>5, <1>6, CountedWith
  <2> QED BY <1>1, <1>2, <1>3, <1>8, <2>1
<1>10. ASSUME NEW a \in Ancestors(t, R)
       PROVE  Cardinality(Descendants({a}, R)) + 1 <= DescendantLimit
  <2>1. R \in SUBSET Txs /\ t \in Txs
    BY <1>1, <1>3, <1>4
  <2>2. a \in R
    <3> HIDE DEF R
    <3> QED BY <1>10, <2>1, AncestorFacts
  <2> DEFINE D == Descendants({a}, R)
  <2>3. CASE a \in N
    <3>1. D \subseteq {} \cup N
      BY <1>1, <1>3, <1>7, <2>2, <2>3, DescendantsInPackage
    <3> HIDE DEF D
    <3>2. /\ Cardinality(D) \in Nat /\ Cardinality({}) \in Nat /\ Cardinality(N) \in Nat
          /\ Cardinality(D) <= Cardinality({}) + Cardinality(N)
      <4>1. {} \in SUBSET Txs
        OBVIOUS
      <4> QED BY <1>3, <3>1, <4>1, CountedWith
    <3>3. Cardinality({}) = 0
      BY FS_EmptySet
    <3> QED BY <1>1, <1>2, <1>3, <1>8, <3>2, <3>3 DEF D
  <2>4. CASE a \notin N
    <3> DEFINE E == Descendants({a}, P)
    <3>1. a \in A
      BY <1>5, <1>10, <2>4
    <3>2. D \subseteq E \cup N /\ E \subseteq P
      BY <1>1, <1>3, <1>7, <2>2, <2>4, DescendantsInPackage
    <3>3. Cardinality(E) + Len(e) <= DescendantLimit
      BY <1>1, <3>1
    <3> HIDE DEF D, E
    <3>4. /\ Cardinality(D) \in Nat /\ Cardinality(E) \in Nat /\ Cardinality(N) \in Nat
          /\ Cardinality(D) <= Cardinality(E) + Cardinality(N)
      <4>1. E \in SUBSET Txs
        BY <1>1, <3>2
      <4> QED BY <1>3, <3>2, <4>1, CountedWith
    <3> QED BY <1>1, <1>2, <1>3, <1>8, <3>3, <3>4 DEF D
  <2> QED BY <2>3, <2>4
<1>11. CalculateMemPoolAncestors(t, R, AncestorLimit, DescendantLimit)
  BY <1>9, <1>10 DEF CalculateMemPoolAncestors
<1> QED BY <1>11 DEF t, R, N, P, e

\* When a package has passed its checks, the limits that SubmitPackage recalculates for each
\* transaction of it hold: none of the pool descends from the package, so that what was counted
\* as if all of it descended from all its ancestors was enough.
THEOREM SubmissionFindsRoom == AssemblerSpec => []SubmitFindsRoom
<1>1. ASSUME MempoolInv, LocksInv
      PROVE  SubmitFindsRoom
  <2> SUFFICES ASSUME pc = "package", Len(pkg.eval) > 1, Submitted # {}, NEW i \in 1 .. Len(pkg.eval)
               PROVE  CalculateMemPoolAncestors(pkg.eval[i],
                        DOMAIN pool \cup {pkg.eval[j] : j \in 1 .. i - 1}, AncestorLimit, DescendantLimit)
    BY DEF SubmitFindsRoom
  <2>1. Trying /\ ~Reorganising
    BY <1>1 DEF MempoolInv, Reorganising
  <2>2. ~(pkg.quitEarly \/ pkg.eval = <<>>)
    BY DEF Submitted
  <2>3. Len(pkg.eval) # 1
    <3> DEFINE n == Len(pkg.eval)
    <3>1. pkg.eval \in Seq(Txs)
      BY <2>1 DEF Trying, PackageLocals
    <3>2. n \in Nat /\ n > 1
      BY <3>1
    <3> HIDE DEF n
    <3>3. n # 1
      BY <3>2
    <3> QED BY <3>3 DEF n
  <2>4. PackageAccepted(pkg.eval)
    BY <2>2, <2>3 DEF Submitted
  <2> QED BY <1>1, <2>1, <2>4, RoomForEach
<1> QED BY <1>1, InvHolds, LocksHold, PTL

\* And with all of it in the pool everybody has few ancestors.
LEMMA FewAfterPackage ==
  ASSUME Trying, MempoolInv, LocksInv, ~Reorganising, PackageAccepted(pkg.eval),
         FewBut(DOMAIN pool, {})
  PROVE  /\ FewBut(DOMAIN With(pool, ToSet(pkg.eval)), {})
         /\ DOMAIN With(pool, ToSet(pkg.eval)) \subseteq Txs
<1> DEFINE P == DOMAIN pool
           e == pkg.eval
           S == ToSet(e)
           A == Above(S, P)
           R == P \cup S
<1>1. /\ e \in Seq(Txs) /\ Len(e) \in Nat /\ S = {e[j] : j \in 1 .. Len(e)}
      /\ P \in SUBSET Txs /\ S \in SUBSET Txs /\ S \cap P = {} /\ Children(S, P) = {}
      /\ Cardinality(A) + Len(e) <= AncestorLimit
  BY PackageIs
<1>2. DOMAIN With(pool, S) = R
  BY DEF With
<1>3. \A u \in P : Few(u, P)
  BY DEF FewBut
<1> HIDE DEF S, e, P
<1>4. R \in SUBSET Txs
  BY <1>1
<1>5. Cardinality(S) <= Len(e) /\ Cardinality(S) \in Nat /\ IsFiniteSet(S)
  <2>1. Len(e) \in 0 .. Len(e)
    BY <1>1
  <2> QED BY <1>1, <2>1, FirstOnes, TxAssumption, FS_Subset, FS_CardinalityType
<1>6. A \in SUBSET Txs
  <2>1. \A x \in S : Ancestors(x, P) \subseteq P
    BY <1>1, AncestorFacts
  <2> QED BY <1>1, <2>1 DEF Above
<1> HIDE DEF A
<1>7. ASSUME NEW t \in S
      PROVE  Few(t, R)
  <2> DEFINE X == Ancestors(t, R)
             N == S \ {t}
  <2>1. X \subseteq A \cup S
    <3>1. P \in SUBSET Txs /\ S \in SUBSET Txs /\ S \in SUBSET S
      BY <1>1
    <3> QED BY <3>1, AncestorsInPackage DEF A
  <2>2. t \notin X
    <3> HIDE DEF R
    <3> QED BY <1>1, <1>4, NoCircle
  <2> HIDE DEF X
  <2>3. X \subseteq A \cup N /\ N \in SUBSET Txs
    BY <1>1, <2>1, <2>2
  <2>4. Cardinality(N) = Cardinality(S) - 1
    BY <1>5, FS_RemoveElement
  <2> HIDE DEF N
  <2>5. /\ Cardinality(X) \in Nat /\ Cardinality(A) \in Nat /\ Cardinality(N) \in Nat
        /\ Cardinality(X) <= Cardinality(A) + Cardinality(N)
    BY <1>6, <2>3, CountedWith
  <2>6. Cardinality(X) + 1 <= MaxCount
    BY <1>1, <1>5, <2>4, <2>5, MaxCountIs
  <2> QED BY <2>6 DEF Few, X
<1>8. ASSUME NEW u \in P
      PROVE  Few(u, R)
  <2>1. u \in P \ S /\ u \in Txs
    BY <1>1
  <2>2. Ancestors(u, R) \cap S = {}
    <3>1. P \in SUBSET Txs /\ S \in SUBSET Txs /\ Children(S, P) = {}
      BY <1>1
    <3> QED BY <2>1, <3>1, NobodysAncestor
  <2>3. Ancestors(u, R) \subseteq Ancestors(u, P)
    BY <1>1, <2>1, <2>2, AncestorsWithout
  <2> HIDE DEF R
  <2> QED BY <1>1, <1>3, <1>4, <2>1, <2>3, FewKept
<1>9. FewBut(R, {}) /\ R \subseteq Txs
  BY <1>4, <1>7, <1>8 DEF FewBut
<1> QED BY <1>2, <1>9 DEF S, e

-----------------------------------------------------------------------------
(* Every step keeps the limits. *)

\* While no reorganisation is under way there is only the pool to look at.
LEMMA LimitsKept ==
  ASSUME disconnectpool' = <<>>, vHashUpdate' = {}, FewBut(DOMAIN pool', {}),
         pc' \notin {"package", "reorg", "update"} => Sizes(DOMAIN pool') <= MaxPoolSize
  PROVE  LimitsInv'
<1>1. BroughtBack(DOMAIN pool', {}, DOMAIN CoinsTip') /\ Waiting(<<>>, DOMAIN pool', {})
  BY OutsOfNothing DEF BroughtBack, Waiting
<1> QED BY <1>1 DEF LimitsInv

\* What LimitMempoolSize leaves keeps both limits.
LEMMA LimitsAfterTrim ==
  ASSUME NEW entries, DOMAIN entries \subseteq Txs, minFee \in Nat, NEW fresh,
         FewBut(DOMAIN entries, {}), LimitMempoolSize(entries, fresh)
  PROVE  Sizes(DOMAIN pool') <= MaxPoolSize /\ FewBut(DOMAIN pool', {})
<1>1. Sizes(DOMAIN pool') <= MaxPoolSize /\ DOMAIN pool' \subseteq DOMAIN entries
  BY LimitFits
<1> DEFINE P == DOMAIN entries
           Q == DOMAIN pool'
<1>2. P \in SUBSET Txs /\ Q \in SUBSET P /\ FewBut(P, {})
  BY <1>1
<1> HIDE DEF P, Q
<1>3. FewBut(Q, {})
  BY <1>2, LimitsAtRest
<1> QED BY <1>1, <1>3 DEF Q

\* Transactions and packages.
LEMMA AcceptanceKeepsLimits ==
  ASSUME MempoolInv, LocksInv, LimitsInv,
         \/ \E t \in Txs : AcceptToMemoryPool(t)
         \/ \E p \in Packages : ProcessNewPackage(p)
         \/ PackageTx \/ AcceptPackage \/ PackageReturn \/ MinFeeDecays
  PROVE  LimitsInv'
<1>1. /\ pc \in {"rest", "package", "reported"} /\ ~Reorganising
      /\ UNCHANGED <<tip, disconnectpool, vHashUpdate>>
      /\ pc' \in {"rest", "package", "reported"}
  BY DEF AcceptToMemoryPool, ProcessNewPackage, PackageTx, AcceptPackage, PackageReturn,
         MinFeeDecays, Goto, reorgVars, Reorganising
<1>2. disconnectpool' = <<>> /\ vHashUpdate' = {} /\ FewBut(DOMAIN pool, {})
  BY <1>1 DEF MempoolInv, Typed, LimitsInv
<1>3. /\ DOMAIN pool \subseteq Txs /\ DOMAIN pool \cap ConfirmedAt[tip] = {} /\ tip \in Blocks
      /\ minFee \in Nat /\ Sourced(DOMAIN pool, DOMAIN CoinsTip)
  BY <1>1, PoolIs DEF LocksInv
<1>4. CASE \E t \in Txs : AcceptToMemoryPool(t)
  <2>1. PICK t \in Txs : AcceptToMemoryPool(t)
    BY <1>4
  <2>2. PreChecks(t, SingleAccept, {}) = "valid" /\ LimitMempoolSize(Finalize(t), {t})
    BY <2>1, SingleAccepted DEF AcceptToMemoryPool
  <2>3. FewBut(DOMAIN Finalize(t), {}) /\ DOMAIN Finalize(t) \subseteq Txs
    <3>1. {} \subseteq DOMAIN CoinsTip
      OBVIOUS
    <3> QED BY <1>2, <1>3, <2>2, <3>1, FewAfterFinalize
  <2> QED BY <1>2, <1>3, <2>2, <2>3, LimitsAfterTrim, LimitsKept
<1>5. CASE PackageTx
  <2>1. /\ pc = "package" /\ pc' = "package" /\ Trying
        /\ \/ UNCHANGED pool
           \/ /\ AcceptSingleTransaction(pkg.txns[pkg.next], SingleAccept, pkg.view) = "valid"
              /\ pkg.next <= Len(pkg.txns) /\ pool' = Finalize(pkg.txns[pkg.next])
    BY <1>5 DEF PackageTx, MempoolInv
  <2>2. CASE UNCHANGED pool
    BY <1>2, <2>1, <2>2, LimitsKept
  <2>3. CASE /\ AcceptSingleTransaction(pkg.txns[pkg.next], SingleAccept, pkg.view) = "valid"
             /\ pkg.next <= Len(pkg.txns) /\ pool' = Finalize(pkg.txns[pkg.next])
    <3> DEFINE t == pkg.txns[pkg.next]
    <3>1. t \in Txs
      <4>1. pkg.txns \in Packages /\ pkg.next \in 1 .. Len(pkg.txns) + 1
        BY <2>1 DEF Trying, PackageLocals
      <4>2. Len(pkg.txns) \in Nat /\ DOMAIN pkg.txns = 1 .. Len(pkg.txns) /\ ToSet(pkg.txns) \subseteq Txs
        BY <4>1, PackagesAre
      <4>3. pkg.next \in DOMAIN pkg.txns
        BY <2>3, <4>1, <4>2
      <4> QED BY <4>2, <4>3 DEF ToSet
    <3> HIDE DEF t
    <3>2. PreChecks(t, SingleAccept, pkg.view) = "valid" /\ pkg.view \subseteq DOMAIN CoinsTip
      BY <2>1, <2>3, SingleAccepted DEF t, Trying
    <3>3. FewBut(DOMAIN Finalize(t), {})
      BY <1>2, <1>3, <3>1, <3>2, FewAfterFinalize
    <3>4. FewBut(DOMAIN pool', {})
      BY <2>3, <3>3 DEF t
    <3> QED BY <1>2, <2>1, <3>4, LimitsKept
  <2> QED BY <2>1, <2>2, <2>3
<1>6. CASE AcceptPackage
  <2>1. pc = "package" /\ Trying /\ \E new : LimitMempoolSize(AfterSubmission, new)
    BY <1>6 DEF AcceptPackage, MempoolInv
  <2>2. FewBut(DOMAIN AfterSubmission, {}) /\ DOMAIN AfterSubmission \subseteq Txs
    <3>1. CASE AfterSubmission = With(pool, {})
      <4>1. DOMAIN With(pool, {}) = DOMAIN pool
        BY DEF With
      <4> QED BY <1>2, <1>3, <3>1, <4>1
    <3>2. CASE /\ pkg.eval[1] \in Txs /\ AfterSubmission = Finalize(pkg.eval[1])
               /\ AcceptSingleTransaction(pkg.eval[1], SingleAccept, pkg.view) = "valid"
      <4> DEFINE t == pkg.eval[1]
      <4> HIDE DEF t
      <4>1. PreChecks(t, SingleAccept, pkg.view) = "valid" /\ pkg.view \subseteq DOMAIN CoinsTip
        BY <2>1, <3>2, SingleAccepted DEF t, Trying
      <4>2. t \in Txs /\ AfterSubmission = Finalize(t)
        BY <3>2 DEF t
      <4> QED BY <1>2, <1>3, <4>1, <4>2, FewAfterFinalize
    <3>3. CASE PackageAccepted(pkg.eval) /\ AfterSubmission = With(pool, ToSet(pkg.eval))
      BY <1>1, <1>2, <2>1, <3>3, FewAfterPackage
    <3> QED BY <2>1, <3>1, <3>2, <3>3, SubmissionIs
  <2>3. Sizes(DOMAIN pool') <= MaxPoolSize /\ FewBut(DOMAIN pool', {})
    BY <1>3, <2>1, <2>2, LimitsAfterTrim
  <2> QED BY <1>2, <2>3, LimitsKept
<1>7. CASE \E p \in Packages : ProcessNewPackage(p)
  <2>1. UNCHANGED pool /\ pc' = "package"
    BY <1>7 DEF ProcessNewPackage, Goto
  <2> QED BY <1>2, <2>1, LimitsKept
<1>8. CASE PackageReturn \/ MinFeeDecays
  <2>1. UNCHANGED pool /\ pc \notin {"package", "reorg", "update"}
    BY <1>8 DEF PackageReturn, MinFeeDecays
  <2>2. Sizes(DOMAIN pool') <= MaxPoolSize
    BY <2>1 DEF LimitsInv
  <2> QED BY <1>2, <2>1, <2>2, LimitsKept
<1> QED BY <1>4, <1>5, <1>6, <1>7, <1>8

\* A block is disconnected: what it confirmed spends from nothing in the pool.
LEMMA DisconnectTipKeepsLimits ==
  ASSUME MempoolInv, LocksInv, LimitsInv, DisconnectTip
  PROVE  LimitsInv'
<1> DEFINE all == disconnectpool \o Reverse(BlockTxs[tip])
           over == Overflow(all)
           lost == ToSet(SubSeq(all, 1, over))
           left == SubSeq(all, over + 1, Len(all))
           P == DOMAIN pool
<1>1. /\ pc \in {"rest", "reorg"} /\ tip \in Blocks \ {Genesis} /\ disconnectpool \in Seq(Txs)
      /\ disconnectpool' = left /\ pool' = RemoveRecursive(pool, lost)
      /\ pc' = "reorg" /\ vHashUpdate' = vHashUpdate /\ vHashUpdate = {}
  BY DEF DisconnectTip, MempoolInv, Typed, Goto, LimitsInv
<1>2. BlockTxs[tip] \in Seq(Txs) /\ ToSet(BlockTxs[tip]) \subseteq ConfirmedAt[tip]
      /\ ConfirmedAt[tip] \subseteq Txs
  <2>1. tip \in Path[tip]
    BY <1>1, ChainFacts
  <2> QED BY <1>1, <2>1, BlockTxsAre, ConfirmedIs
<1>3. lost \in SUBSET Txs /\ ToSet(left) \subseteq ToSet(disconnectpool) \cup ToSet(BlockTxs[tip])
  BY <1>1, <1>2, OverflowFacts
<1> HIDE DEF lost, left, all
<1>4. P \in SUBSET Txs /\ P \cap ConfirmedAt[tip] = {}
  BY PoolIs DEF LocksInv
<1>5. ASSUME NEW t \in ConfirmedAt[tip]
      PROVE  Parents({t}, P) = {}
  <2> SUFFICES ASSUME NEW p \in P, NEW o \in Creates[p] \cap Spends[t]
               PROVE  FALSE
    BY DEF Parents
  <2>1. o \in Outs(ConfirmedAt[tip])
    BY <1>1, <1>5, ChainSpendsItsOwn DEF Ins
  <2>2. PICK u \in ConfirmedAt[tip] : o \in Creates[u]
    BY <2>1 DEF Outs
  <2>3. u # p /\ u \in Txs /\ p \in Txs
    BY <1>2, <1>4
  <2> QED BY <2>2, <2>3, TxAssumption
<1>6. Waiting(left, P, {})
  <2>1. \A t \in ToSet(disconnectpool) : Parents({t}, P) = {}
    BY <1>1 DEF LimitsInv, Waiting
  <2> QED BY <1>2, <1>3, <1>5, <2>1 DEF Waiting
<1>7. PICK D : pool' = Without(pool, D) /\ ClosedIn(D, P)
  BY <1>1, <1>3, <1>4, RemovalIsClosed
<1>8. DOMAIN pool' = P \ D
  BY <1>7 DEF Without, Restrict
<1>9. FewBut(P, {}) /\ BroughtBack(P, {}, DOMAIN CoinsTip)
  BY <1>1 DEF LimitsInv
<1>10. FewBut(P \ D, {}) /\ Waiting(left, P \ D, {})
  <2>1. {} \in SUBSET Txs
    OBVIOUS
  <2> HIDE DEF P
  <2> QED BY <1>4, <1>6, <1>7, <1>9, <2>1, LimitsWithout DEF P
<1>11. BroughtBack(P \ D, {}, DOMAIN CoinsTip')
  BY DEF BroughtBack
<1> HIDE DEF P
<1> QED BY <1>1, <1>8, <1>10, <1>11 DEF LimitsInv

\* A block is connected: what waits may be confirmed, entries leave.
LEMMA ConnectTipKeepsLimits ==
  ASSUME MempoolInv, LimitsInv, NEW b \in Blocks, ConnectTip(b)
  PROVE  LimitsInv'
<1> DEFINE txns == ToSet(BlockTxs[b])
           left == WithoutTxs(disconnectpool, txns)
           P == DOMAIN pool
           Q == DOMAIN pool'
<1>1. /\ pc \in {"rest", "reorg"} /\ disconnectpool \in Seq(Txs) /\ disconnectpool' = left
      /\ pool' = RemoveForBlock(txns) /\ pc' = pc /\ vHashUpdate' = vHashUpdate /\ vHashUpdate = {}
  BY DEF ConnectTip, MempoolInv, Typed, LimitsInv
<1>2. ToSet(left) \subseteq ToSet(disconnectpool)
  BY <1>1, WithoutTxsFacts
<1>3. P \in SUBSET Txs /\ Q \in SUBSET P
  <2>1. Q \subseteq P
    BY <1>1 DEF RemoveForBlock, RemoveRecursive, Without, Restrict
  <2> QED BY <2>1, PoolIs
<1>4. FewBut(P, {}) /\ Waiting(disconnectpool, P, {}) /\ (pc' = "rest" => Sizes(P) <= MaxPoolSize)
  BY <1>1 DEF LimitsInv
<1> HIDE DEF P, Q, left
<1>5. FewBut(Q, {}) /\ BroughtBack(Q, {}, DOMAIN CoinsTip')
  BY <1>3, <1>4, LimitsAtRest
<1>6. Waiting(left, Q, {})
  BY <1>2, <1>3, <1>4 DEF Waiting, Parents
<1>7. pc' = "rest" => Sizes(Q) <= MaxPoolSize
  <2>1. Sizes(Q) <= Sizes(P) /\ Sizes(Q) \in Nat /\ Sizes(P) \in Nat /\ MaxPoolSize \in Nat
    BY <1>3, SumsGrow, PolicyAssumption
  <2> QED BY <1>4, <2>1
<1> QED BY <1>1, <1>5, <1>6, <1>7 DEF LimitsInv, Q

\* A disconnected transaction comes back or leaves with its descendants.
LEMMA ReAddTxKeepsLimits ==
  ASSUME MempoolInv, LocksInv, LimitsInv, ReAddTx
  PROVE  LimitsInv'
<1> DEFINE t == EarliestConfirmed
           left == WithoutTxs(disconnectpool, {t})
           P == DOMAIN pool
           V == vHashUpdate
           q == disconnectpool
           coins == DOMAIN CoinsTip
<1>1. /\ pc = "update" /\ q # <<>> /\ q \in Seq(Txs) /\ disconnectpool' = left
      /\ pc' = pc /\ tip' = tip /\ V \in SUBSET Txs
      /\ \/ /\ AcceptSingleTransaction(t, ReorgAccept, {}) = "valid"
            /\ pool' = Finalize(t) /\ vHashUpdate' = V \cup {t}
         \/ pool' = RemoveRecursive(pool, {t}) /\ vHashUpdate' = V
  BY DEF ReAddTx, MempoolInv, Typed
<1>2. t \in Txs /\ t \in ToSet(q)
  <2>1. Len(q) \in 1 .. Len(q) /\ DOMAIN q = 1 .. Len(q)
    BY <1>1
  <2> QED BY <1>1, <2>1 DEF EarliestConfirmed, Last, ToSet
<1>3. ToSet(left) \subseteq ToSet(q)
  BY <1>1, WithoutTxsFacts
<1>4. P \in SUBSET Txs /\ tip \in Blocks /\ P \cap ConfirmedAt[tip] = {}
  BY PoolIs DEF LocksInv
<1>5. FewBut(P, V) /\ BroughtBack(P, V, coins) /\ Waiting(q, P, V)
  BY DEF LimitsInv
<1> DEFINE Q == DOMAIN pool'
           W == vHashUpdate'
<1> HIDE DEF t, left
<1>6. FewBut(Q, W) /\ BroughtBack(Q, W, coins) /\ Waiting(q, Q, W)
  <2>1. CASE AcceptSingleTransaction(t, ReorgAccept, {}) = "valid" /\ pool' = Finalize(t) /\ W = V \cup {t}
    <3>1. PreChecks(t, ReorgAccept, {}) = "valid"
      BY <2>1, SingleAccepted
    <3>2. /\ FewBut(DOMAIN Finalize(t), V \cup {t}) /\ BroughtBack(DOMAIN Finalize(t), V \cup {t}, coins)
          /\ Waiting(q, DOMAIN Finalize(t), V \cup {t})
      BY <1>1, <1>2, <1>4, <1>5, <3>1, LimitsAfterReAdd
    <3> QED BY <2>1, <3>2
  <2>2. CASE pool' = RemoveRecursive(pool, {t}) /\ W = V
    <3>1. {t} \in SUBSET Txs
      BY <1>2
    <3>2. PICK D : RemoveRecursive(pool, {t}) = Without(pool, D) /\ ClosedIn(D, P)
      BY <1>4, <3>1, RemovalIsClosed
    <3>3. DOMAIN pool' = P \ D
      BY <2>2, <3>2 DEF Without, Restrict
    <3>4. FewBut(P \ D, V) /\ BroughtBack(P \ D, V, coins) /\ Waiting(q, P \ D, V)
      <4> HIDE DEF P, V, q, coins
      <4> QED BY <1>1, <1>4, <1>5, <3>2, LimitsWithout
    <3> QED BY <2>2, <3>3, <3>4
  <2> QED BY <1>1, <2>1, <2>2
<1>7. Waiting(left, Q, W)
  BY <1>3, <1>6 DEF Waiting
<1>8. DOMAIN CoinsTip' = coins
  BY <1>1 DEF CoinsTip
<1> QED BY <1>1, <1>6, <1>7, <1>8 DEF LimitsInv

\* What descends from a part of S descends from S.
LEMMA DescendantsOfMore ==
  ASSUME NEW P \in SUBSET Txs, NEW S \in SUBSET Txs
  PROVE  Descendants(S \cap P, P) \subseteq Descendants(S, P)
<1> DEFINE X == S \cap P
           Z == Descendants(S, P)
<1>1. X \in SUBSET Txs /\ X \subseteq S
  OBVIOUS
<1>2. S \subseteq Z /\ Z \subseteq S \cup P /\ Children(Z, P) \subseteq Z
  BY DescendantFacts
<1>3. X \subseteq Z /\ Z \in SUBSET Txs
  BY <1>1, <1>2
<1> HIDE DEF X, Z
<1>4. Descendants(X, P) \subseteq Z
  BY <1>1, <1>2, <1>3, DescendantFacts
<1> QED BY <1>4 DEF X, Z

\* UpdateTransactionsFromBlock finds everybody who has got too many ancestors.
LEMMA UpdateFindsAll ==
  ASSUME NEW P \in SUBSET Txs, NEW V \in SUBSET Txs, FewBut(P, V), NEW t \in P,
         t \in Descendants(V, P) \ V => ~(Cardinality(Ancestors(t, P)) + 1 > AncestorLimit)
  PROVE  Few(t, P)
<1>1. CASE t \in V \/ Ancestors(t, P) \cap V = {}
  BY <1>1 DEF FewBut
<1>2. CASE t \notin V /\ Ancestors(t, P) \cap V # {}
  <2>1. PICK x : x \in Ancestors(t, P) /\ x \in V
    BY <1>2
  <2>2. Ancestors(t, P) \subseteq P
    BY AncestorFacts
  <2>3. V \cap P \in SUBSET P /\ x \in V \cap P
    BY <2>1, <2>2
  <2>4. t \in Descendants(V \cap P, P)
    BY <2>1, <2>3, Relatives
  <2>5. t \in Descendants(V, P) \ V
    BY <1>2, <2>4, DescendantsOfMore
  <2>6. Cardinality(Ancestors(t, P)) \in Nat
    BY FewKept
  <2> QED BY <2>5, <2>6, MaxCountIs DEF Few
<1> QED BY <1>1, <1>2

\* The end of a reorganisation.
LEMMA FinishUpdateKeepsLimits ==
  ASSUME MempoolInv, LimitsInv, FinishUpdate
  PROVE  LimitsInv'
<1> DEFINE P == DOMAIN pool
           V == vHashUpdate
           over == {t \in Descendants(V, P) \ V : Cardinality(Ancestors(t, P)) + 1 > AncestorLimit}
           updated == UpdateTransactionsFromBlock
           kept == RemoveRecursive(updated, {t \in DOMAIN updated : ~FinalAndMature(t)})
           entries == [t \in DOMAIN kept |-> [kept[t] EXCEPT !.lp = LockPoints(t)]]
<1>1. /\ pc = "update" /\ disconnectpool = <<>> /\ minFee \in Nat /\ V \in SUBSET Txs /\ P \in SUBSET Txs
      /\ pc' = "rest" /\ vHashUpdate' = {} /\ disconnectpool' = <<>>
      /\ LimitMempoolSize(entries, V) /\ FewBut(P, V)
  BY PoolIs DEF FinishUpdate, Goto, MempoolInv, Typed, LimitsInv
<1>2. over \in SUBSET Txs
  BY <1>1, DescendantFacts
<1>3. updated = RemoveRecursive(pool, over)
  BY DEF UpdateTransactionsFromBlock
<1>4. PICK D : RemoveRecursive(pool, over) = Without(pool, D) /\ over \cap P \subseteq D
  <2> HIDE DEF over
  <2> QED BY <1>1, <1>2, RemovalIsClosed
<1>5. DOMAIN updated = P \ D
  BY <1>3, <1>4 DEF Without, Restrict
<1>6. DOMAIN entries \subseteq DOMAIN updated
  BY DEF RemoveRecursive, Without, Restrict
<1>7. ASSUME NEW t \in P \ D
      PROVE  Few(t, P)
  <2>1. t \notin over
    BY <1>4
  <2>2. t \in Descendants(V, P) \ V => ~(Cardinality(Ancestors(t, P)) + 1 > AncestorLimit)
    BY <2>1
  <2> HIDE DEF P, V
  <2> QED BY <1>1, <2>2, UpdateFindsAll
<1> HIDE DEF entries, updated
<1> DEFINE Q == DOMAIN entries
<1>8. Q \in SUBSET P /\ \A t \in Q : Few(t, P)
  BY <1>5, <1>6, <1>7
<1>9. FewBut(Q, {}) /\ Q \subseteq Txs
  <2> HIDE DEF P, Q
  <2>1. ASSUME NEW t \in Q
        PROVE  Few(t, Q)
    BY <1>1, <1>8, AncestorsShrink, FewKept
  <2> QED BY <1>1, <1>8, <2>1 DEF FewBut
<1>10. Sizes(DOMAIN pool') <= MaxPoolSize /\ FewBut(DOMAIN pool', {})
  BY <1>1, <1>9, LimitsAfterTrim
<1> QED BY <1>1, <1>10, LimitsKept

\* Every step keeps the limits.
LEMMA LimitsStep ==
  ASSUME MempoolInv, LocksInv, LimitsInv, [AssemblerNext]_<<vars, asmVars>>
  PROVE  LimitsInv'
<1>1. CASE \E fAdd \in BOOLEAN : MaybeUpdateMempoolForReorg(fAdd)
  BY <1>1 DEF MaybeUpdateMempoolForReorg, Goto, LimitsInv, CoinsTip
<1>2. CASE Next
  BY <1>1, <1>2, AcceptanceKeepsLimits, DisconnectTipKeepsLimits, ConnectTipKeepsLimits,
     FinishUpdateKeepsLimits, ReAddTxKeepsLimits DEF Next, Continue
<1>3. CASE (CreateNewBlock \/ addPackageTxs) /\ UNCHANGED <<tip, pool, minFee, reorgVars, pkg>>
  <2>1. pc \notin {"package", "reorg", "update"} /\ pc' \notin {"package", "reorg", "update"}
    BY <1>3, AssemblerLabels
  <2>2. UNCHANGED <<tip, pool, disconnectpool, vHashUpdate>>
    BY <1>3 DEF reorgVars
  <2> QED BY <2>1, <2>2 DEF LimitsInv, CoinsTip
<1>4. CASE UNCHANGED <<vars, asmVars>>
  BY <1>4 DEF vars, reorgVars, LimitsInv, CoinsTip
<1> QED BY <1>2, <1>3, <1>4 DEF AssemblerNext

\* So they hold.
LEMMA LimitsHold == AssemblerSpec => []LimitsInv
<1>1. AssemblerInit => LimitsInv
  <2> SUFFICES ASSUME AssemblerInit
               PROVE  LimitsInv
    OBVIOUS
  <2>1. DOMAIN pool = {} /\ vHashUpdate = {} /\ disconnectpool = <<>>
    BY DEF AssemblerInit, Init
  <2> QED BY <2>1, NothingFits, OutsOfNothing DEF LimitsInv, FewBut, BroughtBack, Waiting
<1>2. MempoolInv /\ LocksInv /\ LimitsInv /\ [AssemblerNext]_<<vars, asmVars>> => LimitsInv'
  BY LimitsStep
<1> QED BY <1>1, <1>2, InvHolds, LocksHold, PTL DEF AssemblerSpec

\* At rest every entry could be mined in the next block as far as time goes, by its locks counted
\* afresh, although removeForReorg believes the lock points that are still valid; the mempool has
\* its size; and nobody has too many ancestors, also when a reorganisation has put transactions
\* below entries that came before them.
THEOREM EntriesAreReady == AssemblerSpec => []NextBlockReady
<1>1. ASSUME MempoolInv, LocksInv, LimitsInv
      PROVE  NextBlockReady
  <2> SUFFICES ASSUME pc = "rest"
               PROVE  /\ \A t \in DOMAIN pool : LocksRunOut(t) /\ Few(t, DOMAIN pool)
                      /\ Sizes(DOMAIN pool) <= MaxPoolSize
    BY DEF NextBlockReady, LocksRunOut, Few, MaxCount
  <2>1. Sizes(DOMAIN pool) <= MaxPoolSize /\ FewBut(DOMAIN pool, {})
    BY <1>1 DEF LimitsInv
  <2>2. ASSUME NEW t \in DOMAIN pool
        PROVE  LocksRunOut(t) /\ Few(t, DOMAIN pool)
    <3>1. t \in Txs \ Coinbases /\ tip \in Blocks
      BY <1>1, PoolIs
    <3>2. ReadyAt(t, tip)
      BY <1>1 DEF LocksInv, Reorganising
    <3> QED BY <2>1, <3>1, <3>2, ReadyIs DEF FewBut
  <2> QED BY <2>1, <2>2
<1> QED BY <1>1, InvHolds, LocksHold, LimitsHold, PTL

-----------------------------------------------------------------------------
(* What a reorganisation brings back. *)

\* Whatever a transaction of q spends from another one of q is found behind it.
EarlierLast(q) ==
  \A i \in 1 .. Len(q) : \A x \in ToSet(q) :
    Creates[x] \cap Spends[q[i]] # {} => \E k \in i + 1 .. Len(q) : q[k] = x

\* What waits in q was confirmed at old and is not at b.  It is apart from the pool P, spends
\* nothing that P spends, and what P has got back spends nothing from it.
Orderly(q, P, b, old) ==
  /\ old \in Blocks /\ EarlierLast(q)
  /\ ToSet(q) \subseteq ConfirmedAt[old] \ ConfirmedAt[b]
  /\ ToSet(q) \cap P = {} /\ \A t \in ToSet(q), c \in P : Spends[t] \cap Spends[c] = {}
  /\ Children(ToSet(q), P) \cap ConfirmedAt[old] = {}

\* It would be refused, now and whatever else is tried before the chain goes on.
Hopeless(t) ==
  \/ t \in Coinbases \/ ~ReadyAt(t, tip)
  \/ ~(Spends[t] \subseteq Spendable \cup Outs(DOMAIN pool))

\* What was confirmed at the old tip and is no more.
Returning == (ConfirmedAt[pindexOldTip] \ ConfirmedAt[tip]) \ evicted

ReturnInv ==
  Reorganising =>
    /\ Orderly(disconnectpool, DOMAIN pool, tip, pindexOldTip)
    /\ pc = "reorg" =>
         /\ DOMAIN pool \cap ConfirmedAt[pindexOldTip] = {}
         /\ Returning \subseteq ToSet(disconnectpool)
    /\ pc = "update" /\ fAddToMempool =>
         \A t \in Returning : t \in ToSet(disconnectpool) \/ t \in DOMAIN pool \/ Hopeless(t)

\* No transaction that is tried again is refused for nothing but the limits on relatives.
NoneRefusedForLimits ==
  pc = "update" /\ disconnectpool # <<>> /\ fAddToMempool =>
    AcceptSingleTransaction(EarliestConfirmed, ReorgAccept, {}) # "policy"

\* A chain spends each output once.
LEMMA ChainSpendsOnce ==
  ASSUME NEW b \in Blocks
  PROVE  OnceSpent(ConfirmedAt[b])
<1> DEFINE Good == {x \in Blocks : OnceSpent(ConfirmedAt[x])}
<1>1. Genesis \in Good
  BY ConfirmedIs, TreeAssumption DEF OnceSpent
<1>2. ASSUME NEW x \in Blocks \ {Genesis}, Parent[x] \in Good
      PROVE  x \in Good
  <2> DEFINE below == ConfirmedAt[Parent[x]]
             txns == BlockTxs[x]
  <2>1. /\ ConfirmedAt[x] = below \cup ToSet(txns) /\ Parent[x] \in Blocks
        /\ below \subseteq Txs /\ Ins(below) \subseteq Outs(below)
    BY ConfirmedIs, ParentFacts, ChainSpendsItsOwn
  <2>2. /\ DOMAIN txns = 1 .. Len(txns) /\ Len(txns) \in Nat
        /\ \A i \in DOMAIN txns : txns[i] \in Txs /\ txns[i] \notin below
    BY BlockTxsAre, ChainAssumption DEF ToSet
  <2>3. ASSUME NEW i \in DOMAIN txns, NEW t \in below
        PROVE  Spends[t] \cap Spends[txns[i]] = {}
    <3> SUFFICES ASSUME NEW o \in Spends[t] \cap Spends[txns[i]]
                 PROVE  FALSE
      OBVIOUS
    <3>1. o \in Ins(below)
      BY DEF Ins
    <3>2. o \notin DOMAIN CoinsAt[Parent[x]]
      BY <2>1, <3>1, CoinsAre
    <3>3. Spends[txns[i]] \subseteq
            DOMAIN CoinsAt[Parent[x]] \cup UNION {Creates[txns[n]] : n \in 1 .. i - 1}
      BY ChainAssumption
    <3>4. PICK n \in 1 .. i - 1 : o \in Creates[txns[n]]
      BY <3>2, <3>3
    <3>5. n \in DOMAIN txns
      BY <2>2, <3>4
    <3>6. PICK u \in below : o \in Creates[u]
      BY <2>1, <3>1 DEF Outs
    <3> QED BY <2>1, <2>2, <3>4, <3>5, <3>6, TxAssumption
  <2>4. \A i, n \in DOMAIN txns : n < i => Spends[txns[n]] \cap Spends[txns[i]] = {}
    <3> TAKE i, n \in DOMAIN txns
    <3> HAVE n < i
    <3>1. n \in 1 .. i - 1
      BY <2>2
    <3> QED BY <3>1, ChainAssumption
  <2>5. \A i, n \in DOMAIN txns : txns[i] # txns[n] => Spends[txns[n]] \cap Spends[txns[i]] = {}
    <3> TAKE i, n \in DOMAIN txns
    <3> HAVE txns[i] # txns[n]
    <3>1. n < i \/ i < n
      BY <2>2
    <3> QED BY <2>4, <3>1
  <2> HIDE DEF txns, below
  <2>6. OnceSpent(below)
    BY <1>2 DEF below
  <2>7. \A t \in ToSet(txns) : \E i \in DOMAIN txns : t = txns[i]
    BY DEF ToSet
  <2>8. OnceSpent(ConfirmedAt[x])
    <3> SUFFICES ASSUME NEW t \in ConfirmedAt[x], NEW u \in ConfirmedAt[x], t # u
                 PROVE  Spends[t] \cap Spends[u] = {}
      BY DEF OnceSpent
    <3>1. CASE t \in below /\ u \in below
      BY <2>6, <3>1 DEF OnceSpent
    <3>2. CASE t \in below /\ u \in ToSet(txns)
      BY <2>3, <2>7, <3>2
    <3>3. CASE u \in below /\ t \in ToSet(txns)
      BY <2>3, <2>7, <3>3
    <3>4. CASE t \in ToSet(txns) /\ u \in ToSet(txns)
      BY <2>5, <2>7, <3>4
    <3> QED BY <2>1, <3>1, <3>2, <3>3, <3>4
  <2> QED BY <2>8
<1>3. Blocks \subseteq Good
  <2> HIDE DEF Good
  <2> QED BY <1>1, <1>2, TreeInduction
<1> QED BY <1>3

\* A chain that goes on from another confirms what that does.
LEMMA ConfirmedBelow ==
  ASSUME NEW b \in Blocks, NEW a \in Path[b]
  PROVE  ConfirmedAt[a] \subseteq ConfirmedAt[b]
<1>1. a \in Blocks /\ Path[a] \subseteq Path[b]
  BY ChainFacts
<1> QED BY <1>1, ConfirmedIs

\* What a confirmed transaction spends was created by confirmed transactions only.
LEMMA ParentsAreConfirmed ==
  ASSUME NEW b \in Blocks, NEW t \in ConfirmedAt[b], NEW p \in Txs, Creates[p] \cap Spends[t] # {}
  PROVE  p \in ConfirmedAt[b]
<1>1. PICK o : o \in Creates[p] /\ o \in Spends[t]
  OBVIOUS
<1>2. o \in Outs(ConfirmedAt[b])
  BY <1>1, ChainSpendsItsOwn DEF Ins
<1>3. PICK u \in ConfirmedAt[b] : o \in Creates[u]
  BY <1>2 DEF Outs
<1>4. u \in Txs
  BY <1>3, ConfirmedIs
<1> QED BY <1>1, <1>3, <1>4, TxAssumption

\* What stays in a sequence is followed by what followed it and stays too.
LEMMA OrderIsKept ==
  ASSUME NEW q \in Seq(Txs), NEW S
  PROVE  \A i \in 1 .. Len(WithoutTxs(q, S)) : \E j \in 1 .. Len(q) :
           /\ WithoutTxs(q, S)[i] = q[j]
           /\ \A k \in j + 1 .. Len(q) : q[k] \notin S =>
                \E m \in i + 1 .. Len(WithoutTxs(q, S)) : WithoutTxs(q, S)[m] = q[k]
<1> DEFINE n == Len(q)
           Follows(p, u) == \A i \in 1 .. Len(p) : \E j \in 1 .. u :
             p[i] = q[j] /\ \A k \in j + 1 .. u : q[k] \notin S => \E m \in i + 1 .. Len(p) : p[m] = q[k]
<1>1. n \in Nat /\ \A i \in 1 .. n : q[i] \in Txs
  OBVIOUS
<1>2. PICK P \in [0 .. n -> Seq(Txs)] :
         /\ P[0] = <<>> /\ P[n] = WithoutTxs(q, S)
         /\ \A k \in 1 .. n : P[k] = KeptOr(P[k - 1], q[k], S)
  BY WithoutTxsRuns
<1> DEFINE Good == {u \in Nat : u <= n => Follows(P[u], u)}
<1>3. 0 \in Good
  BY <1>1, <1>2
<1>4. ASSUME NEW u \in Nat, u \in Good
      PROVE  u + 1 \in Good
  <2> SUFFICES ASSUME u + 1 <= n
               PROVE  Follows(P[u + 1], u + 1)
    OBVIOUS
  <2> DEFINE p == P[u]
             t == q[u + 1]
             r == P[u + 1]
  <2> SUFFICES Follows(r, u + 1)
    OBVIOUS
  <2>1. u + 1 \in 1 .. n /\ (u + 1) - 1 = u /\ u <= n /\ u \in 0 .. n
    BY <1>1
  <2>2. r = KeptOr(p, t, S) /\ p \in Seq(Txs) /\ t \in Txs /\ Follows(p, u)
    BY <1>1, <1>2, <1>4, <2>1
  <2> HIDE DEF p, r, n
  <2>3. CASE t \in S
    <3>1. r = p
      BY <2>2, <2>3 DEF KeptOr
    <3> SUFFICES Follows(p, u + 1)
      BY <3>1
    <3> SUFFICES ASSUME NEW i \in 1 .. Len(p)
                 PROVE  \E j \in 1 .. u + 1 :
                   p[i] = q[j] /\ \A k \in j + 1 .. u + 1 : q[k] \notin S => \E m \in i + 1 .. Len(p) : p[m] = q[k]
      OBVIOUS
    <3>2. PICK j \in 1 .. u : p[i] = q[j] /\ \A k \in j + 1 .. u : q[k] \notin S =>
                                \E m \in i + 1 .. Len(p) : p[m] = q[k]
      BY <2>2
    <3>3. \A k \in j + 1 .. u + 1 : k \in j + 1 .. u \/ k = u + 1
      OBVIOUS
    <3>4. j \in 1 .. u + 1
      OBVIOUS
    <3> QED BY <2>3, <3>2, <3>3, <3>4
  <2>4. CASE t \notin S
    <3>1. r = Append(p, t)
      BY <2>2, <2>4 DEF KeptOr
    <3>2. Len(r) = Len(p) + 1 /\ Len(p) \in Nat /\ r[Len(p) + 1] = t
          /\ \A i \in 1 .. Len(p) : r[i] = p[i]
      BY <2>2, <3>1
    <3> HIDE DEF t
    <3> SUFFICES ASSUME NEW i \in 1 .. Len(p) + 1
                 PROVE  \E j \in 1 .. u + 1 :
                   r[i] = q[j] /\ \A k \in j + 1 .. u + 1 : q[k] \notin S => \E m \in i + 1 .. Len(r) : r[m] = q[k]
      BY <3>2
    <3>3. CASE i = Len(p) + 1
      <4>1. u + 1 \in 1 .. u + 1 /\ (u + 1) + 1 .. u + 1 = {}
        OBVIOUS
      <4> QED BY <3>2, <3>3, <4>1 DEF t
    <3>4. CASE i \in 1 .. Len(p)
      <4>1. PICK j \in 1 .. u : p[i] = q[j] /\ \A k \in j + 1 .. u : q[k] \notin S =>
                                  \E m \in i + 1 .. Len(p) : p[m] = q[k]
        BY <2>2, <3>4
      <4>2. ASSUME NEW k \in j + 1 .. u + 1, q[k] \notin S
            PROVE  \E m \in i + 1 .. Len(r) : r[m] = q[k]
        <5>1. CASE k = u + 1
          <6>1. Len(p) + 1 \in i + 1 .. Len(r)
            BY <3>2, <3>4
          <6> QED BY <3>2, <5>1, <6>1 DEF t
        <5>2. CASE k # u + 1
          <6>1. k \in j + 1 .. u
            BY <5>2
          <6>2. PICK m \in i + 1 .. Len(p) : p[m] = q[k]
            BY <4>1, <4>2, <6>1
          <6>3. m \in i + 1 .. Len(r) /\ r[m] = p[m]
            BY <3>2, <3>4
          <6> QED BY <6>2, <6>3
        <5> QED BY <5>1, <5>2
      <4>3. j \in 1 .. u + 1 /\ r[i] = q[j]
        BY <3>2, <3>4, <4>1
      <4> QED BY <4>2, <4>3
    <3> QED BY <3>2, <3>3, <3>4
  <2> QED BY <2>3, <2>4
<1>5. n \in Good
  <2> HIDE DEF Good
  <2> QED BY <1>1, <1>3, <1>4, UpByOne
<1>6. Follows(WithoutTxs(q, S), n)
  BY <1>1, <1>2, <1>5
<1> QED BY <1>6

\* So WithoutTxs leaves what is spent after what spends it.
LEMMA EarlierWithout ==
  ASSUME NEW q \in Seq(Txs), NEW S, EarlierLast(q)
  PROVE  EarlierLast(WithoutTxs(q, S))
<1> DEFINE r == WithoutTxs(q, S)
<1>1. ToSet(r) = ToSet(q) \ S
  BY WithoutTxsFacts
<1>2. \A i \in 1 .. Len(r) : \E j \in 1 .. Len(q) :
        r[i] = q[j] /\ \A k \in j + 1 .. Len(q) : q[k] \notin S => \E m \in i + 1 .. Len(r) : r[m] = q[k]
  BY OrderIsKept
<1> HIDE DEF r
<1> SUFFICES ASSUME NEW i \in 1 .. Len(r), NEW x \in ToSet(r), Creates[x] \cap Spends[r[i]] # {}
             PROVE  \E m \in i + 1 .. Len(r) : r[m] = x
  BY DEF EarlierLast, r
<1>3. PICK j \in 1 .. Len(q) :
        r[i] = q[j] /\ \A k \in j + 1 .. Len(q) : q[k] \notin S => \E m \in i + 1 .. Len(r) : r[m] = q[k]
  BY <1>2
<1>4. PICK k \in j + 1 .. Len(q) : q[k] = x
  BY <1>1, <1>3 DEF EarlierLast
<1> QED BY <1>1, <1>3, <1>4

\* The front may go.
LEMMA EarlierBack ==
  ASSUME NEW q \in Seq(Txs), NEW n \in 0 .. Len(q), EarlierLast(q)
  PROVE  EarlierLast(SubSeq(q, n + 1, Len(q)))
<1> DEFINE r == SubSeq(q, n + 1, Len(q))
<1>1. Len(q) \in Nat /\ n \in Nat /\ n <= Len(q)
  OBVIOUS
<1>2. Len(r) = Len(q) - n /\ ToSet(r) \subseteq ToSet(q)
  BY CutInTwo
<1>3. \A i \in 1 .. Len(q) - n : r[i] = q[n + i]
  <2>1. \A i \in n + 1 .. Len(q) : q[i] \in Txs
    BY <1>1
  <2> QED BY <1>1, <2>1, SubSeqProperties
<1> HIDE DEF r
<1> SUFFICES ASSUME NEW i \in 1 .. Len(r), NEW x \in ToSet(r), Creates[x] \cap Spends[r[i]] # {}
             PROVE  \E m \in i + 1 .. Len(r) : r[m] = x
  BY DEF EarlierLast, r
<1>4. n + i \in 1 .. Len(q) /\ r[i] = q[n + i] /\ x \in ToSet(q)
  BY <1>1, <1>2, <1>3
<1>5. PICK k \in (n + i) + 1 .. Len(q) : q[k] = x
  BY <1>4 DEF EarlierLast
<1>6. k - n \in i + 1 .. Len(r) /\ k - n \in 1 .. Len(q) - n /\ n + (k - n) = k
  BY <1>1, <1>2
<1> QED BY <1>3, <1>5, <1>6

\* A transaction of a block spends coins from below the block or what came before it there.
LEMMA EarlierInBlock ==
  ASSUME NEW b \in Blocks \ {Genesis}, NEW i \in DOMAIN BlockTxs[b], NEW x \in ToSet(BlockTxs[b]),
         Creates[x] \cap Spends[BlockTxs[b][i]] # {}
  PROVE  \E n \in 1 .. i - 1 : BlockTxs[b][n] = x
<1> DEFINE txns == BlockTxs[b]
<1>1. /\ DOMAIN txns = 1 .. Len(txns) /\ Len(txns) \in Nat /\ x \in Txs
      /\ \A n \in DOMAIN txns : txns[n] \in Txs /\ txns[n] \notin ConfirmedAt[Parent[b]]
  BY BlockTxsAre, ChainAssumption DEF ToSet
<1>2. PICK o : o \in Creates[x] /\ o \in Spends[txns[i]]
  OBVIOUS
<1>3. Parent[b] \in Blocks /\ ConfirmedAt[Parent[b]] \subseteq Txs
  BY ParentFacts, ConfirmedIs
<1>4. o \notin DOMAIN CoinsAt[Parent[b]]
  <2>1. x \notin ConfirmedAt[Parent[b]]
    BY <1>1 DEF ToSet
  <2>2. o \notin Outs(ConfirmedAt[Parent[b]])
    BY <1>1, <1>2, <1>3, <2>1, TxAssumption DEF Outs
  <2> QED BY <1>3, <2>2, CoinsAre
<1>5. Spends[txns[i]] \subseteq
        DOMAIN CoinsAt[Parent[b]] \cup UNION {Creates[txns[n]] : n \in 1 .. i - 1}
  BY ChainAssumption
<1>6. PICK n \in 1 .. i - 1 : o \in Creates[txns[n]]
  BY <1>2, <1>4, <1>5
<1>7. n \in DOMAIN txns
  BY <1>1, <1>6
<1> QED BY <1>1, <1>2, <1>6, <1>7, TxAssumption

\* The transactions of a block come behind those of the blocks above it.
LEMMA EarlierBelow ==
  ASSUME NEW b \in Blocks \ {Genesis}, NEW q \in Seq(Txs), EarlierLast(q),
         ToSet(q) \cap ConfirmedAt[b] = {}
  PROVE  /\ EarlierLast(q \o Reverse(BlockTxs[b]))
         /\ q \o Reverse(BlockTxs[b]) \in Seq(Txs)
<1> DEFINE r == BlockTxs[b]
           all == q \o Reverse(r)
           l == Len(q)
           n == Len(r)
<1>1. r \in Seq(Txs) /\ l \in Nat /\ n \in Nat /\ DOMAIN q = 1 .. l /\ DOMAIN r = 1 .. n
  BY BlockTxsAre
<1>2. /\ all \in Seq(Txs) /\ Len(all) = l + n
      /\ \A i \in 1 .. l : all[i] = q[i]
      /\ \A i \in 1 .. n : all[l + i] = r[(n - i) + 1]
  <2> DEFINE v == Reverse(r)
  <2>1. \A i \in 1 .. n : r[i] \in Txs /\ (n - i) + 1 \in 1 .. n
    BY <1>1
  <2>2. v = [i \in 1 .. n |-> r[(n - i) + 1]]
    BY DEF Reverse
  <2>3. v \in Seq(Txs) /\ Len(v) = n /\ \A i \in 1 .. n : v[i] = r[(n - i) + 1]
    BY <1>1, <2>1, <2>2
  <2> HIDE DEF v, r
  <2>4. /\ q \o v \in Seq(Txs) /\ Len(q \o v) = l + n
        /\ \A i \in 1 .. l + n : (q \o v)[i] = IF i <= l THEN q[i] ELSE v[i - l]
    BY <2>3, ConcatProperties
  <2> HIDE DEF l, n
  <2>5. \A i \in 1 .. l : (q \o v)[i] = q[i]
    BY <1>1, <2>4
  <2>6. \A i \in 1 .. n : (q \o v)[l + i] = v[i]
    <3> TAKE i \in 1 .. n
    <3>1. l + i \in 1 .. l + n /\ ~(l + i <= l) /\ (l + i) - l = i
      BY <1>1
    <3> QED BY <2>4, <3>1
  <2> QED BY <2>3, <2>4, <2>5, <2>6 DEF v
<1> HIDE DEF all, l, n
<1>3. ASSUME NEW x, x \in ToSet(r)
      PROVE  \E i \in 1 .. n : r[i] = x
  BY <1>1, <1>3 DEF ToSet
<1>4. ASSUME NEW m \in 1 .. n
      PROVE  l + ((n - m) + 1) \in l + 1 .. l + n /\ all[l + ((n - m) + 1)] = r[m]
  <2>1. (n - m) + 1 \in 1 .. n /\ (n - ((n - m) + 1)) + 1 = m
    BY <1>1
  <2>2. all[l + ((n - m) + 1)] = r[(n - ((n - m) + 1)) + 1]
    BY <1>2, <2>1
  <2> QED BY <1>1, <2>1, <2>2
<1>5. ASSUME NEW x \in ToSet(all)
      PROVE  x \in ToSet(q) \cup ToSet(r)
  <2>1. PICK i \in 1 .. l + n : all[i] = x
    BY <1>2 DEF ToSet
  <2>2. CASE i <= l
    <3>1. i \in DOMAIN q /\ q[i] = x
      BY <1>1, <1>2, <2>1, <2>2
    <3> QED BY <3>1 DEF ToSet
  <2>3. CASE i > l
    <3>1. i - l \in 1 .. n /\ l + (i - l) = i /\ (n - (i - l)) + 1 \in 1 .. n
      BY <1>1, <2>3
    <3>2. r[(n - (i - l)) + 1] = x
      BY <1>2, <2>1, <3>1
    <3> QED BY <1>1, <3>1, <3>2 DEF ToSet
  <2> QED BY <1>1, <2>2, <2>3
<1> SUFFICES ASSUME NEW i \in 1 .. l + n, NEW x \in ToSet(all), Creates[x] \cap Spends[all[i]] # {}
             PROVE  \E k \in i + 1 .. l + n : all[k] = x
  BY <1>2 DEF EarlierLast, all, r
<1>6. CASE i <= l
  <2>1. i \in 1 .. l /\ all[i] = q[i]
    BY <1>1, <1>2, <1>6
  <2>2. CASE x \in ToSet(r)
    <3>1. PICK m \in 1 .. n : r[m] = x
      BY <1>3, <2>2
    <3>2. l + ((n - m) + 1) \in i + 1 .. l + n
      BY <1>1, <1>4, <1>6
    <3> QED BY <1>4, <3>1, <3>2
  <2>3. CASE x \in ToSet(q)
    <3>1. PICK k \in i + 1 .. l : q[k] = x
      BY <2>1, <2>3 DEF EarlierLast, l
    <3>2. k \in i + 1 .. l + n /\ all[k] = q[k]
      BY <1>1, <1>2, <2>1
    <3> QED BY <3>1, <3>2
  <2> QED BY <1>5, <2>2, <2>3
<1>7. CASE i > l
  <2> DEFINE m == (n - (i - l)) + 1
  <2>1. i - l \in 1 .. n /\ l + (i - l) = i /\ m \in 1 .. n /\ i = l + ((n - m) + 1)
    BY <1>1, <1>7
  <2>2. all[i] = r[m] /\ m \in DOMAIN r
    BY <1>1, <1>2, <2>1
  <2>3. r[m] \in ConfirmedAt[b]
    BY <2>2, ConfirmedIs DEF ToSet
  <2>4. x \in Txs
    BY <1>2 DEF ToSet
  <2>5. x \in ConfirmedAt[b]
    BY <2>2, <2>3, <2>4, ParentsAreConfirmed
  <2>6. x \in ToSet(r)
    BY <1>5, <2>5
  <2> HIDE DEF m
  <2>7. PICK k \in 1 .. m - 1 : r[k] = x
    BY <2>2, <2>6, EarlierInBlock
  <2>8. k \in 1 .. n /\ l + ((n - k) + 1) \in i + 1 .. l + n
    BY <1>1, <2>1
  <2> QED BY <1>4, <2>7, <2>8
<1> QED BY <1>1, <1>6, <1>7

\* Less of all that stays orderly.
LEMMA OrderlyLess ==
  ASSUME NEW q, NEW P, NEW b, NEW old, Orderly(q, P, b, old),
         NEW r, EarlierLast(r), NEW a, ToSet(r) \subseteq ToSet(q) \ ConfirmedAt[a], NEW Q \in SUBSET P
  PROVE  Orderly(r, Q, a, old)
BY DEF Orderly, Children

\* A block is disconnected.
LEMMA DisconnectTipReturns ==
  ASSUME MempoolInv, LocksInv, ReturnInv, DisconnectTip
  PROVE  ReturnInv'
<1> DEFINE q == disconnectpool
           all == q \o Reverse(BlockTxs[tip])
           over == Overflow(all)
           lost == ToSet(SubSeq(all, 1, over))
           left == SubSeq(all, over + 1, Len(all))
           P == DOMAIN pool
           txns == ToSet(BlockTxs[tip])
           old == IF pc = "rest" THEN tip ELSE pindexOldTip
<1>1. /\ pc \in {"rest", "reorg"} /\ tip \in Blocks \ {Genesis} /\ q \in Seq(Txs)
      /\ pc = "reorg" => tip \in Path[pindexOldTip]
      /\ disconnectpool' = left /\ pool' = RemoveRecursive(pool, lost)
      /\ tip' = Parent[tip] /\ pc' = "reorg" /\ pindexOldTip' = old /\ evicted' = evicted \cup lost
  BY DEF DisconnectTip, MempoolInv, Typed, Goto
<1>2. DOMAIN pool' \subseteq P
  BY <1>1 DEF RemoveRecursive, Without, Restrict
<1>3. /\ BlockTxs[tip] \in Seq(Txs) /\ Parent[tip] \in Blocks
      /\ ConfirmedAt[tip] = ConfirmedAt[Parent[tip]] \cup txns /\ ConfirmedAt[tip] \subseteq Txs
      /\ txns \cap ConfirmedAt[Parent[tip]] = {}
  BY <1>1, BlockTxsAre, ParentFacts, ConfirmedIs, ChainAssumption DEF ToSet
<1>4. /\ P \in SUBSET Txs /\ P \cap ConfirmedAt[tip] = {} /\ Sourced(P, Spendable)
  BY PoolIs DEF LocksInv, MempoolInv, Sound
<1>5. /\ Orderly(q, P, tip, old) /\ tip \in Path[old] /\ P \cap ConfirmedAt[old] = {}
      /\ (ConfirmedAt[old] \ ConfirmedAt[tip]) \ evicted \subseteq ToSet(q)
  <2>1. CASE pc = "rest"
    <3>1. q = <<>> /\ ToSet(q) = {} /\ Len(q) = 0
      BY <2>1, OutsOfNothing DEF MempoolInv, Typed
    <3>2. EarlierLast(q) /\ Children(ToSet(q), P) = {}
      BY <3>1 DEF EarlierLast, Children
    <3> QED BY <1>1, <1>4, <2>1, <3>1, <3>2, ChainFacts DEF Orderly
  <2>2. CASE pc = "reorg"
    <3>1. Reorganising /\ old = pindexOldTip
      BY <2>2 DEF Reorganising
    <3> QED BY <1>1, <2>2, <3>1 DEF ReturnInv, Returning
  <2> QED BY <1>1, <2>1, <2>2
<1>6. ConfirmedAt[tip] \subseteq ConfirmedAt[old]
  BY <1>5, ConfirmedBelow DEF Orderly
<1>7. /\ ToSet(q) \cup txns \subseteq lost \cup ToSet(left) /\ ToSet(left) \subseteq ToSet(q) \cup txns
      /\ over \in 0 .. Len(all)
  BY <1>1, <1>3, OverflowFacts
<1>8. EarlierLast(left)
  <2>1. EarlierLast(all) /\ all \in Seq(Txs)
    <3>1. EarlierLast(q) /\ ToSet(q) \cap ConfirmedAt[tip] = {}
      BY <1>5 DEF Orderly
    <3> QED BY <1>1, <3>1, EarlierBelow
  <2> HIDE DEF all, over
  <2> QED BY <1>7, <2>1, EarlierBack
<1>9. ASSUME NEW t \in txns, NEW c \in P, NEW o \in Spends[t] \cap Spends[c]
      PROVE  FALSE
  <2>1. t \in ConfirmedAt[tip] /\ o \in Ins(ConfirmedAt[tip])
    BY <1>3 DEF Ins
  <2>2. o \notin DOMAIN CoinsTip
    BY <1>1, <2>1, CoinsAre DEF CoinsTip
  <2>3. PICK x \in ToSet(q) \cup P : o \in Creates[x]
    BY <1>4, <2>2 DEF Sourced, Spendable, Outs
  <2>4. x \in Txs /\ x \notin ConfirmedAt[tip]
    BY <1>1, <1>4, <1>5 DEF Orderly, ToSet
  <2> QED BY <1>1, <2>1, <2>3, <2>4, ParentsAreConfirmed
<1> HIDE DEF q, all, over, lost, left, P, txns, old
<1>10. Orderly(left, DOMAIN pool', Parent[tip], old)
  <2>1. ToSet(left) \subseteq ConfirmedAt[old] \ ConfirmedAt[Parent[tip]]
    BY <1>3, <1>5, <1>6, <1>7 DEF Orderly
  <2>2. ToSet(left) \cap P = {} /\ \A t \in ToSet(left), c \in P : Spends[t] \cap Spends[c] = {}
    BY <1>3, <1>4, <1>5, <1>7, <1>9 DEF Orderly
  <2>3. Children(ToSet(left), DOMAIN pool') \cap ConfirmedAt[old] = {}
    BY <1>2, <1>5 DEF Children
  <2>4. old \in Blocks
    BY <1>5 DEF Orderly
  <2> QED BY <1>2, <1>8, <2>1, <2>2, <2>3, <2>4 DEF Orderly
<1>11. DOMAIN pool' \cap ConfirmedAt[old] = {}
  BY <1>2, <1>5
<1>12. (ConfirmedAt[old] \ ConfirmedAt[Parent[tip]]) \ (evicted \cup lost) \subseteq ToSet(left)
  BY <1>3, <1>5, <1>7
<1> QED BY <1>1, <1>10, <1>11, <1>12 DEF ReturnInv, Returning

\* A block is connected: what it confirms waits no more.
LEMMA ConnectTipReturns ==
  ASSUME MempoolInv, ReturnInv, NEW b \in Blocks, ConnectTip(b)
  PROVE  ReturnInv'
<1> DEFINE txns == ToSet(BlockTxs[b])
           q == disconnectpool
           left == WithoutTxs(q, txns)
<1>1. /\ pc \in {"rest", "reorg"} /\ q \in Seq(Txs) /\ disconnectpool' = left /\ tip = Parent[b]
      /\ pool' = RemoveForBlock(txns) /\ tip' = b /\ UNCHANGED <<pc, pindexOldTip, evicted>>
      /\ tip \in Blocks
  BY DEF ConnectTip, MempoolInv, Typed
<1>2. DOMAIN pool' \subseteq DOMAIN pool
  BY <1>1 DEF RemoveForBlock, RemoveRecursive, Without, Restrict
<1>3. ConfirmedAt[b] = ConfirmedAt[tip] \cup txns
  BY <1>1, ConfirmedIs, TreeAssumption
<1> SUFFICES ASSUME pc = "reorg"
             PROVE  ReturnInv'
  BY <1>1 DEF ReturnInv, Reorganising
<1>4. /\ Orderly(q, DOMAIN pool, tip, pindexOldTip) /\ DOMAIN pool \cap ConfirmedAt[pindexOldTip] = {}
      /\ Returning \subseteq ToSet(q)
  BY DEF ReturnInv, Reorganising
<1>5. ToSet(left) = ToSet(q) \ txns /\ EarlierLast(left)
  BY <1>1, <1>4, WithoutTxsFacts, EarlierWithout DEF Orderly
<1> HIDE DEF txns, q, left
<1>6. Orderly(left, DOMAIN pool', b, pindexOldTip)
  <2>1. ToSet(left) \subseteq ToSet(q) \ ConfirmedAt[b]
    BY <1>3, <1>4, <1>5 DEF Orderly
  <2> QED BY <1>2, <1>4, <1>5, <2>1, OrderlyLess
<1>7. (ConfirmedAt[pindexOldTip] \ ConfirmedAt[b]) \ evicted \subseteq ToSet(left)
  BY <1>3, <1>4, <1>5 DEF Returning
<1> QED BY <1>1, <1>2, <1>4, <1>6, <1>7 DEF ReturnInv, Returning

\* RemoveRecursive takes out only what descends from what it is given.
LEMMA RemovalSpares ==
  ASSUME NEW entries, DOMAIN entries \subseteq Txs, NEW S \in SUBSET Txs, NEW Z \in SUBSET Txs,
         S \cap DOMAIN entries \subseteq Z, Children(S, DOMAIN entries) \subseteq Z,
         Children(Z, DOMAIN entries) \subseteq Z
  PROVE  DOMAIN entries \ Z \subseteq DOMAIN RemoveRecursive(entries, S)
<1> DEFINE P == DOMAIN entries
           X == S \cap P
           Y == Children(S, P)
<1>1. P \in SUBSET Txs /\ X \in SUBSET Txs /\ Y \in SUBSET Txs
  BY DEF Children
<1>2. DOMAIN RemoveRecursive(entries, S) = P \ (Descendants(X, P) \cup Descendants(Y, P))
  BY DEF RemoveRecursive, Without, Restrict
<1> HIDE DEF P, X, Y
<1>3. Descendants(X, P) \subseteq Z /\ Descendants(Y, P) \subseteq Z
  BY <1>1, DescendantFacts DEF X, Y, P
<1> QED BY <1>2, <1>3 DEF P

\* What is refused without conflicts, and not for the limits, will be refused again.
LEMMA RefusedIsHopeless ==
  ASSUME NEW t \in Txs, tip \in Blocks, t \notin DOMAIN pool, Conflicts(t) = {},
         AcceptSingleTransaction(t, ReorgAccept, {}) \notin {"valid", "policy"}
  PROVE  \/ t \in Coinbases \/ ~ReadyAt(t, tip)
         \/ ~(Spends[t] \subseteq DOMAIN CoinsTip \cup Outs(DOMAIN pool))
<1> SUFFICES ASSUME t \notin Coinbases, ReadyAt(t, tip),
                    Spends[t] \subseteq DOMAIN CoinsTip \cup Outs(DOMAIN pool)
             PROVE  FALSE
  OBVIOUS
<1>1. LocksRunOut(t)
  BY ReadyIs
<1>2. ReorgAccept.bypassLimits
  BY DEF ReorgAccept, SingleAccept
<1>3. PreChecks(t, ReorgAccept, {}) \in {"policy", "valid"}
  <2> DEFINE available == {} \cup DOMAIN CoinsTip \cup UNION {Creates[p] : p \in DOMAIN pool}
  <2>1. Spends[t] \subseteq available
    BY DEF Outs
  <2>2. ~(Ancestors(t, DOMAIN pool) \cap Conflicts(t) # {}) /\ ~(Conflicts(t) # {})
    OBVIOUS
  <2>3. CheckFinalTxAtTip(t) /\ CheckSequenceLocksAtTip(CalculateLockPointsAtTip(t)) /\ Mature(t)
    BY <1>1 DEF LocksRunOut
  <2> HIDE DEF available
  <2> QED BY <1>2, <2>1, <2>2, <2>3 DEF PreChecks, available
<1> QED BY <1>3 DEF AcceptSingleTransaction

\* A disconnected transaction is tried again.
LEMMA ReAddTxReturns ==
  ASSUME MempoolInv, ReturnInv, NoneRefusedForLimits, ReAddTx
  PROVE  ReturnInv'
<1> DEFINE t == EarliestConfirmed
           q == disconnectpool
           left == WithoutTxs(q, {t})
           P == DOMAIN pool
           Q == DOMAIN pool'
           old == pindexOldTip
<1>1. /\ pc = "update" /\ q # <<>> /\ q \in Seq(Txs) /\ disconnectpool' = left
      /\ UNCHANGED <<tip, pc, pindexOldTip, evicted, fAddToMempool>>
      /\ IF fAddToMempool /\ AcceptSingleTransaction(t, ReorgAccept, {}) = "valid"
         THEN pool' = Finalize(t) ELSE pool' = RemoveRecursive(pool, {t})
      /\ fAddToMempool => AcceptSingleTransaction(t, ReorgAccept, {}) # "policy"
  BY DEF ReAddTx, MempoolInv, Typed, NoneRefusedForLimits
<1>2. Len(q) \in 1 .. Len(q) /\ t = q[Len(q)] /\ t \in ToSet(q) /\ t \in Txs
  <2>1. Len(q) \in 1 .. Len(q) /\ DOMAIN q = 1 .. Len(q)
    BY <1>1
  <2> QED BY <1>1, <2>1 DEF EarliestConfirmed, Last, ToSet
<1>3. Orderly(q, P, tip, old) /\ old \in Blocks /\ P \in SUBSET Txs /\ tip \in Blocks
  BY <1>1, PoolIs DEF ReturnInv, Reorganising, Orderly
<1>4. ToSet(left) = ToSet(q) \ {t} /\ EarlierLast(left)
  BY <1>1, <1>3, WithoutTxsFacts, EarlierWithout DEF Orderly
<1> HIDE DEF t, left
<1>5. t \notin P /\ Conflicts(t) = {} /\ t \in ConfirmedAt[old]
  BY <1>2, <1>3 DEF Orderly, Conflicts
<1>6. \A x \in ToSet(q) : Creates[x] \cap Spends[t] = {}
  <2>1. Len(q) + 1 .. Len(q) = {}
    BY <1>2
  <2> QED BY <1>2, <1>3, <2>1 DEF Orderly, EarlierLast
<1>7. /\ Q \subseteq P \cup {t} /\ P \cap ConfirmedAt[old] \subseteq Q
      /\ t \in Q \/ (Q \subseteq P /\ (fAddToMempool =>
                       AcceptSingleTransaction(t, ReorgAccept, {}) \notin {"valid", "policy"}))
  <2>1. CASE fAddToMempool /\ AcceptSingleTransaction(t, ReorgAccept, {}) = "valid"
    <3>1. Q = (P \ AllConflicting(t)) \cup {t}
      <4>1. PreChecks(t, ReorgAccept, {}) = "valid"
        BY <2>1, SingleAccepted
      <4> QED BY <1>1, <1>2, <1>3, <2>1, <4>1, FinalizeIs
    <3>2. AllConflicting(t) = {}
      <4>1. {} \in SUBSET Txs /\ Children({}, P) = {}
        BY DEF Children
      <4> QED BY <1>3, <1>5, <4>1, DescendantFacts DEF AllConflicting
    <3> QED BY <3>1, <3>2
  <2>2. CASE ~(fAddToMempool /\ AcceptSingleTransaction(t, ReorgAccept, {}) = "valid")
    <3> DEFINE Z == Txs \ ConfirmedAt[old]
    <3>1. pool' = RemoveRecursive(pool, {t})
      BY <1>1, <2>2
    <3>2. Children({t}, P) \subseteq Z
      BY <1>2, <1>3 DEF Orderly, Children
    <3>3. Children(Z, P) \subseteq Z
      <4> SUFFICES ASSUME NEW c \in P, NEW p \in Z, Creates[p] \cap Spends[c] # {}
                   PROVE  c \in Z
        BY <1>3 DEF Children
      <4> QED BY <1>3, ParentsAreConfirmed
    <3>4. {t} \cap P \subseteq Z /\ {t} \in SUBSET Txs /\ Z \in SUBSET Txs
      BY <1>2, <1>5
    <3> HIDE DEF Z
    <3>5. P \ Z \subseteq Q
      BY <1>3, <3>1, <3>2, <3>3, <3>4, RemovalSpares
    <3>6. Q \subseteq P
      BY <3>1 DEF RemoveRecursive, Without, Restrict
    <3> QED BY <1>1, <1>3, <2>2, <3>5, <3>6 DEF Z
  <2> QED BY <2>1, <2>2
<1> HIDE DEF P, Q, q, old
<1>8. Orderly(left, Q, tip, old)
  <2>1. \A u \in ToSet(left), c \in Q : Spends[u] \cap Spends[c] = {}
    <3> SUFFICES ASSUME NEW u \in ToSet(left), NEW c \in Q
                 PROVE  Spends[u] \cap Spends[c] = {}
      OBVIOUS
    <3>1. u # t /\ u \in ToSet(q) /\ u \in ConfirmedAt[old]
      BY <1>3, <1>4 DEF Orderly
    <3>2. CASE c = t
      BY <1>3, <1>5, <3>1, <3>2, ChainSpendsOnce DEF OnceSpent
    <3>3. CASE c \in P
      BY <1>3, <3>1, <3>3 DEF Orderly
    <3> QED BY <1>7, <3>2, <3>3
  <2>2. Children(ToSet(left), Q) \cap ConfirmedAt[old] = {}
    BY <1>3, <1>4, <1>6, <1>7 DEF Orderly, Children
  <2>3. ToSet(left) \cap Q = {} /\ ToSet(left) \subseteq ConfirmedAt[old] \ ConfirmedAt[tip]
    BY <1>3, <1>4, <1>7 DEF Orderly
  <2> QED BY <1>3, <1>4, <2>1, <2>2, <2>3 DEF Orderly
<1>9. /\ Spendable' \cup Outs(Q) \subseteq Spendable \cup Outs(P)
      /\ Spendable' = DOMAIN CoinsTip \cup Outs(ToSet(left))
  <2>1. Spendable' = DOMAIN CoinsTip \cup Outs(ToSet(left))
    BY <1>1 DEF Spendable, CoinsTip
  <2>2. Spendable = DOMAIN CoinsTip \cup Outs(ToSet(q))
    BY DEF Spendable, q
  <2> QED BY <1>2, <1>4, <1>7, <2>1, <2>2 DEF Outs
<1>10. ASSUME NEW u, Hopeless(u)
       PROVE  Hopeless(u)'
  BY <1>1, <1>9, <1>10 DEF Hopeless, P, Q
<1>11. ASSUME fAddToMempool, t \notin Q, NEW u, u = t
       PROVE  Hopeless(u)'
  <2>1. Q \subseteq P /\ AcceptSingleTransaction(t, ReorgAccept, {}) \notin {"valid", "policy"}
    BY <1>7, <1>11
  <2>2. \/ t \in Coinbases \/ ~ReadyAt(t, tip)
        \/ ~(Spends[t] \subseteq DOMAIN CoinsTip \cup Outs(P))
    BY <1>2, <1>3, <1>5, <2>1, RefusedIsHopeless DEF P
  <2>3. ASSUME NEW o \in Spends[t], o \notin DOMAIN CoinsTip \cup Outs(P)
        PROVE  o \notin Spendable' \cup Outs(Q)
    <3>1. o \notin Outs(ToSet(left))
      BY <1>4, <1>6 DEF Outs
    <3>2. o \notin Outs(Q)
      BY <2>1, <2>3 DEF Outs
    <3> QED BY <1>9, <2>3, <3>1, <3>2
  <2> QED BY <1>1, <1>11, <2>2, <2>3 DEF Hopeless, Q
<1>12. ASSUME fAddToMempool, NEW u \in Returning
       PROVE  u \in ToSet(left) \/ u \in Q \/ Hopeless(u)'
  <2>1. u \in ToSet(q) \/ u \in P \/ Hopeless(u)
    BY <1>1, <1>12 DEF ReturnInv, Reorganising, q, P
  <2>2. u \in ConfirmedAt[old]
    BY <1>12 DEF Returning, old
  <2> QED BY <1>4, <1>7, <1>10, <1>11, <1>12, <2>1, <2>2
<1>13. Returning' = Returning
  BY <1>1 DEF Returning
<1> QED BY <1>1, <1>8, <1>12, <1>13 DEF ReturnInv, Q, old

\* Every step keeps it while nothing is refused for the limits.
LEMMA ReturnStep ==
  ASSUME MempoolInv, LocksInv, ReturnInv, NoneRefusedForLimits, [AssemblerNext]_<<vars, asmVars>>
  PROVE  ReturnInv'
<1>1. CASE \E fAdd \in BOOLEAN : MaybeUpdateMempoolForReorg(fAdd)
  <2>1. /\ pc = "reorg" /\ pc' = "update"
        /\ UNCHANGED <<tip, pool, pindexOldTip, disconnectpool, evicted>>
    BY <1>1 DEF MaybeUpdateMempoolForReorg, Goto
  <2> QED BY <2>1 DEF ReturnInv, Reorganising, Returning
<1>2. CASE \/ Continue /\ ~ReAddTx
           \/ \E t \in Txs : AcceptToMemoryPool(t)
           \/ \E p \in Packages : ProcessNewPackage(p)
           \/ MinFeeDecays
  <2>1. pc' \notin {"reorg", "update"}
    BY <1>2 DEF Continue, PackageTx, AcceptPackage, PackageReturn, FinishUpdate, AcceptToMemoryPool,
       ProcessNewPackage, MinFeeDecays, Goto
  <2> QED BY <2>1 DEF ReturnInv, Reorganising
<1>3. CASE Next
  BY <1>1, <1>2, <1>3, DisconnectTipReturns, ConnectTipReturns, ReAddTxReturns DEF Next, Continue
<1>4. CASE (CreateNewBlock \/ addPackageTxs) /\ UNCHANGED <<tip, pool, minFee, reorgVars, pkg>>
  <2>1. pc' \notin {"reorg", "update"}
    BY <1>4, AssemblerLabels
  <2> QED BY <2>1 DEF ReturnInv, Reorganising
<1>5. CASE UNCHANGED <<vars, asmVars>>
  BY <1>5 DEF vars, reorgVars, ReturnInv, Reorganising, Returning, Hopeless, Spendable, CoinsTip
<1> QED BY <1>3, <1>4, <1>5 DEF AssemblerNext

\* It says of the end what the run checks.
LEMMA ReturnedAtEnd ==
  ASSUME MempoolInv, ReturnInv
  PROVE  ComesBack
<1> SUFFICES ASSUME AllTried, fAddToMempool, NEW t \in Returning, t \notin DOMAIN pool
             PROVE  AcceptSingleTransaction(t, ReorgAccept, {}) # "valid"
  BY DEF ComesBack, Returning
<1>1. pc = "update" /\ Spendable = DOMAIN CoinsTip /\ ToSet(disconnectpool) = {} /\ tip \in Blocks
  BY AtRest, OutsOfNothing DEF AllTried, MempoolInv, Typed
<1>2. Hopeless(t) /\ t \in Txs
  <2>1. pindexOldTip \in Blocks
    BY <1>1 DEF ReturnInv, Reorganising, Orderly
  <2>2. t \in Txs
    BY <2>1, ConfirmedIs DEF Returning
  <2> QED BY <1>1, <2>2 DEF ReturnInv, Reorganising
<1> SUFFICES ASSUME PreChecks(t, ReorgAccept, {}) = "valid"
             PROVE  FALSE
  BY SingleAccepted
<1> QED BY <1>1, <1>2, PreChecksPassed, PassedIsReady DEF Hopeless

\* It holds as long as nothing is refused for the limits.
LEMMA ReturnHolds == AssemblerSpec /\ []NoneRefusedForLimits => []ReturnInv
<1>1. AssemblerInit => ReturnInv
  BY DEF AssemblerInit, Init, ReturnInv, Reorganising
<1>2. MempoolInv /\ LocksInv /\ ReturnInv /\ NoneRefusedForLimits /\ [AssemblerNext]_<<vars, asmVars>>
        => ReturnInv'
  BY ReturnStep
<1> QED BY <1>1, <1>2, InvHolds, LocksHold, PTL DEF AssemblerSpec

\* What a reorganisation disconnected and did not confirm again is back in the mempool, or would
\* still be refused when all has been tried: as long as nothing is refused for the limits on
\* relatives only.  A refusal for these may become unjust when what is tried later takes
\* descendants with it.
THEOREM ReorgLosesNothing == AssemblerSpec /\ []NoneRefusedForLimits => []ComesBack
BY ReturnHolds, InvHolds, ReturnedAtEnd, PTL
=============================================================================
