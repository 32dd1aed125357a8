--------------------------- MODULE BlockAssembler ---------------------------
(***************************************************************************)
(* BlockAssembler::addPackageTxs on whatever the mempool has come to hold: *)
(* transactions are taken with their ancestors, the best rate first, until *)
(* the block is full or what is left pays too little.  The locks are held  *)
(* throughout, so the mempool does not change meanwhile.                   *)
(***************************************************************************)
EXTENDS Mempool

CONSTANTS
  ReservedSize, MaxBlockSize, \* what the coinbase is given, and nBlockMaxWeight
  BlockMinFeeRate,
  MaxConsecutiveFailures, NearlyFull

\* Options has the limit of the block between what is reserved and the consensus limit.
ASSUME BlockAssumption ==
  /\ ReservedSize \in Nat /\ MaxBlockSize \in Nat /\ ReservedSize <= MaxBlockSize
  /\ BlockMinFeeRate \in Nat /\ MaxConsecutiveFailures \in Nat /\ NearlyFull \in Nat

VARIABLES
  mi,              \* what has not been taken yet from the index by ancestor score
  mapModifiedTx,   \* size and fees with the ancestors that are not in the block
  failedTx,
  block,           \* pblock->vtx without the coinbase; inBlock is the set of its elements
  nConsecutiveFailed

asmVars == <<mi, mapModifiedTx, failedTx, block, nConsecutiveFailed>>
inBlock == ToSet(block)
Pool == DOMAIN pool

-----------------------------------------------------------------------------
(* Packages and their scores. *)

WithAncestors(t) == {t} \cup Ancestors(t, Pool)
Sums(S) == [size |-> Sizes(S), fees |-> Fees(S)]
Minus(e, S) == [size |-> e.size - Sizes(S), fees |-> e.fees - Fees(S)]

\* CompareTxMemPoolEntryByAncestorFee: the lower of the rate of t and that of its package e.
Rate(t, e) == IF Fee[t] * e.size > e.fees * Size[t] THEN e ELSE Sums({t})
AtLeast(t, e, u, f) == Rate(t, e).fees * Rate(u, f).size >= Rate(u, f).fees * Rate(t, e).size

MapTx(t) == Sums(WithAncestors(t))
AncestorCount(S) == [t \in S |-> Cardinality(Ancestors(t, Pool))]
SortForBlock_Descending(S) ==                                       \* faulty
  LET count == AncestorCount(S)
  IN  CHOOSE s \in SetToSeqs(S) : \A i, n \in DOMAIN s : i < n => count[s[i]] >= count[s[n]]
SortForBlock(S) ==
  LET count == AncestorCount(S)
  IN  CHOOSE s \in SetToSeqs(S) : \A i, n \in DOMAIN s : i < n => count[s[i]] <= count[s[n]]

nBlockSize == ReservedSize + Sizes(inBlock)
TestPackage(size) == nBlockSize + size < MaxBlockSize
onlyUnconfirmed(S) == S \ inBlock
TestPackageTransactions(S) == \A t \in S : CheckFinalTxAtTip(t)

-----------------------------------------------------------------------------
CreateNewBlock ==
  /\ pc = "rest"
  /\ mi' = Pool
  /\ mapModifiedTx' = [t \in {} |-> 0] /\ failedTx' = {} /\ block' = <<>>
  /\ nConsecutiveFailed' = 0
  /\ Goto("assemble")

\* Entries of the index that are not skipped: their sums are those of the mempool.
Fresh == mi \ (DOMAIN mapModifiedTx \cup inBlock \cup failedTx)

\* The descendants of what was added pay for less now.
ModifiedEntry_Full(t, added) == MapTx(t)                            \* faulty
ModifiedEntry(t, added) ==
  Minus(IF t \in DOMAIN mapModifiedTx THEN mapModifiedTx[t] ELSE MapTx(t), added \cap Ancestors(t, Pool))

UpdatePackagesForAdded(added) ==
  LET updated == Descendants(added, Pool) \ added
  IN  [t \in (DOMAIN mapModifiedTx \cup updated) \ added |->
         IF t \in updated THEN ModifiedEntry(t, added) ELSE mapModifiedTx[t]]

AddPackage(t) ==
  LET added == onlyUnconfirmed(WithAncestors(t))
  IN  /\ block' = block \o SortForBlock(added)
      /\ mapModifiedTx' = UpdatePackagesForAdded(added)
      /\ nConsecutiveFailed' = 0
      /\ UNCHANGED <<pc, failedTx>>

\* A modified entry that failed has to leave the set it is the best of.
EraseFailed_Stays(t, usingModified) == UNCHANGED <<mapModifiedTx, failedTx>>  \* faulty
EraseFailed(t, usingModified) ==
  IF usingModified THEN mapModifiedTx' = Without(mapModifiedTx, {t}) /\ failedTx' = failedTx \cup {t}
  ELSE UNCHANGED <<mapModifiedTx, failedTx>>

\* One pass of the loop for t, whose package sums to e.
Evaluate(t, e, usingModified) ==
  \/ /\ e.fees < BlockMinFeeRate * e.size
     /\ Goto("template")
     /\ UNCHANGED <<mapModifiedTx, failedTx, block, nConsecutiveFailed>>
  \/ /\ e.fees >= BlockMinFeeRate * e.size /\ ~TestPackage(e.size)
     /\ EraseFailed(t, usingModified)
     /\ nConsecutiveFailed' = nConsecutiveFailed + 1
     /\ Goto(IF nConsecutiveFailed' > MaxConsecutiveFailures /\ nBlockSize > MaxBlockSize - NearlyFull
             THEN "template" ELSE "assemble")
     /\ UNCHANGED block
  \/ /\ e.fees >= BlockMinFeeRate * e.size /\ TestPackage(e.size)
     /\ IF TestPackageTransactions(onlyUnconfirmed(WithAncestors(t))) THEN AddPackage(t)
        ELSE EraseFailed(t, usingModified) /\ UNCHANGED <<pc, block, nConsecutiveFailed>>

\* The best entry of the index, or of mapModifiedTx if that is better.  Between equal
\* scores the hash decides, which may go either way.
Best(t, e) ==
  /\ \A u \in DOMAIN mapModifiedTx : AtLeast(t, e, u, mapModifiedTx[u])
  /\ \A u \in Fresh : AtLeast(t, e, u, MapTx(u))

EvaluateModified ==
  /\ pc = "assemble"
  /\ \E t \in DOMAIN mapModifiedTx :
       Best(t, mapModifiedTx[t]) /\ Evaluate(t, mapModifiedTx[t], TRUE)
  /\ UNCHANGED mi

EvaluateMapTx ==
  /\ pc = "assemble"
  /\ \E t \in Fresh :
       Best(t, MapTx(t)) /\ Evaluate(t, MapTx(t), FALSE) /\ mi' = mi \ {t}

NothingLeft ==
  /\ pc = "assemble" /\ Fresh = {} /\ DOMAIN mapModifiedTx = {}
  /\ Goto("template")
  /\ UNCHANGED asmVars

ReturnTemplate ==
  /\ pc = "template"
  /\ mi' = {} /\ mapModifiedTx' = [t \in {} |-> 0] /\ failedTx' = {} /\ block' = <<>>
  /\ nConsecutiveFailed' = 0
  /\ Goto("rest")

-----------------------------------------------------------------------------
AssemblerInit ==
  /\ Init
  /\ mi = {} /\ mapModifiedTx = [t \in {} |-> 0] /\ failedTx = {} /\ block = <<>>
  /\ nConsecutiveFailed = 0

addPackageTxs == EvaluateModified \/ EvaluateMapTx \/ NothingLeft \/ ReturnTemplate

AssemblerNext ==
  \/ Next /\ UNCHANGED asmVars
  \/ (CreateNewBlock \/ addPackageTxs) /\ UNCHANGED <<tip, pool, minFee, reorgVars, pkg>>

AssemblerSpec == AssemblerInit /\ [][AssemblerNext]_<<vars, asmVars>>
-----------------------------------------------------------------------------
(* Properties. *)

\* A template passes TestBlockValidity on the tip: every coin it spends is there by then and
\* is spent once, time locks have run out, coinbases are mature, and the block is not too big.
TemplateValid ==
  pc = "template" =>
    /\ \A i \in DOMAIN block :
         /\ Spends[block[i]] \subseteq
              DOMAIN CoinsTip \cup UNION {Creates[block[n]] : n \in 1 .. i - 1}
         /\ \A n \in 1 .. i - 1 : Spends[block[n]] \cap Spends[block[i]] = {}
         /\ CheckFinalTxAtTip(block[i]) /\ Mature(block[i])
         /\ CheckSequenceLocksAtTip(CalculateLockPointsAtTip(block[i]))
    /\ nBlockSize <= MaxBlockSize

\* A template leaves nothing out that fits and pays, by itself and with its ancestors, unless
\* the search was given up near the limit or the transaction had failed before.
TemplateMaximal ==
  pc = "template" /\ nConsecutiveFailed <= MaxConsecutiveFailures =>
    \A t \in Pool \ (inBlock \cup failedTx) :
      LET rest == WithAncestors(t) \ inBlock IN
      \/ Fees(rest) < BlockMinFeeRate * Sizes(rest) \/ Fee[t] < BlockMinFeeRate * Size[t]
      \/ ~TestPackage(Sizes(rest))

\* The loop of addPackageTxs ends, whichever of its three ways to go on it takes: every
\* pass adds to the block or leaves less to look at.
LoopProgresses ==
  [][pc = "assemble" /\ pc' = "assemble" =>
       \/ Len(block') > Len(block)
       \/ /\ block' = block
          /\ Cardinality(mi') + Cardinality(DOMAIN mapModifiedTx')
               < Cardinality(mi) + Cardinality(DOMAIN mapModifiedTx)]_<<vars, asmVars>>
=============================================================================
