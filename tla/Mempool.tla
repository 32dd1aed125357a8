------------------------------ MODULE Mempool ------------------------------
(***************************************************************************)
(* The mempool: single transactions and packages are accepted, replaced    *)
(* and evicted; blocks are connected and disconnected under it, and        *)
(* MaybeUpdateMempoolForReorg makes it fit the new chain again.            *)
(*                                                                         *)
(* cs_main and the mempool's lock are held from the first to the last step *)
(* of a call, so calls do not interleave; pc says which one is under way.  *)
(* The coins are those of the tip (see Coins).  CTxMemPool and the policy  *)
(* functions are not in the repository and are taken from their use.       *)
(***************************************************************************)
EXTENDS BlockTree, Sequences, FiniteSetsExt, SequencesExt, Functions

CONSTANTS
  BlockTxs,        \* BlockTxs[b]: the transactions of b, in their order
  Txs, Coinbases,
  Spends, Creates, \* the outputs a transaction spends and creates
  Fee, Size,       \* modified fee and virtual size
  LockTime,        \* nLockTime, a height; 0 is none
  RelLock,         \* relative lock of the inputs in blocks (BIP 68); 0 is none
  Signals,         \* transactions that signal replaceability
  Packages,        \* sequences of transactions that are submitted as a package
  CoinbaseMaturity, MinRelayFee, IncrementalRelayFee,
  AncestorLimit, DescendantLimit, ExtraDescendantSize, MaxReplaced,
  MaxPoolSize, MaxDisconnected,
  MaxExpired,      \* bound: entries that expire in one call
  NoPackage

ConfirmedAt ==
  [b \in Blocks |-> UNION {{BlockTxs[a][i] : i \in DOMAIN BlockTxs[a]} : a \in Path[b]}]
\* CoinsTip() when b is the tip: the unspent outputs with their heights.
CoinsAt ==
  [b \in Blocks |->
     LET spent == UNION {Spends[t] : t \in ConfirmedAt[b]}
         made == UNION {Creates[t] : t \in ConfirmedAt[b]}
     IN  [o \in made \ spent |->
            CHOOSE h \in 0 .. Height[b] : \E a \in Path[b] :
              Height[a] = h /\ \E i \in DOMAIN BlockTxs[a] : o \in Creates[BlockTxs[a][i]]]]

\* Outputs are told apart by the transaction that creates them, only coinbases spend nothing,
\* and there are no circles: a transaction's hash covers what it spends.
ASSUME TxAssumption ==
  /\ IsFiniteSet(Txs) /\ Coinbases \subseteq Txs
  /\ \A S \in SUBSET Txs \ {{}} : \E t \in S : \A u \in S : Creates[u] \cap Spends[t] = {}
  /\ \A t \in Txs : IsFiniteSet(Spends[t]) /\ (Spends[t] = {} => t \in Coinbases)
  /\ \A t, u \in Txs : t # u => Creates[t] \cap Creates[u] = {}
  /\ Fee \in [Txs -> Nat] /\ Size \in [Txs -> Nat \ {0}]
  /\ LockTime \in [Txs -> Nat] /\ RelLock \in [Txs -> Nat]

\* What ConnectBlock accepts: new transactions that spend what is there, each output once.
ASSUME ChainAssumption ==
  /\ BlockTxs \in [Blocks -> Seq(Txs)] /\ BlockTxs[Genesis] = <<>>
  /\ \A b \in Blocks \ {Genesis} : \A i \in DOMAIN BlockTxs[b] :
       /\ BlockTxs[b][i] \notin ConfirmedAt[Parent[b]]
       /\ Spends[BlockTxs[b][i]] \subseteq
            DOMAIN CoinsAt[Parent[b]] \cup UNION {Creates[BlockTxs[b][j]] : j \in 1 .. i - 1}
       /\ \A j \in 1 .. i - 1 : Spends[BlockTxs[b][j]] \cap Spends[BlockTxs[b][i]] = {}

\* What IsWellFormedPackage accepts, and the limits.
ASSUME PolicyAssumption ==
  /\ Packages \subseteq Seq(Txs)
  /\ \A p \in Packages : \A i, j \in DOMAIN p : i # j =>
       p[i] # p[j] /\ Spends[p[i]] \cap Spends[p[j]] = {}
  /\ MinRelayFee \in Nat /\ IncrementalRelayFee \in Nat /\ CoinbaseMaturity \in Nat
  /\ AncestorLimit \in Nat /\ DescendantLimit \in Nat /\ ExtraDescendantSize \in Nat
  /\ MaxReplaced \in Nat /\ MaxPoolSize \in Nat /\ MaxDisconnected \in Nat /\ MaxExpired \in Nat

\* The locals of AcceptPackage, and m_view with them.
PackageLocals ==
  [txns : Packages, next : Nat,
   results : UNION {[S -> {"MEMPOOL_ENTRY", "VALID", "INVALID"}] : S \in SUBSET Txs},
   eval : Seq(Txs), quitEarly : BOOLEAN, view : SUBSET UNION {Creates[t] : t \in Txs}]
ASSUME NoPackageAssumption == NoPackage \notin PackageLocals

VARIABLES
  tip,             \* m_chain.Tip()
  pool,            \* the entries: lock points and whether a coinbase is spent
  minFee,          \* CTxMemPool::GetMinFee
  pc,
  pindexOldTip,    \* the tip when the reorganisation began
  disconnectpool,  \* DisconnectedBlockTransactions: front is what was confirmed last
  evicted,         \* history: transactions disconnectpool had no room for
  fAddToMempool, vHashUpdate, \* of MaybeUpdateMempoolForReorg
  pkg              \* the locals of AcceptPackage

reorgVars == <<pindexOldTip, disconnectpool, evicted, fAddToMempool, vHashUpdate>>
vars == <<tip, pool, minFee, pc, reorgVars, pkg>>

Goto(label) == pc' = label
Fees(S) == SumFunctionOnSet(Fee, S)
Sizes(S) == SumFunctionOnSet(Size, S)

CoinsTip == CoinsAt[tip]
SpendHeight == Height[tip] + 1

-----------------------------------------------------------------------------
(* Relatives in a set P of transactions. *)

Parents(S, P) == {p \in P : \E t \in S : Creates[p] \cap Spends[t] # {}}
Children(S, P) == {c \in P : \E t \in S : Creates[t] \cap Spends[c] # {}}
Ancestors(t, P) ==
  FoldSet(LAMBDA x, found : found \cup Parents(found, P), Parents({t}, P), P)
Descendants(S, P) == FoldSet(LAMBDA x, found : found \cup Children(found, P), S, P)

Conflicts(t) == {c \in DOMAIN pool : c # t /\ Spends[c] \cap Spends[t] # {}}
AllConflicting(t) == Descendants(Conflicts(t), DOMAIN pool)

-----------------------------------------------------------------------------
(* Locks and maturity. *)

CheckFinalTxAtTip(t) == LockTime[t] = 0 \/ LockTime[t] < SpendHeight

\* A coin that is not of the chain is taken for confirmed in the next block.
PrevHeight(o) == IF o \in DOMAIN CoinsTip THEN CoinsTip[o] ELSE SpendHeight

CalculateLockPointsAtTip(t) ==
  LET prevHeights == {PrevHeight(o) : o \in Spends[t]}
      maxInput == Max({0} \cup (prevHeights \ {SpendHeight}))
  IN  [height |-> IF RelLock[t] = 0 THEN -1 ELSE Max(prevHeights) + RelLock[t] - 1,
       maxInputBlock |-> CHOOSE b \in Path[tip] : Height[b] = maxInput]

CheckSequenceLocksAtTip(lp) == lp.height < SpendHeight

TestLockPointValidity_Always(lp) == TRUE                            \* faulty
TestLockPointValidity(lp) == lp.maxInputBlock \in Path[tip]

SpendsCoinbase(t) == \E c \in Coinbases : Creates[c] \cap Spends[t] # {}
Mature(t) ==
  \A o \in Spends[t] \cap DOMAIN CoinsTip :
    (\E c \in Coinbases : o \in Creates[c]) => SpendHeight - CoinsTip[o] >= CoinbaseMaturity

-----------------------------------------------------------------------------
(* MemPoolAccept. *)

SingleAccept ==
  [bypassLimits |-> FALSE, allowReplacement |-> TRUE, packageFeerates |-> FALSE]
ReorgAccept == [SingleAccept EXCEPT !.bypassLimits = TRUE]
PackageChildWithParents ==
  [SingleAccept EXCEPT !.allowReplacement = FALSE, !.packageFeerates = TRUE]

CheckFeeRate(size, fee) == fee >= minFee * size /\ fee >= MinRelayFee * size

CalculateMemPoolAncestors(t, P, ancestorCount, descendantCount) ==
  /\ Cardinality(Ancestors(t, P)) + 1 <= ancestorCount
  /\ \A a \in Ancestors(t, P) : Cardinality(Descendants({a}, P)) + 1 <= descendantCount

\* With the allowance for a replacement of one transaction, and the carve-out.
WithinLimits(t) ==
  LET P == DOMAIN pool
      descendantCount == DescendantLimit + IF Cardinality(Conflicts(t)) = 1 THEN 1 ELSE 0
  IN  \/ CalculateMemPoolAncestors(t, P, AncestorLimit, descendantCount)
      \/ /\ Size[t] <= ExtraDescendantSize
         /\ CalculateMemPoolAncestors(t, P, 2, descendantCount + 1)

\* What PreChecks finds first; extra are the coins of m_view and of the package.
PreChecks(t, args, extra) ==
  LET available == extra \cup DOMAIN CoinsTip \cup UNION {Creates[p] : p \in DOMAIN pool}
  IN  IF t \in Coinbases THEN "consensus"
      ELSE IF ~CheckFinalTxAtTip(t) THEN "premature"
      ELSE IF t \in DOMAIN pool THEN "conflict"
      ELSE IF Conflicts(t) # {} /\ ~(args.allowReplacement /\ Conflicts(t) \subseteq Signals)
           THEN "policy"
      ELSE IF ~(Spends[t] \subseteq available)
           THEN IF Creates[t] \cap DOMAIN CoinsTip # {} THEN "conflict" ELSE "missing"
      ELSE IF ~CheckSequenceLocksAtTip(CalculateLockPointsAtTip(t)) \/ ~Mature(t)
           THEN "premature"
      ELSE IF ~args.bypassLimits /\ Fee[t] < MinRelayFee * Size[t] THEN "policy"
      ELSE IF ~args.bypassLimits /\ ~args.packageFeerates /\ ~CheckFeeRate(Size[t], Fee[t])
           THEN "policy"
      ELSE IF ~WithinLimits(t) THEN "policy"
      ELSE IF Ancestors(t, DOMAIN pool) \cap Conflicts(t) # {} THEN "consensus"
      ELSE "valid"

\* Rules 6, 5, 2, 3 and 4 of replacement, in this order.
ReplacementChecks(t) ==
  /\ \A c \in Conflicts(t) : Fee[t] * Size[c] > Fee[c] * Size[t]
  /\ MapThenSumSet(LAMBDA c : Cardinality(Descendants({c}, DOMAIN pool)), Conflicts(t))
       <= MaxReplaced
  /\ Parents({t}, DOMAIN pool) \subseteq Parents(Conflicts(t), DOMAIN pool)
  /\ Fee[t] - Fees(AllConflicting(t)) >= IncrementalRelayFee * Size[t]

AcceptSingleTransaction(t, args, extra) ==
  LET result == PreChecks(t, args, extra)
  IN  IF result = "valid" /\ Conflicts(t) # {} /\ ~ReplacementChecks(t) THEN "policy" ELSE result

NewEntry(t) == [lp |-> CalculateLockPointsAtTip(t), spendsCoinbase |-> SpendsCoinbase(t)]
With(entries, new) ==
  [t \in DOMAIN entries \cup new |-> IF t \in new THEN NewEntry(t) ELSE entries[t]]
Without(entries, S) == Restrict(entries, DOMAIN entries \ S)

\* Finalize; AcceptToMemoryPool trims after it.
Finalize(t) == With(Without(pool, AllConflicting(t)), {t})

-----------------------------------------------------------------------------
(* Eviction. *)

\* The entry of the lowest score: its own rate or that with its descendants.
LowestScore(P) ==
  LET Score(t) == LET d == Descendants({t}, P) IN
                  IF Fees(d) * Size[t] > Fee[t] * Sizes(d) THEN <<Fees(d), Sizes(d)>>
                  ELSE <<Fee[t], Size[t]>>
  IN  CHOOSE t \in P : \A u \in P : Score(t)[1] * Score(u)[2] <= Score(u)[1] * Score(t)[2]

TrimToSize(P) ==
  FoldSet(LAMBDA x, s :
            IF Sizes(s.kept) <= MaxPoolSize THEN s
            ELSE LET d == Descendants({LowestScore(s.kept)}, s.kept)
                 IN  [kept |-> s.kept \ d,
                      minFee |-> Max({s.minFee, Fees(d) \div Sizes(d) + IncrementalRelayFee})],
          [kept |-> P, minFee |-> minFee], P)

\* Entries that were not accepted in this call may have expired.
Expired(entries, fresh) ==
  {Descendants(old, DOMAIN entries) :
     old \in UNION {kSubset(n, DOMAIN entries \ fresh) : n \in 0 .. MaxExpired}}

LimitMempoolSize(entries, fresh) ==
  \E old \in Expired(entries, fresh) :
    LET trimmed == TrimToSize(DOMAIN entries \ old)
    IN  pool' = Restrict(entries, trimmed.kept) /\ minFee' = trimmed.minFee

-----------------------------------------------------------------------------
(* Single transactions. *)

AcceptToMemoryPool(t) ==
  /\ pc = "rest"
  /\ AcceptSingleTransaction(t, SingleAccept, {}) = "valid"
  /\ LimitMempoolSize(Finalize(t), {t})
  /\ UNCHANGED <<tip, pc, reorgVars, pkg>>

\* The minimum fee that evictions have raised goes down with time.
MinFeeDecays ==
  /\ pc = "rest" /\ minFee > 0
  /\ minFee' = 0
  /\ UNCHANGED <<tip, pool, pc, reorgVars, pkg>>

-----------------------------------------------------------------------------
(* Packages. *)

Child(p) == Last(p)
IsChildWithParents(p) ==
  Len(p) > 1 /\ \A i \in 1 .. Len(p) - 1 : Creates[p[i]] \cap Spends[Child(p)] # {}
PackageOrConfirmed(p) ==
  Spends[Child(p)] \subseteq DOMAIN CoinsTip \cup UNION {Creates[t] : t \in ToSet(p)}

ProcessNewPackage(p) ==
  /\ pc = "rest"
  /\ IsChildWithParents(p) /\ PackageOrConfirmed(p)
  /\ pkg' = [txns |-> p, next |-> 1, results |-> [t \in {} |-> ""], eval |-> <<>>,
             quitEarly |-> FALSE, view |-> Spends[Child(p)] \cap DOMAIN CoinsTip]
  /\ Goto("package")
  /\ UNCHANGED <<tip, pool, minFee, reorgVars>>

\* What is left of m_view after a subpackage: coins of transactions that are not confirmed go.
CleanView_Kept(coins) == coins                                      \* faulty
CleanView(coins) == coins \cap DOMAIN CoinsTip

\* Every transaction is tried by itself first, in its place in the package.
PackageTx ==
  /\ pc = "package" /\ pkg.next <= Len(pkg.txns)
  /\ LET t == pkg.txns[pkg.next]
         result == AcceptSingleTransaction(t, SingleAccept, pkg.view)
         found == Spends[t] \cap (DOMAIN CoinsTip \cup UNION {Creates[p] : p \in DOMAIN pool})
         tried == [pkg EXCEPT !.next = @ + 1, !.view = CleanView(@ \cup found)]
         Report(r) == [x \in DOMAIN pkg.results \cup {t} |-> IF x = t THEN r ELSE pkg.results[x]]
     IN  \/ /\ t \in DOMAIN pool
            /\ pkg' = [pkg EXCEPT !.next = @ + 1, !.results = Report("MEMPOOL_ENTRY")]
            /\ UNCHANGED pool
         \/ /\ t \notin DOMAIN pool /\ result = "valid"
            /\ pkg' = [tried EXCEPT !.results = Report("VALID")]
            /\ pool' = Finalize(t)
         \/ /\ result \in {"policy", "missing"}
            /\ pkg' = [tried EXCEPT !.eval = Append(@, t)]
            /\ UNCHANGED pool
         \/ /\ t \notin DOMAIN pool /\ result \in {"consensus", "premature", "conflict"}
            /\ pkg' = [tried EXCEPT !.quitEarly = TRUE]
            /\ UNCHANGED pool
  /\ UNCHANGED <<tip, minFee, pc, reorgVars>>

\* The package against the limits, as if all of it descended from all its ancestors.
PackageMempoolChecks_None(txns) == TRUE                             \* faulty
PackageMempoolChecks(txns) ==
  LET S == ToSet(txns)
      ancestors == UNION {Ancestors(t, DOMAIN pool) : t \in S}
  IN  /\ Cardinality(ancestors) + Len(txns) <= AncestorLimit /\ Len(txns) <= DescendantLimit
      /\ \A a \in ancestors :
           Cardinality(Descendants({a}, DOMAIN pool)) + Len(txns) <= DescendantLimit

\* AcceptMultipleTransactions, up to its submission.
PackageAccepted(txns) ==
  /\ \A i \in 1 .. Len(txns) :
       PreChecks(txns[i], PackageChildWithParents,
                 pkg.view \cup UNION {Creates[txns[j]] : j \in 1 .. i - 1}) = "valid"
  /\ CheckFeeRate(Sizes(ToSet(txns)), Fees(ToSet(txns)))
  /\ PackageMempoolChecks(txns)

\* What is left is evaluated together, or by itself again if it is a single transaction.
Submitted ==
  CASE pkg.quitEarly \/ pkg.eval = <<>> -> {}
    [] ~pkg.quitEarly /\ Len(pkg.eval) = 1 ->
         {t \in ToSet(pkg.eval) : AcceptSingleTransaction(t, SingleAccept, pkg.view) = "valid"}
    [] ~pkg.quitEarly /\ Len(pkg.eval) > 1 ->
         IF PackageAccepted(pkg.eval) THEN ToSet(pkg.eval) ELSE {}

\* SubmitPackage; a package does not replace anything.
AfterSubmission ==
  IF Len(pkg.eval) = 1 /\ Submitted # {} THEN Finalize(pkg.eval[1]) ELSE With(pool, Submitted)

\* A result counts only if the transaction has survived until here.
FinalResult_Early(t, result) == result                              \* faulty
FinalResult(t, result) == IF t \in DOMAIN pool' THEN result ELSE "INVALID"

AcceptPackage ==
  /\ pc = "package" /\ pkg.next > Len(pkg.txns)
  /\ LET new == Submitted \cup {t \in DOMAIN pkg.results : pkg.results[t] = "VALID"}
     IN  LimitMempoolSize(AfterSubmission, new)
  /\ pkg' = [pkg EXCEPT !.results =
       [t \in ToSet(pkg.txns) |->
          IF t \in Submitted THEN FinalResult(t, "VALID")
          ELSE IF t \in DOMAIN pkg.results THEN FinalResult(t, pkg.results[t])
          ELSE "INVALID"]]
  /\ Goto("reported")
  /\ UNCHANGED <<tip, reorgVars>>

PackageReturn ==
  /\ pc = "reported"
  /\ pkg' = NoPackage /\ Goto("rest")
  /\ UNCHANGED <<tip, pool, minFee, reorgVars>>

-----------------------------------------------------------------------------
(* Blocks. *)

RemoveRecursive(entries, S) ==
  Without(entries, Descendants(S \cap DOMAIN entries, DOMAIN entries)
                     \cup Descendants(Children(S, DOMAIN entries), DOMAIN entries))

\* The block's transactions leave, with all that spends the same coins.
RemoveForBlock(txns) ==
  LET left == Without(pool, txns)
      conflicts == {c \in DOMAIN left : \E t \in txns : Spends[c] \cap Spends[t] # {}}
  IN  RemoveRecursive(left, conflicts)

\* How many DisconnectedBlockTransactions gives up to keep its limit.
Overflow(all) == Max({0, Len(all) - MaxDisconnected})

\* Transactions go from the last of the tip to the first of the lowest block; when there
\* are too many the front is given up.
DisconnectTip ==
  /\ pc \in {"rest", "reorg"} /\ tip # Genesis
  /\ pc = "reorg" => tip \in Path[pindexOldTip]
  /\ LET all == disconnectpool \o Reverse(BlockTxs[tip])
         over == Overflow(all)
         lost == ToSet(SubSeq(all, 1, over))
     IN  /\ disconnectpool' = SubSeq(all, over + 1, Len(all))
         /\ evicted' = evicted \cup lost
         /\ pool' = RemoveRecursive(pool, lost)
  /\ tip' = Parent[tip]
  /\ pindexOldTip' = IF pc = "rest" THEN tip ELSE pindexOldTip
  /\ Goto("reorg")
  /\ UNCHANGED <<minFee, fAddToMempool, vHashUpdate, pkg>>

\* removeForBlock and removeEntry of DisconnectedBlockTransactions.
WithoutTxs(sequence, S) ==
  FoldLeft(LAMBDA kept, t : IF t \in S THEN kept ELSE Append(kept, t), <<>>, sequence)

ConnectTip(b) ==
  /\ pc \in {"rest", "reorg"} /\ Parent[b] = tip
  /\ pc = "reorg" => b \notin Path[pindexOldTip]
  /\ pool' = RemoveForBlock(ToSet(BlockTxs[b]))
  /\ disconnectpool' = WithoutTxs(disconnectpool, ToSet(BlockTxs[b]))
  /\ tip' = b
  /\ UNCHANGED <<minFee, pc, pindexOldTip, evicted, fAddToMempool, vHashUpdate, pkg>>

\* ActivateBestChainStep and InvalidateBlock call it once blocks were disconnected.  Nothing
\* is added back after an error or in the later rounds of a long InvalidateBlock.
MaybeUpdateMempoolForReorg(fAdd) ==
  /\ pc = "reorg"
  /\ fAddToMempool' = fAdd /\ vHashUpdate' = {}
  /\ Goto("update")
  /\ UNCHANGED <<tip, pool, minFee, pindexOldTip, disconnectpool, evicted, pkg>>

\* The disconnected transactions are tried again, the earliest confirmed first.
EarliestConfirmed_Front == Head(disconnectpool)                     \* faulty
EarliestConfirmed == Last(disconnectpool)

ReAddTx ==
  /\ pc = "update" /\ disconnectpool # <<>>
  /\ LET t == EarliestConfirmed IN
     /\ IF fAddToMempool /\ AcceptSingleTransaction(t, ReorgAccept, {}) = "valid"
        THEN pool' = Finalize(t) /\ vHashUpdate' = vHashUpdate \cup {t}
        ELSE pool' = RemoveRecursive(pool, {t}) /\ UNCHANGED vHashUpdate
     /\ disconnectpool' = WithoutTxs(disconnectpool, {t})
  /\ UNCHANGED <<tip, minFee, pc, pindexOldTip, evicted, fAddToMempool, pkg>>

\* Descendants of what was added that have too many ancestors now.
UpdateTransactionsFromBlock ==
  LET over == {t \in Descendants(vHashUpdate, DOMAIN pool) \ vHashUpdate :
                 Cardinality(Ancestors(t, DOMAIN pool)) + 1 > AncestorLimit}
  IN  RemoveRecursive(pool, over)

\* removeForReorg's predicate.  Valid lock points are used as they are.
LockPoints(t) ==
  IF TestLockPointValidity(pool[t].lp) THEN pool[t].lp ELSE CalculateLockPointsAtTip(t)
FinalAndMature(t) ==
  /\ CheckFinalTxAtTip(t)
  /\ CheckSequenceLocksAtTip(LockPoints(t))
  /\ pool[t].spendsCoinbase => Mature(t)

FinishUpdate ==
  /\ pc = "update" /\ disconnectpool = <<>>
  /\ LET updated == UpdateTransactionsFromBlock
         kept == RemoveRecursive(updated, {t \in DOMAIN updated : ~FinalAndMature(t)})
     IN  LimitMempoolSize([t \in DOMAIN kept |-> [kept[t] EXCEPT !.lp = LockPoints(t)]],
                          vHashUpdate)
  /\ Goto("rest")
  /\ pindexOldTip' = NoBlock /\ evicted' = {} /\ fAddToMempool' = FALSE /\ vHashUpdate' = {}
  /\ UNCHANGED <<tip, disconnectpool, pkg>>

-----------------------------------------------------------------------------
Init ==
  /\ tip = Genesis /\ pool = [t \in {} |-> 0] /\ minFee = 0
  /\ pc = "rest" /\ pkg = NoPackage
  /\ pindexOldTip = NoBlock /\ disconnectpool = <<>> /\ evicted = {}
  /\ fAddToMempool = FALSE /\ vHashUpdate = {}

\* The steps of a call that is under way.
Continue == PackageTx \/ AcceptPackage \/ PackageReturn \/ ReAddTx \/ FinishUpdate
Next ==
  \/ Continue
  \/ \E t \in Txs : AcceptToMemoryPool(t)
  \/ \E p \in Packages : ProcessNewPackage(p)
  \/ MinFeeDecays
  \/ DisconnectTip \/ \E b \in Blocks : ConnectTip(b)
  \/ \E fAdd \in BOOLEAN : MaybeUpdateMempoolForReorg(fAdd)

Spec == Init /\ [][Next]_vars
-----------------------------------------------------------------------------
(* Properties. *)

\* Every variable has its type; what belongs to a call is there only during that call.
TypeOK ==
  /\ tip \in Blocks /\ minFee \in Nat
  /\ DOMAIN pool \subseteq Txs \ Coinbases
  /\ \A t \in DOMAIN pool :
       pool[t].lp.height \in Int /\ pool[t].lp.maxInputBlock \in Blocks
  /\ pc \in {"package", "reported"} <=> pkg # NoPackage
  /\ pc \in {"reorg", "update"} <=> pindexOldTip # NoBlock
  /\ pc \notin {"reorg", "update"} => disconnectpool = <<>>
  /\ Len(disconnectpool) <= MaxDisconnected /\ ToSet(disconnectpool) \subseteq Txs
  /\ vHashUpdate \subseteq Txs

\* The disconnected transactions have all been tried, and the filters are next.
AllTried == pc = "update" /\ disconnectpool = <<>>

\* No coin is spent twice by the mempool, and every coin it spends is one of the chain or
\* of another entry: after every call, and when removeForReorg asserts that it can look up
\* coinbases.
PoolConsistent ==
  /\ TypeOK
  /\ pc \in {"rest", "reported"} \/ AllTried =>
       /\ \A t, u \in DOMAIN pool : t # u => Spends[t] \cap Spends[u] = {}
       /\ \A t \in DOMAIN pool :
            Spends[t] \subseteq DOMAIN CoinsTip \cup UNION {Creates[p] : p \in DOMAIN pool}

\* At rest every entry could be mined in the next block as far as time goes, by its locks
\* counted afresh from the chain; the mempool has its size, and nobody has more ancestors
\* than allowed, also after parents were added below entries that came before them.
NextBlockReady ==
  pc = "rest" =>
    /\ \A t \in DOMAIN pool :
         /\ CheckFinalTxAtTip(t) /\ Mature(t)
         /\ CheckSequenceLocksAtTip(CalculateLockPointsAtTip(t))
         /\ Cardinality(Ancestors(t, DOMAIN pool)) + 1 <= Max({AncestorLimit, 2})
    /\ Sizes(DOMAIN pool) <= MaxPoolSize

\* A transaction of a package is reported as accepted if and only if it is in the mempool,
\* whatever was evicted or replaced by the rest of the package.
ResultsTruthful ==
  pc = "reported" =>
    \A t \in ToSet(pkg.txns) : pkg.results[t] # "INVALID" <=> t \in DOMAIN pool

\* When a package has passed its checks, SubmitPackage finds room for every transaction of
\* it: the limits it recalculates hold ("this should never fail").
SubmitFindsRoom ==
  pc = "package" /\ pkg.next > Len(pkg.txns) /\ Len(pkg.eval) > 1 /\ Submitted # {} =>
    \A i \in 1 .. Len(pkg.eval) :
      CalculateMemPoolAncestors(pkg.eval[i],
        DOMAIN pool \cup {pkg.eval[j] : j \in 1 .. i - 1}, AncestorLimit, DescendantLimit)

\* What a reorganisation disconnected and did not confirm again is back in the mempool, or
\* would not be accepted.  This holds as long as none of it is refused for the limits on
\* relatives alone: such a one could be accepted once a later refusal has taken some of its
\* parent's descendants out, and nobody tries it again.
ComesBack ==
  AllTried /\ fAddToMempool =>
    \A t \in (ConfirmedAt[pindexOldTip] \ ConfirmedAt[tip]) \ evicted :
      t \in DOMAIN pool \/ AcceptSingleTransaction(t, ReorgAccept, {}) # "valid"
=============================================================================
