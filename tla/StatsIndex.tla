----------------------------- MODULE StatsIndex -----------------------------
(***************************************************************************)
(* CoinStatsIndex: running totals over the coins of a chain, one entry per *)
(* height, entries by hash for blocks that were disconnected, and what is  *)
(* left of it after a crash.  One thread appends and rewinds, following a  *)
(* chain whose tip moves under it; another looks entries up meanwhile.     *)
(*                                                                         *)
(* When CustomAppend, CustomRewind and CustomCommit are called is decided  *)
(* by BaseIndex, which is not in the repository: NextSyncBlock, Rewind and *)
(* Commit are taken from what these functions rely on.                     *)
(***************************************************************************)
EXTENDS BlockTree, Sequences, Functions

CONSTANTS
  Outs,            \* every output of a transaction
  Value,           \* Value[o]: its amount
  Unspendable,     \* the outputs whose scriptPubKey IsUnspendable()
  Txs,             \* Txs[b]: transactions of b, the coinbase first, [spends, creates]
  Subsidy,         \* Subsidy[h]: GetBlockSubsidy
  NoEntry, NoQuery

VARIABLES
  tip,             \* m_chain.Tip() of the chainstate that is indexed
  best,            \* m_best_block_index
  totals, muhash,  \* m_total_... and m_transaction_output_count; m_muhash
  heightIndex,     \* the entries under DBHeightKey
  hashIndex,       \* the entries under DBHashKey
  dbBest, dbMuhash,\* DB_BEST_BLOCK and DB_MUHASH, written together
  pc, rewindTo, iterTip, \* where the indexing thread is; new_tip and iter_tip of CustomRewind
  query            \* a LookUpStats under way, or its answer

memVars == <<best, totals, muhash>>
entryVars == <<heightIndex, hashIndex>>
commitVars == <<dbBest, dbMuhash>>
threadVars == <<pc, rewindTo, iterTip>>
vars == <<tip, memVars, entryVars, commitVars, threadVars, query>>

Heights == {Height[b] : b \in Blocks}
SumOf(S) == SumFunctionOnSet(Value, S)
Goto(label) == pc' = label

-----------------------------------------------------------------------------
(* What one block adds. *)

Fields ==
  {"outputCount", "amount", "subsidy", "unspendable", "prevoutSpent", "newOutputs", "coinbase",
   "genesisBlock", "scripts", "unclaimed"}
NoTotals == [f \in Fields |-> 0]

Rest(b) == {i \in DOMAIN Txs[b] : i > 1}
CoinbaseOuts(b) == Txs[b][1].creates
OtherOuts(b) == UNION {Txs[b][i].creates : i \in Rest(b)}
Prevouts(b) == UNION {Txs[b][i].spends : i \in Rest(b)}
AllOuts(b) == CoinbaseOuts(b) \cup OtherOuts(b)

ASSUME AmountsAssumption ==
  /\ IsFiniteSet(Outs) /\ Value \in [Outs -> Int] /\ \A h \in Heights : Subsidy[h] \in Int
  /\ \A b \in Blocks : AllOuts(b) \cup Prevouts(b) \subseteq Outs

\* What the blocks of a chain together make, spend and leave.  The outputs of the genesis
\* block are no coins.
Chain(b) == Path[b] \ {Genesis}
Made(b) == UNION {AllOuts(a) : a \in Chain(b)}
MadeByOthers(b) == UNION {OtherOuts(a) : a \in Chain(b)}
MadeByCoinbases(b) == UNION {CoinbaseOuts(a) : a \in Chain(b)}
Spent(b) == UNION {Prevouts(a) : a \in Chain(b)}
CoinsAfter(b) == Made(b) \ (Spent(b) \cup Unspendable)

\* What ConnectBlock sees to: a block spends what its chain created, what can be spent and
\* what was not spent before, and no output is created twice.
ASSUME ChainsAssumption ==
  \A b \in Blocks \ {Genesis} :
    /\ Prevouts(b) \subseteq Made(b) \ Unspendable
    /\ \A a \in Path[Parent[b]] : Prevouts(a) \cap Prevouts(b) = {} /\ AllOuts(a) \cap AllOuts(b)
         = {}
    /\ CoinbaseOuts(b) \cap OtherOuts(b) = {}

\* The height of a coin that b spends, from b's undo data.
CreatedAt_Here(b, o) == Height[b]                                   \* faulty
CreatedAt(b, o) ==
  CHOOSE h \in {Height[a] : a \in {x \in Path[b] : o \in AllOuts(x)}} : TRUE

\* A coin of the MuHash is an output and its height.  The product keeps a count of every
\* coin: adding commutes, and removing is the inverse of adding.
NewCoins(b) == (AllOuts(b) \ Unspendable) \X {Height[b]}
Coins == UNION {NewCoins(b) : b \in Blocks}
CoinsOf(b) == {c \in UNION {NewCoins(a) : a \in Chain(b)} : c[1] \in CoinsAfter(b)}
NoMuhash == [c \in Coins |-> 0]
One(c, S) == IF c \in S THEN 1 ELSE 0
OldCoins(b) == {<<o, CreatedAt(b, o)>> : o \in Prevouts(b)}
BlockMuhash == [b \in Blocks |-> [c \in Coins |-> One(c, NewCoins(b)) - One(c, OldCoins(b))]]

\* The transactions of a block that is not the genesis block.  Totals are sums, so the
\* order in which transactions are visited does not matter.
BlockTotals ==
  [b \in Blocks |->
     LET new == AllOuts(b) \ Unspendable
         scripts == SumOf(AllOuts(b) \cap Unspendable)
     IN  [NoTotals EXCEPT
            !.outputCount = Cardinality(new) - Cardinality(Prevouts(b)),
            !.amount = SumOf(new) - SumOf(Prevouts(b)),
            !.subsidy = Subsidy[Height[b]],
            !.unspendable = scripts,
            !.scripts = scripts,
            !.prevoutSpent = SumOf(Prevouts(b)),
            !.newOutputs = SumOf(OtherOuts(b) \ Unspendable),
            !.coinbase = SumOf(CoinbaseOuts(b) \ Unspendable)]]

\* The reward nobody has claimed is what the totals lack to balance.
Unclaimed(t) == (t.prevoutSpent + t.subsidy) - (t.newOutputs + t.coinbase + t.unspendable)
AddUnclaimed(t, u) == [t EXCEPT !.unspendable = @ + u, !.unclaimed = @ + u]

Plus(t, d) == [f \in Fields |-> t[f] + d[f]]
Minus(t, d) == [f \in Fields |-> t[f] - d[f]]

GenesisReward(t) ==
  [t EXCEPT !.subsidy = @ + Subsidy[0], !.unspendable = @ + Subsidy[0],
            !.genesisBlock = @ + Subsidy[0]]

\* CustomAppend and ReverseBlock on the totals.
AppendTotals(t, b) ==
  LET added == IF b = Genesis THEN GenesisReward(t) ELSE Plus(t, BlockTotals[b])
  IN  AddUnclaimed(added, Unclaimed(added))

ReverseTotals(t, b) ==
  LET removed == Minus(t, BlockTotals[b]) IN AddUnclaimed(removed, Unclaimed(removed))

AppendMuhash(m, b) ==
  IF b = Genesis THEN m ELSE [c \in Coins |-> m[c] + BlockMuhash[b][c]]
ReverseMuhash(m, b) == [c \in Coins |-> m[c] - BlockMuhash[b][c]]

-----------------------------------------------------------------------------
(* Entries. *)

Entry(b, t, m) == [block |-> b, totals |-> t, muhash |-> m]
Entries == [block : Blocks, totals : [Fields -> Int], muhash : [Coins -> Int]]
Queries ==
  [block : Blocks, step : {"height", "hash", "done"}, wasIndexed : BOOLEAN,
   answer : Entries \cup {NoEntry}]
ASSUME NothingAssumption == NoEntry \notin Entries /\ NoQuery \notin Queries

\* LookUpOne: the entry of the height if it is that of the block, else the one by hash.
LookUpOne(b) ==
  LET e == heightIndex[Height[b]]
  IN  IF e = NoEntry \/ e.block = b THEN e ELSE hashIndex[b]

\* CopyHeightIndexToHashIndex, from the new tip to the old one.
CopiedHeights_NotTheTip == Height[rewindTo'] .. Height[best] - 1    \* faulty
CopiedHeights == Height[rewindTo'] .. Height[best]
CopyHeightIndexToHashIndex ==
  hashIndex' = [b \in Blocks |->
    IF \E h \in CopiedHeights : heightIndex[h].block = b THEN heightIndex[Height[b]]
    ELSE hashIndex[b]]

-----------------------------------------------------------------------------
(* The indexing thread. *)

\* The block of the chain after best, or after the fork if best was disconnected.
ChainNext(b) ==
  CHOOSE n \in Blocks \cup {NoBlock} :
    IF b = tip THEN n = NoBlock ELSE n \in Path[tip] /\ Parent[n] = b
Fork == CHOOSE b \in Path[best] \cap Path[tip] :
          \A a \in Path[best] \cap Path[tip] : Height[a] <= Height[b]

NextSyncBlock_NoFork ==                                             \* faulty
  IF best = NoBlock THEN Genesis ELSE IF best \in Path[tip] THEN ChainNext(best) ELSE NoBlock
NextSyncBlock == IF best = NoBlock THEN Genesis ELSE ChainNext(Fork)

\* CustomAppend of the next block.  It wants the entry of the previous block, and leaves DB_MUHASH alone.
MuhashOnAppend_Written == muhash'                                   \* faulty
MuhashOnAppend == dbMuhash

HeightKey(b) == Height[b]

CustomAppend(b) ==
  /\ best = Parent[b]
  /\ IF b = Genesis \/ LookUpOne(Parent[b]) # NoEntry
     THEN /\ totals' = AppendTotals(totals, b) /\ muhash' = AppendMuhash(muhash, b)
          /\ heightIndex' = [h \in Heights |->
               IF h = HeightKey(b) THEN Entry(b, totals', muhash') ELSE heightIndex[h]]
          /\ dbMuhash' = MuhashOnAppend
          /\ best' = b
          /\ pc' = pc
     ELSE Goto("failed") /\ UNCHANGED <<memVars, heightIndex, dbMuhash>>
  /\ UNCHANGED <<tip, hashIndex, dbBest, rewindTo, iterTip, query>>

\* CustomRewind first saves the entries that will be overwritten.
RewindCopy(b) ==
  /\ best # Parent[b]
  /\ rewindTo' = Parent[b] /\ iterTip' = best
  /\ IF \A h \in Height[rewindTo'] .. Height[best] : heightIndex[h] # NoEntry
     THEN CopyHeightIndexToHashIndex /\ Goto("reverse")
     ELSE Goto("failed") /\ UNCHANGED hashIndex
  /\ UNCHANGED <<tip, memVars, heightIndex, commitVars, query>>

\* ReverseBlock for the blocks from best down; what is left has to be the entry of the
\* block below.
ReverseBlock ==
  /\ pc = "reverse" /\ iterTip # rewindTo
  /\ totals' = ReverseTotals(totals, iterTip) /\ muhash' = ReverseMuhash(muhash, iterTip)
  /\ iterTip' = Parent[iterTip]
  /\ Goto(IF LookUpOne(iterTip') = Entry(iterTip', totals', muhash') THEN "reverse" ELSE "failed")
  /\ UNCHANGED <<tip, best, entryVars, commitVars, rewindTo, query>>

\* A rewind ends with a commit of its new best block.
RewindCommit ==
  /\ pc = "reverse" /\ iterTip = rewindTo
  /\ best' = rewindTo
  /\ dbBest' = rewindTo /\ dbMuhash' = muhash
  /\ rewindTo' = NoBlock /\ iterTip' = NoBlock
  /\ Goto("idle")
  /\ UNCHANGED <<tip, totals, muhash, entryVars, query>>

\* CustomCommit, whenever the chainstate was flushed or the sync thread decides so.
CustomCommit ==
  /\ pc = "idle" /\ best # NoBlock
  /\ dbBest' = best /\ dbMuhash' = muhash
  /\ UNCHANGED <<tip, memVars, entryVars, threadVars, query>>

Crash ==
  /\ pc # "down"
  /\ best' = NoBlock /\ totals' = NoTotals /\ muhash' = NoMuhash
  /\ rewindTo' = NoBlock /\ iterTip' = NoBlock /\ query' = NoQuery
  /\ Goto("down")
  /\ UNCHANGED <<tip, entryVars, commitVars>>

\* CustomInit.
RestoredTotals == LookUpOne(dbBest).totals

CustomInit ==
  /\ pc = "down"
  /\ muhash' = dbMuhash
  /\ best' = dbBest
  /\ IF dbBest = NoBlock THEN UNCHANGED totals /\ Goto("idle")
     ELSE IF LookUpOne(dbBest) = NoEntry THEN UNCHANGED totals /\ Goto("refused")
     ELSE IF LookUpOne(dbBest).muhash # dbMuhash THEN UNCHANGED totals /\ Goto("refused")
     ELSE totals' = RestoredTotals /\ Goto("idle")
  /\ UNCHANGED <<tip, entryVars, commitVars, rewindTo, iterTip, query>>

-----------------------------------------------------------------------------
(* gettxoutsetinfo in an RPC thread: LookUpStats reads twice, without a lock.  It is asked
   only for blocks up to the height the index has reached.  query.wasIndexed is history: was
   the block indexed when it began? *)

LookUpBegin(b) ==
  /\ pc # "down" /\ query = NoQuery /\ best # NoBlock /\ Height[b] <= Height[best]
  /\ query' = [block |-> b, step |-> "height", wasIndexed |-> b \in Path[best], answer |-> NoEntry]
  /\ UNCHANGED <<tip, memVars, entryVars, commitVars, threadVars>>

LookUpByHeight ==
  /\ query # NoQuery /\ query.step = "height"
  /\ LET e == heightIndex[Height[query.block]] IN
     query' = IF e = NoEntry THEN [query EXCEPT !.step = "done"]
              ELSE IF e.block = query.block THEN [query EXCEPT !.step = "done", !.answer = e]
              ELSE [query EXCEPT !.step = "hash"]
  /\ UNCHANGED <<tip, memVars, entryVars, commitVars, threadVars>>

LookUpByHash ==
  /\ query # NoQuery /\ query.step = "hash"
  /\ query' = [query EXCEPT !.step = "done", !.answer = hashIndex[query.block]]
  /\ UNCHANGED <<tip, memVars, entryVars, commitVars, threadVars>>

LookUpEnd ==
  /\ query # NoQuery /\ query.step = "done"
  /\ query' = NoQuery
  /\ UNCHANGED <<tip, memVars, entryVars, commitVars, threadVars>>

-----------------------------------------------------------------------------
\* The chain that is indexed goes where it likes.
MoveTip(b) ==
  /\ tip # b /\ tip' = b
  /\ UNCHANGED <<memVars, entryVars, commitVars, threadVars, query>>

Init ==
  /\ tip = Genesis
  /\ best = NoBlock /\ totals = NoTotals /\ muhash = NoMuhash
  /\ heightIndex = [h \in Heights |-> NoEntry] /\ hashIndex = [b \in Blocks |-> NoEntry]
  /\ dbBest = NoBlock /\ dbMuhash = NoMuhash
  /\ pc = "idle" /\ rewindTo = NoBlock /\ iterTip = NoBlock /\ query = NoQuery

Index == \/ (pc = "idle" /\ \E b \in {NextSyncBlock} \ {NoBlock} : CustomAppend(b) \/ RewindCopy(b))
         \/ ReverseBlock \/ RewindCommit
         \/ CustomInit

Next == \/ Index \/ CustomCommit \/ Crash
        \/ \E b \in Blocks : MoveTip(b) \/ LookUpBegin(b)
        \/ LookUpByHeight \/ LookUpByHash \/ LookUpEnd

\* The index has a thread, and started nodes go on to load it.
Spec == Init /\ [][Next]_vars /\ WF_vars(Index)
-----------------------------------------------------------------------------
(* Properties. *)

\* Every variable has its type; an entry is under its own height or hash; committed and
\* current block are there together with their MuHash.
TypeOK ==
  /\ tip \in Blocks /\ {best, dbBest, rewindTo, iterTip} \subseteq Blocks \cup {NoBlock}
  /\ totals \in [Fields -> Int] /\ {muhash, dbMuhash} \subseteq [Coins -> Int]
  /\ DOMAIN heightIndex = Heights /\ DOMAIN hashIndex = Blocks
  /\ \A h \in Heights : heightIndex[h] # NoEntry =>
       heightIndex[h] \in Entries /\ Height[heightIndex[h].block] = h
  /\ \A b \in Blocks : hashIndex[b] # NoEntry
       => hashIndex[b] \in Entries /\ hashIndex[b].block = b
  /\ pc \in {"idle", "reverse", "down", "failed", "refused"}
  /\ pc = "reverse" => rewindTo \in Path[iterTip] /\ iterTip \in Path[best]
  /\ query # NoQuery => query \in Queries

\* What the statistics after b are, counted over the whole chain at once.
StatsAfter ==
  [b \in Blocks |->
     LET paid == SumFunctionOnSet([a \in Blocks |-> Subsidy[Height[a]]], Path[b])
         scripts == SumOf(Made(b) \cap Unspendable)
         lost == paid - SumOf(CoinsAfter(b))
     IN  Entry(b,
           [NoTotals EXCEPT
              !.outputCount = Cardinality(CoinsAfter(b)),
              !.amount = SumOf(CoinsAfter(b)),
              !.subsidy = paid,
              !.unspendable = lost,
              !.prevoutSpent = SumOf(Spent(b)),
              !.newOutputs = SumOf(MadeByOthers(b) \ Unspendable),
              !.coinbase = SumOf(MadeByCoinbases(b) \ Unspendable),
              !.genesisBlock = Subsidy[0],
              !.scripts = scripts,
              !.unclaimed = lost - scripts - Subsidy[0]],
           [c \in Coins |-> One(c, CoinsOf(b))])]

\* Whatever entry a block has, under its height or its hash, holds the statistics of the
\* chain up to that block, after any reorganisations, rewinds and crashes; and the chain up
\* to the block the index is at is complete, the totals in memory being those of its last
\* entry (CustomAppend, CustomRewind, CustomInit).
EntriesRight ==
  /\ TypeOK
  /\ \A b \in Blocks : LookUpOne(b) \in {NoEntry, StatsAfter[b]}
  /\ pc = "idle" /\ best # NoBlock =>
       /\ \A b \in Path[best] : LookUpOne(b) # NoEntry
       /\ Entry(best, totals, muhash) = LookUpOne(best)

\* CustomAppend and ReverseBlock find the entries they want, the Asserts of ReverseBlock
\* hold, and no crash leaves an index that CustomInit calls corrupted.
NeverFails == pc \notin {"failed", "refused"}

\* A lookup between two writes of the indexing thread never returns the statistics of
\* another block, and returns those of a block that was indexed when it began, even if the
\* block is disconnected and its height overwritten meanwhile.
LookUpsRight ==
  query # NoQuery /\ query.step = "done" =>
    /\ query.answer \in {NoEntry, StatsAfter[query.block]}
    /\ query.wasIndexed => query.answer # NoEntry

\* The index reaches a tip that stays, if the node stays up.
CatchesUp ==
  \A b \in Blocks : <>[](tip = b /\ pc # "down") => <>[](best # NoBlock /\ b \in Path[best])
=============================================================================
