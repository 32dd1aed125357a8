------------------------------- MODULE Coins -------------------------------
(***************************************************************************)
(* The coins (UTXO set) of one Chainstate and how they survive a crash:    *)
(* ConnectBlock and DisconnectBlock with their undo data, the steps of     *)
(* FlushStateToDisk and of the batched write of the coins database, and    *)
(* LoadBlockIndex, ReplayBlocks, LoadChainTip and VerifyDB at a restart.   *)
(*                                                                         *)
(* All of it runs under cs_main, one operation after the other; what comes *)
(* in between is a crash, which leaves what was written to disk by then.   *)
(* Which block is connected next is Chainstate's business: here the tip    *)
(* moves to any block whose data is there, or back.                        *)
(*                                                                         *)
(* A coin is an output and the height of the block that created it; of a   *)
(* transaction only the outputs it spends and creates are kept.            *)
(***************************************************************************)
EXTENDS BlockTree, Sequences, SequencesExt

CONSTANTS
  Outs,             \* every output a transaction creates and another may spend
  Txs,              \* Txs[b]: the transactions of b in order, [spends, creates]
  MinBlocksToKeep,  \* MIN_BLOCKS_TO_KEEP, 288 in the code
  CheckDepth        \* -checkblocks, 6 by default; 0 there stands for all blocks

\* The outputs of the genesis block are no coins.
ASSUME TxsAssumption ==
  /\ \A b \in Blocks : Txs[b] \in Seq([spends : SUBSET Outs, creates : SUBSET Outs])
  /\ \A i \in DOMAIN Txs[Genesis] : Txs[Genesis][i].creates = {} /\ Txs[Genesis][i].spends = {}
  /\ MinBlocksToKeep \in Nat \ {0} /\ CheckDepth \in Nat \ {0}

\* BIP34 makes the coinbases of a chain differ, and so all its transactions: an output
\* is created at most once.
ASSUME CreatedOnce ==
  \A b \in Blocks : \A a, c \in Path[b] : \A i \in DOMAIN Txs[a], j \in DOMAIN Txs[c] :
    Txs[a][i].creates \cap Txs[c][j].creates # {} => a = c /\ i = j

VARIABLES
  pruneMode,        \* IsPruneMode(), a setting of the node
  \* memory: the chain, the coins as CoinsTip() shows them, the block index
  tip, coinsTip, bestBlock,
  index, haveData, haveUndo,
  \* block and undo files: what a read finds, and what of it is flushed
  dataFile,         \* the blocks
  undoFile,         \* the undo data, of the blocks that have some
  syncedData, syncedUndo,
  \* the block index database
  dbIndex, dbHaveData, dbHaveUndo,
  \* the coins database: coins, DB_BEST_BLOCK, DB_HEAD_BLOCKS
  dbCoins, dbBest, dbHeads,
  \* where the operation in progress is, and where its flush returns to
  pc, returnTo, fullFlush, filesToPrune

memIndexVars == <<index, haveData, haveUndo>>
memVars == <<tip, coinsTip, bestBlock, memIndexVars>>
syncVars == <<syncedData, syncedUndo>>
fileVars == <<dataFile, undoFile, syncVars>>
dbIndexVars == <<dbIndex, dbHaveData, dbHaveUndo>>
dbCoinVars == <<dbCoins, dbBest, dbHeads>>
flushVars == <<returnTo, fullFlush, filesToPrune>>
vars == <<pruneMode, memVars, fileVars, dbIndexVars, dbCoinVars, pc, flushVars>>

-----------------------------------------------------------------------------
(* Coins, blocks and undo data. *)

Spent == 0                             \* the height of a coin that is not there
NoCoins == [o \in Outs |-> Spent]

SpendCoins(coins, S) == [o \in Outs |-> IF o \in S THEN Spent ELSE coins[o]]
AddCoins(coins, S, h) == [o \in Outs |-> IF o \in S THEN h ELSE coins[o]]
UpdateCoins(coins, tx, h) == AddCoins(SpendCoins(coins, tx.spends), tx.creates, h)

\* CTxUndo: the coins a transaction is about to spend.
TxUndo(coins, tx) == [o \in tx.spends |-> coins[o]]

\* CheckTxInputs: every input is there.
HaveInputs_Unchecked(coins, tx) == TRUE                          \* faulty
HaveInputs(coins, tx) == \A o \in tx.spends : coins[o] # Spent

\* BIP30, enforced at every height since BIP34Hash is null: no output of the block
\* overwrites a coin.
OverwritesCoin(coins, b) == \E i \in DOMAIN Txs[b] : \E o \in Txs[b][i].creates : coins[o] # Spent

\* ConnectBlock: the coins after the block, its undo data, and whether it is valid.
ConnectBlock(coins, b) ==
  LET connectTx(s, tx) == [coins |-> UpdateCoins(s.coins, tx, Height[b]),
                           undo |-> Append(s.undo, TxUndo(s.coins, tx)),
                           valid |-> s.valid /\ HaveInputs(s.coins, tx)]
  IN  FoldLeft(connectTx,
               [coins |-> coins, undo |-> << >>, valid |-> ~OverwritesCoin(coins, b)], Txs[b])

\* DisconnectBlock undoes the transactions last to first: it takes away the outputs,
\* which should be there as the block made them, and puts back the inputs
\* (ApplyTxInUndo), which should not be there.
UndoOrder(n) == [i \in 1..n |-> n + 1 - i]

DisconnectBlock(coins, b, undo) ==
  LET undoTx(s, i) ==
        LET tx == Txs[b][i]
            before == SpendCoins(s.coins, tx.creates)
        IN  [coins |-> [o \in Outs |-> IF o \in tx.spends THEN undo[i][o] ELSE before[o]],
             clean |-> /\ s.clean
                       /\ \A o \in tx.creates : s.coins[o] = Height[b]
                       /\ \A o \in tx.spends : before[o] = Spent]
  IN  FoldLeft(undoTx, [coins |-> coins, clean |-> TRUE], UndoOrder(Len(Txs[b])))

\* RollforwardBlock spends what is there and overwrites what is there.
RollforwardBlock(coins, b) ==
  FoldLeft(LAMBDA c, tx : UpdateCoins(c, tx, Height[b]), coins, Txs[b])

\* CBlockIndex::GetAncestor; the blocks of a chain above a height, going down and going up.
GetAncestor(b, h) == CHOOSE a \in Path[b] : Height[a] = h
Down(b, h) == [i \in 1 .. Height[b] - h |-> GetAncestor(b, Height[b] + 1 - i)]
Up(b, h) == [i \in 1 .. Height[b] - h |-> GetAncestor(b, h + i)]

\* ReadBlockFromDisk and UndoReadFromDisk succeed: the index has a position, and the
\* file has the bytes.
CanReadBlock(b) == b \in haveData /\ b \in dataFile
CanReadUndo(b) == b \in haveUndo /\ b \in DOMAIN undoFile

Goto(label) == pc' = label

-----------------------------------------------------------------------------
(* Operations of the running node. *)

\* AcceptBlock stores a block; a block of the chain that was pruned is not asked for.
ReceiveBlock(b) ==
  /\ pc = "run" /\ b \notin haveData \cup Path[tip] /\ Parent[b] \in index
  /\ index' = index \cup {b}
  /\ haveData' = haveData \cup {b}
  /\ dataFile' = dataFile \cup {b}
  /\ UNCHANGED <<pruneMode, tip, coinsTip, bestBlock, haveUndo, undoFile, syncVars, dbIndexVars,
                 dbCoinVars, pc, flushVars>>

\* WriteUndoDataForBlock writes the undo data once.
WriteUndoData(b, undo) ==
  /\ haveUndo' = haveUndo \cup {b}
  /\ undoFile' = IF b \in haveUndo THEN undoFile
                 ELSE [x \in DOMAIN undoFile \cup {b} |-> IF x = b THEN undo ELSE undoFile[x]]

\* ConnectTip changes the coins, may flush, and only then moves the tip.
ConnectTip(b) ==
  /\ pc = "run" /\ Parent[b] = tip /\ CanReadBlock(b)
  /\ LET r == ConnectBlock(coinsTip, b) IN
     /\ r.valid
     /\ coinsTip' = r.coins
     /\ WriteUndoData(b, r.undo)
  /\ bestBlock' = b
  /\ returnTo' = "settip"
  /\ Goto("flush")
  /\ UNCHANGED <<pruneMode, tip, index, haveData, dataFile, syncVars, dbIndexVars, dbCoinVars,
                 fullFlush, filesToPrune>>

\* DisconnectTip.  A block that was pruned cannot be disconnected: nothing changes.  Else
\* anything but DISCONNECT_OK is an error, the coins and the undo data being at odds.
DisconnectTip ==
  /\ pc = "run" /\ tip # Genesis /\ CanReadBlock(tip) /\ CanReadUndo(tip)
  /\ LET r == DisconnectBlock(coinsTip, tip, undoFile[tip]) IN
     /\ coinsTip' = IF r.clean THEN r.coins ELSE coinsTip
     /\ bestBlock' = IF r.clean THEN Parent[tip] ELSE bestBlock
     /\ Goto(IF r.clean THEN "flush" ELSE "corrupted")
  /\ returnTo' = "settip"
  /\ UNCHANGED <<pruneMode, tip, memIndexVars, fileVars, dbIndexVars, dbCoinVars, fullFlush,
                 filesToPrune>>

SetTip ==
  /\ pc = "settip"
  /\ tip' = bestBlock
  /\ returnTo' = "run"
  /\ Goto("run")
  /\ UNCHANGED <<pruneMode, coinsTip, bestBlock, memIndexVars, fileVars, dbIndexVars, dbCoinVars,
                 fullFlush, filesToPrune>>

-----------------------------------------------------------------------------
(* FlushStateToDisk, with its modes and timers as a choice. *)

\* IF_NEEDED with room in the cache.
NoFlush ==
  /\ pc = "flush"
  /\ Goto(returnTo)
  /\ UNCHANGED <<pruneMode, memVars, fileVars, dbIndexVars, dbCoinVars, flushVars>>

\* PERIODIC after DATABASE_WRITE_INTERVAL: files and index, not the coins.
PeriodicWrite ==
  /\ pc = "run"
  /\ fullFlush' = FALSE
  /\ Goto("files")
  /\ UNCHANGED <<pruneMode, memVars, fileVars, dbIndexVars, dbCoinVars, returnTo, filesToPrune>>

\* ALWAYS, a critical cache under IF_NEEDED, or DATABASE_FLUSH_INTERVAL.
FlushStart_CoinsFirst == "coins"       \* faulty: the coins before the index
FlushStart == "files"
FullFlush ==
  /\ pc \in {"run", "flush"}
  /\ fullFlush' = TRUE
  /\ Goto(FlushStart)
  /\ UNCHANGED <<pruneMode, memVars, fileVars, dbIndexVars, dbCoinVars, returnTo, filesToPrune>>

\* FindFilesToPrune takes the blocks up to a height out of the index; their files go
\* later.  Every block has a file of its own.  The height is that of the old tip when
\* ConnectTip or DisconnectTip flushes.
PruneFlush(h) ==
  /\ pc \in {"run", "flush"} /\ pruneMode
  /\ h + MinBlocksToKeep <= Height[tip]
  /\ filesToPrune' = {b \in haveData : Height[b] <= h}
  /\ filesToPrune' # {}
  /\ haveData' = haveData \ filesToPrune'
  /\ haveUndo' = haveUndo \ filesToPrune'
  /\ fullFlush' = TRUE
  /\ Goto("files")
  /\ UNCHANGED <<pruneMode, tip, coinsTip, bestBlock, index, fileVars, dbIndexVars, dbCoinVars,
                 returnTo>>

\* FlushChainstateBlockFile, taken to succeed.
SyncedUndoAfter_Forgotten == syncedUndo                          \* faulty: block files only
SyncedUndoAfter == DOMAIN undoFile
FlushBlockFiles ==
  /\ pc = "files"
  /\ syncedData' = dataFile
  /\ syncedUndo' = SyncedUndoAfter
  /\ Goto("index")
  /\ UNCHANGED <<pruneMode, memVars, dataFile, undoFile, dbIndexVars, dbCoinVars, flushVars>>

WriteBlockIndexDB ==
  /\ pc = "index"
  /\ dbIndex' = index /\ dbHaveData' = haveData /\ dbHaveUndo' = haveUndo
  /\ Goto(IF filesToPrune # {} THEN "unlink" ELSE IF fullFlush THEN "coins" ELSE returnTo)
  /\ UNCHANGED <<pruneMode, memVars, fileVars, dbCoinVars, flushVars>>

UnlinkPrunedFiles ==
  /\ pc = "unlink"
  /\ dataFile' = dataFile \ filesToPrune /\ syncedData' = syncedData \ filesToPrune
  /\ undoFile' = Restrict(undoFile, DOMAIN undoFile \ filesToPrune)
  /\ syncedUndo' = syncedUndo \ filesToPrune
  /\ filesToPrune' = {}
  /\ Goto("coins")
  /\ UNCHANGED <<pruneMode, memVars, dbIndexVars, dbCoinVars, returnTo, fullFlush>>

\* CoinsTip().Flush() hands the dirty coins to the database, which writes them in one
\* or several batches.  Several batches begin with the heads of the move they make:
\* from the best block, or from where an interrupted move began.
NoHeads == << >>
OldTip_Target == IF dbHeads = NoHeads THEN dbBest ELSE dbHeads[1]    \* faulty
OldTip == IF dbHeads = NoHeads THEN dbBest ELSE dbHeads[2]

Dirty == {o \in Outs : coinsTip[o] # dbCoins[o]}

WriteBatch(S) == dbCoins' = [o \in Outs |-> IF o \in S THEN coinsTip[o] ELSE dbCoins[o]]

HeadsInBatch_None == NoHeads           \* faulty: a partial write is not marked
HeadsInBatch == <<bestBlock, OldTip>>

FirstBatch(S) ==
  /\ pc = "coins"
  /\ WriteBatch(S)
  /\ dbHeads' = HeadsInBatch
  /\ dbBest' = NoBlock
  /\ Goto("batch")
  /\ UNCHANGED <<pruneMode, memVars, fileVars, dbIndexVars, flushVars>>

NextBatch(S) ==
  /\ pc = "batch" /\ S # {}
  /\ WriteBatch(S)
  /\ UNCHANGED <<pruneMode, memVars, fileVars, dbIndexVars, dbBest, dbHeads, pc, flushVars>>

\* The last batch, or the only one, names the new best block.
LastBatch ==
  /\ pc \in {"coins", "batch"}
  /\ dbCoins' = coinsTip
  /\ dbBest' = bestBlock
  /\ dbHeads' = NoHeads
  /\ Goto(returnTo)
  /\ UNCHANGED <<pruneMode, memVars, fileVars, dbIndexVars, flushVars>>

-----------------------------------------------------------------------------
(* Crash and restart. *)

Terminal == {"refused", "corrupted"}

Crash ==
  /\ pc \notin Terminal \cup {"down"}
  /\ tip' = NoBlock /\ coinsTip' = NoCoins /\ bestBlock' = NoBlock
  /\ index' = {} /\ haveData' = {} /\ haveUndo' = {}
  /\ dataFile' = syncedData
  /\ undoFile' = Restrict(undoFile, syncedUndo)
  /\ returnTo' = "run" /\ fullFlush' = FALSE /\ filesToPrune' = {}
  /\ Goto("down")
  /\ UNCHANGED <<pruneMode, syncVars, dbIndexVars, dbCoinVars>>

\* LoadGenesisBlock with an empty index database: the files are written from their start.
FirstStart ==
  /\ pc = "down" /\ dbIndex = {}
  /\ index' = {Genesis} /\ haveData' = {Genesis} /\ haveUndo' = {}
  /\ dataFile' = {Genesis} /\ undoFile' = << >>
  /\ syncedData' = {} /\ syncedUndo' = {}
  /\ Goto("replay")
  /\ UNCHANGED <<pruneMode, tip, coinsTip, bestBlock, dbIndexVars, dbCoinVars, flushVars>>

\* LoadBlockIndex: the index as the database has it.  Files it calls pruned are
\* unlinked (ScanAndUnlinkAlreadyPrunedFiles), files it lacks are fatal.
LoadBlockIndex ==
  /\ pc = "down" /\ dbIndex # {}
  /\ index' = dbIndex /\ haveData' = dbHaveData /\ haveUndo' = dbHaveUndo
  /\ dataFile' = dataFile \cap dbHaveData /\ syncedData' = syncedData \cap dbHaveData
  /\ undoFile' = Restrict(undoFile, DOMAIN undoFile \cap dbHaveUndo)
  /\ syncedUndo' = syncedUndo \cap dbHaveUndo
  /\ Goto(IF dbHaveData \subseteq dataFile THEN "replay" ELSE "refused")
  /\ UNCHANGED <<pruneMode, tip, coinsTip, bestBlock, dbIndexVars, dbCoinVars, flushVars>>

\* The blocks between the heads of an interrupted write; the old head is null in the
\* first one.
HeadPath(b) == IF b = NoBlock THEN {Genesis} ELSE Path[b]
Rollbacks == HeadPath(dbHeads[2]) \ HeadPath(dbHeads[1])
Forwards == HeadPath(dbHeads[1]) \ HeadPath(dbHeads[2])

\* LastCommonAncestor.
ForkHeight == Max({Height[b] : b \in HeadPath(dbHeads[1]) \cap HeadPath(dbHeads[2])})

RolledBackCoins_None == dbCoins        \* faulty: only forward
RolledBackCoins ==
  LET rollback(coins, b) == DisconnectBlock(coins, b, undoFile[b]).coins
  IN  IF dbHeads[2] = NoBlock THEN dbCoins
      ELSE FoldLeft(rollback, dbCoins, Down(dbHeads[2], ForkHeight))
ReplayedCoins == FoldLeft(RollforwardBlock, RolledBackCoins, Up(dbHeads[1], ForkHeight))

\* ReplayBlocks.  An UNCLEAN disconnection is what it expects of coins half written.
NothingToReplay ==
  /\ pc = "replay" /\ dbHeads = NoHeads
  /\ coinsTip' = dbCoins /\ bestBlock' = dbBest
  /\ Goto("load")
  /\ UNCHANGED <<pruneMode, tip, memIndexVars, fileVars, dbIndexVars, dbCoinVars, flushVars>>

ReplayReadable ==
  /\ \A b \in Rollbacks \cup Forwards : CanReadBlock(b)
  /\ \A b \in Rollbacks : CanReadUndo(b)

ReplayBlocks ==
  /\ pc = "replay" /\ dbHeads # NoHeads /\ ReplayReadable
  /\ coinsTip' = ReplayedCoins /\ bestBlock' = dbHeads[1]
  /\ returnTo' = "load"
  /\ Goto("coins")
  /\ UNCHANGED <<pruneMode, tip, memIndexVars, fileVars, dbIndexVars, dbCoinVars, fullFlush,
                 filesToPrune>>

\* A block to read was pruned: the node asks for -reindex.
ReplayFails ==
  /\ pc = "replay" /\ dbHeads # NoHeads /\ ~ReplayReadable
  /\ Goto("refused")
  /\ UNCHANGED <<pruneMode, memVars, fileVars, dbIndexVars, dbCoinVars, flushVars>>

\* LoadChainTip; on an empty database ActivateBestChain connects the genesis block.
LoadChainTip ==
  /\ pc = "load"
  /\ bestBlock' = IF bestBlock = NoBlock THEN Genesis ELSE bestBlock
  /\ tip' = bestBlock'
  /\ returnTo' = "run"
  /\ Goto(IF bestBlock' \notin index THEN "refused" ELSE "verify")
  /\ UNCHANGED <<pruneMode, coinsTip, memIndexVars, fileVars, dbIndexVars, dbCoinVars, fullFlush,
                 filesToPrune>>

\* VerifyDB at its highest level: the last blocks are disconnected from the coins and connected
\* again, in memory.  A node that prunes stops at the first block without data.
VerifyFloor ==
  Min({h \in 0 .. Height[tip] :
         /\ h >= Height[tip] - CheckDepth
         /\ pruneMode => \A b \in Path[tip] : Height[b] > h => b \in haveData})

VerifyPasses ==
  LET disconnect(s, b) ==
        LET r == DisconnectBlock(s.coins, b, undoFile[b])
        IN  [coins |-> r.coins, good |-> s.good /\ r.clean]
      connect(s, b) ==
        LET r == ConnectBlock(s.coins, b) IN [coins |-> r.coins, good |-> s.good /\ r.valid]
      below == FoldLeft(disconnect, [coins |-> coinsTip, good |-> TRUE], Down(tip, VerifyFloor))
  IN  /\ \A b \in Path[tip] : Height[b] > VerifyFloor => CanReadBlock(b) /\ CanReadUndo(b)
      /\ FoldLeft(connect, below, Up(tip, VerifyFloor)).good

VerifyDB ==
  /\ pc = "verify"
  /\ Goto(IF VerifyPasses THEN "run" ELSE "corrupted")
  /\ UNCHANGED <<pruneMode, memVars, fileVars, dbIndexVars, dbCoinVars, flushVars>>

\* The node has shut down and says what the operator has to do.
Stopped == pc \in Terminal /\ UNCHANGED vars

-----------------------------------------------------------------------------
\* The first start has run LoadGenesisBlock and connected the genesis block.
Init ==
  /\ pruneMode \in BOOLEAN
  /\ tip = Genesis /\ coinsTip = NoCoins /\ bestBlock = Genesis
  /\ index = {Genesis} /\ haveData = {Genesis} /\ haveUndo = {}
  /\ dataFile = {Genesis} /\ undoFile = << >>
  /\ syncedData = {} /\ syncedUndo = {}
  /\ dbIndex = {} /\ dbHaveData = {} /\ dbHaveUndo = {}
  /\ dbCoins = NoCoins /\ dbBest = NoBlock /\ dbHeads = NoHeads
  /\ pc = "run" /\ returnTo = "run" /\ fullFlush = FALSE /\ filesToPrune = {}

Next ==
  \/ \E b \in Blocks \ {Genesis} : ReceiveBlock(b) \/ ConnectTip(b)
  \/ DisconnectTip \/ SetTip
  \/ NoFlush \/ PeriodicWrite \/ FullFlush
  \/ \E h \in {Height[b] : b \in Blocks} : PruneFlush(h)
  \/ FlushBlockFiles \/ WriteBlockIndexDB \/ UnlinkPrunedFiles
  \/ \E S \in SUBSET Dirty : FirstBatch(S) \/ NextBatch(S)
  \/ LastBatch
  \/ Crash
  \/ FirstStart \/ LoadBlockIndex
  \/ NothingToReplay \/ ReplayBlocks \/ ReplayFails
  \/ LoadChainTip \/ VerifyDB \/ Stopped

Spec == Init /\ [][Next]_vars
-----------------------------------------------------------------------------
(* Properties. *)

Labels ==
  {"run", "flush", "settip", "files", "index", "unlink", "coins", "batch",
   "down", "replay", "load", "verify"} \cup Terminal

\* Every variable has its type; data and undo flags belong to index entries.
TypeOK ==
  /\ pruneMode \in BOOLEAN /\ fullFlush \in BOOLEAN
  /\ {tip, bestBlock, dbBest} \subseteq Blocks \cup {NoBlock}
  /\ index \subseteq Blocks /\ haveData \cup haveUndo \subseteq index
  /\ dbIndex \subseteq Blocks /\ dbHaveData \cup dbHaveUndo \subseteq dbIndex
  /\ dataFile \subseteq Blocks /\ syncedData \subseteq dataFile
  /\ DOMAIN undoFile \subseteq Blocks /\ syncedUndo \subseteq DOMAIN undoFile
  /\ dbHeads = NoHeads \/ dbHeads \in Blocks \X (Blocks \cup {NoBlock})
  /\ pc \in Labels /\ returnTo \in {"run", "settip", "load"} /\ filesToPrune \subseteq Blocks

\* What the coins after b should be, by the definition of a coin: some transaction up
\* to b created it, and none up to b spends it.
Creates(b) == UNION {Txs[b][i].creates : i \in DOMAIN Txs[b]}
Spends(b) == UNION {Txs[b][i].spends : i \in DOMAIN Txs[b]}
CoinsAfter ==
  [b \in Blocks \cup {NoBlock} |-> [o \in Outs |->
     LET creators == {a \in HeadPath(b) : o \in Creates(a)}
     IN  IF creators = {} \/ \E a \in HeadPath(b) : o \in Spends(a) THEN Spent
         ELSE Height[CHOOSE a \in creators : TRUE]]]

\* The coins the node works on are those of the block it says, over connections,
\* disconnections, crashes and recoveries, and neither DisconnectTip nor VerifyDB ever finds
\* them and the undo data at odds.
CoinsMatchBestBlock ==
  /\ pc # "corrupted"
  /\ pc \notin Terminal \cup {"down", "replay"} => coinsTip = CoinsAfter[bestBlock]

\* The chain never spends an output twice nor before it is created.
SpentOnce ==
  pc = "run" => \A b \in Path[tip] : \A i \in DOMAIN Txs[b] : \A o \in Txs[b][i].spends :
    /\ \A x \in Path[tip] : \A j \in DOMAIN Txs[x] : o \in Txs[x][j].spends => x = b /\ j = i
    /\ \E x \in Path[b] : \E j \in DOMAIN Txs[x] : o \in Txs[x][j].creates /\ (x = b => j < i)

\* The coins database holds the coins of one block, or, while a write is under way or
\* was interrupted, each coin as one of its two heads has it.
DatabaseBetweenHeads ==
  IF dbHeads = NoHeads THEN dbCoins = CoinsAfter[dbBest]
  ELSE \A o \in Outs : dbCoins[o] \in {CoinsAfter[dbHeads[1]][o], CoinsAfter[dbHeads[2]][o]}

\* What the coins database refers to is in the index database, and without pruning it
\* and its undo data are in files that are flushed (the order of FlushStateToDisk).
IndexCoversCoins ==
  TypeOK /\
  LET needed == (UNION {HeadPath(b) : b \in {dbBest} \cup Range(dbHeads)}) \ {Genesis}
  IN  /\ needed \subseteq dbIndex
      /\ ~pruneMode => needed \subseteq dbHaveData \cap dbHaveUndo \cap syncedData \cap syncedUndo

\* A restart refuses only when a block between the heads of an interrupted write was
\* pruned (ReplayBlocks): else the index and the files have all that the coins refer to.
RefusedOnlyByPruning ==
  pc = "refused" =>
    pruneMode /\ dbHeads # NoHeads /\ \E b \in Rollbacks \cup Forwards : b \notin dbHaveData

\* What a restart has to begin with, the disk being as it is: the coins of the database,
\* those an interrupted write was about to make, or nothing if that cannot be read.
Recovered ==
  IF dbHeads = NoHeads THEN dbCoins
  ELSE IF /\ Rollbacks \cup Forwards \subseteq dbHaveData \cap syncedData
          /\ Rollbacks \subseteq dbHaveUndo \cap syncedUndo
  THEN CoinsAfter[dbHeads[1]] ELSE << >>

\* What the node works on; while it is down, and until it has loaded, what it will begin with.
InUse == IF pc \in {"down", "replay", "refused"} THEN Recovered ELSE coinsTip

Store == INSTANCE CoinStore
  WITH UTXO <- CoinsAfter, Lost <- << >>, prunes <- pruneMode,
       durable <- Recovered, cache <- InUse

\* However many steps and crashes a flush takes, to a restart it has happened or not.
ImplementsCoinStore == Store!Spec
=============================================================================
