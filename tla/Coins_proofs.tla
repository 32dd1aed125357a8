----------------------------- MODULE Coins_proofs -----------------------------
(***************************************************************************)
(* The properties of Coins, for every block tree, whatever its             *)
(* transactions, every number of blocks kept, and every order of flushes,  *)
(* crashes and restarts.                                                   *)
(*                                                                         *)
(* First the database (Inv): what the coins refer to is in the index       *)
(* database and in flushed files, and a restart refuses only when a block  *)
(* it has to replay was pruned.  Nothing there depends on what the coins   *)
(* are.                                                                    *)
(*                                                                         *)
(* Then the coins (CoinsInv).  A block that ConnectBlock accepts on the    *)
(* coins of its parent makes the coins of the block, and undo data with    *)
(* which DisconnectBlock resets whatever the block touched, whatever it is *)
(* at that moment.  So undoing and redoing blocks on any mixture of the    *)
(* coins of two blocks, each output as one of the two has it, makes the    *)
(* coins of one: what ReplayBlocks does after a flush that was             *)
(* interrupted.  That the undo data is there follows from the order in     *)
(* which files, index and coins are written.                               *)
(*                                                                         *)
(* Last, every step is one of CoinStore or changes nothing of it.          *)
(***************************************************************************)
EXTENDS Coins, BlockTree_proofs

-----------------------------------------------------------------------------
(* The database: what is on disk for the coins that are there.             *)

\* The places at which a chain is loaded.
Working == {"run", "flush", "settip", "files", "index", "unlink", "coins", "batch"}

\* Where FlushStateToDisk returns to, and what the node works on meanwhile.
PlaceInv ==
  /\ pc \in {"down", "replay"} => bestBlock = NoBlock /\ tip = NoBlock
  /\ pc \in {"run", "verify", "down", "replay"} => returnTo = "run"
  /\ pc \in {"flush", "settip"} => returnTo = "settip"
  /\ returnTo = "load" => pc \in {"coins", "batch", "load"} \cup Terminal
  /\ pc \in Working => bestBlock # NoBlock
  /\ pc \in Working \cup {"verify"} /\ returnTo = "run" => tip = bestBlock
  /\ dbHeads # NoHeads => pc \in {"coins", "batch", "down", "replay"} \cup Terminal
  /\ dbHeads # NoHeads /\ pc \in {"coins", "batch"} => bestBlock = dbHeads[1]
  /\ pc = "load" => bestBlock = dbBest
  /\ pc = "verify" => HeadPath(dbBest) \subseteq Path[bestBlock] /\ bestBlock # NoBlock

\* The index knows the ancestors of all that the node works on; the database those of all
\* that the coins database names, and of the best block before the coins are written.
Within(b, S) == b # NoBlock => Path[b] \subseteq S
IndexInv ==
  /\ (\A b \in index : Path[b] \subseteq index) /\ (\A b \in dbIndex : Path[b] \subseteq dbIndex)
  /\ Within(bestBlock, index) /\ Within(tip, index)
  /\ Within(dbBest, dbIndex) /\ \A i \in DOMAIN dbHeads : Within(dbHeads[i], dbIndex)
  /\ pc # "down" => Genesis \in index /\ dbIndex \subseteq index
  /\ dbIndex # {} => Genesis \in dbIndex
  /\ pc \in {"unlink", "coins", "batch"} => Within(bestBlock, dbIndex)

\* The index says that data or undo data is there only if it is, and the database only if
\* it is flushed.
FilesInv ==
  /\ haveData \subseteq dataFile /\ haveUndo \subseteq DOMAIN undoFile
  /\ dbHaveData \subseteq syncedData /\ dbHaveUndo \subseteq syncedUndo
  /\ pc = "index" => haveData \subseteq syncedData /\ haveUndo \subseteq syncedUndo
  /\ pc \in {"unlink", "coins", "batch"} \/ (pc = "replay" /\ dbIndex # {})
       => dbHaveData = haveData /\ dbHaveUndo = haveUndo
  /\ filesToPrune \cap (haveData \cup haveUndo) = {}
  /\ filesToPrune # {} => pruneMode /\ pc \in {"files", "index", "unlink"}

\* Without pruning nothing is ever taken away.
KeptInv ==
  ~pruneMode =>
    /\ \A b \in {tip, bestBlock} : HeadPath(b) \ {Genesis} \subseteq haveData \cap haveUndo
    /\ HeadPath(dbBest) \ {Genesis} \subseteq dbHaveData \cap dbHaveUndo
    /\ \A i \in DOMAIN dbHeads :
         HeadPath(dbHeads[i]) \ {Genesis} \subseteq dbHaveData \cap dbHaveUndo
    /\ pc # "down" => dbHaveData \subseteq haveData /\ dbHaveUndo \subseteq haveUndo

\* What has to be undone to get from the coins on disk to those in memory can be undone,
\* unless it is pruned at this moment, with its undo data.
UndoInv ==
  /\ pc \in {"run", "flush", "settip"} \/ (pc \in {"files", "index"} /\ filesToPrune = {})
       => HeadPath(dbBest) \ Path[bestBlock] \subseteq haveData \cap haveUndo
  /\ pc \in {"files", "index", "unlink", "coins"} /\ dbHeads = NoHeads
       => \A b \in HeadPath(dbBest) \ Path[bestBlock] : b \in haveData => b \in haveUndo
  /\ dbHeads # NoHeads => \A b \in Rollbacks : b \in dbHaveData => b \in dbHaveUndo

\* The invariant of the database.
Inv == TypeOK /\ PlaceInv /\ IndexInv /\ FilesInv /\ KeptInv /\ UndoInv /\ RefusedOnlyByPruning

-----------------------------------------------------------------------------
(* The tree, and cutting a function down.                                  *)

\* A chain holds its block, its genesis block and the chain of each of its blocks.
LEMMA TreeFacts ==
  \A b \in Blocks :
    /\ b \in Path[b] /\ Path[b] \subseteq Blocks /\ Genesis \in Path[b]
    /\ \A a \in Path[b] : Path[a] \subseteq Path[b]
    /\ b # NoBlock
    /\ b # Genesis => Parent[b] \in Blocks /\ Path[b] = Path[Parent[b]] \cup {b}
BY ChainFacts, TreeAssumption

\* The domain of a function that is cut down.
LEMMA RestrictFacts ==
  ASSUME NEW f, NEW S
  PROVE  DOMAIN Restrict(f, S) = S
BY DEF Restrict

-----------------------------------------------------------------------------
(* The invariant holds at the start, and every step keeps it.              *)

\* The first start ran before the node is looked at.
LEMMA InitInv == Init => Inv
<1> SUFFICES ASSUME Init
             PROVE  Inv
  OBVIOUS
<1>1. TypeOK
  <2>1. DOMAIN undoFile = {}
    BY DEF Init
  <2> QED BY <2>1, TreeAssumption DEF Init, TypeOK, Labels, NoHeads
<1>2. PlaceInv
  BY TreeAssumption DEF Init, PlaceInv
<1>3. IndexInv
  BY TreeAssumption DEF Init, IndexInv, Within, NoHeads
<1>4. FilesInv
  BY DEF Init, FilesInv
<1>5. KeptInv
  BY TreeAssumption DEF Init, KeptInv, HeadPath, NoHeads
<1>6. UndoInv
  BY TreeAssumption DEF Init, UndoInv, HeadPath
<1>7. RefusedOnlyByPruning
  BY DEF Init, RefusedOnlyByPruning
<1> QED BY <1>1, <1>2, <1>3, <1>4, <1>5, <1>6, <1>7 DEF Inv

\* AcceptBlock: the parent is indexed with all its ancestors, and so is the block.
LEMMA KeepsReceiveBlock ==
  ASSUME NEW b \in Blocks \ {Genesis}, Inv, ReceiveBlock(b)
  PROVE  Inv'
<1>1. TypeOK'
  BY DEF Inv, TypeOK, syncVars, dbIndexVars, dbCoinVars, flushVars, ReceiveBlock
<1>2. PlaceInv'
  BY DEF Inv, PlaceInv, dbCoinVars, flushVars, ReceiveBlock
<1>3. IndexInv'
  BY TreeAssumption DEF Inv, IndexInv, Within, dbIndexVars, dbCoinVars, ReceiveBlock
<1>4. FilesInv'
  BY DEF Inv, FilesInv, syncVars, dbIndexVars, flushVars, ReceiveBlock
<1>5. KeptInv'
  BY DEF Inv, KeptInv, dbIndexVars, dbCoinVars, ReceiveBlock
<1>6. UndoInv'
  BY DEF Inv, UndoInv, Rollbacks, dbIndexVars, dbCoinVars, ReceiveBlock
<1>7. RefusedOnlyByPruning'
  BY DEF RefusedOnlyByPruning, ReceiveBlock
<1> QED BY <1>1, <1>2, <1>3, <1>4, <1>5, <1>6, <1>7 DEF Inv

\* ConnectTip: the best block is a child of the tip and now has undo data.
LEMMA KeepsConnectTip ==
  ASSUME NEW b \in Blocks \ {Genesis}, Inv, ConnectTip(b)
  PROVE  Inv'
<1>1. TypeOK'
  BY DEF Inv, TypeOK, Labels, Goto, syncVars, dbIndexVars, dbCoinVars, ConnectTip, CanReadBlock,
     WriteUndoData
<1>2. PlaceInv'
  BY TreeAssumption DEF Inv, PlaceInv, Terminal, Goto, dbCoinVars, ConnectTip
<1>3. IndexInv'
  BY DEF Inv, TypeOK, IndexInv, Within, Goto, dbIndexVars, dbCoinVars, ConnectTip, CanReadBlock
<1>4. FilesInv'
  BY DEF Inv, FilesInv, Goto, syncVars, dbIndexVars, ConnectTip, WriteUndoData
<1>5. KeptInv'
  BY TreeAssumption DEF Inv, KeptInv, HeadPath, dbIndexVars, dbCoinVars, ConnectTip,
     CanReadBlock, WriteUndoData
<1>6. UndoInv'
  BY TreeAssumption DEF Inv, PlaceInv, UndoInv, Terminal, Working, dbCoinVars, ConnectTip,
     WriteUndoData
<1>7. RefusedOnlyByPruning'
  BY DEF RefusedOnlyByPruning, Goto, ConnectTip
<1> QED BY <1>1, <1>2, <1>3, <1>4, <1>5, <1>6, <1>7 DEF Inv

\* DisconnectTip: the block that goes is one whose data and undo data were read.
LEMMA KeepsDisconnectTip ==
  ASSUME Inv, DisconnectTip
  PROVE  Inv'
<1>1. TypeOK'
  BY TreeAssumption DEF Inv, TypeOK, Terminal, Labels, Goto, memIndexVars, syncVars, fileVars,
     dbIndexVars, dbCoinVars, DisconnectTip, CanReadUndo
<1>2. PlaceInv'
  BY TreeAssumption DEF Inv, TypeOK, PlaceInv, Terminal, Working, Goto, dbCoinVars, DisconnectTip
<1>3. IndexInv'
  BY TreeAssumption DEF Inv, TypeOK, IndexInv, Within, Goto, memIndexVars, dbIndexVars,
     dbCoinVars, DisconnectTip, CanReadUndo
<1>4. FilesInv'
  BY DEF Inv, FilesInv, Goto, memIndexVars, syncVars, fileVars, dbIndexVars, DisconnectTip
<1>5. KeptInv'
  BY TreeAssumption DEF Inv, TypeOK, KeptInv, HeadPath, memIndexVars, dbIndexVars, dbCoinVars,
     DisconnectTip, CanReadUndo
<1>6. UndoInv'
  BY TreeAssumption DEF Inv, TypeOK, PlaceInv, UndoInv, Terminal, Working, memIndexVars,
     dbCoinVars, DisconnectTip, CanReadBlock, CanReadUndo
<1>7. RefusedOnlyByPruning'
  BY DEF RefusedOnlyByPruning, Goto, DisconnectTip
<1> QED BY <1>1, <1>2, <1>3, <1>4, <1>5, <1>6, <1>7 DEF Inv

\* SetTip: the tip follows the best block.
LEMMA KeepsSetTip ==
  ASSUME Inv, SetTip
  PROVE  Inv'
<1>1. TypeOK'
  BY DEF Inv, TypeOK, Labels, Goto, memIndexVars, syncVars, fileVars, dbIndexVars, dbCoinVars,
     SetTip
<1>2. PlaceInv'
  BY DEF Inv, PlaceInv, Terminal, Working, Goto, dbCoinVars, SetTip
<1>3. IndexInv'
  BY DEF Inv, IndexInv, Goto, memIndexVars, dbIndexVars, dbCoinVars, SetTip
<1>4. FilesInv'
  BY DEF Inv, FilesInv, Goto, memIndexVars, syncVars, fileVars, dbIndexVars, SetTip
<1>5. KeptInv'
  BY DEF Inv, KeptInv, memIndexVars, dbIndexVars, dbCoinVars, SetTip
<1>6. UndoInv'
  BY DEF Inv, UndoInv, Rollbacks, memIndexVars, dbIndexVars, dbCoinVars, SetTip
<1>7. RefusedOnlyByPruning'
  BY DEF RefusedOnlyByPruning, Goto, SetTip
<1> QED BY <1>1, <1>2, <1>3, <1>4, <1>5, <1>6, <1>7 DEF Inv

\* FlushStateToDisk with nothing to write.
LEMMA KeepsNoFlush ==
  ASSUME Inv, NoFlush
  PROVE  Inv'
<1>1. TypeOK'
  BY DEF Inv, TypeOK, Labels, Goto, memVars, memIndexVars, syncVars, fileVars, dbIndexVars,
     dbCoinVars, flushVars, NoFlush
<1>2. PlaceInv'
  BY DEF Inv, PlaceInv, Terminal, Working, Goto, memVars, dbCoinVars, flushVars, NoFlush
<1>3. IndexInv'
  BY DEF Inv, PlaceInv, IndexInv, Goto, memVars, memIndexVars, dbIndexVars, dbCoinVars, NoFlush
<1>4. FilesInv'
  BY DEF Inv, PlaceInv, FilesInv, Goto, memVars, memIndexVars, syncVars, fileVars, dbIndexVars,
     flushVars, NoFlush
<1>5. KeptInv'
  BY DEF Inv, KeptInv, memVars, memIndexVars, dbIndexVars, dbCoinVars, NoFlush
<1>6. UndoInv'
  BY DEF Inv, UndoInv, Rollbacks, memVars, memIndexVars, dbIndexVars, dbCoinVars, NoFlush
<1>7. RefusedOnlyByPruning'
  BY DEF Inv, PlaceInv, RefusedOnlyByPruning, Goto, NoFlush
<1> QED BY <1>1, <1>2, <1>3, <1>4, <1>5, <1>6, <1>7 DEF Inv

\* FlushStateToDisk begins: files and index only.
LEMMA KeepsPeriodicWrite ==
  ASSUME Inv, PeriodicWrite
  PROVE  Inv'
<1>1. TypeOK'
  BY DEF Inv, TypeOK, Labels, Goto, memVars, memIndexVars, syncVars, fileVars, dbIndexVars,
     dbCoinVars, PeriodicWrite
<1>2. PlaceInv'
  BY DEF Inv, PlaceInv, Terminal, Working, Goto, memVars, dbCoinVars, PeriodicWrite
<1>3. IndexInv'
  BY DEF Inv, IndexInv, Goto, memVars, memIndexVars, dbIndexVars, dbCoinVars, PeriodicWrite
<1>4. FilesInv'
  BY DEF Inv, FilesInv, Goto, memVars, memIndexVars, syncVars, fileVars, dbIndexVars,
     PeriodicWrite
<1>5. KeptInv'
  BY DEF Inv, KeptInv, memVars, memIndexVars, dbIndexVars, dbCoinVars, PeriodicWrite
<1>6. UndoInv'
  BY DEF Inv, UndoInv, Rollbacks, memVars, memIndexVars, dbIndexVars, dbCoinVars, PeriodicWrite
<1>7. RefusedOnlyByPruning'
  BY DEF RefusedOnlyByPruning, Goto, PeriodicWrite
<1> QED BY <1>1, <1>2, <1>3, <1>4, <1>5, <1>6, <1>7 DEF Inv

\* FlushStateToDisk begins: the coins too.
LEMMA KeepsFullFlush ==
  ASSUME Inv, FullFlush
  PROVE  Inv'
<1>1. TypeOK'
  BY DEF Inv, TypeOK, Labels, Goto, memVars, memIndexVars, syncVars, fileVars, dbIndexVars,
     dbCoinVars, FullFlush, FlushStart
<1>2. PlaceInv'
  BY DEF Inv, PlaceInv, Terminal, Working, Goto, memVars, dbCoinVars, FullFlush, FlushStart
<1>3. IndexInv'
  BY DEF Inv, IndexInv, Goto, memVars, memIndexVars, dbIndexVars, dbCoinVars, FullFlush,
     FlushStart
<1>4. FilesInv'
  BY DEF Inv, FilesInv, Goto, memVars, memIndexVars, syncVars, fileVars, dbIndexVars, FullFlush,
     FlushStart
<1>5. KeptInv'
  BY DEF Inv, KeptInv, memVars, memIndexVars, dbIndexVars, dbCoinVars, FullFlush
<1>6. UndoInv'
  BY DEF Inv, UndoInv, Rollbacks, memVars, memIndexVars, dbIndexVars, dbCoinVars, FullFlush
<1>7. RefusedOnlyByPruning'
  BY DEF RefusedOnlyByPruning, Goto, FullFlush, FlushStart
<1> QED BY <1>1, <1>2, <1>3, <1>4, <1>5, <1>6, <1>7 DEF Inv

\* FindFilesToPrune takes flags out of the index only, and for a node that prunes.
LEMMA KeepsPruneFlush ==
  ASSUME NEW h \in {Height[b] : b \in Blocks}, Inv, PruneFlush(h)
  PROVE  Inv'
<1>1. TypeOK'
  BY DEF Inv, TypeOK, Labels, Goto, syncVars, fileVars, dbIndexVars, dbCoinVars, PruneFlush
<1>2. PlaceInv'
  BY DEF Inv, PlaceInv, Terminal, Working, Goto, dbCoinVars, PruneFlush
<1>3. IndexInv'
  BY DEF Inv, IndexInv, Goto, dbIndexVars, dbCoinVars, PruneFlush
<1>4. FilesInv'
  BY DEF Inv, FilesInv, Goto, syncVars, fileVars, dbIndexVars, PruneFlush
<1>5. KeptInv'
  BY DEF KeptInv, PruneFlush
<1>6. UndoInv'
  BY DEF Inv, UndoInv, Rollbacks, Goto, dbIndexVars, dbCoinVars, PruneFlush
<1>7. RefusedOnlyByPruning'
  BY DEF RefusedOnlyByPruning, Goto, PruneFlush
<1> QED BY <1>1, <1>2, <1>3, <1>4, <1>5, <1>6, <1>7 DEF Inv

\* FlushBlockFiles: from here on what the index says is there is flushed.
LEMMA KeepsFlushBlockFiles ==
  ASSUME Inv, FlushBlockFiles
  PROVE  Inv'
<1>1. TypeOK'
  BY DEF Inv, TypeOK, Labels, Goto, memVars, memIndexVars, dbIndexVars, dbCoinVars, flushVars,
     FlushBlockFiles, SyncedUndoAfter
<1>2. PlaceInv'
  BY DEF Inv, PlaceInv, Terminal, Working, Goto, memVars, dbCoinVars, flushVars, FlushBlockFiles
<1>3. IndexInv'
  BY DEF Inv, IndexInv, Goto, memVars, memIndexVars, dbIndexVars, dbCoinVars, FlushBlockFiles
<1>4. FilesInv'
  BY DEF Inv, TypeOK, FilesInv, Goto, memVars, memIndexVars, dbIndexVars, flushVars,
     FlushBlockFiles, SyncedUndoAfter
<1>5. KeptInv'
  BY DEF Inv, KeptInv, memVars, memIndexVars, dbIndexVars, dbCoinVars, FlushBlockFiles
<1>6. UndoInv'
  BY DEF Inv, UndoInv, Rollbacks, Goto, memVars, memIndexVars, dbIndexVars, dbCoinVars,
     flushVars, FlushBlockFiles
<1>7. RefusedOnlyByPruning'
  BY DEF RefusedOnlyByPruning, Goto, FlushBlockFiles
<1> QED BY <1>1, <1>2, <1>3, <1>4, <1>5, <1>6, <1>7 DEF Inv

\* WriteBlockIndexDB: the database knows what the node works on, before any coin of it.
LEMMA KeepsWriteBlockIndexDB ==
  ASSUME Inv, WriteBlockIndexDB
  PROVE  Inv'
<1>1. TypeOK'
  BY DEF Inv, TypeOK, Labels, Goto, memVars, memIndexVars, syncVars, fileVars, dbCoinVars,
     flushVars, WriteBlockIndexDB
<1>2. PlaceInv'
  BY DEF Inv, TypeOK, PlaceInv, Terminal, Working, Goto, memVars, dbCoinVars, flushVars,
     WriteBlockIndexDB
<1>3. IndexInv'
  BY DEF Inv, IndexInv, Within, memVars, memIndexVars, dbCoinVars, WriteBlockIndexDB
<1>4. FilesInv'
  BY DEF Inv, FilesInv, Goto, memVars, memIndexVars, syncVars, fileVars, flushVars,
     WriteBlockIndexDB
<1>5. KeptInv'
  BY DEF Inv, KeptInv, memVars, memIndexVars, dbCoinVars, WriteBlockIndexDB
<1>6. UndoInv'
  BY DEF Inv, PlaceInv, UndoInv, Terminal, Goto, memVars, memIndexVars, dbCoinVars,
     WriteBlockIndexDB
<1>7. RefusedOnlyByPruning'
  BY DEF Inv, TypeOK, RefusedOnlyByPruning, Goto, WriteBlockIndexDB
<1> QED BY <1>1, <1>2, <1>3, <1>4, <1>5, <1>6, <1>7 DEF Inv

\* UnlinkPrunedFiles: no file that the index, in memory or on disk, still says is there.
LEMMA KeepsUnlinkPrunedFiles ==
  ASSUME Inv, UnlinkPrunedFiles
  PROVE  Inv'
<1>1. TypeOK'
  BY RestrictFacts DEF Inv, TypeOK, Labels, Goto, memVars, memIndexVars, dbIndexVars, dbCoinVars,
     UnlinkPrunedFiles
<1>2. PlaceInv'
  BY DEF Inv, PlaceInv, Terminal, Working, Goto, memVars, dbCoinVars, UnlinkPrunedFiles
<1>3. IndexInv'
  BY DEF Inv, IndexInv, memVars, memIndexVars, dbIndexVars, dbCoinVars, UnlinkPrunedFiles
<1>4. FilesInv'
  BY RestrictFacts DEF Inv, FilesInv, memVars, memIndexVars, dbIndexVars, UnlinkPrunedFiles
<1>5. KeptInv'
  BY DEF Inv, KeptInv, memVars, memIndexVars, dbIndexVars, dbCoinVars, UnlinkPrunedFiles
<1>6. UndoInv'
  BY DEF Inv, UndoInv, Rollbacks, Goto, memVars, memIndexVars, dbIndexVars, dbCoinVars,
     UnlinkPrunedFiles
<1>7. RefusedOnlyByPruning'
  BY DEF RefusedOnlyByPruning, Goto, UnlinkPrunedFiles
<1> QED BY <1>1, <1>2, <1>3, <1>4, <1>5, <1>6, <1>7 DEF Inv

\* The first batch: the heads are the best block, whose ancestors the index database has, and
\* the block the coins were of.
LEMMA KeepsFirstBatch ==
  ASSUME NEW S \in SUBSET Dirty, Inv, FirstBatch(S)
  PROVE  Inv'
<1>1. TypeOK'
  BY DEF Inv, TypeOK, PlaceInv, Working, Labels, Goto, memVars, memIndexVars, syncVars, fileVars,
     dbIndexVars, flushVars, FirstBatch, HeadsInBatch, OldTip
<1>2. PlaceInv'
  BY DEF Inv, PlaceInv, Working, Goto, memVars, flushVars, FirstBatch, HeadsInBatch
<1>3. IndexInv'
  BY DEF Inv, TypeOK, IndexInv, Within, memVars, memIndexVars, dbIndexVars, FirstBatch,
     HeadsInBatch, OldTip
<1>4. FilesInv'
  BY DEF Inv, FilesInv, memVars, memIndexVars, syncVars, fileVars, dbIndexVars, flushVars,
     FirstBatch
<1>5. KeptInv'
  BY DEF Inv, TypeOK, FilesInv, KeptInv, HeadPath, memVars, memIndexVars, dbIndexVars,
     FirstBatch, HeadsInBatch, OldTip
<1>6. UndoInv'
  BY DEF Inv, PlaceInv, FilesInv, UndoInv, HeadPath, Rollbacks, Working, Goto, dbIndexVars,
     FirstBatch, HeadsInBatch, OldTip
<1>7. RefusedOnlyByPruning'
  BY DEF RefusedOnlyByPruning, Goto, FirstBatch
<1> QED BY <1>1, <1>2, <1>3, <1>4, <1>5, <1>6, <1>7 DEF Inv

\* A further batch changes coins only.
LEMMA KeepsNextBatch ==
  ASSUME NEW S \in SUBSET Dirty, Inv, NextBatch(S)
  PROVE  Inv'
<1>1. TypeOK'
  BY DEF Inv, TypeOK, memVars, memIndexVars, syncVars, fileVars, dbIndexVars, flushVars, NextBatch
<1>2. PlaceInv'
  BY DEF Inv, PlaceInv, memVars, flushVars, NextBatch
<1>3. IndexInv'
  BY DEF Inv, IndexInv, memVars, memIndexVars, dbIndexVars, NextBatch
<1>4. FilesInv'
  BY DEF Inv, FilesInv, memVars, memIndexVars, syncVars, fileVars, dbIndexVars, flushVars,
     NextBatch
<1>5. KeptInv'
  BY DEF Inv, KeptInv, memVars, memIndexVars, dbIndexVars, NextBatch
<1>6. UndoInv'
  BY DEF Inv, UndoInv, Rollbacks, dbIndexVars, NextBatch
<1>7. RefusedOnlyByPruning'
  BY DEF RefusedOnlyByPruning, NextBatch
<1> QED BY <1>1, <1>2, <1>3, <1>4, <1>5, <1>6, <1>7 DEF Inv

\* The last batch: the coins are those of the best block.
LEMMA KeepsLastBatch ==
  ASSUME Inv, LastBatch
  PROVE  Inv'
<1>1. TypeOK'
  BY DEF Inv, TypeOK, Labels, Goto, memVars, memIndexVars, syncVars, fileVars, dbIndexVars,
     flushVars, LastBatch
<1>2. PlaceInv'
  BY DEF Inv, TypeOK, PlaceInv, Working, Goto, memVars, flushVars, LastBatch
<1>3. IndexInv'
  BY DEF Inv, IndexInv, NoHeads, memVars, memIndexVars, dbIndexVars, LastBatch
<1>4. FilesInv'
  BY DEF Inv, FilesInv, memVars, memIndexVars, syncVars, fileVars, dbIndexVars, flushVars,
     LastBatch
<1>5. KeptInv'
  BY DEF Inv, FilesInv, KeptInv, NoHeads, memVars, memIndexVars, dbIndexVars, LastBatch
<1>6. UndoInv'
  BY DEF Inv, PlaceInv, UndoInv, HeadPath, Working, memVars, LastBatch
<1>7. RefusedOnlyByPruning'
  BY DEF Inv, TypeOK, RefusedOnlyByPruning, Goto, LastBatch
<1> QED BY <1>1, <1>2, <1>3, <1>4, <1>5, <1>6, <1>7 DEF Inv

\* A crash leaves what was flushed, which is what the index database says is there.
LEMMA KeepsCrash ==
  ASSUME Inv, Crash
  PROVE  Inv'
<1>1. TypeOK'
  <2>1. DOMAIN undoFile' = syncedUndo
    BY RestrictFacts DEF Crash
  <2>2. /\ tip' = NoBlock /\ bestBlock' = NoBlock /\ index' = {} /\ haveData' = {}
        /\ haveUndo' = {}
        /\ dataFile' = syncedData /\ returnTo' = "run" /\ fullFlush' = FALSE /\ filesToPrune' = {}
        /\ pc' = "down"
        /\ UNCHANGED <<pruneMode, syncedData, syncedUndo, dbIndex, dbHaveData, dbHaveUndo>>
        /\ UNCHANGED <<dbBest, dbHeads>>
    BY DEF Crash, Goto, syncVars, dbIndexVars, dbCoinVars
  <2> QED BY <2>1, <2>2 DEF Inv, TypeOK, Labels, Terminal, NoHeads
<1>2. PlaceInv'
  BY DEF PlaceInv, Working, Goto, Crash
<1>3. IndexInv'
  BY DEF Inv, IndexInv, Within, Goto, dbIndexVars, dbCoinVars, Crash
<1>4. FilesInv'
  BY DEF Inv, FilesInv, Goto, syncVars, dbIndexVars, Crash
<1>5. KeptInv'
  BY DEF Inv, KeptInv, HeadPath, Goto, dbIndexVars, dbCoinVars, Crash
<1>6. UndoInv'
  BY DEF Inv, UndoInv, Rollbacks, Goto, dbIndexVars, dbCoinVars, Crash
<1>7. RefusedOnlyByPruning'
  BY DEF RefusedOnlyByPruning, Goto, Crash
<1> QED BY <1>1, <1>2, <1>3, <1>4, <1>5, <1>6, <1>7 DEF Inv

\* LoadGenesisBlock: an empty index database has empty coins beside it.
LEMMA KeepsFirstStart ==
  ASSUME Inv, FirstStart
  PROVE  Inv'
<1>1. TypeOK'
  BY TreeAssumption DEF Inv, TypeOK, Labels, Goto, dbIndexVars, dbCoinVars, flushVars, FirstStart
<1>2. PlaceInv'
  BY DEF Inv, PlaceInv, Working, Goto, flushVars, FirstStart
<1>3. IndexInv'
  BY TreeAssumption DEF Inv, PlaceInv, IndexInv, Within, dbIndexVars, dbCoinVars, FirstStart
<1>4. FilesInv'
  BY DEF Inv, TypeOK, FilesInv, Goto, dbIndexVars, flushVars, FirstStart
<1>5. KeptInv'
  BY DEF Inv, TypeOK, PlaceInv, KeptInv, HeadPath, dbIndexVars, dbCoinVars, FirstStart
<1>6. UndoInv'
  BY DEF Inv, UndoInv, Rollbacks, Goto, dbIndexVars, dbCoinVars, FirstStart
<1>7. RefusedOnlyByPruning'
  BY DEF RefusedOnlyByPruning, Goto, FirstStart
<1> QED BY <1>1, <1>2, <1>3, <1>4, <1>5, <1>6, <1>7 DEF Inv

\* LoadBlockIndex never refuses: no block the database says is there is missing in the files.
LEMMA KeepsLoadBlockIndex ==
  ASSUME Inv, LoadBlockIndex
  PROVE  Inv'
<1>1. TypeOK'
  BY RestrictFacts DEF Inv, TypeOK, Terminal, Labels, Goto, dbIndexVars, dbCoinVars, flushVars,
     LoadBlockIndex
<1>2. PlaceInv'
  BY DEF Inv, PlaceInv, Terminal, Working, Goto, flushVars, LoadBlockIndex
<1>3. IndexInv'
  BY DEF Inv, PlaceInv, IndexInv, Within, dbIndexVars, dbCoinVars, LoadBlockIndex
<1>4. FilesInv'
  BY RestrictFacts DEF Inv, TypeOK, FilesInv, dbIndexVars, flushVars, LoadBlockIndex
<1>5. KeptInv'
  BY DEF Inv, PlaceInv, KeptInv, HeadPath, dbIndexVars, dbCoinVars, LoadBlockIndex
<1>6. UndoInv'
  BY DEF Inv, UndoInv, Rollbacks, Goto, dbIndexVars, dbCoinVars, LoadBlockIndex
<1>7. RefusedOnlyByPruning'
  BY DEF Inv, TypeOK, FilesInv, RefusedOnlyByPruning, Goto, LoadBlockIndex
<1> QED BY <1>1, <1>2, <1>3, <1>4, <1>5, <1>6, <1>7 DEF Inv

\* ReplayBlocks with no heads: the best block is that of the database.
LEMMA KeepsNothingToReplay ==
  ASSUME Inv, NothingToReplay
  PROVE  Inv'
<1>1. TypeOK'
  BY DEF Inv, TypeOK, Labels, Goto, memIndexVars, syncVars, fileVars, dbIndexVars, dbCoinVars,
     flushVars, NothingToReplay
<1>2. PlaceInv'
  BY DEF PlaceInv, Working, Goto, dbCoinVars, NothingToReplay
<1>3. IndexInv'
  BY DEF Inv, IndexInv, Within, memIndexVars, dbIndexVars, dbCoinVars, NothingToReplay
<1>4. FilesInv'
  BY DEF Inv, FilesInv, Goto, memIndexVars, syncVars, fileVars, dbIndexVars, flushVars,
     NothingToReplay
<1>5. KeptInv'
  BY DEF Inv, KeptInv, memIndexVars, dbIndexVars, dbCoinVars, NothingToReplay
<1>6. UndoInv'
  BY DEF UndoInv, Goto, dbCoinVars, NothingToReplay
<1>7. RefusedOnlyByPruning'
  BY DEF RefusedOnlyByPruning, Goto, NothingToReplay
<1> QED BY <1>1, <1>2, <1>3, <1>4, <1>5, <1>6, <1>7 DEF Inv

\* ReplayBlocks: the coins of the first head, to be written as an interrupted flush.
LEMMA KeepsReplayBlocks ==
  ASSUME Inv, ReplayBlocks
  PROVE  Inv'
<1>1. TypeOK'
  BY DEF Inv, TypeOK, Labels, Goto, memIndexVars, syncVars, fileVars, dbIndexVars, dbCoinVars,
     ReplayBlocks
<1>2. PlaceInv'
  BY TreeAssumption DEF Inv, TypeOK, PlaceInv, Goto, dbCoinVars, ReplayBlocks
<1>3. IndexInv'
  <2>1. dbHeads[1] \in Blocks /\ 1 \in DOMAIN dbHeads
    BY DEF Inv, TypeOK, ReplayBlocks
  <2>2. Within(dbHeads[1], dbIndex) /\ dbIndex \subseteq index
    BY <2>1 DEF Inv, IndexInv, ReplayBlocks
  <2>3. Within(dbHeads[1], index)
    BY <2>2 DEF Within
  <2>4. /\ bestBlock' = dbHeads[1] /\ pc' = "coins" /\ pc = "replay"
        /\ UNCHANGED <<tip, index, dbIndex, dbBest, dbHeads>>
    BY DEF ReplayBlocks, Goto, memIndexVars, dbIndexVars, dbCoinVars
  <2> QED BY <2>2, <2>3, <2>4 DEF Inv, IndexInv, Within
<1>4. FilesInv'
  BY TreeAssumption DEF Inv, TypeOK, IndexInv, FilesInv, Within, memIndexVars, syncVars,
     fileVars, dbIndexVars, ReplayBlocks
<1>5. KeptInv'
  BY DEF Inv, TypeOK, KeptInv, memIndexVars, dbIndexVars, dbCoinVars, ReplayBlocks
<1>6. UndoInv'
  BY DEF Inv, UndoInv, Rollbacks, Goto, dbIndexVars, dbCoinVars, ReplayBlocks
<1>7. RefusedOnlyByPruning'
  BY DEF RefusedOnlyByPruning, Goto, ReplayBlocks
<1> QED BY <1>1, <1>2, <1>3, <1>4, <1>5, <1>6, <1>7 DEF Inv

\* ReplayBlocks refuses: of what it cannot read the data was pruned, for undo data goes only
\* with the data.
LEMMA KeepsReplayFails ==
  ASSUME Inv, ReplayFails
  PROVE  Inv'
<1>1. TypeOK'
  BY DEF Inv, TypeOK, Terminal, Labels, Goto, memVars, memIndexVars, syncVars, fileVars,
     dbIndexVars, dbCoinVars, flushVars, ReplayFails
<1>2. PlaceInv'
  BY DEF PlaceInv, Terminal, Working, Goto, ReplayFails
<1>3. IndexInv'
  BY DEF Inv, IndexInv, Goto, memVars, memIndexVars, dbIndexVars, dbCoinVars, ReplayFails
<1>4. FilesInv'
  BY DEF Inv, FilesInv, Goto, memVars, memIndexVars, syncVars, fileVars, dbIndexVars, flushVars,
     ReplayFails
<1>5. KeptInv'
  BY DEF Inv, KeptInv, memVars, memIndexVars, dbIndexVars, dbCoinVars, ReplayFails
<1>6. UndoInv'
  BY DEF Inv, UndoInv, Rollbacks, Goto, dbIndexVars, dbCoinVars, ReplayFails
<1>7. RefusedOnlyByPruning'
  BY TreeFacts DEF Inv, TypeOK, FilesInv, KeptInv, UndoInv, RefusedOnlyByPruning, HeadPath,
     Rollbacks, Forwards, dbIndexVars, dbCoinVars, ReplayFails, ReplayReadable, CanReadBlock,
     CanReadUndo
<1> QED BY <1>1, <1>2, <1>3, <1>4, <1>5, <1>6, <1>7 DEF Inv

\* LoadChainTip never refuses: the best block of the coins is indexed.
LEMMA KeepsLoadChainTip ==
  ASSUME Inv, LoadChainTip
  PROVE  Inv'
<1>1. TypeOK'
  BY DEF Inv, TypeOK, IndexInv, Terminal, Labels, Goto, memIndexVars, syncVars, fileVars,
     dbIndexVars, dbCoinVars, LoadChainTip
<1>2. PlaceInv'
  BY TreeAssumption DEF Inv, PlaceInv, HeadPath, Terminal, Goto, dbCoinVars, LoadChainTip
<1>3. IndexInv'
  BY DEF Inv, IndexInv, Within, Goto, memIndexVars, dbIndexVars, dbCoinVars, LoadChainTip
<1>4. FilesInv'
  BY DEF Inv, FilesInv, Goto, memIndexVars, syncVars, fileVars, dbIndexVars, LoadChainTip
<1>5. KeptInv'
  BY TreeAssumption DEF Inv, KeptInv, HeadPath, memIndexVars, dbIndexVars, dbCoinVars,
     LoadChainTip
<1>6. UndoInv'
  BY DEF Inv, UndoInv, Rollbacks, Goto, dbIndexVars, dbCoinVars, LoadChainTip
<1>7. RefusedOnlyByPruning'
  BY TreeFacts DEF Inv, TypeOK, IndexInv, RefusedOnlyByPruning, Within, Goto, LoadChainTip
<1> QED BY <1>1, <1>2, <1>3, <1>4, <1>5, <1>6, <1>7 DEF Inv

\* VerifyDB changes nothing.
LEMMA KeepsVerifyDB ==
  ASSUME Inv, VerifyDB
  PROVE  Inv'
<1>1. TypeOK'
  BY DEF Inv, TypeOK, Terminal, Labels, Goto, memVars, memIndexVars, syncVars, fileVars,
     dbIndexVars, dbCoinVars, flushVars, VerifyDB
<1>2. PlaceInv'
  BY DEF Inv, PlaceInv, Terminal, Goto, memVars, dbCoinVars, flushVars, VerifyDB
<1>3. IndexInv'
  BY DEF Inv, IndexInv, Goto, memVars, memIndexVars, dbIndexVars, dbCoinVars, VerifyDB
<1>4. FilesInv'
  BY DEF Inv, FilesInv, Goto, memVars, memIndexVars, syncVars, fileVars, dbIndexVars, flushVars,
     VerifyDB
<1>5. KeptInv'
  BY DEF Inv, KeptInv, memVars, memIndexVars, dbIndexVars, dbCoinVars, VerifyDB
<1>6. UndoInv'
  BY DEF Inv, PlaceInv, UndoInv, Terminal, memVars, dbCoinVars, VerifyDB
<1>7. RefusedOnlyByPruning'
  BY DEF RefusedOnlyByPruning, Goto, VerifyDB
<1> QED BY <1>1, <1>2, <1>3, <1>4, <1>5, <1>6, <1>7 DEF Inv

\* Nothing happens, or the node has stopped.
LEMMA KeepsStutter ==
  ASSUME Inv, UNCHANGED vars
  PROVE  Inv'
<1>1. UNCHANGED <<pruneMode, tip, bestBlock, index, haveData, haveUndo, dataFile, undoFile>>
  BY DEF vars, memVars, memIndexVars, fileVars
<1>2. UNCHANGED <<syncedData, syncedUndo, dbIndex, dbHaveData, dbHaveUndo, dbBest, dbHeads>>
  BY DEF vars, fileVars, syncVars, dbIndexVars, dbCoinVars
<1>3. UNCHANGED <<pc, returnTo, fullFlush, filesToPrune>>
  BY DEF vars, flushVars
<1>4. TypeOK' /\ PlaceInv'
  BY <1>1, <1>2, <1>3 DEF Inv, TypeOK, PlaceInv, NoHeads, HeadPath
<1>5. IndexInv' /\ FilesInv'
  BY <1>1, <1>2, <1>3 DEF Inv, IndexInv, FilesInv, Within
<1>6. KeptInv' /\ UndoInv'
  BY <1>1, <1>2, <1>3 DEF Inv, KeptInv, UndoInv, HeadPath, Rollbacks, NoHeads
<1>7. RefusedOnlyByPruning'
  BY <1>1, <1>2, <1>3 DEF Inv, RefusedOnlyByPruning, HeadPath, Rollbacks, Forwards, NoHeads
<1> QED BY <1>4, <1>5, <1>6, <1>7 DEF Inv

\* Every step keeps the invariant.
LEMMA KeepsInv == Inv /\ [Next]_vars => Inv'
<1> SUFFICES ASSUME Inv, [Next]_vars
             PROVE  Inv'
  OBVIOUS
<1>1. CASE \E b \in Blocks \ {Genesis} : ReceiveBlock(b) \/ ConnectTip(b)
  BY <1>1, KeepsReceiveBlock, KeepsConnectTip
<1>2. CASE DisconnectTip \/ SetTip
  BY <1>2, KeepsDisconnectTip, KeepsSetTip
<1>3. CASE NoFlush \/ PeriodicWrite \/ FullFlush
  BY <1>3, KeepsNoFlush, KeepsPeriodicWrite, KeepsFullFlush
<1>4. CASE \E h \in {Height[b] : b \in Blocks} : PruneFlush(h)
  BY <1>4, KeepsPruneFlush
<1>5. CASE FlushBlockFiles \/ WriteBlockIndexDB \/ UnlinkPrunedFiles
  BY <1>5, KeepsFlushBlockFiles, KeepsWriteBlockIndexDB, KeepsUnlinkPrunedFiles
<1>6. CASE (\E S \in SUBSET Dirty : FirstBatch(S) \/ NextBatch(S)) \/ LastBatch
  BY <1>6, KeepsFirstBatch, KeepsNextBatch, KeepsLastBatch
<1>7. CASE Crash \/ FirstStart \/ LoadBlockIndex
  BY <1>7, KeepsCrash, KeepsFirstStart, KeepsLoadBlockIndex
<1>8. CASE NothingToReplay \/ ReplayBlocks \/ ReplayFails
  BY <1>8, KeepsNothingToReplay, KeepsReplayBlocks, KeepsReplayFails
<1>9. CASE LoadChainTip \/ VerifyDB
  BY <1>9, KeepsLoadChainTip, KeepsVerifyDB
<1>10. CASE Stopped \/ UNCHANGED vars
  BY <1>10, KeepsStutter DEF Stopped
<1> QED BY <1>1, <1>2, <1>3, <1>4, <1>5, <1>6, <1>7, <1>8, <1>9, <1>10 DEF Next

\* It holds always.
LEMMA InvariantHolds == Spec => []Inv
<1>1. Init => Inv
  BY InitInv
<1>2. Inv /\ [Next]_vars => Inv'
  BY KeepsInv
<1> QED BY <1>1, <1>2, PTL DEF Spec

-----------------------------------------------------------------------------
\* What the blocks the coins refer to need is below them, in the same database.
LEMMA InvCovers ==
  ASSUME Inv
  PROVE  IndexCoversCoins
<1> DEFINE heads == {dbBest} \cup Range(dbHeads)
           needed == (UNION {HeadPath(b) : b \in heads}) \ {Genesis}
<1>1. TypeOK /\ IndexInv /\ FilesInv /\ KeptInv
  BY DEF Inv
<1>2. ASSUME NEW b \in heads
      PROVE  /\ HeadPath(b) \ {Genesis} \subseteq dbIndex
             /\ ~pruneMode => HeadPath(b) \ {Genesis} \subseteq dbHaveData \cap dbHaveUndo
  <2>1. CASE b = dbBest
    BY <1>1, <2>1 DEF IndexInv, KeptInv, Within, HeadPath
  <2>2. CASE \E i \in DOMAIN dbHeads : b = dbHeads[i]
    BY <1>1, <2>2 DEF IndexInv, KeptInv, Within, HeadPath
  <2> QED BY <2>1, <2>2 DEF Range
<1>3. dbHaveData \subseteq syncedData /\ dbHaveUndo \subseteq syncedUndo
  BY <1>1 DEF FilesInv
<1>4. ASSUME NEW x \in needed
      PROVE  /\ x \in dbIndex
             /\ ~pruneMode => x \in dbHaveData \cap dbHaveUndo \cap syncedData \cap syncedUndo
  <2>1. PICK b \in heads : x \in HeadPath(b) \ {Genesis}
    OBVIOUS
  <2> QED BY <1>2, <1>3, <2>1
<1> QED BY <1>1, <1>4 DEF IndexCoversCoins

\* What the coins database refers to, its best block or the two heads of a write that was
\* interrupted, is in the index database with all its ancestors, and without pruning their
\* data and undo data are flushed: whatever flushes, crashes and restarts come in between
\* (the order of FlushStateToDisk).
THEOREM CoversCoins == Spec => []IndexCoversCoins
<1>1. Inv => IndexCoversCoins
  BY InvCovers
<1> QED BY <1>1, InvariantHolds, PTL

\* A restart is refused only by ReplayBlocks, and only because of a block between the heads
\* that was pruned: LoadBlockIndex finds every file, LoadChainTip its block, and undo data
\* is missing only where the block is.
THEOREM RefusesOnlyPruned == Spec => []RefusedOnlyByPruning
<1>1. Inv => RefusedOnlyByPruning
  BY DEF Inv
<1> QED BY <1>1, InvariantHolds, PTL

-----------------------------------------------------------------------------
(* ConnectBlock.                                                           *)

\* Coins, undo data, transactions, and what ConnectBlock makes.
CoinMaps == [Outs -> Nat]
UndoTxs == UNION {[S -> Nat] : S \in SUBSET Outs}
Transactions == [spends : SUBSET Outs, creates : SUBSET Outs]
Connected == [coins : CoinMaps, undo : Seq(UndoTxs), valid : BOOLEAN]

\* What ConnectBlock does at one transaction, what it begins with, and the fold that it is.
ConnectTx(s, tx, b) ==
  [coins |-> UpdateCoins(s.coins, tx, Height[b]),
   undo |-> Append(s.undo, TxUndo(s.coins, tx)),
   valid |-> s.valid /\ HaveInputs(s.coins, tx)]
Unconnected(c, b) == [coins |-> c, undo |-> << >>, valid |-> ~OverwritesCoin(c, b)]
Connects(F, c, b) ==
  F = [s \in SUBSET DOMAIN Txs[b] |->
         IF s = {} THEN Unconnected(c, b)
         ELSE ConnectTx(F[s \ {Max(s)}], Txs[b][Max(s)], b)]

\* ConnectBlock is such a fold.
LEMMA ConnectIs ==
  ASSUME NEW c, NEW b
  PROVE  ConnectBlock(c, b) = (CHOOSE F : Connects(F, c, b))[DOMAIN Txs[b]]
BY DEF ConnectBlock, FoldLeft, MapThenFoldSet, Connects, ConnectTx, Unconnected

\* The transactions of a block, one by one.
LEMMA TxsAre ==
  ASSUME NEW b \in Blocks
  PROVE  /\ Len(Txs[b]) \in Nat /\ DOMAIN Txs[b] = 1 .. Len(Txs[b])
         /\ \A i \in 1 .. Len(Txs[b]) : /\ Txs[b][i].spends \in SUBSET Outs
                                        /\ Txs[b][i].creates \in SUBSET Outs
         /\ Height[b] \in Nat
<1>1. Txs[b] \in Seq(Transactions)
  BY TxsAssumption DEF Transactions
<1>2. \A i \in 1 .. Len(Txs[b]) : Txs[b][i] \in Transactions
  BY <1>1
<1>3. Height[b] \in Nat
  BY TreeAssumption
<1> QED BY <1>1, <1>2, <1>3 DEF Transactions

\* Its parts.
LEMMA ConnectTxIs ==
  ASSUME NEW s, NEW tx, NEW b
  PROVE  /\ ConnectTx(s, tx, b).coins = UpdateCoins(s.coins, tx, Height[b])
         /\ ConnectTx(s, tx, b).undo = Append(s.undo, TxUndo(s.coins, tx))
         /\ ConnectTx(s, tx, b).valid <=> s.valid /\ HaveInputs(s.coins, tx)
BY DEF ConnectTx

\* One transaction of a block makes coins and undo data again.
LEMMA ConnectTxIn ==
  ASSUME NEW b \in Blocks, NEW i \in 1 .. Len(Txs[b]), NEW s \in Connected
  PROVE  ConnectTx(s, Txs[b][i], b) \in Connected
<1> DEFINE tx == Txs[b][i]
<1>1. tx.spends \in SUBSET Outs /\ tx.creates \in SUBSET Outs /\ Height[b] \in Nat
  BY TxsAre
<1>2. s.coins \in CoinMaps /\ s.undo \in Seq(UndoTxs) /\ s.valid \in BOOLEAN
  BY DEF Connected
<1> HIDE DEF tx
<1>3. UpdateCoins(s.coins, tx, Height[b]) \in CoinMaps
  BY <1>1, <1>2 DEF CoinMaps, UpdateCoins, AddCoins, SpendCoins, Spent
<1>4. TxUndo(s.coins, tx) \in UndoTxs
  <2>1. TxUndo(s.coins, tx) \in [tx.spends -> Nat]
    BY <1>1, <1>2 DEF CoinMaps, TxUndo
  <2> QED BY <1>1, <2>1 DEF UndoTxs
<1>5. Append(s.undo, TxUndo(s.coins, tx)) \in Seq(UndoTxs)
  BY <1>2, <1>4
<1>6. (s.valid /\ HaveInputs(s.coins, tx)) \in BOOLEAN
  BY <1>2
<1> QED BY <1>3, <1>5, <1>6 DEF ConnectTx, Connected, tx

\* ConnectBlock goes through the transactions one by one.
Connecting(P, c, b) ==
  /\ P \in [0 .. Len(Txs[b]) -> Connected]
  /\ P[0] = Unconnected(c, b)
  /\ \A i \in 1 .. Len(Txs[b]) : P[i] = ConnectTx(P[i - 1], Txs[b][i], b)
  /\ ConnectBlock(c, b) = P[Len(Txs[b])]

\* There is such a way through the block.
LEMMA ConnectSteps ==
  ASSUME NEW c \in CoinMaps, NEW b \in Blocks
  PROVE  \E P : Connecting(P, c, b)
<1> DEFINE n == Len(Txs[b])
           step(s, i) == ConnectTx(s, Txs[b][i], b)
           g == [i \in 1 .. n |-> [s \in Connected |-> step(s, i)]]
<1>1. n \in Nat /\ DOMAIN Txs[b] = 1 .. n
  BY TxsAre
<1>2. Unconnected(c, b) \in Connected
  BY DEF Connected, Unconnected
<1>3. \A i \in 1 .. n : \A s \in Connected : step(s, i) \in Connected
  BY ConnectTxIn
<1> HIDE DEF step
<1>4. \A i \in 1 .. n : \A s \in Connected : g[i][s] = step(s, i)
  OBVIOUS
<1>5. StepsIn(n, Connected, Unconnected(c, b), g)
  BY <1>1, <1>2, <1>3 DEF StepsIn
<1> HIDE DEF g, n
<1>6. PICK F \in [SUBSET (1 .. n) -> Connected] : RunsBy(F, n, Connected, Unconnected(c, b), g)
  BY <1>5, RunExists
<1>7. Connects(F, c, b)
  <2>1. \A s \in SUBSET (1 .. n) :
          F[s] = IF s = {} THEN Unconnected(c, b) ELSE step(F[s \ {Max(s)}], Max(s))
    BY <1>4, <1>6 DEF RunsBy
  <2> QED BY <1>1, <2>1 DEF Connects, step
<1> DEFINE G == CHOOSE H : Connects(H, c, b)
<1>8. Connects(G, c, b)
  BY <1>7
<1>9. ConnectBlock(c, b) = G[1 .. n]
  BY <1>1, ConnectIs
<1> HIDE DEF G
<1>10. FoldsBy(G, n, Connected, Unconnected(c, b), g)
  <2>1. \A s \in SUBSET (1 .. n) :
          G[s] = IF s = {} THEN Unconnected(c, b) ELSE step(G[s \ {Max(s)}], Max(s))
    BY <1>1, <1>8 DEF Connects, step
  <2> QED BY <1>4, <2>1 DEF FoldsBy
<1>11. PICK P \in [0 .. n -> Connected] :
         P[0] = Unconnected(c, b) /\ P[n] = G[1 .. n] /\ \A k \in 1 .. n : P[k] = g[k][P[k - 1]]
  BY <1>5, <1>10, FoldRuns
<1>12. ASSUME NEW k \in 1 .. n
       PROVE  P[k] = step(P[k - 1], k)
  <2>1. k - 1 \in 0 .. n
    BY <1>1
  <2> QED BY <1>4, <1>11, <2>1
<1> QED BY <1>9, <1>11, <1>12 DEF Connecting, step, n

\* What a chain creates and spends, and what comes before a transaction of a block.
ChainCreates(b) == UNION {Creates(a) : a \in Path[b]}
ChainSpends(b) == UNION {Spends(a) : a \in Path[b]}
MadeBy(b, k) == ChainCreates(Parent[b]) \cup UNION {Txs[b][i].creates : i \in 1 .. k}
SpentBy(b, k) == ChainSpends(Parent[b]) \cup UNION {Txs[b][i].spends : i \in 1 .. k}

\* One transaction more, and the whole block.
LEMMA LedgerStep ==
  ASSUME NEW b \in Blocks \ {Genesis}
  PROVE  /\ MadeBy(b, 0) = ChainCreates(Parent[b]) /\ SpentBy(b, 0) = ChainSpends(Parent[b])
         /\ \A k \in 1 .. Len(Txs[b]) :
              /\ MadeBy(b, k) = MadeBy(b, k - 1) \cup Txs[b][k].creates
              /\ SpentBy(b, k) = SpentBy(b, k - 1) \cup Txs[b][k].spends
              /\ Txs[b][k].creates \cap MadeBy(b, k - 1) = {}
              /\ Txs[b][k].creates \subseteq Creates(b) /\ Txs[b][k].spends \subseteq Spends(b)
         /\ MadeBy(b, Len(Txs[b])) = ChainCreates(b) /\ SpentBy(b, Len(Txs[b])) = ChainSpends(b)
         /\ ChainCreates(b) = ChainCreates(Parent[b]) \cup Creates(b)
         /\ ChainSpends(b) = ChainSpends(Parent[b]) \cup Spends(b)
<1> DEFINE n == Len(Txs[b])
<1>1. n \in Nat /\ DOMAIN Txs[b] = 1 .. n
  BY TxsAre
<1>2. MadeBy(b, 0) = ChainCreates(Parent[b]) /\ SpentBy(b, 0) = ChainSpends(Parent[b])
  <2>1. 1 .. 0 = {}
    OBVIOUS
  <2> QED BY <2>1 DEF MadeBy, SpentBy
<1>3. ASSUME NEW k \in 1 .. n
      PROVE  /\ MadeBy(b, k) = MadeBy(b, k - 1) \cup Txs[b][k].creates
             /\ SpentBy(b, k) = SpentBy(b, k - 1) \cup Txs[b][k].spends
             /\ Txs[b][k].creates \subseteq Creates(b) /\ Txs[b][k].spends \subseteq Spends(b)
  <2>1. 1 .. k = (1 .. (k - 1)) \cup {k}
    OBVIOUS
  <2>2. k \in DOMAIN Txs[b]
    BY <1>1
  <2> QED BY <2>1, <2>2 DEF MadeBy, SpentBy, Creates, Spends
<1>4. ASSUME NEW k \in 1 .. n, NEW o \in Txs[b][k].creates, o \in MadeBy(b, k - 1)
      PROVE  FALSE
  <2>1. ASSUME NEW a \in Path[b], NEW i \in DOMAIN Txs[a], o \in Txs[a][i].creates
        PROVE  a = b /\ i = k
    <3>1. Txs[a][i].creates \cap Txs[b][k].creates # {} /\ b \in Path[b] /\ k \in DOMAIN Txs[b]
      BY <1>1, <1>4, <2>1, ParentFacts
    <3> QED BY <3>1, CreatedOnce
  <2>2. CASE o \in ChainCreates(Parent[b])
    BY <2>1, <2>2, ParentFacts DEF ChainCreates, Creates
  <2>3. CASE \E i \in 1 .. (k - 1) : o \in Txs[b][i].creates
    <3>1. PICK i \in 1 .. (k - 1) : o \in Txs[b][i].creates
      BY <2>3
    <3>2. i \in DOMAIN Txs[b] /\ i # k
      BY <1>1
    <3> QED BY <2>1, <3>1, <3>2, ParentFacts
  <2> QED BY <1>4, <2>2, <2>3 DEF MadeBy
<1>5. ChainCreates(b) = ChainCreates(Parent[b]) \cup Creates(b)
      /\ ChainSpends(b) = ChainSpends(Parent[b]) \cup Spends(b)
  BY ParentFacts DEF ChainCreates, ChainSpends
<1>6. MadeBy(b, n) = ChainCreates(b) /\ SpentBy(b, n) = ChainSpends(b)
  BY <1>1, <1>5 DEF MadeBy, SpentBy, Creates, Spends
<1> QED BY <1>2, <1>3, <1>4, <1>5, <1>6

\* The coins of a block, one output at a time.
Creators(b, o) == {a \in Path[b] : o \in Creates(a)}

\* A coin, by the blocks of the chain that create and spend it.
LEMMA CoinIs ==
  ASSUME NEW b \in Blocks, NEW o \in Outs
  PROVE  CoinsAfter[b][o] = IF Creators(b, o) = {} \/ o \in ChainSpends(b) THEN Spent
                            ELSE Height[CHOOSE a \in Creators(b, o) : TRUE]
<1> DEFINE C == {a \in HeadPath(b) : o \in Creates(a)}
<1>1. HeadPath(b) = Path[b]
  BY TreeAssumption DEF HeadPath
<1>2. (\E a \in HeadPath(b) : o \in Spends(a)) <=> o \in ChainSpends(b)
  BY <1>1 DEF ChainSpends
<1>3. CoinsAfter[b][o] = IF C = {} \/ \E a \in HeadPath(b) : o \in Spends(a) THEN Spent
                         ELSE Height[CHOOSE a \in C : TRUE]
  BY DEF CoinsAfter
<1>4. C = Creators(b, o)
  BY <1>1 DEF Creators
<1> HIDE DEF C
<1> QED BY <1>2, <1>3, <1>4

\* A coin is there if it was created and not spent.
LEMMA CoinOf ==
  ASSUME NEW b \in Blocks, NEW o \in Outs
  PROVE  /\ CoinsAfter[b][o] \in Nat
         /\ CoinsAfter[b][o] # Spent <=> o \in ChainCreates(b) \ ChainSpends(b)
<1>1. Creators(b, o) # {} <=> o \in ChainCreates(b)
  BY DEF ChainCreates, Creators
<1>2. \A a \in Creators(b, o) : Height[a] \in Nat /\ Height[a] # 0
  <2> TAKE a \in Creators(b, o)
  <2>1. a \in Blocks /\ a # Genesis
    BY ChainFacts, TxsAssumption DEF Creates, Creators
  <2> QED BY <2>1, ParentFacts
<1> QED BY <1>1, <1>2, CoinIs DEF Spent

\* CoinsAfter is a function of the outputs.
LEMMA CoinsAre ==
  ASSUME NEW b \in Blocks \cup {NoBlock}
  PROVE  CoinsAfter[b] = [o \in Outs |-> CoinsAfter[b][o]]
<1> DEFINE coin(o) == LET creators == {a \in HeadPath(b) : o \in Creates(a)}
                      IN  IF creators = {} \/ \E a \in HeadPath(b) : o \in Spends(a) THEN Spent
                          ELSE Height[CHOOSE a \in creators : TRUE]
<1>1. CoinsAfter[b] = [o \in Outs |-> coin(o)]
  BY DEF CoinsAfter
<1> HIDE DEF coin
<1> QED BY <1>1

\* They are coins.
LEMMA CoinsIn ==
  ASSUME NEW b \in Blocks
  PROVE  CoinsAfter[b] \in CoinMaps
BY CoinsAre, CoinOf DEF CoinMaps

\* The coins after a block, from those after its parent.
LEMMA CoinStep ==
  ASSUME NEW b \in Blocks \ {Genesis}, NEW o \in Outs
  PROVE  /\ o \notin Creates(b) \cup Spends(b) => CoinsAfter[b][o] = CoinsAfter[Parent[b]][o]
         /\ o \in Creates(b) \ ChainSpends(b) => CoinsAfter[b][o] = Height[b]
<1> DEFINE p == Parent[b]
<1>2. CASE o \notin Creates(b) \cup Spends(b)
  <2>1. Creators(b, o) = Creators(p, o)
    BY <1>2, ParentFacts DEF Creators
  <2>2. o \in ChainSpends(b) <=> o \in ChainSpends(p)
    BY <1>2, LedgerStep
  <2> QED BY <1>2, <2>1, <2>2, ParentFacts, CoinIs
<1>3. CASE o \in Creates(b) \ ChainSpends(b)
  <2>1. ASSUME NEW a \in Path[b], o \in Creates(a)
        PROVE  a = b
    <3>1. PICK i \in DOMAIN Txs[a] : o \in Txs[a][i].creates
      BY <2>1 DEF Creates
    <3>2. PICK j \in DOMAIN Txs[b] : o \in Txs[b][j].creates
      BY <1>3 DEF Creates
    <3>3. Txs[a][i].creates \cap Txs[b][j].creates # {} /\ b \in Path[b]
      BY <3>1, <3>2, ParentFacts
    <3> QED BY <3>3, CreatedOnce
  <2>2. Creators(b, o) = {b}
    BY <1>3, <2>1, ParentFacts DEF Creators
  <2>3. (CHOOSE a \in Creators(b, o) : TRUE) = b
    BY <2>2
  <2> QED BY <1>3, <2>2, <2>3, CoinIs
<1> QED BY <1>2, <1>3

\* ConnectBlock accepts a block only if every transaction finds its inputs.
LEMMA ValidSteps ==
  ASSUME NEW b \in Blocks, NEW c \in CoinMaps, NEW P, Connecting(P, c, b), P[Len(Txs[b])].valid
  PROVE  /\ \A k \in 0 .. Len(Txs[b]) : P[k].valid
         /\ \A k \in 1 .. Len(Txs[b]) : HaveInputs(P[k - 1].coins, Txs[b][k])
<1> DEFINE n == Len(Txs[b])
           Good == {j \in Nat : j \in 0 .. n => P[n - j].valid}
<1>1. n \in Nat
  BY TxsAre
<1>2. ASSUME NEW k \in 1 .. n
      PROVE  P[k].valid <=> P[k - 1].valid /\ HaveInputs(P[k - 1].coins, Txs[b][k])
  <2>1. P[k] = ConnectTx(P[k - 1], Txs[b][k], b)
    BY DEF Connecting
  <2> QED BY <2>1, ConnectTxIs
<1>3. 0 \in Good
  BY <1>1
<1>4. ASSUME NEW j \in Nat, j \in Good
      PROVE  j + 1 \in Good
  <2> SUFFICES ASSUME j + 1 \in 0 .. n
               PROVE  P[n - (j + 1)].valid
    OBVIOUS
  <2>1. j \in 0 .. n /\ n - j \in 1 .. n /\ (n - j) - 1 = n - (j + 1)
    BY <1>1
  <2> QED BY <1>2, <1>4, <2>1
<1>5. Nat \subseteq Good
  <2> HIDE DEF Good
  <2> QED BY <1>3, <1>4, UpByOne
<1>6. ASSUME NEW k \in 0 .. n
      PROVE  P[k].valid
  <2>1. n - k \in Nat /\ n - k \in 0 .. n /\ n - (n - k) = k
    BY <1>1
  <2>2. n - k \in Good
    BY <1>5, <2>1
  <2> QED BY <2>1, <2>2
<1>7. ASSUME NEW k \in 1 .. n
      PROVE  HaveInputs(P[k - 1].coins, Txs[b][k])
  <2>1. k \in 0 .. n
    BY <1>1
  <2> QED BY <1>2, <1>6, <2>1
<1> QED BY <1>6, <1>7

\* The coins after k transactions of a valid block, by the definition of a coin.
CoinsAt(b, k) ==
  [o \in Outs |->
     IF o \in SpentBy(b, k) THEN Spent
     ELSE IF o \in MadeBy(b, k) \ ChainCreates(Parent[b]) THEN Height[b]
     ELSE CoinsAfter[Parent[b]][o]]

\* A chain that spends only what it creates.
Balanced(b) == ChainSpends(b) \subseteq ChainCreates(b)

\* Before the first transaction they are the coins of the parent, after the last those of
\* the block.
LEMMA CoinsAtEnds ==
  ASSUME NEW b \in Blocks \ {Genesis}, Balanced(Parent[b])
  PROVE  /\ CoinsAt(b, 0) = CoinsAfter[Parent[b]]
         /\ SpentBy(b, Len(Txs[b])) \subseteq MadeBy(b, Len(Txs[b]))
              => CoinsAt(b, Len(Txs[b])) = CoinsAfter[b] /\ Balanced(b)
<1> DEFINE p == Parent[b]
           n == Len(Txs[b])
<1>1. p \in Blocks
  BY ParentFacts
<1>2. \A x \in {p, b} : CoinsAfter[x] = [o \in Outs |-> CoinsAfter[x][o]]
  BY <1>1, CoinsAre
<1>3. ASSUME NEW o \in Outs
      PROVE  CoinsAt(b, 0)[o] = CoinsAfter[p][o]
  <2>1. o \in ChainSpends(p) => CoinsAfter[p][o] = Spent
    BY <1>1, CoinOf
  <2> QED BY <2>1, LedgerStep DEF CoinsAt
<1>4. ASSUME SpentBy(b, n) \subseteq MadeBy(b, n)
      PROVE  CoinsAt(b, n) = CoinsAfter[b] /\ Balanced(b)
  <2>1. /\ MadeBy(b, n) = ChainCreates(p) \cup Creates(b)
        /\ SpentBy(b, n) = ChainSpends(p) \cup Spends(b)
        /\ MadeBy(b, n) = ChainCreates(b) /\ SpentBy(b, n) = ChainSpends(b)
    BY LedgerStep
  <2>2. ASSUME NEW o \in Outs
        PROVE  CoinsAt(b, n)[o] = CoinsAfter[b][o]
    <3>1. o \in ChainSpends(b) => CoinsAfter[b][o] = Spent
      BY CoinOf
    <3>2. ASSUME o \in Creates(b) \ ChainSpends(b)
          PROVE  CoinsAfter[b][o] = Height[b]
      BY <3>2, CoinStep
    <3>3. ASSUME o \notin Creates(b) \cup Spends(b)
          PROVE  CoinsAfter[b][o] = CoinsAfter[p][o]
      BY <3>3, CoinStep
    <3>4. ASSUME o \in Creates(b) \ ChainSpends(b)
          PROVE  o \notin ChainCreates(p) 
      <4>1. PICK j \in DOMAIN Txs[b] : o \in Txs[b][j].creates
        BY <3>4 DEF Creates
      <4>2. b \in Path[b] /\ b \notin Path[p] /\ Path[p] \subseteq Path[b]
        BY ParentFacts
      <4>3. ASSUME NEW a \in Path[p], NEW i \in DOMAIN Txs[a], o \in Txs[a][i].creates
            PROVE  FALSE
        <5>1. Txs[a][i].creates \cap Txs[b][j].creates # {}
          BY <4>1, <4>3
        <5> QED BY <4>2, <5>1, CreatedOnce
      <4> QED BY <4>3 DEF ChainCreates, Creates
    <3> QED BY <2>1, <3>1, <3>2, <3>3, <3>4 DEF CoinsAt
  <2>3. CoinsAt(b, n) = CoinsAfter[b]
    BY <1>2, <2>2 DEF CoinsAt
  <2> QED BY <1>4, <2>1, <2>3 DEF Balanced
<1>5. CoinsAt(b, 0) = CoinsAfter[p]
  BY <1>2, <1>3 DEF CoinsAt
<1> QED BY <1>4, <1>5

\* ConnectBlock on the coins of the parent: at every transaction the coins are right, and
\* what is spent there was created before and not spent yet.
RunRight(P, b) ==
  /\ \A k \in 0 .. Len(Txs[b]) :
       P[k].coins = CoinsAt(b, k) /\ SpentBy(b, k) \subseteq MadeBy(b, k)
  /\ \A k \in 1 .. Len(Txs[b]) :
       Txs[b][k].spends \subseteq MadeBy(b, k - 1) \ SpentBy(b, k - 1)

\* It is so, if the chain of the parent spends only what it creates.
LEMMA ConnectRun ==
  ASSUME NEW b \in Blocks \ {Genesis}, Balanced(Parent[b]), NEW P,
         Connecting(P, CoinsAfter[Parent[b]], b), P[Len(Txs[b])].valid
  PROVE  RunRight(P, b)
<1> DEFINE n == Len(Txs[b])
           p == Parent[b]
           Right(k) == P[k].coins = CoinsAt(b, k) /\ SpentBy(b, k) \subseteq MadeBy(b, k)
<1>1. n \in Nat /\ p \in Blocks /\ Height[b] \in Nat
  BY TxsAre, ParentFacts
<1>2. CoinsAfter[p] \in CoinMaps
  BY <1>1, CoinsIn
<1>3. \A k \in 1 .. n : HaveInputs(P[k - 1].coins, Txs[b][k])
  BY <1>2, ValidSteps
<1>4. Right(0)
  BY LedgerStep, CoinsAtEnds DEF Connecting, Unconnected, Balanced
<1>5. ASSUME NEW k \in 1 .. n, Right(k - 1)
      PROVE  Right(k) /\ Txs[b][k].spends \subseteq MadeBy(b, k - 1) \ SpentBy(b, k - 1)
  <2> DEFINE tx == Txs[b][k]
             M == MadeBy(b, k - 1)
             S == SpentBy(b, k - 1)
  <2>1. /\ MadeBy(b, k) = M \cup tx.creates /\ SpentBy(b, k) = S \cup tx.spends
        /\ tx.creates \cap M = {} /\ tx.spends \subseteq Outs /\ tx.creates \subseteq Outs
        /\ S \subseteq M /\ ChainCreates(p) \subseteq M
    BY <1>5, LedgerStep, TxsAre DEF MadeBy
  <2>2. ASSUME NEW o \in tx.spends
        PROVE  o \in M \ S
    <3>1. CoinsAt(b, k - 1)[o] # Spent
      BY <1>3, <1>5, <2>2 DEF HaveInputs
    <3>2. o \in Outs
      BY <2>1
    <3>3. CoinsAfter[p][o] # Spent => o \in ChainCreates(p)
      BY <1>1, <3>2, CoinOf
    <3> HIDE DEF tx
    <3> QED BY <2>1, <3>1, <3>2, <3>3 DEF CoinsAt
  <2>3. SpentBy(b, k) \subseteq MadeBy(b, k)
    BY <2>1, <2>2
  <2>4. P[k].coins = UpdateCoins(CoinsAt(b, k - 1), tx, Height[b])
    BY <1>5, ConnectTxIs DEF Connecting
  <2>5. ASSUME NEW o \in Outs
        PROVE  UpdateCoins(CoinsAt(b, k - 1), tx, Height[b])[o] = CoinsAt(b, k)[o]
    <3>1. UpdateCoins(CoinsAt(b, k - 1), tx, Height[b])[o]
            = IF o \in tx.creates THEN Height[b]
              ELSE IF o \in tx.spends THEN Spent ELSE CoinsAt(b, k - 1)[o]
      BY DEF UpdateCoins, AddCoins, SpendCoins
    <3> HIDE DEF tx
    <3>2. CASE o \in tx.creates
      BY <2>1, <2>2, <3>1, <3>2 DEF CoinsAt
    <3>3. CASE o \notin tx.creates
      BY <2>1, <2>2, <3>1, <3>3 DEF CoinsAt
    <3> QED BY <3>2, <3>3
  <2>6. UpdateCoins(CoinsAt(b, k - 1), tx, Height[b]) = CoinsAt(b, k)
    BY <2>5 DEF UpdateCoins, AddCoins, CoinsAt
  <2> QED BY <2>2, <2>3, <2>4, <2>6
<1>6. \A k \in 0 .. n : Right(k)
  <2> DEFINE Good == {k \in Nat : k \in 0 .. n => Right(k)}
  <2>1. 0 \in Good
    BY <1>4
  <2>2. ASSUME NEW k \in Nat, k \in Good
        PROVE  k + 1 \in Good
    <3> SUFFICES ASSUME k + 1 \in 0 .. n
                 PROVE  Right(k + 1)
      OBVIOUS
    <3>1. k \in 0 .. n /\ k + 1 \in 1 .. n /\ (k + 1) - 1 = k
      BY <1>1
    <3> HIDE DEF Right
    <3>2. Right((k + 1) - 1)
      BY <2>2, <3>1
    <3> QED BY <1>5, <3>1, <3>2
  <2> HIDE DEF Good
  <2>3. Nat \subseteq Good
    BY <2>1, <2>2, UpByOne
  <2> QED BY <1>1, <2>3 DEF Good
<1>7. \A k \in 1 .. n : k - 1 \in 0 .. n
  BY <1>1
<1> HIDE DEF Right
<1>8. \A k \in 1 .. n : Txs[b][k].spends \subseteq MadeBy(b, k - 1) \ SpentBy(b, k - 1)
  BY <1>5, <1>6, <1>7
<1> QED BY <1>6, <1>8 DEF RunRight, Right

-----------------------------------------------------------------------------
(* DisconnectBlock and RollforwardBlock: their steps.                      *)

\* What DisconnectBlock makes, and undo data that can be undone.
Disconnected == [coins : CoinMaps, clean : BOOLEAN]
GoodUndo(b, undo) == \A i \in 1 .. Len(Txs[b]) : \A o \in Txs[b][i].spends : undo[i][o] \in Nat

\* What DisconnectBlock does at one transaction, what it begins with, and the fold that it is.
DisconnectTx(s, i, b, undo) ==
  LET tx == Txs[b][i]
      before == SpendCoins(s.coins, tx.creates)
  IN  [coins |-> [o \in Outs |-> IF o \in tx.spends THEN undo[i][o] ELSE before[o]],
       clean |-> /\ s.clean
                 /\ \A o \in tx.creates : s.coins[o] = Height[b]
                 /\ \A o \in tx.spends : before[o] = Spent]
Untouched(c) == [coins |-> c, clean |-> TRUE]
Disconnects(F, c, b, undo) ==
  F = [s \in SUBSET DOMAIN UndoOrder(Len(Txs[b])) |->
         IF s = {} THEN Untouched(c)
         ELSE DisconnectTx(F[s \ {Max(s)}], UndoOrder(Len(Txs[b]))[Max(s)], b, undo)]

\* DisconnectBlock is such a fold.
LEMMA DisconnectIs ==
  ASSUME NEW c, NEW b, NEW undo
  PROVE  DisconnectBlock(c, b, undo)
           = (CHOOSE F : Disconnects(F, c, b, undo))[DOMAIN UndoOrder(Len(Txs[b]))]
BY DEF DisconnectBlock, FoldLeft, MapThenFoldSet, Disconnects, DisconnectTx, Untouched

\* Its parts.
LEMMA DisconnectTxIs ==
  ASSUME NEW s, NEW i, NEW b, NEW undo
  PROVE  /\ DisconnectTx(s, i, b, undo).coins
              = [o \in Outs |-> IF o \in Txs[b][i].spends THEN undo[i][o]
                                ELSE SpendCoins(s.coins, Txs[b][i].creates)[o]]
         /\ DisconnectTx(s, i, b, undo).clean
              <=> /\ s.clean
                  /\ \A o \in Txs[b][i].creates : s.coins[o] = Height[b]
                  /\ \A o \in Txs[b][i].spends :
                       SpendCoins(s.coins, Txs[b][i].creates)[o] = Spent
BY DEF DisconnectTx

\* Undoing one transaction makes coins again, if the undo data are coins.
LEMMA DisconnectTxIn ==
  ASSUME NEW b \in Blocks, NEW i \in 1 .. Len(Txs[b]), NEW undo, GoodUndo(b, undo),
         NEW s \in Disconnected
  PROVE  DisconnectTx(s, i, b, undo) \in Disconnected
<1> DEFINE tx == Txs[b][i]
           before == SpendCoins(s.coins, tx.creates)
           after == [o \in Outs |-> IF o \in tx.spends THEN undo[i][o] ELSE before[o]]
           clean == /\ s.clean
                    /\ \A o \in tx.creates : s.coins[o] = Height[b]
                    /\ \A o \in tx.spends : before[o] = Spent
<1>1. s.coins \in CoinMaps
  BY DEF Disconnected
<1>2. after \in CoinMaps
  BY <1>1 DEF CoinMaps, SpendCoins, Spent, GoodUndo
<1>3. clean \in BOOLEAN
  BY DEF Disconnected
<1>4. DisconnectTx(s, i, b, undo) = [coins |-> after, clean |-> clean]
  BY DEF DisconnectTx
<1> HIDE DEF after, clean
<1> QED BY <1>2, <1>3, <1>4 DEF Disconnected

\* DisconnectBlock goes through the transactions from the last to the first.
Disconnecting(P, c, b, undo) ==
  /\ P \in [0 .. Len(Txs[b]) -> Disconnected]
  /\ P[0] = Untouched(c)
  /\ \A k \in 1 .. Len(Txs[b]) : P[k] = DisconnectTx(P[k - 1], Len(Txs[b]) + 1 - k, b, undo)
  /\ DisconnectBlock(c, b, undo) = P[Len(Txs[b])]

\* There is such a way back through the block.
LEMMA DisconnectSteps ==
  ASSUME NEW c \in CoinMaps, NEW b \in Blocks, NEW undo, GoodUndo(b, undo)
  PROVE  \E P : Disconnecting(P, c, b, undo)
<1> DEFINE n == Len(Txs[b])
           step(s, i) == DisconnectTx(s, UndoOrder(n)[i], b, undo)
           g == [i \in 1 .. n |-> [s \in Disconnected |-> step(s, i)]]
<1>1. n \in Nat /\ DOMAIN UndoOrder(n) = 1 .. n
      /\ \A i \in 1 .. n : UndoOrder(n)[i] = n + 1 - i /\ n + 1 - i \in 1 .. n
  BY TxsAre DEF UndoOrder
<1>2. Untouched(c) \in Disconnected
  BY DEF Disconnected, Untouched
<1>3. \A i \in 1 .. n : \A s \in Disconnected : step(s, i) \in Disconnected
  BY <1>1, DisconnectTxIn
<1> HIDE DEF step
<1>4. \A i \in 1 .. n : \A s \in Disconnected : g[i][s] = step(s, i)
  OBVIOUS
<1>5. StepsIn(n, Disconnected, Untouched(c), g)
  BY <1>1, <1>2, <1>3 DEF StepsIn
<1> HIDE DEF g, n
<1>6. PICK F \in [SUBSET (1 .. n) -> Disconnected] : RunsBy(F, n, Disconnected, Untouched(c), g)
  BY <1>5, RunExists
<1>7. Disconnects(F, c, b, undo)
  <2>1. \A s \in SUBSET (1 .. n) :
          F[s] = IF s = {} THEN Untouched(c) ELSE step(F[s \ {Max(s)}], Max(s))
    BY <1>4, <1>6 DEF RunsBy
  <2> QED BY <1>1, <2>1 DEF Disconnects, step, n
<1> DEFINE G == CHOOSE H : Disconnects(H, c, b, undo)
<1>8. Disconnects(G, c, b, undo)
  BY <1>7
<1>9. DisconnectBlock(c, b, undo) = G[1 .. n]
  BY <1>1, DisconnectIs DEF n
<1> HIDE DEF G
<1>10. FoldsBy(G, n, Disconnected, Untouched(c), g)
  <2>1. \A s \in SUBSET (1 .. n) :
          G[s] = IF s = {} THEN Untouched(c) ELSE step(G[s \ {Max(s)}], Max(s))
    BY <1>1, <1>8 DEF Disconnects, step, n
  <2> QED BY <1>4, <2>1 DEF FoldsBy
<1>11. PICK P \in [0 .. n -> Disconnected] :
         P[0] = Untouched(c) /\ P[n] = G[1 .. n] /\ \A k \in 1 .. n : P[k] = g[k][P[k - 1]]
  BY <1>5, <1>10, FoldRuns
<1>12. ASSUME NEW k \in 1 .. n
       PROVE  P[k] = step(P[k - 1], k)
  <2>1. k - 1 \in 0 .. n
    BY <1>1
  <2> QED BY <1>4, <1>11, <2>1
<1> QED BY <1>1, <1>9, <1>11, <1>12 DEF Disconnecting, step, n

-----------------------------------------------------------------------------
(* Blocks that ConnectBlock accepts on the coins of their parent.          *)

\* The undo data of a block, and the blocks whose chain ConnectBlock accepts, each on its parent.
UndoOf(b) == ConnectBlock(CoinsAfter[Parent[b]], b).undo
ValidChains ==
  {b \in Blocks : \A a \in Path[b] \ {Genesis} : ConnectBlock(CoinsAfter[Parent[a]], a).valid}

\* What such a block spends was created before and is not spent yet.
Lawful(b) ==
  /\ \A k \in 0 .. Len(Txs[b]) : SpentBy(b, k) \subseteq MadeBy(b, k)
  /\ \A k \in 1 .. Len(Txs[b]) : Txs[b][k].spends \subseteq MadeBy(b, k - 1) \ SpentBy(b, k - 1)

\* The undo data of a transaction are the coins before it.
LEMMA UndoSteps ==
  ASSUME NEW b \in Blocks, NEW c \in CoinMaps, NEW P, Connecting(P, c, b)
  PROVE  \A i \in 1 .. Len(Txs[b]) : P[Len(Txs[b])].undo[i] = TxUndo(P[i - 1].coins, Txs[b][i])
<1> DEFINE n == Len(Txs[b])
           U(i) == TxUndo(P[i - 1].coins, Txs[b][i])
           Right(k) == Len(P[k].undo) = k /\ \A i \in 1 .. k : P[k].undo[i] = U(i)
           Good == {k \in Nat : k \in 0 .. n => Right(k)}
<1>1. n \in Nat
  BY TxsAre
<1>2. \A k \in 0 .. n : P[k].undo \in Seq(UndoTxs)
  BY DEF Connecting, Connected
<1>3. \A k \in 1 .. n : P[k].undo = Append(P[k - 1].undo, U(k))
  BY ConnectTxIs DEF Connecting
<1>4. 0 \in Good
  <2>1. P[0].undo = << >>
    BY DEF Connecting, Unconnected
  <2> QED BY <2>1
<1>5. ASSUME NEW k \in Nat, k \in Good
      PROVE  k + 1 \in Good
  <2> SUFFICES ASSUME k + 1 \in 0 .. n
               PROVE  Right(k + 1)
    OBVIOUS
  <2>1. k \in 0 .. n /\ k + 1 \in 1 .. n /\ (k + 1) - 1 = k
    BY <1>1
  <2>2. P[k + 1].undo = Append(P[k].undo, U(k + 1))
    <3> HIDE DEF U
    <3> QED BY <1>3, <2>1
  <2>3. P[k].undo \in Seq(UndoTxs) /\ Right(k)
    BY <1>2, <1>5, <2>1
  <2> HIDE DEF U
  <2>4. Len(P[k + 1].undo) = k + 1
    BY <2>2, <2>3
  <2>5. ASSUME NEW i \in 1 .. (k + 1)
        PROVE  P[k + 1].undo[i] = U(i)
    <3>1. CASE i = k + 1
      BY <2>2, <2>3, <3>1
    <3>2. CASE i \in 1 .. k
      BY <2>2, <2>3, <3>2
    <3> QED BY <3>1, <3>2
  <2> QED BY <2>4, <2>5
<1> HIDE DEF Good
<1>6. Nat \subseteq Good
  BY <1>4, <1>5, UpByOne
<1>7. n \in 0 .. n /\ n \in Good
  BY <1>1, <1>6
<1> QED BY <1>7 DEF Good

\* Connecting a valid block to the right coins.
BlockRight(b) ==
  /\ Balanced(Parent[b]) /\ Balanced(b) /\ Lawful(b)
  /\ ConnectBlock(CoinsAfter[Parent[b]], b).coins = CoinsAfter[b]
  /\ \A i \in 1 .. Len(Txs[b]) : \A o \in Txs[b][i].spends : UndoOf(b)[i][o] = CoinsAt(b, i - 1)[o]

\* A block that is accepted on the coins of its parent is right.
LEMMA ConnectRight ==
  ASSUME NEW b \in Blocks \ {Genesis}, Balanced(Parent[b]),
         ConnectBlock(CoinsAfter[Parent[b]], b).valid
  PROVE  BlockRight(b)
<1> DEFINE n == Len(Txs[b])
           c == CoinsAfter[Parent[b]]
<1>1. n \in Nat /\ c \in CoinMaps
  BY TxsAre, ParentFacts, CoinsIn
<1>2. PICK P : Connecting(P, c, b)
  BY <1>1, ConnectSteps
<1>3. ConnectBlock(c, b) = P[n]
  BY <1>2 DEF Connecting
<1>4. RunRight(P, b)
  BY <1>2, <1>3, ConnectRun
<1>5. Lawful(b)
  BY <1>4 DEF RunRight, Lawful
<1>6. n \in 0 .. n
  BY <1>1
<1>7. CoinsAt(b, n) = CoinsAfter[b] /\ Balanced(b) /\ P[n].coins = CoinsAt(b, n)
  BY <1>4, <1>6, CoinsAtEnds DEF RunRight
<1>8. ASSUME NEW i \in 1 .. n, NEW o \in Txs[b][i].spends
      PROVE  UndoOf(b)[i][o] = CoinsAt(b, i - 1)[o]
  <2>1. UndoOf(b)[i] = TxUndo(P[i - 1].coins, Txs[b][i])
    BY <1>1, <1>2, <1>3, UndoSteps DEF UndoOf
  <2>2. i - 1 \in 0 .. n
    BY <1>1
  <2>3. P[i - 1].coins = CoinsAt(b, i - 1)
    BY <1>4, <2>2 DEF RunRight
  <2> QED BY <2>1, <2>3 DEF TxUndo
<1> QED BY <1>3, <1>5, <1>7, <1>8 DEF BlockRight

\* The genesis block and the children of valid chains.
LEMMA GenesisFacts ==
  /\ Creates(Genesis) = {} /\ Spends(Genesis) = {} /\ Balanced(Genesis) /\ Genesis \in ValidChains
  /\ CoinsAfter[Genesis] = NoCoins /\ CoinsAfter[NoBlock] = NoCoins
<1>1. Creates(Genesis) = {} /\ Spends(Genesis) = {}
  BY TxsAssumption DEF Creates, Spends
<1>2. Balanced(Genesis)
  BY <1>1, TreeAssumption DEF Balanced, ChainSpends, ChainCreates
<1>3. Genesis \in ValidChains
  BY TreeAssumption DEF ValidChains
<1>4. HeadPath(NoBlock) = {Genesis} /\ HeadPath(Genesis) = {Genesis}
  BY TreeAssumption DEF HeadPath
<1>5. ASSUME NEW b \in {Genesis, NoBlock}
      PROVE  CoinsAfter[b] = NoCoins
  <2>1. {a \in HeadPath(b) : FALSE} = {}
    OBVIOUS
  <2>2. \A o \in Outs : {a \in HeadPath(b) : o \in Creates(a)} = {}
    BY <1>1, <1>4
  <2>3. b \in Blocks \cup {NoBlock}
    BY TreeAssumption
  <2>4. \A o \in Outs : CoinsAfter[b][o] = Spent
    BY <2>2, <2>3 DEF CoinsAfter
  <2> QED BY <2>3, <2>4, CoinsAre DEF NoCoins
<1> QED BY <1>1, <1>2, <1>3, <1>5

\* Each block of a chain of valid blocks is valid, and connects to the right coins.
LEMMA ValidFacts ==
  ASSUME NEW b \in ValidChains
  PROVE  /\ Balanced(b)
         /\ b # Genesis => Parent[b] \in ValidChains /\ BlockRight(b)
                           /\ ConnectBlock(CoinsAfter[Parent[b]], b).valid
         /\ \A a \in Path[b] : a \in ValidChains
<1>1. \A x \in ValidChains : x \in Blocks
  BY DEF ValidChains
<1>2. ASSUME NEW x \in ValidChains, NEW a \in Path[x]
      PROVE  a \in ValidChains
  <2>1. a \in Blocks /\ Path[a] \subseteq Path[x]
    BY <1>1, ChainFacts
  <2> QED BY <2>1 DEF ValidChains
<1>3. \A x \in ValidChains \ {Genesis} : Parent[x] \in ValidChains
                                         /\ ConnectBlock(CoinsAfter[Parent[x]], x).valid
  <2> TAKE x \in ValidChains \ {Genesis}
  <2>1. x \in Blocks \ {Genesis}
    BY <1>1
  <2>2. Parent[x] \in Path[x] /\ x \in Path[x]
    BY <2>1, ParentFacts, ChainFacts
  <2> QED BY <1>2, <2>2 DEF ValidChains
<1> DEFINE Good == {x \in Blocks : x \in ValidChains => Balanced(x)}
<1>4. Genesis \in Good
  BY TreeAssumption, GenesisFacts
<1>5. ASSUME NEW x \in Blocks \ {Genesis}, Parent[x] \in Good
      PROVE  x \in Good
  <2> SUFFICES ASSUME x \in ValidChains
               PROVE  Balanced(x)
    OBVIOUS
  <2>1. Balanced(Parent[x])
    BY <1>3, <1>5
  <2>2. BlockRight(x)
    BY <1>3, <2>1, ConnectRight
  <2> QED BY <2>2 DEF BlockRight
<1> HIDE DEF Good
<1>6. Blocks \subseteq Good
  BY <1>4, <1>5, TreeInduction
<1>7. \A x \in ValidChains : Balanced(x)
  BY <1>1, <1>6 DEF Good
<1>8. b # Genesis => BlockRight(b)
  BY <1>1, <1>3, <1>7, ConnectRight
<1> QED BY <1>2, <1>3, <1>7, <1>8

\* A block that ConnectBlock accepts on the coins of a valid chain makes a valid chain.
LEMMA ValidGrows ==
  ASSUME NEW b \in Blocks \ {Genesis}, Parent[b] \in ValidChains,
         ConnectBlock(CoinsAfter[Parent[b]], b).valid
  PROVE  b \in ValidChains
BY ParentFacts DEF ValidChains

\* What one transaction of a valid block does to the coins.
LEMMA TxStep ==
  ASSUME NEW b \in Blocks \ {Genesis}, BlockRight(b), NEW i \in 1 .. Len(Txs[b]), NEW o \in Outs
  PROVE  /\ CoinsAt(b, i)[o] \in Nat /\ CoinsAt(b, i - 1)[o] \in Nat
         /\ o \notin Txs[b][i].creates \cup Txs[b][i].spends
              => CoinsAt(b, i)[o] = CoinsAt(b, i - 1)[o]
         /\ o \in Txs[b][i].creates => /\ CoinsAt(b, i)[o] = Height[b]
                                       /\ CoinsAt(b, i - 1)[o] = Spent
                                       /\ o \notin Txs[b][i].spends
         /\ o \in Txs[b][i].spends => CoinsAt(b, i)[o] = Spent
<1> DEFINE tx == Txs[b][i]
           M == MadeBy(b, i - 1)
           S == SpentBy(b, i - 1)
           p == Parent[b]
<1>1. p \in Blocks /\ Height[b] \in Nat /\ i - 1 \in 0 .. Len(Txs[b])
  BY TxsAre, ParentFacts
<1>2. /\ MadeBy(b, i) = M \cup tx.creates /\ SpentBy(b, i) = S \cup tx.spends
      /\ tx.creates \cap M = {} /\ ChainCreates(p) \subseteq M
  BY LedgerStep DEF MadeBy
<1>3. S \subseteq M /\ tx.spends \subseteq M
  BY <1>1 DEF BlockRight, Lawful
<1>4. CoinsAfter[p][o] \in Nat /\ (CoinsAfter[p][o] # Spent => o \in ChainCreates(p))
  BY <1>1, CoinOf
<1> HIDE DEF tx, M, S
<1>5. CoinsAt(b, i)[o] = IF o \in S \cup tx.spends THEN Spent
                         ELSE IF o \in (M \cup tx.creates) \ ChainCreates(p) THEN Height[b]
                         ELSE CoinsAfter[p][o]
  BY <1>2 DEF CoinsAt
<1>6. CoinsAt(b, i - 1)[o] = IF o \in S THEN Spent
                             ELSE IF o \in M \ ChainCreates(p) THEN Height[b]
                             ELSE CoinsAfter[p][o]
  BY DEF CoinsAt, M, S
<1> QED BY <1>1, <1>2, <1>3, <1>4, <1>5, <1>6 DEF Spent, tx

\* The undo data of a valid block are coins.
LEMMA UndoGood ==
  ASSUME NEW b \in Blocks \ {Genesis}, BlockRight(b)
  PROVE  GoodUndo(b, UndoOf(b))
<1> SUFFICES ASSUME NEW i \in 1 .. Len(Txs[b]), NEW o \in Txs[b][i].spends
             PROVE  UndoOf(b)[i][o] \in Nat
  BY DEF GoodUndo
<1>1. o \in Outs
  BY TxsAre
<1> QED BY <1>1, TxStep DEF BlockRight

\* The outputs that the transactions from i to j create or spend.
Touched(b, i, j) == UNION {Txs[b][x].creates \cup Txs[b][x].spends : x \in i .. j}

\* What the block touches, and one transaction more, from the front or from the back.
LEMMA TouchedFacts ==
  ASSUME NEW b \in Blocks, NEW o
  PROVE  /\ o \in Touched(b, 1, Len(Txs[b])) <=> o \in Creates(b) \cup Spends(b)
         /\ \A k \in 1 .. Len(Txs[b]) :
              /\ o \in Touched(b, 1, k)
                   <=> o \in Touched(b, 1, k - 1) \/ o \in Txs[b][k].creates \cup Txs[b][k].spends
              /\ o \in Touched(b, Len(Txs[b]) + 1 - k, Len(Txs[b]))
                   <=> \/ o \in Touched(b, Len(Txs[b]) + 1 - (k - 1), Len(Txs[b]))
                       \/ o \in Txs[b][Len(Txs[b]) + 1 - k].creates
                                \cup Txs[b][Len(Txs[b]) + 1 - k].spends
         /\ o \notin Touched(b, 1, 0) /\ o \notin Touched(b, Len(Txs[b]) + 1, Len(Txs[b]))
<1> DEFINE n == Len(Txs[b])
<1>1. n \in Nat /\ DOMAIN Txs[b] = 1 .. n
  BY TxsAre
<1>2. o \in Touched(b, 1, n) <=> o \in Creates(b) \cup Spends(b)
  BY <1>1 DEF Touched, Creates, Spends
<1>3. ASSUME NEW k \in 1 .. n
      PROVE  /\ 1 .. k = (1 .. (k - 1)) \cup {k}
             /\ (n + 1 - k) .. n = ((n + 1 - (k - 1)) .. n) \cup {n + 1 - k}
  BY <1>1
<1>4. 1 .. 0 = {} /\ (n + 1) .. n = {}
  BY <1>1
<1>5. \A k \in 1 .. n :
        o \in Touched(b, 1, k)
          <=> o \in Touched(b, 1, k - 1) \/ o \in Txs[b][k].creates \cup Txs[b][k].spends
  BY <1>3 DEF Touched
<1>6. ASSUME NEW k \in 1 .. n
      PROVE  o \in Touched(b, n + 1 - k, n)
               <=> \/ o \in Touched(b, n + 1 - (k - 1), n)
                   \/ o \in Txs[b][n + 1 - k].creates \cup Txs[b][n + 1 - k].spends
  <2> DEFINE I == (n + 1 - k) .. n
             J == (n + 1 - (k - 1)) .. n
             j == n + 1 - k
  <2>1. I = J \cup {j}
    BY <1>3
  <2>2. Touched(b, n + 1 - k, n) = UNION {Txs[b][x].creates \cup Txs[b][x].spends : x \in I}
        /\ Touched(b, n + 1 - (k - 1), n)
             = UNION {Txs[b][x].creates \cup Txs[b][x].spends : x \in J}
    BY DEF Touched
  <2> HIDE DEF I, J
  <2>3. (UNION {Txs[b][x].creates \cup Txs[b][x].spends : x \in J \cup {j}})
         = (UNION {Txs[b][x].creates \cup Txs[b][x].spends : x \in J})
           \cup (Txs[b][j].creates \cup Txs[b][j].spends)
    BY ZenonT(30)
  <2> QED BY <2>1, <2>2, <2>3
<1>7. o \notin Touched(b, 1, 0) /\ o \notin Touched(b, n + 1, n)
  BY <1>4 DEF Touched
<1> QED BY <1>2, <1>5, <1>6, <1>7

\* Undoing one transaction with the undo data of the block.
LEMMA UndoStep ==
  ASSUME NEW b \in Blocks \ {Genesis}, BlockRight(b), NEW i \in 1 .. Len(Txs[b]),
         NEW s \in Disconnected
  PROVE  LET r == DisconnectTx(s, i, b, UndoOf(b)) IN
         /\ \A o \in Outs :
              r.coins[o] = IF o \in Txs[b][i].creates \cup Txs[b][i].spends
                           THEN CoinsAt(b, i - 1)[o] ELSE s.coins[o]
         /\ s.coins = CoinsAt(b, i) => (r.clean <=> s.clean)
<1> DEFINE r == DisconnectTx(s, i, b, UndoOf(b))
           tx == Txs[b][i]
           before == SpendCoins(s.coins, tx.creates)
<1>1. tx.spends \subseteq Outs /\ tx.creates \subseteq Outs
  BY TxsAre
<1>2. \A o \in tx.spends : UndoOf(b)[i][o] = CoinsAt(b, i - 1)[o]
  BY DEF BlockRight
<1>3. \A o \in Outs : before[o] = IF o \in tx.creates THEN Spent ELSE s.coins[o]
  BY DEF SpendCoins
<1> DEFINE u == UndoOf(b)
<1> HIDE DEF u
<1>9. DisconnectTx(s, i, b, u).coins
        = [o \in Outs |-> IF o \in Txs[b][i].spends THEN u[i][o]
                          ELSE SpendCoins(s.coins, Txs[b][i].creates)[o]]
  BY DisconnectTxIs
<1>4. \A o \in Outs : r.coins[o] = IF o \in tx.spends THEN UndoOf(b)[i][o] ELSE before[o]
  BY <1>9 DEF u
<1>5. r.clean <=> /\ s.clean
                  /\ \A o \in tx.creates : s.coins[o] = Height[b]
                  /\ \A o \in tx.spends : before[o] = Spent
  <2>1. DisconnectTx(s, i, b, u).clean
          <=> /\ s.clean
              /\ \A o \in Txs[b][i].creates : s.coins[o] = Height[b]
              /\ \A o \in Txs[b][i].spends : SpendCoins(s.coins, Txs[b][i].creates)[o] = Spent
    BY DEF DisconnectTx
  <2> QED BY <2>1 DEF u
<1>6. \A o \in Outs : /\ o \in tx.creates => /\ CoinsAt(b, i)[o] = Height[b]
                                             /\ CoinsAt(b, i - 1)[o] = Spent
                                             /\ o \notin tx.spends
                      /\ o \in tx.spends => CoinsAt(b, i)[o] = Spent
  BY TxStep
<1> HIDE DEF r, tx, before
<1>7. ASSUME NEW o \in Outs
      PROVE  r.coins[o] = IF o \in tx.creates \cup tx.spends THEN CoinsAt(b, i - 1)[o]
                          ELSE s.coins[o]
  BY <1>2, <1>3, <1>4, <1>6
<1>8. ASSUME s.coins = CoinsAt(b, i)
      PROVE  r.clean <=> s.clean
  BY <1>1, <1>3, <1>5, <1>6, <1>8
<1> QED BY <1>7, <1>8 DEF r, tx

\* DisconnectBlock with the undo data of the block: what the block touched is as it was
\* before, whatever it is now, and the rest stays.  On the coins of the block it is clean.
LEMMA DisconnectRight ==
  ASSUME NEW b \in Blocks \ {Genesis}, BlockRight(b), NEW c \in CoinMaps
  PROVE  LET r == DisconnectBlock(c, b, UndoOf(b)) IN
         /\ r \in Disconnected
         /\ \A o \in Outs : r.coins[o] = IF o \in Creates(b) \cup Spends(b)
                                         THEN CoinsAfter[Parent[b]][o] ELSE c[o]
         /\ c = CoinsAfter[b] => r.clean /\ r.coins = CoinsAfter[Parent[b]]
<1> DEFINE n == Len(Txs[b])
           u == UndoOf(b)
           r == DisconnectBlock(c, b, u)
<1>1. n \in Nat /\ Parent[b] \in Blocks
  BY TxsAre, ParentFacts
<1>2. PICK P : Disconnecting(P, c, b, u)
  BY UndoGood, DisconnectSteps
<1>3. /\ P[0] = Untouched(c) /\ r = P[n]
      /\ \A k \in 0 .. n : P[k] \in Disconnected
      /\ \A k \in 1 .. n : P[k] = DisconnectTx(P[k - 1], n + 1 - k, b, u)
  BY <1>2 DEF Disconnecting
<1>4. \A k \in 1 .. n : /\ k - 1 \in 0 .. n /\ n + 1 - k \in 1 .. n /\ (n + 1 - k) - 1 = n - k
                        /\ n + 1 - (k - 1) \in 1 .. (n + 1) /\ n - (k - 1) = n + 1 - k
  BY <1>1
<1>5. CoinsAt(b, 0) = CoinsAfter[Parent[b]] /\ CoinsAt(b, n) = CoinsAfter[b]
  <2>1. SpentBy(b, n) \subseteq MadeBy(b, n)
    BY <1>1 DEF BlockRight, Lawful
  <2> QED BY <2>1, CoinsAtEnds DEF BlockRight
<1>6. ASSUME NEW k \in 1 .. n
      PROVE  /\ \A o \in Outs :
                  P[k].coins[o] = IF o \in Txs[b][n + 1 - k].creates \cup Txs[b][n + 1 - k].spends
                                  THEN CoinsAt(b, n - k)[o] ELSE P[k - 1].coins[o]
             /\ P[k - 1].coins = CoinsAt(b, n + 1 - k) => (P[k].clean <=> P[k - 1].clean)
  <2> DEFINE i == n + 1 - k
             s == P[k - 1]
  <2>1. i \in 1 .. n /\ i - 1 = n - k /\ s \in Disconnected
    BY <1>3, <1>4
  <2>2. P[k] = DisconnectTx(s, i, b, UndoOf(b))
    BY <1>3
  <2> HIDE DEF i, s
  <2>3. /\ \A o \in Outs :
             P[k].coins[o] = IF o \in Txs[b][i].creates \cup Txs[b][i].spends
                             THEN CoinsAt(b, i - 1)[o] ELSE s.coins[o]
        /\ s.coins = CoinsAt(b, i) => (P[k].clean <=> s.clean)
    BY <2>1, <2>2, UndoStep
  <2> QED BY <2>1, <2>3 DEF i, s
<1>7. \A k \in 1 .. n : \A o \in Outs :
        o \notin Txs[b][n + 1 - k].creates \cup Txs[b][n + 1 - k].spends
          => CoinsAt(b, n - k)[o] = CoinsAt(b, n + 1 - k)[o]
  <2> TAKE k \in 1 .. n
  <2> TAKE o \in Outs
  <2>1. n + 1 - k \in 1 .. n /\ (n + 1 - k) - 1 = n - k
    BY <1>4
  <2> QED BY <2>1, TxStep
<1> DEFINE Done(k, o) == o \in Touched(b, n + 1 - k, n)
<1>8. \A k \in 1 .. n : \A o \in Outs :
        Done(k, o) <=> \/ Done(k - 1, o)
                       \/ o \in Txs[b][n + 1 - k].creates \cup Txs[b][n + 1 - k].spends
  BY TouchedFacts
<1>9. \A o \in Outs : ~Done(0, o) /\ (Done(n, o) <=> o \in Creates(b) \cup Spends(b))
  <2>1. n + 1 - 0 = n + 1 /\ n + 1 - n = 1
    BY <1>1
  <2> QED BY <2>1, TouchedFacts
<1> DEFINE Right(k) ==
             \A o \in Outs : P[k].coins[o] = IF Done(k, o) THEN CoinsAt(b, n - k)[o] ELSE c[o]
           Clean(k) == c = CoinsAfter[b] => P[k].clean /\ P[k].coins = CoinsAt(b, n - k)
           Good == {k \in Nat : k \in 0 .. n => Right(k) /\ Clean(k)}
<1> HIDE DEF Done
<1>10. 0 \in Good
  <2>1. P[0].coins = c /\ P[0].clean = TRUE
    BY <1>3 DEF Untouched
  <2>2. n - 0 = n
    BY <1>1
  <2> QED BY <1>5, <1>9, <2>1, <2>2
<1>11. ASSUME NEW k \in Nat, k \in Good
       PROVE  k + 1 \in Good
  <2> SUFFICES ASSUME k + 1 \in 0 .. n
               PROVE  Right(k + 1) /\ Clean(k + 1)
    OBVIOUS
  <2> DEFINE m == k + 1
             tx == Txs[b][n + 1 - m]
             touched == tx.creates \cup tx.spends
  <2>1. k \in 0 .. n /\ m \in 1 .. n /\ m - 1 = k /\ n + 1 - m = n - k /\ m \in 0 .. n
    <3> HIDE DEF Right, Clean, Good, n
    <3> QED BY <1>1
  <2>2. Right(k) /\ Clean(k)
    BY <1>11, <2>1
  <2>3. \A o \in Outs :
          P[m].coins[o] = IF o \in touched THEN CoinsAt(b, n - m)[o] ELSE P[k].coins[o]
    <3> HIDE DEF m
    <3> QED BY <1>6, <2>1
  <2>9. P[k].coins = CoinsAt(b, n - k) => (P[m].clean <=> P[k].clean)
    <3> HIDE DEF m
    <3> QED BY <1>6, <2>1
  <2>4. \A o \in Outs : o \notin touched => CoinsAt(b, n - m)[o] = CoinsAt(b, n - k)[o]
    <3> HIDE DEF m
    <3> QED BY <1>7, <2>1
  <2>5. \A o \in Outs : Done(m, o) <=> Done(k, o) \/ o \in touched
    <3> HIDE DEF m
    <3> QED BY <1>8, <2>1
  <2>6. P[m] \in Disconnected
    BY <1>3, <2>1
  <2> HIDE DEF touched, m
  <2>7. Right(m)
    BY <2>2, <2>3, <2>4, <2>5
  <2>8. ASSUME c = CoinsAfter[b]
        PROVE  P[m].clean /\ P[m].coins = CoinsAt(b, n - m)
    <3>1. P[k].clean /\ P[k].coins = CoinsAt(b, n - k)
      BY <2>2, <2>8
    <3>2. \A o \in Outs : P[m].coins[o] = CoinsAt(b, n - m)[o]
      BY <2>3, <2>4, <3>1
    <3>3. P[m].coins = [o \in Outs |-> P[m].coins[o]]
      BY <2>6 DEF Disconnected, CoinMaps
    <3>4. P[m].coins = CoinsAt(b, n - m)
      <4>1. CoinsAt(b, n - m) = [o \in Outs |-> CoinsAt(b, n - m)[o]]
        BY DEF CoinsAt
      <4> QED BY <3>2, <3>3, <4>1
    <3>5. P[m].clean
      BY <2>9, <3>1
    <3> QED BY <3>4, <3>5
  <2> QED BY <2>7, <2>8 DEF m
<1> HIDE DEF Good
<1>12. Nat \subseteq Good
  BY <1>10, <1>11, UpByOne
<1>13. Right(n) /\ Clean(n) /\ P[n] \in Disconnected /\ n - n = 0
  <2>1. n \in 0 .. n /\ n \in Good /\ n - n = 0
    BY <1>1, <1>12
  <2> QED BY <1>3, <2>1 DEF Good
<1> HIDE DEF n
<1>14. r \in Disconnected
  BY <1>3, <1>13
<1>15. \A o \in Outs : r.coins[o] = IF o \in Creates(b) \cup Spends(b)
                                    THEN CoinsAfter[Parent[b]][o] ELSE c[o]
  BY <1>3, <1>5, <1>9, <1>13
<1>16. c = CoinsAfter[b] => r.clean /\ r.coins = CoinsAfter[Parent[b]]
  BY <1>3, <1>5, <1>13
<1> QED BY <1>14, <1>15, <1>16

\* RollforwardBlock goes through the transactions one by one.
RollsForward(F, c, b) ==
  F = [s \in SUBSET DOMAIN Txs[b] |->
         IF s = {} THEN c ELSE UpdateCoins(F[s \ {Max(s)}], Txs[b][Max(s)], Height[b])]

\* RollforwardBlock is such a fold.
LEMMA RollforwardIs ==
  ASSUME NEW c, NEW b
  PROVE  RollforwardBlock(c, b) = (CHOOSE F : RollsForward(F, c, b))[DOMAIN Txs[b]]
BY DEF RollforwardBlock, FoldLeft, MapThenFoldSet, RollsForward

\* UpdateCoins one output at a time.
LEMMA UpdateCoinsIn ==
  ASSUME NEW b \in Blocks, NEW i \in 1 .. Len(Txs[b]), NEW c \in CoinMaps
  PROVE  /\ UpdateCoins(c, Txs[b][i], Height[b]) \in CoinMaps
         /\ \A o \in Outs : UpdateCoins(c, Txs[b][i], Height[b])[o]
                              = IF o \in Txs[b][i].creates THEN Height[b]
                                ELSE IF o \in Txs[b][i].spends THEN Spent ELSE c[o]
<1>1. Height[b] \in Nat
  BY TxsAre
<1> QED BY <1>1 DEF CoinMaps, UpdateCoins, AddCoins, SpendCoins, Spent

\* The coins on the way.
RollingForward(P, c, b) ==
  /\ P \in [0 .. Len(Txs[b]) -> CoinMaps]
  /\ P[0] = c
  /\ \A k \in 1 .. Len(Txs[b]) : P[k] = UpdateCoins(P[k - 1], Txs[b][k], Height[b])
  /\ RollforwardBlock(c, b) = P[Len(Txs[b])]

\* There is such a way through the block.
LEMMA RollforwardSteps ==
  ASSUME NEW c \in CoinMaps, NEW b \in Blocks
  PROVE  \E P : RollingForward(P, c, b)
<1> DEFINE n == Len(Txs[b])
           step(s, i) == UpdateCoins(s, Txs[b][i], Height[b])
           g == [i \in 1 .. n |-> [s \in CoinMaps |-> step(s, i)]]
<1>1. n \in Nat /\ DOMAIN Txs[b] = 1 .. n
  BY TxsAre
<1>2. c \in CoinMaps
  OBVIOUS
<1>3. \A i \in 1 .. n : \A s \in CoinMaps : step(s, i) \in CoinMaps
  BY UpdateCoinsIn
<1> HIDE DEF step
<1>4. \A i \in 1 .. n : \A s \in CoinMaps : g[i][s] = step(s, i)
  OBVIOUS
<1>5. StepsIn(n, CoinMaps, c, g)
  BY <1>1, <1>2, <1>3 DEF StepsIn
<1> HIDE DEF g, n
<1>6. PICK F \in [SUBSET (1 .. n) -> CoinMaps] : RunsBy(F, n, CoinMaps, c, g)
  BY <1>5, RunExists
<1>7. RollsForward(F, c, b)
  <2>1. \A s \in SUBSET (1 .. n) :
          F[s] = IF s = {} THEN c ELSE step(F[s \ {Max(s)}], Max(s))
    BY <1>4, <1>6 DEF RunsBy
  <2> QED BY <1>1, <2>1 DEF RollsForward, step
<1> DEFINE G == CHOOSE H : RollsForward(H, c, b)
<1>8. RollsForward(G, c, b)
  BY <1>7
<1>9. RollforwardBlock(c, b) = G[1 .. n]
  BY <1>1, RollforwardIs
<1> HIDE DEF G
<1>10. FoldsBy(G, n, CoinMaps, c, g)
  <2>1. \A s \in SUBSET (1 .. n) :
          G[s] = IF s = {} THEN c ELSE step(G[s \ {Max(s)}], Max(s))
    BY <1>1, <1>8 DEF RollsForward, step
  <2> QED BY <1>4, <2>1 DEF FoldsBy
<1>11. PICK P \in [0 .. n -> CoinMaps] :
         P[0] = c /\ P[n] = G[1 .. n] /\ \A k \in 1 .. n : P[k] = g[k][P[k - 1]]
  BY <1>5, <1>10, FoldRuns
<1>12. ASSUME NEW k \in 1 .. n
       PROVE  P[k] = step(P[k - 1], k)
  <2>1. k - 1 \in 0 .. n
    BY <1>1
  <2> QED BY <1>4, <1>11, <2>1
<1> QED BY <1>9, <1>11, <1>12 DEF RollingForward, step, n

\* RollforwardBlock: what the block touched is as it is after the block, and the rest stays.
LEMMA RollforwardRight ==
  ASSUME NEW b \in Blocks \ {Genesis}, BlockRight(b), NEW c \in CoinMaps
  PROVE  /\ RollforwardBlock(c, b) \in CoinMaps
         /\ \A o \in Outs : RollforwardBlock(c, b)[o] = IF o \in Creates(b) \cup Spends(b)
                                                        THEN CoinsAfter[b][o] ELSE c[o]
<1> DEFINE n == Len(Txs[b])
           Done(k, o) == o \in Touched(b, 1, k)
<1>1. n \in Nat
  BY TxsAre
<1>2. PICK P : RollingForward(P, c, b)
  BY RollforwardSteps
<1>3. /\ P[0] = c /\ RollforwardBlock(c, b) = P[n]
      /\ \A k \in 0 .. n : P[k] \in CoinMaps
      /\ \A k \in 1 .. n : P[k] = UpdateCoins(P[k - 1], Txs[b][k], Height[b])
  BY <1>2 DEF RollingForward
<1>4. CoinsAt(b, n) = CoinsAfter[b]
  <2>1. SpentBy(b, n) \subseteq MadeBy(b, n)
    BY <1>1 DEF BlockRight, Lawful
  <2> QED BY <2>1, CoinsAtEnds DEF BlockRight
<1>5. ASSUME NEW k \in 1 .. n, NEW o \in Outs
      PROVE  /\ P[k][o] = IF o \in Txs[b][k].creates \cup Txs[b][k].spends
                          THEN CoinsAt(b, k)[o] ELSE P[k - 1][o]
             /\ o \notin Txs[b][k].creates \cup Txs[b][k].spends
                  => CoinsAt(b, k)[o] = CoinsAt(b, k - 1)[o]
             /\ Done(k, o) <=> Done(k - 1, o) \/ o \in Txs[b][k].creates \cup Txs[b][k].spends
  <2>1. P[k - 1] \in CoinMaps
    BY <1>1, <1>3
  <2>2. P[k][o] = IF o \in Txs[b][k].creates THEN Height[b]
                  ELSE IF o \in Txs[b][k].spends THEN Spent ELSE P[k - 1][o]
    BY <1>3, <2>1, UpdateCoinsIn
  <2>3. Done(k, o) <=> Done(k - 1, o) \/ o \in Txs[b][k].creates \cup Txs[b][k].spends
    BY TouchedFacts
  <2> HIDE DEF Done
  <2> QED BY <2>2, <2>3, TxStep
<1>6. \A o \in Outs : ~Done(0, o) /\ (Done(n, o) <=> o \in Creates(b) \cup Spends(b))
  BY TouchedFacts
<1> DEFINE Right(k) == \A o \in Outs : P[k][o] = IF Done(k, o) THEN CoinsAt(b, k)[o] ELSE c[o]
           Good == {k \in Nat : k \in 0 .. n => Right(k)}
<1> HIDE DEF Done
<1>7. 0 \in Good
  BY <1>3, <1>6
<1>8. ASSUME NEW k \in Nat, k \in Good
      PROVE  k + 1 \in Good
  <2> SUFFICES ASSUME k + 1 \in 0 .. n
               PROVE  Right(k + 1)
    OBVIOUS
  <2> DEFINE m == k + 1
             touched == Txs[b][m].creates \cup Txs[b][m].spends
  <2>1. k \in 0 .. n /\ m \in 1 .. n /\ m - 1 = k
    <3> HIDE DEF Right, Good, n
    <3> QED BY <1>1
  <2>2. Right(k)
    BY <1>8, <2>1
  <2>3. \A o \in Outs : /\ P[m][o] = IF o \in touched THEN CoinsAt(b, m)[o] ELSE P[k][o]
                        /\ o \notin touched => CoinsAt(b, m)[o] = CoinsAt(b, k)[o]
                        /\ Done(m, o) <=> Done(k, o) \/ o \in touched
    <3> HIDE DEF m
    <3> QED BY <1>5, <2>1
  <2> HIDE DEF touched, m
  <2>4. Right(m)
    BY <2>2, <2>3
  <2> QED BY <2>4 DEF m
<1> HIDE DEF Good
<1>9. Nat \subseteq Good
  BY <1>7, <1>8, UpByOne
<1>10. Right(n) /\ P[n] \in CoinMaps
  <2>1. n \in 0 .. n /\ n \in Good
    BY <1>1, <1>9
  <2> QED BY <1>3, <2>1 DEF Good
<1> QED BY <1>3, <1>4, <1>6, <1>10

-----------------------------------------------------------------------------
(* Going down and up a chain.                                              *)

\* GetAncestor is the one block of the chain at its height, and its parent the one below.
LEMMA AncestorFacts ==
  ASSUME NEW x \in Blocks, NEW h \in 0 .. Height[x]
  PROVE  /\ GetAncestor(x, h) \in Path[x] /\ Height[GetAncestor(x, h)] = h
         /\ \A a \in Path[x] : Height[a] = h => a = GetAncestor(x, h)
         /\ GetAncestor(x, Height[x]) = x /\ GetAncestor(x, 0) = Genesis
         /\ h # 0 => /\ GetAncestor(x, h) \in Blocks \ {Genesis}
                     /\ Parent[GetAncestor(x, h)] = GetAncestor(x, h - 1)
<1>1. Height[x] \in Nat /\ Path[x] \subseteq Blocks /\ x \in Path[x] /\ Genesis \in Path[x]
      /\ Height[Genesis] = 0 /\ \A a \in Path[x] : Path[a] \subseteq Path[x]
  BY TreeAssumption, ChainFacts
<1>2. ASSUME NEW i \in 0 .. Height[x]
      PROVE  /\ GetAncestor(x, i) \in Path[x] /\ Height[GetAncestor(x, i)] = i
             /\ \A a \in Path[x] : Height[a] = i => a = GetAncestor(x, i)
  <2>1. \E a \in Path[x] : Height[a] = i
    BY HeightsOnChain
  <2>2. GetAncestor(x, i) \in Path[x] /\ Height[GetAncestor(x, i)] = i
    BY <2>1 DEF GetAncestor
  <2> QED BY <2>2, HeightsOnChain
<1>3. GetAncestor(x, Height[x]) = x /\ GetAncestor(x, 0) = Genesis
  <2>1. Height[x] \in 0 .. Height[x] /\ 0 \in 0 .. Height[x]
    BY <1>1
  <2> QED BY <1>1, <1>2, <2>1
<1>4. ASSUME h # 0
      PROVE  /\ GetAncestor(x, h) \in Blocks \ {Genesis}
             /\ Parent[GetAncestor(x, h)] = GetAncestor(x, h - 1)
  <2> DEFINE a == GetAncestor(x, h)
  <2>1. a \in Blocks \ {Genesis} /\ a \in Path[x] /\ Height[a] = h
    BY <1>1, <1>2, <1>4
  <2> HIDE DEF a
  <2>2. Parent[a] \in Path[a] /\ Height[a] = Height[Parent[a]] + 1 /\ Height[Parent[a]] \in Nat
    BY <2>1, ParentFacts, ChainFacts
  <2>3. Parent[a] \in Path[x] /\ Height[Parent[a]] = h - 1 /\ h - 1 \in 0 .. Height[x]
    BY <1>1, <2>1, <2>2
  <2>4. Parent[a] = GetAncestor(x, h - 1)
    BY <1>2, <2>3
  <2> QED BY <2>1, <2>4 DEF a
<1> QED BY <1>2, <1>3, <1>4

\* Down and Up, one block at a time.
LEMMA WaysFacts ==
  ASSUME NEW x \in Blocks, NEW h \in 0 .. Height[x]
  PROVE  /\ Height[x] - h \in Nat
         /\ DOMAIN Down(x, h) = 1 .. (Height[x] - h) /\ DOMAIN Up(x, h) = 1 .. (Height[x] - h)
         /\ \A k \in 1 .. (Height[x] - h) :
              /\ Down(x, h)[k] = GetAncestor(x, Height[x] + 1 - k)
              /\ Up(x, h)[k] = GetAncestor(x, h + k)
              /\ Down(x, h)[k] \in (Path[x] \cap Blocks) \ {Genesis} /\ Height[Down(x, h)[k]] > h
              /\ Up(x, h)[k] \in (Path[x] \cap Blocks) \ {Genesis} /\ Height[Up(x, h)[k]] > h
              /\ Parent[Down(x, h)[k]] = GetAncestor(x, Height[x] - k)
              /\ Parent[Up(x, h)[k]] = GetAncestor(x, h + (k - 1))
<1> DEFINE m == Height[x] - h
<1>1. Height[x] \in Nat /\ h \in Nat /\ m \in Nat
  BY TreeAssumption
<1>2. DOMAIN Down(x, h) = 1 .. m /\ DOMAIN Up(x, h) = 1 .. m
  BY DEF Down, Up
<1>3. ASSUME NEW k \in 1 .. m
      PROVE  /\ Down(x, h)[k] = GetAncestor(x, Height[x] + 1 - k)
             /\ Up(x, h)[k] = GetAncestor(x, h + k)
  BY DEF Down, Up
<1>4. ASSUME NEW k \in 1 .. m
      PROVE  /\ Height[x] + 1 - k \in 0 .. Height[x] /\ Height[x] + 1 - k > h
             /\ (Height[x] + 1 - k) - 1 = Height[x] - k /\ Height[x] + 1 - k # 0
             /\ h + k \in 0 .. Height[x] /\ h + k > h /\ h + k # 0 /\ (h + k) - 1 = h + (k - 1)
  BY <1>1
<1>5. ASSUME NEW k \in 1 .. m
      PROVE  /\ Down(x, h)[k] \in (Path[x] \cap Blocks) \ {Genesis} /\ Height[Down(x, h)[k]] > h
             /\ Parent[Down(x, h)[k]] = GetAncestor(x, Height[x] - k)
  <2> DEFINE i == Height[x] + 1 - k
  <2>1. i \in 0 .. Height[x] /\ i > h /\ i # 0 /\ i - 1 = Height[x] - k
    BY <1>4
  <2> HIDE DEF i
  <2>2. /\ GetAncestor(x, i) \in Path[x] /\ Height[GetAncestor(x, i)] = i
        /\ GetAncestor(x, i) \in Blocks \ {Genesis}
        /\ Parent[GetAncestor(x, i)] = GetAncestor(x, i - 1)
    BY <2>1, AncestorFacts
  <2> QED BY <1>3, <2>1, <2>2 DEF i
<1>6. ASSUME NEW k \in 1 .. m
      PROVE  /\ Up(x, h)[k] \in (Path[x] \cap Blocks) \ {Genesis} /\ Height[Up(x, h)[k]] > h
             /\ Parent[Up(x, h)[k]] = GetAncestor(x, h + (k - 1))
  <2> DEFINE i == h + k
  <2>1. i \in 0 .. Height[x] /\ i > h /\ i # 0 /\ i - 1 = h + (k - 1)
    BY <1>4
  <2> HIDE DEF i
  <2>2. /\ GetAncestor(x, i) \in Path[x] /\ Height[GetAncestor(x, i)] = i
        /\ GetAncestor(x, i) \in Blocks \ {Genesis}
        /\ Parent[GetAncestor(x, i)] = GetAncestor(x, i - 1)
    BY <2>1, AncestorFacts
  <2> QED BY <1>3, <2>1, <2>2 DEF i
<1> QED BY <1>1, <1>2, <1>3, <1>5, <1>6

\* The rollback of ReplayBlocks from x down to a height.
RollsBack(F, c, x, h, undo) ==
  F = [s \in SUBSET DOMAIN Down(x, h) |->
         IF s = {} THEN c
         ELSE DisconnectBlock(F[s \ {Max(s)}], Down(x, h)[Max(s)], undo[Down(x, h)[Max(s)]]).coins]
RolledBack(c, x, h, undo) == (CHOOSE F : RollsBack(F, c, x, h, undo))[DOMAIN Down(x, h)]

\* The undo data of the blocks above a height are right.
UndoAbove(x, h, undo) == \A b \in Path[x] : Height[b] > h => undo[b] = UndoOf(b)

\* There is such a way down.
LEMMA RollbackSteps ==
  ASSUME NEW x \in ValidChains, NEW h \in 0 .. Height[x], NEW c \in CoinMaps,
         NEW undo, UndoAbove(x, h, undo)
  PROVE  \E P \in [0 .. (Height[x] - h) -> CoinMaps] :
           /\ P[0] = c /\ P[Height[x] - h] = RolledBack(c, x, h, undo)
           /\ \A k \in 1 .. (Height[x] - h) :
                P[k] = DisconnectBlock(P[k - 1], Down(x, h)[k], UndoOf(Down(x, h)[k])).coins
<1> DEFINE n == Height[x] - h
           b(i) == Down(x, h)[i]
           step(s, i) == DisconnectBlock(s, b(i), undo[b(i)]).coins
           g == [i \in 1 .. n |-> [s \in CoinMaps |-> step(s, i)]]
<1>1. n \in Nat /\ DOMAIN Down(x, h) = 1 .. n
  BY WaysFacts DEF ValidChains
<1>2. c \in CoinMaps
  OBVIOUS
<1>3. ASSUME NEW i \in 1 .. n, NEW s \in CoinMaps
      PROVE  step(s, i) \in CoinMaps
  <2>1. b(i) \in Blocks \ {Genesis} /\ b(i) \in Path[x] /\ Height[b(i)] > h
    BY WaysFacts DEF ValidChains
  <2>2. BlockRight(b(i))
    BY <2>1, ValidFacts
  <2>3. DisconnectBlock(s, b(i), UndoOf(b(i))) \in Disconnected
    BY <2>1, <2>2, DisconnectRight
  <2> QED BY <2>1, <2>3 DEF Disconnected, UndoAbove
<1> HIDE DEF step
<1>4. \A i \in 1 .. n : \A s \in CoinMaps : g[i][s] = step(s, i)
  OBVIOUS
<1>5. StepsIn(n, CoinMaps, c, g)
  BY <1>1, <1>2, <1>3 DEF StepsIn
<1> HIDE DEF g, n, b
<1>6. PICK F \in [SUBSET (1 .. n) -> CoinMaps] : RunsBy(F, n, CoinMaps, c, g)
  BY <1>5, RunExists
<1>7. RollsBack(F, c, x, h, undo)
  <2>1. \A s \in SUBSET (1 .. n) :
          F[s] = IF s = {} THEN c ELSE step(F[s \ {Max(s)}], Max(s))
    BY <1>4, <1>6 DEF RunsBy
  <2> QED BY <1>1, <2>1 DEF RollsBack, step, b
<1> DEFINE G == CHOOSE H : RollsBack(H, c, x, h, undo)
<1>8. RollsBack(G, c, x, h, undo)
  BY <1>7
<1>9. RolledBack(c, x, h, undo) = G[1 .. n]
  BY <1>1 DEF RolledBack
<1> HIDE DEF G
<1>10. FoldsBy(G, n, CoinMaps, c, g)
  <2>1. \A s \in SUBSET (1 .. n) :
          G[s] = IF s = {} THEN c ELSE step(G[s \ {Max(s)}], Max(s))
    BY <1>1, <1>8 DEF RollsBack, step, b
  <2> QED BY <1>4, <2>1 DEF FoldsBy
<1>11. PICK P \in [0 .. n -> CoinMaps] :
         P[0] = c /\ P[n] = G[1 .. n] /\ \A k \in 1 .. n : P[k] = g[k][P[k - 1]]
  BY <1>5, <1>10, FoldRuns
<1>12. ASSUME NEW k \in 1 .. n
       PROVE  P[k] = step(P[k - 1], k)
  <2>1. k - 1 \in 0 .. n
    BY <1>1
  <2> QED BY <1>4, <1>11, <2>1
<1>13. \A k \in 1 .. n : undo[b(k)] = UndoOf(b(k))
  BY WaysFacts DEF ValidChains, UndoAbove, n, b
<1> QED BY <1>13, <1>9, <1>11, <1>12 DEF step, n, b

\* Each coin is as one of two has it.
Between(c, d, e) == \A o \in Outs : c[o] \in {d[o], e[o]}

\* Whatever mixture of the coins of x and of others the rollback begins with, at the end it
\* is one of the coins at the bottom and those others.
LEMMA RollbackRight ==
  ASSUME NEW x \in ValidChains, NEW h \in 0 .. Height[x], NEW c \in CoinMaps,
         NEW undo, UndoAbove(x, h, undo), NEW e, Between(c, CoinsAfter[x], e)
  PROVE  /\ RolledBack(c, x, h, undo) \in CoinMaps
         /\ Between(RolledBack(c, x, h, undo), CoinsAfter[GetAncestor(x, h)], e)
<1> DEFINE m == Height[x] - h
           b(k) == Down(x, h)[k]
           y(k) == GetAncestor(x, Height[x] - k)
<1>1. x \in Blocks /\ Height[x] \in Nat /\ h \in Nat
  BY TreeAssumption DEF ValidChains
<1>2. m \in Nat /\ \A k \in 1 .. m : /\ b(k) \in Blocks \ {Genesis} /\ b(k) \in Path[x]
                                     /\ b(k) = GetAncestor(x, Height[x] + 1 - k)
                                     /\ Parent[b(k)] = y(k)
  <2>1. m \in Nat
    BY <1>1, WaysFacts
  <2>2. ASSUME NEW k \in 1 .. m
        PROVE  /\ b(k) \in Blocks \ {Genesis} /\ b(k) \in Path[x]
               /\ b(k) = GetAncestor(x, Height[x] + 1 - k) /\ Parent[b(k)] = y(k)
    BY <1>1, WaysFacts
  <2> QED BY <2>1, <2>2
<1>3. PICK P \in [0 .. m -> CoinMaps] :
        /\ P[0] = c /\ P[m] = RolledBack(c, x, h, undo)
        /\ \A k \in 1 .. m : P[k] = DisconnectBlock(P[k - 1], b(k), UndoOf(b(k))).coins
  BY RollbackSteps
<1>4. y(0) = x /\ y(m) = GetAncestor(x, h)
  <2>1. Height[x] - 0 = Height[x] /\ Height[x] - m = h /\ Height[x] \in 0 .. Height[x]
    BY <1>1
  <2> QED BY <1>1, <2>1, AncestorFacts
<1>5. ASSUME NEW k \in 1 .. m
      PROVE  b(k) = y(k - 1)
  <2>1. Height[x] - (k - 1) = Height[x] + 1 - k
    BY <1>1
  <2> QED BY <1>2, <2>1
<1> HIDE DEF m, b, y
<1>6. ASSUME NEW k \in 1 .. m, Between(P[k - 1], CoinsAfter[y(k - 1)], e)
      PROVE  Between(P[k], CoinsAfter[y(k)], e)
  <2>1. b(k) \in Blocks \ {Genesis} /\ BlockRight(b(k)) /\ P[k - 1] \in CoinMaps
    BY <1>2, ValidFacts
  <2>2. \A o \in Outs : P[k][o] = IF o \in Creates(b(k)) \cup Spends(b(k))
                                  THEN CoinsAfter[Parent[b(k)]][o] ELSE P[k - 1][o]
    BY <1>3, <2>1, DisconnectRight
  <2>3. \A o \in Outs : o \notin Creates(b(k)) \cup Spends(b(k))
                          => CoinsAfter[b(k)][o] = CoinsAfter[Parent[b(k)]][o]
    BY <2>1, CoinStep
  <2>4. Parent[b(k)] = y(k) /\ b(k) = y(k - 1)
    BY <1>2, <1>5
  <2> QED BY <1>6, <2>2, <2>3, <2>4 DEF Between
<1> DEFINE Good == {k \in Nat : k \in 0 .. m => Between(P[k], CoinsAfter[y(k)], e)}
<1>7. 0 \in Good
  BY <1>3, <1>4
<1>8. ASSUME NEW k \in Nat, k \in Good
      PROVE  k + 1 \in Good
  <2>1. CASE k + 1 \in 0 .. m
    <3>1. k \in 0 .. m /\ k + 1 \in 1 .. m /\ (k + 1) - 1 = k
      BY <1>2, <2>1
    <3> QED BY <1>6, <1>8, <3>1
  <2> QED BY <2>1
<1> HIDE DEF Good
<1>9. Nat \subseteq Good
  BY <1>7, <1>8, UpByOne
<1>10. m \in 0 .. m /\ m \in Good
  BY <1>2, <1>9
<1> QED BY <1>3, <1>4, <1>10 DEF Good

\* The way forward of ReplayBlocks, from a height up to x.
RollsUp(F, c, x, h) ==
  F = [s \in SUBSET DOMAIN Up(x, h) |->
         IF s = {} THEN c ELSE RollforwardBlock(F[s \ {Max(s)}], Up(x, h)[Max(s)])]
RolledUp(c, x, h) == (CHOOSE F : RollsUp(F, c, x, h))[DOMAIN Up(x, h)]

\* There is such a way up.
LEMMA RollUpSteps ==
  ASSUME NEW x \in ValidChains, NEW h \in 0 .. Height[x], NEW c \in CoinMaps
  PROVE  \E P \in [0 .. (Height[x] - h) -> CoinMaps] :
           /\ P[0] = c /\ P[Height[x] - h] = RolledUp(c, x, h)
           /\ \A k \in 1 .. (Height[x] - h) : P[k] = RollforwardBlock(P[k - 1], Up(x, h)[k])
<1> DEFINE n == Height[x] - h
           b(i) == Up(x, h)[i]
           step(s, i) == RollforwardBlock(s, b(i))
           g == [i \in 1 .. n |-> [s \in CoinMaps |-> step(s, i)]]
<1>1. n \in Nat /\ DOMAIN Up(x, h) = 1 .. n
  BY WaysFacts DEF ValidChains
<1>2. c \in CoinMaps
  OBVIOUS
<1>3. ASSUME NEW i \in 1 .. n, NEW s \in CoinMaps
      PROVE  step(s, i) \in CoinMaps
  <2>1. b(i) \in Blocks \ {Genesis} /\ b(i) \in Path[x] /\ Height[b(i)] > h
    BY WaysFacts DEF ValidChains
  <2>2. BlockRight(b(i))
    BY <2>1, ValidFacts
  <2> QED BY <2>1, <2>2, RollforwardRight
<1> HIDE DEF step
<1>4. \A i \in 1 .. n : \A s \in CoinMaps : g[i][s] = step(s, i)
  OBVIOUS
<1>5. StepsIn(n, CoinMaps, c, g)
  BY <1>1, <1>2, <1>3 DEF StepsIn
<1> HIDE DEF g, n, b
<1>6. PICK F \in [SUBSET (1 .. n) -> CoinMaps] : RunsBy(F, n, CoinMaps, c, g)
  BY <1>5, RunExists
<1>7. RollsUp(F, c, x, h)
  <2>1. \A s \in SUBSET (1 .. n) :
          F[s] = IF s = {} THEN c ELSE step(F[s \ {Max(s)}], Max(s))
    BY <1>4, <1>6 DEF RunsBy
  <2> QED BY <1>1, <2>1 DEF RollsUp, step, b
<1> DEFINE G == CHOOSE H : RollsUp(H, c, x, h)
<1>8. RollsUp(G, c, x, h)
  BY <1>7
<1>9. RolledUp(c, x, h) = G[1 .. n]
  BY <1>1 DEF RolledUp
<1> HIDE DEF G
<1>10. FoldsBy(G, n, CoinMaps, c, g)
  <2>1. \A s \in SUBSET (1 .. n) :
          G[s] = IF s = {} THEN c ELSE step(G[s \ {Max(s)}], Max(s))
    BY <1>1, <1>8 DEF RollsUp, step, b
  <2> QED BY <1>4, <2>1 DEF FoldsBy
<1>11. PICK P \in [0 .. n -> CoinMaps] :
         P[0] = c /\ P[n] = G[1 .. n] /\ \A k \in 1 .. n : P[k] = g[k][P[k - 1]]
  BY <1>5, <1>10, FoldRuns
<1>12. ASSUME NEW k \in 1 .. n
       PROVE  P[k] = step(P[k - 1], k)
  <2>1. k - 1 \in 0 .. n
    BY <1>1
  <2> QED BY <1>4, <1>11, <2>1
<1> QED BY <1>9, <1>11, <1>12 DEF step, n, b

\* From a mixture of the coins at the bottom and those of x the way forward makes those of x.
LEMMA RollUpRight ==
  ASSUME NEW x \in ValidChains, NEW h \in 0 .. Height[x], NEW c \in CoinMaps,
         Between(c, CoinsAfter[GetAncestor(x, h)], CoinsAfter[x])
  PROVE  RolledUp(c, x, h) = CoinsAfter[x]
<1> DEFINE m == Height[x] - h
           b(k) == Up(x, h)[k]
           y(k) == GetAncestor(x, h + k)
           e == CoinsAfter[x]
<1>1. x \in Blocks /\ Height[x] \in Nat /\ h \in Nat
  BY TreeAssumption DEF ValidChains
<1>2. m \in Nat /\ \A k \in 1 .. m : /\ b(k) \in Blocks \ {Genesis} /\ b(k) \in Path[x]
                                     /\ b(k) = y(k) /\ Parent[b(k)] = y(k - 1)
  <2>1. m \in Nat
    BY <1>1, WaysFacts
  <2>2. ASSUME NEW k \in 1 .. m
        PROVE  /\ b(k) \in Blocks \ {Genesis} /\ b(k) \in Path[x]
               /\ b(k) = y(k) /\ Parent[b(k)] = y(k - 1)
    BY <1>1, WaysFacts
  <2> QED BY <2>1, <2>2
<1>3. PICK P \in [0 .. m -> CoinMaps] :
        /\ P[0] = c /\ P[m] = RolledUp(c, x, h)
        /\ \A k \in 1 .. m : P[k] = RollforwardBlock(P[k - 1], b(k))
  BY RollUpSteps
<1>4. y(0) = GetAncestor(x, h) /\ y(m) = x
  <2>1. h + 0 = h /\ h + m = Height[x] /\ Height[x] \in 0 .. Height[x]
    BY <1>1
  <2> QED BY <1>1, <2>1, AncestorFacts
<1> HIDE DEF m, b, y, e
<1>5. ASSUME NEW k \in 1 .. m, Between(P[k - 1], CoinsAfter[y(k - 1)], e)
      PROVE  Between(P[k], CoinsAfter[y(k)], e)
  <2>1. b(k) \in Blocks \ {Genesis} /\ BlockRight(b(k)) /\ P[k - 1] \in CoinMaps
    BY <1>2, ValidFacts
  <2>2. \A o \in Outs : P[k][o] = IF o \in Creates(b(k)) \cup Spends(b(k))
                                  THEN CoinsAfter[b(k)][o] ELSE P[k - 1][o]
    BY <1>3, <2>1, RollforwardRight
  <2>3. \A o \in Outs : o \notin Creates(b(k)) \cup Spends(b(k))
                          => CoinsAfter[b(k)][o] = CoinsAfter[Parent[b(k)]][o]
    BY <2>1, CoinStep
  <2>4. Parent[b(k)] = y(k - 1) /\ b(k) = y(k)
    BY <1>2
  <2> QED BY <1>5, <2>2, <2>3, <2>4 DEF Between
<1> DEFINE Good == {k \in Nat : k \in 0 .. m => Between(P[k], CoinsAfter[y(k)], e)}
<1>6. 0 \in Good
  BY <1>3, <1>4 DEF e
<1>7. ASSUME NEW k \in Nat, k \in Good
      PROVE  k + 1 \in Good
  <2>1. CASE k + 1 \in 0 .. m
    <3>1. k \in 0 .. m /\ k + 1 \in 1 .. m /\ (k + 1) - 1 = k
      BY <1>2, <2>1
    <3> QED BY <1>5, <1>7, <3>1
  <2> QED BY <2>1
<1> HIDE DEF Good
<1>8. Nat \subseteq Good
  BY <1>6, <1>7, UpByOne
<1>9. m \in 0 .. m /\ m \in Good
  BY <1>2, <1>8
<1>10. Between(P[m], e, e) /\ P[m] \in CoinMaps
  BY <1>4, <1>9 DEF Good, e
<1>11. P[m] = [o \in Outs |-> P[m][o]] /\ e = [o \in Outs |-> e[o]]
  BY <1>1, <1>10, CoinsAre DEF CoinMaps, e
<1>12. P[m] = e
  BY <1>10, <1>11 DEF Between
<1> QED BY <1>3, <1>12 DEF e

-----------------------------------------------------------------------------
(* ReplayBlocks.                                                           *)

\* The height of the fork is that of a block on both chains.
LEMMA ForkFacts ==
  ASSUME NEW x \in Blocks, NEW y \in Blocks \cup {NoBlock}, dbHeads = <<x, y>>
  PROVE  /\ ForkHeight \in 0 .. Height[x] /\ (y # NoBlock => ForkHeight \in 0 .. Height[y])
         /\ GetAncestor(x, ForkHeight) = IF y = NoBlock THEN Genesis ELSE GetAncestor(y, ForkHeight)
         /\ \A b \in Path[x] : Height[b] > ForkHeight => b \in Forwards
         /\ y # NoBlock => \A b \in Path[y] : Height[b] > ForkHeight => b \in Rollbacks
<1> DEFINE z == IF y = NoBlock THEN Genesis ELSE y
           common == Path[x] \cap Path[z]
           hs == {Height[b] : b \in common}
<1>1. z \in Blocks /\ HeadPath(y) = Path[z] /\ HeadPath(x) = Path[x] /\ x # NoBlock
  BY TreeAssumption DEF HeadPath
<1>2. dbHeads[1] = x /\ dbHeads[2] = y
  OBVIOUS
<1>3. ForkHeight = Max(hs) /\ Forwards = Path[x] \ Path[z] /\ Rollbacks = Path[z] \ Path[x]
  BY <1>1, <1>2 DEF ForkHeight, Forwards, Rollbacks
<1> HIDE DEF z
<1>4. PICK f \in common : \A c \in common : Height[c] <= Height[f]
  BY <1>1, ForkOfChains
<1>5. f \in Blocks /\ Path[x] \subseteq Blocks /\ Path[z] \subseteq Blocks
      /\ \A b \in Blocks : Height[b] \in Nat
  BY <1>1, <1>4, ChainFacts, TreeAssumption
<1>6. Height[f] \in hs /\ \A i \in hs : i \in Nat /\ Height[f] >= i
  BY <1>4, <1>5
<1>7. ForkHeight = Height[f]
  <2> HIDE DEF hs
  <2>1. ASSUME NEW i \in hs, \A j \in hs : i >= j
        PROVE  i = Height[f]
    <3>1. i >= Height[f] /\ Height[f] >= i /\ i \in Nat /\ Height[f] \in Nat
      BY <1>6, <2>1
    <3> QED BY <3>1
  <2> QED BY <1>3, <1>6, <2>1 DEF Max
<1>8. Height[f] \in 0 .. Height[x] /\ Height[f] \in 0 .. Height[z]
  <2>1. f \in Path[x] /\ f \in Path[z]
    BY <1>4
  <2>2. Height[f] <= Height[x] /\ Height[f] <= Height[z]
    BY <1>1, <1>5, <2>1, OrderOnChain
  <2> QED BY <1>1, <1>5, <2>2
<1>9. GetAncestor(x, Height[f]) = f /\ GetAncestor(z, Height[f]) = f
  <2>1. f \in Path[x] /\ f \in Path[z]
    BY <1>4
  <2> QED BY <1>1, <1>8, <2>1, AncestorFacts
<1>10. ASSUME NEW b \in Path[x] \cup Path[z], Height[b] > Height[f]
       PROVE  b \notin common
  BY <1>4, <1>5, <1>10
<1>11. y = NoBlock => f = Genesis
  BY <1>4, TreeAssumption DEF z
<1> QED BY <1>3, <1>7, <1>8, <1>9, <1>10, <1>11 DEF z

\* What ReplayBlocks undoes is such a rollback from the second head,
LEMMA RolledBackIs ==
  RolledBackCoins = IF dbHeads[2] = NoBlock THEN dbCoins
                    ELSE RolledBack(dbCoins, dbHeads[2], ForkHeight, undoFile)
BY DEF RolledBackCoins, RolledBack, RollsBack, FoldLeft, MapThenFoldSet

\* and what it makes such a way up to the first.
LEMMA ReplayedIs == ReplayedCoins = RolledUp(RolledBackCoins, dbHeads[1], ForkHeight)
BY DEF ReplayedCoins, RolledUp, RollsUp, FoldLeft, MapThenFoldSet

\* Whatever part of the coins was written, the replay makes those of the first head.
LEMMA ReplayRight ==
  ASSUME NEW x \in ValidChains, NEW y \in ValidChains \cup {NoBlock}, dbHeads = <<x, y>>,
         dbCoins \in CoinMaps, Between(dbCoins, CoinsAfter[x], CoinsAfter[y]),
         \A b \in Rollbacks : undoFile[b] = UndoOf(b)
  PROVE  ReplayedCoins = CoinsAfter[x]
<1> DEFINE h == ForkHeight
           f == GetAncestor(x, h)
<1>1. x \in Blocks /\ y \in Blocks \cup {NoBlock} /\ dbHeads[1] = x /\ dbHeads[2] = y
  BY DEF ValidChains
<1>2. /\ h \in 0 .. Height[x] /\ (y # NoBlock => h \in 0 .. Height[y])
      /\ f = IF y = NoBlock THEN Genesis ELSE GetAncestor(y, h)
      /\ y # NoBlock => \A b \in Path[y] : Height[b] > h => b \in Rollbacks
  BY <1>1, ForkFacts
<1> HIDE DEF h, f
<1>3. RolledBackCoins \in CoinMaps /\ Between(RolledBackCoins, CoinsAfter[f], CoinsAfter[x])
  <2>1. CASE y = NoBlock
    <3>1. RolledBackCoins = dbCoins
      BY <1>1, <2>1, RolledBackIs
    <3>2. CoinsAfter[y] = CoinsAfter[f]
      BY <1>2, <2>1, GenesisFacts
    <3> QED BY <3>1, <3>2 DEF Between
  <2>2. CASE y # NoBlock
    <3>1. RolledBackCoins = RolledBack(dbCoins, y, h, undoFile)
      BY <1>1, <2>2, RolledBackIs DEF h
    <3>2. UndoAbove(y, h, undoFile)
      BY <1>2, <2>2 DEF UndoAbove
    <3>3. Between(dbCoins, CoinsAfter[y], CoinsAfter[x])
      BY DEF Between
    <3>4. y \in ValidChains /\ h \in 0 .. Height[y] /\ f = GetAncestor(y, h)
      BY <1>2, <2>2
    <3>5. /\ RolledBack(dbCoins, y, h, undoFile) \in CoinMaps
          /\ Between(RolledBack(dbCoins, y, h, undoFile), CoinsAfter[GetAncestor(y, h)],
                     CoinsAfter[x])
      BY <3>2, <3>3, <3>4, RollbackRight
    <3> QED BY <3>1, <3>4, <3>5
  <2> QED BY <2>1, <2>2
<1>4. ReplayedCoins = RolledUp(RolledBackCoins, x, h)
  BY <1>1, ReplayedIs DEF h
<1> QED BY <1>2, <1>3, <1>4, RollUpRight DEF f

-----------------------------------------------------------------------------
(* VerifyDB.                                                               *)

\* What VerifyDB keeps.
Checked == [coins : CoinMaps, good : BOOLEAN]

\* The last blocks are disconnected ...
Undone(s, b, undo) ==
  LET r == DisconnectBlock(s.coins, b, undo[b]) IN [coins |-> r.coins, good |-> s.good /\ r.clean]
VerifiesDown(F, s0, x, h, undo) ==
  F = [s \in SUBSET DOMAIN Down(x, h) |->
         IF s = {} THEN s0 ELSE Undone(F[s \ {Max(s)}], Down(x, h)[Max(s)], undo)]
VerifiedDown(s0, x, h, undo) == (CHOOSE F : VerifiesDown(F, s0, x, h, undo))[DOMAIN Down(x, h)]

\* A disconnected block leaves coins.
LEMMA UndoneIn ==
  ASSUME NEW b \in Blocks \ {Genesis}, BlockRight(b), NEW s \in Checked,
         NEW undo, undo[b] = UndoOf(b)
  PROVE  Undone(s, b, undo) \in Checked
<1> DEFINE r == DisconnectBlock(s.coins, b, undo[b])
<1>1. s.coins \in CoinMaps /\ s.good \in BOOLEAN
  BY DEF Checked
<1>2. r \in Disconnected
  BY <1>1, DisconnectRight
<1> HIDE DEF r
<1>3. r.coins \in CoinMaps /\ (s.good /\ r.clean) \in BOOLEAN
  BY <1>1, <1>2 DEF Disconnected
<1>4. Undone(s, b, undo) = [coins |-> r.coins, good |-> s.good /\ r.clean]
  BY DEF Undone, r
<1> QED BY <1>3, <1>4 DEF Checked

\* There is such a way down.
LEMMA VerifiedDownSteps ==
  ASSUME NEW x \in ValidChains, NEW h \in 0 .. Height[x], NEW s0 \in Checked,
         NEW undo, UndoAbove(x, h, undo)
  PROVE  \E P \in [0 .. (Height[x] - h) -> Checked] :
           /\ P[0] = s0 /\ P[Height[x] - h] = VerifiedDown(s0, x, h, undo)
           /\ \A k \in 1 .. (Height[x] - h) : P[k] = Undone(P[k - 1], Down(x, h)[k], undo)
<1> DEFINE n == Height[x] - h
           b(i) == Down(x, h)[i]
           step(s, i) == Undone(s, b(i), undo)
           g == [i \in 1 .. n |-> [s \in Checked |-> step(s, i)]]
<1>1. n \in Nat /\ DOMAIN Down(x, h) = 1 .. n
  BY WaysFacts DEF ValidChains
<1>2. s0 \in Checked
  OBVIOUS
<1>3. ASSUME NEW i \in 1 .. n, NEW s \in Checked
      PROVE  step(s, i) \in Checked
  <2>1. b(i) \in Blocks \ {Genesis} /\ b(i) \in Path[x] /\ Height[b(i)] > h
    BY WaysFacts DEF ValidChains
  <2>2. BlockRight(b(i))
    BY <2>1, ValidFacts
  <2> QED BY <2>1, <2>2, UndoneIn DEF UndoAbove
<1> HIDE DEF step
<1>4. \A i \in 1 .. n : \A s \in Checked : g[i][s] = step(s, i)
  OBVIOUS
<1>5. StepsIn(n, Checked, s0, g)
  BY <1>1, <1>2, <1>3 DEF StepsIn
<1> HIDE DEF g, n, b
<1>6. PICK F \in [SUBSET (1 .. n) -> Checked] : RunsBy(F, n, Checked, s0, g)
  BY <1>5, RunExists
<1>7. VerifiesDown(F, s0, x, h, undo)
  <2>1. \A s \in SUBSET (1 .. n) :
          F[s] = IF s = {} THEN s0 ELSE step(F[s \ {Max(s)}], Max(s))
    BY <1>4, <1>6 DEF RunsBy
  <2> QED BY <1>1, <2>1 DEF VerifiesDown, step, b
<1> DEFINE G == CHOOSE H : VerifiesDown(H, s0, x, h, undo)
<1>8. VerifiesDown(G, s0, x, h, undo)
  BY <1>7
<1>9. VerifiedDown(s0, x, h, undo) = G[1 .. n]
  BY <1>1 DEF VerifiedDown
<1> HIDE DEF G
<1>10. FoldsBy(G, n, Checked, s0, g)
  <2>1. \A s \in SUBSET (1 .. n) :
          G[s] = IF s = {} THEN s0 ELSE step(G[s \ {Max(s)}], Max(s))
    BY <1>1, <1>8 DEF VerifiesDown, step, b
  <2> QED BY <1>4, <2>1 DEF FoldsBy
<1>11. PICK P \in [0 .. n -> Checked] :
         P[0] = s0 /\ P[n] = G[1 .. n] /\ \A k \in 1 .. n : P[k] = g[k][P[k - 1]]
  BY <1>5, <1>10, FoldRuns
<1>12. ASSUME NEW k \in 1 .. n
       PROVE  P[k] = step(P[k - 1], k)
  <2>1. k - 1 \in 0 .. n
    BY <1>1
  <2> QED BY <1>4, <1>11, <2>1
<1> QED BY <1>9, <1>11, <1>12 DEF step, n, b

\* ... and connected again.
Redone(s, b) ==
  LET r == ConnectBlock(s.coins, b) IN [coins |-> r.coins, good |-> s.good /\ r.valid]
VerifiesUp(F, s0, x, h) ==
  F = [s \in SUBSET DOMAIN Up(x, h) |->
         IF s = {} THEN s0 ELSE Redone(F[s \ {Max(s)}], Up(x, h)[Max(s)])]
VerifiedUp(s0, x, h) == (CHOOSE F : VerifiesUp(F, s0, x, h))[DOMAIN Up(x, h)]

\* A connected block leaves coins.
LEMMA RedoneIn ==
  ASSUME NEW b \in Blocks \ {Genesis}, BlockRight(b), NEW s \in Checked
  PROVE  Redone(s, b) \in Checked
<1> DEFINE r == ConnectBlock(s.coins, b)
<1>1. s.coins \in CoinMaps /\ s.good \in BOOLEAN
  BY DEF Checked
<1>2. r \in Connected
  <2>1. PICK P : Connecting(P, s.coins, b)
    BY <1>1, ConnectSteps
  <2>2. Len(Txs[b]) \in 0 .. Len(Txs[b])
    BY TxsAre
  <2> QED BY <2>1, <2>2 DEF Connecting
<1> HIDE DEF r
<1>3. r.coins \in CoinMaps /\ (s.good /\ r.valid) \in BOOLEAN
  BY <1>1, <1>2 DEF Connected
<1>4. Redone(s, b) = [coins |-> r.coins, good |-> s.good /\ r.valid]
  BY DEF Redone, r
<1> QED BY <1>3, <1>4 DEF Checked

\* There is such a way up.
LEMMA VerifiedUpSteps ==
  ASSUME NEW x \in ValidChains, NEW h \in 0 .. Height[x], NEW s0 \in Checked
  PROVE  \E P \in [0 .. (Height[x] - h) -> Checked] :
           /\ P[0] = s0 /\ P[Height[x] - h] = VerifiedUp(s0, x, h)
           /\ \A k \in 1 .. (Height[x] - h) : P[k] = Redone(P[k - 1], Up(x, h)[k])
<1> DEFINE n == Height[x] - h
           b(i) == Up(x, h)[i]
           step(s, i) == Redone(s, b(i))
           g == [i \in 1 .. n |-> [s \in Checked |-> step(s, i)]]
<1>1. n \in Nat /\ DOMAIN Up(x, h) = 1 .. n
  BY WaysFacts DEF ValidChains
<1>2. s0 \in Checked
  OBVIOUS
<1>3. ASSUME NEW i \in 1 .. n, NEW s \in Checked
      PROVE  step(s, i) \in Checked
  <2>1. b(i) \in Blocks \ {Genesis} /\ b(i) \in Path[x] /\ Height[b(i)] > h
    BY WaysFacts DEF ValidChains
  <2>2. BlockRight(b(i))
    BY <2>1, ValidFacts
  <2> QED BY <2>1, <2>2, RedoneIn
<1> HIDE DEF step
<1>4. \A i \in 1 .. n : \A s \in Checked : g[i][s] = step(s, i)
  OBVIOUS
<1>5. StepsIn(n, Checked, s0, g)
  BY <1>1, <1>2, <1>3 DEF StepsIn
<1> HIDE DEF g, n, b
<1>6. PICK F \in [SUBSET (1 .. n) -> Checked] : RunsBy(F, n, Checked, s0, g)
  BY <1>5, RunExists
<1>7. VerifiesUp(F, s0, x, h)
  <2>1. \A s \in SUBSET (1 .. n) :
          F[s] = IF s = {} THEN s0 ELSE step(F[s \ {Max(s)}], Max(s))
    BY <1>4, <1>6 DEF RunsBy
  <2> QED BY <1>1, <2>1 DEF VerifiesUp, step, b
<1> DEFINE G == CHOOSE H : VerifiesUp(H, s0, x, h)
<1>8. VerifiesUp(G, s0, x, h)
  BY <1>7
<1>9. VerifiedUp(s0, x, h) = G[1 .. n]
  BY <1>1 DEF VerifiedUp
<1> HIDE DEF G
<1>10. FoldsBy(G, n, Checked, s0, g)
  <2>1. \A s \in SUBSET (1 .. n) :
          G[s] = IF s = {} THEN s0 ELSE step(G[s \ {Max(s)}], Max(s))
    BY <1>1, <1>8 DEF VerifiesUp, step, b
  <2> QED BY <1>4, <2>1 DEF FoldsBy
<1>11. PICK P \in [0 .. n -> Checked] :
         P[0] = s0 /\ P[n] = G[1 .. n] /\ \A k \in 1 .. n : P[k] = g[k][P[k - 1]]
  BY <1>5, <1>10, FoldRuns
<1>12. ASSUME NEW k \in 1 .. n
       PROVE  P[k] = step(P[k - 1], k)
  <2>1. k - 1 \in 0 .. n
    BY <1>1
  <2> QED BY <1>4, <1>11, <2>1
<1> QED BY <1>9, <1>11, <1>12 DEF step, n, b

\* Where VerifyDB stops: on the chain, and above it a node that prunes has every block.
LEMMA FloorFacts ==
  ASSUME tip \in Blocks
  PROVE  /\ VerifyFloor \in 0 .. Height[tip]
         /\ pruneMode => \A b \in Path[tip] : Height[b] > VerifyFloor => b \in haveData
<1> DEFINE T == {h \in 0 .. Height[tip] :
                   /\ h >= Height[tip] - CheckDepth
                   /\ pruneMode => \A b \in Path[tip] : Height[b] > h => b \in haveData}
<1>1. Height[tip] \in Nat /\ Height[tip] >= Height[tip] - CheckDepth
  BY TreeAssumption, TxsAssumption
<1>2. \A b \in Path[tip] : ~(Height[b] > Height[tip])
  <2> TAKE b \in Path[tip]
  <2>1. b \in Blocks /\ Height[b] \in Nat
    BY ChainFacts, TreeAssumption
  <2> QED BY <1>1, <2>1, OrderOnChain
<1>3. Height[tip] \in T
  BY <1>1, <1>2
<1>4. PICK h \in T : \A i \in T : h <= i
  <2>1. T \subseteq Nat /\ T # {}
    BY <1>1, <1>3
  <2> HIDE DEF T
  <2> QED BY <2>1, LeastElement
<1>5. VerifyFloor = Min(T)
  BY DEF VerifyFloor
<1>6. Min(T) \in T
  <2> HIDE DEF T
  <2> QED BY <1>4 DEF Min
<1> QED BY <1>5, <1>6

\* VerifyDB passes when what it reads is there and the way down and up finds nothing wrong.
LEMMA VerifyIs ==
  VerifyPasses <=>
    /\ \A b \in Path[tip] : Height[b] > VerifyFloor => CanReadBlock(b) /\ CanReadUndo(b)
    /\ VerifiedUp(VerifiedDown([coins |-> coinsTip, good |-> TRUE], tip, VerifyFloor, undoFile),
                  tip, VerifyFloor).good
BY DEF VerifyPasses, VerifiedUp, VerifiedDown, VerifiesUp, VerifiesDown, Undone, Redone,
   FoldLeft, MapThenFoldSet

\* What VerifyDB has at a block when all is well.
Fine(b) == [coins |-> CoinsAfter[b], good |-> TRUE]

\* Disconnecting goes from the right coins to those of the parent, connecting back.
LEMMA FineSteps ==
  ASSUME NEW b \in Blocks \ {Genesis}, b \in ValidChains
  PROVE  /\ Fine(b) \in Checked /\ Fine(Parent[b]) \in Checked
         /\ \A undo : undo[b] = UndoOf(b) => Undone(Fine(b), b, undo) = Fine(Parent[b])
         /\ Redone(Fine(Parent[b]), b) = Fine(b)
<1> DEFINE p == Parent[b]
           c == CoinsAfter[b]
           d == CoinsAfter[p]
<1>1. BlockRight(b) /\ ConnectBlock(d, b).valid = TRUE /\ p \in Blocks
  <2>1. d \in CoinMaps /\ p \in Blocks
    BY ParentFacts, CoinsIn
  <2>2. PICK P : Connecting(P, d, b)
    BY <2>1, ConnectSteps
  <2>3. Len(Txs[b]) \in 0 .. Len(Txs[b])
    BY TxsAre
  <2>4. ConnectBlock(d, b) \in Connected
    BY <2>2, <2>3 DEF Connecting
  <2>5. ConnectBlock(d, b).valid \in BOOLEAN
    BY <2>4 DEF Connected
  <2> QED BY <2>1, <2>5, ValidFacts
<1>2. c \in CoinMaps /\ d \in CoinMaps
  BY <1>1, CoinsIn
<1>3. Fine(b) \in Checked /\ Fine(p) \in Checked
  BY <1>2 DEF Fine, Checked
<1>4. DisconnectBlock(c, b, UndoOf(b)).coins = d /\ DisconnectBlock(c, b, UndoOf(b)).clean = TRUE
  <2>1. DisconnectBlock(c, b, UndoOf(b)) \in Disconnected
    BY <1>1, <1>2, DisconnectRight
  <2>2. DisconnectBlock(c, b, UndoOf(b)).clean \in BOOLEAN
    BY <2>1 DEF Disconnected
  <2> QED BY <1>1, <1>2, <2>2, DisconnectRight
<1>5. ConnectBlock(d, b).coins = c
  BY <1>1 DEF BlockRight
<1> HIDE DEF p, c, d
<1>6. ASSUME NEW undo, undo[b] = UndoOf(b)
      PROVE  Undone(Fine(b), b, undo) = Fine(p)
  <2>1. Fine(b).coins = c /\ Fine(b).good = TRUE
    BY DEF Fine, c
  <2>2. Undone(Fine(b), b, undo) = [coins |-> d, good |-> TRUE]
    BY <1>4, <1>6, <2>1 DEF Undone
  <2> QED BY <2>2 DEF Fine, d
<1>7. Redone(Fine(p), b) = Fine(b)
  <2>1. Fine(p).coins = d /\ Fine(p).good = TRUE
    BY DEF Fine, d
  <2>2. Redone(Fine(p), b) = [coins |-> c, good |-> TRUE]
    BY <1>1, <1>5, <2>1 DEF Redone
  <2> QED BY <2>2 DEF Fine, c
<1> QED BY <1>3, <1>6, <1>7 DEF p

\* With the undo data of the blocks, all there, and the right coins VerifyDB finds nothing wrong.
LEMMA VerifyRight ==
  ASSUME tip \in ValidChains, coinsTip = CoinsAfter[tip],
         \A b \in Path[tip] :
           Height[b] > VerifyFloor => CanReadBlock(b) /\ CanReadUndo(b) /\ undoFile[b] = UndoOf(b)
  PROVE  VerifyPasses
<1> DEFINE x == tip
           h == VerifyFloor
           m == Height[x] - h
           down(k) == GetAncestor(x, Height[x] - k)
           up(k) == GetAncestor(x, h + k)
<1>1. x \in Blocks /\ h \in 0 .. Height[x] /\ Height[x] \in Nat
  BY FloorFacts, TreeAssumption DEF ValidChains
<1>2. UndoAbove(x, h, undoFile)
  BY DEF UndoAbove
<1>3. [coins |-> coinsTip, good |-> TRUE] = Fine(x)
  BY DEF Fine
<1>4. x \in ValidChains /\ Fine(x) \in Checked
  BY <1>1, CoinsIn DEF Fine, Checked
<1> HIDE DEF h, x
<1>5. m \in Nat /\ h \in Nat
  BY <1>1
<1>6. ASSUME NEW k \in 1 .. m
      PROVE  /\ Down(x, h)[k] = down(k - 1) /\ Parent[Down(x, h)[k]] = down(k)
             /\ Up(x, h)[k] = up(k) /\ Parent[Up(x, h)[k]] = up(k - 1)
             /\ Down(x, h)[k] \in Blocks \ {Genesis} /\ Down(x, h)[k] \in ValidChains
             /\ Up(x, h)[k] \in Blocks \ {Genesis} /\ Up(x, h)[k] \in ValidChains
             /\ undoFile[Down(x, h)[k]] = UndoOf(Down(x, h)[k])
  <2>1. Height[x] + 1 - k = Height[x] - (k - 1)
    BY <1>1
  <2>2. /\ Down(x, h)[k] = GetAncestor(x, Height[x] + 1 - k) /\ Parent[Down(x, h)[k]] = down(k)
        /\ Up(x, h)[k] = up(k) /\ Parent[Up(x, h)[k]] = up(k - 1)
        /\ Down(x, h)[k] \in (Path[x] \cap Blocks) \ {Genesis} /\ Height[Down(x, h)[k]] > h
        /\ Up(x, h)[k] \in (Path[x] \cap Blocks) \ {Genesis}
    BY <1>1, WaysFacts
  <2>3. \A a \in Path[x] : a \in ValidChains
    BY <1>4, ValidFacts
  <2> QED BY <1>2, <2>1, <2>2, <2>3 DEF UndoAbove
<1>7. down(0) = x /\ down(m) = up(0) /\ up(m) = x
  <2>1. Height[x] - 0 = Height[x] /\ Height[x] - m = h + 0 /\ h + m = Height[x]
        /\ Height[x] \in 0 .. Height[x]
    BY <1>1
  <2> QED BY <1>1, <2>1, AncestorFacts
<1>8. PICK P \in [0 .. m -> Checked] :
        /\ P[0] = Fine(x) /\ P[m] = VerifiedDown(Fine(x), x, h, undoFile)
        /\ \A k \in 1 .. m : P[k] = Undone(P[k - 1], Down(x, h)[k], undoFile)
  BY <1>1, <1>2, <1>4, VerifiedDownSteps
<1> HIDE DEF m, down, up
<1>9. P[m] = Fine(down(m))
  <2> DEFINE Good == {k \in Nat : k \in 0 .. m => P[k] = Fine(down(k))}
  <2>1. 0 \in Good
    BY <1>7, <1>8
  <2>2. ASSUME NEW k \in Nat, k \in Good
        PROVE  k + 1 \in Good
    <3> SUFFICES ASSUME k + 1 \in 0 .. m
                 PROVE  P[k + 1] = Fine(down(k + 1))
      OBVIOUS
    <3>1. k \in 0 .. m /\ k + 1 \in 1 .. m /\ (k + 1) - 1 = k
      BY <1>5
    <3>2. P[k] = Fine(down(k))
      BY <2>2, <3>1
    <3> DEFINE b == Down(x, h)[k + 1]
    <3>3. /\ b = down(k) /\ Parent[b] = down(k + 1) /\ b \in Blocks \ {Genesis}
          /\ b \in ValidChains /\ undoFile[b] = UndoOf(b)
      BY <1>6, <3>1
    <3>4. P[k + 1] = Undone(P[k], b, undoFile)
      BY <1>8, <3>1
    <3> HIDE DEF b
    <3> QED BY <3>2, <3>3, <3>4, FineSteps
  <2> HIDE DEF Good
  <2>3. Nat \subseteq Good
    BY <2>1, <2>2, UpByOne
  <2>4. m \in Good /\ m \in 0 .. m
    BY <1>5, <2>3
  <2> QED BY <2>4 DEF Good
<1>10. Fine(up(0)) \in Checked
  BY <1>5, <1>7, <1>8, <1>9
<1>11. PICK Q \in [0 .. m -> Checked] :
         /\ Q[0] = Fine(up(0)) /\ Q[m] = VerifiedUp(Fine(up(0)), x, h)
         /\ \A k \in 1 .. m : Q[k] = Redone(Q[k - 1], Up(x, h)[k])
  BY <1>1, <1>4, <1>10, VerifiedUpSteps DEF m
<1>12. Q[m] = Fine(x)
  <2> DEFINE Good == {k \in Nat : k \in 0 .. m => Q[k] = Fine(up(k))}
  <2>1. 0 \in Good
    BY <1>11
  <2>2. ASSUME NEW k \in Nat, k \in Good
        PROVE  k + 1 \in Good
    <3> SUFFICES ASSUME k + 1 \in 0 .. m
                 PROVE  Q[k + 1] = Fine(up(k + 1))
      OBVIOUS
    <3>1. k \in 0 .. m /\ k + 1 \in 1 .. m /\ (k + 1) - 1 = k
      BY <1>5
    <3>2. Q[k] = Fine(up(k))
      BY <2>2, <3>1
    <3> DEFINE b == Up(x, h)[k + 1]
    <3>3. b = up(k + 1) /\ Parent[b] = up(k) /\ b \in Blocks \ {Genesis} /\ b \in ValidChains
      BY <1>6, <3>1
    <3>4. Q[k + 1] = Redone(Q[k], b)
      BY <1>11, <3>1
    <3> HIDE DEF b
    <3> QED BY <3>2, <3>3, <3>4, FineSteps
  <2> HIDE DEF Good
  <2>3. Nat \subseteq Good
    BY <2>1, <2>2, UpByOne
  <2>4. m \in Good /\ m \in 0 .. m
    BY <1>5, <2>3
  <2> QED BY <1>7, <2>4 DEF Good
<1>13. VerifiedUp(VerifiedDown([coins |-> coinsTip, good |-> TRUE], tip, VerifyFloor, undoFile),
                  tip, VerifyFloor) = Fine(x)
  BY <1>3, <1>7, <1>8, <1>9, <1>11, <1>12 DEF x, h
<1>14. Fine(x).good
  BY DEF Fine
<1> QED BY <1>13, <1>14, VerifyIs

-----------------------------------------------------------------------------
(* The coins.                                                              *)

\* Whatever the node or the database names is a chain of valid blocks.
ValidInv == {tip, bestBlock, dbBest} \cup Range(dbHeads) \subseteq ValidChains \cup {NoBlock}

\* Undo data are what ConnectBlock made of them.
UndoRightInv == \A b \in DOMAIN undoFile : b \in ValidChains \ {Genesis} /\ undoFile[b] = UndoOf(b)

\* On the chain in use, and on those the coins database names, undo data goes only with
\* the data, in memory and on disk.
WithUndo(b, data, undo) == (HeadPath(b) \ {Genesis}) \cap data \subseteq undo
WithUndoInv ==
  /\ WithUndo(bestBlock, haveData, haveUndo) /\ WithUndo(dbBest, dbHaveData, dbHaveUndo)
  /\ \A i \in DOMAIN dbHeads : WithUndo(dbHeads[i], dbHaveData, dbHaveUndo)

\* The coins database; a batch that is not the last leaves heads.
DatabaseInv ==
  /\ dbCoins \in CoinMaps
  /\ pc = "batch" => dbHeads # NoHeads
  /\ DatabaseBetweenHeads

\* The invariant.
CoinsInv == ValidInv /\ UndoRightInv /\ WithUndoInv /\ DatabaseInv /\ CoinsMatchBestBlock

\* Where no coins are loaded.
NoCoinsYet == Terminal \cup {"down", "replay"}

\* Blocks that are named are valid, and heads are two, the first a block.
LEMMA NamedBlocks ==
  ASSUME Inv, CoinsInv
  PROVE  /\ \A b \in {tip, bestBlock, dbBest} : b \in Blocks \cup {NoBlock}
                                                /\ (b # NoBlock => b \in ValidChains)
         /\ dbHeads # NoHeads =>
              \E x \in ValidChains : \E y \in ValidChains \cup {NoBlock} :
                dbHeads = <<x, y>> /\ dbHeads[1] = x /\ dbHeads[2] = y /\ x \in Blocks
         /\ NoBlock \notin ValidChains /\ ValidChains \subseteq Blocks
<1>1. NoBlock \notin ValidChains /\ ValidChains \subseteq Blocks
  BY TreeAssumption DEF ValidChains
<1>2. \A b \in {tip, bestBlock, dbBest} :
        b \in Blocks \cup {NoBlock} /\ (b # NoBlock => b \in ValidChains)
  BY <1>1 DEF CoinsInv, ValidInv
<1>3. ASSUME dbHeads # NoHeads
      PROVE  \E x \in ValidChains : \E y \in ValidChains \cup {NoBlock} :
               dbHeads = <<x, y>> /\ dbHeads[1] = x /\ dbHeads[2] = y /\ x \in Blocks
  <2>1. dbHeads \in Blocks \X (Blocks \cup {NoBlock})
    BY <1>3 DEF Inv, TypeOK
  <2>2. /\ dbHeads = <<dbHeads[1], dbHeads[2]>> /\ 1 \in DOMAIN dbHeads /\ 2 \in DOMAIN dbHeads
        /\ dbHeads[1] \in Blocks
    BY <2>1
  <2>3. {dbHeads[1], dbHeads[2]} \subseteq ValidChains \cup {NoBlock}
    BY <2>2 DEF CoinsInv, ValidInv, Range
  <2>4. dbHeads[1] \in ValidChains
    BY <2>2, <2>3, TreeAssumption
  <2> QED BY <2>2, <2>3, <2>4
<1> QED BY <1>1, <1>2, <1>3

\* Steps that leave the coins, the undo data and the flags alone.
LEMMA KeepsCoinsSame ==
  ASSUME Inv, CoinsInv, pc' # "corrupted",
         pc' \notin NoCoinsYet => pc \notin NoCoinsYet,
         pc' = "batch" => pc = "batch",
         tip' \in {tip, bestBlock},
         UNCHANGED <<coinsTip, bestBlock, haveData, haveUndo, undoFile>>,
         UNCHANGED <<dbHaveData, dbHaveUndo, dbCoins, dbBest, dbHeads>>
  PROVE  CoinsInv'
<1>1. ValidInv'
  BY DEF CoinsInv, ValidInv
<1>2. UndoRightInv'
  BY DEF CoinsInv, UndoRightInv
<1>3. WithUndoInv'
  BY DEF CoinsInv, WithUndoInv, WithUndo
<1>4. DatabaseInv'
  BY DEF CoinsInv, DatabaseInv, DatabaseBetweenHeads, NoHeads
<1>5. CoinsMatchBestBlock'
  BY DEF CoinsInv, CoinsMatchBestBlock, NoCoinsYet
<1> QED BY <1>1, <1>2, <1>3, <1>4, <1>5 DEF CoinsInv

\* AcceptBlock: the block is not on the chain in use.
LEMMA CoinsReceiveBlock ==
  ASSUME NEW b \in Blocks \ {Genesis}, Inv, CoinsInv, ReceiveBlock(b)
  PROVE  CoinsInv'
<1>1. ValidInv' /\ UndoRightInv'
  BY DEF CoinsInv, ValidInv, UndoRightInv, dbCoinVars, ReceiveBlock
<1>2. WithUndoInv'
  <2>1. tip = bestBlock /\ tip \in Blocks
    BY TreeAssumption DEF Inv, TypeOK, PlaceInv, Working, ReceiveBlock
  <2>2. b \notin HeadPath(bestBlock)
    BY <2>1, TreeAssumption DEF HeadPath, ReceiveBlock
  <2> QED BY <2>2 DEF CoinsInv, WithUndoInv, WithUndo, dbIndexVars, dbCoinVars, ReceiveBlock
<1>3. DatabaseInv'
  BY DEF CoinsInv, DatabaseInv, DatabaseBetweenHeads, dbCoinVars, ReceiveBlock
<1>4. CoinsMatchBestBlock'
  BY DEF CoinsInv, CoinsMatchBestBlock, ReceiveBlock
<1> QED BY <1>1, <1>2, <1>3, <1>4 DEF CoinsInv

\* ConnectTip: the block is valid on the coins of its parent, so the coins and the undo data
\* are the right ones.
LEMMA CoinsConnectTip ==
  ASSUME NEW b \in Blocks \ {Genesis}, Inv, CoinsInv, ConnectTip(b)
  PROVE  CoinsInv'
<1>1. /\ pc = "run" /\ Parent[b] = tip /\ ConnectBlock(coinsTip, b).valid
      /\ coinsTip' = ConnectBlock(coinsTip, b).coins
      /\ WriteUndoData(b, ConnectBlock(coinsTip, b).undo)
      /\ bestBlock' = b /\ pc' = "flush"
      /\ UNCHANGED <<tip, haveData, dbHaveData, dbHaveUndo, dbCoins, dbBest, dbHeads>>
  BY DEF ConnectTip, Goto, dbIndexVars, dbCoinVars
<1>2. tip = bestBlock /\ tip \in ValidChains /\ coinsTip = CoinsAfter[Parent[b]]
  <2>1. tip = bestBlock /\ tip # NoBlock
    BY <1>1 DEF Inv, PlaceInv, Working
  <2> QED BY <1>1, <2>1, NamedBlocks DEF CoinsInv, CoinsMatchBestBlock, Terminal
<1>3. b \in ValidChains
  BY <1>1, <1>2, ValidGrows
<1>4. coinsTip' = CoinsAfter[b] /\ ConnectBlock(coinsTip, b).undo = UndoOf(b)
  BY <1>1, <1>2, <1>3, ValidFacts DEF BlockRight, UndoOf
<1>5. ValidInv'
  BY <1>1, <1>3 DEF CoinsInv, ValidInv
<1>6. UndoRightInv'
  <2>1. CASE b \in haveUndo
    BY <1>1, <2>1 DEF CoinsInv, UndoRightInv, WriteUndoData
  <2>2. CASE b \notin haveUndo
    <3>1. undoFile' = [x \in DOMAIN undoFile \cup {b} |-> IF x = b THEN UndoOf(b) ELSE undoFile[x]]
      BY <1>1, <1>4, <2>2 DEF WriteUndoData
    <3>2. \A x \in DOMAIN undoFile \cup {b} :
            undoFile'[x] = IF x = b THEN UndoOf(b) ELSE undoFile[x]
      BY <3>1
    <3>3. DOMAIN undoFile' = DOMAIN undoFile \cup {b}
      BY <3>1
    <3> QED BY <1>3, <3>2, <3>3 DEF CoinsInv, UndoRightInv
  <2> QED BY <2>1, <2>2
<1>7. WithUndoInv'
  <2>1. HeadPath(b) \subseteq HeadPath(tip) \cup {b}
    BY <1>1, <1>2, NamedBlocks, ParentFacts, TreeAssumption DEF HeadPath
  <2>2. haveUndo' = haveUndo \cup {b}
    BY <1>1 DEF WriteUndoData
  <2>3. WithUndo(b, haveData, haveUndo \cup {b})
    BY <1>2, <2>1 DEF CoinsInv, WithUndoInv, WithUndo
  <2> QED BY <1>1, <2>2, <2>3 DEF CoinsInv, WithUndoInv, WithUndo
<1>8. DatabaseInv'
  BY <1>1 DEF CoinsInv, DatabaseInv, DatabaseBetweenHeads, NoHeads
<1>9. CoinsMatchBestBlock'
  BY <1>1, <1>4 DEF CoinsMatchBestBlock
<1> QED BY <1>5, <1>6, <1>7, <1>8, <1>9 DEF CoinsInv

\* DisconnectTip: the coins and the undo data agree, so it is clean.
LEMMA CoinsDisconnectTip ==
  ASSUME Inv, CoinsInv, DisconnectTip
  PROVE  CoinsInv'
<1> DEFINE r == DisconnectBlock(coinsTip, tip, undoFile[tip])
<1>1. /\ pc = "run" /\ tip # Genesis /\ CanReadUndo(tip)
      /\ coinsTip' = IF r.clean THEN r.coins ELSE coinsTip
      /\ bestBlock' = IF r.clean THEN Parent[tip] ELSE bestBlock
      /\ pc' = IF r.clean THEN "flush" ELSE "corrupted"
      /\ UNCHANGED <<tip, haveData, haveUndo, undoFile, dbHaveData, dbHaveUndo>>
      /\ UNCHANGED <<dbCoins, dbBest, dbHeads>>
  BY DEF DisconnectTip, Goto, memIndexVars, fileVars, dbIndexVars, dbCoinVars
<1>2. tip = bestBlock /\ tip \in ValidChains /\ coinsTip = CoinsAfter[tip] /\ tip \in Blocks
  <2>1. tip = bestBlock /\ tip # NoBlock
    BY <1>1 DEF Inv, PlaceInv, Working
  <2> QED BY <1>1, <2>1, NamedBlocks DEF CoinsInv, CoinsMatchBestBlock, Terminal
<1>3. undoFile[tip] = UndoOf(tip)
  BY <1>1 DEF CoinsInv, UndoRightInv, CanReadUndo
<1>4. BlockRight(tip) /\ Parent[tip] \in ValidChains /\ tip \in Blocks \ {Genesis}
  BY <1>1, <1>2, ValidFacts
<1>5. r.clean /\ r.coins = CoinsAfter[Parent[tip]]
  <2>1. coinsTip \in CoinMaps
    BY <1>2, CoinsIn
  <2> QED BY <1>2, <1>3, <1>4, <2>1, DisconnectRight
<1> HIDE DEF r
<1>6. coinsTip' = CoinsAfter[Parent[tip]] /\ bestBlock' = Parent[tip] /\ pc' = "flush"
  BY <1>1, <1>5
<1>7. ValidInv'
  BY <1>1, <1>4, <1>6 DEF CoinsInv, ValidInv
<1>8. UndoRightInv'
  BY <1>1 DEF CoinsInv, UndoRightInv
<1>9. WithUndoInv'
  <2>1. HeadPath(Parent[tip]) \subseteq HeadPath(tip)
    BY <1>4, ParentFacts, TreeAssumption DEF HeadPath
  <2> QED BY <1>1, <1>2, <1>6, <2>1 DEF CoinsInv, WithUndoInv, WithUndo
<1>10. DatabaseInv'
  BY <1>1, <1>6 DEF CoinsInv, DatabaseInv, DatabaseBetweenHeads, NoHeads
<1>11. CoinsMatchBestBlock'
  BY <1>6 DEF CoinsMatchBestBlock
<1> QED BY <1>7, <1>8, <1>9, <1>10, <1>11 DEF CoinsInv

\* FlushStateToDisk up to the coins, and a stop: no coin changes.
LEMMA CoinsFlushSteps ==
  ASSUME Inv, CoinsInv,
         SetTip \/ NoFlush \/ PeriodicWrite \/ FullFlush \/ FlushBlockFiles \/ ReplayFails
  PROVE  CoinsInv'
<1>1. CASE SetTip
  <2>1. /\ pc = "settip" /\ pc' = "run" /\ tip' = bestBlock
        /\ UNCHANGED <<coinsTip, bestBlock, haveData, haveUndo, undoFile>>
        /\ UNCHANGED <<dbHaveData, dbHaveUndo, dbCoins, dbBest, dbHeads>>
    BY <1>1 DEF SetTip, Goto, memIndexVars, fileVars, dbIndexVars, dbCoinVars
  <2> QED BY <2>1, KeepsCoinsSame DEF NoCoinsYet, Terminal
<1>2. CASE NoFlush
  <2>1. /\ pc = "flush" /\ pc' = "settip" /\ tip' = tip
        /\ UNCHANGED <<coinsTip, bestBlock, haveData, haveUndo, undoFile>>
        /\ UNCHANGED <<dbHaveData, dbHaveUndo, dbCoins, dbBest, dbHeads>>
    BY <1>2 DEF Inv, PlaceInv, NoFlush, Goto, memVars, memIndexVars, fileVars, dbIndexVars,
       dbCoinVars
  <2> QED BY <2>1, KeepsCoinsSame DEF NoCoinsYet, Terminal
<1>3. CASE PeriodicWrite \/ FullFlush
  <2>1. /\ pc \in {"run", "flush"} /\ pc' = "files" /\ tip' = tip
        /\ UNCHANGED <<coinsTip, bestBlock, haveData, haveUndo, undoFile>>
        /\ UNCHANGED <<dbHaveData, dbHaveUndo, dbCoins, dbBest, dbHeads>>
    BY <1>3 DEF PeriodicWrite, FullFlush, FlushStart, Goto, memVars, memIndexVars, fileVars,
       dbIndexVars, dbCoinVars
  <2> QED BY <2>1, KeepsCoinsSame DEF NoCoinsYet, Terminal
<1>4. CASE FlushBlockFiles
  <2>1. /\ pc = "files" /\ pc' = "index" /\ tip' = tip
        /\ UNCHANGED <<coinsTip, bestBlock, haveData, haveUndo, undoFile>>
        /\ UNCHANGED <<dbHaveData, dbHaveUndo, dbCoins, dbBest, dbHeads>>
    BY <1>4 DEF FlushBlockFiles, Goto, memVars, memIndexVars, dbIndexVars, dbCoinVars
  <2> QED BY <2>1, KeepsCoinsSame DEF NoCoinsYet, Terminal
<1>5. CASE ReplayFails
  <2>1. /\ pc' = "refused" /\ tip' = tip
        /\ UNCHANGED <<coinsTip, bestBlock, haveData, haveUndo, undoFile>>
        /\ UNCHANGED <<dbHaveData, dbHaveUndo, dbCoins, dbBest, dbHeads>>
    BY <1>5 DEF ReplayFails, Goto, memVars, memIndexVars, fileVars, dbIndexVars, dbCoinVars
  <2> QED BY <2>1, KeepsCoinsSame DEF NoCoinsYet, Terminal
<1> QED BY <1>1, <1>2, <1>3, <1>4, <1>5

\* FindFilesToPrune takes the undo data where it takes the data.
LEMMA CoinsPruneFlush ==
  ASSUME NEW h \in {Height[b] : b \in Blocks}, Inv, CoinsInv, PruneFlush(h)
  PROVE  CoinsInv'
<1>1. /\ pc \in {"run", "flush"} /\ pc' = "files"
      /\ haveData' = haveData \ filesToPrune' /\ haveUndo' = haveUndo \ filesToPrune'
      /\ UNCHANGED <<tip, coinsTip, bestBlock, undoFile>>
      /\ UNCHANGED <<dbHaveData, dbHaveUndo, dbCoins, dbBest, dbHeads>>
  BY DEF PruneFlush, Goto, fileVars, dbIndexVars, dbCoinVars
<1>2. ValidInv' /\ UndoRightInv'
  BY <1>1 DEF CoinsInv, ValidInv, UndoRightInv
<1>3. WithUndoInv'
  BY <1>1 DEF CoinsInv, WithUndoInv, WithUndo
<1>4. DatabaseInv'
  BY <1>1 DEF CoinsInv, DatabaseInv, DatabaseBetweenHeads, NoHeads
<1>5. CoinsMatchBestBlock'
  BY <1>1 DEF CoinsInv, CoinsMatchBestBlock, Terminal
<1> QED BY <1>2, <1>3, <1>4, <1>5 DEF CoinsInv

\* WriteBlockIndexDB: the best block of the database is undone with what memory says is there.
LEMMA CoinsWriteBlockIndexDB ==
  ASSUME Inv, CoinsInv, WriteBlockIndexDB
  PROVE  CoinsInv'
<1>1. /\ pc = "index" /\ dbHaveData' = haveData /\ dbHaveUndo' = haveUndo
      /\ pc' = IF filesToPrune # {} THEN "unlink" ELSE IF fullFlush THEN "coins" ELSE returnTo
      /\ UNCHANGED <<tip, coinsTip, bestBlock, haveData, haveUndo, undoFile>>
      /\ UNCHANGED <<dbCoins, dbBest, dbHeads>>
  BY DEF WriteBlockIndexDB, Goto, memVars, memIndexVars, fileVars, dbCoinVars
<1>2. dbHeads = NoHeads /\ returnTo \in {"run", "settip"} /\ bestBlock \in Blocks
  BY <1>1, NamedBlocks DEF Inv, TypeOK, PlaceInv, Terminal, Working
<1>3. ValidInv' /\ UndoRightInv'
  BY <1>1 DEF CoinsInv, ValidInv, UndoRightInv
<1>4. WithUndoInv'
  <2>1. HeadPath(bestBlock) = Path[bestBlock]
    BY <1>2, TreeAssumption DEF HeadPath
  <2>2. \A b \in HeadPath(dbBest) \ Path[bestBlock] : b \in haveData => b \in haveUndo
    BY <1>1, <1>2 DEF Inv, UndoInv
  <2>3. WithUndo(dbBest, haveData, haveUndo)
    BY <2>1, <2>2 DEF CoinsInv, WithUndoInv, WithUndo
  <2> QED BY <1>1, <1>2, <2>3 DEF CoinsInv, WithUndoInv, NoHeads, WithUndo
<1>5. DatabaseInv'
  BY <1>1, <1>2 DEF CoinsInv, DatabaseInv, DatabaseBetweenHeads, NoHeads
<1>6. CoinsMatchBestBlock'
  BY <1>1, <1>2 DEF CoinsInv, CoinsMatchBestBlock, Terminal
<1> QED BY <1>3, <1>4, <1>5, <1>6 DEF CoinsInv

\* UnlinkPrunedFiles takes undo data, and changes none.
LEMMA CoinsUnlink ==
  ASSUME Inv, CoinsInv, UnlinkPrunedFiles
  PROVE  CoinsInv'
<1>1. /\ pc = "unlink" /\ pc' = "coins"
      /\ undoFile' = Restrict(undoFile, DOMAIN undoFile \ filesToPrune)
      /\ UNCHANGED <<tip, coinsTip, bestBlock, haveData, haveUndo>>
      /\ UNCHANGED <<dbHaveData, dbHaveUndo, dbCoins, dbBest, dbHeads>>
  BY DEF UnlinkPrunedFiles, Goto, memVars, memIndexVars, dbIndexVars, dbCoinVars
<1>2. UndoRightInv'
  BY <1>1 DEF CoinsInv, UndoRightInv, Restrict
<1>3. ValidInv' /\ WithUndoInv'
  BY <1>1 DEF CoinsInv, ValidInv, WithUndoInv, WithUndo
<1>4. DatabaseInv'
  BY <1>1 DEF CoinsInv, DatabaseInv, DatabaseBetweenHeads, NoHeads
<1>5. CoinsMatchBestBlock'
  BY <1>1 DEF CoinsInv, CoinsMatchBestBlock, Terminal
<1> QED BY <1>2, <1>3, <1>4, <1>5 DEF CoinsInv

\* While the coins are written the index database is that of memory.
LEMMA WritingFacts ==
  ASSUME Inv, CoinsInv, pc \in {"coins", "batch"}
  PROVE  /\ bestBlock \in Blocks /\ bestBlock \in ValidChains /\ coinsTip = CoinsAfter[bestBlock]
         /\ coinsTip \in CoinMaps /\ WithUndo(bestBlock, dbHaveData, dbHaveUndo)
         /\ dbHeads # NoHeads => bestBlock = dbHeads[1]
<1>1. bestBlock \in Blocks /\ bestBlock \in ValidChains
  BY NamedBlocks DEF Inv, PlaceInv, Working
<1>2. coinsTip = CoinsAfter[bestBlock]
  BY DEF CoinsInv, CoinsMatchBestBlock, Terminal
<1>3. dbHaveData = haveData /\ dbHaveUndo = haveUndo
  BY DEF Inv, FilesInv
<1> QED BY <1>1, <1>2, <1>3, CoinsIn DEF CoinsInv, WithUndoInv, Inv, PlaceInv

\* The first batch: each coin is as the best block of the database has it, or the one of memory.
LEMMA CoinsFirstBatch ==
  ASSUME NEW S \in SUBSET Dirty, Inv, CoinsInv, FirstBatch(S)
  PROVE  CoinsInv'
<1>1. /\ pc = "coins" /\ pc' = "batch" /\ dbBest' = NoBlock /\ dbHeads' = <<bestBlock, OldTip>>
      /\ dbCoins' = [o \in Outs |-> IF o \in S THEN coinsTip[o] ELSE dbCoins[o]]
      /\ UNCHANGED <<tip, coinsTip, bestBlock, haveData, haveUndo, undoFile>>
      /\ UNCHANGED <<dbHaveData, dbHaveUndo>>
  BY DEF FirstBatch, WriteBatch, HeadsInBatch, Goto, memVars, memIndexVars, fileVars, dbIndexVars
<1>2. /\ bestBlock \in ValidChains /\ coinsTip = CoinsAfter[bestBlock] /\ coinsTip \in CoinMaps
      /\ WithUndo(bestBlock, dbHaveData, dbHaveUndo) /\ dbCoins \in CoinMaps
      /\ dbHeads # NoHeads => bestBlock = dbHeads[1]
  BY <1>1, WritingFacts DEF CoinsInv, DatabaseInv
<1>3. /\ OldTip \in ValidChains \cup {NoBlock} /\ WithUndo(OldTip, dbHaveData, dbHaveUndo)
      /\ \A o \in Outs : dbCoins[o] \in {coinsTip[o], CoinsAfter[OldTip][o]}
  <2>1. CASE dbHeads = NoHeads
    <3>1. OldTip = dbBest /\ dbCoins = CoinsAfter[dbBest]
      BY <2>1 DEF OldTip, CoinsInv, DatabaseInv, DatabaseBetweenHeads
    <3> QED BY <3>1, NamedBlocks DEF CoinsInv, WithUndoInv
  <2>2. CASE dbHeads # NoHeads
    <3>1. OldTip = dbHeads[2] /\ bestBlock = dbHeads[1]
      BY <1>2, <2>2 DEF OldTip
    <3>2. dbHeads[2] \in ValidChains \cup {NoBlock} /\ 2 \in DOMAIN dbHeads
      BY <2>2, NamedBlocks
    <3>3. \A o \in Outs : dbCoins[o] \in {CoinsAfter[dbHeads[1]][o], CoinsAfter[dbHeads[2]][o]}
      BY <2>2 DEF CoinsInv, DatabaseInv, DatabaseBetweenHeads
    <3> QED BY <1>2, <3>1, <3>2, <3>3 DEF CoinsInv, WithUndoInv
  <2> QED BY <2>1, <2>2
<1> HIDE DEF OldTip
<1>4. /\ dbHeads' # NoHeads /\ dbHeads'[1] = bestBlock /\ dbHeads'[2] = OldTip
      /\ DOMAIN dbHeads' = {1, 2}
  BY <1>1 DEF NoHeads
<1>5. ValidInv'
  BY <1>1, <1>2, <1>3, <1>4 DEF CoinsInv, ValidInv, Range
<1>6. UndoRightInv'
  BY <1>1 DEF CoinsInv, UndoRightInv
<1>7. WithUndoInv'
  <2>1. WithUndo(NoBlock, dbHaveData, dbHaveUndo)
    BY DEF WithUndo, HeadPath
  <2>2. WithUndo(bestBlock, haveData, haveUndo)
    BY DEF CoinsInv, WithUndoInv
  <2>3. \A i \in DOMAIN dbHeads' : dbHeads'[i] \in {bestBlock, OldTip}
    BY <1>4
  <2>4. \A i \in DOMAIN dbHeads' : WithUndo(dbHeads'[i], dbHaveData, dbHaveUndo)
    BY <1>2, <1>3, <2>3
  <2> QED BY <1>1, <2>1, <2>2, <2>4 DEF WithUndoInv, WithUndo
<1>8. DatabaseInv'
  <2>1. dbCoins' \in CoinMaps
    BY <1>1, <1>2 DEF CoinMaps
  <2>2. \A o \in Outs : dbCoins'[o] \in {CoinsAfter[bestBlock][o], CoinsAfter[OldTip][o]}
    BY <1>1, <1>2, <1>3
  <2> QED BY <1>4, <2>1, <2>2 DEF DatabaseInv, DatabaseBetweenHeads
<1>9. CoinsMatchBestBlock'
  BY <1>1, <1>2 DEF CoinsMatchBestBlock
<1> QED BY <1>5, <1>6, <1>7, <1>8, <1>9 DEF CoinsInv

\* A further batch takes more coins of memory.
LEMMA CoinsNextBatch ==
  ASSUME NEW S \in SUBSET Dirty, Inv, CoinsInv, NextBatch(S)
  PROVE  CoinsInv'
<1>1. /\ pc = "batch" /\ pc' = "batch"
      /\ dbCoins' = [o \in Outs |-> IF o \in S THEN coinsTip[o] ELSE dbCoins[o]]
      /\ UNCHANGED <<tip, coinsTip, bestBlock, haveData, haveUndo, undoFile>>
      /\ UNCHANGED <<dbHaveData, dbHaveUndo, dbBest, dbHeads>>
  BY DEF NextBatch, WriteBatch, memVars, memIndexVars, fileVars, dbIndexVars
<1>2. /\ coinsTip = CoinsAfter[bestBlock] /\ coinsTip \in CoinMaps /\ dbCoins \in CoinMaps
      /\ dbHeads # NoHeads /\ bestBlock = dbHeads[1]
      /\ \A o \in Outs : dbCoins[o] \in {CoinsAfter[dbHeads[1]][o], CoinsAfter[dbHeads[2]][o]}
  BY <1>1, WritingFacts DEF CoinsInv, DatabaseInv, DatabaseBetweenHeads
<1>3. ValidInv' /\ UndoRightInv' /\ WithUndoInv'
  BY <1>1 DEF CoinsInv, ValidInv, UndoRightInv, WithUndoInv, WithUndo
<1>4. DatabaseInv'
  <2>1. dbCoins' \in CoinMaps
    BY <1>1, <1>2 DEF CoinMaps
  <2>2. \A o \in Outs : dbCoins'[o] \in {CoinsAfter[dbHeads[1]][o], CoinsAfter[dbHeads[2]][o]}
    BY <1>1, <1>2
  <2> QED BY <1>1, <1>2, <2>1, <2>2 DEF DatabaseInv, DatabaseBetweenHeads, NoHeads
<1>5. CoinsMatchBestBlock'
  BY <1>1, <1>2 DEF CoinsMatchBestBlock
<1> QED BY <1>3, <1>4, <1>5 DEF CoinsInv

\* The last batch: the database has the coins of memory and names their block.
LEMMA CoinsLastBatch ==
  ASSUME Inv, CoinsInv, LastBatch
  PROVE  CoinsInv'
<1>1. /\ pc \in {"coins", "batch"} /\ pc' = returnTo /\ dbCoins' = coinsTip
      /\ dbBest' = bestBlock /\ dbHeads' = NoHeads
      /\ UNCHANGED <<tip, coinsTip, bestBlock, haveData, haveUndo, undoFile>>
      /\ UNCHANGED <<dbHaveData, dbHaveUndo>>
  BY DEF LastBatch, Goto, memVars, memIndexVars, fileVars, dbIndexVars
<1>2. /\ bestBlock \in ValidChains /\ coinsTip = CoinsAfter[bestBlock] /\ coinsTip \in CoinMaps
      /\ WithUndo(bestBlock, dbHaveData, dbHaveUndo) /\ returnTo \in {"run", "settip", "load"}
  BY <1>1, WritingFacts DEF Inv, TypeOK
<1>3. Range(dbHeads') = {} /\ DOMAIN dbHeads' = {}
  BY <1>1 DEF NoHeads, Range
<1>4. ValidInv'
  BY <1>1, <1>2, <1>3 DEF CoinsInv, ValidInv
<1>5. UndoRightInv' /\ WithUndoInv'
  BY <1>1, <1>2, <1>3 DEF CoinsInv, UndoRightInv, WithUndoInv, WithUndo
<1>6. DatabaseInv'
  BY <1>1, <1>2 DEF DatabaseInv, DatabaseBetweenHeads, NoHeads
<1>7. CoinsMatchBestBlock'
  BY <1>1, <1>2 DEF CoinsMatchBestBlock
<1> QED BY <1>4, <1>5, <1>6, <1>7 DEF CoinsInv

\* A crash takes undo data that were not flushed, and everything in memory.
LEMMA CoinsCrash ==
  ASSUME Inv, CoinsInv, Crash
  PROVE  CoinsInv'
<1>1. /\ pc' = "down" /\ tip' = NoBlock /\ bestBlock' = NoBlock
      /\ undoFile' = Restrict(undoFile, syncedUndo) /\ haveData' = {} /\ haveUndo' = {}
      /\ UNCHANGED <<dbHaveData, dbHaveUndo, dbCoins, dbBest, dbHeads>>
  BY DEF Crash, Goto, dbIndexVars, dbCoinVars
<1>2. syncedUndo \subseteq DOMAIN undoFile
  BY DEF Inv, TypeOK
<1>3. UndoRightInv'
  BY <1>1, <1>2 DEF CoinsInv, UndoRightInv, Restrict
<1>4. ValidInv' /\ WithUndoInv'
  BY <1>1 DEF CoinsInv, ValidInv, WithUndoInv, WithUndo
<1>5. DatabaseInv'
  BY <1>1 DEF CoinsInv, DatabaseInv, DatabaseBetweenHeads, NoHeads
<1>6. CoinsMatchBestBlock'
  BY <1>1 DEF CoinsMatchBestBlock
<1> QED BY <1>3, <1>4, <1>5, <1>6 DEF CoinsInv

\* LoadGenesisBlock and LoadBlockIndex load no coins.
LEMMA CoinsLoad ==
  ASSUME Inv, CoinsInv, FirstStart \/ LoadBlockIndex
  PROVE  CoinsInv'
<1>1. /\ pc = "down" /\ pc' \in {"replay", "refused"} /\ bestBlock = NoBlock
      /\ UNCHANGED <<tip, coinsTip, bestBlock, dbHaveData, dbHaveUndo, dbCoins, dbBest, dbHeads>>
  BY DEF FirstStart, LoadBlockIndex, Goto, dbIndexVars, dbCoinVars, Inv, PlaceInv
<1>2. UndoRightInv'
  <2>1. CASE FirstStart
    <3>1. DOMAIN undoFile' = {}
      BY <2>1 DEF FirstStart
    <3> QED BY <3>1 DEF UndoRightInv
  <2>2. CASE LoadBlockIndex
    BY <2>2 DEF LoadBlockIndex, CoinsInv, UndoRightInv, Restrict
  <2> QED BY <2>1, <2>2
<1>3. WithUndoInv'
  <2>1. WithUndo(NoBlock, haveData', haveUndo')
    BY DEF WithUndo, HeadPath
  <2> QED BY <1>1, <2>1 DEF CoinsInv, WithUndoInv, WithUndo
<1>4. ValidInv'
  BY <1>1 DEF CoinsInv, ValidInv
<1>5. DatabaseInv'
  BY <1>1 DEF CoinsInv, DatabaseInv, DatabaseBetweenHeads, NoHeads
<1>6. CoinsMatchBestBlock'
  BY <1>1 DEF CoinsMatchBestBlock, Terminal
<1> QED BY <1>2, <1>3, <1>4, <1>5, <1>6 DEF CoinsInv

\* With no heads the coins of the database are those of its best block.
LEMMA CoinsNothingToReplay ==
  ASSUME Inv, CoinsInv, NothingToReplay
  PROVE  CoinsInv'
<1>1. /\ pc = "replay" /\ pc' = "load" /\ dbHeads = NoHeads
      /\ coinsTip' = dbCoins /\ bestBlock' = dbBest
      /\ UNCHANGED <<tip, haveData, haveUndo, undoFile>>
      /\ UNCHANGED <<dbIndex, dbHaveData, dbHaveUndo, dbCoins, dbBest, dbHeads>>
  BY DEF NothingToReplay, Goto, memIndexVars, fileVars, dbIndexVars, dbCoinVars
<1>2. dbCoins = CoinsAfter[dbBest]
  BY <1>1 DEF CoinsInv, DatabaseInv, DatabaseBetweenHeads
<1>3. ValidInv' /\ UndoRightInv'
  BY <1>1 DEF CoinsInv, ValidInv, UndoRightInv
<1>4. WithUndo(dbBest, haveData, haveUndo)
  <2>1. CASE dbIndex = {}
    <3>1. dbBest = NoBlock
      <4>1. dbBest # NoBlock => dbBest \in Path[dbBest]
        BY NamedBlocks, ChainFacts
      <4> QED BY <2>1, <4>1 DEF Inv, IndexInv, Within
    <3> QED BY <3>1 DEF WithUndo, HeadPath
  <2>2. CASE dbIndex # {}
    BY <1>1, <2>2 DEF Inv, FilesInv, CoinsInv, WithUndoInv
  <2> QED BY <2>1, <2>2
<1>5. WithUndoInv'
  BY <1>1, <1>4 DEF CoinsInv, WithUndoInv, WithUndo
<1>6. DatabaseInv'
  BY <1>1 DEF CoinsInv, DatabaseInv, DatabaseBetweenHeads, NoHeads
<1>7. CoinsMatchBestBlock'
  BY <1>1, <1>2 DEF CoinsMatchBestBlock
<1> QED BY <1>3, <1>5, <1>6, <1>7 DEF CoinsInv

\* ReplayBlocks makes the coins of the first head of whatever was written.
LEMMA CoinsReplayBlocks ==
  ASSUME Inv, CoinsInv, ReplayBlocks
  PROVE  CoinsInv'
<1>1. /\ pc = "replay" /\ pc' = "coins" /\ dbHeads # NoHeads /\ ReplayReadable
      /\ coinsTip' = ReplayedCoins /\ bestBlock' = dbHeads[1]
      /\ UNCHANGED <<tip, haveData, haveUndo, undoFile>>
      /\ UNCHANGED <<dbHaveData, dbHaveUndo, dbCoins, dbBest, dbHeads>>
  BY DEF ReplayBlocks, Goto, memIndexVars, fileVars, dbIndexVars, dbCoinVars
<1>2. PICK x \in ValidChains : \E y \in ValidChains \cup {NoBlock} :
        dbHeads = <<x, y>> /\ dbHeads[1] = x /\ dbHeads[2] = y /\ x \in Blocks
  BY <1>1, NamedBlocks
<1>3. PICK y \in ValidChains \cup {NoBlock} :
        dbHeads = <<x, y>> /\ dbHeads[1] = x /\ dbHeads[2] = y /\ x \in Blocks
  BY <1>2
<1>4. Between(dbCoins, CoinsAfter[x], CoinsAfter[y]) /\ dbCoins \in CoinMaps
  BY <1>1, <1>3 DEF CoinsInv, DatabaseInv, DatabaseBetweenHeads, Between
<1>5. \A b \in Rollbacks : undoFile[b] = UndoOf(b)
  BY <1>1 DEF ReplayReadable, CanReadUndo, CoinsInv, UndoRightInv
<1>6. coinsTip' = CoinsAfter[x] /\ bestBlock' = x
  BY <1>1, <1>3, <1>4, <1>5, ReplayRight
<1>7. ValidInv' /\ UndoRightInv'
  BY <1>1, <1>6 DEF CoinsInv, ValidInv, UndoRightInv
<1>8. WithUndo(x, haveData, haveUndo)
  <2>1. dbIndex # {}
    <3>1. Within(x, dbIndex) /\ x # NoBlock /\ x \in Path[x]
      BY <1>3, TreeAssumption, ChainFacts DEF Inv, IndexInv
    <3> QED BY <3>1 DEF Within
  <2>2. dbHaveData = haveData /\ dbHaveUndo = haveUndo
    BY <1>1, <2>1 DEF Inv, FilesInv
  <2> QED BY <1>3, <2>2 DEF CoinsInv, WithUndoInv
<1>9. WithUndoInv'
  BY <1>1, <1>6, <1>8 DEF CoinsInv, WithUndoInv, WithUndo
<1>10. DatabaseInv'
  BY <1>1 DEF CoinsInv, DatabaseInv, DatabaseBetweenHeads, NoHeads
<1>11. CoinsMatchBestBlock'
  BY <1>1, <1>6 DEF CoinsMatchBestBlock
<1> QED BY <1>7, <1>9, <1>10, <1>11 DEF CoinsInv

\* LoadChainTip: an empty database is that of the genesis block.
LEMMA CoinsLoadChainTip ==
  ASSUME Inv, CoinsInv, LoadChainTip
  PROVE  CoinsInv'
<1>1. /\ pc = "load" /\ pc' \in {"refused", "verify"}
      /\ bestBlock' = IF bestBlock = NoBlock THEN Genesis ELSE bestBlock
      /\ tip' = bestBlock'
      /\ UNCHANGED <<coinsTip, haveData, haveUndo, undoFile>>
      /\ UNCHANGED <<dbHaveData, dbHaveUndo, dbCoins, dbBest, dbHeads>>
  BY DEF LoadChainTip, Goto, memIndexVars, fileVars, dbIndexVars, dbCoinVars
<1>2. HeadPath(bestBlock') = HeadPath(bestBlock) /\ CoinsAfter[bestBlock'] = CoinsAfter[bestBlock]
  BY <1>1, GenesisFacts, TreeAssumption DEF HeadPath
<1>3. ValidInv'
  BY <1>1, GenesisFacts DEF CoinsInv, ValidInv
<1>4. UndoRightInv' /\ WithUndoInv'
  BY <1>1, <1>2 DEF CoinsInv, UndoRightInv, WithUndoInv, WithUndo
<1>5. DatabaseInv'
  BY <1>1 DEF CoinsInv, DatabaseInv, DatabaseBetweenHeads, NoHeads
<1>6. CoinsMatchBestBlock'
  BY <1>1, <1>2 DEF CoinsInv, CoinsMatchBestBlock, Terminal
<1> QED BY <1>3, <1>4, <1>5, <1>6 DEF CoinsInv

\* VerifyDB finds nothing wrong: what it reads is there, and the coins are right.
LEMMA CoinsVerifyDB ==
  ASSUME Inv, CoinsInv, VerifyDB
  PROVE  CoinsInv'
<1>1. pc = "verify" /\ pc' = IF VerifyPasses THEN "run" ELSE "corrupted"
  BY DEF VerifyDB, Goto
<1>2. /\ tip = bestBlock /\ tip \in ValidChains /\ tip \in Blocks
      /\ coinsTip = CoinsAfter[tip] /\ HeadPath(tip) = Path[tip]
  <2>1. tip = bestBlock /\ bestBlock # NoBlock
    BY <1>1 DEF Inv, PlaceInv
  <2>2. tip \in ValidChains /\ tip \in Blocks
    BY <2>1, NamedBlocks
  <2> QED BY <1>1, <2>1, <2>2, TreeAssumption DEF CoinsInv, CoinsMatchBestBlock, Terminal, HeadPath
<1>3. ASSUME NEW b \in Path[tip], Height[b] > VerifyFloor
      PROVE  CanReadBlock(b) /\ CanReadUndo(b) /\ undoFile[b] = UndoOf(b)
  <2>1. b # Genesis
    <3>1. VerifyFloor \in 0 .. Height[tip]
      BY <1>2, FloorFacts
    <3> QED BY <1>3, <3>1, TreeAssumption
  <2>2. b \in haveData
    <3>1. CASE pruneMode
      BY <1>2, <1>3, <3>1, FloorFacts
    <3>2. CASE ~pruneMode
      BY <1>2, <2>1, <3>2 DEF Inv, KeptInv
    <3> QED BY <3>1, <3>2 DEF Inv, TypeOK
  <2>3. b \in haveUndo
    BY <1>2, <2>1, <2>2 DEF CoinsInv, WithUndoInv, WithUndo
  <2>4. b \in dataFile /\ b \in DOMAIN undoFile
    BY <2>2, <2>3 DEF Inv, FilesInv
  <2> QED BY <2>2, <2>3, <2>4 DEF CanReadBlock, CanReadUndo, CoinsInv, UndoRightInv
<1>4. VerifyPasses
  BY <1>2, <1>3, VerifyRight
<1>5. /\ pc' = "run" /\ tip' = tip
      /\ UNCHANGED <<coinsTip, bestBlock, haveData, haveUndo, undoFile>>
      /\ UNCHANGED <<dbHaveData, dbHaveUndo, dbCoins, dbBest, dbHeads>>
  BY <1>1, <1>4 DEF VerifyDB, memVars, memIndexVars, fileVars, dbIndexVars, dbCoinVars
<1> QED BY <1>1, <1>5, KeepsCoinsSame DEF NoCoinsYet, Terminal

\* Nothing happens.
LEMMA CoinsStutter ==
  ASSUME Inv, CoinsInv, UNCHANGED vars
  PROVE  CoinsInv'
<1>1. /\ UNCHANGED <<pc, tip, coinsTip, bestBlock, haveData, haveUndo, undoFile>>
      /\ UNCHANGED <<dbHaveData, dbHaveUndo, dbCoins, dbBest, dbHeads>>
  BY DEF vars, memVars, memIndexVars, fileVars, dbIndexVars, dbCoinVars
<1>2. pc # "corrupted"
  BY DEF CoinsInv, CoinsMatchBestBlock
<1> QED BY <1>1, <1>2, KeepsCoinsSame

\* The first start has no coins and no undo data.
LEMMA InitCoinsInv == Init => CoinsInv
<1> SUFFICES ASSUME Init
             PROVE  CoinsInv
  OBVIOUS
<1>1. ValidInv
  BY GenesisFacts DEF Init, ValidInv, NoHeads, Range
<1>2. UndoRightInv
  <2>1. DOMAIN undoFile = {}
    BY DEF Init
  <2> QED BY <2>1 DEF UndoRightInv
<1>3. WithUndoInv
  BY TreeAssumption DEF Init, WithUndoInv, WithUndo, HeadPath, NoHeads
<1>4. NoCoins \in CoinMaps
  BY DEF NoCoins, CoinMaps, Spent
<1>5. DatabaseInv
  BY <1>4, GenesisFacts DEF Init, DatabaseInv, DatabaseBetweenHeads
<1>6. CoinsMatchBestBlock
  BY GenesisFacts DEF Init, CoinsMatchBestBlock
<1> QED BY <1>1, <1>2, <1>3, <1>5, <1>6 DEF CoinsInv

\* Every step keeps the coins right.
LEMMA KeepsCoinsInv == Inv /\ CoinsInv /\ [Next]_vars => CoinsInv'
<1> SUFFICES ASSUME Inv, CoinsInv, [Next]_vars
             PROVE  CoinsInv'
  OBVIOUS
<1>1. CASE \E b \in Blocks \ {Genesis} : ReceiveBlock(b) \/ ConnectTip(b)
  BY <1>1, CoinsReceiveBlock, CoinsConnectTip
<1>2. CASE DisconnectTip
  BY <1>2, CoinsDisconnectTip
<1>3. CASE SetTip \/ NoFlush \/ PeriodicWrite \/ FullFlush \/ FlushBlockFiles \/ ReplayFails
  BY <1>3, CoinsFlushSteps
<1>4. CASE \E h \in {Height[b] : b \in Blocks} : PruneFlush(h)
  BY <1>4, CoinsPruneFlush
<1>5. CASE WriteBlockIndexDB \/ UnlinkPrunedFiles
  BY <1>5, CoinsWriteBlockIndexDB, CoinsUnlink
<1>6. CASE (\E S \in SUBSET Dirty : FirstBatch(S) \/ NextBatch(S)) \/ LastBatch
  BY <1>6, CoinsFirstBatch, CoinsNextBatch, CoinsLastBatch
<1>7. CASE Crash \/ FirstStart \/ LoadBlockIndex
  BY <1>7, CoinsCrash, CoinsLoad
<1>8. CASE NothingToReplay \/ ReplayBlocks \/ LoadChainTip \/ VerifyDB
  BY <1>8, CoinsNothingToReplay, CoinsReplayBlocks, CoinsLoadChainTip, CoinsVerifyDB
<1>9. CASE Stopped \/ UNCHANGED vars
  BY <1>9, CoinsStutter DEF Stopped
<1> QED BY <1>1, <1>2, <1>3, <1>4, <1>5, <1>6, <1>7, <1>8, <1>9 DEF Next

\* The coins are right always.
LEMMA CoinsHold == Spec => [](Inv /\ CoinsInv)
<1>1. Init => Inv /\ CoinsInv
  BY InitInv, InitCoinsInv
<1>2. Inv /\ CoinsInv /\ [Next]_vars => (Inv /\ CoinsInv)'
  BY KeepsInv, KeepsCoinsInv
<1> QED BY <1>1, <1>2, PTL DEF Spec

\* Whenever a chain is loaded the coins in memory are those of the best block: what the
\* blocks of its chain create and do not spend, each with the height of its block, whatever
\* was connected, disconnected, flushed, pruned, interrupted and replayed before; and no
\* block to be disconnected or checked is ever found corrupted.
THEOREM CoinsAreRight == Spec => []CoinsMatchBestBlock
<1>1. CoinsInv => CoinsMatchBestBlock
  BY DEF CoinsInv
<1> QED BY <1>1, CoinsHold, PTL

\* The coins on disk are those of their best block or, while a write is under way or after
\* it was interrupted, one by one either those of the block written or of the block they
\* were of: of which ReplayBlocks can make those of the first.
THEOREM DatabaseIsBetweenHeads == Spec => []DatabaseBetweenHeads
<1>1. CoinsInv => DatabaseBetweenHeads
  BY DEF CoinsInv, DatabaseInv
<1> QED BY <1>1, CoinsHold, PTL

\* An output that a valid chain spends was created before, and is spent once.
LEMMA SpendsFacts ==
  ASSUME NEW t \in ValidChains, NEW b \in Path[t], NEW i \in DOMAIN Txs[b],
         NEW o \in Txs[b][i].spends
  PROVE  /\ \E x \in Path[b] : \E j \in DOMAIN Txs[x] : o \in Txs[x][j].creates /\ (x = b => j < i)
         /\ \A j \in DOMAIN Txs[b] : j < i => o \notin Txs[b][j].spends
         /\ \A x \in Path[b] : x # b => \A j \in DOMAIN Txs[x] : o \notin Txs[x][j].spends
<1>1. b \in Blocks /\ b # Genesis /\ BlockRight(b)
  <2>1. t \in Blocks
    BY DEF ValidChains
  <2>2. b \in Blocks /\ b \in ValidChains
    BY <2>1, ChainFacts, ValidFacts
  <2>3. b # Genesis
    BY TxsAssumption
  <2> QED BY <2>2, <2>3, ValidFacts
<1>2. i \in 1 .. Len(Txs[b]) /\ DOMAIN Txs[b] = 1 .. Len(Txs[b]) /\ Len(Txs[b]) \in Nat
  BY <1>1, TxsAre
<1>3. o \in MadeBy(b, i - 1) /\ o \notin SpentBy(b, i - 1)
  BY <1>1, <1>2 DEF BlockRight, Lawful
<1>4. \A j \in 1 .. (i - 1) : j \in DOMAIN Txs[b] /\ j < i
  BY <1>2
<1>5. Path[b] = Path[Parent[b]] \cup {b} /\ b \notin Path[Parent[b]]
  BY <1>1, ParentFacts
<1>6. \E x \in Path[b] : \E j \in DOMAIN Txs[x] : o \in Txs[x][j].creates /\ (x = b => j < i)
  <2>1. CASE o \in ChainCreates(Parent[b])
    <3>1. PICK x \in Path[Parent[b]] : o \in Creates(x)
      BY <2>1 DEF ChainCreates
    <3> QED BY <1>5, <3>1 DEF Creates
  <2>2. CASE \E j \in 1 .. (i - 1) : o \in Txs[b][j].creates
    BY <1>4, <1>5, <2>2
  <2> QED BY <1>3, <2>1, <2>2 DEF MadeBy
<1>7. ASSUME NEW j \in DOMAIN Txs[b], j < i, o \in Txs[b][j].spends
      PROVE  FALSE
  <2>1. j \in 1 .. (i - 1)
    BY <1>2, <1>7
  <2> QED BY <1>3, <1>7, <2>1 DEF SpentBy
<1>8. ASSUME NEW x \in Path[b], x # b, NEW j \in DOMAIN Txs[x], o \in Txs[x][j].spends
      PROVE  FALSE
  <2>1. x \in Path[Parent[b]] /\ o \in Spends(x)
    BY <1>5, <1>8 DEF Spends
  <2> QED BY <1>3, <2>1 DEF SpentBy, ChainSpends
<1> QED BY <1>6, <1>7, <1>8

\* So it is on the chain in use.
LEMMA ValidSpendsOnce ==
  ASSUME Inv, CoinsInv
  PROVE  SpentOnce
<1> SUFFICES ASSUME pc = "run", NEW b \in Path[tip], NEW i \in DOMAIN Txs[b],
                    NEW o \in Txs[b][i].spends
             PROVE  /\ \A x \in Path[tip] : \A j \in DOMAIN Txs[x] :
                         o \in Txs[x][j].spends => x = b /\ j = i
                    /\ \E x \in Path[b] : \E j \in DOMAIN Txs[x] :
                         o \in Txs[x][j].creates /\ (x = b => j < i)
  BY DEF SpentOnce
<1>1. tip \in ValidChains /\ tip \in Blocks
  <2>1. tip # NoBlock
    BY DEF Inv, PlaceInv, Working
  <2> QED BY <2>1, NamedBlocks
<1>2. ASSUME NEW x \in Path[tip], NEW j \in DOMAIN Txs[x], o \in Txs[x][j].spends
      PROVE  x = b /\ j = i
  <2>1. x \in Path[b] \/ b \in Path[x]
    BY <1>1, OrderOnChain
  <2>2. x = b
    BY <1>1, <1>2, <2>1, SpendsFacts
  <2>3. i \in Int /\ j \in Int
    <3>1. b \in Blocks /\ x \in Blocks
      BY <1>1, ChainFacts
    <3>2. DOMAIN Txs[b] = 1 .. Len(Txs[b]) /\ DOMAIN Txs[x] = 1 .. Len(Txs[x])
      BY <3>1, TxsAre
    <3> QED BY <3>2
  <2>4. ~(i < j) /\ ~(j < i)
    BY <1>1, <1>2, <2>2, SpendsFacts
  <2> QED BY <2>2, <2>3, <2>4
<1>3. \E x \in Path[b] : \E j \in DOMAIN Txs[x] : o \in Txs[x][j].creates /\ (x = b => j < i)
  BY <1>1, SpendsFacts
<1> QED BY <1>2, <1>3

\* On the active chain every output spent was created by a transaction before, and no other
\* transaction of the chain spends it.
THEOREM OutputsSpentOnce == Spec => []SpentOnce
<1>1. Inv /\ CoinsInv => SpentOnce
  BY ValidSpendsOnce
<1> QED BY <1>1, CoinsHold, PTL

-----------------------------------------------------------------------------
(* The database that a restart sees (CoinStore).                           *)

\* Everything a replay needs is on disk.
Replayable ==
  /\ Rollbacks \cup Forwards \subseteq dbHaveData \cap syncedData
  /\ Rollbacks \subseteq dbHaveUndo \cap syncedUndo

\* Where the node has not loaded its coins yet.
Unloaded == {"down", "replay", "refused"}

\* Neither what is in use nor what a restart would find changes.
StoreStutters == UNCHANGED <<InUse, Recovered, pruneMode>>
StoreSteps == [Store!Next]_<<InUse, Recovered, pruneMode>>

\* With no write under way a step that touches neither the coins nor their database.
LEMMA QuietStep ==
  ASSUME dbHeads = NoHeads, pc \notin Unloaded, pc' \notin Unloaded,
         UNCHANGED <<dbHeads, dbCoins, coinsTip, pruneMode>>
  PROVE  StoreStutters
BY DEF StoreStutters, InUse, Unloaded, Recovered, NoHeads

\* A chain is loaded, and no write of the coins is under way.
LEMMA BusyFacts ==
  ASSUME Inv, CoinsInv,
         pc \in {"run", "flush", "settip", "files", "index", "unlink", "load", "verify"}
  PROVE  dbHeads = NoHeads /\ pc \notin Unloaded /\ returnTo \notin Unloaded
BY DEF Inv, TypeOK, PlaceInv, Terminal, Unloaded

\* Blocks received, and everything of a flush but the coins, do not concern the store.
LEMMA StoreQuiet ==
  ASSUME Inv, CoinsInv,
         \/ (\E b \in Blocks \ {Genesis} : ReceiveBlock(b)) \/ SetTip \/ NoFlush
         \/ PeriodicWrite \/ FullFlush \/ (\E h \in {Height[b] : b \in Blocks} : PruneFlush(h))
         \/ FlushBlockFiles \/ WriteBlockIndexDB \/ UnlinkPrunedFiles \/ VerifyDB
  PROVE  StoreStutters
<1>1. CASE \E b \in Blocks \ {Genesis} : ReceiveBlock(b)
  BY <1>1, BusyFacts, QuietStep DEF ReceiveBlock, dbCoinVars
<1>2. CASE SetTip
  <2>1. pc = "settip" /\ pc' = "run" /\ UNCHANGED <<dbHeads, dbCoins, coinsTip, pruneMode>>
    BY <1>2 DEF SetTip, Goto, dbCoinVars
  <2> QED BY <2>1, BusyFacts, QuietStep DEF Unloaded
<1>3. CASE NoFlush
  <2>1. pc = "flush" /\ pc' = returnTo /\ UNCHANGED <<dbHeads, dbCoins, coinsTip, pruneMode>>
    BY <1>3 DEF NoFlush, Goto, memVars, dbCoinVars
  <2> QED BY <2>1, BusyFacts, QuietStep
<1>4. CASE PeriodicWrite \/ FullFlush \/ (\E h \in {Height[b] : b \in Blocks} : PruneFlush(h))
  <2>1. /\ pc \in {"run", "flush"} /\ pc' = "files"
        /\ UNCHANGED <<dbHeads, dbCoins, coinsTip, pruneMode>>
    BY <1>4 DEF PeriodicWrite, FullFlush, FlushStart, PruneFlush, Goto, memVars, dbCoinVars
  <2> QED BY <2>1, BusyFacts, QuietStep DEF Unloaded
<1>5. CASE FlushBlockFiles \/ UnlinkPrunedFiles
  <2>1. /\ pc \in {"files", "unlink"} /\ pc' \in {"index", "coins"}
        /\ UNCHANGED <<dbHeads, dbCoins, coinsTip, pruneMode>>
    BY <1>5 DEF FlushBlockFiles, UnlinkPrunedFiles, Goto, memVars, dbCoinVars
  <2> QED BY <2>1, BusyFacts, QuietStep DEF Unloaded
<1>6. CASE WriteBlockIndexDB
  <2>1. /\ pc = "index" /\ pc' \in {"unlink", "coins", returnTo}
        /\ UNCHANGED <<dbHeads, dbCoins, coinsTip, pruneMode>>
    BY <1>6 DEF WriteBlockIndexDB, Goto, memVars, dbCoinVars
  <2> QED BY <2>1, BusyFacts, QuietStep DEF Unloaded
<1>7. CASE VerifyDB
  <2>1. /\ pc = "verify" /\ pc' \in {"run", "corrupted"}
        /\ UNCHANGED <<dbHeads, dbCoins, coinsTip, pruneMode>>
    BY <1>7 DEF VerifyDB, Goto, memVars, dbCoinVars
  <2> QED BY <2>1, BusyFacts, QuietStep DEF Unloaded
<1> QED BY <1>1, <1>2, <1>3, <1>4, <1>5, <1>6, <1>7

\* LoadChainTip takes what the replay left, and does not refuse.
LEMMA StoreLoadChainTip ==
  ASSUME Inv, Inv', CoinsInv, LoadChainTip
  PROVE  StoreStutters
<1>1. /\ pc = "load" /\ pc' \in {"refused", "verify"}
      /\ UNCHANGED <<dbHeads, dbCoins, coinsTip, pruneMode>>
  BY DEF LoadChainTip, Goto, dbCoinVars
<1>2. dbHeads = NoHeads /\ pc \notin Unloaded
  BY <1>1, BusyFacts
<1>3. pc' # "refused"
  BY <1>1, <1>2 DEF Inv, RefusedOnlyByPruning, NoHeads
<1> QED BY <1>1, <1>2, <1>3, QuietStep DEF Unloaded

\* ConnectTip goes from the coins of the parent to those of the block.
LEMMA StoreConnectTip ==
  ASSUME NEW b \in Blocks \ {Genesis}, Inv, CoinsInv, CoinsInv', ConnectTip(b)
  PROVE  Store!Move
<1>1. /\ pc = "run" /\ pc' = "flush" /\ Parent[b] = tip /\ bestBlock' = b
      /\ UNCHANGED <<dbHeads, dbCoins, pruneMode>>
  BY DEF ConnectTip, Goto, dbCoinVars
<1>2. tip = bestBlock /\ dbHeads = NoHeads
  BY <1>1, BusyFacts DEF Inv, PlaceInv, Working
<1>3. InUse = CoinsAfter[Parent[b]] /\ InUse' = CoinsAfter[b]
  BY <1>1, <1>2 DEF InUse, CoinsInv, CoinsMatchBestBlock, Terminal
<1>4. UNCHANGED <<Recovered, pruneMode>>
  BY <1>1, <1>2 DEF Recovered, NoHeads
<1> QED BY <1>3, <1>4 DEF Store!Move

\* DisconnectTip goes back to the coins of the parent.
LEMMA StoreDisconnectTip ==
  ASSUME Inv, CoinsInv, CoinsInv', DisconnectTip
  PROVE  Store!Move
<1>1. /\ pc = "run" /\ pc' \in {"flush", "corrupted"} /\ tip # Genesis
      /\ pc' = "flush" => bestBlock' = Parent[tip]
      /\ UNCHANGED <<dbHeads, dbCoins, pruneMode>>
  BY DEF DisconnectTip, Goto, dbCoinVars
<1>2. tip = bestBlock /\ dbHeads = NoHeads /\ tip \in Blocks \ {Genesis}
  BY <1>1, BusyFacts, NamedBlocks DEF Inv, PlaceInv, Working
<1>3. InUse = CoinsAfter[tip] /\ InUse' = CoinsAfter[Parent[tip]]
  BY <1>1, <1>2 DEF InUse, CoinsInv, CoinsMatchBestBlock, Terminal
<1>4. UNCHANGED <<Recovered, pruneMode>>
  BY <1>1, <1>2 DEF Recovered, NoHeads
<1> QED BY <1>2, <1>3, <1>4 DEF Store!Move

\* The first batch of a flush makes it happen, or, on a node that prunes, makes a replay
\* impossible.  That of a replay changes nothing.
LEMMA StoreFirstBatch ==
  ASSUME NEW S \in SUBSET Dirty, Inv, Inv', CoinsInv, FirstBatch(S)
  PROVE  StoreSteps
<1>1. /\ pc = "coins" /\ pc' = "batch" /\ dbHeads' = <<bestBlock, OldTip>>
      /\ UNCHANGED <<coinsTip, bestBlock, pruneMode, dbHaveData, dbHaveUndo>>
      /\ UNCHANGED <<syncedData, syncedUndo>>
  BY DEF FirstBatch, HeadsInBatch, Goto, memVars, memIndexVars, fileVars, syncVars, dbIndexVars
<1>2. /\ bestBlock \in Blocks /\ coinsTip = CoinsAfter[bestBlock]
      /\ dbHeads # NoHeads => bestBlock = dbHeads[1]
  BY <1>1, WritingFacts
<1>3. InUse = coinsTip /\ InUse' = coinsTip
  BY <1>1 DEF InUse
<1>4. dbHeads' # NoHeads /\ dbHeads'[1] = bestBlock /\ dbHeads'[2] = OldTip
  BY <1>1 DEF NoHeads
<1>5. Recovered' = IF Replayable' THEN coinsTip ELSE << >>
  BY <1>1, <1>2, <1>4 DEF Recovered, Replayable, NoHeads
<1>6. CASE dbHeads = NoHeads
  <2>1. CASE Replayable'
    BY <1>1, <1>3, <1>5, <2>1 DEF StoreSteps, Store!Next, Store!Flush
  <2>2. CASE ~Replayable'
    <3>1. pruneMode
      <4>1. SUFFICES ASSUME ~pruneMode
                     PROVE  Replayable'
        BY <2>2
      <4>2. /\ dbHeads'[1] \in Blocks /\ dbHeads'[2] \in Blocks \cup {NoBlock}
            /\ 1 \in DOMAIN dbHeads' /\ 2 \in DOMAIN dbHeads'
        BY <1>4 DEF Inv, TypeOK
      <4>3. Genesis \in HeadPath(dbHeads'[1]) /\ Genesis \in HeadPath(dbHeads'[2])
        BY <4>2, TreeFacts DEF HeadPath
      <4>4. \A i \in DOMAIN dbHeads' :
              HeadPath(dbHeads'[i]) \ {Genesis} \subseteq dbHaveData' \cap dbHaveUndo'
        BY <1>1, <4>1 DEF Inv, KeptInv, HeadPath
      <4>5. dbHaveData' \subseteq syncedData' /\ dbHaveUndo' \subseteq syncedUndo'
        BY DEF Inv, FilesInv
      <4>6. Rollbacks' \cup Forwards' \subseteq dbHaveData' \cap dbHaveUndo'
        BY <4>2, <4>3, <4>4 DEF Rollbacks, Forwards, HeadPath
      <4> QED BY <4>5, <4>6 DEF Replayable
    <3> QED BY <1>1, <1>3, <1>5, <2>2, <3>1 DEF StoreSteps, Store!Next, Store!Lose
  <2> QED BY <2>1, <2>2
<1>7. CASE dbHeads # NoHeads
  <2>1. dbHeads' = dbHeads
    BY <1>1, <1>2, <1>7, NamedBlocks DEF OldTip
  <2>2. Recovered' = Recovered
    BY <1>1, <1>7, <2>1 DEF Recovered, Rollbacks, Forwards, NoHeads, HeadPath
  <2> QED BY <1>1, <1>3, <2>2 DEF StoreSteps
<1> QED BY <1>6, <1>7

\* A further batch changes nothing of it.
LEMMA StoreNextBatch ==
  ASSUME NEW S \in SUBSET Dirty, Inv, CoinsInv, NextBatch(S)
  PROVE  StoreStutters
<1>1. /\ pc = "batch" /\ pc' = "batch"
      /\ UNCHANGED <<coinsTip, pruneMode, dbHeads, dbHaveData, dbHaveUndo, syncedData, syncedUndo>>
  BY DEF NextBatch, memVars, memIndexVars, fileVars, syncVars, dbIndexVars
<1>2. dbHeads # NoHeads
  BY <1>1 DEF CoinsInv, DatabaseInv
<1>3. UNCHANGED Recovered
  BY <1>1, <1>2 DEF Recovered, Rollbacks, Forwards, NoHeads, HeadPath
<1> QED BY <1>1, <1>3 DEF StoreStutters, InUse

\* After the last batch the flush has happened.
LEMMA StoreLastBatch ==
  ASSUME Inv, CoinsInv, LastBatch
  PROVE  Store!Flush
<1>1. /\ pc \in {"coins", "batch"} /\ pc' = returnTo /\ dbCoins' = coinsTip
      /\ dbHeads' = NoHeads /\ UNCHANGED <<coinsTip, pruneMode>>
  BY DEF LastBatch, Goto, memVars
<1>2. returnTo \in {"run", "settip", "load"}
  BY DEF Inv, TypeOK
<1>3. InUse = coinsTip /\ InUse' = coinsTip
  BY <1>1, <1>2 DEF InUse
<1>4. Recovered' = coinsTip
  BY <1>1 DEF Recovered, NoHeads
<1> QED BY <1>1, <1>3, <1>4 DEF Store!Flush

\* A crash leaves what a restart would find.
LEMMA StoreCrash ==
  ASSUME Inv, CoinsInv, Crash
  PROVE  Store!Restart
<1>1. /\ pc' = "down"
      /\ UNCHANGED <<pruneMode, dbCoins, dbHeads, dbHaveData, dbHaveUndo, syncedData, syncedUndo>>
  BY DEF Crash, Goto, syncVars, dbIndexVars, dbCoinVars
<1>2. UNCHANGED Recovered
  BY <1>1 DEF Recovered, Rollbacks, Forwards, NoHeads, HeadPath
<1>3. InUse' = Recovered'
  BY <1>1 DEF InUse
<1> QED BY <1>1, <1>2, <1>3 DEF Store!Restart

\* The restart reads what it was to find.
LEMMA StoreLoad ==
  ASSUME Inv, CoinsInv, FirstStart \/ LoadBlockIndex \/ ReplayFails
  PROVE  StoreStutters
<1>1. /\ pc \in Unloaded /\ pc' \in Unloaded
      /\ UNCHANGED <<pruneMode, dbCoins, dbHeads, dbIndex, dbHaveData, dbHaveUndo>>
  BY DEF FirstStart, LoadBlockIndex, ReplayFails, Unloaded, Goto, memVars, fileVars, dbIndexVars,
     dbCoinVars
<1>2. CASE FirstStart
  <2>1. dbHeads = NoHeads
    <3>1. SUFFICES ASSUME dbHeads # NoHeads
                   PROVE  FALSE
      OBVIOUS
    <3>2. PICK x \in ValidChains : \E y \in ValidChains \cup {NoBlock} :
            dbHeads = <<x, y>> /\ dbHeads[1] = x /\ dbHeads[2] = y /\ x \in Blocks
      BY <3>1, NamedBlocks
    <3>3. Within(x, dbIndex) /\ x # NoBlock /\ x \in Path[x]
      BY <3>2, TreeFacts DEF Inv, IndexInv
    <3> QED BY <1>2, <3>3 DEF FirstStart, Within
  <2>2. UNCHANGED Recovered
    BY <1>1, <2>1 DEF Recovered, NoHeads
  <2> QED BY <1>1, <2>2 DEF StoreStutters, InUse, Unloaded
<1>3. CASE LoadBlockIndex
  <2>1. syncedData' = syncedData \cap dbHaveData /\ syncedUndo' = syncedUndo \cap dbHaveUndo
    BY <1>3 DEF LoadBlockIndex
  <2>2. UNCHANGED <<Rollbacks, Forwards>>
    BY <1>1 DEF Rollbacks, Forwards, HeadPath
  <2>3. Replayable' = Replayable
    BY <1>1, <2>1, <2>2 DEF Replayable
  <2>4. UNCHANGED Recovered
    BY <1>1, <2>3 DEF Recovered, Replayable, NoHeads
  <2> QED BY <1>1, <2>4 DEF StoreStutters, InUse, Unloaded
<1>4. CASE ReplayFails
  <2>1. UNCHANGED <<syncedData, syncedUndo>>
    BY <1>4 DEF ReplayFails, fileVars, syncVars
  <2>2. UNCHANGED Recovered
    BY <1>1, <2>1 DEF Recovered, Rollbacks, Forwards, NoHeads, HeadPath
  <2> QED BY <1>1, <2>2 DEF StoreStutters, InUse, Unloaded
<1> QED BY <1>2, <1>3, <1>4

\* With no heads the database is what the node begins with.
LEMMA StoreNothingToReplay ==
  ASSUME Inv, CoinsInv, NothingToReplay
  PROVE  StoreStutters
<1>1. /\ pc = "replay" /\ pc' = "load" /\ dbHeads = NoHeads /\ coinsTip' = dbCoins
      /\ UNCHANGED <<pruneMode, dbCoins, dbHeads>>
  BY DEF NothingToReplay, Goto, dbCoinVars
<1>2. Recovered = dbCoins /\ Recovered' = dbCoins
  BY <1>1 DEF Recovered, NoHeads
<1> QED BY <1>1, <1>2 DEF StoreStutters, InUse

\* With heads the replay makes what was to be found, the coins of the first head.
LEMMA StoreReplayBlocks ==
  ASSUME Inv, CoinsInv, CoinsInv', ReplayBlocks
  PROVE  StoreStutters
<1>1. /\ pc = "replay" /\ pc' = "coins" /\ dbHeads # NoHeads /\ ReplayReadable
      /\ bestBlock' = dbHeads[1] /\ coinsTip' = CoinsAfter[bestBlock']
      /\ UNCHANGED <<pruneMode, dbHeads, dbHaveData, dbHaveUndo, syncedData, syncedUndo>>
  BY DEF ReplayBlocks, Goto, fileVars, syncVars, dbIndexVars, dbCoinVars, CoinsInv,
     CoinsMatchBestBlock, Terminal
<1>2. dbHaveData = haveData /\ dbHaveUndo = haveUndo
  <2>1. PICK x \in ValidChains : \E y \in ValidChains \cup {NoBlock} :
          dbHeads = <<x, y>> /\ dbHeads[1] = x /\ dbHeads[2] = y /\ x \in Blocks
    BY <1>1, NamedBlocks
  <2>2. Within(x, dbIndex) /\ x # NoBlock /\ x \in Path[x]
    BY <2>1, TreeFacts DEF Inv, IndexInv
  <2> QED BY <1>1, <2>2 DEF Within, Inv, FilesInv
<1>3. Replayable
  BY <1>1, <1>2 DEF Replayable, ReplayReadable, CanReadBlock, CanReadUndo, Inv, FilesInv
<1>4. Recovered = CoinsAfter[dbHeads[1]]
  BY <1>1, <1>3 DEF Recovered, Replayable
<1>5. UNCHANGED Recovered
  BY <1>1 DEF Recovered, Rollbacks, Forwards, NoHeads, HeadPath
<1> QED BY <1>1, <1>4, <1>5 DEF StoreStutters, InUse

\* Nothing happens.
LEMMA StoreStops ==
  ASSUME UNCHANGED vars
  PROVE  StoreStutters
<1>1. /\ UNCHANGED <<pc, pruneMode, coinsTip, dbCoins, dbHeads, dbHaveData, dbHaveUndo>>
      /\ UNCHANGED <<syncedData, syncedUndo>>
  BY DEF vars, memVars, memIndexVars, fileVars, syncVars, dbIndexVars, dbCoinVars
<1>2. UNCHANGED Recovered
  BY <1>1 DEF Recovered, Rollbacks, Forwards, NoHeads, HeadPath
<1> QED BY <1>1, <1>2 DEF StoreStutters, InUse

\* The first start is that of an empty store.
LEMMA StoreInit == Init => Store!Init
<1> SUFFICES ASSUME Init
             PROVE  Store!Init
  OBVIOUS
<1>1. InUse = NoCoins /\ Recovered = NoCoins /\ pruneMode \in BOOLEAN
  BY DEF Init, InUse, Recovered
<1> QED BY <1>1, GenesisFacts DEF Store!Init

\* Every step is one of the store or changes nothing of it.
LEMMA StoreNext ==
  Inv /\ CoinsInv /\ Inv' /\ CoinsInv' /\ [Next]_vars => StoreSteps
<1> SUFFICES ASSUME Inv, CoinsInv, Inv', CoinsInv', [Next]_vars
             PROVE  StoreSteps
  OBVIOUS
<1>1. StoreStutters \/ Store!Move \/ Store!Flush \/ Store!Restart => StoreSteps
  BY DEF StoreStutters, StoreSteps, Store!Next
<1>2. CASE \E b \in Blocks \ {Genesis} : ReceiveBlock(b) \/ ConnectTip(b)
  BY <1>1, <1>2, StoreQuiet, StoreConnectTip
<1>3. CASE DisconnectTip
  BY <1>1, <1>3, StoreDisconnectTip
<1>4. CASE SetTip \/ NoFlush \/ PeriodicWrite \/ FullFlush \/ FlushBlockFiles
  BY <1>1, <1>4, StoreQuiet
<1>5. CASE (\E h \in {Height[b] : b \in Blocks} : PruneFlush(h)) \/ WriteBlockIndexDB
           \/ UnlinkPrunedFiles \/ VerifyDB
  BY <1>1, <1>5, StoreQuiet
<1>6. CASE (\E S \in SUBSET Dirty : FirstBatch(S) \/ NextBatch(S)) \/ LastBatch
  BY <1>1, <1>6, StoreFirstBatch, StoreNextBatch, StoreLastBatch
<1>7. CASE Crash \/ FirstStart \/ LoadBlockIndex \/ ReplayFails
  BY <1>1, <1>7, StoreCrash, StoreLoad
<1>8. CASE NothingToReplay \/ ReplayBlocks \/ LoadChainTip
  BY <1>1, <1>8, StoreNothingToReplay, StoreReplayBlocks, StoreLoadChainTip
<1>9. CASE Stopped \/ UNCHANGED vars
  BY <1>1, <1>9, StoreStops DEF Stopped
<1> QED BY <1>2, <1>3, <1>4, <1>5, <1>6, <1>7, <1>8, <1>9 DEF Next

\* Coins implements CoinStore: a flush is one step, however many batches it takes and
\* wherever a crash interrupts it, a restart begins with the last one, and only a node that
\* prunes can lose it.
THEOREM CoinStoreIsImplemented == Spec => ImplementsCoinStore
<1>1. Init => Store!Init
  BY StoreInit
<1>2. Inv /\ CoinsInv /\ Inv' /\ CoinsInv' /\ [Next]_vars
        => [Store!Next]_<<InUse, Recovered, pruneMode>>
  BY StoreNext DEF StoreSteps
<1> QED BY <1>1, <1>2, CoinsHold, PTL DEF Spec, ImplementsCoinStore, Store!Spec
=============================================================================
