------------------------------- MODULE Import -------------------------------
(***************************************************************************)
(* LoadExternalBlockFile: blocks are read back from files, in whatever     *)
(* order the files hold them, to rebuild the block index (-reindex) or to  *)
(* add to it (-loadblock), while RPC threads submit blocks, and with       *)
(* crashes and restarts of a reindex.                                      *)
(*                                                                         *)
(* The files are one sequence of records: a header and a body, or a body   *)
(* that does not deserialise (Torn).  Bytes between records are skipped by *)
(* the scan and are left out, and so are records whose header cannot be    *)
(* read.  Every header satisfies the header rules.                         *)
(***************************************************************************)
EXTENDS Sequences, SequencesExt, FiniteSetsExt, BlockTree, BlockChecks

CONSTANTS
  BlockFlaws,    \* BlockFlaws[b]: the rules the content b commits to breaks
  Torn,          \* the body of a record that was cut short
  Files,         \* the contents considered for the files
  Submitted,     \* the blocks and bodies RPC clients submit
  NoPos, Appended, \* no data; a position past those of the files (FindBlockPos)
  MaxSubmits, MaxCrashes \* bounds

Modes == {"reindex", "loadblock"}

\* A header commits to the transactions, which decide every rule but the weight, and they
\* commit to the witness data, which decides that one too.
Committed(b, body) ==
  body.txs = "same" =>
    /\ body.flaws \ {"bad-blk-weight"} = BlockFlaws[b] \ {"bad-blk-weight"}
    /\ WitnessAgrees(b, body) => body.flaws = BlockFlaws[b]

ASSUME ImportAssumption ==
  /\ BlockFlaws \in [Blocks -> SUBSET Flaws]
  /\ Torn \notin Bodies /\ NoPos # Appended /\ NoPos \notin Nat /\ Appended \notin Nat
  /\ Files \subseteq Seq([block : Blocks, body : Bodies \cup {Torn}])
  /\ \A f \in Files : \A p \in DOMAIN f : f[p].body # Torn => Committed(f[p].block, f[p].body)
  /\ Submitted \subseteq [block : Blocks, body : Bodies]
  /\ \A s \in Submitted :
       Committed(s.block, UpdateUncommittedBlockStructures(s.block, s.body))
  /\ MaxSubmits \in Nat /\ MaxCrashes \in Nat

VARIABLES
  mode, records,  \* how the import was asked for, and what is in the files
  index,          \* m_block_index: index[b] = [known, failed, pos]
  disk,           \* the index as it was last flushed
  next,           \* the record LoadExternalBlockFile reads next
  waiting,        \* blocks_with_unknown_parent: the positions noted
  queue,          \* the blocks whose waiting children are to be processed
  submits, crashes

fileVars == <<mode, records>>
threadVars == <<next, waiting, queue>>
importVars == <<fileVars, index, disk, threadVars, submits, crashes>>
-----------------------------------------------------------------------------
Positions == DOMAIN records
NotIndexed == [known |-> FALSE, failed |-> FALSE, pos |-> NoPos]

Known(b) == b # NoBlock /\ index[b].known

\* AcceptBlockHeader: a known header that has not failed, or a new one after such a header.
HeaderAccepted(b) ==
  IF index[b].known THEN ~index[b].failed
  ELSE b = Genesis \/ (Known(Parent[b]) /\ ~index[Parent[b]].failed)

(* AcceptBlock for a body at a position: the header is noted, the body is   *)
(* checked unless there is data for the block, and only a block that is     *)
(* itself wrong is marked as failed.                                        *)
NewEntry(b, body, pos) ==
  IF ~HeaderAccepted(b) THEN index[b]
  ELSE IF index[b].pos # NoPos THEN index[b]
  ELSE [known  |-> TRUE,
        failed |-> CheckBody(b, body) = "BLOCK_CONSENSUS",
        pos    |-> IF CheckBody(b, body) = "ok" THEN pos ELSE NoPos]

\* Whether AcceptBlock returns true.
Accepted(b, body) ==
  HeaderAccepted(b) /\ (index[b].pos # NoPos \/ CheckBody(b, body) = "ok")

AcceptBlock(b, body, pos) == index' = [index EXCEPT ![b] = NewEntry(b, body, pos)]

\* With -reindex the block is where it was found, with -loadblock it is appended.
Found_AtScan(pos) ==                                                \* faulty
  IF mode # "reindex" THEN Appended ELSE IF queue = <<>> THEN next ELSE next - 1
Found(pos) == IF mode = "reindex" THEN pos ELSE Appended
-----------------------------------------------------------------------------
ImportInit ==
  /\ mode \in Modes
  /\ records \in Files
  /\ index = [b \in Blocks |-> NotIndexed]
  /\ disk = index
  /\ next = 1 /\ waiting = {} /\ queue = <<>>
  /\ submits = 0 /\ crashes = 0

Scanning == queue = <<>> /\ next <= Len(records)
Done == queue = <<>> /\ next > Len(records)

\* The children noted as waiting are processed once a reindex has met their parent.
ThenChildrenOf(b) == queue' = IF mode = "reindex" THEN <<b>> ELSE <<>>

(* A block whose parent is not known: its position is noted by a reindex,   *)
(* it is passed over otherwise.                                             *)
OutOfOrder ==
  /\ Scanning
  /\ LET block == records[next].block IN block # Genesis /\ ~Known(Parent[block])
  /\ waiting' = IF mode = "reindex" THEN waiting \cup {next} ELSE waiting
  /\ next' = next + 1
  /\ UNCHANGED <<fileVars, index, disk, queue, submits, crashes>>

(* A block without data is read and accepted; a body that does not          *)
(* deserialise ends the processing of this record at once.                  *)
ReadBlock ==
  /\ Scanning
  /\ LET r == records[next]
     IN  /\ r.block = Genesis \/ Known(Parent[r.block])
         /\ index[r.block].pos = NoPos
         /\ IF r.body = Torn
              THEN UNCHANGED <<index, queue>>
              ELSE AcceptBlock(r.block, r.body, Found(next)) /\ ThenChildrenOf(r.block)
  /\ next' = next + 1
  /\ UNCHANGED <<fileVars, disk, waiting, submits, crashes>>

AlreadyHad_ChildrenWait ==                                          \* faulty
  /\ Scanning
  /\ LET block == records[next].block
     IN  (block = Genesis \/ Known(Parent[block])) /\ index[block].pos # NoPos
  /\ next' = next + 1
  /\ UNCHANGED <<fileVars, index, disk, waiting, queue, submits, crashes>>

AlreadyHad ==
  /\ Scanning
  /\ LET block == records[next].block
     IN  /\ block = Genesis \/ Known(Parent[block])
         /\ index[block].pos # NoPos
         /\ ThenChildrenOf(block)
  /\ next' = next + 1
  /\ UNCHANGED <<fileVars, index, disk, waiting, submits, crashes>>

WaitingFor(b) == {p \in waiting : Parent[records[p].block] = b}

(* One out-of-order child is read from its position and forgotten; when it  *)
(* is accepted, its own children come next.                                 *)
ProcessChild ==
  /\ queue # <<>>
  /\ WaitingFor(Head(queue)) # {}
  /\ LET pos   == Min(WaitingFor(Head(queue)))
         child == records[pos]
     IN  /\ waiting' = waiting \ {pos}
         /\ IF child.body = Torn
              THEN UNCHANGED <<index, queue>>
              ELSE /\ AcceptBlock(child.block, child.body, Found(pos))
                   /\ queue' = IF Accepted(child.block, child.body)
                                 THEN Append(queue, child.block) ELSE queue
  /\ UNCHANGED <<fileVars, disk, next, submits, crashes>>

NextInQueue ==
  /\ queue # <<>>
  /\ WaitingFor(Head(queue)) = {}
  /\ queue' = Tail(queue)
  /\ UNCHANGED <<fileVars, index, disk, next, waiting, submits, crashes>>

(* ProcessNewBlock, for a block a client submits: what CheckBlock refuses   *)
(* leaves no trace.                                                         *)
SubmitBlock ==
  /\ submits < MaxSubmits
  /\ \E s \in Submitted :
       LET body == UpdateUncommittedBlockStructures(s.block, s.body)
       IN  CheckBlock(body) = "ok" /\ AcceptBlock(s.block, body, Appended)
  /\ submits' = submits + 1
  /\ UNCHANGED <<fileVars, disk, threadVars, crashes>>

\* FlushStateToDisk writes the index.
Flush ==
  /\ disk # index
  /\ disk' = index
  /\ UNCHANGED <<fileVars, index, threadVars, submits, crashes>>

(* The node stops in the middle of a reindex and starts again: the import   *)
(* begins anew, with the index that was written and nothing noted.          *)
Restart ==
  /\ mode = "reindex" /\ ~Done
  /\ crashes < MaxCrashes
  /\ crashes' = crashes + 1
  /\ index' = disk
  /\ next' = 1 /\ waiting' = {} /\ queue' = <<>>
  /\ UNCHANGED <<fileVars, disk, submits>>

ImportNext ==
  \/ OutOfOrder \/ ReadBlock \/ AlreadyHad \/ ProcessChild \/ NextInQueue
  \/ SubmitBlock \/ Flush \/ Restart

ImportSpec == ImportInit /\ [][ImportNext]_importVars
-----------------------------------------------------------------------------
GoodCopies(b) ==
  {p \in Positions : /\ records[p].block = b /\ records[p].body # Torn
                     /\ CheckBody(b, records[p].body) = "ok"}

\* A block and its ancestors have good copies, anywhere or each after that of its parent.
Readable(b) == \A a \in Path[b] : GoodCopies(a) # {}
InOrder(b, at) ==
  \A a \in Path[b] : at[a] \in GoodCopies(a) /\ (a = Genesis \/ at[Parent[a]] < at[a])

(* A finished reindex has found every block that is there to be found: one  *)
(* whose ancestors and itself have a good copy each somewhere in the files, *)
(* whatever their order, the altered and torn copies beside them, the       *)
(* blocks submitted meanwhile and the restarts; and a finished -loadblock   *)
(* every block whose ancestry is there in order (the notes kept in          *)
(* blocks_with_unknown_parent and the queue).                               *)
ImportComplete ==
  Done => \A b \in Blocks :
    (IF mode = "reindex" THEN Readable(b) ELSE \E at \in [Path[b] -> Positions] : InOrder(b, at))
      => index[b].pos # NoPos

(* A block is found again where the index says it is: at that position of   *)
(* the files there is a body that the header commits to (the position       *)
(* AcceptBlock is given for the block just read and for a waiting child).   *)
PositionsRight ==
  \A b \in Blocks : index[b].pos \in Positions => index[b].pos \in GoodCopies(b)

(* A block is never blamed for a body that is not its own: only one whose   *)
(* committed content breaks a rule is marked BLOCK_FAILED_VALID, whatever   *)
(* altered copies are in the files or are submitted (the order of the       *)
(* checks in CheckBlock and ContextualCheckBlock).                          *)
NotBlamed == \A b \in Blocks : index[b].failed => BlockFlaws[b] # {}
=============================================================================
