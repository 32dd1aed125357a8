---------------------------- MODULE Import_proofs ----------------------------
(***************************************************************************)
(* ImportComplete, PositionsRight and NotBlamed of Import, for every block *)
(* tree, whatever the files hold and in whatever order, and whatever is    *)
(* submitted, flushed and interrupted meanwhile.                           *)
(*                                                                         *)
(* That a reindex leaves nobody waiting rests on ReindexInv: a child is    *)
(* noted only while its parent is not known, and a parent whose copy the   *)
(* scan passes or a note brings back is queued, also when it had its data  *)
(* already from a client.                                                  *)
(***************************************************************************)
EXTENDS Import, BlockTree_proofs

Entries == [known : BOOLEAN, failed : BOOLEAN, pos : Nat \cup {NoPos, Appended}]

TypeInv ==
  /\ mode \in Modes /\ records \in Files
  /\ index \in [Blocks -> Entries] /\ disk \in [Blocks -> Entries]
  /\ next \in Nat \ {0} /\ waiting \subseteq Positions /\ \A p \in waiting : p < next
  /\ queue \in Seq(Blocks)

\* What an entry says is true, in memory and on disk.
Right(b, entry) ==
  /\ entry.pos # NoPos => entry.known
  /\ entry.failed => BlockFlaws[b] # {}
  /\ entry.pos \in Positions => entry.pos \in GoodCopies(b)
EntriesInv == \A b \in Blocks : Right(b, index[b]) /\ Right(b, disk[b])

\* The scan passed a good copy, and if it noted it the note was taken up.
Handled(b) == \E p \in GoodCopies(b) : p < next /\ p \notin waiting

\* Blocks that can be had: handled ones are there, queued ones known, and one is noted only
\* until its parent is handled, when the parent is queued.
ReindexInv ==
  mode = "reindex" =>
    /\ \A b \in Blocks : Readable(b) /\ Handled(b) => index[b].pos # NoPos
    /\ \A b \in Range(queue) : Readable(b) => index[b].known
    /\ \A p \in waiting :
         /\ records[p].block # Genesis
         /\ p \in GoodCopies(records[p].block) /\ Readable(records[p].block)
              /\ Handled(Parent[records[p].block]) => Parent[records[p].block] \in Range(queue)

\* Without notes, a block is there once its last copy that is in order was passed.
LoadInv ==
  mode = "loadblock" =>
    /\ queue = <<>> /\ waiting = {}
    /\ \A b \in Blocks : \A at \in [Path[b] -> Positions] :
         InOrder(b, at) /\ at[b] < next => index[b].pos # NoPos

Inv == TypeInv /\ EntriesInv /\ ReindexInv /\ LoadInv

-----------------------------------------------------------------------------
(* What AcceptBlock does to an entry. *)

\* What the files hold.
LEMMA RecordsAre ==
  ASSUME TypeInv
  PROVE  /\ Len(records) \in Nat /\ Positions = 1 .. Len(records)
         /\ \A p \in Positions :
              /\ records[p].block \in Blocks
              /\ records[p].body # Torn => /\ records[p].body \in Bodies
                                           /\ Committed(records[p].block, records[p].body)
<1> DEFINE R == [block : Blocks, body : Bodies \cup {Torn}]
<1>1. records \in Seq(R) /\ records \in Files
  BY ImportAssumption DEF TypeInv
<1>2. /\ Len(records) \in Nat /\ Positions = 1 .. Len(records)
      /\ \A p \in Positions : records[p] \in R
  <2> HIDE DEF R
  <2> QED BY <1>1 DEF Positions
<1> QED BY <1>1, <1>2, ImportAssumption DEF Positions

\* A body that passes is without flaws, and so is its block; one that is blamed has a flaw,
\* and so has its block.
LEMMA CheckedBody ==
  ASSUME NEW b \in Blocks, NEW body \in Bodies, Committed(b, body)
  PROVE  /\ CheckBody(b, body) = "ok" => BlockFlaws[b] = {}
         /\ CheckBody(b, body) = "BLOCK_CONSENSUS" => BlockFlaws[b] # {}
<1>1. body.flaws \subseteq ContentFlaws \cup ContextFlaws \cup {"bad-blk-weight"}
  BY DEF Bodies, Flaws
<1>2. "bad-blk-weight" \notin ContentFlaws \cup ContextFlaws
  BY DEF ContentFlaws, ContextFlaws
<1>3. body.txs = "same" =>
        \A f \in ContentFlaws \cup ContextFlaws : f \in body.flaws <=> f \in BlockFlaws[b]
  BY <1>2 DEF Committed
<1>4. body.txs = "same" /\ WitnessAgrees(b, body) => body.flaws = BlockFlaws[b]
  BY DEF Committed
<1>5. ASSUME CheckBody(b, body) = "ok"
      PROVE  BlockFlaws[b] = {}
  <2>1. /\ body.txs = "same" /\ WitnessAgrees(b, body)
        /\ body.flaws \cap ContentFlaws = {} /\ body.flaws \cap ContextFlaws = {}
        /\ "bad-blk-weight" \notin body.flaws
    BY <1>5 DEF CheckBody, CheckBlock, ContextualCheckBlock
  <2> QED BY <1>1, <1>4, <2>1
<1>6. ASSUME CheckBody(b, body) = "BLOCK_CONSENSUS"
      PROVE  BlockFlaws[b] # {}
  <2>1. /\ body.txs = "same"
        /\ \/ body.flaws \cap ContentFlaws # {} \/ body.flaws \cap ContextFlaws # {}
           \/ WitnessAgrees(b, body) /\ "bad-blk-weight" \in body.flaws
    BY <1>6 DEF CheckBody, CheckBlock, ContextualCheckBlock
  <2> QED BY <1>3, <1>4, <2>1
<1> QED BY <1>5, <1>6

\* A block with a good copy is not marked.
LEMMA GoodNotFailed ==
  ASSUME TypeInv, EntriesInv, NEW b \in Blocks, GoodCopies(b) # {}
  PROVE  ~index[b].failed
<1>1. PICK p \in Positions : /\ records[p].block = b /\ records[p].body # Torn
                             /\ CheckBody(b, records[p].body) = "ok"
  BY DEF GoodCopies
<1>2. BlockFlaws[b] = {}
  BY <1>1, RecordsAre, CheckedBody
<1> QED BY <1>2 DEF EntriesInv, Right

\* AcceptBlock of a body that commits as it must, at a position where it can be found.
LEMMA EntryStep ==
  ASSUME Inv, NEW b \in Blocks, NEW body \in Bodies, Committed(b, body),
         NEW pos \in Nat \cup {Appended},
         pos \in Positions => records[pos].block = b /\ records[pos].body = body,
         AcceptBlock(b, body, pos)
  PROVE  /\ index' \in [Blocks -> Entries]
         /\ \A a \in Blocks : Right(a, index'[a])
         /\ \A a \in Blocks : /\ index[a].known => index'[a].known
                              /\ index[a].pos # NoPos => index'[a].pos # NoPos
         /\ HeaderAccepted(b) => /\ index'[b].known
                                 /\ CheckBody(b, body) = "ok" => index'[b].pos # NoPos
<1> DEFINE e == NewEntry(b, body, pos)
<1>1. index \in [Blocks -> Entries] /\ index[b] \in Entries /\ Right(b, index[b])
  BY DEF Inv, TypeInv, EntriesInv
<1>2. pos # NoPos
  BY ImportAssumption
<1>3. e \in Entries
  BY <1>1 DEF NewEntry, Entries
<1>4. Right(b, e)
  <2>1. CASE e = index[b]
    BY <1>1, <2>1
  <2>2. CASE e # index[b]
    <3>1. /\ e.known /\ e.failed = (CheckBody(b, body) = "BLOCK_CONSENSUS")
          /\ e.pos = IF CheckBody(b, body) = "ok" THEN pos ELSE NoPos
      BY <2>2 DEF NewEntry
    <3>2. e.failed => BlockFlaws[b] # {}
      BY <3>1, CheckedBody
    <3>3. ASSUME e.pos \in Positions
          PROVE  e.pos \in GoodCopies(b)
      <4>1. Positions \subseteq Nat
        BY RecordsAre DEF Inv
      <4>2. CheckBody(b, body) = "ok" /\ e.pos = pos
        BY <3>1, <3>3, <4>1, ImportAssumption
      <4>3. body # Torn
        BY ImportAssumption
      <4> QED BY <3>3, <4>2, <4>3 DEF GoodCopies
    <3> QED BY <3>1, <3>2, <3>3 DEF Right
  <2> QED BY <2>1, <2>2
<1>5. /\ index[b].known => e.known
      /\ index[b].pos # NoPos => e.pos # NoPos
      /\ HeaderAccepted(b) => e.known /\ (CheckBody(b, body) = "ok" => e.pos # NoPos)
  BY <1>1, <1>2 DEF NewEntry, Right
<1>6. index' = [index EXCEPT ![b] = e]
  BY DEF AcceptBlock
<1> HIDE DEF e
<1>7. index' \in [Blocks -> Entries] /\ index'[b] = e /\ \A a \in Blocks : a # b => index'[a] = index[a]
  BY <1>1, <1>3, <1>6
<1> QED BY <1>4, <1>5, <1>7 DEF Inv, EntriesInv

\* A block with a good copy, on one with a good copy that is known, is accepted.
Acceptable(b) == b = Genesis \/ GoodCopies(Parent[b]) # {}

LEMMA AcceptableFacts ==
  ASSUME Inv, NEW b \in Blocks
  PROVE  /\ GoodCopies(b) # {} /\ Acceptable(b) /\ (b = Genesis \/ Known(Parent[b])) => HeaderAccepted(b)
         /\ Readable(b) => Acceptable(b) /\ GoodCopies(b) # {} /\ (b # Genesis => Readable(Parent[b]))
<1>1. b # Genesis => /\ Parent[b] \in Blocks /\ Path[Parent[b]] \subseteq Path[b]
                     /\ Parent[b] \in Path[b]
  BY ParentFacts, ChainFacts
<1>2. b \in Path[b]
  BY ChainFacts
<1>3. GoodCopies(b) # {} => ~index[b].failed
  BY GoodNotFailed DEF Inv
<1>4. b # Genesis /\ GoodCopies(Parent[b]) # {} => ~index[Parent[b]].failed
  BY <1>1, GoodNotFailed DEF Inv
<1> QED BY <1>1, <1>2, <1>3, <1>4 DEF HeaderAccepted, Acceptable, Readable

\* The files stay.
LEMMA SameFiles ==
  ASSUME UNCHANGED fileVars
  PROVE  /\ UNCHANGED <<mode, records, Positions>>
         /\ \A b : (GoodCopies(b))' = GoodCopies(b) /\ (Readable(b) <=> (Readable(b))')
         /\ \A b, at : InOrder(b, at) <=> (InOrder(b, at))'
         /\ \A b, entry : Right(b, entry) <=> (Right(b, entry))'
<1>1. UNCHANGED <<mode, records>>
  BY DEF fileVars
<1>2. UNCHANGED Positions
  BY <1>1 DEF Positions
<1>3. \A b : (GoodCopies(b))' = GoodCopies(b)
  BY <1>1, <1>2 DEF GoodCopies
<1>4. \A b : Readable(b) <=> (Readable(b))'
  BY <1>3 DEF Readable
<1>5. \A b, at : InOrder(b, at) <=> (InOrder(b, at))'
  BY <1>3 DEF InOrder
<1>6. \A b, entry : Right(b, entry) <=> (Right(b, entry))'
  BY <1>2, <1>3 DEF Right
<1> QED BY <1>1, <1>2, <1>3, <1>4, <1>5, <1>6

-----------------------------------------------------------------------------
(* The invariant holds at the start, and every step keeps it. *)

\* Entries that grew, in memory and on disk.
Grown ==
  /\ index' \in [Blocks -> Entries] /\ \A b \in Blocks : Right(b, index'[b])
  /\ \A b \in Blocks : /\ index[b].known => index'[b].known
                       /\ index[b].pos # NoPos => index'[b].pos # NoPos

\* Steps that leave the scan where it is.
LEMMA KeepsGrown ==
  ASSUME Inv, UNCHANGED <<fileVars, threadVars>>, Grown, disk' \in {disk, index}
  PROVE  Inv'
<1>1. UNCHANGED <<next, waiting, queue>>
  BY DEF threadVars
<1>2. TypeInv'
  BY <1>1, SameFiles DEF Inv, TypeInv, Grown
<1>3. EntriesInv'
  BY SameFiles DEF Inv, EntriesInv, Grown
<1>4. \A b \in Blocks : Handled(b) <=> (Handled(b))'
  BY <1>1, SameFiles DEF Handled
<1>5. ReindexInv'
  <2> SUFFICES ASSUME mode = "reindex"
               PROVE  ReindexInv'
    BY SameFiles DEF ReindexInv
  <2>1. \A b \in Blocks : (Readable(b))' /\ (Handled(b))' => index'[b].pos # NoPos
    BY <1>4, SameFiles DEF Inv, ReindexInv, Grown
  <2>2. \A b \in Range(queue) : b \in Blocks
    BY DEF Inv, TypeInv, Range
  <2>3. \A b \in Range(queue') : (Readable(b))' => index'[b].known
    BY <1>1, <2>2, SameFiles DEF Inv, ReindexInv, Grown
  <2>4. \A p \in waiting : records[p].block \in Blocks
    BY RecordsAre DEF Inv, TypeInv
  <2>5. \A p \in waiting : records[p].block # Genesis => Parent[records[p].block] \in Blocks
    BY <2>4, TreeAssumption
  <2> QED BY <1>1, <1>4, <2>1, <2>3, <2>4, <2>5, SameFiles DEF Inv, ReindexInv
<1>6. LoadInv'
  BY <1>1, SameFiles DEF Inv, LoadInv, Grown
<1> QED BY <1>2, <1>3, <1>5, <1>6 DEF Inv

\* ProcessNewBlock: the block is appended, and the scan knows nothing of it.
LEMMA KeepsSubmitBlock ==
  ASSUME Inv, SubmitBlock
  PROVE  Inv'
<1>1. PICK s \in Submitted :
        AcceptBlock(s.block, UpdateUncommittedBlockStructures(s.block, s.body), Appended)
  BY DEF SubmitBlock
<1> DEFINE body == UpdateUncommittedBlockStructures(s.block, s.body)
<1>2. s.block \in Blocks /\ s.body \in Bodies /\ Committed(s.block, body)
  BY ImportAssumption
<1>3. body \in Bodies
  BY <1>2 DEF UpdateUncommittedBlockStructures, Bodies
<1>4. Appended \notin Positions
  BY RecordsAre, ImportAssumption DEF Inv
<1> HIDE DEF body
<1>5. Grown
  BY <1>1, <1>2, <1>3, <1>4, EntryStep DEF Grown, body
<1> QED BY <1>5, KeepsGrown DEF SubmitBlock

\* FlushStateToDisk writes what is true.
LEMMA KeepsFlush ==
  ASSUME Inv, Flush
  PROVE  Inv'
<1>1. Grown
  BY DEF Flush, Inv, TypeInv, EntriesInv, Grown
<1> QED BY <1>1, KeepsGrown DEF Flush

\* The scan passes a record whose block is not noted.
LEMMA KeepsScan ==
  ASSUME Inv, Scanning, NEW b, b = records[next].block, Grown,
         next' = next + 1, waiting' = waiting, UNCHANGED <<fileVars, disk>>,
         next \in GoodCopies(b) /\ Acceptable(b) => index'[b].pos # NoPos /\ ThenChildrenOf(b),
         queue' = queue \/ ThenChildrenOf(b),
         Acceptable(b) /\ GoodCopies(b) # {} /\ queue' # queue => index'[b].known
  PROVE  Inv'
<1>1. /\ next \in Positions /\ b \in Blocks /\ next \in Nat \ {0} /\ queue = <<>>
      /\ \A p \in Positions : p \in Nat
  BY RecordsAre DEF Inv, TypeInv, Scanning
<1>2. queue' = <<>> \/ queue' = <<b>>
  BY <1>1 DEF ThenChildrenOf
<1>3. TypeInv'
  <2>1. queue' \in Seq(Blocks)
    <3>1. CASE queue' = <<>>
      BY <3>1
    <3>2. CASE queue' = <<b>>
      BY <1>1, <3>2
    <3> QED BY <1>2, <3>1, <3>2
  <2>2. next' \in Nat \ {0} /\ waiting' \subseteq Positions' /\ \A p \in waiting' : p < next'
    BY <1>1, SameFiles DEF Inv, TypeInv
  <2> QED BY <2>1, <2>2, SameFiles DEF Inv, TypeInv, Grown
<1>4. EntriesInv'
  BY SameFiles DEF Inv, EntriesInv, Grown
<1>5. \A a \in Blocks : (Handled(a))' => Handled(a) \/ (a = b /\ next \in GoodCopies(b))
  <2> TAKE a \in Blocks
  <2>1. HAVE (Handled(a))'
  <2>2. PICK p \in GoodCopies(a) : p < next + 1 /\ p \notin waiting
    BY <2>1, SameFiles DEF Handled
  <2>3. p \in Positions /\ records[p].block = a
    BY <2>2 DEF GoodCopies
  <2>4. p < next \/ p = next
    BY <1>1, <2>2, <2>3
  <2> QED BY <2>2, <2>3, <2>4 DEF Handled
<1>6. ReindexInv'
  <2> SUFFICES ASSUME mode = "reindex"
               PROVE  ReindexInv'
    BY SameFiles DEF ReindexInv
  <2>1. ASSUME NEW a \in Blocks, (Readable(a))', (Handled(a))'
        PROVE  index'[a].pos # NoPos
    BY <1>5, <2>1, SameFiles, AcceptableFacts DEF Inv, ReindexInv, Grown
  <2>2. ASSUME NEW a \in Range(queue'), (Readable(a))'
        PROVE  index'[a].known
    <3>1. queue' = <<b>> /\ a = b
      BY <1>2, <2>2 DEF Range
    <3> QED BY <1>1, <2>2, <3>1, SameFiles, AcceptableFacts
  <2>3. ASSUME NEW p \in waiting'
        PROVE  /\ records'[p].block # Genesis
               /\ (p \in GoodCopies(records[p].block))' /\ (Readable(records[p].block))'
                    /\ (Handled(Parent[records[p].block]))' => Parent[records'[p].block] \in Range(queue')
    <3> DEFINE a == records[p].block
    <3>1. a \in Blocks /\ a # Genesis /\ Parent[a] \in Blocks /\ records' = records
      BY <2>3, RecordsAre, TreeAssumption, SameFiles DEF Inv, TypeInv, ReindexInv
    <3>2. SUFFICES ASSUME p \in GoodCopies(a), Readable(a), (Handled(Parent[a]))'
                   PROVE  Parent[a] \in Range(queue')
      BY <3>1, SameFiles
    <3>3. ~Handled(Parent[a])
      <4>1. Range(queue) = {}
        BY <1>1 DEF Range
      <4> QED BY <2>3, <3>2, <4>1 DEF Inv, ReindexInv
    <3>4. Parent[a] = b /\ next \in GoodCopies(b) /\ Acceptable(b)
      BY <1>5, <3>1, <3>2, <3>3, AcceptableFacts
    <3>5. queue' = <<b>>
      BY <3>4 DEF ThenChildrenOf
    <3> QED BY <3>4, <3>5 DEF Range
  <2> QED BY <2>1, <2>2, <2>3 DEF ReindexInv
<1>7. LoadInv'
  <2> SUFFICES ASSUME mode = "loadblock"
               PROVE  LoadInv'
    BY SameFiles DEF LoadInv
  <2>1. queue' = <<>> /\ waiting' = {}
    BY <1>1 DEF Inv, LoadInv, ThenChildrenOf
  <2>2. ASSUME NEW a \in Blocks, NEW at \in [Path[a] -> Positions], InOrder(a, at), at[a] < next + 1
        PROVE  index'[a].pos # NoPos
    <3>1. a \in Path[a] /\ at[a] \in GoodCopies(a) /\ at[a] \in Positions
      BY <2>2, ChainFacts DEF InOrder
    <3>4. at[a] < next \/ at[a] = next
      <4>1. at[a] \in Nat
        BY <1>1, <3>1
      <4> QED BY <1>1, <2>2, <4>1
    <3>2. CASE at[a] < next
      BY <2>2, <3>2 DEF Inv, LoadInv, Grown
    <3>3. CASE at[a] = next
      <4>1. a = b
        BY <3>1, <3>3 DEF GoodCopies
      <4>2. Acceptable(a)
        <5>1. a # Genesis => Parent[a] \in Path[a]
          BY ParentFacts, ChainFacts
        <5> QED BY <2>2, <5>1 DEF Acceptable, InOrder
      <4> QED BY <3>1, <3>3, <4>1, <4>2
    <3> QED BY <3>2, <3>3, <3>4
  <2> QED BY <2>1, <2>2, SameFiles DEF LoadInv
<1> QED BY <1>3, <1>4, <1>6, <1>7 DEF Inv

\* A record whose parent is not known is noted by a reindex.
LEMMA KeepsOutOfOrder ==
  ASSUME Inv, OutOfOrder
  PROVE  Inv'
<1> DEFINE b == records[next].block
<1>1. /\ next \in Positions /\ b \in Blocks /\ next \in Nat \ {0} /\ queue = <<>>
      /\ \A p \in Positions : p \in Nat
  BY RecordsAre DEF Inv, TypeInv, OutOfOrder, Scanning
<1>2. /\ b # Genesis /\ Parent[b] \in Blocks /\ ~index[Parent[b]].known
  BY <1>1, TreeAssumption, ParentFacts DEF OutOfOrder, Known
<1>3. UNCHANGED <<fileVars, index, disk, queue>> /\ next' = next + 1
  BY DEF OutOfOrder
<1>4. waiting' = IF mode = "reindex" THEN waiting \cup {next} ELSE waiting
  BY DEF OutOfOrder
<1>5. TypeInv'
  <2>1. next' \in Nat \ {0} /\ waiting' \subseteq Positions' /\ \A p \in waiting' : p < next'
    BY <1>1, <1>3, <1>4, SameFiles DEF Inv, TypeInv
  <2> QED BY <1>3, <2>1, SameFiles DEF Inv, TypeInv
<1>6. EntriesInv'
  BY <1>3, SameFiles DEF Inv, EntriesInv
<1>7. ReindexInv'
  <2> SUFFICES ASSUME mode = "reindex"
               PROVE  ReindexInv'
    BY <1>3, SameFiles DEF ReindexInv
  <2>1. \A a \in Blocks : (Handled(a))' => Handled(a)
    <3> TAKE a \in Blocks
    <3>1. HAVE (Handled(a))'
    <3>2. PICK p \in GoodCopies(a) : p < next + 1 /\ p \notin waiting \cup {next}
      BY <1>3, <1>4, <3>1, SameFiles DEF Handled
    <3>3. p < next
      BY <1>1, <3>2 DEF GoodCopies
    <3> QED BY <3>2, <3>3 DEF Handled
  <2>2. \A a \in Blocks : (Readable(a))' /\ (Handled(a))' => index'[a].pos # NoPos
    BY <1>3, <2>1, SameFiles DEF Inv, ReindexInv
  <2>3. Range(queue) = {} /\ Range(queue') = {}
    BY <1>1, <1>3 DEF Range
  <2>4. ASSUME NEW p \in waiting'
        PROVE  /\ records'[p].block # Genesis
               /\ (p \in GoodCopies(records[p].block))' /\ (Readable(records[p].block))'
                    /\ (Handled(Parent[records[p].block]))' => Parent[records'[p].block] \in Range(queue')
    <3> DEFINE a == records[p].block
    <3>1. records' = records /\ (p \in waiting \/ p = next) /\ p \in Positions
      <4>1. p \in waiting \/ p = next
        BY <1>4, <2>4
      <4> QED BY <1>1, <1>3, <4>1, SameFiles DEF Inv, TypeInv
    <3>2. a \in Blocks /\ a # Genesis /\ Parent[a] \in Blocks
      BY <1>2, <3>1, RecordsAre, TreeAssumption DEF Inv, ReindexInv
    <3>3. SUFFICES ASSUME p \in GoodCopies(a), Readable(a), Handled(Parent[a])
                   PROVE  FALSE
      BY <1>3, <2>1, <3>1, <3>2, SameFiles
    <3>4. CASE p \in waiting
      BY <2>3, <3>3, <3>4 DEF Inv, ReindexInv
    <3>5. CASE p = next
      <4>1. Readable(Parent[a])
        BY <3>2, <3>3, AcceptableFacts
      <4>2. index[Parent[a]].pos # NoPos
        BY <3>2, <3>3, <4>1 DEF Inv, ReindexInv
      <4> QED BY <1>2, <3>5, <4>2 DEF Inv, EntriesInv, Right
    <3> QED BY <3>1, <3>4, <3>5
  <2> QED BY <2>2, <2>3, <2>4 DEF ReindexInv
<1>8. LoadInv'
  <2> SUFFICES ASSUME mode = "loadblock"
               PROVE  LoadInv'
    BY <1>3, SameFiles DEF LoadInv
  <2>1. queue' = <<>> /\ waiting' = {}
    BY <1>1, <1>3, <1>4 DEF Inv, LoadInv
  <2>2. ASSUME NEW a \in Blocks, NEW at \in [Path[a] -> Positions], InOrder(a, at), at[a] < next + 1
        PROVE  index[a].pos # NoPos
    <3>1. a \in Path[a] /\ at[a] \in GoodCopies(a) /\ at[a] \in Positions
      BY <2>2, ChainFacts DEF InOrder
    <3>2. at[a] < next \/ at[a] = next
      <4>1. at[a] \in Nat
        BY <1>1, <3>1
      <4> QED BY <1>1, <2>2, <4>1
    <3>3. CASE at[a] < next
      BY <2>2, <3>3 DEF Inv, LoadInv
    <3>4. CASE at[a] = next
      <4>1. a = b
        BY <3>1, <3>4 DEF GoodCopies
      <4>2. /\ Parent[a] \in Path[a] /\ Path[Parent[a]] \subseteq Path[a]
            /\ Parent[a] \in Path[Parent[a]]
        BY <1>2, <4>1, ParentFacts, ChainFacts
      <4> DEFINE below == [c \in Path[Parent[a]] |-> at[c]]
      <4>3. /\ below \in [Path[Parent[a]] -> Positions]
            /\ below[Parent[a]] = at[Parent[a]] /\ at[Parent[a]] < next
        <5>1. at[Parent[a]] < at[a]
          BY <1>2, <2>2, <3>1, <4>1 DEF InOrder
        <5> QED BY <2>2, <3>4, <4>2, <5>1
      <4>4. InOrder(Parent[a], below)
        <5> SUFFICES ASSUME NEW c \in Path[Parent[a]]
                     PROVE  below[c] \in GoodCopies(c) /\ (c = Genesis \/ below[Parent[c]] < below[c])
          BY DEF InOrder
        <5>1. c \in Path[a]
          BY <4>2
        <5>2. c = Genesis \/ Parent[c] \in Path[Parent[a]]
          BY <1>2, <4>1, ParentFacts, ChainFacts
        <5> QED BY <2>2, <5>1, <5>2 DEF InOrder
      <4> HIDE DEF below
      <4>5. index[Parent[a]].pos # NoPos
        BY <1>2, <4>1, <4>3, <4>4 DEF Inv, LoadInv
      <4> QED BY <1>2, <4>1, <4>5 DEF Inv, EntriesInv, Right
    <3> QED BY <3>2, <3>3, <3>4
  <2> QED BY <1>3, <2>1, <2>2, SameFiles DEF LoadInv
<1> QED BY <1>5, <1>6, <1>7, <1>8 DEF Inv

\* A block without data is read.
LEMMA KeepsReadBlock ==
  ASSUME Inv, ReadBlock
  PROVE  Inv'
<1> DEFINE b == records[next].block
           body == records[next].body
<1>1. /\ next \in Positions /\ b \in Blocks /\ next \in Nat /\ queue = <<>>
      /\ \A p \in Positions : p \in Nat
  BY RecordsAre DEF Inv, TypeInv, ReadBlock, Scanning
<1>2. /\ Scanning /\ (b = Genesis \/ Known(Parent[b]))
      /\ next' = next + 1 /\ waiting' = waiting /\ UNCHANGED <<fileVars, disk>>
  BY DEF ReadBlock
<1>3. CASE body = Torn
  <2>1. index' = index /\ queue' = queue
    BY <1>3 DEF ReadBlock
  <2>2. Grown
    BY <2>1 DEF Inv, TypeInv, EntriesInv, Grown
  <2>3. next \notin GoodCopies(b)
    BY <1>3 DEF GoodCopies
  <2> HIDE DEF b
  <2> QED BY <1>2, <2>1, <2>2, <2>3, KeepsScan DEF b
<1>4. CASE body # Torn
  <2>1. AcceptBlock(b, body, Found(next)) /\ ThenChildrenOf(b)
    BY <1>4 DEF ReadBlock
  <2>2. body \in Bodies /\ Committed(b, body)
    BY <1>1, <1>4, RecordsAre DEF Inv
  <2>3. /\ Found(next) \in Nat \cup {Appended}
        /\ Found(next) \in Positions => Found(next) = next
    BY <1>1, ImportAssumption DEF Found
  <2> DEFINE pos == Found(next)
  <2>4. pos \in Positions => records[pos].block = b /\ records[pos].body = body
    BY <2>3
  <2> HIDE DEF b, body, pos
  <2>5. /\ Grown
        /\ HeaderAccepted(b) => /\ index'[b].known
                                /\ CheckBody(b, body) = "ok" => index'[b].pos # NoPos
    BY <1>1, <2>1, <2>2, <2>3, <2>4, EntryStep DEF pos, Grown
  <2>6. GoodCopies(b) # {} /\ Acceptable(b) => HeaderAccepted(b)
    BY <1>1, <1>2, AcceptableFacts
  <2>7. next \in GoodCopies(b) => CheckBody(b, body) = "ok"
    BY DEF GoodCopies, b, body
  <2> QED BY <1>2, <2>1, <2>5, <2>6, <2>7, KeepsScan DEF b
<1> QED BY <1>3, <1>4

\* A block that is there already has its waiting children processed all the same.
LEMMA KeepsAlreadyHad ==
  ASSUME Inv, AlreadyHad
  PROVE  Inv'
<1> DEFINE b == records[next].block
<1>1. /\ b \in Blocks /\ Scanning /\ index[b].pos # NoPos /\ ThenChildrenOf(b)
      /\ next' = next + 1 /\ waiting' = waiting /\ UNCHANGED <<fileVars, index, disk>>
  BY RecordsAre DEF Inv, TypeInv, AlreadyHad, Scanning
<1>2. Grown /\ index[b].known
  BY <1>1 DEF Inv, TypeInv, EntriesInv, Right, Grown
<1> HIDE DEF b
<1> QED BY <1>1, <1>2, KeepsScan DEF b

\* What a queue holds besides its head.
LEMMA HeadAndTail ==
  ASSUME NEW S, NEW q \in Seq(S), q # <<>>
  PROVE  /\ Tail(q) \in Seq(S) /\ Head(q) \in S
         /\ Range(q) = {Head(q)} \cup Range(Tail(q))
<1>1. Len(q) \in Nat /\ Len(q) >= 1 /\ Head(q) = q[1] /\ DOMAIN q = 1 .. Len(q)
  OBVIOUS
<1>2. /\ Tail(q) \in Seq(S) /\ DOMAIN Tail(q) = 1 .. Len(q) - 1
      /\ \A i \in 1 .. Len(q) - 1 : Tail(q)[i] = q[i + 1]
  OBVIOUS
<1>3. Head(q) \in S
  BY <1>1
<1>4. ASSUME NEW x \in Range(q)
      PROVE  x \in {Head(q)} \cup Range(Tail(q))
  <2>1. PICK i \in 1 .. Len(q) : q[i] = x
    BY <1>1, <1>4 DEF Range
  <2>2. CASE i = 1
    BY <1>1, <2>1, <2>2
  <2>3. CASE i # 1
    <3>1. i - 1 \in 1 .. Len(q) - 1 /\ Tail(q)[i - 1] = x
      BY <1>1, <1>2, <2>1, <2>3
    <3> QED BY <1>2, <3>1 DEF Range
  <2> QED BY <2>2, <2>3
<1>5. ASSUME NEW x \in Range(Tail(q))
      PROVE  x \in Range(q)
  <2>1. PICK i \in 1 .. Len(q) - 1 : Tail(q)[i] = x
    BY <1>2, <1>5 DEF Range
  <2>2. i + 1 \in 1 .. Len(q) /\ q[i + 1] = x
    BY <1>1, <1>2, <2>1
  <2> QED BY <1>1, <2>2 DEF Range
<1>6. Head(q) \in Range(q)
  BY <1>1 DEF Range
<1> QED BY <1>2, <1>3, <1>4, <1>5, <1>6

\* A queue with one more at its end.
LEMMA OneMore ==
  ASSUME NEW S, NEW q \in Seq(S), NEW x \in S
  PROVE  /\ Append(q, x) \in Seq(S)
         /\ Range(Append(q, x)) = Range(q) \cup {x}
<1>1. /\ Append(q, x) \in Seq(S) /\ Len(q) \in Nat /\ DOMAIN q = 1 .. Len(q)
      /\ DOMAIN Append(q, x) = 1 .. Len(q) + 1
      /\ Append(q, x)[Len(q) + 1] = x
      /\ \A i \in 1 .. Len(q) : Append(q, x)[i] = q[i]
  OBVIOUS
<1>2. 1 .. Len(q) + 1 = (1 .. Len(q)) \cup {Len(q) + 1}
  BY <1>1
<1> QED BY <1>1, <1>2 DEF Range

\* Nobody waits any more for the head of the queue.
LEMMA KeepsNextInQueue ==
  ASSUME Inv, NextInQueue
  PROVE  Inv'
<1>1. /\ queue # <<>> /\ WaitingFor(Head(queue)) = {} /\ queue' = Tail(queue)
      /\ UNCHANGED <<fileVars, index, disk, next, waiting>>
  BY DEF NextInQueue
<1>2. /\ Tail(queue) \in Seq(Blocks)
      /\ Range(queue) = {Head(queue)} \cup Range(Tail(queue))
  BY <1>1, HeadAndTail DEF Inv, TypeInv
<1>3. TypeInv' /\ EntriesInv'
  BY <1>1, <1>2, SameFiles DEF Inv, TypeInv, EntriesInv
<1>4. ReindexInv'
  <2> SUFFICES ASSUME mode = "reindex"
               PROVE  ReindexInv'
    BY <1>1, SameFiles DEF ReindexInv
  <2>1. \A b \in Blocks : Handled(b) <=> (Handled(b))'
    BY <1>1, SameFiles DEF Handled
  <2>2. \A p \in waiting : records[p].block \in Blocks
                           /\ Parent[records[p].block] # Head(queue)
    BY <1>1, RecordsAre DEF Inv, TypeInv, WaitingFor
  <2>3. \A p \in waiting : Parent[records[p].block] \in Blocks
    BY <2>2, TreeAssumption DEF Inv, ReindexInv
  <2> QED BY <1>1, <1>2, <2>1, <2>2, <2>3, SameFiles DEF Inv, ReindexInv
<1>5. LoadInv'
  BY <1>1, SameFiles DEF Inv, LoadInv
<1> QED BY <1>3, <1>4, <1>5 DEF Inv

\* The import begins anew, with what was written.
LEMMA KeepsRestart ==
  ASSUME Inv, Restart
  PROVE  Inv'
<1>1. /\ mode = "reindex" /\ UNCHANGED <<fileVars, disk>> /\ index' = disk
      /\ next' = 1 /\ waiting' = {} /\ queue' = <<>>
  BY DEF Restart
<1>2. TypeInv' /\ EntriesInv'
  <2>1. <<>> \in Seq(Blocks)
    OBVIOUS
  <2> QED BY <1>1, <2>1, SameFiles DEF Inv, TypeInv, EntriesInv
<1>3. \A b : ~(Handled(b))'
  <2> SUFFICES ASSUME NEW b, NEW p \in GoodCopies(b), p < 1
               PROVE  FALSE
    BY <1>1, SameFiles DEF Handled
  <2>1. p \in Positions /\ Positions = 1 .. Len(records) /\ Len(records) \in Nat
    BY RecordsAre DEF Inv, GoodCopies
  <2> QED BY <2>1
<1>4. ReindexInv' /\ LoadInv'
  BY <1>1, <1>3, SameFiles DEF ReindexInv, LoadInv, Range, Modes
<1> QED BY <1>2, <1>4 DEF Inv

\* A noted child is read once its parent is at the head of the queue.
LEMMA KeepsProcessChild ==
  ASSUME Inv, ProcessChild
  PROVE  Inv'
<1> DEFINE h == Head(queue)
           pos == Min(WaitingFor(h))
           c == records[pos].block
           body == records[pos].body
<1>1. /\ queue # <<>> /\ WaitingFor(h) # {} /\ waiting' = waiting \ {pos}
      /\ UNCHANGED <<fileVars, disk, next>>
      /\ IF body = Torn
           THEN UNCHANGED <<index, queue>>
           ELSE /\ AcceptBlock(c, body, Found(pos))
                /\ queue' = IF Accepted(c, body) THEN Append(queue, c) ELSE queue
  BY DEF ProcessChild
<1>2. queue \in Seq(Blocks) /\ h \in Blocks /\ h \in Range(queue)
  BY <1>1, HeadAndTail DEF Inv, TypeInv
<1>3. pos \in waiting /\ Parent[c] = h
  <2>1. WaitingFor(h) \subseteq Nat
    BY RecordsAre DEF WaitingFor, Inv, TypeInv
  <2>2. \E x \in WaitingFor(h) : \A y \in WaitingFor(h) : x <= y
    BY <1>1, <2>1, LeastElement
  <2>3. pos \in WaitingFor(h)
    BY <2>2 DEF Min
  <2> QED BY <2>3 DEF WaitingFor
<1> HIDE DEF h, pos
<1>4. mode = "reindex" /\ pos \in Positions /\ c \in Blocks /\ c # Genesis
  BY <1>3, RecordsAre DEF Inv, TypeInv, LoadInv, ReindexInv, Modes
<1>5. Readable(c) => /\ Known(Parent[c]) /\ HeaderAccepted(c)
  <2>1. HAVE Readable(c)
  <2>2. Readable(h)
    BY <1>3, <1>4, <2>1, AcceptableFacts
  <2>3. Known(Parent[c])
    <3>1. index[h].known
      BY <1>2, <1>4, <2>2 DEF Inv, ReindexInv
    <3>2. h # NoBlock
      BY <1>2, TreeAssumption
    <3> QED BY <1>3, <3>1, <3>2 DEF Known
  <2> QED BY <1>4, <2>1, <2>3, AcceptableFacts
<1>6. /\ Grown /\ queue' \in Seq(Blocks)
      /\ Range(queue') \subseteq Range(queue) \cup {c} /\ Range(queue) \subseteq Range(queue')
      /\ c \in Range(queue') /\ c \notin Range(queue) => index'[c].known
      /\ pos \in GoodCopies(c) /\ Readable(c) => index'[c].pos # NoPos /\ c \in Range(queue')
  <2>1. CASE body = Torn
    <3>1. index' = index /\ queue' = queue
      BY <1>1, <2>1
    <3>2. Grown
      BY <3>1 DEF Inv, TypeInv, EntriesInv, Grown
    <3>3. pos \notin GoodCopies(c)
      BY <2>1 DEF GoodCopies
    <3> QED BY <1>2, <3>1, <3>2, <3>3
  <2>2. CASE body # Torn
    <3>1. /\ AcceptBlock(c, body, pos)
          /\ queue' = IF Accepted(c, body) THEN Append(queue, c) ELSE queue
      BY <1>1, <1>4, <2>2 DEF Found
    <3>2. body \in Bodies /\ Committed(c, body) /\ pos \in Nat
      BY <1>4, <2>2, RecordsAre DEF Inv
    <3>3. /\ Append(queue, c) \in Seq(Blocks)
          /\ Range(Append(queue, c)) = Range(queue) \cup {c}
      BY <1>2, <1>4, OneMore
    <3> HIDE DEF c, body
    <3>4. /\ Grown
          /\ HeaderAccepted(c) => /\ index'[c].known
                                  /\ CheckBody(c, body) = "ok" => index'[c].pos # NoPos
      BY <1>4, <3>1, <3>2, EntryStep DEF Grown, c, body
    <3>5. pos \in GoodCopies(c) => CheckBody(c, body) = "ok"
      BY DEF GoodCopies, body
    <3>6. Accepted(c, body) => HeaderAccepted(c)
      BY DEF Accepted
    <3>7. HeaderAccepted(c) /\ CheckBody(c, body) = "ok" => Accepted(c, body)
      BY DEF Accepted
    <3> QED BY <1>2, <1>5, <3>1, <3>3, <3>4, <3>5, <3>6, <3>7
  <2> QED BY <2>1, <2>2
<1>7. TypeInv' /\ EntriesInv'
  BY <1>1, <1>6, SameFiles DEF Inv, TypeInv, EntriesInv, Grown
<1>8. \A a \in Blocks : (Handled(a))' => Handled(a) \/ (a = c /\ pos \in GoodCopies(c))
  <2> TAKE a \in Blocks
  <2>1. HAVE (Handled(a))'
  <2>2. PICK p \in GoodCopies(a) : p < next /\ p \notin waiting \ {pos}
    BY <1>1, <2>1, SameFiles DEF Handled
  <2>3. p = pos => a = c
    BY <2>2 DEF GoodCopies
  <2> QED BY <2>2, <2>3 DEF Handled
<1> HIDE DEF c, body
<1>9. ReindexInv'
  <2>1. ASSUME NEW a \in Blocks, Readable(a), (Handled(a))'
        PROVE  index'[a].pos # NoPos
    BY <1>4, <1>6, <1>8, <2>1 DEF Inv, ReindexInv, Grown
  <2>2. ASSUME NEW a \in Range(queue'), Readable(a)
        PROVE  index'[a].known
    <3>1. \A x \in Range(queue) : x \in Blocks
      BY <1>2 DEF Range
    <3> QED BY <1>4, <1>6, <2>2, <3>1 DEF Inv, ReindexInv, Grown
  <2>3. ASSUME NEW p \in waiting'
        PROVE  /\ records[p].block # Genesis
               /\ p \in GoodCopies(records[p].block) /\ Readable(records[p].block)
                    /\ (Handled(Parent[records[p].block]))' => Parent[records[p].block] \in Range(queue')
    <3> DEFINE a == records[p].block
    <3>1. p \in waiting /\ a \in Blocks /\ a # Genesis /\ Parent[a] \in Blocks
      BY <1>1, <1>4, <2>3, RecordsAre, TreeAssumption DEF Inv, TypeInv, ReindexInv
    <3>2. SUFFICES ASSUME p \in GoodCopies(a), Readable(a), (Handled(Parent[a]))'
                   PROVE  Parent[a] \in Range(queue')
      BY <3>1
    <3>3. CASE Handled(Parent[a])
      BY <1>4, <1>6, <3>1, <3>2, <3>3 DEF Inv, ReindexInv
    <3>4. ASSUME Parent[a] = c, pos \in GoodCopies(c)
          PROVE  Parent[a] \in Range(queue')
      <4>1. Readable(c)
        BY <3>1, <3>2, <3>4, AcceptableFacts
      <4> QED BY <1>6, <3>4, <4>1
    <3>5. Handled(Parent[a]) \/ (Parent[a] = c /\ pos \in GoodCopies(c))
      BY <1>1, <1>8, <3>1, <3>2, SameFiles
    <3> QED BY <3>3, <3>4, <3>5
  <2> QED BY <1>1, <2>1, <2>2, <2>3, SameFiles DEF ReindexInv
<1>10. LoadInv'
  BY <1>1, <1>4, SameFiles DEF LoadInv, Modes
<1> QED BY <1>7, <1>9, <1>10 DEF Inv

\* At the start nothing is known and nothing was read.
LEMMA ImportStarts == ImportInit => Inv
<1> SUFFICES ASSUME ImportInit
             PROVE  Inv
  OBVIOUS
<1>1. /\ mode \in Modes /\ records \in Files /\ index = [b \in Blocks |-> NotIndexed]
      /\ disk = index /\ next = 1 /\ waiting = {} /\ queue = <<>>
  BY DEF ImportInit
<1>2. TypeInv
  <2>1. NotIndexed \in Entries /\ <<>> \in Seq(Blocks)
    BY DEF NotIndexed, Entries
  <2> QED BY <1>1, <2>1 DEF TypeInv
<1>3. EntriesInv
  <2>1. NoPos \notin Positions
    BY <1>2, RecordsAre, ImportAssumption
  <2> QED BY <1>1, <2>1 DEF EntriesInv, Right, NotIndexed
<1>4. \A p \in Positions : ~(p < next)
  BY <1>1, <1>2, RecordsAre
<1>5. ReindexInv
  BY <1>1, <1>4 DEF ReindexInv, Handled, GoodCopies, Range
<1>6. LoadInv
  <2>1. \A b \in Blocks : \A at \in [Path[b] -> Positions] : at[b] \in Positions
    BY ChainFacts
  <2> QED BY <1>1, <1>4, <2>1 DEF LoadInv
<1> QED BY <1>2, <1>3, <1>5, <1>6 DEF Inv

\* Every step keeps the invariant.
LEMMA ImportKeeps == Inv /\ [ImportNext]_importVars => Inv'
<1> SUFFICES ASSUME Inv, [ImportNext]_importVars
             PROVE  Inv'
  OBVIOUS
<1>1. CASE OutOfOrder
  BY <1>1, KeepsOutOfOrder
<1>2. CASE ReadBlock
  BY <1>2, KeepsReadBlock
<1>3. CASE AlreadyHad
  BY <1>3, KeepsAlreadyHad
<1>4. CASE ProcessChild
  BY <1>4, KeepsProcessChild
<1>5. CASE NextInQueue
  BY <1>5, KeepsNextInQueue
<1>6. CASE SubmitBlock
  BY <1>6, KeepsSubmitBlock
<1>7. CASE Flush
  BY <1>7, KeepsFlush
<1>8. CASE Restart
  BY <1>8, KeepsRestart
<1>9. CASE UNCHANGED importVars
  <2>1. Grown
    BY <1>9 DEF importVars, Inv, TypeInv, EntriesInv, Grown
  <2> QED BY <1>9, <2>1, KeepsGrown DEF importVars
<1> QED BY <1>1, <1>2, <1>3, <1>4, <1>5, <1>6, <1>7, <1>8, <1>9 DEF ImportNext

\* The invariant always holds.
LEMMA ImportInvariant == ImportSpec => []Inv
<1> QED BY ImportStarts, ImportKeeps, PTL DEF ImportSpec

-----------------------------------------------------------------------------
(* The theorems. *)

\* Once the files are read and nothing is queued, the invariant leaves no block out.
LEMMA NothingLeftOut == Inv => ImportComplete
<1> SUFFICES ASSUME Inv, Done, NEW b \in Blocks,
                    IF mode = "reindex" THEN Readable(b)
                                        ELSE \E at \in [Path[b] -> Positions] : InOrder(b, at)
             PROVE  index[b].pos # NoPos
  BY DEF ImportComplete
<1>1. /\ queue = <<>> /\ Range(queue) = {} /\ next \in Nat
      /\ Len(records) \in Nat /\ Positions = 1 .. Len(records) /\ next > Len(records)
  BY RecordsAre DEF Inv, TypeInv, Done, Range
<1>2. \A p \in Positions : p < next
  BY <1>1
<1>3. CASE mode = "reindex"
  <2> DEFINE Good == {a \in Blocks : Readable(a) => Handled(a)}
  <2>1. Genesis \in Good
    <3>1. Genesis \in Blocks
      BY TreeAssumption
    <3>2. ASSUME Readable(Genesis)
          PROVE  Handled(Genesis)
      <4>1. PICK p \in Positions : p \in GoodCopies(Genesis) /\ records[p].block = Genesis
        BY <3>1, <3>2, AcceptableFacts DEF Inv, GoodCopies
      <4> QED BY <1>2, <1>3, <4>1 DEF Inv, ReindexInv, Handled
    <3> QED BY <3>1, <3>2
  <2>2. \A a \in Blocks \ {Genesis} : Parent[a] \in Good => a \in Good
    <3> SUFFICES ASSUME NEW a \in Blocks \ {Genesis}, Parent[a] \in Good, Readable(a)
                 PROVE  Handled(a)
      OBVIOUS
    <3>1. Handled(Parent[a])
      BY AcceptableFacts
    <3>2. PICK p \in Positions : p \in GoodCopies(a) /\ records[p].block = a
      BY AcceptableFacts DEF Inv, GoodCopies
    <3> QED BY <1>1, <1>2, <1>3, <3>1, <3>2 DEF Inv, ReindexInv, Handled
  <2> HIDE DEF Good
  <2>3. b \in Good
    BY <2>1, <2>2, TreeInduction
  <2> QED BY <1>3, <2>3 DEF Good, Inv, ReindexInv
<1>4. CASE mode # "reindex"
  <2>1. mode = "loadblock"
    BY <1>4 DEF Inv, TypeInv, Modes
  <2>2. PICK at \in [Path[b] -> Positions] : InOrder(b, at)
    BY <1>4
  <2>3. at[b] < next
    BY <1>2, ChainFacts
  <2> QED BY <2>1, <2>2, <2>3 DEF Inv, LoadInv
<1> QED BY <1>3, <1>4

\* A finished reindex has found every block that has, with its ancestors, a good copy in the
\* files, whatever their order, the torn and altered copies, the blocks clients submit and the
\* restarts; a finished -loadblock every block whose ancestry is there in order
\* (LoadExternalBlockFile, blocks_with_unknown_parent and the queue).
THEOREM NoBlockIsLeftOut == ImportSpec => []ImportComplete
<1> QED BY ImportInvariant, NothingLeftOut, PTL

\* Where the index says a block is, the files hold a body its header commits to that passes
\* every check, for the block the scan reads and for a waiting child (LoadExternalBlockFile's
\* dbp and AcceptBlock).
THEOREM BlocksAreWhereNoted == ImportSpec => []PositionsRight
<1>1. Inv => PositionsRight
  BY DEF Inv, EntriesInv, Right, PositionsRight
<1> QED BY <1>1, ImportInvariant, PTL

\* Only a block whose committed content breaks a rule is ever marked as failed, whatever
\* altered copies the files hold and clients submit (AcceptBlock, the order of the checks).
THEOREM OnlyFlawedBlamed == ImportSpec => []NotBlamed
<1>1. Inv => NotBlamed
  BY DEF Inv, EntriesInv, Right, NotBlamed
<1> QED BY <1>1, ImportInvariant, PTL
=============================================================================
