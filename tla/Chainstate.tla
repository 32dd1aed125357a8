----------------------------- MODULE Chainstate -----------------------------
(***************************************************************************)
(* The block index and the active chain of one Chainstate: validation.cpp  *)
(* from AcceptBlockHeader to ActivateBestChain, with the operator calls    *)
(* invalidateblock, reconsiderblock, preciousblock and pruneblockchain.    *)
(*                                                                         *)
(* Threads (peer message handling and RPC workers) run the handlers.  A    *)
(* section of code under cs_main is one step, except that the loop of      *)
(* ActivateBestChain is cut at every block it connects or disconnects: the *)
(* thread keeps cs_main, so no other thread sees the states in between.    *)
(* Where the code releases cs_main and keeps m_chainstate_mutex (between   *)
(* the rounds of ActivateBestChain, between the disconnections of          *)
(* InvalidateBlock) every other handler may run.                           *)
(*                                                                         *)
(* A block is a name; its hash fixes its parent and with it the whole tree *)
(* below it, so the tree is a constant and the state says how much of it   *)
(* this node has seen, stored, linked and judged.                          *)
(***************************************************************************)
EXTENDS Naturals, Integers, FiniteSets

CONSTANTS
  Threads,          \* threads that call into validation
  Blocks,           \* every block any peer may send, Genesis among them
  Genesis,
  NoBlock,          \* nullptr
  Parent,           \* pprev, for every block but Genesis
  Path,             \* Path[b]: b and all its ancestors (what GetAncestor reaches)
  Height,           \* nHeight
  Work,             \* nChainWork
  Addr,             \* the address of the CBlockIndex, the last tie-break of the order
  BodyInvalid,      \* blocks ContextualCheckBlock rejects
  ConnectInvalid,   \* blocks ConnectBlock rejects
  MinBlocksToKeep,  \* MIN_BLOCKS_TO_KEEP, 288 in the code
  ConnectBatch,     \* the 32 blocks of a batch of ActivateBestChainStep
  PruneMode,        \* IsPruneMode()
  Reconsiderable,   \* the blocks operators may give to reconsiderblock
  Precious,         \* the blocks they may give to preciousblock
  MaxSequenceId,    \* bound on nBlockSequenceId
  MaxPrecious       \* bound on the number of reverse sequence ids handed out

ASSUME ThreadsAssumption == Threads # {} /\ NoBlock \notin Blocks

ASSUME TreeAssumption ==
  /\ IsFiniteSet(Blocks) /\ Genesis \in Blocks
  /\ Parent \in [Blocks \ {Genesis} -> Blocks]
  /\ Path \in [Blocks -> SUBSET Blocks]
  /\ Path[Genesis] = {Genesis}
  /\ \A b \in Blocks \ {Genesis} : b \notin Path[Parent[b]] /\ Path[b] = Path[Parent[b]] \cup {b}
  /\ \A b \in Blocks : \A x, y \in Path[b] : x \in Path[y] \/ y \in Path[x]
  /\ \A b \in Blocks : Genesis \in Path[b] /\ \A a \in Path[b] : Path[a] \subseteq Path[b]

ASSUME MeasureAssumption ==
  /\ Height \in [Blocks -> Nat] /\ Work \in [Blocks -> Nat] /\ Addr \in [Blocks -> Nat]
  /\ \A b \in Blocks \ {Genesis} :
       Height[b] = Height[Parent[b]] + 1 /\ Work[b] > Work[Parent[b]]
  /\ \A b \in Blocks : \A a \in Path[b] \ {b} : Work[a] < Work[b]
  /\ \A a, b \in Blocks : Addr[a] = Addr[b] => a = b
  /\ Genesis \notin BodyInvalid \cup ConnectInvalid

ASSUME BoundAssumption ==
  /\ MinBlocksToKeep \in Nat \ {0} /\ ConnectBatch \in Nat \ {0}
  /\ MaxSequenceId \in Nat \ {0} /\ MaxPrecious \in Nat
  /\ PruneMode \in BOOLEAN /\ Reconsiderable \cup Precious \subseteq Blocks

VARIABLES
  \* the block index: which entries exist and the flags of their nStatus
  index,            \* m_block_index
  haveData,         \* BLOCK_HAVE_DATA
  validTx,          \* validity >= BLOCK_VALID_TRANSACTIONS, that is nTx > 0
  chainTx,          \* HaveNumChainTxs(): the block and all its ancestors were received
  validScripts,     \* validity >= BLOCK_VALID_SCRIPTS
  failedValid,      \* BLOCK_FAILED_VALID
  failedChild,      \* BLOCK_FAILED_CHILD
  nSequenceId,
  \* the sets and markers around it
  setBlockIndexCandidates,
  m_blocks_unlinked,  \* the second elements of the multimap; Parent gives the first
  m_failed_blocks,
  m_best_invalid,
  m_best_header,
  \* the active chain
  tip,
  \* sequence counters
  nBlockSequenceId,
  nBlockReverseSequenceId,
  nLastPreciousChainwork,
  \* threads, and the locals of the one thread that has m_chainstate_mutex
  pc,
  pindexMostWork,
  startingTip,      \* starting_tip of a round of ActivateBestChain
  pindexOldTip,     \* of ActivateBestChainStep
  batchTop,         \* vpindexToConnect.front()
  blocksConnected,
  invTarget,        \* the block invalidateblock was given
  toMarkFailed,
  candidateBlocksByWork

indexVars == <<index, m_best_header>>
dataVars == <<haveData, validTx, chainTx, m_blocks_unlinked>>
failVars == <<failedValid, failedChild, m_failed_blocks, m_best_invalid>>
preciousVars == <<nBlockReverseSequenceId, nLastPreciousChainwork>>
seqVars == <<nSequenceId, nBlockSequenceId, preciousVars>>
chainVars == <<tip, validScripts>>
abcVars == <<pindexMostWork, startingTip, pindexOldTip, batchTop, blocksConnected>>
invVars == <<invTarget, toMarkFailed, candidateBlocksByWork>>
vars == <<indexVars, dataVars, failVars, seqVars, setBlockIndexCandidates, chainVars,
          pc, abcVars, invVars>>

-----------------------------------------------------------------------------
(* Reading the index. *)

Failed == failedValid \cup failedChild        \* BLOCK_FAILED_MASK
Active == Path[tip]                           \* m_chain
FailedMask(b) == b \in Failed
IsValidTransactions(b) == b \in validTx /\ ~FailedMask(b)

\* CBlockIndexWorkComparator: a sorts before b, that is, b is the better one.
WorseBy(seq, a, b) ==
  \/ Work[a] < Work[b]
  \/ Work[a] = Work[b] /\ seq[a] > seq[b]
  \/ Work[a] = Work[b] /\ seq[a] = seq[b] /\ Addr[a] > Addr[b]
Worse(a, b) == WorseBy(nSequenceId, a, b)

\* The locks.  A thread inside a round of ActivateBestChain has cs_main; it has
\* m_chainstate_mutex from the first round to the last, as has InvalidateBlock.
InRound == {"find", "disconnect", "connect", "unlock", "fatal"}
InChainstate == InRound \cup {"lock", "inv"}
CsMainFree == \A u \in Threads : pc[u] \notin InRound
ChainstateMutexFree == \A u \in Threads : pc[u] \notin InChainstate

Goto(t, label) == pc' = [pc EXCEPT ![t] = label]

\* The state a failed block leaves in m_best_invalid and m_best_header
\* (InvalidChainFound); newTip is the tip of the chain at that point.
InvalidChainFound(b) ==
  /\ m_best_invalid' =
       IF m_best_invalid = NoBlock \/ Work[b] > Work[m_best_invalid] THEN b ELSE m_best_invalid
  /\ m_best_header' = IF b \in Path[m_best_header] THEN tip ELSE m_best_header

-----------------------------------------------------------------------------
(* Headers and blocks from peers. *)

HeaderKnown(b) == b \in index /\ ~FailedMask(b)

\* The blocks of m_failed_blocks a new header descends from.  AcceptBlockHeader
\* does not look when the parent is known to be fully valid.
FailedAncestors(b) ==
  IF Parent[b] \in validScripts /\ ~FailedMask(Parent[b]) THEN {}
  ELSE m_failed_blocks \cap Path[Parent[b]]

HeaderConnects(b) == b \notin index /\ Parent[b] \in index /\ ~FailedMask(Parent[b])
HeaderNew(b) == HeaderConnects(b) /\ FailedAncestors(b) = {}
HeaderAccepted(b) == HeaderKnown(b) \/ HeaderNew(b)

AddToBlockIndex_NotInserted(b) ==      \* faulty: the entry is not stored
  /\ index' = index
  /\ m_best_header' = m_best_header
AddToBlockIndex(b) ==
  /\ index' = index \cup {b}
  /\ m_best_header' = IF b \notin index /\ Work[m_best_header] < Work[b] THEN b ELSE m_best_header

\* ProcessNewBlockHeaders: a header that is new and connects.
AcceptHeader(t, b) ==
  /\ pc[t] = "idle" /\ CsMainFree
  /\ HeaderNew(b)
  /\ AddToBlockIndex(b)
  /\ UNCHANGED <<dataVars, failVars, seqVars, setBlockIndexCandidates, chainVars, pc, abcVars, invVars>>

\* A header (alone or with its block) that descends from a failed block is
\* refused, and the entries between that block and the header's parent are marked.
RejectHeader(t, b) ==
  /\ pc[t] = "idle" /\ CsMainFree
  /\ HeaderConnects(b)
  /\ \E failedit \in FailedAncestors(b) :
       failedChild' = failedChild \cup (Path[Parent[b]] \ Path[failedit])
  /\ UNCHANGED <<indexVars, dataVars, failedValid, m_failed_blocks, m_best_invalid, seqVars,
                 setBlockIndexCandidates, chainVars, pc, abcVars, invVars>>

\* AcceptBlock returns early: the data is there already, or nobody asked for the
\* block and it was pruned before, has less work than the tip or is too far ahead.
NotProcessed(b, requested) ==
  \/ b \in haveData
  \/ /\ ~requested
     /\ \/ b \in validTx
        \/ Work[b] < Work[tip]
        \/ Height[b] > Height[tip] + MinBlocksToKeep

IgnoreBlock(t, b, requested) ==
  /\ pc[t] = "idle" /\ CsMainFree
  /\ HeaderAccepted(b) /\ NotProcessed(b, requested)
  /\ AddToBlockIndex(b)
  /\ Goto(t, "abc")
  /\ UNCHANGED <<dataVars, failVars, seqVars, setBlockIndexCandidates, chainVars, abcVars, invVars>>

\* ContextualCheckBlock fails.  A malleated copy of a block (BLOCK_MUTATED) leaves
\* no mark; an invalid block is marked but does not enter m_failed_blocks.
RejectBlock(t, b, requested, mutated) ==
  /\ pc[t] = "idle" /\ CsMainFree
  /\ HeaderAccepted(b) /\ ~NotProcessed(b, requested)
  /\ mutated \/ b \in BodyInvalid
  /\ AddToBlockIndex(b)
  /\ failedValid' = IF mutated THEN failedValid ELSE failedValid \cup {b}
  /\ UNCHANGED <<dataVars, failedChild, m_failed_blocks, m_best_invalid, seqVars,
                 setBlockIndexCandidates, chainVars, pc, abcVars, invVars>>

\* ReceivedBlockTransactions takes b and then every block that only waited for it.
NewlyLinked(b) ==
  {c \in m_blocks_unlinked \cup {b} : b \in Path[c] /\ Path[c] \ Path[b] \subseteq m_blocks_unlinked}

\* The orders in which its queue may process a set of blocks: parents before children.
QueueOrders(S) ==
  {f \in [S -> 1..Cardinality(S)] : \A x, y \in S : /\ f[x] = f[y] => x = y
                                                    /\ Height[x] < Height[y] => f[x] < f[y]}

TryAddBlockIndexCandidates(S) ==
  setBlockIndexCandidates' =
    setBlockIndexCandidates \cup {c \in S : ~WorseBy(nSequenceId', c, tip)}

\* The block is received with its parents complete: it and the blocks waiting for
\* it are linked, numbered and become candidates.
LinkBlock(b) ==
  \E order \in QueueOrders(NewlyLinked(b)) :
    /\ chainTx' = chainTx \cup NewlyLinked(b)
    /\ m_blocks_unlinked' = m_blocks_unlinked \ NewlyLinked(b)
    /\ nSequenceId' = [c \in Blocks |-> IF c \in NewlyLinked(b)
                                        THEN nBlockSequenceId + order[c] - 1 ELSE nSequenceId[c]]
    /\ nBlockSequenceId' = nBlockSequenceId + Cardinality(NewlyLinked(b))
    /\ TryAddBlockIndexCandidates(NewlyLinked(b))

\* A parent was never received: the block waits in m_blocks_unlinked.
ParkBlock_Forgotten(b) ==              \* faulty: nothing remembers that the block waits
  UNCHANGED <<m_blocks_unlinked, chainTx, nSequenceId, nBlockSequenceId, setBlockIndexCandidates>>
ParkBlock(b) ==
  /\ m_blocks_unlinked' = m_blocks_unlinked \cup (IF FailedMask(Parent[b]) THEN {} ELSE {b})
  /\ UNCHANGED <<chainTx, nSequenceId, nBlockSequenceId, setBlockIndexCandidates>>

StoreBlock(t, b, requested) ==
  /\ pc[t] = "idle" /\ CsMainFree
  /\ HeaderAccepted(b) /\ ~NotProcessed(b, requested)
  /\ b \notin BodyInvalid
  /\ nBlockSequenceId + Cardinality(NewlyLinked(b)) <= MaxSequenceId + 1
  /\ AddToBlockIndex(b)
  /\ haveData' = haveData \cup {b}
  /\ validTx' = validTx \cup {b}
  /\ IF Parent[b] \in chainTx THEN LinkBlock(b) ELSE ParkBlock(b)
  /\ Goto(t, "abc")
  /\ UNCHANGED <<failVars, preciousVars, chainVars, abcVars, invVars>>

-----------------------------------------------------------------------------
(* ActivateBestChain. *)

AbcBegin(t) ==
  /\ pc[t] = "abc" /\ ChainstateMutexFree
  /\ Goto(t, "lock")
  /\ UNCHANGED <<indexVars, dataVars, failVars, seqVars, setBlockIndexCandidates, chainVars, abcVars, invVars>>

\* LOCK(cs_main) at the head of a round.  pindexMostWork survives from the round before.
AbcLock(t) ==
  /\ pc[t] = "lock" /\ CsMainFree
  /\ startingTip' = tip
  /\ blocksConnected' = FALSE
  /\ Goto(t, "find")
  /\ UNCHANGED <<indexVars, dataVars, failVars, seqVars, setBlockIndexCandidates, chainVars,
                 pindexMostWork, pindexOldTip, batchTop, invVars>>

IsBestCandidate(c) ==
  c \in setBlockIndexCandidates /\ \A d \in setBlockIndexCandidates \ {c} : Worse(d, c)

\* What FindMostWorkChain cannot use on the way from a candidate to the active chain,
\* and the first such block it meets.
Unusable_MarksIgnored(c) == {x \in Path[c] \ Active : x \notin haveData}      \* faulty
Unusable(c) == {x \in Path[c] \ Active : FailedMask(x) \/ x \notin haveData}
IsFirstUnusable(x, c) == x \in Unusable(c) /\ \A y \in Unusable(c) : Height[y] <= Height[x]

\* The part of the branch to c above the unusable block x, and what leaves the
\* candidates together with it.
Above(c, x) == Path[c] \ Path[x]
Discarded_AboveOnly(c, x) == Above(c, x)     \* faulty: the unusable block itself stays
Discarded(c, x) == Above(c, x) \cup {x}
WaitForData_Never(c, x) == {}                \* faulty: the branch is dropped for good
WaitForData(c, x) == Above(c, x)

SelectMostWork(t) ==
  /\ pc[t] = "find" /\ pindexMostWork = NoBlock
  /\ \E c \in setBlockIndexCandidates :
       /\ IsBestCandidate(c) /\ Unusable(c) = {}
       /\ pindexMostWork' = c
  /\ UNCHANGED <<indexVars, dataVars, failVars, seqVars, setBlockIndexCandidates, chainVars, pc,
                 startingTip, pindexOldTip, batchTop, blocksConnected, invVars>>

\* The best candidate descends from a failed block: everything above it is marked.
DiscardFailedCandidate(t) ==
  /\ pc[t] = "find" /\ pindexMostWork = NoBlock
  /\ \E c \in setBlockIndexCandidates : \E x \in Path[c] :
       /\ IsBestCandidate(c) /\ IsFirstUnusable(x, c) /\ FailedMask(x)
       /\ m_best_invalid' =
            IF m_best_invalid = NoBlock \/ Work[c] > Work[m_best_invalid] THEN c ELSE m_best_invalid
       /\ failedChild' = failedChild \cup Above(c, x)
       /\ setBlockIndexCandidates' = setBlockIndexCandidates \ Discarded(c, x)
  /\ UNCHANGED <<indexVars, dataVars, failedValid, m_failed_blocks, seqVars, chainVars, pc,
                 abcVars, invVars>>

\* The best candidate needs a block whose data was pruned: what is above it waits
\* in m_blocks_unlinked for that block to come again.
DiscardMissingCandidate(t) ==
  /\ pc[t] = "find" /\ pindexMostWork = NoBlock
  /\ \E c \in setBlockIndexCandidates : \E x \in Path[c] :
       /\ IsBestCandidate(c) /\ IsFirstUnusable(x, c) /\ ~FailedMask(x)
       /\ m_blocks_unlinked' = m_blocks_unlinked \cup WaitForData(c, x)
       /\ setBlockIndexCandidates' = setBlockIndexCandidates \ Discarded(c, x)
  /\ UNCHANGED <<indexVars, haveData, validTx, chainTx, failVars, seqVars, chainVars, pc,
                 abcVars, invVars>>

\* Nothing better than the tip: leave the round.
AbcNothingToDo(t) ==
  /\ pc[t] = "find"
  /\ pindexMostWork = tip \/ (pindexMostWork = NoBlock /\ setBlockIndexCandidates = {})
  /\ Goto(t, "unlock")
  /\ UNCHANGED <<indexVars, dataVars, failVars, seqVars, setBlockIndexCandidates, chainVars, abcVars, invVars>>

\* ActivateBestChainStep begins.
AbcStep(t) ==
  /\ pc[t] = "find" /\ pindexMostWork \notin {NoBlock, tip}
  /\ pindexOldTip' = tip
  /\ Goto(t, "disconnect")
  /\ UNCHANGED <<indexVars, dataVars, failVars, seqVars, setBlockIndexCandidates, chainVars,
                 pindexMostWork, startingTip, batchTop, blocksConnected, invVars>>

\* DisconnectTip, while the tip is not on the way to pindexMostWork.
AbcDisconnectTip(t) ==
  /\ pc[t] = "disconnect" /\ tip \notin Path[pindexMostWork] /\ tip \in haveData
  /\ tip' = Parent[tip]
  /\ UNCHANGED <<indexVars, dataVars, failVars, seqVars, setBlockIndexCandidates, validScripts,
                 pc, abcVars, invVars>>

\* The block to disconnect was pruned: ReadBlockFromDisk fails and the node shuts down.
AbcFatal(t) ==
  /\ pc[t] = "disconnect" /\ tip \notin Path[pindexMostWork] /\ tip \notin haveData
  /\ Goto(t, "fatal")
  /\ UNCHANGED <<indexVars, dataVars, failVars, seqVars, setBlockIndexCandidates, chainVars, abcVars, invVars>>

\* The top of the batch of at most ConnectBatch blocks above b towards pindexMostWork.
IsBatchTop(x, b) ==
  x \in Path[pindexMostWork] /\
  Height[x] = IF Height[b] + ConnectBatch < Height[pindexMostWork]
              THEN Height[b] + ConnectBatch ELSE Height[pindexMostWork]

AbcBuildBatch(t) ==
  /\ pc[t] = "disconnect" /\ tip \in Path[pindexMostWork]
  /\ \E x \in index : IsBatchTop(x, tip) /\ batchTop' = x
  /\ Goto(t, "connect")
  /\ UNCHANGED <<indexVars, dataVars, failVars, seqVars, setBlockIndexCandidates, chainVars,
                 pindexMostWork, startingTip, pindexOldTip, blocksConnected, invVars>>

\* b is the block above the tip on the way to pindexMostWork.
IsNext(b) == b \in Path[pindexMostWork] \ Active /\ Parent[b] = tip

\* The end of a step: another one in the same round while the tip is worse than at
\* the round's start (pindexMostWork turned out invalid half way).
EndStep_Once(t, newTip) ==             \* faulty: one step per round
  /\ blocksConnected' = TRUE
  /\ Goto(t, "unlock")
EndStep(t, newTip) ==
  /\ blocksConnected' = TRUE
  /\ Goto(t, IF Worse(newTip, startingTip) THEN "find" ELSE "unlock")

PruneBlockIndexCandidates(newTip) ==
  setBlockIndexCandidates' = {c \in setBlockIndexCandidates : ~Worse(c, newTip)}

\* ConnectTip succeeds.  The step ends at pindexMostWork, or as soon as the tip has
\* more work than at its start.
AbcConnectTip(t, b) ==
  /\ pc[t] = "connect" /\ IsNext(b) /\ b \notin ConnectInvalid
  /\ tip' = b
  /\ validScripts' = validScripts \cup {b}
  /\ PruneBlockIndexCandidates(b)
  /\ IF b = pindexMostWork \/ Work[b] > Work[pindexOldTip]
     THEN EndStep(t, b) /\ UNCHANGED batchTop
     ELSE /\ IF b = batchTop THEN \E x \in index : IsBatchTop(x, b) /\ batchTop' = x
                             ELSE UNCHANGED batchTop
          /\ UNCHANGED <<pc, blocksConnected>>
  /\ UNCHANGED <<indexVars, dataVars, failVars, seqVars, pindexMostWork, startingTip, pindexOldTip, invVars>>

\* ConnectBlock rejects the block: InvalidBlockFound marks it, InvalidChainFound is
\* called for it and for the top of the batch, and pindexMostWork is chosen anew.
AbcConnectInvalid(t, b) ==
  /\ pc[t] = "connect" /\ IsNext(b) /\ b \in ConnectInvalid
  /\ failedValid' = failedValid \cup {b}
  /\ m_failed_blocks' = m_failed_blocks \cup {b}
  /\ setBlockIndexCandidates' = setBlockIndexCandidates \ {b}
  /\ m_best_invalid' =
       IF m_best_invalid = NoBlock \/ Work[batchTop] > Work[m_best_invalid] THEN batchTop ELSE m_best_invalid
  /\ m_best_header' = IF b \in Path[m_best_header] THEN tip ELSE m_best_header
  /\ pindexMostWork' = NoBlock
  /\ EndStep(t, tip)
  /\ UNCHANGED <<index, dataVars, failedChild, seqVars, chainVars, startingTip, pindexOldTip, batchTop, invVars>>

\* Another round follows unless nothing was connected or the new tip is pindexMostWork.
AnotherRound_Never == FALSE            \* faulty
AnotherRound == blocksConnected /\ tip # pindexMostWork

\* End of a round: cs_main is released, and after the last one m_chainstate_mutex too.
AbcUnlock(t) ==
  /\ pc[t] = "unlock"
  /\ startingTip' = NoBlock /\ pindexOldTip' = NoBlock /\ batchTop' = NoBlock
  /\ blocksConnected' = FALSE
  /\ IF AnotherRound
     THEN Goto(t, "lock") /\ UNCHANGED pindexMostWork
     ELSE Goto(t, "idle") /\ pindexMostWork' = NoBlock
  /\ UNCHANGED <<indexVars, dataVars, failVars, seqVars, setBlockIndexCandidates, chainVars, invVars>>

-----------------------------------------------------------------------------
(* Operator calls. *)

\* preciousblock: the block is treated as if it had arrived first among equals.
PreciousBlock(t, b) ==
  /\ pc[t] = "idle" /\ CsMainFree
  /\ b \in index \cap Precious /\ Work[b] >= Work[tip]
  /\ LET id == IF Work[tip] > nLastPreciousChainwork THEN -1 ELSE nBlockReverseSequenceId IN
     /\ id >= -MaxPrecious
     /\ nSequenceId' = [nSequenceId EXCEPT ![b] = id]
     /\ nBlockReverseSequenceId' = id - 1
  /\ nLastPreciousChainwork' = Work[tip]
  /\ setBlockIndexCandidates' =
       IF IsValidTransactions(b) /\ b \in chainTx
       THEN {c \in setBlockIndexCandidates \cup {b} : ~WorseBy(nSequenceId', c, tip)}
       ELSE setBlockIndexCandidates \ {b}
  /\ Goto(t, "abc")
  /\ UNCHANGED <<indexVars, dataVars, failVars, nBlockSequenceId, chainVars, abcVars, invVars>>

\* invalidateblock takes m_chainstate_mutex and notes, in one pass over the index,
\* which blocks outside the chain may become candidates as the tip goes down.
InvalidateBegin(t, b) ==
  /\ pc[t] = "idle" /\ ChainstateMutexFree
  /\ b \in index \ {Genesis}
  /\ invTarget' = b /\ toMarkFailed' = b
  /\ candidateBlocksByWork' = {c \in (index \ Active) \cap chainTx :
                                 ~Worse(c, Parent[b]) /\ IsValidTransactions(c)}
  /\ Goto(t, "inv")
  /\ UNCHANGED <<indexVars, dataVars, failVars, seqVars, setBlockIndexCandidates, chainVars, abcVars>>

\* One disconnection.  The code means to turn the mark of the block disconnected
\* before into BLOCK_FAILED_CHILD, but tests "invalid_walk_tip->pprev ==
\* to_mark_failed" where that block is the child of invalid_walk_tip: the test can
\* only hold before the first disconnection, and then the block carries no mark.
CorrectsMark == Parent[tip] = toMarkFailed /\ toMarkFailed \in failedValid

InvalidateDisconnect(t) ==
  /\ pc[t] = "inv" /\ CsMainFree
  /\ invTarget \in Active /\ tip \in haveData
  /\ tip' = Parent[tip]
  /\ failedValid' = (failedValid \cup {tip}) \ (IF CorrectsMark THEN {toMarkFailed} ELSE {})
  /\ failedChild' = failedChild \cup (IF CorrectsMark THEN {toMarkFailed} ELSE {})
  /\ LET ready == {c \in candidateBlocksByWork : ~Worse(c, Parent[tip])} IN
     /\ setBlockIndexCandidates' = (setBlockIndexCandidates \ {tip}) \cup {Parent[tip]} \cup ready
     /\ candidateBlocksByWork' = candidateBlocksByWork \ ready
  /\ toMarkFailed' = tip
  /\ UNCHANGED <<indexVars, dataVars, m_failed_blocks, m_best_invalid, seqVars, validScripts, pc, abcVars, invTarget>>

\* The block to disconnect was pruned: InvalidateBlock returns false and leaves what
\* it has done so far; the RPC handler goes on to ActivateBestChain.
InvalidateFails(t) ==
  /\ pc[t] = "inv" /\ CsMainFree
  /\ invTarget \in Active /\ tip \notin haveData
  /\ invTarget' = NoBlock /\ toMarkFailed' = NoBlock /\ candidateBlocksByWork' = {}
  /\ Goto(t, "abc")
  /\ UNCHANGED <<indexVars, dataVars, failVars, seqVars, setBlockIndexCandidates, chainVars, abcVars>>

\* What arrived while cs_main was free and the pass over the index at the start missed.
MissingCandidates_NotSwept == {}       \* faulty: the index is not swept again
MissingCandidates ==
  {c \in index \cap chainTx \cap validTx : c \notin Failed \cup {toMarkFailed} /\ ~Worse(c, tip)}

\* The block is out of the chain: mark it, and sweep the index for candidates.
InvalidateFinish(t) ==
  /\ pc[t] = "inv" /\ CsMainFree
  /\ invTarget \notin Active
  /\ failedValid' = failedValid \cup {toMarkFailed}
  /\ m_failed_blocks' = m_failed_blocks \cup {toMarkFailed}
  /\ setBlockIndexCandidates' = (setBlockIndexCandidates \ {toMarkFailed}) \cup MissingCandidates
  /\ InvalidChainFound(toMarkFailed)
  /\ invTarget' = NoBlock /\ toMarkFailed' = NoBlock /\ candidateBlocksByWork' = {}
  /\ Goto(t, "abc")
  /\ UNCHANGED <<index, dataVars, failedChild, seqVars, chainVars, abcVars>>

\* reconsiderblock (ResetBlockFailureFlags): the marks of the block, of its
\* descendants and of its ancestors go; only the descendants (and the block) are
\* looked at as candidates.  What is looked at is everything above the block that is
\* not IsValid(): what carries a mark, and what was never received.
NotValidAbove(b) == {c \in index : b \in Path[c] /\ ~IsValidTransactions(c)}
CandidateAgain_Never(b) == {}          \* faulty: the marks go, the candidates do not come back
CandidateAgain(b) == {c \in NotValidAbove(b) \cap validTx \cap chainTx : Worse(tip, c)}

Reconsider(t, b) ==
  /\ pc[t] = "idle" /\ CsMainFree
  /\ b \in index \cap Reconsiderable
  /\ failedValid' = failedValid \ (NotValidAbove(b) \cup Path[b])
  /\ failedChild' = failedChild \ (NotValidAbove(b) \cup Path[b])
  /\ m_failed_blocks' = m_failed_blocks \ (NotValidAbove(b) \cup (Path[b] \cap Failed))
  /\ setBlockIndexCandidates' = setBlockIndexCandidates \cup CandidateAgain(b)
  /\ m_best_invalid' = IF m_best_invalid \in NotValidAbove(b) THEN NoBlock ELSE m_best_invalid
  /\ Goto(t, "abc")
  /\ UNCHANGED <<indexVars, dataVars, seqVars, chainVars, abcVars, invVars>>

\* pruneblockchain, each block in a file of its own: PruneOneBlockFile clears
\* BLOCK_HAVE_DATA and takes the blocks out of m_blocks_unlinked.
Prune(t, h) ==
  /\ pc[t] = "idle" /\ CsMainFree
  /\ PruneMode
  /\ h <= Height[tip]
  /\ LET pruned == {b \in haveData : Height[b] <= h /\ Height[b] + MinBlocksToKeep <= Height[tip]} IN
     /\ pruned # {}
     /\ haveData' = haveData \ pruned
     /\ m_blocks_unlinked' = m_blocks_unlinked \ pruned
  /\ UNCHANGED <<indexVars, validTx, chainTx, failVars, seqVars, setBlockIndexCandidates, chainVars,
                 pc, abcVars, invVars>>

\* After FatalError nothing more is done.
Stopped(t) == pc[t] = "fatal" /\ UNCHANGED vars

-----------------------------------------------------------------------------
\* LoadGenesisBlock and the first ActivateBestChain have run.
Init ==
  /\ index = {Genesis} /\ m_best_header = Genesis
  /\ haveData = {Genesis} /\ validTx = {Genesis} /\ chainTx = {Genesis}
  /\ m_blocks_unlinked = {}
  /\ failedValid = {} /\ failedChild = {} /\ m_failed_blocks = {} /\ m_best_invalid = NoBlock
  /\ nSequenceId = [b \in Blocks |-> IF b = Genesis THEN 1 ELSE 0]
  /\ nBlockSequenceId = 2
  /\ nBlockReverseSequenceId = -1 /\ nLastPreciousChainwork = 0
  /\ setBlockIndexCandidates = {Genesis}
  /\ tip = Genesis /\ validScripts = {Genesis}
  /\ pc = [t \in Threads |-> "idle"]
  /\ pindexMostWork = NoBlock /\ startingTip = NoBlock /\ pindexOldTip = NoBlock /\ batchTop = NoBlock
  /\ blocksConnected = FALSE
  /\ invTarget = NoBlock /\ toMarkFailed = NoBlock /\ candidateBlocksByWork = {}

\* What peers and operators may ask of an idle thread.
Request(t) ==
  \/ \E b \in Blocks \ {Genesis} :
       \/ AcceptHeader(t, b)
       \/ RejectHeader(t, b)
       \/ \E requested \in BOOLEAN :
            \/ IgnoreBlock(t, b, requested)
            \/ \E mutated \in BOOLEAN : RejectBlock(t, b, requested, mutated)
            \/ StoreBlock(t, b, requested)
  \/ \E b \in Blocks :
       \/ PreciousBlock(t, b)
       \/ InvalidateBegin(t, b)
       \/ Reconsider(t, b)
  \/ \E h \in {Height[b] : b \in Blocks} \ {0} : Prune(t, h)

\* What a thread does once it is in a call.
Continue(t) ==
  \/ AbcBegin(t) \/ AbcLock(t)
  \/ SelectMostWork(t) \/ DiscardFailedCandidate(t) \/ DiscardMissingCandidate(t) \/ AbcNothingToDo(t)
  \/ AbcStep(t) \/ AbcDisconnectTip(t) \/ AbcFatal(t) \/ AbcBuildBatch(t)
  \/ \E b \in Blocks \ {Genesis} : AbcConnectTip(t, b) \/ AbcConnectInvalid(t, b)
  \/ AbcUnlock(t)
  \/ InvalidateDisconnect(t) \/ InvalidateFails(t) \/ InvalidateFinish(t)

Next == \E t \in Threads : Request(t) \/ Continue(t) \/ Stopped(t)

Spec == Init /\ [][Next]_vars

\* A thread that is in a call runs on: the code waits only for the two locks, and
\* their holders release them.
FairSpec == Spec /\ \A t \in Threads : WF_vars(Continue(t))
-----------------------------------------------------------------------------
(* Properties. *)

SubsetsOfIndex ==
  /\ haveData \subseteq validTx /\ chainTx \subseteq validTx /\ validTx \subseteq index
  /\ validScripts \subseteq chainTx
  /\ Failed \subseteq index /\ m_failed_blocks \subseteq failedValid
  /\ setBlockIndexCandidates \subseteq index /\ m_blocks_unlinked \subseteq validTx

\* Every variable has the type of its declaration, and the flags of the block index
\* nest as the comments of chain.h and CheckBlockIndex say.
TypeOK ==
  /\ index \subseteq Blocks /\ SubsetsOfIndex
  /\ tip \in index /\ m_best_header \in index /\ m_best_invalid \in index \cup {NoBlock}
  /\ nSequenceId \in [Blocks -> Int]
  /\ nBlockSequenceId \in Nat /\ nBlockReverseSequenceId \in Int /\ nLastPreciousChainwork \in Nat
  /\ pc \in [Threads -> InChainstate \cup {"idle", "abc"}]
  /\ {pindexMostWork, startingTip, pindexOldTip, batchTop, invTarget, toMarkFailed}
       \subseteq index \cup {NoBlock}
  /\ blocksConnected \in BOOLEAN
  /\ candidateBlocksByWork \subseteq index

\* The active chain holds only blocks that passed ConnectBlock and carry no failure
\* mark, whatever was marked or reconsidered while cs_main was free between rounds.
ActiveChainValid ==
  /\ Active \subseteq validScripts
  /\ Active \cap Failed = {}
  /\ Active \cap (BodyInvalid \cup ConnectInvalid) = {}

\* HaveNumChainTxs() (nChainTx # 0) of a block says that it and all its ancestors
\* were received, whatever the order in which they came: CheckBlockIndex asserts it
\* of every entry.
LinkedExactly == \A b \in index : b \in chainTx <=> Path[b] \subseteq validTx

\* The same of the entries that do not descend from a failed block.  One of them with
\* data is in m_blocks_unlinked exactly when a parent of it never came, and of the others
\* none is linked or waits without data (CheckBlockIndex).
LinksRight ==
  CsMainFree => \A b \in index :
    /\ b \in chainTx => Path[b] \subseteq validTx
    /\ b \in m_blocks_unlinked => b \in haveData \ chainTx
    /\ Path[b] \cap failedValid = {} =>
         /\ Path[b] \subseteq validTx => b \in chainTx
         /\ b \in haveData \ chainTx => b \in m_blocks_unlinked

\* A block that could be connected: received with all its ancestors, none of them
\* failed, and the data from the active chain up not pruned.
Usable(b) ==
  b \in chainTx /\ Path[b] \cap Failed = {} /\ Path[b] \ Active \subseteq haveData

InvalidateRunning == \E t \in Threads : pc[t] = "inv"

\* setBlockIndexCandidates, whenever another thread can look: it never holds a block
\* that is worse than the tip or whose ancestors are not all known, and it holds every
\* usable block not worse than the tip (CheckBlockIndex), except while invalidateblock
\* has released cs_main half way.
CandidatesRight ==
  CsMainFree =>
    /\ \A c \in setBlockIndexCandidates : c \in chainTx /\ ~Worse(c, tip)
    /\ ~InvalidateRunning =>
         \A b \in index : Usable(b) /\ ~Worse(b, tip) => b \in setBlockIndexCandidates

\* When no call is running, no usable block is better than the tip.
QuiescentTipIsBest ==
  (\A t \in Threads : pc[t] = "idle") => \A b \in index : Usable(b) => ~Worse(tip, b)

\* A heavier block that cannot be connected because data below it was pruned is not
\* forgotten: it is still a candidate, or it waits for that data (CheckBlockIndex).
PrunedBranchWaits ==
  CsMainFree /\ ~InvalidateRunning =>
    \A b \in haveData \cap chainTx :
      Work[b] > Work[tip] /\ Path[b] \cap Failed = {} /\ ~(Path[b] \subseteq haveData)
        => b \in setBlockIndexCandidates \cup m_blocks_unlinked

\* ActivateBestChainStep could not disconnect a pruned block (FatalError): the node is
\* shutting down.  An InvalidateBlock that meets one returns false and nothing stops.
Fatal == \E t \in Threads : pc[t] = "fatal"

\* Whoever holds m_chainstate_mutex (ActivateBestChain over all its rounds,
\* InvalidateBlock over all its disconnections) gives it back.
MutexReleased == []<>(ChainstateMutexFree \/ Fatal)

\* A usable block heavier than the tip does not stay behind: again and again there is
\* none, the tip having got at least its work or the block having stopped being usable.
\* Two kinds of call break it: reconsiderblock of a block above a marked one (its help says
\* that ancestors are reconsidered for activation, too), and an invalidateblock that fails
\* half way, at a pruned block, after another thread has received a heavier block.
HeaviestActivated ==
  []<>(Fatal \/ \A b \in index : Usable(b) => Work[b] <= Work[tip])

\* The tip as others see it: while a thread is in a round of ActivateBestChain it
\* has cs_main, and everyone else still sees the tip of the round's start.
publishedTip == IF CsMainFree THEN tip ELSE startingTip

Chain == INSTANCE BestChain
  WITH published <- publishedTip, Valid <- Blocks \ (BodyInvalid \cup ConnectInvalid)

\* The chainstate keeps the promise of BestChain.
ImplementsBestChain == Chain!Spec
=============================================================================
