-------------------------- MODULE Chainstate_proofs --------------------------
(***************************************************************************)
(* TypeOK and ActiveChainValid of Chainstate, for every block tree, every  *)
(* number of threads and every interleaving of peers and operators.  Then  *)
(* LinksRight, of nodes that do not prune (Unpruned); and the properties   *)
(* of the candidates and the refinement of BestChain, of all nodes, as     *)
(* long as their calls are WholeCalls - which those of a PlainNode are.    *)
(*                                                                         *)
(* Neither of the first two is inductive.  That the active chain carries   *)
(* no failure mark rests on where a thread is: the branch that             *)
(* ActivateBestChain goes for was free of marks when it was chosen, and    *)
(* cs_main is released between its rounds.  Inv below adds what each       *)
(* thread may rely on then.                                                *)
(***************************************************************************)
EXTENDS Chainstate, FiniteSetTheorems, WellFoundedInduction, TLAPS

\* m_chainstate_mutex: one thread at a time.
MutexInv ==
  \A t, u \in Threads : pc[t] \in InChainstate /\ pc[u] \in InChainstate => t = u

\* The index knows the ancestors of what it knows; what is linked has linked
\* ancestors and no body that ContextualCheckBlock rejects.
IndexInv ==
  /\ \A b \in index : Path[b] \subseteq index
  /\ \A b \in chainTx : Path[b] \subseteq chainTx
  /\ validTx \cap BodyInvalid = {}

\* Candidates are linked and have at least the work of the tip; what InvalidateBlock
\* noted as future candidates is linked too.
CandidatesInv ==
  /\ \A c \in setBlockIndexCandidates : c \in chainTx /\ Work[tip] <= Work[c]
  /\ candidateBlocksByWork \subseteq chainTx

\* The branch a thread goes for is linked, free of marks and has at least the work
\* of the tip, from the round that chooses it to the one that drops it.
MostWorkInv ==
  pindexMostWork # NoBlock =>
    /\ \E t \in Threads : pc[t] \in InRound \cup {"lock"}
    /\ pindexMostWork \in chainTx
    /\ Path[pindexMostWork] \cap Failed = {}
    /\ Work[tip] <= Work[pindexMostWork]

\* Inside a step of ActivateBestChain.
StepInv ==
  \A t \in Threads :
    /\ pc[t] = "disconnect" => pindexMostWork # NoBlock /\ pindexMostWork \notin Path[tip]
    /\ pc[t] = "connect" => pindexMostWork # NoBlock /\ batchTop \in index

\* Inside InvalidateBlock: toMarkFailed is the block given, or the child of the tip.
InvalidateInv ==
  \A t \in Threads : pc[t] = "inv" =>
    /\ invTarget \in index \ {Genesis} /\ toMarkFailed \in index \ {Genesis}
    /\ toMarkFailed = invTarget \/ Parent[toMarkFailed] = tip

Inv ==
  /\ TypeOK /\ ActiveChainValid
  /\ MutexInv /\ IndexInv /\ CandidatesInv /\ MostWorkInv /\ StepInv /\ InvalidateInv

-----------------------------------------------------------------------------
(* The tree. *)

\* The ancestors of a block are among its own, in one line, with less work.
LEMMA AncestorFacts ==
  ASSUME NEW b \in Blocks
  PROVE  /\ b \in Path[b] /\ Genesis \in Path[b] /\ Path[b] \subseteq Blocks
         /\ \A a \in Path[b] : Path[a] \subseteq Path[b] /\ Work[a] <= Work[b]
         /\ b # Genesis => Parent[b] \in Blocks /\ Parent[b] \in Path[b] /\ b \notin Path[Parent[b]]
         /\ b # Genesis => Path[b] = Path[Parent[b]] \cup {b} /\ Work[Parent[b]] < Work[b]
<1>1. /\ b \in Path[b] /\ Genesis \in Path[b] /\ Path[b] \subseteq Blocks
  BY TreeAssumption
<1>2. \A a \in Path[b] : Path[a] \subseteq Path[b] /\ Work[a] <= Work[b]
  BY <1>1, TreeAssumption, MeasureAssumption
<1>3. b # Genesis => Parent[b] \in Blocks /\ b \notin Path[Parent[b]]
                     /\ Path[b] = Path[Parent[b]] \cup {b} /\ Work[Parent[b]] < Work[b]
  BY TreeAssumption, MeasureAssumption
<1>4. b # Genesis => Parent[b] \in Path[b]
  BY <1>3, TreeAssumption
<1> QED BY <1>1, <1>2, <1>3, <1>4

\* What lies above a block outside a chain is outside the chain too: a mark set there
\* does not reach the chain.
LEMMA AboveIsOutside ==
  ASSUME NEW chain \in Blocks, NEW c \in Blocks, NEW f \in Path[c], f \notin Path[chain],
         NEW x \in Path[c] \ Path[f]
  PROVE  x \notin Path[chain]
<1>1. f \in Path[x]
  BY TreeAssumption
<1>2. x \in Path[chain] => Path[x] \subseteq Path[chain]
  BY TreeAssumption
<1> QED BY <1>1, <1>2

-----------------------------------------------------------------------------
(* One lemma per action. *)

\* What a received block links lies, with all its ancestors, in what was linked
\* before and what is linked now.
LEMMA NewlyLinkedFacts ==
  ASSUME Inv, NEW b \in Blocks \ {Genesis}, Parent[b] \in chainTx
  PROVE  /\ NewlyLinked(b) \subseteq m_blocks_unlinked \cup {b}
         /\ \A c \in NewlyLinked(b) : Path[c] \subseteq chainTx \cup NewlyLinked(b)
         /\ Cardinality(NewlyLinked(b)) \in Nat
<1> DEFINE S == NewlyLinked(b)
<1>1. S \subseteq m_blocks_unlinked \cup {b} /\ S \subseteq Blocks
  BY DEF NewlyLinked, Inv, TypeOK, SubsetsOfIndex
<1>2. b \in S
  BY AncestorFacts DEF NewlyLinked
<1>3. ASSUME NEW c \in S, NEW x \in Path[c] PROVE x \in chainTx \cup S
  <2>1. b \in Path[c] /\ Path[c] \ Path[b] \subseteq m_blocks_unlinked
    BY DEF NewlyLinked
  <2>2. CASE x \in Path[b]
    BY <1>2, <2>2, AncestorFacts DEF Inv, IndexInv
  <2>3. CASE x \notin Path[b]
    <3>1. b \in Path[x] /\ Path[x] \subseteq Path[c]
      BY <1>1, <2>1, <2>3, AncestorFacts, TreeAssumption
    <3> QED BY <2>1, <2>3, <3>1 DEF NewlyLinked
  <2> QED BY <2>2, <2>3
<1>4. Cardinality(S) \in Nat
  <2>1. IsFiniteSet(S)
    BY <1>1, TreeAssumption, FS_Subset
  <2> QED BY <2>1, FS_CardinalityType
<1> HIDE DEF S
<1> QED BY <1>1, <1>3, <1>4 DEF S

\* ReceivedBlockTransactions links a set of blocks with their ancestors, or parks one.
LEMMA StoreBlockKeeps ==
  ASSUME Inv, NEW t \in Threads, NEW b \in Blocks \ {Genesis}, NEW requested \in BOOLEAN,
         StoreBlock(t, b, requested)
  PROVE  Inv'
<1> DEFINE S == NewlyLinked(b)
<1>1. /\ index' = index \cup {b} /\ validTx' = validTx \cup {b} /\ haveData' = haveData \cup {b}
      /\ Path[b] \subseteq index \cup {b} /\ b \notin BodyInvalid
  BY AncestorFacts DEF StoreBlock, AddToBlockIndex, HeaderAccepted, HeaderKnown, HeaderNew,
     HeaderConnects, Inv, IndexInv
<1>2. /\ chainTx' \subseteq chainTx \cup m_blocks_unlinked \cup {b} /\ chainTx \subseteq chainTx'
      /\ \A c \in chainTx' : Path[c] \subseteq chainTx'
      /\ \A c \in setBlockIndexCandidates' : c \in chainTx' /\ Work[tip] <= Work[c]
      /\ m_blocks_unlinked' \subseteq m_blocks_unlinked \cup {b}
      /\ nSequenceId' \in [Blocks -> Int] /\ nBlockSequenceId' \in Nat
  <2>1. CASE Parent[b] \in chainTx
    <3>1. PICK order \in QueueOrders(S) :
            /\ chainTx' = chainTx \cup S
            /\ m_blocks_unlinked' = m_blocks_unlinked \ S
            /\ nSequenceId' = [c \in Blocks |-> IF c \in S THEN nBlockSequenceId + order[c] - 1
                                                           ELSE nSequenceId[c]]
            /\ nBlockSequenceId' = nBlockSequenceId + Cardinality(S)
            /\ TryAddBlockIndexCandidates(S)
      BY <2>1 DEF StoreBlock, LinkBlock
    <3>2. /\ S \subseteq m_blocks_unlinked \cup {b}
          /\ \A c \in S : Path[c] \subseteq chainTx \cup S
          /\ Cardinality(S) \in Nat
      BY <2>1, NewlyLinkedFacts
    <3> HIDE DEF S
    <3>3. \A c \in S : order[c] \in Int
      BY <3>1 DEF QueueOrders
    <3>4. nSequenceId' \in [Blocks -> Int] /\ nBlockSequenceId' \in Nat
      BY <3>1, <3>2, <3>3 DEF Inv, TypeOK
    <3>5. \A c \in S : c \in Blocks
      BY <3>2 DEF Inv, TypeOK, SubsetsOfIndex
    <3>6. \A c \in setBlockIndexCandidates' : c \in chainTx' /\ Work[tip] <= Work[c]
      BY <3>1, <3>5, MeasureAssumption
         DEF TryAddBlockIndexCandidates, WorseBy, Inv, CandidatesInv, TypeOK
    <3> QED BY <3>1, <3>2, <3>4, <3>6 DEF Inv, IndexInv
  <2>2. CASE Parent[b] \notin chainTx
    BY <2>2 DEF StoreBlock, ParkBlock, Inv, IndexInv, CandidatesInv, TypeOK
  <2> QED BY <2>1, <2>2
<1>3. /\ UNCHANGED <<failVars, preciousVars, chainVars, abcVars, invVars>>
      /\ pc' = [pc EXCEPT ![t] = "abc"] /\ pc[t] = "idle"
      /\ m_best_header' \in index'
  BY DEF StoreBlock, Goto, AddToBlockIndex, Inv, TypeOK
<1> HIDE DEF S
<1>4. TypeOK'
  BY <1>1, <1>2, <1>3 DEF Inv, TypeOK, SubsetsOfIndex, Failed, failVars, preciousVars, chainVars,
     abcVars, invVars, InChainstate
<1>5. IndexInv' /\ CandidatesInv'
  BY <1>1, <1>2, <1>3 DEF Inv, IndexInv, CandidatesInv, invVars, chainVars
<1>6. ActiveChainValid' /\ MostWorkInv'
  BY <1>2, <1>3 DEF Inv, ActiveChainValid, MostWorkInv, TypeOK, Active, Failed, failVars,
     chainVars, abcVars, InRound
<1>7. MutexInv' /\ StepInv' /\ InvalidateInv'
  BY <1>1, <1>3 DEF Inv, MutexInv, StepInv, InvalidateInv, TypeOK, InChainstate, InRound,
     chainVars, abcVars, invVars
<1> QED BY <1>4, <1>5, <1>6, <1>7 DEF Inv

(* TypeOK where the step sets several variables of different kinds. *)

\* The variables keep their types when a round begins: the branch it begins with is none.
LEMMA AbcLockTypes ==
  ASSUME Inv, NEW t \in Threads, AbcLock(t)
  PROVE  TypeOK'
<1>1. blocksConnected' \in BOOLEAN
  BY DEF AbcLock
<1>2. /\ startingTip' = tip /\ pc' = [pc EXCEPT ![t] = "find"]
      /\ UNCHANGED <<indexVars, dataVars, failVars, seqVars, setBlockIndexCandidates, chainVars,
                     pindexMostWork, pindexOldTip, batchTop, invVars>>
  BY DEF AbcLock, Goto
<1> QED BY <1>1, <1>2 DEF Inv, TypeOK, SubsetsOfIndex, Failed, InChainstate, InRound,
     indexVars, dataVars, failVars, preciousVars, seqVars, chainVars, invVars

\* The variables keep their types when a round releases cs_main.
LEMMA AbcUnlockTypes ==
  ASSUME Inv, NEW t \in Threads, AbcUnlock(t)
  PROVE  TypeOK'
<1>1. blocksConnected' \in BOOLEAN
  BY DEF AbcUnlock
<1>2. /\ startingTip' = NoBlock /\ pindexOldTip' = NoBlock /\ batchTop' = NoBlock
      /\ pindexMostWork' \in {pindexMostWork, NoBlock}
      /\ pc' \in {[pc EXCEPT ![t] = "lock"], [pc EXCEPT ![t] = "idle"]}
      /\ UNCHANGED <<indexVars, dataVars, failVars, seqVars, setBlockIndexCandidates, chainVars, invVars>>
  BY DEF AbcUnlock, Goto
<1> QED BY <1>1, <1>2 DEF Inv, TypeOK, SubsetsOfIndex, Failed, InChainstate, InRound,
     indexVars, dataVars, failVars, preciousVars, seqVars, chainVars, invVars

\* The variables keep their types when a block is connected: candidates only go.
LEMMA AbcConnectTipTypes ==
  ASSUME Inv, NEW t \in Threads, NEW b \in Blocks \ {Genesis}, AbcConnectTip(t, b)
  PROVE  TypeOK'
<1>1. blocksConnected' \in BOOLEAN
  BY DEF AbcConnectTip, EndStep, Inv, TypeOK
<1>2. b \in chainTx /\ b \in index
  BY DEF AbcConnectTip, IsNext, Inv, StepInv, MostWorkInv, IndexInv, TypeOK, SubsetsOfIndex
<1>3. batchTop' \in index \cup {NoBlock}
  BY DEF AbcConnectTip, Inv, TypeOK
<1>4. pc' \in [Threads -> InChainstate \cup {"idle", "abc"}]
  BY DEF AbcConnectTip, EndStep, Goto, Inv, TypeOK, InChainstate, InRound
<1>5. /\ tip' = b /\ validScripts' = validScripts \cup {b}
      /\ setBlockIndexCandidates' \subseteq setBlockIndexCandidates
      /\ UNCHANGED <<indexVars, dataVars, failVars, seqVars, pindexMostWork, startingTip,
                     pindexOldTip, invVars>>
  BY DEF AbcConnectTip, PruneBlockIndexCandidates
<1> QED BY <1>1, <1>2, <1>3, <1>4, <1>5 DEF Inv, TypeOK, SubsetsOfIndex, Failed,
     indexVars, dataVars, failVars, preciousVars, seqVars, chainVars, invVars

\* The variables keep their types when PreciousBlock gives a block a negative sequence id.
LEMMA PreciousBlockTypes ==
  ASSUME Inv, NEW t \in Threads, NEW b \in Blocks, PreciousBlock(t, b)
  PROVE  TypeOK'
<1> DEFINE id == IF Work[tip] > nLastPreciousChainwork THEN -1 ELSE nBlockReverseSequenceId
<1>1. id \in Int
  BY DEF Inv, TypeOK
<1>2. nSequenceId' = [nSequenceId EXCEPT ![b] = id] /\ nBlockReverseSequenceId' = id - 1
  BY DEF PreciousBlock
<1> HIDE DEF id
<1>3. nSequenceId' \in [Blocks -> Int] /\ nBlockReverseSequenceId' \in Int
  BY <1>1, <1>2 DEF Inv, TypeOK
<1>4. /\ b \in index /\ nLastPreciousChainwork' = Work[tip]
      /\ setBlockIndexCandidates' \subseteq setBlockIndexCandidates \cup {b}
      /\ pc' = [pc EXCEPT ![t] = "abc"]
      /\ UNCHANGED <<indexVars, dataVars, failVars, nBlockSequenceId, chainVars, abcVars, invVars>>
  BY DEF PreciousBlock, Goto
<1>5. nLastPreciousChainwork' \in Nat
  BY <1>4, MeasureAssumption DEF Inv, TypeOK
<1> QED BY <1>3, <1>4, <1>5 DEF Inv, TypeOK, SubsetsOfIndex, Failed, InChainstate,
     indexVars, dataVars, failVars, chainVars, abcVars, invVars

\* A new header is neither linked nor in the chain: it can only add to the index.
LEMMA AcceptHeaderKeeps ==
  ASSUME Inv, NEW t \in Threads, NEW b \in Blocks \ {Genesis}, AcceptHeader(t, b)
  PROVE  Inv'
<1>1. TypeOK'
  BY DEF Inv, TypeOK, SubsetsOfIndex, Failed, AcceptHeader, HeaderNew, HeaderConnects,
      AddToBlockIndex, dataVars, failVars, seqVars, chainVars, abcVars, invVars, preciousVars
<1>2. IndexInv'
  BY AncestorFacts DEF Inv, IndexInv, AcceptHeader, HeaderNew, HeaderConnects, AddToBlockIndex,
      dataVars
<1>3. StepInv'
  BY DEF Inv, StepInv, AcceptHeader, HeaderNew, HeaderConnects, AddToBlockIndex, dataVars,
      failVars, seqVars, chainVars, abcVars, invVars, preciousVars
<1>4. InvalidateInv'
  BY DEF Inv, InvalidateInv, AcceptHeader, HeaderNew, HeaderConnects, AddToBlockIndex, dataVars,
      failVars, seqVars, chainVars, abcVars, invVars, preciousVars
<1>5. ActiveChainValid' /\ MutexInv' /\ CandidatesInv' /\ MostWorkInv'
  BY DEF Inv, ActiveChainValid, Active, Failed, MutexInv, InChainstate, InRound, CandidatesInv,
      MostWorkInv, AcceptHeader, dataVars, failVars, seqVars, chainVars, abcVars, invVars,
      preciousVars
<1> QED BY <1>1, <1>2, <1>3, <1>4, <1>5 DEF Inv

\* A rejected header changes nothing.
LEMMA RejectHeaderKeeps ==
  ASSUME Inv, NEW t \in Threads, NEW b \in Blocks \ {Genesis}, RejectHeader(t, b)
  PROVE  Inv'
<1>1. TypeOK'
  BY DEF Inv, TypeOK, SubsetsOfIndex, Failed, RejectHeader, HeaderConnects, FailedAncestors,
      indexVars, dataVars, seqVars, chainVars, abcVars, invVars, preciousVars, IndexInv
<1>2. ActiveChainValid'
  BY TreeAssumption DEF Inv, ActiveChainValid, Active, Failed, RejectHeader, FailedAncestors,
      chainVars, TypeOK, SubsetsOfIndex
<1>3. MostWorkInv'
  BY TreeAssumption DEF Inv, MostWorkInv, Failed, RejectHeader, FailedAncestors, dataVars,
      chainVars, abcVars, TypeOK, SubsetsOfIndex
<1>4. MutexInv' /\ IndexInv' /\ CandidatesInv' /\ StepInv' /\ InvalidateInv'
  BY DEF Inv, MutexInv, InChainstate, InRound, IndexInv, CandidatesInv, StepInv, InvalidateInv,
      Failed, Active, RejectHeader, indexVars, dataVars, seqVars, chainVars, abcVars, invVars,
      preciousVars
<1> QED BY <1>1, <1>2, <1>3, <1>4 DEF Inv

\* A block that AcceptBlock drops leaves its header in the index, and no more.
LEMMA IgnoreBlockKeeps ==
  ASSUME Inv, NEW t \in Threads, NEW b \in Blocks \ {Genesis}, NEW requested \in BOOLEAN,
         IgnoreBlock(t, b, requested)
  PROVE  Inv'
<1>1. TypeOK'
  BY DEF Inv, TypeOK, SubsetsOfIndex, Failed, IgnoreBlock, HeaderAccepted, HeaderKnown,
      HeaderNew, HeaderConnects, AddToBlockIndex, Goto, dataVars, failVars, seqVars, chainVars,
      abcVars, invVars, preciousVars
<1>2. MutexInv'
  BY DEF Inv, MutexInv, InChainstate, InRound, IgnoreBlock, HeaderAccepted, HeaderKnown,
      HeaderNew, HeaderConnects, AddToBlockIndex, Goto, dataVars, failVars, seqVars, chainVars,
      abcVars, invVars, preciousVars
<1>3. IndexInv'
  BY AncestorFacts DEF Inv, IndexInv, IgnoreBlock, HeaderAccepted, HeaderKnown, HeaderNew,
      HeaderConnects, AddToBlockIndex, dataVars
<1>4. MostWorkInv'
  BY DEF Inv, MostWorkInv, Failed, InRound, IgnoreBlock, HeaderAccepted, HeaderKnown, HeaderNew,
      HeaderConnects, AddToBlockIndex, Goto, dataVars, failVars, seqVars, chainVars, abcVars,
      invVars, preciousVars
<1>5. StepInv'
  BY DEF Inv, StepInv, IgnoreBlock, HeaderAccepted, HeaderKnown, HeaderNew, HeaderConnects,
      AddToBlockIndex, Goto, dataVars, failVars, seqVars, chainVars, abcVars, invVars,
      preciousVars
<1>6. InvalidateInv'
  BY DEF Inv, InvalidateInv, IgnoreBlock, HeaderAccepted, HeaderKnown, HeaderNew,
      HeaderConnects, AddToBlockIndex, Goto, dataVars, failVars, seqVars, chainVars, abcVars,
      invVars, preciousVars
<1>7. ActiveChainValid' /\ CandidatesInv'
  BY DEF Inv, ActiveChainValid, Active, Failed, CandidatesInv, IgnoreBlock, dataVars, failVars,
      seqVars, chainVars, abcVars, invVars, preciousVars
<1> QED BY <1>1, <1>2, <1>3, <1>4, <1>5, <1>6, <1>7 DEF Inv

\* A rejected block is marked unless its body was mutated; it is not linked, so it is
\* neither in the chain nor on a branch some thread goes for.
LEMMA RejectBlockKeeps ==
  ASSUME Inv, NEW t \in Threads, NEW b \in Blocks \ {Genesis}, NEW requested \in BOOLEAN,
         NEW mutated \in BOOLEAN, RejectBlock(t, b, requested, mutated)
  PROVE  Inv'
<1>1. TypeOK'
  BY DEF Inv, TypeOK, SubsetsOfIndex, Failed, RejectBlock, HeaderAccepted, HeaderKnown,
      HeaderNew, HeaderConnects, AddToBlockIndex, dataVars, seqVars, chainVars, abcVars,
      invVars, preciousVars
<1>2. ActiveChainValid'
  BY DEF Inv, ActiveChainValid, Active, Failed, RejectBlock, HeaderAccepted, HeaderKnown,
      HeaderNew, HeaderConnects, AddToBlockIndex, dataVars, seqVars, chainVars, abcVars,
      invVars, preciousVars
<1>3. IndexInv'
  BY AncestorFacts DEF Inv, IndexInv, RejectBlock, HeaderAccepted, HeaderKnown, HeaderNew,
      HeaderConnects, AddToBlockIndex, dataVars
<1>4. MostWorkInv'
  BY DEF Inv, MostWorkInv, Failed, InRound, RejectBlock, HeaderAccepted, HeaderKnown, HeaderNew,
      HeaderConnects, AddToBlockIndex, dataVars, seqVars, chainVars, abcVars, TypeOK,
      SubsetsOfIndex, IndexInv
<1>5. StepInv'
  BY DEF Inv, StepInv, RejectBlock, HeaderAccepted, HeaderKnown, HeaderNew, HeaderConnects,
      AddToBlockIndex, dataVars, seqVars, chainVars, abcVars, invVars, preciousVars
<1>6. InvalidateInv'
  BY DEF Inv, InvalidateInv, RejectBlock, HeaderAccepted, HeaderKnown, HeaderNew,
      HeaderConnects, AddToBlockIndex, dataVars, seqVars, chainVars, abcVars, invVars,
      preciousVars
<1>7. MutexInv' /\ CandidatesInv'
  BY DEF Inv, MutexInv, InChainstate, InRound, CandidatesInv, Failed, Active, RejectBlock,
      dataVars, seqVars, chainVars, abcVars, invVars, preciousVars
<1> QED BY <1>1, <1>2, <1>3, <1>4, <1>5, <1>6, <1>7 DEF Inv

\* Taking m_chainstate_mutex leaves the thread alone in ActivateBestChain.
LEMMA AbcBeginKeeps ==
  ASSUME Inv, NEW t \in Threads, AbcBegin(t)
  PROVE  Inv'
<1>1. TypeOK'
  BY DEF Inv, TypeOK, SubsetsOfIndex, Failed, AbcBegin, ChainstateMutexFree, Goto, indexVars,
      dataVars, failVars, seqVars, chainVars, abcVars, invVars, preciousVars, InChainstate
<1>2. MutexInv'
  BY DEF Inv, MutexInv, InChainstate, InRound, AbcBegin, ChainstateMutexFree, Goto, indexVars,
      dataVars, failVars, seqVars, chainVars, abcVars, invVars, preciousVars
<1>3. MostWorkInv'
  BY DEF Inv, MostWorkInv, Failed, InRound, AbcBegin, ChainstateMutexFree, Goto, indexVars,
      dataVars, failVars, seqVars, chainVars, abcVars, invVars, preciousVars
<1>4. StepInv'
  BY DEF Inv, StepInv, AbcBegin, ChainstateMutexFree, Goto, indexVars, dataVars, failVars,
      seqVars, chainVars, abcVars, invVars, preciousVars
<1>5. InvalidateInv'
  BY DEF Inv, InvalidateInv, AbcBegin, ChainstateMutexFree, Goto, indexVars, dataVars, failVars,
      seqVars, chainVars, abcVars, invVars, preciousVars
<1>6. ActiveChainValid' /\ IndexInv' /\ CandidatesInv'
  BY DEF Inv, ActiveChainValid, Active, Failed, IndexInv, CandidatesInv, AbcBegin, indexVars,
      dataVars, failVars, seqVars, chainVars, abcVars, invVars, preciousVars
<1> QED BY <1>1, <1>2, <1>3, <1>4, <1>5, <1>6 DEF Inv

\* A round that begins on nothing chosen keeps nothing from the last.
LEMMA AbcLockKeeps ==
  ASSUME Inv, NEW t \in Threads, AbcLock(t)
  PROVE  Inv'
<1>1. TypeOK'
  BY AbcLockTypes
<1>2. MutexInv'
  BY DEF Inv, MutexInv, InChainstate, InRound, AbcLock, Goto, indexVars, dataVars, failVars,
      seqVars, chainVars, invVars, preciousVars
<1>3. MostWorkInv'
  BY DEF Inv, MostWorkInv, Failed, InRound, AbcLock, Goto, indexVars, dataVars, failVars,
      seqVars, chainVars, invVars, preciousVars
<1>4. StepInv'
  BY DEF Inv, StepInv, AbcLock, Goto, indexVars, dataVars, failVars, seqVars, chainVars,
      invVars, preciousVars
<1>5. InvalidateInv'
  BY DEF Inv, InvalidateInv, AbcLock, Goto, indexVars, dataVars, failVars, seqVars, chainVars,
      invVars, preciousVars
<1>6. ActiveChainValid' /\ IndexInv' /\ CandidatesInv'
  BY DEF Inv, ActiveChainValid, Active, Failed, IndexInv, CandidatesInv, AbcLock, indexVars,
      dataVars, failVars, seqVars, chainVars, invVars, preciousVars
<1> QED BY <1>1, <1>2, <1>3, <1>4, <1>5, <1>6 DEF Inv

\* The branch chosen is free of marks and has the work of the tip: that is what
\* FindMostWorkChain looks for.
LEMMA SelectMostWorkKeeps ==
  ASSUME Inv, NEW t \in Threads, SelectMostWork(t)
  PROVE  Inv'
<1>1. TypeOK'
  BY DEF Inv, TypeOK, SubsetsOfIndex, Failed, SelectMostWork, Unusable, indexVars, dataVars,
      failVars, seqVars, chainVars, invVars, preciousVars
<1>2. MostWorkInv'
  BY DEF Inv, MostWorkInv, Failed, InRound, SelectMostWork, Unusable, indexVars, dataVars,
      failVars, chainVars, ActiveChainValid, CandidatesInv, FailedMask
<1>3. StepInv'
  BY DEF Inv, StepInv, SelectMostWork, Unusable, indexVars, dataVars, failVars, seqVars,
      chainVars, invVars, preciousVars
<1>4. ActiveChainValid' /\ MutexInv' /\ IndexInv' /\ CandidatesInv' /\ InvalidateInv'
  BY DEF Inv, ActiveChainValid, Active, Failed, MutexInv, InChainstate, InRound, IndexInv,
      CandidatesInv, InvalidateInv, SelectMostWork, indexVars, dataVars, failVars, seqVars,
      chainVars, invVars, preciousVars
<1> QED BY <1>1, <1>2, <1>3, <1>4 DEF Inv

\* Marks spread only above a mark, which is never in the chain.
LEMMA DiscardFailedCandidateKeeps ==
  ASSUME Inv, NEW t \in Threads, DiscardFailedCandidate(t)
  PROVE  Inv'
<1>1. TypeOK'
  BY DEF Inv, TypeOK, SubsetsOfIndex, Failed, DiscardFailedCandidate, Unusable, IsFirstUnusable,
      Above, Discarded, indexVars, dataVars, seqVars, chainVars, abcVars, invVars, preciousVars,
      IndexInv
<1>2. ActiveChainValid'
  BY TreeAssumption DEF Inv, ActiveChainValid, Active, Failed, DiscardFailedCandidate, Unusable,
      IsFirstUnusable, Above, chainVars, TypeOK, SubsetsOfIndex
<1>3. CandidatesInv'
  BY DEF Inv, CandidatesInv, DiscardFailedCandidate, Unusable, IsFirstUnusable, Above,
      Discarded, indexVars, dataVars, seqVars, chainVars, abcVars, invVars, preciousVars
<1>4. MostWorkInv'
  BY DEF Inv, MostWorkInv, Failed, InRound, DiscardFailedCandidate, Unusable, IsFirstUnusable,
      Above, Discarded, indexVars, dataVars, seqVars, chainVars, abcVars, invVars, preciousVars
<1>5. MutexInv' /\ IndexInv' /\ StepInv' /\ InvalidateInv'
  BY DEF Inv, MutexInv, InChainstate, InRound, IndexInv, StepInv, InvalidateInv, Failed, Active,
      DiscardFailedCandidate, indexVars, dataVars, seqVars, chainVars, abcVars, invVars,
      preciousVars
<1> QED BY <1>1, <1>2, <1>3, <1>4, <1>5 DEF Inv

\* A candidate without data leaves the set for m_blocks_unlinked.
LEMMA DiscardMissingCandidateKeeps ==
  ASSUME Inv, NEW t \in Threads, DiscardMissingCandidate(t)
  PROVE  Inv'
<1>1. TypeOK'
  BY DEF Inv, TypeOK, SubsetsOfIndex, Failed, DiscardMissingCandidate, Unusable,
      IsFirstUnusable, Above, Discarded, WaitForData, indexVars, failVars, seqVars, chainVars,
      abcVars, invVars, preciousVars, IndexInv, CandidatesInv
<1>2. CandidatesInv'
  BY DEF Inv, CandidatesInv, DiscardMissingCandidate, Unusable, IsFirstUnusable, Above,
      Discarded, WaitForData, indexVars, failVars, seqVars, chainVars, abcVars, invVars,
      preciousVars
<1>3. ActiveChainValid' /\ MutexInv' /\ IndexInv' /\ MostWorkInv' /\ StepInv' /\ InvalidateInv'
  BY DEF Inv, ActiveChainValid, Active, Failed, MutexInv, InChainstate, InRound, IndexInv,
      MostWorkInv, StepInv, InvalidateInv, DiscardMissingCandidate, indexVars, failVars,
      seqVars, chainVars, abcVars, invVars, preciousVars
<1> QED BY <1>1, <1>2, <1>3 DEF Inv

\* A round without a better branch drops what it chose.
LEMMA AbcNothingToDoKeeps ==
  ASSUME Inv, NEW t \in Threads, AbcNothingToDo(t)
  PROVE  Inv'
<1>1. TypeOK'
  BY DEF Inv, TypeOK, SubsetsOfIndex, Failed, AbcNothingToDo, Goto, indexVars, dataVars,
      failVars, seqVars, chainVars, abcVars, invVars, preciousVars, InChainstate, InRound
<1>2. MutexInv'
  BY DEF Inv, MutexInv, InChainstate, InRound, AbcNothingToDo, Goto, indexVars, dataVars,
      failVars, seqVars, chainVars, abcVars, invVars, preciousVars
<1>3. MostWorkInv'
  BY DEF Inv, MostWorkInv, Failed, InRound, AbcNothingToDo, Goto, indexVars, dataVars, failVars,
      seqVars, chainVars, abcVars, invVars, preciousVars
<1>4. StepInv'
  BY DEF Inv, StepInv, AbcNothingToDo, Goto, indexVars, dataVars, failVars, seqVars, chainVars,
      abcVars, invVars, preciousVars
<1>5. InvalidateInv'
  BY DEF Inv, InvalidateInv, AbcNothingToDo, Goto, indexVars, dataVars, failVars, seqVars,
      chainVars, abcVars, invVars, preciousVars
<1>6. ActiveChainValid' /\ IndexInv' /\ CandidatesInv'
  BY DEF Inv, ActiveChainValid, Active, Failed, IndexInv, CandidatesInv, AbcNothingToDo,
      indexVars, dataVars, failVars, seqVars, chainVars, abcVars, invVars, preciousVars
<1> QED BY <1>1, <1>2, <1>3, <1>4, <1>5, <1>6 DEF Inv

\* The step goes on to disconnect only when the tip is off the chosen branch.
LEMMA AbcStepKeeps ==
  ASSUME Inv, NEW t \in Threads, AbcStep(t)
  PROVE  Inv'
<1>1. TypeOK'
  BY DEF Inv, TypeOK, SubsetsOfIndex, Failed, AbcStep, Goto, indexVars, dataVars, failVars,
      seqVars, chainVars, invVars, preciousVars, InChainstate, InRound
<1>2. MutexInv'
  BY DEF Inv, MutexInv, InChainstate, InRound, AbcStep, Goto, indexVars, dataVars, failVars,
      seqVars, chainVars, invVars, preciousVars
<1>3. MostWorkInv'
  BY DEF Inv, MostWorkInv, Failed, InRound, AbcStep, Goto, indexVars, dataVars, failVars,
      seqVars, chainVars, invVars, preciousVars
<1>4. StepInv'
  BY MeasureAssumption DEF Inv, StepInv, AbcStep, Goto, indexVars, dataVars, failVars, seqVars,
      chainVars, TypeOK, MostWorkInv
<1>5. InvalidateInv'
  BY DEF Inv, InvalidateInv, AbcStep, Goto, indexVars, dataVars, failVars, seqVars, chainVars,
      invVars, preciousVars
<1>6. ActiveChainValid' /\ IndexInv' /\ CandidatesInv'
  BY DEF Inv, ActiveChainValid, Active, Failed, IndexInv, CandidatesInv, AbcStep, indexVars,
      dataVars, failVars, seqVars, chainVars, invVars, preciousVars
<1> QED BY <1>1, <1>2, <1>3, <1>4, <1>5, <1>6 DEF Inv

\* Disconnecting lowers the work of the tip and keeps its ancestors active.
LEMMA AbcDisconnectTipKeeps ==
  ASSUME Inv, NEW t \in Threads, AbcDisconnectTip(t)
  PROVE  Inv'
<1>1. TypeOK'
  BY AncestorFacts DEF Inv, TypeOK, SubsetsOfIndex, Failed, AbcDisconnectTip, indexVars,
      dataVars, failVars, seqVars, abcVars, invVars, preciousVars, ActiveChainValid, Active,
      StepInv
<1>2. ActiveChainValid'
  BY TreeAssumption DEF Inv, ActiveChainValid, Active, Failed, AbcDisconnectTip, indexVars,
      dataVars, failVars, TypeOK, StepInv
<1>3. CandidatesInv'
  BY MeasureAssumption, TreeAssumption DEF Inv, CandidatesInv, AbcDisconnectTip, indexVars,
      dataVars, failVars, seqVars, abcVars, invVars, TypeOK, SubsetsOfIndex, StepInv
<1>4. MostWorkInv'
  BY MeasureAssumption, TreeAssumption DEF Inv, MostWorkInv, Failed, AbcDisconnectTip, dataVars,
      failVars, abcVars, TypeOK
<1>5. StepInv'
  BY AncestorFacts DEF Inv, StepInv, AbcDisconnectTip, indexVars, abcVars, TypeOK
<1>6. InvalidateInv'
  BY DEF Inv, InvalidateInv, AbcDisconnectTip, indexVars, dataVars, failVars, seqVars, abcVars,
      TypeOK, MutexInv
<1>7. MutexInv' /\ IndexInv'
  BY DEF Inv, MutexInv, InChainstate, InRound, IndexInv, Failed, Active, AbcDisconnectTip,
      indexVars, dataVars, failVars, seqVars, abcVars, invVars, preciousVars
<1> QED BY <1>1, <1>2, <1>3, <1>4, <1>5, <1>6, <1>7 DEF Inv

\* A thread that met a fatal error stands still.
LEMMA AbcFatalKeeps ==
  ASSUME Inv, NEW t \in Threads, AbcFatal(t)
  PROVE  Inv'
<1>1. TypeOK'
  BY DEF Inv, TypeOK, SubsetsOfIndex, Failed, AbcFatal, Goto, indexVars, dataVars, failVars,
      seqVars, chainVars, abcVars, invVars, preciousVars, InChainstate, InRound
<1>2. MutexInv'
  BY DEF Inv, MutexInv, InChainstate, InRound, AbcFatal, Goto, indexVars, dataVars, failVars,
      seqVars, chainVars, abcVars, invVars, preciousVars
<1>3. MostWorkInv'
  BY DEF Inv, MostWorkInv, Failed, InRound, AbcFatal, Goto, indexVars, dataVars, failVars,
      seqVars, chainVars, abcVars, invVars, preciousVars
<1>4. StepInv'
  BY DEF Inv, StepInv, AbcFatal, Goto, indexVars, dataVars, failVars, seqVars, chainVars,
      abcVars, invVars, preciousVars
<1>5. InvalidateInv'
  BY DEF Inv, InvalidateInv, AbcFatal, Goto, indexVars, dataVars, failVars, seqVars, chainVars,
      abcVars, invVars, preciousVars
<1>6. ActiveChainValid' /\ IndexInv' /\ CandidatesInv'
  BY DEF Inv, ActiveChainValid, Active, Failed, IndexInv, CandidatesInv, AbcFatal, indexVars,
      dataVars, failVars, seqVars, chainVars, abcVars, invVars, preciousVars
<1> QED BY <1>1, <1>2, <1>3, <1>4, <1>5, <1>6 DEF Inv

\* The batch ends in an ancestor of the chosen branch.
LEMMA AbcBuildBatchKeeps ==
  ASSUME Inv, NEW t \in Threads, AbcBuildBatch(t)
  PROVE  Inv'
<1>1. TypeOK'
  BY DEF Inv, TypeOK, SubsetsOfIndex, Failed, AbcBuildBatch, Goto, indexVars, dataVars,
      failVars, seqVars, chainVars, invVars, preciousVars, InChainstate, InRound
<1>2. MutexInv'
  BY DEF Inv, MutexInv, InChainstate, InRound, AbcBuildBatch, Goto, indexVars, dataVars,
      failVars, seqVars, chainVars, invVars, preciousVars
<1>3. MostWorkInv'
  BY DEF Inv, MostWorkInv, Failed, InRound, AbcBuildBatch, Goto, indexVars, dataVars, failVars,
      seqVars, chainVars, invVars, preciousVars
<1>4. StepInv'
  BY DEF Inv, StepInv, AbcBuildBatch, Goto, indexVars, dataVars, failVars, seqVars, chainVars,
      invVars, preciousVars
<1>5. InvalidateInv'
  BY DEF Inv, InvalidateInv, AbcBuildBatch, Goto, indexVars, dataVars, failVars, seqVars,
      chainVars, invVars, preciousVars
<1>6. ActiveChainValid' /\ IndexInv' /\ CandidatesInv'
  BY DEF Inv, ActiveChainValid, Active, Failed, IndexInv, CandidatesInv, AbcBuildBatch,
      indexVars, dataVars, failVars, seqVars, chainVars, invVars, preciousVars
<1> QED BY <1>1, <1>2, <1>3, <1>4, <1>5, <1>6 DEF Inv

\* The block connected lies on the chosen branch: no mark, and scripts that verify.
LEMMA AbcConnectTipKeeps ==
  ASSUME Inv, NEW t \in Threads, NEW b \in Blocks \ {Genesis}, AbcConnectTip(t, b)
  PROVE  Inv'
<1>1. TypeOK'
  BY AbcConnectTipTypes
<1>2. ActiveChainValid'
  BY TreeAssumption DEF Inv, ActiveChainValid, Active, Failed, AbcConnectTip, IsNext, EndStep,
      PruneBlockIndexCandidates, Worse, WorseBy, Goto, indexVars, dataVars, failVars, TypeOK,
      SubsetsOfIndex, IndexInv, MostWorkInv, StepInv
<1>3. MutexInv'
  BY DEF Inv, MutexInv, AbcConnectTip, EndStep, Goto, TypeOK
<1>4. CandidatesInv'
  BY MeasureAssumption DEF Inv, CandidatesInv, AbcConnectTip, PruneBlockIndexCandidates, Worse,
      WorseBy, dataVars, invVars, TypeOK, SubsetsOfIndex
<1>5. MostWorkInv'
  BY AncestorFacts DEF Inv, MostWorkInv, Failed, InRound, AbcConnectTip, IsNext, EndStep, Goto,
      dataVars, failVars, TypeOK
<1>6. StepInv'
  BY DEF Inv, StepInv, AbcConnectTip, IsNext, EndStep, PruneBlockIndexCandidates, Worse,
      WorseBy, Goto, indexVars, dataVars, failVars, seqVars, TypeOK, MutexInv
<1>7. InvalidateInv'
  BY DEF Inv, InvalidateInv, AbcConnectTip, IsNext, EndStep, PruneBlockIndexCandidates, Worse,
      WorseBy, Goto, indexVars, dataVars, failVars, seqVars, TypeOK, MutexInv
<1>8. IndexInv'
  BY DEF Inv, IndexInv, Failed, Active, AbcConnectTip, indexVars, dataVars, failVars, seqVars,
      invVars, preciousVars
<1> QED BY <1>1, <1>2, <1>3, <1>4, <1>5, <1>6, <1>7, <1>8 DEF Inv

\* The mark goes on a child of the tip, and the thread drops the branch it was on.
LEMMA AbcConnectInvalidKeeps ==
  ASSUME Inv, NEW t \in Threads, NEW b \in Blocks \ {Genesis}, AbcConnectInvalid(t, b)
  PROVE  Inv'
<1>1. TypeOK'
  BY DEF Inv, TypeOK, SubsetsOfIndex, Failed, AbcConnectInvalid, IsNext, EndStep, Goto,
      dataVars, seqVars, chainVars, invVars, preciousVars, InChainstate, InRound, IndexInv,
      StepInv
<1>2. ActiveChainValid'
  BY DEF Inv, ActiveChainValid, Active, Failed, AbcConnectInvalid, IsNext, EndStep, Goto,
      dataVars, seqVars, chainVars, invVars, preciousVars
<1>3. MutexInv'
  BY DEF Inv, MutexInv, InChainstate, InRound, AbcConnectInvalid, IsNext, EndStep, Goto,
      dataVars, seqVars, chainVars, invVars, preciousVars
<1>4. CandidatesInv'
  BY DEF Inv, CandidatesInv, AbcConnectInvalid, IsNext, EndStep, Goto, dataVars, seqVars,
      chainVars, invVars, preciousVars
<1>5. MostWorkInv'
  BY DEF Inv, MostWorkInv, Failed, InRound, AbcConnectInvalid, IsNext, EndStep, Goto, dataVars,
      seqVars, chainVars, invVars, preciousVars
<1>6. StepInv'
  BY DEF Inv, StepInv, AbcConnectInvalid, IsNext, EndStep, Goto, dataVars, seqVars, chainVars,
      TypeOK, MutexInv
<1>7. InvalidateInv'
  BY DEF Inv, InvalidateInv, AbcConnectInvalid, IsNext, EndStep, Goto, dataVars, seqVars,
      chainVars, invVars, preciousVars
<1>8. IndexInv'
  BY DEF Inv, IndexInv, Failed, Active, AbcConnectInvalid, dataVars, seqVars, chainVars,
      invVars, preciousVars
<1> QED BY <1>1, <1>2, <1>3, <1>4, <1>5, <1>6, <1>7, <1>8 DEF Inv

\* Releasing cs_main between rounds keeps the branch of the thread and its marks.
LEMMA AbcUnlockKeeps ==
  ASSUME Inv, NEW t \in Threads, AbcUnlock(t)
  PROVE  Inv'
<1>1. TypeOK'
  BY AbcUnlockTypes
<1>2. MutexInv'
  BY DEF Inv, MutexInv, AbcUnlock, Goto, TypeOK
<1>3. MostWorkInv'
  BY DEF Inv, MostWorkInv, Failed, AbcUnlock, Goto, dataVars, failVars, chainVars, TypeOK
<1>4. StepInv'
  BY DEF Inv, StepInv, AbcUnlock, Goto, indexVars, dataVars, failVars, seqVars, chainVars,
      TypeOK, MutexInv
<1>5. InvalidateInv'
  BY DEF Inv, InvalidateInv, AbcUnlock, Goto, indexVars, chainVars, invVars, TypeOK
<1>6. ActiveChainValid' /\ IndexInv' /\ CandidatesInv'
  BY DEF Inv, ActiveChainValid, Active, Failed, IndexInv, CandidatesInv, AbcUnlock, indexVars,
      dataVars, failVars, seqVars, chainVars, invVars, preciousVars
<1> QED BY <1>1, <1>2, <1>3, <1>4, <1>5, <1>6 DEF Inv

\* PreciousBlock makes a candidate only of a linked block with the work of the tip.
LEMMA PreciousBlockKeeps ==
  ASSUME Inv, NEW t \in Threads, NEW b \in Blocks, PreciousBlock(t, b)
  PROVE  Inv'
<1>1. TypeOK'
  BY PreciousBlockTypes
<1>2. MutexInv'
  BY DEF Inv, MutexInv, InChainstate, InRound, PreciousBlock, WorseBy, Goto, indexVars,
      dataVars, failVars, chainVars, abcVars, invVars
<1>3. CandidatesInv'
  BY DEF Inv, CandidatesInv, PreciousBlock, WorseBy, Goto, indexVars, dataVars, failVars,
      chainVars, abcVars, invVars
<1>4. MostWorkInv'
  BY DEF Inv, MostWorkInv, Failed, InRound, PreciousBlock, WorseBy, Goto, indexVars, dataVars,
      failVars, chainVars, abcVars, invVars
<1>5. StepInv'
  BY DEF Inv, StepInv, PreciousBlock, WorseBy, Goto, indexVars, dataVars, failVars, chainVars,
      abcVars, invVars
<1>6. InvalidateInv'
  BY DEF Inv, InvalidateInv, PreciousBlock, WorseBy, Goto, indexVars, dataVars, failVars,
      chainVars, abcVars, invVars
<1>7. ActiveChainValid' /\ IndexInv'
  BY DEF Inv, ActiveChainValid, Active, Failed, IndexInv, PreciousBlock, indexVars, dataVars,
      failVars, chainVars, abcVars, invVars
<1> QED BY <1>1, <1>2, <1>3, <1>4, <1>5, <1>6, <1>7 DEF Inv

\* InvalidateBlock begins on a block other than the genesis block.
LEMMA InvalidateBeginKeeps ==
  ASSUME Inv, NEW t \in Threads, NEW b \in Blocks, InvalidateBegin(t, b)
  PROVE  Inv'
<1>1. TypeOK'
  BY DEF Inv, TypeOK, SubsetsOfIndex, Failed, InvalidateBegin, ChainstateMutexFree, Goto,
      indexVars, dataVars, failVars, seqVars, chainVars, abcVars, preciousVars, InChainstate
<1>2. MutexInv'
  BY DEF Inv, MutexInv, InChainstate, InRound, InvalidateBegin, ChainstateMutexFree, Goto,
      indexVars, dataVars, failVars, seqVars, chainVars, abcVars, preciousVars
<1>3. CandidatesInv'
  BY DEF Inv, CandidatesInv, InvalidateBegin, ChainstateMutexFree, Goto, indexVars, dataVars,
      failVars, seqVars, chainVars, abcVars, preciousVars
<1>4. MostWorkInv'
  BY DEF Inv, MostWorkInv, Failed, InRound, InvalidateBegin, ChainstateMutexFree, Goto,
      indexVars, dataVars, failVars, seqVars, chainVars, abcVars, preciousVars
<1>5. StepInv'
  BY DEF Inv, StepInv, InvalidateBegin, ChainstateMutexFree, Goto, indexVars, dataVars,
      failVars, seqVars, chainVars, abcVars, preciousVars
<1>6. InvalidateInv'
  BY DEF Inv, InvalidateInv, InvalidateBegin, ChainstateMutexFree, Goto, indexVars, dataVars,
      failVars, seqVars, chainVars, abcVars, preciousVars
<1>7. ActiveChainValid' /\ IndexInv'
  BY DEF Inv, ActiveChainValid, Active, Failed, IndexInv, InvalidateBegin, indexVars, dataVars,
      failVars, seqVars, chainVars, abcVars, preciousVars
<1> QED BY <1>1, <1>2, <1>3, <1>4, <1>5, <1>6, <1>7 DEF Inv

\* The block marked is the one just disconnected: it has left the chain.
LEMMA InvalidateDisconnectKeeps ==
  ASSUME Inv, NEW t \in Threads, InvalidateDisconnect(t)
  PROVE  Inv'
<1>1. TypeOK'
  BY AncestorFacts DEF Inv, TypeOK, SubsetsOfIndex, Failed, InvalidateDisconnect, CorrectsMark,
      Worse, WorseBy, indexVars, dataVars, seqVars, abcVars, preciousVars, ActiveChainValid,
      Active, InvalidateInv
<1>2. ActiveChainValid'
  BY TreeAssumption DEF Inv, ActiveChainValid, Active, Failed, InvalidateDisconnect,
      CorrectsMark, Worse, WorseBy, indexVars, TypeOK, InvalidateInv
<1>3. CandidatesInv'
  BY AncestorFacts, MeasureAssumption DEF Inv, CandidatesInv, InvalidateDisconnect,
      CorrectsMark, Worse, WorseBy, indexVars, dataVars, seqVars, TypeOK, SubsetsOfIndex,
      ActiveChainValid, Active, InvalidateInv
<1>4. MostWorkInv'
  BY DEF Inv, MostWorkInv, Failed, InRound, InvalidateDisconnect, CorrectsMark, Worse, WorseBy,
      indexVars, abcVars, TypeOK, MutexInv
<1>5. StepInv'
  BY DEF Inv, StepInv, InvalidateDisconnect, CorrectsMark, Worse, WorseBy, indexVars, dataVars,
      seqVars, TypeOK, MutexInv
<1>6. InvalidateInv'
  BY TreeAssumption DEF Inv, InvalidateInv, InvalidateDisconnect, indexVars, TypeOK, Active
<1>7. MutexInv' /\ IndexInv'
  BY DEF Inv, MutexInv, InChainstate, InRound, IndexInv, Failed, Active, InvalidateDisconnect,
      indexVars, dataVars, seqVars, abcVars, preciousVars
<1> QED BY <1>1, <1>2, <1>3, <1>4, <1>5, <1>6, <1>7 DEF Inv

\* A disconnection that fails for want of data changes nothing.
LEMMA InvalidateFailsKeeps ==
  ASSUME Inv, NEW t \in Threads, InvalidateFails(t)
  PROVE  Inv'
<1>1. TypeOK'
  BY DEF Inv, TypeOK, SubsetsOfIndex, Failed, InvalidateFails, Goto, indexVars, dataVars,
      failVars, seqVars, chainVars, abcVars, preciousVars
<1>2. MutexInv'
  BY DEF Inv, MutexInv, InChainstate, InRound, InvalidateFails, Goto, indexVars, dataVars,
      failVars, seqVars, chainVars, abcVars, preciousVars
<1>3. CandidatesInv'
  BY DEF Inv, CandidatesInv, InvalidateFails, Goto, indexVars, dataVars, failVars, seqVars,
      chainVars, abcVars, preciousVars
<1>4. MostWorkInv'
  BY DEF Inv, MostWorkInv, Failed, InRound, InvalidateFails, Goto, indexVars, dataVars,
      failVars, seqVars, chainVars, abcVars, preciousVars
<1>5. StepInv'
  BY DEF Inv, StepInv, InvalidateFails, Goto, indexVars, dataVars, failVars, seqVars, chainVars,
      abcVars, preciousVars
<1>6. InvalidateInv'
  BY DEF Inv, InvalidateInv, InvalidateFails, Goto, indexVars, dataVars, failVars, seqVars,
      chainVars, TypeOK, MutexInv
<1>7. ActiveChainValid' /\ IndexInv'
  BY DEF Inv, ActiveChainValid, Active, Failed, IndexInv, InvalidateFails, indexVars, dataVars,
      failVars, seqVars, chainVars, abcVars, preciousVars
<1> QED BY <1>1, <1>2, <1>3, <1>4, <1>5, <1>6, <1>7 DEF Inv

\* The last marks go on the block noted and above it, none of them in the chain.
LEMMA InvalidateFinishKeeps ==
  ASSUME Inv, NEW t \in Threads, InvalidateFinish(t)
  PROVE  Inv'
<1>1. TypeOK'
  BY DEF Inv, TypeOK, SubsetsOfIndex, Failed, InvalidateFinish, MissingCandidates,
      InvalidChainFound, Worse, WorseBy, Goto, dataVars, seqVars, chainVars, abcVars,
      preciousVars, InvalidateInv
<1>2. ActiveChainValid'
  BY TreeAssumption DEF Inv, ActiveChainValid, Active, Failed, InvalidateFinish,
      MissingCandidates, InvalidChainFound, Worse, WorseBy, Goto, dataVars, chainVars, TypeOK,
      InvalidateInv
<1>3. MutexInv'
  BY DEF Inv, MutexInv, InChainstate, InRound, InvalidateFinish, MissingCandidates,
      InvalidChainFound, Worse, WorseBy, Goto, dataVars, seqVars, chainVars, abcVars,
      preciousVars
<1>4. CandidatesInv'
  BY MeasureAssumption DEF Inv, CandidatesInv, InvalidateFinish, MissingCandidates, Worse,
      WorseBy, dataVars, chainVars, TypeOK
<1>5. MostWorkInv'
  BY DEF Inv, MostWorkInv, Failed, InRound, InvalidateFinish, MissingCandidates,
      InvalidChainFound, Worse, WorseBy, Goto, dataVars, abcVars, TypeOK, MutexInv
<1>6. StepInv'
  BY DEF Inv, StepInv, InvalidateFinish, MissingCandidates, InvalidChainFound, Worse, WorseBy,
      Goto, dataVars, seqVars, chainVars, abcVars, preciousVars
<1>7. InvalidateInv'
  BY DEF Inv, InvalidateInv, InvalidateFinish, MissingCandidates, InvalidChainFound, Worse,
      WorseBy, Goto, dataVars, seqVars, chainVars, TypeOK, MutexInv
<1>8. IndexInv'
  BY DEF Inv, IndexInv, Failed, Active, InvalidateFinish, dataVars, seqVars, chainVars, abcVars,
      preciousVars
<1> QED BY <1>1, <1>2, <1>3, <1>4, <1>5, <1>6, <1>7, <1>8 DEF Inv

\* Clearing marks puts no mark in the chain; blocks with less work stay out of the set.
LEMMA ReconsiderKeeps ==
  ASSUME Inv, NEW t \in Threads, NEW b \in Blocks, Reconsider(t, b)
  PROVE  Inv'
<1>1. TypeOK'
  BY DEF Inv, TypeOK, SubsetsOfIndex, Failed, Reconsider, NotValidAbove, CandidateAgain, Worse,
      WorseBy, Goto, indexVars, dataVars, seqVars, chainVars, abcVars, invVars, preciousVars
<1>2. ActiveChainValid'
  BY DEF Inv, ActiveChainValid, Active, Failed, Reconsider, NotValidAbove, CandidateAgain, Worse,
      WorseBy, Goto, indexVars, dataVars, seqVars, chainVars, abcVars, invVars, preciousVars
<1>3. MutexInv'
  BY DEF Inv, MutexInv, InChainstate, InRound, Reconsider, NotValidAbove, CandidateAgain, Worse,
      WorseBy, Goto, indexVars, dataVars, seqVars, chainVars, abcVars, invVars, preciousVars
<1>4. CandidatesInv'
  BY MeasureAssumption DEF Inv, CandidatesInv, Reconsider, NotValidAbove, CandidateAgain, Worse,
      WorseBy, dataVars, chainVars, invVars, TypeOK
<1>5. MostWorkInv'
  BY DEF Inv, MostWorkInv, Failed, InRound, Reconsider, NotValidAbove, CandidateAgain, Worse,
      WorseBy, Goto, indexVars, dataVars, seqVars, chainVars, abcVars, invVars, preciousVars
<1>6. StepInv'
  BY DEF Inv, StepInv, Reconsider, NotValidAbove, CandidateAgain, Worse, WorseBy, Goto, indexVars,
      dataVars, seqVars, chainVars, abcVars, invVars, preciousVars
<1>7. InvalidateInv'
  BY DEF Inv, InvalidateInv, Reconsider, NotValidAbove, CandidateAgain, Worse, WorseBy, Goto,
      indexVars, dataVars, seqVars, chainVars, abcVars, invVars, preciousVars
<1>8. IndexInv'
  BY DEF Inv, IndexInv, Failed, Active, Reconsider, indexVars, dataVars, seqVars, chainVars,
      abcVars, invVars, preciousVars
<1> QED BY <1>1, <1>2, <1>3, <1>4, <1>5, <1>6, <1>7, <1>8 DEF Inv

\* Pruning takes data away, and no mark or link with it.
LEMMA PruneKeeps ==
  ASSUME Inv, NEW t \in Threads, NEW h \in Nat, Prune(t, h)
  PROVE  Inv'
<1>1. TypeOK'
  BY DEF Inv, TypeOK, SubsetsOfIndex, Failed, Prune, indexVars, failVars, seqVars, chainVars,
      abcVars, invVars, preciousVars
<1>2. /\ ActiveChainValid' /\ MutexInv' /\ IndexInv' /\ CandidatesInv'
      /\ MostWorkInv' /\ StepInv' /\ InvalidateInv'
  BY DEF Inv, ActiveChainValid, Active, Failed, MutexInv, InChainstate, InRound, IndexInv,
      CandidatesInv, MostWorkInv, StepInv, InvalidateInv, Prune, indexVars, failVars, seqVars,
      chainVars, abcVars, invVars, preciousVars
<1> QED BY <1>1, <1>2 DEF Inv

-----------------------------------------------------------------------------
(* The invariant and the theorems. *)

\* At the start the chain is the genesis block, linked and free of marks.
LEMMA InitInv == Init => Inv
<1> SUFFICES ASSUME Init PROVE Inv
  OBVIOUS
<1>1. blocksConnected \in BOOLEAN
  BY DEF Init
<1>2. nSequenceId \in [Blocks -> Int] /\ pc \in [Threads -> InChainstate \cup {"idle", "abc"}]
  BY DEF Init, InChainstate
<1>3. TypeOK
  BY <1>1, <1>2, TreeAssumption, ThreadsAssumption DEF Init, TypeOK, SubsetsOfIndex, Failed
<1>4. ActiveChainValid
  BY TreeAssumption, MeasureAssumption DEF Init, ActiveChainValid, Active, Failed
<1>5. MutexInv /\ MostWorkInv /\ StepInv /\ InvalidateInv
  BY DEF Init, MutexInv, MostWorkInv, StepInv, InvalidateInv, InChainstate, InRound
<1>6. IndexInv /\ CandidatesInv
  BY TreeAssumption, MeasureAssumption DEF Init, IndexInv, CandidatesInv
<1> QED BY <1>3, <1>4, <1>5, <1>6 DEF Inv

\* Nothing in the invariant depends on anything but the variables.
LEMMA StutterKeeps ==
  ASSUME Inv, UNCHANGED vars
  PROVE  Inv'
<1>1. blocksConnected' = blocksConnected
  BY DEF vars, abcVars
<1>2. /\ UNCHANGED <<indexVars, dataVars, failVars, seqVars, setBlockIndexCandidates, chainVars,
                     pc, pindexMostWork, startingTip, pindexOldTip, batchTop, invVars>>
  BY DEF vars, abcVars
<1>3. TypeOK'
  BY <1>1, <1>2 DEF Inv, TypeOK, SubsetsOfIndex, Failed, indexVars, dataVars, failVars,
     preciousVars, seqVars, chainVars, invVars
<1>4. ActiveChainValid' /\ MutexInv' /\ IndexInv' /\ CandidatesInv'
  BY <1>2 DEF Inv, ActiveChainValid, Active, Failed, MutexInv, IndexInv, CandidatesInv,
     indexVars, dataVars, failVars, chainVars, invVars
<1>5. MostWorkInv' /\ StepInv' /\ InvalidateInv'
  BY <1>2 DEF Inv, MostWorkInv, Failed, StepInv, InvalidateInv, indexVars, dataVars, failVars,
     chainVars, invVars
<1> QED BY <1>3, <1>4, <1>5 DEF Inv

\* What peers and operators ask of an idle thread keeps the invariant.
LEMMA RequestKeeps ==
  ASSUME Inv, NEW t \in Threads, Request(t)
  PROVE  Inv'
<1>1. CASE \E b \in Blocks \ {Genesis} : AcceptHeader(t, b)
  BY <1>1, AcceptHeaderKeeps
<1>2. CASE \E b \in Blocks \ {Genesis} : RejectHeader(t, b)
  BY <1>2, RejectHeaderKeeps
<1>3. CASE \E b \in Blocks \ {Genesis}, requested \in BOOLEAN : IgnoreBlock(t, b, requested)
  BY <1>3, IgnoreBlockKeeps
<1>4. CASE \E b \in Blocks \ {Genesis}, requested, mutated \in BOOLEAN :
             RejectBlock(t, b, requested, mutated)
  BY <1>4, RejectBlockKeeps
<1>5. CASE \E b \in Blocks \ {Genesis}, requested \in BOOLEAN : StoreBlock(t, b, requested)
  BY <1>5, StoreBlockKeeps
<1>6. CASE \E b \in Blocks : PreciousBlock(t, b)
  BY <1>6, PreciousBlockKeeps
<1>7. CASE \E b \in Blocks : InvalidateBegin(t, b)
  BY <1>7, InvalidateBeginKeeps
<1>8. CASE \E b \in Blocks : Reconsider(t, b)
  BY <1>8, ReconsiderKeeps
<1>9. CASE \E h \in {Height[b] : b \in Blocks} \ {0} : Prune(t, h)
  <2>1. \A h \in {Height[b] : b \in Blocks} : h \in Nat
    BY MeasureAssumption
  <2> QED BY <1>9, <2>1, PruneKeeps
<1> QED BY <1>1, <1>2, <1>3, <1>4, <1>5, <1>6, <1>7, <1>8, <1>9 DEF Request

\* A thread that runs on keeps the invariant.
LEMMA ContinueKeeps ==
  ASSUME Inv, NEW t \in Threads, Continue(t)
  PROVE  Inv'
<1>1. CASE AbcBegin(t) \/ AbcLock(t) \/ AbcUnlock(t)
  BY <1>1, AbcBeginKeeps, AbcLockKeeps, AbcUnlockKeeps
<1>2. CASE SelectMostWork(t) \/ DiscardFailedCandidate(t) \/ DiscardMissingCandidate(t)
  BY <1>2, SelectMostWorkKeeps, DiscardFailedCandidateKeeps, DiscardMissingCandidateKeeps
<1>3. CASE AbcNothingToDo(t) \/ AbcStep(t) \/ AbcDisconnectTip(t) \/ AbcFatal(t) \/ AbcBuildBatch(t)
  BY <1>3, AbcNothingToDoKeeps, AbcStepKeeps, AbcDisconnectTipKeeps, AbcFatalKeeps, AbcBuildBatchKeeps
<1>4. CASE \E b \in Blocks \ {Genesis} : AbcConnectTip(t, b) \/ AbcConnectInvalid(t, b)
  BY <1>4, AbcConnectTipKeeps, AbcConnectInvalidKeeps
<1>5. CASE InvalidateDisconnect(t) \/ InvalidateFails(t) \/ InvalidateFinish(t)
  BY <1>5, InvalidateDisconnectKeeps, InvalidateFailsKeeps, InvalidateFinishKeeps
<1> QED BY <1>1, <1>2, <1>3, <1>4, <1>5 DEF Continue

\* Every step of every thread keeps the invariant.
LEMMA StepKeeps == Inv /\ [Next]_vars => Inv'
<1> SUFFICES ASSUME Inv, [Next]_vars PROVE Inv'
  OBVIOUS
<1>1. CASE \E t \in Threads : Request(t)
  BY <1>1, RequestKeeps
<1>2. CASE \E t \in Threads : Continue(t)
  BY <1>2, ContinueKeeps
<1>3. CASE \E t \in Threads : Stopped(t)
  BY <1>3, StutterKeeps DEF Stopped
<1>4. CASE UNCHANGED vars
  BY <1>4, StutterKeeps
<1> QED BY <1>1, <1>2, <1>3, <1>4 DEF Next

\* TypeOK: the flags of the block index nest as CheckBlockIndex expects (data implies
\* transactions, linked implies transactions, scripts valid implies linked) and every
\* marker points into the index, after any calls by any number of threads.
THEOREM TypeCorrect == Spec => []TypeOK
<1>1. Inv => TypeOK
  BY DEF Inv
<1> QED BY InitInv, StepKeeps, <1>1, PTL DEF Spec

\* ActiveChainValid: no block that ConnectBlock or ContextualCheckBlock rejects, and
\* none with a failure mark, is ever in the active chain.
THEOREM ActiveChainIsValid == Spec => []ActiveChainValid
<1>1. Inv => ActiveChainValid
  BY DEF Inv
<1> QED BY InitInv, StepKeeps, <1>1, PTL DEF Spec

-----------------------------------------------------------------------------
(***************************************************************************)
(* LinksRight; then the candidates: CandidatesRight, QuiescentTipIsBest    *)
(* and PrunedBranchWaits, and that Chainstate implements BestChain: for    *)
(* every block tree, every set of invalid blocks, every number of threads  *)
(* and every interleaving of them, of peers and of operators.              *)
(*                                                                         *)
(* LinksRight is about a node that does not prune and whose operators do   *)
(* not call reconsiderblock (Unpruned): a block that a mark kept out of    *)
(* m_blocks_unlinked, or that pruning took out of it, is not linked any    *)
(* more.  The others are about all nodes, as long as no call is of the few *)
(* that WholeCalls rules out; what those break is said there.              *)
(***************************************************************************)

Unpruned == PruneMode = FALSE /\ Reconsiderable = {}
PlainNode == Unpruned /\ Precious = {}

\* The calls the candidates can stand.  InvalidateBlock does not stop at a pruned block after
\* it has disconnected others: the sweep of the index at its end would be missing.
\* reconsiderblock is given the lowest of the marked blocks of a branch: it clears the marks
\* below its block, too, but does not offer what carried them.  preciousblock does not rank
\* the tip lower than it was, below blocks that left the candidates as worse than the tip.
\* A block that comes again after it was pruned is not a candidate, nor is any that waits for
\* it: their sequence ids, by which the set is ordered, change in place.
WholeCalls ==
  \A t \in Threads :
    /\ InvalidateFails(t) => toMarkFailed = invTarget
    /\ \A b \in Blocks :
         /\ Reconsider(t, b) => Path[b] \cap Failed \subseteq {b}
         /\ PreciousBlock(t, b) => nSequenceId'[tip] <= nSequenceId[tip]
    /\ \A b \in Blocks \ {Genesis} : \A requested \in BOOLEAN :
         StoreBlock(t, b, requested) => NewlyLinked(b) \cap setBlockIndexCandidates = {}

\* Without pruning every block that was received has its data, and what is linked
\* does not wait.
DataInv == haveData = validTx /\ m_blocks_unlinked \cap chainTx = {}

\* A mark of BLOCK_FAILED_CHILD has a reason below it.
MarksInv == \A x \in failedChild : Path[x] \cap failedValid # {}

LinksInv ==
  \A b \in Blocks : Path[b] \cap failedValid = {} =>
    /\ Path[b] \subseteq validTx => b \in chainTx
    /\ b \in haveData \ chainTx => b \in m_blocks_unlinked

LinkPart == DataInv /\ MarksInv /\ LinksInv

\* A linked block waits because its parent does, or because its parent was pruned, outside
\* the active chain.
WaitInv ==
  /\ m_blocks_unlinked \subseteq haveData \ {Genesis}
  /\ \A b \in m_blocks_unlinked \cap chainTx :
       Parent[b] \in m_blocks_unlinked \/ Parent[b] \notin haveData \cup Active

\* What is still to be connected of the branch ActivateBestChain goes for is there, and so is
\* what would have to be connected to come back to the round's first tip.
WayInv ==
  /\ pindexMostWork # NoBlock => Path[pindexMostWork] \ Active \subseteq haveData
  /\ ~CsMainFree => Path[startingTip] \ Active \subseteq haveData

SoundInv == \A c \in setBlockIndexCandidates : ~Worse(c, tip)
TipInv == CsMainFree => tip \in setBlockIndexCandidates

\* The set is complete, but for blocks that wait for data, from the better of the present tip
\* and the one of the round's start; only not between the disconnections of InvalidateBlock.
HalfWay == InvalidateRunning /\ (toMarkFailed # invTarget \/ invTarget \notin Active)
CompleteInv ==
  ~HalfWay => \A b \in (haveData \cap chainTx) \ Failed :
    ~Worse(b, tip) /\ (~CsMainFree => ~Worse(b, startingTip))
      => b \in setBlockIndexCandidates \cup m_blocks_unlinked

\* A round goes from its first tip to one that is not worse, and until then has its first tip
\* among the candidates, to come back to.
RoundAt(place) ==
  /\ place \in InRound => /\ startingTip \in chainTx
                          /\ Path[startingTip] \cap (Failed \cup ConnectInvalid) = {}
  /\ place \in {"find", "disconnect"} => ~Worse(startingTip, tip) /\ startingTip \in setBlockIndexCandidates
  /\ place = "connect" => IF Worse(tip, startingTip) THEN startingTip \in setBlockIndexCandidates
                                                     ELSE tip \in setBlockIndexCandidates
  /\ place \in {"find", "disconnect", "connect"} /\ pindexMostWork # NoBlock
       => ~Worse(pindexMostWork, startingTip)
  /\ place = "unlock" => /\ ~Worse(tip, startingTip) /\ tip \in setBlockIndexCandidates
                         /\ blocksConnected \/ tip = pindexMostWork
  /\ place \in {"lock", "unlock"} /\ pindexMostWork # NoBlock => tip \in Path[pindexMostWork]
  /\ place = "lock" => tip # pindexMostWork
RoundInv == \A t \in Threads : RoundAt(pc[t])

\* A candidate better than what ActivateBestChain goes for, or than the tip when nobody is in
\* ActivateBestChain, came with a call that is still to begin it.
Pending == \E t \in Threads : pc[t] = "abc"
RestInv ==
  ~Pending =>
    /\ pindexMostWork # NoBlock => \A c \in setBlockIndexCandidates : ~Worse(pindexMostWork, c)
    /\ ChainstateMutexFree => \A c \in setBlockIndexCandidates : ~Worse(tip, c)

DataPart == WaitInv /\ WayInv
CandPart == SoundInv /\ TipInv /\ CompleteInv /\ RoundInv /\ RestInv
CInv == Inv /\ DataPart /\ CandPart

-----------------------------------------------------------------------------
(* The order of the candidates.                                            *)

\* It is a strict total order, by work first.
LEMMA Order ==
  ASSUME NEW seq \in [Blocks -> Int], NEW a \in Blocks, NEW b \in Blocks, NEW c \in Blocks
  PROVE  /\ ~WorseBy(seq, a, a)
         /\ ~(WorseBy(seq, a, b) /\ WorseBy(seq, b, a))
         /\ a # b => WorseBy(seq, a, b) \/ WorseBy(seq, b, a)
         /\ WorseBy(seq, a, b) /\ WorseBy(seq, b, c) => WorseBy(seq, a, c)
         /\ Work[a] < Work[b] => WorseBy(seq, a, b)
         /\ WorseBy(seq, a, b) => Work[a] <= Work[b]
<1> DEFINE w(x) == Work[x]
           s(x) == seq[x]
           d(x) == Addr[x]
<1>1. \A x \in {a, b, c} : w(x) \in Nat /\ s(x) \in Int /\ d(x) \in Nat
  BY MeasureAssumption
<1>2. a # b => d(a) # d(b)
  BY MeasureAssumption
<1>3. \A x, y \in {a, b, c} : WorseBy(seq, x, y) <=>
        \/ w(x) < w(y)
        \/ w(x) = w(y) /\ s(x) > s(y)
        \/ w(x) = w(y) /\ s(x) = s(y) /\ d(x) > d(y)
  BY DEF WorseBy
<1> HIDE DEF w, s, d
<1>4. /\ ~WorseBy(seq, a, a)
      /\ ~(WorseBy(seq, a, b) /\ WorseBy(seq, b, a))
      /\ a # b => WorseBy(seq, a, b) \/ WorseBy(seq, b, a)
      /\ w(a) < w(b) => WorseBy(seq, a, b)
      /\ WorseBy(seq, a, b) => w(a) <= w(b)
  BY <1>1, <1>2, <1>3
<1>5. WorseBy(seq, a, b) /\ WorseBy(seq, b, c) => WorseBy(seq, a, c)
  BY <1>1, <1>3
<1> QED BY <1>4, <1>5 DEF w

\* The same of Worse, in the states the invariant allows.
LEMMA WorseFacts ==
  ASSUME TypeOK, NEW a \in Blocks, NEW b \in Blocks, NEW c \in Blocks
  PROVE  /\ ~Worse(a, a)
         /\ ~(Worse(a, b) /\ Worse(b, a))
         /\ a # b => Worse(a, b) \/ Worse(b, a)
         /\ Worse(a, b) /\ Worse(b, c) => Worse(a, c)
         /\ ~Worse(a, b) /\ ~Worse(b, c) => ~Worse(a, c)
         /\ Work[a] < Work[b] => Worse(a, b)
         /\ Worse(a, b) => Work[a] <= Work[b]
<1>1. nSequenceId \in [Blocks -> Int]
  BY DEF TypeOK
<1>2. \A x, y, z \in {a, b, c} :
         /\ ~Worse(x, x) /\ ~(Worse(x, y) /\ Worse(y, x))
         /\ x # y => Worse(x, y) \/ Worse(y, x)
         /\ Worse(x, y) /\ Worse(y, z) => Worse(x, z)
  BY <1>1, Order DEF Worse
<1>3. ~Worse(a, b) /\ ~Worse(b, c) => ~Worse(a, c)
  BY <1>2
<1>4. (Work[a] < Work[b] => Worse(a, b)) /\ (Worse(a, b) => Work[a] <= Work[b])
  BY <1>1, Order DEF Worse
<1> QED BY <1>2, <1>3, <1>4

\* The blocks the invariant compares are blocks of the tree.
LEMMA Known ==
  ASSUME Inv
  PROVE  /\ tip \in Blocks /\ tip \in chainTx /\ chainTx \subseteq Blocks /\ index \subseteq Blocks
         /\ setBlockIndexCandidates \subseteq chainTx /\ nSequenceId \in [Blocks -> Int]
         /\ startingTip # NoBlock => startingTip \in Blocks
         /\ pindexMostWork # NoBlock => pindexMostWork \in Blocks /\ pindexMostWork \in chainTx
         /\ Path[tip] \cap (Failed \cup ConnectInvalid) = {}
<1>1. TypeOK /\ ActiveChainValid /\ CandidatesInv /\ MostWorkInv
  BY DEF Inv
<1>2. tip \in Blocks /\ index \subseteq Blocks /\ chainTx \subseteq Blocks /\ nSequenceId \in [Blocks -> Int]
  BY <1>1 DEF TypeOK, SubsetsOfIndex
<1>3. tip \in chainTx /\ Path[tip] \cap (Failed \cup ConnectInvalid) = {}
  <2>1. tip \in Path[tip]
    BY <1>2, AncestorFacts
  <2> QED BY <1>1, <2>1 DEF ActiveChainValid, Active, TypeOK, SubsetsOfIndex
<1>4. setBlockIndexCandidates \subseteq chainTx
  BY <1>1 DEF CandidatesInv
<1>5. startingTip # NoBlock => startingTip \in Blocks
  BY <1>1, <1>2 DEF TypeOK
<1>6. pindexMostWork # NoBlock => pindexMostWork \in Blocks /\ pindexMostWork \in chainTx
  BY <1>1, <1>2 DEF MostWorkInv
<1> QED BY <1>2, <1>3, <1>4, <1>5, <1>6

-----------------------------------------------------------------------------
(* More of the tree.                                                       *)

\* Of the blocks of a set that is not empty one is the lowest.
LEMMA LowestOf ==
  ASSUME NEW S, S \subseteq Blocks, S # {}
  PROVE  \E x \in S : \A y \in S : Height[x] <= Height[y]
<1> DEFINE T == {Height[x] : x \in S}
           R == {ss \in Nat \X Nat : ss[1] < ss[2]}
<1>1. T \subseteq Nat /\ T # {}
  BY MeasureAssumption
<1>2. IsWellFoundedOn(R, Nat)
  BY NatLessThanWellFounded DEF OpToRel
<1>3. PICK h \in T : \A k \in T : ~ (<<k, h>> \in R)
  <2> HIDE DEF R, T
  <2> QED BY <1>1, <1>2, WFMin
<1>4. \A k \in T : h <= k
  <2> TAKE k \in T
  <2>1. h \in Nat /\ k \in Nat
    BY <1>1
  <2>2. ~(k < h)
    <3>1. <<k, h>> \in Nat \X Nat
      BY <2>1
    <3> QED BY <1>3, <3>1
  <2> QED BY <2>1, <2>2
<1> QED BY <1>4

\* Ancestors are lower.
LEMMA AncestorsLower ==
  ASSUME NEW b \in Blocks, NEW a \in Path[b], a # b
  PROVE  Height[a] < Height[b]
<1> DEFINE S == {x \in Blocks : \E y \in Path[x] : ~(Height[y] <= Height[x])}
<1>1. S = {}
  <2> SUFFICES ASSUME S # {} PROVE FALSE
    OBVIOUS
  <2>1. PICK x \in S : \A y \in S : Height[x] <= Height[y]
    <3> HIDE DEF S
    <3> QED BY LowestOf DEF S
  <2>2. PICK y \in Path[x] : ~(Height[y] <= Height[x])
    OBVIOUS
  <2>3. x # Genesis /\ y # x /\ y \in Blocks
    BY <2>2, TreeAssumption, MeasureAssumption
  <2>4. /\ Parent[x] \in Blocks /\ y \in Path[Parent[x]] /\ Height[x] = Height[Parent[x]] + 1
        /\ Height[x] \in Nat /\ Height[y] \in Nat /\ Height[Parent[x]] \in Nat
    BY <2>2, <2>3, TreeAssumption, MeasureAssumption
  <2>5. Parent[x] \in S
    BY <2>2, <2>4
  <2> QED BY <2>1, <2>4, <2>5
<1>2. b # Genesis /\ a \in Blocks
  BY TreeAssumption
<1>3. Parent[b] \in Blocks /\ a \in Path[Parent[b]] /\ Height[b] = Height[Parent[b]] + 1
  BY <1>2, TreeAssumption, MeasureAssumption
<1>4. Height[a] <= Height[Parent[b]]
  BY <1>1, <1>3
<1> QED BY <1>2, <1>3, <1>4, MeasureAssumption

\* A block between two of a chain, seen from the upper one.
LEMMA ParentAbove ==
  ASSUME NEW c \in Blocks, NEW x \in Path[c], NEW y \in Path[c] \ Path[x]
  PROVE  /\ y \in Blocks \ {Genesis} /\ x \in Path[y] /\ x # y
         /\ Parent[y] = x \/ Parent[y] \in Path[c] \ Path[x]
<1>1. x \in Blocks /\ y \in Blocks \ {Genesis} /\ x \in Path[y] /\ x # y /\ Path[y] \subseteq Path[c]
  BY AncestorFacts, TreeAssumption
<1>2. x \in Path[Parent[y]] /\ Parent[y] \in Path[c] /\ Parent[y] \in Blocks
  BY <1>1, AncestorFacts
<1>3. ASSUME Parent[y] \in Path[x] PROVE Parent[y] = x
  BY <1>1, <1>2, <1>3, MeasureAssumption, AncestorFacts
<1> QED BY <1>1, <1>2, <1>3

-----------------------------------------------------------------------------
(* What was received, linked and left waiting.                             *)

\* More marks, with reasons, and nothing else.
LEMMA LinkKept ==
  ASSUME LinkPart, UNCHANGED dataVars, failedValid \subseteq failedValid', MarksInv'
  PROVE  LinkPart'
<1>1. UNCHANGED <<haveData, validTx, chainTx, m_blocks_unlinked>>
  BY DEF dataVars
<1>2. DataInv'
  BY <1>1 DEF LinkPart, DataInv
<1>3. ASSUME NEW b \in Blocks, Path[b] \cap failedValid' = {}
      PROVE  Path[b] \cap failedValid = {}
  BY <1>3
<1>4. LinksInv'
  BY <1>1, <1>3 DEF LinkPart, LinksInv
<1> QED BY <1>2, <1>4 DEF LinkPart

\* The same when no mark is set or taken away.
LEMMA LinkUnmarked ==
  ASSUME LinkPart, UNCHANGED dataVars, failedValid' = failedValid, failedChild' = failedChild
  PROVE  LinkPart'
<1>1. MarksInv'
  BY DEF LinkPart, MarksInv
<1> QED BY <1>1, LinkKept

\* What lies on the way to a marked block from below has a reason for a mark below it.
LEMMA ReasonBelow ==
  ASSUME LinkPart, NEW b \in Blocks, NEW x \in Path[b], x \in Failed
  PROVE  Path[b] \cap failedValid # {}
<1>1. x \in Blocks /\ x \in Path[x] /\ Path[x] \subseteq Path[b]
  BY AncestorFacts
<1>2. Path[x] \cap failedValid # {}
  BY <1>1 DEF Failed, LinkPart, MarksInv
<1> QED BY <1>1, <1>2

\* A block that comes closes the last gap below what waits for it, or waits itself.
LEMMA StoreBlockLinks ==
  ASSUME Inv, LinkPart, NEW t \in Threads, NEW b \in Blocks \ {Genesis},
         NEW requested \in BOOLEAN, StoreBlock(t, b, requested)
  PROVE  LinkPart'
<1> DEFINE S == NewlyLinked(b)
<1>1. /\ haveData' = haveData \cup {b} /\ validTx' = validTx \cup {b} /\ b \notin haveData
      /\ failedValid' = failedValid /\ failedChild' = failedChild
  BY DEF StoreBlock, NotProcessed, failVars
<1>2. /\ haveData = validTx /\ m_blocks_unlinked \cap chainTx = {} /\ chainTx \subseteq validTx
      /\ \A c \in chainTx : Path[c] \subseteq chainTx
  BY DEF LinkPart, DataInv, Inv, TypeOK, SubsetsOfIndex, IndexInv
<1>3. MarksInv'
  BY <1>1 DEF LinkPart, MarksInv
<1>4. Parent[b] \in Blocks /\ Path[b] = Path[Parent[b]] \cup {b} /\ Parent[b] \in Path[b] /\ b \in Path[b]
  BY AncestorFacts
<1>5. CASE Parent[b] \in chainTx
  <2>1. chainTx' = chainTx \cup S /\ m_blocks_unlinked' = m_blocks_unlinked \ S
    BY <1>5 DEF StoreBlock, LinkBlock
  <2>2. DataInv'
    BY <1>1, <1>2, <2>1 DEF DataInv
  <2>3. ASSUME NEW c \in Blocks, Path[c] \cap failedValid = {}, Path[c] \subseteq validTx \cup {b}
        PROVE  c \in chainTx \cup S
    <3>1. CASE b \notin Path[c]
      BY <1>2, <2>3, <3>1 DEF LinkPart, LinksInv
    <3>2. CASE b \in Path[c]
      <4>1. ASSUME NEW y \in Path[c], y # b, b \in Path[y] PROVE y \in m_blocks_unlinked
        <5>1. y \in Blocks /\ Path[y] \subseteq Path[c]
          BY AncestorFacts
        <5>2. y \in haveData /\ y \notin chainTx
          BY <1>1, <1>2, <2>3, <4>1
        <5> QED BY <2>3, <5>1, <5>2 DEF LinkPart, LinksInv
      <4>2. \A y \in Path[c] \ Path[b] : b \in Path[y] /\ y # b
        BY <1>4, <3>2, TreeAssumption
      <4>3. Path[c] \ Path[b] \subseteq m_blocks_unlinked
        BY <4>1, <4>2
      <4>4. c \in m_blocks_unlinked \cup {b}
        BY <3>2, <4>1, AncestorFacts
      <4> QED BY <3>2, <4>3, <4>4 DEF NewlyLinked
    <3> QED BY <3>1, <3>2
  <2>4. b \in S
    BY <1>4 DEF NewlyLinked
  <2> HIDE DEF S
  <2>5. LinksInv'
    BY <1>1, <2>1, <2>3, <2>4 DEF LinkPart, LinksInv
  <2> QED BY <1>3, <2>2, <2>5 DEF LinkPart
<1>6. CASE Parent[b] \notin chainTx
  <2>1. chainTx' = chainTx /\ m_blocks_unlinked' = m_blocks_unlinked \cup (IF FailedMask(Parent[b]) THEN {} ELSE {b})
    BY <1>6 DEF StoreBlock, ParkBlock
  <2>2. DataInv'
    BY <1>1, <1>2, <2>1 DEF DataInv
  <2>3. ASSUME NEW c \in Blocks, Path[c] \cap failedValid = {}, Path[c] \subseteq validTx \cup {b}
        PROVE  c \in chainTx
    <3>1. CASE b \notin Path[c]
      BY <1>2, <2>3, <3>1 DEF LinkPart, LinksInv
    <3>2. CASE b \in Path[c]
      <4>1. Path[Parent[b]] \subseteq Path[b] /\ Path[b] \subseteq Path[c] /\ b \notin Path[Parent[b]]
        BY <1>4, <3>2, AncestorFacts
      <4>2. Path[Parent[b]] \subseteq validTx /\ Path[Parent[b]] \cap failedValid = {}
        BY <2>3, <4>1
      <4> QED BY <1>4, <1>6, <4>2 DEF LinkPart, LinksInv
    <3> QED BY <3>1, <3>2
  <2>4. Path[b] \cap failedValid = {} => b \in m_blocks_unlinked'
    BY <1>4, <2>1, ReasonBelow DEF FailedMask
  <2>5. LinksInv'
    BY <1>1, <2>1, <2>3, <2>4 DEF LinkPart, LinksInv
  <2> QED BY <1>3, <2>2, <2>5 DEF LinkPart
<1> QED BY <1>5, <1>6

\* The marks of a header that is refused lie above a block of m_failed_blocks.
LEMMA RejectHeaderLinks ==
  ASSUME Inv, LinkPart, NEW t \in Threads, NEW b \in Blocks \ {Genesis}, RejectHeader(t, b)
  PROVE  LinkPart'
<1>1. UNCHANGED dataVars /\ failedValid' = failedValid
  BY DEF RejectHeader
<1>2. PICK f \in FailedAncestors(b) : failedChild' = failedChild \cup (Path[Parent[b]] \ Path[f])
  BY DEF RejectHeader
<1>3. f \in failedValid /\ f \in Path[Parent[b]] /\ Parent[b] \in Blocks
  BY AncestorFacts DEF FailedAncestors, Inv, TypeOK, SubsetsOfIndex
<1>4. \A x \in Path[Parent[b]] \ Path[f] : f \in Path[x]
  BY <1>3, TreeAssumption
<1>5. MarksInv'
  BY <1>1, <1>2, <1>3, <1>4 DEF LinkPart, MarksInv
<1> QED BY <1>1, <1>5, LinkKept

\* What lies above a failed block is marked.
LEMMA DiscardFailedLinks ==
  ASSUME Inv, LinkPart, NEW t \in Threads, DiscardFailedCandidate(t)
  PROVE  LinkPart'
<1>1. UNCHANGED dataVars /\ failedValid' = failedValid
  BY DEF DiscardFailedCandidate
<1>2. PICK c \in setBlockIndexCandidates : \E x \in Path[c] :
        x \in Failed /\ failedChild' = failedChild \cup (Path[c] \ Path[x])
  BY DEF DiscardFailedCandidate, FailedMask, Above
<1>3. PICK x \in Path[c] : x \in Failed /\ failedChild' = failedChild \cup (Path[c] \ Path[x])
  BY <1>2
<1>4. c \in Blocks
  BY Known
<1>5. ASSUME NEW y \in Path[c] \ Path[x] PROVE Path[y] \cap failedValid # {}
  <2>1. y \in Blocks /\ x \in Path[y]
    BY <1>4, AncestorFacts, TreeAssumption
  <2> QED BY <1>3, <2>1, ReasonBelow
<1>6. MarksInv'
  BY <1>1, <1>3, <1>5 DEF LinkPart, MarksInv
<1> QED BY <1>1, <1>6, LinkKept

\* InvalidateBlock never turns a mark into one of a child.
LEMMA NeverCorrects ==
  ASSUME Inv, NEW t \in Threads, pc[t] = "inv", tip # Genesis
  PROVE  ~CorrectsMark
<1>1. /\ toMarkFailed \in Blocks \ {Genesis} /\ tip \in Blocks
      /\ toMarkFailed = invTarget \/ Parent[toMarkFailed] = tip
  BY DEF Inv, InvalidateInv, TypeOK
<1>2. ASSUME Parent[tip] = toMarkFailed PROVE toMarkFailed \notin failedValid
  <2>1. toMarkFailed \in Path[tip]
    BY <1>1, <1>2, AncestorFacts
  <2> QED BY <2>1 DEF Inv, ActiveChainValid, Active, Failed
<1> QED BY <1>2 DEF CorrectsMark

\* The mark InvalidateBlock sets is its own reason.
LEMMA InvalidateDisconnectLinks ==
  ASSUME Inv, LinkPart, NEW t \in Threads, InvalidateDisconnect(t)
  PROVE  LinkPart'
<1>1. UNCHANGED dataVars /\ tip # Genesis
  <2>1. invTarget \in Path[tip] /\ invTarget # Genesis
    BY DEF InvalidateDisconnect, Active, Inv, InvalidateInv
  <2> QED BY <2>1, TreeAssumption DEF InvalidateDisconnect, seqVars, dataVars
<1>2. failedValid' = failedValid \cup {tip} /\ failedChild' = failedChild
  BY <1>1, NeverCorrects DEF InvalidateDisconnect
<1>3. MarksInv'
  BY <1>2 DEF LinkPart, MarksInv
<1> QED BY <1>1, <1>2, <1>3, LinkKept

\* The other actions set at most marks of their own, and data are set by StoreBlock only.
LEMMA OtherLinks ==
  ASSUME Inv, LinkPart, NEW t \in Threads,
         \/ \E b \in Blocks \ {Genesis} :
              \/ AcceptHeader(t, b) \/ AbcConnectTip(t, b) \/ AbcConnectInvalid(t, b)
              \/ \E requested, mutated \in BOOLEAN :
                   IgnoreBlock(t, b, requested) \/ RejectBlock(t, b, requested, mutated)
         \/ \E b \in Blocks : InvalidateBegin(t, b) \/ PreciousBlock(t, b)
         \/ AbcBegin(t) \/ AbcLock(t) \/ SelectMostWork(t) \/ AbcNothingToDo(t) \/ AbcStep(t)
         \/ AbcDisconnectTip(t) \/ AbcFatal(t) \/ AbcBuildBatch(t) \/ AbcUnlock(t)
         \/ InvalidateFails(t) \/ InvalidateFinish(t) \/ UNCHANGED vars
  PROVE  LinkPart'
<1>1. UNCHANGED dataVars /\ failedValid \subseteq failedValid' /\ failedChild' = failedChild
  BY DEF AcceptHeader, AbcConnectTip, AbcConnectInvalid, IgnoreBlock, RejectBlock, InvalidateBegin,
     PreciousBlock,
     AbcBegin, AbcLock, SelectMostWork, AbcNothingToDo, AbcStep, AbcDisconnectTip, AbcFatal,
     AbcBuildBatch, AbcUnlock, InvalidateFails, InvalidateFinish, failVars, vars, dataVars
<1>2. MarksInv'
  BY <1>1 DEF LinkPart, MarksInv
<1> QED BY <1>1, <1>2, LinkKept

\* Without pruning no block on the way is missing, and nobody reconsiders one.
LEMMA NeverMissing ==
  ASSUME Unpruned, Inv, LinkPart, NEW t \in Threads
  PROVE  /\ ~DiscardMissingCandidate(t) /\ ~AbcFatal(t) /\ ~InvalidateFails(t)
         /\ \A b \in Blocks : ~Reconsider(t, b)
         /\ \A h : ~Prune(t, h)
<1>1. \A c \in chainTx : Path[c] \subseteq haveData
  BY DEF Inv, TypeOK, SubsetsOfIndex, IndexInv, LinkPart, DataInv
<1>2. tip \in haveData
  BY <1>1, Known, AncestorFacts
<1>3. ~DiscardMissingCandidate(t)
  BY <1>1, Known DEF DiscardMissingCandidate, IsFirstUnusable, Unusable
<1>4. ~AbcFatal(t) /\ ~InvalidateFails(t)
  BY <1>2 DEF AbcFatal, InvalidateFails
<1>5. \A b \in Blocks : ~Reconsider(t, b)
  BY DEF Unpruned, Reconsider
<1>6. \A h : ~Prune(t, h)
  BY DEF Unpruned, Prune
<1> QED BY <1>3, <1>4, <1>5, <1>6

\* Every step of every thread keeps what is linked right.
LEMMA StepKeepsLinks ==
  ASSUME Unpruned
  PROVE  Inv /\ LinkPart /\ [Next]_vars => LinkPart'
<1> SUFFICES ASSUME Inv, LinkPart, [Next]_vars PROVE LinkPart'
  OBVIOUS
<1>1. CASE UNCHANGED vars
  <2>1. PICK t \in Threads : TRUE
    BY ThreadsAssumption
  <2> QED BY <1>1, <2>1, OtherLinks
<1>2. ASSUME NEW t \in Threads, Request(t) PROVE LinkPart'
  <2>1. CASE \E b \in Blocks \ {Genesis}, requested \in BOOLEAN : StoreBlock(t, b, requested)
    BY <2>1, StoreBlockLinks
  <2>2. CASE \E b \in Blocks \ {Genesis} : RejectHeader(t, b)
    BY <2>2, RejectHeaderLinks
  <2>3. CASE \/ \E b \in Blocks \ {Genesis} :
                  \/ AcceptHeader(t, b)
                  \/ \E requested, mutated \in BOOLEAN :
                       IgnoreBlock(t, b, requested) \/ RejectBlock(t, b, requested, mutated)
             \/ \E b \in Blocks : InvalidateBegin(t, b) \/ PreciousBlock(t, b)
    BY <2>3, OtherLinks
  <2> QED BY <1>2, <2>1, <2>2, <2>3, NeverMissing DEF Request
<1>3. ASSUME NEW t \in Threads, Continue(t) PROVE LinkPart'
  <2>1. CASE DiscardFailedCandidate(t)
    BY <2>1, DiscardFailedLinks
  <2>2. CASE InvalidateDisconnect(t)
    BY <2>2, InvalidateDisconnectLinks
  <2>3. CASE \E b \in Blocks \ {Genesis} : AbcConnectTip(t, b) \/ AbcConnectInvalid(t, b)
    BY <2>3, OtherLinks
  <2>4. CASE \/ AbcBegin(t) \/ AbcLock(t) \/ SelectMostWork(t) \/ AbcNothingToDo(t) \/ AbcStep(t)
             \/ AbcDisconnectTip(t) \/ AbcBuildBatch(t) \/ AbcUnlock(t) \/ InvalidateFinish(t)
    BY <2>4, OtherLinks
  <2> QED BY <1>3, <2>1, <2>2, <2>3, <2>4, NeverMissing DEF Continue
<1>4. ASSUME NEW t \in Threads, Stopped(t) PROVE LinkPart'
  BY <1>1, <1>4 DEF Stopped
<1> QED BY <1>1, <1>2, <1>3, <1>4 DEF Next

\* The genesis block is linked.
LEMMA InitLinks == Init => LinkPart
BY TreeAssumption DEF Init, LinkPart, DataInv, MarksInv, LinksInv

\* LinksRight: every block whose data came is linked (HaveNumChainTxs) exactly when all its
\* ancestors came, and otherwise waits in m_blocks_unlinked, whatever the order of arrival,
\* unless a block below it was found invalid (ReceivedBlockTransactions).
THEOREM LinksAreRight ==
  ASSUME Unpruned
  PROVE  Spec => []LinksRight
<1>1. Inv /\ LinkPart => LinksRight
  <2> SUFFICES ASSUME Inv, LinkPart, NEW b \in index
               PROVE  /\ b \in chainTx => Path[b] \subseteq validTx
                      /\ b \in m_blocks_unlinked => b \in haveData \ chainTx
                      /\ Path[b] \cap failedValid = {} =>
                           /\ Path[b] \subseteq validTx => b \in chainTx
                           /\ b \in haveData \ chainTx => b \in m_blocks_unlinked
    BY DEF LinksRight
  <2>1. b \in Blocks
    BY Known
  <2>2. b \in chainTx => Path[b] \subseteq validTx
    BY DEF Inv, IndexInv, TypeOK, SubsetsOfIndex
  <2>3. b \in m_blocks_unlinked => b \in haveData \ chainTx
    BY DEF LinkPart, DataInv, Inv, TypeOK, SubsetsOfIndex
  <2> QED BY <2>1, <2>2, <2>3 DEF LinkPart, LinksInv
<1> QED BY InitInv, InitLinks, StepKeeps, StepKeepsLinks, <1>1, PTL DEF Spec

-----------------------------------------------------------------------------
(* Data that was pruned, and what waits for it.                            *)

\* No block of the active chain waits, nor does one that has its data down to the chain.
LEMMA NotWaiting ==
  ASSUME Inv, WaitInv, NEW b \in chainTx, Path[b] \ Active \subseteq haveData
  PROVE  b \notin m_blocks_unlinked
<1> DEFINE S == Path[b] \cap m_blocks_unlinked
<1>1. b \in Blocks /\ b \in Path[b] /\ Path[b] \subseteq Blocks /\ Path[b] \subseteq chainTx
  BY Known, AncestorFacts DEF Inv, IndexInv
<1> SUFFICES ASSUME S # {} PROVE FALSE
  BY <1>1
<1>2. PICK x \in S : \A y \in S : Height[x] <= Height[y]
  <2> HIDE DEF S
  <2> QED BY <1>1, LowestOf DEF S
<1>3. x \in Blocks \ {Genesis} /\ x \in chainTx
  BY <1>1 DEF WaitInv
<1>4. Parent[x] \in Path[b] /\ Parent[x] # x /\ Parent[x] \in Path[x] /\ Parent[x] \in Blocks
  BY <1>1, <1>3, AncestorFacts
<1>5. Parent[x] \in m_blocks_unlinked
  BY <1>1, <1>3, <1>4 DEF WaitInv
<1>6. Height[Parent[x]] < Height[x]
  BY <1>3, <1>4, AncestorsLower
<1> QED BY <1>2, <1>3, <1>4, <1>5, <1>6, MeasureAssumption

\* Where the threads are after a step of t that goes to q.
LEMMA Moved ==
  ASSUME Inv, NEW t \in Threads, NEW q, Goto(t, q)
  PROVE  /\ pc'[t] = q /\ \A u \in Threads \ {t} : pc'[u] = pc[u]
         /\ CsMainFree /\ q \notin InRound => CsMainFree'
         /\ q \in InRound => ~CsMainFree'
         /\ pc[t] \in InRound => ~CsMainFree
BY DEF Goto, Inv, TypeOK, CsMainFree

\* A step that moves no block, no data and no thread into a round.
LEMMA DataKept ==
  ASSUME Inv, DataPart, UNCHANGED <<haveData, m_blocks_unlinked, chainTx, tip>>,
         pindexMostWork' \in {pindexMostWork, NoBlock},
         ~CsMainFree' => startingTip' = tip \/ (~CsMainFree /\ startingTip' = startingTip)
  PROVE  DataPart'
<1>1. Active' = Active
  BY DEF Active
<1>2. WaitInv'
  BY <1>1 DEF DataPart, WaitInv
<1>3. WayInv'
  BY <1>1 DEF DataPart, WayInv, Active
<1> QED BY <1>2, <1>3 DEF DataPart

\* A block that is disconnected is there and can be connected again.
LEMMA DisconnectData ==
  ASSUME Inv, DataPart, tip \in haveData, tip # Genesis, tip' = Parent[tip],
         UNCHANGED <<haveData, m_blocks_unlinked, chainTx, pindexMostWork, startingTip, pc>>
  PROVE  DataPart'
<1>1. Path[tip] = Path[Parent[tip]] \cup {tip}
  BY Known, AncestorFacts
<1>2. Active = Active' \cup {tip}
  BY <1>1 DEF Active
<1>3. WaitInv'
  BY <1>2 DEF DataPart, WaitInv
<1>4. WayInv'
  BY <1>2 DEF DataPart, WayInv, CsMainFree
<1> QED BY <1>3, <1>4 DEF DataPart

\* A block that is connected had its data, so that nothing waits for it.
LEMMA ConnectData ==
  ASSUME Inv, DataPart, NEW t \in Threads, NEW b \in Blocks \ {Genesis}, AbcConnectTip(t, b)
  PROVE  DataPart'
<1>1. /\ pc[t] = "connect" /\ b \in Path[pindexMostWork] \ Active /\ Parent[b] = tip /\ tip' = b
      /\ UNCHANGED <<dataVars, pindexMostWork, startingTip>>
  BY DEF AbcConnectTip, IsNext
<1>2. UNCHANGED <<haveData, m_blocks_unlinked, chainTx>>
  BY <1>1 DEF dataVars
<1>3. Active' = Active \cup {b}
  BY <1>1, AncestorFacts DEF Active
<1>4. b \in haveData /\ ~CsMainFree
  BY <1>1 DEF DataPart, WayInv, Inv, StepInv, CsMainFree, InRound
<1>5. WaitInv'
  BY <1>2, <1>3, <1>4 DEF DataPart, WaitInv
<1>6. WayInv'
  BY <1>1, <1>2, <1>3, <1>4 DEF DataPart, WayInv
<1> QED BY <1>5, <1>6 DEF DataPart

\* The choice of FindMostWorkChain has its data down to the active chain.
LEMMA SelectData ==
  ASSUME Inv, DataPart, NEW t \in Threads, SelectMostWork(t)
  PROVE  DataPart'
<1>1. /\ UNCHANGED <<dataVars, chainVars, startingTip, pc>>
      /\ \E c \in setBlockIndexCandidates : Unusable(c) = {} /\ pindexMostWork' = c
  BY DEF SelectMostWork
<1>2. UNCHANGED <<haveData, m_blocks_unlinked, chainTx, tip>>
  BY <1>1 DEF dataVars, chainVars
<1>3. Path[pindexMostWork'] \ Active \subseteq haveData
  BY <1>1 DEF Unusable
<1>4. WaitInv' /\ WayInv'
  BY <1>1, <1>2, <1>3 DEF DataPart, WaitInv, WayInv, Active, CsMainFree
<1> QED BY <1>4 DEF DataPart

\* A branch that needs a pruned block waits from that block's child up.
LEMMA DiscardMissingData ==
  ASSUME Inv, DataPart, NEW t \in Threads, DiscardMissingCandidate(t)
  PROVE  DataPart'
<1>1. UNCHANGED <<haveData, chainTx, chainVars, pc, abcVars>>
  BY DEF DiscardMissingCandidate
<1>2. PICK c \in setBlockIndexCandidates : \E x \in Path[c] :
        /\ IsFirstUnusable(x, c) /\ ~FailedMask(x)
        /\ m_blocks_unlinked' = m_blocks_unlinked \cup WaitForData(c, x)
  BY DEF DiscardMissingCandidate
<1>3. PICK x \in Path[c] :
        /\ IsFirstUnusable(x, c) /\ ~FailedMask(x)
        /\ m_blocks_unlinked' = m_blocks_unlinked \cup (Path[c] \ Path[x])
  BY <1>2 DEF WaitForData, Above
<1>4. c \in Blocks /\ tip \in Blocks
  BY Known
<1>5. x \notin Active /\ x \notin haveData /\ \A y \in Unusable(c) : Height[y] <= Height[x]
  BY <1>3 DEF IsFirstUnusable, Unusable, FailedMask
<1>6. ASSUME NEW y \in Path[c] \ Path[x]
      PROVE  /\ y \in haveData \ {Genesis}
             /\ Parent[y] \in m_blocks_unlinked' \/ Parent[y] \notin haveData \cup Active
  <2>1. /\ y \in Blocks \ {Genesis} /\ x \in Path[y] /\ x # y
        /\ Parent[y] = x \/ Parent[y] \in Path[c] \ Path[x]
    BY <1>4, ParentAbove
  <2>2. y \notin Active
    BY <1>4, <1>5, AboveIsOutside DEF Active
  <2>3. Height[x] < Height[y] /\ Height[x] \in Nat /\ Height[y] \in Nat
    BY <1>4, <2>1, AncestorsLower, AncestorFacts, MeasureAssumption
  <2>4. y \in haveData
    BY <1>5, <2>2, <2>3 DEF Unusable
  <2> QED BY <1>3, <1>5, <2>1, <2>4
<1>7. UNCHANGED <<tip, pindexMostWork, startingTip>>
  BY <1>1 DEF chainVars, abcVars
<1>8. WaitInv'
  BY <1>1, <1>3, <1>6, <1>7 DEF DataPart, WaitInv, Active
<1>9. WayInv'
  BY <1>1, <1>7 DEF DataPart, WayInv, Active, CsMainFree
<1> QED BY <1>8, <1>9 DEF DataPart

\* What waited for the block that came is linked with it.
LEMMA StoreBlockData ==
  ASSUME Inv, DataPart, NEW t \in Threads, NEW b \in Blocks \ {Genesis},
         NEW requested \in BOOLEAN, StoreBlock(t, b, requested)
  PROVE  DataPart'
<1> DEFINE S == NewlyLinked(b)
<1>1. /\ haveData' = haveData \cup {b} /\ CsMainFree /\ Goto(t, "abc")
      /\ UNCHANGED <<chainVars, abcVars>>
  BY DEF StoreBlock
<1>2. UNCHANGED <<tip, pindexMostWork, startingTip>> /\ Active' = Active
  BY <1>1 DEF chainVars, abcVars, Active
<1>3. CsMainFree'
  BY <1>1, Moved DEF InRound
<1>4. WayInv'
  BY <1>1, <1>2, <1>3 DEF DataPart, WayInv
<1>5. Parent[b] \in Path[b] /\ b \in Path[b] /\ m_blocks_unlinked \subseteq Blocks
  BY AncestorFacts DEF Inv, TypeOK, SubsetsOfIndex
<1>6. CASE Parent[b] \in chainTx
  <2>1. chainTx' = chainTx \cup S /\ m_blocks_unlinked' = m_blocks_unlinked \ S
    BY <1>6 DEF StoreBlock, LinkBlock
  <2>2. ASSUME NEW y \in m_blocks_unlinked, y # Genesis, Parent[y] \in S
        PROVE  y \in S
    <3>1. /\ b \in Path[Parent[y]] /\ Path[Parent[y]] \ Path[b] \subseteq m_blocks_unlinked
          /\ Path[y] = Path[Parent[y]] \cup {y}
      BY <1>5, <2>2, AncestorFacts DEF NewlyLinked
    <3> QED BY <3>1 DEF NewlyLinked
  <2>3. b \in S
    BY <1>5 DEF NewlyLinked
  <2> HIDE DEF S
  <2>4. WaitInv'
    BY <1>1, <1>2, <2>1, <2>2, <2>3 DEF DataPart, WaitInv
  <2> QED BY <1>4, <2>4 DEF DataPart
<1>7. CASE Parent[b] \notin chainTx
  <2>1. chainTx' = chainTx /\ m_blocks_unlinked' \in {m_blocks_unlinked, m_blocks_unlinked \cup {b}}
    BY <1>7 DEF StoreBlock, ParkBlock
  <2>2. b \notin chainTx
    BY <1>5, <1>7 DEF Inv, IndexInv
  <2>3. \A y \in chainTx \ {Genesis} : Parent[y] # b
    BY <2>2, Known, AncestorFacts DEF Inv, IndexInv
  <2>4. WaitInv'
    BY <1>1, <1>2, <2>1, <2>2, <2>3 DEF DataPart, WaitInv
  <2> QED BY <1>4, <2>4 DEF DataPart
<1> QED BY <1>6, <1>7

\* Pruning stays below the tip: it takes nothing of the branch that is to be connected, and
\* what waited for a pruned block, waits.
LEMMA PruneData ==
  ASSUME CInv, NEW t \in Threads, NEW h, Prune(t, h)
  PROVE  DataPart'
<1> USE DEF CInv
<1>1. /\ CsMainFree /\ UNCHANGED <<chainTx, chainVars, pc, abcVars>>
      /\ \E pruned \in SUBSET haveData :
           /\ \A b \in pruned : Height[b] + MinBlocksToKeep <= Height[tip]
           /\ haveData' = haveData \ pruned /\ m_blocks_unlinked' = m_blocks_unlinked \ pruned
  BY DEF Prune
<1>2. PICK pruned \in SUBSET haveData :
        /\ \A b \in pruned : Height[b] + MinBlocksToKeep <= Height[tip]
        /\ haveData' = haveData \ pruned /\ m_blocks_unlinked' = m_blocks_unlinked \ pruned
  BY <1>1
<1>3. UNCHANGED <<tip, pindexMostWork, startingTip>> /\ Active' = Active /\ CsMainFree'
  BY <1>1 DEF chainVars, abcVars, Active, CsMainFree
<1>4. \A x \in m_blocks_unlinked \cap chainTx : x \notin Active
  <2> SUFFICES ASSUME NEW x \in m_blocks_unlinked \cap chainTx, x \in Active PROVE FALSE
    OBVIOUS
  <2>1. Path[x] \subseteq Active
    BY Known, AncestorFacts DEF Active
  <2> QED BY <2>1, NotWaiting DEF DataPart
<1>5. \A x \in m_blocks_unlinked \cap chainTx : Parent[x] \in chainTx
  BY Known, AncestorFacts DEF DataPart, WaitInv, Inv, IndexInv
<1>6. WaitInv'
  BY <1>1, <1>2, <1>3, <1>4, <1>5 DEF DataPart, WaitInv
<1>7. ASSUME pindexMostWork # NoBlock, NEW y \in Path[pindexMostWork] \ Active PROVE y \in haveData'
  <2>1. PICK u \in Threads : pc[u] = "lock"
    BY <1>1, <1>7 DEF Inv, MostWorkInv, CsMainFree
  <2>2. tip \in Path[pindexMostWork] /\ pindexMostWork \in Blocks
    BY <1>7, <2>1, Known DEF CandPart, RoundInv, RoundAt
  <2>3. y \in Blocks /\ tip \in Path[y] /\ tip # y
    BY <2>2, AncestorFacts, ParentAbove DEF Active
  <2>4. Height[tip] < Height[y] /\ Height[tip] \in Nat /\ Height[y] \in Nat
    BY <2>3, AncestorsLower, Known, MeasureAssumption
  <2>5. y \notin pruned
    BY <1>2, <2>4, BoundAssumption
  <2> QED BY <1>2, <1>7, <2>5 DEF DataPart, WayInv
<1>8. WayInv'
  BY <1>3, <1>7 DEF WayInv
<1> QED BY <1>6, <1>8 DEF DataPart

\* The other actions leave the data and the chain alone.
LEMMA OtherData ==
  ASSUME Inv, DataPart, NEW t \in Threads,
         \/ \E b \in Blocks \ {Genesis} :
              \/ AcceptHeader(t, b) \/ RejectHeader(t, b) \/ AbcConnectInvalid(t, b)
              \/ \E requested, mutated \in BOOLEAN :
                   IgnoreBlock(t, b, requested) \/ RejectBlock(t, b, requested, mutated)
         \/ \E b \in Blocks : PreciousBlock(t, b) \/ InvalidateBegin(t, b) \/ Reconsider(t, b)
         \/ AbcBegin(t) \/ AbcLock(t) \/ DiscardFailedCandidate(t) \/ AbcNothingToDo(t) \/ AbcStep(t)
         \/ AbcFatal(t) \/ AbcBuildBatch(t) \/ AbcUnlock(t)
         \/ InvalidateFails(t) \/ InvalidateFinish(t) \/ UNCHANGED vars
  PROVE  DataPart'
<1>1. UNCHANGED dataVars /\ tip' = tip /\ pindexMostWork' \in {pindexMostWork, NoBlock}
  BY DEF AcceptHeader, RejectHeader, AbcConnectInvalid, IgnoreBlock, RejectBlock, PreciousBlock,
     InvalidateBegin, Reconsider, AbcBegin, AbcLock, DiscardFailedCandidate, AbcNothingToDo, AbcStep,
     AbcFatal, AbcBuildBatch, AbcUnlock, InvalidateFails, InvalidateFinish, vars, chainVars, abcVars
<1>2. UNCHANGED <<haveData, m_blocks_unlinked, chainTx>>
  BY <1>1 DEF dataVars
<1>3. ~CsMainFree' => startingTip' = tip \/ (~CsMainFree /\ startingTip' = startingTip)
  <2>1. CASE UNCHANGED vars
    BY <2>1 DEF vars, abcVars, CsMainFree
  <2>2. CASE AbcLock(t)
    BY <2>2 DEF AbcLock
  <2>3. CASE \/ \E b \in Blocks \ {Genesis} :
                  \/ AcceptHeader(t, b) \/ RejectHeader(t, b)
                  \/ \E requested, mutated \in BOOLEAN :
                       IgnoreBlock(t, b, requested) \/ RejectBlock(t, b, requested, mutated)
             \/ \E b \in Blocks : PreciousBlock(t, b) \/ Reconsider(t, b)
             \/ InvalidateFails(t) \/ InvalidateFinish(t)
    <3>1. CsMainFree /\ (pc' = pc \/ Goto(t, "abc"))
      BY <2>3 DEF AcceptHeader, RejectHeader, IgnoreBlock, RejectBlock, PreciousBlock, Reconsider,
         InvalidateFails, InvalidateFinish
    <3> QED BY <3>1, Moved DEF CsMainFree, InRound
  <2>4. CASE AbcBegin(t) \/ \E b \in Blocks : InvalidateBegin(t, b)
    <3>1. ChainstateMutexFree /\ (Goto(t, "lock") \/ Goto(t, "inv"))
      BY <2>4 DEF AbcBegin, InvalidateBegin
    <3> QED BY <3>1, Moved DEF CsMainFree, InRound, ChainstateMutexFree, InChainstate
  <2>5. CASE AbcUnlock(t)
    <3>1. pc[t] = "unlock" /\ (Goto(t, "lock") \/ Goto(t, "idle"))
      BY <2>5 DEF AbcUnlock
    <3>2. CsMainFree'
      BY <3>1, Moved DEF CsMainFree, InRound, InChainstate, Inv, MutexInv
    <3> QED BY <3>2
  <2>6. CASE \/ DiscardFailedCandidate(t) \/ AbcNothingToDo(t) \/ AbcStep(t) \/ AbcFatal(t)
             \/ AbcBuildBatch(t) \/ \E b \in Blocks \ {Genesis} : AbcConnectInvalid(t, b)
    <3>1. pc[t] \in InRound /\ startingTip' = startingTip
      BY <2>6 DEF DiscardFailedCandidate, AbcNothingToDo, AbcStep, AbcFatal, AbcBuildBatch,
         AbcConnectInvalid, InRound, abcVars
    <3> QED BY <3>1 DEF CsMainFree
  <2> QED BY <2>1, <2>2, <2>3, <2>4, <2>5, <2>6
<1> QED BY <1>1, <1>2, <1>3, DataKept

-----------------------------------------------------------------------------
(* The candidates.                                                         *)

\* Where the threads are after a step of t, when t has m_chainstate_mutex or nobody has.
LEMMA Alone ==
  ASSUME Inv, NEW t \in Threads, pc[t] \in InChainstate \/ ChainstateMutexFree,
         NEW q, Goto(t, q)
  PROVE  /\ pc'[t] = q /\ \A u \in Threads \ {t} : pc'[u] = pc[u] /\ pc[u] \notin InChainstate
         /\ CsMainFree' <=> q \notin InRound
         /\ CsMainFree <=> pc[t] \notin InRound
         /\ ChainstateMutexFree' <=> q \notin InChainstate
         /\ InvalidateRunning <=> pc[t] = "inv"
         /\ InvalidateRunning' <=> q = "inv"
         /\ q = "abc" => Pending'
         /\ pc[t] # "abc" /\ Pending => Pending'
<1>1. pc'[t] = q /\ \A u \in Threads \ {t} : pc'[u] = pc[u]
  BY DEF Goto, Inv, TypeOK
<1>2. \A u \in Threads \ {t} : pc[u] \notin InChainstate
  BY DEF Inv, MutexInv, ChainstateMutexFree
<1>3. \A p : p \in InRound => p \in InChainstate
  BY DEF InChainstate
<1>4. "inv" \in InChainstate
  BY DEF InChainstate
<1>5. (CsMainFree' <=> q \notin InRound) /\ (CsMainFree <=> pc[t] \notin InRound)
  BY <1>1, <1>2, <1>3 DEF CsMainFree
<1>6. ChainstateMutexFree' <=> q \notin InChainstate
  BY <1>1, <1>2 DEF ChainstateMutexFree
<1>7. (InvalidateRunning <=> pc[t] = "inv") /\ (InvalidateRunning' <=> q = "inv")
  BY <1>1, <1>2, <1>4 DEF InvalidateRunning
<1>8. (q = "abc" => Pending') /\ (pc[t] # "abc" /\ Pending => Pending')
  BY <1>1 DEF Pending
<1> QED BY <1>1, <1>2, <1>5, <1>6, <1>7, <1>8

\* The same when t stays where it is.
LEMMA AloneStays ==
  ASSUME Inv, NEW t \in Threads, pc[t] \in InChainstate, pc' = pc
  PROVE  Goto(t, pc[t])
BY DEF Goto, Inv, TypeOK

\* What a round relies on concerns one thread only.
LEMMA RoundOfOne ==
  ASSUME Inv, NEW t \in Threads, pc[t] \in InChainstate \/ ChainstateMutexFree,
         NEW q, Goto(t, q), RoundAt(q)'
  PROVE  RoundInv'
<1>1. pc'[t] = q /\ \A u \in Threads \ {t} : pc'[u] = pc[u] /\ pc[u] \notin InChainstate
  BY Alone
<1>2. ASSUME NEW u \in Threads \ {t} PROVE RoundAt(pc[u])'
  BY <1>1, <1>2 DEF RoundAt, InChainstate, InRound
<1>3. RoundAt(pc[t])'
  BY <1>1
<1> QED BY <1>2, <1>3 DEF RoundInv

\* A call that takes cs_main for a moment leaves the rounds of the others where they are.
LEMMA ShortCall ==
  ASSUME Inv, RoundInv, CsMainFree, NEW t \in Threads, pc[t] = "idle", pc' = pc \/ Goto(t, "abc"),
         UNCHANGED <<tip, abcVars, invTarget, toMarkFailed>>
  PROVE  /\ CsMainFree' /\ (ChainstateMutexFree' <=> ChainstateMutexFree) /\ (HalfWay' <=> HalfWay)
         /\ (Pending => Pending') /\ (Goto(t, "abc") => Pending')
         /\ RoundInv'
<1>1. \A u \in Threads : pc'[u] = pc[u] \/ (u = t /\ pc'[u] = "abc")
  BY DEF Goto, Inv, TypeOK
<1>2. pindexMostWork' = pindexMostWork
  BY DEF abcVars
<1>3. CsMainFree' /\ (ChainstateMutexFree' <=> ChainstateMutexFree) /\ (Pending => Pending')
  BY <1>1 DEF CsMainFree, ChainstateMutexFree, Pending, InRound, InChainstate
<1>4. InvalidateRunning' <=> InvalidateRunning
  BY <1>1 DEF InvalidateRunning
<1>5. HalfWay' <=> HalfWay
  BY <1>4 DEF HalfWay, Active
<1>6. Goto(t, "abc") => Pending'
  BY DEF Goto, Inv, TypeOK, Pending
<1>7. ASSUME NEW u \in Threads PROVE RoundAt(pc[u])'
  <2>1. CASE pc'[u] = "lock"
    <3>1. RoundAt(pc[u]) /\ pc[u] = "lock"
      BY <1>1, <2>1 DEF RoundInv
    <3> QED BY <2>1, <1>2, <3>1 DEF RoundAt, InRound
  <2>2. CASE pc'[u] # "lock"
    <3>1. pc'[u] \notin InRound
      BY <1>3 DEF CsMainFree
    <3> QED BY <2>2, <3>1 DEF RoundAt, InRound
  <2> QED BY <2>1, <2>2
<1> QED BY <1>3, <1>5, <1>6, <1>7 DEF RoundInv

\* Calls that touch none of what the candidates are compared by, and at most set marks,
\* prune data or leave a block waiting.
LEMMA QuietCandidates ==
  ASSUME CInv, CsMainFree, NEW t \in Threads, pc[t] = "idle", pc' = pc \/ Goto(t, "abc"),
         UNCHANGED <<tip, abcVars, invTarget, toMarkFailed>>,
         UNCHANGED <<setBlockIndexCandidates, nSequenceId, chainTx>>,
         Failed \subseteq Failed', haveData' \cap chainTx \subseteq haveData,
         m_blocks_unlinked \cap haveData' \subseteq m_blocks_unlinked'
  PROVE  CandPart'
<1> USE DEF CInv, CandPart
<1>1. pindexMostWork' = pindexMostWork
  BY DEF abcVars
<1>2. /\ CsMainFree' /\ (ChainstateMutexFree' <=> ChainstateMutexFree) /\ (HalfWay' <=> HalfWay)
      /\ (Pending => Pending') /\ RoundInv'
  BY ShortCall
<1>3. SoundInv' /\ TipInv' /\ CompleteInv'
  BY <1>2 DEF SoundInv, TipInv, CompleteInv, Worse
<1>4. RestInv'
  BY <1>1, <1>2 DEF RestInv, Worse
<1> QED BY <1>2, <1>3, <1>4

\* A block whose parents are complete: all it links are offered as candidates, and the
\* caller is to begin ActivateBestChain.  None of them was a candidate, so the order of
\* those that are stays, and with it that of the tip.
LEMMA StoreBlockCandidates ==
  ASSUME CInv, NEW t \in Threads, NEW b \in Blocks \ {Genesis}, NEW requested \in BOOLEAN,
         StoreBlock(t, b, requested), NewlyLinked(b) \cap setBlockIndexCandidates = {}
  PROVE  CandPart'
<1> DEFINE S == NewlyLinked(b)
<1> USE DEF CInv, CandPart
<1>1. /\ pc[t] = "idle" /\ CsMainFree /\ Goto(t, "abc") /\ haveData' = haveData \cup {b}
      /\ Failed' = Failed /\ UNCHANGED <<tip, abcVars, invTarget, toMarkFailed>>
  BY DEF StoreBlock, failVars, chainVars, invVars, Failed
<1>2. CASE Parent[b] \notin chainTx
  <2>1. /\ UNCHANGED <<setBlockIndexCandidates, nSequenceId, chainTx>>
        /\ m_blocks_unlinked \subseteq m_blocks_unlinked'
    BY <1>2 DEF StoreBlock, ParkBlock
  <2>2. b \notin chainTx
    BY <1>2, AncestorFacts DEF Inv, IndexInv
  <2> QED BY <1>1, <2>1, <2>2, QuietCandidates
<1>3. CASE Parent[b] \in chainTx
  <2>1. PICK order \in QueueOrders(S) :
          /\ chainTx' = chainTx \cup S /\ m_blocks_unlinked' = m_blocks_unlinked \ S
          /\ nSequenceId' = [c \in Blocks |-> IF c \in S THEN nBlockSequenceId + order[c] - 1
                                              ELSE nSequenceId[c]]
          /\ TryAddBlockIndexCandidates(S)
    BY <1>3 DEF StoreBlock, LinkBlock
  <2>2. b \in S /\ S \cap setBlockIndexCandidates = {}
    BY AncestorFacts DEF NewlyLinked
  <2> HIDE DEF S
  <2>3. tip \in setBlockIndexCandidates /\ setBlockIndexCandidates \subseteq Blocks /\ chainTx \subseteq Blocks
    BY <1>1, Known DEF TipInv
  <2>4. \A c \in Blocks \ S : Worse(c, tip)' <=> Worse(c, tip)
    BY <1>1, <2>1, <2>2, <2>3 DEF Worse, WorseBy
  <2>5. setBlockIndexCandidates' = setBlockIndexCandidates \cup {c \in S : ~Worse(c, tip)'}
    BY <1>1, <2>1 DEF TryAddBlockIndexCandidates, Worse
  <2>6. CsMainFree' /\ (HalfWay' <=> HalfWay) /\ Pending' /\ RoundInv'
    BY <1>1, ShortCall
  <2>7. SoundInv' /\ TipInv'
    BY <1>1, <2>2, <2>3, <2>4, <2>5 DEF SoundInv, TipInv
  <2>8. CompleteInv'
    BY <1>1, <2>1, <2>2, <2>3, <2>4, <2>5, <2>6 DEF CompleteInv
  <2>9. RestInv'
    BY <2>6 DEF RestInv
  <2> QED BY <2>6, <2>7, <2>8, <2>9
<1> QED BY <1>2, <1>3

\* preciousblock moves one block, and the tip only upwards: whoever was worse than the tip
\* still is.
LEMMA PreciousBlockCandidates ==
  ASSUME CInv, NEW t \in Threads, NEW b \in Blocks, PreciousBlock(t, b),
         nSequenceId'[tip] <= nSequenceId[tip]
  PROVE  CandPart'
<1> USE DEF CInv, CandPart
<1>1. /\ pc[t] = "idle" /\ CsMainFree /\ Goto(t, "abc")
      /\ UNCHANGED <<tip, abcVars, invTarget, toMarkFailed>>
      /\ UNCHANGED <<haveData, chainTx, m_blocks_unlinked>> /\ Failed' = Failed
  BY DEF PreciousBlock, dataVars, failVars, chainVars, invVars, Failed
<1>2. PICK id \in Int : nSequenceId' = [nSequenceId EXCEPT ![b] = id]
  <2> DEFINE id == IF Work[tip] > nLastPreciousChainwork THEN -1 ELSE nBlockReverseSequenceId
  <2>1. id \in Int
    BY DEF Inv, TypeOK
  <2>2. nSequenceId' = [nSequenceId EXCEPT ![b] = id]
    BY DEF PreciousBlock
  <2> HIDE DEF id
  <2> QED BY <2>1, <2>2
<1>3. nSequenceId \in [Blocks -> Int] /\ nSequenceId' \in [Blocks -> Int] /\ tip \in Blocks
  BY <1>2, Known
<1>4. ASSUME NEW c \in Blocks \ {b}
      PROVE  /\ Worse(c, tip) => Worse(c, tip)'
             /\ b # tip => (Worse(c, tip)' <=> Worse(c, tip))
  <2>1. nSequenceId'[c] = nSequenceId[c] /\ (b # tip => nSequenceId'[tip] = nSequenceId[tip])
    BY <1>2, <1>3
  <2>2. b # tip => (Worse(c, tip)' <=> Worse(c, tip))
    BY <1>1, <2>1 DEF Worse, WorseBy
  <2>3. /\ Work[c] \in Nat /\ Work[tip] \in Nat /\ Addr[c] \in Nat /\ Addr[tip] \in Nat
        /\ nSequenceId[c] \in Int /\ nSequenceId[tip] \in Int /\ nSequenceId'[tip] \in Int
    BY <1>3, MeasureAssumption
  <2>4. Worse(c, tip) => Worse(c, tip)'
    BY <1>1, <2>1, <2>3 DEF Worse, WorseBy
  <2> QED BY <2>2, <2>4
<1>5. ~Worse(tip, tip)'
  BY <1>1, <1>3, Order DEF Worse
<1>6. /\ CsMainFree' /\ (HalfWay' <=> HalfWay) /\ Pending' /\ RoundInv'
  BY <1>1, ShortCall
<1>7. tip \in setBlockIndexCandidates /\ setBlockIndexCandidates \subseteq Blocks /\ chainTx \subseteq Blocks
  BY <1>1, Known DEF TipInv
<1>8. CASE IsValidTransactions(b) /\ b \in chainTx
  <2>1. setBlockIndexCandidates' = {c \in setBlockIndexCandidates \cup {b} : ~Worse(c, tip)'}
    BY <1>1, <1>8 DEF PreciousBlock, Worse
  <2>2. SoundInv' /\ TipInv'
    BY <1>1, <1>5, <1>7, <2>1 DEF SoundInv, TipInv
  <2>3. CompleteInv'
    BY <1>1, <1>4, <1>6, <1>7, <2>1 DEF CompleteInv
  <2> QED BY <1>6, <2>2, <2>3 DEF RestInv
<1>9. CASE ~(IsValidTransactions(b) /\ b \in chainTx)
  <2>1. setBlockIndexCandidates' = setBlockIndexCandidates \ {b}
    BY <1>9 DEF PreciousBlock
  <2>2. b \notin (haveData \cap chainTx) \ Failed
    BY <1>9 DEF IsValidTransactions, FailedMask, Inv, TypeOK, SubsetsOfIndex
  <2>3. b # tip
    BY <1>9, Known, AncestorFacts DEF IsValidTransactions, FailedMask, Inv, TypeOK, SubsetsOfIndex
  <2>4. SoundInv' /\ TipInv'
    BY <1>1, <1>4, <1>7, <2>1, <2>3 DEF SoundInv, TipInv
  <2>5. CompleteInv'
    BY <1>1, <1>4, <1>6, <1>7, <2>1, <2>2, <2>3 DEF CompleteInv
  <2> QED BY <1>6, <2>4, <2>5 DEF RestInv
<1> QED BY <1>8, <1>9

\* The marks reconsiderblock clears are on blocks it looks at as candidates.
LEMMA ReconsiderCandidates ==
  ASSUME CInv, NEW t \in Threads, NEW b \in Blocks, Reconsider(t, b),
         Path[b] \cap Failed \subseteq {b}
  PROVE  CandPart'
<1> USE DEF CInv, CandPart
<1>1. /\ pc[t] = "idle" /\ CsMainFree /\ Goto(t, "abc") /\ b \in index
      /\ UNCHANGED <<tip, abcVars, invTarget, toMarkFailed>>
      /\ UNCHANGED <<haveData, chainTx, m_blocks_unlinked, nSequenceId>>
      /\ setBlockIndexCandidates' = setBlockIndexCandidates \cup CandidateAgain(b)
      /\ Failed' = Failed \ (NotValidAbove(b) \cup Path[b])
  BY DEF Reconsider, dataVars, seqVars, chainVars, invVars, Failed
<1>2. /\ CsMainFree' /\ (HalfWay' <=> HalfWay) /\ Pending' /\ RoundInv'
  BY <1>1, ShortCall
<1>3. tip \in Blocks /\ tip \notin Failed /\ chainTx \subseteq Blocks
  BY Known, AncestorFacts
<1>4. Failed \subseteq Failed' \cup NotValidAbove(b)
  <2>1. b \in Path[b]
    BY AncestorFacts
  <2> QED BY <1>1, <2>1 DEF NotValidAbove, FailedMask, IsValidTransactions
<1>5. ASSUME NEW y \in (haveData \cap chainTx) \ Failed', ~Worse(y, tip), y \in Failed
      PROVE  y \in CandidateAgain(b)
  <2>1. y \in NotValidAbove(b) /\ y \in validTx /\ y \in Blocks
    BY <1>3, <1>4, <1>5 DEF Inv, TypeOK, SubsetsOfIndex
  <2>2. Worse(tip, y)
    BY <1>3, <1>5, <2>1, WorseFacts DEF Inv
  <2> QED BY <2>1, <2>2 DEF CandidateAgain
<1>6. \A c \in CandidateAgain(b) : ~Worse(c, tip)
  BY <1>3, WorseFacts DEF CandidateAgain, Inv
<1>7. SoundInv' /\ TipInv'
  BY <1>1, <1>6 DEF SoundInv, TipInv, Worse
<1>8. CompleteInv'
  BY <1>1, <1>2, <1>5 DEF CompleteInv, Worse
<1> QED BY <1>2, <1>7, <1>8 DEF RestInv

\* Whoever takes m_chainstate_mutex finds nobody going for a branch.
LEMMA AbcBeginCandidates ==
  ASSUME CInv, NEW t \in Threads, AbcBegin(t)
  PROVE  CandPart'
<1> USE DEF CInv, CandPart
<1>1. /\ pc[t] = "abc" /\ ChainstateMutexFree /\ Goto(t, "lock")
      /\ UNCHANGED <<dataVars, failVars, seqVars, setBlockIndexCandidates, chainVars, abcVars>>
  BY DEF AbcBegin
<1>2. /\ UNCHANGED <<haveData, chainTx, m_blocks_unlinked, nSequenceId>>
      /\ UNCHANGED <<tip, pindexMostWork, startingTip>> /\ Failed' = Failed
  BY <1>1 DEF dataVars, failVars, seqVars, chainVars, abcVars, Failed
<1>3. pindexMostWork = NoBlock
  BY <1>1 DEF Inv, MostWorkInv, ChainstateMutexFree, InChainstate
<1>4. CsMainFree' /\ CsMainFree /\ ~HalfWay /\ ~ChainstateMutexFree'
  BY <1>1, Alone DEF InRound, InChainstate, HalfWay
<1>5. SoundInv' /\ TipInv' /\ CompleteInv'
  BY <1>1, <1>2, <1>4 DEF SoundInv, TipInv, CompleteInv, Worse
<1>6. RoundAt("lock")'
  BY <1>2, <1>3, Known, ThreadsAssumption DEF RoundAt, InRound
<1>7. RestInv'
  BY <1>2, <1>3, <1>4 DEF RestInv
<1> QED BY <1>1, <1>5, <1>6, <1>7, RoundOfOne

\* The round starts from a tip that lies below what the rounds before chose.
LEMMA AbcLockCandidates ==
  ASSUME CInv, NEW t \in Threads, AbcLock(t)
  PROVE  CandPart'
<1> USE DEF CInv, CandPart
<1>1. /\ pc[t] = "lock" /\ Goto(t, "find") /\ startingTip' = tip /\ CsMainFree
      /\ UNCHANGED <<dataVars, failVars, seqVars, setBlockIndexCandidates, chainVars, pindexMostWork>>
  BY DEF AbcLock
<1>2. /\ UNCHANGED <<haveData, chainTx, m_blocks_unlinked, nSequenceId, tip>> /\ Failed' = Failed
  BY <1>1 DEF dataVars, failVars, seqVars, chainVars, Failed
<1>3. ~CsMainFree' /\ ~HalfWay /\ ~ChainstateMutexFree' /\ (Pending => Pending')
  BY <1>1, Alone DEF InRound, InChainstate, HalfWay
<1>4. SoundInv' /\ TipInv' /\ CompleteInv'
  BY <1>1, <1>2, <1>3 DEF SoundInv, TipInv, CompleteInv, Worse
<1>5. RoundAt("lock") /\ TypeOK /\ tip \in setBlockIndexCandidates
  BY <1>1 DEF RoundInv, Inv, TipInv
<1>6. ~Worse(tip, tip) /\ (pindexMostWork # NoBlock => ~Worse(pindexMostWork, tip))
  <2>1. ASSUME pindexMostWork # NoBlock PROVE Work[tip] < Work[pindexMostWork]
    BY <1>5, <2>1, Known, MeasureAssumption DEF RoundAt
  <2> QED BY <1>5, <2>1, Known, WorseFacts
<1>7. RoundAt("find")'
  BY <1>1, <1>2, <1>5, <1>6, Known DEF RoundAt, InRound, Worse
<1>8. RestInv'
  BY <1>2, <1>1, <1>3 DEF RestInv, Worse
<1> QED BY <1>1, <1>4, <1>7, <1>8, RoundOfOne DEF InChainstate

\* Between two places of one round.
LEMMA WithinRound ==
  ASSUME CInv, NEW t \in Threads, pc[t] \in InRound, NEW q \in InRound, Goto(t, q)
  PROVE  /\ ~CsMainFree /\ ~CsMainFree' /\ ~HalfWay
         /\ ~ChainstateMutexFree' /\ (Pending => Pending')
<1>1. pc[t] \in InChainstate /\ pc[t] # "abc" /\ pc[t] # "inv" /\ q # "inv" /\ q \in InChainstate
  BY DEF InRound, InChainstate
<1> QED BY <1>1, Alone DEF CInv, HalfWay

\* The choice is no worse than the round's first tip, which is one of the candidates.
LEMMA SelectMostWorkCandidates ==
  ASSUME CInv, NEW t \in Threads, SelectMostWork(t)
  PROVE  CandPart'
<1> USE DEF CInv, CandPart
<1>1. /\ pc[t] = "find" /\ pc' = pc
      /\ UNCHANGED <<dataVars, failVars, seqVars, setBlockIndexCandidates, chainVars, startingTip>>
  BY DEF SelectMostWork
<1>2. PICK c \in setBlockIndexCandidates : IsBestCandidate(c) /\ pindexMostWork' = c
  BY DEF SelectMostWork
<1>3. /\ UNCHANGED <<haveData, chainTx, m_blocks_unlinked, nSequenceId, tip>> /\ Failed' = Failed
  BY <1>1 DEF dataVars, failVars, seqVars, chainVars, Failed
<1>4. Goto(t, "find") /\ pc[t] \in InRound /\ "find" \in InRound /\ pc[t] \in InChainstate
  BY <1>1, AloneStays DEF InRound, InChainstate
<1>5. ~CsMainFree /\ ~CsMainFree' /\ ~HalfWay /\ ~ChainstateMutexFree' /\ (Pending => Pending')
  BY <1>4, WithinRound
<1>6. SoundInv' /\ TipInv' /\ CompleteInv'
  BY <1>1, <1>3, <1>5 DEF SoundInv, TipInv, CompleteInv, Worse
<1>7. \A d \in setBlockIndexCandidates : ~Worse(c, d)
  BY <1>2, Known, WorseFacts DEF IsBestCandidate, Inv
<1>8. RoundAt("find")
  BY <1>1 DEF RoundInv
<1>9. ~Worse(c, startingTip)
  BY <1>7, <1>8 DEF RoundAt
<1>10. RoundAt("find")'
  BY <1>1, <1>2, <1>3, <1>8, <1>9 DEF RoundAt, InRound, Worse
<1>11. RestInv'
  BY <1>1, <1>2, <1>3, <1>5, <1>7 DEF RestInv, Worse
<1> QED BY <1>4, <1>6, <1>10, <1>11, RoundOfOne

\* What leaves the candidates is marked; the marks set do not reach the round's first tip.
LEMMA DiscardFailedCandidates ==
  ASSUME CInv, NEW t \in Threads, DiscardFailedCandidate(t)
  PROVE  CandPart'
<1> USE DEF CInv, CandPart
<1>1. /\ pc[t] = "find" /\ pc' = pc /\ pindexMostWork = NoBlock
      /\ UNCHANGED <<dataVars, failedValid, seqVars, chainVars, abcVars>>
  BY DEF DiscardFailedCandidate
<1>2. PICK c \in setBlockIndexCandidates : \E x \in Path[c] :
        /\ x \in Failed /\ failedChild' = failedChild \cup (Path[c] \ Path[x])
        /\ setBlockIndexCandidates' = setBlockIndexCandidates \ ((Path[c] \ Path[x]) \cup {x})
  BY DEF DiscardFailedCandidate, FailedMask, Above, Discarded
<1>3. PICK x \in Path[c] :
        /\ x \in Failed /\ failedChild' = failedChild \cup (Path[c] \ Path[x])
        /\ setBlockIndexCandidates' = setBlockIndexCandidates \ ((Path[c] \ Path[x]) \cup {x})
  BY <1>2
<1>4. /\ UNCHANGED <<haveData, chainTx, m_blocks_unlinked, nSequenceId>>
      /\ UNCHANGED <<tip, startingTip, pindexMostWork>>
      /\ Failed' = Failed \cup (Path[c] \ Path[x])
  BY <1>1, <1>3 DEF dataVars, seqVars, chainVars, abcVars, Failed
<1>5. Goto(t, "find") /\ pc[t] \in InRound /\ "find" \in InRound /\ pc[t] \in InChainstate
  BY <1>1, AloneStays DEF InRound, InChainstate
<1>6. ~CsMainFree /\ ~CsMainFree' /\ ~HalfWay /\ ~ChainstateMutexFree'
  BY <1>5, WithinRound
<1>7. SoundInv' /\ TipInv'
  BY <1>3, <1>4, <1>6 DEF SoundInv, TipInv, Worse
<1>8. CompleteInv'
  BY <1>3, <1>4, <1>6 DEF CompleteInv, Worse
<1>9. RoundAt("find")
  BY <1>1 DEF RoundInv
<1>10. /\ (Path[c] \ Path[x]) \cap Path[startingTip] = {} /\ x # startingTip
       /\ startingTip \in Path[startingTip]
  <2>1. startingTip \in Blocks /\ x \notin Path[startingTip] /\ c \in Blocks
    BY <1>3, <1>9, Known DEF RoundAt, InRound
  <2> QED BY <2>1, AboveIsOutside, AncestorFacts
<1>11. RoundAt("find")'
  BY <1>1, <1>3, <1>4, <1>9, <1>10 DEF RoundAt, InRound, Worse
<1>12. RestInv'
  BY <1>1, <1>4, <1>6 DEF RestInv
<1> QED BY <1>5, <1>7, <1>8, <1>11, <1>12, RoundOfOne

\* What leaves the candidates waits, but for the block whose data is missing; the round's
\* first tip does not leave, as the way back to it is complete.
LEMMA DiscardMissingCandidates ==
  ASSUME CInv, NEW t \in Threads, DiscardMissingCandidate(t)
  PROVE  CandPart'
<1> USE DEF CInv, CandPart
<1>1. /\ pc[t] = "find" /\ pc' = pc /\ pindexMostWork = NoBlock
      /\ UNCHANGED <<haveData, chainTx, failVars, seqVars, chainVars, abcVars>>
  BY DEF DiscardMissingCandidate
<1>2. PICK c \in setBlockIndexCandidates : \E x \in Path[c] :
        /\ x \notin Active /\ x \notin haveData
        /\ m_blocks_unlinked' = m_blocks_unlinked \cup (Path[c] \ Path[x])
        /\ setBlockIndexCandidates' = setBlockIndexCandidates \ ((Path[c] \ Path[x]) \cup {x})
  BY DEF DiscardMissingCandidate, IsFirstUnusable, Unusable, FailedMask, Above, Discarded, WaitForData
<1>3. PICK x \in Path[c] :
        /\ x \notin Active /\ x \notin haveData
        /\ m_blocks_unlinked' = m_blocks_unlinked \cup (Path[c] \ Path[x])
        /\ setBlockIndexCandidates' = setBlockIndexCandidates \ ((Path[c] \ Path[x]) \cup {x})
  BY <1>2
<1>4. UNCHANGED <<nSequenceId, tip, startingTip, pindexMostWork>> /\ Failed' = Failed
  BY <1>1 DEF failVars, seqVars, chainVars, abcVars, Failed
<1>5. Goto(t, "find") /\ pc[t] \in InRound /\ "find" \in InRound /\ pc[t] \in InChainstate
  BY <1>1, AloneStays DEF InRound, InChainstate
<1>6. ~CsMainFree /\ ~CsMainFree' /\ ~HalfWay /\ ~ChainstateMutexFree'
  BY <1>5, WithinRound
<1>7. SoundInv' /\ TipInv'
  BY <1>3, <1>4, <1>6 DEF SoundInv, TipInv, Worse
<1>8. CompleteInv'
  BY <1>1, <1>3, <1>4, <1>6 DEF CompleteInv, Worse
<1>9. RoundAt("find")
  BY <1>1 DEF RoundInv
<1>10. startingTip \notin (Path[c] \ Path[x]) \cup {x}
  <2>1. startingTip \in Blocks /\ c \in Blocks /\ startingTip \in Path[startingTip]
    BY <1>9, Known, AncestorFacts DEF RoundAt, InRound
  <2>2. x \notin Path[startingTip]
    BY <1>3, <1>6 DEF DataPart, WayInv
  <2> QED BY <2>1, <2>2, AboveIsOutside
<1>11. RoundAt("find")'
  BY <1>1, <1>3, <1>4, <1>9, <1>10 DEF RoundAt, InRound, Worse
<1>12. RestInv'
  BY <1>1, <1>4, <1>6 DEF RestInv
<1> QED BY <1>5, <1>7, <1>8, <1>11, <1>12, RoundOfOne

\* The round ends without a step only when the tip is what it goes for, and is where it began.
LEMMA AbcNothingToDoCandidates ==
  ASSUME CInv, NEW t \in Threads, AbcNothingToDo(t)
  PROVE  CandPart'
<1> USE DEF CInv, CandPart
<1>1. /\ pc[t] = "find" /\ Goto(t, "unlock")
      /\ UNCHANGED <<dataVars, failVars, seqVars, setBlockIndexCandidates, chainVars>>
  BY DEF AbcNothingToDo
<1>2. UNCHANGED <<pindexMostWork, startingTip, blocksConnected>>
  BY DEF AbcNothingToDo, abcVars
<1>3. UNCHANGED <<haveData, chainTx, m_blocks_unlinked, nSequenceId, tip>> /\ Failed' = Failed
  BY <1>1 DEF dataVars, failVars, seqVars, chainVars, Failed
<1>4. RoundAt("find") /\ startingTip \in setBlockIndexCandidates /\ startingTip \in Blocks
  BY <1>1, Known DEF RoundInv, RoundAt
<1>5. pindexMostWork = tip /\ tip # NoBlock /\ tip \in Path[tip] /\ tip \in Blocks
  BY <1>4, Known, AncestorFacts, ThreadsAssumption DEF AbcNothingToDo
<1>6. tip = startingTip
  BY <1>4, <1>5, WorseFacts DEF RoundAt, Inv
<1>7. pc[t] \in InRound /\ "unlock" \in InRound /\ pc[t] \in InChainstate
  BY <1>1 DEF InRound, InChainstate
<1>8. ~CsMainFree /\ ~CsMainFree' /\ ~HalfWay /\ ~ChainstateMutexFree' /\ (Pending => Pending')
  BY <1>1, <1>7, WithinRound
<1>9. SoundInv' /\ TipInv' /\ CompleteInv'
  BY <1>1, <1>2, <1>3, <1>8 DEF SoundInv, TipInv, CompleteInv, Worse
<1>10. RoundAt("unlock")'
  BY <1>1, <1>2, <1>3, <1>4, <1>5, <1>6 DEF RoundAt, InRound, Worse
<1>11. RestInv'
  BY <1>1, <1>2, <1>3, <1>8 DEF RestInv, Worse
<1> QED BY <1>1, <1>7, <1>9, <1>10, <1>11, RoundOfOne

\* Where a round goes on, or ends for want of a block to disconnect, without a change to the
\* chain.
LEMMA AbcStepCandidates ==
  ASSUME CInv, NEW t \in Threads, AbcStep(t) \/ AbcBuildBatch(t) \/ AbcFatal(t)
  PROVE  CandPart'
<1> USE DEF CInv, CandPart
<1>1. PICK q \in {"disconnect", "connect", "fatal"} :
         /\ Goto(t, q) /\ pc[t] \in {"find", "disconnect"}
         /\ UNCHANGED <<dataVars, failVars, seqVars, setBlockIndexCandidates, chainVars>>
         /\ UNCHANGED <<pindexMostWork, startingTip>>
  BY DEF AbcStep, AbcBuildBatch, AbcFatal, abcVars
<1>2. UNCHANGED <<haveData, chainTx, m_blocks_unlinked, nSequenceId, tip>> /\ Failed' = Failed
  BY <1>1 DEF dataVars, failVars, seqVars, chainVars, Failed
<1>3. pc[t] \in InRound /\ q \in InRound /\ pc[t] \in InChainstate
  BY <1>1 DEF InRound, InChainstate
<1>4. ~CsMainFree /\ ~CsMainFree' /\ ~HalfWay /\ ~ChainstateMutexFree' /\ (Pending => Pending')
  BY <1>1, <1>3, WithinRound
<1>5. SoundInv' /\ TipInv' /\ CompleteInv'
  BY <1>1, <1>2, <1>4 DEF SoundInv, TipInv, CompleteInv, Worse
<1>6. RoundAt(pc[t])
  BY DEF RoundInv
<1>7. startingTip \in Blocks /\ tip \in Blocks /\ ~Worse(startingTip, tip)
  BY <1>1, <1>6, Known DEF RoundAt
<1>8. ~Worse(tip, startingTip) => tip = startingTip
  BY <1>7, WorseFacts DEF Inv
<1>9. RoundAt(q)'
  BY <1>1, <1>2, <1>6, <1>8 DEF RoundAt, InRound, Worse
<1>10. RestInv'
  BY <1>1, <1>2, <1>4 DEF RestInv, Worse
<1> QED BY <1>1, <1>3, <1>5, <1>9, <1>10, RoundOfOne

\* On the way down the tip gets worse: no candidate is lost, and none is missed, since
\* the round's first tip is the measure.
LEMMA AbcDisconnectTipCandidates ==
  ASSUME CInv, NEW t \in Threads, AbcDisconnectTip(t)
  PROVE  CandPart'
<1> USE DEF CInv, CandPart
<1>1. /\ pc[t] = "disconnect" /\ pc' = pc /\ tip' = Parent[tip] /\ tip \notin Path[pindexMostWork]
      /\ UNCHANGED <<dataVars, failVars, seqVars, setBlockIndexCandidates>>
  BY DEF AbcDisconnectTip
<1>2. UNCHANGED <<pindexMostWork, startingTip>>
  BY DEF AbcDisconnectTip, abcVars
<1>3. UNCHANGED <<haveData, chainTx, m_blocks_unlinked, nSequenceId>> /\ Failed' = Failed
  BY <1>1 DEF dataVars, failVars, seqVars, Failed
<1>4. Goto(t, "disconnect") /\ pc[t] \in InRound /\ "disconnect" \in InRound /\ pc[t] \in InChainstate
  BY <1>1, AloneStays DEF InRound, InChainstate
<1>5. ~CsMainFree /\ ~CsMainFree' /\ ~HalfWay /\ ~ChainstateMutexFree' /\ (Pending => Pending')
  BY <1>1, <1>4, WithinRound
<1>6. RoundAt("disconnect") /\ pindexMostWork # NoBlock
  BY <1>1 DEF RoundInv, Inv, StepInv
<1>7. tip \in Blocks \ {Genesis} /\ Parent[tip] \in Blocks /\ Work[Parent[tip]] < Work[tip]
  <2>1. tip # Genesis
    BY <1>1, <1>6, Known, TreeAssumption
  <2> QED BY <2>1, Known, AncestorFacts
<1>8. Worse(Parent[tip], tip) /\ ~Worse(tip, Parent[tip])
  BY <1>7, WorseFacts DEF Inv
<1>9. ASSUME NEW c \in Blocks, ~Worse(c, tip) PROVE ~Worse(c, Parent[tip])
  BY <1>7, <1>8, <1>9, WorseFacts DEF Inv
<1>10. startingTip \in Blocks /\ ~Worse(startingTip, tip)
  BY <1>6, Known DEF RoundAt, InRound
<1>11. SoundInv' /\ TipInv'
  BY <1>1, <1>3, <1>5, <1>9, Known DEF SoundInv, TipInv, Worse
<1>12. ASSUME NEW b \in Blocks, ~Worse(b, startingTip) PROVE ~Worse(b, tip)
  BY <1>7, <1>10, <1>12, WorseFacts DEF Inv
<1>13. CompleteInv'
  BY <1>1, <1>2, <1>3, <1>5, <1>12, Known DEF CompleteInv, Worse
<1>14. RoundAt("disconnect")'
  BY <1>1, <1>2, <1>3, <1>6, <1>9, <1>10 DEF RoundAt, InRound, Worse
<1>15. ~Pending' => \A c \in setBlockIndexCandidates : ~Worse(pindexMostWork, c)
  BY <1>5, <1>6 DEF RestInv
<1>16. RestInv'
  BY <1>1, <1>2, <1>3, <1>5, <1>15 DEF RestInv, Worse
<1> QED BY <1>4, <1>11, <1>13, <1>14, <1>16, RoundOfOne

\* On the way up the candidates worse than the new tip go, and none else; the new tip is
\* one of them as soon as it is as good as the round's first.
LEMMA AbcConnectTipCandidates ==
  ASSUME CInv, NEW t \in Threads, NEW b \in Blocks \ {Genesis}, AbcConnectTip(t, b)
  PROVE  CandPart'
<1> USE DEF CInv, CandPart
<1>1. /\ pc[t] = "connect" /\ b \in Path[pindexMostWork] \ Active /\ Parent[b] = tip /\ tip' = b
      /\ setBlockIndexCandidates' = {c \in setBlockIndexCandidates : ~Worse(c, b)}
      /\ UNCHANGED <<dataVars, failVars, seqVars, pindexMostWork, startingTip>>
  BY DEF AbcConnectTip, IsNext, PruneBlockIndexCandidates
<1>2. UNCHANGED <<haveData, chainTx, m_blocks_unlinked, nSequenceId>> /\ Failed' = Failed
  BY <1>1 DEF dataVars, failVars, seqVars, Failed
<1>3. PICK q \in {"connect", "find", "unlock"} :
         /\ Goto(t, q)
         /\ q = "find" => Worse(b, startingTip)
         /\ q = "unlock" => ~Worse(b, startingTip) /\ blocksConnected' = TRUE
  <2>1. CASE b = pindexMostWork \/ Work[b] > Work[pindexOldTip]
    BY <2>1 DEF AbcConnectTip, EndStep
  <2>2. CASE ~(b = pindexMostWork \/ Work[b] > Work[pindexOldTip])
    <3>1. pc' = pc /\ pc[t] \in InChainstate
      BY <1>1, <2>2 DEF AbcConnectTip, InChainstate, InRound
    <3> QED BY <1>1, <3>1, AloneStays
  <2> QED BY <2>1, <2>2
<1>4. pc[t] \in InRound /\ q \in InRound /\ pc[t] \in InChainstate
  BY <1>1 DEF InRound, InChainstate
<1>5. ~CsMainFree /\ ~CsMainFree' /\ ~HalfWay /\ ~ChainstateMutexFree' /\ (Pending => Pending')
  BY <1>3, <1>4, WithinRound
<1>6. RoundAt("connect") /\ pindexMostWork # NoBlock
  BY <1>1 DEF RoundInv, Inv, StepInv
<1>7. tip \in Blocks /\ Work[tip] < Work[b] /\ startingTip \in Blocks
  BY <1>1, <1>6, Known, AncestorFacts DEF RoundAt, InRound
<1>8. Worse(tip, b) /\ ~Worse(b, tip) /\ ~Worse(b, b)
  BY <1>7, WorseFacts DEF Inv
<1>9. ASSUME NEW y \in Blocks, ~Worse(y, b) PROVE ~Worse(y, tip)
  BY <1>7, <1>8, <1>9, WorseFacts DEF Inv
<1>10. ASSUME Worse(b, startingTip)
       PROVE  startingTip \in setBlockIndexCandidates' /\ ~Worse(startingTip, b)
  <2>1. Worse(tip, startingTip) /\ ~Worse(startingTip, b)
    BY <1>7, <1>8, <1>10, WorseFacts DEF Inv
  <2> QED BY <1>1, <1>6, <2>1 DEF RoundAt
<1>11. ASSUME ~Worse(b, startingTip) PROVE b \in setBlockIndexCandidates'
  <2>1. b \in haveData /\ Path[b] \subseteq Active \cup {b}
    BY <1>1, <1>6, AncestorFacts DEF DataPart, WayInv, Active
  <2>2. b \in chainTx /\ b \notin Failed
    BY <1>1, <1>6 DEF Inv, MostWorkInv, IndexInv
  <2>3. b \notin m_blocks_unlinked
    BY <2>1, <2>2, NotWaiting DEF DataPart
  <2> QED BY <1>1, <1>5, <1>8, <1>11, <2>1, <2>2, <2>3 DEF CompleteInv
<1>12. SoundInv' /\ TipInv'
  BY <1>1, <1>2, <1>5 DEF SoundInv, TipInv, Worse
<1>13. CompleteInv'
  BY <1>1, <1>2, <1>5, <1>9, Known DEF CompleteInv, Worse
<1>14. RoundAt(q)'
  BY <1>1, <1>2, <1>3, <1>6, <1>10, <1>11 DEF RoundAt, InRound, Worse
<1>15. ~Pending' => \A c \in setBlockIndexCandidates : ~Worse(pindexMostWork, c)
  BY <1>5, <1>6 DEF RestInv
<1>16. RestInv'
  BY <1>1, <1>2, <1>5, <1>15 DEF RestInv, Worse
<1> QED BY <1>3, <1>4, <1>12, <1>13, <1>14, <1>16, RoundOfOne

\* A block that ConnectBlock rejects is neither the tip nor below the round's first one.
LEMMA AbcConnectInvalidCandidates ==
  ASSUME CInv, NEW t \in Threads, NEW b \in Blocks \ {Genesis}, AbcConnectInvalid(t, b)
  PROVE  CandPart'
<1> USE DEF CInv, CandPart
<1>1. /\ pc[t] = "connect" /\ b \in ConnectInvalid /\ pindexMostWork' = NoBlock
      /\ Failed' = Failed \cup {b}
      /\ setBlockIndexCandidates' = setBlockIndexCandidates \ {b}
      /\ UNCHANGED <<dataVars, seqVars, chainVars, startingTip>>
  BY DEF AbcConnectInvalid, Failed
<1>2. UNCHANGED <<haveData, chainTx, m_blocks_unlinked, nSequenceId, tip>>
  BY <1>1 DEF dataVars, seqVars, chainVars
<1>3. PICK q \in {"find", "unlock"} :
         /\ Goto(t, q)
         /\ q = "find" => Worse(tip, startingTip)
         /\ q = "unlock" => ~Worse(tip, startingTip) /\ blocksConnected' = TRUE
  BY DEF AbcConnectInvalid, EndStep
<1>4. pc[t] \in InRound /\ q \in InRound /\ pc[t] \in InChainstate
  BY <1>1, <1>3 DEF InRound, InChainstate
<1>5. ~CsMainFree /\ ~CsMainFree' /\ ~HalfWay /\ ~ChainstateMutexFree'
  BY <1>3, <1>4, WithinRound
<1>6. RoundAt("connect")
  BY <1>1 DEF RoundInv
<1>7. startingTip \in Path[startingTip] /\ b \notin Path[startingTip] /\ b # tip
  BY <1>1, <1>6, Known, AncestorFacts DEF RoundAt, InRound
<1>8. Worse(tip, startingTip) => ~Worse(startingTip, tip)
  BY <1>6, Known, WorseFacts DEF RoundAt, InRound, Inv
<1>9. SoundInv' /\ TipInv'
  BY <1>1, <1>2, <1>5 DEF SoundInv, TipInv, Worse
<1>10. CompleteInv'
  BY <1>1, <1>2, <1>5 DEF CompleteInv, Worse
<1>11. RoundAt(q)'
  BY <1>1, <1>2, <1>3, <1>6, <1>7, <1>8 DEF RoundAt, InRound, Worse
<1>12. RestInv'
  BY <1>1, <1>5 DEF RestInv
<1> QED BY <1>3, <1>4, <1>9, <1>10, <1>11, <1>12, RoundOfOne

\* A round leaves a tip no worse than the one it began with, and among the candidates; the
\* last one leaves what it was going for.
LEMMA AbcUnlockCandidates ==
  ASSUME CInv, NEW t \in Threads, AbcUnlock(t)
  PROVE  CandPart'
<1> USE DEF CInv, CandPart
<1>1. /\ pc[t] = "unlock"
      /\ UNCHANGED <<dataVars, failVars, seqVars, setBlockIndexCandidates, chainVars>>
  BY DEF AbcUnlock
<1>2. PICK q \in {"lock", "idle"} :
         /\ Goto(t, q)
         /\ q = "lock" => tip # pindexMostWork /\ pindexMostWork' = pindexMostWork
         /\ q = "idle" => (~blocksConnected \/ tip = pindexMostWork) /\ pindexMostWork' = NoBlock
  BY DEF AbcUnlock, AnotherRound
<1>3. UNCHANGED <<haveData, chainTx, m_blocks_unlinked, nSequenceId, tip>> /\ Failed' = Failed
  BY <1>1 DEF dataVars, failVars, seqVars, chainVars, Failed
<1>4. pc[t] \in InRound /\ q \notin InRound /\ pc[t] \in InChainstate /\ q # "inv"
      /\ (q = "lock" => q \in InChainstate)
  BY <1>1 DEF InRound, InChainstate
<1>5. CsMainFree' /\ ~HalfWay /\ (q = "lock" => ~ChainstateMutexFree') /\ (Pending => Pending')
  BY <1>1, <1>2, <1>4, Alone DEF HalfWay
<1>6. RoundAt("unlock")
  BY <1>1 DEF RoundInv
<1>7. startingTip \in Blocks /\ tip \in Blocks /\ tip # NoBlock
  BY <1>6, Known, ThreadsAssumption DEF RoundAt, InRound
<1>8. ASSUME NEW y \in Blocks, ~Worse(y, tip) PROVE ~Worse(y, startingTip)
  BY <1>6, <1>7, <1>8, WorseFacts DEF RoundAt, Inv
<1>9. SoundInv' /\ TipInv'
  BY <1>1, <1>3, <1>6 DEF SoundInv, TipInv, RoundAt, Worse
<1>10. CompleteInv'
  BY <1>1, <1>3, <1>5, <1>8, Known DEF CompleteInv, Worse
<1>11. RoundAt(q)'
  BY <1>2, <1>3, <1>4, <1>6 DEF RoundAt
<1>12. RestInv'
  <2>1. CASE q = "lock"
    BY <1>1, <1>2, <1>3, <1>5, <2>1 DEF RestInv, Worse
  <2>2. CASE q = "idle"
    <3>1. tip = pindexMostWork
      BY <1>2, <1>6, <2>2 DEF RoundAt
    <3>2. ~Pending' => \A c \in setBlockIndexCandidates : ~Worse(tip, c)
      BY <1>5, <1>7, <3>1 DEF RestInv
    <3> QED BY <1>1, <1>2, <1>3, <2>2, <3>2 DEF RestInv, Worse
  <2> QED BY <1>2, <2>1, <2>2
<1> QED BY <1>2, <1>4, <1>9, <1>10, <1>11, <1>12, RoundOfOne

\* With m_chainstate_mutex taken nobody goes for anything.
LEMMA InvalidateBeginCandidates ==
  ASSUME CInv, NEW t \in Threads, NEW b \in Blocks, InvalidateBegin(t, b)
  PROVE  CandPart'
<1> USE DEF CInv, CandPart
<1>1. /\ ChainstateMutexFree /\ Goto(t, "inv") /\ pc[t] = "idle"
      /\ UNCHANGED <<dataVars, failVars, seqVars, setBlockIndexCandidates, chainVars, abcVars>>
  BY DEF InvalidateBegin
<1>2. /\ UNCHANGED <<haveData, chainTx, m_blocks_unlinked, nSequenceId, tip, pindexMostWork>>
      /\ Failed' = Failed
  BY <1>1 DEF dataVars, failVars, seqVars, chainVars, abcVars, Failed
<1>3. pindexMostWork = NoBlock
  BY <1>1 DEF Inv, MostWorkInv, ChainstateMutexFree, InChainstate
<1>4. ~HalfWay /\ CsMainFree /\ CsMainFree' /\ ~ChainstateMutexFree'
  BY <1>1, Alone DEF InChainstate, InRound, HalfWay
<1>5. SoundInv' /\ TipInv' /\ CompleteInv' /\ RestInv'
  BY <1>1, <1>2, <1>3, <1>4 DEF SoundInv, TipInv, CompleteInv, RestInv, Worse
<1>6. RoundAt("inv")'
  BY DEF RoundAt, InRound
<1> QED BY <1>1, <1>5, <1>6, RoundOfOne

\* As the tip goes down its parent becomes a candidate, and of what was noted at the start
\* whatever is not worse.
LEMMA InvalidateDisconnectCandidates ==
  ASSUME CInv, NEW t \in Threads, InvalidateDisconnect(t)
  PROVE  CandPart'
<1> USE DEF CInv, CandPart
<1>1. /\ pc[t] = "inv" /\ pc' = pc /\ invTarget \in Path[tip] /\ tip' = Parent[tip]
      /\ invTarget' = invTarget /\ toMarkFailed' = tip
      /\ setBlockIndexCandidates' = (setBlockIndexCandidates \ {tip}) \cup {Parent[tip]}
           \cup {c \in candidateBlocksByWork : ~Worse(c, Parent[tip])}
      /\ UNCHANGED <<seqVars, abcVars>>
  BY DEF InvalidateDisconnect, Active
<1>2. UNCHANGED <<nSequenceId, pindexMostWork>>
  BY <1>1 DEF seqVars, abcVars
<1>3. Goto(t, "inv") /\ pc[t] \in InChainstate /\ "inv" \in InChainstate
  BY <1>1, AloneStays DEF InChainstate
<1>4. InvalidateRunning' /\ ~ChainstateMutexFree' /\ \A u \in Threads \ {t} : pc[u] \notin InChainstate
  BY <1>3, Alone
<1>5. pindexMostWork = NoBlock
  BY <1>1, <1>4 DEF Inv, MostWorkInv, InChainstate, InRound
<1>6. /\ tip \in Blocks \ {Genesis} /\ Parent[tip] \in Blocks /\ Work[Parent[tip]] < Work[tip]
      /\ tip \notin Path[Parent[tip]]
  <2>1. tip # Genesis
    BY <1>1, TreeAssumption DEF Inv, InvalidateInv
  <2> QED BY <2>1, Known, AncestorFacts
<1>7. ~Worse(tip, Parent[tip]) /\ ~Worse(Parent[tip], Parent[tip])
  BY <1>6, WorseFacts DEF Inv
<1>8. ASSUME NEW c \in Blocks, ~Worse(c, tip) PROVE ~Worse(c, Parent[tip])
  BY <1>6, <1>7, <1>8, WorseFacts DEF Inv
<1>9. SoundInv' /\ TipInv'
  BY <1>1, <1>2, <1>7, <1>8, Known DEF SoundInv, TipInv, Worse
<1>10. HalfWay'
  BY <1>1, <1>4, <1>6 DEF HalfWay, Active
<1>11. CompleteInv' /\ RestInv'
  BY <1>2, <1>4, <1>5, <1>10 DEF CompleteInv, RestInv
<1>12. RoundAt("inv")'
  BY DEF RoundAt, InRound
<1> QED BY <1>3, <1>9, <1>11, <1>12, RoundOfOne

\* An InvalidateBlock that fails at its first block has changed nothing.
LEMMA InvalidateFailsCandidates ==
  ASSUME CInv, NEW t \in Threads, InvalidateFails(t), toMarkFailed = invTarget
  PROVE  CandPart'
<1> USE DEF CInv, CandPart
<1>1. /\ pc[t] = "inv" /\ Goto(t, "abc") /\ invTarget \in Active
      /\ UNCHANGED <<dataVars, failVars, seqVars, setBlockIndexCandidates, chainVars>>
  BY DEF InvalidateFails
<1>2. UNCHANGED <<haveData, chainTx, m_blocks_unlinked, nSequenceId, tip>> /\ Failed' = Failed
  BY <1>1 DEF dataVars, failVars, seqVars, chainVars, Failed
<1>3. pc[t] \in InChainstate /\ CsMainFree /\ CsMainFree' /\ Pending' /\ ~HalfWay
  BY <1>1, Alone DEF InChainstate, InRound, HalfWay
<1>4. SoundInv' /\ TipInv' /\ CompleteInv'
  BY <1>1, <1>2, <1>3 DEF SoundInv, TipInv, CompleteInv, Worse
<1>5. RoundAt("abc")' /\ RestInv'
  BY <1>3 DEF RoundAt, InRound, RestInv
<1> QED BY <1>1, <1>3, <1>4, <1>5, RoundOfOne

\* The sweep at the end finds all that became, or arrived as, a candidate meanwhile.
LEMMA InvalidateFinishCandidates ==
  ASSUME CInv, NEW t \in Threads, InvalidateFinish(t)
  PROVE  CandPart'
<1> USE DEF CInv, CandPart
<1>1. /\ pc[t] = "inv" /\ Goto(t, "abc") /\ CsMainFree /\ invTarget \notin Active
      /\ Failed' = Failed \cup {toMarkFailed}
      /\ setBlockIndexCandidates' = (setBlockIndexCandidates \ {toMarkFailed}) \cup MissingCandidates
      /\ UNCHANGED <<dataVars, seqVars, chainVars>>
  BY DEF InvalidateFinish, Failed
<1>2. UNCHANGED <<nSequenceId, tip, haveData, chainTx>>
  BY <1>1 DEF seqVars, chainVars, dataVars
<1>3. pc[t] \in InChainstate /\ CsMainFree' /\ Pending'
  BY <1>1, Alone DEF InChainstate, InRound
<1>4. tip # toMarkFailed
  <2>1. toMarkFailed \in Blocks \ {Genesis} /\ (toMarkFailed = invTarget \/ Parent[toMarkFailed] = tip)
    BY <1>1, Known DEF Inv, InvalidateInv
  <2>2. tip \in Path[tip]
    BY Known, AncestorFacts
  <2> QED BY <1>1, <2>1, <2>2, AncestorFacts DEF Active
<1>5. SoundInv' /\ TipInv'
  BY <1>1, <1>2, <1>4 DEF SoundInv, TipInv, Worse, MissingCandidates
<1>6. ASSUME NEW b \in (haveData \cap chainTx) \ (Failed \cup {toMarkFailed}), ~Worse(b, tip)
      PROVE  b \in MissingCandidates
  BY <1>6 DEF MissingCandidates, Inv, TypeOK, SubsetsOfIndex
<1>7. CompleteInv'
  BY <1>1, <1>2, <1>3, <1>6 DEF CompleteInv, Worse
<1>8. RoundAt("abc")' /\ RestInv'
  BY <1>3 DEF RoundAt, InRound, RestInv
<1> QED BY <1>1, <1>3, <1>5, <1>7, <1>8, RoundOfOne

-----------------------------------------------------------------------------
(* The invariant and the theorems.                                         *)

\* The genesis block is linked, the tip and the only candidate.
LEMMA InitCInv == Init => CInv
<1> SUFFICES ASSUME Init PROVE CInv
  OBVIOUS
<1>1. Inv
  BY InitInv
<1>2. DataPart
  BY ThreadsAssumption, TreeAssumption DEF Init, DataPart, WaitInv, WayInv, CsMainFree, InRound
<1>3. ~Worse(Genesis, Genesis) /\ tip = Genesis
  BY <1>1, TreeAssumption, WorseFacts DEF Init, Inv
<1>4. SoundInv /\ TipInv /\ CompleteInv /\ RestInv
  BY <1>3 DEF Init, SoundInv, TipInv, CompleteInv, RestInv
<1>5. RoundInv
  BY DEF Init, RoundInv, RoundAt, InRound
<1> QED BY <1>1, <1>2, <1>4, <1>5 DEF CInv, CandPart

\* What peers and operators ask of an idle thread keeps the invariant.
LEMMA RequestKeepsCInv ==
  ASSUME CInv, WholeCalls, NEW t \in Threads, Request(t)
  PROVE  CInv'
<1>1. Inv'
  BY RequestKeeps DEF CInv
<1>2. ASSUME NEW b \in Blocks \ {Genesis}, NEW requested \in BOOLEAN, StoreBlock(t, b, requested)
      PROVE  CInv'
  <2>1. NewlyLinked(b) \cap setBlockIndexCandidates = {}
    BY <1>2 DEF WholeCalls
  <2> QED BY <1>1, <1>2, <2>1, StoreBlockData, StoreBlockCandidates DEF CInv
<1>3. CASE \E b \in Blocks \ {Genesis} :
             \/ AcceptHeader(t, b) \/ RejectHeader(t, b)
             \/ \E requested, mutated \in BOOLEAN :
                  IgnoreBlock(t, b, requested) \/ RejectBlock(t, b, requested, mutated)
  <2>1. DataPart'
    BY <1>3, OtherData DEF CInv
  <2>2. /\ CsMainFree /\ pc[t] = "idle" /\ (pc' = pc \/ Goto(t, "abc")) /\ Failed \subseteq Failed'
        /\ UNCHANGED <<dataVars, setBlockIndexCandidates, chainVars, seqVars, abcVars, invVars>>
    BY <1>3 DEF AcceptHeader, RejectHeader, IgnoreBlock, RejectBlock, Failed, failVars
  <2>3. /\ UNCHANGED <<tip, nSequenceId, chainTx, haveData, m_blocks_unlinked>>
        /\ UNCHANGED <<invTarget, toMarkFailed>>
    BY <2>2 DEF seqVars, chainVars, dataVars, invVars
  <2>4. CandPart'
    BY <2>2, <2>3, QuietCandidates
  <2> QED BY <1>1, <2>1, <2>4 DEF CInv
<1>4. ASSUME NEW h, Prune(t, h) PROVE CInv'
  <2>1. DataPart'
    BY <1>4, PruneData
  <2>2. /\ CsMainFree /\ pc[t] = "idle" /\ pc' = pc /\ Failed' = Failed
        /\ UNCHANGED <<chainTx, setBlockIndexCandidates, chainVars, seqVars, abcVars, invVars>>
    BY <1>4 DEF Prune, Failed, failVars
  <2>3. /\ haveData' \subseteq haveData /\ m_blocks_unlinked \cap haveData' \subseteq m_blocks_unlinked'
        /\ UNCHANGED <<tip, nSequenceId, invTarget, toMarkFailed>>
    BY <1>4, <2>2 DEF Prune, seqVars, chainVars, invVars
  <2>4. CandPart'
    BY <2>2, <2>3, QuietCandidates
  <2> QED BY <1>1, <2>1, <2>4 DEF CInv
<1>5. ASSUME NEW b \in Blocks, InvalidateBegin(t, b) PROVE CInv'
  BY <1>1, <1>5, OtherData, InvalidateBeginCandidates DEF CInv
<1>6. ASSUME NEW b \in Blocks, PreciousBlock(t, b) PROVE CInv'
  <2>1. nSequenceId'[tip] <= nSequenceId[tip]
    BY <1>6 DEF WholeCalls
  <2> QED BY <1>1, <1>6, <2>1, OtherData, PreciousBlockCandidates DEF CInv
<1>7. ASSUME NEW b \in Blocks, Reconsider(t, b) PROVE CInv'
  <2>1. Path[b] \cap Failed \subseteq {b}
    BY <1>7 DEF WholeCalls
  <2> QED BY <1>1, <1>7, <2>1, OtherData, ReconsiderCandidates DEF CInv
<1> QED BY <1>2, <1>3, <1>4, <1>5, <1>6, <1>7 DEF Request

\* A thread that runs on keeps it.
LEMMA ContinueKeepsCInv ==
  ASSUME CInv, WholeCalls, NEW t \in Threads, Continue(t)
  PROVE  CInv'
<1>1. Inv'
  BY ContinueKeeps DEF CInv
<1>2. CASE AbcBegin(t) \/ AbcLock(t) \/ AbcUnlock(t)
  BY <1>1, <1>2, OtherData, AbcBeginCandidates, AbcLockCandidates, AbcUnlockCandidates DEF CInv
<1>3. CASE SelectMostWork(t)
  BY <1>1, <1>3, SelectData, SelectMostWorkCandidates DEF CInv
<1>4. CASE DiscardFailedCandidate(t)
  BY <1>1, <1>4, OtherData, DiscardFailedCandidates DEF CInv
<1>5. CASE DiscardMissingCandidate(t)
  BY <1>1, <1>5, DiscardMissingData, DiscardMissingCandidates DEF CInv
<1>6. CASE AbcNothingToDo(t) \/ AbcStep(t) \/ AbcBuildBatch(t) \/ AbcFatal(t)
  BY <1>1, <1>6, OtherData, AbcNothingToDoCandidates, AbcStepCandidates DEF CInv
<1>7. CASE AbcDisconnectTip(t)
  <2>1. tip \in haveData /\ tip # Genesis
    <3>1. pindexMostWork \in Blocks /\ tip \notin Path[pindexMostWork]
      BY <1>7, Known DEF AbcDisconnectTip, CInv, Inv, StepInv
    <3> QED BY <1>7, <3>1, TreeAssumption DEF AbcDisconnectTip
  <2>2. DataPart'
    BY <1>7, <2>1, DisconnectData DEF CInv, AbcDisconnectTip, dataVars, abcVars
  <2> QED BY <1>1, <1>7, <2>2, AbcDisconnectTipCandidates DEF CInv
<1>8. CASE \E b \in Blocks \ {Genesis} : AbcConnectTip(t, b)
  BY <1>1, <1>8, ConnectData, AbcConnectTipCandidates DEF CInv
<1>9. CASE \E b \in Blocks \ {Genesis} : AbcConnectInvalid(t, b)
  BY <1>1, <1>9, OtherData, AbcConnectInvalidCandidates DEF CInv
<1>10. CASE InvalidateDisconnect(t)
  <2>1. tip \in haveData /\ tip # Genesis
    BY <1>10, TreeAssumption DEF InvalidateDisconnect, Active, CInv, Inv, InvalidateInv
  <2>2. DataPart'
    BY <1>10, <2>1, DisconnectData DEF CInv, InvalidateDisconnect, dataVars, abcVars
  <2> QED BY <1>1, <1>10, <2>2, InvalidateDisconnectCandidates DEF CInv
<1>11. CASE InvalidateFails(t)
  <2>1. toMarkFailed = invTarget
    BY <1>11 DEF WholeCalls
  <2> QED BY <1>1, <1>11, <2>1, OtherData, InvalidateFailsCandidates DEF CInv
<1>12. CASE InvalidateFinish(t)
  BY <1>1, <1>12, OtherData, InvalidateFinishCandidates DEF CInv
<1> QED BY <1>2, <1>3, <1>4, <1>5, <1>6, <1>7, <1>8, <1>9, <1>10, <1>11, <1>12 DEF Continue

\* It depends on nothing but the variables.
LEMMA StutterKeepsCInv ==
  ASSUME CInv, UNCHANGED vars
  PROVE  CInv'
<1>1. Inv' /\ DataPart'
  <2>1. PICK t \in Threads : TRUE
    BY ThreadsAssumption
  <2> QED BY <2>1, StutterKeeps, OtherData DEF CInv
<1>2. UNCHANGED <<haveData, chainTx, m_blocks_unlinked>> /\ Failed' = Failed
  BY DEF vars, dataVars, failVars, Failed
<1>3. UNCHANGED <<setBlockIndexCandidates, tip, nSequenceId, pc, pindexMostWork, startingTip>>
  BY DEF vars, seqVars, chainVars, abcVars
<1>4. UNCHANGED <<blocksConnected, invTarget, toMarkFailed>>
  BY DEF vars, abcVars, invVars
<1>5. /\ CsMainFree' = CsMainFree /\ HalfWay' = HalfWay /\ Pending' = Pending
      /\ ChainstateMutexFree' = ChainstateMutexFree
  BY <1>3, <1>4 DEF CsMainFree, InvalidateRunning, HalfWay, Active, Pending, ChainstateMutexFree
<1>6. SoundInv' /\ TipInv' /\ CompleteInv' /\ RestInv'
  BY <1>2, <1>3, <1>5 DEF CInv, CandPart, SoundInv, TipInv, CompleteInv, RestInv, Worse
<1>7. RoundInv'
  BY <1>2, <1>3, <1>4 DEF CInv, CandPart, RoundInv, RoundAt, Worse
<1> QED BY <1>1, <1>6, <1>7 DEF CInv, CandPart

\* Every step of every thread keeps it.
LEMMA StepKeepsCInv == CInv /\ [Next]_vars /\ [WholeCalls]_vars => CInv'
<1> SUFFICES ASSUME CInv, [Next]_vars, [WholeCalls]_vars PROVE CInv'
  OBVIOUS
<1>1. CASE UNCHANGED vars
  BY <1>1, StutterKeepsCInv
<1>2. CASE WholeCalls /\ \E t \in Threads : Request(t)
  BY <1>2, RequestKeepsCInv
<1>3. CASE WholeCalls /\ \E t \in Threads : Continue(t)
  BY <1>3, ContinueKeepsCInv
<1>4. CASE \E t \in Threads : Stopped(t)
  BY <1>1, <1>4 DEF Stopped
<1> QED BY <1>1, <1>2, <1>3, <1>4 DEF Next

\* In every state of a run of such calls.
LEMMA AlwaysCInv == Spec /\ [][WholeCalls]_vars => []CInv
BY InitCInv, StepKeepsCInv, PTL DEF Spec

\* CandidatesRight: whenever cs_main is free, setBlockIndexCandidates holds no block worse
\* than the tip and, unless invalidateblock is under way, every usable block that is not
\* (CheckBlockIndex).
THEOREM CandidatesAreRight == Spec /\ [][WholeCalls]_vars => []CandidatesRight
<1>1. CInv => CandidatesRight
  <2> SUFFICES ASSUME CInv, CsMainFree PROVE CandidatesRight
    BY DEF CandidatesRight
  <2>1. \A c \in setBlockIndexCandidates : c \in chainTx /\ ~Worse(c, tip)
    BY Known DEF CInv, CandPart, SoundInv
  <2>2. ASSUME ~InvalidateRunning, NEW b \in index, Usable(b), ~Worse(b, tip)
        PROVE  b \in setBlockIndexCandidates
    <3>1. b \in Blocks /\ tip \in Blocks /\ b \in Path[b] /\ b \in chainTx /\ b \notin Failed
      BY <2>2, Known, AncestorFacts DEF Usable, CInv
    <3>2. CASE b \in Active
      <4>1. b = tip
        BY <2>2, <3>1, <3>2, MeasureAssumption, WorseFacts DEF Active, CInv, Inv
      <4> QED BY <4>1 DEF CInv, CandPart, TipInv
    <3>3. CASE b \notin Active
      <4>1. b \in haveData /\ b \notin m_blocks_unlinked
        BY <2>2, <3>1, <3>3, NotWaiting DEF Usable, CInv, DataPart
      <4> QED BY <2>2, <3>1, <4>1 DEF CInv, CandPart, CompleteInv, HalfWay
    <3> QED BY <3>2, <3>3
  <2> QED BY <2>1, <2>2 DEF CandidatesRight
<1> QED BY AlwaysCInv, <1>1, PTL

\* QuiescentTipIsBest: when every thread has returned from ActivateBestChain and
\* InvalidateBlock, the tip is the best of the blocks that could be connected.
THEOREM TipIsBestAtRest == Spec /\ [][WholeCalls]_vars => []QuiescentTipIsBest
<1>1. CInv /\ CandidatesRight => QuiescentTipIsBest
  <2> SUFFICES ASSUME CInv, CandidatesRight, \A t \in Threads : pc[t] = "idle",
                      NEW b \in index, Usable(b), Worse(tip, b)
               PROVE  FALSE
    BY DEF QuiescentTipIsBest
  <2>1. ~Pending /\ ChainstateMutexFree /\ CsMainFree /\ ~InvalidateRunning
    BY DEF Pending, ChainstateMutexFree, CsMainFree, InvalidateRunning, InChainstate, InRound
  <2>2. ~Worse(b, tip)
    BY Known, WorseFacts DEF CInv, Inv
  <2>3. b \in setBlockIndexCandidates
    BY <2>1, <2>2 DEF CandidatesRight
  <2> QED BY <2>1, <2>3 DEF CInv, CandPart, RestInv
<1> QED BY AlwaysCInv, CandidatesAreRight, <1>1, PTL

\* PrunedBranchWaits: a heavier block above one whose data was pruned is not lost; while
\* cs_main is free and no invalidateblock is under way it is a candidate, or it is in
\* m_blocks_unlinked until the pruned block comes again (FindMostWorkChain).
THEOREM PrunedBranchIsKept == Spec /\ [][WholeCalls]_vars => []PrunedBranchWaits
<1>1. CInv => PrunedBranchWaits
  <2> SUFFICES ASSUME CInv, CsMainFree, ~InvalidateRunning, NEW b \in haveData \cap chainTx,
                      Work[b] > Work[tip], Path[b] \cap Failed = {}
               PROVE  b \in setBlockIndexCandidates \cup m_blocks_unlinked
    BY DEF PrunedBranchWaits
  <2>1. b \in Blocks /\ tip \in Blocks /\ b \in Path[b]
    BY Known, AncestorFacts DEF CInv
  <2>2. ~Worse(b, tip)
    BY <2>1, WorseFacts DEF CInv, Inv
  <2> QED BY <2>1, <2>2 DEF CInv, CandPart, CompleteInv, HalfWay
<1> QED BY AlwaysCInv, <1>1, PTL

-----------------------------------------------------------------------------
(* What everyone else sees.                                                *)

\* An operator takes the published chain back by one block.
LEMMA InvalidateStepsBack ==
  ASSUME CInv, NEW t \in Threads, InvalidateDisconnect(t)
  PROVE  Chain!StepBack
<1>1. CsMainFree /\ pc' = pc /\ tip' = Parent[tip] /\ invTarget \in Path[tip] /\ pc[t] = "inv"
  BY DEF InvalidateDisconnect, Active
<1>2. CsMainFree'
  BY <1>1 DEF CsMainFree
<1>3. tip # Genesis
  BY <1>1, TreeAssumption DEF CInv, Inv, InvalidateInv
<1> QED BY <1>1, <1>2, <1>3 DEF Chain!StepBack, publishedTip

\* The end of a round publishes a valid chain of at least the work of the one before.
LEMMA UnlockActivates ==
  ASSUME CInv, NEW t \in Threads, AbcUnlock(t)
  PROVE  Chain!Activate
<1>1. pc[t] = "unlock" /\ tip' = tip
  BY DEF AbcUnlock, chainVars
<1>2. PICK q \in {"lock", "idle"} : Goto(t, q)
  BY DEF AbcUnlock
<1>3. ~CsMainFree /\ CsMainFree'
  BY <1>1, <1>2, Alone DEF InRound, InChainstate, CInv
<1>4. publishedTip = startingTip /\ publishedTip' = tip
  BY <1>1, <1>3 DEF publishedTip
<1>5. RoundAt("unlock")
  BY <1>1 DEF CInv, CandPart, RoundInv
<1>6. startingTip \in Blocks /\ tip \in Blocks /\ ~Worse(tip, startingTip) /\ TypeOK
  BY <1>5, Known DEF RoundAt, InRound, CInv, Inv
<1>7. Work[tip] >= Work[startingTip]
  BY <1>6, WorseFacts, MeasureAssumption
<1>8. Path[tip] \subseteq Blocks \ (BodyInvalid \cup ConnectInvalid)
  BY <1>6, AncestorFacts DEF CInv, Inv, ActiveChainValid, Active
<1> QED BY <1>4, <1>6, <1>7, <1>8 DEF Chain!Activate

\* Every other step of a call that holds a lock is hidden.
LEMMA ContinueHides ==
  ASSUME CInv, NEW t \in Threads, Continue(t), ~AbcUnlock(t), ~InvalidateDisconnect(t)
  PROVE  publishedTip' = publishedTip
<1>1. CASE AbcLock(t)
  <2>1. pc[t] = "lock" /\ Goto(t, "find") /\ startingTip' = tip
    BY <1>1 DEF AbcLock
  <2>2. CsMainFree /\ ~CsMainFree'
    BY <2>1, Alone DEF InRound, InChainstate, CInv, AbcLock
  <2> QED BY <2>1, <2>2 DEF publishedTip
<1>2. CASE AbcBegin(t) \/ InvalidateFails(t) \/ InvalidateFinish(t)
  <2>1. PICK q \in {"lock", "abc"} : Goto(t, q)
    BY <1>2 DEF AbcBegin, InvalidateFails, InvalidateFinish
  <2>2. (pc[t] \in InChainstate \/ ChainstateMutexFree) /\ pc[t] \notin InRound /\ tip' = tip
    BY <1>2 DEF AbcBegin, InvalidateFails, InvalidateFinish, InChainstate, InRound, chainVars
  <2>3. CsMainFree /\ CsMainFree'
    BY <2>1, <2>2, Alone DEF InRound, CInv
  <2> QED BY <2>2, <2>3 DEF publishedTip
<1>3. CASE \/ SelectMostWork(t) \/ DiscardFailedCandidate(t) \/ DiscardMissingCandidate(t)
           \/ AbcNothingToDo(t) \/ AbcStep(t) \/ AbcDisconnectTip(t) \/ AbcFatal(t) \/ AbcBuildBatch(t)
           \/ \E b \in Blocks \ {Genesis} : AbcConnectTip(t, b) \/ AbcConnectInvalid(t, b)
  <2>1. pc[t] \in InRound /\ pc[t] \in InChainstate
    BY <1>3 DEF SelectMostWork, DiscardFailedCandidate, DiscardMissingCandidate, AbcNothingToDo, AbcStep,
       AbcDisconnectTip, AbcFatal, AbcBuildBatch, AbcConnectTip, AbcConnectInvalid, InRound, InChainstate
  <2>2. startingTip' = startingTip
    BY <1>3 DEF SelectMostWork, DiscardFailedCandidate, DiscardMissingCandidate, AbcNothingToDo, AbcStep,
       AbcDisconnectTip, AbcFatal, AbcBuildBatch, AbcConnectTip, AbcConnectInvalid, abcVars
  <2>3. pc' = pc \/ \E q \in InRound : Goto(t, q)
    BY <1>3 DEF SelectMostWork, DiscardFailedCandidate, DiscardMissingCandidate, AbcNothingToDo, AbcStep,
       AbcDisconnectTip, AbcFatal, AbcBuildBatch, AbcConnectTip, AbcConnectInvalid, EndStep, InRound
  <2>4. \E q \in InRound : Goto(t, q)
    BY <2>1, <2>3, AloneStays DEF CInv
  <2>5. ~CsMainFree /\ ~CsMainFree'
    BY <2>1, <2>4, WithinRound
  <2> QED BY <2>2, <2>5 DEF publishedTip
<1> QED BY <1>1, <1>2, <1>3 DEF Continue

\* A call that only begins changes nothing that is published.
LEMMA RequestHides ==
  ASSUME CInv, NEW t \in Threads, Request(t)
  PROVE  publishedTip' = publishedTip
<1>1. CASE \/ \E b \in Blocks \ {Genesis} :
                \/ AcceptHeader(t, b) \/ RejectHeader(t, b)
                \/ \E requested, mutated \in BOOLEAN :
                     \/ IgnoreBlock(t, b, requested) \/ RejectBlock(t, b, requested, mutated)
                     \/ StoreBlock(t, b, requested)
           \/ \E b \in Blocks : PreciousBlock(t, b) \/ Reconsider(t, b)
           \/ \E h \in {Height[b] : b \in Blocks} \ {0} : Prune(t, h)
  <2>1. CsMainFree /\ pc[t] = "idle" /\ (pc' = pc \/ Goto(t, "abc")) /\ tip' = tip
    BY <1>1 DEF AcceptHeader, RejectHeader, IgnoreBlock, RejectBlock, StoreBlock, PreciousBlock,
       Reconsider, Prune, chainVars
  <2>2. CsMainFree'
    BY <2>1 DEF CsMainFree, Goto, InRound, CInv, Inv, TypeOK
  <2> QED BY <2>1, <2>2 DEF publishedTip
<1>2. CASE \E b \in Blocks : InvalidateBegin(t, b)
  <2>1. ChainstateMutexFree /\ pc[t] = "idle" /\ Goto(t, "inv") /\ tip' = tip
    BY <1>2 DEF InvalidateBegin, chainVars
  <2>2. CsMainFree /\ CsMainFree'
    BY <2>1, Alone DEF InRound, CInv
  <2> QED BY <2>1, <2>2 DEF publishedTip
<1> QED BY <1>1, <1>2 DEF Request

\* A step is one of BestChain, or nobody sees it.
LEMMA StepImplements == CInv /\ [Next]_vars => [Chain!Next]_publishedTip
<1> SUFFICES ASSUME CInv, [Next]_vars PROVE Chain!Next \/ publishedTip' = publishedTip
  OBVIOUS
<1>1. CASE \E t \in Threads : Request(t)
  BY <1>1, RequestHides
<1>2. CASE \E t \in Threads : Continue(t)
  BY <1>2, ContinueHides, UnlockActivates, InvalidateStepsBack DEF Chain!Next
<1>3. CASE (\E t \in Threads : Stopped(t)) \/ UNCHANGED vars
  BY <1>3 DEF Stopped, vars, chainVars, abcVars, publishedTip, CsMainFree
<1> QED BY <1>1, <1>2, <1>3 DEF Next

\* ImplementsBestChain: whoever reads the tip while cs_main is free sees a chain that is valid
\* from the genesis block up and that gives way only to one of at least the same work, or
\* by one block to its own parent when an operator invalidates it - however many blocks
\* ActivateBestChain disconnects, connects and finds invalid on the way.
THEOREM BestChainIsImplemented == Spec /\ [][WholeCalls]_vars => ImplementsBestChain
<1>1. Init => Chain!Init
  BY DEF Init, Chain!Init, publishedTip, CsMainFree, InRound
<1> QED BY <1>1, AlwaysCInv, StepImplements, PTL DEF Spec, ImplementsBestChain, Chain!Spec

-----------------------------------------------------------------------------
(* A node that does not prune and whose operators use neither              *)
(* reconsiderblock nor preciousblock.                                      *)

\* It makes none of the calls that WholeCalls rules out.
LEMMA PlainStepsAreWhole ==
  ASSUME PlainNode, Inv, LinkPart
  PROVE  WholeCalls
<1>1. \A t \in Threads : ~InvalidateFails(t) /\ \A b \in Blocks : ~Reconsider(t, b)
  BY NeverMissing DEF PlainNode
<1>2. \A t \in Threads : \A b \in Blocks : ~PreciousBlock(t, b)
  BY DEF PlainNode, PreciousBlock
<1>3. ASSUME NEW t \in Threads, NEW b \in Blocks \ {Genesis}, NEW requested \in BOOLEAN,
             StoreBlock(t, b, requested)
      PROVE  NewlyLinked(b) \cap setBlockIndexCandidates = {}
  <2>1. b \notin validTx
    BY <1>3 DEF StoreBlock, NotProcessed, LinkPart, DataInv
  <2>2. NewlyLinked(b) \cap chainTx = {}
    BY <2>1 DEF NewlyLinked, LinkPart, DataInv, Inv, TypeOK, SubsetsOfIndex
  <2> QED BY <2>2, Known
<1> QED BY <1>1, <1>2, <1>3 DEF WholeCalls

\* So the candidates of such a node are right, its tip is the best at rest and it implements
\* BestChain, whatever its peers send and its operators invalidate.
THEOREM PlainNodesAreRight ==
  ASSUME PlainNode
  PROVE  Spec => /\ []CandidatesRight /\ []QuiescentTipIsBest /\ []PrunedBranchWaits
                 /\ ImplementsBestChain
<1>1. Unpruned
  BY DEF PlainNode
<1>2. Inv /\ LinkPart /\ [Next]_vars => [WholeCalls]_vars
  BY PlainStepsAreWhole
<1>3. Spec => [][WholeCalls]_vars
  BY <1>1, <1>2, InitInv, InitLinks, StepKeeps, StepKeepsLinks, PTL DEF Spec
<1> QED BY <1>3, CandidatesAreRight, TipIsBestAtRest, PrunedBranchIsKept, BestChainIsImplemented, PTL
=============================================================================
