---------------------------- MODULE BlockchainRpc ----------------------------
(***************************************************************************)
(* The long calls of rpc/blockchain.cpp, on RPC threads beside the thread  *)
(* that moves the tip: waitfornewblock, waitforblock and                   *)
(* waitforblockheight, which sleep on a condition variable, and            *)
(* scantxoutset and scanblocks, which read much while the chain moves on   *)
(* and can be watched and aborted by other calls.                          *)
(*                                                                         *)
(* The coins of the database are named by the block they belong to, and    *)
(* the scan of them is Parts steps long, one for each look at the abort    *)
(* flag.  A scan of block filters takes Chunk + 1 heights at a time.       *)
(***************************************************************************)
EXTENDS Integers, FiniteSets, Sequences, SequencesExt

CONSTANTS
  Blocks, NoBlock,
  Height, Ancestor,  \* Height[b]; Ancestor[b][h]: the block at height h of the branch of b
  InitTip,           \* the tip when the node has started
  Threads,           \* RPC threads
  Calls,             \* the calls clients may make, in groups of which a behaviour has one
  NoCall,
  Parts, Chunk,      \* the looks at the abort flag in a coin scan; amount_per_chunk
  MaxMoves, MaxCalls \* bounds

Waits == {"waitfornewblock", "waitforblock", "waitforblockheight"}
Scans == {"scantxoutset", "scanblocks"}

ASSUME RpcAssumption ==
  /\ InitTip \in Blocks /\ NoBlock \notin Blocks
  /\ {Parts, Chunk, MaxMoves, MaxCalls} \subseteq Nat /\ Parts > 0
  /\ NoCall \notin UNION Calls
  /\ \A c \in UNION Calls :
       /\ c.method \in Waits \cup Scans
       /\ c.method = "scanblocks" => c.from \in Int /\ c.to \in Int

ASSUME BranchAssumption ==
  /\ Height \in [Blocks -> Nat]
  /\ \A b \in Blocks : \A h \in 0 .. Height[b] :
       Ancestor[b][h] \in Blocks /\ Height[Ancestor[b][h]] = h

VARIABLES
  clients,       \* the calls clients make
  tip,           \* ActiveChain().Tip()
  dbTip,         \* the block the coins of the database belong to
  notifying,     \* the validation thread, cs_main held: NoBlock, or the tip it has to tell of
  latest,        \* latestblock
  told,          \* latestblock is written, notify_all has not been called
  lockHolder,    \* the waiter that holds cs_blockchange, or NoCall
  running,       \* IsRPCRunning: "yes", "no" once interrupted, "told" after the last notify_all
  inProgress,    \* inProgress[m]: g_scan_in_progress, g_scanfilter_in_progress
  shouldAbort,   \* g_should_abort_scan, g_scanfilter_should_abort_scan
  progress,      \* g_scan_progress; nothing reads the one of scanblocks but its status
  pc, call,      \* what each thread does, and the call it serves
  local,         \* local[t]: what a call has noted or will answer
  moves, calls

chainVars == <<clients, tip, dbTip, notifying, moves>>
noticeVars == <<latest, told, lockHolder, running>>
scanVars == <<inProgress, shouldAbort, progress>>
threadVars == <<pc, call, local, calls>>
vars == <<chainVars, noticeVars, scanVars, threadVars>>

Nothing == [seen |-> NoBlock, parts |-> 0, ranges |-> <<>>, start |-> NoBlock, stop |-> NoBlock,
            success |-> FALSE, answer |-> "none"]

Goto(t, label) == pc' = [pc EXCEPT ![t] = label]
Note(t, note) == local' = [local EXCEPT ![t] = note]
CsMainFree == notifying = NoBlock
-----------------------------------------------------------------------------
Init ==
  /\ clients \in Calls
  /\ tip = InitTip /\ dbTip = InitTip /\ notifying = NoBlock /\ moves = 0
  /\ latest = InitTip /\ told = FALSE /\ lockHolder = NoCall /\ running = "yes"
  /\ inProgress = [m \in Scans |-> FALSE]
  /\ shouldAbort = [m \in Scans |-> FALSE]
  /\ progress = 0
  /\ pc = [t \in Threads |-> "idle"] /\ call = [t \in Threads |-> NoCall]
  /\ local = [t \in Threads |-> Nothing]
  /\ calls = 0

(* A round of ActivateBestChainStep ends on another block; its notification *)
(* is part of the round, under cs_main.                                     *)
MoveTip ==
  /\ CsMainFree /\ moves < MaxMoves
  /\ \E b \in Blocks \ {tip} : tip' = b /\ notifying' = b
  /\ moves' = moves + 1
  /\ UNCHANGED <<clients, dbTip, noticeVars, scanVars, threadVars>>

\* RPCNotifyBlockChange: latestblock under cs_blockchange, then notify_all.
SetLatest_Unlocked ==                                               \* faulty
  /\ notifying # NoBlock /\ ~told
  /\ latest' = notifying /\ told' = TRUE
  /\ UNCHANGED <<chainVars, lockHolder, running, scanVars, threadVars>>

SetLatest ==
  /\ notifying # NoBlock /\ ~told
  /\ lockHolder = NoCall
  /\ latest' = notifying /\ told' = TRUE
  /\ UNCHANGED <<chainVars, lockHolder, running, scanVars, threadVars>>

WakeAll == pc' = [t \in Threads |-> IF pc[t] = "asleep" THEN "woken" ELSE pc[t]]

NotifyAll ==
  /\ told
  /\ told' = FALSE /\ notifying' = NoBlock
  /\ WakeAll
  /\ UNCHANGED <<clients, tip, dbTip, moves, latest, lockHolder, running, scanVars, call, local, calls>>

Waiting(t) == pc[t] \in {"wait", "check", "sleep", "asleep", "woken", "timedOut", "return"}

(* The node stops: the flag is cleared, then RPCNotifyBlockChange(nullptr), *)
(* both without the lock.  Only waiters look at the flag, so that nothing   *)
(* is lost by leaving out a stop without any.                               *)
Interrupt ==
  /\ running = "yes" /\ \E t \in Threads : Waiting(t)
  /\ running' = "no"
  /\ UNCHANGED <<chainVars, latest, told, lockHolder, scanVars, threadVars>>

NotifyStop ==
  /\ running = "no" /\ running' = "told"
  /\ WakeAll
  /\ UNCHANGED <<chainVars, latest, told, lockHolder, scanVars, call, local, calls>>

\* The coins are also flushed for other reasons; only a scan of them can tell.
FlushCoins ==
  /\ CsMainFree /\ dbTip # tip
  /\ \E t \in Threads : pc[t] \in {"openCursor", "scanCoins"}
  /\ dbTip' = tip
  /\ UNCHANGED <<clients, tip, notifying, moves, noticeVars, scanVars, threadVars>>

Receive(t) ==
  /\ pc[t] \in {"idle", "answered"} /\ calls < MaxCalls /\ running = "yes"
  /\ \E c \in clients :
       /\ call' = [call EXCEPT ![t] = c]
       /\ Goto(t, IF c.method \in Waits THEN "wait" ELSE "reserve")
  /\ Note(t, Nothing)
  /\ calls' = calls + 1
  /\ UNCHANGED <<chainVars, noticeVars, scanVars>>
-----------------------------------------------------------------------------
(* The three calls that wait.                                               *)

Method(t) == IF call[t] = NoCall THEN "none" ELSE call[t].method

\* The predicate a waiter sleeps on, for the tip it noted.
Reached(t, block) ==
  CASE Method(t) = "waitfornewblock" -> block # local[t].seen
    [] Method(t) = "waitforblock" -> block = call[t].block
    [] Method(t) = "waitforblockheight" -> Height[block] >= call[t].height
    [] OTHER -> FALSE

\* WAIT_LOCK: cs_blockchange is taken, and latestblock noted.
Lock(t) ==
  /\ pc[t] = "wait" /\ lockHolder = NoCall
  /\ lockHolder' = t
  /\ Note(t, [local[t] EXCEPT !.seen = latest])
  /\ Goto(t, "check")
  /\ UNCHANGED <<chainVars, latest, told, running, scanVars, call, calls>>

\* A waiter that was woken, or whose time is over, has to take the lock again.
Relock(t) ==
  /\ pc[t] \in {"woken", "timedOut"} /\ lockHolder = NoCall
  /\ lockHolder' = t
  /\ Goto(t, IF pc[t] = "woken" THEN "check" ELSE "return")
  /\ UNCHANGED <<chainVars, latest, told, running, scanVars, call, local, calls>>

\* The predicate is evaluated under the lock; sleeping gives it up.
Check(t) ==
  /\ pc[t] = "check"
  /\ Goto(t, IF Reached(t, latest) \/ running # "yes" THEN "return" ELSE "sleep")
  /\ UNCHANGED <<chainVars, noticeVars, scanVars, call, local, calls>>

Sleep(t) ==
  /\ pc[t] = "sleep"
  /\ Goto(t, "asleep")
  /\ lockHolder' = NoCall
  /\ UNCHANGED <<chainVars, latest, told, running, scanVars, call, local, calls>>

TimeOut(t) ==
  /\ pc[t] = "asleep" /\ call[t].timeout
  /\ Goto(t, "timedOut")
  /\ UNCHANGED <<chainVars, noticeVars, scanVars, call, local, calls>>

\* Whatever ended the wait, the call returns latestblock.
Return(t) ==
  /\ pc[t] = "return"
  /\ Note(t, [local[t] EXCEPT !.answer = latest])
  /\ Goto(t, "answered")
  /\ lockHolder' = NoCall
  /\ UNCHANGED <<chainVars, latest, told, running, scanVars, call, calls>>

WaitStep(t) == Lock(t) \/ Relock(t) \/ Check(t) \/ Sleep(t) \/ Return(t)
-----------------------------------------------------------------------------
(* The two scans, one at a time each.                                       *)

Answer(t, answer) == Note(t, [local[t] EXCEPT !.answer = answer])

(* reserve(): the flag is exchanged.  A thread that finds it set has a scan *)
(* to report on, to abort, or to refuse to run beside.                      *)
Exchange(t) ==
  /\ pc[t] = "reserve"
  /\ inProgress' = [inProgress EXCEPT ![Method(t)] = TRUE]
  /\ IF inProgress[Method(t)]
       THEN /\ Goto(t, IF call[t].action = "abort" THEN "setAbort" ELSE "answered")
            /\ Answer(t, IF call[t].action = "start" THEN "refused" ELSE "inProgress")
       ELSE /\ Goto(t, IF Method(t) = "scantxoutset" THEN "checkProgress" ELSE "reserved")
            /\ UNCHANGED local
  /\ UNCHANGED <<chainVars, noticeVars, shouldAbort, progress, call, calls>>

SetAbort(t) ==
  /\ pc[t] = "setAbort"
  /\ shouldAbort' = [shouldAbort EXCEPT ![Method(t)] = TRUE]
  /\ Goto(t, "answered")
  /\ UNCHANGED <<chainVars, noticeVars, inProgress, progress, call, local, calls>>

(* CHECK_NONFATAL(g_scan_progress == 0): when it fails the exception leaves *)
(* the flag set, as the reserver does not count as having reserved.         *)
CheckProgress(t) ==
  /\ pc[t] = "checkProgress"
  /\ IF progress = 0
       THEN Goto(t, "reserved") /\ UNCHANGED local
       ELSE Goto(t, "answered") /\ Answer(t, "internalError")
  /\ UNCHANGED <<chainVars, noticeVars, scanVars, call, calls>>

(* A thread that has reserved knows that no scan runs.  scantxoutset start  *)
(* clears the abort flag before it looks at the chain, scanblocks after.    *)
Reserved(t) ==
  /\ pc[t] = "reserved"
  /\ IF call[t].action # "start" THEN Goto(t, "release") /\ UNCHANGED shouldAbort
     ELSE IF Method(t) = "scanblocks" THEN Goto(t, "chooseRange") /\ UNCHANGED shouldAbort
     ELSE Goto(t, "openCursor") /\ shouldAbort' = [shouldAbort EXCEPT ![Method(t)] = FALSE]
  /\ UNCHANGED <<chainVars, noticeVars, inProgress, progress, call, local, calls>>

\* The destructor of the reserver: the flag first, then the progress.
Release(t) ==
  /\ pc[t] = "release"
  /\ inProgress' = [inProgress EXCEPT ![Method(t)] = FALSE]
  /\ Goto(t, IF Method(t) = "scantxoutset" THEN "resetProgress" ELSE "answered")
  /\ UNCHANGED <<chainVars, noticeVars, shouldAbort, progress, call, local, calls>>

ResetProgress(t) ==
  /\ pc[t] = "resetProgress"
  /\ progress' = 0
  /\ Goto(t, "answered")
  /\ UNCHANGED <<chainVars, noticeVars, inProgress, shouldAbort, call, local, calls>>

(* scantxoutset flushes the coins, opens a cursor on those of the database  *)
(* and notes the tip, all under cs_main.                                    *)
OpenCursor_NoFlush(t) ==                                            \* faulty
  /\ pc[t] = "openCursor" /\ CsMainFree
  /\ progress' = 0
  /\ Note(t, [local[t] EXCEPT !.seen = dbTip, !.stop = tip])
  /\ Goto(t, "scanCoins")
  /\ UNCHANGED <<chainVars, noticeVars, inProgress, shouldAbort, call, calls>>

OpenCursor(t) ==
  /\ pc[t] = "openCursor" /\ CsMainFree
  /\ dbTip' = tip
  /\ progress' = 0
  /\ Note(t, [local[t] EXCEPT !.seen = dbTip', !.stop = tip])
  /\ Goto(t, "scanCoins")
  /\ UNCHANGED <<clients, tip, notifying, moves, noticeVars, inProgress, shouldAbort, call, calls>>

\* FindScriptPubKey: between two parts, and not after the last, it looks at the abort flag.
ScanCoins(t) ==
  /\ pc[t] = "scanCoins"
  /\ LET done == local[t].parts + 1 = Parts
     IN  /\ Note(t, [local[t] EXCEPT !.parts = @ + 1, !.success = done, !.answer = "scanned"])
         /\ Goto(t, IF done \/ shouldAbort[Method(t)] THEN "release" ELSE "scanCoins")
         /\ progress' = IF shouldAbort[Method(t)] /\ ~done THEN progress ELSE local[t].parts + 1
  /\ UNCHANGED <<chainVars, noticeVars, inProgress, shouldAbort, call, calls>>

(* scanblocks takes the range from the active chain: the block at a height, *)
(* or nothing when it has none; up to the tip when no last height is given. *)
ActiveBlock(h) == IF h \in 0 .. Height[tip] THEN Ancestor[tip][h] ELSE NoBlock

ChooseRange(t) ==
  /\ pc[t] = "chooseRange" /\ CsMainFree
  /\ LET from == ActiveBlock(call[t].from)
         to   == IF call[t].to < 0 THEN tip ELSE ActiveBlock(call[t].to)
     IN  IF NoBlock \in {from, to} \/ call[t].from > Height[to]
           THEN Goto(t, "release") /\ Answer(t, "invalidHeight")
           ELSE Goto(t, "clearAbort") /\ Note(t, [local[t] EXCEPT !.start = from, !.stop = to])
  /\ UNCHANGED <<chainVars, noticeVars, scanVars, call, calls>>

ClearAbort(t) ==
  /\ pc[t] = "clearAbort"
  /\ shouldAbort' = [shouldAbort EXCEPT ![Method(t)] = FALSE]
  /\ Goto(t, "scanRange")
  /\ UNCHANGED <<chainVars, noticeVars, inProgress, progress, call, local, calls>>

(* One round of the loop: where it begins and the block it goes up to.  The *)
(* height of that block is looked up on the chain as it is now.             *)
RangeStart_SameBlock(t) == Height[local[t].start]                   \* faulty
RangeStart(t) ==
  IF local[t].ranges = <<>> THEN Height[local[t].start] ELSE Height[local[t].start] + 1

RangeEnd(t) ==
  IF RangeStart(t) + Chunk < Height[local[t].stop]
    THEN ActiveBlock(RangeStart(t) + Chunk) ELSE local[t].stop

(* LookupFilterRange returns the filters from that height up to that block, *)
(* on the branch of that block.  A null block is undefined behaviour: the   *)
(* thread is taken to stop there.                                           *)
ScanRange(t) ==
  /\ pc[t] = "scanRange" /\ ~shouldAbort[Method(t)] /\ CsMainFree
  /\ LET end == RangeEnd(t)
     IN  IF end = NoBlock
           THEN Goto(t, "crashed") /\ UNCHANGED local
           ELSE /\ Goto(t, IF end = local[t].stop THEN "release" ELSE "scanRange")
                /\ Note(t, [local[t] EXCEPT !.start = end, !.success = end = local[t].stop,
                                            !.answer = "scanned",
                                            !.ranges = Append(@, [from |-> RangeStart(t), to |-> end])])
  /\ UNCHANGED <<chainVars, noticeVars, scanVars, call, calls>>

AbortRange(t) ==
  /\ pc[t] = "scanRange" /\ shouldAbort[Method(t)]
  /\ Goto(t, "release") /\ Answer(t, "scanned")
  /\ UNCHANGED <<chainVars, noticeVars, scanVars, call, calls>>

ScanStep(t) ==
  \/ Exchange(t) \/ SetAbort(t) \/ CheckProgress(t) \/ Reserved(t) \/ Release(t)
  \/ ResetProgress(t) \/ OpenCursor(t) \/ ScanCoins(t) \/ ChooseRange(t) \/ ClearAbort(t)
  \/ ScanRange(t) \/ AbortRange(t)

Next ==
  \/ MoveTip \/ SetLatest \/ NotifyAll \/ FlushCoins \/ Interrupt \/ NotifyStop
  \/ \E t \in Threads : Receive(t) \/ WaitStep(t) \/ TimeOut(t) \/ ScanStep(t)

(* The validation thread finishes its round; a waiter gets the lock in the  *)
(* end when nobody holds it any more, and goes on while it has it.          *)
Fairness ==
  /\ WF_vars(SetLatest) /\ WF_vars(NotifyAll)
  /\ \A t \in Threads : WF_vars(Lock(t) \/ Relock(t)) /\ WF_vars(Check(t) \/ Sleep(t) \/ Return(t))

Spec == Init /\ [][Next]_vars /\ Fairness
-----------------------------------------------------------------------------
(* A completed scan of the coins reports the block whose coins it has seen, *)
(* all of them, however the tip and the flushes moved; and two scans of one *)
(* kind never run at a time (scantxoutset, CoinsViewScanReserver,           *)
(* BlockFiltersScanReserver).                                               *)
Working(t) ==
  pc[t] \in {"openCursor", "scanCoins", "chooseRange", "clearAbort", "scanRange", "crashed"}

ScanOfOneTip ==
  /\ \A t \in Threads :
       Method(t) = "scantxoutset" /\ local[t].answer = "scanned" =>
         /\ local[t].seen = local[t].stop
         /\ local[t].success => local[t].parts = Parts
  /\ \A t, u \in Threads : Working(t) /\ Working(u) /\ Method(t) = Method(u) => t = u

(* A completed scan of the filters has taken every height from the first to *)
(* the last exactly once, the last on the branch it was asked for, although *)
(* its ends are looked up on a chain that changes; one that was aborted has *)
(* taken a beginning of them (the loop of scanblocks).                      *)
EachHeightOnce ==
  \A t \in {u \in Threads : Method(u) = "scanblocks" /\ local[u].ranges # <<>>} :
    LET ranges == local[t].ranges
    IN  /\ ranges[1].from = call[t].from
        /\ \A i \in 1 .. Len(ranges) - 1 : ranges[i + 1].from = Height[ranges[i].to] + 1
        /\ \A i \in 1 .. Len(ranges) : ranges[i].from <= Height[ranges[i].to]
        /\ local[t].success => Last(ranges).to = local[t].stop

(* reserve() asserts that nothing of an earlier scan is left when the flag   *)
(* is taken: CHECK_NONFATAL(g_scan_progress == 0).                          *)
ProgressZeroAtReserve == \A t \in Threads : pc[t] = "checkProgress" => progress = 0

(* No waiter sleeps on for ever while latestblock is what it waits for: the *)
(* notification of a block is not lost, whenever it comes                   *)
(* (RPCNotifyBlockChange and the three waiting calls).                      *)
WakesOnBlock ==
  \A t \in Threads : []<>~(Waiting(t) /\ Reached(t, latest))
=============================================================================
