------------------------- MODULE BlockchainRpc_proofs -------------------------
(***************************************************************************)
(* ScanOfOneTip and EachHeightOnce of BlockchainRpc, for every set of      *)
(* threads, of blocks and of calls, however the tip moves, the coins are   *)
(* flushed and the scans are watched and aborted.                          *)
(*                                                                         *)
(* The invariant says of every thread what its call, the label it is at    *)
(* and its notes have to do with each other (Sound), and of two threads    *)
(* only that they do not both hold the flag of one kind of scan.           *)
(***************************************************************************)
EXTENDS BlockchainRpc, TLAPS

WaitLabels == {"wait", "check", "sleep", "asleep", "woken", "timedOut", "return"}
CoinLabels == {"checkProgress", "resetProgress", "openCursor", "scanCoins"}
FilterLabels == {"chooseRange", "clearAbort", "scanRange", "crashed"}
ScanLabels == {"reserve", "setAbort", "reserved", "release"} \cup CoinLabels \cup FilterLabels
Labels == {"idle", "answered"} \cup WaitLabels \cup ScanLabels

Ranges == [from : Int, to : Blocks]

\* The fields of a thread's notes, and the types the proof needs.
Noted(l) ==
  /\ DOMAIN l = {"seen", "parts", "ranges", "start", "stop", "success", "answer"}
  /\ l.parts \in Nat /\ l.ranges \in Seq(Ranges)

MethodOf(c) == IF c = NoCall THEN "none" ELSE c.method

Typed(p, c, l) == p \in Labels /\ c \in (UNION Calls) \cup {NoCall} /\ Noted(l)

\* Which call a thread at some label is in.
InCall(p, c) ==
  /\ p \in WaitLabels => MethodOf(c) \in Waits
  /\ p \in ScanLabels => MethodOf(c) \in Scans
  /\ p \in CoinLabels => MethodOf(c) = "scantxoutset"
  /\ p \in FilterLabels => MethodOf(c) = "scanblocks"

\* What a scan of the coins notes when it opens the cursor it keeps.
CoinScan(p, c, l) ==
  MethodOf(c) = "scantxoutset" =>
    /\ p = "scanCoins" => l.seen = l.stop /\ l.parts < Parts /\ ~l.success
    /\ p \in {"reserve", "checkProgress", "reserved", "openCursor"} => l = Nothing
    /\ l.answer = "scanned" => l.seen = l.stop /\ (l.success => l.parts = Parts)

\* What scanblocks has taken, and that what is left begins above it.
Taken(c, ranges) ==
  /\ Len(ranges) > 0 => ranges[1].from = c.from
  /\ \A i \in 1 .. Len(ranges) - 1 : ranges[i + 1].from = Height[ranges[i].to] + 1
  /\ \A i \in 1 .. Len(ranges) : ranges[i].from <= Height[ranges[i].to]

Left(c, l) ==
  /\ l.start \in Blocks /\ l.stop \in Blocks /\ ~l.success
  /\ IF Len(l.ranges) = 0
       THEN Height[l.start] = c.from /\ Height[l.start] <= Height[l.stop]
       ELSE l.start = l.ranges[Len(l.ranges)].to /\ Height[l.start] < Height[l.stop]

FilterScan(p, c, l) ==
  MethodOf(c) = "scanblocks" =>
    /\ Taken(c, l.ranges)
    /\ p \in {"reserve", "reserved", "chooseRange"} => l = Nothing
    /\ p \in {"clearAbort", "scanRange"} => Left(c, l)
    /\ l.success => Len(l.ranges) > 0 /\ l.ranges[Len(l.ranges)].to = l.stop

Sound(p, c, l) == Typed(p, c, l) /\ InCall(p, c) /\ CoinScan(p, c, l) /\ FilterScan(p, c, l)

\* From reserve() to the destructor of the reserver the flag is set, and a second thread
\* that exchanges it finds it set.
HolderLabels ==
  {"checkProgress", "reserved", "release", "openCursor", "scanCoins"} \cup FilterLabels
Holds(t, m) == pc[t] \in HolderLabels /\ MethodOf(call[t]) = m

Exclusive ==
  \A m \in Scans :
    /\ \A t \in Threads : Holds(t, m) => inProgress[m]
    /\ \A t, u \in Threads : Holds(t, m) /\ Holds(u, m) => t = u

SharedOK ==
  /\ tip \in Blocks /\ clients \in Calls /\ inProgress \in [Scans -> BOOLEAN]
  /\ DOMAIN pc = Threads /\ DOMAIN call = Threads /\ DOMAIN local = Threads

ThreadsSound == \A t \in Threads : Sound(pc[t], call[t], local[t])

Inv == SharedOK /\ ThreadsSound /\ Exclusive

-----------------------------------------------------------------------------
(* One thread.                                                              *)

\* A call that begins has noted nothing.
LEMMA SoundReceive ==
  ASSUME NEW c \in UNION Calls
  PROVE  Sound(IF c.method \in Waits THEN "wait" ELSE "reserve", c, Nothing)
<1> DEFINE p == IF c.method \in Waits THEN "wait" ELSE "reserve"
<1>1. c # NoCall /\ c.method \in Waits \cup Scans /\ MethodOf(c) = c.method
  BY RpcAssumption DEF MethodOf
<1>2. Noted(Nothing) /\ Nothing.answer = "none" /\ Nothing.ranges = <<>> /\ ~Nothing.success
  <2>1. <<>> \in Seq(Ranges)
    OBVIOUS
  <2> QED BY <2>1 DEF Nothing, Noted
<1>3. Typed(p, c, Nothing) /\ InCall(p, c)
  BY <1>1, <1>2 DEF Typed, InCall, Labels, WaitLabels, ScanLabels, CoinLabels, FilterLabels
<1>4. CoinScan(p, c, Nothing) /\ FilterScan(p, c, Nothing)
  BY <1>1, <1>2 DEF CoinScan, FilterScan, Taken
<1> QED BY <1>3, <1>4 DEF Sound

\* A thread goes on to a label at which its notes are held to no more than before.
LEMMA SoundGoto ==
  ASSUME NEW p, NEW q \in Labels, NEW c, NEW l, Sound(p, c, l), InCall(q, c),
         q \in {"reserve", "checkProgress", "reserved", "openCursor", "chooseRange"} =>
           p \in {"reserve", "checkProgress", "reserved", "openCursor"},
         q = "scanCoins" => p = "scanCoins",
         q \in {"clearAbort", "scanRange"} => p \in {"clearAbort", "scanRange"}
  PROVE  Sound(q, c, l)
<1>1. Typed(q, c, l)
  BY DEF Sound, Typed
<1>2. CoinScan(q, c, l)
  BY DEF Sound, CoinScan, InCall, FilterLabels
<1>3. FilterScan(q, c, l)
  BY DEF Sound, FilterScan, InCall, CoinLabels
<1> QED BY <1>1, <1>2, <1>3 DEF Sound

\* A thread notes its answer to a client that waits, or one that says it has not scanned.
LEMMA SoundAnswer ==
  ASSUME NEW p, NEW q \in {"answered", "setAbort", "release"}, NEW c, NEW l, NEW a,
         Sound(p, c, l), InCall(q, c),
         MethodOf(c) \in Waits \/ a # "scanned"
  PROVE  Sound(q, c, [l EXCEPT !.answer = a])
<1>1. Typed(q, c, [l EXCEPT !.answer = a])
  BY DEF Sound, Typed, Noted, Labels, ScanLabels
<1>2. CoinScan(q, c, [l EXCEPT !.answer = a])
  BY DEF Sound, Typed, Noted, CoinScan, Waits
<1>3. FilterScan(q, c, [l EXCEPT !.answer = a])
  BY DEF Sound, Typed, Noted, FilterScan
<1> QED BY <1>1, <1>2, <1>3 DEF Sound

\* A waiter notes the block it sees.
LEMMA SoundLock ==
  ASSUME NEW c, NEW l, NEW b, Sound("wait", c, l)
  PROVE  Sound("check", c, [l EXCEPT !.seen = b])
<1>1. MethodOf(c) \in Waits
  BY DEF Sound, InCall, WaitLabels
<1>2. Typed("check", c, [l EXCEPT !.seen = b]) /\ InCall("check", c)
  BY <1>1 DEF Sound, Typed, Noted, Labels, InCall, WaitLabels, ScanLabels, CoinLabels, FilterLabels
<1>3. CoinScan("check", c, [l EXCEPT !.seen = b]) /\ FilterScan("check", c, [l EXCEPT !.seen = b])
  BY <1>1 DEF CoinScan, FilterScan, Waits
<1> QED BY <1>2, <1>3 DEF Sound

\* The cursor is opened: the block of the coins is the tip that is noted.
LEMMA SoundOpenCursor ==
  ASSUME NEW c, NEW l, NEW b, Sound("openCursor", c, l)
  PROVE  Sound("scanCoins", c, [l EXCEPT !.seen = b, !.stop = b])
<1>1. MethodOf(c) = "scantxoutset" /\ l = Nothing
  BY DEF Sound, InCall, CoinLabels, CoinScan
<1>2. Typed("scanCoins", c, [l EXCEPT !.seen = b, !.stop = b])
  BY DEF Sound, Typed, Noted, Labels, ScanLabels, CoinLabels
<1>3. InCall("scanCoins", c) /\ FilterScan("scanCoins", c, [l EXCEPT !.seen = b, !.stop = b])
  BY <1>1 DEF InCall, WaitLabels, ScanLabels, CoinLabels, FilterLabels, Scans, FilterScan
<1>4. CoinScan("scanCoins", c, [l EXCEPT !.seen = b, !.stop = b])
  BY <1>1, RpcAssumption DEF CoinScan, Nothing
<1> QED BY <1>2, <1>3, <1>4 DEF Sound

\* One more part of the coins is scanned; success means that it was the last one.
PartScanned(l, n, q) ==
  /\ n = [l EXCEPT !.parts = @ + 1, !.success = l.parts + 1 = Parts, !.answer = "scanned"]
  /\ q \in {"release", "scanCoins"}
  /\ l.parts + 1 = Parts => q = "release"

LEMMA SoundScanCoins ==
  ASSUME NEW c, NEW l, NEW n, NEW q, Sound("scanCoins", c, l), PartScanned(l, n, q)
  PROVE  Sound(q, c, n)
<1>1. MethodOf(c) = "scantxoutset" /\ Noted(l) /\ l.seen = l.stop
  BY DEF Sound, Typed, InCall, CoinLabels, CoinScan
<1>2. l.parts < Parts
  BY DEF Sound, InCall, CoinLabels, CoinScan
<1>3. /\ n.seen = l.seen /\ n.stop = l.stop /\ n.parts = l.parts + 1
      /\ n.ranges = l.ranges /\ DOMAIN n = DOMAIN l
  BY <1>1 DEF Noted, PartScanned
<1>4. n.success <=> l.parts + 1 = Parts
  BY <1>1 DEF Noted, PartScanned
<1>5. q \in {"release", "scanCoins"} /\ (l.parts + 1 = Parts => q = "release")
  BY DEF PartScanned
<1>6. l.parts \in Nat /\ Parts \in Nat
  BY <1>1, RpcAssumption DEF Noted
<1>7. l.parts + 1 \in Nat /\ (l.parts + 1 # Parts => l.parts + 1 < Parts)
  BY <1>2, <1>6
<1>8. Noted(n)
  BY <1>1, <1>3, <1>7 DEF Noted
<1>9. Typed(q, c, n) /\ InCall(q, c)
  BY <1>1, <1>8, <1>5 DEF Sound, Typed, Labels, InCall, WaitLabels, ScanLabels, CoinLabels, FilterLabels, Scans
<1>10. CoinScan(q, c, n)
  <2>1. n.seen = n.stop
    BY <1>1, <1>3
  <2>2. q = "scanCoins" => n.parts < Parts
    BY <1>3, <1>7, <1>5
  <2>3. q = "scanCoins" => ~n.success
    BY <1>4, <1>5
  <2>4. n.success => n.parts = Parts
    BY <1>4, <1>3
  <2>5. q \notin {"reserve", "checkProgress", "reserved", "openCursor"}
    BY <1>5
  <2> QED BY <2>1, <2>2, <2>3, <2>4, <2>5 DEF CoinScan
<1>11. FilterScan(q, c, n)
  BY <1>1 DEF FilterScan
<1> QED BY <1>9, <1>10, <1>11 DEF Sound

\* The range that is chosen begins at the height that was asked for and does not end below it.
LEMMA SoundChooseRange ==
  ASSUME NEW c, NEW l, NEW from \in Blocks, NEW to \in Blocks, Sound("chooseRange", c, l),
         Height[from] = c.from, c.from <= Height[to]
  PROVE  Sound("clearAbort", c, [l EXCEPT !.start = from, !.stop = to])
<1> DEFINE n == [l EXCEPT !.start = from, !.stop = to]
<1>1. MethodOf(c) = "scanblocks" /\ l = Nothing /\ Noted(l)
  BY DEF Sound, Typed, InCall, FilterLabels, FilterScan
<1>2. Noted(n) /\ n.start = from /\ n.stop = to /\ ~n.success
  BY <1>1 DEF Noted, Nothing
<1>3. n.ranges = <<>>
  BY <1>1 DEF Noted, Nothing
<1> HIDE DEF n
<1>4. Typed("clearAbort", c, n) /\ InCall("clearAbort", c)
  BY <1>1, <1>2 DEF Sound, Typed, Labels, InCall, WaitLabels, ScanLabels, CoinLabels, FilterLabels, Scans
<1>5. Len(n.ranges) = 0
  BY <1>3
<1>6. Left(c, n)
  BY <1>2, <1>5 DEF Left
<1>7. Taken(c, n.ranges)
  <2> DEFINE k == Len(n.ranges)
  <2>1. k = 0
    BY <1>5
  <2> HIDE DEF k
  <2>2. ~(k > 0) /\ 1 .. k = {} /\ 1 .. k - 1 = {}
    BY <2>1
  <2> QED BY <2>2 DEF Taken, k
<1>8. CoinScan("clearAbort", c, n) /\ FilterScan("clearAbort", c, n)
  BY <1>1, <1>2, <1>6, <1>7 DEF CoinScan, FilterScan
<1> QED BY <1>4, <1>8 DEF Sound, n

\* A scan that is aborted keeps what it has taken.
LEMMA SoundAbortRange ==
  ASSUME NEW c, NEW l, Sound("scanRange", c, l)
  PROVE  Sound("release", c, [l EXCEPT !.answer = "scanned"])
<1> DEFINE n == [l EXCEPT !.answer = "scanned"]
<1>1. MethodOf(c) = "scanblocks" /\ Noted(l) /\ FilterScan("scanRange", c, l)
  BY DEF Sound, Typed, InCall, FilterLabels
<1>2. Noted(n) /\ n.ranges = l.ranges /\ n.success = l.success /\ n.stop = l.stop
  BY <1>1 DEF Noted
<1> HIDE DEF n
<1>3. Typed("release", c, n) /\ InCall("release", c)
  BY <1>1, <1>2 DEF Sound, Typed, Labels, InCall, WaitLabels, ScanLabels, CoinLabels, FilterLabels, Scans
<1>4. CoinScan("release", c, n) /\ FilterScan("release", c, n)
  BY <1>1, <1>2 DEF CoinScan, FilterScan
<1> QED BY <1>3, <1>4 DEF Sound, n

\* What Append does to a sequence.
LEMMA Appended ==
  ASSUME NEW S, NEW s \in Seq(S), NEW e \in S
  PROVE  /\ Append(s, e) \in Seq(S) /\ Len(s) \in Nat /\ Len(Append(s, e)) = Len(s) + 1
         /\ Append(s, e)[Len(s) + 1] = e
         /\ \A i \in 1 .. Len(s) : Append(s, e)[i] = s[i]
         /\ s = <<>> <=> Len(s) = 0
OBVIOUS

\* One more range is taken that begins where the scan goes on and does not end below that.
LEMMA TakenAppend ==
  ASSUME NEW c, NEW l, NEW r \in Ranges, Noted(l), Taken(c, l.ranges), Left(c, l),
         r.from = IF l.ranges = <<>> THEN Height[l.start] ELSE Height[l.start] + 1,
         r.from <= Height[r.to]
  PROVE  Taken(c, Append(l.ranges, r))
<1> DEFINE rs == Append(l.ranges, r)
           k == Len(l.ranges)
<1>1. l.ranges \in Seq(Ranges)
  BY DEF Noted
<1>2. /\ k \in Nat /\ Len(rs) = k + 1 /\ rs[k + 1] = r
      /\ \A i \in 1 .. k : rs[i] = l.ranges[i]
      /\ l.ranges = <<>> <=> k = 0
  BY <1>1, Appended
<1>3. /\ k = 0 => r.from = c.from
      /\ k # 0 => r.from = Height[l.ranges[k].to] + 1
  BY <1>2 DEF Left
<1>4. /\ k > 0 => l.ranges[1].from = c.from
      /\ \A i \in 1 .. k - 1 : l.ranges[i + 1].from = Height[l.ranges[i].to] + 1
      /\ \A i \in 1 .. k : l.ranges[i].from <= Height[l.ranges[i].to]
  BY DEF Taken
<1> HIDE DEF rs, k
<1>5. rs[1].from = c.from
  BY <1>2, <1>3, <1>4
<1>6. ASSUME NEW i \in 1 .. Len(rs) - 1 PROVE rs[i + 1].from = Height[rs[i].to] + 1
  <2>1. CASE i = k
    BY <2>1, <1>2, <1>3
  <2>2. CASE i # k
    <3>1. i \in 1 .. k - 1 /\ i \in 1 .. k /\ i + 1 \in 1 .. k
      BY <2>2, <1>2
    <3> QED BY <3>1, <1>2, <1>4
  <2> QED BY <2>1, <2>2
<1>7. ASSUME NEW i \in 1 .. Len(rs) PROVE rs[i].from <= Height[rs[i].to]
  <2>1. CASE i = k + 1
    BY <2>1, <1>2
  <2>2. CASE i # k + 1
    <3>1. i \in 1 .. k
      BY <2>2, <1>2
    <3> QED BY <3>1, <1>2, <1>4
  <2> QED BY <2>1, <2>2
<1> QED BY <1>5, <1>6, <1>7 DEF Taken, rs

\* One round of scanblocks: the range ends with the last block, or below it.
RangeTaken(l, r, n, q) ==
  /\ n = [l EXCEPT !.start = r.to, !.success = r.to = l.stop, !.answer = "scanned",
                   !.ranges = Append(@, r)]
  /\ q = IF r.to = l.stop THEN "release" ELSE "scanRange"
  /\ r.to # l.stop => Height[r.to] < Height[l.stop]

LEMMA SoundScanRange ==
  ASSUME NEW c, NEW l, NEW r \in Ranges, NEW n, NEW q,
         Sound("scanRange", c, l), RangeTaken(l, r, n, q),
         r.from = IF l.ranges = <<>> THEN Height[l.start] ELSE Height[l.start] + 1,
         r.from <= Height[r.to]
  PROVE  Sound(q, c, n)
<1>1. MethodOf(c) = "scanblocks" /\ Noted(l) /\ Taken(c, l.ranges) /\ Left(c, l)
  BY DEF Sound, Typed, InCall, FilterLabels, FilterScan
<1>2. /\ n.start = r.to /\ n.stop = l.stop
      /\ n.ranges = Append(l.ranges, r) /\ n.parts = l.parts /\ DOMAIN n = DOMAIN l
  BY <1>1 DEF Noted, RangeTaken
<1>3. n.success <=> r.to = l.stop
  BY <1>1 DEF Noted, RangeTaken
<1>4. q \in {"release", "scanRange"} /\ (q = "scanRange" => r.to # l.stop)
  BY DEF RangeTaken
<1>5. r.to # l.stop => Height[r.to] < Height[l.stop]
  BY DEF RangeTaken
<1>6. l.ranges \in Seq(Ranges)
  BY <1>1 DEF Noted
<1>7. /\ Len(n.ranges) = Len(l.ranges) + 1 /\ Len(l.ranges) \in Nat
      /\ n.ranges[Len(l.ranges) + 1] = r /\ n.ranges \in Seq(Ranges)
  BY <1>2, <1>6, Appended
<1>8. Len(n.ranges) > 0 /\ Len(n.ranges) # 0 /\ n.ranges[Len(n.ranges)] = r
  BY <1>7
<1>9. Taken(c, n.ranges)
  BY <1>1, <1>2, TakenAppend
<1>10. Noted(n)
  BY <1>1, <1>2, <1>7 DEF Noted
<1>11. Typed(q, c, n) /\ InCall(q, c)
  BY <1>1, <1>10, <1>4 DEF Sound, Typed, Labels, InCall, WaitLabels, ScanLabels, CoinLabels, FilterLabels, Scans
<1>12. q = "scanRange" => Left(c, n)
  <2>1. r.to \in Blocks /\ l.stop \in Blocks
    BY <1>1 DEF Left, Ranges
  <2>2. ASSUME r.to # l.stop PROVE ~n.success /\ Height[n.start] < Height[n.stop]
    BY <2>2, <1>2, <1>3, <1>5
  <2> QED BY <1>2, <1>8, <2>1, <2>2, <1>4 DEF Left
<1>13. n.success => Len(n.ranges) > 0 /\ n.ranges[Len(n.ranges)].to = n.stop
  BY <1>2, <1>8, <1>3
<1>14. CoinScan(q, c, n)
  BY <1>1 DEF CoinScan
<1>15. FilterScan(q, c, n)
  BY <1>9, <1>4, <1>12, <1>13 DEF FilterScan
<1> QED BY <1>11, <1>14, <1>15 DEF Sound
-----------------------------------------------------------------------------
(* The threads beside each other.                                           *)

\* A step of one thread that gives no scan's flag away and takes none.
LEMMA ThreadGoes ==
  ASSUME Inv, NEW t \in Threads, NEW q, NEW n,
         pc' = [pc EXCEPT ![t] = q], UNCHANGED <<tip, clients, inProgress, call>>,
         local' = [local EXCEPT ![t] = n],
         Sound(q, call[t], n), q \in HolderLabels => pc[t] \in HolderLabels
  PROVE  Inv'
<1>1. DOMAIN pc = Threads /\ DOMAIN call = Threads /\ DOMAIN local = Threads
  BY DEF Inv, SharedOK
<1>2. SharedOK'
  BY <1>1 DEF Inv, SharedOK
<1>3. pc'[t] = q /\ local'[t] = n /\ \A u \in Threads \ {t} : pc'[u] = pc[u] /\ local'[u] = local[u]
  BY <1>1
<1>4. ThreadsSound'
  BY <1>3 DEF Inv, ThreadsSound
<1>5. \A u \in Threads, m \in Scans : Holds(u, m)' => Holds(u, m)
  BY <1>3 DEF Holds
<1>6. Exclusive'
  BY <1>5 DEF Inv, Exclusive
<1> QED BY <1>2, <1>4, <1>6 DEF Inv

\* The same, when it notes nothing.
LEMMA ThreadMoves ==
  ASSUME Inv, NEW t \in Threads, NEW q,
         pc' = [pc EXCEPT ![t] = q], UNCHANGED <<tip, clients, inProgress, call, local>>,
         Sound(q, call[t], local[t]), q \in HolderLabels => pc[t] \in HolderLabels
  PROVE  Inv'
<1>1. pc'[t] = q /\ \A u \in Threads \ {t} : pc'[u] = pc[u]
  BY DEF Inv, SharedOK
<1>2. SharedOK'
  BY DEF Inv, SharedOK
<1>3. ThreadsSound'
  BY <1>1 DEF Inv, ThreadsSound
<1>4. \A u \in Threads, m \in Scans : Holds(u, m)' => Holds(u, m)
  BY <1>1 DEF Holds
<1>5. Exclusive'
  BY <1>4 DEF Inv, Exclusive
<1> QED BY <1>2, <1>3, <1>5 DEF Inv

\* The sleepers are woken.
LEMMA AllWoken ==
  ASSUME Inv, WakeAll, call' = call, local' = local, inProgress' = inProgress
  PROVE  /\ ThreadsSound' /\ Exclusive'
         /\ DOMAIN pc' = Threads /\ DOMAIN call' = Threads /\ DOMAIN local' = Threads
<1>1. DOMAIN pc = Threads /\ DOMAIN call = Threads /\ DOMAIN local = Threads
  BY DEF Inv, SharedOK
<1>2. \A u \in Threads : pc'[u] = IF pc[u] = "asleep" THEN "woken" ELSE pc[u]
  BY DEF WakeAll
<1>3. ASSUME NEW u \in Threads, pc[u] = "asleep" PROVE Sound("woken", call[u], local[u])
  <2>1. Sound("asleep", call[u], local[u])
    BY <1>3 DEF Inv, ThreadsSound
  <2>2. InCall("woken", call[u])
    BY <2>1 DEF Sound, InCall, WaitLabels, ScanLabels, CoinLabels, FilterLabels
  <2> QED BY <2>1, <2>2, SoundGoto DEF Labels, WaitLabels
<1>4. ThreadsSound'
  BY <1>2, <1>3 DEF Inv, ThreadsSound
<1>5. \A u \in Threads, m \in Scans : Holds(u, m)' => Holds(u, m)
  BY <1>2 DEF Holds, HolderLabels, FilterLabels
<1>6. Exclusive'
  BY <1>5 DEF Inv, Exclusive
<1> QED BY <1>1, <1>4, <1>6 DEF WakeAll

\* A step that no thread takes part in.
LEMMA NoThread ==
  ASSUME Inv, pc' = pc, call' = call, local' = local, inProgress' = inProgress
  PROVE  /\ ThreadsSound' /\ Exclusive'
         /\ DOMAIN pc' = Threads /\ DOMAIN call' = Threads /\ DOMAIN local' = Threads
BY DEF Inv, SharedOK, ThreadsSound, Exclusive, Holds

-----------------------------------------------------------------------------
(* The steps of the invariant's preservation, one for each action.         *)

LEMMA MoveTipStep == ASSUME Inv, MoveTip PROVE Inv'
<1>1. SharedOK'
  BY DEF Inv, SharedOK, MoveTip, scanVars, threadVars
<1> QED BY <1>1, NoThread DEF Inv, MoveTip, scanVars, threadVars

LEMMA SharedStep ==
  ASSUME Inv, SetLatest \/ Interrupt \/ FlushCoins
  PROVE  Inv'
<1>1. UNCHANGED <<tip, clients, inProgress, pc, call, local>>
  BY DEF SetLatest, Interrupt, FlushCoins, chainVars, scanVars, threadVars
<1> QED BY <1>1, NoThread DEF Inv, SharedOK

LEMMA WakeStep == ASSUME Inv, NotifyAll \/ NotifyStop PROVE Inv'
<1>1. WakeAll /\ UNCHANGED <<tip, clients, inProgress, call, local>>
  BY DEF NotifyAll, NotifyStop, chainVars, scanVars
<1> QED BY <1>1, AllWoken DEF Inv, SharedOK

LEMMA ReceiveStep == ASSUME Inv, NEW t \in Threads, Receive(t) PROVE Inv'
<1>1. PICK c \in clients :
        /\ call' = [call EXCEPT ![t] = c]
        /\ pc' = [pc EXCEPT ![t] = IF c.method \in Waits THEN "wait" ELSE "reserve"]
  BY DEF Receive, Goto
<1>2. local' = [local EXCEPT ![t] = Nothing] /\ UNCHANGED <<tip, clients, inProgress>>
  BY DEF Receive, Note, chainVars, scanVars
<1>3. c \in UNION Calls
  BY <1>1 DEF Inv, SharedOK
<1>4. SharedOK'
  BY <1>1, <1>2 DEF Inv, SharedOK
<1>5. Sound(pc'[t], call'[t], local'[t])
  BY <1>1, <1>2, <1>3, SoundReceive DEF Inv, SharedOK
<1>6. \A u \in Threads \ {t} : pc'[u] = pc[u] /\ call'[u] = call[u] /\ local'[u] = local[u]
  BY <1>1, <1>2 DEF Inv, SharedOK
<1>7. ThreadsSound'
  BY <1>5, <1>6 DEF Inv, ThreadsSound
<1>8. pc'[t] \in {"wait", "reserve"}
  BY <1>1 DEF Inv, SharedOK
<1>9. \A u \in Threads, m \in Scans : Holds(u, m)' => Holds(u, m)
  BY <1>6, <1>8 DEF Holds, HolderLabels, FilterLabels
<1>10. Exclusive'
  BY <1>2, <1>9 DEF Inv, Exclusive
<1> QED BY <1>4, <1>7, <1>10 DEF Inv

\* What a thread at its label is known to be.
LEMMA Here == ASSUME Inv, NEW t \in Threads PROVE Sound(pc[t], call[t], local[t])
BY DEF Inv, ThreadsSound

LEMMA WaitingStep ==
  ASSUME Inv, NEW t \in Threads, WaitStep(t) \/ TimeOut(t)
  PROVE  Inv'
<1>1. UNCHANGED <<tip, clients, inProgress, call>>
  BY DEF WaitStep, TimeOut, Lock, Relock, Check, Sleep, Return, chainVars, scanVars
<1>2. pc[t] \in WaitLabels
  BY DEF WaitStep, TimeOut, Lock, Relock, Check, Sleep, Return, WaitLabels
<1>3. MethodOf(call[t]) \in Waits
  BY <1>2, Here DEF Sound, InCall
<1>4. ASSUME NEW q \in WaitLabels \cup {"answered"} PROVE q \in Labels /\ q \notin HolderLabels /\ InCall(q, call[t])
  BY <1>3 DEF Labels, WaitLabels, ScanLabels, CoinLabels, FilterLabels, HolderLabels, InCall
<1>5. ASSUME NEW q \in WaitLabels, pc' = [pc EXCEPT ![t] = q], local' = local PROVE Inv'
  <2>1. Sound(q, call[t], local[t])
    BY <1>4, Here, SoundGoto DEF WaitLabels
  <2> QED BY <1>1, <1>4, <1>5, <2>1, ThreadMoves
<1>6. ASSUME NEW q, q \notin HolderLabels, NEW n, Sound(q, call[t], n),
             pc' = [pc EXCEPT ![t] = q], local' = [local EXCEPT ![t] = n]
      PROVE  Inv'
  BY <1>1, <1>6, ThreadGoes
<1>7. CASE Lock(t)
  <2>1. /\ pc[t] = "wait" /\ pc' = [pc EXCEPT ![t] = "check"]
        /\ local' = [local EXCEPT ![t] = [local[t] EXCEPT !.seen = latest]]
    BY <1>7 DEF Lock, Goto, Note
  <2>2. Sound("check", call[t], [local[t] EXCEPT !.seen = latest])
    BY <2>1, Here, SoundLock
  <2>3. "check" \notin HolderLabels
    BY <1>4 DEF WaitLabels
  <2> QED BY <2>1, <2>2, <2>3, <1>6
<1>8. CASE Return(t)
  <2>1. /\ pc' = [pc EXCEPT ![t] = "answered"]
        /\ local' = [local EXCEPT ![t] = [local[t] EXCEPT !.answer = latest]]
    BY <1>8 DEF Return, Goto, Note
  <2>2. Sound("answered", call[t], [local[t] EXCEPT !.answer = latest])
    BY <1>3, <1>4, Here, SoundAnswer
  <2> QED BY <2>1, <2>2, <1>4, <1>6
<1>9. CASE Relock(t) \/ Check(t) \/ Sleep(t) \/ TimeOut(t)
  <2>1. local' = local /\ \E q \in WaitLabels : pc' = [pc EXCEPT ![t] = q]
    BY <1>9 DEF Relock, Check, Sleep, TimeOut, Goto, WaitLabels
  <2> QED BY <2>1, <1>5
<1> QED BY <1>7, <1>8, <1>9 DEF WaitStep

\* A thread at a label of the scans, and what it may go on to.
LEMMA InScan ==
  ASSUME Inv, NEW t \in Threads, pc[t] \in ScanLabels
  PROVE  /\ MethodOf(call[t]) \in Scans /\ Method(t) = MethodOf(call[t])
         /\ \A q \in {"answered", "reserve", "setAbort", "reserved", "release"} :
              q \in Labels /\ InCall(q, call[t])
         /\ pc[t] \in CoinLabels => \A q \in CoinLabels : q \in Labels /\ InCall(q, call[t])
         /\ pc[t] \in FilterLabels => \A q \in FilterLabels : q \in Labels /\ InCall(q, call[t])
<1>1. Sound(pc[t], call[t], local[t])
  BY Here
<1>2. MethodOf(call[t]) \in Scans /\ Method(t) = MethodOf(call[t])
  BY <1>1 DEF Sound, InCall, Method, MethodOf
<1>3. /\ pc[t] \in CoinLabels => MethodOf(call[t]) = "scantxoutset"
      /\ pc[t] \in FilterLabels => MethodOf(call[t]) = "scanblocks"
  BY <1>1 DEF Sound, InCall
<1>4. \A q \in {"answered", "reserve", "setAbort", "reserved", "release"} :
         q \in Labels /\ InCall(q, call[t])
  BY <1>2 DEF Labels, WaitLabels, ScanLabels, CoinLabels, FilterLabels, InCall
<1>5. pc[t] \in CoinLabels => \A q \in CoinLabels : q \in Labels /\ InCall(q, call[t])
  BY <1>2, <1>3 DEF Labels, WaitLabels, ScanLabels, CoinLabels, FilterLabels, InCall
<1>6. pc[t] \in FilterLabels => \A q \in FilterLabels : q \in Labels /\ InCall(q, call[t])
  BY <1>2, <1>3 DEF Labels, WaitLabels, ScanLabels, CoinLabels, FilterLabels, InCall
<1> QED BY <1>2, <1>4, <1>5, <1>6

LEMMA ExchangeStep == ASSUME Inv, NEW t \in Threads, Exchange(t) PROVE Inv'
<1> DEFINE m == MethodOf(call[t])
<1>1. /\ pc[t] = "reserve" /\ m \in Scans /\ Method(t) = m
      /\ Sound("reserve", call[t], local[t])
  BY InScan, Here DEF Exchange, ScanLabels
<1>2. inProgress' = [inProgress EXCEPT ![m] = TRUE] /\ UNCHANGED <<tip, clients, call>>
  BY <1>1 DEF Exchange, chainVars
<1>3. CASE inProgress[m]
  <2>1. PICK q \in {"setAbort", "answered"}, a \in {"refused", "inProgress"} :
          /\ pc' = [pc EXCEPT ![t] = q]
          /\ local' = [local EXCEPT ![t] = [local[t] EXCEPT !.answer = a]]
    BY <1>1, <1>3 DEF Exchange, Goto, Note, Answer
  <2>2. inProgress' = inProgress
    BY <1>1, <1>2, <1>3 DEF Inv, SharedOK
  <2>3. InCall(q, call[t])
    BY <1>1, InScan DEF ScanLabels
  <2>4. Sound(q, call[t], [local[t] EXCEPT !.answer = a])
    BY <1>1, <2>3, SoundAnswer
  <2>5. q \notin HolderLabels
    BY DEF HolderLabels, FilterLabels
  <2> QED BY <1>2, <2>1, <2>2, <2>4, <2>5, ThreadGoes
<1>4. CASE ~inProgress[m]
  <2>1. local' = local /\ pc' = [pc EXCEPT ![t] = IF m = "scantxoutset" THEN "checkProgress" ELSE "reserved"]
    BY <1>1, <1>4 DEF Exchange, Goto
  <2> DEFINE q == IF m = "scantxoutset" THEN "checkProgress" ELSE "reserved"
  <2>2. q \in {"checkProgress", "reserved"} /\ (q = "checkProgress" => m = "scantxoutset")
    OBVIOUS
  <2>3. q \in Labels /\ InCall(q, call[t])
    BY <1>1, <2>2 DEF Labels, WaitLabels, ScanLabels, CoinLabels, FilterLabels, InCall
  <2>4. Sound(q, call[t], local[t])
    BY <1>1, <2>2, <2>3, SoundGoto
  <2>5. pc'[t] = q /\ \A u \in Threads \ {t} : pc'[u] = pc[u]
    BY <2>1 DEF Inv, SharedOK
  <2> HIDE DEF q
  <2>6. SharedOK'
    BY <1>2, <2>1 DEF Inv, SharedOK
  <2>7. ThreadsSound'
    BY <1>2, <2>1, <2>4, <2>5 DEF Inv, ThreadsSound
  <2>8. \A u \in Threads : ~Holds(u, m)
    BY <1>1, <1>4 DEF Inv, Exclusive
  <2>9. \A u \in Threads, k \in Scans : Holds(u, k)' => Holds(u, k) \/ (u = t /\ k = m)
    BY <1>2, <2>5 DEF Holds
  <2>10. inProgress'[m] /\ \A k \in Scans : inProgress[k] => inProgress'[k]
    BY <1>1, <1>2 DEF Inv, SharedOK
  <2>11. Exclusive'
    BY <2>8, <2>9, <2>10 DEF Inv, Exclusive
  <2> QED BY <2>6, <2>7, <2>11 DEF Inv
<1> QED BY <1>3, <1>4

LEMMA ReleaseStep == ASSUME Inv, NEW t \in Threads, Release(t) PROVE Inv'
<1> DEFINE m == MethodOf(call[t])
           q == IF m = "scantxoutset" THEN "resetProgress" ELSE "answered"
<1>1. /\ pc[t] = "release" /\ m \in Scans /\ Method(t) = m
      /\ Sound("release", call[t], local[t])
  BY InScan, Here DEF Release, ScanLabels
<1>2. /\ inProgress' = [inProgress EXCEPT ![m] = FALSE] /\ UNCHANGED <<tip, clients, call, local>>
      /\ pc' = [pc EXCEPT ![t] = q]
  BY <1>1 DEF Release, chainVars, Goto
<1>3. q \in {"resetProgress", "answered"} /\ (q = "resetProgress" => m = "scantxoutset")
  OBVIOUS
<1>4. q \in Labels /\ InCall(q, call[t])
  BY <1>1, <1>3 DEF Labels, WaitLabels, ScanLabels, CoinLabels, FilterLabels, InCall
<1>5. Sound(q, call[t], local[t])
  BY <1>1, <1>3, <1>4, SoundGoto
<1>6. pc'[t] = q /\ \A u \in Threads \ {t} : pc'[u] = pc[u]
  BY <1>2 DEF Inv, SharedOK
<1> HIDE DEF q
<1>7. SharedOK'
  BY <1>2 DEF Inv, SharedOK
<1>8. ThreadsSound'
  BY <1>2, <1>5, <1>6 DEF Inv, ThreadsSound
<1>9. Holds(t, m)
  BY <1>1 DEF Holds, HolderLabels
<1>10. \A u \in Threads, k \in Scans : Holds(u, k)' => Holds(u, k) /\ u # t
  BY <1>2, <1>3, <1>6 DEF Holds, HolderLabels, FilterLabels
<1>11. \A k \in Scans \ {m} : inProgress'[k] = inProgress[k]
  BY <1>2 DEF Inv, SharedOK
<1>12. Exclusive'
  <2>1. \A u \in Threads, k \in Scans : Holds(u, k)' => k # m
    BY <1>1, <1>9, <1>10 DEF Inv, Exclusive
  <2> QED BY <1>10, <1>11, <2>1 DEF Inv, Exclusive
<1> QED BY <1>7, <1>8, <1>12 DEF Inv

\* The steps between which a scan notes nothing.
LEMMA MovesStep ==
  ASSUME Inv, NEW t \in Threads,
         SetAbort(t) \/ Reserved(t) \/ ResetProgress(t) \/ ClearAbort(t)
  PROVE  Inv'
<1>1. UNCHANGED <<tip, clients, inProgress, call, local>>
  BY DEF SetAbort, Reserved, ResetProgress, ClearAbort, chainVars
<1>2. pc[t] \in ScanLabels
  BY DEF SetAbort, Reserved, ResetProgress, ClearAbort, ScanLabels, CoinLabels, FilterLabels
<1>3. ASSUME NEW q, pc' = [pc EXCEPT ![t] = q], Sound(q, call[t], local[t]),
             q \in HolderLabels => pc[t] \in HolderLabels
      PROVE  Inv'
  BY <1>1, <1>3, ThreadMoves
<1>4. CASE SetAbort(t) \/ ResetProgress(t)
  <2>1. pc' = [pc EXCEPT ![t] = "answered"]
    BY <1>4 DEF SetAbort, ResetProgress, Goto
  <2>2. Sound("answered", call[t], local[t])
    BY <1>2, InScan, Here, SoundGoto
  <2> QED BY <2>1, <2>2, <1>3 DEF HolderLabels, FilterLabels
<1>5. CASE Reserved(t)
  <2>1. pc[t] = "reserved" /\ Sound("reserved", call[t], local[t])
    BY <1>5, Here DEF Reserved
  <2>2. CASE pc' = [pc EXCEPT ![t] = "release"]
    <3>1. Sound("release", call[t], local[t])
      BY <1>2, <2>1, InScan, SoundGoto
    <3> QED BY <2>1, <2>2, <3>1, <1>3 DEF HolderLabels
  <2>3. CASE pc' = [pc EXCEPT ![t] = "chooseRange"] /\ Method(t) = "scanblocks"
    <3>1. "chooseRange" \in Labels /\ InCall("chooseRange", call[t])
      BY <1>2, <2>3, InScan DEF Labels, WaitLabels, ScanLabels, CoinLabels, FilterLabels, InCall
    <3>2. Sound("chooseRange", call[t], local[t])
      BY <2>1, <3>1, SoundGoto
    <3> QED BY <2>1, <2>3, <3>2, <1>3 DEF HolderLabels
  <2>4. CASE pc' = [pc EXCEPT ![t] = "openCursor"] /\ Method(t) # "scanblocks"
    <3>1. "openCursor" \in Labels /\ InCall("openCursor", call[t])
      BY <1>2, <2>4, InScan DEF Labels, WaitLabels, ScanLabels, CoinLabels, FilterLabels, InCall, Scans
    <3>2. Sound("openCursor", call[t], local[t])
      BY <2>1, <3>1, SoundGoto
    <3> QED BY <2>1, <2>4, <3>2, <1>3 DEF HolderLabels
  <2> QED BY <1>5, <2>2, <2>3, <2>4 DEF Reserved, Goto
<1>6. CASE ClearAbort(t)
  <2>1. pc[t] = "clearAbort" /\ pc' = [pc EXCEPT ![t] = "scanRange"]
    BY <1>6 DEF ClearAbort, Goto
  <2>2. "scanRange" \in Labels /\ InCall("scanRange", call[t])
    BY <1>2, <2>1, InScan DEF FilterLabels
  <2>3. Sound("scanRange", call[t], local[t])
    BY <2>1, <2>2, Here, SoundGoto
  <2> QED BY <2>1, <2>3, <1>3 DEF HolderLabels, FilterLabels
<1> QED BY <1>4, <1>5, <1>6

LEMMA CheckProgressStep == ASSUME Inv, NEW t \in Threads, CheckProgress(t) PROVE Inv'
<1>1. /\ pc[t] = "checkProgress" /\ UNCHANGED <<tip, clients, inProgress, call>>
      /\ Sound("checkProgress", call[t], local[t])
  BY Here DEF CheckProgress, chainVars, scanVars
<1>2. \A q \in {"answered", "reserved"} : q \in Labels /\ InCall(q, call[t])
  BY <1>1, InScan DEF ScanLabels, CoinLabels
<1>3. CASE progress = 0
  <2>1. pc' = [pc EXCEPT ![t] = "reserved"] /\ local' = local
    BY <1>3 DEF CheckProgress, Goto
  <2>2. Sound("reserved", call[t], local[t])
    BY <1>1, <1>2, SoundGoto
  <2> QED BY <1>1, <2>1, <2>2, ThreadMoves DEF HolderLabels
<1>4. CASE progress # 0
  <2>1. /\ pc' = [pc EXCEPT ![t] = "answered"]
        /\ local' = [local EXCEPT ![t] = [local[t] EXCEPT !.answer = "internalError"]]
    BY <1>4 DEF CheckProgress, Goto, Note, Answer
  <2>2. Sound("answered", call[t], [local[t] EXCEPT !.answer = "internalError"])
    BY <1>1, <1>2, SoundAnswer
  <2>3. "answered" \notin HolderLabels
    BY DEF HolderLabels, FilterLabels
  <2> QED BY <1>1, <2>1, <2>2, <2>3, ThreadGoes
<1> QED BY <1>3, <1>4

LEMMA OpenCursorStep == ASSUME Inv, NEW t \in Threads, OpenCursor(t) PROVE Inv'
<1>1. /\ pc[t] = "openCursor" /\ UNCHANGED <<tip, clients, inProgress, call>>
      /\ pc' = [pc EXCEPT ![t] = "scanCoins"]
      /\ local' = [local EXCEPT ![t] = [local[t] EXCEPT !.seen = tip, !.stop = tip]]
  BY DEF OpenCursor, Goto, Note
<1>2. Sound("scanCoins", call[t], [local[t] EXCEPT !.seen = tip, !.stop = tip])
  BY <1>1, Here, SoundOpenCursor
<1> QED BY <1>1, <1>2, ThreadGoes DEF HolderLabels

LEMMA ScanCoinsStep == ASSUME Inv, NEW t \in Threads, ScanCoins(t) PROVE Inv'
<1>1. /\ pc[t] = "scanCoins" /\ UNCHANGED <<tip, clients, inProgress, call>>
      /\ Sound("scanCoins", call[t], local[t])
  BY Here DEF ScanCoins, chainVars
<1>2. PICK q, n : /\ pc' = [pc EXCEPT ![t] = q] /\ local' = [local EXCEPT ![t] = n]
                  /\ PartScanned(local[t], n, q)
  BY DEF ScanCoins, Goto, Note, PartScanned
<1>3. Sound(q, call[t], n)
  BY <1>1, <1>2, SoundScanCoins
<1> QED BY <1>1, <1>2, <1>3, ThreadGoes DEF HolderLabels

\* A block of the active chain is looked up by its height.
LEMMA ActiveBlockAt ==
  ASSUME tip \in Blocks, NEW h, ActiveBlock(h) # NoBlock
  PROVE  ActiveBlock(h) \in Blocks /\ Height[ActiveBlock(h)] = h
BY BranchAssumption DEF ActiveBlock

LEMMA ChooseRangeStep == ASSUME Inv, NEW t \in Threads, ChooseRange(t) PROVE Inv'
<1>1. /\ pc[t] = "chooseRange" /\ UNCHANGED <<tip, clients, inProgress, call>>
      /\ Sound("chooseRange", call[t], local[t]) /\ tip \in Blocks
  BY Here DEF ChooseRange, chainVars, scanVars, Inv, SharedOK
<1> DEFINE from == ActiveBlock(call[t].from)
           to == IF call[t].to < 0 THEN tip ELSE ActiveBlock(call[t].to)
<1>2. CASE NoBlock \in {from, to} \/ call[t].from > Height[to]
  <2>1. /\ pc' = [pc EXCEPT ![t] = "release"]
        /\ local' = [local EXCEPT ![t] = [local[t] EXCEPT !.answer = "invalidHeight"]]
    BY <1>2 DEF ChooseRange, Goto, Note, Answer
  <2>2. InCall("release", call[t])
    BY <1>1, InScan DEF ScanLabels, FilterLabels
  <2>3. Sound("release", call[t], [local[t] EXCEPT !.answer = "invalidHeight"])
    BY <1>1, <2>2, SoundAnswer
  <2> QED BY <1>1, <2>1, <2>3, ThreadGoes DEF HolderLabels, FilterLabels
<1>3. CASE ~(NoBlock \in {from, to} \/ call[t].from > Height[to])
  <2>1. /\ pc' = [pc EXCEPT ![t] = "clearAbort"]
        /\ local' = [local EXCEPT ![t] = [local[t] EXCEPT !.start = from, !.stop = to]]
    BY <1>3 DEF ChooseRange, Goto, Note
  <2>2. /\ from \in Blocks /\ Height[from] = call[t].from
        /\ to \in Blocks
    BY <1>1, <1>3, ActiveBlockAt
  <2>3. call[t].from <= Height[to]
    <3>1. call[t].from \in Int
      <4>1. MethodOf(call[t]) = "scanblocks" /\ call[t] \in UNION Calls
        BY <1>1, Here DEF Sound, Typed, InCall, FilterLabels, MethodOf
      <4> QED BY <4>1, RpcAssumption DEF MethodOf
    <3>2. Height[to] \in Nat
      BY <2>2, BranchAssumption
    <3> QED BY <1>3, <3>1, <3>2
  <2> HIDE DEF from, to
  <2>4. Sound("clearAbort", call[t], [local[t] EXCEPT !.start = from, !.stop = to])
    BY <1>1, <2>2, <2>3, SoundChooseRange
  <2> QED BY <1>1, <2>1, <2>4, ThreadGoes DEF HolderLabels, FilterLabels
<1> QED BY <1>2, <1>3

LEMMA ScanRangeStep == ASSUME Inv, NEW t \in Threads, ScanRange(t) PROVE Inv'
<1>1. /\ pc[t] = "scanRange" /\ UNCHANGED <<tip, clients, inProgress, call>>
      /\ Sound("scanRange", call[t], local[t]) /\ tip \in Blocks
  BY Here DEF ScanRange, chainVars, scanVars, Inv, SharedOK
<1> DEFINE l == local[t]
           first == RangeStart(t)
           end == RangeEnd(t)
<1>2. CASE end = NoBlock
  <2>1. pc' = [pc EXCEPT ![t] = "crashed"] /\ local' = local
    BY <1>2 DEF ScanRange, Goto
  <2>2. "crashed" \in Labels /\ InCall("crashed", call[t])
    BY <1>1, InScan DEF ScanLabels, FilterLabels
  <2>3. Sound("crashed", call[t], local[t])
    BY <1>1, <2>2, SoundGoto
  <2> QED BY <1>1, <2>1, <2>3, ThreadMoves DEF HolderLabels, FilterLabels
<1>3. CASE end # NoBlock
  <2>1. MethodOf(call[t]) = "scanblocks" /\ Left(call[t], l) /\ Noted(l)
    BY <1>1 DEF Sound, Typed, InCall, FilterLabels, FilterScan
  <2>2. /\ l.start \in Blocks /\ Height[l.start] \in Nat
        /\ l.stop \in Blocks /\ Height[l.stop] \in Nat /\ Chunk \in Nat
    BY <2>1, RpcAssumption, BranchAssumption DEF Left
  <2>3. first = IF l.ranges = <<>> THEN Height[l.start] ELSE Height[l.start] + 1
    BY DEF RangeStart
  <2>4. first \in Nat /\ first <= Height[l.stop]
    <3>1. l.ranges = <<>> <=> Len(l.ranges) = 0
      BY <2>1, Appended DEF Noted
    <3> QED BY <2>1, <2>2, <2>3, <3>1 DEF Left
  <2>5. /\ end \in Blocks /\ first <= Height[end]
        /\ end # l.stop => Height[end] < Height[l.stop]
    <3>1. CASE first + Chunk < Height[l.stop]
      <4>1. end \in Blocks /\ Height[end] = first + Chunk
        BY <1>1, <1>3, <3>1, ActiveBlockAt DEF RangeEnd
      <4> HIDE DEF end, first
      <4> QED BY <2>2, <2>4, <3>1, <4>1
    <3>2. CASE ~(first + Chunk < Height[l.stop])
      BY <2>2, <2>4, <3>2 DEF RangeEnd
    <3> QED BY <3>1, <3>2
  <2> DEFINE r == [from |-> first, to |-> end]
  <2>6. r \in Ranges /\ r.from = first /\ r.to = end
    BY <2>4, <2>5 DEF Ranges
  <2>7. PICK q, n : /\ pc' = [pc EXCEPT ![t] = q] /\ local' = [local EXCEPT ![t] = n]
                    /\ q = IF end = l.stop THEN "release" ELSE "scanRange"
                    /\ n = [l EXCEPT !.start = end, !.success = end = l.stop, !.answer = "scanned",
                                     !.ranges = Append(@, r)]
    BY <1>3 DEF ScanRange, Goto, Note
  <2> HIDE DEF end, first, r
  <2>8. RangeTaken(l, r, n, q)
    BY <2>5, <2>6, <2>7 DEF RangeTaken
  <2>9. Sound(q, call[t], n)
    BY <1>1, <2>3, <2>5, <2>6, <2>8, SoundScanRange
  <2>10. q \in HolderLabels => pc[t] \in HolderLabels
    BY <1>1 DEF HolderLabels, FilterLabels
  <2> QED BY <1>1, <2>7, <2>9, <2>10, ThreadGoes
<1> QED BY <1>2, <1>3

LEMMA AbortRangeStep == ASSUME Inv, NEW t \in Threads, AbortRange(t) PROVE Inv'
<1>1. /\ pc[t] = "scanRange" /\ UNCHANGED <<tip, clients, inProgress, call>>
      /\ pc' = [pc EXCEPT ![t] = "release"]
      /\ local' = [local EXCEPT ![t] = [local[t] EXCEPT !.answer = "scanned"]]
  BY DEF AbortRange, chainVars, scanVars, Goto, Note, Answer
<1>2. Sound("release", call[t], [local[t] EXCEPT !.answer = "scanned"])
  BY <1>1, Here, SoundAbortRange
<1> QED BY <1>1, <1>2, ThreadGoes DEF HolderLabels, FilterLabels
-----------------------------------------------------------------------------
LEMMA InvInit == Init => Inv
<1> SUFFICES ASSUME Init PROVE Inv
  OBVIOUS
<1>1. SharedOK
  BY RpcAssumption DEF Init, SharedOK
<1>2. Sound("idle", NoCall, Nothing)
  <2>1. Noted(Nothing) /\ MethodOf(NoCall) = "none"
    BY DEF Nothing, Noted, MethodOf
  <2> QED BY <2>1 DEF Sound, Typed, InCall, CoinScan, FilterScan, Labels, WaitLabels, ScanLabels,
                      CoinLabels, FilterLabels
<1>3. ThreadsSound
  BY <1>2 DEF Init, ThreadsSound
<1>4. Exclusive
  BY DEF Init, Exclusive, Holds, HolderLabels, FilterLabels
<1> QED BY <1>1, <1>3, <1>4 DEF Inv

LEMMA InvNext == Inv /\ [Next]_vars => Inv'
<1> SUFFICES ASSUME Inv, [Next]_vars PROVE Inv'
  OBVIOUS
<1>1. ASSUME NEW t \in Threads, ScanStep(t) PROVE Inv'
  BY <1>1, ExchangeStep, MovesStep, CheckProgressStep, ReleaseStep, OpenCursorStep, ScanCoinsStep,
     ChooseRangeStep, ScanRangeStep, AbortRangeStep DEF ScanStep
<1>2. CASE UNCHANGED vars
  BY <1>2 DEF vars, chainVars, noticeVars, scanVars, threadVars,
              Inv, SharedOK, ThreadsSound, Exclusive, Holds
<1> QED BY <1>1, <1>2, MoveTipStep, SharedStep, WakeStep, ReceiveStep, WaitingStep DEF Next

\* What the invariant says of the scans.
LEMMA InvScans == Inv => ScanOfOneTip /\ EachHeightOnce
<1> SUFFICES ASSUME Inv PROVE ScanOfOneTip /\ EachHeightOnce
  OBVIOUS
<1>1. \A t \in Threads : Method(t) = MethodOf(call[t]) /\ Sound(pc[t], call[t], local[t])
  BY Here DEF Method, MethodOf
<1>2. ASSUME NEW t \in Threads, Method(t) = "scantxoutset", local[t].answer = "scanned"
      PROVE  local[t].seen = local[t].stop /\ (local[t].success => local[t].parts = Parts)
  BY <1>1, <1>2 DEF Sound, CoinScan
<1>3. ASSUME NEW t \in Threads, NEW u \in Threads, Working(t), Working(u), Method(t) = Method(u)
      PROVE  t = u
  <2>1. pc[t] \in HolderLabels /\ pc[u] \in HolderLabels /\ pc[t] \in ScanLabels
    BY <1>3 DEF Working, HolderLabels, ScanLabels, CoinLabels, FilterLabels
  <2>2. Method(t) \in Scans
    BY <1>1, <2>1 DEF Sound, InCall
  <2> QED BY <1>1, <1>3, <2>1, <2>2 DEF Inv, Exclusive, Holds
<1>4. ScanOfOneTip
  BY <1>2, <1>3 DEF ScanOfOneTip
<1>5. ASSUME NEW t \in Threads, Method(t) = "scanblocks", local[t].ranges # <<>>
      PROVE  LET ranges == local[t].ranges
             IN  /\ ranges[1].from = call[t].from
                 /\ \A i \in 1 .. Len(ranges) - 1 : ranges[i + 1].from = Height[ranges[i].to] + 1
                 /\ \A i \in 1 .. Len(ranges) : ranges[i].from <= Height[ranges[i].to]
                 /\ local[t].success => Last(ranges).to = local[t].stop
  <2>1. FilterScan(pc[t], call[t], local[t]) /\ MethodOf(call[t]) = "scanblocks" /\ Noted(local[t])
    BY <1>1, <1>5 DEF Sound, Typed
  <2>2. Len(local[t].ranges) > 0
    BY <1>5, <2>1 DEF Noted
  <2> QED BY <2>1, <2>2 DEF FilterScan, Taken, Last
<1>6. EachHeightOnce
  BY <1>5 DEF EachHeightOnce
<1> QED BY <1>4, <1>6

(* However the tip moves and the coins are flushed while scantxoutset runs, *)
(* on any chain and with any number of RPC threads, what it reports as      *)
(* scanned are all the coins of the one block it reports.                   *)
THEOREM ScanIsOfOneTip == Spec => []ScanOfOneTip
<1>1. Spec => []Inv
  BY InvInit, InvNext, PTL DEF Spec
<1> QED BY <1>1, InvScans, PTL

(* scanblocks takes every height from the first to the last exactly once,   *)
(* for every range, every size of a chunk and every reorganisation under it.*)
THEOREM HeightsAreTakenOnce == Spec => []EachHeightOnce
<1>1. Spec => []Inv
  BY InvInit, InvNext, PTL DEF Spec
<1> QED BY <1>1, InvScans, PTL
=============================================================================
