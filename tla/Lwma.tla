-------------------------------- MODULE Lwma --------------------------------
(***************************************************************************)
(* Proof of work and the header rules that depend on it: the target every  *)
(* header must carry (pow.cpp), the moment it may carry (validation.cpp,   *)
(* ContextualCheckBlockHeader) and the header the miner fills in           *)
(* (node/miner.cpp, UpdateTime), on one branch of headers under a clock.   *)
(*                                                                         *)
(* A target is a natural number.  nBits is the target it stands for, which *)
(* is why a target is rounded when it is written in a header; an encoding  *)
(* that stands for no target (negative, zero, too large) is a number       *)
(* outside 1 .. PowLimit.  The hash of a header is the number it is        *)
(* compared as.                                                            *)
(***************************************************************************)
EXTENDS Integers, FiniteSets, Sequences, SequencesExt, FiniteSetsExt

CONSTANTS
  Window,      \* LWMA_WINDOW
  Spacing,     \* TARGET_BLOCK_TIME and nPowTargetSpacing
  MedianSpan,  \* the blocks GetMedianTimePast looks at
  MaxFuture,   \* MAX_FUTURE_BLOCK_TIME
  Radix,       \* the base nBits counts the digits of a target in
  PowLimit,    \* consensus.powLimit
  Networks,    \* the values of Consensus::Params considered
  Steps,       \* how far the clock goes at a time
  MaxClock,    \* bound: the clock stops here
  MaxHeight    \* bound: the branch is not longer

ASSUME LwmaAssumption ==
  /\ {Window, Spacing, MedianSpan, MaxFuture, PowLimit, MaxHeight} \subseteq Nat \ {0}
  /\ Radix \in Nat /\ Radix >= 2
  /\ Steps \subseteq Nat \ {0} /\ MaxClock \in Nat
  /\ Networks \subseteq [fPowAllowMinDifficultyBlocks: BOOLEAN, fPowNoRetargeting: BOOLEAN]

VARIABLES
  params,   \* the network of this node
  headers,  \* headers[1] is the genesis block, the last one the tip: [time, target]
  now       \* the adjusted time

lwmaVars == <<params, headers, now>>
-----------------------------------------------------------------------------
(* Consensus::Params of the three networks: testnet and regtest share       *)
(* theirs.                                                                  *)
MainNet == [fPowAllowMinDifficultyBlocks |-> FALSE, fPowNoRetargeting |-> FALSE]
TestNet == [fPowAllowMinDifficultyBlocks |-> TRUE, fPowNoRetargeting |-> TRUE]

(* SetCompact(GetCompact(t)): the three most significant digits of a target *)
(* are kept, two when the first would be taken for a sign.                  *)
Power[n \in Nat] == IF n = 0 THEN 1 ELSE Radix * Power[n - 1]

Digits(t) == CHOOSE s \in 0 .. t : Power[s] > t /\ \A r \in 0 .. s - 1 : Power[r] <= t

Kept(t) == IF Digits(t) > 0 /\ 2 * (t \div Power[Digits(t) - 1]) >= Radix THEN 2 ELSE 3

Compact(t) == IF Digits(t) > Kept(t) THEN t - (t % Power[Digits(t) - Kept(t)]) ELSE t

Height(branch) == Len(branch) - 1

(* CBlockIndex::GetMedianTimePast: what stands in the middle when the times *)
(* are sorted, the later of two in the middle.                              *)
MedianTimePast(branch) ==
  LET span == Max({1, Len(branch) - MedianSpan + 1}) .. Len(branch)
      half == Cardinality(span) \div 2
  IN  CHOOSE t \in {branch[i].time : i \in span} :
        /\ Cardinality({i \in span : branch[i].time < t}) <= half
        /\ Cardinality({i \in span : branch[i].time <= t}) > half
-----------------------------------------------------------------------------
(* The time block i of the window took, 1 being the newest, as the average  *)
(* counts it.                                                               *)
SolveTime_Aberrant(branch, i) ==                                    \* faulty
  LET top  == Len(branch) - i + 1
      took == branch[top].time - branch[top - 1].time
  IN  IF took > 2 * Spacing THEN Spacing ELSE Max({took, 1})
SolveTime(branch, i) ==
  LET top == Len(branch) - i + 1
  IN  Max({Min({branch[top].time - branch[top - 1].time, 2 * Spacing}), 1})

\* The loop over the window adds up f[1], f[2] and so on.
WindowSum(f) ==
  LET upTo[i \in 0 .. Window] == IF i = 0 THEN 0 ELSE upTo[i - 1] + f[i]
  IN  upTo[Window]

Weights == [i \in 1 .. Window |-> i]

\* The average target of the window, as the code sums it: each is divided first.
SumTarget(targets) == WindowSum([i \in 1 .. Window |-> targets[i] \div Window])

WeightedTime(solveTimes) == WindowSum([i \in 1 .. Window |-> solveTimes[i] * Weights[i]])

(* The target that follows a window of targets and solve times, both newest *)
(* first.                                                                   *)
LwmaTarget_OneTooMany(targets, solveTimes) ==                   \* faulty
  LET total    == WindowSum(Weights) + Window + 1
      lwmaTime == Max({WeightedTime(solveTimes) \div total, 1})
      wanted   == Min({(SumTarget(targets) * lwmaTime) \div Spacing, PowLimit})
  IN  Compact(Max({wanted, targets[1] \div 4}))
LwmaTarget(targets, solveTimes) ==
  LET lwmaTime == Max({WeightedTime(solveTimes) \div WindowSum(Weights), 1})
      wanted   == Min({(SumTarget(targets) * lwmaTime) \div Spacing, PowLimit})
  IN  Compact(Max({wanted, targets[1] \div 4}))

WindowTargets(branch) == [i \in 1 .. Window |-> branch[Len(branch) - i + 1].target]
WindowTimes(branch) == [i \in 1 .. Window |-> SolveTime(branch, i)]

LWMACalculateNextWorkRequired(branch) ==
  IF Height(branch) < Window
    THEN Compact(PowLimit)
    ELSE LwmaTarget(WindowTargets(branch), WindowTimes(branch))

\* The target of a header at this time after the branch, on a network.
GetNextWorkRequired(branch, time, net) ==
  IF \/ Height(branch) = 0
     \/ /\ net.fPowAllowMinDifficultyBlocks
        /\ time > Last(branch).time + 2 * Spacing
    THEN Compact(PowLimit)
    ELSE IF net.fPowNoRetargeting
           THEN Last(branch).target
           ELSE LWMACalculateNextWorkRequired(branch)

CheckProofOfWork(header, net) ==
  \/ net.fPowNoRetargeting
  \/ header.target \in 1 .. PowLimit /\ header.hash <= header.target

-----------------------------------------------------------------------------
(* The outcome of AcceptBlockHeader for a header on a branch whose headers  *)
(* are all valid: its own checks, then the checks in its context.           *)
ContextualCheckBlockHeader(branch, header, net, clock) ==
  CASE header.target # GetNextWorkRequired(branch, header.time, net) -> "bad-diffbits"
    [] OTHER ->
         IF header.time <= MedianTimePast(branch) THEN "time-too-old"
         ELSE IF header.time > clock + MaxFuture THEN "time-too-new" ELSE "ok"

AcceptBlockHeader(branch, header, net, clock) ==
  IF ~CheckProofOfWork(header, net)
    THEN "high-hash"
    ELSE ContextualCheckBlockHeader(branch, header, net, clock)

(* UpdateTime: the header of a block template begun when the clock said     *)
(* begun, brought up to date now.                                           *)
UpdateTime_NotPastMedian(branch, begun, net, clock) ==              \* faulty
  LET time == Max({begun, Max({MedianTimePast(branch), clock})})
  IN  [time |-> time, target |-> GetNextWorkRequired(branch, time, net), hash |-> 0]
UpdateTime(branch, begun, net, clock) ==
  LET time == Max({begun, Max({MedianTimePast(branch) + 1, clock})})
  IN  [time |-> time, target |-> GetNextWorkRequired(branch, time, net), hash |-> 0]
-----------------------------------------------------------------------------
LwmaInit ==
  /\ params \in Networks
  /\ headers = << [time |-> 0, target |-> Compact(PowLimit)] >>
  /\ now = 0

\* The headers a peer may offer: every time, a right or a wrong target, a good or a bad hash.
Offered ==
  [time: 0 .. now + MaxFuture + 1,
   target: {0, PowLimit + 1, Compact(PowLimit), Last(headers).target,
            LWMACalculateNextWorkRequired(headers)},
   hash: {0, PowLimit}]

\* A header that passes becomes the tip; any other leaves no trace.
AddHeader ==
  /\ Height(headers) < MaxHeight
  /\ \E header \in Offered :
       /\ AcceptBlockHeader(headers, header, params, now) = "ok"
       /\ headers' = Append(headers, [time |-> header.time, target |-> header.target])
  /\ UNCHANGED <<params, now>>

\* The branch loses its tip: another one is built from its parent.
DropTip ==
  /\ Len(headers) > 1
  /\ headers' = Front(headers)
  /\ UNCHANGED <<params, now>>

Tick ==
  /\ \E step \in Steps : now + step <= MaxClock /\ now' = now + step
  /\ UNCHANGED <<params, headers>>

LwmaNext == AddHeader \/ DropTip \/ Tick

LwmaSpec == LwmaInit /\ [][LwmaNext]_lwmaVars
-----------------------------------------------------------------------------
Retargets == ~params.fPowNoRetargeting /\ Height(headers) >= Window

(* The average is a mean: when every block of a window took the time it     *)
(* should or longer, the next target is no harder than the window's, and    *)
(* when every block took that time or less it is no easier, but for the     *)
(* limits and the rounding (LWMACalculateNextWorkRequired).                 *)
PaceSteersTarget ==
  LET times == WindowTimes(headers)
      mean  == SumTarget(WindowTargets(headers))
      next  == LWMACalculateNextWorkRequired(headers)
  IN  Retargets =>
        /\ (\A i \in 1 .. Window : times[i] >= Spacing) => next >= Compact(Min({mean, PowLimit}))
        /\ (\A i \in 1 .. Window : times[i] <= Spacing) =>
             next <= Compact(Max({mean, Last(headers).target \div 4}))

(* A block that comes later never makes the next one harder, whatever the   *)
(* clamps do to the time it took (LWMACalculateNextWorkRequired).           *)
LaterNeverHarder ==
  LET later == [headers EXCEPT ![Len(headers)].time = @ + 1]
  IN  Retargets =>
        LWMACalculateNextWorkRequired(later) >= LWMACalculateNextWorkRequired(headers)

(* The header of a template for the tip, begun at any moment and brought up *)
(* to date now, is one this node accepts, unless the median of the branch   *)
(* itself is as far in the future as a header may be or the targets came    *)
(* down so far that nothing is left of the next (UpdateTime against         *)
(* ContextualCheckBlockHeader and CheckProofOfWork).                        *)
MinerHeaderAccepted ==
  MedianTimePast(headers) < now + MaxFuture /\ (Retargets => LWMACalculateNextWorkRequired(headers) > 0) =>
    \A begun \in 0 .. now :
      AcceptBlockHeader(headers, UpdateTime(headers, begun, params, now), params, now) = "ok"
=============================================================================
