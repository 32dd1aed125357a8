------------------------------- MODULE Subsidy -------------------------------
(***************************************************************************)
(* The spiral subsidy of consensus/subsidy.cpp: the season table that      *)
(* BuildSeasonTable fills on the first call, and the functions that read   *)
(* it.  Season n lasts F(n) months and pays the reward of season n-1       *)
(* divided by phi, until the supply reaches MAX_MONEY.                     *)
(*                                                                         *)
(* Nothing locks the table.  ConnectBlock and the block assembler call     *)
(* GetBlockSubsidy under cs_main, the thread of CoinStatsIndex and         *)
(* getblockstats call it without.  A thread reads or writes the shared     *)
(* table, its flag, or one entry of it, per step.                          *)
(*                                                                         *)
(* Amounts are in ticks, the unit the real reward_tc is counted in; an     *)
(* Instant is TicksPerInstant ticks.  The division of doubles by PHI is a  *)
(* division of ticks by PhiNum/PhiDen, rounded down.                       *)
(***************************************************************************)
EXTENDS Integers, Sequences

CONSTANTS
  Threads,          \* threads that ask for a subsidy
  CsMainThreads,    \* those of them that hold cs_main while they do
  Heights,          \* the heights they ask about
  FirstReward,      \* 377 TC
  PhiNum, PhiDen,   \* PHI
  TicksPerInstant,
  BLOCKS_PER_MONTH,
  MAX_MONEY_TC,
  MaxSeason         \* the loop's safety stop, 200 in the code

ASSUME ThreadsAssumption == Threads # {} /\ CsMainThreads \subseteq Threads
ASSUME HeightsAssumption == Heights \subseteq Nat
ASSUME RewardAssumption ==
  /\ FirstReward \in Nat /\ TicksPerInstant \in Nat \ {0} /\ FirstReward >= TicksPerInstant
  /\ PhiNum \in Nat /\ PhiDen \in Nat \ {0} /\ PhiNum > PhiDen
ASSUME EmissionAssumption ==
  BLOCKS_PER_MONTH \in Nat \ {0} /\ MAX_MONEY_TC \in Nat /\ MaxSeason \in Nat \ {0}

VARIABLES
  g_table_built,
  g_season_table,
  pc,
  query,            \* nHeight of the call a thread is in
  local,            \* the locals of the loop of BuildSeasonTable
  answer            \* what a thread's last call returned

vars == <<g_table_built, g_season_table, pc, query, local, answer>>

-----------------------------------------------------------------------------
(* The loop of BuildSeasonTable.  F(n) and F(n+1) ride along with the loop  *)
(* variables; the code computes FibonacciN(season) anew in every pass.      *)

LoopStart ==
  [season |-> 1, months |-> 1, nextMonths |-> 1,
   reward_tc |-> FirstReward, total_supply |-> 0, current_block |-> 0]

FullSeason(s) == s.months * BLOCKS_PER_MONTH
Instants(ticks) == ticks \div TicksPerInstant
OverCap(s) == s.total_supply + FullSeason(s) * s.reward_tc > MAX_MONEY_TC

LoopEnds(s) ==
  \/ Instants(s.reward_tc) < 1
  \/ OverCap(s) /\ MAX_MONEY_TC < s.total_supply
  \/ s.season > MaxSeason

\* The last seasons are cut to what is left, but never to less than a block.
ClampedSeason_NotCut(s) == FullSeason(s)          \* faulty: the whole season is paid
ClampedSeason(s) ==
  LET left == (MAX_MONEY_TC - s.total_supply) \div s.reward_tc IN IF left < 1 THEN 1 ELSE left

DurationBlocks(s) == IF OverCap(s) THEN ClampedSeason(s) ELSE FullSeason(s)

SeasonEntry(s) ==
  [season_index |-> s.season,
   start_block |-> s.current_block,
   end_block |-> s.current_block + DurationBlocks(s) - 1,
   reward_instants |-> Instants(s.reward_tc),
   cumulative_supply |-> s.total_supply + DurationBlocks(s) * s.reward_tc]

RewardAfter(s) == (s.reward_tc * PhiDen) \div PhiNum

StartAfter(s) == s.current_block + DurationBlocks(s)

LoopNext(s) ==
  [season |-> s.season + 1, months |-> s.nextMonths, nextMonths |-> s.months + s.nextMonths,
   reward_tc |-> RewardAfter(s),
   total_supply |-> s.total_supply + DurationBlocks(s) * s.reward_tc,
   current_block |-> StartAfter(s)]

-----------------------------------------------------------------------------
(* The functions that read a table. *)

SeasonsAt(table, h) ==
  {i \in 1..Len(table) : h >= table[i].start_block /\ h <= table[i].end_block}
FirstSeasonAt(table, h) ==
  CHOOSE i \in SeasonsAt(table, h) : \A j \in SeasonsAt(table, h) : i <= j

\* The search loop of GetBlockSubsidy: the genesis block and the blocks after the
\* last season are paid nothing.
BlockSubsidy(table, h) ==
  IF h = 0 \/ SeasonsAt(table, h) = {} THEN 0
  ELSE table[FirstSeasonAt(table, h)].reward_instants

\* GetBlockSeason.
BlockSeason(table, h) ==
  IF SeasonsAt(table, h) = {} THEN -1 ELSE table[FirstSeasonAt(table, h)].season_index

\* GetCumulativeSupply: full seasons below h, and the part of the season h is in.
PartOfSeason_OneShort(e, h) == h - e.start_block                      \* faulty
PartOfSeason(e, h) == h - e.start_block + 1
EmittedIn(e, h) ==
  e.reward_instants *
    (IF h >= e.end_block THEN e.end_block - e.start_block + 1
     ELSE IF h >= e.start_block THEN PartOfSeason(e, h) ELSE 0)
CumulativeSupply(table, h) ==
  LET upTo[i \in 0..Len(table)] == IF i = 0 THEN 0 ELSE upTo[i - 1] + EmittedIn(table[i], h)
  IN  upTo[Len(table)]

-----------------------------------------------------------------------------
(* A call of GetBlockSubsidy. *)

Goto(t, label) == pc' = [pc EXCEPT ![t] = label]

\* cs_main is held by the caller over the whole call.
HasCsMain_Unlocked(t) == TRUE                     \* faulty: a caller forgets the lock
HasCsMain(t) ==
  t \in CsMainThreads => \A u \in CsMainThreads \ {t} : pc[u] = "idle"

Call(t, h) ==
  /\ pc[t] = "idle" /\ HasCsMain(t)
  /\ query' = [query EXCEPT ![t] = h]
  /\ Goto(t, "called")
  /\ UNCHANGED <<g_table_built, g_season_table, local, answer>>

\* if (!g_table_built) BuildSeasonTable(): the flag is read here and, on the way to
\* the loop, once more in BuildSeasonTable.
TestFlag(t) ==
  /\ pc[t] \in {"called", "build"}
  /\ Goto(t, IF g_table_built THEN "search" ELSE IF pc[t] = "called" THEN "build" ELSE "set")
  /\ UNCHANGED <<g_table_built, g_season_table, query, local, answer>>

\* g_table_built = true, before there is a table.
SetFlag(t) ==
  /\ pc[t] = "set"
  /\ g_table_built' = TRUE
  /\ g_season_table' = << >>
  /\ local' = [local EXCEPT ![t] = LoopStart]
  /\ Goto(t, "loop")
  /\ UNCHANGED <<query, answer>>

PushSeason(t) ==
  /\ pc[t] = "loop" /\ ~LoopEnds(local[t])
  /\ g_season_table' = Append(g_season_table, SeasonEntry(local[t]))
  /\ local' = [local EXCEPT ![t] = LoopNext(local[t])]
  /\ UNCHANGED <<g_table_built, pc, query, answer>>

EndLoop(t) ==
  /\ pc[t] = "loop" /\ LoopEnds(local[t])
  /\ Goto(t, "search")
  /\ UNCHANGED <<g_table_built, g_season_table, query, local, answer>>

Search(t) ==
  /\ pc[t] = "search"
  /\ answer' = [answer EXCEPT ![t] = BlockSubsidy(g_season_table, query[t])]
  /\ Goto(t, "idle")
  /\ UNCHANGED <<g_table_built, g_season_table, query, local>>

-----------------------------------------------------------------------------
Init ==
  /\ g_table_built = FALSE
  /\ g_season_table = << >>
  /\ pc = [t \in Threads |-> "idle"]
  /\ query = [t \in Threads |-> 0]
  /\ local = [t \in Threads |-> LoopStart]
  /\ answer = [t \in Threads |-> 0]

Step(t) == TestFlag(t) \/ SetFlag(t) \/ PushSeason(t) \/ EndLoop(t) \/ Search(t)

Next == \E t \in Threads : Step(t) \/ \E h \in Heights : Call(t, h)

Spec == Init /\ [][Next]_vars
-----------------------------------------------------------------------------
(* Properties. *)

Labels == {"idle", "called", "build", "set", "loop", "search"}

LoopLocals ==
  [season : 1..(MaxSeason + 1), months : Nat \ {0}, nextMonths : Nat \ {0},
   reward_tc : 0..FirstReward, total_supply : Nat, current_block : Nat]

Entries ==
  [season_index : 1..MaxSeason, start_block : Nat, end_block : Nat,
   reward_instants : 1..Instants(FirstReward), cumulative_supply : Nat]

\* The variables have the types of their declarations; a reward is at least one
\* Instant and at most the first one.
TypeOK ==
  /\ g_table_built \in BOOLEAN
  /\ g_season_table \in Seq(Entries)
  /\ pc \in [Threads -> Labels]
  /\ query \in [Threads -> Heights \cup {0}]
  /\ local \in [Threads -> LoopLocals]
  /\ DOMAIN answer = Threads

\* Nobody searches the table while it is being filled.
TableReadyWhenRead ==
  \A t, u \in Threads : pc[t] = "search" => g_table_built /\ pc[u] \notin {"set", "loop"}

\* Every season starts at the block after the last one of the season before, at 0
\* at first, and pays less: no height has two rewards and none is left out.
SeasonsContiguous ==
  \A i \in 1..Len(g_season_table) :
    /\ g_season_table[i].start_block = IF i = 1 THEN 0 ELSE g_season_table[i - 1].end_block + 1
    /\ g_season_table[i].start_block <= g_season_table[i].end_block
    /\ i > 1 => g_season_table[i].reward_instants <= g_season_table[i - 1].reward_instants

\* The genesis block claims nothing, and what all the others are paid together is at
\* most MAX_MONEY: a season of one block may exceed the cap, by less than the
\* reward that the genesis block forgoes.
EmissionCapped ==
  \A i \in 1..Len(g_season_table) :
    g_season_table[i].cumulative_supply <= MAX_MONEY_TC + FirstReward

Quiet == g_table_built /\ \A t \in Threads : pc[t] \notin {"set", "loop"}

\* GetCumulativeSupply and GetBlockSubsidy read the same table and agree: from any
\* block to the next the supply grows by exactly what that block is paid; and a block
\* is paid if and only if GetBlockSeason knows a season for it.
SupplyFollowsSubsidy ==
  Quiet => \A h \in Heights \ {0} :
    /\ CumulativeSupply(g_season_table, h) - CumulativeSupply(g_season_table, h - 1)
         = BlockSubsidy(g_season_table, h)
    /\ BlockSubsidy(g_season_table, h) > 0 <=> BlockSeason(g_season_table, h) # -1

\* A block whose reward one thread computed is judged by the same reward in every
\* other: two calls for the same height never return different amounts, before and
\* after the table is built.
AnswersAgree ==
  [][\A t \in Threads :
       pc[t] = "search" /\ pc'[t] = "idle" =>
         \A u \in Threads : query[u] = query[t] /\ pc[u] = "idle"
                              => answer[u] = answer'[t]]_vars
=============================================================================
