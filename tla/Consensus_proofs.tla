--------------------------- MODULE Consensus_proofs ---------------------------
(***************************************************************************)
(* What a header must carry and what a miner is paid, the rules that look  *)
(* at the headers alone.  The supply bound of Subsidy for every first      *)
(* reward, every ratio, every month and every cap, whoever builds the      *)
(* table and however often; that no one reads a half built table when all  *)
(* callers hold cs_main; and that the supply is the sum of the rewards.    *)
(* The payments for a vault add up to its fee, for every table of tiers,   *)
(* every set of vaults and every sequence of connections and               *)
(* disconnections.  The difficulty follows the pace of the blocks, and the *)
(* header of a template is accepted, for every window, spacing and radix.  *)
(***************************************************************************)
EXTENDS Subsidy, Vault, Lwma, FiniteSetTheorems, NaturalsInduction, WellFoundedInduction, TLAPS

-----------------------------------------------------------------------------
(* Numbers. *)

\* A set of natural numbers that is not empty has a least element.
LEMMA LeastNatural ==
  ASSUME NEW T, T \subseteq Nat, T # {}
  PROVE  \E x \in T : \A y \in T : x <= y
<1> DEFINE R == {ss \in Nat \X Nat : ss[1] < ss[2]}
<1>1. IsWellFoundedOn(R, Nat)
  BY NatLessThanWellFounded DEF OpToRel
<1>2. PICK x \in T : \A y \in T : ~ (<<y, x>> \in R)
  <2> HIDE DEF R
  <2> QED BY <1>1, WFMin
<1>3. \A y \in T : x <= y
  <2> TAKE y \in T
  <2>1. x \in Nat /\ y \in Nat
    OBVIOUS
  <2>2. ~(y < x)
    <3>1. <<y, x>> \in Nat \X Nat
      BY <2>1
    <3> QED BY <1>2, <3>1
  <2> QED BY <2>1, <2>2
<1> QED BY <1>3

\* Induction over the natural numbers, by the least counterexample.
LEMMA UpByOne ==
  ASSUME NEW Good, 0 \in Good, \A n \in Nat : n \in Good => n + 1 \in Good
  PROVE  Nat \subseteq Good
<1> DEFINE T == Nat \ Good
<1> SUFFICES ASSUME T # {}
             PROVE  FALSE
  OBVIOUS
<1>1. PICK n \in T : \A k \in T : n <= k
  BY LeastNatural
<1>2. n \in Nat /\ n # 0
  OBVIOUS
<1>3. n - 1 \in Nat /\ n - 1 \notin T /\ (n - 1) + 1 = n
  BY <1>1, <1>2
<1> QED BY <1>3

\* Division rounds down, also where the divisor is an amount.
LEMMA DivisionFacts ==
  ASSUME NEW a \in Nat, NEW d \in Nat \ {0}
  PROVE  a \div d \in Nat /\ (a \div d) * d <= a
  BY Z3

LEMMA DivisionMonotone ==
  ASSUME NEW a \in Nat, NEW b \in Nat, a <= b, NEW d \in Nat \ {0}
  PROVE  a \div d <= b \div d
  BY Z3

\* A number is its even shares and a rest.
LEMMA Division ==
  ASSUME NEW a \in Nat, NEW n \in Nat, n > 0
  PROVE  /\ a \div n \in Nat
         /\ a % n \in Nat
         /\ a = n * (a \div n) + (a % n)
<1>1. a \div n \in Int
  BY SMT
<1>2. a % n \in 0 .. n - 1
  BY SMT
<1>3. a = n * (a \div n) + (a % n)
  BY SMT
<1>4. a \div n >= 0
  BY <1>2, <1>3, SMTT(30)
<1> QED
  BY <1>1, <1>2, <1>3, <1>4

-----------------------------------------------------------------------------
(* The table of seasons. *)

\* A pass of the loop keeps the types of its locals, and what it adds to the supply
\* exceeds MAX_MONEY by at most one reward.
LEMMA LoopStep ==
  ASSUME NEW s \in LoopLocals, ~LoopEnds(s)
  PROVE  /\ LoopNext(s) \in LoopLocals /\ SeasonEntry(s) \in Entries
         /\ LoopNext(s).total_supply <= MAX_MONEY_TC + FirstReward
         /\ SeasonEntry(s).cumulative_supply = LoopNext(s).total_supply
         /\ SeasonEntry(s).start_block <= SeasonEntry(s).end_block
         /\ LoopNext(s).current_block = SeasonEntry(s).end_block + 1
         /\ Instants(LoopNext(s).reward_tc) <= SeasonEntry(s).reward_instants
<1> DEFINE r == s.reward_tc
           left == MAX_MONEY_TC - s.total_supply
           d == DurationBlocks(s)
<1>1. /\ s.season \in 1..MaxSeason /\ s.months \in Nat \ {0} /\ s.nextMonths \in Nat \ {0}
      /\ r \in Nat /\ r <= FirstReward /\ s.total_supply \in Nat /\ s.current_block \in Nat
      /\ ~(Instants(r) < 1) /\ ~(OverCap(s) /\ MAX_MONEY_TC < s.total_supply)
  <2>1. /\ s.season \in 1..(MaxSeason + 1) /\ s.months \in Nat \ {0} /\ s.nextMonths \in Nat \ {0}
        /\ r \in 0..FirstReward /\ s.total_supply \in Nat /\ s.current_block \in Nat
    BY DEF LoopLocals
  <2> QED BY <2>1, EmissionAssumption, RewardAssumption DEF LoopEnds
<1>2. r >= 1 /\ Instants(r) \in 1..Instants(FirstReward)
  <2>1. Instants(r) \in Nat /\ Instants(FirstReward) \in Nat
    BY <1>1, DivisionFacts, RewardAssumption DEF Instants
  <2>2. Instants(r) <= Instants(FirstReward)
    BY <1>1, DivisionMonotone, RewardAssumption DEF Instants
  <2>3. r # 0
    BY <1>1, RewardAssumption, 0 \div TicksPerInstant = 0 DEF Instants
  <2> QED BY <1>1, <2>1, <2>2, <2>3
<1>3. FullSeason(s) \in Nat \ {0}
  BY <1>1, EmissionAssumption DEF FullSeason
<1>4. d \in Nat \ {0} /\ d * r \in Nat /\ s.total_supply + d * r <= MAX_MONEY_TC + FirstReward
  <2>1. CASE ~OverCap(s)
    BY <2>1, <1>1, <1>3, EmissionAssumption, RewardAssumption DEF DurationBlocks, OverCap
  <2>2. CASE OverCap(s)
    <3>1. left \in Nat
      BY <2>2, <1>1, EmissionAssumption
    <3>2. left \div r \in Nat /\ (left \div r) * r <= left
      BY <3>1, <1>1, <1>2, DivisionFacts
    <3>3. d = IF left \div r < 1 THEN 1 ELSE left \div r
      BY <2>2 DEF DurationBlocks, ClampedSeason
    <3> HIDE DEF d, r, left
    <3>4. CASE left \div r < 1
      <4>1. d = 1 /\ d * r = r
        BY <3>3, <3>4, <1>1
      <4> QED BY <4>1, <3>1, <1>1, RewardAssumption, EmissionAssumption DEF left
    <3>5. CASE left \div r >= 1
      <4>1. d = left \div r /\ d \in Nat \ {0}
        BY <3>2, <3>3, <3>5
      <4>2. d * r <= left /\ d * r \in Nat
        BY <4>1, <3>2, <1>1
      <4> QED BY <4>1, <4>2, <1>1, RewardAssumption, EmissionAssumption DEF left
    <3> QED BY <3>2, <3>4, <3>5
  <2> QED BY <2>1, <2>2
<1>5. RewardAfter(s) \in 0..FirstReward /\ Instants(RewardAfter(s)) <= Instants(r)
  <2>1. r * PhiDen \in Nat /\ r * PhiDen <= r * PhiNum /\ r * PhiNum \in Nat
    BY <1>1, RewardAssumption
  <2>2. (r * PhiDen) \div PhiNum <= (r * PhiNum) \div PhiNum
    BY <2>1, DivisionMonotone, RewardAssumption
  <2>3. (r * PhiNum) \div PhiNum = r
    BY <1>1, RewardAssumption, Z3
  <2>4. (r * PhiDen) \div PhiNum \in Nat
    BY <2>1, DivisionFacts, RewardAssumption
  <2>5. RewardAfter(s) \in Nat /\ RewardAfter(s) <= r
    BY <2>2, <2>3, <2>4 DEF RewardAfter
  <2> QED BY <2>5, <1>1, DivisionMonotone, RewardAssumption DEF Instants
<1> HIDE DEF d, r, left
<1>6. LoopNext(s) \in LoopLocals
  <2>1. s.season + 1 \in 1..(MaxSeason + 1) /\ s.months + s.nextMonths \in Nat \ {0}
    BY <1>1, EmissionAssumption
  <2>2. s.total_supply + d * r \in Nat /\ s.current_block + d \in Nat
    BY <1>1, <1>4
  <2> QED BY <1>1, <1>5, <2>1, <2>2 DEF LoopNext, LoopLocals, StartAfter, d, r
<1>7. SeasonEntry(s) \in Entries
  <2>1. s.current_block + d - 1 \in Nat /\ s.total_supply + d * r \in Nat
    BY <1>1, <1>4
  <2> QED BY <1>1, <1>2, <2>1 DEF SeasonEntry, Entries, d, r
<1>8. /\ SeasonEntry(s).start_block <= SeasonEntry(s).end_block
      /\ LoopNext(s).current_block = SeasonEntry(s).end_block + 1
  <2>1. s.current_block <= s.current_block + d - 1 /\ s.current_block + d = s.current_block + d - 1 + 1
    BY <1>1, <1>4
  <2> QED BY <2>1 DEF SeasonEntry, LoopNext, StartAfter, d
<1> QED BY <1>4, <1>5, <1>6, <1>7, <1>8 DEF LoopNext, SeasonEntry, d, r

-----------------------------------------------------------------------------
(* The supply, whoever builds the table. *)

SupplyInv == TypeOK /\ EmissionCapped

LEMMA InitSupply == Init => SupplyInv
<1> SUFFICES ASSUME Init PROVE SupplyInv
  OBVIOUS
<1>1. LoopStart \in LoopLocals
  BY RewardAssumption, EmissionAssumption DEF LoopStart, LoopLocals
<1>2. TypeOK
  <2>1. g_table_built \in BOOLEAN
    BY DEF Init
  <2>2. g_season_table \in Seq(Entries)
    BY DEF Init
  <2>3. pc \in [Threads -> Labels] /\ query \in [Threads -> Heights \cup {0}]
        /\ local \in [Threads -> LoopLocals] /\ DOMAIN answer = Threads
    BY <1>1 DEF Init, Labels
  <2> QED BY <2>1, <2>2, <2>3 DEF TypeOK
<1>3. EmissionCapped
  BY DEF Init, EmissionCapped
<1> QED BY <1>2, <1>3 DEF SupplyInv

LEMMA PushKeepsSupply ==
  ASSUME SupplyInv, NEW t \in Threads, PushSeason(t)
  PROVE  SupplyInv'
<1> DEFINE s == local[t]
<1>1. /\ s \in LoopLocals /\ ~LoopEnds(s)
      /\ g_season_table' = Append(g_season_table, SeasonEntry(s))
      /\ local' = [local EXCEPT ![t] = LoopNext(s)]
      /\ UNCHANGED <<g_table_built, pc, query, answer>>
  BY DEF SupplyInv, TypeOK, PushSeason
<1> HIDE DEF s
<1>2. /\ LoopNext(s) \in LoopLocals /\ SeasonEntry(s) \in Entries
      /\ SeasonEntry(s).cumulative_supply <= MAX_MONEY_TC + FirstReward
  BY <1>1, LoopStep
<1>3. TypeOK'
  BY <1>1, <1>2 DEF SupplyInv, TypeOK
<1>4. EmissionCapped'
  <2> SUFFICES ASSUME NEW i \in 1..(Len(g_season_table) + 1)
               PROVE  g_season_table'[i].cumulative_supply <= MAX_MONEY_TC + FirstReward
    BY <1>1 DEF EmissionCapped, SupplyInv, TypeOK
  <2>1. CASE i \in 1..Len(g_season_table)
    BY <2>1, <1>1 DEF EmissionCapped, SupplyInv, TypeOK
  <2>2. CASE i = Len(g_season_table) + 1
    BY <2>2, <1>1, <1>2 DEF SupplyInv, TypeOK
  <2> QED BY <2>1, <2>2 DEF SupplyInv, TypeOK
<1> QED BY <1>3, <1>4 DEF SupplyInv

LEMMA StepKeepsSupply == SupplyInv /\ [Next]_vars => SupplyInv'
<1> SUFFICES ASSUME SupplyInv, [Next]_vars PROVE SupplyInv'
  OBVIOUS
<1> USE DEF SupplyInv
<1>1. ASSUME NEW t \in Threads, NEW h \in Heights, Call(t, h) PROVE SupplyInv'
  BY <1>1 DEF Call, Goto, TypeOK, EmissionCapped, Labels
<1>2. ASSUME NEW t \in Threads, TestFlag(t) PROVE SupplyInv'
  BY <1>2 DEF TestFlag, Goto, TypeOK, EmissionCapped, Labels
<1>3. ASSUME NEW t \in Threads, SetFlag(t) PROVE SupplyInv'
  <2>1. LoopStart \in LoopLocals
    BY RewardAssumption, EmissionAssumption DEF LoopStart, LoopLocals
  <2>2. TypeOK'
    BY <1>3, <2>1 DEF SetFlag, Goto, TypeOK, Labels
  <2>3. EmissionCapped'
    BY <1>3 DEF SetFlag, EmissionCapped
  <2> QED BY <2>2, <2>3
<1>4. ASSUME NEW t \in Threads, PushSeason(t) PROVE SupplyInv'
  BY <1>4, PushKeepsSupply
<1>5. ASSUME NEW t \in Threads, EndLoop(t) PROVE SupplyInv'
  BY <1>5 DEF EndLoop, Goto, TypeOK, EmissionCapped, Labels
<1>6. ASSUME NEW t \in Threads, Search(t) PROVE SupplyInv'
  BY <1>6 DEF Search, Goto, TypeOK, EmissionCapped, Labels
<1>7. CASE UNCHANGED vars
  BY <1>7 DEF vars, TypeOK, EmissionCapped
<1> QED BY <1>1, <1>2, <1>3, <1>4, <1>5, <1>6, <1>7 DEF Next, Step

\* The types hold and the cumulative supply of every season entry is at most
\* MAX_MONEY and one first reward: what is paid above the genesis block stays within
\* MAX_MONEY.  No assumption on cs_main is needed.
THEOREM EmissionIsCapped == Spec => [](TypeOK /\ EmissionCapped)
<1>1. SupplyInv => TypeOK /\ EmissionCapped
  BY DEF SupplyInv
<1> QED BY InitSupply, StepKeepsSupply, <1>1, PTL DEF Spec

-----------------------------------------------------------------------------
(* The table, when every caller holds cs_main. *)

\* One thread at a time is in a call; the flag is set from the loop on.
CallInv ==
  /\ \A t, u \in Threads : pc[t] # "idle" /\ pc[u] # "idle" => t = u
  /\ \A t \in Threads : pc[t] \in {"loop", "search"} => g_table_built

\* The thread in the loop goes on where the last entry ends, and pays no more.
LoopInv ==
  \A t \in Threads : pc[t] = "loop" =>
    LET n == Len(g_season_table) IN
    /\ n = 0 => local[t].current_block = 0
    /\ n > 0 => /\ local[t].current_block = g_season_table[n].end_block + 1
                /\ Instants(local[t].reward_tc) <= g_season_table[n].reward_instants

TableInv == SupplyInv /\ CallInv /\ LoopInv /\ SeasonsContiguous

LEMMA InitTable == Init => TableInv
<1> SUFFICES ASSUME Init PROVE TableInv
  OBVIOUS
<1>1. CallInv /\ LoopInv /\ SeasonsContiguous
  BY DEF Init, CallInv, LoopInv, SeasonsContiguous
<1> QED BY <1>1, InitSupply DEF TableInv

LEMMA PushKeepsTable ==
  ASSUME TableInv, NEW t \in Threads, PushSeason(t)
  PROVE  LoopInv' /\ SeasonsContiguous'
<1> DEFINE s == local[t]
           n == Len(g_season_table)
<1>1. /\ s \in LoopLocals /\ ~LoopEnds(s) /\ pc[t] = "loop"
      /\ g_season_table' = Append(g_season_table, SeasonEntry(s))
      /\ local' = [local EXCEPT ![t] = LoopNext(s)]
      /\ pc' = pc
  BY DEF TableInv, SupplyInv, TypeOK, PushSeason
<1>2. /\ g_season_table \in Seq(Entries) /\ n \in Nat
      /\ local'[t] = LoopNext(s)
      /\ \A u \in Threads : pc[u] = "loop" => u = t
  BY <1>1 DEF TableInv, SupplyInv, TypeOK, CallInv
<1>3. /\ SeasonEntry(s).start_block <= SeasonEntry(s).end_block
      /\ LoopNext(s).current_block = SeasonEntry(s).end_block + 1
      /\ Instants(LoopNext(s).reward_tc) <= SeasonEntry(s).reward_instants
      /\ SeasonEntry(s).start_block = s.current_block
      /\ SeasonEntry(s).reward_instants = Instants(s.reward_tc)
      /\ SeasonEntry(s) \in Entries
  BY <1>1, LoopStep DEF SeasonEntry
<1>4. /\ n = 0 => s.current_block = 0
      /\ n > 0 => /\ s.current_block = g_season_table[n].end_block + 1
                  /\ Instants(s.reward_tc) <= g_season_table[n].reward_instants
  BY <1>1 DEF TableInv, LoopInv
<1> HIDE DEF s, n
<1>5. /\ Len(g_season_table') = n + 1 /\ g_season_table'[n + 1] = SeasonEntry(s)
      /\ \A i \in 1..n : g_season_table'[i] = g_season_table[i]
  BY <1>1, <1>2, <1>3 DEF n
<1>6. LoopInv'
  BY <1>1, <1>2, <1>3, <1>5 DEF LoopInv
<1>7. SeasonsContiguous'
  <2> SUFFICES ASSUME NEW i \in 1..(n + 1)
               PROVE  /\ g_season_table'[i].start_block
                           = IF i = 1 THEN 0 ELSE g_season_table'[i - 1].end_block + 1
                      /\ g_season_table'[i].start_block <= g_season_table'[i].end_block
                      /\ i > 1 => g_season_table'[i].reward_instants
                                    <= g_season_table'[i - 1].reward_instants
    BY <1>5 DEF SeasonsContiguous
  <2>1. CASE i \in 1..n
    <3>1. i > 1 => g_season_table'[i - 1] = g_season_table[i - 1]
      BY <1>2, <1>5, <2>1
    <3>2. i = 1 \/ i > 1
      BY <1>2, <2>1
    <3>3. /\ g_season_table[i].start_block = IF i = 1 THEN 0 ELSE g_season_table[i - 1].end_block + 1
          /\ g_season_table[i].start_block <= g_season_table[i].end_block
          /\ i > 1 => g_season_table[i].reward_instants <= g_season_table[i - 1].reward_instants
      BY <2>1 DEF TableInv, SeasonsContiguous, n
    <3>4. g_season_table'[i] = g_season_table[i]
      BY <1>5, <2>1
    <3> QED BY <3>1, <3>2, <3>3, <3>4
  <2>2. CASE i = n + 1
    <3>1. i > 1 => i - 1 = n /\ n > 0 /\ n \in 1..n
      BY <1>2, <2>2
    <3>2. i = 1 => n = 0
      BY <1>2, <2>2
    <3> QED BY <1>2, <1>3, <1>4, <1>5, <2>2, <3>1, <3>2
  <2> QED BY <1>2, <2>1, <2>2
<1> QED BY <1>6, <1>7

LEMMA StepKeepsTable ==
  ASSUME CsMainThreads = Threads, TableInv, [Next]_vars
  PROVE  TableInv'
<1>0. SupplyInv'
  BY StepKeepsSupply DEF TableInv
<1> USE DEF TableInv
<1>1. ASSUME NEW t \in Threads, NEW h \in Heights, Call(t, h) PROVE TableInv'
  BY <1>0, <1>1 DEF Call, HasCsMain, Goto, CallInv, LoopInv, SeasonsContiguous, SupplyInv, TypeOK
<1>2. ASSUME NEW t \in Threads, TestFlag(t) PROVE TableInv'
  BY <1>0, <1>2 DEF TestFlag, Goto, CallInv, LoopInv, SeasonsContiguous, SupplyInv, TypeOK
<1>3. ASSUME NEW t \in Threads, SetFlag(t) PROVE TableInv'
  <2>1. CallInv'
    BY <1>3 DEF SetFlag, Goto, CallInv, SupplyInv, TypeOK
  <2>2. g_season_table' = << >> /\ local'[t].current_block = 0
    BY <1>3 DEF SetFlag, LoopStart, SupplyInv, TypeOK
  <2>3. \A u \in Threads : pc'[u] = "loop" => u = t
    BY <1>3 DEF SetFlag, Goto, CallInv, SupplyInv, TypeOK
  <2>4. LoopInv' /\ SeasonsContiguous'
    BY <2>2, <2>3 DEF LoopInv, SeasonsContiguous
  <2> QED BY <1>0, <2>1, <2>4
<1>4. ASSUME NEW t \in Threads, PushSeason(t) PROVE TableInv'
  <2>1. CallInv'
    BY <1>4 DEF PushSeason, CallInv
  <2> QED BY <1>0, <1>4, <2>1, PushKeepsTable
<1>5. ASSUME NEW t \in Threads, EndLoop(t) PROVE TableInv'
  BY <1>0, <1>5 DEF EndLoop, Goto, CallInv, LoopInv, SeasonsContiguous, SupplyInv, TypeOK
<1>6. ASSUME NEW t \in Threads, Search(t) PROVE TableInv'
  BY <1>0, <1>6 DEF Search, Goto, CallInv, LoopInv, SeasonsContiguous, SupplyInv, TypeOK
<1>7. CASE UNCHANGED vars
  BY <1>0, <1>7 DEF vars, CallInv, LoopInv, SeasonsContiguous
<1> QED BY <1>1, <1>2, <1>3, <1>4, <1>5, <1>6, <1>7 DEF Next, Step

\* When every caller of GetBlockSubsidy holds cs_main, as ConnectBlock and the block
\* assembler do, nobody searches a table that is being filled, and the table is
\* gapless with rewards that never rise, at any point of its construction.
THEOREM TableIsReady ==
  ASSUME CsMainThreads = Threads
  PROVE  Spec => [](TableReadyWhenRead /\ SeasonsContiguous)
<1>1. Init => TableInv
  BY InitTable
<1>2. TableInv /\ [Next]_vars => TableInv'
  BY StepKeepsTable
<1>3. TableInv => TableReadyWhenRead /\ SeasonsContiguous
  BY DEF TableInv, CallInv, TableReadyWhenRead
<1> QED BY <1>1, <1>2, <1>3, PTL DEF Spec

-----------------------------------------------------------------------------
(* What the readers of a table compute. *)

Gapless(table) ==
  \A i \in 1 .. Len(table) :
    /\ table[i].start_block = IF i = 1 THEN 0 ELSE table[i - 1].end_block + 1
    /\ table[i].start_block <= table[i].end_block

\* What a table holds.
LEMMA EntryFacts ==
  ASSUME NEW table \in Seq(Entries)
  PROVE  /\ Len(table) \in Nat
         /\ \A i \in 1 .. Len(table) :
              /\ table[i].start_block \in Nat /\ table[i].end_block \in Nat
              /\ table[i].season_index \in Nat \ {0} /\ table[i].reward_instants \in Nat \ {0}
<1>1. Len(table) \in Nat /\ \A i \in 1 .. Len(table) : table[i] \in Entries
  OBVIOUS
<1>2. Instants(FirstReward) \in Nat /\ MaxSeason \in Nat
  BY DivisionFacts, RewardAssumption, EmissionAssumption DEF Instants
<1>3. ASSUME NEW e \in Entries
      PROVE  /\ e.start_block \in Nat /\ e.end_block \in Nat
             /\ e.season_index \in Nat \ {0} /\ e.reward_instants \in Nat \ {0}
  BY <1>2 DEF Entries
<1> QED BY <1>1, <1>3

\* A later season begins after an earlier one has ended.
LEMMA LaterSeasons ==
  ASSUME NEW table \in Seq(Entries), Gapless(table), NEW i \in 1 .. Len(table)
  PROVE  \A j \in 1 .. Len(table) : i < j => table[i].end_block < table[j].start_block
<1> DEFINE After(j) == i < j /\ j <= Len(table) => table[i].end_block < table[j].start_block
           Good == {k \in Nat : After(k)}
<1>1. Len(table) \in Nat /\ i \in Nat
  BY EntryFacts
<1>2. 0 \in Good
  BY <1>1
<1>3. ASSUME NEW k \in Nat, k \in Good
      PROVE  k + 1 \in Good
  <2> SUFFICES ASSUME i < k + 1, k + 1 <= Len(table)
               PROVE  table[i].end_block < table[k + 1].start_block
    OBVIOUS
  <2>1. k \in 1 .. Len(table) /\ k + 1 \in 1 .. Len(table) /\ k + 1 # 1 /\ (k + 1) - 1 = k
    BY <1>1
  <2>2. /\ table[k + 1].start_block = table[k].end_block + 1
        /\ table[k].start_block <= table[k].end_block
    BY <2>1 DEF Gapless
  <2>3. i = k \/ table[i].end_block < table[k].start_block
    BY <1>1, <1>3, <2>1
  <2>4. /\ table[i].end_block \in Nat /\ table[k].end_block \in Nat
        /\ table[k].start_block \in Nat
    BY <2>1, EntryFacts
  <2> QED BY <2>2, <2>3, <2>4
<1> HIDE DEF Good
<1>4. Nat \subseteq Good
  BY <1>2, <1>3, UpByOne
<1> QED BY <1>1, <1>4 DEF Good

\* A height is in one season at most.
LEMMA OneSeason ==
  ASSUME NEW table \in Seq(Entries), Gapless(table), NEW h \in Nat,
         NEW i \in SeasonsAt(table, h), NEW j \in SeasonsAt(table, h)
  PROVE  i = j
<1>1. /\ i \in 1 .. Len(table) /\ table[i].start_block <= h /\ h <= table[i].end_block
      /\ j \in 1 .. Len(table) /\ table[j].start_block <= h /\ h <= table[j].end_block
  BY DEF SeasonsAt
<1>2. /\ table[i].start_block \in Nat /\ table[i].end_block \in Nat
      /\ table[j].start_block \in Nat /\ table[j].end_block \in Nat
      /\ i \in Nat /\ j \in Nat
  BY <1>1, EntryFacts
<1>3. ~(i < j)
  BY <1>1, <1>2, LaterSeasons
<1>4. ~(j < i)
  BY <1>1, <1>2, LaterSeasons
<1> QED BY <1>2, <1>3, <1>4

\* Partial sums exist.
LEMMA SumsExist ==
  ASSUME NEW N \in Nat, NEW g \in [1 .. N -> Int]
  PROVE  \E f \in [0 .. N -> Int] : f[0] = 0 /\ \A i \in 1 .. N : f[i] = f[i - 1] + g[i]
<1> DEFINE Sums(n) == \E f \in [0 .. n -> Int] :
                        f[0] = 0 /\ \A i \in 1 .. n : f[i] = f[i - 1] + g[i]
           Good == {n \in Nat : n <= N => Sums(n)}
<1>1. 0 \in Good
  <2> DEFINE f == [i \in 0 .. 0 |-> 0]
  <2>1. f \in [0 .. 0 -> Int] /\ f[0] = 0 /\ 1 .. 0 = {}
    OBVIOUS
  <2> QED BY <2>1
<1>2. ASSUME NEW n \in Nat, n \in Good
      PROVE  n + 1 \in Good
  <2> SUFFICES ASSUME n + 1 <= N
               PROVE  Sums(n + 1)
    <3> HIDE DEF Sums
    <3> QED OBVIOUS
  <2>1. PICK f \in [0 .. n -> Int] : f[0] = 0 /\ \A i \in 1 .. n : f[i] = f[i - 1] + g[i]
    BY <1>2
  <2> DEFINE e == [i \in 0 .. n + 1 |-> IF i <= n THEN f[i] ELSE f[n] + g[n + 1]]
  <2>2. g[n + 1] \in Int /\ f[n] \in Int
    OBVIOUS
  <2>3. e \in [0 .. n + 1 -> Int]
    BY <2>2
  <2>4. e[0] = 0
    BY <2>1
  <2>5. \A i \in 1 .. n + 1 : e[i] = e[i - 1] + g[i]
    <3> TAKE i \in 1 .. n + 1
    <3>1. CASE i <= n
      <4>1. i \in 1 .. n /\ i - 1 \in 0 .. n /\ e[i] = f[i] /\ e[i - 1] = f[i - 1]
        BY <3>1
      <4> QED BY <2>1, <4>1
    <3>2. CASE i = n + 1
      <4>1. e[i] = f[n] + g[n + 1] /\ e[i - 1] = f[n]
        BY <3>2
      <4> QED BY <3>2, <4>1
    <3> QED BY <3>1, <3>2
  <2> HIDE DEF e
  <2> QED BY <2>3, <2>4, <2>5
<1> HIDE DEF Good
<1>3. Nat \subseteq Good
  BY <1>1, <1>2, UpByOne
<1> HIDE DEF Sums
<1>4. Sums(N)
  BY <1>3 DEF Good
<1> QED BY <1>4 DEF Sums

\* What GetCumulativeSupply adds up for one season.
LEMMA EmittedFacts ==
  ASSUME NEW table \in Seq(Entries), Gapless(table), NEW h \in Nat, NEW i \in 1 .. Len(table)
  PROVE  /\ EmittedIn(table[i], h) \in Int
         /\ h # 0 => EmittedIn(table[i], h) - EmittedIn(table[i], h - 1)
                       = IF i \in SeasonsAt(table, h) THEN table[i].reward_instants ELSE 0
<1> DEFINE e == table[i]
           Paid(x) == IF x >= e.end_block THEN e.end_block - e.start_block + 1
                      ELSE IF x >= e.start_block THEN PartOfSeason(e, x) ELSE 0
<1>1. /\ e.start_block \in Nat /\ e.end_block \in Nat /\ e.start_block <= e.end_block
      /\ e.reward_instants \in Nat
  BY EntryFacts DEF Gapless
<1>2. i \in SeasonsAt(table, h) <=> h >= e.start_block /\ h <= e.end_block
  BY DEF SeasonsAt
<1> HIDE DEF e
<1>3. \A x \in Nat : Paid(x) \in Int /\ EmittedIn(e, x) = e.reward_instants * Paid(x)
  BY <1>1 DEF PartOfSeason, EmittedIn
<1>4. h # 0 => Paid(h) = Paid(h - 1) + IF i \in SeasonsAt(table, h) THEN 1 ELSE 0
  BY <1>1, <1>2 DEF PartOfSeason
<1> HIDE DEF Paid
<1>5. \A r \in Nat, x, y \in Int : r * x \in Int /\ r * (x + 1) - r * x = r /\ r * (x + 0) - r * x = 0
  OBVIOUS
<1>6. h # 0 => h - 1 \in Nat
  OBVIOUS
<1>7. ASSUME h # 0
      PROVE  EmittedIn(e, h) - EmittedIn(e, h - 1)
               = IF i \in SeasonsAt(table, h) THEN e.reward_instants ELSE 0
  <2>1. EmittedIn(e, h) = e.reward_instants * Paid(h) /\ EmittedIn(e, h - 1) = e.reward_instants * Paid(h - 1)
    BY <1>3, <1>6, <1>7
  <2>2. Paid(h - 1) \in Int
    BY <1>3, <1>6, <1>7
  <2>3. CASE i \in SeasonsAt(table, h)
    BY <1>1, <1>4, <1>5, <1>7, <2>1, <2>2, <2>3
  <2>4. CASE i \notin SeasonsAt(table, h)
    BY <1>1, <1>4, <1>5, <1>7, <2>1, <2>2, <2>4
  <2> QED BY <2>3, <2>4
<1>8. EmittedIn(e, h) \in Int
  BY <1>1, <1>3, <1>5
<1> QED BY <1>7, <1>8 DEF e

\* GetCumulativeSupply is the last of the partial sums over the seasons.
LEMMA SupplyIsSum ==
  ASSUME NEW table \in Seq(Entries), Gapless(table), NEW h \in Nat
  PROVE  \E f \in [0 .. Len(table) -> Int] :
           /\ f[0] = 0 /\ \A i \in 1 .. Len(table) : f[i] = f[i - 1] + EmittedIn(table[i], h)
           /\ CumulativeSupply(table, h) = f[Len(table)]
<1> DEFINE N == Len(table)
           g == [i \in 1 .. N |-> EmittedIn(table[i], h)]
           Solves(f) == f = [i \in 0 .. N |-> IF i = 0 THEN 0 ELSE f[i - 1] + EmittedIn(table[i], h)]
           upTo == CHOOSE f : Solves(f)
<1>1. N \in Nat /\ g \in [1 .. N -> Int]
  BY EntryFacts, EmittedFacts
<1>2. PICK f \in [0 .. N -> Int] : f[0] = 0 /\ \A i \in 1 .. N : f[i] = f[i - 1] + g[i]
  <2> HIDE DEF g, N
  <2> QED BY <1>1, SumsExist
<1>3. Solves(f)
  <2>1. \A i \in 0 .. N : f[i] = IF i = 0 THEN 0 ELSE f[i - 1] + EmittedIn(table[i], h)
    BY <1>1, <1>2
  <2> QED BY <2>1
<1>4. Solves(upTo)
  BY <1>3
<1>5. CumulativeSupply(table, h) = upTo[N]
  BY DEF CumulativeSupply
<1> HIDE DEF upTo
<1>6. /\ DOMAIN upTo = 0 .. N /\ upTo[0] = 0
      /\ \A i \in 1 .. N : upTo[i] = upTo[i - 1] + EmittedIn(table[i], h)
  BY <1>1, <1>4
<1>7. upTo \in [0 .. N -> Int]
  <2> DEFINE Good == {k \in Nat : k <= N => upTo[k] \in Int}
  <2>1. 0 \in Good
    BY <1>6
  <2>2. ASSUME NEW k \in Nat, k \in Good
        PROVE  k + 1 \in Good
    <3> SUFFICES ASSUME k + 1 <= N
                 PROVE  upTo[k + 1] \in Int
      OBVIOUS
    <3>1. k + 1 \in 1 .. N /\ (k + 1) - 1 = k /\ upTo[k] \in Int
      BY <1>1, <2>2
    <3>2. EmittedIn(table[k + 1], h) \in Int
      BY <3>1, EmittedFacts
    <3>3. upTo[k + 1] = upTo[k] + EmittedIn(table[k + 1], h)
      BY <1>6, <3>1
    <3> QED BY <3>1, <3>2, <3>3
  <2> HIDE DEF Good
  <2>3. Nat \subseteq Good
    BY <2>1, <2>2, UpByOne
  <2>4. \A k \in 0 .. N : upTo[k] \in Int
    BY <1>1, <2>3 DEF Good
  <2>5. upTo = [k \in 0 .. N |-> upTo[k]]
    BY <1>4
  <2> QED BY <2>4, <2>5
<1> QED BY <1>5, <1>6, <1>7

\* From one height to the next the supply grows by what the block there is paid.
LEMMA OneBlockMore ==
  ASSUME NEW table \in Seq(Entries), Gapless(table), NEW h \in Nat \ {0}
  PROVE  /\ CumulativeSupply(table, h) - CumulativeSupply(table, h - 1) = BlockSubsidy(table, h)
         /\ BlockSubsidy(table, h) > 0 <=> BlockSeason(table, h) # -1
<1> DEFINE N == Len(table)
           S == SeasonsAt(table, h)
<1>1. N \in Nat /\ h - 1 \in Nat /\ h \in Nat /\ S \subseteq 1 .. N
  BY EntryFacts DEF SeasonsAt
<1>2. PICK f \in [0 .. N -> Int] :
        /\ f[0] = 0 /\ \A i \in 1 .. N : f[i] = f[i - 1] + EmittedIn(table[i], h)
        /\ CumulativeSupply(table, h) = f[N]
  BY <1>1, SupplyIsSum
<1>3. PICK e \in [0 .. N -> Int] :
        /\ e[0] = 0 /\ \A i \in 1 .. N : e[i] = e[i - 1] + EmittedIn(table[i], h - 1)
        /\ CumulativeSupply(table, h - 1) = e[N]
  BY <1>1, SupplyIsSum
<1>4. \A i \in 1 .. N :
        /\ EmittedIn(table[i], h) \in Int /\ EmittedIn(table[i], h - 1) \in Int
        /\ EmittedIn(table[i], h) - EmittedIn(table[i], h - 1)
             = IF i \in S THEN table[i].reward_instants ELSE 0
        /\ table[i].reward_instants \in Nat \ {0} /\ table[i].season_index \in Nat \ {0}
  BY <1>1, EmittedFacts, EntryFacts
<1> DEFINE Gain(k) == \E i \in S : i <= k
           Is(k, d) == IF Gain(k) THEN \A i \in S : d = table[i].reward_instants ELSE d = 0
           Good == {k \in Nat : k <= N => Is(k, f[k] - e[k])}
<1>5. \A i, j \in S : i = j
  BY <1>1, OneSeason
<1> HIDE DEF S
<1>6. 0 \in Good
  BY <1>1, <1>2, <1>3
<1>7. ASSUME NEW k \in Nat, k \in Good
      PROVE  k + 1 \in Good
  <2> SUFFICES ASSUME k + 1 <= N
               PROVE  Is(k + 1, f[k + 1] - e[k + 1])
    OBVIOUS
  <2>1. k + 1 \in 1 .. N /\ (k + 1) - 1 = k /\ f[k] \in Int /\ e[k] \in Int /\ Is(k, f[k] - e[k])
    BY <1>1, <1>7
  <2>2. f[k + 1] - e[k + 1]
          = (f[k] - e[k]) + IF k + 1 \in S THEN table[k + 1].reward_instants ELSE 0
    BY <1>2, <1>3, <1>4, <2>1
  <2>3. CASE k + 1 \in S
    <3>1. ~Gain(k) /\ Gain(k + 1)
      BY <1>1, <1>5, <2>3
    <3>2. f[k] - e[k] = 0 /\ table[k + 1].reward_instants \in Nat
      BY <1>4, <2>1, <3>1
    <3>3. f[k + 1] - e[k + 1] = table[k + 1].reward_instants
      BY <2>2, <2>3, <3>2
    <3>4. \A i \in S : i = k + 1
      BY <1>5, <2>3
    <3> QED BY <3>1, <3>3, <3>4
  <2>4. CASE k + 1 \notin S
    <3>1. Gain(k + 1) <=> Gain(k)
      BY <1>1, <2>4
    <3> QED BY <2>1, <2>2, <2>4, <3>1
  <2> QED BY <2>3, <2>4
<1> HIDE DEF Good
<1>8. Nat \subseteq Good
  BY <1>6, <1>7, UpByOne
<1>9. Is(N, f[N] - e[N])
  BY <1>1, <1>8 DEF Good
<1>10. CASE S = {}
  <2>1. f[N] - e[N] = 0
    BY <1>9, <1>10
  <2>2. BlockSubsidy(table, h) = 0 /\ BlockSeason(table, h) = -1
    BY <1>10 DEF BlockSubsidy, BlockSeason, S
  <2> QED BY <1>2, <1>3, <2>1, <2>2
<1>11. CASE S # {}
  <2>1. PICK i \in S : TRUE
    BY <1>11
  <2>2. Gain(N) /\ f[N] - e[N] = table[i].reward_instants
    BY <1>1, <1>9, <2>1
  <2>3. FirstSeasonAt(table, h) = i
    <3>1. \A j \in S : i <= j
      BY <1>1, <1>5
    <3> QED BY <1>5, <3>1 DEF FirstSeasonAt, S
  <2>4. BlockSubsidy(table, h) = table[i].reward_instants /\ BlockSeason(table, h) = table[i].season_index
    BY <1>11, <2>3 DEF BlockSubsidy, BlockSeason, S
  <2>5. table[i].reward_instants > 0 /\ table[i].season_index # -1
    BY <1>1, <1>4, <2>1
  <2> QED BY <1>2, <1>3, <2>2, <2>4, <2>5
<1> QED BY <1>10, <1>11

\* When every caller holds cs_main, GetCumulativeSupply grows from any block to the next by
\* exactly what GetBlockSubsidy pays that block, and a block is paid if and only if
\* GetBlockSeason knows a season for it, at every height and not only at the seams.
THEOREM SupplyIsWhatIsPaid ==
  ASSUME CsMainThreads = Threads
  PROVE  Spec => []SupplyFollowsSubsidy
<1>1. TableInv => SupplyFollowsSubsidy
  <2> SUFFICES ASSUME TableInv, NEW h \in Heights \ {0}
               PROVE  /\ CumulativeSupply(g_season_table, h) - CumulativeSupply(g_season_table, h - 1)
                           = BlockSubsidy(g_season_table, h)
                      /\ BlockSubsidy(g_season_table, h) > 0 <=> BlockSeason(g_season_table, h) # -1
    BY DEF SupplyFollowsSubsidy
  <2>1. g_season_table \in Seq(Entries) /\ Gapless(g_season_table)
    BY DEF TableInv, SupplyInv, TypeOK, SeasonsContiguous, Gapless
  <2>2. h \in Nat \ {0}
    BY HeightsAssumption
  <2> QED BY <2>1, <2>2, OneBlockMore
<1>2. Init => TableInv
  BY InitTable
<1>3. TableInv /\ [Next]_vars => TableInv'
  BY StepKeepsTable
<1> QED BY <1>1, <1>2, <1>3, PTL DEF Spec

-----------------------------------------------------------------------------
(* The blocks among which the fee of a vault is shared, and what they have  *)
(* been paid together when the tip is at height h.                          *)
Share(info) == info.unlock_block - info.lock_start_block + 1
Base(info) == info.fee_instants \div Share(info)

Owed(info, h) ==
  IF h >= info.unlock_block
    THEN info.fee_instants
    ELSE Base(info) * (h - info.lock_start_block + 1)

(* The vaults there are begin on the chain and end after they begin, and    *)
(* what was paid for each is what is owed at this height.                   *)
VaultShape ==
  /\ height \in Nat
  /\ vaults \in [Vaults -> VaultInfos \cup {NoVault}]
  /\ paid \in [Vaults -> Int]
  /\ \A v \in Vaults : vaults[v] # NoVault =>
       vaults[v].lock_start_block <= height /\ vaults[v].lock_start_block < vaults[v].unlock_block

PaidIsOwed ==
  \A v \in Vaults : paid[v] = IF vaults[v] = NoVault THEN 0 ELSE Owed(vaults[v], height)

Inv == VaultShape /\ PaidIsOwed
-----------------------------------------------------------------------------
LEMMA OneMore ==
  ASSUME NEW a \in Nat, NEW k \in Int
  PROVE  a * (k + 1) = a * k + a
BY SMT

LEMMA NoMoreThanAll ==
  ASSUME NEW a \in Nat, NEW k \in Nat, NEW n \in Nat, k <= n
  PROVE  a * k \in Nat /\ a * k <= n * a
BY SMTT(30)

LEMMA BaseFacts ==
  ASSUME NEW info \in VaultInfos, info.lock_start_block < info.unlock_block
  PROVE  /\ Share(info) \in Nat /\ Share(info) > 1
         /\ Base(info) \in Nat /\ info.fee_instants % Share(info) \in Nat
         /\ info.fee_instants = Share(info) * Base(info) + (info.fee_instants % Share(info))
<1>1. info.fee_instants \in Nat /\ Share(info) \in Nat /\ Share(info) > 1
  BY DEF VaultInfos, Share
<1> QED
  BY <1>1, Division DEF Base

(* What GetVaultFeeForBlock gives the next block is what is owed then and   *)
(* was not owed before: over all blocks of the lock the rest is paid once.  *)
LEMMA NextPayment ==
  ASSUME NEW info \in VaultInfos, info.lock_start_block < info.unlock_block,
         NEW h \in Int, h >= info.lock_start_block - 1
  PROVE  Owed(info, h + 1) = Owed(info, h) + GetVaultFeeForBlock(info, h + 1)
<1> DEFINE start == info.lock_start_block
           unlock == info.unlock_block
           rest == info.fee_instants % Share(info)
<1>1. /\ start \in Nat /\ unlock \in Nat /\ info.fee_instants \in Nat
      /\ Share(info) = unlock - start + 1
  BY DEF VaultInfos, Share
<1>2. /\ Share(info) \in Nat /\ Base(info) \in Nat /\ rest \in Nat
      /\ info.fee_instants = Share(info) * Base(info) + rest
  BY BaseFacts
<1>3. GetVaultFeeForBlock(info, h + 1) =
        IF h + 1 \notin start .. unlock THEN 0
        ELSE IF h + 1 = unlock THEN Base(info) + rest ELSE Base(info)
  BY DEF GetVaultFeeForBlock, Base, Share
<1>4. CASE h >= unlock
  BY <1>1, <1>3, <1>4 DEF Owed
<1>5. CASE h + 1 = unlock
  <2>1. Owed(info, h) = Base(info) * (unlock - start) /\ Owed(info, h + 1) = info.fee_instants
    BY <1>1, <1>5 DEF Owed
  <2>2. Base(info) * ((unlock - start) + 1) = Base(info) * (unlock - start) + Base(info)
    BY <1>1, <1>2, OneMore
  <2>3. Share(info) * Base(info) = Base(info) * ((unlock - start) + 1)
    BY <1>1, <1>2
  <2>4. GetVaultFeeForBlock(info, h + 1) = Base(info) + rest
    BY <1>1, <1>3, <1>5
  <2>5. Base(info) * (unlock - start) \in Int
    BY <1>1, <1>2
  <2> QED
    BY <1>2, <2>1, <2>2, <2>3, <2>4, <2>5
<1>6. CASE h + 1 < unlock
  <2>1. /\ Owed(info, h) = Base(info) * (h - start + 1)
        /\ Owed(info, h + 1) = Base(info) * ((h - start + 1) + 1)
    BY <1>1, <1>6 DEF Owed
  <2>2. GetVaultFeeForBlock(info, h + 1) = Base(info)
    BY <1>1, <1>3, <1>6
  <2> QED
    BY <1>1, <1>2, <2>1, <2>2, OneMore
<1> QED
  BY <1>1, <1>4, <1>5, <1>6

\* Nothing is owed before the first block, and never more than the fee.
LEMMA OwedBounds ==
  ASSUME NEW info \in VaultInfos, info.lock_start_block < info.unlock_block
  PROVE  /\ Owed(info, info.lock_start_block - 1) = 0
         /\ \A h \in Int : h >= info.lock_start_block => Owed(info, h) \in 0 .. info.fee_instants
<1>1. info.lock_start_block \in Nat /\ info.unlock_block \in Nat /\ info.fee_instants \in Nat
  BY DEF VaultInfos
<1>2. /\ Share(info) \in Nat /\ Base(info) \in Nat /\ info.fee_instants % Share(info) \in Nat
      /\ info.fee_instants = Share(info) * Base(info) + (info.fee_instants % Share(info))
  BY BaseFacts
<1>3. Owed(info, info.lock_start_block - 1) = 0
  BY <1>1, <1>2 DEF Owed
<1>4. ASSUME NEW h \in Int, h >= info.lock_start_block, h < info.unlock_block
      PROVE  Owed(info, h) \in 0 .. info.fee_instants
  <2> DEFINE blocks == h - info.lock_start_block + 1
  <2>1. blocks \in Nat /\ blocks <= Share(info)
    BY <1>1, <1>4 DEF Share
  <2>2. Owed(info, h) = Base(info) * blocks
    BY <1>1, <1>4 DEF Owed
  <2> HIDE DEF blocks
  <2>3. Base(info) * blocks \in Nat /\ Base(info) * blocks <= Share(info) * Base(info)
    BY <1>2, <2>1, NoMoreThanAll
  <2>4. Share(info) * Base(info) \in Int
    BY <1>2
  <2> QED
    BY <1>1, <1>2, <2>2, <2>3, <2>4
<1>5. ASSUME NEW h \in Int, h >= info.unlock_block
      PROVE  Owed(info, h) \in 0 .. info.fee_instants
  BY <1>1, <1>5 DEF Owed
<1> QED
  BY <1>1, <1>3, <1>4, <1>5

\* A new vault begins in its block and ends later.
LEMMA NewVault ==
  ASSUME NEW months \in LockPeriods, NEW block \in Nat
  PROVE  /\ CreateVaultInfo(months, block) \in VaultInfos
         /\ CreateVaultInfo(months, block).lock_start_block = block
         /\ block < CreateVaultInfo(months, block).unlock_block
<1>1. \E t \in Tiers : t.months = months
  BY DEF LockPeriods
<1>2. ValidateLockPeriod(months) \in Tiers
  BY <1>1 DEF ValidateLockPeriod
<1>3. ValidateLockPeriod(months).blocks \in Nat \ {0} /\ ValidateLockPeriod(months).fee \in Nat
  BY <1>2, VaultAssumption
<1> QED
  BY <1>3 DEF CreateVaultInfo, VaultInfos
-----------------------------------------------------------------------------
LEMMA InvInit == VaultInit => Inv
BY DEF VaultInit, Inv, VaultShape, PaidIsOwed

(* Connecting a block: a vault there was is paid its next share, a new one  *)
(* its first.                                                               *)
LEMMA ConnectKeeps == Inv /\ ConnectVaults => Inv'
<1> SUFFICES ASSUME Inv, ConnectVaults PROVE Inv'
  OBVIOUS
<1> USE DEF Inv, VaultShape
<1>1. height' = height + 1 /\ height' \in Nat
  BY DEF ConnectVaults
<1>2. PICK held \in SUBSET {v \in Vaults : vaults[v] = NoVault} :
        \E months \in [held -> LockPeriods] :
          vaults' = [v \in Vaults |->
                       IF v \in held THEN CreateVaultInfo(months[v], height + 1) ELSE vaults[v]]
  BY DEF ConnectVaults
<1>3. PICK months \in [held -> LockPeriods] :
        vaults' = [v \in Vaults |->
                     IF v \in held THEN CreateVaultInfo(months[v], height + 1) ELSE vaults[v]]
  BY <1>2
<1>4. paid' = [v \in Vaults |-> paid[v] + FeeOf(vaults'[v], height + 1)]
  BY DEF ConnectVaults
<1>5. ASSUME NEW v \in Vaults
      PROVE  /\ vaults'[v] \in VaultInfos \cup {NoVault}
             /\ paid'[v] \in Int
             /\ vaults'[v] # NoVault => /\ vaults'[v].lock_start_block <= height'
                                        /\ vaults'[v].lock_start_block < vaults'[v].unlock_block
             /\ paid'[v] = IF vaults'[v] = NoVault THEN 0 ELSE Owed(vaults'[v], height')
  <2>1. CASE v \in held
    <3> DEFINE info == CreateVaultInfo(months[v], height + 1)
    <3>1. vaults'[v] = info /\ vaults[v] = NoVault
      BY <1>2, <1>3, <2>1
    <3>2. info \in VaultInfos /\ info.lock_start_block = height + 1 /\ height + 1 < info.unlock_block
      BY <2>1, NewVault
    <3> HIDE DEF info
    <3>3. paid[v] = 0 /\ info # NoVault
      BY <3>1, <3>2, VaultAssumption DEF PaidIsOwed
    <3>4. paid'[v] = 0 + GetVaultFeeForBlock(info, height + 1)
      BY <1>4, <3>1, <3>3 DEF FeeOf
    <3>5. Owed(info, height) = 0
      BY <3>2, OwedBounds
    <3>6. Owed(info, height + 1) = 0 + GetVaultFeeForBlock(info, height + 1)
      BY <3>2, <3>5, NextPayment
    <3>7. Owed(info, height + 1) \in Int
      BY <3>2, OwedBounds
    <3> QED
      BY <1>1, <3>1, <3>2, <3>3, <3>4, <3>6, <3>7
  <2>2. CASE v \notin held /\ vaults[v] = NoVault
    <3>1. vaults'[v] = NoVault
      BY <1>3, <2>2
    <3>2. paid[v] = 0
      BY <2>2 DEF PaidIsOwed
    <3> QED
      BY <1>4, <3>1, <3>2 DEF FeeOf
  <2>3. CASE v \notin held /\ vaults[v] # NoVault
    <3>1. /\ vaults'[v] = vaults[v] /\ vaults[v] \in VaultInfos
          /\ vaults[v].lock_start_block <= height
          /\ vaults[v].lock_start_block < vaults[v].unlock_block
      BY <1>3, <2>3
    <3>2. paid[v] = Owed(vaults[v], height)
      BY <2>3 DEF PaidIsOwed
    <3>3. vaults[v].lock_start_block \in Nat
      BY <3>1 DEF VaultInfos
    <3>4. paid'[v] = Owed(vaults[v], height) + GetVaultFeeForBlock(vaults[v], height + 1)
      BY <1>4, <2>3, <3>1, <3>2 DEF FeeOf
    <3>5. Owed(vaults[v], height + 1) =
            Owed(vaults[v], height) + GetVaultFeeForBlock(vaults[v], height + 1)
      BY <3>1, <3>3, NextPayment
    <3>6. Owed(vaults[v], height + 1) \in Int
      BY <1>1, <3>1, <3>3, OwedBounds
    <3> QED
      BY <1>1, <2>3, <3>1, <3>3, <3>4, <3>5, <3>6
  <2> QED
    BY <2>1, <2>2, <2>3
<1>6. vaults' \in [Vaults -> VaultInfos \cup {NoVault}] /\ paid' \in [Vaults -> Int]
  BY <1>3, <1>4, <1>5
<1> QED
  BY <1>1, <1>5, <1>6 DEF PaidIsOwed

(* Disconnecting a block takes back its share, and with it the vaults that  *)
(* began in it.                                                             *)
LEMMA DisconnectKeeps == Inv /\ DisconnectVaults => Inv'
<1> SUFFICES ASSUME Inv, DisconnectVaults PROVE Inv'
  OBVIOUS
<1> USE DEF Inv, VaultShape
<1>1. height' = height - 1 /\ height' \in Nat
  BY DEF DisconnectVaults
<1>2. paid' = [v \in Vaults |-> paid[v] - FeeOf(vaults[v], height)]
  BY DEF DisconnectVaults
<1>3. vaults' = [v \in Vaults |->
                   IF vaults[v] # NoVault /\ vaults[v].lock_start_block = height
                     THEN NoVault ELSE vaults[v]]
  BY DEF DisconnectVaults
<1>4. ASSUME NEW v \in Vaults
      PROVE  /\ vaults'[v] \in VaultInfos \cup {NoVault}
             /\ paid'[v] \in Int
             /\ vaults'[v] # NoVault => /\ vaults'[v].lock_start_block <= height'
                                        /\ vaults'[v].lock_start_block < vaults'[v].unlock_block
             /\ paid'[v] = IF vaults'[v] = NoVault THEN 0 ELSE Owed(vaults'[v], height')
  <2>1. CASE vaults[v] = NoVault
    <3>1. vaults'[v] = NoVault /\ paid[v] = 0
      BY <1>3, <2>1 DEF PaidIsOwed
    <3> QED
      BY <1>2, <2>1, <3>1 DEF FeeOf
  <2>2. CASE vaults[v] # NoVault
    <3> DEFINE info == vaults[v]
               last == height - 1
    <3>1. /\ info \in VaultInfos /\ info.lock_start_block <= height
          /\ info.lock_start_block < info.unlock_block
          /\ paid[v] = Owed(info, height)
      BY <2>2 DEF PaidIsOwed
    <3>2. info.lock_start_block \in Nat
      BY <3>1 DEF VaultInfos
    <3>3. paid'[v] = paid[v] - GetVaultFeeForBlock(info, height)
      BY <1>2, <2>2 DEF FeeOf
    <3>4. last \in Int /\ last + 1 = height /\ last >= info.lock_start_block - 1
      BY <3>1, <3>2
    <3>5. /\ Owed(info, info.lock_start_block - 1) = 0
          /\ info.lock_start_block <= last => Owed(info, last) \in Int
      BY <3>1, <3>4, OwedBounds
    <3>6. info.lock_start_block = height => Owed(info, last) = 0
      BY <3>5
    <3> HIDE DEF last
    <3>7. Owed(info, height) = Owed(info, last) + GetVaultFeeForBlock(info, height)
      BY <3>1, <3>4, NextPayment
    <3>8. Owed(info, last) \in Int
      BY <3>1, <3>2, <3>4, <3>5, <3>6
    <3>9. GetVaultFeeForBlock(info, height) \in Int
      BY <3>1, <3>2, BaseFacts DEF GetVaultFeeForBlock, Base, Share
    <3>10. paid'[v] = Owed(info, last)
      BY <3>1, <3>3, <3>7, <3>8, <3>9
    <3>11. CASE info.lock_start_block = height
      BY <1>3, <2>2, <3>6, <3>10, <3>11
    <3>12. CASE info.lock_start_block # height
      <4>1. vaults'[v] = info
        BY <1>3, <3>12
      <4>2. info.lock_start_block <= height' /\ height' = last
        BY <1>1, <3>1, <3>2, <3>4, <3>12
      <4> QED
        BY <2>2, <3>1, <3>8, <3>10, <4>1, <4>2
    <3> QED
      BY <3>11, <3>12
  <2> QED
    BY <2>1, <2>2
<1>5. vaults' \in [Vaults -> VaultInfos \cup {NoVault}] /\ paid' \in [Vaults -> Int]
  BY <1>2, <1>3, <1>4
<1> QED
  BY <1>1, <1>4, <1>5 DEF PaidIsOwed

LEMMA InvNext == Inv /\ [VaultNext]_vaultVars => Inv'
<1>1. CASE ConnectVaults
  BY <1>1, ConnectKeeps
<1>2. CASE DisconnectVaults
  BY <1>2, DisconnectKeeps
<1>3. Inv /\ UNCHANGED vaultVars => Inv'
  BY DEF Inv, VaultShape, PaidIsOwed, vaultVars
<1> QED
  BY <1>1, <1>2, <1>3 DEF VaultNext

LEMMA InvImpliesFees == Inv => FeesAddUp
<1> SUFFICES ASSUME Inv, NEW v \in Vaults
             PROVE  IF vaults[v] = NoVault
                      THEN paid[v] = 0
                      ELSE /\ paid[v] \in 0 .. vaults[v].fee_instants
                           /\ height >= vaults[v].unlock_block => paid[v] = vaults[v].fee_instants
  BY DEF FeesAddUp
<1>1. CASE vaults[v] = NoVault
  BY <1>1 DEF Inv, PaidIsOwed
<1>2. CASE vaults[v] # NoVault
  <2>1. /\ vaults[v] \in VaultInfos /\ height \in Int
        /\ vaults[v].lock_start_block <= height
        /\ vaults[v].lock_start_block < vaults[v].unlock_block
        /\ paid[v] = Owed(vaults[v], height)
    BY <1>2 DEF Inv, VaultShape, PaidIsOwed
  <2>2. paid[v] \in 0 .. vaults[v].fee_instants
    BY <2>1, OwedBounds
  <2>3. height >= vaults[v].unlock_block => paid[v] = vaults[v].fee_instants
    BY <2>1 DEF Owed
  <2> QED
    BY <1>2, <2>2, <2>3
<1> QED
  BY <1>1, <1>2

(* The promise of golden_vault.cpp (line 8): on every branch of every chain *)
(* the payments for a vault add up to its fee, exactly when its lock ends   *)
(* (GetVaultFeeForBlock).                                                   *)
THEOREM VaultFeesAddUp == VaultSpec => []FeesAddUp
<1>1. VaultInit => Inv
  BY InvInit
<1>2. Inv /\ [VaultNext]_vaultVars => Inv'
  BY InvNext
<1>3. Inv => FeesAddUp
  BY InvImpliesFees
<1> QED
  BY <1>1, <1>2, <1>3, PTL DEF VaultSpec
-----------------------------------------------------------------------------
(* The difficulty: the rounding of targets. *)

\* The powers of the radix, one after the other, up to one of them.
PowersTo(n, f) == f \in [0 .. n -> Nat] /\ f[0] = 1 /\ \A i \in 1 .. n : f[i] = Radix * f[i - 1]

LEMMA PowersAgree ==
  ASSUME NEW n \in Nat, NEW m \in Nat, NEW f, NEW g, PowersTo(n, f), PowersTo(m, g)
  PROVE  \A i \in Nat : i <= n /\ i <= m => f[i] = g[i]
<1> DEFINE Good == {i \in Nat : i <= n /\ i <= m => f[i] = g[i]}
<1>1. 0 \in Good
  BY DEF PowersTo
<1>2. ASSUME NEW i \in Nat, i \in Good
      PROVE  i + 1 \in Good
  <2> SUFFICES ASSUME i + 1 <= n, i + 1 <= m
               PROVE  f[i + 1] = g[i + 1]
    OBVIOUS
  <2>1. f[i + 1] = Radix * f[(i + 1) - 1] /\ g[i + 1] = Radix * g[(i + 1) - 1]
    <3>1. i + 1 \in 1 .. n /\ i + 1 \in 1 .. m
      OBVIOUS
    <3> QED BY <3>1 DEF PowersTo
  <2>2. f[i] = g[i] /\ (i + 1) - 1 = i
    BY <1>2
  <2> QED BY <2>1, <2>2
<1> HIDE DEF Good
<1>3. Nat \subseteq Good
  BY <1>1, <1>2, UpByOne
<1> QED BY <1>3 DEF Good

LEMMA PowersExist == \A n \in Nat : \E f : PowersTo(n, f)
<1> DEFINE Good == {n \in Nat : \E f : PowersTo(n, f)}
<1>0. Radix \in Nat
  BY LwmaAssumption
<1>1. 0 \in Good
  <2> DEFINE f == [i \in 0 .. 0 |-> 1]
  <2>1. PowersTo(0, f)
    BY DEF PowersTo
  <2> QED BY <2>1
<1>2. ASSUME NEW n \in Nat, n \in Good
      PROVE  n + 1 \in Good
  <2>1. PICK f : PowersTo(n, f)
    BY <1>2
  <2> DEFINE e == [i \in 0 .. n + 1 |-> IF i <= n THEN f[i] ELSE Radix * f[n]]
  <2>2. f[n] \in Nat /\ Radix * f[n] \in Nat
    <3>1. f[n] \in Nat
      BY <2>1 DEF PowersTo
    <3> QED BY <1>0, <3>1
  <2>3. e \in [0 .. n + 1 -> Nat]
    BY <2>1, <2>2 DEF PowersTo
  <2>4. e[0] = 1
    BY <2>1 DEF PowersTo
  <2>5. ASSUME NEW i \in 1 .. n + 1
        PROVE  e[i] = Radix * e[i - 1]
    <3>1. CASE i <= n
      <4>1. i \in 1 .. n /\ e[i] = f[i] /\ e[i - 1] = f[i - 1]
        BY <3>1
      <4> QED BY <2>1, <4>1 DEF PowersTo
    <3>2. CASE i = n + 1
      <4>1. e[i] = Radix * f[n] /\ e[i - 1] = f[n]
        BY <3>2
      <4> QED BY <4>1
    <3> QED BY <3>1, <3>2
  <2>6. PowersTo(n + 1, e)
    <3> HIDE DEF e
    <3> QED BY <2>3, <2>4, <2>5 DEF PowersTo
  <2> HIDE DEF e
  <2> QED BY <2>6
<1> HIDE DEF Good
<1>3. Nat \subseteq Good
  BY <1>1, <1>2, UpByOne
<1> QED BY <1>3 DEF Good

\* Power is what its recursion says.
LEMMA PowerIs ==
  /\ Power \in [Nat -> Nat]
  /\ Power[0] = 1
  /\ \A n \in Nat : Power[n + 1] = Radix * Power[n]
<1> DEFINE First(n) == CHOOSE f : PowersTo(n, f)
           P == [n \in Nat |-> First(n)[n]]
           Unfolded(p) == [n \in Nat |-> IF n = 0 THEN 1 ELSE Radix * p[n - 1]]
<1>1. \A n \in Nat : PowersTo(n, First(n))
  BY PowersExist
<1> HIDE DEF First
<1>2. P \in [Nat -> Nat]
  BY <1>1 DEF PowersTo
<1>3. P[0] = 1
  BY <1>1 DEF PowersTo
<1>4. ASSUME NEW n \in Nat
      PROVE  P[n + 1] = Radix * P[n]
  <2>1. First(n + 1)[n + 1] = Radix * First(n + 1)[(n + 1) - 1]
    <3>1. n + 1 \in Nat /\ n + 1 \in 1 .. n + 1
      OBVIOUS
    <3>2. PowersTo(n + 1, First(n + 1))
      BY <1>1, <3>1
    <3> QED BY <3>1, <3>2 DEF PowersTo
  <2>2. First(n + 1)[n] = First(n)[n]
    <3>1. n + 1 \in Nat /\ n <= n + 1 /\ n <= n
      OBVIOUS
    <3> QED BY <1>1, <3>1, PowersAgree
  <2> QED BY <2>1, <2>2
<1> HIDE DEF P
<1>5. P = Unfolded(P)
  <2>1. ASSUME NEW n \in Nat
        PROVE  P[n] = IF n = 0 THEN 1 ELSE Radix * P[n - 1]
    <3>1. CASE n = 0
      BY <1>3, <3>1
    <3>2. CASE n # 0
      <4>1. n - 1 \in Nat /\ (n - 1) + 1 = n
        BY <3>2
      <4> QED BY <1>4, <3>2, <4>1
    <3> QED BY <3>1, <3>2
  <2> QED BY <1>2, <2>1
<1>6. Power = Unfolded(Power)
  <2> HIDE DEF P
  <2> QED BY <1>5 DEF Power
<1> DEFINE Good == {n \in Nat : Power[n] = P[n]}
<1>7. 0 \in Good
  <2>1. Power[0] = 1
    BY <1>6
  <2> QED BY <1>3, <2>1
<1>8. ASSUME NEW n \in Nat, n \in Good
      PROVE  n + 1 \in Good
  <2>1. Power[n + 1] = Radix * Power[(n + 1) - 1]
    <3>1. n + 1 \in Nat /\ n + 1 # 0
      OBVIOUS
    <3> QED BY <1>6, <3>1
  <2>2. (n + 1) - 1 = n /\ Power[n] = P[n]
    BY <1>8
  <2> QED BY <1>4, <2>1, <2>2
<1>9. Nat \subseteq Good
  <2> HIDE DEF Good
  <2> QED BY <1>7, <1>8, UpByOne
<1>10. Power = P
  <2>1. Power = [n \in Nat |-> Power[n]]
    BY <1>6
  <2> QED BY <1>2, <1>9, <2>1
<1> QED BY <1>2, <1>3, <1>4, <1>10

\* A smaller power divides a larger one.
LEMMA PowerDivides ==
  ASSUME NEW a \in Nat, NEW k \in Nat
  PROVE  /\ Power[a] \in Nat \ {0} /\ Power[k] \in Nat \ {0}
         /\ Power[a + k] = Power[k] * Power[a]
<1>0. Radix \in Nat \ {0}
  BY LwmaAssumption
<1> DEFINE Positive == {n \in Nat : Power[n] \in Nat \ {0}}
<1>1. \A x, y \in Nat \ {0} : x * y \in Nat \ {0}
  BY SMTT(30)
<1>2. Nat \subseteq Positive
  <2>1. 0 \in Positive
    BY PowerIs
  <2>2. ASSUME NEW n \in Nat, n \in Positive
        PROVE  n + 1 \in Positive
    <3>1. Power[n + 1] = Radix * Power[n] /\ Power[n] \in Nat \ {0}
      BY <2>2, PowerIs
    <3>2. Radix * Power[n] \in Nat \ {0}
      BY <1>0, <1>1, <3>1
    <3> QED BY <3>1, <3>2
  <2> HIDE DEF Positive
  <2> QED BY <2>1, <2>2, UpByOne
<1> DEFINE Good == {n \in Nat : Power[a + n] = Power[n] * Power[a]}
<1>3. 0 \in Good
  <2>1. a + 0 = a /\ Power[a] \in Nat
    BY PowerIs
  <2> QED BY <2>1, PowerIs
<1>4. ASSUME NEW n \in Nat, n \in Good
      PROVE  n + 1 \in Good
  <2>1. a + (n + 1) = (a + n) + 1 /\ a + n \in Nat
    OBVIOUS
  <2>2. Power[a + (n + 1)] = Radix * Power[a + n] /\ Power[n + 1] = Radix * Power[n]
    BY <2>1, PowerIs
  <2>3. \A x, y, z \in Nat : x * (y * z) = (x * y) * z
    BY SMTT(30)
  <2>4. Power[n] \in Nat /\ Power[a] \in Nat
    BY PowerIs
  <2> QED BY <1>0, <1>4, <2>2, <2>3, <2>4
<1>5. Nat \subseteq Good
  <2> HIDE DEF Good
  <2> QED BY <1>3, <1>4, UpByOne
<1> QED BY <1>2, <1>5

\* A larger number has a larger power, which is larger than the number.
LEMMA PowerGrows ==
  /\ \A m, n \in Nat : m <= n => Power[m] <= Power[n]
  /\ \A n \in Nat : n < Power[n]
<1>1. ASSUME NEW m \in Nat, NEW n \in Nat, m <= n
      PROVE  Power[m] <= Power[n]
  <2>1. n - m \in Nat /\ m + (n - m) = n
    BY <1>1
  <2>2. Power[n] = Power[n - m] * Power[m] /\ Power[m] \in Nat \ {0} /\ Power[n - m] \in Nat \ {0}
    BY <2>1, PowerDivides
  <2>3. \A x, y \in Nat \ {0} : y <= x * y
    BY SMTT(30)
  <2> QED BY <2>2, <2>3
<1> DEFINE Good == {n \in Nat : n < Power[n]}
<1>2. 0 \in Good
  BY PowerIs
<1>3. ASSUME NEW n \in Nat, n \in Good
      PROVE  n + 1 \in Good
  <2>1. \A r, x \in Nat : r >= 2 => r * x >= x + x
    BY SMTT(30)
  <2>2. Power[n] \in Nat /\ Power[n + 1] >= Power[n] + Power[n]
    BY <2>1, PowerIs, LwmaAssumption
  <2>3. Power[n + 1] \in Nat
    BY PowerIs
  <2> QED BY <1>3, <2>2, <2>3
<1>4. Nat \subseteq Good
  <2> HIDE DEF Good
  <2> QED BY <1>2, <1>3, UpByOne
<1> QED BY <1>1, <1>4

\* The number of digits.
LEMMA DigitsFacts ==
  ASSUME NEW t \in Nat
  PROVE  /\ Digits(t) \in 0 .. t
         /\ t < Power[Digits(t)]
         /\ Digits(t) > 0 => Power[Digits(t) - 1] <= t
<1> DEFINE Enough == {s \in Nat : Power[s] > t}
           Right(s) == Power[s] > t /\ \A r \in 0 .. s - 1 : Power[r] <= t
<1>0. \A s \in Nat : Power[s] \in Nat
  BY PowerIs
<1>1. t \in Enough
  BY <1>0, PowerGrows
<1>2. PICK s \in Enough : \A r \in Enough : s <= r
  BY <1>1, LeastNatural
<1>3. s \in 0 .. t
  BY <1>1, <1>2
<1>4. Right(s)
  <2>1. ASSUME NEW r \in 0 .. s - 1
        PROVE  Power[r] <= t
    BY <1>0, <1>2, <2>1
  <2> QED BY <1>2, <2>1
<1>5. Digits(t) \in 0 .. t /\ Right(Digits(t))
  <2> HIDE DEF Right
  <2> QED BY <1>3, <1>4 DEF Digits, Right
<1>6. Digits(t) > 0 => Digits(t) - 1 \in 0 .. Digits(t) - 1
  BY <1>5
<1> QED BY <1>5, <1>6

\* A number rounded down to a multiple of u: no multiple of u lies between.
LEMMA Rounding ==
  ASSUME NEW t \in Nat, NEW u \in Nat \ {0}
  PROVE  /\ t - (t % u) = (t \div u) * u
         /\ t \div u \in Nat /\ t - (t % u) \in 0 .. t
         /\ \A m \in Nat : m * u <= t => m <= t \div u /\ m * u <= t - (t % u)
<1> DEFINE q == t \div u
           r == t % u
<1>1. q \in Nat /\ r \in Nat /\ t = u * q + r
  BY Division
<1>2. r < u
  BY SMT
<1> HIDE DEF q, r
<1>3. u * q = q * u /\ q * u \in Nat
  BY <1>1, SMTT(30)
<1>4. ASSUME NEW m \in Nat, m * u <= t
      PROVE  m <= q
  <2> SUFFICES ASSUME q + 1 <= m
               PROVE  FALSE
    BY <1>1
  <2>1. \A x, y, z \in Nat : x <= y => x * z <= y * z
    BY SMTT(30)
  <2>2. (q + 1) * u <= m * u
    BY <1>1, <2>1
  <2>3. (q + 1) * u = q * u + u
    BY <1>1, SMTT(30)
  <2>4. m * u \in Nat
    BY SMTT(30)
  <2> QED BY <1>1, <1>2, <1>3, <1>4, <2>2, <2>3, <2>4
<1>5. ASSUME NEW m \in Nat, m <= q
      PROVE  m * u <= q * u
  BY <1>1, <1>5, SMTT(30)
<1>6. t - r = q * u /\ t - r \in 0 .. t
  BY <1>1, <1>3
<1> QED BY <1>1, <1>4, <1>5, <1>6 DEF q, r

\* The digits of a target that are lost, and what a target is rounded to a multiple of.
Lost(t) == IF Digits(t) > Kept(t) THEN Digits(t) - Kept(t) ELSE 0
Unit(t) == Power[Lost(t)]

LEMMA CompactIs ==
  ASSUME NEW t \in Nat
  PROVE  /\ Unit(t) \in Nat \ {0} /\ Lost(t) \in Nat /\ (Digits(t) > 0 => Lost(t) <= Digits(t) - 1)
         /\ Compact(t) = (t \div Unit(t)) * Unit(t)
         /\ t \div Unit(t) \in Nat
         /\ Compact(t) \in 0 .. t
         /\ \A m \in Nat : m * Unit(t) <= t => m * Unit(t) <= Compact(t)
<1>1. Digits(t) \in Nat /\ Kept(t) \in {2, 3}
  BY DigitsFacts DEF Kept
<1>2. Lost(t) \in Nat /\ (Digits(t) > 0 => Lost(t) <= Digits(t) - 1)
  BY <1>1 DEF Lost
<1>3. Unit(t) \in Nat \ {0}
  BY <1>2, PowerDivides DEF Unit
<1>4. Compact(t) = t - (t % Unit(t))
  <2>1. CASE Digits(t) > Kept(t)
    BY <2>1 DEF Compact, Unit, Lost
  <2>2. CASE ~(Digits(t) > Kept(t))
    <3>1. Unit(t) = 1
      BY <2>2, PowerIs DEF Unit, Lost
    <3>2. t % 1 = 0
      OBVIOUS
    <3> QED BY <2>2, <3>1, <3>2 DEF Compact
  <2> QED BY <2>1, <2>2
<1> QED BY <1>2, <1>3, <1>4, Rounding

\* What is at least a power of the radix is so after it is rounded; only 0 is rounded to 0.
LEMMA LeadingDigit ==
  ASSUME NEW t \in Nat, Digits(t) > 0
  PROVE  LET top == Power[Digits(t) - 1]
         IN  /\ top \in Nat \ {0} /\ t \div top \in Nat \ {0}
             /\ t < (t \div top + 1) * top
             /\ (t \div top) * top <= Compact(t)
<1> DEFINE top == Power[Digits(t) - 1]
           q == t \div top
           k == (Digits(t) - 1) - Lost(t)
<1>1. Digits(t) - 1 \in Nat /\ Lost(t) \in Nat /\ k \in Nat /\ Lost(t) + k = Digits(t) - 1
  <2>1. Digits(t) - 1 \in Nat
    BY DigitsFacts
  <2>2. Lost(t) \in Nat /\ Lost(t) <= Digits(t) - 1
    BY CompactIs
  <2> QED BY <2>1, <2>2
<1>2. top \in Nat \ {0} /\ Power[k] \in Nat \ {0} /\ top = Power[k] * Unit(t)
  BY <1>1, PowerDivides DEF Unit
<1>3. top <= t
  BY DigitsFacts
<1> HIDE DEF top, k
<1>4. q \in Nat /\ q * top = t - (t % top) /\ 1 * top <= t /\ (\A m \in Nat : m * top <= t => m <= q)
  <2>1. q * top = t - (t % top) /\ q \in Nat
    BY <1>2, Rounding
  <2>2. 1 * top <= t
    BY <1>2, <1>3
  <2>3. \A m \in Nat : m * top <= t => m <= q
    BY <1>2, Rounding
  <2> QED BY <2>1, <2>2, <2>3
<1>5. q \in Nat \ {0}
  <2>1. 1 <= q
    BY <1>4
  <2> QED BY <1>4, <2>1
<1>6. t < (q + 1) * top
  <2>1. t % top < top /\ t % top \in Nat
    BY <1>2, Division, SMT
  <2> HIDE DEF q
  <2>2. (q + 1) * top = q * top + top /\ q * top \in Nat
    <3>1. \A x, y \in Nat : (x + 1) * y = x * y + y /\ x * y \in Nat
      BY SMTT(30)
    <3>2. q \in Nat /\ top \in Nat
      BY <1>2, <1>4
    <3> QED BY <3>1, <3>2
  <2> QED BY <1>2, <1>4, <2>1, <2>2
<1>7. q * top <= Compact(t)
  <2> HIDE DEF q
  <2>1. \A x, y, z \in Nat : x * (y * z) = (x * y) * z
    BY SMTT(30)
  <2>2. Unit(t) \in Nat
    BY CompactIs
  <2>3. q * top = (q * Power[k]) * Unit(t)
    BY <1>2, <1>4, <2>1, <2>2
  <2>4. q * Power[k] \in Nat
    BY <1>2, <1>4, SMTT(30)
  <2>5. q * top <= t
    <3>1. t % top \in Nat
      BY <1>2, Division
    <3> QED BY <1>4, <3>1
  <2> QED BY <2>3, <2>4, <2>5, CompactIs
<1> QED BY <1>2, <1>5, <1>6, <1>7 DEF top, q

LEMMA CompactPositive ==
  ASSUME NEW t \in Nat \ {0}
  PROVE  Compact(t) \in 1 .. t
<1>1. Digits(t) > 0
  <2>1. t < Power[Digits(t)] /\ Digits(t) \in Nat
    BY DigitsFacts
  <2>2. Power[0] = 1
    BY PowerIs
  <2> QED BY <2>1, <2>2
<1> DEFINE top == Power[Digits(t) - 1]
           q == t \div top
<1>2. top \in Nat \ {0} /\ q \in Nat \ {0} /\ q * top <= Compact(t)
  BY <1>1, LeadingDigit
<1> HIDE DEF top, q
<1>3. 1 <= q * top /\ q * top \in Nat
  BY <1>2, SMTT(30)
<1>4. Compact(t) \in 0 .. t
  BY CompactIs
<1> QED BY <1>2, <1>3, <1>4

\* Rounding keeps the order of targets, also where one keeps three digits and the other two.
LEMMA CompactMonotone ==
  ASSUME NEW a \in Nat, NEW b \in Nat, a <= b
  PROVE  Compact(a) <= Compact(b)
<1>1. /\ Digits(a) \in Nat /\ Digits(b) \in Nat /\ Compact(a) \in 0 .. a /\ Compact(b) \in 0 .. b
  BY DigitsFacts, CompactIs
<1>2. Digits(a) <= Digits(b)
  <2> SUFFICES ASSUME Digits(b) + 1 <= Digits(a)
               PROVE  FALSE
    BY <1>1
  <2>1. Digits(a) - 1 \in Nat /\ Digits(b) <= Digits(a) - 1 /\ Power[Digits(a) - 1] <= a
    BY <1>1, DigitsFacts
  <2>2. Power[Digits(b)] <= Power[Digits(a) - 1] /\ b < Power[Digits(b)]
    BY <1>1, <2>1, PowerGrows, DigitsFacts
  <2>3. Power[Digits(b)] \in Nat /\ Power[Digits(a) - 1] \in Nat
    BY <1>1, <2>1, PowerIs
  <2> QED BY <2>1, <2>2, <2>3
<1>3. CASE Digits(a) < Digits(b)
  <2> DEFINE top == Power[Digits(b) - 1]
             q == b \div top
  <2>1. top \in Nat \ {0} /\ q \in Nat \ {0} /\ q * top <= Compact(b)
    BY <1>1, <1>3, LeadingDigit
  <2>2. a < Power[Digits(a)] /\ Power[Digits(a)] <= top /\ Power[Digits(a)] \in Nat
    <3>1. Digits(b) - 1 \in Nat /\ Digits(a) <= Digits(b) - 1
      BY <1>1, <1>3
    <3>2. Power[Digits(a)] <= top
      BY <1>1, <3>1, PowerGrows
    <3>3. Power[Digits(a)] \in Nat
      BY <1>1, PowerIs
    <3> QED BY <3>2, <3>3, DigitsFacts
  <2> HIDE DEF top, q
  <2>3. top <= q * top /\ q * top \in Nat
    BY <2>1, SMTT(30)
  <2> QED BY <1>1, <2>1, <2>2, <2>3
<1>4. CASE Digits(a) = Digits(b) /\ Lost(a) = Lost(b)
  <2>1. Unit(a) = Unit(b)
    BY <1>4 DEF Unit
  <2>2. Compact(a) = (a \div Unit(a)) * Unit(b) /\ a \div Unit(a) \in Nat
    BY <2>1, CompactIs
  <2>3. (a \div Unit(a)) * Unit(b) <= b
    BY <1>1, <2>2
  <2> QED BY <2>2, <2>3, CompactIs
<1>5. CASE Digits(a) = Digits(b) /\ Lost(a) # Lost(b)
  <2> DEFINE top == Power[Digits(b) - 1]
             qa == a \div top
             qb == b \div top
  <2>1. Kept(a) # Kept(b) /\ Digits(a) > 0
    BY <1>1, <1>5 DEF Lost, Kept
  <2>2. /\ top \in Nat \ {0} /\ qa \in Nat \ {0} /\ qb \in Nat \ {0}
        /\ a < (qa + 1) * top /\ qb * top <= Compact(b)
    BY <1>5, <2>1, LeadingDigit
  <2>3. qa <= qb
    BY <2>2, DivisionMonotone
  <2>4. (Kept(a) = IF 2 * qa >= Radix THEN 2 ELSE 3) /\ (Kept(b) = IF 2 * qb >= Radix THEN 2 ELSE 3)
    BY <1>5, <2>1 DEF Kept
  <2>5. Radix \in Nat
    BY LwmaAssumption
  <2> HIDE DEF top, qa, qb
  <2>6. qa + 1 <= qb
    BY <2>1, <2>2, <2>3, <2>4, <2>5
  <2>7. \A x, y, z \in Nat : x <= y => x * z \in Nat /\ y * z \in Nat /\ x * z <= y * z
    BY SMTT(30)
  <2>8. (qa + 1) * top <= qb * top /\ (qa + 1) * top \in Nat /\ qb * top \in Nat
    BY <2>2, <2>6, <2>7
  <2> QED BY <1>1, <2>2, <2>8
<1> QED BY <1>1, <1>2, <1>3, <1>4, <1>5

-----------------------------------------------------------------------------
(* The difficulty: the averages. *)

LEMMA MaxMinTwo ==
  ASSUME NEW a \in Int, NEW b \in Int
  PROVE  /\ Max({a, b}) = IF a >= b THEN a ELSE b
         /\ Min({a, b}) = IF a <= b THEN a ELSE b
<1>1. \E x \in {a, b} : \A y \in {a, b} : x >= y
  OBVIOUS
<1>2. \E x \in {a, b} : \A y \in {a, b} : x <= y
  OBVIOUS
<1>3. Max({a, b}) \in {a, b} /\ \A y \in {a, b} : Max({a, b}) >= y
  BY <1>1 DEF Max
<1>4. Min({a, b}) \in {a, b} /\ \A y \in {a, b} : Min({a, b}) <= y
  BY <1>2 DEF Min
<1> QED BY <1>3, <1>4

OfWindow == [1 .. Window -> Nat]

\* What the loop over the window adds up, step by step.
LEMMA SumSteps ==
  ASSUME NEW g \in OfWindow
  PROVE  \E f \in [0 .. Window -> Nat] :
            /\ f[0] = 0 /\ \A i \in 1 .. Window : f[i] = f[i - 1] + g[i]
            /\ WindowSum(g) = f[Window]
<1> DEFINE Unfolded(p) == [i \in 0 .. Window |-> IF i = 0 THEN 0 ELSE p[i - 1] + g[i]]
           f == CHOOSE p : p = Unfolded(p)
<1>0. Window \in Nat /\ g \in [1 .. Window -> Int]
  BY LwmaAssumption DEF OfWindow
<1>1. PICK e \in [0 .. Window -> Int] : e[0] = 0 /\ \A i \in 1 .. Window : e[i] = e[i - 1] + g[i]
  BY <1>0, SumsExist
<1>2. e = Unfolded(e)
  <2>1. ASSUME NEW i \in 0 .. Window
        PROVE  e[i] = IF i = 0 THEN 0 ELSE e[i - 1] + g[i]
    <3>1. CASE i = 0
      BY <1>1, <3>1
    <3>2. CASE i # 0
      <4>1. i \in 1 .. Window
        BY <3>2
      <4> QED BY <1>1, <3>2, <4>1
    <3> QED BY <3>1, <3>2
  <2> QED BY <1>1, <2>1
<1>3. f = Unfolded(f)
  BY <1>2
<1>4. WindowSum(g) = f[Window]
  BY DEF WindowSum
<1> HIDE DEF f
<1>5. f[0] = 0 /\ \A i \in 1 .. Window : f[i] = f[i - 1] + g[i]
  <2>1. 0 \in 0 .. Window
    BY <1>0
  <2>2. f[0] = 0
    BY <1>3, <2>1
  <2>3. ASSUME NEW i \in 1 .. Window
        PROVE  f[i] = f[i - 1] + g[i]
    <3>1. i \in 0 .. Window /\ i # 0
      BY <1>0
    <3> QED BY <1>3, <3>1
  <2> QED BY <2>2, <2>3
<1> DEFINE Good == {n \in Nat : n <= Window => f[n] \in Nat}
<1>6. 0 \in Good
  BY <1>5
<1>7. ASSUME NEW n \in Nat, n \in Good
      PROVE  n + 1 \in Good
  <2> SUFFICES ASSUME n + 1 <= Window
               PROVE  f[n + 1] \in Nat
    OBVIOUS
  <2>1. n + 1 \in 1 .. Window /\ (n + 1) - 1 = n /\ f[n] \in Nat
    BY <1>0, <1>7
  <2>2. f[n + 1] = f[n] + g[n + 1] /\ g[n + 1] \in Nat
    BY <1>5, <2>1 DEF OfWindow
  <2> QED BY <2>1, <2>2
<1> HIDE DEF Good
<1>8. Nat \subseteq Good
  BY <1>6, <1>7, UpByOne
<1>9. f \in [0 .. Window -> Nat]
  <2>1. \A i \in 0 .. Window : f[i] \in Nat
    BY <1>0, <1>8 DEF Good
  <2>2. f = [i \in 0 .. Window |-> f[i]]
    BY <1>3
  <2> QED BY <2>1, <2>2
<1> QED BY <1>4, <1>5, <1>9

\* A sum grows with what is added up.
LEMMA SumMonotone ==
  ASSUME NEW g \in OfWindow, NEW h \in OfWindow, \A i \in 1 .. Window : g[i] <= h[i]
  PROVE  WindowSum(g) \in Nat /\ WindowSum(h) \in Nat /\ WindowSum(g) <= WindowSum(h)
<1>0. Window \in Nat
  BY LwmaAssumption
<1>1. PICK f \in [0 .. Window -> Nat] :
         /\ f[0] = 0 /\ \A i \in 1 .. Window : f[i] = f[i - 1] + g[i]
         /\ WindowSum(g) = f[Window]
  BY SumSteps
<1>2. PICK e \in [0 .. Window -> Nat] :
         /\ e[0] = 0 /\ \A i \in 1 .. Window : e[i] = e[i - 1] + h[i]
         /\ WindowSum(h) = e[Window]
  BY SumSteps
<1> DEFINE Good == {n \in Nat : n <= Window => f[n] <= e[n]}
<1>3. 0 \in Good
  BY <1>1, <1>2
<1>4. ASSUME NEW n \in Nat, n \in Good
      PROVE  n + 1 \in Good
  <2> SUFFICES ASSUME n + 1 <= Window
               PROVE  f[n + 1] <= e[n + 1]
    OBVIOUS
  <2>1. n + 1 \in 1 .. Window /\ (n + 1) - 1 = n /\ f[n] <= e[n] /\ n \in 0 .. Window
    BY <1>0, <1>4
  <2>2. f[n + 1] = f[n] + g[n + 1] /\ e[n + 1] = e[n] + h[n + 1]
    BY <1>1, <1>2, <2>1
  <2>3. g[n + 1] \in Nat /\ h[n + 1] \in Nat /\ f[n] \in Nat /\ e[n] \in Nat
    BY <2>1 DEF OfWindow
  <2> QED BY <2>1, <2>2, <2>3
<1> HIDE DEF Good
<1>5. Nat \subseteq Good
  BY <1>3, <1>4, UpByOne
<1> QED BY <1>0, <1>1, <1>2, <1>5 DEF Good

\* A common factor can be taken out of a sum.
LEMMA SumScaled ==
  ASSUME NEW c \in Nat, NEW g \in OfWindow, NEW h \in OfWindow,
         \A i \in 1 .. Window : h[i] = c * g[i]
  PROVE  WindowSum(h) = c * WindowSum(g)
<1>0. Window \in Nat
  BY LwmaAssumption
<1>1. PICK f \in [0 .. Window -> Nat] :
         /\ f[0] = 0 /\ \A i \in 1 .. Window : f[i] = f[i - 1] + g[i]
         /\ WindowSum(g) = f[Window]
  BY SumSteps
<1>2. PICK e \in [0 .. Window -> Nat] :
         /\ e[0] = 0 /\ \A i \in 1 .. Window : e[i] = e[i - 1] + h[i]
         /\ WindowSum(h) = e[Window]
  BY SumSteps
<1> DEFINE Good == {n \in Nat : n <= Window => e[n] = c * f[n]}
<1>3. 0 \in Good
  BY <1>1, <1>2
<1>4. ASSUME NEW n \in Nat, n \in Good
      PROVE  n + 1 \in Good
  <2> SUFFICES ASSUME n + 1 <= Window
               PROVE  e[n + 1] = c * f[n + 1]
    OBVIOUS
  <2>1. n + 1 \in 1 .. Window /\ (n + 1) - 1 = n /\ e[n] = c * f[n] /\ n \in 0 .. Window
    BY <1>0, <1>4
  <2>2. f[n + 1] = f[n] + g[n + 1] /\ e[n + 1] = e[n] + h[n + 1] /\ h[n + 1] = c * g[n + 1]
    BY <1>1, <1>2, <2>1
  <2>3. g[n + 1] \in Nat /\ f[n] \in Nat
    BY <2>1 DEF OfWindow
  <2>4. \A x, y \in Nat : c * (x + y) = c * x + c * y
    BY SMTT(30)
  <2> QED BY <2>1, <2>2, <2>3, <2>4
<1> HIDE DEF Good
<1>5. Nat \subseteq Good
  BY <1>3, <1>4, UpByOne
<1> QED BY <1>0, <1>1, <1>2, <1>5 DEF Good

\* The weights add up to more than nothing.
LEMMA WeightFacts ==
  /\ Weights \in OfWindow /\ WindowSum(Weights) \in Nat \ {0}
<1>0. Window \in Nat \ {0}
  BY LwmaAssumption
<1>1. Weights \in OfWindow
  BY <1>0 DEF Weights, OfWindow
<1>2. PICK f \in [0 .. Window -> Nat] :
         /\ \A i \in 1 .. Window : f[i] = f[i - 1] + Weights[i]
         /\ WindowSum(Weights) = f[Window]
  BY <1>1, SumSteps
<1>3. f[Window] = f[Window - 1] + Window /\ f[Window - 1] \in Nat
  <2>1. Window \in 1 .. Window /\ Window - 1 \in 0 .. Window
    BY <1>0
  <2> QED BY <1>2, <2>1 DEF Weights
<1> QED BY <1>0, <1>1, <1>2, <1>3

\* The average time of the blocks of a window.
LwmaTime(times) == Max({WeightedTime(times) \div WindowSum(Weights), 1})

\* It is a mean, and grows with every time.
LEMMA LwmaTimeFacts ==
  ASSUME NEW times \in OfWindow
  PROVE  /\ WeightedTime(times) \in Nat
         /\ LwmaTime(times) \in Nat \ {0}
         /\ (\A i \in 1 .. Window : times[i] >= Spacing) => LwmaTime(times) >= Spacing
         /\ (\A i \in 1 .. Window : times[i] <= Spacing) => LwmaTime(times) <= Spacing
         /\ \A more \in OfWindow :
              (\A i \in 1 .. Window : times[i] <= more[i]) => LwmaTime(times) <= LwmaTime(more)
<1> DEFINE Weighted(s) == [i \in 1 .. Window |-> s[i] * Weights[i]]
           even == [i \in 1 .. Window |-> Spacing * Weights[i]]
           total == WindowSum(Weights)
<1>0. Window \in Nat \ {0} /\ Spacing \in Nat \ {0}
  BY LwmaAssumption
<1>1. total \in Nat \ {0} /\ Weights \in OfWindow
  BY WeightFacts
<1>2. \A x, y, z \in Nat : x * z \in Nat /\ (x <= y => x * z <= y * z)
  BY SMTT(30)
<1>3. \A s \in OfWindow : Weighted(s) \in OfWindow
  BY <1>1, <1>2 DEF OfWindow
<1>4. even \in OfWindow /\ WindowSum(even) = Spacing * total
  <2>1. even \in OfWindow
    BY <1>0, <1>1, <1>2 DEF OfWindow
  <2> QED BY <1>0, <1>1, <2>1, SumScaled
<1>5. \A s \in OfWindow : WeightedTime(s) = WindowSum(Weighted(s)) /\ WeightedTime(s) \in Nat
  <2>1. \A s \in OfWindow : WindowSum(Weighted(s)) \in Nat
    <3> TAKE s \in OfWindow
    <3>1. Weighted(s) \in OfWindow
      BY <1>3
    <3> HIDE DEF Weighted
    <3>2. \A i \in 1 .. Window : Weighted(s)[i] \in Nat
      BY <3>1 DEF OfWindow
    <3>3. \A i \in 1 .. Window : Weighted(s)[i] <= Weighted(s)[i]
      BY <3>2
    <3> QED BY <3>1, <3>3, SumMonotone
  <2> QED BY <2>1 DEF WeightedTime
<1>6. \A s \in OfWindow, i \in 1 .. Window : s[i] \in Nat /\ Weights[i] \in Nat
  BY <1>1 DEF OfWindow
<1>7. \A s \in OfWindow : WeightedTime(s) \div total \in Nat
  BY <1>1, <1>5, DivisionFacts
<1>8. \A s \in OfWindow :
        /\ LwmaTime(s) = IF WeightedTime(s) \div total >= 1 THEN WeightedTime(s) \div total ELSE 1
  BY <1>7, MaxMinTwo DEF LwmaTime
<1>9. ASSUME \A i \in 1 .. Window : times[i] >= Spacing
      PROVE  LwmaTime(times) >= Spacing
  <2>1. \A i \in 1 .. Window : even[i] <= Weighted(times)[i]
    BY <1>0, <1>2, <1>6, <1>9
  <2> HIDE DEF Weighted, even
  <2>2. Spacing * total <= WeightedTime(times)
    BY <1>3, <1>4, <1>5, <2>1, SumMonotone
  <2>3. Spacing <= WeightedTime(times) \div total
    BY <1>0, <1>1, <1>5, <2>2, Rounding
  <2> HIDE DEF total
  <2> QED BY <1>0, <1>7, <1>8, <2>3
<1>10. ASSUME \A i \in 1 .. Window : times[i] <= Spacing
       PROVE  LwmaTime(times) <= Spacing
  <2>1. \A i \in 1 .. Window : Weighted(times)[i] <= even[i]
    BY <1>0, <1>2, <1>6, <1>10
  <2> HIDE DEF Weighted, even
  <2>2. WeightedTime(times) <= Spacing * total
    BY <1>3, <1>4, <1>5, <2>1, SumMonotone
  <2> HIDE DEF total
  <2>3. WeightedTime(times) \div total <= (Spacing * total) \div total
    <3>1. Spacing * total \in Nat
      BY <1>0, <1>1, <1>2
    <3> QED BY <1>1, <1>5, <2>2, <3>1, DivisionMonotone
  <2>4. (Spacing * total) \div total = Spacing
    BY <1>0, <1>1, Z3
  <2> QED BY <1>0, <1>7, <1>8, <2>3, <2>4
<1>11. ASSUME NEW more \in OfWindow, \A i \in 1 .. Window : times[i] <= more[i]
       PROVE  LwmaTime(times) <= LwmaTime(more)
  <2>1. \A i \in 1 .. Window : Weighted(times)[i] <= Weighted(more)[i]
    BY <1>0, <1>2, <1>6, <1>11
  <2> HIDE DEF Weighted
  <2>2. WeightedTime(times) <= WeightedTime(more)
    BY <1>3, <1>5, <2>1, SumMonotone
  <2>3. WeightedTime(times) \div total <= WeightedTime(more) \div total
    BY <1>1, <1>5, <2>2, DivisionMonotone
  <2> HIDE DEF total
  <2> QED BY <1>7, <1>8, <2>3
<1>12. LwmaTime(times) \in Nat \ {0}
  <2> HIDE DEF total
  <2> QED BY <1>7, <1>8
<1> QED BY <1>5, <1>9, <1>10, <1>11, <1>12

\* The target before it is rounded, for an average time.
Wanted(targets, time) ==
  Max({Min({(SumTarget(targets) * time) \div Spacing, PowLimit}), targets[1] \div 4})

LEMMA WantedFacts ==
  ASSUME NEW targets \in [1 .. Window -> 0 .. PowLimit], NEW time \in Nat \ {0}
  PROVE  /\ SumTarget(targets) \in Nat /\ targets[1] \div 4 \in Nat
         /\ Wanted(targets, time) \in targets[1] \div 4 .. PowLimit
         /\ time >= Spacing => Wanted(targets, time) >= Min({SumTarget(targets), PowLimit})
         /\ time <= Spacing => Wanted(targets, time) <= Max({SumTarget(targets), targets[1] \div 4})
         /\ \A more \in Nat : time <= more => Wanted(targets, time) <= Wanted(targets, more)
<1> DEFINE sum == SumTarget(targets)
           low == targets[1] \div 4
           Scaled(n) == (sum * n) \div Spacing
<1>0. Window \in Nat \ {0} /\ Spacing \in Nat \ {0} /\ PowLimit \in Nat \ {0}
  BY LwmaAssumption
<1>1. sum \in Nat
  <2> DEFINE g == [i \in 1 .. Window |-> targets[i] \div Window]
  <2>1. g \in OfWindow
    <3>1. \A i \in 1 .. Window : targets[i] \in Nat /\ targets[i] \div Window \in Nat
      BY <1>0, DivisionFacts
    <3> QED BY <3>1 DEF OfWindow
  <2>2. SumTarget(targets) = WindowSum(g)
    BY DEF SumTarget
  <2> HIDE DEF g
  <2>3. \A i \in 1 .. Window : g[i] <= g[i]
    BY <2>1 DEF OfWindow
  <2> QED BY <2>1, <2>2, <2>3, SumMonotone
<1>2. low \in 0 .. PowLimit
  <2>1. targets[1] \in 0 .. PowLimit
    BY <1>0
  <2> QED BY <2>1, <1>0
<1> HIDE DEF sum, low
<1>3. \A x, y, z \in Nat : x * z \in Nat /\ (y <= z => x * y <= x * z)
  BY SMTT(30)
<1>4. \A n \in Nat : sum * n \in Nat /\ Scaled(n) \in Nat
  <2>1. \A n \in Nat : sum * n \in Nat
    BY <1>1, <1>3
  <2> QED BY <1>0, <2>1, DivisionFacts
<1>5. Scaled(Spacing) = sum
  BY <1>0, <1>1, Z3
<1>6. \A m, n \in Nat : m <= n => Scaled(m) <= Scaled(n)
  <2> TAKE m, n \in Nat
  <2> HAVE m <= n
  <2>1. sum * m <= sum * n /\ sum * m \in Nat /\ sum * n \in Nat
    BY <1>1, <1>3
  <2> QED BY <1>0, <2>1, DivisionMonotone
<1> HIDE DEF Scaled
<1>7. \A n \in Nat : Wanted(targets, n) =
         IF Scaled(n) <= PowLimit THEN IF Scaled(n) >= low THEN Scaled(n) ELSE low ELSE PowLimit
  <2> TAKE n \in Nat
  <2>0. Scaled(n) \in Int /\ PowLimit \in Int
    BY <1>0, <1>4
  <2>1. Min({Scaled(n), PowLimit}) = IF Scaled(n) <= PowLimit THEN Scaled(n) ELSE PowLimit
    BY ONLY <2>0, MaxMinTwo
  <2>2. Min({Scaled(n), PowLimit}) \in Nat
    BY <1>0, <1>4, <2>1
  <2>3. Max({Min({Scaled(n), PowLimit}), low}) =
          IF Min({Scaled(n), PowLimit}) >= low THEN Min({Scaled(n), PowLimit}) ELSE low
    BY <1>2, <2>2, MaxMinTwo
  <2>4. Wanted(targets, n) = Max({Min({Scaled(n), PowLimit}), low})
    BY DEF Wanted, Scaled, sum, low
  <2> QED BY <1>0, <1>2, <2>0, <2>1, <2>3, <2>4
<1>8. Min({sum, PowLimit}) = IF sum <= PowLimit THEN sum ELSE PowLimit
  <2>1. sum \in Int /\ PowLimit \in Int
    BY <1>0, <1>1
  <2> QED BY ONLY <2>1, MaxMinTwo
<1>9. Max({sum, low}) = IF sum >= low THEN sum ELSE low
  BY <1>1, <1>2, MaxMinTwo
<1>10. ASSUME NEW n \in Nat
       PROVE  /\ Scaled(n) \in Nat /\ sum \in Nat /\ low \in Nat /\ PowLimit \in Nat /\ low <= PowLimit
              /\ Wanted(targets, n) =
                   IF Scaled(n) <= PowLimit THEN IF Scaled(n) >= low THEN Scaled(n) ELSE low ELSE PowLimit
  <2>1. low \in Nat /\ low <= PowLimit
    BY <1>0, <1>2
  <2> QED BY <1>0, <1>1, <1>4, <1>7, <2>1
<1>11. time \in Nat
  OBVIOUS
<1>12. Wanted(targets, time) \in low .. PowLimit
  <2> DEFINE x == Scaled(time)
             w == Wanted(targets, time)
  <2>1. /\ x \in Nat /\ low \in Nat /\ PowLimit \in Nat /\ low <= PowLimit
        /\ w = IF x <= PowLimit THEN IF x >= low THEN x ELSE low ELSE PowLimit
    BY <1>10, <1>11
  <2> HIDE DEF x, w
  <2>2. w \in low .. PowLimit
    BY ONLY <2>1
  <2> QED BY <2>2 DEF w
<1>13. ASSUME time >= Spacing
       PROVE  Wanted(targets, time) >= Min({sum, PowLimit})
  <2> DEFINE x == Scaled(time)
             w == Wanted(targets, time)
             m == Min({sum, PowLimit})
  <2>1. /\ x \in Nat /\ sum \in Nat /\ low \in Nat /\ PowLimit \in Nat /\ low <= PowLimit
        /\ w = IF x <= PowLimit THEN IF x >= low THEN x ELSE low ELSE PowLimit
    BY <1>10, <1>11
  <2>2. sum <= x
    BY <1>0, <1>5, <1>6, <1>11, <1>13
  <2>3. m = IF sum <= PowLimit THEN sum ELSE PowLimit
    BY <1>8
  <2> HIDE DEF x, w, m
  <2>4. w >= m
    BY ONLY <2>1, <2>2, <2>3
  <2> QED BY <2>4 DEF w, m
<1>14. ASSUME time <= Spacing
       PROVE  Wanted(targets, time) <= Max({sum, low})
  <2> DEFINE x == Scaled(time)
             w == Wanted(targets, time)
             m == Max({sum, low})
  <2>1. /\ x \in Nat /\ sum \in Nat /\ low \in Nat /\ PowLimit \in Nat
        /\ w = IF x <= PowLimit THEN IF x >= low THEN x ELSE low ELSE PowLimit
    BY <1>10, <1>11
  <2>2. x <= sum
    BY <1>0, <1>5, <1>6, <1>11, <1>14
  <2>3. m = IF sum >= low THEN sum ELSE low
    BY <1>9
  <2> HIDE DEF x, w, m
  <2>4. w <= m
    BY ONLY <2>1, <2>2, <2>3
  <2> QED BY <2>4 DEF w, m
<1>15. ASSUME NEW more \in Nat, time <= more
       PROVE  Wanted(targets, time) <= Wanted(targets, more)
  <2> DEFINE x == Scaled(time)
             y == Scaled(more)
             w == Wanted(targets, time)
             v == Wanted(targets, more)
  <2>1. /\ x \in Nat /\ low \in Nat /\ PowLimit \in Nat /\ low <= PowLimit
        /\ w = IF x <= PowLimit THEN IF x >= low THEN x ELSE low ELSE PowLimit
    BY <1>10, <1>11
  <2>2. y \in Nat /\ v = IF y <= PowLimit THEN IF y >= low THEN y ELSE low ELSE PowLimit
    BY <1>10
  <2>3. x <= y
    BY <1>6, <1>11, <1>15
  <2> HIDE DEF x, y, w, v
  <2>4. w <= v
    BY ONLY <2>1, <2>2, <2>3
  <2> QED BY <2>4 DEF w, v
<1>16. sum \in Nat /\ low \in Nat
  BY <1>10, <1>11
<1> QED BY <1>12, <1>13, <1>14, <1>15, <1>16 DEF sum, low

-----------------------------------------------------------------------------
(* The difficulty: branches of headers. *)

HeaderFacts == [time: Nat, target: 0 .. PowLimit]
Branches == {b \in Seq(HeaderFacts) : Len(b) > 0}

\* The header targets are in range and their times are of the clock.
LwmaInv == headers \in Branches /\ now \in Nat /\ params \in Networks

LEMMA NetworkFacts ==
  ASSUME NEW net \in Networks
  PROVE  net.fPowAllowMinDifficultyBlocks \in BOOLEAN /\ net.fPowNoRetargeting \in BOOLEAN
BY LwmaAssumption

\* The median is the time of one of the headers.
LEMMA MedianFacts ==
  ASSUME NEW branch \in Branches
  PROVE  MedianTimePast(branch) \in Nat
<1> DEFINE n == Len(branch)
           from == Max({1, n - MedianSpan + 1})
           span == from .. n
           half == Cardinality(span) \div 2
           Times == {branch[i].time : i \in span}
           Until(t) == {i \in span : branch[i].time <= t}
           Below(t) == {i \in span : branch[i].time < t}
           Median(t) == Cardinality(Below(t)) <= half /\ Cardinality(Until(t)) > half
           Enough == {t \in Nat : Cardinality(Until(t)) > half}
<1>1. n \in Nat \ {0} /\ MedianSpan \in Nat \ {0}
  BY LwmaAssumption DEF Branches
<1>2. from \in 1 .. n
  <2>1. n - MedianSpan + 1 \in Int /\ n - MedianSpan + 1 <= n
    BY <1>1
  <2>2. from = IF 1 >= n - MedianSpan + 1 THEN 1 ELSE n - MedianSpan + 1
    BY <2>1, MaxMinTwo
  <2> HIDE DEF from
  <2> QED BY <1>1, <2>1, <2>2
<1> HIDE DEF from
<1>3. \A i \in span : i \in 1 .. n /\ branch[i].time \in Nat
  <2>1. \A i \in 1 .. n : branch[i] \in HeaderFacts
    BY DEF Branches
  <2>2. \A i \in span : i \in 1 .. n
    BY <1>1, <1>2
  <2> QED BY <2>1, <2>2 DEF HeaderFacts
<1>4. IsFiniteSet(span) /\ Cardinality(span) \in Nat \ {0}
  <2>1. from \in Int /\ n \in Int /\ from <= n
    BY <1>1, <1>2
  <2>2. IsFiniteSet(span) /\ Cardinality(span) = n - from + 1
    BY <2>1, FS_Interval
  <2> QED BY <1>1, <1>2, <2>2
<1> DEFINE c == Cardinality(span)
<1>5. half \in Nat /\ half < Cardinality(span)
  <2>1. c \in Nat \ {0}
    BY <1>4
  <2> HIDE DEF c
  <2>2. c \div 2 \in Nat /\ c \div 2 < c
    BY <2>1
  <2> QED BY <2>2 DEF c
<1>6. \A t : /\ IsFiniteSet(Until(t)) /\ Cardinality(Until(t)) \in Nat
             /\ IsFiniteSet(Below(t)) /\ Cardinality(Below(t)) \in Nat
  <2> TAKE t
  <2>1. Until(t) \in SUBSET span /\ Below(t) \in SUBSET span
    OBVIOUS
  <2> HIDE DEF Until, Below, span
  <2> QED BY <1>4, <2>1, FS_Subset, FS_CardinalityType
<1>7. \E t \in Nat : Until(t) = span
  <2> DEFINE Good == {k \in Nat : from + k - 1 <= n =>
                        \E t \in Nat : \A i \in from .. from + k - 1 : branch[i].time <= t}
  <2>1. 0 \in Good
    <3>1. from .. from + 0 - 1 = {}
      BY <1>2
    <3> QED BY <3>1
  <2>2. ASSUME NEW k \in Nat, k \in Good
        PROVE  k + 1 \in Good
    <3> SUFFICES ASSUME from + (k + 1) - 1 <= n
                 PROVE  \E t \in Nat : \A i \in from .. from + (k + 1) - 1 : branch[i].time <= t
      OBVIOUS
    <3>1. PICK t \in Nat : \A i \in from .. from + k - 1 : branch[i].time <= t
      BY <1>1, <1>2, <2>2
    <3>2. from + k \in span
      BY <1>1, <1>2
    <3> DEFINE u == IF branch[from + k].time <= t THEN t ELSE branch[from + k].time
    <3>3. u \in Nat /\ t <= u /\ branch[from + k].time <= u
      BY <1>3, <3>2
    <3> HIDE DEF u
    <3>4. ASSUME NEW i \in from .. from + (k + 1) - 1
          PROVE  branch[i].time <= u
      <4>1. CASE i = from + k
        BY <3>3, <4>1
      <4>2. CASE i # from + k
        <5>1. i \in from .. from + k - 1
          BY <1>2, <4>2
        <5>2. i \in span
          BY <1>1, <1>2, <5>1
        <5> QED BY <1>3, <3>1, <3>3, <5>1, <5>2
      <4> QED BY <4>1, <4>2
    <3> QED BY <3>3, <3>4
  <2>3. Nat \subseteq Good
    <3> HIDE DEF Good
    <3> QED BY <2>1, <2>2, UpByOne
  <2>4. n - from + 1 \in Nat /\ from + (n - from + 1) - 1 = n
    BY <1>1, <1>2
  <2>5. PICK t \in Nat : \A i \in span : branch[i].time <= t
    <3> DEFINE k == n - from + 1
    <3>1. k \in Nat /\ from + k - 1 = n
      BY <2>4
    <3> HIDE DEF k
    <3>2. k \in Good
      BY <2>3, <3>1
    <3> QED BY <1>1, <3>1, <3>2
  <2> QED BY <2>5
<1>8. PICK t \in Enough : \A u \in Enough : t <= u
  <2>1. Enough # {}
    <3>1. PICK t \in Nat : Until(t) = span
      BY <1>7
    <3>2. Cardinality(Until(t)) > half
      <4> HIDE DEF half, Until, span
      <4> QED BY <1>4, <1>5, <3>1
    <3> QED BY <3>2
  <2> HIDE DEF Enough
  <2>2. Enough \subseteq Nat
    BY DEF Enough
  <2> QED BY <2>1, <2>2, LeastNatural
<1>9. Cardinality(Below(t)) <= half
  <2>1. CASE t = 0
    <3>1. Below(t) = {}
      BY <1>3, <2>1
    <3>2. Cardinality({}) = 0
      BY FS_EmptySet
    <3> HIDE DEF Below, half
    <3> QED BY <1>5, <3>1, <3>2
  <2>2. CASE t # 0
    <3>1. t - 1 \in Nat /\ Below(t) = Until(t - 1)
      BY <1>3, <2>2
    <3>2. t - 1 \notin Enough
      BY <1>8, <3>1
    <3>3. ~(Cardinality(Until(t - 1)) > half)
      BY <3>1, <3>2
    <3> HIDE DEF Below, Until, half, Enough
    <3> QED BY <1>5, <1>6, <3>1, <3>3
  <2> QED BY <2>1, <2>2
<1>10. Median(t)
  BY <1>8, <1>9
<1>11. t \in Times
  <2>1. Below(t) # Until(t)
    <3>1. Cardinality(Until(t)) > half
      BY <1>8
    <3> HIDE DEF Below, Until, half
    <3> QED BY <1>5, <1>6, <1>9, <3>1
  <2>2. PICK i \in span : i \in Until(t) /\ i \notin Below(t)
    BY <2>1, <1>3
  <2>3. branch[i].time = t
    BY <1>3, <1>8, <2>2
  <2> QED BY <2>3
<1>12. MedianTimePast(branch) = CHOOSE x \in Times : Median(x)
  BY DEF MedianTimePast, from
<1>13. MedianTimePast(branch) \in Times
  <2> HIDE DEF Times, Median
  <2> QED BY <1>10, <1>11, <1>12
<1> QED BY <1>3, <1>13

\* The targets and the times of the window.
LEMMA WindowFacts ==
  ASSUME NEW branch \in Branches, Height(branch) >= Window
  PROVE  /\ WindowTargets(branch) \in [1 .. Window -> 0 .. PowLimit]
         /\ WindowTargets(branch)[1] = Last(branch).target
         /\ WindowTimes(branch) \in OfWindow
         /\ LWMACalculateNextWorkRequired(branch)
              = Compact(Wanted(WindowTargets(branch), LwmaTime(WindowTimes(branch))))
<1>1. Window \in Nat \ {0} /\ Spacing \in Nat \ {0} /\ Len(branch) \in Nat /\ Len(branch) - 1 >= Window
  BY LwmaAssumption DEF Branches, Height
<1>2. \A i \in 1 .. Len(branch) : branch[i].time \in Nat /\ branch[i].target \in 0 .. PowLimit
  <2>1. \A i \in 1 .. Len(branch) : branch[i] \in HeaderFacts
    BY DEF Branches
  <2> QED BY <2>1 DEF HeaderFacts
<1>3. ASSUME NEW i \in 1 .. Window
      PROVE  Len(branch) - i + 1 \in 1 .. Len(branch) /\ SolveTime(branch, i) \in Nat
  <2> DEFINE top == Len(branch) - i + 1
             took == branch[top].time - branch[top - 1].time
  <2>1. top \in 1 .. Len(branch) /\ top - 1 \in 1 .. Len(branch)
    BY <1>1
  <2>2. took \in Int
    BY <1>2, <2>1
  <2> HIDE DEF took
  <2>3. 2 * Spacing \in Int
    BY <1>1
  <2>4. Min({took, 2 * Spacing}) = IF took <= 2 * Spacing THEN took ELSE 2 * Spacing
    BY <2>2, <2>3, MaxMinTwo
  <2>5. Min({took, 2 * Spacing}) \in Int
    BY <2>2, <2>3, <2>4
  <2> DEFINE x == Min({took, 2 * Spacing})
  <2>6. Max({x, 1}) \in Nat
    <3>1. x \in Int
      BY <2>5
    <3> HIDE DEF x
    <3>2. Max({x, 1}) = IF x >= 1 THEN x ELSE 1
      BY <3>1, MaxMinTwo
    <3> QED BY <3>1, <3>2
  <2> QED BY <2>1, <2>6 DEF SolveTime, took
<1>4. WindowTargets(branch) \in [1 .. Window -> 0 .. PowLimit]
  BY <1>2, <1>3 DEF WindowTargets
<1>5. WindowTargets(branch)[1] = Last(branch).target
  <2>1. 1 \in 1 .. Window /\ Len(branch) - 1 + 1 = Len(branch)
    BY <1>1
  <2> QED BY <2>1 DEF WindowTargets, Last
<1>6. WindowTimes(branch) \in OfWindow
  BY <1>3 DEF WindowTimes, OfWindow
<1>7. ~(Height(branch) < Window)
  BY <1>1 DEF Height
<1> QED BY <1>4, <1>5, <1>6, <1>7 DEF LWMACalculateNextWorkRequired, LwmaTarget, LwmaTime, Wanted

\* The next target is in range, and not zero unless the targets came down to less than 4.
LEMMA NextTarget ==
  ASSUME NEW branch \in Branches
  PROVE  /\ LWMACalculateNextWorkRequired(branch) \in 0 .. PowLimit
         /\ Height(branch) < Window \/ Last(branch).target >= 4
              => LWMACalculateNextWorkRequired(branch) > 0
         /\ Compact(PowLimit) \in 1 .. PowLimit
<1>1. PowLimit \in Nat \ {0} /\ Compact(PowLimit) \in 1 .. PowLimit
  BY LwmaAssumption, CompactPositive
<1>2. CASE Height(branch) < Window
  BY <1>1, <1>2 DEF LWMACalculateNextWorkRequired
<1>3. CASE ~(Height(branch) < Window)
  <2> DEFINE wanted == Wanted(WindowTargets(branch), LwmaTime(WindowTimes(branch)))
             low == WindowTargets(branch)[1] \div 4
  <2>0. Height(branch) >= Window
    BY <1>3, LwmaAssumption DEF Branches, Height
  <2>1. LWMACalculateNextWorkRequired(branch) = Compact(wanted) /\ low \in Nat /\ wanted \in low .. PowLimit
    <3>1. LwmaTime(WindowTimes(branch)) \in Nat \ {0}
      BY <2>0, WindowFacts, LwmaTimeFacts
    <3> QED BY <2>0, <3>1, WindowFacts, WantedFacts
  <2>2. Last(branch).target >= 4 => low >= 1
    <3>1. WindowTargets(branch)[1] = Last(branch).target /\ Last(branch).target \in 0 .. PowLimit
      <4>1. 1 \in 1 .. Window
        BY LwmaAssumption
      <4> QED BY <2>0, <4>1, WindowFacts
    <3> QED BY <1>1, <3>1
  <2> HIDE DEF wanted, low
  <2>3. wanted \in Nat /\ wanted <= PowLimit
    BY <1>1, <2>1
  <2>4. Compact(wanted) \in 0 .. wanted /\ (wanted # 0 => Compact(wanted) > 0)
    BY <2>3, CompactIs, CompactPositive
  <2> QED BY <1>1, <1>3, <2>1, <2>2, <2>3, <2>4
<1> QED BY <1>1, <1>2, <1>3

LEMMA NextWorkInRange ==
  ASSUME NEW branch \in Branches, NEW time, NEW net \in Networks
  PROVE  GetNextWorkRequired(branch, time, net) \in 0 .. PowLimit
<1>1. Last(branch).target \in 0 .. PowLimit
  <2>1. Len(branch) \in 1 .. Len(branch) /\ branch \in Seq(HeaderFacts)
    BY DEF Branches
  <2>2. branch[Len(branch)] \in HeaderFacts
    BY <2>1
  <2> QED BY <2>2 DEF HeaderFacts, Last
<1>2. Compact(PowLimit) \in 0 .. PowLimit
  BY NextTarget, LwmaAssumption
<1> QED BY <1>1, <1>2, NextTarget DEF GetNextWorkRequired
-----------------------------------------------------------------------------
LEMMA LwmaInvInit == LwmaInit => LwmaInv
<1> SUFFICES ASSUME LwmaInit
             PROVE  LwmaInv
  OBVIOUS
<1>1. Compact(PowLimit) \in 0 .. PowLimit
  <2>1. PowLimit \in Nat \ {0}
    BY LwmaAssumption
  <2> QED BY <2>1, CompactIs
<1>2. headers \in Seq(HeaderFacts) /\ Len(headers) = 1
  <2>1. [time |-> 0, target |-> Compact(PowLimit)] \in HeaderFacts
    BY <1>1 DEF HeaderFacts
  <2> QED BY <2>1 DEF LwmaInit
<1> QED BY <1>2 DEF LwmaInit, LwmaInv, Branches

LEMMA LwmaInvNext == LwmaInv /\ [LwmaNext]_lwmaVars => LwmaInv'
<1> SUFFICES ASSUME LwmaInv, [LwmaNext]_lwmaVars
             PROVE  LwmaInv'
  OBVIOUS
<1>0. headers \in Branches /\ headers \in Seq(HeaderFacts) /\ Len(headers) \in Nat \ {0}
  BY DEF LwmaInv, Branches
<1>1. CASE AddHeader
  <2>1. PICK header \in Offered :
          /\ AcceptBlockHeader(headers, header, params, now) = "ok"
          /\ headers' = Append(headers, [time |-> header.time, target |-> header.target])
    BY <1>1 DEF AddHeader
  <2>2. header.time \in Nat
    <3>1. now \in Nat /\ MaxFuture \in Nat
      BY LwmaAssumption DEF LwmaInv
    <3>2. header.time \in 0 .. now + MaxFuture + 1
      BY <2>1 DEF Offered
    <3> QED BY <3>1, <3>2
  <2>3. header.target = GetNextWorkRequired(headers, header.time, params)
    BY <2>1 DEF AcceptBlockHeader, ContextualCheckBlockHeader
  <2>4. header.target \in 0 .. PowLimit
    BY <2>3, NextWorkInRange DEF LwmaInv
  <2>5. [time |-> header.time, target |-> header.target] \in HeaderFacts
    BY <2>2, <2>4 DEF HeaderFacts
  <2>6. headers' \in Seq(HeaderFacts) /\ Len(headers') = Len(headers) + 1
    BY <1>0, <2>1, <2>5
  <2> QED BY <1>0, <1>1, <2>6 DEF LwmaInv, Branches, AddHeader
<1>2. CASE DropTip
  <2>1. Len(headers) > 1 /\ headers' = [i \in 1 .. Len(headers) - 1 |-> headers[i]]
    BY <1>2 DEF DropTip, Front
  <2>2. headers' \in Seq(HeaderFacts) /\ Len(headers') = Len(headers) - 1
    BY <1>0, <2>1
  <2> QED BY <1>0, <1>2, <2>1, <2>2 DEF LwmaInv, Branches, DropTip
<1>3. CASE Tick
  BY <1>3, LwmaAssumption DEF LwmaInv, Tick
<1>4. CASE UNCHANGED lwmaVars
  BY <1>4 DEF LwmaInv, lwmaVars
<1> QED BY <1>1, <1>2, <1>3, <1>4 DEF LwmaNext

LEMMA LwmaInvAlways == LwmaSpec => []LwmaInv
BY LwmaInvInit, LwmaInvNext, PTL DEF LwmaSpec
-----------------------------------------------------------------------------
\* After a window of blocks that all took their time or longer the target does not fall
\* below their mean, after one of blocks that took no longer it does not rise above it, but
\* for the limits and the rounding: for every window, every spacing, every radix and limit.
THEOREM PaceIsSteered == LwmaSpec => []PaceSteersTarget
<1>1. LwmaInv => PaceSteersTarget
  <2> DEFINE times == WindowTimes(headers)
             targets == WindowTargets(headers)
             mean == SumTarget(targets)
             low == Last(headers).target \div 4
             time == LwmaTime(times)
             wanted == Wanted(targets, time)
             next == LWMACalculateNextWorkRequired(headers)
  <2> SUFFICES ASSUME LwmaInv, Retargets
               PROVE  /\ (\A i \in 1 .. Window : times[i] >= Spacing) => next >= Compact(Min({mean, PowLimit}))
                      /\ (\A i \in 1 .. Window : times[i] <= Spacing) => next <= Compact(Max({mean, low}))
    BY DEF PaceSteersTarget
  <2>1. headers \in Branches /\ Height(headers) >= Window
    BY DEF LwmaInv, Retargets
  <2>2. /\ targets \in [1 .. Window -> 0 .. PowLimit] /\ targets[1] = Last(headers).target
        /\ times \in OfWindow /\ next = Compact(wanted)
    BY <2>1, WindowFacts
  <2> HIDE DEF times, targets
  <2>3. /\ time \in Nat \ {0}
        /\ (\A i \in 1 .. Window : times[i] >= Spacing) => time >= Spacing
        /\ (\A i \in 1 .. Window : times[i] <= Spacing) => time <= Spacing
    BY <2>2, LwmaTimeFacts
  <2> HIDE DEF time
  <2>4. /\ mean \in Nat /\ low \in Nat /\ wanted \in low .. PowLimit
        /\ time >= Spacing => wanted >= Min({mean, PowLimit})
        /\ time <= Spacing => wanted <= Max({mean, low})
    BY <2>2, <2>3, WantedFacts
  <2>5. PowLimit \in Nat
    BY LwmaAssumption
  <2> HIDE DEF mean, low, wanted
  <2>6. wanted \in Nat /\ Min({mean, PowLimit}) \in Nat /\ Max({mean, low}) \in Nat
    <3>1. mean \in Int /\ low \in Int /\ PowLimit \in Int
      BY <2>4, <2>5
    <3>2. Min({mean, PowLimit}) \in Nat
      <4>1. Min({mean, PowLimit}) = IF mean <= PowLimit THEN mean ELSE PowLimit
        BY ONLY <3>1, MaxMinTwo
      <4> QED BY <2>4, <2>5, <4>1
    <3>3. Max({mean, low}) \in Nat
      BY <2>4, <3>1, MaxMinTwo
    <3> QED BY <2>4, <2>5, <3>2, <3>3
  <2>7. \A a, b \in Nat : a <= b => Compact(a) <= Compact(b)
    BY CompactMonotone
  <2>8. \A a \in Nat : Compact(a) \in Nat
    BY CompactIs
  <2>9. time >= Spacing => Compact(Min({mean, PowLimit})) <= Compact(wanted)
    BY <2>4, <2>6, <2>7
  <2>10. time <= Spacing => Compact(wanted) <= Compact(Max({mean, low}))
    BY <2>4, <2>6, <2>7
  <2> QED BY <2>2, <2>3, <2>6, <2>8, <2>9, <2>10
<1> QED BY <1>1, LwmaInvAlways, PTL

\* A block that comes later never makes the next one harder.
THEOREM LaterIsNeverHarder == LwmaSpec => []LaterNeverHarder
<1>1. LwmaInv => LaterNeverHarder
  <2> DEFINE n == Len(headers)
             later == [headers EXCEPT ![Len(headers)].time = @ + 1]
             times == WindowTimes(headers)
             more == WindowTimes(later)
             targets == WindowTargets(headers)
  <2> SUFFICES ASSUME LwmaInv, Retargets
               PROVE  LWMACalculateNextWorkRequired(later) >= LWMACalculateNextWorkRequired(headers)
    BY DEF LaterNeverHarder
  <2>1. headers \in Branches /\ Height(headers) >= Window /\ headers \in Seq(HeaderFacts)
    BY DEF LwmaInv, Retargets, Branches
  <2>2. n \in Nat \ {0} /\ n - 1 >= Window /\ Window \in Nat \ {0} /\ Spacing \in Nat \ {0}
    BY <2>1, LwmaAssumption DEF Branches, Height
  <2>3. \A i \in 1 .. n : /\ headers[i] \in HeaderFacts /\ headers[i].time \in Nat
                          /\ headers[i].target \in 0 .. PowLimit
    <3>1. \A i \in 1 .. n : headers[i] \in HeaderFacts
      BY <2>1
    <3> QED BY <3>1 DEF HeaderFacts
  <2>4. /\ later \in Seq(HeaderFacts) /\ Len(later) = n
        /\ \A i \in 1 .. n : later[i].target = headers[i].target
        /\ \A i \in 1 .. n : later[i].time = IF i = n THEN headers[i].time + 1 ELSE headers[i].time
    <3> DEFINE changed == [headers[n] EXCEPT !.time = headers[n].time + 1]
    <3>1. n \in 1 .. n
      BY <2>2
    <3>2. changed \in HeaderFacts /\ changed.target = headers[n].target /\ changed.time = headers[n].time + 1
      BY <2>3, <3>1 DEF HeaderFacts
    <3>3. later = [headers EXCEPT ![n] = changed]
      OBVIOUS
    <3> HIDE DEF changed, later
    <3> QED BY <2>1, <3>1, <3>2, <3>3
  <2> HIDE DEF later
  <2>5. later \in Branches /\ Height(later) >= Window
    BY <2>1, <2>2, <2>4 DEF Branches, Height
  <2>6. WindowTargets(later) = targets
    <3>1. \A i \in 1 .. Window : n - i + 1 \in 1 .. n
      BY <2>2
    <3> QED BY <2>4, <3>1 DEF WindowTargets
  <2>7. ASSUME NEW i \in 1 .. Window
        PROVE  times[i] <= more[i]
    <3> DEFINE top == n - i + 1
               a == headers[top].time - headers[top - 1].time
               b == later[top].time - later[top - 1].time
               cap == 2 * Spacing
    <3>1. top \in 1 .. n /\ top - 1 \in 1 .. n /\ top - 1 # n
      BY <2>2
    <3>2. a \in Int /\ b \in Int /\ a <= b /\ cap \in Int
      <4>1. /\ headers[top].time \in Nat /\ headers[top - 1].time \in Nat
            /\ later[top - 1].time = headers[top - 1].time
            /\ later[top].time = IF top = n THEN headers[top].time + 1 ELSE headers[top].time
        <5> HIDE DEF top, n
        <5> QED BY <2>3, <2>4, <3>1
      <4> HIDE DEF top
      <4>2. a \in Int /\ b \in Int /\ a <= b
        BY <4>1
      <4> QED BY <2>2, <4>2
    <3>3. times[i] = Max({Min({a, cap}), 1}) /\ more[i] = Max({Min({b, cap}), 1})
      BY <2>4 DEF WindowTimes, SolveTime
    <3> HIDE DEF a, b, cap, top
    <3>4. /\ Min({a, cap}) = IF a <= cap THEN a ELSE cap
          /\ Min({b, cap}) = IF b <= cap THEN b ELSE cap
      BY <3>2, MaxMinTwo
    <3> DEFINE x == Min({a, cap})
               y == Min({b, cap})
    <3>5. x \in Int /\ y \in Int /\ x <= y
      BY <3>2, <3>4
    <3> HIDE DEF x, y
    <3>6. Max({x, 1}) = (IF x >= 1 THEN x ELSE 1) /\ Max({y, 1}) = (IF y >= 1 THEN y ELSE 1)
      BY <3>5, MaxMinTwo
    <3>7. Max({x, 1}) <= Max({y, 1})
      BY <3>5, <3>6
    <3> QED BY <3>3, <3>7 DEF x, y
  <2>8. /\ targets \in [1 .. Window -> 0 .. PowLimit] /\ times \in OfWindow /\ more \in OfWindow
        /\ LWMACalculateNextWorkRequired(headers) = Compact(Wanted(targets, LwmaTime(times)))
        /\ LWMACalculateNextWorkRequired(later) = Compact(Wanted(targets, LwmaTime(more)))
    BY <2>1, <2>5, <2>6, WindowFacts
  <2> HIDE DEF times, more, targets
  <2>9. /\ LwmaTime(times) \in Nat \ {0} /\ LwmaTime(more) \in Nat \ {0}
        /\ LwmaTime(times) <= LwmaTime(more)
    BY <2>7, <2>8, LwmaTimeFacts
  <2> DEFINE w == Wanted(targets, LwmaTime(times))
             v == Wanted(targets, LwmaTime(more))
  <2>10. w \in Nat /\ v \in Nat /\ w <= v
    <3>1. w <= v /\ w \in targets[1] \div 4 .. PowLimit /\ v \in targets[1] \div 4 .. PowLimit
          /\ targets[1] \div 4 \in Nat
      BY <2>8, <2>9, WantedFacts
    <3> QED BY <3>1, LwmaAssumption
  <2> HIDE DEF w, v
  <2>11. Compact(w) <= Compact(v) /\ Compact(w) \in Nat /\ Compact(v) \in Nat
    BY <2>10, CompactMonotone, CompactIs
  <2> QED BY <2>8, <2>11 DEF w, v
<1> QED BY <1>1, LwmaInvAlways, PTL

\* While the target of the tip is 4 or more, something is left of the next one.
THEOREM TargetsDoNotRunOut ==
  LwmaSpec => [](Last(headers).target >= 4 => LWMACalculateNextWorkRequired(headers) > 0)
<1>1. LwmaInv => (Last(headers).target >= 4 => LWMACalculateNextWorkRequired(headers) > 0)
  BY NextTarget DEF LwmaInv
<1> QED BY <1>1, LwmaInvAlways, PTL

\* The header that UpdateTime makes for a template is one this node accepts, whenever the
\* template was begun, on every network and for every branch, unless the median of the
\* branch is as far ahead as a time may be or nothing is left of the next target.
THEOREM MinerHeaderIsAccepted == LwmaSpec => []MinerHeaderAccepted
<1>1. LwmaInv => MinerHeaderAccepted
  <2> SUFFICES ASSUME LwmaInv, MedianTimePast(headers) < now + MaxFuture,
                      Retargets => LWMACalculateNextWorkRequired(headers) > 0,
                      NEW begun \in 0 .. now
               PROVE  AcceptBlockHeader(headers, UpdateTime(headers, begun, params, now), params, now) = "ok"
    BY DEF MinerHeaderAccepted
  <2> DEFINE header == UpdateTime(headers, begun, params, now)
             median == MedianTimePast(headers)
             next == GetNextWorkRequired(headers, header.time, params)
  <2>1. headers \in Branches /\ now \in Nat /\ MaxFuture \in Nat /\ begun \in Nat /\ begun <= now
        /\ params \in Networks /\ PowLimit \in Nat
    BY LwmaAssumption DEF LwmaInv
  <2>2. median \in Nat
    BY <2>1, MedianFacts
  <2>3. header.time > median /\ header.time <= now + MaxFuture /\ header.hash = 0 /\ header.target = next
    <3> DEFINE m == median + 1
               x == Max({m, now})
    <3>1. m \in Int /\ now \in Int
      BY <2>1, <2>2
    <3>2. x = IF m >= now THEN m ELSE now
      BY <3>1, MaxMinTwo
    <3>3. x \in Int /\ x > median /\ x <= now + MaxFuture
      <4> HIDE DEF x
      <4> QED BY <2>1, <2>2, <3>2
    <3>4. header.time = Max({begun, x}) /\ header.hash = 0 /\ header.target = next
      BY DEF UpdateTime
    <3> HIDE DEF x, header, median
    <3>5. Max({begun, x}) = IF begun >= x THEN begun ELSE x
      BY <2>1, <3>3, MaxMinTwo
    <3> QED BY <2>1, <2>2, <3>3, <3>4, <3>5
  <2> HIDE DEF header, median
  <2>4. next \in 0 .. PowLimit
    BY <2>1, NextWorkInRange
  <2>5. params.fPowNoRetargeting \/ next > 0
    <3> SUFFICES ASSUME ~params.fPowNoRetargeting
                 PROVE  next > 0
      OBVIOUS
    <3>1. CASE Height(headers) < Window
      <4>1. LWMACalculateNextWorkRequired(headers) > 0 /\ Compact(PowLimit) > 0
        BY <2>1, <3>1, NextTarget
      <4> QED BY <4>1 DEF GetNextWorkRequired
    <3>2. CASE ~(Height(headers) < Window)
      <4>1. Height(headers) >= Window
        BY <2>1, <3>2, LwmaAssumption DEF Branches, Height
      <4>2. LWMACalculateNextWorkRequired(headers) > 0 /\ Compact(PowLimit) > 0
        BY <2>1, <4>1, NextTarget DEF Retargets
      <4> QED BY <4>2 DEF GetNextWorkRequired
    <3> QED BY <3>1, <3>2
  <2>6. CheckProofOfWork(header, params)
    BY <2>1, <2>3, <2>4, <2>5 DEF CheckProofOfWork
  <2>7. ContextualCheckBlockHeader(headers, header, params, now) = "ok"
    <3>1. ~(header.time <= median) /\ ~(header.time > now + MaxFuture)
      <4>1. header.time \in Int
        BY <2>1, <2>2, MaxMinTwo DEF header, UpdateTime, median
      <4> QED BY <2>1, <2>2, <2>3, <4>1
    <3> QED BY <2>3, <3>1 DEF ContextualCheckBlockHeader, median
  <2>8. AcceptBlockHeader(headers, header, params, now) = "ok"
    BY <2>6, <2>7 DEF AcceptBlockHeader
  <2> QED BY <2>8 DEF header
<1> QED BY <1>1, LwmaInvAlways, PTL
=============================================================================
