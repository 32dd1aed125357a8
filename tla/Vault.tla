-------------------------------- MODULE Vault --------------------------------
(***************************************************************************)
(* The fee of a Golden Vault (golden_vault.cpp): coins are locked for a    *)
(* Fibonacci number of months against a fee, and the fee is shared out     *)
(* over the blocks of the lock.  Nothing in the repository calls these     *)
(* functions yet.  They are exercised as their comments mean them to be: a *)
(* vault begins in the block that holds it, every block pays its miner     *)
(* what GetVaultFeeForBlock says of every vault there is, and a block that *)
(* is disconnected takes back what it paid and the vaults it held.         *)
(***************************************************************************)
EXTENDS Integers

CONSTANTS
  Tiers,       \* LOCK_TIERS: [months, blocks, fee], fee what CalculateVaultFee returns
  Vaults,      \* the outputs that may lock coins
  NoVault

\* A VaultInfo, as far as the fee depends on it.
VaultInfos == [lock_start_block: Nat, unlock_block: Nat, fee_instants: Nat]

ASSUME VaultAssumption ==
  /\ NoVault \notin VaultInfos
  /\ Tiers \subseteq [months: Nat \ {0}, blocks: Nat \ {0}, fee: Nat]
  /\ \A t, u \in Tiers : t.months = u.months => t = u

VARIABLES
  height,  \* the height of the tip
  vaults,  \* vaults[v]: the VaultInfo of v, or NoVault
  paid     \* paid[v]: what the miners of the connected blocks got for v

vaultVars == <<height, vaults, paid>>
-----------------------------------------------------------------------------
\* The periods ValidateLockPeriod knows, and the tier it finds for one.
LockPeriods == {t.months : t \in Tiers}
ValidateLockPeriod(months) == CHOOSE t \in Tiers : t.months = months

CreateVaultInfo(months, currentBlock) ==
  LET tier == ValidateLockPeriod(months)
  IN  [lock_start_block |-> currentBlock,
       unlock_block     |-> currentBlock + tier.blocks,
       fee_instants     |-> tier.fee]

\* What the miner of a block gets for a vault.
GetVaultFeeForBlock_ShortLock(info, block) ==                       \* faulty
  LET blocks == info.unlock_block - info.lock_start_block
      base   == info.fee_instants \div blocks
      rest   == info.fee_instants % blocks
  IN  IF block \notin info.lock_start_block .. info.unlock_block THEN 0
      ELSE IF block = info.unlock_block THEN base + rest ELSE base
GetVaultFeeForBlock(info, block) ==
  LET blocks == info.unlock_block - info.lock_start_block + 1
      base   == info.fee_instants \div blocks
      rest   == info.fee_instants % blocks
  IN  IF block \notin info.lock_start_block .. info.unlock_block THEN 0
      ELSE IF block = info.unlock_block THEN base + rest ELSE base

\* What VerifyVaultFeeDistribution adds up for a block, vault by vault.
FeeOf(info, block) == IF info = NoVault THEN 0 ELSE GetVaultFeeForBlock(info, block)
-----------------------------------------------------------------------------
VaultInit ==
  /\ height = 0
  /\ vaults = [v \in Vaults |-> NoVault]
  /\ paid = [v \in Vaults |-> 0]

(* A block is connected with the vaults it holds: some outputs, each locked *)
(* for a period.                                                            *)
ConnectVaults ==
  /\ height' = height + 1
  /\ \E held \in SUBSET {v \in Vaults : vaults[v] = NoVault} :
       \E months \in [held -> LockPeriods] :
         vaults' = [v \in Vaults |->
                      IF v \in held THEN CreateVaultInfo(months[v], height + 1) ELSE vaults[v]]
  /\ paid' = [v \in Vaults |-> paid[v] + FeeOf(vaults'[v], height + 1)]

DisconnectVaults ==
  /\ height > 0
  /\ height' = height - 1
  /\ paid' = [v \in Vaults |-> paid[v] - FeeOf(vaults[v], height)]
  /\ vaults' = [v \in Vaults |->
                  IF vaults[v] # NoVault /\ vaults[v].lock_start_block = height
                    THEN NoVault ELSE vaults[v]]

VaultNext == ConnectVaults \/ DisconnectVaults

VaultSpec == VaultInit /\ [][VaultNext]_vaultVars
-----------------------------------------------------------------------------
(* The promise of golden_vault.cpp (line 8) and golden_vault.h (line 67):   *)
(* the payments for a vault add up to its fee exactly once the chain has    *)
(* reached its unlock height; at no height, on no branch, are they more,    *)
(* and a vault whose block is gone has been paid nothing                    *)
(* (GetVaultFeeForBlock, CreateVaultInfo).                                  *)
FeesAddUp ==
  \A v \in Vaults :
    IF vaults[v] = NoVault
      THEN paid[v] = 0
      ELSE /\ paid[v] \in 0 .. vaults[v].fee_instants
           /\ height >= vaults[v].unlock_block => paid[v] = vaults[v].fee_instants
=============================================================================
