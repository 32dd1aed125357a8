----------------------------- MODULE MCConsensus -----------------------------
(***************************************************************************)
(* The arithmetic of the consensus rules.  A behaviour exercises one of    *)
(* two parts, which share no state: the callers of the season table, or    *)
(* the headers of one branch with the vaults of its blocks.                *)
(*                                                                         *)
(* On the branch a block that is added pays for the vaults, and a block    *)
(* that is dropped takes that back; a window of three blocks should take   *)
(* two units of time each.                                                 *)
(***************************************************************************)
EXTENDS MCSubsidy, Lwma, Vault

CONSTANTS v1, MaxVaultHeight

VARIABLE part   \* what this behaviour exercises

MainAndTest == {MainNet, TestNet}

\* Fees that can and cannot be shared out evenly, and one smaller than the blocks there are.
FewTiers == {[months |-> 1, blocks |-> 1, fee |-> 5], [months |-> 2, blocks |-> 2, fee |-> 2],
             [months |-> 3, blocks |-> 3, fee |-> 8]}

branchVars == <<lwmaVars, vaultVars>>
consensusVars == <<vars, branchVars, part>>

ConsensusInit ==
  /\ part \in {"season table", "branch"}
  /\ Init /\ LwmaInit /\ VaultInit

\* A vault is held by one of the first blocks, so that its lock ends on the branch.
EarlyVaults ==
  \A v \in Vaults : vaults[v] # NoVault => vaults[v].lock_start_block <= MaxVaultHeight

Connect == AddHeader /\ ConnectVaults /\ EarlyVaults'
Disconnect == DropTip /\ DisconnectVaults
ClockTicks == Tick /\ UNCHANGED vaultVars

ConsensusNext ==
  \/ part = "season table" /\ Next /\ UNCHANGED <<branchVars, part>>
  \/ part = "branch" /\ (Connect \/ Disconnect \/ ClockTicks) /\ UNCHANGED <<vars, part>>

ConsensusSpec == ConsensusInit /\ [][ConsensusNext]_consensusVars
=============================================================================
