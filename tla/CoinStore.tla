------------------------------ MODULE CoinStore ------------------------------
(***************************************************************************)
(* What the coins database promises: it holds the coins of one block, a    *)
(* flush replaces them by those of the cache in one step, and a restart,   *)
(* whatever it interrupts, begins with what the last flush left.  Only a   *)
(* node that prunes may lose them, and has to build them anew.             *)
(***************************************************************************)
CONSTANTS
  Blocks, Genesis, Parent,
  UTXO,             \* UTXO[b]: the coins after block b
  Lost

VARIABLES
  cache,            \* the coins the node works on
  durable,          \* the coins it would begin with after a crash
  prunes

Init == cache = UTXO[Genesis] /\ durable = UTXO[Genesis] /\ prunes \in BOOLEAN

\* One block is connected or disconnected.
Move ==
  /\ \E b \in Blocks \ {Genesis} : {cache, cache'} = {UTXO[b], UTXO[Parent[b]]}
  /\ UNCHANGED <<durable, prunes>>

Flush == durable' = cache /\ UNCHANGED <<cache, prunes>>

Restart == cache' = durable /\ UNCHANGED <<durable, prunes>>

Lose == prunes /\ durable' = Lost /\ UNCHANGED <<cache, prunes>>

Next == Move \/ Flush \/ Restart \/ Lose

Spec == Init /\ [][Next]_<<cache, durable, prunes>>
=============================================================================
