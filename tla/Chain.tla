------------------------------- MODULE Chain --------------------------------
(***************************************************************************)
(* EXTERNAL: the EVM + CometBFT node as the load tester uses it, through   *)
(* SendTransaction, NonceAt(latest) and PendingNonceAt.  Nothing of it is  *)
(* under src/: what a node may do is taken from what the driver prepares   *)
(* for (a refused send, an answer that never arrives, a transaction that   *)
(* was dropped mid-stream) and is a choice of the environment.             *)
(*                                                                         *)
(* A transaction is its nonce: kinds, payloads and fees do not change what *)
(* the nonce protocol does.                                                *)
(***************************************************************************)
EXTENDS Naturals

CONSTANTS
  MaxDrops,      \* bound: how many admitted transactions the node may lose
  QueuesGaps,    \* TRUE: a nonce above the next expected one is queued
                 \* FALSE: it is refused until the gap is filled
  Replaces,      \* TRUE: a second transaction with a pooled nonce is accepted
  LosesReplies   \* TRUE: a call may fail although its request reaches the node

ASSUME ChainAssumption ==
  /\ MaxDrops \in Nat
  /\ QueuesGaps \in BOOLEAN
  /\ Replaces \in BOOLEAN
  /\ LosesReplies \in BOOLEAN

VARIABLES
  mined,      \* mined[a]: the account's latest nonce, all below are executed
  pool,       \* pool[a]: nonces admitted and waiting in the mempool
  wire,       \* wire[a]: nonces submitted that the node has not handled yet
  admitted,   \* history: one more than the highest nonce ever admitted
  drops       \* history: how many admitted transactions were lost

chainVars == <<mined, pool, wire, admitted, drops>>

(* A node that queues gaps takes any fresh nonce, one that does not only the *)
(* next after the pooled prefix.                                             *)
Admissible(a, n) ==
  /\ n >= mined[a]
  /\ \/ n \in pool[a] /\ Replaces
     \/ n \notin pool[a] /\ (QueuesGaps \/ \A m \in mined[a]..n : m = n \/ m \in pool[a])

Submit(a, n) ==
  /\ wire' = [wire EXCEPT ![a] = @ \cup {n}]
  /\ UNCHANGED <<mined, pool, admitted, drops>>

Admit(a, n) ==
  /\ n \in wire[a]
  /\ Admissible(a, n)
  /\ wire'     = [wire EXCEPT ![a] = @ \ {n}]
  /\ pool'     = [pool EXCEPT ![a] = @ \cup {n}]
  /\ admitted' = [admitted EXCEPT ![a] = IF n < @ THEN @ ELSE n + 1]
  /\ UNCHANGED <<mined, drops>>

(* Too low, underpriced, already known, mempool full: any refusal at all. *)
Refuse(a, n) ==
  /\ n \in wire[a]
  /\ wire' = [wire EXCEPT ![a] = @ \ {n}]
  /\ UNCHANGED <<mined, pool, admitted, drops>>

Mine(a) ==
  /\ mined[a] \in pool[a]
  /\ mined' = [mined EXCEPT ![a] = @ + 1]
  /\ pool'  = [pool EXCEPT ![a] = @ \ {mined[a]}]
  /\ UNCHANGED <<wire, admitted, drops>>

Drop(a) ==
  /\ drops < MaxDrops
  /\ drops' = drops + 1
  /\ \E n \in pool[a] : pool' = [pool EXCEPT ![a] = @ \ {n}]
  /\ UNCHANGED <<mined, wire, admitted>>
=============================================================================
