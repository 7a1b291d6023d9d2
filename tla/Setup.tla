------------------------------- MODULE Setup --------------------------------
(***************************************************************************)
(* The setup of a run: Pool.Fund (accounts/accounts.go) and                *)
(* Builder.PrepareAccounts (workload/setup.go) against the node of Chain.  *)
(* The master sends one funding transaction per load account and waits for *)
(* the last; then one goroutine per load account sends the account's token *)
(* transactions, and the harness waits for the one noted last.  Any error  *)
(* ends the run.                                                           *)
(*                                                                         *)
(* A send is one step: nothing is sent again, so an answer that is lost is *)
(* an error like a refusal, whether or not the node has the transaction.   *)
(* Packing and signing fail where the send does.                           *)
(***************************************************************************)
EXTENDS Accounts, Chain, Plan, FiniteSets

CONSTANTS
  Master,      \* the funding account
  None,        \* model value: no hash yet
  Files,       \* the deployments that are looked at
  Hangs        \* TRUE: the node may fall silent

Load == Account \ {Master}

ASSUME SetupAssumption ==
  /\ IsFiniteSet(Account) /\ Master \in Account /\ Load # {}
  /\ None \notin Account \X Nat
  /\ Files \subseteq Deployments /\ Hangs \in BOOLEAN

VARIABLES
  stage,       \* "fund", "fundWait", "seed", "sends", "wait", "ready" or "failed"
  ctx,         \* the context is done
  silent,      \* the node accepts connections and answers none of them
  builder,     \* what the Builder knows of the deployment
  pc,          \* pc[a]: a's goroutine: "send", "note" or "done"
  last,        \* lastHash: an account and a nonce
  errs         \* errors in the channel

runVars == <<stage, ctx, silent, builder>>
vars == <<accountVars, chainVars, runVars, pc, last, errs>>

(* Transactions PrepareAccounts sends per account. *)
sends == Len(Jobs(builder))

(* Fresh load accounts; the master's nonce was seeded by NewPool. *)
Init ==
  /\ nonces = [a \in Account |-> 0] /\ confirmed = nonces
  /\ mined = [a \in Account |-> 0] /\ admitted = mined
  /\ pool = [a \in Account |-> {}] /\ wire = pool
  /\ drops = 0
  /\ stage = "fund" /\ ctx = FALSE
  /\ silent = FALSE /\ builder \in {NewBuilder(file) : file \in Files}
  /\ pc = [a \in Load |-> "send"] /\ last = None /\ errs = 0

(* a.Next(0) assigns the nonce before the send: a failed send burns it. *)
AssignNext(a) == Commit(a)

(* The node takes the transaction, or has queued it behind a gap. *)
Accepts(a) ==
  /\ pool' = [pool EXCEPT ![a] = @ \cup {nonces[a]}]
  /\ admitted' = [admitted EXCEPT ![a] = nonces[a] + 1]
  /\ UNCHANGED <<mined, wire, drops>>

Rejects == UNCHANGED chainVars

(* A call fails on an answer, or on the end of the context; an answer that   *)
(* does not come ends no call: the client sets no timeout.                   *)
CallFails == ~silent \/ ctx

(* The node answers that the transaction is in a block; the zero hash is not. *)
Receipt(hash) == ~silent /\ hash # None /\ mined[hash[1]] > hash[2]

-----------------------------------------------------------------------------
(* Fund *)

(* The first hash kept instead of the last. *)
MutLatest(hash) == IF last = None THEN hash ELSE last

(* lastHash = ... *)
Latest(hash) == hash

FundSend ==
  /\ stage = "fund" /\ nonces[Master] < Cardinality(Load)
  /\ AssignNext(Master)
  /\ \/ /\ ~ctx /\ ~silent
        /\ Accepts(Master)
        /\ last' = Latest(<<Master, nonces[Master]>>)
        /\ stage' = IF nonces'[Master] = Cardinality(Load) THEN "fundWait" ELSE stage
     \/ CallFails /\ (Accepts(Master) \/ Rejects) /\ stage' = "failed" /\ UNCHANGED last
  /\ UNCHANGED <<ctx, silent, builder, pc, errs>>

FundMined ==
  /\ stage = "fundWait" /\ Receipt(last)
  /\ stage' = "seed"
  /\ UNCHANGED <<accountVars, chainVars, ctx, silent, builder, pc, last, errs>>

(* 60 s, or 90 s below, without a receipt, looked at between two calls, or   *)
(* the end of the context.                                                   *)
WaitFails ==
  /\ stage \in {"fundWait", "wait"} /\ CallFails
  /\ stage' = "failed"
  /\ UNCHANGED <<accountVars, chainVars, ctx, silent, builder, pc, last, errs>>

(* seedNonce on every load account, then the jobs: none, and setup is over.  *)
Seed ==
  /\ stage = "seed"
  /\ \/ /\ ~silent
        /\ nonces' = [a \in Account |-> IF a \in Load THEN admitted[a] ELSE nonces[a]]
        /\ confirmed' = [a \in Account |-> IF a \in Load THEN admitted[a] ELSE confirmed[a]]
        /\ stage' = IF sends = 0 THEN "ready" ELSE "sends"
        /\ last' = None
     \/ CallFails /\ stage' = "failed" /\ UNCHANGED <<accountVars, last>>
  /\ UNCHANGED <<chainVars, ctx, silent, builder, pc, errs>>

-----------------------------------------------------------------------------
(* PrepareAccounts: the goroutine of account a. *)

Send(a) ==
  /\ stage = "sends" /\ pc[a] = "send" /\ ~ctx /\ ~silent
  /\ AssignNext(a)
  /\ Accepts(a)
  /\ pc' = [pc EXCEPT ![a] = "note"]
  /\ UNCHANGED <<runVars, last, errs>>

(* A channel with room for one error less: the last goroutine to fail blocks. *)
MutRoom == errs < Cardinality(Load) - 1

(* errs <- err: the channel has room for one error of every goroutine. *)
Room == errs < Cardinality(Load)

SendFails(a) ==
  /\ stage = "sends" /\ pc[a] = "send" /\ CallFails
  /\ AssignNext(a)
  /\ Accepts(a) \/ Rejects
  /\ pc' = [pc EXCEPT ![a] = "done"]
  /\ Room /\ errs' = errs + 1
  /\ UNCHANGED <<runVars, last>>

(* lastHash = tx.Hash() under the mutex, after the send: another goroutine's *)
(* note may come between.                                                    *)
Note(a) ==
  /\ stage = "sends" /\ pc[a] = "note"
  /\ last' = Latest(<<a, nonces[a] - 1>>)
  /\ pc' = [pc EXCEPT ![a] = IF nonces[a] = sends THEN "done" ELSE "send"]
  /\ UNCHANGED <<accountVars, chainVars, runVars, errs>>

(* An error of the channel that is not returned. *)
MutAnyFailed == FALSE

(* The errors, drained from the channel. *)
AnyFailed == errs > 0

(* wg.Wait *)
Joined ==
  /\ stage = "sends" /\ \A a \in Load : pc[a] = "done"
  /\ stage' = IF AnyFailed THEN "failed" ELSE "wait"
  /\ UNCHANGED <<accountVars, chainVars, ctx, silent, builder, pc, last, errs>>

SetupMined ==
  /\ stage = "wait" /\ Receipt(last)
  /\ stage' = "ready"
  /\ UNCHANGED <<accountVars, chainVars, ctx, silent, builder, pc, last, errs>>

-----------------------------------------------------------------------------
Cancel ==
  /\ ~ctx /\ ctx' = TRUE
  /\ UNCHANGED <<accountVars, chainVars, stage, silent, builder, pc, last, errs>>

GoSilent ==
  /\ Hangs /\ ~silent /\ silent' = TRUE
  /\ UNCHANGED <<accountVars, chainVars, stage, ctx, builder, pc, last, errs>>

ChainStep(a) == (Mine(a) \/ Drop(a)) /\ UNCHANGED <<accountVars, runVars, pc, last, errs>>

Over == stage \in {"ready", "failed"} /\ UNCHANGED vars

Steps ==
  \/ FundSend \/ FundMined \/ WaitFails \/ Seed \/ Joined \/ SetupMined
  \/ \E a \in Load : Send(a) \/ SendFails(a) \/ Note(a)

Next == Steps \/ Cancel \/ GoSilent \/ (\E a \in Account : ChainStep(a)) \/ Over

Spec == Init /\ [][Next]_vars

(* Goroutines run, answered calls return, and the waits are bounded. *)
FairSpec == Spec /\ WF_vars(Steps)
-----------------------------------------------------------------------------
Nonce == 0..(Cardinality(Load) + 3)

(* Every variable has its type. *)
TypeOK ==
  /\ {nonces, confirmed, mined, admitted} \subseteq [Account -> Nonce]
  /\ {pool, wire} \subseteq [Account -> SUBSET Nonce]
  /\ drops \in 0..MaxDrops
  /\ stage \in {"fund", "fundWait", "seed", "sends", "wait", "ready", "failed"}
  /\ {ctx, silent} \subseteq BOOLEAN
  /\ builder \in [hasToken : BOOLEAN, hasPool : BOOLEAN, hasCallee : BOOLEAN, hasDestr : BOOLEAN,
                  sameToken : BOOLEAN]
  /\ pc \in [Load -> {"send", "note", "done"}]
  /\ last \in {None} \cup (Account \X Nonce)
  /\ errs \in 0..Cardinality(Load)

(* No load account is seeded or sends before every funding transaction is    *)
(* executed, although only the last is waited for: the master's nonces order *)
(* them, also when the node loses some.                                      *)
FundedFirst ==
  stage \in {"seed", "sends", "wait", "ready"} => mined[Master] = Cardinality(Load)

(* What the setup hands to the driver is a state the driver starts from:     *)
(* every account has assigned and had admitted exactly its setup             *)
(* transactions, and those that were neither executed nor lost are pooled,   *)
(* in whatever order the goroutines noted the hash that was waited for.      *)
Driver(setupTxs) ==
  INSTANCE OpenLoop
    WITH Account <- Load, SetupTxs <- setupTxs, Ahead <- 64, MaxNonce <- 64, NoAccount <- None,
         nonces <- [a \in Load |-> nonces[a]], confirmed <- [a \in Load |-> confirmed[a]],
         mined <- [a \in Load |-> mined[a]], pool <- [a \in Load |-> pool[a]],
         wire <- [a \in Load |-> wire[a]], admitted <- [a \in Load |-> admitted[a]],
         pc <- [a \in Load |-> "top"], seen <- [a \in Load |-> 0], capped <- [a \in Load |-> FALSE],
         stopped <- FALSE, pollPc <- "tick", pollTodo <- {}, pollAt <- None, pollSeen <- 0

HandsOver == stage = "ready" => \E n \in 0..3 : n = sends /\ Driver(n)!Init

(* What a kind of transaction lives on at the account that sends it. *)
Needs(k) ==
  CASE k = "erc20Transfer" -> {"mint token"}
    [] k = "swap" -> {IF builder.sameToken THEN "mint token" ELSE "mint swap token",
                      "approve swap token"}
    [] OTHER -> {}

(* "So erc20-transfer and swap workloads do not revert for lack of           *)
(* balance/allowance": whatever a kind needs that the deployment supports,   *)
(* no transaction of the load runs before it, as long as the node loses none.*)
PreparedForMix ==
  (stage = "ready" /\ drops = 0) =>
    \A a \in Load, k \in Kinds : Supports(builder, k) =>
      \A need \in Needs(k) : \E n \in 0..(nonces[a] - 1) :
        Jobs(builder)[n + 1] = need /\ (n < mined[a] \/ n \in pool[a])

(* The node's side of the accounts: what it has admitted of an account was   *)
(* assigned, is in order, and without losses is executed or pooled.          *)
Ledger ==
  /\ wire = [a \in Account |-> {}]
  /\ \A a \in Account :
       /\ mined[a] <= admitted[a] /\ admitted[a] <= nonces[a]
       /\ \A n \in Nonce :
            /\ n \in pool[a] => mined[a] <= n /\ n < admitted[a]
            /\ (drops = 0 /\ mined[a] <= n /\ n < admitted[a]) => n \in pool[a]

(* The funding transactions, one for each load account and the last one      *)
(* waited for; until then the load accounts have sent nothing.               *)
Funding ==
  /\ nonces[Master] <= Cardinality(Load)
  /\ stage = "fund" => nonces[Master] < Cardinality(Load)
  /\ stage # "failed" => admitted[Master] = nonces[Master]
  /\ stage \notin {"fund", "failed"} => nonces[Master] = Cardinality(Load)
  /\ stage = "fundWait" => last = <<Master, Cardinality(Load) - 1>>
  /\ stage \in {"fund", "fundWait", "seed"} =>
       errs = 0 /\ \A a \in Load : nonces[a] = 0 /\ pc[a] = "send"

(* The setup transactions of the load accounts: a goroutine that is done     *)
(* without an error has sent all of its own, and the hash noted last is then *)
(* the last one of the account it belongs to.                                *)
Sending ==
  /\ builder.sameToken => builder.hasToken
  /\ \A a \in Load : nonces[a] <= sends /\ confirmed[a] = 0
  /\ stage = "sends" =>
       /\ \A a \in Load :
            /\ pc[a] = "send" => nonces[a] < sends
            /\ pc[a] = "note" => nonces[a] > 0
            /\ pc[a] # "done" \/ errs = 0 => admitted[a] = nonces[a]
            /\ pc[a] = "done" /\ errs = 0 => nonces[a] = sends /\ last # None
       /\ last # None => last[1] \in Load /\ (pc[last[1]] = "done" /\ errs = 0 => last[2] = sends - 1)
  /\ stage \in {"wait", "ready"} => \A a \in Load : nonces[a] = sends /\ admitted[a] = sends
  /\ stage = "wait" => last \in Load \X {sends - 1}
  /\ stage = "ready" => \E a \in Load : mined[a] = sends

(* The invariant that is inductive. *)
Inv == TypeOK /\ FundedFirst /\ Ledger /\ Funding /\ Sending

(* The setup comes to an end, with a ready pool or an error, unless the node *)
(* is silent and nobody interrupts: no goroutine waits for ever for room in  *)
(* the channel of errors, no other wait is unbounded.                        *)
SetupReturns == <>[](stage \in {"ready", "failed"} \/ (silent /\ ~ctx))
=============================================================================
