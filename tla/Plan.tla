-------------------------------- MODULE Plan --------------------------------
(***************************************************************************)
(* What a run is made of, computed from its two files: the target (package *)
(* config), the deployment, the abilities of the Builder, the specs and    *)
(* their weighted mix.  Addresses and names are values that only have to   *)
(* be told apart; a deployment is the fields this branch reads.            *)
(***************************************************************************)
EXTENDS Integers, Sequences, FiniteSets, SequencesExt

Kinds == {"value", "erc20Transfer", "swap", "bump", "selfdestruct"}

Destructive == {"bump", "selfdestruct"}

-----------------------------------------------------------------------------
(* Package config. *)

(* What the file may say, by the types of its fields. *)
IsTarget(t) ==
  /\ DOMAIN t = {"chainID", "nodes", "accountsN", "poll", "lanes", "destructive"}
  /\ t.chainID \in Nat /\ t.accountsN \in Int /\ t.poll \in Int
  /\ t.nodes \in Seq([role : STRING, jsonrpc : STRING])
  /\ IsFiniteSet(DOMAIN t.lanes) /\ DOMAIN t.lanes \subseteq STRING
  /\ \A k \in DOMAIN t.lanes : t.lanes[k] \in [enabled : BOOLEAN, inflight : Int]
  /\ t.destructive \in BOOLEAN

(* Load without its defaults. *)
MutApplyDefaults(t) == t

(* A field that is not in the file is 0. *)
ApplyDefaults(t) == IF t.poll = 0 THEN [t EXCEPT !.poll = 200] ELSE t

Valid(t) ==
  /\ t.chainID # 0
  /\ Len(t.nodes) > 0
  /\ \A i \in 1..Len(t.nodes) : t.nodes[i].jsonrpc # ""

(* A fullnode's endpoint if there is one, the first node's if there is none. *)
PrimaryJSONRPC(t) ==
  LET full == {i \in 1..Len(t.nodes) : t.nodes[i].role = "fullnode"}
  IN  t.nodes[IF full = {} THEN 1 ELSE Min(full)].jsonrpc

-----------------------------------------------------------------------------
(* The deployment and what NewBuilder makes of it. *)

(* sameToken: the first pool's token0 is the first token. *)
NewBuilder(dep) ==
  [hasToken  |-> dep.tokens # <<>>,
   hasPool   |-> dep.pools # <<>>,
   hasCallee |-> dep.callee,
   hasDestr  |-> dep.destr,
   sameToken |-> dep.tokens # <<>> /\ dep.pools # <<>> /\ Head(dep.pools) = Head(dep.tokens)]

(* The inputs told apart: no token or one, no pool or one of either token.   *)
(* Every entry has an address; one without counts as there in the code, too. *)
Deployments ==
  [tokens : {<<>>, <<"t0">>}, pools : {<<>>, <<"t0">>, <<"t1">>}, callee : BOOLEAN, destr : BOOLEAN]

(* A pool is taken for all a swap needs. *)
MutSupports(b, k) ==
  \/ k = "value"
  \/ k = "erc20Transfer" /\ b.hasToken
  \/ k = "swap" /\ b.hasPool
  \/ k \in Destructive /\ b.hasDestr

Supports(b, k) ==
  \/ k = "value"
  \/ k = "erc20Transfer" /\ b.hasToken
  \/ k = "swap" /\ b.hasCallee /\ b.hasPool
  \/ k \in Destructive /\ b.hasDestr

(* The contracts build addresses: the zero address, where there is none. *)
Operands(k) ==
  CASE k = "erc20Transfer"    -> {"token"}
    [] k = "swap"             -> {"callee", "pool"}
    [] k \in Destructive      -> {"destructible"}
    [] OTHER                  -> {}

(* The approval is left out where the pool's token is the first one. *)
MutJobs(b) ==
  (IF b.hasToken THEN <<"mint token">> ELSE <<>>)
  \o IF b.hasPool /\ b.hasCallee /\ ~b.sameToken
     THEN <<"mint swap token", "approve swap token">>
     ELSE <<>>

(* The transactions PrepareAccounts sends for each account, in this order: a *)
(* mint per token, and the approval of the callee on the swap's input token. *)
Jobs(b) ==
  LET swaps == b.hasPool /\ b.hasCallee
  IN  (IF b.hasToken THEN <<"mint token">> ELSE <<>>)
      \o (IF swaps /\ ~b.sameToken THEN <<"mint swap token">> ELSE <<>>)
      \o (IF swaps THEN <<"approve swap token">> ELSE <<>>)

-----------------------------------------------------------------------------
(* The specs and the mix. *)

(* buildSpecs; the file's kinds may be none the driver knows. *)
Planned(t, b) ==
  {k \in DOMAIN t.lanes :
     /\ t.lanes[k].enabled
     /\ k \in Destructive => t.destructive
     /\ Supports(b, k)}

(* Integer division alone: a small target gets no turn. *)
MutReps(inflight) == inflight \div 10

(* At least one turn each, then one for each ten of the target. *)
Reps(inflight) == IF inflight < 10 THEN 1 ELSE inflight \div 10

(* The turns of one kind: none without a target or without its contracts.    *)
Stretch(t, b, k) ==
  IF t.lanes[k].inflight > 0 /\ Supports(b, k)
  THEN [r \in 1..Reps(t.lanes[k].inflight) |-> k]
  ELSE <<>>

(* The mix of Driver.Run for the specs in this order. *)
Weighted(t, b, order) == FlattenSeq([s \in 1..Len(order) |-> Stretch(t, b, order[s])])
=============================================================================
