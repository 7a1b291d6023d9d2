-------------------------------- MODULE Mix ---------------------------------
(***************************************************************************)
(* From the two files of a run to the transactions one worker offers:      *)
(* config.Load, the set-up as one step (Setup has the rest), the specs,    *)
(* the mix of kinds and its turns (workload.go, Run and worker), and the   *)
(* two fee cells that the refresher writes and every worker reads.  Below  *)
(* the window only, where turns are taken: OpenLoop has the window and the *)
(* nonces.  Every account cycles through the mix on its own, so one worker *)
(* stands for all.                                                         *)
(***************************************************************************)
EXTENDS Plan

CONSTANTS
  Targets,     \* the target files that are looked at
  Files,       \* the deployments that are looked at
  MaxRefresh,  \* bound on the refreshes of the fees that succeed
  NoKind       \* model value: the worker holds no transaction

ASSUME MixAssumption ==
  /\ \A t \in Targets : IsTarget(t)
  /\ Files \subseteq Deployments /\ MaxRefresh \in Nat /\ NoKind \notin Kinds

VARIABLES
  stage,       \* "load target", "setup", "plan", "run", "over", "error" or "panic"
  target,      \* the target, after Load with its defaults
  builder,     \* what the Builder knows of the deployment
  weighted,    \* the mix
  turn,        \* the worker's i, modulo the length of the mix
  kind,        \* the kind of the turn taken
  sending,     \* the worker has built its transaction and sends it
  feeCap, tip, \* d.feeCap and d.tip, by the number of the refresh they are of
  built        \* the fees of the worker's transaction, likewise

planVars == <<target, builder, weighted>>
workerVars == <<turn, kind, sending, built>>
feeVars == <<feeCap, tip>>
vars == <<stage, planVars, workerVars, feeVars>>

NoFees == [feeCap |-> 0, tip |-> 0]

Init ==
  /\ stage = "load target"
  /\ target \in Targets
  /\ builder \in {NewBuilder(file) : file \in Files}
  /\ weighted = <<>>
  /\ turn = 0 /\ kind = NoKind /\ sending = FALSE /\ built = NoFees
  /\ feeCap = 0 /\ tip = 0

Goto(from, to) == stage = from /\ stage' = to

LoadTarget ==
  /\ target' = ApplyDefaults(target)
  /\ Goto("load target", IF Valid(target') THEN "setup" ELSE "error")
  /\ UNCHANGED <<builder, weighted, workerVars, feeVars>>

(* Any call may fail before or after NewPool makes room for accountsN        *)
(* accounts; Fund waits for the receipt of its last transaction, of which    *)
(* there is none without accounts.                                           *)
SetUp ==
  /\ \/ target.accountsN < 0 /\ Goto("setup", "panic")
     \/ target.accountsN > 0 /\ Goto("setup", "plan")
     \/ Goto("setup", "error")
  /\ UNCHANGED <<planVars, workerVars, feeVars>>

(* NewDriver has its first fees, or there is no run.  buildSpecs goes        *)
(* through the lanes as a Go map does, in any order.  With an empty mix Run  *)
(* returns at once.                                                          *)
MakePlan ==
  /\ \E order \in SetToSeqs(Planned(target, builder)) :
       weighted' = Weighted(target, builder, order)
  /\ \/ Goto("plan", IF weighted' = <<>> THEN "over" ELSE "run")
     \/ Goto("plan", "error")
  /\ UNCHANGED <<target, builder, workerVars, feeVars>>

(* The collectors are running: their NewTicker refuses such an interval.     *)
TickerPanics ==
  /\ stage \in {"plan", "run"} /\ target.poll <= 0
  /\ stage' = "panic"
  /\ UNCHANGED <<planVars, workerVars, feeVars>>

-----------------------------------------------------------------------------
(* The worker. *)

(* i++ after a transaction that was taken, not after every turn. *)
MutTurnAfter(event) == IF event = "accepted" THEN (turn + 1) % Len(weighted) ELSE turn

(* The modulus is one too large. *)
MutTurnPastEnd(event) == IF event = "taken" THEN (turn + 1) % (Len(weighted) + 1) ELSE turn

(* i++ when the turn is taken, whatever comes of it. *)
TurnAfter(event) == IF event = "taken" THEN (turn + 1) % Len(weighted) ELSE turn

(* The second argument's load before the first's. *)
MutFeesRead(first) == IF first THEN [built EXCEPT !.tip = tip] ELSE [built EXCEPT !.feeCap = feeCap]

(* The arguments of build, from left to right: feeCap.Load(), tip.Load(). *)
FeesRead(first) == IF first THEN [built EXCEPT !.feeCap = feeCap] ELSE [built EXCEPT !.tip = tip]

(* Take a turn and load the first fee. *)
TakeTurn ==
  /\ stage = "run" /\ kind = NoKind
  /\ kind' = weighted[turn + 1]
  /\ turn' = TurnAfter("taken")
  /\ built' = FeesRead(TRUE)
  /\ UNCHANGED <<stage, planVars, sending, feeVars>>

(* Load the second, build and send. *)
Build ==
  /\ stage = "run" /\ kind # NoKind /\ ~sending
  /\ sending' = TRUE
  /\ built' = FeesRead(FALSE)
  /\ UNCHANGED <<stage, planVars, turn, kind, feeVars>>

(* The node takes the transaction, or it does not: of the same nonce the     *)
(* next turn makes a transaction of another kind.  A build that fails is one *)
(* that is refused: it goes the same way, and changes nothing else.          *)
SendReturns(event) ==
  /\ stage = "run" /\ sending
  /\ turn' = TurnAfter(event)
  /\ kind' = NoKind /\ sending' = FALSE /\ built' = NoFees
  /\ UNCHANGED <<stage, planVars, feeVars>>

(* The end of the run: neither a send nor a refresh outlives Run. *)
RunEnds ==
  /\ kind = NoKind /\ feeCap = tip
  /\ Goto("run", "over")
  /\ UNCHANGED <<planVars, workerVars, feeVars>>

-----------------------------------------------------------------------------
(* The fee refresher, the only writer: every 5 s both cells, one by one.  A  *)
(* refresh whose reads fail leaves both.                                     *)

StoreFeeCap ==
  /\ stage = "run" /\ feeCap = tip /\ feeCap < MaxRefresh
  /\ feeCap' = feeCap + 1
  /\ UNCHANGED <<stage, planVars, workerVars, tip>>

StoreTip ==
  /\ stage = "run" /\ feeCap # tip
  /\ tip' = feeCap
  /\ UNCHANGED <<stage, planVars, workerVars, feeCap>>

-----------------------------------------------------------------------------
Ended == stage \in {"over", "error", "panic"} /\ UNCHANGED vars

Start == LoadTarget \/ SetUp \/ MakePlan

Worker == TakeTurn \/ Build \/ SendReturns("accepted") \/ SendReturns("refused")

Next == Start \/ TickerPanics \/ Worker \/ RunEnds \/ StoreFeeCap \/ StoreTip \/ Ended

Spec == Init /\ [][Next]_vars

(* The worker is scheduled, its sends return and its window opens again. *)
FairSpec == Spec /\ WF_vars(Worker)

-----------------------------------------------------------------------------
(* Every variable has its type. *)
TypeOK ==
  /\ stage \in {"load target", "setup", "plan", "run", "over", "error", "panic"}
  /\ IsTarget(target)
  /\ builder \in [hasToken : BOOLEAN, hasPool : BOOLEAN, hasCallee : BOOLEAN, hasDestr : BOOLEAN,
                  sameToken : BOOLEAN]
  /\ weighted \in Seq(Kinds)
  /\ turn \in Nat /\ (turn = 0 \/ turn < Len(weighted))
  /\ kind \in Kinds \cup {NoKind}
  /\ sending \in BOOLEAN
  /\ {feeCap, tip} \subseteq 0..MaxRefresh
  /\ built \in [feeCap : 0..MaxRefresh, tip : 0..MaxRefresh]

Deployed(b) ==
  {c \in {"token", "pool", "callee", "destructible"} :
     \/ c = "token" /\ b.hasToken
     \/ c = "pool" /\ b.hasPool
     \/ c = "callee" /\ b.hasCallee
     \/ c = "destructible" /\ b.hasDestr}

(* "For value-only load, a minimal deployment.json is enough", "bump and     *)
(* selfdestruct need allowDestructive": no kind is offered whose contracts   *)
(* the deployment does not name, nor a destructive one without permission.   *)
OnlyWithContracts ==
  kind # NoKind => /\ Operands(kind) \subseteq Deployed(builder)
                   /\ kind \in Destructive => target.destructive

Turns(k) == Cardinality({i \in 1..Len(weighted) : weighted[i] = k})

(* "Omit a key or set targetInflight: 0": every other lane the deployment    *)
(* supports has a turn in the mix, and one with the larger target no fewer.  *)
WeightsFollowTargets ==
  stage = "run" =>
    /\ \A k \in Planned(target, builder) : Turns(k) > 0 <=> target.lanes[k].inflight > 0
    /\ \A j, k \in Planned(target, builder) :
         target.lanes[j].inflight <= target.lanes[k].inflight => Turns(j) <= Turns(k)

(* The load starts on an endpoint the file names, with accounts, and a       *)
(* process that panics was given a negative number: what the file leaves out *)
(* is defaulted, and what it leaves empty is refused.                        *)
StartsCleanly ==
  /\ stage = "run" => PrimaryJSONRPC(target) # "" /\ target.accountsN > 0
  /\ stage = "panic" => target.poll < 0 \/ target.accountsN < 0

(* A transaction built between the two stores of a refresh, or across any    *)
(* number of refreshes, has a tip at most one refresh older than its fee     *)
(* cap.                                                                      *)
TipNotStale == sending => built.tip + 1 >= built.feeCap

-----------------------------------------------------------------------------
(* What makes the safety properties inductive. *)

(* The mix is of planned kinds, and in the load each has the turns of its    *)
(* target; nothing is taken from it before.                                  *)
Planning ==
  /\ \A i \in 1..Len(weighted) : weighted[i] \in Planned(target, builder)
  /\ kind # NoKind => kind \in Planned(target, builder)
  /\ stage \in {"load target", "setup", "plan"} => weighted = <<>> /\ kind = NoKind
  /\ stage = "run" =>
       /\ weighted # <<>>
       /\ \A k \in Planned(target, builder) :
            Turns(k) = IF target.lanes[k].inflight > 0 THEN Reps(target.lanes[k].inflight) ELSE 0

(* A step of the start is behind what it checks and defaults. *)
Starting ==
  /\ stage \in {"setup", "plan", "run"} => Valid(target) /\ target.poll # 0
  /\ stage \in {"plan", "run"} => target.accountsN > 0
  /\ stage = "panic" => target.poll < 0 \/ target.accountsN < 0

(* The cells are one store apart, and a fee loaded is one that was stored. *)
Fees ==
  /\ tip <= feeCap /\ feeCap <= tip + 1
  /\ built.feeCap <= feeCap
  /\ kind = NoKind => ~sending
  /\ sending => built.tip + 1 >= built.feeCap

(* The inductive invariant of the start, the mix and the fees. *)
Inv == TypeOK /\ Planning /\ Starting /\ Fees

-----------------------------------------------------------------------------
(* A kind the node keeps refusing does not keep the others from their turn:  *)
(* every kind of the mix is offered again and again until the run is over.   *)
NoKindStarves ==
  \A k \in Kinds :
    (stage = "run" /\ \E i \in 1..Len(weighted) : weighted[i] = k)
      ~> (sending /\ kind = k) \/ stage # "run"
=============================================================================
