----------------------------- MODULE MixProofs ------------------------------
(***************************************************************************)
(* The mix, for any targets and deployments, however many lanes a target   *)
(* names and however often the fees are refreshed: only kinds with their   *)
(* contracts are offered, every lane has the turns of its target, nothing  *)
(* starts half configured, and no tip lags its fee cap by two refreshes.   *)
(* Inv of Mix is inductive.                                                *)
(***************************************************************************)
EXTENDS Mix, PlanProofs

(* Load keeps the types, and leaves no interval at 0.                        *)
LEMMA DefaultsApplied ==
  ASSUME NEW t, IsTarget(t)
  PROVE  IsTarget(ApplyDefaults(t)) /\ ApplyDefaults(t).poll # 0
  <1>1. CASE t.poll = 0
    <2>1. PICK u : u = [t EXCEPT !.poll = 200]
      OBVIOUS
    <2>2. /\ DOMAIN u = DOMAIN t /\ u.poll = 200
          /\ u.chainID = t.chainID /\ u.accountsN = t.accountsN /\ u.nodes = t.nodes
          /\ u.lanes = t.lanes /\ u.destructive = t.destructive
      BY <2>1 DEF IsTarget
    <2>3. IsTarget(u)
      BY <2>2 DEF IsTarget
    <2> QED
      BY <1>1, <2>1, <2>2, <2>3 DEF ApplyDefaults
  <1>2. CASE t.poll # 0
    BY <1>2 DEF ApplyDefaults
  <1> QED
    BY <1>1, <1>2

(* What the deployment supports is one of the kinds and addresses contracts  *)
(* it names.                                                                 *)
LEMMA ContractsThere ==
  ASSUME NEW b, NEW k, Supports(b, k)
  PROVE  k \in Kinds /\ Operands(k) \subseteq Deployed(b)
  <1>1. CASE k = "value"
    BY <1>1 DEF Kinds, Operands, Destructive
  <1>2. CASE k = "erc20Transfer" /\ b.hasToken
    <2>1. "token" \in Deployed(b)
      BY <1>2, Zenon DEF Deployed
    <2>2. Operands(k) = {"token"}
      BY <1>2 DEF Operands, Destructive
    <2> QED
      BY <1>2, <2>1, <2>2 DEF Kinds
  <1>3. CASE k = "swap" /\ b.hasCallee /\ b.hasPool
    <2>1. "callee" \in Deployed(b) /\ "pool" \in Deployed(b)
      BY <1>3, Zenon DEF Deployed
    <2>2. Operands(k) = {"callee", "pool"}
      BY <1>3 DEF Operands, Destructive
    <2> QED
      BY <1>3, <2>1, <2>2 DEF Kinds
  <1>4. CASE k \in Destructive /\ b.hasDestr
    <2>1. "destructible" \in Deployed(b) /\ Operands(k) = {"destructible"}
      BY <1>4 DEF Deployed, Operands, Destructive
    <2> QED
      BY <1>4, <2>1 DEF Kinds, Destructive
  <1> QED
    BY <1>1, <1>2, <1>3, <1>4 DEF Supports

LEMMA PlannedKinds == \A t, b : Planned(t, b) \subseteq Kinds
  BY ContractsThere DEF Planned

(* One more than a place before the last is a place. *)
LEMMA NextTurn ==
  ASSUME NEW l \in Nat \ {0}, NEW i \in Nat
  PROVE  (i + 1) % l \in Nat /\ (i + 1) % l < l
  OBVIOUS

-----------------------------------------------------------------------------
(* Init and the steps of Next. *)

LEMMA InvInit == Init => Inv
  <1> SUFFICES ASSUME Init PROVE Inv
    OBVIOUS
  <1>1. target \in Targets /\ IsTarget(target)
    BY MixAssumption DEF Init, MixAssumption
  <1>2. builder \in Abilities
    <2>1. PICK file \in Files : builder = NewBuilder(file)
      BY DEF Init
    <2>2. file \in Deployments
      BY MixAssumption DEF MixAssumption
    <2> QED
      BY <2>1, <2>2, BuilderKnows
  <1>3. weighted = <<>> /\ Len(weighted) = 0 /\ weighted \in Seq(Kinds)
    <2>1. weighted = <<>>
      BY DEF Init
    <2>2. PICK L : L = Kinds
      OBVIOUS
    <2>3. Len(<<>>) = 0 /\ <<>> \in Seq(L)
      OBVIOUS
    <2> QED
      BY <2>1, <2>2, <2>3
  <1>4. 0 \in 0..MaxRefresh
    BY MixAssumption DEF MixAssumption
  <1>5. TypeOK
    BY <1>1, <1>2, <1>3, <1>4 DEF Init, TypeOK, Abilities, NoFees
  <1>6. Planning /\ Starting /\ Fees
    <2>1. \A i \in 1..Len(weighted) : weighted[i] \in Planned(target, builder)
      BY <1>3
    <2>2. Planning
      BY <1>3, <2>1 DEF Init, Planning
    <2>3. Starting
      BY DEF Init, Starting
    <2>4. Fees
      <3>1. feeCap = 0 /\ tip = 0 /\ built.feeCap = 0 /\ built.tip = 0
        BY DEF Init, NoFees
      <3>2. ~sending
        BY DEF Init
      <3> QED
        BY <3>1, <3>2 DEF Fees
    <2> QED
      BY <2>2, <2>3, <2>4
  <1> QED
    BY <1>5, <1>6 DEF Inv

LEMMA LoadTargetInv == ASSUME Inv, LoadTarget PROVE Inv'
  <1>1. IsTarget(target') /\ target'.poll # 0
    BY DefaultsApplied DEF Inv, TypeOK, LoadTarget
  <1>2. stage = "load target" /\ stage' \in {"setup", "error"} /\ (stage' = "setup" => Valid(target'))
    BY DEF LoadTarget, Goto
  <1>3. weighted = <<>> /\ kind = NoKind /\ weighted' = <<>> /\ kind' = NoKind
    BY <1>2 DEF Inv, Planning, LoadTarget, workerVars
  <1>4. TypeOK'
    BY <1>1, <1>2 DEF Inv, TypeOK, LoadTarget, workerVars, feeVars
  <1>5. Planning'
    <2>1. Len(<<>>) = 0
      OBVIOUS
    <2>2. \A i \in 1..Len(weighted') : weighted'[i] \in Planned(target', builder')
      BY <1>3, <2>1
    <2> QED
      BY <1>2, <1>3, <2>2 DEF Planning
  <1>6. Starting'
    BY <1>1, <1>2 DEF Starting
  <1>7. Fees'
    BY DEF Inv, Fees, LoadTarget, workerVars, feeVars
  <1> QED
    BY <1>4, <1>5, <1>6, <1>7 DEF Inv

LEMMA SetUpInv == ASSUME Inv, SetUp PROVE Inv'
  <1>1. /\ stage = "setup" /\ stage' \in {"panic", "plan", "error"}
        /\ stage' = "plan" => target.accountsN > 0
        /\ stage' = "panic" => target.accountsN < 0
    BY DEF SetUp, Goto
  <1>2. TypeOK'
    BY <1>1 DEF Inv, TypeOK, SetUp, planVars, workerVars, feeVars
  <1>3. Planning'
    BY <1>1 DEF Inv, Planning, SetUp, planVars, workerVars
  <1>4. Starting'
    BY <1>1 DEF Inv, Starting, SetUp, planVars
  <1>5. Fees'
    BY DEF Inv, Fees, SetUp, workerVars, feeVars
  <1> QED
    BY <1>2, <1>3, <1>4, <1>5 DEF Inv

LEMMA MakePlanInv == ASSUME Inv, MakePlan PROVE Inv'
  <1>1. /\ stage = "plan" /\ stage' \in {"run", "over", "error"}
        /\ stage' = "run" => weighted' # <<>>
    BY DEF MakePlan, Goto
  <1>2. IsTarget(target) /\ kind = NoKind /\ weighted = <<>>
    BY <1>1 DEF Inv, TypeOK, Planning
  <1>3. target' = target /\ builder' = builder /\ kind' = kind /\ turn' = turn
    BY DEF MakePlan, workerVars
  <1>4. PICK order \in SetToSeqs(Planned(target, builder)) : weighted' = Weighted(target, builder, order)
    BY DEF MakePlan
  <1>5. PICK K : K = Planned(target, builder)
    OBVIOUS
  <1>6. /\ weighted' \in Seq(K)
        /\ \A k \in K : Times(weighted', k)
                          = IF target.lanes[k].inflight > 0 THEN Reps(target.lanes[k].inflight) ELSE 0
    BY <1>2, <1>4, <1>5, TurnsInMix
  <1>7. weighted' \in Seq(Kinds)
    <2>1. K \subseteq Kinds
      BY <1>5, PlannedKinds
    <2>2. PICK L : L = Kinds
      OBVIOUS
    <2>3. weighted' \in Seq(L)
      BY <1>6, <2>1, <2>2
    <2> QED
      BY <2>2, <2>3
  <1>8. turn' = 0
    <2>1. Len(<<>>) = 0
      OBVIOUS
    <2>2. turn \in Nat /\ (turn = 0 \/ turn < Len(weighted))
      BY DEF Inv, TypeOK
    <2> QED
      BY <1>2, <1>3, <2>1, <2>2
  <1>9. TypeOK'
    BY <1>1, <1>3, <1>7, <1>8 DEF Inv, TypeOK, MakePlan, workerVars, feeVars
  <1>10. Planning'
    <2>1. \A i \in 1..Len(weighted') : weighted'[i] \in K
      BY <1>6
    <2>2. \A k \in K : Turns(k)' = IF target.lanes[k].inflight > 0 THEN Reps(target.lanes[k].inflight) ELSE 0
      BY <1>6 DEF Turns, Times
    <2> QED
      BY <1>1, <1>2, <1>3, <1>5, <2>1, <2>2 DEF Planning
  <1>11. Starting'
    BY <1>1, <1>3 DEF Inv, Starting
  <1>12. Fees'
    BY DEF Inv, Fees, MakePlan, workerVars, feeVars
  <1> QED
    BY <1>9, <1>10, <1>11, <1>12 DEF Inv

LEMMA TickerPanicsInv == ASSUME Inv, TickerPanics PROVE Inv'
  <1>1. stage \in {"plan", "run"} /\ stage' = "panic" /\ target.poll <= 0
    BY DEF TickerPanics
  <1>2. target.poll < 0
    <2>1. target.poll \in Int
      BY DEF Inv, TypeOK, IsTarget
    <2>2. target.poll # 0
      BY <1>1 DEF Inv, Starting
    <2> QED
      BY <1>1, <2>1, <2>2
  <1>3. TypeOK'
    BY <1>1 DEF Inv, TypeOK, TickerPanics, planVars, workerVars, feeVars
  <1>4. Planning'
    BY <1>1 DEF Inv, Planning, TickerPanics, planVars, workerVars
  <1>5. Starting'
    BY <1>1, <1>2 DEF Starting, TickerPanics, planVars
  <1>6. Fees'
    BY DEF Inv, Fees, TickerPanics, workerVars, feeVars
  <1> QED
    BY <1>3, <1>4, <1>5, <1>6 DEF Inv

(* What the worker and the refresher leave alone. *)
LEMMA PlanStays ==
  ASSUME Inv, stage = "run", stage' = stage, planVars' = planVars,
         kind' = NoKind \/ kind' \in Planned(target, builder)
  PROVE  Planning' /\ Starting'
  <1>1. target' = target /\ builder' = builder /\ weighted' = weighted
    BY DEF planVars
  <1>2. \A k : Turns(k)' = Turns(k)
    BY <1>1 DEF Turns
  <1>3. Planning'
    BY <1>1, <1>2 DEF Inv, Planning
  <1>4. Starting'
    BY <1>1 DEF Inv, Starting
  <1> QED
    BY <1>3, <1>4

LEMMA TakeTurnInv == ASSUME Inv, TakeTurn PROVE Inv'
  <1>1. stage = "run" /\ stage' = stage /\ kind = NoKind
    BY DEF TakeTurn
  <1>2. Len(weighted) \in Nat \ {0}
    BY <1>1 DEF Inv, TypeOK, Planning
  <1>3. turn + 1 \in 1..Len(weighted)
    <2>1. turn \in Nat /\ (turn = 0 \/ turn < Len(weighted))
      BY DEF Inv, TypeOK
    <2> QED
      BY <1>2, <2>1
  <1>4. kind' \in Planned(target, builder)
    BY <1>3 DEF Inv, Planning, TakeTurn
  <1>5. turn' \in Nat /\ turn' < Len(weighted)
    BY <1>2, NextTurn DEF Inv, TypeOK, TakeTurn, TurnAfter
  <1>6. built' = [built EXCEPT !.feeCap = feeCap]
    BY DEF TakeTurn, FeesRead
  <1>7. /\ built' \in [feeCap : 0..MaxRefresh, tip : 0..MaxRefresh]
        /\ built'.feeCap = feeCap /\ built'.tip = built.tip
    BY <1>6 DEF Inv, TypeOK
  <1>8. kind' \in Kinds
    BY <1>4, PlannedKinds
  <1>9. TypeOK'
    BY <1>5, <1>7, <1>8 DEF Inv, TypeOK, TakeTurn, planVars, feeVars
  <1>10. Planning' /\ Starting'
    BY <1>1, <1>4, PlanStays DEF TakeTurn
  <1>11. Fees'
    <2>1. ~sending /\ sending' = sending
      BY <1>1 DEF TakeTurn, Inv, Fees
    <2>2. feeCap \in 0..MaxRefresh /\ feeCap' = feeCap /\ tip' = tip
      BY DEF Inv, TypeOK, TakeTurn, feeVars
    <2>3. MaxRefresh \in Nat
      BY MixAssumption DEF MixAssumption
    <2> QED
      BY <1>7, <2>1, <2>2, <2>3 DEF Inv, Fees
  <1> QED
    BY <1>9, <1>10, <1>11 DEF Inv

LEMMA BuildInv == ASSUME Inv, Build PROVE Inv'
  <1>1. built' = [built EXCEPT !.tip = tip]
    BY DEF Build, FeesRead
  <1>2. /\ built' \in [feeCap : 0..MaxRefresh, tip : 0..MaxRefresh]
        /\ built'.tip = tip /\ built'.feeCap = built.feeCap
    BY <1>1 DEF Inv, TypeOK
  <1>3. TypeOK'
    BY <1>2 DEF Inv, TypeOK, Build, planVars, feeVars
  <1>4. Planning' /\ Starting'
    BY PlanStays DEF Inv, Planning, Build
  <1>5. Fees'
    <2>1. MaxRefresh \in Nat
      BY MixAssumption DEF MixAssumption
    <2>2. /\ {feeCap, tip, built.feeCap} \subseteq 0..MaxRefresh
          /\ feeCap' = feeCap /\ tip' = tip /\ kind' = kind /\ kind # NoKind
      BY DEF Inv, TypeOK, Build, feeVars
    <2> QED
      BY <1>2, <2>1, <2>2 DEF Inv, Fees
  <1> QED
    BY <1>3, <1>4, <1>5 DEF Inv

LEMMA SendReturnsInv ==
  ASSUME Inv, NEW event \in {"accepted", "refused"}, SendReturns(event)
  PROVE  Inv'
  <1>1. turn' = turn /\ kind' = NoKind /\ sending' = FALSE /\ built' = NoFees
    BY DEF SendReturns, TurnAfter
  <1>2. MaxRefresh \in Nat
    BY MixAssumption DEF MixAssumption
  <1>3. TypeOK'
    <2>1. built' \in [feeCap : 0..MaxRefresh, tip : 0..MaxRefresh]
      BY <1>1, <1>2 DEF NoFees
    <2> QED
      BY <1>1, <2>1 DEF Inv, TypeOK, SendReturns, planVars, feeVars
  <1>4. Planning' /\ Starting'
    BY <1>1, PlanStays DEF SendReturns
  <1>5. Fees'
    BY <1>1, <1>2 DEF Inv, Fees, TypeOK, SendReturns, NoFees, feeVars
  <1> QED
    BY <1>3, <1>4, <1>5 DEF Inv

LEMMA RunEndsInv == ASSUME Inv, RunEnds PROVE Inv'
  <1>1. stage = "run" /\ stage' = "over"
    BY DEF RunEnds, Goto
  <1>2. TypeOK'
    BY <1>1 DEF Inv, TypeOK, RunEnds, planVars, workerVars, feeVars
  <1>3. Planning'
    BY <1>1 DEF Inv, Planning, RunEnds, planVars, workerVars
  <1>4. Starting'
    BY <1>1 DEF Starting
  <1>5. Fees'
    BY DEF Inv, Fees, RunEnds, workerVars, feeVars
  <1> QED
    BY <1>2, <1>3, <1>4, <1>5 DEF Inv

LEMMA RefreshInv == ASSUME Inv, StoreFeeCap \/ StoreTip PROVE Inv'
  <1>1. MaxRefresh \in Nat
    BY MixAssumption DEF MixAssumption
  <1>2. /\ stage = "run" /\ stage' = stage /\ planVars' = planVars
        /\ turn' = turn /\ kind' = kind /\ sending' = sending /\ built' = built
    BY DEF StoreFeeCap, StoreTip, workerVars
  <1>3. \/ feeCap = tip /\ feeCap < MaxRefresh /\ feeCap' = feeCap + 1 /\ tip' = tip
        \/ feeCap # tip /\ tip' = feeCap /\ feeCap' = feeCap
    BY DEF StoreFeeCap, StoreTip
  <1>4. TypeOK'
    <2>1. feeCap' \in 0..MaxRefresh /\ tip' \in 0..MaxRefresh
      <3>1. {feeCap, tip} \subseteq 0..MaxRefresh
        BY DEF Inv, TypeOK
      <3> QED
        BY <1>1, <1>3, <3>1
    <2> QED
      BY <1>2, <2>1 DEF Inv, TypeOK, planVars
  <1>5. Planning' /\ Starting'
    BY <1>2, PlanStays DEF Inv, Planning
  <1>6. Fees'
    BY <1>1, <1>2, <1>3 DEF Inv, Fees, TypeOK
  <1> QED
    BY <1>4, <1>5, <1>6 DEF Inv

LEMMA StutterInv == ASSUME Inv, UNCHANGED vars PROVE Inv'
  <1>1. TypeOK'
    BY DEF Inv, TypeOK, vars, planVars, workerVars, feeVars
  <1>2. Planning'
    <2>1. \A k : Turns(k)' = Turns(k)
      BY DEF Turns, vars, planVars
    <2> QED
      BY <2>1 DEF Inv, Planning, vars, planVars, workerVars
  <1>3. Starting' /\ Fees'
    BY DEF Inv, Starting, Fees, vars, planVars, workerVars, feeVars
  <1> QED
    BY <1>1, <1>2, <1>3 DEF Inv

LEMMA NextInv == ASSUME Inv, [Next]_vars PROVE Inv'
  <1>1. CASE Start
    BY <1>1, LoadTargetInv, SetUpInv, MakePlanInv DEF Start
  <1>2. CASE Worker
    BY <1>2, TakeTurnInv, BuildInv, SendReturnsInv DEF Worker
  <1>3. CASE TickerPanics \/ RunEnds \/ StoreFeeCap \/ StoreTip
    BY <1>3, TickerPanicsInv, RunEndsInv, RefreshInv
  <1>4. CASE Ended \/ UNCHANGED vars
    BY <1>4, StutterInv DEF Ended
  <1> QED
    BY <1>1, <1>2, <1>3, <1>4 DEF Next

(* The inductive invariant holds whatever the files say, the node takes and  *)
(* the refresher stores.                                                     *)
THEOREM Invariance == Spec => []Inv
  <1>1. Inv /\ [Next]_vars => Inv'
    BY NextInv
  <1> QED
    BY InvInit, <1>1, PTL DEF Spec

-----------------------------------------------------------------------------
(* Every variable has its type. *)
THEOREM TypeCorrect == Spec => []TypeOK
  <1>1. Inv => TypeOK
    BY DEF Inv
  <1> QED
    BY <1>1, Invariance, PTL

(* No kind is offered whose contracts the deployment does not name, nor a    *)
(* destructive one the target does not permit.                               *)
THEOREM OffersOnlyWithContracts == Spec => []OnlyWithContracts
  <1>1. Inv => OnlyWithContracts
    BY ContractsThere DEF Inv, Planning, Planned, OnlyWithContracts
  <1> QED
    BY <1>1, Invariance, PTL

(* Every planned lane with a target has a turn, and one with the larger      *)
(* target no fewer turns, for any number of lanes in any order of the map.   *)
THEOREM TurnsFollowTargets == Spec => []WeightsFollowTargets
  <1>1. ASSUME Inv, stage = "run"
        PROVE  /\ \A k \in Planned(target, builder) : Turns(k) > 0 <=> target.lanes[k].inflight > 0
               /\ \A j, k \in Planned(target, builder) :
                    target.lanes[j].inflight <= target.lanes[k].inflight => Turns(j) <= Turns(k)
    <2>1. \A k \in Planned(target, builder) :
            /\ target.lanes[k].inflight \in Int
            /\ Turns(k) = IF target.lanes[k].inflight > 0 THEN Reps(target.lanes[k].inflight) ELSE 0
      BY <1>1 DEF Inv, TypeOK, Planning, Planned, IsTarget
    <2>2. \A m \in Int : m > 0 => Reps(m) \in Nat \ {0}
      BY RepsGrow
    <2>3. ASSUME NEW k \in Planned(target, builder)
          PROVE  Turns(k) > 0 <=> target.lanes[k].inflight > 0
      BY <2>1, <2>2
    <2>4. ASSUME NEW j \in Planned(target, builder), NEW k \in Planned(target, builder),
                 target.lanes[j].inflight <= target.lanes[k].inflight
          PROVE  Turns(j) <= Turns(k)
      <3>1. PICK m \in Int : m = target.lanes[j].inflight
        BY <2>1
      <3>2. PICK n \in Int : n = target.lanes[k].inflight
        BY <2>1
      <3>3. /\ m <= n
            /\ Turns(j) = IF m > 0 THEN Reps(m) ELSE 0
            /\ Turns(k) = IF n > 0 THEN Reps(n) ELSE 0
        BY <2>1, <2>4, <3>1, <3>2
      <3>4. m > 0 => Reps(m) \in Nat \ {0} /\ Reps(n) \in Nat \ {0} /\ Reps(m) <= Reps(n)
        BY <3>1, <3>2, <3>3, RepsGrow
      <3> QED
        BY <2>2, <3>1, <3>2, <3>3, <3>4
    <2> QED
      BY <2>3, <2>4
  <1>2. Inv => WeightsFollowTargets
    BY <1>1 DEF WeightsFollowTargets
  <1> QED
    BY <1>2, Invariance, PTL

(* The load starts on an endpoint the file names and with accounts; only a   *)
(* negative number in the file makes the process panic.                      *)
THEOREM StartsConfigured == Spec => []StartsCleanly
  <1>1. ASSUME Inv, stage = "run" PROVE PrimaryJSONRPC(target) # "" /\ target.accountsN > 0
    <2>1. IsTarget(target) /\ Valid(target) /\ target.accountsN > 0
      BY <1>1 DEF Inv, TypeOK, Starting
    <2>2. PICK i \in 1..Len(target.nodes) : PrimaryJSONRPC(target) = target.nodes[i].jsonrpc
      BY <2>1, PrimaryIsANode DEF Valid
    <2> QED
      BY <2>1, <2>2 DEF Valid
  <1>2. Inv => StartsCleanly
    BY <1>1 DEF StartsCleanly, Inv, Starting
  <1> QED
    BY <1>2, Invariance, PTL

(* Whatever stores of the refresher fall between the two loads of a build,   *)
(* the tip is at most one refresh older than the fee cap.                    *)
THEOREM TipKeepsUp == Spec => []TipNotStale
  <1>1. Inv => TipNotStale
    BY DEF Inv, Fees, TipNotStale
  <1> QED
    BY <1>1, Invariance, PTL
-----------------------------------------------------------------------------
(* "Repeat each kind proportional to its inflight": from a target of ten on  *)
(* the turns of a lane are a tenth of its target, rounded down; where all    *)
(* targets are multiples of ten the proportion is exact, and otherwise no    *)
(* lane's share is off by a whole turn.                                      *)
InProportion ==
  stage = "run" =>
    \A j, k \in Planned(target, builder) :
      LET m == target.lanes[j].inflight
          n == target.lanes[k].inflight
      IN m >= 10 /\ n >= 10 =>
           /\ 10 * Turns(k) <= n /\ n < 10 * Turns(k) + 10
           /\ m % 10 = 0 /\ n % 10 = 0 => Turns(j) * n = Turns(k) * m

(* What the loop of Driver.Run makes of a target of at least ten. *)
LEMMA TenthOf ==
  ASSUME NEW n \in Int, n >= 10
  PROVE  /\ Reps(n) \in Nat /\ 10 * Reps(n) <= n /\ n < 10 * Reps(n) + 10
         /\ n % 10 = 0 => n = 10 * Reps(n)
  <1>1. Reps(n) = n \div 10
    BY DEF Reps
  <1>2. n \div 10 \in Nat /\ n = 10 * (n \div 10) + (n % 10) /\ n % 10 \in 0..9
    OBVIOUS
  <1> QED
    BY <1>1, <1>2

(* Cross-multiplied, since there are no fractions. *)
LEMMA SameRatio ==
  ASSUME NEW p \in Nat, NEW q \in Nat, NEW m \in Int, NEW n \in Int, m = 10 * p, n = 10 * q
  PROVE  p * n = q * m
  <1>1. p * n = 10 * (p * q) /\ q * m = 10 * (p * q)
    OBVIOUS
  <1> QED
    BY <1>1

(* Whatever the lanes and their order, the turns follow the targets in        *)
(* proportion, as far as the rounding leaves it.                             *)
THEOREM TurnsInProportion == Spec => []InProportion
  <1>1. ASSUME Inv, stage = "run", NEW k \in Planned(target, builder), target.lanes[k].inflight >= 10
        PROVE  target.lanes[k].inflight \in Int /\ Turns(k) = Reps(target.lanes[k].inflight)
    <2>1. target.lanes[k].inflight \in Int
      BY <1>1 DEF Inv, TypeOK, Planned, IsTarget
    <2> QED
      BY <1>1, <2>1 DEF Inv, Planning
  <1>2. ASSUME Inv, stage = "run", NEW j \in Planned(target, builder), NEW k \in Planned(target, builder),
               NEW m, m = target.lanes[j].inflight, NEW n, n = target.lanes[k].inflight, m >= 10, n >= 10
        PROVE  /\ 10 * Turns(k) <= n /\ n < 10 * Turns(k) + 10
               /\ m % 10 = 0 /\ n % 10 = 0 => Turns(j) * n = Turns(k) * m
    <2>1. m \in Int /\ n \in Int /\ Turns(j) = Reps(m) /\ Turns(k) = Reps(n)
      BY <1>1, <1>2
    <2>2. /\ Reps(m) \in Nat /\ Reps(n) \in Nat
          /\ 10 * Reps(n) <= n /\ n < 10 * Reps(n) + 10
          /\ m % 10 = 0 => m = 10 * Reps(m)
          /\ n % 10 = 0 => n = 10 * Reps(n)
      BY <1>2, <2>1, TenthOf
    <2>3. m % 10 = 0 /\ n % 10 = 0 => Reps(m) * n = Reps(n) * m
      BY <2>1, <2>2, SameRatio
    <2> QED
      BY <2>1, <2>2, <2>3
  <1>3. Inv => InProportion
    BY <1>2 DEF InProportion
  <1> QED
    BY <1>3, Invariance, PTL
=============================================================================
