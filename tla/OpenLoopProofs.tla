--------------------------- MODULE OpenLoopProofs ---------------------------
(***************************************************************************)
(* What holds of OpenLoop for every set of accounts, window, number of     *)
(* setup transactions, bound and kind of node.                             *)
(***************************************************************************)
EXTENDS OpenLoop, FiniteSetTheorems, TLAPS

LEMMA InitInv == Init => Inv
  <1> SUFFICES ASSUME Init PROVE Inv
    OBVIOUS
  <1> USE OpenLoopAssumption, ChainAssumption DEF OpenLoopAssumption, ChainAssumption
  <1>1. mined \in [Account -> 0..SetupTxs]
    BY DEF Init
  <1>2. 0 \in Nonce /\ SetupTxs \in Nonce /\ 0..SetupTxs \subseteq Nonce
    BY DEF Nonce
  <1>3. ASSUME NEW a \in Account
        PROVE  /\ nonces[a] = SetupTxs /\ admitted[a] = SetupTxs
               /\ mined[a] \in 0..SetupTxs
               /\ pool[a] \subseteq 0..SetupTxs
               /\ \A n \in pool[a] : mined[a] <= n /\ n < SetupTxs
               /\ confirmed[a] = 0 /\ seen[a] = 0 /\ wire[a] = {}
               /\ pc[a] = "top" /\ pollAt # a
    <2>1. pool[a] \subseteq 0..SetupTxs
      BY DEF Init
    <2>2. \A n \in pool[a] : mined[a] <= n /\ n < SetupTxs
      BY <2>1 DEF Init
    <2> QED
      BY <1>1, <2>1, <2>2 DEF Init
  <1>4. TypeOK
    <2>1. mined \in [Account -> Nonce]
      BY <1>1, <1>2
    <2>2. pool \in [Account -> SUBSET Nonce]
      BY <1>2 DEF Init
    <2>3. /\ nonces \in [Account -> Nonce] /\ admitted \in [Account -> Nonce]
          /\ confirmed \in [Account -> Nonce] /\ seen \in [Account -> Nonce]
          /\ wire \in [Account -> SUBSET Nonce]
      BY <1>2 DEF Init
    <2>4. pc \in [Account -> PC] /\ capped \in [Account -> BOOLEAN]
      BY DEF Init, PC
    <2>5. /\ drops \in 0..MaxDrops
          /\ pollPc \in {"tick", "sweep", "done"} /\ pollTodo \in SUBSET Account
          /\ pollAt \in Account \cup {NoAccount} /\ pollSeen \in Nonce
      BY <1>2 DEF Init
    <2>6. stopped \in BOOLEAN
      BY DEF Init
    <2> QED
      BY <2>1, <2>2, <2>3, <2>4, <2>5, <2>6 DEF TypeOK
  <1>5. ConfirmedNeverAhead
    <2> SUFFICES ASSUME NEW a \in Account
                 PROVE  /\ confirmed[a] <= mined[a]
                        /\ seen[a] <= mined[a]
                        /\ pollAt = a => pollSeen <= mined[a]
      BY DEF ConfirmedNeverAhead
    <2> QED
      BY <1>3
  <1>6. Pipeline
    <2> SUFFICES ASSUME NEW a \in Account
                 PROVE  /\ mined[a] <= admitted[a]
                        /\ admitted[a] <= mined[a] + Ahead
                        /\ nonces[a] <= admitted[a]
                        /\ pc[a] = "sent" => nonces[a] < admitted[a]
      BY DEF Pipeline
    <2> QED
      BY <1>3
  <1>7. WireInWindow /\ PoolInPipeline
    BY <1>3 DEF WireInWindow, PoolInPipeline
  <1>8. PoolIsWhole
    <2> SUFFICES ASSUME drops = 0, NEW a \in Account, NEW n \in Nonce, mined[a] <= n, n < admitted[a]
                 PROVE  n \in pool[a]
      BY DEF PoolIsWhole
    <2>1. n \in 0..SetupTxs /\ n < SetupTxs
      BY <1>3 DEF Nonce
    <2> QED
      BY <2>1 DEF Init
  <1> QED
    BY <1>4, <1>5, <1>6, <1>7, <1>8 DEF Inv

(***************************************************************************)
(* What the node gains when it admits a request, whoever still waits for   *)
(* the answer.                                                             *)
(***************************************************************************)
LEMMA AdmitKeepsChain ==
  ASSUME Inv, NEW a \in Account, NEW n \in wire[a], Admit(a, n)
  PROVE  /\ n \in Nonce /\ mined[a] <= n /\ n <= admitted[a]
         /\ \A b \in Account : admitted'[b] \in {admitted[b], admitted[b] + 1}
         /\ \A b \in Account : admitted'[b] <= mined[b] + Ahead
         /\ pool' \in [Account -> SUBSET Nonce]
         /\ wire' \in [Account -> SUBSET Nonce]
         /\ admitted' \in [Account -> Nonce]
         /\ WireInWindow' /\ PoolInPipeline' /\ PoolIsWhole'
  <1> USE OpenLoopAssumption, ChainAssumption DEF Inv, TypeOK, Nonce
  <1>1. n \in Nonce /\ mined[a] <= n /\ n <= admitted[a] /\ n < mined[a] + Ahead /\ n < MaxNonce
    BY DEF Admit, Admissible, WireInWindow
  <1>2. /\ pool' \in [Account -> SUBSET Nonce]
        /\ wire' \in [Account -> SUBSET Nonce]
        /\ admitted' \in [Account -> Nonce]
    BY <1>1 DEF Admit
  <1>3. /\ admitted'[a] = IF n < admitted[a] THEN admitted[a] ELSE n + 1
        /\ pool'[a] = pool[a] \cup {n}
        /\ wire'[a] = wire[a] \ {n}
        /\ mined' = mined /\ drops' = drops
        /\ \A b \in Account \ {a} : pool'[b] = pool[b] /\ wire'[b] = wire[b] /\ admitted'[b] = admitted[b]
    BY DEF Admit
  <1>4. \A b \in Account : admitted'[b] \in {admitted[b], admitted[b] + 1} /\ admitted'[b] <= mined[b] + Ahead
    BY <1>1, <1>3 DEF Pipeline
  <1>5. WireInWindow'
    <2> SUFFICES ASSUME NEW b \in Account, NEW m \in wire'[b]
                 PROVE  m <= admitted'[b] /\ m < mined'[b] + Ahead /\ m < MaxNonce
      BY DEF WireInWindow
    <2>1. m \in wire[b] /\ m \in Nonce
      BY <1>3
    <2> QED
      BY <2>1, <1>3, <1>4 DEF WireInWindow
  <1>6. PoolInPipeline'
    <2> SUFFICES ASSUME NEW b \in Account, NEW m \in pool'[b]
                 PROVE  mined'[b] <= m /\ m < admitted'[b]
      BY DEF PoolInPipeline
    <2>1. CASE b = a /\ m = n
      BY <2>1, <1>1, <1>3
    <2>2. CASE m \in pool[b]
      BY <2>2, <1>3, <1>4 DEF PoolInPipeline
    <2> QED
      BY <2>1, <2>2, <1>3
  <1>7. PoolIsWhole'
    <2> SUFFICES ASSUME drops' = 0, NEW b \in Account, NEW m \in Nonce,
                        mined'[b] <= m, m < admitted'[b]
                 PROVE  m \in pool'[b]
      BY DEF PoolIsWhole
    <2>1. CASE m < admitted[b]
      BY <2>1, <1>3 DEF PoolIsWhole
    <2>2. CASE ~(m < admitted[b])
      BY <2>2, <1>1, <1>3
    <2> QED
      BY <2>1, <2>2
  <1> QED
    BY <1>1, <1>2, <1>4, <1>5, <1>6, <1>7

LEMMA SendAcceptedInv ==
  ASSUME Inv, NEW a \in Account, SendAccepted(a)
  PROVE  Inv'
  <1> USE OpenLoopAssumption, ChainAssumption DEF Inv, SendAccepted
  <1> DEFINE n == nonces[a]
  <1>1. n \in wire[a] /\ Admit(a, n) /\ UNCHANGED <<nonces, confirmed, mined, drops>>
    BY DEF Admit, accountVars
  <1>2. /\ n \in Nonce /\ n <= admitted[a]
        /\ \A b \in Account : admitted'[b] \in {admitted[b], admitted[b] + 1}
        /\ \A b \in Account : admitted'[b] <= mined[b] + Ahead
        /\ pool' \in [Account -> SUBSET Nonce]
        /\ wire' \in [Account -> SUBSET Nonce]
        /\ admitted' \in [Account -> Nonce]
        /\ WireInWindow' /\ PoolInPipeline' /\ PoolIsWhole'
    BY <1>1, AdmitKeepsChain
  <1>3. TypeOK' /\ ConfirmedNeverAhead'
    BY <1>1, <1>2 DEF TypeOK, PC, Nonce, ConfirmedNeverAhead, Goto, pollVars
  <1>4. n < admitted'[a]
    BY <1>1, <1>2 DEF Admit, TypeOK, Nonce
  <1>5. Pipeline'
    BY <1>1, <1>2, <1>4 DEF Pipeline, TypeOK, Nonce, Goto
  <1> QED
    BY <1>2, <1>3, <1>5

LEMMA LateArrivalInv ==
  ASSUME Inv, NEW a \in Account, LateArrival(a)
  PROVE  Inv'
  <1> USE OpenLoopAssumption, ChainAssumption DEF Inv, LateArrival
  <1>1. PICK n \in wire[a] : Admit(a, n) \/ Refuse(a, n)
    OBVIOUS
  <1>2. UNCHANGED <<nonces, confirmed, pc, seen, capped, stopped, pollVars>>
    BY DEF accountVars, workerVars
  <1>3. CASE Admit(a, n)
    <2>1. UNCHANGED <<mined, drops>>
      BY <1>3 DEF Admit
    <2>2. /\ \A b \in Account : admitted'[b] \in {admitted[b], admitted[b] + 1}
          /\ \A b \in Account : admitted'[b] <= mined[b] + Ahead
          /\ pool' \in [Account -> SUBSET Nonce]
          /\ wire' \in [Account -> SUBSET Nonce]
          /\ admitted' \in [Account -> Nonce]
          /\ WireInWindow' /\ PoolInPipeline' /\ PoolIsWhole'
      BY <1>3, AdmitKeepsChain
    <2>3. TypeOK' /\ ConfirmedNeverAhead'
      BY <1>2, <2>1, <2>2 DEF TypeOK, ConfirmedNeverAhead, pollVars
    <2>4. Pipeline'
      BY <1>2, <2>1, <2>2 DEF Pipeline, TypeOK, Nonce
    <2> QED
      BY <2>2, <2>3, <2>4
  <1>4. CASE Refuse(a, n)
    BY <1>2, <1>4 DEF Refuse, pollVars, TypeOK, ConfirmedNeverAhead, Pipeline, WireInWindow,
       PoolInPipeline, PoolIsWhole
  <1> QED
    BY <1>1, <1>3, <1>4

LEMMA ChainMinesInv ==
  ASSUME Inv, NEW a \in Account, ChainMines(a)
  PROVE  Inv'
  <1> USE OpenLoopAssumption, ChainAssumption DEF Inv, ChainMines, TypeOK, Nonce
  <1>1. /\ mined[a] \in pool[a]
        /\ mined' = [mined EXCEPT ![a] = @ + 1]
        /\ pool' = [pool EXCEPT ![a] = @ \ {mined[a]}]
        /\ UNCHANGED <<nonces, confirmed, pc, seen, capped, stopped, pollVars, wire, admitted, drops>>
    BY DEF Mine, accountVars, workerVars
  <1>2. mined[a] < admitted[a] /\ mined[a] + 1 \in Nonce
    BY <1>1 DEF PoolInPipeline
  <1>3. TypeOK' /\ ConfirmedNeverAhead'
    BY <1>1, <1>2 DEF ConfirmedNeverAhead, pollVars
  <1>4. Pipeline' /\ WireInWindow'
    BY <1>1, <1>2 DEF Pipeline, WireInWindow
  <1>5. PoolInPipeline'
    <2> SUFFICES ASSUME NEW b \in Account, NEW m \in pool'[b]
                 PROVE  mined'[b] <= m /\ m < admitted'[b]
      BY DEF PoolInPipeline
    <2>1. m \in pool[b] /\ (b = a => m # mined[a])
      BY <1>1
    <2> QED
      BY <2>1, <1>1 DEF PoolInPipeline
  <1>6. PoolIsWhole'
    BY <1>1 DEF PoolIsWhole
  <1> QED
    BY <1>3, <1>4, <1>5, <1>6

(***************************************************************************)
(* Every step of the driver and of the node preserves the invariant.       *)
(***************************************************************************)
LEMMA NextInv == Inv /\ [Next]_vars => Inv'
  <1> SUFFICES ASSUME Inv, [Next]_vars PROVE Inv'
    OBVIOUS
  <1> USE OpenLoopAssumption, ChainAssumption DEF Inv
  <1>1. ASSUME NEW a \in Account, BeginSend(a) PROVE Inv'
    BY <1>1 DEF BeginSend, AtTop, BelowWindow, Inflight, Peek, Submit, Goto, accountVars, pollVars,
       TypeOK, Nonce, PC, ConfirmedNeverAhead, Pipeline,
       WireInWindow, PoolInPipeline, PoolIsWhole
  <1>2. ASSUME NEW a \in Account, BuildFails(a) PROVE Inv'
    BY <1>2 DEF BuildFails, accountVars, chainVars, pollVars,
       TypeOK, Nonce, PC, ConfirmedNeverAhead, Pipeline,
       WireInWindow, PoolInPipeline, PoolIsWhole
  <1>3. ASSUME NEW a \in Account, NoteCapped(a) PROVE Inv'
    BY <1>3 DEF NoteCapped, accountVars, chainVars, pollVars,
       TypeOK, Nonce, PC, ConfirmedNeverAhead, Pipeline,
       WireInWindow, PoolInPipeline, PoolIsWhole
  <1>4. ASSUME NEW a \in Account, WedgeElapsed(a) PROVE Inv'
    BY <1>4 DEF WedgeElapsed, Goto, accountVars, chainVars, pollVars,
       TypeOK, Nonce, PC, ConfirmedNeverAhead, Pipeline,
       WireInWindow, PoolInPipeline, PoolIsWhole
  <1>5. ASSUME NEW a \in Account, WedgeRead(a) PROVE Inv'
    BY <1>5 DEF WedgeRead, NonceAt, Goto, accountVars, chainVars, pollVars,
       TypeOK, Nonce, PC, ConfirmedNeverAhead, Pipeline,
       WireInWindow, PoolInPipeline, PoolIsWhole
  <1>6. ASSUME NEW a \in Account, WedgeReadFails(a) PROVE Inv'
    BY <1>6 DEF WedgeReadFails, Goto, accountVars, chainVars, pollVars,
       TypeOK, Nonce, PC, ConfirmedNeverAhead, Pipeline,
       WireInWindow, PoolInPipeline, PoolIsWhole
  <1>7. ASSUME NEW a \in Account, Rewind(a) PROVE Inv'
    BY <1>7 DEF Rewind, Goto, SetBase, chainVars, pollVars,
       TypeOK, Nonce, PC, ConfirmedNeverAhead, Pipeline,
       WireInWindow, PoolInPipeline, PoolIsWhole
  <1>8. ASSUME NEW a \in Account, SendAccepted(a) PROVE Inv'
    BY <1>8, SendAcceptedInv
  <1>9. ASSUME NEW a \in Account, SendRefused(a) PROVE Inv'
    BY <1>9 DEF SendRefused, OfferedAgain, Goto, Refuse, accountVars, pollVars,
       TypeOK, Nonce, PC, ConfirmedNeverAhead, Pipeline,
       WireInWindow, PoolInPipeline, PoolIsWhole
  <1>10. ASSUME NEW a \in Account, SendLost(a) PROVE Inv'
    BY <1>10 DEF SendLost, Goto, accountVars, chainVars, pollVars,
       TypeOK, Nonce, PC, ConfirmedNeverAhead, Pipeline,
       WireInWindow, PoolInPipeline, PoolIsWhole
  <1>11. ASSUME NEW a \in Account, Commits(a) PROVE Inv'
    BY <1>11 DEF Commits, Goto, Commit, chainVars, pollVars,
       TypeOK, Nonce, PC, ConfirmedNeverAhead, Pipeline,
       WireInWindow, PoolInPipeline, PoolIsWhole
  <1>12. ASSUME NEW a \in Account, FailureRead(a) PROVE Inv'
    BY <1>12 DEF FailureRead, NonceAt, Goto, accountVars, chainVars, pollVars,
       TypeOK, Nonce, PC, ConfirmedNeverAhead, Pipeline,
       WireInWindow, PoolInPipeline, PoolIsWhole
  <1>13. ASSUME NEW a \in Account, FailureReadFails(a) PROVE Inv'
    BY <1>13 DEF FailureReadFails, Goto, accountVars, chainVars, pollVars,
       TypeOK, Nonce, PC, ConfirmedNeverAhead, Pipeline,
       WireInWindow, PoolInPipeline, PoolIsWhole
  <1>14. ASSUME NEW a \in Account, Resync(a) PROVE Inv'
    BY <1>14 DEF Resync, ChainIsAhead, Goto, Peek, SetBase, accountVars, chainVars, pollVars,
       TypeOK, Nonce, PC, ConfirmedNeverAhead, Pipeline,
       WireInWindow, PoolInPipeline, PoolIsWhole
  <1>15. ASSUME NEW a \in Account, Quit(a) PROVE Inv'
    BY <1>15 DEF Quit, Goto, accountVars, chainVars, pollVars,
       TypeOK, Nonce, PC, ConfirmedNeverAhead, Pipeline,
       WireInWindow, PoolInPipeline, PoolIsWhole
  <1>16. ASSUME NEW a \in Account, LateArrival(a) PROVE Inv'
    BY <1>16, LateArrivalInv
  <1>17. ASSUME NEW a \in Account, ChainMines(a) PROVE Inv'
    BY <1>17, ChainMinesInv
  <1>18. ASSUME NEW a \in Account, ChainDrops(a) PROVE Inv'
    BY <1>18 DEF ChainDrops, Drop, accountVars, workerVars, pollVars,
       TypeOK, Nonce, PC, ConfirmedNeverAhead, Pipeline,
       WireInWindow, PoolInPipeline, PoolIsWhole
  <1>19. ASSUME NEW a \in Account, PollRead(a) PROVE Inv'
    BY <1>19 DEF PollRead, NonceAt, accountVars, chainVars, workerVars,
       TypeOK, Nonce, PC, ConfirmedNeverAhead, Pipeline,
       WireInWindow, PoolInPipeline, PoolIsWhole
  <1>20. ASSUME NEW a \in Account, PollReadFails(a) PROVE Inv'
    BY <1>20 DEF PollReadFails, accountVars, chainVars, workerVars,
       TypeOK, Nonce, PC, ConfirmedNeverAhead, Pipeline,
       WireInWindow, PoolInPipeline, PoolIsWhole
  <1>21. ASSUME NEW a \in Account, PollStore(a) PROVE Inv'
    BY <1>21 DEF PollStore, SetConfirmed, chainVars, workerVars,
       TypeOK, Nonce, PC, ConfirmedNeverAhead, Pipeline,
       WireInWindow, PoolInPipeline, PoolIsWhole
  <1>22. CASE PollTick
    BY <1>22 DEF PollTick, accountVars, chainVars, workerVars,
       TypeOK, Nonce, PC, ConfirmedNeverAhead, Pipeline,
       WireInWindow, PoolInPipeline, PoolIsWhole
  <1>23. CASE PollSweepEnds
    BY <1>23 DEF PollSweepEnds, accountVars, chainVars, workerVars,
       TypeOK, Nonce, PC, ConfirmedNeverAhead, Pipeline,
       WireInWindow, PoolInPipeline, PoolIsWhole
  <1>24. CASE PollQuit
    BY <1>24 DEF PollQuit, accountVars, chainVars, workerVars,
       TypeOK, Nonce, PC, ConfirmedNeverAhead, Pipeline,
       WireInWindow, PoolInPipeline, PoolIsWhole
  <1>25. CASE Cancel
    BY <1>25 DEF Cancel, accountVars, chainVars, workerVars, pollVars,
       TypeOK, Nonce, PC, ConfirmedNeverAhead, Pipeline,
       WireInWindow, PoolInPipeline, PoolIsWhole
  <1>26. CASE UNCHANGED vars
    BY <1>26 DEF vars, accountVars, chainVars, workerVars, pollVars,
       TypeOK, Nonce, PC, ConfirmedNeverAhead, Pipeline,
       WireInWindow, PoolInPipeline, PoolIsWhole
  <1> QED
    BY <1>1, <1>2, <1>3, <1>4, <1>5, <1>6, <1>7, <1>8, <1>9, <1>10, <1>11, <1>12, <1>13,
       <1>14, <1>15, <1>16, <1>17, <1>18, <1>19, <1>20, <1>21, <1>22, <1>23, <1>24, <1>25, <1>26
    DEF Next, Worker, LocalStep, SendReturns, ReadReturns, Node, Poller, Idle

(* The inductive invariant holds throughout every run. *)
THEOREM Invariance == Spec => []Inv
  BY InitInv, NextInv, PTL DEF Spec

(* Every variable keeps its type: no nonce leaves 0..MaxNonce, although the  *)
(* code's subtraction and increments are on unsigned integers.               *)
THEOREM TypeCorrect == Spec => []TypeOK
  <1>1. Inv => TypeOK
    BY DEF Inv
  <1> QED
    BY <1>1, Invariance, PTL

(* Inflight < ahead, computed by the worker from a confirmed nonce that may  *)
(* be arbitrarily old, bounds what the node holds of every account.          *)
THEOREM WindowBounded == Spec => []WindowBound
  <1>1. Inv => WindowBound
    <2> SUFFICES ASSUME Inv, NEW a \in Account, NEW n \in pool[a] \cup wire[a]
                 PROVE  n < mined[a] + Ahead
      BY DEF WindowBound
    <2>1. CASE n \in wire[a]
      BY <2>1 DEF Inv, WireInWindow
    <2>2. CASE n \in pool[a]
      <3>1. n < admitted[a] /\ admitted[a] <= mined[a] + Ahead
        BY <2>2 DEF Inv, PoolInPipeline, Pipeline
      <3> QED
        BY <3>1, <2>2, OpenLoopAssumption DEF Inv, TypeOK, Nonce
    <2> QED
      BY <2>1, <2>2
  <1> QED
    BY <1>1, Invariance, PTL

(* The confirmed nonce of an account never runs ahead of the chain: a stale  *)
(* poll or re-seed only makes the window narrower.                           *)
THEOREM ConfirmedBehindChain == Spec => []ConfirmedNeverAhead
  <1>1. Inv => ConfirmedNeverAhead
    BY DEF Inv
  <1> QED
    BY <1>1, Invariance, PTL

(* As long as the node loses nothing, the driver leaves no hole below its    *)
(* assign pointer: failed sends, lost replies, re-seeds and rewinds included.*)
THEOREM GaplessWithoutLoss == Spec => []NoSelfInflictedGap
  <1>1. Inv => NoSelfInflictedGap
    <2> SUFFICES ASSUME Inv, drops = 0, NEW a \in Account, NEW n \in Nonce,
                        mined[a] <= n, n < nonces[a]
                 PROVE  n \in pool[a]
      BY DEF NoSelfInflictedGap
    <2>1. n < admitted[a]
      BY OpenLoopAssumption DEF Inv, Pipeline, TypeOK, Nonce
    <2> QED
      BY <2>1 DEF Inv, PoolIsWhole
  <1> QED
    BY <1>1, Invariance, PTL

-----------------------------------------------------------------------------
(* "Throughput scales with accounts*ahead": what is submitted and not yet    *)
(* executed, in the mempool or on the wire, as pairs of account and nonce.   *)
InFlight ==
  {t \in Account \X Nonce : t[2] \in pool[t[1]] \cup wire[t[1]] /\ mined[t[1]] <= t[2]}

(* Each has a place of its own among the Ahead places of its account.        *)
LEMMA PlacesInWindow ==
  ASSUME Inv, WindowBound
  PROVE  [t \in InFlight |-> <<t[1], t[2] - mined[t[1]]>>]
           \in Injection(InFlight, Account \X (0..(Ahead - 1)))
  <1> USE OpenLoopAssumption DEF Inv, TypeOK, Nonce
  <1> DEFINE place == [t \in InFlight |-> <<t[1], t[2] - mined[t[1]]>>]
  <1>1. ASSUME NEW t \in InFlight
        PROVE  /\ t = <<t[1], t[2]>> /\ t[1] \in Account /\ t[2] \in Nat /\ mined[t[1]] \in Nat
               /\ t[2] - mined[t[1]] \in 0..(Ahead - 1)
    BY <1>1 DEF InFlight, WindowBound
  <1>2. place \in [InFlight -> Account \X (0..(Ahead - 1))]
    BY <1>1
  <1>3. ASSUME NEW t \in InFlight, NEW u \in InFlight, place[t] = place[u]
        PROVE  t = u
    <2>1. t[1] = u[1] /\ t[2] - mined[t[1]] = u[2] - mined[u[1]]
      BY <1>3
    <2>2. t[2] = u[2]
      BY <1>1, <2>1
    <2> QED
      BY <1>1, <2>1, <2>2
  <1>4. IsInjective(place)
    BY <1>2, <1>3 DEF IsInjective
  <1> QED
    BY <1>2, <1>4 DEF Injection

(* All accounts together never have more than accounts * ahead transactions  *)
(* in flight.                                                                *)
THEOREM InFlightBounded ==
  ASSUME IsFiniteSet(Account)
  PROVE  Spec => [](IsFiniteSet(InFlight) /\ Cardinality(InFlight) <= Cardinality(Account) * Ahead)
  <1>1. IsFiniteSet(0..(Ahead - 1)) /\ Cardinality(0..(Ahead - 1)) = Ahead
    BY FS_Interval, OpenLoopAssumption DEF OpenLoopAssumption
  <1>2. /\ IsFiniteSet(Account \X (0..(Ahead - 1)))
        /\ Cardinality(Account \X (0..(Ahead - 1))) = Cardinality(Account) * Ahead
    BY <1>1, FS_Product
  <1>3. Inv /\ WindowBound =>
          IsFiniteSet(InFlight) /\ Cardinality(InFlight) <= Cardinality(Account) * Ahead
    BY <1>2, PlacesInWindow, FS_Injection
  <1> QED
    BY <1>3, Invariance, WindowBounded, PTL

-----------------------------------------------------------------------------
(* The assign pointer moves back only in Rewind: every other step leaves it *)
(* or raises it.                                                            *)
LEMMA RewindStep ==
  ASSUME Inv, [Next]_vars, NEW a \in Account, nonces'[a] < nonces[a]
  PROVE  pc[a] = "rewind" /\ nonces'[a] = confirmed'[a] /\ nonces'[a] <= mined[a]
  <1> USE OpenLoopAssumption DEF Inv, TypeOK, Nonce
  <1>1. ASSUME UNCHANGED nonces PROVE FALSE
    BY <1>1
  <1>2. ASSUME NEW b \in Account, Rewind(b) PROVE b = a
    BY <1>2 DEF Rewind, SetBase
  <1>3. CASE Rewind(a)
    BY <1>3 DEF Rewind, SetBase, Goto, ConfirmedNeverAhead
  <1>4. ASSUME NEW b \in Account, Commits(b) PROVE FALSE
    BY <1>4 DEF Commits, Commit
  <1>5. ASSUME NEW b \in Account, Resync(b) PROVE FALSE
    BY <1>5 DEF Resync, ChainIsAhead, Peek, SetBase, accountVars
  <1>6. ASSUME NEW b \in Account, Worker(b) PROVE Rewind(a)
    BY <1>1, <1>2, <1>4, <1>5, <1>6
    DEF Worker, LocalStep, SendReturns, ReadReturns, BeginSend, BuildFails, NoteCapped,
        WedgeElapsed, WedgeRead, WedgeReadFails, SendAccepted, SendRefused, OfferedAgain, SendLost,
        FailureRead, FailureReadFails, Quit, accountVars
  <1>7. ASSUME NEW b \in Account, Node(b) PROVE FALSE
    BY <1>1, <1>7 DEF Node, LateArrival, ChainMines, ChainDrops, accountVars
  <1>8. ASSUME Poller PROVE FALSE
    BY <1>1, <1>8 DEF Poller, PollTick, PollSweepEnds, PollQuit, PollRead, PollReadFails,
       PollStore, SetConfirmed, accountVars
  <1>9. ASSUME Cancel \/ Idle \/ UNCHANGED vars PROVE FALSE
    BY <1>1, <1>9 DEF Cancel, Idle, vars, accountVars
  <1> QED
    BY <1>3, <1>6, <1>7, <1>8, <1>9 DEF Next

(* Wedge recovery is the only way back, and it goes back to an executed nonce. *)
THEOREM RewindsOnlyToConfirmed == Spec => RewindsToConfirmed
  <1>1. Inv /\ [Next]_vars =>
          [\A a \in Account : nonces'[a] < nonces[a] =>
             pc[a] = "rewind" /\ nonces'[a] = confirmed'[a] /\ nonces'[a] <= mined[a]]_vars
    BY RewindStep
  <1> QED
    BY <1>1, Invariance, PTL DEF Spec, RewindsToConfirmed

-----------------------------------------------------------------------------
(* A request the node admits is one more nonce of the stream, or a repeat. *)
LEMMA AdmitOffers ==
  ASSUME Inv, NEW a \in Account, NEW n \in wire[a], Admit(a, n)
  PROVE  Stream!Offer(a) \/ UNCHANGED Stream!streamVars
  <1> USE OpenLoopAssumption DEF Inv, TypeOK, Nonce
  <1>1. n <= admitted[a] /\ n < mined[a] + Ahead /\ mined' = mined
    BY DEF WireInWindow, Admit
  <1>2. CASE n < admitted[a]
    <2>1. admitted' = admitted
      BY <1>2 DEF Admit
    <2> QED
      BY <2>1, <1>1 DEF Stream!streamVars
  <1>3. CASE n = admitted[a]
    <2>1. (IF n < admitted[a] THEN admitted[a] ELSE n + 1) = admitted[a] + 1
      BY <1>3
    <2>2. admitted' = [admitted EXCEPT ![a] = @ + 1]
      BY <2>1 DEF Admit
    <2> QED
      BY <2>2, <1>1, <1>3 DEF Stream!Offer
  <1> QED
    BY <1>1, <1>2, <1>3

LEMMA StreamStep == Inv /\ [Next]_vars => [Stream!StreamNext]_(Stream!streamVars)
  <1> SUFFICES ASSUME Inv, [Next]_vars
               PROVE  Stream!StreamNext \/ UNCHANGED Stream!streamVars
    OBVIOUS
  <1>1. ASSUME UNCHANGED chainVars PROVE UNCHANGED Stream!streamVars
    BY <1>1 DEF chainVars, Stream!streamVars
  <1>2. ASSUME NEW a \in Account, NEW n, Submit(a, n) \/ Refuse(a, n)
        PROVE  UNCHANGED Stream!streamVars
    BY <1>2 DEF Submit, Refuse, Stream!streamVars
  <1>3. ASSUME NEW a \in Account, NEW n \in wire[a], Admit(a, n)
        PROVE  Stream!StreamNext \/ UNCHANGED Stream!streamVars
    BY <1>3, AdmitOffers DEF Stream!StreamNext
  <1>4. ASSUME NEW a \in Account, Node(a)
        PROVE  Stream!StreamNext \/ UNCHANGED Stream!streamVars
    <2>1. CASE LateArrival(a)
      BY <2>1, <1>2, <1>3 DEF LateArrival
    <2>2. CASE ChainMines(a)
      <3>1. mined' = [mined EXCEPT ![a] = @ + 1] /\ admitted' = admitted /\ mined[a] < admitted[a]
        BY <2>2 DEF ChainMines, Mine, Inv, PoolInPipeline
      <3> QED
        BY <3>1 DEF Stream!StreamNext, Stream!Execute
    <2>3. CASE ChainDrops(a)
      BY <2>3 DEF ChainDrops, Drop, Stream!streamVars
    <2> QED
      BY <1>4, <2>1, <2>2, <2>3 DEF Node
  <1>5. ASSUME NEW a \in Account, Worker(a)
        PROVE  Stream!StreamNext \/ UNCHANGED Stream!streamVars
    <2>1. CASE BeginSend(a)
      BY <2>1, <1>2 DEF BeginSend
    <2>2. CASE SendAccepted(a)
      <3>1. nonces[a] \in wire[a] /\ Admit(a, nonces[a])
        BY <2>2 DEF SendAccepted, Admit
      <3> QED
        BY <3>1, <1>3
    <2>3. CASE SendRefused(a)
      BY <2>3, <1>2 DEF SendRefused
    <2>4. CASE Worker(a) /\ ~BeginSend(a) /\ ~SendAccepted(a) /\ ~SendRefused(a)
      <3>1. UNCHANGED chainVars
        BY <2>4 DEF Worker, LocalStep, SendReturns, ReadReturns, BuildFails, NoteCapped,
           WedgeElapsed, WedgeRead, WedgeReadFails, Rewind, SendLost, Commits, FailureRead,
           FailureReadFails, Resync, Quit
      <3> QED
        BY <3>1, <1>1
    <2> QED
      BY <1>5, <2>1, <2>2, <2>3, <2>4
  <1>6. CASE Poller
    BY <1>1, <1>6 DEF Poller, PollTick, PollSweepEnds, PollQuit, PollRead, PollReadFails, PollStore
  <1>7. CASE Cancel \/ Idle \/ UNCHANGED vars
    BY <1>1, <1>7 DEF Cancel, Idle, vars
  <1> QED
    BY <1>4, <1>5, <1>6, <1>7 DEF Next

(* The nonces offered to the chain form the gapless bounded stream of        *)
(* NonceStream, whatever the polls, retries, losses and re-seeds underneath. *)
THEOREM Refinement == Spec => ImplementsStream
  <1>1. Init => Stream!StreamInit
    <2> SUFFICES ASSUME Init PROVE Stream!StreamInit
      OBVIOUS
    <2>1. mined \in [Account -> 0..SetupTxs]
      BY DEF Init
    <2>2. admitted = [a \in Account |-> SetupTxs]
      BY DEF Init
    <2> QED
      BY <2>1, <2>2 DEF Stream!StreamInit
  <1> QED
    BY <1>1, StreamStep, Invariance, PTL DEF Spec, ImplementsStream, Stream!StreamSpec

-----------------------------------------------------------------------------
(***************************************************************************)
(* The account that stops for good (KeepsResuming is violated on a node    *)
(* that refuses gapped nonces): the chain waits for a nonce nobody offers, *)
(* the worker offers one the node refuses, and the window, below its       *)
(* bound, never starts the wedge recovery that would go back.              *)
(***************************************************************************)

(* The node does not take nonces[a], now or later: it refuses what is behind *)
(* a gap, or it has the nonce already and loses nothing any more.            *)
RefusesNext(a) ==
  \/ ~QueuesGaps /\ (nonces[a] \in pool[a] => ~Replaces)
  \/ nonces[a] \in pool[a] /\ ~Replaces /\ drops = MaxDrops

Stuck(a) ==
  /\ mined[a] \notin pool[a] \cup wire[a]
  /\ mined[a] < nonces[a] /\ nonces[a] < mined[a] + Ahead
  /\ confirmed[a] = mined[a] /\ (pollAt = a => pollSeen = mined[a])
  /\ RefusesNext(a)
  /\ pc[a] \in {"top", "wait", "failed", "resync", "done"}

(* Behind the gap the node admits at most what it has, and never nonces[a].  *)
LEMMA StuckRefuses ==
  ASSUME Inv, NEW a \in Account, Stuck(a), NEW n \in wire[a], Admit(a, n)
  PROVE  n # nonces[a] /\ (nonces[a] \in pool'[a] <=> nonces[a] \in pool[a])
         /\ mined[a] # n
  <1> USE DEF Inv, TypeOK, Nonce
  <1>1. /\ mined[a] \notin pool[a] /\ mined[a] # n /\ Admissible(a, n)
        /\ pool' = [pool EXCEPT ![a] = @ \cup {n}]
        /\ n \in Nat /\ mined[a] \in Nat /\ nonces[a] \in Nat /\ mined[a] < nonces[a]
    BY DEF Admit, Stuck
  <1>2. n # nonces[a]
    <2> SUFFICES ASSUME n = nonces[a] PROVE FALSE
      OBVIOUS
    <2>1. CASE n \in pool[a]
      BY <1>1, <2>1 DEF Admissible, Stuck, RefusesNext
    <2>2. CASE n \notin pool[a]
      <3>1. ~QueuesGaps /\ \A m \in mined[a]..n : m = n \/ m \in pool[a]
        BY <1>1, <2>2 DEF Admissible, Stuck, RefusesNext
      <3>2. mined[a] \in mined[a]..n
        BY <1>1
      <3> QED
        BY <1>1, <3>1, <3>2
    <2> QED
      BY <2>1, <2>2
  <1> QED
    BY <1>1, <1>2

(* What the worker of a stuck account does: it offers the same nonce again   *)
(* and again.                                                                *)
LEMMA StuckWorker ==
  ASSUME Inv, NEW a \in Account, Stuck(a), Worker(a)
  PROVE  Stuck(a)' /\ mined'[a] = mined[a]
  <1> USE OpenLoopAssumption DEF Inv, TypeOK, Nonce
  <1>1. /\ mined[a] \in Nat /\ nonces[a] \in Nat /\ confirmed[a] = mined[a] /\ Ahead \in Nat
        /\ mined[a] < nonces[a] /\ nonces[a] < mined[a] + Ahead
        /\ pc[a] \in {"top", "wait", "failed", "resync", "done"}
    BY DEF Stuck
  <1>2. BelowWindow(a)
    BY <1>1 DEF BelowWindow, Inflight
  <1>3. ~SendAccepted(a)
    <2> SUFFICES ASSUME SendAccepted(a) PROVE FALSE
      OBVIOUS
    <2>1. nonces[a] \in wire[a] /\ Admit(a, nonces[a])
      BY DEF SendAccepted, Admit
    <2> QED
      BY <2>1, StuckRefuses
  <1>4. CASE BeginSend(a)
    BY <1>1, <1>4 DEF BeginSend, Goto, Submit, Peek, Stuck, RefusesNext, accountVars, pollVars
  <1>5. CASE SendRefused(a)
    BY <1>1, <1>5 DEF SendRefused, Goto, Refuse, OfferedAgain, Stuck, RefusesNext, accountVars, pollVars
  <1>6. CASE Resync(a)
    <2>1. ~ChainIsAhead(a)
      BY <1>1, <1>6 DEF ChainIsAhead, Peek, ConfirmedNeverAhead
    <2> QED
      BY <1>1, <2>1, <1>6 DEF Resync, Goto, Stuck, RefusesNext, accountVars, chainVars, pollVars
  <1>7. CASE BuildFails(a) \/ SendLost(a) \/ FailureRead(a) \/ FailureReadFails(a) \/ Quit(a)
    BY <1>1, <1>7 DEF BuildFails, SendLost, FailureRead, FailureReadFails, Quit, Goto, Stuck,
       RefusesNext, accountVars, chainVars, pollVars
  <1>8. ~NoteCapped(a) /\ ~WedgeElapsed(a)
    BY <1>2 DEF NoteCapped, WedgeElapsed
  <1>9. ~Rewind(a) /\ ~Commits(a) /\ ~WedgeRead(a) /\ ~WedgeReadFails(a)
    BY <1>1 DEF Rewind, Commits, WedgeRead, WedgeReadFails, Goto
  <1> QED
    BY <1>3, <1>4, <1>5, <1>6, <1>7, <1>8, <1>9 DEF Worker, LocalStep, SendReturns, ReadReturns

(* What its node does.                                                       *)
LEMMA StuckNode ==
  ASSUME Inv, NEW a \in Account, Stuck(a), NEW b \in Account, Node(b)
  PROVE  Stuck(a)' /\ mined'[a] = mined[a]
  <1> USE DEF Inv, TypeOK, Nonce
  <1>1. UNCHANGED <<nonces, confirmed, pc, pollAt, pollSeen>>
    BY DEF Node, LateArrival, ChainMines, ChainDrops, accountVars, workerVars, pollVars
  <1>2. CASE LateArrival(b)
    <2>1. PICK n \in wire[b] : Admit(b, n) \/ Refuse(b, n)
      BY <1>2 DEF LateArrival
    <2>2. UNCHANGED <<mined, drops>> /\ wire' = [wire EXCEPT ![b] = @ \ {n}]
      BY <2>1 DEF Admit, Refuse
    <2>3. CASE Refuse(b, n)
      BY <1>1, <2>2, <2>3 DEF Refuse, Stuck, RefusesNext
    <2>4. CASE Admit(b, n) /\ b # a
      BY <1>1, <2>2, <2>4 DEF Admit, Stuck, RefusesNext
    <2>5. CASE Admit(b, n) /\ b = a
      <3>1. mined[a] # n /\ (nonces[a] \in pool'[a] <=> nonces[a] \in pool[a])
        BY <2>5, StuckRefuses
      <3>2. pool'[a] = pool[a] \cup {n}
        BY <2>5 DEF Admit
      <3> QED
        BY <1>1, <2>2, <2>5, <3>1, <3>2 DEF Stuck, RefusesNext
    <2> QED
      BY <2>1, <2>3, <2>4, <2>5
  <1>3. CASE ChainMines(b)
    <2>1. b # a
      BY <1>3 DEF ChainMines, Mine, Stuck
    <2> QED
      BY <1>1, <1>3, <2>1 DEF ChainMines, Mine, Stuck, RefusesNext
  <1>4. CASE ChainDrops(b)
    <2>1. /\ UNCHANGED <<mined, wire>> /\ drops < MaxDrops /\ drops \in Nat
          /\ pool'[a] \subseteq pool[a]
      BY <1>4 DEF ChainDrops, Drop
    <2>2. ~QueuesGaps /\ (nonces[a] \in pool'[a] => ~Replaces)
      BY <2>1, ChainAssumption DEF Stuck, RefusesNext, ChainAssumption
    <2> QED
      BY <1>1, <2>1, <2>2 DEF Stuck, RefusesNext
  <1> QED
    BY <1>2, <1>3, <1>4 DEF Node

(* No step of anybody gets the account going again.                          *)
LEMMA StuckStep ==
  ASSUME Inv, NEW a \in Account, Stuck(a), [Next]_vars
  PROVE  Stuck(a)' /\ mined'[a] = mined[a]
  <1> USE OpenLoopAssumption DEF Inv, TypeOK, Nonce
  <1>1. ASSUME NEW b \in Account, b # a, Worker(b) PROVE Stuck(a)' /\ mined'[a] = mined[a]
    <2>1. /\ nonces'[a] = nonces[a] /\ confirmed'[a] = confirmed[a] /\ pc'[a] = pc[a]
          /\ mined'[a] = mined[a] /\ pool'[a] = pool[a] /\ wire'[a] = wire[a]
          /\ UNCHANGED <<drops, pollAt, pollSeen>>
      BY <1>1 DEF Worker, LocalStep, SendReturns, ReadReturns, BeginSend, BuildFails, NoteCapped,
         WedgeElapsed, WedgeRead, WedgeReadFails, Rewind, SendAccepted, SendRefused, OfferedAgain,
         SendLost, Commits, FailureRead, FailureReadFails, Resync, Quit, Goto, SetBase, Commit, Submit,
         Admit, Refuse, accountVars, chainVars, pollVars
    <2> QED
      BY <2>1 DEF Stuck, RefusesNext
  <1>2. ASSUME NEW b \in Account, PollStore(b) PROVE Stuck(a)' /\ mined'[a] = mined[a]
    BY <1>2 DEF PollStore, SetConfirmed, Stuck, RefusesNext, chainVars, workerVars
  <1>3. ASSUME NEW b \in Account, PollRead(b) \/ PollReadFails(b)
        PROVE  Stuck(a)' /\ mined'[a] = mined[a]
    BY <1>3 DEF PollRead, PollReadFails, NonceAt, Stuck, RefusesNext, accountVars, chainVars, workerVars
  <1>4. CASE PollTick \/ PollSweepEnds \/ PollQuit \/ Cancel \/ Idle \/ UNCHANGED vars
    BY <1>4 DEF PollTick, PollSweepEnds, PollQuit, Cancel, Idle, Stuck, RefusesNext, vars, accountVars,
       chainVars, workerVars, pollVars
  <1> QED
    BY <1>1, <1>2, <1>3, <1>4, StuckWorker, StuckNode DEF Next, Poller

(* Once stuck, an account is stuck for good: its chain nonce stays what it   *)
(* is, whatever is polled, retried, delivered late or lost besides.          *)
THEOREM StuckForGood ==
  ASSUME NEW a \in Account, NEW n \in Nat
  PROVE  Spec => [](Stuck(a) /\ mined[a] = n => [](Stuck(a) /\ mined[a] = n))
  <1>1. Inv /\ Stuck(a) /\ mined[a] = n /\ [Next]_vars => (Stuck(a) /\ mined[a] = n)'
    BY StuckStep
  <1> QED
    BY <1>1, Invariance, PTL DEF Spec

(* It takes a loss at the node to get there: failed sends, lost replies and  *)
(* stale answers alone never leave an account stuck.                         *)
THEOREM StuckOnlyByLoss == Spec => [](drops = 0 => \A a \in Account : ~Stuck(a))
  <1>1. NoSelfInflictedGap /\ TypeOK => (drops = 0 => \A a \in Account : ~Stuck(a))
    <2> SUFFICES ASSUME NoSelfInflictedGap, TypeOK, drops = 0, NEW a \in Account, Stuck(a)
                 PROVE  FALSE
      OBVIOUS
    <2>1. mined[a] \in Nonce /\ mined[a] <= mined[a] /\ mined[a] < nonces[a]
      BY DEF TypeOK, Nonce, Stuck
    <2> QED
      BY <2>1 DEF NoSelfInflictedGap, Stuck
  <1> QED
    BY <1>1, GaplessWithoutLoss, TypeCorrect, PTL
=============================================================================
