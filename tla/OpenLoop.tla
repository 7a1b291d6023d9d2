------------------------------ MODULE OpenLoop ------------------------------
(***************************************************************************)
(* The load driver (workload/workload.go, Driver.Run and Driver.worker):   *)
(* one sender goroutine per account, the confirmed-nonce poller they share *)
(* and the context that ends the run, against the node of Chain.           *)
(*                                                                         *)
(* Two critical sections of one goroutine are one step when nothing the    *)
(* other goroutines write lies between them: only a worker writes its      *)
(* account's nonces, so the Peek after the window check and the Peek after *)
(* a failed send both return nonces[a].  Every read of the node is split   *)
(* from the use of what it returned.  A sleep is the delay before the next *)
(* step; the 10 s of wedge recovery are the delay before WedgeElapsed.     *)
(* Kinds, fees and the sink do not touch nonces and are left out.          *)
(***************************************************************************)
EXTENDS Accounts, Chain

CONSTANTS
  Ahead,       \* the constant `ahead`, the in-flight window
  SetupTxs,    \* setup transactions each account sent before the load
  MaxNonce,    \* bound: a worker starts no send at this nonce
  NoAccount    \* model value: the poller holds no answer

ASSUME OpenLoopAssumption ==
  /\ Ahead \in Nat \ {0}
  /\ SetupTxs \in 0..Ahead
  /\ MaxNonce \in Nat
  /\ SetupTxs <= MaxNonce
  /\ NoAccount \notin Account

VARIABLES
  pc,          \* pc[a]: where a's worker is
  seen,        \* seen[a]: the worker's local n, read by NonceAt
  capped,      \* capped[a]: cappedSince is set
  stopped,     \* runCtx is done
  pollPc,      \* "tick", "sweep" or "done"
  pollTodo,    \* accounts the current sweep has not asked about yet
  pollAt,      \* the account whose answer the poller holds
  pollSeen     \* that answer

workerVars == <<pc, seen, capped>>
pollVars == <<pollPc, pollTodo, pollAt, pollSeen>>
vars == <<accountVars, chainVars, workerVars, stopped, pollVars>>

PC == {"top", "wait", "sent", "failed", "resync", "wedged", "rewind", "done"}

Nonce == 0..MaxNonce

(* The state PrepareAccounts leaves: SetupTxs nonces assigned with Next and   *)
(* admitted, those of at least one account mined (it waits for the last hash  *)
(* only), those of the others mined, pooled or lost, confirmed still the seed *)
(* of the fresh key.                                                          *)
Init ==
  /\ nonces = [a \in Account |-> SetupTxs]
  /\ confirmed = [a \in Account |-> 0]
  /\ mined \in {m \in [Account -> 0..SetupTxs] : \E a \in Account : m[a] = SetupTxs}
  /\ pool \in [Account -> SUBSET (0..SetupTxs)]
  /\ drops \in 0..MaxDrops
  /\ \A a \in Account : \A n \in 0..SetupTxs :
       /\ n \in pool[a] => mined[a] <= n /\ n < SetupTxs
       /\ (drops = 0 /\ mined[a] <= n /\ n < SetupTxs) => n \in pool[a]
  /\ wire = [a \in Account |-> {}]
  /\ admitted = [a \in Account |-> SetupTxs]
  /\ pc = [a \in Account |-> "top"]
  /\ seen = [a \in Account |-> 0]
  /\ capped = [a \in Account |-> FALSE]
  /\ stopped = FALSE
  /\ pollPc = "tick"
  /\ pollTodo = {}
  /\ pollAt = NoAccount
  /\ pollSeen = 0

Goto(a, from, to) == pc[a] = from /\ pc' = [pc EXCEPT ![a] = to]

-----------------------------------------------------------------------------
(* The worker of account a. *)

(* The top of the loop after the context check. *)
AtTop(a) == pc[a] = "top" /\ ~stopped

MutBelowWindow(a) == Inflight(a) <= Ahead

BelowWindow(a) == Inflight(a) < Ahead

(* Below the window: peek a nonce, build, and send. *)
BeginSend(a) ==
  /\ AtTop(a)
  /\ BelowWindow(a)
  /\ nonces[a] < MaxNonce
  /\ Goto(a, "top", "wait")
  /\ capped' = [capped EXCEPT ![a] = FALSE]
  /\ Submit(a, Peek(a))
  /\ UNCHANGED <<accountVars, seen, stopped, pollVars>>

(* Below the window, but the transaction cannot be built: try again.  When    *)
(* cappedSince was not set this changes nothing.                              *)
BuildFails(a) ==
  /\ AtTop(a)
  /\ BelowWindow(a)
  /\ capped[a]
  /\ capped' = [capped EXCEPT ![a] = FALSE]
  /\ UNCHANGED <<accountVars, chainVars, pc, seen, stopped, pollVars>>

(* First loop turn at the window: cappedSince = time.Now(). *)
NoteCapped(a) ==
  /\ AtTop(a)
  /\ ~BelowWindow(a)
  /\ ~capped[a]
  /\ capped' = [capped EXCEPT ![a] = TRUE]
  /\ UNCHANGED <<accountVars, chainVars, pc, seen, stopped, pollVars>>

(* Still at the window more than 10 s later: ask the node for its nonce. *)
WedgeElapsed(a) ==
  /\ AtTop(a)
  /\ ~BelowWindow(a)
  /\ capped[a]
  /\ Goto(a, "top", "wedged")
  /\ UNCHANGED <<accountVars, chainVars, seen, capped, stopped, pollVars>>

(* Pending where latest is asked for: PendingNonceAt instead of NonceAt. *)
MutNonceAt(a) == admitted[a]

(* NonceAt(ctx, a.Addr, nil), as the node answers it now. *)
NonceAt(a) == mined[a]

WedgeRead(a) ==
  /\ Goto(a, "wedged", "rewind")
  /\ seen' = [seen EXCEPT ![a] = NonceAt(a)]
  /\ UNCHANGED <<accountVars, chainVars, capped, stopped, pollVars>>

WedgeReadFails(a) ==
  /\ Goto(a, "wedged", "top")
  /\ capped' = [capped EXCEPT ![a] = FALSE]
  /\ UNCHANGED <<accountVars, chainVars, seen, stopped, pollVars>>

(* Re-seed from the answer, whatever happened since it was read. *)
Rewind(a) ==
  /\ Goto(a, "rewind", "top")
  /\ SetBase(a, seen[a])
  /\ capped' = [capped EXCEPT ![a] = FALSE]
  /\ seen' = [seen EXCEPT ![a] = 0]
  /\ UNCHANGED <<chainVars, stopped, pollVars>>

(* SendTransaction: the node admits the transaction and the reply arrives. *)
SendAccepted(a) ==
  /\ Goto(a, "wait", "sent")
  /\ Admit(a, nonces[a])
  /\ UNCHANGED <<accountVars, seen, capped, stopped, pollVars>>

(* A worker that advances past a nonce the node refused. *)
MutOfferedAgain(a) == Commit(a)

(* No Commit: the next turn peeks the same nonce. *)
OfferedAgain(a) == UNCHANGED accountVars

(* SendTransaction returns the node's refusal. *)
SendRefused(a) ==
  /\ Goto(a, "wait", "failed")
  /\ Refuse(a, nonces[a])
  /\ OfferedAgain(a)
  /\ UNCHANGED <<seen, capped, stopped, pollVars>>

(* SendTransaction fails on the way: the connection broke or the context     *)
(* ended.  The request stays on the wire and may still reach the node.       *)
SendLost(a) ==
  /\ LosesReplies \/ stopped
  /\ Goto(a, "wait", "failed")
  /\ UNCHANGED <<accountVars, chainVars, seen, capped, stopped, pollVars>>

Commits(a) ==
  /\ Goto(a, "sent", "top")
  /\ Commit(a)
  /\ UNCHANGED <<chainVars, seen, capped, stopped, pollVars>>

FailureRead(a) ==
  /\ Goto(a, "failed", "resync")
  /\ seen' = [seen EXCEPT ![a] = NonceAt(a)]
  /\ UNCHANGED <<accountVars, chainVars, capped, stopped, pollVars>>

FailureReadFails(a) ==
  /\ Goto(a, "failed", "top")
  /\ UNCHANGED <<accountVars, chainVars, seen, capped, stopped, pollVars>>

(* A re-seed after any failed send, not only a forward one. *)
MutChainIsAhead(a) == TRUE

ChainIsAhead(a) == seen[a] > Peek(a)

(* After a failed send: jump forward to the chain's nonce, never back. *)
Resync(a) ==
  /\ Goto(a, "resync", "top")
  /\ \/ ChainIsAhead(a) /\ SetBase(a, seen[a])
     \/ ~ChainIsAhead(a) /\ UNCHANGED accountVars
  /\ seen' = [seen EXCEPT ![a] = 0]
  /\ UNCHANGED <<chainVars, capped, stopped, pollVars>>

(* A capped worker that sleeps without looking at the context. *)
MutSeesEnd(a) == stopped /\ BelowWindow(a)

(* ctx.Err() at the top, or the end of the context in a sleep before it. *)
SeesEnd(a) == stopped

Quit(a) ==
  /\ SeesEnd(a)
  /\ Goto(a, "top", "done")
  /\ UNCHANGED <<accountVars, chainVars, seen, capped, stopped, pollVars>>

-----------------------------------------------------------------------------
(* The node on its own. *)

(* A request whose sender stopped waiting for it reaches the node. *)
LateArrival(a) ==
  /\ \E n \in wire[a] :
       /\ pc[a] = "wait" => n # nonces[a]
       /\ Admit(a, n) \/ Refuse(a, n)
  /\ UNCHANGED <<accountVars, workerVars, stopped, pollVars>>

ChainMines(a) == Mine(a) /\ UNCHANGED <<accountVars, workerVars, stopped, pollVars>>

ChainDrops(a) == Drop(a) /\ UNCHANGED <<accountVars, workerVars, stopped, pollVars>>

-----------------------------------------------------------------------------
(* The confirmed-nonce poller: on each tick it asks about every account in *)
(* turn.  The order is the pool's; any order is allowed here.              *)

PollTick ==
  /\ pollPc = "tick"
  /\ pollPc' = "sweep"
  /\ pollTodo' = Account
  /\ UNCHANGED <<accountVars, chainVars, workerVars, stopped, pollAt, pollSeen>>

PollRead(a) ==
  /\ pollPc = "sweep"
  /\ pollAt = NoAccount
  /\ a \in pollTodo
  /\ pollTodo' = pollTodo \ {a}
  /\ pollAt' = a
  /\ pollSeen' = NonceAt(a)
  /\ UNCHANGED <<accountVars, chainVars, workerVars, stopped, pollPc>>

PollReadFails(a) ==
  /\ pollPc = "sweep"
  /\ pollAt = NoAccount
  /\ a \in pollTodo
  /\ pollTodo' = pollTodo \ {a}
  /\ UNCHANGED <<accountVars, chainVars, workerVars, stopped, pollPc, pollAt, pollSeen>>

PollStore(a) ==
  /\ pollAt = a
  /\ SetConfirmed(a, pollSeen)
  /\ pollAt' = NoAccount
  /\ pollSeen' = 0
  /\ UNCHANGED <<chainVars, workerVars, stopped, pollPc, pollTodo>>

(* The end of a sweep: back to the select, which waits for the next tick. *)
PollSweepEnds ==
  /\ pollPc = "sweep"
  /\ pollAt = NoAccount
  /\ pollTodo = {}
  /\ pollPc' = "tick"
  /\ UNCHANGED <<accountVars, chainVars, workerVars, stopped, pollTodo, pollAt, pollSeen>>

PollQuit ==
  /\ stopped
  /\ pollPc = "tick"
  /\ pollPc' = "done"
  /\ UNCHANGED <<accountVars, chainVars, workerVars, stopped, pollTodo, pollAt, pollSeen>>

-----------------------------------------------------------------------------
(* The deadline of a one-shot run, or Ctrl+C. *)
Cancel ==
  /\ ~stopped
  /\ stopped' = TRUE
  /\ UNCHANGED <<accountVars, chainVars, workerVars, pollVars>>

(* wg.Wait has returned. *)
Returned == pollPc = "done" /\ \A a \in Account : pc[a] = "done"

Idle == Returned /\ UNCHANGED vars

LocalStep(a) ==
  \/ BeginSend(a) \/ NoteCapped(a) \/ WedgeElapsed(a) \/ Rewind(a)
  \/ Commits(a) \/ Resync(a) \/ Quit(a)

SendReturns(a) == SendAccepted(a) \/ SendRefused(a) \/ SendLost(a)

ReadReturns(a) ==
  \/ WedgeRead(a) \/ WedgeReadFails(a) \/ FailureRead(a) \/ FailureReadFails(a)

Worker(a) == LocalStep(a) \/ BuildFails(a) \/ SendReturns(a) \/ ReadReturns(a)

Node(a) == LateArrival(a) \/ ChainMines(a) \/ ChainDrops(a)

Poller ==
  \/ PollTick \/ PollSweepEnds \/ PollQuit
  \/ \E a \in Account : PollRead(a) \/ PollReadFails(a) \/ PollStore(a)

Next ==
  \/ \E a \in Account : Worker(a) \/ Node(a)
  \/ Poller
  \/ Cancel
  \/ Idle

Spec == Init /\ [][Next]_vars

(* Goroutines are scheduled, and calls return with an answer, a connection    *)
(* error or the end of the context.  The select of the poller chooses at      *)
(* random between a tick and the end of the context: it does not miss the end *)
(* for ever.                                                                  *)
Scheduled ==
  /\ \A a \in Account : WF_vars(LocalStep(a)) /\ WF_vars(SendReturns(a)) /\ WF_vars(ReadReturns(a))
  /\ WF_vars(Poller)
  /\ SF_vars(PollQuit)

(* A node that serves: it keeps mining what is next, and a request that is   *)
(* repeated for ever is answered once.                                       *)
NodeServes ==
  \A a \in Account :
    /\ WF_vars(ChainMines(a))
    /\ SF_vars(SendAccepted(a))
    /\ SF_vars(WedgeRead(a))
    /\ SF_vars(FailureRead(a))

FairSpec == Spec /\ Scheduled /\ NodeServes

-----------------------------------------------------------------------------
(* Every variable has its type and no nonce passes the bound. *)
TypeOK ==
  /\ nonces \in [Account -> Nonce]
  /\ confirmed \in [Account -> Nonce]
  /\ mined \in [Account -> Nonce]
  /\ pool \in [Account -> SUBSET Nonce]
  /\ wire \in [Account -> SUBSET Nonce]
  /\ admitted \in [Account -> Nonce]
  /\ drops \in 0..MaxDrops
  /\ pc \in [Account -> PC]
  /\ seen \in [Account -> Nonce]
  /\ capped \in [Account -> BOOLEAN]
  /\ stopped \in BOOLEAN
  /\ pollPc \in {"tick", "sweep", "done"}
  /\ pollTodo \in SUBSET Account
  /\ pollAt \in Account \cup {NoAccount}
  /\ pollSeen \in Nonce

(* "Bounded by a per-account in-flight window" as the node sees it: whatever *)
(* the poller stored late, and whatever was re-seeded or delivered late, no  *)
(* pooled or travelling transaction is Ahead or more nonces in front of the  *)
(* account's chain nonce.                                                    *)
WindowBound ==
  \A a \in Account : \A n \in pool[a] \cup wire[a] : n < mined[a] + Ahead

(* The local confirmed nonce, and any answer still on its way into it, never *)
(* exceeds the chain's: Inflight may count too much, never too little.       *)
ConfirmedNeverAhead ==
  \A a \in Account :
    /\ confirmed[a] <= mined[a]
    /\ seen[a] <= mined[a]
    /\ pollAt = a => pollSeen <= mined[a]

(* "A failed send does not burn a nonce": as long as the node loses nothing, *)
(* every nonce between the chain's and the assign pointer is in the mempool. *)
(* A hole would be of the driver's own making.                               *)
NoSelfInflictedGap ==
  drops = 0 => \A a \in Account : \A n \in Nonce : (mined[a] <= n /\ n < nonces[a]) => n \in pool[a]

-----------------------------------------------------------------------------
(* The inductive invariant, as conjunctions of what each party knows. *)

(* Assigned never passes admitted, and admitted stays within the window.  A  *)
(* worker holding a positive reply has one admitted nonce still to commit.   *)
Pipeline ==
  \A a \in Account :
    /\ mined[a] <= admitted[a]
    /\ admitted[a] <= mined[a] + Ahead
    /\ nonces[a] <= admitted[a]
    /\ pc[a] = "sent" => nonces[a] < admitted[a]

(* What is travelling is an old nonce or the next one, inside the window. *)
WireInWindow ==
  \A a \in Account : \A n \in wire[a] :
    n <= admitted[a] /\ n < mined[a] + Ahead /\ n < MaxNonce

PoolInPipeline ==
  \A a \in Account : \A n \in pool[a] : mined[a] <= n /\ n < admitted[a]

(* Without a loss the mempool holds all that is admitted and not executed. *)
PoolIsWhole ==
  drops = 0 => \A a \in Account : \A n \in Nonce :
    (mined[a] <= n /\ n < admitted[a]) => n \in pool[a]

(* TypeOK and the three safety invariants follow from this one, which every  *)
(* step preserves: the window the worker computes from a late confirmed      *)
(* nonce is at most the chain's because that nonce never runs ahead.         *)
Inv ==
  /\ TypeOK
  /\ ConfirmedNeverAhead
  /\ Pipeline
  /\ WireInWindow
  /\ PoolInPipeline
  /\ PoolIsWhole

-----------------------------------------------------------------------------
(* The driver implements the gapless bounded stream of NonceStream. *)
Stream == INSTANCE NonceStream
            WITH executed <- mined, offered <- admitted, Base <- SetupTxs

ImplementsStream == Stream!StreamSpec

(* The assign pointer moves back only out of wedge recovery, and then to a  *)
(* nonce the chain had confirmed, so the rewind cannot skip a nonce.        *)
RewindsToConfirmed ==
  [][\A a \in Account : nonces'[a] < nonces[a] =>
       pc[a] = "rewind" /\ nonces'[a] = confirmed'[a] /\ nonces'[a] <= mined[a]]_vars

(* "Re-seed local nonce to chain's next nonce so we resume": while the load *)
(* runs, an account's chain nonce keeps growing, dropped transactions or    *)
(* not, up to the last nonce whose window lies below the bound.             *)
KeepsResuming ==
  \A a \in Account : \A n \in 0..(MaxNonce - Ahead) :
    mined[a] = n ~> (mined[a] > n \/ stopped)

(* Run returns once its context is done: no worker, capped or in the middle *)
(* of a retry, and no sweep of the poller outlives it.                      *)
RunReturns == stopped ~> Returned
=============================================================================
