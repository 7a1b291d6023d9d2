# A formal model of the load tester

The load tester funds a set of fresh accounts, prepares token balances, drives
an EVM + CometBFT node open-loop for a while, watches the nodes meanwhile, and
writes a report with two verdicts: did the mempool drain, did the nodes stay
consistent. This directory holds TLA+ modules of its parts, TLC configurations
that check them on small instances, and proofs for TLAPS.

    tlc -workers 2 -config OpenLoopSafety.cfg MCOpenLoop    # one run
    tlapm OpenLoopProofs.tla                                # one module of proofs

`PROJECT.json` lists the runs, one mutant of the model per checked property
(the `Mut...` operators, each placed before the definition it replaces), the
source lines every definition stands for, the findings and the hazards.

## 1. Inventory

| Component | State | Operations | Correct when |
|---|---|---|---|
| target, deployment (`config/target.go`, `deployment/deployment.go`) | none after loading | Load with defaults and validation | a run starts with what it needs or not at all |
| account nonces (`accounts/accounts.go`) | `nonces`, `confirmed` per account, under a mutex | Next, Peek, Commit, SetBase, SetConfirmed, Inflight | the window computed from the two is never wider than the chain's |
| account pool (`accounts/accounts.go`) | master, load accounts | NewPool, Fund, waitMined, seedNonce | nobody sends before everybody is funded |
| token setup (`workload/setup.go`) | last hash under a mutex, channel of errors | PrepareAccounts, a goroutine per account | setup ends; no error is overlooked; the driver starts from a whole pool, prepared for every kind it may send |
| load driver (`workload/workload.go`) | per worker `cappedSince`, the turn in the mix, the answer in its hand; the poller's; two atomic fee cells | Run: fee refresher, poller, one worker per account; Supports, build | bounded in-flight window, no gap of its own making, resumes after a loss, every kind gets its turns, returns when told |
| sink (`workload/workload.go`) | total, counts per kind | Add, Total, Stats | counts and total fit together |
| app-hash collector (`collector/apphash.go`) | `lastChecked`, `lastHeight`, `lastProgressAt`, `stallNoted`, the result | Run, poll, detectStall, checkHeight, Result | divergence and halts are flagged, healthy chains are not |
| mempool collector (`collector/mempool.go`) | the result: ring of samples, peaks, final depths | Run, sample, Result | what is reported was measured |
| CometBFT client (`collector/cometrpc.go`) | none | NumUnconfirmedTxs, StatusHeight, BlockAppHash | an answer or an error |
| harness (`harness/harness.go`, `cmd/start.go`) | the phase of the run, the drain's `zeros`, two contexts | Run, snapshots, drain, buildInput, buildSpecs | a final report in every case, never mixed with a snapshot |
| report (`report/report.go`) | two files | Markdown, Write | a verdict says no more than was measured |
| ABI, command line, contract, deployer (`workload/abi.go`, `main.go`, `cmd/root.go`, `ts/`) | none of the program's | | not modelled: encoding, wiring, a fixture, a script run before |
| the nodes | mempool, blocks, heights, hashes | | external, see section 3 |

The harness calls setup, driver and report in turn. The poller, the workers and
the fee refresher run inside `Driver.Run`; the two collectors run beside it
until `stopObs`; in continuous mode a snapshot goroutine writes the report
meanwhile. The parts share the accounts' counters (worker and poller), the fee
cells (refresher and workers), the sink (workers and reports), the results of
the collectors (under their mutexes), the report files and two contexts: the
signal context and the collectors' own.

What is hard here:

* answers of the node that are old when they are used: the poller's, a wedge
  recovery's, a failure re-seed's;
* sends that fail although the node has the transaction, transactions the node
  loses after accepting them, and the retry of both;
* nodes that lag, flap, diverge or halt between two calls of one sweep;
* nodes that keep a connection and answer nothing, for clients without timeouts;
* failed calls that look like a depth of zero;
* the end of a context, which breaks whatever call is in flight;
* snapshots, senders and the final report on the same data, and two report
  files of which the second may not be written;
* what a kind of transaction needs, decided in three places of the code.

Every such place is listed with its line under `hazards` in `PROJECT.json`.

## 2. Modules

| Module | Models |
|---|---|
| `Accounts` | the two counters of an account; each method is one atomic step, as the mutex makes it |
| `Chain` | external: one node as the driver and the setup use it |
| `NonceStream` | abstract: the stream of nonces the driver promises |
| `OpenLoop`, `MCOpenLoop` | `Driver.Run` without fees and kinds: workers, poller, context; extends `Accounts` and `Chain` |
| `Plan` | pure operators: target, deployment, Builder, jobs of the setup, specs, weighted mix |
| `Setup`, `MCSetup` | `Pool.Fund` and `PrepareAccounts`; extends `Accounts`, `Chain` and `Plan`, instantiates `OpenLoop` |
| `Mix`, `MCMix` | from the files to the turns of a worker and the fees it pairs; extends `Plan` |
| `Report` | the verdicts, `Drained`, `StillDraining` |
| `Auditor` | abstract: what the app-hash collector promises |
| `AppHash`, `MCAppHash` | the app-hash collector and the nodes; extends `Report` |
| `Mempool` | the mempool collector and the depths it samples; extends `Report` |
| `Journal` | abstract: what the reports of a run promise their reader |
| `Harness` | the run after setup: load, snapshots, drain, final report; extends `Mempool` |
| `OpenLoopProofs`, `AppHashProofs`, `HarnessProofs`, `SetupProofs`, `MixProofs` | the theorems about the module of that name |
| `MempoolProofs` | theorems about the ring; lemmas about the collector and the verdict, for `HarnessProofs` |
| `PlanProofs` | lemmas about the operators of `Plan`, for `SetupProofs` and `MixProofs` |

How they fit together: `Mix` has the whole start of a run with the setup as one
step, `Setup` has that step; what `Setup` hands over is an initial state of
`OpenLoop` (`HandsOver` is stated with `OpenLoop`'s own `Init`); `OpenLoop` has
the nonces of the load and `Mix` its turns; `Harness` sees the driver through
its sink only, and runs the mempool collector of `Mempool` in its own steps.
`AppHash` shares nothing with the others but the context that ends it.

**OpenLoop.** `pc[a]` is the place of account a's worker: `top` of the loop,
`wait` for the reply of a send, `sent` before Commit, `failed` before the
NonceAt of the failure branch, `resync` with its answer, `wedged` and `rewind`
likewise in wedge recovery. `seen[a]` is the local `n`, `capped[a]` says that
`cappedSince` is set. The 10 s of wedge recovery are the unbounded delay before
`WedgeElapsed`, which may thus be early or late; sleeps are delays too. Reading
the node and using the answer are always two steps, and so are the request and
the reply of a send: `wire` holds requests that are still travelling, also
those nobody waits for any more. The fee refresher, the mix of kinds and the
sink are left out here: they do not touch nonces (a build that fails is
`BuildFails`).

**Plan.** A target and a deployment are records of the fields the code branches
on; addresses and endpoints are strings that are equal or not. `Weighted` is
the loop at the start of `Driver.Run` (`Stretch` is its body, for one spec),
with the order of the specs as a parameter, since `buildSpecs` takes it from a
Go map. `IsTarget` says what a file can hold by the types of the Go structs.

**Setup.** One send is one step, because nothing is sent twice: a lost answer
is an error like any other, and an error ends the run. After the master's
transactions the load accounts run concurrently; the note of `lastHash` is a
step of its own after the send. The jobs follow from the deployment, which is
chosen at the start: 0 to 3 transactions per account. A failure before the
nonce is assigned (packing) is not told apart from one after: the counters of a
failed setup are never used.

**Mix.** One worker stands for all: each cycles through the mix on its own, and
the fee cells have one writer. `build`'s two loads of the cells are two steps,
the refresher's two stores too; a fee is the number of the refresh it is from.
Nothing of the window is here: turns are taken only below it.

**AppHash.** One step per call of a node; nodes commit, and the context may end,
between any two. A map from node to hash is the set of nodes that answered,
since what a node answers for a height is fixed. `overdue` says that more than
`stallThreshold` has passed since the last progress; `healthy`, chosen at the
start, is the assumption under which the detector must stay silent: every node
commits within each threshold, and the height calls of a sweep take no time
beside it. The branch for a zero `lastProgressAt` is dead code: the first
positive height is always progress.

**Mempool and Harness.** A sample is a call, a call, and a critical section. The
end of the collectors' context breaks a call in flight even when the node never
fails. The main goroutine goes through `load`, `drain` or `join`, `grace` (the
500 ms after `stopObs`), `md`, `json`, `done`; the drain loop has its call and
its sleep as places of their own. `report.Write` writes `report.md` and then
`report.json`; each may fail and leave the old file or a torn one, and the
second is not written after the first has failed. A file is known by the
`report.Input` it was made of. The history variables `known`, `drainSaw` and
`writeOK` are for the properties only. The drain's queries and the collector's
ask the same node; the txpool may belong to another.

**Silent nodes.** No client of this program sets a timeout (`cometGet` uses
`http.DefaultClient`, `ethclient.DialContext` likewise): a call returns with an
answer, with a connection error, or because its context is done. In `Setup`,
`AppHash` and `Mempool`/`Harness` a node may fall silent (`GoSilent`), and then
no call to it returns before the end of its context.

## 3. The external node

`Chain` admits, refuses, executes and loses transactions, each of them one
nonce. Its kinds are constants: `QueuesGaps` (a nonce above a gap is queued, or
refused), `Replaces` (a second transaction with a pooled nonce is accepted),
`LosesReplies` (a call fails although its request arrives), `MaxDrops`. It
executes an account's transactions in nonce order. Taken from the code: it
prepares for refusals, for lost replies and for "a mid-stream tx was dropped".
A refusal needs no reason, so fees, balances and a full mempool are covered.
The nodes of `AppHash` commit blocks one at a time, keep the hash of a height
for ever, and may halt, fail a call or fall silent. The depths of `Mempool`
change at will.

## 4. Properties and runs

| Run | Result | What it shows |
|---|---|---|
| `open_loop_window` | holds | `WindowBound`: no transaction in the mempool or on the wire is `Ahead` or more in front of the chain, in spite of late polls, rewinds, replays and losses. `ConfirmedNeverAhead`: no local knowledge is ahead of the chain. `NoSelfInflictedGap`: as long as the node loses nothing, everything assigned is executed or in the mempool. `RewindsToConfirmed`: the assign pointer goes back only in wedge recovery and only to an executed nonce. `ImplementsStream`: refinement of `NonceStream`. `Inv`: the inductive invariant of the proofs. |
| `open_loop_live` | holds | `KeepsResuming`: with a node that queues gaps, the chain nonce of an account grows past every value, one drop notwithstanding. `RunReturns`: after the context ends every goroutine does. |
| `open_loop_strict_node` | violated | `KeepsResuming` with a node that refuses gapped nonces, see findings. |
| `setup` | holds | `Inv`: the inductive invariant of the proofs. `FundedFirst`: nobody is seeded or sends before all funding is executed. `HandsOver`: a ready setup is an initial state of the driver's model. `PreparedForMix`: what a supported kind needs is in front of the load. `SetupReturns`: setup ends, unless the node is silent and nobody interrupts. |
| `mix` | holds | `Inv`: the inductive invariant of the proofs. `OnlyWithContracts`: no kind is sent to a contract the deployment does not name, nor a destructive one without permission. `WeightsFollowTargets`: every enabled lane has its turns, larger targets no fewer. `StartsCleanly`: what may start and what may panic. `TipNotStale`: the fees of one transaction are at most one refresh apart on the side that matters. `NoKindStarves`: every kind of the mix is offered again and again, refusals notwithstanding. |
| `app_hash_sweep` | holds | `DivergenceReported`: the mismatches are exactly the heights at which two nodes that were read disagree. `HeightsInOrder`: once each, in order, only committed heights, counted right. `ImplementsAuditor`: refinement of `Auditor`. |
| `app_hash_stall` | holds | `NoFalseStall`, `HaltIsNoted`, `EveryHeightCompared` with nodes that answer until one falls silent: a healthy chain is not flagged, a halted one is, and a height all nodes have committed is eventually read of every one of them; `Clock`: why a healthy chain is not flagged, for the proofs; `EveryNodeCompared`: as long as every call is answered, every node is read at every height; `HeldBySlowest`: and nothing is compared or flagged above the slowest node; `CollectorQuits`: the end of the context ends the collector wherever it is. |
| `app_hash_flap` | violated | `HaltIsNoted` with nodes that flap, see findings. |
| `app_hash_verdict` | violated | `ConsistentMeansCompared`, see findings. |
| `harness_run` | holds | `Inv`: the inductive invariant of the proofs. `PeakIsHighest`: the reported peak is the highest depth the node answered, the ring notwithstanding. `DrainedTwice`: the drain ends early only on two zeros with nothing else between. `VerdictMeasured`: PASS never contradicts a measured txpool, FAIL and INCOMPLETE rest on an answer. `ReportsMatch`: the two files are of one report between writes that went well. `CountsAddUp`: counts per kind never lag their total. `ImplementsJournal`: refinement of `Journal`. `FinalReportWritten`: only a silent node can hold the final report up, and only until Ctrl+C. |
| `harness_pass` | violated | `PassMeansEmpty`, see findings. |
| `harness_drain_cap` | violated | `DrainIsCapped`, see findings. |

**Bounds.** The window is 64 in the code; nothing but comparison and one
subtraction uses it. `Ahead` = 3 leaves room for an old nonce, a gap and a new
one below the window, and `MaxNonce` = 5 lets the stream outrun it, so that
capping, wedging, rewinding and re-sending all happen; two drops make a second
loss during the repair of a first. The runs of `OpenLoop` have one account:
accounts share nothing but the poller, and that the poller never mixes up their
answers is part of the theorems below (`ConfirmedBehindChain`), for every set
of accounts. For liveness the last `Ahead` nonces below the bound are not
claimed, since a worker stops sending at `MaxNonce`. Two nodes, two hashes and
two heights give lag, divergence and a height after a divergence; one silent
node is enough to hold up a sweep. In `AppHash` the nodes stand still once
`stopObs` is called: the collector's calls may fail from then on whatever the
nodes do. A ring of two samples is full after two and trims at the third;
`Window` = 2 stands for the six samples of `StillDraining`; depths 0 and 1 tell
empty from not; two sent transactions make a report overtaken by a sender. The
continuous mode is run without the mempool collector, whose samples do not
enter the verdict LIVE; the one-shot mode with and without it. Two load
accounts are what it takes for two notes of `lastHash` in either order. `Setup`
runs every deployment; `Mix` runs every deployment with every way to start
(`MCTargets`: chain id, endpoints, number of accounts and poll interval each
absent, bad or good) and every set of lanes over targets 0, 5 and 25, disabled
lanes and a kind nobody knows among them, in two families; `MaxRefresh` = 2
lets a whole refresh pass between the two loads of `build`.

**Fairness.** Weak fairness of a goroutine's steps: the Go scheduler is fair.
That a call returns is not assumed where a node may fall silent: the step that
uses its answer is disabled then, and so is its failure, until the context is
done; only in `OpenLoop`, whose node has no silence, do all calls return.
Strong fairness where a `select` chooses between a ready tick and a done
context: it chooses at random, so it does not miss the end for ever. A node
that serves keeps executing what is next, and answers a request that is
repeated for ever at least once (strong fairness of the successful outcomes);
`KeepsResuming`, `HaltIsNoted` and `EveryHeightCompared` need that, `RunReturns`,
`CollectorQuits`, `FinalReportWritten`, `SetupReturns` and `NoKindStarves` rest
on the goroutines alone. Time passes: `TimePasses` and `DrainCapPasses` happen
eventually.

**Findings.**

1. *An account stops for good on a node that refuses gapped nonces*
   (`workload.go:313-348`). After a drop every send is refused, below the
   window, where wedge recovery is not reached; the re-seed after a failure
   never goes back. The comment at 314-315 promises to resume. With a node that
   queues gaps the recovery works, but a lost reply on top of the drop, or a
   second drop, can lead to the same state. Theorems `StuckForGood` and
   `StuckOnlyByLoss` bound it: there is no way out of that state, and only a
   transaction the node loses leads into it.
2. *A flapping node hides a halt* (`apphash.go:108`). The detector takes any
   change of the lowest reachable height for progress.
3. *"Stayed consistent across N heights"* (`report.go:83`) counts heights at
   which only some of the nodes were read (`apphash.go:132-143`). It takes a
   call that is not answered: without one the claim is true (theorem
   `VerdictIsTrue`).
4. *PASS from a cancelled sample* (`mempool.go:90`). The end of the collectors
   cancels the sample in flight, which counts as a CList depth of zero.
   Until that end the depths of a node that does not fail are its answers
   (theorem `TrueUntilStopped`).
5. *The drain cap does not cap a call* (`harness.go:152-153`). The deadline is
   tested between calls that have no timeout; a node that goes silent holds the
   drain, "capped" by its comment, until Ctrl+C.

## 5. Proofs

Every safety property of the passing runs, invariants, action properties and
refinements, is a theorem of its specification for every value of the
constants; so are some statements that no run checks, marked † below. The only assumptions are the named `ASSUME`s of the modules, which
TLC evaluates on its instances; `PlanProofs` assumes nothing. No assumption
bounds a window, a ring, a depth, a number of accounts, nodes, losses, lanes or
refreshes; the accounts of `Setup` are a finite set with a load account in it,
as `Fund` needs one (with none, `Mix` has the failure), a height, a ring and
`Window` are positive, and the window is no larger than the ring. Two theorems
have a hypothesis of their own: `InFlightBounded` counts, so the accounts are
finite in number; `VerdictIsTrue` needs a node.

| Theorem of `OpenLoopProofs` | States |
|---|---|
| `Invariance` | `Spec => []Inv` |
| `TypeCorrect` | `Spec => []TypeOK` |
| `WindowBounded` | `Spec => []WindowBound` |
| `ConfirmedBehindChain` | `Spec => []ConfirmedNeverAhead` |
| `GaplessWithoutLoss` | `Spec => []NoSelfInflictedGap` |
| `RewindsOnlyToConfirmed` | `Spec => RewindsToConfirmed` |
| `Refinement` | `Spec => ImplementsStream` |
| `InFlightBounded` † | at any time at most `Ahead` transactions per account, over all accounts, are in the mempool or on the wire |
| `StuckForGood` † | an account that is `Stuck` stays so, with its chain nonce, in every continuation |
| `StuckOnlyByLoss` † | no account is `Stuck` before the node has lost a transaction |

`WindowBound` is not inductive: that the next nonce lies below the window is
known to the worker only through its local `confirmed`, which may be late, and
a nonce on the wire may be admitted much later than it was sent. `Inv` adds
what relates the parties: `ConfirmedNeverAhead` (local knowledge, stored or
still in the hand of worker or poller, is at or below the chain's nonce),
`Pipeline` (assigned <= admitted, the former being smaller while a positive
reply waits for its Commit, and chain nonce <= admitted <= chain nonce +
`Ahead`), `WireInWindow`, `PoolInPipeline` and `PoolIsWhole` (nothing missing
before the first loss). `NextInv` shows that each action preserves it; the two
actions that admit a nonce share the lemma `AdmitKeepsChain`, the only place
where the window of the node and that of the worker meet. The refinement maps
`executed` to `mined` and `offered` to `admitted`: an admission of a new nonce
is an `Offer`, of an old one a stutter, an executed block is an `Execute`.

`InFlightBounded` counts: a transaction in flight has a place of its own among
`Ahead` places of its account (`PlacesInWindow`), and the pairs of account and
place are finitely many. `Stuck` is finding 1 as a set of states: the chain
waits for a nonce nobody has, the worker offers another one below its window
that the node does not take, and what is known locally, or about to be stored,
is the chain's nonce. No step leaves it (`StuckStep`): what arrives late is not
the nonce the chain waits for, every re-seed reads what is known, and the window
does not fill. Before the first loss `PoolIsWhole` denies it.

| Theorem of `AppHashProofs` | States |
|---|---|
| `Invariance` | `Spec => []Inv` |
| `TypeCorrect` | `Spec => []TypeOK` |
| `MismatchesExact` | `Spec => []DivergenceReported` |
| `AuditInOrder` | `Spec => []HeightsInOrder` |
| `Refinement` | `Spec => ImplementsAuditor` |
| `HealthyNeverFlagged` | `Spec => NoFalseStall` |
| `ClockKept` | `Spec => []Clock` |
| `ComparedByAll` | `Spec => []EveryNodeCompared` |
| `SlowestNodeLeads` | `Spec => []HeldBySlowest` |
| `NoDivergenceMissed` † | with all calls answered, what is flagged are all heights up to `lastChecked` at which two nodes committed different hashes |
| `VerdictIsTrue` † | with all calls answered, the verdict is FAIL if and only if there is such a height, and what the report calls consistent was compared |

The reported heights are in order only because the sweep never passes a height
some node has committed while other nodes go on, fall behind or stop answering:
`Sweep` says so for the minimum under construction and for the height being
read, and is what the two safety properties lack to be inductive. The
refinement's steps are the commits of the nodes and the end of a height; all
the single calls are stutters. `NoFalseStall` needs `Clock`, an invariant as long as every call is
answered: the height the detector remembers is behind every node, strictly
behind those that have committed since; the sweep is at or below every node it
has asked; and when the threshold is over on a healthy chain every node has
committed, so the sweep that finds the clock run out finds another height, too.

With all calls answered (`~Flaps`, and the context not yet done; a silent node
only holds its call), the same bound of the sweep gives more than
`NoFalseStall`: a height at or below what every node has is read of every node
(`EveryNodeCompared`), so that what is read is all there is, and the exactness
of the mismatches becomes the truth of the verdict. That nothing is read above
`lastChecked` but in the sweep at hand is the only fact `VerdictIsTrue` adds
(`UnreadAhead`). `HeldBySlowest` is the price of it.

| Theorem of `HarnessProofs` | States |
|---|---|
| `Invariance` | `Spec => []Inv` |
| `TypeCorrect` | `Spec => []TypeOK` |
| `PeaksExact` | `Spec => []PeakIsHighest` |
| `VerdictsAreMeasured` | `Spec => []VerdictMeasured` |
| `ReportsAreOne` | `Spec => []ReportsMatch` |
| `CountsNeverBehind` | `Spec => []CountsAddUp` |
| `DrainSawTwoZeros` | `Spec => DrainedTwice` |
| `Refinement` | `Spec => ImplementsJournal` |
| `TrueUntilStopped` † | until the collectors are stopped, the depths of a node that does not fail are its last answers |
| `BlindSaysPass` † | the final report of a one-shot run without any `cometRPC` says PASS, of depths nobody was asked for |
| `RingOfAllSamples` † (`MempoolProofs`) | the ring trimmed after every sample is the ring of all samples trimmed once |
| `RingKeepsTrend` † (`MempoolProofs`) | `StillDraining` says the same of the ring as of all samples |

`Inv` joins the properties with three facts. `OneWriter` says who writes when:
a snapshot is in progress only in the continuous mode before the collectors are
stopped, its totals are between those of the report on disk and what is sent by
now, and a writer between its two files has written the first of its own.
`ReportsMatch` and `CountsAddUp` follow each write by write; so does `Journal`,
whose promise is that a report on disk is never replaced by an older one.
`Measured` relates the collector's result to what the node has answered;
`ZerosSeen`, that the first zero counted by the drain loop is its last answer.
The ring's bound is the lemma `RingTail` of `MempoolProofs`, the verdicts are
the lemma `VerdictSays`. The two theorems about the ring are why a history of
all samples is not needed in the model; both follow from `RingKeepsTail`, which
says what the ring keeps by position.

| Theorem of `SetupProofs` | States |
|---|---|
| `Invariance` | `Spec => []Inv` |
| `TypeCorrect` | `Spec => []TypeOK` |
| `FundedBeforeUse` | `Spec => []FundedFirst` |
| `DriverStarts` | `Spec => []HandsOver` |
| `PreparedForEveryKind` | `Spec => []PreparedForMix` |
| `RoomForEveryError` † | a goroutine that is not done finds room in the channel of errors |
| `NoErrorOverlooked` † | where the last transaction is awaited, and in the pool handed over, no goroutine has failed and the node has admitted every account's transactions |

Only one hash is awaited, of the funding as of the jobs. That the master's last
transaction stands for the others is `Ledger` (the node has an account's
transactions in the order of their nonces, and all of them before the first
loss) with `Funding` (the one awaited has the highest nonce). Of the jobs
`Sending` says that a goroutine without an error has sent them all and that the
hash noted last is the last of its account, so that a ready pool has every
account's transactions admitted and one account's executed: with `Ledger` an
initial state of `OpenLoop`, which `DriverStarts` states by `OpenLoop`'s own
`Init`. `RoomForEveryError` is a count: the errors in the channel are at most the
goroutines that are done (`OneErrorEach`), fewer than its room as long as one
is not; it is the part of `SetupReturns` that does not need fairness.
`JobsListed` and the lemmas before it compute what `Jobs` lists.

| Theorem of `PlanProofs` and `MixProofs` | States |
|---|---|
| `TurnsInMix` (`PlanProofs`) | `Weighted` holds planned kinds only, each exactly `Reps` of its target times, or not at all with no target |
| `Invariance` | `Spec => []Inv` |
| `TypeCorrect` | `Spec => []TypeOK` |
| `OffersOnlyWithContracts` | `Spec => []OnlyWithContracts` |
| `TurnsFollowTargets` | `Spec => []WeightsFollowTargets` |
| `StartsConfigured` | `Spec => []StartsCleanly` |
| `TipKeepsUp` | `Spec => []TipNotStale` |
| `TurnsInProportion` † | the turns of a target of at least ten are a tenth of it, rounded down, and in exact proportion where the targets are multiples of ten |

`Weighted` joins the stretches of the specs with `FlattenSeq`, a recursive
function. What it computes for any number of specs is proved by induction, not
with the library's theorems of induction, which take an operator as a
parameter, but over sets: `SetInduction` shows from the well-founded order of
the naturals that a set with 0 that is closed under successor is all of them,
and is applied to the set of the lengths for which the claim holds
(`JoinsExist`, `JoinsIn`, `TimesInFlatten`). That every planned kind has a
place in any order of the map is a count (`OrderIsComplete`: an injection
between sets of one size), that two stretches never share a kind makes the
count of each that of its own stretch (`TimesAdd`, `StretchIn`). `Inv` of `Mix`
keeps this (`Planning`), what each step of the start has checked (`Starting`)
and, for `TipNotStale`, the distance of the fee cells (`Fees`): the cells are
one store apart, and the fee cap a worker has loaded is no newer than the
refresher's, so that a tip loaded later is at most one refresh behind it.

TLC checks the invariants before the proofs do: `Inv` in `open_loop_window`,
`harness_run`, `setup` and `mix` (`TypeOK` is a part of it), `Clock`,
`EveryNodeCompared` and `HeldBySlowest` in `app_hash_stall`; all of `AppHash`'s
`Inv` but `Sweep` in `app_hash_sweep`.

Only model-checked, and why:

* Liveness (`KeepsResuming`, `RunReturns`, `HaltIsNoted`, `EveryHeightCompared`,
  `CollectorQuits`, `FinalReportWritten`, `SetupReturns`, `NoKindStarves`):
  fairness is stated with ENABLED, which the prover does not expand.
* The violated properties: a counterexample is their proof.

## 6. Not modelled

* Execution results: a reverted mint, approval or transfer counts as executed.
  The code does not look at a receipt's status either (`setup.go:131`,
  `accounts.go:239`), which is listed as a hazard without a property.
* Transaction contents: calldata, gas limits, signatures, the fee formula of
  `SuggestFees`. A fee is known by its age only.
* Parsing: YAML, JSON, HTTP, hexadecimal and decimal numbers. `StatusHeight`
  and `BlockAppHash` drop parse errors (`cometrpc.go:103`): a node that answers
  garbage for ever is not in `AppHash`, one that is at height 0 is
  (`HeldBySlowest`). The former is a hazard without a property: a sweep over
  height 0 ends before the stall detector.
* What the configuration does not check: two nodes of one name share an entry
  of `checkHeight`'s map (in the model nodes are distinct), an empty `cometRPC`
  of one node among others is left out by `cometNodes` and so is no node here;
  a token or pool without an address counts as deployed for `NewBuilder`, and
  for `Mix` and `Setup` every entry has one.
* In `Mix`, a build that fails apart from a send that is refused: either gives
  the nonce to the next turn. In the fees, a tip newer than its fee cap: the
  model has it, no property bounds it.
* Time other than "more than the threshold" and "past the deadline": how long
  the first sweep takes, how wide a poll interval is.
* The wording and layout of the report, the command line, the contract and its
  deployer.
* Code nobody calls: `MaxBlockGas`, `Registry`, `ResolveAddr`, `TokenAddr`,
  `FactoryAddr`.

`WeightsFollowTargets` states order: `Driver.Run` divides the targets by ten and
rounds down, so that 19 gets no more turns than 10, and one turn is the least,
so that 1 gets no fewer. What is left of "proportional to its inflight"
(`workload.go:235`) is `TurnsInProportion`.

## 7. Plan

1. Done: the nonce protocol (`Accounts`, `Chain`, `NonceStream`, `OpenLoop`)
   with its proofs; the collectors and their abstract specification (`Report`,
   `AppHash`, `Auditor`, `Mempool`); the run and its (`Harness`, `Journal`);
   the start of a run (`Plan`, `Setup`, `Mix`) and its composition with the
   driver (`HandsOver`).
2. Done: the theorems of section 5, in the order of the modules' weight: the
   nonces, the app-hash sweep with its refinement, the reports, the setup, the
   mix; then what holds where a property is violated (the stuck account, the
   verdicts with all calls answered), the counts and the ring.
3. Left: a driver with more than one account on one poller under TLC; what
   becomes of `HandsOver` when the node loses a setup transaction after it (the
   driver's theorems start from `Init`, with the setup transactions pooled, and
   allow the loss; that the mint is lost then is an effect of execution); and
   the hazards that still have no property.
