------------------------------ MODULE Harness -------------------------------
(***************************************************************************)
(* The phases of one run after the setup (harness/harness.go, Run): load,  *)
(* adaptive drain or snapshot reports, the end of the collectors, the      *)
(* final report (report/report.go, Write).  The driver is seen through its *)
(* sink (OpenLoop has the rest): while it runs it adds to the sink, and it *)
(* returns when the duration is over or the context done.  Snapshots,      *)
(* collector, senders and main goroutine interleave; the process ends with *)
(* the final report.                                                       *)
(***************************************************************************)
EXTENDS Mempool

CONSTANTS
  Modes,         \* the modes that are looked at
  MaxSent,       \* bound on the transactions sent
  DiskFails      \* TRUE: writing a file may fail, and leave a part of it

ASSUME HarnessAssumption ==
  /\ Modes \subseteq {"oneShot", "oneShotBlind", "continuous", "continuousBlind"}
  /\ MaxSent \in Nat /\ DiskFails \in BOOLEAN

VARIABLES
  mode,          \* one-shot, or continuous: workload.durationSec <= 0;
                 \* blind: no node has a cometRPC, there is no mempool collector
  phase,         \* the main goroutine: "load", "join", "drain", "drainCall",
                 \* "drainSleep", "grace", "md", "json" or "done"
  ctx,           \* the signal context is done (Ctrl+C)
  late,          \* the drain deadline has passed
  zeros,         \* zero depths in a row seen by the drain loop
  sent,          \* poolSink: Add counts a total and a kind in one step
  snapPc,        \* snapshot goroutine: "select", "stats", "md", "json" or "done"
  snap,          \* the report.Input of the snapshot
  final,         \* the report.Input of the final report
  md, json,      \* report.md and report.json, by the Input they were made of
  writeOK,       \* history: the last call of report.Write that ended did not fail
  drainSaw       \* history: the drain loop's last answer, NotOK before the first

drainVars == <<late, zeros, drainSaw>>
snapVars == <<snapPc, snap>>
fileVars == <<md, json, writeOK>>
world == <<mode, depthVars, memVars, sent>>
vars == <<world, obsDone, phase, ctx, drainVars, snapVars, final, fileVars>>

Continuous == mode \in {"continuous", "continuousBlind"}

HasComet == mode \in {"oneShot", "continuous"}

NoReport == [tag |-> "none", total |-> 0, kinds |-> 0, verdict |-> "none",
             basis |-> [clist |-> NotOK, txpool |-> NotOK]]

Init ==
  /\ MemInit
  /\ mode \in Modes
  /\ phase = "load" /\ ctx = FALSE
  /\ late = FALSE /\ zeros = 0 /\ drainSaw = NotOK
  /\ sent = 0
  /\ snapPc = IF Continuous THEN "select" ELSE "done"
  /\ snap = NoReport /\ final = NoReport /\ md = NoReport /\ json = NoReport
  /\ writeOK = TRUE

Running == phase # "done"

(* From the last buildInput on nobody looks at depths and samples. *)
Watched == phase \notin {"md", "json", "done"}

-----------------------------------------------------------------------------
(* What goes on around the main goroutine. *)

Collect ==
  /\ Watched /\ HasComet
  /\ MemCollector
  /\ UNCHANGED <<mode, depthVars, sent, obsDone, phase, ctx, drainVars, snapVars, final, fileVars>>

(* A driver that returns while its workers go on. *)
MutLoading == Running

(* Driver.Run waits for its workers: they send in this phase only. *)
Loading == phase = "load"

(* What a transaction makes of a depth: one more, if it stays there. *)
Grown(depth) == {n \in {depth, depth + 1} : n <= MaxDepth}

(* The driver adds to the sink; the node's mempool grows by what it is sent. *)
Send ==
  /\ Loading /\ sent < MaxSent
  /\ sent' = sent + 1
  /\ \/ silent /\ UNCHANGED <<clist, txpool>>
     \/ ~silent /\ clist' \in Grown(clist) /\ txpool' \in Grown(txpool)
  /\ UNCHANGED <<mode, silent, memVars, obsDone, phase, ctx, drainVars, snapVars, final, fileVars>>

(* Blocks and gossip move the depths, also when no load is sent. *)
DepthsMove ==
  /\ Watched /\ ~silent
  /\ \/ clist' \in 0..MaxDepth /\ clist' # clist /\ UNCHANGED txpool
     \/ txpool' \in 0..MaxDepth /\ txpool' # txpool /\ UNCHANGED clist
  /\ UNCHANGED <<mode, silent, memVars, sent, obsDone, phase, ctx, drainVars, snapVars, final, fileVars>>

(* Nobody sees its depths from then on: they are left at 0. *)
GoSilent ==
  /\ Watched /\ Hangs /\ ~silent
  /\ silent' = TRUE /\ clist' = 0 /\ txpool' = 0
  /\ UNCHANGED <<mode, memVars, sent, obsDone, phase, ctx, drainVars, snapVars, final, fileVars>>

(* The collectors' context is a child of the signal context. *)
Interrupt ==
  /\ Running /\ ~ctx
  /\ ctx' = TRUE /\ obsDone' = TRUE
  /\ UNCHANGED <<world, phase, drainVars, snapVars, final, fileVars>>

DrainCapPasses ==
  /\ phase \in {"drain", "drainCall", "drainSleep"} /\ ~late
  /\ late' = TRUE
  /\ UNCHANGED <<world, obsDone, phase, ctx, zeros, drainSaw, snapVars, final, fileVars>>

-----------------------------------------------------------------------------
(* report.Write: report.md, and when that went well report.json.  A write    *)
(* that fails leaves the old file or the head of the new one; the error is   *)
(* logged, and that is all.                                                  *)

Torn(r) == [r EXCEPT !.tag = "torn"]

WriteMd(r) == md' = r /\ UNCHANGED <<json, writeOK>>
WriteJson(r) == json' = r /\ writeOK' = TRUE /\ UNCHANGED md
MdBreaks(r) == DiskFails /\ md' \in {md, Torn(r)} /\ writeOK' = FALSE /\ UNCHANGED json
JsonBreaks(r) == DiskFails /\ json' \in {json, Torn(r)} /\ writeOK' = FALSE /\ UNCHANGED md

-----------------------------------------------------------------------------
(* The snapshot goroutine of continuous mode.  buildInput reads the sink's   *)
(* total first and its counts per kind second.                               *)

SnapGoto(from, to) == Running /\ snapPc = from /\ snapPc' = to

SnapTick ==
  /\ SnapGoto("select", "stats")
  /\ snap' = [NoReport EXCEPT !.tag = "snapshot", !.total = sent]
  /\ UNCHANGED <<world, obsDone, phase, ctx, drainVars, final, fileVars>>

(* The counts are read before the total. *)
MutWithStats == [snap EXCEPT !.kinds = snap.total, !.total = sent]

WithStats == [snap EXCEPT !.kinds = sent]

SnapStats ==
  /\ SnapGoto("stats", "md")
  /\ snap' = [WithStats EXCEPT !.verdict = MempoolVerdict(Continuous, mem, Window)]
  /\ UNCHANGED <<world, obsDone, phase, ctx, drainVars, final, fileVars>>

SnapWrite ==
  /\ \/ SnapGoto("md", "json") /\ WriteMd(snap) /\ UNCHANGED snap
     \/ SnapGoto("json", "select") /\ WriteJson(snap) /\ snap' = NoReport
     \/ SnapGoto("md", "select") /\ MdBreaks(snap) /\ snap' = NoReport
     \/ SnapGoto("json", "select") /\ JsonBreaks(snap) /\ snap' = NoReport
  /\ UNCHANGED <<world, obsDone, phase, ctx, drainVars, final>>

SnapQuit ==
  /\ ctx
  /\ SnapGoto("select", "done")
  /\ UNCHANGED <<world, obsDone, phase, ctx, drainVars, snap, final, fileVars>>

-----------------------------------------------------------------------------
(* The main goroutine. *)

Goto(from, to) == phase = from /\ phase' = to

StopObs == obsDone' = TRUE

(* The locals of the drain loop end with it. *)
LeaveDrain == StopObs /\ late' = FALSE /\ zeros' = 0 /\ drainSaw' = NotOK

(* driver.Run returns: the duration is over or the context done; at once,    *)
(* in either mode, when the mix of kinds is empty.                           *)
LoadEnds ==
  /\ ctx \/ ~Continuous \/ sent = 0
  /\ Goto("load", IF Continuous THEN "join" ELSE "drain")
  /\ UNCHANGED <<world, obsDone, ctx, drainVars, snapVars, final, fileVars>>

(* The final report does not wait for the snapshot goroutine. *)
MutSnapshotsOver == ctx

(* rwg.Wait *)
SnapshotsOver == snapPc = "done"

Join ==
  /\ SnapshotsOver
  /\ Goto("join", "grace") /\ StopObs
  /\ UNCHANGED <<world, ctx, drainVars, snapVars, final, fileVars>>

(* A loop that lasts until the mempool is empty. *)
MutBeforeDeadline == TRUE

(* The deadline is looked at between two calls, never during one. *)
BeforeDeadline == ~late

DrainAsk ==
  /\ HasComet /\ BeforeDeadline
  /\ Goto("drain", "drainCall")
  /\ UNCHANGED <<world, obsDone, ctx, drainVars, snapVars, final, fileVars>>

(* A non-zero depth leaves the zeros counted so far. *)
MutZerosAfter(n) == IF n = 0 THEN zeros + 1 ELSE zeros

ZerosAfter(n) == IF n = 0 THEN zeros + 1 ELSE 0

DrainRead ==
  /\ ~silent
  /\ \/ ZerosAfter(clist) >= 2 /\ Goto("drainCall", "grace") /\ LeaveDrain
     \/ /\ ZerosAfter(clist) < 2 /\ Goto("drainCall", "drainSleep")
        /\ zeros' = ZerosAfter(clist) /\ drainSaw' = clist
        /\ UNCHANGED <<obsDone, late>>
  /\ UNCHANGED <<world, ctx, snapVars, final, fileVars>>

(* A failed read leaves the zeros counted so far. *)
DrainReadFails ==
  /\ CallFails(ctx)
  /\ Goto("drainCall", "drainSleep")
  /\ UNCHANGED <<world, obsDone, ctx, drainVars, snapVars, final, fileVars>>

(* The select of sleepCtx may take the timer although the context is done. *)
DrainWakes ==
  /\ Goto("drainSleep", "drain")
  /\ UNCHANGED <<world, obsDone, ctx, drainVars, snapVars, final, fileVars>>

(* The cap, Ctrl+C, or, without a cometRPC, the plain sleep of the drain     *)
(* window.                                                                   *)
DrainGivesUp ==
  /\ \/ ~BeforeDeadline /\ Goto("drain", "grace")
     \/ ctx /\ Goto("drainSleep", "grace")
     \/ ~HasComet /\ Goto("drain", "grace")
  /\ LeaveDrain
  /\ UNCHANGED <<world, ctx, snapVars, final, fileVars>>

(* 500 ms later: buildInput, whatever the collectors have finished by then. *)
FinalBuild ==
  /\ Goto("grace", "md")
  /\ final' = [tag |-> "final", total |-> sent, kinds |-> sent,
               verdict |-> MempoolVerdict(Continuous, mem, Window), basis |-> known.last]
  /\ UNCHANGED <<world, obsDone, ctx, drainVars, snapVars, fileVars>>

FinalWrite ==
  /\ \/ Goto("md", "json") /\ WriteMd(final)
     \/ Goto("json", "done") /\ WriteJson(final)
     \/ Goto("md", "done") /\ MdBreaks(final)
     \/ Goto("json", "done") /\ JsonBreaks(final)
  /\ UNCHANGED <<world, obsDone, ctx, drainVars, snapVars, final>>

Exited == phase = "done" /\ UNCHANGED vars

Main ==
  \/ Join \/ DrainAsk \/ DrainRead \/ DrainReadFails \/ DrainWakes \/ DrainGivesUp
  \/ FinalBuild \/ FinalWrite

Snapshots == SnapTick \/ SnapStats \/ SnapWrite \/ SnapQuit

Next ==
  \/ LoadEnds \/ Main \/ Snapshots \/ Collect
  \/ Send \/ DepthsMove \/ GoSilent \/ Interrupt \/ DrainCapPasses
  \/ Exited

Spec == Init /\ [][Next]_vars

(* Goroutines are scheduled, sleeps and the drain cap end, the load of a     *)
(* one-shot run has a duration, and a select does not miss the end of the    *)
(* context for ever.  That a call returns is not assumed: a silent node      *)
(* disables DrainRead and DrainReadFails.                                    *)
FairSpec ==
  /\ Spec
  /\ WF_vars(LoadEnds) /\ WF_vars(Main) /\ WF_vars(DrainCapPasses)
  /\ WF_vars(Snapshots) /\ SF_vars(SnapQuit)

-----------------------------------------------------------------------------
Page == [tag : {"none", "snapshot", "final", "torn"}, total : 0..MaxSent, kinds : 0..MaxSent,
         verdict : {"none", "LIVE", "PASS", "INCOMPLETE", "FAIL"},
         basis : [clist : NotOK..MaxDepth, txpool : NotOK..MaxDepth]]

(* Every variable has its type. *)
TypeOK ==
  /\ MemTypeOK
  /\ mode \in Modes
  /\ phase \in {"load", "join", "drain", "drainCall", "drainSleep", "grace", "md", "json", "done"}
  /\ ctx \in BOOLEAN /\ late \in BOOLEAN
  /\ zeros \in 0..1 /\ drainSaw \in NotOK..MaxDepth
  /\ sent \in 0..MaxSent
  /\ snapPc \in {"select", "stats", "md", "json", "done"}
  /\ {snap, final, md, json} \subseteq Page
  /\ writeOK \in BOOLEAN

(* "Writing a report snapshot every reportIntervalSec, plus a final report": *)
(* the two files are of one report whenever no writer is between them,       *)
(* unless the last write failed, and at the end that is the final report.    *)
ReportsMatch ==
  (writeOK /\ snapPc # "json" /\ phase # "json") =>
    md = json /\ (phase = "done" => md = final)

(* The counts per kind of any report written while the senders go on are     *)
(* never behind its total, and those of the final report are all that was    *)
(* sent.                                                                     *)
CountsAddUp ==
  \A file \in {md, json} :
    /\ file.total <= file.kinds /\ file.kinds <= sent
    /\ file.tag = "final" => file.total = sent

(* The drain loop takes the mempool for empty only after two answers of zero *)
(* with no other answer between them, failed calls aside.                    *)
DrainedTwice ==
  [][phase = "drainCall" /\ phase' = "grace" => clist = 0 /\ drainSaw = 0]_vars

(* "The caller must NOT treat that as zero depth": the verdict PASS is never *)
(* based on a txpool that was measured and last measured non-empty, and the  *)
(* verdicts against the node rest on a depth it did answer.                  *)
VerdictMeasured ==
  /\ final.verdict = "PASS" => final.basis.txpool \in {NotOK, 0}
  /\ final.verdict \in {"FAIL", "INCOMPLETE"} => final.basis.clist > 0 \/ final.basis.txpool > 0

(* Who may write when, and of what: the snapshot goroutine is over before    *)
(* the final report begins, its report is never behind the one on disk, and  *)
(* what a writer has half done is its own.                                   *)
OneWriter ==
  /\ snapPc # "done" => Continuous /\ phase \in {"load", "join"}
  /\ snapPc \in {"stats", "md", "json"} =>
       snap.tag = "snapshot" /\ md.total <= snap.total /\ snap.total <= sent
  /\ snapPc \in {"md", "json"} => snap.total <= snap.kinds /\ snap.kinds <= sent
  /\ snapPc = "json" => md = snap
  /\ ~Watched => final.tag = "final" /\ final.total = sent /\ final.kinds = sent
  /\ phase = "json" => md = final
  /\ md.tag = "final" => phase \in {"json", "done"}
  /\ json.tag = "final" => phase = "done"

(* The first zero the drain loop counts is its last answer. *)
ZerosSeen == zeros = 1 => drainSaw = 0

(* The invariant that is inductive. *)
Inv ==
  /\ TypeOK /\ PeakIsHighest /\ Measured /\ VerdictMeasured
  /\ OneWriter /\ ReportsMatch /\ CountsAddUp /\ ZerosSeen

(* "The mempool drained to 0 - no txs left stuck" is what PASS says: if the  *)
(* node ever answered the collector, its last answer was an empty CList.     *)
PassMeansEmpty == final.verdict = "PASS" => final.basis.clist \in {NotOK, 0}

(* report.md is the Journal of the transactions sent: snapshots never go     *)
(* back, and the final report tells of all transactions and stays.           *)
Reports == INSTANCE Journal
             WITH work <- sent, page <- md.total, closed <- md.tag = "final"

ImplementsJournal == Reports!JournalSpec

(* A one-shot run, and a continuous one that is interrupted, writes its      *)
(* final report, or fails to write it, whatever the node answers: only a     *)
(* node that is silent can hold it up, and that only until Ctrl+C.           *)
FinalReportWritten ==
  (~Continuous \/ ctx) ~>
    (phase = "done" /\ (md.tag = "final" \/ ~writeOK)) \/ (silent /\ ~ctx)

(* "Adaptive drain: poll until the mempool empties, capped." *)
DrainIsCapped == late ~> phase \in {"grace", "md", "json", "done"}
=============================================================================
