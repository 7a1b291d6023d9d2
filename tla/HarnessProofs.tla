--------------------------- MODULE HarnessProofs ---------------------------
(***************************************************************************)
(* The run after its setup, for any number of transactions, depths, ring   *)
(* and window: every variable keeps its type, the reports on disk are of   *)
(* one moment and never go back, the verdict rests on what was measured,   *)
(* and the drain ends on two zeros.  Inv of Harness is inductive, each of  *)
(* its parts relative to the others.                                       *)
(***************************************************************************)
EXTENDS Harness, MempoolProofs

-----------------------------------------------------------------------------
(* Pages. *)

LEMMA NoReportPage ==
  NoReport \in Page /\ NoReport.tag = "none" /\ NoReport.total = 0 /\ NoReport.kinds = 0
                    /\ NoReport.verdict = "none"
  BY HarnessAssumption, MempoolAssumption DEF HarnessAssumption, MempoolAssumption, NoReport, Page, NotOK

(* The head of a report is of the same moment as the report.                 *)
LEMMA TornPage ==
  ASSUME NEW r \in Page
  PROVE  /\ Torn(r) \in Page
         /\ Torn(r).tag = "torn" /\ Torn(r).total = r.total /\ Torn(r).kinds = r.kinds
  BY DEF Torn, Page

(* A writer leaves the old file, its report, or the head of it.              *)
LEMMA WritesKeepType ==
  ASSUME md \in Page, json \in Page, writeOK \in BOOLEAN, NEW r \in Page,
         WriteMd(r) \/ WriteJson(r) \/ MdBreaks(r) \/ JsonBreaks(r)
  PROVE  md' \in Page /\ json' \in Page /\ writeOK' \in BOOLEAN
  <1>1. CASE WriteMd(r)
    BY <1>1 DEF WriteMd
  <1>2. CASE WriteJson(r)
    BY <1>2 DEF WriteJson
  <1>3. CASE MdBreaks(r)
    BY <1>3, TornPage DEF MdBreaks
  <1>4. CASE JsonBreaks(r)
    BY <1>4, TornPage DEF JsonBreaks
  <1> QED
    BY <1>1, <1>2, <1>3, <1>4

-----------------------------------------------------------------------------
(* Initial states. *)

LEMMA InitInv == Init => Inv
  <1> SUFFICES ASSUME Init PROVE Inv
    OBVIOUS
  <1> USE HarnessAssumption, MempoolAssumption DEF HarnessAssumption, MempoolAssumption, NotOK
  <1>1. MemTypeOK /\ PeakIsHighest /\ Measured
    BY MemInitInv DEF Init, MemInv
  <1>2. TypeOK
    <2>1. ctx \in BOOLEAN /\ late \in BOOLEAN /\ writeOK \in BOOLEAN
      BY Zenon DEF Init
    <2>2. {snap, final, md, json} \subseteq Page
      BY NoReportPage DEF Init
    <2>3. /\ mode \in Modes
          /\ phase \in {"load", "join", "drain", "drainCall", "drainSleep", "grace", "md", "json", "done"}
          /\ zeros \in 0..1 /\ drainSaw \in -1..MaxDepth /\ sent \in 0..MaxSent
          /\ snapPc \in {"select", "stats", "md", "json", "done"}
      BY DEF Init
    <2> QED
      BY <1>1, <2>1, <2>2, <2>3 DEF TypeOK
  <1>3. VerdictMeasured
    BY NoReportPage DEF Init, VerdictMeasured
  <1>4. OneWriter
    BY NoReportPage DEF Init, OneWriter, Watched
  <1>5. ReportsMatch
    BY DEF Init, ReportsMatch
  <1>6. CountsAddUp
    BY NoReportPage DEF Init, CountsAddUp
  <1>7. ZerosSeen
    BY DEF Init, ZerosSeen
  <1> QED
    BY <1>1, <1>2, <1>3, <1>4, <1>5, <1>6, <1>7 DEF Inv

-----------------------------------------------------------------------------
(* What the actions leave alone, one summary for every kind of step. *)

fileState == <<mode, phase, snapVars, final, fileVars, sent>>

(* Nothing of the reports: the collector, the depths, the contexts.          *)
LEMMA Elsewhere ==
  Collect \/ DepthsMove \/ GoSilent \/ Interrupt \/ DrainCapPasses \/ Exited \/ UNCHANGED vars
    => UNCHANGED fileState
  BY DEF Collect, DepthsMove, GoSilent, Interrupt, DrainCapPasses, Exited, vars, world, memVars,
     drainVars, snapVars, fileVars, fileState

(* The main goroutine on its way from the load to the final report.          *)
LEMMA OnItsWay ==
  ASSUME LoadEnds \/ Join \/ DrainAsk \/ DrainRead \/ DrainReadFails \/ DrainWakes \/ DrainGivesUp
  PROVE  /\ UNCHANGED <<mode, snapVars, final, fileVars, sent>>
         /\ phase \in {"load", "join", "drain", "drainCall", "drainSleep"}
         /\ phase' \in {"join", "drain", "drainCall", "drainSleep", "grace"}
         /\ phase = "load" => phase' = IF Continuous THEN "join" ELSE "drain"
         /\ phase = "join" => snapPc = "done"
  BY DEF LoadEnds, Join, DrainAsk, DrainRead, DrainReadFails, DrainWakes, DrainGivesUp, Goto,
     world, snapVars, fileVars, SnapshotsOver

-----------------------------------------------------------------------------
(* The collector's part: its own steps, and depths that move within bounds. *)

LEMMA MemNext == Inv /\ [Next]_vars => (MemTypeOK /\ PeakIsHighest /\ Measured)'
  <1> SUFFICES ASSUME Inv, [Next]_vars
               PROVE  (MemTypeOK /\ PeakIsHighest /\ Measured)'
    OBVIOUS
  <1> USE HarnessAssumption, MempoolAssumption DEF HarnessAssumption, MempoolAssumption, NotOK
  <1>1. MemInv
    BY DEF Inv, TypeOK, MemInv
  <1>2. ASSUME UNCHANGED memVars, clist' \in 0..MaxDepth, txpool' \in 0..MaxDepth,
               silent' \in BOOLEAN, obsDone' \in BOOLEAN
        PROVE  (MemTypeOK /\ PeakIsHighest /\ Measured)'
    <2>1. MemTypeOK'
      BY <1>1, <1>2 DEF MemInv, MemTypeOK, memVars
    <2>2. PeakIsHighest' /\ Measured'
      BY <1>1, <1>2 DEF MemInv, PeakIsHighest, Measured, memVars
    <2> QED
      BY <2>1, <2>2
  <1>depths. clist \in 0..MaxDepth /\ txpool \in 0..MaxDepth
    BY <1>1 DEF MemInv, MemTypeOK
  <1>3. CASE Collect
    BY <1>1, <1>3, CollectorInv DEF Collect, MemInv, depthVars
  <1>4. CASE Send
    <2>1. clist' \in 0..MaxDepth /\ txpool' \in 0..MaxDepth
      <3>1. \A d \in 0..MaxDepth : Grown(d) \subseteq 0..MaxDepth
        BY DEF Grown
      <3>2. \/ UNCHANGED <<clist, txpool>>
            \/ clist' \in Grown(clist) /\ txpool' \in Grown(txpool)
        BY Zenon, <1>4 DEF Send
      <3> QED
        BY <1>depths, <3>1, <3>2
    <2>2. UNCHANGED <<memVars, silent, obsDone>>
      BY <1>4 DEF Send
    <2> QED
      BY <1>1, <1>2, <2>1, <2>2 DEF MemInv, MemTypeOK
  <1>5. CASE DepthsMove \/ GoSilent
    <2>1. clist' \in 0..MaxDepth /\ txpool' \in 0..MaxDepth
      BY <1>depths, <1>5 DEF DepthsMove, GoSilent
    <2>2. silent' \in BOOLEAN
      BY Zenon, <1>1, <1>5 DEF DepthsMove, GoSilent, MemInv, MemTypeOK
    <2>3. UNCHANGED <<memVars, obsDone>>
      BY <1>5 DEF DepthsMove, GoSilent
    <2> QED
      BY <1>1, <1>2, <2>1, <2>2, <2>3 DEF MemInv, MemTypeOK
  <1>6. CASE LoadEnds \/ Main \/ Snapshots \/ Interrupt \/ DrainCapPasses \/ Exited \/ UNCHANGED vars
    <2>1. UNCHANGED <<depthVars, memVars>>
      BY <1>6 DEF LoadEnds, Main, Join, DrainAsk, DrainRead, DrainReadFails, DrainWakes, DrainGivesUp,
         FinalBuild, FinalWrite, Snapshots, SnapTick, SnapStats, SnapWrite, SnapQuit, Interrupt,
         DrainCapPasses, Exited, vars, world
    <2>2. obsDone' \in BOOLEAN
      BY <1>1, <1>6 DEF LoadEnds, Main, Join, DrainAsk, DrainRead, DrainReadFails, DrainWakes,
         DrainGivesUp, FinalBuild, FinalWrite, Snapshots, SnapTick, SnapStats, SnapWrite, SnapQuit,
         Interrupt, DrainCapPasses, Exited, vars, LeaveDrain, StopObs, MemInv, MemTypeOK
    <2> QED
      BY <1>1, <1>2, <2>1, <2>2 DEF MemInv, MemTypeOK, depthVars
  <1> QED
    BY <1>3, <1>4, <1>5, <1>6 DEF Next

-----------------------------------------------------------------------------
(* The types of the rest. *)

LEMMA FinalPage ==
  ASSUME Inv, FinalBuild
  PROVE  /\ final' \in Page
         /\ final'.tag = "final" /\ final'.total = sent /\ final'.kinds = sent
         /\ final'.verdict = MempoolVerdict(Continuous, mem, Window)
         /\ final'.basis = known.last
  <1>1. MempoolVerdict(Continuous, mem, Window) \in {"LIVE", "PASS", "INCOMPLETE", "FAIL"}
    <2>1. Continuous \in BOOLEAN
      BY DEF Continuous
    <2> QED
      BY <2>1, VerdictSays
  <1>2. /\ sent \in 0..MaxSent
        /\ known.last \in [clist : NotOK..MaxDepth, txpool : NotOK..MaxDepth]
    BY DEF Inv, TypeOK, MemTypeOK
  <1> QED
    BY <1>1, <1>2 DEF FinalBuild, Page

LEMMA SnapPage ==
  ASSUME Inv
  PROVE  /\ SnapTick => /\ snap' \in Page /\ snap'.tag = "snapshot"
                        /\ snap'.total = sent
         /\ SnapStats => /\ snap' \in Page /\ snap'.tag = snap.tag
                         /\ snap'.total = snap.total /\ snap'.kinds = sent
  <1>1. sent \in 0..MaxSent /\ snap \in Page
    BY DEF Inv, TypeOK
  <1>2. ASSUME SnapTick
        PROVE  /\ snap' \in Page /\ snap'.tag = "snapshot" /\ snap'.total = sent
    BY <1>1, <1>2, NoReportPage DEF SnapTick, Page
  <1>3. ASSUME SnapStats
        PROVE  /\ snap' \in Page /\ snap'.tag = snap.tag
               /\ snap'.total = snap.total /\ snap'.kinds = sent
    <2>1. MempoolVerdict(Continuous, mem, Window) \in {"LIVE", "PASS", "INCOMPLETE", "FAIL"}
      <3>1. Continuous \in BOOLEAN
        BY DEF Continuous
      <3> QED
        BY <3>1, VerdictSays
    <2> QED
      BY <1>1, <1>3, <2>1 DEF SnapStats, WithStats, Page
  <1> QED
    BY <1>2, <1>3

LEMMA PagesNext == Inv /\ [Next]_vars => ({snap, final, md, json} \subseteq Page /\ writeOK \in BOOLEAN)'
  <1> SUFFICES ASSUME Inv, [Next]_vars
               PROVE  /\ snap' \in Page /\ final' \in Page /\ md' \in Page /\ json' \in Page
                      /\ writeOK' \in BOOLEAN
    OBVIOUS
  <1>1. /\ snap \in Page /\ final \in Page /\ md \in Page /\ json \in Page
        /\ writeOK \in BOOLEAN
    BY DEF Inv, TypeOK
  <1>2. CASE \/ Collect \/ DepthsMove \/ GoSilent \/ Interrupt \/ DrainCapPasses \/ Exited
             \/ UNCHANGED vars
    BY <1>1, <1>2, Elsewhere DEF fileState, snapVars, fileVars
  <1>3. CASE LoadEnds \/ Join \/ DrainAsk \/ DrainRead \/ DrainReadFails \/ DrainWakes \/ DrainGivesUp
    BY <1>1, <1>3, OnItsWay DEF snapVars, fileVars
  <1>4. CASE Send \/ SnapQuit
    BY <1>1, <1>4 DEF Send, SnapQuit, snapVars, fileVars
  <1>5. CASE SnapTick \/ SnapStats
    BY <1>1, <1>5, SnapPage DEF SnapTick, SnapStats, fileVars
  <1>6. CASE FinalBuild
    BY <1>1, <1>6, FinalPage DEF FinalBuild, snapVars, fileVars
  <1>7. CASE SnapWrite
    <2>1. WriteMd(snap) \/ WriteJson(snap) \/ MdBreaks(snap) \/ JsonBreaks(snap)
      BY <1>7 DEF SnapWrite
    <2>2. snap' \in {snap, NoReport} /\ final' = final
      BY <1>7 DEF SnapWrite
    <2> QED
      BY <1>1, <2>1, <2>2, WritesKeepType, NoReportPage
  <1>8. CASE FinalWrite
    <2>1. WriteMd(final) \/ WriteJson(final) \/ MdBreaks(final) \/ JsonBreaks(final)
      BY <1>8 DEF FinalWrite
    <2>2. UNCHANGED <<snap, final>>
      BY <1>8 DEF FinalWrite, snapVars
    <2> QED
      BY <1>1, <2>1, <2>2, WritesKeepType
  <1> QED
    BY <1>2, <1>3, <1>4, <1>5, <1>6, <1>7, <1>8 DEF Next, Main, Snapshots

LEMMA TypeNext == Inv /\ [Next]_vars => TypeOK'
  <1> SUFFICES ASSUME Inv, [Next]_vars
               PROVE  TypeOK'
    OBVIOUS
  <1> USE HarnessAssumption, MempoolAssumption DEF HarnessAssumption, MempoolAssumption, NotOK
  <1> DEFINE Phases == {"load", "join", "drain", "drainCall", "drainSleep", "grace", "md", "json", "done"}
  <1>1. /\ phase \in Phases /\ mode \in Modes /\ sent \in 0..MaxSent
        /\ snapPc \in {"select", "stats", "md", "json", "done"}
        /\ zeros \in 0..1 /\ drainSaw \in -1..MaxDepth /\ clist \in 0..MaxDepth
    BY DEF Inv, TypeOK, MemTypeOK
  <1>2. MemTypeOK' /\ ({snap, final, md, json} \subseteq Page)' /\ writeOK' \in BOOLEAN
    BY MemNext, PagesNext
  <1>3. phase' \in Phases
    BY <1>1 DEF Next, Main, Snapshots, Collect, DepthsMove, GoSilent, Interrupt, DrainCapPasses, Exited,
       Send, LoadEnds, Join, DrainAsk, DrainRead, DrainReadFails, DrainWakes, DrainGivesUp, FinalBuild,
       FinalWrite, SnapTick, SnapStats, SnapWrite, SnapQuit, Goto, vars
  <1>4. snapPc' \in {"select", "stats", "md", "json", "done"}
    BY <1>1 DEF Next, Main, Snapshots, Collect, DepthsMove, GoSilent, Interrupt, DrainCapPasses, Exited,
       Send, LoadEnds, Join, DrainAsk, DrainRead, DrainReadFails, DrainWakes, DrainGivesUp, FinalBuild,
       FinalWrite, SnapTick, SnapStats, SnapWrite, SnapQuit, SnapGoto, snapVars, vars
  <1>5. mode' \in Modes /\ sent' \in 0..MaxSent
    BY <1>1 DEF Next, Main, Snapshots, Collect, DepthsMove, GoSilent, Interrupt, DrainCapPasses, Exited,
       Send, LoadEnds, Join, DrainAsk, DrainRead, DrainReadFails, DrainWakes, DrainGivesUp, FinalBuild,
       FinalWrite, SnapTick, SnapStats, SnapWrite, SnapQuit, world, vars
  <1>6. zeros' \in 0..1 /\ drainSaw' \in -1..MaxDepth
    BY <1>1 DEF Next, Main, Snapshots, Collect, DepthsMove, GoSilent, Interrupt, DrainCapPasses, Exited,
       Send, LoadEnds, Join, DrainAsk, DrainRead, DrainReadFails, DrainWakes, DrainGivesUp, FinalBuild,
       FinalWrite, SnapTick, SnapStats, SnapWrite, SnapQuit, drainVars, LeaveDrain, ZerosAfter, vars
  <1>7. ctx' \in BOOLEAN /\ late' \in BOOLEAN
    <2>1. ctx' \in {ctx, TRUE} /\ late' \in {late, TRUE, FALSE}
      BY DEF Next, Main, Snapshots, Collect, DepthsMove, GoSilent, Interrupt, DrainCapPasses, Exited,
         Send, LoadEnds, Join, DrainAsk, DrainRead, DrainReadFails, DrainWakes, DrainGivesUp, FinalBuild,
         FinalWrite, SnapTick, SnapStats, SnapWrite, SnapQuit, drainVars, LeaveDrain, vars
    <2>2. ctx \in BOOLEAN /\ late \in BOOLEAN
      BY DEF Inv, TypeOK
    <2> QED
      BY Zenon, <2>1, <2>2
  <1> QED
    BY <1>2, <1>3, <1>4, <1>5, <1>6, <1>7 DEF TypeOK

-----------------------------------------------------------------------------
(* The verdict. *)

LEMMA VerdictNext == Inv /\ [Next]_vars => VerdictMeasured'
  <1> SUFFICES ASSUME Inv, [Next]_vars
               PROVE  VerdictMeasured'
    OBVIOUS
  <1>1. ASSUME final' = final
        PROVE  VerdictMeasured'
    BY <1>1 DEF Inv, VerdictMeasured
  <1>2. CASE FinalBuild
    <2>1. /\ mem.finalCList \in 0..MaxDepth /\ mem.finalEVM \in 0..MaxDepth
          /\ mem.evmQueryOK \in BOOLEAN
      BY DEF Inv, TypeOK, MemTypeOK
    <2>2. Continuous \in BOOLEAN
      BY DEF Continuous
    <2>3. /\ final'.verdict = "PASS" => Drained(mem)
          /\ final'.verdict \in {"FAIL", "INCOMPLETE"} => ~Drained(mem)
      BY <1>2, <2>2, FinalPage, VerdictSays
    <2>4. /\ Drained(mem) => known.last.txpool \in {NotOK, 0}
          /\ ~Drained(mem) => known.last.clist > 0 \/ known.last.txpool > 0
      BY <2>1, MempoolAssumption DEF MempoolAssumption, Inv, Measured, Drained, NotOK
    <2> QED
      BY <1>2, <2>3, <2>4, FinalPage DEF VerdictMeasured
  <1>3. CASE \/ Collect \/ DepthsMove \/ GoSilent \/ Interrupt \/ DrainCapPasses \/ Exited
             \/ UNCHANGED vars
    BY <1>1, <1>3, Elsewhere DEF fileState
  <1>4. CASE LoadEnds \/ Join \/ DrainAsk \/ DrainRead \/ DrainReadFails \/ DrainWakes \/ DrainGivesUp
    BY <1>1, <1>4, OnItsWay
  <1>5. CASE Send \/ Snapshots \/ FinalWrite
    BY <1>1, <1>5 DEF Send, Snapshots, SnapTick, SnapStats, SnapWrite, SnapQuit, FinalWrite
  <1> QED
    BY <1>2, <1>3, <1>4, <1>5 DEF Next, Main

-----------------------------------------------------------------------------
(* The reports. *)

Reported == OneWriter /\ ReportsMatch /\ CountsAddUp

(* What the files' part of Inv says of numbers, once and for all.            *)
LEMMA Numbers ==
  ASSUME Inv
  PROVE  /\ sent \in Nat
         /\ \A r \in {snap, final, md, json} : r.total \in Nat /\ r.kinds \in Nat
         /\ snap \in Page /\ final \in Page
  BY HarnessAssumption DEF HarnessAssumption, Inv, TypeOK, Page

LEMMA SnapWriteReported == Inv /\ SnapWrite => Reported'
  <1> SUFFICES ASSUME Inv, SnapWrite
               PROVE  Reported'
    OBVIOUS
  <1> USE DEF Inv, Reported
  <1>1. UNCHANGED <<mode, phase, sent, final>>
    BY DEF SnapWrite, world
  <1>2. phase \in {"load", "join"} /\ snapPc \in {"md", "json"} /\ Continuous
    BY DEF SnapWrite, SnapGoto, OneWriter
  <1>3. /\ snap.tag = "snapshot" /\ snap.total <= snap.kinds /\ snap.kinds <= sent
        /\ md.total <= snap.total /\ md.tag # "final" /\ json.tag # "final"
        /\ md.total <= md.kinds /\ md.kinds <= sent
        /\ json.total <= json.kinds /\ json.kinds <= sent
    BY <1>2, Numbers DEF OneWriter, CountsAddUp
  <1>4. Continuous' /\ phase' \in {"load", "join"} /\ Watched'
    BY <1>1, <1>2 DEF Continuous, Watched
  <1>5. /\ Torn(snap).tag = "torn" /\ Torn(snap).total = snap.total
        /\ Torn(snap).kinds = snap.kinds
    BY Numbers, TornPage
  <1>6. CASE SnapGoto("md", "json") /\ WriteMd(snap) /\ UNCHANGED snap
    <2>1. md' = snap /\ json' = json /\ snap' = snap /\ snapPc' = "json"
      BY <1>6 DEF WriteMd, SnapGoto
    <2> QED
      BY <1>1, <1>2, <1>3, <1>4, <2>1, Numbers DEF OneWriter, ReportsMatch, CountsAddUp
  <1>7. CASE SnapGoto("json", "select") /\ WriteJson(snap) /\ snap' = NoReport
    <2>1. md' = md /\ json' = snap /\ snapPc' = "select" /\ md = snap
      BY <1>7 DEF WriteJson, SnapGoto, OneWriter
    <2> QED
      BY <1>1, <1>2, <1>3, <1>4, <2>1, Numbers DEF OneWriter, ReportsMatch, CountsAddUp
  <1>8. CASE SnapGoto("md", "select") /\ MdBreaks(snap) /\ snap' = NoReport
    <2>1. md' \in {md, Torn(snap)} /\ json' = json /\ snapPc' = "select" /\ writeOK' = FALSE
      BY <1>8 DEF MdBreaks, SnapGoto
    <2> QED
      BY <1>1, <1>2, <1>3, <1>4, <1>5, <2>1, Numbers DEF OneWriter, ReportsMatch, CountsAddUp
  <1>9. CASE SnapGoto("json", "select") /\ JsonBreaks(snap) /\ snap' = NoReport
    <2>1. json' \in {json, Torn(snap)} /\ md' = md /\ snapPc' = "select" /\ writeOK' = FALSE
      BY <1>9 DEF JsonBreaks, SnapGoto
    <2> QED
      BY <1>1, <1>2, <1>3, <1>4, <1>5, <2>1, Numbers DEF OneWriter, ReportsMatch, CountsAddUp
  <1> QED
    BY <1>6, <1>7, <1>8, <1>9 DEF SnapWrite

LEMMA FinalWriteReported == Inv /\ FinalWrite => Reported'
  <1> SUFFICES ASSUME Inv, FinalWrite
               PROVE  Reported'
    OBVIOUS
  <1> USE DEF Inv, Reported
  <1>1. UNCHANGED <<mode, snapPc, snap, sent, final>>
    BY DEF FinalWrite, world, snapVars
  <1>2. phase \in {"md", "json"} /\ snapPc = "done"
    BY DEF FinalWrite, Goto, OneWriter
  <1>3. /\ final.tag = "final" /\ final.total = sent /\ final.kinds = sent
        /\ json.tag # "final"
        /\ md.total <= md.kinds /\ md.kinds <= sent
        /\ json.total <= json.kinds /\ json.kinds <= sent
    BY <1>2, Numbers DEF OneWriter, CountsAddUp, Watched
  <1>4. /\ Torn(final).tag = "torn" /\ Torn(final).total = final.total
        /\ Torn(final).kinds = final.kinds
    BY Numbers, TornPage
  <1>5. CASE Goto("md", "json") /\ WriteMd(final)
    <2>1. md' = final /\ json' = json /\ phase' = "json" /\ phase = "md"
      BY <1>5 DEF WriteMd, Goto
    <2> QED
      BY <1>1, <1>2, <1>3, <2>1, Numbers DEF OneWriter, ReportsMatch, CountsAddUp, Watched
  <1>6. CASE Goto("json", "done") /\ WriteJson(final)
    <2>1. md' = md /\ json' = final /\ phase' = "done" /\ md = final
      BY <1>6 DEF WriteJson, Goto, OneWriter
    <2> QED
      BY <1>1, <1>2, <1>3, <2>1, Numbers DEF OneWriter, ReportsMatch, CountsAddUp, Watched
  <1>7. CASE Goto("md", "done") /\ MdBreaks(final)
    <2>1. /\ md' \in {md, Torn(final)} /\ json' = json /\ phase' = "done" /\ writeOK' = FALSE
          /\ md.tag # "final"
      BY <1>7 DEF MdBreaks, Goto, OneWriter
    <2> QED
      BY <1>1, <1>2, <1>3, <1>4, <2>1, Numbers DEF OneWriter, ReportsMatch, CountsAddUp, Watched
  <1>8. CASE Goto("json", "done") /\ JsonBreaks(final)
    <2>1. /\ json' \in {json, Torn(final)} /\ md' = md /\ phase' = "done" /\ writeOK' = FALSE
          /\ md = final
      BY <1>8 DEF JsonBreaks, Goto, OneWriter
    <2> QED
      BY <1>1, <1>2, <1>3, <1>4, <2>1, Numbers DEF OneWriter, ReportsMatch, CountsAddUp, Watched
  <1> QED
    BY <1>5, <1>6, <1>7, <1>8 DEF FinalWrite

LEMMA ReportedNext == Inv /\ [Next]_vars => Reported'
  <1> SUFFICES ASSUME Inv, [Next]_vars
               PROVE  Reported'
    OBVIOUS
  <1> USE DEF Inv, Reported
  <1>1. CASE \/ Collect \/ DepthsMove \/ GoSilent \/ Interrupt \/ DrainCapPasses \/ Exited
             \/ UNCHANGED vars
    <2>1. UNCHANGED <<mode, phase, snapPc, snap, final, md, json, writeOK, sent>>
      BY <1>1, Elsewhere DEF fileState, snapVars, fileVars
    <2> QED
      BY <2>1 DEF OneWriter, ReportsMatch, CountsAddUp, Watched, Continuous
  <1>2. CASE LoadEnds \/ Join \/ DrainAsk \/ DrainRead \/ DrainReadFails \/ DrainWakes \/ DrainGivesUp
    <2>1. UNCHANGED <<mode, snapPc, snap, final, md, json, writeOK, sent>>
      BY <1>2, OnItsWay DEF snapVars, fileVars
    <2>2. Watched /\ Watched' /\ phase' # "json" /\ phase # "json" /\ phase' # "done"
      BY <1>2, OnItsWay DEF Watched
    <2>3. snapPc # "done" => Continuous /\ phase' \in {"load", "join"}
      BY <1>2, OnItsWay DEF OneWriter
    <2> QED
      BY <2>1, <2>2, <2>3 DEF OneWriter, ReportsMatch, CountsAddUp, Continuous, Watched
  <1>3. CASE Send
    <2>1. /\ UNCHANGED <<mode, phase, snapPc, snap, final, md, json, writeOK>>
          /\ phase = "load" /\ sent' = sent + 1
      BY <1>3 DEF Send, Loading, snapVars, fileVars
    <2> QED
      BY <2>1, Numbers DEF OneWriter, ReportsMatch, CountsAddUp, Watched, Continuous
  <1>4. CASE SnapTick
    <2>1. /\ UNCHANGED <<mode, phase, final, md, json, writeOK, sent>>
          /\ snapPc = "select" /\ snapPc' = "stats"
      BY <1>4 DEF SnapTick, SnapGoto, world, fileVars
    <2>2. snap'.tag = "snapshot" /\ snap'.total = sent
      BY <1>4, SnapPage
    <2> QED
      BY <2>1, <2>2, Numbers DEF OneWriter, ReportsMatch, CountsAddUp, Watched, Continuous
  <1>5. CASE SnapStats
    <2>1. /\ UNCHANGED <<mode, phase, final, md, json, writeOK, sent>>
          /\ snapPc = "stats" /\ snapPc' = "md"
      BY <1>5 DEF SnapStats, SnapGoto, world, fileVars
    <2>2. snap'.tag = snap.tag /\ snap'.total = snap.total /\ snap'.kinds = sent
      BY <1>5, SnapPage
    <2> QED
      BY <2>1, <2>2, Numbers DEF OneWriter, ReportsMatch, CountsAddUp, Watched, Continuous
  <1>6. CASE SnapQuit
    <2>1. /\ UNCHANGED <<mode, phase, snap, final, md, json, writeOK, sent>>
          /\ snapPc = "select" /\ snapPc' = "done"
      BY <1>6 DEF SnapQuit, SnapGoto, world, fileVars
    <2> QED
      BY <2>1 DEF OneWriter, ReportsMatch, CountsAddUp, Watched, Continuous
  <1>7. CASE FinalBuild
    <2>1. /\ UNCHANGED <<mode, snapPc, snap, md, json, writeOK, sent>>
          /\ phase = "grace" /\ phase' = "md"
      BY <1>7 DEF FinalBuild, Goto, world, snapVars, fileVars
    <2>2. final'.tag = "final" /\ final'.total = sent /\ final'.kinds = sent
      BY <1>7, FinalPage
    <2> QED
      BY <2>1, <2>2, Numbers DEF OneWriter, ReportsMatch, CountsAddUp, Watched, Continuous
  <1>8. CASE SnapWrite \/ FinalWrite
    BY <1>8, SnapWriteReported, FinalWriteReported
  <1> QED
    BY <1>1, <1>2, <1>3, <1>4, <1>5, <1>6, <1>7, <1>8 DEF Next, Main, Snapshots

-----------------------------------------------------------------------------
(* The zeros of the drain loop. *)

LEMMA ZerosNext == Inv /\ [Next]_vars => ZerosSeen'
  <1> SUFFICES ASSUME Inv, [Next]_vars
               PROVE  ZerosSeen'
    OBVIOUS
  <1>1. CASE DrainRead
    <2>1. clist \in Nat /\ zeros \in 0..1
      BY MempoolAssumption DEF MempoolAssumption, Inv, TypeOK, MemTypeOK
    <2> QED
      BY <1>1, <2>1 DEF DrainRead, LeaveDrain, ZerosAfter, ZerosSeen
  <1>2. CASE DrainGivesUp
    BY <1>2 DEF DrainGivesUp, LeaveDrain, ZerosSeen
  <1>3. CASE ~DrainRead /\ ~DrainGivesUp
    <2>1. UNCHANGED <<zeros, drainSaw>>
      BY <1>3 DEF Next, Main, Snapshots, Collect, DepthsMove, GoSilent, Interrupt, DrainCapPasses,
         Exited, Send, LoadEnds, Join, DrainAsk, DrainReadFails, DrainWakes, FinalBuild, FinalWrite,
         SnapTick, SnapStats, SnapWrite, SnapQuit, drainVars, vars
    <2> QED
      BY <2>1 DEF Inv, ZerosSeen
  <1> QED
    BY <1>1, <1>2, <1>3

-----------------------------------------------------------------------------
(* Inv holds initially and every step keeps it.                              *)
THEOREM Invariance == Spec => []Inv
  <1>1. Inv /\ [Next]_vars => Inv'
    BY MemNext, TypeNext, VerdictNext, ReportedNext, ZerosNext DEF Inv, Reported
  <1> QED
    BY InitInv, <1>1, PTL DEF Spec

(* Every variable of main goroutine, snapshots, sink and collector has its   *)
(* type, for any bound on depths and transactions.                           *)
THEOREM TypeCorrect == Spec => []TypeOK
  <1>1. Inv => TypeOK
    BY DEF Inv
  <1> QED
    BY <1>1, Invariance, PTL

(* The peaks of the report are the highest depths the node ever answered, of *)
(* however many samples, and whatever the ring has dropped.                  *)
THEOREM PeaksExact == Spec => []PeakIsHighest
  <1>1. Inv => PeakIsHighest
    BY DEF Inv
  <1> QED
    BY <1>1, Invariance, PTL

(* Neither PASS nor a verdict against the node rests on a call that failed.  *)
THEOREM VerdictsAreMeasured == Spec => []VerdictMeasured
  <1>1. Inv => VerdictMeasured
    BY DEF Inv
  <1> QED
    BY <1>1, Invariance, PTL

(* report.md and report.json are of one report whenever no writer is between *)
(* them and the last write went well; at the end that is the final report.   *)
THEOREM ReportsAreOne == Spec => []ReportsMatch
  <1>1. Inv => ReportsMatch
    BY DEF Inv
  <1> QED
    BY <1>1, Invariance, PTL

(* The counts per kind of any report on disk add up to its total or more,    *)
(* and the final report counts all that was sent.                            *)
THEOREM CountsNeverBehind == Spec => []CountsAddUp
  <1>1. Inv => CountsAddUp
    BY DEF Inv
  <1> QED
    BY <1>1, Invariance, PTL

-----------------------------------------------------------------------------
(* A drain that ends on depth, and not on the cap, the context or the plain  *)
(* sleep, has seen two zeros in a row.                                       *)
THEOREM DrainSawTwoZeros == Spec => DrainedTwice
  <1>1. Inv /\ [Next]_vars => [phase = "drainCall" /\ phase' = "grace" => clist = 0 /\ drainSaw = 0]_vars
    <2> SUFFICES ASSUME Inv, Next, phase = "drainCall", phase' = "grace"
                 PROVE  clist = 0 /\ drainSaw = 0
      OBVIOUS
    <2>1. DrainRead
      BY DEF Next, Main, Snapshots, Collect, DepthsMove, GoSilent, Interrupt, DrainCapPasses, Exited,
         Send, LoadEnds, Join, DrainAsk, DrainReadFails, DrainWakes, DrainGivesUp, FinalBuild, FinalWrite,
         SnapTick, SnapStats, SnapWrite, SnapQuit, Goto, vars
    <2>2. ZerosAfter(clist) >= 2
      BY <2>1 DEF DrainRead, Goto
    <2>3. zeros \in 0..1
      BY DEF Inv, TypeOK
    <2> QED
      BY <2>2, <2>3 DEF ZerosAfter, Inv, ZerosSeen
  <1> QED
    BY <1>1, Invariance, PTL DEF Spec, DrainedTwice

-----------------------------------------------------------------------------
(* report.md implements the Journal: a send is work, a page that is written  *)
(* or torn is a publication, the final page closes, all else is hidden.      *)

LEMMA JournalStart == Init => Reports!JournalInit
  BY NoReportPage DEF Init, Reports!JournalInit

LEMMA JournalStep == Inv /\ [Next]_vars => [Reports!JournalNext]_(Reports!journalVars)
  <1> SUFFICES ASSUME Inv, [Next]_vars
               PROVE  Reports!JournalNext \/ UNCHANGED Reports!journalVars
    OBVIOUS
  <1> USE DEF Inv
  <1>1. ASSUME UNCHANGED <<sent, md>>
        PROVE  UNCHANGED Reports!journalVars
    BY <1>1 DEF Reports!journalVars
  <1>2. CASE \/ Collect \/ DepthsMove \/ GoSilent \/ Interrupt \/ DrainCapPasses \/ Exited
             \/ UNCHANGED vars
    BY <1>1, <1>2, Elsewhere DEF fileState, fileVars
  <1>3. CASE LoadEnds \/ Join \/ DrainAsk \/ DrainRead \/ DrainReadFails \/ DrainWakes \/ DrainGivesUp
    BY <1>1, <1>3, OnItsWay DEF fileVars
  <1>4. CASE SnapTick \/ SnapStats \/ SnapQuit \/ FinalBuild
    BY <1>1, <1>4 DEF SnapTick, SnapStats, SnapQuit, FinalBuild, world, fileVars
  <1>5. CASE Send
    <2>1. md.tag # "final" /\ sent' = sent + 1 /\ md' = md
      BY <1>5 DEF Send, Loading, OneWriter, fileVars
    <2>2. Reports!Work
      BY <2>1 DEF Reports!Work
    <2> QED
      BY <2>2 DEF Reports!JournalNext
  <1>6. ASSUME sent' = sent, md.tag # "final", md'.tag # "final",
               md'.total \in Nat, md.total <= md'.total, md'.total <= sent
        PROVE  Reports!JournalNext
    <2>1. md'.total \in md.total..sent
      BY <1>6, Numbers
    <2>2. Reports!Publish
      BY <1>6, <2>1 DEF Reports!Publish
    <2> QED
      BY <2>2 DEF Reports!JournalNext
  <1>7. CASE SnapWrite
    <2>1. /\ sent' = sent /\ snap.tag = "snapshot" /\ md.tag # "final"
          /\ md.total <= snap.total /\ snap.total <= sent
      BY <1>7, Numbers DEF SnapWrite, SnapGoto, OneWriter, world
    <2>2. md' \in {md, snap, Torn(snap)}
      BY <1>7 DEF SnapWrite, WriteMd, WriteJson, MdBreaks, JsonBreaks
    <2>3. Torn(snap).tag = "torn" /\ Torn(snap).total = snap.total
      BY Numbers, TornPage
    <2> QED
      BY <1>1, <1>6, <2>1, <2>2, <2>3, Numbers
  <1>8. CASE FinalWrite
    <2>1. sent' = sent /\ final.tag = "final" /\ final.total = sent /\ ~Watched
      BY <1>8 DEF FinalWrite, Goto, OneWriter, world, Watched
    <2>2. Torn(final).tag = "torn" /\ Torn(final).total = sent
      BY <2>1, Numbers, TornPage
    <2>3. CASE md' = md
      BY <1>1, <2>1, <2>3
    <2>4. CASE md' # md
      <3>1. md' \in {final, Torn(final)} /\ md.tag # "final"
        BY <1>8, <2>4 DEF FinalWrite, WriteMd, WriteJson, MdBreaks, JsonBreaks, Goto, OneWriter
      <3>2. CASE md' = final
        <4>1. Reports!Close
          BY <2>1, <3>1, <3>2 DEF Reports!Close
        <4> QED
          BY <4>1 DEF Reports!JournalNext
      <3>3. CASE md' = Torn(final)
        <4>1. md.total <= sent
          BY Numbers DEF CountsAddUp
        <4> QED
          BY <1>6, <2>1, <2>2, <3>1, <3>3, <4>1, Numbers
      <3> QED
        BY <3>1, <3>2, <3>3
    <2> QED
      BY <2>3, <2>4
  <1> QED
    BY <1>2, <1>3, <1>4, <1>5, <1>7, <1>8 DEF Next, Main, Snapshots

(* Snapshots never go back; the final report tells of everything and stays.  *)
THEOREM Refinement == Spec => ImplementsJournal
  <1> QED
    BY Invariance, JournalStart, JournalStep, PTL DEF Spec, ImplementsJournal, Reports!JournalSpec
-----------------------------------------------------------------------------
(***************************************************************************)
(* What the verdict is worth (PassMeansEmpty is violated): as long as the  *)
(* collectors are not stopped a node that answers is reported as it is,    *)
(* and a run without any cometRPC says PASS of a mempool nobody looked at. *)
(***************************************************************************)

LEMMA DoneForGood == [Next]_vars /\ ~obsDone' => ~obsDone
  BY Zenon DEF Next, Main, Snapshots, Collect, DepthsMove, GoSilent, Interrupt, DrainCapPasses, Exited,
     Send, LoadEnds, Join, DrainAsk, DrainRead, DrainReadFails, DrainWakes, DrainGivesUp, FinalBuild,
     FinalWrite, SnapTick, SnapStats, SnapWrite, SnapQuit, LeaveDrain, StopObs, vars

LEMMA OnlyCollectSamples == [Next]_vars => Collect \/ UNCHANGED memVars
  BY DEF Next, Main, Snapshots, DepthsMove, GoSilent, Interrupt, DrainCapPasses, Exited,
     Send, LoadEnds, Join, DrainAsk, DrainRead, DrainReadFails, DrainWakes, DrainGivesUp, FinalBuild,
     FinalWrite, SnapTick, SnapStats, SnapWrite, SnapQuit, world, vars

(* The collector's result is the last answer of the node to each call. *)
AsAnswered ==
  mem.samples # <<>> => known.last.clist = mem.finalCList /\ known.last.txpool = mem.finalEVM

Answered ==
  (~NodeFails /\ ~obsDone) =>
    /\ memPc \in {"txpool", "record"} => gotCList # NotOK
    /\ memPc = "record" => gotEVM # NotOK
    /\ AsAnswered

LEMMA AnsweredNext == Inv /\ Answered /\ [Next]_vars => Answered'
  <1> SUFFICES ASSUME Inv, Answered, [Next]_vars, ~NodeFails, ~obsDone'
               PROVE  /\ memPc' \in {"txpool", "record"} => gotCList' # NotOK
                      /\ memPc' = "record" => gotEVM' # NotOK
                      /\ AsAnswered'
    BY DEF Answered
  <1>1. /\ ~obsDone
        /\ memPc \in {"txpool", "record"} => gotCList # NotOK
        /\ memPc = "record" => gotEVM # NotOK
        /\ AsAnswered
    BY DoneForGood DEF Answered
  <1>2. clist # NotOK /\ txpool # NotOK
    BY MempoolAssumption DEF MempoolAssumption, Inv, TypeOK, MemTypeOK, NotOK
  <1>3. CASE UNCHANGED memVars
    BY <1>1, <1>3 DEF memVars, AsAnswered
  <1>4. CASE MemTick \/ MemQuit
    BY <1>1, <1>4 DEF MemTick, MemQuit, MemGoto, AsAnswered
  <1>5. CASE ReadCList
    BY <1>1, <1>2, <1>5 DEF ReadCList, MemGoto, CallFails, AsAnswered
  <1>6. CASE ReadTxpool
    BY <1>1, <1>2, <1>6 DEF ReadTxpool, MemGoto, CallFails, AsAnswered
  <1>7. CASE Record
    <2>1. memPc' = "select" /\ gotCList # NotOK /\ gotEVM # NotOK
      BY <1>1, <1>7 DEF Record, MemGoto
    <2>2. /\ mem'.finalCList = gotCList /\ mem'.finalEVM = gotEVM
          /\ known'.last.clist = gotCList /\ known'.last.txpool = gotEVM
      BY <1>7, <2>1 DEF Record, Depth, FinalEVM, LastKnown
    <2> QED
      BY <2>1, <2>2 DEF AsAnswered
  <1> QED
    BY <1>3, <1>4, <1>5, <1>6, <1>7, OnlyCollectSamples DEF Collect, MemCollector

(* Before the collectors are stopped, of a node that does not fail, the      *)
(* result is its last answer to either call, however the calls, the load and *)
(* the drain interleave: the sample the stop cancels is what it takes for a  *)
(* PASS that is not true.                                                    *)
THEOREM TrueUntilStopped == Spec => [](~NodeFails /\ ~obsDone => AsAnswered)
  <1>1. Init => Answered
    BY DEF Init, MemInit, Answered, AsAnswered
  <1>2. Answered => (~NodeFails /\ ~obsDone => AsAnswered)
    BY DEF Answered
  <1> QED
    BY <1>1, <1>2, AnsweredNext, Invariance, PTL DEF Spec

(* Without a cometRPC nothing is ever sampled. *)
Blind ==
  ~HasComet =>
    /\ mem.finalCList = 0 /\ mem.evmQueryOK = FALSE
    /\ known.last = [clist |-> NotOK, txpool |-> NotOK]
    /\ final.tag = "final" =>
         final.verdict = (IF Continuous THEN "LIVE" ELSE "PASS") /\ final.basis = known.last

LEMMA BlindNext == Inv /\ Blind /\ [Next]_vars => Blind'
  <1> SUFFICES ASSUME Inv, Blind, [Next]_vars, ~HasComet'
               PROVE  /\ mem'.finalCList = 0 /\ mem'.evmQueryOK = FALSE
                      /\ known'.last = [clist |-> NotOK, txpool |-> NotOK]
                      /\ final'.tag = "final" =>
                           /\ final'.verdict = (IF Continuous' THEN "LIVE" ELSE "PASS")
                           /\ final'.basis = known'.last
    BY DEF Blind
  <1>1. mode' = mode
    BY DEF Next, Main, Snapshots, Collect, DepthsMove, GoSilent, Interrupt, DrainCapPasses, Exited,
       Send, LoadEnds, Join, DrainAsk, DrainRead, DrainReadFails, DrainWakes, DrainGivesUp, FinalBuild,
       FinalWrite, SnapTick, SnapStats, SnapWrite, SnapQuit, world, vars
  <1>2. ~HasComet /\ Continuous' = Continuous
    BY <1>1 DEF HasComet, Continuous
  <1>3. UNCHANGED <<mem, known>>
    BY <1>2, OnlyCollectSamples DEF Collect, memVars
  <1>4. CASE final' = final
    BY <1>2, <1>3, <1>4 DEF Blind
  <1>5. CASE FinalBuild
    <2>1. final'.verdict = MempoolVerdict(Continuous, mem, Window) /\ final'.basis = known.last
      BY <1>5, FinalPage
    <2>2. Drained(mem)
      BY <1>2 DEF Blind, Drained
    <2>3. MempoolVerdict(Continuous, mem, Window) = IF Continuous THEN "LIVE" ELSE "PASS"
      BY <2>2 DEF MempoolVerdict
    <2> QED
      BY <1>2, <1>3, <2>1, <2>3 DEF Blind
  <1>6. final' = final \/ FinalBuild
    BY DEF Next, Main, Snapshots, Collect, DepthsMove, GoSilent, Interrupt, DrainCapPasses, Exited,
       Send, LoadEnds, Join, DrainAsk, DrainRead, DrainReadFails, DrainWakes, DrainGivesUp,
       FinalWrite, SnapTick, SnapStats, SnapWrite, SnapQuit, vars
  <1> QED
    BY <1>4, <1>5, <1>6

(* The final report of a one-shot run without any cometRPC says PASS, of     *)
(* depths the node was never asked for (harness.go:144).                     *)
THEOREM BlindSaysPass ==
  Spec => [](mode = "oneShotBlind" /\ final.tag = "final" =>
               final.verdict = "PASS" /\ final.basis = [clist |-> NotOK, txpool |-> NotOK])
  <1>1. Init => Blind
    BY NoReportPage DEF Init, MemInit, Blind
  <1>2. Blind => (mode = "oneShotBlind" /\ final.tag = "final" =>
                    final.verdict = "PASS" /\ final.basis = [clist |-> NotOK, txpool |-> NotOK])
    BY DEF Blind, HasComet, Continuous
  <1> QED
    BY <1>1, <1>2, BlindNext, Invariance, PTL DEF Spec
=============================================================================
