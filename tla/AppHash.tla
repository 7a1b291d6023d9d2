------------------------------ MODULE AppHash -------------------------------
(***************************************************************************)
(* The app-hash collector (collector/apphash.go) against the nodes it      *)
(* polls.  A sweep asks every node for its height, runs the stall detector *)
(* on the lowest answer, and reads the blocks up to it height by height,   *)
(* one node at a time: nodes commit blocks, become unreachable and come    *)
(* back between any two of these calls.                                    *)
(*                                                                         *)
(* The nodes are EXTERNAL: a height only grows, the hash a node commits at *)
(* a height never changes, and a call may fail.  The nodes of one loop are *)
(* asked in any order; a hash map from node to hash is the set of nodes    *)
(* that answered, since what they answer is fixed.                         *)
(***************************************************************************)
EXTENDS Report, FiniteSets

CONSTANTS
  Node,        \* the nodes with a cometRPC
  Hash,        \* app hashes
  MaxHeight,   \* bound: no node commits a block above
  Flaps,       \* TRUE: a call to a node may fail at any time
  Hangs        \* TRUE: a node may stop to answer without closing its connections

ASSUME AppHashAssumption ==
  /\ MaxHeight \in Nat \ {0}
  /\ Flaps \in BOOLEAN /\ Hangs \in BOOLEAN

VARIABLES
  height,          \* height[n]: n's latest block
  appHash,         \* appHash[n][h]: what n commits at h, visible once height[n] >= h
  healthy,         \* throughout this run every node commits within each stallThreshold
                   \* and the height calls of a sweep take no time beside it
  halted,          \* no node commits any more
  silent,          \* nodes that answer nothing any more
  stopped,         \* the collectors' context is done
  pc,              \* "select", "status", "check" or "done"
  todo,            \* nodes this loop has not asked yet
  common,          \* lowest height answered in this sweep, -1 for none
  hashes,          \* nodes whose hash at lastChecked + 1 was read
  lastChecked,
  lastHeight,
  overdue,         \* more than stallThreshold since lastProgressAt
  stallNoted,
  heightsChecked,
  mismatches,      \* heights of res.Mismatches, in order
  stallNotes,      \* heights of res.StallNotes
  readers,         \* history: readers[h]: nodes read at h
  moved            \* history: nodes that committed since lastProgressAt

nodeVars == <<height, appHash, healthy, halted, silent>>
resVars == <<heightsChecked, mismatches, stallNotes>>
stallVars == <<lastHeight, overdue, stallNoted>>
histVars == <<readers, moved>>
sweepVars == <<pc, todo, common, hashes, lastChecked>>
foundVars == <<stallVars, resVars, histVars>>
vars == <<nodeVars, stopped, sweepVars, foundVars>>

Height == 1..MaxHeight

Init ==
  /\ height = [n \in Node |-> 0]
  /\ appHash \in [Node -> [Height -> Hash]]
  /\ healthy \in BOOLEAN
  /\ halted = FALSE /\ silent = {} /\ stopped = FALSE
  /\ pc = "select" /\ todo = {} /\ common = -1 /\ hashes = {}
  /\ lastChecked = 0
  /\ lastHeight = 0 /\ overdue = FALSE /\ stallNoted = FALSE
  /\ heightsChecked = 0 /\ mismatches = <<>> /\ stallNotes = {}
  /\ readers = [h \in Height |-> {}]
  /\ moved = {}

-----------------------------------------------------------------------------
(* The select of Run takes a tick, even when the context is already done. *)
Tick ==
  /\ pc = "select"
  /\ pc' = "status"
  /\ todo' = Node
  /\ common' = -1
  /\ UNCHANGED <<nodeVars, stopped, hashes, lastChecked, foundVars>>

Quit ==
  /\ pc = "select" /\ stopped
  /\ pc' = "done"
  /\ UNCHANGED <<nodeVars, stopped, todo, common, hashes, lastChecked, foundVars>>

Asks(n, at) == pc = at /\ n \in todo /\ todo' = todo \ {n}

Answers(n) == n \notin silent

(* Calls made without the context of Run. *)
MutCallFails(n) == Flaps /\ Answers(n)

(* A call has no timeout of its own: a silent node holds it until the context *)
(* is done.                                                                   *)
CallFails(n) == stopped \/ (Flaps /\ Answers(n))

(* A sweep that takes the highest answer. *)
MutLowest(h) == IF h > common THEN h ELSE common

Lowest(h) == IF common = -1 \/ h < common THEN h ELSE common

StatusReads(n) ==
  /\ Answers(n)
  /\ Asks(n, "status")
  /\ common' = Lowest(height[n])
  /\ UNCHANGED <<nodeVars, stopped, pc, hashes, lastChecked, foundVars>>

StatusFails(n) ==
  /\ CallFails(n)
  /\ Asks(n, "status")
  /\ UNCHANGED <<nodeVars, stopped, pc, common, hashes, lastChecked, foundVars>>

(* No node answered, or one has no block yet. *)
NothingToCheck ==
  /\ pc = "status" /\ todo = {} /\ common <= 0
  /\ pc' = "select"
  /\ UNCHANGED <<nodeVars, stopped, todo, common, hashes, lastChecked, foundVars>>

(* One height too many. *)
MutPastCommon(checked) == checked <= common

BelowCommon(checked) == checked < common

(* The loop over heights: the next one up to common, or back to the select. *)
NextHeight(checked) ==
  /\ hashes' = {}
  /\ \/ BelowCommon(checked) /\ pc' = "check" /\ todo' = Node
     \/ ~BelowCommon(checked) /\ pc' = "select" /\ todo' = {}

(* Progress that leaves the time of the last progress. *)
MutClockRestarts == UNCHANGED overdue

(* lastProgressAt = now *)
ClockRestarts == overdue' = FALSE

(* detectStall sees another height than last time. *)
Progress ==
  /\ common # lastHeight
  /\ lastHeight' = common
  /\ ClockRestarts
  /\ stallNoted' = FALSE
  /\ moved' = {}
  /\ UNCHANGED stallNotes

NoteStall ==
  /\ common = lastHeight /\ ~stallNoted /\ overdue
  /\ stallNotes' = stallNotes \cup {common}
  /\ stallNoted' = TRUE
  /\ UNCHANGED <<lastHeight, overdue, moved>>

StillFlat ==
  /\ common = lastHeight /\ (stallNoted \/ ~overdue)
  /\ UNCHANGED <<stallVars, stallNotes, moved>>

(* Its lastProgressAt.IsZero branch is dead: lastHeight starts at 0 and      *)
(* common is positive, so the first call takes Progress.                     *)
DetectStall ==
  /\ pc = "status" /\ todo = {} /\ common > 0
  /\ Progress \/ NoteStall \/ StillFlat
  /\ NextHeight(lastChecked)
  /\ UNCHANGED <<nodeVars, stopped, common, lastChecked, heightsChecked, mismatches, readers>>

-----------------------------------------------------------------------------
(* checkHeight at lastChecked + 1. *)

BlockReads(n) ==
  /\ Answers(n) /\ lastChecked + 1 <= height[n]
  /\ Asks(n, "check")
  /\ hashes' = hashes \cup {n}
  /\ UNCHANGED <<nodeVars, stopped, pc, common, lastChecked, foundVars>>

(* No answer, an empty hash, or a block the node does not have. *)
BlockFails(n) ==
  /\ CallFails(n) \/ (Answers(n) /\ lastChecked + 1 > height[n])
  /\ Asks(n, "check")
  /\ UNCHANGED <<nodeVars, stopped, pc, common, hashes, lastChecked, foundVars>>

(* Two of the hashes differ. *)
Disagree(ns, h) == \E n, m \in ns : appHash[n][h] # appHash[m][h]

(* A height nobody answered for counted as checked. *)
MutCounted(ns) == 1

Counted(ns) == IF ns = {} THEN 0 ELSE 1

(* The mismatch assigned where it is to be appended. *)
MutListed(h) == IF Disagree(hashes, h) THEN <<h>> ELSE mismatches

Listed(h) == IF Disagree(hashes, h) THEN Append(mismatches, h) ELSE mismatches

(* The whole sweep marked as checked with its first height. *)
MutCheckedUpTo == common

CheckedUpTo == lastChecked + 1

(* The height is behind lastChecked whoever answered, even nobody: it is not *)
(* looked at again.                                                          *)
Conclude ==
  /\ pc = "check" /\ todo = {}
  /\ heightsChecked' = heightsChecked + Counted(hashes)
  /\ mismatches' = Listed(lastChecked + 1)
  /\ readers' = [readers EXCEPT ![lastChecked + 1] = hashes]
  /\ lastChecked' = CheckedUpTo
  /\ NextHeight(CheckedUpTo)
  /\ UNCHANGED <<nodeVars, stopped, common, stallVars, stallNotes, moved>>

-----------------------------------------------------------------------------
(* The nodes, the clock and the harness.  Bound: from stopObs on only the    *)
(* collector moves, whose calls may fail then whatever the nodes do.         *)

Watched == ~stopped

CommitBlock(n) ==
  /\ Watched /\ ~halted /\ height[n] < MaxHeight
  /\ height' = [height EXCEPT ![n] = @ + 1]
  /\ moved' = moved \cup {n}
  /\ UNCHANGED <<appHash, healthy, halted, silent, stopped, sweepVars, stallVars, resVars, readers>>

Halt ==
  /\ Watched /\ ~halted /\ ~healthy
  /\ halted' = TRUE
  /\ UNCHANGED <<height, appHash, healthy, silent, stopped, sweepVars, foundVars>>

(* One silent node is enough to hold up a sweep. *)
GoSilent(n) ==
  /\ Watched /\ Hangs /\ silent = {}
  /\ silent' = {n}
  /\ UNCHANGED <<height, appHash, healthy, halted, stopped, sweepVars, foundVars>>

(* More than stallThreshold has passed since lastProgressAt. *)
TimePasses ==
  /\ Watched /\ lastHeight > 0 /\ ~overdue
  /\ healthy => moved = Node /\ pc # "status"
  /\ overdue' = TRUE
  /\ UNCHANGED <<nodeVars, stopped, sweepVars, lastHeight, stallNoted, resVars, histVars>>

(* stopObs *)
Stop ==
  /\ ~stopped
  /\ stopped' = TRUE
  /\ UNCHANGED <<nodeVars, sweepVars, foundVars>>

Done == pc = "done" /\ UNCHANGED vars

Collector ==
  \/ Tick \/ Quit \/ NothingToCheck \/ DetectStall \/ Conclude
  \/ \E n \in Node : StatusReads(n) \/ StatusFails(n) \/ BlockReads(n) \/ BlockFails(n)

Next ==
  \/ Collector
  \/ \E n \in Node : CommitBlock(n) \/ GoSilent(n)
  \/ Halt \/ TimePasses \/ Stop \/ Done

Spec == Init /\ [][Next]_vars

(* The goroutine is scheduled, the clock runs, and a node that is asked for  *)
(* ever answers now and then, unless it has fallen silent.                   *)
FairSpec ==
  /\ Spec
  /\ WF_vars(Collector) /\ WF_vars(TimePasses) /\ SF_vars(Quit)
  /\ \A n \in Node : SF_vars(StatusReads(n)) /\ SF_vars(BlockReads(n))

-----------------------------------------------------------------------------
(* Every variable has its type. *)
TypeOK ==
  /\ height \in [Node -> 0..MaxHeight]
  /\ appHash \in [Node -> [Height -> Hash]]
  /\ healthy \in BOOLEAN /\ halted \in BOOLEAN
  /\ silent \in SUBSET Node /\ stopped \in BOOLEAN
  /\ pc \in {"select", "status", "check", "done"}
  /\ todo \in SUBSET Node /\ hashes \in SUBSET Node
  /\ common \in -1..MaxHeight
  /\ lastChecked \in 0..MaxHeight
  /\ lastHeight \in 0..MaxHeight /\ overdue \in BOOLEAN /\ stallNoted \in BOOLEAN
  /\ heightsChecked \in 0..MaxHeight
  /\ mismatches \in Seq(Height) /\ stallNotes \in SUBSET Height
  /\ readers \in [Height -> SUBSET Node]
  /\ moved \in SUBSET Node

(* Mismatches lists exactly the heights behind lastChecked at which two      *)
(* nodes that both answered disagree: a divergence is missed only when a     *)
(* read of it failed, and none is reported that the nodes did not commit.    *)
DivergenceReported ==
  {mismatches[i] : i \in DOMAIN mismatches} = {h \in 1..lastChecked : Disagree(readers[h], h)}

(* Heights are listed once and in order, "Heights checked" counts those some *)
(* node answered for, and only committed blocks are looked at.               *)
HeightsInOrder ==
  /\ \A i, j \in DOMAIN mismatches : i < j => mismatches[i] < mismatches[j]
  /\ heightsChecked = Cardinality({h \in 1..lastChecked : readers[h] # {}})
  /\ lastChecked = 0 \/ \E n \in Node : lastChecked <= height[n]

(* A sweep stays at or below a committed height, and reads at most that far. *)
Sweep ==
  /\ common = -1 \/ \E n \in Node : common <= height[n]
  /\ pc = "check" => lastChecked < common /\ \A n \in hashes : lastChecked < height[n]

(* The invariant that every step preserves: what is reported of the heights  *)
(* behind lastChecked, and why the next one may be looked at.                *)
Inv == TypeOK /\ Sweep /\ DivergenceReported /\ HeightsInOrder

(* Why a healthy chain is not flagged, while every call is answered: a node  *)
(* that has committed since the last progress is above lastHeight, the sweep *)
(* is at or below whom it has asked, and once the time is over, all have     *)
(* committed before the sweep that will look at the clock asks the first.    *)
Clock ==
  (~stopped /\ ~Flaps) =>
    /\ \A n \in Node : lastHeight <= height[n] /\ (n \in moved => lastHeight < height[n])
    /\ pc = "status" => \A n \in Node \ todo : common # -1 /\ common <= height[n]
    /\ (healthy /\ overdue) => moved = Node /\ (pc = "status" => common = -1 \/ lastHeight < common)

(* The same for the comparison: as long as every call is answered, every node *)
(* is read at every height, since a sweep stays at or below all it has asked, *)
(* and no node that has a height loses it before it is read.                  *)
EveryNodeCompared ==
  (~stopped /\ ~Flaps) =>
    /\ \A h \in 1..lastChecked : readers[h] = Node
    /\ pc = "check" => hashes = Node \ todo /\ \A n \in Node : common <= height[n]

(* The price of it: a sweep goes no further than the slowest node, whose halt *)
(* is the only one that is flagged, and a node at height 0 holds up all.      *)
HeldBySlowest ==
  (~stopped /\ ~Flaps) =>
    \A n \in Node : lastChecked <= height[n] /\ \A h \in stallNotes : h <= height[n]

(* "%d nodes stayed consistent across %d heights" is what the report says    *)
(* when nothing was flagged.                                                 *)
ConsistentMeansCompared ==
  AppHashVerdict(Len(mismatches), Cardinality(stallNotes), Cardinality(Node) >= 2)
    = "NO HALT OBSERVED" => heightsChecked = Cardinality({h \in Height : readers[h] = Node})

(* "Avoid false positives on slow-but-healthy block production": while every *)
(* node answers and commits within each threshold, whatever the nodes' lag   *)
(* and the order of their answers, no stall is noted.  (Once the context is  *)
(* done a sweep may be partial.)                                             *)
NoFalseStall == [][stallNotes' # stallNotes => stopped \/ Flaps \/ ~healthy]_vars

(* "Flags ... consensus stall": if the nodes halt, the lowest height among   *)
(* them is flagged, unless the run ends or a silent node holds up the sweep. *)
HaltIsNoted ==
  \A h \in Height :
    (halted /\ (\A n \in Node : height[n] >= h) /\ (\E n \in Node : height[n] = h))
      ~> (h \in stallNotes \/ stopped \/ silent # {})

(* "Polls each node's app_hash per height": as long as calls are answered, a *)
(* height every node has committed is some time read of every one of them,   *)
(* and is then among the mismatches or they agree (DivergenceReported),      *)
(* unless the run ends or a silent node holds up the sweep.  A node that     *)
(* cannot be reached at that moment is left out for good: with Flaps this    *)
(* does not hold, see ConsistentMeansCompared.                               *)
EveryHeightCompared ==
  \A h \in Height :
    (\A n \in Node : height[n] >= h) ~> (readers[h] = Node \/ stopped \/ silent # {})

(* stopObs ends the collector, wherever it is in a sweep and however many    *)
(* heights are left, also in the middle of a call to a silent node.          *)
CollectorQuits == stopped ~> pc = "done"

(* The sweep, one call at a time, implements the audit of whole heights. *)
Audits == INSTANCE Auditor
            WITH audited <- lastChecked, flagged <- {mismatches[i] : i \in DOMAIN mismatches}

ImplementsAuditor == Audits!AuditSpec
=============================================================================
