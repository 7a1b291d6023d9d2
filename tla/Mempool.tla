------------------------------ MODULE Mempool -------------------------------
(***************************************************************************)
(* The mempool collector (collector/mempool.go) and the node it samples.   *)
(* A sample is two calls, one after the other, and then one critical       *)
(* section that records them; the node's depths move in between, and the   *)
(* end of the collectors' context breaks the call it falls into.           *)
(*                                                                         *)
(* The depths are EXTERNAL.  pending + queued is one number.               *)
(***************************************************************************)
EXTENDS Report

CONSTANTS
  MaxDepth,      \* bound on both depths
  RingSize,      \* maxMempoolSamples
  Window,        \* samples StillDraining looks back over, the last included
  NodeFails,     \* TRUE: a call to the node may fail at any time
  Hangs          \* TRUE: the node may stop to answer without closing

ASSUME MempoolAssumption ==
  /\ MaxDepth \in Nat /\ RingSize \in Nat \ {0} /\ Window \in 1..RingSize
  /\ NodeFails \in BOOLEAN /\ Hangs \in BOOLEAN

VARIABLES
  clist,         \* the node's num_unconfirmed_txs
  txpool,        \* the node's txpool_status, pending + queued
  silent,        \* the node keeps its connections and answers nothing any more
  obsDone,       \* obsCtx is done
  memPc,         \* "select", "clist", "txpool", "record" or "done"
  gotCList,      \* the sample's CList depth, NotOK after a failed call
  gotEVM,        \* its txpool depth, NotOK after a failed call
  mem,           \* the MempoolResult
  known          \* history: the last depths the node answered, NotOK before the
                 \* first, and the highest ones, as of the last sample

depthVars == <<clist, txpool, silent>>
memVars == <<memPc, gotCList, gotEVM, mem, known>>

NotOK == -1

Higher(m, n) == IF n > m THEN n ELSE m

MemInit ==
  /\ clist \in 0..MaxDepth /\ txpool \in 0..MaxDepth
  /\ silent = FALSE /\ obsDone = FALSE
  /\ memPc = "select" /\ gotCList = NotOK /\ gotEVM = NotOK
  /\ mem = [samples |-> <<>>, peakCList |-> 0, peakEVM |-> 0, finalCList |-> 0,
            finalEVM |-> 0, evmQueryOK |-> FALSE]
  /\ known = [last |-> [clist |-> NotOK, txpool |-> NotOK], topCList |-> 0, topEVM |-> 0]

(* No call has a timeout of its own: it returns with the node's answer, with  *)
(* an error, or when its context is done, and not otherwise.                  *)
CallFails(ctxDone) == ctxDone \/ (NodeFails /\ ~silent)

MemGoto(from, to) == memPc = from /\ memPc' = to

MemTick == MemGoto("select", "clist") /\ UNCHANGED <<gotCList, gotEVM, mem, known>>

MemQuit ==
  /\ obsDone
  /\ MemGoto("select", "done")
  /\ UNCHANGED <<gotCList, gotEVM, mem, known>>

(* clist, _ := NumUnconfirmedTxs(...) *)
ReadCList ==
  /\ MemGoto("clist", "txpool")
  /\ \/ ~silent /\ gotCList' = clist
     \/ CallFails(obsDone) /\ gotCList' = NotOK
  /\ UNCHANGED <<gotEVM, mem, known>>

ReadTxpool ==
  /\ MemGoto("txpool", "record")
  /\ \/ ~silent /\ gotEVM' = txpool
     \/ CallFails(obsDone) /\ gotEVM' = NotOK
  /\ UNCHANGED <<gotCList, mem, known>>

(* The number a failed call returns beside its error, which is dropped for   *)
(* the CList and kept as ok = false for the txpool.                          *)
Depth(got) == IF got = NotOK THEN 0 ELSE got

(* Samples that are only ever appended. *)
MutRing(s) == s

(* Keep the most recent RingSize samples. *)
Ring(s) == IF Len(s) > RingSize THEN SubSeq(s, Len(s) - RingSize + 1, Len(s)) ELSE s

(* The peak compared with the last depth instead of the peak. *)
MutPeakCList == Higher(mem.finalCList, Depth(gotCList))

PeakCList == Higher(mem.peakCList, Depth(gotCList))

(* The txpool depth recorded whether or not the query succeeded. *)
MutFinalEVM == Depth(gotEVM)

FinalEVM == IF gotEVM = NotOK THEN mem.finalEVM ELSE gotEVM

LastKnown(got, before) == IF got = NotOK THEN before ELSE got

Record ==
  /\ MemGoto("record", "select")
  /\ mem' = [samples    |-> Ring(Append(mem.samples, Depth(gotCList))),
             peakCList  |-> PeakCList,
             peakEVM    |-> Higher(mem.peakEVM, Depth(gotEVM)),
             finalCList |-> Depth(gotCList),
             finalEVM   |-> FinalEVM,
             evmQueryOK |-> mem.evmQueryOK \/ gotEVM # NotOK]
  /\ known' = [last     |-> [clist  |-> LastKnown(gotCList, known.last.clist),
                            txpool |-> LastKnown(gotEVM, known.last.txpool)],
               topCList |-> Higher(known.topCList, gotCList),
               topEVM   |-> Higher(known.topEVM, gotEVM)]
  /\ gotCList' = NotOK /\ gotEVM' = NotOK

MemCollector == MemTick \/ MemQuit \/ ReadCList \/ ReadTxpool \/ Record

MemTypeOK ==
  /\ clist \in 0..MaxDepth /\ txpool \in 0..MaxDepth
  /\ silent \in BOOLEAN /\ obsDone \in BOOLEAN
  /\ memPc \in {"select", "clist", "txpool", "record", "done"}
  /\ gotCList \in NotOK..MaxDepth /\ gotEVM \in NotOK..MaxDepth
  /\ mem \in [samples : Seq(0..MaxDepth), peakCList : 0..MaxDepth, peakEVM : 0..MaxDepth,
              finalCList : 0..MaxDepth, finalEVM : 0..MaxDepth, evmQueryOK : BOOLEAN]
  /\ Len(mem.samples) <= RingSize
  /\ known \in [last : [clist : NotOK..MaxDepth, txpool : NotOK..MaxDepth],
                topCList : 0..MaxDepth, topEVM : 0..MaxDepth]

(* "Peak CList" and "Peak EVM" are the highest depths the node ever          *)
(* answered, also when the ring has long dropped the sample and whatever     *)
(* failed in between; what the ring keeps ends with the final depth.         *)
PeakIsHighest ==
  /\ mem.peakCList = known.topCList /\ mem.peakEVM = known.topEVM
  /\ mem.samples # <<>> => mem.samples[Len(mem.samples)] = mem.finalCList

(* What the result says is what the node said last: a depth that is not 0 is *)
(* its last answer, and evmQueryOK tells whether the other one is.           *)
Measured ==
  /\ mem.finalCList > 0 => known.last.clist = mem.finalCList
  /\ known.last.txpool = IF mem.evmQueryOK THEN mem.finalEVM ELSE NotOK
=============================================================================
