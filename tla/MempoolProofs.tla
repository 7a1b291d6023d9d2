--------------------------- MODULE MempoolProofs ---------------------------
(***************************************************************************)
(* What the mempool collector keeps true of its result, at every step of   *)
(* its own, for any depths, ring and window.                               *)
(***************************************************************************)
EXTENDS Mempool, TLAPS

MemInv == MemTypeOK /\ PeakIsHighest /\ Measured

(* Whatever the ring drops, it ends with the last sample and never exceeds   *)
(* its size.                                                                 *)
LEMMA RingTail ==
  ASSUME NEW s \in Seq(0..MaxDepth), s # <<>>
  PROVE  /\ Ring(s) \in Seq(0..MaxDepth)
         /\ Len(Ring(s)) \in 1..RingSize
         /\ Ring(s)[Len(Ring(s))] = s[Len(s)]
  <1> USE MempoolAssumption DEF MempoolAssumption
  <1>1. Len(s) \in Nat \ {0}
    OBVIOUS
  <1>2. CASE Len(s) > RingSize
    <2> DEFINE from == Len(s) - RingSize + 1
    <2>1. from \in 1..Len(s) /\ Len(s) - from + 1 = RingSize
      BY <1>1, <1>2
    <2>2. Ring(s) = SubSeq(s, from, Len(s))
      BY <1>2 DEF Ring
    <2>3. Ring(s) \in Seq(0..MaxDepth) /\ Len(Ring(s)) = RingSize
      BY <1>1, <2>1, <2>2
    <2>4. Ring(s)[RingSize] = s[from + RingSize - 1]
      BY <1>1, <2>1, <2>2
    <2> QED
      BY <1>1, <2>1, <2>3, <2>4
  <1>3. CASE ~(Len(s) > RingSize)
    BY <1>1, <1>3 DEF Ring
  <1> QED
    BY <1>2, <1>3

(* A sample, with the ring, the peaks and the final depths.                  *)
LEMMA RecordInv == MemInv /\ Record /\ UNCHANGED <<depthVars, obsDone>> => MemInv'
  <1> SUFFICES ASSUME MemInv, Record, UNCHANGED <<depthVars, obsDone>>
               PROVE  MemInv'
    OBVIOUS
  <1> USE MempoolAssumption DEF MempoolAssumption, NotOK
  <1>1. /\ gotCList \in -1..MaxDepth /\ gotEVM \in -1..MaxDepth
        /\ Depth(gotCList) \in 0..MaxDepth /\ Depth(gotEVM) \in 0..MaxDepth
    BY DEF MemInv, MemTypeOK, Depth
  <1>2. /\ mem.samples \in Seq(0..MaxDepth)
        /\ mem.peakCList \in 0..MaxDepth /\ mem.peakEVM \in 0..MaxDepth
        /\ mem.finalEVM \in 0..MaxDepth /\ mem.evmQueryOK \in BOOLEAN
    BY DEF MemInv, MemTypeOK
  <1>3. /\ known.last.clist \in -1..MaxDepth /\ known.last.txpool \in -1..MaxDepth
        /\ known.topCList \in 0..MaxDepth /\ known.topEVM \in 0..MaxDepth
    BY DEF MemInv, MemTypeOK
  <1>4. \A s : s = Append(mem.samples, Depth(gotCList)) =>
          s \in Seq(0..MaxDepth) /\ s # <<>> /\ s[Len(s)] = Depth(gotCList)
    BY <1>1, <1>2
  <1>5. /\ mem'.samples \in Seq(0..MaxDepth) /\ Len(mem'.samples) \in 1..RingSize
        /\ mem'.samples[Len(mem'.samples)] = Depth(gotCList)
    BY <1>4, RingTail DEF Record
  <1>6. /\ mem'.finalCList = Depth(gotCList)
        /\ mem'.finalEVM = IF gotEVM = -1 THEN mem.finalEVM ELSE gotEVM
        /\ mem'.evmQueryOK = (mem.evmQueryOK \/ gotEVM # -1)
        /\ mem'.peakCList = Higher(mem.peakCList, Depth(gotCList))
        /\ mem'.peakEVM = Higher(mem.peakEVM, Depth(gotEVM))
    BY DEF Record, FinalEVM, PeakCList
  <1>7. /\ known'.last.clist = LastKnown(gotCList, known.last.clist)
        /\ known'.last.txpool = LastKnown(gotEVM, known.last.txpool)
        /\ known'.topCList = Higher(known.topCList, gotCList)
        /\ known'.topEVM = Higher(known.topEVM, gotEVM)
    BY DEF Record
  <1>8. mem' \in [samples : Seq(0..MaxDepth), peakCList : 0..MaxDepth, peakEVM : 0..MaxDepth,
                  finalCList : 0..MaxDepth, finalEVM : 0..MaxDepth, evmQueryOK : BOOLEAN]
    <2>1. /\ Higher(mem.peakCList, Depth(gotCList)) \in 0..MaxDepth
          /\ Higher(mem.peakEVM, Depth(gotEVM)) \in 0..MaxDepth
          /\ FinalEVM \in 0..MaxDepth
      BY <1>1, <1>2 DEF Higher, FinalEVM
    <2>2. Ring(Append(mem.samples, Depth(gotCList))) \in Seq(0..MaxDepth)
      BY <1>4, RingTail
    <2> QED
      BY <1>1, <2>1, <2>2 DEF Record, PeakCList
  <1>9. known' \in [last : [clist : -1..MaxDepth, txpool : -1..MaxDepth],
                    topCList : 0..MaxDepth, topEVM : 0..MaxDepth]
    <2>1. /\ LastKnown(gotCList, known.last.clist) \in -1..MaxDepth
          /\ LastKnown(gotEVM, known.last.txpool) \in -1..MaxDepth
          /\ Higher(known.topCList, gotCList) \in 0..MaxDepth
          /\ Higher(known.topEVM, gotEVM) \in 0..MaxDepth
      BY <1>1, <1>3 DEF Higher, LastKnown
    <2> QED
      BY <2>1 DEF Record
  <1>10. MemTypeOK'
    BY <1>5, <1>8, <1>9 DEF MemInv, MemTypeOK, Record, MemGoto, depthVars
  <1>11. PeakIsHighest'
    BY <1>1, <1>2, <1>3, <1>5, <1>6, <1>7 DEF MemInv, PeakIsHighest, Higher, Depth
  <1>12. Measured'
    <2>1. mem'.finalCList > 0 => known'.last.clist = mem'.finalCList
      BY <1>1, <1>3, <1>6, <1>7 DEF Depth, LastKnown
    <2>2. CASE gotEVM = -1
      <3>1. mem'.evmQueryOK = mem.evmQueryOK /\ mem'.finalEVM = mem.finalEVM
        BY <1>2, <1>6, <2>2
      <3>2. known'.last.txpool = known.last.txpool
        BY <1>7, <2>2 DEF LastKnown
      <3> QED
        BY <2>1, <3>1, <3>2 DEF MemInv, Measured
    <2>3. CASE gotEVM # -1
      <3>1. mem'.evmQueryOK = TRUE /\ mem'.finalEVM = gotEVM
        BY <1>2, <1>6, <2>3
      <3>2. known'.last.txpool = gotEVM
        BY <1>7, <2>3 DEF LastKnown
      <3> QED
        BY <2>1, <3>1, <3>2 DEF Measured
    <2> QED
      BY <2>2, <2>3
  <1> QED
    BY <1>10, <1>11, <1>12 DEF MemInv

(* Every step of the collector.                                              *)
LEMMA CollectorInv == MemInv /\ MemCollector /\ UNCHANGED <<depthVars, obsDone>> => MemInv'
  <1> SUFFICES ASSUME MemInv, MemCollector, UNCHANGED <<depthVars, obsDone>>
               PROVE  MemInv'
    OBVIOUS
  <1> USE MempoolAssumption DEF MempoolAssumption, NotOK, MemInv, MemTypeOK, depthVars
  <1>1. CASE MemTick \/ MemQuit
    BY <1>1 DEF MemTick, MemQuit, MemGoto, PeakIsHighest, Measured
  <1>2. CASE ReadCList
    BY <1>2 DEF ReadCList, MemGoto, PeakIsHighest, Measured
  <1>3. CASE ReadTxpool
    BY <1>3 DEF ReadTxpool, MemGoto, PeakIsHighest, Measured
  <1>4. CASE Record
    BY <1>4, RecordInv
  <1> QED
    BY <1>1, <1>2, <1>3, <1>4 DEF MemCollector

LEMMA MemInitInv == MemInit => MemInv
  <1> SUFFICES ASSUME MemInit PROVE MemInv
    OBVIOUS
  <1> USE MempoolAssumption DEF MempoolAssumption, NotOK
  <1>1. <<>> \in Seq(0..MaxDepth) /\ Len(<<>>) = 0
    OBVIOUS
  <1>2. MemTypeOK
    <2>1. mem \in [samples : Seq(0..MaxDepth), peakCList : 0..MaxDepth, peakEVM : 0..MaxDepth,
                  finalCList : 0..MaxDepth, finalEVM : 0..MaxDepth, evmQueryOK : BOOLEAN]
      BY <1>1 DEF MemInit
    <2>2. known \in [last : [clist : -1..MaxDepth, txpool : -1..MaxDepth],
                    topCList : 0..MaxDepth, topEVM : 0..MaxDepth]
      BY DEF MemInit
    <2>3. Len(mem.samples) <= RingSize
      BY <1>1 DEF MemInit
    <2>4. /\ clist \in 0..MaxDepth /\ txpool \in 0..MaxDepth
          /\ memPc \in {"select", "clist", "txpool", "record", "done"}
          /\ gotCList \in -1..MaxDepth /\ gotEVM \in -1..MaxDepth
      BY DEF MemInit
    <2>5. silent \in BOOLEAN /\ obsDone \in BOOLEAN
      BY Zenon DEF MemInit
    <2> QED
      BY <2>1, <2>2, <2>3, <2>4, <2>5 DEF MemTypeOK
  <1>3. PeakIsHighest /\ Measured
    BY DEF MemInit, PeakIsHighest, Measured
  <1> QED
    BY <1>2, <1>3 DEF MemInv

(* The verdicts, and what each says of the result it is made of: PASS that   *)
(* the CList was empty and the txpool either unmeasured or empty, the        *)
(* verdicts against the node that one of them was not.                       *)
LEMMA VerdictSays ==
  ASSUME NEW continuous \in BOOLEAN, NEW r, NEW window, NEW v,
         v = MempoolVerdict(continuous, r, window)
  PROVE  /\ v \in {"LIVE", "PASS", "INCOMPLETE", "FAIL"}
         /\ v = "PASS" => Drained(r)
         /\ v \in {"INCOMPLETE", "FAIL"} => ~Drained(r)
  <1>1. CASE continuous
    BY <1>1 DEF MempoolVerdict
  <1>2. CASE ~continuous /\ Drained(r)
    BY <1>2 DEF MempoolVerdict
  <1>3. CASE ~continuous /\ ~Drained(r) /\ StillDraining(r, window)
    BY <1>3 DEF MempoolVerdict
  <1>4. CASE ~continuous /\ ~Drained(r) /\ ~StillDraining(r, window)
    BY <1>4 DEF MempoolVerdict
  <1> QED
    BY <1>1, <1>2, <1>3, <1>4
-----------------------------------------------------------------------------
(***************************************************************************)
(* What the ring may forget (mempool.go:109): the collector trims it after *)
(* every sample, and StillDraining looks back over less than it keeps.     *)
(***************************************************************************)

(* The ring keeps the most recent samples, in their order. *)
LEMMA RingKeepsTail ==
  ASSUME NEW S, NEW s \in Seq(S)
  PROVE  /\ Ring(s) \in Seq(S)
         /\ Len(Ring(s)) = IF Len(s) > RingSize THEN RingSize ELSE Len(s)
         /\ \A i \in 1..Len(Ring(s)) : Ring(s)[i] = s[Len(s) - Len(Ring(s)) + i]
  <1> USE MempoolAssumption DEF MempoolAssumption
  <1>1. Len(s) \in Nat
    OBVIOUS
  <1>2. CASE Len(s) > RingSize
    <2>1. PICK from : from = Len(s) - RingSize + 1
      OBVIOUS
    <2>2. from \in 1..Len(s) /\ Len(s) - from + 1 = RingSize
      BY <1>1, <1>2, <2>1
    <2>3. Ring(s) = SubSeq(s, from, Len(s))
      BY <1>2, <2>1 DEF Ring
    <2>4. Ring(s) \in Seq(S) /\ Len(Ring(s)) = RingSize
      BY <1>1, <2>2, <2>3
    <2>5. \A i \in 1..RingSize : Ring(s)[i] = s[from + i - 1]
      BY <1>1, <2>2, <2>3
    <2>6. \A i \in 1..RingSize : from + i - 1 = Len(s) - RingSize + i
      BY <1>1, <2>1
    <2> QED
      BY <1>2, <2>4, <2>5, <2>6
  <1>3. CASE ~(Len(s) > RingSize)
    <2>1. Ring(s) = s
      BY <1>3 DEF Ring
    <2>2. \A i \in 1..Len(s) : Len(s) - Len(s) + i = i
      BY <1>1
    <2> QED
      BY <1>3, <2>1, <2>2
  <1> QED
    BY <1>2, <1>3

(* Trimmed after every sample, the ring holds what it would hold if all the  *)
(* samples of the run were kept and trimmed once.                            *)
THEOREM RingOfAllSamples ==
  ASSUME NEW S, NEW s \in Seq(S), NEW d \in S
  PROVE  Ring(Append(Ring(s), d)) = Ring(Append(s, d))
  <1> USE MempoolAssumption DEF MempoolAssumption
  <1>1. PICK t : t = Append(s, d)
    OBVIOUS
  <1>2. PICK u : u = Append(Ring(s), d)
    OBVIOUS
  <1>3. /\ Ring(s) \in Seq(S) /\ Len(s) \in Nat /\ Len(Ring(s)) \in Nat
        /\ Len(Ring(s)) = IF Len(s) > RingSize THEN RingSize ELSE Len(s)
        /\ \A i \in 1..Len(Ring(s)) : Ring(s)[i] = s[Len(s) - Len(Ring(s)) + i]
    BY RingKeepsTail
  <1>4. /\ t \in Seq(S) /\ Len(t) = Len(s) + 1 /\ t[Len(t)] = d
        /\ \A i \in 1..Len(s) : t[i] = s[i]
    BY <1>1
  <1>5. /\ u \in Seq(S) /\ Len(u) = Len(Ring(s)) + 1 /\ u[Len(u)] = d
        /\ \A i \in 1..Len(Ring(s)) : u[i] = Ring(s)[i]
    BY <1>2, <1>3
  <1>lens. /\ Len(s) \in Nat /\ Len(Ring(s)) \in Nat /\ Len(Ring(s)) <= Len(s)
           /\ Len(t) = Len(s) + 1 /\ Len(u) = Len(Ring(s)) + 1
    BY <1>3, <1>4, <1>5
  <1>6. \A i \in 1..Len(u) : u[i] = t[Len(t) - Len(u) + i]
    <2> TAKE i \in 1..Len(u)
    <2>1. CASE i = Len(u)
      <3>1. Len(t) - Len(u) + i = Len(t)
        BY <1>lens, <2>1
      <3> QED
        BY <1>4, <1>5, <2>1, <3>1
    <2>2. CASE i # Len(u)
      <3>1. i \in 1..Len(Ring(s)) /\ Len(t) - Len(u) + i = Len(s) - Len(Ring(s)) + i
        BY <1>lens, <2>2
      <3>2. Len(s) - Len(Ring(s)) + i \in 1..Len(s)
        BY <1>lens, <3>1
      <3> QED
        BY <1>3, <1>4, <1>5, <3>1, <3>2
    <2> QED
      BY <2>1, <2>2
  <1>7. /\ Ring(t) \in Seq(S) /\ Ring(u) \in Seq(S)
        /\ Len(Ring(t)) = IF Len(t) > RingSize THEN RingSize ELSE Len(t)
        /\ Len(Ring(u)) = IF Len(u) > RingSize THEN RingSize ELSE Len(u)
        /\ \A i \in 1..Len(Ring(t)) : Ring(t)[i] = t[Len(t) - Len(Ring(t)) + i]
        /\ \A i \in 1..Len(Ring(u)) : Ring(u)[i] = u[Len(u) - Len(Ring(u)) + i]
    BY <1>4, <1>5, RingKeepsTail
  <1>8. Len(Ring(u)) = Len(Ring(t)) /\ Len(Ring(t)) \in Nat /\ Len(Ring(u)) <= Len(u)
    BY <1>3, <1>lens, <1>7
  <1>9. \A i \in 1..Len(Ring(t)) : Ring(u)[i] = Ring(t)[i]
    <2> TAKE i \in 1..Len(Ring(t))
    <2>1. PICK j : j = Len(u) - Len(Ring(u)) + i
      OBVIOUS
    <2>2. j \in 1..Len(u) /\ Len(t) - Len(u) + j = Len(t) - Len(Ring(t)) + i
      BY <1>lens, <1>8, <2>1
    <2>3. u[j] = t[Len(t) - Len(Ring(t)) + i]
      BY <1>6, <2>2
    <2> QED
      BY <1>7, <1>8, <2>1, <2>3
  <1>10. Ring(u) = Ring(t)
    BY <1>7, <1>8, <1>9
  <1> QED
    BY <1>1, <1>2, <1>10

(* Whether the mempool was still draining is decided by the ring as it would *)
(* be by all the samples of the run: what was dropped is out of the window.  *)
THEOREM RingKeepsTrend ==
  ASSUME NEW s \in Seq(0..MaxDepth), NEW r, r.samples = Ring(s), NEW all, all.samples = s
  PROVE  StillDraining(r, Window) <=> StillDraining(all, Window)
  <1> USE MempoolAssumption DEF MempoolAssumption
  <1>1. /\ Len(s) \in Nat /\ Len(Ring(s)) \in Nat
        /\ Len(Ring(s)) = IF Len(s) > RingSize THEN RingSize ELSE Len(s)
        /\ \A i \in 1..Len(Ring(s)) : Ring(s)[i] = s[Len(s) - Len(Ring(s)) + i]
    BY RingKeepsTail
  <1>2. Window \in 1..RingSize
    OBVIOUS
  <1>3. Len(Ring(s)) >= Window <=> Len(s) >= Window
    BY <1>1, <1>2
  <1>4. ASSUME Len(s) >= Window
        PROVE  /\ Ring(s)[Len(Ring(s))] = s[Len(s)]
               /\ Ring(s)[Len(Ring(s)) - Window + 1] = s[Len(s) - Window + 1]
    <2>1. PICK i, j : i = Len(Ring(s)) /\ j = Len(Ring(s)) - Window + 1
      OBVIOUS
    <2>lens. /\ Len(s) \in Nat /\ Len(Ring(s)) \in Nat
             /\ Len(Ring(s)) >= Window /\ Window \in Nat \ {0}
      BY <1>1, <1>2, <1>3, <1>4
    <2>2. /\ i \in 1..Len(Ring(s)) /\ j \in 1..Len(Ring(s))
          /\ Len(s) - Len(Ring(s)) + i = Len(s)
          /\ Len(s) - Len(Ring(s)) + j = Len(s) - Window + 1
      BY <2>lens, <2>1
    <2> QED
      BY <1>1, <2>1, <2>2
  <1> QED
    BY <1>3, <1>4 DEF StillDraining
=============================================================================
