--------------------------- MODULE AppHashProofs ----------------------------
(***************************************************************************)
(* What holds of AppHash for every set of nodes and hashes, every bound on *)
(* the heights, whether or not nodes flap or fall silent.                  *)
(***************************************************************************)
EXTENDS AppHash, FiniteSetTheorems, TLAPS

(* The heights somebody answered for, those of them where the answers       *)
(* disagree, and those that are flagged.                                    *)
Read == {h \in 1..lastChecked : readers[h] # {}}

Divergent == {h \in 1..lastChecked : Disagree(readers[h], h)}

Flagged == {mismatches[i] : i \in DOMAIN mismatches}

-----------------------------------------------------------------------------
(* Lemmas about the operators. *)

(* A count of one more height. *)
LEMMA CountOneMore ==
  ASSUME NEW c \in Nat, NEW S \in SUBSET (1..c)
  PROVE  /\ Cardinality(S) \in Nat /\ Cardinality(S) <= c
         /\ Cardinality(S \cup {c + 1}) = Cardinality(S) + 1
  <1>1. IsFiniteSet(1..c) /\ Cardinality(1..c) = c
    BY FS_Interval
  <1>2. IsFiniteSet(S) /\ Cardinality(S) <= c
    BY <1>1, FS_Subset
  <1>3. c + 1 \notin S
    OBVIOUS
  <1> QED
    BY <1>2, <1>3, FS_CardinalityType, FS_AddElement

(* Listing one more height keeps the list sorted and adds just that height. *)
LEMMA AppendHeight ==
  ASSUME NEW s \in Seq(Height), NEW h \in Height,
         \A i \in DOMAIN s : s[i] < h,
         \A i, j \in DOMAIN s : i < j => s[i] < s[j]
  PROVE  \A t : t = Append(s, h) =>
           /\ t \in Seq(Height)
           /\ {t[i] : i \in DOMAIN t} = {s[i] : i \in DOMAIN s} \cup {h}
           /\ \A i, j \in DOMAIN t : i < j => t[i] < t[j]
  <1> DEFINE t == Append(s, h)
  <1>1. /\ Len(s) \in Nat /\ DOMAIN s = 1..Len(s) /\ \A i \in 1..Len(s) : s[i] \in Height
        /\ t \in Seq(Height) /\ DOMAIN t = 1..(Len(s) + 1)
        /\ \A i \in 1..Len(s) : t[i] = s[i]
        /\ t[Len(s) + 1] = h
    OBVIOUS
  <1>2. {t[i] : i \in DOMAIN t} = {s[i] : i \in DOMAIN s} \cup {h}
    <2>1. ASSUME NEW i \in DOMAIN t PROVE t[i] \in {s[j] : j \in DOMAIN s} \cup {h}
      BY <1>1
    <2>2. ASSUME NEW i \in DOMAIN s PROVE i \in DOMAIN t /\ t[i] = s[i]
      BY <1>1
    <2>3. Len(s) + 1 \in DOMAIN t
      BY <1>1
    <2> QED
      BY <1>1, <2>1, <2>2, <2>3
  <1>3. ASSUME NEW i \in DOMAIN t, NEW j \in DOMAIN t, i < j PROVE t[i] < t[j]
    BY <1>1, <1>3
  <1> QED
    BY <1>1, <1>2, <1>3

-----------------------------------------------------------------------------
(* The invariant. *)

LEMMA InitInv == Init => Inv
  <1> SUFFICES ASSUME Init PROVE Inv
    OBVIOUS
  <1> USE AppHashAssumption DEF AppHashAssumption
  <1>1. TypeOK
    <2>1. common \in -1..MaxHeight /\ mismatches \in Seq(Height)
      BY DEF Init
    <2>2. readers \in [Height -> SUBSET Node] /\ height \in [Node -> 0..MaxHeight]
      BY DEF Init
    <2>3. /\ silent \in SUBSET Node /\ pc \in {"select", "status", "check", "done"}
          /\ todo \in SUBSET Node /\ hashes \in SUBSET Node
          /\ lastChecked \in 0..MaxHeight /\ lastHeight \in 0..MaxHeight
          /\ heightsChecked \in 0..MaxHeight /\ stallNotes \in SUBSET Height
          /\ moved \in SUBSET Node
      BY DEF Init
    <2>4. appHash \in [Node -> [Height -> Hash]] /\ healthy \in BOOLEAN
      BY DEF Init
    <2>5. /\ halted \in BOOLEAN /\ stopped \in BOOLEAN
          /\ overdue \in BOOLEAN /\ stallNoted \in BOOLEAN
      BY Zenon DEF Init
    <2> QED
      BY <2>1, <2>2, <2>3, <2>4, <2>5 DEF TypeOK
  <1>2. Sweep
    BY DEF Init, Sweep
  <1>3. 1..0 = {}
    OBVIOUS
  <1>4. DivergenceReported
    BY <1>3 DEF Init, DivergenceReported
  <1>5. HeightsInOrder
    BY <1>3, FS_EmptySet DEF Init, HeightsInOrder
  <1> QED
    BY <1>1, <1>2, <1>4, <1>5 DEF Inv

(* Steps that read, wait or commit: the findings stay what they are, and so  *)
(* do the heights behind lastChecked, since committed blocks are not undone. *)
LEMMA FindingsKept ==
  ASSUME Inv, UNCHANGED <<appHash, lastChecked, heightsChecked, mismatches, readers>>,
         \A n \in Node : height[n] <= height'[n],
         height' \in [Node -> 0..MaxHeight]
  PROVE  DivergenceReported' /\ HeightsInOrder'
  <1> USE AppHashAssumption DEF AppHashAssumption, Inv, TypeOK
  <1>1. DivergenceReported'
    <2>1. Flagged' = Flagged
      BY DEF Flagged
    <2>2. Divergent' = Divergent
      BY DEF Divergent, Disagree
    <2> QED
      BY <2>1, <2>2 DEF DivergenceReported, Flagged, Divergent
  <1>2. lastChecked = 0 \/ \E n \in Node : lastChecked <= height'[n]
    BY DEF HeightsInOrder
  <1>3. HeightsInOrder'
    BY <1>2 DEF HeightsInOrder
  <1> QED
    BY <1>1, <1>3

(* checkHeight flags the height it concludes if the answers disagree. *)
LEMMA ConcludeFlags ==
  ASSUME Inv, Conclude
  PROVE  /\ lastChecked + 1 \in Height /\ lastChecked + 1 <= common
         /\ mismatches' \in Seq(Height)
         /\ \A i, j \in DOMAIN mismatches' : i < j => mismatches'[i] < mismatches'[j]
         /\ Flagged' = Flagged \cup {g \in {lastChecked + 1} : Disagree(hashes, g)}
  <1> USE AppHashAssumption DEF AppHashAssumption, Inv
  <1>1. PICK h : h = lastChecked + 1
    OBVIOUS
  <1>2. h \in Height /\ h <= common /\ lastChecked \in Nat
    BY <1>1 DEF Conclude, Sweep, TypeOK, Height
  <1>3. \A i \in DOMAIN mismatches : mismatches[i] < h
    <2> SUFFICES ASSUME NEW i \in DOMAIN mismatches PROVE mismatches[i] < h
      OBVIOUS
    <2>1. mismatches[i] \in Divergent
      BY DEF DivergenceReported, Divergent
    <2> QED
      BY <2>1, <1>1, <1>2 DEF Divergent
  <1>4. CASE Disagree(hashes, h)
    <2>1. mismatches' = Append(mismatches, h)
      BY <1>1, <1>4 DEF Conclude, Listed
    <2>2. /\ mismatches \in Seq(Height)
          /\ \A i, j \in DOMAIN mismatches : i < j => mismatches[i] < mismatches[j]
      BY DEF TypeOK, HeightsInOrder
    <2>3. /\ mismatches' \in Seq(Height)
          /\ Flagged' = Flagged \cup {h}
          /\ \A i, j \in DOMAIN mismatches' : i < j => mismatches'[i] < mismatches'[j]
      BY <2>1, <2>2, <1>2, <1>3, AppendHeight DEF Flagged
    <2> QED
      BY <2>3, <1>1, <1>2, <1>4
  <1>5. CASE ~Disagree(hashes, h)
    <2>1. mismatches' = mismatches
      BY <1>1, <1>5 DEF Conclude, Listed
    <2> QED
      BY <2>1, <1>1, <1>2, <1>5 DEF Flagged, TypeOK, HeightsInOrder
  <1> QED
    BY <1>4, <1>5

(* checkHeight: one more height is behind lastChecked. *)
LEMMA ConcludeInv ==
  ASSUME Inv, Conclude
  PROVE  Inv'
  <1> USE AppHashAssumption DEF AppHashAssumption, Inv
  <1>0. PICK h : h = lastChecked + 1
    OBVIOUS
  <1>1. PICK n \in Node : common <= height[n]
    BY DEF Conclude, Sweep, TypeOK
  <1>2. /\ lastChecked \in Nat /\ lastChecked < common /\ common <= height[n]
        /\ common \in Nat /\ height[n] \in Nat /\ height[n] <= MaxHeight
        /\ h = lastChecked + 1 /\ h \in Height /\ h <= common /\ lastChecked' = h
        /\ appHash' = appHash /\ height' = height /\ common' = common
    BY <1>0, <1>1 DEF Conclude, Sweep, TypeOK, Height, CheckedUpTo, nodeVars
  <1>3. \A g \in 1..lastChecked : readers'[g] = readers[g] /\ g \in Height
    BY <1>2 DEF Conclude, TypeOK, Height
  <1>4. readers'[h] = hashes /\ readers' \in [Height -> SUBSET Node]
    BY <1>2 DEF Conclude, TypeOK
  <1>5. 1..h = (1..lastChecked) \cup {h} /\ h \notin 1..lastChecked
    BY <1>2
  <1>6. /\ mismatches' \in Seq(Height)
        /\ \A i, j \in DOMAIN mismatches' : i < j => mismatches'[i] < mismatches'[j]
        /\ Flagged' = Flagged \cup {g \in {h} : Disagree(hashes, g)}
    BY <1>2, ConcludeFlags
  <1>7. Flagged' = Divergent'
    <2>1. Flagged = Divergent
      BY DEF DivergenceReported, Flagged, Divergent
    <2>2. \A g \in 1..lastChecked : Disagree(readers[g], g)' <=> Disagree(readers[g], g)
      BY <1>2, <1>3 DEF Disagree
    <2>3. Disagree(readers[h], h)' <=> Disagree(hashes, h)
      BY <1>2, <1>4 DEF Disagree
    <2>4. Divergent' = Divergent \cup {g \in {h} : Disagree(hashes, g)}
      BY <2>2, <2>3, <1>2, <1>5 DEF Divergent
    <2> QED
      BY <2>1, <2>4, <1>6
  <1>8. heightsChecked' = Cardinality(Read') /\ heightsChecked' \in 0..MaxHeight
    <2>1. Read \in SUBSET (1..lastChecked) /\ heightsChecked = Cardinality(Read)
      BY DEF Read, HeightsInOrder
    <2>2. /\ heightsChecked \in Nat /\ heightsChecked <= lastChecked
          /\ Cardinality(Read \cup {h}) = heightsChecked + 1
      BY <2>1, <1>2, CountOneMore
    <2>3. Read' = IF hashes = {} THEN Read ELSE Read \cup {h}
      BY <1>2, <1>3, <1>4, <1>5 DEF Read
    <2>4. heightsChecked' = heightsChecked + (IF hashes = {} THEN 0 ELSE 1)
      BY DEF Conclude, Counted
    <2> QED
      BY <2>1, <2>2, <2>3, <2>4, <1>2 DEF Height
  <1>9. HeightsInOrder'
    <2>1. lastChecked' = 0 \/ \E m \in Node : lastChecked' <= height'[m]
      BY <1>1, <1>2
    <2> QED
      BY <2>1, <1>6, <1>8 DEF HeightsInOrder, Read
  <1>10. TypeOK'
    BY <1>2, <1>4, <1>6, <1>8 DEF TypeOK, Conclude, NextHeight, nodeVars, stallVars
  <1>11. Sweep'
    BY <1>1, <1>2 DEF Sweep, Conclude, NextHeight, BelowCommon, CheckedUpTo
  <1>12. DivergenceReported'
    BY <1>7 DEF DivergenceReported, Flagged, Divergent
  <1> QED
    BY <1>9, <1>10, <1>11, <1>12

(* The stall detector and the first height of a sweep. *)
LEMMA DetectStallInv ==
  ASSUME Inv, DetectStall
  PROVE  Inv'
  <1> USE AppHashAssumption DEF AppHashAssumption, Inv
  <1>1. UNCHANGED <<nodeVars, stopped, common, lastChecked, heightsChecked, mismatches, readers>>
    BY DEF DetectStall
  <1>2. common \in Height
    BY DEF DetectStall, TypeOK, Height
  <1>3. TypeOK'
    <2>1. /\ lastHeight' \in 0..MaxHeight /\ overdue' \in BOOLEAN /\ stallNoted' \in BOOLEAN
          /\ stallNotes' \in SUBSET Height /\ moved' \in SUBSET Node
      <3>1. CASE Progress
        <4>1. overdue' \in BOOLEAN /\ stallNoted' \in BOOLEAN
          BY <3>1, Zenon DEF Progress, ClockRestarts
        <4> QED
          BY <4>1, <3>1, <1>2 DEF Progress, TypeOK, Height
      <3>2. CASE NoteStall
        BY <3>2, <1>2 DEF NoteStall, TypeOK
      <3>3. CASE StillFlat
        BY <3>3 DEF StillFlat, stallVars, TypeOK
      <3> QED
        BY <3>1, <3>2, <3>3 DEF DetectStall
    <2>2. pc' \in {"check", "select"} /\ todo' \in SUBSET Node /\ hashes' = {}
      BY DEF DetectStall, NextHeight
    <2> QED
      BY <1>1, <2>1, <2>2 DEF TypeOK, nodeVars
  <1>4. Sweep'
    BY <1>1 DEF Sweep, DetectStall, NextHeight, BelowCommon, nodeVars
  <1> QED
    BY <1>1, <1>3, <1>4, FindingsKept DEF nodeVars, TypeOK

(* Inv is inductive. *)
LEMMA NextInv == Inv /\ [Next]_vars => Inv'
  <1> SUFFICES ASSUME Inv, [Next]_vars PROVE Inv'
    OBVIOUS
  <1> USE AppHashAssumption DEF AppHashAssumption, Inv
  <1>1. ASSUME UNCHANGED <<nodeVars, lastChecked, heightsChecked, mismatches, readers>>, TypeOK', Sweep'
        PROVE  Inv'
    BY <1>1, FindingsKept DEF nodeVars, TypeOK
  <1>2. CASE Tick
    BY <1>1, <1>2 DEF Tick, TypeOK, Sweep, nodeVars, foundVars, resVars, stallVars, histVars
  <1>3. CASE Quit \/ Done \/ NothingToCheck \/ UNCHANGED vars
    BY <1>1, <1>3 DEF Quit, Done, NothingToCheck, TypeOK, Sweep, vars, sweepVars, nodeVars, foundVars,
       resVars, stallVars, histVars
  <1>4. ASSUME NEW n \in Node, StatusReads(n) PROVE Inv'
    <2>1. height[n] \in 0..MaxHeight
      BY DEF TypeOK
    <2>2. common' \in {common, height[n]} /\ common' \in -1..MaxHeight
          /\ (common' = common \/ common' <= height[n]) /\ height' = height
      BY <1>4, <2>1 DEF StatusReads, Lowest, TypeOK, nodeVars
    <2> QED
      BY <1>1, <1>4, <2>1, <2>2 DEF StatusReads, Asks, TypeOK, Sweep, nodeVars, foundVars, resVars,
         stallVars, histVars
  <1>5. ASSUME NEW n \in Node, StatusFails(n) \/ BlockFails(n) PROVE Inv'
    BY <1>1, <1>5 DEF StatusFails, BlockFails, Asks, TypeOK, Sweep, nodeVars, foundVars, resVars,
       stallVars, histVars
  <1>6. ASSUME NEW n \in Node, BlockReads(n) PROVE Inv'
    <2>1. height[n] \in Nat /\ lastChecked \in Nat /\ lastChecked < height[n]
      BY <1>6 DEF BlockReads, TypeOK
    <2> QED
      BY <1>1, <1>6, <2>1 DEF BlockReads, Asks, TypeOK, Sweep, nodeVars, foundVars, resVars, stallVars,
         histVars
  <1>7. ASSUME NEW n \in Node, CommitBlock(n) PROVE Inv'
    <2>1. /\ height' \in [Node -> 0..MaxHeight]
          /\ \A m \in Node : height[m] <= height'[m] /\ height[m] \in Nat /\ height'[m] \in Nat
          /\ UNCHANGED <<appHash, healthy, halted, silent, stopped, sweepVars, stallVars, resVars, readers>>
          /\ moved' \in SUBSET Node
      BY <1>7 DEF CommitBlock, TypeOK
    <2>2. TypeOK'
      BY <2>1 DEF TypeOK, sweepVars, stallVars, resVars
    <2>3. lastChecked \in Nat /\ common \in Int /\ common' = common /\ hashes \subseteq Node
      BY <2>1 DEF TypeOK, sweepVars
    <2>4. Sweep'
      BY <2>1, <2>3 DEF Sweep, sweepVars
    <2> QED
      BY <2>1, <2>2, <2>4, FindingsKept DEF sweepVars, resVars
  <1>8. ASSUME Halt \/ TimePasses \/ Stop \/ \E n \in Node : GoSilent(n) PROVE Inv'
    <2>1. UNCHANGED <<height, appHash, sweepVars, resVars, histVars>>
      BY <1>8 DEF Halt, TimePasses, Stop, GoSilent, nodeVars, foundVars, resVars, histVars
    <2>2. TypeOK'
      BY <1>8 DEF Halt, TimePasses, Stop, GoSilent, TypeOK, nodeVars, sweepVars, foundVars, resVars,
         stallVars, histVars
    <2>3. Sweep'
      BY <2>1 DEF Sweep, sweepVars
    <2> QED
      BY <2>1, <2>2, <2>3, FindingsKept DEF sweepVars, resVars, histVars, TypeOK
  <1> QED
    BY <1>2, <1>3, <1>4, <1>5, <1>6, <1>7, <1>8, ConcludeInv, DetectStallInv DEF Next, Collector

(* Inv holds in every reachable state. *)
THEOREM Invariance == Spec => []Inv
  BY InitInv, NextInv, PTL DEF Spec

(* Every variable of the collector has its type, whatever the nodes do. *)
THEOREM TypeCorrect == Spec => []TypeOK
  <1>1. Inv => TypeOK
    BY DEF Inv
  <1> QED
    BY <1>1, Invariance, PTL

(* res.Mismatches is exact: no divergence that was read is missed, none is   *)
(* made up.                                                                  *)
THEOREM MismatchesExact == Spec => []DivergenceReported
  <1>1. Inv => DivergenceReported
    BY DEF Inv
  <1> QED
    BY <1>1, Invariance, PTL

(* Heights are listed once and in order, counted right and never looked at   *)
(* before they are committed.                                                *)
THEOREM AuditInOrder == Spec => []HeightsInOrder
  <1>1. Inv => HeightsInOrder
    BY DEF Inv
  <1> QED
    BY <1>1, Invariance, PTL

-----------------------------------------------------------------------------
(* The sweep implements the audit: a conclusion is the audit of one height   *)
(* by the nodes that were read, a commit is a commit, all else is hidden.    *)
LEMMA AuditStep == Inv /\ [Next]_vars => [Audits!AuditNext]_(Audits!auditVars)
  <1> SUFFICES ASSUME Inv, [Next]_vars
               PROVE  Audits!AuditNext \/ UNCHANGED Audits!auditVars
    OBVIOUS
  <1> USE AppHashAssumption DEF AppHashAssumption, Inv
  <1>1. ASSUME UNCHANGED <<height, appHash, lastChecked, mismatches>>
        PROVE  UNCHANGED Audits!auditVars
    BY <1>1 DEF Audits!auditVars
  <1>2. CASE Conclude
    <2>1. PICK n \in Node : common <= height[n]
      BY <1>2 DEF Conclude, Sweep, TypeOK
    <2>2. lastChecked + 1 \in Nat /\ lastChecked + 1 <= height[n]
      BY <1>2, <2>1, ConcludeFlags DEF TypeOK, Height
    <2>3. \A m \in hashes : lastChecked + 1 <= height[m]
      BY <1>2 DEF Conclude, Sweep, TypeOK
    <2>4. Flagged' = Flagged \cup {g \in {lastChecked + 1} : Disagree(hashes, g)}
      BY <1>2, ConcludeFlags
    <2>5. lastChecked' = lastChecked + 1 /\ UNCHANGED <<height, appHash>> /\ hashes \in SUBSET Node
      BY <1>2 DEF Conclude, CheckedUpTo, nodeVars, TypeOK
    <2>6. PICK heard \in SUBSET Node : heard = hashes
      BY <2>5
    <2>7. Audits!Audit(heard)
      BY <2>1, <2>2, <2>3, <2>4, <2>5, <2>6 DEF Audits!Audit, Disagree, Flagged
    <2> QED
      BY <2>6, <2>7 DEF Audits!AuditNext
  <1>3. ASSUME NEW n \in Node, CommitBlock(n)
        PROVE  Audits!AuditNext
    <2>1. /\ height' = [height EXCEPT ![n] = @ + 1]
          /\ UNCHANGED <<appHash, lastChecked, mismatches>>
      BY <1>3 DEF CommitBlock, sweepVars, resVars
    <2> QED
      BY <2>1 DEF Audits!AuditNext, Audits!Commit
  <1>4. ASSUME NEW n \in Node,
               \/ StatusReads(n) \/ StatusFails(n) \/ BlockReads(n) \/ BlockFails(n) \/ GoSilent(n)
        PROVE  UNCHANGED Audits!auditVars
    BY <1>1, <1>4 DEF StatusReads, StatusFails, BlockReads, BlockFails, GoSilent, nodeVars, sweepVars,
       foundVars, resVars
  <1>5. CASE Tick \/ Quit \/ NothingToCheck \/ DetectStall
    BY <1>1, <1>5 DEF Tick, Quit, NothingToCheck, DetectStall, nodeVars, foundVars, resVars
  <1>6. CASE Halt \/ TimePasses \/ Stop \/ Done \/ UNCHANGED vars
    BY <1>1, <1>6 DEF Halt, TimePasses, Stop, Done, vars, nodeVars, sweepVars, foundVars, resVars
  <1> QED
    BY <1>2, <1>3, <1>4, <1>5, <1>6 DEF Next, Collector

(* Call by call, with nodes that move in between, the collector audits whole *)
(* heights, each once and in order.                                          *)
THEOREM Refinement == Spec => ImplementsAuditor
  <1>1. Init => Audits!AuditInit
    BY DEF Init, Audits!AuditInit, Height
  <1> QED
    BY <1>1, AuditStep, Invariance, PTL DEF Spec, ImplementsAuditor, Audits!AuditSpec

-----------------------------------------------------------------------------
(* The stall detector. *)

LEMMA InitClock == Init => Clock
  BY DEF Init, Clock

(* One more node is asked for its height. *)
LEMMA StatusReadsClock ==
  ASSUME Inv, Clock, NEW n \in Node, StatusReads(n)
  PROVE  Clock'
  <1> USE DEF Inv
  <1> SUFFICES ASSUME ~stopped, ~Flaps PROVE Clock'
    BY DEF Clock, StatusReads
  <1>1. /\ UNCHANGED <<height, healthy, stopped, pc, lastHeight, overdue, moved>>
        /\ pc = "status" /\ todo' = todo \ {n} /\ common' = Lowest(height[n])
    BY DEF StatusReads, Asks, nodeVars, foundVars, stallVars, histVars
  <1>2. /\ \A m \in Node : height[m] \in Nat
        /\ common \in Int /\ lastHeight \in Nat
    BY DEF TypeOK
  <1>3. \A m \in Node \ todo' : common' # -1 /\ common' <= height[m]
    BY <1>1, <1>2 DEF Clock, Lowest
  <1>4. ASSUME healthy, overdue PROVE common' = -1 \/ lastHeight < common'
    BY <1>1, <1>2, <1>4 DEF Clock, Lowest
  <1> QED
    BY <1>1, <1>3, <1>4 DEF Clock

LEMMA NextClock == Inv /\ Clock /\ [Next]_vars => Clock'
  <1> SUFFICES ASSUME Inv, Clock, [Next]_vars PROVE Clock'
    OBVIOUS
  <1> USE DEF Inv
  <1>1. /\ \A m \in Node : height[m] \in Nat
        /\ common \in Int /\ lastHeight \in Nat
    BY DEF TypeOK
  <1>2. CASE Tick
    BY <1>2 DEF Tick, Clock, nodeVars, foundVars, stallVars, histVars
  <1>3. CASE Quit \/ Done \/ NothingToCheck \/ UNCHANGED vars
    BY <1>3 DEF Quit, Done, NothingToCheck, Clock, vars, sweepVars, nodeVars, foundVars, stallVars,
       histVars
  <1>4. ASSUME NEW n \in Node, StatusFails(n) PROVE Clock'
    BY <1>4 DEF StatusFails, CallFails, Clock
  <1>5. ASSUME NEW n \in Node, BlockFails(n) \/ BlockReads(n) PROVE Clock'
    BY <1>5 DEF BlockFails, BlockReads, Asks, Clock, nodeVars, foundVars, stallVars, histVars
  <1>6. CASE DetectStall
    <2>1. UNCHANGED <<height, healthy, stopped>> /\ pc' # "status" /\ pc = "status" /\ todo = {}
      BY <1>6 DEF DetectStall, NextHeight, nodeVars
    <2>2. CASE Progress
      BY <2>1, <2>2 DEF Progress, ClockRestarts, Clock
    <2>3. CASE NoteStall \/ StillFlat
      BY <2>1, <2>3 DEF NoteStall, StillFlat, stallVars, Clock
    <2> QED
      BY <1>6, <2>2, <2>3 DEF DetectStall
  <1>7. CASE Conclude
    BY <1>7 DEF Conclude, NextHeight, Clock, nodeVars, stallVars
  <1>8. ASSUME NEW n \in Node, CommitBlock(n) PROVE Clock'
    <2>1. /\ \A m \in Node : height[m] <= height'[m] /\ height'[m] \in Nat
          /\ height[n] < height'[n] /\ moved' = moved \cup {n}
          /\ UNCHANGED <<healthy, stopped, pc, todo, common, lastHeight, overdue>>
          /\ moved \in SUBSET Node
      BY <1>8, <1>1 DEF CommitBlock, TypeOK, sweepVars, stallVars
    <2>2. \A m \in Node : m \in moved' => m \in moved \/ m = n
      BY <2>1
    <2> QED
      BY <2>1, <2>2, <1>1 DEF Clock
  <1>9. CASE TimePasses
    BY <1>9 DEF TimePasses, Clock, nodeVars, sweepVars, histVars
  <1>10. CASE Halt \/ Stop \/ \E n \in Node : GoSilent(n)
    BY <1>10 DEF Halt, Stop, GoSilent, Clock, nodeVars, sweepVars, foundVars, stallVars, histVars
  <1> QED
    BY <1>2, <1>3, <1>4, <1>5, <1>6, <1>7, <1>8, <1>9, <1>10, StatusReadsClock DEF Next, Collector

(* As long as every call is answered, what the detector remembers and the    *)
(* sweep asks is behind every node, strictly where the clock has run out.    *)
THEOREM ClockKept == Spec => []Clock
  BY InitClock, NextClock, Invariance, PTL DEF Spec

(* With all calls answered, a chain every node of which commits within each  *)
(* threshold is never flagged, whatever its lag and the order of the calls.  *)
THEOREM HealthyNeverFlagged == Spec => NoFalseStall
  <1>1. Inv /\ Clock /\ [Next]_vars => [stallNotes' # stallNotes => stopped \/ Flaps \/ ~healthy]_vars
    <2> SUFFICES ASSUME Inv, Clock, [Next]_vars, stallNotes' # stallNotes
                 PROVE  stopped \/ Flaps \/ ~healthy
      OBVIOUS
    <2>1. NoteStall /\ DetectStall
      BY DEF Next, Collector, Tick, Quit, NothingToCheck, DetectStall, Progress, StillFlat, Conclude,
         StatusReads, StatusFails, BlockReads, BlockFails, CommitBlock, GoSilent, Halt, TimePasses,
         Stop, Done, vars, foundVars, resVars
    <2> QED
      BY <2>1 DEF NoteStall, DetectStall, Clock, Inv, TypeOK
  <1> QED
    BY <1>1, ClockKept, Invariance, PTL DEF Spec, NoFalseStall

-----------------------------------------------------------------------------
(* The comparison. *)

LEMMA InitCompared == Init => EveryNodeCompared
  <1>1. 1..0 = {}
    OBVIOUS
  <1> QED
    BY <1>1 DEF Init, EveryNodeCompared

(* A sweep that has asked all nodes is at or below all of them: Clock.       *)
LEMMA DetectStallCompared ==
  ASSUME Inv, Clock, EveryNodeCompared, DetectStall
  PROVE  EveryNodeCompared'
  <1> SUFFICES ASSUME ~stopped, ~Flaps PROVE EveryNodeCompared'
    BY DEF EveryNodeCompared, DetectStall
  <1>1. /\ UNCHANGED <<height, stopped, common, lastChecked, readers>>
        /\ hashes' = {} /\ (pc' = "check" => todo' = Node)
    BY DEF DetectStall, NextHeight, nodeVars
  <1>2. \A n \in Node : common <= height[n]
    BY DEF DetectStall, Clock
  <1> QED
    BY <1>1, <1>2 DEF EveryNodeCompared

(* The height concluded was read from all nodes.                             *)
LEMMA ConcludeCompared ==
  ASSUME Inv, EveryNodeCompared, Conclude
  PROVE  EveryNodeCompared'
  <1> USE DEF Inv
  <1> SUFFICES ASSUME ~stopped, ~Flaps PROVE EveryNodeCompared'
    BY DEF EveryNodeCompared, Conclude
  <1>1. PICK h : h = lastChecked + 1
    OBVIOUS
  <1>2. /\ h \in Height /\ lastChecked \in Nat /\ readers \in [Height -> SUBSET Node]
    BY <1>1, ConcludeFlags DEF TypeOK
  <1>3. /\ UNCHANGED <<height, stopped, common>> /\ pc = "check" /\ todo = {}
        /\ lastChecked' = h /\ readers' = [readers EXCEPT ![h] = hashes]
        /\ hashes' = {} /\ (pc' = "check" => todo' = Node)
    BY <1>1 DEF Conclude, CheckedUpTo, NextHeight, nodeVars
  <1>4. hashes = Node /\ \A n \in Node : common <= height[n]
    BY <1>3 DEF EveryNodeCompared
  <1>5. ASSUME NEW g \in 1..h PROVE readers'[g] = Node
    <2>1. CASE g = h
      BY <2>1, <1>2, <1>3, <1>4
    <2>2. CASE g # h
      <3>1. g \in 1..lastChecked /\ g \in Height
        BY <2>2, <1>1, <1>2, AppHashAssumption DEF Height, AppHashAssumption
      <3> QED
        BY <3>1, <2>2, <1>2, <1>3 DEF EveryNodeCompared
    <2> QED
      BY <2>1, <2>2
  <1> QED
    BY <1>3, <1>4, <1>5 DEF EveryNodeCompared

LEMMA NextCompared == Inv /\ Clock /\ EveryNodeCompared /\ [Next]_vars => EveryNodeCompared'
  <1> SUFFICES ASSUME Inv, Clock, EveryNodeCompared, [Next]_vars PROVE EveryNodeCompared'
    OBVIOUS
  <1> USE DEF Inv
  <1>1. CASE Tick \/ Quit \/ NothingToCheck \/ Done \/ UNCHANGED vars
    BY <1>1 DEF Tick, Quit, NothingToCheck, Done, EveryNodeCompared, vars, sweepVars, nodeVars,
       foundVars, histVars
  <1>2. ASSUME NEW n \in Node, StatusReads(n) \/ StatusFails(n) PROVE EveryNodeCompared'
    BY <1>2 DEF StatusReads, StatusFails, Asks, EveryNodeCompared, nodeVars, foundVars, histVars
  <1>3. ASSUME NEW n \in Node, BlockReads(n) PROVE EveryNodeCompared'
    BY <1>3 DEF BlockReads, Asks, EveryNodeCompared, nodeVars, foundVars, histVars
  <1>4. ASSUME NEW n \in Node, BlockFails(n) PROVE EveryNodeCompared'
    <2>1. CASE stopped \/ Flaps
      BY <2>1, <1>4 DEF BlockFails, EveryNodeCompared
    <2>2. CASE ~stopped /\ ~Flaps
      <3>1. lastChecked + 1 > height[n] /\ pc = "check"
        BY <2>2, <1>4 DEF BlockFails, CallFails, Asks
      <3>2. lastChecked < common /\ common <= height[n]
        BY <3>1, <2>2 DEF Sweep, EveryNodeCompared
      <3>3. lastChecked \in Int /\ common \in Int /\ height[n] \in Int
        BY DEF TypeOK
      <3> QED
        BY <3>1, <3>2, <3>3
    <2> QED
      BY <2>1, <2>2
  <1>5. ASSUME NEW n \in Node, CommitBlock(n) PROVE EveryNodeCompared'
    <2>1. /\ \A m \in Node : height[m] <= height'[m] /\ height[m] \in Nat /\ height'[m] \in Nat
          /\ UNCHANGED <<stopped, pc, todo, common, hashes, lastChecked, readers>>
          /\ common \in Int
      BY <1>5 DEF CommitBlock, TypeOK, sweepVars
    <2> QED
      BY <2>1 DEF EveryNodeCompared
  <1>6. CASE Halt \/ TimePasses \/ Stop \/ \E n \in Node : GoSilent(n)
    BY <1>6 DEF Halt, TimePasses, Stop, GoSilent, EveryNodeCompared, nodeVars, sweepVars, foundVars,
       histVars
  <1> QED
    BY <1>1, <1>2, <1>3, <1>4, <1>5, <1>6, ConcludeCompared, DetectStallCompared DEF Next, Collector

(* As long as every call is answered, every node is read at every height,    *)
(* however far it lags.                                                      *)
THEOREM ComparedByAll == Spec => []EveryNodeCompared
  BY InitCompared, NextCompared, Invariance, ClockKept, PTL DEF Spec

(* Then nothing is missed, and the report counts what it says: the flagged   *)
(* heights are all those, of the ones behind lastChecked, at which any two   *)
(* nodes committed different hashes, and each of them counts as checked.     *)
THEOREM NoDivergenceMissed ==
  Spec => [](~stopped /\ ~Flaps =>
               /\ Flagged = {h \in 1..lastChecked : Disagree(Node, h)}
               /\ heightsChecked = lastChecked)
  <1>1. Inv /\ EveryNodeCompared =>
          (~stopped /\ ~Flaps =>
             /\ Flagged = {h \in 1..lastChecked : Disagree(Node, h)}
             /\ heightsChecked = lastChecked)
    <2> SUFFICES ASSUME Inv, EveryNodeCompared, ~stopped, ~Flaps
                 PROVE  /\ Flagged = {h \in 1..lastChecked : Disagree(Node, h)}
                        /\ heightsChecked = lastChecked
      OBVIOUS
    <2>1. \A h \in 1..lastChecked : readers[h] = Node
      BY DEF EveryNodeCompared
    <2>2. Flagged = {h \in 1..lastChecked : Disagree(readers[h], h)}
      BY DEF Inv, DivergenceReported, Flagged
    <2>3. Flagged = {h \in 1..lastChecked : Disagree(Node, h)}
      BY <2>1, <2>2 DEF Disagree
    <2>4. lastChecked = 0 \/ Node # {}
      BY DEF Inv, HeightsInOrder
    <2>5. {h \in 1..lastChecked : readers[h] # {}} = 1..lastChecked
      <3>1. CASE lastChecked = 0
        BY <3>1
      <3>2. CASE Node # {}
        BY <3>2, <2>1
      <3> QED
        BY <2>4, <3>1, <3>2
    <2>6. Cardinality(1..lastChecked) = lastChecked
      <3>1. lastChecked \in Nat
        BY DEF Inv, TypeOK
      <3> QED
        BY <3>1, FS_Interval
    <2> QED
      BY <2>3, <2>5, <2>6 DEF Inv, HeightsInOrder
  <1> QED
    BY <1>1, Invariance, ComparedByAll, PTL

-----------------------------------------------------------------------------
(* The slowest node. *)

LEMMA NextHeld ==
  Inv /\ Clock /\ EveryNodeCompared /\ HeldBySlowest /\ [Next]_vars => HeldBySlowest'
  <1> SUFFICES ASSUME Inv, Clock, EveryNodeCompared, HeldBySlowest, [Next]_vars, ~stopped', ~Flaps
               PROVE  HeldBySlowest'
    BY DEF HeldBySlowest
  <1> USE DEF Inv
  <1>1. ~stopped
    BY DEF Next, Collector, Tick, Quit, NothingToCheck, DetectStall, Conclude, StatusReads, StatusFails,
       BlockReads, BlockFails, CommitBlock, GoSilent, Halt, TimePasses, Stop, Done, vars
  <1>2. /\ lastChecked \in Nat /\ common \in Int /\ \A n \in Node : height[n] \in Nat
        /\ \A h \in stallNotes : h \in Nat
    BY DEF TypeOK, Height
  <1>3. CASE DetectStall
    <2>1. stallNotes' \subseteq stallNotes \cup {common} /\ UNCHANGED <<height, lastChecked>>
      BY <1>3 DEF DetectStall, Progress, NoteStall, StillFlat, nodeVars
    <2>2. \A n \in Node : common <= height[n]
      BY <1>1, <1>3 DEF DetectStall, Clock
    <2> QED
      BY <1>1, <2>1, <2>2 DEF HeldBySlowest
  <1>4. CASE Conclude
    <2>1. lastChecked < common /\ lastChecked' = lastChecked + 1 /\ UNCHANGED <<height, stallNotes>>
      BY <1>4 DEF Conclude, CheckedUpTo, Sweep, nodeVars
    <2>2. \A n \in Node : common <= height[n]
      BY <1>1, <1>4 DEF Conclude, EveryNodeCompared
    <2> QED
      BY <1>1, <1>2, <2>1, <2>2 DEF HeldBySlowest
  <1>5. ASSUME NEW n \in Node, CommitBlock(n) PROVE HeldBySlowest'
    <2>1. /\ \A m \in Node : height[m] <= height'[m] /\ height'[m] \in Nat
          /\ UNCHANGED <<lastChecked, stallNotes>>
      BY <1>2, <1>5 DEF CommitBlock, TypeOK, sweepVars, resVars
    <2> QED
      BY <1>1, <1>2, <2>1 DEF HeldBySlowest
  <1>6. ASSUME UNCHANGED <<height, lastChecked, stallNotes>> PROVE HeldBySlowest'
    BY <1>1, <1>6 DEF HeldBySlowest
  <1>7. ASSUME NEW n \in Node,
               StatusReads(n) \/ StatusFails(n) \/ BlockReads(n) \/ BlockFails(n) \/ GoSilent(n)
        PROVE  HeldBySlowest'
    BY <1>6, <1>7 DEF StatusReads, StatusFails, BlockReads, BlockFails, GoSilent, nodeVars, sweepVars,
       foundVars, resVars
  <1>8. CASE Tick \/ Quit \/ NothingToCheck \/ Halt \/ TimePasses \/ Stop \/ Done \/ UNCHANGED vars
    BY <1>6, <1>8 DEF Tick, Quit, NothingToCheck, Halt, TimePasses, Stop, Done, vars, nodeVars,
       sweepVars, foundVars, resVars
  <1> QED
    BY <1>3, <1>4, <1>5, <1>7, <1>8 DEF Next, Collector

(* As long as every call is answered, nothing is compared or flagged that is *)
(* above the slowest node.                                                   *)
THEOREM SlowestNodeLeads == Spec => []HeldBySlowest
  <1>1. Init => HeldBySlowest
    BY DEF Init, HeldBySlowest
  <1> QED
    BY <1>1, NextHeld, Invariance, ClockKept, ComparedByAll, PTL DEF Spec
-----------------------------------------------------------------------------
(***************************************************************************)
(* The verdict (ConsistentMeansCompared is violated): what the report says *)
(* is true as long as every call is answered.                              *)
(***************************************************************************)

(* No node is taken for read at a height the sweep has not come to. *)
UnreadAhead == \A h \in Height : h > lastChecked => readers[h] = {}

LEMMA NextUnread == Inv /\ UnreadAhead /\ [Next]_vars => UnreadAhead'
  <1> SUFFICES ASSUME Inv, UnreadAhead, [Next]_vars PROVE UnreadAhead'
    OBVIOUS
  <1> USE DEF Inv
  <1>1. CASE Conclude
    <2>1. /\ lastChecked' = lastChecked + 1 /\ lastChecked \in Nat
          /\ readers' = [readers EXCEPT ![lastChecked + 1] = hashes]
          /\ readers \in [Height -> SUBSET Node]
      BY <1>1 DEF Conclude, CheckedUpTo, TypeOK
    <2>2. \A h \in Height : h > lastChecked + 1 => h > lastChecked /\ h # lastChecked + 1
      BY <2>1 DEF Height
    <2> QED
      BY <2>1, <2>2 DEF UnreadAhead
  <1>2. ASSUME UNCHANGED <<lastChecked, readers>> PROVE UnreadAhead'
    BY <1>2 DEF UnreadAhead
  <1>3. ASSUME NEW n \in Node,
               \/ StatusReads(n) \/ StatusFails(n) \/ BlockReads(n) \/ BlockFails(n)
               \/ CommitBlock(n) \/ GoSilent(n)
        PROVE  UnreadAhead'
    BY <1>2, <1>3 DEF StatusReads, StatusFails, BlockReads, BlockFails, CommitBlock, GoSilent,
       sweepVars, foundVars, histVars
  <1>4. CASE DetectStall \/ Tick \/ Quit \/ NothingToCheck \/ Halt \/ TimePasses \/ Stop \/ Done
             \/ UNCHANGED vars
    BY <1>2, <1>4 DEF DetectStall, Tick, Quit, NothingToCheck, Halt, TimePasses, Stop, Done, vars,
       sweepVars, foundVars, histVars
  <1> QED
    BY <1>1, <1>3, <1>4 DEF Next, Collector

(* FAIL is said where something was flagged, and nowhere else. *)
LEMMA FailIsFlagged ==
  ASSUME NEW m \in Nat, NEW k, NEW compare
  PROVE  AppHashVerdict(m, k, compare) = "FAIL" <=> m > 0
  <1>1. CASE m > 0
    BY <1>1 DEF AppHashVerdict
  <1>2. CASE m = 0 /\ k > 0
    BY <1>2 DEF AppHashVerdict
  <1>3. CASE m = 0 /\ ~(k > 0) /\ k = 0 /\ ~compare
    BY <1>3 DEF AppHashVerdict
  <1>4. CASE m = 0 /\ ~(k > 0) /\ ~(k = 0 /\ ~compare)
    BY <1>4 DEF AppHashVerdict
  <1> QED
    BY <1>1, <1>2, <1>3, <1>4

(* As long as every call is answered, FAIL is said if and only if two nodes  *)
(* committed different hashes at a height the sweep has passed, and where    *)
(* the report claims that the nodes stayed consistent across so many         *)
(* heights, every node was compared at each of these.                        *)
THEOREM VerdictIsTrue ==
  ASSUME Node # {}
  PROVE  Spec => [](~stopped /\ ~Flaps =>
                      /\ AppHashVerdict(Len(mismatches), Cardinality(stallNotes), Cardinality(Node) >= 2)
                           = "FAIL" <=> \E h \in 1..lastChecked : Disagree(Node, h)
                      /\ ConsistentMeansCompared)
  <1>1. ASSUME Inv, EveryNodeCompared, UnreadAhead, ~stopped, ~Flaps,
               Flagged = {h \in 1..lastChecked : Disagree(Node, h)}, heightsChecked = lastChecked
        PROVE  /\ AppHashVerdict(Len(mismatches), Cardinality(stallNotes), Cardinality(Node) >= 2)
                    = "FAIL" <=> \E h \in 1..lastChecked : Disagree(Node, h)
               /\ ConsistentMeansCompared
    <2>1. lastChecked \in 0..MaxHeight /\ MaxHeight \in Nat
      BY <1>1, AppHashAssumption DEF AppHashAssumption, Inv, TypeOK
    <2>2. Len(mismatches) \in Nat /\ DOMAIN mismatches = 1..Len(mismatches)
      BY <1>1 DEF Inv, TypeOK
    <2>3. Len(mismatches) > 0 <=> \E h \in 1..lastChecked : Disagree(Node, h)
      <3>1. Len(mismatches) > 0 <=> \E i \in DOMAIN mismatches : TRUE
        BY <2>2
      <3>2. (\E i \in DOMAIN mismatches : TRUE) <=> Flagged # {}
        BY DEF Flagged
      <3> QED
        BY <1>1, <3>1, <3>2
    <2>4. {h \in Height : readers[h] = Node} = 1..lastChecked
      <3>1. \A h \in Height : h \in 1..lastChecked \/ h > lastChecked
        BY <2>1 DEF Height
      <3>2. 1..lastChecked \subseteq Height
        BY <2>1 DEF Height
      <3> QED
        BY <1>1, <2>1, <3>1, <3>2 DEF EveryNodeCompared, UnreadAhead
    <2>5. Cardinality(1..lastChecked) = lastChecked
      BY <2>1, FS_Interval
    <2>6. ConsistentMeansCompared
      BY <1>1, <2>4, <2>5 DEF ConsistentMeansCompared
    <2> QED
      BY <2>2, <2>3, <2>6, FailIsFlagged
  <1>2. Init => UnreadAhead
    BY DEF Init, UnreadAhead
  <1>3. Inv /\ EveryNodeCompared /\ UnreadAhead
          /\ (~stopped /\ ~Flaps =>
                /\ Flagged = {h \in 1..lastChecked : Disagree(Node, h)}
                /\ heightsChecked = lastChecked)
        => (~stopped /\ ~Flaps =>
              /\ AppHashVerdict(Len(mismatches), Cardinality(stallNotes), Cardinality(Node) >= 2)
                   = "FAIL" <=> \E h \in 1..lastChecked : Disagree(Node, h)
              /\ ConsistentMeansCompared)
    BY <1>1
  <1> QED
    BY <1>2, <1>3, NextUnread, Invariance, ComparedByAll, NoDivergenceMissed, PTL DEF Spec
=============================================================================
