------------------------------ MODULE Auditor -------------------------------
(***************************************************************************)
(* What the app-hash collector promises of the chain it watches, whatever  *)
(* nodes lag, fail or come back between its calls: every height is audited *)
(* once, in order, after some node has committed it; it is flagged in its  *)
(* audit if nodes heard in it disagree; a flag is never withdrawn.  Which  *)
(* nodes are heard is left open.                                           *)
(***************************************************************************)
EXTENDS Naturals

CONSTANTS Node, Hash, MaxHeight

VARIABLES
  height,      \* height[n]: blocks node n has committed
  appHash,     \* appHash[n][h]: what n commits at h
  audited,     \* heights audited, from 1 up
  flagged      \* heights found divergent

auditVars == <<height, appHash, audited, flagged>>

AuditInit ==
  /\ height = [n \in Node |-> 0]
  /\ appHash \in [Node -> [1..MaxHeight -> Hash]]
  /\ audited = 0 /\ flagged = {}

Commit(n) ==
  /\ height' = [height EXCEPT ![n] = @ + 1]
  /\ UNCHANGED <<appHash, audited, flagged>>

Audit(heard) ==
  LET h == audited + 1 IN
  /\ \E n \in Node : h <= height[n]
  /\ \A n \in heard : h <= height[n]
  /\ audited' = h
  /\ flagged' = flagged \cup {g \in {h} : \E n, m \in heard : appHash[n][g] # appHash[m][g]}
  /\ UNCHANGED <<height, appHash>>

AuditNext == (\E n \in Node : Commit(n)) \/ (\E heard \in SUBSET Node : Audit(heard))

AuditSpec == AuditInit /\ [][AuditNext]_auditVars
=============================================================================
