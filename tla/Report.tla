------------------------------- MODULE Report -------------------------------
(***************************************************************************)
(* The verdicts of the report (Markdown in report/report.go) by their      *)
(* first words, and the predicates of collector/mempool.go they rest on.   *)
(***************************************************************************)
EXTENDS Integers, Sequences

(* The node-consistency section. *)
AppHashVerdict(mismatchCount, stallCount, compareAvailable) ==
  CASE mismatchCount > 0 -> "FAIL"
    [] mismatchCount = 0 /\ stallCount > 0 -> "REVIEW"
    [] mismatchCount = 0 /\ stallCount = 0 /\ ~compareAvailable -> "NO HALT (weak)"
    [] OTHER -> "NO HALT OBSERVED"

(* r: a MempoolResult.  The EVM side counts only if it was ever measured. *)
Drained(r) == r.finalCList = 0 /\ (r.evmQueryOK => r.finalEVM = 0)

(* The last sample against the one window - 1 before it (window is 6). *)
StillDraining(r, window) ==
  LET n == Len(r.samples) IN n >= window /\ r.samples[n] < r.samples[n - window + 1]

(* The mempool-drain section. *)
MempoolVerdict(continuous, r, window) ==
  CASE continuous -> "LIVE"
    [] ~continuous /\ Drained(r) -> "PASS"
    [] ~continuous /\ ~Drained(r) /\ StillDraining(r, window) -> "INCOMPLETE"
    [] OTHER -> "FAIL"
=============================================================================
