----------------------------- MODULE MCOpenLoop -----------------------------
(* Instances of OpenLoop for TLC. *)
EXTENDS OpenLoop, TLC

(* Accounts are interchangeable: sound for the safety runs. *)
Symmetry == Permutations(Account)
=============================================================================
