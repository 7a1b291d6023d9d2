----------------------------- MODULE MCAppHash ------------------------------
(* Instances of AppHash for TLC. *)
EXTENDS AppHash, TLC

(* Nodes and hashes are interchangeable: sound for the safety runs. *)
Symmetry == Permutations(Node) \cup Permutations(Hash)
=============================================================================
