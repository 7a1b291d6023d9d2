------------------------------ MODULE MCSetup -------------------------------
(* The instance of Setup for TLC. *)
EXTENDS Setup

(* PrepareAccounts does not look at the Destructible. *)
MCFiles == {file \in Deployments : ~file.destr}
=============================================================================
