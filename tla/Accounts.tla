------------------------------ MODULE Accounts ------------------------------
(***************************************************************************)
(* Local nonce tracking of package accounts (accounts/accounts.go).  Every *)
(* transaction of this branch uses nonce key 0, so the two maps of an      *)
(* Account are one number each.  Each method holds the account's mutex for *)
(* its whole body: a call is one atomic step of the caller.                *)
(***************************************************************************)
EXTENDS Naturals

CONSTANT Account    \* the signing identities of the pool

VARIABLES
  nonces,           \* nonces[a]: the next sequence to assign
  confirmed         \* confirmed[a]: the last on-chain nonce recorded locally

accountVars == <<nonces, confirmed>>

(* Assigned minus confirmed, clamped at 0 so the unsigned difference never wraps. *)
Inflight(a) ==
  IF confirmed[a] >= nonces[a] THEN 0 ELSE nonces[a] - confirmed[a]

Peek(a) == nonces[a]

(* A caller that counts the send twice: Next at the send, Commit after it. *)
MutCommitTwice(a) ==
  /\ nonces' = [nonces EXCEPT ![a] = @ + 2]
  /\ UNCHANGED confirmed

Commit(a) ==
  /\ nonces' = [nonces EXCEPT ![a] = @ + 1]
  /\ UNCHANGED confirmed

(* A re-seed that records the chain's nonce but leaves the assign pointer. *)
MutSetBaseConfirmedOnly(a, seq) ==
  /\ confirmed' = [confirmed EXCEPT ![a] = seq]
  /\ UNCHANGED nonces

SetBase(a, seq) ==
  /\ nonces'    = [nonces EXCEPT ![a] = seq]
  /\ confirmed' = [confirmed EXCEPT ![a] = seq]

SetConfirmed(a, seq) ==
  /\ confirmed' = [confirmed EXCEPT ![a] = seq]
  /\ UNCHANGED nonces
=============================================================================
