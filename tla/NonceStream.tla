----------------------------- MODULE NonceStream ----------------------------
(***************************************************************************)
(* What the open-loop driver promises of each account, whatever the polls, *)
(* re-seeds, retries, late deliveries and losses underneath: the nonces    *)
(* that reach the chain form one stream without holes, and the stream is   *)
(* never more than Ahead nonces in front of what the chain has executed.   *)
(* Offering an old nonce again (a retry) is a stutter.                     *)
(***************************************************************************)
EXTENDS Naturals

CONSTANTS Account, Ahead, Base

VARIABLES
  executed,    \* executed[a]: nonces the chain has executed, from 0 up
  offered      \* offered[a]: nonces the chain has been offered, from 0 up

streamVars == <<executed, offered>>

StreamInit ==
  /\ offered = [a \in Account |-> Base]
  /\ executed \in [Account -> 0..Base]

Offer(a) ==
  /\ offered[a] < executed[a] + Ahead
  /\ offered' = [offered EXCEPT ![a] = @ + 1]
  /\ UNCHANGED executed

Execute(a) ==
  /\ executed[a] < offered[a]
  /\ executed' = [executed EXCEPT ![a] = @ + 1]
  /\ UNCHANGED offered

StreamNext == \E a \in Account : Offer(a) \/ Execute(a)

StreamSpec == StreamInit /\ [][StreamNext]_streamVars
=============================================================================
