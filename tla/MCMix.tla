------------------------------- MODULE MCMix --------------------------------
(* The instance of Mix for TLC. *)
EXTENDS Mix

Lane == {[enabled |-> TRUE, inflight |-> n] : n \in {0, 5, 25}} \cup {[enabled |-> FALSE, inflight |-> 25]}

LanesOver(keys) == UNION {[some -> Lane] : some \in SUBSET keys}

Node(r, e) == [role |-> r, jsonrpc |-> e]

MCNodes == {<<>>, <<Node("validator", "e1")>>, <<Node("validator", "e1"), Node("fullnode", "e2")>>,
            <<Node("validator", "e1"), Node("fullnode", "")>>}

File == [chainID |-> 999, nodes |-> <<Node("validator", "e1")>>, accountsN |-> 2, poll |-> 0,
         lanes |-> [k \in {"value"} |-> [enabled |-> TRUE, inflight |-> 5]], destructive |-> FALSE]

(* Every way to start, and every mix of lanes, one of a kind nobody knows. *)
MCTargets ==
  {[File EXCEPT !.chainID = c, !.nodes = n, !.accountsN = a, !.poll = p] :
     c \in {0, 999}, n \in MCNodes, a \in {-1, 0, 2}, p \in {-1, 0, 500}}
  \cup {[File EXCEPT !.lanes = l, !.destructive = d] :
          l \in LanesOver({"value", "swap", "bump"}) \cup LanesOver({"erc20Transfer", "selfdestruct", "other"}),
          d \in BOOLEAN}
=============================================================================
