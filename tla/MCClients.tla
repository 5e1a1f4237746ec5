-------------------------------- MODULE MCClients ------------------------------
(****************************************************************************)
(* Nodes 1 and 26 of run_dht.sh and one client, with a key of node 1.       *)
(****************************************************************************)
EXTENDS DhtClients, TLC

CONSTANT k1

PairNode == {1, 26}
PairContact == [n \in PairNode |-> 1]
PairBefore == (1 :> {}) @@ (26 :> {1})
PairKeyHash == [k \in {k1} |-> 90]
================================================================================
