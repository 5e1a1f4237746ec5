---------------------------------- MODULE MCDht --------------------------------
(****************************************************************************)
(* Two nodes and two clients that call whenever they like, from before the  *)
(* second node joins.  The key lies at the end of that node's arc.          *)
(****************************************************************************)
EXTENDS Dht, TLC

CONSTANT k1

PairNode == {1, 26}
PairContact == [n \in PairNode |-> 1]
PairKeyHash == [k \in {k1} |-> 26]
================================================================================
