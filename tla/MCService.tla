------------------------------- MODULE MCService -------------------------------
(****************************************************************************)
(* A ring of three nodes with two clients at different nodes, and two keys  *)
(* whose owners are the node without client and one of the other two.       *)
(****************************************************************************)
EXTENDS DhtService, TLC

CONSTANTS c1, c2, k1, k2

ServiceNode == {1, 26, 76}
ServiceContact == [n \in ServiceNode |-> 1]
ServiceKeyHash == (k1 :> 50) @@ (k2 :> 1)
ServiceGateway == (c1 :> 1) @@ (c2 :> 26)
SharedGateway == (c1 :> 26) @@ (c2 :> 26)
================================================================================
