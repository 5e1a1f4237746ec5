--------------------------------- MODULE MCRing --------------------------------
(****************************************************************************)
(* The four nodes of run_dht.sh: 1 alone, 26 and 76 through 1, 53 through   *)
(* 26, started in the order 1, 26, 76, 53.                                  *)
(****************************************************************************)
EXTENDS DhtRing, TLC

ScriptNode == {1, 26, 53, 76}
ScriptContact == (1 :> 1) @@ (26 :> 1) @@ (76 :> 1) @@ (53 :> 26)
ScriptBefore == (1 :> {}) @@ (26 :> {1}) @@ (76 :> {1, 26}) @@ (53 :> {1, 26, 76})

NoKeyHash == [k \in Key |-> 0]
================================================================================
