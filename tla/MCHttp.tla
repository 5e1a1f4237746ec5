--------------------------------- MODULE MCHttp --------------------------------
(****************************************************************************)
(* Two buckets.  One holds an ID and two longer ones that begin with it but *)
(* not with each other; the other has one ID more.  Two bodies hash to the  *)
(* same ID.  The heap has an address more than there are IDs: ht_set() allocates *)
(* before it deletes.                                                       *)
(****************************************************************************)
EXTENDS Http

CONSTANTS ab, abc, abd, y, b1, b2, b3, b4, b5

FewKeys == {ab, abc, abd, y}
FewBodies == {b1, b2, b3, b4, b5}
FewSlots == [k \in FewKeys |-> IF k \in {ab, abc, abd} THEN 0 ELSE 1]
FewBegin == {<<k, k>> : k \in FewKeys} \cup {<<abc, ab>>, <<abd, ab>>}
FewIds == [b \in FewBodies |-> CASE b \in {b1, b2} -> ab
                                 [] b = b3 -> abc
                                 [] b = b4 -> abd
                                 [] b = b5 -> y]
FewAddr == Permutations(Addr)
================================================================================
