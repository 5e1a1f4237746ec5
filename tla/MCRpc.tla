---------------------------------- MODULE MCRpc --------------------------------
(****************************************************************************)
(* Two clients and one key.  A value of 300 bytes is one of those of        *)
(* movies.csv that need both bytes of the length field; so does a key of    *)
(* 258, which is used where messages are cut anywhere.                      *)
(****************************************************************************)
EXTENDS Rpc, TLC

CONSTANTS v1, v2

ShortKeyLen == [k \in Key |-> 2]
LongKeyLen == [k \in Key |-> 258]
TwoValues == {v1, v2}
LongValue == {v2}
TwoValueLen == (v1 :> 1) @@ (v2 :> 300)
LongValueLen == v2 :> 300

\* Inside of a field: its first byte and its last but one.
Inside(n) == {1, n - 1} \cap 1 .. n - 1

\* A message is cut between its fields or in the last of them.
CutInLast(k, v) ==
  {6} \cup (IF v = 0 THEN {6 + i : i \in Inside(k)}
           ELSE {6 + k} \cup {6 + k + i : i \in Inside(v)})

\* A message is cut where the receive loop goes wrong in a way of its own: between or
\* behind the bytes of a length field and after the first byte of a field.
CutAnywhere(k, v) ==
  IF k = 0 THEN {}
  ELSE IF v = 0 THEN {4, 7}
  ELSE {3, 5, 7}
================================================================================
