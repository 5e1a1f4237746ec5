------------------------------- MODULE Dictionary ------------------------------
(****************************************************************************)
(* What hashtable.c promises.  Where no key of a bucket begins with another *)
(* this is a map from keys to values.  Otherwise a key can be taken for a   *)
(* longer one that begins with it, always, and for a shorter one that it    *)
(* begins with, depending on what the memory behind that one contains.      *)
(****************************************************************************)
CONSTANTS Key, Value, SlotOf, Begins, Nil

VARIABLES contents, reply

dictVars == <<contents, reply>>

Longer(k)  == {j \in Key : SlotOf[j] = SlotOf[k] /\ <<j, k>> \in Begins}
Shorter(k) == {j \in Key : SlotOf[j] = SlotOf[k] /\ <<k, j>> \in Begins} \ {k}

NoReply == [ok |-> FALSE, key |-> Nil, value |-> Nil]

Stored == {k \in Key : contents[k] # Nil}

\* The keys that a search for k may end at, Nil for none.
Hits(k) ==
  (Stored \cap (Longer(k) \cup Shorter(k)))
    \cup (IF Stored \cap Longer(k) = {} THEN {Nil} ELSE {})

\* A new pair supersedes what its key is taken for, and may take along what
\* begins with a shorter key that is superseded.
DictSet(k, v) ==
  /\ contents' \in [Key -> Value \cup {Nil}]
  /\ contents'[k] = v
  /\ LET lost == {j \in Stored \ {k} : contents'[j] = Nil} IN
       /\ \A j \in Key \ (lost \cup {k}) : contents'[j] = contents[j]
       /\ Stored \cap Longer(k) \subseteq lost \cup {k}
       /\ \A j \in lost : \/ j \in Longer(k) \cup Shorter(k)
                          \/ \E i \in lost \cap Shorter(k) : j \in Longer(i)
  /\ UNCHANGED reply

DictGet(k) ==
  \E j \in Hits(k) :
    /\ reply' = IF j = Nil THEN NoReply
                ELSE [ok |-> TRUE, key |-> j, value |-> contents[j]]
    /\ UNCHANGED contents

\* One pair goes, and del() tells whether there was one.
DictDel(k) ==
  \E j \in Hits(k) :
    /\ contents' = [i \in Key |-> IF i = j THEN Nil ELSE contents[i]]
    /\ reply' = [NoReply EXCEPT !.ok = j # Nil]

DictInit == contents = [k \in Key |-> Nil] /\ reply = NoReply

DictNext == \E k \in Key : DictGet(k) \/ DictDel(k) \/ \E v \in Value : DictSet(k, v)

DictSpec == DictInit /\ [][DictNext]_dictVars
================================================================================
