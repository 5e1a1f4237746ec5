------------------------------- MODULE HashTable -------------------------------
(****************************************************************************)
(* The chained hash table of every server of the repository:                *)
(* 3_dht/hashtable.c and its copies in 2_rpc/rpc_server and 4_http/include. *)
(*                                                                          *)
(* A bucket is a doubly linked list of malloc()ed elements, a new element   *)
(* at its head.  Keys are compared by memcmp() over the length of the key   *)
(* that is searched for, whatever the length of the one that is stored.     *)
(* All the servers call the table from one thread: an operation is a step.  *)
(****************************************************************************)
EXTENDS Integers, FiniteSets, SequencesExt

CONSTANTS
  Slot,           \* 0 .. tl - 1
  Key, Value,     \* the keys and values that are used
  SlotOf,         \* hash() of each key modulo tl
  Begins,         \* the pairs <<j, k>> such that the bytes of j begin with k
  Addr,           \* the addresses that malloc() hands out
  Nil             \* NULL

ASSUME SlotOfAssumption == SlotOf \in [Key -> Slot]
ASSUME BeginsAssumption ==
  /\ Begins \subseteq Key \X Key
  /\ \A k \in Key : <<k, k>> \in Begins
  /\ \A i, j, k \in Key : <<i, j>> \in Begins /\ <<j, k>> \in Begins => <<i, k>> \in Begins
  /\ \A j, k \in Key : <<j, k>> \in Begins /\ <<k, j>> \in Begins => j = k

VARIABLES
  heap,      \* struct element at each allocated address, Nil elsewhere
  buckets,   \* hashtable[]
  reply      \* what the last get() or del() returned: success, the element

vars == <<heap, buckets, reply>>

Element == [key : Key, value : Value, next : Addr \cup {Nil}, previous : Addr \cup {Nil}]
Reply == [ok : BOOLEAN, key : Key \cup {Nil}, value : Value \cup {Nil}]

ASSUME AddrAssumption == IsFiniteSet(Addr)
ASSUME NilAssumption == Nil \notin Addr \cup Key \cup Value \cup Element

\* NULL from get(), or an int from del().
Returned(ok) == [ok |-> ok, key |-> Nil, value |-> Nil]

HashTypeOK ==
  /\ heap \in [Addr -> Element \cup {Nil}]
  /\ buckets \in [Slot -> [head : Addr \cup {Nil}, count : 0 .. Cardinality(Addr)]]
  /\ reply \in Reply

----------------------------------------------------------------------------
\* The elements of a bucket in the order of the while loops, which follow
\* next from the head; a dangling pointer is the last that is followed.
Chain(slot) ==
  LET at[i \in 1 .. Cardinality(Addr)] ==
        IF i = 1 THEN buckets[slot].head
        ELSE IF at[i - 1] = Nil \/ heap[at[i - 1]] = Nil THEN Nil
        ELSE heap[at[i - 1]].next
  IN  [i \in 1 .. Cardinality({j \in DOMAIN at : at[j] # Nil}) |-> at[i]]

\* The elements that are shorter than the key that is searched for and agree
\* with it as far as they go: memcmp() runs past their end.
Overread(k) ==
  {a \in Addr : heap[a] # Nil /\ heap[a].key # k /\ <<k, heap[a].key>> \in Begins}

\* What it may read there: the longest key that both k and the memory at such
\* an element begin with.  That memory is taken not to change during a call.
Memory(k) ==
  {read \in [Overread(k) -> {j \in Key : <<k, j>> \in Begins}] :
     \A a \in Overread(k) : <<read[a], heap[a].key>> \in Begins}

\* memcmp() takes the element at a for key j, with read in Memory(k) and j either
\* k or the key of an element that is taken for k.
Matches(a, j, read) ==
  <<heap[a].key, j>> \in Begins \/ (a \in DOMAIN read /\ <<read[a], j>> \in Begins)

\* The first such element of the bucket, where the while loop ends.
Found(k, read) ==
  LET c == Chain(SlotOf[k])
      hits == {i \in DOMAIN c : Matches(c[i], k, read)}
  IN  IF hits = {} THEN Nil ELSE c[CHOOSE i \in hits : \A j \in hits : i <= j]

\* del() from the point where the element is found: unlink and free it.
UnlinkForward(table, a) ==   \* mutant: e->next->previous is not repaired
  LET e == table.heap[a]
      repaired == [b \in Addr |->
                     CASE b = a          -> Nil
                       [] b = e.previous -> [table.heap[b] EXCEPT !.next = e.next]
                       [] OTHER          -> table.heap[b]]
  IN  [heap |-> repaired,
       buckets |-> [table.buckets EXCEPT
                      ![SlotOf[e.key]].head = IF @ = a THEN e.next ELSE @,
                      ![SlotOf[e.key]].count = @ - 1]]

Unlink(table, a) ==
  LET e == table.heap[a]
      repaired == [b \in Addr |->
                     CASE b = a          -> Nil
                       [] b = e.previous -> [table.heap[b] EXCEPT !.next = e.next]
                       [] b = e.next     -> [table.heap[b] EXCEPT !.previous = e.previous]
                       [] OTHER          -> table.heap[b]]
  IN  [heap |-> repaired,
       buckets |-> [table.buckets EXCEPT
                      ![SlotOf[e.key]].head = IF @ = a THEN e.next ELSE @,
                      ![SlotOf[e.key]].count = @ - 1]]

LinkUncounted(table, a, k, v) ==   \* mutant: count = 1 is forgotten
  LET first == table.buckets[SlotOf[k]].head
      e == [key |-> k, value |-> v, next |-> first, previous |-> Nil]
  IN  [heap |-> [b \in Addr |->
                   CASE b = a     -> e
                     [] b = first -> [table.heap[b] EXCEPT !.previous = a]
                     [] OTHER     -> table.heap[b]],
       buckets |-> [table.buckets EXCEPT
                      ![SlotOf[k]].head = a,
                      ![SlotOf[k]].count = IF first = Nil THEN @ ELSE @ + 1]]

LinkAlone(table, a, k, v) ==   \* mutant: e->next is not set
  LET first == table.buckets[SlotOf[k]].head
      e == [key |-> k, value |-> v, next |-> Nil, previous |-> Nil]
  IN  [heap |-> [b \in Addr |->
                   CASE b = a     -> e
                     [] b = first -> [table.heap[b] EXCEPT !.previous = a]
                     [] OTHER     -> table.heap[b]],
       buckets |-> [table.buckets EXCEPT
                      ![SlotOf[k]].head = a,
                      ![SlotOf[k]].count = IF first = Nil THEN 1 ELSE @ + 1]]

\* createElement() at address a and the end of setElement(), where no element
\* of the bucket matches: the element becomes the head.
Link(table, a, k, v) ==
  LET first == table.buckets[SlotOf[k]].head
      e == [key |-> k, value |-> v, next |-> first, previous |-> Nil]
  IN  [heap |-> [b \in Addr |->
                   CASE b = a     -> e
                     [] b = first -> [table.heap[b] EXCEPT !.previous = a]
                     [] OTHER     -> table.heap[b]],
       buckets |-> [table.buckets EXCEPT
                      ![SlotOf[k]].head = a,
                      ![SlotOf[k]].count = IF first = Nil THEN 1 ELSE @ + 1]]

----------------------------------------------------------------------------
Table == [heap |-> heap, buckets |-> buckets]

ClearedNever(k, read) == Table   \* mutant

ClearedOnce(k, read) ==   \* mutant: setElement() does not start again
  LET a == Found(k, read) IN IF a = Nil THEN Table ELSE Unlink(Table, a)

\* setElement() calls itself after each element that it deletes, until none
\* matches.  The del() in it searches once more, by the whole key of the
\* element.  If that one is shorter than k, the first that begins with its key
\* need not begin with k: all of those go that are before it.
Superseded(k, read) ==
  LET c == Chain(SlotOf[k]) IN
  {c[i] : i \in {i \in DOMAIN c :
     \E m \in i .. Len(c) :
       Matches(c[m], k, read) /\ Matches(c[i], heap[c[m]].key, read)}}

Cleared(k, read) ==
  LET c == Chain(SlotOf[k])
      gone == Superseded(k, read)
      table[i \in 0 .. Len(c)] ==
        IF i = 0 THEN Table
        ELSE IF c[i] \in gone THEN Unlink(table[i - 1], c[i])
        ELSE table[i - 1]
  IN  table[Len(c)]

Set(k, v) ==
  \E a \in Addr, read \in Memory(k) :
    LET table == Link(Cleared(k, read), a, k, v) IN
    /\ heap[a] = Nil
    /\ heap' = table.heap
    /\ buckets' = table.buckets
    /\ UNCHANGED reply

Get(k) ==
  \E read \in Memory(k) :
    LET a == Found(k, read) IN
    /\ reply' = IF a = Nil THEN Returned(FALSE)
                ELSE [ok |-> TRUE, key |-> heap[a].key, value |-> heap[a].value]
    /\ UNCHANGED <<heap, buckets>>

Del(k) ==
  \E read \in Memory(k) :
    LET a == Found(k, read)
        table == IF a = Nil THEN Table ELSE Unlink(Table, a)
    IN
    /\ heap' = table.heap
    /\ buckets' = table.buckets
    /\ reply' = Returned(a # Nil)

\* init()
Init ==
  /\ heap = [a \in Addr |-> Nil]
  /\ buckets = [s \in Slot |-> [head |-> Nil, count |-> 0]]
  /\ reply = Returned(FALSE)

Next == \E k \in Key : Get(k) \/ Del(k) \/ \E v \in Value : Set(k, v)

Spec == Init /\ [][Next]_vars

----------------------------------------------------------------------------
\* What the pointers of setElement() and del() add up to: every bucket is a
\* list without cycles and dangling pointers, on which previous undoes next,
\* of elements that hash to the bucket.
ListsSound ==
  \A s \in Slot :
    LET c == Chain(s) IN
    /\ IsInjective(c)
    /\ \A i \in DOMAIN c :
         /\ heap[c[i]] # Nil
         /\ SlotOf[heap[c[i]].key] = s
         /\ heap[c[i]].previous = IF i = 1 THEN Nil ELSE c[i - 1]
         /\ heap[c[i]].next = IF i = Len(c) THEN Nil ELSE c[i + 1]

\* No element is lost or counted wrongly: what setElement() has allocated and
\* del() has not freed is on the list of its bucket, and count is its length.
AllReachable ==
  /\ \A s \in Slot : buckets[s].count = Len(Chain(s))
  /\ \A a \in Addr : heap[a] # Nil => a \in ToSet(Chain(SlotOf[heap[a].key]))

\* setElement() replaces: a value that was overwritten does not stay behind the
\* new one, where a del() of the new one would uncover it.
OneElementPerKey ==
  \A a, b \in Addr :
    heap[a] # Nil /\ heap[b] # Nil /\ heap[a].key = heap[b].key => a = b

\* The table is the dictionary that Dictionary describes, with the confusion of
\* keys that it allows: set(), get() and del() on pointers do what it says.
Dict == INSTANCE Dictionary WITH
  contents <- [k \in Key |->
                 IF \E a \in Addr : heap[a] # Nil /\ heap[a].key = k
                 THEN heap[CHOOSE a \in Addr : heap[a] # Nil /\ heap[a].key = k].value
                 ELSE Nil]

ImplementsDictionary == Dict!DictSpec
================================================================================
