-------------------------------- MODULE HttpProofs -----------------------------
(****************************************************************************)
(* The hash table, for any keys, any number of buckets and any finite heap, *)
(* and the message board on top of it.                                      *)
(****************************************************************************)
EXTENDS Http, NumberProofs, FiniteSetTheorems

----------------------------------------------------------------------------
(****************************************************************************)
(* Lists.  A table t has fields heap and buckets, like Table and the        *)
(* results of Link and Unlink.                                              *)
(****************************************************************************)

Typed(t) ==
  /\ t.heap \in [Addr -> Element \cup {Nil}]
  /\ t.buckets \in [Slot -> [head : Addr \cup {Nil}, count : Nat]]

\* Bucket s is the list of the n elements at c, and no other element belongs to it.
IsList(t, s, n, c) ==
  /\ n \in Nat /\ c \in [1 .. n -> Addr]
  /\ \A i, j \in 1 .. n : c[i] = c[j] => i = j
  /\ t.buckets[s].head = IF n = 0 THEN Nil ELSE c[1]
  /\ t.buckets[s].count = n
  /\ \A i \in 1 .. n :
       /\ t.heap[c[i]] # Nil
       /\ SlotOf[t.heap[c[i]].key] = s
       /\ t.heap[c[i]].previous = IF i = 1 THEN Nil ELSE c[i - 1]
       /\ t.heap[c[i]].next = IF i = n THEN Nil ELSE c[i + 1]
  /\ \A a \in Addr :
       t.heap[a] # Nil /\ SlotOf[t.heap[a].key] = s => \E i \in 1 .. n : c[i] = a

Sound(t) == Typed(t) /\ \A s \in Slot : \E n, c : IsList(t, s, n, c)

\* What is in u is what is in t, but for the elements at gone.
Keeps(t, u, gone) ==
  \A a \in Addr :
    IF a \in gone THEN u.heap[a] = Nil
    ELSE /\ u.heap[a] = Nil <=> t.heap[a] = Nil
         /\ u.heap[a].key = t.heap[a].key /\ u.heap[a].value = t.heap[a].value

\* A list is not longer than the heap.
LEMMA ListFits ==
  ASSUME NEW t, NEW s, NEW n, NEW c, IsList(t, s, n, c)
  PROVE  Cardinality(Addr) \in Nat /\ n <= Cardinality(Addr)
  <1>1. c \in Injection(1 .. n, Addr) /\ n \in Nat
    BY DEF IsList, Injection, IsInjective
  <1>2. Cardinality(1 .. n) <= Cardinality(Addr) /\ Cardinality(Addr) \in Nat
    BY <1>1, AddrAssumption, FS_Injection, FS_CardinalityType
  <1>3. Cardinality(1 .. n) = n
    BY <1>1, FS_Interval
  <1> QED BY <1>2, <1>3

\* What the while loops run through is the list.
LEMMA ChainIsList ==
  ASSUME NEW s, NEW n, NEW c, IsList(Table, s, n, c)
  PROVE  Chain(s) = c /\ Len(Chain(s)) = n /\ DOMAIN Chain(s) = 1 .. n
  <1> DEFINE N == Cardinality(Addr)
             Visit(f) == [i \in 1 .. N |->
                            IF i = 1 THEN buckets[s].head
                            ELSE IF f[i - 1] = Nil \/ heap[f[i - 1]] = Nil THEN Nil
                            ELSE heap[f[i - 1]].next]
             at == CHOOSE f : f = Visit(f)
             g == [i \in 1 .. N |-> IF i <= n THEN c[i] ELSE Nil]
  <1>1. n \in Nat /\ N \in Nat /\ n <= N
    <2>1. n \in Nat
      BY DEF IsList
    <2> QED BY <2>1, ListFits
  <1>2. /\ c \in [1 .. n -> Addr]
        /\ buckets[s].head = IF n = 0 THEN Nil ELSE c[1]
        /\ \A i \in 1 .. n : /\ c[i] # Nil /\ heap[c[i]] # Nil
                             /\ heap[c[i]].next = IF i = n THEN Nil ELSE c[i + 1]
    BY NilAssumption DEF IsList, Table
  <1>3. g = Visit(g)
    <2> SUFFICES ASSUME NEW i \in 1 .. N
                 PROVE  g[i] = Visit(g)[i]
      OBVIOUS
    <2>1. CASE i = 1
      BY <1>1, <1>2, <2>1
    <2>2. CASE i # 1 /\ i - 1 <= n
      <3>1. i - 1 \in 1 .. n /\ i - 1 \in 1 .. N /\ (i <= n <=> i - 1 # n) /\ (i - 1) + 1 = i
        BY <1>1, <2>2
      <3>2. g[i - 1] = c[i - 1]
        BY <3>1
      <3> QED BY <1>2, <2>2, <3>1, <3>2
    <2>3. CASE i # 1 /\ ~ (i - 1 <= n)
      <3>1. i - 1 \in 1 .. N /\ ~ (i <= n)
        BY <1>1, <2>3
      <3> QED BY <2>3, <3>1
    <2> QED BY <2>1, <2>2, <2>3
  <1>4. at = Visit(at)
    BY <1>3
  <1>5. at = g
    <2> HIDE DEF at
    <2>1. at = [i \in 1 .. N |-> at[i]]
      BY <1>4
    <2> DEFINE T == {i \in 1 .. N : at[i] # g[i]}
    <2>2. T = {}
      <3> SUFFICES ASSUME T # {}
                   PROVE  FALSE
        OBVIOUS
      <3>1. T \subseteq Nat
        BY <1>1
      <3>2. PICK x \in T : \A y \in T : x <= y
        BY <3>1, LeastNumber
      <3>3. x \in 1 .. N /\ at[x] # g[x]
        OBVIOUS
      <3>4. x = 1 \/ (x - 1 \in 1 .. N /\ ~ (x <= x - 1))
        BY <1>1, <3>3
      <3>5. x = 1 \/ at[x - 1] = g[x - 1]
        BY <3>2, <3>4
      <3>6. Visit(at)[x] = Visit(g)[x]
        <4> HIDE DEF g
        <4> QED BY <3>3, <3>5
      <3>7. at[x] = Visit(at)[x] /\ g[x] = Visit(g)[x]
        <4> HIDE DEF Visit, g
        <4> QED BY <1>3, <1>4
      <3> QED BY <3>3, <3>6, <3>7
    <2>3. \A i \in 1 .. N : at[i] = g[i]
      BY <2>2
    <2> QED BY <2>1, <2>3
  <1>6. {j \in DOMAIN at : at[j] # Nil} = 1 .. n
    <2>1. {j \in DOMAIN g : g[j] # Nil} = 1 .. n
      BY <1>1, <1>2
    <2> QED BY <1>5, <2>1
  <1>7. Cardinality(1 .. n) = n
    BY <1>1, FS_Interval
  <1>8. Chain(s) = [i \in 1 .. Cardinality({j \in DOMAIN at : at[j] # Nil}) |-> at[i]]
    BY DEF Chain
  <1>9. Chain(s) = [i \in 1 .. n |-> g[i]]
    <2> HIDE DEF at, g
    <2> QED BY <1>5, <1>6, <1>7, <1>8
  <1>10. [i \in 1 .. n |-> g[i]] = c
    BY <1>1, <1>2
  <1> QED BY <1>1, <1>2, <1>9, <1>10

----------------------------------------------------------------------------
(****************************************************************************)
(* del() takes the element at position p out of the list at c.              *)
(****************************************************************************)

Before(c, p) == IF p = 1 THEN Nil ELSE c[p - 1]
After(c, p, n) == IF p = n THEN Nil ELSE c[p + 1]

\* The neighbours on a list are different and are elements of the bucket.
LEMMA Neighbours ==
  ASSUME NEW t, NEW s, NEW n, NEW c, IsList(t, s, n, c), NEW p \in 1 .. n
  PROVE  /\ c[p] \in Addr /\ t.heap[c[p]] # Nil /\ SlotOf[t.heap[c[p]].key] = s
         /\ t.heap[c[p]].previous = Before(c, p) /\ t.heap[c[p]].next = After(c, p, n)
         /\ \A b \in {Before(c, p), After(c, p, n)} \ {Nil} :
              b \in Addr /\ t.heap[b] # Nil /\ SlotOf[t.heap[b].key] = s /\ b # c[p]
         /\ Before(c, p) = After(c, p, n) => Before(c, p) = Nil
  <1>1. n \in Nat /\ c \in [1 .. n -> Addr] /\ \A i, j \in 1 .. n : c[i] = c[j] => i = j
    BY DEF IsList
  <1>2. \A i \in 1 .. n : t.heap[c[i]] # Nil /\ SlotOf[t.heap[c[i]].key] = s
    BY DEF IsList
  <1>3. t.heap[c[p]].previous = Before(c, p) /\ t.heap[c[p]].next = After(c, p, n)
    BY DEF IsList, Before, After
  <1>4. p # 1 => p - 1 \in 1 .. n /\ p - 1 # p
    BY <1>1
  <1>5. p # n => p + 1 \in 1 .. n /\ p + 1 # p /\ p + 1 # p - 1
    BY <1>1
  <1>6. Before(c, p) # Nil => p # 1 /\ Before(c, p) = c[p - 1]
    BY DEF Before
  <1>7. After(c, p, n) # Nil => p # n /\ After(c, p, n) = c[p + 1]
    BY DEF After
  <1> QED BY <1>1, <1>2, <1>3, <1>4, <1>5, <1>6, <1>7

\* The table after del(), at each address and for each bucket.
Unlinks(t, s, n, c, p, u) ==
  /\ Typed(u)
  /\ Keeps(t, u, {c[p]})
  /\ \A b \in Addr \ {c[p]} : t.heap[b] # Nil =>
       /\ u.heap[b].next = IF b = Before(c, p) THEN After(c, p, n) ELSE t.heap[b].next
       /\ u.heap[b].previous = IF b = After(c, p, n) THEN Before(c, p) ELSE t.heap[b].previous
  /\ \A r \in Slot \ {s} : u.buckets[r] = t.buckets[r]
  /\ u.buckets[s].head = IF p = 1 THEN After(c, p, n) ELSE c[1]
  /\ u.buckets[s].count = n - 1

LEMMA Unlinked ==
  ASSUME NEW t, NEW s \in Slot, NEW n, NEW c, Typed(t), IsList(t, s, n, c), NEW p \in 1 .. n
  PROVE  Unlinks(t, s, n, c, p, Unlink(t, c[p]))
  <1> DEFINE a == c[p]
             prev == Before(c, p)
             nxt == After(c, p, n)
             u == Unlink(t, c[p])
             e == t.heap[a]
  <1>1. /\ a \in Addr /\ e # Nil /\ SlotOf[e.key] = s
        /\ e.previous = prev /\ e.next = nxt
        /\ \A b \in {prev, nxt} \ {Nil} :
             b \in Addr /\ t.heap[b] # Nil /\ SlotOf[t.heap[b].key] = s /\ b # a
        /\ prev = nxt => prev = Nil
    BY Neighbours
  <1>2. /\ n \in Nat /\ p \in Nat /\ n >= 1 /\ c[1] \in Addr
        /\ t.buckets[s].head = c[1] /\ t.buckets[s].count = n
        /\ c[1] = a <=> p = 1
    <2>1. /\ n \in Nat /\ c \in [1 .. n -> Addr]
          /\ \A i, j \in 1 .. n : c[i] = c[j] => i = j
          /\ t.buckets[s].head = IF n = 0 THEN Nil ELSE c[1]
          /\ t.buckets[s].count = n
      BY DEF IsList
    <2>2. n >= 1 /\ n # 0 /\ 1 \in 1 .. n
      BY <2>1
    <2> QED BY <2>1, <2>2
  <1>3. Nil \notin Addr /\ Nil \notin Element
    BY NilAssumption
  <1>4. t.heap \in [Addr -> Element \cup {Nil}]
        /\ t.buckets \in [Slot -> [head : Addr \cup {Nil}, count : Nat]]
    BY DEF Typed
  <1>5. u = [heap |-> u.heap, buckets |-> u.buckets]
        /\ u.heap = [b \in Addr |->
                     CASE b = a          -> Nil
                       [] b = e.previous -> [t.heap[b] EXCEPT !.next = e.next]
                       [] b = e.next     -> [t.heap[b] EXCEPT !.previous = e.previous]
                       [] OTHER          -> t.heap[b]]
        /\ u.buckets = [t.buckets EXCEPT
                      ![SlotOf[e.key]].head = IF @ = a THEN e.next ELSE @,
                      ![SlotOf[e.key]].count = @ - 1]
    BY DEF Unlink
  <1> HIDE DEF u, prev, nxt, a, e
  <1>6. /\ u.heap \in [Addr -> {u.heap[b] : b \in Addr}]
        /\ u.heap[a] = Nil
        /\ prev # Nil => u.heap[prev] = [t.heap[prev] EXCEPT !.next = nxt]
        /\ nxt # Nil => u.heap[nxt] = [t.heap[nxt] EXCEPT !.previous = prev]
        /\ \A b \in Addr \ {a, prev, nxt} : u.heap[b] = t.heap[b]
    BY <1>1, <1>3, <1>5
  <1>7. \A b \in Addr : t.heap[b] # Nil => t.heap[b] \in Element
    BY <1>4
  <1>8. prev \in Addr \cup {Nil} /\ nxt \in Addr \cup {Nil}
    BY <1>1
  <1>9. \A b \in Addr \ {a} : t.heap[b] # Nil =>
          /\ u.heap[b] \in Element
          /\ u.heap[b].key = t.heap[b].key /\ u.heap[b].value = t.heap[b].value
          /\ u.heap[b].next = IF b = prev THEN nxt ELSE t.heap[b].next
          /\ u.heap[b].previous = IF b = nxt THEN prev ELSE t.heap[b].previous
    <2> SUFFICES ASSUME NEW b \in Addr \ {a}, t.heap[b] # Nil
                 PROVE  /\ u.heap[b] \in Element
                        /\ u.heap[b].key = t.heap[b].key /\ u.heap[b].value = t.heap[b].value
                        /\ u.heap[b].next = IF b = prev THEN nxt ELSE t.heap[b].next
                        /\ u.heap[b].previous = IF b = nxt THEN prev ELSE t.heap[b].previous
      OBVIOUS
    <2>1. t.heap[b] \in Element
      BY <1>7
    <2>2. CASE b = prev
      BY <1>1, <1>3, <1>6, <1>8, <2>1, <2>2 DEF Element
    <2>3. CASE b = nxt
      BY <1>1, <1>3, <1>6, <1>8, <2>1, <2>3 DEF Element
    <2>4. CASE b # prev /\ b # nxt
      BY <1>6, <2>1, <2>4
    <2> QED BY <2>2, <2>3, <2>4
  <1>10. \A b \in Addr : b = a \/ t.heap[b] = Nil => u.heap[b] = Nil
    BY <1>1, <1>3, <1>6
  <1>11. Keeps(t, u, {a})
    <2>1. \A b \in Addr \ {a} : t.heap[b] = Nil => u.heap[b] = t.heap[b]
      BY <1>10
    <2>2. \A b \in Addr \ {a} : t.heap[b] # Nil => u.heap[b] # Nil
      BY <1>3, <1>9
    <2> QED BY <1>9, <1>10, <2>1, <2>2 DEF Keeps
  <1>12. /\ u.buckets \in [Slot -> [head : Addr \cup {Nil}, count : Nat]]
         /\ \A r \in Slot \ {s} : u.buckets[r] = t.buckets[r]
         /\ u.buckets[s].head = IF p = 1 THEN nxt ELSE c[1]
         /\ u.buckets[s].count = n - 1
    <2>1. t.buckets[s] \in [head : Addr \cup {Nil}, count : Nat]
      BY <1>4
    <2>2. u.buckets[s] = [t.buckets[s] EXCEPT !.head = IF @ = a THEN nxt ELSE @, !.count = @ - 1]
      BY <1>1, <1>4, <1>5
    <2>3. /\ u.buckets[s].head = IF p = 1 THEN nxt ELSE c[1]
          /\ u.buckets[s].count = n - 1
          /\ u.buckets[s] \in [head : Addr \cup {Nil}, count : Nat]
      <3>1. t.buckets[s].head = c[1] /\ t.buckets[s].count = n
        BY <1>2
      <3>2. u.buckets[s].head = IF c[1] = a THEN nxt ELSE c[1]
        BY <2>1, <2>2, <3>1
      <3>3. u.buckets[s].count = n - 1
        BY <2>1, <2>2, <3>1
      <3>4. n - 1 \in Nat
        BY <1>2
      <3>5. u.buckets[s] \in [head : Addr \cup {Nil}, count : Nat]
        <4>1. nxt \in Addr \cup {Nil} /\ t.buckets[s].count - 1 \in Nat
          BY <1>8, <3>1, <3>4
        <4>2. \A h \in Addr \cup {Nil}, m \in Nat :
                [t.buckets[s] EXCEPT !.head = h, !.count = m]
                  \in [head : Addr \cup {Nil}, count : Nat]
          BY <2>1
        <4> QED BY <2>1, <2>2, <4>1, <4>2
      <3> QED BY <1>2, <3>2, <3>3, <3>5
    <2>4. \A r \in Slot \ {s} : u.buckets[r] = t.buckets[r]
      BY <1>1, <1>4, <1>5
    <2>5. u.buckets = [r \in Slot |-> u.buckets[r]]
      BY <1>4, <1>5
    <2> QED BY <1>4, <2>3, <2>4, <2>5
  <1>13. u.heap \in [Addr -> Element \cup {Nil}]
    BY <1>6, <1>9, <1>10
  <1>14. Typed(u)
    BY <1>12, <1>13 DEF Typed
  <1> QED BY <1>9, <1>11, <1>12, <1>14 DEF u, a, prev, nxt, Unlinks

Without(c, p, n) == [i \in 1 .. n - 1 |-> IF i < p THEN c[i] ELSE c[i + 1]]

\* The bucket is the list without the element.
LEMMA UnlinkedList ==
  ASSUME NEW t, NEW s \in Slot, NEW n, NEW c, Typed(t), IsList(t, s, n, c), NEW p \in 1 .. n
  PROVE  IsList(Unlink(t, c[p]), s, n - 1, Without(c, p, n))
  <1> DEFINE u == Unlink(t, c[p])
             d == Without(c, p, n)
             prev == Before(c, p)
             nxt == After(c, p, n)
  <1>1. n \in Nat /\ c \in [1 .. n -> Addr] /\ \A i, j \in 1 .. n : c[i] = c[j] => i = j
    BY DEF IsList
  <1>2. \A i \in 1 .. n : /\ t.heap[c[i]] # Nil
                          /\ SlotOf[t.heap[c[i]].key] = s
                          /\ t.heap[c[i]].previous = IF i = 1 THEN Nil ELSE c[i - 1]
                          /\ t.heap[c[i]].next = IF i = n THEN Nil ELSE c[i + 1]
    BY DEF IsList
  <1>3. /\ Keeps(t, u, {c[p]})
        /\ \A b \in Addr \ {c[p]} : t.heap[b] # Nil =>
              /\ u.heap[b].next = IF b = prev THEN nxt ELSE t.heap[b].next
              /\ u.heap[b].previous = IF b = nxt THEN prev ELSE t.heap[b].previous
        /\ u.buckets[s].head = IF p = 1 THEN nxt ELSE c[1]
        /\ u.buckets[s].count = n - 1
    <2>1. Unlinks(t, s, n, c, p, u)
      BY Unlinked
    <2> QED BY <2>1 DEF Unlinks
  <1>4. \A b \in Addr : u.heap[b] # Nil =>
          b # c[p] /\ t.heap[b] # Nil /\ u.heap[b].key = t.heap[b].key
    BY <1>3 DEF Keeps
  <1>5. \A b \in Addr \ {c[p]} : t.heap[b] # Nil =>
          u.heap[b] # Nil /\ u.heap[b].key = t.heap[b].key
    BY <1>3 DEF Keeps
  <1>6. prev = (IF p = 1 THEN Nil ELSE c[p - 1]) /\ nxt = IF p = n THEN Nil ELSE c[p + 1]
    BY DEF Before, After
  <1>7. /\ n - 1 \in Nat
        /\ \A i \in 1 .. n - 1 : d[i] = IF i < p THEN c[i] ELSE c[i + 1]
        /\ d = [i \in 1 .. n - 1 |-> d[i]]
    BY <1>1 DEF Without
  <1>8. \A i \in 1 .. n - 1 : i \in 1 .. n /\ i + 1 \in 1 .. n
    BY <1>1
  <1>9. Nil \notin Addr
    BY NilAssumption
  <1> HIDE DEF u, d, prev, nxt
  <1>10. d \in [1 .. n - 1 -> Addr]
    BY <1>1, <1>7, <1>8
  <1>11. \A i, j \in 1 .. n - 1 : d[i] = d[j] => i = j
    <2> SUFFICES ASSUME NEW i \in 1 .. n - 1, NEW j \in 1 .. n - 1, d[i] = d[j]
                 PROVE  i = j
      OBVIOUS
    <2>1. (IF i < p THEN i ELSE i + 1) = IF j < p THEN j ELSE j + 1
      BY <1>1, <1>7, <1>8
    <2> QED BY <2>1
  <1>12. u.buckets[s].head = IF n - 1 = 0 THEN Nil ELSE d[1]
    <2>1. CASE p = 1
      <3>1. n - 1 = 0 <=> p = n
        BY <1>1, <2>1
      <3>2. n - 1 # 0 => d[1] = c[2]
        BY <1>1, <1>7, <2>1
      <3> QED BY <1>3, <1>6, <2>1, <3>1, <3>2
    <2>2. CASE p # 1
      BY <1>1, <1>3, <1>7, <2>2
    <2> QED BY <2>1, <2>2
  <1>13. ASSUME NEW i \in 1 .. n - 1
         PROVE  /\ u.heap[d[i]] # Nil
                /\ SlotOf[u.heap[d[i]].key] = s
                /\ u.heap[d[i]].previous = IF i = 1 THEN Nil ELSE d[i - 1]
                /\ u.heap[d[i]].next = IF i = n - 1 THEN Nil ELSE d[i + 1]
    <2> DEFINE q == IF i < p THEN i ELSE i + 1
    <2>1. q \in 1 .. n /\ q # p /\ d[i] = c[q] /\ c[q] # c[p] /\ c[q] \in Addr
      BY <1>1, <1>7, <1>8
    <2>2. /\ u.heap[d[i]] # Nil
          /\ SlotOf[u.heap[d[i]].key] = s
      BY <1>2, <1>5, <2>1
    <2>3. /\ u.heap[d[i]].next = IF c[q] = prev THEN nxt ELSE IF q = n THEN Nil ELSE c[q + 1]
          /\ u.heap[d[i]].previous = IF c[q] = nxt THEN prev ELSE IF q = 1 THEN Nil ELSE c[q - 1]
      BY <1>2, <1>3, <2>1
    <2>4. p # 1 => p - 1 \in 1 .. n
      BY <1>1
    <2>5. p # n => p + 1 \in 1 .. n
      BY <1>1
    <2>6. c[q] = prev <=> (p # 1 /\ q = p - 1)
      BY <1>1, <1>6, <1>9, <2>1, <2>4
    <2>7. c[q] = nxt <=> (p # n /\ q = p + 1)
      BY <1>1, <1>6, <1>9, <2>1, <2>5
    <2> HIDE DEF q
    <2>8. u.heap[d[i]].previous = IF i = 1 THEN Nil ELSE d[i - 1]
      <3>1. i # 1 => i - 1 \in 1 .. n - 1
        BY <1>1
      <3>2. i # 1 => d[i - 1] = IF i - 1 < p THEN c[i - 1] ELSE c[i]
        BY <1>7, <3>1
      <3>3. CASE i < p
        BY <1>1, <2>3, <2>7, <3>2, <3>3 DEF q
      <3>4. CASE i = p
        BY <1>1, <1>6, <2>3, <2>7, <3>2, <3>4 DEF q
      <3>5. CASE i > p
        BY <1>1, <2>3, <2>7, <3>2, <3>5 DEF q
      <3> QED BY <1>1, <3>3, <3>4, <3>5
    <2>9. u.heap[d[i]].next = IF i = n - 1 THEN Nil ELSE d[i + 1]
      <3>1. i # n - 1 => i + 1 \in 1 .. n - 1
        BY <1>1
      <3>2. i # n - 1 => d[i + 1] = IF i + 1 < p THEN c[i + 1] ELSE c[i + 2]
        BY <1>7, <3>1
      <3>3. CASE i + 1 < p
        BY <1>1, <2>3, <2>6, <3>2, <3>3 DEF q
      <3>4. CASE i + 1 = p
        BY <1>1, <1>6, <2>3, <2>6, <3>2, <3>4 DEF q
      <3>5. CASE i + 1 > p
        BY <1>1, <2>3, <2>6, <3>2, <3>5 DEF q
      <3> QED BY <1>1, <3>3, <3>4, <3>5
    <2> QED BY <2>2, <2>8, <2>9
  <1>14. ASSUME NEW b \in Addr, u.heap[b] # Nil, SlotOf[u.heap[b].key] = s
         PROVE  \E i \in 1 .. n - 1 : d[i] = b
    <2>1. b # c[p] /\ t.heap[b] # Nil /\ SlotOf[t.heap[b].key] = s
      BY <1>4, <1>14
    <2>2. PICK j \in 1 .. n : c[j] = b
      BY <2>1 DEF IsList
    <2>3. j # p
      BY <2>1, <2>2
    <2>4. CASE j < p
      <3>1. j \in 1 .. n - 1
        BY <1>1, <2>4
      <3> QED BY <1>7, <2>2, <2>4, <3>1
    <2>5. CASE j > p
      <3>1. j - 1 \in 1 .. n - 1 /\ ~ (j - 1 < p) /\ (j - 1) + 1 = j
        BY <1>1, <2>5
      <3> QED BY <1>7, <2>2, <3>1
    <2> QED BY <1>1, <2>3, <2>4, <2>5
  <1> QED BY <1>3, <1>7, <1>10, <1>11, <1>12, <1>13, <1>14 DEF u, d, IsList

\* The lists of the other buckets are what they were.
LEMMA UnlinkedOther ==
  ASSUME NEW t, NEW s \in Slot, NEW n, NEW c, Typed(t), IsList(t, s, n, c), NEW p \in 1 .. n
  PROVE  \A r \in Slot \ {s} : \A m, d : IsList(t, r, m, d) => IsList(Unlink(t, c[p]), r, m, d)
  <1> DEFINE u == Unlink(t, c[p])
             prev == Before(c, p)
             nxt == After(c, p, n)
  <1>1. /\ Keeps(t, u, {c[p]})
        /\ \A b \in Addr \ {c[p]} : t.heap[b] # Nil =>
              /\ u.heap[b].next = IF b = prev THEN nxt ELSE t.heap[b].next
              /\ u.heap[b].previous = IF b = nxt THEN prev ELSE t.heap[b].previous
        /\ \A r \in Slot \ {s} : u.buckets[r] = t.buckets[r]
    <2>1. Unlinks(t, s, n, c, p, u)
      BY Unlinked
    <2> QED BY <2>1 DEF Unlinks
  <1> SUFFICES ASSUME NEW r \in Slot \ {s}, NEW m, NEW d, IsList(t, r, m, d)
               PROVE  IsList(u, r, m, d)
    OBVIOUS
  <1>2. /\ SlotOf[t.heap[c[p]].key] = s /\ Nil \notin Addr
        /\ \A b \in {prev, nxt} \ {Nil} : SlotOf[t.heap[b].key] = s
    BY Neighbours, NilAssumption
  <1>3. \A b \in Addr : t.heap[b] # Nil /\ SlotOf[t.heap[b].key] = r =>
          b # c[p] /\ b # prev /\ b # nxt
    BY <1>2
  <1>4. \A b \in Addr : u.heap[b] # Nil =>
          b # c[p] /\ t.heap[b] # Nil /\ u.heap[b].key = t.heap[b].key
    BY <1>1 DEF Keeps
  <1>5. \A b \in Addr : t.heap[b] # Nil /\ SlotOf[t.heap[b].key] = r =>
          /\ u.heap[b] # Nil
          /\ u.heap[b].key = t.heap[b].key
          /\ u.heap[b].next = t.heap[b].next
          /\ u.heap[b].previous = t.heap[b].previous
    BY <1>1, <1>3 DEF Keeps
  <1> HIDE DEF u, prev, nxt
  <1>6. /\ m \in Nat /\ d \in [1 .. m -> Addr]
        /\ \A i, j \in 1 .. m : d[i] = d[j] => i = j
        /\ t.buckets[r].head = IF m = 0 THEN Nil ELSE d[1]
        /\ t.buckets[r].count = m
        /\ \A i \in 1 .. m :
             /\ t.heap[d[i]] # Nil
             /\ SlotOf[t.heap[d[i]].key] = r
             /\ t.heap[d[i]].previous = IF i = 1 THEN Nil ELSE d[i - 1]
             /\ t.heap[d[i]].next = IF i = m THEN Nil ELSE d[i + 1]
        /\ \A b \in Addr :
             t.heap[b] # Nil /\ SlotOf[t.heap[b].key] = r => \E i \in 1 .. m : d[i] = b
    BY DEF IsList
  <1>7. \A i \in 1 .. m : d[i] \in Addr
    BY <1>6
  <1>8. \A i \in 1 .. m :
             /\ u.heap[d[i]] # Nil
             /\ SlotOf[u.heap[d[i]].key] = r
             /\ u.heap[d[i]].previous = IF i = 1 THEN Nil ELSE d[i - 1]
             /\ u.heap[d[i]].next = IF i = m THEN Nil ELSE d[i + 1]
    <2> TAKE i \in 1 .. m
    <2>1. d[i] \in Addr /\ t.heap[d[i]] # Nil /\ SlotOf[t.heap[d[i]].key] = r
      BY <1>6, <1>7
    <2>2. /\ u.heap[d[i]] # Nil
          /\ u.heap[d[i]].key = t.heap[d[i]].key
          /\ u.heap[d[i]].next = t.heap[d[i]].next
          /\ u.heap[d[i]].previous = t.heap[d[i]].previous
      BY <1>5, <2>1
    <2>3. /\ t.heap[d[i]].previous = IF i = 1 THEN Nil ELSE d[i - 1]
          /\ t.heap[d[i]].next = IF i = m THEN Nil ELSE d[i + 1]
      BY <1>6
    <2> QED BY <2>1, <2>2, <2>3
  <1>9. \A b \in Addr :
             u.heap[b] # Nil /\ SlotOf[u.heap[b].key] = r => \E i \in 1 .. m : d[i] = b
    BY <1>4, <1>6
  <1> QED BY <1>1, <1>6, <1>8, <1>9 DEF u, IsList

\* del() keeps the lists, and all elements but its own.
LEMMA UnlinkSound ==
  ASSUME NEW t, Sound(t), NEW a \in Addr, t.heap[a] # Nil
  PROVE  Sound(Unlink(t, a)) /\ Keeps(t, Unlink(t, a), {a})
  <1> DEFINE s == SlotOf[t.heap[a].key]
  <1>1. Typed(t) /\ \A r \in Slot : \E n, c : IsList(t, r, n, c)
    BY DEF Sound
  <1>2. s \in Slot
    <2>1. t.heap[a] \in Element
      BY <1>1 DEF Typed
    <2> QED BY <2>1, SlotOfAssumption DEF Element
  <1> HIDE DEF s
  <1>3. PICK n, c : IsList(t, s, n, c)
    BY <1>1, <1>2
  <1>4. PICK p \in 1 .. n : c[p] = a
    BY <1>3 DEF IsList, s
  <1>5. Typed(Unlink(t, c[p])) /\ Keeps(t, Unlink(t, c[p]), {c[p]})
    <2>1. Unlinks(t, s, n, c, p, Unlink(t, c[p]))
      BY <1>1, <1>2, <1>3, Unlinked
    <2> QED BY <2>1 DEF Unlinks
  <1>6. IsList(Unlink(t, c[p]), s, n - 1, Without(c, p, n))
    BY <1>1, <1>2, <1>3, UnlinkedList
  <1>7. ASSUME NEW r \in Slot \ {s}
        PROVE  \E m, d : IsList(Unlink(t, c[p]), r, m, d)
    <2>1. PICK m, d : IsList(t, r, m, d)
      BY <1>1
    <2>2. IsList(Unlink(t, c[p]), r, m, d)
      BY <1>1, <1>2, <1>3, <1>7, <2>1, UnlinkedOther
    <2> QED BY <2>2
  <1>8. \A r \in Slot : \E m, d : IsList(Unlink(t, c[p]), r, m, d)
    BY <1>6, <1>7
  <1> QED BY <1>4, <1>5, <1>8 DEF Sound

----------------------------------------------------------------------------
(****************************************************************************)
(* The end of setElement() puts an element at the head of its list.         *)
(****************************************************************************)

\* What is in u is what is in t, and a new element at a.
Adds(t, u, a, k, v) ==
  /\ u.heap[a] # Nil /\ u.heap[a].key = k /\ u.heap[a].value = v
  /\ \A b \in Addr \ {a} :
       /\ u.heap[b] = Nil <=> t.heap[b] = Nil
       /\ u.heap[b].key = t.heap[b].key /\ u.heap[b].value = t.heap[b].value

HeadOf(c, n) == IF n = 0 THEN Nil ELSE c[1]

Links(t, s, n, c, a, k, v, u) ==
  /\ Typed(u)
  /\ Adds(t, u, a, k, v)
  /\ u.heap[a].next = HeadOf(c, n) /\ u.heap[a].previous = Nil
  /\ \A b \in Addr \ {a} : t.heap[b] # Nil =>
       /\ u.heap[b].next = t.heap[b].next
       /\ u.heap[b].previous = IF b = HeadOf(c, n) THEN a ELSE t.heap[b].previous
  /\ \A r \in Slot \ {s} : u.buckets[r] = t.buckets[r]
  /\ u.buckets[s].head = a
  /\ u.buckets[s].count = n + 1

\* The table at the end of setElement(), at each address and for each bucket.
LEMMA Linked ==
  ASSUME NEW t, NEW n, NEW c, NEW a \in Addr, NEW k \in Key, NEW v \in Value,
         Typed(t), IsList(t, SlotOf[k], n, c), t.heap[a] = Nil
  PROVE  Links(t, SlotOf[k], n, c, a, k, v, Link(t, a, k, v))
  <1> DEFINE s == SlotOf[k]
             u == Link(t, a, k, v)
             first == HeadOf(c, n)
             e == [key |-> k, value |-> v, next |-> first, previous |-> Nil]
  <1>1. /\ s \in Slot /\ n \in Nat
        /\ t.buckets[s].head = first /\ t.buckets[s].count = n
        /\ first # Nil => first \in Addr /\ t.heap[first] # Nil
        /\ first = Nil <=> n = 0
    <2>1. /\ n \in Nat /\ c \in [1 .. n -> Addr]
          /\ t.buckets[s].head = IF n = 0 THEN Nil ELSE c[1]
          /\ t.buckets[s].count = n
          /\ \A i \in 1 .. n : t.heap[c[i]] # Nil
      BY DEF IsList
    <2>2. n # 0 => 1 \in 1 .. n
      BY <2>1
    <2> QED BY <2>1, <2>2, SlotOfAssumption, NilAssumption DEF HeadOf
  <1>2. Nil \notin Addr /\ Nil \notin Element
    BY NilAssumption
  <1>3. t.heap \in [Addr -> Element \cup {Nil}]
        /\ t.buckets \in [Slot -> [head : Addr \cup {Nil}, count : Nat]]
    BY DEF Typed
  <1>4. /\ u.heap = [b \in Addr |->
                   CASE b = a     -> e
                     [] b = first -> [t.heap[b] EXCEPT !.previous = a]
                     [] OTHER     -> t.heap[b]]
        /\ u.buckets = [t.buckets EXCEPT
                      ![s].head = a,
                      ![s].count = IF first = Nil THEN 1 ELSE @ + 1]
    BY <1>1 DEF Link
  <1>5. e \in Element /\ e.key = k /\ e.value = v /\ e.next = first /\ e.previous = Nil
    BY <1>1 DEF Element
  <1> HIDE DEF u, e, first, s
  <1>6. /\ u.heap = [b \in Addr |-> u.heap[b]]
        /\ u.heap[a] = e
        /\ first # Nil => u.heap[first] = [t.heap[first] EXCEPT !.previous = a]
        /\ \A b \in Addr \ {a, first} : u.heap[b] = t.heap[b]
    BY <1>1, <1>2, <1>4
  <1>7. \A b \in Addr : t.heap[b] # Nil => t.heap[b] \in Element
    BY <1>3
  <1>8. \A b \in Addr \ {a} : t.heap[b] # Nil =>
          /\ u.heap[b] \in Element
          /\ u.heap[b].key = t.heap[b].key /\ u.heap[b].value = t.heap[b].value
          /\ u.heap[b].next = t.heap[b].next
          /\ u.heap[b].previous = IF b = first THEN a ELSE t.heap[b].previous
    <2> SUFFICES ASSUME NEW b \in Addr \ {a}, t.heap[b] # Nil
                 PROVE  /\ u.heap[b] \in Element
                        /\ u.heap[b].key = t.heap[b].key /\ u.heap[b].value = t.heap[b].value
                        /\ u.heap[b].next = t.heap[b].next
                        /\ u.heap[b].previous = IF b = first THEN a ELSE t.heap[b].previous
      OBVIOUS
    <2>1. t.heap[b] \in Element
      BY <1>7
    <2>2. CASE b = first
      BY <1>2, <1>6, <2>1, <2>2 DEF Element
    <2>3. CASE b # first
      BY <1>6, <2>1, <2>3
    <2> QED BY <2>2, <2>3
  <1>9. \A b \in Addr \ {a} : t.heap[b] = Nil => u.heap[b] = Nil
    BY <1>1, <1>2, <1>6
  <1>10. Adds(t, u, a, k, v)
    BY <1>2, <1>5, <1>6, <1>8, <1>9 DEF Adds
  <1>11. u.heap \in [Addr -> Element \cup {Nil}]
    BY <1>5, <1>6, <1>8, <1>9
  <1>12. /\ u.buckets \in [Slot -> [head : Addr \cup {Nil}, count : Nat]]
         /\ \A r \in Slot \ {s} : u.buckets[r] = t.buckets[r]
         /\ u.buckets[s].head = a
         /\ u.buckets[s].count = n + 1
    <2>1. t.buckets[s] \in [head : Addr \cup {Nil}, count : Nat]
      BY <1>1, <1>3
    <2>2. u.buckets[s] = [t.buckets[s] EXCEPT !.head = a,
                                              !.count = IF first = Nil THEN 1 ELSE @ + 1]
      BY <1>1, <1>3, <1>4
    <2>3. u.buckets[s].head = a
      BY <2>1, <2>2
    <2>4. u.buckets[s].count = n + 1
      BY <1>1, <2>1, <2>2
    <2>5. u.buckets[s] \in [head : Addr \cup {Nil}, count : Nat]
      <3>1. (IF first = Nil THEN 1 ELSE t.buckets[s].count + 1) \in Nat
        BY <1>1
      <3>2. \A h \in Addr \cup {Nil}, m \in Nat :
              [t.buckets[s] EXCEPT !.head = h, !.count = m]
                \in [head : Addr \cup {Nil}, count : Nat]
        BY <2>1
      <3> QED BY <2>1, <2>2, <3>1, <3>2
    <2>6. \A r \in Slot \ {s} : u.buckets[r] = t.buckets[r]
      BY <1>1, <1>3, <1>4
    <2>7. u.buckets = [r \in Slot |-> u.buckets[r]]
      BY <1>3, <1>4
    <2> QED BY <1>3, <2>3, <2>4, <2>5, <2>6, <2>7
  <1>13. Typed(u)
    BY <1>11, <1>12 DEF Typed
  <1> QED BY <1>5, <1>6, <1>8, <1>10, <1>12, <1>13 DEF u, s, first, Links

With(c, a, n) == [i \in 1 .. n + 1 |-> IF i = 1 THEN a ELSE c[i - 1]]

\* The bucket is the list with the element at its head.
LEMMA LinkedList ==
  ASSUME NEW t, NEW n, NEW c, NEW a \in Addr, NEW k \in Key, NEW v \in Value,
         Typed(t), IsList(t, SlotOf[k], n, c), t.heap[a] = Nil
  PROVE  IsList(Link(t, a, k, v), SlotOf[k], n + 1, With(c, a, n))
  <1> DEFINE s == SlotOf[k]
             u == Link(t, a, k, v)
             d == With(c, a, n)
             first == HeadOf(c, n)
  <1>1. Links(t, s, n, c, a, k, v, u)
    BY Linked
  <1>2. n \in Nat /\ c \in [1 .. n -> Addr] /\ \A i, j \in 1 .. n : c[i] = c[j] => i = j
    BY DEF IsList
  <1>3. \A i \in 1 .. n : /\ t.heap[c[i]] # Nil
                          /\ SlotOf[t.heap[c[i]].key] = s
                          /\ t.heap[c[i]].previous = IF i = 1 THEN Nil ELSE c[i - 1]
                          /\ t.heap[c[i]].next = IF i = n THEN Nil ELSE c[i + 1]
    BY DEF IsList
  <1>4. first = IF n = 0 THEN Nil ELSE c[1]
    BY DEF HeadOf
  <1>5. /\ n + 1 \in Nat
        /\ \A i \in 1 .. n + 1 : d[i] = IF i = 1 THEN a ELSE c[i - 1]
        /\ d = [i \in 1 .. n + 1 |-> d[i]]
    BY <1>2 DEF With
  <1> HIDE DEF u, d, first
  <1>6. /\ u.heap[a] # Nil /\ u.heap[a].key = k
        /\ u.heap[a].next = first /\ u.heap[a].previous = Nil
        /\ \A b \in Addr \ {a} :
             /\ u.heap[b] = Nil <=> t.heap[b] = Nil
             /\ u.heap[b].key = t.heap[b].key
        /\ \A b \in Addr \ {a} : t.heap[b] # Nil =>
             /\ u.heap[b].next = t.heap[b].next
             /\ u.heap[b].previous = IF b = first THEN a ELSE t.heap[b].previous
        /\ u.buckets[s].head = a
        /\ u.buckets[s].count = n + 1
    BY <1>1 DEF Links, Adds, first
  <1>7. \A i \in 2 .. n + 1 : i - 1 \in 1 .. n /\ d[i] = c[i - 1] /\ d[i] \in Addr \ {a}
    <2> TAKE i \in 2 .. n + 1
    <2>1. i - 1 \in 1 .. n /\ i \in 1 .. n + 1 /\ i # 1
      BY <1>2
    <2> QED BY <1>2, <1>3, <1>5, <2>1
  <1>8. \A i \in 1 .. n + 1 : i = 1 \/ i \in 2 .. n + 1
    BY <1>2
  <1>9. 1 \in 1 .. n + 1 /\ d[1] = a
    BY <1>2, <1>5
  <1>10. d \in [1 .. n + 1 -> Addr]
    BY <1>5, <1>7, <1>8, <1>9
  <1>11. \A i, j \in 1 .. n + 1 : d[i] = d[j] => i = j
    <2> SUFFICES ASSUME NEW i \in 1 .. n + 1, NEW j \in 1 .. n + 1, d[i] = d[j]
                 PROVE  i = j
      OBVIOUS
    <2>1. i = 1 <=> j = 1
      BY <1>7, <1>8, <1>9
    <2>2. i # 1 /\ j # 1 => i - 1 = j - 1
      BY <1>2, <1>7, <1>8
    <2> QED BY <2>1, <2>2
  <1>12. ASSUME NEW i \in 1 .. n + 1
         PROVE  /\ u.heap[d[i]] # Nil
                /\ SlotOf[u.heap[d[i]].key] = s
                /\ u.heap[d[i]].previous = IF i = 1 THEN Nil ELSE d[i - 1]
                /\ u.heap[d[i]].next = IF i = n + 1 THEN Nil ELSE d[i + 1]
    <2>1. CASE i = 1
      <3>1. n + 1 = 1 <=> n = 0
        BY <1>2
      <3>2. n # 0 => d[1 + 1] = c[1]
        <4>1. n # 0 => 2 \in 2 .. n + 1 /\ 2 - 1 = 1 /\ 1 + 1 = 2
          BY <1>2
        <4> QED BY <1>7, <4>1
      <3>3. first = IF n + 1 = 1 THEN Nil ELSE d[1 + 1]
        BY <1>4, <3>1, <3>2
      <3> QED BY <1>6, <1>9, <2>1, <3>3
    <2>2. CASE i # 1
      <3> DEFINE j == i - 1
      <3>1. j \in 1 .. n /\ d[i] = c[j] /\ c[j] \in Addr \ {a} /\ j + 1 = i
        BY <1>7, <1>8, <2>2
      <3>2. /\ u.heap[d[i]] # Nil
            /\ SlotOf[u.heap[d[i]].key] = s
            /\ u.heap[d[i]].previous = IF c[j] = first THEN a ELSE IF j = 1 THEN Nil ELSE c[j - 1]
            /\ u.heap[d[i]].next = IF j = n THEN Nil ELSE c[j + 1]
        BY <1>3, <1>6, <3>1
      <3>3. c[j] = first <=> j = 1
        <4>1. n # 0 /\ 1 \in 1 .. n
          BY <1>2, <3>1
        <4> QED BY <1>2, <1>4, <3>1, <4>1
      <3>4. j = 1 => d[i - 1] = a
        BY <1>9
      <3>5. j # 1 => d[i - 1] = c[j - 1]
        <4>1. j # 1 => j \in 2 .. n + 1
          BY <1>2, <3>1
        <4> QED BY <1>7, <4>1
      <3>6. j = n <=> i = n + 1
        BY <1>2, <3>1
      <3>7. j # n => d[i + 1] = c[j + 1]
        <4>1. j # n => i + 1 \in 2 .. n + 1 /\ (i + 1) - 1 = j + 1
          BY <1>2, <3>1
        <4> QED BY <1>7, <4>1
      <3> HIDE DEF j
      <3> QED BY <2>2, <3>2, <3>3, <3>4, <3>5, <3>6, <3>7
    <2> QED BY <2>1, <2>2
  <1>13. ASSUME NEW b \in Addr, u.heap[b] # Nil, SlotOf[u.heap[b].key] = s
         PROVE  \E i \in 1 .. n + 1 : d[i] = b
    <2>1. CASE b = a
      BY <1>9, <2>1
    <2>2. CASE b # a
      <3>1. t.heap[b] # Nil /\ SlotOf[t.heap[b].key] = s
        BY <1>6, <1>13, <2>2
      <3>2. PICK j \in 1 .. n : c[j] = b
        BY <3>1 DEF IsList
      <3>3. j + 1 \in 2 .. n + 1 /\ j + 1 \in 1 .. n + 1 /\ (j + 1) - 1 = j
        BY <1>2
      <3> QED BY <1>7, <3>2, <3>3
    <2> QED BY <2>1, <2>2
  <1>14. u.buckets[s].head = IF n + 1 = 0 THEN Nil ELSE d[1]
    BY <1>2, <1>6, <1>9
  <1> QED BY <1>5, <1>6, <1>10, <1>11, <1>12, <1>13, <1>14 DEF u, d, IsList

LEMMA LinkedOther ==
  ASSUME NEW t, NEW n, NEW c, NEW a \in Addr, NEW k \in Key, NEW v \in Value,
         Typed(t), IsList(t, SlotOf[k], n, c), t.heap[a] = Nil
  PROVE  \A r \in Slot \ {SlotOf[k]} : \A m, d :
           IsList(t, r, m, d) => IsList(Link(t, a, k, v), r, m, d)
  <1> DEFINE s == SlotOf[k]
             u == Link(t, a, k, v)
             first == HeadOf(c, n)
  <1>1. Links(t, s, n, c, a, k, v, u)
    BY Linked
  <1>2. first # Nil => SlotOf[t.heap[first].key] = s
    <2>1. /\ n \in Nat /\ \A i \in 1 .. n : SlotOf[t.heap[c[i]].key] = s
      BY DEF IsList
    <2>2. n # 0 => 1 \in 1 .. n
      BY <2>1
    <2> QED BY <2>1, <2>2 DEF HeadOf
  <1>3. Nil \notin Addr
    BY NilAssumption
  <1> HIDE DEF u, first
  <1> SUFFICES ASSUME NEW r \in Slot \ {s}, NEW m, NEW d, IsList(t, r, m, d)
               PROVE  IsList(u, r, m, d)
    BY DEF u
  <1>4. /\ SlotOf[u.heap[a].key] = s
        /\ \A b \in Addr \ {a} :
             /\ u.heap[b] = Nil <=> t.heap[b] = Nil
             /\ u.heap[b].key = t.heap[b].key
        /\ \A b \in Addr \ {a} : t.heap[b] # Nil =>
             /\ u.heap[b].next = t.heap[b].next
             /\ u.heap[b].previous = IF b = first THEN a ELSE t.heap[b].previous
        /\ u.buckets[r] = t.buckets[r]
    BY <1>1 DEF Links, Adds, first
  <1>5. \A b \in Addr : t.heap[b] # Nil /\ SlotOf[t.heap[b].key] = r =>
          /\ u.heap[b] # Nil
          /\ u.heap[b].key = t.heap[b].key
          /\ u.heap[b].next = t.heap[b].next
          /\ u.heap[b].previous = t.heap[b].previous
    BY <1>2, <1>3, <1>4
  <1>6. \A b \in Addr : u.heap[b] # Nil /\ SlotOf[u.heap[b].key] = r =>
          t.heap[b] # Nil /\ SlotOf[t.heap[b].key] = r
    BY <1>4
  <1>7. /\ m \in Nat /\ d \in [1 .. m -> Addr]
        /\ \A i, j \in 1 .. m : d[i] = d[j] => i = j
        /\ t.buckets[r].head = IF m = 0 THEN Nil ELSE d[1]
        /\ t.buckets[r].count = m
        /\ \A i \in 1 .. m :
             /\ t.heap[d[i]] # Nil
             /\ SlotOf[t.heap[d[i]].key] = r
             /\ t.heap[d[i]].previous = IF i = 1 THEN Nil ELSE d[i - 1]
             /\ t.heap[d[i]].next = IF i = m THEN Nil ELSE d[i + 1]
        /\ \A b \in Addr :
             t.heap[b] # Nil /\ SlotOf[t.heap[b].key] = r => \E i \in 1 .. m : d[i] = b
    BY DEF IsList
  <1>8. \A i \in 1 .. m :
             /\ u.heap[d[i]] # Nil
             /\ SlotOf[u.heap[d[i]].key] = r
             /\ u.heap[d[i]].previous = IF i = 1 THEN Nil ELSE d[i - 1]
             /\ u.heap[d[i]].next = IF i = m THEN Nil ELSE d[i + 1]
    <2> TAKE i \in 1 .. m
    <2>1. d[i] \in Addr /\ t.heap[d[i]] # Nil /\ SlotOf[t.heap[d[i]].key] = r
      BY <1>7
    <2>2. /\ u.heap[d[i]] # Nil
          /\ u.heap[d[i]].key = t.heap[d[i]].key
          /\ u.heap[d[i]].next = t.heap[d[i]].next
          /\ u.heap[d[i]].previous = t.heap[d[i]].previous
      BY <1>5, <2>1
    <2>3. /\ t.heap[d[i]].previous = IF i = 1 THEN Nil ELSE d[i - 1]
          /\ t.heap[d[i]].next = IF i = m THEN Nil ELSE d[i + 1]
      BY <1>7
    <2> QED BY <2>1, <2>2, <2>3
  <1> QED BY <1>4, <1>6, <1>7, <1>8 DEF IsList

\* setElement() keeps the lists and all elements, and adds its own.
LEMMA LinkSound ==
  ASSUME NEW t, Sound(t), NEW a \in Addr, t.heap[a] = Nil, NEW k \in Key, NEW v \in Value
  PROVE  Sound(Link(t, a, k, v)) /\ Adds(t, Link(t, a, k, v), a, k, v)
  <1> DEFINE u == Link(t, a, k, v)
             s == SlotOf[k]
  <1>1. Typed(t) /\ \A r \in Slot : \E n, c : IsList(t, r, n, c)
    BY DEF Sound
  <1>2. s \in Slot
    BY SlotOfAssumption
  <1>3. PICK n, c : IsList(t, s, n, c)
    BY <1>1, <1>2
  <1>4. Typed(u) /\ Adds(t, u, a, k, v)
    <2>1. Links(t, s, n, c, a, k, v, u)
      BY <1>1, <1>3, Linked
    <2> QED BY <2>1 DEF Links
  <1>5. IsList(u, s, n + 1, With(c, a, n))
    BY <1>1, <1>3, LinkedList
  <1>6. ASSUME NEW r \in Slot \ {s}
        PROVE  \E m, d : IsList(u, r, m, d)
    <2>1. PICK m, d : IsList(t, r, m, d)
      BY <1>1
    <2>2. IsList(u, r, m, d)
      BY <1>1, <1>3, <1>6, <2>1, LinkedOther
    <2> QED BY <2>2
  <1> HIDE DEF u
  <1>7. \A r \in Slot : \E m, d : IsList(u, r, m, d)
    BY <1>5, <1>6
  <1> QED BY <1>4, <1>7 DEF Sound, u

----------------------------------------------------------------------------
(****************************************************************************)
(* Where a search ends: an element is the first for its key if none before  *)
(* it on the list can be taken for that key.                                *)
(****************************************************************************)

IsFirst(t, i, n, c, p) ==
  /\ IsList(t, SlotOf[i], n, c)
  /\ p \in 1 .. n
  /\ t.heap[c[p]].key = i
  /\ \A q \in 1 .. p - 1 : t.heap[c[q]].key \notin Confusable(i)

First(t, i, a) == \E n, c, p : IsFirst(t, i, n, c, p) /\ c[p] = a

\* It stays the first when another element is deleted ...
LEMMA UnlinkFirst ==
  ASSUME NEW t, Sound(t), NEW i \in Key, NEW a \in Addr, First(t, i, a),
         NEW b \in Addr, b # a, t.heap[b] # Nil
  PROVE  First(Unlink(t, b), i, a)
  <1> DEFINE u == Unlink(t, b)
             s == SlotOf[i]
             r == SlotOf[t.heap[b].key]
  <1>1. Typed(t) /\ \A x \in Slot : \E m, d : IsList(t, x, m, d)
    BY DEF Sound
  <1>2. s \in Slot /\ r \in Slot
    <2>1. t.heap[b] \in Element
      BY <1>1 DEF Typed
    <2> QED BY <2>1, SlotOfAssumption DEF Element
  <1>3. PICK n, c, p : IsFirst(t, i, n, c, p) /\ c[p] = a
    BY DEF First
  <1>4. /\ IsList(t, s, n, c) /\ p \in 1 .. n /\ n \in Nat
        /\ t.heap[c[p]].key = i
        /\ \A q \in 1 .. p - 1 : t.heap[c[q]].key \notin Confusable(i)
    BY <1>3 DEF IsFirst, IsList
  <1>5. \A q \in 1 .. n : c[q] \in Addr
    BY <1>4 DEF IsList
  <1>6. Keeps(t, u, {b})
    BY UnlinkSound
  <1>7. \A x \in Addr \ {b} : u.heap[x].key = t.heap[x].key
    BY <1>6 DEF Keeps
  <1> HIDE DEF r
  <1>8. PICK m, d : IsList(t, r, m, d)
    BY <1>1, <1>2
  <1>9. PICK o \in 1 .. m : d[o] = b
    BY <1>8 DEF IsList, r
  <1>10. CASE r # s
    <2>1. IsList(Unlink(t, d[o]), s, n, c)
      <3>1. \A x \in Slot \ {r} : \A y, z :
              IsList(t, x, y, z) => IsList(Unlink(t, d[o]), x, y, z)
        BY <1>1, <1>2, <1>8, UnlinkedOther
      <3>2. s \in Slot \ {r}
        BY <1>2, <1>10
      <3> HIDE DEF s
      <3> QED BY <1>4, <3>1, <3>2
    <2>2. \A q \in 1 .. n : c[q] # b
      <3>1. \A q \in 1 .. n : SlotOf[t.heap[c[q]].key] = s
        BY <1>4 DEF IsList
      <3> QED BY <1>10, <3>1 DEF r
    <2>3. \A q \in 1 .. n : u.heap[c[q]].key = t.heap[c[q]].key
      BY <1>5, <1>7, <2>2
    <2>4. \A q \in 1 .. p - 1 : q \in 1 .. n
      BY <1>4
    <2>5. IsList(u, s, n, c)
      BY <1>9, <2>1
    <2> HIDE DEF u
    <2>6. IsFirst(u, i, n, c, p)
      BY <1>4, <2>3, <2>4, <2>5 DEF IsFirst
    <2> QED BY <1>3, <2>6 DEF First, u
  <1>11. CASE r = s
    <2>1. PICK x \in 1 .. n : c[x] = b
      BY <1>4, <1>11 DEF IsList, r
    <2> DEFINE e == Without(c, x, n)
               y == IF p < x THEN p ELSE p - 1
    <2>2. IsList(u, s, n - 1, e)
      BY <1>1, <1>2, <1>4, <2>1, UnlinkedList
    <2>3. x # p
      BY <1>3, <2>1
    <2>4. \A q \in 1 .. n - 1 : e[q] = IF q < x THEN c[q] ELSE c[q + 1]
      BY DEF Without
    <2>5. y \in 1 .. n - 1 /\ e[y] = c[p]
      BY <1>4, <2>3, <2>4
    <2>6. \A q \in 1 .. n : q # x => c[q] # b
      BY <1>4, <2>1 DEF IsList
    <2>7. \A q \in 1 .. n : q # x => u.heap[c[q]].key = t.heap[c[q]].key
      BY <1>5, <1>7, <2>6
    <2> HIDE DEF u, e, s
    <2>8. \A q \in 1 .. y - 1 : u.heap[e[q]].key \notin Confusable(i)
      <3> TAKE q \in 1 .. y - 1
      <3>1. CASE q < x
        <4>1. q \in 1 .. p - 1 /\ q \in 1 .. n /\ q \in 1 .. n - 1 /\ q # x
          BY <1>4, <2>3, <2>5, <3>1
        <4>2. e[q] = c[q]
          BY <2>4, <3>1, <4>1
        <4> QED BY <1>4, <2>7, <4>1, <4>2
      <3>2. CASE ~ (q < x)
        <4>1. q + 1 \in 1 .. p - 1 /\ q + 1 \in 1 .. n /\ q \in 1 .. n - 1 /\ q + 1 # x
          BY <1>4, <2>3, <2>5, <3>2
        <4>2. e[q] = c[q + 1]
          BY <2>4, <3>2, <4>1
        <4> QED BY <1>4, <2>7, <4>1, <4>2
      <3> QED BY <3>1, <3>2
    <2>9. u.heap[e[y]].key = i
      BY <1>4, <2>3, <2>5, <2>7
    <2> HIDE DEF y
    <2>10. IsFirst(u, i, n - 1, e, y)
      BY <2>2, <2>5, <2>8, <2>9 DEF IsFirst, s
    <2> QED BY <1>3, <2>5, <2>10 DEF First, u
  <1> QED BY <1>10, <1>11

\* ... and when one comes that cannot be taken for its key.
LEMMA LinkFirst ==
  ASSUME NEW t, Sound(t), NEW i \in Key, NEW a \in Addr, First(t, i, a),
         NEW b \in Addr, t.heap[b] = Nil, NEW k \in Key \ Confusable(i), NEW v \in Value
  PROVE  First(Link(t, b, k, v), i, a)
  <1> DEFINE u == Link(t, b, k, v)
             s == SlotOf[i]
             r == SlotOf[k]
  <1>1. Typed(t) /\ \A x \in Slot : \E m, d : IsList(t, x, m, d)
    BY DEF Sound
  <1>2. s \in Slot /\ r \in Slot
    BY SlotOfAssumption
  <1>3. PICK n, c, p : IsFirst(t, i, n, c, p) /\ c[p] = a
    BY DEF First
  <1>4. /\ IsList(t, s, n, c) /\ p \in 1 .. n /\ n \in Nat
        /\ t.heap[c[p]].key = i
        /\ \A q \in 1 .. p - 1 : t.heap[c[q]].key \notin Confusable(i)
    BY <1>3 DEF IsFirst, IsList
  <1>5. \A q \in 1 .. n : c[q] \in Addr /\ c[q] # b
    BY <1>4 DEF IsList
  <1>6. Adds(t, u, b, k, v)
    BY LinkSound
  <1>7. \A q \in 1 .. n : u.heap[c[q]].key = t.heap[c[q]].key
    BY <1>5, <1>6 DEF Adds
  <1>8. u.heap[b].key = k
    BY <1>6 DEF Adds
  <1>9. CASE r # s
    <2>1. PICK m, d : IsList(t, r, m, d)
      BY <1>1, <1>2
    <2>2. IsList(u, s, n, c)
      <3>1. \A x \in Slot \ {r} : \A y, z : IsList(t, x, y, z) => IsList(u, x, y, z)
        BY <1>1, <2>1, LinkedOther
      <3>2. s \in Slot \ {r}
        BY <1>2, <1>9
      <3> HIDE DEF s, u
      <3> QED BY <1>4, <3>1, <3>2
    <2>3. \A q \in 1 .. p - 1 : q \in 1 .. n
      BY <1>4
    <2> HIDE DEF u
    <2>4. IsFirst(u, i, n, c, p)
      BY <1>4, <1>7, <2>2, <2>3 DEF IsFirst
    <2> QED BY <1>3, <2>4 DEF First, u
  <1>10. CASE r = s
    <2> DEFINE e == With(c, b, n)
    <2>1. IsList(u, s, n + 1, e)
      <3>1. IsList(t, r, n, c)
        BY <1>4, <1>10
      <3>2. IsList(u, r, n + 1, e)
        BY <1>1, <3>1, LinkedList
      <3> QED BY <1>10, <3>2
    <2>2. \A q \in 1 .. n + 1 : e[q] = IF q = 1 THEN b ELSE c[q - 1]
      BY DEF With
    <2>3. p + 1 \in 1 .. n + 1 /\ e[p + 1] = c[p]
      BY <1>4, <2>2
    <2> HIDE DEF u, e, s
    <2>4. \A q \in 1 .. (p + 1) - 1 : u.heap[e[q]].key \notin Confusable(i)
      <3> TAKE q \in 1 .. (p + 1) - 1
      <3>1. CASE q = 1
        <4>1. e[q] = b
          BY <1>4, <2>2, <3>1
        <4> QED BY <1>8, <4>1
      <3>2. CASE q # 1
        <4>1. q - 1 \in 1 .. p - 1 /\ q - 1 \in 1 .. n /\ q \in 1 .. n + 1
          BY <1>4, <3>2
        <4>2. e[q] = c[q - 1]
          BY <2>2, <3>2, <4>1
        <4> QED BY <1>4, <1>7, <4>1, <4>2
      <3> QED BY <3>1, <3>2
    <2>5. u.heap[e[p + 1]].key = i
      BY <1>4, <1>7, <2>3
    <2>6. IsFirst(u, i, n + 1, e, p + 1)
      BY <2>1, <2>3, <2>4, <2>5 DEF IsFirst, s
    <2> QED BY <1>3, <2>3, <2>6 DEF First, u
  <1> QED BY <1>9, <1>10

\* The new one is the first for its own key.
LEMMA LinkedFirst ==
  ASSUME NEW t, Sound(t), NEW a \in Addr, t.heap[a] = Nil, NEW k \in Key, NEW v \in Value
  PROVE  First(Link(t, a, k, v), k, a)
  <1> DEFINE u == Link(t, a, k, v)
  <1>1. Typed(t) /\ \A x \in Slot : \E m, d : IsList(t, x, m, d)
    BY DEF Sound
  <1>2. PICK n, c : IsList(t, SlotOf[k], n, c)
    BY <1>1, SlotOfAssumption
  <1> DEFINE e == With(c, a, n)
  <1>3. IsList(u, SlotOf[k], n + 1, e)
    BY <1>1, <1>2, LinkedList
  <1>4. n \in Nat
    BY <1>2 DEF IsList
  <1>5. e[1] = a /\ 1 \in 1 .. n + 1
    BY <1>4 DEF With
  <1>6. u.heap[a].key = k
    <2>1. Adds(t, u, a, k, v)
      BY LinkSound
    <2> QED BY <2>1 DEF Adds
  <1> HIDE DEF u, e
  <1>7. \A q \in 1 .. 1 - 1 : u.heap[e[q]].key \notin Confusable(k)
    OBVIOUS
  <1>8. IsFirst(u, k, n + 1, e, 1)
    BY <1>3, <1>5, <1>6, <1>7 DEF IsFirst
  <1> QED BY <1>5, <1>8 DEF First, u

----------------------------------------------------------------------------
(****************************************************************************)
(* The recursion of setElement().                                           *)
(****************************************************************************)

ClearStep(t, c, gone, f, i) ==
  IF i = 0 THEN t
  ELSE IF c[i] \in gone THEN Unlink(f[i - 1], c[i])
  ELSE f[i - 1]

AreTables(f, t, c, gone, n) == f = [i \in 0 .. n |-> ClearStep(t, c, gone, f, i)]

\* The tables that it runs through exist.
LEMMA TablesExist ==
  ASSUME NEW t, NEW c, NEW gone, NEW n \in Nat
  PROVE  \E f : AreTables(f, t, c, gone, n)
  <1> DEFINE Good(l) == \E f : f = [i \in 0 .. l |-> ClearStep(t, c, gone, f, i)]
             Bad == {l \in 0 .. n : ~ Good(l)}
  <1>1. SUFFICES ASSUME Bad # {}
                 PROVE  FALSE
    <2>1. Bad = {} => Good(n)
      OBVIOUS
    <2> QED BY <2>1 DEF AreTables
  <1>2. Bad \subseteq Nat
    OBVIOUS
  <1>3. PICK l \in Bad : \A m \in Bad : l <= m
    BY <1>1, <1>2, LeastNumber
  <1>4. l \in Nat /\ l <= n /\ ~ Good(l)
    OBVIOUS
  <1>5. l # 0
    <2> SUFFICES ASSUME l = 0
                 PROVE  Good(0)
      BY <1>4
    <2> DEFINE f == [i \in 0 .. 0 |-> t]
    <2>1. \A i \in 0 .. 0 : ClearStep(t, c, gone, f, i) = t
      BY DEF ClearStep
    <2>2. f = [i \in 0 .. 0 |-> ClearStep(t, c, gone, f, i)]
      BY <2>1
    <2> QED BY <2>2
  <1>6. Good(l - 1)
    <2>1. l - 1 \in 0 .. n /\ ~ (l <= l - 1)
      BY <1>4, <1>5
    <2> HIDE DEF Good
    <2> QED BY <1>3, <2>1
  <1>7. PICK f : f = [i \in 0 .. l - 1 |-> ClearStep(t, c, gone, f, i)]
    BY <1>6
  <1> DEFINE g == [i \in 0 .. l |-> IF i = l THEN ClearStep(t, c, gone, f, l) ELSE f[i]]
  <1>8. ASSUME NEW i \in 0 .. l
        PROVE  g[i] = ClearStep(t, c, gone, g, i)
    <2>1. CASE i = 0
      <3>1. g[0] = f[0] /\ 0 \in 0 .. l - 1
        BY <1>4, <1>5
      <3>2. f[0] = ClearStep(t, c, gone, f, 0)
        <4> HIDE DEF g
        <4> QED BY <1>7, <3>1
      <3> QED BY <2>1, <3>1, <3>2 DEF ClearStep
    <2>2. CASE i # 0
      <3>1. i - 1 \in 0 .. l /\ i - 1 # l /\ g[i - 1] = f[i - 1]
        BY <1>4, <2>2
      <3>2. g[i] = ClearStep(t, c, gone, f, i)
        <4>1. CASE i = l
          BY <4>1
        <4>2. CASE i # l
          <5>1. g[i] = f[i] /\ i \in 0 .. l - 1
            BY <1>4, <4>2
          <5> HIDE DEF g
          <5> QED BY <1>7, <5>1
        <4> QED BY <4>1, <4>2
      <3> HIDE DEF g
      <3> QED BY <2>2, <3>1, <3>2 DEF ClearStep
    <2> QED BY <2>1, <2>2
  <1>9. g = [i \in 0 .. l |-> g[i]]
    OBVIOUS
  <1> HIDE DEF g
  <1>10. g = [i \in 0 .. l |-> ClearStep(t, c, gone, g, i)]
    BY <1>8, <1>9
  <1> QED BY <1>4, <1>10

\* Deleting some elements of a list, one after the other.
LEMMA ClearSteps ==
  ASSUME NEW t, Sound(t), NEW s, NEW n, NEW c, IsList(t, s, n, c),
         NEW gone, gone \subseteq {c[i] : i \in 1 .. n},
         NEW f, AreTables(f, t, c, gone, n)
  PROVE  /\ Sound(f[n]) /\ Keeps(t, f[n], gone)
         /\ \A i \in Key, a \in Addr \ gone : First(t, i, a) => First(f[n], i, a)
  <1> DEFINE Removed(l) == {x \in gone : \E j \in 1 .. l : c[j] = x}
             Good(l) == /\ Sound(f[l]) /\ Keeps(t, f[l], Removed(l))
                        /\ \A i \in Key, a \in Addr \ gone : First(t, i, a) => First(f[l], i, a)
             Bad == {l \in 0 .. n : ~ Good(l)}
  <1>1. n \in Nat /\ c \in [1 .. n -> Addr] /\ \A i, j \in 1 .. n : c[i] = c[j] => i = j
    BY DEF IsList
  <1>2. \A i \in 1 .. n : t.heap[c[i]] # Nil
    BY DEF IsList
  <1>3. Removed(n) = gone
    BY <1>1
  <1>4. f[0] = t
    BY <1>1 DEF AreTables, ClearStep
  <1>5. \A l \in 1 .. n : f[l] = IF c[l] \in gone THEN Unlink(f[l - 1], c[l]) ELSE f[l - 1]
    <2> TAKE l \in 1 .. n
    <2>1. l \in 0 .. n /\ l # 0
      BY <1>1
    <2>2. f[l] = ClearStep(t, c, gone, f, l)
      BY <2>1 DEF AreTables
    <2> QED BY <2>1, <2>2 DEF ClearStep
  <1>6. Good(0)
    <2>1. Removed(0) = {}
      OBVIOUS
    <2>2. Keeps(t, t, {})
      BY DEF Keeps
    <2> HIDE DEF Removed
    <2> QED BY <1>4, <2>1, <2>2
  <1>7. ASSUME NEW l \in 1 .. n, Good(l - 1)
        PROVE  Good(l)
    <2> DEFINE g == f[l - 1]
               u == f[l]
               a == c[l]
    <2>1. /\ Sound(g) /\ Keeps(t, g, Removed(l - 1))
          /\ \A i \in Key, b \in Addr \ gone : First(t, i, b) => First(g, i, b)
      BY <1>7
    <2>2. a \in Addr /\ t.heap[a] # Nil
      BY <1>1, <1>2
    <2>3. a \notin Removed(l - 1)
      <3>1. \A j \in 1 .. l - 1 : j \in 1 .. n /\ j # l
        BY <1>1
      <3> QED BY <1>1, <3>1
    <2>4. Removed(l) = Removed(l - 1) \cup ({a} \cap gone)
      <3>1. \A j \in 1 .. l : j = l \/ j \in 1 .. l - 1
        BY <1>1
      <3>2. \A j \in 1 .. l - 1 : j \in 1 .. l
        BY <1>1
      <3>3. l \in 1 .. l
        BY <1>1
      <3> QED BY <3>1, <3>2, <3>3
    <2>5. u = IF a \in gone THEN Unlink(g, a) ELSE g
      BY <1>5
    <2> HIDE DEF Removed, g, u, a
    <2>6. CASE a \notin gone
      <3>1. u = g /\ Removed(l) = Removed(l - 1)
        BY <2>4, <2>5, <2>6
      <3> QED BY <2>1, <3>1 DEF u
    <2>7. CASE a \in gone
      <3>1. u = Unlink(g, a) /\ Removed(l) = Removed(l - 1) \cup {a}
        BY <2>4, <2>5, <2>7
      <3>2. g.heap[a] # Nil
        BY <2>1, <2>2, <2>3 DEF Keeps
      <3>3. Sound(u) /\ Keeps(g, u, {a})
        BY <2>1, <2>2, <3>1, <3>2, UnlinkSound
      <3>4. Keeps(t, u, Removed(l))
        BY <2>1, <3>1, <3>3 DEF Keeps
      <3>5. \A i \in Key, b \in Addr \ gone : First(t, i, b) => First(u, i, b)
        <4> SUFFICES ASSUME NEW i \in Key, NEW b \in Addr \ gone, First(t, i, b)
                     PROVE  First(u, i, b)
          OBVIOUS
        <4>1. First(g, i, b) /\ a # b
          BY <2>1, <2>7
        <4> QED BY <2>1, <2>2, <3>1, <3>2, <4>1, UnlinkFirst
      <3> QED BY <3>3, <3>4, <3>5 DEF u
    <2> QED BY <2>6, <2>7
  <1> HIDE DEF Good
  <1>8. Bad = {}
    <2> SUFFICES ASSUME Bad # {}
                 PROVE  FALSE
      OBVIOUS
    <2>1. Bad \subseteq Nat
      BY <1>1
    <2>2. PICK l \in Bad : \A m \in Bad : l <= m
      BY <2>1, LeastNumber
    <2>3. l \in 0 .. n /\ ~ Good(l)
      OBVIOUS
    <2>4. l # 0
      BY <1>6, <2>3
    <2>5. l \in 1 .. n /\ l - 1 \in 0 .. n /\ ~ (l <= l - 1)
      BY <1>1, <2>3, <2>4
    <2>6. Good(l - 1)
      BY <2>2, <2>5
    <2> QED BY <1>7, <2>3, <2>5, <2>6
  <1>9. Good(n)
    BY <1>1, <1>8
  <1> USE DEF Good
  <1> QED BY <1>3, <1>9

\* What setElement() leaves before it links its element.
LEMMA ClearedIs ==
  ASSUME NEW k \in Key, NEW read, Sound(Table)
  PROVE  /\ Sound(Cleared(k, read)) /\ Keeps(Table, Cleared(k, read), Superseded(k, read))
         /\ \A i \in Key, a \in Addr \ Superseded(k, read) :
              First(Table, i, a) => First(Cleared(k, read), i, a)
  <1> DEFINE s == SlotOf[k]
             gone == Superseded(k, read)
  <1>1. PICK n, c : IsList(Table, s, n, c)
    BY SlotOfAssumption DEF Sound
  <1>2. Chain(s) = c /\ Len(Chain(s)) = n /\ DOMAIN Chain(s) = 1 .. n
    BY <1>1, ChainIsList
  <1>3. n \in Nat
    BY <1>1 DEF IsList
  <1>4. gone \subseteq {c[i] : i \in 1 .. n}
    BY <1>2 DEF Superseded
  <1> HIDE DEF gone
  <1> DEFINE f == CHOOSE h : AreTables(h, Table, c, gone, n)
  <1>5. AreTables(f, Table, c, gone, n)
    <2>1. \E h : AreTables(h, Table, c, gone, n)
      BY <1>3, TablesExist
    <2> QED BY <2>1
  <1>6. Cleared(k, read) = f[n]
    BY <1>2 DEF Cleared, ClearStep, AreTables, gone
  <1> HIDE DEF f
  <1>7. /\ Sound(f[n]) /\ Keeps(Table, f[n], gone)
        /\ \A i \in Key, a \in Addr \ gone : First(Table, i, a) => First(f[n], i, a)
    BY <1>1, <1>4, <1>5, ClearSteps
  <1> QED BY <1>6, <1>7 DEF gone

----------------------------------------------------------------------------
(****************************************************************************)
(* The inductive invariant: every bucket is a list, and no key is on one    *)
(* twice.                                                                   *)
(****************************************************************************)

HashInv ==
  /\ Sound(Table)
  /\ OneElementPerKey
  /\ reply \in Reply

\* Whether a search ends with an element or without one.
LEMMA FoundIs ==
  ASSUME NEW k \in Key, NEW read, Sound(Table)
  PROVE  \/ /\ Found(k, read) = Nil
            /\ \A b \in Addr : heap[b] # Nil /\ SlotOf[heap[b].key] = SlotOf[k] => ~ Matches(b, k, read)
         \/ /\ Found(k, read) \in Addr /\ heap[Found(k, read)] # Nil
            /\ SlotOf[heap[Found(k, read)].key] = SlotOf[k]
            /\ Matches(Found(k, read), k, read)
  <1>1. PICK n, c : IsList(Table, SlotOf[k], n, c)
    BY SlotOfAssumption DEF Sound
  <1>2. Chain(SlotOf[k]) = c /\ DOMAIN c = 1 .. n
    BY <1>1, ChainIsList
  <1>3. /\ n \in Nat
        /\ \A i \in 1 .. n : c[i] \in Addr /\ heap[c[i]] # Nil /\ SlotOf[heap[c[i]].key] = SlotOf[k]
        /\ \A b \in Addr : heap[b] # Nil /\ SlotOf[heap[b].key] = SlotOf[k] => \E i \in 1 .. n : c[i] = b
    BY <1>1 DEF IsList, Table
  <1> DEFINE hits == {i \in 1 .. n : Matches(c[i], k, read)}
             h == CHOOSE i \in hits : \A j \in hits : i <= j
  <1>4. Found(k, read) = IF hits = {} THEN Nil ELSE c[h]
    BY <1>2 DEF Found
  <1>5. CASE hits = {}
    <2>1. \A b \in Addr : heap[b] # Nil /\ SlotOf[heap[b].key] = SlotOf[k] => ~ Matches(b, k, read)
      BY <1>3, <1>5
    <2> QED BY <1>4, <1>5, <2>1
  <1>6. CASE hits # {}
    <2>1. hits \subseteq Nat
      BY <1>3
    <2>2. \E i \in hits : \A j \in hits : i <= j
      BY <1>6, <2>1, LeastNumber
    <2>3. h \in hits
      BY <2>2
    <2>4. h \in 1 .. n /\ Matches(c[h], k, read)
      BY <2>3
    <2> HIDE DEF h
    <2> QED BY <1>3, <1>4, <1>6, <2>4
  <1> QED BY <1>5, <1>6

\* memcmp() confuses only keys one of which begins with the other.
LEMMA MatchesRelated ==
  ASSUME NEW k \in Key, NEW read \in Memory(k), NEW b \in Addr, heap[b] # Nil, Matches(b, k, read)
  PROVE  <<heap[b].key, k>> \in Begins \/ (heap[b].key # k /\ <<k, heap[b].key>> \in Begins)
  <1>1. DOMAIN read = Overread(k)
    BY DEF Memory
  <1> QED BY <1>1 DEF Matches, Overread

\* The elements that a set() supersedes are on the list, and each is there for
\* one that is taken for the new key.
LEMMA SupersededIs ==
  ASSUME NEW k \in Key, NEW read, Sound(Table)
  PROVE  \A a \in Superseded(k, read) :
           /\ a \in Addr /\ heap[a] # Nil /\ SlotOf[heap[a].key] = SlotOf[k]
           /\ \E b \in Superseded(k, read) :
                Matches(b, k, read) /\ Matches(a, heap[b].key, read)
  <1>1. PICK n, c : IsList(Table, SlotOf[k], n, c)
    BY SlotOfAssumption DEF Sound
  <1>2. Chain(SlotOf[k]) = c /\ DOMAIN c = 1 .. n /\ Len(c) = n
    BY <1>1, ChainIsList
  <1>3. /\ n \in Nat
        /\ \A i \in 1 .. n : c[i] \in Addr /\ heap[c[i]] # Nil /\ SlotOf[heap[c[i]].key] = SlotOf[k]
    BY <1>1 DEF IsList, Table
  <1>4. \A i \in 1 .. n : heap[c[i]].key \in Key
    <2>1. heap \in [Addr -> Element \cup {Nil}]
      BY DEF Sound, Typed, Table
    <2> QED BY <1>3, <2>1 DEF Element
  <1>5. Superseded(k, read) =
          {c[i] : i \in {i \in 1 .. n :
             \E m \in i .. n : Matches(c[m], k, read) /\ Matches(c[i], heap[c[m]].key, read)}}
    BY <1>2 DEF Superseded
  <1>6. \A m \in 1 .. n : Matches(c[m], k, read) => c[m] \in Superseded(k, read)
    <2> TAKE m \in 1 .. n
    <2>1. Matches(c[m], heap[c[m]].key, read)
      BY <1>4, BeginsAssumption DEF Matches
    <2>2. m \in m .. n
      BY <1>3
    <2> QED BY <1>5, <2>1, <2>2
  <1> SUFFICES ASSUME NEW a \in Superseded(k, read)
               PROVE  /\ a \in Addr /\ heap[a] # Nil /\ SlotOf[heap[a].key] = SlotOf[k]
                      /\ \E b \in Superseded(k, read) :
                           Matches(b, k, read) /\ Matches(a, heap[b].key, read)
    OBVIOUS
  <1>7. PICK i \in 1 .. n :
          a = c[i] /\ \E m \in i .. n : Matches(c[m], k, read) /\ Matches(c[i], heap[c[m]].key, read)
    BY <1>5
  <1>8. PICK m \in i .. n : Matches(c[m], k, read) /\ Matches(c[i], heap[c[m]].key, read)
    BY <1>7
  <1>9. m \in 1 .. n
    BY <1>3
  <1> QED BY <1>3, <1>6, <1>7, <1>8, <1>9

\* And every element of the bucket that is taken for the new key is among them.
LEMMA MatchesGo ==
  ASSUME NEW k \in Key, NEW read, Sound(Table),
         NEW a \in Addr, heap[a] # Nil, SlotOf[heap[a].key] = SlotOf[k], Matches(a, k, read)
  PROVE  a \in Superseded(k, read)
  <1>1. PICK n, c : IsList(Table, SlotOf[k], n, c)
    BY SlotOfAssumption DEF Sound
  <1>2. Chain(SlotOf[k]) = c /\ DOMAIN c = 1 .. n /\ Len(c) = n
    BY <1>1, ChainIsList
  <1>3. n \in Nat /\ \E i \in 1 .. n : c[i] = a
    BY <1>1 DEF IsList, Table
  <1>4. heap[a].key \in Key
    <2>1. heap \in [Addr -> Element \cup {Nil}]
      BY DEF Sound, Typed, Table
    <2> QED BY <2>1 DEF Element
  <1>5. Matches(a, heap[a].key, read)
    BY <1>4, BeginsAssumption DEF Matches
  <1>6. PICK i \in 1 .. n : c[i] = a
    BY <1>3
  <1>7. i \in i .. n
    BY <1>3
  <1> QED BY <1>2, <1>5, <1>6, <1>7 DEF Superseded

\* What a set() does to the table.
SetEffect(k, v, a, read) ==
  /\ heap[a] = Nil
  /\ heap'[a] # Nil /\ heap'[a].key = k /\ heap'[a].value = v
  /\ \A b \in Addr \ {a} :
       IF b \in Superseded(k, read) THEN heap'[b] = Nil
       ELSE /\ heap'[b] = Nil <=> heap[b] = Nil
            /\ heap'[b].key = heap[b].key /\ heap'[b].value = heap[b].value
  /\ \A i \in Key \ {k}, b \in Addr \ Superseded(k, read) :
       First(Table, i, b) /\ k \notin Confusable(i) => First(Table', i, b)
  /\ First(Table', k, a)

LEMMA SetSound ==
  ASSUME Sound(Table), NEW k \in Key, NEW v \in Value, Set(k, v)
  PROVE  /\ Sound(Table') /\ reply' = reply
         /\ \E a \in Addr, read \in Memory(k) : SetEffect(k, v, a, read)
  <1>1. PICK a \in Addr, read \in Memory(k) :
          /\ heap[a] = Nil
          /\ heap' = Link(Cleared(k, read), a, k, v).heap
          /\ buckets' = Link(Cleared(k, read), a, k, v).buckets
          /\ reply' = reply
    BY DEF Set
  <1> DEFINE t == Cleared(k, read)
             u == Link(t, a, k, v)
  <1>2. Table' = u
    BY <1>1 DEF Table, Link
  <1>3. /\ Sound(t) /\ Keeps(Table, t, Superseded(k, read))
        /\ \A i \in Key, b \in Addr \ Superseded(k, read) : First(Table, i, b) => First(t, i, b)
    BY ClearedIs
  <1>4. Table.heap = heap /\ Table'.heap = heap'
    BY DEF Table
  <1> HIDE DEF t
  <1>5. t.heap[a] = Nil
    BY <1>1, <1>3, <1>4 DEF Keeps
  <1>6. Sound(u) /\ Adds(t, u, a, k, v)
    BY <1>3, <1>5, LinkSound
  <1>7. First(u, k, a)
    BY <1>3, <1>5, LinkedFirst
  <1>8. \A i \in Key \ {k}, b \in Addr \ Superseded(k, read) :
          First(Table, i, b) /\ k \notin Confusable(i) => First(u, i, b)
    <2> SUFFICES ASSUME NEW i \in Key \ {k}, NEW b \in Addr \ Superseded(k, read),
                        First(Table, i, b), k \notin Confusable(i)
                 PROVE  First(u, i, b)
      OBVIOUS
    <2>1. First(t, i, b)
      BY <1>3
    <2> QED BY <1>3, <1>5, <2>1, LinkFirst
  <1> HIDE DEF u
  <1>9. u.heap = heap'
    BY <1>2, <1>4
  <1>10. SetEffect(k, v, a, read)
    <2>1. heap'[a] # Nil /\ heap'[a].key = k /\ heap'[a].value = v
      BY <1>6, <1>9 DEF Adds
    <2>2. \A b \in Addr \ {a} :
            IF b \in Superseded(k, read) THEN heap'[b] = Nil
            ELSE /\ heap'[b] = Nil <=> heap[b] = Nil
                 /\ heap'[b].key = heap[b].key /\ heap'[b].value = heap[b].value
      BY <1>3, <1>4, <1>6, <1>9 DEF Adds, Keeps
    <2> QED BY <1>1, <1>2, <1>7, <1>8, <2>1, <2>2 DEF SetEffect
  <1> QED BY <1>1, <1>2, <1>6, <1>10

\* What a del() does to it.
LEMMA DelSound ==
  ASSUME Sound(Table), NEW k \in Key, Del(k)
  PROVE  /\ Sound(Table')
         /\ \E read \in Memory(k) :
              LET a == Found(k, read) IN
              /\ reply' = Returned(a # Nil)
              /\ Keeps(Table, Table', {a})
              /\ \A i \in Key, b \in Addr \ {a} : First(Table, i, b) => First(Table', i, b)
  <1>1. PICK read \in Memory(k) :
          LET a == Found(k, read)
              table == IF a = Nil THEN Table ELSE Unlink(Table, a)
          IN  heap' = table.heap /\ buckets' = table.buckets /\ reply' = Returned(a # Nil)
    BY DEF Del
  <1> DEFINE a == Found(k, read)
  <1>2. Table.heap = heap
    BY DEF Table
  <1>3. CASE a = Nil
    <2>1. Table' = Table
      BY <1>1, <1>3 DEF Table
    <2>2. Keeps(Table, Table, {Nil})
      BY NilAssumption DEF Keeps
    <2> QED BY <1>1, <1>3, <2>1, <2>2
  <1>4. CASE a # Nil
    <2>1. a \in Addr /\ heap[a] # Nil
      BY <1>4, FoundIs
    <2>2. Table' = Unlink(Table, a)
      BY <1>1, <1>4 DEF Table, Unlink
    <2> HIDE DEF a
    <2>3. Sound(Table') /\ Keeps(Table, Table', {a})
      BY <1>2, <2>1, <2>2, UnlinkSound
    <2>4. \A i \in Key, b \in Addr \ {a} : First(Table, i, b) => First(Table', i, b)
      BY <1>2, <2>1, <2>2, UnlinkFirst
    <2> QED BY <1>1, <2>3, <2>4 DEF a
  <1> QED BY <1>3, <1>4

LEMMA HashInit ==
  ASSUME Init
  PROVE  HashInv
  <1>1. Typed(Table)
    BY DEF Init, Typed, Table
  <1>2. ASSUME NEW s \in Slot
        PROVE  IsList(Table, s, 0, [i \in 1 .. 0 |-> Nil])
    <2>1. \A a \in Addr : Table.heap[a] = Nil
      BY DEF Init, Table
    <2>2. Table.buckets[s].head = Nil /\ Table.buckets[s].count = 0
      BY DEF Init, Table
    <2>3. 1 .. 0 = {}
      OBVIOUS
    <2>4. [i \in 1 .. 0 |-> Nil] \in [1 .. 0 -> Addr]
      BY <2>3
    <2> QED BY <2>1, <2>2, <2>3, <2>4 DEF IsList
  <1>3. OneElementPerKey
    BY DEF Init, OneElementPerKey
  <1>4. reply \in Reply
    BY DEF Init, Returned, Reply
  <1> QED BY <1>1, <1>2, <1>3, <1>4 DEF HashInv, Sound

LEMMA HashSet ==
  ASSUME HashInv, NEW k \in Key, NEW v \in Value, Set(k, v)
  PROVE  HashInv'
  <1>1. Sound(Table') /\ reply' = reply
    BY SetSound DEF HashInv
  <1>2. PICK a \in Addr, read \in Memory(k) : SetEffect(k, v, a, read)
    BY SetSound DEF HashInv
  <1>3. ASSUME NEW b \in Addr \ {a}, heap'[b] # Nil
        PROVE  heap[b] # Nil /\ heap'[b].key = heap[b].key /\ heap[b].key # k
    <2>1. b \notin Superseded(k, read) /\ heap[b] # Nil /\ heap'[b].key = heap[b].key
      BY <1>2, <1>3 DEF SetEffect
    <2>2. heap[b].key # k
      <3> SUFFICES ASSUME heap[b].key = k
                   PROVE  FALSE
        OBVIOUS
      <3>1. Matches(b, k, read)
        BY BeginsAssumption DEF Matches
      <3>2. b \in Superseded(k, read)
        BY <2>1, <3>1, MatchesGo DEF HashInv
      <3> QED BY <2>1, <3>2
    <2> QED BY <2>1, <2>2
  <1>4. heap'[a].key = k
    BY <1>2 DEF SetEffect
  <1>5. OneElementPerKey'
    BY <1>3, <1>4 DEF HashInv, OneElementPerKey
  <1> QED BY <1>1, <1>5 DEF HashInv

LEMMA HashDel ==
  ASSUME HashInv, NEW k \in Key, Del(k)
  PROVE  HashInv'
  <1>1. Sound(Table')
    BY DelSound DEF HashInv
  <1>2. PICK read \in Memory(k) :
          reply' = Returned(Found(k, read) # Nil) /\ Keeps(Table, Table', {Found(k, read)})
    BY DelSound DEF HashInv
  <1>3. \A b \in Addr : heap'[b] # Nil => heap[b] # Nil /\ heap'[b].key = heap[b].key
    BY <1>2 DEF Keeps, Table
  <1>4. OneElementPerKey'
    BY <1>3 DEF HashInv, OneElementPerKey
  <1>5. reply' \in Reply
    BY <1>2 DEF Returned, Reply
  <1> QED BY <1>1, <1>4, <1>5 DEF HashInv

LEMMA HashGet ==
  ASSUME HashInv, NEW k \in Key, Get(k)
  PROVE  HashInv'
  <1>1. PICK read \in Memory(k) :
          reply' = IF Found(k, read) = Nil THEN Returned(FALSE)
                   ELSE [ok |-> TRUE, key |-> heap[Found(k, read)].key,
                         value |-> heap[Found(k, read)].value]
    BY DEF Get
  <1>2. Found(k, read) # Nil => Found(k, read) \in Addr /\ heap[Found(k, read)] # Nil
    BY FoundIs DEF HashInv
  <1>3. heap \in [Addr -> Element \cup {Nil}]
    BY DEF HashInv, Sound, Typed, Table
  <1>4. reply' \in Reply
    <2>1. CASE Found(k, read) = Nil
      BY <1>1, <2>1 DEF Returned, Reply
    <2>2. CASE Found(k, read) # Nil
      <3>1. heap[Found(k, read)] \in Element
        BY <1>2, <1>3, <2>2
      <3> QED BY <1>1, <2>2, <3>1 DEF Element, Reply
    <2> QED BY <2>1, <2>2
  <1>5. heap' = heap /\ buckets' = buckets
    BY DEF Get
  <1>6. Table' = Table
    BY <1>5 DEF Table
  <1>7. Sound(Table')
    BY <1>6 DEF HashInv
  <1>8. OneElementPerKey'
    BY <1>5 DEF HashInv, OneElementPerKey
  <1> QED BY <1>4, <1>7, <1>8 DEF HashInv

LEMMA HashStep ==
  ASSUME HashInv, [Next]_vars
  PROVE  HashInv'
  <1>1. CASE UNCHANGED vars
    <2>1. Table' = Table
      BY <1>1 DEF vars, Table
    <2>2. Sound(Table')
      BY <2>1 DEF HashInv
    <2> QED BY <1>1, <2>2 DEF vars, HashInv, OneElementPerKey
  <1>2. ASSUME NEW k \in Key, Get(k)
        PROVE  HashInv'
    BY <1>2, HashGet
  <1>3. ASSUME NEW k \in Key, Del(k)
        PROVE  HashInv'
    BY <1>3, HashDel
  <1>4. ASSUME NEW k \in Key, NEW v \in Value, Set(k, v)
        PROVE  HashInv'
    BY <1>4, HashSet
  <1> QED BY <1>1, <1>2, <1>3, <1>4 DEF Next

LEMMA HashInvariant == Spec => []HashInv
  <1> QED BY HashInit, HashStep, PTL DEF Spec

\* The list that the invariant promises is the chain.
LEMMA ChainSound ==
  ASSUME Sound(Table), NEW s \in Slot
  PROVE  IsList(Table, s, Len(Chain(s)), Chain(s)) /\ DOMAIN Chain(s) = 1 .. Len(Chain(s))
  <1>1. PICK n, c : IsList(Table, s, n, c)
    BY DEF Sound
  <1>2. Chain(s) = c /\ Len(Chain(s)) = n /\ DOMAIN Chain(s) = 1 .. n
    BY <1>1, ChainIsList
  <1> QED BY <1>1, <1>2

LEMMA HashTyped ==
  ASSUME HashInv
  PROVE  HashTypeOK
  <1>1. /\ heap \in [Addr -> Element \cup {Nil}]
        /\ buckets \in [Slot -> [head : Addr \cup {Nil}, count : Nat]]
        /\ reply \in Reply
    BY DEF HashInv, Sound, Typed, Table
  <1>2. ASSUME NEW s \in Slot
        PROVE  buckets[s].count \in 0 .. Cardinality(Addr)
    <2>1. PICK n, c : IsList(Table, s, n, c)
      BY DEF HashInv, Sound
    <2>2. n \in Nat /\ buckets[s].count = n
      BY <2>1 DEF IsList, Table
    <2>3. Cardinality(Addr) \in Nat /\ n <= Cardinality(Addr)
      BY <2>1, ListFits
    <2> QED BY <2>2, <2>3
  <1>3. \A s \in Slot : buckets[s] \in [head : Addr \cup {Nil}, count : 0 .. Cardinality(Addr)]
    BY <1>1, <1>2
  <1> QED BY <1>1, <1>3 DEF HashTypeOK

LEMMA HashLists ==
  ASSUME HashInv
  PROVE  ListsSound /\ AllReachable
  <1>1. ASSUME NEW s \in Slot
        PROVE  /\ IsInjective(Chain(s))
               /\ \A i \in DOMAIN Chain(s) :
                    /\ heap[Chain(s)[i]] # Nil
                    /\ SlotOf[heap[Chain(s)[i]].key] = s
                    /\ heap[Chain(s)[i]].previous = IF i = 1 THEN Nil ELSE Chain(s)[i - 1]
                    /\ heap[Chain(s)[i]].next = IF i = Len(Chain(s)) THEN Nil ELSE Chain(s)[i + 1]
               /\ buckets[s].count = Len(Chain(s))
    <2>1. IsList(Table, s, Len(Chain(s)), Chain(s)) /\ DOMAIN Chain(s) = 1 .. Len(Chain(s))
      BY ChainSound DEF HashInv
    <2> QED BY <2>1 DEF IsList, IsInjective, Table
  <1>2. ASSUME NEW a \in Addr, heap[a] # Nil
        PROVE  a \in ToSet(Chain(SlotOf[heap[a].key]))
    <2> DEFINE s == SlotOf[heap[a].key]
    <2>1. s \in Slot
      <3>1. heap[a] \in Element
        BY <1>2 DEF HashInv, Sound, Typed, Table
      <3> QED BY <3>1, SlotOfAssumption DEF Element
    <2>2. IsList(Table, s, Len(Chain(s)), Chain(s)) /\ DOMAIN Chain(s) = 1 .. Len(Chain(s))
      BY <2>1, ChainSound DEF HashInv
    <2>3. \E i \in DOMAIN Chain(s) : Chain(s)[i] = a
      BY <1>2, <2>2 DEF IsList, Table
    <2> QED BY <2>3 DEF ToSet
  <1>3. ListsSound
    BY <1>1 DEF ListsSound
  <1>4. AllReachable
    BY <1>1, <1>2 DEF AllReachable
  <1> QED BY <1>3, <1>4

----------------------------------------------------------------------------
(****************************************************************************)
(* The refinement: the dictionary's contents are the values on the heap.    *)
(****************************************************************************)

ContentsOf(h) ==
  [k \in Key |->
     IF \E a \in Addr : h[a] # Nil /\ h[a].key = k
     THEN h[CHOOSE a \in Addr : h[a] # Nil /\ h[a].key = k].value
     ELSE Nil]

LEMMA ContentsIs ==
  ASSUME NEW h, \A a, b \in Addr : h[a] # Nil /\ h[b] # Nil /\ h[a].key = h[b].key => a = b
  PROVE  /\ \A a \in Addr : h[a] # Nil /\ h[a].key \in Key => ContentsOf(h)[h[a].key] = h[a].value
         /\ \A k \in Key : (\A a \in Addr : ~ (h[a] # Nil /\ h[a].key = k)) => ContentsOf(h)[k] = Nil
  <1>1. ASSUME NEW a \in Addr, h[a] # Nil, h[a].key \in Key
        PROVE  ContentsOf(h)[h[a].key] = h[a].value
    <2> DEFINE c == CHOOSE b \in Addr : h[b] # Nil /\ h[b].key = h[a].key
    <2>1. c \in Addr /\ h[c] # Nil /\ h[c].key = h[a].key
      BY <1>1
    <2>2. c = a
      <3> HIDE DEF c
      <3> QED BY <1>1, <2>1
    <2> QED BY <1>1, <2>2 DEF ContentsOf
  <1>2. \A k \in Key : (\A a \in Addr : ~ (h[a] # Nil /\ h[a].key = k)) => ContentsOf(h)[k] = Nil
    BY DEF ContentsOf
  <1> QED BY <1>1, <1>2

\* The contents now, and after a step, in terms of the elements.
LEMMA ContentsNow ==
  ASSUME HashInv
  PROVE  /\ \A a \in Addr : heap[a] # Nil =>
              /\ heap[a].key \in Key /\ heap[a].value \in Value
              /\ ContentsOf(heap)[heap[a].key] = heap[a].value
         /\ \A k \in Key : (\A a \in Addr : ~ (heap[a] # Nil /\ heap[a].key = k))
              => ContentsOf(heap)[k] = Nil
  <1>1. \A a \in Addr : heap[a] # Nil => heap[a].key \in Key /\ heap[a].value \in Value
    BY DEF HashInv, Sound, Typed, Table, Element
  <1>2. \A a, b \in Addr : heap[a] # Nil /\ heap[b] # Nil /\ heap[a].key = heap[b].key => a = b
    BY DEF HashInv, OneElementPerKey
  <1> QED BY <1>1, <1>2, ContentsIs

LEMMA ContentsNext ==
  ASSUME HashInv'
  PROVE  /\ \A a \in Addr : heap'[a] # Nil =>
              /\ heap'[a].key \in Key /\ heap'[a].value \in Value
              /\ ContentsOf(heap')[heap'[a].key] = heap'[a].value
         /\ \A k \in Key : (\A a \in Addr : ~ (heap'[a] # Nil /\ heap'[a].key = k))
              => ContentsOf(heap')[k] = Nil
  <1>1. \A a \in Addr : heap'[a] # Nil => heap'[a].key \in Key /\ heap'[a].value \in Value
    BY DEF HashInv, Sound, Typed, Table, Element
  <1>2. \A a, b \in Addr : heap'[a] # Nil /\ heap'[b] # Nil /\ heap'[a].key = heap'[b].key => a = b
    BY DEF HashInv, OneElementPerKey
  <1> QED BY <1>1, <1>2, ContentsIs

\* The keys of the superseded elements are the ones that the dictionary lets go.
LEMMA SupersededKeys ==
  ASSUME Sound(Table), NEW k \in Key, NEW read \in Memory(k), NEW a \in Superseded(k, read)
  PROVE  \/ heap[a].key \in Dict!Longer(k) \cup Dict!Shorter(k)
         \/ \E b \in Superseded(k, read) :
              /\ heap[b].key \in Dict!Shorter(k)
              /\ heap[a].key \in Dict!Longer(heap[b].key)
  <1>1. /\ a \in Addr /\ heap[a] # Nil /\ SlotOf[heap[a].key] = SlotOf[k]
    BY SupersededIs
  <1>2. PICK b \in Superseded(k, read) : Matches(b, k, read) /\ Matches(a, heap[b].key, read)
    BY SupersededIs
  <1>3. b \in Addr /\ heap[b] # Nil /\ SlotOf[heap[b].key] = SlotOf[k]
    BY SupersededIs
  <1>4. heap[a].key \in Key /\ heap[b].key \in Key
    BY <1>1, <1>3 DEF Sound, Typed, Table, Element
  <1>5. <<heap[a].key, heap[b].key>> \in Begins \/ (heap[a].key # k /\ <<k, heap[a].key>> \in Begins)
    <2>1. DOMAIN read = Overread(k)
      BY DEF Memory
    <2> QED BY <1>2, <2>1 DEF Matches, Overread
  <1>6. <<heap[b].key, k>> \in Begins \/ (heap[b].key # k /\ <<k, heap[b].key>> \in Begins)
    BY <1>2, <1>3, MatchesRelated
  <1>7. <<heap[a].key, heap[b].key>> \in Begins /\ <<heap[b].key, k>> \in Begins
          => <<heap[a].key, k>> \in Begins
    BY <1>4, BeginsAssumption
  <1> QED BY <1>1, <1>2, <1>3, <1>4, <1>5, <1>6, <1>7 DEF Dict!Longer, Dict!Shorter

LEMMA DictSetStep ==
  ASSUME HashInv, HashInv', NEW k \in Key, NEW v \in Value, Set(k, v)
  PROVE  Dict!DictSet(k, v)
  <1> DEFINE C == ContentsOf(heap)
             D == ContentsOf(heap')
             stored == {j \in Key : C[j] # Nil}
             lost == {j \in stored \ {k} : D[j] = Nil}
  <1>1. reply' = reply
    BY SetSound DEF HashInv
  <1>2. PICK a \in Addr, read \in Memory(k) : SetEffect(k, v, a, read)
    BY SetSound DEF HashInv
  <1> DEFINE gone == Superseded(k, read)
  <1>3. /\ heap[a] = Nil /\ heap'[a] # Nil /\ heap'[a].key = k /\ heap'[a].value = v
        /\ \A b \in Addr \ {a} :
             IF b \in gone THEN heap'[b] = Nil
             ELSE /\ heap'[b] = Nil <=> heap[b] = Nil
                  /\ heap'[b].key = heap[b].key /\ heap'[b].value = heap[b].value
    BY <1>2 DEF SetEffect
  <1>4. \A b \in gone : b \in Addr /\ heap[b] # Nil
    BY SupersededIs DEF HashInv
  <1>5. /\ \A b \in Addr : heap[b] # Nil =>
              /\ heap[b].key \in Key /\ heap[b].value \in Value /\ C[heap[b].key] = heap[b].value
        /\ \A j \in Key : (\A b \in Addr : ~ (heap[b] # Nil /\ heap[b].key = j)) => C[j] = Nil
    BY ContentsNow
  <1>6. /\ \A b \in Addr : heap'[b] # Nil =>
              /\ heap'[b].key \in Key /\ heap'[b].value \in Value /\ D[heap'[b].key] = heap'[b].value
        /\ \A j \in Key : (\A b \in Addr : ~ (heap'[b] # Nil /\ heap'[b].key = j)) => D[j] = Nil
    BY ContentsNext
  <1>7. \A b, d \in Addr : heap[b] # Nil /\ heap[d] # Nil /\ heap[b].key = heap[d].key => b = d
    BY DEF HashInv, OneElementPerKey
  <1>8. Nil \notin Value
    BY NilAssumption
  <1>9. D = [j \in Key |-> D[j]]
    BY DEF ContentsOf
  <1>10. \A b \in Addr : /\ heap[b] # Nil
                         /\ heap[b].key \in Dict!Longer(k)
                         => b \in gone
    <2> SUFFICES ASSUME NEW b \in Addr, heap[b] # Nil, heap[b].key \in Dict!Longer(k)
                 PROVE  b \in gone
      OBVIOUS
    <2>1. SlotOf[heap[b].key] = SlotOf[k] /\ Matches(b, k, read)
      BY DEF Dict!Longer, Matches
    <2> QED BY <2>1, MatchesGo DEF HashInv
  <1>11. \A b \in gone :
           \/ heap[b].key \in Dict!Longer(k) \cup Dict!Shorter(k)
           \/ \E d \in gone : heap[d].key \in Dict!Shorter(k) /\ heap[b].key \in Dict!Longer(heap[d].key)
    BY SupersededKeys DEF HashInv
  <1> HIDE DEF C, D, gone
  <1>12. D[k] = v
    BY <1>3, <1>6
  <1>13. ASSUME NEW j \in Key \ {k}
         PROVE  \/ D[j] = C[j] /\ D[j] \in Value \cup {Nil}
                \/ D[j] = Nil
    <2>1. CASE \E b \in Addr : heap'[b] # Nil /\ heap'[b].key = j
      <3>1. PICK b \in Addr : heap'[b] # Nil /\ heap'[b].key = j
        BY <2>1
      <3>2. b # a /\ b \notin gone
        BY <1>3, <3>1
      <3>3. heap[b] # Nil /\ heap[b].key = j /\ heap[b].value = heap'[b].value
        BY <1>3, <3>1, <3>2
      <3> QED BY <1>5, <1>6, <3>1, <3>3
    <2>2. CASE ~ \E b \in Addr : heap'[b] # Nil /\ heap'[b].key = j
      BY <1>6, <2>2
    <2> QED BY <2>1, <2>2
  <1>14. D \in [Key -> Value \cup {Nil}]
    BY <1>9, <1>12, <1>13
  <1>15. ASSUME NEW j \in lost
         PROVE  \E b \in gone : heap[b].key = j
    <2>1. j \in Key /\ j # k /\ C[j] # Nil /\ D[j] = Nil
      OBVIOUS
    <2>2. PICK b \in Addr : heap[b] # Nil /\ heap[b].key = j
      BY <1>5, <2>1
    <2>3. b \in gone
      <3> SUFFICES ASSUME b \notin gone
                   PROVE  FALSE
        OBVIOUS
      <3>1. heap'[b] # Nil /\ heap'[b].key = j /\ b # a
        BY <1>3, <2>2
      <3> QED BY <1>6, <1>8, <2>1, <3>1
    <2> QED BY <2>2, <2>3
  <1>16. ASSUME NEW b \in gone, heap[b].key # k
         PROVE  heap[b].key \in lost
    <2>1. b \in Addr /\ heap[b] # Nil
      BY <1>4
    <2>2. C[heap[b].key] # Nil /\ heap[b].key \in Key
      BY <1>5, <1>8, <2>1
    <2>3. \A d \in Addr : ~ (heap'[d] # Nil /\ heap'[d].key = heap[b].key)
      <3> SUFFICES ASSUME NEW d \in Addr, heap'[d] # Nil, heap'[d].key = heap[b].key
                   PROVE  FALSE
        OBVIOUS
      <3>1. d # a /\ d \notin gone
        BY <1>3, <1>16
      <3>2. heap[d] # Nil /\ heap[d].key = heap[b].key
        BY <1>3, <3>1
      <3> QED BY <1>7, <2>1, <3>1, <3>2
    <2>4. D[heap[b].key] = Nil
      BY <1>6, <2>2, <2>3
    <2> QED BY <1>16, <2>2, <2>4
  <1>17. \A j \in Key \ (lost \cup {k}) : D[j] = C[j]
    <2> TAKE j \in Key \ (lost \cup {k})
    <2>1. CASE D[j] = Nil
      BY <2>1
    <2>2. CASE D[j] # Nil
      BY <1>13, <2>2
    <2> QED BY <2>1, <2>2
  <1>18. stored \cap Dict!Longer(k) \subseteq lost \cup {k}
    <2> SUFFICES ASSUME NEW j \in stored, j \in Dict!Longer(k), j # k
                 PROVE  j \in lost
      OBVIOUS
    <2>1. PICK b \in Addr : heap[b] # Nil /\ heap[b].key = j
      BY <1>5
    <2>2. b \in gone
      BY <1>10, <2>1
    <2> QED BY <1>16, <2>1, <2>2
  <1>19. \A j \in lost : \/ j \in Dict!Longer(k) \cup Dict!Shorter(k)
                         \/ \E i \in lost \cap Dict!Shorter(k) : j \in Dict!Longer(i)
    <2> TAKE j \in lost
    <2>1. PICK b \in gone : heap[b].key = j
      BY <1>15
    <2>2. CASE \E d \in gone : heap[d].key \in Dict!Shorter(k) /\ j \in Dict!Longer(heap[d].key)
      <3>1. PICK d \in gone : heap[d].key \in Dict!Shorter(k) /\ j \in Dict!Longer(heap[d].key)
        BY <2>2
      <3>2. heap[d].key # k
        BY <3>1 DEF Dict!Shorter
      <3>3. heap[d].key \in lost
        BY <1>16, <3>2
      <3> QED BY <3>1, <3>3
    <2> QED BY <1>11, <2>1, <2>2
  <1>20. stored = Dict!Stored
    BY DEF Dict!Stored, C, ContentsOf
  <1> HIDE DEF stored
  <1>21. Dict!DictSet(k, v) <=>
           /\ D \in [Key -> Value \cup {Nil}]
           /\ D[k] = v
           /\ LET gap == {j \in Dict!Stored \ {k} : D[j] = Nil} IN
                /\ \A j \in Key \ (gap \cup {k}) : D[j] = C[j]
                /\ Dict!Stored \cap Dict!Longer(k) \subseteq gap \cup {k}
                /\ \A j \in gap : \/ j \in Dict!Longer(k) \cup Dict!Shorter(k)
                                  \/ \E i \in gap \cap Dict!Shorter(k) : j \in Dict!Longer(i)
           /\ reply' = reply
    BY DEF Dict!DictSet, C, D, ContentsOf
  <1> QED BY <1>1, <1>12, <1>14, <1>17, <1>18, <1>19, <1>20, <1>21

\* What a search may end at is what the dictionary allows.
LEMMA FoundHits ==
  ASSUME HashInv, NEW k \in Key, NEW read \in Memory(k)
  PROVE  IF Found(k, read) = Nil THEN Nil \in Dict!Hits(k)
         ELSE heap[Found(k, read)].key \in Dict!Hits(k)
  <1> DEFINE C == ContentsOf(heap)
             a == Found(k, read)
  <1>1. /\ \A b \in Addr : heap[b] # Nil =>
              /\ heap[b].key \in Key /\ heap[b].value \in Value /\ C[heap[b].key] = heap[b].value
        /\ \A j \in Key : (\A b \in Addr : ~ (heap[b] # Nil /\ heap[b].key = j)) => C[j] = Nil
    BY ContentsNow
  <1>2. Dict!Stored = {j \in Key : C[j] # Nil}
    BY DEF Dict!Stored, C, ContentsOf
  <1>3. Nil \notin Value /\ Nil \notin Addr
    BY NilAssumption
  <1> HIDE DEF C, a
  <1>4. CASE a = Nil
    <2>1. \A b \in Addr : heap[b] # Nil /\ SlotOf[heap[b].key] = SlotOf[k] => ~ Matches(b, k, read)
      BY <1>3, <1>4, FoundIs DEF HashInv, a
    <2>2. Dict!Stored \cap Dict!Longer(k) = {}
      <3> SUFFICES ASSUME NEW j \in Key, C[j] # Nil, j \in Dict!Longer(k)
                   PROVE  FALSE
        BY <1>2
      <3>1. PICK b \in Addr : heap[b] # Nil /\ heap[b].key = j
        BY <1>1
      <3> QED BY <2>1, <3>1 DEF Dict!Longer, Matches
    <2> QED BY <1>4, <2>2 DEF Dict!Hits, a
  <1>5. CASE a # Nil
    <2>1. a \in Addr /\ heap[a] # Nil /\ SlotOf[heap[a].key] = SlotOf[k] /\ Matches(a, k, read)
      BY <1>5, FoundIs DEF HashInv, a
    <2>2. <<heap[a].key, k>> \in Begins \/ (heap[a].key # k /\ <<k, heap[a].key>> \in Begins)
      BY <2>1, MatchesRelated
    <2>3. heap[a].key \in Dict!Stored
      BY <1>1, <1>2, <1>3, <2>1
    <2>4. heap[a].key \in Dict!Longer(k) \cup Dict!Shorter(k)
      BY <1>1, <2>1, <2>2 DEF Dict!Longer, Dict!Shorter
    <2> QED BY <1>5, <2>3, <2>4 DEF Dict!Hits, a
  <1> QED BY <1>4, <1>5 DEF a

LEMMA DictGetStep ==
  ASSUME HashInv, NEW k \in Key, Get(k)
  PROVE  Dict!DictGet(k)
  <1> DEFINE C == ContentsOf(heap)
  <1>1. PICK read \in Memory(k) :
          reply' = IF Found(k, read) = Nil THEN Returned(FALSE)
                   ELSE [ok |-> TRUE, key |-> heap[Found(k, read)].key,
                         value |-> heap[Found(k, read)].value]
    BY DEF Get
  <1> DEFINE a == Found(k, read)
             j == IF a = Nil THEN Nil ELSE heap[a].key
  <1>2. heap' = heap
    BY DEF Get
  <1>3. j \in Dict!Hits(k)
    BY FoundHits
  <1>4. a # Nil => heap[a].key \in Key /\ C[heap[a].key] = heap[a].value
    <2>1. a # Nil => a \in Addr /\ heap[a] # Nil
      BY FoundIs DEF HashInv
    <2> HIDE DEF C, a
    <2> QED BY <2>1, ContentsNow DEF C
  <1>5. Nil \notin Key
    BY NilAssumption
  <1>6. reply' = IF j = Nil THEN Dict!NoReply ELSE [ok |-> TRUE, key |-> j, value |-> C[j]]
    <2> HIDE DEF C, a
    <2>1. CASE a = Nil
      BY <1>1, <2>1 DEF Returned, Dict!NoReply, a
    <2>2. CASE a # Nil
      BY <1>1, <1>4, <1>5, <2>2 DEF a
    <2> QED BY <2>1, <2>2
  <1>7. ContentsOf(heap') = C
    BY <1>2
  <1> HIDE DEF j, a
  <1>8. Dict!DictGet(k) <=>
          \E i \in Dict!Hits(k) :
            /\ reply' = IF i = Nil THEN Dict!NoReply ELSE [ok |-> TRUE, key |-> i, value |-> C[i]]
            /\ ContentsOf(heap') = C
    BY DEF Dict!DictGet, C, ContentsOf
  <1> QED BY <1>3, <1>6, <1>7, <1>8

LEMMA DictDelStep ==
  ASSUME HashInv, HashInv', NEW k \in Key, Del(k)
  PROVE  Dict!DictDel(k)
  <1> DEFINE C == ContentsOf(heap)
             D == ContentsOf(heap')
  <1>1. PICK read \in Memory(k) :
          reply' = Returned(Found(k, read) # Nil) /\ Keeps(Table, Table', {Found(k, read)})
    BY DelSound DEF HashInv
  <1> DEFINE a == Found(k, read)
             j == IF a = Nil THEN Nil ELSE heap[a].key
  <1>2. j \in Dict!Hits(k)
    BY FoundHits
  <1>3. a = Nil \/ (a \in Addr /\ heap[a] # Nil)
    BY FoundIs DEF HashInv
  <1>4. \A b \in Addr : IF b = a THEN heap'[b] = Nil
                        ELSE /\ heap'[b] = Nil <=> heap[b] = Nil
                             /\ heap'[b].key = heap[b].key /\ heap'[b].value = heap[b].value
    BY <1>1 DEF Keeps, Table
  <1>5. /\ \A b \in Addr : heap[b] # Nil =>
              /\ heap[b].key \in Key /\ heap[b].value \in Value /\ C[heap[b].key] = heap[b].value
        /\ \A i \in Key : (\A b \in Addr : ~ (heap[b] # Nil /\ heap[b].key = i)) => C[i] = Nil
    BY ContentsNow
  <1>6. /\ \A b \in Addr : heap'[b] # Nil =>
              /\ heap'[b].key \in Key /\ heap'[b].value \in Value /\ D[heap'[b].key] = heap'[b].value
        /\ \A i \in Key : (\A b \in Addr : ~ (heap'[b] # Nil /\ heap'[b].key = i)) => D[i] = Nil
    BY ContentsNext
  <1>7. \A b, d \in Addr : heap[b] # Nil /\ heap[d] # Nil /\ heap[b].key = heap[d].key => b = d
    BY DEF HashInv, OneElementPerKey
  <1>8. Nil \notin Key
    BY NilAssumption
  <1>9. D = [i \in Key |-> D[i]]
    BY DEF ContentsOf
  <1> HIDE DEF C, D, a
  <1>10. ASSUME NEW i \in Key
         PROVE  D[i] = IF i = j THEN Nil ELSE C[i]
    <2>1. CASE \E b \in Addr : heap'[b] # Nil /\ heap'[b].key = i
      <3>1. PICK b \in Addr : heap'[b] # Nil /\ heap'[b].key = i
        BY <2>1
      <3>2. b # a /\ heap[b] # Nil /\ heap[b].key = i /\ heap[b].value = heap'[b].value
        BY <1>4, <3>1
      <3>3. i # j
        BY <1>3, <1>7, <1>8, <3>2
      <3> QED BY <1>5, <1>6, <3>1, <3>2, <3>3
    <2>2. CASE ~ \E b \in Addr : heap'[b] # Nil /\ heap'[b].key = i
      <3>1. D[i] = Nil
        BY <1>6, <2>2
      <3>2. i # j => \A b \in Addr : ~ (heap[b] # Nil /\ heap[b].key = i)
        <4> SUFFICES ASSUME i # j, NEW b \in Addr, heap[b] # Nil, heap[b].key = i
                     PROVE  FALSE
          OBVIOUS
        <4>1. b # a
          BY <1>3, NilAssumption
        <4> QED BY <1>4, <2>2, <4>1
      <3> QED BY <1>5, <3>1, <3>2
    <2> QED BY <2>1, <2>2
  <1>11. D = [i \in Key |-> IF i = j THEN Nil ELSE C[i]]
    BY <1>9, <1>10
  <1>12. j # Nil <=> a # Nil
    BY <1>3, <1>5, <1>8
  <1>13. reply' = [Dict!NoReply EXCEPT !.ok = (j # Nil)]
    BY <1>1, <1>12 DEF Returned, Dict!NoReply, a
  <1> HIDE DEF j
  <1>14. Dict!DictDel(k) <=>
           \E m \in Dict!Hits(k) :
             /\ D = [i \in Key |-> IF i = m THEN Nil ELSE C[i]]
             /\ reply' = [Dict!NoReply EXCEPT !.ok = (m # Nil)]
    BY DEF Dict!DictDel, C, D, ContentsOf
  <1> QED BY <1>2, <1>11, <1>13, <1>14

LEMMA DictInitially ==
  ASSUME Init
  PROVE  Dict!DictInit
  <1>1. \A a \in Addr : heap[a] = Nil
    BY DEF Init
  <1>2. reply = Dict!NoReply
    BY DEF Init, Returned, Dict!NoReply
  <1> QED BY <1>1, <1>2 DEF Dict!DictInit

LEMMA DictStep ==
  ASSUME HashInv, HashInv', [Next]_vars
  PROVE  [Dict!DictNext]_(Dict!dictVars)
  <1>1. CASE UNCHANGED vars
    BY <1>1 DEF vars, Dict!dictVars
  <1>2. ASSUME NEW k \in Key, Get(k)
        PROVE  Dict!DictNext
    BY <1>2, DictGetStep DEF Dict!DictNext
  <1>3. ASSUME NEW k \in Key, Del(k)
        PROVE  Dict!DictNext
    BY <1>3, DictDelStep DEF Dict!DictNext
  <1>4. ASSUME NEW k \in Key, NEW v \in Value, Set(k, v)
        PROVE  Dict!DictNext
    BY <1>4, DictSetStep DEF Dict!DictNext
  <1> QED BY <1>1, <1>2, <1>3, <1>4 DEF Next

----------------------------------------------------------------------------
(****************************************************************************)
(* The table, whatever calls it gets.                                       *)
(****************************************************************************)

\* Elements, buckets and replies are what their structs can hold, and no count leaves
\* its range, through any calls of set(), get() and del().
THEOREM HashTypeCorrect == Spec => []HashTypeOK
  <1> QED BY HashInvariant, HashTyped, PTL

\* The pointers of setElement() and del() keep every bucket a list, forwards and
\* backwards, of elements that hash to it.
THEOREM ListsStaySound == Spec => []ListsSound
  <1> QED BY HashInvariant, HashLists, PTL

\* What setElement() has linked and del() has not freed is on the list of its bucket,
\* and the count of the bucket is the length of that list.
THEOREM NothingLost == Spec => []AllReachable
  <1> QED BY HashInvariant, HashLists, PTL

\* setElement() leaves no value of a key behind its new one.
THEOREM KeysReplaced == Spec => []OneElementPerKey
  <1>1. HashInv => OneElementPerKey
    BY DEF HashInv
  <1> QED BY <1>1, HashInvariant, PTL

\* set(), get() and del() of hashtable.c are those of a map in which only keys of a
\* bucket that begin alike are confused, as Dictionary says.
THEOREM TableIsDictionary == Spec => ImplementsDictionary
  <1> QED BY DictInitially, DictStep, HashInvariant, PTL DEF Spec, ImplementsDictionary, Dict!DictSpec

----------------------------------------------------------------------------
(****************************************************************************)
(* The message board.  Its requests are calls of the table; what it has     *)
(* told a client is the first that a search for it meets.                   *)
(****************************************************************************)

HeldInv == held \subseteq Key /\ \A i \in held : \E a \in Addr : First(Table, i, a)

HttpInv == HashInv /\ FiledUnderId /\ HeldInv

\* A request is a call of get(), set() or del(), or none.
LEMMA RequestCalls ==
  ASSUME [HttpNext]_httpVars
  PROVE  \/ UNCHANGED <<heap, buckets, held>> /\ [Next]_vars
         \/ \E body \in Value \ {Nil} :
              /\ Set(IdOf[body], body)
              /\ held' = (held \ Endangered(IdOf[body])) \cup {IdOf[body]}
         \/ \E path \in Key :
              Del(path) /\ held' = IF reply'.ok THEN held \ Confusable(path) ELSE held
  <1>1. CASE UNCHANGED httpVars
    BY <1>1 DEF httpVars, vars
  <1>2. CASE OnExit
    BY <1>2 DEF OnExit, Board, vars
  <1>3. ASSUME NEW m \in Method, NEW path \in Key \cup {Nil}, NEW body \in Value \cup {Nil},
               Request(m, path, body) \/ LateRequest(m, path, body)
        PROVE  \/ UNCHANGED <<heap, buckets, held>> /\ [Next]_vars
               \/ \E b \in Value \ {Nil} :
                    Set(IdOf[b], b) /\ held' = (held \ Endangered(IdOf[b])) \cup {IdOf[b]}
               \/ \E p \in Key :
                    Del(p) /\ held' = IF reply'.ok THEN held \ Confusable(p) ELSE held
    <2>1. CASE GetMovie(path)
      <3>1. path \in Key /\ Get(path) /\ held' = held
        BY <2>1 DEF GetMovie
      <3>2. UNCHANGED <<heap, buckets>>
        BY <3>1 DEF Get
      <3> QED BY <3>1, <3>2 DEF Next
    <2>2. CASE PostMovie(path, body)
      BY <2>2 DEF PostMovie
    <2>3. CASE DeleteMovie(path)
      BY <2>3 DEF DeleteMovie
    <2>4. CASE UNCHANGED <<Board, held>>
      BY <2>4 DEF Board, vars
    <2>5. CASE LateRequest(m, path, body)
      BY <2>4, <2>5 DEF LateRequest
    <2> QED BY <1>3, <2>1, <2>2, <2>3, <2>4, <2>5 DEF Request, BadRequest
  <1> QED BY <1>1, <1>2, <1>3 DEF HttpNext

LEMMA BoardStep ==
  ASSUME [HttpNext]_httpVars
  PROVE  [Next]_vars
  <1>1. ASSUME NEW body \in Value, Set(IdOf[body], body)
        PROVE  Next
    <2>1. IdOf[body] \in Key
      BY IdAssumption
    <2> QED BY <1>1, <2>1 DEF Next
  <1>2. ASSUME NEW path \in Key, Del(path)
        PROVE  Next
    BY <1>2 DEF Next
  <1> QED BY <1>1, <1>2, RequestCalls

\* A search for an element that is the first ends there.
LEMMA FirstFound ==
  ASSUME Sound(Table), NEW i \in Key, NEW a \in Addr, First(Table, i, a), NEW read \in Memory(i)
  PROVE  Found(i, read) # Nil /\ heap[Found(i, read)].key = i
  <1>1. PICK n, c, p : IsFirst(Table, i, n, c, p) /\ c[p] = a
    BY DEF First
  <1>2. /\ IsList(Table, SlotOf[i], n, c) /\ p \in 1 .. n
        /\ heap[c[p]].key = i
        /\ \A q \in 1 .. p - 1 : heap[c[q]].key \notin Confusable(i)
    BY <1>1 DEF IsFirst, Table
  <1>3. Chain(SlotOf[i]) = c /\ DOMAIN c = 1 .. n
    BY <1>2, ChainIsList
  <1>4. /\ n \in Nat
        /\ \A q \in 1 .. n : c[q] \in Addr /\ heap[c[q]] # Nil /\ SlotOf[heap[c[q]].key] = SlotOf[i]
    BY <1>2 DEF IsList, Table
  <1>5. \A q \in 1 .. n : heap[c[q]].key \in Key
    BY <1>4 DEF Sound, Typed, Table, Element
  <1> DEFINE hits == {q \in 1 .. n : Matches(c[q], i, read)}
             h == CHOOSE q \in hits : \A r \in hits : q <= r
  <1>6. Found(i, read) = IF hits = {} THEN Nil ELSE c[h]
    BY <1>3 DEF Found
  <1>7. p \in hits
    BY <1>2, BeginsAssumption DEF Matches
  <1>8. hits \subseteq Nat
    BY <1>4
  <1>9. \E q \in hits : \A r \in hits : q <= r
    BY <1>7, <1>8, LeastNumber
  <1>10. h \in hits /\ h <= p
    BY <1>7, <1>9
  <1>11. h \in 1 .. n /\ Matches(c[h], i, read)
    BY <1>10
  <1> HIDE DEF h
  <1>12. heap[c[h]].key \in Confusable(i)
    <2>1. <<heap[c[h]].key, i>> \in Begins \/ <<i, heap[c[h]].key>> \in Begins
      BY <1>4, <1>11, MatchesRelated
    <2> QED BY <1>4, <1>5, <1>11, <2>1 DEF Confusable
  <1>13. ~ (h \in 1 .. p - 1)
    BY <1>2, <1>12
  <1>14. h = p
    BY <1>2, <1>4, <1>10, <1>11, <1>13
  <1> QED BY <1>2, <1>4, <1>6, <1>7, <1>14, NilAssumption

LEMMA FirstKey ==
  ASSUME NEW i, NEW a, First(Table, i, a)
  PROVE  heap[a].key = i
  BY DEF First, IsFirst, Table

LEMMA PostKeeps ==
  ASSUME HttpInv, NEW body \in Value, Set(IdOf[body], body),
         held' = (held \ Endangered(IdOf[body])) \cup {IdOf[body]}
  PROVE  HeldInv' /\ FiledUnderId'
  <1> DEFINE id == IdOf[body]
  <1>1. id \in Key
    BY IdAssumption
  <1>2. PICK a \in Addr, read \in Memory(id) : SetEffect(id, body, a, read)
    BY <1>1, SetSound DEF HttpInv, HashInv
  <1> HIDE DEF id
  <1>3. /\ heap'[a].key = id /\ heap'[a].value = body
        /\ \A b \in Addr \ {a} : heap'[b] # Nil =>
             heap[b] # Nil /\ heap'[b].key = heap[b].key /\ heap'[b].value = heap[b].value
    BY <1>2 DEF SetEffect
  <1>4. FiledUnderId'
    BY <1>3 DEF HttpInv, FiledUnderId, id
  <1>5. held' = (held \ Endangered(id)) \cup {id}
    BY DEF id
  <1>6. ASSUME NEW i \in held \ Endangered(id)
        PROVE  i \in Key /\ \E b \in Addr : First(Table', i, b)
    <2>1. i \in Key
      BY DEF HttpInv, HeldInv
    <2>2. PICK b \in Addr : First(Table, i, b)
      BY DEF HttpInv, HeldInv
    <2>3. heap[b].key = i
      BY <2>2, FirstKey
    <2>4. i \notin Confusable(id)
      BY DEF Endangered
    <2>5. i # id /\ id \notin Confusable(i)
      BY <1>1, <2>1, <2>4, BeginsAssumption DEF Confusable
    <2>6. b \notin Superseded(id, read)
      <3> SUFFICES ASSUME b \in Superseded(id, read)
                   PROVE  FALSE
        OBVIOUS
      <3>1. CASE i \in Dict!Longer(id) \cup Dict!Shorter(id)
        BY <2>1, <2>4, <3>1 DEF Dict!Longer, Dict!Shorter, Confusable
      <3>2. ASSUME NEW d \in Superseded(id, read),
                   heap[d].key \in Dict!Shorter(id), i \in Dict!Longer(heap[d].key)
            PROVE  FALSE
        <4>1. d \in Addr /\ heap[d] # Nil
          BY <1>1, SupersededIs DEF HttpInv, HashInv
        <4>2. d \in Overread(id) /\ SlotOf[heap[d].key] = SlotOf[id]
          BY <3>2, <4>1 DEF Dict!Shorter, Overread
        <4>3. i \in Endangered(id)
          BY <2>1, <3>2, <4>2 DEF Dict!Longer, Endangered
        <4> QED BY <4>3
      <3> QED BY <1>1, <2>3, <3>1, <3>2, SupersededKeys DEF HttpInv, HashInv
    <2>7. First(Table', i, b)
      BY <1>2, <2>1, <2>2, <2>5, <2>6 DEF SetEffect
    <2> QED BY <2>1, <2>7
  <1>7. First(Table', id, a)
    BY <1>2 DEF SetEffect
  <1>8. HeldInv'
    <2>1. held' \subseteq Key
      BY <1>1, <1>5, <1>6
    <2>2. \A i \in held' : \E b \in Addr : First(Table', i, b)
      BY <1>5, <1>6, <1>7
    <2> QED BY <2>1, <2>2 DEF HeldInv
  <1> QED BY <1>4, <1>8

LEMMA DeleteKeeps ==
  ASSUME HttpInv, NEW path \in Key, Del(path),
         held' = IF reply'.ok THEN held \ Confusable(path) ELSE held
  PROVE  HeldInv' /\ FiledUnderId'
  <1>1. PICK read \in Memory(path) :
          /\ reply' = Returned(Found(path, read) # Nil)
          /\ Keeps(Table, Table', {Found(path, read)})
          /\ \A i \in Key, b \in Addr \ {Found(path, read)} :
               First(Table, i, b) => First(Table', i, b)
    BY DelSound DEF HttpInv, HashInv
  <1> DEFINE a == Found(path, read)
  <1>2. a # Nil => /\ a \in Addr /\ heap[a] # Nil /\ SlotOf[heap[a].key] = SlotOf[path]
                   /\ Matches(a, path, read)
    BY FoundIs DEF HttpInv, HashInv
  <1>3. a # Nil => heap[a].key \in Confusable(path)
    <2> SUFFICES ASSUME a # Nil
                 PROVE  heap[a].key \in Confusable(path)
      OBVIOUS
    <2>1. a \in Addr /\ heap[a] # Nil /\ SlotOf[heap[a].key] = SlotOf[path] /\ Matches(a, path, read)
      BY <1>2
    <2> HIDE DEF a
    <2>2. <<heap[a].key, path>> \in Begins \/ <<path, heap[a].key>> \in Begins
      BY <2>1, MatchesRelated
    <2>3. heap[a].key \in Key
      BY <2>1 DEF HttpInv, HashInv, Sound, Typed, Table, Element
    <2> QED BY <2>1, <2>2, <2>3 DEF Confusable
  <1>4. reply'.ok <=> a # Nil
    BY <1>1 DEF Returned
  <1>5. \A b \in Addr : heap'[b] # Nil =>
          heap[b] # Nil /\ heap'[b].key = heap[b].key /\ heap'[b].value = heap[b].value
    BY <1>1 DEF Keeps, Table
  <1>6. FiledUnderId'
    BY <1>5 DEF HttpInv, FiledUnderId
  <1> HIDE DEF a
  <1>7. ASSUME NEW i \in held'
        PROVE  i \in Key /\ \E b \in Addr : First(Table', i, b)
    <2>1. i \in held /\ i \in Key
      BY DEF HttpInv, HeldInv
    <2>2. PICK b \in Addr : First(Table, i, b)
      BY <2>1 DEF HttpInv, HeldInv
    <2>3. heap[b].key = i
      BY <2>2, FirstKey
    <2>4. b # a
      BY <1>3, <1>4, <2>3, NilAssumption
    <2>5. First(Table', i, b)
      BY <1>1, <2>1, <2>2, <2>4 DEF a
    <2> QED BY <2>1, <2>5
  <1>8. HeldInv'
    BY <1>7 DEF HeldInv
  <1> QED BY <1>6, <1>8

LEMMA HttpStep ==
  ASSUME HttpInv, [HttpNext]_httpVars
  PROVE  HttpInv'
  <1>1. HashInv'
    BY BoardStep, HashStep DEF HttpInv
  <1>2. CASE UNCHANGED <<heap, buckets, held>>
    <2>1. Table' = Table
      BY <1>2 DEF Table
    <2>2. HeldInv'
      BY <1>2, <2>1 DEF HttpInv, HeldInv
    <2>3. FiledUnderId'
      BY <1>2 DEF HttpInv, FiledUnderId
    <2> QED BY <1>1, <2>2, <2>3 DEF HttpInv
  <1>3. ASSUME NEW body \in Value, Set(IdOf[body], body),
               held' = (held \ Endangered(IdOf[body])) \cup {IdOf[body]}
        PROVE  HttpInv'
    <2>1. HeldInv' /\ FiledUnderId'
      BY <1>3, PostKeeps
    <2> QED BY <1>1, <2>1 DEF HttpInv
  <1>4. ASSUME NEW path \in Key, Del(path),
               held' = IF reply'.ok THEN held \ Confusable(path) ELSE held
        PROVE  HttpInv'
    <2>1. HeldInv' /\ FiledUnderId'
      BY <1>4, DeleteKeeps
    <2> QED BY <1>1, <2>1 DEF HttpInv
  <1> QED BY <1>2, <1>3, <1>4, RequestCalls

LEMMA HttpInvariant == HttpSpec => []HttpInv
  <1>1. HttpInit => HttpInv
    BY HashInit DEF HttpInit, Init, HttpInv, FiledUnderId, HeldInv
  <1> QED BY <1>1, HttpStep, PTL DEF HttpSpec

\* The message board does nothing to the table but call it: whatever the requests and
\* signals are, what is proved of the table holds in the server.
THEOREM BoardIsTable == HttpSpec => Spec
  <1>1. HttpInit => Init
    BY DEF HttpInit
  <1> QED BY <1>1, BoardStep, PTL DEF HttpSpec, Spec

\* For any bodies, IDs and requests: movie_handler() files a body under the ID that it
\* tells, and under no other.
THEOREM FiledRight == HttpSpec => []FiledUnderId
  <1>1. HttpInv => FiledUnderId
    BY DEF HttpInv
  <1> QED BY <1>1, HttpInvariant, PTL

\* A message is found under the ID that its POST told, whatever lies in memory behind
\* the keys, until a request that may take it for another.
THEOREM StaysRetrievable == HttpSpec => []Retrievable
  <1>1. ASSUME HttpInv
        PROVE  Retrievable
    <2> SUFFICES ASSUME NEW i \in held, NEW read \in Memory(i)
                 PROVE  Found(i, read) # Nil /\ heap[Found(i, read)].key = i
      BY DEF Retrievable
    <2>1. i \in Key /\ Sound(Table) /\ \E a \in Addr : First(Table, i, a)
      BY <1>1 DEF HttpInv, HashInv, HeldInv
    <2> QED BY <2>1, FirstFound
  <1> QED BY <1>1, HttpInvariant, PTL

================================================================================
