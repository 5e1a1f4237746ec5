-------------------------------- MODULE RpcProofs ------------------------------
(****************************************************************************)
(* The RPC exchange of 2_rpc for any number of clients, any keys and values *)
(* and any lengths of them that a field of 16 bits can hold.                *)
(****************************************************************************)
EXTENDS Rpc, TLAPS

----------------------------------------------------------------------------
(****************************************************************************)
(* The inductive invariant.                                                 *)
(****************************************************************************)

\* The message that carries a request.
Sent(r) == [reply |-> FALSE, op |-> r.op, key |-> r.key, val |-> r.val]

\* Only a GET that finds something is answered with an element.
IsReply(m) ==
  /\ m.reply
  /\ \/ m.op = "get" /\ m.key \in Key /\ m.val \in Value
     \/ m.op \in {"set", "del", "none"} /\ m.key = Nil /\ m.val = Nil

\* Between a call and its return there is a message: the request, or the reply to it.
MessageInv ==
  \A c \in Client :
    /\ call[c] = Nil <=> message[c] = Nil
    /\ call[c] # Nil => WellFormed(call[c])
    /\ message[c] # Nil => message[c] = Sent(call[c]) \/ IsReply(message[c])

\* The clients that wait to be accepted or are served have a request under way, and
\* none of them is there twice.
QueueInv ==
  /\ \A i \in 1 .. Len(queue) :
       /\ message[queue[i]] # Nil
       /\ ~ message[queue[i]].reply
       /\ queue[i] # serving
       /\ \A j \in 1 .. Len(queue) : queue[i] = queue[j] => i = j
  /\ serving \in Client => message[serving] # Nil /\ ~ message[serving].reply

\* The loop has not read more than has arrived.
LoopBounds(l, n) ==
  /\ l \in LoopOK
  /\ l.past <= n
  /\ l.read <= l.past
  /\ l.twice = 0 => l \in {Fresh, Broken}

RpcInv ==
  /\ RpcTypeOK
  /\ arrived \in [Client -> Nat]
  /\ MessageInv
  /\ QueueInv
  /\ \A c \in Client : message[c] # Nil => LoopBounds(loop[c], arrived[c])

----------------------------------------------------------------------------
(****************************************************************************)
(* Messages.                                                                *)
(****************************************************************************)

\* The bounds of lengths and of sizes.
LEMMA Maxima ==
  /\ MaxLength \in Nat /\ MaxSize \in Nat
  /\ 6 <= MaxLength /\ MaxSize = 6 + MaxLength + MaxLength
  BY DEF MaxLength, MaxSize, HeaderSize

\* Messages have at most MaxLength bytes of key and as many of value.
LEMMA Lengths ==
  ASSUME NEW m \in Message
  PROVE  /\ KeyLength(m) \in 0 .. MaxLength /\ ValueLength(m) \in 0 .. MaxLength
         /\ Size(m) \in 6 .. MaxSize
         /\ Size(m) = 6 + KeyLength(m) + ValueLength(m)
  <1> DEFINE kl == KeyLength(m)
             vl == ValueLength(m)
  <1>1. m.key \in Key \cup {Nil} /\ m.val \in Value \cup {Nil}
    BY DEF Message
  <1>2. kl \in 0 .. MaxLength
    BY <1>1, LengthAssumption, Maxima DEF KeyLength
  <1>3. vl \in 0 .. MaxLength
    BY <1>1, LengthAssumption, Maxima DEF ValueLength
  <1>4. Size(m) = 6 + kl + vl
    BY DEF Size, HeaderSize
  <1> HIDE DEF kl, vl
  <1>5. 6 + kl + vl \in 6 .. MaxSize
    BY Maxima, <1>2, <1>3
  <1> QED BY <1>2, <1>3, <1>4, <1>5 DEF kl, vl

\* A message without a field has length 0 for it, and no key is empty.
LEMMA EmptyFields ==
  ASSUME NEW m \in Message
  PROVE  (m.key = Nil <=> KeyLength(m) = 0) /\ (m.val = Nil => ValueLength(m) = 0)
  <1>1. m.key \in Key \cup {Nil} /\ m.val \in Value \cup {Nil}
    BY DEF Message
  <1>2. m.key = Nil <=> KeyLength(m) = 0
    BY <1>1, LengthAssumption, Maxima DEF KeyLength
  <1>3. m.val = Nil => ValueLength(m) = 0
    BY DEF ValueLength
  <1> QED BY <1>2, <1>3

\* A request is a message and so is the reply to it, and a message is not NULL.
LEMMA MessageTypes ==
  ASSUME NEW r \in Request, WellFormed(r), table \in [Key -> Value \cup {Nil}]
  PROVE  /\ Sent(r) \in Message /\ Sent(r) # Nil /\ ~ Sent(r).reply
         /\ Sent(r).val # Nil => Sent(r).key # Nil
         /\ Reply(Sent(r)) \in Message /\ Reply(Sent(r)) # Nil /\ IsReply(Reply(Sent(r)))
  <1>1. /\ r.op \in {"set", "get", "del"} /\ r.key \in Key /\ r.val \in Value \cup {Nil}
        /\ table[r.key] \in Value \cup {Nil}
    BY DEF Request
  <1>2. Sent(r) \in Message /\ ~ Sent(r).reply
    BY <1>1 DEF Sent, Message
  <1>3. Reply(Sent(r)) \in Message /\ IsReply(Reply(Sent(r)))
    BY <1>1 DEF Sent, Reply, Ack, Message, IsReply
  <1> QED BY <1>1, <1>2, <1>3, NilAssumption DEF Sent

\* A message under way has a value only with a key.
LEMMA MessageShape ==
  ASSUME RpcInv, NEW c \in Client, message[c] # Nil
  PROVE  /\ message[c] \in Message
         /\ message[c].val # Nil => message[c].key # Nil
         /\ call[c] \in Request /\ WellFormed(call[c])
         /\ ~ message[c].reply => message[c] = Sent(call[c])
         /\ message[c].reply => IsReply(message[c])
  <1>1. /\ message[c] \in Message /\ call[c] # Nil /\ call[c] \in Request
        /\ WellFormed(call[c])
        /\ message[c] = Sent(call[c]) \/ IsReply(message[c])
    BY DEF RpcInv, RpcTypeOK, MessageInv
  <1>2. ~ Sent(call[c]).reply /\ Sent(call[c]).key = call[c].key
    BY DEF Sent
  <1>3. call[c].key \in Key
    BY <1>1 DEF Request
  <1> QED BY <1>1, <1>2, <1>3, NilAssumption DEF IsReply

----------------------------------------------------------------------------
(****************************************************************************)
(* The receive loop for any way in which TCP cuts a message.                *)
(****************************************************************************)

\* The fields of the loop's variables.
LEMMA LoopFields ==
  ASSUME NEW l \in LoopOK
  PROVE  /\ l.twice \in 0 .. 2 /\ l.read \in 0 .. MaxSize /\ l.readSize \in 0 .. MaxLength
         /\ l.past \in 0 .. MaxSize /\ l.k \in 0 .. MaxLength /\ l.v \in 0 .. MaxLength
         /\ l.keyFrom \in 0 .. 6 /\ l.valueFrom \in 0 .. MaxSize
         /\ l.over \in BOOLEAN /\ l.done \in BOOLEAN
  BY DEF LoopOK

\* The header, when at most its six bytes are taken for it.
LEMMA AfterHeaderIs ==
  ASSUME NEW l \in LoopOK, NEW m, NEW rs
  PROVE  AfterHeader(l, m, rs) =
           [twice |-> 1, read |-> 0, readSize |-> KeyField(m, rs), past |-> rs,
            k |-> KeyField(m, rs), v |-> ValueField(m, rs), keyFrom |-> rs,
            valueFrom |-> l.valueFrom, over |-> l.over, done |-> KeyField(m, rs) <= 0]
  <1> DEFINE k == KeyField(m, rs)
             v == ValueField(m, rs)
             d == k <= 0
  <1>1. AfterHeader(l, m, rs) =
          [l EXCEPT !.twice = 1, !.past = rs, !.keyFrom = rs, !.k = k, !.v = v,
                    !.readSize = k, !.read = 0, !.done = d]
    BY DEF AfterHeader
  <1> HIDE DEF k, v, d
  <1>2. AfterHeader(l, m, rs) =
          [twice |-> 1, read |-> 0, readSize |-> k, past |-> rs, k |-> k, v |-> v, keyFrom |-> rs,
           valueFrom |-> l.valueFrom, over |-> l.over, done |-> d]
    BY <1>1 DEF LoopOK
  <1> QED BY <1>2 DEF k, v, d

\* The key, when it is complete.
LEMMA AfterKeyIs ==
  ASSUME NEW l \in LoopOK, NEW rs
  PROVE  AfterKey(l, rs) =
           [twice |-> 2, read |-> 0, readSize |-> l.v, past |-> l.past + rs, k |-> l.k, v |-> l.v,
            keyFrom |-> l.keyFrom, valueFrom |-> l.past + rs, over |-> l.over, done |-> l.v <= 0]
  <1> DEFINE p == l.past + rs
             v == l.v
             d == v <= 0
  <1>1. AfterKey(l, rs) =
          [l EXCEPT !.twice = 2, !.past = p, !.valueFrom = p, !.readSize = v, !.read = 0,
                    !.done = d]
    BY DEF AfterKey
  <1>2. v = l.v
    OBVIOUS
  <1> HIDE DEF p, v, d
  <1>3. AfterKey(l, rs) =
          [twice |-> 2, read |-> 0, readSize |-> v, past |-> p, k |-> l.k, v |-> l.v,
           keyFrom |-> l.keyFrom, valueFrom |-> p, over |-> l.over, done |-> d]
    BY <1>1, <1>2 DEF LoopOK
  <1> QED BY <1>3 DEF p, v, d

\* A piece of a key or of a value.
LEMMA FurtherIs ==
  ASSUME NEW l \in LoopOK, NEW rs
  PROVE  Further(l, rs) =
           [twice |-> l.twice, read |-> l.read + rs, readSize |-> l.readSize, past |-> l.past + rs,
            k |-> l.k, v |-> l.v, keyFrom |-> l.keyFrom, valueFrom |-> l.valueFrom,
            over |-> l.read + rs > l.readSize, done |-> l.read + rs >= l.readSize]
  <1> DEFINE p == l.past + rs
             r == l.read + rs
             o == l.read + rs > l.readSize
             d == l.read + rs >= l.readSize
  <1>1. Further(l, rs) = [l EXCEPT !.past = p, !.read = r, !.over = o, !.done = d]
    BY DEF Further
  <1> HIDE DEF p, r, o, d
  <1>2. Further(l, rs) =
          [twice |-> l.twice, read |-> r, readSize |-> l.readSize, past |-> p,
           k |-> l.k, v |-> l.v, keyFrom |-> l.keyFrom, valueFrom |-> l.valueFrom,
           over |-> o, done |-> d]
    BY <1>1 DEF LoopOK
  <1> QED BY <1>2 DEF p, r, o, d

\* What has come of a length field is no more than the length.
LEMMA FieldBounds ==
  ASSUME NEW n \in 0 .. MaxLength, NEW come
  PROVE  Field(n, come) \in 0 .. n /\ Field(n, come) \in 0 .. MaxLength
  <1>1. 256 * (n \div 256) \in 0 .. n
    OBVIOUS
  <1> DEFINE h == 256 * (n \div 256)
             f == Field(n, come)
  <1>2. f = n \/ f = h \/ f = 0
    BY DEF Field
  <1>3. h \in 0 .. n
    BY <1>1
  <1> HIDE DEF h, f
  <1>4. f \in 0 .. n /\ f \in 0 .. MaxLength
    BY <1>2, <1>3, Maxima
  <1> QED BY <1>4 DEF f

\* How many bytes a recv() returns that asks for z while those from p to a have arrived.
Taken(a, p, z) == IF a - p < z THEN a - p ELSE z

LEMMA TakenBounds ==
  ASSUME NEW a \in 0 .. MaxSize, NEW p \in 0 .. MaxSize, NEW z \in 0 .. MaxLength, p < a
  PROVE  Taken(a, p, z) \in 0 .. MaxLength /\ Taken(a, p, z) <= z /\ p + Taken(a, p, z) <= a
  BY Maxima DEF Taken

\* At its beginning the loop has read nothing.
LEMMA FreshBounds == Fresh \in LoopOK /\ LoopBounds(Fresh, 0)
  BY Maxima DEF Fresh, LoopOK, LoopBounds, HeaderSize

\* Nor has it where recv() has failed.
LEMMA BrokenBounds ==
  /\ Broken \in LoopOK /\ LoopBounds(Broken, HeaderSize)
  /\ Broken.done /\ Broken.past = 0 /\ Broken.readSize = 6 /\ Broken.twice = 0
  <1>1. ASSUME NEW l \in LoopOK
        PROVE  [l EXCEPT !.done = TRUE] =
                 [twice |-> l.twice, read |-> l.read, readSize |-> l.readSize, past |-> l.past,
                  k |-> l.k, v |-> l.v, keyFrom |-> l.keyFrom, valueFrom |-> l.valueFrom,
                  over |-> l.over, done |-> TRUE]
    <2> DEFINE d == TRUE
    <2> HIDE DEF d
    <2>1. [l EXCEPT !.done = d] =
            [twice |-> l.twice, read |-> l.read, readSize |-> l.readSize, past |-> l.past,
             k |-> l.k, v |-> l.v, keyFrom |-> l.keyFrom, valueFrom |-> l.valueFrom,
             over |-> l.over, done |-> d]
      BY DEF LoopOK
    <2> QED BY <2>1 DEF d
  <1>2. Broken = [twice |-> 0, read |-> 0, readSize |-> 6, past |-> 0, k |-> 0, v |-> 0,
                  keyFrom |-> 0, valueFrom |-> 0, over |-> FALSE, done |-> TRUE]
    <2>1. Broken = [Fresh EXCEPT !.done = TRUE]
      BY DEF Broken
    <2>2. /\ Fresh.twice = 0 /\ Fresh.read = 0 /\ Fresh.readSize = 6 /\ Fresh.past = 0
          /\ Fresh.k = 0 /\ Fresh.v = 0 /\ Fresh.keyFrom = 0 /\ Fresh.valueFrom = 0
          /\ Fresh.over = FALSE
      BY DEF Fresh, HeaderSize
    <2> QED BY <1>1, <2>1, <2>2, FreshBounds
  <1> QED BY <1>2, Maxima DEF LoopOK, LoopBounds, HeaderSize

\* One recv() takes bytes that have arrived, read_size at most.
LEMMA ReceivedBounds ==
  ASSUME NEW m \in Message, NEW a \in 0 .. Size(m), NEW l,
         LoopBounds(l, a), l.past < a
  PROVE  LoopBounds(Received(l, m, a), a)
  <1> DEFINE p == l.past
             q == l.read
             z == l.readSize
             rs == Taken(a, p, z)
             next == Received(l, m, a)
  <1>1. l \in LoopOK /\ a \in 0 .. MaxSize
    <2>1. l \in LoopOK
      BY DEF LoopBounds
    <2>2. a \in 0 .. MaxSize
      <3> DEFINE s == Size(m)
      <3>1. s \in 6 .. MaxSize /\ a \in 0 .. s
        BY Lengths
      <3> HIDE DEF s
      <3> QED BY <3>1, Maxima
    <2> QED BY <2>1, <2>2
  <1>2. /\ l.twice \in 0 .. 2 /\ q \in 0 .. MaxSize /\ z \in 0 .. MaxLength
        /\ p \in 0 .. MaxSize /\ l.k \in 0 .. MaxLength /\ l.v \in 0 .. MaxLength
        /\ l.keyFrom \in 0 .. 6 /\ l.valueFrom \in 0 .. MaxSize
        /\ l.over \in BOOLEAN /\ l.done \in BOOLEAN
    BY <1>1, LoopFields
  <1>3. p < a /\ p <= a /\ q <= p /\ (l.twice = 0 => l \in {Fresh, Broken})
    BY DEF LoopBounds
  <1>4. next = IF l.twice = 0 THEN AfterHeader(l, m, rs)
               ELSE IF KeyComplete(l, rs) THEN AfterKey(l, rs)
               ELSE Further(l, rs)
    BY DEF Received, Taken
  <1>5. l.past = p /\ l.read = q /\ l.readSize = z
    OBVIOUS
  <1> HIDE DEF p, q, z, rs, next
  <1>6. rs \in 0 .. MaxLength /\ rs <= z /\ p + rs \in 0 .. MaxSize /\ p + rs <= a
        /\ q + rs \in 0 .. MaxSize /\ q + rs <= p + rs
    <2>1. rs \in 0 .. MaxLength /\ rs <= z /\ p + rs <= a
      BY <1>1, <1>2, <1>3, TakenBounds DEF rs
    <2> QED BY <1>1, <1>2, <1>3, <2>1, Maxima
  <1>7. SUFFICES /\ next \in LoopOK /\ next.past \in Int /\ next.past <= a
                 /\ next.read <= next.past /\ next.twice # 0
    BY DEF LoopBounds, next
  <1>8. CASE l.twice = 0
    <2> DEFINE k == KeyField(m, rs)
               v == ValueField(m, rs)
               d == k <= 0
    <2>1. p = 0 /\ z = 6
      <3>1. l = Fresh \/ l = Broken
        BY <1>3, <1>8
      <3> QED BY <1>5, <3>1, BrokenBounds DEF Fresh, HeaderSize
    <2>2. rs \in 0 .. 6 /\ rs \in 0 .. MaxSize /\ rs <= a
      BY <1>6, <2>1
    <2>3. k \in 0 .. MaxLength /\ v \in 0 .. MaxLength /\ d \in BOOLEAN
      BY Lengths, FieldBounds DEF KeyField, ValueField
    <2>4. next = [twice |-> 1, read |-> 0, readSize |-> k, past |-> rs,
                  k |-> k, v |-> v, keyFrom |-> rs,
                  valueFrom |-> l.valueFrom, over |-> l.over, done |-> d]
      BY <1>1, <1>4, <1>8, AfterHeaderIs
    <2> HIDE DEF k, v, d
    <2>5. next \in LoopOK
      BY <1>2, <2>2, <2>3, <2>4, Maxima DEF LoopOK
    <2>6. next.past = rs /\ next.read = 0 /\ next.twice = 1
      BY <2>4
    <2> QED BY <2>2, <2>5, <2>6
  <1>9. CASE l.twice # 0 /\ KeyComplete(l, rs)
    <2> DEFINE v == l.v
               d == v <= 0
               n == p + rs
    <2>1. next = [twice |-> 2, read |-> 0, readSize |-> v, past |-> n, k |-> l.k, v |-> v,
                  keyFrom |-> l.keyFrom, valueFrom |-> n, over |-> l.over, done |-> d]
      BY <1>1, <1>4, <1>5, <1>9, AfterKeyIs
    <2>2. v \in 0 .. MaxLength /\ d \in BOOLEAN /\ n \in 0 .. MaxSize /\ n <= a
      BY <1>2, <1>6
    <2> HIDE DEF v, d, n
    <2>3. next \in LoopOK
      BY <1>2, <2>1, <2>2, Maxima DEF LoopOK
    <2>4. next.past = n /\ next.read = 0 /\ next.twice = 2
      BY <2>1
    <2> QED BY <2>2, <2>3, <2>4
  <1>10. CASE l.twice # 0 /\ ~ KeyComplete(l, rs)
    <2> DEFINE n == p + rs
               r == q + rs
               o == r > z
               d == r >= z
    <2>1. next = [twice |-> l.twice, read |-> r, readSize |-> z, past |-> n,
                  k |-> l.k, v |-> l.v, keyFrom |-> l.keyFrom, valueFrom |-> l.valueFrom,
                  over |-> o, done |-> d]
      BY <1>1, <1>4, <1>5, <1>10, FurtherIs
    <2>2. n \in 0 .. MaxSize /\ n <= a /\ r \in 0 .. MaxSize /\ r <= n /\ o \in BOOLEAN /\ d \in BOOLEAN
      BY <1>6
    <2> HIDE DEF n, r, o, d
    <2> QED BY <1>2, <1>10, <2>1, <2>2 DEF LoopOK
  <1> QED BY <1>8, <1>9, <1>10

----------------------------------------------------------------------------
(****************************************************************************)
(* The invariant holds, one lemma per action.                               *)
(****************************************************************************)

\* What do_rpc() returns.
LEMMA ElementType ==
  ASSUME NEW m \in Message
  PROVE  Element(m) \in Answers
  BY DEF Element, Message, Answers

LEMMA ReturnedType ==
  ASSUME NEW m \in Message, NEW l
  PROVE  Returned(l, m) \in Answers
  BY ElementType DEF Returned, Message, Answers

\* A short answer is a reply.
LEMMA AckType ==
  ASSUME NEW op \in {"set", "del", "none"}
  PROVE  Ack(op) \in Message /\ IsReply(Ack(op)) /\ Ack(op) # Nil
  <1>1. Ack(op) \in Message /\ IsReply(Ack(op))
    BY DEF Ack, Message, IsReply
  <1> QED BY <1>1, NilAssumption

LEMMA RpcInit ==
  ASSUME Init
  PROVE  RpcInv
  <1>1. NoElement \in Answers
    BY AckType, ElementType DEF NoElement
  <1>2. RpcTypeOK
    BY <1>1, FreshBounds DEF Init, RpcTypeOK
  <1>3. MessageInv /\ QueueInv
    BY NilAssumption DEF Init, MessageInv, QueueInv
  <1> QED BY <1>1, <1>2, <1>3 DEF Init, RpcInv

LEMMA RpcDeliver ==
  ASSUME RpcInv, NEW c \in Client, Deliver(c)
  PROVE  RpcInv'
  <1>1. PICK n \in Cuts(KeyLength(message[c]), ValueLength(message[c])) \cup {Size(message[c])} :
          n > arrived[c] /\ arrived' = [arrived EXCEPT ![c] = n]
    BY DEF Deliver
  <1>2. message[c] # Nil /\ UNCHANGED <<table, queue, serving, call, answer, message, loop>>
    BY DEF Deliver
  <1>3. n \in 0 .. Size(message[c])
    <2> DEFINE m == message[c]
               k == KeyLength(m)
               v == ValueLength(m)
    <2>1. m \in Message /\ (m.val # Nil => m.key # Nil)
      BY <1>2, MessageShape
    <2>2. m.key \in Key \cup {Nil} /\ m.val \in Value \cup {Nil}
      BY <2>1 DEF Message
    <2>3. Size(m) = 6 + k + v /\ k \in 0 .. MaxLength /\ v \in 0 .. MaxLength
      BY <2>1, Lengths
    <2>4. CASE m.val # Nil
      <3>1. Cuts(k, v) \subseteq 1 .. 6 + k + v
        BY <2>1, <2>2, <2>4, CutAssumption DEF KeyLength, ValueLength
      <3>2. n \in Cuts(k, v) \/ n = Size(m)
        BY <1>1
      <3> HIDE DEF m, k, v
      <3> QED BY <2>3, <3>1, <3>2 DEF m
    <2>5. CASE m.val = Nil
      <3>1. v = 0
        BY <2>5 DEF ValueLength
      <3>2. Cuts(k, 0) \subseteq 1 .. 6 + k
        BY <2>2, CutAssumption DEF KeyLength
      <3>3. n \in Cuts(k, v) \/ n = Size(m)
        BY <1>1
      <3> HIDE DEF m, k, v
      <3> QED BY <2>3, <3>1, <3>2, <3>3 DEF m
    <2> QED BY <2>4, <2>5
  <1>4. n > arrived[c] /\ arrived[c] \in Nat /\ n \in Nat
    <2> DEFINE z == Size(message[c])
    <2>1. message[c] \in Message
      BY <1>2, MessageShape
    <2>2. z \in 6 .. MaxSize
      BY <2>1, Lengths
    <2> HIDE DEF z
    <2>3. n \in 0 .. z
      BY <1>3 DEF z
    <2> QED BY <1>1, <2>2, <2>3 DEF RpcInv
  <1>5. \A d \in Client : arrived'[d] = IF d = c THEN n ELSE arrived[d]
    BY <1>1 DEF RpcInv
  <1>6. RpcTypeOK'
    <2>1. \A d \in Client : message'[d] # Nil => arrived'[d] \in 0 .. Size(message'[d])
      BY <1>2, <1>3, <1>5 DEF RpcInv, RpcTypeOK
    <2> QED BY <1>2, <2>1 DEF RpcInv, RpcTypeOK
  <1>7. MessageInv' /\ QueueInv'
    BY <1>2 DEF RpcInv, MessageInv, QueueInv, IsReply
  <1>8. \A d \in Client : message'[d] # Nil => LoopBounds(loop'[d], arrived'[d])
    <2> SUFFICES ASSUME NEW d \in Client, message[d] # Nil
                 PROVE  LoopBounds(loop[d], arrived'[d])
      BY <1>2
    <2>1. LoopBounds(loop[d], arrived[d])
      BY DEF RpcInv
    <2>2. CASE d = c
      <3> DEFINE p == loop[c].past
      <3>1. p <= arrived[c] /\ p \in 0 .. MaxSize
        BY <2>1, <2>2, LoopFields DEF LoopBounds
      <3> HIDE DEF p
      <3>2. p <= n
        BY <1>4, <3>1
      <3> QED BY <1>5, <2>1, <2>2, <3>2 DEF LoopBounds, p
    <2> QED BY <1>5, <2>1, <2>2
  <1>9. arrived' \in [Client -> Nat]
    BY <1>1, <1>4 DEF RpcInv
  <1> QED BY <1>2, <1>6, <1>7, <1>8, <1>9 DEF RpcInv

LEMMA RpcRecv ==
  ASSUME RpcInv, NEW c \in Client, Recv(c)
  PROVE  RpcInv'
  <1> DEFINE next == Received(loop[c], message[c], arrived[c])
  <1>1. /\ message[c] # Nil /\ loop[c].past < arrived[c]
        /\ loop' = [loop EXCEPT ![c] = next]
        /\ UNCHANGED <<table, queue, serving, call, answer, message, arrived>>
    BY DEF Recv
  <1>2. message[c] \in Message /\ arrived[c] \in 0 .. Size(message[c])
        /\ LoopBounds(loop[c], arrived[c])
    BY <1>1 DEF RpcInv, RpcTypeOK
  <1>3. LoopBounds(next, arrived[c])
    BY <1>1, <1>2, ReceivedBounds
  <1>4. next \in LoopOK
    BY <1>3 DEF LoopBounds
  <1> HIDE DEF next
  <1>5. RpcTypeOK'
    BY <1>1, <1>4 DEF RpcInv, RpcTypeOK, Size, KeyLength, ValueLength
  <1>6. MessageInv' /\ QueueInv'
    BY <1>1 DEF RpcInv, MessageInv, QueueInv, IsReply
  <1>7. \A d \in Client : loop'[d] = IF d = c THEN next ELSE loop[d]
    BY <1>1 DEF RpcInv, RpcTypeOK
  <1>8. \A d \in Client : message'[d] # Nil => LoopBounds(loop'[d], arrived'[d])
    BY <1>1, <1>3, <1>7 DEF RpcInv
  <1> QED BY <1>1, <1>5, <1>6, <1>8 DEF RpcInv

LEMMA RpcCall ==
  ASSUME RpcInv, NEW c \in Client, NEW r \in Request, WellFormed(r), Call(c, r)
  PROVE  RpcInv'
  <1>1. /\ call[c] = Nil
        /\ call' = [call EXCEPT ![c] = r]
        /\ queue' = Append(queue, c)
        /\ message' = [message EXCEPT ![c] = Sent(r)]
        /\ arrived' = [arrived EXCEPT ![c] = 0]
        /\ loop' = [loop EXCEPT ![c] = Fresh]
        /\ UNCHANGED <<table, serving, answer>>
    BY DEF Call, Sent
  <1>2. Sent(r) \in Message /\ Sent(r) # Nil /\ ~ Sent(r).reply /\ r # Nil
    BY MessageTypes, NilAssumption DEF RpcInv, RpcTypeOK
  <1>3. message[c] = Nil
    BY <1>1 DEF RpcInv, MessageInv
  <1>4. /\ \A d \in Client : message'[d] = IF d = c THEN Sent(r) ELSE message[d]
        /\ \A d \in Client : call'[d] = IF d = c THEN r ELSE call[d]
        /\ \A d \in Client : arrived'[d] = IF d = c THEN 0 ELSE arrived[d]
        /\ \A d \in Client : loop'[d] = IF d = c THEN Fresh ELSE loop[d]
    BY <1>1 DEF RpcInv, RpcTypeOK
  <1>5. RpcTypeOK'
    <2>1. 0 \in 0 .. Size(Sent(r))
      <3> DEFINE z == Size(Sent(r))
      <3>1. z \in 6 .. MaxSize
        BY <1>2, Lengths
      <3> HIDE DEF z
      <3> QED BY <3>1 DEF z
    <2>2. \A d \in Client : message'[d] # Nil => arrived'[d] \in 0 .. Size(message'[d])
      BY <1>4, <2>1 DEF RpcInv, RpcTypeOK
    <2> QED BY <1>1, <1>2, <2>2, FreshBounds DEF RpcInv, RpcTypeOK
  <1>6. MessageInv'
    BY <1>2, <1>4 DEF RpcInv, MessageInv, IsReply
  <1>7. QueueInv'
    <2>1. serving # c
      BY <1>3 DEF RpcInv, QueueInv
    <2>2. queue \in Seq(Client) /\ Len(queue') = Len(queue) + 1 /\ Len(queue) \in Nat
          /\ queue'[Len(queue) + 1] = c
          /\ \A j \in 1 .. Len(queue) : queue'[j] = queue[j] /\ queue[j] \in Client
      BY <1>1 DEF RpcInv, RpcTypeOK
    <2>3. \A j \in 1 .. Len(queue) : queue[j] # c
      BY <1>3 DEF RpcInv, QueueInv
    <2>4. \A j \in 1 .. Len(queue') : j \in 1 .. Len(queue) \/ j = Len(queue) + 1
      BY <2>2
    <2>5. serving \in Client => message'[serving] # Nil /\ ~ message'[serving].reply
      BY <1>4, <2>1 DEF RpcInv, QueueInv, RpcTypeOK
    <2>6. \A j \in 1 .. Len(queue') :
            /\ message'[queue'[j]] # Nil /\ ~ message'[queue'[j]].reply /\ queue'[j] # serving
      BY <1>2, <1>4, <2>1, <2>2, <2>3, <2>4 DEF RpcInv, QueueInv
    <2>7. \A i, j \in 1 .. Len(queue') : queue'[i] = queue'[j] => i = j
      BY <2>2, <2>3, <2>4 DEF RpcInv, QueueInv
    <2> QED BY <1>1, <2>5, <2>6, <2>7 DEF QueueInv
  <1>8. \A d \in Client : message'[d] # Nil => LoopBounds(loop'[d], arrived'[d])
    BY <1>4, FreshBounds DEF RpcInv
  <1> QED BY <1>1, <1>5, <1>6, <1>7, <1>8 DEF RpcInv

LEMMA RpcAccept ==
  ASSUME RpcInv, Accept
  PROVE  RpcInv'
  <1>1. /\ serving = Nil /\ queue # <<>>
        /\ serving' = Head(queue) /\ queue' = Tail(queue)
        /\ UNCHANGED <<table, call, answer, message, arrived, loop>>
    BY DEF Accept
  <1>2. queue \in Seq(Client)
    BY DEF RpcInv, RpcTypeOK
  <1>3. /\ Len(queue) \in Nat \ {0} /\ Head(queue) = queue[1] /\ Head(queue) \in Client
        /\ Tail(queue) \in Seq(Client)
        /\ Len(Tail(queue)) = Len(queue) - 1
        /\ \A j \in 1 .. Len(Tail(queue)) : Tail(queue)[j] = queue[j + 1]
    BY <1>1, <1>2
  <1>4. RpcTypeOK'
    BY <1>1, <1>3 DEF RpcInv, RpcTypeOK, Size, KeyLength, ValueLength
  <1>5. MessageInv'
    BY <1>1 DEF RpcInv, MessageInv, IsReply
  <1>6. QueueInv'
    <2>1. 1 \in 1 .. Len(queue) /\ \A j \in 1 .. Len(queue') : j + 1 \in 2 .. Len(queue)
      BY <1>1, <1>3
    <2>2. \A j \in 1 .. Len(queue') : queue'[j] = queue[j + 1]
      BY <1>1, <1>3
    <2>3. \A i, j \in 1 .. Len(queue) : queue[i] = queue[j] => i = j
      BY DEF RpcInv, QueueInv
    <2>4. \A j \in 1 .. Len(queue') : queue'[j] # serving'
      BY <1>1, <1>3, <2>1, <2>2, <2>3
    <2>5. \A i, j \in 1 .. Len(queue') : queue'[i] = queue'[j] => i = j
      BY <2>1, <2>2, <2>3
    <2> QED BY <1>1, <1>3, <2>1, <2>2, <2>4, <2>5 DEF RpcInv, QueueInv
  <1> QED BY <1>1, <1>4, <1>5, <1>6 DEF RpcInv

\* The table has its type, whatever a request does to it.
LEMMA EffectType ==
  ASSUME NEW r \in Request, WellFormed(r), table \in [Key -> Value \cup {Nil}]
  PROVE  Effect(Sent(r)) \in [Key -> Value \cup {Nil}]
  <1> DEFINE m == Sent(r)
  <1>1. /\ r.op \in {"set", "get", "del"} /\ r.key \in Key /\ r.val \in Value \cup {Nil}
        /\ m.op = r.op /\ m.key = r.key /\ m.val = r.val
    BY DEF Request, Sent
  <1> HIDE DEF m
  <1>2. CASE r.op = "set"
    <2>1. Effect(m) = [table EXCEPT ![m.key] = m.val]
      BY <1>1, <1>2 DEF Effect
    <2> QED BY <1>1, <2>1 DEF m
  <1>3. CASE r.op = "del"
    <2>1. Effect(m) = [table EXCEPT ![m.key] = Nil]
      BY <1>1, <1>3 DEF Effect
    <2> QED BY <1>1, <2>1 DEF m
  <1>4. CASE r.op = "get"
    <2>1. Effect(m) = table
      BY <1>1, <1>4 DEF Effect
    <2> QED BY <2>1 DEF m
  <1> QED BY <1>1, <1>2, <1>3, <1>4

\* The server has answered the client it serves, or reset its connection.
LEMMA RpcAnswer ==
  ASSUME RpcInv, serving \in Client,
         NEW t \in [Key -> Value \cup {Nil}],
         NEW r \in Message, IsReply(r),
         NEW l \in {Fresh, Broken},
         Answer(t, r, l)
  PROVE  RpcInv'
  <1> DEFINE c == serving
             n == IF l = Broken THEN HeaderSize ELSE 0
  <1>1. /\ table' = t
        /\ message' = [message EXCEPT ![c] = r]
        /\ arrived' = [arrived EXCEPT ![c] = n]
        /\ loop' = [loop EXCEPT ![c] = l]
        /\ serving' = Nil
        /\ UNCHANGED <<queue, call, answer>>
    BY DEF Answer
  <1>2. message[c] # Nil /\ r.reply /\ r # Nil
    BY NilAssumption DEF RpcInv, QueueInv, IsReply
  <1>3. l \in LoopOK /\ LoopBounds(l, n) /\ n \in {0, 6}
    BY FreshBounds, BrokenBounds DEF HeaderSize
  <1> HIDE DEF c, n
  <1>4. /\ \A d \in Client : message'[d] = IF d = c THEN r ELSE message[d]
        /\ \A d \in Client : arrived'[d] = IF d = c THEN n ELSE arrived[d]
        /\ \A d \in Client : loop'[d] = IF d = c THEN l ELSE loop[d]
    BY <1>1 DEF RpcInv, RpcTypeOK
  <1>5. RpcTypeOK'
    <2>1. n \in 0 .. Size(r)
      <3> DEFINE z == Size(r)
      <3>1. z \in 6 .. MaxSize
        BY Lengths
      <3> HIDE DEF z
      <3> QED BY <1>3, <3>1, Maxima DEF z
    <2>2. \A d \in Client : message'[d] # Nil => arrived'[d] \in 0 .. Size(message'[d])
      BY <1>4, <2>1 DEF RpcInv, RpcTypeOK
    <2> QED BY <1>1, <1>3, <2>2 DEF RpcInv, RpcTypeOK
  <1>6. MessageInv'
    <2>1. call[c] # Nil
      BY <1>2 DEF RpcInv, MessageInv, c
    <2> QED BY <1>1, <1>2, <1>4, <2>1 DEF RpcInv, MessageInv, IsReply
  <1>7. QueueInv'
    <2>1. \A j \in 1 .. Len(queue) : queue[j] # c /\ queue[j] \in Client
      BY DEF RpcInv, RpcTypeOK, QueueInv, c
    <2>2. \A j \in 1 .. Len(queue) : queue[j] # Nil
      BY <2>1, NilAssumption
    <2> QED BY <1>1, <1>4, <2>1, <2>2, NilAssumption DEF RpcInv, QueueInv
  <1>8. \A d \in Client : message'[d] # Nil => LoopBounds(loop'[d], arrived'[d])
    BY <1>3, <1>4 DEF RpcInv
  <1>9. arrived' \in [Client -> Nat]
    <2>1. n \in Nat /\ arrived \in [Client -> Nat]
      BY <1>3 DEF RpcInv
    <2> QED BY <1>1, <2>1
  <1> QED BY <1>5, <1>6, <1>7, <1>8, <1>9 DEF RpcInv

LEMMA RpcHandle ==
  ASSUME RpcInv, Handle
  PROVE  RpcInv'
  <1> DEFINE m == message[serving]
  <1>1. serving \in Client /\ Answer(Effect(m), Reply(m), Fresh)
    BY DEF Handle
  <1>2. m # Nil /\ ~ m.reply /\ table \in [Key -> Value \cup {Nil}]
    BY <1>1 DEF RpcInv, RpcTypeOK, QueueInv
  <1>3. m = Sent(call[serving]) /\ call[serving] \in Request /\ WellFormed(call[serving])
    BY <1>1, <1>2, MessageShape
  <1>4. Reply(m) \in Message /\ IsReply(Reply(m))
    BY <1>2, <1>3, MessageTypes
  <1>5. Effect(m) \in [Key -> Value \cup {Nil}]
    BY <1>2, <1>3, EffectType
  <1> QED BY <1>1, <1>4, <1>5, RpcAnswer

LEMMA RpcHandleMisread ==
  ASSUME RpcInv, HandleMisread
  PROVE  RpcInv'
  <1> DEFINE m == message[serving]
  <1>1. serving \in Client
    BY DEF HandleMisread
  <1>2. PICK t \in MisreadEffects(m.op) :
          \/ \E r \in MisreadReplies(m.op) : Answer(t, r, Fresh)
          \/ Answer(t, Ack("none"), Broken)
    BY DEF HandleMisread
  <1>3. t \in [Key -> Value \cup {Nil}]
    BY DEF MisreadEffects
  <1>4. m # Nil /\ ~ m.reply
    BY <1>1 DEF RpcInv, QueueInv
  <1>5. m = Sent(call[serving]) /\ call[serving] \in Request
    BY <1>1, <1>4, MessageShape
  <1>6. m.op \in {"set", "get", "del"}
    BY <1>5 DEF Sent, Request
  <1>7. \A r \in MisreadReplies(m.op) : r \in Message /\ IsReply(r)
    <2> TAKE r \in MisreadReplies(m.op)
    <2>1. \/ \E op \in {"set", "del", "none"} : r = Ack(op)
          \/ r \in [reply : {TRUE}, op : {"get"}, key : Key, val : Value]
      BY <1>6 DEF MisreadReplies
    <2>2. ASSUME r \in [reply : {TRUE}, op : {"get"}, key : Key, val : Value]
          PROVE  r \in Message /\ IsReply(r)
      BY <2>2 DEF Message, IsReply
    <2> QED BY <2>1, <2>2, AckType
  <1> QED BY <1>1, <1>2, <1>3, <1>7, RpcAnswer, AckType

LEMMA RpcCrash ==
  ASSUME RpcInv, Crash
  PROVE  RpcInv'
  <1> DEFINE lost == {serving} \cup {queue[i] : i \in DOMAIN queue}
             r == Ack("none")
  <1>1. /\ serving \in Client
        /\ message' = [c \in Client |-> IF c \in lost THEN r ELSE message[c]]
        /\ arrived' = [c \in Client |-> IF c \in lost THEN HeaderSize ELSE arrived[c]]
        /\ loop' = [c \in Client |-> IF c \in lost THEN Broken ELSE loop[c]]
        /\ serving' = Down /\ queue' = <<>>
        /\ UNCHANGED <<table, call, answer>>
    BY DEF Crash
  <1>2. r \in Message /\ IsReply(r) /\ r.reply /\ r # Nil
    BY AckType DEF IsReply
  <1>3. \A c \in Client : c \in lost => message[c] # Nil
    <2>1. \A i \in DOMAIN queue : message[queue[i]] # Nil
      BY DEF RpcInv, RpcTypeOK, QueueInv
    <2> QED BY <1>1, <2>1 DEF RpcInv, QueueInv
  <1>4. HeaderSize \in 0 .. Size(r) /\ HeaderSize \in Nat
    <2> DEFINE z == Size(r)
    <2>1. z \in 6 .. MaxSize
      BY <1>2, Lengths
    <2> HIDE DEF z
    <2> QED BY <2>1, Maxima DEF z, HeaderSize
  <1> HIDE DEF lost, r
  <1>5. RpcTypeOK'
    <2>1. \A d \in Client : message'[d] # Nil => arrived'[d] \in 0 .. Size(message'[d])
      BY <1>1, <1>4 DEF RpcInv, RpcTypeOK
    <2> QED BY <1>1, <1>2, <2>1, BrokenBounds DEF RpcInv, RpcTypeOK
  <1>6. MessageInv'
    BY <1>1, <1>2, <1>3 DEF RpcInv, MessageInv, IsReply
  <1>7. QueueInv'
    BY <1>1, NilAssumption DEF QueueInv
  <1>8. \A d \in Client : message'[d] # Nil => LoopBounds(loop'[d], arrived'[d])
    BY <1>1, BrokenBounds DEF RpcInv
  <1>9. arrived' \in [Client -> Nat]
    BY <1>1, <1>4 DEF RpcInv
  <1> QED BY <1>5, <1>6, <1>7, <1>8, <1>9 DEF RpcInv

LEMMA RpcReturn ==
  ASSUME RpcInv, NEW c \in Client, Return(c)
  PROVE  RpcInv'
  <1>1. /\ message[c] # Nil /\ message[c].reply
        /\ answer' = [answer EXCEPT ![c] = Returned(loop[c], message[c])]
        /\ call' = [call EXCEPT ![c] = Nil]
        /\ message' = [message EXCEPT ![c] = Nil]
        /\ arrived' = [arrived EXCEPT ![c] = 0]
        /\ loop' = [loop EXCEPT ![c] = Fresh]
        /\ UNCHANGED <<table, queue, serving>>
    BY DEF Return
  <1>2. Returned(loop[c], message[c]) \in Answers
    BY <1>1, MessageShape, ReturnedType
  <1>3. /\ \A d \in Client : message'[d] = IF d = c THEN Nil ELSE message[d]
        /\ \A d \in Client : call'[d] = IF d = c THEN Nil ELSE call[d]
        /\ \A d \in Client : arrived'[d] = IF d = c THEN 0 ELSE arrived[d]
        /\ \A d \in Client : loop'[d] = IF d = c THEN Fresh ELSE loop[d]
    BY <1>1 DEF RpcInv, RpcTypeOK
  <1>4. RpcTypeOK'
    <2>1. \A d \in Client : message'[d] # Nil => arrived'[d] \in 0 .. Size(message'[d])
      BY <1>3 DEF RpcInv, RpcTypeOK
    <2> QED BY <1>1, <1>2, <2>1, FreshBounds DEF RpcInv, RpcTypeOK
  <1>5. MessageInv'
    BY <1>3 DEF RpcInv, MessageInv, IsReply
  <1>6. QueueInv'
    <2>1. \A j \in 1 .. Len(queue) : queue[j] # c /\ queue[j] \in Client
      <3>1. queue \in Seq(Client)
        BY DEF RpcInv, RpcTypeOK
      <3>2. \A j \in 1 .. Len(queue) : queue[j] \in Client
        BY <3>1
      <3>3. \A j \in 1 .. Len(queue) : ~ message[queue[j]].reply
        BY DEF RpcInv, QueueInv
      <3> QED BY <1>1, <3>2, <3>3
    <2>2. serving \in Client => serving # c
      BY <1>1 DEF RpcInv, RpcTypeOK, QueueInv
    <2> QED BY <1>1, <1>3, <2>1, <2>2 DEF RpcInv, QueueInv
  <1>7. \A d \in Client : message'[d] # Nil => LoopBounds(loop'[d], arrived'[d])
    BY <1>3, FreshBounds DEF RpcInv
  <1> QED BY <1>1, <1>2, <1>4, <1>5, <1>6, <1>7 DEF RpcInv

LEMMA RpcRefused ==
  ASSUME RpcInv, NEW c \in Client, Refused(c)
  PROVE  RpcInv'
  <1>1. /\ answer' = [answer EXCEPT ![c] = NoElement]
        /\ UNCHANGED <<table, queue, serving, call, message, arrived, loop>>
    BY DEF Refused
  <1>2. NoElement \in Answers
    BY AckType, ElementType DEF NoElement
  <1>3. RpcTypeOK'
    BY <1>1, <1>2 DEF RpcInv, RpcTypeOK, Size, KeyLength, ValueLength
  <1>4. MessageInv' /\ QueueInv'
    BY <1>1 DEF RpcInv, MessageInv, QueueInv, IsReply
  <1> QED BY <1>1, <1>3, <1>4 DEF RpcInv

LEMMA RpcNext ==
  ASSUME RpcInv, [Next]_vars
  PROVE  RpcInv'
  <1>1. CASE UNCHANGED vars
    BY <1>1 DEF vars, RpcInv, RpcTypeOK, MessageInv, QueueInv, Size, KeyLength, ValueLength
  <1> QED BY <1>1, RpcCall, RpcDeliver, RpcRecv, RpcReturn, RpcRefused, RpcAccept, RpcHandle,
             RpcHandleMisread, RpcCrash DEF Next, Serve

LEMMA RpcInvariant == Spec => []RpcInv
  BY RpcInit, RpcNext, PTL DEF Spec

\* Every variable of clients, server and connections has its type, however TCP cuts the
\* messages: the loops take no more bytes than have come.
THEOREM RpcTypeCorrect == Spec => []RpcTypeOK
  <1>1. RpcInv => RpcTypeOK
    BY DEF RpcInv
  <1> QED BY <1>1, RpcInvariant, PTL

----------------------------------------------------------------------------
(****************************************************************************)
(* No loop waits for more than its message.                                 *)
(****************************************************************************)

\* A loop begins a field no later than the message does, takes no more bytes for it than
\* the message has, and goes on only as long as the field is short of some.
WithinMessage(l, m) ==
  \/ l \in {Fresh, Broken}
  \/ /\ l.twice = 1 /\ l.readSize = l.k
     /\ l.k <= KeyLength(m) /\ l.v <= ValueLength(m)
     /\ l.past = l.keyFrom + l.read
     /\ l.done \/ l.read < l.k
  \/ /\ l.twice = 2 /\ l.readSize = l.v
     /\ l.valueFrom <= 6 + KeyLength(m) /\ l.v <= ValueLength(m)
     /\ l.past = l.valueFrom + l.read
     /\ l.done \/ l.read < l.v

WithinInv ==
  \A c \in Client : message[c] # Nil => WithinMessage(loop[c], message[c])

\* One recv() keeps it so, however much has arrived.
LEMMA StaysWithin ==
  ASSUME NEW m \in Message, NEW a \in 0 .. Size(m),
         NEW l, LoopBounds(l, a), l.past < a, WithinMessage(l, m), ~ l.done
  PROVE  WithinMessage(Received(l, m, a), m)
  <1> DEFINE p == l.past
             q == l.read
             z == l.readSize
             lk == l.k
             lv == l.v
             kf == l.keyFrom
             K == KeyLength(m)
             V == ValueLength(m)
             rs == Taken(a, p, z)
             next == Received(l, m, a)
  <1>1. l \in LoopOK
    BY DEF LoopBounds
  <1>2. /\ l.twice \in 0 .. 2 /\ q \in Nat /\ z \in Nat /\ p \in Nat /\ lk \in Nat /\ lv \in Nat
        /\ kf \in 0 .. 6
    BY <1>1, LoopFields, Maxima
  <1>3. next = IF l.twice = 0 THEN AfterHeader(l, m, rs)
               ELSE IF KeyComplete(l, rs) THEN AfterKey(l, rs)
               ELSE Further(l, rs)
    BY DEF Received, Taken
  <1>4. K \in 0 .. MaxLength /\ V \in 0 .. MaxLength /\ a \in Nat
    <2>1. Size(m) \in 6 .. MaxSize
      BY Lengths
    <2> QED BY <2>1, Lengths, Maxima
  <1>5. p < a /\ l.past = p /\ l.read = q /\ l.readSize = z /\ l.k = lk /\ l.v = lv /\ l.keyFrom = kf
    OBVIOUS
  <1>6. rs = IF a - p < z THEN a - p ELSE z
    BY DEF Taken
  <1>7. rs \in Nat /\ rs <= z
    BY <1>2, <1>4, <1>5, <1>6
  <1>8. l = Fresh \/ l.twice \in {1, 2}
    BY BrokenBounds DEF WithinMessage
  <1>9. KeyField(m, rs) \in 0 .. K /\ ValueField(m, rs) \in 0 .. V
    BY <1>4, FieldBounds DEF KeyField, ValueField
  <1> HIDE DEF p, q, z, lk, lv, kf, rs, next
  <1>10. CASE l = Fresh
    <2> DEFINE k == KeyField(m, rs)
               v == ValueField(m, rs)
               d == k <= 0
    <2>1. l.twice = 0
      BY <1>10 DEF Fresh
    <2>2. next = [twice |-> 1, read |-> 0, readSize |-> k, past |-> rs, k |-> k, v |-> v,
                  keyFrom |-> rs, valueFrom |-> l.valueFrom, over |-> l.over, done |-> d]
      BY <1>1, <1>3, <2>1, AfterHeaderIs
    <2> HIDE DEF K, V
    <2>3. k <= K /\ v <= V /\ (d \/ 0 < k) /\ rs = rs + 0
      BY <1>4, <1>7, <1>9
    <2> HIDE DEF k, v, d
    <2> QED BY <2>2, <2>3 DEF WithinMessage, K, V, next
  <1>11. CASE l.twice = 1
    <2>1. l # Fresh /\ l # Broken
      BY <1>11, BrokenBounds DEF Fresh
    <2>2. z = lk /\ lk <= K /\ lv <= V /\ p = kf + q
      BY <1>5, <1>11, <2>1 DEF WithinMessage
    <2>3. CASE KeyComplete(l, rs)
      <3> DEFINE n == p + rs
                 d == lv <= 0
      <3>1. next = [twice |-> 2, read |-> 0, readSize |-> lv, past |-> n, k |-> lk, v |-> lv,
                    keyFrom |-> kf, valueFrom |-> n, over |-> l.over, done |-> d]
        BY <1>1, <1>3, <1>5, <1>11, <2>3, AfterKeyIs
      <3>2. q + rs = lk
        BY <1>5, <2>3 DEF KeyComplete
      <3> HIDE DEF K, V
      <3>3. n <= 6 + K /\ n = n + 0 /\ (d \/ 0 < lv)
        BY <1>2, <1>4, <1>7, <2>2, <3>2
      <3> HIDE DEF n, d
      <3> QED BY <2>2, <3>1, <3>3 DEF WithinMessage, K, V, next
    <2>4. CASE ~ KeyComplete(l, rs)
      <3> DEFINE n == p + rs
                 r == q + rs
                 o == r > z
                 d == r >= z
      <3>1. next = [twice |-> 1, read |-> r, readSize |-> z, past |-> n, k |-> lk, v |-> lv,
                    keyFrom |-> kf, valueFrom |-> l.valueFrom, over |-> o, done |-> d]
        BY <1>1, <1>3, <1>5, <1>11, <2>4, FurtherIs
      <3>2. n = kf + r /\ (d \/ r < lk)
        BY <1>2, <1>7, <2>2
      <3> HIDE DEF n, r, o, d
      <3> QED BY <2>2, <3>1, <3>2 DEF WithinMessage, next
    <2> QED BY <2>3, <2>4
  <1>12. CASE l.twice = 2
    <2> DEFINE vf == l.valueFrom
    <2>1. l # Fresh /\ l # Broken /\ l.valueFrom = vf
      BY <1>12, BrokenBounds DEF Fresh
    <2>2. z = lv /\ vf <= 6 + K /\ lv <= V /\ p = vf + q
      BY <1>5, <1>12, <2>1 DEF WithinMessage
    <2>3. vf \in Nat /\ ~ KeyComplete(l, rs)
      BY <1>1, <1>12, LoopFields, Maxima DEF KeyComplete
    <2> HIDE DEF vf
    <2> DEFINE n == p + rs
               r == q + rs
               o == r > z
               d == r >= z
    <2>4. next = [twice |-> 2, read |-> r, readSize |-> z, past |-> n, k |-> lk, v |-> lv,
                  keyFrom |-> kf, valueFrom |-> vf, over |-> o, done |-> d]
      BY <1>1, <1>3, <1>5, <1>12, <2>1, <2>3, FurtherIs
    <2>5. n = vf + r /\ (d \/ r < lv)
      BY <1>2, <1>7, <2>2, <2>3
    <2> HIDE DEF n, r, o, d
    <2> QED BY <2>2, <2>4, <2>5 DEF WithinMessage, next
  <1> QED BY <1>8, <1>10, <1>11, <1>12 DEF next

\* A loop that is not done has not taken the whole message.
LEMMA WithinEnds ==
  ASSUME NEW m \in Message, NEW l \in LoopOK, WithinMessage(l, m), ~ l.done
  PROVE  l.past < Size(m)
  <1> DEFINE K == KeyLength(m)
             V == ValueLength(m)
             p == l.past
             q == l.read
             f == l.keyFrom
             g == l.valueFrom
             lk == l.k
             lv == l.v
  <1>1. Size(m) = 6 + K + V /\ K \in 0 .. MaxLength /\ V \in 0 .. MaxLength
    BY Lengths
  <1>2. /\ p \in Nat /\ q \in Nat /\ f \in 0 .. 6 /\ g \in Nat /\ lk \in Nat /\ lv \in Nat
    BY LoopFields, Maxima
  <1>3. \/ p = 0
        \/ p = f + q /\ q < lk /\ lk <= K
        \/ p = g + q /\ q < lv /\ lv <= V /\ g <= 6 + K
    <2>1. CASE l \in {Fresh, Broken}
      BY <2>1, BrokenBounds DEF Fresh
    <2>2. CASE l \notin {Fresh, Broken}
      BY <2>2 DEF WithinMessage
    <2> QED BY <2>1, <2>2
  <1> HIDE DEF K, V, p, q, f, g, lk, lv
  <1>4. p < 6 + K + V
    BY <1>1, <1>2, <1>3, Maxima
  <1> QED BY <1>1, <1>4 DEF p

LEMMA WithinNext ==
  ASSUME RpcInv, WithinInv, [Next]_vars
  PROVE  WithinInv'
  <1>1. loop \in [Client -> LoopOK] /\ message \in [Client -> Message \cup {Nil}]
    BY DEF RpcInv, RpcTypeOK
  <1>2. ASSUME NEW c \in Client, NEW x, NEW l \in {Fresh, Broken},
               message' = [message EXCEPT ![c] = x], loop' = [loop EXCEPT ![c] = l]
        PROVE  WithinInv'
    <2>1. \A d \in Client : /\ message'[d] = IF d = c THEN x ELSE message[d]
                            /\ loop'[d] = IF d = c THEN l ELSE loop[d]
      BY <1>1, <1>2
    <2>2. WithinMessage(l, x)
      BY DEF WithinMessage
    <2> QED BY <2>1, <2>2 DEF WithinInv
  <1>3. ASSUME NEW c \in Client, NEW r \in Request, Call(c, r)
        PROVE  WithinInv'
    BY <1>2, <1>3 DEF Call
  <1>4. ASSUME NEW c \in Client, Deliver(c) \/ Refused(c)
        PROVE  WithinInv'
    BY <1>4 DEF Deliver, Refused, WithinInv
  <1>5. ASSUME NEW c \in Client, Recv(c)
        PROVE  WithinInv'
    <2> DEFINE next == Received(loop[c], message[c], arrived[c])
    <2>1. /\ message[c] # Nil /\ ~ loop[c].done /\ loop[c].past < arrived[c]
          /\ loop' = [loop EXCEPT ![c] = next] /\ UNCHANGED message
      BY <1>5 DEF Recv
    <2>2. /\ message[c] \in Message /\ arrived[c] \in 0 .. Size(message[c])
          /\ LoopBounds(loop[c], arrived[c]) /\ WithinMessage(loop[c], message[c])
      BY <2>1 DEF RpcInv, RpcTypeOK, WithinInv
    <2>3. WithinMessage(next, message[c])
      BY <2>1, <2>2, StaysWithin
    <2> HIDE DEF next
    <2>4. \A d \in Client : loop'[d] = IF d = c THEN next ELSE loop[d]
      BY <1>1, <2>1
    <2> QED BY <2>1, <2>3, <2>4 DEF WithinInv
  <1>6. ASSUME NEW c \in Client, Return(c)
        PROVE  WithinInv'
    BY <1>2, <1>6 DEF Return
  <1>7. CASE Accept
    BY <1>7 DEF Accept, WithinInv
  <1>8. CASE Handle
    BY <1>2, <1>8 DEF Handle, Answer
  <1>9. CASE HandleMisread
    BY <1>2, <1>9 DEF HandleMisread, Answer
  <1>10. CASE Crash
    <2>1. \A c \in Client : \/ message'[c] = message[c] /\ loop'[c] = loop[c]
                           \/ loop'[c] = Broken
      BY <1>10 DEF Crash
    <2> QED BY <2>1 DEF WithinInv, WithinMessage
  <1>11. CASE UNCHANGED vars
    BY <1>11 DEF vars, WithinInv
  <1> QED BY <1>3, <1>4, <1>5, <1>6, <1>7, <1>8, <1>9, <1>10, <1>11 DEF Next, Serve

\* However TCP cuts the messages, of any lengths, and whatever is misread: neither the
\* server nor a client is left in a recv() for bytes that nobody has sent.
THEOREM LoopsEndInMessage == Spec => []EndsInMessage
  <1>1. Init => WithinInv
    BY DEF Init, WithinInv
  <1>2. RpcInv /\ WithinInv /\ [Next]_vars => WithinInv'
    BY WithinNext
  <1>3. RpcInv /\ WithinInv => EndsInMessage
    <2> SUFFICES ASSUME RpcInv, WithinInv, NEW c \in Client, message[c] # Nil, ~ loop[c].done
                 PROVE  ~ (loop[c].past >= Size(message[c]))
      BY DEF EndsInMessage
    <2> DEFINE p == loop[c].past
               z == Size(message[c])
    <2>1. message[c] \in Message /\ loop[c] \in LoopOK /\ WithinMessage(loop[c], message[c])
      BY DEF RpcInv, RpcTypeOK, WithinInv
    <2>2. p < z /\ p \in Nat /\ z \in Nat
      <3>1. z \in 6 .. MaxSize /\ p \in 0 .. MaxSize
        BY <2>1, Lengths, LoopFields
      <3>2. p < z
        BY <2>1, WithinEnds
      <3> HIDE DEF p, z
      <3> QED BY <3>1, <3>2, Maxima
    <2> HIDE DEF p, z
    <2>3. ~ (p >= z)
      BY <2>2
    <2> QED BY <2>3 DEF p, z
  <1> QED BY <1>1, <1>2, <1>3, RpcInvariant, PTL DEF Spec

----------------------------------------------------------------------------
(****************************************************************************)
(* What the loops read.                                                     *)
(****************************************************************************)

\* The last field of a message may come in pieces; what is before it comes field by field.
InLastField ==
  /\ \A n \in Cuts(0, 0) : n = HeaderSize
  /\ \A k \in Key : \A n \in Cuts(KeyLen[k], 0) : n >= HeaderSize
  /\ \A k \in Key, v \in Value : \A n \in Cuts(KeyLen[k], ValueLen[v]) :
       n = HeaderSize \/ n >= HeaderSize + KeyLen[k]

\* The bytes that have arrived then.
Piece(m, n) ==
  \/ n = 0
  \/ n >= 6 /\ (ValueLength(m) > 0 => n = 6 \/ n >= 6 + KeyLength(m))

\* The loop is in the field that the bytes it has taken say, and not behind its end.
Reads(l, m) ==
  \/ l = Fresh
  \/ /\ l.twice = 1 /\ l.readSize = KeyLength(m)
     /\ l.k = KeyLength(m) /\ l.v = ValueLength(m) /\ l.keyFrom = 6
     /\ l.past = 6 + l.read /\ l.read <= KeyLength(m)
     /\ l.v > 0 => l.read = 0 /\ l.k > 0
     /\ ~ l.over
     /\ l.done => l.read = KeyLength(m)
  \/ /\ l.twice = 2 /\ l.readSize = ValueLength(m)
     /\ l.k = KeyLength(m) /\ l.v = ValueLength(m) /\ l.keyFrom = 6
     /\ l.v > 0 /\ l.valueFrom = 6 + KeyLength(m)
     /\ l.past = 6 + KeyLength(m) + l.read /\ l.read <= ValueLength(m)
     /\ ~ l.over
     /\ l.done => l.read = ValueLength(m)

ReadInv ==
  /\ serving # Down
  /\ \A c \in Client :
       message[c] # Nil => Piece(message[c], arrived[c]) /\ Reads(loop[c], message[c])

\* One recv() goes on to the field that the message continues with.
LEMMA ReadsOn ==
  ASSUME NEW m \in Message, m.val # Nil => m.key # Nil,
         NEW a \in 0 .. Size(m), Piece(m, a),
         NEW l, LoopBounds(l, a), l.past < a, Reads(l, m), ~ l.done
  PROVE  Reads(Received(l, m, a), m)
  <1> DEFINE p == l.past
             q == l.read
             z == l.readSize
             lk == l.k
             lv == l.v
             K == KeyLength(m)
             V == ValueLength(m)
             rs == Taken(a, p, z)
             next == Received(l, m, a)
  <1>1. l \in LoopOK /\ (l.twice = 0 => l = Fresh)
    BY BrokenBounds DEF LoopBounds
  <1>2. /\ l.twice \in 0 .. 2 /\ q \in 0 .. MaxSize /\ z \in 0 .. MaxLength
        /\ p \in 0 .. MaxSize /\ lk \in 0 .. MaxLength /\ lv \in 0 .. MaxLength
    BY <1>1, LoopFields
  <1>3. next = IF l.twice = 0 THEN AfterHeader(l, m, rs)
               ELSE IF KeyComplete(l, rs) THEN AfterKey(l, rs)
               ELSE Further(l, rs)
    BY DEF Received, Taken
  <1>4. K \in 0 .. MaxLength /\ V \in 0 .. MaxLength /\ (V > 0 => K > 0)
    <2>1. K \in 0 .. MaxLength /\ V \in 0 .. MaxLength
      BY Lengths
    <2>2. (m.key = Nil <=> K = 0) /\ (m.val = Nil => V = 0)
      BY EmptyFields
    <2> HIDE DEF K, V
    <2> QED BY <2>1, <2>2
  <1>5. a \in Int /\ a <= 6 + K + V
    <2>1. Size(m) = 6 + K + V
      BY Lengths
    <2> HIDE DEF K, V
    <2> QED BY <1>4, <2>1
  <1>6. a = 0 \/ (a >= 6 /\ (V > 0 => a = 6 \/ a >= 6 + K))
    BY DEF Piece
  <1>7. p < a /\ l.past = p /\ l.read = q /\ l.readSize = z /\ l.k = lk /\ l.v = lv
    OBVIOUS
  <1>8. rs = IF a - p < z THEN a - p ELSE z
    BY DEF Taken
  <1> HIDE DEF p, q, z, lk, lv, rs, next
  <1>9. CASE l = Fresh
    <2>1. p = 0 /\ z = 6 /\ l.twice = 0 /\ ~ l.over
      BY <1>7, <1>9 DEF Fresh, HeaderSize
    <2>2. rs = 6
      BY <1>5, <1>6, <1>7, <1>8, <2>1
    <2>3. KeyField(m, rs) = K /\ ValueField(m, rs) = V
      BY <2>2 DEF KeyField, ValueField, Field
    <2> HIDE DEF K, V
    <2> DEFINE d == K <= 0
    <2>4. next = [twice |-> 1, read |-> 0, readSize |-> K, past |-> 6, k |-> K, v |-> V,
                  keyFrom |-> 6, valueFrom |-> l.valueFrom, over |-> l.over, done |-> d]
      BY <1>1, <1>3, <2>1, <2>2, <2>3, AfterHeaderIs
    <2>5. d => 0 = K
      BY <1>4
    <2> HIDE DEF d
    <2>6. 0 <= K /\ 6 = 6 + 0
      BY <1>4
    <2> QED BY <1>4, <2>1, <2>4, <2>5, <2>6 DEF Reads, K, V, next
  <1>10. CASE l.twice = 1 /\ V > 0
    <2>1. /\ z = K /\ lk = K /\ lv = V /\ l.keyFrom = 6 /\ ~ l.over
          /\ p = 6 + q /\ (lv > 0 => q = 0)
      BY <1>7, <1>10 DEF Reads, Fresh
    <2> HIDE DEF K, V
    <2>2. q = 0 /\ p = 6 /\ rs = K /\ q + rs = lk /\ lv > 0 /\ p + rs = 6 + K
      BY <1>4, <1>5, <1>6, <1>7, <1>8, <1>10, <2>1
    <2>3. KeyComplete(l, rs)
      BY <1>7, <1>10, <2>2 DEF KeyComplete
    <2> DEFINE n == 6 + K
               d == V <= 0
    <2>4. next = [twice |-> 2, read |-> 0, readSize |-> V, past |-> n, k |-> K, v |-> V,
                  keyFrom |-> 6, valueFrom |-> n, over |-> l.over, done |-> d]
      BY <1>1, <1>3, <1>7, <1>10, <2>1, <2>2, <2>3, AfterKeyIs
    <2>5. ~ d /\ n = 6 + K + 0 /\ 0 <= V
      BY <1>4, <1>10
    <2>6. n = 6 + K
      OBVIOUS
    <2> HIDE DEF d, n
    <2> QED BY <1>10, <2>1, <2>4, <2>5, <2>6 DEF Reads, K, V, next
  <1>11. CASE l.twice = 1 /\ ~ (V > 0)
    <2>1. /\ z = K /\ lk = K /\ lv = V /\ l.keyFrom = 6
          /\ p = 6 + q /\ q <= K
      BY <1>7, <1>11 DEF Reads, Fresh
    <2> HIDE DEF K, V
    <2>2. ~ (lv > 0) /\ V = 0
      BY <1>4, <1>11, <2>1
    <2>3. ~ KeyComplete(l, rs)
      BY <1>7, <2>2 DEF KeyComplete
    <2> DEFINE n == p + rs
               r == q + rs
               o == r > K
               d == r >= K
    <2>4. next = [twice |-> 1, read |-> r, readSize |-> K, past |-> n, k |-> K, v |-> V,
                  keyFrom |-> 6, valueFrom |-> l.valueFrom, over |-> o, done |-> d]
      BY <1>1, <1>3, <1>7, <1>11, <2>1, <2>3, FurtherIs
    <2>5. r <= K /\ ~ o /\ (d => r = K) /\ n = 6 + r
      BY <1>2, <1>4, <1>5, <1>7, <1>8, <2>1, <2>2
    <2> HIDE DEF d, n, r, o
    <2> QED BY <1>11, <2>4, <2>5 DEF Reads, K, V, next
  <1>12. CASE l.twice = 2
    <2>1. /\ z = V /\ lk = K /\ lv = V /\ l.keyFrom = 6 /\ l.valueFrom = 6 + K
          /\ lv > 0 /\ p = 6 + K + q /\ q <= V
      BY <1>7, <1>12 DEF Reads, Fresh
    <2> HIDE DEF K, V
    <2>2. ~ KeyComplete(l, rs)
      BY <1>12 DEF KeyComplete
    <2> DEFINE f == 6 + K
               n == p + rs
               r == q + rs
               o == r > V
               d == r >= V
    <2>3. next = [twice |-> 2, read |-> r, readSize |-> V, past |-> n, k |-> K, v |-> V,
                  keyFrom |-> 6, valueFrom |-> f, over |-> o, done |-> d]
      BY <1>1, <1>3, <1>7, <1>12, <2>1, <2>2, FurtherIs
    <2>4. r <= V /\ ~ o /\ (d => r = V) /\ n = 6 + K + r /\ V > 0
      BY <1>2, <1>4, <1>5, <1>7, <1>8, <2>1
    <2>5. f = 6 + K
      OBVIOUS
    <2> HIDE DEF d, n, r, o, f
    <2> QED BY <1>12, <2>3, <2>4, <2>5 DEF Reads, K, V, next
  <1>13. l.twice = 0 \/ l.twice = 1 \/ l.twice = 2
    BY <1>2
  <1> QED BY <1>1, <1>9, <1>10, <1>11, <1>12, <1>13 DEF next

\* A loop that has ended has read the message.
LEMMA ReadsWhole ==
  ASSUME NEW m \in Message, NEW l \in LoopOK, Reads(l, m), l.done
  PROVE  Whole(l, m)
  <1> DEFINE K == KeyLength(m)
             V == ValueLength(m)
             p == l.past
             q == l.read
  <1>1. Size(m) = 6 + K + V /\ K \in 0 .. MaxLength /\ V \in 0 .. MaxLength
    BY Lengths
  <1>2. l.past = p /\ l.read = q /\ l # Fresh /\ p \in 0 .. MaxSize /\ q \in 0 .. MaxSize
    BY LoopFields DEF Fresh
  <1>3. /\ l.k = K /\ l.v = V /\ l.keyFrom = 6 /\ ~ l.over
        /\ \/ p = 6 + q /\ q = K /\ (V > 0 => q = 0 /\ K > 0)
           \/ p = 6 + K + q /\ q = V /\ V > 0 /\ l.valueFrom = 6 + K /\ l.twice = 2
    BY <1>2 DEF Reads
  <1> HIDE DEF K, V, p, q
  <1>4. p = 6 + K + V /\ (V > 0 => l.valueFrom = 6 + K /\ l.twice = 2)
    BY <1>1, <1>2, <1>3
  <1> QED BY <1>1, <1>2, <1>3, <1>4 DEF Whole, HeaderSize, K, V

\* What TCP hands out is a piece that InLastField allows.
LEMMA PieceArrives ==
  ASSUME InLastField, NEW m \in Message, m.val # Nil => m.key # Nil,
         NEW n \in Cuts(KeyLength(m), ValueLength(m)) \cup {Size(m)}
  PROVE  Piece(m, n)
  <1> DEFINE K == KeyLength(m)
             V == ValueLength(m)
  <1>1. Size(m) = 6 + K + V /\ K \in 0 .. MaxLength /\ V \in 0 .. MaxLength
    BY Lengths
  <1>2. m.key \in Key \cup {Nil} /\ m.val \in Value \cup {Nil}
    BY DEF Message
  <1>3. n \in Cuts(K, V) \/ n = 6 + K + V
    BY <1>1
  <1>4. CASE m.key = Nil
    <2>1. K = 0 /\ V = 0
      BY <1>4 DEF KeyLength, ValueLength
    <2>2. \A j \in Cuts(0, 0) : j = 6
      BY DEF InLastField, HeaderSize
    <2> HIDE DEF K, V
    <2>3. n = 6
      BY <1>3, <2>1, <2>2
    <2> QED BY <2>1, <2>3 DEF Piece, K, V
  <1>5. CASE m.key # Nil /\ m.val = Nil
    <2>1. V = 0 /\ K = KeyLen[m.key]
      BY <1>5 DEF KeyLength, ValueLength
    <2>2. \A j \in Cuts(K, 0) : j >= 6
      BY <1>2, <1>5, <2>1 DEF InLastField, HeaderSize
    <2> HIDE DEF K, V
    <2>3. n >= 6
      BY <1>1, <1>3, <2>1, <2>2
    <2> QED BY <2>1, <2>3 DEF Piece, K, V
  <1>6. CASE m.key # Nil /\ m.val # Nil
    <2>1. V = ValueLen[m.val] /\ K = KeyLen[m.key]
      BY <1>6 DEF KeyLength, ValueLength
    <2>2. \A j \in Cuts(K, V) : j \in Int /\ (j = 6 \/ j >= 6 + K)
      <3>1. \A j \in Cuts(K, V) : j = 6 \/ j >= 6 + K
        BY <1>2, <1>6, <2>1 DEF InLastField, HeaderSize
      <3>2. Cuts(K, V) \subseteq 1 .. 6 + K + V
        BY <1>2, <1>6, <2>1, CutAssumption
      <3> HIDE DEF K, V
      <3> QED BY <1>1, <3>1, <3>2
    <2> HIDE DEF K, V
    <2>3. n >= 6 /\ (n = 6 \/ n >= 6 + K)
      BY <1>1, <1>3, <2>2
    <2> QED BY <2>3 DEF Piece, K, V
  <1> QED BY <1>4, <1>5, <1>6

\* The server and the clients go on only with messages that are whole.
LEMMA EndedWhole ==
  ASSUME RpcInv, ReadInv, NEW c \in Client, message[c] # Nil, loop[c].done
  PROVE  Whole(loop[c], message[c])
  <1>1. message[c] \in Message /\ loop[c] \in LoopOK /\ Reads(loop[c], message[c])
    BY DEF RpcInv, RpcTypeOK, ReadInv
  <1> QED BY <1>1, ReadsWhole

LEMMA ServedWhole ==
  ASSUME RpcInv, ReadInv, serving \in Client, loop[serving].done
  PROVE  Whole(loop[serving], message[serving])
  BY EndedWhole DEF RpcInv, QueueInv

\* Then no NULL is copied, and nothing was written behind a buffer.
LEMMA WholeIsSafe ==
  ASSUME NEW l, NEW m, Whole(l, m)
  PROVE  ~ CopiesNull(l, m) /\ ~ l.over
  <1>1. ~ l.over /\ (l.v > 0 => l.twice = 2)
    BY DEF Whole
  <1> QED BY <1>1 DEF CopiesNull

LEMMA FreshNotBroken == Fresh # Broken
  BY BrokenBounds DEF Fresh

LEMMA ReadInit ==
  ASSUME Init
  PROVE  ReadInv
  BY NilAssumption DEF Init, ReadInv

LEMMA ReadNext ==
  ASSUME InLastField, RpcInv, ReadInv, [Next]_vars
  PROVE  ReadInv'
  <1>1. loop \in [Client -> LoopOK] /\ message \in [Client -> Message \cup {Nil}]
        /\ arrived \in [Client -> Nat]
    BY DEF RpcInv, RpcTypeOK
  <1>2. ASSUME NEW c \in Client, NEW x, serving' # Down,
               message' = [message EXCEPT ![c] = x],
               arrived' = [arrived EXCEPT ![c] = 0], loop' = [loop EXCEPT ![c] = Fresh]
        PROVE  ReadInv'
    <2>1. \A d \in Client : /\ message'[d] = IF d = c THEN x ELSE message[d]
                            /\ arrived'[d] = IF d = c THEN 0 ELSE arrived[d]
                            /\ loop'[d] = IF d = c THEN Fresh ELSE loop[d]
      BY <1>1, <1>2
    <2>2. Piece(x, 0) /\ Reads(Fresh, x)
      BY DEF Piece, Reads
    <2> QED BY <1>2, <2>1, <2>2 DEF ReadInv
  <1>3. ASSUME NEW c \in Client, NEW r \in Request, Call(c, r)
        PROVE  ReadInv'
    BY <1>2, <1>3 DEF Call, ReadInv
  <1>4. ASSUME NEW c \in Client, Deliver(c)
        PROVE  ReadInv'
    <2>1. PICK n \in Cuts(KeyLength(message[c]), ValueLength(message[c])) \cup {Size(message[c])} :
            arrived' = [arrived EXCEPT ![c] = n]
      BY <1>4 DEF Deliver
    <2>2. message[c] # Nil /\ UNCHANGED <<serving, message, loop>>
      BY <1>4 DEF Deliver
    <2>3. message[c] \in Message /\ (message[c].val # Nil => message[c].key # Nil)
      BY <2>2, MessageShape
    <2>4. Piece(message[c], n)
      BY <2>3, PieceArrives
    <2>5. \A d \in Client : arrived'[d] = IF d = c THEN n ELSE arrived[d]
      BY <1>1, <2>1
    <2> QED BY <2>2, <2>4, <2>5 DEF ReadInv
  <1>5. ASSUME NEW c \in Client, Recv(c)
        PROVE  ReadInv'
    <2> DEFINE next == Received(loop[c], message[c], arrived[c])
    <2>1. /\ message[c] # Nil /\ ~ loop[c].done /\ loop[c].past < arrived[c]
          /\ loop' = [loop EXCEPT ![c] = next] /\ UNCHANGED <<serving, message, arrived>>
      BY <1>5 DEF Recv
    <2>2. message[c] \in Message /\ (message[c].val # Nil => message[c].key # Nil)
      BY <2>1, MessageShape
    <2>3. arrived[c] \in 0 .. Size(message[c]) /\ LoopBounds(loop[c], arrived[c])
          /\ Piece(message[c], arrived[c]) /\ Reads(loop[c], message[c])
      BY <2>1 DEF RpcInv, RpcTypeOK, ReadInv
    <2>4. Reads(next, message[c])
      BY <2>1, <2>2, <2>3, ReadsOn
    <2> HIDE DEF next
    <2>5. \A d \in Client : loop'[d] = IF d = c THEN next ELSE loop[d]
      BY <1>1, <2>1
    <2> QED BY <2>1, <2>4, <2>5 DEF ReadInv
  <1>6. ASSUME NEW c \in Client, Return(c)
        PROVE  ReadInv'
    BY <1>2, <1>6 DEF Return, ReadInv
  <1>7. CASE Accept
    <2>1. serving' = Head(queue) /\ queue # <<>> /\ UNCHANGED <<message, arrived, loop>>
      BY <1>7 DEF Accept
    <2>2. queue \in Seq(Client)
      BY DEF RpcInv, RpcTypeOK
    <2>3. serving' # Down
      BY <2>1, <2>2, NilAssumption
    <2> QED BY <2>1, <2>3 DEF ReadInv
  <1>8. CASE Handle
    <2>1. serving' = Nil /\ serving \in Client /\ Answer(Effect(message[serving]), Reply(message[serving]), Fresh)
      BY <1>8 DEF Handle, Answer
    <2>2. /\ message' = [message EXCEPT ![serving] = Reply(message[serving])]
          /\ arrived' = [arrived EXCEPT ![serving] = 0]
          /\ loop' = [loop EXCEPT ![serving] = Fresh]
      BY <2>1, FreshNotBroken DEF Answer
    <2> QED BY <1>2, <2>1, <2>2, NilAssumption
  <1>9. ~ HandleMisread /\ ~ Crash
    BY ServedWhole, WholeIsSafe DEF HandleMisread, Crash
  <1>10. ASSUME NEW c \in Client, Refused(c)
         PROVE  ReadInv'
    BY <1>10 DEF Refused, ReadInv
  <1>11. CASE UNCHANGED vars
    BY <1>11 DEF vars, ReadInv
  <1> QED BY <1>3, <1>4, <1>5, <1>6, <1>7, <1>8, <1>9, <1>10, <1>11 DEF Next, Serve

LEMMA ReadInvariant ==
  ASSUME InLastField
  PROVE  Spec => []ReadInv
  <1>1. Init => ReadInv
    BY ReadInit
  <1>2. RpcInv /\ ReadInv /\ [Next]_vars => ReadInv'
    BY ReadNext
  <1> QED BY <1>1, <1>2, RpcInvariant, PTL DEF Spec

\* As long as TCP cuts messages only between their fields and in the last one, both ends
\* read every message as it was sent, whatever lengths keys and values have in their 16
\* bits.  Nothing makes TCP keep to that: the run rpc_pieces shows what happens if not.
THEOREM FieldwiseIsWhole == InLastField => (Spec => []ReceivedAsSent)
  <1> SUFFICES ASSUME InLastField
               PROVE  Spec => []ReceivedAsSent
    OBVIOUS
  <1>1. Spec => []ReadInv
    BY ReadInvariant
  <1>2. RpcInv /\ ReadInv => ReceivedAsSent
    BY EndedWhole DEF ReceivedAsSent
  <1> QED BY <1>1, <1>2, RpcInvariant, PTL

----------------------------------------------------------------------------
(****************************************************************************)
(* Server and clients are one store.                                        *)
(****************************************************************************)

\* The outcomes of the requests that have taken effect: the replies under way.
Done == [c \in Client |->
           IF message[c] # Nil /\ message[c].reply THEN Element(message[c]) ELSE Nil]

\* Storing, finding and deleting are what the store does with the request, and the reply
\* carries its result.
LEMMA HandleExecutes ==
  ASSUME RpcInv, Handle, NEW c \in Client, c = serving
  PROVE  Store!Execute(c)
  <1> DEFINE r == call[c]
  <1>1. /\ table' = Effect(message[c])
        /\ message' = [message EXCEPT ![c] = Reply(message[c])]
        /\ UNCHANGED <<queue, call, answer>>
    BY DEF Handle, Answer
  <1>2. message[c] # Nil /\ ~ message[c].reply
    BY DEF RpcInv, QueueInv
  <1>3. message[c] = Sent(r) /\ r \in Request /\ WellFormed(r) /\ r # Nil
    BY <1>2, MessageShape, NilAssumption
  <1>4. message[c].op = r.op /\ message[c].key = r.key /\ message[c].val = r.val
    BY <1>3 DEF Sent
  <1>5. r.op \in {"set", "get", "del"} /\ r.key \in Key
    BY <1>3 DEF Request
  <1>6. table' = Store!Effect(r)
    BY <1>1, <1>4 DEF Effect, Store!Effect
  <1>7. Reply(message[c]) # Nil /\ Reply(message[c]).reply
    BY <1>3, MessageTypes DEF RpcInv, RpcTypeOK, IsReply
  <1>8. Element(Reply(message[c])) = Store!Result(r)
    BY <1>4, <1>5 DEF Store!Result, Store!NoElement, Reply, Ack, Element
  <1>9. message \in [Client -> Message \cup {Nil}]
    BY DEF RpcInv, RpcTypeOK
  <1> HIDE DEF r
  <1>10. Done[c] = Nil
    BY <1>2 DEF Done
  <1>11. Done' = [Done EXCEPT ![c] = Store!Result(r)]
    <2>1. \A d \in Client : message'[d] = IF d = c THEN Reply(message[c]) ELSE message[d]
      BY <1>1, <1>9
    <2>2. \A d \in Client : Done'[d] = IF d = c THEN Store!Result(r) ELSE Done[d]
      BY <1>7, <1>8, <2>1 DEF Done
    <2> QED BY <2>2 DEF Done
  <1>12. UNCHANGED <<call, answer>> /\ call[c] # Nil
    BY <1>1, <1>3 DEF r
  <1> QED BY <1>6, <1>10, <1>11, <1>12 DEF Store!Execute, Done, r

LEMMA StoreInit ==
  ASSUME Init
  PROVE  Store!StoreInit
  <1>1. NoElement = Store!NoElement
    BY DEF NoElement, Ack, Element, Store!NoElement
  <1> QED BY <1>1 DEF Init, Store!StoreInit

\* Calls and returns are the store's, and what happens to the bytes in between it does
\* not see.
LEMMA StoreStep ==
  ASSUME RpcInv, ReadInv, [Next]_vars
  PROVE  [Store!StoreNext]_(Store!storeVars)
  <1>1. message \in [Client -> Message \cup {Nil}]
    BY DEF RpcInv, RpcTypeOK
  <1>2. ASSUME NEW c \in Client, NEW r \in Request, WellFormed(r), Call(c, r)
        PROVE  Store!Invoke(c, r)
    <2>1. /\ call[c] = Nil /\ call' = [call EXCEPT ![c] = r]
          /\ message' = [message EXCEPT ![c] = Sent(r)]
          /\ UNCHANGED <<table, answer>>
      BY <1>2 DEF Call, Sent
    <2>2. message[c] = Nil /\ ~ Sent(r).reply
      BY <2>1 DEF RpcInv, MessageInv, Sent
    <2>3. \A d \in Client : message'[d] = IF d = c THEN Sent(r) ELSE message[d]
      BY <1>1, <2>1
    <2>4. Done' = Done
      BY <2>2, <2>3 DEF Done
    <2> QED BY <2>1, <2>4 DEF Store!Invoke, Done
  <1>3. ASSUME NEW c \in Client, Return(c)
        PROVE  Store!Return(c)
    <2>1. /\ message[c] # Nil /\ message[c].reply
          /\ answer' = [answer EXCEPT ![c] = Element(message[c])]
          /\ call' = [call EXCEPT ![c] = Nil]
          /\ message' = [message EXCEPT ![c] = Nil]
          /\ table' = table
      BY <1>3, EndedWhole DEF Return, Returned
    <2>2. Element(message[c]) # Nil
      BY <1>1, <2>1, ElementType, NilAssumption
    <2>3. Done[c] = Element(message[c])
      BY <2>1 DEF Done
    <2>4. \A d \in Client : message'[d] = IF d = c THEN Nil ELSE message[d]
      BY <1>1, <2>1
    <2>5. Done' = [Done EXCEPT ![c] = Nil]
      BY <2>4 DEF Done
    <2> QED BY <2>1, <2>2, <2>3, <2>5 DEF Store!Return, Done
  <1>4. ASSUME UNCHANGED <<table, call, answer, message>>
        PROVE  UNCHANGED Store!storeVars
    BY <1>4 DEF Store!storeVars
  <1>5. CASE UNCHANGED vars
    BY <1>4, <1>5 DEF vars
  <1>6. CASE Accept
    BY <1>4, <1>6 DEF Accept
  <1>7. CASE Handle
    <2>1. PICK c \in Client : c = serving
      BY <1>7 DEF Handle, RpcInv, RpcTypeOK
    <2>2. Store!Execute(c)
      BY <1>7, <2>1, HandleExecutes
    <2> QED BY <2>2 DEF Store!StoreNext, Store!Progress
  <1>11. ~ HandleMisread /\ ~ Crash
    BY ServedWhole, WholeIsSafe DEF HandleMisread, Crash
  <1>12. \A c \in Client : ~ Refused(c)
    BY DEF ReadInv, Refused
  <1>8. CASE \E c \in Client : \E r \in Request : WellFormed(r) /\ Call(c, r)
    BY <1>2, <1>8 DEF Store!StoreNext
  <1>9. CASE \E c \in Client : Deliver(c) \/ Recv(c)
    BY <1>4, <1>9 DEF Deliver, Recv
  <1>10. CASE \E c \in Client : Return(c)
    BY <1>3, <1>10 DEF Store!StoreNext, Store!Progress
  <1> QED BY <1>5, <1>6, <1>7, <1>8, <1>9, <1>10, <1>11, <1>12 DEF Next, Serve

\* For any clients, keys and values of any lengths, as long as TCP cuts messages only
\* between their fields and in the last one: server and clients are one store, in which
\* do_rpc() returns with the outcome of its own request on what the requests before have
\* left behind.
THEOREM ServerIsStore == InLastField => (Spec => ImplementsStore)
  <1> SUFFICES ASSUME InLastField
               PROVE  Spec => ImplementsStore
    OBVIOUS
  <1>1. Spec => []ReadInv
    BY ReadInvariant
  <1> QED BY <1>1, StoreInit, StoreStep, RpcInvariant, PTL
          DEF Spec, ImplementsStore, Store!StoreSafety
================================================================================
