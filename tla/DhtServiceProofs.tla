---------------------------- MODULE DhtServiceProofs ---------------------------
(****************************************************************************)
(* The ring in service, for any nodes, any keys and any number of clients.  *)
(* The hypotheses of the theorems are those under which the code keeps its  *)
(* promise: no two clients use one node, no node has the SELF_ID 0 (see     *)
(* PassAtZero in DhtProofs), values are not empty, and the accept queues    *)
(* have room for every client.                                              *)
(****************************************************************************)
EXTENDS DhtService, DhtProofs, NumberProofs, FiniteSetTheorems

\* Every client has a node to itself.
OwnGateways == \A c, d \in Client : Gateway[c] = Gateway[d] => c = d

\* There is a node, and none with the SELF_ID whose own position pass() passes on.
SoundRing == Node # {} /\ 0 \notin Node

\* No node's queue overflows, whoever calls.
RoomForAll == IsFiniteSet(Client) /\ Cardinality(Client) <= Backlog + 1

----------------------------------------------------------------------------
(****************************************************************************)
(* The arcs of a settled ring.                                              *)
(****************************************************************************)

\* Distances are numbers from 1 to HASH_SPACE.
LEMMA DistanceType ==
  ASSUME NEW a \in 0 .. HashSpace - 1, NEW b \in 0 .. HashSpace - 1
  PROVE  Distance(a, b) \in 1 .. HashSpace
  BY HashSpaceAssumption DEF Distance

\* The nearest nodes on both sides exist, the node itself if it is alone.
LEMMA Neighbours ==
  ASSUME NEW n \in Node
  PROVE  /\ RingSuccessor(n) \in Node
         /\ RingPredecessor(n) \in Node
         /\ \A k \in Node : Distance(RingPredecessor(n), n) <= Distance(k, n)
  <1>1. \A a, b \in Node : Distance(a, b) \in Nat
    BY NodeAssumption, DistanceType, HashSpaceAssumption
  <1>2. \E m \in Node : \A k \in Node : Distance(n, m) <= Distance(n, k)
    <2> DEFINE T == {Distance(n, k) : k \in Node}
    <2>1. T \subseteq Nat /\ T # {}
      BY <1>1
    <2> HIDE DEF T
    <2>2. PICK x \in T : \A y \in T : x <= y
      BY <2>1, LeastNumber
    <2> QED BY <2>2 DEF T
  <1>3. \E m \in Node : \A k \in Node : Distance(m, n) <= Distance(k, n)
    <2> DEFINE T == {Distance(k, n) : k \in Node}
    <2>1. T \subseteq Nat /\ T # {}
      BY <1>1
    <2> HIDE DEF T
    <2>2. PICK x \in T : \A y \in T : x <= y
      BY <2>1, LeastNumber
    <2> QED BY <2>2 DEF T
  <1> QED BY <1>2, <1>3 DEF RingSuccessor, RingPredecessor

\* What a node keeps lies on its arc, also if its SELF_ID is 0.
LEMMA KeptOnArc ==
  ASSUME NEW self \in 0 .. HashSpace - 1, NEW prev \in 0 .. HashSpace - 1,
         NEW key \in 0 .. HashSpace - 1, ~ Pass(self, prev, key)
  PROVE  Distance(prev, key) <= Distance(prev, self)
  BY HashSpaceAssumption DEF Pass, Distance

\* Two nodes never both keep a position.
LEMMA OneKeeper ==
  ASSUME NEW n \in Node, NEW m \in Node, NEW p \in 0 .. HashSpace - 1,
         ~ Pass(n, RingPredecessor(n), p), ~ Pass(m, RingPredecessor(m), p)
  PROVE  n = m
  <1> DEFINE x == RingPredecessor(n)
             y == RingPredecessor(m)
  <1>1. /\ n \in 0 .. HashSpace - 1 /\ m \in 0 .. HashSpace - 1
        /\ x \in 0 .. HashSpace - 1 /\ y \in 0 .. HashSpace - 1
    BY NodeAssumption, Neighbours
  <1>2. Distance(x, n) <= Distance(m, n) /\ Distance(y, m) <= Distance(n, m)
    BY Neighbours
  <1> HIDE DEF x, y
  <1>3. Distance(x, p) <= Distance(x, n) /\ Distance(y, p) <= Distance(y, m)
    BY <1>1, KeptOnArc DEF x, y
  <1>4. SUFFICES ASSUME n # m
                 PROVE  FALSE
    OBVIOUS
  <1> QED BY <1>1, <1>2, <1>3, <1>4, HashSpaceAssumption DEF Distance

\* And one of them does: the first at or behind it.
LEMMA SomeKeeper ==
  ASSUME SoundRing, NEW p \in 0 .. HashSpace - 1
  PROVE  \E n \in Node : ~ Pass(n, RingPredecessor(n), p)
  <1> DEFINE behind(n) == IF n >= p THEN n - p ELSE n - p + HashSpace
             T == {behind(n) : n \in Node}
  <1>1. \A n \in Node : n \in 1 .. HashSpace - 1
    BY NodeAssumption, HashSpaceAssumption DEF SoundRing
  <1>2. T \subseteq Nat /\ T # {}
    BY <1>1, HashSpaceAssumption DEF SoundRing
  <1>3. \E n \in Node : \A k \in Node : behind(n) <= behind(k)
    <2> HIDE DEF T
    <2>1. PICK z \in T : \A y \in T : z <= y
      BY <1>2, LeastNumber
    <2> QED BY <2>1 DEF T
  <1>4. PICK n \in Node : \A k \in Node : behind(n) <= behind(k)
    BY <1>3
  <1> DEFINE x == RingPredecessor(n)
  <1>5. x \in Node /\ n \in 1 .. HashSpace - 1 /\ x \in 1 .. HashSpace - 1
    BY <1>1, Neighbours
  <1>6. behind(n) <= behind(x)
    BY <1>4, <1>5
  <1> HIDE DEF x
  <1>7. Distance(x, p) <= Distance(x, n)
    BY <1>5, <1>6, HashSpaceAssumption DEF Distance
  <1>8. ~ Pass(n, x, p)
    BY <1>5, <1>7, PassIsArc, HashSpaceAssumption
  <1> QED BY <1>8 DEF x

\* So the owner of a position is the one node that keeps it.
LEMMA OwnerKeeps ==
  ASSUME SoundRing, NEW p \in 0 .. HashSpace - 1
  PROVE  /\ Owner(p) \in Node
         /\ \A n \in Node : ~ Pass(n, RingPredecessor(n), p) <=> n = Owner(p)
  <1>1. Owner(p) \in Node /\ ~ Pass(Owner(p), RingPredecessor(Owner(p)), p)
    BY SomeKeeper DEF Owner
  <1> QED BY <1>1, OneKeeper

----------------------------------------------------------------------------
(****************************************************************************)
(* The inductive invariant.  All that is under way in a ring in service     *)
(* belongs to clients that wait, and to each of them one message at most:   *)
(* the request itself, the request on its way around the ring, or the       *)
(* acknowledgement.                                                         *)
(****************************************************************************)

\* The pointers do not move any more.
Settled ==
  /\ status = [n \in Node |-> "up"]
  /\ nextId = [n \in Node |-> RingSuccessor(n)]
  /\ prevId = [n \in Node |-> RingPredecessor(n)]
  /\ firstSet = [n \in Node |-> TRUE]

\* Request r of client c on its way around the ring.
Forwarded(c, r) ==
  [intl |-> TRUE, cmd |-> "none", op |-> r.op, id |-> Gateway[c],
   key |-> r.key, val |-> r.val, sock |-> Nil]

\* The client to which message m in the queue of node n belongs.
ClientAt(n) == CHOOSE c \in Client : Gateway[c] = n
Whose(n, m) ==
  IF ~ m.intl THEN m.sock ELSE ClientAt(IF m.cmd = "ack" THEN n ELSE m.id)

\* Message m in the queue of node n is what client c waits for, whose request is r;
\* saved is the CLIENT_SOCKET of c's node.
UnderWay(c, n, m, r, saved) ==
  /\ r # Nil
  /\ \/ n = Gateway[c] /\ m = ClientMessage(c, r) /\ saved = Nil
     \/ m = Forwarded(c, r) /\ saved = c
     \/ n = Gateway[c] /\ m.intl /\ m.cmd = "ack" /\ saved = c

AllUnderWay ==
  \A n \in Node : \A i \in DOMAIN inbox[n] :
    LET c == Whose(n, inbox[n][i]) IN
    c \in Client /\ UnderWay(c, n, inbox[n][i], call[c], clientSocket[Gateway[c]])

\* Queues in which no two messages belong to one client.
OneEach(queues) ==
  \A n, k \in Node : \A i \in DOMAIN queues[n], j \in DOMAIN queues[k] :
    Whose(n, queues[n][i]) = Whose(k, queues[k][j]) => n = k /\ i = j

SavedHere ==
  \A n \in Node :
    clientSocket[n] # Nil =>
      call[clientSocket[n]] # Nil /\ Gateway[clientSocket[n]] = n

CallsHere ==
  \A c \in Client : call[c] # Nil => WellFormed(call[c]) /\ call[c].node = Gateway[c]

ServiceInv ==
  TypeOK /\ Settled /\ AllUnderWay /\ OneEach(inbox) /\ SavedHere /\ CallsHere

----------------------------------------------------------------------------
(****************************************************************************)
(* Queues: what a turn takes and what it sends.                             *)
(****************************************************************************)

\* A message that is under way for a client is that client's.
LEMMA WhoseIs ==
  ASSUME OwnGateways, NEW c \in Client, NEW n, NEW m, NEW r, NEW saved,
         UnderWay(c, n, m, r, saved)
  PROVE  Whose(n, m) = c
  <1>1. ClientAt(Gateway[c]) = c
    BY DEF OwnGateways, ClientAt
  <1>2. CASE m = ClientMessage(c, r)
    BY <1>2 DEF Whose, ClientMessage
  <1>3. CASE m = Forwarded(c, r)
    BY <1>1, <1>3 DEF Whose, Forwarded
  <1>4. CASE n = Gateway[c] /\ m.intl /\ m.cmd = "ack"
    BY <1>1, <1>4 DEF Whose
  <1> QED BY <1>2, <1>3, <1>4 DEF UnderWay

\* In the queues there are only messages that other clients than c wait for.
OthersUnderWay(queues, c, calls, sockets) ==
  \A p \in Node : \A i \in DOMAIN queues[p] :
    LET d == Whose(p, queues[p][i]) IN
    /\ d \in Client /\ d # c
    /\ UnderWay(d, p, queues[p][i], calls[d], sockets[Gateway[d]])

\* In the queues there is, beside what was in others, at most message x at node k.
Joins(queues, others, k, x) ==
  \A p \in Node : \A i \in DOMAIN queues[p] :
    \/ i \in DOMAIN others[p] /\ queues[p][i] = others[p][i]
    \/ p = k /\ i = Len(others[k]) + 1 /\ queues[p][i] = x

\* The message at hand is under way for a client, and nothing that stays in the queues is
\* the same client's.
LEMMA Remaining ==
  ASSUME ServiceInv, NEW n \in Node, inbox[n] # <<>>
  PROVE  LET h == Head(inbox[n])
             c == Whose(n, h)
         IN  /\ h \in Message /\ c \in Client
             /\ UnderWay(c, n, h, call[c], clientSocket[Gateway[c]])
             /\ Accepted(n) \in [Node -> Seq(Message)]
             /\ OneEach(Accepted(n))
             /\ OthersUnderWay(Accepted(n), c, call, clientSocket)
  <1> DEFINE q == inbox[n]
             h == Head(q)
             c == Whose(n, h)
  <1>1. inbox \in [Node -> Seq(Message)] /\ q \in Seq(Message)
    BY DEF ServiceInv, TypeOK
  <1>2. /\ DOMAIN Tail(q) = 1 .. Len(q) - 1
        /\ \A i \in DOMAIN Tail(q) : Tail(q)[i] = q[i + 1] /\ i + 1 \in DOMAIN q
        /\ h = q[1] /\ 1 \in DOMAIN q
    BY <1>1
  <1>3. Accepted(n)[n] = Tail(q) /\ \A p \in Node \ {n} : Accepted(n)[p] = inbox[p]
    BY <1>1 DEF Accepted
  <1>4. Accepted(n) \in [Node -> Seq(Message)] /\ h \in Message
    BY AcceptedType DEF ServiceInv
  <1>5. c \in Client /\ UnderWay(c, n, h, call[c], clientSocket[Gateway[c]])
    BY <1>2 DEF ServiceInv, AllUnderWay
  <1>6. \A p \in Node : \A i \in DOMAIN Accepted(n)[p] :
          \E j \in DOMAIN inbox[p] :
            /\ Accepted(n)[p][i] = inbox[p][j]
            /\ j = IF p = n THEN i + 1 ELSE i
            /\ ~ (p = n /\ j = 1)
            /\ p = n => i \in Int
    <2> SUFFICES ASSUME NEW p \in Node, NEW i \in DOMAIN Accepted(n)[p]
                 PROVE  \E j \in DOMAIN inbox[p] :
                          /\ Accepted(n)[p][i] = inbox[p][j]
                          /\ j = IF p = n THEN i + 1 ELSE i
                          /\ ~ (p = n /\ j = 1)
                          /\ p = n => i \in Int
      OBVIOUS
    <2>1. CASE p = n
      <3>1. i \in DOMAIN Tail(q) /\ Accepted(n)[p][i] = Tail(q)[i]
        BY <1>3, <2>1
      <3>2. i \in 1 .. Len(q) - 1 /\ Len(q) \in Nat
        BY <1>1, <1>2, <3>1
      <3>3. i + 1 # 1 /\ i \in Int
        BY <3>2
      <3>4. i + 1 \in DOMAIN q /\ Tail(q)[i] = q[i + 1]
        BY <1>2, <3>1
      <3> QED BY <2>1, <3>1, <3>3, <3>4
    <2>2. CASE p # n
      BY <1>3, <2>2
    <2> QED BY <2>1, <2>2
  <1>7. OneEach(inbox)
    BY DEF ServiceInv
  <1>8. OneEach(Accepted(n))
    <2> SUFFICES ASSUME NEW p \in Node, NEW k \in Node, NEW i \in DOMAIN Accepted(n)[p],
                        NEW j \in DOMAIN Accepted(n)[k],
                        Whose(p, Accepted(n)[p][i]) = Whose(k, Accepted(n)[k][j])
                 PROVE  p = k /\ i = j
      BY DEF OneEach
    <2>1. PICK a \in DOMAIN inbox[p] :
            /\ Accepted(n)[p][i] = inbox[p][a] /\ a = IF p = n THEN i + 1 ELSE i
            /\ p = n => i \in Int
      BY <1>6
    <2>2. PICK b \in DOMAIN inbox[k] :
            /\ Accepted(n)[k][j] = inbox[k][b] /\ b = IF k = n THEN j + 1 ELSE j
            /\ k = n => j \in Int
      BY <1>6
    <2>3. p = k /\ a = b
      BY <1>7, <2>1, <2>2 DEF OneEach
    <2> QED BY <2>1, <2>2, <2>3
  <1>9. ASSUME NEW p \in Node, NEW i \in DOMAIN Accepted(n)[p]
        PROVE  LET m == Accepted(n)[p][i]
                   d == Whose(p, m)
               IN  /\ d \in Client /\ d # c
                   /\ UnderWay(d, p, m, call[d], clientSocket[Gateway[d]])
    <2>1. PICK j \in DOMAIN inbox[p] :
            Accepted(n)[p][i] = inbox[p][j] /\ ~ (p = n /\ j = 1)
      BY <1>6
    <2>2. Whose(p, inbox[p][j]) # c
      BY <1>2, <1>7, <2>1 DEF OneEach
    <2> QED BY <2>1, <2>2 DEF ServiceInv, AllUnderWay
  <1> QED BY <1>4, <1>5, <1>8, <1>9 DEF OthersUnderWay

\* What a message sent appends.
LEMMA SentAt ==
  ASSUME NEW queues \in [Node -> Seq(Message)], NEW k \in Node, NEW x \in Message,
         NEW sent, sent = SendTo(queues, k, x)
  PROVE  Joins(sent, queues, k, x)
  <1>1. CASE sent = queues
    BY <1>1 DEF Joins
  <1>2. CASE sent = [queues EXCEPT ![k] = Append(@, x)]
    <2> SUFFICES ASSUME NEW p \in Node, NEW i \in DOMAIN sent[p]
                 PROVE  \/ i \in DOMAIN queues[p] /\ sent[p][i] = queues[p][i]
                        \/ p = k /\ i = Len(queues[k]) + 1 /\ sent[p][i] = x
      BY DEF Joins
    <2>1. CASE p = k
      <3>1. sent[p] = Append(queues[k], x) /\ queues[k] \in Seq(Message)
        BY <1>2, <2>1
      <3> QED BY <2>1, <3>1
    <2>2. CASE p # k
      BY <1>2, <2>2
    <2> QED BY <2>1, <2>2
  <1> QED BY <1>1, <1>2 DEF SendTo

\* A message of a client that has none in the queues joins them.
LEMMA Joined ==
  ASSUME OwnGateways, NEW rest \in [Node -> Seq(Message)], OneEach(rest),
         NEW c \in Client, NEW k \in Node, NEW x \in Message,
         OthersUnderWay(rest, c, call', clientSocket'),
         UnderWay(c, k, x, call'[c], clientSocket'[Gateway[c]]),
         Joins(inbox', rest, k, x)
  PROVE  AllUnderWay' /\ OneEach(inbox')
  <1>1. Whose(k, x) = c
    BY WhoseIs
  <1>2. AllUnderWay'
    <2> SUFFICES ASSUME NEW p \in Node, NEW i \in DOMAIN inbox'[p]
                 PROVE  LET d == Whose(p, inbox'[p][i]) IN
                        /\ d \in Client
                        /\ UnderWay(d, p, inbox'[p][i], call'[d], clientSocket'[Gateway[d]])
      BY DEF AllUnderWay
    <2>1. CASE i \in DOMAIN rest[p] /\ inbox'[p][i] = rest[p][i]
      BY <2>1 DEF OthersUnderWay
    <2>2. CASE p = k /\ inbox'[p][i] = x
      BY <1>1, <2>2
    <2> QED BY <2>1, <2>2 DEF Joins
  <1>3. OneEach(inbox')
    <2> SUFFICES ASSUME NEW p \in Node, NEW t \in Node, NEW i \in DOMAIN inbox'[p],
                        NEW j \in DOMAIN inbox'[t],
                        Whose(p, inbox'[p][i]) = Whose(t, inbox'[t][j])
                 PROVE  p = t /\ i = j
      BY DEF OneEach
    <2>1. CASE Whose(p, inbox'[p][i]) = c
      <3>1. ~ (i \in DOMAIN rest[p] /\ inbox'[p][i] = rest[p][i])
        BY <2>1 DEF OthersUnderWay
      <3>2. ~ (j \in DOMAIN rest[t] /\ inbox'[t][j] = rest[t][j])
        BY <2>1 DEF OthersUnderWay
      <3> QED BY <3>1, <3>2 DEF Joins
    <2>2. CASE Whose(p, inbox'[p][i]) # c
      <3>1. i \in DOMAIN rest[p] /\ inbox'[p][i] = rest[p][i]
        BY <1>1, <2>2 DEF Joins
      <3>2. j \in DOMAIN rest[t] /\ inbox'[t][j] = rest[t][j]
        BY <1>1, <2>2 DEF Joins
      <3> QED BY <3>1, <3>2 DEF OneEach
    <2> QED BY <2>1, <2>2
  <1> QED BY <1>2, <1>3

\* A turn that uses up the message of one client, and perhaps sends another one for it.
LEMMA TurnUnderWay ==
  ASSUME OwnGateways, ServiceInv, NEW n \in Node, inbox[n] # <<>>,
         NEW c \in Client, c = Whose(n, Head(inbox[n])),
         \A d \in Client \ {c} :
           call'[d] = call[d] /\ clientSocket'[Gateway[d]] = clientSocket[Gateway[d]],
         \/ inbox' = Accepted(n)
         \/ \E k \in Node, x \in Message :
              /\ inbox' = SendTo(Accepted(n), k, x)
              /\ UnderWay(c, k, x, call'[c], clientSocket'[Gateway[c]])
  PROVE  AllUnderWay' /\ OneEach(inbox')
  <1> DEFINE rest == Accepted(n)
  <1>1. /\ rest \in [Node -> Seq(Message)] /\ OneEach(rest)
        /\ OthersUnderWay(rest, c, call, clientSocket)
    BY Remaining
  <1> HIDE DEF rest
  <1>2. OthersUnderWay(rest, c, call', clientSocket')
    BY <1>1 DEF OthersUnderWay
  <1>3. CASE inbox' = rest
    <2>1. OneEach(inbox')
      BY <1>1, <1>3
    <2>2. AllUnderWay'
      BY <1>2, <1>3 DEF AllUnderWay, OthersUnderWay
    <2> QED BY <2>1, <2>2
  <1>4. ASSUME NEW k \in Node, NEW x \in Message, inbox' = SendTo(rest, k, x),
               UnderWay(c, k, x, call'[c], clientSocket'[Gateway[c]])
        PROVE  AllUnderWay' /\ OneEach(inbox')
    <2>1. rest \in [Node -> Seq(Message)] /\ OneEach(rest)
      BY <1>1
    <2>2. Joins(inbox', rest, k, x)
      BY <1>4, <2>1, SentAt
    <2> QED BY <1>2, <1>4, <2>1, <2>2, Joined
  <1> QED BY <1>3, <1>4 DEF rest

----------------------------------------------------------------------------
(****************************************************************************)
(* The invariant holds, one lemma per kind of turn.                         *)
(****************************************************************************)

\* A node in service takes every message to the data branch, and does not die.
LEMMA ServiceTurns ==
  ASSUME Settled, NEW n \in Node, Turn(n)
  PROVE  Relay(n) \/ Forward(n) \/ ServePeer(n) \/ ServeClient(n)
  <1>1. firstSet[n] /\ prevId[n] = RingPredecessor(n)
    BY DEF Settled
  <1>2. prevId[n] # Nil
    BY <1>1, Neighbours, NodesAreIntegers
  <1>3. ~ Stabilize(n)
    BY <1>1 DEF Stabilize, StabilizeTurn
  <1>4. \A cmd : ~ Maintaining(n, cmd)
    BY <1>1 DEF Maintaining, Serving
  <1>5. ~ Crash(n)
    BY <1>2 DEF Crash
  <1> QED BY <1>3, <1>4, <1>5 DEF Turn, ForwardJoin, AcceptJoin, Notify, AdoptPrev,
                                   AnswerStabilize, Ignore

\* No turn moves the pointers.
LEMMA StaysSettled ==
  ASSUME Settled, NEW n \in Node, DataTurn(n)
  PROVE  Settled'
  <1>1. UNCHANGED <<status, nextId, prevId>> /\ firstSet' = [firstSet EXCEPT ![n] = TRUE]
    BY DEF DataTurn, ringVars
  <1>2. firstSet' = [p \in Node |-> TRUE]
    BY <1>1 DEF Settled
  <1> QED BY <1>1, <1>2 DEF Settled, RingSuccessor, RingPredecessor

\* What all its turns have in common: they keep the pointers and use up one message.
LEMMA ServiceTurn ==
  ASSUME ServiceInv, NEW n \in Node, DataTurn(n)
  PROVE  LET h == Head(inbox[n])
             c == Whose(n, h)
         IN  /\ Settled' /\ inbox[n] # <<>>
             /\ h \in Message /\ c \in Client
             /\ UnderWay(c, n, h, call[c], clientSocket[Gateway[c]])
             /\ call[c] \in Request /\ WellFormed(call[c])
             /\ Gateway[c] \in Node
             /\ Accepted(n) \in [Node -> Seq(Message)]
  <1> DEFINE h == Head(inbox[n])
             c == Whose(n, h)
  <1>1. inbox[n] # <<>>
    BY DEF DataTurn, Accepting
  <1>2. Settled'
    BY StaysSettled DEF ServiceInv
  <1>3. h \in Message /\ c \in Client /\ UnderWay(c, n, h, call[c], clientSocket[Gateway[c]])
        /\ Accepted(n) \in [Node -> Seq(Message)]
    BY <1>1, Remaining
  <1>4. call[c] # Nil
    BY <1>3 DEF UnderWay
  <1>5. call[c] \in Request /\ WellFormed(call[c])
    BY <1>3, <1>4 DEF ServiceInv, TypeOK, CallsHere
  <1> QED BY <1>1, <1>2, <1>3, <1>5, GatewayAssumption

\* The client that a turn answers, in whichever way, waits no more, and its node has
\* forgotten its socket.
LEMMA Answered ==
  ASSUME OwnGateways, ServiceInv, NEW n \in Node, DataTurn(n), TypeOK',
         NEW c \in Client, c = Whose(n, Head(inbox[n])), n = Gateway[c],
         inbox' = Accepted(n),
         clientSocket' = [clientSocket EXCEPT ![n] = Nil],
         call' = [d \in Client |-> IF d = c THEN Nil ELSE call[d]]
  PROVE  ServiceInv'
  <1>1. Settled' /\ inbox[n] # <<>>
    BY ServiceTurn
  <1>2. \A p \in Node : clientSocket'[p] = IF p = n THEN Nil ELSE clientSocket[p]
    BY DEF ServiceInv, TypeOK
  <1>3. \A d \in Client \ {c} :
          call'[d] = call[d] /\ clientSocket'[Gateway[d]] = clientSocket[Gateway[d]]
    BY <1>2, GatewayAssumption DEF OwnGateways
  <1>4. AllUnderWay' /\ OneEach(inbox')
    BY <1>1, <1>3, TurnUnderWay
  <1>5. SavedHere'
    <2> SUFFICES ASSUME NEW p \in Node, clientSocket'[p] # Nil
                 PROVE  call'[clientSocket'[p]] # Nil /\ Gateway[clientSocket'[p]] = p
      BY DEF SavedHere
    <2>1. p # n /\ clientSocket'[p] = clientSocket[p]
      BY <1>2
    <2>2. clientSocket[p] \in Client
      BY <2>1 DEF ServiceInv, TypeOK
    <2>3. call[clientSocket[p]] # Nil /\ Gateway[clientSocket[p]] = p
      BY <2>1 DEF ServiceInv, SavedHere
    <2> QED BY <2>1, <2>2, <2>3
  <1>6. CallsHere'
    BY DEF ServiceInv, CallsHere, WellFormed
  <1> QED BY <1>1, <1>4, <1>5, <1>6 DEF ServiceInv, OneEach

LEMMA RelayAnswers ==
  ASSUME OwnGateways, ServiceInv, NEW n \in Node, Relay(n)
  PROVE  LET c == Whose(n, Head(inbox[n])) IN
         /\ c \in Client /\ n = Gateway[c] /\ clientSocket[n] = c /\ call[c] # Nil
         /\ inbox' = Accepted(n) /\ table' = table
         /\ clientSocket' = [clientSocket EXCEPT ![n] = Nil]
         /\ call' = [d \in Client |-> IF d = c THEN Nil ELSE call[d]]
         /\ answer' = [d \in Client |-> IF d = c THEN RelayedReply(Head(inbox[n])) ELSE answer[d]]
  <1> DEFINE h == Head(inbox[n])
             c == Whose(n, h)
  <1>1. /\ DataTurn(n) /\ h.intl /\ h.cmd = "ack"
        /\ inbox' = Accepted(n) /\ table' = table
        /\ clientSocket' = [clientSocket EXCEPT ![n] = Nil]
        /\ call' = [d \in Client |-> IF d = clientSocket[n] THEN Nil ELSE call[d]]
        /\ answer' = [d \in Client |-> IF d = clientSocket[n] THEN RelayedReply(h) ELSE answer[d]]
    BY DEF Relay
  <1>2. c \in Client /\ UnderWay(c, n, h, call[c], clientSocket[Gateway[c]])
    BY <1>1, ServiceTurn
  <1>3. h # ClientMessage(c, call[c]) /\ h # Forwarded(c, call[c])
    BY <1>1 DEF ClientMessage, Forwarded
  <1>4. n = Gateway[c] /\ clientSocket[n] = c /\ call[c] # Nil
    BY <1>2, <1>3 DEF UnderWay
  <1> QED BY <1>1, <1>2, <1>4

LEMMA RelayService ==
  ASSUME OwnGateways, ServiceInv, NEW n \in Node, Relay(n)
  PROVE  ServiceInv'
  <1>1. DataTurn(n)
    BY DEF Relay
  <1>2. TypeOK'
    BY RelayType DEF ServiceInv
  <1> QED BY <1>1, <1>2, RelayAnswers, Answered

\* The request of a client at its own node: no socket is saved there.
LEMMA ServesClient ==
  ASSUME OwnGateways, ServiceInv, NEW n \in Node, DataTurn(n), ~ Head(inbox[n]).intl
  PROVE  LET c == Whose(n, Head(inbox[n])) IN
         /\ c \in Client /\ n = Gateway[c] /\ clientSocket[n] = Nil
         /\ call[c] \in Request /\ WellFormed(call[c])
         /\ Head(inbox[n]) = ClientMessage(c, call[c])
  <1> DEFINE h == Head(inbox[n])
             c == Whose(n, h)
  <1>1. /\ c \in Client /\ call[c] \in Request /\ WellFormed(call[c])
        /\ UnderWay(c, n, h, call[c], clientSocket[Gateway[c]])
    BY ServiceTurn
  <1>2. h # Forwarded(c, call[c])
    BY DEF Forwarded
  <1> QED BY <1>1, <1>2 DEF UnderWay

\* A request that came through the ring.
LEMMA ServesPeer ==
  ASSUME ServiceInv, NEW n \in Node, DataTurn(n),
         Head(inbox[n]).intl, Head(inbox[n]).cmd # "ack"
  PROVE  LET c == Whose(n, Head(inbox[n])) IN
         /\ c \in Client /\ Gateway[c] \in Node /\ clientSocket[Gateway[c]] = c
         /\ call[c] \in Request /\ WellFormed(call[c])
         /\ Head(inbox[n]) = Forwarded(c, call[c])
  <1> DEFINE h == Head(inbox[n])
             c == Whose(n, h)
  <1>1. /\ c \in Client /\ call[c] \in Request /\ WellFormed(call[c])
        /\ UnderWay(c, n, h, call[c], clientSocket[Gateway[c]]) /\ Gateway[c] \in Node
    BY ServiceTurn
  <1>2. h # ClientMessage(c, call[c])
    BY DEF ClientMessage
  <1> QED BY <1>1, <1>2 DEF UnderWay

\* What a request's message says, and what requestFromNextPeer() makes of it.
LEMMA MessageFields ==
  ASSUME NEW c, NEW r
  PROVE  /\ ClientMessage(c, r).key = r.key /\ ClientMessage(c, r).sock = c
         /\ Forwarded(c, r).key = r.key /\ Forwarded(c, r).id = Gateway[c]
  BY DEF ClientMessage, Forwarded

\* A message with another header.
LEMMA Redirected ==
  ASSUME NEW i, NEW d, NEW o, NEW u, NEW k, NEW v, NEW s, NEW intl, NEW cmd, NEW id
  PROVE  [[intl |-> i, cmd |-> d, op |-> o, id |-> u, key |-> k, val |-> v, sock |-> s]
            EXCEPT !.intl = intl, !.cmd = cmd, !.id = id, !.sock = Nil] =
         [intl |-> intl, cmd |-> cmd, op |-> o, id |-> id, key |-> k, val |-> v, sock |-> Nil]
  <1> DEFINE m == [intl |-> i, cmd |-> d, op |-> o, id |-> u, key |-> k, val |-> v, sock |-> s]
             x == [m EXCEPT !.intl = intl, !.cmd = cmd, !.id = id, !.sock = Nil]
             y == [intl |-> intl, cmd |-> cmd, op |-> o, id |-> id,
                   key |-> k, val |-> v, sock |-> Nil]
             R == [intl : {intl}, cmd : {cmd}, op : {o}, id : {id}, key : {k}, val : {v}, sock : {Nil}]
  <1>1. m \in [intl : {i}, cmd : {d}, op : {o}, id : {u}, key : {k}, val : {v}, sock : {s}]
    OBVIOUS
  <1> HIDE DEF m
  <1>2. x \in R /\ y \in R
    BY <1>1
  <1>3. /\ x.intl = y.intl /\ x.cmd = y.cmd /\ x.op = y.op /\ x.id = y.id
        /\ x.key = y.key /\ x.val = y.val /\ x.sock = y.sock
    BY <1>2
  <1> HIDE DEF x, y
  <1>4. x = y
    BY <1>2, <1>3
  <1> QED BY <1>4 DEF x, y, m

LEMMA OnwardIs ==
  ASSUME NEW c, NEW r, NEW n
  PROVE  /\ Onward(Gateway[c], ClientMessage(c, r)) = Forwarded(c, r)
         /\ Onward(n, Forwarded(c, r)) = Forwarded(c, r)
  <1> DEFINE g == Gateway[c]
             sent == [intl |-> FALSE, cmd |-> "none", op |-> r.op, id |-> Nil,
                      key |-> r.key, val |-> r.val, sock |-> c]
             passed == [intl |-> TRUE, cmd |-> "none", op |-> r.op, id |-> g,
                        key |-> r.key, val |-> r.val, sock |-> Nil]
  <1>1. ClientMessage(c, r) = sent /\ Forwarded(c, r) = passed
    BY DEF ClientMessage, Forwarded
  <1>2. Onward(g, sent) = [sent EXCEPT !.intl = TRUE, !.cmd = "none", !.id = g, !.sock = Nil]
    BY DEF Onward
  <1>3. Onward(n, passed) =
        [passed EXCEPT !.intl = TRUE, !.cmd = "none", !.id = g, !.sock = Nil]
    BY DEF Onward
  <1>4. Onward(g, sent) = passed /\ Onward(n, passed) = passed
    BY <1>2, <1>3, Redirected
  <1> QED BY <1>1, <1>4

\* A request is forwarded: the message that goes out is the one of the client whose socket
\* the node of the call has saved.
LEMMA ForwardsFor ==
  ASSUME OwnGateways, ServiceInv, NEW n \in Node, Forward(n),
         NEW c, c = Whose(n, Head(inbox[n]))
  PROVE  /\ c \in Client /\ Gateway[c] \in Node
         /\ call[c] \in Request
         /\ clientSocket[Gateway[c]] \in {c, Nil}
         /\ clientSocket' = [clientSocket EXCEPT ![Gateway[c]] = c]
         /\ inbox' = SendTo(Accepted(n), nextId[n], Forwarded(c, call[c]))
  <1> DEFINE h == Head(inbox[n])
  <1>1. /\ DataTurn(n) /\ ~ (h.intl /\ h.cmd = "ack")
        /\ inbox' = SendTo(Accepted(n), nextId[n], Onward(n, h))
        /\ clientSocket' = IF h.intl THEN clientSocket ELSE [clientSocket EXCEPT ![n] = h.sock]
    BY DEF Forward
  <1>2. clientSocket \in [Node -> Client \cup {Nil}]
    BY DEF ServiceInv, TypeOK
  <1>3. CASE ~ h.intl
    <2>1. /\ c \in Client /\ n = Gateway[c] /\ clientSocket[n] = Nil /\ call[c] \in Request
          /\ h = ClientMessage(c, call[c])
      BY <1>1, <1>3, ServesClient
    <2>2. Onward(n, h) = Forwarded(c, call[c]) /\ h.sock = c
      <3>1. h = ClientMessage(c, call[c]) /\ n = Gateway[c]
        BY <2>1
      <3>2. h.sock = c
        BY <3>1, MessageFields
      <3>3. Onward(n, h) = Forwarded(c, call[c])
        BY <3>1, OnwardIs
      <3> QED BY <3>2, <3>3
    <2> QED BY <1>1, <1>3, <2>1, <2>2
  <1>4. CASE h.intl
    <2>1. /\ c \in Client /\ Gateway[c] \in Node /\ clientSocket[Gateway[c]] = c
          /\ call[c] \in Request
          /\ h = Forwarded(c, call[c])
      BY <1>1, <1>4, ServesPeer
    <2>2. Onward(n, h) = Forwarded(c, call[c])
      BY <2>1, OnwardIs
    <2>3. clientSocket' = clientSocket
      BY <1>1, <1>4
    <2>4. [clientSocket EXCEPT ![Gateway[c]] = c] = clientSocket
      BY <1>2, <2>1
    <2> QED BY <1>1, <2>1, <2>2, <2>3, <2>4
  <1> QED BY <1>3, <1>4

LEMMA ForwardService ==
  ASSUME OwnGateways, ServiceInv, NEW n \in Node, Forward(n)
  PROVE  ServiceInv'
  <1>1. DataTurn(n) /\ call' = call
    BY DEF Forward, clientVars
  <1>2. TypeOK'
    BY ForwardType DEF ServiceInv
  <1>3. PICK c \in Client :
          /\ c = Whose(n, Head(inbox[n])) /\ Gateway[c] \in Node
          /\ call[c] \in Request
          /\ clientSocket[Gateway[c]] \in {c, Nil}
          /\ clientSocket' = [clientSocket EXCEPT ![Gateway[c]] = c]
          /\ inbox' = SendTo(Accepted(n), nextId[n], Forwarded(c, call[c]))
    BY ForwardsFor
  <1>4. Settled' /\ inbox[n] # <<>>
    BY <1>1, ServiceTurn
  <1>5. clientSocket \in [Node -> Client \cup {Nil}] /\ nextId[n] \in Node
    BY DEF ServiceInv, TypeOK
  <1>6. \A p \in Node : clientSocket'[p] = IF p = Gateway[c] THEN c ELSE clientSocket[p]
    BY <1>3, <1>5
  <1>7. \A d \in Client \ {c} :
          call'[d] = call[d] /\ clientSocket'[Gateway[d]] = clientSocket[Gateway[d]]
    BY <1>1, <1>6, GatewayAssumption DEF OwnGateways
  <1>8. Forwarded(c, call[c]) \in Message
    BY <1>3 DEF Forwarded, Message, Request, Cmd, Op, NodeOrNil
  <1>9. call[c] # Nil
    BY <1>3, NoRequestAssumption
  <1>10. UnderWay(c, nextId[n], Forwarded(c, call[c]), call'[c], clientSocket'[Gateway[c]])
    BY <1>1, <1>3, <1>6, <1>9 DEF UnderWay
  <1>11. AllUnderWay' /\ OneEach(inbox')
    BY <1>3, <1>4, <1>5, <1>7, <1>8, <1>10, TurnUnderWay
  <1>12. SavedHere'
    BY <1>1, <1>3, <1>6, <1>9 DEF ServiceInv, SavedHere
  <1>13. CallsHere'
    BY <1>1 DEF ServiceInv, CallsHere, WellFormed
  <1> QED BY <1>2, <1>4, <1>11, <1>12, <1>13 DEF ServiceInv, OneEach

\* The acknowledgement of a request goes to the node of the call.
Ack(m, found) ==
  LET out == Outcome(m, found) IN
  [intl |-> TRUE, cmd |-> "ack", op |-> out.op, id |-> Nil,
   key |-> out.key, val |-> out.val, sock |-> Nil]

LEMMA ServesFor ==
  ASSUME ServiceInv, NEW n \in Node, ServePeer(n),
         NEW c, c = Whose(n, Head(inbox[n]))
  PROVE  /\ c \in Client /\ Gateway[c] \in Node
         /\ call[c] \in Request /\ WellFormed(call[c])
         /\ clientSocket[Gateway[c]] = c
         /\ Head(inbox[n]) = Forwarded(c, call[c])
         /\ ~ Pass(n, RingPredecessor(n), KeyHash[call[c].key])
         /\ table' = Applied(n, Forwarded(c, call[c]))
         /\ Ack(Forwarded(c, call[c]), table[n][call[c].key]) \in Message
         /\ inbox' = SendTo(Accepted(n), Gateway[c],
                            Ack(Forwarded(c, call[c]), table[n][call[c].key]))
         /\ UNCHANGED <<clientSocket, call, answer>>
  <1> DEFINE h == Head(inbox[n])
             r == call[c]
             found == table[n][r.key]
  <1>1. DataTurn(n) /\ h.intl /\ h.cmd # "ack"
    BY DEF ServePeer, Owned
  <1>2. /\ c \in Client /\ Gateway[c] \in Node /\ clientSocket[Gateway[c]] = c
        /\ r \in Request /\ WellFormed(r)
        /\ h = Forwarded(c, r)
    BY <1>1, ServesPeer
  <1>3. h \in Message
    BY <1>1, ServiceTurn
  <1>4. h.key = r.key /\ h.id = Gateway[c] /\ r.key \in Key /\ r.key # Nil
    BY <1>2, NilAssumption DEF Forwarded, Request
  <1>5. found \in Value \cup {Nil}
    BY <1>4 DEF ServiceInv, TypeOK
  <1>6. ~ Pass(n, RingPredecessor(n), KeyHash[r.key])
    BY <1>4 DEF ServePeer, Owned, Hash, ServiceInv, Settled
  <1>7. Ack(h, found) \in Message
    <2>1. /\ Outcome(h, found).op \in Op
          /\ Outcome(h, found).key \in Key \cup {Nil}
          /\ Outcome(h, found).val \in Value \cup {Nil}
      BY <1>3, <1>5, OutcomeType
    <2> QED BY <2>1 DEF Ack, Message, Cmd, NodeOrNil
  <1>8. inbox' = SendTo(Accepted(n), Gateway[c], Ack(h, found))
    BY <1>4 DEF ServePeer, Ack
  <1>9. table' = Applied(n, h) /\ UNCHANGED <<clientSocket, call, answer>>
    BY DEF ServePeer, Owned, clientVars
  <1> QED BY <1>2, <1>6, <1>7, <1>8, <1>9

LEMMA ServePeerService ==
  ASSUME OwnGateways, ServiceInv, NEW n \in Node, ServePeer(n)
  PROVE  ServiceInv'
  <1>1. DataTurn(n)
    BY DEF ServePeer, Owned
  <1>2. TypeOK'
    BY ServePeerType DEF ServiceInv
  <1> DEFINE ack(c) == Ack(Forwarded(c, call[c]), table[n][call[c].key])
  <1>3. PICK c \in Client :
          /\ c = Whose(n, Head(inbox[n])) /\ Gateway[c] \in Node
          /\ call[c] \in Request /\ clientSocket[Gateway[c]] = c
          /\ ack(c) \in Message
          /\ inbox' = SendTo(Accepted(n), Gateway[c], ack(c))
          /\ UNCHANGED <<clientSocket, call, answer>>
    BY ServesFor
  <1>4. Settled' /\ inbox[n] # <<>>
    BY <1>1, ServiceTurn
  <1>5. call[c] # Nil
    BY <1>3, NoRequestAssumption
  <1>6. UnderWay(c, Gateway[c], ack(c), call'[c], clientSocket'[Gateway[c]])
    BY <1>3, <1>5 DEF UnderWay, Ack
  <1> HIDE DEF ack
  <1>7. AllUnderWay' /\ OneEach(inbox')
    BY <1>3, <1>4, <1>6, TurnUnderWay
  <1>8. SavedHere'
    BY <1>3 DEF ServiceInv, SavedHere
  <1>9. CallsHere'
    BY <1>3 DEF ServiceInv, CallsHere, WellFormed
  <1> QED BY <1>2, <1>4, <1>7, <1>8, <1>9 DEF ServiceInv, OneEach

\* A client's own request at the node that owns its key.
LEMMA AnswersFor ==
  ASSUME OwnGateways, ServiceInv, NEW n \in Node, ServeClient(n),
         NEW c, c = Whose(n, Head(inbox[n]))
  PROVE  LET out == Outcome(ClientMessage(c, call[c]), table[n][call[c].key]) IN
         /\ c \in Client /\ n = Gateway[c]
         /\ call[c] \in Request /\ WellFormed(call[c])
         /\ ~ Pass(n, RingPredecessor(n), KeyHash[call[c].key])
         /\ table' = Applied(n, ClientMessage(c, call[c]))
         /\ inbox' = Accepted(n)
         /\ clientSocket' = [clientSocket EXCEPT ![n] = Nil]
         /\ call' = [d \in Client |-> IF d = c THEN Nil ELSE call[d]]
         /\ answer' = [d \in Client |->
                         IF d = c
                         THEN [get |-> out.op = "get", key |-> call[c].key, val |-> out.val]
                         ELSE answer[d]]
  <1> DEFINE h == Head(inbox[n])
             r == call[c]
             out == Outcome(h, table[n][h.key])
  <1>1. DataTurn(n) /\ ~ h.intl
    BY DEF ServeClient, Owned
  <1>2. /\ c \in Client /\ n = Gateway[c] /\ clientSocket[n] = Nil
        /\ r \in Request /\ WellFormed(r)
        /\ h = ClientMessage(c, r)
    BY <1>1, ServesClient
  <1>3. h.key = r.key /\ h.sock = c /\ r.key \in Key /\ r.key # Nil
    <2>1. r.key \in Key
      BY <1>2 DEF Request
    <2>2. r.key # Nil
      BY <2>1, NilAssumption
    <2>3. h = ClientMessage(c, r)
      BY <1>2
    <2>4. h.key = r.key
      BY <2>3, MessageFields
    <2>5. h.sock = c
      BY <2>3, MessageFields
    <2> QED BY <2>1, <2>2, <2>4, <2>5
  <1>4. ~ Pass(n, RingPredecessor(n), KeyHash[r.key])
    BY <1>3 DEF ServeClient, Owned, Hash, ServiceInv, Settled
  <1>5. /\ inbox' = Accepted(n)
        /\ clientSocket' = [clientSocket EXCEPT ![n] = Nil]
        /\ table' = Applied(n, h)
    BY DEF ServeClient, Owned
  <1>6. call' = [d \in Client |-> IF d = c THEN Nil ELSE call[d]]
    BY <1>2, <1>3 DEF ServeClient
  <1>7. answer' = [d \in Client |->
                     IF d = c THEN [get |-> out.op = "get", key |-> h.key, val |-> out.val]
                     ELSE answer[d]]
    <2> DEFINE reply == [get |-> out.op = "get", key |-> h.key, val |-> out.val]
               to == IF clientSocket[n] # Nil THEN clientSocket[n] ELSE h.sock
    <2>1. answer' = [d \in Client |-> IF d = to THEN reply
                                      ELSE IF d = h.sock THEN NotFound
                                      ELSE answer[d]]
      BY DEF ServeClient
    <2>2. to = c
      BY <1>2, <1>3
    <2> HIDE DEF reply, to
    <2>3. answer' = [d \in Client |-> IF d = c THEN reply ELSE answer[d]]
      BY <1>3, <2>1, <2>2
    <2> QED BY <2>3 DEF reply
  <1> QED BY <1>2, <1>3, <1>4, <1>5, <1>6, <1>7

LEMMA ServeClientService ==
  ASSUME OwnGateways, ServiceInv, NEW n \in Node, ServeClient(n)
  PROVE  ServiceInv'
  <1>1. DataTurn(n)
    BY DEF ServeClient, Owned
  <1>2. TypeOK'
    BY ServeClientType DEF ServiceInv
  <1>3. PICK c \in Client :
          /\ c = Whose(n, Head(inbox[n])) /\ n = Gateway[c]
          /\ inbox' = Accepted(n)
          /\ clientSocket' = [clientSocket EXCEPT ![n] = Nil]
          /\ call' = [d \in Client |-> IF d = c THEN Nil ELSE call[d]]
    BY AnswersFor
  <1> QED BY <1>1, <1>2, <1>3, Answered

\* A client that calls has nothing under way, and its node has saved no socket.
LEMMA CallService ==
  ASSUME OwnGateways, ServiceInv, NEW c \in Client, NEW r \in Request,
         r.node = Gateway[c], WellFormed(r), Call(c, r)
  PROVE  ServiceInv'
  <1> DEFINE g == Gateway[c]
             x == ClientMessage(c, r)
  <1>1. /\ call[c] = Nil /\ call' = [call EXCEPT ![c] = r]
        /\ inbox' = [inbox EXCEPT ![g] = Append(@, x)]
        /\ UNCHANGED <<status, nextId, prevId, firstSet, clientSocket>>
    BY DEF Call, ringVars
  <1>2. TypeOK'
    BY CallType DEF ServiceInv
  <1>3. Settled'
    BY <1>1 DEF ServiceInv, Settled, RingSuccessor, RingPredecessor
  <1>4. g \in Node /\ x \in Message /\ r # Nil
    BY GatewayAssumption, ClientMessageType, NoRequestAssumption
  <1>5. inbox \in [Node -> Seq(Message)] /\ OneEach(inbox)
    BY DEF ServiceInv, TypeOK
  <1>6. \A d \in Client : call'[d] = IF d = c THEN r ELSE call[d]
    BY <1>1 DEF ServiceInv, TypeOK
  <1>7. clientSocket[g] = Nil
    <2> SUFFICES ASSUME clientSocket[g] # Nil
                 PROVE  FALSE
      OBVIOUS
    <2>1. /\ clientSocket[g] \in Client /\ call[clientSocket[g]] # Nil
          /\ Gateway[clientSocket[g]] = g
      BY <1>4 DEF ServiceInv, TypeOK, SavedHere
    <2> QED BY <1>1, <2>1 DEF OwnGateways
  <1>8. OthersUnderWay(inbox, c, call', clientSocket')
    <2> SUFFICES ASSUME NEW p \in Node, NEW i \in DOMAIN inbox[p],
                        NEW m, m = inbox[p][i], NEW d, d = Whose(p, m)
                 PROVE  /\ d \in Client /\ d # c
                        /\ UnderWay(d, p, m, call'[d], clientSocket'[Gateway[d]])
      BY DEF OthersUnderWay
    <2>1. d \in Client /\ UnderWay(d, p, m, call[d], clientSocket[Gateway[d]])
      BY DEF ServiceInv, AllUnderWay
    <2>2. call[d] # Nil
      BY <2>1 DEF UnderWay
    <2> QED BY <1>1, <1>6, <2>1, <2>2
  <1>9. UnderWay(c, g, x, call'[c], clientSocket'[g])
    BY <1>1, <1>4, <1>6, <1>7 DEF UnderWay
  <1>10. Joins(inbox', inbox, g, x)
    <2> SUFFICES ASSUME NEW p \in Node, NEW i \in DOMAIN inbox'[p]
                 PROVE  \/ i \in DOMAIN inbox[p] /\ inbox'[p][i] = inbox[p][i]
                        \/ p = g /\ i = Len(inbox[g]) + 1 /\ inbox'[p][i] = x
      BY DEF Joins
    <2> HIDE DEF g, x
    <2>1. CASE p = g
      <3>1. inbox'[p] = Append(inbox[g], x) /\ inbox[g] \in Seq(Message)
        BY <1>1, <1>4, <1>5, <2>1
      <3> QED BY <2>1, <3>1
    <2>2. CASE p # g
      BY <1>1, <1>5, <2>2
    <2> QED BY <2>1, <2>2
  <1>11. AllUnderWay' /\ OneEach(inbox')
    BY <1>4, <1>5, <1>8, <1>9, <1>10, Joined
  <1>12. SavedHere'
    BY <1>1, <1>4, <1>6 DEF ServiceInv, SavedHere
  <1>13. CallsHere'
    <2> SUFFICES ASSUME NEW d \in Client, call'[d] # Nil
                 PROVE  WellFormed(call'[d]) /\ call'[d].node = Gateway[d]
      BY DEF CallsHere, WellFormed
    <2> QED BY <1>6 DEF ServiceInv, CallsHere
  <1> QED BY <1>2, <1>3, <1>11, <1>12, <1>13 DEF ServiceInv, OneEach

LEMMA ServiceStep ==
  ASSUME OwnGateways, ServiceInv, [ServiceNext]_vars
  PROVE  ServiceInv'
  <1>1. ASSUME NEW n \in Node, Turn(n)
        PROVE  ServiceInv'
    <2>1. Relay(n) \/ Forward(n) \/ ServePeer(n) \/ ServeClient(n)
      BY <1>1, ServiceTurns DEF ServiceInv
    <2> QED BY <2>1, RelayService, ForwardService, ServePeerService, ServeClientService
  <1>2. CASE GatewayCalls
    BY <1>2, CallService DEF GatewayCalls
  <1>3. CASE UNCHANGED vars
    <2>1. /\ UNCHANGED <<status, nextId, prevId, tick, firstSet>>
          /\ UNCHANGED <<clientSocket, inbox, table, call, answer>>
      BY <1>3 DEF vars
    <2>2. TypeOK'
      BY <1>3, TypeStep DEF ServiceInv
    <2>3. Settled'
      BY <2>1 DEF ServiceInv, Settled, RingSuccessor, RingPredecessor
    <2>4. AllUnderWay' /\ OneEach(inbox')
      BY <2>1 DEF ServiceInv, AllUnderWay
    <2>5. SavedHere' /\ CallsHere'
      BY <2>1 DEF ServiceInv, SavedHere, CallsHere, WellFormed
    <2> QED BY <2>2, <2>3, <2>4, <2>5 DEF ServiceInv
  <1> QED BY <1>1, <1>2, <1>3 DEF ServiceNext

LEMMA ServiceStart ==
  ASSUME ServiceInit
  PROVE  ServiceInv
  <1>1. /\ status = [n \in Node |-> "up"] /\ tick = [n \in Node |-> 0]
        /\ nextId = [n \in Node |-> RingSuccessor(n)]
        /\ prevId = [n \in Node |-> RingPredecessor(n)]
        /\ firstSet = [n \in Node |-> TRUE] /\ clientSocket = [n \in Node |-> Nil]
        /\ inbox = [n \in Node |-> <<>>] /\ table = [n \in Node |-> [k \in Key |-> Nil]]
        /\ call = [c \in Client |-> Nil] /\ answer = [c \in Client |-> NotFound]
    BY DEF ServiceInit
  <1>2. TypeOK
    <2>1. nextId \in [Node -> Node] /\ prevId \in [Node -> NodeOrNil]
      BY <1>1, Neighbours DEF NodeOrNil
    <2>2. answer \in [Client -> Answer] /\ inbox \in [Node -> Seq(Message)]
      BY <1>1 DEF NotFound, Answer
    <2> QED BY <1>1, <2>1, <2>2 DEF TypeOK
  <1>3. Settled
    BY <1>1 DEF Settled
  <1>4. AllUnderWay /\ OneEach(inbox)
    BY <1>1 DEF AllUnderWay, OneEach
  <1>5. SavedHere /\ CallsHere
    BY <1>1 DEF SavedHere, CallsHere
  <1> QED BY <1>2, <1>3, <1>4, <1>5 DEF ServiceInv

LEMMA ServiceInvariant == OwnGateways => (ServiceSpec => []ServiceInv)
  <1> SUFFICES ASSUME OwnGateways
               PROVE  ServiceSpec => []ServiceInv
    OBVIOUS
  <1> QED BY ServiceStart, ServiceStep, PTL DEF ServiceSpec

----------------------------------------------------------------------------
(****************************************************************************)
(* What the clients can rely on.                                            *)
(****************************************************************************)

\* An acknowledgement in the queue of a node is for the client that waits there.
LEMMA AckIsFor ==
  ASSUME ServiceInv, NEW n \in Node, NEW i \in Acks(n)
  PROVE  LET c == Whose(n, inbox[n][i]) IN
         /\ c = ClientAt(n) /\ c \in Client /\ Gateway[c] = n
         /\ clientSocket[n] = c /\ call[c] # Nil
  <1> DEFINE m == inbox[n][i]
             c == Whose(n, m)
  <1>1. i \in DOMAIN inbox[n] /\ m.cmd = "ack"
    BY DEF Acks
  <1>2. m \in Message
    <2>1. inbox[n] \in Seq(Message)
      BY DEF ServiceInv, TypeOK
    <2> QED BY <1>1, <2>1
  <1>3. m.intl
    BY <1>1, <1>2 DEF Message
  <1>4. c \in Client /\ UnderWay(c, n, m, call[c], clientSocket[Gateway[c]])
    BY <1>1 DEF ServiceInv, AllUnderWay
  <1>5. m # ClientMessage(c, call[c]) /\ m # Forwarded(c, call[c])
    BY <1>1 DEF ClientMessage, Forwarded
  <1>6. c = ClientAt(n)
    BY <1>1, <1>3 DEF Whose
  <1> QED BY <1>4, <1>5, <1>6 DEF UnderWay

\* For any number of clients with nodes of their own: an acknowledgement finds the client
\* it is for, and is the only one.
THEOREM AcksArriveOnce == OwnGateways => (ServiceSpec => []OneAckPerClient)
  <1> SUFFICES ASSUME OwnGateways
               PROVE  ServiceSpec => []OneAckPerClient
    OBVIOUS
  <1>1. ServiceInv => OneAckPerClient
    <2> SUFFICES ASSUME ServiceInv, NEW n \in Node
                 PROVE  /\ Cardinality(Acks(n)) <= 1
                        /\ Acks(n) # {} => clientSocket[n] # Nil
      BY DEF OneAckPerClient
    <2>1. CASE Acks(n) = {}
      BY <2>1, FS_EmptySet
    <2>2. ASSUME NEW i \in Acks(n)
          PROVE  /\ Cardinality(Acks(n)) <= 1
                 /\ clientSocket[n] # Nil
      <3>1. \A j \in Acks(n) : Whose(n, inbox[n][j]) = ClientAt(n) /\ j \in DOMAIN inbox[n]
        BY AckIsFor DEF Acks
      <3>2. \A j \in Acks(n) : j = i
        BY <3>1 DEF ServiceInv, OneEach
      <3>3. Cardinality(Acks(n)) = 1
        <4>1. Acks(n) = {i}
          BY <3>2
        <4> QED BY <4>1, FS_Singleton
      <3>4. clientSocket[n] \in Client
        BY AckIsFor
      <3> QED BY <3>3, <3>4, NilAssumption
    <2> QED BY <2>1, <2>2
  <1> QED BY <1>1, ServiceInvariant, PTL

\* In a settled ring a key is at one node at most, whichever nodes the clients use.
THEOREM KeysStoredOnce == ServiceSpec => []StoredOnce
  <1> DEFINE Inv == TypeOK /\ Settled /\ StoredAtOwner
  <1>1. ServiceInit => Inv
    BY ServiceStart DEF ServiceInit, StoredAtOwner, ServiceInv
  <1>2. Inv /\ [ServiceNext]_vars => Inv'
    <2> SUFFICES ASSUME Inv, [ServiceNext]_vars
                 PROVE  Inv'
      OBVIOUS
    <2>1. [Next]_vars
      BY DEF ServiceNext, GatewayCalls, Next, Calls
    <2>2. TypeOK' /\ StoredAtOwner'
      BY <2>1, TypeStep, StoredStep
    <2>3. Settled'
      <3>1. ASSUME NEW n \in Node, Turn(n)
            PROVE  DataTurn(n)
        BY <3>1, ServiceTurns DEF Relay, Forward, ServePeer, ServeClient, Owned
      <3>2. CASE \E n \in Node : Turn(n)
        BY <3>1, <3>2, StaysSettled
      <3>3. CASE UNCHANGED <<status, nextId, prevId, firstSet>>
        BY <3>3 DEF Settled, RingSuccessor, RingPredecessor
      <3> QED BY <3>2, <3>3 DEF ServiceNext, GatewayCalls, Call, ringVars, vars
    <2> QED BY <2>2, <2>3
  <1>3. Inv => StoredOnce
    <2> SUFFICES ASSUME Inv, NEW n \in Node, NEW m \in Node, NEW k \in Key,
                        table[n][k] # Nil, table[m][k] # Nil
                 PROVE  n = m
      BY DEF StoredOnce
    <2>1. ~ Pass(n, prevId[n], KeyHash[k]) /\ ~ Pass(m, prevId[m], KeyHash[k])
      BY DEF StoredAtOwner
    <2>2. prevId[n] = RingPredecessor(n) /\ prevId[m] = RingPredecessor(m)
      BY DEF Settled
    <2>3. KeyHash[k] \in 0 .. HashSpace - 1
      BY KeyAssumption
    <2> QED BY <2>1, <2>2, <2>3, OneKeeper
  <1> HIDE DEF Inv
  <1> QED BY <1>1, <1>2, <1>3, PTL DEF ServiceSpec

----------------------------------------------------------------------------
(****************************************************************************)
(* The acknowledgements in a queue, and what the store sees of them.        *)
(****************************************************************************)

AcksIn(queue) == {queue[i] : i \in {j \in DOMAIN queue : queue[j].cmd = "ack"}}

\* Every node's queue holds one acknowledgement at most.
LEMMA OneAckEach ==
  ASSUME NEW queues \in [Node -> Seq(Message)], OneEach(queues), NEW n \in Node,
         NEW i \in DOMAIN queues[n], NEW j \in DOMAIN queues[n],
         queues[n][i].cmd = "ack", queues[n][j].cmd = "ack"
  PROVE  i = j
  <1>1. queues[n][i] \in Message /\ queues[n][j] \in Message
    <2>1. queues[n] \in Seq(Message)
      OBVIOUS
    <2> QED BY <2>1
  <1>2. queues[n][i].intl /\ queues[n][j].intl
    BY <1>1 DEF Message
  <1>3. Whose(n, queues[n][i]) = Whose(n, queues[n][j])
    BY <1>2 DEF Whose
  <1> QED BY <1>3 DEF OneEach

\* The reply for a client that waits for request r, when these are the messages at its node.
ReplyIn(r, queue) ==
  IF r # Nil /\ AcksIn(queue) # {}
  THEN RelayedReply(CHOOSE m \in AcksIn(queue) : TRUE)
  ELSE Nil

AckedAt(queue) == {i \in DOMAIN queue : queue[i].cmd = "ack"}
TheAck(queue) == queue[CHOOSE i \in AckedAt(queue) : TRUE]

LEMMA ThatAck ==
  ASSUME NEW queues \in [Node -> Seq(Message)], OneEach(queues), NEW n \in Node
  PROVE  /\ AckedAt(queues[n]) = {} => AcksIn(queues[n]) = {}
         /\ AckedAt(queues[n]) # {} => AcksIn(queues[n]) = {TheAck(queues[n])}
  <1>1. AckedAt(queues[n]) = {} => AcksIn(queues[n]) = {}
    BY DEF AcksIn, AckedAt
  <1>2. ASSUME NEW i \in AckedAt(queues[n])
        PROVE  AcksIn(queues[n]) = {TheAck(queues[n])}
    <2>1. AckedAt(queues[n]) = {i}
      BY <1>2, OneAckEach DEF AckedAt
    <2>2. AcksIn(queues[n]) = {queues[n][i]}
      BY <2>1 DEF AcksIn, AckedAt
    <2> QED BY <2>1, <2>2 DEF TheAck
  <1> QED BY <1>1, <1>2

LEMMA OutstandingIs ==
  ASSUME inbox \in [Node -> Seq(Message)], OneEach(inbox), NEW d \in Client
  PROVE  Outstanding(d) = ReplyIn(call[d], inbox[Gateway[d]])
  <1>1. PICK n \in Node : n = Gateway[d]
    BY GatewayAssumption
  <1>2. /\ AckedAt(inbox[n]) = {} => AcksIn(inbox[n]) = {}
        /\ AckedAt(inbox[n]) # {} => AcksIn(inbox[n]) = {TheAck(inbox[n])}
    BY ThatAck
  <1>3. Outstanding(d) = IF call[d] # Nil /\ AckedAt(inbox[n]) # {}
                          THEN RelayedReply(TheAck(inbox[n])) ELSE Nil
    BY <1>1 DEF Outstanding, Acks, AckedAt, TheAck
  <1> QED BY <1>1, <1>2, <1>3 DEF ReplyIn

LEMMA OutstandingNext ==
  ASSUME inbox' \in [Node -> Seq(Message)], OneEach(inbox'), NEW d \in Client
  PROVE  Outstanding(d)' = ReplyIn(call'[d], inbox'[Gateway[d]])
  <1>1. PICK n \in Node : n = Gateway[d]
    BY GatewayAssumption
  <1>2. /\ AckedAt(inbox'[n]) = {} => AcksIn(inbox'[n]) = {}
        /\ AckedAt(inbox'[n]) # {} => AcksIn(inbox'[n]) = {TheAck(inbox'[n])}
    BY ThatAck
  <1>3. Outstanding(d)' = IF call'[d] # Nil /\ AckedAt(inbox'[n]) # {}
                          THEN RelayedReply(TheAck(inbox'[n])) ELSE Nil
    BY <1>1 DEF Outstanding, Acks, AckedAt, TheAck
  <1> QED BY <1>1, <1>2, <1>3 DEF ReplyIn

\* Taking and sending messages changes these sets by the acknowledgements among them.
LEMMA AcksLeft ==
  ASSUME NEW queue \in Seq(Message), queue # <<>>, Head(queue).cmd # "ack"
  PROVE  AcksIn(Tail(queue)) = AcksIn(queue)
  <1>1. /\ \A i \in DOMAIN Tail(queue) : Tail(queue)[i] = queue[i + 1] /\ i + 1 \in DOMAIN queue
        /\ \A j \in DOMAIN queue : j = 1 \/ (j - 1 \in DOMAIN Tail(queue) /\ j = (j - 1) + 1)
        /\ Head(queue) = queue[1]
    OBVIOUS
  <1>2. AcksIn(Tail(queue)) \subseteq AcksIn(queue)
    BY <1>1 DEF AcksIn
  <1>3. AcksIn(queue) \subseteq AcksIn(Tail(queue))
    <2> SUFFICES ASSUME NEW j \in DOMAIN queue, queue[j].cmd = "ack"
                 PROVE  \E i \in DOMAIN Tail(queue) : Tail(queue)[i] = queue[j]
      BY DEF AcksIn
    <2>1. j - 1 \in DOMAIN Tail(queue) /\ j = (j - 1) + 1
      BY <1>1
    <2>2. Tail(queue)[j - 1] = queue[(j - 1) + 1]
      BY <1>1, <2>1
    <2> QED BY <2>1, <2>2
  <1> QED BY <1>2, <1>3

LEMMA AcksAdded ==
  ASSUME NEW queue \in Seq(Message), NEW x \in Message
  PROVE  AcksIn(Append(queue, x)) =
           AcksIn(queue) \cup (IF x.cmd = "ack" THEN {x} ELSE {})
  <1> DEFINE longer == Append(queue, x)
             last == Len(queue) + 1
  <1>1. /\ DOMAIN longer = DOMAIN queue \cup {last} /\ longer[last] = x
        /\ \A i \in DOMAIN queue : longer[i] = queue[i]
    OBVIOUS
  <1> HIDE DEF longer, last
  <1>2. AcksIn(longer) = AcksIn(queue) \cup (IF x.cmd = "ack" THEN {x} ELSE {})
    BY <1>1 DEF AcksIn
  <1> QED BY <1>2 DEF longer

\* What stays in a queue belongs to other clients than the message just taken, each to
\* its own: there is room for one more.
LEMMA RoomLeft ==
  ASSUME ServiceInv, RoomForAll, NEW n \in Node, inbox[n] # <<>>, NEW k \in Node
  PROVE  Len(Accepted(n)[k]) <= Backlog
  <1> DEFINE q == Accepted(n)[k]
             S == 1 .. Len(q)
             c == Whose(n, Head(inbox[n]))
             others == Client \ {c}
             f == [i \in S |-> Whose(k, q[i])]
  <1>1. /\ Accepted(n) \in [Node -> Seq(Message)] /\ OneEach(Accepted(n))
        /\ c \in Client /\ OthersUnderWay(Accepted(n), c, call, clientSocket)
    BY Remaining
  <1>2. q \in Seq(Message) /\ DOMAIN q = S /\ Len(q) \in Nat
    BY <1>1
  <1>3. f \in [S -> others]
    BY <1>1, <1>2 DEF OthersUnderWay
  <1>4. \A i, j \in S : f[i] = f[j] => i = j
    BY <1>1, <1>2 DEF OneEach
  <1>5. f \in Injection(S, others)
    BY <1>3, <1>4 DEF Injection, IsInjective
  <1>6. IsFiniteSet(Client) /\ Cardinality(Client) <= Backlog + 1 /\ Cardinality(Client) \in Nat
    BY FS_CardinalityType DEF RoomForAll
  <1>7. IsFiniteSet(others) /\ Cardinality(others) = Cardinality(Client) - 1
    BY <1>1, <1>6, FS_RemoveElement
  <1> HIDE DEF f, others
  <1>8. Cardinality(S) <= Cardinality(others)
    BY <1>5, <1>7, FS_Injection
  <1>9. Cardinality(S) = Len(q)
    <2>1. \A z \in Nat : Cardinality(1 .. z) = z
      BY FS_Interval
    <2> QED BY <1>2, <2>1
  <1> QED BY <1>2, <1>6, <1>7, <1>8, <1>9, BacklogAssumption

\* As long as its request is on its way, no acknowledgement for the client is.
LEMMA NoAckYet ==
  ASSUME ServiceInv, NEW n \in Node, inbox[n] # <<>>, Head(inbox[n]).cmd # "ack",
         NEW c \in Client, c = Whose(n, Head(inbox[n]))
  PROVE  AcksIn(inbox[Gateway[c]]) = {} /\ Outstanding(c) = Nil
  <1>1. PICK g \in Node : g = Gateway[c]
    BY GatewayAssumption
  <1>2. inbox \in [Node -> Seq(Message)] /\ OneEach(inbox)
    BY DEF ServiceInv, TypeOK
  <1>3. 1 \in DOMAIN inbox[n] /\ Head(inbox[n]) = inbox[n][1]
    <2>1. inbox[n] \in Seq(Message)
      BY <1>2
    <2> QED BY <2>1
  <1>4. ASSUME NEW i \in Acks(g)
        PROVE  FALSE
    <2>1. /\ Whose(g, inbox[g][i]) \in Client /\ Gateway[Whose(g, inbox[g][i])] = g
          /\ clientSocket[g] = Whose(g, inbox[g][i])
      BY <1>4, AckIsFor
    <2>2. UnderWay(c, n, inbox[n][1], call[c], clientSocket[g])
      BY <1>1, <1>3 DEF ServiceInv, AllUnderWay
    <2>3. clientSocket[g] = c
      <3>1. Nil \notin Client
        BY NilAssumption
      <3> QED BY <1>3, <2>1, <2>2, <3>1 DEF UnderWay, ClientMessage
    <2>4. i \in DOMAIN inbox[g] /\ inbox[g][i].cmd = "ack"
      BY <1>4 DEF Acks
    <2>5. Whose(g, inbox[g][i]) = Whose(n, inbox[n][1])
      BY <1>3, <2>1, <2>3
    <2>6. g = n /\ i = 1
      BY <1>2, <1>3, <2>4, <2>5 DEF OneEach
    <2> QED BY <1>3, <2>4, <2>6
  <1>5. AcksIn(inbox[g]) = {}
    BY <1>4 DEF AcksIn, Acks
  <1>6. Outstanding(c) = Nil
    BY <1>1, <1>2, <1>5, OutstandingIs DEF ReplyIn
  <1> QED BY <1>1, <1>5, <1>6

----------------------------------------------------------------------------
(****************************************************************************)
(* The ring is one store.                                                   *)
(****************************************************************************)

\* The state of the store: what is kept, what has taken effect, what was returned.
Kept == [k \in Key |-> table[Owner(KeyHash[k])][k]]
Done == [c \in Client |-> Seen(Outstanding(c))]
Told == [c \in Client |-> Seen(answer[c])]

\* A client whose call and whose acknowledgement stay sees nothing of a step.
LEMMA SeesNothing ==
  ASSUME ServiceInv, ServiceInv', NEW d \in Client,
         call'[d] = call[d], AcksIn(inbox'[Gateway[d]]) = AcksIn(inbox[Gateway[d]])
  PROVE  Done'[d] = Done[d]
  <1>1. Outstanding(d) = ReplyIn(call[d], inbox[Gateway[d]])
    BY OutstandingIs DEF ServiceInv, TypeOK
  <1>2. Outstanding(d)' = ReplyIn(call'[d], inbox'[Gateway[d]])
    <2>1. inbox' \in [Node -> Seq(Message)] /\ OneEach(inbox')
      BY DEF ServiceInv, TypeOK, OneEach
    <2> QED BY <2>1, OutstandingNext
  <1>3. Outstanding(d)' = Outstanding(d)
    BY <1>1, <1>2 DEF ReplyIn
  <1> QED BY <1>3 DEF Done, Seen

\* The owner of a key carries a request out: the store changes as the request says.
LEMMA AppliedIsEffect ==
  ASSUME SoundRing, TypeOK, NEW n \in Node, NEW r \in Request, NEW m,
         m.op = r.op, m.key = r.key, m.val = r.val,
         ~ Pass(n, RingPredecessor(n), KeyHash[r.key]), table' = Applied(n, m)
  PROVE  /\ Kept' = CASE r.op = "set" -> [Kept EXCEPT ![r.key] = r.val]
                      [] r.op = "del" -> [Kept EXCEPT ![r.key] = Nil]
                      [] r.op = "get" -> Kept
         /\ Kept[r.key] = table[n][r.key]
  <1>1. r.key \in Key /\ r.op \in {"set", "get", "del"}
    BY DEF Request, Op
  <1>2. \A k \in Key : Owner(KeyHash[k]) \in Node
    BY OwnerKeeps, KeyAssumption
  <1>3. n = Owner(KeyHash[r.key])
    BY <1>1, OwnerKeeps, KeyAssumption
  <1>4. table \in [Node -> [Key -> Value \cup {Nil}]]
    BY DEF TypeOK
  <1>5. ASSUME NEW v, table' = [table EXCEPT ![n][r.key] = v]
        PROVE  Kept' = [Kept EXCEPT ![r.key] = v]
    <2>1. \A p \in Node, k \in Key :
            table'[p][k] = IF p = n /\ k = r.key THEN v ELSE table[p][k]
      BY <1>4, <1>5
    <2>2. \A k \in Key : Kept'[k] = IF k = r.key THEN v ELSE Kept[k]
      BY <1>2, <1>3, <2>1 DEF Kept
    <2> QED BY <1>1, <2>2 DEF Kept
  <1>6. r.op = "set" => Kept' = [Kept EXCEPT ![r.key] = r.val]
    <2> SUFFICES ASSUME r.op = "set"
                 PROVE  table' = [table EXCEPT ![n][r.key] = r.val]
      BY <1>5
    <2> QED BY DEF Applied
  <1>7. r.op = "del" => Kept' = [Kept EXCEPT ![r.key] = Nil]
    <2> SUFFICES ASSUME r.op = "del"
                 PROVE  table' = [table EXCEPT ![n][r.key] = Nil]
      BY <1>5
    <2> QED BY DEF Applied
  <1>8. r.op = "get" => Kept' = Kept
    <2> SUFFICES ASSUME r.op = "get"
                 PROVE  table' = table
      BY DEF Kept
    <2> QED BY DEF Applied
  <1>9. Kept[r.key] = table[n][r.key]
    BY <1>1, <1>3 DEF Kept
  <1> QED BY <1>1, <1>6, <1>7, <1>8, <1>9

\* What a client sees of the reply, from its own node or through the ring.
LEMMA OutcomeIsResult ==
  ASSUME EmptyValue \notin Value, NEW r \in Request, NEW m,
         m.op = r.op, m.key = r.key, NEW found \in Value \cup {Nil},
         NEW result,
         result = IF r.op = "get" /\ found # Nil
                  THEN [get |-> TRUE, key |-> r.key, val |-> found] ELSE NotFound
  PROVE  LET out == Outcome(m, found) IN
         /\ Seen([get |-> out.op = "get", key |-> r.key, val |-> out.val]) = result
         /\ Seen(RelayedReply(Ack(m, found))) = result
  <1> DEFINE out == Outcome(m, found)
             direct == [get |-> out.op = "get", key |-> r.key, val |-> out.val]
             relayed == RelayedReply(Ack(m, found))
  <1>1. r.op \in {"set", "get", "del"} /\ r.key \in Key
    BY DEF Request, Op
  <1>2. relayed = [get |-> out.val \notin {Nil, EmptyValue}, key |-> out.key, val |-> out.val]
    BY DEF RelayedReply, Ack
  <1>3. CASE r.op = "get" /\ found # Nil
    <2>1. out = [op |-> "get", key |-> r.key, val |-> found]
      BY <1>3 DEF Outcome
    <2>2. (out.op = "get") = TRUE /\ out.key = r.key /\ out.val = found
      BY <2>1
    <2>3. direct = [get |-> TRUE, key |-> r.key, val |-> found]
      BY <2>2
    <2>4. (found \notin {Nil, EmptyValue}) = TRUE
      BY <1>3
    <2>5. relayed = [get |-> TRUE, key |-> r.key, val |-> found]
      BY <1>2, <2>2, <2>4
    <2>6. direct.get /\ relayed.get
      BY <2>3, <2>5
    <2> HIDE DEF out, direct, relayed
    <2>7. Seen(direct) = direct /\ Seen(relayed) = relayed
      BY <2>6 DEF Seen
    <2> QED BY <1>3, <2>3, <2>5, <2>7 DEF out, direct, relayed
  <1>4. CASE ~ (r.op = "get" /\ found # Nil)
    <2>1. out.op # "get" /\ out.val = Nil /\ out.key = Nil
      BY <1>1, <1>4 DEF Outcome
    <2>2. direct = [get |-> FALSE, key |-> r.key, val |-> Nil]
      BY <2>1
    <2>3. relayed = [get |-> FALSE, key |-> Nil, val |-> Nil]
      BY <1>2, <2>1
    <2>4. direct \in Answer /\ relayed \in Answer
      BY <1>1, <2>2, <2>3 DEF Answer
    <2>5. direct # Nil /\ relayed # Nil
      BY <2>4, NoAnswerAssumption
    <2>6. ~ direct.get /\ ~ relayed.get
      BY <2>2, <2>3
    <2> HIDE DEF out, direct, relayed
    <2>7. Seen(direct) = NotFound /\ Seen(relayed) = NotFound
      BY <2>5, <2>6 DEF Seen
    <2> QED BY <1>4, <2>7 DEF out, direct, relayed
  <1> QED BY <1>3, <1>4

\* The acknowledgements in the queues after a request was taken, and after a message was sent.
LEMMA AcksAccepted ==
  ASSUME ServiceInv, NEW n \in Node, inbox[n] # <<>>, Head(inbox[n]).cmd # "ack",
         NEW p \in Node
  PROVE  AcksIn(Accepted(n)[p]) = AcksIn(inbox[p])
  <1>1. inbox \in [Node -> Seq(Message)] /\ inbox[n] \in Seq(Message)
    BY DEF ServiceInv, TypeOK
  <1>2. CASE p = n
    BY <1>1, <1>2, AcksLeft DEF Accepted
  <1>3. CASE p # n
    BY <1>1, <1>3 DEF Accepted
  <1> QED BY <1>2, <1>3

LEMMA AcksSent ==
  ASSUME NEW queues \in [Node -> Seq(Message)], NEW k \in Node, NEW x \in Message,
         NEW p \in Node
  PROVE  AcksIn(SendTo(queues, k, x)[p]) =
           IF p = k /\ x.cmd = "ack" /\ status[k] = "up" /\ Len(queues[k]) <= Backlog
           THEN AcksIn(queues[k]) \cup {x} ELSE AcksIn(queues[p])
  <1>1. CASE status[k] = "up" /\ Len(queues[k]) <= Backlog
    <2>1. SendTo(queues, k, x)[p] = IF p = k THEN Append(queues[k], x) ELSE queues[p]
      BY <1>1 DEF SendTo
    <2>2. AcksIn(Append(queues[k], x)) =
            AcksIn(queues[k]) \cup (IF x.cmd = "ack" THEN {x} ELSE {})
      BY AcksAdded
    <2> QED BY <1>1, <2>1, <2>2
  <1>2. CASE ~ (status[k] = "up" /\ Len(queues[k]) <= Backlog)
    BY <1>2 DEF SendTo
  <1> QED BY <1>1, <1>2

\* A client that is not under way any more is not answered any more.
LEMMA NothingOutstanding ==
  ASSUME NEW c \in Client, call'[c] = Nil
  PROVE  Done'[c] = Nil
  BY DEF Done, Seen, Outstanding

LEMMA RelayReturns ==
  ASSUME OwnGateways, ServiceInv, ServiceInv', NEW n \in Node, Relay(n),
         NEW c \in Client, c = Whose(n, Head(inbox[n]))
  PROVE  Store!Return(c)
  <1> DEFINE h == Head(inbox[n])
  <1>1. /\ n = Gateway[c] /\ call[c] # Nil
        /\ inbox' = Accepted(n) /\ table' = table
        /\ call' = [d \in Client |-> IF d = c THEN Nil ELSE call[d]]
        /\ answer' = [d \in Client |-> IF d = c THEN RelayedReply(h) ELSE answer[d]]
    BY RelayAnswers
  <1>2. h.cmd = "ack" /\ inbox[n] # <<>>
    BY DEF Relay, DataTurn, Accepting
  <1>3. inbox \in [Node -> Seq(Message)] /\ OneEach(inbox) /\ inbox[n] \in Seq(Message)
    BY DEF ServiceInv, TypeOK
  <1>4. h \in Message /\ h = inbox[n][1] /\ 1 \in DOMAIN inbox[n]
    BY <1>2, <1>3
  <1>5. AcksIn(inbox[n]) = {h}
    <2>1. h \in AcksIn(inbox[n]) /\ AckedAt(inbox[n]) # {}
      BY <1>2, <1>4 DEF AcksIn, AckedAt
    <2>2. AcksIn(inbox[n]) = {TheAck(inbox[n])}
      BY <1>3, <2>1, ThatAck
    <2> QED BY <2>1, <2>2
  <1>6. Outstanding(c) = RelayedReply(h)
    <2>1. Outstanding(c) = ReplyIn(call[c], inbox[n])
      BY <1>1, <1>3, OutstandingIs
    <2> QED BY <1>1, <1>5, <2>1 DEF ReplyIn
  <1>7. Done[c] = Seen(RelayedReply(h)) /\ Done[c] # Nil
    <2>1. RelayedReply(h) \in Answer
      BY <1>4 DEF RelayedReply, Answer, Message
    <2>2. NotFound \in Answer
      BY DEF NotFound, Answer
    <2>3. Seen(RelayedReply(h)) # Nil
      BY <2>1, <2>2, NoAnswerAssumption DEF Seen
    <2> QED BY <1>6, <2>3 DEF Done
  <1> HIDE DEF h
  <1>8. \A d \in Client : Done'[d] = IF d = c THEN Nil ELSE Done[d]
    <2>1. call'[c] = Nil
      BY <1>1
    <2>2. ASSUME NEW d \in Client, d # c
          PROVE  Done'[d] = Done[d]
      <3>1. Gateway[d] # n /\ Gateway[d] \in Node
        BY <1>1, <2>2, GatewayAssumption DEF OwnGateways
      <3>2. inbox'[Gateway[d]] = inbox[Gateway[d]] /\ call'[d] = call[d]
        BY <1>1, <1>3, <2>2, <3>1 DEF Accepted
      <3> QED BY <3>2, SeesNothing
    <2> QED BY <2>1, <2>2, NothingOutstanding
  <1>9. Done' = [Done EXCEPT ![c] = Nil]
    BY <1>8 DEF Done
  <1>10. Told' = [Told EXCEPT ![c] = Done[c]]
    <2>1. \A d \in Client : Told'[d] = IF d = c THEN Done[c] ELSE Told[d]
      BY <1>1, <1>7 DEF Told
    <2> QED BY <2>1 DEF Told
  <1>11. call' = [call EXCEPT ![c] = Nil]
    BY <1>1 DEF ServiceInv, TypeOK
  <1>12. Kept' = Kept
    BY <1>1 DEF Kept
  <1> QED BY <1>7, <1>9, <1>10, <1>11, <1>12 DEF Store!Return, Done, Told, Kept

LEMMA ForwardStutters ==
  ASSUME OwnGateways, ServiceInv, ServiceInv', NEW n \in Node, Forward(n)
  PROVE  UNCHANGED Store!storeVars
  <1>1. DataTurn(n) /\ UNCHANGED <<table, call, answer>>
    BY DEF Forward, clientVars
  <1>2. PICK c \in Client :
          /\ call[c] \in Request
          /\ inbox' = SendTo(Accepted(n), nextId[n], Forwarded(c, call[c]))
    BY ForwardsFor
  <1>3. inbox[n] # <<>> /\ Head(inbox[n]) \in Message /\ Accepted(n) \in [Node -> Seq(Message)]
    BY <1>1, ServiceTurn
  <1>4. Head(inbox[n]).cmd # "ack"
    BY <1>3 DEF Forward, Message
  <1>5. Forwarded(c, call[c]) \in Message /\ Forwarded(c, call[c]).cmd # "ack"
    BY <1>2, GatewayAssumption DEF Forwarded, Message, Request, Cmd, Op, NodeOrNil
  <1>6. nextId[n] \in Node
    BY DEF ServiceInv, TypeOK
  <1>7. \A p \in Node : AcksIn(inbox'[p]) = AcksIn(inbox[p])
    BY <1>2, <1>3, <1>4, <1>5, <1>6, AcksSent, AcksAccepted
  <1>8. \A d \in Client : Done'[d] = Done[d]
    BY <1>1, <1>7, SeesNothing, GatewayAssumption
  <1>9. Done' = Done
    BY <1>8 DEF Done
  <1>10. Kept' = Kept /\ Told' = Told
    BY <1>1 DEF Kept, Told
  <1> QED BY <1>1, <1>9, <1>10 DEF Store!storeVars, Done, Told, Kept

\* What the store makes of request r at its owner n.
LEMMA StoreEffect ==
  ASSUME SoundRing, EmptyValue \notin Value, TypeOK, NEW n \in Node, NEW r \in Request,
         NEW m, m.op = r.op, m.key = r.key, m.val = r.val,
         ~ Pass(n, RingPredecessor(n), KeyHash[r.key]), table' = Applied(n, m)
  PROVE  LET out == Outcome(m, table[n][r.key]) IN
         /\ Kept' = Store!Effect(r)
         /\ Seen([get |-> out.op = "get", key |-> r.key, val |-> out.val]) = Store!Result(r)
         /\ Seen(RelayedReply(Ack(m, table[n][r.key]))) = Store!Result(r)
         /\ Store!Result(r) # Nil
  <1> DEFINE found == table[n][r.key]
             result == IF r.op = "get" /\ found # Nil
                       THEN [get |-> TRUE, key |-> r.key, val |-> found] ELSE NotFound
  <1>1. r.key \in Key
    BY DEF Request
  <1>2. found \in Value \cup {Nil}
    BY <1>1 DEF TypeOK
  <1>3. /\ Kept' = CASE r.op = "set" -> [Kept EXCEPT ![r.key] = r.val]
                     [] r.op = "del" -> [Kept EXCEPT ![r.key] = Nil]
                     [] r.op = "get" -> Kept
        /\ Kept[r.key] = found
    BY AppliedIsEffect
  <1>4. Kept' = Store!Effect(r)
    BY <1>3 DEF Store!Effect, Kept
  <1>5. Store!Result(r) = result
    BY <1>3 DEF Store!Result, Store!NoElement, NotFound, Kept
  <1>6. result # Nil
    <2>1. result \in Answer
      BY <1>1, <1>2 DEF Answer, NotFound
    <2> QED BY <2>1, NoAnswerAssumption
  <1> HIDE DEF found, result
  <1>7. LET out == Outcome(m, found) IN
        /\ Seen([get |-> out.op = "get", key |-> r.key, val |-> out.val]) = result
        /\ Seen(RelayedReply(Ack(m, found))) = result
    BY <1>2, OutcomeIsResult DEF result
  <1> QED BY <1>4, <1>5, <1>6, <1>7 DEF found

LEMMA ServePeerExecutes ==
  ASSUME OwnGateways, SoundRing, RoomForAll, EmptyValue \notin Value,
         ServiceInv, ServiceInv', NEW n \in Node, ServePeer(n),
         NEW c \in Client, c = Whose(n, Head(inbox[n]))
  PROVE  Store!Execute(c)
  <1> DEFINE r == call[c]
             h == Forwarded(c, r)
             ack == Ack(h, table[n][r.key])
  <1>1. PICK g \in Node : g = Gateway[c]
    BY GatewayAssumption
  <1>2. /\ r \in Request /\ Head(inbox[n]) = h
        /\ ~ Pass(n, RingPredecessor(n), KeyHash[r.key])
        /\ table' = Applied(n, h) /\ ack \in Message
        /\ inbox' = SendTo(Accepted(n), g, ack)
        /\ UNCHANGED <<call, answer>>
    BY <1>1, ServesFor
  <1>3. DataTurn(n)
    BY DEF ServePeer, Owned
  <1>4. inbox[n] # <<>> /\ Accepted(n) \in [Node -> Seq(Message)]
    BY <1>3, ServiceTurn
  <1>5. h.op = r.op /\ h.key = r.key /\ h.val = r.val /\ h.cmd # "ack"
    BY DEF Forwarded
  <1>6. /\ Kept' = Store!Effect(r)
        /\ Seen(RelayedReply(ack)) = Store!Result(r) /\ Store!Result(r) # Nil
    <2> HIDE DEF h, r
    <2>1. TypeOK
      BY DEF ServiceInv
    <2> QED BY <1>2, <1>5, <2>1, StoreEffect
  <1>7. r # Nil /\ ack.cmd = "ack"
    BY <1>2, NoRequestAssumption DEF Ack
  <1> HIDE DEF r, h, ack
  <1>8. AcksIn(inbox[g]) = {} /\ Outstanding(c) = Nil
    BY <1>1, <1>2, <1>4, <1>5, NoAckYet
  <1>9. status[g] = "up" /\ Len(Accepted(n)[g]) <= Backlog
    BY <1>4, RoomLeft DEF ServiceInv, Settled
  <1>10. \A p \in Node : AcksIn(inbox'[p]) =
           IF p = g THEN AcksIn(inbox[g]) \cup {ack} ELSE AcksIn(inbox[p])
    <2>1. \A p \in Node : AcksIn(inbox'[p]) =
            IF p = g THEN AcksIn(Accepted(n)[g]) \cup {ack} ELSE AcksIn(Accepted(n)[p])
      BY <1>2, <1>4, <1>7, <1>9, AcksSent
    <2>2. \A p \in Node : AcksIn(Accepted(n)[p]) = AcksIn(inbox[p])
      BY <1>2, <1>4, <1>5, AcksAccepted
    <2> QED BY <2>1, <2>2
  <1>11. Done'[c] = Store!Result(r)
    <2>1. inbox' \in [Node -> Seq(Message)] /\ OneEach(inbox')
      BY DEF ServiceInv, TypeOK, OneEach
    <2>2. Outstanding(c)' = ReplyIn(call'[c], inbox'[g])
      BY <1>1, <2>1, OutstandingNext
    <2>3. AcksIn(inbox'[g]) = {ack}
      BY <1>8, <1>10
    <2>4. Outstanding(c)' = RelayedReply(ack)
      BY <1>2, <1>7, <2>2, <2>3 DEF ReplyIn, r
    <2> QED BY <1>6, <2>4 DEF Done, Seen
  <1>12. ASSUME NEW d \in Client, d # c
         PROVE  Done'[d] = Done[d]
    <2>1. Gateway[d] # g /\ Gateway[d] \in Node
      BY <1>1, <1>12, GatewayAssumption DEF OwnGateways
    <2>2. AcksIn(inbox'[Gateway[d]]) = AcksIn(inbox[Gateway[d]]) /\ call'[d] = call[d]
      BY <1>2, <1>10, <2>1
    <2> QED BY <2>2, SeesNothing
  <1>13. Done' = [Done EXCEPT ![c] = Store!Result(r)] /\ Done[c] = Nil
    <2>1. \A d \in Client : Done'[d] = IF d = c THEN Store!Result(r) ELSE Done[d]
      BY <1>11, <1>12
    <2>2. Done[c] = Nil
      BY <1>8 DEF Done, Seen
    <2>3. DOMAIN Done = Client /\ DOMAIN Done' = Client
      BY DEF Done
    <2> QED BY <2>1, <2>2, <2>3 DEF Done
  <1>14. Told' = Told
    BY <1>2 DEF Told
  <1> QED BY <1>2, <1>6, <1>7, <1>13, <1>14 DEF Store!Execute, Done, Told, Kept, r

LEMMA ServeClientServes ==
  ASSUME OwnGateways, SoundRing, EmptyValue \notin Value,
         ServiceInv, ServiceInv', NEW n \in Node, ServeClient(n),
         NEW c \in Client, c = Whose(n, Head(inbox[n]))
  PROVE  Store!Serve(c)
  <1> DEFINE r == call[c]
             h == ClientMessage(c, r)
             out == Outcome(h, table[n][r.key])
             reply == [get |-> out.op = "get", key |-> r.key, val |-> out.val]
  <1>1. /\ n = Gateway[c] /\ r \in Request
        /\ ~ Pass(n, RingPredecessor(n), KeyHash[r.key])
        /\ table' = Applied(n, h)
        /\ inbox' = Accepted(n)
        /\ call' = [d \in Client |-> IF d = c THEN Nil ELSE call[d]]
        /\ answer' = [d \in Client |-> IF d = c THEN reply ELSE answer[d]]
    BY AnswersFor
  <1>2. DataTurn(n) /\ ~ Head(inbox[n]).intl
    BY DEF ServeClient, Owned
  <1>3. inbox[n] # <<>> /\ Head(inbox[n]) = h
    BY <1>2, ServiceTurn, ServesClient
  <1>4. h.op = r.op /\ h.key = r.key /\ h.val = r.val /\ h.cmd # "ack"
    BY DEF ClientMessage
  <1>5. Kept' = Store!Effect(r) /\ Seen(reply) = Store!Result(r)
    <2> HIDE DEF h, r
    <2>1. TypeOK
      BY DEF ServiceInv
    <2> QED BY <1>1, <1>4, <2>1, StoreEffect
  <1>6. r # Nil
    BY <1>1, NoRequestAssumption
  <1> HIDE DEF r, h, reply
  <1>7. Outstanding(c) = Nil
    BY <1>3, <1>4, NoAckYet
  <1>8. \A p \in Node : AcksIn(inbox'[p]) = AcksIn(inbox[p])
    BY <1>1, <1>3, <1>4, AcksAccepted
  <1>9. Done[c] = Nil /\ Done'[c] = Nil
    BY <1>1, <1>7, NothingOutstanding DEF Done, Seen
  <1>10. ASSUME NEW d \in Client, d # c
         PROVE  Done'[d] = Done[d]
    <2>1. call'[d] = call[d] /\ AcksIn(inbox'[Gateway[d]]) = AcksIn(inbox[Gateway[d]])
      BY <1>1, <1>8, <1>10, GatewayAssumption
    <2> QED BY <2>1, SeesNothing
  <1>11. Done' = Done
    <2>1. \A d \in Client : Done'[d] = Done[d]
      BY <1>9, <1>10
    <2> QED BY <2>1 DEF Done
  <1>12. Told' = [Told EXCEPT ![c] = Store!Result(r)]
    <2>1. \A d \in Client : Told'[d] = IF d = c THEN Store!Result(r) ELSE Told[d]
      BY <1>1, <1>5 DEF Told
    <2>2. DOMAIN Told = Client /\ DOMAIN Told' = Client
      BY DEF Told
    <2> QED BY <2>1, <2>2 DEF Told
  <1>13. call' = [call EXCEPT ![c] = Nil]
    BY <1>1 DEF ServiceInv, TypeOK
  <1> QED BY <1>5, <1>6, <1>9, <1>11, <1>12, <1>13 DEF Store!Serve, Done, Told, Kept, r

LEMMA CallInvokes ==
  ASSUME OwnGateways, ServiceInv, ServiceInv', NEW c \in Client, NEW r \in Request,
         r.node = Gateway[c], Call(c, r)
  PROVE  Store!Invoke(c, r)
  <1> DEFINE x == ClientMessage(c, r)
  <1>1. PICK g \in Node : g = Gateway[c]
    BY GatewayAssumption
  <1>2. /\ call[c] = Nil /\ call' = [call EXCEPT ![c] = r]
        /\ inbox' = [inbox EXCEPT ![g] = Append(@, x)]
        /\ UNCHANGED <<table, answer>>
    BY <1>1 DEF Call
  <1>3. x \in Message /\ x.cmd # "ack"
    BY ClientMessageType DEF ClientMessage
  <1> HIDE DEF x
  <1>4. inbox \in [Node -> Seq(Message)] /\ OneEach(inbox)
    BY DEF ServiceInv, TypeOK
  <1>5. \A p \in Node : AcksIn(inbox'[p]) = AcksIn(inbox[p])
    <2> SUFFICES ASSUME NEW p \in Node
                 PROVE  AcksIn(inbox'[p]) = AcksIn(inbox[p])
      OBVIOUS
    <2>1. AcksIn(Append(inbox[g], x)) = AcksIn(inbox[g])
      BY <1>3, <1>4, AcksAdded
    <2>2. inbox'[p] = IF p = g THEN Append(inbox[g], x) ELSE inbox[p]
      BY <1>2, <1>4
    <2> QED BY <2>1, <2>2
  <1>6. AcksIn(inbox[g]) = {}
    <2>1. ASSUME NEW i \in Acks(g)
          PROVE  FALSE
      <3>1. LET d == Whose(g, inbox[g][i]) IN d \in Client /\ Gateway[d] = g /\ call[d] # Nil
        BY <2>1, AckIsFor
      <3> QED BY <1>1, <1>2, <3>1 DEF OwnGateways
    <2> QED BY <2>1 DEF AcksIn, Acks
  <1>7. Done[c] = Nil /\ Done'[c] = Nil
    <2>1. Outstanding(c) = Nil
      BY <1>1, <1>4, <1>6, OutstandingIs DEF ReplyIn
    <2>2. inbox' \in [Node -> Seq(Message)] /\ OneEach(inbox')
      BY DEF ServiceInv, TypeOK, OneEach
    <2>3. Outstanding(c)' = Nil
      BY <1>1, <1>5, <1>6, <2>2, OutstandingNext DEF ReplyIn
    <2> QED BY <2>1, <2>3 DEF Done, Seen
  <1>8. ASSUME NEW d \in Client, d # c
        PROVE  Done'[d] = Done[d]
    <2>1. call'[d] = call[d]
      BY <1>2, <1>8 DEF ServiceInv, TypeOK
    <2>2. AcksIn(inbox'[Gateway[d]]) = AcksIn(inbox[Gateway[d]])
      BY <1>5, GatewayAssumption
    <2> QED BY <2>1, <2>2, SeesNothing
  <1>9. Done' = Done
    <2>1. \A d \in Client : Done'[d] = Done[d]
      BY <1>7, <1>8
    <2> QED BY <2>1 DEF Done
  <1>10. Kept' = Kept /\ Told' = Told
    BY <1>2 DEF Kept, Told
  <1> QED BY <1>2, <1>9, <1>10 DEF Store!Invoke, Done, Told, Kept

LEMMA ServiceStoreInit ==
  ASSUME SoundRing, ServiceInit
  PROVE  Store!StoreInit
  <1>1. /\ table = [n \in Node |-> [k \in Key |-> Nil]]
        /\ call = [c \in Client |-> Nil] /\ answer = [c \in Client |-> NotFound]
    BY DEF ServiceInit
  <1>2. Kept = [k \in Key |-> Nil]
    BY <1>1, OwnerKeeps, KeyAssumption DEF Kept
  <1>3. Done = [c \in Client |-> Nil]
    BY <1>1 DEF Done, Outstanding, Seen
  <1>4. Told = [c \in Client |-> Store!NoElement]
    <2>1. ~ NotFound.get
      BY DEF NotFound
    <2>2. Seen(NotFound) = NotFound
      BY <2>1 DEF Seen
    <2>3. \A c \in Client : Told[c] = NotFound
      BY <1>1, <2>2 DEF Told
    <2> QED BY <2>3 DEF Told, NotFound, Store!NoElement
  <1> QED BY <1>1, <1>2, <1>3, <1>4 DEF Store!StoreInit, Kept, Done, Told

LEMMA ServiceStoreStep ==
  ASSUME OwnGateways, SoundRing, RoomForAll, EmptyValue \notin Value,
         ServiceInv, ServiceInv', [ServiceNext]_vars
  PROVE  [Store!StoreNext]_(Store!storeVars)
  <1>1. ASSUME NEW n \in Node, Turn(n)
        PROVE  [Store!StoreNext]_(Store!storeVars)
    <2>1. Relay(n) \/ Forward(n) \/ ServePeer(n) \/ ServeClient(n)
      BY <1>1, ServiceTurns DEF ServiceInv
    <2>2. DataTurn(n)
      BY <2>1 DEF Relay, Forward, ServePeer, ServeClient, Owned
    <2>3. PICK c \in Client : c = Whose(n, Head(inbox[n]))
      BY <2>2, ServiceTurn
    <2>4. CASE Relay(n)
      BY <2>3, <2>4, RelayReturns DEF Store!StoreNext, Store!Progress
    <2>5. CASE Forward(n)
      BY <2>5, ForwardStutters
    <2>6. CASE ServePeer(n)
      BY <2>3, <2>6, ServePeerExecutes DEF Store!StoreNext, Store!Progress
    <2>7. CASE ServeClient(n)
      BY <2>3, <2>7, ServeClientServes DEF Store!StoreNext, Store!Progress
    <2> QED BY <2>1, <2>4, <2>5, <2>6, <2>7
  <1>2. CASE GatewayCalls
    BY <1>2, CallInvokes DEF GatewayCalls, Store!StoreNext
  <1>3. CASE UNCHANGED vars
    <2>1. UNCHANGED <<inbox, table, call, answer>>
      BY <1>3 DEF vars
    <2> QED BY <2>1 DEF Store!storeVars, Seen, Outstanding, Acks
  <1> QED BY <1>1, <1>2, <1>3 DEF ServiceNext

\* For any ring, any keys, any hash and any number of clients that have a node each: every
\* call gets the outcome that one store would give it, from whichever node, and every
\* request takes effect exactly once.  The node identifiers, the length of values and the
\* room in the queues are limited as stated at the top.
THEOREM RingIsStore ==
  OwnGateways /\ SoundRing /\ RoomForAll /\ EmptyValue \notin Value
    => (ServiceSpec => ImplementsStore)
  <1> SUFFICES ASSUME OwnGateways, SoundRing, RoomForAll, EmptyValue \notin Value
               PROVE  ServiceSpec => ImplementsStore
    OBVIOUS
  <1>1. ServiceInit => Store!StoreInit
    BY ServiceStoreInit
  <1>2. ServiceInv /\ ServiceInv' /\ [ServiceNext]_vars => [Store!StoreNext]_(Store!storeVars)
    BY ServiceStoreStep
  <1> QED BY <1>1, <1>2, ServiceInvariant, PTL DEF ServiceSpec, ImplementsStore, Store!StoreSafety

================================================================================
