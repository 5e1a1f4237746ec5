----------------------------- MODULE DhtRingProofs -----------------------------
(****************************************************************************)
(* How a ring of any number of nodes forms, whatever their SELF_IDs, their  *)
(* contacts and their order, if each is launched when those before it have  *)
(* settled, and what that means to its first clients.                       *)
(****************************************************************************)
EXTENDS DhtClients, DhtTimed, DhtProofs, NumberProofs

----------------------------------------------------------------------------
(****************************************************************************)
(* The inductive invariant.                                                 *)
(****************************************************************************)

\* b is the first node of S that one meets clockwise from a, and a itself only
\* after a full turn.
After(S, a, b) == b \in S /\ \A c \in S : Distance(a, b) <= Distance(a, c)

\* The pointers of the nodes S make one ring of them.
Linked(S) ==
  \A n \in S : /\ After(S, n, nextId[n])
               /\ prevId[n] \in S /\ After(S, prevId[n], n)

\* A node as main() enters its loop: nobody knows it.
Unlinked(n) ==
  /\ nextId[n] = Contact[n]
  /\ prevId[n] = IF Contact[n] = n THEN n ELSE Nil
  /\ tick[n] = 1
  /\ inbox[n] = <<>>

\* There is one JOIN under way at most.
JoinOnce(queues) ==
  \A p, q \in Node : \A i \in DOMAIN queues[p], j \in DOMAIN queues[q] :
    queues[p][i].cmd = "join" /\ queues[q][j].cmd = "join" => p = q /\ i = j

NoJoin(queues) ==
  \A p \in Node : \A i \in DOMAIN queues[p] : queues[p][i].cmd # "join"

Upkeep(m) == m.intl /\ m.op = "none" /\ m.cmd \in {"join", "noti", "stbz"}

\* No node has died or been asked for a key, and what is not launched is as it was.
Calm ==
  \A n \in Node :
    /\ status[n] \in {"off", "up"}
    /\ ~firstSet[n]
    /\ status[n] = "off" => Unlinked(n)
    /\ \A i \in DOMAIN inbox[n] : Upkeep(inbox[n][i])

Founded(S) == \E f \in S : Contact[f] = f

\* What a message at n says of the ring of the nodes S is true.
InPlace(S, n, m) ==
  \/ m.cmd = "stbz" /\ m.id \in S /\ After(S, m.id, n)
  \/ m.cmd = "noti" /\ (m.id = n \/ After(S, n, m.id))

\* k is the last node that was launched, and no other has heard of it but through
\* its JOIN, which may be under way.
Waiting(k) ==
  LET R == Up \ {k} IN
  /\ k \in Up
  /\ Unlinked(k)
  /\ R # {} => Founded(R)
  /\ Linked(R)
  /\ \A n \in R : \A i \in DOMAIN inbox[n] :
       LET m == inbox[n][i] IN
       \/ InPlace(R, n, m)
       \/ m.cmd = "join" /\ m.id = k /\ Contact[k] \in R
  /\ JoinOnce(inbox)

\* Once k has been accepted, any node but k may take b for the next of a for two
\* reasons: it is, or it was before k came.  k itself may take anyone.
Candidate(k, a, b) ==
  /\ a \in Up
  /\ IF a = k THEN b \in Up \ {k} ELSE After(Up, a, b) \/ After(Up \ {k}, a, b)

\* What a message at node q may say once k has been accepted.
Plausible(k, q, m) ==
  \/ m.cmd = "stbz" /\ Candidate(k, m.id, q)
  \/ m.cmd = "noti" /\ (m.id = q \/ Candidate(k, q, m.id))

\* The last node that was launched has a place on the ring: its successor knows it.
Joined(k) ==
  /\ k \in Up
  /\ Founded(Up)
  /\ NoJoin(inbox)
  /\ \A n \in Up :
       /\ Candidate(k, n, nextId[n])
       /\ \/ n = k /\ prevId[n] = Nil
          \/ prevId[n] \in Up /\ After(Up, prevId[n], n)
       /\ \A i \in DOMAIN inbox[n] : Plausible(k, n, inbox[n][i])

RingInv == Calm /\ (Up = {} \/ \E k \in Up : Waiting(k) \/ Joined(k))

----------------------------------------------------------------------------
(****************************************************************************)
(* Who comes after whom.                                                    *)
(****************************************************************************)

LEMMA OnRing ==
  ASSUME NEW n \in Node
  PROVE  n \in Int /\ 0 <= n /\ n < HashSpace /\ HashSpace \in Nat \ {0}
  BY HashSpaceAssumption, NodeAssumption

LEMMA DistanceType ==
  ASSUME NEW a \in Node, NEW b \in Node
  PROVE  Distance(a, b) \in Nat
  BY OnRing DEF Distance

\* Of any nodes there is one that comes next after a node, and only one.
LEMMA AfterExists ==
  ASSUME NEW S \in SUBSET Node, S # {}, NEW a \in Node
  PROVE  \E b \in S : After(S, a, b)
  <1> DEFINE T == {Distance(a, c) : c \in S}
  <1>1. T \subseteq Nat /\ T # {}
    BY DistanceType
  <1>2. PICK x \in T : \A y \in T : x <= y
    BY <1>1, LeastNumber
  <1> QED BY <1>2 DEF After

LEMMA AfterUnique ==
  ASSUME NEW S \in SUBSET Node, NEW a \in Node, NEW b, NEW c, After(S, a, b), After(S, a, c)
  PROVE  b = c
  <1>1. b \in Node /\ c \in Node /\ Distance(a, b) <= Distance(a, c) /\ Distance(a, c) <= Distance(a, b)
    BY DEF After
  <1> QED BY <1>1, OnRing DEF Distance

\* Every one of them comes next after one of them, and after only one.
LEMMA BeforeExists ==
  ASSUME NEW S \in SUBSET Node, NEW b \in S
  PROVE  \E a \in S : After(S, a, b)
  <1> DEFINE T == {Distance(c, b) : c \in S}
  <1>1. T \subseteq Nat /\ T # {}
    BY DistanceType
  <1>2. PICK x \in T : \A y \in T : x <= y
    BY <1>1, LeastNumber
  <1>3. PICK a \in S : x = Distance(a, b)
    BY <1>2
  <1>4. ASSUME NEW c \in S
        PROVE  Distance(a, b) <= Distance(a, c)
    <2>1. Distance(a, b) <= Distance(c, b)
      BY <1>2, <1>3
    <2> QED BY <2>1, OnRing DEF Distance
  <1> QED BY <1>4 DEF After

LEMMA BeforeUnique ==
  ASSUME NEW S \in SUBSET Node, NEW b, NEW p \in S, NEW q \in S, After(S, p, b), After(S, q, b)
  PROVE  p = q
  <1>1. b \in Node /\ Distance(p, b) <= Distance(p, q) /\ Distance(q, b) <= Distance(q, p)
    BY DEF After
  <1> QED BY <1>1, OnRing DEF Distance

\* A newcomer k between p and n, which were neighbours, is the next after p, and n is
\* the next after k.
LEMMA Between ==
  ASSUME NEW S \in SUBSET Node, NEW k \in S, NEW p \in S \ {k}, NEW n \in S \ {k},
         After(S \ {k}, p, n), Distance(p, k) <= Distance(p, n)
  PROVE  After(S, p, k) /\ After(S, k, n)
  <1>1. ASSUME NEW c \in S
        PROVE  Distance(p, k) <= Distance(p, c) /\ Distance(k, n) <= Distance(k, c)
    <2>1. CASE c = k
      BY <2>1, OnRing DEF Distance
    <2>2. CASE c # k
      <3>1. Distance(p, n) <= Distance(p, c)
        BY <2>2 DEF After
      <3> QED BY <2>2, <3>1, OnRing DEF Distance
    <2> QED BY <2>1, <2>2
  <1> QED BY <1>1 DEF After

\* The other neighbours stay what they are.
LEMMA Elsewhere ==
  ASSUME NEW S \in SUBSET Node, NEW k \in S, NEW p \in S \ {k}, NEW n \in S \ {k},
         After(S \ {k}, p, n), Distance(p, k) <= Distance(p, n),
         NEW q \in S \ {k}, NEW m \in S \ {k, n}, After(S \ {k}, q, m)
  PROVE  After(S, q, m)
  <1>1. Distance(q, m) <= Distance(q, k)
    <2>1. Distance(q, m) <= Distance(q, n) /\ Distance(q, m) <= Distance(q, p)
      BY DEF After
    <2>2. Distance(p, n) <= Distance(p, q) /\ Distance(p, n) <= Distance(p, m)
      BY DEF After
    <2> QED BY <2>1, <2>2, OnRing DEF Distance
  <1>2. ASSUME NEW c \in S
        PROVE  Distance(q, m) <= Distance(q, c)
    BY <1>1 DEF After
  <1> QED BY <1>2 DEF After

\* Seen from afterwards: who came before n before k did is before n still, or k has
\* come in between.
LEMMA Displaced ==
  ASSUME NEW S \in SUBSET Node, NEW k \in S, NEW a \in S \ {k}, NEW n \in S \ {k},
         After(S \ {k}, a, n), NEW q \in S, After(S, q, n)
  PROVE  q = a \/ (q = k /\ After(S, a, k))
  <1>1. CASE q = k
    <2>1. Distance(a, k) <= Distance(a, n)
      <3>1. Distance(k, n) <= Distance(k, a)
        BY <1>1 DEF After
      <3> QED BY <3>1, OnRing DEF Distance
    <2> QED BY <1>1, <2>1, Between
  <1>2. CASE q # k
    <2>1. After(S \ {k}, q, n)
      BY <1>2 DEF After
    <2> QED BY <1>2, <2>1, BeforeUnique
  <1> QED BY <1>1, <1>2

----------------------------------------------------------------------------
(****************************************************************************)
(* What is in the queues after a message is taken off one or put into one.  *)
(****************************************************************************)

LEMMA HeadIs ==
  ASSUME TypeOK, NEW n \in Node, inbox[n] # <<>>
  PROVE  1 \in DOMAIN inbox[n] /\ Head(inbox[n]) = inbox[n][1]
  <1>1. inbox[n] \in Seq(Message)
    BY DEF TypeOK
  <1> QED BY <1>1

LEMMA AcceptedIs ==
  ASSUME TypeOK, NEW n \in Node, inbox[n] # <<>>,
         NEW p \in Node, NEW i \in DOMAIN Accepted(n)[p]
  PROVE  \/ p = n /\ i + 1 \in DOMAIN inbox[p] /\ i + 1 # 1 /\ Accepted(n)[p][i] = inbox[p][i + 1]
         \/ p # n /\ i \in DOMAIN inbox[p] /\ Accepted(n)[p][i] = inbox[p][i]
  <1>1. inbox \in [Node -> Seq(Message)]
    BY DEF TypeOK
  <1>2. CASE p = n
    <2>1. Accepted(n)[p] = Tail(inbox[p]) /\ inbox[p] \in Seq(Message) /\ inbox[p] # <<>>
      BY <1>1, <1>2 DEF Accepted
    <2>2. i \in Nat /\ i + 1 \in DOMAIN inbox[p] /\ i + 1 # 1 /\ Tail(inbox[p])[i] = inbox[p][i + 1]
      BY <2>1
    <2> QED BY <1>2, <2>1, <2>2
  <1>3. CASE p # n
    <2>1. Accepted(n)[p] = inbox[p]
      BY <1>1, <1>3 DEF Accepted
    <2> QED BY <1>3, <2>1
  <1> QED BY <1>2, <1>3

LEMMA SentIs ==
  ASSUME NEW queues \in [Node -> Seq(Message)], NEW t, NEW m \in Message,
         NEW p \in Node, NEW i \in DOMAIN SendTo(queues, t, m)[p]
  PROVE  \/ i \in DOMAIN queues[p] /\ SendTo(queues, t, m)[p][i] = queues[p][i]
         \/ p = t /\ status[p] = "up" /\ i = Len(queues[p]) + 1 /\ SendTo(queues, t, m)[p][i] = m
  <1>1. CASE SendTo(queues, t, m)[p] = queues[p]
    BY <1>1
  <1>2. CASE SendTo(queues, t, m)[p] # queues[p]
    <2>1. p = t /\ status[t] = "up" /\ SendTo(queues, t, m)[p] = Append(queues[p], m)
      BY <1>2 DEF SendTo
    <2> QED BY <2>1
  <1> QED BY <1>1, <1>2

\* Whoever is not written to or has not started keeps its queue.
LEMMA UnsentIs ==
  ASSUME NEW queues \in [Node -> Seq(Message)], NEW t, NEW m, NEW p \in Node,
         p # t \/ status[p] # "up"
  PROVE  SendTo(queues, t, m)[p] = queues[p]
  BY DEF SendTo

\* Joins in the queues: there stays one at most, and none when it has been accepted.
LEMMA AcceptedJoins ==
  ASSUME TypeOK, NEW n \in Node, inbox[n] # <<>>
  PROVE  /\ NoJoin(inbox) => NoJoin(Accepted(n))
         /\ JoinOnce(inbox) => JoinOnce(Accepted(n))
         /\ JoinOnce(inbox) /\ Head(inbox[n]).cmd = "join" => NoJoin(Accepted(n))
  <1>1. NoJoin(inbox) => NoJoin(Accepted(n))
    BY AcceptedIs DEF NoJoin
  <1>2. ASSUME JoinOnce(inbox)
        PROVE  JoinOnce(Accepted(n))
    <2> SUFFICES ASSUME NEW p \in Node, NEW q \in Node,
                        NEW i \in DOMAIN Accepted(n)[p], NEW j \in DOMAIN Accepted(n)[q],
                        Accepted(n)[p][i].cmd = "join", Accepted(n)[q][j].cmd = "join"
                 PROVE  p = q /\ i = j
      BY DEF JoinOnce
    <2>1. i \in Nat /\ j \in Nat
      <3>1. Accepted(n)[p] \in Seq(Message) /\ Accepted(n)[q] \in Seq(Message)
        BY AcceptedType
      <3> QED BY <3>1
    <2>2. i = IF p = n THEN (i + 1) - 1 ELSE i
      BY <2>1
    <2> QED BY <1>2, <2>1, AcceptedIs DEF JoinOnce
  <1>3. ASSUME JoinOnce(inbox), Head(inbox[n]).cmd = "join"
        PROVE  NoJoin(Accepted(n))
    <2> SUFFICES ASSUME NEW p \in Node, NEW i \in DOMAIN Accepted(n)[p],
                        Accepted(n)[p][i].cmd = "join"
                 PROVE  FALSE
      BY DEF NoJoin
    <2>1. 1 \in DOMAIN inbox[n] /\ inbox[n][1].cmd = "join"
      BY <1>3, HeadIs
    <2> QED BY <1>3, <2>1, AcceptedIs DEF JoinOnce
  <1> QED BY <1>1, <1>2, <1>3

LEMMA SentJoins ==
  ASSUME NEW queues \in [Node -> Seq(Message)], NEW t, NEW m \in Message
  PROVE  /\ m.cmd # "join" /\ NoJoin(queues) => NoJoin(SendTo(queues, t, m))
         /\ m.cmd # "join" /\ JoinOnce(queues) => JoinOnce(SendTo(queues, t, m))
         /\ NoJoin(queues) => JoinOnce(SendTo(queues, t, m))
  <1>1. m.cmd # "join" /\ NoJoin(queues) => NoJoin(SendTo(queues, t, m))
    BY SentIs DEF NoJoin
  <1>2. m.cmd # "join" /\ JoinOnce(queues) => JoinOnce(SendTo(queues, t, m))
    BY SentIs DEF JoinOnce
  <1>3. ASSUME NoJoin(queues)
        PROVE  JoinOnce(SendTo(queues, t, m))
    <2> SUFFICES ASSUME NEW p \in Node, NEW q \in Node,
                        NEW i \in DOMAIN SendTo(queues, t, m)[p], NEW j \in DOMAIN SendTo(queues, t, m)[q],
                        SendTo(queues, t, m)[p][i].cmd = "join", SendTo(queues, t, m)[q][j].cmd = "join"
                 PROVE  p = q /\ i = j
      BY DEF JoinOnce
    <2>1. p = t /\ i = Len(queues[p]) + 1
      BY <1>3, SentIs DEF NoJoin
    <2>2. q = t /\ j = Len(queues[q]) + 1
      BY <1>3, SentIs DEF NoJoin
    <2> QED BY <2>1, <2>2
  <1> QED BY <1>1, <1>2, <1>3

----------------------------------------------------------------------------
(****************************************************************************)
(* What all turns of a calm ring have in common.                            *)
(****************************************************************************)

\* The message that a node takes up is about the ring, and names a node.
LEMMA CalmHead ==
  ASSUME TypeOK, Calm, NEW n \in Node, inbox[n] # <<>>
  PROVE  /\ Head(inbox[n]) \in Message /\ Upkeep(Head(inbox[n]))
         /\ Head(inbox[n]).id \in Node
         /\ ~Serving(n)
  <1>1. Head(inbox[n]) \in Message
    BY AcceptedType
  <1>2. Upkeep(Head(inbox[n]))
    BY HeadIs DEF Calm
  <1>3. Head(inbox[n]).id \in Node
    BY <1>1, <1>2 DEF Message, Upkeep
  <1>4. ~Serving(n)
    BY <1>2 DEF Serving, Calm, Upkeep
  <1> QED BY <1>1, <1>2, <1>3, <1>4

\* No data turn, then, and no message that is ignored; and only a JOIN kills.
LEMMA CalmTurns ==
  ASSUME TypeOK, Calm, NEW n \in Node, Turn(n)
  PROVE  \/ Stabilize(n) \/ ForwardJoin(n) \/ AcceptJoin(n) \/ Notify(n)
         \/ AdoptPrev(n) \/ AnswerStabilize(n)
         \/ (Crash(n) /\ Head(inbox[n]).cmd = "join" /\ prevId[n] = Nil)
  <1>1. ~DataTurn(n)
    BY CalmHead DEF DataTurn, Accepting
  <1>2. ~Ignore(n)
    BY CalmHead DEF Ignore, Maintaining, Accepting, Upkeep
  <1>3. Crash(n) => Head(inbox[n]).cmd = "join" /\ prevId[n] = Nil
    BY CalmHead DEF Crash, Accepting
  <1> QED BY <1>1, <1>2, <1>3 DEF Turn, Relay, Forward, ServePeer, ServeClient, Owned

\* A turn other than a crash: who takes it is up, and what of the ring it leaves alone.
CalmTurn(n) ==
  /\ n \in Up
  /\ UNCHANGED <<status, firstSet>>
  /\ \A p \in Node \ {n} :
       nextId'[p] = nextId[p] /\ prevId'[p] = prevId[p] /\ tick'[p] = tick[p]

\* A turn that takes up a message does so off a calm node's queue.
LEMMA MaintainingCalm ==
  ASSUME TypeOK, Calm, NEW n \in Node, NEW cmd \in Cmd, Maintaining(n, cmd),
         \A p \in Node \ {n} : nextId'[p] = nextId[p] /\ prevId'[p] = prevId[p]
  PROVE  /\ CalmTurn(n)
         /\ inbox[n] # <<>>
         /\ Head(inbox[n]) \in Message /\ Upkeep(Head(inbox[n]))
         /\ Head(inbox[n]).cmd = cmd /\ Head(inbox[n]).id \in Node
         /\ Accepted(n) \in [Node -> Seq(Message)]
  <1>1. inbox[n] # <<>> /\ status[n] = "up"
    BY DEF Maintaining, Accepting
  <1>2. \A p \in Node \ {n} : tick'[p] = tick[p]
    BY DEF Maintaining, NextTick, TypeOK
  <1>3. UNCHANGED <<status, firstSet>> /\ Head(inbox[n]).cmd = cmd
    BY DEF Maintaining
  <1> QED BY <1>1, <1>2, <1>3, CalmHead, AcceptedType DEF CalmTurn, Up

\* A turn that may take a message from the queue of n and may send m to t.
Sends(n, t, m) ==
  /\ m \in Message
  /\ \/ inbox' = SendTo(inbox, t, m)
     \/ inbox[n] # <<>> /\ inbox' = SendTo(Accepted(n), t, m)
     \/ inbox[n] # <<>> /\ inbox' = Accepted(n)

\* The messages that it leaves are old ones, or the one that it has sent.
LEMMA NewOrOld ==
  ASSUME TypeOK, NEW n \in Node, NEW t, NEW m, Sends(n, t, m),
         NEW p \in Node, NEW i \in DOMAIN inbox'[p]
  PROVE  \/ p = t /\ status[p] = "up" /\ inbox'[p][i] = m
         \/ \E j \in DOMAIN inbox[p] : inbox'[p][i] = inbox[p][j]
  <1>1. inbox \in [Node -> Seq(Message)] /\ m \in Message
    BY DEF TypeOK, Sends
  <1>2. CASE inbox' = SendTo(inbox, t, m)
    BY <1>1, <1>2, SentIs
  <1>3. CASE inbox[n] # <<>> /\ inbox' = Accepted(n)
    BY <1>3, AcceptedIs
  <1>4. CASE inbox[n] # <<>> /\ inbox' = SendTo(Accepted(n), t, m)
    <2>1. Accepted(n) \in [Node -> Seq(Message)] /\ i \in DOMAIN SendTo(Accepted(n), t, m)[p]
      BY <1>4, AcceptedType
    <2>2. \/ i \in DOMAIN Accepted(n)[p] /\ SendTo(Accepted(n), t, m)[p][i] = Accepted(n)[p][i]
          \/ p = t /\ status[p] = "up" /\ SendTo(Accepted(n), t, m)[p][i] = m
      BY <1>1, <2>1, SentIs
    <2>3. CASE i \in DOMAIN Accepted(n)[p] /\ SendTo(Accepted(n), t, m)[p][i] = Accepted(n)[p][i]
      BY <1>4, <2>3, AcceptedIs
    <2> QED BY <1>4, <2>2, <2>3
  <1> QED BY <1>2, <1>3, <1>4 DEF Sends

\* The queues of others are as they were.
LEMMA OthersKeep ==
  ASSUME TypeOK, NEW n \in Node, NEW t, NEW m, Sends(n, t, m),
         NEW p \in Node \ {n}, p # t \/ status[p] # "up"
  PROVE  inbox'[p] = inbox[p]
  <1>1. inbox \in [Node -> Seq(Message)]
    BY DEF TypeOK
  <1>2. Accepted(n)[p] = inbox[p]
    BY <1>1 DEF Accepted
  <1>3. SendTo(inbox, t, m)[p] = inbox[p]
    BY <1>1, UnsentIs
  <1>4. CASE inbox[n] # <<>> /\ inbox' = SendTo(Accepted(n), t, m)
    <2>1. Accepted(n) \in [Node -> Seq(Message)]
      BY <1>4, AcceptedType
    <2>2. SendTo(Accepted(n), t, m)[p] = Accepted(n)[p]
      BY <2>1, UnsentIs
    <2> QED BY <1>2, <1>4, <2>2
  <1> QED BY <1>2, <1>3, <1>4 DEF Sends

LEMMA CalmKept ==
  ASSUME TypeOK, Calm, NEW n \in Node, CalmTurn(n), NEW t, NEW m, Upkeep(m), Sends(n, t, m)
  PROVE  Calm'
  <1>1. ASSUME NEW p \in Node, NEW i \in DOMAIN inbox'[p]
        PROVE  Upkeep(inbox'[p][i])
    BY NewOrOld DEF Calm
  <1>2. ASSUME NEW p \in Node, status[p] = "off"
        PROVE  Unlinked(p)'
    <2>1. p # n /\ Unlinked(p)
      BY <1>2 DEF CalmTurn, Up, Calm
    <2>2. inbox'[p] = inbox[p]
      BY <1>2, <2>1, OthersKeep
    <2> QED BY <2>1, <2>2 DEF CalmTurn, Unlinked
  <1> QED BY <1>1, <1>2 DEF CalmTurn, Calm

\* A turn that sends no JOIN leaves no more of them.
LEMMA SentOrNoneJoins ==
  ASSUME TypeOK, NEW n \in Node, NEW t, NEW m, m.cmd # "join", Sends(n, t, m)
  PROVE  /\ NoJoin(inbox) => NoJoin(inbox')
         /\ JoinOnce(inbox) => JoinOnce(inbox')
  <1>1. inbox \in [Node -> Seq(Message)] /\ m \in Message
    BY DEF TypeOK, Sends
  <1>2. CASE inbox' = SendTo(inbox, t, m)
    BY <1>1, <1>2, SentJoins
  <1>3. CASE inbox[n] # <<>> /\ inbox' = Accepted(n)
    BY <1>3, AcceptedJoins
  <1>4. CASE inbox[n] # <<>> /\ inbox' = SendTo(Accepted(n), t, m)
    <2>1. Accepted(n) \in [Node -> Seq(Message)]
      BY <1>4, AcceptedType
    <2> QED BY <1>1, <1>4, <2>1, AcceptedJoins, SentJoins
  <1> QED BY <1>2, <1>3, <1>4 DEF Sends

----------------------------------------------------------------------------
(****************************************************************************)
(* The upkeep of a finished ring R, to which nothing untrue is said: every  *)
(* STABILIZE and NOTIFY leaves it as it is, and is followed by a true one.  *)
(****************************************************************************)

LEMMA QuietStabilize ==
  ASSUME TypeOK, Calm, NEW R \in SUBSET Up, Linked(R), NEW n \in R, Stabilize(n)
  PROVE  /\ CalmTurn(n) /\ nextId' = nextId /\ prevId' = prevId
         /\ \E t \in R, m \in Message : Upkeep(m) /\ InPlace(R, t, m) /\ Sends(n, t, m)
  <1> DEFINE t == nextId[n]
             m == RingMessage("stbz", n)
  <1>1. n \in Node /\ t \in R /\ After(R, n, t)
    BY DEF Linked, After, Up
  <1>2. m \in Message /\ m.cmd = "stbz" /\ m.id = n /\ Upkeep(m)
    BY <1>1, RingMessageType DEF RingMessage, Upkeep, Cmd
  <1>3. CalmTurn(n)
    BY <1>1 DEF Stabilize, CalmTurn, NextTick, ringVars, TypeOK, Up
  <1>4. Sends(n, t, m) /\ InPlace(R, t, m)
    BY <1>1, <1>2 DEF Sends, Stabilize, InPlace
  <1>5. nextId' = nextId /\ prevId' = prevId
    BY DEF Stabilize, ringVars
  <1> HIDE DEF t, m
  <1> QED BY <1>1, <1>2, <1>3, <1>4, <1>5

\* A NOTIFY tells a node what it knows.
LEMMA QuietNotify ==
  ASSUME TypeOK, Calm, NEW R \in SUBSET Up, Linked(R), NEW n \in R, Notify(n),
         InPlace(R, n, Head(inbox[n]))
  PROVE  /\ CalmTurn(n) /\ nextId' = nextId /\ prevId' = prevId
         /\ \E t \in R, m \in Message : Upkeep(m) /\ InPlace(R, t, m) /\ Sends(n, t, m)
  \* Nothing is sent: any message that is in place will do for what might be.
  <1> DEFINE h == Head(inbox[n])
             x == RingMessage("noti", n)
  <1>1. n \in Node /\ R \in SUBSET Node
    BY DEF Up
  <1>2. /\ inbox' = Accepted(n) /\ prevId' = prevId
        /\ nextId' = [nextId EXCEPT ![n] = IF h.id # n THEN h.id ELSE @]
    BY DEF Notify
  <1>3. CalmTurn(n) /\ inbox[n] # <<>> /\ h.cmd = "noti"
    BY <1>1, <1>2, MaintainingCalm DEF Notify, Cmd, TypeOK
  <1>4. nextId' = nextId
    <2>1. h.id = n \/ After(R, n, h.id)
      BY <1>3 DEF InPlace
    <2>2. After(R, n, nextId[n])
      BY DEF Linked
    <2>3. h.id # n => h.id = nextId[n]
      BY <1>1, <2>1, <2>2, AfterUnique
    <2> QED BY <1>2, <2>3 DEF TypeOK
  <1>5. x \in Message /\ Upkeep(x) /\ InPlace(R, n, x)
    BY <1>1, RingMessageType DEF RingMessage, Upkeep, InPlace, Cmd
  <1>6. Sends(n, n, x)
    BY <1>2, <1>3, <1>5 DEF Sends
  <1> HIDE DEF h, x
  <1> QED BY <1>2, <1>3, <1>4, <1>5, <1>6

\* The answer to a STABILIZE is the name of the node that has sent it.
LEMMA QuietAnswer ==
  ASSUME TypeOK, Calm, NEW R \in SUBSET Up, Linked(R), NEW n \in R, AnswerStabilize(n),
         InPlace(R, n, Head(inbox[n]))
  PROVE  /\ CalmTurn(n) /\ nextId' = nextId /\ prevId' = prevId
         /\ \E t \in R, m \in Message : Upkeep(m) /\ InPlace(R, t, m) /\ Sends(n, t, m)
  <1> DEFINE h == Head(inbox[n])
             t == h.id
             m == RingMessage("noti", prevId[n])
  <1>1. n \in Node /\ R \in SUBSET Node
    BY DEF Up
  <1>2. nextId' = nextId /\ prevId' = prevId /\ inbox' = SendTo(Accepted(n), t, m)
    BY DEF AnswerStabilize, ringVars
  <1>3. CalmTurn(n) /\ inbox[n] # <<>> /\ h.cmd = "stbz"
    BY <1>1, <1>2, MaintainingCalm DEF AnswerStabilize, Cmd
  <1>4. t \in R /\ prevId[n] = t
    <2>1. t \in R /\ After(R, t, n)
      BY <1>3 DEF InPlace
    <2>2. prevId[n] \in R /\ After(R, prevId[n], n)
      BY DEF Linked
    <2> QED BY <1>1, <2>1, <2>2, BeforeUnique
  <1>5. m \in Message /\ m.cmd = "noti" /\ m.id = t /\ Upkeep(m)
    BY <1>1, <1>4, RingMessageType DEF RingMessage, Upkeep, Cmd
  <1>6. Sends(n, t, m) /\ InPlace(R, t, m)
    BY <1>2, <1>3, <1>5 DEF Sends, InPlace
  <1> HIDE DEF h, t, m
  <1> QED BY <1>2, <1>3, <1>4, <1>5, <1>6

LEMMA QuietTurn ==
  ASSUME TypeOK, Calm, NEW R \in SUBSET Up, Linked(R), NEW n \in R,
         Stabilize(n) \/ Notify(n) \/ AnswerStabilize(n),
         inbox[n] # <<>> => InPlace(R, n, Head(inbox[n])) \/ Head(inbox[n]).cmd = "join"
  PROVE  /\ CalmTurn(n) /\ nextId' = nextId /\ prevId' = prevId
         /\ \E t \in R, m \in Message : Upkeep(m) /\ InPlace(R, t, m) /\ Sends(n, t, m)
  <1>1. Notify(n) \/ AnswerStabilize(n) => InPlace(R, n, Head(inbox[n]))
    BY DEF Notify, AnswerStabilize, Maintaining, Accepting
  <1> QED BY <1>1, QuietStabilize, QuietNotify, QuietAnswer

----------------------------------------------------------------------------
(****************************************************************************)
(* The turns while the last node that was launched has not been accepted.   *)
(****************************************************************************)

\* While nobody knows k it has no turn, and the others' pointers are not NULL.
LEMMA WaitingTurns ==
  ASSUME TypeOK, Calm, NEW k \in Node, Waiting(k), NEW n \in Node, Turn(n)
  PROVE  /\ n \in Up \ {k} /\ prevId[n] # Nil
         /\ \/ Stabilize(n) \/ ForwardJoin(n) \/ AcceptJoin(n) \/ Notify(n)
            \/ AnswerStabilize(n)
  <1>1. \/ Stabilize(n) \/ ForwardJoin(n) \/ AcceptJoin(n) \/ Notify(n)
        \/ AdoptPrev(n) \/ AnswerStabilize(n) \/ (Crash(n) /\ prevId[n] = Nil)
    BY CalmTurns
  <1>2. n \in Up
    BY <1>1 DEF Stabilize, ForwardJoin, AcceptJoin, Notify, AdoptPrev, AnswerStabilize, Crash,
                Maintaining, Accepting, Up
  <1>3. n # k
    BY <1>1 DEF Stabilize, ForwardJoin, AcceptJoin, Notify, AdoptPrev, AnswerStabilize, Crash,
                Maintaining, Accepting, StabilizeTurn, Waiting, Unlinked
  <1>4. prevId[n] \in Node /\ prevId[n] # Nil
    BY <1>2, <1>3, NodesAreIntegers DEF Waiting, Linked, Up
  <1> QED BY <1>1, <1>2, <1>3, <1>4 DEF AdoptPrev

\* A turn that moves no pointer and sends what is true leaves k waiting.
LEMMA WaitingKept ==
  ASSUME TypeOK, NEW k \in Node, Waiting(k), NEW n \in Up \ {k}, CalmTurn(n),
         nextId' = nextId, prevId' = prevId,
         NEW t \in Up \ {k}, NEW m, Sends(n, t, m),
         \/ InPlace(Up \ {k}, t, m)
         \/ m.cmd = "join" /\ m.id = k /\ Contact[k] \in Up \ {k},
         JoinOnce(inbox')
  PROVE  Waiting(k)'
  <1> DEFINE R == Up \ {k}
  <1>1. Up' = Up /\ n \in Node /\ k \in Node
    BY DEF CalmTurn, Up
  <1>2. Unlinked(k)'
    <2>1. inbox'[k] = inbox[k]
      BY <1>1, OthersKeep
    <2>2. tick'[k] = tick[k]
      BY <1>1 DEF CalmTurn
    <2> QED BY <2>1, <2>2 DEF Waiting, Unlinked
  <1>3. Linked(R)'
    BY <1>1 DEF Waiting, Linked
  <1>4. ASSUME NEW p \in R, NEW i \in DOMAIN inbox'[p]
        PROVE  \/ InPlace(R, p, inbox'[p][i])
               \/ inbox'[p][i].cmd = "join" /\ inbox'[p][i].id = k /\ Contact[k] \in R
    <2>1. p \in Node
      BY DEF Up
    <2> QED BY <1>1, <2>1, NewOrOld DEF Waiting
  <1>5. \A p \in R : \A i \in DOMAIN inbox'[p] :
          InPlace(R, p, inbox[p][i])' <=> InPlace(R, p, inbox'[p][i])
    BY <1>1 DEF InPlace
  <1> QED BY <1>1, <1>2, <1>3, <1>4, <1>5 DEF Waiting, InPlace, JoinOnce

\* What the head of a queue says is true, or it is the JOIN of k.
LEMMA WaitingHead ==
  ASSUME TypeOK, NEW k, Waiting(k), NEW n \in Up \ {k}, inbox[n] # <<>>
  PROVE  LET m == Head(inbox[n]) IN
         \/ InPlace(Up \ {k}, n, m)
         \/ m.cmd = "join" /\ m.id = k /\ Contact[k] \in Up \ {k}
  BY HeadIs DEF Waiting, Up

LEMMA WaitingForwardJoin ==
  ASSUME TypeOK, Calm, NEW k \in Node, Waiting(k), NEW n \in Up \ {k}, ForwardJoin(n)
  PROVE  Calm' /\ Waiting(k)'
  <1> DEFINE t == nextId[n]
             m == Head(inbox[n])
  <1>1. n \in Node /\ t \in Up \ {k}
    BY DEF Waiting, Linked, After, Up
  <1>2. nextId' = nextId /\ prevId' = prevId /\ inbox' = SendTo(Accepted(n), t, m)
    BY DEF ForwardJoin, ringVars
  <1>3. /\ CalmTurn(n) /\ inbox[n] # <<>> /\ m \in Message /\ Upkeep(m) /\ m.cmd = "join"
        /\ Accepted(n) \in [Node -> Seq(Message)]
    BY <1>1, <1>2, MaintainingCalm DEF ForwardJoin, Cmd
  <1>4. Sends(n, t, m)
    BY <1>2, <1>3 DEF Sends
  <1>5. m.id = k /\ Contact[k] \in Up \ {k}
    BY <1>3, WaitingHead DEF InPlace
  <1>6. JoinOnce(inbox')
    BY <1>1, <1>2, <1>3, AcceptedJoins, SentJoins DEF Waiting
  <1> HIDE DEF t, m
  <1> QED BY <1>1, <1>2, <1>3, <1>4, <1>5, <1>6, WaitingKept, CalmKept

\* The upkeep of the ring tells its nodes nothing about k.
LEMMA WaitingQuiet ==
  ASSUME TypeOK, Calm, NEW k \in Node, Waiting(k), NEW n \in Up \ {k},
         Stabilize(n) \/ Notify(n) \/ AnswerStabilize(n)
  PROVE  Calm' /\ Waiting(k)'
  <1> DEFINE R == Up \ {k}
  <1>1. n \in Node /\ R \in SUBSET Node /\ R \in SUBSET Up /\ Linked(R) /\ JoinOnce(inbox)
    BY DEF Up, Waiting
  <1>2. inbox[n] # <<>> => InPlace(R, n, Head(inbox[n])) \/ Head(inbox[n]).cmd = "join"
    BY WaitingHead
  <1> HIDE DEF R
  <1>3. PICK t \in R, m \in Message : Upkeep(m) /\ InPlace(R, t, m) /\ Sends(n, t, m)
    BY <1>1, <1>2, QuietTurn DEF R
  <1>4. CalmTurn(n) /\ nextId' = nextId /\ prevId' = prevId
    BY <1>1, <1>2, QuietTurn DEF R
  <1>5. m.cmd # "join"
    BY <1>3 DEF InPlace
  <1>6. JoinOnce(inbox')
    BY <1>1, <1>3, <1>5, SentOrNoneJoins
  <1> QED BY <1>1, <1>3, <1>4, <1>6, WaitingKept, CalmKept DEF R

\* What pass() keeps lies on the arc (PREV, SELF], for SELF_ID 0 too.
LEMMA KeptOnArc ==
  ASSUME NEW self \in Node, NEW prev \in Node, NEW p \in Position, ~Pass(self, prev, p)
  PROVE  Distance(prev, p) <= Distance(prev, self)
  BY OnRing DEF Pass, Distance, Position

\* The turn in which the successor of k hears of it: k is on the ring, though its
\* predecessor does not know it, and it does not know either of them.
LEMMA WaitingAcceptJoin ==
  ASSUME TypeOK, Calm, NEW k \in Node, Waiting(k), NEW n \in Up \ {k}, AcceptJoin(n)
  PROVE  Calm' /\ Joined(k)'
  <1> DEFINE R == Up \ {k}
             h == Head(inbox[n])
             m == RingMessage("noti", h.id)
             p == prevId[n]
  <1>1. n \in Node /\ R \in SUBSET Node /\ Up \in SUBSET Node /\ k \in Up
    BY DEF Up, Waiting
  <1>2. /\ Maintaining(n, "join") /\ ~Pass(n, p, h.id)
        /\ prevId' = [prevId EXCEPT ![n] = h.id]
        /\ nextId' = [nextId EXCEPT ![n] = IF @ = n THEN h.id ELSE @]
        /\ inbox' = SendTo(Accepted(n), h.id, m)
    BY DEF AcceptJoin
  <1>3. /\ CalmTurn(n) /\ inbox[n] # <<>> /\ h.cmd = "join"
        /\ Accepted(n) \in [Node -> Seq(Message)]
    BY <1>1, <1>2, MaintainingCalm DEF Cmd, TypeOK
  <1>4. h.id = k /\ Contact[k] \in R
    BY <1>3, WaitingHead DEF InPlace
  <1>5. p \in R /\ After(R, p, n) /\ \A q \in R : prevId[q] \in R /\ After(R, prevId[q], q)
    BY DEF Waiting, Linked
  <1>6. Distance(p, k) <= Distance(p, n)
    <2>1. k \in Position /\ p \in Node
      BY <1>1, <1>5, OnRing DEF Position
    <2> QED BY <1>1, <1>2, <1>4, <2>1, KeptOnArc
  <1>7. After(Up, p, k) /\ After(Up, k, n)
    BY <1>1, <1>5, <1>6, Between
  <1>8. m \in Message /\ m.cmd = "noti" /\ m.id = k /\ Upkeep(m)
    BY <1>1, <1>4, RingMessageType DEF RingMessage, Upkeep, Cmd
  <1>9. Sends(n, k, m)
    BY <1>2, <1>3, <1>4, <1>8 DEF Sends
  <1>10. Up' = Up
    BY <1>3 DEF CalmTurn, Up
  <1>11. NoJoin(inbox')
    <2>1. NoJoin(Accepted(n))
      BY <1>1, <1>3, AcceptedJoins DEF Waiting
    <2> QED BY <1>2, <1>3, <1>8, <2>1, SentJoins
  <1>12. ASSUME NEW q \in Up
         PROVE  Candidate(k, q, nextId'[q])
    <2>1. CASE q = k
      <3>1. nextId'[k] = Contact[k]
        BY <1>1, <1>3 DEF Waiting, Unlinked, CalmTurn
      <3> QED BY <1>4, <2>1, <3>1 DEF Candidate
    <2>2. CASE q = n /\ nextId[n] = n
      <3>1. nextId'[n] = k
        BY <1>1, <1>2, <1>4, <2>2 DEF TypeOK
      <3>2. After(R, n, n)
        BY <2>2 DEF Waiting, Linked
      <3>3. p = n
        BY <1>1, <1>5, <3>2, BeforeUnique
      <3> QED BY <1>7, <2>2, <3>1, <3>3 DEF Candidate
    <2>3. CASE q # k /\ (q # n \/ nextId[n] # n)
      <3>1. nextId'[q] = nextId[q]
        BY <1>1, <1>2, <2>3 DEF TypeOK
      <3>2. After(R, q, nextId[q])
        BY <2>3 DEF Waiting, Linked
      <3> QED BY <2>3, <3>1, <3>2 DEF Candidate
    <2> QED BY <2>1, <2>2, <2>3
  <1>13. ASSUME NEW q \in Up
         PROVE  \/ (q = k /\ prevId'[q] = Nil)
                \/ (prevId'[q] \in Up /\ After(Up, prevId'[q], q))
    <2>1. CASE q = k
      <3>1. Contact[k] # k
        BY <1>4
      <3>2. prevId'[k] = Nil
        BY <1>1, <1>3, <3>1 DEF Waiting, Unlinked, CalmTurn
      <3> QED BY <2>1, <3>2
    <2>2. CASE q = n
      <3>1. prevId'[n] = k
        BY <1>1, <1>2, <1>4 DEF TypeOK
      <3> QED BY <1>1, <1>7, <2>2, <3>1
    <2>3. CASE q # k /\ q # n
      <3>1. prevId'[q] = prevId[q] /\ prevId[q] \in R /\ After(R, prevId[q], q)
        BY <1>1, <1>2, <1>5, <2>3 DEF TypeOK
      <3>2. After(Up, prevId[q], q)
        BY <1>1, <1>5, <1>6, <2>3, <3>1, Elsewhere
      <3> QED BY <3>1, <3>2
    <2> QED BY <2>1, <2>2, <2>3
  <1>14. ASSUME NEW q \in Up, NEW i \in DOMAIN inbox'[q]
         PROVE  Plausible(k, q, inbox'[q][i])
    <2>1. CASE q = k /\ inbox'[q][i] = m
      BY <1>8, <2>1 DEF Plausible
    <2>2. ASSUME NEW j \in DOMAIN inbox[q], inbox'[q][i] = inbox[q][j]
          PROVE  /\ q # k
                 /\ InPlace(R, q, inbox'[q][i]) \/ inbox'[q][i].cmd = "join"
      <3>1. q # k
        BY <2>2 DEF Waiting, Unlinked
      <3> QED BY <2>2, <3>1 DEF Waiting
    <2>3. inbox'[q][i].cmd # "join"
      BY <1>1, <1>11 DEF NoJoin
    <2>4. CASE q # k /\ InPlace(R, q, inbox'[q][i])
      <3>1. q \in R
        BY <2>4
      <3> QED BY <2>4, <3>1 DEF InPlace, Candidate, Plausible
    <2>5. q \in Node
      BY <1>1
    <2>6. \/ q = k /\ inbox'[q][i] = m
          \/ \E j \in DOMAIN inbox[q] : inbox'[q][i] = inbox[q][j]
      BY <1>1, <1>9, <2>5, NewOrOld
    <2> QED BY <2>1, <2>2, <2>3, <2>4, <2>6
  <1>15. Founded(Up)
    BY DEF Waiting, Founded
  <1>16. Calm'
    BY <1>1, <1>3, <1>8, <1>9, CalmKept
  <1>17. Joined(k)'
    <2> HIDE DEF R, h, m, p
    <2>1. \A q \in Up : Candidate(k, q, nextId[q])'
      BY <1>10, <1>12 DEF Candidate
    <2>2. \A q \in Up : \A i \in DOMAIN inbox'[q] : Plausible(k, q, inbox[q][i])'
      BY <1>10, <1>14 DEF Plausible, Candidate
    <2>3. \A q \in Up : prevId'[q] \in Up /\ After(Up, prevId'[q], q) => After(Up, prevId[q], q)'
      BY <1>10
    <2> QED BY <1>1, <1>10, <1>11, <1>13, <1>15, <2>1, <2>2, <2>3 DEF Joined, Founded, NoJoin
  <1> QED BY <1>16, <1>17

----------------------------------------------------------------------------
(****************************************************************************)
(* The turns after it has been accepted.                                    *)
(****************************************************************************)

LEMMA JoinedTurns ==
  ASSUME TypeOK, Calm, NEW k \in Node, Joined(k), NEW n \in Node, Turn(n)
  PROVE  /\ n \in Up
         /\ Stabilize(n) \/ Notify(n) \/ AdoptPrev(n) \/ AnswerStabilize(n)
  <1>1. \/ Stabilize(n) \/ ForwardJoin(n) \/ AcceptJoin(n) \/ Notify(n)
        \/ AdoptPrev(n) \/ AnswerStabilize(n)
        \/ (Crash(n) /\ Head(inbox[n]).cmd = "join" /\ inbox[n] # <<>>)
    BY CalmTurns DEF Crash, Accepting
  <1>2. n \in Up
    BY <1>1 DEF Stabilize, ForwardJoin, AcceptJoin, Notify, AdoptPrev, AnswerStabilize, Crash,
                Maintaining, Accepting, Up
  <1>3. inbox[n] # <<>> => Head(inbox[n]).cmd # "join"
    BY HeadIs DEF Joined, NoJoin
  <1> QED BY <1>1, <1>2, <1>3 DEF ForwardJoin, AcceptJoin, Maintaining, Accepting

\* What a turn must not spoil.
LEMMA JoinedKept ==
  ASSUME TypeOK, NEW k \in Node, Joined(k), NEW n \in Up, CalmTurn(n),
         Candidate(k, n, nextId'[n]),
         \/ n = k /\ prevId'[n] = Nil
         \/ prevId'[n] \in Up /\ After(Up, prevId'[n], n),
         NEW t \in Up, NEW m, Sends(n, t, m), Plausible(k, t, m)
  PROVE  Joined(k)'
  <1>1. Up' = Up /\ Up \in SUBSET Node
    BY DEF CalmTurn, Up
  <1>2. ASSUME NEW q \in Up, NEW i \in DOMAIN inbox'[q]
        PROVE  Plausible(k, q, inbox'[q][i])
    <2>1. \/ q = t /\ inbox'[q][i] = m
          \/ \E j \in DOMAIN inbox[q] : inbox'[q][i] = inbox[q][j]
      BY <1>1, NewOrOld
    <2> QED BY <1>1, <2>1 DEF Joined
  <1>3. ASSUME NEW q \in Up
        PROVE  /\ Candidate(k, q, nextId'[q])
               /\ \/ q = k /\ prevId'[q] = Nil
                  \/ prevId'[q] \in Up /\ After(Up, prevId'[q], q)
    <2>1. CASE q = n
      BY <2>1
    <2>2. CASE q # n
      <3>1. nextId'[q] = nextId[q] /\ prevId'[q] = prevId[q]
        BY <1>1, <2>2 DEF CalmTurn
      <3> QED BY <3>1 DEF Joined
    <2> QED BY <2>1, <2>2
  <1>4. NoJoin(inbox')
    <2> SUFFICES ASSUME NEW q \in Node, NEW i \in DOMAIN inbox'[q]
                 PROVE  inbox'[q][i].cmd # "join"
      BY DEF NoJoin
    <2>1. \/ q = t /\ inbox'[q][i] = m
          \/ \E j \in DOMAIN inbox[q] : inbox'[q][i] = inbox[q][j]
      BY <1>1, NewOrOld
    <2> QED BY <2>1 DEF Joined, Plausible, NoJoin
  <1>5. k \in Up /\ Founded(Up)
    BY DEF Joined
  <1>6. \A q \in Up : Candidate(k, q, nextId[q])'
    BY <1>1, <1>3 DEF Candidate
  <1>7. \A q \in Up : \A i \in DOMAIN inbox'[q] : Plausible(k, q, inbox[q][i])'
    BY <1>1, <1>2 DEF Plausible, Candidate
  <1>8. \A q \in Up : prevId'[q] \in Up /\ After(Up, prevId'[q], q) => After(Up, prevId[q], q)'
    BY <1>1
  <1> QED BY <1>1, <1>3, <1>4, <1>5, <1>6, <1>7, <1>8 DEF Joined, Founded, NoJoin

\* What the head of a queue says, and of the node whose queue it is.
LEMMA JoinedHead ==
  ASSUME TypeOK, NEW k, Joined(k), NEW n \in Up
  PROVE  /\ n \in Node /\ Up \in SUBSET Node
         /\ Candidate(k, n, nextId[n])
         /\ \/ n = k /\ prevId[n] = Nil
            \/ prevId[n] \in Up /\ After(Up, prevId[n], n)
         /\ inbox[n] # <<>> => Plausible(k, n, Head(inbox[n]))
  <1>1. n \in Node /\ Up \in SUBSET Node
    BY DEF Up
  <1> QED BY <1>1, HeadIs DEF Joined, Plausible

LEMMA JoinedStabilize ==
  ASSUME TypeOK, Calm, NEW k \in Node, Joined(k), NEW n \in Up, Stabilize(n)
  PROVE  Calm' /\ Joined(k)'
  <1> DEFINE t == nextId[n]
             m == RingMessage("stbz", n)
  <1>1. n \in Node /\ Candidate(k, n, t) /\ t \in Up
    BY JoinedHead DEF Candidate, After
  <1>2. m \in Message /\ m.cmd = "stbz" /\ m.id = n /\ Upkeep(m)
    BY <1>1, RingMessageType DEF RingMessage, Upkeep, Cmd
  <1>3. CalmTurn(n)
    BY DEF Stabilize, CalmTurn, NextTick, ringVars, TypeOK
  <1>4. Sends(n, t, m)
    BY <1>2 DEF Sends, Stabilize
  <1>5. Plausible(k, t, m)
    BY <1>1, <1>2 DEF Plausible
  <1>6. nextId' = nextId /\ prevId' = prevId
    BY DEF Stabilize, ringVars
  <1> HIDE DEF t, m
  <1> QED BY <1>1, <1>2, <1>3, <1>4, <1>5, <1>6, JoinedHead, JoinedKept, CalmKept

\* A node that is told of a candidate takes it for its next.
LEMMA JoinedNotify ==
  ASSUME TypeOK, Calm, NEW k \in Node, Joined(k), NEW n \in Up, Notify(n)
  PROVE  Calm' /\ Joined(k)'
  <1> DEFINE h == Head(inbox[n])
             x == RingMessage("noti", n)
  <1>1. n \in Node
    BY JoinedHead
  <1>2. /\ inbox' = Accepted(n) /\ prevId' = prevId
        /\ nextId' = [nextId EXCEPT ![n] = IF h.id # n THEN h.id ELSE @]
    BY DEF Notify
  <1>3. /\ CalmTurn(n) /\ inbox[n] # <<>> /\ h.cmd = "noti"
        /\ Accepted(n) \in [Node -> Seq(Message)]
    BY <1>1, <1>2, MaintainingCalm DEF Notify, Cmd, TypeOK
  <1>4. Candidate(k, n, nextId'[n])
    <2>1. h.id = n \/ Candidate(k, n, h.id)
      BY <1>3, JoinedHead DEF Plausible
    <2>2. nextId'[n] = IF h.id # n THEN h.id ELSE nextId[n]
      BY <1>1, <1>2 DEF TypeOK
    <2> QED BY <2>1, <2>2, JoinedHead
  <1>5. x \in Message /\ Upkeep(x) /\ Plausible(k, n, x)
    BY <1>1, RingMessageType DEF RingMessage, Upkeep, Plausible, Cmd
  <1>6. Sends(n, n, x)
    BY <1>2, <1>3, <1>5 DEF Sends
  <1> HIDE DEF h, x
  <1> QED BY <1>1, <1>2, <1>3, <1>4, <1>5, <1>6, JoinedHead, JoinedKept, CalmKept

\* The first STABILIZE that reaches k is its predecessor's: k itself sends it to
\* others, and no other node may take k for its next.
LEMMA JoinedAdoptPrev ==
  ASSUME TypeOK, Calm, NEW k \in Node, Joined(k), NEW n \in Up, AdoptPrev(n)
  PROVE  Calm' /\ Joined(k)'
  <1> DEFINE h == Head(inbox[n])
             x == RingMessage("noti", n)
  <1>1. n \in Node /\ Up \in SUBSET Node
    BY JoinedHead
  <1>2. /\ inbox' = Accepted(n) /\ nextId' = nextId
        /\ prevId[n] = Nil /\ prevId' = [prevId EXCEPT ![n] = h.id]
    BY DEF AdoptPrev
  <1>3. /\ CalmTurn(n) /\ inbox[n] # <<>> /\ h.cmd = "stbz"
        /\ Accepted(n) \in [Node -> Seq(Message)]
    BY <1>1, <1>2, MaintainingCalm DEF AdoptPrev, Cmd, TypeOK
  <1>4. n = k
    BY <1>1, <1>2, JoinedHead, NodesAreIntegers
  <1>5. prevId'[n] \in Up /\ After(Up, prevId'[n], n)
    <2>1. Candidate(k, h.id, k)
      BY <1>3, <1>4, JoinedHead DEF Plausible
    <2>2. h.id \in Up /\ After(Up, h.id, k)
      BY <2>1 DEF Candidate, After
    <2>3. prevId'[n] = h.id
      BY <1>1, <1>2 DEF TypeOK
    <2> QED BY <1>4, <2>2, <2>3
  <1>6. x \in Message /\ Upkeep(x) /\ Plausible(k, n, x)
    BY <1>1, RingMessageType DEF RingMessage, Upkeep, Plausible, Cmd
  <1>7. Sends(n, n, x)
    BY <1>2, <1>3, <1>6 DEF Sends
  <1> HIDE DEF h, x
  <1> QED BY <1>1, <1>2, <1>3, <1>5, <1>6, <1>7, JoinedHead, JoinedKept, CalmKept

\* A STABILIZE is answered with the name of its sender, or with that of k, which has
\* come in between, or to k with any other's name.
LEMMA JoinedAnswer ==
  ASSUME TypeOK, Calm, NEW k \in Node, Joined(k), NEW n \in Up, AnswerStabilize(n)
  PROVE  Calm' /\ Joined(k)'
  <1> DEFINE h == Head(inbox[n])
             t == h.id
             q == prevId[n]
             m == RingMessage("noti", q)
  <1>1. n \in Node /\ Up \in SUBSET Node
    BY JoinedHead
  <1>2. nextId' = nextId /\ prevId' = prevId /\ inbox' = SendTo(Accepted(n), t, m) /\ q # Nil
    BY DEF AnswerStabilize, ringVars
  <1>3. /\ CalmTurn(n) /\ inbox[n] # <<>> /\ h.cmd = "stbz"
        /\ Accepted(n) \in [Node -> Seq(Message)]
    BY <1>1, <1>2, MaintainingCalm DEF AnswerStabilize, Cmd
  <1>4. q \in Up /\ After(Up, q, n)
    BY <1>2, JoinedHead
  <1>5. t \in Up /\ Candidate(k, t, n)
    BY <1>3, JoinedHead DEF Plausible, Candidate
  <1>6. q = t \/ Candidate(k, t, q)
    <2>1. CASE t = k
      BY <1>4, <1>5, <2>1 DEF Candidate
    <2>2. CASE t # k /\ After(Up, t, n)
      BY <1>1, <1>4, <1>5, <2>2, BeforeUnique
    <2>3. CASE t # k /\ After(Up \ {k}, t, n)
      <3>1. n \in Up \ {k} /\ k \in Up
        BY <2>3 DEF After, Joined
      <3>2. q = t \/ (q = k /\ After(Up, t, k))
        BY <1>1, <1>4, <1>5, <2>3, <3>1, Displaced
      <3> QED BY <1>5, <2>3, <3>2 DEF Candidate
    <2> QED BY <1>5, <2>1, <2>2, <2>3 DEF Candidate
  <1>7. m \in Message /\ m.cmd = "noti" /\ m.id = q /\ Upkeep(m)
    BY <1>1, <1>4, RingMessageType DEF RingMessage, Upkeep, Cmd
  <1>8. Sends(n, t, m) /\ Plausible(k, t, m)
    BY <1>2, <1>3, <1>6, <1>7 DEF Sends, Plausible
  <1> HIDE DEF h, t, q, m
  <1> QED BY <1>1, <1>2, <1>3, <1>5, <1>7, <1>8, JoinedHead, JoinedKept, CalmKept

----------------------------------------------------------------------------
(****************************************************************************)
(* A stable ring, and one that has settled.                                 *)
(****************************************************************************)

LEMMA SuccessorIs ==
  ASSUME NEW n \in Up
  PROVE  After(Up, n, Successor(n))
  <1>1. n \in Node /\ Up \in SUBSET Node /\ Up # {}
    BY DEF Up
  <1>2. \E m \in Up : \A c \in Up : Distance(n, m) <= Distance(n, c)
    BY <1>1, AfterExists DEF After
  <1> QED BY <1>2 DEF Successor, After

\* What the configuration runs check of the pointers is what the proofs use of them.
LEMMA StableIsLinked == RingStable <=> Linked(Up)
  <1>1. Up \in SUBSET Node /\ \A n \in Up : Successor(n) \in Up /\ After(Up, n, Successor(n))
    BY SuccessorIs DEF Up, After
  <1>2. ASSUME RingStable, NEW n \in Up
        PROVE  After(Up, n, nextId[n]) /\ prevId[n] \in Up /\ After(Up, prevId[n], n)
    <2>1. PICK p \in Up : After(Up, p, n)
      BY <1>1, BeforeExists
    <2>2. Successor(p) = n
      BY <1>1, <2>1, AfterUnique
    <2>3. prevId[n] = p
      BY <1>2, <2>2 DEF RingStable
    <2> QED BY <1>1, <1>2, <2>1, <2>3 DEF RingStable
  <1>3. ASSUME Linked(Up), NEW n \in Up
        PROVE  nextId[n] = Successor(n) /\ prevId[Successor(n)] = n
    <2>1. After(Up, n, nextId[n])
      BY <1>3 DEF Linked
    <2>2. prevId[Successor(n)] \in Up /\ After(Up, prevId[Successor(n)], Successor(n))
      BY <1>1, <1>3 DEF Linked
    <2> QED BY <1>1, <2>1, <2>2, AfterUnique, BeforeUnique
  <1> QED BY <1>2, <1>3 DEF RingStable, Linked

\* A ring whose pointers are right and whose messages are true.
Sound(S) ==
  /\ Linked(S)
  /\ S # {} => Founded(S)
  /\ NoJoin(inbox)
  /\ \A n \in S : \A i \in DOMAIN inbox[n] : InPlace(S, n, inbox[n][i])

\* On a stable ring no node waits, unless it is alone.
LEMMA StableWaiting ==
  ASSUME TypeOK, Calm, NEW k \in Node, Waiting(k), RingStable
  PROVE  Up = {k} /\ Contact[k] = k /\ inbox[k] = <<>>
  <1>1. k \in Up /\ k \in Node /\ Up \in SUBSET Node
    BY DEF Waiting, Up
  <1>2. prevId[k] \in Up /\ After(Up, k, nextId[k])
    BY <1>1, StableIsLinked DEF Linked
  <1>3. prevId[k] # Nil
    BY <1>1, <1>2, NodesAreIntegers
  <1>4. Contact[k] = k /\ nextId[k] = k /\ inbox[k] = <<>>
    BY <1>3 DEF Waiting, Unlinked
  <1>5. ASSUME NEW c \in Up
        PROVE  c = k
    <2>1. Distance(k, k) <= Distance(k, c) /\ c \in Node
      BY <1>1, <1>2, <1>4, <1>5 DEF After
    <2> QED BY <1>1, <2>1, OnRing DEF Distance
  <1> QED BY <1>1, <1>4, <1>5

LEMMA StableQuiet ==
  ASSUME TypeOK, RingInv, RingStable
  PROVE  NoJoin(inbox) /\ (Up # {} => Founded(Up))
  <1>1. ASSUME NEW n \in Node, n \notin Up
        PROVE  inbox[n] = <<>>
    BY <1>1 DEF RingInv, Calm, Unlinked, Up
  <1>2. CASE Up = {}
    BY <1>1, <1>2 DEF NoJoin
  <1>3. ASSUME NEW k \in Up, Waiting(k)
        PROVE  NoJoin(inbox) /\ Founded(Up)
    <2>1. k \in Node
      BY DEF Up
    <2>2. Up = {k} /\ Contact[k] = k /\ inbox[k] = <<>>
      BY <1>3, <2>1, StableWaiting DEF RingInv
    <2> QED BY <1>1, <2>2 DEF NoJoin, Founded
  <1>4. ASSUME NEW k \in Up, Joined(k)
        PROVE  NoJoin(inbox) /\ Founded(Up)
    BY <1>4 DEF Joined
  <1> QED BY <1>2, <1>3, <1>4 DEF RingInv

LEMMA SettledIsSound ==
  ASSUME TypeOK, RingInv, Settled
  PROVE  Sound(Up)
  <1>1. Linked(Up) /\ NoJoin(inbox) /\ (Up # {} => Founded(Up))
    BY StableIsLinked, StableQuiet DEF Settled
  <1>2. ASSUME NEW n \in Up, NEW i \in DOMAIN inbox[n]
        PROVE  InPlace(Up, n, inbox[n][i])
    <2> DEFINE m == inbox[n][i]
    <2>1. /\ m.cmd = "stbz" => nextId[m.id] = n
          /\ m.cmd = "noti" => m.id \in {n, nextId[n]}
      BY DEF Settled, NothingStale
    <2>2. ASSUME NEW k \in Up, Waiting(k)
          PROVE  InPlace(Up, n, m)
      <3>1. k \in Node
        BY DEF Up
      <3>2. Up = {k} /\ inbox[k] = <<>>
        BY <2>2, <3>1, StableWaiting DEF RingInv, Settled
      <3> QED BY <3>2
    <2>3. ASSUME NEW k \in Up, Joined(k)
          PROVE  InPlace(Up, n, m)
      <3>1. Plausible(k, n, m)
        BY <2>3 DEF Joined
      <3>2. CASE m.cmd = "stbz"
        <4>1. m.id \in Up
          BY <3>1, <3>2 DEF Plausible, Candidate
        <4> QED BY <1>1, <2>1, <3>2, <4>1 DEF Linked, InPlace
      <3>3. CASE m.cmd = "noti"
        BY <1>1, <2>1, <3>3 DEF Linked, InPlace
      <3> QED BY <3>1, <3>2, <3>3 DEF Plausible
    <2> QED BY <2>2, <2>3 DEF RingInv
  <1> QED BY <1>1, <1>2 DEF Sound

LEMMA SoundIsSettled ==
  ASSUME TypeOK, Sound(Up)
  PROVE  Settled
  <1>1. RingStable /\ Up \in SUBSET Node
    BY StableIsLinked DEF Sound, Up
  <1>2. ASSUME NEW n \in Up, NEW i \in DOMAIN inbox[n]
        PROVE  /\ inbox[n][i].cmd = "stbz" => nextId[inbox[n][i].id] = n
               /\ inbox[n][i].cmd = "noti" => inbox[n][i].id \in {n, nextId[n]}
    <2> DEFINE m == inbox[n][i]
    <2>1. InPlace(Up, n, m)
      BY DEF Sound
    <2>2. CASE m.cmd = "stbz"
      <3>1. m.id \in Up /\ After(Up, m.id, n) /\ After(Up, m.id, nextId[m.id])
        BY <2>1, <2>2 DEF InPlace, Sound, Linked
      <3> QED BY <1>1, <2>2, <3>1, AfterUnique
    <2>3. CASE m.cmd = "noti"
      <3>1. (m.id = n \/ After(Up, n, m.id)) /\ After(Up, n, nextId[n])
        BY <2>1, <2>3 DEF InPlace, Sound, Linked
      <3> QED BY <1>1, <2>3, <3>1, AfterUnique
    <2> QED BY <2>1, <2>2, <2>3 DEF InPlace
  <1> QED BY <1>1, <1>2 DEF Settled, NothingStale

\* Whatever a node of a settled ring does next, the ring stays settled.
LEMMA SoundTurn ==
  ASSUME TypeOK, RingInv, Sound(Up), NEW n \in Node, Turn(n)
  PROVE  Up' = Up /\ Sound(Up)'
  <1>1. Calm /\ Linked(Up) /\ NoJoin(inbox) /\ Up \in SUBSET Node
    BY DEF RingInv, Sound, Up
  <1>2. n \in Up /\ (Stabilize(n) \/ Notify(n) \/ AnswerStabilize(n))
    <2>1. \/ Stabilize(n) \/ ForwardJoin(n) \/ AcceptJoin(n) \/ Notify(n)
          \/ AdoptPrev(n) \/ AnswerStabilize(n)
          \/ (Crash(n) /\ Head(inbox[n]).cmd = "join" /\ inbox[n] # <<>>)
      BY <1>1, CalmTurns DEF Crash, Accepting
    <2>2. n \in Up
      BY <2>1 DEF Stabilize, ForwardJoin, AcceptJoin, Notify, AdoptPrev, AnswerStabilize, Crash,
                  Maintaining, Accepting, Up
    <2>3. inbox[n] # <<>> => Head(inbox[n]).cmd # "join"
      BY <1>1, HeadIs DEF NoJoin
    <2>4. prevId[n] # Nil
      BY <1>1, <2>2, NodesAreIntegers DEF Linked
    <2> QED BY <2>1, <2>2, <2>3, <2>4 DEF ForwardJoin, AcceptJoin, AdoptPrev, Maintaining, Accepting
  <1>3. inbox[n] # <<>> => InPlace(Up, n, Head(inbox[n])) \/ Head(inbox[n]).cmd = "join"
    BY <1>2, HeadIs DEF Sound
  <1>4. CalmTurn(n) /\ nextId' = nextId /\ prevId' = prevId
    BY <1>1, <1>2, <1>3, QuietTurn
  <1>5. PICK t \in Up, m \in Message : Upkeep(m) /\ InPlace(Up, t, m) /\ Sends(n, t, m)
    BY <1>1, <1>2, <1>3, QuietTurn
  <1>6. Up' = Up
    BY <1>4 DEF CalmTurn, Up
  <1>7. m.cmd # "join" /\ NoJoin(inbox')
    <2>1. m.cmd # "join"
      BY <1>5 DEF InPlace
    <2> QED BY <1>1, <1>5, <2>1, SentOrNoneJoins
  <1>8. ASSUME NEW p \in Up, NEW i \in DOMAIN inbox'[p]
        PROVE  InPlace(Up, p, inbox'[p][i])
    <2>1. p \in Node
      BY <1>1
    <2> QED BY <1>5, <2>1, NewOrOld DEF Sound
  <1>9. Linked(Up)'
    BY <1>1, <1>4, <1>6 DEF Linked
  <1>10. \A p \in Up : \A i \in DOMAIN inbox'[p] : InPlace(Up, p, inbox[p][i])'
    BY <1>6, <1>8 DEF InPlace
  <1> QED BY <1>6, <1>7, <1>9, <1>10 DEF Sound, Founded, NoJoin

----------------------------------------------------------------------------
(****************************************************************************)
(* The invariant holds of a ring that is launched node by node.             *)
(****************************************************************************)

\* The script starts the next node when the ring has settled: that node waits.
LEMMA LaunchWaits ==
  ASSUME TypeOK, RingInv, NEW k \in Node, SettledLaunch(k)
  PROVE  Calm' /\ Waiting(k)' /\ k \in Up'
  <1> DEFINE m == RingMessage("join", k)
  <1>1. Sound(Up) /\ Calm /\ Up \in SUBSET Node
    BY SettledIsSound DEF SettledLaunch, RingInv, Up
  <1>2. /\ status[k] = "off" /\ status' = [status EXCEPT ![k] = "up"]
        /\ inbox' = IF Contact[k] = k THEN inbox ELSE SendTo(inbox, Contact[k], m)
        /\ UNCHANGED <<nextId, prevId, tick, firstSet>>
    BY DEF SettledLaunch, Launch, Start, ringVars
  <1>3. k \notin Up /\ Up' = Up \cup {k} /\ Up' \ {k} = Up
    BY <1>2 DEF Up, TypeOK
  <1>4. m \in Message /\ m.cmd = "join" /\ m.id = k /\ Upkeep(m)
    BY RingMessageType DEF RingMessage, Upkeep, Cmd
  <1> HIDE DEF m
  <1>5. ASSUME NEW p \in Node, NEW i \in DOMAIN inbox'[p]
        PROVE  \/ i \in DOMAIN inbox[p] /\ inbox'[p][i] = inbox[p][i]
               \/ p = Contact[k] /\ p \in Up /\ inbox'[p][i] = m
    <2>1. inbox \in [Node -> Seq(Message)]
      BY DEF TypeOK
    <2> QED BY <1>2, <1>4, <2>1, SentIs DEF Up
  <1>6. ASSUME NEW p \in Node, p \notin Up
        PROVE  inbox'[p] = inbox[p]
    <2>1. inbox \in [Node -> Seq(Message)]
      BY DEF TypeOK
    <2> QED BY <1>2, <1>6, <2>1, UnsentIs DEF Up
  <1>7. Unlinked(k)'
    BY <1>1, <1>2, <1>3, <1>6 DEF Calm, Unlinked
  <1>8. Calm'
    <2>1. \A p \in Node : \A i \in DOMAIN inbox'[p] : Upkeep(inbox'[p][i])
      BY <1>1, <1>4, <1>5 DEF Calm
    <2>2. ASSUME NEW p \in Node, status'[p] = "off"
          PROVE  Unlinked(p)'
      <3>1. status[p] = "off" /\ p \notin Up
        BY <1>2, <2>2 DEF TypeOK, Up
      <3> QED BY <1>1, <1>2, <1>6, <3>1 DEF Calm, Unlinked
    <2>3. \A p \in Node : status'[p] \in {"off", "up"} /\ ~firstSet'[p]
      BY <1>1, <1>2 DEF Calm, TypeOK
    <2> QED BY <2>1, <2>2, <2>3 DEF Calm
  <1>9. JoinOnce(inbox')
    <2>1. NoJoin(inbox) /\ inbox \in [Node -> Seq(Message)]
      BY <1>1 DEF Sound, TypeOK
    <2>2. CASE Contact[k] = k
      BY <1>2, <2>1, <2>2 DEF NoJoin, JoinOnce
    <2>3. CASE Contact[k] # k
      BY <1>2, <1>4, <2>1, <2>3, SentJoins
    <2> QED BY <2>2, <2>3
  <1>10. ASSUME NEW p \in Up, NEW i \in DOMAIN inbox'[p]
         PROVE  \/ InPlace(Up, p, inbox'[p][i])
                \/ inbox'[p][i].cmd = "join" /\ inbox'[p][i].id = k /\ Contact[k] \in Up
    BY <1>1, <1>4, <1>5 DEF Sound
  <1>11. Waiting(k)'
    <2>1. (Up \ {k})' = Up /\ k \in Up'
      BY <1>3
    <2>2. Linked(Up \ {k})'
      BY <1>1, <1>2, <2>1 DEF Sound, Linked
    <2>3. (Up \ {k})' # {} => Founded(Up \ {k})'
      BY <1>1, <2>1 DEF Sound, Founded
    <2>4. ASSUME NEW p \in (Up \ {k})', NEW i \in DOMAIN inbox'[p]
          PROVE  (\/ InPlace(Up \ {k}, p, inbox[p][i])
                  \/ inbox[p][i].cmd = "join" /\ inbox[p][i].id = k /\ Contact[k] \in Up \ {k})'
      BY <1>10, <2>1 DEF InPlace
    <2>5. JoinOnce(inbox)'
      BY <1>9 DEF JoinOnce
    <2> QED BY <1>7, <2>1, <2>2, <2>3, <2>4, <2>5 DEF Waiting
  <1> QED BY <1>3, <1>8, <1>11

LEMMA WaitingTurn ==
  ASSUME TypeOK, Calm, NEW k \in Node, Waiting(k), NEW n \in Node, Turn(n)
  PROVE  Calm' /\ (Waiting(k)' \/ Joined(k)')
  BY WaitingTurns, WaitingQuiet, WaitingForwardJoin, WaitingAcceptJoin

LEMMA JoinedTurn ==
  ASSUME TypeOK, Calm, NEW k \in Node, Joined(k), NEW n \in Node, Turn(n)
  PROVE  Calm' /\ Joined(k)'
  BY JoinedTurns, JoinedStabilize, JoinedNotify, JoinedAdoptPrev, JoinedAnswer

LEMMA RingStep ==
  ASSUME TypeOK, RingInv, [SettledNext]_vars
  PROVE  RingInv'
  <1>1. Up \in SUBSET Node /\ Calm
    BY DEF RingInv, Up
  <1>2. ASSUME NEW n \in Node, SettledLaunch(n)
        PROVE  RingInv'
    BY <1>2, LaunchWaits DEF RingInv
  <1>3. ASSUME NEW n \in Node, Turn(n)
        PROVE  RingInv'
    <2>1. Up # {}
      <3>1. status[n] = "up"
        BY <1>3 DEF Turn, Stabilize, ForwardJoin, AcceptJoin, Notify, AdoptPrev, AnswerStabilize,
                    Ignore, Relay, Forward, ServePeer, ServeClient, Owned, Crash, DataTurn,
                    Maintaining, Accepting
      <3> QED BY <3>1 DEF Up
    <2>2. PICK k \in Up : Waiting(k) \/ Joined(k)
      BY <2>1 DEF RingInv
    <2>3. k \in Node
      BY <1>1
    <2>4. Calm' /\ (Waiting(k)' \/ Joined(k)')
      BY <1>1, <1>3, <2>2, <2>3, WaitingTurn, JoinedTurn
    <2>5. k \in Up'
      BY <2>4 DEF Waiting, Joined
    <2> QED BY <2>4, <2>5 DEF RingInv
  <1>4. CASE UNCHANGED vars
    <2>1. UNCHANGED <<status, nextId, prevId, tick, firstSet, inbox>>
      BY <1>4 DEF vars, ringVars
    <2>2. Up' = Up
      BY <2>1 DEF Up
    <2>3. Calm'
      BY <1>1, <2>1 DEF Calm, Unlinked
    <2>4. ASSUME NEW k \in Up
          PROVE  Waiting(k) => Waiting(k)'
      <3>1. (Up \ {k})' = Up \ {k}
        BY <2>2
      <3>2. Unlinked(k) => Unlinked(k)'
        BY <2>1 DEF Unlinked
      <3>3. Linked(Up \ {k}) => Linked(Up \ {k})'
        BY <2>1, <3>1 DEF Linked
      <3>4. JoinOnce(inbox) => JoinOnce(inbox)'
        BY <2>1 DEF JoinOnce
      <3>5. Founded(Up \ {k}) => Founded(Up \ {k})'
        BY <3>1 DEF Founded
      <3>6. \A p \in Up \ {k} : \A i \in DOMAIN inbox[p] :
              InPlace(Up \ {k}, p, inbox[p][i]) => InPlace(Up \ {k}, p, inbox[p][i])'
        BY <2>1, <3>1 DEF InPlace
      <3> QED BY <2>1, <2>2, <3>1, <3>2, <3>3, <3>4, <3>5, <3>6 DEF Waiting
    <2>5. ASSUME NEW k \in Up
          PROVE  Joined(k) => Joined(k)'
      BY <2>1, <2>2 DEF Joined, Founded, NoJoin, Plausible, Candidate
    <2> QED BY <2>2, <2>3, <2>4, <2>5 DEF RingInv
  <1> QED BY <1>2, <1>3, <1>4 DEF SettledNext

LEMMA InitCalm == Init => Calm /\ Up = {}
  <1> SUFFICES ASSUME Init
               PROVE  Calm /\ Up = {}
    OBVIOUS
  <1>1. \A n \in Node : status[n] = "off" /\ ~firstSet[n] /\ inbox[n] = <<>> /\ Unlinked(n)
    BY DEF Init, Unlinked
  <1> QED BY <1>1 DEF Calm, Up

LEMMA SettledNextIsNext == [SettledNext]_vars => [Next]_vars
  BY DEF SettledNext, SettledLaunch, Launch, Next

\* The launch discipline is a restriction of what the nodes can do: all that is
\* proved of them holds of the ring that the script builds.
THEOREM SettledIsSpec == SettledSpec => Spec
  BY SettledNextIsNext, PTL DEF SettledSpec, Spec

THEOREM RingInvariant == SettledSpec => [](TypeOK /\ RingInv)
  <1>1. Init => RingInv
    BY InitCalm DEF RingInv
  <1> QED BY <1>1, RingStep, SettledIsSpec, TypeCorrect, PTL DEF SettledSpec

----------------------------------------------------------------------------
(****************************************************************************)
(* What follows for a ring that is launched node by node.                   *)
(****************************************************************************)

\* No node dies while the ring forms: a JOIN never reaches a node whose PREV_ID is
\* still NULL, for the only such node is one that nobody has a JOIN for.
THEOREM NoneDiesWhileJoining == SettledSpec => []NoneDies
  <1>1. RingInv => NoneDies
    BY DEF RingInv, Calm, NoneDies
  <1> QED BY <1>1, RingInvariant, PTL

\* Two nodes with predecessors that are right have no position in common.
LEMMA ArcsApart ==
  ASSUME NEW S \in SUBSET Node, NEW n \in S, NEW m \in S, NEW p \in Position,
         prevId[n] \in S, After(S, prevId[n], n), Owns(n, p),
         prevId[m] \in S, After(S, prevId[m], m), Owns(m, p)
  PROVE  n = m
  <1> DEFINE a == prevId[n]
             b == prevId[m]
  <1>1. Distance(a, p) <= Distance(a, n) /\ Distance(b, p) <= Distance(b, m)
    BY KeptOnArc DEF Owns
  <1>2. Distance(a, n) <= Distance(a, m) /\ Distance(b, m) <= Distance(b, n)
    BY DEF After
  <1>3. /\ a \in Node /\ b \in Node /\ n \in Node /\ m \in Node
        /\ p \in Int /\ 0 <= p /\ p < HashSpace
    BY OnRing DEF Position
  <1> HIDE DEF a, b
  <1> QED BY <1>1, <1>2, <1>3, OnRing DEF Distance

\* run_dht.sh starts one node that has no peer.
OneFounder == \A f, g \in Node : Contact[f] = f /\ Contact[g] = g => f = g

LEMMA RingOneOwner ==
  ASSUME TypeOK, RingInv, OneFounder
  PROVE  OneOwner
  <1> SUFFICES ASSUME NEW n \in Node, NEW m \in Node, NEW p \in Position,
                      Owns(n, p), Owns(m, p)
               PROVE  n = m
    BY DEF OneOwner
  <1>1. n \in Up /\ m \in Up /\ prevId[n] # Nil /\ prevId[m] # Nil /\ Up \in SUBSET Node
    BY DEF Owns, Up
  <1>2. ASSUME NEW k \in Up, Waiting(k)
        PROVE  n = m
    <2> DEFINE R == Up \ {k}
    <2>1. R \in SUBSET Node /\ \A q \in R : prevId[q] \in R /\ After(R, prevId[q], q)
      BY <1>1, <1>2 DEF Waiting, Linked
    <2>2. CASE n \in R /\ m \in R
      BY <2>1, <2>2, ArcsApart
    <2>3. prevId[k] # Nil => R = {}
      <3>1. prevId[k] # Nil => Contact[k] = k
        BY <1>2 DEF Waiting, Unlinked
      <3>2. R # {} => \E f \in R : Contact[f] = f
        BY <1>2 DEF Waiting, Founded
      <3> QED BY <1>1, <2>1, <3>1, <3>2 DEF OneFounder
    <2> QED BY <1>1, <2>2, <2>3
  <1>3. ASSUME NEW k \in Up, Joined(k)
        PROVE  n = m
    <2>1. \A q \in {n, m} : prevId[q] \in Up /\ After(Up, prevId[q], q)
      BY <1>1, <1>3 DEF Joined
    <2> QED BY <1>1, <2>1, ArcsApart
  <1> QED BY <1>1, <1>2, <1>3 DEF RingInv

\* However many nodes join, with whatever SELF_IDs and contacts: no position ever has
\* two owners, neither before nor during nor after the steps of a join.
THEOREM OneOwnerAtATime == OneFounder => (SettledSpec => []OneOwner)
  <1> SUFFICES ASSUME OneFounder
               PROVE  SettledSpec => []OneOwner
    OBVIOUS
  <1>1. TypeOK /\ RingInv => OneOwner
    BY RingOneOwner
  <1> QED BY <1>1, RingInvariant, PTL

\* A newcomer on a node's arc cuts it in two: the node keeps the second part.
LEMMA ArcCut ==
  ASSUME NEW n \in Node, NEW prev \in Node, NEW k \in Node, k # n, ~Pass(n, prev, k),
         NEW p \in Position, ~Pass(n, k, p)
  PROVE  ~Pass(n, prev, p)
  BY OnRing DEF Pass, Position

LEMMA ArcStep ==
  ASSUME TypeOK, RingInv, [SettledNext]_vars, NEW n \in Node, prevId[n] # Nil
  PROVE  prevId'[n] # Nil /\ \A p \in Position : Pass(n, prevId[n], p) => Pass(n, prevId'[n], p)
  <1> DEFINE Same == prevId'[n] = prevId[n]
  <1>1. Same => prevId'[n] # Nil /\ \A p \in Position : Pass(n, prevId[n], p) => Pass(n, prevId'[n], p)
    OBVIOUS
  <1>2. CASE UNCHANGED vars
    BY <1>1, <1>2 DEF vars, ringVars
  <1>3. ASSUME NEW k \in Node, SettledLaunch(k)
        PROVE  Same
    BY <1>3 DEF SettledLaunch, Launch, Start, ringVars
  <1>4. ASSUME NEW q \in Node, Turn(q), ~AcceptJoin(q)
        PROVE  Same
    BY <1>4 DEF TypeOK, Turn, Stabilize, ForwardJoin, Notify, AdoptPrev, AnswerStabilize, Ignore,
                Relay, Forward, ServePeer, ServeClient, Owned, Crash, DataTurn, ringVars
  <1>5. ASSUME NEW q \in Node, AcceptJoin(q)
        PROVE  prevId'[n] # Nil /\ \A p \in Position : Pass(n, prevId[n], p) => Pass(n, prevId'[n], p)
    <2> DEFINE h == Head(inbox[q])
    <2>1. q # n => Same
      BY <1>5 DEF AcceptJoin, TypeOK
    <2>2. CASE q = n
      <3>1. inbox[n] # <<>> /\ h.cmd = "join" /\ Turn(n)
        BY <1>5, <2>2 DEF AcceptJoin, Maintaining, Accepting, Turn
      <3>2. PICK k \in Up : Waiting(k)
        <4>1. n \in Up /\ ~NoJoin(inbox)
          <5>1. status[n] = "up"
            BY <1>5, <2>2 DEF AcceptJoin, Maintaining, Accepting
          <5> QED BY <2>2, <3>1, <5>1, HeadIs DEF NoJoin, Up
        <4> QED BY <4>1 DEF RingInv, Joined
      <3>3. k \in Node /\ n \in Up \ {k} /\ prevId[n] \in Node
        <4>1. k \in Node /\ Up \in SUBSET Node
          BY DEF Up
        <4>2. n \in Up \ {k}
          BY <3>1, <3>2, <4>1, WaitingTurns DEF RingInv
        <4> QED BY <3>2, <4>1, <4>2 DEF Waiting, Linked
      <3>4. h.id = k
        BY <2>2, <3>1, <3>2, <3>3, WaitingHead DEF InPlace
      <3>5. prevId'[n] = k /\ ~Pass(n, prevId[n], k)
        BY <1>5, <2>2, <3>4 DEF AcceptJoin, TypeOK
      <3> QED BY <3>3, <3>5, ArcCut, NodesAreIntegers
    <2> QED BY <1>1, <2>1, <2>2
  <1> QED BY <1>1, <1>2, <1>3, <1>4, <1>5 DEF SettledNext

\* What a node has passed on once it never claims again, and it never forgets its
\* predecessor.
THEOREM ArcsShrink == SettledSpec => ArcsOnlyShrink
  <1> DEFINE Shrinks == \A n \in Node : prevId[n] # Nil =>
               /\ prevId'[n] # Nil
               /\ \A p \in Position : Pass(n, prevId[n], p) => Pass(n, prevId'[n], p)
  <1>1. TypeOK /\ RingInv /\ [SettledNext]_vars => [Shrinks]_vars
    BY ArcStep
  <1> QED BY <1>1, RingInvariant, PTL DEF SettledSpec, ArcsOnlyShrink

\* A ring that has settled does not come loose by itself: until the next node is
\* launched, no STABILIZE and no NOTIFY moves a pointer or says anything new.
THEOREM StaysSettled == SettledSpec => SettledStays
  <1>1. ASSUME TypeOK, RingInv, Settled, Up' = Up, [SettledNext]_vars, TypeOK'
        PROVE  Settled' \/ UNCHANGED vars
    <2>1. Sound(Up)
      BY <1>1, SettledIsSound
    <2>2. ASSUME NEW n \in Node, SettledLaunch(n)
          PROVE  FALSE
      BY <1>1, <2>2 DEF SettledLaunch, Launch, Start, Up, TypeOK
    <2>3. ASSUME NEW n \in Node, Turn(n)
          PROVE  Settled'
      <3>1. Sound(Up)'
        BY <1>1, <2>1, <2>3, SoundTurn
      <3>2. (TypeOK /\ Sound(Up) => Settled)'
        BY SoundIsSettled, PTL
      <3> QED BY <1>1, <3>1, <3>2
    <2> QED BY <1>1, <2>2, <2>3 DEF SettledNext
  <1>2. TypeOK /\ RingInv /\ (TypeOK /\ RingInv)' /\ [SettledNext]_vars
          => [Settled /\ Up' = Up => Settled']_vars
    BY <1>1
  <1> QED BY <1>2, RingInvariant, PTL DEF SettledSpec, SettledStays

----------------------------------------------------------------------------
(****************************************************************************)
(* And once its clients have come.  They find every node with a predecessor *)
(* and no JOIN under way, and since no request is ever taken for a JOIN no  *)
(* arc moves again, though NEXT_IDs may be told anew by STABILIZEs that are *)
(* still going round.                                                       *)
(****************************************************************************)
InService ==
  /\ Up = Node
  /\ NoJoin(inbox)
  /\ \A n \in Node : prevId[n] \in Node /\ After(Node, prevId[n], n)

ClientsInv == RingInv \/ InService

\* The first request finds the ring in service.
LEMMA FirstCall ==
  ASSUME TypeOK, RingInv \/ InService, Up = Node, RingStable \/ InService, Calls
  PROVE  InService'
  <1>1. InService
    <2>1. ASSUME RingInv, RingStable
          PROVE  InService
      <3>1. Linked(Node) /\ NoJoin(inbox)
        BY <2>1, StableIsLinked, StableQuiet
      <3> QED BY <3>1 DEF Linked, InService
    <2> QED BY <2>1
  <1>2. PICK c \in Client, r \in Request : Call(c, r)
    BY DEF Calls
  <1>3. UNCHANGED <<status, prevId>> /\ r.node \in Node
    BY <1>2 DEF Call, ringVars, Request
  <1>4. NoJoin(inbox')
    <2> SUFFICES ASSUME NEW p \in Node, NEW i \in DOMAIN inbox'[p]
                 PROVE  inbox'[p][i].cmd # "join"
      BY DEF NoJoin
    <2>1. inbox \in [Node -> Seq(Message)]
      BY DEF TypeOK
    <2>2. ClientMessage(c, r) \in Message /\ ClientMessage(c, r).cmd = "none"
      BY ClientMessageType DEF ClientMessage
    <2>3. CASE p = r.node
      <3>1. inbox'[p] = Append(inbox[p], ClientMessage(c, r)) /\ inbox[p] \in Seq(Message)
        BY <1>2, <2>1, <2>3 DEF Call
      <3>2. \/ i \in DOMAIN inbox[p] /\ inbox'[p][i] = inbox[p][i]
            \/ inbox'[p][i] = ClientMessage(c, r)
        BY <2>2, <3>1
      <3> QED BY <1>1, <2>2, <3>2 DEF InService, NoJoin
    <2>4. CASE p # r.node
      <3>1. inbox'[p] = inbox[p]
        BY <1>2, <2>1, <2>4 DEF Call
      <3> QED BY <1>1, <3>1 DEF InService, NoJoin
    <2> QED BY <2>3, <2>4
  <1> QED BY <1>1, <1>3, <1>4 DEF InService, Up, NoJoin

\* A turn that leaves the predecessors alone and sends no JOIN.
LEMMA InServiceKept ==
  ASSUME TypeOK, InService, status' = status, prevId' = prevId,
         NEW n \in Node, NEW t, NEW m, m.cmd # "join", Sends(n, t, m)
  PROVE  InService'
  <1>1. NoJoin(inbox')
    BY SentOrNoneJoins DEF InService
  <1> QED BY <1>1 DEF InService, Up, NoJoin

LEMMA InServiceTurn ==
  ASSUME TypeOK, InService, NEW n \in Node, Turn(n)
  PROVE  InService'
  <1> DEFINE h == Head(inbox[n])
  <1>1. prevId[n] \in Node /\ prevId[n] # Nil /\ nextId[n] \in Node
    BY NodesAreIntegers DEF InService, TypeOK
  <1>2. inbox[n] # <<>> => h.cmd # "join" /\ h \in Message
    BY HeadIs, AcceptedType DEF InService, NoJoin
  <1>3. ~ForwardJoin(n) /\ ~AcceptJoin(n) /\ ~AdoptPrev(n) /\ ~Crash(n)
    BY <1>1, <1>2 DEF ForwardJoin, AcceptJoin, AdoptPrev, Crash, Maintaining, Accepting
  <1>4. CASE Stabilize(n)
    <2>1. RingMessage("stbz", n) \in Message /\ RingMessage("stbz", n).cmd # "join"
      BY RingMessageType DEF RingMessage, Cmd
    <2>2. Sends(n, nextId[n], RingMessage("stbz", n))
      BY <1>4, <2>1 DEF Stabilize, Sends
    <2> QED BY <1>4, <2>1, <2>2, InServiceKept DEF Stabilize, ringVars
  <1>5. CASE AnswerStabilize(n)
    <2>1. RingMessage("noti", prevId[n]) \in Message /\ RingMessage("noti", prevId[n]).cmd # "join"
      BY <1>1, RingMessageType DEF RingMessage, Cmd
    <2>2. Sends(n, h.id, RingMessage("noti", prevId[n]))
      BY <1>5, <2>1 DEF AnswerStabilize, Sends, Maintaining, Accepting
    <2> QED BY <1>5, <2>1, <2>2, InServiceKept DEF AnswerStabilize, ringVars, Maintaining
  <1>6. ASSUME Notify(n) \/ Ignore(n) \/ Relay(n) \/ ServeClient(n)
        PROVE  InService'
    <2>1. inbox[n] # <<>> /\ inbox' = Accepted(n) /\ status' = status /\ prevId' = prevId
      BY <1>6 DEF Notify, Ignore, Relay, ServeClient, Owned, DataTurn, Maintaining, Accepting, ringVars
    <2>2. Sends(n, n, h)
      BY <1>2, <2>1 DEF Sends
    <2> QED BY <1>2, <2>1, <2>2, InServiceKept
  <1>7. CASE Forward(n)
    <2>1. /\ inbox[n] # <<>> /\ status' = status /\ prevId' = prevId
          /\ inbox' = SendTo(Accepted(n), nextId[n], Onward(n, h)) /\ ~(h.intl /\ h.cmd = "ack")
      BY <1>7 DEF Forward, DataTurn, Accepting, ringVars
    <2>2. Onward(n, h) \in Message /\ Onward(n, h).cmd # "join"
      <3>1. Onward(n, h) \in Message
        BY <1>2, <2>1, OnwardType
      <3>2. Onward(n, h).cmd # "join"
        BY <1>2, <2>1 DEF Onward, Message
      <3> QED BY <3>1, <3>2
    <2>3. Sends(n, nextId[n], Onward(n, h))
      BY <2>1, <2>2 DEF Sends
    <2> QED BY <2>1, <2>2, <2>3, InServiceKept
  <1>8. CASE ServePeer(n)
    <2>1. inbox[n] # <<>> /\ status' = status /\ prevId' = prevId
      BY <1>8 DEF ServePeer, Owned, DataTurn, Accepting, ringVars
    <2>2. PICK ack \in Message : ack.cmd = "ack" /\ inbox' = SendTo(Accepted(n), h.id, ack)
      BY <1>8, ServePeerAck
    <2>3. Sends(n, h.id, ack)
      BY <2>1, <2>2 DEF Sends
    <2> QED BY <2>1, <2>2, <2>3, InServiceKept
  <1> QED BY <1>3, <1>4, <1>5, <1>6, <1>7, <1>8 DEF Turn

LEMMA ClientsStep ==
  ASSUME TypeOK, ClientsInv, [ClientsNext]_vars
  PROVE  ClientsInv'
  <1>1. CASE [SettledNext]_vars /\ RingInv
    BY <1>1, RingStep DEF ClientsInv
  <1>2. ASSUME NEW n \in Node, SettledLaunch(n), InService
        PROVE  FALSE
    BY <1>2 DEF SettledLaunch, Launch, Start, InService, Up
  <1>3. ASSUME NEW n \in Node, Turn(n), InService
        PROVE  ClientsInv'
    BY <1>3, InServiceTurn DEF ClientsInv
  <1>4. CASE UNCHANGED vars /\ InService
    BY <1>4 DEF vars, ringVars, InService, Up, NoJoin, ClientsInv
  <1>5. CASE Up = Node /\ RingStable /\ Calls
    BY <1>5, FirstCall DEF ClientsInv
  <1> QED BY <1>1, <1>2, <1>3, <1>4, <1>5 DEF ClientsNext, SettledNext, ClientsInv

\* What is proved of nodes and clients in general holds of these.
THEOREM ClientsIsSpec == ClientsSpec => Spec
  <1>1. [ClientsNext]_vars => [Next]_vars
    BY SettledNextIsNext DEF ClientsNext, Next
  <1> QED BY <1>1, PTL DEF ClientsSpec, Spec

LEMMA ClientsInvariant == ClientsSpec => [](TypeOK /\ ClientsInv)
  <1>1. Init => ClientsInv
    BY InitCalm DEF RingInv, ClientsInv
  <1> QED BY <1>1, ClientsStep, ClientsIsSpec, TypeCorrect, PTL DEF ClientsSpec

\* Nor does a node die when the clients come, however far the nodes have got in
\* noticing each other and the first requests.
THEOREM NoneDiesInService == ClientsSpec => []NoneDies
  <1>1. ClientsInv => NoneDies
    BY DEF ClientsInv, RingInv, Calm, InService, NoneDies, Up
  <1> QED BY <1>1, ClientsInvariant, PTL

LEMMA ClientsOneOwner ==
  ASSUME TypeOK, ClientsInv, OneFounder
  PROVE  OneOwner
  <1>1. ASSUME InService, NEW n \in Node, NEW m \in Node, NEW p \in Position,
               Owns(n, p), Owns(m, p)
        PROVE  n = m
    BY <1>1, ArcsApart DEF InService
  <1>2. InService => OneOwner
    BY <1>1 DEF OneOwner
  <1> QED BY <1>2, RingOneOwner DEF ClientsInv

\* The arcs stay apart under the clients' requests, and what is stored stays on its
\* owner's arc: so a key is never stored at two nodes.
THEOREM StoredOnceInService == OneFounder => (ClientsSpec => []StoredOnce)
  <1> SUFFICES ASSUME OneFounder
               PROVE  ClientsSpec => []StoredOnce
    OBVIOUS
  <1>1. TypeOK /\ ClientsInv /\ StoredAtOwner => StoredOnce
    <2> SUFFICES ASSUME TypeOK, ClientsInv, StoredAtOwner,
                        NEW n \in Node, NEW m \in Node, NEW k \in Key,
                        table[n][k] # Nil, table[m][k] # Nil
                 PROVE  n = m
      BY DEF StoredOnce
    <2>1. KeyHash[k] \in Position
      BY KeyAssumption DEF Position
    <2>2. \A q \in {n, m} : prevId[q] # Nil /\ ~Pass(q, prevId[q], KeyHash[k])
      BY DEF StoredAtOwner
    <2>3. \A q \in {n, m} : status[q] = "up"
      <3>1. \A q \in {n, m} : firstSet[q]
        BY DEF StoredAtOwner
      <3>2. ~RingInv
        BY <3>1 DEF RingInv, Calm
      <3> QED BY <3>2 DEF ClientsInv, InService, Up
    <2>4. OneOwner
      BY ClientsOneOwner
    <2> QED BY <2>1, <2>2, <2>3, <2>4 DEF OneOwner, Owns
  <1> QED BY <1>1, ClientsInvariant, ClientsIsSpec, PairsStayAtOwner, PTL

----------------------------------------------------------------------------
(****************************************************************************)
(* The ring against the clock.                                              *)
(****************************************************************************)

LEMMA TimedStep ==
  ASSUME TimedTypeOK, [TimedNext]_timedVars
  PROVE  TimedTypeOK'
  <1>1. CASE SecondPasses
    BY <1>1, TimeAssumption DEF SecondPasses, TimedTypeOK
  <1>2. ASSUME NEW n \in Node, TimedLaunch(n)
        PROVE  TimedTypeOK'
    BY <1>2 DEF TimedLaunch, TimedTypeOK
  <1>3. ASSUME NEW n \in Node, TimedTurn(n)
        PROVE  TimedTypeOK'
    <2>1. now' = now /\ now + 1 \in 0 .. Horizon + 1
      BY <1>3, TimeAssumption DEF TimedTurn, TimedTypeOK
    <2>2. wake' = wake \/ wake' = [wake EXCEPT ![n] = now + 1]
      BY <1>3 DEF TimedTurn
    <2> QED BY <2>1, <2>2 DEF TimedTypeOK
  <1>4. CASE UNCHANGED timedVars
    BY <1>4 DEF timedVars, TimedTypeOK
  <1> QED BY <1>1, <1>2, <1>3, <1>4 DEF TimedNext

\* The clock of the model never runs past its bound, and no sleep(1) that begins
\* within it ends more than a second after.
THEOREM TimedTypeCorrect == TimedSpec => []TimedTypeOK
  <1>1. TimedInit => TimedTypeOK
    BY TimeAssumption DEF TimedInit, TimedTypeOK
  <1> QED BY <1>1, TimedStep, PTL DEF TimedSpec

\* Time only orders what the nodes do: every step against the clock is a step of the
\* nodes or none, so that their types stay right under any launch times.
THEOREM TimedRingTypeCorrect == TimedSpec => []TypeOK
  <1>1. TimedInit => TypeOK
    BY InitType DEF TimedInit
  <1>2. TypeOK /\ [TimedNext]_timedVars => TypeOK'
    <2>1. [TimedNext]_timedVars => [Next]_vars
      BY DEF TimedNext, SecondPasses, TimedLaunch, TimedTurn, Launch, Next, timedVars
    <2> QED BY <2>1, TypeStep
  <1> QED BY <1>1, <1>2, PTL DEF TimedSpec
================================================================================
