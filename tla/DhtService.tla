------------------------------ MODULE DhtService -------------------------------
(****************************************************************************)
(* The ring in service: every node has found its place and has seen a       *)
(* request, so that the pointers no longer move and no STABILIZE is sent.   *)
(* If each client then talks to a node that no other client uses at the     *)
(* same time, the ring implements KVStore.                                  *)
(****************************************************************************)
EXTENDS Dht

CONSTANT Gateway   \* the node that each client is connected to
ASSUME GatewayAssumption == Gateway \in [Client -> Node]

RingSuccessor(n) ==
  CHOOSE m \in Node : \A k \in Node : Distance(n, m) <= Distance(n, k)
RingPredecessor(n) ==
  CHOOSE m \in Node : \A k \in Node : Distance(m, n) <= Distance(k, n)

\* The stable ring after one SET, GET or DEL at each of its nodes, once the
\* ring messages that were under way are used up.
ServiceInit ==
  /\ status = [n \in Node |-> "up"]
  /\ nextId = [n \in Node |-> RingSuccessor(n)]
  /\ prevId = [n \in Node |-> RingPredecessor(n)]
  /\ tick = [n \in Node |-> 0]
  /\ firstSet = [n \in Node |-> TRUE]
  /\ clientSocket = [n \in Node |-> Nil]
  /\ inbox = [n \in Node |-> <<>>]
  /\ table = [n \in Node |-> [k \in Key |-> Nil]]
  /\ call = [c \in Client |-> Nil]
  /\ answer = [c \in Client |-> NotFound]

GatewayCalls ==
  \E c \in Client, r \in Request : r.node = Gateway[c] /\ WellFormed(r) /\ Call(c, r)

ServiceNext == GatewayCalls \/ \E n \in Node : Turn(n)

ServiceSpec == ServiceInit /\ [][ServiceNext]_vars /\ Fairness

----------------------------------------------------------------------------
\* The node whose arc holds a position.
Owner(position) == CHOOSE n \in Node : ~Pass(n, RingPredecessor(n), position)

\* The acknowledgements that are on their way to node n.
Acks(n) == {i \in DOMAIN inbox[n] : inbox[n][i].cmd = "ack"}

Outstanding(c) ==
  IF call[c] # Nil /\ Acks(Gateway[c]) # {}
  THEN RelayedReply(inbox[Gateway[c]][CHOOSE i \in Acks(Gateway[c]) : TRUE])
  ELSE Nil

\* What a client sees of an answer: the key that accompanies a reply without
\* element is not looked at by do_rpc().
Seen(a) == IF a = Nil \/ a.get THEN a ELSE NotFound

Store == INSTANCE KVStore WITH
  store  <- [k \in Key |-> table[Owner(KeyHash[k])][k]],
  call   <- call,
  done   <- [c \in Client |-> Seen(Outstanding(c))],
  answer <- [c \in Client |-> Seen(answer[c])],
  Request <- {r \in Request : WellFormed(r)}

\* Clients that use different nodes cannot tell the ring from a single store:
\* whichever node a request enters at and however many it is passed through,
\* it takes effect once, at its owner, and exactly its own answer comes back
\* to exactly the client that waits for it.
ImplementsStore == Store!StoreSafety

\* And it does come back, however far the request has to go.
AnswersAsStore == Store!StoreFairness

\* do_rpc() returns: a client that waits for a reply gets it in the end.
EveryCallReturns == \A c \in Client : call[c] # Nil ~> call[c] = Nil

\* At most one acknowledgement is ever on its way to a node, for the client
\* whose socket the node has saved: none arrives for a client that is gone.
OneAckPerClient ==
  \A n \in Node :
    /\ Cardinality(Acks(n)) <= 1
    /\ Acks(n) # {} => clientSocket[n] # Nil
================================================================================
