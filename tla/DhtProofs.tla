------------------------------- MODULE DhtProofs -------------------------------
(****************************************************************************)
(* Safety of a node of the ring for any number of nodes, clients, keys and  *)
(* values, any contacts and any order of launches and calls: the theorems   *)
(* are about Spec of Dht and assume only what the ASSUMEs there say.        *)
(****************************************************************************)
EXTENDS Dht, TLAPS

----------------------------------------------------------------------------
(****************************************************************************)
(* Queues and messages.                                                     *)
(****************************************************************************)

\* SELF_IDs are integers and none of them is NULL.
LEMMA NodesAreIntegers ==
  ASSUME NEW n \in Node
  PROVE  n \in Int /\ n # Nil
  BY HashSpaceAssumption, NodeAssumption, NilAssumption

\* Appending to one of several queues, which connect() and send() do.
LEMMA AppendType ==
  ASSUME NEW S, NEW I, NEW queues \in [I -> Seq(S)], NEW n, NEW m \in S
  PROVE  [queues EXCEPT ![n] = Append(@, m)] \in [I -> Seq(S)]
  <1>1. [queues EXCEPT ![n] = Append(queues[n], m)] \in [I -> Seq(S)]
    <2>1. CASE n \in I
      <3>1. Append(queues[n], m) \in Seq(S)
        BY <2>1
      <3> QED BY <3>1, <2>1
    <2>2. CASE n \notin I
      BY <2>2
    <2> QED BY <2>1, <2>2
  <1> QED BY <1>1

\* Whomever a node connects to and whether or not the connection is accepted,
\* the accept queues remain queues of messages.
LEMMA SendToType ==
  ASSUME NEW queues \in [Node -> Seq(Message)], NEW n, NEW m \in Message
  PROVE  SendTo(queues, n, m) \in [Node -> Seq(Message)]
  <1>1. [queues EXCEPT ![n] = Append(@, m)] \in [Node -> Seq(Message)]
    BY AppendType
  <1> QED BY <1>1 DEF SendTo

\* Taking a connection off a queue leaves a queue of messages.
LEMMA AcceptedType ==
  ASSUME TypeOK, NEW n \in Node, inbox[n] # <<>>
  PROVE  /\ Accepted(n) \in [Node -> Seq(Message)]
         /\ Head(inbox[n]) \in Message
  <1>1. inbox \in [Node -> Seq(Message)]
    BY DEF TypeOK
  <1>2. Tail(inbox[n]) \in Seq(Message) /\ Head(inbox[n]) \in Message
    BY <1>1
  <1> QED BY <1>1, <1>2 DEF Accepted

\* The ring messages of stabilize(), notify() and join() are well formed.
LEMMA RingMessageType ==
  ASSUME NEW cmd \in Cmd, NEW id \in Node
  PROVE  RingMessage(cmd, id) \in Message
  BY DEF RingMessage, Message, NodeOrNil, Op

\* So are the requests of a client.
LEMMA ClientMessageType ==
  ASSUME NEW c \in Client, NEW r \in Request
  PROVE  ClientMessage(c, r) \in Message
  BY DEF ClientMessage, Message, Request, NodeOrNil, Op, Cmd

\* What requestFromNextPeer() passes on is a message again, and names a node.
LEMMA OnwardType ==
  ASSUME NEW n \in Node, NEW m \in Message, ~(m.intl /\ m.cmd = "ack")
  PROVE  Onward(n, m) \in Message
  BY DEF Onward, Message, NodeOrNil, Cmd

\* What a node stores and answers for a message of its own type.
LEMMA OutcomeType ==
  ASSUME NEW m \in Message, NEW found \in Value \cup {Nil}
  PROVE  /\ Outcome(m, found).op \in Op
         /\ Outcome(m, found).key \in Key \cup {Nil}
         /\ Outcome(m, found).val \in Value \cup {Nil}
  BY DEF Outcome, Message, Op

LEMMA AppliedType ==
  ASSUME TypeOK, NEW n \in Node, NEW m \in Message
  PROVE  Applied(n, m) \in [Node -> [Key -> Value \cup {Nil}]]
  BY DEF Applied, TypeOK, Message

----------------------------------------------------------------------------
(****************************************************************************)
(* pass().                                                                  *)
(****************************************************************************)

\* A node keeps exactly the positions that lie on its arc: those that are no
\* further from its predecessor, clockwise, than the node itself.  The first
\* comparison of pass() covers arcs that do not wrap around, the second one the
\* rest of those that do, and a node that is its own predecessor keeps all.
\* SELF_ID 0 is the exception, see PassAtZero.
THEOREM PassIsArc ==
  ASSUME NEW self \in 1 .. HashSpace - 1, NEW prev \in 0 .. HashSpace - 1,
         NEW key \in 0 .. HashSpace - 1
  PROVE  ~Pass(self, prev, key) <=> Distance(prev, key) <= Distance(prev, self)
  BY HashSpaceAssumption DEF Pass, Distance

\* A node with SELF_ID 0 passes position 0 on, its own: tempSelf is HASH_SPACE
\* and not more, so that the second comparison never applies.  No node of a
\* ring that contains it keeps that position.  Every other position it decides
\* as PassIsArc says of the other SELF_IDs.
THEOREM PassAtZero ==
  ASSUME NEW prev \in 0 .. HashSpace - 1
  PROVE  /\ Pass(0, prev, 0)
         /\ \A key \in 1 .. HashSpace - 1 :
              ~Pass(0, prev, key) <=> Distance(prev, key) <= Distance(prev, 0)
  BY HashSpaceAssumption DEF Pass, Distance

----------------------------------------------------------------------------
(****************************************************************************)
(* Type correctness, one lemma per part of the loop.                        *)
(****************************************************************************)
LEMMA InitType == Init => TypeOK
  BY HashSpaceAssumption, NodeAssumption, ContactAssumption
  DEF Init, TypeOK, NodeOrNil, NotFound, Answer

LEMMA TickType ==
  ASSUME TypeOK, NEW n \in Node, NextTick(n)
  PROVE  tick' \in [Node -> 0 .. 2]
  <1>1. tick[n] \in 0 .. 2
    BY DEF TypeOK
  <1>2. (tick[n] + 1) % 3 \in 0 .. 2
    BY <1>1, SMT
  <1> QED BY <1>2 DEF TypeOK, NextTick

\* A node that comes up, by itself or through a peer.
LEMMA StartType ==
  ASSUME TypeOK, NEW n \in Node, Start(n)
  PROVE  TypeOK'
  <1>1. inbox' \in [Node -> Seq(Message)]
    <2>1. RingMessage("join", n) \in Message
      BY RingMessageType DEF Cmd
    <2> QED BY <2>1, SendToType DEF Start, TypeOK
  <1>2. status' \in [Node -> {"off", "up", "dead"}]
    BY DEF Start, TypeOK
  <1>3. UNCHANGED <<nextId, prevId, tick, firstSet, clientSocket, table, call, answer>>
    BY DEF Start, ringVars, clientVars
  <1> QED BY <1>1, <1>2, <1>3 DEF TypeOK

\* The turn that sends a STABILIZE.
LEMMA StabilizeType ==
  ASSUME TypeOK, NEW n \in Node, Stabilize(n)
  PROVE  TypeOK'
  <1>1. inbox' \in [Node -> Seq(Message)]
    <2>1. RingMessage("stbz", n) \in Message
      BY RingMessageType DEF Cmd
    <2> QED BY <2>1, SendToType DEF Stabilize, TypeOK
  <1>2. tick' \in [Node -> 0 .. 2]
    BY TickType DEF Stabilize
  <1> QED BY <1>1, <1>2 DEF Stabilize, TypeOK, ringVars, clientVars

\* The turns that maintain the ring: what they share keeps its type, and the
\* message at hand is about a node.
LEMMA MaintainingType ==
  ASSUME TypeOK, NEW n \in Node, NEW cmd \in Cmd, Maintaining(n, cmd)
  PROVE  /\ tick' \in [Node -> 0 .. 2]
         /\ UNCHANGED <<status, firstSet, clientSocket, table, call, answer>>
         /\ Accepted(n) \in [Node -> Seq(Message)]
         /\ Head(inbox[n]) \in Message
         /\ Head(inbox[n]).cmd = cmd
         /\ cmd \in {"join", "noti", "stbz"} => Head(inbox[n]).id \in Node
  <1>1. inbox[n] # <<>>
    BY DEF Maintaining, Accepting
  <1>2. /\ Accepted(n) \in [Node -> Seq(Message)]
        /\ Head(inbox[n]) \in Message
    BY <1>1, AcceptedType
  <1>3. tick' \in [Node -> 0 .. 2]
    BY TickType DEF Maintaining
  <1>4. Head(inbox[n]).cmd = cmd
    BY DEF Maintaining
  <1>5. cmd \in {"join", "noti", "stbz"} => Head(inbox[n]).id \in Node
    BY <1>2, <1>4 DEF Message
  <1> QED BY <1>2, <1>3, <1>4, <1>5 DEF Maintaining, clientVars

LEMMA ForwardJoinType ==
  ASSUME TypeOK, NEW n \in Node, ForwardJoin(n)
  PROVE  TypeOK'
  <1>1. Maintaining(n, "join")
    BY DEF ForwardJoin
  <1>2. inbox' \in [Node -> Seq(Message)]
    BY <1>1, MaintainingType, SendToType DEF ForwardJoin, Cmd
  <1> QED BY <1>1, <1>2, MaintainingType DEF ForwardJoin, TypeOK, ringVars, Cmd

LEMMA AcceptJoinType ==
  ASSUME TypeOK, NEW n \in Node, AcceptJoin(n)
  PROVE  TypeOK'
  <1> DEFINE m == Head(inbox[n])
  <1>1. Maintaining(n, "join")
    BY DEF AcceptJoin
  <1>2. m.id \in Node
    BY <1>1, MaintainingType DEF Cmd
  <1>3. inbox' \in [Node -> Seq(Message)]
    <2>1. RingMessage("noti", m.id) \in Message
      BY <1>2, RingMessageType DEF Cmd
    <2>2. Accepted(n) \in [Node -> Seq(Message)]
      BY <1>1, MaintainingType DEF Cmd
    <2> QED BY <2>1, <2>2, SendToType DEF AcceptJoin
  <1>4. nextId' \in [Node -> Node] /\ prevId' \in [Node -> NodeOrNil]
    BY <1>2 DEF AcceptJoin, TypeOK, NodeOrNil
  <1> QED BY <1>1, <1>3, <1>4, MaintainingType DEF TypeOK, Cmd

LEMMA NotifyType ==
  ASSUME TypeOK, NEW n \in Node, Notify(n)
  PROVE  TypeOK'
  <1> DEFINE m == Head(inbox[n])
  <1>1. Maintaining(n, "noti")
    BY DEF Notify
  <1>2. m.id \in Node
    BY <1>1, MaintainingType DEF Cmd
  <1>3. inbox' \in [Node -> Seq(Message)]
    BY <1>1, MaintainingType DEF Notify, Cmd
  <1>4. nextId' \in [Node -> Node]
    BY <1>2 DEF Notify, TypeOK
  <1> QED BY <1>1, <1>3, <1>4, MaintainingType DEF Notify, TypeOK, Cmd

LEMMA AdoptPrevType ==
  ASSUME TypeOK, NEW n \in Node, AdoptPrev(n)
  PROVE  TypeOK'
  <1> DEFINE m == Head(inbox[n])
  <1>1. Maintaining(n, "stbz")
    BY DEF AdoptPrev
  <1>2. m.id \in Node
    BY <1>1, MaintainingType DEF Cmd
  <1>3. inbox' \in [Node -> Seq(Message)]
    BY <1>1, MaintainingType DEF AdoptPrev, Cmd
  <1>4. prevId' \in [Node -> NodeOrNil]
    BY <1>2 DEF AdoptPrev, TypeOK, NodeOrNil
  <1> QED BY <1>1, <1>3, <1>4, MaintainingType DEF AdoptPrev, TypeOK, Cmd

LEMMA AnswerStabilizeType ==
  ASSUME TypeOK, NEW n \in Node, AnswerStabilize(n)
  PROVE  TypeOK'
  <1>1. Maintaining(n, "stbz")
    BY DEF AnswerStabilize
  <1>2. prevId[n] \in Node
    BY DEF AnswerStabilize, TypeOK, NodeOrNil
  <1>3. inbox' \in [Node -> Seq(Message)]
    <2>1. RingMessage("noti", prevId[n]) \in Message
      BY <1>2, RingMessageType DEF Cmd
    <2>2. Accepted(n) \in [Node -> Seq(Message)]
      BY <1>1, MaintainingType DEF Cmd
    <2> QED BY <2>1, <2>2, SendToType DEF AnswerStabilize
  <1> QED BY <1>1, <1>3, MaintainingType DEF AnswerStabilize, TypeOK, ringVars, Cmd

LEMMA IgnoreType ==
  ASSUME TypeOK, NEW n \in Node, Ignore(n)
  PROVE  TypeOK'
  <1>1. PICK cmd \in {"ack", "none"} : Maintaining(n, cmd)
    BY DEF Ignore
  <1>2. cmd \in Cmd
    BY DEF Cmd
  <1> QED BY <1>1, <1>2, MaintainingType DEF Ignore, TypeOK, ringVars

\* The turns of the data branch: what they share.
LEMMA DataTurnType ==
  ASSUME TypeOK, NEW n \in Node, DataTurn(n)
  PROVE  /\ firstSet' \in [Node -> BOOLEAN]
         /\ UNCHANGED <<status, nextId, prevId, tick>>
         /\ Accepted(n) \in [Node -> Seq(Message)]
         /\ Head(inbox[n]) \in Message
  <1>1. inbox[n] # <<>>
    BY DEF DataTurn, Accepting
  <1>2. firstSet' \in [Node -> BOOLEAN]
    BY DEF DataTurn, TypeOK
  <1> QED BY <1>1, <1>2, AcceptedType DEF DataTurn, ringVars

LEMMA RelayType ==
  ASSUME TypeOK, NEW n \in Node, Relay(n)
  PROVE  TypeOK'
  <1> DEFINE m == Head(inbox[n])
  <1>1. DataTurn(n)
    BY DEF Relay
  <1>2. m \in Message
    BY <1>1, DataTurnType
  <1>3. inbox' \in [Node -> Seq(Message)]
    BY <1>1, DataTurnType DEF Relay
  <1>4. clientSocket' \in [Node -> Client \cup {Nil}]
    BY DEF Relay, TypeOK
  <1>5. call' \in [Client -> Request \cup {Nil}]
    BY DEF Relay, TypeOK
  <1>6. answer' \in [Client -> Answer]
    <2>1. RelayedReply(m) \in Answer
      BY <1>2 DEF RelayedReply, Answer, Message
    <2> QED BY <2>1 DEF Relay, TypeOK
  <1>7. table' = table
    BY DEF Relay
  <1> QED BY <1>1, <1>3, <1>4, <1>5, <1>6, <1>7, DataTurnType DEF TypeOK

LEMMA ForwardType ==
  ASSUME TypeOK, NEW n \in Node, Forward(n)
  PROVE  TypeOK'
  <1> DEFINE m == Head(inbox[n])
  <1>1. DataTurn(n)
    BY DEF Forward
  <1>2. m \in Message
    BY <1>1, DataTurnType
  <1>3. inbox' \in [Node -> Seq(Message)]
    <2>1. Onward(n, m) \in Message
      BY <1>2, OnwardType DEF Forward
    <2>2. Accepted(n) \in [Node -> Seq(Message)]
      BY <1>1, DataTurnType
    <2> QED BY <2>1, <2>2, SendToType DEF Forward
  <1>4. clientSocket' \in [Node -> Client \cup {Nil}]
    BY <1>2 DEF Forward, TypeOK, Message
  <1>5. UNCHANGED <<table, call, answer>>
    BY DEF Forward, clientVars
  <1> QED BY <1>1, <1>3, <1>4, <1>5, DataTurnType DEF TypeOK

\* The two ways of serving a request that this node owns.
LEMMA OwnedType ==
  ASSUME TypeOK, NEW n \in Node, Owned(n)
  PROVE  /\ DataTurn(n)
         /\ ~(Head(inbox[n]).intl /\ Head(inbox[n]).cmd = "ack")
         /\ table' \in [Node -> [Key -> Value \cup {Nil}]]
  <1>1. DataTurn(n)
    BY DEF Owned
  <1>2. Head(inbox[n]) \in Message
    BY <1>1, DataTurnType
  <1>3. table' = Applied(n, Head(inbox[n]))
    BY DEF Owned
  <1> QED BY <1>1, <1>2, <1>3, AppliedType DEF Owned

\* The acknowledgement of respondToPeer().
LEMMA ServePeerAck ==
  ASSUME TypeOK, NEW n \in Node, ServePeer(n)
  PROVE  \E ack \in Message :
           /\ ack.intl /\ ack.cmd = "ack"
           /\ inbox' = SendTo(Accepted(n), Head(inbox[n]).id, ack)
  <1> DEFINE m == Head(inbox[n])
             out == Outcome(m, IF m.key = Nil THEN Nil ELSE table[n][m.key])
             ack == [intl |-> TRUE, cmd |-> "ack", op |-> out.op, id |-> Nil,
                     key |-> out.key, val |-> out.val, sock |-> Nil]
  <1>1. m \in Message
    BY OwnedType, DataTurnType DEF ServePeer
  <1>2. (IF m.key = Nil THEN Nil ELSE table[n][m.key]) \in Value \cup {Nil}
    BY <1>1 DEF Message, TypeOK
  <1>3. out.op \in Op /\ out.key \in Key \cup {Nil} /\ out.val \in Value \cup {Nil}
    BY <1>1, <1>2, OutcomeType
  <1>4. ack \in Message /\ ack.intl /\ ack.cmd = "ack"
    BY <1>3 DEF Message, Cmd, NodeOrNil
  <1>5. inbox' = SendTo(Accepted(n), m.id, ack)
    BY DEF ServePeer
  <1> QED BY <1>4, <1>5

LEMMA ServePeerType ==
  ASSUME TypeOK, NEW n \in Node, ServePeer(n)
  PROVE  TypeOK'
  <1>1. DataTurn(n) /\ table' \in [Node -> [Key -> Value \cup {Nil}]]
    BY OwnedType DEF ServePeer
  <1>2. inbox' \in [Node -> Seq(Message)]
    BY <1>1, ServePeerAck, DataTurnType, SendToType
  <1>3. UNCHANGED <<clientSocket, call, answer>>
    BY DEF ServePeer, clientVars
  <1> QED BY <1>1, <1>2, <1>3, DataTurnType DEF TypeOK

LEMMA ServeClientType ==
  ASSUME TypeOK, NEW n \in Node, ServeClient(n)
  PROVE  TypeOK'
  <1> DEFINE m == Head(inbox[n])
             out == Outcome(m, table[n][m.key])
             reply == [get |-> out.op = "get", key |-> m.key, val |-> out.val]
  <1>1. DataTurn(n) /\ table' \in [Node -> [Key -> Value \cup {Nil}]]
    BY OwnedType DEF ServeClient
  <1>2. m \in Message /\ Accepted(n) \in [Node -> Seq(Message)] /\ ~m.intl
    BY <1>1, DataTurnType DEF ServeClient
  <1>3. reply \in Answer
    <2>1. m.key \in Key /\ table[n][m.key] \in Value \cup {Nil}
      BY <1>2 DEF Message, TypeOK
    <2>2. out.val \in Value \cup {Nil}
      BY <1>2, <2>1, OutcomeType
    <2> QED BY <2>1, <2>2 DEF Answer
  <1>4. answer' \in [Client -> Answer]
    <2>1. NotFound \in Answer
      BY DEF NotFound, Answer
    <2> QED BY <1>3, <2>1 DEF ServeClient, TypeOK
  <1>5. inbox' \in [Node -> Seq(Message)]
    BY <1>2 DEF ServeClient
  <1>6. /\ clientSocket' \in [Node -> Client \cup {Nil}]
        /\ call' \in [Client -> Request \cup {Nil}]
    BY DEF ServeClient, TypeOK
  <1> QED BY <1>1, <1>4, <1>5, <1>6, DataTurnType DEF TypeOK

\* The end of a process, and the beginning of a call.
LEMMA CrashType ==
  ASSUME TypeOK, NEW n \in Node, Crash(n)
  PROVE  TypeOK'
  <1>1. status' \in [Node -> {"off", "up", "dead"}]
    BY DEF Crash, TypeOK
  <1>2. inbox' \in [Node -> Seq(Message)]
    <2>1. << >> \in Seq(Message)
      OBVIOUS
    <2> QED BY <2>1 DEF Crash, TypeOK
  <1>3. call' \in [Client -> Request \cup {Nil}]
    BY DEF Crash, TypeOK
  <1>4. answer' \in [Client -> Answer]
    BY DEF Crash, TypeOK, NotFound, Answer
  <1>5. UNCHANGED <<nextId, prevId, tick, firstSet, clientSocket, table>>
    BY DEF Crash, ringVars
  <1> QED BY <1>1, <1>2, <1>3, <1>4, <1>5 DEF TypeOK

LEMMA CallType ==
  ASSUME TypeOK, NEW c \in Client, NEW r \in Request, Call(c, r)
  PROVE  TypeOK'
  <1>1. inbox' \in [Node -> Seq(Message)]
    <2>1. ClientMessage(c, r) \in Message
      BY ClientMessageType
    <2>2. [inbox EXCEPT ![r.node] = Append(@, ClientMessage(c, r))] \in [Node -> Seq(Message)]
      BY <2>1, AppendType DEF TypeOK
    <2> QED BY <2>2 DEF Call
  <1>2. call' \in [Client -> Request \cup {Nil}]
    BY DEF Call, TypeOK
  <1>3. UNCHANGED <<status, nextId, prevId, tick, firstSet, clientSocket, table, answer>>
    BY DEF Call, ringVars
  <1> QED BY <1>1, <1>2, <1>3 DEF TypeOK

LEMMA TypeStep ==
  ASSUME TypeOK, [Next]_vars
  PROVE  TypeOK'
  <1>1. ASSUME NEW n \in Node, Start(n)
        PROVE  TypeOK'
    BY <1>1, StartType
  <1>2. ASSUME NEW n \in Node, Turn(n)
        PROVE  TypeOK'
    BY <1>2, StabilizeType, ForwardJoinType, AcceptJoinType, NotifyType,
       AdoptPrevType, AnswerStabilizeType, IgnoreType, RelayType, ForwardType,
       ServePeerType, ServeClientType, CrashType
    DEF Turn
  <1>3. ASSUME Calls
        PROVE  TypeOK'
    BY <1>3, CallType DEF Calls
  <1>4. CASE UNCHANGED vars
    BY <1>4 DEF TypeOK, vars
  <1> QED BY <1>1, <1>2, <1>3, <1>4 DEF Next

\* The state of every node, every message and every client is always of its
\* type: in particular NEXT_ID, and the sender of any ring message that a
\* handler answers, is a node, whatever the joins and calls before.
THEOREM TypeCorrect == Spec => []TypeOK
  BY InitType, TypeStep, PTL DEF Spec

----------------------------------------------------------------------------
(****************************************************************************)
(* Stored pairs stay on their node's arc.                                   *)
(****************************************************************************)

\* A step that stores nothing and leaves the pointers of serving nodes alone.
LEMMA NothingStored ==
  ASSUME StoredAtOwner, table' = table,
         \A p \in Node : firstSet[p] => firstSet'[p] /\ prevId'[p] = prevId[p]
  PROVE  StoredAtOwner'
  BY DEF StoredAtOwner, Pass

\* Joins, notifications and stabilizations are handled by nodes that have not
\* served a request.
LEMMA MaintainingStored ==
  ASSUME TypeOK, StoredAtOwner, NEW n \in Node, NEW cmd, Maintaining(n, cmd),
         \A p \in Node \ {n} : prevId'[p] = prevId[p]
  PROVE  StoredAtOwner'
  <1>1. ~firstSet[n]
    BY DEF Maintaining, Serving
  <1>2. table' = table /\ firstSet' = firstSet
    BY DEF Maintaining
  <1> QED BY <1>1, <1>2, NothingStored

LEMMA DataTurnStored ==
  ASSUME TypeOK, NEW n \in Node, DataTurn(n)
  PROVE  /\ firstSet'[n]
         /\ \A p \in Node : firstSet[p] => firstSet'[p]
         /\ prevId' = prevId
  BY DEF TypeOK, DataTurn, ringVars

\* A SET is carried out by a node that does not pass its key on, and after it
\* the node's arc stays as it is.
LEMMA OwnedStored ==
  ASSUME TypeOK, StoredAtOwner, NEW n \in Node, Owned(n)
  PROVE  StoredAtOwner'
  <1> DEFINE m == Head(inbox[n])
  <1>1. DataTurn(n) /\ prevId[n] # Nil /\ ~Pass(n, prevId[n], Hash(m.key))
    BY DEF Owned
  <1>2. m \in Message
    BY <1>1, DataTurnType
  <1>3. SUFFICES ASSUME NEW p \in Node, NEW k \in Key, table'[p][k] # Nil
                 PROVE  firstSet'[p] /\ prevId'[p] # Nil /\ ~Pass(p, prevId'[p], KeyHash[k])
    BY DEF StoredAtOwner, Pass
  <1>4. CASE p = n /\ k = m.key
    <2>1. Hash(m.key) = KeyHash[k]
      BY <1>4, NilAssumption DEF Hash
    <2> QED BY <1>1, <1>4, <2>1, DataTurnStored
  <1>5. CASE ~(p = n /\ k = m.key)
    <2>1. table'[p][k] = table[p][k]
      BY <1>5 DEF Owned, Applied, TypeOK
    <2> QED BY <1>1, <1>3, <2>1, DataTurnStored DEF StoredAtOwner
  <1> QED BY <1>4, <1>5

LEMMA StoredStep ==
  ASSUME TypeOK, StoredAtOwner, [Next]_vars
  PROVE  StoredAtOwner'
  <1>1. ASSUME NEW n \in Node, Start(n)
        PROVE  StoredAtOwner'
    BY <1>1, NothingStored DEF Start, ringVars
  <1>2. ASSUME NEW n \in Node, Stabilize(n)
        PROVE  StoredAtOwner'
    BY <1>2, NothingStored DEF Stabilize, ringVars
  <1>3. ASSUME NEW n \in Node, ForwardJoin(n) \/ AnswerStabilize(n)
        PROVE  StoredAtOwner'
    BY <1>3, MaintainingStored DEF ForwardJoin, AnswerStabilize, ringVars
  <1>4. ASSUME NEW n \in Node, Notify(n) \/ Ignore(n)
        PROVE  StoredAtOwner'
    BY <1>4, MaintainingStored DEF Notify, Ignore, ringVars
  <1>5. ASSUME NEW n \in Node, AcceptJoin(n) \/ AdoptPrev(n)
        PROVE  StoredAtOwner'
    <2>1. \A p \in Node \ {n} : prevId'[p] = prevId[p]
      BY <1>5 DEF AcceptJoin, AdoptPrev, TypeOK
    <2> QED BY <1>5, <2>1, MaintainingStored DEF AcceptJoin, AdoptPrev
  <1>6. ASSUME NEW n \in Node, Relay(n) \/ Forward(n)
        PROVE  StoredAtOwner'
    <2>1. DataTurn(n) /\ table' = table
      BY <1>6 DEF Relay, Forward
    <2> QED BY <2>1, DataTurnStored, NothingStored
  <1>7. ASSUME NEW n \in Node, ServePeer(n) \/ ServeClient(n)
        PROVE  StoredAtOwner'
    BY <1>7, OwnedStored DEF ServePeer, ServeClient
  <1>8. ASSUME NEW n \in Node, Crash(n)
        PROVE  StoredAtOwner'
    BY <1>8, NothingStored DEF Crash, ringVars
  <1>9. ASSUME Calls
        PROVE  StoredAtOwner'
    BY <1>9, NothingStored DEF Calls, Call, ringVars
  <1>10. CASE UNCHANGED vars
    BY <1>10, NothingStored DEF vars, ringVars
  <1> QED BY <1>1, <1>2, <1>3, <1>4, <1>5, <1>6, <1>7, <1>8, <1>9, <1>10
          DEF Next, Turn

\* No pair is ever stored at, or left behind at, a node whose arc its key is
\* not on: joins before the first request move arcs, but there is nothing on
\* them yet; joins after it do not move them.
THEOREM PairsStayAtOwner == Spec => []StoredAtOwner
  <1>1. Init => StoredAtOwner
    BY DEF Init, StoredAtOwner
  <1> QED BY <1>1, StoredStep, TypeCorrect, PTL DEF Spec

----------------------------------------------------------------------------
(****************************************************************************)
(* CLIENT_SOCKET is open.  The invariant has to follow a connection from    *)
(* the accept queue to CLIENT_SOCKET: a request in a queue comes from a     *)
(* client that waits at that node, no other request there comes from it,    *)
(* and its socket is not the saved one.  That a node without predecessor    *)
(* saves no socket is what makes the death of a node harmless to it.        *)
(****************************************************************************)
RequestsWait(queues, waiting, saved) ==
  \A n \in Node : \A i \in DOMAIN queues[n] :
    LET m == queues[n][i] IN
    ~m.intl => /\ waiting[m.sock] # Nil
               /\ waiting[m.sock].node = n
               /\ saved[n] # m.sock

RequestsApart(queues) ==
  \A n \in Node : \A i, j \in DOMAIN queues[n] :
    ~queues[n][i].intl /\ ~queues[n][j].intl /\ queues[n][i].sock = queues[n][j].sock
    => i = j

NoPeerNoSocket == \A n \in Node : prevId[n] = Nil => clientSocket[n] = Nil

SocketInvariant ==
  /\ SavedSocketOpen
  /\ RequestsWait(inbox, call, clientSocket)
  /\ RequestsApart(inbox)
  /\ NoPeerNoSocket

\* What is left in the queues after accept(): the same requests, and none of
\* the client whose request was taken.
LEMMA AcceptedRequests ==
  ASSUME TypeOK, NEW n \in Node, inbox[n] # <<>>,
         RequestsWait(inbox, call, clientSocket), RequestsApart(inbox)
  PROVE  /\ RequestsWait(Accepted(n), call, clientSocket)
         /\ RequestsApart(Accepted(n))
         /\ ~Head(inbox[n]).intl =>
              /\ call[Head(inbox[n]).sock] # Nil
              /\ call[Head(inbox[n]).sock].node = n
              /\ \A i \in DOMAIN Accepted(n)[n] :
                   ~Accepted(n)[n][i].intl =>
                     Accepted(n)[n][i].sock # Head(inbox[n]).sock
  <1> DEFINE q == inbox[n]
  <1>1. inbox \in [Node -> Seq(Message)] /\ q \in Seq(Message)
    BY DEF TypeOK
  <1>2. /\ DOMAIN Tail(q) = 1 .. Len(q) - 1
        /\ \A i \in DOMAIN Tail(q) : Tail(q)[i] = q[i + 1] /\ i + 1 \in DOMAIN q
        /\ Head(q) = q[1] /\ 1 \in DOMAIN q
    BY <1>1
  <1>3. Accepted(n)[n] = Tail(q) /\ \A p \in Node \ {n} : Accepted(n)[p] = inbox[p]
    BY <1>1 DEF Accepted
  <1>4. RequestsWait(Accepted(n), call, clientSocket)
    <2>1. \A p \in Node : \A i \in DOMAIN Accepted(n)[p] :
            \E j \in DOMAIN inbox[p] : Accepted(n)[p][i] = inbox[p][j]
      <3> SUFFICES ASSUME NEW p \in Node, NEW i \in DOMAIN Accepted(n)[p]
                   PROVE  \E j \in DOMAIN inbox[p] : Accepted(n)[p][i] = inbox[p][j]
        OBVIOUS
      <3>1. CASE p = n
        <4>1. i \in DOMAIN Tail(q) /\ Accepted(n)[p][i] = Tail(q)[i]
          BY <1>3, <3>1
        <4>2. i + 1 \in DOMAIN q /\ Tail(q)[i] = q[i + 1]
          BY <1>2, <4>1
        <4> QED BY <3>1, <4>1, <4>2
      <3>2. CASE p # n
        BY <1>3, <3>2
      <3> QED BY <3>1, <3>2
    <2> QED BY <2>1 DEF RequestsWait
  <1>5. RequestsApart(Accepted(n))
    <2> SUFFICES ASSUME NEW p \in Node, NEW i \in DOMAIN Accepted(n)[p],
                        NEW j \in DOMAIN Accepted(n)[p],
                        ~Accepted(n)[p][i].intl, ~Accepted(n)[p][j].intl,
                        Accepted(n)[p][i].sock = Accepted(n)[p][j].sock
                 PROVE  i = j
      BY DEF RequestsApart
    <2>1. CASE p = n
      <3>1. i \in DOMAIN Tail(q) /\ j \in DOMAIN Tail(q)
        BY <1>3, <2>1
      <3>2. /\ i + 1 \in DOMAIN q /\ j + 1 \in DOMAIN q
            /\ Accepted(n)[p][i] = q[i + 1] /\ Accepted(n)[p][j] = q[j + 1]
        BY <1>2, <1>3, <2>1, <3>1
      <3>3. i + 1 = j + 1
        BY <3>2 DEF RequestsApart
      <3>4. i \in Int /\ j \in Int
        BY <1>1, <1>2, <3>1
      <3> QED BY <3>3, <3>4
    <2>2. CASE p # n
      BY <1>3, <2>2 DEF RequestsApart
    <2> QED BY <2>1, <2>2
  <1>6. ASSUME ~Head(q).intl
        PROVE  /\ call[Head(q).sock] # Nil
               /\ call[Head(q).sock].node = n
               /\ \A i \in DOMAIN Tail(q) : ~Tail(q)[i].intl => Tail(q)[i].sock # Head(q).sock
    <2>1. \A i \in DOMAIN Tail(q) : i + 1 # 1
      BY <1>2
    <2> QED BY <1>2, <1>6, <2>1 DEF RequestsWait, RequestsApart
  <1> QED BY <1>3, <1>4, <1>5, <1>6

\* A message from a node to a node adds no request.
LEMMA SendToRequests ==
  ASSUME NEW queues \in [Node -> Seq(Message)], NEW n, NEW m \in Message, m.intl,
         NEW waiting, NEW saved,
         RequestsWait(queues, waiting, saved), RequestsApart(queues)
  PROVE  /\ RequestsWait(SendTo(queues, n, m), waiting, saved)
         /\ RequestsApart(SendTo(queues, n, m))
  <1> DEFINE sent == [queues EXCEPT ![n] = Append(@, m)]
  <1>1. \A p \in Node : \A i \in DOMAIN sent[p] :
          ~sent[p][i].intl => i \in DOMAIN queues[p] /\ sent[p][i] = queues[p][i]
    <2> SUFFICES ASSUME NEW p \in Node, NEW i \in DOMAIN sent[p], ~sent[p][i].intl
                 PROVE  i \in DOMAIN queues[p] /\ sent[p][i] = queues[p][i]
      OBVIOUS
    <2>1. CASE p = n
      <3>1. sent[p] = Append(queues[p], m) /\ queues[p] \in Seq(Message)
        BY <2>1
      <3> QED BY <3>1
    <2>2. CASE p # n
      BY <2>2
    <2> QED BY <2>1, <2>2
  <1>2. RequestsWait(sent, waiting, saved)
    BY <1>1 DEF RequestsWait
  <1>3. RequestsApart(sent)
    BY <1>1 DEF RequestsApart
  <1> QED BY <1>2, <1>3 DEF SendTo

\* The steps that touch neither a client nor a saved socket.
LEMMA RingStepSockets ==
  ASSUME SocketInvariant, call' = call, clientSocket' = clientSocket,
         \A p \in Node : prevId'[p] = Nil => prevId[p] = Nil,
         RequestsWait(inbox', call, clientSocket), RequestsApart(inbox')
  PROVE  SocketInvariant'
  BY DEF SocketInvariant, SavedSocketOpen, RequestsWait, RequestsApart, NoPeerNoSocket

LEMMA MaintainingSockets ==
  ASSUME TypeOK, SocketInvariant, NEW n \in Node, NEW cmd, Maintaining(n, cmd)
  PROVE  /\ call' = call /\ clientSocket' = clientSocket
         /\ Accepted(n) \in [Node -> Seq(Message)]
         /\ RequestsWait(Accepted(n), call, clientSocket)
         /\ RequestsApart(Accepted(n))
  <1>1. inbox[n] # <<>>
    BY DEF Maintaining, Accepting
  <1>2. call' = call /\ clientSocket' = clientSocket
    BY DEF Maintaining, clientVars
  <1> QED BY <1>1, <1>2, AcceptedType, AcceptedRequests DEF SocketInvariant

LEMMA StartSockets ==
  ASSUME TypeOK, SocketInvariant, NEW n \in Node, Start(n)
  PROVE  SocketInvariant'
  <1>1. call' = call /\ clientSocket' = clientSocket /\ prevId' = prevId
    BY DEF Start, clientVars, ringVars
  <1>2. RequestsWait(inbox', call, clientSocket) /\ RequestsApart(inbox')
    <2>1. RingMessage("join", n) \in Message /\ RingMessage("join", n).intl
      BY RingMessageType DEF Cmd, RingMessage
    <2>2. inbox \in [Node -> Seq(Message)]
      BY DEF TypeOK
    <2> QED BY <2>1, <2>2, SendToRequests DEF Start, SocketInvariant
  <1> QED BY <1>1, <1>2, RingStepSockets

LEMMA StabilizeSockets ==
  ASSUME TypeOK, SocketInvariant, NEW n \in Node, Stabilize(n)
  PROVE  SocketInvariant'
  <1>1. call' = call /\ clientSocket' = clientSocket /\ prevId' = prevId
    BY DEF Stabilize, clientVars, ringVars
  <1>2. RequestsWait(inbox', call, clientSocket) /\ RequestsApart(inbox')
    <2>1. RingMessage("stbz", n) \in Message /\ RingMessage("stbz", n).intl
      BY RingMessageType DEF Cmd, RingMessage
    <2>2. inbox \in [Node -> Seq(Message)]
      BY DEF TypeOK
    <2> QED BY <2>1, <2>2, SendToRequests DEF Stabilize, SocketInvariant
  <1> QED BY <1>1, <1>2, RingStepSockets

LEMMA ForwardJoinSockets ==
  ASSUME TypeOK, SocketInvariant, NEW n \in Node, ForwardJoin(n)
  PROVE  SocketInvariant'
  <1>1. Maintaining(n, "join")
    BY DEF ForwardJoin
  <1>2. Head(inbox[n]) \in Message /\ Head(inbox[n]).intl
    BY <1>1, MaintainingType DEF Cmd, Message
  <1>3. RequestsWait(inbox', call, clientSocket) /\ RequestsApart(inbox')
    BY <1>1, <1>2, MaintainingSockets, SendToRequests DEF ForwardJoin
  <1> QED BY <1>1, <1>3, MaintainingSockets, RingStepSockets DEF ForwardJoin, ringVars

LEMMA AcceptJoinSockets ==
  ASSUME TypeOK, SocketInvariant, NEW n \in Node, AcceptJoin(n)
  PROVE  SocketInvariant'
  <1> DEFINE m == Head(inbox[n])
  <1>1. Maintaining(n, "join")
    BY DEF AcceptJoin
  <1>2. m.id \in Node
    BY <1>1, MaintainingType DEF Cmd
  <1>3. RequestsWait(inbox', call, clientSocket) /\ RequestsApart(inbox')
    <2>1. RingMessage("noti", m.id) \in Message /\ RingMessage("noti", m.id).intl
      BY <1>2, RingMessageType DEF Cmd, RingMessage
    <2> QED BY <1>1, <2>1, MaintainingSockets, SendToRequests DEF AcceptJoin
  <1>4. \A p \in Node : prevId'[p] = Nil => prevId[p] = Nil
    BY <1>2, NodesAreIntegers DEF AcceptJoin, TypeOK
  <1> QED BY <1>1, <1>3, <1>4, MaintainingSockets, RingStepSockets

LEMMA AdoptPrevSockets ==
  ASSUME TypeOK, SocketInvariant, NEW n \in Node, AdoptPrev(n)
  PROVE  SocketInvariant'
  <1> DEFINE m == Head(inbox[n])
  <1>1. Maintaining(n, "stbz")
    BY DEF AdoptPrev
  <1>2. m.id \in Node
    BY <1>1, MaintainingType DEF Cmd
  <1>3. \A p \in Node : prevId'[p] = Nil => prevId[p] = Nil
    BY <1>2, NodesAreIntegers DEF AdoptPrev, TypeOK
  <1> QED BY <1>1, <1>3, MaintainingSockets, RingStepSockets DEF AdoptPrev

LEMMA AnswerStabilizeSockets ==
  ASSUME TypeOK, SocketInvariant, NEW n \in Node, AnswerStabilize(n)
  PROVE  SocketInvariant'
  <1>1. Maintaining(n, "stbz")
    BY DEF AnswerStabilize
  <1>2. prevId[n] \in Node
    BY DEF AnswerStabilize, TypeOK, NodeOrNil
  <1>3. RequestsWait(inbox', call, clientSocket) /\ RequestsApart(inbox')
    <2>1. RingMessage("noti", prevId[n]) \in Message /\ RingMessage("noti", prevId[n]).intl
      BY <1>2, RingMessageType DEF Cmd, RingMessage
    <2> QED BY <1>1, <2>1, MaintainingSockets, SendToRequests DEF AnswerStabilize
  <1> QED BY <1>1, <1>3, MaintainingSockets, RingStepSockets DEF AnswerStabilize, ringVars

\* NOTIFY, and the messages that are dropped.
LEMMA QuietSockets ==
  ASSUME TypeOK, SocketInvariant, NEW n \in Node, Notify(n) \/ Ignore(n)
  PROVE  SocketInvariant'
  <1>1. PICK cmd : Maintaining(n, cmd)
    BY DEF Notify, Ignore
  <1>2. inbox' = Accepted(n) /\ prevId' = prevId
    BY DEF Notify, Ignore, ringVars
  <1> QED BY <1>1, <1>2, MaintainingSockets, RingStepSockets

\* The turns of the data branch.
LEMMA DataTurnSockets ==
  ASSUME TypeOK, SocketInvariant, NEW n \in Node, DataTurn(n)
  PROVE  /\ prevId' = prevId
         /\ Accepted(n) \in [Node -> Seq(Message)]
         /\ Head(inbox[n]) \in Message
         /\ RequestsWait(Accepted(n), call, clientSocket)
         /\ RequestsApart(Accepted(n))
         /\ ~Head(inbox[n]).intl =>
              /\ call[Head(inbox[n]).sock] # Nil
              /\ call[Head(inbox[n]).sock].node = n
              /\ \A i \in DOMAIN Accepted(n)[n] :
                   ~Accepted(n)[n][i].intl =>
                     Accepted(n)[n][i].sock # Head(inbox[n]).sock
  <1>1. inbox[n] # <<>>
    BY DEF DataTurn, Accepting
  <1>2. prevId' = prevId
    BY DEF DataTurn, ringVars
  <1> QED BY <1>1, <1>2, AcceptedType, AcceptedRequests DEF SocketInvariant

\* When a node has answered some of the clients that wait at it, among them the
\* one whose socket it saved, and forgets that socket, the others still wait.
LEMMA AnsweredSockets ==
  ASSUME TypeOK, SocketInvariant, NEW n \in Node, NEW Gone \in SUBSET Client,
         \A c \in Gone : call[c] # Nil /\ call[c].node = n,
         clientSocket[n] \in Gone \cup {Nil},
         call' = [c \in Client |-> IF c \in Gone THEN Nil ELSE call[c]],
         clientSocket' = [clientSocket EXCEPT ![n] = Nil],
         prevId' = prevId,
         inbox' \in [Node -> Seq(Message)],
         RequestsWait(inbox', call, clientSocket), RequestsApart(inbox'),
         \A i \in DOMAIN inbox'[n] : ~inbox'[n][i].intl => inbox'[n][i].sock \notin Gone
  PROVE  SocketInvariant'
  <1>1. \A p \in Node \ {n} : clientSocket'[p] = clientSocket[p]
    BY DEF TypeOK
  <1>2. clientSocket'[n] = Nil
    BY DEF TypeOK
  <1>3. \A c \in Client : c \notin Gone => call'[c] = call[c]
    OBVIOUS
  <1>4. SavedSocketOpen'
    <2> SUFFICES ASSUME NEW p \in Node, clientSocket'[p] # Nil
                 PROVE  call'[clientSocket'[p]] # Nil /\ call'[clientSocket'[p]].node = p
      BY DEF SavedSocketOpen
    <2>1. p # n /\ clientSocket[p] # Nil /\ clientSocket'[p] = clientSocket[p]
      BY <1>1, <1>2
    <2>2. call[clientSocket[p]] # Nil /\ call[clientSocket[p]].node = p
      BY <2>1 DEF SocketInvariant, SavedSocketOpen
    <2>3. clientSocket[p] \in Client /\ clientSocket[p] \notin Gone
      BY <2>1, <2>2 DEF TypeOK
    <2> QED BY <1>3, <2>1, <2>2, <2>3
  <1>5. RequestsWait(inbox', call', clientSocket')
    <2> SUFFICES ASSUME NEW p \in Node, NEW i \in DOMAIN inbox'[p], ~inbox'[p][i].intl
                 PROVE  /\ call'[inbox'[p][i].sock] # Nil
                        /\ call'[inbox'[p][i].sock].node = p
                        /\ clientSocket'[p] # inbox'[p][i].sock
      BY DEF RequestsWait
    <2> DEFINE c == inbox'[p][i].sock
    <2>1. call[c] # Nil /\ call[c].node = p /\ clientSocket[p] # c
      BY DEF RequestsWait
    <2>2. c \in Client
      <3>1. inbox'[p][i] \in Message
        OBVIOUS
      <3> QED BY <3>1 DEF Message
    <2>3. c \notin Gone
      BY <2>1
    <2>4. call'[c] = call[c]
      BY <1>3, <2>2, <2>3
    <2>5. clientSocket'[p] # c
      BY <1>1, <1>2, <2>1, <2>2, NilAssumption
    <2> QED BY <2>1, <2>4, <2>5
  <1>6. NoPeerNoSocket'
    BY <1>1, <1>2 DEF SocketInvariant, NoPeerNoSocket
  <1>7. RequestsApart(inbox)'
    BY DEF RequestsApart
  <1>8. RequestsWait(inbox, call, clientSocket)'
    BY <1>5 DEF RequestsWait
  <1> QED BY <1>4, <1>6, <1>7, <1>8 DEF SocketInvariant

LEMMA RelaySockets ==
  ASSUME TypeOK, SocketInvariant, NEW n \in Node, Relay(n)
  PROVE  SocketInvariant'
  <1> DEFINE Gone == {clientSocket[n]} \ {Nil}
  <1>1. DataTurn(n) /\ inbox' = Accepted(n) /\ clientSocket' = [clientSocket EXCEPT ![n] = Nil]
    BY DEF Relay
  <1>2. Gone \in SUBSET Client /\ \A c \in Gone : call[c] # Nil /\ call[c].node = n
    BY DEF TypeOK, SocketInvariant, SavedSocketOpen
  <1>3. call' = [c \in Client |-> IF c \in Gone THEN Nil ELSE call[c]]
    BY NilAssumption DEF Relay
  <1>4. \A i \in DOMAIN inbox'[n] : ~inbox'[n][i].intl => inbox'[n][i].sock \notin Gone
    BY <1>1, DataTurnSockets DEF RequestsWait
  <1> QED BY <1>1, <1>2, <1>3, <1>4, DataTurnSockets, AnsweredSockets

LEMMA ForwardSockets ==
  ASSUME TypeOK, SocketInvariant, NEW n \in Node, Forward(n)
  PROVE  SocketInvariant'
  <1> DEFINE m == Head(inbox[n])
  <1>1. DataTurn(n) /\ call' = call /\ prevId[n] # Nil
    BY DEF Forward, clientVars
  <1>2. /\ Onward(n, m) \in Message /\ Onward(n, m).intl
        /\ inbox' = SendTo(Accepted(n), nextId[n], Onward(n, m))
    <2>1. m \in Message /\ ~(m.intl /\ m.cmd = "ack")
      BY <1>1, DataTurnSockets DEF Forward
    <2>2. Onward(n, m) \in Message
      BY <2>1, OnwardType
    <2>3. Onward(n, m).intl
      BY <2>1 DEF Onward, Message
    <2>4. inbox' = SendTo(Accepted(n), nextId[n], Onward(n, m))
      BY DEF Forward
    <2> QED BY <2>2, <2>3, <2>4
  <1>3. CASE m.intl
    <2>1. clientSocket' = clientSocket
      BY <1>3 DEF Forward
    <2>2. RequestsWait(inbox', call, clientSocket) /\ RequestsApart(inbox')
      BY <1>1, <1>2, DataTurnSockets, SendToRequests
    <2> QED BY <1>1, <2>1, <2>2, DataTurnSockets, RingStepSockets
  <1>4. CASE ~m.intl
    <2>1. clientSocket' = [clientSocket EXCEPT ![n] = m.sock] /\ m.sock \in Client
      BY <1>1, <1>4, DataTurnSockets DEF Forward, Message
    <2>2. call[m.sock] # Nil /\ call[m.sock].node = n
      BY <1>1, <1>4, DataTurnSockets
    <2>3. RequestsWait(Accepted(n), call, clientSocket')
      <3>1. RequestsWait(Accepted(n), call, clientSocket)
        BY <1>1, DataTurnSockets
      <3>2. \A i \in DOMAIN Accepted(n)[n] :
              ~Accepted(n)[n][i].intl => Accepted(n)[n][i].sock # m.sock
        BY <1>1, <1>4, DataTurnSockets
      <3>3. \A p \in Node : clientSocket'[p] = IF p = n THEN m.sock ELSE clientSocket[p]
        BY <2>1 DEF TypeOK
      <3> QED BY <3>1, <3>2, <3>3 DEF RequestsWait
    <2>4. RequestsWait(inbox', call, clientSocket') /\ RequestsApart(inbox')
      BY <1>1, <1>2, <2>3, DataTurnSockets, SendToRequests
    <2>5. SavedSocketOpen'
      BY <1>1, <2>1, <2>2 DEF SocketInvariant, SavedSocketOpen, TypeOK
    <2>6. NoPeerNoSocket'
      BY <1>1, <2>1, DataTurnSockets DEF SocketInvariant, NoPeerNoSocket, TypeOK
    <2> QED BY <1>1, <2>4, <2>5, <2>6 DEF SocketInvariant, RequestsWait, RequestsApart
  <1> QED BY <1>3, <1>4

LEMMA ServePeerSockets ==
  ASSUME TypeOK, SocketInvariant, NEW n \in Node, ServePeer(n)
  PROVE  SocketInvariant'
  <1>1. DataTurn(n) /\ call' = call /\ clientSocket' = clientSocket
    BY DEF ServePeer, Owned, clientVars
  <1>2. PICK a : /\ inbox' = SendTo(Accepted(n), Head(inbox[n]).id, a)
                 /\ a \in Message /\ a.intl
    BY ServePeerAck
  <1>3. RequestsWait(inbox', call, clientSocket) /\ RequestsApart(inbox')
    BY <1>1, <1>2, DataTurnSockets, SendToRequests
  <1> QED BY <1>1, <1>3, DataTurnSockets, RingStepSockets

LEMMA ServeClientSockets ==
  ASSUME TypeOK, SocketInvariant, NEW n \in Node, ServeClient(n)
  PROVE  SocketInvariant'
  <1> DEFINE m == Head(inbox[n])
             Gone == {IF clientSocket[n] # Nil THEN clientSocket[n] ELSE m.sock, m.sock}
  <1>1. /\ DataTurn(n) /\ inbox' = Accepted(n) /\ ~m.intl
        /\ clientSocket' = [clientSocket EXCEPT ![n] = Nil]
        /\ call' = [c \in Client |-> IF c \in Gone THEN Nil ELSE call[c]]
    BY DEF ServeClient, Owned
  <1>2. m.sock \in Client /\ call[m.sock] # Nil /\ call[m.sock].node = n
    BY <1>1, DataTurnSockets DEF Message
  <1>3. clientSocket[n] # Nil =>
          /\ clientSocket[n] \in Client
          /\ call[clientSocket[n]] # Nil /\ call[clientSocket[n]].node = n
    BY DEF TypeOK, SocketInvariant, SavedSocketOpen
  <1>4. /\ Gone \in SUBSET Client
        /\ \A c \in Gone : call[c] # Nil /\ call[c].node = n
        /\ clientSocket[n] \in Gone \cup {Nil}
    BY <1>2, <1>3
  <1>5. \A i \in DOMAIN inbox'[n] : ~inbox'[n][i].intl => inbox'[n][i].sock \notin Gone
    BY <1>1, DataTurnSockets DEF RequestsWait
  <1> QED BY <1>1, <1>4, <1>5, DataTurnSockets, AnsweredSockets

\* The end of a process: its clients wait no more, and it had saved no socket.
LEMMA CrashSockets ==
  ASSUME TypeOK, SocketInvariant, NEW n \in Node, Crash(n)
  PROVE  SocketInvariant'
  <1> DEFINE Gone == {c \in Client : call[c] # Nil /\ call[c].node = n}
  <1>1. clientSocket[n] = Nil /\ clientSocket' = clientSocket /\ prevId' = prevId
    BY DEF Crash, SocketInvariant, NoPeerNoSocket, ringVars
  <1>2. inbox' = [inbox EXCEPT ![n] = <<>>]
    BY DEF Crash
  <1>3. inbox'[n] = <<>> /\ \A p \in Node \ {n} : inbox'[p] = inbox[p]
    BY <1>2 DEF TypeOK
  <1>4. RequestsWait(inbox', call, clientSocket) /\ RequestsApart(inbox')
    <2>1. DOMAIN inbox'[n] = {}
      BY <1>3
    <2> QED BY <1>3, <2>1 DEF SocketInvariant, RequestsWait, RequestsApart
  <1>5. call' = [c \in Client |-> IF c \in Gone THEN Nil ELSE call[c]]
    BY DEF Crash
  <1>6. clientSocket' = [clientSocket EXCEPT ![n] = Nil]
    BY <1>1 DEF TypeOK
  <1>7. inbox' \in [Node -> Seq(Message)]
    BY CrashType DEF TypeOK
  <1>8. \A i \in DOMAIN inbox'[n] : ~inbox'[n][i].intl => inbox'[n][i].sock \notin Gone
    BY <1>3
  <1>9. /\ Gone \in SUBSET Client
        /\ \A c \in Gone : call[c] # Nil /\ call[c].node = n
        /\ clientSocket[n] \in Gone \cup {Nil}
    BY <1>1
  <1> HIDE DEF Gone
  <1> QED BY <1>1, <1>4, <1>5, <1>6, <1>7, <1>8, <1>9, AnsweredSockets

\* A new call comes from a client that has no other connection anywhere.
LEMMA CallSockets ==
  ASSUME TypeOK, SocketInvariant, NEW c \in Client, NEW r \in Request, Call(c, r)
  PROVE  SocketInvariant'
  <1> DEFINE q == inbox[r.node]
             m == ClientMessage(c, r)
  <1>1. r.node \in Node /\ r # Nil
    BY NoRequestAssumption DEF Request
  <1>2. m \in Message /\ ~m.intl /\ m.sock = c
    BY ClientMessageType DEF ClientMessage
  <1>3. call[c] = Nil /\ call' = [call EXCEPT ![c] = r]
    BY DEF Call
  <1>4. clientSocket' = clientSocket /\ prevId' = prevId
    BY DEF Call, ringVars
  <1>5. inbox' = [inbox EXCEPT ![r.node] = Append(q, m)]
    BY DEF Call
  <1>6. call'[c] = r /\ \A d \in Client \ {c} : call'[d] = call[d]
    BY <1>3 DEF TypeOK
  <1>7. \A p \in Node : \A i \in DOMAIN inbox'[p] :
          \/ i \in DOMAIN inbox[p] /\ inbox'[p][i] = inbox[p][i]
          \/ p = r.node /\ i = Len(q) + 1 /\ inbox'[p][i] = m
    <2> SUFFICES ASSUME NEW p \in Node, NEW i \in DOMAIN inbox'[p]
                 PROVE  \/ i \in DOMAIN inbox[p] /\ inbox'[p][i] = inbox[p][i]
                        \/ p = r.node /\ i = Len(q) + 1 /\ inbox'[p][i] = m
      OBVIOUS
    <2>1. CASE p = r.node
      <3>1. inbox'[p] = Append(q, m) /\ q \in Seq(Message)
        BY <1>1, <1>5, <2>1 DEF TypeOK
      <3> QED BY <1>2, <2>1, <3>1
    <2>2. CASE p # r.node
      BY <1>5, <2>2 DEF TypeOK
    <2> QED BY <2>1, <2>2
  \* No request of c is in a queue, and no node has saved its socket.
  <1>8. \A p \in Node : \A i \in DOMAIN inbox[p] :
          ~inbox[p][i].intl => inbox[p][i].sock \in Client \ {c}
    <2> SUFFICES ASSUME NEW p \in Node, NEW i \in DOMAIN inbox[p], ~inbox[p][i].intl
                 PROVE  inbox[p][i].sock \in Client \ {c}
      OBVIOUS
    <2>1. inbox[p][i] \in Message
      BY DEF TypeOK
    <2>2. call[inbox[p][i].sock] # Nil
      BY DEF SocketInvariant, RequestsWait
    <2> QED BY <1>3, <2>1, <2>2 DEF Message
  <1>9. \A p \in Node : clientSocket[p] # Nil => clientSocket[p] \in Client \ {c}
    BY <1>3 DEF TypeOK, SocketInvariant, SavedSocketOpen
  <1>10. SavedSocketOpen'
    BY <1>4, <1>6, <1>9 DEF SocketInvariant, SavedSocketOpen
  <1>11. RequestsWait(inbox, call, clientSocket)'
    <2> SUFFICES ASSUME NEW p \in Node, NEW i \in DOMAIN inbox'[p], ~inbox'[p][i].intl
                 PROVE  /\ call'[inbox'[p][i].sock] # Nil
                        /\ call'[inbox'[p][i].sock].node = p
                        /\ clientSocket[p] # inbox'[p][i].sock
      BY <1>4 DEF RequestsWait
    <2>1. CASE i \in DOMAIN inbox[p] /\ inbox'[p][i] = inbox[p][i]
      BY <1>6, <1>8, <2>1 DEF SocketInvariant, RequestsWait
    <2>2. CASE p = r.node /\ inbox'[p][i] = m
      BY <1>1, <1>2, <1>6, <1>9, <2>2, NilAssumption
    <2> QED BY <1>7, <2>1, <2>2
  <1>12. RequestsApart(inbox)'
    <2> SUFFICES ASSUME NEW p \in Node, NEW i \in DOMAIN inbox'[p], NEW j \in DOMAIN inbox'[p],
                        ~inbox'[p][i].intl, ~inbox'[p][j].intl,
                        inbox'[p][i].sock = inbox'[p][j].sock
                 PROVE  i = j
      BY DEF RequestsApart
    <2>1. CASE inbox'[p][i].sock = c
      <3>1. ~(i \in DOMAIN inbox[p] /\ inbox'[p][i] = inbox[p][i])
        BY <1>8, <2>1
      <3>2. ~(j \in DOMAIN inbox[p] /\ inbox'[p][j] = inbox[p][j])
        BY <1>8, <2>1
      <3> QED BY <1>7, <3>1, <3>2
    <2>2. CASE inbox'[p][i].sock # c
      BY <1>2, <1>7, <2>2 DEF SocketInvariant, RequestsApart
    <2> QED BY <2>1, <2>2
  <1>13. NoPeerNoSocket'
    BY <1>4 DEF SocketInvariant, NoPeerNoSocket
  <1> QED BY <1>10, <1>11, <1>12, <1>13 DEF SocketInvariant

\* The invariant that keeps CLIENT_SOCKET open holds of the program.
LEMMA SocketsInvariant == Spec => []SocketInvariant
  <1>1. Init => SocketInvariant
    BY DEF Init, SocketInvariant, SavedSocketOpen, RequestsWait, RequestsApart, NoPeerNoSocket
  <1>2. TypeOK /\ SocketInvariant /\ [Next]_vars => SocketInvariant'
    <2> SUFFICES ASSUME TypeOK, SocketInvariant, [Next]_vars
                 PROVE  SocketInvariant'
      OBVIOUS
    <2>1. ASSUME NEW n \in Node, Start(n)
          PROVE  SocketInvariant'
      BY <2>1, StartSockets
    <2>2. ASSUME NEW n \in Node, Turn(n)
          PROVE  SocketInvariant'
      BY <2>2, StabilizeSockets, ForwardJoinSockets, AcceptJoinSockets, QuietSockets,
         AdoptPrevSockets, AnswerStabilizeSockets, RelaySockets, ForwardSockets,
         ServePeerSockets, ServeClientSockets, CrashSockets
      DEF Turn
    <2>3. ASSUME Calls
          PROVE  SocketInvariant'
      BY <2>3, CallSockets DEF Calls
    <2>4. CASE UNCHANGED vars
      <3>1. UNCHANGED <<prevId, clientSocket, inbox, call>>
        BY <2>4 DEF vars, ringVars
      <3> QED BY <3>1 DEF SocketInvariant, SavedSocketOpen, RequestsWait, RequestsApart,
                          NoPeerNoSocket
    <2> QED BY <2>1, <2>2, <2>3, <2>4 DEF Next
  <1> QED BY <1>1, <1>2, TypeCorrect, PTL DEF Spec

\* respondToClient() never writes to, and never closes, a descriptor that is
\* closed already or is another connection's by now: whenever CLIENT_SOCKET is
\* set, the client behind it is still waiting at this node.
THEOREM SavedSocketsStayOpen == Spec => []SavedSocketOpen
  BY SocketsInvariant, PTL DEF SocketInvariant
================================================================================
