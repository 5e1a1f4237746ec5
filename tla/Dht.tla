---------------------------------- MODULE Dht ----------------------------------
(****************************************************************************)
(* The node process of the distributed hash table, 3_dht/rpc_server.c.      *)
(*                                                                          *)
(* Every node runs one single-threaded loop around accept(): a turn either  *)
(* sends a STABILIZE to the successor or takes one connection off the       *)
(* listening socket, reads the one message it carries and handles it to the *)
(* end.  A turn is one action here: all a handler does between two calls of *)
(* accept() is local except for at most one message, which connect() puts   *)
(* at the end of another node's accept queue.                               *)
(*                                                                          *)
(* A node is named by its SELF_ID; ID, IP and port of the C code always     *)
(* travel together and are one name here.                                   *)
(****************************************************************************)
EXTENDS Integers, Sequences, FiniteSets

CONSTANTS
  HashSpace,    \* HASH_SPACE, the number of positions on the ring
  Backlog,      \* the length of the accept queue that listen() is given
  Node,         \* the SELF_IDs of the nodes
  Contact,      \* the PEER_ID argument of each node, itself if it has none
  Client,       \* the client processes; one stands for its open connection
  Key, KeyHash, \* the keys and the position of each
  Value,        \* the values that clients store
  EmptyValue,   \* the value of length 0, in Value or not
  Nil           \* NULL, an unset socket, an absent key or value

ASSUME HashSpaceAssumption == HashSpace \in Nat \ {0}
ASSUME BacklogAssumption == Backlog \in Nat
ASSUME NodeAssumption == Node \subseteq 0 .. HashSpace - 1
ASSUME ContactAssumption == Contact \in [Node -> Node]
ASSUME KeyAssumption == KeyHash \in [Key -> 0 .. HashSpace - 1]
ASSUME NilAssumption == Nil \notin Int \cup Client \cup Key \cup Value

VARIABLES
  status,       \* "off" (not started), "up", or "dead" (after SIGSEGV)
  nextId,       \* NEXT_ID
  prevId,       \* PREV_ID, Nil while the pointer is NULL
  tick,         \* the loop counter modulo STBZ_INTERVAL
  firstSet,     \* the node has seen a SET, GET or DEL
  clientSocket, \* CLIENT_SOCKET, the client whose request was forwarded
  inbox,        \* the accept queue of the listening socket
  table,        \* the node's hash table
  call,         \* the request a client waits for, Nil if it is idle
  answer        \* what the client's last do_rpc() returned

ringVars == <<nextId, prevId>>
clientVars == <<call, answer>>
vars == <<status, nextId, prevId, tick, firstSet, clientSocket, inbox, table,
          call, answer>>

NodeOrNil == Node \cup {Nil}

(****************************************************************************)
(* Messages: the header with one flag of each group set, key and value.     *)
(* sock is the client that the connection comes from.                       *)
(****************************************************************************)
Cmd == {"join", "noti", "stbz", "ack", "none"}
Op  == {"set", "get", "del", "none"}

\* A message that is not an acknowledgement names the node it comes from or is
\* about; one from outside the ring is a request and has a client behind it.
Message ==
  {m \in [intl : BOOLEAN, cmd : Cmd, op : Op, id : NodeOrNil, key : Key \cup {Nil},
          val : Value \cup {Nil}, sock : Client \cup {Nil}] :
     /\ m.intl /\ m.cmd # "ack" => m.id \in Node
     /\ m.intl => m.sock = Nil
     /\ ~m.intl => m.cmd = "none" /\ m.key \in Key /\ m.sock \in Client}

Request == [node : Node, op : Op \ {"none"}, key : Key, val : Value \cup {Nil}]
ASSUME NoRequestAssumption == Nil \notin Request

Answer == [get : BOOLEAN, key : Key \cup {Nil}, val : Value \cup {Nil}]
ASSUME NoAnswerAssumption == Nil \notin Answer

\* JOIN, NOTIFY and STABILIZE carry the identity of a node and nothing else.
RingMessage(cmd, id) ==
  [intl |-> TRUE, cmd |-> cmd, op |-> "none", id |-> id,
   key |-> Nil, val |-> Nil, sock |-> Nil]

ClientMessage(c, r) ==
  [intl |-> FALSE, cmd |-> "none", op |-> r.op, id |-> Nil,
   key |-> r.key, val |-> r.val, sock |-> c]

\* What do_rpc() makes of a reply without the GET flag, of an end of file and
\* of a reset connection.
NotFound == [get |-> FALSE, key |-> Nil, val |-> Nil]

TypeOK ==
  /\ status \in [Node -> {"off", "up", "dead"}]
  /\ nextId \in [Node -> Node]
  /\ prevId \in [Node -> NodeOrNil]
  /\ tick \in [Node -> 0 .. 2]
  /\ firstSet \in [Node -> BOOLEAN]
  /\ clientSocket \in [Node -> Client \cup {Nil}]
  /\ inbox \in [Node -> Seq(Message)]
  /\ table \in [Node -> [Key -> Value \cup {Nil}]]
  /\ call \in [Client -> Request \cup {Nil}]
  /\ answer \in [Client -> Answer]

----------------------------------------------------------------------------
(****************************************************************************)
(* pass(): is a position outside the arc (PREV, SELF] of a node?            *)
(****************************************************************************)
PassKeepsPrev(self, prev, key) ==   \* mutant: >= for >
  LET tempSelf == IF self > prev THEN self ELSE self + HashSpace
  IN  ~ \/ key <= tempSelf /\ key >= prev
        \/ tempSelf > HashSpace /\ key >= 0 /\ key <= self

Pass(self, prev, key) ==
  LET tempSelf == IF self > prev THEN self ELSE self + HashSpace
  IN  ~ \/ key <= tempSelf /\ key > prev
        \/ tempSelf > HashSpace /\ key >= 0 /\ key <= self

\* Steps clockwise from position a to position b, a full turn if they agree.
Distance(a, b) == IF b > a THEN b - a ELSE b - a + HashSpace

\* hash() of a key modulo HASH_SPACE; a message without a key has length 0,
\* for which DJB2 returns its seed.
Hash(key) == IF key = Nil THEN 5381 % HashSpace ELSE KeyHash[key]

\* connect(), send() and close() towards a node.  The connection is refused if
\* the process does not listen.  While the accept queue is full, which it is at
\* Backlog + 1, connect() blocks: the sender's turn has not happened yet, or it
\* happens without the message when connect() gives up.
SendTo(queues, n, m) ==
  IF status[n] = "up" /\ Len(queues[n]) <= Backlog
  THEN [queues EXCEPT ![n] = Append(@, m)]
  ELSE queues

\* The queues once node n has accepted its first connection.
Accepted(n) == [inbox EXCEPT ![n] = Tail(@)]

(****************************************************************************)
(* A turn of the loop.  Every third turn of a node with a successor sends a *)
(* STABILIZE, until the node has served its first request.                  *)
(****************************************************************************)
StabilizeEveryTurn(n) == nextId[n] # n /\ ~firstSet[n]   \* mutant: no interval
StabilizeTurn(n) == tick[n] = 2 /\ nextId[n] # n /\ ~firstSet[n]

Accepting(n) == status[n] = "up" /\ ~StabilizeTurn(n) /\ inbox[n] # <<>>

TickByFour(n) == tick' = [tick EXCEPT ![n] = (@ + 1) % 4]   \* mutant
NextTick(n) == tick' = [tick EXCEPT ![n] = (@ + 1) % 3]

ServesByMessage(n) == Head(inbox[n]).op # "none"   \* mutant: firstSet unused

\* The message at hand makes the node take the data branch of the loop.
Serving(n) == firstSet[n] \/ Head(inbox[n]).op # "none"

Maintaining(n, cmd) ==
  /\ Accepting(n)
  /\ ~Serving(n)
  /\ Head(inbox[n]).cmd = cmd
  /\ NextTick(n)
  /\ UNCHANGED <<status, firstSet, clientSocket, table, clientVars>>

----------------------------------------------------------------------------
(****************************************************************************)
(* Ring maintenance.                                                        *)
(****************************************************************************)

JoinTwice(n) ==   \* mutant: the JOIN is sent again though it has arrived
  LET join == RingMessage("join", n) IN
  /\ status[n] = "off"
  /\ status' = [status EXCEPT ![n] = "up"]
  /\ inbox' = IF Contact[n] = n THEN inbox
              ELSE SendTo(SendTo(inbox, Contact[n], join), Contact[n], join)
  /\ UNCHANGED <<ringVars, tick, firstSet, clientSocket, table, clientVars>>

\* main() up to the loop: listen, then JOIN through the peer, if there is one.
Start(n) ==
  /\ status[n] = "off"
  /\ status' = [status EXCEPT ![n] = "up"]
  /\ inbox' = IF Contact[n] = n THEN inbox
              ELSE SendTo(inbox, Contact[n], RingMessage("join", n))
  /\ UNCHANGED <<ringVars, tick, firstSet, clientSocket, table, clientVars>>

Stabilize(n) ==
  /\ status[n] = "up"
  /\ StabilizeTurn(n)
  /\ NextTick(n)
  /\ inbox' = SendTo(inbox, nextId[n], RingMessage("stbz", n))
  /\ UNCHANGED <<status, ringVars, firstSet, clientSocket, table, clientVars>>

ForwardJoin(n) ==
  LET m == Head(inbox[n]) IN
  /\ Maintaining(n, "join")
  /\ prevId[n] # Nil
  /\ Pass(n, prevId[n], m.id)
  /\ inbox' = SendTo(Accepted(n), nextId[n], m)
  /\ UNCHANGED ringVars

AcceptJoin(n) ==
  LET m == Head(inbox[n]) IN
  /\ Maintaining(n, "join")
  /\ prevId[n] # Nil
  /\ ~Pass(n, prevId[n], m.id)
  /\ prevId' = [prevId EXCEPT ![n] = m.id]
  /\ nextId' = [nextId EXCEPT ![n] = IF @ = n THEN m.id ELSE @]
  /\ inbox' = SendTo(Accepted(n), m.id, RingMessage("noti", m.id))

Notify(n) ==
  LET m == Head(inbox[n]) IN
  /\ Maintaining(n, "noti")
  /\ nextId' = [nextId EXCEPT ![n] = IF m.id # n THEN m.id ELSE @]
  /\ inbox' = Accepted(n)
  /\ UNCHANGED prevId

\* The first STABILIZE that reaches a node without predecessor names it.
AdoptPrev(n) ==
  LET m == Head(inbox[n]) IN
  /\ Maintaining(n, "stbz")
  /\ prevId[n] = Nil
  /\ prevId' = [prevId EXCEPT ![n] = m.id]
  /\ inbox' = Accepted(n)
  /\ UNCHANGED nextId

AnswerWithSelf(n) ==   \* mutant: the wrong identity in the answer
  LET m == Head(inbox[n]) IN
  /\ Maintaining(n, "stbz")
  /\ prevId[n] # Nil
  /\ inbox' = SendTo(Accepted(n), m.id, RingMessage("noti", n))
  /\ UNCHANGED ringVars

AnswerStabilize(n) ==
  LET m == Head(inbox[n]) IN
  /\ Maintaining(n, "stbz")
  /\ prevId[n] # Nil
  /\ inbox' = SendTo(Accepted(n), m.id, RingMessage("noti", prevId[n]))
  /\ UNCHANGED ringVars

\* Acknowledgements and forwarded ring messages fall through all the tests.
Ignore(n) ==
  /\ \E cmd \in {"ack", "none"} : Maintaining(n, cmd)
  /\ inbox' = Accepted(n)
  /\ UNCHANGED ringVars

----------------------------------------------------------------------------
(****************************************************************************)
(* Requests.  From the first one on, every message takes this branch, and   *)
(* the loop counter, which firstSet makes irrelevant, is not followed.      *)
(****************************************************************************)
DataTurn(n) ==
  /\ Accepting(n)
  /\ Serving(n)
  /\ firstSet' = [firstSet EXCEPT ![n] = TRUE]
  /\ UNCHANGED <<status, ringVars, tick>>

RelayWithoutGet(m) == [get |-> FALSE, key |-> m.key, val |-> m.val]   \* mutant

\* respondToClient() for an acknowledgement from the ring.  GET is set again
\* from the length of the value; the other flags are not.
RelayedReply(m) ==
  [get |-> m.val \notin {Nil, EmptyValue}, key |-> m.key, val |-> m.val]

RelayKeepsSocket(n) ==   \* mutant: CLIENT_SOCKET is not reset
  LET m == Head(inbox[n])
      c == clientSocket[n]
  IN
  /\ DataTurn(n)
  /\ m.intl /\ m.cmd = "ack"
  /\ inbox' = Accepted(n)
  /\ call' = [d \in Client |-> IF d = c THEN Nil ELSE call[d]]
  /\ answer' = [d \in Client |-> IF d = c THEN RelayedReply(m) ELSE answer[d]]
  /\ UNCHANGED <<table, clientSocket>>

Relay(n) ==
  LET m == Head(inbox[n])
      c == clientSocket[n]
  IN
  /\ DataTurn(n)
  /\ m.intl /\ m.cmd = "ack"
  /\ inbox' = Accepted(n)
  /\ clientSocket' = [clientSocket EXCEPT ![n] = Nil]
  /\ call' = [d \in Client |-> IF d = c THEN Nil ELSE call[d]]
  /\ answer' = [d \in Client |-> IF d = c THEN RelayedReply(m) ELSE answer[d]]
  /\ UNCHANGED table

\* requestFromNextPeer(): NOTI and STBZ are not copied to the new header.
Onward(n, m) ==
  [m EXCEPT !.intl = TRUE,
            !.cmd = IF @ = "join" THEN "join" ELSE "none",
            !.id = IF m.intl THEN @ ELSE n,
            !.sock = Nil]

ForwardUnsaved(n) ==   \* mutant: CLIENT_SOCKET is not set
  LET m == Head(inbox[n]) IN
  /\ DataTurn(n)
  /\ ~(m.intl /\ m.cmd = "ack")
  /\ prevId[n] # Nil
  /\ Pass(n, prevId[n], Hash(m.key))
  /\ inbox' = SendTo(Accepted(n), nextId[n], Onward(n, m))
  /\ UNCHANGED <<table, clientSocket, clientVars>>

Forward(n) ==
  LET m == Head(inbox[n]) IN
  /\ DataTurn(n)
  /\ ~(m.intl /\ m.cmd = "ack")
  /\ prevId[n] # Nil
  /\ Pass(n, prevId[n], Hash(m.key))
  /\ inbox' = SendTo(Accepted(n), nextId[n], Onward(n, m))
  /\ clientSocket' = IF m.intl THEN clientSocket
                     ELSE [clientSocket EXCEPT ![n] = m.sock]
  /\ UNCHANGED <<table, clientVars>>

\* The header and data that answer request m, given the value found.
Outcome(m, found) ==
  CASE m.op = "set"                   -> [op |-> "set", key |-> Nil, val |-> Nil]
    [] m.op = "get" /\ found # Nil -> [op |-> "get", key |-> m.key, val |-> found]
    [] m.op = "del" /\ found # Nil -> [op |-> "del", key |-> Nil, val |-> Nil]
    [] OTHER                          -> [op |-> "none", key |-> Nil, val |-> Nil]

Applied(n, m) ==
  CASE m.op = "set" -> [table EXCEPT ![n][m.key] = m.val]
    [] m.op = "del" -> [table EXCEPT ![n][m.key] = Nil]
    [] OTHER        -> table

Owned(n) ==
  LET m == Head(inbox[n]) IN
  /\ DataTurn(n)
  /\ ~(m.intl /\ m.cmd = "ack")
  /\ prevId[n] # Nil
  /\ ~Pass(n, prevId[n], Hash(m.key))
  /\ table' = Applied(n, m)

\* A request that came through the ring: respondToPeer() to the node it names.
ServePeer(n) ==
  LET m == Head(inbox[n])
      out == Outcome(m, IF m.key = Nil THEN Nil ELSE table[n][m.key])
  IN
  /\ Owned(n)
  /\ m.intl
  /\ inbox' = SendTo(Accepted(n), m.id,
                [intl |-> TRUE, cmd |-> "ack", op |-> out.op, id |-> Nil,
                 key |-> out.key, val |-> out.val, sock |-> Nil])
  /\ UNCHANGED <<clientSocket, clientVars>>

\* A client's own request: respondToClient() prefers CLIENT_SOCKET to the
\* socket of the request, which is closed afterwards in either case.
ServeClient(n) ==
  LET m == Head(inbox[n])
      out == Outcome(m, table[n][m.key])
      c == IF clientSocket[n] # Nil THEN clientSocket[n] ELSE m.sock
      reply == [get |-> out.op = "get", key |-> m.key, val |-> out.val]
  IN
  /\ Owned(n)
  /\ ~m.intl
  /\ inbox' = Accepted(n)
  /\ clientSocket' = [clientSocket EXCEPT ![n] = Nil]
  /\ call' = [d \in Client |-> IF d \in {c, m.sock} THEN Nil ELSE call[d]]
  /\ answer' = [d \in Client |-> IF d = c THEN reply
                                 ELSE IF d = m.sock THEN NotFound
                                 ELSE answer[d]]

\* pass() reads PREV_ID, which is NULL until the node's first STABILIZE: the
\* process dies, its queue is reset and every client connected to it sees it.
Crash(n) ==
  LET m == Head(inbox[n]) IN
  /\ Accepting(n)
  /\ prevId[n] = Nil
  /\ IF Serving(n) THEN ~(m.intl /\ m.cmd = "ack") ELSE m.cmd = "join"
  /\ status' = [status EXCEPT ![n] = "dead"]
  /\ inbox' = [inbox EXCEPT ![n] = <<>>]
  /\ call' = [c \in Client |->
                IF call[c] # Nil /\ call[c].node = n THEN Nil ELSE call[c]]
  /\ answer' = [c \in Client |->
                IF call[c] # Nil /\ call[c].node = n THEN NotFound ELSE answer[c]]
  /\ UNCHANGED <<ringVars, tick, firstSet, clientSocket, table>>

----------------------------------------------------------------------------
(****************************************************************************)
(* A client (2_rpc/rpc_client/rpc_interface.c): one connection per call,    *)
(* then do_rpc() blocks until the reply or the end of the connection.       *)
(****************************************************************************)
Call(c, r) ==
  /\ call[c] = Nil
  /\ status[r.node] = "up"
  /\ Len(inbox[r.node]) <= Backlog
  /\ call' = [call EXCEPT ![c] = r]
  /\ inbox' = [inbox EXCEPT ![r.node] = Append(@, ClientMessage(c, r))]
  /\ UNCHANGED <<status, ringVars, tick, firstSet, clientSocket, table, answer>>

\* set() sends a key and a value; get() and del() a key.
WellFormed(r) == r.op = "set" <=> r.val # Nil

----------------------------------------------------------------------------
Init ==
  /\ status = [n \in Node |-> "off"]
  /\ nextId = Contact
  /\ prevId = [n \in Node |-> IF Contact[n] = n THEN n ELSE Nil]
  /\ tick = [n \in Node |-> 1]
  /\ firstSet = [n \in Node |-> FALSE]
  /\ clientSocket = [n \in Node |-> Nil]
  /\ inbox = [n \in Node |-> <<>>]
  /\ table = [n \in Node |-> [k \in Key |-> Nil]]
  /\ call = [c \in Client |-> Nil]
  /\ answer = [c \in Client |-> NotFound]

\* One turn of node n.
Turn(n) ==
  \/ Stabilize(n)
  \/ ForwardJoin(n)
  \/ AcceptJoin(n)
  \/ Notify(n)
  \/ AdoptPrev(n)
  \/ AnswerStabilize(n)
  \/ Ignore(n)
  \/ Relay(n)
  \/ Forward(n)
  \/ ServePeer(n)
  \/ ServeClient(n)
  \/ Crash(n)

Calls == \E c \in Client, r \in Request : WellFormed(r) /\ Call(c, r)

Next ==
  \/ \E n \in Node : Start(n) \/ Turn(n)
  \/ Calls

\* A runnable process is scheduled and loopback TCP delivers.
Fairness == \A n \in Node : WF_vars(Turn(n))

Spec == Init /\ [][Next]_vars /\ Fairness

----------------------------------------------------------------------------
\* CLIENT_SOCKET is never a descriptor that has been closed, and perhaps given
\* to another connection since: it is the socket of a client that still waits
\* for its reply at this node.
SavedSocketOpen ==
  \A n \in Node :
    LET c == clientSocket[n] IN
    c # Nil => call[c] # Nil /\ call[c].node = n

\* What a node stores lies on its arc and stays there: once the first SET, GET
\* or DEL is seen no JOIN or STABILIZE can move the arc away from under the
\* pairs, for which the code has no transfer.
StoredAtOwner ==
  \A n \in Node, k \in Key :
    table[n][k] # Nil => /\ firstSet[n]
                         /\ prevId[n] # Nil
                         /\ ~Pass(n, prevId[n], KeyHash[k])

\* A key is stored at one node at most, so that a DEL removes it and a SET
\* replaces its value.
StoredOnce ==
  \A n, m \in Node, k \in Key :
    table[n][k] # Nil /\ table[m][k] # Nil => n = m
================================================================================
