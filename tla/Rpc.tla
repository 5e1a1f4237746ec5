---------------------------------- MODULE Rpc ----------------------------------
(****************************************************************************)
(* The RPC exchange of 2_rpc: clients that call do_rpc() and a server that  *)
(* accepts, reads, handles and answers one connection after the other.      *)
(*                                                                          *)
(* Client and server read a message with the same loop around recv(): the   *)
(* header first, then as many bytes as the header says.  TCP hands out the  *)
(* bytes of a message in pieces of its own choosing, and the loop looks at  *)
(* how many came at a time.  A byte is its position in the message here,    *)
(* and a buffer is the interval of positions that was written into it.      *)
(****************************************************************************)
EXTENDS Integers, Sequences, FiniteSets

CONSTANTS
  Client,
  Key, KeyLen,       \* the keys and the number of bytes of each
  Value, ValueLen,   \* the values and theirs
  Cuts(_, _),        \* where TCP may cut a message, by its two lengths
  Backlog,           \* the accept queue that listen() is given
  Down,              \* in the place of a client: the server has died
  Nil

MaxLength == 256 * 256 - 1   \* a length field has two bytes

ASSUME LengthAssumption ==
  /\ KeyLen \in [Key -> 1 .. MaxLength]
  /\ ValueLen \in [Value -> 0 .. MaxLength]
ASSUME CutAssumption ==
  /\ Cuts(0, 0) \subseteq 1 .. 6
  /\ \A k \in Key : Cuts(KeyLen[k], 0) \subseteq 1 .. 6 + KeyLen[k]
  /\ \A k \in Key, v \in Value :
       Cuts(KeyLen[k], ValueLen[v]) \subseteq 1 .. 6 + KeyLen[k] + ValueLen[v]

VARIABLES
  table,     \* the server's hash table
  queue,     \* connections that wait to be accepted
  serving,   \* the client whose connection the server reads
  call,      \* the request that each client waits for, Nil if it is idle
  answer,    \* what its last call returned
  message,   \* the message under way on its connection, Nil if none
  arrived,   \* how many bytes of that message have arrived
  loop       \* the variables of the loop that reads it

vars == <<table, queue, serving, call, answer, message, arrived, loop>>

Request == [op : {"set", "get", "del"}, key : Key, val : Value \cup {Nil}]

WellFormed(r) == r.op = "set" <=> r.val # Nil

\* flags are those of the header that the loop's user looks at.
Message == [reply : BOOLEAN, op : {"set", "get", "del", "none"},
            key : Key \cup {Nil}, val : Value \cup {Nil}]

HeaderSize == 6
KeyLength(m) == IF m.key = Nil THEN 0 ELSE KeyLen[m.key]
ValueLength(m) == IF m.val = Nil THEN 0 ELSE ValueLen[m.val]
Size(m) == HeaderSize + KeyLength(m) + ValueLength(m)

\* What do_rpc() returns: an element with the GET flag, or NULL.  Nil in an element
\* stands for a NULL pointer and for bytes other than were sent.
Answers == [get : BOOLEAN, key : Key \cup {Nil}, val : Value \cup {Nil}]

ASSUME NilAssumption ==
  /\ Nil \notin Client \cup Key \cup Value \cup Request \cup Message \cup Answers
  /\ Down \notin Client \cup {Nil}

----------------------------------------------------------------------------
(****************************************************************************)
(* The receive loop.  twice counts the buffers that were started after the  *)
(* header: 0 in the header, 1 in the key, 2 in the value.  read and         *)
(* readSize are the C variables; past is the number of bytes taken so far;  *)
(* k and v are the lengths read from the header; from is where in the       *)
(* message the current buffer starts, keyFrom where the key's did.          *)
(****************************************************************************)
Fresh == [twice |-> 0, read |-> 0, readSize |-> HeaderSize, past |-> 0, k |-> 0, v |-> 0,
          keyFrom |-> 0, valueFrom |-> 0, over |-> FALSE, done |-> FALSE]

\* recv() has failed: the connection was reset.
Broken == [Fresh EXCEPT !.done = TRUE]

SwappedField(length, come) ==   \* mutant: the low byte is taken for the high one
  CASE come >= 2 -> 256 * (length % 256) + length \div 256
    [] come = 1  -> length \div 256
    [] OTHER     -> 0

\* The header is taken apart after the first recv(), complete or not, and what has
\* not come is zero.  A length has two bytes, of which the high one comes first.
Field(length, come) ==
  CASE come >= 2 -> length
    [] come = 1  -> 256 * (length \div 256)
    [] OTHER     -> 0

KeyField(m, rs)   == Field(KeyLength(m), rs - 2)
ValueField(m, rs) == Field(ValueLength(m), rs - 4)

KeepCounting(l, m, rs) ==   \* mutant: read is not reset after the header
  [l EXCEPT !.twice = 1, !.past = rs, !.keyFrom = rs,
            !.k = KeyField(m, rs), !.v = ValueField(m, rs),
            !.readSize = KeyField(m, rs), !.read = rs,
            !.done = rs >= KeyField(m, rs)]

AfterHeader(l, m, rs) ==
  [l EXCEPT !.twice = 1, !.past = rs, !.keyFrom = rs,
            !.k = KeyField(m, rs), !.v = ValueField(m, rs),
            !.readSize = KeyField(m, rs), !.read = 0,
            !.done = KeyField(m, rs) <= 0]

AfterKey(l, rs) ==
  [l EXCEPT !.twice = 2, !.past = @ + rs, !.valueFrom = l.past + rs,
            !.readSize = l.v, !.read = 0,
            !.done = l.v <= 0]

FurtherExactly(l, rs) ==   \* mutant: the loop goes on while read # read_size
  [l EXCEPT !.past = @ + rs, !.read = @ + rs,
            !.over = l.read + rs > l.readSize,
            !.done = l.read + rs = l.readSize]

\* Neither the end of the header nor of a key that a value follows: the same
\* read_size is asked for again, unless that many bytes have been read.
Further(l, rs) ==
  [l EXCEPT !.past = @ + rs, !.read = @ + rs,
            !.over = l.read + rs > l.readSize,
            !.done = l.read + rs >= l.readSize]

KeyComplete(l, rs) == l.twice = 1 /\ l.read + rs = l.k /\ l.v > 0

AskForAll(l, m, here) ==   \* mutant: recv() is not given read_size
  LET rs == here - l.past IN
  IF l.twice = 0 THEN AfterHeader(l, m, rs)
  ELSE IF KeyComplete(l, rs) THEN AfterKey(l, rs)
  ELSE Further(l, rs)

\* One recv(): as many bytes as have arrived, and at most read_size.
Received(l, m, here) ==
  LET rs == IF here - l.past < l.readSize THEN here - l.past ELSE l.readSize IN
  IF l.twice = 0 THEN AfterHeader(l, m, rs)
  ELSE IF KeyComplete(l, rs) THEN AfterKey(l, rs)
  ELSE Further(l, rs)

\* A loop that waits for more than the message would get nothing more: that there
\* is none is EndsInMessage.
Recv(c) ==
  /\ message[c] # Nil
  /\ message[c].reply \/ serving = c
  /\ ~loop[c].done
  /\ loop[c].past < arrived[c]
  /\ loop' = [loop EXCEPT ![c] = Received(@, message[c], arrived[c])]
  /\ UNCHANGED <<table, queue, serving, call, answer, message, arrived>>

\* The loop has ended with the message that was sent, field by field, and no
\* write behind the end of a buffer.
Whole(l, m) ==
  /\ ~l.over
  /\ l.past = Size(m)
  /\ l.k = KeyLength(m)
  /\ l.v = ValueLength(m)
  /\ l.k > 0 => l.keyFrom = HeaderSize
  /\ l.v > 0 => l.valueFrom = HeaderSize + l.k /\ l.twice = 2

----------------------------------------------------------------------------
\* TCP: some more bytes of the message arrive.
Deliver(c) ==
  /\ message[c] # Nil
  /\ \E n \in Cuts(KeyLength(message[c]), ValueLength(message[c])) \cup {Size(message[c])} :
       n > arrived[c] /\ arrived' = [arrived EXCEPT ![c] = n]
  /\ UNCHANGED <<table, queue, serving, call, answer, message, loop>>

\* do_rpc() up to the loop: connect and send, accepted or not.
Call(c, r) ==
  /\ call[c] = Nil
  /\ serving # Down
  /\ Len(queue) <= Backlog
  /\ call' = [call EXCEPT ![c] = r]
  /\ queue' = Append(queue, c)
  /\ message' = [message EXCEPT ![c] =
                   [reply |-> FALSE, op |-> r.op, key |-> r.key, val |-> r.val]]
  /\ arrived' = [arrived EXCEPT ![c] = 0]
  /\ loop' = [loop EXCEPT ![c] = Fresh]
  /\ UNCHANGED <<table, serving, answer>>

AcceptLast ==   \* mutant: the client that came last is served first
  /\ serving = Nil
  /\ queue # <<>>
  /\ serving' = queue[Len(queue)]
  /\ queue' = SubSeq(queue, 1, Len(queue) - 1)
  /\ UNCHANGED <<table, call, answer, message, arrived, loop>>

Accept ==
  /\ serving = Nil
  /\ queue # <<>>
  /\ serving' = Head(queue)
  /\ queue' = Tail(queue)
  /\ UNCHANGED <<table, call, answer, message, arrived, loop>>

Ack(op) == [reply |-> TRUE, op |-> op, key |-> Nil, val |-> Nil]

ReplyFlagless(m) ==   \* mutant: the GET flag is not set
  IF m.op = "get" THEN [reply |-> TRUE, op |-> "none", key |-> m.key, val |-> table[m.key]]
  ELSE Ack(m.op)

\* What get(), set() and del() do; only a GET that finds something is answered with
\* a key and a value.
Reply(m) ==
  CASE m.op = "set" -> Ack("set")
    [] m.op = "get" /\ table[m.key] # Nil
                    -> [reply |-> TRUE, op |-> "get", key |-> m.key, val |-> table[m.key]]
    [] m.op = "del" /\ table[m.key] # Nil -> Ack("del")
    [] OTHER        -> Ack("none")

Effect(m) ==
  CASE m.op = "set" -> [table EXCEPT ![m.key] = m.val]
    [] m.op = "del" -> [table EXCEPT ![m.key] = Nil]
    [] m.op = "get" -> table

\* The same with buffers that hold other bytes than were sent: they may be another
\* key or an empty one, which memcmp() takes for every key of its bucket.
MisreadReplies(op) ==
  CASE op = "set" -> {Ack("set")}
    [] op = "del" -> {Ack("del"), Ack("none")}
    [] op = "get" -> {Ack("none")} \cup
                     [reply : {TRUE}, op : {"get"}, key : Key, val : Value]

MisreadEffects(op) ==
  {t \in [Key -> Value \cup {Nil}] :
     \E k \in Key : \A j \in Key :
        \/ t[j] = table[j]
        \/ op = "set" /\ (j = k \/ t[j] = Nil)
        \/ op = "del" /\ j = k /\ t[j] = Nil}

\* The server between the loop and the next accept().
Answer(t, r, l) ==
  /\ table' = t
  /\ message' = [message EXCEPT ![serving] = r]
  /\ arrived' = [arrived EXCEPT ![serving] = IF l = Broken THEN HeaderSize ELSE 0]
  /\ loop' = [loop EXCEPT ![serving] = l]
  /\ serving' = Nil
  /\ UNCHANGED <<queue, call, answer>>

Handle ==
  /\ serving \in Client
  /\ loop[serving].done
  /\ Whole(loop[serving], message[serving])
  /\ Answer(Effect(message[serving]), Reply(message[serving]), Fresh)

\* set() copies as many bytes as the header says from a value_buffer that is NULL.
CopiesNull(l, m) == m.op = "set" /\ l.v > 0 /\ l.twice < 2

\* The server acts on whatever its buffers hold.  If it closes the connection before
\* it has read all of the request, the reply may be lost to a reset.
HandleMisread ==
  LET l == loop[serving]
      m == message[serving]
  IN
  /\ serving \in Client
  /\ l.done
  /\ ~Whole(l, m)
  /\ ~CopiesNull(l, m)
  /\ \E t \in MisreadEffects(m.op) :
       \/ \E r \in MisreadReplies(m.op) : Answer(t, r, Fresh)
       \/ l.past < Size(m) /\ Answer(t, Ack("none"), Broken)

\* It dies of NULL, or may die of what it wrote behind its buffer; the connections
\* that are open or queued are reset.
Crash ==
  LET lost == {serving} \cup {queue[i] : i \in DOMAIN queue} IN
  /\ serving \in Client
  /\ loop[serving].done
  /\ CopiesNull(loop[serving], message[serving]) \/ loop[serving].over
  /\ message' = [c \in Client |-> IF c \in lost THEN Ack("none") ELSE message[c]]
  /\ arrived' = [c \in Client |-> IF c \in lost THEN HeaderSize ELSE arrived[c]]
  /\ loop' = [c \in Client |-> IF c \in lost THEN Broken ELSE loop[c]]
  /\ serving' = Down
  /\ queue' = <<>>
  /\ UNCHANGED <<table, call, answer>>

Element(m) == IF m.op = "get" THEN [get |-> TRUE, key |-> m.key, val |-> m.val]
              ELSE [get |-> FALSE, key |-> Nil, val |-> Nil]

NoElement == Element(Ack("none"))

\* do_rpc() after the loop, with whatever its buffers hold: a key that was begun where
\* it begins was written first, the bytes behind it went past the end of its buffer.
Returned(l, m) ==
  IF Whole(l, m) \/ m.op # "get" THEN Element(m)
  ELSE [get |-> TRUE, key |-> IF l.keyFrom = HeaderSize THEN m.key ELSE Nil, val |-> Nil]

Return(c) ==
  /\ message[c] # Nil
  /\ message[c].reply
  /\ loop[c].done
  /\ answer' = [answer EXCEPT ![c] = Returned(loop[c], message[c])]
  /\ call' = [call EXCEPT ![c] = Nil]
  /\ message' = [message EXCEPT ![c] = Nil]
  /\ arrived' = [arrived EXCEPT ![c] = 0]
  /\ loop' = [loop EXCEPT ![c] = Fresh]
  /\ UNCHANGED <<table, queue, serving>>

\* do_rpc() when there is nobody to connect to.
Refused(c) ==
  /\ call[c] = Nil
  /\ serving = Down
  /\ answer' = [answer EXCEPT ![c] = NoElement]
  /\ UNCHANGED <<table, queue, serving, call, message, arrived, loop>>

----------------------------------------------------------------------------
Init ==
  /\ table = [k \in Key |-> Nil]
  /\ queue = <<>>
  /\ serving = Nil
  /\ call = [c \in Client |-> Nil]
  /\ answer = [c \in Client |-> NoElement]
  /\ message = [c \in Client |-> Nil]
  /\ arrived = [c \in Client |-> 0]
  /\ loop = [c \in Client |-> Fresh]

Serve == Handle \/ HandleMisread \/ Crash

Next ==
  \/ Accept
  \/ Serve
  \/ \E c \in Client :
       \/ \E r \in Request : WellFormed(r) /\ Call(c, r)
       \/ Deliver(c)
       \/ Recv(c)
       \/ Return(c)
       \/ Refused(c)

\* TCP delivers, and both processes are scheduled.
Fairness ==
  /\ WF_vars(Accept)
  /\ WF_vars(Serve)
  /\ \A c \in Client : WF_vars(Deliver(c)) /\ WF_vars(Recv(c)) /\ WF_vars(Return(c))

Spec == Init /\ [][Next]_vars /\ Fairness

----------------------------------------------------------------------------
MaxSize == HeaderSize + 2 * MaxLength

LoopOK ==
  [twice : 0 .. 2, read : 0 .. MaxSize, readSize : 0 .. MaxLength, past : 0 .. MaxSize,
   k : 0 .. MaxLength, v : 0 .. MaxLength, keyFrom : 0 .. 6, valueFrom : 0 .. MaxSize,
   over : BOOLEAN, done : BOOLEAN]

RpcTypeOK ==
  /\ table \in [Key -> Value \cup {Nil}]
  /\ queue \in Seq(Client)
  /\ serving \in Client \cup {Nil, Down}
  /\ call \in [Client -> Request \cup {Nil}]
  /\ answer \in [Client -> Answers]
  /\ message \in [Client -> Message \cup {Nil}]
  /\ \A c \in Client : message[c] # Nil => arrived[c] \in 0 .. Size(message[c])
  /\ loop \in [Client -> LoopOK]

\* The loop of both ends gets every message as it was sent, however TCP cuts
\* it: it stops neither before the last byte nor in the wrong buffer.
ReceivedAsSent ==
  \A c \in Client :
    message[c] # Nil /\ loop[c].done => Whole(loop[c], message[c])

\* Neither end ever waits in recv() for more than the message that the other one
\* has sent, however TCP cuts it and however wrong its fields are read: every loop
\* ends with the last byte at the latest, and nobody waits for the other one forever.
EndsInMessage ==
  \A c \in Client :
    message[c] # Nil /\ loop[c].past >= Size(message[c]) => loop[c].done

\* So every call returns, whatever became of this request or of others: with the
\* reply, with what was misread, or with an error when the server is gone.
EveryCallEnds == \A c \in Client : call[c] # Nil ~> call[c] = Nil

\* The server and its clients are one store: do_rpc() returns with the outcome
\* of its own request on what all the requests before have left behind.
Store == INSTANCE KVStore WITH
  store   <- table,
  done    <- [c \in Client |->
                IF message[c] # Nil /\ message[c].reply THEN Element(message[c]) ELSE Nil],
  Request <- {r \in Request : WellFormed(r)}

ImplementsStore == Store!StoreSafety

\* And it does return, whoever else is served before.
AnswersAsStore == Store!StoreFairness
================================================================================
