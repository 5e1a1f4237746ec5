# Verification of computer-network-exercises

TLA+ models of the programs in this repository, the TLC runs that check them
on small instances, and theorems about them that TLAPS checks for every value
of the constants. The main subject is the distributed hash table of
`3_dht`, a simplified Chord ring; the RPC client and server of `2_rpc`, the
hash table that all servers share, the HTTP server, the NTP client and the
programs of `1_udp_tcp` come with it.

## The system

| Component | Source | State | Operations |
|---|---|---|---|
| DHT node | `3_dht/rpc_server.c`, `marshalling.c` | `SELF/NEXT/PREV` identities, `CLIENT_SOCKET`, `tick`, `firstSet`, the accept queue, a hash table | start and JOIN; STABILIZE every third turn; handlers of JOIN, NOTIFY, STABILIZE; SET, GET, DEL; forwarding; relaying an acknowledgement |
| Launch script | `3_dht/run_dht.sh` | which nodes run, a clock | four launches with sleeps, "Ring should be stable by now" |
| RPC server | `2_rpc/rpc_server/rpc_server.c` | the accept queue, the receive loop, a hash table | accept, receive, SET, GET, DEL, reply |
| RPC client | `2_rpc/rpc_client/rpc_interface.c`, `client.c` | one call | connect, send, receive loop; the driver sets, gets, deletes and gets again some lines of a file |
| Hash table | `hashtable.c` (three copies) | buckets of doubly linked elements, counts | `set`, `get`, `del`, `init`, `cleanup` |
| HTTP server | `4_http/server.c` | the hash table | POST stores a body under the decimal DJB2 hash of it, GET, DELETE; `onexit` frees the table in a signal handler |
| NTP client | `5_ntp/ntp_client.c`, `marshalling.c` | the round and the server in it, the measurements, the best server so far | query four servers in turn, compute delay and offset, keep the smallest delay; pack and unpack 48 bytes |
| QOTD, image download | `1_udp_tcp` | one request and its answer, or the accept queue of the quote server | a datagram and its reply; a quote over TCP with `MSG_WAITALL`; a `recv()` loop until the end of an HTTP response |

**How they interact.** Processes share nothing but TCP connections. A DHT node
is one thread around `accept()`; a connection between nodes carries one message
and no reply, so that an answer (NOTIFY, ACK) is a new connection in the other
direction. A client's connection stays open until its answer is written to it,
by the node that owns the key or, when the request was forwarded, by the node
that the client called, which remembers the socket in `CLIENT_SOCKET` until
the ACK comes in. Inside a process, a server calls its hash table from its one
thread (`O_ONE_LOOP` in the HTTP server).

**What is hard about it.** Pointers of several nodes change by messages that
cross; `PREV_ID` is NULL for a while; a node that has seen a request treats
every later message as one; the only memory of a pending request is one
variable; accept queues are short and every `connect()` blocks; the script
relies on sleeps; TCP cuts messages where it likes; hash table operations
relink lists case by case. `PROJECT.json` lists each hazard at its line.

**What makes each part correct.** *Ring*: no position has two owners, nobody
reads a NULL predecessor, and all nodes end up on one stable ring. *Data*: a
pair is stored once, at the owner of its key. *Clients*: every call returns, with
the outcome of its own request. *Exchange*: a message is read as it was sent.
*Hash table*: sound lists, one element per key, dictionary semantics.
*HTTP server*: a message stays where its POST said. *Client programs*: each
ends, unless a datagram is lost; a driver gets its own values back and leaves
nothing behind; a quote is one line, an image is whole; the server that NTP
chooses is the one with the least delay of the round.

## Modules

| Module | Models | Composes |
|---|---|---|
| `Dht` | the node process, its clients and the messages between them | |
| `DhtRing` | ring formation under the launch order of the script | `Dht` |
| `DhtTimed` | the same against the script's clock | `DhtRing` |
| `DhtClients` | the first clients of a settled ring | `DhtRing` |
| `DhtService` | a ring in service, as an implementation of `KVStore` | `Dht`, `KVStore` |
| `KVStore` | abstract: one store, every call answered once with its own outcome | |
| `Rpc` | client and server of `2_rpc` with the receive loop, as an implementation of `KVStore` | `KVStore` |
| `HashTable` | `hashtable.c` on pointers, as an implementation of `Dictionary` | `Dictionary` |
| `Dictionary` | abstract: a map in which related keys may be confused | |
| `Http` | `movie_handler()` and `onexit()` of `4_http/server.c` on top of the table | `HashTable` |
| `Driver` | `client.c` of `2_rpc`: drivers side by side on one store | `KVStore` |
| `Fetch` | the quote clients, the quote server and the image download | |
| `NtpWire` | the 48 bytes of an NTP packet | |
| `Ntp` | the NTP client, its servers and the network | `NtpWire` |
| `Exercises` | the client programs, one kind of them at a time | `Fetch`, `Driver`, `Ntp` |
| `DhtProofs` | theorems about `Dht` | `Dht` |
| `DhtRingProofs` | theorems about a ring that forms, and its first clients | `DhtClients`, `DhtTimed`, `DhtProofs`, `NumberProofs` |
| `DhtServiceProofs` | theorems about a ring in service | `DhtService`, `DhtProofs`, `NumberProofs` |
| `RpcProofs` | theorems about `Rpc` | `Rpc` |
| `ExercisesProofs` | theorems about `Fetch`, `Driver` and `Exercises` | `Exercises`, `NumberProofs` |
| `HttpProofs` | theorems about `HashTable` and `Http` | `Http`, `NumberProofs` |
| `NtpProofs` | theorems about `NtpWire` and `Ntp` | `Ntp`, `NumberProofs` |
| `NumberProofs` | lemmas about division by what is not a constant, and about least and greatest numbers | |
| `MC*` | instances for TLC | |

Operators that a comment marks as *mutant* are not part of any specification.
Each is a definition of the model with one plausible slip of the code in it (a
dropped guard, `>=` for `>`, a forgotten reset) and is the evidence that a
property can fail: with it in place of the definition that it precedes, TLC
finds the property violated.

### Dht

A turn of `main()`'s loop is one action: everything between two `accept()`s is
local, except for at most one message to another node. `Turn(n)` is the
disjunction of the branches:

| Action | Code (`3_dht/rpc_server.c`) |
|---|---|
| `Start` | 313-380, `listen()` and `join()` |
| `Stabilize` | 389-394, `stabilize()` |
| `ForwardJoin`, `AcceptJoin` | 524-545 |
| `Notify` | 547-559 |
| `AdoptPrev`, `AnswerStabilize` | 561-594 |
| `Ignore` | a message that no branch handles |
| `Relay` | 470-474, `respondToClient()` |
| `Forward` | 476-483, `requestFromNextPeer()` |
| `ServePeer` | 485-515, `respondToPeer()` |
| `ServeClient` | 485-521, `respondToClient()` |
| `Crash` | `pass()`, 53-56, with `PREV_ID` NULL |
| `Call` | `do_rpc()` of the client, up to the blocking `recv()` |

`nextId`, `prevId` are `NEXT_ID`, `PREV_ID`; a node is named by its ID, since ID,
address and port are always assigned together. `inbox[n]` is the accept
queue of n with the message that each connection carries. `connect()` is
refused by a process that does not listen, and blocks while the queue is full:
then the turn has not happened yet, or it happens without the message once
`connect()` gives up, which is what `SendTo` says. `tick` is kept modulo
`STBZ_INTERVAL`, 3, and not followed after `firstSet`, when nothing reads it.
A message is a record of the flags of its header; forwarding drops NOTI and
STBZ as `requestFromNextPeer()` does, where lines 72-73 assign the incoming
header to itself. The data branch is taken for *every* message once
`firstSet` holds, with hash 5381 mod 100 for the empty key of a ring message.
After a crash the kernel resets the connections of the process, and do_rpc()
returns as if nothing was found.

The hash table of a node is a map here. `HashTable` shows that `hashtable.c` is
one as long as no key of a bucket begins with another.

### DhtRing and DhtTimed

`run_dht.sh` starts nodes 1, 26, 76 and 53, the second and third through node 1
and the last one through 26. `SettledSpec` is the script with sleeps that are
long enough: a node is launched when those before it have settled (`Settled`), which
means that their pointers make a ring (`RingStable`) and that no message under way
tells of an earlier one (`NothingStale`).
`TimedSpec` has the script's own sleeps: time advances by a second when no node
can take a turn, since a handler takes microseconds and only `sleep(1)` after a
STABILIZE and the script's sleeps take longer. Within a second every order of
turns is possible.

Without such a discipline the ring does not always form: nodes that join at
the same time through node 1 may lose one of them, and a JOIN that reaches a node
before that node's first STABILIZE kills it. The mutants `LaunchAtOnce` and
`LaunchEarly` are that system. `RingStable` alone is no discipline either, which TLC
shows with five nodes, 1, 26, 53, 76 and 90, the last one launched through node 1 while a
STABILIZE or NOTIFY of an earlier join is still on its way: the node that
gets it takes an old neighbour for its next, finds its way back from there by
further STABILIZEs, and on it meets the newcomer, which takes it for its
predecessor. Then two nodes own the positions in between. With four nodes the two
guards allow the same states.

### DhtService and DhtClients

`KVStore` comes in two parts, `StoreSafety` and `StoreFairness`: `ImplementsStore`
says that every step of the ring is a step of the store or none, and
`AnswersAsStore` that every call is answered. `ServiceInit` is the stable ring after each node has seen a request and the
ring messages under way have been used up. It is reached from `Init`: the ring
forms (`RingForms`), each node's first request sets its `firstSet`, and no ring
message is sent from then on. `KVStore` is the promise to clients. The
refinement mapping takes the table of a key's owner for the store; a request has
taken effect (`done`) when its acknowledgement is on the way to the node that
the client called. `DhtClients` starts from `Init` and has the ring settle first.

### Rpc

Client and server read with the same loop, in which the first `recv()` is the
header, whatever it returns. `loop[c]` has the variables of the loop; instead of
bytes it keeps which part of the message went into which buffer. `Cuts` is the
environment: where TCP may cut a message. `CutInLast` allows a cut at a field's
end or inside the last field, and the loop is right then, since it counts the
bytes of the last field up. TCP promises no such thing, and `CutAnywhere` has cuts
of every other kind: in the header, between the two bytes of a length field, in a key
that a value follows.

A field that did not come whole is what the zeroed header makes of it: a length whose
low byte is missing is a multiple of 256 (`Field`). Lengths have 16 bits; many values
of `movies.csv` need both bytes. Keys and values of more than 65535 bytes are not
modelled.

| Action | Code (`2_rpc`) |
|---|---|
| `Call` | `rpc_interface.c` 63-108, connect and send |
| `Refused` | the same, 78-81, when the server is dead |
| `Accept` | `rpc_server.c` 94-98 |
| `Deliver` | TCP |
| `Recv` | `rpc_server.c` 117-142, `rpc_interface.c` 110-138, one `recv()` |
| `Handle` | `rpc_server.c` 144-206, with a request that was read as it was sent |
| `HandleMisread` | the same, with any other |
| `Crash` | `hashtable.c` 29-45, `createElement()` copies from NULL; or a buffer was overrun |
| `Return` | `rpc_interface.c` 140-151, and 113-116 after a reset |

Both ends go on with whatever they have read. `HandleMisread` does what `set()`, `get()` and
`del()` can do with other bytes than were sent: a SET stores under any key and deletes what it
matches, a DEL deletes one pair or none, a GET finds any pair or none. A misread value stands for any of
the instance's values. The connection is closed with bytes of the request unread, so that the kernel may reset it and
the reply may be lost (`Broken`). `Returned` is what the client makes of a misread reply. A SET
whose loop ended before the value has a NULL `value_buffer` and a length above 0: the server dies, and
the kernel resets the connections it had accepted or queued. Where a loop has written behind a
buffer (`over`), the server may go on or die.

### HashTable

`Unlink` and `Link` are the pointer assignments of `del()` and `setElement()`.
`setElement()` calls itself after each element it deletes; `Cleared` is that
recursion, a function over the positions of the list. `Begins` says which keys begin
with which others. `memcmp()` over the searched key's length takes a longer stored key
that begins with it for a match, and reads past the end of a shorter one: whether it
matches then depends on the memory behind it, and is left open (`Memory`). That memory is
taken to stay as it is during one call.

`setElement()` deletes an element that matches by that element's own key. If the key is
shorter than the new one, `del()` may come across another that begins with it
first: with `ab` and `abd` in a bucket and a `c` in memory behind `ab`, a set of
`abc` deletes both (`Superseded`). `Dictionary` states what remains true: it is a map if
keys of a bucket are unrelated.

### Http

A request is one step: libonion's loop, `O_ONE_LOOP`, calls the handler for one at
a time. A body is filed under `IdOf[body]`, the decimal DJB2 hash that the answer
tells; different bodies may share it, and the digits of one ID may begin
another's. Since paths and IDs are the same strings, both are keys of `HashTable`, and
a client may ask for any of them. `Handled` takes a method from `flags & 7` as
the code does, although libonion's methods are four bits wide: 8, MKCOL, is
handled as GET and 9, PROPPATCH, as POST. `held` is history: the IDs that POSTs
told and for which nothing was sent since that could have moved them: no DELETE or
POST of a related ID (`Confusable`), and no POST that could supersede an ID
which both begin with (`Endangered`).
`OnExit` is the signal handler, which frees the array of buckets: afterwards the server has
stopped, or, if the signal came in the middle of a handler, the program's behaviour is
undefined, as it is when another request or signal comes. No property
is about what follows.

| Action | Code (`4_http/server.c`) |
|---|---|
| `GetMovie` | 22-34 |
| `PostMovie` | 35-49 |
| `DeleteMovie` | 50-61 |
| `BadRequest` | 24, 37, 52 |
| `Request` | 14-67, also the methods that are not supported |
| `OnExit`, `LateRequest` | 69-75 |

### Driver

Each client of the store is a process that runs `getFileInfo()` and
`setGetDel()`. `Draws` is what the drawing loop may end with: distinct line numbers
from 0 on, where 0 and 1 both are the first line. `step` counts the calls that
have returned; `Op` and `Item` say which of the four loops and which line a call
belongs to. A call is a `KVStore` call, so that what holds of drivers holds with
`Rpc` below them, and with the ring for clients of different nodes.

### Fetch

A reader runs `datagram_client.c`, `stream_client.c` or `stream_http_image.c`; the
quote server of `tcp_qotd/server.c` serves the TCP readers. A stream is two
counters, `sent` and `arrived`: TCP delivers (`DeliverBytes`) any number of the bytes that
were written. `WaitForAll` is `MSG_WAITALL`, which needs 512 bytes or the
end of the stream. `LineRead` is which line `getRandomQuote()` leaves in its
buffer: it reads one line more than it drew, and past the end `fgets()` leaves
the last one, so that the first line of a longer file is never sent. In the
response of the HTTP server only three positions matter: where the Content-Length line,
the header and the body end. The server may break off anywhere. The download
takes the length from what the first `recv()` returned, and ends in a NULL
pointer if the line is not complete there (`Crash`).

### NtpWire and Ntp

`Marshal` and `Unmarshal` are functions on 48 bytes; byte 0 depends on what the buffer
held before. A byte has `Base` values, 256 in the code and 4 for TLC, whose
integers do not hold 64 bits; the three fields of byte 0 always have eight. `Ntp`
is `main()` with `ntpRequest()`: `Ask` up to `recvfrom()`, `Receive` from there on,
`NextRound` after `sleep(10)`. `Account` is the body of the loop, and does not look
at `err`; `Failed` is a request that one of its calls ended, whose times are
whatever the memory held (`Junk`). Doubles are scaled to integers, a second being
`Milli * Divisor`, and the halved offset is rounded; `NormalizeTime` divides the
servers' binary fractions by `Divisor`, 1e10, as the code does. The clocks, the ways of
the datagrams and the servers are external: `Timing` has the stamps of an exchange.

## What TLC checks

| Run | Instance | Shows |
|---|---|---|
| `dht_pair` | nodes 1 and 26, two clients, a key at position 26, `Backlog` 1, no timing, 269,137 states | In every interleaving of joins, requests and crashes: a saved socket belongs to a client that waits there; pairs stay at their owner and are stored once |
| `dht_settled` | the four nodes, settled launches, 22,870 states | One owner per position, no crash, queues of at most 5, a settled ring stays settled, the ring forms and stays |
| `dht_timed` | the four nodes, timetable, 15 seconds, 39,270 states | One owner per position though joins overlap, queues of at most 5; in seconds 14 and 15, with which the clock ends, all nodes are up, so that none has died before, and the ring is stable |
| `dht_service` | three nodes, two clients at different ones, two keys, 19,563 states | The ring implements `KVStore`: its steps (`ImplementsStore`) and its liveness (`AnswersAsStore`); at most one ACK is on its way to a node |
| `dht_shared` | the same, both clients at node 26 | *violated*: a call that never returns |
| `dht_serving` | nodes 1 and 26 from `Init`, one client, 2,674 states | No crash, every call returns while the nodes still stabilize |
| `dht_first_get` | the same | *violated*: a GET misses a pair that is stored |
| `rpc` | two clients, a key of 2 bytes, values of 1 and 300, `CutInLast`, 189,636 states | Every message is read as sent; the server implements `KVStore`, steps and liveness |
| `rpc_any_cut` | two clients, a key of 258 bytes, a value of 300, `CutAnywhere`, 383,982 states | Whatever is misread, and even if the server dies of it: no loop goes on after the last byte that was sent, and every call ends |
| `rpc_pieces` | the instance of `rpc`, `CutAnywhere` | *violated*: a message that is cut in its header or its key is misread |
| `http` | two buckets, three and one IDs, two of the three beginning with the third, five bodies, two with one ID, methods GET, POST, DELETE, PROPPATCH and an unsupported one, five addresses, 3,660 states up to symmetry | Lists are sound, counts right, nothing lost; the table implements `Dictionary`; bodies are found under the ID that their POST told until a request that can be confused with it |
| `exercises` | two readers, two drivers with two lines each of a file of three, or an NTP client with three servers and two rounds, 269,381 states | A quote is one line and an image is whole in whatever pieces they come; drivers get their own values and leave nothing; the best server has the least delay; packets say what was meant; every program ends unless a datagram is lost |

**Bounds.** Nodes, contacts, IDs and sleeps of the ring runs are the script's own.
`HashSpace` is 100 throughout. `Backlog` is the code's 5 except in `dht_pair`,
where 1 lets queues fill up: messages are then lost, which the safety
properties of that run must survive. Two clients are the fewest that
compete for a socket, and two nodes the fewest that forward; three nodes make a
node between the one that is called and the owner. `Horizon` is a second after
the first second of which stability is claimed; nothing is checked of later ones. A bucket of three elements has a head, a middle
and a tail, and the fifth address is there because `set()` allocates before it
deletes. One key is enough for sockets and acknowledgements, whose handling does not
look at keys. In `rpc_any_cut` 258 and 300 have two different bytes other than 0, so that a length that is read
in half is 256, smaller than the field and larger than nothing; requests are cut behind 3, 5 or 7 bytes if a value follows and behind
4 or 7 if not, which is once for each way that the loop goes wrong. Of the drivers' three lines two have the same key, so that one
driver overwrites its own value or the two meet in a key. A response of
five positions can be cut before, at and behind each end that matters. Three servers
make a best one that is first, middle or last, and six timings equal, smaller and larger
delays; the second round is there for what the first leaves behind.

**Deadlock** is checked except in `dht_pair`, whose nodes may all have crashed,
in `dht_timed`, whose clock stops, in `http`, where a program with undefined
behaviour has no next step, and in `exercises`, whose programs end.

**Fairness.** Weak fairness of `Turn(n)`: the operating system schedules a
runnable process, and every turn is enabled until it is taken, because only node
n itself takes connections off its queue. `SettledLaunch`: the script runs to its end.
In `Rpc`, of each step of the two programs and of delivery by TCP; of the server's
steps between the loop and the next `accept()` together (`Serve`), since a misread request may end in more than one way. In
`Exercises`, of each program with what its peers and TCP do for it, of the quote server,
and of nothing that loses a datagram or fails: external servers answer what reaches them,
and a program's own step stays enabled until it is taken. Clients of the store are never
obliged to call. The runs for liveness have no bound that could stand in for
progress.

**Symmetry** is used for the addresses of the hash table only, in a run without
liveness properties; its refinement is of a safety specification that does not
mention addresses.

Two programs of different kinds do not interact: a behaviour of `Exercises` runs one
kind, which is the sum of the state spaces and not their product.

### Findings

1. `dht_first_get`: a node in service answers the STABILIZE of one that is not, as a
   request for the empty key, and the acknowledgement is taken for that of
   the first client that has just been forwarded there.
2. `dht_shared`: `CLIENT_SOCKET` holds one client. A second one at the same
   node overwrites the first, which then waits forever.
3. `rpc_pieces`: the receive loop depends on how TCP cuts a message.

Also seen, without a run:

* "Ring should be stable by now" (`src/3_dht/run_dht.sh:20`), eight seconds after the first launch and three
  after the last one, is too early: a node sends a STABILIZE every third turn, sleeps for a
  second after it and needs several rounds. With `Announced` 8 instead of 14, TLC gets there with
  node 53 still without predecessor. In seconds 14 and 15, with which the model's clock ends, the
  ring is always stable.
* A stored value of length 0 that comes back through the ring looks like one that
  is not there (`RelayedReply`), so the instances store non-empty values, as
  `client.c` does.
* `SELF_ID` 0 is a special case of `pass()` (theorem `PassAtZero`). No node of
  the script has that ID.
* "Any message sent is saved [...] and assigned an ID under which it can be retrieved"
  (`src/README.md:62`) holds until another body with the same hash is sent, or an
  ID whose digits begin with this one's or, if memory behind a third ID happens to
  agree, that begins with the same third ID: `Retrievable` says exactly how long.
* The answer to a GET goes on with what lies behind the value, which is stored without
  a NUL (`clean` in `Http`).
* MKCOL and PROPPATCH are handled as GET and POST. The table cannot tell them from these, so that
  no property is about it.
* A SET whose key TCP cuts may kill the RPC server (`Crash` in `Rpc`): the loop ends before
  the value is begun, and a NULL pointer is copied from. Calls end with an error from then on.
* "sends all entries to the RPC server" (`src/README.md:52`): the driver sends 25
  lines that it draws, and never ends if the file has fewer.
* The first line of a file of several quotes is never sent.
* The download crashes if its first `recv()` returns less than the whole Content-Length line.
* The NTP client takes exactly four servers (`argc != 5`; `src/README.md:68` has
  `hostname [hostname...]`). A failed request takes part in the selection with times
  that were never assigned, and a server's fraction of a second is divided by
  1e10 instead of 2^32: `BestIsLeast` is about the delays as they are computed, and says
  neither that they are true nor that garbage loses.
* The NTP client and the UDP quote client have no timeout: a lost datagram stops them for good.
  `ProgramsEnd` excepts just that case.

## What is proved

`DhtProofs` holds for any hash space, queue length, set of nodes, contacts, keys,
values and clients. Of the constants it assumes what `Dht` states: node IDs,
contacts and key positions lie on the ring, and `Nil` is none of the other
values. There is no assumption on timing or launch order: `Spec` lets any node start at any
moment, clients call at any moment and nodes crash.

* `TypeCorrect`: `Spec => []TypeOK`, one lemma per action. All else rests on it.
* `PairsStayAtOwner`: `Spec => []StoredAtOwner`. It is inductive together with
  `TypeOK`: a pair is stored only by the data branch, which sets `firstSet`
  and has tested `pass()`; and the branches that change `prevId` need
  `firstSet` to be false. That the code never hands over pairs is harmless for
  just that reason.
* `SavedSocketsStayOpen`: `Spec => []SavedSocketOpen`. It is not inductive: the
  socket that `Forward` saves comes from a queue. `SocketInvariant` adds that the
  client of a request in a node's queue waits at that node and is not the one
  whose socket the node has saved, that no queue has two requests of one
  client, and that a node without predecessor has saved no socket, since it
  crashes instead of forwarding.
* `PassIsArc`: `pass()` is the test for the arc (PREV, SELF] for every SELF_ID but
  0, with wrap-around and for a node alone. `PassAtZero`: with `SELF_ID` 0 it is the same test for
  all positions but 0, which the node passes on although it is its own.

`DhtRingProofs` holds for any set of nodes on any ring, `SELF_ID` 0 included, any contacts,
any order of launches (`Before`) and any queue length: `SettledSpec` may lose messages in
full queues, and the theorems survive it.

* `RingInvariant`: `SettledSpec => [](TypeOK /\ RingInv)`. None of the properties is inductive,
  since each depends on what the messages in all queues say. `RingInv` gives the two
  stages in the life of the node k that was launched last. In the first (`Waiting`) nobody
  knows k: the pointers of the others make a ring of them (`Linked`), every STABILIZE and
  NOTIFY says what is true of that ring (`InPlace`), and the one JOIN under way is that of k. In
  the second (`Joined`), which begins when k's successor handles the JOIN, every
  predecessor is the right one already, but for k's own, which may be NULL; a node may take
  for its next only the right one or the one before k came, k itself anyone
  (`Candidate`), and the messages say no more than that (`Plausible`). The first STABILIZE that
  reaches k is therefore that of its predecessor: no other node but k could take k for its
  next. A launch needs `Settled` to lead back to the first stage (`LaunchWaits`).
  TLC has checked `RingInv` on four nodes with one founder and with several. `Between`,
  `Elsewhere` and `Displaced` are the geometry: what a newcomer between two neighbours changes.
* `OneOwnerAtATime`: `OneFounder => (SettledSpec => []OneOwner)`. `OneFounder` says that at
  most one node has no contact, as in the script: two founders make two rings, each with an owner
  for every position.
* `NoneDiesWhileJoining` and `ArcsShrink`: `SettledSpec => []NoneDies` and
  `SettledSpec => ArcsOnlyShrink`, an action property: a JOIN that is accepted is that of
  another node than the one that accepts it, so that the arc is cut and not turned around (`ArcCut`).
* `StaysSettled`: `SettledSpec => SettledStays`, an action property. In a settled
  ring a STABILIZE is answered with its sender's own name, which changes nothing (`QuietTurn`).
* `NoneDiesInService` and `StoredOnceInService`: `ClientsSpec => []NoneDies` and, with
  `OneFounder`, `[]StoredOnce`, from the first launch to any calls. From the first call on
  (`InService`) predecessors do not change any more, since no JOIN is under way and the data
  branch never makes one; `NEXT_ID` may. Together with `PairsStayAtOwner` a key has one node.
* `TimedTypeCorrect` and `TimedRingTypeCorrect`: the types of the timed ring.
* `SettledIsSpec` and `ClientsIsSpec`: these are special cases of `Spec`, so that the
  theorems of `DhtProofs` hold of them.

`DhtServiceProofs` holds for any nodes on any ring, any clients, keys and hashes.

* `KeysStoredOnce`: `ServiceSpec => []StoredOnce`, with no further hypothesis. The arcs
  between a node and its nearest predecessor do not overlap (`OneKeeper`), a ring in
  service keeps its pointers (`Settled`), and pairs stay at their owner.
* `AcksArriveOnce`: `ServiceSpec => []OneAckPerClient` if every client has a node of
  its own (`OwnGateways`), which finding 2 shows to be needed. The invariant,
  `ServiceInv`, says of every call where it is: in exactly one queue, as the client's
  request, as the forwarded request or as its acknowledgement (`UnderWay`), and
  that the client's node has saved its socket just then.
* `RingIsStore`: `ServiceSpec => ImplementsStore`, the refinement step by step. A request
  takes effect at the turn of the key's owner, and at no other. It needs `OwnGateways`;
  that there is a node and none has `SELF_ID` 0 (`SoundRing`), since otherwise a position
  has no owner (`PassAtZero`); that all clients together do not fill a
  queue (`RoomForAll`), since `SendTo` may otherwise lose a message; and that no
  value is empty, since an empty one comes back as none.
  Each of these is a hazard that `PROJECT.json` lists, and all
  hold in the run `dht_service`.

`RpcProofs` holds for any clients, any queue length, any keys of 1 to 65535 bytes, any values
of at most 65535, and, but for the hypotheses named, any `Cuts`.

* `RpcTypeCorrect`: `Spec => []RpcTypeOK`, with `RpcInv`, which says who is in the queue.
* `LoopsEndInMessage`: `Spec => []EndsInMessage`, for all cuts: neither end waits for more
  than was sent. The invariant `WithinInv` bounds what a loop still asks for by what is still to
  come: a field begins no later than the message has it, a length that is read in part is at
  most the field's, and a buffer that is filled too far ends the loop.
* `FieldwiseIsWhole`: `InLastField => (Spec => []ReceivedAsSent)`. `InLastField` says that TCP
  cuts a message only where a field ends or within the last field. TCP promises no such
  thing (finding 3): the theorem says which cuts the loop survives, and nothing of others. The
  invariant `ReadInv` gives the loop's variables for each number of bytes it has read.
* `ServerIsStore`: `InLastField => (Spec => ImplementsStore)`, under the same hypothesis. Without
  it the claim is false, since a misread request does something else to the table.

`ExercisesProofs` has three parts. The first one holds for any number of drivers, any file whose lines are a key and
a value, and any COUNT that the file has enough lines for.

* `DriverTypeCorrect`: `DriverSpec => []DriverTypeOK`.
* `DriversLeaveNothing`: `DriverSpec => []NothingLeft`. Inductive is that for every
  key with a value some driver's del of that key is still to take effect
  (`Pending`): a set is always followed by its own driver's del, and a del that
  removes another's value only helps. `CallInv` says that a driver
  waits for the call that its counters name. `Loops`, `Phases` and `DeleteOf` are the
  arithmetic of the four loops.
* `DriversGetWhatTheySet`: `DriverSpec => []GetsWhatItSet`. `OwnInv` adds what the store has
  for a key that no other driver has drawn (`OwnStore`): nothing once one of the driver's
  dels has taken effect, and before that the value of the last line that was set. Results
  and answers follow from it. A driver that draws its lines later can only
  take a key's privacy away, never give it.

The second one holds for any number of readers, any file whose lines fit the 512 bytes, and
any response that fits the download's buffer.

* `FetchTypeCorrect`, `OneLinePrinted` and `ImageWritten`: `FetchSpec => []FetchTypeOK`,
  `[]PrintsOneLine` and `[]WritesImage`. The invariant is about each reader's stream
  (`StreamInv`: what was written to it is one line, once it has called, or one response)
  and the accept queue (`QueueInv`: no reader twice, and none that was served).

* The third is `ProgramsApart`: `ExercisesSpec => FetchSpec /\ DriverSpec /\ NtpSpec`, by which
  these theorems and those of `NtpProofs` are about what the run `exercises` checks.

`HttpProofs` holds for any keys with any relation `Begins` that is a partial order, any
hash, any number of buckets, any finite heap, any bodies and any IDs.

* `HashTypeCorrect`, `ListsStaySound`, `NothingLost` and `KeysReplaced`: `Spec => []HashTypeOK`,
  `[]ListsSound`, `[]AllReachable` and `[]OneElementPerKey`. The four are about `Chain`, which
  follows the pointers; inductive is `HashInv`, by which every bucket is a list of n
  elements at some c (`IsList`). `UnlinkedList` and `LinkedList` say which list the assignments
  of `del()` and `setElement()` make of it, `ChainIsList` that the loops run through
  just that list, `ClearSteps` that the recursion of `setElement()` keeps it.
* `TableIsDictionary`: `Spec => ImplementsDictionary`, by `FoundHits`, where a search may end,
  and `SupersededKeys`, what a set may take away.
* `BoardIsTable`: `HttpSpec => Spec`, so that these hold in the server too.
* `FiledRight` and `StaysRetrievable`: `HttpSpec => []FiledUnderId` and `[]Retrievable`.
  That a search for an ID ends at its own element is not inductive; `First` is, that no element
  before it on its list can be taken for it: deleting keeps the order of a list, and what
  is put before it is unrelated.

`NtpProofs` holds for any number of servers and rounds, any stamps and garbage within 64
bits and any `Base` above 1, which includes the code's 256.

* `RoundTrip`: `unmarshal()` undoes `marshal()` for every payload.
  Each byte is the difference of two shifts (`ByteIsDifference`), so that their sum telescopes.
* `WireIsFaithful`: `NtpSpec => []WireFaithful`, by `RoundTrip` and `WireInv`: a datagram under
  way is the query or the answer to the exchange under way.
* `BestServerIsLeast`: `NtpSpec => []BestIsLeast`. The loop invariant is `LeastOf` the
  servers that are measured so far; `OneMoreServer` is its step.
* `NtpTypeCorrect`: `NtpSpec => []NtpTypeOK`, which the other two need.

The proofs changed the models:

* A `CASE` of `ServeClient` in `Dht` had guards that overlap, which TLC resolves by taking
  the first and TLA+ leaves open. `ServeClient` is an `IF` now.
* `Nil` and `None` are assumed to be none of the values that they are compared with
  (`NilAssumption`, `NoAnswerAssumption`, `NoneAssumption`), and the heap to be finite
  (`AddrAssumption`).
* Liveness was taken out of the refinements that are proved.
* `SettledLaunch` asked for `RingStable` only. `RingInv` was not inductive with that, and TLC
  found `OneOwner` false with five nodes, as told above: `Settled` is the guard now.
* `HashTable` had `setElement()` delete just the elements that match the new key. The lemma
  that its inner `del()` always finds the element it was called for is false
  (`Superseded`), and `Dictionary` and `Retrievable` had to allow for it.

Only proved: `ArcsOnlyShrink` and `FiledUnderId`, which hold for all values of the constants and which no
run repeats.

Only model-checked: everything about liveness (`RingForms`, `CallReturns`, `ProgramsEnd`,
`EveryCallEnds`, `AnswersAsStore`), since liveness and `ENABLED` are out of the prover's reach;
`QueuesHaveRoom`, which is a matter of how many nodes there are for the `Backlog` of 5
and no theorem about all rings: with five nodes and launches on `RingStable` alone TLC has
seen it fail; and `StableWhenAnnounced` and `OneOwner` of the timed run, where joins overlap and
the outcome depends on the script's seconds.

## What is not modelled

* Socket errors that end a process, and clients that go away. The code logs and exits. In `Rpc`, a
  `send()` that a reset interrupts, and a client that dies of what it wrote behind a buffer.
* Descriptors: `requestFromNextPeer()` and the relay branch never close some.
* Bytes of the RPC headers; `3_dht`'s `marshal()` and `unmarshal()` are taken for
  inverse to each other on the fields that a message uses. Ports have four digits.
* The receive loop of the DHT node; its messages arrive whole.
* What follows a use of freed memory, an overflow of the download's buffer, which an
  assumption excludes, or a read behind an array, whose result is left open.
* Files with fewer lines than COUNT, or with lines that are not a key and a value; NTP
  datagrams of another length than 48 bytes.
* libonion, of which the repository has only headers: 2,369 of its lines are declarations
  without code.

## Plan

In this order; items 1 to 6 are done, and of 8 what it says.

1. `Dht` with type and safety invariants; `DhtRing` and `DhtTimed` for the script.
2. `KVStore` with `DhtService` and `DhtClients`: what clients can rely on.
3. `DhtProofs`: types, stored pairs, saved sockets, `pass()`.
4. `HashTable` with `Dictionary`, `Rpc` with `KVStore`.
5. `Http`: `movie_handler()` on top of `HashTable`, and `onexit()`.
6. The client programs: `Ntp` with `NtpProofs`, `Driver` and `Fetch` with
   `ExercisesProofs`, side by side in `Exercises`.
7. The receive loop of `3_dht` with its third stage, and descriptors with a
   limit, as modules next to `Dht`.
8. Proofs: the refinements of `KVStore` by `DhtService` and by `Rpc` and of `Dictionary` by
   `HashTable`, `ReceivedAsSent`, `StoredOnce`, `GetsWhatItSet`, `Fetch`, `Http` and the ring
   that forms node by node are done. Next is a bound on the messages in a queue in terms of
   the number of nodes, for `QueuesHaveRoom`, and which overlapping joins keep `OneOwner`.
