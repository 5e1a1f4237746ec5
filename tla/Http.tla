---------------------------------- MODULE Http ---------------------------------
(****************************************************************************)
(* The message board of 4_http/server.c: movie_handler() on top of the hash *)
(* table.  A message is a body; its ID, which the answer to the POST tells, *)
(* is the decimal DJB2 hash of the body.  Paths and IDs are both keys: any  *)
(* path can be asked for.  libonion (external) calls the handler for one    *)
(* request at a time, O_ONE_LOOP, so that a request is a step.              *)
(****************************************************************************)
EXTENDS HashTable

CONSTANTS
  IdOf,      \* the ID of each body: bodies may share one
  Method     \* the methods of libonion's request.h that clients use

ASSUME IdAssumption == IdOf \in [Value -> Key]
ASSUME MethodAssumption == Method \subseteq 0 .. 10

VARIABLES
  response,  \* what the last request was answered
  server,    \* "up", "stopped" by a signal, "undefined" after a use of the freed table
  held       \* history: the IDs that POSTs told and that nothing has been taken for since

httpVars == <<heap, buckets, reply, response, server, held>>

Board == <<heap, buckets, reply>>

\* clean says whether the text ends where the body does: values are stored
\* without a NUL and printed with "%s".
Answer(code, id, body, clean) == [code |-> code, id |-> id, body |-> body, clean |-> clean]
Code(n) == Answer(n, Nil, Nil, TRUE)

\* flags & 7, of a field that is four bits wide: MKCOL, 8, is GET and
\* PROPPATCH, 9, is POST.
Handled(method) == CASE method % 8 = 0 -> "GET"
                     [] method % 8 = 1 -> "POST"
                     [] method % 8 = 6 -> "DELETE"
                     [] OTHER          -> "other"

\* The IDs in whose place k may be found, or the other way round.
Confusable(k) ==
  {j \in Key : SlotOf[j] = SlotOf[k] /\ (<<j, k>> \in Begins \/ <<k, j>> \in Begins)}

\* Those and the ones that a POST filed under k may take along.
Endangered(k) ==
  Confusable(k) \cup
    {j \in Key : \E a \in Overread(k) :
       SlotOf[j] = SlotOf[k] /\ SlotOf[heap[a].key] = SlotOf[k] /\ <<j, heap[a].key>> \in Begins}

----------------------------------------------------------------------------
\* path = Nil is the empty path.
GetMovie(path) ==
  /\ path # Nil
  /\ Get(path)
  /\ \E clean \in BOOLEAN :
       response' = IF reply'.ok THEN Answer(200, Nil, reply'.value, clean) ELSE Code(404)
  /\ UNCHANGED held

PostMovie(path, body) ==
  /\ path = Nil
  /\ body # Nil
  /\ Set(IdOf[body], body)
  /\ response' = Answer(201, IdOf[body], Nil, TRUE)
  /\ held' = (held \ Endangered(IdOf[body])) \cup {IdOf[body]}

DeleteMovie(path) ==
  /\ path # Nil
  /\ Del(path)
  /\ response' = Code(IF reply'.ok THEN 204 ELSE 500)
  /\ held' = IF reply'.ok THEN held \ Confusable(path) ELSE held

BadRequest(method, path, body) ==
  /\ IF method = "POST" THEN path # Nil \/ body = Nil ELSE path = Nil
  /\ method # "other"
  /\ response' = Code(400)
  /\ UNCHANGED <<Board, held>>

\* movie_handler()
Request(method, path, body) ==
  /\ server = "up"
  /\ \/ Handled(method) = "GET" /\ GetMovie(path)
     \/ Handled(method) = "POST" /\ PostMovie(path, body)
     \/ Handled(method) = "DELETE" /\ DeleteMovie(path)
     \/ BadRequest(Handled(method), path, body)
     \/ /\ Handled(method) = "other"
        /\ response' = Code(200)
        /\ UNCHANGED <<Board, held>>
  /\ UNCHANGED server

\* onexit(): ht_cleanup() frees the array of buckets.  In the middle of a
\* handler, that handler goes on with what is freed; a second signal frees it
\* again.
OnExit ==
  /\ server # "undefined"
  /\ server' \in IF server = "up" THEN {"stopped", "undefined"} ELSE {"undefined"}
  /\ UNCHANGED <<Board, response, held>>

\* A request that the loop handles before onion_listen() returns.
LateRequest(method, path, body) ==
  /\ server = "stopped"
  /\ Handled(method) # "other"
  /\ IF Handled(method) = "POST" THEN path = Nil /\ body # Nil ELSE path # Nil
  /\ server' = "undefined"
  /\ UNCHANGED <<Board, response, held>>

HttpInit ==
  /\ Init
  /\ response = Code(0)
  /\ server = "up"
  /\ held = {}

HttpNext ==
  \/ OnExit
  \/ \E m \in Method, path \in Key \cup {Nil}, body \in Value \cup {Nil} :
       Request(m, path, body) \/ LateRequest(m, path, body)

HttpSpec == HttpInit /\ [][HttpNext]_httpVars

----------------------------------------------------------------------------
\* A body is filed under the ID that its POST tells, and under no other.
FiledUnderId ==
  \A a \in Addr : heap[a] # Nil => heap[a].key = IdOf[heap[a].value]

\* A message can be fetched under the ID that the answer to its POST told, until a
\* DELETE or a POST that this ID can be confused with, or that may supersede a
\* shorter ID which both begin with: whatever else is sent,
\* and whatever lies in memory behind the keys, a search for the ID ends at
\* its own element.
Retrievable ==
  \A i \in held : \A read \in Memory(i) :
    LET a == Found(i, read) IN a # Nil /\ heap[a].key = i
================================================================================
