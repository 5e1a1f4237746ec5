-------------------------------- MODULE KVStore --------------------------------
(****************************************************************************)
(* What the ring promises to its clients: one store, in which every SET,    *)
(* GET and DEL takes effect at one moment between the call of do_rpc() and  *)
(* its return, and which answers every call exactly once.                   *)
(****************************************************************************)
CONSTANTS Client, Key, Nil, Request

VARIABLES
  store,   \* the value of each key, Nil if there is none
  call,    \* the request each client waits for, Nil if it is idle
  done,    \* the outcome of a request that has taken effect, Nil before
  answer   \* what the client's last do_rpc() returned

storeVars == <<store, call, done, answer>>

NoElement == [get |-> FALSE, key |-> Nil, val |-> Nil]

\* A GET returns the element it finds; everything else returns NULL.
Effect(r) == CASE r.op = "set" -> [store EXCEPT ![r.key] = r.val]
               [] r.op = "del" -> [store EXCEPT ![r.key] = Nil]
               [] r.op = "get" -> store

Result(r) ==
  IF r.op = "get" /\ store[r.key] # Nil
  THEN [get |-> TRUE, key |-> r.key, val |-> store[r.key]]
  ELSE NoElement

Invoke(c, r) ==
  /\ call[c] = Nil
  /\ call' = [call EXCEPT ![c] = r]
  /\ UNCHANGED <<store, done, answer>>

Execute(c) ==
  /\ call[c] # Nil
  /\ done[c] = Nil
  /\ store' = Effect(call[c])
  /\ done' = [done EXCEPT ![c] = Result(call[c])]
  /\ UNCHANGED <<call, answer>>

Return(c) ==
  /\ done[c] # Nil
  /\ call' = [call EXCEPT ![c] = Nil]
  /\ done' = [done EXCEPT ![c] = Nil]
  /\ answer' = [answer EXCEPT ![c] = done[c]]
  /\ UNCHANGED store

\* A request that takes effect and is answered in the same step.
Serve(c) ==
  /\ call[c] # Nil
  /\ done[c] = Nil
  /\ store' = Effect(call[c])
  /\ call' = [call EXCEPT ![c] = Nil]
  /\ answer' = [answer EXCEPT ![c] = Result(call[c])]
  /\ UNCHANGED done

Progress(c) == Execute(c) \/ Return(c) \/ Serve(c)

StoreInit ==
  /\ store = [k \in Key |-> Nil]
  /\ call = [c \in Client |-> Nil]
  /\ done = [c \in Client |-> Nil]
  /\ answer = [c \in Client |-> NoElement]

StoreNext ==
  \E c \in Client : Progress(c) \/ \E r \in Request : Invoke(c, r)

StoreSafety == StoreInit /\ [][StoreNext]_storeVars

StoreFairness == \A c \in Client : WF_storeVars(Progress(c))

StoreSpec == StoreSafety /\ StoreFairness
================================================================================
