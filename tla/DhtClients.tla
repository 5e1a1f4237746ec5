------------------------------- MODULE DhtClients ------------------------------
(****************************************************************************)
(* A freshly settled ring and its first clients: the nodes of the script    *)
(* still send STABILIZE to each other, each until it sees a request.        *)
(****************************************************************************)
EXTENDS DhtRing

ClientsBeforeRing == SettledNext \/ Calls   \* mutant: clients do not wait

\* Clients come when all the nodes are up and the ring is stable.
ClientsNext ==
  \/ SettledNext
  \/ Up = Node /\ RingStable /\ Calls

ClientsSpec == Init /\ [][ClientsNext]_vars /\ Fairness

\* A GET finds what is stored: when the call returns and some node still has a
\* value for the key, the client has got one.  With a single client this is
\* what separates a store from a cache that forgets.
GetFindsStored ==
  [][\A c \in Client :
       /\ call[c] # Nil /\ call'[c] = Nil
       /\ call[c].op = "get"
       /\ \E n \in Node : table[n][call[c].key] # Nil
       => answer'[c].get]_vars

\* do_rpc() returns: the client gets an answer in the end, whichever node it
\* calls and however far the nodes have got in noticing it.
CallReturns == \A c \in Client : call[c] # Nil ~> call[c] = Nil
================================================================================
