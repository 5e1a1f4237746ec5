-------------------------------- MODULE DhtRing --------------------------------
(****************************************************************************)
(* How the ring forms: the nodes of Dht with the launch discipline of       *)
(* 3_dht/run_dht.sh, and no clients yet.                                    *)
(*                                                                          *)
(* The script starts its nodes in a fixed order with one or two seconds of  *)
(* sleep in between ("Please wait for ring to become stable").  SettledSpec *)
(* is the script with sleeps that are long enough: a node is started when   *)
(* those before it have settled.  DhtTimed has the sleeps as they are.      *)
(****************************************************************************)
EXTENDS Dht

CONSTANT Before   \* the nodes that run_dht.sh starts earlier than each node
ASSUME BeforeAssumption == Before \in [Node -> SUBSET Node]

Up == {n \in Node : status[n] = "up"}

Successor(n) == CHOOSE m \in Up : \A k \in Up : Distance(n, m) <= Distance(n, k)

\* Following NEXT from node to node visits all of them in the order of their
\* IDs, and following PREV does so backwards.
RingStable ==
  \A n \in Up : nextId[n] = Successor(n) /\ prevId[Successor(n)] = n

----------------------------------------------------------------------------
\* The script reaches the line that launches n.
Launch(n) == (\A m \in Before[n] : status[m] # "off") /\ Start(n)

\* No answer is under way that was true of an earlier ring: a STABILIZE comes from
\* the node that is followed by its receiver, and a NOTIFY tells nothing new.
NothingStale ==
  \A n \in Up : \A i \in DOMAIN inbox[n] :
    LET m == inbox[n][i] IN
    /\ m.cmd = "stbz" => nextId[m.id] = n
    /\ m.cmd = "noti" => m.id \in {n, nextId[n]}

Settled == RingStable /\ NothingStale

LaunchAtOnce(n) == Launch(n)   \* mutant: the script does not sleep

SettledLaunch(n) == Settled /\ Launch(n)

SettledNext == \E n \in Node : SettledLaunch(n) \/ Turn(n)

\* The script runs to its end, and every node is scheduled.
SettledSpec ==
  Init /\ [][SettledNext]_vars /\ Fairness /\ \A n \in Node : WF_vars(SettledLaunch(n))

----------------------------------------------------------------------------
Owns(n, position) ==
  status[n] = "up" /\ prevId[n] # Nil /\ ~Pass(n, prevId[n], position)

Position == 0 .. HashSpace - 1

\* No position of the ring ever has two owners, not even while a join has
\* reached some nodes and not others: between the JOIN, the NOTIFY and the
\* STABILIZE that complete it a position may be nobody's, but two nodes never
\* both keep the key/value pairs of one (pass() with the PREV_ID that the JOIN
\* and STABILIZE branches of main() leave).
OneOwner ==
  \A n, m \in Node : n # m => \A p \in Position : ~(Owns(n, p) /\ Owns(m, p))

\* pass() dereferences PREV_ID, which stays NULL in a node that joined through
\* a peer until its first STABILIZE: no JOIN gets there before.
NoneDies == \A n \in Node : status[n] # "dead"

\* The queue given to listen() is long enough: no connect() of one node to
\* another has to wait for room, so that no two nodes wait for each other.
QueuesHaveRoom == \A n \in Node : Len(inbox[n]) <= Backlog

\* Once a node has a predecessor its arc only gets smaller: whatever comes in,
\* it never claims a position that it has passed on before, and it never loses
\* its predecessor again.
ArcsOnlyShrink ==
  [][\A n \in Node : prevId[n] # Nil =>
       /\ prevId'[n] # Nil
       /\ \A p \in Position : Pass(n, prevId[n], p) => Pass(n, prevId'[n], p)]_vars

\* A ring that has settled stays as it is until the next launch: the STABILIZE
\* and NOTIFY that go round in it from then on change no pointer.
SettledStays == [][Settled /\ Up' = Up => Settled']_vars

\* All the nodes that the script starts end up on one ring and stay there:
\* joins, notifications and stabilizations repair every pointer.
RingForms == <>[](Up = Node /\ RingStable)
================================================================================
