-------------------------------- MODULE DhtTimed -------------------------------
(****************************************************************************)
(* The ring of DhtRing against the clock of run_dht.sh: the script launches *)
(* its nodes at fixed seconds, a node that has sent a STABILIZE sleeps for  *)
(* one second, and everything else is quick: no handler takes a second, so  *)
(* time passes only when no node can take a turn and no launch is due.      *)
(* What happens within the same second happens in any order.                *)
(****************************************************************************)
EXTENDS DhtRing

CONSTANTS
  LaunchTime,   \* the second at which the script launches each node
  Announced,    \* the second from which on the ring is claimed to be stable
  Horizon       \* bound: the clock of the model stops here

ASSUME TimeAssumption ==
  LaunchTime \in [Node -> Nat] /\ Announced \in Nat /\ Horizon \in Nat

VARIABLES
  now,          \* seconds since the first launch
  wake          \* when the sleep(1) of each node ends

timedVars == <<vars, now, wake>>

TimedTypeOK ==
  /\ now \in 0 .. Horizon
  /\ wake \in [Node -> 0 .. Horizon + 1]

Awake(n) == wake[n] <= now

TimedInit == Init /\ now = 0 /\ wake = [n \in Node |-> 0]

LaunchEarly(n) == Launch(n) /\ UNCHANGED <<now, wake>>   \* mutant: no sleep

\* The script has slept long enough to reach the line of n.
TimedLaunch(n) == LaunchTime[n] <= now /\ Launch(n) /\ UNCHANGED <<now, wake>>

OversleptTurn(n) ==   \* mutant: sleep(2)
  /\ Awake(n)
  /\ Turn(n)
  /\ wake' = IF StabilizeTurn(n) THEN [wake EXCEPT ![n] = now + 2] ELSE wake
  /\ UNCHANGED now

TimedTurn(n) ==
  /\ Awake(n)
  /\ Turn(n)
  /\ wake' = IF StabilizeTurn(n) THEN [wake EXCEPT ![n] = now + 1] ELSE wake
  /\ UNCHANGED now

\* Nobody can take a turn: the node waits in accept(), sleeps or is not running.
Idle(n) ==
  \/ status[n] # "up"
  \/ ~Awake(n)
  \/ ~StabilizeTurn(n) /\ inbox[n] = <<>>

Due(n) == status[n] = "off" /\ LaunchTime[n] <= now

SecondPasses ==
  /\ now < Horizon
  /\ \A n \in Node : Idle(n) /\ ~Due(n)
  /\ now' = now + 1
  /\ UNCHANGED <<vars, wake>>

TimedNext == SecondPasses \/ \E n \in Node : TimedLaunch(n) \/ TimedTurn(n)

TimedSpec == TimedInit /\ [][TimedNext]_timedVars

----------------------------------------------------------------------------
\* From the second Announced on, all the nodes that the script has launched live and have
\* found their places, whichever way the messages of each second were ordered.  The
\* script's "Ring should be stable by now" comes at second 8, which is too early.
StableWhenAnnounced == now >= Announced => Up = Node /\ RingStable
================================================================================
