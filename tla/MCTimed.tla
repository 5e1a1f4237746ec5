--------------------------------- MODULE MCTimed -------------------------------
(****************************************************************************)
(* The timetable of run_dht.sh: sleeps of 1, 2 and 2 seconds between the    *)
(* launches, and of 3 before the ring is announced to be stable.            *)
(****************************************************************************)
EXTENDS DhtTimed, MCRing

ScriptLaunchTime == (1 :> 0) @@ (26 :> 1) @@ (76 :> 3) @@ (53 :> 5)
================================================================================
