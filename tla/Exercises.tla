-------------------------------- MODULE Exercises ------------------------------
(****************************************************************************)
(* The client programs of the repository side by side.  They share nothing  *)
(* with each other, so that a behaviour runs one kind of them: the programs *)
(* of 1_udp_tcp, the drivers of 2_rpc, or the NTP client.                   *)
(****************************************************************************)
EXTENDS Fetch, Driver, Ntp

VARIABLE running   \* "fetch", "driver" or "ntp"

exercisesVars == <<running, fetchVars, driverVars, ntpVars>>

Fetching(A) == running = "fetch" /\ A /\ UNCHANGED <<running, driverVars, ntpVars>>
Driving(A)  == running = "driver" /\ A /\ UNCHANGED <<running, fetchVars, ntpVars>>
Syncing(A)  == running = "ntp" /\ A /\ UNCHANGED <<running, fetchVars, driverVars>>

ExercisesInit ==
  /\ running \in {"fetch", "driver", "ntp"}
  /\ FetchInit
  /\ running # "fetch" => program = [r \in Reader |-> "image"]
  /\ DriverInit
  /\ NtpInit

ExercisesNext == Fetching(FetchNext) \/ Driving(DriverNext) \/ Syncing(NtpNext)

\* Processes are scheduled, TCP delivers, external servers answer what reaches
\* them; a datagram may be lost instead, and calls may fail.
ExercisesFairness ==
  /\ WF_exercisesVars(Fetching(ServeQuote))
  /\ \A r \in Reader : WF_exercisesVars(Fetching(ReaderStep(r)))
  /\ \A c \in Client : WF_exercisesVars(Driving(DriverStep(c)))
  /\ WF_exercisesVars(Syncing(NtpStep))

ExercisesSpec == ExercisesInit /\ [][ExercisesNext]_exercisesVars /\ ExercisesFairness

----------------------------------------------------------------------------
\* Whatever runs comes to an end: each reader, each driver after all its calls, and
\* the NTP client after all its rounds, unless a lost datagram is waited for.
ProgramsEnd ==
  <>CASE running = "fetch"  -> ReadersEnded
      [] running = "driver" -> \A c \in Client : Finished(c)
      [] running = "ntp"    -> RoundsEnded
================================================================================
