----------------------------------- MODULE Ntp ---------------------------------
(****************************************************************************)
(* The NTP client, 5_ntp/ntp_client.c: in every round it asks its servers   *)
(* one after the other and keeps the one with the smallest delay.           *)
(* External: the servers, the network, which may lose a datagram, and the   *)
(* clocks that the stamps of an exchange are read from.                     *)
(*                                                                          *)
(* A time is a 64 bit number with seconds in its upper half; the lower half *)
(* holds milliseconds of the client and binary fractions of a server.  Its  *)
(* doubles are scaled to integers: a second is Milli * Divisor.             *)
(****************************************************************************)
EXTENDS NtpWire

CONSTANTS
  Servers,   \* argc - 1, which is 4
  Rounds,    \* 100
  Milli,     \* 1e3: the client's fractions of a second
  Divisor,   \* 1e10, by which it divides those of a server
  Epoch,     \* NTP_SECOND_OFFSET
  Timing,    \* the stamps that an exchange may take
  Junk,      \* what a timeref_t that was never assigned may hold
  Silence    \* no datagram

Times == [c_s : 0 .. Word * Word - 1, c_r : 0 .. Word * Word - 1,
          s_r : 0 .. Word * Word - 1, s_s : 0 .. Word * Word - 1]

ASSUME CountsAssumption == Servers \in Nat \ {0} /\ Rounds \in Nat \ {0}
ASSUME ScaleAssumption ==
  /\ {Milli, Divisor} \subseteq Nat \ {0}
  /\ Epoch \in 0 .. Word - 1
ASSUME TimesAssumption == Timing \subseteq Times /\ Timing # {} /\ Junk \subseteq Times
\* getTime() shifts the seconds up and adds milliseconds.
ASSUME GetTimeAssumption ==
  \A t \in Timing : t.c_s % Word < Milli /\ t.c_r % Word < Milli

VARIABLES
  j, i,      \* the counters of main(): the round and the server in it
  phase,     \* "ask", "wait", "sleep" or "done"
  stamps,    \* the stamps that the exchange under way takes if it completes
  wire,      \* the datagram under way
  data,      \* the measurements of the round: row j of data
  best       \* bestServer, bestDelay, bestOffset

ntpVars == <<j, i, phase, stamps, wire, data, best>>

Second == Milli * Divisor

NoBest == [server |-> 0, delay |-> Second, offset |-> 0]
NoData == [s \in 1 .. Servers |-> [offset |-> 0, delay |-> 0, disp |-> 0]]

----------------------------------------------------------------------------
NormalizeTime(time, ntp) ==
  Second * (time \div Word) + (time % Word) * (IF ntp THEN Milli ELSE Divisor)

\* addUnixOffsets(): unsigned, and 2208988800 << 32 fits.
UnixTime(time) == (time - Epoch * Word) % (Word * Word)

InSeconds(t) ==
  [c_s |-> NormalizeTime(t.c_s, FALSE), c_r |-> NormalizeTime(t.c_r, FALSE),
   s_r |-> NormalizeTime(UnixTime(t.s_r), TRUE),
   s_s |-> NormalizeTime(UnixTime(t.s_s), TRUE)]

CalculateDelay(x) == (x.c_r - x.c_s) - (x.s_s - x.s_r)
CalculateOffset(x) == ((x.s_r - x.c_s) + (x.s_s - x.c_r)) \div 2

----------------------------------------------------------------------------
\* The request: memset() to 0, then vn and mode.
Query ==
  [li |-> 0, vn |-> 4, mode |-> 3, stratum |-> 0, poll |-> 0, precision |-> 0,
   root_delay |-> 0, root_dispersion |-> 0, reference_id |-> 0,
   reference_timestamp |-> 0, origin_timestamp |-> 0,
   receive_timestamp |-> 0, transmit_timestamp |-> 0]

\* External: what a server makes of it.
Response ==
  [li |-> 0, vn |-> 4, mode |-> 4, stratum |-> 1, poll |-> 0, precision |-> 0,
   root_delay |-> 1, root_dispersion |-> Base + 1, reference_id |-> 0,
   reference_timestamp |-> stamps.s_r, origin_timestamp |-> 0,
   receive_timestamp |-> stamps.s_r, transmit_timestamp |-> stamps.s_s]

Update(delay, offset) ==
  IF delay < best.delay THEN [server |-> i, delay |-> delay, offset |-> offset] ELSE best

OneServerMore == i <= Servers   \* mutant: <= for < in the loop of main()

MoreServers == i < Servers

\* main() after ntpRequest(): times.err is not looked at.
Account(times, payload) ==
  LET x == InSeconds(times) IN
  /\ data' = [data EXCEPT ![i] = [offset |-> CalculateOffset(x), delay |-> CalculateDelay(x),
                                  disp |-> payload.root_dispersion]]
  /\ best' = Update(CalculateDelay(x), CalculateOffset(x))
  /\ IF MoreServers
     THEN i' = i + 1 /\ phase' = "ask"
     ELSE i' = i /\ phase' = "sleep"
  /\ wire' = Silence
  /\ UNCHANGED <<j, stamps>>

\* getaddrinfo() or sendto() reports an error, or recvfrom() does: the times
\* that are returned have not been assigned.
Failed ==
  /\ phase \in {"ask", "wait"}
  /\ \E times \in Junk : Account(times, Query)

\* ntpRequest() up to recvfrom().
Ask ==
  /\ phase = "ask"
  /\ phase' = "wait"
  /\ stamps' \in Timing
  /\ \E old \in {0, 85, 255} : wire' = [from |-> "client", bytes |-> Marshal(old, Query)]
  /\ UNCHANGED <<j, i, data, best>>

Lost ==
  /\ phase = "wait"
  /\ wire # Silence
  /\ wire' = Silence
  /\ UNCHANGED <<j, i, phase, stamps, data, best>>

Answer ==
  /\ phase = "wait"
  /\ wire # Silence
  /\ wire.from = "client"
  /\ wire' = [from |-> "server", bytes |-> Marshal(0, Response)]
  /\ UNCHANGED <<j, i, phase, stamps, data, best>>

\* ntpRequest() from recvfrom() on.
Receive ==
  LET payload == Unmarshal(wire.bytes) IN
  /\ phase = "wait"
  /\ wire # Silence
  /\ wire.from = "server"
  /\ Account([stamps EXCEPT !.s_r = payload.receive_timestamp,
                            !.s_s = payload.transmit_timestamp], payload)

RestartWithoutBest ==   \* mutant: the best server is not forgotten
  /\ phase = "sleep"
  /\ IF j + 1 < Rounds
     THEN j' = j + 1 /\ i' = 1 /\ phase' = "ask" /\ data' = NoData
     ELSE phase' = "done" /\ UNCHANGED <<j, i, data>>
  /\ UNCHANGED <<stamps, wire, best>>

\* After sleep(10).
NextRound ==
  /\ phase = "sleep"
  /\ IF j + 1 < Rounds
     THEN j' = j + 1 /\ i' = 1 /\ phase' = "ask" /\ data' = NoData /\ best' = NoBest
     ELSE phase' = "done" /\ UNCHANGED <<j, i, data, best>>
  /\ UNCHANGED <<stamps, wire>>

NtpInit ==
  /\ j = 0 /\ i = 1
  /\ phase = "ask"
  /\ stamps = CHOOSE t \in Timing : TRUE
  /\ wire = Silence
  /\ data = NoData
  /\ best = NoBest

NtpStep == Ask \/ Answer \/ Receive \/ NextRound

NtpNext == NtpStep \/ Failed \/ Lost

NtpSpec == NtpInit /\ [][NtpNext]_ntpVars

----------------------------------------------------------------------------
NtpTypeOK ==
  /\ j \in 0 .. Rounds - 1
  /\ i \in 1 .. Servers
  /\ phase \in {"ask", "wait", "sleep", "done"}
  /\ stamps \in Timing
  /\ data \in [1 .. Servers -> [offset : Int, delay : Int, disp : Nat]]
  /\ best \in [server : 0 .. Servers, delay : Int, offset : Int]

\* A round ends with the first of the servers whose delay is least in this round as
\* the best, or with none if no delay was below a second.  (The delay of a
\* request that failed is what its unassigned times come to.)
BestIsLeast ==
  phase = "sleep" =>
    IF \A s \in 1 .. Servers : data[s].delay >= Second
    THEN best = NoBest
    ELSE /\ best.server # 0
         /\ best.delay = data[best.server].delay
         /\ best.offset = data[best.server].offset
         /\ \A s \in 1 .. Servers :
              /\ best.delay <= data[s].delay
              /\ s < best.server => best.delay < data[s].delay

\* The receiver of a datagram reads from its 48 bytes what the sender meant,
\* whatever the sender's buffer held before.
WireFaithful ==
  wire # Silence =>
    Unmarshal(wire.bytes) = IF wire.from = "client" THEN Query ELSE Response

\* The client has measured all its rounds, or waits for a datagram that was lost:
\* nothing wakes it then.
RoundsEnded == phase = "done" \/ (phase = "wait" /\ wire = Silence)
================================================================================
