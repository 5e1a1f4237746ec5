-------------------------------- MODULE NtpProofs ------------------------------
(****************************************************************************)
(* The NTP client: what unmarshal() reads is what marshal() was given, for  *)
(* every payload and every number of values that a byte may have; and the   *)
(* client is safe for any number of servers and rounds, any clocks and any  *)
(* values of unassigned memory.                                             *)
(****************************************************************************)
EXTENDS Ntp, NumberProofs

----------------------------------------------------------------------------
(****************************************************************************)
(* Weights.                                                                 *)
(****************************************************************************)

\* The weights of the bytes are the powers of Base.
LEMMA Weights ==
  /\ \A k \in 0 .. 7 : Weight(k) \in Nat /\ Weight(k) > 0
  /\ Weight(0) = 1
  /\ \A k \in 0 .. 6 : Weight(k + 1) = Weight(k) * Base
  /\ Word = Weight(3) * Base /\ Word \in Nat /\ Word > 0
  /\ Word * Word = Weight(7) * Base /\ Word * Word \in Nat /\ Word * Word > 0
  <1>1. Base \in Nat /\ Base > 0
    BY BaseAssumption
  <1>2. \A x \in Nat : x > 0 => x * Base \in Nat /\ x * Base > 0
    BY <1>1
  <1>3. Base * Base \in Nat /\ Base * Base > 0
    BY <1>1, <1>2
  <1>4. Base * Base * Base \in Nat /\ Base * Base * Base > 0
    BY <1>3, <1>2
  <1>5. Word \in Nat /\ Word > 0
    BY <1>4, <1>2 DEF Word
  <1>6. Word * Base \in Nat /\ Word * Base > 0
    BY <1>5, <1>2
  <1>7. Word * Base * Base \in Nat /\ Word * Base * Base > 0
    BY <1>6, <1>2
  <1>8. Word * Base * Base * Base \in Nat /\ Word * Base * Base * Base > 0
    BY <1>7, <1>2
  <1>9. Word * Base * Base * Base * Base \in Nat /\ Word * Base * Base * Base * Base > 0
    BY <1>8, <1>2
  <1>10. Word * Word = Word * Base * Base * Base * Base
    BY <1>1, <1>3, <1>4, <1>5 DEF Word
  <1>11. \A k \in 0 .. 7 : Weight(k) \in Nat /\ Weight(k) > 0
    <2> TAKE k \in 0 .. 7
    <2>1. k \in {0, 1, 2, 3, 4, 5, 6, 7}
      OBVIOUS
    <2> QED BY <2>1, <1>1, <1>3, <1>4, <1>5, <1>6, <1>7, <1>8 DEF Weight
  <1>12. \A k \in 0 .. 6 : Weight(k + 1) = Weight(k) * Base
    <2> TAKE k \in 0 .. 6
    <2>1. k \in {0, 1, 2, 3, 4, 5, 6}
      OBVIOUS
    <2> QED BY <2>1, <1>1 DEF Weight, Word
  <1>13. Weight(0) = 1 /\ Word = Weight(3) * Base
    BY DEF Weight, Word
  <1>14. Word * Word = Weight(7) * Base
    BY <1>10 DEF Weight
  <1> QED BY <1>5, <1>9, <1>10, <1>11, <1>12, <1>13, <1>14

\* One digit of a number is the difference of what its two neighbouring shifts keep.
LEMMA Digit ==
  ASSUME NEW v \in Nat, NEW w \in Nat, w > 0
  PROVE  w * ((v \div w) % Base) = w * (v \div w) - (w * Base) * (v \div (w * Base))
  <1> DEFINE q == v \div w
             p == q \div Base
             y == q % Base
  <1>1. q \in Nat /\ Base \in Nat /\ Base > 0
    BY BaseAssumption
  <1>2. v \div (w * Base) = p
    BY <1>1, DivDiv
  <1> HIDE DEF q
  <1>3. p \in Nat /\ y \in Nat /\ q = Base * p + y
    BY <1>1
  <1> HIDE DEF p, y
  <1>4. w * q = w * (Base * p) + w * y
    BY <1>1, <1>3
  <1>5. w * (Base * p) = (w * Base) * p
    BY <1>1, <1>3
  <1>6. w * y = w * q - (w * Base) * p
    BY <1>1, <1>3, <1>4, <1>5
  <1> QED BY <1>2, <1>6 DEF y, q

\* The highest digit needs no remainder.
LEMMA Top ==
  ASSUME NEW v \in Nat, NEW w \in Nat, w > 0, v < w * Base
  PROVE  w * ((v \div w) % Base) = w * (v \div w)
  <1>1. w * Base \in Nat /\ w * Base > 0
    BY BaseAssumption
  <1>2. v \div (w * Base) = 0
    <2> DEFINE d == w * Base
    <2> HIDE DEF d
    <2>1. d \in Nat /\ d > 0 /\ v < d
      BY <1>1 DEF d
    <2>2. d * 0 + v = v
      BY <2>1
    <2>3. (d * 0 + v) \div d = 0
      BY <2>1, DivUnique
    <2> QED BY <2>2, <2>3 DEF d
  <1>3. (w * Base) * 0 = 0 /\ w * (v \div w) \in Int
    BY <1>1
  <1> QED BY <1>2, <1>3, Digit

----------------------------------------------------------------------------
(****************************************************************************)
(* Bytes.                                                                   *)
(****************************************************************************)

\* What is left of v when its last k bytes are cleared.
Upper(v, k) == Weight(k) * (v \div Weight(k))

\* What a byte contributes to its number.
LEMMA ByteIsDifference ==
  ASSUME NEW v \in Nat, NEW k \in 0 .. 6
  PROVE  Weight(k) * Byte(v, k) = Upper(v, k) - Upper(v, k + 1)
  <1>1. Weight(k) \in Nat /\ Weight(k) > 0
    BY Weights
  <1>2. Weight(k + 1) = Weight(k) * Base
    BY Weights
  <1>3. Weight(k) * ((v \div Weight(k)) % Base)
        = Weight(k) * (v \div Weight(k)) - (Weight(k) * Base) * (v \div (Weight(k) * Base))
    BY <1>1, Digit
  <1> QED BY <1>2, <1>3 DEF Byte, Upper

\* These are integers.
LEMMA UpperType ==
  ASSUME NEW v \in Nat, NEW k \in 0 .. 7
  PROVE  Upper(v, k) \in Int /\ Byte(v, k) \in Int
  <1>1. Weight(k) \in Nat /\ Weight(k) > 0
    BY Weights
  <1>2. v \div Weight(k) \in Int
    BY <1>1
  <1>3. Byte(v, k) \in Int
    BY <1>2, BaseAssumption DEF Byte
  <1> QED BY <1>1, <1>2, <1>3 DEF Upper

\* unmarshal() puts four bytes that were cut from a number together to that number.
LEMMA Assemble32 ==
  ASSUME NEW v \in 0 .. Word - 1, NEW b, NEW at,
         b[at] = Byte(v, 3), b[at + 1] = Byte(v, 2), b[at + 2] = Byte(v, 1),
         b[at + 3] = Byte(v, 0)
  PROVE  Read32(b, at) = v
  <1>1. v \in Nat /\ v < Weight(3) * Base
    BY Weights
  <1>2. Weight(3) * Byte(v, 3) = Upper(v, 3)
    <2>1. Weight(3) \in Nat /\ Weight(3) > 0
      BY Weights
    <2>2. Weight(3) * ((v \div Weight(3)) % Base) = Weight(3) * (v \div Weight(3))
      BY <1>1, <2>1, Top
    <2> QED BY <2>2 DEF Byte, Upper
  <1>3. /\ Weight(2) * Byte(v, 2) = Upper(v, 2) - Upper(v, 3)
        /\ Weight(1) * Byte(v, 1) = Upper(v, 1) - Upper(v, 2)
        /\ Weight(0) * Byte(v, 0) = Upper(v, 0) - Upper(v, 1)
    BY <1>1, ByteIsDifference
  <1>4. \A k \in 0 .. 3 : Upper(v, k) \in Int /\ Byte(v, k) \in Int
    BY <1>1, UpperType
  <1>5. Upper(v, 0) = v /\ Weight(0) * Byte(v, 0) = Byte(v, 0)
    BY <1>1, <1>4, Weights DEF Upper
  <1> QED BY <1>2, <1>3, <1>4, <1>5 DEF Read32

\* And so with eight bytes.
LEMMA Assemble64 ==
  ASSUME NEW v \in 0 .. Word * Word - 1, NEW b, NEW at \in Nat,
         b[at] = Byte(v, 7), b[at + 1] = Byte(v, 6), b[at + 2] = Byte(v, 5),
         b[at + 3] = Byte(v, 4), b[at + 4] = Byte(v, 3), b[at + 5] = Byte(v, 2),
         b[at + 6] = Byte(v, 1), b[at + 7] = Byte(v, 0)
  PROVE  Read64(b, at) = v
  <1>1. v \in Nat /\ v < Weight(7) * Base
    BY Weights
  <1>2. Weight(7) * Byte(v, 7) = Upper(v, 7)
    <2>1. Weight(7) \in Nat /\ Weight(7) > 0
      BY Weights
    <2>2. Weight(7) * ((v \div Weight(7)) % Base) = Weight(7) * (v \div Weight(7))
      BY <1>1, <2>1, Top
    <2> QED BY <2>2 DEF Byte, Upper
  <1>3. /\ Weight(6) * Byte(v, 6) = Upper(v, 6) - Upper(v, 7)
        /\ Weight(5) * Byte(v, 5) = Upper(v, 5) - Upper(v, 6)
        /\ Weight(4) * Byte(v, 4) = Upper(v, 4) - Upper(v, 5)
        /\ Weight(3) * Byte(v, 3) = Upper(v, 3) - Upper(v, 4)
        /\ Weight(2) * Byte(v, 2) = Upper(v, 2) - Upper(v, 3)
        /\ Weight(1) * Byte(v, 1) = Upper(v, 1) - Upper(v, 2)
        /\ Weight(0) * Byte(v, 0) = Upper(v, 0) - Upper(v, 1)
    BY <1>1, ByteIsDifference
  <1>4. \A k \in 0 .. 7 : Upper(v, k) \in Int /\ Byte(v, k) \in Int
    BY <1>1, UpperType
  <1>5. Upper(v, 0) = v /\ Weight(0) * Byte(v, 0) = Byte(v, 0)
    BY <1>1, <1>4, Weights DEF Upper
  <1>6. at + 4 + 1 = at + 5 /\ at + 4 + 2 = at + 6 /\ at + 4 + 3 = at + 7
    OBVIOUS
  <1>7. Read32(b, at + 4) = Upper(v, 0) - Upper(v, 4)
    BY <1>3, <1>4, <1>5, <1>6 DEF Read32
  <1> QED BY <1>2, <1>3, <1>4, <1>5, <1>7 DEF Read64

----------------------------------------------------------------------------
(****************************************************************************)
(* Packets.                                                                 *)
(****************************************************************************)

\* The masks keep the three fields of byte 0 apart and replace all its bits.
LEMMA HeaderFields ==
  ASSUME NEW old \in 0 .. 255, NEW p \in Payload
  PROVE  /\ Header(old, p) \div 64 = p.li
         /\ (Header(old, p) \div 8) % 8 = p.vn
         /\ Header(old, p) % 8 = p.mode
  <1>1. p.li \in 0 .. 3 /\ p.vn \in 0 .. 7 /\ p.mode \in 0 .. 7
    BY DEF Payload
  <1> DEFINE x == (old % 64) + 64 * (p.li % 4)
             y == 64 * (x \div 64) + 8 * (p.vn % 8) + (x % 8)
  <1>2. x \div 64 = p.li /\ x % 8 \in 0 .. 7
    <2> DEFINE rest == old % 64
    <2>1. rest \in 0 .. 63 /\ p.li % 4 = p.li
      BY <1>1
    <2> HIDE DEF rest
    <2>2. x = rest + 64 * p.li
      BY <2>1 DEF rest
    <2> HIDE DEF x
    <2> QED BY <1>1, <2>1, <2>2
  <1> HIDE DEF x
  <1>3. y \div 8 = 8 * p.li + p.vn
    BY <1>1, <1>2
  <1>4. Header(old, p) = 8 * (y \div 8) + (p.mode % 8)
    BY DEF Header, x
  <1> HIDE DEF y
  <1>5. Header(old, p) = 64 * p.li + 8 * p.vn + p.mode
    BY <1>1, <1>3, <1>4
  <1> QED BY <1>1, <1>5

\* unmarshal() undoes marshal() for every payload of ntp_payload_t and whatever byte
\* 0 of the buffer held, which ntpRequest() does not initialize.
THEOREM RoundTrip ==
  ASSUME NEW old \in 0 .. 255, NEW p \in Payload
  PROVE  Unmarshal(Marshal(old, p)) = p
  <1> DEFINE b == Marshal(old, p)
  <1>1. /\ b[0] = Header(old, p)
        /\ b[1] = p.stratum /\ b[2] = p.poll /\ b[3] = p.precision
    BY DEF Marshal
  <1>2. Read32(b, 4) = p.root_delay
    <2>1. /\ b[4] = Byte(p.root_delay, 3) /\ b[5] = Byte(p.root_delay, 2)
          /\ b[6] = Byte(p.root_delay, 1) /\ b[7] = Byte(p.root_delay, 0)
      BY DEF Marshal
    <2>2. p.root_delay \in 0 .. Word - 1
      BY DEF Payload
    <2> HIDE DEF b
    <2> QED BY <2>1, <2>2, Assemble32
  <1>3. Read32(b, 8) = p.root_dispersion
    <2>1. /\ b[8] = Byte(p.root_dispersion, 3) /\ b[9] = Byte(p.root_dispersion, 2)
          /\ b[10] = Byte(p.root_dispersion, 1) /\ b[11] = Byte(p.root_dispersion, 0)
      BY DEF Marshal
    <2>2. p.root_dispersion \in 0 .. Word - 1
      BY DEF Payload
    <2> HIDE DEF b
    <2> QED BY <2>1, <2>2, Assemble32
  <1>4. Read32(b, 12) = p.reference_id
    <2>1. /\ b[12] = Byte(p.reference_id, 3) /\ b[13] = Byte(p.reference_id, 2)
          /\ b[14] = Byte(p.reference_id, 1) /\ b[15] = Byte(p.reference_id, 0)
      BY DEF Marshal
    <2>2. p.reference_id \in 0 .. Word - 1
      BY DEF Payload
    <2> HIDE DEF b
    <2> QED BY <2>1, <2>2, Assemble32
  <1>5. Read64(b, 16) = p.reference_timestamp
    <2>1. /\ b[16] = Byte(p.reference_timestamp, 7) /\ b[17] = Byte(p.reference_timestamp, 6)
          /\ b[18] = Byte(p.reference_timestamp, 5) /\ b[19] = Byte(p.reference_timestamp, 4)
          /\ b[20] = Byte(p.reference_timestamp, 3) /\ b[21] = Byte(p.reference_timestamp, 2)
          /\ b[22] = Byte(p.reference_timestamp, 1) /\ b[23] = Byte(p.reference_timestamp, 0)
      BY DEF Marshal
    <2>2. p.reference_timestamp \in 0 .. Word * Word - 1
      BY DEF Payload
    <2> HIDE DEF b
    <2> QED BY <2>1, <2>2, Assemble64
  <1>6. Read64(b, 24) = p.origin_timestamp
    <2>1. /\ b[24] = Byte(p.origin_timestamp, 7) /\ b[25] = Byte(p.origin_timestamp, 6)
          /\ b[26] = Byte(p.origin_timestamp, 5) /\ b[27] = Byte(p.origin_timestamp, 4)
          /\ b[28] = Byte(p.origin_timestamp, 3) /\ b[29] = Byte(p.origin_timestamp, 2)
          /\ b[30] = Byte(p.origin_timestamp, 1) /\ b[31] = Byte(p.origin_timestamp, 0)
      BY DEF Marshal
    <2>2. p.origin_timestamp \in 0 .. Word * Word - 1
      BY DEF Payload
    <2> HIDE DEF b
    <2> QED BY <2>1, <2>2, Assemble64
  <1>7. Read64(b, 32) = p.receive_timestamp
    <2>1. /\ b[32] = Byte(p.receive_timestamp, 7) /\ b[33] = Byte(p.receive_timestamp, 6)
          /\ b[34] = Byte(p.receive_timestamp, 5) /\ b[35] = Byte(p.receive_timestamp, 4)
          /\ b[36] = Byte(p.receive_timestamp, 3) /\ b[37] = Byte(p.receive_timestamp, 2)
          /\ b[38] = Byte(p.receive_timestamp, 1) /\ b[39] = Byte(p.receive_timestamp, 0)
      BY DEF Marshal
    <2>2. p.receive_timestamp \in 0 .. Word * Word - 1
      BY DEF Payload
    <2> HIDE DEF b
    <2> QED BY <2>1, <2>2, Assemble64
  <1>8. Read64(b, 40) = p.transmit_timestamp
    <2>1. /\ b[40] = Byte(p.transmit_timestamp, 7) /\ b[41] = Byte(p.transmit_timestamp, 6)
          /\ b[42] = Byte(p.transmit_timestamp, 5) /\ b[43] = Byte(p.transmit_timestamp, 4)
          /\ b[44] = Byte(p.transmit_timestamp, 3) /\ b[45] = Byte(p.transmit_timestamp, 2)
          /\ b[46] = Byte(p.transmit_timestamp, 1) /\ b[47] = Byte(p.transmit_timestamp, 0)
      BY DEF Marshal
    <2>2. p.transmit_timestamp \in 0 .. Word * Word - 1
      BY DEF Payload
    <2> HIDE DEF b
    <2> QED BY <2>1, <2>2, Assemble64
  <1> HIDE DEF b
  <1>9. Unmarshal(b) =
          [li |-> p.li, vn |-> p.vn, mode |-> p.mode,
           stratum |-> p.stratum, poll |-> p.poll, precision |-> p.precision,
           root_delay |-> p.root_delay, root_dispersion |-> p.root_dispersion,
           reference_id |-> p.reference_id,
           reference_timestamp |-> p.reference_timestamp,
           origin_timestamp |-> p.origin_timestamp,
           receive_timestamp |-> p.receive_timestamp,
           transmit_timestamp |-> p.transmit_timestamp]
    BY <1>1, <1>2, <1>3, <1>4, <1>5, <1>6, <1>7, <1>8, HeaderFields DEF Unmarshal
  <1> QED BY <1>9 DEF b, Payload

----------------------------------------------------------------------------
(****************************************************************************)
(* Times.                                                                   *)
(****************************************************************************)

\* Measurements are numbers, also those computed from memory never assigned.
LEMMA MeasuresAreIntegers ==
  ASSUME NEW times \in Times
  PROVE  /\ CalculateDelay(InSeconds(times)) \in Int
         /\ CalculateOffset(InSeconds(times)) \in Int
  <1>1. /\ times.c_s \in Int /\ times.c_r \in Int
        /\ times.s_r \in Int /\ times.s_s \in Int
    BY Weights DEF Times
  <1>2. \A t \in Int, ntp \in BOOLEAN : NormalizeTime(t, ntp) \in Int
    <2> TAKE t \in Int, ntp \in BOOLEAN
    <2> DEFINE whole == t \div Word
               part == t % Word
               scale == IF ntp THEN Milli ELSE Divisor
    <2>1. whole \in Int /\ part \in Int /\ scale \in Int /\ Second \in Int
      BY Weights, ScaleAssumption DEF Second
    <2> HIDE DEF whole, part, scale
    <2>2. Second * whole + part * scale \in Int
      BY <2>1
    <2> QED BY <2>2 DEF NormalizeTime, whole, part, scale
  <1>3. \A t \in Int : UnixTime(t) \in Int
    <2> TAKE t \in Int
    <2> DEFINE x == t - Epoch * Word
               y == Word * Word
    <2>1. x \in Int /\ y \in Nat /\ y > 0
      BY Weights, ScaleAssumption
    <2> HIDE DEF x, y
    <2>2. x % y \in Int
      BY <2>1
    <2> QED BY <2>2 DEF UnixTime, x, y
  <1> DEFINE x == InSeconds(times)
  <1>4. x.c_s \in Int /\ x.c_r \in Int /\ x.s_r \in Int /\ x.s_s \in Int
    BY <1>1, <1>2, <1>3 DEF InSeconds
  <1> HIDE DEF x
  <1>5. CalculateDelay(x) \in Int /\ CalculateOffset(x) \in Int
    BY <1>4 DEF CalculateDelay, CalculateOffset
  <1> QED BY <1>5 DEF x

----------------------------------------------------------------------------
(****************************************************************************)
(* Packets.                                                                 *)
(****************************************************************************)

\* The request is a payload.
LEMMA QueryType == Query \in Payload
  <1>1. 0 \in 0 .. Base - 1 /\ 0 \in 0 .. Word - 1 /\ 0 \in 0 .. Word * Word - 1
    BY BaseAssumption, Weights
  <1> QED BY <1>1 DEF Query, Payload

\* So is a server's answer.
LEMMA ResponseType ==
  ASSUME stamps \in Timing
  PROVE  Response \in Payload
  <1>1. stamps.s_r \in 0 .. Word * Word - 1 /\ stamps.s_s \in 0 .. Word * Word - 1
    BY TimesAssumption DEF Times
  <1>2. 1 \in 0 .. Base - 1 /\ 0 \in 0 .. Base - 1
    BY BaseAssumption
  <1>3. 0 \in 0 .. Word - 1 /\ 1 \in 0 .. Word - 1 /\ Base + 1 \in 0 .. Word - 1
    <2> DEFINE square == Base * Base
               cube == square * Base
    <2>1. square \in Nat /\ square >= 2 * Base
      BY BaseAssumption
    <2>2. cube \in Nat /\ cube >= 2 * square
      <3> HIDE DEF square
      <3> QED BY BaseAssumption, <2>1
    <2>3. Word >= 2 * cube
      <3>1. Word = cube * Base
        BY DEF Word
      <3> HIDE DEF cube
      <3> QED BY BaseAssumption, <2>2, <3>1
    <2> HIDE DEF square, cube
    <2> QED BY <2>1, <2>2, <2>3, BaseAssumption, Weights
  <1>4. 0 \in 0 .. Word * Word - 1
    BY Weights
  <1> QED BY <1>1, <1>2, <1>3, <1>4 DEF Payload, Response

\* A datagram under way is a request, made in a buffer that held anything, or the
\* answer to the exchange under way.
WireInv ==
  wire # Silence =>
    \/ \E old \in 0 .. 255 : wire = [from |-> "client", bytes |-> Marshal(old, Query)]
    \/ wire = [from |-> "server", bytes |-> Marshal(0, Response)]

\* Such a datagram says what its sender meant.
LEMMA WireInvFaithful ==
  ASSUME stamps \in Timing, WireInv
  PROVE  WireFaithful
  <1> SUFFICES ASSUME wire # Silence
               PROVE  Unmarshal(wire.bytes) = IF wire.from = "client" THEN Query ELSE Response
    BY DEF WireFaithful
  <1>1. CASE \E old \in 0 .. 255 : wire = [from |-> "client", bytes |-> Marshal(old, Query)]
    <2> PICK old \in 0 .. 255 : wire = [from |-> "client", bytes |-> Marshal(old, Query)]
      BY <1>1
    <2> QED BY RoundTrip, QueryType
  <1>2. CASE wire = [from |-> "server", bytes |-> Marshal(0, Response)]
    <2>1. 0 \in 0 .. 255
      OBVIOUS
    <2> QED BY <1>2, <2>1, RoundTrip, ResponseType
  <1> QED BY <1>1, <1>2 DEF WireInv

----------------------------------------------------------------------------
(****************************************************************************)
(* The loop over the servers.                                               *)
(****************************************************************************)

Measure == [offset : Int, delay : Int, disp : Nat]

\* b is the choice among the servers in S, by their measurements d.
LeastOf(S, d, b) ==
  IF \A s \in S : d[s].delay >= Second
  THEN b = NoBest
  ELSE /\ b.server \in S
       /\ b.delay = d[b.server].delay
       /\ b.offset = d[b.server].offset
       /\ \A s \in S :
            /\ b.delay <= d[s].delay
            /\ s < b.server => b.delay < d[s].delay

\* One more server keeps the choice right.
LEMMA OneMoreServer ==
  ASSUME NEW n \in 1 .. Servers,
         NEW d \in [1 .. Servers -> Measure],
         NEW b \in [server : 0 .. Servers, delay : Int, offset : Int],
         LeastOf(1 .. n - 1, d, b),
         NEW x \in Measure
  PROVE  LeastOf(1 .. n, [d EXCEPT ![n] = x],
                 IF x.delay < b.delay
                 THEN [server |-> n, delay |-> x.delay, offset |-> x.offset] ELSE b)
  <1> DEFINE e == [d EXCEPT ![n] = x]
             c == IF x.delay < b.delay
                  THEN [server |-> n, delay |-> x.delay, offset |-> x.offset] ELSE b
  <1>1. Servers \in Nat /\ Second \in Int
    BY CountsAssumption, ScaleAssumption DEF Second
  <1>2. /\ e[n] = x
        /\ \A s \in 1 .. n - 1 : e[s] = d[s] /\ d[s].delay \in Int
        /\ x.delay \in Int /\ b.delay \in Int
    BY <1>1 DEF Measure
  <1>3. 1 .. n = (1 .. n - 1) \cup {n}
    BY <1>1
  <1> HIDE DEF e
  <1>4. CASE \A s \in 1 .. n - 1 : d[s].delay >= Second
    <2>1. b = NoBest /\ b.delay = Second
      BY <1>4 DEF LeastOf, NoBest
    <2>2. CASE x.delay < Second
      BY <1>1, <1>2, <1>3, <1>4, <2>1, <2>2 DEF LeastOf
    <2>3. CASE x.delay >= Second
      BY <1>1, <1>2, <1>3, <1>4, <2>1, <2>3 DEF LeastOf
    <2> QED BY <1>1, <1>2, <2>2, <2>3
  <1>5. CASE \E s \in 1 .. n - 1 : ~ (d[s].delay >= Second)
    <2>1. /\ b.server \in 1 .. n - 1
          /\ b.delay = d[b.server].delay
          /\ b.offset = d[b.server].offset
          /\ \A s \in 1 .. n - 1 :
               /\ b.delay <= d[s].delay
               /\ s < b.server => b.delay < d[s].delay
      BY <1>5 DEF LeastOf
    <2>2. \E s \in 1 .. n : ~ (e[s].delay >= Second)
      BY <1>2, <1>3, <1>5
    <2>3. CASE x.delay < b.delay
      <3>1. /\ c.server = n /\ c.delay = x.delay /\ c.offset = x.offset
            /\ c = [server |-> n, delay |-> x.delay, offset |-> x.offset]
        BY <2>3
      <3>2. \A s \in 1 .. n - 1 : x.delay < e[s].delay
        BY <1>2, <2>1, <2>3
      <3>3. \A s \in 1 .. n : x.delay <= e[s].delay /\ (s < n => x.delay < e[s].delay)
        BY <1>1, <1>2, <1>3, <3>2
      <3> HIDE DEF c
      <3>4. LeastOf(1 .. n, e, c)
        BY <1>1, <1>2, <1>3, <2>2, <3>1, <3>3 DEF LeastOf
      <3> QED BY <3>4 DEF c, e
    <2>4. CASE ~ (x.delay < b.delay)
      BY <1>1, <1>2, <1>3, <2>1, <2>2, <2>4 DEF LeastOf
    <2> QED BY <2>3, <2>4
  <1> QED BY <1>4, <1>5 DEF e

----------------------------------------------------------------------------
(****************************************************************************)
(* The inductive invariant.                                                 *)
(****************************************************************************)

\* The servers that are measured in this round.
Measured == IF phase \in {"ask", "wait"} THEN 1 .. i - 1 ELSE 1 .. Servers

NtpInv ==
  /\ NtpTypeOK
  /\ WireInv
  /\ LeastOf(Measured, data, best)

\* The body of the loop: the measurements are accounted for, and the loop goes on
\* with the next server or ends.
LEMMA AccountKeepsInv ==
  ASSUME NtpInv, phase \in {"ask", "wait"},
         NEW times \in Times, NEW payload \in Payload, Account(times, payload)
  PROVE  NtpInv'
  <1> DEFINE t == InSeconds(times)
             x == [offset |-> CalculateOffset(t), delay |-> CalculateDelay(t),
                   disp |-> payload.root_dispersion]
  <1>1. x \in Measure
    <2>1. payload.root_dispersion \in Nat
      BY Weights DEF Payload
    <2>2. CalculateDelay(t) \in Int /\ CalculateOffset(t) \in Int
      BY MeasuresAreIntegers
    <2> HIDE DEF t
    <2> QED BY <2>1, <2>2 DEF Measure
  <1>2. /\ data' = [data EXCEPT ![i] = x]
        /\ best' = IF x.delay < best.delay
                   THEN [server |-> i, delay |-> x.delay, offset |-> x.offset] ELSE best
        /\ IF i < Servers THEN i' = i + 1 /\ phase' = "ask" ELSE i' = i /\ phase' = "sleep"
        /\ wire' = Silence
        /\ UNCHANGED <<j, stamps>>
    BY DEF Account, Update, MoreServers
  <1> HIDE DEF x
  <1>3. /\ j \in 0 .. Rounds - 1 /\ i \in 1 .. Servers /\ stamps \in Timing
        /\ data \in [1 .. Servers -> Measure]
        /\ best \in [server : 0 .. Servers, delay : Int, offset : Int]
    BY DEF NtpInv, NtpTypeOK, Measure
  <1>4. LeastOf(1 .. i - 1, data, best)
    BY DEF NtpInv, Measured
  <1>5. NtpTypeOK'
    <2>1. data' \in [1 .. Servers -> Measure]
      BY <1>1, <1>2, <1>3
    <2>2. best' \in [server : 0 .. Servers, delay : Int, offset : Int]
      BY <1>1, <1>2, <1>3 DEF Measure
    <2>3. i' \in 1 .. Servers /\ phase' \in {"ask", "wait", "sleep", "done"}
      BY <1>2, <1>3, CountsAssumption
    <2> QED BY <1>2, <1>3, <2>1, <2>2, <2>3 DEF NtpTypeOK, Measure
  <1>6. LeastOf(1 .. i, data', best')
    BY <1>1, <1>2, <1>3, <1>4, OneMoreServer
  <1>7. Measured' = 1 .. i
    BY <1>2, <1>3, CountsAssumption DEF Measured
  <1> QED BY <1>2, <1>5, <1>6, <1>7 DEF NtpInv, WireInv

\* Between the servers, a choice among none is no choice.
LEMMA NothingMeasured == LeastOf(1 .. 0, NoData, NoBest)
  BY DEF LeastOf

\* A round's initial values have their types.
LEMMA RoundType ==
  /\ NoData \in [1 .. Servers -> [offset : Int, delay : Int, disp : Nat]]
  /\ NoBest \in [server : 0 .. Servers, delay : Int, offset : Int]
  BY CountsAssumption, ScaleAssumption DEF NoData, NoBest, Second

\* The invariant holds at the start,
LEMMA NtpInvInit ==
  ASSUME NtpInit
  PROVE  NtpInv
  <1>1. NtpTypeOK
    BY RoundType, CountsAssumption, TimesAssumption DEF NtpInit, NtpTypeOK
  <1>2. WireInv
    BY DEF NtpInit, WireInv
  <1>3. Measured = 1 .. 0
    BY DEF NtpInit, Measured
  <1> QED BY <1>1, <1>2, <1>3, NothingMeasured DEF NtpInit, NtpInv

\* and every step keeps it.
LEMMA NtpInvNext ==
  ASSUME NtpInv, [NtpNext]_ntpVars
  PROVE  NtpInv'
  <1>1. CASE Ask
    <2>1. NtpTypeOK'
      BY <1>1 DEF Ask, NtpInv, NtpTypeOK
    <2>2. WireInv'
      <3>1. \A old \in {0, 85, 255} : old \in 0 .. 255
        OBVIOUS
      <3> QED BY <1>1, <3>1 DEF Ask, WireInv
    <2>3. Measured' = Measured
      BY <1>1 DEF Ask, Measured
    <2> QED BY <1>1, <2>1, <2>2, <2>3 DEF Ask, NtpInv
  <1>2. CASE Answer
    <2>1. Response' = Response
      BY <1>2 DEF Answer, Response
    <2>2. WireInv'
      BY <1>2, <2>1 DEF Answer, WireInv
    <2>3. NtpTypeOK' /\ Measured' = Measured
      BY <1>2 DEF Answer, NtpInv, NtpTypeOK, Measured
    <2> QED BY <1>2, <2>2, <2>3 DEF Answer, NtpInv
  <1>3. CASE Lost
    BY <1>3 DEF Lost, NtpInv, NtpTypeOK, WireInv, Measured
  <1>4. CASE Receive
    <2> DEFINE payload == Unmarshal(wire.bytes)
    <2>1. payload = Response /\ stamps \in Timing
      BY <1>4, WireInvFaithful DEF Receive, NtpInv, NtpTypeOK, WireFaithful
    <2>2. payload \in Payload
      BY <2>1, ResponseType
    <2>3. [stamps EXCEPT !.s_r = payload.receive_timestamp,
                         !.s_s = payload.transmit_timestamp] \in Times
      <3> HIDE DEF payload
      <3>1. stamps \in Times
        BY <2>1, TimesAssumption
      <3> QED BY <3>1, <2>2 DEF Times, Payload
    <2> QED BY <1>4, <2>2, <2>3, AccountKeepsInv DEF Receive
  <1>5. CASE Failed
    <2>1. Junk \subseteq Times
      BY TimesAssumption
    <2> QED BY <1>5, <2>1, QueryType, AccountKeepsInv DEF Failed
  <1>6. CASE NextRound
    <2>1. CASE j + 1 < Rounds
      <3>1. j' = j + 1 /\ i' = 1 /\ phase' = "ask" /\ data' = NoData /\ best' = NoBest
            /\ UNCHANGED <<stamps, wire>>
        BY <1>6, <2>1 DEF NextRound
      <3>2. NtpTypeOK'
        <4>1. j' \in 0 .. Rounds - 1 /\ i' \in 1 .. Servers
          BY <2>1, <3>1, CountsAssumption DEF NtpInv, NtpTypeOK
        <4> QED BY <3>1, <4>1, RoundType DEF NtpInv, NtpTypeOK
      <3>3. Measured' = 1 .. 0
        BY <3>1 DEF Measured
      <3>4. LeastOf(Measured', data', best')
        BY <3>1, <3>3, NothingMeasured
      <3> QED BY <3>1, <3>2, <3>4 DEF NtpInv, WireInv, Response
    <2>2. CASE ~ (j + 1 < Rounds)
      BY <1>6, <2>2 DEF NextRound, NtpInv, NtpTypeOK, WireInv, Response, Measured
    <2> QED BY <2>1, <2>2
  <1>7. CASE UNCHANGED ntpVars
    BY <1>7 DEF ntpVars, NtpInv, NtpTypeOK, WireInv, Response, Measured
  <1> QED BY <1>1, <1>2, <1>3, <1>4, <1>5, <1>6, <1>7 DEF NtpNext, NtpStep

\* The strengthened invariant holds in every reachable state.
LEMMA NtpInvariant == NtpSpec => []NtpInv
  BY NtpInvInit, NtpInvNext, PTL DEF NtpSpec

\* Every variable of the client has its type, whatever the servers say and whatever
\* a failed request leaves in its times.
THEOREM NtpTypeCorrect == NtpSpec => []NtpTypeOK
  <1>1. NtpInv => NtpTypeOK
    BY DEF NtpInv
  <1> QED BY <1>1, NtpInvariant, PTL

\* For any number of servers: after a round bestServer is the first of those whose
\* delay was least in this round.
THEOREM BestServerIsLeast == NtpSpec => []BestIsLeast
  <1>1. NtpInv => BestIsLeast
    BY CountsAssumption DEF NtpInv, Measured, LeastOf, BestIsLeast
  <1> QED BY <1>1, NtpInvariant, PTL

\* Every datagram says what its sender meant, for every size of a byte.
THEOREM WireIsFaithful == NtpSpec => []WireFaithful
  <1>1. NtpInv => WireFaithful
    BY WireInvFaithful DEF NtpInv, NtpTypeOK
  <1> QED BY <1>1, NtpInvariant, PTL
================================================================================
