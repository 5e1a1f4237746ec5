--------------------------------- MODULE NtpWire -------------------------------
(****************************************************************************)
(* The 48 bytes of an NTP packet: marshal() and unmarshal() of              *)
(* 5_ntp/marshalling.c.  Fields of 32 and 64 bits go out with their highest *)
(* byte first; li, vn and mode share byte 0 and are masked into it.         *)
(****************************************************************************)
EXTENDS Integers

CONSTANT Base   \* the values of a byte: 256

ASSUME BaseAssumption == Base \in Nat /\ Base > 1

Word == Base * Base * Base * Base

Payload ==
  [li : 0 .. 3, vn : 0 .. 7, mode : 0 .. 7,
   stratum : 0 .. Base - 1, poll : 0 .. Base - 1, precision : 0 .. Base - 1,
   root_delay : 0 .. Word - 1, root_dispersion : 0 .. Word - 1, reference_id : 0 .. Word - 1,
   reference_timestamp : 0 .. Word * Word - 1, origin_timestamp : 0 .. Word * Word - 1,
   receive_timestamp : 0 .. Word * Word - 1, transmit_timestamp : 0 .. Word * Word - 1]

\* Base to the power of k: a shift by 8k bits.
Weight(k) == CASE k = 0 -> 1
               [] k = 1 -> Base
               [] k = 2 -> Base * Base
               [] k = 3 -> Base * Base * Base
               [] k = 4 -> Word
               [] k = 5 -> Word * Base
               [] k = 6 -> Word * Base * Base
               [] k = 7 -> Word * Base * Base * Base

Byte(v, k) == (v \div Weight(k)) % Base

HeaderWithoutVersion(old, p) ==   \* mutant: the bits of vn are not assigned
  LET li == (old % 64) + 64 * (p.li % 4)
  IN  8 * (li \div 8) + (p.mode % 8)

\* Byte 0, which three assignments replace bits of: it is not initialized.
Header(old, p) ==
  LET li == (old % 64) + 64 * (p.li % 4)
      vn == 64 * (li \div 64) + 8 * (p.vn % 8) + (li % 8)
  IN  8 * (vn \div 8) + (p.mode % 8)

\* old is what byte 0 of the buffer holds before.
Marshal(old, p) ==
  [i \in 0 .. 47 |->
     CASE i = 0          -> Header(old, p)
       [] i = 1          -> p.stratum
       [] i = 2          -> p.poll
       [] i = 3          -> p.precision
       [] i \in 4 .. 7   -> Byte(p.root_delay, 7 - i)
       [] i \in 8 .. 11  -> Byte(p.root_dispersion, 11 - i)
       [] i \in 12 .. 15 -> Byte(p.reference_id, 15 - i)
       [] i \in 16 .. 23 -> Byte(p.reference_timestamp, 23 - i)
       [] i \in 24 .. 31 -> Byte(p.origin_timestamp, 31 - i)
       [] i \in 32 .. 39 -> Byte(p.receive_timestamp, 39 - i)
       [] i \in 40 .. 47 -> Byte(p.transmit_timestamp, 47 - i)]

Read32(b, at) ==
  Weight(3) * b[at] + Weight(2) * b[at + 1] + Weight(1) * b[at + 2] + b[at + 3]

Read64(b, at) ==
  Weight(7) * b[at] + Weight(6) * b[at + 1] + Weight(5) * b[at + 2] + Weight(4) * b[at + 3]
    + Read32(b, at + 4)

Unmarshal(b) ==
  [li |-> b[0] \div 64, vn |-> (b[0] \div 8) % 8, mode |-> b[0] % 8,
   stratum |-> b[1], poll |-> b[2], precision |-> b[3],
   root_delay |-> Read32(b, 4), root_dispersion |-> Read32(b, 8),
   reference_id |-> Read32(b, 12),
   reference_timestamp |-> Read64(b, 16), origin_timestamp |-> Read64(b, 24),
   receive_timestamp |-> Read64(b, 32), transmit_timestamp |-> Read64(b, 40)]
================================================================================
