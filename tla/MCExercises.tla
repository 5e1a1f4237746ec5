------------------------------- MODULE MCExercises -----------------------------
(****************************************************************************)
(* Two readers, two drivers, and an NTP client with three servers.          *)
(*                                                                          *)
(* The quote file has a line of one byte, one of two and one of one; its    *)
(* last line is not ended.  The driver's file has two lines with one key.   *)
(* A byte of an NTP packet has four values, so that TLC's integers hold its *)
(* 64 bit fields: a second has 256 fractions at the servers and 4 at the    *)
(* client, which divides the former by 600.                                 *)
(****************************************************************************)
EXTENDS Exercises

CONSTANTS k1, k2, v1, v2, v3

FewQuotes == <<1, 2, 1>>

FewKeys == {k1, k2}
FewValues == {v1, v2, v3}
FewRequests ==
  [op : {"set"}, key : FewKeys, val : FewValues] \cup [op : {"get", "del"}, key : FewKeys, val : {Nil}]
FewPairs == <<[key |-> k1, val |-> v1], [key |-> k1, val |-> v2], [key |-> k2, val |-> v3]>>

\* A datagram sent in second 20, with there and back of the ways it takes and
\* held at the server, all in 256ths; the server's clock is a second ahead.
Stamp(t) == 256 * (t \div 256) + (t % 256) \div 64
Exchange(start, there, held, back) ==
  [c_s |-> Stamp(5120 + start), c_r |-> Stamp(5120 + start + there + held + back),
   s_r |-> 256 * Epoch + 5376 + start + there,
   s_s |-> 256 * Epoch + 5376 + start + there + held]

FewTimings ==
  {Exchange(0, 64, 0, 64), Exchange(0, 32, 32, 64), Exchange(64, 32, 96, 128),
   Exchange(192, 32, 64, 32), Exchange(0, 128, 128, 0), Exchange(0, 128, 64, 256)}
FewJunk == {[c_s |-> 0, c_r |-> 0, s_r |-> 0, s_s |-> 0], Exchange(128, 0, 0, 64)}
================================================================================
