--------------------------------- MODULE Driver --------------------------------
(****************************************************************************)
(* The driver of 2_rpc/rpc_client/client.c: every client is a process that  *)
(* draws COUNT lines of a file, sets their pairs, gets them, deletes them   *)
(* and gets them again.  What it calls is a KVStore, which is what Rpc and  *)
(* DhtService implement; drivers run side by side on one store.             *)
(****************************************************************************)
EXTENDS Integers, Sequences, KVStore

CONSTANTS
  Value,
  Count,      \* COUNT
  Pair        \* the file: the key and value in each of its lines, which end with '\n'

ASSUME CountAssumption == Count \in Nat \ {0}
ASSUME PairAssumption ==
  /\ Pair \in Seq([key : Key, val : Value])
  /\ Len(Pair) > 0
  /\ Count <= Len(Pair) + 1
ASSUME NilAssumption ==
  Nil \notin Value \cup [get : BOOLEAN, key : Key \cup {Nil}, val : Value \cup {Nil}]

VARIABLES
  rnmbrs,     \* the numbers that each driver has drawn, Nil before
  step        \* how many calls of setGetDel() have returned

driverVars == <<storeVars, rnmbrs, step>>

\* lines starts at 1 and counts '\n', so that a number may be 0; the loop that
\* skips lines takes 0 for 1.
Number == 0 .. Len(Pair)
Line(number) == Pair[IF number = 0 THEN 1 ELSE number]

\* What the while loop ends with.  arrayContains() looks at as many entries as
\* the file has lines, also at those that are not written yet and behind the
\* array: whatever is there keeps some numbers from being drawn, and the loop
\* from ending if too few are left.
Draws ==
  {d \in [1 .. Count -> Number] : \A i, j \in 1 .. Count : d[i] = d[j] => i = j}

\* getFileInfo()
GetFileInfo(c) ==
  /\ rnmbrs[c] = Nil
  /\ \E d \in Draws : rnmbrs' = [rnmbrs EXCEPT ![c] = d]
  /\ UNCHANGED <<storeVars, step>>

\* The four loops of setGetDel(), each over all the lines.
Item(s) == (s % Count) + 1

CallsTooMany == 4 * Count + 1   \* mutant: the last loop takes an item too many

Calls == 4 * Count

OpDeleteFirst(s) ==   \* mutant: the second and third loop are swapped
  CASE s \div Count = 0 -> "set"
    [] s \div Count = 1 -> "del"
    [] OTHER            -> "get"

OpKeepLast(s) ==   \* mutant: the third loop stops before its last line
  CASE s \div Count = 0 -> "set"
    [] s \div Count = 2 /\ Item(s) < Count -> "del"
    [] OTHER            -> "get"

Op(s) == CASE s \div Count = 0 -> "set"
           [] s \div Count = 2 -> "del"
           [] OTHER            -> "get"

SetGetDel(c) ==
  /\ rnmbrs[c] # Nil
  /\ step[c] < Calls
  /\ LET pair == Line(rnmbrs[c][Item(step[c])])
         op == Op(step[c])
     IN  Invoke(c, [op |-> op, key |-> pair.key, val |-> IF op = "set" THEN pair.val ELSE Nil])
  /\ UNCHANGED <<rnmbrs, step>>

\* The store takes the request, or the call returns.
StoreStep(c) ==
  /\ Progress(c)
  /\ step' = IF call'[c] = Nil THEN [step EXCEPT ![c] = @ + 1] ELSE step
  /\ UNCHANGED rnmbrs

DriverInit ==
  /\ StoreInit
  /\ rnmbrs = [c \in Client |-> Nil]
  /\ step = [c \in Client |-> 0]

DriverStep(c) == GetFileInfo(c) \/ SetGetDel(c) \/ StoreStep(c)

DriverNext == \E c \in Client : DriverStep(c)

DriverSpec == DriverInit /\ [][DriverNext]_driverVars

----------------------------------------------------------------------------
Finished(c) == step[c] = Calls

DriverTypeOK ==
  /\ rnmbrs \in [Client -> [1 .. Count -> Number] \cup {Nil}]
  /\ step \in [Client -> 0 .. 4 * Count]
  /\ store \in [Key -> Value \cup {Nil}]

KeysOf(c) == {Line(rnmbrs[c][i]).key : i \in 1 .. Count}

\* Between two calls of a driver that shares no key with another: its answer
\* is the value of the last line that it has set for the key, in the first
\* round of gets, and nothing in the second, whatever the others do.
GetsWhatItSet ==
  \A c \in Client :
    LET s == step[c] - 1
        pair == Line(rnmbrs[c][Item(s)])
        same == {i \in 1 .. Count : Line(rnmbrs[c][i]).key = pair.key}
        last == CHOOSE i \in same : \A j \in same : j <= i
    IN  /\ rnmbrs[c] # Nil
        /\ call[c] = Nil
        /\ step[c] > Count
        /\ \A d \in Client \ {c} : rnmbrs[d] = Nil \/ pair.key \notin KeysOf(d)
        => answer[c] = IF s \div Count = 1
                       THEN [get |-> TRUE, key |-> pair.key, val |-> Line(rnmbrs[c][last]).val]
                       ELSE NoElement

\* Drivers clean up after themselves and after each other: when all have ended,
\* however they overlapped, the store is empty.
NothingLeft ==
  (\A c \in Client : Finished(c)) => store = [k \in Key |-> Nil]
================================================================================
