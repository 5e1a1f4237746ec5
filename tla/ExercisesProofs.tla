----------------------------- MODULE ExercisesProofs ---------------------------
(****************************************************************************)
(* The programs of 1_udp_tcp, for any number of readers, any file of quotes *)
(* whose lines fit the buffer, and any response; and the drivers of 2_rpc,  *)
(* for any number of them on one store, any file and any COUNT.             *)
(****************************************************************************)
EXTENDS Exercises, NumberProofs

----------------------------------------------------------------------------
(****************************************************************************)
(* The inductive invariant.                                                 *)
(****************************************************************************)

TypeInv ==
  /\ program \in [Reader -> Programs]
  /\ stage \in [Reader -> {"start", "asked"} \cup Ended]
  /\ datagram \in [Reader -> {"request", "reply", "lost", None}]
  /\ pending \in Seq(Reader)
  /\ text \in [Reader -> DOMAIN Quote \cup {None}]
  /\ sent \in [Reader -> Nat]
  /\ closed \in [Reader -> BOOLEAN]
  /\ arrived \in [Reader -> Nat]
  /\ taken \in [Reader -> Nat]
  /\ cl \in [Reader -> {1, ContentLength}]
  /\ DOMAIN output = Reader

\* The accept queue holds quote clients that have called and not been served, each once.
QueueInv ==
  /\ \A p \in 1 .. Len(pending) :
       /\ program[pending[p]] = "tcp_qotd"
       /\ stage[pending[p]] # "start"
       /\ sent[pending[p]] = 0
  /\ \A p, q \in 1 .. Len(pending) : pending[p] = pending[q] => p = q

\* What has come to a reader is part of what was written to it: by UDP nothing of a
\* stream, by the quote server one whole line once it has called, and by the HTTP
\* server one response.
StreamInv(r) ==
  /\ taken[r] <= arrived[r] /\ arrived[r] <= sent[r]
  /\ program[r] = "udp_qotd" => arrived[r] = 0
  /\ program[r] # "udp_qotd" => datagram[r] \notin {"request", "reply", "lost"}
  /\ program[r] = "tcp_qotd" /\ sent[r] # 0 =>
       stage[r] # "start" /\ text[r] \in DOMAIN Quote /\ sent[r] = Quote[text[r]]
  /\ program[r] = "image" /\ ~ closed[r] => sent[r] = 0

\* What a reader that has ended well has printed.
OutputInv(r) ==
  /\ program[r] = "tcp_qotd" /\ stage[r] = "done" =>
       output[r].line # None /\ output[r].size = Quote[output[r].line]
  /\ program[r] = "image" /\ stage[r] = "done" =>
       /\ closed[r]
       /\ output[r].size = ContentLength
       /\ sent[r] = ImageEnd => output[r].missing = 0

FetchInv == TypeInv /\ QueueInv /\ \A r \in Reader : StreamInv(r) /\ OutputInv(r)

\* The lines of the file fit the buffer of the quote clients.
LEMMA LinesFit ==
  /\ Len(Quote) \in Nat /\ Len(Quote) > 0 /\ DOMAIN Quote = 1 .. Len(Quote)
  /\ \A n \in DOMAIN Quote : Quote[n] \in Nat /\ Quote[n] > 0 /\ Quote[n] < MaxQuote
  <1> DEFINE S == 1 .. MaxQuote - 1
  <1>1. Quote \in Seq(S) /\ Quote # <<>>
    BY QuoteAssumption
  <1>2. \A x \in S : x \in Nat /\ x > 0 /\ x < MaxQuote
    BY QuoteAssumption
  <1> HIDE DEF S
  <1>3. Len(Quote) \in Nat /\ Len(Quote) > 0 /\ DOMAIN Quote = 1 .. Len(Quote)
    BY <1>1
  <1>4. \A n \in DOMAIN Quote : Quote[n] \in S
    BY <1>1
  <1> QED BY <1>2, <1>3, <1>4

\* The positions in a response.
LEMMA Positions ==
  /\ CLEnd \in Nat /\ HeaderEnd \in Nat /\ ImageEnd \in Nat /\ ContentLength \in Nat
  /\ CLEnd < HeaderEnd /\ HeaderEnd < ImageEnd
  <1> DEFINE S == 1 .. BufferSize - 1
  <1>1. CLEnd \in S /\ HeaderEnd \in S /\ ImageEnd \in S
    BY ImageAssumption
  <1>2. CLEnd \in Nat /\ HeaderEnd \in Nat /\ ImageEnd \in Nat
    <2>1. BufferSize \in Nat
      BY DEF BufferSize
    <2> QED BY <1>1, <2>1
  <1> QED BY <1>2, ImageAssumption DEF ContentLength

\* A reader whose own part of the state stays keeps what is said about it.
Untouched(r) ==
  /\ program'[r] = program[r] /\ stage'[r] = stage[r] /\ datagram'[r] = datagram[r]
  /\ text'[r] = text[r] /\ sent'[r] = sent[r] /\ closed'[r] = closed[r]
  /\ arrived'[r] = arrived[r] /\ taken'[r] = taken[r] /\ output'[r] = output[r]

LEMMA UntouchedKeeps ==
  ASSUME NEW r \in Reader, Untouched(r), StreamInv(r), OutputInv(r)
  PROVE  StreamInv(r)' /\ OutputInv(r)'
  BY DEF Untouched, StreamInv, OutputInv

\* A step of one reader that ends at most its start keeps the queue.
LEMMA QueueKept ==
  ASSUME TypeInv, QueueInv, UNCHANGED <<program, pending>>,
         \A r \in Reader : stage[r] # "start" => stage'[r] # "start",
         \A r \in Reader : program[r] = "tcp_qotd" => sent'[r] = sent[r]
  PROVE  QueueInv'
  <1>1. \A p \in 1 .. Len(pending) : pending[p] \in Reader
    BY DEF TypeInv
  <1> QED BY <1>1 DEF QueueInv

----------------------------------------------------------------------------
LEMMA FetchInvInit ==
  ASSUME FetchInit
  PROVE  FetchInv
  <1>1. TypeInv
    BY DEF FetchInit, TypeInv
  <1>2. QueueInv
    BY DEF FetchInit, QueueInv
  <1>3. ASSUME NEW r \in Reader
        PROVE  StreamInv(r) /\ OutputInv(r)
    <2>1. /\ stage[r] = "start" /\ datagram[r] = None /\ sent[r] = 0
          /\ arrived[r] = 0 /\ taken[r] = 0
      BY DEF FetchInit
    <2> QED BY <2>1, NoneAssumption DEF StreamInv, OutputInv
  <1> QED BY <1>1, <1>2, <1>3 DEF FetchInv

\* Every step keeps the invariant: the steps of the UDP client,
LEMMA DatagramSteps ==
  ASSUME FetchInv, NEW r \in Reader,
         SendDatagram(r) \/ Lose(r) \/ AnswerDatagram(r) \/ RecvDatagram(r)
  PROVE  FetchInv'
  <1>1. TypeInv'
    <2>1. CASE SendDatagram(r)
      BY <2>1 DEF FetchInv, TypeInv, SendDatagram, End
    <2>2. CASE Lose(r)
      BY <2>2 DEF FetchInv, TypeInv, Lose
    <2>3. CASE AnswerDatagram(r)
      <3> PICK n \in {0, 1, MaxQuote + 1} : sent' = [sent EXCEPT ![r] = n]
        BY <2>3 DEF AnswerDatagram
      <3>1. n \in Nat
        BY QuoteAssumption
      <3> QED BY <2>3, <3>1 DEF FetchInv, TypeInv, AnswerDatagram
    <2>4. CASE RecvDatagram(r)
      BY <2>4 DEF FetchInv, TypeInv, RecvDatagram, End, Write, Ended
    <2> QED BY <2>1, <2>2, <2>3, <2>4
  <1>2. program[r] = "udp_qotd"
    BY DEF FetchInv, StreamInv, SendDatagram, Lose, AnswerDatagram, RecvDatagram
  <1>3. QueueInv'
    <2>1. UNCHANGED <<program, pending>>
      BY DEF SendDatagram, Lose, AnswerDatagram, RecvDatagram
    <2>2. \A x \in Reader : stage[x] # "start" => stage'[x] # "start"
      BY DEF FetchInv, TypeInv, SendDatagram, Lose, AnswerDatagram, RecvDatagram, End
    <2>3. \A x \in Reader : program[x] = "tcp_qotd" => sent'[x] = sent[x]
      BY <1>2 DEF FetchInv, TypeInv, SendDatagram, Lose, AnswerDatagram, RecvDatagram
    <2> QED BY <2>1, <2>2, <2>3, QueueKept DEF FetchInv
  <1>4. StreamInv(r)' /\ OutputInv(r)'
    <2>1. /\ program' = program /\ arrived' = arrived /\ taken' = taken
          /\ sent'[r] \in Nat
      BY <1>1 DEF SendDatagram, Lose, AnswerDatagram, RecvDatagram, TypeInv
    <2>2. arrived[r] = 0 /\ taken[r] = 0
      BY <1>2 DEF FetchInv, TypeInv, StreamInv
    <2> QED BY <1>2, <2>1, <2>2 DEF StreamInv, OutputInv
  <1>5. ASSUME NEW x \in Reader, x # r
        PROVE  StreamInv(x)' /\ OutputInv(x)'
    <2>1. Untouched(x)
      BY <1>5 DEF Untouched, FetchInv, TypeInv, SendDatagram, Lose, AnswerDatagram,
                  RecvDatagram, End, Write
    <2> QED BY <2>1, UntouchedKeeps DEF FetchInv
  <1> QED BY <1>1, <1>3, <1>4, <1>5 DEF FetchInv

\* of the quote client and its server,
LEMMA QuoteSteps ==
  ASSUME FetchInv, NEW r \in Reader, ConnectQuote(r) \/ RecvQuote(r)
  PROVE  FetchInv'
  <1>1. TypeInv'
    <2>1. CASE ConnectQuote(r)
      <3>1. pending' \in Seq(Reader)
        BY <2>1 DEF FetchInv, TypeInv, ConnectQuote
      <3> QED BY <2>1, <3>1 DEF FetchInv, TypeInv, ConnectQuote, End
    <2>2. CASE RecvQuote(r)
      BY <2>2 DEF FetchInv, TypeInv, RecvQuote, End, Write, Ended
    <2> QED BY <2>1, <2>2
  <1>2. program[r] = "tcp_qotd"
    BY DEF ConnectQuote, RecvQuote
  <1>3. QueueInv'
    <2>1. CASE ConnectQuote(r)
      <3>1. /\ \A p \in 1 .. Len(pending) : pending[p] \in Reader /\ pending[p] # r
            /\ pending \in Seq(Reader) /\ Len(pending) \in Nat
        BY <2>1 DEF ConnectQuote, FetchInv, TypeInv, QueueInv
      <3>2. /\ Len(pending') = Len(pending) + 1
            /\ \A p \in 1 .. Len(pending) + 1 :
                 pending'[p] = IF p = Len(pending) + 1 THEN r ELSE pending[p]
        BY <2>1, <3>1 DEF ConnectQuote
      <3>3. /\ stage'[r] = "asked" /\ sent[r] = 0
            /\ \A x \in Reader \ {r} : stage'[x] = stage[x]
            /\ UNCHANGED <<program, sent>>
        BY <2>1 DEF ConnectQuote, FetchInv, TypeInv, StreamInv, End
      <3> QED BY <1>2, <3>1, <3>2, <3>3 DEF QueueInv, FetchInv
    <2>2. CASE RecvQuote(r)
      <3>1. \A x \in Reader : stage[x] # "start" => stage'[x] # "start"
        BY <2>2 DEF FetchInv, TypeInv, RecvQuote, End
      <3> QED BY <2>2, <3>1, QueueKept DEF FetchInv, RecvQuote
    <2> QED BY <2>1, <2>2
  <1>4. StreamInv(r)'
    <2>1. stage'[r] # "start"
      BY DEF ConnectQuote, RecvQuote, End, FetchInv, TypeInv
    <2> QED BY <2>1 DEF FetchInv, ConnectQuote, RecvQuote, StreamInv
  <1>5. OutputInv(r)'
    <2>1. CASE ConnectQuote(r)
      BY <1>2, <2>1 DEF OutputInv, ConnectQuote, End, FetchInv, TypeInv
    <2>2. CASE RecvQuote(r) /\ arrived[r] = 0
      BY <1>2, <2>2 DEF OutputInv, RecvQuote, End, FetchInv, TypeInv
    <2>3. CASE RecvQuote(r) /\ arrived[r] # 0
      <3>1. output'[r] = Bytes(text[r], arrived[r], 0)
        BY <2>3 DEF RecvQuote, Write, FetchInv, TypeInv
      <3>2. sent[r] # 0 /\ text[r] \in DOMAIN Quote /\ sent[r] = Quote[text[r]]
        BY <1>2, <2>3 DEF FetchInv, TypeInv, StreamInv
      <3>3. arrived[r] = sent[r]
        BY <2>3, <3>2, LinesFit, QuoteAssumption
        DEF RecvQuote, WaitForAll, EndOfStream, FetchInv, TypeInv, StreamInv
      <3> QED BY <1>2, <2>3, <3>1, <3>2, <3>3, NoneAssumption DEF OutputInv, Bytes, RecvQuote
    <2> QED BY <2>1, <2>2, <2>3
  <1>6. ASSUME NEW x \in Reader, x # r
        PROVE  StreamInv(x)' /\ OutputInv(x)'
    <2>1. Untouched(x)
      BY <1>6 DEF Untouched, FetchInv, TypeInv, ConnectQuote, RecvQuote, End, Write
    <2> QED BY <2>1, UntouchedKeeps DEF FetchInv
  <1> QED BY <1>1, <1>3, <1>4, <1>5, <1>6 DEF FetchInv

LEMMA ServeQuoteStep ==
  ASSUME FetchInv, ServeQuote
  PROVE  FetchInv'
  <1> PICK r : r = Head(pending)
    OBVIOUS
  <1> PICK randomLine \in 1 .. Lines : text' = [text EXCEPT ![r] = LineRead(randomLine)]
    BY DEF ServeQuote
  <1> DEFINE line == LineRead(randomLine)
  <1>1. line \in DOMAIN Quote
    BY LinesFit DEF LineRead, Lines
  <1> HIDE DEF line
  <1>2. /\ pending \in Seq(Reader) /\ pending # <<>> /\ pending' = Tail(pending)
        /\ r = pending[1] /\ r \in Reader /\ Len(pending) \in Nat /\ Len(pending) > 0
    BY DEF FetchInv, TypeInv, ServeQuote
  <1>3. /\ text' = [text EXCEPT ![r] = line] /\ text'[r] = line
        /\ sent' = [sent EXCEPT ![r] = Quote[line]]
        /\ closed' = [closed EXCEPT ![r] = TRUE]
        /\ UNCHANGED <<program, stage, datagram, arrived, taken, cl, output>>
    BY <1>2 DEF ServeQuote, FetchInv, TypeInv, Close, line
  <1>4. /\ pending' \in Seq(Reader) /\ Len(pending') = Len(pending) - 1
        /\ \A p \in 1 .. Len(pending) - 1 : pending'[p] = pending[p + 1]
    BY <1>2
  <1>5. program[r] = "tcp_qotd" /\ stage[r] # "start" /\ sent[r] = 0
    BY <1>2 DEF FetchInv, QueueInv
  <1>6. TypeInv'
    BY <1>1, <1>2, <1>3, <1>4, LinesFit DEF FetchInv, TypeInv
  <1>7. QueueInv'
    <2>1. \A p \in 1 .. Len(pending) - 1 : p + 1 \in 1 .. Len(pending) /\ p + 1 # 1
      BY <1>2
    <2>2. \A p \in 1 .. Len(pending') : pending'[p] \in Reader /\ pending'[p] # r
      BY <1>2, <1>4, <2>1 DEF FetchInv, QueueInv
    <2>3. \A x \in Reader : x # r => sent'[x] = sent[x]
      BY <1>3 DEF FetchInv, TypeInv
    <2>4. \A p \in 1 .. Len(pending') :
            /\ program'[pending'[p]] = "tcp_qotd"
            /\ stage'[pending'[p]] # "start"
            /\ sent'[pending'[p]] = 0
      <3> SUFFICES ASSUME NEW p \in 1 .. Len(pending')
                   PROVE  /\ program'[pending'[p]] = "tcp_qotd"
                          /\ stage'[pending'[p]] # "start"
                          /\ sent'[pending'[p]] = 0
        OBVIOUS
      <3>1. p \in 1 .. Len(pending) - 1 /\ pending'[p] = pending[p + 1]
        BY <1>4
      <3>2. sent'[pending'[p]] = sent[pending[p + 1]]
        BY <2>2, <2>3, <3>1
      <3> QED BY <1>3, <2>1, <3>1, <3>2 DEF FetchInv, QueueInv
    <2>5. \A p, q \in 1 .. Len(pending') : pending'[p] = pending'[q] => p = q
      <3> SUFFICES ASSUME NEW p \in 1 .. Len(pending) - 1, NEW q \in 1 .. Len(pending) - 1,
                          pending[p + 1] = pending[q + 1]
                   PROVE  p = q
        BY <1>4
      <3>1. p + 1 = q + 1
        BY <2>1 DEF FetchInv, QueueInv
      <3> QED BY <1>2, <3>1
    <2> QED BY <2>4, <2>5 DEF QueueInv
  <1>8. StreamInv(r)' /\ OutputInv(r)'
    <2>1. sent'[r] = Quote[line] /\ arrived[r] = 0 /\ taken[r] <= 0
      BY <1>2, <1>3, <1>5 DEF FetchInv, TypeInv, StreamInv
    <2> QED BY <1>1, <1>2, <1>3, <1>5, <2>1, LinesFit DEF FetchInv, StreamInv, OutputInv
  <1>9. ASSUME NEW x \in Reader, x # r
        PROVE  StreamInv(x)' /\ OutputInv(x)'
    <2>1. Untouched(x)
      BY <1>3, <1>9 DEF Untouched, FetchInv, TypeInv
    <2> QED BY <2>1, UntouchedKeeps DEF FetchInv
  <1> QED BY <1>6, <1>7, <1>8, <1>9 DEF FetchInv

\* of the download and its server,
LEMMA ImageSteps ==
  ASSUME FetchInv, NEW r \in Reader, SendRequest(r) \/ AnswerHttp(r) \/ RecvImage(r)
  PROVE  FetchInv'
  <1>1. program[r] = "image" /\ UNCHANGED <<program, datagram, pending, text, arrived>>
    BY DEF SendRequest, AnswerHttp, RecvImage
  <1>2. TypeInv'
    <2>1. CASE SendRequest(r)
      BY <2>1 DEF FetchInv, TypeInv, SendRequest, End
    <2>2. CASE AnswerHttp(r)
      <3> PICK n \in 0 .. ImageEnd : sent' = [sent EXCEPT ![r] = n]
        BY <2>2 DEF AnswerHttp
      <3>1. n \in Nat
        BY Positions
      <3> QED BY <2>2, <3>1 DEF FetchInv, TypeInv, AnswerHttp
    <2>3. CASE RecvImage(r)
      BY <2>3 DEF FetchInv, TypeInv, RecvImage, End, Write, Received, Ended
    <2> QED BY <2>1, <2>2, <2>3
  <1>3. QueueInv'
    <2>1. \A x \in Reader : stage[x] # "start" => stage'[x] # "start"
      BY DEF FetchInv, TypeInv, SendRequest, AnswerHttp, RecvImage, End
    <2>2. \A x \in Reader : program[x] = "tcp_qotd" => sent'[x] = sent[x]
      BY <1>1 DEF FetchInv, TypeInv, SendRequest, AnswerHttp, RecvImage
    <2> QED BY <1>1, <2>1, <2>2, QueueKept DEF FetchInv
  <1>4. StreamInv(r)'
    <2>1. CASE SendRequest(r)
      BY <1>1, <2>1 DEF FetchInv, SendRequest, StreamInv
    <2>2. CASE AnswerHttp(r)
      <3>1. sent[r] = 0 /\ arrived[r] = 0 /\ taken[r] = 0
        BY <1>1, <2>2 DEF FetchInv, TypeInv, StreamInv, AnswerHttp
      <3>2. sent'[r] \in Nat /\ closed'[r] = TRUE /\ taken'[r] = 0
        BY <1>2, <2>2, <3>1 DEF TypeInv, FetchInv, AnswerHttp
      <3> QED BY <1>1, <3>1, <3>2 DEF FetchInv, StreamInv
    <2>3. CASE RecvImage(r)
      <3>1. taken'[r] = arrived[r] /\ UNCHANGED <<sent, closed>> /\ arrived[r] \in Nat
        BY <2>3 DEF RecvImage, Received, FetchInv, TypeInv
      <3> QED BY <1>1, <3>1 DEF FetchInv, StreamInv
    <2> QED BY <2>1, <2>2, <2>3
  <1>5. OutputInv(r)'
    <2>1. CASE stage'[r] # "done"
      BY <1>1, <2>1 DEF OutputInv
    <2>2. CASE stage'[r] = "done"
      <3>1. RecvImage(r) /\ NothingMore(r) /\ ~ Crash(r)
        BY <2>2 DEF SendRequest, AnswerHttp, RecvImage, End, FetchInv, TypeInv
      <3>2. closed[r] /\ arrived[r] = sent[r] /\ UNCHANGED <<sent, closed>>
        BY <3>1 DEF RecvImage, NothingMore, EndOfStream, FetchInv, TypeInv
      <3>3. output'[r] = Bytes(None, ContentLength,
                               IF arrived[r] < HeaderEnd THEN ContentLength
                               ELSE ImageEnd - arrived[r])
        BY <3>1 DEF RecvImage, Write, FetchInv, TypeInv
      <3>4. output'[r].size = ContentLength
        BY <3>3 DEF Bytes
      <3>5. sent[r] = ImageEnd => output'[r].missing = 0
        BY <3>2, <3>3, Positions DEF Bytes
      <3> QED BY <1>1, <3>2, <3>4, <3>5 DEF OutputInv
    <2> QED BY <2>1, <2>2
  <1>6. ASSUME NEW x \in Reader, x # r
        PROVE  StreamInv(x)' /\ OutputInv(x)'
    <2>1. Untouched(x)
      BY <1>6 DEF Untouched, FetchInv, TypeInv, SendRequest, AnswerHttp, RecvImage, End,
                  Write, Received
    <2> QED BY <2>1, UntouchedKeeps DEF FetchInv
  <1> QED BY <1>2, <1>3, <1>4, <1>5, <1>6 DEF FetchInv

\* and of any reader and its network.
LEMMA CommonSteps ==
  ASSUME FetchInv, NEW r \in Reader, Fail(r) \/ DeliverBytes(r)
  PROVE  FetchInv'
  <1>1. CASE Fail(r)
    <2>1. TypeInv'
      BY <1>1 DEF FetchInv, TypeInv, Fail, End, Ended
    <2>2. QueueInv'
      <3>1. \A x \in Reader : stage[x] # "start" => stage'[x] # "start"
        BY <1>1 DEF FetchInv, TypeInv, Fail, End
      <3> QED BY <1>1, <3>1, QueueKept DEF FetchInv, Fail
    <2>3. stage'[r] = "failed"
      BY <1>1 DEF FetchInv, TypeInv, Fail, End
    <2>4. StreamInv(r)' /\ OutputInv(r)'
      BY <1>1, <2>3 DEF FetchInv, Fail, StreamInv, OutputInv
    <2>5. ASSUME NEW x \in Reader, x # r
          PROVE  StreamInv(x)' /\ OutputInv(x)'
      <3>1. Untouched(x)
        BY <1>1, <2>5 DEF Untouched, FetchInv, TypeInv, Fail, End
      <3> QED BY <3>1, UntouchedKeeps DEF FetchInv
    <2> QED BY <2>1, <2>2, <2>4, <2>5 DEF FetchInv
  <1>2. CASE DeliverBytes(r)
    <2> PICK n \in arrived[r] + 1 .. sent[r] : arrived' = [arrived EXCEPT ![r] = n]
      BY <1>2 DEF DeliverBytes
    <2>1. n \in Nat /\ n <= sent[r] /\ n > arrived[r] /\ arrived[r] \in Nat
      BY DEF FetchInv, TypeInv
    <2>2. TypeInv'
      BY <1>2, <2>1 DEF FetchInv, TypeInv, DeliverBytes
    <2>3. QueueInv'
      BY <1>2, QueueKept DEF FetchInv, DeliverBytes
    <2>4. StreamInv(r)' /\ OutputInv(r)'
      <3>1. arrived'[r] = n /\ taken[r] <= n
        BY <2>1 DEF FetchInv, TypeInv, StreamInv
      <3> QED BY <1>2, <2>1, <3>1 DEF FetchInv, DeliverBytes, StreamInv, OutputInv
    <2>5. ASSUME NEW x \in Reader, x # r
          PROVE  StreamInv(x)' /\ OutputInv(x)'
      <3>1. Untouched(x)
        BY <1>2, <2>5 DEF Untouched, FetchInv, TypeInv, DeliverBytes
      <3> QED BY <3>1, UntouchedKeeps DEF FetchInv
    <2> QED BY <2>2, <2>3, <2>4, <2>5 DEF FetchInv
  <1> QED BY <1>1, <1>2

LEMMA FetchInvNext ==
  ASSUME FetchInv, [FetchNext]_fetchVars
  PROVE  FetchInv'
  <1>1. ASSUME NEW r \in Reader, Fail(r) \/ Lose(r) \/ ReaderStep(r)
        PROVE  FetchInv'
    BY <1>1, DatagramSteps, QuoteSteps, ImageSteps, CommonSteps DEF ReaderStep
  <1>2. CASE ServeQuote
    BY <1>2, ServeQuoteStep
  <1>3. CASE UNCHANGED fetchVars
    <2>1. \A r \in Reader : Untouched(r)
      BY <1>3 DEF fetchVars, Untouched
    <2>2. TypeInv' /\ QueueInv'
      BY <1>3 DEF fetchVars, FetchInv, TypeInv, QueueInv
    <2> QED BY <2>1, <2>2, UntouchedKeeps DEF FetchInv
  <1> QED BY <1>1, <1>2, <1>3 DEF FetchNext

LEMMA FetchInvariant == FetchSpec => []FetchInv
  BY FetchInvInit, FetchInvNext, PTL DEF FetchSpec

----------------------------------------------------------------------------
\* The counters of a stream never overtake each other, and all else has its type.
THEOREM FetchTypeCorrect == FetchSpec => []FetchTypeOK
  <1>1. FetchInv => FetchTypeOK
    BY DEF FetchInv, TypeInv, StreamInv, FetchTypeOK
  <1> QED BY <1>1, FetchInvariant, PTL

\* However its line is cut into pieces and whoever else calls: a quote client that
\* succeeds has printed one whole line of the server's file.
THEOREM OneLinePrinted == FetchSpec => []PrintsOneLine
  <1>1. FetchInv => PrintsOneLine
    BY DEF FetchInv, OutputInv, PrintsOneLine
  <1> QED BY <1>1, FetchInvariant, PTL

\* However its response is cut into pieces: a download that succeeds has written as
\* much as it was promised, and the image itself unless the server broke off.
THEOREM ImageWritten == FetchSpec => []WritesImage
  <1>1. FetchInv => WritesImage
    BY DEF FetchInv, OutputInv, WritesImage
  <1> QED BY <1>1, FetchInvariant, PTL

----------------------------------------------------------------------------
(****************************************************************************)
(* The four loops of setGetDel().                                           *)
(****************************************************************************)

\* The item of a call is one of the lines drawn, and the loop that deletes takes the
\* items in their order.
LEMMA Loops ==
  ASSUME NEW s \in Nat
  PROVE  /\ Item(s) \in 1 .. Count
         /\ Op(s) \in {"set", "get", "del"}
         /\ Op(s) = "set" => s < Count
         /\ Op(s) = "del" => s = 2 * Count + Item(s) - 1
  <1> DEFINE q == s \div Count
             r == s % Count
  <1>1. q \in Nat /\ r \in 0 .. Count - 1 /\ s = Count * q + r
    BY CountAssumption
  <1>2. Item(s) = r + 1 /\ Op(s) = CASE q = 0 -> "set" [] q = 2 -> "del" [] OTHER -> "get"
    BY DEF Item, Op
  <1> HIDE DEF q, r
  <1>3. Op(s) \in {"set", "get", "del"} /\ (Op(s) = "set" => q = 0) /\ (Op(s) = "del" => q = 2)
    BY <1>2
  <1>4. q = 0 => s < Count
    BY <1>1, CountAssumption
  <1>5. q = 2 => s = 2 * Count + r
    BY <1>1, CountAssumption
  <1> QED BY <1>1, <1>2, <1>3, <1>4, <1>5, CountAssumption

\* Conversely, these calls delete.
LEMMA DeleteOf ==
  ASSUME NEW n \in 1 .. Count
  PROVE  Op(2 * Count + n - 1) = "del" /\ Item(2 * Count + n - 1) = n
  <1> DEFINE s == Count * 2 + (n - 1)
  <1>1. n - 1 \in 0 .. Count - 1 /\ Count \in Nat /\ Count > 0
    BY CountAssumption
  <1>2. s \div Count = 2
    BY <1>1, DivUnique
  <1>3. s = Count * (s \div Count) + (s % Count) /\ (s % Count) \in Int
    BY <1>1
  <1>4. s % Count = n - 1
    BY <1>1, <1>2, <1>3
  <1>5. 2 * Count + n - 1 = s
    BY <1>1
  <1> HIDE DEF s
  <1>6. Op(s) = "del"
    BY <1>2 DEF Op
  <1> QED BY <1>1, <1>4, <1>5, <1>6 DEF Item

----------------------------------------------------------------------------
(****************************************************************************)
(* The inductive invariant.                                                 *)
(****************************************************************************)

Numbers == [1 .. Count -> Number]

\* What setGetDel() calls after s calls.
RequestOf(c, s) ==
  LET pair == Line(rnmbrs[c][Item(s)])
  IN  [op |-> Op(s), key |-> pair.key, val |-> IF Op(s) = "set" THEN pair.val ELSE Nil]

\* A driver waits for the call that its counters say.
CallInv ==
  \A c \in Client :
    call[c] # Nil => rnmbrs[c] # Nil /\ step[c] < Calls /\ call[c] = RequestOf(c, step[c])

\* Driver c has still to delete k: the store has not taken that request yet.
Pending(c, k) ==
  /\ rnmbrs[c] # Nil
  /\ \E n \in 1 .. Count :
       /\ Line(rnmbrs[c][n]).key = k
       /\ \/ step[c] < 2 * Count + n - 1
          \/ step[c] = 2 * Count + n - 1 /\ done[c] = Nil

DriverInv ==
  /\ DriverTypeOK
  /\ DOMAIN call = Client /\ call = [c \in Client |-> call[c]]
  /\ DOMAIN done = Client /\ done = [c \in Client |-> done[c]]
  /\ DOMAIN answer = Client
  /\ CallInv
  /\ \A c \in Client : done[c] # Nil => call[c] # Nil
  /\ \A k \in Key : store[k] # Nil => \E c \in Client : Pending(c, k)

\* A line has a key and a value.
LEMMA LineType ==
  ASSUME NEW number \in Number
  PROVE  Line(number) \in [key : Key, val : Value]
  <1>1. /\ Len(Pair) \in Nat
        /\ \A m \in 1 .. Len(Pair) : Pair[m] \in [key : Key, val : Value]
    <2> DEFINE S == [key : Key, val : Value]
    <2>1. Pair \in Seq(S)
      BY PairAssumption
    <2> HIDE DEF S
    <2>2. Len(Pair) \in Nat /\ \A m \in 1 .. Len(Pair) : Pair[m] \in S
      BY <2>1
    <2> QED BY <2>2 DEF S
  <1>2. number = 0 \/ number \in 1 .. Len(Pair)
    BY <1>1 DEF Number
  <1> QED BY <1>1, <1>2, PairAssumption DEF Line

\* What the store does with a driver's request: a set adds its key, a del removes it,
\* and other keys keep what they have.
LEMMA EffectOfRequest ==
  ASSUME DriverInv, NEW c \in Client, call[c] # Nil
  PROVE  /\ Effect(call[c]) \in [Key -> Value \cup {Nil}]
         /\ step[c] \in Nat /\ rnmbrs[c] \in Numbers
         /\ LET key == Line(rnmbrs[c][Item(step[c])]).key IN
            /\ Op(step[c]) = "del" => Effect(call[c])[key] = Nil
            /\ \A k \in Key : Effect(call[c])[k] # Nil =>
                 store[k] # Nil \/ (Op(step[c]) = "set" /\ k = key)
  <1>1. /\ step[c] \in Nat /\ rnmbrs[c] \in Numbers
        /\ store \in [Key -> Value \cup {Nil}]
        /\ call[c] = RequestOf(c, step[c])
    BY CountAssumption DEF DriverInv, DriverTypeOK, CallInv, Numbers
  <1> DEFINE pair == Line(rnmbrs[c][Item(step[c])])
  <1>2. Item(step[c]) \in 1 .. Count /\ Op(step[c]) \in {"set", "get", "del"}
    BY <1>1, Loops
  <1>3. pair \in [key : Key, val : Value]
    BY <1>1, <1>2, LineType DEF Numbers
  <1> HIDE DEF pair
  <1>4. /\ call[c].op = Op(step[c]) /\ call[c].key = pair.key
        /\ call[c].op = "set" => call[c].val = pair.val
    BY <1>1 DEF RequestOf, pair
  <1>5. CASE Op(step[c]) = "set"
    <2>1. Effect(call[c]) = [store EXCEPT ![pair.key] = pair.val]
      BY <1>4, <1>5 DEF Effect
    <2> QED BY <1>1, <1>3, <1>5, <2>1 DEF pair
  <1>6. CASE Op(step[c]) = "del"
    <2>1. Effect(call[c]) = [store EXCEPT ![pair.key] = Nil]
      BY <1>4, <1>6 DEF Effect
    <2> QED BY <1>1, <1>3, <1>6, <2>1 DEF pair
  <1>7. CASE Op(step[c]) = "get"
    <2>1. Effect(call[c]) = store
      BY <1>4, <1>7 DEF Effect
    <2> QED BY <1>1, <1>3, <1>7, <2>1 DEF pair
  <1> QED BY <1>2, <1>5, <1>6, <1>7

\* While a request takes effect: what is stored after it will still be deleted, by the
\* driver that would have deleted it before or by the one that sets it.
LEMMA EffectKeepsPending ==
  ASSUME DriverInv, NEW c \in Client, call[c] # Nil, done[c] = Nil,
         NEW k \in Key, Effect(call[c])[k] # Nil,
         rnmbrs' = rnmbrs,
         \A d \in Client \ {c} : step'[d] = step[d] /\ done'[d] = done[d],
         step'[c] = step[c] \/ (step'[c] = step[c] + 1 /\ done'[c] = Nil)
  PROVE  \E d \in Client : Pending(d, k)'
  <1> DEFINE s == step[c]
             key == Line(rnmbrs[c][Item(s)]).key
  <1>1. /\ s \in Nat /\ rnmbrs[c] \in Numbers /\ rnmbrs[c] # Nil
        /\ Op(s) = "del" => Effect(call[c])[key] = Nil
        /\ store[k] # Nil \/ (Op(s) = "set" /\ k = key)
    BY EffectOfRequest DEF DriverInv, CallInv
  <1>2. Count \in Nat /\ Count > 0
    BY CountAssumption
  <1>3. ASSUME NEW n \in 1 .. Count, Line(rnmbrs[c][n]).key = k, s < 2 * Count + n - 1
        PROVE  Pending(c, k)'
    <2>1. step'[c] < 2 * Count + n - 1 \/ (step'[c] = 2 * Count + n - 1 /\ done'[c] = Nil)
      BY <1>1, <1>2, <1>3
    <2> QED BY <1>1, <1>3, <2>1 DEF Pending
  <1>4. CASE store[k] # Nil
    <2> PICK d \in Client : Pending(d, k)
      BY <1>4 DEF DriverInv
    <2>1. CASE d # c
      BY <2>1 DEF Pending
    <2>2. CASE d = c
      <3> PICK n \in 1 .. Count : /\ Line(rnmbrs[c][n]).key = k
                                  /\ s < 2 * Count + n - 1 \/ s = 2 * Count + n - 1
        BY <2>2 DEF Pending
      <3>1. s # 2 * Count + n - 1
        BY <1>1, DeleteOf
      <3> QED BY <1>3, <3>1
    <2> QED BY <2>1, <2>2
  <1>5. CASE Op(s) = "set" /\ k = key
    <2>1. Item(s) \in 1 .. Count /\ s < Count
      BY <1>1, <1>5, Loops
    <2>2. s < 2 * Count + Item(s) - 1
      BY <1>1, <1>2, <2>1
    <2> QED BY <1>3, <1>5, <2>1, <2>2
  <1> QED BY <1>1, <1>4, <1>5

----------------------------------------------------------------------------
\* The invariant holds at the start,
LEMMA DriverInvInit ==
  ASSUME DriverInit
  PROVE  DriverInv
  BY CountAssumption DEF DriverInit, StoreInit, DriverInv, DriverTypeOK, CallInv

\* and every step keeps it.
LEMMA DriverInvNext ==
  ASSUME DriverInv, [DriverNext]_driverVars
  PROVE  DriverInv'
  <1>1. ASSUME NEW c \in Client, GetFileInfo(c)
        PROVE  DriverInv'
    <2> PICK d \in Draws : rnmbrs' = [rnmbrs EXCEPT ![c] = d]
      BY <1>1 DEF GetFileInfo
    <2>1. rnmbrs[c] = Nil /\ UNCHANGED <<store, call, done, answer, step>>
      BY <1>1 DEF GetFileInfo, storeVars
    <2>2. DriverTypeOK'
      BY <2>1 DEF DriverInv, DriverTypeOK, Draws
    <2>3. CallInv'
      BY <2>1 DEF DriverInv, DriverTypeOK, CallInv, RequestOf
    <2>4. \A k \in Key, x \in Client : Pending(x, k) => Pending(x, k)'
      BY <2>1 DEF DriverInv, DriverTypeOK, Pending
    <2> QED BY <2>1, <2>2, <2>3, <2>4 DEF DriverInv
  <1>2. ASSUME NEW c \in Client, SetGetDel(c)
        PROVE  DriverInv'
    <2>1. /\ rnmbrs[c] # Nil /\ step[c] < Calls /\ call[c] = Nil
          /\ call' = [call EXCEPT ![c] = RequestOf(c, step[c])]
          /\ UNCHANGED <<store, done, answer, rnmbrs, step>>
      BY <1>2 DEF SetGetDel, Invoke, RequestOf
    <2>2. CallInv'
      BY <2>1 DEF DriverInv, CallInv, RequestOf
    <2>3. \A k \in Key, x \in Client : Pending(x, k) => Pending(x, k)'
      BY <2>1 DEF Pending
    <2>4. DOMAIN call' = Client /\ call' = [x \in Client |-> call'[x]]
      BY <2>1 DEF DriverInv
    <2>5. \A x \in Client : done'[x] # Nil => call'[x] # Nil
      BY <2>1 DEF DriverInv
    <2>6. DriverTypeOK'
      BY <2>1 DEF DriverInv, DriverTypeOK
    <2> QED BY <2>1, <2>2, <2>3, <2>4, <2>5, <2>6 DEF DriverInv
  <1>3. ASSUME NEW c \in Client, StoreStep(c), Execute(c)
        PROVE  DriverInv'
    <2>1. /\ call[c] # Nil /\ done[c] = Nil
          /\ store' = Effect(call[c])
          /\ done' = [done EXCEPT ![c] = Result(call[c])]
          /\ UNCHANGED <<call, answer, step, rnmbrs>>
      BY <1>3 DEF StoreStep, Execute
    <2>2. DriverTypeOK'
      BY <2>1, EffectOfRequest DEF DriverInv, DriverTypeOK
    <2>3. CallInv'
      BY <2>1 DEF DriverInv, CallInv, RequestOf
    <2>4. \A k \in Key : store'[k] # Nil => \E d \in Client : Pending(d, k)'
      BY <2>1, EffectKeepsPending DEF DriverInv
    <2>5. /\ DOMAIN done' = Client /\ done' = [d \in Client |-> done'[d]]
          /\ \A d \in Client : done'[d] # Nil => call'[d] # Nil
      BY <2>1 DEF DriverInv
    <2> QED BY <2>1, <2>2, <2>3, <2>4, <2>5 DEF DriverInv
  <1>4. ASSUME NEW c \in Client, StoreStep(c), Return(c)
        PROVE  DriverInv'
    <2>1. /\ done[c] # Nil /\ call[c] # Nil
          /\ call' = [call EXCEPT ![c] = Nil]
          /\ done' = [done EXCEPT ![c] = Nil]
          /\ call'[c] = Nil /\ done'[c] = Nil /\ DOMAIN answer' = Client
          /\ step' = [step EXCEPT ![c] = @ + 1]
          /\ UNCHANGED <<store, rnmbrs>>
      BY <1>4 DEF StoreStep, Return, DriverInv
    <2>2. step[c] \in 0 .. 4 * Count /\ step[c] < 4 * Count /\ step'[c] = step[c] + 1
      BY <2>1 DEF DriverInv, DriverTypeOK, CallInv, Calls
    <2>3. DriverTypeOK'
      BY <2>1, <2>2, CountAssumption DEF DriverInv, DriverTypeOK
    <2>4. CallInv'
      BY <2>1 DEF DriverInv, DriverTypeOK, CallInv, RequestOf
    <2>5. \A k \in Key, x \in Client : Pending(x, k) => Pending(x, k)'
      <3> TAKE k \in Key, x \in Client
      <3>1. CASE x # c
        BY <2>1, <3>1 DEF DriverInv, DriverTypeOK, Pending
      <3>2. CASE x = c
        <4>1. \A n \in 1 .. Count :
                step[c] < 2 * Count + n - 1 =>
                  step'[c] < 2 * Count + n - 1 \/ step'[c] = 2 * Count + n - 1
          BY <2>2, CountAssumption
        <4> QED BY <2>1, <3>2, <4>1 DEF Pending
      <3> QED BY <3>1, <3>2
    <2> QED BY <2>1, <2>3, <2>4, <2>5 DEF DriverInv
  <1>5. ASSUME NEW c \in Client, StoreStep(c), Serve(c)
        PROVE  DriverInv'
    <2>1. /\ call[c] # Nil /\ done[c] = Nil
          /\ store' = Effect(call[c])
          /\ call' = [call EXCEPT ![c] = Nil]
          /\ call'[c] = Nil /\ DOMAIN answer' = Client
          /\ step' = [step EXCEPT ![c] = @ + 1]
          /\ UNCHANGED <<done, rnmbrs>>
      BY <1>5 DEF StoreStep, Serve, DriverInv
    <2>2. step[c] \in 0 .. 4 * Count /\ step[c] < 4 * Count /\ step'[c] = step[c] + 1
      BY <2>1 DEF DriverInv, DriverTypeOK, CallInv, Calls
    <2>3. DriverTypeOK'
      BY <2>1, <2>2, CountAssumption, EffectOfRequest DEF DriverInv, DriverTypeOK
    <2>4. CallInv'
      BY <2>1 DEF DriverInv, DriverTypeOK, CallInv, RequestOf
    <2>5. \A d \in Client \ {c} : step'[d] = step[d] /\ done'[d] = done[d]
      BY <2>1 DEF DriverInv, DriverTypeOK
    <2>6. \A k \in Key : store'[k] # Nil => \E d \in Client : Pending(d, k)'
      BY <2>1, <2>2, <2>5, EffectKeepsPending
    <2> QED BY <2>1, <2>3, <2>4, <2>6 DEF DriverInv
  <1>6. CASE UNCHANGED driverVars
    BY <1>6 DEF driverVars, storeVars, DriverInv, DriverTypeOK, CallInv, RequestOf, Pending
  <1> QED BY <1>1, <1>2, <1>3, <1>4, <1>5, <1>6 DEF DriverNext, DriverStep, StoreStep, Progress

\* The strengthened invariant holds in every reachable state.
LEMMA DriverInvariant == DriverSpec => []DriverInv
  BY DriverInvInit, DriverInvNext, PTL DEF DriverSpec

\* The drivers' counters and the store have their types.
THEOREM DriverTypeCorrect == DriverSpec => []DriverTypeOK
  <1>1. DriverInv => DriverTypeOK
    BY DEF DriverInv
  <1> QED BY <1>1, DriverInvariant, PTL

\* For any number of drivers, whose files share keys as they may: when all have ended
\* nothing is left in the store.
THEOREM DriversLeaveNothing == DriverSpec => []NothingLeft
  <1>1. DriverInv => NothingLeft
    <2> SUFFICES ASSUME DriverInv, \A c \in Client : Finished(c)
                 PROVE  store = [k \in Key |-> Nil]
      BY DEF NothingLeft
    <2>1. \A c \in Client, k \in Key : ~ Pending(c, k)
      <3> SUFFICES ASSUME NEW c \in Client, NEW n \in 1 .. Count
                   PROVE  ~ (step[c] < 2 * Count + n - 1) /\ step[c] # 2 * Count + n - 1
        BY DEF Pending
      <3>1. step[c] = 4 * Count
        BY DEF Finished, Calls
      <3> QED BY <3>1, CountAssumption
    <2>2. \A k \in Key : store[k] = Nil
      BY <2>1 DEF DriverInv
    <2> QED BY <2>2 DEF DriverInv, DriverTypeOK
  <1> QED BY <1>1, DriverInvariant, PTL

----------------------------------------------------------------------------
(****************************************************************************)
(* Drivers that share keys with no other: what they have set they get.      *)
(****************************************************************************)

KeyOf(c, n) == Line(rnmbrs[c][n]).key
ValueOf(c, n) == Line(rnmbrs[c][n]).val

\* Call number s of driver c has taken effect.
Taken(c, s) == s < step[c] \/ (s = step[c] /\ done[c] # Nil)

\* No other driver has drawn a line with key k.
Private(c, k) == \A d \in Client \ {c} : rnmbrs[d] = Nil \/ k \notin KeysOf(d)

\* What driver c has deleted is gone, and until then the last line set is stored.
OwnStore(c, k) ==
  /\ \A n \in 1 .. Count :
       KeyOf(c, n) = k /\ Taken(c, 2 * Count + n - 1) => store[k] = Nil
  /\ \A n \in 1 .. Count :
       /\ KeyOf(c, n) = k /\ Taken(c, n - 1)
       /\ \A m \in 1 .. Count : KeyOf(c, m) = k =>
            ~ Taken(c, 2 * Count + m - 1) /\ (Taken(c, m - 1) => m <= n)
       => store[k] = ValueOf(c, n)

\* What call number s is to return, from the first round of gets on.
Expected(c, s) ==
  LET same == {u \in 1 .. Count : KeyOf(c, u) = KeyOf(c, Item(s))}
      last == CHOOSE u \in same : \A w \in same : w <= u
  IN  IF s \div Count = 1
      THEN [get |-> TRUE, key |-> KeyOf(c, Item(s)), val |-> ValueOf(c, last)] ELSE NoElement

Undrawn == \A c \in Client : rnmbrs[c] = Nil => step[c] = 0
OwnStores == \A c \in Client, k \in Key : rnmbrs[c] # Nil /\ Private(c, k) => OwnStore(c, k)
OwnResults ==
  \A c \in Client, s \in 0 .. Calls, k \in Key :
    /\ rnmbrs[c] # Nil /\ done[c] # Nil /\ step[c] = s /\ s >= Count
    /\ KeyOf(c, Item(s)) = k /\ Private(c, k)
    => done[c] = Expected(c, s)
OwnAnswers ==
  \A c \in Client, s \in 0 .. Calls, k \in Key :
    /\ rnmbrs[c] # Nil /\ step[c] = s + 1 /\ s >= Count
    /\ KeyOf(c, Item(s)) = k /\ Private(c, k)
    => answer[c] = Expected(c, s)

OwnInv == DriverInv /\ Undrawn /\ OwnStores /\ OwnResults /\ OwnAnswers

\* Which of the four loops a call belongs to.
LEMMA Phases ==
  ASSUME NEW s \in Nat
  PROVE  /\ Op(s) \in {"set", "get", "del"} /\ Item(s) \in 1 .. Count
         /\ s < Count <=> Op(s) = "set"
         /\ Op(s) = "set" => s = Item(s) - 1
         /\ Op(s) = "del" => s = 2 * Count + Item(s) - 1 /\ s \div Count # 1
         /\ Op(s) = "get" => \/ s \div Count = 1 /\ s < 2 * Count
                             \/ s \div Count # 1 /\ s > 2 * Count + Item(s) - 1
  <1> DEFINE q == s \div Count
             r == s % Count
  <1>1. q \in Nat /\ r \in 0 .. Count - 1 /\ s = Count * q + r /\ Count \in Nat
    BY CountAssumption
  <1>2. Item(s) = r + 1 /\ Op(s) = CASE q = 0 -> "set" [] q = 2 -> "del" [] OTHER -> "get"
    BY DEF Item, Op
  <1> HIDE DEF q, r
  <1>3. /\ Op(s) \in {"set", "get", "del"}
        /\ Op(s) = "set" <=> q = 0
        /\ Op(s) = "del" <=> q = 2
    BY <1>2
  <1>4. (q >= 3 => s >= 3 * Count) /\ (q >= 1 => s >= Count)
    <2>1. (q >= 3 => Count * q >= Count * 3) /\ (q >= 1 => Count * q >= Count)
      BY <1>1
    <2> QED BY <1>1, <2>1
  <1>5. (q = 0 => s = r) /\ (q = 1 => s = Count + r) /\ (q = 2 => s = 2 * Count + r)
    BY <1>1
  <1>6. Item(s) \in 1 .. Count /\ (s < Count <=> q = 0)
    BY <1>1, <1>2, <1>4, <1>5
  <1>7. (q = 0 => s = Item(s) - 1) /\ (q = 2 => s = 2 * Count + Item(s) - 1)
    BY <1>1, <1>2, <1>5
  <1>8. (q = 1 => s < 2 * Count) /\ (q >= 3 => s > 2 * Count + Item(s) - 1)
    BY <1>1, <1>2, <1>4, <1>5
  <1>9. q = 0 \/ q = 1 \/ q = 2 \/ q >= 3
    BY <1>1
  <1>10. (q = 2 => q # 1) /\ (q >= 3 => q # 1)
    BY <1>1
  <1> QED BY <1>3, <1>6, <1>7, <1>8, <1>9, <1>10 DEF q

\* The lines of a driver that has drawn, and its counters.
LEMMA DrawnLines ==
  ASSUME DriverInv, NEW c \in Client
  PROVE  /\ step[c] \in Nat /\ Count \in Nat /\ Count > 0
         /\ rnmbrs[c] # Nil =>
              \A n \in 1 .. Count : KeyOf(c, n) \in Key /\ ValueOf(c, n) \in Value /\ ValueOf(c, n) # Nil
  <1>1. step[c] \in Nat /\ Count \in Nat /\ Count > 0
    BY CountAssumption DEF DriverInv, DriverTypeOK
  <1>2. ASSUME rnmbrs[c] # Nil, NEW n \in 1 .. Count
        PROVE  KeyOf(c, n) \in Key /\ ValueOf(c, n) \in Value /\ ValueOf(c, n) # Nil
    <2>1. rnmbrs[c][n] \in Number
      BY <1>2 DEF DriverInv, DriverTypeOK
    <2>2. Line(rnmbrs[c][n]) \in [key : Key, val : Value]
      BY <2>1, LineType
    <2>3. KeyOf(c, n) \in Key /\ ValueOf(c, n) \in Value
      BY <2>2 DEF KeyOf, ValueOf
    <2> QED BY <2>3, NilAssumption
  <1> QED BY <1>1, <1>2

\* From the first get on, the store has for a private key what the driver expects.
LEMMA ResultIsExpected ==
  ASSUME DriverInv, NEW c \in Client, call[c] # Nil, done[c] = Nil, step[c] >= Count,
         OwnStore(c, KeyOf(c, Item(step[c])))
  PROVE  Result(call[c]) = Expected(c, step[c])
  <1> DEFINE s == step[c]
             p == KeyOf(c, Item(s))
             same == {u \in 1 .. Count : KeyOf(c, u) = p}
             last == CHOOSE u \in same : \A w \in same : w <= u
  <1>1. rnmbrs[c] # Nil /\ call[c] = RequestOf(c, s)
    BY DEF DriverInv, CallInv
  <1>2. /\ s \in Nat /\ Count \in Nat /\ Count > 0
        /\ \A n \in 1 .. Count : KeyOf(c, n) \in Key /\ ValueOf(c, n) \in Value /\ ValueOf(c, n) # Nil
    BY <1>1, DrawnLines
  <1>3. /\ Op(s) \in {"set", "get", "del"} /\ Item(s) \in 1 .. Count
        /\ s < Count <=> Op(s) = "set"
        /\ Op(s) = "del" => s = 2 * Count + Item(s) - 1 /\ s \div Count # 1
        /\ Op(s) = "get" => \/ s \div Count = 1 /\ s < 2 * Count
                            \/ s \div Count # 1 /\ s > 2 * Count + Item(s) - 1
    BY <1>2, Phases
  <1>4. call[c].op = Op(s) /\ call[c].key = p
    BY <1>1 DEF RequestOf, KeyOf
  <1>5. Expected(c, s) = IF s \div Count = 1
                         THEN [get |-> TRUE, key |-> p, val |-> ValueOf(c, last)] ELSE NoElement
    BY DEF Expected
  <1> HIDE DEF s
  <1>6. CASE Op(s) = "get" /\ s \div Count = 1
    <2>1. last \in same /\ \A w \in same : w <= last
      <3> HIDE DEF p
      <3>1. same \subseteq 0 .. Count /\ same # {}
        BY <1>2, <1>3 DEF p
      <3>2. \E x \in same : \A y \in same : y <= x
        BY <1>2, <3>1, GreatestNumber
      <3> QED BY <3>2
    <2>2. last \in 1 .. Count /\ KeyOf(c, last) = p
      BY <2>1
    <2>3. \A m \in 1 .. Count : KeyOf(c, m) = p => m <= last
      BY <2>1
    <2> HIDE DEF last, same
    <2>4. Taken(c, last - 1)
      <3>1. last - 1 < s
        BY <1>2, <1>3, <1>6, <2>2
      <3> QED BY <3>1 DEF Taken, s
    <2>5. \A m \in 1 .. Count : ~ Taken(c, 2 * Count + m - 1)
      <3>1. \A m \in 1 .. Count : ~ (2 * Count + m - 1 < s)
        BY <1>2, <1>3, <1>6
      <3> QED BY <3>1 DEF Taken, s
    <2>6. store[p] = ValueOf(c, last)
      <3> HIDE DEF p
      <3>1. OwnStore(c, p)
        BY DEF p, s
      <3> QED BY <2>2, <2>3, <2>4, <2>5, <3>1 DEF OwnStore
    <2>7. store[p] # Nil
      BY <1>2, <2>2, <2>6
    <2> HIDE DEF p
    <2>8. Result(call[c]) = [get |-> TRUE, key |-> p, val |-> ValueOf(c, last)]
      BY <1>4, <1>6, <2>6, <2>7 DEF Result
    <2> QED BY <1>5, <1>6, <2>8 DEF s
  <1>7. CASE Op(s) = "get" /\ s \div Count # 1
    <2>1. Taken(c, 2 * Count + Item(s) - 1)
      <3>1. 2 * Count + Item(s) - 1 < s
        BY <1>2, <1>3, <1>7
      <3> QED BY <3>1 DEF Taken, s
    <2>2. store[p] = Nil
      BY <1>3, <2>1 DEF OwnStore, s
    <2> HIDE DEF p
    <2>3. Result(call[c]) = NoElement
      BY <1>4, <1>7, <2>2 DEF Result
    <2> QED BY <1>5, <1>7, <2>3 DEF s
  <1>8. CASE Op(s) = "del"
    <2>1. Result(call[c]) = NoElement
      BY <1>4, <1>8 DEF Result
    <2> QED BY <1>3, <1>5, <1>8, <2>1 DEF s
  <1>9. Op(s) # "set"
    BY <1>2, <1>3 DEF s
  <1> QED BY <1>3, <1>6, <1>7, <1>8, <1>9

\* A result is not Nil, so that the step that takes it is seen.
LEMMA ResultIsSomething ==
  ASSUME DriverInv, NEW c \in Client, call[c] # Nil
  PROVE  Result(call[c]) # Nil
  <1> DEFINE R == [get : BOOLEAN, key : Key \cup {Nil}, val : Value \cup {Nil}]
  <1>1. rnmbrs[c] # Nil /\ call[c] = RequestOf(c, step[c])
    BY DEF DriverInv, CallInv
  <1>2. Item(step[c]) \in 1 .. Count
    BY DrawnLines, Phases
  <1>3. call[c].key \in Key
    BY <1>1, <1>2, DrawnLines DEF RequestOf, KeyOf
  <1>4. store[call[c].key] \in Value \cup {Nil}
    BY <1>3 DEF DriverInv, DriverTypeOK
  <1>5. Result(call[c]) \in R
    BY <1>3, <1>4 DEF Result, NoElement
  <1> QED BY <1>5, NilAssumption

\* What a request does to the key of its line, and to the other keys.
LEMMA EffectOnKeys ==
  ASSUME DriverInv, NEW c \in Client, call[c] # Nil
  PROVE  LET p == KeyOf(c, Item(step[c])) IN
         /\ p \in KeysOf(c) /\ rnmbrs[c] # Nil
         /\ \A k \in Key : k # p => Effect(call[c])[k] = store[k]
         /\ Op(step[c]) = "set" => Effect(call[c])[p] = ValueOf(c, Item(step[c]))
         /\ Op(step[c]) = "del" => Effect(call[c])[p] = Nil
         /\ Op(step[c]) = "get" => Effect(call[c]) = store
  <1> DEFINE p == KeyOf(c, Item(step[c]))
  <1>1. rnmbrs[c] # Nil /\ call[c] = RequestOf(c, step[c]) /\ step[c] \in Nat
    BY DrawnLines DEF DriverInv, CallInv
  <1>2. Item(step[c]) \in 1 .. Count /\ Op(step[c]) \in {"set", "get", "del"}
    BY <1>1, Phases
  <1>3. p \in Key /\ p \in KeysOf(c)
    BY <1>1, <1>2, DrawnLines DEF KeysOf, KeyOf
  <1>4. /\ call[c].op = Op(step[c]) /\ call[c].key = p
        /\ call[c].op = "set" => call[c].val = ValueOf(c, Item(step[c]))
    BY <1>1 DEF RequestOf, KeyOf, ValueOf
  <1>5. store \in [Key -> Value \cup {Nil}]
    BY DEF DriverInv, DriverTypeOK
  <1> HIDE DEF p
  <1>6. CASE Op(step[c]) = "set"
    <2>1. Effect(call[c]) = [store EXCEPT ![p] = ValueOf(c, Item(step[c]))]
      BY <1>4, <1>6 DEF Effect
    <2> QED BY <1>1, <1>3, <1>5, <1>6, <2>1 DEF p
  <1>7. CASE Op(step[c]) = "del"
    <2>1. Effect(call[c]) = [store EXCEPT ![p] = Nil]
      BY <1>4, <1>7 DEF Effect
    <2> QED BY <1>1, <1>3, <1>5, <1>7, <2>1 DEF p
  <1>8. CASE Op(step[c]) = "get"
    <2>1. Effect(call[c]) = store
      BY <1>4, <1>8 DEF Effect
    <2> QED BY <1>1, <1>3, <1>8, <2>1 DEF p
  <1> QED BY <1>2, <1>6, <1>7, <1>8

\* The taking of a call by the store, with its return in the same step or later.
Takes(c) ==
  /\ call[c] # Nil /\ done[c] = Nil
  /\ store' = Effect(call[c])
  /\ rnmbrs' = rnmbrs
  /\ \A s \in Nat : Taken(c, s)' <=> s <= step[c]
  /\ \A d \in Client \ {c} : step'[d] = step[d] /\ done'[d] = done[d]

LEMMA TakesEffect ==
  ASSUME DriverInv, OwnStores, NEW c \in Client, Takes(c)
  PROVE  OwnStores'
  <1> PICK u : u = Item(step[c])
    OBVIOUS
  <1> DEFINE s == step[c]
             p == KeyOf(c, u)
  <1> SUFFICES ASSUME NEW d \in Client, NEW k \in Key, rnmbrs'[d] # Nil, Private(d, k)'
               PROVE  OwnStore(d, k)'
    BY DEF OwnStores
  <1>1. /\ call[c] # Nil /\ done[c] = Nil /\ store' = Effect(call[c]) /\ rnmbrs' = rnmbrs
        /\ \A x \in Nat : Taken(c, x)' <=> x <= s
    BY DEF Takes
  <1>2. Private(d, k) /\ rnmbrs[d] # Nil /\ OwnStore(d, k)
    BY <1>1 DEF Private, KeysOf, OwnStores
  <1>3. /\ s \in Nat /\ Count \in Nat /\ Count > 0
        /\ \A n \in 1 .. Count : n - 1 \in Nat /\ 2 * Count + n - 1 \in Nat
    <2>1. s \in Nat /\ Count \in Nat /\ Count > 0
      BY DrawnLines
    <2> HIDE DEF s
    <2> QED BY <2>1
  <1>4. \A n \in 1 .. Count : KeyOf(d, n)' = KeyOf(d, n) /\ ValueOf(d, n)' = ValueOf(d, n)
    BY <1>1 DEF KeyOf, ValueOf
  <1>5. /\ u \in 1 .. Count /\ Op(s) \in {"set", "get", "del"}
        /\ s < Count <=> Op(s) = "set"
        /\ Op(s) = "set" => s = u - 1
        /\ Op(s) = "del" => s = 2 * Count + u - 1
    BY <1>3, Phases DEF s
  <1>6. /\ p \in KeysOf(c) /\ rnmbrs[c] # Nil
        /\ k # p => store'[k] = store[k]
        /\ Op(s) = "set" => store'[p] = ValueOf(c, u)
        /\ Op(s) = "del" => store'[p] = Nil
        /\ Op(s) = "get" => store' = store
    BY <1>1, EffectOnKeys
  <1> HIDE DEF p, s
  \* Nothing changes for the key.
  <1>7. ASSUME store'[k] = store[k],
               \A n \in 1 .. Count : KeyOf(d, n) = k =>
                 /\ Taken(d, n - 1)' <=> Taken(d, n - 1)
                 /\ Taken(d, 2 * Count + n - 1)' <=> Taken(d, 2 * Count + n - 1)
        PROVE  OwnStore(d, k)'
    BY <1>2, <1>4, <1>7 DEF OwnStore
  <1>8. CASE d # c
    <2>1. k # p
      BY <1>2, <1>6, <1>8 DEF Private
    <2>2. \A x : Taken(d, x)' <=> Taken(d, x)
      BY <1>8 DEF Takes, Taken
    <2> QED BY <1>6, <1>7, <2>1, <2>2
  <1>9. CASE d = c /\ (k # p \/ Op(s) = "get")
    <2> SUFFICES ASSUME NEW n \in 1 .. Count, KeyOf(c, n) = k
                 PROVE  /\ Taken(c, n - 1)' <=> Taken(c, n - 1)
                        /\ Taken(c, 2 * Count + n - 1)' <=> Taken(c, 2 * Count + n - 1)
      BY <1>6, <1>7, <1>9
    <2>1. n - 1 # s
      <3> SUFFICES ASSUME n - 1 = s
                   PROVE  FALSE
        OBVIOUS
      <3>1. s < Count
        BY <1>3
      <3>2. n = u
        BY <1>3, <1>5, <3>1
      <3> QED BY <1>5, <1>9, <3>1, <3>2 DEF p
    <2>2. 2 * Count + n - 1 # s
      <3> SUFFICES ASSUME 2 * Count + n - 1 = s
                   PROVE  FALSE
        OBVIOUS
      <3>1. Op(s) = "del" /\ u = n
        BY DeleteOf DEF s
      <3> QED BY <1>9, <3>1 DEF p
    <2>3. \A x \in Nat : x # s => (x <= s <=> x < s)
      BY <1>3
    <2>4. \A x \in Nat : x # s => (Taken(c, x)' <=> Taken(c, x))
      BY <1>1, <2>3 DEF Taken, s
    <2> QED BY <1>3, <2>1, <2>2, <2>4
  <1>10. CASE d = c /\ k = p /\ Op(s) = "set"
    <2>1. \A n \in 1 .. Count : ~ Taken(c, 2 * Count + n - 1)'
      <3>1. \A n \in 1 .. Count : ~ (2 * Count + n - 1 <= s)
        BY <1>3, <1>5, <1>10
      <3> QED BY <1>1, <1>3, <3>1
    <2>2. ASSUME NEW n \in 1 .. Count, Taken(c, n - 1)',
                 \A m \in 1 .. Count : KeyOf(c, m)' = k => (Taken(c, m - 1)' => m <= n)
          PROVE  store'[k] = ValueOf(c, n)'
      <3>1. KeyOf(c, u)' = k
        BY <1>4, <1>5, <1>10 DEF p
      <3>2. Taken(c, u - 1)'
        BY <1>1, <1>3, <1>5, <1>10
      <3>3. u <= n
        BY <1>5, <2>2, <3>1, <3>2
      <3>4. n - 1 <= s
        BY <1>1, <1>3, <2>2
      <3>5. n = u
        BY <1>3, <1>5, <1>10, <3>3, <3>4
      <3> QED BY <1>4, <1>6, <1>10, <3>5
    <2> QED BY <1>10, <2>1, <2>2 DEF OwnStore
  <1>11. CASE d = c /\ k = p /\ Op(s) = "del"
    <2>1. Taken(c, 2 * Count + u - 1)'
      BY <1>1, <1>3, <1>5, <1>11
    <2>2. KeyOf(c, u)' = k
      BY <1>4, <1>5, <1>11 DEF p
    <2>3. store'[k] = Nil
      BY <1>6, <1>11
    <2> QED BY <1>5, <1>11, <2>1, <2>2, <2>3 DEF OwnStore
  <1> QED BY <1>5, <1>8, <1>9, <1>10, <1>11

\* As long as a driver's lines stay, so does what is said about them.
LEMMA SameLines ==
  ASSUME rnmbrs' = rnmbrs, NEW c
  PROVE  /\ \A n : KeyOf(c, n)' = KeyOf(c, n) /\ ValueOf(c, n)' = ValueOf(c, n)
         /\ \A s : Expected(c, s)' = Expected(c, s)
         /\ \A k : Private(c, k)' <=> Private(c, k)
  BY DEF KeyOf, ValueOf, Expected, Private, KeysOf

LEMMA OwnInvInit ==
  ASSUME DriverInit
  PROVE  OwnInv
  <1>1. rnmbrs = [c \in Client |-> Nil] /\ step = [c \in Client |-> 0]
    BY DEF DriverInit
  <1> QED BY <1>1, DriverInvInit DEF OwnInv, Undrawn, OwnStores, OwnResults, OwnAnswers

LEMMA GetFileInfoOwn ==
  ASSUME OwnInv, DriverInv', NEW c \in Client, GetFileInfo(c)
  PROVE  OwnInv'
  <1> PICK d \in Draws : rnmbrs' = [rnmbrs EXCEPT ![c] = d]
    BY DEF GetFileInfo
  <1>1. rnmbrs[c] = Nil /\ UNCHANGED <<store, call, done, answer, step>>
    BY DEF GetFileInfo, storeVars
  <1>2. step[c] = 0 /\ done[c] = Nil /\ Count \in Nat /\ Count > 0
    BY <1>1, CountAssumption DEF OwnInv, DriverInv, CallInv, Undrawn
  <1>3. \A s \in Nat : ~ Taken(c, s)'
    BY <1>1, <1>2 DEF Taken
  <1>4. rnmbrs \in [Client -> Numbers \cup {Nil}]
    BY DEF OwnInv, DriverInv, DriverTypeOK, Numbers
  <1>5. ASSUME NEW x \in Client, x # c
        PROVE  /\ rnmbrs'[x] = rnmbrs[x]
               /\ \A n : KeyOf(x, n)' = KeyOf(x, n) /\ ValueOf(x, n)' = ValueOf(x, n)
               /\ \A s : Expected(x, s)' = Expected(x, s)
               /\ \A s : Taken(x, s)' <=> Taken(x, s)
               /\ \A k : Private(x, k)' => Private(x, k)
    <2>1. rnmbrs'[x] = rnmbrs[x]
      BY <1>4, <1>5
    <2>2. /\ \A n : KeyOf(x, n)' = KeyOf(x, n) /\ ValueOf(x, n)' = ValueOf(x, n)
          /\ \A s : Expected(x, s)' = Expected(x, s)
      BY <2>1 DEF KeyOf, ValueOf, Expected
    <2>3. \A s : Taken(x, s)' <=> Taken(x, s)
      BY <1>1 DEF Taken
    <2>4. ASSUME NEW k, Private(x, k)'
          PROVE  Private(x, k)
      <3>1. \A y \in Client \ {c} : rnmbrs'[y] = rnmbrs[y]
        BY <1>4
      <3> QED BY <1>1, <2>4, <3>1 DEF Private, KeysOf
    <2> QED BY <2>1, <2>2, <2>3, <2>4
  <1>6. Undrawn'
    BY <1>1, <1>2, <1>5 DEF OwnInv, Undrawn
  <1>7. OwnStores'
    <2> SUFFICES ASSUME NEW x \in Client, NEW k \in Key, rnmbrs'[x] # Nil, Private(x, k)'
                 PROVE  OwnStore(x, k)'
      BY DEF OwnStores
    <2>1. CASE x = c
      <3>1. \A n \in 1 .. Count : n - 1 \in Nat /\ 2 * Count + n - 1 \in Nat
        BY <1>2
      <3> QED BY <1>3, <2>1, <3>1 DEF OwnStore
    <2>2. CASE x # c
      <3>1. OwnStore(x, k)
        BY <1>5, <2>2 DEF OwnInv, OwnStores
      <3> QED BY <1>1, <1>5, <2>2, <3>1 DEF OwnStore
    <2> QED BY <2>1, <2>2
  <1>8. OwnResults'
    BY <1>1, <1>2, <1>5 DEF OwnInv, OwnResults
  <1>9. OwnAnswers'
    BY <1>1, <1>2, <1>5 DEF OwnInv, OwnAnswers
  <1> QED BY <1>6, <1>7, <1>8, <1>9 DEF OwnInv

\* Steps that leave alone what the store has and has taken.
LEMMA QuietOwn ==
  ASSUME OwnStores, UNCHANGED <<store, rnmbrs>>,
         \A x \in Client, s \in Nat : Taken(x, s)' <=> Taken(x, s)
  PROVE  OwnStores'
  <1> SUFFICES ASSUME NEW x \in Client, NEW k \in Key, rnmbrs'[x] # Nil, Private(x, k)'
               PROVE  OwnStore(x, k)'
    BY DEF OwnStores
  <1>1. OwnStore(x, k)
    BY SameLines DEF OwnStores
  <1>2. \A n \in 1 .. Count : n - 1 \in Nat /\ 2 * Count + n - 1 \in Nat
    BY CountAssumption
  <1>3. \A n : KeyOf(x, n)' = KeyOf(x, n) /\ ValueOf(x, n)' = ValueOf(x, n)
    BY SameLines
  <1> QED BY <1>1, <1>2, <1>3 DEF OwnStore

LEMMA ExecuteOwn ==
  ASSUME OwnInv, DriverInv', NEW c \in Client, StoreStep(c), Execute(c)
  PROVE  OwnInv'
  <1>1. /\ call[c] # Nil /\ done[c] = Nil /\ store' = Effect(call[c])
        /\ done' = [done EXCEPT ![c] = Result(call[c])]
        /\ UNCHANGED <<call, answer, step, rnmbrs>>
    BY DEF StoreStep, Execute
  <1>2. /\ done'[c] = Result(call[c])
        /\ \A d \in Client \ {c} : done'[d] = done[d]
    BY <1>1 DEF OwnInv, DriverInv
  <1>3. Result(call[c]) # Nil /\ step[c] \in Nat
    BY <1>1, ResultIsSomething, DrawnLines DEF OwnInv
  <1>4. \A s \in Nat : Taken(c, s)' <=> s <= step[c]
    BY <1>1, <1>2, <1>3 DEF Taken
  <1>5. Takes(c)
    BY <1>1, <1>2, <1>4 DEF Takes
  <1>6. OwnStores'
    BY <1>5, TakesEffect DEF OwnInv
  <1>7. OwnResults'
    <2> SUFFICES ASSUME NEW x \in Client, NEW s \in 0 .. Calls, NEW k \in Key,
                        rnmbrs'[x] # Nil, done'[x] # Nil, step'[x] = s, s >= Count,
                        KeyOf(x, Item(s))' = k, Private(x, k)'
                 PROVE  done'[x] = Expected(x, s)'
      BY DEF OwnResults
    <2>1. /\ rnmbrs[x] # Nil /\ KeyOf(x, Item(s)) = k /\ Private(x, k)
          /\ Expected(x, s)' = Expected(x, s)
      BY <1>1, SameLines
    <2>2. CASE x = c
      <3>1. OwnStore(c, k)
        BY <2>1, <2>2 DEF OwnInv, OwnStores
      <3> QED BY <1>1, <1>2, <2>1, <2>2, <3>1, ResultIsExpected DEF OwnInv
    <2>3. CASE x # c
      BY <1>1, <1>2, <2>1, <2>3 DEF OwnInv, OwnResults
    <2> QED BY <2>2, <2>3
  <1>8. OwnAnswers'
    BY <1>1, SameLines DEF OwnInv, OwnAnswers
  <1>9. Undrawn'
    BY <1>1 DEF OwnInv, Undrawn
  <1> QED BY <1>6, <1>7, <1>8, <1>9 DEF OwnInv

\* A call returns: the next one is a step further.
LEMMA ReturnOwn ==
  ASSUME OwnInv, DriverInv', OwnStores', NEW c \in Client, NEW result,
         rnmbrs' = rnmbrs, call[c] # Nil,
         step' = [step EXCEPT ![c] = @ + 1],
         \A x \in Client : answer'[x] = IF x = c THEN result ELSE answer[x],
         \A x \in Client : done'[x] = IF x = c THEN Nil ELSE done[x],
         \A k \in Key : step[c] >= Count /\ KeyOf(c, Item(step[c])) = k /\ Private(c, k)
           => result = Expected(c, step[c])
  PROVE  OwnInv'
  <1>1. rnmbrs[c] # Nil /\ step[c] \in Nat
    BY DrawnLines DEF OwnInv, DriverInv, CallInv
  <1>2. step'[c] = step[c] + 1 /\ \A x \in Client \ {c} : step'[x] = step[x]
    BY DEF OwnInv, DriverInv, DriverTypeOK
  <1>3. OwnResults'
    <2> SUFFICES ASSUME NEW x \in Client, NEW s \in 0 .. Calls, NEW k \in Key,
                        rnmbrs'[x] # Nil, done'[x] # Nil, step'[x] = s, s >= Count,
                        KeyOf(x, Item(s))' = k, Private(x, k)'
                 PROVE  done'[x] = Expected(x, s)'
      BY DEF OwnResults
    <2>1. /\ rnmbrs[x] # Nil /\ KeyOf(x, Item(s)) = k /\ Private(x, k)
          /\ Expected(x, s)' = Expected(x, s)
      BY SameLines
    <2>2. x # c /\ done'[x] = done[x] /\ step'[x] = step[x]
      BY <1>2
    <2> QED BY <2>1, <2>2 DEF OwnInv, OwnResults
  <1>4. OwnAnswers'
    <2> SUFFICES ASSUME NEW x \in Client, NEW s \in 0 .. Calls, NEW k \in Key,
                        rnmbrs[x] # Nil, step'[x] = s + 1, s >= Count,
                        KeyOf(x, Item(s)) = k, Private(x, k)
                 PROVE  answer'[x] = Expected(x, s)
      BY SameLines DEF OwnAnswers
    <2>1. CASE x = c
      <3>1. s = step[c]
        <4>1. s \in Int
          BY DEF Calls
        <4> QED BY <1>1, <1>2, <2>1, <4>1
      <3> QED BY <2>1, <3>1
    <2>2. CASE x # c
      <3>1. answer'[x] = answer[x] /\ step'[x] = step[x]
        BY <1>2, <2>2
      <3> QED BY <3>1 DEF OwnInv, OwnAnswers
    <2> QED BY <2>1, <2>2
  <1>5. Undrawn'
    BY <1>1, <1>2 DEF OwnInv, Undrawn
  <1> QED BY <1>3, <1>4, <1>5 DEF OwnInv

LEMMA OwnInvNext ==
  ASSUME OwnInv, DriverInv', [DriverNext]_driverVars
  PROVE  OwnInv'
  <1>1. ASSUME NEW c \in Client, GetFileInfo(c)
        PROVE  OwnInv'
    BY <1>1, GetFileInfoOwn
  <1>2. CASE UNCHANGED <<store, done, answer, rnmbrs, step>>
    <2>1. OwnStores'
      <3>1. \A x \in Client, s \in Nat : Taken(x, s)' <=> Taken(x, s)
        BY <1>2 DEF Taken
      <3> QED BY <1>2, <3>1, QuietOwn DEF OwnInv
    <2>2. OwnResults' /\ OwnAnswers'
      BY <1>2, SameLines DEF OwnInv, OwnResults, OwnAnswers
    <2>3. Undrawn'
      BY <1>2 DEF OwnInv, Undrawn
    <2> QED BY <2>1, <2>2, <2>3 DEF OwnInv
  <1>3. ASSUME NEW c \in Client, StoreStep(c), Execute(c)
        PROVE  OwnInv'
    BY <1>3, ExecuteOwn
  <1>4. ASSUME NEW c \in Client, StoreStep(c), Return(c)
        PROVE  OwnInv'
    <2>1. /\ done[c] # Nil /\ call[c] # Nil
          /\ call' = [call EXCEPT ![c] = Nil]
          /\ done' = [done EXCEPT ![c] = Nil]
          /\ answer' = [answer EXCEPT ![c] = done[c]]
          /\ step' = [step EXCEPT ![c] = @ + 1]
          /\ UNCHANGED <<store, rnmbrs>>
      BY <1>4 DEF StoreStep, Return, OwnInv, DriverInv
    <2>2. /\ \A x \in Client : answer'[x] = IF x = c THEN done[c] ELSE answer[x]
          /\ \A x \in Client : done'[x] = IF x = c THEN Nil ELSE done[x]
          /\ \A x \in Client : step'[x] = IF x = c THEN step[c] + 1 ELSE step[x]
          /\ rnmbrs[c] # Nil /\ step[c] \in 0 .. Calls
      BY <2>1 DEF OwnInv, DriverInv, DriverTypeOK, CallInv, Calls
    <2>3. \A x \in Client, s \in Nat : Taken(x, s)' <=> Taken(x, s)
      <3>1. step[c] \in Int
        BY <2>2 DEF Calls
      <3>2. \A s \in Nat : s < step[c] + 1 <=> (s < step[c] \/ s = step[c])
        BY <3>1
      <3> QED BY <2>1, <2>2, <3>2 DEF Taken
    <2>4. OwnStores'
      BY <2>1, <2>3, QuietOwn DEF OwnInv
    <2>5. \A k \in Key : step[c] >= Count /\ KeyOf(c, Item(step[c])) = k /\ Private(c, k)
             => done[c] = Expected(c, step[c])
      BY <2>1, <2>2 DEF OwnInv, OwnResults
    <2> QED BY <2>1, <2>2, <2>4, <2>5, ReturnOwn
  <1>5. ASSUME NEW c \in Client, StoreStep(c), Serve(c)
        PROVE  OwnInv'
    <2>1. /\ call[c] # Nil /\ done[c] = Nil
          /\ store' = Effect(call[c])
          /\ call' = [call EXCEPT ![c] = Nil]
          /\ answer' = [answer EXCEPT ![c] = Result(call[c])]
          /\ step' = [step EXCEPT ![c] = @ + 1]
          /\ UNCHANGED <<done, rnmbrs>>
      BY <1>5 DEF StoreStep, Serve, OwnInv, DriverInv
    <2>2. /\ \A x \in Client : answer'[x] = IF x = c THEN Result(call[c]) ELSE answer[x]
          /\ \A x \in Client : done'[x] = IF x = c THEN Nil ELSE done[x]
          /\ \A x \in Client : step'[x] = IF x = c THEN step[c] + 1 ELSE step[x]
          /\ rnmbrs[c] # Nil /\ step[c] \in 0 .. Calls
      BY <2>1 DEF OwnInv, DriverInv, DriverTypeOK, CallInv, Calls
    <2>3. Takes(c)
      <3>1. step[c] \in Int
        BY <2>2 DEF Calls
      <3>2. \A s \in Nat : s < step[c] + 1 <=> s <= step[c]
        BY <3>1
      <3> QED BY <2>1, <2>2, <3>2 DEF Takes, Taken
    <2>4. OwnStores'
      BY <2>3, TakesEffect DEF OwnInv
    <2>5. \A k \in Key : step[c] >= Count /\ KeyOf(c, Item(step[c])) = k /\ Private(c, k)
             => Result(call[c]) = Expected(c, step[c])
      BY <2>1, <2>2, ResultIsExpected DEF OwnInv, OwnStores
    <2> QED BY <2>1, <2>2, <2>4, <2>5, ReturnOwn
  <1> QED
    BY <1>1, <1>2, <1>3, <1>4, <1>5
    DEF DriverNext, DriverStep, StoreStep, Progress, SetGetDel, Invoke, driverVars, storeVars

\* For any number of drivers and any file: a driver that shares no key gets what it has
\* set last, until it deletes it, and then nothing.
THEOREM DriversGetWhatTheySet == DriverSpec => []GetsWhatItSet
  <1>1. DriverInit => OwnInv
    BY OwnInvInit
  <1>2. DriverInv /\ DriverInv' /\ OwnInv /\ [DriverNext]_driverVars => OwnInv'
    BY OwnInvNext
  <1>3. OwnInv => GetsWhatItSet
    <2> SUFFICES ASSUME OwnInv, NEW c \in Client, rnmbrs[c] # Nil, step[c] > Count,
                        Private(c, KeyOf(c, Item(step[c] - 1)))
                 PROVE  answer[c] = Expected(c, step[c] - 1)
      BY DEF GetsWhatItSet, Private, KeyOf, ValueOf, Expected
    <2>1. step[c] \in 0 .. Calls /\ Count \in Nat
      BY CountAssumption DEF OwnInv, DriverInv, DriverTypeOK, Calls
    <2> PICK s : s = step[c] - 1
      OBVIOUS
    <2>2. s \in Nat /\ s \in 0 .. Calls /\ step[c] = s + 1 /\ s >= Count
      BY <2>1 DEF Calls
    <2>3. KeyOf(c, Item(s)) \in Key
      BY <2>2, DrawnLines, Phases DEF OwnInv
    <2> QED BY <2>2, <2>3 DEF OwnInv, OwnAnswers
  <1> QED BY <1>1, <1>2, <1>3, DriverInvariant, PTL DEF DriverSpec

----------------------------------------------------------------------------
(****************************************************************************)
(* The programs side by side.                                               *)
(****************************************************************************)

\* Which of the programs runs makes no difference to the others: whatever is proved of
\* one kind of them holds when they stand side by side.
THEOREM ProgramsApart == ExercisesSpec => FetchSpec /\ DriverSpec /\ NtpSpec
  <1>1. ExercisesInit => FetchInit /\ DriverInit /\ NtpInit
    BY DEF ExercisesInit
  <1>2. [ExercisesNext]_exercisesVars
          => [FetchNext]_fetchVars /\ [DriverNext]_driverVars /\ [NtpNext]_ntpVars
    BY DEF ExercisesNext, Fetching, Driving, Syncing, exercisesVars
  <1> QED BY <1>1, <1>2, PTL DEF ExercisesSpec, FetchSpec, DriverSpec, NtpSpec
================================================================================
