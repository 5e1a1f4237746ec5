---------------------------------- MODULE Fetch --------------------------------
(****************************************************************************)
(* The programs of 1_udp_tcp: the quote clients over UDP and TCP, the quote *)
(* server over TCP, and the image download.  Each reader is a process that  *)
(* runs one of the three client programs.  External: the UDP quote server,  *)
(* the HTTP server, and the network, which loses datagrams and hands out    *)
(* the bytes of a stream in pieces of its own choosing.                     *)
(****************************************************************************)
EXTENDS Integers, Sequences

CONSTANTS
  Reader,        \* the client processes
  Quote,         \* the file of the quote server: the bytes in each of its lines
  Unended,       \* whether the '\n' of the last line is missing
  MaxQuote,      \* 512
  ListenBacklog, \* 1, as listen() is told
  CLEnd,         \* in the HTTP response, the end of the Content-Length line,
  HeaderEnd,     \*   of the header,
  ImageEnd,      \*   and of the response
  None

ASSUME QuoteAssumption ==
  /\ MaxQuote \in Nat
  /\ Quote \in Seq(1 .. MaxQuote - 1)
  /\ Quote # <<>>
  /\ Unended \in BOOLEAN
\* No response fills the download's buffer: main() has no test for it.
BufferSize == 200000
ASSUME ImageAssumption ==
  /\ {CLEnd, HeaderEnd, ImageEnd} \subseteq 1 .. BufferSize - 1
  /\ CLEnd < HeaderEnd
  /\ HeaderEnd < ImageEnd
ASSUME NoneAssumption ==
  /\ None \notin DOMAIN Quote
  /\ None \notin {"request", "reply", "lost"}

VARIABLES
  program,   \* what each reader runs
  stage,     \* "start", "asked", or how it ended
  datagram,  \* the datagram under way for it: "request", "reply", "lost", None
  pending,   \* the accept queue of the quote server
  text,      \* the line of the file that its connection carries
  sent,      \* how many bytes its peer has written to it,
  closed,    \* whether the peer has closed the connection,
  arrived,   \* and how many of the bytes have arrived
  taken,     \* the bytes that the download has received
  cl,        \* its Content-Length; 1 until it is extracted
  output     \* what the reader has printed

fetchVars ==
  <<program, stage, datagram, pending, text, sent, closed, arrived, taken, cl, output>>

Programs == {"udp_qotd", "tcp_qotd", "image"}
Ended == {"done", "failed", "crashed"}

End(r, how) == stage' = [stage EXCEPT ![r] = how]

\* Some bytes of a line or, with text None, of another source; as many as
\* missing of them were never received.
Bytes(line, size, missing) == [line |-> line, size |-> size, missing |-> missing]

Write(r, bytes) == output' = [output EXCEPT ![r] = bytes]

\* A call reports an error: getaddrinfo() to recv().
Fail(r) ==
  /\ stage[r] \in {"start", "asked"}
  /\ End(r, "failed")
  /\ UNCHANGED <<program, datagram, pending, text, sent, closed, arrived, taken, cl, output>>

----------------------------------------------------------------------------
\* datagram_client.c
SendDatagram(r) ==
  /\ program[r] = "udp_qotd"
  /\ stage[r] = "start"
  /\ End(r, "asked")
  /\ datagram' = [datagram EXCEPT ![r] = "request"]
  /\ UNCHANGED <<program, pending, text, sent, closed, arrived, taken, cl, output>>

Lose(r) ==
  /\ datagram[r] \in {"request", "reply"}
  /\ datagram' = [datagram EXCEPT ![r] = "lost"]
  /\ UNCHANGED <<program, stage, pending, text, sent, closed, arrived, taken, cl, output>>

\* A quote may be empty, or longer than the client's buffer.
AnswerDatagram(r) ==
  /\ datagram[r] = "request"
  /\ datagram' = [datagram EXCEPT ![r] = "reply"]
  /\ \E n \in {0, 1, MaxQuote + 1} : sent' = [sent EXCEPT ![r] = n]
  /\ UNCHANGED <<program, stage, pending, text, closed, arrived, taken, cl, output>>

\* recvfrom() cuts what does not fit; 0 is taken for an error.
RecvDatagram(r) ==
  /\ stage[r] = "asked"
  /\ datagram[r] = "reply"
  /\ datagram' = [datagram EXCEPT ![r] = None]
  /\ IF sent[r] = 0
     THEN End(r, "failed") /\ UNCHANGED output
     ELSE /\ End(r, "done")
          /\ Write(r, Bytes(None, IF sent[r] > MaxQuote THEN MaxQuote ELSE sent[r], 0))
  /\ UNCHANGED <<program, pending, text, sent, closed, arrived, taken, cl>>

----------------------------------------------------------------------------
\* stream_client.c, up to recv(); connect() waits while the queue is full.
ConnectQuote(r) ==
  /\ program[r] = "tcp_qotd"
  /\ stage[r] = "start"
  /\ Len(pending) <= ListenBacklog
  /\ pending' = Append(pending, r)
  /\ End(r, "asked")
  /\ UNCHANGED <<program, datagram, text, sent, closed, arrived, taken, cl, output>>

\* The '\n's, and one more.
Lines == IF Unended THEN Len(Quote) ELSE Len(Quote) + 1

\* getRandomQuote() calls fgets() randomLine + 1 times; at the end of the file
\* it leaves the line before in the buffer.
LineRead(randomLine) == IF randomLine < Len(Quote) THEN randomLine + 1 ELSE Len(Quote)

KeepOpen(r) == UNCHANGED closed   \* mutant: close(temp_socket) is forgotten

\* Of the quote server, after send().
Close(r) == closed' = [closed EXCEPT ![r] = TRUE]

\* server.c between two accept()s.
ServeQuote ==
  LET r == Head(pending) IN
  /\ pending # <<>>
  /\ pending' = Tail(pending)
  /\ \E randomLine \in 1 .. Lines : text' = [text EXCEPT ![r] = LineRead(randomLine)]
  /\ sent' = [sent EXCEPT ![r] = Quote[text'[r]]]
  /\ Close(r)
  /\ UNCHANGED <<program, stage, datagram, arrived, taken, cl, output>>

\* TCP: some more bytes arrive.
DeliverBytes(r) ==
  /\ program[r] # "udp_qotd"
  /\ \E n \in arrived[r] + 1 .. sent[r] : arrived' = [arrived EXCEPT ![r] = n]
  /\ UNCHANGED <<program, stage, datagram, pending, text, sent, closed, taken, cl, output>>

EndOfStream(r) == closed[r] /\ arrived[r] = sent[r]

WaitForSome(r) == arrived[r] > 0   \* mutant: recv() without MSG_WAITALL

WaitForAll(r) == arrived[r] >= MaxQuote \/ EndOfStream(r)

RecvQuote(r) ==
  /\ program[r] = "tcp_qotd"
  /\ stage[r] = "asked"
  /\ WaitForAll(r)
  /\ IF arrived[r] = 0
     THEN End(r, "failed") /\ UNCHANGED output
     ELSE End(r, "done") /\ Write(r, Bytes(text[r], arrived[r], 0))
  /\ UNCHANGED <<program, datagram, pending, text, sent, closed, arrived, taken, cl>>

----------------------------------------------------------------------------
\* stream_http_image.c, up to recv()
SendRequest(r) ==
  /\ program[r] = "image"
  /\ stage[r] = "start"
  /\ End(r, "asked")
  /\ UNCHANGED <<program, datagram, pending, text, sent, closed, arrived, taken, cl, output>>

\* The HTTP server writes its response and closes; it may break off anywhere.
AnswerHttp(r) ==
  /\ program[r] = "image"
  /\ stage[r] = "asked"
  /\ ~closed[r]
  /\ \E n \in 0 .. ImageEnd : sent' = [sent EXCEPT ![r] = n]
  /\ closed' = [closed EXCEPT ![r] = TRUE]
  /\ UNCHANGED <<program, stage, datagram, pending, text, arrived, taken, cl, output>>

ContentLength == ImageEnd - HeaderEnd

\* extractContentLength() in what the first recv() returned: without the whole
\* line strstr() returns NULL, which is not tested.
Crash(r) == cl[r] = 1 /\ arrived[r] < CLEnd

OneRecv(r) == TRUE   \* mutant: there is no loop

\* recv() returned 0, which ends the loop.
NothingMore(r) == taken[r] = arrived[r]

Requested(r) == ImageEnd   \* mutant: the length that was asked for is added up

\* response_len: what the calls of recv() have returned.
Received(r) == arrived[r]

\* recv() returns what has arrived, at most until the end of the stream.
RecvImage(r) ==
  /\ program[r] = "image"
  /\ stage[r] = "asked"
  /\ taken[r] < arrived[r] \/ EndOfStream(r)
  /\ taken' = [taken EXCEPT ![r] = Received(r)]
  /\ IF Crash(r)
     THEN End(r, "crashed") /\ UNCHANGED <<cl, output>>
     ELSE /\ cl' = [cl EXCEPT ![r] = ContentLength]
          /\ IF NothingMore(r)
             THEN /\ End(r, "done")
                  /\ Write(r, Bytes(None, ContentLength,
                                    IF arrived[r] < HeaderEnd THEN ContentLength
                                    ELSE ImageEnd - arrived[r]))
             ELSE UNCHANGED <<stage, output>>
  /\ UNCHANGED <<program, datagram, pending, text, sent, closed, arrived>>

----------------------------------------------------------------------------
FetchInit ==
  /\ program \in [Reader -> Programs]
  /\ stage = [r \in Reader |-> "start"]
  /\ datagram = [r \in Reader |-> None]
  /\ pending = <<>>
  /\ text = [r \in Reader |-> None]
  /\ sent = [r \in Reader |-> 0]
  /\ closed = [r \in Reader |-> FALSE]
  /\ arrived = [r \in Reader |-> 0]
  /\ taken = [r \in Reader |-> 0]
  /\ cl = [r \in Reader |-> 1]
  /\ output = [r \in Reader |-> Bytes(None, 0, 0)]

\* What a reader, its peer and the network do for it, short of failing.
ReaderStep(r) ==
  \/ SendDatagram(r)
  \/ AnswerDatagram(r)
  \/ RecvDatagram(r)
  \/ ConnectQuote(r)
  \/ RecvQuote(r)
  \/ SendRequest(r)
  \/ AnswerHttp(r)
  \/ RecvImage(r)
  \/ DeliverBytes(r)

FetchNext ==
  \/ ServeQuote
  \/ \E r \in Reader : Fail(r) \/ Lose(r) \/ ReaderStep(r)

FetchSpec == FetchInit /\ [][FetchNext]_fetchVars

----------------------------------------------------------------------------
FetchTypeOK ==
  /\ program \in [Reader -> Programs]
  /\ stage \in [Reader -> {"start", "asked"} \cup Ended]
  /\ datagram \in [Reader -> {"request", "reply", "lost", None}]
  /\ pending \in Seq(Reader)
  /\ text \in [Reader -> DOMAIN Quote \cup {None}]
  /\ closed \in [Reader -> BOOLEAN]
  /\ cl \in [Reader -> {1, ContentLength}]
  /\ \A r \in Reader : taken[r] <= arrived[r] /\ arrived[r] <= sent[r]

\* A TCP client that succeeds prints one whole line of the server's file, in
\* however many pieces it comes, and whoever else is served before and after.
PrintsOneLine ==
  \A r \in Reader :
    program[r] = "tcp_qotd" /\ stage[r] = "done" =>
      /\ output[r].line # None
      /\ output[r].size = Quote[output[r].line]

\* A download that succeeds has written as many bytes as Content-Length says,
\* and all of them are the image's if the server did not break off.
WritesImage ==
  \A r \in Reader :
    program[r] = "image" /\ stage[r] = "done" =>
      /\ output[r].size = ContentLength
      /\ sent[r] = ImageEnd => output[r].missing = 0

\* Every program has come to an end, or waits for a datagram that was lost.
ReadersEnded == \A r \in Reader : stage[r] \in Ended \/ datagram[r] = "lost"
================================================================================
