-------------------------------- MODULE Chat --------------------------------
(***************************************************************************)
(* The chat of testCase/asio: clients that send lines, and a server that    *)
(* sends each to every client, over byte streams that LengthHeaderCodec     *)
(* cuts into messages again.                                                *)
(*                                                                          *)
(* muduo's TcpServer, TcpClient and TcpConnection are external: a stream    *)
(* delivers in order, in pieces of any length, until it ends or is cut; a   *)
(* client whose connection closed connects again.  The server is one loop   *)
(* thread.  A client has a thread that reads the input and a loop thread;   *)
(* both use conn_, one of them without the mutex.                           *)
(***************************************************************************)
EXTENDS Integers, Sequences, FiniteSets

CONSTANTS Client,
          Conn,     \* connections, each made at most once
          Owner,    \* the client of each
          Line,
          Input,    \* the lines of each client's input
          Size,     \* how many bytes each has
          nHeader,  \* the bytes of the length header
          MaxLen,   \* the longest length that the codec accepts
          MaxCuts   \* bound: how many connections the network drops

ASSUME ChatAssumption ==
  /\ Owner \in [Conn -> Client]
  /\ Input \in [Client -> Seq(Line)] /\ Size \in [Line -> Nat]
  /\ nHeader \in Nat \ {0} /\ MaxLen \in Nat /\ MaxCuts \in Nat

VARIABLES
  client,    \* the state of each connection in its client
  server,    \* and in the server
  cut,       \* connections that the network dropped
  quit,      \* clients whose input has ended
  writing,   \* the call of write that each client is in: << conn_, line >>
  input,     \* the lines that each client has not read yet
  toServer, inServer,  \* bytes under way and in the server's input buffer
  toClient, inClient,  \* bytes under way and in the client's input buffer
  sent,      \* history: the lines sent on each connection,
  log,       \* the messages that the server sent on, and from whom,
  joined,    \* how many there were when it accepted each connection,
  printed,   \* and the messages that each connection has brought
  failed     \* a client used a null or dangling pointer

streams == << toServer, inServer, toClient, inClient >>
history == << sent, log, joined, printed >>
vars == << client, server, cut, quit, writing, input, streams, history,
           failed >>

Init ==
  /\ client = [k \in Conn |-> "new"] /\ server = [k \in Conn |-> "new"]
  /\ cut = {} /\ quit = {} /\ failed = FALSE
  /\ writing = [c \in Client |-> << >>] /\ input = Input
  /\ toServer = [k \in Conn |-> << >>] /\ inServer = toServer
  /\ toClient = toServer /\ inClient = toServer
  /\ sent = toServer /\ printed = toServer
  /\ log = << >> /\ joined = [k \in Conn |-> 0]

Up == {"connected", "disconnecting"}

\* onConnection sets conn_ of a client, and the server's set of connections.
Current(c) == {k \in Conn : Owner[k] = c /\ client[k] \in Up}
connects_  == {k \in Conn : server[k] \in Up}

-----------------------------------------------------------------------------
(* LengthHeaderCodec.                                                       *)

\* The bytes of a line, and what send makes of a message.
Text(l)   == [i \in 1 .. Size[l] |-> << l, i >>]
Encode(s) == [i \in 1 .. nHeader |-> << "length", Len(s) >>] \o s

\* The bytes of one message after the other.
Stream(msgs) ==
  LET bytes[n \in 0 .. Len(msgs)] ==
        IF n = 0 THEN << >> ELSE bytes[n - 1] \o Encode(msgs[n])
  IN bytes[Len(msgs)]

\* Bytes that are no header mean any length; the decoder then has lost the
\* stream, and a negative one shows it.
PeekInt32(buf) ==
  IF \A i \in 1 .. nHeader : buf[i] = << "length", buf[1][2] >>
  THEN buf[1][2] ELSE -1

HasHeader(buf) == Len(buf) >= nHeader
Valid(buf)     == PeekInt32(buf) \in 0 .. MaxLen

Complete(buf)  == Len(buf) >= nHeader + PeekInt32(buf)
Retrieved(buf) == SubSeq(buf, nHeader + PeekInt32(buf) + 1, Len(buf))
HasMessage(buf) == HasHeader(buf) /\ Valid(buf) /\ Complete(buf)

Message(buf) == SubSeq(buf, nHeader + 1, nHeader + PeekInt32(buf))

\* Faulty: if in place of while.
OnMessageOnce(buf) ==
  IF HasMessage(buf) THEN [rest |-> Retrieved(buf), out |-> << Message(buf) >>]
                     ELSE [rest |-> buf, out |-> << >>]

\* Faulty: the messages of one read come out in reverse.
TurnInReverse(d) ==
  IF HasMessage(d.rest) THEN [rest |-> Retrieved(d.rest),
                              out  |-> << Message(d.rest) >> \o d.out]
                        ELSE d

\* A turn of onMessage's loop, if a whole message is left in the buffer.
Turn(d) ==
  IF HasMessage(d.rest) THEN [rest |-> Retrieved(d.rest),
                              out  |-> Append(d.out, Message(d.rest))]
                        ELSE d

\* onMessage: the rest of the buffer and the messages that were in it, each of
\* which has a byte at least.
OnMessage(buf) ==
  LET after[n \in 0 .. Len(buf)] ==
        IF n = 0 THEN [rest |-> buf, out |-> << >>] ELSE Turn(after[n - 1])
  IN after[Len(buf)]

\* onMessage has shut the connection down over a length.
Invalid(buf) == HasHeader(buf) /\ ~Valid(buf)

-----------------------------------------------------------------------------
(* Connections.                                                             *)

\* connect, or the retry after a connection that closed.
Connect(k) ==
  /\ client[k] = "new" /\ Owner[k] \notin quit /\ Current(Owner[k]) = {}
  /\ client' = [client EXCEPT ![k] = "connected"]
  /\ UNCHANGED << server, cut, quit, writing, input, streams, history,
                  failed >>

\* onConnection of the server.
ServerUp(k) ==
  /\ server[k] = "new" /\ client[k] # "new"
  /\ server' = [server EXCEPT ![k] = "connected"]
  /\ joined' = [joined EXCEPT ![k] = Len(log)]
  /\ UNCHANGED << client, cut, quit, writing, input, streams, sent, log,
                  printed, failed >>

\* The end of the client's stream; what the server has not sent yet is lost.
ServerDown(k) ==
  /\ server[k] \in Up /\ toServer[k] = << >>
  /\ client[k] # "connected" \/ k \in cut
  /\ server' = [server EXCEPT ![k] = "disconnected"]
  /\ \E n \in 0 .. Len(toClient[k]) :
       toClient' = [toClient EXCEPT ![k] = SubSeq(@, 1, n)]
  /\ inServer' = [inServer EXCEPT ![k] = << >>]
  /\ UNCHANGED << client, cut, quit, writing, input, toServer, inClient,
                  history, failed >>

\* The end of the server's stream: conn_ is reset, without the mutex, and the
\* connection destructed by a functor a little later.
ClientDown(k) ==
  /\ client[k] \in Up /\ toClient[k] = << >>
  /\ server[k] \in {"disconnecting", "disconnected"} \/ k \in cut
  /\ client' = [client EXCEPT ![k] = "disconnected"]
  /\ inClient' = [inClient EXCEPT ![k] = << >>]
  /\ UNCHANGED << server, cut, quit, writing, input, toServer, inServer,
                  toClient, history, failed >>

\* The network fails, or the client's process ends.
Cut(k) ==
  /\ client[k] # "new" /\ k \notin cut /\ Cardinality(cut) < MaxCuts
  /\ cut' = cut \cup {k}
  /\ toServer' = [toServer EXCEPT ![k] = << >>]
  /\ toClient' = [toClient EXCEPT ![k] = << >>]
  /\ UNCHANGED << client, server, quit, writing, input, inServer, inClient,
                  history, failed >>

\* The input has ended: shutdown of the connection and no retry.
Disconnect(c) ==
  /\ c \notin quit /\ writing[c] = << >> /\ input[c] = << >>
  /\ quit' = quit \cup {c}
  /\ client' = [k \in Conn |-> IF k \in Current(c) THEN "disconnecting"
                               ELSE client[k]]
  /\ UNCHANGED << server, cut, writing, input, streams, history, failed >>

-----------------------------------------------------------------------------
(* Messages.                                                                *)

\* main reads a line, and write tests conn_, under a mutex that onConnection
\* does not take, ...
Write(c) ==
  /\ writing[c] = << >> /\ input[c] # << >>
  /\ input' = [input EXCEPT ![c] = Tail(@)]
  /\ IF Current(c) = {} THEN UNCHANGED writing
     ELSE \E k \in Current(c) :
            writing' = [writing EXCEPT ![c] = << k, Head(input[c]) >>]
  /\ UNCHANGED << client, server, cut, quit, streams, history, failed >>

\* ... and sends through the plain pointer, which the build may read again: a
\* connection that was reset meanwhile is null, destructed, closed or a new one.
WriteSend(c) ==
  /\ writing[c] # << >> /\ writing' = [writing EXCEPT ![c] = << >>]
  /\ \/ /\ writing[c][1] \notin Current(c)
        /\ failed' = TRUE
        /\ UNCHANGED << toServer, sent >>
     \/ \E k \in {writing[c][1]} \cup Current(c) :
          LET s == Text(writing[c][2])
          IN /\ IF client[k] = "connected"
                THEN /\ sent' = [sent EXCEPT ![k] = Append(@, s)]
                     /\ toServer' = [toServer EXCEPT ![k] =
                                       IF k \in cut THEN @ ELSE @ \o Encode(s)]
                ELSE UNCHANGED << toServer, sent >>
             /\ UNCHANGED failed
  /\ UNCHANGED << client, server, cut, quit, input, inServer, toClient,
                  inClient, log, joined, printed >>

\* Faulty: the message goes to the others only.
RecipientsBut(k) == {j \in connects_ \ {k} : server[j] = "connected"}

\* Sending on a connection that was shut down does nothing.
Recipients(k) == {j \in connects_ : server[j] = "connected"}

\* The server's loop: onMessage, and onStringMessage for each message.
ServerReads(k) ==
  /\ k \in connects_
  /\ \E n \in 1 .. Len(toServer[k]) :
       LET d == OnMessage(inServer[k] \o SubSeq(toServer[k], 1, n))
       IN /\ toServer' = [toServer EXCEPT ![k] = SubSeq(@, n + 1, Len(@))]
          /\ inServer' = [inServer EXCEPT ![k] = d.rest]
          /\ toClient' = [j \in Conn |->
                            IF j \in Recipients(k) \ cut
                            THEN toClient[j] \o Stream(d.out) ELSE toClient[j]]
          /\ log' = log \o [i \in DOMAIN d.out |-> << k, d.out[i] >>]
          /\ server' = [server EXCEPT ![k] =
                          IF Invalid(d.rest) THEN "disconnecting" ELSE @]
  /\ UNCHANGED << client, cut, quit, writing, input, inClient, sent, joined,
                  printed, failed >>

\* The client's loop: onMessage, and the messages are printed.
ClientReads(k) ==
  /\ client[k] \in Up
  /\ \E n \in 1 .. Len(toClient[k]) :
       LET d == OnMessage(inClient[k] \o SubSeq(toClient[k], 1, n))
       IN /\ toClient' = [toClient EXCEPT ![k] = SubSeq(@, n + 1, Len(@))]
          /\ inClient' = [inClient EXCEPT ![k] = d.rest]
          /\ printed' = [printed EXCEPT ![k] = @ \o d.out]
          /\ client' = [client EXCEPT ![k] =
                          IF Invalid(d.rest) THEN "disconnecting" ELSE @]
  /\ UNCHANGED << server, cut, quit, writing, input, toServer, inServer, sent,
                  log, joined, failed >>

-----------------------------------------------------------------------------
Next ==
  /\ ~failed
  /\ \/ \E k \in Conn : \/ Connect(k) \/ ServerUp(k) \/ ServerDown(k)
                        \/ ClientDown(k) \/ Cut(k)
                        \/ ServerReads(k) \/ ClientReads(k)
     \/ \E c \in Client : \/ Write(c) \/ WriteSend(c) \/ Disconnect(c)

Spec == Init /\ [][Next]_vars

-----------------------------------------------------------------------------
(* Correctness.                                                             *)

Byte == (Line \cup {"length"}) \X Nat

TypeOK ==
  /\ client \in [Conn -> Up \cup {"new", "disconnected"}]
  /\ server \in [Conn -> Up \cup {"new", "disconnected"}]
  /\ cut \subseteq Conn /\ quit \subseteq Client /\ input \in [Client -> Seq(Line)]
  /\ writing \in [Client -> {<< >>} \cup (Conn \X Line)]
  /\ \A s \in {toServer, inServer, toClient, inClient} :
       s \in [Conn -> Seq(Byte)]
  /\ joined \in [Conn -> 0 .. Len(log)]
  /\ failed \in BOOLEAN

\* The messages of msgs that came from k.
From(k, msgs) ==
  LET from[n \in 0 .. Len(msgs)] ==
        IF n = 0 THEN << >>
        ELSE IF msgs[n][1] = k THEN Append(from[n - 1], msgs[n][2])
                               ELSE from[n - 1]
  IN from[Len(msgs)]

\* What the server has sent on of what came from k.
Heard(k) == From(k, log)

\* What the server has sent on since it accepted k.
Since(k) == [i \in 1 .. Len(log) - joined[k] |-> log[joined[k] + i][2]]

IsPrefix(s, t) == Len(s) <= Len(t) /\ SubSeq(t, 1, Len(s)) = s

\* The server takes from each connection the lines that were sent on it, whole
\* and in order, however the stream is cut into pieces and others speak.
SpeakersAreInOrder == TypeOK /\ \A k \in Conn : IsPrefix(Heard(k), sent[k])

\* All clients print the same messages in the same order: a connection brings
\* what the server sent on since it accepted it, with none missing between.
PrintedIsTheLog == \A k \in Conn : IsPrefix(printed[k], Since(k))

\* A connection that is neither cut nor being closed.
Open(k) == k \notin cut /\ client[k] = "connected" /\ server[k] = "connected"

\* Nothing stays in a buffer: once an open connection has brought all bytes, in
\* whatever pieces, all lines sent on it have been sent on to all, and all that
\* was sent on to it has been printed.
NothingStaysBuffered ==
  \A k \in Conn : Open(k) =>
    /\ toServer[k] = << >> => Heard(k) = sent[k]
    /\ toClient[k] = << >> => printed[k] = Since(k)
=============================================================================
