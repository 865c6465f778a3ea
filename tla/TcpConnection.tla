--------------------------- MODULE TcpConnection ---------------------------
(***************************************************************************)
(* One TcpConnection from its registration by TcpServer::onNewConnection to *)
(* its destructor: its IO loop, the threads that call send and shutdown on  *)
(* it, the base loop of the server that removes it, its peer, and the       *)
(* destruction of the server.                                               *)
(*                                                                          *)
(* The IO loop is that of EventLoop, whose queue is a FIFO executor; of the *)
(* Poller there is only this connection's channel and its slot.  If the     *)
(* base loop is also the IO loop, what it does for the server it does at    *)
(* once, within its own steps: so may this model at any time.  state_       *)
(* is read and written by all threads without a lock: each access is a      *)
(* step.  Assertions are compiled in, so one that fails ends the program.   *)
(***************************************************************************)
EXTENDS Integers, Sequences, FiniteSets

CONSTANTS Msg,     \* the messages, each sent at most once
          Size,    \* how many bytes each has
          Room,    \* the bytes that the system's send buffer holds
          Thread   \* threads other than the IO loop's that use the connection

ASSUME SizeAssumption == Size \in [Msg -> Nat \ {0}] /\ Room \in Nat \ {0}

VARIABLES
  \* the IO loop
  pc,            \* it is at "poll", in "events" or in "functors"
  revents_,      \* events of the channel not handled yet
  queue,         \* the loop's functors: the batch and then funcQueue
  batch,         \* how many of them belong to the batch
  ran,           \* some functor of the batch ran; they all die with the batch
  inCallback,    \* a user callback runs
  \* the connection
  state_,
  events_,       \* the interest of sockChannel_
  slot,          \* its slot in pollfds_: "none", "watched", "muted", "removed"
  mask,          \* the events of the slot
  outputBuffer_, \* bytes not written yet
  \* the network
  wire,          \* the bytes written to the socket
  inFlight,      \* how many of them fill the system's send buffer
  finSent,       \* ::shutdown(SHUT_WR) was called
  peer,          \* "open", has sent "fin" or "rst", or the reset was "reported"
  inbox,         \* there are bytes to read
  \* the server and the life of the connection
  inMap,         \* it is in TcpServer::connections_
  removing,      \* removeConnectionInLoop is queued in the base loop
  serverAlive,
  alive,
  \* the threads
  call,          \* what each has left to do of its call
  holders,       \* those that hold a TcpConnectionPtr
  \* history, and the end of the program
  unsent,        \* messages not sent so far
  accepted,      \* messages that reached sendInLoop, in that order
  failed         \* what aborted the program, or "none"

loop    == << pc, revents_, batch, ran, inCallback >>
channel == << events_, slot, mask >>
network == << wire, inFlight, finSent, peer, inbox >>
server  == << inMap, removing, serverAlive >>
threads == << call, holders >>
history == << unsent, accepted >>

\* Frames: the connection itself, what is not the loop thread's, what a thread's
\* own step leaves alone besides queue and state_, and all but the network.
connection == << state_, channel, outputBuffer_ >>
elsewhere  == << server, alive, threads, history >>
loopThread == << loop, channel, outputBuffer_, network, server, alive, failed >>
program    == << loop, queue, connection, elsewhere, failed >>

vars == << loop, queue, state_, channel, outputBuffer_, network, server, alive,
           threads, history, failed >>

State   == {"connecting", "connected", "disconnecting", "disconnected"}
Functor == {<< "established" >>, << "shutdown" >>, << "writeComplete" >>,
            << "destroyed" >>} \cup ({"send"} \X Msg)
Call    == {<< "none" >>, << "setState" >>, << "shutdown" >>}
             \cup ({"send"} \X Msg)

\* onNewConnection has put the connection into the map and queued the rest.
Init ==
  /\ pc = "poll" /\ revents_ = {} /\ batch = 0 /\ ran = FALSE
  /\ queue = << << "established" >> >>
  /\ inCallback = FALSE
  /\ state_ = "connecting"
  /\ events_ = {} /\ slot = "none" /\ mask = {}
  /\ outputBuffer_ = << >>
  /\ wire = << >> /\ inFlight = 0 /\ finSent = FALSE
  /\ peer = "open" /\ inbox = FALSE
  /\ inMap = TRUE /\ removing = FALSE /\ serverAlive = TRUE
  /\ alive = TRUE
  /\ call = [th \in Thread |-> << "none" >>] /\ holders = {}
  /\ unsent = Msg /\ accepted = << >>
  /\ failed = "none"

Abort(what) ==
  /\ failed' = what
  /\ UNCHANGED << elsewhere, connection, loop, network, queue >>

-----------------------------------------------------------------------------
(* Channel and Poller.                                                      *)

isWriting == "write" \in events_

\* The slot takes the interest; it is muted without one, and never unmuted.
UpdateChannel(ev) ==
  /\ slot # "removed"
  /\ events_' = ev
  /\ mask' = ev
  /\ slot' = IF ev = {} \/ slot = "muted" THEN "muted" ELSE "watched"

\* Faulty: the interest goes but the poller is not told.
DisableAllOnly ==
  /\ slot # "removed"
  /\ events_' = {}
  /\ UNCHANGED << slot, mask >>

DisableAll == UpdateChannel({})

\* disableWrite does not call update.
DisableWrite ==
  /\ events_' = events_ \ {"write"}
  /\ UNCHANGED << slot, mask >>

-----------------------------------------------------------------------------
(* Sending.                                                                 *)

\* The bytes of a message.
Bytes(m) == [i \in 1 .. Size[m] |-> << m, i >>]

Reset == peer \in {"rst", "reported"}

\* ::write of n bytes fails with EPIPE once the stream is shut down or reset, and
\* with EAGAIN when the send buffer is full; otherwise it takes what fits.
WriteResult(n) ==
  IF finSent \/ Reset \/ inFlight = Room THEN -1
  ELSE IF n <= Room - inFlight THEN n
  ELSE Room - inFlight

First(s, n) == SubSeq(s, 1, n)
Rest(s, n)  == SubSeq(s, n + 1, Len(s))

\* Faulty: a message is written though earlier ones wait in the buffer.
WritesAtOnceAlways == TRUE

WritesAtOnce == ~isWriting /\ outputBuffer_ = << >>

\* Faulty: the poller is not asked to report that the socket is writable.
BufferOnly(s) ==
  /\ outputBuffer_' = outputBuffer_ \o s
  /\ UNCHANGED channel

\* What is not written is appended, and written when the socket is writable.
Buffer(s) ==
  /\ outputBuffer_' = outputBuffer_ \o s
  /\ IF isWriting THEN UNCHANGED channel
                  ELSE UpdateChannel(events_ \cup {"write"})

\* If the user has set a writeCompleteCallback_, a functor is queued behind q.
QueueWriteComplete(q) == queue' \in {q, Append(q, << "writeComplete" >>)}

\* sendInLoop, where q is the queue without the functor that runs.
SendInLoop(m, q) ==
  LET ret == IF WritesAtOnce THEN WriteResult(Size[m]) ELSE 0
  IN \/ /\ ret >= 0
        /\ wire' = wire \o First(Bytes(m), ret)
        /\ inFlight' = inFlight + ret
        /\ accepted' = Append(accepted, m)
        /\ IF ret < Size[m]
           THEN Buffer(Rest(Bytes(m), ret)) /\ queue' = q
           ELSE /\ QueueWriteComplete(q)
                /\ UNCHANGED << channel, outputBuffer_ >>
        /\ UNCHANGED << finSent, peer, inbox, failed >>
     \/ /\ ret < 0 \/ (ret < Size[m] /\ ~isWriting /\ slot = "removed")
        /\ failed' = IF ret < 0 THEN "send" ELSE "update"
        /\ UNCHANGED << network, channel, queue, outputBuffer_, accepted >>

\* Faulty: the stream is shut down before the buffer is written.
ShutdownAtOnce(writing) == finSent' = TRUE

\* shutdownInLoop.
ShutdownInLoop(writing) == finSent' = (finSent \/ ~writing)

\* send by a user callback, on the loop thread.
CallbackSend(m) ==
  /\ inCallback /\ m \in unsent /\ state_ = "connected"
  /\ unsent' = unsent \ {m}
  /\ SendInLoop(m, queue)
  /\ UNCHANGED << loop, server, threads, state_, alive >>

\* shutdown by a user callback, on the loop thread.
CallbackShutdown ==
  /\ inCallback /\ state_ = "connected"
  /\ state_' = "disconnecting"
  /\ ShutdownInLoop(isWriting)
  /\ UNCHANGED << elsewhere, loop, channel, queue, outputBuffer_, wire, inFlight,
                  peer, inbox, failed >>

\* No TcpConnectionPtr is left, but that of a callback.
Unreferenced == ~inMap /\ ~removing /\ queue = << >> /\ ~ran /\ holders = {}

\* If the callback of a message had the last pointer, the channel is destructed
\* while it is handled, which its assertion forbids.
EndCallback ==
  /\ inCallback /\ inCallback' = FALSE
  /\ failed' = IF pc = "events" /\ Unreferenced THEN "dangling" ELSE failed
  /\ UNCHANGED << elsewhere, connection, network, pc, revents_, batch, ran,
                  queue >>

-----------------------------------------------------------------------------
(* The IO loop: poll and the events of the channel.                         *)

Readable  == inbox \/ peer # "open"
Writeable == inFlight < Room \/ Reset

\* ::poll reports what the slot asks for.  Reading is asked for as long as the
\* slot is watched, so that POLLHUP never comes without POLLIN.
Poll ==
  /\ pc = "poll" /\ pc' = "events"
  /\ revents_' = IF slot # "watched" THEN {}
                 ELSE {ev \in mask : \/ ev = "read" /\ Readable
                                     \/ ev = "write" /\ Writeable}
  /\ UNCHANGED << elsewhere, connection, network, batch, ran, inCallback, queue,
                  failed >>

\* closeCallback_ is the server's removeConnection: runInLoop of the base loop.
CloseCallback == removing' = TRUE

\* It asserts that the connection is open, and calls the server.
HandleClose ==
  IF state_ \in {"connected", "disconnecting"} /\ serverAlive
  THEN /\ state_' = "disconnected"
       /\ DisableAll /\ CloseCallback
       /\ UNCHANGED failed
  ELSE /\ failed' = IF state_ = "disconnected" THEN "handleClose" ELSE "dangling"
       /\ UNCHANGED << channel, state_, removing >>

\* handleRead: there is data, the end of the stream, or an error, which is
\* logged and does not come again.
HandleRead ==
  /\ pc = "events" /\ ~inCallback
  /\ "read" \in revents_
  /\ revents_' = revents_ \ {"read"}
  /\ \/ /\ inbox
        /\ inbox' = FALSE
        /\ inCallback' = TRUE
        /\ UNCHANGED << channel, state_, peer, removing, failed >>
     \/ /\ ~inbox /\ peer \in {"fin", "reported"}
        /\ HandleClose
        /\ UNCHANGED << inCallback, peer, inbox >>
     \/ /\ ~inbox /\ peer = "rst"
        /\ peer' = "reported"
        /\ UNCHANGED << channel, inCallback, state_, inbox, removing, failed >>
  /\ UNCHANGED << threads, history, pc, batch, ran, queue, outputBuffer_, wire,
                  inFlight, finSent, inMap, serverAlive, alive >>

\* Faulty: a shutdown that waited for the buffer is forgotten.
BufferWrittenOnly ==
  /\ DisableWrite
  /\ QueueWriteComplete(queue)
  /\ UNCHANGED finSent

\* The whole buffer has been written.
BufferWritten ==
  /\ DisableWrite
  /\ QueueWriteComplete(queue)
  /\ IF state_ = "disconnecting" THEN ShutdownInLoop(FALSE)
                                 ELSE UNCHANGED finSent

HandleWrite ==
  /\ pc = "events" /\ ~inCallback
  /\ "read" \notin revents_ /\ "write" \in revents_
  /\ revents_' = {}
  /\ LET ret == WriteResult(Len(outputBuffer_))
     IN \/ /\ ~isWriting
           /\ UNCHANGED << channel, queue, outputBuffer_, wire, inFlight,
                           finSent, failed >>
        \/ /\ isWriting /\ ret < 0
           /\ failed' = "retrieve"
           /\ UNCHANGED << channel, queue, outputBuffer_, wire, inFlight,
                           finSent >>
        \/ /\ isWriting /\ ret >= 0
           /\ wire' = wire \o First(outputBuffer_, ret)
           /\ inFlight' = inFlight + ret
           /\ outputBuffer_' = Rest(outputBuffer_, ret)
           /\ IF ret = Len(outputBuffer_)
              THEN BufferWritten
              ELSE UNCHANGED << channel, queue, finSent >>
           /\ UNCHANGED failed
  /\ UNCHANGED << elsewhere, pc, batch, ran, inCallback, state_, peer, inbox >>

\* The events are handled, and the functors queued so far become the batch.
BeginFunctors ==
  /\ pc = "events" /\ ~inCallback /\ revents_ = {}
  /\ pc' = "functors" /\ batch' = Len(queue)
  /\ UNCHANGED << elsewhere, connection, network, revents_, ran, inCallback,
                  queue, failed >>

-----------------------------------------------------------------------------
(* The IO loop: functors.                                                   *)

\* f is the next functor of the batch.
Turn(f) ==
  /\ pc = "functors" /\ ~inCallback
  /\ batch > 0 /\ Head(queue) = f
  /\ batch' = batch - 1 /\ ran' = TRUE
  /\ UNCHANGED << pc, revents_ >>

\* connectionEstablished, whose callback gives the pointer to the threads.
RunEstablished ==
  /\ Turn(<< "established" >>)
  /\ queue' = Tail(queue)
  /\ state_' = "connected"
  /\ UpdateChannel(events_ \cup {"read"})
  /\ inCallback' = TRUE
  /\ holders' = Thread
  /\ UNCHANGED << network, server, history, outputBuffer_, alive, call, failed >>

RunSend(m) ==
  /\ Turn(<< "send", m >>)
  /\ SendInLoop(m, Tail(queue))
  /\ UNCHANGED << server, threads, inCallback, state_, alive, unsent >>

RunShutdown ==
  /\ Turn(<< "shutdown" >>)
  /\ queue' = Tail(queue)
  /\ ShutdownInLoop(isWriting)
  /\ UNCHANGED << elsewhere, connection, inCallback, wire, inFlight, peer, inbox,
                  failed >>

\* The functor is bound to the member writeCompleteCallback_, which it reads and
\* does not call.
RunWriteComplete ==
  /\ Turn(<< "writeComplete" >>)
  /\ queue' = Tail(queue)
  /\ UNCHANGED << elsewhere, connection, network, inCallback, failed >>

\* connectionDestryed, and Channel::remove with its assertion.
ConnectionDestryed ==
  IF state_ = "connected" \/ events_ = {}
  THEN /\ state_' = IF state_ = "connected" THEN "disconnected" ELSE state_
       /\ events_' = {} /\ slot' = "removed" /\ mask' = {}
       /\ UNCHANGED failed
  ELSE /\ failed' = "remove"
       /\ UNCHANGED << channel, state_ >>

RunDestroyed ==
  /\ Turn(<< "destroyed" >>)
  /\ queue' = Tail(queue)
  /\ ConnectionDestryed
  /\ UNCHANGED << elsewhere, network, inCallback, outputBuffer_ >>

EndFunctors ==
  /\ pc = "functors" /\ ~inCallback /\ batch = 0
  /\ pc' = "poll" /\ ran' = FALSE
  /\ UNCHANGED << elsewhere, connection, network, revents_, batch, inCallback,
                  queue, failed >>

-----------------------------------------------------------------------------
(* Threads that hold the connection.                                        *)

\* send: the state is tested ...
SendTest(th, m) ==
  /\ th \in holders /\ call[th] = << "none" >>
  /\ m \in unsent /\ state_ = "connected"
  /\ call' = [call EXCEPT ![th] = << "send", m >>]
  /\ unsent' = unsent \ {m}
  /\ UNCHANGED << loopThread, queue, state_, holders, accepted >>

\* shutdown: the state is tested, ...
ShutdownTest(th) ==
  /\ th \in holders /\ call[th] = << "none" >>
  /\ state_ = "connected"
  /\ call' = [call EXCEPT ![th] = << "setState" >>]
  /\ UNCHANGED << loopThread, history, queue, state_, holders >>

\* ... set, ...
ShutdownSet(th) ==
  /\ call[th] = << "setState" >>
  /\ state_' = "disconnecting"
  /\ call' = [call EXCEPT ![th] = << "shutdown" >>]
  /\ UNCHANGED << loopThread, history, queue, holders >>

\* ... and sendInLoop or shutdownInLoop is queued.
QueueInLoop(th) ==
  /\ call[th] \in Functor
  /\ queue' = Append(queue, call[th])
  /\ call' = [call EXCEPT ![th] = << "none" >>]
  /\ UNCHANGED << loopThread, history, state_, holders >>

\* The thread lets its TcpConnectionPtr go.
Release(th) ==
  /\ th \in holders /\ call[th] = << "none" >>
  /\ holders' = holders \ {th}
  /\ UNCHANGED << loopThread, history, queue, state_, call >>

-----------------------------------------------------------------------------
(* The base loop and the server.                                            *)

\* Faulty: the connection is forgotten without connectionDestryed.
EraseOnly == inMap' = FALSE /\ UNCHANGED queue

\* Faulty: the connection stays in connections_.
DestroyOnly ==
  /\ queue' = Append(queue, << "destroyed" >>)
  /\ UNCHANGED inMap

\* The connection leaves connections_ and connectionDestryed is queued.
EraseAndDestroy ==
  /\ inMap' = FALSE
  /\ queue' = Append(queue, << "destroyed" >>)

RemoveConnectionInLoop ==
  /\ removing
  /\ removing' = FALSE
  /\ IF serverAlive /\ inMap
     THEN EraseAndDestroy /\ UNCHANGED failed
     ELSE /\ failed' = IF serverAlive THEN "erase" ELSE "dangling"
          /\ UNCHANGED << queue, inMap >>
  /\ UNCHANGED << connection, loop, network, threads, history, serverAlive,
                  alive >>

\* The server gives its pointer to connectionDestryed, by runInLoop: it is queued,
\* or called at once in the base loop.  There, the connection was established at
\* once as well, and a close would have been; and the loop may be in a handler of
\* this channel, or of one before it.
ServerDtor ==
  /\ serverAlive
  /\ serverAlive' = FALSE
  /\ \/ ~inMap /\ UNCHANGED << queue, inMap, channel, state_, failed >>
     \/ inMap /\ EraseAndDestroy /\ UNCHANGED << channel, state_, failed >>
     \/ /\ inMap /\ ~removing /\ slot # "none"
        /\ inMap' = FALSE
        /\ ConnectionDestryed
        /\ UNCHANGED queue
  /\ UNCHANGED << loop, outputBuffer_, network, threads, history, removing,
                  alive >>

\* The last TcpConnectionPtr is gone: ~TcpConnection with its assertion, and
\* ~Channel, whose events must not be under way.
Dtor ==
  /\ alive
  /\ Unreferenced /\ ~inCallback
  /\ alive' = FALSE
  /\ failed' = IF state_ # "disconnected" THEN "dtor"
               ELSE IF revents_ # {} THEN "dangling" ELSE failed
  /\ UNCHANGED << connection, loop, network, server, threads, history, queue >>

-----------------------------------------------------------------------------
(* The peer.                                                                *)

PeerSends ==
  /\ peer = "open"
  /\ inbox' = TRUE
  /\ UNCHANGED << program, wire, inFlight, finSent, peer >>

PeerFin ==
  /\ peer = "open"
  /\ peer' = "fin"
  /\ UNCHANGED << program, wire, inFlight, finSent, inbox >>

\* The peer takes bytes, which makes room for others.
PeerReads ==
  /\ inFlight > 0
  /\ inFlight' \in 0 .. inFlight - 1
  /\ UNCHANGED << program, wire, finSent, peer, inbox >>

\* What was not read yet is lost.
PeerRst ==
  /\ peer \in {"open", "fin"}
  /\ peer' = "rst"
  /\ inbox' = FALSE
  /\ UNCHANGED << program, wire, inFlight, finSent >>

-----------------------------------------------------------------------------
RunFunctor == \/ RunEstablished
              \/ \E m \in Msg : RunSend(m)
              \/ RunShutdown
              \/ RunWriteComplete
              \/ RunDestroyed

LoopStep == \/ Poll
            \/ EndCallback
            \/ HandleRead
            \/ HandleWrite
            \/ BeginFunctors
            \/ RunFunctor
            \/ EndFunctors

ThreadStep(th) == ShutdownSet(th) \/ QueueInLoop(th)

Running == failed = "none"

Next ==
  /\ Running
  /\ \/ LoopStep
     \/ CallbackShutdown
     \/ \E m \in Msg : CallbackSend(m)
     \/ \E th \in Thread : \/ \E m \in Msg : SendTest(th, m)
                           \/ ShutdownTest(th)
                           \/ ThreadStep(th)
                           \/ Release(th)
     \/ RemoveConnectionInLoop
     \/ ServerDtor
     \/ Dtor
     \/ alive /\ (PeerSends \/ PeerReads \/ PeerFin \/ PeerRst)

Spec == Init /\ [][Next]_vars

\* Threads are scheduled, callbacks return, pointers are let go in the end, and
\* the peer takes what it is sent.
Fairness ==
  /\ WF_vars(Running /\ LoopStep)
  /\ WF_vars(Running /\ RemoveConnectionInLoop)
  /\ WF_vars(Running /\ Dtor)
  /\ \A th \in Thread : /\ WF_vars(Running /\ ThreadStep(th))
                        /\ WF_vars(Running /\ Release(th))
  /\ WF_vars(Running /\ alive /\ PeerReads)

FairSpec == Spec /\ Fairness

-----------------------------------------------------------------------------
(* Correctness.                                                             *)

TypeOK ==
  /\ pc \in {"poll", "events", "functors"}
  /\ revents_ \subseteq {"read", "write"}
  /\ queue \in Seq(Functor)
  /\ batch \in 0 .. Len(queue)
  /\ ran \in BOOLEAN /\ inCallback \in BOOLEAN
  /\ state_ \in State
  /\ events_ \subseteq {"read", "write"}
  /\ slot \in {"none", "watched", "muted", "removed"}
  /\ mask \subseteq {"read", "write"}
  /\ outputBuffer_ \in Seq(Msg \X Nat) /\ wire \in Seq(Msg \X Nat)
  /\ inFlight \in 0 .. Room
  /\ finSent \in BOOLEAN
  /\ peer \in {"open", "fin", "rst", "reported"}
  /\ inbox \in BOOLEAN
  /\ inMap \in BOOLEAN /\ removing \in BOOLEAN
  /\ serverAlive \in BOOLEAN /\ alive \in BOOLEAN
  /\ call \in [Thread -> Call]
  /\ holders \subseteq Thread
  /\ unsent \subseteq Msg
  /\ accepted \in Seq(Msg)
  /\ failed \in {"none", "send", "update", "remove", "retrieve", "handleClose",
                 "erase", "dangling", "dtor"}

\* The bytes of a sequence of messages.
Stream(msgs) ==
  LET bytes[n \in 0 .. Len(msgs)] ==
        IF n = 0 THEN << >> ELSE bytes[n - 1] \o Bytes(msgs[n])
  IN bytes[Len(msgs)]

\* The peer gets the messages whole and in the order in which the loop took
\* them: what was written and what is buffered is their bytes, however the
\* writes were cut and whoever sent meanwhile.
StreamIsInOrder == wire \o outputBuffer_ = Stream(accepted)

\* As long as the connection is open, bytes are buffered exactly while the
\* channel waits for the socket to be writable, and the poller polls for it.
BufferedMeansWriting ==
  /\ TypeOK
  /\ slot = "watched" => /\ isWriting <=> outputBuffer_ # << >>
                         /\ isWriting => "write" \in mask

\* shutdown does not cut off what is buffered: the FIN of an open connection
\* comes after its last buffered byte.
FinAfterBuffer == finSent /\ slot = "watched" => outputBuffer_ = << >>

\* A connection closes once.  The assertion of removeConnectionInLoop never
\* fails; that of handleClose only if a handler before it destructed the server,
\* and that closed the connection; and that of the destructor only if a shutdown,
\* which had tested the state before the connection closed, set it to
\* kDisconnecting again.
ClosesOnce ==
  /\ failed # "erase"
  /\ failed = "handleClose" => ~serverAlive /\ slot = "removed"
  /\ failed = "dtor" => state_ = "disconnecting" /\ slot = "removed"

\* The poller never keeps a pointer to a channel that was destructed with its
\* connection.
DestructedAfterRemoval == ~alive => slot = "removed"

Closing == slot \in {"muted", "removed"}

\* Buffered bytes are written or the connection closes.
BufferDrains ==
  (outputBuffer_ # << >>) ~> (outputBuffer_ = << >> \/ Closing \/ ~Running)

\* shutdown sends the FIN in the end, now or when the buffer has drained.
ShutdownSendsFin ==
  (state_ = "disconnecting") ~> (finSent \/ Closing \/ ~Running)

\* A connection that closed is destructed in the end.
ClosedIsDestructed == (state_ = "disconnected") ~> (~alive \/ ~Running)

-----------------------------------------------------------------------------
(* What assertions and comments of the code say and the code does not do.   *)

\* sendInLoop asserts that ::write does not fail, and handleWrite retrieves -1
\* bytes from the buffer if it does, which asserts that it holds as many.  But
\* EventLoop.cc ignores SIGPIPE "to avoid exiting progress unexpectedly": a slow
\* peer, or one that is gone, should not end the program.
WriteErrorsAreSurvived == failed \notin {"send", "retrieve"}
=============================================================================
