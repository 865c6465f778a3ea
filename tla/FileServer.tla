----------------------------- MODULE FileServer -----------------------------
(***************************************************************************)
(* The five servers of testCase that send a file to whoever connects.      *)
(* download and download_myself send it whole; download2, download2_myself  *)
(* and download3_myself send the next chunk when the last one is written.   *)
(* Of these the first two keep a plain FILE pointer in the context of the   *)
(* connection and the third a shared one.                                   *)
(*                                                                          *)
(* muduo's TcpConnection is external: its loop writes what the socket takes,*)
(* buffers the rest, calls onWriteComplete through a functor when all is    *)
(* written, and sends a FIN after the buffer.  There is one loop, which runs*)
(* the functors of its handlers in the same iteration, those of functors in *)
(* the next.  A file is so many bytes, and which they are follows from how  *)
(* many went before.                                                        *)
(***************************************************************************)
EXTENDS Naturals

CONSTANTS MaxSize,  \* bound: the bytes of the longest file
          BUF_SIZE, \* the bytes of a chunk
          Room      \* the bytes that the system's send buffer holds

ASSUME SizesAssumption ==
  MaxSize \in Nat /\ BUF_SIZE \in Nat \ {0} /\ Room \in Nat \ {0}

Whole   == {"download", "download_myself"}
Plain   == {"download2", "download2_myself"}
Chunked == Plain \cup {"download3_myself"}

VARIABLES
  program, size,  \* the server that runs and the bytes of its file,
  opens,          \* which fopen may not find
  file,           \* the FILE of this connection: "none", "open" or "closed"
  left,           \* the bytes of it not read yet
  readError,      \* fread failed, which looks like the end of the file
  context,        \* of the connection: "empty", "file" or a "null" pointer
  state_,         \* of the connection
  outputBuffer_,  \* how many bytes it holds
  inFlight,       \* and how many the system's send buffer
  received,       \* the bytes that the peer has taken
  fin,            \* the stream was shut down
  writeComplete,  \* the functor: "none", due "now", or after the "next" poll
  peer,           \* "open" or "gone"
  failed          \* a FILE was used that is "null" or "closed", closed again by the
                  \* onWriteComplete that read it ("reclosed"), or closed "twice"

choice     == << program, size, opens >>
source     == << file, left, readError, context >>
connection == << state_, outputBuffer_, inFlight, fin, writeComplete >>
vars == << choice, source, connection, received, peer, failed >>

Init ==
  /\ program \in Whole \cup Chunked /\ size \in 0 .. MaxSize /\ opens \in BOOLEAN
  /\ file = "none" /\ left = size /\ readError = FALSE /\ context = "empty"
  /\ state_ = "connecting" /\ outputBuffer_ = 0 /\ inFlight = 0 /\ received = 0
  /\ fin = FALSE /\ writeComplete = "none" /\ peer = "open" /\ failed = "none"

Smaller(m, n) == IF m < n THEN m ELSE n

-----------------------------------------------------------------------------
(* The connection.                                                          *)

Written(n) == IF outputBuffer_ = 0 THEN Smaller(n, Room - inFlight) ELSE 0

\* send of n bytes by the loop thread, whose onWriteComplete is then due now or
\* after the next poll.  A write to a peer that is gone fails and
\* the bytes are dropped; nothing is sent once the connection is closing.
Send(n, due) ==
  IF state_ \in {"connecting", "connected"} /\ peer = "open"
  THEN /\ inFlight' = inFlight + Written(n)
       /\ outputBuffer_' = outputBuffer_ + n - Written(n)
       /\ writeComplete' = IF program \in Chunked /\ Written(n) = n
                           THEN due ELSE "none"
  ELSE /\ writeComplete' = "none"
       /\ UNCHANGED << inFlight, outputBuffer_ >>

\* shutdown, after what was sent in this step.
Shutdown ==
  IF state_ \in {"connecting", "connected"}
  THEN state_' = "disconnecting" /\ fin' = (outputBuffer_' = 0)
  ELSE UNCHANGED << state_, fin >>

HandleWrite ==
  /\ peer = "open" /\ outputBuffer_ > 0 /\ inFlight < Room
  /\ LET n == Smaller(outputBuffer_, Room - inFlight)
     IN /\ outputBuffer_' = outputBuffer_ - n
        /\ inFlight' = inFlight + n
        /\ writeComplete' = IF n = outputBuffer_ /\ program \in Chunked
                            THEN "now" ELSE "none"
        /\ fin' = (n = outputBuffer_ /\ state_ = "disconnecting")
  /\ UNCHANGED << choice, source, state_, received, peer, failed >>

-----------------------------------------------------------------------------
(* Reading.                                                                 *)

ReadWhole(n, after) ==
  /\ n \in IF opens THEN 0 .. left ELSE {0}
  /\ file' = IF opens THEN after ELSE "none"
  /\ left' = left - n
  /\ readError' = (opens /\ n < left)

\* n bytes are read before fread returns 0; the second does not close the file.
readFile(n)  == ReadWhole(n, "closed")
reaf_file(n) == ReadWhole(n, "open")

\* Faulty: the buffer is as large as the file.
ReadAll == left

\* What one fread gives.
ReadSize == Smaller(BUF_SIZE, left)

Fread(n) == /\ n = ReadSize \/ n = 0
            /\ left' = left - n
            /\ readError' = (readError \/ n < ReadSize)

-----------------------------------------------------------------------------
(* onConnection of a new connection, which the acceptor's handler calls.    *)

SendAndShutdown(n) ==
  /\ Send(n, "now")
  /\ Shutdown
  /\ UNCHANGED << choice, context, received, peer, failed >>

Download ==
  /\ program = "download" /\ state_ = "connecting"
  /\ \E n \in 0 .. size : readFile(n) /\ SendAndShutdown(n)

DownloadMyself ==
  /\ program = "download_myself" /\ state_ = "connecting"
  /\ \E n \in 0 .. size : reaf_file(n) /\ SendAndShutdown(n)

FirstChunk ==
  /\ opens
  /\ file' = "open" /\ context' = "file"
  /\ \E n \in 0 .. left : Fread(n) /\ Send(n, "now")
  /\ state_' = "connected"
  /\ UNCHANGED << choice, fin, received, peer, failed >>

NoSuchFile ==
  /\ ~opens
  /\ UNCHANGED << choice, source, outputBuffer_, inFlight, writeComplete,
                  received, peer >>
  /\ Shutdown

Download2 ==
  /\ program = "download2" /\ state_ = "connecting"
  /\ FirstChunk \/ (NoSuchFile /\ UNCHANGED failed)

Download2Myself ==
  /\ program = "download2_myself" /\ state_ = "connecting"
  /\ FirstChunk \/ (NoSuchFile /\ UNCHANGED failed)

\* Without a file it goes on and reads from a null pointer.
Download3Myself ==
  /\ program = "download3_myself" /\ state_ = "connecting"
  /\ FirstChunk \/ (NoSuchFile /\ failed' = "null")

-----------------------------------------------------------------------------
(* onWriteComplete.                                                         *)

\* The next chunk is sent, or Finish follows the last.
NextChunk(Finish) ==
  /\ \E n \in 0 .. left :
       /\ Fread(n)
       /\ IF n > 0
          THEN Send(n, "next") /\ UNCHANGED << file, context, state_, fin >>
          ELSE /\ writeComplete' = "none"
               /\ UNCHANGED << outputBuffer_, inFlight >>
               /\ Finish
  /\ UNCHANGED << choice, received, peer, failed >>

\* A FILE that handleClose closed is read, which is undefined: the program ends
\* there, or fread gives bytes, which nobody sends any more, or 0, upon which the
\* FILE is closed a second time.
ReadClosed ==
  /\ failed' \in {"closed", "reclosed", failed} /\ writeComplete' = "none"
  /\ UNCHANGED << choice, source, state_, outputBuffer_, inFlight, fin, received,
                  peer >>

\* Faulty: the stream is not shut down.
CloseWithoutShutdown ==
  /\ file' = "closed" /\ context' = "null"
  /\ UNCHANGED << state_, fin >>

\* Faulty: the context still has the pointer.
CloseKeepingPointer ==
  /\ file' = "closed" /\ UNCHANGED context
  /\ Shutdown

CloseAndShutdown ==
  /\ file' = "closed" /\ context' = "null"
  /\ Shutdown

Download2WriteComplete ==
  /\ program = "download2" /\ writeComplete # "none"
  /\ IF file = "closed" THEN ReadClosed ELSE NextChunk(CloseAndShutdown)

\* Its test for a null pointer is never taken: no chunk is sent after the last.
Download2MyselfWriteComplete ==
  /\ program = "download2_myself" /\ writeComplete # "none"
  /\ IF file = "closed" THEN ReadClosed ELSE NextChunk(CloseAndShutdown)

\* A shared pointer keeps the file open.
Download3MyselfWriteComplete ==
  /\ program = "download3_myself" /\ writeComplete # "none"
  /\ NextChunk(Shutdown /\ UNCHANGED << file, context >>)

-----------------------------------------------------------------------------
(* handleClose, with onConnection of the closed connection.                 *)

HandleClose ==
  /\ peer = "gone" /\ state_ \in {"connected", "disconnecting"}
  /\ writeComplete # "now"
  /\ state_' = "disconnected" /\ outputBuffer_' = 0
  /\ UNCHANGED << choice, left, readError, context, inFlight, fin,
                  writeComplete, received, peer >>

\* The pointer stays in the context.
CloseFile ==
  IF context = "file"
  THEN /\ failed' = IF file = "closed" THEN "twice" ELSE failed
       /\ file' = "closed"
  ELSE UNCHANGED << file, failed >>

Download2Down == program = "download2" /\ HandleClose /\ CloseFile

Download2MyselfDown == program = "download2_myself" /\ HandleClose /\ CloseFile

OtherDown == program \notin Plain /\ HandleClose /\ UNCHANGED << file, failed >>

\* The connection is destructed, and its context with a shared pointer.
Destruct ==
  /\ state_ = "disconnected" /\ writeComplete = "none"
  /\ state_' = "gone"
  /\ file' = IF program = "download3_myself" /\ context = "file"
             THEN "closed" ELSE file
  /\ UNCHANGED << choice, left, readError, context, outputBuffer_, inFlight,
                  fin, writeComplete, received, peer, failed >>

-----------------------------------------------------------------------------
PeerTakes ==
  /\ peer = "open" /\ inFlight > 0
  /\ inFlight' = inFlight - 1 /\ received' = received + 1
  /\ UNCHANGED << choice, source, state_, outputBuffer_, fin, writeComplete,
                  peer, failed >>

\* It closes or resets the connection, before or after the FIN.
PeerLeaves ==
  /\ peer = "open"
  /\ peer' = "gone"
  /\ UNCHANGED << choice, source, connection, received, failed >>

LoopStep ==
  \/ Download \/ DownloadMyself \/ Download2 \/ Download2Myself \/ Download3Myself
  \/ HandleWrite
  \/ Download2WriteComplete \/ Download2MyselfWriteComplete
  \/ Download3MyselfWriteComplete
  \/ Download2Down \/ Download2MyselfDown \/ OtherDown
  \/ Destruct

Running == failed = "none"

Next == Running /\ (LoopStep \/ PeerTakes \/ PeerLeaves)

Spec == Init /\ [][Next]_vars

\* The loop thread is scheduled and the peer takes what it is sent.
FairSpec == /\ Spec
            /\ WF_vars(Running /\ LoopStep)
            /\ WF_vars(Running /\ PeerTakes)

-----------------------------------------------------------------------------
(* Correctness.                                                             *)

TypeOK ==
  /\ file \in {"none", "open", "closed"} /\ context \in {"empty", "file", "null"}
  /\ left \in 0 .. size /\ outputBuffer_ \in 0 .. size /\ inFlight \in 0 .. Room
  /\ received \in 0 .. size
  /\ readError \in BOOLEAN /\ fin \in BOOLEAN
  /\ state_ \in {"connecting", "connected", "disconnecting", "disconnected", "gone"}
  /\ writeComplete \in {"none", "now", "next"} /\ peer \in {"open", "gone"}
  /\ failed \in {"none", "null", "closed", "reclosed", "twice"}

\* The servers that send chunks never hold more than one of them, however slow
\* the peer is: the high water mark of kBufSize + 1 is never reached.
OneChunkAtATime == TypeOK /\ (program \in Chunked => outputBuffer_ <= BUF_SIZE)

\* A file is closed by the time its connection is gone, except by download_myself,
\* which never closes it, and handleClose does not close a closed one.  But a
\* closed one is used in one case: an onWriteComplete that was queued before
\* handleClose closed it has a plain pointer to it, which it reads, and closes
\* again if that gives 0.
FileIsReleased ==
  /\ failed # "twice"
  /\ failed \in {"closed", "reclosed"} => /\ program \in Plain
                                         /\ state_ = "disconnected"
  /\ state_ = "gone" /\ program # "download_myself" => file # "open"

\* The peer gets the whole file and then the FIN, whatever the chunks and the
\* pieces in which the socket takes them, unless it leaves or fread fails.
FileArrives ==
  (state_ = "connecting") ~>
    \/ fin /\ received = IF opens THEN size ELSE 0
    \/ peer = "gone" \/ readError \/ ~Running
=============================================================================
