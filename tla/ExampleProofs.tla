--------------------------- MODULE ExampleProofs ---------------------------
(***************************************************************************)
(* Proofs about three of the examples, which share nothing.  FileServer,    *)
(* for files, chunks and send buffers of any size: a server that sends      *)
(* chunks buffers one at a time, and FILEs are closed.  TimeWheel:          *)
(* idle connections are shut down and active ones are not.  Monitors: what  *)
(* a thread traverses does not change.  Inv, WheelInv and SharedInv are     *)
(* their inductive invariants; for each group of actions a lemma says that  *)
(* it keeps them.                                                           *)
(***************************************************************************)
EXTENDS FileServer, TimeWheel, Monitors, TLAPS

-----------------------------------------------------------------------------
(* The file servers.                                                        *)

\* What ran when the program was started.
ChoiceOK ==
  program \in Whole \cup Chunked /\ size \in 0 .. MaxSize /\ opens \in BOOLEAN

\* No byte of the file is in two places.
NothingDoubled == left + outputBuffer_ + inFlight + received <= size

\* onWriteComplete is due only when all has been written.
CompleteMeansWritten == writeComplete # "none" => outputBuffer_ = 0

\* Before onConnection nothing has been read or sent.
NotBegun ==
  state_ = "connecting" =>
    outputBuffer_ = 0 /\ inFlight = 0 /\ received = 0 /\ writeComplete = "none"
      /\ left = size /\ file = "none" /\ context = "empty"

\* A closed connection has nothing to write, a destructed one no functor either.
Ended ==
  /\ state_ \in {"disconnected", "gone"} => outputBuffer_ = 0
  /\ state_ = "gone" => writeComplete = "none"

\* The context has the pointer of an open file, and a plain pointer of a closed
\* one only after the connection is down.
OpenIsInContext ==
  /\ program \in Chunked /\ file = "open" => context = "file"
  /\ program \in Plain /\ context = "file" /\ state_ \in {"connected", "disconnecting"}
       => file = "open"
  /\ program \in Plain /\ state_ \in {"disconnected", "gone"} => file # "open"
  /\ program = "download" => file # "open"
  /\ state_ = "gone" /\ program # "download_myself" => file # "open"

\* A chunk is the last one if its file is closed, unless the peer has left.
ClosedIsLast ==
  program \in Plain /\ file = "closed" /\ state_ # "disconnected" =>
    writeComplete = "none" /\ outputBuffer_ = 0

Inv ==
  /\ ChoiceOK /\ TypeOK /\ NothingDoubled /\ CompleteMeansWritten /\ NotBegun /\ Ended
  /\ OpenIsInContext /\ ClosedIsLast /\ OneChunkAtATime /\ FileIsReleased

-----------------------------------------------------------------------------
\* What a send leaves behind, when the buffer was empty.
LEMMA SendFacts ==
  ASSUME Inv, outputBuffer_ = 0, NEW n \in 0 .. left, left' = left - n,
         NEW due \in {"now", "next"}, Send(n, due),
         UNCHANGED << choice, received >>
  PROVE  /\ outputBuffer_' \in 0 .. size /\ inFlight' \in 0 .. Room
         /\ outputBuffer_' <= n
         /\ NothingDoubled' /\ CompleteMeansWritten'
         /\ writeComplete' \in {"none", "now", "next"}
<1> USE SizesAssumption
<1>1. /\ left \in Nat /\ size \in Nat /\ received \in Nat /\ inFlight \in 0 .. Room
      /\ n \in Nat /\ n <= left /\ left <= size /\ left + inFlight + received <= size
  BY DEF Inv, ChoiceOK, TypeOK, NothingDoubled
<1>2. size' = size /\ received' = received
  BY DEF choice
<1>3. CASE state_ \in {"connecting", "connected"} /\ peer = "open"
  <2>1. /\ Written(n) \in Nat /\ Written(n) <= n /\ Written(n) <= Room - inFlight
        /\ n <= Room - inFlight => Written(n) = n
    BY <1>1 DEF Written, Smaller
  <2>2. /\ inFlight' = inFlight + Written(n)
        /\ outputBuffer_' = n - Written(n)
        /\ writeComplete' = IF program \in Chunked /\ Written(n) = n
                            THEN due ELSE "none"
    BY <1>1, <1>3, <2>1 DEF Send
  <2> QED
    BY <1>1, <1>2, <2>1, <2>2 DEF NothingDoubled, CompleteMeansWritten
<1>4. CASE ~(state_ \in {"connecting", "connected"} /\ peer = "open")
  <2>1. writeComplete' = "none" /\ inFlight' = inFlight /\ outputBuffer_' = 0
    BY <1>4 DEF Send
  <2> QED
    BY <1>1, <1>2, <2>1 DEF NothingDoubled, CompleteMeansWritten
<1> QED
  BY <1>3, <1>4

\* A chunk is no longer than the buffer that it is read into.
LEMMA FreadFacts ==
  ASSUME Inv, NEW n \in 0 .. left, Fread(n)
  PROVE  left' = left - n /\ n <= BUF_SIZE /\ readError' \in BOOLEAN
<1> USE SizesAssumption
<1>1. left \in Nat /\ n \in Nat
  BY DEF Inv, ChoiceOK, TypeOK
<1>2. left' = left - n /\ n <= BUF_SIZE
  BY <1>1 DEF Fread, ReadSize, Smaller
<1>3. readError' \in BOOLEAN
  BY DEF Fread, Inv, TypeOK
<1> QED
  BY <1>2, <1>3

-----------------------------------------------------------------------------
\* The whole file is sent as the connection comes up.
LEMMA WholeKeepsInv ==
  ASSUME Inv, Running, Download \/ DownloadMyself
  PROVE  Inv'
<1> USE SizesAssumption
<1>1. /\ program \in Whole /\ state_ = "connecting"
      /\ UNCHANGED << choice, context, received, peer, failed >>
  BY DEF Download, DownloadMyself, SendAndShutdown, Whole
<1>2. outputBuffer_ = 0 /\ left = size /\ context = "empty" /\ failed = "none"
  BY <1>1 DEF Inv, NotBegun, Running
<1>3. program \notin Chunked
  BY <1>1 DEF Whole, Chunked, Plain
<1>4. PICK n \in 0 .. left :
        /\ left' = left - n /\ Send(n, "now") /\ Shutdown
        /\ readError' = (opens /\ n < left)
        /\ file' \in {"none", "open", "closed"}
        /\ program = "download" => file' # "open"
  BY <1>2 DEF Download, DownloadMyself, SendAndShutdown, readFile, reaf_file, ReadWhole
<1>5. /\ outputBuffer_' \in 0 .. size /\ inFlight' \in 0 .. Room
      /\ NothingDoubled' /\ CompleteMeansWritten'
      /\ writeComplete' \in {"none", "now", "next"}
  BY <1>1, <1>2, <1>4, SendFacts
<1>6. state_' = "disconnecting" /\ fin' \in BOOLEAN
  BY <1>1, <1>4 DEF Shutdown
<1>7. /\ program' = program /\ size' = size /\ opens' = opens
      /\ context' = context /\ received' = received /\ peer' = peer /\ failed' = failed
  BY <1>1 DEF choice
<1>8. ChoiceOK'
  BY <1>7 DEF Inv, ChoiceOK
<1>9. readError' \in BOOLEAN
  BY <1>4
<1>10. left' \in 0 .. size
  BY <1>4 DEF Inv, ChoiceOK, TypeOK
<1>11. TypeOK'
  BY <1>4, <1>5, <1>6, <1>7, <1>9, <1>10 DEF Inv, TypeOK
<1>12. NotBegun' /\ Ended'
  BY <1>6 DEF NotBegun, Ended
<1>13. OpenIsInContext' /\ ClosedIsLast'
  BY <1>1, <1>3, <1>4, <1>6, <1>7 DEF OpenIsInContext, ClosedIsLast, Chunked, Whole
<1>14. OneChunkAtATime' /\ FileIsReleased'
  BY <1>2, <1>3, <1>6, <1>7, <1>11 DEF OneChunkAtATime, FileIsReleased
<1> QED
  BY <1>5, <1>8, <1>11, <1>12, <1>13, <1>14 DEF Inv

-----------------------------------------------------------------------------
\* The first chunk goes as the connection comes up, unless there is no file.
LEMMA FirstChunkKeepsInv ==
  ASSUME Inv, Running, program \in Chunked, state_ = "connecting", FirstChunk
  PROVE  Inv'
<1> USE SizesAssumption
<1>1. /\ program' = program /\ size' = size /\ opens' = opens /\ fin' = fin
      /\ received' = received /\ peer' = peer /\ failed' = failed
      /\ file' = "open" /\ context' = "file" /\ state_' = "connected"
  BY DEF FirstChunk, choice
<1>2. outputBuffer_ = 0 /\ left = size /\ failed = "none" /\ program # "download"
  BY DEF Inv, NotBegun, Running, Chunked, Plain
<1>3. PICK n \in 0 .. left : Fread(n) /\ Send(n, "now")
  BY DEF FirstChunk
<1>4. left' = left - n /\ n <= BUF_SIZE /\ readError' \in BOOLEAN
  BY <1>3, FreadFacts
<1>5. /\ outputBuffer_' \in 0 .. size /\ inFlight' \in 0 .. Room
      /\ outputBuffer_' <= n
      /\ NothingDoubled' /\ CompleteMeansWritten'
      /\ writeComplete' \in {"none", "now", "next"}
  BY <1>1, <1>2, <1>3, <1>4, SendFacts DEF choice
<1>6. ChoiceOK'
  BY <1>1 DEF Inv, ChoiceOK
<1>7. readError' \in BOOLEAN
  BY <1>4
<1>8. fin' \in BOOLEAN
  BY <1>1 DEF Inv, TypeOK
<1>9. left' \in 0 .. size
  BY <1>4 DEF Inv, ChoiceOK, TypeOK
<1>10. TypeOK'
  BY <1>1, <1>5, <1>7, <1>8, <1>9 DEF Inv, TypeOK
<1>11. NotBegun' /\ Ended'
  BY <1>1 DEF NotBegun, Ended
<1>12. OpenIsInContext' /\ ClosedIsLast'
  BY <1>1, <1>2 DEF OpenIsInContext, ClosedIsLast
<1>13. outputBuffer_' <= BUF_SIZE
  <2>1. n \in Nat /\ outputBuffer_' \in Nat
    BY <1>5 DEF Inv, ChoiceOK
  <2> QED
    BY <1>4, <1>5, <2>1
<1>14. OneChunkAtATime' /\ FileIsReleased'
  BY <1>1, <1>2, <1>10, <1>13 DEF OneChunkAtATime, FileIsReleased
<1> QED
  BY <1>5, <1>6, <1>10, <1>11, <1>12, <1>14 DEF Inv

LEMMA NoSuchFileKeepsInv ==
  ASSUME Inv, Running, program \in Chunked, state_ = "connecting", NoSuchFile,
         failed' \in {"none", "null"}
  PROVE  Inv'
<1> USE SizesAssumption
<1>1. /\ program' = program /\ size' = size /\ opens' = opens
      /\ received' = received /\ peer' = peer
      /\ file' = file /\ left' = left /\ readError' = readError /\ context' = context
      /\ outputBuffer_' = outputBuffer_ /\ inFlight' = inFlight
      /\ writeComplete' = writeComplete
  BY DEF NoSuchFile, choice, source
<1>2. /\ outputBuffer_ = 0 /\ writeComplete = "none" /\ file = "none"
      /\ context = "empty" /\ program # "download"
  BY DEF Inv, NotBegun, Chunked, Plain
<1>3. state_' = "disconnecting" /\ fin' \in BOOLEAN
  BY DEF NoSuchFile, Shutdown
<1>4. ChoiceOK' /\ NothingDoubled' /\ CompleteMeansWritten'
  BY <1>1 DEF Inv, ChoiceOK, NothingDoubled, CompleteMeansWritten
<1>5. failed' \in {"none", "null", "closed", "reclosed", "twice"}
  OBVIOUS
<1>6. readError' \in BOOLEAN
  BY <1>1 DEF Inv, TypeOK
<1>7. TypeOK'
  BY <1>1, <1>3, <1>5, <1>6 DEF Inv, TypeOK
<1>8. NotBegun' /\ Ended'
  BY <1>3 DEF NotBegun, Ended
<1>9. OpenIsInContext' /\ ClosedIsLast'
  BY <1>1, <1>2, <1>3 DEF OpenIsInContext, ClosedIsLast
<1>10. OneChunkAtATime' /\ FileIsReleased'
  BY <1>1, <1>2, <1>3, <1>7 DEF OneChunkAtATime, FileIsReleased
<1> QED
  BY <1>4, <1>7, <1>8, <1>9, <1>10 DEF Inv

LEMMA ConnectionKeepsInv ==
  ASSUME Inv, Running, Download2 \/ Download2Myself \/ Download3Myself
  PROVE  Inv'
<1>1. program \in Chunked /\ state_ = "connecting"
  BY DEF Download2, Download2Myself, Download3Myself, Chunked, Plain
<1>2. FirstChunk \/ (NoSuchFile /\ failed' \in {"none", "null"})
  BY DEF Download2, Download2Myself, Download3Myself, Running
<1> QED
  BY <1>1, <1>2, FirstChunkKeepsInv, NoSuchFileKeepsInv

-----------------------------------------------------------------------------
\* onWriteComplete sends a chunk into an empty buffer, or closes the file.
LEMMA ReadClosedKeepsInv ==
  ASSUME Inv, Running, program \in Plain, writeComplete # "none", file = "closed",
         ReadClosed
  PROVE  Inv'
<1> USE SizesAssumption
<1>1. /\ program' = program /\ size' = size /\ opens' = opens
      /\ received' = received /\ peer' = peer /\ state_' = state_
      /\ file' = file /\ left' = left /\ readError' = readError /\ context' = context
      /\ outputBuffer_' = outputBuffer_ /\ inFlight' = inFlight /\ fin' = fin
      /\ writeComplete' = "none" /\ failed' \in {"none", "closed", "reclosed"}
  BY DEF ReadClosed, Running, choice, source
<1>2. state_ = "disconnected" /\ outputBuffer_ = 0
  BY DEF Inv, ClosedIsLast, CompleteMeansWritten
<1>3. ChoiceOK' /\ NothingDoubled' /\ CompleteMeansWritten'
  BY <1>1 DEF Inv, ChoiceOK, NothingDoubled, CompleteMeansWritten
<1>4. readError' \in BOOLEAN /\ fin' \in BOOLEAN
  BY <1>1 DEF Inv, TypeOK
<1>5. TypeOK'
  BY <1>1, <1>4 DEF Inv, TypeOK
<1>6. NotBegun' /\ Ended'
  BY <1>1, <1>2 DEF NotBegun, Ended
<1>7. OpenIsInContext' /\ ClosedIsLast'
  BY <1>1, <1>2 DEF Inv, OpenIsInContext, ClosedIsLast
<1>8. OneChunkAtATime' /\ FileIsReleased'
  BY <1>1, <1>2, <1>5 DEF Inv, OneChunkAtATime, FileIsReleased
<1> QED
  BY <1>3, <1>5, <1>6, <1>7, <1>8 DEF Inv

LEMMA AnotherChunkKeepsInv ==
  ASSUME Inv, Running, program \in Chunked, writeComplete # "none",
         program \in Plain => file # "closed",
         NEW n \in 0 .. left, Fread(n), Send(n, "next"),
         UNCHANGED << choice, file, context, state_, fin, received, peer, failed >>
  PROVE  Inv'
<1> USE SizesAssumption
<1>1. /\ program' = program /\ size' = size /\ opens' = opens /\ fin' = fin
      /\ received' = received /\ peer' = peer /\ failed' = failed
      /\ file' = file /\ context' = context /\ state_' = state_
  BY DEF choice
<1>2. /\ outputBuffer_ = 0 /\ failed = "none" /\ state_ # "connecting" /\ state_ # "gone"
  BY DEF Inv, CompleteMeansWritten, NotBegun, Ended, Running
<1>3. left' = left - n /\ n <= BUF_SIZE /\ readError' \in BOOLEAN
  BY FreadFacts
<1>4. /\ outputBuffer_' \in 0 .. size /\ inFlight' \in 0 .. Room
      /\ outputBuffer_' <= n
      /\ NothingDoubled' /\ CompleteMeansWritten'
      /\ writeComplete' \in {"none", "now", "next"}
  BY <1>1, <1>2, <1>3, SendFacts DEF choice
<1>5. ChoiceOK'
  BY <1>1 DEF Inv, ChoiceOK
<1>6. readError' \in BOOLEAN
  BY <1>3
<1>7. fin' \in BOOLEAN
  BY <1>1 DEF Inv, TypeOK
<1>8. left' \in 0 .. size
  BY <1>3 DEF Inv, ChoiceOK, TypeOK
<1>9. TypeOK'
  BY <1>1, <1>4, <1>6, <1>7, <1>8 DEF Inv, TypeOK
<1>10. NotBegun'
  BY <1>1, <1>2 DEF NotBegun
<1>11. Ended'
  <2>1. state_ = "disconnected" => outputBuffer_' = outputBuffer_
    BY DEF Send
  <2> QED
    BY <1>1, <1>2, <2>1 DEF Ended
<1>12. OpenIsInContext' /\ ClosedIsLast'
  BY <1>1, <1>2 DEF Inv, OpenIsInContext, ClosedIsLast
<1>13. outputBuffer_' <= BUF_SIZE
  <2>1. n \in Nat /\ outputBuffer_' \in Nat
    BY <1>4 DEF Inv, ChoiceOK
  <2> QED
    BY <1>3, <1>4, <2>1
<1>14. OneChunkAtATime' /\ FileIsReleased'
  BY <1>1, <1>2, <1>9, <1>13 DEF Inv, OneChunkAtATime, FileIsReleased
<1> QED
  BY <1>4, <1>5, <1>9, <1>10, <1>11, <1>12, <1>14 DEF Inv

LEMMA LastChunkKeepsInv ==
  ASSUME Inv, Running, program \in Chunked, writeComplete # "none",
         NEW n \in 0 .. left, Fread(n), Shutdown,
         writeComplete' = "none",
         UNCHANGED << choice, outputBuffer_, inFlight, received, peer, failed >>,
         IF program \in Plain THEN file' = "closed" /\ context' = "null"
                              ELSE UNCHANGED << file, context >>
  PROVE  Inv'
<1> USE SizesAssumption
<1>1. /\ program' = program /\ size' = size /\ opens' = opens
      /\ received' = received /\ peer' = peer /\ failed' = failed
      /\ outputBuffer_' = outputBuffer_ /\ inFlight' = inFlight
  BY DEF choice
<1>2. /\ outputBuffer_ = 0 /\ failed = "none" /\ state_ # "connecting" /\ state_ # "gone"
      /\ program # "download"
  BY DEF Inv, CompleteMeansWritten, NotBegun, Ended, Running, Chunked, Plain
<1>3. left' = left - n /\ readError' \in BOOLEAN
  BY FreadFacts
<1>4. state_' \in {"disconnecting", "disconnected"} /\ fin' \in BOOLEAN
      /\ (state_' = "disconnected" => state_ = "disconnected")
  BY <1>2 DEF Shutdown, Inv, TypeOK
<1>5. ChoiceOK' /\ CompleteMeansWritten'
  BY <1>1 DEF Inv, ChoiceOK, CompleteMeansWritten
<1>6. left' \in 0 .. size /\ NothingDoubled'
  BY <1>1, <1>3 DEF Inv, ChoiceOK, TypeOK, NothingDoubled
<1>7. file' \in {"none", "open", "closed"} /\ context' \in {"empty", "file", "null"}
  BY DEF Inv, TypeOK
<1>8. readError' \in BOOLEAN
  BY <1>3
<1>9. TypeOK'
  BY <1>1, <1>4, <1>6, <1>7, <1>8 DEF Inv, TypeOK
<1>10. NotBegun' /\ Ended'
  BY <1>1, <1>2, <1>4 DEF NotBegun, Ended
<1>11. OpenIsInContext' /\ ClosedIsLast'
  BY <1>1, <1>2, <1>4 DEF Inv, OpenIsInContext, ClosedIsLast
<1>12. OneChunkAtATime' /\ FileIsReleased'
  BY <1>1, <1>2, <1>4, <1>9 DEF Inv, OneChunkAtATime, FileIsReleased
<1> QED
  BY <1>5, <1>6, <1>9, <1>10, <1>11, <1>12 DEF Inv

LEMMA WriteCompleteKeepsInv ==
  ASSUME Inv, Running,
         \/ Download2WriteComplete \/ Download2MyselfWriteComplete
         \/ Download3MyselfWriteComplete
  PROVE  Inv'
<1>1. CASE Download2WriteComplete \/ Download2MyselfWriteComplete
  <2>1. /\ program \in Plain /\ program \in Chunked /\ writeComplete # "none"
        /\ IF file = "closed" THEN ReadClosed ELSE NextChunk(CloseAndShutdown)
    BY <1>1 DEF Download2WriteComplete, Download2MyselfWriteComplete, Plain, Chunked
  <2>2. CASE file = "closed"
    BY <2>1, <2>2, ReadClosedKeepsInv
  <2>3. CASE file # "closed"
    <3>1. PICK n \in 0 .. left :
            /\ Fread(n)
            /\ IF n > 0
               THEN Send(n, "next") /\ UNCHANGED << file, context, state_, fin >>
               ELSE /\ writeComplete' = "none"
                    /\ UNCHANGED << outputBuffer_, inFlight >>
                    /\ CloseAndShutdown
      BY <2>1, <2>3 DEF NextChunk
    <3>2. UNCHANGED << choice, received, peer, failed >>
      BY <2>1, <2>3 DEF NextChunk
    <3>3. CASE n > 0
      BY <2>1, <2>3, <3>1, <3>2, <3>3, AnotherChunkKeepsInv
    <3>4. CASE ~(n > 0)
      <4>1. /\ file' = "closed" /\ context' = "null" /\ Shutdown
            /\ writeComplete' = "none" /\ UNCHANGED << outputBuffer_, inFlight >>
        BY <3>1, <3>4 DEF CloseAndShutdown
      <4> QED
        BY <2>1, <3>1, <3>2, <4>1, LastChunkKeepsInv
    <3> QED
      BY <3>3, <3>4
  <2> QED
    BY <2>2, <2>3
<1>2. CASE Download3MyselfWriteComplete
  <2>1. program \in Chunked /\ program \notin Plain /\ writeComplete # "none"
    BY <1>2 DEF Download3MyselfWriteComplete, Chunked, Plain
  <2>2. PICK n \in 0 .. left :
          /\ Fread(n)
          /\ IF n > 0
             THEN Send(n, "next") /\ UNCHANGED << file, context, state_, fin >>
             ELSE /\ writeComplete' = "none"
                  /\ UNCHANGED << outputBuffer_, inFlight >>
                  /\ Shutdown /\ UNCHANGED << file, context >>
    BY <1>2 DEF Download3MyselfWriteComplete, NextChunk
  <2>3. UNCHANGED << choice, received, peer, failed >>
    BY <1>2 DEF Download3MyselfWriteComplete, NextChunk
  <2>4. CASE n > 0
    BY <2>1, <2>2, <2>3, <2>4, AnotherChunkKeepsInv
  <2>5. CASE ~(n > 0)
    BY <2>1, <2>2, <2>3, <2>5, LastChunkKeepsInv
  <2> QED
    BY <2>4, <2>5
<1> QED
  BY <1>1, <1>2

-----------------------------------------------------------------------------
\* The loop writes what the socket takes; the peer takes a byte.
LEMMA HandleWriteKeepsInv ==
  ASSUME Inv, Running, HandleWrite
  PROVE  Inv'
<1> USE SizesAssumption
<1>1. /\ program' = program /\ size' = size /\ opens' = opens
      /\ received' = received /\ peer' = peer /\ state_' = state_ /\ failed' = failed
      /\ file' = file /\ left' = left /\ readError' = readError /\ context' = context
  BY DEF HandleWrite, choice, source
<1>2. /\ outputBuffer_ \in Nat /\ inFlight \in Nat /\ size \in Nat /\ left \in Nat
      /\ received \in Nat /\ outputBuffer_ <= size
      /\ outputBuffer_ > 0 /\ inFlight < Room
  BY DEF HandleWrite, Inv, ChoiceOK, TypeOK
<1>3. state_ \notin {"connecting", "disconnected", "gone"} /\ failed = "none"
  BY <1>2 DEF Inv, NotBegun, Ended, Running
<1>4. PICK n \in Nat :
        /\ n = Smaller(outputBuffer_, Room - inFlight)
        /\ outputBuffer_' = outputBuffer_ - n
        /\ inFlight' = inFlight + n
        /\ writeComplete' = IF n = outputBuffer_ /\ program \in Chunked
                            THEN "now" ELSE "none"
        /\ fin' = (n = outputBuffer_ /\ state_ = "disconnecting")
  BY <1>2 DEF HandleWrite, Smaller
<1>5. n <= outputBuffer_ /\ n <= Room - inFlight
  BY <1>2, <1>4 DEF Smaller
<1>6. /\ outputBuffer_' \in 0 .. size /\ outputBuffer_' <= outputBuffer_
      /\ inFlight' \in 0 .. Room
      /\ NothingDoubled'
  BY <1>1, <1>2, <1>4, <1>5 DEF Inv, NothingDoubled
<1>7. CompleteMeansWritten' /\ writeComplete' \in {"none", "now"}
  BY <1>2, <1>4 DEF CompleteMeansWritten
<1>8. ChoiceOK'
  BY <1>1 DEF Inv, ChoiceOK
<1>9. fin' \in BOOLEAN
  BY <1>4
<1>10. readError' \in BOOLEAN
  BY <1>1 DEF Inv, TypeOK
<1>11. TypeOK'
  BY <1>1, <1>6, <1>7, <1>9, <1>10 DEF Inv, TypeOK
<1>12. NotBegun' /\ Ended'
  BY <1>1, <1>3 DEF NotBegun, Ended
<1>13. ~(program \in Plain /\ file = "closed")
  BY <1>2, <1>3 DEF Inv, ClosedIsLast
<1>14. OpenIsInContext' /\ ClosedIsLast'
  BY <1>1, <1>13 DEF Inv, OpenIsInContext, ClosedIsLast
<1>15. program \in Chunked => outputBuffer_' <= BUF_SIZE
  BY <1>2, <1>6 DEF Inv, OneChunkAtATime
<1>16. OneChunkAtATime' /\ FileIsReleased'
  BY <1>1, <1>3, <1>11, <1>15 DEF Inv, OneChunkAtATime, FileIsReleased
<1> QED
  BY <1>6, <1>7, <1>8, <1>11, <1>12, <1>14, <1>16 DEF Inv

LEMMA PeerKeepsInv ==
  ASSUME Inv, Running, PeerTakes \/ PeerLeaves
  PROVE  Inv'
<1> USE SizesAssumption
<1>1. /\ program' = program /\ size' = size /\ opens' = opens /\ failed' = failed
      /\ file' = file /\ left' = left /\ readError' = readError /\ context' = context
      /\ state_' = state_ /\ outputBuffer_' = outputBuffer_ /\ fin' = fin
      /\ writeComplete' = writeComplete
  BY DEF PeerTakes, PeerLeaves, choice, source, connection
<1>2. /\ outputBuffer_ \in Nat /\ inFlight \in Nat /\ size \in Nat /\ left \in Nat
      /\ received \in Nat
  BY DEF Inv, ChoiceOK, TypeOK
<1>3. \/ inFlight' = inFlight /\ received' = received
      \/ inFlight > 0 /\ inFlight' = inFlight - 1 /\ received' = received + 1
  BY DEF PeerTakes, PeerLeaves, connection
<1>4. /\ inFlight' \in 0 .. Room /\ received' \in 0 .. size
      /\ NothingDoubled'
  BY <1>1, <1>2, <1>3 DEF Inv, TypeOK, NothingDoubled
<1>5. peer' \in {"open", "gone"}
  BY DEF PeerTakes, PeerLeaves, Inv, TypeOK
<1>6. readError' \in BOOLEAN /\ fin' \in BOOLEAN
  BY <1>1 DEF Inv, TypeOK
<1>7. TypeOK'
  BY <1>1, <1>4, <1>5, <1>6 DEF Inv, TypeOK
<1>8. ChoiceOK' /\ CompleteMeansWritten'
  BY <1>1 DEF Inv, ChoiceOK, CompleteMeansWritten
<1>9. NotBegun' /\ Ended'
  BY <1>1, <1>2, <1>3 DEF Inv, NotBegun, Ended
<1>10. OpenIsInContext' /\ ClosedIsLast'
  BY <1>1 DEF Inv, OpenIsInContext, ClosedIsLast
<1>11. OneChunkAtATime' /\ FileIsReleased'
  BY <1>1, <1>7 DEF Inv, OneChunkAtATime, FileIsReleased
<1> QED
  BY <1>4, <1>7, <1>8, <1>9, <1>10, <1>11 DEF Inv

-----------------------------------------------------------------------------
\* The connection goes, and then its context.
LEMMA DownKeepsInv ==
  ASSUME Inv, Running, Download2Down \/ Download2MyselfDown \/ OtherDown
  PROVE  Inv'
<1> USE SizesAssumption
<1>1. HandleClose
  BY DEF Download2Down, Download2MyselfDown, OtherDown
<1>2. /\ program' = program /\ size' = size /\ opens' = opens
      /\ left' = left /\ readError' = readError /\ context' = context
      /\ inFlight' = inFlight /\ fin' = fin /\ writeComplete' = writeComplete
      /\ received' = received /\ peer' = peer
      /\ state_' = "disconnected" /\ outputBuffer_' = 0
  BY <1>1 DEF HandleClose, choice
<1>3. state_ \in {"connected", "disconnecting"} /\ failed = "none"
  BY <1>1 DEF HandleClose, Running
<1>4. IF program \in Plain THEN CloseFile ELSE UNCHANGED << file, failed >>
  BY DEF Download2Down, Download2MyselfDown, OtherDown, Plain
<1>5. failed' = "none"
  BY <1>3, <1>4 DEF CloseFile, Inv, OpenIsInContext
<1>6. program \in Plain => file' # "open"
  BY <1>4 DEF CloseFile, Inv, OpenIsInContext, Chunked
<1>7. program \notin Plain => file' = file
  BY <1>4
<1>8. ChoiceOK' /\ CompleteMeansWritten'
  BY <1>2 DEF Inv, ChoiceOK, CompleteMeansWritten
<1>9. NothingDoubled'
  BY <1>2 DEF Inv, ChoiceOK, TypeOK, NothingDoubled
<1>10. file' \in {"none", "open", "closed"}
  BY <1>4 DEF CloseFile, Inv, TypeOK
<1>11. readError' \in BOOLEAN /\ fin' \in BOOLEAN
  BY <1>2 DEF Inv, TypeOK
<1>12. outputBuffer_' \in 0 .. size
  BY <1>2 DEF Inv, ChoiceOK
<1>13. TypeOK'
  BY <1>2, <1>5, <1>10, <1>11, <1>12 DEF Inv, TypeOK
<1>14. NotBegun' /\ Ended'
  BY <1>2 DEF NotBegun, Ended
<1>15. OpenIsInContext' /\ ClosedIsLast'
  BY <1>2, <1>6, <1>7 DEF Inv, OpenIsInContext, ClosedIsLast
<1>16. OneChunkAtATime' /\ FileIsReleased'
  BY <1>2, <1>5, <1>13 DEF OneChunkAtATime, FileIsReleased
<1> QED
  BY <1>8, <1>9, <1>13, <1>14, <1>15, <1>16 DEF Inv

LEMMA DestructKeepsInv ==
  ASSUME Inv, Running, Destruct
  PROVE  Inv'
<1> USE SizesAssumption
<1>1. /\ program' = program /\ size' = size /\ opens' = opens /\ failed' = failed
      /\ left' = left /\ readError' = readError /\ context' = context
      /\ outputBuffer_' = outputBuffer_ /\ inFlight' = inFlight /\ fin' = fin
      /\ writeComplete' = writeComplete
      /\ received' = received /\ peer' = peer
      /\ state_' = "gone"
  BY DEF Destruct, choice
<1>2. /\ state_ = "disconnected" /\ writeComplete = "none" /\ outputBuffer_ = 0
      /\ failed = "none"
  BY DEF Destruct, Inv, Ended, Running
<1>3. file' = IF program = "download3_myself" /\ context = "file"
              THEN "closed" ELSE file
  BY DEF Destruct
<1>4. program # "download_myself" => file' # "open"
  <2>1. CASE program \in Plain
    BY <1>2, <1>3, <2>1 DEF Inv, OpenIsInContext, Plain
  <2>2. CASE program = "download3_myself"
    BY <1>3, <2>2 DEF Inv, OpenIsInContext, Chunked
  <2>3. CASE program = "download"
    BY <1>3, <2>3 DEF Inv, OpenIsInContext
  <2> QED
    BY <2>1, <2>2, <2>3 DEF Inv, ChoiceOK, Whole, Chunked
<1>5. file' \in {"none", "open", "closed"}
  BY <1>3 DEF Inv, TypeOK
<1>6. ChoiceOK' /\ CompleteMeansWritten' /\ NothingDoubled'
  BY <1>1 DEF Inv, ChoiceOK, CompleteMeansWritten, NothingDoubled
<1>7. readError' \in BOOLEAN /\ fin' \in BOOLEAN
  BY <1>1 DEF Inv, TypeOK
<1>8. TypeOK'
  BY <1>1, <1>5, <1>7 DEF Inv, TypeOK
<1>9. NotBegun' /\ Ended'
  BY <1>1, <1>2 DEF NotBegun, Ended
<1>10. OpenIsInContext'
  <2>1. program \in Plain \cup Chunked \cup {"download"} => file' # "open"
    BY <1>4 DEF Plain, Chunked
  <2> QED
    BY <1>1, <1>4, <2>1 DEF OpenIsInContext
<1>11. ClosedIsLast'
  BY <1>1, <1>2 DEF ClosedIsLast
<1>12. OneChunkAtATime' /\ FileIsReleased'
  BY <1>1, <1>2, <1>4, <1>8 DEF Inv, OneChunkAtATime, FileIsReleased
<1> QED
  BY <1>6, <1>8, <1>9, <1>10, <1>11, <1>12 DEF Inv

-----------------------------------------------------------------------------
LEMMA InitInv == Init => Inv
<1> SUFFICES ASSUME Init PROVE Inv
  OBVIOUS
<1> USE SizesAssumption
<1>1. ChoiceOK /\ size \in Nat
  BY DEF Init, ChoiceOK
<1>2. readError \in BOOLEAN /\ fin \in BOOLEAN
  BY DEF Init
<1>3. TypeOK
  BY <1>1, <1>2 DEF Init, TypeOK
<1>4. NothingDoubled /\ CompleteMeansWritten /\ NotBegun /\ Ended
  BY <1>1 DEF Init, NothingDoubled, CompleteMeansWritten, NotBegun, Ended
<1>5. OpenIsInContext /\ ClosedIsLast
  BY DEF Init, OpenIsInContext, ClosedIsLast
<1>6. OneChunkAtATime /\ FileIsReleased
  BY <1>3 DEF Init, OneChunkAtATime, FileIsReleased
<1> QED
  BY <1>1, <1>3, <1>4, <1>5, <1>6 DEF Inv

LEMMA NextInv == Inv /\ [Next]_vars => Inv'
<1> SUFFICES ASSUME Inv, [Next]_vars PROVE Inv'
  OBVIOUS
<1>1. CASE UNCHANGED vars
  <2>1. /\ UNCHANGED << program, size, opens, file, left, readError, context >>
        /\ UNCHANGED << state_, outputBuffer_, inFlight, fin, writeComplete >>
        /\ UNCHANGED << received, peer, failed >>
    BY <1>1 DEF vars, choice, source, connection
  <2>2. ChoiceOK' /\ NothingDoubled' /\ CompleteMeansWritten' /\ NotBegun' /\ Ended'
    BY <2>1 DEF Inv, ChoiceOK, NothingDoubled, CompleteMeansWritten, NotBegun, Ended
  <2>3. readError' \in BOOLEAN /\ fin' \in BOOLEAN
    BY <2>1 DEF Inv, TypeOK
  <2>4. TypeOK'
    BY <2>1, <2>3 DEF Inv, TypeOK
  <2>5. OpenIsInContext' /\ ClosedIsLast'
    BY <2>1 DEF Inv, OpenIsInContext, ClosedIsLast
  <2>6. OneChunkAtATime' /\ FileIsReleased'
    BY <2>1, <2>4 DEF Inv, OneChunkAtATime, FileIsReleased
  <2> QED
    BY <2>2, <2>4, <2>5, <2>6 DEF Inv
<1>2. CASE Next
  <2>1. Running
    BY <1>2 DEF Next
  <2>2. CASE Download \/ DownloadMyself
    BY <2>1, <2>2, WholeKeepsInv
  <2>3. CASE Download2 \/ Download2Myself \/ Download3Myself
    BY <2>1, <2>3, ConnectionKeepsInv
  <2>4. CASE HandleWrite
    BY <2>1, <2>4, HandleWriteKeepsInv
  <2>5. CASE \/ Download2WriteComplete \/ Download2MyselfWriteComplete
             \/ Download3MyselfWriteComplete
    BY <2>1, <2>5, WriteCompleteKeepsInv
  <2>6. CASE Download2Down \/ Download2MyselfDown \/ OtherDown
    BY <2>1, <2>6, DownKeepsInv
  <2>7. CASE Destruct
    BY <2>1, <2>7, DestructKeepsInv
  <2>8. CASE PeerTakes \/ PeerLeaves
    BY <2>1, <2>8, PeerKeepsInv
  <2> QED
    BY <1>2, <2>2, <2>3, <2>4, <2>5, <2>6, <2>7, <2>8 DEF Next, LoopStep
<1> QED
  BY <1>1, <1>2

\* In every state of a file server all parts of the inductive invariant hold.
THEOREM Invariant == Spec => []Inv
<1>1. Inv /\ [Next]_vars => Inv'
  BY NextInv
<1> QED
  BY InitInv, <1>1, PTL DEF Spec

\* However slow the peer is and however long the file, the output buffer of a
\* server that waits for onWriteComplete never holds more than one chunk.
THEOREM BufferHoldsOneChunk == Spec => []OneChunkAtATime
<1>1. Inv => OneChunkAtATime
  BY DEF Inv
<1> QED
  BY Invariant, <1>1, PTL

\* Whenever the peer leaves, no FILE outlives its connection but that of
\* download_myself, handleClose closes none that is closed, and a closed one is
\* read (and closed again) only by an onWriteComplete that a server with a plain
\* pointer had queued before the close.
THEOREM FilesAreReleased == Spec => []FileIsReleased
<1>1. Inv => FileIsReleased
  BY DEF Inv
<1> QED
  BY Invariant, <1>1, PTL

-----------------------------------------------------------------------------
(* The time wheel, for every set of connections and every capacity.         *)

\* The last message of an open connection was idle[c] ticks ago, so its Entry is
\* in the bucket that was the last one then, and in no later one.
InBucketOfLastMessage ==
  \A c \in Conn : state[c] = "connected" =>
    /\ idle[c] < Len(buckets_)
    /\ c \in buckets_[Len(buckets_) - idle[c]]
    /\ \A i \in DOMAIN buckets_ :
          i > Len(buckets_) - idle[c] => c \notin buckets_[i]

\* A connection to come has counted no ticks.
NewIsNotIdle == \A c \in Conn : state[c] = "new" => idle[c] = 0

WheelInv == WheelTypeOK /\ InBucketOfLastMessage /\ NewIsNotIdle

-----------------------------------------------------------------------------
(* The circular buffer.                                                     *)

\* A full buffer shifts its buckets by one, another keeps them; the last is new.
LEMMA PushBackSlots ==
  ASSUME NEW b \in Seq(SUBSET Conn), Len(b) <= NumBuckets
  PROVE  /\ PushBack(b) \in Seq(SUBSET Conn)
         /\ Len(PushBack(b)) \in 1..NumBuckets
         /\ PushBack(b)[Len(PushBack(b))] = {}
         /\ Len(b) < NumBuckets =>
              /\ Len(PushBack(b)) = Len(b) + 1
              /\ \A i \in 1..Len(b) : PushBack(b)[i] = b[i]
         /\ Len(b) = NumBuckets =>
              /\ Len(PushBack(b)) = NumBuckets
              /\ \A i \in 1..NumBuckets - 1 : PushBack(b)[i] = b[i + 1]
<1> USE NumBucketsAssumption
<1>1. CASE Len(b) = NumBuckets
  <2>1. b # << >> /\ Tail(b) \in Seq(SUBSET Conn) /\ Len(Tail(b)) = NumBuckets - 1
    BY <1>1
  <2>2. \A i \in 1..NumBuckets - 1 : Tail(b)[i] = b[i + 1]
    BY <1>1, <2>1
  <2>3. PushBack(b) = Append(Tail(b), {})
    BY <1>1 DEF PushBack
  <2> QED
    BY <1>1, <2>1, <2>2, <2>3
<1>2. CASE Len(b) < NumBuckets
  <2>1. PushBack(b) = Append(b, {})
    BY <1>2 DEF PushBack
  <2> QED
    BY <1>2, <2>1
<1> QED
  BY <1>1, <1>2

\* An Entry whose last message is idle[c] ticks old survives the push unless it
\* was in the first bucket of a full buffer.
LEMMA PushKeepsEntry ==
  ASSUME WheelInv, NEW c \in Conn, state[c] = "connected"
  PROVE  /\ Held(c, buckets_)
         /\ ~Held(c, PushBack(buckets_)) => idle[c] = NumBuckets - 1
         /\ Held(c, PushBack(buckets_)) =>
              /\ idle[c] + 1 < Len(PushBack(buckets_))
              /\ c \in PushBack(buckets_)[Len(PushBack(buckets_)) - (idle[c] + 1)]
              /\ \A i \in DOMAIN PushBack(buckets_) :
                    i > Len(PushBack(buckets_)) - (idle[c] + 1)
                    => c \notin PushBack(buckets_)[i]
<1> DEFINE b == buckets_
           p == PushBack(buckets_)
           n == Len(buckets_)
<1>1. /\ b \in Seq(SUBSET Conn) /\ n \in Nat /\ n <= NumBuckets
      /\ idle[c] \in Nat /\ NumBuckets \in Nat \ {0}
      /\ idle[c] < n /\ c \in b[n - idle[c]]
      /\ \A i \in 1..n : i > n - idle[c] => c \notin b[i]
  BY NumBucketsAssumption DEF WheelInv, WheelTypeOK, InBucketOfLastMessage
<1>2. /\ p \in Seq(SUBSET Conn) /\ Len(p) \in 1..NumBuckets /\ p[Len(p)] = {}
      /\ n < NumBuckets => Len(p) = n + 1 /\ \A i \in 1..n : p[i] = b[i]
      /\ n = NumBuckets =>
           Len(p) = NumBuckets /\ \A i \in 1..NumBuckets - 1 : p[i] = b[i + 1]
  BY <1>1, PushBackSlots
<1>3. DOMAIN b = 1..n /\ DOMAIN p = 1..Len(p)
  BY <1>1, <1>2
<1> HIDE DEF b, p, n
<1>4. Held(c, b)
  BY <1>1, <1>3 DEF Held
<1>5. CASE n < NumBuckets
  <2>1. c \in p[n - idle[c]] /\ n - idle[c] \in 1..n /\ Len(p) = n + 1
    BY <1>1, <1>2, <1>5
  <2>2. Held(c, p)
    BY <2>1, <1>1, <1>3 DEF Held
  <2>3. \A i \in 1..Len(p) : i > Len(p) - (idle[c] + 1) => c \notin p[i]
    <3> SUFFICES ASSUME NEW i \in 1..Len(p), i > Len(p) - (idle[c] + 1)
                 PROVE  c \notin p[i]
      OBVIOUS
    <3>1. CASE i = n + 1
      BY <3>1, <2>1, <1>2
    <3>2. CASE i \in 1..n
      BY <3>2, <2>1, <1>1, <1>2, <1>5
    <3> QED
      BY <3>1, <3>2, <2>1, <1>1
  <2>4. idle[c] + 1 < Len(p) /\ Len(p) - (idle[c] + 1) = n - idle[c]
    BY <2>1, <1>1
  <2> QED
    BY <2>1, <2>2, <2>3, <2>4, <1>3, <1>4 DEF b, p
<1>6. CASE n = NumBuckets
  <2>1. \A i \in 1..Len(p) : i > Len(p) - (idle[c] + 1) => c \notin p[i]
    <3> SUFFICES ASSUME NEW i \in 1..Len(p), i > Len(p) - (idle[c] + 1)
                 PROVE  c \notin p[i]
      OBVIOUS
    <3>1. CASE i = n
      BY <3>1, <1>2, <1>6
    <3>2. CASE i \in 1..n - 1
      <4>1. i + 1 \in 1..n /\ i + 1 > n - idle[c] /\ p[i] = b[i + 1]
        BY <3>2, <1>1, <1>2, <1>6
      <4> QED
        BY <4>1, <1>1
    <3> QED
      BY <3>1, <3>2, <1>1, <1>2, <1>6
  <2>2. CASE idle[c] = NumBuckets - 1
    <3>1. ~Held(c, p)
      BY <2>1, <2>2, <1>1, <1>2, <1>3, <1>6 DEF Held
    <3> QED
      BY <3>1, <2>2, <1>4 DEF b, p
  <2>3. CASE idle[c] < NumBuckets - 1
    <3>1. /\ n - idle[c] - 1 \in 1..NumBuckets - 1
          /\ Len(p) - (idle[c] + 1) = n - idle[c] - 1
          /\ idle[c] + 1 < Len(p)
          /\ n - idle[c] - 1 + 1 = n - idle[c]
      BY <2>3, <1>1, <1>2, <1>6
    <3>2. c \in p[n - idle[c] - 1]
      BY <3>1, <1>1, <1>2, <1>6
    <3>3. Held(c, p)
      BY <3>1, <3>2, <1>1, <1>2, <1>3, <1>6 DEF Held
    <3> QED
      BY <3>1, <3>2, <3>3, <2>1, <1>3, <1>4 DEF b, p
  <2> QED
    BY <2>2, <2>3, <1>1, <1>6
<1> QED
  BY <1>1, <1>5, <1>6

-----------------------------------------------------------------------------
(* The invariant, one lemma for each callback.                              *)

LEMMA OnTimeInv ==
  ASSUME WheelInv, OnTime
  PROVE  WheelInv'
<1>1. WheelTypeOK
  BY DEF WheelInv
<1>2. buckets_' = PushBack(buckets_) /\ UNCHANGED emptyBack
  BY DEF OnTime
<1>3. state' \in [Conn -> {"new", "connected", "disconnecting", "disconnected"}]
  BY <1>1 DEF OnTime, WheelTypeOK
<1>4. idle' \in [Conn -> Nat]
  BY <1>1 DEF OnTime, WheelTypeOK
<1>5. WheelTypeOK'
  BY <1>1, <1>2, <1>3, <1>4, PushBackSlots, NumBucketsAssumption DEF WheelTypeOK
<1>6. ASSUME NEW c \in Conn, state'[c] = "connected"
      PROVE  /\ idle'[c] < Len(buckets_')
             /\ c \in buckets_'[Len(buckets_') - idle'[c]]
             /\ \A i \in DOMAIN buckets_' :
                   i > Len(buckets_') - idle'[c] => c \notin buckets_'[i]
  <2>1. state[c] = "connected" /\ c \notin Expired
    BY <1>1, <1>6 DEF OnTime, WheelTypeOK
  <2>2. idle'[c] = idle[c] + 1
    BY <1>6 DEF OnTime
  <2>3. Held(c, PushBack(buckets_))
    BY <2>1, PushKeepsEntry DEF Expired
  <2> QED
    BY <1>2, <2>1, <2>2, <2>3, PushKeepsEntry
<1>7. NewIsNotIdle'
  BY <1>1 DEF OnTime, WheelTypeOK, NewIsNotIdle
<1> QED
  BY <1>5, <1>6, <1>7 DEF WheelInv, InBucketOfLastMessage

\* What the insertions have in common: the last bucket grows, the others stay.
LEMMA InsertBackSlots ==
  ASSUME WheelTypeOK, NEW S \in SUBSET Conn, InsertBack(S)
  PROVE  /\ buckets_' \in Seq(SUBSET Conn)
         /\ Len(buckets_') = Len(buckets_)
         /\ DOMAIN buckets_' = 1..Len(buckets_)
         /\ \A i \in 1..Len(buckets_) :
               buckets_'[i] = IF i = Len(buckets_) THEN buckets_[i] \cup S
                                                   ELSE buckets_[i]
<1> DEFINE n == Len(buckets_)
<1>1. n \in Nat /\ buckets_ \in [1..n -> SUBSET Conn]
  BY DEF WheelTypeOK
<1>2. buckets_' = [buckets_ EXCEPT ![n] = @ \cup S]
  BY DEF InsertBack
<1> HIDE DEF n
<1>3. /\ buckets_' \in [1..n -> SUBSET Conn]
      /\ \A i \in 1..n : buckets_'[i] = IF i = n THEN buckets_[i] \cup S
                                                ELSE buckets_[i]
  BY <1>1, <1>2
<1>4. buckets_' \in Seq(SUBSET Conn) /\ Len(buckets_') = n
  BY <1>1, <1>3
<1> QED
  BY <1>1, <1>3, <1>4 DEF n

\* Entries of others in the last bucket say nothing about c.
LEMMA InsertBackKeeps ==
  ASSUME WheelInv, NEW S \in SUBSET Conn, InsertBack(S),
         NEW c \in Conn \ S, state[c] = "connected", idle'[c] = idle[c]
  PROVE  /\ idle'[c] < Len(buckets_')
         /\ c \in buckets_'[Len(buckets_') - idle'[c]]
         /\ \A i \in DOMAIN buckets_' :
               i > Len(buckets_') - idle'[c] => c \notin buckets_'[i]
<1>1. /\ Len(buckets_) \in Nat /\ DOMAIN buckets_ = 1..Len(buckets_)
      /\ idle[c] \in Nat /\ idle[c] < Len(buckets_)
      /\ c \in buckets_[Len(buckets_) - idle[c]]
      /\ \A i \in DOMAIN buckets_ :
            i > Len(buckets_) - idle[c] => c \notin buckets_[i]
  BY DEF WheelInv, WheelTypeOK, InBucketOfLastMessage
<1>2. /\ Len(buckets_') = Len(buckets_) /\ DOMAIN buckets_' = 1..Len(buckets_)
      /\ \A i \in 1..Len(buckets_) : c \in buckets_'[i] <=> c \in buckets_[i]
  BY InsertBackSlots DEF WheelInv
<1>3. Len(buckets_) - idle[c] \in 1..Len(buckets_)
  BY <1>1
<1> QED
  BY <1>1, <1>2, <1>3

\* An Entry that is inserted is in the last bucket, and in none after it.
LEMMA InsertBackInserts ==
  ASSUME WheelTypeOK, buckets_ # << >>, NEW c \in Conn, InsertBack({c}), idle'[c] = 0
  PROVE  /\ idle'[c] < Len(buckets_')
         /\ c \in buckets_'[Len(buckets_') - idle'[c]]
         /\ \A i \in DOMAIN buckets_' :
               i > Len(buckets_') - idle'[c] => c \notin buckets_'[i]
<1>1. Len(buckets_) \in Nat /\ Len(buckets_) > 0
  BY DEF WheelTypeOK
<1>2. /\ Len(buckets_') = Len(buckets_) /\ DOMAIN buckets_' = 1..Len(buckets_)
      /\ buckets_'[Len(buckets_)] = buckets_[Len(buckets_)] \cup {c}
  <2>1. {c} \in SUBSET Conn /\ Len(buckets_) \in 1..Len(buckets_)
    BY <1>1
  <2> QED
    BY <2>1, InsertBackSlots
<1> QED
  BY <1>1, <1>2

LEMMA OnConnectionInv ==
  ASSUME WheelInv, NEW c \in Conn, OnConnection(c)
  PROVE  WheelInv'
<1>1. WheelTypeOK /\ state[c] = "new" /\ idle' = idle
  BY DEF WheelInv, OnConnection
<1>2. CASE buckets_ = << >>
  <2>1. UNCHANGED << buckets_, state, idle >> /\ emptyBack' = TRUE
    BY <1>2 DEF OnConnection
  <2> QED
    BY <2>1 DEF WheelInv, WheelTypeOK, InBucketOfLastMessage, NewIsNotIdle
<1>3. CASE buckets_ # << >>
  <2>1. /\ InsertBack({c}) /\ emptyBack' = emptyBack
        /\ state' = [state EXCEPT ![c] = "connected"]
    BY <1>3 DEF OnConnection
  <2>2. WheelTypeOK'
    BY <1>1, <2>1, InsertBackSlots DEF WheelTypeOK
  <2>3. idle[c] = 0
    BY <1>1 DEF WheelInv, NewIsNotIdle
  <2>4. \A d \in Conn \ {c} : state'[d] = state[d]
    BY <1>1, <2>1 DEF WheelTypeOK
  <2>5. InBucketOfLastMessage'
    <3>1. ASSUME NEW d \in Conn \ {c}, state'[d] = "connected"
          PROVE  /\ idle'[d] < Len(buckets_')
                 /\ d \in buckets_'[Len(buckets_') - idle'[d]]
                 /\ \A i \in DOMAIN buckets_' :
                       i > Len(buckets_') - idle'[d] => d \notin buckets_'[i]
      BY <1>1, <2>1, <2>4, <3>1, InsertBackKeeps
    <3>2. /\ idle'[c] < Len(buckets_')
          /\ c \in buckets_'[Len(buckets_') - idle'[c]]
          /\ \A i \in DOMAIN buckets_' :
                i > Len(buckets_') - idle'[c] => c \notin buckets_'[i]
      BY <1>1, <1>3, <2>1, <2>3, InsertBackInserts
    <3> QED
      BY <3>1, <3>2 DEF InBucketOfLastMessage
  <2>6. NewIsNotIdle'
    BY <1>1, <2>1, <2>3, <2>4 DEF WheelInv, NewIsNotIdle
  <2> QED
    BY <2>2, <2>5, <2>6 DEF WheelInv
<1> QED
  BY <1>2, <1>3

LEMMA OnMessageInv ==
  ASSUME WheelInv, NEW c \in Conn, OnMessage(c)
  PROVE  WheelInv'
<1> DEFINE S == {c} \cap {d \in Conn : Held(d, buckets_)}
<1>1. /\ WheelTypeOK /\ state[c] # "new" /\ InsertBack(S) /\ S \in SUBSET Conn
      /\ idle' = [idle EXCEPT ![c] = 0] /\ UNCHANGED << state, emptyBack >>
  BY DEF WheelInv, OnMessage
<1>2. c \in S => S = {c}
  OBVIOUS
<1>3. state[c] = "connected" => c \in S /\ buckets_ # << >>
  BY PushKeepsEntry DEF Held
<1>4. \A d \in Conn \ {c} : d \notin S
  OBVIOUS
<1> HIDE DEF S
<1>5. idle'[c] = 0 /\ \A d \in Conn \ {c} : idle'[d] = idle[d]
  BY <1>1 DEF WheelTypeOK
<1>6. WheelTypeOK'
  BY <1>1, InsertBackSlots DEF WheelTypeOK
<1>7. InBucketOfLastMessage'
  <2>1. ASSUME NEW d \in Conn \ {c}, state'[d] = "connected"
        PROVE  /\ idle'[d] < Len(buckets_')
               /\ d \in buckets_'[Len(buckets_') - idle'[d]]
               /\ \A i \in DOMAIN buckets_' :
                     i > Len(buckets_') - idle'[d] => d \notin buckets_'[i]
    BY <1>1, <1>4, <1>5, <2>1, InsertBackKeeps
  <2>2. ASSUME state'[c] = "connected"
        PROVE  /\ idle'[c] < Len(buckets_')
               /\ c \in buckets_'[Len(buckets_') - idle'[c]]
               /\ \A i \in DOMAIN buckets_' :
                     i > Len(buckets_') - idle'[c] => c \notin buckets_'[i]
    <3>1. S = {c} /\ buckets_ # << >>
      BY <1>1, <1>2, <1>3, <2>2
    <3>2. InsertBack({c})
      BY <1>1, <3>1
    <3> QED
      BY <1>1, <1>5, <3>1, <3>2, InsertBackInserts
  <2> QED
    BY <2>1, <2>2 DEF InBucketOfLastMessage
<1>8. NewIsNotIdle'
  BY <1>1, <1>5 DEF WheelInv, NewIsNotIdle
<1> QED
  BY <1>6, <1>7, <1>8 DEF WheelInv

LEMMA OnDisconnectionInv ==
  ASSUME WheelInv, NEW c \in Conn, OnDisconnection(c)
  PROVE  WheelInv'
<1>1. /\ state' = [state EXCEPT ![c] = "disconnected"]
      /\ idle' = [idle EXCEPT ![c] = 0] /\ UNCHANGED << buckets_, emptyBack >>
      /\ WheelTypeOK
  BY DEF OnDisconnection, WheelInv
<1>2. WheelTypeOK'
  BY <1>1 DEF WheelTypeOK
<1>3. \A d \in Conn : state'[d] \in {"new", "connected"} =>
                         state'[d] = state[d] /\ idle'[d] = idle[d]
  BY <1>1 DEF WheelTypeOK
<1> QED
  BY <1>1, <1>2, <1>3 DEF WheelInv, InBucketOfLastMessage, NewIsNotIdle

-----------------------------------------------------------------------------
(* Theorems.                                                                *)

\* WheelInv is inductive.
THEOREM WheelInvariant == WheelSpec => []WheelInv
<1>1. WheelInit => WheelInv
  <2> SUFFICES ASSUME WheelInit
               PROVE  WheelInv
    OBVIOUS
  <2>1. emptyBack \in BOOLEAN
    BY DEF WheelInit
  <2>2. /\ buckets_ = << >> /\ state = [c \in Conn |-> "new"]
        /\ idle = [c \in Conn |-> 0]
    BY DEF WheelInit
  <2> QED
    BY <2>1, <2>2, NumBucketsAssumption
    DEF WheelInv, WheelTypeOK, InBucketOfLastMessage, NewIsNotIdle
<1>2. WheelInv /\ [WheelNext]_wheelVars => WheelInv'
  <2> SUFFICES ASSUME WheelInv, [WheelNext]_wheelVars
               PROVE  WheelInv'
    OBVIOUS
  <2>1. CASE UNCHANGED wheelVars
    BY <2>1
    DEF wheelVars, WheelInv, WheelTypeOK, InBucketOfLastMessage, NewIsNotIdle
  <2>2. CASE WheelNext
    BY <2>2, OnTimeInv, OnConnectionInv, OnMessageInv, OnDisconnectionInv
    DEF WheelNext
  <2> QED
    BY <2>1, <2>2
<1> QED
  BY <1>1, <1>2, PTL DEF WheelSpec

\* The wheel shuts every connection down within NumBuckets ticks of its last
\* message (onTime and ~Entry of echo_server.cc).
THEOREM IdleConnectionsAreShutDown == WheelSpec => []IdleIsShutDown
<1>1. ASSUME WheelInv
      PROVE  IdleIsShutDown
  <2>1. WheelTypeOK /\ Len(buckets_) \in Nat /\ Len(buckets_) <= NumBuckets
    BY <1>1 DEF WheelInv, WheelTypeOK
  <2>2. ASSUME NEW c \in Conn, state[c] = "connected"
        PROVE  idle[c] \in Nat /\ idle[c] < Len(buckets_)
    BY <1>1, <2>1, <2>2 DEF WheelInv, WheelTypeOK, InBucketOfLastMessage
  <2> QED
    BY <2>1, <2>2, NumBucketsAssumption DEF IdleIsShutDown
<1> QED
  BY <1>1, WheelInvariant, PTL

\* ~Entry runs for no connection that got a message in the last NumBuckets
\* ticks, however its entries are spread over the buckets.
THEOREM ActiveConnectionsAreKept == WheelSpec => ActiveIsKept
<1> DEFINE Kept == \A c \in Conn :
             state[c] = "connected" /\ state'[c] = "disconnecting"
             => idle[c] = NumBuckets - 1
<1>1. ASSUME WheelInv, [WheelNext]_wheelVars, NEW c \in Conn,
             state[c] = "connected", state'[c] = "disconnecting"
      PROVE  idle[c] = NumBuckets - 1
  <2>1. CASE OnTime
    <3>1. c \in Expired
      BY <1>1, <2>1 DEF OnTime
    <3> QED
      BY <1>1, <3>1, PushKeepsEntry DEF Expired
  <2>2. ASSUME NEW d \in Conn,
               OnConnection(d) \/ OnMessage(d) \/ OnDisconnection(d)
        PROVE  state'[c] # "disconnecting"
    <3>1. WheelTypeOK
      BY <1>1 DEF WheelInv
    <3>2. CASE OnConnection(d)
      BY <1>1, <3>1, <3>2 DEF WheelTypeOK, OnConnection
    <3>3. CASE OnMessage(d)
      BY <1>1, <3>3 DEF OnMessage
    <3>4. CASE OnDisconnection(d)
      BY <1>1, <3>1, <3>4 DEF WheelTypeOK, OnDisconnection
    <3> QED
      BY <2>2, <3>2, <3>3, <3>4
  <2>3. CASE UNCHANGED wheelVars
    BY <1>1, <2>3 DEF wheelVars
  <2> QED
    BY <1>1, <2>1, <2>2, <2>3 DEF WheelNext
<1>2. WheelInv /\ [WheelNext]_wheelVars => [Kept]_wheelVars
  BY <1>1
<1> QED
  BY <1>2, WheelInvariant, PTL DEF WheelSpec, ActiveIsKept

-----------------------------------------------------------------------------
(* The examples on shared data, for any threads and any length of the       *)
(* queue and the list.                                                      *)

CallsOK ==
  /\ pc \in [Thread -> {"idle", "wait", "awake", "traversing", "adding",
                        "processing", "printing", "removing"}]
  /\ cnt \in Int /\ Q \in Seq(Thread)

\* The list that a thread traverses, and as it was when it began.
Traversed(th) == tmp[th][1] \in DOMAIN lists /\ lists[tmp[th][1]] = tmp[th][2]

ListsOK ==
  /\ lists \in Seq(Seq(Thread)) /\ lists # << >>
  /\ tmp \in [Thread -> {<< >>} \cup (Nat \X Seq(Thread))]
  /\ \A th \in Thread : tmp[th] # << >> => Traversed(th)

\* Whoever has requests to print holds the mutex of the inventory, which is none
\* of a request.
InventoryOK ==
  /\ owner \in [Mutex -> SUBSET Thread]
  /\ requests_ \subseteq Thread /\ todo \subseteq requests_
  /\ todo # {} => owner["inventory"] # {}

SharedInv == CallsOK /\ ListsOK /\ InventoryOK

\* The steps that leave the lists alone.
LEMMA ListsStay ==
  ASSUME ListsOK, UNCHANGED list
  PROVE  ListsOK'
BY DEF ListsOK, Traversed, list

\* The steps that leave the inventory alone.
LEMMA InventoryStays ==
  ASSUME InventoryOK, UNCHANGED inventory
  PROVE  InventoryOK'
BY DEF InventoryOK, inventory, Mutex

\* A thread goes on, or some wake up.
LEMMA GoesOn ==
  ASSUME CallsOK, NEW th \in Thread, NEW s,
         NEW where \in {"idle", "wait", "awake", "traversing", "adding",
                        "processing", "printing", "removing"},
         \/ UNCHANGED pc
         \/ Goes(th, where)
         \/ Woken(th, s)
  PROVE  pc' \in [Thread -> {"idle", "wait", "awake", "traversing", "adding",
                             "processing", "printing", "removing"}]
BY DEF CallsOK, Goes, Woken

\* The latch and the queue.
LEMMA LatchAndQueueInv ==
  ASSUME SharedInv, NEW th \in Thread,
         \/ Wait_(th) \/ CountDown(th)
         \/ Dequeue(th) \/ Enqueue(th)
         \/ WakeSpuriously(th)
  PROVE  SharedInv'
<1>1. CallsOK /\ ListsOK /\ InventoryOK
  BY DEF SharedInv
<1>2. UNCHANGED list /\ UNCHANGED inventory
  BY DEF Wait_, CountDown, Dequeue, Enqueue,
         WakeSpuriously
<1>3. CallsOK'
  <2>1. CASE Wait_(th)
    <3>1. UNCHANGED << cnt, Q >>
      BY <2>1 DEF Wait_
    <3>2. Goes(th, "wait") \/ Goes(th, "idle")
      BY <2>1 DEF Wait_
    <3> QED
      BY <1>1, <3>1, <3>2, GoesOn DEF CallsOK
  <2>2. CASE CountDown(th)
    <3>1. cnt' = cnt - 1 /\ UNCHANGED Q
      BY <2>2 DEF CountDown
    <3>2. UNCHANGED pc \/ Woken(th, Waiting)
      BY <2>2 DEF CountDown, NotifyAll
    <3> QED
      BY <1>1, <3>1, <3>2, GoesOn DEF CallsOK
  <2>3. CASE Dequeue(th)
    <3>1. CASE Q = << >>
      <4>1. UNCHANGED << cnt, Q >> /\ Goes(th, "wait")
        BY <2>3, <3>1 DEF Dequeue
      <4> QED
        BY <1>1, <4>1, GoesOn DEF CallsOK
    <3>2. CASE Q # << >>
      <4>1. UNCHANGED cnt /\ Q' = Tail(Q) /\ Goes(th, "idle")
        BY <2>3, <3>2 DEF Dequeue
      <4>2. Q' \in Seq(Thread)
        BY <1>1, <3>2, <4>1 DEF CallsOK
      <4> QED
        BY <1>1, <4>1, <4>2, GoesOn DEF CallsOK
    <3> QED
      BY <3>1, <3>2
  <2>4. CASE Enqueue(th)
    <3>1. UNCHANGED cnt /\ Q' = Append(Q, th)
      BY <2>4 DEF Enqueue
    <3>2. UNCHANGED pc \/ \E s : Woken(th, s)
      BY <2>4 DEF Enqueue
    <3>3. Q' \in Seq(Thread)
      BY <1>1, <3>1 DEF CallsOK
    <3> QED
      BY <1>1, <3>1, <3>2, <3>3, GoesOn DEF CallsOK
  <2>5. CASE WakeSpuriously(th)
    <3>1. UNCHANGED << cnt, Q >> /\ Goes(th, "awake")
      BY <2>5 DEF WakeSpuriously
    <3> QED
      BY <1>1, <3>1, GoesOn DEF CallsOK
  <2> QED
    BY <2>1, <2>2, <2>3, <2>4, <2>5
<1> QED
  BY <1>1, <1>2, <1>3, ListsStay, InventoryStays DEF SharedInv

\* A traversal begins with the list of g_ptr as it is.
LEMMA TraverseInv ==
  ASSUME SharedInv, NEW th \in Thread,
         Traverse(th) \/ EndTraverse(th)
  PROVE  SharedInv'
<1>1. CallsOK /\ ListsOK /\ InventoryOK
  BY DEF SharedInv
<1>2. UNCHANGED inventory /\ UNCHANGED << cnt, Q, lists >>
  BY DEF Traverse, EndTraverse
<1>3. Goes(th, "traversing") \/ Goes(th, "idle")
  BY DEF Traverse, EndTraverse
<1>4. Len(lists) \in DOMAIN lists /\ Len(lists) \in Nat
      /\ lists[Len(lists)] \in Seq(Thread)
  BY <1>1 DEF ListsOK
<1>5. PICK t \in {<< >>, << Len(lists), lists[Len(lists)] >>} :
        tmp' = [tmp EXCEPT ![th] = t]
  BY DEF Traverse, EndTraverse, g_ptr
<1>6. t \in {<< >>} \cup (Nat \X Seq(Thread))
  BY <1>4
<1>7. tmp' \in [Thread -> {<< >>} \cup (Nat \X Seq(Thread))]
  BY <1>1, <1>5, <1>6 DEF ListsOK
<1>8. tmp'[th] = t /\ \A o \in Thread \ {th} : tmp'[o] = tmp[o]
  BY <1>1, <1>5 DEF ListsOK
<1>9. ASSUME NEW o \in Thread, tmp'[o] # << >>
      PROVE  Traversed(o)'
  <2>1. CASE o = th
    <3>1. tmp'[o] = << Len(lists), lists[Len(lists)] >>
      BY <1>8, <1>9, <2>1
    <3> QED
      BY <1>2, <1>4, <3>1 DEF Traversed
  <2>2. CASE o # th
    BY <1>1, <1>2, <1>8, <1>9, <2>2 DEF ListsOK, Traversed
  <2> QED
    BY <2>1, <2>2
<1>10. ListsOK'
  BY <1>1, <1>2, <1>7, <1>9 DEF ListsOK
<1> QED
  BY <1>1, <1>2, <1>3, <1>10, GoesOn, InventoryStays DEF SharedInv, CallsOK

\* The list that g_ptr holds grows when nobody traverses it, and a copy of it is
\* the list of nobody yet.
LEMMA PostInv ==
  ASSUME SharedInv, NEW th \in Thread, Post(th)
  PROVE  SharedInv'
<1>1. CallsOK /\ ListsOK /\ InventoryOK
  BY DEF SharedInv
<1>2. UNCHANGED inventory /\ UNCHANGED << pc, cnt, Q, tmp >>
  BY DEF Post
<1>3. PICK n : n = Len(lists)
  OBVIOUS
<1>4. /\ n \in Nat /\ n > 0 /\ n \in DOMAIN lists /\ DOMAIN lists = 1 .. n
      /\ \A i \in 1 .. n : lists[i] \in Seq(Thread)
  BY <1>1, <1>3 DEF ListsOK
<1>5. PICK longer \in Seq(Thread) : longer = Append(lists[n], th)
  <2>1. lists[n] \in Seq(Thread)
    BY <1>4
  <2>2. Append(lists[n], th) \in Seq(Thread)
    BY <2>1
  <2> QED
    BY <2>2
<1>6. CASE Unique
  <2>1. lists' = [lists EXCEPT ![n] = longer]
    BY <1>3, <1>5, <1>6 DEF Post, PushBackItem, g_ptr
  <2>2. lists' \in Seq(Seq(Thread)) /\ Len(lists') = n
    BY <1>1, <1>3, <1>4, <1>5, <2>1 DEF ListsOK
  <2>3. DOMAIN lists' = 1 .. n /\ \A i \in 1 .. n : i # n => lists'[i] = lists[i]
    BY <1>4, <2>1
  <2>4. ASSUME NEW o \in Thread, tmp'[o] # << >>
        PROVE  Traversed(o)'
    <3>1. tmp[o] # << >> /\ tmp'[o] = tmp[o]
      BY <1>2, <2>4
    <3>2. tmp[o][1] \in 1 .. n /\ lists[tmp[o][1]] = tmp[o][2]
      BY <1>1, <1>4, <3>1 DEF ListsOK, Traversed
    <3>3. tmp[o][1] # n
      BY <1>3, <1>6, <3>1 DEF Unique, g_ptr
    <3> QED
      BY <2>3, <3>1, <3>2, <3>3 DEF Traversed
  <2>5. ListsOK'
    BY <1>1, <1>2, <1>4, <2>2, <2>4 DEF ListsOK
  <2> QED
    BY <1>1, <1>2, <2>5, InventoryStays DEF SharedInv, CallsOK
<1>7. CASE ~Unique
  <2>1. lists' = Append(lists, longer)
    BY <1>3, <1>5, <1>7 DEF Post, PushBackItem, g_ptr
  <2>2. /\ lists' \in Seq(Seq(Thread)) /\ Len(lists') = n + 1
        /\ \A i \in 1 .. n : i \in DOMAIN lists' /\ lists'[i] = lists[i]
    BY <1>1, <1>3, <1>4, <1>5, <2>1 DEF ListsOK
  <2>3. ASSUME NEW o \in Thread, tmp'[o] # << >>
        PROVE  Traversed(o)'
    <3>1. tmp[o] # << >> /\ tmp'[o] = tmp[o]
      BY <1>2, <2>3
    <3>2. tmp[o][1] \in 1 .. n /\ lists[tmp[o][1]] = tmp[o][2]
      BY <1>1, <1>4, <3>1 DEF ListsOK, Traversed
    <3> QED
      BY <2>2, <3>1, <3>2 DEF Traversed
  <2>4. ListsOK'
    BY <1>1, <1>2, <1>4, <2>2, <2>3 DEF ListsOK
  <2> QED
    BY <1>1, <1>2, <2>4, InventoryStays DEF SharedInv, CallsOK
<1> QED
  BY <1>6, <1>7

\* A request is removed under the mutex that print_all keeps until it has printed
\* the last.
LEMMA InventoryInv ==
  ASSUME SharedInv, NEW th \in Thread,
         \/ Process(th) \/ Add_(th) \/ EndProcess(th)
         \/ PrintAll(th) \/ Print_(th) \/ EndPrintAll(th)
         \/ DestructRequest(th) \/ Remove_(th)
  PROVE  SharedInv'
<1>1. CallsOK /\ ListsOK /\ InventoryOK
  BY DEF SharedInv
<1>2. UNCHANGED list /\ UNCHANGED << cnt, Q >>
  BY DEF Process, Add_, EndProcess, PrintAll,
         Print_, EndPrintAll, DestructRequest, Remove_
<1>3. \/ UNCHANGED pc \/ Goes(th, "adding") \/ Goes(th, "idle")
      \/ Goes(th, "processing") \/ Goes(th, "printing") \/ Goes(th, "removing")
  BY DEF Process, Add_, EndProcess, PrintAll,
         Print_, EndPrintAll, DestructRequest, Remove_
<1>4. CallsOK'
  BY <1>1, <1>2, <1>3, GoesOn DEF CallsOK
<1>5. /\ Mutex = Thread \cup {"inventory"} /\ th # "inventory"
      /\ owner \in [Mutex -> SUBSET Thread] /\ {th} \in SUBSET Thread
  BY <1>1, BoundsAssumption DEF InventoryOK, Mutex
<1>6. InventoryOK'
  <2>1. CASE Process(th) \/ EndProcess(th) \/ DestructRequest(th)
    <3>1. PICK h \in SUBSET Thread : owner' = [owner EXCEPT ![th] = h]
      BY <1>5, <2>1 DEF Process, EndProcess, DestructRequest
    <3>2. UNCHANGED << requests_, todo >>
      BY <2>1 DEF Process, EndProcess, DestructRequest
    <3>3. owner' \in [Mutex -> SUBSET Thread]
          /\ owner'["inventory"] = owner["inventory"]
      BY <1>5, <3>1
    <3> QED
      BY <1>1, <3>2, <3>3 DEF InventoryOK, Mutex
  <2>2. CASE Add_(th)
    BY <1>1, <2>2 DEF Add_, InventoryOK, Mutex
  <2>3. CASE PrintAll(th)
    <3>1. owner' = [owner EXCEPT !["inventory"] = {th}] /\ todo' = requests_
          /\ UNCHANGED requests_
      BY <2>3 DEF PrintAll
    <3>2. owner' \in [Mutex -> SUBSET Thread] /\ owner'["inventory"] # {}
      BY <1>5, <3>1
    <3> QED
      BY <1>1, <3>1, <3>2 DEF InventoryOK, Mutex
  <2>4. CASE Print_(th)
    BY <1>1, <2>4 DEF Print_, InventoryOK, Mutex
  <2>5. CASE EndPrintAll(th)
    <3>1. owner' = [owner EXCEPT !["inventory"] = {}] /\ todo = {}
          /\ UNCHANGED << requests_, todo >>
      BY <2>5 DEF EndPrintAll
    <3>2. owner' \in [Mutex -> SUBSET Thread]
      BY <1>5, <3>1
    <3> QED
      BY <1>1, <3>1, <3>2 DEF InventoryOK, Mutex
  <2>6. CASE Remove_(th)
    <3>1. /\ owner["inventory"] = {} /\ requests_' = requests_ \ {th}
          /\ owner' = [owner EXCEPT ![th] = {}] /\ todo' = todo
      BY <2>6 DEF Remove_, Free
    <3>2. todo = {} /\ owner' \in [Mutex -> SUBSET Thread]
      BY <1>1, <1>5, <3>1 DEF InventoryOK
    <3> QED
      BY <1>1, <3>1, <3>2 DEF InventoryOK, Mutex
  <2> QED
    BY <2>1, <2>2, <2>3, <2>4, <2>5, <2>6
<1> QED
  BY <1>1, <1>2, <1>4, <1>6, ListsStay DEF SharedInv

\* In every state of the four examples all parts of the invariant hold.
THEOREM SharedInvariant == SharedSpec => []SharedInv
<1>1. SharedInit => SharedInv
  <2> SUFFICES ASSUME SharedInit
               PROVE  SharedInv
    OBVIOUS
  <2>1. CallsOK
    BY BoundsAssumption DEF SharedInit, CallsOK
  <2>2. << >> \in Seq(Thread) /\ << << >> >> \in Seq(Seq(Thread))
    OBVIOUS
  <2>3. ListsOK
    BY <2>2 DEF SharedInit, ListsOK
  <2>4. InventoryOK
    BY DEF SharedInit, InventoryOK
  <2> QED
    BY <2>1, <2>3, <2>4 DEF SharedInv
<1>2. SharedInv /\ [SharedNext]_sharedVars => SharedInv'
  <2> SUFFICES ASSUME SharedInv, [SharedNext]_sharedVars
               PROVE  SharedInv'
    OBVIOUS
  <2>1. CASE UNCHANGED sharedVars
    <3>1. /\ UNCHANGED list /\ UNCHANGED inventory
          /\ UNCHANGED << pc, cnt, Q >>
      BY <2>1 DEF sharedVars
    <3> QED
      BY <3>1, ListsStay, InventoryStays DEF SharedInv, CallsOK
  <2>2. CASE SharedNext
    <3>1. PICK th \in Thread : \/ Begin(th) \/ Continue(th)
                               \/ WakeSpuriously(th)
      BY <2>2 DEF SharedNext
    <3> QED
      BY <3>1, LatchAndQueueInv, TraverseInv, PostInv, InventoryInv
      DEF Begin, Continue
  <2> QED
    BY <2>1, <2>2
<1> QED
  BY <1>1, <1>2, PTL DEF SharedSpec

\* No list changes while a thread traverses it (post copies one that is not
\* unique), and no request is destructed between the lock of print_all and the
\* line that prints it.
THEOREM TraversalsAreStable == SharedSpec => []TraversedIsStable
<1>1. SharedInv => TraversedIsStable
  BY DEF SharedInv, CallsOK, ListsOK, Traversed, InventoryOK,
         TraversedIsStable, SharedTypeOK
<1> QED
  BY <1>1, SharedInvariant, PTL
=============================================================================
