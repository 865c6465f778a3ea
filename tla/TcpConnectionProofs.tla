------------------------ MODULE TcpConnectionProofs ------------------------
(***************************************************************************)
(* Proofs about TcpConnection, for any messages, sizes, send buffer and     *)
(* threads.                                                                 *)
(***************************************************************************)
EXTENDS TcpConnection, SequenceTheorems, WellFoundedInduction, TLAPS

\* state_ and the slot of the channel go together, up to a shutdown whose test of
\* the state was before the close.
StateMatchesSlot ==
  /\ slot = "none" <=> state_ = "connecting"
  /\ slot = "watched" => state_ \in {"connected", "disconnecting"}
  /\ Closing => state_ \in {"disconnecting", "disconnected"}

\* The channel reads as long as it is watched.
WatchedReads == "read" \in events_ <=> slot = "watched"

\* Nothing but handleClose ends the watching between poll and its handling, or
\* the destructor of the server in a handler.
ReadEventIsCurrent ==
  "read" \in revents_ =>
    pc = "events" /\ (slot = "watched" \/ (slot = "removed" /\ ~serverAlive))

Queued(q, f) == \E i \in DOMAIN q : q[i] = f

\* connectionEstablished is the first functor and is queued once.
EstablishedFirst ==
  IF slot = "none"
  THEN /\ queue # << >> /\ Head(queue) = << "established" >>
       /\ ~Queued(Tail(queue), << "established" >>)
  ELSE ~Queued(queue, << "established" >>)

\* Before it has run no thread knows the connection.
NoCallBefore ==
  slot = "none" => holders = {} /\ \A th \in Thread : call[th] = << "none" >>

CallersHold == \A th \in Thread : call[th] # << "none" >> => th \in holders

\* The server keeps a connection until it has closed.
KeptUntilClosed ==
  serverAlive => /\ removing \/ ~inMap => Closing
                 /\ removing => inMap

\* What left the map is removed from the poller, or connectionDestryed is queued.
DestroyedIsQueued ==
  ~inMap /\ Running =>
    slot = "removed" \/ Queued(queue, << "destroyed" >>)

\* The bytes of the buffer wait for the socket to be writable; there are none
\* before the channel is watched.
BufferIsPolled ==
  /\ slot = "watched" => /\ isWriting <=> outputBuffer_ # << >>
                         /\ isWriting => "write" \in mask
  /\ slot = "none" => ~isWriting /\ outputBuffer_ = << >>

\* All but the types and the events that poll reported.
Inner ==
  /\ BufferIsPolled /\ FinAfterBuffer /\ ClosesOnce /\ DestructedAfterRemoval
  /\ StateMatchesSlot /\ WatchedReads /\ EstablishedFirst /\ NoCallBefore
  /\ CallersHold /\ KeptUntilClosed /\ DestroyedIsQueued

Inv == TypeOK /\ ReadEventIsCurrent /\ Inner

-----------------------------------------------------------------------------
(* Sequences.                                                               *)

LEMMA QueuedAppend ==
  ASSUME NEW S, NEW q \in Seq(S), NEW f \in S, NEW g
  PROVE  /\ Append(q, f) \in Seq(S) /\ Len(Append(q, f)) = Len(q) + 1
         /\ Queued(Append(q, f), g) <=> Queued(q, g) \/ f = g
<1>1. /\ Append(q, f) \in Seq(S) /\ Len(Append(q, f)) = Len(q) + 1
      /\ DOMAIN q = 1 .. Len(q) /\ DOMAIN Append(q, f) = 1 .. Len(q) + 1
      /\ Append(q, f)[Len(q) + 1] = f /\ Len(q) \in Nat
      /\ \A i \in 1 .. Len(q) : Append(q, f)[i] = q[i]
  OBVIOUS
<1>2. Queued(q, g) \/ f = g => Queued(Append(q, f), g)
  BY <1>1 DEF Queued
<1>3. Queued(Append(q, f), g) => Queued(q, g) \/ f = g
  <2> SUFFICES ASSUME NEW i \in 1 .. Len(q) + 1, Append(q, f)[i] = g
               PROVE  Queued(q, g) \/ f = g
    BY <1>1 DEF Queued
  <2>1. i \in 1 .. Len(q) \/ i = Len(q) + 1
    BY <1>1
  <2> QED
    BY <1>1, <2>1 DEF Queued
<1> QED
  BY <1>1, <1>2, <1>3

LEMMA QueuedTail ==
  ASSUME NEW S, NEW q \in Seq(S), q # << >>, NEW g
  PROVE  /\ Tail(q) \in Seq(S) /\ Head(q) \in S /\ Len(Tail(q)) = Len(q) - 1
         /\ Queued(q, g) <=> Head(q) = g \/ Queued(Tail(q), g)
<1>1. /\ Tail(q) \in Seq(S) /\ Len(Tail(q)) = Len(q) - 1 /\ Len(q) \in Nat
      /\ DOMAIN q = 1 .. Len(q) /\ DOMAIN Tail(q) = 1 .. Len(q) - 1
      /\ Head(q) = q[1] /\ Len(q) > 0 /\ Head(q) \in S
      /\ \A i \in 1 .. Len(q) - 1 : Tail(q)[i] = q[i + 1]
  OBVIOUS
<1>2. ASSUME NEW i \in 1 .. Len(q), q[i] = g
      PROVE  Head(q) = g \/ Queued(Tail(q), g)
  <2>1. CASE i = 1
    BY <1>1, <1>2, <2>1
  <2>2. CASE i > 1
    <3>1. i - 1 \in 1 .. Len(q) - 1 /\ Tail(q)[i - 1] = q[i]
      BY <1>1, <2>2
    <3> QED
      BY <1>1, <1>2, <3>1 DEF Queued
  <2> QED
    BY <1>1, <2>1, <2>2
<1>3. Head(q) = g => Queued(q, g)
  BY <1>1 DEF Queued
<1>4. ASSUME NEW i \in 1 .. Len(q) - 1, Tail(q)[i] = g
      PROVE  Queued(q, g)
  <2>1. i + 1 \in 1 .. Len(q) /\ q[i + 1] = g
    BY <1>1, <1>4
  <2> QED
    BY <1>1, <2>1 DEF Queued
<1> QED
  BY <1>1, <1>2, <1>3, <1>4 DEF Queued

LEMMA AppendKeepsHead ==
  ASSUME NEW S, NEW q \in Seq(S), q # << >>, NEW f \in S
  PROVE  /\ Append(q, f) # << >> /\ Head(Append(q, f)) = Head(q)
         /\ Tail(Append(q, f)) = Append(Tail(q), f)
OBVIOUS

LEMMA TypesOfParts ==
  ASSUME NEW S, NEW s \in Seq(S), NEW n \in 0 .. Len(s)
  PROVE  /\ First(s, n) \in Seq(S) /\ Rest(s, n) \in Seq(S)
         /\ Rest(s, n) = << >> <=> n = Len(s)
<1>1. First(s, n) \in Seq(S)
  BY DEF First
<1>2. /\ Rest(s, n) \in Seq(S) /\ Len(Rest(s, n)) = Len(s) - n
      /\ Len(s) \in Nat
  BY DEF Rest
<1> QED
  BY <1>1, <1>2

LEMMA TypesOfMessages ==
  ASSUME NEW m \in Msg
  PROVE  /\ Size[m] \in Nat \ {0} /\ Bytes(m) \in Seq(Msg \X Nat)
         /\ Len(Bytes(m)) = Size[m]
<1>1. Size[m] \in Nat \ {0}
  BY SizeAssumption
<1> QED
  BY <1>1 DEF Bytes

\* ::write takes at most what it is given and what fits.
LEMMA WriteTakesWhatFits ==
  ASSUME inFlight \in 0 .. Room, NEW n \in Nat
  PROVE  /\ WriteResult(n) = -1 \/ WriteResult(n) \in 0 .. n
         /\ WriteResult(n) >= 0 => /\ inFlight + WriteResult(n) \in 0 .. Room
                                   /\ ~finSent
BY SizeAssumption DEF WriteResult

LEMMA FunctorsDiffer ==
  /\ << "established" >> \in Functor /\ << "shutdown" >> \in Functor
  /\ << "writeComplete" >> \in Functor /\ << "destroyed" >> \in Functor
  /\ \A m \in Msg : /\ << "send", m >> \in Functor
                    /\ << "send", m >> # << "established" >>
                    /\ << "send", m >> # << "destroyed" >>
  /\ << "shutdown" >> # << "established" >>
  /\ << "writeComplete" >> # << "established" >>
  /\ << "destroyed" >> # << "established" >>
BY DEF Functor

-----------------------------------------------------------------------------
(* The queue.                                                               *)

\* A functor that is pushed changes nothing of what is known of the others.
LEMMA Push ==
  ASSUME TypeOK, NEW f \in Functor, queue' = Append(queue, f)
  PROVE  /\ queue' \in Seq(Functor) /\ Len(queue') = Len(queue) + 1
         /\ EstablishedFirst /\ f # << "established" >>
              /\ (slot' = "none" <=> slot = "none") => EstablishedFirst'
         /\ Queued(queue, << "destroyed" >>) \/ f = << "destroyed" >>
              => Queued(queue', << "destroyed" >>)
<1>1. queue \in Seq(Functor)
  BY DEF TypeOK
<1>2. /\ queue' \in Seq(Functor) /\ Len(queue') = Len(queue) + 1
      /\ \A g : Queued(queue', g) <=> Queued(queue, g) \/ f = g
  BY <1>1, QueuedAppend
<1>3. ASSUME EstablishedFirst, f # << "established" >>,
             slot' = "none" <=> slot = "none"
      PROVE  EstablishedFirst'
  <2>1. CASE slot = "none"
    <3>1. queue # << >> /\ Head(queue) = << "established" >>
          /\ ~Queued(Tail(queue), << "established" >>)
      BY <1>3, <2>1 DEF EstablishedFirst
    <3>2. /\ queue' # << >> /\ Head(queue') = Head(queue)
          /\ Tail(queue') = Append(Tail(queue), f)
      BY <1>1, <3>1, AppendKeepsHead
    <3>3. Tail(queue) \in Seq(Functor)
      BY <1>1, <3>1, QueuedTail
    <3>4. ~Queued(Append(Tail(queue), f), << "established" >>)
      BY <1>3, <3>1, <3>3, QueuedAppend
    <3>5. /\ slot' = "none" /\ queue' # << >> /\ Head(queue') = << "established" >>
          /\ ~Queued(Tail(queue'), << "established" >>)
      BY <1>3, <2>1, <3>1, <3>2, <3>4
    <3> QED
      BY <3>5 DEF EstablishedFirst
  <2>2. CASE slot # "none"
    BY <1>2, <1>3, <2>2 DEF EstablishedFirst
  <2> QED
    BY <2>1, <2>2
<1> QED
  BY <1>2, <1>3

\* What is known when the functor f is called.
LEMMA TurnTakesHead ==
  ASSUME Inv, NEW f, Turn(f)
  PROVE  /\ queue # << >> /\ Tail(queue) \in Seq(Functor) /\ batch \in Nat \ {0}
         /\ Len(Tail(queue)) = Len(queue) - 1 /\ Len(queue) \in Nat
         /\ batch' = batch - 1 /\ ran' = TRUE /\ batch' \in 0 .. Len(Tail(queue))
         /\ UNCHANGED << pc, revents_ >> /\ pc = "functors" /\ inCallback = FALSE
         /\ ~Queued(Tail(queue), << "established" >>)
         /\ slot = "none" <=> f = << "established" >>
         /\ Queued(queue, << "destroyed" >>)
              <=> f = << "destroyed" >> \/ Queued(Tail(queue), << "destroyed" >>)
<1>1. /\ TypeOK /\ EstablishedFirst
  BY DEF Inv, Inner, BufferIsPolled
<1>2. queue \in Seq(Functor) /\ batch \in 0 .. Len(queue) /\ batch > 0
      /\ inCallback \in BOOLEAN
  BY <1>1 DEF TypeOK, Turn
<1>3. queue # << >> /\ Len(queue) \in Nat /\ Len(queue) > 0
  BY <1>2
<1>4. Head(queue) = f /\ batch' = batch - 1 /\ ran' = TRUE /\ ~inCallback
      /\ UNCHANGED << pc, revents_ >> /\ pc = "functors"
  BY DEF Turn
<1>5. /\ Tail(queue) \in Seq(Functor) /\ Len(Tail(queue)) = Len(queue) - 1
      /\ \A g : Queued(queue, g) <=> f = g \/ Queued(Tail(queue), g)
  BY <1>2, <1>3, <1>4, QueuedTail
<1>6. /\ ~Queued(Tail(queue), << "established" >>)
      /\ slot = "none" <=> f = << "established" >>
  BY <1>1, <1>4, <1>5 DEF EstablishedFirst
<1>7. batch - 1 \in 0 .. Len(Tail(queue)) /\ batch \in Nat \ {0}
  BY <1>2, <1>3, <1>5
<1> QED
  BY <1>2, <1>3, <1>4, <1>5, <1>6, <1>7

-----------------------------------------------------------------------------
(* sendInLoop.                                                              *)

\* What sendInLoop keeps, with q the queue before the pushes.
LEMMA SendInLoopKeeps ==
  ASSUME Inv, NEW m \in Msg, NEW q \in Seq(Functor), SendInLoop(m, q),
         slot # "none", failed = "none"
  PROVE  /\ slot' = slot /\ ("read" \in events_' <=> "read" \in events_)
         /\ events_' \subseteq {"read", "write"} /\ mask' \subseteq {"read", "write"}
         /\ outputBuffer_' \in Seq(Msg \X Nat) /\ wire' \in Seq(Msg \X Nat)
         /\ inFlight' \in 0 .. Room /\ accepted' \in Seq(Msg)
         /\ UNCHANGED << finSent, peer, inbox >>
         /\ \/ failed' = "none" /\ queue' \in {q, Append(q, << "writeComplete" >>)}
            \/ failed' \in {"send", "update"} /\ queue' = queue
         /\ slot = "watched" =>
              /\ "write" \in events_' <=> outputBuffer_' # << >>
              /\ "write" \in events_' => "write" \in mask'
              /\ finSent => outputBuffer_' = << >>
<1> DEFINE ret == IF WritesAtOnce THEN WriteResult(Size[m]) ELSE 0
<1>1. /\ TypeOK /\ FinAfterBuffer
      /\ slot = "watched" => /\ isWriting <=> outputBuffer_ # << >>
                             /\ isWriting => "write" \in mask
  BY DEF Inv, Inner, BufferIsPolled
<1>2. /\ Size[m] \in Nat \ {0} /\ Bytes(m) \in Seq(Msg \X Nat)
      /\ Len(Bytes(m)) = Size[m]
  BY TypesOfMessages
<1>3. inFlight \in 0 .. Room /\ Room \in Nat
  BY <1>1, SizeAssumption DEF TypeOK
<1>4. /\ ret = -1 \/ ret \in 0 .. Size[m]
      /\ ret >= 0 => inFlight + ret \in 0 .. Room
      /\ ret < 0 => WritesAtOnce
      /\ ret >= 0 /\ WritesAtOnce => ~finSent
  BY <1>2, <1>3, WriteTakesWhatFits
<1>5. \/ /\ ret >= 0
         /\ wire' = wire \o First(Bytes(m), ret)
         /\ inFlight' = inFlight + ret
         /\ accepted' = Append(accepted, m)
         /\ IF ret < Size[m]
            THEN Buffer(Rest(Bytes(m), ret)) /\ queue' = q
            ELSE /\ QueueWriteComplete(q)
                 /\ UNCHANGED << channel, outputBuffer_ >>
         /\ UNCHANGED << finSent, peer, inbox, failed >>
      \/ /\ ret < 0 \/ (ret < Size[m] /\ ~isWriting /\ slot = "removed")
         /\ failed' = IF ret < 0 THEN "send" ELSE "update"
         /\ UNCHANGED << network, channel, queue, outputBuffer_, accepted >>
  BY DEF SendInLoop
<1> HIDE DEF ret
<1>6. CASE /\ ret < 0 \/ (ret < Size[m] /\ ~isWriting /\ slot = "removed")
           /\ failed' = IF ret < 0 THEN "send" ELSE "update"
           /\ UNCHANGED << network, channel, queue, outputBuffer_, accepted >>
  <2>1. /\ UNCHANGED << wire, inFlight, finSent, peer, inbox, events_, slot, mask,
                        queue, outputBuffer_, accepted >>
        /\ failed' \in {"send", "update"}
    BY <1>6 DEF network, channel
  <2> QED
    BY <1>1, <2>1 DEF TypeOK, FinAfterBuffer, isWriting
<1>7. ASSUME ret >= 0,
             wire' = wire \o First(Bytes(m), ret), inFlight' = inFlight + ret,
             accepted' = Append(accepted, m),
             UNCHANGED << finSent, peer, inbox, failed >>
      PROVE  /\ wire' \in Seq(Msg \X Nat) /\ inFlight' \in 0 .. Room
             /\ accepted' \in Seq(Msg) /\ UNCHANGED << finSent, peer, inbox >>
             /\ failed' = "none" /\ ret \in 0 .. Size[m]
             /\ Rest(Bytes(m), ret) \in Seq(Msg \X Nat)
             /\ Rest(Bytes(m), ret) = << >> <=> ret = Size[m]
  <2>1. ret \in 0 .. Len(Bytes(m))
    BY <1>2, <1>4, <1>7
  <2>2. /\ First(Bytes(m), ret) \in Seq(Msg \X Nat)
        /\ Rest(Bytes(m), ret) \in Seq(Msg \X Nat)
        /\ Rest(Bytes(m), ret) = << >> <=> ret = Size[m]
    BY <1>2, <2>1, TypesOfParts
  <2>3. wire \in Seq(Msg \X Nat) /\ accepted \in Seq(Msg)
    BY <1>1 DEF TypeOK
  <2>4. wire' \in Seq(Msg \X Nat) /\ accepted' \in Seq(Msg)
    BY <1>7, <2>2, <2>3
  <2> QED
    BY <1>2, <1>4, <1>7, <2>1, <2>2, <2>4
<1>8. CASE /\ ret >= 0
           /\ wire' = wire \o First(Bytes(m), ret)
           /\ inFlight' = inFlight + ret
           /\ accepted' = Append(accepted, m)
           /\ ret < Size[m] /\ Buffer(Rest(Bytes(m), ret)) /\ queue' = q
           /\ UNCHANGED << finSent, peer, inbox, failed >>
  <2> DEFINE rest == Rest(Bytes(m), ret)
  <2>1. rest \in Seq(Msg \X Nat) /\ rest # << >>
    BY <1>2, <1>7, <1>8
  <2>2. outputBuffer_' = outputBuffer_ \o rest /\ outputBuffer_ \in Seq(Msg \X Nat)
    BY <1>1, <1>8 DEF Buffer, TypeOK
  <2>3. outputBuffer_' \in Seq(Msg \X Nat) /\ outputBuffer_' # << >>
    <3> HIDE DEF rest
    <3>1. Len(rest) \in Nat \ {0} /\ Len(outputBuffer_) \in Nat
      BY <2>1, <2>2
    <3>2. /\ outputBuffer_ \o rest \in Seq(Msg \X Nat)
          /\ Len(outputBuffer_ \o rest) = Len(outputBuffer_) + Len(rest)
      BY <2>1, <2>2
    <3> QED
      BY <2>2, <3>1, <3>2
  <2>4. /\ slot' = slot /\ "write" \in events_'
        /\ "read" \in events_' <=> "read" \in events_
        /\ events_' \subseteq {"read", "write"} /\ mask' \subseteq {"read", "write"}
        /\ slot = "watched" => "write" \in mask'
    <3>1. /\ events_ \subseteq {"read", "write"} /\ mask \subseteq {"read", "write"}
          /\ slot \in {"watched", "muted", "removed"}
      BY <1>1 DEF TypeOK
    <3>2. CASE isWriting
      BY <1>1, <1>8, <3>1, <3>2 DEF Buffer, channel, isWriting
    <3>3. CASE ~isWriting
      <4>1. UpdateChannel(events_ \cup {"write"})
        BY <1>8, <3>3 DEF Buffer
      <4> QED
        BY <3>1, <4>1 DEF UpdateChannel
    <3> QED
      BY <3>2, <3>3
  <2>5. slot = "watched" => ~finSent
    <3>1. ASSUME slot = "watched", finSent
          PROVE  FALSE
      <4>1. outputBuffer_ = << >> /\ ~isWriting
        BY <1>1, <3>1 DEF FinAfterBuffer
      <4>2. WritesAtOnce
        BY <4>1 DEF WritesAtOnce
      <4> QED
        BY <1>4, <1>8, <3>1, <4>2
    <3> QED
      BY <3>1
  <2> QED
    BY <1>7, <1>8, <2>3, <2>4, <2>5
<1>9. CASE /\ ret >= 0
           /\ wire' = wire \o First(Bytes(m), ret)
           /\ inFlight' = inFlight + ret
           /\ accepted' = Append(accepted, m)
           /\ ~(ret < Size[m]) /\ QueueWriteComplete(q)
           /\ UNCHANGED << channel, outputBuffer_ >>
           /\ UNCHANGED << finSent, peer, inbox, failed >>
  <2>1. UNCHANGED << events_, slot, mask, outputBuffer_ >>
    BY <1>9 DEF channel
  <2> QED
    BY <1>1, <1>7, <1>9, <2>1 DEF TypeOK, FinAfterBuffer, isWriting,
                                  QueueWriteComplete
<1> QED
  BY <1>5, <1>6, <1>8, <1>9

-----------------------------------------------------------------------------
(* The loop between handlers, and the peer.                                 *)

\* What Inner reads.
seen == << slot, events_, mask, outputBuffer_, finSent, failed, state_, alive,
           queue, holders, call, serverAlive, removing, inMap >>

LEMMA InnerReads ==
  ASSUME Inner, UNCHANGED seen
  PROVE  Inner'
BY DEF Inner, seen, BufferIsPolled, FinAfterBuffer, ClosesOnce,
       DestructedAfterRemoval, StateMatchesSlot, WatchedReads, EstablishedFirst,
       NoCallBefore, CallersHold, KeptUntilClosed, DestroyedIsQueued, isWriting,
       Closing, Running

\* A callback that had the last pointer ends the program.
LEMMA DanglingKeepsInner ==
  ASSUME Inner, failed' = "dangling",
         UNCHANGED << slot, events_, mask, outputBuffer_, finSent, state_, alive,
                      queue, holders, call, serverAlive, removing, inMap >>
  PROVE  Inner'
BY DEF Inner, BufferIsPolled, FinAfterBuffer, ClosesOnce, DestructedAfterRemoval,
       StateMatchesSlot, WatchedReads, EstablishedFirst, NoCallBefore,
       CallersHold, KeptUntilClosed, DestroyedIsQueued, isWriting, Closing, Running

LEMMA LoopOnly ==
  ASSUME Inv, Poll \/ EndCallback \/ BeginFunctors \/ EndFunctors
  PROVE  Inv'
<1>1. TypeOK /\ ReadEventIsCurrent /\ Inner
  BY DEF Inv
<1>2. /\ UNCHANGED << elsewhere, connection, network, queue >>
      /\ failed' \in {failed, "dangling"}
  BY DEF Poll, EndCallback, BeginFunctors, EndFunctors
<1>3. UNCHANGED << slot, events_, mask, outputBuffer_, finSent, state_, alive,
                   queue, holders, call, serverAlive, removing, inMap, wire,
                   inFlight, peer, inbox, unsent, accepted >>
  BY <1>2 DEF elsewhere, connection, network, channel, server, threads, history
<1>4. Len(queue) \in Nat /\ queue \in Seq(Functor)
  BY <1>1 DEF TypeOK
<1>5. /\ pc' \in {"poll", "events", "functors"}
      /\ revents_' \subseteq {"read", "write"}
      /\ batch' \in 0 .. Len(queue) /\ ran' \in BOOLEAN /\ inCallback' \in BOOLEAN
      /\ "read" \in revents_' =>
           pc' = "events" /\ (slot = "watched" \/ (slot = "removed" /\ ~serverAlive))
  <2>1. /\ pc \in {"poll", "events", "functors"}
        /\ revents_ \subseteq {"read", "write"} /\ mask \subseteq {"read", "write"}
        /\ batch \in 0 .. Len(queue) /\ ran \in BOOLEAN /\ inCallback \in BOOLEAN
        /\ "read" \in revents_ =>
             pc = "events" /\ (slot = "watched" \/ (slot = "removed" /\ ~serverAlive))
    BY <1>1 DEF TypeOK, ReadEventIsCurrent
  <2>2. CASE Poll
    BY <2>1, <2>2 DEF Poll
  <2>3. CASE EndCallback
    BY <2>1, <2>3 DEF EndCallback
  <2>4. CASE BeginFunctors
    BY <1>4, <2>1, <2>4 DEF BeginFunctors
  <2>5. CASE EndFunctors
    BY <2>1, <2>5 DEF EndFunctors
  <2> QED
    BY <2>2, <2>3, <2>4, <2>5
<1>6. TypeOK'
  BY <1>1, <1>2, <1>3, <1>5 DEF TypeOK
<1>7. ReadEventIsCurrent'
  BY <1>3, <1>5 DEF ReadEventIsCurrent
<1>8. Inner'
  BY <1>1, <1>2, <1>3, InnerReads, DanglingKeepsInner DEF seen
<1> QED
  BY <1>6, <1>7, <1>8 DEF Inv

LEMMA PeerOnly ==
  ASSUME Inv, PeerSends \/ PeerReads \/ PeerFin \/ PeerRst
  PROVE  Inv'
<1>1. TypeOK /\ ReadEventIsCurrent /\ Inner
  BY DEF Inv
<1>2. UNCHANGED << program, wire, finSent >>
  BY DEF PeerSends, PeerReads, PeerFin, PeerRst
<1>3. UNCHANGED << seen, pc, revents_, batch, ran, inCallback, wire, unsent,
                   accepted >>
  BY <1>2 DEF program, loop, elsewhere, connection, seen, channel, server,
              threads, history
<1>4. inFlight' \in 0 .. Room
  <2>1. inFlight \in 0 .. Room /\ Room \in Nat
    BY <1>1, SizeAssumption DEF TypeOK
  <2> QED
    BY <2>1 DEF PeerSends, PeerReads, PeerFin, PeerRst
<1>5. peer' \in {"open", "fin", "rst", "reported"} /\ inbox' \in BOOLEAN
  BY <1>1 DEF TypeOK, PeerSends, PeerReads, PeerFin, PeerRst
<1>6. TypeOK'
  BY <1>1, <1>3, <1>4, <1>5 DEF TypeOK, seen
<1>7. ReadEventIsCurrent'
  BY <1>1, <1>3 DEF ReadEventIsCurrent, seen
<1>8. Inner'
  BY <1>1, <1>3, InnerReads
<1> QED
  BY <1>6, <1>7, <1>8 DEF Inv

-----------------------------------------------------------------------------
(* The other threads.                                                       *)

LEMMA ThreadOnly ==
  ASSUME Inv, NEW th \in Thread,
         \/ \E m \in Msg : SendTest(th, m)
         \/ ShutdownTest(th) \/ ShutdownSet(th) \/ Release(th)
  PROVE  Inv'
<1>1. TypeOK /\ ReadEventIsCurrent /\ Inner
  BY DEF Inv
<1>2. UNCHANGED << loopThread, queue, accepted >>
  BY DEF SendTest, ShutdownTest, ShutdownSet, Release, history
<1>3. UNCHANGED << slot, events_, mask, outputBuffer_, finSent, failed, alive,
                   queue, serverAlive, removing, inMap, pc, revents_, batch, ran,
                   inCallback, wire, inFlight, peer, inbox, accepted >>
  BY <1>2 DEF loopThread, loop, channel, network, server
<1>4. /\ call \in [Thread -> Call] /\ holders \subseteq Thread
      /\ unsent \subseteq Msg /\ state_ \in State
  BY <1>1 DEF TypeOK
<1>5. /\ \A m \in Msg : << "send", m >> \in Call
      /\ << "setState" >> \in Call /\ << "shutdown" >> \in Call
      /\ << "none" >> \in Call /\ << "setState" >> # << "none" >>
      /\ "disconnecting" \in State
  BY DEF Call, State
<1>6. /\ call' \in [Thread -> Call] /\ holders' \subseteq holders
      /\ unsent' \subseteq Msg /\ holders' \in SUBSET Thread
      /\ \/ /\ call' = call /\ call[th] = << "none" >> /\ holders' = holders \ {th}
            /\ state_' = state_
         \/ /\ th \in holders /\ holders' = holders
            /\ \A t \in Thread \ {th} : call'[t] = call[t]
            /\ state_' = state_ \/ state_' = "disconnecting"
  <2>1. CASE \E m \in Msg : SendTest(th, m)
    BY <1>4, <1>5, <2>1 DEF SendTest
  <2>2. CASE ShutdownTest(th)
    BY <1>4, <1>5, <2>2 DEF ShutdownTest, history
  <2>3. CASE ShutdownSet(th)
    <3>1. th \in holders
      BY <1>1, <1>5, <2>3 DEF ShutdownSet, Inner, CallersHold
    <3> QED
      BY <1>4, <1>5, <2>3, <3>1 DEF ShutdownSet, history
  <2>4. CASE Release(th)
    BY <1>4, <1>5, <2>4 DEF Release, history
  <2> QED
    BY <2>1, <2>2, <2>3, <2>4
<1>7. th \in holders => slot # "none"
  BY <1>1 DEF Inner, NoCallBefore
<1>8. TypeOK'
  <2>1. state_' \in State
    BY <1>4, <1>5, <1>6
  <2> QED
    BY <1>1, <1>3, <1>6, <2>1 DEF TypeOK
<1>9. ReadEventIsCurrent'
  BY <1>1, <1>3 DEF ReadEventIsCurrent
<1>10. (CallersHold /\ NoCallBefore)'
  BY <1>1, <1>3, <1>6, <1>7 DEF Inner, CallersHold, NoCallBefore
<1>11. (StateMatchesSlot /\ ClosesOnce)'
  BY <1>1, <1>3, <1>6, <1>7 DEF Inner, StateMatchesSlot, ClosesOnce, Closing
<1>12. Inner'
  BY <1>1, <1>3, <1>10, <1>11
     DEF Inner, BufferIsPolled, FinAfterBuffer, DestructedAfterRemoval,
         WatchedReads, EstablishedFirst, KeptUntilClosed, DestroyedIsQueued,
         isWriting, Closing, Running
<1> QED
  BY <1>8, <1>9, <1>12 DEF Inv

LEMMA QueueInLoopOnly ==
  ASSUME Inv, NEW th \in Thread, QueueInLoop(th)
  PROVE  Inv'
<1>1. TypeOK /\ ReadEventIsCurrent /\ Inner
  BY DEF Inv
<1>2. UNCHANGED << loopThread, history, state_, holders >>
  BY DEF QueueInLoop
<1>3. UNCHANGED << slot, events_, mask, outputBuffer_, finSent, failed, alive,
                   serverAlive, removing, inMap, pc, revents_, batch, ran,
                   inCallback, wire, inFlight, peer, inbox, accepted, unsent,
                   state_, holders >>
  BY <1>2 DEF loopThread, loop, channel, network, server, history
<1>4. /\ call \in [Thread -> Call] /\ call[th] \in Functor
      /\ call' = [call EXCEPT ![th] = << "none" >>] /\ << "none" >> \in Call
  BY <1>1 DEF TypeOK, QueueInLoop, Call
<1>5. call[th] # << "established" >> /\ call[th] # << "none" >>
  <2>1. /\ << "established" >> \notin Call /\ << "none" >> \notin Functor
    BY DEF Call, Functor
  <2> QED
    BY <1>4, <2>1
<1>6. queue' = Append(queue, call[th])
  BY DEF QueueInLoop
<1>7. /\ queue' \in Seq(Functor) /\ Len(queue') = Len(queue) + 1
      /\ EstablishedFirst'
      /\ Queued(queue, << "destroyed" >>) => Queued(queue', << "destroyed" >>)
  BY <1>1, <1>3, <1>4, <1>5, <1>6, Push DEF Inner
<1>8. TypeOK'
  <2>1. batch' \in 0 .. Len(queue') /\ queue' \in Seq(Functor)
    BY <1>1, <1>3, <1>7 DEF TypeOK
  <2>2. call' \in [Thread -> Call]
    BY <1>4
  <2> QED
    BY <1>1, <1>3, <2>1, <2>2 DEF TypeOK
<1>9. ReadEventIsCurrent'
  BY <1>1, <1>3 DEF ReadEventIsCurrent
<1>10. (CallersHold /\ NoCallBefore)'
  BY <1>1, <1>3, <1>4 DEF Inner, CallersHold, NoCallBefore
<1>11. Inner'
  BY <1>1, <1>3, <1>7, <1>10
     DEF Inner, BufferIsPolled, FinAfterBuffer, ClosesOnce, StateMatchesSlot,
         DestructedAfterRemoval, WatchedReads, KeptUntilClosed, DestroyedIsQueued,
         isWriting, Closing, Running
<1> QED
  BY <1>8, <1>9, <1>11 DEF Inv

-----------------------------------------------------------------------------
(* The base loop and the server.                                            *)

LEMMA RemoveOnly ==
  ASSUME Inv, Running,
         \/ RemoveConnectionInLoop
         \/ /\ ServerDtor /\ UNCHANGED << channel, state_, failed >>
            /\ EraseAndDestroy \/ UNCHANGED << queue, inMap >>
  PROVE  Inv'
<1>1. TypeOK /\ ReadEventIsCurrent /\ Inner
  BY DEF Inv
<1>2. UNCHANGED << connection, loop, network, threads, history, alive >>
  BY DEF RemoveConnectionInLoop, ServerDtor, connection
<1>3. UNCHANGED << slot, events_, mask, outputBuffer_, finSent, alive, pc,
                   revents_, batch, ran, inCallback, wire, inFlight, peer, inbox,
                   accepted, unsent, state_, holders, call >>
  BY <1>2 DEF loop, channel, connection, network, threads, history
<1>4. /\ removing' \in BOOLEAN /\ serverAlive' \in BOOLEAN /\ inMap' \in BOOLEAN
      /\ \/ inMap' = FALSE /\ queue' = Append(queue, << "destroyed" >>)
         \/ inMap' = inMap /\ queue' = queue
      /\ KeptUntilClosed'
  <2>1. /\ removing \in BOOLEAN /\ serverAlive \in BOOLEAN /\ inMap \in BOOLEAN
        /\ failed = "none" /\ KeptUntilClosed
    BY <1>1 DEF TypeOK, Inner, Running
  <2>2. CASE RemoveConnectionInLoop
    BY <1>3, <2>1, <2>2 DEF RemoveConnectionInLoop, EraseAndDestroy,
                            KeptUntilClosed, Closing
  <2>3. CASE ServerDtor /\ (EraseAndDestroy \/ UNCHANGED << queue, inMap >>)
    BY <1>3, <2>1, <2>3 DEF ServerDtor, EraseAndDestroy, KeptUntilClosed
  <2> QED
    BY <2>2, <2>3
<1>5. /\ queue' \in Seq(Functor) /\ batch \in 0 .. Len(queue')
      /\ EstablishedFirst'
      /\ ~inMap' => slot = "removed" \/ Queued(queue', << "destroyed" >>)
  <2>1. /\ queue \in Seq(Functor) /\ batch \in 0 .. Len(queue)
        /\ EstablishedFirst /\ DestroyedIsQueued
    BY <1>1 DEF TypeOK, Inner
  <2>2. CASE inMap' = inMap /\ queue' = queue
    BY <1>3, <2>1, <2>2 DEF EstablishedFirst, DestroyedIsQueued
  <2>3. CASE queue' = Append(queue, << "destroyed" >>)
    <3>1. /\ queue' \in Seq(Functor) /\ Len(queue') = Len(queue) + 1
          /\ EstablishedFirst' /\ Queued(queue', << "destroyed" >>)
      BY <1>1, <1>3, <2>1, <2>3, Push, FunctorsDiffer
    <3>2. Len(queue) \in Nat
      BY <2>1
    <3> QED
      BY <2>1, <3>1, <3>2
  <2> QED
    BY <1>4, <2>2, <2>3
<1>6. failed' \in {"none", "dangling"}
  <2>1. KeptUntilClosed /\ inMap \in BOOLEAN /\ serverAlive \in BOOLEAN
    BY <1>1 DEF Inner, TypeOK
  <2>2. RemoveConnectionInLoop /\ serverAlive => inMap
    BY <2>1 DEF KeptUntilClosed, RemoveConnectionInLoop
  <2>3. CASE RemoveConnectionInLoop
    <3>1. failed' = failed \/ failed' = "dangling"
      BY <2>2, <2>3 DEF RemoveConnectionInLoop
    <3> QED
      BY <3>1 DEF Running
  <2>4. CASE UNCHANGED failed
    BY <2>4 DEF Running
  <2> QED
    BY <2>3, <2>4
<1>7. TypeOK'
  <2>1. failed' \in {"none", "send", "update", "remove", "retrieve", "handleClose",
                    "erase", "dangling", "dtor"}
    BY <1>6
  <2>2. removing' \in BOOLEAN /\ serverAlive' \in BOOLEAN /\ inMap' \in BOOLEAN
    BY <1>4
  <2> QED
    BY <1>1, <1>3, <1>5, <2>1, <2>2 DEF TypeOK
<1>8. ReadEventIsCurrent'
  <2>1. serverAlive' => serverAlive
    BY DEF RemoveConnectionInLoop, ServerDtor
  <2> QED
    BY <1>1, <1>3, <2>1 DEF ReadEventIsCurrent
<1>9. Inner'
  <2>1. DestroyedIsQueued'
    BY <1>3, <1>5 DEF DestroyedIsQueued
  <2>2. ClosesOnce' /\ KeptUntilClosed' /\ EstablishedFirst'
    BY <1>4, <1>5, <1>6 DEF ClosesOnce
  <2> QED
    BY <1>1, <1>3, <2>1, <2>2
       DEF Inner, BufferIsPolled, FinAfterBuffer, StateMatchesSlot,
           DestructedAfterRemoval, WatchedReads, NoCallBefore, CallersHold,
           isWriting, Closing
<1> QED
  BY <1>7, <1>8, <1>9 DEF Inv

\* connectionDestryed removes a channel that is there, or its assertion fails.
LEMMA DestroyedRemoves ==
  ASSUME Inv, ConnectionDestryed, slot # "none"
  PROVE  \/ /\ state_' \in {"disconnecting", "disconnected"}
            /\ events_' = {} /\ slot' = "removed" /\ mask' = {} /\ failed' = failed
         \/ UNCHANGED << events_, slot, mask, state_ >> /\ failed' = "remove"
<1>1. TypeOK /\ StateMatchesSlot /\ WatchedReads
  BY DEF Inv, Inner
<1>2. CASE state_ = "connected" \/ events_ = {}
  <2>1. /\ state_' = IF state_ = "connected" THEN "disconnected" ELSE state_
        /\ events_' = {} /\ slot' = "removed" /\ mask' = {} /\ failed' = failed
    BY <1>2 DEF ConnectionDestryed
  <2>2. CASE state_ = "connected"
    BY <2>1, <2>2
  <2>3. CASE state_ # "connected"
    <3>1. slot # "watched"
      BY <1>1, <1>2, <2>3 DEF WatchedReads
    <3> QED
      BY <1>1, <2>1, <2>3, <3>1 DEF StateMatchesSlot, Closing, TypeOK
  <2> QED
    BY <2>2, <2>3
<1>3. CASE ~(state_ = "connected" \/ events_ = {})
  BY <1>3 DEF ConnectionDestryed, channel
<1> QED
  BY <1>2, <1>3

\* The server's destructor calls connectionDestryed.
LEMMA DestroyAtOnceOnly ==
  ASSUME Inv, Running, ServerDtor, inMap' = FALSE, slot # "none",
         ConnectionDestryed, UNCHANGED queue
  PROVE  Inv'
<1>1. TypeOK /\ ReadEventIsCurrent /\ Inner /\ failed = "none"
  BY DEF Inv, Running
<1>2. /\ UNCHANGED << loop, outputBuffer_, network, threads, history, removing,
                      alive >>
      /\ serverAlive' = FALSE
  BY DEF ServerDtor
<1>3. UNCHANGED << outputBuffer_, finSent, alive, pc, revents_, batch, ran,
                   inCallback, wire, inFlight, peer, inbox, accepted, unsent,
                   holders, call, removing, queue >>
  BY <1>2 DEF loop, network, threads, history
<1>4. \/ /\ state_' \in {"disconnecting", "disconnected"}
         /\ events_' = {} /\ slot' = "removed" /\ mask' = {} /\ failed' = "none"
      \/ UNCHANGED << events_, slot, mask, state_ >> /\ failed' = "remove"
  BY <1>1, DestroyedRemoves
<1>5. TypeOK'
  <2>1. /\ state_' \in State /\ events_' \subseteq {"read", "write"}
        /\ mask' \subseteq {"read", "write"}
        /\ slot' \in {"none", "watched", "muted", "removed"}
        /\ failed' \in {"none", "remove"}
    BY <1>1, <1>4 DEF TypeOK, State
  <2> QED
    BY <1>1, <1>2, <1>3, <2>1 DEF TypeOK
<1>6. ReadEventIsCurrent'
  BY <1>1, <1>2, <1>3, <1>4 DEF ReadEventIsCurrent
<1>7. (EstablishedFirst /\ DestroyedIsQueued /\ KeptUntilClosed /\ ClosesOnce)'
  BY <1>1, <1>2, <1>3, <1>4
     DEF Inner, EstablishedFirst, DestroyedIsQueued, KeptUntilClosed, ClosesOnce,
         Running
<1>8. (StateMatchesSlot /\ WatchedReads /\ NoCallBefore /\ CallersHold)'
  BY <1>1, <1>3, <1>4
     DEF Inner, StateMatchesSlot, WatchedReads, NoCallBefore, CallersHold, Closing
<1>9. (BufferIsPolled /\ FinAfterBuffer /\ DestructedAfterRemoval)'
  BY <1>1, <1>3, <1>4
     DEF Inner, BufferIsPolled, FinAfterBuffer, DestructedAfterRemoval, isWriting
<1> QED
  BY <1>5, <1>6, <1>7, <1>8, <1>9 DEF Inv, Inner

LEMMA ServerDtorOnly ==
  ASSUME Inv, Running, ServerDtor
  PROVE  Inv'
<1>1. \/ /\ UNCHANGED << channel, state_, failed >>
         /\ EraseAndDestroy \/ UNCHANGED << queue, inMap >>
      \/ /\ inMap' = FALSE /\ slot # "none"
         /\ ConnectionDestryed /\ UNCHANGED queue
  BY DEF ServerDtor
<1> QED
  BY <1>1, RemoveOnly, DestroyAtOnceOnly

\* With the last pointer gone the queue is empty, and the channel is removed.
LEMMA DtorOnly ==
  ASSUME Inv, Running, Dtor
  PROVE  Inv'
<1>1. TypeOK /\ ReadEventIsCurrent /\ Inner
  BY DEF Inv
<1>2. UNCHANGED << connection, loop, network, server, threads, history, queue >>
  BY DEF Dtor
<1>3. UNCHANGED << slot, events_, mask, outputBuffer_, finSent, serverAlive,
                   removing, inMap, queue, pc, revents_, batch, ran, inCallback,
                   wire, inFlight, peer, inbox, accepted, unsent, state_, holders,
                   call >>
  BY <1>2 DEF loop, channel, connection, network, threads, history, server
<1>4. slot = "removed"
  <2>1. ~Queued(queue, << "destroyed" >>)
    BY DEF Dtor, Unreferenced, Queued
  <2> QED
    BY <1>1, <2>1 DEF Inner, DestroyedIsQueued, Dtor, Unreferenced
<1>5. /\ alive' = FALSE
      /\ failed' = IF state_ # "disconnected" THEN "dtor"
                   ELSE IF revents_ # {} THEN "dangling" ELSE "none"
  BY DEF Dtor, Running
<1>6. TypeOK'
  <2>1. failed' \in {"none", "send", "update", "remove", "retrieve", "handleClose",
                    "erase", "dangling", "dtor"}
    BY <1>5
  <2>2. alive' \in BOOLEAN
    BY <1>5
  <2> QED
    BY <1>1, <1>3, <2>1, <2>2 DEF TypeOK
<1>7. ReadEventIsCurrent'
  BY <1>1, <1>3 DEF ReadEventIsCurrent
<1>8. Inner'
  BY <1>1, <1>3, <1>4, <1>5
     DEF Inner, BufferIsPolled, FinAfterBuffer, ClosesOnce, StateMatchesSlot,
         DestructedAfterRemoval, WatchedReads, DestroyedIsQueued, NoCallBefore,
         CallersHold, isWriting, Closing, EstablishedFirst, KeptUntilClosed
<1> QED
  BY <1>6, <1>7, <1>8 DEF Inv

-----------------------------------------------------------------------------
(* The events of the channel.                                               *)

\* A channel that reports reading is watched, so that its state is that of an
\* open connection and the server still has it; or the server is gone.
LEMMA ReadOnly ==
  ASSUME Inv, Running, HandleRead
  PROVE  Inv'
<1>1. TypeOK /\ ReadEventIsCurrent /\ Inner /\ failed = "none"
  BY DEF Inv, Running
<1>2. UNCHANGED << threads, history, pc, batch, ran, queue, outputBuffer_, wire,
                   inFlight, finSent, inMap, serverAlive, alive >>
  BY DEF HandleRead
<1>3. UNCHANGED << pc, batch, ran, queue, outputBuffer_, wire, inFlight, finSent,
                   inMap, serverAlive, alive, call, holders, unsent, accepted >>
  BY <1>2 DEF threads, history
<1>4. /\ slot = "watched" \/ (slot = "removed" /\ ~serverAlive)
      /\ "read" \notin revents_' /\ revents_' \subseteq {"read", "write"}
  BY <1>1 DEF HandleRead, ReadEventIsCurrent, TypeOK
<1>5. /\ inCallback' \in BOOLEAN /\ inbox' \in BOOLEAN
      /\ peer' \in {"open", "fin", "rst", "reported"}
      /\ \/ UNCHANGED << events_, slot, mask, state_, removing, failed >>
         \/ HandleClose
  BY <1>1 DEF HandleRead, TypeOK, channel
<1>6. serverAlive => slot = "watched" /\ state_ \in {"connected", "disconnecting"}
  BY <1>1, <1>4 DEF Inner, StateMatchesSlot
<1>7. CASE UNCHANGED << events_, slot, mask, state_, removing, failed >>
  <2>1. TypeOK'
    BY <1>1, <1>3, <1>4, <1>5, <1>7 DEF TypeOK
  <2>2. ReadEventIsCurrent'
    BY <1>4 DEF ReadEventIsCurrent
  <2>3. Inner'
    BY <1>1, <1>3, <1>7, InnerReads DEF seen
  <2> QED
    BY <2>1, <2>2, <2>3 DEF Inv
<1>8. CASE HandleClose
  <2>1. CASE serverAlive
    <3>1. /\ state_' = "disconnected" /\ events_' = {} /\ mask' = {}
          /\ slot' = "muted" /\ removing' = TRUE /\ failed' = failed
      BY <1>6, <1>8, <2>1 DEF HandleClose, DisableAll, UpdateChannel,
                                    CloseCallback
    <3>2. serverAlive => inMap
      BY <1>1, <1>6 DEF Inner, KeptUntilClosed, Closing
    <3>3. TypeOK'
      BY <1>1, <1>3, <1>4, <1>5, <3>1 DEF TypeOK, State
    <3>4. ReadEventIsCurrent'
      BY <1>4 DEF ReadEventIsCurrent
    <3>5. (KeptUntilClosed /\ DestroyedIsQueued)'
      BY <1>1, <1>3, <1>6, <2>1, <3>1, <3>2
         DEF Inner, KeptUntilClosed, DestroyedIsQueued, Closing, Running
    <3>6. (DestructedAfterRemoval /\ ClosesOnce /\ EstablishedFirst)'
      BY <1>1, <1>3, <1>6, <2>1, <3>1
         DEF Inner, DestructedAfterRemoval, ClosesOnce, EstablishedFirst
    <3>7. Inner'
      BY <1>1, <1>3, <3>1, <3>5, <3>6
         DEF Inner, BufferIsPolled, FinAfterBuffer, StateMatchesSlot,
             WatchedReads, NoCallBefore, CallersHold, isWriting, Closing
    <3> QED
      BY <3>3, <3>4, <3>7 DEF Inv
  <2>2. CASE ~serverAlive
    <3>1. /\ UNCHANGED << events_, slot, mask, state_, removing >>
          /\ \/ failed' = "dangling"
             \/ failed' = "handleClose" /\ slot = "removed"
      BY <1>1, <1>4, <1>8, <2>2
         DEF HandleClose, channel, Inner, StateMatchesSlot
    <3>2. TypeOK'
      BY <1>1, <1>3, <1>4, <1>5, <3>1 DEF TypeOK
    <3>3. ReadEventIsCurrent'
      BY <1>4 DEF ReadEventIsCurrent
    <3>4. (ClosesOnce /\ DestroyedIsQueued)'
      BY <1>3, <2>2, <3>1 DEF ClosesOnce, DestroyedIsQueued, Running
    <3>5. Inner'
      BY <1>1, <1>3, <3>1, <3>4
         DEF Inner, BufferIsPolled, FinAfterBuffer, StateMatchesSlot,
             WatchedReads, NoCallBefore, CallersHold, isWriting, Closing,
             DestructedAfterRemoval, EstablishedFirst, KeptUntilClosed
    <3> QED
      BY <3>2, <3>3, <3>5 DEF Inv
  <2> QED
    BY <2>1, <2>2
<1> QED
  BY <1>5, <1>7, <1>8

LEMMA WriteOnly ==
  ASSUME Inv, Running, HandleWrite
  PROVE  Inv'
<1>1. TypeOK /\ ReadEventIsCurrent /\ Inner /\ failed = "none"
  BY DEF Inv, Running
<1>2. UNCHANGED << elsewhere, pc, batch, ran, inCallback, state_, peer, inbox >>
      /\ revents_' = {}
  BY DEF HandleWrite
<1>3. UNCHANGED << pc, batch, ran, inCallback, state_, peer, inbox, inMap,
                   removing, serverAlive, alive, call, holders, unsent, accepted >>
  BY <1>2 DEF elsewhere, threads, history, server
<1>4. ReadEventIsCurrent'
  BY <1>2 DEF ReadEventIsCurrent
<1> DEFINE ret == WriteResult(Len(outputBuffer_))
<1>5. /\ outputBuffer_ \in Seq(Msg \X Nat) /\ Len(outputBuffer_) \in Nat
      /\ inFlight \in 0 .. Room /\ wire \in Seq(Msg \X Nat)
      /\ queue \in Seq(Functor) /\ Len(queue) \in Nat /\ finSent \in BOOLEAN
      /\ events_ \subseteq {"read", "write"} /\ batch \in 0 .. Len(queue)
  BY <1>1 DEF TypeOK
<1>6. /\ ret = -1 \/ ret \in 0 .. Len(outputBuffer_)
      /\ ret >= 0 => inFlight + ret \in 0 .. Room /\ ~finSent
  BY <1>5, WriteTakesWhatFits
<1>7. \/ UNCHANGED << channel, queue, outputBuffer_, wire, inFlight, finSent,
                      failed >>
      \/ /\ failed' = "retrieve"
         /\ UNCHANGED << channel, queue, outputBuffer_, wire, inFlight, finSent >>
      \/ /\ isWriting /\ ret >= 0
         /\ wire' = wire \o First(outputBuffer_, ret)
         /\ inFlight' = inFlight + ret
         /\ outputBuffer_' = Rest(outputBuffer_, ret)
         /\ IF ret = Len(outputBuffer_)
            THEN BufferWritten
            ELSE UNCHANGED << channel, queue, finSent >>
         /\ failed' = failed
  BY DEF HandleWrite
<1> HIDE DEF ret
<1>8. CASE UNCHANGED << channel, queue, outputBuffer_, wire, inFlight, finSent,
                        failed >>
  <2>1. UNCHANGED seen
    BY <1>3, <1>8 DEF seen, channel
  <2>2. TypeOK'
    BY <1>1, <1>2, <1>3, <1>8, <2>1 DEF TypeOK, seen
  <2>3. Inner'
    BY <1>1, <2>1, InnerReads
  <2> QED
    BY <1>4, <2>2, <2>3 DEF Inv
<1>9. CASE /\ failed' = "retrieve"
           /\ UNCHANGED << channel, queue, outputBuffer_, wire, inFlight, finSent >>
  <2>1. UNCHANGED << events_, slot, mask >>
    BY <1>9 DEF channel
  <2>2. TypeOK'
    BY <1>1, <1>2, <1>3, <1>9, <2>1 DEF TypeOK
  <2>3. (ClosesOnce /\ DestroyedIsQueued)'
    BY <1>9 DEF ClosesOnce, DestroyedIsQueued, Running
  <2>4. Inner'
    BY <1>1, <1>3, <1>9, <2>1, <2>3
       DEF Inner, BufferIsPolled, FinAfterBuffer, StateMatchesSlot,
           WatchedReads, NoCallBefore, CallersHold, isWriting, Closing,
           DestructedAfterRemoval, EstablishedFirst, KeptUntilClosed
  <2> QED
    BY <1>4, <2>2, <2>4 DEF Inv
<1>10. ASSUME isWriting, ret >= 0,
              wire' = wire \o First(outputBuffer_, ret),
              inFlight' = inFlight + ret,
              outputBuffer_' = Rest(outputBuffer_, ret),
              IF ret = Len(outputBuffer_)
              THEN BufferWritten
              ELSE UNCHANGED << channel, queue, finSent >>,
              failed' = failed
       PROVE  Inv'
  <2>1. ret \in 0 .. Len(outputBuffer_) /\ inFlight' \in 0 .. Room /\ ~finSent
    BY <1>6, <1>10
  <2>2. /\ First(outputBuffer_, ret) \in Seq(Msg \X Nat)
        /\ outputBuffer_' \in Seq(Msg \X Nat)
        /\ outputBuffer_' = << >> <=> ret = Len(outputBuffer_)
    BY <1>5, <1>10, <2>1, TypesOfParts
  <2>3. wire' \in Seq(Msg \X Nat)
    BY <1>5, <1>10, <2>2
  <2>4. /\ queue' \in Seq(Functor) /\ batch \in 0 .. Len(queue')
        /\ slot' = slot /\ finSent' \in BOOLEAN
        /\ \/ /\ outputBuffer_' # << >> /\ queue' = queue /\ finSent' = FALSE
              /\ UNCHANGED << events_, mask >>
           \/ /\ outputBuffer_' = << >> /\ events_' = events_ \ {"write"}
              /\ mask' = mask
              /\ queue' \in {queue, Append(queue, << "writeComplete" >>)}
    <3>1. CASE ret = Len(outputBuffer_)
      <4>1. /\ DisableWrite
            /\ queue' \in {queue, Append(queue, << "writeComplete" >>)}
            /\ finSent' = (finSent \/ ~FALSE) \/ finSent' = finSent
        BY <1>10, <3>1 DEF BufferWritten, ShutdownInLoop, QueueWriteComplete
      <4>2. queue' \in Seq(Functor) /\ Len(queue') \in {Len(queue), Len(queue) + 1}
        BY <1>1, <1>5, <4>1, FunctorsDiffer, Push
      <4>3. finSent' \in BOOLEAN
        BY <1>5, <4>1
      <4> QED
        BY <1>5, <2>2, <3>1, <4>1, <4>2, <4>3 DEF DisableWrite
    <3>2. CASE ret # Len(outputBuffer_)
      BY <1>5, <1>10, <2>1, <2>2, <3>2 DEF channel
    <3> QED
      BY <3>1, <3>2
  <2>5. TypeOK'
    <3>1. events_' \subseteq {"read", "write"} /\ mask' = mask
      BY <1>5, <2>4
    <3>2. /\ queue' \in Seq(Functor) /\ batch \in 0 .. Len(queue')
          /\ slot' = slot /\ finSent' \in BOOLEAN /\ failed' = failed
          /\ inFlight' \in 0 .. Room /\ revents_' = {}
          /\ outputBuffer_' \in Seq(Msg \X Nat) /\ wire' \in Seq(Msg \X Nat)
      BY <1>2, <1>10, <2>1, <2>2, <2>3, <2>4
    <3> QED
      BY <1>1, <1>3, <3>1, <3>2 DEF TypeOK
  <2>6. EstablishedFirst' /\ DestroyedIsQueued'
    <3>1. CASE queue' = queue
      BY <1>1, <1>3, <1>10, <2>4, <3>1
         DEF Inner, EstablishedFirst, DestroyedIsQueued, Running
    <3>2. CASE queue' = Append(queue, << "writeComplete" >>)
      <4>1. /\ EstablishedFirst'
            /\ Queued(queue, << "destroyed" >>) => Queued(queue', << "destroyed" >>)
        BY <1>1, <2>4, <3>2, FunctorsDiffer, Push DEF Inner
      <4> QED
        BY <1>1, <1>3, <1>10, <2>4, <4>1 DEF Inner, DestroyedIsQueued, Running
    <3> QED
      BY <2>4, <3>1, <3>2
  <2>7. BufferIsPolled' /\ FinAfterBuffer' /\ WatchedReads'
    BY <1>1, <1>10, <2>4
       DEF Inner, BufferIsPolled, FinAfterBuffer, WatchedReads, isWriting
  <2>8. Inner'
    BY <1>1, <1>3, <1>10, <2>4, <2>6, <2>7
       DEF Inner, StateMatchesSlot, NoCallBefore, CallersHold, Closing, ClosesOnce,
           DestructedAfterRemoval, KeptUntilClosed
  <2> QED
    BY <1>4, <2>5, <2>8 DEF Inv
<1> QED
  BY <1>7, <1>8, <1>9, <1>10

-----------------------------------------------------------------------------
(* User callbacks.                                                          *)

LEMMA CallbackSendOnly ==
  ASSUME Inv, Running, NEW m \in Msg, CallbackSend(m)
  PROVE  Inv'
<1>1. TypeOK /\ ReadEventIsCurrent /\ Inner /\ failed = "none"
  BY DEF Inv, Running
<1>2. UNCHANGED << pc, revents_, batch, ran, inCallback, inMap, removing,
                   serverAlive, call, holders, state_, alive >>
      /\ unsent' \subseteq Msg /\ SendInLoop(m, queue) /\ state_ = "connected"
  BY <1>1 DEF CallbackSend, loop, server, threads, TypeOK
<1>3. /\ queue \in Seq(Functor) /\ batch \in 0 .. Len(queue) /\ Len(queue) \in Nat
  BY <1>1 DEF TypeOK
<1>4. slot = "watched"
  BY <1>1, <1>2 DEF Inner, StateMatchesSlot, Closing, TypeOK
<1>5. /\ slot' = slot /\ ("read" \in events_' <=> "read" \in events_)
      /\ events_' \subseteq {"read", "write"} /\ mask' \subseteq {"read", "write"}
      /\ outputBuffer_' \in Seq(Msg \X Nat) /\ wire' \in Seq(Msg \X Nat)
      /\ inFlight' \in 0 .. Room /\ accepted' \in Seq(Msg)
      /\ UNCHANGED << finSent, peer, inbox >>
      /\ \/ failed' = "none" /\ queue' \in {queue, Append(queue, << "writeComplete" >>)}
         \/ failed' \in {"send", "update"} /\ queue' = queue
      /\ BufferIsPolled' /\ FinAfterBuffer'
  BY <1>1, <1>2, <1>3, <1>4, SendInLoopKeeps
     DEF BufferIsPolled, FinAfterBuffer, isWriting
<1>6. /\ queue' \in Seq(Functor) /\ batch \in 0 .. Len(queue') /\ EstablishedFirst'
  <2>1. CASE queue' = queue
    BY <1>1, <1>3, <1>5, <2>1 DEF Inner, EstablishedFirst
  <2>2. CASE queue' = Append(queue, << "writeComplete" >>)
    <3>1. /\ queue' \in Seq(Functor) /\ Len(queue') = Len(queue) + 1
          /\ EstablishedFirst'
      BY <1>1, <1>5, <2>2, Push, FunctorsDiffer DEF Inner
    <3> QED
      BY <1>3, <3>1
  <2> QED
    BY <1>5, <2>1, <2>2
<1>7. DestroyedIsQueued'
  <2>1. queue' = queue \/ queue' = Append(queue, << "writeComplete" >>)
    BY <1>5
  <2>2. Queued(queue, << "destroyed" >>) => Queued(queue', << "destroyed" >>)
    BY <1>1, <2>1, Push, FunctorsDiffer
  <2> QED
    BY <1>1, <1>2, <1>5, <2>2 DEF Inner, DestroyedIsQueued, Running
<1>8. TypeOK'
  <2>1. failed' \in {"none", "send", "update", "remove", "retrieve", "handleClose",
                    "erase", "dangling", "dtor"}
    BY <1>5
  <2> QED
    BY <1>1, <1>2, <1>5, <1>6, <2>1 DEF TypeOK
<1>9. ReadEventIsCurrent'
  BY <1>1, <1>2, <1>5 DEF ReadEventIsCurrent
<1>10. ClosesOnce'
  BY <1>5 DEF ClosesOnce
<1>11. Inner'
  BY <1>1, <1>2, <1>5, <1>6, <1>7, <1>10
     DEF Inner, StateMatchesSlot, WatchedReads, NoCallBefore, CallersHold, Closing,
         DestructedAfterRemoval, KeptUntilClosed
<1> QED
  BY <1>8, <1>9, <1>11 DEF Inv

LEMMA CallbackShutdownOnly ==
  ASSUME Inv, Running, CallbackShutdown
  PROVE  Inv'
<1>1. TypeOK /\ ReadEventIsCurrent /\ Inner
  BY DEF Inv
<1>2. UNCHANGED << elsewhere, loop, channel, queue, outputBuffer_, wire, inFlight,
                   peer, inbox, failed >>
  BY DEF CallbackShutdown
<1>3. UNCHANGED << pc, revents_, batch, ran, inCallback, queue, events_, slot,
                   mask, outputBuffer_, wire, inFlight, peer, inbox, inMap,
                   removing, serverAlive, alive, call, holders, unsent, accepted,
                   failed >>
  BY <1>2 DEF elsewhere, loop, channel, server, threads, history
<1>4. /\ state_ = "connected" /\ state_' = "disconnecting"
      /\ finSent' = (finSent \/ ~isWriting)
  BY DEF CallbackShutdown, ShutdownInLoop
<1>5. slot = "watched"
  BY <1>1, <1>4 DEF Inner, StateMatchesSlot, Closing, TypeOK
<1>6. BufferIsPolled' /\ FinAfterBuffer'
  BY <1>1, <1>3, <1>4 DEF Inner, BufferIsPolled, FinAfterBuffer, isWriting
<1>7. TypeOK'
  <2>1. finSent' \in BOOLEAN /\ state_' \in State
    BY <1>4 DEF State
  <2> QED
    BY <1>1, <1>3, <2>1 DEF TypeOK
<1>8. ReadEventIsCurrent'
  BY <1>1, <1>3 DEF ReadEventIsCurrent
<1>9. StateMatchesSlot' /\ ClosesOnce' /\ EstablishedFirst'
  BY <1>1, <1>3, <1>4, <1>5
     DEF Inner, StateMatchesSlot, ClosesOnce, EstablishedFirst, Closing
<1>10. Inner'
  BY <1>1, <1>3, <1>6, <1>9
     DEF Inner, WatchedReads, NoCallBefore, CallersHold, Closing, Running,
         DestructedAfterRemoval, KeptUntilClosed, DestroyedIsQueued
<1> QED
  BY <1>7, <1>8, <1>10 DEF Inv

-----------------------------------------------------------------------------
(* The functors.                                                            *)

LEMMA RunSendOnly ==
  ASSUME Inv, Running, NEW m \in Msg, RunSend(m)
  PROVE  Inv'
<1>1. TypeOK /\ ReadEventIsCurrent /\ Inner /\ failed = "none"
  BY DEF Inv, Running
<1>2. UNCHANGED << inMap, removing, serverAlive, call, holders, inCallback, state_,
                   alive, unsent >>
      /\ Turn(<< "send", m >>) /\ SendInLoop(m, Tail(queue))
  BY DEF RunSend, server, threads
<1>3. /\ queue # << >> /\ Tail(queue) \in Seq(Functor) /\ batch \in Nat \ {0}
      /\ Len(Tail(queue)) = Len(queue) - 1 /\ Len(queue) \in Nat
      /\ batch' = batch - 1 /\ ran' = TRUE /\ batch' \in 0 .. Len(Tail(queue))
      /\ UNCHANGED << pc, revents_ >> /\ pc = "functors"
      /\ ~Queued(Tail(queue), << "established" >>)
      /\ slot # "none"
      /\ Queued(queue, << "destroyed" >>)
           <=> Queued(Tail(queue), << "destroyed" >>)
  <2> DEFINE f == << "send", m >>
  <2>1. f # << "established" >> /\ f # << "destroyed" >> /\ Turn(f)
    BY <1>2, FunctorsDiffer
  <2> HIDE DEF f
  <2> QED
    BY <2>1, TurnTakesHead
<1>4. /\ slot' = slot /\ ("read" \in events_' <=> "read" \in events_)
      /\ events_' \subseteq {"read", "write"} /\ mask' \subseteq {"read", "write"}
      /\ outputBuffer_' \in Seq(Msg \X Nat) /\ wire' \in Seq(Msg \X Nat)
      /\ inFlight' \in 0 .. Room /\ accepted' \in Seq(Msg)
      /\ UNCHANGED << finSent, peer, inbox >>
      /\ \/ /\ failed' = "none"
            /\ queue' \in {Tail(queue), Append(Tail(queue), << "writeComplete" >>)}
         \/ failed' \in {"send", "update"} /\ queue' = queue
      /\ BufferIsPolled' /\ FinAfterBuffer'
  BY <1>1, <1>2, <1>3, SendInLoopKeeps
     DEF BufferIsPolled, FinAfterBuffer, isWriting
<1>5. /\ queue' \in Seq(Functor) /\ batch' \in 0 .. Len(queue') /\ EstablishedFirst'
      /\ DestroyedIsQueued'
  <2>1. CASE queue' = queue /\ failed' \in {"send", "update"}
    <3>1. EstablishedFirst' /\ DestroyedIsQueued'
      BY <1>1, <1>4, <2>1
         DEF Inner, EstablishedFirst, DestroyedIsQueued, Running
    <3>2. queue \in Seq(Functor) /\ batch' \in 0 .. Len(queue)
      BY <1>1, <1>3 DEF TypeOK
    <3> QED
      BY <2>1, <3>1, <3>2
  <2>2. CASE queue' = Tail(queue)
    <3>1. EstablishedFirst' /\ DestroyedIsQueued'
      BY <1>1, <1>2, <1>3, <1>4, <2>2
         DEF Inner, EstablishedFirst, DestroyedIsQueued, Running
    <3> QED
      BY <1>3, <2>2, <3>1
  <2>3. CASE queue' = Append(Tail(queue), << "writeComplete" >>)
    <3>1. /\ queue' \in Seq(Functor) /\ Len(queue') = Len(Tail(queue)) + 1
          /\ ~Queued(queue', << "established" >>)
          /\ Queued(Tail(queue), << "destroyed" >>)
               => Queued(queue', << "destroyed" >>)
      BY <1>3, <2>3, QueuedAppend, FunctorsDiffer
    <3>2. EstablishedFirst' /\ DestroyedIsQueued'
      BY <1>1, <1>2, <1>3, <1>4, <3>1
         DEF Inner, EstablishedFirst, DestroyedIsQueued, Running
    <3> QED
      BY <1>3, <3>1, <3>2
  <2> QED
    BY <1>4, <2>1, <2>2, <2>3
<1>6. TypeOK'
  <2>1. failed' \in {"none", "send", "update", "remove", "retrieve", "handleClose",
                    "erase", "dangling", "dtor"}
    BY <1>4
  <2> QED
    BY <1>1, <1>2, <1>3, <1>4, <1>5, <2>1 DEF TypeOK
<1>7. ReadEventIsCurrent'
  BY <1>1, <1>3 DEF ReadEventIsCurrent
<1>8. ClosesOnce'
  BY <1>4 DEF ClosesOnce
<1>9. Inner'
  BY <1>1, <1>2, <1>4, <1>5, <1>8
     DEF Inner, StateMatchesSlot, WatchedReads, NoCallBefore, CallersHold, Closing,
         DestructedAfterRemoval, KeptUntilClosed
<1> QED
  BY <1>6, <1>7, <1>9 DEF Inv

\* connectionEstablished: the channel is watched from now on, for reading only.
LEMMA RunEstablishedOnly ==
  ASSUME Inv, Running, RunEstablished
  PROVE  Inv'
<1>1. TypeOK /\ ReadEventIsCurrent /\ Inner /\ failed = "none"
  BY DEF Inv, Running
<1>2. UNCHANGED << network, server, history, outputBuffer_, alive, call, failed >>
      /\ Turn(<< "established" >>) /\ queue' = Tail(queue)
      /\ state_' = "connected" /\ inCallback' = TRUE /\ holders' = Thread
      /\ UpdateChannel(events_ \cup {"read"})
  BY DEF RunEstablished
<1>3. UNCHANGED << wire, inFlight, finSent, peer, inbox, inMap, removing,
                   serverAlive, unsent, accepted, outputBuffer_, alive, call,
                   failed >>
  BY <1>2 DEF network, server, history
<1>4. /\ Tail(queue) \in Seq(Functor)
      /\ batch' = batch - 1 /\ ran' = TRUE /\ batch' \in 0 .. Len(Tail(queue))
      /\ UNCHANGED << pc, revents_ >> /\ pc = "functors"
      /\ ~Queued(Tail(queue), << "established" >>)
      /\ slot = "none"
      /\ Queued(queue, << "destroyed" >>)
           <=> Queued(Tail(queue), << "destroyed" >>)
  BY <1>2, TurnTakesHead, FunctorsDiffer
<1>5. /\ slot' = "watched" /\ events_' = events_ \cup {"read"} /\ mask' = events_'
      /\ events_' \subseteq {"read", "write"}
  BY <1>1, <1>2, <1>4 DEF UpdateChannel, TypeOK
<1>6. TypeOK'
  <2>1. state_' \in State
    BY <1>2 DEF State
  <2> QED
    BY <1>1, <1>2, <1>3, <1>4, <1>5, <2>1 DEF TypeOK
<1>7. ReadEventIsCurrent'
  BY <1>1, <1>4 DEF ReadEventIsCurrent
<1>8. Inner'
  <2>1. BufferIsPolled' /\ FinAfterBuffer'
    BY <1>1, <1>3, <1>4, <1>5
       DEF Inner, BufferIsPolled, FinAfterBuffer, isWriting
  <2>2. EstablishedFirst' /\ DestroyedIsQueued'
    BY <1>1, <1>2, <1>3, <1>4, <1>5
       DEF Inner, EstablishedFirst, DestroyedIsQueued, Running
  <2> QED
    BY <1>1, <1>2, <1>3, <1>4, <1>5, <2>1, <2>2
       DEF Inner, ClosesOnce, StateMatchesSlot, WatchedReads, NoCallBefore,
           CallersHold, Closing, DestructedAfterRemoval, KeptUntilClosed
<1> QED
  BY <1>6, <1>7, <1>8 DEF Inv

LEMMA RunShutdownOnly ==
  ASSUME Inv, Running, RunShutdown \/ RunWriteComplete
  PROVE  Inv'
<1>1. TypeOK /\ ReadEventIsCurrent /\ Inner /\ failed = "none"
  BY DEF Inv, Running
<1>2. PICK f \in {<< "shutdown" >>, << "writeComplete" >>} : Turn(f)
  BY DEF RunShutdown, RunWriteComplete
<1>3. /\ UNCHANGED << elsewhere, connection, wire, inFlight, peer, inbox, failed >>
      /\ queue' = Tail(queue)
  BY DEF RunShutdown, RunWriteComplete, network
<1>4. UNCHANGED << inMap, removing, serverAlive, alive, call, holders, unsent,
                   accepted, state_, events_, slot, mask, outputBuffer_, wire,
                   inFlight, peer, inbox, failed >>
  BY <1>3 DEF elsewhere, connection, channel, server, threads, history
<1>5. /\ Tail(queue) \in Seq(Functor)
      /\ batch' = batch - 1 /\ ran' = TRUE /\ batch' \in 0 .. Len(Tail(queue))
      /\ UNCHANGED << pc, revents_ >> /\ pc = "functors"
      /\ ~Queued(Tail(queue), << "established" >>)
      /\ slot # "none"
      /\ Queued(queue, << "destroyed" >>)
           <=> Queued(Tail(queue), << "destroyed" >>)
  <2>1. f # << "established" >> /\ f # << "destroyed" >>
    BY <1>2
  <2> QED
    BY <1>2, <2>1, TurnTakesHead
<1>6. inCallback' \in BOOLEAN /\ finSent' \in BOOLEAN
  BY <1>1 DEF RunShutdown, RunWriteComplete, ShutdownInLoop, network, TypeOK
<1>7. TypeOK'
  BY <1>1, <1>3, <1>4, <1>5, <1>6 DEF TypeOK
<1>8. ReadEventIsCurrent'
  BY <1>1, <1>5 DEF ReadEventIsCurrent
<1>9. Inner'
  <2>1. BufferIsPolled'
    BY <1>1, <1>4 DEF Inner, BufferIsPolled, isWriting
  <2>2. FinAfterBuffer'
    <3>1. CASE finSent' = finSent
      BY <1>1, <1>4, <3>1 DEF Inner, FinAfterBuffer
    <3>2. CASE finSent' = (finSent \/ ~isWriting)
      BY <1>1, <1>4, <3>2 DEF Inner, BufferIsPolled, FinAfterBuffer
    <3> QED
      BY <3>1, <3>2 DEF RunShutdown, RunWriteComplete, ShutdownInLoop, network
  <2>3. EstablishedFirst' /\ DestroyedIsQueued'
    BY <1>1, <1>3, <1>4, <1>5
       DEF Inner, EstablishedFirst, DestroyedIsQueued, Running
  <2> QED
    BY <1>1, <1>4, <2>1, <2>2, <2>3
       DEF Inner, ClosesOnce, StateMatchesSlot, WatchedReads, NoCallBefore,
           CallersHold, Closing, DestructedAfterRemoval, KeptUntilClosed
<1> QED
  BY <1>7, <1>8, <1>9 DEF Inv

\* connectionDestryed removes the channel, or its assertion fails.
LEMMA RunDestroyedOnly ==
  ASSUME Inv, Running, RunDestroyed
  PROVE  Inv'
<1>1. TypeOK /\ ReadEventIsCurrent /\ Inner /\ failed = "none"
  BY DEF Inv, Running
<1>2. UNCHANGED << elsewhere, network, inCallback, outputBuffer_ >>
      /\ Turn(<< "destroyed" >>) /\ queue' = Tail(queue)
  BY DEF RunDestroyed
<1>3. UNCHANGED << inMap, removing, serverAlive, alive, call, holders, unsent,
                   accepted, outputBuffer_, wire, inFlight, finSent, peer, inbox,
                   inCallback >>
  BY <1>2 DEF elsewhere, network, server, threads, history
<1>4. /\ Tail(queue) \in Seq(Functor)
      /\ batch' = batch - 1 /\ ran' = TRUE /\ batch' \in 0 .. Len(Tail(queue))
      /\ UNCHANGED << pc, revents_ >> /\ pc = "functors"
      /\ ~Queued(Tail(queue), << "established" >>)
      /\ slot # "none"
  BY <1>2, TurnTakesHead, FunctorsDiffer
<1>5. ReadEventIsCurrent'
  BY <1>1, <1>4 DEF ReadEventIsCurrent
<1>6. CASE /\ state_' \in {"disconnecting", "disconnected"}
           /\ events_' = {} /\ slot' = "removed" /\ mask' = {} /\ failed' = failed
  <2>1. TypeOK'
    BY <1>1, <1>2, <1>3, <1>4, <1>6 DEF TypeOK, State
  <2>2. (KeptUntilClosed /\ StateMatchesSlot /\ EstablishedFirst)'
    BY <1>1, <1>2, <1>3, <1>4, <1>6
       DEF Inner, KeptUntilClosed, StateMatchesSlot, EstablishedFirst, Closing
  <2>3. Inner'
    BY <1>1, <1>3, <1>6, <2>2
       DEF Inner, BufferIsPolled, FinAfterBuffer, ClosesOnce, WatchedReads,
           DestructedAfterRemoval, NoCallBefore, CallersHold, DestroyedIsQueued
  <2> QED
    BY <1>5, <2>1, <2>3 DEF Inv
<1>7. CASE UNCHANGED << events_, slot, mask, state_ >> /\ failed' = "remove"
  <2>1. TypeOK'
    BY <1>1, <1>2, <1>3, <1>4, <1>7 DEF TypeOK
  <2>2. (ClosesOnce /\ DestroyedIsQueued /\ EstablishedFirst)'
    BY <1>2, <1>4, <1>7 DEF ClosesOnce, DestroyedIsQueued, EstablishedFirst, Running
  <2>3. Inner'
    BY <1>1, <1>3, <1>7, <2>2
       DEF Inner, BufferIsPolled, FinAfterBuffer, StateMatchesSlot, WatchedReads,
           NoCallBefore, CallersHold, isWriting, Closing, DestructedAfterRemoval,
           KeptUntilClosed
  <2> QED
    BY <1>5, <2>1, <2>3 DEF Inv
<1> QED
  BY <1>2, <1>4, <1>6, <1>7, DestroyedRemoves DEF RunDestroyed

-----------------------------------------------------------------------------
(* The stream.  Stream is a recursive function, of which there is one: by    *)
(* induction on the number of messages, written out with the least number    *)
(* that has none.                                                            *)

Byte == Msg \X Nat

\* A nonempty set of natural numbers has a least element.
LEMMA LeastNatural ==
  ASSUME NEW T, T \subseteq Nat, T # {}
  PROVE  \E x \in T : \A y \in T : x <= y
<1> DEFINE R == OpToRel(<, Nat)
<1>1. IsWellFoundedOn(R, Nat)
  BY NatLessThanWellFounded
<1>2. \A x, y \in Nat : << y, x >> \in R <=> y < x
  BY DEF OpToRel
<1> HIDE DEF R
<1>3. PICK x \in T : \A y \in T : ~(<< y, x >> \in R)
  BY <1>1, WFMin
<1>4. ASSUME NEW y \in T
      PROVE  x <= y
  <2>1. x \in Nat /\ y \in Nat /\ ~(<< y, x >> \in R)
    BY <1>3
  <2>2. ~(y < x)
    BY <1>2, <2>1
  <2> QED
    BY <2>1, <2>2
<1> QED
  BY <1>4

\* f has the bytes of the first of the messages.
Streams(f, msgs) ==
  f = [n \in 0 .. Len(msgs) |->
         IF n = 0 THEN << >> ELSE f[n - 1] \o Bytes(msgs[n])]

\* There is such an f.
LEMMA StreamsExist ==
  ASSUME NEW msgs \in Seq(Msg)
  PROVE  \E f : Streams(f, msgs)
<1> DEFINE Rule(f, n) == f[n] = IF n = 0 THEN << >> ELSE f[n - 1] \o Bytes(msgs[n])
           Has(n) == \E f \in [0 .. n -> Seq(Byte)] : \A k \in 0 .. n : Rule(f, k)
           T == {n \in 0 .. Len(msgs) : ~Has(n)}
<1>1. Len(msgs) \in Nat /\ \A n \in 1 .. Len(msgs) : Bytes(msgs[n]) \in Seq(Byte)
  BY TypesOfMessages DEF Byte
<1>2. Has(0)
  <2> DEFINE f == [k \in 0 .. 0 |-> << >>]
  <2>1. f \in [0 .. 0 -> Seq(Byte)]
    OBVIOUS
  <2>2. \A k \in 0 .. 0 : Rule(f, k)
    OBVIOUS
  <2> QED
    BY <2>1, <2>2
<1>3. ASSUME NEW n \in 0 .. Len(msgs) - 1, Has(n) PROVE Has(n + 1)
  <2>1. PICK f \in [0 .. n -> Seq(Byte)] : \A k \in 0 .. n : Rule(f, k)
    BY <1>3
  <2>2. f[n] \in Seq(Byte) /\ n + 1 \in 1 .. Len(msgs)
    BY <1>1
  <2>3. PICK s \in Seq(Byte) : s = f[n] \o Bytes(msgs[n + 1])
    BY <1>1, <2>2, ConcatProperties
  <2> DEFINE g == [k \in 0 .. n + 1 |-> IF k = n + 1 THEN s ELSE f[k]]
  <2>4. /\ \A k \in 0 .. n + 1 : k \in 0 .. n \/ k = n + 1
        /\ \A k \in 0 .. n : k # n + 1 /\ (k # 0 => k - 1 \in 0 .. n)
        /\ n \in 0 .. n /\ n + 1 \in 0 .. n + 1 /\ n + 1 # 0 /\ (n + 1) - 1 = n
    OBVIOUS
  <2>5. g \in [0 .. n + 1 -> Seq(Byte)]
    BY <2>1, <2>3, <2>4
  <2>6. g[n + 1] = s /\ \A k \in 0 .. n : g[k] = f[k]
    BY <2>4
  <2> HIDE DEF g
  <2>7. Rule(g, n + 1)
    BY <2>3, <2>4, <2>6
  <2>8. \A k \in 0 .. n : Rule(g, k)
    BY <2>1, <2>4, <2>6
  <2> QED
    BY <2>4, <2>5, <2>7, <2>8
<1> HIDE DEF Has
<1>4. T = {}
  <2> SUFFICES ASSUME T # {} PROVE FALSE
    OBVIOUS
  <2>1. T \subseteq Nat
    BY <1>1
  <2>2. PICK n \in T : \A k \in T : n <= k
    BY <2>1, LeastNatural
  <2>3. n \in 0 .. Len(msgs) /\ ~Has(n) /\ n # 0
    BY <1>2
  <2>4. /\ n - 1 \in 0 .. Len(msgs) - 1 /\ n - 1 \in 0 .. Len(msgs)
        /\ ~(n <= n - 1) /\ (n - 1) + 1 = n
    BY <1>1, <2>3
  <2>5. Has(n - 1)
    BY <2>2, <2>4
  <2> QED
    BY <1>3, <2>3, <2>4, <2>5
<1>5. Has(Len(msgs))
  <2>1. Len(msgs) \in 0 .. Len(msgs)
    BY <1>1
  <2> QED
    BY <1>4, <2>1
<1> USE DEF Has
<1>6. PICK f \in [0 .. Len(msgs) -> Seq(Byte)] : \A k \in 0 .. Len(msgs) : Rule(f, k)
  BY <1>5
<1>7. f = [k \in 0 .. Len(msgs) |-> IF k = 0 THEN << >> ELSE f[k - 1] \o Bytes(msgs[k])]
  BY <1>6
<1> QED
  BY <1>7 DEF Streams

\* It does not depend on a last message.
LEMMA StreamsAgree ==
  ASSUME NEW msgs \in Seq(Msg), NEW m \in Msg,
         NEW f, Streams(f, msgs), NEW g, Streams(g, Append(msgs, m))
  PROVE  \A n \in 0 .. Len(msgs) : f[n] \in Seq(Byte) /\ g[n] = f[n]
<1> DEFINE T == {n \in 0 .. Len(msgs) : ~(f[n] \in Seq(Byte) /\ g[n] = f[n])}
<1> SUFFICES ASSUME T # {} PROVE FALSE
  OBVIOUS
<1>1. /\ Len(msgs) \in Nat /\ Len(Append(msgs, m)) = Len(msgs) + 1
      /\ \A n \in 1 .. Len(msgs) : Append(msgs, m)[n] = msgs[n] /\ msgs[n] \in Msg
  OBVIOUS
<1>2. PICK n \in T : \A k \in T : n <= k
  <2>1. T \subseteq Nat
    BY <1>1
  <2> QED
    BY <2>1, LeastNatural
<1>3. n \in 0 .. Len(msgs) /\ n \in 0 .. Len(msgs) + 1
  BY <1>1
<1>4. f[n] = IF n = 0 THEN << >> ELSE f[n - 1] \o Bytes(msgs[n])
  BY <1>3 DEF Streams
<1>5. g[n] = IF n = 0 THEN << >> ELSE g[n - 1] \o Bytes(Append(msgs, m)[n])
  BY <1>1, <1>3 DEF Streams
<1>6. CASE n = 0
  BY <1>4, <1>5, <1>6, EmptySeq
<1>7. CASE n # 0
  <2>1. n - 1 \in 0 .. Len(msgs) /\ ~(n <= n - 1) /\ n \in 1 .. Len(msgs)
    BY <1>1, <1>3, <1>7
  <2>2. f[n - 1] \in Seq(Byte) /\ g[n - 1] = f[n - 1]
    BY <1>2, <2>1
  <2>3. Bytes(msgs[n]) \in Seq(Byte) /\ Append(msgs, m)[n] = msgs[n]
    BY <1>1, <2>1, TypesOfMessages DEF Byte
  <2>4. f[n - 1] \o Bytes(msgs[n]) \in Seq(Byte)
    BY <2>2, <2>3, ConcatProperties
  <2> QED
    BY <1>4, <1>5, <1>7, <2>2, <2>3, <2>4
<1> QED
  BY <1>6, <1>7

\* The stream of no message, and with another one.
LEMMA StreamAppends ==
  /\ Stream(<< >>) = << >>
  /\ \A msgs \in Seq(Msg), m \in Msg :
       /\ Stream(msgs) \in Seq(Byte)
       /\ Stream(Append(msgs, m)) = Stream(msgs) \o Bytes(m)
<1>1. ASSUME NEW msgs \in Seq(Msg)
      PROVE  \E f : Streams(f, msgs) /\ Stream(msgs) = f[Len(msgs)]
  <2> DEFINE f == CHOOSE f : Streams(f, msgs)
  <2>1. Streams(f, msgs)
    BY StreamsExist
  <2>2. Stream(msgs) = f[Len(msgs)]
    BY DEF Stream, Streams
  <2> QED
    BY <2>1, <2>2
<1>2. Stream(<< >>) = << >>
  <2>1. << >> \in Seq(Msg) /\ Len(<< >>) = 0
    BY EmptySeq
  <2>2. PICK f : Streams(f, << >>) /\ Stream(<< >>) = f[0]
    BY <1>1, <2>1
  <2>3. f = [n \in 0 .. 0 |-> IF n = 0 THEN << >> ELSE f[n - 1] \o Bytes(<< >>[n])]
    BY <2>1, <2>2 DEF Streams
  <2>4. f[0] = << >>
    BY <2>3
  <2> QED
    BY <2>2, <2>4
<1>3. ASSUME NEW msgs \in Seq(Msg), NEW m \in Msg
      PROVE  /\ Stream(msgs) \in Seq(Byte)
             /\ Stream(Append(msgs, m)) = Stream(msgs) \o Bytes(m)
  <2> DEFINE r == Append(msgs, m)
  <2>1. r \in Seq(Msg) /\ Len(r) = Len(msgs) + 1 /\ Len(msgs) \in Nat /\ r[Len(r)] = m
    OBVIOUS
  <2>2. PICK f : Streams(f, msgs) /\ Stream(msgs) = f[Len(msgs)]
    BY <1>1
  <2>3. PICK g : Streams(g, r) /\ Stream(r) = g[Len(r)]
    BY <1>1, <2>1
  <2>4. f[Len(msgs)] \in Seq(Byte) /\ g[Len(msgs)] = f[Len(msgs)]
    <3>1. \A n \in 0 .. Len(msgs) : f[n] \in Seq(Byte) /\ g[n] = f[n]
      BY <2>2, <2>3, StreamsAgree
    <3> QED
      BY <2>1, <3>1
  <2> HIDE DEF r
  <2>5. Len(r) \in 0 .. Len(r) /\ Len(r) # 0 /\ Len(r) - 1 = Len(msgs)
    BY <2>1
  <2>6. g[Len(r)] = g[Len(r) - 1] \o Bytes(r[Len(r)])
    BY <2>3, <2>5 DEF Streams
  <2> QED
    BY <2>1, <2>2, <2>3, <2>4, <2>5, <2>6 DEF r
<1> QED
  BY <1>2, <1>3

\* A cut loses nothing.
LEMMA FirstAndRest ==
  ASSUME NEW s \in Seq(Byte), NEW n \in 0 .. Len(s)
  PROVE  /\ First(s, n) \in Seq(Byte) /\ Rest(s, n) \in Seq(Byte)
         /\ First(s, n) \o Rest(s, n) = s
<1>1. First(s, n) \in Seq(Byte) /\ Rest(s, n) \in Seq(Byte)
  BY DEF First, Rest
<1>2. /\ Len(s) \in Nat /\ 1 \in 1 .. Len(s) + 1 /\ n \in 1 - 1 .. Len(s)
      /\ Len(s) \in n .. Len(s)
  OBVIOUS
<1>3. SubSeq(s, 1, n) \o SubSeq(s, n + 1, Len(s)) = SubSeq(s, 1, Len(s))
  BY <1>2, ConcatAdjacentSubSeq
<1>4. SubSeq(s, 1, Len(s)) = s
  BY SubSeqFull
<1> QED
  BY <1>1, <1>3, <1>4 DEF First, Rest

LEMMA Regroup ==
  \A s, t, u \in Seq(Byte) : (s \o t) \o u = s \o (t \o u)
<1> TAKE s, t, u \in Seq(Byte)
<1> QED
  BY ConcatAssociative

\* sendInLoop appends the bytes of its message, or ends the program.
LEMMA SendInLoopAppends ==
  ASSUME TypeOK, StreamIsInOrder, NEW m \in Msg, NEW q, SendInLoop(m, q)
  PROVE  StreamIsInOrder'
<1> DEFINE ret == IF WritesAtOnce THEN WriteResult(Size[m]) ELSE 0
           B == Bytes(m)
<1>1. /\ wire \in Seq(Byte) /\ outputBuffer_ \in Seq(Byte) /\ accepted \in Seq(Msg)
      /\ inFlight \in 0 .. Room
  BY DEF TypeOK, Byte
<1>2. Size[m] \in Nat \ {0} /\ B \in Seq(Byte) /\ Len(B) = Size[m]
  BY TypesOfMessages DEF Byte
<1>3. ret = -1 \/ ret \in 0 .. Size[m]
  BY <1>1, <1>2, WriteTakesWhatFits
<1>4. ~WritesAtOnce => ret = 0
  OBVIOUS
<1>5. WritesAtOnce => outputBuffer_ = << >>
  BY DEF WritesAtOnce
<1>6. \/ /\ ret >= 0
         /\ wire' = wire \o First(B, ret)
         /\ accepted' = Append(accepted, m)
         /\ IF ret < Size[m] THEN Buffer(Rest(B, ret))
                             ELSE UNCHANGED outputBuffer_
      \/ UNCHANGED << wire, outputBuffer_, accepted >>
  BY DEF SendInLoop, network
<1> HIDE DEF ret, B
<1>7. CASE UNCHANGED << wire, outputBuffer_, accepted >>
  BY <1>7 DEF StreamIsInOrder
<1>8. CASE /\ ret >= 0
           /\ wire' = wire \o First(B, ret)
           /\ accepted' = Append(accepted, m)
           /\ IF ret < Size[m] THEN Buffer(Rest(B, ret))
                               ELSE UNCHANGED outputBuffer_
  <2> DEFINE F == First(B, ret)
             R == Rest(B, ret)
  <2>1. ret \in 0 .. Len(B) /\ 0 \in 0 .. Len(B)
    BY <1>2, <1>3, <1>8
  <2>2. F \in Seq(Byte) /\ R \in Seq(Byte) /\ F \o R = B
    BY <1>2, <2>1, FirstAndRest
  <2>3. outputBuffer_' = outputBuffer_ \o R
    <3>1. CASE ret < Size[m]
      BY <1>8, <3>1 DEF Buffer
    <3>2. CASE ~(ret < Size[m])
      <4>1. ret = Len(B)
        BY <1>2, <2>1, <3>2
      <4>2. R = << >>
        BY <1>2, <4>1 DEF Rest
      <4>3. outputBuffer_' = outputBuffer_
        BY <1>8, <3>2
      <4> HIDE DEF R
      <4> QED
        BY <1>1, <4>2, <4>3, ConcatEmptySeq
    <3> QED
      BY <3>1, <3>2
  <2>4. F \o (outputBuffer_ \o R) = outputBuffer_ \o B
    <3>1. CASE outputBuffer_ = << >>
      <4>1. << >> \o R = R /\ << >> \o B = B
        BY <1>2, <2>2, ConcatEmptySeq
      <4> QED
        BY <2>2, <3>1, <4>1
    <3>2. CASE outputBuffer_ # << >>
      <4>1. ret = 0
        BY <1>4, <1>5, <3>2
      <4>2. F = << >>
        BY <1>2, <4>1 DEF First
      <4>3. << >> \o R = R
        BY <2>2, ConcatEmptySeq
      <4>4. R = B
        BY <2>2, <4>2, <4>3
      <4>5. outputBuffer_ \o B \in Seq(Byte)
        BY <1>1, <1>2, ConcatProperties
      <4>6. << >> \o (outputBuffer_ \o B) = outputBuffer_ \o B
        BY <4>5, ConcatEmptySeq
      <4> QED
        BY <4>2, <4>4, <4>6
    <3> QED
      BY <3>1, <3>2
  <2> HIDE DEF F, R
  <2>5. outputBuffer_ \o R \in Seq(Byte)
    BY <1>1, <2>2, ConcatProperties
  <2>6. wire' = wire \o F
    BY <1>8 DEF F
  <2>7. (wire \o F) \o (outputBuffer_ \o R) = wire \o (F \o (outputBuffer_ \o R))
    BY <1>1, <2>2, <2>5, Regroup
  <2>8. wire \o (outputBuffer_ \o B) = (wire \o outputBuffer_) \o B
    BY <1>1, <1>2, Regroup
  <2>9. Stream(accepted') = Stream(accepted) \o B
    BY <1>1, <1>8, StreamAppends DEF B
  <2> QED
    BY <2>3, <2>4, <2>6, <2>7, <2>8, <2>9 DEF StreamIsInOrder
<1> QED
  BY <1>6, <1>7, <1>8

\* handleWrite moves bytes from the buffer to the socket.
LEMMA HandleWriteMoves ==
  ASSUME TypeOK, StreamIsInOrder, HandleWrite
  PROVE  StreamIsInOrder'
<1> DEFINE ret == WriteResult(Len(outputBuffer_))
<1>1. /\ wire \in Seq(Byte) /\ outputBuffer_ \in Seq(Byte) /\ inFlight \in 0 .. Room
      /\ Len(outputBuffer_) \in Nat
  BY DEF TypeOK, Byte
<1>2. ret = -1 \/ ret \in 0 .. Len(outputBuffer_)
  BY <1>1, WriteTakesWhatFits
<1>3. /\ UNCHANGED accepted
      /\ \/ /\ ret >= 0
            /\ wire' = wire \o First(outputBuffer_, ret)
            /\ outputBuffer_' = Rest(outputBuffer_, ret)
         \/ UNCHANGED << wire, outputBuffer_ >>
  BY DEF HandleWrite, elsewhere, history
<1> HIDE DEF ret
<1>4. CASE UNCHANGED << wire, outputBuffer_ >>
  BY <1>3, <1>4 DEF StreamIsInOrder
<1>5. CASE /\ ret >= 0
           /\ wire' = wire \o First(outputBuffer_, ret)
           /\ outputBuffer_' = Rest(outputBuffer_, ret)
  <2> DEFINE F == First(outputBuffer_, ret)
             R == Rest(outputBuffer_, ret)
  <2>1. ret \in 0 .. Len(outputBuffer_)
    BY <1>2, <1>5
  <2>2. F \in Seq(Byte) /\ R \in Seq(Byte) /\ F \o R = outputBuffer_
    BY <1>1, <2>1, FirstAndRest
  <2>3. wire' = wire \o F /\ outputBuffer_' = R
    BY <1>5
  <2> HIDE DEF F, R
  <2>4. (wire \o F) \o R = wire \o (F \o R)
    BY <1>1, <2>2, Regroup
  <2> QED
    BY <1>3, <2>2, <2>3, <2>4 DEF StreamIsInOrder
<1> QED
  BY <1>3, <1>4, <1>5

LEMMA StepKeepsOrder ==
  ASSUME TypeOK, StreamIsInOrder, [Next]_vars
  PROVE  StreamIsInOrder'
<1>1. CASE UNCHANGED << wire, outputBuffer_, accepted >>
  BY <1>1 DEF StreamIsInOrder
<1>2. CASE Next
  <2>1. CASE \E m \in Msg : CallbackSend(m) \/ RunSend(m)
    BY <2>1, SendInLoopAppends DEF CallbackSend, RunSend
  <2>2. CASE HandleWrite
    BY <2>2, HandleWriteMoves
  <2>3. CASE Poll \/ EndCallback \/ HandleRead \/ BeginFunctors \/ EndFunctors
    BY <1>1, <2>3 DEF Poll, EndCallback, HandleRead, BeginFunctors, EndFunctors,
                      elsewhere, connection, network, history
  <2>4. CASE RunEstablished \/ RunShutdown \/ RunWriteComplete \/ RunDestroyed
    BY <1>1, <2>4 DEF RunEstablished, RunShutdown, RunWriteComplete, RunDestroyed,
                      elsewhere, connection, network, history
  <2>5. CASE \E th \in Thread : \/ \E m \in Msg : SendTest(th, m)
                                \/ ShutdownTest(th)
                                \/ ThreadStep(th)
                                \/ Release(th)
    BY <1>1, <2>5 DEF SendTest, ShutdownTest, ThreadStep, ShutdownSet, QueueInLoop,
                      Release, loopThread, network, history
  <2>6. CASE RemoveConnectionInLoop \/ ServerDtor \/ Dtor \/ CallbackShutdown
    BY <1>1, <2>6 DEF RemoveConnectionInLoop, ServerDtor, Dtor, CallbackShutdown,
                      elsewhere, connection, network, history
  <2>7. CASE PeerSends \/ PeerReads \/ PeerFin \/ PeerRst
    BY <1>1, <2>7 DEF PeerSends, PeerReads, PeerFin, PeerRst, program, elsewhere,
                      connection, history
  <2> QED
    BY <1>2, <2>1, <2>2, <2>3, <2>4, <2>5, <2>6, <2>7
       DEF Next, LoopStep, RunFunctor
<1>3. CASE UNCHANGED vars
  BY <1>1, <1>3 DEF vars, network, history
<1> QED
  BY <1>2, <1>3

-----------------------------------------------------------------------------
(* The theorems.                                                            *)

LEMMA InitEstablishesInv == Init => Inv
<1> SUFFICES ASSUME Init
             PROVE  Inv
  OBVIOUS
<1>1. /\ queue = << << "established" >> >> /\ queue \in Seq(Functor)
      /\ Len(queue) = 1 /\ Head(queue) = << "established" >>
      /\ Tail(queue) = << >> /\ queue # << >>
  <2>1. queue = << << "established" >> >>
    BY DEF Init
  <2> QED
    BY <2>1, FunctorsDiffer
<1>2. EstablishedFirst
  BY <1>1 DEF Init, EstablishedFirst, Queued
<1>3. TypeOK
  <2>1. inFlight \in 0 .. Room
    BY SizeAssumption DEF Init
  <2>2. call \in [Thread -> Call] /\ state_ \in State
    BY DEF Init, Call, State
  <2>3. outputBuffer_ \in Seq(Msg \X Nat) /\ wire \in Seq(Msg \X Nat)
        /\ accepted \in Seq(Msg)
    BY DEF Init
  <2>4. /\ pc \in {"poll", "events", "functors"}
        /\ slot \in {"none", "watched", "muted", "removed"}
        /\ peer \in {"open", "fin", "rst", "reported"}
        /\ failed \in {"none", "send", "update", "remove", "retrieve",
                       "handleClose", "erase", "dangling", "dtor"}
    BY DEF Init
  <2>5. /\ revents_ \subseteq {"read", "write"} /\ events_ \subseteq {"read", "write"}
        /\ mask \subseteq {"read", "write"} /\ holders \subseteq Thread
        /\ unsent \subseteq Msg /\ batch \in 0 .. Len(queue)
    BY <1>1 DEF Init
  <2>6. /\ ran \in BOOLEAN /\ inCallback \in BOOLEAN /\ finSent \in BOOLEAN
        /\ inbox \in BOOLEAN /\ inMap \in BOOLEAN /\ removing \in BOOLEAN
        /\ serverAlive \in BOOLEAN /\ alive \in BOOLEAN
    BY DEF Init
  <2> QED
    BY <1>1, <2>1, <2>2, <2>3, <2>4, <2>5, <2>6 DEF TypeOK
<1>4. Inner
  BY <1>2 DEF Init, Inner, BufferIsPolled, FinAfterBuffer, ClosesOnce,
              DestructedAfterRemoval, StateMatchesSlot, WatchedReads, NoCallBefore,
              CallersHold, KeptUntilClosed, DestroyedIsQueued, isWriting, Closing
<1> QED
  BY <1>3, <1>4 DEF Init, Inv, ReadEventIsCurrent

LEMMA StepKeepsInv ==
  ASSUME Inv, [Next]_vars
  PROVE  Inv'
<1>1. CASE Next
  <2>1. Running
    BY <1>1 DEF Next
  <2>2. CASE LoopStep
    BY <2>1, <2>2, LoopOnly, ReadOnly, WriteOnly, RunEstablishedOnly, RunSendOnly,
       RunShutdownOnly, RunDestroyedOnly DEF LoopStep, RunFunctor
  <2>3. CASE CallbackShutdown \/ \E m \in Msg : CallbackSend(m)
    BY <2>1, <2>3, CallbackShutdownOnly, CallbackSendOnly
  <2>4. CASE \E th \in Thread : \/ \E m \in Msg : SendTest(th, m)
                                \/ ShutdownTest(th)
                                \/ ThreadStep(th)
                                \/ Release(th)
    BY <2>4, ThreadOnly, QueueInLoopOnly DEF ThreadStep
  <2>5. CASE RemoveConnectionInLoop \/ ServerDtor \/ Dtor
    BY <2>1, <2>5, RemoveOnly, ServerDtorOnly, DtorOnly
  <2>6. CASE PeerSends \/ PeerReads \/ PeerFin \/ PeerRst
    BY <2>6, PeerOnly
  <2> QED
    BY <1>1, <2>2, <2>3, <2>4, <2>5, <2>6 DEF Next
<1>2. CASE UNCHANGED vars
  <2>1. UNCHANGED seen
    BY <1>2 DEF vars, seen, channel, server, threads, history, network, loop
  <2>2. TypeOK' /\ ReadEventIsCurrent'
    BY <1>2 DEF Inv, TypeOK, ReadEventIsCurrent, vars, channel, server, threads,
                history, network, loop
  <2> QED
    BY <2>1, <2>2, InnerReads DEF Inv
<1> QED
  BY <1>1, <1>2

\* The inductive invariant: together with the properties below, how state_, the
\* channel and its slot, the queue and the pointers of threads and server go
\* together.
THEOREM Invariant == Spec => []Inv
<1>1. Init => Inv
  BY InitEstablishesInv
<1>2. Inv /\ [Next]_vars => Inv'
  BY StepKeepsInv
<1> QED
  BY <1>1, <1>2, PTL DEF Spec

\* As long as the connection is open, sendInLoop and handleWrite keep kWriteEvent
\* on exactly while the output buffer holds something.
THEOREM OpenBuffersArePolled == Spec => []BufferedMeansWriting
<1>1. Inv => BufferedMeansWriting
  BY DEF Inv, Inner, BufferIsPolled, BufferedMeansWriting
<1> QED
  BY <1>1, Invariant, PTL

\* shutdown, whenever and by whomever it is called, does not cut off what the
\* output buffer of an open connection holds.
THEOREM FinComesAfterTheBuffer == Spec => []FinAfterBuffer
<1>1. Inv => FinAfterBuffer
  BY DEF Inv, Inner
<1> QED
  BY <1>1, Invariant, PTL

\* handleClose and removeConnectionInLoop run once at most, and the destructor
\* finds a connection that closed.
THEOREM ConnectionsCloseOnce == Spec => []ClosesOnce
<1>1. Inv => ClosesOnce
  BY DEF Inv, Inner
<1> QED
  BY <1>1, Invariant, PTL

\* ~TcpConnection runs after Poller::removeChannel, however the removal by the
\* server, its destruction and the pointers of other threads interleave.
THEOREM RemovedBeforeDestruction == Spec => []DestructedAfterRemoval
<1>1. Inv => DestructedAfterRemoval
  BY DEF Inv, Inner
<1> QED
  BY <1>1, Invariant, PTL

\* The peer gets every message that sendInLoop took, whole and in the order in
\* which it took them, however ::write cuts them, whichever threads send, and
\* whatever waits in the output buffer meanwhile.
THEOREM StreamIsKept == Spec => []StreamIsInOrder
<1>1. Init => StreamIsInOrder
  <2> SUFFICES ASSUME Init
               PROVE  StreamIsInOrder
    OBVIOUS
  <2>1. wire = << >> /\ outputBuffer_ = << >> /\ accepted = << >>
    BY DEF Init
  <2>2. << >> \o << >> = << >>
    BY EmptySeq, ConcatEmptySeq
  <2> QED
    BY <2>1, <2>2, StreamAppends DEF StreamIsInOrder
<1>2. Inv => TypeOK
  BY DEF Inv
<1>3. TypeOK /\ StreamIsInOrder /\ [Next]_vars => StreamIsInOrder'
  BY StepKeepsOrder
<1> QED
  BY <1>1, <1>2, <1>3, Invariant, PTL DEF Spec
=============================================================================
