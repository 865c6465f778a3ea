-------------------------- MODULE TcpServerProofs --------------------------
(***************************************************************************)
(* Proofs about TcpServer, for one server with any number of threads,       *)
(* connections and descriptors.                                             *)
(***************************************************************************)
EXTENDS TcpServer, FiniteSetTheorems, TLAPS

\* With several servers connectionIndex_ may be incremented by two at once.
OneServer == \A s, t \in Server : s = t

\* The variables that are functions.
Shape ==
  /\ DOMAIN connections_ = Server /\ DOMAIN nextIndex_ = Server
  /\ DOMAIN call = Loop /\ DOMAIN funcQueue = Loop /\ DOMAIN conn = Conn

\* The types, by what they are about.
ServerTypes ==
  /\ phase \in [Server -> {"constructed", "started", "destructing", "gone"}]
  /\ numThreads_ \in [Server -> 0 .. MaxThreads]
  /\ DOMAIN nextIndex_ = Server
  /\ \A s \in Server : /\ nextIndex_[s] \in 0 .. MaxThreads
                       /\ nextIndex_[s] # 0 => nextIndex_[s] < numThreads_[s]
  /\ connectionIndex_ \in Nat

MapTypes ==
  /\ DOMAIN connections_ = Server
  /\ \A s \in Server : \A n \in DOMAIN connections_[s] :
       n \in Nat /\ connections_[s][n] \in Conn

ConnTypes ==
  /\ DOMAIN conn = Conn
  /\ \A c \in Conn : state_[c] # "none" =>
       conn[c] \in [server : Server, name : Nat, loop : Loop, fd : Fd]
  /\ state_ \in [Conn -> {"none", "connecting", "connected", "disconnecting",
                           "disconnected", "gone"}]
  /\ registered \subseteq Conn /\ reading \subseteq Conn
  /\ held \subseteq Conn /\ shutting \subseteq Conn
  /\ failed \in {"none", "accept", "add", "dangling", "dtor", "erase", "remove"}

LoopTypes ==
  /\ DOMAIN call = Loop /\ DOMAIN funcQueue = Loop
  /\ \A l \in Loop : /\ call[l] \in Functor \cup {NoCall}
                                    \cup ({"newConnection"} \X Fd \X Nat)
                     /\ funcQueue[l] \in Seq(Functor)

InQueue(l, f) == \E i \in DOMAIN funcQueue[l] : funcQueue[l][i] = f

\* Loop l has f to run, or runs it.
Has(l, f) == call[l] = f \/ InQueue(l, f)

Known(c) == state_[c] # "none"

InMap(c) ==
  LET map == connections_[conn[c].server]
  IN conn[c].name \in DOMAIN map /\ map[conn[c].name] = c

PhaseOf(c) == phase[conn[c].server]

EstablishFn(c) == << "established", c >>
RemoveFn(c)    == << "remove", c >>
DestroyFn(c)   == << "destroyed", c >>

\* No functor is queued twice.
Distinct ==
  \A l \in Loop : \A i, j \in DOMAIN funcQueue[l] :
    /\ funcQueue[l][i] = funcQueue[l][j] => i = j
    /\ funcQueue[l][i] # call[l]

\* connectionEstablished runs before connectionDestryed, and in a base loop
\* it is called and not queued.
EstablishedFirst ==
  \A c \in Conn :
    /\ \A l \in Loop :
         /\ call[l] = DestroyFn(c) => ~InQueue(l, EstablishFn(c))
         /\ \A i, j \in DOMAIN funcQueue[l] :
              funcQueue[l][i] = EstablishFn(c) /\ funcQueue[l][j] = DestroyFn(c) => i < j
    /\ \A s \in Server : ~InQueue(Base(s), EstablishFn(c))

\* A connection that is being accepted has a new name and a free descriptor.
Accepting(s) == call[Base(s)] # NoCall /\ call[Base(s)][1] = "newConnection"

AcceptedIsNew ==
  \A s \in Server : Accepting(s) =>
    /\ phase[s] = "started"
    /\ call[Base(s)][3] = connectionIndex_
    /\ \E c \in Conn : ~Known(c)
    /\ \A c \in Conn : Open(c) => conn[c].fd # call[Base(s)][2]

\* Names and the descriptors of open sockets are unique.
NamesDiffer ==
  /\ \A c \in Conn : Known(c) => conn[c].name < connectionIndex_
  /\ \A c, d \in Conn :
       Known(c) /\ Known(d) /\ conn[c].server = conn[d].server
         /\ conn[c].name = conn[d].name => c = d

FdsDiffer ==
  \A c, d \in Conn : Open(c) /\ Open(d) /\ conn[c].fd = conn[d].fd => c = d

\* The map has connections under their names.
MapIsRight ==
  \A s \in Server : \A n \in DOMAIN connections_[s] :
    LET c == connections_[s][n]
    IN Known(c) /\ conn[c].server = s /\ conn[c].name = n

StartedBefore == \A c \in Conn : Known(c) => PhaseOf(c) # "constructed"

\* The destructor, which is in the base loop's thread, finds no removal under way.
NoRemovalInDtor ==
  \A s \in Server : phase[s] = "destructing" =>
    \A c \in Conn : call[Base(s)] # RemoveFn(c)

\* All that is not about a connection's functors.
Names ==
  /\ AcceptedIsNew /\ NamesDiffer /\ FdsDiffer /\ MapIsRight /\ StartedBefore
  /\ NoRemovalInDtor

\* Its channel waits for no events, though shutdown may assign its state_ once more.
Down(c) == state_[c] \in {"disconnecting", "disconnected"} /\ c \notin reading

\* What a queued functor means for its connection.
FunctorsFit(c) ==
  \A l \in Loop :
    /\ Has(l, EstablishFn(c)) => state_[c] = "connecting" /\ l = conn[c].loop
    /\ Has(l, RemoveFn(c)) =>
         /\ Down(c) /\ l = Base(conn[c].server)
         /\ PhaseOf(c) = "started" => InMap(c)
    /\ Has(l, DestroyFn(c)) =>
         /\ Known(c) /\ l = conn[c].loop /\ ~InMap(c)
         /\ PhaseOf(c) = "started" => Down(c)

Kept(c) == InMap(c) \/ Has(conn[c].loop, DestroyFn(c))

\* A new connection will be established; one that is new or in the poller will
\* be destroyed, by the functor or for being in the map.  A channel that waits for
\* events has a state that handleClose and connectionDestryed expect.
WillEnd(c) ==
  /\ state_[c] = "connecting" => Has(conn[c].loop, EstablishFn(c))
  /\ c \in registered => state_[c] \in {"connected", "disconnecting", "disconnected"}
  /\ c \in reading => c \in registered /\ state_[c] \in {"connected", "disconnecting"}
  /\ state_[c] = "connected" => c \in reading
  /\ c \in shutting => state_[c] \in {"connected", "disconnecting", "disconnected"}
  /\ c \in registered \/ state_[c] = "connecting" => Kept(c)

Fits(c) == FunctorsFit(c) /\ WillEnd(c)

Queues == LoopTypes /\ Distinct /\ EstablishedFirst

Inner == Queues /\ Names /\ \A c \in Conn : Fits(c)

Inv == TypeOK /\ Shape /\ PollersKeepOpenChannels /\ (Running => Inner)

-----------------------------------------------------------------------------
(* Loops.  Each step of a loop changes what the loops have to run in one of *)
(* four ways.                                                               *)

LEMMA CallsDiffer ==
  ASSUME NEW c \in Conn
  PROVE  /\ EstablishFn(c) \in Functor /\ RemoveFn(c) \in Functor
         /\ DestroyFn(c) \in Functor
         /\ \A d : /\ EstablishFn(c) # RemoveFn(d) /\ EstablishFn(c) # DestroyFn(d)
                   /\ RemoveFn(c) # DestroyFn(d)
                   /\ c # d => /\ EstablishFn(c) # EstablishFn(d)
                               /\ RemoveFn(c) # RemoveFn(d)
                               /\ DestroyFn(c) # DestroyFn(d)
BY DEF Functor, EstablishFn, RemoveFn, DestroyFn

LEMMA NotFunctors ==
  /\ NoCall \notin Functor
  /\ \A f \in {"newConnection"} \X Fd \X Nat :
       f \notin Functor /\ f # NoCall /\ f[1] = "newConnection"
  /\ \A f \in Functor : f # NoCall /\ f[1] # "newConnection"
BY DEF Functor, NoCall

LEMMA NoCallIsNoRemoval == \A c : NoCall # RemoveFn(c)
BY DEF NoCall, RemoveFn

LEMMA BaseIsALoop == \A s \in Server : Base(s) \in Loop
BY ServerAssumption DEF Base, Loop

\* A call returns.
LEMMA ReturnKeepsQueues ==
  ASSUME Queues, NEW l \in Loop, call[l] \in Functor, Return(l)
  PROVE  /\ Queues'
         /\ \A k \in Loop : \A g \in Functor :
              Has(k, g)' <=> Has(k, g) /\ ~(k = l /\ g = call[l])
<1>1. /\ funcQueue' = funcQueue /\ DOMAIN call' = Loop
      /\ call'[l] = NoCall /\ \A k \in Loop \ {l} : call'[k] = call[k]
  BY DEF Return, Queues, LoopTypes
<1>2. \A k, g : InQueue(k, g)' <=> InQueue(k, g)
  BY <1>1 DEF InQueue
<1>3. LoopTypes'
  BY <1>1 DEF Queues, LoopTypes
<1>4. /\ NoCall \notin Functor
      /\ \A k \in Loop : \A i \in DOMAIN funcQueue[k] : funcQueue[k][i] \in Functor
  BY DEF Queues, LoopTypes, Functor, NoCall
<1>5. Distinct'
  BY <1>1, <1>4 DEF Queues, Distinct
<1>6. \A c : DestroyFn(c) # NoCall
  BY DEF NoCall, DestroyFn
<1>7. EstablishedFirst'
  BY <1>1, <1>2, <1>6 DEF Queues, EstablishedFirst
<1>8. ~InQueue(l, call[l])
  BY DEF Queues, Distinct, InQueue
<1>9. \A k \in Loop : \A g \in Functor :
        Has(k, g)' <=> Has(k, g) /\ ~(k = l /\ g = call[l])
  BY <1>1, <1>2, <1>4, <1>8 DEF Has
<1> QED
  BY <1>3, <1>5, <1>7, <1>9 DEF Queues

\* The next functor is taken.
LEMMA DispatchKeepsQueues ==
  ASSUME Queues, NEW l \in Loop, Dispatch(l)
  PROVE  /\ Queues'
         /\ \A k \in Loop : \A g \in Functor : Has(k, g)' <=> Has(k, g)
         /\ call[l] = NoCall /\ call'[l] \in Functor
         /\ \A k \in Loop \ {l} : call'[k] = call[k]
<1> DEFINE q == funcQueue[l]
<1>1. /\ q \in Seq(Functor) /\ q # << >>
      /\ DOMAIN call' = Loop /\ DOMAIN funcQueue' = Loop
      /\ call[l] = NoCall /\ call'[l] = Head(q) /\ funcQueue'[l] = Tail(q)
      /\ \A k \in Loop \ {l} : call'[k] = call[k] /\ funcQueue'[k] = funcQueue[k]
  BY DEF Dispatch, Idle, Queues, LoopTypes
<1>2. /\ Head(q) \in Functor /\ Head(q) = q[1] /\ Tail(q) \in Seq(Functor)
      /\ DOMAIN q = 1 .. Len(q) /\ DOMAIN Tail(q) = 1 .. Len(q) - 1
      /\ Len(q) \in Nat /\ Len(q) > 0
      /\ \A i \in 1 .. Len(q) - 1 : Tail(q)[i] = q[i + 1]
  BY <1>1
<1>3. LoopTypes'
  BY <1>1, <1>2 DEF Queues, LoopTypes
<1>4. \A i \in 1 .. Len(q) - 1 :
        /\ i + 1 \in 1 .. Len(q) /\ i + 1 # 1
        /\ funcQueue'[l][i] = q[i + 1]
  BY <1>1, <1>2
<1>5. \A g : InQueue(l, g) <=> call'[l] = g \/ InQueue(l, g)'
  <2>1. ASSUME NEW g, NEW i \in 1 .. Len(q), q[i] = g
        PROVE  call'[l] = g \/ InQueue(l, g)'
    <3>1. CASE i = 1
      BY <1>1, <1>2, <2>1, <3>1
    <3>2. CASE i # 1
      <4>1. i - 1 \in 1 .. Len(q) - 1 /\ funcQueue'[l][i - 1] = q[i]
        BY <1>2, <1>4, <3>2
      <4> QED
        BY <1>1, <1>2, <2>1, <4>1 DEF InQueue
    <3> QED
      BY <3>1, <3>2
  <2>2. ASSUME NEW g, NEW i \in 1 .. Len(q) - 1, funcQueue'[l][i] = g
        PROVE  InQueue(l, g)
    BY <1>2, <1>4, <2>2 DEF InQueue
  <2>3. \A g : call'[l] = g => InQueue(l, g)
    BY <1>1, <1>2 DEF InQueue
  <2> QED
    BY <1>1, <1>2, <2>1, <2>2, <2>3 DEF InQueue
<1>6. \A k \in Loop \ {l} : \A g : InQueue(k, g)' <=> InQueue(k, g)
  BY <1>1 DEF InQueue
<1>7. \A k \in Loop : \A g \in Functor : Has(k, g)' <=> Has(k, g)
  <2>1. NoCall \notin Functor
    BY DEF Functor, NoCall
  <2> QED
    BY <1>1, <1>5, <1>6, <2>1 DEF Has
<1>8. Distinct'
  <2>1. ASSUME NEW i \in 1 .. Len(q) - 1, NEW j \in 1 .. Len(q) - 1
        PROVE  /\ funcQueue'[l][i] = funcQueue'[l][j] => i = j
               /\ funcQueue'[l][i] # call'[l]
    <3>1. q[i + 1] = q[j + 1] => i + 1 = j + 1
      BY <1>2, <1>4 DEF Queues, Distinct
    <3>2. q[i + 1] # q[1]
      BY <1>2, <1>4 DEF Queues, Distinct
    <3> QED
      BY <1>1, <1>2, <1>4, <3>1, <3>2
  <2>2. \A k \in Loop \ {l} : \A i, j \in DOMAIN funcQueue'[k] :
          /\ funcQueue'[k][i] = funcQueue'[k][j] => i = j
          /\ funcQueue'[k][i] # call'[k]
    BY <1>1 DEF Queues, Distinct
  <2>3. DOMAIN funcQueue'[l] = 1 .. Len(q) - 1
    BY <1>1, <1>2
  <2> HIDE DEF q
  <2> QED
    BY <2>1, <2>2, <2>3 DEF Distinct
<1>9. EstablishedFirst'
  <2> SUFFICES ASSUME NEW c \in Conn
               PROVE  /\ \A k \in Loop :
                           /\ call'[k] = DestroyFn(c) => ~InQueue(k, EstablishFn(c))'
                           /\ \A i, j \in DOMAIN funcQueue'[k] :
                                funcQueue'[k][i] = EstablishFn(c)
                                  /\ funcQueue'[k][j] = DestroyFn(c) => i < j
                      /\ \A s \in Server : ~InQueue(Base(s), EstablishFn(c))'
    BY DEF EstablishedFirst
  <2> DEFINE e == EstablishFn(c)
             d == DestroyFn(c)
  <2>1. \A i, j \in 1 .. Len(q) : q[i] = e /\ q[j] = d => i < j
    BY <1>2 DEF Queues, EstablishedFirst
  <2>2. call'[l] = d => ~InQueue(l, e)'
    <3> SUFFICES ASSUME call'[l] = d, NEW i \in 1 .. Len(q) - 1, funcQueue'[l][i] = e
                 PROVE  FALSE
      BY <1>1, <1>2 DEF InQueue
    <3>1. q[1] = d /\ q[i + 1] = e /\ i + 1 \in 1 .. Len(q) /\ 1 \in 1 .. Len(q)
      BY <1>1, <1>2, <1>4
    <3> QED
      BY <2>1, <3>1
  <2>3. ASSUME NEW i \in 1 .. Len(q) - 1, NEW j \in 1 .. Len(q) - 1,
               funcQueue'[l][i] = e, funcQueue'[l][j] = d
        PROVE  i < j
    <3>1. i + 1 < j + 1
      BY <1>4, <2>1, <2>3
    <3> QED
      BY <3>1
  <2>4. \A k \in Loop \ {l} :
          /\ call'[k] = d => ~InQueue(k, e)'
          /\ \A i, j \in DOMAIN funcQueue'[k] :
               funcQueue'[k][i] = e /\ funcQueue'[k][j] = d => i < j
    BY <1>1, <1>6 DEF Queues, EstablishedFirst
  <2>5. \A s \in Server : ~InQueue(Base(s), e)'
    <3>1. \A s \in Server : ~InQueue(Base(s), e) /\ Base(s) \in Loop
      BY BaseIsALoop DEF Queues, EstablishedFirst
    <3> QED
      BY <1>5, <1>6, <3>1
  <2> HIDE DEF e, d
  <2>6. \A k \in Loop :
          /\ call'[k] = d => ~InQueue(k, e)'
          /\ \A i, j \in DOMAIN funcQueue'[k] :
               funcQueue'[k][i] = e /\ funcQueue'[k][j] = d => i < j
    BY <1>1, <1>2, <2>2, <2>3, <2>4
  <2> USE DEF e, d
  <2> QED
    BY <2>5, <2>6
<1> QED
  BY <1>1, <1>2, <1>3, <1>7, <1>8, <1>9 DEF Queues

\* A functor f is queued in the loop o, at the end of a call or of an event of
\* loop l, or of the destructor's loop.
LEMMA QueueKeepsQueues ==
  ASSUME Queues, NEW l \in Loop, NEW o \in Loop, NEW f \in Functor,
         QueueInLoop(l, o, f),
         ~Has(o, f),
         \A c \in Conn : f = EstablishFn(c) =>
           ~Has(o, DestroyFn(c)) /\ \A s \in Server : o # Base(s)
  PROVE  /\ Queues'
         /\ \A k \in Loop : \A g \in Functor :
              Has(k, g)' <=> \/ Has(k, g) /\ ~(k = l /\ g = call[l])
                             \/ k = o /\ g = f
         /\ call'[l] = NoCall
         /\ \A k \in Loop \ {l} : call'[k] = call[k]
<1> DEFINE q == funcQueue[o]
<1>1. /\ q \in Seq(Functor)
      /\ DOMAIN call' = Loop /\ DOMAIN funcQueue' = Loop
      /\ call'[l] = NoCall /\ funcQueue'[o] = Append(q, f)
      /\ \A k \in Loop \ {l} : call'[k] = call[k]
      /\ \A k \in Loop \ {o} : funcQueue'[k] = funcQueue[k]
  BY DEF QueueInLoop, Queues, LoopTypes
<1>2. /\ Append(q, f) \in Seq(Functor)
      /\ DOMAIN q = 1 .. Len(q) /\ DOMAIN funcQueue'[o] = 1 .. Len(q) + 1
      /\ Len(q) \in Nat
      /\ \A i \in 1 .. Len(q) : funcQueue'[o][i] = q[i]
      /\ funcQueue'[o][Len(q) + 1] = f
  BY <1>1
<1>3. \A i \in 1 .. Len(q) + 1 : i \in 1 .. Len(q) \/ i = Len(q) + 1
  BY <1>2
<1>4. LoopTypes'
  BY <1>1, <1>2 DEF Queues, LoopTypes
<1>5. NoCall \notin Functor /\ \A k \in Loop : \A i \in DOMAIN funcQueue[k] :
        funcQueue[k][i] \in Functor
  BY DEF Queues, LoopTypes, Functor, NoCall
<1>6. \A g : InQueue(o, g)' <=> InQueue(o, g) \/ g = f
  <2> SUFFICES ASSUME NEW g
               PROVE  InQueue(o, g)' <=> InQueue(o, g) \/ g = f
    OBVIOUS
  <2>1. InQueue(o, g) <=> \E i \in 1 .. Len(q) : q[i] = g
    BY <1>2 DEF InQueue
  <2>2. InQueue(o, g)' <=> \E i \in 1 .. Len(q) + 1 : funcQueue'[o][i] = g
    BY <1>2 DEF InQueue
  <2>3. /\ Len(q) + 1 \in 1 .. Len(q) + 1
        /\ \A i \in 1 .. Len(q) : i \in 1 .. Len(q) + 1
    BY <1>2
  <2> HIDE DEF q
  <2>4. ASSUME NEW i \in 1 .. Len(q) + 1, funcQueue'[o][i] = g
        PROVE  InQueue(o, g) \/ g = f
    BY <1>2, <1>3, <2>1, <2>4
  <2>5. InQueue(o, g) \/ g = f => \E i \in 1 .. Len(q) + 1 : funcQueue'[o][i] = g
    BY <1>2, <2>1, <2>3
  <2> QED
    BY <2>2, <2>4, <2>5
<1>7. \A k \in Loop \ {o} : \A g : InQueue(k, g)' <=> InQueue(k, g)
  BY <1>1 DEF InQueue
<1>8. ~InQueue(l, call[l])
  BY DEF Queues, Distinct, InQueue
<1>9. \A k \in Loop : \A g \in Functor :
        Has(k, g)' <=> \/ Has(k, g) /\ ~(k = l /\ g = call[l])
                       \/ k = o /\ g = f
  <2> SUFFICES ASSUME NEW k \in Loop, NEW g \in Functor
               PROVE  Has(k, g)' <=> \/ Has(k, g) /\ ~(k = l /\ g = call[l])
                                     \/ k = o /\ g = f
    OBVIOUS
  <2>1. InQueue(k, g)' <=> InQueue(k, g) \/ (k = o /\ g = f)
    <3>1. CASE k = o
      BY <1>6, <3>1
    <3>2. CASE k # o
      BY <1>7, <3>2
    <3> QED
      BY <3>1, <3>2
  <2>2. CASE k = l
    BY <1>1, <1>5, <1>8, <2>1, <2>2 DEF Has
  <2>3. CASE k # l
    BY <1>1, <2>1, <2>3 DEF Has
  <2> QED
    BY <2>2, <2>3
<1>10. Distinct'
  <2>1. \A i \in 1 .. Len(q) : q[i] # f
    BY <1>2 DEF Has, InQueue
  <2>2. call'[o] # f
    BY <1>1, <1>5 DEF Has
  <2>3. \A i \in 1 .. Len(q) : q[i] # call'[o]
    BY <1>1, <1>2, <1>5 DEF Queues, Distinct
  <2>4. \A i, j \in 1 .. Len(q) : q[i] = q[j] => i = j
    BY <1>2 DEF Queues, Distinct
  <2>5. \A i, j \in DOMAIN funcQueue'[o] :
          /\ funcQueue'[o][i] = funcQueue'[o][j] => i = j
          /\ funcQueue'[o][i] # call'[o]
    BY <1>2, <1>3, <2>1, <2>2, <2>3, <2>4
  <2>6. \A k \in Loop \ {o} : \A i, j \in DOMAIN funcQueue'[k] :
          /\ funcQueue'[k][i] = funcQueue'[k][j] => i = j
          /\ funcQueue'[k][i] # call'[k]
    BY <1>1, <1>5 DEF Queues, Distinct
  <2> QED
    BY <2>5, <2>6 DEF Distinct
<1>11. EstablishedFirst'
  <2> SUFFICES ASSUME NEW c \in Conn
               PROVE  /\ \A k \in Loop :
                           /\ call'[k] = DestroyFn(c) => ~InQueue(k, EstablishFn(c))'
                           /\ \A i, j \in DOMAIN funcQueue'[k] :
                                funcQueue'[k][i] = EstablishFn(c)
                                  /\ funcQueue'[k][j] = DestroyFn(c) => i < j
                      /\ \A s \in Server : ~InQueue(Base(s), EstablishFn(c))'
    BY DEF EstablishedFirst
  <2> DEFINE e == EstablishFn(c)
             d == DestroyFn(c)
  <2>1. e # d /\ d # NoCall
    BY DEF NoCall, EstablishFn, DestroyFn
  <2>2. \A k \in Loop : /\ call[k] = d => ~InQueue(k, e)
                        /\ \A i, j \in DOMAIN funcQueue[k] :
                             funcQueue[k][i] = e /\ funcQueue[k][j] = d => i < j
    BY DEF Queues, EstablishedFirst
  <2>3. f = e => ~Has(o, d) /\ \A s \in Server : o # Base(s)
    OBVIOUS
  <2>4. \A s \in Server : Base(s) \in Loop /\ ~InQueue(Base(s), e)
    BY BaseIsALoop DEF Queues, EstablishedFirst
  <2> HIDE DEF e, d
  <2>5. \A k \in Loop : call'[k] = d => call[k] = d
    BY <1>1, <2>1
  <2>6. \A k \in Loop : call'[k] = d => ~InQueue(k, e)'
    BY <1>6, <1>7, <2>2, <2>3, <2>5 DEF Has
  <2>7. ASSUME NEW i \in 1 .. Len(q) + 1, NEW j \in 1 .. Len(q) + 1,
               funcQueue'[o][i] = e, funcQueue'[o][j] = d
        PROVE  i < j
    <3>1. CASE i \in 1 .. Len(q) /\ j \in 1 .. Len(q)
      BY <1>2, <2>2, <2>7, <3>1
    <3>2. CASE i = Len(q) + 1
      <4>1. f = e /\ j \in 1 .. Len(q)
        BY <1>2, <1>3, <2>1, <2>7, <3>2
      <4>2. q[j] = d
        BY <1>2, <2>7, <4>1
      <4> QED
        BY <1>2, <2>3, <4>1, <4>2 DEF Has, InQueue
    <3>3. CASE i \in 1 .. Len(q) /\ j = Len(q) + 1
      BY <1>2, <3>3
    <3> QED
      BY <1>3, <3>1, <3>2, <3>3
  <2>8. \A k \in Loop \ {o} : \A i, j \in DOMAIN funcQueue'[k] :
          funcQueue'[k][i] = e /\ funcQueue'[k][j] = d => i < j
    BY <1>1, <2>2
  <2>9. \A k \in Loop : \A i, j \in DOMAIN funcQueue'[k] :
          funcQueue'[k][i] = e /\ funcQueue'[k][j] = d => i < j
    BY <1>2, <2>7, <2>8
  <2>10. \A s \in Server : ~InQueue(Base(s), e)'
    BY <1>6, <1>7, <2>3, <2>4
  <2> USE DEF e, d
  <2> QED
    BY <2>6, <2>9, <2>10
<1> QED
  BY <1>1, <1>4, <1>9, <1>10, <1>11 DEF Queues

\* A loop that runs none calls the functor f at once.
LEMMA CallKeepsQueues ==
  ASSUME Queues, NEW l \in Loop, NEW f \in Functor, call[l] \notin Functor,
         call' = [call EXCEPT ![l] = f], UNCHANGED funcQueue,
         ~Has(l, f),
         \A c \in Conn : f = DestroyFn(c) => ~InQueue(l, EstablishFn(c))
  PROVE  /\ Queues'
         /\ \A k \in Loop : \A g \in Functor :
              Has(k, g)' <=> Has(k, g) \/ (k = l /\ g = f)
         /\ call'[l] = f
         /\ \A k \in Loop \ {l} : call'[k] = call[k]
<1>1. /\ funcQueue' = funcQueue /\ DOMAIN call' = Loop
      /\ call'[l] = f /\ \A k \in Loop \ {l} : call'[k] = call[k]
  BY DEF Queues, LoopTypes
<1>2. \A k, g : InQueue(k, g)' <=> InQueue(k, g)
  BY <1>1 DEF InQueue
<1>3. LoopTypes'
  BY <1>1 DEF Queues, LoopTypes
<1>4. Distinct'
  BY <1>1 DEF Queues, Distinct, Has, InQueue
<1>5. EstablishedFirst'
  <2> SUFFICES ASSUME NEW c \in Conn
               PROVE  /\ \A k \in Loop :
                           /\ call'[k] = DestroyFn(c) => ~InQueue(k, EstablishFn(c))'
                           /\ \A i, j \in DOMAIN funcQueue[k] :
                                funcQueue[k][i] = EstablishFn(c)
                                  /\ funcQueue[k][j] = DestroyFn(c) => i < j
                      /\ \A s \in Server : ~InQueue(Base(s), EstablishFn(c))'
    BY <1>1 DEF EstablishedFirst
  <2>1. \A k \in Loop : call'[k] = DestroyFn(c) => ~InQueue(k, EstablishFn(c))
    BY <1>1 DEF Queues, EstablishedFirst
  <2> QED
    BY <1>2, <2>1 DEF Queues, EstablishedFirst
<1>6. \A k \in Loop : \A g \in Functor :
        Has(k, g)' <=> Has(k, g) \/ (k = l /\ g = f)
  BY <1>1, <1>2 DEF Has
<1> QED
  BY <1>1, <1>3, <1>4, <1>5, <1>6 DEF Queues

\* Loop l, which runs no functor, has f run in the loop o.
LEMMA RunKeepsQueues ==
  ASSUME Queues, NEW l \in Loop, NEW o \in Loop, NEW f \in Functor,
         call[l] \notin Functor, RunInLoop(l, o, f), ~Has(o, f),
         \A c \in Conn : f = EstablishFn(c) =>
           ~Has(o, DestroyFn(c)) /\ (l # o => \A s \in Server : o # Base(s)),
         \A c \in Conn : f = DestroyFn(c) /\ l = o => ~InQueue(l, EstablishFn(c))
  PROVE  /\ Queues'
         /\ \A k \in Loop : \A g \in Functor :
              Has(k, g)' <=> Has(k, g) \/ (k = o /\ g = f)
         /\ call'[l] \in {f, NoCall}
         /\ \A k \in Loop \ {l} : call'[k] = call[k]
<1>1. CASE l = o
  <2>1. call' = [call EXCEPT ![l] = f] /\ UNCHANGED funcQueue
    BY <1>1 DEF RunInLoop
  <2>2. ~Has(l, f) /\ \A c \in Conn : f = DestroyFn(c) => ~InQueue(l, EstablishFn(c))
    BY <1>1
  <2>3. /\ Queues'
        /\ \A k \in Loop : \A g \in Functor :
             Has(k, g)' <=> Has(k, g) \/ (k = l /\ g = f)
        /\ call'[l] = f
        /\ \A k \in Loop \ {l} : call'[k] = call[k]
    BY <2>1, <2>2, CallKeepsQueues
  <2> QED
    BY <1>1, <2>3
<1>2. CASE l # o
  <2>1. QueueInLoop(l, o, f)
    BY <1>2 DEF RunInLoop
  <2>2. \A c \in Conn : f = EstablishFn(c) =>
          ~Has(o, DestroyFn(c)) /\ \A s \in Server : o # Base(s)
    BY <1>2
  <2>3. /\ Queues'
        /\ \A k \in Loop : \A g \in Functor :
             Has(k, g)' <=> \/ Has(k, g) /\ ~(k = l /\ g = call[l])
                            \/ k = o /\ g = f
        /\ call'[l] = NoCall
        /\ \A k \in Loop \ {l} : call'[k] = call[k]
    BY <2>1, <2>2, QueueKeepsQueues
  <2> QED
    BY <2>3
<1> QED
  BY <1>1, <1>2

\* What loops run does not depend on anything else.
LEMMA OthersKeepQueues ==
  ASSUME Queues, UNCHANGED loops
  PROVE  Queues' /\ \A k \in Loop : \A g \in Functor : Has(k, g)' <=> Has(k, g)
<1>1. call' = call /\ funcQueue' = funcQueue
  BY DEF loops
<1> QED
  BY <1>1 DEF Queues, LoopTypes, Distinct, EstablishedFirst, Has, InQueue

\* The base loop begins to accept, which is not a functor.
LEMMA AcceptKeepsQueues ==
  ASSUME Queues, NEW l \in Loop, NEW a \in {"newConnection"} \X Fd \X Nat,
         call[l] \notin Functor,
         call' = [call EXCEPT ![l] = a], UNCHANGED funcQueue
  PROVE  Queues' /\ \A k \in Loop : \A g \in Functor : Has(k, g)' <=> Has(k, g)
<1>1. /\ funcQueue' = funcQueue /\ DOMAIN call' = Loop
      /\ call'[l] = a /\ \A k \in Loop \ {l} : call'[k] = call[k]
  BY DEF Queues, LoopTypes
<1>2. \A k, g : InQueue(k, g)' <=> InQueue(k, g)
  BY <1>1 DEF InQueue
<1>3. LoopTypes'
  BY <1>1 DEF Queues, LoopTypes
<1>4. a \notin Functor /\ \A k \in Loop : \A i \in DOMAIN funcQueue[k] :
        funcQueue[k][i] \in Functor
  BY NotFunctors DEF Queues, LoopTypes
<1>5. Distinct'
  BY <1>1, <1>4 DEF Queues, Distinct
<1>6. \A c \in Conn : DestroyFn(c) \in Functor
  BY CallsDiffer
<1>7. \A k \in Loop, c \in Conn : call'[k] = DestroyFn(c) => call[k] = DestroyFn(c)
  BY <1>1, <1>4, <1>6
<1>8. EstablishedFirst'
  BY <1>1, <1>2, <1>7 DEF Queues, EstablishedFirst
<1>9. \A k \in Loop : \A g \in Functor : Has(k, g)' <=> Has(k, g)
  BY <1>1, <1>2, <1>4 DEF Has
<1> QED
  BY <1>3, <1>5, <1>8, <1>9 DEF Queues

-----------------------------------------------------------------------------
(* Types, names and what fits a connection.                                 *)

LEMMA TypeParts ==
  TypeOK /\ Shape <=> ServerTypes /\ MapTypes /\ ConnTypes /\ LoopTypes
<1>1. \A s \in Server :
        DOMAIN connections_[s] \subseteq Nat /\ Range(connections_[s]) \subseteq Conn
        <=> \A n \in DOMAIN connections_[s] : n \in Nat /\ connections_[s][n] \in Conn
  BY DEF Range
<1>2. ASSUME TypeOK, Shape
      PROVE  ServerTypes /\ MapTypes /\ ConnTypes /\ LoopTypes
  <2>1. ServerTypes
    BY <1>2 DEF TypeOK, Shape, ServerTypes
  <2>2. MapTypes
    BY <1>1, <1>2 DEF TypeOK, Shape, MapTypes
  <2>3. ConnTypes
    BY <1>2 DEF TypeOK, Shape, ConnTypes
  <2>4. LoopTypes
    BY <1>2 DEF TypeOK, Shape, LoopTypes
  <2> QED
    BY <2>1, <2>2, <2>3, <2>4
<1>3. ASSUME ServerTypes, MapTypes, ConnTypes, LoopTypes
      PROVE  TypeOK /\ Shape
  <2>1. Shape
    BY <1>3 DEF Shape, ServerTypes, MapTypes, ConnTypes, LoopTypes
  <2>2. \A s \in Server : DOMAIN connections_[s] \subseteq Nat
                           /\ Range(connections_[s]) \subseteq Conn
    BY <1>1, <1>3 DEF MapTypes
  <2>3. \A s \in Server : /\ nextIndex_[s] \in 0 .. MaxThreads
                          /\ nextIndex_[s] # 0 => nextIndex_[s] < numThreads_[s]
    BY <1>3 DEF ServerTypes
  <2>4. TypeOK
    BY <1>3, <2>2, <2>3 DEF TypeOK, ServerTypes, ConnTypes, LoopTypes
  <2> QED
    BY <2>1, <2>4
<1> QED
  BY <1>2, <1>3

\* There is one server.
LEMMA SameServer ==
  ASSUME OneServer, ConnTypes, NEW s \in Server, NEW c \in Conn, Known(c)
  PROVE  conn[c].server = s
BY DEF OneServer, ConnTypes, Known

\* No step but NewConnection changes names, whether a connection is known, or
\* adds one to a map.
LEMMA NamesStay ==
  ASSUME Names,
         UNCHANGED << conn, connectionIndex_ >>,
         \A c \in Conn : (Known(c)' <=> Known(c)) /\ (Open(c)' => Open(c)),
         \A s \in Server : \A n \in DOMAIN connections_'[s] :
           n \in DOMAIN connections_[s] /\ connections_'[s][n] = connections_[s][n],
         \A s \in Server : phase[s] # "constructed" => phase'[s] # "constructed",
         \A s \in Server : Accepting(s)' =>
           Accepting(s) /\ call'[Base(s)] = call[Base(s)] /\ phase'[s] = phase[s],
         NoRemovalInDtor',
         ConnTypes, MapTypes
  PROVE  Names'
<1>1. conn' = conn /\ connectionIndex_' = connectionIndex_
  OBVIOUS
<1>2. NamesDiffer'
  BY <1>1 DEF Names, NamesDiffer
<1>3. FdsDiffer'
  BY <1>1 DEF Names, FdsDiffer
<1>4. MapIsRight'
  BY <1>1 DEF Names, MapIsRight, MapTypes
<1>5. StartedBefore'
  <2> SUFFICES ASSUME NEW c \in Conn, Known(c) PROVE phase'[conn[c].server] # "constructed"
    BY <1>1 DEF StartedBefore, PhaseOf
  <2>1. conn[c].server \in Server /\ phase[conn[c].server] # "constructed"
    BY DEF ConnTypes, Known, Names, StartedBefore, PhaseOf
  <2> QED
    BY <2>1
<1>6. AcceptedIsNew'
  <2> SUFFICES ASSUME NEW s \in Server, Accepting(s)'
               PROVE  /\ phase'[s] = "started"
                      /\ call'[Base(s)][3] = connectionIndex_'
                      /\ \E c \in Conn : ~Known(c)'
                      /\ \A c \in Conn : Open(c)' => conn'[c].fd # call'[Base(s)][2]
    BY DEF AcceptedIsNew
  <2>1. Accepting(s) /\ call'[Base(s)] = call[Base(s)] /\ phase'[s] = phase[s]
    OBVIOUS
  <2>2. /\ phase[s] = "started"
        /\ call[Base(s)][3] = connectionIndex_
        /\ \E c \in Conn : ~Known(c)
        /\ \A c \in Conn : Open(c) => conn[c].fd # call[Base(s)][2]
    BY <2>1 DEF Names, AcceptedIsNew
  <2> QED
    BY <1>1, <2>1, <2>2
<1> QED
  BY <1>2, <1>3, <1>4, <1>5, <1>6 DEF Names

\* A step that does not change what a connection is about.
LEMMA FitsStays ==
  ASSUME NEW d \in Conn, Fits(d), Known(d) => conn[d].loop \in Loop,
         conn'[d] = conn[d], state_'[d] = state_[d],
         d \in registered' <=> d \in registered,
         d \in reading' <=> d \in reading, d \in shutting' <=> d \in shutting,
         Known(d) => (InMap(d)' <=> InMap(d)),
         PhaseOf(d)' = "started" => PhaseOf(d) = "started" \/ ~Known(d),
         \A k \in Loop : /\ Has(k, EstablishFn(d))' <=> Has(k, EstablishFn(d))
                         /\ Has(k, RemoveFn(d))' <=> Has(k, RemoveFn(d))
                         /\ Has(k, DestroyFn(d))' <=> Has(k, DestroyFn(d))
  PROVE  Fits(d)'
<1>1. FunctorsFit(d)'
  BY DEF Fits, FunctorsFit, Known, Down
<1>2. Kept(d) => (Known(d) => Kept(d)')
  BY DEF Kept
<1>3. WillEnd(d)'
  BY <1>2 DEF Fits, WillEnd, Known, Kept
<1> QED
  BY <1>1, <1>3 DEF Fits

LEMMA Facts ==
  ASSUME Inv, Running
  PROVE  /\ ServerTypes /\ MapTypes /\ ConnTypes /\ LoopTypes
         /\ Queues /\ Names /\ \A c \in Conn : Fits(c)
         /\ PollersKeepOpenChannels /\ failed = "none"
         /\ \A c \in Conn : Known(c) =>
              /\ conn[c].server \in Server /\ conn[c].loop \in Loop
              /\ Base(conn[c].server) \in Loop
<1>1. ServerTypes /\ MapTypes /\ ConnTypes /\ LoopTypes
  BY TypeParts DEF Inv
<1>2. Queues /\ Names /\ \A c \in Conn : Fits(c)
  BY DEF Inv, Inner
<1>3. \A c \in Conn : Known(c) =>
        /\ conn[c].server \in Server /\ conn[c].loop \in Loop
        /\ Base(conn[c].server) \in Loop
  BY <1>1, BaseIsALoop DEF ConnTypes, Known
<1> QED
  BY <1>1, <1>2, <1>3 DEF Inv, Running

\* The parts of Inv after a step.
LEMMA InvFromParts ==
  ASSUME ServerTypes', MapTypes', ConnTypes', LoopTypes',
         PollersKeepOpenChannels',
         Running' => Queues' /\ Names' /\ \A c \in Conn : Fits(c)'
  PROVE  Inv'
<1>1. TypeOK' /\ Shape'
  BY TypeParts, PTL
<1> QED
  BY <1>1 DEF Inv, Inner

-----------------------------------------------------------------------------
(* Each action keeps Inv.                                                   *)

\* The server changes its phase, and nothing else.
LEMMA PhaseKeepsInv ==
  ASSUME Inv, Running, NEW s \in Server, Start(s) \/ ServerDtor(s) \/ DtorEnds(s)
  PROVE  Inv'
<1>1. /\ ServerTypes /\ MapTypes /\ ConnTypes /\ LoopTypes
      /\ Queues /\ Names /\ \A c \in Conn : Fits(c)
      /\ PollersKeepOpenChannels /\ failed = "none"
      /\ \A c \in Conn : Known(c) =>
           /\ conn[c].server \in Server /\ conn[c].loop \in Loop
  BY Facts
<1>2. /\ numThreads_' = numThreads_ /\ nextIndex_' = nextIndex_
      /\ connectionIndex_' = connectionIndex_ /\ connections_' = connections_
      /\ UNCHANGED loops /\ call' = call
      /\ conn' = conn /\ state_' = state_ /\ registered' = registered /\ held' = held
      /\ reading' = reading /\ shutting' = shutting
      /\ failed' = failed
  BY DEF Start, ServerDtor, DtorEnds, accepting, loops, connections
<1>3. /\ phase' \in [Server -> {"constructed", "started", "destructing", "gone"}]
      /\ phase'[s] # "constructed"
      /\ phase'[s] = "started" => phase[s] = "constructed"
      /\ Accepting(s) => phase'[s] = phase[s]
      /\ \A t \in Server \ {s} : phase'[t] = phase[t]
  <2>1. CASE Start(s)
    BY <1>1, <2>1 DEF Start, ServerTypes, Names, AcceptedIsNew
  <2>2. CASE ServerDtor(s)
    BY <1>1, <2>2 DEF ServerDtor, ServerTypes, Idle, Accepting
  <2>3. CASE DtorEnds(s)
    BY <1>1, <2>3 DEF DtorEnds, ServerTypes, Accepting
  <2> QED
    BY <2>1, <2>2, <2>3
<1>4. ServerTypes'
  BY <1>1, <1>2, <1>3 DEF ServerTypes
<1>5. MapTypes' /\ ConnTypes'
  BY <1>1, <1>2 DEF MapTypes, ConnTypes
<1>6. PollersKeepOpenChannels'
  BY <1>1, <1>2 DEF PollersKeepOpenChannels, Open
<1>7. /\ Queues' /\ LoopTypes'
      /\ \A k \in Loop : \A g \in Functor : Has(k, g)' <=> Has(k, g)
  BY <1>1, <1>2, OthersKeepQueues DEF Queues
<1>8. \A c \in Conn : /\ Known(c)' <=> Known(c)
                      /\ Open(c)' <=> Open(c)
                      /\ InMap(c)' <=> InMap(c)
  BY <1>2 DEF Known, Open, InMap
<1>9. \A t \in Server : Accepting(t)' <=> Accepting(t)
  BY <1>2 DEF Accepting
<1>10. Names'
  <2>1. NoRemovalInDtor'
    <3> SUFFICES ASSUME NEW t \in Server, phase'[t] = "destructing", NEW c \in Conn
                 PROVE  call[Base(t)] # RemoveFn(c)
      BY <1>2 DEF NoRemovalInDtor
    <3>1. CASE phase[t] = "destructing"
      BY <1>1, <3>1 DEF Names, NoRemovalInDtor
    <3>2. CASE phase[t] # "destructing"
      <4>1. t = s /\ call[Base(s)] = NoCall
        BY <1>1, <1>3, <3>2 DEF Start, ServerDtor, DtorEnds, Idle, ServerTypes
      <4> QED
        BY <4>1, NoCallIsNoRemoval
    <3> QED
      BY <3>1, <3>2
  <2> QED
    BY <1>1, <1>2, <1>3, <1>8, <1>9, <2>1, NamesStay
<1>11. ASSUME NEW d \in Conn PROVE Fits(d)'
  <2>1. PhaseOf(d)' = "started" => PhaseOf(d) = "started" \/ ~Known(d)
    BY <1>1, <1>2, <1>3 DEF PhaseOf, Names, StartedBefore
  <2>2. \A k \in Loop : /\ Has(k, EstablishFn(d))' <=> Has(k, EstablishFn(d))
                        /\ Has(k, RemoveFn(d))' <=> Has(k, RemoveFn(d))
                        /\ Has(k, DestroyFn(d))' <=> Has(k, DestroyFn(d))
    BY <1>7, CallsDiffer
  <2> QED
    BY <1>1, <1>2, <1>8, <2>1, <2>2, FitsStays
<1> QED
  BY <1>4, <1>5, <1>6, <1>7, <1>10, <1>11, InvFromParts

\* accept fails, which ends the program.
LEMMA AcceptFailsKeepsInv ==
  ASSUME Inv, Running, NEW s \in Server, AcceptFails(s)
  PROVE  Inv'
<1>1. /\ ServerTypes /\ MapTypes /\ ConnTypes /\ LoopTypes /\ PollersKeepOpenChannels
  BY Facts
<1>2. /\ UNCHANGED << phase, numThreads_, nextIndex_, connectionIndex_, connections_ >>
      /\ UNCHANGED << call, funcQueue, conn, state_, registered, reading, held, shutting >>
      /\ failed' = "accept"
  BY DEF AcceptFails, servers, accepting, loops, connections
<1>3. ServerTypes' /\ MapTypes' /\ ConnTypes' /\ LoopTypes' /\ PollersKeepOpenChannels'
  BY <1>1, <1>2 DEF ServerTypes, MapTypes, ConnTypes, LoopTypes,
                    PollersKeepOpenChannels, Open
<1>4. ~Running'
  BY <1>2 DEF Running
<1> QED
  BY <1>3, <1>4, InvFromParts

\* The acceptor has a descriptor, and the index of the next connection.
LEMMA AcceptKeepsInv ==
  ASSUME OneServer, Inv, Running, NEW s \in Server, NEW f \in Fd, Accept(s, f)
  PROVE  Inv'
<1>1. /\ ServerTypes /\ MapTypes /\ ConnTypes /\ LoopTypes
      /\ Queues /\ Names /\ \A c \in Conn : Fits(c)
      /\ PollersKeepOpenChannels /\ failed = "none"
      /\ \A c \in Conn : Known(c) =>
           /\ conn[c].server \in Server /\ conn[c].loop \in Loop
  BY Facts
<1> DEFINE a == << "newConnection", f, connectionIndex_ >>
<1>2. /\ UNCHANGED << phase, numThreads_, nextIndex_, connectionIndex_, connections_ >>
      /\ UNCHANGED << funcQueue, conn, state_, registered, reading, held, shutting, failed >>
      /\ call' = [call EXCEPT ![Base(s)] = a]
      /\ phase[s] = "started" /\ call[Base(s)] = NoCall /\ f \in FreeFd /\ ConnLeft
  BY DEF Accept, servers, accepting, connections, Idle
<1>3. a \in {"newConnection"} \X Fd \X Nat /\ Base(s) \in Loop
  BY <1>1, BaseIsALoop DEF ServerTypes
<1>4. call[Base(s)] \notin Functor
  BY <1>2, NotFunctors
<1> HIDE DEF a
<1>5. /\ Queues' /\ LoopTypes'
      /\ \A k \in Loop : \A g \in Functor : Has(k, g)' <=> Has(k, g)
  BY <1>1, <1>2, <1>3, <1>4, AcceptKeepsQueues DEF Queues
<1>6. ServerTypes' /\ MapTypes' /\ ConnTypes' /\ PollersKeepOpenChannels'
  BY <1>1, <1>2 DEF ServerTypes, MapTypes, ConnTypes, PollersKeepOpenChannels, Open
<1>7. \A c \in Conn : /\ Known(c)' <=> Known(c)
                      /\ Open(c)' <=> Open(c)
                      /\ InMap(c)' <=> InMap(c)
                      /\ PhaseOf(c)' = PhaseOf(c)
  BY <1>2 DEF Known, Open, InMap, PhaseOf
<1>8. \E c \in Conn : ~Known(c)
  <2>1. {t \in Server : call[Base(t)] # NoCall /\ call[Base(t)][1] = "newConnection"} = {}
    BY <1>2 DEF OneServer
  <2> DEFINE A == {t \in Server : call[Base(t)] # NoCall /\ call[Base(t)][1] = "newConnection"}
             B == {c \in Conn : state_[c] = "none"}
  <2>2. Cardinality(A) < Cardinality(B)
    BY <1>2 DEF ConnLeft
  <2>3. A = {}
    BY <2>1
  <2>4. ASSUME \A c \in Conn : state_[c] # "none" PROVE B = {}
    BY <2>4
  <2> HIDE DEF A, B
  <2>5. B # {}
    BY <2>2, <2>3, FS_EmptySet
  <2> QED
    BY <2>4, <2>5 DEF Known
<1>9. Names'
  <2>1. NamesDiffer' /\ FdsDiffer'
    BY <1>1, <1>2, <1>7 DEF Names, NamesDiffer, FdsDiffer
  <2>2. MapIsRight'
    BY <1>1, <1>2, <1>7 DEF Names, MapIsRight, MapTypes
  <2>3. StartedBefore'
    BY <1>1, <1>2, <1>7 DEF Names, StartedBefore
  <2>4. AcceptedIsNew'
    <3> SUFFICES ASSUME NEW t \in Server, Accepting(t)'
                 PROVE  /\ phase'[t] = "started"
                        /\ call'[Base(t)][3] = connectionIndex_'
                        /\ \E c \in Conn : ~Known(c)'
                        /\ \A c \in Conn : Open(c)' => conn'[c].fd # call'[Base(t)][2]
      BY DEF AcceptedIsNew
    <3>1. t = s
      BY DEF OneServer
    <3>2. call'[Base(t)] = a
      BY <1>1, <1>2, <1>3, <3>1 DEF LoopTypes
    <3>3. a[3] = connectionIndex_ /\ a[2] = f
      BY DEF a
    <3>4. \A c \in Conn : Open(c) => conn[c].fd # f
      BY <1>2 DEF FreeFd
    <3> QED
      BY <1>2, <1>7, <1>8, <3>1, <3>2, <3>3, <3>4
  <2>5. NoRemovalInDtor'
    <3>1. \A t \in Server : t = s
      BY DEF OneServer
    <3> QED
      BY <1>2, <3>1 DEF NoRemovalInDtor
  <2> QED
    BY <2>1, <2>2, <2>3, <2>4, <2>5 DEF Names
<1>10. ASSUME NEW d \in Conn PROVE Fits(d)'
  <2>1. \A k \in Loop : /\ Has(k, EstablishFn(d))' <=> Has(k, EstablishFn(d))
                        /\ Has(k, RemoveFn(d))' <=> Has(k, RemoveFn(d))
                        /\ Has(k, DestroyFn(d))' <=> Has(k, DestroyFn(d))
    BY <1>5, CallsDiffer
  <2> QED
    BY <1>1, <1>2, <1>7, <2>1, FitsStays
<1> QED
  BY <1>5, <1>6, <1>9, <1>10, InvFromParts

LEMMA DispatchKeepsInv ==
  ASSUME Inv, Running, NEW l \in Loop, Dispatch(l)
  PROVE  Inv'
<1>1. /\ ServerTypes /\ MapTypes /\ ConnTypes /\ LoopTypes
      /\ Queues /\ Names /\ \A c \in Conn : Fits(c)
      /\ PollersKeepOpenChannels /\ failed = "none"
      /\ \A c \in Conn : Known(c) =>
           /\ conn[c].server \in Server /\ conn[c].loop \in Loop
  BY Facts
<1>2. /\ UNCHANGED << phase, numThreads_, nextIndex_, connectionIndex_, connections_ >>
      /\ UNCHANGED << conn, state_, registered, reading, held, shutting, failed >>
  BY DEF Dispatch, servers, accepting, connections
<1>3. /\ Queues' /\ LoopTypes'
      /\ \A k \in Loop : \A g \in Functor : Has(k, g)' <=> Has(k, g)
      /\ call'[l] \in Functor
      /\ \A k \in Loop \ {l} : call'[k] = call[k]
  BY <1>1, DispatchKeepsQueues DEF Queues
<1>4. ServerTypes' /\ MapTypes' /\ ConnTypes' /\ PollersKeepOpenChannels'
  BY <1>1, <1>2 DEF ServerTypes, MapTypes, ConnTypes, PollersKeepOpenChannels, Open
<1>5. \A c \in Conn : /\ Known(c)' <=> Known(c)
                      /\ Open(c)' <=> Open(c)
                      /\ InMap(c)' <=> InMap(c)
                      /\ PhaseOf(c)' = PhaseOf(c)
  BY <1>2 DEF Known, Open, InMap, PhaseOf
<1>6. \A t \in Server : Accepting(t)' => Accepting(t) /\ call'[Base(t)] = call[Base(t)]
  BY <1>3, NotFunctors, BaseIsALoop DEF Accepting
<1>7. Names'
  <2>1. NoRemovalInDtor'
    <3> SUFFICES ASSUME NEW t \in Server, phase[t] = "destructing", NEW c \in Conn
                 PROVE  call'[Base(t)] # RemoveFn(c)
      BY <1>2 DEF NoRemovalInDtor
    <3>1. Base(t) # l /\ Base(t) \in Loop
      BY BaseIsALoop DEF Dispatch, Idle
    <3> QED
      BY <1>1, <1>3, <3>1 DEF Names, NoRemovalInDtor
  <2> QED
    BY <1>1, <1>2, <1>5, <1>6, <2>1, NamesStay
<1>8. ASSUME NEW d \in Conn PROVE Fits(d)'
  <2>1. \A k \in Loop : /\ Has(k, EstablishFn(d))' <=> Has(k, EstablishFn(d))
                        /\ Has(k, RemoveFn(d))' <=> Has(k, RemoveFn(d))
                        /\ Has(k, DestroyFn(d))' <=> Has(k, DestroyFn(d))
    BY <1>3, CallsDiffer
  <2> QED
    BY <1>1, <1>2, <1>5, <2>1, FitsStays
<1> QED
  BY <1>3, <1>4, <1>7, <1>8, InvFromParts

\* The connection c is established in its loop.
LEMMA EstablishedKeepsInv ==
  ASSUME Inv, Running, NEW c \in Conn, Established(c)
  PROVE  Inv'
<1> DEFINE l == conn[c].loop
           e == EstablishFn(c)
<1>1. /\ ServerTypes /\ MapTypes /\ ConnTypes /\ LoopTypes
      /\ Queues /\ Names /\ \A d \in Conn : Fits(d)
      /\ PollersKeepOpenChannels /\ failed = "none"
      /\ \A d \in Conn : Known(d) =>
           /\ conn[d].server \in Server /\ conn[d].loop \in Loop
  BY Facts
<1>2. /\ UNCHANGED << phase, numThreads_, nextIndex_, connectionIndex_, connections_ >>
      /\ conn' = conn
      /\ Open(c) /\ call[l] = e /\ Return(l)
      /\ state_' = [state_ EXCEPT ![c] = "connected"]
      /\ registered' = registered \cup {c} /\ reading' = reading \cup {c}
      /\ shutting' = shutting
      /\ held' \in {held, held \cup {c}}
  BY DEF Established, EstablishFn, servers, accepting
<1>3. Known(c) /\ l \in Loop /\ e \in Functor
  BY <1>1, <1>2, CallsDiffer DEF Open, Known
<1>4. /\ Queues' /\ LoopTypes'
      /\ \A k \in Loop : \A g \in Functor : Has(k, g)' <=> Has(k, g) /\ ~(k = l /\ g = e)
      /\ call'[l] = NoCall /\ \A k \in Loop \ {l} : call'[k] = call[k]
  <2>1. /\ Queues'
        /\ \A k \in Loop : \A g \in Functor : Has(k, g)' <=> Has(k, g) /\ ~(k = l /\ g = e)
    BY <1>1, <1>2, <1>3, ReturnKeepsQueues
  <2>2. call'[l] = NoCall /\ \A k \in Loop \ {l} : call'[k] = call[k]
    BY <1>1, <1>2, <1>3 DEF Return, LoopTypes
  <2> QED
    BY <2>1, <2>2 DEF Queues
<1>5. Has(l, e) /\ state_[c] = "connecting"
  BY <1>1, <1>2, <1>3 DEF Has, Fits, FunctorsFit
<1>6. /\ state_'[c] = "connected" /\ \A d \in Conn \ {c} : state_'[d] = state_[d]
      /\ \A d \in Conn : (Known(d)' <=> Known(d)) /\ (Open(d)' <=> Open(d))
  BY <1>1, <1>2, <1>5 DEF ConnTypes, Known, Open
<1>7. failed' = "none"
  <2>1. ASSUME NEW d \in registered, conn[d].fd = conn[c].fd
        PROVE  FALSE
    <3>1. d \in Conn /\ Open(d) /\ d # c
      BY <1>1, <1>5 DEF ConnTypes, PollersKeepOpenChannels, Fits, WillEnd
    <3> QED
      BY <1>1, <1>2, <2>1, <3>1 DEF Names, FdsDiffer
  <2> QED
    BY <1>1, <2>1 DEF Established
<1>8. ServerTypes' /\ MapTypes'
  BY <1>1, <1>2 DEF ServerTypes, MapTypes
<1>9. ConnTypes'
  <2>1. state_' \in [Conn -> {"none", "connecting", "connected", "disconnecting",
                              "disconnected", "gone"}]
    BY <1>1, <1>2 DEF ConnTypes
  <2>2. registered' \subseteq Conn /\ reading' \subseteq Conn
        /\ held' \subseteq Conn /\ shutting' \subseteq Conn
    BY <1>1, <1>2 DEF ConnTypes
  <2> QED
    BY <1>1, <1>2, <1>6, <1>7, <2>1, <2>2 DEF ConnTypes, Known
<1>10. PollersKeepOpenChannels'
  BY <1>1, <1>2, <1>6, <1>7 DEF PollersKeepOpenChannels, ConnTypes
<1>11. Names'
  <2>1. \A t \in Server : call'[Base(t)] = call[Base(t)] \/ call'[Base(t)] = NoCall
    BY <1>4, BaseIsALoop
  <2>2. NoRemovalInDtor'
    BY <1>1, <1>2, <2>1, NoCallIsNoRemoval DEF Names, NoRemovalInDtor
  <2>3. \A t \in Server : Accepting(t)' => Accepting(t) /\ call'[Base(t)] = call[Base(t)]
    BY <2>1 DEF Accepting
  <2> QED
    BY <1>1, <1>2, <1>6, <2>2, <2>3, NamesStay
<1>12. \A d \in Conn : (InMap(d)' <=> InMap(d)) /\ PhaseOf(d)' = PhaseOf(d)
  BY <1>2 DEF InMap, PhaseOf
<1>13. ASSUME NEW d \in Conn, d # c PROVE Fits(d)'
  <2>1. \A k \in Loop : /\ Has(k, EstablishFn(d))' <=> Has(k, EstablishFn(d))
                        /\ Has(k, RemoveFn(d))' <=> Has(k, RemoveFn(d))
                        /\ Has(k, DestroyFn(d))' <=> Has(k, DestroyFn(d))
    BY <1>4, <1>13, CallsDiffer
  <2>2. (d \in registered' <=> d \in registered) /\ (d \in reading' <=> d \in reading)
    BY <1>2, <1>13
  <2> QED
    BY <1>1, <1>2, <1>6, <1>12, <1>13, <2>1, <2>2, FitsStays
<1>14. Fits(c)'
  <2>1. \A k \in Loop : /\ Has(k, e)' <=> Has(k, e) /\ k # l
                        /\ Has(k, RemoveFn(c))' <=> Has(k, RemoveFn(c))
                        /\ Has(k, DestroyFn(c))' <=> Has(k, DestroyFn(c))
    BY <1>4, CallsDiffer
  <2>2. \A k \in Loop : ~Has(k, e)' /\ ~Has(k, RemoveFn(c))'
    BY <1>1, <1>5, <2>1 DEF Fits, FunctorsFit, Down
  <2>3. \A k \in Loop : Has(k, DestroyFn(c)) =>
          k = l /\ ~InMap(c) /\ PhaseOf(c) # "started"
    BY <1>1, <1>5 DEF Fits, FunctorsFit, Down
  <2>4. FunctorsFit(c)'
    BY <1>2, <1>3, <1>6, <1>12, <2>1, <2>2, <2>3 DEF FunctorsFit
  <2>5. Kept(c)
    BY <1>1, <1>5 DEF Fits, WillEnd
  <2>6. Kept(c)'
    BY <1>2, <1>3, <1>12, <2>1, <2>5 DEF Kept
  <2>7. WillEnd(c)'
    BY <1>2, <1>6, <2>6 DEF WillEnd
  <2> QED
    BY <2>4, <2>7 DEF Fits
<1> QED
  BY <1>4, <1>8, <1>9, <1>10, <1>11, <1>13, <1>14, InvFromParts

\* The peer closed, and c is to be removed from the map.
LEMMA HandleCloseKeepsInv ==
  ASSUME Inv, Running, NEW c \in Conn, HandleClose(c)
  PROVE  Inv'
<1> DEFINE l == conn[c].loop
           b == Base(conn[c].server)
           f == RemoveFn(c)
<1>1. /\ ServerTypes /\ MapTypes /\ ConnTypes /\ LoopTypes
      /\ Queues /\ Names /\ \A d \in Conn : Fits(d)
      /\ PollersKeepOpenChannels /\ failed = "none"
      /\ \A d \in Conn : Known(d) =>
           /\ conn[d].server \in Server /\ conn[d].loop \in Loop
           /\ Base(conn[d].server) \in Loop
  BY Facts
<1>2. /\ UNCHANGED << phase, numThreads_, nextIndex_, connectionIndex_, connections_ >>
      /\ UNCHANGED << conn, registered, held, shutting >>
      /\ Open(c) /\ Idle(l) /\ c \in registered /\ c \in reading
      /\ state_[c] \in {"connected", "disconnecting"}
  BY <1>1 DEF HandleClose, servers, accepting, Fits, WillEnd
<1>3. Known(c) /\ l \in Loop /\ b \in Loop /\ f \in Functor
  BY <1>1, <1>2, CallsDiffer DEF Open, Known
<1>4. ServerTypes' /\ MapTypes'
  BY <1>1, <1>2 DEF ServerTypes, MapTypes
<1>5. CASE PhaseOf(c) = "gone"
  <2>1. /\ failed' = "dangling" /\ call' = call /\ funcQueue' = funcQueue
        /\ state_' = state_ /\ reading' = reading
    BY <1>5 DEF HandleClose, PhaseOf, loops
  <2>2. ConnTypes' /\ LoopTypes' /\ PollersKeepOpenChannels'
    BY <1>1, <1>2, <2>1 DEF ConnTypes, LoopTypes, PollersKeepOpenChannels, Open
  <2>3. ~Running'
    BY <2>1 DEF Running
  <2> QED
    BY <1>4, <2>2, <2>3, InvFromParts
<1>6. CASE PhaseOf(c) # "gone"
  <2>1. /\ state_' = [state_ EXCEPT ![c] = "disconnected"]
        /\ reading' = reading \ {c}
        /\ RunInLoop(l, b, f) /\ failed' = "none"
    BY <1>1, <1>6 DEF HandleClose, PhaseOf, RemoveFn
  <2>2. \A k \in Loop : ~Has(k, f) /\ ~Has(k, EstablishFn(c))
    BY <1>1, <1>2 DEF Fits, FunctorsFit, Down
  <2>3. call[l] = NoCall /\ call[l] \notin Functor
    BY <1>2, NotFunctors DEF Idle
  <2>4. \A d \in Conn : f # EstablishFn(d) /\ f # DestroyFn(d)
    BY CallsDiffer
  <2>5. /\ Queues' /\ LoopTypes'
        /\ \A k \in Loop : \A g \in Functor : Has(k, g)' <=> Has(k, g) \/ (k = b /\ g = f)
        /\ call'[l] \in {f, NoCall} /\ \A k \in Loop \ {l} : call'[k] = call[k]
    <3> HIDE DEF l, b, f
    <3>1. /\ Queues'
          /\ \A k \in Loop : \A g \in Functor : Has(k, g)' <=> Has(k, g) \/ (k = b /\ g = f)
          /\ call'[l] \in {f, NoCall} /\ \A k \in Loop \ {l} : call'[k] = call[k]
      BY <1>1, <1>3, <2>1, <2>2, <2>3, <2>4, RunKeepsQueues
    <3> QED
      BY <3>1 DEF Queues
  <2>6. /\ state_'[c] = "disconnected" /\ \A d \in Conn \ {c} : state_'[d] = state_[d]
        /\ \A d \in Conn : (Known(d)' <=> Known(d)) /\ (Open(d)' <=> Open(d))
    BY <1>1, <1>2, <2>1 DEF ConnTypes, Known, Open
  <2>7. ConnTypes'
    BY <1>1, <1>2, <2>1, <2>6 DEF ConnTypes, Known
  <2>8. PollersKeepOpenChannels'
    BY <1>1, <1>2, <2>1, <2>6 DEF PollersKeepOpenChannels, ConnTypes
  <2>9. Names'
    <3>1. \A t \in Server : \/ call'[Base(t)] = call[Base(t)]
                            \/ Base(t) = l /\ call'[Base(t)] \in {f, NoCall}
      BY <2>5, BaseIsALoop
    <3>2. NoRemovalInDtor'
      <4> SUFFICES ASSUME NEW t \in Server, phase[t] = "destructing", NEW d \in Conn
                   PROVE  call'[Base(t)] # RemoveFn(d)
        BY <1>2 DEF NoRemovalInDtor
      <4>1. Base(t) # l
        BY <1>2 DEF Idle
      <4> QED
        BY <1>1, <3>1, <4>1 DEF Names, NoRemovalInDtor
    <3>3. f \in Functor
      BY <1>3
    <3>4. \A t \in Server : Accepting(t)' => Accepting(t) /\ call'[Base(t)] = call[Base(t)]
      BY <3>1, <3>3, NotFunctors DEF Accepting
    <3> QED
      BY <1>1, <1>2, <2>6, <3>2, <3>4, NamesStay
  <2>10. \A d \in Conn : (InMap(d)' <=> InMap(d)) /\ PhaseOf(d)' = PhaseOf(d)
    BY <1>2 DEF InMap, PhaseOf
  <2>11. ASSUME NEW d \in Conn, d # c PROVE Fits(d)'
    <3>1. \A k \in Loop : /\ Has(k, EstablishFn(d))' <=> Has(k, EstablishFn(d))
                          /\ Has(k, RemoveFn(d))' <=> Has(k, RemoveFn(d))
                          /\ Has(k, DestroyFn(d))' <=> Has(k, DestroyFn(d))
      BY <2>5, <2>11, CallsDiffer
    <3>2. d \in reading' <=> d \in reading
      BY <2>1, <2>11
    <3> QED
      BY <1>1, <1>2, <2>6, <2>10, <2>11, <3>1, <3>2, FitsStays
  <2>12. Fits(c)'
    <3>1. \A k \in Loop : /\ ~Has(k, EstablishFn(c))'
                          /\ Has(k, f)' => k = b
                          /\ Has(k, DestroyFn(c))' <=> Has(k, DestroyFn(c))
      BY <2>2, <2>5, CallsDiffer
    <3>2. \A k \in Loop : Has(k, DestroyFn(c)) =>
            k = l /\ ~InMap(c) /\ PhaseOf(c) # "started"
      BY <1>1, <1>2 DEF Fits, FunctorsFit, Down
    <3>3. Kept(c)
      BY <1>1, <1>2 DEF Fits, WillEnd
    <3>4. PhaseOf(c) = "started" => InMap(c)
      BY <1>3, <3>2, <3>3 DEF Kept
    <3>5. FunctorsFit(c)'
      BY <1>2, <1>3, <2>1, <2>6, <2>10, <3>1, <3>2, <3>4 DEF FunctorsFit, Down
    <3>6. Kept(c)'
      BY <1>2, <1>3, <2>10, <3>1, <3>3 DEF Kept
    <3>7. WillEnd(c)'
      BY <2>1, <2>6, <3>6 DEF WillEnd
    <3> QED
      BY <3>5, <3>7 DEF Fits
  <2> QED
    BY <1>4, <2>5, <2>7, <2>8, <2>9, <2>11, <2>12, InvFromParts
<1> QED
  BY <1>5, <1>6

\* The connection c is destroyed in its loop.
LEMMA DestroyedKeepsInv ==
  ASSUME Inv, Running, NEW c \in Conn, Destroyed(c)
  PROVE  Inv'
<1> DEFINE l == conn[c].loop
           f == DestroyFn(c)
<1>1. /\ ServerTypes /\ MapTypes /\ ConnTypes /\ LoopTypes
      /\ Queues /\ Names /\ \A d \in Conn : Fits(d)
      /\ PollersKeepOpenChannels /\ failed = "none"
      /\ \A d \in Conn : Known(d) =>
           /\ conn[d].server \in Server /\ conn[d].loop \in Loop
  BY Facts
<1>2. /\ UNCHANGED << phase, numThreads_, nextIndex_, connectionIndex_, connections_ >>
      /\ UNCHANGED << conn, held, shutting >>
      /\ Open(c) /\ call[l] = f /\ Return(l)
  BY DEF Destroyed, DestroyFn, servers, accepting
<1>3. Known(c) /\ l \in Loop /\ f \in Functor
  BY <1>1, <1>2, CallsDiffer DEF Open, Known
<1>4. /\ Queues' /\ LoopTypes'
      /\ \A k \in Loop : \A g \in Functor : Has(k, g)' <=> Has(k, g) /\ ~(k = l /\ g = f)
      /\ call'[l] = NoCall /\ \A k \in Loop \ {l} : call'[k] = call[k]
  <2>1. /\ Queues'
        /\ \A k \in Loop : \A g \in Functor : Has(k, g)' <=> Has(k, g) /\ ~(k = l /\ g = f)
    BY <1>1, <1>2, <1>3, ReturnKeepsQueues
  <2>2. call'[l] = NoCall /\ \A k \in Loop \ {l} : call'[k] = call[k]
    BY <1>1, <1>2, <1>3 DEF Return, LoopTypes
  <2> QED
    BY <2>1, <2>2 DEF Queues
<1>5. ServerTypes' /\ MapTypes'
  BY <1>1, <1>2 DEF ServerTypes, MapTypes
<1>6. CASE state_[c] # "connected" /\ c \in reading
  <2>1. /\ failed' = "remove" /\ state_' = state_ /\ registered' = registered
        /\ reading' = reading
    BY <1>6 DEF Destroyed
  <2>2. ConnTypes' /\ PollersKeepOpenChannels'
    BY <1>1, <1>2, <2>1 DEF ConnTypes, PollersKeepOpenChannels, Open
  <2>3. ~Running'
    BY <2>1 DEF Running
  <2> QED
    BY <1>4, <1>5, <2>2, <2>3, InvFromParts
<1>7. CASE ~(state_[c] # "connected" /\ c \in reading)
  <2> DEFINE x == IF state_[c] = "connected" THEN "disconnected" ELSE state_[c]
  <2>1. ~Has(l, EstablishFn(c)) /\ Has(l, f)
    <3>1. EstablishFn(c) # f
      BY CallsDiffer
    <3>2. ~InQueue(l, EstablishFn(c))
      BY <1>1, <1>2, <1>3 DEF Queues, EstablishedFirst
    <3> QED
      BY <1>2, <3>1, <3>2 DEF Has
  <2>2. /\ state_[c] \in {"connected", "disconnecting", "disconnected"}
        /\ x \in {"disconnecting", "disconnected"}
    BY <1>1, <1>2, <2>1 DEF Fits, WillEnd, Open, ConnTypes
  <2>3. /\ state_' = [state_ EXCEPT ![c] = x]
        /\ registered' = registered \ {c} /\ reading' = reading \ {c} /\ failed' = "none"
    BY <1>1, <1>7 DEF Destroyed, ConnTypes
  <2> HIDE DEF x
  <2>4. /\ state_'[c] = x /\ \A d \in Conn \ {c} : state_'[d] = state_[d]
        /\ \A d \in Conn : (Known(d)' <=> Known(d)) /\ (Open(d)' <=> Open(d))
    BY <1>1, <1>2, <2>2, <2>3 DEF ConnTypes, Known, Open
  <2>5. ConnTypes'
    BY <1>1, <1>2, <2>2, <2>3, <2>4 DEF ConnTypes, Known
  <2>6. PollersKeepOpenChannels'
    BY <1>1, <2>3, <2>4 DEF PollersKeepOpenChannels, ConnTypes
  <2>7. Names'
    <3>1. \A t \in Server : call'[Base(t)] = call[Base(t)] \/ call'[Base(t)] = NoCall
      BY <1>4, BaseIsALoop
    <3>2. NoRemovalInDtor'
      BY <1>1, <1>2, <3>1, NoCallIsNoRemoval DEF Names, NoRemovalInDtor
    <3>3. \A t \in Server : Accepting(t)' => Accepting(t) /\ call'[Base(t)] = call[Base(t)]
      BY <3>1 DEF Accepting
    <3> QED
      BY <1>1, <1>2, <2>4, <3>2, <3>3, NamesStay
  <2>8. \A d \in Conn : (InMap(d)' <=> InMap(d)) /\ PhaseOf(d)' = PhaseOf(d)
    BY <1>2 DEF InMap, PhaseOf
  <2>9. ASSUME NEW d \in Conn, d # c PROVE Fits(d)'
    <3>1. \A k \in Loop : /\ Has(k, EstablishFn(d))' <=> Has(k, EstablishFn(d))
                          /\ Has(k, RemoveFn(d))' <=> Has(k, RemoveFn(d))
                          /\ Has(k, DestroyFn(d))' <=> Has(k, DestroyFn(d))
      BY <1>4, <2>9, CallsDiffer
    <3>2. (d \in registered' <=> d \in registered) /\ (d \in reading' <=> d \in reading)
      BY <2>3, <2>9
    <3> QED
      BY <1>1, <1>2, <2>4, <2>8, <2>9, <3>1, <3>2, FitsStays
  <2>10. Fits(c)'
    <3>1. \A k \in Loop : /\ Has(k, EstablishFn(c))' <=> Has(k, EstablishFn(c))
                          /\ Has(k, RemoveFn(c))' <=> Has(k, RemoveFn(c))
                          /\ Has(k, f)' <=> Has(k, f) /\ k # l
      BY <1>4, CallsDiffer
    <3>2. \A k \in Loop : ~Has(k, EstablishFn(c))' /\ ~Has(k, f)'
      BY <1>1, <2>2, <3>1 DEF Fits, FunctorsFit
    <3>3. \A k \in Loop : Has(k, RemoveFn(c)) =>
            k = Base(conn[c].server) /\ (PhaseOf(c) = "started" => InMap(c))
      BY <1>1 DEF Fits, FunctorsFit
    <3>4. FunctorsFit(c)'
      BY <1>2, <2>2, <2>3, <2>4, <2>8, <3>1, <3>2, <3>3 DEF FunctorsFit, Down
    <3>5. WillEnd(c)'
      BY <2>2, <2>3, <2>4 DEF WillEnd
    <3> QED
      BY <3>4, <3>5 DEF Fits
  <2> QED
    BY <1>4, <1>5, <2>5, <2>6, <2>7, <2>9, <2>10, InvFromParts
<1> QED
  BY <1>6, <1>7

\* A connection leaves the map of s.
LEMMA EraseKeepsMaps ==
  ASSUME MapTypes, ConnTypes, Names, NEW s \in Server, NEW n \in DOMAIN connections_[s],
         connections_' = [connections_ EXCEPT ![s] = Restrict(@, DOMAIN @ \ {n})],
         conn' = conn
  PROVE  /\ MapTypes'
         /\ \A t \in Server : \A m \in DOMAIN connections_'[t] :
              m \in DOMAIN connections_[t] /\ connections_'[t][m] = connections_[t][m]
         /\ \A d \in Conn : Known(d) =>
              (InMap(d)' <=> InMap(d) /\ d # connections_[s][n])
<1> DEFINE map == connections_[s]
           c == map[n]
<1>1. /\ DOMAIN connections_' = Server
      /\ connections_'[s] = [m \in DOMAIN map \ {n} |-> map[m]]
      /\ \A t \in Server \ {s} : connections_'[t] = connections_[t]
  BY DEF MapTypes, Restrict
<1>2. DOMAIN connections_'[s] = DOMAIN map \ {n}
      /\ \A m \in DOMAIN map \ {n} : connections_'[s][m] = map[m]
  BY <1>1
<1>3. MapTypes'
  BY <1>1, <1>2 DEF MapTypes
<1>4. \A t \in Server : \A m \in DOMAIN connections_'[t] :
        m \in DOMAIN connections_[t] /\ connections_'[t][m] = connections_[t][m]
  BY <1>1, <1>2
<1>5. c \in Conn /\ Known(c) /\ conn[c].server = s /\ conn[c].name = n
  BY DEF MapTypes, Names, MapIsRight
<1>6. ASSUME NEW d \in Conn, Known(d) PROVE InMap(d)' <=> InMap(d) /\ d # c
  <2>1. conn[d].server \in Server
    BY <1>6 DEF ConnTypes, Known
  <2>2. CASE conn[d].server # s
    BY <1>1, <1>5, <2>1, <2>2 DEF InMap
  <2>3. CASE conn[d].server = s
    <3>1. conn[d].name = n /\ InMap(d) => d = c
      BY <2>3 DEF InMap
    <3>2. d = c => conn[d].name = n
      BY <1>5
    <3> HIDE DEF map, c
    <3>3. InMap(d) <=> conn[d].name \in DOMAIN map /\ map[conn[d].name] = d
      BY <2>3 DEF InMap, map
    <3>4. InMap(d)' <=> conn[d].name \in DOMAIN map \ {n} /\ map[conn[d].name] = d
      BY <1>2, <2>3 DEF InMap
    <3> QED
      BY <3>1, <3>2, <3>3, <3>4
  <2> QED
    BY <2>2, <2>3
<1> QED
  BY <1>3, <1>4, <1>6

\* The connection c, which closed, is erased from the map.
LEMMA RemoveKeepsInv ==
  ASSUME Inv, Running, NEW c \in Conn, RemoveConnectionInLoop(c)
  PROVE  Inv'
<1> DEFINE s == conn[c].server
           b == Base(s)
           n == conn[c].name
           l == conn[c].loop
           r == RemoveFn(c)
           f == DestroyFn(c)
<1>1. /\ ServerTypes /\ MapTypes /\ ConnTypes /\ LoopTypes
      /\ Queues /\ Names /\ \A d \in Conn : Fits(d)
      /\ PollersKeepOpenChannels /\ failed = "none"
      /\ \A d \in Conn : Known(d) =>
           /\ conn[d].server \in Server /\ conn[d].loop \in Loop
           /\ Base(conn[d].server) \in Loop
  BY Facts
<1>2. /\ UNCHANGED << phase, numThreads_, nextIndex_, connectionIndex_ >>
      /\ UNCHANGED << conn, state_, registered, reading, held, shutting >>
      /\ Open(c) /\ call[b] = r
  BY DEF RemoveConnectionInLoop, RemoveFn, servers, accepting, connections
<1>3. /\ Known(c) /\ s \in Server /\ l \in Loop /\ b \in Loop
      /\ r \in Functor /\ f \in Functor
  BY <1>1, <1>2, CallsDiffer DEF Open, Known
<1>4. ServerTypes'
  BY <1>1, <1>2 DEF ServerTypes
<1>5. phase[s] \in {"started", "gone"}
  <2>1. phase[s] # "constructed" /\ phase[s] # "destructing"
    BY <1>1, <1>2, <1>3 DEF Names, StartedBefore, PhaseOf, NoRemovalInDtor
  <2> QED
    BY <1>1, <1>3, <2>1 DEF ServerTypes
<1>6. Down(c) /\ (phase[s] = "started" => InMap(c))
  BY <1>1, <1>2, <1>3 DEF Has, Fits, FunctorsFit, PhaseOf
<1>7. CASE phase[s] = "gone"
  <2>1. failed' = "dangling" /\ call' = call /\ funcQueue' = funcQueue
        /\ connections_' = connections_
    BY <1>7 DEF RemoveConnectionInLoop, loops
  <2>2. MapTypes' /\ ConnTypes' /\ LoopTypes' /\ PollersKeepOpenChannels'
    BY <1>1, <1>2, <2>1 DEF MapTypes, ConnTypes, LoopTypes, PollersKeepOpenChannels, Open
  <2>3. ~Running'
    BY <2>1 DEF Running
  <2> QED
    BY <1>4, <2>2, <2>3, InvFromParts
<1>8. CASE phase[s] = "started"
  <2>1. InMap(c) /\ n \in DOMAIN connections_[s] /\ connections_[s][n] = c
    BY <1>6, <1>8 DEF InMap
  <2>2. /\ connections_' = [connections_ EXCEPT ![s] = Restrict(@, DOMAIN @ \ {n})]
        /\ QueueInLoop(b, l, f) /\ failed' = "none"
    BY <1>1, <1>8, <2>1 DEF RemoveConnectionInLoop, Erase, QueueDestroyed, DestroyFn
  <2>3. /\ MapTypes'
        /\ \A t \in Server : \A m \in DOMAIN connections_'[t] :
             m \in DOMAIN connections_[t] /\ connections_'[t][m] = connections_[t][m]
        /\ \A d \in Conn : Known(d) => (InMap(d)' <=> InMap(d) /\ d # c)
    <3> HIDE DEF s, n
    <3> QED
      BY <1>1, <1>2, <1>3, <2>1, <2>2, EraseKeepsMaps
  <2>4. \A k \in Loop : ~Has(k, f)
    BY <1>1, <2>1 DEF Fits, FunctorsFit
  <2>5. \A d \in Conn : f # EstablishFn(d)
    BY CallsDiffer
  <2>6. /\ Queues' /\ LoopTypes'
        /\ \A k \in Loop : \A g \in Functor :
             Has(k, g)' <=> (Has(k, g) /\ ~(k = b /\ g = r)) \/ (k = l /\ g = f)
        /\ call'[b] = NoCall /\ \A k \in Loop \ {b} : call'[k] = call[k]
    <3> HIDE DEF b, l, f, r
    <3>1. /\ Queues'
          /\ \A k \in Loop : \A g \in Functor :
               Has(k, g)' <=> (Has(k, g) /\ ~(k = b /\ g = r)) \/ (k = l /\ g = f)
          /\ call'[b] = NoCall /\ \A k \in Loop \ {b} : call'[k] = call[k]
      BY <1>1, <1>2, <1>3, <2>2, <2>4, <2>5, QueueKeepsQueues
    <3> QED
      BY <3>1 DEF Queues
  <2>7. \A d \in Conn : /\ Known(d)' <=> Known(d)
                        /\ Open(d)' <=> Open(d)
                        /\ PhaseOf(d)' = PhaseOf(d)
    BY <1>2 DEF Known, Open, PhaseOf
  <2>8. ConnTypes' /\ PollersKeepOpenChannels'
    BY <1>1, <1>2, <2>2 DEF ConnTypes, PollersKeepOpenChannels, Open
  <2>9. Names'
    <3>1. \A t \in Server : call'[Base(t)] = call[Base(t)] \/ call'[Base(t)] = NoCall
      BY <2>6, BaseIsALoop
    <3>2. NoRemovalInDtor'
      BY <1>1, <1>2, <3>1, NoCallIsNoRemoval DEF Names, NoRemovalInDtor
    <3>3. \A t \in Server : Accepting(t)' => Accepting(t) /\ call'[Base(t)] = call[Base(t)]
      BY <3>1 DEF Accepting
    <3> QED
      BY <1>1, <1>2, <2>3, <2>7, <3>2, <3>3, NamesStay
  <2>10. ASSUME NEW d \in Conn, d # c PROVE Fits(d)'
    <3>1. \A k \in Loop : /\ Has(k, EstablishFn(d))' <=> Has(k, EstablishFn(d))
                          /\ Has(k, RemoveFn(d))' <=> Has(k, RemoveFn(d))
                          /\ Has(k, DestroyFn(d))' <=> Has(k, DestroyFn(d))
      BY <2>6, <2>10, CallsDiffer
    <3> QED
      BY <1>1, <1>2, <2>3, <2>7, <2>10, <3>1, FitsStays
  <2>11. Fits(c)'
    <3>1. \A k \in Loop : /\ Has(k, EstablishFn(c))' <=> Has(k, EstablishFn(c))
                          /\ Has(k, r)' <=> Has(k, r) /\ k # b
                          /\ Has(k, f)' <=> k = l
      BY <2>4, <2>6, CallsDiffer
    <3>2. \A k \in Loop : ~Has(k, EstablishFn(c))' /\ ~Has(k, r)'
      BY <1>1, <1>6, <3>1 DEF Fits, FunctorsFit, Down
    <3>3. ~InMap(c)'
      BY <1>3, <2>3
    <3>4. FunctorsFit(c)'
      BY <1>2, <1>3, <1>6, <2>7, <3>1, <3>2, <3>3 DEF FunctorsFit, Down
    <3>5. Kept(c)'
      BY <1>2, <1>3, <3>1 DEF Kept
    <3>6. WillEnd(c)'
      BY <1>1, <1>2, <1>6, <3>5 DEF Fits, WillEnd, Down
    <3> QED
      BY <3>4, <3>6 DEF Fits
  <2> QED
    BY <1>4, <2>3, <2>6, <2>8, <2>9, <2>10, <2>11, InvFromParts
<1> QED
  BY <1>5, <1>7, <1>8

\* The destructor of s destroys a connection that is in the map.
LEMMA DtorDestroysKeepsInv ==
  ASSUME Inv, Running, NEW s \in Server, DtorDestroys(s)
  PROVE  Inv'
<1> DEFINE b == Base(s)
<1>1. /\ ServerTypes /\ MapTypes /\ ConnTypes /\ LoopTypes
      /\ Queues /\ Names /\ \A d \in Conn : Fits(d)
      /\ PollersKeepOpenChannels /\ failed = "none"
      /\ \A d \in Conn : Known(d) =>
           /\ conn[d].server \in Server /\ conn[d].loop \in Loop
  BY Facts
<1>2. /\ UNCHANGED << phase, numThreads_, nextIndex_, connectionIndex_ >>
      /\ UNCHANGED << conn, state_, registered, reading, held, shutting, failed >>
      /\ phase[s] = "destructing" /\ call[b] = NoCall
  BY DEF DtorDestroys, servers, accepting, connections
<1>3. PICK n \in DOMAIN connections_[s] :
        /\ connections_' = [connections_ EXCEPT ![s] = Restrict(@, DOMAIN @ \ {n})]
        /\ DestroyInLoop(s, connections_[s][n])
  BY DEF DtorDestroys
<1>4. PICK c \in Conn : /\ c = connections_[s][n]
                       /\ Known(c) /\ conn[c].server = s /\ conn[c].name = n
  BY <1>1 DEF MapTypes, Names, MapIsRight
<1> DEFINE l == conn[c].loop
           f == DestroyFn(c)
<1>5. /\ InMap(c) /\ PhaseOf(c) = "destructing"
      /\ b \in Loop /\ l \in Loop /\ f \in Functor
      /\ RunInLoop(b, l, f)
  BY <1>1, <1>2, <1>3, <1>4, BaseIsALoop, CallsDiffer
    DEF InMap, PhaseOf, DestroyInLoop, DestroyFn
<1>6. /\ MapTypes'
      /\ \A t \in Server : \A m \in DOMAIN connections_'[t] :
           m \in DOMAIN connections_[t] /\ connections_'[t][m] = connections_[t][m]
      /\ \A d \in Conn : Known(d) => (InMap(d)' <=> InMap(d) /\ d # c)
  <2>1. conn' = conn
    BY <1>2
  <2>2. /\ MapTypes'
        /\ \A t \in Server : \A m \in DOMAIN connections_'[t] :
             m \in DOMAIN connections_[t] /\ connections_'[t][m] = connections_[t][m]
        /\ \A d \in Conn : Known(d) => (InMap(d)' <=> InMap(d) /\ d # connections_[s][n])
    BY <1>1, <1>3, <2>1, EraseKeepsMaps
  <2> QED
    BY <1>4, <2>2
<1>7. \A k \in Loop : ~Has(k, f)
  BY <1>1, <1>4, <1>5 DEF Fits, FunctorsFit
<1>8. call[b] \notin Functor
  BY <1>2, NotFunctors
<1>9. \A d \in Conn : f # EstablishFn(d)
  BY <1>4, CallsDiffer
<1>10. \A d \in Conn : ~InQueue(b, EstablishFn(d))
  BY <1>1 DEF Queues, EstablishedFirst
<1> HIDE DEF b, l, f
<1>11. /\ Queues' /\ LoopTypes'
       /\ \A k \in Loop : \A g \in Functor : Has(k, g)' <=> Has(k, g) \/ (k = l /\ g = f)
       /\ call'[b] \in {f, NoCall} /\ \A k \in Loop \ {b} : call'[k] = call[k]
  <2>1. /\ Queues'
        /\ \A k \in Loop : \A g \in Functor : Has(k, g)' <=> Has(k, g) \/ (k = l /\ g = f)
        /\ call'[b] \in {f, NoCall} /\ \A k \in Loop \ {b} : call'[k] = call[k]
    BY <1>1, <1>5, <1>7, <1>8, <1>9, <1>10, RunKeepsQueues
  <2> QED
    BY <2>1 DEF Queues
<1>12. ServerTypes' /\ ConnTypes' /\ PollersKeepOpenChannels'
  BY <1>1, <1>2 DEF ServerTypes, ConnTypes, PollersKeepOpenChannels, Open
<1>13. \A d \in Conn : /\ Known(d)' <=> Known(d)
                       /\ Open(d)' <=> Open(d)
                       /\ PhaseOf(d)' = PhaseOf(d)
  BY <1>2 DEF Known, Open, PhaseOf
<1>14. Names'
  <2>1. \A t \in Server : call'[Base(t)] = call[Base(t)] \/ call'[Base(t)] \in {f, NoCall}
    BY <1>11, BaseIsALoop
  <2>2. NoRemovalInDtor'
    <3>1. \A d \in Conn : f # RemoveFn(d) /\ NoCall # RemoveFn(d)
      BY <1>4, CallsDiffer, NoCallIsNoRemoval DEF f
    <3> QED
      BY <1>1, <1>2, <2>1, <3>1 DEF Names, NoRemovalInDtor
  <2>3. \A t \in Server : Accepting(t)' => Accepting(t) /\ call'[Base(t)] = call[Base(t)]
    BY <1>5, <2>1, NotFunctors DEF Accepting
  <2> QED
    BY <1>1, <1>2, <1>6, <1>13, <2>2, <2>3, NamesStay
<1>15. ASSUME NEW d \in Conn, d # c PROVE Fits(d)'
  <2>1. \A k \in Loop : /\ Has(k, EstablishFn(d))' <=> Has(k, EstablishFn(d))
                        /\ Has(k, RemoveFn(d))' <=> Has(k, RemoveFn(d))
                        /\ Has(k, DestroyFn(d))' <=> Has(k, DestroyFn(d))
    BY <1>4, <1>11, <1>15, CallsDiffer DEF f
  <2> QED
    BY <1>1, <1>2, <1>6, <1>13, <1>15, <2>1, FitsStays
<1>16. Fits(c)'
  <2>1. \A k \in Loop : /\ Has(k, EstablishFn(c))' <=> Has(k, EstablishFn(c))
                        /\ Has(k, RemoveFn(c))' <=> Has(k, RemoveFn(c))
                        /\ Has(k, f)' <=> k = l
    BY <1>4, <1>7, <1>11, CallsDiffer DEF f
  <2>2. /\ ~InMap(c)' /\ Known(c)' /\ PhaseOf(c)' = "destructing"
        /\ conn' = conn /\ state_' = state_ /\ registered' = registered
        /\ reading' = reading /\ shutting' = shutting
    BY <1>2, <1>4, <1>5, <1>6, <1>13
  <2>3. \A k \in Loop :
          /\ Has(k, EstablishFn(c)) => state_[c] = "connecting" /\ k = l
          /\ Has(k, RemoveFn(c)) => Down(c) /\ k = Base(conn[c].server)
    BY <1>1, <1>4 DEF Fits, FunctorsFit, l
  <2>4. FunctorsFit(c)'
    BY <2>1, <2>2, <2>3 DEF FunctorsFit, Down, f, l
  <2>5. Kept(c)'
    BY <1>5, <2>1, <2>2 DEF Kept, f, l
  <2>6. state_[c] = "connecting" => Has(l, EstablishFn(c))'
    BY <1>1, <1>4, <1>5, <2>1, <2>2 DEF Fits, WillEnd, l
  <2>7. WillEnd(c)'
    BY <1>1, <1>4, <2>2, <2>5, <2>6 DEF Fits, WillEnd, l
  <2> QED
    BY <2>4, <2>7 DEF Fits
<1> QED
  BY <1>4, <1>6, <1>11, <1>12, <1>14, <1>15, <1>16, InvFromParts

\* A thread is about to shut the connection c down ...
LEMMA ShutdownTestsKeepsInv ==
  ASSUME Inv, Running, NEW c \in Conn, ShutdownTests(c)
  PROVE  Inv'
<1>1. /\ ServerTypes /\ MapTypes /\ ConnTypes /\ LoopTypes
      /\ Queues /\ Names /\ \A d \in Conn : Fits(d)
      /\ PollersKeepOpenChannels /\ failed = "none"
      /\ \A d \in Conn : Known(d) =>
           /\ conn[d].server \in Server /\ conn[d].loop \in Loop
  BY Facts
<1>2. /\ UNCHANGED << phase, numThreads_, nextIndex_, connectionIndex_, connections_ >>
      /\ UNCHANGED << conn, state_, registered, reading, held, failed >>
      /\ UNCHANGED loops
      /\ call' = call /\ state_[c] = "connected" /\ shutting' = shutting \cup {c}
  BY DEF ShutdownTests, servers, accepting, loops
<1>3. /\ Queues' /\ LoopTypes'
      /\ \A k \in Loop : \A g \in Functor : Has(k, g)' <=> Has(k, g)
  BY <1>1, <1>2, OthersKeepQueues DEF Queues
<1>4. ServerTypes' /\ MapTypes' /\ ConnTypes' /\ PollersKeepOpenChannels'
  BY <1>1, <1>2 DEF ServerTypes, MapTypes, ConnTypes, PollersKeepOpenChannels, Open
<1>5. \A d \in Conn : /\ Known(d)' <=> Known(d)
                      /\ Open(d)' <=> Open(d)
                      /\ InMap(d)' <=> InMap(d)
                      /\ PhaseOf(d)' = PhaseOf(d)
  BY <1>2 DEF Known, Open, InMap, PhaseOf
<1>6. Names'
  <2>1. NoRemovalInDtor'
    BY <1>1, <1>2 DEF Names, NoRemovalInDtor
  <2>2. \A t \in Server : Accepting(t)' => Accepting(t)
    BY <1>2 DEF Accepting
  <2> QED
    BY <1>1, <1>2, <1>5, <2>1, <2>2, NamesStay
<1>7. \A d \in Conn, k \in Loop :
        /\ Has(k, EstablishFn(d))' <=> Has(k, EstablishFn(d))
        /\ Has(k, RemoveFn(d))' <=> Has(k, RemoveFn(d))
        /\ Has(k, DestroyFn(d))' <=> Has(k, DestroyFn(d))
  BY <1>3, CallsDiffer
<1>8. ASSUME NEW d \in Conn, d # c PROVE Fits(d)'
  <2>1. d \in shutting' <=> d \in shutting
    BY <1>2, <1>8
  <2> QED
    BY <1>1, <1>2, <1>5, <1>7, <1>8, <2>1, FitsStays
<1>9. Fits(c)'
  <2>1. FunctorsFit(c)'
    BY <1>1, <1>2, <1>5, <1>7 DEF Fits, FunctorsFit, Down
  <2>2. conn[c].loop \in Loop /\ Kept(c)
    BY <1>1, <1>2 DEF Known, Fits, WillEnd
  <2>3. Kept(c)'
    BY <1>2, <1>5, <1>7, <2>2 DEF Kept
  <2>4. WillEnd(c)'
    BY <1>1, <1>2, <2>3 DEF Fits, WillEnd
  <2> QED
    BY <2>1, <2>4 DEF Fits
<1> QED
  BY <1>3, <1>4, <1>6, <1>8, <1>9, InvFromParts

\* ... and does, whatever became of it.
LEMMA ShutdownAssignsKeepsInv ==
  ASSUME Inv, Running, NEW c \in Conn, ShutdownAssigns(c)
  PROVE  Inv'
<1>1. /\ ServerTypes /\ MapTypes /\ ConnTypes /\ LoopTypes
      /\ Queues /\ Names /\ \A d \in Conn : Fits(d)
      /\ PollersKeepOpenChannels /\ failed = "none"
      /\ \A d \in Conn : Known(d) =>
           /\ conn[d].server \in Server /\ conn[d].loop \in Loop
  BY Facts
<1>2. /\ UNCHANGED << phase, numThreads_, nextIndex_, connectionIndex_, connections_ >>
      /\ UNCHANGED << conn, registered, reading, held, failed >> /\ UNCHANGED loops
      /\ call' = call /\ shutting' \in {shutting, shutting \ {c}}
      /\ state_[c] \in {"connected", "disconnecting", "disconnected"}
      /\ state_' = [state_ EXCEPT ![c] = "disconnecting"]
  BY <1>1 DEF ShutdownAssigns, servers, accepting, loops, Fits, WillEnd
<1>3. /\ state_'[c] = "disconnecting" /\ \A d \in Conn \ {c} : state_'[d] = state_[d]
      /\ \A d \in Conn : (Known(d)' <=> Known(d)) /\ (Open(d)' <=> Open(d))
  BY <1>1, <1>2 DEF ConnTypes, Known, Open
<1>4. /\ Queues' /\ LoopTypes'
      /\ \A k \in Loop : \A g \in Functor : Has(k, g)' <=> Has(k, g)
  BY <1>1, <1>2, OthersKeepQueues DEF Queues
<1>5. ServerTypes' /\ MapTypes' /\ PollersKeepOpenChannels'
  BY <1>1, <1>2, <1>3 DEF ServerTypes, MapTypes, PollersKeepOpenChannels, ConnTypes
<1>6. ConnTypes'
  BY <1>1, <1>2, <1>3 DEF ConnTypes, Known
<1>7. Names'
  <2>1. NoRemovalInDtor'
    BY <1>1, <1>2 DEF Names, NoRemovalInDtor
  <2>2. \A t \in Server : Accepting(t)' => Accepting(t)
    BY <1>2 DEF Accepting
  <2> QED
    BY <1>1, <1>2, <1>3, <2>1, <2>2, NamesStay
<1>8. \A d \in Conn : (InMap(d)' <=> InMap(d)) /\ PhaseOf(d)' = PhaseOf(d)
  BY <1>2 DEF InMap, PhaseOf
<1>9. \A d \in Conn, k \in Loop :
        /\ Has(k, EstablishFn(d))' <=> Has(k, EstablishFn(d))
        /\ Has(k, RemoveFn(d))' <=> Has(k, RemoveFn(d))
        /\ Has(k, DestroyFn(d))' <=> Has(k, DestroyFn(d))
  BY <1>4, CallsDiffer
<1>10. ASSUME NEW d \in Conn, d # c PROVE Fits(d)'
  <2>1. d \in shutting' <=> d \in shutting
    BY <1>2, <1>10
  <2> QED
    BY <1>1, <1>2, <1>3, <1>8, <1>9, <1>10, <2>1, FitsStays
<1>11. Fits(c)'
  <2>1. FunctorsFit(c)'
    BY <1>1, <1>2, <1>3, <1>8, <1>9 DEF Fits, FunctorsFit, Down
  <2>2. conn[c].loop \in Loop
    BY <1>1, <1>2 DEF Known
  <2>3. c \in registered => Kept(c)'
    BY <1>1, <1>2, <1>8, <1>9, <2>2 DEF Kept, Fits, WillEnd
  <2>4. WillEnd(c)'
    BY <1>1, <1>2, <1>3, <2>3 DEF Fits, WillEnd
  <2> QED
    BY <2>1, <2>4 DEF Fits
<1> QED
  BY <1>4, <1>5, <1>6, <1>7, <1>10, <1>11, InvFromParts

\* The user lets go of the connection c.
LEMMA ReleaseKeepsInv ==
  ASSUME Inv, Running, NEW c \in Conn, Release(c)
  PROVE  Inv'
<1>1. /\ ServerTypes /\ MapTypes /\ ConnTypes /\ LoopTypes
      /\ Queues /\ Names /\ \A d \in Conn : Fits(d)
      /\ PollersKeepOpenChannels /\ failed = "none"
      /\ \A d \in Conn : Known(d) =>
           /\ conn[d].server \in Server /\ conn[d].loop \in Loop
  BY Facts
<1>2. /\ UNCHANGED << phase, numThreads_, nextIndex_, connectionIndex_, connections_ >>
      /\ UNCHANGED << conn, state_, registered, reading, shutting, failed >>
      /\ UNCHANGED loops
      /\ call' = call /\ held' = held \ {c}
  BY DEF Release, servers, accepting, loops
<1>3. /\ Queues' /\ LoopTypes'
      /\ \A k \in Loop : \A g \in Functor : Has(k, g)' <=> Has(k, g)
  BY <1>1, <1>2, OthersKeepQueues DEF Queues
<1>4. ServerTypes' /\ MapTypes' /\ ConnTypes' /\ PollersKeepOpenChannels'
  BY <1>1, <1>2 DEF ServerTypes, MapTypes, ConnTypes, PollersKeepOpenChannels, Open
<1>5. \A d \in Conn : /\ Known(d)' <=> Known(d)
                      /\ Open(d)' <=> Open(d)
                      /\ InMap(d)' <=> InMap(d)
                      /\ PhaseOf(d)' = PhaseOf(d)
  BY <1>2 DEF Known, Open, InMap, PhaseOf
<1>6. Names'
  <2>1. NoRemovalInDtor'
    BY <1>1, <1>2 DEF Names, NoRemovalInDtor
  <2>2. \A t \in Server : Accepting(t)' => Accepting(t)
    BY <1>2 DEF Accepting
  <2> QED
    BY <1>1, <1>2, <1>5, <2>1, <2>2, NamesStay
<1>7. ASSUME NEW d \in Conn PROVE Fits(d)'
  <2>1. \A k \in Loop : /\ Has(k, EstablishFn(d))' <=> Has(k, EstablishFn(d))
                        /\ Has(k, RemoveFn(d))' <=> Has(k, RemoveFn(d))
                        /\ Has(k, DestroyFn(d))' <=> Has(k, DestroyFn(d))
    BY <1>3, CallsDiffer
  <2> QED
    BY <1>1, <1>2, <1>5, <2>1, FitsStays
<1> QED
  BY <1>3, <1>4, <1>6, <1>7, InvFromParts

\* A connection that nobody uses is down, and its channel removed.
LEMMA UnusedIsOver ==
  ASSUME Inv, Running, NEW c \in Conn, Open(c), ~InUse(c)
  PROVE  /\ Down(c) /\ c \notin registered /\ c \notin shutting
         /\ \A k \in Loop : /\ ~Has(k, EstablishFn(c)) /\ ~Has(k, RemoveFn(c))
                            /\ ~Has(k, DestroyFn(c))
<1>1. ConnTypes /\ Fits(c) /\ Known(c) /\ conn[c].server \in Server /\ conn[c].loop \in Loop
  BY Facts DEF Open, Known
<1>2. /\ EstablishFn(c) \in Functors(c) /\ RemoveFn(c) \in Functors(c)
      /\ DestroyFn(c) \in Functors(c)
  BY DEF Functors, EstablishFn, RemoveFn, DestroyFn
<1>3. \A k \in Loop : \A f \in Functors(c) : ~Has(k, f)
  BY DEF InUse, Has, InQueue, Range
<1>4. ~InMap(c)
  BY <1>1 DEF InUse, InMap, Range
<1>5. ~Kept(c)
  BY <1>1, <1>2, <1>3, <1>4 DEF Kept
<1>6. state_[c] # "connecting" /\ c \notin registered
  BY <1>5, <1>1 DEF Fits, WillEnd
<1>7. Down(c)
  BY <1>1, <1>6 DEF Fits, WillEnd, Open, ConnTypes, Down
<1>8. c \notin shutting
  BY DEF InUse
<1> QED
  BY <1>2, <1>3, <1>6, <1>7, <1>8

\* The last pointer to the connection c is dropped.
LEMMA DestructKeepsInv ==
  ASSUME Inv, Running, NEW c \in Conn, Destruct(c)
  PROVE  Inv'
<1>1. /\ ServerTypes /\ MapTypes /\ ConnTypes /\ LoopTypes
      /\ Queues /\ Names /\ \A d \in Conn : Fits(d)
      /\ PollersKeepOpenChannels /\ failed = "none"
      /\ \A d \in Conn : Known(d) =>
           /\ conn[d].server \in Server /\ conn[d].loop \in Loop
  BY Facts
<1>2. Open(c) /\ ~InUse(c)
  BY DEF Destruct
<1>3. /\ Down(c) /\ c \notin registered /\ c \notin shutting
      /\ \A k \in Loop : /\ ~Has(k, EstablishFn(c)) /\ ~Has(k, RemoveFn(c))
                         /\ ~Has(k, DestroyFn(c))
  BY <1>2, UnusedIsOver
<1>4. /\ UNCHANGED << phase, numThreads_, nextIndex_, connectionIndex_, connections_ >>
      /\ UNCHANGED << conn, registered, reading, held, shutting >> /\ UNCHANGED loops
      /\ call' = call
  BY DEF Destruct, servers, accepting, loops
<1>5. /\ Queues' /\ LoopTypes'
      /\ \A k \in Loop : \A g \in Functor : Has(k, g)' <=> Has(k, g)
  BY <1>1, <1>4, OthersKeepQueues DEF Queues
<1>6. ServerTypes' /\ MapTypes'
  BY <1>1, <1>4 DEF ServerTypes, MapTypes
<1>7. CASE state_[c] # "disconnected"
  <2>1. failed' = "dtor" /\ state_' = state_
    BY <1>7 DEF Destruct
  <2>2. ConnTypes' /\ ~Running'
    BY <1>1, <1>4, <2>1 DEF ConnTypes, Running
  <2>3. \A d \in registered' : Open(d)'
    BY <1>1, <1>4, <2>1 DEF PollersKeepOpenChannels, Open
  <2>4. InUse(c)' <=> InUse(c)
    BY <1>4 DEF InUse, loops
  <2>5. c \in Conn \ reading' /\ state_'[c] = "disconnecting" /\ ~InUse(c)'
    BY <1>2, <1>3, <1>4, <1>7, <2>1, <2>4 DEF Down
  <2>6. PollersKeepOpenChannels'
    BY <2>1, <2>3, <2>5 DEF PollersKeepOpenChannels
  <2> QED
    BY <1>5, <1>6, <2>2, <2>6, InvFromParts
<1>8. CASE state_[c] = "disconnected"
  <2>1. state_' = [state_ EXCEPT ![c] = "gone"] /\ failed' = "none"
    BY <1>1, <1>8 DEF Destruct
  <2>2. /\ state_'[c] = "gone" /\ \A d \in Conn \ {c} : state_'[d] = state_[d]
        /\ \A d \in Conn : (Known(d)' <=> Known(d)) /\ (Open(d)' => Open(d))
        /\ \A d \in Conn : d # c => (Open(d)' <=> Open(d))
    BY <1>1, <1>8, <2>1 DEF ConnTypes, Known, Open
  <2>3. ConnTypes'
    BY <1>1, <1>4, <2>1, <2>2 DEF ConnTypes, Known
  <2>4. PollersKeepOpenChannels'
    BY <1>1, <1>3, <1>4, <2>1, <2>2 DEF PollersKeepOpenChannels, ConnTypes
  <2>5. Names'
    <3>1. NoRemovalInDtor'
      BY <1>1, <1>4 DEF Names, NoRemovalInDtor
    <3>2. \A t \in Server : Accepting(t)' => Accepting(t)
      BY <1>4 DEF Accepting
    <3> QED
      BY <1>1, <1>4, <2>2, <3>1, <3>2, NamesStay
  <2>6. \A d \in Conn : (InMap(d)' <=> InMap(d)) /\ PhaseOf(d)' = PhaseOf(d)
    BY <1>4 DEF InMap, PhaseOf
  <2>7. \A d \in Conn, k \in Loop :
          /\ Has(k, EstablishFn(d))' <=> Has(k, EstablishFn(d))
          /\ Has(k, RemoveFn(d))' <=> Has(k, RemoveFn(d))
          /\ Has(k, DestroyFn(d))' <=> Has(k, DestroyFn(d))
    BY <1>5, CallsDiffer
  <2>8. ASSUME NEW d \in Conn, d # c PROVE Fits(d)'
    BY <1>1, <1>4, <2>2, <2>6, <2>7, <2>8, FitsStays
  <2>9. Fits(c)'
    BY <1>3, <1>4, <2>2, <2>7 DEF Fits, FunctorsFit, WillEnd, Down
  <2> QED
    BY <1>5, <1>6, <2>3, <2>4, <2>5, <2>8, <2>9, InvFromParts
<1> QED
  BY <1>7, <1>8

\* The loop that getNextLoop chooses.
LEMMA NextLoopIsALoop ==
  ASSUME ServerTypes, NEW s \in Server
  PROVE  /\ NextLoop(s) \in Loop
         /\ NextLoop(s) # Base(s) => \A t \in Server : NextLoop(s) # Base(t)
         /\ NextIndex(s) \in 0 .. MaxThreads
         /\ NextIndex(s) # 0 => NextIndex(s) < numThreads_[s]
<1>1. /\ MaxThreads \in Nat /\ numThreads_[s] \in 0 .. MaxThreads
      /\ nextIndex_[s] \in 0 .. MaxThreads
      /\ nextIndex_[s] # 0 => nextIndex_[s] < numThreads_[s]
  BY ServerAssumption DEF ServerTypes
<1>2. CASE numThreads_[s] = 0
  BY <1>1, <1>2, BaseIsALoop DEF NextLoop, NextIndex
<1>3. CASE numThreads_[s] # 0
  <2>1. nextIndex_[s] + 1 \in 1 .. MaxThreads
    BY <1>1, <1>3
  <2>2. (nextIndex_[s] + 1) % numThreads_[s] \in 0 .. numThreads_[s] - 1
    BY <1>1, <1>3
  <2>3. NextIndex(s) \in 0 .. MaxThreads /\ NextIndex(s) < numThreads_[s]
    BY <1>1, <1>3, <2>2 DEF NextIndex
  <2>4. NextLoop(s) = << s, nextIndex_[s] + 1 >>
    BY <1>3 DEF NextLoop
  <2>5. NextLoop(s) \in Loop
    BY <1>1, <2>1, <2>4 DEF Loop
  <2>6. \A t \in Server : NextLoop(s) # Base(t)
    BY <1>1, <2>1, <2>4 DEF Base
  <2> QED
    BY <2>3, <2>5, <2>6
<1> QED
  BY <1>2, <1>3

\* A connection is made of what was accepted.
LEMMA NewConnectionKeepsInv ==
  ASSUME OneServer, Inv, Running, NEW s \in Server, NewConnection(s)
  PROVE  Inv'
<1> DEFINE b == Base(s)
           fd == call[b][2]
<1>1. /\ ServerTypes /\ MapTypes /\ ConnTypes /\ LoopTypes
      /\ Queues /\ Names /\ \A d \in Conn : Fits(d)
      /\ PollersKeepOpenChannels /\ failed = "none"
      /\ \A d \in Conn : Known(d) =>
           /\ conn[d].server \in Server /\ conn[d].loop \in Loop
  BY Facts
<1>2. /\ Accepting(s) /\ phase[s] = "started" /\ b \in Loop
      /\ call[b][3] = connectionIndex_
      /\ \E d \in Conn : ~Known(d)
      /\ \A d \in Conn : Open(d) => conn[d].fd # fd
  BY <1>1, BaseIsALoop DEF NewConnection, Accepting, Names, AcceptedIsNew
<1>3. call[b] \in {"newConnection"} \X Fd \X Nat
  BY <1>1, <1>2, NotFunctors DEF LoopTypes, Accepting
<1>4. call[b] \notin Functor /\ fd \in Fd
  BY <1>3, NotFunctors
<1>5. PICK c \in Conn : c = CHOOSE d \in Conn : state_[d] = "none"
  BY <1>2 DEF Known
<1>6. ~Known(c)
  BY <1>2, <1>5 DEF Known
<1>7. PICK l \in Loop : l = NextLoop(s)
  BY <1>1, NextLoopIsALoop
<1> DEFINE i == connectionIndex_
           f == EstablishFn(c)
<1>8. /\ connectionIndex_' = i + 1
      /\ conn' = [conn EXCEPT ![c] = [server |-> s, name |-> i, loop |-> l, fd |-> fd]]
      /\ connections_' = [connections_ EXCEPT ![s] = Named(@, i, c)]
      /\ state_' = [state_ EXCEPT ![c] = "connecting"]
      /\ RunInLoop(b, l, f)
      /\ nextIndex_' = [nextIndex_ EXCEPT ![s] = NextIndex(s)]
      /\ UNCHANGED << phase, numThreads_, registered, reading, held, shutting, failed >>
  BY <1>2, <1>5, <1>7 DEF NewConnection, Incremented, EstablishFn, servers
<1>9. i \in Nat /\ f \in Functor /\ \A t \in Server : t = s
  BY <1>1, CallsDiffer DEF ServerTypes, OneServer
<1>10. \A k \in Loop : /\ ~Has(k, EstablishFn(c)) /\ ~Has(k, RemoveFn(c))
                       /\ ~Has(k, DestroyFn(c))
  BY <1>1, <1>6 DEF Fits, FunctorsFit, Known, Down
<1>11. \A d \in Conn : /\ f = EstablishFn(d) => d = c
                       /\ f # DestroyFn(d) /\ f # RemoveFn(d)
  BY CallsDiffer
<1>12. b # l => \A t \in Server : l # Base(t)
  BY <1>1, <1>7, NextLoopIsALoop
<1> HIDE DEF b, fd, i, f
<1>13. /\ Queues' /\ LoopTypes'
       /\ \A k \in Loop : \A g \in Functor : Has(k, g)' <=> Has(k, g) \/ (k = l /\ g = f)
       /\ call'[b] \in {f, NoCall} /\ \A k \in Loop \ {b} : call'[k] = call[k]
  <2>1. ~Has(l, f) /\ \A d \in Conn : f = EstablishFn(d) => ~Has(l, DestroyFn(d))
    BY <1>10, <1>11 DEF f
  <2>2. /\ Queues'
        /\ \A k \in Loop : \A g \in Functor : Has(k, g)' <=> Has(k, g) \/ (k = l /\ g = f)
        /\ call'[b] \in {f, NoCall} /\ \A k \in Loop \ {b} : call'[k] = call[k]
    BY <1>1, <1>2, <1>4, <1>8, <1>9, <1>11, <1>12, <2>1, RunKeepsQueues
  <2> QED
    BY <2>2 DEF Queues
<1>14. /\ DOMAIN conn' = Conn
       /\ conn'[c] = [server |-> s, name |-> i, loop |-> l, fd |-> fd]
       /\ \A d \in Conn \ {c} : conn'[d] = conn[d] /\ state_'[d] = state_[d]
       /\ state_'[c] = "connecting"
       /\ state_' \in [Conn -> {"none", "connecting", "connected", "disconnecting",
                                "disconnected", "gone"}]
  BY <1>1, <1>8 DEF ConnTypes
<1>15. \A d \in Conn \ {c} : (Known(d)' <=> Known(d)) /\ (Open(d)' <=> Open(d))
  BY <1>14 DEF Known, Open
<1>16. ServerTypes'
  <2>1. DOMAIN nextIndex_' = Server /\ nextIndex_'[s] = NextIndex(s)
        /\ \A t \in Server \ {s} : nextIndex_'[t] = nextIndex_[t]
    BY <1>1, <1>8 DEF ServerTypes
  <2>2. i + 1 \in Nat
    BY <1>9
  <2>3. \A t \in Server : /\ nextIndex_'[t] \in 0 .. MaxThreads
                          /\ nextIndex_'[t] # 0 => nextIndex_'[t] < numThreads_[t]
    BY <1>1, <2>1, NextLoopIsALoop DEF ServerTypes
  <2> QED
    BY <1>1, <1>8, <2>1, <2>2, <2>3 DEF ServerTypes
<1>17. /\ DOMAIN connections_' = Server
       /\ DOMAIN connections_'[s] = DOMAIN connections_[s] \cup {i}
       /\ connections_'[s][i] = c
       /\ \A n \in DOMAIN connections_[s] : n # i => connections_'[s][n] = connections_[s][n]
  BY <1>1, <1>8 DEF MapTypes, Named
<1>18. MapTypes'
  BY <1>1, <1>9, <1>17 DEF MapTypes
<1>19. ConnTypes'
  <2>1. conn'[c] \in [server : Server, name : Nat, loop : Loop, fd : Fd]
    BY <1>4, <1>9, <1>14 DEF fd
  <2> QED
    BY <1>1, <1>8, <1>14, <2>1 DEF ConnTypes
<1>20. PollersKeepOpenChannels'
  BY <1>1, <1>8, <1>14 DEF PollersKeepOpenChannels, Open, ConnTypes
<1>21. /\ \A d \in Conn : Known(d) => d # c /\ conn[d].name # i /\ conn[d].name < i + 1
       /\ \A d \in Conn : Known(d)' => d = c \/ Known(d)
       /\ \A d \in Conn : Open(d)' => d = c \/ (Open(d) /\ conn[d].fd # fd)
  <2>1. \A d \in Conn : Known(d) => conn[d].name \in Nat /\ conn[d].name < i
    BY <1>1 DEF Names, NamesDiffer, ConnTypes, Known, i
  <2>2. \A d \in Conn : Known(d) => conn[d].name # i /\ conn[d].name < i + 1
    BY <1>9, <2>1
  <2> QED
    BY <1>2, <1>6, <1>15, <2>2 DEF fd
<1>22. Names'
  <2>1. AcceptedIsNew'
    <3>1. \A t \in Server : ~Accepting(t)'
      BY <1>9, <1>13, NotFunctors DEF Accepting, b
    <3> QED
      BY <3>1 DEF AcceptedIsNew
  <2>2. NamesDiffer'
    <3>1. \A d \in Conn : Known(d)' => conn'[d].name < connectionIndex_'
      BY <1>8, <1>9, <1>14, <1>21
    <3>2. \A d \in Conn : Known(d)' /\ d # c => conn'[d].name # conn'[c].name
      BY <1>14, <1>21
    <3>3. \A d, e \in Conn :
            Known(d)' /\ Known(e)' /\ conn'[d].server = conn'[e].server
              /\ conn'[d].name = conn'[e].name => d = e
      BY <1>1, <1>14, <1>21, <3>2 DEF Names, NamesDiffer
    <3> QED
      BY <3>1, <3>3 DEF NamesDiffer
  <2>3. FdsDiffer'
    BY <1>1, <1>14, <1>21 DEF Names, FdsDiffer
  <2>4. MapIsRight'
    <3> SUFFICES ASSUME NEW n \in DOMAIN connections_'[s]
                 PROVE  \E d \in Conn : /\ d = connections_'[s][n] /\ state_'[d] # "none"
                                       /\ conn'[d].server = s /\ conn'[d].name = n
      BY <1>9 DEF MapIsRight, Known
    <3>1. CASE n = i
      BY <1>14, <1>17, <3>1
    <3>2. CASE n # i
      <4>1. n \in DOMAIN connections_[s] /\ connections_'[s][n] = connections_[s][n]
        BY <1>17, <3>2
      <4>2. PICK d \in Conn : /\ d = connections_[s][n] /\ Known(d)
                             /\ conn[d].server = s /\ conn[d].name = n
        BY <1>1, <4>1 DEF MapTypes, Names, MapIsRight
      <4> QED
        BY <1>14, <1>21, <4>1, <4>2 DEF Known
    <3> QED
      BY <3>1, <3>2
  <2>5. StartedBefore'
    BY <1>1, <1>2, <1>8, <1>14, <1>21 DEF Names, StartedBefore, PhaseOf
  <2>6. NoRemovalInDtor'
    BY <1>2, <1>8, <1>9 DEF NoRemovalInDtor
  <2> QED
    BY <2>1, <2>2, <2>3, <2>4, <2>5, <2>6 DEF Names
<1>23. ASSUME NEW d \in Conn, d # c PROVE Fits(d)'
  <2>1. \A k \in Loop : /\ Has(k, EstablishFn(d))' <=> Has(k, EstablishFn(d))
                        /\ Has(k, RemoveFn(d))' <=> Has(k, RemoveFn(d))
                        /\ Has(k, DestroyFn(d))' <=> Has(k, DestroyFn(d))
    BY <1>13, <1>23, CallsDiffer DEF f
  <2>2. Known(d) => (InMap(d)' <=> InMap(d))
    <3> SUFFICES ASSUME Known(d) PROVE InMap(d)' <=> InMap(d)
      OBVIOUS
    <3>1. conn'[d] = conn[d] /\ conn[d].server = s /\ conn[d].name # i
      BY <1>1, <1>9, <1>14, <1>21, <1>23
    <3> QED
      BY <1>17, <3>1 DEF InMap
  <2>3. PhaseOf(d)' = PhaseOf(d)
    BY <1>8, <1>14, <1>23 DEF PhaseOf
  <2> QED
    BY <1>1, <1>8, <1>14, <1>23, <2>1, <2>2, <2>3, FitsStays
<1>24. Fits(c)'
  <2>1. \A k \in Loop : /\ Has(k, f)' <=> k = l
                        /\ ~Has(k, RemoveFn(c))' /\ ~Has(k, DestroyFn(c))'
    BY <1>10, <1>11, <1>13, CallsDiffer DEF f
  <2>2. /\ state_'[c] = "connecting" /\ conn'[c].loop = l
        /\ conn'[c].server = s /\ conn'[c].name = i
    BY <1>14
  <2>3. FunctorsFit(c)'
    BY <2>1, <2>2 DEF FunctorsFit, f
  <2>4. Kept(c)'
    BY <1>17, <2>2 DEF Kept, InMap
  <2>5. c \notin registered' /\ c \notin reading' /\ c \notin shutting'
    BY <1>1, <1>6, <1>8 DEF Fits, WillEnd, Known
  <2>6. WillEnd(c)'
    BY <2>1, <2>2, <2>4, <2>5 DEF WillEnd, f
  <2> QED
    BY <2>3, <2>6 DEF Fits
<1> QED
  BY <1>13, <1>16, <1>18, <1>19, <1>20, <1>22, <1>23, <1>24, InvFromParts

-----------------------------------------------------------------------------
(* The invariant.                                                           *)

LEMMA InitInv == Init => Inv
<1> SUFFICES ASSUME Init PROVE Inv
  OBVIOUS
<1>1. ServerTypes
  <2>1. DOMAIN nextIndex_ = Server /\ \A s \in Server : nextIndex_[s] = 0
        /\ connectionIndex_ \in Nat
    BY DEF Init
  <2>2. \A s \in Server : /\ nextIndex_[s] \in 0 .. MaxThreads
                          /\ nextIndex_[s] # 0 => nextIndex_[s] < numThreads_[s]
    BY <2>1, ServerAssumption
  <2> QED
    BY <2>1, <2>2 DEF Init, ServerTypes
<1>2. MapTypes /\ LoopTypes
  BY DEF Init, MapTypes, LoopTypes
<1>3. ConnTypes
  BY DEF Init, ConnTypes
<1>4. PollersKeepOpenChannels
  BY DEF Init, PollersKeepOpenChannels
<1>5. \A c \in Conn : /\ ~Known(c) /\ ~Open(c) /\ state_[c] = "none"
                      /\ c \notin registered /\ c \notin reading /\ c \notin shutting
  BY DEF Init, Known, Open
<1>6. \A l \in Loop : call[l] = NoCall /\ \A f \in Functor : ~Has(l, f)
  BY NotFunctors DEF Init, Has, InQueue
<1>7. Queues
  <2>1. Distinct
    BY DEF Init, Distinct
  <2>2. EstablishedFirst
    <3>1. \A l \in Loop : DOMAIN funcQueue[l] = {}
      BY DEF Init
    <3> QED
      BY <3>1, BaseIsALoop DEF EstablishedFirst, InQueue
  <2> QED
    BY <1>2, <2>1, <2>2 DEF Queues
<1>8. Names
  <2>1. AcceptedIsNew /\ NoRemovalInDtor
    <3>1. \A s \in Server : call[Base(s)] = NoCall
      BY <1>6, BaseIsALoop
    <3>2. AcceptedIsNew
      BY <3>1 DEF AcceptedIsNew, Accepting
    <3>3. NoRemovalInDtor
      BY <3>1, NoCallIsNoRemoval DEF NoRemovalInDtor
    <3> QED
      BY <3>2, <3>3
  <2>2. NamesDiffer /\ FdsDiffer /\ StartedBefore
    BY <1>5 DEF NamesDiffer, FdsDiffer, StartedBefore
  <2>3. MapIsRight
    BY DEF Init, MapIsRight
  <2> QED
    BY <2>1, <2>2, <2>3 DEF Names
<1>9. \A c \in Conn : Fits(c)
  BY <1>5, <1>6, CallsDiffer DEF Fits, FunctorsFit, WillEnd
<1>10. TypeOK /\ Shape
  BY <1>1, <1>2, <1>3, TypeParts
<1> QED
  BY <1>4, <1>7, <1>8, <1>9, <1>10 DEF Inv, Inner

LEMMA NextKeepsInv ==
  ASSUME OneServer, Inv, [Next]_vars
  PROVE  Inv'
<1>1. CASE UNCHANGED vars
  <2>1. Queues' <=> Queues
    BY <1>1 DEF vars, loops, Queues, LoopTypes, Distinct, EstablishedFirst, InQueue
  <2>2. \A k, f : Has(k, f)' <=> Has(k, f)
    BY <1>1 DEF vars, loops, Has, InQueue
  <2>3. \A c \in Conn : Fits(c)' <=> Fits(c)
    BY <1>1, <2>2 DEF vars, servers, connections, Fits, FunctorsFit, WillEnd, Kept,
                      InMap, PhaseOf, Known, Down
  <2>4. Names' <=> Names
    BY <1>1 DEF vars, servers, accepting, loops, connections, Names, AcceptedIsNew,
                Accepting, NamesDiffer, FdsDiffer, MapIsRight, StartedBefore,
                NoRemovalInDtor, Known, Open, PhaseOf
  <2>5. Running' <=> Running
    BY <1>1 DEF vars, Running
  <2>6. PollersKeepOpenChannels' <=> PollersKeepOpenChannels
    BY <1>1 DEF vars, loops, connections, PollersKeepOpenChannels, Open, InUse
  <2>7. TypeOK' /\ Shape'
    BY <1>1 DEF vars, servers, accepting, loops, connections, Inv, TypeOK, Shape
  <2> QED
    BY <2>1, <2>3, <2>4, <2>5, <2>6, <2>7 DEF Inv, Inner
<1>2. CASE Next
  <2>1. Running
    BY <1>2 DEF Next
  <2>2. ASSUME NEW s \in Server,
               Start(s) \/ AcceptFails(s) \/ ServerDtor(s) \/ DtorStep(s)
        PROVE  Inv'
    BY <2>1, <2>2, PhaseKeepsInv, AcceptFailsKeepsInv, DtorDestroysKeepsInv DEF DtorStep
  <2>3. ASSUME NEW s \in Server, NEW f \in Fd, Accept(s, f) PROVE Inv'
    BY <2>1, <2>3, AcceptKeepsInv
  <2>4. ASSUME NEW s \in Server, NewConnection(s) PROVE Inv'
    BY <2>1, <2>4, NewConnectionKeepsInv
  <2>5. ASSUME NEW l \in Loop, Dispatch(l) PROVE Inv'
    BY <2>1, <2>5, DispatchKeepsInv
  <2>6. ASSUME NEW c \in Conn, Progress(c) PROVE Inv'
    BY <2>1, <2>6, EstablishedKeepsInv, DestroyedKeepsInv, RemoveKeepsInv,
       ShutdownAssignsKeepsInv, ReleaseKeepsInv, DestructKeepsInv DEF Progress
  <2>7. ASSUME NEW c \in Conn, HandleClose(c) PROVE Inv'
    BY <2>1, <2>7, HandleCloseKeepsInv
  <2>8. ASSUME NEW c \in Conn, ShutdownTests(c) PROVE Inv'
    BY <2>1, <2>8, ShutdownTestsKeepsInv
  <2> QED
    BY <1>2, <2>2, <2>3, <2>4, <2>5, <2>6, <2>7, <2>8 DEF Next
<1> QED
  BY <1>1, <1>2

\* Inv holds in every state of every execution with one server.
THEOREM Invariant ==
  ASSUME OneServer
  PROVE  Spec => []Inv
<1>1. Init => Inv
  BY InitInv
<1>2. Inv /\ [Next]_vars => Inv'
  BY NextKeepsInv
<1> QED
  BY <1>1, <1>2, PTL DEF Spec

\* The pollers of one server keep the channels of connections that are not
\* destructed and are never asked to add a descriptor twice; no connection is
\* erased twice, and the destructor's assertion fails only of one whose state_
\* shutdown assigned after it was down.
THEOREM PollersAreRight ==
  ASSUME OneServer
  PROVE  Spec => []PollersKeepOpenChannels
<1>1. Inv => PollersKeepOpenChannels
  BY DEF Inv
<1> QED
  BY <1>1, Invariant, PTL

\* A connection that did not close is in the map of its server, the only one,
\* until its destruction is under way.
THEOREM OpenAreKept ==
  ASSUME OneServer
  PROVE  Spec => []OpenConnectionsAreKept
<1>1. Inv => OpenConnectionsAreKept
  <2> SUFFICES ASSUME Inv PROVE OpenConnectionsAreKept
    OBVIOUS
  <2>1. TypeOK
    BY DEF Inv
  <2>2. ASSUME Running, NEW c \in Conn, Life(c) \in {"accepted", "up"}
        PROVE  \/ InMap(c)
               \/ call[conn[c].loop] = << "destroyed", c >>
               \/ << "destroyed", c >> \in Range(funcQueue[conn[c].loop])
    <3>1. ConnTypes /\ Fits(c)
      BY <2>2, Facts
    <3>2. state_[c] = "connecting" \/ c \in reading
      BY <2>2 DEF Life
    <3>3. Kept(c)
      BY <3>1, <3>2 DEF Fits, WillEnd
    <3> QED
      BY <3>3 DEF Kept, Has, InQueue, DestroyFn, Range
  <2> QED
    BY <2>1, <2>2 DEF OpenConnectionsAreKept, InMap
<1> QED
  BY <1>1, Invariant, PTL

-----------------------------------------------------------------------------
(* What the user sees is the life of connections.                           *)

Lives       == [c \in Conn |-> Life(c)]
Descriptors == [c \in Conn |-> IF Open(c) THEN conn[c].fd ELSE NoFd]

LEMMA LifeOfState ==
  ASSUME NEW c \in Conn
  PROVE  /\ state_[c] = "none" => Life(c) = "unborn"
         /\ state_[c] = "connecting" => Life(c) = "accepted"
         /\ state_[c] = "gone" => Life(c) = "gone"
         /\ state_[c] \in {"connected", "disconnecting", "disconnected"} =>
              Life(c) = IF c \in reading THEN "up" ELSE "down"
BY DEF Life

\* The connection c changes its state, and no other.
LEMMA StateChanges ==
  ASSUME ConnTypes, NEW c \in Conn, NEW x, conn' = conn,
         state_' = [state_ EXCEPT ![c] = x],
         \A d \in Conn \ {c} : d \in reading' <=> d \in reading
  PROVE  /\ state_'[c] = x
         /\ Lives' = [Lives EXCEPT ![c] = Life(c)']
         /\ \A d \in Conn \ {c} : Open(d)' <=> Open(d)
<1>1. state_'[c] = x /\ \A d \in Conn \ {c} : state_'[d] = state_[d]
  BY DEF ConnTypes
<1>2. \A d \in Conn \ {c} : Life(d)' = Life(d) /\ (Open(d)' <=> Open(d))
  BY <1>1 DEF Life, Open
<1>3. Lives' = [Lives EXCEPT ![c] = Life(c)']
  BY <1>2 DEF Lives
<1> QED
  BY <1>1, <1>2, <1>3

\* It stays open ...
LEMMA StaysOpen ==
  ASSUME ConnTypes, NEW c \in Conn, NEW x \in {"connected", "disconnecting", "disconnected"},
         conn' = conn, state_' = [state_ EXCEPT ![c] = x], Open(c),
         \A d \in Conn \ {c} : d \in reading' <=> d \in reading
  PROVE  /\ state_'[c] = x
         /\ Lives' = [Lives EXCEPT ![c] = Life(c)']
         /\ Descriptors' = Descriptors
<1>1. /\ state_'[c] = x
      /\ Lives' = [Lives EXCEPT ![c] = Life(c)']
      /\ \A d \in Conn \ {c} : Open(d)' <=> Open(d)
  BY StateChanges
<1>2. \A d \in Conn : Open(d)' <=> Open(d)
  BY <1>1 DEF Open
<1> QED
  BY <1>1, <1>2 DEF Descriptors

\* ... or closes its descriptor.
LEMMA Goes ==
  ASSUME ConnTypes, NEW c \in Conn, conn' = conn, reading' = reading,
         state_' = [state_ EXCEPT ![c] = "gone"]
  PROVE  /\ state_'[c] = "gone"
         /\ Lives' = [Lives EXCEPT ![c] = Life(c)']
         /\ Descriptors' = [Descriptors EXCEPT ![c] = NoFd]
<1>1. /\ state_'[c] = "gone"
      /\ Lives' = [Lives EXCEPT ![c] = Life(c)']
      /\ \A d \in Conn \ {c} : Open(d)' <=> Open(d)
  BY StateChanges
<1>2. ~Open(c)'
  BY <1>1 DEF Open
<1> QED
  BY <1>1, <1>2 DEF Descriptors

LEMMA Stutters ==
  ASSUME conn' = conn, state_' = state_, reading' = reading
  PROVE  Lives' = Lives /\ Descriptors' = Descriptors
BY DEF Lives, Descriptors, Life, Open

LEMMA InitIsLife == Init => AbstractLife!Init
<1> SUFFICES ASSUME Init PROVE Lives = [c \in Conn |-> "unborn"]
                               /\ Descriptors = [c \in Conn |-> NoFd]
  BY DEF AbstractLife!Init, Lives, Descriptors
<1>1. \A c \in Conn : Life(c) = "unborn" /\ ~Open(c)
  BY DEF Init, Life, Open
<1> QED
  BY <1>1 DEF Lives, Descriptors

LEMMA NextIsLife ==
  ASSUME OneServer, Inv, [Next]_vars
  PROVE  \/ \E c \in Conn :
              \/ /\ \/ Lives[c] = "accepted" /\ Lives' = [Lives EXCEPT ![c] = "up"]
                    \/ Lives[c] = "up" /\ Lives' = [Lives EXCEPT ![c] = "down"]
                 /\ Descriptors' = Descriptors
              \/ /\ Lives[c] = "down" /\ Lives' = [Lives EXCEPT ![c] = "gone"]
                 /\ Descriptors' = [Descriptors EXCEPT ![c] = NoFd]
              \/ \E f \in Fd :
                   /\ \A d \in Conn : Descriptors[d] # f
                   /\ Lives[c] = "unborn" /\ Lives' = [Lives EXCEPT ![c] = "accepted"]
                   /\ Descriptors' = [Descriptors EXCEPT ![c] = f]
         \/ Lives' = Lives /\ Descriptors' = Descriptors
<1>1. CASE conn' = conn /\ state_' = state_ /\ reading' = reading
  BY <1>1, Stutters
<1>2. ASSUME Running, NEW c \in Conn, Established(c)
      PROVE  /\ Lives[c] = "accepted" /\ Lives' = [Lives EXCEPT ![c] = "up"]
             /\ Descriptors' = Descriptors
  <2>1. ConnTypes /\ Fits(c)
    BY <1>2, Facts
  <2>2. /\ conn' = conn /\ state_' = [state_ EXCEPT ![c] = "connected"] /\ Open(c)
        /\ reading' = reading \cup {c}
        /\ call[conn[c].loop] = EstablishFn(c)
    BY <1>2 DEF Established, EstablishFn
  <2>3. conn[c].loop \in Loop
    BY <2>1, <2>2 DEF ConnTypes, Open
  <2>4. state_[c] = "connecting"
    BY <2>1, <2>2, <2>3 DEF Fits, FunctorsFit, Has
  <2>5. Life(c) = "accepted"
    BY <2>4, LifeOfState
  <2>6. state_'[c] = "connected" /\ Lives' = [Lives EXCEPT ![c] = Life(c)']
        /\ Descriptors' = Descriptors
    BY <2>1, <2>2, StaysOpen
  <2>7. Life(c)' = "up"
    BY <2>2, <2>6 DEF Life
  <2> QED
    BY <2>5, <2>6, <2>7 DEF Lives
<1>3. ASSUME Running, NEW c \in Conn, HandleClose(c) \/ Destroyed(c),
             ~(conn' = conn /\ state_' = state_ /\ reading' = reading)
      PROVE  /\ Lives[c] = "up" /\ Lives' = [Lives EXCEPT ![c] = "down"]
             /\ Descriptors' = Descriptors
  <2>1. ConnTypes /\ Fits(c)
    BY <1>3, Facts
  <2>2. /\ conn' = conn /\ state_' = [state_ EXCEPT ![c] = "disconnected"] /\ Open(c)
        /\ reading' = reading \ {c} /\ c \in reading
    <3>1. CASE HandleClose(c)
      BY <1>3, <3>1 DEF HandleClose
    <3>2. CASE Destroyed(c)
      <4>1. /\ conn' = conn /\ Open(c) /\ (state_[c] = "connected" \/ c \notin reading)
            /\ state_' = [state_ EXCEPT ![c] = IF @ = "connected" THEN "disconnected" ELSE @]
            /\ reading' = reading \ {c}
        BY <1>3, <3>2 DEF Destroyed
      <4>2. CASE state_[c] = "connected"
        BY <2>1, <4>1, <4>2 DEF Fits, WillEnd
      <4>3. CASE state_[c] # "connected"
        BY <1>3, <2>1, <4>1, <4>3 DEF ConnTypes
      <4> QED
        BY <4>2, <4>3
    <3> QED
      BY <1>3, <3>1, <3>2
  <2>3. state_'[c] = "disconnected" /\ Lives' = [Lives EXCEPT ![c] = Life(c)']
        /\ Descriptors' = Descriptors
    BY <2>1, <2>2, StaysOpen
  <2>4. Life(c) = "up"
    BY <2>1, <2>2, LifeOfState DEF Fits, WillEnd
  <2>5. Life(c)' = "down"
    BY <2>2, <2>3 DEF Life
  <2> QED
    BY <2>3, <2>4, <2>5 DEF Lives
<1>4. ASSUME Running, NEW c \in Conn, Destruct(c),
             ~(conn' = conn /\ state_' = state_ /\ reading' = reading)
      PROVE  /\ Lives[c] = "down" /\ Lives' = [Lives EXCEPT ![c] = "gone"]
             /\ Descriptors' = [Descriptors EXCEPT ![c] = NoFd]
  <2>1. ConnTypes
    BY <1>4, Facts
  <2>2. /\ conn' = conn /\ state_' = [state_ EXCEPT ![c] = "gone"] /\ reading' = reading
        /\ state_[c] = "disconnected" /\ Open(c) /\ ~InUse(c)
    BY <1>4 DEF Destruct
  <2>3. c \notin reading
    BY <1>4, <2>2, UnusedIsOver DEF Down
  <2>4. state_'[c] = "gone" /\ Lives' = [Lives EXCEPT ![c] = Life(c)']
        /\ Descriptors' = [Descriptors EXCEPT ![c] = NoFd]
    BY <2>1, <2>2, Goes
  <2>5. Life(c) = "down"
    BY <2>2, <2>3, LifeOfState
  <2>6. Life(c)' = "gone"
    BY <2>4 DEF Life
  <2> QED
    BY <2>4, <2>5, <2>6 DEF Lives
<1>5. ASSUME Running, NEW c \in Conn, ShutdownAssigns(c)
      PROVE  Lives' = Lives /\ Descriptors' = Descriptors
  <2>1. ConnTypes /\ Fits(c)
    BY <1>5, Facts
  <2>2. /\ conn' = conn /\ state_' = [state_ EXCEPT ![c] = "disconnecting"]
        /\ reading' = reading
        /\ state_[c] \in {"connected", "disconnecting", "disconnected"} /\ Open(c)
    BY <1>5, <2>1 DEF ShutdownAssigns, Open, Fits, WillEnd
  <2>3. state_'[c] = "disconnecting" /\ Lives' = [Lives EXCEPT ![c] = Life(c)']
        /\ Descriptors' = Descriptors
    BY <2>1, <2>2, StaysOpen
  <2>4. Life(c)' = Life(c)
    BY <2>2, <2>3 DEF Life
  <2> QED
    BY <2>3, <2>4 DEF Lives
<1>6. ASSUME Running, NEW s \in Server, NewConnection(s)
      PROVE  \E c \in Conn, f \in Fd :
               /\ \A d \in Conn : Descriptors[d] # f
               /\ Lives[c] = "unborn" /\ Lives' = [Lives EXCEPT ![c] = "accepted"]
               /\ Descriptors' = [Descriptors EXCEPT ![c] = f]
  <2>1. ConnTypes /\ LoopTypes /\ AcceptedIsNew
    BY <1>6, Facts DEF Names
  <2>2. Accepting(s) /\ Base(s) \in Loop
    BY <1>6, BaseIsALoop DEF NewConnection, Accepting
  <2>3. PICK f \in Fd : f = call[Base(s)][2]
    BY <2>1, <2>2, NotFunctors DEF LoopTypes, Accepting
  <2>4. PICK c \in Conn : /\ c = CHOOSE d \in Conn : state_[d] = "none"
                         /\ state_[c] = "none"
    BY <2>1, <2>2 DEF AcceptedIsNew, Known
  <2>5. /\ conn' = [conn EXCEPT ![c] = [server |-> s, name |-> call[Base(s)][3],
                                        loop |-> NextLoop(s), fd |-> f]]
        /\ state_' = [state_ EXCEPT ![c] = "connecting"]
    BY <1>6, <2>3, <2>4 DEF NewConnection
  <2>6. /\ conn'[c].fd = f /\ state_'[c] = "connecting"
        /\ \A d \in Conn \ {c} : conn'[d] = conn[d] /\ state_'[d] = state_[d]
    BY <2>1, <2>5 DEF ConnTypes
  <2>7. reading' = reading
    BY <1>6 DEF NewConnection
  <2>8. /\ \A d \in Conn \ {c} : Life(d)' = Life(d) /\ (Open(d)' <=> Open(d))
        /\ Open(c)' /\ Life(c)' = "accepted"
    BY <2>6, <2>7 DEF Life, Open
  <2>9. /\ Lives' = [Lives EXCEPT ![c] = "accepted"]
        /\ Descriptors' = [Descriptors EXCEPT ![c] = f]
    BY <2>6, <2>8 DEF Lives, Descriptors
  <2>10. Lives[c] = "unborn"
    BY <2>4, LifeOfState DEF Lives
  <2>11. \A d \in Conn : Descriptors[d] # f
    BY <2>1, <2>2, <2>3, ServerAssumption DEF AcceptedIsNew, Descriptors
  <2> QED
    BY <2>9, <2>10, <2>11
<1>7. CASE UNCHANGED vars
  BY <1>1, <1>7 DEF vars, connections
<1>8. CASE Next
  <2>1. Running
    BY <1>8 DEF Next
  <2>2. ASSUME NEW s \in Server, \/ Start(s) \/ AcceptFails(s) \/ ServerDtor(s)
                                 \/ DtorStep(s) \/ \E f \in Fd : Accept(s, f)
        PROVE  conn' = conn /\ state_' = state_ /\ reading' = reading
    BY <2>2 DEF Start, AcceptFails, ServerDtor, DtorStep, DtorDestroys, DtorEnds,
                Accept, connections
  <2>3. ASSUME NEW l \in Loop, Dispatch(l)
        PROVE  conn' = conn /\ state_' = state_ /\ reading' = reading
    BY <2>3 DEF Dispatch, connections
  <2>4. ASSUME NEW c \in Conn, RemoveConnectionInLoop(c) \/ Release(c) \/ ShutdownTests(c)
        PROVE  conn' = conn /\ state_' = state_ /\ reading' = reading
    BY <2>4 DEF RemoveConnectionInLoop, Release, ShutdownTests, connections
  <2>5. CASE \E s \in Server : NewConnection(s)
    BY <1>6, <2>1, <2>5
  <2>6. CASE \E c \in Conn : Established(c)
    BY <1>2, <2>1, <2>6
  <2>7. CASE \E c \in Conn : HandleClose(c) \/ Destroyed(c)
    BY <1>1, <1>3, <2>1, <2>7
  <2>8. CASE \E c \in Conn : Destruct(c)
    BY <1>1, <1>4, <2>1, <2>8
  <2>9. CASE \E c \in Conn : ShutdownAssigns(c)
    BY <1>5, <2>1, <2>9
  <2> QED
    BY <1>1, <1>8, <2>2, <2>3, <2>4, <2>5, <2>6, <2>7, <2>8, <2>9 DEF Next, Progress
<1> QED
  BY <1>7, <1>8

\* What the server does with its connections is, for the user, ConnectionLife:
\* each is up before it is down, and its descriptor is its own until it is gone.
THEOREM Implements ==
  ASSUME OneServer
  PROVE  Spec => ImplementsConnectionLife
<1>1. Init => AbstractLife!Init
  BY InitIsLife
<1>2. Inv /\ [Next]_vars => [AbstractLife!Next]_<< Lives, Descriptors >>
  <2> SUFFICES ASSUME Inv, [Next]_vars
               PROVE  [AbstractLife!Next]_<< Lives, Descriptors >>
    OBVIOUS
  <2> QED
    BY NextIsLife DEF AbstractLife!Next, AbstractLife!Up, AbstractLife!Down,
      AbstractLife!Go, AbstractLife!Accept, AbstractLife!Move, Lives, Descriptors
<1> QED
  BY <1>1, <1>2, Invariant, PTL
    DEF Spec, ImplementsConnectionLife, AbstractLife!Spec, Lives, Descriptors

=============================================================================
