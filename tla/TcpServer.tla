----------------------------- MODULE TcpServer -----------------------------
(***************************************************************************)
(* TcpServers with their Acceptors and many connections: the base loop      *)
(* accepts and keeps the connections, IO loops establish, close and destroy *)
(* them, and the destructor of a server meets them in every state.          *)
(*                                                                          *)
(* Of a connection there is what the server depends on; its bytes and its   *)
(* threads are in TcpConnection.  A loop is a thread with what it is        *)
(* calling and a queue.  Assertions are compiled in.                        *)
(***************************************************************************)
EXTENDS Integers, Sequences, FiniteSets, Functions

CONSTANTS Server,     \* the servers of the program, each with a base loop
          MaxThreads, \* the bound on setThreadNum
          Conn,       \* the connections, each of them accepted at most once
          Fd,         \* the descriptors that the system hands out
          NoFd

ASSUME ServerAssumption == MaxThreads \in Nat /\ NoFd \notin Fd

VARIABLES
  \* the servers
  phase,            \* "constructed", "started", in its destructor, or "gone"
  numThreads_,
  nextIndex_,
  connections_,     \* of each server, a map from names to connections
  connectionIndex_, \* one for the program
  \* the loops
  call,             \* what the loop's thread is calling
  funcQueue,
  \* the connections
  conn,             \* of each its server, name, loop and descriptor
  state_,           \* with "none" before it is constructed, "gone" after ~TcpConnection
  registered,       \* those whose channel is in the poller of their loop
  reading,          \* those whose channel waits for events
  held,             \* those that the user keeps a TcpConnectionPtr to
  shutting,         \* those that threads are shutting down, past the test of state_
  failed            \* what aborted the program, or "none"

servers     == << phase, numThreads_ >>
accepting   == << nextIndex_, connectionIndex_ >>
loops       == << call, funcQueue >>
connections == << conn, state_, registered, reading, held, shutting >>

vars == << servers, accepting, connections_, loops, connections, failed >>

\* Loop 0 of a server is its base loop.
Loop    == Server \X (0 .. MaxThreads)
Base(s) == << s, 0 >>

NoCall == << >>

Init ==
  /\ phase = [s \in Server |-> "constructed"]
  /\ numThreads_ \in [Server -> 0 .. MaxThreads]
  /\ nextIndex_ = [s \in Server |-> 0]
  /\ connections_ = [s \in Server |-> << >>]
  /\ connectionIndex_ = 0
  /\ call = [l \in Loop |-> NoCall]
  /\ funcQueue = [l \in Loop |-> << >>]
  /\ conn = [c \in Conn |-> << >>]
  /\ state_ = [c \in Conn |-> "none"]
  /\ registered = {} /\ reading = {} /\ held = {} /\ shutting = {}
  /\ failed = "none"

-----------------------------------------------------------------------------
(* Loops.                                                                   *)

\* The thread of l handles events or is about to take a functor.
Idle(l) ==
  /\ call[l] = NoCall
  /\ \A s \in Server : l = Base(s) => phase[s] # "destructing"

\* The thread of loop l, at the end of its call, has f run in another loop ...
QueueInLoop(l, other, f) ==
  /\ funcQueue' = [funcQueue EXCEPT ![other] = Append(@, f)]
  /\ call' = [call EXCEPT ![l] = NoCall]

\* Faulty: it is queued as well.
RunTwice(l, other, f) ==
  /\ call' = [call EXCEPT ![l] = IF l = other THEN f ELSE NoCall]
  /\ funcQueue' = [funcQueue EXCEPT ![other] = Append(@, f)]

\* ... or, in its own loop, calls it.
RunInLoop(l, other, f) ==
  IF l = other THEN call' = [call EXCEPT ![l] = f] /\ UNCHANGED funcQueue
               ELSE QueueInLoop(l, other, f)

Return(l) == call' = [call EXCEPT ![l] = NoCall] /\ UNCHANGED funcQueue

Dispatch(l) ==
  /\ Idle(l) /\ funcQueue[l] # << >>
  /\ call' = [call EXCEPT ![l] = Head(funcQueue[l])]
  /\ funcQueue' = [funcQueue EXCEPT ![l] = Tail(@)]
  /\ UNCHANGED << servers, accepting, connections_, connections, failed >>

-----------------------------------------------------------------------------
(* Accepting.                                                               *)

\* start: the pool's threads are started, and the acceptor listens.
Start(s) ==
  /\ phase[s] = "constructed"
  /\ phase' = [phase EXCEPT ![s] = "started"]
  /\ UNCHANGED << numThreads_, accepting, connections_, loops, connections,
                  failed >>

\* ~TcpConnection closes the socket.
Open(c) == state_[c] \notin {"none", "gone"}

FreeFd == {f \in Fd : /\ \A c \in Conn : Open(c) => conn[c].fd # f
                      /\ \A s \in Server : call[Base(s)] = NoCall \/ call[Base(s)][2] # f}

\* The bound of the model: there is a connection for each that is accepted.
ConnLeft ==
  Cardinality({s \in Server : call[Base(s)] # NoCall /\ call[Base(s)][1] = "newConnection"})
    < Cardinality({c \in Conn : state_[c] = "none"})

\* Acceptor::handleRead up to the use of connectionIndex_, which another base
\* loop may do as well: the increment is not atomic.
Accept(s, f) ==
  /\ phase[s] = "started" /\ Idle(Base(s))
  /\ f \in FreeFd /\ ConnLeft
  /\ call' = [call EXCEPT ![Base(s)] = << "newConnection", f, connectionIndex_ >>]
  /\ UNCHANGED << servers, accepting, connections_, funcQueue, connections,
                  failed >>

\* accept fails, for want of descriptors or because the peer gave up.
AcceptFails(s) ==
  /\ phase[s] = "started" /\ Idle(Base(s))
  /\ failed' = "accept"
  /\ UNCHANGED << servers, accepting, connections_, loops, connections >>

NextIndex(s) ==
  IF numThreads_[s] = 0 THEN nextIndex_[s]
                        ELSE (nextIndex_[s] + 1) % numThreads_[s]

\* getNextLoop.
NextLoop(s) ==
  IF numThreads_[s] = 0 THEN Base(s) ELSE << s, nextIndex_[s] + 1 >>

\* Faulty: connections get the same name.
NotIncremented(index) == index

Incremented(index) == index + 1

\* connections_[name] = c
Named(map, name, c) ==
  [n \in DOMAIN map \cup {name} |-> IF n = name THEN c ELSE map[n]]

\* onNewConnection.
NewConnection(s) ==
  /\ call[Base(s)] # NoCall /\ call[Base(s)][1] = "newConnection"
  /\ LET fd    == call[Base(s)][2]
         index == call[Base(s)][3]
         c     == CHOOSE d \in Conn : state_[d] = "none"
     IN /\ connectionIndex_' = Incremented(index)
        /\ conn' = [conn EXCEPT ![c] = [server |-> s, name |-> index,
                                        loop |-> NextLoop(s), fd |-> fd]]
        /\ connections_' = [connections_ EXCEPT ![s] = Named(@, index, c)]
        /\ state_' = [state_ EXCEPT ![c] = "connecting"]
        /\ RunInLoop(Base(s), NextLoop(s), << "established", c >>)
  /\ nextIndex_' = [nextIndex_ EXCEPT ![s] = NextIndex(s)]
  /\ UNCHANGED << servers, registered, reading, held, shutting, failed >>

-----------------------------------------------------------------------------
(* The connection c in its loop.                                            *)

Functors(c) == {"established", "remove", "destroyed"} \X {c}

\* Somebody has a TcpConnectionPtr.
InUse(c) ==
  \/ c \in held \cup shutting
  \/ \E s \in Server : c \in Range(connections_[s])
  \/ \E l \in Loop : \/ call[l] \in Functors(c)
                     \/ Range(funcQueue[l]) \cap Functors(c) # {}

\* connectionEstablished, whose callback may keep the pointer.  Enabling the
\* channel adds it to the poller, where its descriptor must be a new one.
Established(c) ==
  /\ Open(c) /\ call[conn[c].loop] = << "established", c >>
  /\ Return(conn[c].loop)
  /\ state_' = [state_ EXCEPT ![c] = "connected"]
  /\ registered' = registered \cup {c}
  /\ reading' = reading \cup {c}
  /\ held' \in {held, held \cup {c}}
  /\ failed' = IF \E d \in registered : /\ conn[d].loop = conn[c].loop
                                        /\ conn[d].fd = conn[c].fd
               THEN "add" ELSE failed
  /\ UNCHANGED << servers, accepting, connections_, conn, shutting >>

\* handleClose, with closeCallback_, which is removeConnection of the server.  A
\* loop's handlers come between any two of its functors here, not only between
\* batches.  A connection that nobody points to is destructed instead.  The
\* assertion of its state holds of every channel that waits for events.
HandleClose(c) ==
  /\ Open(c) /\ InUse(c) /\ Idle(conn[c].loop)
  /\ c \in registered \cap reading
  /\ IF phase[conn[c].server] = "gone"
     THEN failed' = "dangling" /\ UNCHANGED << loops, state_, reading >>
     ELSE /\ state_' = [state_ EXCEPT ![c] = "disconnected"]
          /\ reading' = reading \ {c}
          /\ RunInLoop(conn[c].loop, Base(conn[c].server), << "remove", c >>)
          /\ UNCHANGED failed
  /\ UNCHANGED << servers, accepting, connections_, conn, registered, held,
                  shutting >>

\* connectionDestryed, which disables the channel in kConnected only, and ends in
\* its removal, for which it must not wait for events any more.
Destroyed(c) ==
  /\ Open(c) /\ call[conn[c].loop] = << "destroyed", c >>
  /\ Return(conn[c].loop)
  /\ IF state_[c] # "connected" /\ c \in reading
     THEN failed' = "remove" /\ UNCHANGED << state_, registered, reading >>
     ELSE /\ state_' = [state_ EXCEPT ![c] = IF @ = "connected" THEN "disconnected" ELSE @]
          /\ registered' = registered \ {c}
          /\ reading' = reading \ {c}
          /\ UNCHANGED failed
  /\ UNCHANGED << servers, accepting, connections_, conn, held, shutting >>

-----------------------------------------------------------------------------
(* Removal, and the destructor of the server.                               *)

\* Faulty: the connection stays in the map.
NotErased(s, name) == UNCHANGED connections_

Erase(s, name) ==
  connections_' = [connections_ EXCEPT ![s] = Restrict(@, DOMAIN @ \ {name})]

\* Faulty: connectionDestryed is not queued.
NoDestroy(c) == Return(Base(conn[c].server))

QueueDestroyed(c) ==
  QueueInLoop(Base(conn[c].server), conn[c].loop, << "destroyed", c >>)

\* removeConnectionInLoop, and its assertion that a connection was erased.
RemoveConnectionInLoop(c) ==
  /\ Open(c)
  /\ LET s == conn[c].server
         name == conn[c].name
     IN /\ call[Base(s)] = << "remove", c >>
        /\ IF phase[s] = "started" /\ name \in DOMAIN connections_[s]
           THEN /\ Erase(s, name)
                /\ QueueDestroyed(c)
                /\ UNCHANGED failed
           ELSE /\ failed' = IF phase[s] = "gone" THEN "dangling" ELSE "erase"
                /\ UNCHANGED << loops, connections_ >>
  /\ UNCHANGED << servers, accepting, connections >>

\* ~TcpServer begins, in the base loop's thread ...
ServerDtor(s) ==
  /\ phase[s] \in {"constructed", "started"} /\ Idle(Base(s))
  /\ phase' = [phase EXCEPT ![s] = "destructing"]
  /\ UNCHANGED << numThreads_, accepting, connections_, loops, connections,
                  failed >>

\* Faulty: the destructor destroys the connections itself.
DestroyHere(s, c) == RunInLoop(conn[c].loop, conn[c].loop, << "destroyed", c >>)

DestroyInLoop(s, c) == RunInLoop(Base(s), conn[c].loop, << "destroyed", c >>)

\* ... has each connection destroyed in its loop ...
DtorDestroys(s) ==
  /\ phase[s] = "destructing" /\ call[Base(s)] = NoCall
  /\ \E name \in DOMAIN connections_[s] :
       /\ connections_' = [connections_ EXCEPT ![s] = Restrict(@, DOMAIN @ \ {name})]
       /\ DestroyInLoop(s, connections_[s][name])
  /\ UNCHANGED << servers, accepting, connections, failed >>

\* ... and ends.
DtorEnds(s) ==
  /\ phase[s] = "destructing" /\ call[Base(s)] = NoCall
  /\ connections_[s] = << >>
  /\ phase' = [phase EXCEPT ![s] = "gone"]
  /\ UNCHANGED << numThreads_, accepting, connections_, loops, connections,
                  failed >>

-----------------------------------------------------------------------------
(* The user, and the last pointer.                                          *)

\* shutdown of a connection that the user keeps: a thread tests state_ ...
ShutdownTests(c) ==
  /\ c \in held /\ state_[c] = "connected"
  /\ shutting' = shutting \cup {c}
  /\ UNCHANGED << servers, accepting, connections_, loops, conn, state_,
                  registered, reading, held, failed >>

\* ... and assigns it, whatever the connection's loop did in between.  Others may
\* be as far.  What is left of shutdown does not matter here: TcpConnection has it.
ShutdownAssigns(c) ==
  /\ c \in shutting
  /\ state_' = [state_ EXCEPT ![c] = "disconnecting"]
  /\ shutting' \in {shutting, shutting \ {c}}
  /\ UNCHANGED << servers, accepting, connections_, loops, conn, registered,
                  reading, held, failed >>

Release(c) ==
  /\ c \in held
  /\ held' = held \ {c}
  /\ UNCHANGED << servers, accepting, connections_, loops, conn, state_,
                  registered, reading, shutting, failed >>

\* ~TcpConnection, with its assertion, at some time after the last pointer was
\* dropped: functors keep theirs until their batch is destructed.
Destruct(c) ==
  /\ Open(c) /\ ~InUse(c)
  /\ IF state_[c] = "disconnected"
     THEN state_' = [state_ EXCEPT ![c] = "gone"] /\ UNCHANGED failed
     ELSE failed' = "dtor" /\ UNCHANGED state_
  /\ UNCHANGED << servers, accepting, connections_, loops, conn, registered,
                  reading, held, shutting >>

-----------------------------------------------------------------------------
\* What loops and the user do in the end.
Progress(c) == \/ Established(c)
               \/ Destroyed(c)
               \/ RemoveConnectionInLoop(c)
               \/ ShutdownAssigns(c)
               \/ Release(c)
               \/ Destruct(c)

DtorStep(s) == DtorDestroys(s) \/ DtorEnds(s)

Running == failed = "none"

Next ==
  /\ Running
  /\ \/ \E s \in Server : \/ Start(s)
                          \/ AcceptFails(s)
                          \/ ServerDtor(s)
                          \/ DtorStep(s)
                          \/ \E f \in Fd : Accept(s, f)
                          \/ NewConnection(s)
     \/ \E l \in Loop : Dispatch(l)
     \/ \E c \in Conn : Progress(c) \/ HandleClose(c) \/ ShutdownTests(c)

Spec == Init /\ [][Next]_vars

\* Loops run their functors, a destructor or a shutdown that was begun goes on, and
\* the user lets pointers go.
FairSpec ==
  /\ Spec
  /\ \A l \in Loop : WF_vars(Running /\ Dispatch(l))
  /\ \A c \in Conn : WF_vars(Running /\ Progress(c))
  /\ \A s \in Server : /\ WF_vars(Running /\ DtorStep(s))
                       /\ WF_vars(Running /\ NewConnection(s))

-----------------------------------------------------------------------------
(* Correctness.                                                             *)

Functor == {"established", "remove", "destroyed"} \X Conn

TypeOK ==
  /\ phase \in [Server -> {"constructed", "started", "destructing", "gone"}]
  /\ numThreads_ \in [Server -> 0 .. MaxThreads]
  /\ \A s \in Server : /\ nextIndex_[s] \in 0 .. MaxThreads
                       /\ nextIndex_[s] # 0 => nextIndex_[s] < numThreads_[s]
                       /\ DOMAIN connections_[s] \subseteq Nat
                       /\ Range(connections_[s]) \subseteq Conn
  /\ connectionIndex_ \in Nat
  /\ \A l \in Loop : /\ call[l] \in Functor \cup {NoCall}
                                    \cup ({"newConnection"} \X Fd \X Nat)
                     /\ funcQueue[l] \in Seq(Functor)
  /\ \A c \in Conn : state_[c] # "none" =>
       conn[c] \in [server : Server, name : Nat, loop : Loop, fd : Fd]
  /\ state_ \in [Conn -> {"none", "connecting", "connected", "disconnecting",
                           "disconnected", "gone"}]
  /\ registered \subseteq Conn /\ reading \subseteq Conn
  /\ held \subseteq Conn /\ shutting \subseteq Conn
  /\ failed \in {"none", "accept", "add", "dangling", "dtor", "erase", "remove"}

\* What the user sees of a connection.  One whose channel does not wait for events
\* any more is down: its state_ may be assigned once more by shutdown.
Life(c) == CASE state_[c] = "none"       -> "unborn"
             [] state_[c] = "connecting" -> "accepted"
             [] state_[c] = "gone"       -> "gone"
             [] OTHER                    -> IF c \in reading THEN "up" ELSE "down"

\* A connection that is not closed is in the map of its server, under its name,
\* until the destructor of the server has it destroyed in its loop: no other
\* connection takes its place or removes it.
OpenConnectionsAreKept ==
  /\ TypeOK
  /\ Running => \A c \in {d \in Conn : Life(d) \in {"accepted", "up"}} :
       LET map == connections_[conn[c].server]
           f   == << "destroyed", c >>
       IN \/ conn[c].name \in DOMAIN map /\ map[conn[c].name] = c
          \/ call[conn[c].loop] = f
          \/ f \in Range(funcQueue[conn[c].loop])

\* The channels that the pollers keep are those of connections not destructed,
\* whichever of the server, the loops and the user had the last pointer.  So no
\* poller is asked to add a descriptor that it knows already, though descriptors
\* are handed out again; and no connection is erased twice.  None is destructed
\* but disconnected, unless a shutdown assigned its state_ after it had closed.
PollersKeepOpenChannels ==
  /\ \A c \in registered : Open(c)
  /\ failed \notin {"add", "erase"}
  /\ failed = "dtor" =>
       \E c \in Conn \ reading : state_[c] = "disconnecting" /\ ~InUse(c)

AbstractLife == INSTANCE ConnectionLife
  WITH life <- [c \in Conn |-> Life(c)],
       descriptor <- [c \in Conn |-> IF Open(c) THEN conn[c].fd ELSE NoFd]

\* Every connection is established before it goes down, whenever the server is
\* destructed, and its descriptor is not used again before it is gone.
ImplementsConnectionLife == AbstractLife!Spec

\* A connection that closed is destructed in the end, and so are all those of a
\* server whose destructor has begun, closing or not established yet.
ConnectionsAreDestructed ==
  \A c \in Conn :
    (Open(c) /\ (Life(c) = "down" \/ phase[conn[c].server] = "destructing"))
      ~> (Life(c) = "gone" \/ ~Running)
=============================================================================
