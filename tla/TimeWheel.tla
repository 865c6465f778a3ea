----------------------------- MODULE TimeWheel -----------------------------
(***************************************************************************)
(* The time wheel of testCase/time_wheel/echo_server.cc: an echo server     *)
(* that shuts a connection down when nothing has come from it for           *)
(* NumBuckets ticks of its timer.                                           *)
(*                                                                          *)
(* A connection has one Entry, so the Entry is named by its connection.     *)
(* Buckets hold shared pointers to entries and the connection a weak one;   *)
(* the Entry is destructed, and shuts the connection down, when the last    *)
(* bucket that holds it leaves the circular buffer.  All callbacks are of   *)
(* one loop thread.                                                         *)
(*                                                                          *)
(* What other modules call Init, Next or TypeOK has Wheel before it here,   *)
(* so that the proofs about several examples can extend all of them.        *)
(***************************************************************************)
EXTENDS Integers, Sequences

CONSTANTS Conn,       \* connections, each accepted at most once
          NumBuckets  \* the capacity of the circular buffer

ASSUME NumBucketsAssumption == NumBuckets \in Nat \ {0}

VARIABLES
  buckets_,  \* the circular buffer, oldest bucket first
  state,     \* of each connection
  idle,      \* history: the ticks since the last message of an open connection
  emptyBack  \* the last bucket was asked for when there was none

wheelVars == << buckets_, state, idle, emptyBack >>

\* buckets_(num_buckets) sets the capacity; the buffer is empty.
WheelInit ==
  /\ buckets_ = << >>
  /\ state = [c \in Conn |-> "new"]
  /\ idle = [c \in Conn |-> 0]
  /\ emptyBack = FALSE

-----------------------------------------------------------------------------
\* Faulty: a resizable vector, which drops nothing.
PushBackGrowing(b) == Append(b, {})

\* push_back of an empty bucket; a full buffer drops its first.
PushBack(b) == Append(IF Len(b) = NumBuckets THEN Tail(b) ELSE b, {})

\* The Entry of c is alive: some bucket holds it.
Held(c, b) == \E i \in DOMAIN b : c \in b[i]

\* ~Entry: the weak pointer finds a connection that is not closed.
Expired == {c \in Conn : Held(c, buckets_) /\ ~Held(c, PushBack(buckets_))}

OnTime ==
  /\ buckets_' = PushBack(buckets_)
  /\ state' = [c \in Conn |-> IF c \in Expired /\ state[c] = "connected"
                              THEN "disconnecting" ELSE state[c]]
  /\ idle' = [c \in Conn |-> IF state'[c] = "connected" THEN idle[c] + 1 ELSE 0]
  /\ UNCHANGED emptyBack

\* The last bucket gets the entries.
InsertBack(entries) ==
  buckets_' = [buckets_ EXCEPT ![Len(buckets_)] = @ \cup entries]

\* onConnection of a new connection.
OnConnection(c) ==
  /\ state[c] = "new"
  /\ IF buckets_ = << >>
     THEN emptyBack' = TRUE /\ UNCHANGED << buckets_, state >>
     ELSE /\ InsertBack({c})
          /\ state' = [state EXCEPT ![c] = "connected"]
          /\ UNCHANGED emptyBack
  /\ UNCHANGED idle

\* Faulty: the message is sent back and the wheel is not told.
OnMessageEchoing(c) ==
  /\ state[c] \in {"connected", "disconnecting"}
  /\ idle' = [idle EXCEPT ![c] = 0]
  /\ UNCHANGED << buckets_, state, emptyBack >>

\* A half-closed connection still gets messages, when its Entry is gone and the
\* pointer that lock() returns holds nothing.
OnMessage(c) ==
  /\ state[c] \in {"connected", "disconnecting"}
  /\ InsertBack({c} \cap {d \in Conn : Held(d, buckets_)})
  /\ idle' = [idle EXCEPT ![c] = 0]
  /\ UNCHANGED << state, emptyBack >>

\* onConnection of a connection that the peer has closed: only logged.
OnDisconnection(c) ==
  /\ state[c] \in {"connected", "disconnecting"}
  /\ state' = [state EXCEPT ![c] = "disconnected"]
  /\ idle' = [idle EXCEPT ![c] = 0]
  /\ UNCHANGED << buckets_, emptyBack >>

WheelNext ==
  /\ ~emptyBack
  /\ \/ OnTime
     \/ \E c \in Conn : OnConnection(c) \/ OnMessage(c) \/ OnDisconnection(c)

WheelSpec == WheelInit /\ [][WheelNext]_wheelVars

-----------------------------------------------------------------------------
(* Correctness.                                                             *)

WheelTypeOK ==
  /\ buckets_ \in Seq(SUBSET Conn)
  /\ Len(buckets_) <= NumBuckets
  /\ state \in [Conn -> {"new", "connected", "disconnecting", "disconnected"}]
  /\ idle \in [Conn -> Nat]
  /\ emptyBack \in BOOLEAN

\* An idle connection is shut down: none stays connected for NumBuckets ticks
\* without a message, however its entries are spread over the buckets.
IdleIsShutDown ==
  WheelTypeOK /\ \A c \in Conn : state[c] = "connected" => idle[c] < NumBuckets

\* An active one is not: the wheel shuts a connection down only when the last
\* NumBuckets ticks, this one included, have passed without a message.
ActiveIsKept ==
  [][\A c \in Conn : state[c] = "connected" /\ state'[c] = "disconnecting"
                     => idle[c] = NumBuckets - 1]_wheelVars
=============================================================================
