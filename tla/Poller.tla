------------------------------- MODULE Poller -------------------------------
(***************************************************************************)
(* The Poller of one EventLoop and the Channels registered with it: the     *)
(* array pollfds_ handed to ::poll, the map channels_ from descriptors to   *)
(* channels, and the index_ by which a channel finds its slot.  All of it   *)
(* runs on the loop thread.  Channels are those of TcpConnections: a        *)
(* connection enables reading when it is established, enables and disables  *)
(* writing, disables everything when it closes, and is then removed and     *)
(* destroyed, after which the system may give its descriptor to another.    *)
(* The destructor of a server does the latter two to its connections in     *)
(* whatever state they are, and in a handler too.                           *)
(***************************************************************************)
EXTENDS Integers, Sequences

CONSTANTS Channel,  \* the channels that may be constructed
          FdOf      \* the descriptor of each; two may share one, in turn

ASSUME FdAssumption == FdOf \in [Channel -> Nat]

VARIABLES
  phase,     \* where loop() is: in "poll", in "handlers", or in "user" code,
             \* which is the functors or what runs before loop()
  active,    \* activeChannels_ not yet handled
  handling,  \* the channel whose isHandling_ is set, as a set
  pollfds_,  \* the slots [fd, events]; which have revents is in active
  channels_, \* a function from the descriptors registered to their channels
  alive,     \* channels constructed and not destructed
  events_,   \* the interest of each channel
  index_,    \* the position of its slot, from 0; -1 if it never had one
  shut,      \* the channels whose connection is kDisconnecting, and reads
  failed,    \* the operation that ended the program, or "none"
  late,      \* history: a sendInLoop queued before a close ran after it
  cut        \* history: the channels removed by a handler since the last poll

vars == << phase, active, handling, pollfds_, channels_, alive,
           events_, index_, shut, failed, late, cut >>

Event == {"read", "write"}

\* "In pollfds_, every fd should have only 2 state: fd || -fd - 1".
Slots == [fd : UNION {{FdOf[ch], -FdOf[ch] - 1} : ch \in Channel},
          events : SUBSET Event]

\* Faulty: the sign alone cannot mute descriptor 0.
MutedBySign(fd) == -fd

\* A slot with the descriptor -fd - 1 is not watched but remembers fd.
Muted(fd) == -fd - 1

Slot(ch) == pollfds_[index_[ch] + 1]

Registered(ch) == FdOf[ch] \in DOMAIN channels_ /\ channels_[FdOf[ch]] = ch

\* User code runs: a functor, a handler, or main before loop().
InUserCode == phase = "user" \/ handling # {}

Init ==
  /\ phase = "user"
  /\ active = {}
  /\ handling = {}
  /\ pollfds_ = << >>
  /\ channels_ = [fd \in {} |-> fd]
  /\ alive = {}
  /\ events_ = [ch \in Channel |-> {}]
  /\ index_ = [ch \in Channel |-> -1]
  /\ shut = {}
  /\ failed = "none"
  /\ late = FALSE
  /\ cut = {}

\* An assertion fails and aborts the program.
Abort(operation) ==
  /\ failed' = operation
  /\ UNCHANGED << phase, active, handling, pollfds_, channels_, alive,
                  events_, index_ >>

-----------------------------------------------------------------------------
(* Poller::updateChannel.                                                   *)

\* The channel has no slot yet and gets one at the end.
AddChannel(ch, ev) ==
  IF FdOf[ch] \in DOMAIN channels_
  THEN Abort("update")
  ELSE /\ pollfds_' = Append(pollfds_, [fd |-> FdOf[ch], events |-> ev])
       /\ channels_' = [fd \in DOMAIN channels_ \cup {FdOf[ch]} |->
                          IF fd = FdOf[ch] THEN ch ELSE channels_[fd]]
       /\ index_' = [index_ EXCEPT ![ch] = Len(pollfds_)]
       /\ events_' = [events_ EXCEPT ![ch] = ev]
       /\ UNCHANGED << phase, active, handling, alive, failed >>

\* Faulty: a channel without interest does not change its slot.
ChangeSlotIfInterested(ch, ev) ==
  /\ pollfds_' = IF ev = {} THEN pollfds_
                 ELSE [pollfds_ EXCEPT ![index_[ch] + 1].events = ev]
  /\ events_' = [events_ EXCEPT ![ch] = ev]
  /\ UNCHANGED << phase, active, handling, channels_, alive, index_, failed >>

\* The channel has a slot, which takes its interest and is muted if there is
\* none.  No slot is ever unmuted.
ChangeSlot(ch, ev) ==
  IF \/ FdOf[ch] \notin DOMAIN channels_
     \/ Slot(ch).fd \notin {FdOf[ch], Muted(FdOf[ch])}
  THEN Abort("update")
  ELSE /\ pollfds_' = [pollfds_ EXCEPT ![index_[ch] + 1] =
              [fd |-> IF ev = {} THEN Muted(FdOf[ch]) ELSE Slot(ch).fd,
               events |-> ev]]
       /\ events_' = [events_ EXCEPT ![ch] = ev]
       /\ UNCHANGED << phase, active, handling, channels_, alive,
                       index_, failed >>

UpdateChannel(ch, ev) ==
  IF index_[ch] < 0 THEN AddChannel(ch, ev) ELSE ChangeSlot(ch, ev)

-----------------------------------------------------------------------------
(* Poller::removeChannel.                                                   *)

\* Its connection is kConnected.
IsConnected(ch) == "read" \in events_[ch] /\ ch \notin shut

\* What the assertions of Channel::remove and removeChannel demand, and for a
\* connection that is kConnected those of the disableAll before.
Removable(ch) ==
  /\ Registered(ch)
  /\ index_[ch] \in 0 .. Len(pollfds_) - 1
  /\ IF IsConnected(ch)
     THEN Slot(ch).fd \in {FdOf[ch], Muted(FdOf[ch])}
     ELSE /\ events_[ch] = {}
          /\ Slot(ch) = [fd |-> Muted(FdOf[ch]), events |-> {}]

\* The descriptor that a slot belongs to, muted or not.
SlotFd(slot) == IF slot.fd < 0 THEN -slot.fd - 1 ELSE slot.fd

\* Faulty: the last channel is not told that its slot moves.
MoveLastForgettingIndex(i) == UNCHANGED index_

\* The channel of the last slot takes over the slot i.
MoveLast(i) ==
  index_' = [index_ EXCEPT ![channels_[SlotFd(pollfds_[Len(pollfds_)])]] = i]

\* Faulty: the last slot is popped without being moved into the gap.
RemoveChannelPopping(ch) ==
  LET n == Len(pollfds_)
      i == index_[ch]
  IN /\ channels_' = [fd \in DOMAIN channels_ \ {FdOf[ch]} |-> channels_[fd]]
     /\ pollfds_' = SubSeq(pollfds_, 1, n - 1)
     /\ IF i = n - 1 THEN UNCHANGED index_ ELSE MoveLast(i)
     /\ events_' = [events_ EXCEPT ![ch] = {}]
     /\ UNCHANGED << phase, active, handling, alive, failed >>

\* The slot is exchanged with the last one, which is popped.  The channel waits
\* for nothing, since disableAll if not before.
RemoveChannel(ch) ==
  LET n == Len(pollfds_)
      i == index_[ch]
  IN /\ channels_' = [fd \in DOMAIN channels_ \ {FdOf[ch]} |-> channels_[fd]]
     /\ pollfds_' = SubSeq([pollfds_ EXCEPT ![i + 1] = pollfds_[n]], 1, n - 1)
     /\ IF i = n - 1 THEN UNCHANGED index_ ELSE MoveLast(i)
     /\ events_' = [events_ EXCEPT ![ch] = {}]
     /\ UNCHANGED << phase, active, handling, alive, failed >>

-----------------------------------------------------------------------------
(* The life of a channel, as TcpConnection calls it.                        *)

\* The system hands out a descriptor that is not open.
Create(ch) ==
  /\ InUserCode
  /\ ch \notin alive
  /\ \A c \in alive : FdOf[c] # FdOf[ch]
  /\ alive' = alive \cup {ch}
  /\ events_' = [events_ EXCEPT ![ch] = {}]
  /\ index_' = [index_ EXCEPT ![ch] = -1]
  /\ UNCHANGED << phase, active, handling, pollfds_, channels_, shut, failed,
                  late, cut >>

\* connectionEstablished.
EnableRead(ch) ==
  /\ InUserCode
  /\ ch \in alive
  /\ index_[ch] < 0
  /\ UpdateChannel(ch, events_[ch] \cup {"read"})
  /\ UNCHANGED << shut, late, cut >>

\* shutdown, by any thread and at any time.
Shutdown(ch) ==
  /\ "read" \in events_[ch]
  /\ shut' = shut \cup {ch}
  /\ UNCHANGED << phase, active, handling, pollfds_, channels_, alive,
                  events_, index_, failed, late, cut >>

\* Faulty: the poller is not told.
EnableWriteOnly(ch) ==
  /\ InUserCode
  /\ ch \in alive
  /\ index_[ch] >= 0
  /\ "write" \notin events_[ch]
  /\ events_' = [events_ EXCEPT ![ch] = @ \cup {"write"}]
  /\ UNCHANGED << phase, active, handling, pollfds_, channels_, alive,
                  index_, shut, failed, late, cut >>

\* sendInLoop could not write everything.  After the close, only one that was
\* queued before can run.
EnableWrite(ch) ==
  /\ InUserCode
  /\ ch \in alive
  /\ index_[ch] >= 0
  /\ "write" \notin events_[ch]
  /\ "read" \in events_[ch] \/ phase = "user"
  /\ late' = (late \/ "read" \notin events_[ch])
  /\ UpdateChannel(ch, events_[ch] \cup {"write"})
  /\ UNCHANGED << shut, cut >>

\* handleWrite has written everything.  disableWrite does not call update.
DisableWrite(ch) ==
  /\ ch \in handling
  /\ "write" \in events_[ch]
  /\ events_' = [events_ EXCEPT ![ch] = @ \ {"write"}]
  /\ UNCHANGED << phase, active, handling, pollfds_, channels_, alive,
                  index_, shut, failed, late, cut >>

\* Faulty: handleClose removes the channel, in place of a functor.
HandleCloseRemoving(ch) ==
  /\ ch \in handling
  /\ "read" \in events_[ch]
  /\ RemoveChannel(ch)
  /\ shut' = shut \ {ch}
  /\ UNCHANGED << late, cut >>

\* handleClose disables all.  Its assertion on state_, or that of the update,
\* fails for a channel that a handler before has removed.
HandleClose(ch) ==
  /\ ch \in handling
  /\ ch \in alive
  /\ IF "read" \in events_[ch]
     THEN UpdateChannel(ch, {})
     ELSE ch \in cut /\ Abort("close")
  /\ shut' = shut \ {ch}
  /\ UNCHANGED << late, cut >>

\* connectionDestryed: a functor, or called by the destructor of the server,
\* which may be in a handler of the loop, through runInLoop.
Remove(ch) ==
  /\ InUserCode
  /\ ch \in alive
  /\ index_[ch] >= 0
  /\ FdOf[ch] \in DOMAIN channels_
  /\ IF Removable(ch) THEN RemoveChannel(ch) ELSE Abort("remove")
  /\ cut' = IF handling = {} THEN cut ELSE cut \cup {ch}
  /\ UNCHANGED << shut, late >>

\* Whoever held the connection is gone: its channel is destructed, which must
\* not be while it is handled, and its descriptor closed.
Destroy(ch) ==
  /\ InUserCode
  /\ ch \in alive
  /\ index_[ch] >= 0
  /\ ~Registered(ch)
  /\ IF ch \in handling
     THEN Abort("handling")
     ELSE /\ alive' = alive \ {ch}
          /\ UNCHANGED << phase, active, handling, pollfds_, channels_,
                          events_, index_, failed >>
  /\ UNCHANGED << shut, late, cut >>

-----------------------------------------------------------------------------
(* Poller::poll and the loop around it.                                     *)

\* ::poll finds some of the watched slots ready, or times out over none, and
\* fillActiveChannels looks their channels up.
Poll ==
  /\ phase = "poll"
  /\ \E ready \in SUBSET {i \in DOMAIN pollfds_ : pollfds_[i].fd >= 0} :
       IF \E i \in ready : pollfds_[i].fd \notin DOMAIN channels_
       THEN Abort("poll")
       ELSE /\ active' = {channels_[pollfds_[i].fd] : i \in ready}
            /\ phase' = "handlers"
            /\ UNCHANGED << handling, pollfds_, channels_, alive, events_,
                            index_, failed >>
  /\ UNCHANGED << shut, late, cut >>

\* loop() turns to the next active channel.  The vector has the order of the
\* slots at the poll; here it may be any.  What a call of a destructed channel
\* does is not defined.
BeginHandling(ch) ==
  /\ phase = "handlers"
  /\ handling = {}
  /\ ch \in active
  /\ IF ch \in alive
     THEN /\ handling' = {ch}
          /\ active' = active \ {ch}
          /\ UNCHANGED << phase, pollfds_, channels_, alive, events_, index_,
                          failed >>
     ELSE Abort("dangling")
  /\ UNCHANGED << shut, late, cut >>

EndHandling ==
  /\ handling # {}
  /\ handling' = {}
  /\ UNCHANGED << phase, active, pollfds_, channels_, alive, events_,
                  index_, shut, failed, late, cut >>

\* After the last handler come the functors, and after them the next poll.
NextPhase ==
  /\ active = {}
  /\ handling = {}
  /\ \/ phase = "handlers" /\ phase' = "user"
     \/ phase = "user" /\ phase' = "poll"
  /\ cut' = {}
  /\ UNCHANGED << active, handling, pollfds_, channels_, alive, events_,
                  index_, shut, failed, late >>

Next ==
  /\ failed = "none"
  /\ \/ Poll
     \/ EndHandling
     \/ NextPhase
     \/ \E ch \in Channel : \/ Create(ch)
                            \/ EnableRead(ch)
                            \/ Shutdown(ch)
                            \/ EnableWrite(ch)
                            \/ DisableWrite(ch)
                            \/ HandleClose(ch)
                            \/ Remove(ch)
                            \/ Destroy(ch)
                            \/ BeginHandling(ch)

Spec == Init /\ [][Next]_vars

-----------------------------------------------------------------------------
(* Correctness.                                                             *)

TypeOK ==
  /\ phase \in {"poll", "handlers", "user"}
  /\ active \subseteq Channel
  /\ handling \subseteq Channel
  /\ pollfds_ \in Seq(Slots)
  /\ DOMAIN channels_ \subseteq Nat
  /\ \A fd \in DOMAIN channels_ : channels_[fd] \in Channel
  /\ alive \subseteq Channel
  /\ events_ \in [Channel -> SUBSET Event]
  /\ index_ \in [Channel -> Int]
  /\ shut \subseteq Channel
  /\ failed \in {"none", "update", "remove", "poll", "close", "handling",
                 "dangling"}
  /\ late \in BOOLEAN
  /\ cut \subseteq Channel

\* The three structures agree: the index of every registered channel leads to
\* the slot of its descriptor, and every slot is that of one registered channel.
PollfdsMatchChannels ==
  /\ TypeOK
  /\ \A fd \in DOMAIN channels_ :
       LET ch == channels_[fd]
       IN /\ FdOf[ch] = fd
          /\ ch \in alive
          /\ index_[ch] \in 0 .. Len(pollfds_) - 1
          /\ SlotFd(Slot(ch)) = fd
  /\ \A i \in DOMAIN pollfds_ :
       /\ SlotFd(pollfds_[i]) \in DOMAIN channels_
       /\ index_[channels_[SlotFd(pollfds_[i])]] = i - 1

\* What a connection waits for is polled for: its slot asks for at least its
\* interest, and is not muted as long as it reads.  What else the slot asks for
\* can only be to write: disableWrite leaves that behind, though TcpConnection.cc
\* says "Level Trigger, must disable write after writing".
InterestIsPolled ==
  \A ch \in Channel : Registered(ch) =>
    /\ events_[ch] \subseteq Slot(ch).events
    /\ Slot(ch).events \ events_[ch] \subseteq {"write"}
    /\ "read" \in events_[ch] => Slot(ch).fd = FdOf[ch]

\* Those of updateChannel fail only because of a sendInLoop that ran after its
\* connection was closed; those of a removal because of one, or because
\* connectionDestryed does not disable a connection that is kDisconnecting, and
\* was not closed before the server went; that of fillActiveChannels never.  A
\* channel is closed again, or called or destructed when it must not be, only
\* in an iteration in which a handler has destructed the server.
AssertsHold ==
  /\ failed = "update" => late
  /\ failed = "remove" => late \/ \E ch \in shut : "read" \in events_[ch]
  /\ failed # "poll"
  /\ failed \in {"close", "handling", "dangling"} => cut # {}

\* loop() calls handleEvents on no channel that was removed or destructed since
\* the poll that made it active, but by a destructor of a server in a handler:
\* handleClose in particular leaves the channel to a functor.
ActiveChannelsAreRegistered ==
  \A ch \in (active \cup handling) \ cut : ch \in alive /\ Registered(ch)

\* The array, the map and the indices behave as one table: moving the last slot
\* into a gap loses or exchanges nothing.
Table == INSTANCE PollSet
  WITH Watch <- [watched : BOOLEAN, events : SUBSET Event],
       table <- [ch \in {c \in Channel : Registered(c)} |->
                   [watched |-> Slot(ch).fd >= 0, events |-> Slot(ch).events]]

ImplementsPollSet == Table!Spec

=============================================================================
