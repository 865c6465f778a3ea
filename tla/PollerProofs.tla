---------------------------- MODULE PollerProofs ----------------------------
(***************************************************************************)
(* Proofs about Poller, for any set of channels and any descriptors.        *)
(***************************************************************************)
EXTENDS Poller, TLAPS

\* The map: a registered channel is alive, and its index leads to its slot.
MapIsRight ==
  \A fd \in DOMAIN channels_ :
    LET ch == channels_[fd]
    IN /\ ch \in alive /\ FdOf[ch] = fd
       /\ index_[ch] \in 0 .. Len(pollfds_) - 1
       /\ SlotFd(Slot(ch)) = fd

\* The array: a slot is that of a registered channel, whose index leads to it.
SlotsAreRight ==
  \A i \in DOMAIN pollfds_ :
    /\ SlotFd(pollfds_[i]) \in DOMAIN channels_
    /\ index_[channels_[SlotFd(pollfds_[i])]] = i - 1

\* Descriptors that are open differ.
FdsDiffer == \A c, d \in alive : FdOf[c] = FdOf[d] => c = d

\* A channel that reads is registered; one that never was has no interest.
ReadersAreRegistered ==
  \A ch \in alive : /\ "read" \in events_[ch] => Registered(ch)
                    /\ index_[ch] < 0 => events_[ch] = {}

\* A channel that has closed waits for nothing and its slot is muted, as long as
\* no sendInLoop has run after a close.
ClosedIsMuted ==
  ~late => \A ch \in alive : "read" \notin events_[ch] =>
             /\ events_[ch] = {}
             /\ Registered(ch) =>
                  Slot(ch) = [fd |-> Muted(FdOf[ch]), events |-> {}]

\* Of all registered channels and their slots, a step changes that of ch alone.
OthersStay(ch) ==
  \A c \in Channel \ {ch} : /\ Registered(c)' <=> Registered(c)
                            /\ Registered(c) => Slot(c)' = Slot(c)

\* Or it changes none.
SlotsStay == UNCHANGED << pollfds_, channels_, index_ >>

\* There are active channels only while they are handled.
ActiveInHandlers == phase # "handlers" => active = {} /\ handling = {}

Inv ==
  /\ TypeOK /\ MapIsRight /\ SlotsAreRight /\ FdsDiffer
  /\ ReadersAreRegistered /\ ClosedIsMuted /\ InterestIsPolled
  /\ ActiveInHandlers /\ ActiveChannelsAreRegistered /\ AssertsHold

-----------------------------------------------------------------------------
(* Slots and descriptors.                                                   *)

\* -fd - 1 is decoded to fd, and told apart from it, for 0 too.
LEMMA MutedIsDecoded ==
  ASSUME NEW fd \in Nat
  PROVE  /\ Muted(fd) < 0 /\ Muted(fd) \in Int
         /\ \A s : s.fd \in {fd, Muted(fd)} => SlotFd(s) = fd
BY DEF Muted, SlotFd

LEMMA FdsAreNumbers == \A ch \in Channel : FdOf[ch] \in Nat
BY FdAssumption

\* What Inv says of one registered channel.
LEMMA RegisteredHasSlot ==
  ASSUME Inv, NEW ch \in Channel, Registered(ch)
  PROVE  /\ ch \in alive
         /\ index_[ch] \in 0 .. Len(pollfds_) - 1
         /\ index_[ch] + 1 \in DOMAIN pollfds_
         /\ Slot(ch) \in Slots
         /\ SlotFd(Slot(ch)) = FdOf[ch]
         /\ Slot(ch).fd \in {FdOf[ch], Muted(FdOf[ch])}
<1>1. /\ ch \in alive /\ index_[ch] \in 0 .. Len(pollfds_) - 1
      /\ SlotFd(Slot(ch)) = FdOf[ch]
  BY DEF Inv, MapIsRight, Registered
<1>2. pollfds_ \in Seq(Slots) /\ Len(pollfds_) \in Nat
  BY DEF Inv, TypeOK
<1>3. index_[ch] + 1 \in DOMAIN pollfds_ /\ index_[ch] + 1 \in 1 .. Len(pollfds_)
  BY <1>1, <1>2
<1>4. Slot(ch) \in Slots
  BY <1>2, <1>3 DEF Slot
<1>5. Slot(ch).fd \in Int
  BY <1>4, FdsAreNumbers DEF Slots, Muted
<1>6. Slot(ch).fd \in {FdOf[ch], Muted(FdOf[ch])}
  BY <1>1, <1>5, FdsAreNumbers DEF SlotFd, Muted
<1> QED
  BY <1>1, <1>3, <1>4, <1>6

\* The channel of an open descriptor that is in the map is the one registered.
LEMMA OnlyOneRegistered ==
  ASSUME Inv, NEW ch \in alive, FdOf[ch] \in DOMAIN channels_
  PROVE  Registered(ch) /\ index_[ch] >= 0
<1>1. channels_[FdOf[ch]] \in alive /\ FdOf[channels_[FdOf[ch]]] = FdOf[ch]
  BY DEF Inv, MapIsRight
<1>2. channels_[FdOf[ch]] = ch
  BY <1>1 DEF Inv, FdsDiffer
<1>3. index_[ch] \in 0 .. Len(pollfds_) - 1
  BY <1>2 DEF Inv, MapIsRight
<1> QED
  BY <1>2, <1>3 DEF Registered

\* Two registered channels do not share a slot.
LEMMA SlotsDiffer ==
  ASSUME Inv, NEW c \in Channel, NEW d \in Channel, Registered(c), Registered(d),
         index_[c] = index_[d]
  PROVE  c = d
<1>1. Slot(c) = Slot(d)
  BY DEF Slot
<1>2. FdOf[c] = FdOf[d]
  BY <1>1, RegisteredHasSlot
<1> QED
  BY <1>2 DEF Registered

\* A channel in the map is registered and a channel.
LEMMA MapHasChannels ==
  ASSUME Inv, NEW fd \in DOMAIN channels_
  PROVE  channels_[fd] \in Channel /\ FdOf[channels_[fd]] = fd
         /\ Registered(channels_[fd])
BY DEF Inv, TypeOK, MapIsRight, Registered

-----------------------------------------------------------------------------
(* Each operation keeps Inv.                                                *)

\* A failure ends the program and changes no channel or slot.
LEMMA AbortInv ==
  ASSUME Inv, NEW operation, Abort(operation),
         operation \in {"update", "remove", "poll", "close", "handling",
                        "dangling"},
         AssertsHold', late' \in BOOLEAN, late => late',
         shut' \subseteq Channel, cut' \subseteq Channel, cut \subseteq cut'
  PROVE  Inv'
<1>1. /\ failed' = operation
      /\ UNCHANGED << phase, active, handling, pollfds_, channels_, alive,
                      events_, index_ >>
  BY DEF Abort
<1>2. TypeOK'
  BY <1>1 DEF Inv, TypeOK
<1>3. /\ MapIsRight' /\ SlotsAreRight' /\ FdsDiffer' /\ ReadersAreRegistered'
      /\ InterestIsPolled' /\ ActiveInHandlers' /\ ActiveChannelsAreRegistered'
  BY <1>1 DEF Inv, MapIsRight, SlotsAreRight, FdsDiffer, ReadersAreRegistered,
              InterestIsPolled, ActiveInHandlers, ActiveChannelsAreRegistered,
              Registered, Slot
<1>4. ClosedIsMuted'
  BY <1>1 DEF Inv, ClosedIsMuted, Registered, Slot
<1> QED
  BY <1>2, <1>3, <1>4 DEF Inv

\* A channel that has a slot changes it, and never begins to read again.
LEMMA ChangeSlotInv ==
  ASSUME Inv, failed = "none",
         NEW ch \in alive, Registered(ch), NEW ev \in SUBSET Event,
         ChangeSlot(ch, ev), late' \in BOOLEAN, late => late',
         shut' \subseteq Channel, cut' = cut,
         "read" \in ev => "read" \in events_[ch],
         ~late' => ev = {} \/ "read" \in ev
  PROVE  Inv' /\ Registered(ch)' /\ OthersStay(ch)
<1> DEFINE n == Len(pollfds_)
           p == index_[ch] + 1
           new == [fd |-> IF ev = {} THEN Muted(FdOf[ch]) ELSE Slot(ch).fd,
                   events |-> ev]
<1>1. ch \in Channel /\ pollfds_ \in Seq(Slots) /\ n \in Nat
  BY DEF Inv, TypeOK
<1>2. /\ index_[ch] \in 0 .. n - 1 /\ p \in 1 .. n
      /\ Slot(ch).fd \in {FdOf[ch], Muted(FdOf[ch])}
      /\ FdOf[ch] \in DOMAIN channels_
  BY <1>1, RegisteredHasSlot DEF Registered
<1>3. /\ pollfds_' = [pollfds_ EXCEPT ![p] = new]
      /\ events_' = [events_ EXCEPT ![ch] = ev]
      /\ UNCHANGED << phase, active, handling, channels_, alive, index_, failed >>
  BY <1>2 DEF ChangeSlot
<1>4. /\ new \in Slots /\ SlotFd(new) = FdOf[ch]
      /\ new.fd \in {FdOf[ch], Muted(FdOf[ch])}
  BY <1>1, <1>2, FdsAreNumbers, MutedIsDecoded DEF Slots, Muted
<1>5. /\ pollfds_' \in Seq(Slots) /\ Len(pollfds_') = n
      /\ DOMAIN pollfds_' = 1 .. n /\ DOMAIN pollfds_ = 1 .. n
      /\ pollfds_'[p] = new
      /\ \A i \in 1 .. n : i # p => pollfds_'[i] = pollfds_[i]
  <2> HIDE DEF new, p, n
  <2>1. pollfds_ \in [1 .. n -> Slots]
    BY <1>1 DEF n
  <2>2. /\ pollfds_' \in [1 .. n -> Slots] /\ pollfds_'[p] = new
        /\ \A i \in 1 .. n : i # p => pollfds_'[i] = pollfds_[i]
    BY <1>2, <1>3, <1>4, <2>1
  <2> QED
    BY <1>1, <2>1, <2>2
<1> HIDE DEF new
<1>6. events_'[ch] = ev /\ \A c \in Channel \ {ch} : events_'[c] = events_[c]
  BY <1>1, <1>3 DEF Inv, TypeOK
<1>7. SlotFd(Slot(ch)) = FdOf[ch] /\ Slot(ch) = pollfds_[p]
  BY <1>1, RegisteredHasSlot DEF Slot
<1>8. \A i \in 1 .. n : SlotFd(pollfds_'[i]) = SlotFd(pollfds_[i])
  BY <1>4, <1>5, <1>7
<1>9. \A c \in Channel : Registered(c)' <=> Registered(c)
  BY <1>3 DEF Registered
<1>10. Slot(ch)' = new
  BY <1>3, <1>5 DEF Slot
<1>11. \A c \in Channel \ {ch} : Registered(c) => Slot(c)' = Slot(c)
  <2> SUFFICES ASSUME NEW c \in Channel \ {ch}, Registered(c)
               PROVE  Slot(c)' = Slot(c)
    OBVIOUS
  <2>1. index_[c] # index_[ch]
    BY <1>1, SlotsDiffer
  <2>2. index_[c] \in 0 .. n - 1
    BY RegisteredHasSlot
  <2>3. index_[c] + 1 \in 1 .. n /\ index_[c] + 1 # p
    BY <1>1, <1>2, <2>1, <2>2
  <2> QED
    BY <1>3, <1>5, <2>3 DEF Slot
<1>12. TypeOK'
  BY <1>1, <1>3, <1>5 DEF Inv, TypeOK
<1>13. MapIsRight'
  <2> SUFFICES ASSUME NEW fd \in DOMAIN channels_
               PROVE  /\ channels_[fd] \in alive /\ FdOf[channels_[fd]] = fd
                      /\ index_[channels_[fd]] \in 0 .. Len(pollfds_) - 1
                      /\ SlotFd(pollfds_'[index_[channels_[fd]] + 1]) = fd
    BY <1>3, <1>5 DEF MapIsRight, Slot
  <2>1. /\ channels_[fd] \in alive /\ FdOf[channels_[fd]] = fd
        /\ index_[channels_[fd]] \in 0 .. Len(pollfds_) - 1
        /\ SlotFd(pollfds_[index_[channels_[fd]] + 1]) = fd
    BY DEF Inv, MapIsRight, Slot
  <2>2. index_[channels_[fd]] + 1 \in 1 .. n
    BY <1>1, <2>1
  <2> QED
    BY <1>8, <2>1, <2>2
<1>14. SlotsAreRight'
  BY <1>3, <1>5, <1>8 DEF Inv, SlotsAreRight
<1>15. FdsDiffer' /\ ActiveInHandlers' /\ AssertsHold'
  BY <1>3 DEF Inv, FdsDiffer, ActiveInHandlers, AssertsHold
<1>16. ReadersAreRegistered'
  BY <1>1, <1>2, <1>3, <1>6, <1>9 DEF Inv, TypeOK, ReadersAreRegistered
<1>17. ClosedIsMuted'
  BY <1>1, <1>3, <1>6, <1>9, <1>10, <1>11 DEF Inv, TypeOK, ClosedIsMuted, new
<1>18. InterestIsPolled'
  <2>1. ASSUME NEW c \in Channel \ {ch}, Registered(c)'
        PROVE  /\ events_'[c] \subseteq Slot(c)'.events
               /\ Slot(c)'.events \ events_'[c] \subseteq {"write"}
               /\ "read" \in events_'[c] => Slot(c)'.fd = FdOf[c]
    BY <1>6, <1>9, <1>11, <2>1 DEF Inv, InterestIsPolled
  <2>2. /\ events_'[ch] \subseteq Slot(ch)'.events
        /\ Slot(ch)'.events \ events_'[ch] \subseteq {"write"}
        /\ "read" \in events_'[ch] => Slot(ch)'.fd = FdOf[ch]
    <3>1. "read" \in events_[ch] => Slot(ch).fd = FdOf[ch]
      BY <1>1 DEF Inv, InterestIsPolled
    <3> QED
      BY <1>6, <1>10, <3>1 DEF new
  <2> QED
    BY <2>1, <2>2 DEF InterestIsPolled
<1>19. ActiveChannelsAreRegistered'
  BY <1>3, <1>9, <1>12 DEF Inv, TypeOK, ActiveChannelsAreRegistered
<1>20. Registered(ch)' /\ OthersStay(ch)
  BY <1>1, <1>9, <1>11 DEF OthersStay
<1> QED
  BY <1>12, <1>13, <1>14, <1>15, <1>16, <1>17, <1>18, <1>19, <1>20 DEF Inv

\* A channel gets a slot at the end and begins to read.
LEMMA EnableReadInv ==
  ASSUME Inv, failed = "none", NEW ch \in Channel, EnableRead(ch)
  PROVE  Inv' /\ Registered(ch)' /\ OthersStay(ch)
<1> DEFINE n == Len(pollfds_)
           new == [fd |-> FdOf[ch], events |-> {"read"}]
<1>1. /\ ch \in alive /\ index_[ch] < 0 /\ events_[ch] = {}
      /\ pollfds_ \in Seq(Slots) /\ n \in Nat
  BY DEF EnableRead, Inv, TypeOK, ReadersAreRegistered
<1>2. FdOf[ch] \notin DOMAIN channels_
  <2>1. index_[ch] \in Int
    BY DEF Inv, TypeOK
  <2> QED
    BY <1>1, <2>1, OnlyOneRegistered
<1>3. /\ pollfds_' = Append(pollfds_, new)
      /\ channels_' = [fd \in DOMAIN channels_ \cup {FdOf[ch]} |->
                          IF fd = FdOf[ch] THEN ch ELSE channels_[fd]]
      /\ index_' = [index_ EXCEPT ![ch] = n]
      /\ events_' = [events_ EXCEPT ![ch] = {"read"}]
      /\ UNCHANGED << phase, active, handling, alive, shut, failed, late, cut >>
  BY <1>1, <1>2 DEF EnableRead, UpdateChannel, AddChannel
<1>4. new \in Slots /\ SlotFd(new) = FdOf[ch] /\ FdOf[ch] \in Nat
  BY FdsAreNumbers DEF Slots, Event, SlotFd
<1> HIDE DEF new
<1>5. /\ pollfds_' \in Seq(Slots) /\ Len(pollfds_') = n + 1
      /\ DOMAIN pollfds_' = 1 .. n + 1 /\ DOMAIN pollfds_ = 1 .. n
      /\ pollfds_'[n + 1] = new
      /\ \A i \in 1 .. n : pollfds_'[i] = pollfds_[i]
  BY <1>1, <1>3, <1>4
<1>6. /\ index_'[ch] = n /\ events_'[ch] = {"read"}
      /\ \A c \in Channel \ {ch} :
            index_'[c] = index_[c] /\ events_'[c] = events_[c]
  BY <1>3 DEF Inv, TypeOK
<1>7. /\ DOMAIN channels_' = DOMAIN channels_ \cup {FdOf[ch]}
      /\ channels_'[FdOf[ch]] = ch
      /\ \A fd \in DOMAIN channels_ : channels_'[fd] = channels_[fd]
  BY <1>2, <1>3
<1>8. ~Registered(ch) /\ Registered(ch)'
  BY <1>2, <1>7 DEF Registered
<1>9. \A c \in Channel \ {ch} : Registered(c)' <=> Registered(c)
  BY <1>2, <1>7 DEF Registered
<1>10. Slot(ch)' = new
  BY <1>5, <1>6 DEF Slot
<1>11. \A c \in Channel \ {ch} : Registered(c) => Slot(c)' = Slot(c)
  <2> SUFFICES ASSUME NEW c \in Channel \ {ch}, Registered(c)
               PROVE  Slot(c)' = Slot(c)
    OBVIOUS
  <2>1. index_[c] + 1 \in 1 .. n
    BY <1>5, RegisteredHasSlot
  <2> QED
    BY <1>5, <1>6, <2>1 DEF Slot
<1>12. TypeOK'
  <2>1. index_' \in [Channel -> Int] /\ events_' \in [Channel -> SUBSET Event]
    BY <1>1, <1>3 DEF Inv, TypeOK, Event
  <2>2. /\ DOMAIN channels_' \subseteq Nat
        /\ \A fd \in DOMAIN channels_' : channels_'[fd] \in Channel
    BY <1>4, <1>7 DEF Inv, TypeOK
  <2> QED
    BY <1>3, <1>5, <2>1, <2>2 DEF Inv, TypeOK
<1>13. MapIsRight'
  <2> SUFFICES ASSUME NEW fd \in DOMAIN channels_', NEW c, c = channels_'[fd]
               PROVE  /\ c \in alive' /\ FdOf[c] = fd
                      /\ index_'[c] \in 0 .. Len(pollfds_') - 1
                      /\ SlotFd(pollfds_'[index_'[c] + 1]) = fd
    BY DEF MapIsRight, Slot
  <2>1. CASE fd = FdOf[ch]
    BY <1>1, <1>3, <1>4, <1>5, <1>6, <1>7, <2>1
  <2>2. CASE fd \in DOMAIN channels_
    <3>1. c = channels_[fd] /\ c \in Channel /\ Registered(c) /\ FdOf[c] = fd
      BY <1>7, <1>2, <2>2, MapHasChannels
    <3>2. /\ c \in alive /\ index_[c] \in 0 .. n - 1 /\ c # ch
          /\ SlotFd(pollfds_[index_[c] + 1]) = fd
      BY <1>8, <3>1, RegisteredHasSlot DEF Slot
    <3>3. index_'[c] = index_[c] /\ index_[c] + 1 \in 1 .. n
      BY <1>1, <1>6, <3>1, <3>2
    <3> QED
      BY <1>1, <1>3, <1>5, <3>1, <3>2, <3>3
  <2> QED
    BY <1>7, <2>1, <2>2
<1>14. SlotsAreRight'
  <2> SUFFICES ASSUME NEW i \in 1 .. n + 1
               PROVE  /\ SlotFd(pollfds_'[i]) \in DOMAIN channels_'
                      /\ index_'[channels_'[SlotFd(pollfds_'[i])]] = i - 1
    BY <1>5 DEF SlotsAreRight
  <2>1. CASE i = n + 1
    BY <1>1, <1>4, <1>5, <1>6, <1>7, <2>1
  <2>2. CASE i \in 1 .. n
    <3>1. /\ SlotFd(pollfds_[i]) \in DOMAIN channels_
          /\ index_[channels_[SlotFd(pollfds_[i])]] = i - 1
      BY <1>5, <2>2 DEF Inv, SlotsAreRight
    <3>2. channels_[SlotFd(pollfds_[i])] \in Channel \ {ch}
      BY <1>8, <3>1, MapHasChannels
    <3> QED
      BY <1>5, <1>6, <1>7, <2>2, <3>1, <3>2
  <2> QED
    BY <1>1, <2>1, <2>2
<1>15. FdsDiffer' /\ ActiveInHandlers' /\ AssertsHold'
  BY <1>3 DEF Inv, FdsDiffer, ActiveInHandlers, AssertsHold
<1>16. ReadersAreRegistered'
  BY <1>1, <1>3, <1>6, <1>8, <1>9 DEF Inv, TypeOK, ReadersAreRegistered
<1>17. ClosedIsMuted'
  BY <1>1, <1>3, <1>6, <1>9, <1>11 DEF Inv, TypeOK, ClosedIsMuted
<1>18. InterestIsPolled'
  BY <1>6, <1>9, <1>10, <1>11 DEF Inv, InterestIsPolled, new
<1>19. ActiveChannelsAreRegistered'
  BY <1>3, <1>8, <1>9 DEF Inv, TypeOK, ActiveChannelsAreRegistered
<1>20. OthersStay(ch)
  BY <1>9, <1>11 DEF OthersStay
<1> QED
  BY <1>8, <1>12, <1>13, <1>14, <1>15, <1>16, <1>17, <1>18, <1>19, <1>20 DEF Inv

\* The last slot moves into the gap, and the index of its channel with it.
LEMMA RemoveInv ==
  ASSUME Inv, failed = "none", NEW ch \in Channel, Remove(ch)
  PROVE  /\ Inv'
         /\ \/ SlotsStay
            \/ Registered(ch) /\ ~Registered(ch)' /\ OthersStay(ch)
<1>1. CASE ~Removable(ch)
  <2>1. /\ Registered(ch) /\ index_[ch] \in 0 .. Len(pollfds_) - 1
        /\ Slot(ch).fd \in {FdOf[ch], Muted(FdOf[ch])} /\ ch \in alive
    BY OnlyOneRegistered, RegisteredHasSlot DEF Remove
  <2>2. late \/ (ch \in shut /\ "read" \in events_[ch])
    BY <1>1, <2>1 DEF Inv, ClosedIsMuted, Removable, IsConnected
  <2>3. /\ Abort("remove") /\ UNCHANGED << shut, late, events_ >>
        /\ cut' \in {cut, cut \cup {ch}}
    BY <1>1 DEF Remove, Abort
  <2>4. AssertsHold'
    BY <2>2, <2>3 DEF AssertsHold, Abort
  <2> QED
    BY <2>3, <2>4, AbortInv DEF Inv, TypeOK, Abort, SlotsStay
<1>2. CASE Removable(ch)
  <2> DEFINE n == Len(pollfds_)
             k == index_[ch]
             last == channels_[SlotFd(pollfds_[n])]
  <2>1. /\ Registered(ch) /\ ch \in alive /\ InUserCode
        /\ pollfds_ \in Seq(Slots) /\ n \in Nat /\ n > 0 /\ k \in 0 .. n - 1
        /\ FdOf[ch] \in DOMAIN channels_ /\ channels_[FdOf[ch]] = ch
    BY <1>2 DEF Remove, Removable, Inv, TypeOK, Registered
  <2>2. /\ last \in Channel /\ Registered(last) /\ index_[last] = n - 1
        /\ FdOf[last] = SlotFd(pollfds_[n])
    <3>1. n \in DOMAIN pollfds_
      BY <2>1
    <3>2. SlotFd(pollfds_[n]) \in DOMAIN channels_ /\ index_[last] = n - 1
      BY <3>1 DEF Inv, SlotsAreRight
    <3> QED
      BY <3>2, MapHasChannels
  <2>3. k = n - 1 <=> last = ch
    BY <2>1, <2>2, SlotsDiffer
  <2>4. /\ channels_' = [fd \in DOMAIN channels_ \ {FdOf[ch]} |-> channels_[fd]]
        /\ pollfds_' = SubSeq([pollfds_ EXCEPT ![k + 1] = pollfds_[n]], 1, n - 1)
        /\ index_' = IF k = n - 1 THEN index_ ELSE [index_ EXCEPT ![last] = k]
        /\ events_' = [events_ EXCEPT ![ch] = {}]
        /\ cut' = IF handling = {} THEN cut ELSE cut \cup {ch}
        /\ UNCHANGED << phase, active, handling, alive, shut, failed, late >>
    BY <1>2 DEF Remove, RemoveChannel, MoveLast
  <2> HIDE DEF last
  <2>5. /\ pollfds_' \in Seq(Slots) /\ Len(pollfds_') = n - 1
        /\ DOMAIN pollfds_' = 1 .. n - 1 /\ DOMAIN pollfds_ = 1 .. n
        /\ \A i \in 1 .. n - 1 : pollfds_'[i] = IF i = k + 1 THEN pollfds_[n]
                                                            ELSE pollfds_[i]
    <3> HIDE DEF n, k
    <3>1. /\ pollfds_ \in [1 .. n -> Slots] /\ pollfds_[n] \in Slots
          /\ k + 1 \in 1 .. n
      BY <2>1 DEF n
    <3>2. [pollfds_ EXCEPT ![k + 1] = pollfds_[n]] \in [1 .. n -> Slots]
      BY <3>1
    <3>3. /\ [pollfds_ EXCEPT ![k + 1] = pollfds_[n]] \in Seq(Slots)
          /\ Len([pollfds_ EXCEPT ![k + 1] = pollfds_[n]]) = n
      BY <2>1, <3>2
    <3> QED
      BY <2>1, <2>4, <3>1, <3>3
  <2>6. /\ k # n - 1 => index_'[last] = k
        /\ \A c \in Channel : c # last \/ k = n - 1 => index_'[c] = index_[c]
    BY <2>2, <2>4 DEF Inv, TypeOK
  <2>7. /\ DOMAIN channels_' = DOMAIN channels_ \ {FdOf[ch]}
        /\ \A fd \in DOMAIN channels_' : channels_'[fd] = channels_[fd]
    BY <2>4
  <2>8. \A c \in Channel : Registered(c)' <=> Registered(c) /\ c # ch
    BY <2>1, <2>7 DEF Registered
  <2>9. ASSUME NEW c \in Channel \ {ch}, Registered(c)
        PROVE  index_'[c] \in 0 .. n - 2 /\ Slot(c)' = Slot(c)
    <3>1. index_[c] \in 0 .. n - 1 /\ index_[c] # k
      BY <2>1, <2>9, RegisteredHasSlot, SlotsDiffer
    <3>2. CASE c = last
      <4>1. k # n - 1 /\ index_'[c] = k /\ index_[c] = n - 1
        BY <2>2, <2>3, <2>6, <3>2
      <4>2. k + 1 \in 1 .. n - 1 /\ k \in 0 .. n - 2
        BY <2>1, <4>1
      <4> QED
        BY <2>1, <2>5, <4>1, <4>2 DEF Slot
    <3>3. CASE c # last
      <4>1. index_'[c] = index_[c] /\ index_[c] # n - 1
        BY <2>2, <2>6, <2>9, <3>3, SlotsDiffer
      <4>2. index_[c] + 1 \in 1 .. n - 1 /\ index_[c] + 1 # k + 1
        BY <2>1, <3>1, <4>1
      <4> QED
        BY <2>1, <2>5, <3>1, <4>1, <4>2 DEF Slot
    <3> QED
      BY <3>2, <3>3
  <2>19. /\ events_'[ch] = {}
         /\ \A c \in Channel \ {ch} : events_'[c] = events_[c]
    BY <2>4 DEF Inv, TypeOK
  <2>10. TypeOK'
    <3>1. index_' \in [Channel -> Int]
      BY <2>1, <2>4 DEF Inv, TypeOK
    <3>2. events_' \in [Channel -> SUBSET Event]
      BY <2>4 DEF Inv, TypeOK
    <3>3. cut' \subseteq Channel
      BY <2>4 DEF Inv, TypeOK
    <3> QED
      BY <2>4, <2>5, <2>7, <3>1, <3>2, <3>3 DEF Inv, TypeOK
  <2>11. MapIsRight'
    <3> SUFFICES ASSUME NEW fd \in DOMAIN channels_', NEW c, c = channels_'[fd]
                 PROVE  /\ c \in alive' /\ FdOf[c] = fd
                        /\ index_'[c] \in 0 .. Len(pollfds_') - 1
                        /\ SlotFd(pollfds_'[index_'[c] + 1]) = fd
      BY DEF MapIsRight, Slot
    <3>1. c \in Channel /\ Registered(c) /\ FdOf[c] = fd /\ c # ch
      BY <2>7, MapHasChannels
    <3>2. index_'[c] \in 0 .. n - 2 /\ SlotFd(Slot(c)') = fd /\ c \in alive
      BY <2>9, <3>1, RegisteredHasSlot
    <3>3. c \in alive'
      BY <2>4, <3>2
    <3>4. index_'[c] \in 0 .. Len(pollfds_') - 1
      BY <2>1, <2>5, <3>2
    <3>5. SlotFd(pollfds_'[index_'[c] + 1]) = fd
      BY <3>2 DEF Slot
    <3> QED
      BY <3>1, <3>3, <3>4, <3>5
  <2>12. SlotsAreRight'
    <3> SUFFICES ASSUME NEW i \in 1 .. n - 1
                 PROVE  /\ SlotFd(pollfds_'[i]) \in DOMAIN channels_'
                        /\ index_'[channels_'[SlotFd(pollfds_'[i])]] = i - 1
      BY <2>5 DEF SlotsAreRight
    <3>1. CASE i = k + 1
      <4>1. k # n - 1 /\ pollfds_'[i] = pollfds_[n] /\ i - 1 = k
        BY <2>1, <2>5, <3>1
      <4>2. SlotFd(pollfds_'[i]) = FdOf[last] /\ index_'[last] = k /\ last # ch
        BY <2>2, <2>3, <2>6, <4>1
      <4>3. FdOf[last] \in DOMAIN channels_' /\ channels_'[FdOf[last]] = last
        BY <2>2, <2>8, <4>2 DEF Registered
      <4> QED
        BY <4>1, <4>2, <4>3
    <3>2. CASE i # k + 1
      <4>1. pollfds_'[i] = pollfds_[i] /\ i \in DOMAIN pollfds_
        BY <2>1, <2>5, <3>2
      <4>2. /\ SlotFd(pollfds_[i]) \in DOMAIN channels_
            /\ index_[channels_[SlotFd(pollfds_[i])]] = i - 1
        BY <4>1 DEF Inv, SlotsAreRight
      <4> PICK c \in Channel : c = channels_[SlotFd(pollfds_[i])]
        BY <4>2, MapHasChannels
      <4>3. /\ index_[c] = i - 1 /\ Registered(c)
            /\ FdOf[c] = SlotFd(pollfds_[i])
        BY <4>2, MapHasChannels
      <4>4. c # ch /\ (c = last => k = n - 1)
        BY <2>1, <2>2, <3>2, <4>3
      <4>5. Registered(c)' /\ index_'[c] = i - 1
        BY <2>6, <2>8, <4>3, <4>4
      <4> QED
        BY <4>1, <4>3, <4>5 DEF Registered
    <3> QED
      BY <3>1, <3>2
  <2>13. FdsDiffer' /\ ActiveInHandlers' /\ AssertsHold'
    BY <2>4 DEF Inv, FdsDiffer, ActiveInHandlers, AssertsHold
  <2>14. ReadersAreRegistered'
    <3> SUFFICES ASSUME NEW c \in alive
                 PROVE  /\ "read" \in events_'[c] => Registered(c)'
                        /\ index_'[c] < 0 => events_'[c] = {}
      BY <2>4 DEF ReadersAreRegistered
    <3>1. c \in Channel
      BY DEF Inv, TypeOK
    <3>2. index_'[c] < 0 => index_'[c] = index_[c]
      BY <2>1, <2>6, <3>1
    <3> QED
      BY <2>1, <2>8, <2>19, <3>1, <3>2 DEF Inv, ReadersAreRegistered
  <2>15. ClosedIsMuted'
    BY <2>4, <2>8, <2>9, <2>19 DEF Inv, TypeOK, ClosedIsMuted
  <2>16. InterestIsPolled'
    BY <2>8, <2>9, <2>19 DEF Inv, InterestIsPolled
  <2>17. ActiveChannelsAreRegistered'
    <3>1. CASE handling = {}
      BY <2>1, <2>4, <3>1
      DEF Inv, ActiveInHandlers, ActiveChannelsAreRegistered, InUserCode
    <3>2. CASE handling # {}
      BY <2>4, <2>8, <3>2 DEF Inv, TypeOK, ActiveChannelsAreRegistered
    <3> QED
      BY <3>1, <3>2
  <2>18. Registered(ch) /\ ~Registered(ch)' /\ OthersStay(ch)
    BY <2>1, <2>8, <2>9 DEF OthersStay
  <2> QED
    BY <2>10, <2>11, <2>12, <2>13, <2>14, <2>15, <2>16, <2>17, <2>18 DEF Inv
<1> QED
  BY <1>1, <1>2

LEMMA EnableWriteInv ==
  ASSUME Inv, failed = "none", NEW ch \in Channel, EnableWrite(ch)
  PROVE  /\ Inv'
         /\ \/ SlotsStay
            \/ Registered(ch)' /\ OthersStay(ch)
<1> DEFINE ev == events_[ch] \cup {"write"}
<1>1. /\ ch \in alive /\ index_[ch] >= 0 /\ ev \in SUBSET Event
      /\ late' = (late \/ "read" \notin events_[ch]) /\ late \in BOOLEAN
      /\ shut' = shut /\ cut' = cut /\ shut \subseteq Channel
      /\ cut \subseteq Channel
  BY DEF EnableWrite, Inv, TypeOK, Event
<1>2. ChangeSlot(ch, ev)
  BY <1>1 DEF EnableWrite, UpdateChannel, Inv, TypeOK
<1>3. CASE Registered(ch)
  BY <1>1, <1>2, <1>3, ChangeSlotInv
<1>4. CASE ~Registered(ch)
  <2>1. FdOf[ch] \notin DOMAIN channels_ /\ "read" \notin events_[ch]
    BY <1>1, <1>4, OnlyOneRegistered DEF Inv, ReadersAreRegistered
  <2>2. Abort("update") /\ late' = TRUE
    BY <1>1, <1>2, <2>1 DEF ChangeSlot
  <2>3. AssertsHold'
    BY <2>2 DEF Abort, AssertsHold
  <2> QED
    BY <1>1, <2>2, <2>3, AbortInv DEF Abort, SlotsStay
<1> QED
  BY <1>3, <1>4

\* A channel that still reads is registered; one that does not was removed.
LEMMA HandleCloseInv ==
  ASSUME Inv, failed = "none", NEW ch \in Channel, HandleClose(ch)
  PROVE  /\ Inv'
         /\ \/ SlotsStay
            \/ Registered(ch)' /\ OthersStay(ch)
<1>1. /\ ch \in alive /\ late' = late /\ late \in BOOLEAN
      /\ shut' \subseteq Channel /\ cut' = cut /\ cut \subseteq Channel
  BY DEF HandleClose, Inv, TypeOK
<1>2. CASE "read" \in events_[ch]
  <2>1. Registered(ch)
    BY <1>1, <1>2 DEF Inv, ReadersAreRegistered
  <2>2. ChangeSlot(ch, {})
    BY <1>2, <2>1, RegisteredHasSlot DEF HandleClose, UpdateChannel
  <2> QED
    BY <1>1, <2>1, <2>2, ChangeSlotInv
<1>3. CASE "read" \notin events_[ch]
  <2>1. ch \in cut /\ Abort("close")
    BY <1>3 DEF HandleClose
  <2>2. AssertsHold'
    BY <1>1, <2>1 DEF Abort, AssertsHold
  <2> QED
    BY <1>1, <2>1, <2>2, AbortInv DEF Abort, SlotsStay
<1> QED
  BY <1>2, <1>3

LEMMA DisableWriteInv ==
  ASSUME Inv, failed = "none", NEW ch \in Channel, DisableWrite(ch)
  PROVE  Inv'
<1>1. /\ events_' = [events_ EXCEPT ![ch] = @ \ {"write"}]
      /\ UNCHANGED << phase, active, handling, pollfds_, channels_, alive,
                      index_, shut, failed, late, cut >>
      /\ "write" \in events_[ch]
  BY DEF DisableWrite
<1>2. /\ events_'[ch] = events_[ch] \ {"write"}
      /\ \A c \in Channel \ {ch} : events_'[c] = events_[c]
      /\ events_' \in [Channel -> SUBSET Event]
  BY <1>1 DEF Inv, TypeOK
<1>3. \A c \in Channel : (Registered(c)' <=> Registered(c)) /\ Slot(c)' = Slot(c)
  BY <1>1 DEF Registered, Slot
<1>4. TypeOK' /\ MapIsRight' /\ SlotsAreRight' /\ FdsDiffer'
  BY <1>1, <1>2 DEF Inv, TypeOK, MapIsRight, SlotsAreRight, FdsDiffer, Slot
<1>5. ActiveInHandlers' /\ ActiveChannelsAreRegistered' /\ AssertsHold'
  BY <1>1 DEF Inv, ActiveInHandlers, ActiveChannelsAreRegistered, AssertsHold,
              Registered
<1>6. ReadersAreRegistered'
  BY <1>1, <1>2, <1>3 DEF Inv, TypeOK, ReadersAreRegistered
<1>7. ClosedIsMuted'
  BY <1>1, <1>2, <1>3 DEF Inv, TypeOK, ClosedIsMuted
<1>8. InterestIsPolled'
  BY <1>2, <1>3 DEF Inv, InterestIsPolled
<1> QED
  BY <1>4, <1>5, <1>6, <1>7, <1>8 DEF Inv

\* A channel whose descriptor no other has is new to the map.
LEMMA CreateInv ==
  ASSUME Inv, failed = "none", NEW ch \in Channel, Create(ch)
  PROVE  Inv' /\ ~Registered(ch) /\ ~Registered(ch)' /\ OthersStay(ch)
<1>1. /\ ch \notin alive /\ \A c \in alive : FdOf[c] # FdOf[ch]
      /\ alive' = alive \cup {ch}
      /\ events_' = [events_ EXCEPT ![ch] = {}]
      /\ index_' = [index_ EXCEPT ![ch] = -1]
      /\ UNCHANGED << phase, active, handling, pollfds_, channels_, shut, failed,
                      late, cut >>
  BY DEF Create
<1>2. /\ events_'[ch] = {} /\ index_'[ch] = -1
      /\ events_' \in [Channel -> SUBSET Event] /\ index_' \in [Channel -> Int]
      /\ \A c \in Channel \ {ch} :
            events_'[c] = events_[c] /\ index_'[c] = index_[c]
  BY <1>1 DEF Inv, TypeOK
<1>3. ~Registered(ch) /\ \A c \in Channel : Registered(c)' <=> Registered(c)
  BY <1>1, RegisteredHasSlot DEF Registered
<1>4. \A c \in Channel \ {ch} : Slot(c)' = Slot(c)
  BY <1>1, <1>2 DEF Slot
<1>5. TypeOK'
  BY <1>1, <1>2 DEF Inv, TypeOK
<1>6. MapIsRight' /\ SlotsAreRight'
  <2>1. \A fd \in DOMAIN channels_ : channels_[fd] \in Channel \ {ch}
    BY <1>3, MapHasChannels
  <2> QED
    BY <1>1, <1>2, <2>1 DEF Inv, MapIsRight, SlotsAreRight, Slot
<1>7. FdsDiffer'
  BY <1>1 DEF Inv, FdsDiffer
<1>8. ReadersAreRegistered'
  BY <1>1, <1>2, <1>3 DEF Inv, TypeOK, ReadersAreRegistered
<1>9. ClosedIsMuted'
  BY <1>1, <1>2, <1>3, <1>4 DEF Inv, TypeOK, ClosedIsMuted
<1>10. InterestIsPolled'
  BY <1>2, <1>3, <1>4 DEF Inv, InterestIsPolled
<1>11. ActiveInHandlers' /\ ActiveChannelsAreRegistered' /\ AssertsHold'
  BY <1>1 DEF Inv, ActiveInHandlers, ActiveChannelsAreRegistered, AssertsHold,
              Registered
<1>12. OthersStay(ch)
  BY <1>3, <1>4 DEF OthersStay
<1> QED
  BY <1>3, <1>5, <1>6, <1>7, <1>8, <1>9, <1>10, <1>11, <1>12 DEF Inv

LEMMA DestroyInv ==
  ASSUME Inv, failed = "none", NEW ch \in Channel, Destroy(ch)
  PROVE  Inv'
<1>1. CASE ch \in handling
  <2>1. /\ Abort("handling") /\ ~Registered(ch)
        /\ UNCHANGED << shut, late, cut >>
    BY <1>1 DEF Destroy
  <2>2. ch \in cut
    BY <1>1, <2>1 DEF Inv, ActiveChannelsAreRegistered
  <2>3. AssertsHold'
    BY <2>1, <2>2 DEF Abort, AssertsHold
  <2> QED
    BY <2>1, <2>3, AbortInv DEF Inv, TypeOK
<1>2. CASE ch \notin handling
  <2>1. /\ ~Registered(ch) /\ alive' = alive \ {ch}
        /\ UNCHANGED << phase, active, handling, pollfds_, channels_, events_,
                        index_, shut, failed, late, cut >>
    BY <1>2 DEF Destroy
  <2>2. \A fd \in DOMAIN channels_ : channels_[fd] # ch
    BY <2>1, MapHasChannels
  <2>3. TypeOK' /\ MapIsRight' /\ SlotsAreRight' /\ FdsDiffer'
    BY <2>1, <2>2
    DEF Inv, TypeOK, MapIsRight, SlotsAreRight, FdsDiffer, Slot
  <2>4. ReadersAreRegistered' /\ ClosedIsMuted' /\ InterestIsPolled'
    BY <2>1 DEF Inv, ReadersAreRegistered, ClosedIsMuted, InterestIsPolled,
                Registered, Slot
  <2>5. ActiveInHandlers' /\ ActiveChannelsAreRegistered' /\ AssertsHold'
    BY <2>1 DEF Inv, ActiveInHandlers, ActiveChannelsAreRegistered, AssertsHold,
                Registered
  <2> QED
    BY <2>3, <2>4, <2>5 DEF Inv
<1> QED
  BY <1>1, <1>2

\* What shutdown and the steps of the loop have in common: channels and slots
\* stay.
LEMMA LoopInv ==
  ASSUME Inv, AssertsHold',
         phase' \in {"poll", "handlers", "user"},
         active' \subseteq Channel, handling' \subseteq Channel,
         shut' \subseteq Channel, cut' \subseteq Channel,
         ActiveChannelsAreRegistered', ActiveInHandlers',
         UNCHANGED << pollfds_, channels_, alive, events_, index_, failed, late >>
  PROVE  Inv'
<1>1. TypeOK' /\ MapIsRight' /\ SlotsAreRight' /\ FdsDiffer'
  BY DEF Inv, TypeOK, MapIsRight, SlotsAreRight, FdsDiffer, Slot
<1>2. ReadersAreRegistered' /\ ClosedIsMuted' /\ InterestIsPolled'
  BY DEF Inv, ReadersAreRegistered, ClosedIsMuted, InterestIsPolled,
         Registered, Slot
<1> QED
  BY <1>1, <1>2 DEF Inv

LEMMA ShutdownInv ==
  ASSUME Inv, failed = "none", NEW ch \in Channel, Shutdown(ch)
  PROVE  Inv'
<1>1. /\ shut' \subseteq Channel /\ cut \subseteq Channel
      /\ UNCHANGED << phase, active, handling, pollfds_, channels_, alive,
                      events_, index_, failed, late, cut >>
  BY DEF Shutdown, Inv, TypeOK
<1>2. AssertsHold' /\ ActiveInHandlers' /\ ActiveChannelsAreRegistered'
  BY <1>1 DEF Inv, AssertsHold, ActiveInHandlers, ActiveChannelsAreRegistered,
              Registered
<1> QED
  BY <1>1, <1>2, LoopInv DEF Inv, TypeOK

\* fillActiveChannels finds a channel for every slot that is not muted.
LEMMA PollInv ==
  ASSUME Inv, failed = "none", Poll
  PROVE  Inv'
<1>1. phase = "poll" /\ handling = {} /\ UNCHANGED << shut, late, cut >>
  BY DEF Poll, Inv, ActiveInHandlers
<1>2. PICK ready \in SUBSET {i \in DOMAIN pollfds_ : pollfds_[i].fd >= 0} :
        IF \E i \in ready : pollfds_[i].fd \notin DOMAIN channels_
        THEN Abort("poll")
        ELSE /\ active' = {channels_[pollfds_[i].fd] : i \in ready}
             /\ phase' = "handlers"
             /\ UNCHANGED << handling, pollfds_, channels_, alive, events_,
                             index_, failed >>
  BY DEF Poll
<1>3. \A i \in ready : pollfds_[i].fd \in DOMAIN channels_
  <2> SUFFICES ASSUME NEW i \in ready
               PROVE  pollfds_[i].fd \in DOMAIN channels_
    OBVIOUS
  <2>1. i \in DOMAIN pollfds_ /\ pollfds_[i].fd >= 0
    OBVIOUS
  <2>2. pollfds_[i].fd \in Int
    <3>1. pollfds_[i] \in Slots
      BY <2>1 DEF Inv, TypeOK
    <3> QED
      BY <3>1, FdsAreNumbers DEF Slots
  <2>3. SlotFd(pollfds_[i]) = pollfds_[i].fd
    BY <2>1, <2>2 DEF SlotFd
  <2> QED
    BY <2>1, <2>3 DEF Inv, SlotsAreRight
<1>4. /\ active' = {channels_[pollfds_[i].fd] : i \in ready}
      /\ phase' = "handlers"
      /\ UNCHANGED << handling, pollfds_, channels_, alive, events_, index_,
                      failed >>
  BY <1>2, <1>3
<1>5. active' \cup handling' \subseteq {c \in Channel : Registered(c)}
  BY <1>1, <1>3, <1>4, MapHasChannels
<1>6. ActiveInHandlers' /\ AssertsHold'
  BY <1>1, <1>4 DEF ActiveInHandlers, AssertsHold
<1>7. ActiveChannelsAreRegistered'
  BY <1>4, <1>5, RegisteredHasSlot DEF ActiveChannelsAreRegistered, Registered
<1> QED
  BY <1>1, <1>4, <1>5, <1>6, <1>7, LoopInv DEF Inv, TypeOK

\* A channel that is destructed when the loop turns to it was removed since.
LEMMA BeginHandlingInv ==
  ASSUME Inv, failed = "none", NEW ch \in Channel, BeginHandling(ch)
  PROVE  Inv'
<1>1. ch \in active /\ UNCHANGED << shut, late, cut >>
  BY DEF BeginHandling
<1>2. CASE ch \in alive
  <2>1. /\ UNCHANGED << phase, pollfds_, channels_, alive, events_, index_,
                        failed, late, shut, cut >>
        /\ active' \cup handling' \subseteq active \cup handling
        /\ phase = "handlers"
    BY <1>1, <1>2 DEF BeginHandling
  <2>2. ActiveInHandlers' /\ ActiveChannelsAreRegistered' /\ AssertsHold'
    BY <2>1 DEF Inv, ActiveInHandlers, ActiveChannelsAreRegistered, AssertsHold,
                Registered
  <2> QED
    BY <2>1, <2>2, LoopInv DEF Inv, TypeOK
<1>3. CASE ch \notin alive
  <2>1. Abort("dangling") /\ ch \in cut
    BY <1>1, <1>3 DEF BeginHandling, Inv, ActiveChannelsAreRegistered
  <2>2. AssertsHold'
    BY <1>1, <2>1 DEF Abort, AssertsHold
  <2> QED
    BY <1>1, <2>1, <2>2, AbortInv DEF Inv, TypeOK
<1> QED
  BY <1>2, <1>3

LEMMA HandlingInv ==
  ASSUME Inv, failed = "none", EndHandling \/ NextPhase
  PROVE  Inv'
<1>1. /\ UNCHANGED << pollfds_, channels_, alive, events_, index_, shut, failed,
                      late >>
      /\ phase' \in {"poll", "handlers", "user"}
      /\ active' \cup handling' \subseteq active \cup handling
      /\ cut' \subseteq Channel /\ shut \subseteq Channel
  BY DEF Inv, TypeOK, EndHandling, NextPhase
<1>2. ActiveChannelsAreRegistered'
  BY <1>1 DEF Inv, EndHandling, NextPhase, ActiveChannelsAreRegistered,
              Registered
<1>3. ActiveInHandlers' /\ AssertsHold'
  BY <1>1 DEF Inv, ActiveInHandlers, EndHandling, NextPhase, AssertsHold
<1> QED
  BY <1>1, <1>2, <1>3, LoopInv DEF Inv, TypeOK

-----------------------------------------------------------------------------
(* Theorems.                                                                *)

\* Inv is inductive.
THEOREM Invariant == Spec => []Inv
<1>1. Init => Inv
  <2> SUFFICES ASSUME Init
               PROVE  Inv
    OBVIOUS
  <2>1. /\ pollfds_ = << >> /\ DOMAIN channels_ = {} /\ alive = {} /\ active = {}
        /\ handling = {} /\ failed = "none" /\ late = FALSE /\ phase = "user"
        /\ shut = {} /\ cut = {}
    BY DEF Init
  <2>2. events_ \in [Channel -> SUBSET Event] /\ index_ \in [Channel -> Int]
    BY DEF Init
  <2>3. pollfds_ \in Seq(Slots)
    BY <2>1
  <2>4. TypeOK
    BY <2>1, <2>2, <2>3 DEF TypeOK
  <2> QED
    BY <2>1, <2>4
    DEF Inv, MapIsRight, SlotsAreRight, FdsDiffer, ReadersAreRegistered,
        ClosedIsMuted, InterestIsPolled, ActiveInHandlers,
        ActiveChannelsAreRegistered, AssertsHold, Registered
<1>2. Inv /\ [Next]_vars => Inv'
  <2> SUFFICES ASSUME Inv, [Next]_vars
               PROVE  Inv'
    OBVIOUS
  <2>1. CASE UNCHANGED vars
    <3>1. /\ UNCHANGED << pollfds_, channels_, alive, events_, index_, failed,
                          late, phase, active, handling, shut, cut >>
      BY <2>1 DEF vars
    <3>2. ActiveChannelsAreRegistered' /\ AssertsHold' /\ ActiveInHandlers'
      BY <3>1 DEF Inv, ActiveChannelsAreRegistered, AssertsHold,
                  ActiveInHandlers, Registered
    <3> QED
      BY <3>1, <3>2, LoopInv DEF Inv, TypeOK
  <2>2. CASE Next
    BY <2>2, PollInv, HandlingInv, BeginHandlingInv, CreateInv, EnableReadInv,
       ShutdownInv, EnableWriteInv, DisableWriteInv, HandleCloseInv, RemoveInv,
       DestroyInv
    DEF Next
  <2> QED
    BY <2>1, <2>2
<1> QED
  BY <1>1, <1>2, PTL DEF Spec

\* pollfds_, channels_ and every index_ agree, after any sequence of additions,
\* changes and removals (updateChannel, removeChannel).
THEOREM StructuresAgree == Spec => []PollfdsMatchChannels
<1>1. Inv => PollfdsMatchChannels
  BY DEF Inv, MapIsRight, SlotsAreRight, PollfdsMatchChannels
<1> QED
  BY <1>1, Invariant, PTL

\* The slot of a channel asks for what the channel waits for.
THEOREM AllInterestIsPolled == Spec => []InterestIsPolled
<1>1. Inv => InterestIsPolled
  BY DEF Inv
<1> QED
  BY <1>1, Invariant, PTL

\* Assertions of Poller and Channel fail only after a sendInLoop that was run
\* after the close of its connection, at the end of a server with a connection
\* that is half closed, or in a handler that ends a server.
THEOREM AssertionsHold == Spec => []AssertsHold
<1>1. Inv => AssertsHold
  BY DEF Inv
<1> QED
  BY <1>1, Invariant, PTL

\* loop() handles no channel that was removed or destructed since poll, unless
\* a handler has done so by ending a server.
THEOREM HandledChannelsAreRegistered == Spec => []ActiveChannelsAreRegistered
<1>1. Inv => ActiveChannelsAreRegistered
  BY DEF Inv
<1> QED
  BY <1>1, Invariant, PTL

-----------------------------------------------------------------------------
(* The refinement of PollSet.                                               *)

\* What ::poll watches for a channel, and the table of Table.
Watched(ch) == [watched |-> Slot(ch).fd >= 0, events |-> Slot(ch).events]

watching == [ch \in {c \in Channel : Registered(c)} |-> Watched(ch)]

LEMMA SlotsStayTable ==
  ASSUME SlotsStay
  PROVE  watching' = watching
BY DEF SlotsStay, watching, Watched, Registered, Slot

\* A step that leaves the other channels alone sets an entry ...
LEMMA SetsOneEntry ==
  ASSUME Inv', NEW ch \in Channel, Registered(ch)', OthersStay(ch)
  PROVE  \E w \in [watched : BOOLEAN, events : SUBSET Event] :
           watching' = [c \in DOMAIN watching \cup {ch} |->
                          IF c = ch THEN w ELSE watching[c]]
<1> DEFINE w == watching'[ch]
<1>1. w = Watched(ch)'
  BY DEF watching
<1>2. Slot(ch)' \in Slots
  <2>1. index_'[ch] \in 0 .. Len(pollfds_') - 1
    BY DEF Inv, MapIsRight, Registered
  <2>2. pollfds_' \in Seq(Slots)
    BY DEF Inv, TypeOK
  <2>3. index_'[ch] + 1 \in DOMAIN pollfds_'
    BY <2>1, <2>2
  <2> QED
    BY <2>2, <2>3 DEF Slot
<1>3. w \in [watched : BOOLEAN, events : SUBSET Event]
  BY <1>1, <1>2 DEF Watched, Slots
<1>4. DOMAIN watching' = DOMAIN watching \cup {ch}
  BY DEF watching, OthersStay
<1>5. \A c \in DOMAIN watching \ {ch} : watching'[c] = watching[c]
  BY DEF watching, Watched, OthersStay
<1>6. watching' = [c \in DOMAIN watching' |-> watching'[c]]
  BY DEF watching
<1> HIDE DEF w
<1> QED
  BY <1>3, <1>4, <1>5, <1>6 DEF w

\* ... or removes one ...
LEMMA RemovesOneEntry ==
  ASSUME NEW ch \in Channel, Registered(ch), ~Registered(ch)', OthersStay(ch)
  PROVE  /\ ch \in DOMAIN watching
         /\ watching' = [c \in DOMAIN watching \ {ch} |-> watching[c]]
<1>1. ch \in DOMAIN watching /\ DOMAIN watching' = DOMAIN watching \ {ch}
  BY DEF watching, OthersStay
<1>2. \A c \in DOMAIN watching \ {ch} : watching'[c] = watching[c]
  BY DEF watching, Watched, OthersStay
<1>3. watching' = [c \in DOMAIN watching' |-> watching'[c]]
  BY DEF watching
<1> QED
  BY <1>1, <1>2, <1>3

\* ... or nothing, if the channel is not registered before or after.
LEMMA KeepsTable ==
  ASSUME NEW ch \in Channel, ~Registered(ch), ~Registered(ch)', OthersStay(ch)
  PROVE  watching' = watching
BY DEF watching, Watched, OthersStay

\* Behind the moving slots there is one table of channels: updateChannel sets
\* one entry, removeChannel removes one, and no other is touched.
THEOREM PollerIsAPollSet == Spec => ImplementsPollSet
<1>1. Init => Table!Init
  <2> SUFFICES ASSUME Init
               PROVE  watching = [ch \in {} |-> {}]
    BY DEF Table!Init, watching, Watched
  <2>1. {c \in Channel : Registered(c)} = {}
    BY DEF Init, Registered
  <2> QED
    BY <2>1 DEF watching
<1>2. Inv /\ Inv' /\ [Next]_vars => [Table!Next]_watching
  <2> SUFFICES ASSUME Inv, Inv', [Next]_vars
               PROVE  Table!Next \/ watching' = watching
    OBVIOUS
  <2>0. CASE UNCHANGED vars
    BY <2>0, SlotsStayTable DEF vars, SlotsStay
  <2> SUFFICES ASSUME Next
               PROVE  Table!Next \/ watching' = watching
    BY <2>0
  <2>9. failed = "none"
    BY DEF Next
  <2>1. ASSUME NEW ch \in Channel, Registered(ch)', OthersStay(ch)
        PROVE  Table!Next
    <3>1. \E w \in [watched : BOOLEAN, events : SUBSET Event] : Table!Set(ch, w)
      BY <2>1, SetsOneEntry DEF Table!Set, watching, Watched
    <3> QED
      BY <3>1 DEF Table!Next
  <2>2. ASSUME NEW ch \in Channel, Registered(ch), ~Registered(ch)', OthersStay(ch)
        PROVE  Table!Next
    <3>1. Table!Remove(ch)
      BY <2>2, RemovesOneEntry DEF Table!Remove, watching, Watched
    <3> QED
      BY <3>1 DEF Table!Next
  <2>3. ASSUME NEW ch \in Channel,
               EnableRead(ch) \/ HandleClose(ch) \/ EnableWrite(ch)
        PROVE  Table!Next \/ watching' = watching
    BY <2>1, <2>3, <2>9, EnableReadInv, HandleCloseInv, EnableWriteInv, SlotsStayTable
  <2>4. ASSUME NEW ch \in Channel, Remove(ch)
        PROVE  Table!Next \/ watching' = watching
    BY <2>2, <2>4, <2>9, RemoveInv, SlotsStayTable
  <2>5. ASSUME NEW ch \in Channel, Create(ch)
        PROVE  watching' = watching
    BY <2>5, <2>9, CreateInv, KeepsTable
  <2>6. ASSUME NEW ch \in Channel,
               \/ Shutdown(ch) \/ DisableWrite(ch) \/ Destroy(ch)
               \/ BeginHandling(ch)
        PROVE  watching' = watching
    BY <2>6, SlotsStayTable
    DEF Shutdown, DisableWrite, Destroy, BeginHandling, Abort, SlotsStay
  <2>7. ASSUME Poll \/ EndHandling \/ NextPhase
        PROVE  watching' = watching
    BY <2>7, SlotsStayTable DEF Poll, Abort, EndHandling, NextPhase, SlotsStay
  <2> QED
    BY <2>3, <2>4, <2>5, <2>6, <2>7 DEF Next
<1> QED
  BY <1>1, <1>2, Invariant, PTL
  DEF Spec, ImplementsPollSet, Table!Spec, watching, Watched
=============================================================================
