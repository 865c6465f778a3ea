----------------------------- MODULE TimerQueue -----------------------------
(***************************************************************************)
(* The TimerQueue of one EventLoop: the set of timers ordered by            *)
(* expiration, the timerfd that is armed for the earliest of them, and      *)
(* handleRead, whose callbacks may add timers.  Expirations are compared    *)
(* with Timestamp::now(), which can be set; the timerfd counts monotonic    *)
(* time.                                                                    *)
(***************************************************************************)
EXTENDS Integers, Sequences, FiniteSets

CONSTANTS Timer,     \* the timers that may be added
          Interval,  \* the intervals of repeated ones
          MaxTime    \* the bound of the model: at it, the clock stands still

ASSUME TimeAssumption == Interval \subseteq Nat \ {0} /\ MaxTime \in Nat \ {0}

VARIABLES
  clock,        \* Timestamp::now(), in ticks of the least delay of the timerfd
  clockSet,     \* the clock was set, which the model allows once
  lead,         \* history: how far it was set forward
  timers_,      \* pairs of expiration and timer
  expiration_,  \* of each timer; -1 before it is constructed
  interval_,    \* of each timer; 0 if it runs once; -1 before it is constructed
  timerfd_,     \* the time until it is readable, 0 when it is, or Disarmed
  funcQueue,    \* timers whose addTimerInLoop the loop has queued
  pc,           \* the loop thread is in "handleRead", has "polled" and is in a
                \* handler before it, or is elsewhere in its "loop"
  now,          \* handleRead's reading of the clock
  expiredList,  \* the entries that handleRead took
  ran           \* those of them that have run, or run

vars == << clock, clockSet, lead, timers_, expiration_, interval_, timerfd_,
           funcQueue, pc, now, expiredList, ran >>

Disarmed == -1

\* Timestamp::invalid() is 0, and so is the time of a default Timestamp.
Invalid == 0

Time == 0 .. MaxTime

Constructed(t) == interval_[t] >= 0

Init ==
  /\ clock = 1 /\ clockSet = FALSE /\ lead = 0
  /\ timers_ = {}
  /\ expiration_ = [t \in Timer |-> -1]
  /\ interval_ = [t \in Timer |-> -1]
  /\ timerfd_ = Disarmed
  /\ funcQueue = << >>
  /\ pc = "loop" /\ now = Invalid /\ expiredList = {} /\ ran = {}

-----------------------------------------------------------------------------
(* Arming the timerfd and adding timers.                                    *)

\* resetTimerfd: the least delay is one tick.  A timerfd that was readable is
\* not any more.
Armed(when) == IF when - clock < 1 THEN 1 ELSE when - clock

\* Faulty: only the first timer arms the timerfd.
IsEarliestIfFirst(when) == timers_ = {}

IsEarliest(when) == \A e \in timers_ : when < e[1]

\* Faulty: the timerfd is not armed for the new timer.
InsertOnly(t, when) ==
  /\ timers_' = timers_ \cup {<< when, t >>}
  /\ UNCHANGED timerfd_

\* addTimerInLoop, with insert.
AddTimerInLoop(t, when) ==
  /\ timers_' = timers_ \cup {<< when, t >>}
  /\ timerfd_' = IF IsEarliest(when) THEN Armed(when) ELSE timerfd_

\* What EventLoop asks for, as pairs of time and interval: runAt and runAfter,
\* at any time and even with an invalid one, ...
RunAt == Time \X {0}

\* ... and runEvery, which begins now.
RunEvery == {clock} \X Interval

Construct(t, when, interval) ==
  /\ ~Constructed(t)
  /\ expiration_' = [expiration_ EXCEPT ![t] = when]
  /\ interval_' = [interval_ EXCEPT ![t] = interval]

\* addTimer on the loop thread: in a timer's callback, or in other user code.
AddTimer(t, when, interval) ==
  /\ pc # "handleRead" \/ ran # {}
  /\ Construct(t, when, interval)
  /\ AddTimerInLoop(t, when)
  /\ UNCHANGED << clock, clockSet, lead, funcQueue, pc, now, expiredList,
                  ran >>

\* addTimer on another thread, whose functor ...
AddTimerFromThread(t, when, interval) ==
  /\ Construct(t, when, interval)
  /\ funcQueue' = Append(funcQueue, t)
  /\ UNCHANGED << clock, clockSet, lead, timers_, timerfd_, pc, now,
                  expiredList, ran >>

\* ... the loop runs later.
RunFunctor ==
  /\ pc = "loop"
  /\ funcQueue # << >>
  /\ AddTimerInLoop(Head(funcQueue), expiration_[Head(funcQueue)])
  /\ funcQueue' = Tail(funcQueue)
  /\ UNCHANGED << clock, clockSet, lead, expiration_, interval_, pc, now,
                  expiredList, ran >>

-----------------------------------------------------------------------------
(* TimerQueue::handleRead.                                                  *)

\* The timerfd is readable; a handler before handleRead may arm it again.
Poll ==
  /\ pc = "loop" /\ timerfd_ = 0
  /\ pc' = "polled"
  /\ UNCHANGED << clock, clockSet, lead, timers_, expiration_, interval_,
                  timerfd_, funcQueue, now, expiredList, ran >>

\* handleRead begins, with getExpired.  It does not read the timerfd.
HandleRead ==
  /\ pc = "polled"
  /\ pc' = "handleRead"
  /\ now' = clock
  /\ expiredList' = {e \in timers_ : e[1] <= clock}
  /\ timers_' = timers_ \ expiredList'
  /\ ran' = {}
  /\ UNCHANGED << clock, clockSet, lead, expiration_, interval_, timerfd_,
                  funcQueue >>

\* The callback of the next expired timer is called; it is over when the next
\* one is, or reset.
Run(e) ==
  /\ pc = "handleRead"
  /\ e \in expiredList \ ran
  /\ \A f \in expiredList \ ran : e[1] <= f[1]
  /\ ran' = ran \cup {e}
  /\ UNCHANGED << clock, clockSet, lead, timers_, expiration_, interval_,
                  timerfd_, funcQueue, pc, now, expiredList >>

Repeated == {e[2] : e \in {f \in expiredList : interval_[f[2]] > 0}}

Restart(t) == now + interval_[t]

\* Faulty: a timer is inserted before it is restarted.
RepeatedEntriesTooEarly == {<< expiration_[t], t >> : t \in Repeated}

RepeatedEntries == {<< Restart(t), t >> : t \in Repeated}

\* Faulty: nothing is done unless a timer has expired.
RearmedIfExpired(entries) ==
  IF entries = {} \/ expiredList = {} THEN timerfd_
  ELSE Armed((CHOOSE e \in entries : \A f \in entries : e[1] <= f[1])[1])

\* The timerfd is armed again if there is a timer, and its time is valid.
Rearmed(entries) ==
  LET Earliest == CHOOSE e \in entries : \A f \in entries : e[1] <= f[1]
  IN IF entries = {} \/ Earliest[1] <= Invalid THEN timerfd_
                                               ELSE Armed(Earliest[1])

\* reset, which ends handleRead.
Reset ==
  /\ pc = "handleRead"
  /\ ran = expiredList
  /\ pc' = "loop"
  /\ expiration_' = [t \in Timer |-> IF t \in Repeated THEN Restart(t)
                                                       ELSE expiration_[t]]
  /\ timers_' = timers_ \cup RepeatedEntries
  /\ timerfd_' = Rearmed(timers_')
  /\ now' = Invalid /\ expiredList' = {} /\ ran' = {}
  /\ UNCHANGED << clock, clockSet, lead, interval_, funcQueue >>

-----------------------------------------------------------------------------
(* Time.                                                                    *)

Tick ==
  /\ clock' = IF clock < MaxTime THEN clock + 1 ELSE clock
  /\ timerfd_' = IF timerfd_ > 0 THEN timerfd_ - 1 ELSE timerfd_
  /\ UNCHANGED << clockSet, lead, timers_, expiration_, interval_, funcQueue,
                  pc, now, expiredList, ran >>

\* The system's clock is set, or runs on while the system is suspended;
\* timerfd_create takes CLOCK_MONOTONIC.
SetClock ==
  /\ ~clockSet /\ clockSet' = TRUE
  /\ clock' \in 1 .. MaxTime
  /\ lead' = IF clock' > clock THEN clock' - clock ELSE 0
  /\ UNCHANGED << timers_, expiration_, interval_, timerfd_, funcQueue, pc,
                  now, expiredList, ran >>

-----------------------------------------------------------------------------
HandleReadStep == \/ Poll
                  \/ HandleRead
                  \/ \E e \in expiredList : Run(e)
                  \/ Reset

Next ==
  \/ HandleReadStep
  \/ RunFunctor
  \/ \E t \in Timer, request \in RunAt \cup RunEvery :
       \/ AddTimer(t, request[1], request[2])
       \/ AddTimerFromThread(t, request[1], request[2])
  \/ Tick
  \/ SetClock

Spec == Init /\ [][Next]_vars

\* The loop polls, and handles what is readable; callbacks return; every
\* iteration also runs the functors queued before it, however long the timerfd
\* is readable, hence SF; time passes.
FairSpec == /\ Spec
            /\ WF_vars(HandleReadStep)
            /\ SF_vars(RunFunctor)
            /\ WF_vars(Tick)

-----------------------------------------------------------------------------
(* Correctness.                                                             *)

Entry == Nat \X Timer

TypeOK ==
  /\ clock \in 1 .. MaxTime
  /\ clockSet \in BOOLEAN /\ lead \in Nat
  /\ timers_ \subseteq Entry
  /\ expiration_ \in [Timer -> Nat \cup {-1}]
  /\ interval_ \in [Timer -> Interval \cup {0, -1}]
  /\ timerfd_ \in Nat \cup {Disarmed}
  /\ funcQueue \in Seq(Timer)
  /\ pc \in {"loop", "polled", "handleRead"}
  /\ now \in Time
  /\ expiredList \subseteq Entry
  /\ ran \subseteq expiredList

\* Whenever the loop is outside handleRead and a timer waits, the timerfd is
\* readable or will be by the time the earliest timer is due, whoever added,
\* repeated or ran which timers in between, and though the clock was set back.
\* If it was set forward, timers are late by that much and no more.
ArmedForEarliest ==
  pc # "handleRead" => \A e \in timers_ : timerfd_ \in 0 .. Armed(e[1]) + lead

\* The entries and functors that hold the timer t.
Entries(t)  == {e \in timers_ \cup expiredList : e[2] = t}
Functors(t) == {i \in DOMAIN funcQueue : funcQueue[i] = t}

\* A timer is in one place at a time, under its own expiration: queued to be
\* added, waiting, or taken by handleRead.  A repeated one is always in one.
OnePlacePerTimer ==
  /\ TypeOK
  /\ \A t \in Timer :
       LET places == Cardinality(Entries(t)) + Cardinality(Functors(t))
       IN /\ places <= 1
          /\ interval_[t] > 0 => places = 1
  /\ \A e \in timers_ \cup expiredList : e[1] = expiration_[e[2]]

Waiting(t) == Constructed(t) /\ Entries(t) \cup Functors(t) # {}

\* A timer that was added and whose time comes is run.
EveryTimerRuns ==
  \A t \in Timer :
    Waiting(t) /\ expiration_[t] <= MaxTime ~> \E e \in ran : e[2] = t

\* handleRead does not read the timerfd.  As long as a timer waits, arming it
\* again does as well: the loop does not spin until the timer is due.
TimerfdIsNotLeftReadable == []<>(timerfd_ # 0 \/ timers_ = {})
=============================================================================
