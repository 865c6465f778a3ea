------------------------- MODULE TimerQueueProofs -------------------------
(***************************************************************************)
(* Proofs about TimerQueue, for any timers, intervals and length of time.   *)
(***************************************************************************)
EXTENDS TimerQueue, WellFoundedInduction, FiniteSetTheorems, TLAPS

\* An invalid time does not arm the timerfd in reset; adding it has.
InvalidIsArmed ==
  pc = "handleRead" =>
    \A e \in timers_ : e[1] = Invalid => timerfd_ \in {0, 1}

IdleHasNoExpired == pc # "handleRead" => expiredList = {}

\* Until it is set, the clock has no lead.
LeadIsOfSetting == ~clockSet => lead = 0

\* The timer t has an entry.
HasEntry(t) == \E e \in timers_ \cup expiredList : e[2] = t

Queued(q, t) == \E i \in DOMAIN q : q[i] = t

\* A timer is queued once.
Distinct(q) == \A i, j \in DOMAIN q : q[i] = q[j] => i = j

EntriesAreCurrent ==
  \A e \in timers_ \cup expiredList : e[1] = expiration_[e[2]]

TakenIsNotWaiting ==
  \A e \in timers_, f \in expiredList : e[2] # f[2]

\* Where a timer can be.
Places ==
  \A t \in Timer :
    /\ ~(HasEntry(t) /\ Queued(funcQueue, t))
    /\ HasEntry(t) \/ Queued(funcQueue, t)
         => Constructed(t) /\ expiration_[t] \in Nat
    /\ interval_[t] > 0 => HasEntry(t) \/ Queued(funcQueue, t)

Inv == /\ TypeOK /\ ArmedForEarliest /\ InvalidIsArmed /\ LeadIsOfSetting
       /\ IdleHasNoExpired /\ EntriesAreCurrent /\ TakenIsNotWaiting
       /\ Distinct(funcQueue) /\ Places

-----------------------------------------------------------------------------
(* The earliest entry, and sequences.                                       *)

LEMMA LeastNatural ==
  ASSUME NEW T, T \subseteq Nat, T # {}
  PROVE  \E x \in T : \A y \in T : x <= y
<1> DEFINE R == OpToRel(<, Nat)
<1>1. IsWellFoundedOn(R, Nat)
  BY NatLessThanWellFounded
<1>2. \A x, y \in Nat : << y, x >> \in R <=> y < x
  BY DEF OpToRel
<1> HIDE DEF R
<1>3. PICK x \in T : \A y \in T : ~(<< y, x >> \in R)
  BY <1>1, WFMin
<1>4. ASSUME NEW y \in T
      PROVE  x <= y
  <2>1. x \in Nat /\ y \in Nat /\ ~(<< y, x >> \in R)
    BY <1>3
  <2>2. ~(y < x)
    BY <1>2, <2>1
  <2> QED
    BY <2>1, <2>2
<1> QED
  BY <1>4

LEMMA EarliestExists ==
  ASSUME NEW S, S \subseteq Entry, S # {}
  PROVE  \E e \in S : \A f \in S : e[1] <= f[1]
<1> DEFINE T == {e[1] : e \in S}
<1>1. T \subseteq Nat /\ T # {}
  BY DEF Entry
<1>2. PICK x \in T : \A y \in T : x <= y
  BY <1>1, LeastNatural
<1>3. PICK e \in S : e[1] = x
  BY <1>2
<1> QED
  BY <1>2, <1>3

LEMMA QueuedAppend ==
  ASSUME NEW q \in Seq(Timer), NEW t \in Timer, ~Queued(q, t), Distinct(q)
  PROVE  /\ Append(q, t) \in Seq(Timer) /\ Distinct(Append(q, t))
         /\ \A u \in Timer : Queued(Append(q, t), u) <=> Queued(q, u) \/ u = t
<1>1. /\ Append(q, t) \in Seq(Timer) /\ Len(q) \in Nat
      /\ DOMAIN q = 1 .. Len(q) /\ DOMAIN Append(q, t) = 1 .. Len(q) + 1
      /\ Append(q, t)[Len(q) + 1] = t
      /\ \A i \in 1 .. Len(q) : Append(q, t)[i] = q[i]
  OBVIOUS
<1>2. \A i \in 1 .. Len(q) + 1 : i \in 1 .. Len(q) \/ i = Len(q) + 1
  BY <1>1
<1>3. \A i \in 1 .. Len(q) : q[i] # t
  BY <1>1 DEF Queued
<1>4. Distinct(Append(q, t))
  BY <1>1, <1>2, <1>3 DEF Distinct
<1>5. ASSUME NEW u \in Timer
      PROVE  Queued(Append(q, t), u) <=> Queued(q, u) \/ u = t
  BY <1>1, <1>2 DEF Queued
<1> QED
  BY <1>1, <1>4, <1>5

LEMMA QueuedTail ==
  ASSUME NEW q \in Seq(Timer), q # << >>, Distinct(q)
  PROVE  /\ Tail(q) \in Seq(Timer) /\ Head(q) \in Timer /\ Distinct(Tail(q))
         /\ Queued(q, Head(q))
         /\ \A u \in Timer : Queued(Tail(q), u) <=> Queued(q, u) /\ u # Head(q)
<1>1. /\ Tail(q) \in Seq(Timer) /\ Len(Tail(q)) = Len(q) - 1 /\ Len(q) \in Nat
      /\ DOMAIN q = 1 .. Len(q) /\ DOMAIN Tail(q) = 1 .. Len(q) - 1
      /\ Head(q) = q[1] /\ Len(q) > 0 /\ Head(q) \in Timer
      /\ \A i \in 1 .. Len(q) - 1 : Tail(q)[i] = q[i + 1]
  OBVIOUS
<1>2. \A i \in 1 .. Len(q) - 1 : i + 1 \in 1 .. Len(q) /\ i + 1 # 1
  BY <1>1
<1>3. Distinct(Tail(q))
  <2> SUFFICES ASSUME NEW i \in 1 .. Len(q) - 1, NEW j \in 1 .. Len(q) - 1,
                      Tail(q)[i] = Tail(q)[j]
               PROVE  i = j
    BY <1>1 DEF Distinct
  <2>1. i + 1 = j + 1
    BY <1>1, <1>2 DEF Distinct
  <2> QED
    BY <2>1
<1>4. ASSUME NEW u \in Timer
      PROVE  Queued(Tail(q), u) <=> Queued(q, u) /\ u # Head(q)
  <2>1. ASSUME NEW i \in 1 .. Len(q) - 1, Tail(q)[i] = u
        PROVE  Queued(q, u) /\ u # Head(q)
    <3>1. i + 1 \in 1 .. Len(q) /\ q[i + 1] = u /\ i + 1 # 1 /\ 1 \in 1 .. Len(q)
      BY <1>1, <1>2, <2>1
    <3> QED
      BY <1>1, <3>1 DEF Queued, Distinct
  <2>2. ASSUME NEW i \in 1 .. Len(q), q[i] = u, u # Head(q)
        PROVE  Queued(Tail(q), u)
    <3>1. i - 1 \in 1 .. Len(q) - 1 /\ Tail(q)[i - 1] = u
      BY <1>1, <2>2
    <3> QED
      BY <1>1, <3>1 DEF Queued
  <2> QED
    BY <1>1, <2>1, <2>2 DEF Queued
<1>5. Queued(q, Head(q))
  BY <1>1 DEF Queued
<1> QED
  BY <1>1, <1>3, <1>4, <1>5

-----------------------------------------------------------------------------
(* Arming.                                                                  *)

LEMMA ArmedIsLater ==
  ASSUME clock \in Nat, NEW d \in Nat, NEW e \in Nat, d <= e
  PROVE  /\ Armed(d) \in Nat \ {0} /\ Armed(e) \in Nat \ {0}
         /\ Armed(d) <= Armed(e)
BY DEF Armed

\* Inserting a timer keeps the timerfd armed for the earliest, in handleRead too.
LEMMA InsertionArms ==
  ASSUME TypeOK, ArmedForEarliest, InvalidIsArmed, NEW t \in Timer, NEW when \in Nat,
         AddTimerInLoop(t, when), clock' = clock, lead' = lead, pc' = pc
  PROVE  /\ timers_' \subseteq Entry /\ timerfd_' \in Nat \cup {Disarmed}
         /\ ArmedForEarliest' /\ InvalidIsArmed'
<1>1. /\ clock \in Nat \ {0} /\ lead \in Nat /\ timers_ \subseteq Entry
      /\ timerfd_ \in Nat \cup {Disarmed}
  BY TimeAssumption DEF TypeOK
<1>2. /\ timers_' = timers_ \cup {<< when, t >>}
      /\ timerfd_' = IF IsEarliest(when) THEN Armed(when) ELSE timerfd_
      /\ \A d : Armed(d)' = Armed(d)
  BY DEF AddTimerInLoop, Armed
<1>3. << when, t >> \in Entry /\ \A e \in timers_ : e[1] \in Nat
  BY <1>1 DEF Entry
<1>4. Armed(when) \in Nat \ {0}
  BY <1>1, ArmedIsLater
<1>5. timers_' \subseteq Entry /\ timerfd_' \in Nat \cup {Disarmed}
  BY <1>1, <1>2, <1>3, <1>4
<1>6. CASE IsEarliest(when)
  <2>1. timerfd_' = Armed(when) /\ \A e \in timers_ : when < e[1]
    BY <1>2, <1>6 DEF IsEarliest
  <2>2. \A e \in timers_ : Armed(when) <= Armed(e[1]) /\ Armed(e[1]) \in Nat
    BY <1>1, <1>3, <2>1, ArmedIsLater
  <2>3. ArmedForEarliest'
    BY <1>1, <1>2, <1>4, <2>1, <2>2 DEF ArmedForEarliest
  <2>4. InvalidIsArmed'
    <3>1. when = Invalid => Armed(when) = 1
      BY <1>1 DEF Armed, Invalid
    <3>2. \A e \in timers_ : e[1] # Invalid
      BY <1>3, <2>1 DEF Invalid
    <3> QED
      BY <1>2, <2>1, <3>1, <3>2 DEF InvalidIsArmed
  <2> QED
    BY <1>5, <2>3, <2>4
<1>7. CASE ~IsEarliest(when)
  <2>1. PICK e \in timers_ : e[1] <= when
    BY <1>3, <1>7 DEF IsEarliest
  <2>2. timerfd_' = timerfd_ /\ e[1] \in Nat
    BY <1>2, <1>3, <1>7
  <2>3. Armed(e[1]) <= Armed(when) /\ Armed(e[1]) \in Nat
    BY <1>1, <2>1, <2>2, ArmedIsLater
  <2>4. ArmedForEarliest'
    BY <1>1, <1>2, <1>4, <2>2, <2>3 DEF ArmedForEarliest
  <2>5. InvalidIsArmed'
    <3>1. when = Invalid => e[1] = Invalid
      BY <2>1, <2>2 DEF Invalid
    <3> QED
      BY <1>2, <2>2, <3>1 DEF InvalidIsArmed
  <2> QED
    BY <1>5, <2>4, <2>5
<1> QED
  BY <1>6, <1>7

-----------------------------------------------------------------------------
(* Adding timers.                                                           *)

LEMMA RequestsAreTimes ==
  ASSUME TypeOK, NEW request \in RunAt \cup RunEvery
  PROVE  /\ request[1] \in Nat
         /\ request[2] \in Interval \cup {0} /\ request[2] \in Nat
<1>1. clock \in Nat /\ Time \subseteq Nat /\ Interval \subseteq Nat
  BY TimeAssumption DEF TypeOK, Time
<1>2. CASE request \in RunAt
  <2>1. request[1] \in Time /\ request[2] = 0
    BY <1>2 DEF RunAt
  <2>2. request[1] \in Nat
    BY <1>1, <2>1
  <2>3. request[2] \in Nat /\ request[2] \in {0}
    BY <2>1
  <2> QED
    BY <2>2, <2>3
<1>3. CASE request \in RunEvery
  BY <1>1, <1>3 DEF RunEvery
<1> QED
  BY <1>2, <1>3

LEMMA InsertedEntry ==
  ASSUME NEW t, NEW when, timers_' = timers_ \cup {<< when, t >>},
         expiredList' = expiredList, NEW u
  PROVE  HasEntry(u)' <=> HasEntry(u) \/ u = t
<1>1. HasEntry(u)' <=> \E e \in timers_ \cup {<< when, t >>} \cup expiredList :
                         e[2] = u
  BY DEF HasEntry
<1>2. << when, t >>[2] = t
  OBVIOUS
<1> QED
  BY <1>1, <1>2 DEF HasEntry

\* A timer that is constructed is in no place yet.
LEMMA ConstructKeeps ==
  ASSUME Inv, NEW t \in Timer, NEW when \in Nat, NEW interval \in Interval \cup {0},
         interval \in Nat, Construct(t, when, interval)
  PROVE  /\ expiration_' \in [Timer -> Nat \cup {-1}]
         /\ interval_' \in [Timer -> Interval \cup {0, -1}]
         /\ expiration_'[t] = when /\ interval_'[t] = interval
         /\ \A u \in Timer \ {t} : /\ expiration_'[u] = expiration_[u]
                                   /\ interval_'[u] = interval_[u]
         /\ ~HasEntry(t) /\ ~Queued(funcQueue, t)
         /\ Constructed(t)'
<1>1. /\ expiration_ \in [Timer -> Nat \cup {-1}]
      /\ interval_ \in [Timer -> Interval \cup {0, -1}]
      /\ ~Constructed(t)
      /\ ~HasEntry(t) /\ ~Queued(funcQueue, t)
  BY DEF Inv, TypeOK, Places, Construct
<1>2. /\ expiration_' = [expiration_ EXCEPT ![t] = when]
      /\ interval_' = [interval_ EXCEPT ![t] = interval]
  BY DEF Construct
<1> QED
  BY <1>1, <1>2 DEF Constructed

LEMMA AddTimerInv ==
  ASSUME Inv, NEW t \in Timer, NEW when \in Nat, NEW interval \in Interval \cup {0},
         interval \in Nat, AddTimer(t, when, interval)
  PROVE  Inv'
<1>1. /\ expiration_' \in [Timer -> Nat \cup {-1}]
      /\ interval_' \in [Timer -> Interval \cup {0, -1}]
      /\ expiration_'[t] = when /\ interval_'[t] = interval
      /\ \A u \in Timer \ {t} : /\ expiration_'[u] = expiration_[u]
                                /\ interval_'[u] = interval_[u]
      /\ ~HasEntry(t) /\ ~Queued(funcQueue, t)
      /\ Constructed(t)'
  BY ConstructKeeps DEF AddTimer
<1>2. /\ UNCHANGED << clock, clockSet, lead, funcQueue, pc, now, expiredList,
                      ran >>
      /\ AddTimerInLoop(t, when) /\ timers_' = timers_ \cup {<< when, t >>}
  BY DEF AddTimer, AddTimerInLoop
<1>3. /\ timers_' \subseteq Entry /\ timerfd_' \in Nat \cup {Disarmed}
      /\ ArmedForEarliest' /\ InvalidIsArmed'
  BY <1>2, InsertionArms DEF Inv
<1>4. TypeOK'
  BY <1>1, <1>2, <1>3 DEF Inv, TypeOK
<1>5. IdleHasNoExpired' /\ Distinct(funcQueue') /\ LeadIsOfSetting'
  BY <1>2 DEF Inv, IdleHasNoExpired, Distinct, LeadIsOfSetting
<1>6. \A e \in timers_ \cup expiredList : e[2] \in Timer \ {t}
  BY <1>1 DEF Inv, TypeOK, Entry, HasEntry
<1>7. EntriesAreCurrent' /\ TakenIsNotWaiting'
  BY <1>1, <1>2, <1>6 DEF Inv, EntriesAreCurrent, TakenIsNotWaiting
<1>8. Places'
  <2> SUFFICES ASSUME NEW u \in Timer
               PROVE  /\ ~(HasEntry(u)' /\ Queued(funcQueue', u))
                      /\ HasEntry(u)' \/ Queued(funcQueue', u)
                           => Constructed(u)' /\ expiration_'[u] \in Nat
                      /\ interval_'[u] > 0 => HasEntry(u)' \/ Queued(funcQueue', u)
    BY DEF Places
  <2>1. HasEntry(u)' <=> HasEntry(u) \/ u = t
    BY <1>2, InsertedEntry
  <2>2. Queued(funcQueue', u) <=> Queued(funcQueue, u)
    BY <1>2
  <2>3. CASE u = t
    BY <1>1, <2>1, <2>2, <2>3
  <2>4. CASE u # t
    BY <1>1, <2>1, <2>2, <2>4 DEF Inv, Places, Constructed
  <2> QED
    BY <2>3, <2>4
<1> QED
  BY <1>3, <1>4, <1>5, <1>7, <1>8 DEF Inv

LEMMA AddTimerFromThreadInv ==
  ASSUME Inv, NEW t \in Timer, NEW when \in Nat, NEW interval \in Interval \cup {0},
         interval \in Nat, AddTimerFromThread(t, when, interval)
  PROVE  Inv'
<1>1. /\ expiration_' \in [Timer -> Nat \cup {-1}]
      /\ interval_' \in [Timer -> Interval \cup {0, -1}]
      /\ expiration_'[t] = when /\ interval_'[t] = interval
      /\ \A u \in Timer \ {t} : /\ expiration_'[u] = expiration_[u]
                                /\ interval_'[u] = interval_[u]
      /\ ~HasEntry(t) /\ ~Queued(funcQueue, t)
      /\ Constructed(t)'
  BY ConstructKeeps DEF AddTimerFromThread
<1>2. /\ UNCHANGED << clock, clockSet, lead, timers_, timerfd_, pc, now,
                      expiredList, ran >>
      /\ funcQueue' = Append(funcQueue, t)
  BY DEF AddTimerFromThread
<1>3. /\ funcQueue' \in Seq(Timer) /\ Distinct(funcQueue')
      /\ \A u \in Timer : Queued(funcQueue', u) <=> Queued(funcQueue, u) \/ u = t
  BY <1>1, <1>2, QueuedAppend DEF Inv, TypeOK
<1>4. TypeOK'
  BY <1>1, <1>2, <1>3 DEF Inv, TypeOK
<1>5. /\ ArmedForEarliest' /\ InvalidIsArmed' /\ IdleHasNoExpired'
      /\ LeadIsOfSetting'
  BY <1>2 DEF Inv, ArmedForEarliest, InvalidIsArmed, IdleHasNoExpired,
              LeadIsOfSetting, Armed
<1>6. \A e \in timers_ \cup expiredList : e[2] \in Timer \ {t}
  BY <1>1 DEF Inv, TypeOK, Entry, HasEntry
<1>7. EntriesAreCurrent' /\ TakenIsNotWaiting'
  BY <1>1, <1>2, <1>6 DEF Inv, EntriesAreCurrent, TakenIsNotWaiting
<1>8. Places'
  <2> SUFFICES ASSUME NEW u \in Timer
               PROVE  /\ ~(HasEntry(u)' /\ Queued(funcQueue', u))
                      /\ HasEntry(u)' \/ Queued(funcQueue', u)
                           => Constructed(u)' /\ expiration_'[u] \in Nat
                      /\ interval_'[u] > 0 => HasEntry(u)' \/ Queued(funcQueue', u)
    BY DEF Places
  <2>1. HasEntry(u)' <=> HasEntry(u)
    BY <1>2 DEF HasEntry
  <2>2. Queued(funcQueue', u) <=> Queued(funcQueue, u) \/ u = t
    BY <1>3
  <2>3. CASE u = t
    BY <1>1, <2>1, <2>2, <2>3
  <2>4. CASE u # t
    BY <1>1, <2>1, <2>2, <2>4 DEF Inv, Places, Constructed
  <2> QED
    BY <2>3, <2>4
<1> QED
  BY <1>4, <1>5, <1>3, <1>7, <1>8 DEF Inv

LEMMA RunFunctorInv ==
  ASSUME Inv, RunFunctor
  PROVE  Inv'
<1> DEFINE t == Head(funcQueue)
<1>1. /\ UNCHANGED << clock, clockSet, lead, expiration_, interval_, pc, now,
                      expiredList, ran >>
      /\ funcQueue # << >> /\ funcQueue' = Tail(funcQueue)
      /\ AddTimerInLoop(t, expiration_[t])
      /\ timers_' = timers_ \cup {<< expiration_[t], t >>}
  BY DEF RunFunctor, AddTimerInLoop
<1>2. /\ funcQueue' \in Seq(Timer) /\ t \in Timer /\ Distinct(funcQueue')
      /\ Queued(funcQueue, t)
      /\ \A u \in Timer : Queued(funcQueue', u) <=> Queued(funcQueue, u) /\ u # t
  BY <1>1, QueuedTail DEF Inv, TypeOK
<1> HIDE DEF t
<1>3. expiration_[t] \in Nat /\ ~HasEntry(t) /\ Constructed(t)
  BY <1>2 DEF Inv, Places
<1>4. /\ timers_' \subseteq Entry /\ timerfd_' \in Nat \cup {Disarmed}
      /\ ArmedForEarliest' /\ InvalidIsArmed'
  <2>1. \A when \in Nat : AddTimerInLoop(t, when) =>
          /\ timers_' \subseteq Entry /\ timerfd_' \in Nat \cup {Disarmed}
          /\ ArmedForEarliest' /\ InvalidIsArmed'
    BY <1>1, <1>2, InsertionArms DEF Inv
  <2> QED
    BY <1>1, <1>3, <2>1
<1>5. TypeOK'
  BY <1>1, <1>2, <1>4 DEF Inv, TypeOK
<1>6. IdleHasNoExpired' /\ LeadIsOfSetting'
  BY <1>1 DEF Inv, IdleHasNoExpired, LeadIsOfSetting
<1>7. EntriesAreCurrent' /\ TakenIsNotWaiting'
  BY <1>1, <1>3 DEF Inv, EntriesAreCurrent, TakenIsNotWaiting, HasEntry
<1>8. Places'
  <2> SUFFICES ASSUME NEW u \in Timer
               PROVE  /\ ~(HasEntry(u)' /\ Queued(funcQueue', u))
                      /\ HasEntry(u)' \/ Queued(funcQueue', u)
                           => Constructed(u)' /\ expiration_'[u] \in Nat
                      /\ interval_'[u] > 0 => HasEntry(u)' \/ Queued(funcQueue', u)
    BY DEF Places
  <2>1. HasEntry(u)' <=> HasEntry(u) \/ u = t
    BY <1>1, InsertedEntry
  <2>2. Queued(funcQueue', u) <=> Queued(funcQueue, u) /\ u # t
    BY <1>2
  <2>3. expiration_' = expiration_ /\ interval_' = interval_
        /\ (Constructed(u)' <=> Constructed(u))
    BY <1>1 DEF Constructed
  <2> QED
    BY <1>3, <2>1, <2>2, <2>3 DEF Inv, Places
<1> QED
  BY <1>2, <1>4, <1>5, <1>6, <1>7, <1>8 DEF Inv

-----------------------------------------------------------------------------
(* TimerQueue::handleRead.                                                  *)

LEMMA PollInv ==
  ASSUME Inv, Poll
  PROVE  Inv'
<1>1. /\ UNCHANGED << clock, clockSet, lead, timers_, expiration_, interval_,
                      timerfd_, funcQueue, now, expiredList, ran >>
      /\ pc = "loop" /\ pc' = "polled"
  BY DEF Poll
<1>2. TypeOK'
  BY <1>1 DEF Inv, TypeOK
<1> QED
  BY <1>1, <1>2
     DEF Inv, ArmedForEarliest, InvalidIsArmed, LeadIsOfSetting,
         IdleHasNoExpired, EntriesAreCurrent, TakenIsNotWaiting, Places,
         HasEntry, Constructed, Armed

LEMMA HandleReadInv ==
  ASSUME Inv, HandleRead
  PROVE  Inv'
<1>1. /\ UNCHANGED << clock, clockSet, lead, expiration_, interval_, timerfd_,
                      funcQueue >>
      /\ pc = "polled" /\ pc' = "handleRead" /\ now' = clock /\ ran' = {}
      /\ expiredList' = {e \in timers_ : e[1] <= clock}
      /\ timers_' = timers_ \ expiredList'
  BY DEF HandleRead
<1>2. expiredList = {}
  BY <1>1 DEF Inv, IdleHasNoExpired
<1>3. /\ clock \in Nat \ {0} /\ clock \in Time /\ timers_ \subseteq Entry
      /\ \A e \in timers_ : e[1] = expiration_[e[2]]
  BY TimeAssumption DEF Inv, TypeOK, Time, EntriesAreCurrent
<1>4. timers_' \cup expiredList' = timers_ \cup expiredList
  BY <1>1, <1>2
<1>5. TypeOK'
  <2>1. timers_' \subseteq Entry /\ expiredList' \subseteq Entry
    BY <1>1, <1>3
  <2> QED
    BY <1>1, <1>3, <2>1 DEF Inv, TypeOK
<1>6. ArmedForEarliest' /\ IdleHasNoExpired' /\ LeadIsOfSetting'
  BY <1>1 DEF Inv, ArmedForEarliest, IdleHasNoExpired, LeadIsOfSetting
<1>7. InvalidIsArmed'
  BY <1>1, <1>3 DEF InvalidIsArmed, Invalid
<1>8. EntriesAreCurrent'
  BY <1>1, <1>4 DEF Inv, EntriesAreCurrent
<1>9. TakenIsNotWaiting'
  <2> SUFFICES ASSUME NEW e \in timers_', NEW f \in expiredList', e[2] = f[2]
               PROVE  FALSE
    BY DEF TakenIsNotWaiting
  <2>1. e \in timers_ /\ f \in timers_ /\ e \notin expiredList' /\ f[1] <= clock
    BY <1>1
  <2>2. e[1] = f[1]
    BY <1>3, <2>1
  <2> QED
    BY <1>1, <2>1, <2>2
<1>10. Distinct(funcQueue') /\ Places'
  <2>1. \A t : HasEntry(t)' <=> HasEntry(t)
    BY <1>4 DEF HasEntry
  <2> QED
    BY <1>1, <2>1 DEF Inv, Places, Constructed
<1> QED
  BY <1>5, <1>6, <1>7, <1>8, <1>9, <1>10 DEF Inv

\* What Restart and insert make of the timers that handleRead took.
LEMMA RepeatedTimers ==
  ASSUME Inv
  PROVE  /\ Repeated \subseteq Timer
         /\ \A t \in Repeated : /\ Restart(t) \in Nat \ {0} /\ interval_[t] > 0
                                /\ HasEntry(t)
                                /\ \A e \in timers_ : e[2] # t
         /\ \A e \in RepeatedEntries : /\ e \in Entry /\ e[2] \in Repeated
                                       /\ e[1] = Restart(e[2])
         /\ \A t \in Repeated : \E e \in RepeatedEntries : e[2] = t
<1>1. /\ expiredList \subseteq Entry /\ now \in Nat
      /\ interval_ \in [Timer -> Interval \cup {0, -1}]
      /\ Interval \subseteq Nat \ {0}
  BY TimeAssumption DEF Inv, TypeOK, Time
<1>2. ASSUME NEW t \in Repeated
      PROVE  /\ t \in Timer /\ Restart(t) \in Nat \ {0} /\ interval_[t] > 0
             /\ HasEntry(t) /\ \A e \in timers_ : e[2] # t
  <2>1. PICK f \in expiredList : f[2] = t /\ interval_[f[2]] > 0
    BY <1>2 DEF Repeated
  <2>2. t \in Timer
    BY <1>1, <2>1 DEF Entry
  <2>3. interval_[t] \in Nat \ {0}
    <3>1. interval_[t] \in Interval \cup {0, -1} /\ interval_[t] > 0
      BY <1>1, <2>1, <2>2
    <3>2. interval_[t] \in Interval
      BY <3>1
    <3> QED
      BY <1>1, <3>2
  <2>4. Restart(t) \in Nat \ {0}
    BY <1>1, <2>3 DEF Restart
  <2> QED
    BY <2>1, <2>2, <2>3, <2>4 DEF HasEntry, Inv, TakenIsNotWaiting
<1>3. ASSUME NEW e \in RepeatedEntries
      PROVE  e \in Entry /\ e[2] \in Repeated /\ e[1] = Restart(e[2])
  <2>1. PICK t \in Repeated : e = << Restart(t), t >>
    BY <1>3 DEF RepeatedEntries
  <2> QED
    BY <1>2, <2>1 DEF Entry
<1>4. ASSUME NEW t \in Repeated
      PROVE  \E e \in RepeatedEntries : e[2] = t
  <2>1. << Restart(t), t >> \in RepeatedEntries /\ << Restart(t), t >>[2] = t
    BY DEF RepeatedEntries
  <2> QED
    BY <2>1
<1> QED
  BY <1>2, <1>3, <1>4

\* reset arms the timerfd for the earliest timer, or it was armed for one whose
\* time is invalid.
LEMMA ResetArms ==
  ASSUME Inv, Reset
  PROVE  /\ timers_' \subseteq Entry /\ timerfd_' \in Nat \cup {Disarmed}
         /\ ArmedForEarliest'
<1>1. /\ timers_' = timers_ \cup RepeatedEntries
      /\ timerfd_' = Rearmed(timers_')
      /\ pc = "handleRead" /\ clock' = clock /\ lead' = lead
  BY DEF Reset
<1>2. /\ timers_ \subseteq Entry /\ timerfd_ \in Nat \cup {Disarmed}
      /\ clock \in Nat \ {0} /\ lead \in Nat /\ InvalidIsArmed
  BY TimeAssumption DEF Inv, TypeOK
<1>3. timers_' \subseteq Entry
  BY <1>1, <1>2, RepeatedTimers
<1>4. \A e \in timers_' : e[1] \in Nat /\ (e[1] = Invalid => e \in timers_)
  BY <1>1, <1>3, RepeatedTimers DEF Entry, Invalid
<1>5. \A d : Armed(d)' = Armed(d)
  BY <1>1 DEF Armed
<1>6. CASE timers_' = {}
  BY <1>1, <1>2, <1>3, <1>6 DEF Rearmed, ArmedForEarliest
<1>7. CASE timers_' # {}
  <2> DEFINE earliest == CHOOSE e \in timers_' : \A f \in timers_' : e[1] <= f[1]
  <2>1. earliest \in timers_' /\ \A f \in timers_' : earliest[1] <= f[1]
    BY <1>3, <1>7, EarliestExists
  <2>2. timerfd_' = IF earliest[1] <= Invalid THEN timerfd_ ELSE Armed(earliest[1])
    BY <1>1, <1>7 DEF Rearmed
  <2> HIDE DEF earliest
  <2>3. earliest[1] \in Nat
    BY <1>4, <2>1
  <2>4. \A f \in timers_' : /\ Armed(earliest[1]) <= Armed(f[1])
                            /\ Armed(f[1]) \in Nat \ {0}
                            /\ Armed(earliest[1]) \in Nat \ {0}
    BY <1>2, <1>4, <2>1, <2>3, ArmedIsLater
  <2>5. CASE earliest[1] <= Invalid
    <3>1. earliest[1] = Invalid
      BY <2>3, <2>5 DEF Invalid
    <3>2. timerfd_' \in {0, 1}
      BY <1>1, <1>2, <1>4, <2>1, <2>2, <2>5, <3>1 DEF InvalidIsArmed
    <3>3. ArmedForEarliest'
      BY <1>1, <1>2, <1>5, <2>4, <3>2 DEF ArmedForEarliest
    <3> QED
      BY <1>3, <3>2, <3>3
  <2>6. CASE ~(earliest[1] <= Invalid)
    <3>1. timerfd_' = Armed(earliest[1])
      BY <2>2, <2>6
    <3>2. timerfd_' \in Nat
      BY <2>1, <2>4, <3>1
    <3>3. ArmedForEarliest'
      BY <1>1, <1>2, <1>5, <2>4, <3>1, <3>2 DEF ArmedForEarliest
    <3> QED
      BY <1>3, <3>2, <3>3
  <2> QED
    BY <2>5, <2>6
<1> QED
  BY <1>6, <1>7

LEMMA ResetInv ==
  ASSUME Inv, Reset
  PROVE  Inv'
<1>1. /\ UNCHANGED << clock, clockSet, lead, interval_, funcQueue >>
      /\ timers_' = timers_ \cup RepeatedEntries
      /\ expiration_' = [t \in Timer |-> IF t \in Repeated THEN Restart(t)
                                                           ELSE expiration_[t]]
      /\ pc' = "loop" /\ now' = Invalid /\ expiredList' = {} /\ ran' = {}
  BY DEF Reset
<1>2. /\ timers_' \subseteq Entry /\ timerfd_' \in Nat \cup {Disarmed}
      /\ ArmedForEarliest'
  BY ResetArms
<1>3. /\ expiration_ \in [Timer -> Nat \cup {-1}] /\ timers_ \subseteq Entry
      /\ expiredList \subseteq Entry
      /\ interval_ \in [Timer -> Interval \cup {0, -1}]
      /\ EntriesAreCurrent /\ Places
  BY DEF Inv, TypeOK
<1>4. expiration_' \in [Timer -> Nat \cup {-1}]
  BY <1>1, <1>3, RepeatedTimers
<1>5. TypeOK'
  <2>1. now' \in Time
    BY <1>1, TimeAssumption DEF Invalid, Time
  <2> QED
    BY <1>1, <1>2, <1>4, <2>1 DEF Inv, TypeOK
<1>6. InvalidIsArmed' /\ IdleHasNoExpired' /\ TakenIsNotWaiting'
      /\ Distinct(funcQueue') /\ LeadIsOfSetting'
  BY <1>1 DEF Inv, InvalidIsArmed, IdleHasNoExpired, TakenIsNotWaiting,
              LeadIsOfSetting
<1>7. EntriesAreCurrent'
  <2> SUFFICES ASSUME NEW e \in timers_'
               PROVE  e[1] = expiration_'[e[2]]
    BY <1>1 DEF EntriesAreCurrent
  <2>1. CASE e \in RepeatedEntries
    BY <1>1, <2>1, RepeatedTimers
  <2>2. CASE e \in timers_
    <3>1. e[2] \in Timer /\ e[2] \notin Repeated /\ e[1] = expiration_[e[2]]
      BY <1>3, <2>2, RepeatedTimers DEF Entry, EntriesAreCurrent
    <3> QED
      BY <1>1, <3>1
  <2> QED
    BY <1>1, <2>1, <2>2
<1>8. Places'
  <2> SUFFICES ASSUME NEW t \in Timer
               PROVE  /\ ~(HasEntry(t)' /\ Queued(funcQueue', t))
                      /\ HasEntry(t)' \/ Queued(funcQueue', t)
                           => Constructed(t)' /\ expiration_'[t] \in Nat
                      /\ interval_'[t] > 0 => HasEntry(t)' \/ Queued(funcQueue', t)
    BY DEF Places
  <2>1. /\ HasEntry(t)' => HasEntry(t)
        /\ HasEntry(t) /\ interval_[t] > 0 => HasEntry(t)'
    <3>1. HasEntry(t)' <=> \E e \in timers_ \cup RepeatedEntries : e[2] = t
      BY <1>1 DEF HasEntry
    <3>2. HasEntry(t)' => HasEntry(t)
      BY <3>1, RepeatedTimers DEF HasEntry
    <3>3. ASSUME HasEntry(t), interval_[t] > 0
          PROVE  HasEntry(t)'
      <4>1. PICK e \in timers_ \cup expiredList : e[2] = t
        BY <3>3 DEF HasEntry
      <4>2. CASE e \in timers_
        BY <3>1, <4>1, <4>2
      <4>3. CASE e \in expiredList
        <5>1. t \in Repeated
          BY <3>3, <4>1, <4>3 DEF Repeated
        <5> QED
          BY <3>1, <5>1, RepeatedTimers
      <4> QED
        BY <4>2, <4>3
    <3> QED
      BY <3>2, <3>3
  <2>2. funcQueue' = funcQueue /\ interval_' = interval_
        /\ (Constructed(t)' <=> Constructed(t))
    BY <1>1 DEF Constructed
  <2>3. expiration_[t] \in Nat => expiration_'[t] \in Nat
    BY <1>1, RepeatedTimers
  <2> QED
    BY <1>3, <2>1, <2>2, <2>3 DEF Places
<1> QED
  BY <1>2, <1>5, <1>6, <1>7, <1>8 DEF Inv

LEMMA RunInv ==
  ASSUME Inv, NEW e \in expiredList, Run(e)
  PROVE  Inv'
<1>1. /\ UNCHANGED << clock, clockSet, lead, timers_, expiration_, interval_,
                      timerfd_, funcQueue, pc, now, expiredList >>
      /\ ran' = ran \cup {e}
  BY DEF Run
<1>2. TypeOK'
  BY <1>1 DEF Inv, TypeOK
<1> QED
  BY <1>1, <1>2
     DEF Inv, ArmedForEarliest, InvalidIsArmed, IdleHasNoExpired,
         LeadIsOfSetting, EntriesAreCurrent, TakenIsNotWaiting, Places,
         HasEntry, Constructed, Armed

-----------------------------------------------------------------------------
(* Time.                                                                    *)

\* The delay for a time e at the time c.
DelayAt(e, c) == IF e - c < 1 THEN 1 ELSE e - c

\* How far d is ahead of c.
Ahead(c, d) == IF d > c THEN d - c ELSE 0

\* The timerfd's count goes down with the time ...
LEMMA CountedDown ==
  ASSUME NEW c \in Nat, NEW e \in Nat, NEW l \in Nat, NEW d \in {c, c + 1},
         NEW f \in 0 .. DelayAt(e, c) + l
  PROVE  (IF f > 0 THEN f - 1 ELSE f) \in 0 .. DelayAt(e, d) + l
BY DEF DelayAt

\* ... and lags behind a clock that is set forward.
LEMMA LaggingBehind ==
  ASSUME NEW c \in Nat, NEW e \in Nat, NEW d \in Nat, NEW f \in 0 .. DelayAt(e, c)
  PROVE  f \in 0 .. DelayAt(e, d) + Ahead(c, d)
BY DEF DelayAt, Ahead

LEMMA AheadIsNatural ==
  ASSUME NEW c \in Nat, NEW d \in Nat
  PROVE  Ahead(c, d) \in Nat
BY DEF Ahead

\* What both do not change.
LEMMA TimeKeeps ==
  ASSUME Inv, Tick \/ SetClock, TypeOK', ArmedForEarliest', LeadIsOfSetting',
         pc = "handleRead" /\ timerfd_ \in {0, 1} => timerfd_' \in {0, 1}
  PROVE  Inv'
<1>1. UNCHANGED << timers_, expiration_, interval_, funcQueue, pc, now,
                   expiredList, ran >>
  BY DEF Tick, SetClock
<1>2. InvalidIsArmed'
  BY <1>1 DEF Inv, InvalidIsArmed
<1>3. /\ IdleHasNoExpired' /\ EntriesAreCurrent' /\ TakenIsNotWaiting'
      /\ Distinct(funcQueue') /\ Places'
  BY <1>1 DEF Inv, IdleHasNoExpired, EntriesAreCurrent, TakenIsNotWaiting,
              Places, HasEntry, Constructed
<1> QED
  BY <1>2, <1>3 DEF Inv

LEMMA ArmedAt ==
  ASSUME Inv, pc # "handleRead", NEW e \in timers_
  PROVE  e[1] \in Nat /\ timerfd_ \in 0 .. DelayAt(e[1], clock) + lead
BY DEF Inv, TypeOK, Entry, ArmedForEarliest, Armed, DelayAt

LEMMA TickInv ==
  ASSUME Inv, Tick
  PROVE  Inv'
<1>1. /\ UNCHANGED << clockSet, lead, timers_, expiration_, interval_,
                      funcQueue, pc, now, expiredList, ran >>
      /\ timerfd_' = IF timerfd_ > 0 THEN timerfd_ - 1 ELSE timerfd_
  BY DEF Tick
<1>2. /\ clock \in Nat /\ lead \in Nat /\ timerfd_ \in Nat \cup {-1}
      /\ clock \in 1 .. MaxTime /\ MaxTime \in Nat
  BY TimeAssumption DEF Inv, TypeOK, Disarmed
<1>3. clock' \in 1 .. MaxTime /\ clock' \in {clock, clock + 1}
  BY <1>2 DEF Tick
<1>4. TypeOK'
  <2>1. timerfd_' \in Nat \cup {-1}
    BY <1>1, <1>2
  <2> QED
    BY <1>1, <1>3, <2>1 DEF Inv, TypeOK, Disarmed
<1>5. ArmedForEarliest'
  <2> SUFFICES ASSUME pc # "handleRead", NEW e \in timers_
               PROVE  timerfd_' \in 0 .. DelayAt(e[1], clock') + lead
    BY <1>1 DEF ArmedForEarliest, Armed, DelayAt
  <2> QED
    BY <1>1, <1>2, <1>3, ArmedAt, CountedDown
<1>6. LeadIsOfSetting'
  BY <1>1 DEF Inv, LeadIsOfSetting
<1> QED
  BY <1>1, <1>4, <1>5, <1>6, TimeKeeps

LEMMA SetClockInv ==
  ASSUME Inv, SetClock
  PROVE  Inv'
<1>1. /\ UNCHANGED << timers_, expiration_, interval_, timerfd_, funcQueue, pc,
                      now, expiredList, ran >>
      /\ clock' \in 1 .. MaxTime /\ clockSet' = TRUE
      /\ lead' = Ahead(clock, clock')
  BY DEF SetClock, Ahead
<1>2. lead = 0 /\ clock \in 1 .. MaxTime /\ MaxTime \in Nat
  BY TimeAssumption DEF Inv, TypeOK, LeadIsOfSetting, SetClock
<1>3. clock \in Nat /\ clock' \in Nat
  BY <1>1, <1>2
<1>4. TypeOK'
  BY <1>1, <1>3, AheadIsNatural DEF Inv, TypeOK
<1>5. ArmedForEarliest'
  <2> SUFFICES ASSUME pc # "handleRead", NEW e \in timers_
               PROVE  timerfd_ \in 0 .. DelayAt(e[1], clock') + Ahead(clock, clock')
    BY <1>1 DEF ArmedForEarliest, Armed, DelayAt
  <2>1. e[1] \in Nat /\ timerfd_ \in 0 .. DelayAt(e[1], clock)
    BY <1>2, <1>3, ArmedAt DEF DelayAt
  <2> QED
    BY <1>3, <2>1, LaggingBehind
<1>6. LeadIsOfSetting'
  BY <1>1 DEF LeadIsOfSetting
<1> QED
  BY <1>1, <1>4, <1>5, <1>6, TimeKeeps

-----------------------------------------------------------------------------
(* The theorems.                                                            *)

LEMMA InitEstablishesInv == Init => Inv
<1> SUFFICES ASSUME Init
             PROVE  Inv
  OBVIOUS
<1>1. TypeOK
  <2>1. clock \in 1 .. MaxTime /\ now \in Time
    BY TimeAssumption DEF Init, Invalid, Time
  <2>2. /\ expiration_ \in [Timer -> Nat \cup {-1}]
        /\ interval_ \in [Timer -> Interval \cup {0, -1}]
    BY DEF Init
  <2>3. funcQueue \in Seq(Timer) /\ timerfd_ \in Nat \cup {Disarmed}
    BY DEF Init
  <2> QED
    BY <2>1, <2>2, <2>3 DEF Init, TypeOK
<1>2. Distinct(funcQueue) /\ Places
  BY DEF Init, Distinct, Places, HasEntry, Queued
<1> QED
  BY <1>1, <1>2 DEF Init, Inv, ArmedForEarliest, InvalidIsArmed, IdleHasNoExpired,
                    LeadIsOfSetting,
                    EntriesAreCurrent, TakenIsNotWaiting

LEMMA StepKeepsInv ==
  ASSUME Inv, [Next]_vars
  PROVE  Inv'
<1>1. CASE HandleReadStep
  BY <1>1, PollInv, HandleReadInv, RunInv, ResetInv DEF HandleReadStep
<1>2. CASE RunFunctor
  BY <1>2, RunFunctorInv
<1>3. ASSUME NEW t \in Timer, NEW request \in RunAt \cup RunEvery,
             \/ AddTimer(t, request[1], request[2])
             \/ AddTimerFromThread(t, request[1], request[2])
      PROVE  Inv'
  <2>1. request[1] \in Nat /\ request[2] \in Interval \cup {0} /\ request[2] \in Nat
    BY RequestsAreTimes DEF Inv
  <2> QED
    BY <1>3, <2>1, AddTimerInv, AddTimerFromThreadInv
<1>4. CASE Tick \/ SetClock
  BY <1>4, TickInv, SetClockInv
<1>5. CASE UNCHANGED vars
  <2>1. TypeOK'
    BY <1>5 DEF vars, Inv, TypeOK
  <2> QED
    BY <1>5, <2>1
       DEF vars, Inv, ArmedForEarliest, InvalidIsArmed, IdleHasNoExpired, Armed,
           LeadIsOfSetting,
           EntriesAreCurrent, TakenIsNotWaiting, Places, HasEntry, Constructed
<1> QED
  BY <1>1, <1>2, <1>3, <1>4, <1>5 DEF Next

\* Inv is inductive.
THEOREM Invariant == Spec => []Inv
<1>1. Init => Inv
  BY InitEstablishesInv
<1>2. Inv /\ [Next]_vars => Inv'
  BY StepKeepsInv
<1> QED
  BY <1>1, <1>2, PTL DEF Spec

\* Between two calls of handleRead the timerfd is armed for the earliest timer,
\* whatever addTimer, reset and the clock did.
THEOREM EarliestIsArmed == Spec => []ArmedForEarliest
<1>1. Inv => ArmedForEarliest
  BY DEF Inv
<1> QED
  BY <1>1, Invariant, PTL

LEMMA PlaceOf ==
  ASSUME Inv, NEW t \in Timer
  PROVE  /\ \/ ~HasEntry(t) /\ Entries(t) = {}
            \/ HasEntry(t) /\ \E e : Entries(t) = {e}
         /\ \/ ~Queued(funcQueue, t) /\ Functors(t) = {}
            \/ Queued(funcQueue, t) /\ \E i : Functors(t) = {i}
<1>1. /\ timers_ \cup expiredList \subseteq Entry
      /\ EntriesAreCurrent /\ Distinct(funcQueue)
  BY DEF Inv, TypeOK
<1>2. ASSUME ~HasEntry(t)
      PROVE  Entries(t) = {}
  BY <1>2 DEF HasEntry, Entries
<1>3. ASSUME HasEntry(t)
      PROVE  \E e : Entries(t) = {e}
  <2>1. PICK e \in timers_ \cup expiredList : e[2] = t
    BY <1>3 DEF HasEntry
  <2>2. ASSUME NEW f \in Entries(t)
        PROVE  f = e
    <3>1. /\ f \in timers_ \cup expiredList /\ f[2] = t
          /\ f[1] = expiration_[t] /\ e[1] = expiration_[t]
      BY <1>1, <2>1, <2>2 DEF Entries, EntriesAreCurrent
    <3>2. f \in Entry /\ e \in Entry
      BY <1>1, <2>1, <3>1
    <3> QED
      BY <2>1, <3>1, <3>2 DEF Entry
  <2>3. e \in Entries(t)
    BY <2>1 DEF Entries
  <2> QED
    BY <2>2, <2>3
<1>4. ASSUME ~Queued(funcQueue, t)
      PROVE  Functors(t) = {}
  BY <1>4 DEF Queued, Functors
<1>5. ASSUME Queued(funcQueue, t)
      PROVE  \E i : Functors(t) = {i}
  <2>1. PICK i \in DOMAIN funcQueue : funcQueue[i] = t
    BY <1>5 DEF Queued
  <2>2. Functors(t) = {i}
    BY <1>1, <2>1 DEF Functors, Distinct
  <2> QED
    BY <2>2
<1> QED
  BY <1>2, <1>3, <1>4, <1>5

\* No timer is lost or doubled by addTimer, getExpired and reset.
THEOREM TimersHaveOnePlace == Spec => []OnePlacePerTimer
<1>1. ASSUME Inv
      PROVE  OnePlacePerTimer
  <2>1. TypeOK /\ \A e \in timers_ \cup expiredList : e[1] = expiration_[e[2]]
    BY <1>1 DEF Inv, EntriesAreCurrent
  <2>2. ASSUME NEW t \in Timer
        PROVE  /\ Cardinality(Entries(t)) + Cardinality(Functors(t)) <= 1
               /\ interval_[t] > 0 =>
                    Cardinality(Entries(t)) + Cardinality(Functors(t)) = 1
    <3>1. /\ ~(HasEntry(t) /\ Queued(funcQueue, t))
          /\ interval_[t] > 0 => HasEntry(t) \/ Queued(funcQueue, t)
      BY <1>1 DEF Inv, Places
    <3>2. /\ Cardinality(Entries(t)) = IF HasEntry(t) THEN 1 ELSE 0
          /\ Cardinality(Functors(t)) = IF Queued(funcQueue, t) THEN 1 ELSE 0
      BY <1>1, PlaceOf, FS_EmptySet, FS_Singleton
    <3> QED
      BY <3>1, <3>2
  <2> QED
    BY <2>1, <2>2 DEF OnePlacePerTimer
<1> QED
  BY <1>1, Invariant, PTL
=============================================================================
