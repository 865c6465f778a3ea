----------------------- MODULE EventLoopThreadProofs -----------------------
(***************************************************************************)
(* Proofs about EventLoopThread, for pools of every size: startLoop hands   *)
(* over loops that are initialised, and getNextLoop deals them out in turn. *)
(***************************************************************************)
EXTENDS EventLoopThread, TLAPS

\* Loops are handed over in the order of their threads, each after it was
\* published, and while start goes on there are fewer than threads.
LoopsInOrder ==
  /\ Len(loops_) <= MaxThreads
  /\ \A k \in DOMAIN loops_ : loops_[k] = k - 1 /\ k - 1 \in loop_
  /\ pc = "idle" => loops_ = << >>
  /\ pc \in {"create", "check", "wait"} => Len(loops_) < numThreads_

\* A thread publishes its loop after initCallback_, and those to come are not
\* created yet.
PublishedInTime ==
  /\ \A i \in loop_ : thread[i] \notin {"none", "init", "publish"}
  /\ \A i \in Thread :
       \/ i > Len(loops_)
       \/ i = Len(loops_) /\ pc \in {"idle", "create", "started"}
       => thread[i] = "none"

\* The index is one of a loop, and the loops before it are one ahead of the others.
IndexInTurn ==
  /\ nextIndex_ < Len(loops_) \/ nextIndex_ = 0
  /\ pc # "started" => nextIndex_ = 0 /\ \A i \in Thread : given[i] = 0
  /\ \A i, j \in 0 .. Len(loops_) - 1 :
       i <= j => given[i] = IF i < nextIndex_ /\ nextIndex_ <= j
                            THEN given[j] + 1 ELSE given[j]

Inv == /\ TypeOK
       /\ LoopsInOrder
       /\ PublishedInTime
       /\ IndexInTurn
       /\ NextLoopExists

-----------------------------------------------------------------------------
LEMMA InitInv == Init => Inv
<1> SUFFICES ASSUME Init PROVE Inv
  OBVIOUS
<1> USE BoundAssumption DEF Init, Thread
<1>1. TypeOK
  BY DEF TypeOK
<1>2. LoopsInOrder
  BY DEF LoopsInOrder
<1>3. PublishedInTime
  BY DEF PublishedInTime
<1>4. IndexInTurn
  BY DEF IndexInTurn
<1>5. NextLoopExists
  BY DEF NextLoopExists
<1>6. QED
  BY <1>1, <1>2, <1>3, <1>4, <1>5 DEF Inv

\* The index wraps to the first loop after the last.
LEMMA Wraps ==
  ASSUME NEW n \in Nat \ {0}, NEW k \in 0 .. n - 1
  PROVE  (k + 1) % n = IF k + 1 = n THEN 0 ELSE k + 1
BY Z3

\* Steps of the IO threads, and those in which start makes no progress, leave
\* the pool in order.
LEMMA PoolKept ==
  ASSUME Inv, UNCHANGED pool, loop_ \subseteq loop_', failed' # "index",
         pc' = pc \/ {pc, pc'} \subseteq {"create", "check", "wait"}
  PROVE  LoopsInOrder' /\ IndexInTurn' /\ NextLoopExists'
<1>1. LoopsInOrder'
  BY DEF Inv, LoopsInOrder, pool
<1>2. IndexInTurn'
  BY DEF Inv, IndexInTurn, pool
<1>3. QED
  BY <1>1, <1>2 DEF NextLoopExists

\* The loop is appended after those that were handed over before.
LEMMA WaitForLoopInv == Inv /\ Running /\ WaitForLoop => Inv'
<1> SUFFICES ASSUME Inv, Running, WaitForLoop PROVE Inv'
  OBVIOUS
<1> DEFINE n == Len(loops_)
<1>1. /\ n \in Thread /\ numThreads_ \in 0 .. MaxThreads
      /\ loops_ \in Seq(Thread)
      /\ pc = "check"
  BY BoundAssumption DEF Inv, TypeOK, LoopsInOrder, WaitForLoop, Thread
<1>2. CASE n \in loop_
  <2>1. /\ loops_' = Append(loops_, n)
        /\ loops_' \in Seq(Thread)
        /\ Len(loops_') = n + 1
        /\ pc' = IF n + 1 < numThreads_ THEN "create" ELSE "started"
        /\ UNCHANGED << numThreads_, nextIndex_, given, ioThreads, failed >>
    BY <1>1, <1>2, SMTT(30) DEF WaitForLoop, NextThread
  <2>2. TypeOK'
    BY <2>1 DEF Inv, TypeOK, ioThreads
  <2>3. LoopsInOrder'
    <3>1. \A k \in DOMAIN loops_' : loops_'[k] = k - 1 /\ k - 1 \in loop_'
      BY <1>1, <1>2, <2>1, SMTT(30) DEF Inv, LoopsInOrder, ioThreads
    <3>2. QED
      BY <1>1, <2>1, <3>1, BoundAssumption, SMTT(30) DEF LoopsInOrder, Thread
  <2>4. PublishedInTime'
    BY <1>1, <2>1, SMTT(30) DEF Inv, PublishedInTime, ioThreads, Thread
  <2>5. IndexInTurn'
    <3>1. nextIndex_ = 0 /\ \A i \in Thread : given[i] = 0
      BY <1>1 DEF Inv, IndexInTurn
    <3>2. 0 .. Len(loops_') - 1 \subseteq Thread
      BY <1>1, <2>1, BoundAssumption DEF Thread
    <3>3. QED
      BY <2>1, <3>1, <3>2 DEF IndexInTurn
  <2>6. NextLoopExists'
    BY <2>1 DEF Running, NextLoopExists
  <2>7. QED
    BY <2>2, <2>3, <2>4, <2>5, <2>6 DEF Inv
<1>3. CASE n \notin loop_
  <2>1. pc' = "wait" /\ UNCHANGED << pool, ioThreads, failed >>
    BY <1>3 DEF WaitForLoop, pool
  <2>2. TypeOK'
    BY <2>1 DEF Inv, TypeOK, pool, ioThreads
  <2>3. PublishedInTime'
    BY <1>1, <2>1 DEF Inv, PublishedInTime, pool, ioThreads, Thread
  <2>4. QED
    BY <1>1, <2>1, <2>2, <2>3, PoolKept DEF Inv, Running, ioThreads
<1>4. QED
  BY <1>2, <1>3

\* The loop at the index falls behind by none when it is given out.
LEMMA GetNextLoopInv == Inv /\ Running /\ GetNextLoop => Inv'
<1> SUFFICES ASSUME Inv, Running, GetNextLoop PROVE Inv'
  OBVIOUS
<1> DEFINE n == Len(loops_)
           k == nextIndex_
<1>1. /\ n \in Nat /\ n <= MaxThreads /\ k \in Nat
      /\ k < n \/ k = 0
      /\ pc = "started"
      /\ UNCHANGED << pc, numThreads_, loops_, ioThreads >>
  BY BoundAssumption
     DEF Inv, TypeOK, LoopsInOrder, IndexInTurn, GetNextLoop, Thread
<1>2. LoopsInOrder' /\ PublishedInTime'
  BY <1>1 DEF Inv, LoopsInOrder, PublishedInTime, ioThreads
<1>3. CASE given' = given /\ nextIndex_' = nextIndex_
  <2>1. failed' # "index" \/ (failed' = "index" /\ n = 0)
    BY <1>1 DEF GetNextLoop, Running
  <2>2. failed' \in {"none", "index"}
    BY <1>3 DEF GetNextLoop, Running
  <2>3. TypeOK'
    BY <1>1, <1>3, <2>2 DEF Inv, TypeOK, ioThreads
  <2>4. IndexInTurn'
    BY <1>1, <1>3 DEF Inv, IndexInTurn
  <2>5. NextLoopExists'
    BY <1>1, <2>1 DEF Inv, TypeOK, NextLoopExists
  <2>6. QED
    BY <1>2, <2>3, <2>4, <2>5 DEF Inv
<1>4. CASE ~(given' = given /\ nextIndex_' = nextIndex_)
  <2>1. k < n /\ k \in Thread /\ loops_[k + 1] = k
    BY <1>1, <1>4, BoundAssumption
       DEF GetNextLoop, Inv, TypeOK, LoopsInOrder, Thread
  <2>2. /\ given[k] < MaxGiven
        /\ given' = [given EXCEPT ![k] = @ + 1]
        /\ nextIndex_' = IF k + 1 = n THEN 0 ELSE k + 1
        /\ failed' = failed
    BY <1>1, <1>4, <2>1, Wraps DEF GetNextLoop, NextIndex
  <2>3. TypeOK'
    <3>1. given' \in [Thread -> 0 .. MaxGiven]
      BY <2>1, <2>2, BoundAssumption DEF Inv, TypeOK
    <3>2. nextIndex_' \in Thread \cup {0}
      BY <1>1, <2>1, <2>2, BoundAssumption DEF Thread
    <3>3. QED
      BY <1>1, <2>2, <3>1, <3>2 DEF Inv, TypeOK, ioThreads
  <2>4. IndexInTurn'
    <3>1. \A i \in 0 .. n - 1 :
            /\ given[i] \in Nat
            /\ given'[i] = IF i = k THEN given[i] + 1 ELSE given[i]
      <4>1. 0 .. n - 1 \subseteq Thread
        BY <1>1, BoundAssumption DEF Thread
      <4>2. given \in [Thread -> 0 .. MaxGiven]
        BY DEF Inv, TypeOK
      <4>3. QED
        BY <2>2, <4>1, <4>2
    <3>2. ASSUME NEW i \in 0 .. n - 1, NEW j \in 0 .. n - 1, i <= j
          PROVE  given'[i] = IF i < nextIndex_' /\ nextIndex_' <= j
                             THEN given'[j] + 1 ELSE given'[j]
      <4>1. given[i] = IF i < k /\ k <= j THEN given[j] + 1 ELSE given[j]
        BY <3>2 DEF Inv, IndexInTurn
      <4>2. QED
        BY <1>1, <2>1, <2>2, <3>1, <3>2, <4>1, SMTT(30)
    <3>3. nextIndex_' < Len(loops_') \/ nextIndex_' = 0
      BY <1>1, <2>1, <2>2
    <3>4. QED
      BY <1>1, <3>2, <3>3, SMTT(30) DEF IndexInTurn
  <2>5. NextLoopExists'
    BY <2>2 DEF Running, NextLoopExists
  <2>6. QED
    BY <1>2, <2>3, <2>4, <2>5 DEF Inv
<1>5. QED
  BY <1>3, <1>4

\* The other steps.
LEMMA StepInv == Inv /\ [Next]_vars => Inv'
<1> SUFFICES ASSUME Inv, [Next]_vars PROVE Inv'
  OBVIOUS
<1> USE BoundAssumption DEF Inv, Thread, ioThreads
<1>1. CASE Running /\ CreateThread
  <2>1. /\ UNCHANGED << pool, loop_, failed >>
        /\ pc = "create" /\ pc' = "check"
        /\ thread' = [thread EXCEPT ![Len(loops_)] = "init"]
    BY <1>1 DEF CreateThread
  <2>2. Len(loops_) \in Thread
    BY <2>1 DEF TypeOK, LoopsInOrder
  <2>3. TypeOK'
    BY <1>1, <2>2 DEF CreateThread, TypeOK, pool
  <2>4. PublishedInTime'
    <3>1. thread[Len(loops_)] = "none"
      BY <2>1, <2>2 DEF PublishedInTime
    <3>2. Len(loops_) \notin loop_
      BY <3>1 DEF PublishedInTime
    <3>3. QED
      BY <2>1, <2>2, <3>2 DEF PublishedInTime, TypeOK, pool
  <2>5. QED
    BY <1>1, <2>1, <2>3, <2>4, PoolKept DEF Running
<1>2. CASE Running /\ WaitForLoop
  BY <1>2, WaitForLoopInv
<1>3. CASE Running /\ Start
  <2>1. TypeOK'
    BY <1>3 DEF Start, NextThread, TypeOK, pool
  <2>2. LoopsInOrder'
    BY <1>3 DEF Start, NextThread, TypeOK, LoopsInOrder, pool
  <2>3. PublishedInTime'
    BY <1>3, SMTT(30) DEF Start, NextThread, TypeOK, PublishedInTime, pool
  <2>4. IndexInTurn'
    BY <1>3 DEF Start, NextThread, TypeOK, IndexInTurn, pool
  <2>5. NextLoopExists'
    BY <1>3 DEF Start, NextLoopExists, Running, pool
  <2>6. QED
    BY <2>1, <2>2, <2>3, <2>4, <2>5
<1>4. CASE Running /\ WakeSpuriously
  <2>1. TypeOK'
    BY <1>4 DEF WakeSpuriously, TypeOK, pool
  <2>2. PublishedInTime'
    BY <1>4 DEF WakeSpuriously, PublishedInTime, pool
  <2>3. QED
    BY <1>4, <2>1, <2>2, PoolKept DEF WakeSpuriously, Running
<1>5. CASE Running /\ GetNextLoop
  BY <1>5, GetNextLoopInv
<1>6. ASSUME Running, NEW n \in 0 .. MaxThreads, SetThreadNums(n)
      PROVE  Inv'
  <2>1. TypeOK'
    BY <1>6 DEF SetThreadNums, TypeOK
  <2>2. LoopsInOrder'
    BY <1>6 DEF SetThreadNums, LoopsInOrder
  <2>3. PublishedInTime'
    BY <1>6 DEF SetThreadNums, PublishedInTime
  <2>4. IndexInTurn'
    BY <1>6 DEF SetThreadNums, IndexInTurn
  <2>5. NextLoopExists'
    BY <1>6 DEF SetThreadNums, NextLoopExists, Running
  <2>6. QED
    BY <2>1, <2>2, <2>3, <2>4, <2>5
<1>7. ASSUME Running, NEW i \in Thread, ThreadStep(i)
      PROVE  Inv'
  <2>1. TypeOK'
    BY <1>7 DEF ThreadStep, InitCallback, Publish, Notify, EnterLoop, LeaveLoop,
                TypeOK, pool
  <2>2. PublishedInTime'
    <3>1. CASE InitCallback(i)
      BY <3>1, SMTT(30) DEF InitCallback, TypeOK, PublishedInTime, pool
    <3>2. CASE Publish(i)
      BY <3>2, SMTT(30) DEF Publish, TypeOK, PublishedInTime, pool
    <3>3. CASE Notify(i)
      BY <3>3, SMTT(30) DEF Notify, TypeOK, PublishedInTime, pool
    <3>4. CASE EnterLoop(i)
      BY <3>4, SMTT(30) DEF EnterLoop, TypeOK, PublishedInTime, pool
    <3>5. CASE LeaveLoop(i)
      BY <3>5, SMTT(30) DEF LeaveLoop, TypeOK, PublishedInTime, pool
    <3>6. QED
      BY <1>7, <3>1, <3>2, <3>3, <3>4, <3>5 DEF ThreadStep
  <2>3. /\ UNCHANGED pool /\ loop_ \subseteq loop_' /\ failed' # "index"
        /\ pc' = pc \/ {pc, pc'} \subseteq {"create", "check", "wait"}
    BY <1>7 DEF ThreadStep, InitCallback, Publish, Notify, EnterLoop, LeaveLoop,
                Running
  <2>4. QED
    BY <2>1, <2>2, <2>3, PoolKept
<1>8. ASSUME Running, NEW i \in Thread, Quit(i) \/ Wakeup(i)
      PROVE  Inv'
  <2>1. TypeOK'
    BY <1>8 DEF Quit, Wakeup, TypeOK, pool
  <2>2. PublishedInTime'
    BY <1>8 DEF Quit, Wakeup, PublishedInTime, pool
  <2>3. UNCHANGED << pool, pc, loop_ >> /\ failed' # "index"
    BY <1>8 DEF Quit, Wakeup, Running
  <2>4. QED
    BY <2>1, <2>2, <2>3, PoolKept
<1>9. CASE UNCHANGED vars
  BY <1>9 DEF vars, TypeOK, LoopsInOrder, PublishedInTime, IndexInTurn,
              NextLoopExists
<1>10. QED
  BY <1>1, <1>2, <1>3, <1>4, <1>5, <1>6, <1>7, <1>8, <1>9 DEF Next, BaseStep

-----------------------------------------------------------------------------
LEMMA Invariance == Spec => []Inv
  BY InitInv, StepInv, PTL DEF Spec

\* The variables keep their types, for pools of every size.
THEOREM TypeCorrect == Spec => []TypeOK
<1>1. Inv => TypeOK
  BY DEF Inv
<1>2. QED
  BY <1>1, Invariance, PTL

\* startLoop never returns a loop whose initCallback_ has not returned, whatever
\* the order of wait, notify_all and spurious wake-ups, and never one twice.
THEOREM LoopsAreHandedOverInitialised == Spec => []HandedLoopsAreInitialised
<1>1. Inv => HandedLoopsAreInitialised
  <2> SUFFICES ASSUME Inv PROVE HandedLoopsAreInitialised
    OBVIOUS
  <2>1. \A k \in DOMAIN loops_ : loops_[k] = k - 1 /\ loops_[k] \in loop_
    BY DEF Inv, LoopsInOrder
  <2>2. \A i \in Handed : thread[i] \notin {"none", "init"}
    BY <2>1 DEF Handed, Inv, PublishedInTime
  <2>3. DOMAIN loops_ \subseteq Int
    BY DEF Inv, TypeOK
  <2>4. \A j, k \in DOMAIN loops_ : loops_[j] = loops_[k] => j = k
    BY <2>1, <2>3
  <2>5. QED
    BY <2>2, <2>4 DEF HandedLoopsAreInitialised
<1>2. QED
  BY <1>1, Invariance, PTL

\* getNextLoop stays inside loops_ whatever setThreadNums is called with, unless
\* the pool was started without threads.
THEOREM NextLoopAlwaysExists == Spec => []NextLoopExists
<1>1. Inv => NextLoopExists
  BY DEF Inv
<1>2. QED
  BY <1>1, Invariance, PTL

\* However often getNextLoop is called, no loop is two ahead of another.
THEOREM LoopsAreGivenInTurn == Spec => []GivenInTurn
<1>1. Inv => GivenInTurn
  <2> SUFFICES ASSUME Inv, NEW i \in Handed, NEW j \in Handed
               PROVE  given[i] <= given[j] + 1
    BY DEF GivenInTurn
  <2>1. i \in 0 .. Len(loops_) - 1 /\ j \in 0 .. Len(loops_) - 1
    <3>1. PICK a \in DOMAIN loops_, b \in DOMAIN loops_ :
            i = loops_[a] /\ j = loops_[b]
      BY DEF Handed
    <3>2. i = a - 1 /\ j = b - 1
      BY <3>1 DEF Inv, LoopsInOrder
    <3>3. DOMAIN loops_ = 1 .. Len(loops_) /\ Len(loops_) \in Nat
      BY DEF Inv, TypeOK
    <3>4. QED
      BY <3>2, <3>3
  <2>2. given[i] \in Nat /\ given[j] \in Nat
    <3>1. i \in Thread /\ j \in Thread
      BY <2>1, BoundAssumption DEF Inv, TypeOK, LoopsInOrder, Thread
    <3>2. given \in [Thread -> 0 .. MaxGiven]
      BY DEF Inv, TypeOK
    <3>3. QED
      BY <3>1, <3>2, BoundAssumption
  <2>3. i <= j \/ j <= i
    BY <2>1
  <2>4. QED
    BY <2>1, <2>2, <2>3 DEF Inv, IndexInTurn
<1>2. QED
  BY <1>1, Invariance, PTL
=============================================================================
