-------------------------- MODULE EventLoopThread --------------------------
(***************************************************************************)
(* EventLoopThreadPool with its EventLoopThreads: the thread of the base    *)
(* loop starts them one after the other, each hands its on-stack EventLoop  *)
(* over through loop_ under mutex_ and condition_, and getNextLoop deals    *)
(* the loops out in turn.  setThreadNums may be called at any time, and     *)
(* other threads may quit a loop that was handed over.                      *)
(***************************************************************************)
EXTENDS Integers, Sequences

CONSTANTS MaxThreads,  \* the bound on setThreadNums
          MaxGiven     \* the bound on the calls of getNextLoop that are counted

ASSUME BoundAssumption == MaxThreads \in Nat /\ MaxGiven \in Nat

VARIABLES
  \* the thread of the base loop
  pc,          \* "idle", in start: "create", "check", "wait"; then "started"
  numThreads_,
  nextIndex_,
  loops_,      \* the loops handed over, by the number of their thread
  \* the IO threads
  thread,      \* where each is in threadFunc
  loop_,       \* those that have published their loop
  quit_,       \* those whose loop has quit_ set
  waking,      \* those whose loop another thread is to wake up after quit_ = true
  \* history, and the end of the program
  given,       \* how often getNextLoop has returned each loop
  failed       \* "none", "index" or "dangling"

vars == << pc, numThreads_, nextIndex_, loops_, thread, loop_, quit_, waking,
           given, failed >>

pool      == << numThreads_, nextIndex_, loops_, given >>
ioThreads == << thread, loop_, quit_, waking >>

Thread == 0 .. MaxThreads - 1

Init ==
  /\ pc = "idle"
  /\ numThreads_ = 0
  /\ nextIndex_ = 0
  /\ loops_ = << >>
  /\ thread = [i \in Thread |-> "none"]
  /\ loop_ = {} /\ quit_ = {} /\ waking = {}
  /\ given = [i \in Thread |-> 0]
  /\ failed = "none"

-----------------------------------------------------------------------------
(* The thread of the base loop: EventLoopThreadPool, with startLoop.        *)

SetThreadNums(n) ==
  /\ pc \in {"idle", "started"}
  /\ numThreads_' = n
  /\ UNCHANGED << pc, nextIndex_, loops_, given, ioThreads, failed >>

\* for(int i = 0; i < numThreads_; ++i)
NextThread(i) == IF i < numThreads_ THEN "create" ELSE "started"

Start ==
  /\ pc = "idle"
  /\ pc' = NextThread(0)
  /\ UNCHANGED << pool, ioThreads, failed >>

\* startLoop: the thread is created and detached.
CreateThread ==
  /\ pc = "create"
  /\ pc' = "check"
  /\ thread' = [thread EXCEPT ![Len(loops_)] = "init"]
  /\ UNCHANGED << pool, loop_, quit_, waking, failed >>

\* wait() tests its predicate under the lock.  It releases the lock when it
\* blocks, so that to test and to block are one step for the other thread.
WaitForLoop ==
  /\ pc = "check"
  /\ IF Len(loops_) \in loop_
     THEN /\ loops_' = Append(loops_, Len(loops_))
          /\ pc' = NextThread(Len(loops_'))
     ELSE /\ pc' = "wait"
          /\ UNCHANGED loops_
  /\ UNCHANGED << numThreads_, nextIndex_, given, ioThreads, failed >>

\* wait() may return without a notify_all.
WakeSpuriously ==
  /\ pc = "wait"
  /\ pc' = "check"
  /\ UNCHANGED << pool, ioThreads, failed >>

\* Faulty: the index does not wrap.
NextIndexUnwrapped == nextIndex_ + 1

\* Faulty: the index wraps at the number that was set last.
NextIndexOfThreads == (nextIndex_ + 1) % numThreads_

NextIndex == (nextIndex_ + 1) % Len(loops_)

\* Without threads it is the base loop, which is not counted.
GetNextLoop ==
  /\ pc = "started"
  /\ IF numThreads_ = 0 THEN UNCHANGED << nextIndex_, given, failed >>
     ELSE IF nextIndex_ >= Len(loops_)
     THEN failed' = "index" /\ UNCHANGED << nextIndex_, given >>
     ELSE LET i == loops_[nextIndex_ + 1]
          IN /\ given[i] < MaxGiven
             /\ given' = [given EXCEPT ![i] = @ + 1]
             /\ nextIndex_' = NextIndex
             /\ UNCHANGED failed
  /\ UNCHANGED << pc, numThreads_, loops_, ioThreads >>

-----------------------------------------------------------------------------
(* The IO thread i: threadFunc.                                             *)

\* Faulty: the loop is published before initCallback_ is called.
PublishFirst(i) ==
  /\ thread[i] = "init"
  /\ loop_' = loop_ \cup {i}
  /\ thread' = IF i \in loop_ THEN [thread EXCEPT ![i] = "publish"] ELSE thread
  /\ UNCHANGED << pc, pool, quit_, waking, failed >>

\* The loop is constructed and initCallback_ returns.
InitCallback(i) ==
  /\ thread[i] = "init"
  /\ thread' = [thread EXCEPT ![i] = "publish"]
  /\ UNCHANGED << pc, pool, loop_, quit_, waking, failed >>

\* loop_ is set, under the lock.
Publish(i) ==
  /\ thread[i] = "publish"
  /\ thread' = [thread EXCEPT ![i] = "notify"]
  /\ loop_' = loop_ \cup {i}
  /\ UNCHANGED << pc, pool, quit_, waking, failed >>

\* Faulty: nobody is notified.
NotifyNobody(i) ==
  /\ thread[i] = "notify"
  /\ thread' = [thread EXCEPT ![i] = "enter"]
  /\ UNCHANGED << pc, pool, loop_, quit_, waking, failed >>

\* notify_all, after the lock is released.
Notify(i) ==
  /\ thread[i] = "notify"
  /\ thread' = [thread EXCEPT ![i] = "enter"]
  /\ pc' = IF pc = "wait" /\ Len(loops_) = i THEN "check" ELSE pc
  /\ UNCHANGED << pool, loop_, quit_, waking, failed >>

\* loop() is entered, which clears quit_.
EnterLoop(i) ==
  /\ thread[i] = "enter"
  /\ thread' = [thread EXCEPT ![i] = "loop"]
  /\ quit_' = quit_ \ {i}
  /\ UNCHANGED << pc, pool, loop_, waking, failed >>

\* loop() returns, and threadFunc, which destructs the loop.
LeaveLoop(i) ==
  /\ thread[i] = "loop"
  /\ i \in quit_
  /\ thread' = [thread EXCEPT ![i] = "gone"]
  /\ UNCHANGED << pc, pool, loop_, quit_, waking, failed >>

-----------------------------------------------------------------------------
(* EventLoop::quit by another thread, on a loop handed over to it: quit_ is *)
(* set, and then the loop is woken up.                                      *)

Handed == {loops_[k] : k \in DOMAIN loops_}

Quit(i) ==
  /\ i \in Handed \ waking
  /\ thread[i] # "gone"
  /\ quit_' = quit_ \cup {i}
  /\ waking' = waking \cup {i}
  /\ UNCHANGED << pc, pool, thread, loop_, failed >>

Wakeup(i) ==
  /\ i \in waking
  /\ waking' = waking \ {i}
  /\ failed' = IF thread[i] = "gone" THEN "dangling" ELSE failed
  /\ UNCHANGED << pc, pool, thread, loop_, quit_ >>

-----------------------------------------------------------------------------
BaseStep == CreateThread \/ WaitForLoop

ThreadStep(i) == \/ InitCallback(i)
                 \/ Publish(i)
                 \/ Notify(i)
                 \/ EnterLoop(i)
                 \/ LeaveLoop(i)

Running == failed = "none"

Next ==
  /\ Running
  /\ \/ BaseStep
     \/ Start
     \/ WakeSpuriously
     \/ GetNextLoop
     \/ \E n \in 0 .. MaxThreads : SetThreadNums(n)
     \/ \E i \in Thread : \/ ThreadStep(i)
                          \/ Quit(i)
                          \/ Wakeup(i)

Spec == Init /\ [][Next]_vars

\* Threads are scheduled and initCallback_ returns.  Nothing is assumed of
\* spurious wake-ups.
FairSpec == /\ Spec
            /\ WF_vars(Running /\ BaseStep)
            /\ \A i \in Thread : WF_vars(Running /\ ThreadStep(i))

-----------------------------------------------------------------------------
(* Correctness.                                                             *)

TypeOK ==
  /\ pc \in {"idle", "create", "check", "wait", "started"}
  /\ numThreads_ \in 0 .. MaxThreads
  /\ nextIndex_ \in Thread \cup {0}
  /\ loops_ \in Seq(Thread)
  /\ thread \in [Thread -> {"none", "init", "publish", "notify", "enter",
                            "loop", "gone"}]
  /\ loop_ \subseteq Thread /\ quit_ \subseteq Thread /\ waking \subseteq Thread
  /\ given \in [Thread -> 0 .. MaxGiven]
  /\ failed \in {"none", "index", "dangling"}

\* startLoop returns a loop that is constructed and through its initCallback_,
\* and the loops are those of different threads.
HandedLoopsAreInitialised ==
  /\ \A i \in Handed : thread[i] \notin {"none", "init"}
  /\ \A j, k \in DOMAIN loops_ : loops_[j] = loops_[k] => j = k

\* getNextLoop has a loop to return whatever setThreadNums was called with since,
\* unless the pool was started without threads.
NextLoopExists == failed = "index" => loops_ = << >>

\* The loops are given out in turn: none has been given out twice more than
\* another, whatever setThreadNums was called with since.
GivenInTurn ==
  \A i, j \in Handed : given[i] <= given[j] + 1

\* start returns, whichever of notify_all and wait comes first.
StartReturns == (pc = "create") ~> (pc = "started" \/ ~Running)
=============================================================================
