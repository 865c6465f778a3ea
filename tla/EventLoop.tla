----------------------------- MODULE EventLoop -----------------------------
(***************************************************************************)
(* The EventLoop of duduo/net/Reactor: one loop thread that polls, handles  *)
(* events and then runs the functions other code queued, and the threads    *)
(* that call queueInLoop, runInLoop and quit on it.                         *)
(*                                                                          *)
(* mutex_ guards one statement in each of its two critical sections, so     *)
(* each is one step here.  Callbacks are arbitrary user code: wherever one  *)
(* runs, it may call the loop's operations any number of times.             *)
(***************************************************************************)
EXTENDS Integers, SequencesExt

CONSTANTS Task,    \* the functors that may be queued
          Thread,  \* the threads other than the loop's own
          NoTask   \* "no functor is running"

ASSUME NoTaskAssumption == NoTask \notin Task

VARIABLES
  pc,                 \* where the loop thread is in loop()
  quit_,              \* the flag loop() tests
  wakeupFd_,          \* the counter of the eventfd
  woken,              \* wakeupChannel_ is in activeChannels_
  funcQueue,          \* functors queued, oldest first
  tmp,                \* the local batch executeQueueFunctions still has to call
  current,            \* the functor being called
  isExecuteQueueFunc, \* set while a batch is executed
  call,               \* what each other thread has left to do of its call
  origin              \* history: where each pending functor was queued from

vars == << pc, quit_, wakeupFd_, woken, funcQueue, tmp, current,
           isExecuteQueueFunc, call, origin >>

PC     == {"idle", "test", "poll", "handling", "execute", "running"}
Origin == {"none", "other", "idle", "handling", "running"}

Init ==
  /\ pc = "idle"
  /\ quit_ = FALSE
  /\ wakeupFd_ = 0
  /\ woken = FALSE
  /\ funcQueue = << >>
  /\ tmp = << >>
  /\ current = NoTask
  /\ isExecuteQueueFunc = FALSE
  /\ call = [th \in Thread |-> "none"]
  /\ origin = [t \in Task |-> "none"]

-----------------------------------------------------------------------------
(* EventLoop::loop, by the loop thread.                                     *)

\* loop() is entered: isLoopping_ is pc # "idle", and quit_ is cleared.
Loop ==
  /\ pc = "idle"
  /\ pc' = "test"
  /\ quit_' = FALSE
  /\ UNCHANGED << wakeupFd_, woken, funcQueue, tmp, current,
                  isExecuteQueueFunc, call, origin >>

\* A faulty loop, for the sensitivity of the checks: it drains the queue first.
TestQuitWhenDrained ==
  /\ pc = "test"
  /\ pc' = IF quit_ /\ funcQueue = << >> THEN "idle" ELSE "poll"
  /\ UNCHANGED << quit_, wakeupFd_, woken, funcQueue, tmp, current,
                  isExecuteQueueFunc, call, origin >>

\* while(!quit_)
TestQuit ==
  /\ pc = "test"
  /\ pc' = IF quit_ THEN "idle" ELSE "poll"
  /\ UNCHANGED << quit_, wakeupFd_, woken, funcQueue, tmp, current,
                  isExecuteQueueFunc, call, origin >>

\* ::poll returns, because some descriptor is ready or after maxWaitTimeM; the
\* wakeup descriptor is among the active ones if its counter is not zero.
Poll ==
  /\ pc = "poll"
  /\ pc' = "handling"
  /\ woken' = (wakeupFd_ > 0)
  /\ UNCHANGED << quit_, wakeupFd_, funcQueue, tmp, current,
                  isExecuteQueueFunc, call, origin >>

\* handleRead of the wakeup channel, if it is active: the read resets the eventfd.
HandleRead == wakeupFd_' = IF woken THEN 0 ELSE wakeupFd_

\* Faulty: executeQueueFunctions only runs when the eventfd was readable.
HandleEventsOnly ==
  /\ pc = "handling"
  /\ pc' = IF woken THEN "execute" ELSE "test"
  /\ HandleRead
  /\ woken' = FALSE
  /\ UNCHANGED << quit_, funcQueue, tmp, current,
                  isExecuteQueueFunc, call, origin >>

\* The active channels have been handled, the wakeup channel among them.
HandleEvents ==
  /\ pc = "handling"
  /\ pc' = "execute"
  /\ HandleRead
  /\ woken' = FALSE
  /\ UNCHANGED << quit_, funcQueue, tmp, current,
                  isExecuteQueueFunc, call, origin >>

\* Faulty: one functor is taken and the others are lost.
SwapQueueTakingOne ==
  /\ pc = "execute"
  /\ pc' = "running"
  /\ isExecuteQueueFunc' = TRUE
  /\ tmp' = IF funcQueue = << >> THEN << >> ELSE << Head(funcQueue) >>
  /\ funcQueue' = << >>
  /\ UNCHANGED << quit_, wakeupFd_, woken, current, call, origin >>

\* executeQueueFunctions takes the whole queue, under the lock.
SwapQueue ==
  /\ pc = "execute"
  /\ pc' = "running"
  /\ isExecuteQueueFunc' = TRUE
  /\ tmp' = funcQueue
  /\ funcQueue' = << >>
  /\ UNCHANGED << quit_, wakeupFd_, woken, current, call, origin >>

\* func() is called ...
StartFunc ==
  /\ pc = "running"
  /\ current = NoTask
  /\ tmp # << >>
  /\ current' = Head(tmp)
  /\ tmp' = Tail(tmp)
  /\ origin' = [origin EXCEPT ![Head(tmp)] = "none"]
  /\ UNCHANGED << pc, quit_, wakeupFd_, woken, funcQueue,
                  isExecuteQueueFunc, call >>

\* ... and returns.
FinishFunc ==
  /\ current # NoTask
  /\ current' = NoTask
  /\ UNCHANGED << pc, quit_, wakeupFd_, woken, funcQueue, tmp,
                  isExecuteQueueFunc, call, origin >>

\* Faulty: batches are taken until no functor is left.
FinishExecuteWhenEmpty ==
  /\ pc = "running"
  /\ current = NoTask
  /\ tmp = << >>
  /\ pc' = IF funcQueue = << >> THEN "test" ELSE "execute"
  /\ isExecuteQueueFunc' = FALSE
  /\ UNCHANGED << quit_, wakeupFd_, woken, funcQueue, tmp, current,
                  call, origin >>

\* The batch is done.
FinishExecute ==
  /\ pc = "running"
  /\ current = NoTask
  /\ tmp = << >>
  /\ pc' = "test"
  /\ isExecuteQueueFunc' = FALSE
  /\ UNCHANGED << quit_, wakeupFd_, woken, funcQueue, tmp, current,
                  call, origin >>

-----------------------------------------------------------------------------
(* EventLoop::queueInLoop, runInLoop and quit.                              *)

\* What EventLoop::wakeup writes to the eventfd, which adds it to its counter.
WakeupValue == 0

Wakeup == wakeupFd_' = wakeupFd_ + WakeupValue

\* The bound of the model: a functor is queued at most once at a time.
Pending == ToSet(tmp) \cup ToSet(funcQueue)

\* Faulty: the newest functor goes first.
PushFront(t, from) ==
  /\ t \notin Pending
  /\ funcQueue' = << t >> \o funcQueue
  /\ origin' = [origin EXCEPT ![t] = from]

\* funcQueue.push_back(cb), under the lock.
PushBack(t, from) ==
  /\ t \notin Pending
  /\ funcQueue' = Append(funcQueue, t)
  /\ origin' = [origin EXCEPT ![t] = from]

\* The loop thread runs user code: before or after loop(), in the callback of
\* a channel, or in a functor.
InUserCode == pc \in {"idle", "handling"} \/ current # NoTask

\* queueInLoop by the loop thread.  Nothing but its own poll reads the eventfd,
\* so the push and the wakeup are one step.
QueueInLoop(t) ==
  /\ InUserCode
  /\ PushBack(t, pc)
  /\ IF isExecuteQueueFunc THEN Wakeup ELSE UNCHANGED wakeupFd_
  /\ UNCHANGED << pc, quit_, woken, tmp, current, isExecuteQueueFunc,
                  call >>

\* queueInLoop by another thread: its push ...
QueueFromThread(th, t) ==
  /\ call[th] = "none"
  /\ PushBack(t, "other")
  /\ call' = [call EXCEPT ![th] = "wakeup"]
  /\ UNCHANGED << pc, quit_, wakeupFd_, woken, tmp, current,
                  isExecuteQueueFunc >>

\* ... and, outside the lock, its wakeup.
WakeupFromThread(th) ==
  /\ call[th] = "wakeup"
  /\ Wakeup
  /\ call' = [call EXCEPT ![th] = "none"]
  /\ UNCHANGED << pc, quit_, woken, funcQueue, tmp, current,
                  isExecuteQueueFunc, origin >>

\* quit by the loop thread, which needs no wakeup.
Quit ==
  /\ InUserCode
  /\ quit_' = TRUE
  /\ UNCHANGED << pc, wakeupFd_, woken, funcQueue, tmp, current,
                  isExecuteQueueFunc, call, origin >>

\* quit by another thread, which wakes the loop up afterwards.
QuitFromThread(th) ==
  /\ call[th] = "none"
  /\ quit_' = TRUE
  /\ call' = [call EXCEPT ![th] = "wakeup"]
  /\ UNCHANGED << pc, wakeupFd_, woken, funcQueue, tmp, current,
                  isExecuteQueueFunc, origin >>

\* runInLoop runs cb at once on the loop thread, where its calls are those of
\* the callback around it, and is queueInLoop on any other.
RunInLoop(th, t) == QueueFromThread(th, t)

-----------------------------------------------------------------------------
LoopStep == \/ TestQuit
            \/ Poll
            \/ HandleEvents
            \/ SwapQueue
            \/ StartFunc
            \/ FinishFunc
            \/ FinishExecute

Next ==
  \/ Loop
  \/ LoopStep
  \/ Quit
  \/ \E t \in Task : QueueInLoop(t)
  \/ \E th \in Thread : \/ \E t \in Task : RunInLoop(th, t)
                        \/ WakeupFromThread(th)
                        \/ QuitFromThread(th)

Spec == Init /\ [][Next]_vars

\* The loop thread is scheduled, poll returns after maxWaitTimeM at the latest,
\* callbacks and functors return, and a thread that began a call ends it.
Fairness == /\ WF_vars(LoopStep)
            /\ \A th \in Thread : WF_vars(WakeupFromThread(th))

FairSpec == Spec /\ Fairness

-----------------------------------------------------------------------------
(* Correctness.                                                             *)

TypeOK ==
  /\ pc \in PC
  /\ quit_ \in BOOLEAN
  /\ wakeupFd_ \in Nat
  /\ woken \in BOOLEAN
  /\ funcQueue \in Seq(Task)
  /\ tmp \in Seq(Task)
  /\ current \in Task \cup {NoTask}
  /\ isExecuteQueueFunc \in BOOLEAN
  /\ call \in [Thread -> {"none", "wakeup"}]
  /\ origin \in [Task -> Origin]

\* A functor that a channel's callback queues runs in the same iteration: it is
\* never left in the queue while the loop tests quit_, polls again or has left
\* loop().  This is why queueInLoop need not wake the loop up in that case.
HandlerTasksRunInSameIteration ==
  \A i \in DOMAIN funcQueue :
    origin[funcQueue[i]] = "handling" => pc \in {"handling", "execute"}

\* The queue and the batch together behave as the FIFO executor: nothing is
\* lost, doubled or reordered when the batch is swapped out while other threads
\* push.
AbstractExecutor == INSTANCE Executor WITH pending <- tmp \o funcQueue

ImplementsExecutor == AbstractExecutor!Spec

\* While loop() runs, a queued functor is eventually called, unless the loop is
\* told to quit before.
QueuedFunctionsRun ==
  \A t \in Task : (t \in Pending) ~> (current = t \/ pc = "idle")

\* Functors that queue themselves again never keep the loop from its poll.
LoopKeepsPolling == []<>(pc \in {"poll", "idle"})

\* Once quit_ is set while loop() runs, loop() returns, whatever is queued.
QuitEndsLoop == (quit_ /\ pc # "idle") ~> (pc = "idle")

-----------------------------------------------------------------------------
(* What comments of the code say and the code does not do.                  *)

\* EventLoop.h: wakeup() is to "let IO thread wake up in poll()".  When every
\* call has returned and the loop sleeps in poll over a queue with a functor
\* that was queued with a wakeup, the eventfd should be readable.
QueuedTaskWakesPoll ==
  ( /\ pc = "poll"
    /\ \A th \in Thread : call[th] = "none"
    /\ \E i \in DOMAIN funcQueue : origin[funcQueue[i]] \in {"other", "running"} )
  => wakeupFd_ > 0
=============================================================================
