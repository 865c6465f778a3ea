-------------------------- MODULE EventLoopProofs --------------------------
(***************************************************************************)
(* Proofs about EventLoop, for any set of functors and of threads: its type *)
(* invariant, that functors queued by a handler run in the same iteration,  *)
(* and that the queue and the batch together implement the FIFO Executor.   *)
(***************************************************************************)
EXTENDS EventLoop, SequenceTheorems, TLAPS

\* A batch exists, and a functor runs, only inside executeQueueFunctions.
BatchOnlyWhileRunning ==
  /\ isExecuteQueueFunc <=> pc = "running"
  /\ current # NoTask => pc = "running"
  /\ tmp # << >> => pc = "running"

Inv == TypeOK /\ BatchOnlyWhileRunning /\ HandlerTasksRunInSameIteration

-----------------------------------------------------------------------------
(* Sequences.                                                               *)

\* Swapping the queue out does not change what is pending.
LEMMA ConcatWithEmpty ==
  ASSUME NEW S, NEW s \in Seq(S)
  PROVE  s \o << >> = << >> \o s
BY ConcatEmptySeq

\* A functor pushed at the end of the queue comes last of all.
LEMMA ConcatAppend ==
  ASSUME NEW S, NEW s \in Seq(S), NEW q \in Seq(S), NEW e \in S
  PROVE  s \o Append(q, e) = Append(s \o q, e)
<1>1. << e >> \in Seq(S)
  OBVIOUS
<1>2. s \o q \in Seq(S)
  BY ConcatProperties
<1>3. /\ Append(q, e) = q \o << e >>
      /\ Append(s \o q, e) = (s \o q) \o << e >>
  BY <1>2, AppendIsConcat
<1>4. QED
  BY <1>1, <1>3, ConcatAssociative

\* Taking the first functor of the batch takes the oldest of all.
LEMMA HeadTailConcat ==
  ASSUME NEW S, NEW s \in Seq(S), NEW q \in Seq(S), s # << >>
  PROVE  /\ s \o q # << >>
         /\ Head(s \o q) = Head(s)
         /\ Tail(s \o q) = Tail(s) \o q
<1>1. /\ Head(s) \in S
      /\ Tail(s) \in Seq(S)
      /\ s = << Head(s) >> \o Tail(s)
  OBVIOUS
<1>2. DEFINE h == << Head(s) >>
             r == Tail(s) \o q
<1>3. h \in Seq(S) /\ r \in Seq(S)
  BY <1>1, ConcatProperties
<1>4. s \o q = h \o r
  BY <1>1, <1>3, ConcatAssociative
<1>5. /\ h \o r # << >>
      /\ Head(h \o r) = Head(s)
      /\ Tail(h \o r) = r
  <2> HIDE DEF r
  <2>1. h = << Head(s) >>
    OBVIOUS
  <2>2. QED
    BY <1>1, <1>3, <2>1
<1>6. QED
  BY <1>4, <1>5

-----------------------------------------------------------------------------
(* The inductive invariant.                                                 *)

LEMMA InitInv == Init => Inv
<1> SUFFICES ASSUME Init PROVE Inv
  OBVIOUS
<1>1. TypeOK
  <2>1. funcQueue \in Seq(Task) /\ tmp \in Seq(Task)
    BY EmptySeq DEF Init
  <2>2. origin \in [Task -> Origin] /\ call \in [Thread -> {"none", "wakeup"}]
    BY DEF Init, Origin
  <2>3. QED
    BY <2>1, <2>2 DEF Init, TypeOK, PC
<1>2. BatchOnlyWhileRunning
  BY DEF Init, BatchOnlyWhileRunning
<1>3. HandlerTasksRunInSameIteration
  BY DEF Init, HandlerTasksRunInSameIteration
<1>4. QED
  BY <1>1, <1>2, <1>3 DEF Inv

\* A step that leaves the queue alone and does not move the loop out of the
\* handlers disturbs no functor that a handler queued.
LEMMA PushKeepsHandlerTasks ==
  ASSUME Inv, NEW t \in Task, NEW from \in Origin, PushBack(t, from),
         UNCHANGED pc, from = "handling" => pc = "handling"
  PROVE  /\ funcQueue' \in Seq(Task)
         /\ origin' \in [Task -> Origin]
         /\ HandlerTasksRunInSameIteration'
<1>1. /\ funcQueue \in Seq(Task)
      /\ origin \in [Task -> Origin]
  BY DEF Inv, TypeOK
<1>2. /\ funcQueue' = Append(funcQueue, t)
      /\ origin' = [origin EXCEPT ![t] = from]
  BY DEF PushBack
<1>3. funcQueue' \in Seq(Task) /\ origin' \in [Task -> Origin]
  BY <1>1, <1>2
<1>4. ASSUME NEW i \in DOMAIN funcQueue', origin'[funcQueue'[i]] = "handling"
      PROVE  pc' \in {"handling", "execute"}
  <2>1. CASE funcQueue'[i] = t
    BY <1>1, <1>2, <1>4, <2>1
  <2>2. CASE funcQueue'[i] # t
    <3>1. i \in DOMAIN funcQueue /\ funcQueue'[i] = funcQueue[i]
      BY <1>1, <1>2, <2>2
    <3>2. funcQueue[i] \in Task /\ origin[funcQueue[i]] = "handling"
      BY <1>1, <1>2, <1>4, <2>2, <3>1
    <3>3. QED
      BY <3>1, <3>2 DEF Inv, HandlerTasksRunInSameIteration
  <2>3. QED
    BY <2>1, <2>2
<1>5. QED
  BY <1>3, <1>4 DEF HandlerTasksRunInSameIteration

LEMMA NextInv == Inv /\ [Next]_vars => Inv'
<1> SUFFICES ASSUME Inv, [Next]_vars
             PROVE  Inv'
  OBVIOUS
<1> USE NoTaskAssumption
<1>1. CASE Loop
  BY <1>1 DEF Loop, Inv, TypeOK, PC, BatchOnlyWhileRunning,
              HandlerTasksRunInSameIteration
<1>2. CASE TestQuit
  BY <1>2 DEF TestQuit, Inv, TypeOK, PC, BatchOnlyWhileRunning,
              HandlerTasksRunInSameIteration
<1>3. CASE Poll
  BY <1>3 DEF Poll, Inv, TypeOK, PC, BatchOnlyWhileRunning,
              HandlerTasksRunInSameIteration
<1>4. CASE HandleEvents
  BY <1>4 DEF HandleEvents, HandleRead, Inv, TypeOK, PC, BatchOnlyWhileRunning,
              HandlerTasksRunInSameIteration
<1>5. CASE SwapQueue
  BY <1>5 DEF SwapQueue, Inv, TypeOK, PC, BatchOnlyWhileRunning,
              HandlerTasksRunInSameIteration
<1>6. CASE StartFunc
  <2>1. Head(tmp) \in Task /\ Tail(tmp) \in Seq(Task)
    BY <1>6 DEF StartFunc, Inv, TypeOK
  <2>2. TypeOK'
    BY <1>6, <2>1 DEF StartFunc, Inv, TypeOK, Origin
  <2>3. BatchOnlyWhileRunning'
    BY <1>6 DEF StartFunc, Inv, BatchOnlyWhileRunning
  <2>4. HandlerTasksRunInSameIteration'
    BY <1>6, <2>1 DEF StartFunc, Inv, TypeOK, HandlerTasksRunInSameIteration
  <2>5. QED
    BY <2>2, <2>3, <2>4 DEF Inv
<1>7. CASE FinishFunc
  BY <1>7 DEF FinishFunc, Inv, TypeOK, PC, BatchOnlyWhileRunning,
              HandlerTasksRunInSameIteration
<1>8. CASE FinishExecute
  BY <1>8 DEF FinishExecute, Inv, TypeOK, PC, BatchOnlyWhileRunning,
              HandlerTasksRunInSameIteration
<1>9. CASE Quit
  BY <1>9 DEF Quit, Inv, TypeOK, PC, BatchOnlyWhileRunning,
              HandlerTasksRunInSameIteration
<1>10. ASSUME NEW t \in Task, QueueInLoop(t)
       PROVE  Inv'
  <2>1. pc \in Origin /\ UNCHANGED pc
    BY <1>10 DEF QueueInLoop, InUserCode, Inv, BatchOnlyWhileRunning, Origin
  <2>2. PushBack(t, pc)
    BY <1>10 DEF QueueInLoop
  <2>3. wakeupFd_' \in Nat
    BY <1>10 DEF QueueInLoop, Wakeup, WakeupValue, Inv, TypeOK
  <2>4. QED
    BY <1>10, <2>1, <2>2, <2>3, PushKeepsHandlerTasks
    DEF QueueInLoop, Inv, TypeOK, BatchOnlyWhileRunning
<1>11. ASSUME NEW th \in Thread, NEW t \in Task, RunInLoop(th, t)
       PROVE  Inv'
  <2>1. PushBack(t, "other") /\ UNCHANGED pc
    BY <1>11 DEF RunInLoop, QueueFromThread
  <2>2. "other" \in Origin /\ "other" # "handling"
    BY DEF Origin
  <2>3. call' \in [Thread -> {"none", "wakeup"}]
    BY <1>11 DEF RunInLoop, QueueFromThread, Inv, TypeOK
  <2>4. QED
    BY <1>11, <2>1, <2>2, <2>3, PushKeepsHandlerTasks
    DEF RunInLoop, QueueFromThread, Inv, TypeOK, BatchOnlyWhileRunning
<1>12. ASSUME NEW th \in Thread, WakeupFromThread(th)
       PROVE  Inv'
  BY <1>12 DEF WakeupFromThread, Wakeup, WakeupValue, Inv, TypeOK, PC,
               BatchOnlyWhileRunning, HandlerTasksRunInSameIteration
<1>13. ASSUME NEW th \in Thread, QuitFromThread(th)
       PROVE  Inv'
  BY <1>13 DEF QuitFromThread, Inv, TypeOK, PC, BatchOnlyWhileRunning,
               HandlerTasksRunInSameIteration
<1>14. CASE UNCHANGED vars
  BY <1>14 DEF vars, Inv, TypeOK, BatchOnlyWhileRunning,
               HandlerTasksRunInSameIteration
<1>15. QED
  BY <1>1, <1>2, <1>3, <1>4, <1>5, <1>6, <1>7, <1>8, <1>9, <1>10, <1>11,
     <1>12, <1>13, <1>14 DEF Next, LoopStep

LEMMA SpecInv == Spec => []Inv
BY InitInv, NextInv, PTL DEF Spec

-----------------------------------------------------------------------------
(* Theorems.                                                                *)

\* The variables of the loop, its queue and its threads keep their types.
THEOREM TypeCorrect == Spec => []TypeOK
<1>1. Inv => TypeOK
  BY DEF Inv
<1>2. QED
  BY <1>1, SpecInv, PTL

\* A functor queued by the callback of a channel is called before loop() tests
\* quit_ or polls again: what the comment in queueInLoop relies on when it does
\* without a wakeup.
THEOREM HandlerTasksAreNotDelayed == Spec => []HandlerTasksRunInSameIteration
<1>1. Inv => HandlerTasksRunInSameIteration
  BY DEF Inv
<1>2. QED
  BY <1>1, SpecInv, PTL

\* Every step of the loop and of its callers is a step of the executor, or
\* changes nothing that it shows.
LEMMA StepImplementsExecutor ==
  Inv /\ [Next]_vars
    => [AbstractExecutor!Next]_<< tmp \o funcQueue, current >>
<1> SUFFICES ASSUME Inv, [Next]_vars
             PROVE  \/ AbstractExecutor!Next
                    \/ UNCHANGED << tmp \o funcQueue, current >>
  BY DEF vars
<1> DEFINE pending == tmp \o funcQueue
<1>0. /\ tmp \in Seq(Task)
      /\ funcQueue \in Seq(Task)
  BY DEF Inv, TypeOK
<1>1. CASE SwapQueue
  <2>1. tmp = << >> /\ pending' = funcQueue \o << >>
    BY <1>1 DEF SwapQueue, Inv, BatchOnlyWhileRunning
  <2>2. pending' = pending
    BY <1>0, <2>1, ConcatWithEmpty
  <2>3. QED
    BY <1>1, <2>2 DEF SwapQueue
<1>2. CASE StartFunc
  <2>1. /\ current = NoTask
        /\ tmp # << >>
        /\ current' = Head(tmp)
        /\ pending' = Tail(tmp) \o funcQueue
    BY <1>2 DEF StartFunc
  <2>2. /\ pending # << >>
        /\ Head(pending) = Head(tmp)
        /\ Tail(pending) = Tail(tmp) \o funcQueue
    BY <1>0, <2>1, HeadTailConcat
  <2>3. AbstractExecutor!Start
    BY <2>1, <2>2 DEF AbstractExecutor!Start
  <2>4. QED
    BY <2>3 DEF AbstractExecutor!Next
<1>3. CASE FinishFunc
  <2>1. AbstractExecutor!Finish
    BY <1>3 DEF FinishFunc, AbstractExecutor!Finish
  <2>2. QED
    BY <2>1 DEF AbstractExecutor!Next
<1>4. ASSUME NEW t \in Task, NEW from, PushBack(t, from),
             UNCHANGED << tmp, current >>
      PROVE  AbstractExecutor!Next
  <2>1. pending' = Append(pending, t)
    BY <1>0, <1>4, ConcatAppend DEF PushBack
  <2>2. AbstractExecutor!Submit(t)
    BY <1>4, <2>1 DEF AbstractExecutor!Submit
  <2>3. QED
    BY <2>2 DEF AbstractExecutor!Next
<1>5. ASSUME NEW t \in Task, QueueInLoop(t)
      PROVE  AbstractExecutor!Next
  BY <1>4, <1>5 DEF QueueInLoop
<1>6. ASSUME NEW th \in Thread, NEW t \in Task, RunInLoop(th, t)
      PROVE  AbstractExecutor!Next
  BY <1>4, <1>6 DEF RunInLoop, QueueFromThread
<1>7. CASE UNCHANGED << tmp, funcQueue, current >>
  BY <1>7
<1>8. QED
  BY <1>1, <1>2, <1>3, <1>5, <1>6, <1>7
  DEF Next, LoopStep, vars, Loop, TestQuit, Poll, HandleEvents, FinishExecute,
      Quit, WakeupFromThread, QuitFromThread

\* However the loop swaps its queue out while other threads push, functors run
\* one at a time, in the order of their queueInLoop calls, none lost or doubled.
THEOREM LoopIsAnExecutor == Spec => ImplementsExecutor
<1>1. Init => AbstractExecutor!Init
  <2>1. << >> \o << >> = << >>
    BY ConcatEmptySeq, EmptySeq
  <2>2. QED
    BY <2>1 DEF Init, AbstractExecutor!Init
<1>2. QED
  BY <1>1, SpecInv, StepImplementsExecutor, PTL
  DEF Spec, ImplementsExecutor, AbstractExecutor!Spec
=============================================================================
