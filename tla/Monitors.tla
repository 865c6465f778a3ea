------------------------------ MODULE Monitors ------------------------------
(***************************************************************************)
(* The four examples of testCase on shared data: the latch                 *)
(* (CountDownLatch.cpp), the queue (blockingQueue.cpp), the copy-on-write   *)
(* list (post_and_traverse.cpp) and the inventory of requests that is       *)
(* locked in two orders (invenctory.cpp).  They share nothing, so a         *)
(* behaviour is one of them, and any thread makes any of its calls.         *)
(*                                                                          *)
(* What a thread does under one mutex is a step.  condition.wait gives the  *)
(* mutex up and may return without a notify.  g_ptr is taken to have been   *)
(* given an empty list, and a request to be used by one thread.             *)
(*                                                                          *)
(* What other modules call Init, Next or TypeOK has Shared before it here,  *)
(* so that the proofs about several examples can extend all of them.        *)
(***************************************************************************)
EXTENDS Integers, Sequences, FiniteSets

CONSTANTS Thread,  \* each posts and enqueues its name, and has a request
          Count,   \* of the latch
          MaxItems \* bound: items in the queue and in the list

ASSUME BoundsAssumption ==
  Count \in Nat \ {0} /\ MaxItems \in Nat \ {0} /\ "inventory" \notin Thread

VARIABLES
  example,  \* the one that runs
  pc,       \* of each thread: "idle" between calls, or where it waits
  cnt,      \* the latch
  Q,        \* the queue
  lists,    \* every FooList made so far, of which the last is g_ptr's
  tmp,      \* the list that each thread traverses, as it was, or << >>
  requests_, owner, \* the inventory, and who holds which of its mutexes
  todo      \* the requests that print_all has still to print

list      == << lists, tmp >>
inventory == << requests_, owner, todo >>
sharedVars == << example, pc, cnt, Q, list, inventory >>

Mutex == Thread \cup {"inventory"}

SharedInit ==
  /\ example \in {"latch", "queue", "list", "inventory"}
  /\ pc = [th \in Thread |-> "idle"]
  /\ cnt = Count /\ Q = << >>
  /\ lists = << << >> >> /\ tmp = [th \in Thread |-> << >>]
  /\ requests_ = {} /\ owner = [m \in Mutex |-> {}] /\ todo = {}

Goes(th, where) == pc' = [pc EXCEPT ![th] = where]

\* The threads of s go on; the one of the step returns.
Woken(th, s) == pc' = [t \in Thread |-> IF t = th THEN "idle"
                                        ELSE IF t \in s THEN "awake" ELSE pc[t]]

Waiting == {th \in Thread : pc[th] = "wait"}

-----------------------------------------------------------------------------
(* The latch.                                                               *)

\* wait_: the condition is tested when the call begins and after each wait.
Wait_(th) ==
  /\ example = "latch" /\ pc[th] \in {"idle", "awake"}
  /\ Goes(th, IF cnt > 0 THEN "wait" ELSE "idle")
  /\ UNCHANGED << example, cnt, Q, list, inventory >>

\* Faulty: notify, which wakes one thread.
NotifyOne(th) ==
  IF Waiting = {} THEN UNCHANGED pc ELSE \E t \in Waiting : Woken(th, {t})

\* "why notifyAll() instead of notify() ?"
NotifyAll(th) == Woken(th, Waiting)

CountDown(th) ==
  /\ example = "latch" /\ pc[th] = "idle" /\ cnt >= 0
  /\ cnt' = cnt - 1
  /\ IF cnt' = 0 THEN NotifyAll(th) ELSE UNCHANGED pc
  /\ UNCHANGED << example, Q, list, inventory >>

-----------------------------------------------------------------------------
(* The queue.                                                               *)

\* dequeue, which finds the queue as its last test left it.
Dequeue(th) ==
  /\ example = "queue" /\ pc[th] \in {"idle", "awake"}
  /\ IF Q = << >>
     THEN Goes(th, "wait") /\ UNCHANGED Q
     ELSE Goes(th, "idle") /\ Q' = Tail(Q)
  /\ UNCHANGED << example, cnt, list, inventory >>

Enqueue(th) ==
  /\ example = "queue" /\ pc[th] = "idle" /\ Len(Q) < MaxItems
  /\ Q' = Append(Q, th)
  /\ IF Waiting = {} THEN UNCHANGED pc ELSE \E t \in Waiting : Woken(th, {t})
  /\ UNCHANGED << example, cnt, list, inventory >>

WakeSpuriously(th) ==
  /\ pc[th] = "wait"
  /\ Goes(th, "awake")
  /\ UNCHANGED << example, cnt, Q, list, inventory >>

-----------------------------------------------------------------------------
(* The list.                                                                *)

g_ptr == Len(lists)

\* unique: no traversal holds the list of g_ptr.
Unique == \A th \in Thread : tmp[th] = << >> \/ tmp[th][1] # g_ptr

Traverse(th) ==
  /\ example = "list" /\ pc[th] = "idle"
  /\ Goes(th, "traversing")
  /\ tmp' = [tmp EXCEPT ![th] = << g_ptr, lists[g_ptr] >>]
  /\ UNCHANGED << example, cnt, Q, lists, inventory >>

EndTraverse(th) ==
  /\ pc[th] = "traversing"
  /\ Goes(th, "idle")
  /\ tmp' = [tmp EXCEPT ![th] = << >>]
  /\ UNCHANGED << example, cnt, Q, lists, inventory >>

\* Faulty: post_wrong_version1, "what is some other threads are travers()ING ?"
PushBackInPlace(item) == lists' = [lists EXCEPT ![g_ptr] = Append(@, item)]

\* To the list itself, or to a copy that g_ptr then holds.
PushBackItem(item) ==
  lists' = IF Unique THEN [lists EXCEPT ![g_ptr] = Append(@, item)]
                     ELSE Append(lists, Append(lists[g_ptr], item))

Post(th) ==
  /\ example = "list" /\ pc[th] = "idle" /\ Len(lists[g_ptr]) < MaxItems
  /\ PushBackItem(th)
  /\ UNCHANGED << example, pc, cnt, Q, tmp, inventory >>

-----------------------------------------------------------------------------
(* The inventory.                                                           *)

Free(m) == owner[m] = {}

\* process takes the mutex of the request, ...
Process(th) ==
  /\ example = "inventory" /\ pc[th] = "idle" /\ Free(th)
  /\ Goes(th, "adding")
  /\ owner' = [owner EXCEPT ![th] = {th}]
  /\ UNCHANGED << example, cnt, Q, list, requests_, todo >>

\* ... in add_ that of the inventory, ...
Add_(th) ==
  /\ pc[th] = "adding" /\ Free("inventory")
  /\ Goes(th, "processing")
  /\ requests_' = requests_ \cup {th}
  /\ UNCHANGED << example, cnt, Q, list, owner, todo >>

\* ... and gives the first up.
EndProcess(th) ==
  /\ pc[th] = "processing"
  /\ Goes(th, "idle")
  /\ owner' = [owner EXCEPT ![th] = {}]
  /\ UNCHANGED << example, cnt, Q, list, requests_, todo >>

\* print_all takes the mutex of the inventory ...
PrintAll(th) ==
  /\ example = "inventory" /\ pc[th] = "idle" /\ Free("inventory")
  /\ Goes(th, "printing")
  /\ owner' = [owner EXCEPT !["inventory"] = {th}]
  /\ todo' = requests_
  /\ UNCHANGED << example, cnt, Q, list, requests_ >>

\* ... and print_ that of each request.
Print_(th) ==
  /\ pc[th] = "printing"
  /\ \E r \in todo : Free(r) /\ todo' = todo \ {r}
  /\ UNCHANGED << example, pc, cnt, Q, list, requests_, owner >>

EndPrintAll(th) ==
  /\ pc[th] = "printing" /\ todo = {}
  /\ Goes(th, "idle")
  /\ owner' = [owner EXCEPT !["inventory"] = {}]
  /\ UNCHANGED << example, cnt, Q, list, requests_, todo >>

\* ~request.  "MutexLock lock_(mutex)" names no member and does not compile: it is
\* taken for the guard of mutex_ that the other methods have, or to lock none.
DestructRequest(th) ==
  /\ example = "inventory" /\ pc[th] = "idle" /\ Free(th)
  /\ Goes(th, "removing")
  /\ \E locked \in {{}, {th}} : owner' = [owner EXCEPT ![th] = locked]
  /\ UNCHANGED << example, cnt, Q, list, requests_, todo >>

\* Its remove_ takes the mutex of the inventory: "could cause dead lock!"
Remove_(th) ==
  /\ pc[th] = "removing" /\ Free("inventory")
  /\ Goes(th, "idle")
  /\ requests_' = requests_ \ {th}
  /\ owner' = [owner EXCEPT ![th] = {}]
  /\ UNCHANGED << example, cnt, Q, list, todo >>

-----------------------------------------------------------------------------
\* The rest of a call that a thread has begun.
Continue(th) ==
  \/ pc[th] = "awake" /\ (Wait_(th) \/ Dequeue(th))
  \/ EndTraverse(th)
  \/ Add_(th) \/ EndProcess(th) \/ Print_(th) \/ EndPrintAll(th) \/ Remove_(th)

Begin(th) ==
  \/ pc[th] = "idle" /\ (Wait_(th) \/ Dequeue(th))
  \/ CountDown(th) \/ Enqueue(th)
  \/ Traverse(th) \/ Post(th)
  \/ Process(th) \/ PrintAll(th) \/ DestructRequest(th)

SharedNext == \E th \in Thread : Begin(th) \/ Continue(th) \/ WakeSpuriously(th)

SharedSpec == SharedInit /\ [][SharedNext]_sharedVars

\* Threads are scheduled, and a mutex that is free again and again is got.
SharedFairSpec == SharedSpec /\ \A th \in Thread : SF_sharedVars(Continue(th))

-----------------------------------------------------------------------------
(* Correctness.                                                             *)

SharedTypeOK ==
  /\ pc \in [Thread -> {"idle", "wait", "awake", "traversing", "adding",
                        "processing", "printing", "removing"}]
  /\ cnt \in Int /\ Q \in Seq(Thread) /\ lists \in Seq(Seq(Thread))
  /\ \A th \in Thread : tmp[th] # << >> => tmp[th][1] \in DOMAIN lists
  /\ requests_ \subseteq Thread /\ todo \subseteq Thread
  /\ owner \in [Mutex -> SUBSET Thread]

\* A list does not change while a thread traverses it, whoever posts meanwhile,
\* and what print_all prints is still in the inventory: no request is destructed
\* before it has been printed.
TraversedIsStable ==
  /\ SharedTypeOK
  /\ \A th \in Thread : tmp[th] # << >> => lists[tmp[th][1]] = tmp[th][2]
  /\ todo \subseteq requests_

\* process or ~request, which holds the mutex of a request and wants that of the
\* inventory, and print_all, which holds that and wants the request's, wait for
\* each other: both comments "could cause dead lock!" are right.
LockCycle == \E r \in todo : pc[r] \in {"adding", "removing"} /\ owner[r] = {r}

\* Every call returns, with two exceptions: it waits as long as the latch is not
\* down or the queue is empty, and for ever in a lock cycle with print_all, the
\* only deadlock.  A ~request that locks nothing is in none.
CallsReturn ==
  \A th \in Thread :
    (pc[th] # "idle") ~> \/ pc[th] = "idle" \/ LockCycle
                         \/ example = "latch" /\ cnt > 0
                         \/ example = "queue" /\ Q = << >>
=============================================================================
