------------------------------ MODULE Executor ------------------------------
(***************************************************************************)
(* What EventLoop::queueInLoop promises, without threads, locks or polling: *)
(* functions run one at a time, in the order they were queued, each of them *)
(* as often as it was queued and never dropped on the way.                  *)
(***************************************************************************)
EXTENDS Sequences

CONSTANTS Task,    \* the functions that may be queued
          NoTask   \* no function is running

VARIABLES pending, \* queued and not yet started, oldest first
          current  \* the function being called, or NoTask

Init == /\ pending = << >>
        /\ current = NoTask

Submit(t) == /\ pending' = Append(pending, t)
             /\ UNCHANGED current

Start == /\ current = NoTask
         /\ pending # << >>
         /\ current' = Head(pending)
         /\ pending' = Tail(pending)

Finish == /\ current # NoTask
          /\ current' = NoTask
          /\ UNCHANGED pending

Next == \/ \E t \in Task : Submit(t)
        \/ Start
        \/ Finish

Spec == Init /\ [][Next]_<<pending, current>>
=============================================================================
