---------------------------- MODULE MCEventLoop ----------------------------
(* Small instances of EventLoop.  Functors and threads are interchangeable.  *)
EXTENDS EventLoop, TLC

Symmetry == Permutations(Task) \cup Permutations(Thread)
=============================================================================
