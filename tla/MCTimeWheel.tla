---------------------------- MODULE MCTimeWheel ----------------------------
(* Small instances of TimeWheel.  Connections are interchangeable.          *)
EXTENDS TimeWheel, TLC

Symmetry == Permutations(Conn)
=============================================================================
