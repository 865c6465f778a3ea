------------------------------- MODULE MCChat -------------------------------
(* A small instance of Chat: a client that sends two lines, one of them      *)
(* empty, and may connect again between them, and one that sends a line      *)
(* which is too long and another behind it.                                  *)
EXTENDS Chat

CONSTANTS a, b, empty, short, long

MCOwner == [k \in Conn |-> IF k = 2 THEN b ELSE a]

MCInput == [c \in Client |-> IF c = a THEN << short, empty >>
                                      ELSE << long, empty >>]

MCSize == [l \in Line |-> CASE l = empty -> 0 [] l = short -> 1 [] OTHER -> 2]
=============================================================================
