--------------------------- MODULE MCTcpConnection ---------------------------
(* A small instance of TcpConnection: a message that fits into the send      *)
(* buffer and one that does not.                                            *)
EXTENDS TcpConnection

CONSTANTS m1, m2

Sizes == [m \in Msg |-> IF m = m1 THEN 1 ELSE 2]
=============================================================================
