--------------------------- MODULE ConnectionLife ---------------------------
(***************************************************************************)
(* The life of the connections of a server as its user sees it: accepted on *)
(* a descriptor that no other connection has, up, down, and gone, when the  *)
(* descriptor is free again.  What TcpServer promises.                      *)
(***************************************************************************)
CONSTANTS Conn, Fd, NoFd

VARIABLES life, descriptor

Init == /\ life = [c \in Conn |-> "unborn"]
        /\ descriptor = [c \in Conn |-> NoFd]

Move(c, from, to) == life[c] = from /\ life' = [life EXCEPT ![c] = to]

Accept(c, f) ==
  /\ \A d \in Conn : descriptor[d] # f
  /\ Move(c, "unborn", "accepted")
  /\ descriptor' = [descriptor EXCEPT ![c] = f]

Up(c)   == Move(c, "accepted", "up") /\ UNCHANGED descriptor

Down(c) == Move(c, "up", "down") /\ UNCHANGED descriptor

Go(c) ==
  /\ Move(c, "down", "gone")
  /\ descriptor' = [descriptor EXCEPT ![c] = NoFd]

Next == \E c \in Conn : Up(c) \/ Down(c) \/ Go(c) \/ \E f \in Fd : Accept(c, f)

Spec == Init /\ [][Next]_<< life, descriptor >>
=============================================================================
