------------------------------ MODULE MCPoller ------------------------------
(* A small instance of Poller: three descriptors, 0 among them, and four     *)
(* channels, two of which share one in turn, and may be exchanged.           *)
EXTENDS Poller, FiniteSets, TLC

CONSTANTS a, b, c, d

MCChannel == {a, b, c, d}

MCFdOf == a :> 0 @@ b :> 2 @@ c :> 4 @@ d :> 0

SharingDescriptor == Permutations({a, d})

\* One connection at a time is half closed, and a destructor in a handler
\* removes one.
Few == Cardinality(shut) <= 1 /\ Cardinality(cut) <= 1
=============================================================================
