------------------------------ MODULE PollSet ------------------------------
(***************************************************************************)
(* What the Poller promises the channels: a table from registered channels  *)
(* to what ::poll watches for them, where changing or removing the entry of *)
(* one channel leaves the entries of the others alone.                      *)
(***************************************************************************)
CONSTANTS Channel, Watch  \* the channels, and what may be watched for one

VARIABLE table

Init == table = [ch \in {} |-> {}]

Set(ch, w) ==
  table' = [c \in DOMAIN table \cup {ch} |-> IF c = ch THEN w ELSE table[c]]

Remove(ch) ==
  /\ ch \in DOMAIN table
  /\ table' = [c \in DOMAIN table \ {ch} |-> table[c]]

Next == \E ch \in Channel : Remove(ch) \/ \E w \in Watch : Set(ch, w)

Spec == Init /\ [][Next]_table
=============================================================================
