------------------------------ MODULE Register ------------------------------
(***************************************************************************)
(* What writing a state file promises: a reader finds one value that was   *)
(* written whole, and so it is after the power fails, the last one or an   *)
(* earlier one that the disk had not yet replaced.                         *)
(***************************************************************************)
CONSTANTS Values, First

VARIABLES
  value,   \* what a reader finds
  may      \* what the next power loss may leave

Init == value = First /\ may = {First}

Write(v)  == value' = v /\ may' = may \cup {v}
Settle    == may' = {value} /\ UNCHANGED value
PowerLoss == value' \in may /\ may' = {value'}

Next == Settle \/ PowerLoss \/ \E v \in Values : Write(v)
Spec == Init /\ [][Next]_<<value, may>>
=============================================================================
