------------------------------ MODULE Download ------------------------------
(***************************************************************************)
(* What internal/provider/gmail's download promises Fetch: every id is     *)
(* dealt with once (handed to the callback, found vanished, or left out),  *)
(* nothing is dealt with after the first error, and no error is reported   *)
(* only when nothing is left.  GmailFetch.tla takes downloads for granted  *)
(* in this form; DownloadPool.tla implements it.                           *)
(***************************************************************************)
CONSTANT Ids

VARIABLES
  left,      \* ids not dealt with yet
  verdict    \* "running", "ok" or "failed"

vars == <<left, verdict>>

Init == left = Ids /\ verdict = "running"

DealWith(id) ==
  /\ verdict = "running" /\ id \in left
  /\ left' = left \ {id} /\ UNCHANGED verdict

Succeed ==
  /\ verdict = "running" /\ left = {}
  /\ verdict' = "ok" /\ UNCHANGED left

GiveUp ==
  /\ verdict = "running"
  /\ verdict' = "failed" /\ UNCHANGED left

Next == (\E id \in Ids : DealWith(id)) \/ Succeed \/ GiveUp

Spec == Init /\ [][Next]_vars
=============================================================================
