---------------------------- MODULE DownloadPool ----------------------------
(***************************************************************************)
(* The worker pool of download (internal/provider/gmail/fetch.go): one     *)
(* goroutine feeds the ids, in order, to the workers; the workers download *)
(* and pass their results to the caller's goroutine, which alone calls fn; *)
(* one more goroutine closes the result channel when the workers are gone. *)
(*                                                                         *)
(* Both channels are unbuffered: a send and its receive are one step.  A   *)
(* select with several ready cases takes any of them.                      *)
(***************************************************************************)
EXTENDS Naturals, FiniteSets

CONSTANTS
  NIds,          \* how many messages are pending
  Concurrency    \* FetchOptions.Concurrency

ASSUME SizeAssumption == NIds \in Nat \ {0} /\ Concurrency \in Nat \ {0}

Ids     == 1..NIds
Workers == 1..(IF Concurrency > NIds THEN NIds ELSE Concurrency)

VARIABLES
  parent,      \* the caller's context is cancelled
  cancelled,   \* the pool's own cancel was called
  next,        \* the feeder's position
  feeding,     \* idCh is open
  at,          \* what each worker does
  held,        \* the id it works on
  answer,      \* what getRaw said of it
  open,        \* resCh is open
  consumer,    \* what the caller's goroutine does
  handing,     \* the id whose message fn has
  failed,      \* firstErr # nil
  left,        \* ids fn has not accepted, nor anybody left out
  verdict      \* what download returned

feed == <<next, feeding>>
work == <<at, held, answer>>
loop == <<consumer, handing, failed, left, verdict>>
vars == <<parent, cancelled, feed, work, open, loop>>

Done == parent \/ cancelled

\* The answers of getRaw: a message for fn, one that vanished or is left out as
\* spam, or an error.
Answers == {"raw", "none", "error"}
-----------------------------------------------------------------------------
\* The caller's context is cancelled.
CancelParent ==
  /\ ~parent /\ parent' = TRUE
  /\ UNCHANGED <<cancelled, feed, work, open, loop>>

\* The feeder sends the next id and worker w receives it.
Feed(w) ==
  /\ feeding /\ next \in Ids /\ at[w] = "waiting"
  /\ next' = next + 1
  /\ at' = [at EXCEPT ![w] = "downloading"] /\ held' = [held EXCEPT ![w] = next]
  /\ UNCHANGED <<parent, cancelled, feeding, answer, open, loop>>

\* Mutant: the feeder does not watch the context.
StopFeedingDeaf ==
  /\ feeding /\ next \notin Ids
  /\ feeding' = FALSE
  /\ UNCHANGED <<parent, cancelled, next, work, open, loop>>
\* Everything was fed, or the context is done: idCh is closed.
StopFeeding ==
  /\ feeding /\ (next \notin Ids \/ Done)
  /\ feeding' = FALSE
  /\ UNCHANGED <<parent, cancelled, next, work, open, loop>>

\* getRaw returns.  Under a cancelled context it may be an error, or come too late.
Download(w) ==
  /\ at[w] = "downloading"
  /\ at' = [at EXCEPT ![w] = "sending"]
  /\ \E a \in Answers : answer' = [answer EXCEPT ![w] = a]
  /\ UNCHANGED <<parent, cancelled, feed, held, open, loop>>

\* The worker takes the other case of its select.
GiveUp(w) ==
  /\ at[w] = "sending" /\ Done
  /\ at' = [at EXCEPT ![w] = "gone"]
  /\ UNCHANGED <<parent, cancelled, feed, held, answer, open, loop>>

\* The range over idCh ends.
Quit(w) ==
  /\ at[w] = "waiting" /\ ~feeding
  /\ at' = [at EXCEPT ![w] = "gone"]
  /\ UNCHANGED <<parent, cancelled, feed, held, answer, open, loop>>

\* wg.Wait returns.
Close ==
  /\ open /\ \A w \in Workers : at[w] = "gone"
  /\ open' = FALSE
  /\ UNCHANGED <<parent, cancelled, feed, work, loop>>

\* The caller's goroutine receives worker w's result.
Receives(w) ==
  /\ at[w] = "sending" /\ consumer = "receiving"
  /\ at' = [at EXCEPT ![w] = "waiting"]
  /\ UNCHANGED <<parent, feed, held, answer, open, verdict>>

\* Mutant: results that come in after an error are handled like the others.
DrainHanding(w) ==
  /\ Receives(w) /\ failed
  /\ IF answer[w] = "raw"
     THEN consumer' = "handing" /\ handing' = held[w]
     ELSE UNCHANGED <<consumer, handing>>
  /\ UNCHANGED <<cancelled, failed, left>>
\* After the first error results are only drained.
Drain(w) ==
  /\ Receives(w) /\ failed
  /\ UNCHANGED <<cancelled, consumer, handing, failed, left>>

LeaveOut(w) ==
  /\ Receives(w) /\ ~failed /\ answer[w] = "none"
  /\ left' = left \ {held[w]}
  /\ UNCHANGED <<cancelled, consumer, handing, failed>>

FirstError(w) ==
  /\ Receives(w) /\ ~failed /\ answer[w] = "error"
  /\ failed' = TRUE /\ cancelled' = TRUE
  /\ UNCHANGED <<consumer, handing, left>>

CallBack(w) ==
  /\ Receives(w) /\ ~failed /\ answer[w] = "raw"
  /\ consumer' = "handing" /\ handing' = held[w]
  /\ UNCHANGED <<cancelled, failed, left>>

\* fn returns.
Accepted ==
  /\ consumer = "handing" /\ consumer' = "receiving"
  /\ left' = left \ {handing} /\ handing' = 0
  /\ UNCHANGED <<parent, cancelled, feed, work, open, failed, verdict>>

Rejected ==
  /\ consumer = "handing" /\ consumer' = "receiving" /\ handing' = 0
  /\ failed' = TRUE /\ cancelled' = TRUE
  /\ UNCHANGED <<parent, feed, work, open, left, verdict>>

\* Mutant: no result was an error, so all is well.
ReturnUnasked ==
  /\ consumer = "receiving" /\ ~open
  /\ consumer' = "returned" /\ cancelled' = TRUE
  /\ verdict' = IF failed THEN "failed" ELSE "ok"
  /\ UNCHANGED <<parent, feed, work, open, handing, failed, left>>
\* resCh is closed and empty: the first error, or the caller's context's.
Return ==
  /\ consumer = "receiving" /\ ~open
  /\ consumer' = "returned" /\ cancelled' = TRUE
  /\ verdict' = IF failed \/ parent THEN "failed" ELSE "ok"
  /\ UNCHANGED <<parent, feed, work, open, handing, failed, left>>
-----------------------------------------------------------------------------
Init ==
  /\ parent = FALSE /\ cancelled = FALSE /\ next = 1 /\ feeding = TRUE
  /\ at = [w \in Workers |-> "waiting"] /\ held = [w \in Workers |-> 0]
  /\ answer = [w \in Workers |-> "none"] /\ open = TRUE
  /\ consumer = "receiving" /\ handing = 0 /\ failed = FALSE
  /\ left = Ids /\ verdict = "running"

Pool ==
  \/ StopFeeding \/ Close \/ Accepted \/ Rejected \/ Return
  \/ \E w \in Workers :
       \/ Feed(w) \/ Download(w) \/ GiveUp(w) \/ Quit(w)
       \/ Drain(w) \/ LeaveOut(w) \/ FirstError(w) \/ CallBack(w)

Next == Pool \/ CancelParent

Spec     == Init /\ [][Next]_vars
FairSpec == Spec /\ WF_vars(Pool)
-----------------------------------------------------------------------------
(* Properties.                                                             *)

TypeOK ==
  /\ {parent, cancelled, feeding, open, failed} \subseteq BOOLEAN
  /\ next \in 1..(NIds + 1)
  /\ at \in [Workers -> {"waiting", "downloading", "sending", "gone"}]
  /\ held \in [Workers -> 0..NIds] /\ answer \in [Workers -> Answers]
  /\ consumer \in {"receiving", "handing", "returned"} /\ handing \in 0..NIds
  /\ left \subseteq Ids /\ verdict \in {"running", "ok", "failed"}

Promise ==
  INSTANCE Download WITH
    verdict <- IF failed /\ verdict = "running" THEN "failed" ELSE verdict

\* The pool keeps download's promise: no id is dealt with twice, none after the
\* first error, and a cancelled download is never taken for a finished one, which
\* would let the cursor pass mail nobody downloaded.
KeepsPromise == Promise!Spec

\* fn is not called again once it, or a download, failed (fetch.go:211-213).
NoCallAfterError == [][failed => consumer' # "handing"]_vars

\* download returns, and none of its goroutines outlives it for long, whatever
\* fails and whenever the context is cancelled.
NothingLeaks ==
  <>(/\ consumer = "returned" /\ ~feeding /\ ~open
     /\ \A w \in Workers : at[w] = "gone")
=============================================================================
