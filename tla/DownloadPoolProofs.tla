-------------------------- MODULE DownloadPoolProofs --------------------------
(***************************************************************************)
(* Proofs about DownloadPool, for any number of ids and workers.           *)
(*                                                                         *)
(* The argument.  An id that left does not contain was dealt with; one     *)
(* that it contains is, as long as nothing failed and nobody cancelled,    *)
(* not fed yet, with exactly one worker, or with fn (Covered).  A worker   *)
(* goes away in peace only when everything was fed (Fed).  So when the     *)
(* last one has gone, in peace, nothing is left.                           *)
(***************************************************************************)
EXTENDS DownloadPool, TLAPS

Busy(w) == at[w] \in {"downloading", "sending"}
Peace   == ~failed /\ ~parent

\* Who has an id has it alone, and it is still to be dealt with.
Exclusive ==
  /\ \A w \in Workers : Busy(w) => held[w] \in left /\ held[w] < next
  /\ \A v, w \in Workers : Busy(v) /\ Busy(w) /\ v # w => held[v] # held[w]
  /\ consumer = "handing" =>
       /\ handing \in left /\ handing < next
       /\ \A w \in Workers : Busy(w) => held[w] # handing
  /\ \A i \in Ids : i >= next => i \in left

\* Nothing is left that nobody has.
Covered ==
  Peace =>
    \A i \in left :
      \/ i >= next
      \/ \E w \in Workers : Busy(w) /\ held[w] = i
      \/ consumer = "handing" /\ handing = i

\* In peace the feeder and the workers end in the order they should.
Fed ==
  Peace =>
    /\ ~feeding => next = NIds + 1
    /\ \A w \in Workers : at[w] = "gone" => ~feeding

\* What the caller's goroutine knows.
Consumed ==
  /\ consumer = "handing" => ~failed
  /\ consumer = "returned" => ~open
  /\ consumer = "returned" <=> verdict # "running"
  /\ ~open => \A w \in Workers : at[w] = "gone"
  /\ cancelled => failed \/ consumer = "returned"

IInv == TypeOK /\ Exclusive /\ Covered /\ Fed /\ Consumed

-----------------------------------------------------------------------------
\* No step leaves the types.
LEMMA TypeStep ==
  ASSUME IInv, [Next]_vars
  PROVE  TypeOK'
<1> USE SizeAssumption DEF IInv, TypeOK, Ids, Workers, Answers, feed, work, loop, Done, Busy
<1>1. CASE CancelParent
  BY <1>1 DEF CancelParent
<1>2. CASE StopFeeding
  BY <1>2 DEF StopFeeding
<1>3. CASE Close
  BY <1>3 DEF Close
<1>4. CASE Accepted
  BY <1>4 DEF Accepted
<1>5. CASE Rejected
  BY <1>5 DEF Rejected
<1>6. CASE Return
  BY <1>6 DEF Return
<1>7. CASE \E w \in Workers : Feed(w)
  BY <1>7 DEF Feed
<1>8. CASE \E w \in Workers : Download(w)
  BY <1>8 DEF Download
<1>9. CASE \E w \in Workers : GiveUp(w)
  BY <1>9 DEF GiveUp
<1>10. CASE \E w \in Workers : Quit(w)
  BY <1>10 DEF Quit
<1>11. CASE \E w \in Workers : Drain(w)
  BY <1>11 DEF Drain, Receives
<1>12. CASE \E w \in Workers : LeaveOut(w)
  BY <1>12 DEF LeaveOut, Receives
<1>13. CASE \E w \in Workers : FirstError(w)
  BY <1>13 DEF FirstError, Receives
<1>14. CASE \E w \in Workers : CallBack(w)
  BY <1>14 DEF CallBack, Receives
<1>15. CASE UNCHANGED vars
  BY <1>15 DEF vars
<1>q. QED
  BY <1>1, <1>2, <1>3, <1>4, <1>5, <1>6, <1>7, <1>8, <1>9, <1>10, <1>11, <1>12, <1>13, <1>14, <1>15 DEF Next, Pool

-----------------------------------------------------------------------------
\* No step gives an id to two, or away while it is dealt with: held and handing are
\* ids that left still contains.
LEMMA ExclusiveStep ==
  ASSUME IInv, [Next]_vars
  PROVE  Exclusive'
<1> USE SizeAssumption DEF IInv, TypeOK, Ids, Workers, Answers, feed, work, loop, Done, Exclusive, Busy, Consumed
<1>1. CASE CancelParent
  BY <1>1 DEF CancelParent
<1>2. CASE StopFeeding
  BY <1>2 DEF StopFeeding
<1>3. CASE Close
  BY <1>3 DEF Close
<1>4. CASE Accepted
  BY <1>4 DEF Accepted
<1>5. CASE Rejected
  BY <1>5 DEF Rejected
<1>6. CASE Return
  BY <1>6 DEF Return
<1>7. CASE \E w \in Workers : Feed(w)
  BY <1>7 DEF Feed
<1>8. CASE \E w \in Workers : Download(w)
  BY <1>8 DEF Download
<1>9. CASE \E w \in Workers : GiveUp(w)
  BY <1>9 DEF GiveUp
<1>10. CASE \E w \in Workers : Quit(w)
  BY <1>10 DEF Quit
<1>11. CASE \E w \in Workers : Drain(w)
  BY <1>11 DEF Drain, Receives
<1>12. CASE \E w \in Workers : LeaveOut(w)
  BY <1>12 DEF LeaveOut, Receives
<1>13. CASE \E w \in Workers : FirstError(w)
  BY <1>13 DEF FirstError, Receives
<1>14. CASE \E w \in Workers : CallBack(w)
  BY <1>14 DEF CallBack, Receives
<1>15. CASE UNCHANGED vars
  BY <1>15 DEF vars
<1>q. QED
  BY <1>1, <1>2, <1>3, <1>4, <1>5, <1>6, <1>7, <1>8, <1>9, <1>10, <1>11, <1>12, <1>13, <1>14, <1>15 DEF Next, Pool

-----------------------------------------------------------------------------
\* No step loses sight of an id while nothing failed and nobody cancelled.
LEMMA CoveredStep ==
  ASSUME IInv, [Next]_vars
  PROVE  Covered'
<1> USE SizeAssumption DEF IInv, TypeOK, Ids, Workers, Answers, feed, work, loop, Done, Covered, Exclusive, Peace, Busy, Consumed
<1>1. CASE CancelParent
  BY <1>1 DEF CancelParent
<1>2. CASE StopFeeding
  BY <1>2 DEF StopFeeding
<1>3. CASE Close
  BY <1>3 DEF Close
<1>4. CASE Accepted
  BY <1>4 DEF Accepted
<1>5. CASE Rejected
  BY <1>5 DEF Rejected
<1>6. CASE Return
  BY <1>6 DEF Return
<1>7. CASE \E w \in Workers : Feed(w)
  <2>1. PICK w \in Workers : Feed(w)
    BY <1>7
  <2>2. SUFFICES ASSUME Peace', NEW i \in left
                 PROVE  \/ i >= next'
                        \/ \E v \in Workers : Busy(v)' /\ held'[v] = i
                        \/ consumer' = "handing" /\ handing' = i
    BY <2>1 DEF Feed
  <2>3. CASE i = next
    <3>1. Busy(w)' /\ held'[w] = i
      BY <2>1, <2>3 DEF Feed
    <3>q. QED
      BY <3>1
  <2>4. CASE i > next
    BY <2>1, <2>4 DEF Feed
  <2>5. CASE \E v \in Workers : Busy(v) /\ held[v] = i
    <3>1. PICK v \in Workers : Busy(v) /\ held[v] = i
      BY <2>5
    <3>2. Busy(v)' /\ held'[v] = i
      BY <2>1, <3>1 DEF Feed
    <3>q. QED
      BY <3>2
  <2>6. CASE consumer = "handing" /\ handing = i
    BY <2>1, <2>6 DEF Feed
  <2>q. QED
    BY <2>1, <2>2, <2>3, <2>4, <2>5, <2>6 DEF Feed
<1>8. CASE \E w \in Workers : Download(w)
  BY <1>8 DEF Download
<1>9. CASE \E w \in Workers : GiveUp(w)
  BY <1>9 DEF GiveUp
<1>10. CASE \E w \in Workers : Quit(w)
  BY <1>10 DEF Quit
<1>11. CASE \E w \in Workers : Drain(w)
  BY <1>11 DEF Drain, Receives
<1>12. CASE \E w \in Workers : LeaveOut(w)
  BY <1>12 DEF LeaveOut, Receives
<1>13. CASE \E w \in Workers : FirstError(w)
  BY <1>13 DEF FirstError, Receives
<1>14. CASE \E w \in Workers : CallBack(w)
  BY <1>14 DEF CallBack, Receives
<1>15. CASE UNCHANGED vars
  BY <1>15 DEF vars
<1>q. QED
  BY <1>1, <1>2, <1>3, <1>4, <1>5, <1>6, <1>7, <1>8, <1>9, <1>10, <1>11, <1>12, <1>13, <1>14, <1>15 DEF Next, Pool

-----------------------------------------------------------------------------
\* Nobody stops early in peace: idCh is closed after the last id, and a worker goes
\* only when it is closed.
LEMMA FedStep ==
  ASSUME IInv, [Next]_vars
  PROVE  Fed'
<1> USE SizeAssumption DEF IInv, TypeOK, Ids, Workers, Answers, feed, work, loop, Done, Fed, Peace, Consumed
<1>1. CASE CancelParent
  BY <1>1 DEF CancelParent
<1>2. CASE StopFeeding
  BY <1>2 DEF StopFeeding
<1>3. CASE Close
  BY <1>3 DEF Close
<1>4. CASE Accepted
  BY <1>4 DEF Accepted
<1>5. CASE Rejected
  BY <1>5 DEF Rejected
<1>6. CASE Return
  BY <1>6 DEF Return
<1>7. CASE \E w \in Workers : Feed(w)
  BY <1>7 DEF Feed
<1>8. CASE \E w \in Workers : Download(w)
  BY <1>8 DEF Download
<1>9. CASE \E w \in Workers : GiveUp(w)
  BY <1>9 DEF GiveUp
<1>10. CASE \E w \in Workers : Quit(w)
  BY <1>10 DEF Quit
<1>11. CASE \E w \in Workers : Drain(w)
  BY <1>11 DEF Drain, Receives
<1>12. CASE \E w \in Workers : LeaveOut(w)
  BY <1>12 DEF LeaveOut, Receives
<1>13. CASE \E w \in Workers : FirstError(w)
  BY <1>13 DEF FirstError, Receives
<1>14. CASE \E w \in Workers : CallBack(w)
  BY <1>14 DEF CallBack, Receives
<1>15. CASE UNCHANGED vars
  BY <1>15 DEF vars
<1>q. QED
  BY <1>1, <1>2, <1>3, <1>4, <1>5, <1>6, <1>7, <1>8, <1>9, <1>10, <1>11, <1>12, <1>13, <1>14, <1>15 DEF Next, Pool

-----------------------------------------------------------------------------
\* The caller's goroutine leaves the loop last, and calls cancel only for an error
\* or on its way out.
LEMMA ConsumedStep ==
  ASSUME IInv, [Next]_vars
  PROVE  Consumed'
<1> USE SizeAssumption DEF IInv, TypeOK, Ids, Workers, Answers, feed, work, loop, Done, Consumed
<1>1. CASE CancelParent
  BY <1>1 DEF CancelParent
<1>2. CASE StopFeeding
  BY <1>2 DEF StopFeeding
<1>3. CASE Close
  BY <1>3 DEF Close
<1>4. CASE Accepted
  BY <1>4 DEF Accepted
<1>5. CASE Rejected
  BY <1>5 DEF Rejected
<1>6. CASE Return
  BY <1>6 DEF Return
<1>7. CASE \E w \in Workers : Feed(w)
  BY <1>7 DEF Feed
<1>8. CASE \E w \in Workers : Download(w)
  BY <1>8 DEF Download
<1>9. CASE \E w \in Workers : GiveUp(w)
  BY <1>9 DEF GiveUp
<1>10. CASE \E w \in Workers : Quit(w)
  BY <1>10 DEF Quit
<1>11. CASE \E w \in Workers : Drain(w)
  BY <1>11 DEF Drain, Receives
<1>12. CASE \E w \in Workers : LeaveOut(w)
  BY <1>12 DEF LeaveOut, Receives
<1>13. CASE \E w \in Workers : FirstError(w)
  BY <1>13 DEF FirstError, Receives
<1>14. CASE \E w \in Workers : CallBack(w)
  BY <1>14 DEF CallBack, Receives
<1>15. CASE UNCHANGED vars
  BY <1>15 DEF vars
<1>q. QED
  BY <1>1, <1>2, <1>3, <1>4, <1>5, <1>6, <1>7, <1>8, <1>9, <1>10, <1>11, <1>12, <1>13, <1>14, <1>15 DEF Next, Pool
-----------------------------------------------------------------------------
\* The invariant, for any number of ids and workers.
THEOREM Invariance == Spec => []IInv
<1>1. Init => IInv
  <2> SUFFICES ASSUME Init
               PROVE  IInv
    OBVIOUS
  <2> USE SizeAssumption DEF Init, Ids, Workers
  <2>1. TypeOK
    <3>1. {parent, cancelled, feeding, open, failed} \subseteq BOOLEAN
      OBVIOUS
    <3>2. at \in [Workers -> {"waiting", "downloading", "sending", "gone"}]
      OBVIOUS
    <3>3. held \in [Workers -> 0..NIds] /\ answer \in [Workers -> Answers]
      BY DEF Answers
    <3>4. next \in 1..(NIds + 1) /\ handing \in 0..NIds /\ left \subseteq Ids
      OBVIOUS
    <3>q. QED
      BY <3>1, <3>2, <3>3, <3>4 DEF TypeOK
  <2>2. Exclusive
    BY DEF Exclusive, Busy
  <2>3. Covered
    BY DEF Covered, Peace
  <2>4. Fed /\ Consumed
    BY DEF Fed, Consumed
  <2>q. QED
    BY <2>1, <2>2, <2>3, <2>4 DEF IInv
<1>2. IInv /\ [Next]_vars => IInv'
  BY TypeStep, ExclusiveStep, CoveredStep, FedStep, ConsumedStep DEF IInv
<1>q. QED
  BY <1>1, <1>2, PTL DEF Spec

\* download's state stays within its types: the feeder never runs past the last id,
\* whoever stops first.
THEOREM TypeCorrect == Spec => []TypeOK
<1>1. IInv => TypeOK
  BY DEF IInv
<1>q. QED
  BY <1>1, Invariance, PTL

\* After the first error fn is not called again (fetch.go:211-213).
THEOREM QuietAfterError == Spec => NoCallAfterError
<1>1. IInv /\ [Next]_vars => [failed => consumer' # "handing"]_vars
  <2> SUFFICES ASSUME IInv, [Next]_vars, failed
               PROVE  consumer' # "handing"
    OBVIOUS
  <2> USE DEF IInv, TypeOK, Consumed
  <2>1. CASE CancelParent \/ StopFeeding \/ Close \/ Accepted \/ Rejected \/ Return
    BY <2>1 DEF CancelParent, StopFeeding, Close, Accepted, Rejected, Return, loop
  <2>2. CASE \E w \in Workers : Feed(w) \/ Download(w) \/ GiveUp(w) \/ Quit(w)
    BY <2>2 DEF Feed, Download, GiveUp, Quit, loop
  <2>3. CASE \E w \in Workers : Drain(w) \/ LeaveOut(w) \/ FirstError(w) \/ CallBack(w)
    BY <2>3 DEF Drain, LeaveOut, FirstError, CallBack, Receives
  <2>4. CASE UNCHANGED vars
    BY <2>4 DEF vars, loop
  <2>q. QED
    BY <2>1, <2>2, <2>3, <2>4 DEF Next, Pool
<1>q. QED
  BY <1>1, Invariance, PTL DEF Spec, NoCallAfterError
-----------------------------------------------------------------------------
(* The pool implements Download.                                           *)

Reported == IF failed /\ verdict = "running" THEN "failed" ELSE verdict

\* What is returned at the end is what Download may return: no error only when
\* nothing is left.
LEMMA ReturnIsAllowed ==
  ASSUME IInv, Return
  PROVE  [Promise!Next]_<<left, Reported>>
<1> USE SizeAssumption DEF IInv, TypeOK, Ids, Workers, Return, Reported
<1>1. left' = left /\ verdict = "running"
  BY DEF Consumed
<1>2. CASE failed
  BY <1>1, <1>2
<1>3. CASE ~failed /\ parent
  BY <1>1, <1>3 DEF Promise!Next, Promise!GiveUp
<1>4. CASE ~failed /\ ~parent
  <2>1. \A w \in Workers : at[w] = "gone"
    BY DEF Consumed
  <2>2. 1 \in Workers
    OBVIOUS
  <2>3. next = NIds + 1
    BY <1>4, <2>1, <2>2 DEF Fed, Peace
  <2>4. left = {}
    BY <1>4, <2>1, <2>3 DEF Covered, Peace, Busy
  <2>q. QED
    BY <1>1, <1>4, <2>4 DEF Promise!Next, Promise!Succeed
<1>q. QED
  BY <1>2, <1>3, <1>4

\* download keeps its promise whatever the number of ids and workers: every id is
\* dealt with at most once, none after the first error, and "no error" means that
\* nothing was left.
THEOREM Implements == Spec => KeepsPromise
<1>1. Init => Promise!Init
  BY DEF Init, Promise!Init
<1>2. IInv /\ [Next]_vars => [Promise!Next]_<<left, Reported>>
  <2> SUFFICES ASSUME IInv, [Next]_vars
               PROVE  [Promise!Next]_<<left, Reported>>
    OBVIOUS
  <2> USE DEF IInv, TypeOK, Consumed, Reported
  <2>1. CASE Return
    BY <2>1, ReturnIsAllowed
  <2>2. CASE Accepted
    <3>1. handing \in left /\ ~failed /\ verdict = "running"
      BY <2>2 DEF Accepted, Exclusive
    <3>2. Promise!DealWith(handing)
      BY <2>2, <3>1 DEF Accepted, Promise!DealWith
    <3>q. QED
      BY <3>1, <3>2 DEF Promise!Next
  <2>3. CASE Rejected
    BY <2>3 DEF Rejected, Promise!Next, Promise!GiveUp
  <2>4. CASE \E w \in Workers : FirstError(w)
    BY <2>4 DEF FirstError, Receives, Promise!Next, Promise!GiveUp
  <2>5. CASE \E w \in Workers : LeaveOut(w)
    <3>1. PICK w \in Workers : LeaveOut(w)
      BY <2>5
    <3>2. held[w] \in left /\ ~failed /\ verdict = "running"
      BY <3>1 DEF LeaveOut, Receives, Exclusive, Busy
    <3>3. Promise!DealWith(held[w])
      BY <3>1, <3>2 DEF LeaveOut, Receives, Promise!DealWith
    <3>q. QED
      BY <3>2, <3>3 DEF Promise!Next
  <2>6. CASE \E w \in Workers : Drain(w) \/ CallBack(w)
    BY <2>6 DEF Drain, CallBack, Receives
  <2>7. CASE \E w \in Workers : Feed(w) \/ Download(w) \/ GiveUp(w) \/ Quit(w)
    BY <2>7 DEF Feed, Download, GiveUp, Quit, loop
  <2>8. CASE CancelParent \/ StopFeeding \/ Close
    BY <2>8 DEF CancelParent, StopFeeding, Close, loop
  <2>9. CASE UNCHANGED vars
    BY <2>9 DEF vars, loop
  <2>q. QED
    BY <2>1, <2>2, <2>3, <2>4, <2>5, <2>6, <2>7, <2>8, <2>9 DEF Next, Pool
<1>q. QED
  BY <1>1, <1>2, Invariance, PTL DEF Spec, KeepsPromise, Promise!Spec, Reported, Promise!vars
===============================================================================
