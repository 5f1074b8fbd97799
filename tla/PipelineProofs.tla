--------------------------- MODULE PipelineProofs ---------------------------
(***************************************************************************)
(* Theorems about Pipeline, for every configuration, every set of          *)
(* processes and all the mail there may be.                                *)
(***************************************************************************)
EXTENDS Pipeline, TLAPS

USE ConfigAssumption DEF Accounts, Rules, NoRule
-----------------------------------------------------------------------------
(* The records a cycle moves through have their types.                     *)

LEMMA QuietType ==
  ASSUME NEW phase \in Phases, NEW result \in Results
  PROVE  Quiet(phase, result) \in CycleState
BY DEF Quiet, CycleState

\* What Leave does to a cycle, field by field.
LEMMA LeaveFields ==
  ASSUME TypeOK, NEW p \in Runners, NEW errs \in SUBSET Errors
  PROVE  /\ Leave(p, errs) \in CycleState
         /\ Leave(p, errs).phase \in {"account", "ending"}
         /\ Leave(p, errs).phase = "ending"
            <=> cyc[p].acct = NAccounts \/ p \in stopping \cup cancelled
         /\ Leave(p, errs).acct = cyc[p].acct + 1
         /\ Leave(p, errs).errs = cyc[p].errs \cup errs
         /\ Leave(p, errs).passed = {} /\ Leave(p, errs).accounted = {}
         /\ Leave(p, errs).owed = cyc[p].owed
         /\ Leave(p, errs).degraded = cyc[p].degraded
         /\ Leave(p, errs).result = "none"
<1> DEFINE last == cyc[p].acct = NAccounts \/ p \in stopping \cup cancelled
           phase == IF last THEN "ending" ELSE "account"
<1>1. cyc[p] \in CycleState
  BY DEF TypeOK
<1>2. /\ cyc[p].acct + 1 \in Nat /\ cyc[p].errs \cup errs \in SUBSET Errors
      /\ cyc[p].snap \in [Lists -> SUBSET Messages]
      /\ cyc[p].degraded \in SUBSET Lists /\ cyc[p].owed \in SUBSET Messages
  BY <1>1 DEF CycleState
<1>3. phase \in Phases /\ "none" \in Results
  BY DEF Phases, Results
<1>4. Quiet(phase, "none") \in CycleState
  BY <1>3, QuietType
<1>5. Leave(p, errs) =
        [Quiet(phase, "none") EXCEPT
           !.snap = cyc[p].snap, !.degraded = cyc[p].degraded, !.owed = cyc[p].owed,
           !.acct = cyc[p].acct + 1, !.errs = cyc[p].errs \cup errs]
  BY DEF Leave
<1>6. phase \in {"account", "ending"} /\ (phase = "ending" <=> last)
  OBVIOUS
<1> HIDE DEF phase
<1>7. Leave(p, errs) \in CycleState
  BY <1>2, <1>4, <1>5 DEF CycleState
<1> QED BY <1>5, <1>6, <1>7 DEF Quiet

\* What the callback's acceptance of a message does to a cycle.
LEMMA AcceptedFields ==
  ASSUME TypeOK, NEW p \in Runners, NEW m \in Messages, NEW marked \in BOOLEAN
  PROVE  /\ Accepted(p, m, marked) \in CycleState
         /\ Accepted(p, m, marked).phase = "fetching"
         /\ Accepted(p, m, marked).acct = cyc[p].acct
         /\ Accepted(p, m, marked).errs = cyc[p].errs
         /\ Accepted(p, m, marked).start = cyc[p].start
         /\ Accepted(p, m, marked).pending = cyc[p].pending \ {m}
         /\ Accepted(p, m, marked).passed = cyc[p].passed \cup {m}
         /\ Accepted(p, m, marked).accounted \subseteq cyc[p].accounted \cup {m}
         /\ Accepted(p, m, marked).owed = cyc[p].owed
         /\ Accepted(p, m, marked).degraded = cyc[p].degraded
         /\ Accepted(p, m, marked).result = cyc[p].result
<1>1. cyc[p] \in CycleState
  BY DEF TypeOK
<1> QED BY <1>1 DEF Accepted, CycleState, Phases

\* A step of one runner's cycle.
LEMMA BecomeFacts ==
  ASSUME TypeOK, NEW p \in Runners, NEW c \in CycleState, Become(p, c)
  PROVE  /\ cyc' \in [Runners -> CycleState]
         /\ cyc'[p] = c
         /\ \A q \in Runners : q # p => cyc'[q] = cyc[q]
BY DEF Become, TypeOK

\* The records the remaining actions write.
LEMMA FetchingType ==
  ASSUME NEW c \in CycleState, NEW start \in SUBSET Messages,
         NEW pending \in SUBSET Messages
  PROVE  [c EXCEPT !.phase = "fetching", !.start = start, !.pending = pending]
           \in CycleState
BY DEF CycleState, Phases

LEMMA VanishedType ==
  ASSUME NEW c \in CycleState, NEW m \in Messages
  PROVE  [c EXCEPT !.pending = @ \ {m}, !.passed = @ \cup {m}] \in CycleState
BY DEF CycleState

LEMMA DeliveringType ==
  ASSUME NEW c \in CycleState, NEW m \in Messages, NEW r \in Rules
  PROVE  [c EXCEPT !.phase = "delivering", !.msg = m, !.rule = r, !.todo = FormatsOf[r]]
           \in CycleState
BY DEF CycleState, Phases

LEMMA RenderedType ==
  ASSUME NEW c \in CycleState, NEW f \in Formats
  PROVE  /\ [c EXCEPT !.todo = @ \ {f}] \in CycleState
         /\ [c EXCEPT !.todo = @ \ {f}, !.failed = TRUE] \in CycleState
BY DEF CycleState

LEMMA BegunType ==
  ASSUME NEW c \in CycleState, NEW snap \in [Lists -> SUBSET Messages],
         NEW degraded \in SUBSET Lists, NEW owed \in SUBSET Messages,
         NEW errs \in SUBSET Errors
  PROVE  [c EXCEPT !.snap = snap, !.degraded = degraded, !.owed = owed, !.errs = errs]
           \in CycleState
BY DEF CycleState

LEMMA EndedType ==
  ASSUME NEW c \in CycleState, NEW degraded \in SUBSET Lists, NEW owed \in SUBSET Messages
  PROVE  [c EXCEPT !.degraded = degraded, !.owed = owed] \in CycleState
BY DEF CycleState
-----------------------------------------------------------------------------
(* Types.                                                                  *)

LEMMA MessageFailedType ==
  ASSUME TypeOK, NEW p \in Runners, NEW m \in Messages, MessageFailed(p, m)
  PROVE  /\ cyc' \in [Runners -> CycleState]
         /\ quarantined' \subseteq Messages
<1>1. Leave(p, {"message"}) \in CycleState
  BY LeaveFields DEF Errors
<1>2. Accepted(p, m, TRUE) \in CycleState
  BY AcceptedFields
<1> QED BY <1>1, <1>2, BecomeFacts DEF MessageFailed, TypeOK

LEMMA SaveStateType ==
  ASSUME TypeOK, NEW p \in Runners, cyc[p].phase = "fetching",
         NEW behind \in SUBSET Messages, SaveState(p, behind)
  PROVE  /\ cyc' \in [Runners -> CycleState]
         /\ saved' \in [Accounts -> SUBSET Messages]
<1>1. Leave(p, {}) \in CycleState /\ Leave(p, {"state"}) \in CycleState
  BY LeaveFields DEF Errors
<1>2. behind \cup cyc[p].accounted \in SUBSET Messages
  BY DEF TypeOK, CycleState
<1>3. cyc' \in [Runners -> CycleState]
  BY <1>1, BecomeFacts DEF SaveState
<1>4. saved \in [Accounts -> SUBSET Messages]
  BY DEF TypeOK
<1>5. CASE saved' = saved
  BY <1>3, <1>4, <1>5
<1>6. CASE saved' = [saved EXCEPT ![cyc[p].acct] = behind \cup cyc[p].accounted]
  <2> DEFINE mail == behind \cup cyc[p].accounted
  <2>1. [saved EXCEPT ![cyc[p].acct] = mail] \in [Accounts -> SUBSET Messages]
    BY <1>2, <1>4
  <2> QED BY <1>3, <1>6, <2>1
<1> QED BY <1>5, <1>6 DEF SaveState

\* A message in delivery is one of the messages.
LEMMA InDelivery ==
  ASSUME IInv, NEW p \in Runners, cyc[p].phase = "delivering"
  PROVE  cyc[p].msg \in Messages /\ cyc[p].rule \in Rules
BY DEF IInv, TypeOK, RunnerInv, Rendered, CycleState

\* Every step keeps the types.
LEMMA TypeStep == IInv /\ [Next]_vars => TypeOK'
<1> SUFFICES ASSUME IInv, [Next]_vars PROVE TypeOK'
  OBVIOUS
<1>t. TypeOK
  BY DEF IInv
<1>c. \A p \in Runners : cyc[p] \in CycleState
  BY <1>t DEF TypeOK
<1>q. \A phase \in Phases, result \in Results : Quiet(phase, result) \in CycleState
  BY QuietType
<1>1. ASSUME NEW m \in Messages, Arrive(m) \/ Delete(m) PROVE TypeOK'
  BY <1>t, <1>1 DEF TypeOK, Arrive, Delete, disk, signals
<1>2. ASSUME NEW l \in Lists, NEW found \in ListStates, EditList(l, found)
      PROVE  TypeOK'
  BY <1>t, <1>2 DEF TypeOK, EditList, disk, signals
<1>3. CASE Settle
  BY <1>t, <1>3 DEF TypeOK, Settle, Readable, disk, signals
<1>4. ASSUME NEW p \in Runners, RequestStop(p) \/ Cancel(p) PROVE TypeOK'
  BY <1>t, <1>4 DEF TypeOK, RequestStop, Cancel, world, disk, signals
<1>5. ASSUME NEW p \in Runners, Crash(p) \/ Restart(p) PROVE TypeOK'
  <2>1. /\ Quiet("down", "none") \in CycleState
        /\ Quiet("idle", "none") \in CycleState
    BY <1>q DEF Phases, Results
  <2>2. cyc' \in [Runners -> CycleState]
    BY <1>t, <1>5, <2>1, BecomeFacts DEF Crash, Restart
  <2> QED BY <1>t, <1>5, <2>2 DEF TypeOK, Crash, Restart, world, disk, signals
<1>6. ASSUME NEW p \in Runners, CannotLock(p) PROVE TypeOK'
  <2>1. /\ Quiet("idle", "locked") \in CycleState
        /\ Quiet("idle", "config") \in CycleState
    BY <1>q DEF Phases, Results
  <2>2. cyc' \in [Runners -> CycleState]
    BY <1>t, <1>6, <2>1, BecomeFacts DEF CannotLock
  <2> QED BY <1>t, <1>6, <2>2 DEF TypeOK, CannotLock, world, disk, signals
<1>7. ASSUME NEW p \in Runners, BeginCycle(p) PROVE TypeOK'
  <2> DEFINE degraded == {l \in Lists : ~lists[l].readable}
             refuse   == degraded # {} /\ OnDegradedFilter = "fail"
             phase    == IF refuse \/ NAccounts = 0 THEN "ending" ELSE "account"
             snap     == [l \in Lists |-> lists[l].entries]
             errs     == IF refuse THEN {"degraded"} ELSE {}
             begun    == [Quiet(phase, "none") EXCEPT
                            !.snap = snap, !.degraded = degraded,
                            !.owed = inbox, !.errs = errs]
  <2>1. Become(p, begun)
    BY <1>7 DEF BeginCycle
  <2>2. phase \in Phases /\ "none" \in Results
    BY DEF Phases, Results
  <2>3. Quiet(phase, "none") \in CycleState
    BY <1>q, <2>2
  <2>4. /\ degraded \in SUBSET Lists /\ errs \in SUBSET Errors
        /\ snap \in [Lists -> SUBSET Messages] /\ inbox \in SUBSET Messages
    BY <1>t DEF TypeOK, Errors
  <2> HIDE DEF degraded, refuse, phase, snap, errs
  <2>5. begun \in CycleState
    BY <2>3, <2>4, BegunType
  <2> HIDE DEF begun
  <2>6. cyc' \in [Runners -> CycleState]
    BY <1>t, <2>1, <2>5, BecomeFacts
  <2> QED BY <1>t, <1>7, <2>6 DEF TypeOK, BeginCycle, world, disk, signals
<1>8. ASSUME NEW p \in Runners, EndCycle(p) PROVE TypeOK'
  <2> DEFINE phase  == IF p \in stopping \cup cancelled THEN "down" ELSE "idle"
             result == ExitCode(cyc[p].errs)
             ended  == [Quiet(phase, result) EXCEPT !.degraded = cyc[p].degraded,
                                                    !.owed = cyc[p].owed]
  <2>1. Become(p, ended)
    BY <1>8 DEF EndCycle
  <2>2. phase \in Phases /\ result \in Results
    BY DEF Phases, Results, ExitCode
  <2>3. cyc[p].degraded \in SUBSET Lists /\ cyc[p].owed \in SUBSET Messages
    BY <1>c DEF CycleState
  <2> HIDE DEF phase, result
  <2>4. ended \in CycleState
    BY <1>q, <2>2, <2>3, EndedType
  <2> HIDE DEF ended
  <2>5. cyc' \in [Runners -> CycleState]
    BY <1>t, <2>1, <2>4, BecomeFacts
  <2> QED BY <1>t, <1>8, <2>5 DEF TypeOK, EndCycle, world, disk, signals
<1>9. ASSUME NEW p \in Runners, CannotOpen(p) \/ ProviderFails(p) PROVE TypeOK'
  <2>1. /\ Leave(p, {"state"}) \in CycleState
        /\ Leave(p, {"provider"}) \in CycleState
    BY <1>t, LeaveFields DEF Errors
  <2>2. cyc' \in [Runners -> CycleState]
    BY <1>t, <1>9, <2>1, BecomeFacts DEF CannotOpen, ProviderFails
  <2> QED BY <1>t, <1>9, <2>2 DEF TypeOK, CannotOpen, ProviderFails, world, disk, signals
<1>10. ASSUME NEW p \in Runners, StartFetch(p) PROVE TypeOK'
  <2> DEFINE behind == saved[cyc[p].acct]
             mail   == {m \in inbox \ gone : AccountOf[m] = cyc[p].acct}
  <2>1. PICK again \in SUBSET (mail \cap behind) :
          Become(p, [cyc[p] EXCEPT !.phase = "fetching", !.start = behind,
                                   !.pending = (mail \ behind) \cup again])
    BY <1>10 DEF StartFetch
  <2>2. behind \in SUBSET Messages
    BY <1>10 DEF StartFetch, IInv, TypeOK, RunnerInv, InAccount
  <2>3. (mail \ behind) \cup again \in SUBSET Messages
    BY <1>t DEF TypeOK
  <2> HIDE DEF mail, behind
  <2>4. [cyc[p] EXCEPT !.phase = "fetching", !.start = behind,
                       !.pending = (mail \ behind) \cup again] \in CycleState
    BY <1>c, <2>2, <2>3, FetchingType
  <2>5. cyc' \in [Runners -> CycleState]
    BY <1>t, <2>1, <2>4, BecomeFacts
  <2> QED BY <1>t, <1>10, <2>5 DEF TypeOK, StartFetch, world, disk, signals
<1>11. ASSUME NEW p \in Runners, NEW m \in Messages, Vanish(p, m) PROVE TypeOK'
  <2>1. [cyc[p] EXCEPT !.pending = @ \ {m}, !.passed = @ \cup {m}] \in CycleState
    BY <1>c, VanishedType
  <2>2. cyc' \in [Runners -> CycleState]
    BY <1>t, <1>11, <2>1, BecomeFacts DEF Vanish
  <2> QED BY <1>t, <1>11, <2>2 DEF TypeOK, Vanish, world, disk, signals
<1>12. ASSUME NEW p \in Runners, NEW m \in Messages, ReceiveUnparseable(p, m)
       PROVE  TypeOK'
  BY <1>t, <1>12, MessageFailedType DEF ReceiveUnparseable, TypeOK, world, signals
<1>13. ASSUME NEW p \in Runners, NEW m \in Messages, ReceiveUnmatched(p, m)
       PROVE  TypeOK'
  <2>1. Accepted(p, m, FALSE) \in CycleState
    BY <1>t, AcceptedFields
  <2>2. cyc' \in [Runners -> CycleState]
    BY <1>t, <1>13, <2>1, BecomeFacts DEF ReceiveUnmatched
  <2> QED BY <1>t, <1>13, <2>2 DEF ReceiveUnmatched, TypeOK, world, disk, signals
<1>14. ASSUME NEW p \in Runners, NEW m \in Messages, ReceiveMatched(p, m)
       PROVE  TypeOK'
  <2>1. PICK r \in Rules :
          Become(p, [cyc[p] EXCEPT !.phase = "delivering", !.msg = m, !.rule = r,
                                   !.todo = FormatsOf[r]])
    BY <1>14 DEF ReceiveMatched
  <2>2. [cyc[p] EXCEPT !.phase = "delivering", !.msg = m, !.rule = r,
                       !.todo = FormatsOf[r]] \in CycleState
    BY <1>c, DeliveringType
  <2>3. cyc' \in [Runners -> CycleState]
    BY <1>t, <2>1, <2>2, BecomeFacts
  <2> QED BY <1>t, <1>14, <2>3 DEF TypeOK, ReceiveMatched, world, disk, signals
<1>15. ASSUME NEW p \in Runners, NEW f \in Formats, Render(p, f) PROVE TypeOK'
  <2>1. /\ [cyc[p] EXCEPT !.todo = @ \ {f}] \in CycleState
        /\ [cyc[p] EXCEPT !.todo = @ \ {f}, !.failed = TRUE] \in CycleState
    BY <1>c, RenderedType
  <2>2. cyc' \in [Runners -> CycleState]
    BY <1>t, <1>15, <2>1, BecomeFacts DEF Render
  <2>3. cyc[p].msg \in Messages /\ cyc[p].rule \in Rules
    BY <1>15, InDelivery DEF Render
  <2>4. <<DestOf[cyc[p].rule], cyc[p].msg, f>> \in Dests \X Messages \X Formats
    BY <2>3
  <2>5. onDisk' \subseteq Dests \X Messages \X Formats
    BY <1>t, <1>15, <2>4 DEF Render, TypeOK
  <2> QED BY <1>t, <1>15, <2>2, <2>5 DEF TypeOK, Render, world, signals
<1>16. ASSUME NEW p \in Runners, Delivered(p) PROVE TypeOK'
  <2>1. cyc[p].msg \in Messages
    BY <1>16, InDelivery DEF Delivered
  <2>2. Accepted(p, cyc[p].msg, TRUE) \in CycleState
    BY <1>t, <2>1, AcceptedFields
  <2>3. cyc' \in [Runners -> CycleState] /\ quarantined' \subseteq Messages
    BY <1>t, <1>16, <2>1, <2>2, BecomeFacts, MessageFailedType DEF Delivered, TypeOK
  <2> QED BY <1>t, <1>16, <2>3 DEF Delivered, TypeOK, world, signals
<1>17. ASSUME NEW p \in Runners, FetchDone(p) \/ FetchStopped(p) PROVE TypeOK'
  <2>1. cyc[p].start \cup cyc[p].passed \in SUBSET Messages
    BY <1>c DEF CycleState
  <2>2. cyc[p].phase = "fetching"
    BY <1>17 DEF FetchDone, FetchStopped
  <2>3. PICK behind \in SUBSET Messages : SaveState(p, behind)
    BY <1>17, <2>1 DEF FetchDone, FetchStopped
  <2>4. cyc' \in [Runners -> CycleState] /\ saved' \in [Accounts -> SUBSET Messages]
    BY <1>t, <2>2, <2>3, SaveStateType
  <2> QED BY <1>t, <1>17, <2>4 DEF FetchDone, FetchStopped, TypeOK, world, signals
<1>18. CASE UNCHANGED vars
  BY <1>t, <1>18 DEF TypeOK, vars, world, disk, signals
<1> QED
  BY <1>1, <1>2, <1>3, <1>4, <1>5, <1>6, <1>7, <1>8, <1>9, <1>10, <1>11, <1>12, <1>13,
     <1>14, <1>15, <1>16, <1>17, <1>18
  DEF Next, World, Interfere, Advance
-----------------------------------------------------------------------------
(* What is settled stays settled.                                          *)

Grows ==
  /\ inbox \subseteq inbox' /\ gone \subseteq gone' /\ onDisk \subseteq onDisk'
  /\ quarantined \subseteq quarantined' /\ dismissed \subseteq dismissed'
  /\ Settled \subseteq Settled'

\* Nothing in this code deletes a rendering or a quarantined message, so mail that
\* is settled remains so whatever step is taken.
LEMMA Growth == [Next]_vars => Grows
<1> SUFFICES ASSUME [Next]_vars PROVE Grows
  OBVIOUS
<1> DEFINE G == /\ inbox \subseteq inbox' /\ gone \subseteq gone'
                /\ onDisk \subseteq onDisk' /\ quarantined \subseteq quarantined'
                /\ dismissed \subseteq dismissed'
<1>1. ASSUME World PROVE G
  BY <1>1 DEF World, Arrive, Delete, EditList, Settle, disk
<1>2. ASSUME NEW p \in Runners, Interfere(p) PROVE G
  BY <1>2 DEF Interfere, RequestStop, Cancel, Crash, world, disk
<1>3. ASSUME NEW p \in Runners, Restart(p) \/ CannotLock(p) \/ BeginCycle(p) PROVE G
  BY <1>3 DEF Restart, CannotLock, BeginCycle, world, disk
<1>4. ASSUME NEW p \in Runners, \/ CannotOpen(p) \/ StartFetch(p) \/ ProviderFails(p)
                                \/ FetchDone(p) \/ FetchStopped(p) \/ EndCycle(p)
      PROVE  G
  BY <1>4 DEF CannotOpen, StartFetch, ProviderFails, FetchDone, FetchStopped, EndCycle,
              world, disk
<1>5. ASSUME NEW p \in Runners, NEW m, MessageFailed(p, m)
      PROVE  quarantined \subseteq quarantined'
  BY <1>5 DEF MessageFailed
<1>6. ASSUME NEW p \in Runners, Delivered(p) PROVE G
  BY <1>5, <1>6 DEF Delivered, world
<1>7. ASSUME NEW p \in Runners, NEW m \in Messages,
             \/ Vanish(p, m) \/ ReceiveUnparseable(p, m)
             \/ ReceiveUnmatched(p, m) \/ ReceiveMatched(p, m)
      PROVE  G
  BY <1>5, <1>7 DEF Vanish, ReceiveUnparseable, ReceiveUnmatched, ReceiveMatched,
                    world, disk
<1>8. ASSUME NEW p \in Runners, NEW f \in Formats, Render(p, f) PROVE G
  BY <1>8 DEF Render, world
<1>9. ASSUME UNCHANGED vars PROVE G
  BY <1>9 DEF vars, world, disk
<1>10. G
  BY <1>1, <1>2, <1>3, <1>4, <1>6, <1>7, <1>8, <1>9 DEF Next, Advance
<1>11. \A m \in Messages : Stored(m) => Stored(m)'
  BY <1>10 DEF Stored
<1> QED BY <1>10, <1>11 DEF Grows, Settled
-----------------------------------------------------------------------------
(* The invariant of one runner, when another one or the world moves.       *)

\* Nothing q relies on has changed under it.
Undisturbed(q) ==
  /\ cyc'[q] = cyc[q]
  /\ (holder' = q) <=> (holder = q)
  /\ q \in stopping \cup cancelled => q \in stopping' \cup cancelled'
  /\ saved' = saved \/ ~InCycle(q)

LEMMA Bystander ==
  ASSUME NEW q \in Runners, RunnerInv(q), Grows, Undisturbed(q)
  PROVE  RunnerInv(q)'
<1>1. Locked(q)' /\ InAccount(q)' /\ Refused(q)' /\ Fresh(q)' /\ Ungraded(q)'
  BY DEF Undisturbed, RunnerInv, Locked, InAccount, Refused, Fresh, Ungraded, InCycle
<1>2. Hold(q)' <=> Hold(q)
  BY DEF Undisturbed, Hold
<1>3. PassedSettled(q)' /\ Rendered(q)' /\ OkIsTrue(q)'
  BY <1>2 DEF Undisturbed, RunnerInv, PassedSettled, Rendered, OkIsTrue, Grows
<1>4. Unblemished(q)' => Unblemished(q)
  BY <1>2 DEF Undisturbed, Unblemished, InCycle
<1>5. Owing(q)'
  BY <1>4 DEF Undisturbed, RunnerInv, Owing, Grows
<1> QED BY <1>1, <1>3, <1>5 DEF RunnerInv

\* A step of the world disturbs no cycle.
LEMMA WorldDisturbsNone ==
  ASSUME World \/ UNCHANGED vars, NEW q \in Runners
  PROVE  Undisturbed(q)
<1>1. cyc' = cyc /\ holder' = holder /\ saved' = saved
      /\ stopping' = stopping /\ cancelled' = cancelled
  BY DEF World, Arrive, Delete, EditList, Settle, vars, disk, signals
<1> QED BY <1>1 DEF Undisturbed

\* What a step of p may do to the rest.
StepOf(p) ==
  /\ \A q \in Runners : q # p => cyc'[q] = cyc[q]
  /\ \/ holder' = holder
     \/ holder = NoRunner /\ holder' = p
     \/ holder = p /\ holder' = NoRunner
  /\ stopping \ {p} \subseteq stopping' /\ cancelled \ {p} \subseteq cancelled'
  /\ saved' = saved \/ InCycle(p)

\* A step of p disturbs no other runner's cycle: p takes the lock only when it is
\* free and saves a cursor only while it holds it.
LEMMA StepDisturbsNone ==
  ASSUME TypeOK, NEW p \in Runners, NEW q \in Runners, q # p,
         Locked(p), Locked(q), StepOf(p)
  PROVE  Undisturbed(q)
BY ConfigAssumption DEF StepOf, Undisturbed, Locked, InCycle, TypeOK
-----------------------------------------------------------------------------
(* The invariant of the runner that moves.                                 *)

\* Out of a cycle there is nothing to rely on.
LEMMA QuietInv ==
  ASSUME TypeOK, NEW p \in Runners, NEW phase \in {"down", "idle"},
         NEW result \in {"none", "locked", "config"},
         Become(p, Quiet(phase, result)), holder' # p
  PROVE  RunnerInv(p)'
<1>1. Quiet(phase, result) \in CycleState
  BY QuietType DEF Phases, Results
<1>2. cyc'[p] = Quiet(phase, result)
  BY <1>1, BecomeFacts
<1>3. /\ cyc'[p].phase = phase /\ cyc'[p].result = result /\ cyc'[p].owed = {}
      /\ cyc'[p].accounted = {} /\ cyc'[p].passed = {}
  BY <1>2 DEF Quiet
<1> QED BY <1>3 DEF RunnerInv, Locked, Refused, InAccount, Fresh, PassedSettled,
                    Rendered, Owing,
                    Unblemished, Ungraded, OkIsTrue, InCycle

\* Leaving an account without an error takes having settled what it owed; with an
\* error the cycle can no longer be reported as a success.
LEMMA LeaveInv ==
  ASSUME TypeOK, NEW p \in Runners, RunnerInv(p), Grows, NEW errs \in SUBSET Errors,
         cyc[p].phase \in {"account", "fetching", "delivering"},
         Become(p, Leave(p, errs)), UNCHANGED <<holder, signals>>,
         errs = {} /\ Unblemished(p) =>
           \A m \in cyc[p].owed : AccountOf[m] = cyc[p].acct => m \in Settled'
  PROVE  RunnerInv(p)'
<1> DEFINE c == cyc[p]  d == cyc'[p]
<1>1. d = Leave(p, errs)
  BY LeaveFields, BecomeFacts
<1>2. /\ d.phase \in {"account", "ending"}
      /\ d.phase = "ending" <=> c.acct = NAccounts \/ p \in stopping \cup cancelled
      /\ d.acct = c.acct + 1 /\ d.errs = c.errs \cup errs
      /\ d.passed = {} /\ d.accounted = {} /\ d.owed = c.owed
      /\ d.degraded = c.degraded /\ d.result = "none"
  BY <1>1, LeaveFields
<1>3. stopping' = stopping /\ cancelled' = cancelled /\ holder' = holder
  BY DEF signals
<1> HIDE DEF d
<1>4. Locked(p)' /\ Refused(p)' /\ Fresh(p)' /\ PassedSettled(p)' /\ Rendered(p)'
      /\ Ungraded(p)' /\ OkIsTrue(p)'
  BY <1>2, <1>3 DEF d, RunnerInv, Locked, Refused, Fresh, PassedSettled, Rendered, Ungraded,
                    OkIsTrue, InCycle
<1>5. c.acct \in Accounts
  BY DEF RunnerInv, InAccount
<1>6. InAccount(p)'
  BY <1>2, <1>5 DEF d, InAccount
<1>7. Unblemished(p)' => Unblemished(p) /\ errs = {}
  BY <1>2, <1>3 DEF d, Unblemished, Hold, InCycle
<1>8. c.owed \subseteq inbox'
  BY DEF RunnerInv, Owing, Grows
<1>9. ASSUME Unblemished(p)'
      PROVE  /\ d.phase = "ending" => d.acct > NAccounts
             /\ \A m \in d.owed : AccountOf[m] < d.acct => m \in Settled'
  <2>1. p \notin stopping \cup cancelled
    BY <1>7, <1>9 DEF Unblemished
  <2>2. d.phase = "ending" => d.acct > NAccounts
    BY <2>1, <1>2
  <2>3. ASSUME NEW m \in c.owed, AccountOf[m] < c.acct + 1 PROVE m \in Settled'
    <3>1. AccountOf[m] \in Nat
      BY DEF TypeOK, CycleState
    <3>2. CASE AccountOf[m] = c.acct
      BY <1>7, <1>9, <3>2
    <3>3. CASE AccountOf[m] < c.acct
      BY <1>7, <1>9, <3>3 DEF RunnerInv, Owing, Grows
    <3> QED BY <2>3, <3>1, <3>2, <3>3, <1>5
  <2> QED BY <1>2, <2>2, <2>3
<1>10. Owing(p)'
  BY <1>2, <1>8, <1>9 DEF d, Owing
<1> QED BY <1>4, <1>6, <1>10 DEF RunnerInv

\* Accepting a message that is settled.
LEMMA AcceptedInv ==
  ASSUME TypeOK, NEW p \in Runners, RunnerInv(p), Grows, NEW m \in Messages,
         NEW marked \in BOOLEAN, cyc[p].phase \in {"fetching", "delivering"},
         Become(p, Accepted(p, m, marked)), UNCHANGED <<saved, holder, signals>>,
         Live(p) /\ ~Hold(p) => m \in Settled'
  PROVE  RunnerInv(p)'
<1> DEFINE c == cyc[p]  d == cyc'[p]
<1>1. d = Accepted(p, m, marked)
  BY AcceptedFields, BecomeFacts
<1>2. /\ d.phase = "fetching" /\ d.acct = c.acct /\ d.errs = c.errs
      /\ d.start = c.start /\ d.pending = c.pending \ {m}
      /\ d.passed = c.passed \cup {m} /\ d.accounted \subseteq c.accounted \cup {m}
      /\ d.owed = c.owed /\ d.degraded = c.degraded /\ d.result = c.result
  BY <1>1, AcceptedFields
<1>3. stopping' = stopping /\ cancelled' = cancelled /\ holder' = holder
      /\ saved' = saved
  BY DEF signals
<1> HIDE DEF d
<1>4. Locked(p)' /\ Refused(p)' /\ InAccount(p)' /\ Fresh(p)' /\ Rendered(p)' /\ Ungraded(p)'
  BY <1>2, <1>3 DEF d, RunnerInv, Locked, Refused, InAccount, Fresh, Rendered, Ungraded, InCycle
<1>5. OkIsTrue(p)'
  BY <1>2, <1>3 DEF d, RunnerInv, Ungraded, OkIsTrue, InCycle
<1>6. Hold(p)' <=> Hold(p)
  BY <1>2 DEF d, Hold
<1>7. PassedSettled(p)'
  BY <1>2, <1>6 DEF d, RunnerInv, PassedSettled, Grows
<1>8. Unblemished(p)' => Unblemished(p)
  BY <1>2, <1>3, <1>6 DEF d, Unblemished, InCycle
<1>9. Owing(p)'
  BY <1>2, <1>8 DEF d, RunnerInv, Owing, Grows
<1> QED BY <1>4, <1>5, <1>7, <1>9 DEF RunnerInv
-----------------------------------------------------------------------------
(* Every action of a cycle keeps the invariant of the runner that takes it. *)

LEMMA BeginCycleInv ==
  ASSUME TypeOK, NEW p \in Runners, BeginCycle(p)
  PROVE  RunnerInv(p)'
<1> DEFINE degraded == {l \in Lists : ~lists[l].readable}
           refuse   == degraded # {} /\ OnDegradedFilter = "fail"
           phase    == IF refuse \/ NAccounts = 0 THEN "ending" ELSE "account"
           snap     == [l \in Lists |-> lists[l].entries]
           errs     == IF refuse THEN {"degraded"} ELSE {}
           begun    == [Quiet(phase, "none") EXCEPT
                          !.snap = snap, !.degraded = degraded,
                          !.owed = inbox, !.errs = errs]
           d == cyc'[p]
<1>1. Become(p, begun)
  BY DEF BeginCycle
<1>2. d = begun
  BY <1>1 DEF Become, TypeOK
<1>3. /\ phase \in {"account", "ending"} /\ (phase = "account" => NAccounts # 0)
      /\ (phase = "ending" => NAccounts = 0 \/ errs # {})
      /\ (degraded # {} /\ OnDegradedFilter = "fail" => phase = "ending")
  OBVIOUS
<1> HIDE DEF degraded, refuse, phase, snap, errs
<1>4. /\ d.phase = phase /\ d.errs = errs /\ d.owed = inbox /\ d.acct = 1
      /\ d.passed = {} /\ d.accounted = {} /\ d.result = "none"
      /\ d.degraded = degraded
  BY <1>2 DEF Quiet
<1> HIDE DEF d, begun
<1>5. holder' = p /\ inbox' = inbox
  BY DEF BeginCycle, world
<1>6. Locked(p)' /\ Refused(p)' /\ Fresh(p)' /\ PassedSettled(p)' /\ Rendered(p)'
      /\ Ungraded(p)' /\ OkIsTrue(p)'
  BY <1>3, <1>4, <1>5 DEF d, Locked, Refused, Fresh, PassedSettled, Rendered, Ungraded,
                          OkIsTrue, InCycle
<1>7. InAccount(p)'
  BY <1>3, <1>4 DEF d, InAccount
<1>8. \A m \in Messages : ~(AccountOf[m] < 1)
  OBVIOUS
<1>9. Owing(p)'
  <2>1. d.owed \subseteq inbox' /\ d.owed \subseteq Messages
    BY <1>4, <1>5 DEF TypeOK
  <2>2. Unblemished(p)' => errs = {}
    BY <1>4 DEF d, Unblemished
  <2> QED BY <1>3, <1>4, <1>8, <2>1, <2>2 DEF d, Owing
<1> QED BY <1>6, <1>7, <1>9 DEF RunnerInv

LEMMA EndCycleInv ==
  ASSUME TypeOK, NEW p \in Runners, RunnerInv(p), Grows, EndCycle(p)
  PROVE  RunnerInv(p)'
<1> DEFINE phase  == IF p \in stopping \cup cancelled THEN "down" ELSE "idle"
           result == ExitCode(cyc[p].errs)
           ended  == [Quiet(phase, result) EXCEPT !.degraded = cyc[p].degraded,
                                                  !.owed = cyc[p].owed]
           d == cyc'[p]
<1>1. d = ended
  BY DEF EndCycle, Become, TypeOK
<1>2. phase \in {"down", "idle"}
  OBVIOUS
<1> HIDE DEF phase
<1>3. /\ d.phase = phase /\ d.result = result /\ d.owed = cyc[p].owed
      /\ d.degraded = cyc[p].degraded /\ d.passed = {} /\ d.accounted = {}
  BY <1>1 DEF Quiet
<1> HIDE DEF d, ended, result
<1>4. holder' # p /\ stopping' = stopping /\ cancelled' = cancelled
  BY DEF EndCycle, signals, RunnerInv, Locked, Refused, InCycle
<1>5. Locked(p)' /\ Refused(p)' /\ InAccount(p)' /\ Fresh(p)' /\ PassedSettled(p)'
      /\ Rendered(p)' /\ Ungraded(p)'
  BY <1>2, <1>3, <1>4 DEF d, Locked, Refused, InAccount, Fresh, PassedSettled, Rendered,
                          Ungraded,
                          InCycle
<1>6. Owing(p)'
  BY <1>2, <1>3 DEF d, Owing, Unblemished, InCycle, RunnerInv, Grows
<1>7. OkIsTrue(p)'
  <2> SUFFICES ASSUME d.result = "ok", Live(p), ~Hold(p)', p \notin stopping \cup cancelled
               PROVE  d.owed \subseteq Settled'
    BY <1>4 DEF d, OkIsTrue
  <2>1. cyc[p].errs = {}
    BY <1>3 DEF result, ExitCode
  <2>2. ~Hold(p)
    BY <1>3 DEF d, Hold
  <2>3. Unblemished(p) /\ cyc[p].phase = "ending"
    BY <2>1, <2>2 DEF Unblemished, EndCycle, InCycle
  <2>4. cyc[p].acct > NAccounts /\ cyc[p].acct \in Nat /\ cyc[p].owed \subseteq Messages
    BY <2>3 DEF RunnerInv, Owing, TypeOK, CycleState
  <2>5. \A m \in cyc[p].owed : AccountOf[m] < cyc[p].acct
    BY <2>4
  <2>6. cyc[p].owed \subseteq Settled
    BY <2>3, <2>5 DEF RunnerInv, Owing
  <2> QED BY <1>3, <2>6 DEF Grows
<1> QED BY <1>5, <1>6, <1>7 DEF RunnerInv

LEMMA StartFetchInv ==
  ASSUME TypeOK, NEW p \in Runners, RunnerInv(p), Grows, StartFetch(p)
  PROVE  RunnerInv(p)'
<1> DEFINE c == cyc[p]  d == cyc'[p]  a == c.acct
           mail == {m \in inbox \ gone : AccountOf[m] = a}
<1>1. PICK again \in SUBSET (mail \cap saved[a]) :
        Become(p, [c EXCEPT !.phase = "fetching", !.start = saved[a],
                            !.pending = (mail \ saved[a]) \cup again])
  BY DEF StartFetch
<1>2. c \in CycleState
  BY DEF TypeOK
<1> DEFINE pending == (mail \ saved[a]) \cup again
<1>3. mail \ saved[a] \subseteq pending
  OBVIOUS
<1> HIDE DEF pending
<1>4. d = [c EXCEPT !.phase = "fetching", !.start = saved[a], !.pending = pending]
  BY <1>1 DEF Become, TypeOK, pending
<1>5. /\ d.phase = "fetching" /\ d.start = saved[a] /\ d.pending = pending
      /\ d.acct = a /\ d.errs = c.errs /\ d.passed = c.passed
      /\ d.accounted = c.accounted /\ d.owed = c.owed /\ d.degraded = c.degraded
      /\ d.result = c.result
  BY <1>2, <1>4 DEF CycleState
<1> HIDE DEF d
<1>6. /\ holder' = holder /\ saved' = saved /\ inbox' = inbox /\ gone' = gone
      /\ stopping' = stopping /\ cancelled' = cancelled /\ c.phase = "account"
  BY DEF StartFetch, world, disk, signals
<1>7. Locked(p)' /\ Refused(p)' /\ InAccount(p)' /\ Fresh(p)' /\ Rendered(p)' /\ Ungraded(p)'
      /\ OkIsTrue(p)'
  BY <1>5, <1>6 DEF d, RunnerInv, Locked, Refused, InAccount, Fresh, Rendered, Ungraded,
                    OkIsTrue, InCycle
<1>8. Hold(p)' <=> Hold(p)
  BY <1>5 DEF d, Hold
<1>9. PassedSettled(p)'
  BY <1>5, <1>8 DEF d, RunnerInv, PassedSettled, Grows
<1>10. Unblemished(p)' => Unblemished(p)
  BY <1>5, <1>6, <1>8 DEF d, Unblemished, InCycle
<1>11. ASSUME NEW m \in c.owed, AccountOf[m] = a
       PROVE  m \in d.start \cup d.pending \cup gone'
  <2>1. m \in inbox
    BY DEF RunnerInv, Owing
  <2> QED BY <1>3, <1>5, <1>6, <1>11, <2>1
<1>12. Owing(p)'
  BY <1>5, <1>6, <1>10, <1>11 DEF d, RunnerInv, Owing, Grows
<1> QED BY <1>7, <1>9, <1>12 DEF RunnerInv

LEMMA VanishInv ==
  ASSUME TypeOK, NEW p \in Runners, RunnerInv(p), Grows, NEW m \in Messages, Vanish(p, m)
  PROVE  RunnerInv(p)'
<1> DEFINE c == cyc[p]  d == cyc'[p]
<1>1. c \in CycleState
  BY DEF TypeOK
<1>2. d = [c EXCEPT !.pending = @ \ {m}, !.passed = @ \cup {m}]
  BY DEF Vanish, Become, TypeOK
<1>3. /\ d.phase = "fetching" /\ d.start = c.start /\ d.pending = c.pending \ {m}
      /\ d.acct = c.acct /\ d.errs = c.errs /\ d.passed = c.passed \cup {m}
      /\ d.accounted = c.accounted /\ d.owed = c.owed /\ d.degraded = c.degraded
      /\ d.result = c.result
  BY <1>1, <1>2 DEF CycleState, Vanish
<1> HIDE DEF d
<1>4. /\ holder' = holder /\ saved' = saved /\ gone' = gone
      /\ stopping' = stopping /\ cancelled' = cancelled
      /\ c.phase = "fetching" /\ m \in gone
  BY DEF Vanish, world, disk, signals
<1>5. Locked(p)' /\ Refused(p)' /\ InAccount(p)' /\ Fresh(p)' /\ Rendered(p)' /\ Ungraded(p)'
      /\ OkIsTrue(p)'
  BY <1>3, <1>4 DEF d, RunnerInv, Locked, Refused, InAccount, Fresh, Rendered, Ungraded,
                    OkIsTrue, InCycle
<1>6. Hold(p)' <=> Hold(p)
  BY <1>3 DEF d, Hold
<1>7. m \in Settled'
  BY <1>4 DEF Settled, Grows
<1>8. PassedSettled(p)'
  BY <1>3, <1>6, <1>7 DEF d, RunnerInv, PassedSettled, Grows
<1>9. Unblemished(p)' => Unblemished(p)
  BY <1>3, <1>4, <1>6 DEF d, Unblemished, InCycle
<1>10. Owing(p)'
  BY <1>3, <1>4, <1>9 DEF d, RunnerInv, Owing, Grows
<1> QED BY <1>5, <1>8, <1>10 DEF RunnerInv

LEMMA ReceiveMatchedInv ==
  ASSUME TypeOK, NEW p \in Runners, RunnerInv(p), Grows, NEW m \in Messages,
         ReceiveMatched(p, m)
  PROVE  RunnerInv(p)'
<1> DEFINE c == cyc[p]  d == cyc'[p]
<1>1. PICK r \in Rules :
        Become(p, [c EXCEPT !.phase = "delivering", !.msg = m, !.rule = r,
                            !.todo = FormatsOf[r]])
  BY DEF ReceiveMatched
<1>2. c \in CycleState
  BY DEF TypeOK
<1>3. d = [c EXCEPT !.phase = "delivering", !.msg = m, !.rule = r, !.todo = FormatsOf[r]]
  BY <1>1 DEF Become, TypeOK
<1>4. /\ d.phase = "delivering" /\ d.msg = m /\ d.rule = r /\ d.todo = FormatsOf[r]
      /\ d.start = c.start /\ d.pending = c.pending /\ d.acct = c.acct
      /\ d.errs = c.errs /\ d.passed = c.passed /\ d.accounted = c.accounted
      /\ d.owed = c.owed /\ d.degraded = c.degraded /\ d.result = c.result
  BY <1>2, <1>3 DEF CycleState
<1> HIDE DEF d
<1>5. /\ holder' = holder /\ saved' = saved /\ stopping' = stopping
      /\ cancelled' = cancelled /\ c.phase = "fetching" /\ m \in c.pending
  BY DEF ReceiveMatched, Enters, disk, signals
<1>6. Locked(p)' /\ Refused(p)' /\ InAccount(p)' /\ Fresh(p)' /\ Rendered(p)' /\ Ungraded(p)'
      /\ OkIsTrue(p)'
  BY <1>4, <1>5 DEF d, RunnerInv, Locked, Refused, InAccount, Fresh, Rendered, Ungraded,
                    OkIsTrue, InCycle
<1>7. Hold(p)' <=> Hold(p)
  BY <1>4 DEF d, Hold
<1>8. PassedSettled(p)'
  BY <1>4, <1>7 DEF d, RunnerInv, PassedSettled, Grows
<1>9. Unblemished(p)' => Unblemished(p)
  BY <1>4, <1>5, <1>7 DEF d, Unblemished, InCycle
<1>10. Owing(p)'
  BY <1>4, <1>5, <1>9 DEF d, RunnerInv, Owing, Grows
<1> QED BY <1>6, <1>8, <1>10 DEF RunnerInv

LEMMA RenderInv ==
  ASSUME TypeOK, NEW p \in Runners, RunnerInv(p), Grows, NEW f \in Formats, Render(p, f)
  PROVE  RunnerInv(p)'
<1> DEFINE c == cyc[p]  d == cyc'[p]
<1>1. c \in CycleState
  BY DEF TypeOK
<1>2. \/ /\ d = [c EXCEPT !.todo = @ \ {f}]
         /\ Live(p) => <<DestOf[c.rule], c.msg, f>> \in onDisk'
      \/ d = [c EXCEPT !.todo = @ \ {f}, !.failed = TRUE]
  BY DEF Render, Become, TypeOK
<1>p. c.phase = "delivering"
  BY DEF Render
<1> DEFINE kept == /\ d.phase = "delivering" /\ d.msg = c.msg /\ d.rule = c.rule
                   /\ d.todo = c.todo \ {f}
                   /\ d.start = c.start /\ d.pending = c.pending /\ d.acct = c.acct
                   /\ d.errs = c.errs /\ d.passed = c.passed
                   /\ d.accounted = c.accounted /\ d.owed = c.owed
                   /\ d.degraded = c.degraded /\ d.result = c.result
<1>a. ASSUME d = [c EXCEPT !.todo = @ \ {f}] PROVE kept /\ d.failed = c.failed
  BY <1>1, <1>p, <1>a DEF CycleState
<1>b. ASSUME d = [c EXCEPT !.todo = @ \ {f}, !.failed = TRUE]
      PROVE  kept /\ d.failed = TRUE
  BY <1>1, <1>p, <1>b DEF CycleState
<1> HIDE DEF d, c
<1>3. /\ kept
      /\ \/ d.failed = TRUE
         \/ /\ d.failed = c.failed
            /\ Live(p) => <<DestOf[c.rule], c.msg, f>> \in onDisk'
  BY <1>2, <1>a, <1>b
<1> USE DEF c
<1> HIDE DEF d
<1>4. /\ holder' = holder /\ saved' = saved /\ stopping' = stopping
      /\ cancelled' = cancelled /\ c.phase = "delivering"
  BY DEF Render, signals
<1>5. Locked(p)' /\ Refused(p)' /\ InAccount(p)' /\ Fresh(p)' /\ Ungraded(p)' /\ OkIsTrue(p)'
  BY <1>3, <1>4 DEF d, RunnerInv, Locked, Refused, InAccount, Fresh, Ungraded, OkIsTrue, InCycle
<1>6. Rendered(p)'
  BY <1>3, <1>4 DEF d, RunnerInv, Rendered, Grows
<1>7. Hold(p)' <=> Hold(p)
  BY <1>3 DEF d, Hold
<1>8. PassedSettled(p)'
  BY <1>3, <1>7 DEF d, RunnerInv, PassedSettled, Grows
<1>9. Unblemished(p)' => Unblemished(p)
  BY <1>3, <1>4, <1>7 DEF d, Unblemished, InCycle
<1>10. Owing(p)'
  BY <1>3, <1>4, <1>9 DEF d, RunnerInv, Owing, Grows
<1> QED BY <1>5, <1>6, <1>8, <1>10 DEF RunnerInv

\* Aborting blemishes the cycle; going on takes having put the message aside.
LEMMA MessageFailedInv ==
  ASSUME TypeOK, NEW p \in Runners, RunnerInv(p), Grows, NEW m \in Messages,
         cyc[p].phase \in {"fetching", "delivering"}, MessageFailed(p, m),
         UNCHANGED <<saved, holder, signals>>
  PROVE  RunnerInv(p)'
<1>1. CASE Become(p, Leave(p, {"message"}))
  <2>1. {"message"} \in SUBSET Errors /\ {"message"} # {}
    BY DEF Errors
  <2> QED BY <1>1, <2>1, LeaveInv
<1>2. CASE Become(p, Accepted(p, m, TRUE)) /\ (Live(p) => m \in quarantined')
  <2>1. quarantined' \subseteq Settled'
    BY DEF Settled
  <2> QED BY <1>2, <2>1, AcceptedInv
<1> QED BY <1>1, <1>2 DEF MessageFailed

LEMMA ReceiveUnparseableInv ==
  ASSUME TypeOK, NEW p \in Runners, RunnerInv(p), Grows, NEW m \in Messages,
         ReceiveUnparseable(p, m)
  PROVE  RunnerInv(p)'
BY MessageFailedInv DEF ReceiveUnparseable, Enters

LEMMA ReceiveUnmatchedInv ==
  ASSUME TypeOK, NEW p \in Runners, RunnerInv(p), Grows, NEW m \in Messages,
         ReceiveUnmatched(p, m)
  PROVE  RunnerInv(p)'
<1>1. Live(p) /\ ~Hold(p) => m \in Settled'
  BY DEF ReceiveUnmatched, Settled
<1> QED BY <1>1, AcceptedInv DEF ReceiveUnmatched, Enters, disk

\* Nothing failed and nothing is left to write: the message is stored in full.
LEMMA DeliveredInv ==
  ASSUME TypeOK, NEW p \in Runners, RunnerInv(p), Grows, Delivered(p)
  PROVE  RunnerInv(p)'
<1> DEFINE c == cyc[p]
<1>1. c.phase = "delivering" /\ c.todo = {} /\ onDisk' = onDisk
      /\ UNCHANGED <<saved, holder, signals>>
  BY DEF Delivered
<1>2. c.msg \in Messages /\ c.rule \in Rules
  BY <1>1 DEF RunnerInv, Rendered, TypeOK, CycleState
<1>3. CASE c.failed
  BY <1>1, <1>2, <1>3, MessageFailedInv DEF Delivered
<1>4. CASE ~c.failed
  <2>1. Live(p) => \A f \in FormatsOf[c.rule] : <<DestOf[c.rule], c.msg, f>> \in onDisk
    BY <1>1, <1>4 DEF RunnerInv, Rendered
  <2>2. Live(p) => Stored(c.msg)
    BY <1>2, <2>1 DEF Stored
  <2>3. Live(p) => c.msg \in Settled'
    BY <1>2, <2>2 DEF Settled, Grows
  <2>4. Become(p, Accepted(p, c.msg, TRUE))
    BY <1>4 DEF Delivered
  <2> QED BY <1>1, <1>2, <2>3, <2>4, AcceptedInv
<1> QED BY <1>3, <1>4

LEMMA FailsInv ==
  ASSUME TypeOK, NEW p \in Runners, RunnerInv(p), Grows,
         CannotOpen(p) \/ ProviderFails(p)
  PROVE  RunnerInv(p)'
<1>1. /\ {"state"} \in SUBSET Errors /\ {"state"} # {}
      /\ {"provider"} \in SUBSET Errors /\ {"provider"} # {}
  BY DEF Errors
<1> QED BY <1>1, LeaveInv DEF CannotOpen, ProviderFails

\* A fetch that was stopped is one of a cycle told to stop; a fetch that ended left
\* nothing pending, so what was owed is behind the old cursor, passed or deleted.
LEMMA FetchEndsInv ==
  ASSUME TypeOK, NeverForgotten, NEW p \in Runners, RunnerInv(p), Grows,
         FetchDone(p) \/ FetchStopped(p)
  PROVE  RunnerInv(p)'
<1> DEFINE c == cyc[p]
<1>1. c.phase = "fetching" /\ UNCHANGED <<holder, signals>>
  BY DEF FetchDone, FetchStopped
<1>2. Become(p, Leave(p, {})) \/ Become(p, Leave(p, {"state"}))
  BY DEF FetchDone, FetchStopped, SaveState
<1>3. {"state"} \in SUBSET Errors /\ {"state"} # {} /\ {} \in SUBSET Errors
  BY DEF Errors
<1>4. ASSUME Unblemished(p), NEW m \in c.owed, AccountOf[m] = c.acct
      PROVE  m \in Settled'
  <2>1. p \notin stopping /\ Live(p) /\ ~Hold(p)
    BY <1>4 DEF Unblemished
  <2>2. c.pending = {}
    BY <2>1 DEF FetchDone, FetchStopped
  <2>3. m \in c.start \cup c.passed \cup gone
    BY <1>1, <1>4, <2>2 DEF RunnerInv, Owing
  <2>4. c.start \subseteq Settled
    BY <1>1 DEF RunnerInv, Fresh, InAccount, NeverForgotten
  <2>5. c.passed \subseteq Settled
    BY <2>1 DEF RunnerInv, PassedSettled
  <2>6. gone \subseteq Settled
    BY DEF Settled
  <2> QED BY <2>3, <2>4, <2>5, <2>6 DEF Grows
<1>5. CASE Become(p, Leave(p, {}))
  BY <1>1, <1>3, <1>4, <1>5, LeaveInv
<1>6. CASE Become(p, Leave(p, {"state"}))
  BY <1>1, <1>3, <1>6, LeaveInv
<1> QED BY <1>2, <1>5, <1>6
-----------------------------------------------------------------------------
(* The inductive step.                                                     *)

LEMMA OthersStay ==
  ASSUME TypeOK, NEW p \in Runners, NEW c, Become(p, c)
  PROVE  \A q \in Runners : q # p => cyc'[q] = cyc[q]
BY DEF Become, TypeOK

Process(p) ==
  Interfere(p) \/ Restart(p) \/ CannotLock(p) \/ BeginCycle(p) \/ Advance(p)

LEMMA ProcessStep ==
  ASSUME TypeOK, NEW p \in Runners, Process(p)
  PROVE  StepOf(p)
<1>1. CASE Interfere(p)
  <2>1. CASE RequestStop(p) \/ Cancel(p)
    BY <2>1 DEF RequestStop, Cancel, StepOf, disk
  <2>2. CASE Crash(p)
    BY <2>2, OthersStay DEF Crash, StepOf, disk, signals
  <2> QED BY <1>1, <2>1, <2>2 DEF Interfere
<1>2. CASE Restart(p) \/ CannotLock(p)
  BY <1>2, OthersStay DEF Restart, CannotLock, StepOf, disk, signals
<1>3. CASE BeginCycle(p) \/ EndCycle(p)
  BY <1>3, OthersStay DEF BeginCycle, EndCycle, StepOf, disk, signals
<1>4. CASE CannotOpen(p) \/ StartFetch(p) \/ ProviderFails(p)
  BY <1>4, OthersStay DEF CannotOpen, StartFetch, ProviderFails, StepOf, disk, signals
<1>5. ASSUME NEW m, MessageFailed(p, m)
      PROVE  \A q \in Runners : q # p => cyc'[q] = cyc[q]
  BY <1>5, OthersStay DEF MessageFailed
<1>6. CASE Delivered(p)
  BY <1>5, <1>6, OthersStay DEF Delivered, StepOf, signals
<1>7. ASSUME NEW m \in Messages, Vanish(p, m) \/ ReceiveUnmatched(p, m) PROVE StepOf(p)
  BY <1>7, OthersStay DEF Vanish, ReceiveUnmatched, StepOf, disk, signals
<1>8. ASSUME NEW m \in Messages, ReceiveUnparseable(p, m) PROVE StepOf(p)
  BY <1>5, <1>8 DEF ReceiveUnparseable, StepOf, signals
<1>9. ASSUME NEW m \in Messages, ReceiveMatched(p, m) PROVE StepOf(p)
  BY <1>9, OthersStay DEF ReceiveMatched, StepOf, disk, signals
<1>10. ASSUME NEW f \in Formats, Render(p, f) PROVE StepOf(p)
  BY <1>10, OthersStay DEF Render, StepOf, signals
<1>11. CASE FetchDone(p) \/ FetchStopped(p)
  <2>1. /\ InCycle(p) /\ UNCHANGED <<holder, signals>>
        /\ \A q \in Runners : q # p => cyc'[q] = cyc[q]
    BY <1>11, OthersStay DEF FetchDone, FetchStopped, SaveState, InCycle
  <2> QED BY <2>1 DEF StepOf, signals
<1> QED
  BY <1>1, <1>2, <1>3, <1>4, <1>6, <1>7, <1>8, <1>9, <1>10, <1>11 DEF Process, Advance

\* The runner that moves keeps its own invariant.
LEMMA ActorInv ==
  ASSUME IInv, NEW p \in Runners, Process(p), Grows
  PROVE  RunnerInv(p)'
<1>t. TypeOK /\ NeverForgotten /\ RunnerInv(p)
  BY DEF IInv
<1>1. CASE RequestStop(p) \/ Cancel(p)
  <2>1. Undisturbed(p)
    BY <1>1 DEF RequestStop, Cancel, Undisturbed, disk
  <2> QED BY <1>t, <2>1, Bystander
<1>2. CASE Crash(p) \/ Restart(p) \/ CannotLock(p)
  <2>1. holder' # p
    BY <1>t, <1>2, ConfigAssumption
    DEF Crash, Restart, CannotLock, RunnerInv, Locked, Refused, InCycle
  <2> QED BY <1>t, <1>2, <2>1, QuietInv DEF Crash, Restart, CannotLock
<1>3. CASE BeginCycle(p)
  BY <1>t, <1>3, BeginCycleInv
<1>4. CASE CannotOpen(p) \/ ProviderFails(p)
  BY <1>t, <1>4, FailsInv
<1>5. CASE StartFetch(p)
  BY <1>t, <1>5, StartFetchInv
<1>6. CASE FetchDone(p) \/ FetchStopped(p)
  BY <1>t, <1>6, FetchEndsInv
<1>7. CASE Delivered(p)
  BY <1>t, <1>7, DeliveredInv
<1>8. CASE EndCycle(p)
  BY <1>t, <1>8, EndCycleInv
<1>9. ASSUME NEW m \in Messages, Vanish(p, m) \/ ReceiveUnparseable(p, m)
      PROVE  RunnerInv(p)'
  BY <1>t, <1>9, VanishInv, ReceiveUnparseableInv
<1>10. ASSUME NEW m \in Messages, ReceiveUnmatched(p, m) \/ ReceiveMatched(p, m)
       PROVE  RunnerInv(p)'
  BY <1>t, <1>10, ReceiveUnmatchedInv, ReceiveMatchedInv
<1>11. ASSUME NEW f \in Formats, Render(p, f) PROVE RunnerInv(p)'
  BY <1>t, <1>11, RenderInv
<1> QED
  BY <1>1, <1>2, <1>3, <1>4, <1>5, <1>6, <1>7, <1>8, <1>9, <1>10, <1>11
  DEF Process, Interfere, Advance

\* Only the end of a fetch moves a cursor, and only over mail that is settled.
LEMMA ForgottenStep ==
  ASSUME IInv, [Next]_vars, Grows
  PROVE  NeverForgotten'
<1>t. TypeOK /\ NeverForgotten /\ \A p \in Runners : RunnerInv(p)
  BY DEF IInv
<1>1. CASE saved' = saved
  BY <1>t, <1>1 DEF NeverForgotten, Grows
<1>2. ASSUME NEW p \in Runners, FetchDone(p) \/ FetchStopped(p) PROVE NeverForgotten'
  <2> DEFINE c == cyc[p]
  <2>1. c.phase = "fetching" /\ c.acct \in Accounts
    BY <1>t, <1>2 DEF FetchDone, FetchStopped, RunnerInv, InAccount
  <2>2. PICK behind \in SUBSET (c.start \cup c.passed) : SaveState(p, behind)
    BY <1>2 DEF FetchDone, FetchStopped
  <2>3. CASE saved' = [saved EXCEPT ![c.acct] = behind \cup c.accounted]
             /\ Live(p) /\ ~Hold(p)
    <3>1. c.start \subseteq Settled
      BY <1>t, <2>1 DEF RunnerInv, Fresh, NeverForgotten
    <3>2. c.passed \subseteq Settled /\ c.accounted \subseteq Settled
      BY <1>t, <2>3 DEF RunnerInv, PassedSettled
    <3>3. behind \cup c.accounted \subseteq Settled'
      BY <2>2, <3>1, <3>2 DEF Grows
    <3>4. \A a \in Accounts : saved[a] \subseteq Settled'
      BY <1>t DEF NeverForgotten, Grows
    <3> QED BY <1>t, <2>3, <3>3, <3>4 DEF NeverForgotten, TypeOK
  <2> QED BY <1>1, <2>2, <2>3 DEF SaveState
<1>3. CASE World \/ UNCHANGED vars
  BY <1>1, <1>3 DEF World, Arrive, Delete, EditList, Settle, vars, disk
<1>4. ASSUME NEW p \in Runners, Process(p) PROVE NeverForgotten'
  <2>1. CASE \/ Interfere(p) \/ Restart(p) \/ CannotLock(p) \/ BeginCycle(p)
             \/ CannotOpen(p) \/ StartFetch(p) \/ ProviderFails(p) \/ Delivered(p)
             \/ EndCycle(p)
    BY <1>1, <2>1 DEF Interfere, RequestStop, Cancel, Crash, Restart, CannotLock,
       BeginCycle, CannotOpen, StartFetch, ProviderFails, Delivered, EndCycle, disk
  <2>2. CASE \/ \E m \in Messages : \/ Vanish(p, m) \/ ReceiveUnparseable(p, m)
                                    \/ ReceiveUnmatched(p, m) \/ ReceiveMatched(p, m)
             \/ \E f \in Formats : Render(p, f)
    BY <1>1, <2>2 DEF Vanish, ReceiveUnparseable, ReceiveUnmatched, ReceiveMatched,
       Render, disk
  <2> QED BY <1>2, <1>4, <2>1, <2>2 DEF Process, Advance
<1> QED BY <1>3, <1>4 DEF Next, Process

LEMMA InvInit == Init => IInv
<1> SUFFICES ASSUME Init PROVE IInv
  OBVIOUS
<1>1. Quiet("idle", "none") \in CycleState
  BY QuietType DEF Phases, Results
<1>2. TypeOK
  BY <1>1 DEF Init, TypeOK, Readable
<1>3. NeverForgotten
  BY DEF Init, NeverForgotten
<1>4. ASSUME NEW p \in Runners PROVE RunnerInv(p)
  <2>1. /\ cyc[p].phase = "idle" /\ cyc[p].result = "none" /\ cyc[p].owed = {}
        /\ cyc[p].accounted = {} /\ cyc[p].passed = {} /\ holder # p
    BY ConfigAssumption DEF Init, Quiet
  <2> QED BY <2>1 DEF RunnerInv, Locked, Refused, InAccount, Fresh, PassedSettled,
                      Rendered, Owing,
                      Unblemished, Ungraded, OkIsTrue, InCycle
<1> QED BY <1>2, <1>3, <1>4 DEF IInv

LEMMA InvStep == IInv /\ [Next]_vars => IInv'
<1> SUFFICES ASSUME IInv, [Next]_vars PROVE IInv'
  OBVIOUS
<1>t. TypeOK /\ \A p \in Runners : RunnerInv(p)
  BY DEF IInv
<1>1. TypeOK'
  BY TypeStep
<1>2. Grows
  BY Growth
<1>3. NeverForgotten'
  BY <1>2, ForgottenStep
<1>4. ASSUME NEW q \in Runners PROVE RunnerInv(q)'
  <2>1. CASE World \/ UNCHANGED vars
    BY <1>t, <1>2, <2>1, WorldDisturbsNone, Bystander
  <2>2. ASSUME NEW p \in Runners, Process(p) PROVE RunnerInv(q)'
    <3>1. CASE p = q
      BY <1>2, <2>2, <3>1, ActorInv
    <3>2. CASE p # q
      <4>1. StepOf(p)
        BY <1>t, <2>2, ProcessStep
      <4>2. Undisturbed(q)
        BY <1>t, <3>2, <4>1, StepDisturbsNone DEF RunnerInv
      <4> QED BY <1>t, <1>2, <4>2, Bystander
    <3> QED BY <3>1, <3>2
  <2> QED BY <2>1, <2>2 DEF Next, Process
<1> QED BY <1>1, <1>3, <1>4 DEF IInv
-----------------------------------------------------------------------------
(* The theorems.                                                           *)

\* The invariant holds in every reachable state of every configuration.
THEOREM Invariance == Spec => []IInv
<1>1. Init => IInv
  BY InvInit
<1>2. IInv /\ [Next]_vars => IInv'
  BY InvStep
<1> QED BY <1>1, <1>2, PTL DEF Spec

\* Every variable keeps its type: no action of the cycle, of a signal or of the
\* world writes anything else.
THEOREM TypeCorrect == Spec => []TypeOK
<1>1. IInv => TypeOK
  BY DEF IInv
<1> QED BY <1>1, Invariance, PTL

\* Mail behind a saved cursor was stored in full, quarantined, judged unwanted with
\* every list read, or deleted by its owner: for any number of accounts, rules,
\* formats and processes, and whatever crashes, stops and fails in between.
THEOREM NothingForgotten == Spec => []NeverForgotten
<1>1. IInv => NeverForgotten
  BY DEF IInv
<1> QED BY <1>1, Invariance, PTL

\* The cycle lock keeps one process from overwriting another's cursor.
THEOREM NothingLost == Spec => []NoLostUpdate
<1>1. IInv => NoLostUpdate
  BY DEF IInv, NoLostUpdate, RunnerInv
<1> QED BY <1>1, Invariance, PTL

\* A cycle that reports success settled all the mail that was there when it began.
THEOREM SuccessIsTrue == Spec => []OkMeansSettled
<1>1. IInv => OkMeansSettled
  BY DEF IInv, OkMeansSettled, RunnerInv
<1> QED BY <1>1, Invariance, PTL

\* Whoever writes to disk is in a cycle, and has not been refused.
LEMMA Writer ==
  ASSUME IInv, [Next]_vars, ~UNCHANGED disk
  PROVE  \E p \in Runners :
           /\ holder = p /\ Live(p)
           /\ cyc[p].phase \in {"fetching", "delivering"}
           /\ saved' # saved => ~Hold(p)
<1>1. ~World /\ ~UNCHANGED vars
  BY DEF World, Arrive, Delete, EditList, Settle, vars
<1>2. PICK p \in Runners : Process(p)
  BY <1>1 DEF Next, Process
<1>3. /\ ~Interfere(p) /\ ~Restart(p) /\ ~CannotLock(p) /\ ~BeginCycle(p)
      /\ ~CannotOpen(p) /\ ~StartFetch(p) /\ ~ProviderFails(p) /\ ~EndCycle(p)
  BY DEF Interfere, RequestStop, Cancel, Crash, Restart, CannotLock, BeginCycle,
         CannotOpen, StartFetch, ProviderFails, EndCycle
<1>4. \A m \in Messages : ~Vanish(p, m) /\ ~ReceiveUnmatched(p, m) /\ ~ReceiveMatched(p, m)
  BY DEF Vanish, ReceiveUnmatched, ReceiveMatched
<1>5. \/ FetchDone(p) \/ FetchStopped(p) \/ Delivered(p)
      \/ \E m \in Messages : ReceiveUnparseable(p, m)
      \/ \E f \in Formats : Render(p, f)
  BY <1>2, <1>3, <1>4 DEF Process, Advance
<1>6. cyc[p].phase \in {"fetching", "delivering"}
  BY <1>5 DEF FetchDone, FetchStopped, Delivered, ReceiveUnparseable, Enters, Render
<1>7. holder = p
  BY <1>6 DEF IInv, RunnerInv, Locked, InCycle
<1>8. CASE FetchDone(p) \/ FetchStopped(p)
  BY <1>6, <1>7, <1>8 DEF FetchDone, FetchStopped, SaveState, disk
<1>9. CASE \E f \in Formats : Render(p, f)
  BY <1>6, <1>7, <1>9 DEF Render, disk
<1>10. ASSUME NEW m, MessageFailed(p, m), ~Live(p) PROVE quarantined' = quarantined
  BY <1>10 DEF MessageFailed
<1>11. CASE Delivered(p) \/ \E m \in Messages : ReceiveUnparseable(p, m)
  BY <1>6, <1>7, <1>10, <1>11 DEF Delivered, ReceiveUnparseable, disk
<1> QED BY <1>5, <1>8, <1>9, <1>11

\* A --dry-run process changes nothing on disk for as long as it holds the lock.
THEOREM DryRunIsDry == Spec => DryRunTouchesNothing
<1>1. IInv /\ [Next]_vars => [(holder \in DryRunners) => UNCHANGED disk]_vars
  BY Writer DEF Live
<1> QED BY <1>1, Invariance, PTL DEF Spec, DryRunTouchesNothing

\* A cycle that could not read a list saves no cursor under `hold` and writes nothing
\* at all under `fail`.
THEOREM DegradedIsHeld == Spec => DegradedHolds
<1>1. ASSUME IInv, [Next]_vars, NEW p \in Runners, holder = p, cyc[p].degraded # {}
      PROVE  /\ OnDegradedFilter = "hold" => UNCHANGED saved
             /\ OnDegradedFilter = "fail" => UNCHANGED disk
  <2>1. OnDegradedFilter = "hold" => UNCHANGED saved
    BY <1>1, Writer DEF Hold, disk
  <2>2. OnDegradedFilter = "fail" => UNCHANGED disk
    BY <1>1, Writer DEF IInv, RunnerInv, Refused, InCycle
  <2> QED BY <2>1, <2>2
<1>2. IInv /\ [Next]_vars =>
        [\A p \in Runners : holder = p /\ cyc[p].degraded # {} =>
           /\ OnDegradedFilter = "hold" => UNCHANGED saved
           /\ OnDegradedFilter = "fail" => UNCHANGED disk]_vars
  BY <1>1
<1> QED BY <1>2, Invariance, PTL DEF Spec, DegradedHolds
=============================================================================
