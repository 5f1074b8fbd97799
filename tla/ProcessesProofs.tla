--------------------------- MODULE ProcessesProofs ---------------------------
(***************************************************************************)
(* Proofs about Processes, for any number of daemons, cron runs, servers   *)
(* and sync calls.                                                         *)
(*                                                                         *)
(* The argument.  Each of the three locks is held by a process that is     *)
(* where the lock lets it be, and a process that is there holds the lock:  *)
(* both directions, because a process takes a lock that is free, and a     *)
(* free lock must mean that nobody is there (Polling, Working, Syncing).   *)
(* Leave gives back all that a process held, however it ends.  A tick that *)
(* is to be graded has an outcome (Outcome): the counters stay counters.   *)
(***************************************************************************)
EXTENDS Processes, TLAPS

\* A daemon runs exactly while it holds the instance lock,
Polling == \A d \in Daemons : Running(d) <=> instance = d

\* a process is in a cycle exactly while it holds the cycle lock,
Working == \A p \in Procs : AtWork(p) <=> lock = p

\* and a sync call runs exactly while it has its server's slot.
Syncing == \A c \in Calls : Running(c) <=> slot[ServerOf[c]] = c

Outcome == \A p \in Procs : pc[p] = "grade" => outcome[p] # "none"

IInv == TypeOK /\ Polling /\ Working /\ Syncing /\ Outcome

\* What a cycle with nobody else in it means.
OneCycle == \A p, q \in Procs : AtWork(p) /\ AtWork(q) => p = q

-----------------------------------------------------------------------------
\* A tick's counters are counters.
LEMMA CountType ==
  ASSUME TypeOK, Outcome, NEW d \in Daemons, pc[d] = "grade"
  PROVE  Count(d) \in Counters
<1>1. d \in Procs
  BY DEF Procs
<1>2. outcome[d] \in {"ok", "locked", "failed"}
  BY <1>1 DEF TypeOK, Outcome, Outcomes
<1>3. tally[d] \in Counters
  BY DEF TypeOK
<1>4. \A n \in 0 .. MaxTally : Up(n) \in 0 .. MaxTally
  BY ProcAssumption DEF Up
<1>5. [tally[d] EXCEPT !.cycles = Up(@)] \in Counters
  BY <1>3, <1>4 DEF Counters
<1>6. 0 \in 0 .. MaxTally
  BY ProcAssumption
<1> QED BY <1>2, <1>4, <1>5, <1>6 DEF Count, Counters

\* A process that leaves takes nothing with it, whatever it held.
LEMMA LeaveKeeps ==
  ASSUME IInv, NEW p \in Procs, NEW status \in Statuses, Leave(p, status)
  PROVE  IInv'
<1> USE ProcAssumption DEF IInv, Leave, Procs
<1>1. TypeOK'
  <2>1. Zero \in Counters
    BY DEF Zero, Counters
  <2> QED BY <2>1 DEF TypeOK, PCs, Outcomes
<1>2. Polling'
  BY DEF TypeOK, Polling, Running
<1>3. Working'
  BY DEF TypeOK, Working, AtWork, Deaf
<1>4. Syncing'
  BY DEF TypeOK, Syncing, Running
<1>5. Outcome'
  BY DEF TypeOK, Outcome
<1> QED BY <1>1, <1>2, <1>3, <1>4, <1>5

\* The start of a process: it takes a free lock or is turned away.
LEMMA LaunchKeeps ==
  ASSUME IInv, NEW p \in Procs, Launch(p)
  PROVE  IInv'
<1> USE ProcAssumption DEF IInv, Procs, locks
<1>1. CASE LaunchDaemon(p)
  <2> USE <1>1 DEF LaunchDaemon
  <2>1. TypeOK'
    BY DEF TypeOK, PCs, Statuses
  <2>2. Polling'
    BY DEF TypeOK, Polling, Running
  <2>3. Working' /\ Syncing' /\ Outcome'
    BY DEF TypeOK, Working, AtWork, Deaf, Syncing, Running, Outcome
  <2> QED BY <2>1, <2>2, <2>3
<1>2. CASE LaunchCron(p)
  <2> USE <1>2 DEF LaunchCron
  <2>1. TypeOK'
    BY DEF TypeOK, PCs
  <2>2. Polling' /\ Working' /\ Syncing' /\ Outcome'
    BY DEF TypeOK, Polling, Working, AtWork, Deaf, Syncing, Running, Outcome
  <2> QED BY <2>1, <2>2
<1>3. CASE CallSync(p)
  <2> USE <1>3 DEF CallSync
  <2>1. TypeOK'
    BY DEF TypeOK, PCs
  <2>2. Polling' /\ Working' /\ Outcome'
    BY DEF TypeOK, Polling, Working, AtWork, Deaf, Running, Outcome
  <2>3. Syncing'
    BY DEF TypeOK, Syncing, Running
  <2> QED BY <2>1, <2>2, <2>3
<1> QED BY <1>1, <1>2, <1>3 DEF Launch

\* The steps of a cycle.
LEMMA CycleKeeps ==
  ASSUME IInv, NEW p \in Procs,
         Tick(p) \/ AbortWork(p) \/ Served(p)
  PROVE  IInv'
<1> USE ProcAssumption DEF IInv, locks
<1>1. CASE Tick(p)
  <2> USE <1>1 DEF Tick
  <2>1. TypeOK'
    BY DEF TypeOK, PCs, Outcomes
  <2>2. Polling' /\ Syncing' /\ Outcome'
    BY DEF TypeOK, Polling, Syncing, Running, Outcome, Procs
  <2>3. Working'
    BY DEF TypeOK, Working, AtWork, Deaf
  <2> QED BY <2>1, <2>2, <2>3
<1>2. CASE GoOn(p) \/ ComeBack(p) \/ LogOut(p)
  <2> USE <1>2 DEF GoOn, ComeBack, LogOut
  <2>1. TypeOK'
    BY DEF TypeOK, PCs
  <2>2. Polling' /\ Syncing' /\ Outcome' /\ Working'
    BY DEF TypeOK, Polling, Syncing, Running, Outcome, Working, AtWork, Deaf, Procs
  <2> QED BY <2>1, <2>2
<1>3. ASSUME NEW o \in {"ok", "failed"}, AtWork(p), Return(p, o)
      PROVE  IInv'
  <2> USE <1>3 DEF Return, AtWork, Deaf
  <2>1. TypeOK'
    BY DEF TypeOK, PCs, Outcomes
  <2>2. Polling' /\ Syncing' /\ Outcome'
    BY DEF TypeOK, Polling, Syncing, Running, Outcome, Procs
  <2>3. Working'
    BY DEF TypeOK, Working
  <2> QED BY <2>1, <2>2, <2>3
<1>4. CASE EndWork(p) \/ FailWork(p) \/ AbortWork(p)
  BY <1>3, <1>4 DEF EndWork, FailWork, AbortWork, AtWork, Deaf
<1> QED BY <1>1, <1>2, <1>4 DEF Served

\* The daemon's loop around its cycles.
LEMMA LoopKeeps ==
  ASSUME IInv, NEW d \in Procs, DrainRunsOut(d) \/ GradeDaemon(d) \/ Wake(d)
  PROVE  IInv'
<1> USE DEF locks
<1>1. CASE DrainRunsOut(d)
  BY <1>1 DEF DrainRunsOut, IInv, TypeOK, Polling, Working, AtWork, Deaf, Syncing, Running, Outcome
<1>2. ASSUME d \in Daemons, pc[d] = "grade", Sleep(d, Count(d))
      PROVE  IInv'
  <2> USE <1>2 DEF Sleep, IInv
  <2>1. Count(d) \in Counters
    BY CountType
  <2>2. TypeOK'
    BY <2>1 DEF TypeOK, PCs, Outcomes
  <2>3. Polling' /\ Working' /\ Syncing' /\ Outcome'
    BY DEF TypeOK, Polling, Working, AtWork, Deaf, Syncing, Running, Outcome, Procs
  <2> QED BY <2>2, <2>3
<1>3. CASE GradeDaemon(d)
  BY <1>2, <1>3, LeaveKeeps DEF GradeDaemon, Statuses
<1>4. CASE Wake(d)
  <2>1. CASE Leave(d, "ok")
    BY <2>1, LeaveKeeps DEF Statuses
  <2>2. CASE pc[d] = "asleep" /\ pc' = [pc EXCEPT ![d] = "tick"]
             /\ UNCHANGED <<locks, signals, cancelled, outcome, tally, exit>>
    BY <2>2 DEF IInv, TypeOK, PCs, Polling, Working, AtWork, Deaf, Syncing, Running, Outcome, Procs
  <2> QED BY <1>4, <2>1, <2>2 DEF Wake
<1> QED BY <1>1, <1>3, <1>4

\* A signal, a cancelled call.
LEMMA NoticeKeeps ==
  ASSUME IInv, NEW p \in Procs, SignalDaemon(p) \/ CancelCall(p)
  PROVE  IInv'
<1>1. TypeOK'
  BY DEF SignalDaemon, CancelCall, IInv, TypeOK, locks
<1>2. Polling' /\ Working' /\ Syncing' /\ Outcome'
  BY DEF SignalDaemon, CancelCall, IInv, Polling, Working, AtWork, Deaf, Syncing, Running, Outcome, locks
<1> QED BY <1>1, <1>2 DEF IInv

LEMMA Step ==
  ASSUME IInv, [Next]_vars
  PROVE  IInv'
<1>1. CASE UNCHANGED vars
  BY <1>1 DEF vars, locks, IInv, TypeOK, Polling, Working, AtWork, Deaf, Syncing, Running, Outcome
<1>2. ASSUME NEW p \in Procs, Grade(p) \/ Kill(p)
      PROVE  IInv'
  BY <1>2, LeaveKeeps DEF Grade, Kill, Statuses
<1> QED
  BY <1>1, <1>2, LaunchKeeps, CycleKeeps, LoopKeeps, NoticeKeeps DEF Next, Proceed

LEMMA Start ==
  ASSUME Init
  PROVE  IInv
<1> USE ProcAssumption DEF Init, Procs
<1>1. TypeOK
  BY DEF TypeOK, PCs, Outcomes, Counters, Zero, Statuses
<1>2. Polling /\ Working /\ Syncing /\ Outcome
  BY DEF Polling, Working, AtWork, Deaf, Syncing, Running, Outcome
<1> QED BY <1>1, <1>2 DEF IInv

\* The invariant holds throughout: all that follows is read off it.
THEOREM Invariance == Spec => []IInv
<1>1. Init => IInv
  BY Start
<1>2. IInv /\ [Next]_vars => IInv'
  BY Step
<1> QED BY <1>1, <1>2, PTL DEF Spec

-----------------------------------------------------------------------------
\* Every variable keeps its type, the daemon's counters (daemon.go) included.
THEOREM TypeCorrect == Spec => []TypeOK
<1>1. IInv => TypeOK
  BY DEF IInv
<1> QED BY <1>1, Invariance, PTL

\* TryInstanceLock admits one daemon to a state directory, for as long as that
\* daemon lives, asleep or at work, and another one after any death.
THEOREM OneDaemonPolls == Spec => []OnePoller
<1>1. IInv => OnePoller
  BY DEF IInv, Polling, OnePoller
<1> QED BY <1>1, Invariance, PTL

\* The slot of Server.sync is taken exactly while the call in it runs.
THEOREM OneSyncRuns == Spec => []OneSync
<1>1. IInv => OneSync
  BY DEF IInv, Syncing, OneSync
<1> QED BY <1>1, Invariance, PTL

\* TryLock in CycleWithStop: of all daemons, cron runs and sync calls, at most one
\* is in a cycle over the state directory.
THEOREM OneCycleRuns == Spec => []OneCycle
<1>1. IInv => OneCycle
  BY DEF IInv, Working, OneCycle
<1> QED BY <1>1, Invariance, PTL

\* What one step may make of a running daemon.
LEMMA EndsForCause ==
  ASSUME IInv, [Next]_vars, NEW d \in Daemons, Running(d), exit'[d] # "killed", ~Running(d)'
  PROVE  \/ exit'[d] = "ok" /\ Stopping(d)
         \/ exit'[d] = "locked" /\ FirstTick(d) /\ Skipped(d)
<1> USE DEF Running, IInv, TypeOK, locks
<1>1. d \in Procs
  BY DEF Procs
<1>2. ASSUME NEW p \in Procs, p # d, pc'[d] # pc[d]
      PROVE  ~(Launch(p) \/ Proceed(p) \/ Served(p) \/ SignalDaemon(p) \/ CancelCall(p) \/ Kill(p))
  BY <1>1, <1>2 DEF Launch, LaunchDaemon, LaunchCron, CallSync, Proceed, Tick, AbortWork, DrainRunsOut,
     GradeDaemon, Sleep, Wake, Grade, Served, GoOn, ComeBack, LogOut, EndWork, FailWork, Return,
     SignalDaemon, CancelCall, Kill, Leave
<1>3. ASSUME pc'[d] = "off"
      PROVE  ~(Launch(d) \/ Tick(d) \/ AbortWork(d) \/ DrainRunsOut(d) \/ Served(d) \/ SignalDaemon(d)
               \/ CancelCall(d))
  BY <1>1, <1>3 DEF Launch, LaunchDaemon, LaunchCron, CallSync, Tick, AbortWork, DrainRunsOut, Served,
     GoOn, ComeBack, LogOut, EndWork, FailWork, Return, SignalDaemon, CancelCall
<1>4. ~Kill(d) /\ ~Grade(d)
  BY ProcAssumption DEF Kill, Leave, Grade
<1>5. CASE GradeDaemon(d)
  BY <1>1, <1>5 DEF GradeDaemon, Leave, Sleep
<1>6. CASE Wake(d)
  BY <1>1, <1>6 DEF Wake, Leave
<1>7. pc'[d] # pc[d] /\ pc'[d] = "off"
  OBVIOUS
<1>8. Next
  BY <1>7 DEF vars
<1> QED BY <1>2, <1>3, <1>4, <1>5, <1>6, <1>7, <1>8 DEF Next, Proceed

\* runDaemon returns for a signal, or for a lock that its very first cycle found
\* held; no failing cycle and no later collision ends the loop.
THEOREM NoOtherExit == Spec => ExitsForCause
<1>1. IInv /\ [Next]_vars =>
        [\A d \in Daemons : Running(d) /\ exit'[d] # "killed" /\ ~Running(d)' =>
           \/ exit'[d] = "ok" /\ Stopping(d)
           \/ exit'[d] = "locked" /\ FirstTick(d) /\ Skipped(d)]_vars
  BY EndsForCause
<1> QED BY <1>1, Invariance, PTL DEF Spec, ExitsForCause
==============================================================================
