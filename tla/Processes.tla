----------------------------- MODULE Processes -----------------------------
(***************************************************************************)
(* The processes that run cycles over one state directory and how they     *)
(* share it: `daemon` (cmd/mail-muncher/daemon.go), a cron `run` (run.go)  *)
(* and the MCP server's `sync` tool (internal/mcpserver/sync.go).          *)
(*                                                                         *)
(* What a cycle does with mail is Pipeline.tla; here it is a loop over     *)
(* accounts and messages that looks at the stop channel and the context    *)
(* between two of them.  It may be held up for ever.  Where it waits for   *)
(* its provider, cancelling its context ends the wait (provider.go:71);    *)
(* at a message (a wedged disk), in an IMAP LOGIN and in a LOGOUT nothing  *)
(* does, since none of them watches it.  Time is abstracted: a sleep or a  *)
(* drain timer ends whenever it likes.  A sync call is a process of its    *)
(* own, belonging to a server.                                             *)
(***************************************************************************)
EXTENDS Naturals, FiniteSets

CONSTANTS
  Daemons, Crons, Calls,   \* the processes
  Servers, ServerOf,       \* ServerOf[c]: the MCP server sync call c is made to
  MaxTally,                \* bound: the daemon's counters stop counting here
  NoOne

Procs == Daemons \cup Crons \cup Calls

ASSUME ProcAssumption ==
  /\ Daemons \cap Crons = {} /\ Daemons \cap Calls = {} /\ Crons \cap Calls = {}
  /\ ServerOf \in [Calls -> Servers]
  /\ MaxTally \in Nat \ {0} /\ NoOne \notin Procs

VARIABLES
  instance,    \* holder of the instance lock
  lock,        \* holder of the cycle lock
  slot,        \* slot[s]: the sync call in server s's one slot
  pc,          \* where each process is
  signals,     \* SIGINT/SIGTERM a process has been sent since it started (at most 2)
  cancelled,   \* processes whose cycle context is cancelled
  outcome,     \* how a process's last cycle went
  tally,       \* the daemon loop's counters
  exit         \* how a daemon last ended

locks == <<instance, lock, slot>>
vars  == <<locks, pc, signals, cancelled, outcome, tally, exit>>

\* off: not running; tick: about to take the cycle lock; then in a cycle, at an
\* account: until the login is accepted, between two messages (waiting for the
\* provider), inside one, and at the logout; grade: the cycle has returned.  Where
\* there is no login, or no cause to wait, a process is there for one step.
PCs      == {"off", "tick", "login", "between", "inside", "logout", "grade", "asleep"}
Outcomes == {"none", "ok", "failed", "locked"}
Statuses == {"none", "ok", "locked", "killed"}
Counters == [cycles : 0..MaxTally, failures : 0..MaxTally, locked : 0..MaxTally]
Zero     == [cycles |-> 0, failures |-> 0, locked |-> 0]

Up(n) == IF n < MaxTally THEN n + 1 ELSE n

Running(p) == pc[p] # "off"
\* In a cycle, where no context is watched.
Deaf(p)    == pc[p] \in {"login", "inside", "logout"}
AtWork(p)  == Deaf(p) \/ pc[p] = "between"

\* ctx.Done() of the daemon loop is closed; the cycle reads it as a stop request.
Stopping(p) == p \in Daemons /\ signals[p] > 0

\* Mutant: the slot is not given back.
LeaveInSlot(p, status) ==
  /\ pc' = [pc EXCEPT ![p] = "off"]
  /\ exit' = IF p \in Daemons THEN [exit EXCEPT ![p] = status] ELSE exit
  /\ lock' = IF lock = p THEN NoOne ELSE lock
  /\ instance' = IF instance = p THEN NoOne ELSE instance
  /\ signals' = [signals EXCEPT ![p] = 0]
  /\ cancelled' = cancelled \ {p}
  /\ outcome' = [outcome EXCEPT ![p] = "none"]
  /\ tally' = IF p \in Daemons THEN [tally EXCEPT ![p] = Zero] ELSE tally
  /\ UNCHANGED slot
\* p's process, or its sync call, is over: the OS and the deferred calls give back
\* what it held, and nothing of its own remains but the status it left with.
Leave(p, status) ==
  /\ pc' = [pc EXCEPT ![p] = "off"]
  /\ exit' = IF p \in Daemons THEN [exit EXCEPT ![p] = status] ELSE exit
  /\ lock' = IF lock = p THEN NoOne ELSE lock
  /\ instance' = IF instance = p THEN NoOne ELSE instance
  /\ slot' = [s \in Servers |-> IF slot[s] = p THEN NoOne ELSE slot[s]]
  /\ signals' = [signals EXCEPT ![p] = 0]
  /\ cancelled' = cancelled \ {p}
  /\ outcome' = [outcome EXCEPT ![p] = "none"]
  /\ tally' = IF p \in Daemons THEN [tally EXCEPT ![p] = Zero] ELSE tally
-----------------------------------------------------------------------------
(* Starting.                                                               *)

\* Mutant: the instance lock is not tried.
LaunchDaemonAnyway(d) ==
  /\ d \in Daemons /\ pc[d] = "off"
  /\ pc' = [pc EXCEPT ![d] = "tick"]
  /\ instance' = d
  /\ exit' = [exit EXCEPT ![d] = "none"]
  /\ UNCHANGED <<lock, slot, signals, cancelled, outcome, tally>>
\* runDaemon: TryInstanceLock, or exit.
LaunchDaemon(d) ==
  /\ d \in Daemons /\ pc[d] = "off"
  /\ IF instance = NoOne
     THEN /\ pc' = [pc EXCEPT ![d] = "tick"]
          /\ instance' = d
          /\ exit' = [exit EXCEPT ![d] = "none"]
     ELSE exit' = [exit EXCEPT ![d] = "locked"] /\ UNCHANGED <<pc, instance>>
  /\ UNCHANGED <<lock, slot, signals, cancelled, outcome, tally>>

\* runCycle.
LaunchCron(c) ==
  /\ c \in Crons /\ pc[c] = "off"
  /\ pc' = [pc EXCEPT ![c] = "tick"]
  /\ UNCHANGED <<locks, signals, cancelled, outcome, tally, exit>>

\* Server.sync, when the slot is free; otherwise ErrSyncInProgress and no change.
CallSync(c) ==
  /\ c \in Calls /\ pc[c] = "off" /\ slot[ServerOf[c]] = NoOne
  /\ slot' = [slot EXCEPT ![ServerOf[c]] = c]
  /\ pc' = [pc EXCEPT ![c] = "tick"]
  /\ UNCHANGED <<instance, lock, signals, cancelled, outcome, tally, exit>>
-----------------------------------------------------------------------------
(* A cycle: CycleWithStop.                                                 *)

\* Mutant: LockWait.
TickWaiting(p) ==
  /\ pc[p] = "tick"
  /\ lock = NoOne /\ lock' = p
  /\ pc' = [pc EXCEPT ![p] = "login"]
  /\ UNCHANGED <<instance, slot, signals, cancelled, outcome, tally, exit>>
\* TryLock.  The lock file itself may fail to open.
Tick(p) ==
  /\ pc[p] = "tick"
  /\ \/ /\ lock = NoOne /\ lock' = p
        /\ pc' = [pc EXCEPT ![p] = "login"]
        /\ UNCHANGED outcome
     \/ \E o \in {"locked", "failed"} :
          /\ o = "locked" => lock # NoOne
          /\ outcome' = [outcome EXCEPT ![p] = o]
          /\ pc' = [pc EXCEPT ![p] = "grade"]
          /\ UNCHANGED lock
  /\ UNCHANGED <<instance, slot, signals, cancelled, tally, exit>>

\* The next message, or the next account, unless a stop was requested or the context
\* is gone.
GoOn(p) ==
  /\ ~Stopping(p) /\ p \notin cancelled
  /\ \/ pc[p] = "between" /\ pc' = [pc EXCEPT ![p] = "inside"]
     \/ pc[p] = "logout" /\ pc' = [pc EXCEPT ![p] = "login"]
  /\ UNCHANGED <<locks, signals, cancelled, outcome, tally, exit>>

\* The login is accepted, or the callback returns.
ComeBack(p) ==
  /\ pc[p] \in {"login", "inside"}
  /\ pc' = [pc EXCEPT ![p] = "between"]
  /\ UNCHANGED <<locks, signals, cancelled, outcome, tally, exit>>

\* The provider has nothing more, or its next message is refused for a stop.
LogOut(p) ==
  /\ pc[p] = "between"
  /\ pc' = [pc EXCEPT ![p] = "logout"]
  /\ UNCHANGED <<locks, signals, cancelled, outcome, tally, exit>>

\* The cycle returns and its deferred Unlock runs.
Return(p, result) ==
  /\ lock' = NoOne
  /\ outcome' = [outcome EXCEPT ![p] = result]
  /\ pc' = [pc EXCEPT ![p] = "grade"]
  /\ UNCHANGED <<instance, slot, signals, cancelled, tally, exit>>

EndWork(p) == pc[p] = "logout" /\ Return(p, "ok")
FailWork(p) == AtWork(p) /\ Return(p, "failed")
\* Mutant: without watchContext, the context is looked at only when a message has come.
AbortUnwatched(p) == pc[p] = "inside" /\ p \in cancelled /\ Return(p, "failed")
\* A cancelled context ends the wait for the provider, and nothing else.
AbortWork(p) == pc[p] = "between" /\ p \in cancelled /\ Return(p, "failed")
-----------------------------------------------------------------------------
(* The daemon loop.                                                        *)

\* A signal is the request; the drain running out is what cancels the cycle.
DrainRunsOut(d) ==
  /\ Stopping(d) /\ (AtWork(d) \/ pc[d] = "tick") /\ d \notin cancelled
  /\ cancelled' = cancelled \cup {d}
  /\ UNCHANGED <<locks, pc, signals, outcome, tally, exit>>

\* The loop goes to sleep, with its counters graded.
Sleep(d, count) ==
  /\ pc' = [pc EXCEPT ![d] = "asleep"]
  /\ tally' = [tally EXCEPT ![d] = count]
  /\ outcome' = [outcome EXCEPT ![d] = "none"]
  /\ cancelled' = cancelled \ {d}
  /\ UNCHANGED <<locks, signals, exit>>

Skipped(d)   == outcome[d] = "locked"
FirstTick(d) == tally[d].cycles = 0

\* The counters after a tick, by its outcome.
Count(d) ==
  LET count == [tally[d] EXCEPT !.cycles = Up(@)] IN
  CASE outcome[d] = "ok"     -> [count EXCEPT !.failures = 0, !.locked = 0]
    [] outcome[d] = "locked" -> [count EXCEPT !.locked = Up(@)]
    [] outcome[d] = "failed" -> [count EXCEPT !.failures = Up(@)]

\* Mutant: any tick that finds the lock held is fatal.
GradeDaemonAtAnyTick(d) ==
  /\ d \in Daemons /\ pc[d] = "grade"
  /\ IF Stopping(d) THEN Leave(d, "ok")
     ELSE IF Skipped(d) THEN Leave(d, "locked")
     ELSE Sleep(d, Count(d))
\* The tick is over: endCycle, then exit on a signal, or grade the outcome.
GradeDaemon(d) ==
  /\ d \in Daemons /\ pc[d] = "grade"
  /\ IF Stopping(d) THEN Leave(d, "ok")
     ELSE IF Skipped(d) /\ FirstTick(d) THEN Leave(d, "locked")
     ELSE Sleep(d, Count(d))

\* The sleep ends.  When the timer and the signal are both there, select takes
\* either.
Wake(d) ==
  /\ pc[d] = "asleep"
  /\ \/ /\ pc' = [pc EXCEPT ![d] = "tick"]
        /\ UNCHANGED <<locks, signals, cancelled, outcome, tally, exit>>
     \/ Stopping(d) /\ Leave(d, "ok")
-----------------------------------------------------------------------------
(* Cron runs and sync calls end with their one cycle.                      *)

Grade(p) == p \in Crons \cup Calls /\ pc[p] = "grade" /\ Leave(p, "ok")
-----------------------------------------------------------------------------
(* Signals, clients and death.                                             *)

\* The first signal closes ctx.Done().  NotifyContext keeps catching signals until
\* stop() is called, which is deferred to the end of the command: a second one
\* goes to its buffered channel, and nobody reads it.
SignalDaemon(d) ==
  /\ d \in Daemons /\ Running(d) /\ signals[d] < 2
  /\ signals' = [signals EXCEPT ![d] = @ + 1]
  /\ UNCHANGED <<locks, pc, cancelled, outcome, tally, exit>>

\* The client cancels its call, or goes away, or the server gets a signal.
CancelCall(c) ==
  /\ c \in Calls /\ Running(c) /\ c \notin cancelled
  /\ cancelled' = cancelled \cup {c}
  /\ UNCHANGED <<locks, pc, signals, outcome, tally, exit>>

\* SIGKILL, or for a cron run any signal.  A server takes its call with it.
Kill(p) == Running(p) /\ Leave(p, "killed")
-----------------------------------------------------------------------------
Init ==
  /\ instance = NoOne /\ lock = NoOne /\ slot = [s \in Servers |-> NoOne]
  /\ pc = [p \in Procs |-> "off"] /\ signals = [p \in Procs |-> 0]
  /\ cancelled = {} /\ outcome = [p \in Procs |-> "none"]
  /\ tally = [d \in Daemons |-> Zero]
  /\ exit = [d \in Daemons |-> "none"]

Launch(p) == LaunchDaemon(p) \/ LaunchCron(p) \/ CallSync(p)

\* What a process does by itself, its timers included.
Proceed(p) ==
  \/ Tick(p) \/ AbortWork(p) \/ DrainRunsOut(p) \/ GradeDaemon(p) \/ Wake(p) \/ Grade(p)

\* What a server or a disk lets its cycle do.
Served(p) == GoOn(p) \/ ComeBack(p) \/ LogOut(p) \/ EndWork(p) \/ FailWork(p)

Next ==
  \E p \in Procs :
    \/ Launch(p) \/ Proceed(p) \/ Served(p)
    \/ SignalDaemon(p) \/ CancelCall(p) \/ Kill(p)

Spec == Init /\ [][Next]_vars

\* A running daemon takes its own steps, its sleep and its drain end.  No server and
\* no disk owes an answer, wherever the cycle is; nobody need ever be launched,
\* signalled or killed; and a cron run or a sync call may hold the cycle lock for ever.
FairSpec == Spec /\ \A d \in Daemons : WF_vars(Proceed(d))
-----------------------------------------------------------------------------
(* Properties.                                                             *)

TypeOK ==
  /\ instance \in Daemons \cup {NoOne} /\ lock \in Procs \cup {NoOne}
  /\ slot \in [Servers -> Calls \cup {NoOne}]
  /\ pc \in [Procs -> PCs] /\ signals \in [Procs -> 0..2]
  /\ cancelled \subseteq Procs /\ outcome \in [Procs -> Outcomes]
  /\ tally \in [Daemons -> Counters]
  /\ exit \in [Daemons -> Statuses]

\* "Only one daemon may poll a state directory" (daemon.go:60): also while the one
\* that polls is asleep, holding no cycle lock, and after any other was killed.
OnePoller == \A d, e \in Daemons : Running(d) /\ Running(e) => d = e

\* "Only one sync runs at a time in this process" (sync.go:44), and a call that was
\* cancelled, refused or killed never leaves the slot taken.
OneSync ==
  \A c \in Calls : (slot[ServerOf[c]] = c) <=> Running(c)

\* A daemon ends itself only for a signal, or because its very first cycle found
\* the lock held: no failing cycle and no later collision ends it (daemon.go:207).
ExitsForCause ==
  [][\A d \in Daemons : Running(d) /\ exit'[d] # "killed" /\ ~Running(d)' =>
       \/ exit'[d] = "ok" /\ Stopping(d)
       \/ exit'[d] = "locked" /\ FirstTick(d) /\ Skipped(d)]_vars

\* A signalled daemon ends, also one that is asleep, about to tick, or waiting for a
\* provider that is silent for ever: the drain ends that wait.  Only where no context
\* is watched can it be held: at one message, one login or one logout.
ShutdownTerminates ==
  \A d \in Daemons :
    \/ (Running(d) /\ Stopping(d)) ~> ~Running(d)
    \/ \E place \in {"login", "inside", "logout"} : <>[](pc[d] = place)

\* "A shutdown must always terminate" (daemon.go:37), "so a wedged shutdown still
\* terminates" (daemon.go:320-321): without the exception, as it is written.  It does not hold.
WedgedShutdownTerminates ==
  \A d \in Daemons : (Running(d) /\ Stopping(d)) ~> ~Running(d)

\* A daemon that is left alone never stops ticking for good, whatever its cycles
\* come to and whoever holds the lock, unless a cycle of its own never ends.
KeepsTicking ==
  \A d \in Daemons :
    \/ \A place \in {"tick", "asleep"} : []<>(pc[d] \in {place, "off"})
    \/ <>[]AtWork(d)
=============================================================================
