------------------------------ MODULE Pipeline ------------------------------
(***************************************************************************)
(* The fetch/filter/store cycle of internal/pipeline, run by several       *)
(* processes over one state directory: `run`, `daemon` and the MCP `sync`  *)
(* tool all call Runner.CycleWithStop.                                     *)
(*                                                                         *)
(* A provider cursor (provider.SyncState) is abstracted to the set of      *)
(* messages BEHIND it: mail the account will not be asked to fetch again.  *)
(* What a provider may do with that set is the contract written on         *)
(* provider.Provider.Fetch; the provider modules are held to it one by     *)
(* one.  An externally-owned domain or pattern list is abstracted to the   *)
(* set of messages it selects.                                             *)
(*                                                                         *)
(* Simplifications:                                                        *)
(*  - the order in which a rule's formats are rendered is left open (it is *)
(*    the order of `formats` in the configuration, and no format depends   *)
(*    on another);                                                         *)
(*  - a message deleted on the server never comes back, and the mail a     *)
(*    provider's query excludes is not part of `inbox`;                    *)
(*  - manifests are reduced to what decides the exit status.               *)
(***************************************************************************)
EXTENDS Naturals, FiniteSets

CONSTANTS
  Runners,           \* processes sharing the state directory
  Daemons,           \* those that own a graceful-stop channel (`daemon`)
  Servers,           \* those whose context can be cancelled at will (`mcp`)
  DryRunners,        \* those started with --dry-run
  NAccounts,         \* number of configured accounts, taken in config order
  Messages,          \* all the mail that may ever arrive
  AccountOf,         \* AccountOf[m]: the account message m arrives in
  Parseable,         \* messages model.Parse accepts
  Perishable,        \* messages their owner may delete at the provider
  NRules,            \* number of rules, evaluated in config order
  Scope,             \* Scope[r]: the accounts rule r applies to
  Inline,            \* Inline[r]: messages r's own predicates accept
  Lists,             \* externally-owned domain and pattern files
  ListOf,            \* ListOf[r]: the list r consults, or NoList
  Negated,           \* rules that consult their list under `not`
  ListStates,        \* what a read of a list may find: the entries it recovers,
                     \* and whether it read the file in full
  Formats,           \* the renderings there are
  FormatsOf,         \* FormatsOf[r]: the renderings rule r asks for
  Dests,             \* destination directories
  DestOf,            \* DestOf[r]: where rule r stores
  OnMessageFailure,  \* "quarantine" or "abort"
  OnDegradedFilter,  \* "hold", "fail" or "proceed"
  NoRunner, NoMessage, NoList

Accounts == 1..NAccounts
Rules    == 1..NRules
NoRule   == 0

ASSUME ConfigAssumption ==
  /\ Daemons \subseteq Runners /\ Servers \subseteq Runners
  /\ DryRunners \subseteq Runners /\ NoRunner \notin Runners
  /\ NAccounts \in Nat /\ NRules \in Nat
  /\ NoMessage \notin Messages /\ NoList \notin Lists
  /\ AccountOf \in [Messages -> Accounts]
  /\ Parseable \subseteq Messages /\ Perishable \subseteq Messages
  /\ Scope \in [Rules -> SUBSET Accounts]
  /\ Inline \in [Rules -> SUBSET Messages]
  /\ ListOf \in [Rules -> Lists \cup {NoList}]
  /\ Negated \subseteq Rules
  /\ ListStates \subseteq [entries : SUBSET Messages, readable : BOOLEAN]
  /\ FormatsOf \in [Rules -> SUBSET Formats]
  /\ DestOf \in [Rules -> Dests]

\* applyDefaults leaves no rule without a format.
ASSUME FormatsAssumption == \A r \in Rules : FormatsOf[r] # {}

ASSUME PolicyAssumption ==
  /\ OnMessageFailure \in {"quarantine", "abort"}
  /\ OnDegradedFilter \in {"hold", "fail", "proceed"}

VARIABLES
  inbox,        \* mail that has arrived at the providers
  gone,         \* mail since deleted there
  lists,        \* the list files as a read would find them
  calm,         \* TRUE once the environment has stopped failing
  saved,        \* saved[a]: mail behind the cursor persisted for account a
  onDisk,       \* the renderings in the destination directories
  quarantined,  \* messages whose raw bytes are in the quarantine directory
  dismissed,    \* history: mail judged unwanted by a live cycle entitled to judge
  holder,       \* who holds the cycle lock
  stopping,     \* daemons asked to stop
  cancelled,    \* runners whose cycle context is cancelled
  cyc           \* cyc[p]: the local state of p's cycle

world   == <<inbox, gone, lists, calm>>
disk    == <<saved, onDisk, quarantined>>
signals == <<stopping, cancelled>>
vars    == <<world, disk, dismissed, holder, signals, cyc>>
-----------------------------------------------------------------------------
(* The local state of a cycle.                                             *)

Phases  == {"down", "idle", "account", "fetching", "delivering", "ending"}
Errors  == {"provider", "message", "state", "degraded"}
Results == {"none", "ok", "config", "provider", "locked"}

CycleState ==
  [phase     : Phases,
   snap      : [Lists -> SUBSET Messages],   \* the lists as Preload read them
   degraded  : SUBSET Lists,                 \* those it could not read in full
   owed      : SUBSET Messages,              \* history: mail there at the start
   acct      : Nat,                          \* the account in progress
   start     : SUBSET Messages,              \* behind the cursor Fetch was given
   pending   : SUBSET Messages,              \* listed, not yet handed over
   passed    : SUBSET Messages,              \* accepted by the callback, or vanished
   accounted : SUBSET Messages,              \* to be marked seen
   msg       : Messages \cup {NoMessage},    \* the message being delivered
   rule      : Rules \cup {NoRule},          \* the rule that claimed it
   todo      : SUBSET Formats,               \* renderings still to write
   failed    : BOOLEAN,                      \* a rendering has failed
   errs      : SUBSET Errors,                \* what errors.Join will return
   result    : Results]                      \* the graded outcome of the last cycle

Quiet(phase, result) ==
  [phase |-> phase, snap |-> [l \in Lists |-> {}], degraded |-> {}, owed |-> {},
   acct |-> 1, start |-> {}, pending |-> {}, passed |-> {}, accounted |-> {},
   msg |-> NoMessage, rule |-> NoRule, todo |-> {}, failed |-> FALSE,
   errs |-> {}, result |-> result]

\* p's cycle moves on to the given local state; the others stay where they are.
Become(p, state) == cyc' = [cyc EXCEPT ![p] = state]

InCycle(p) == cyc[p].phase \notin {"down", "idle"}
Live(p)    == p \notin DryRunners
-----------------------------------------------------------------------------
(* Filter rules and the cycle's policies.                                  *)

\* A rule in scope accepts a message when its own predicates do and the list it
\* consults, as read at the start of the cycle, selects it (or, under `not`,
\* does not).
Matches(r, m, snap) ==
  /\ AccountOf[m] \in Scope[r]
  /\ m \in Inline[r]
  /\ ListOf[r] # NoList => ((m \in snap[ListOf[r]]) <=> (r \notin Negated))

\* Engine.Evaluate returns the first rule in config order that accepts the
\* message, or nil.
Claims(r, m, snap) ==
  Matches(r, m, snap) /\ \A q \in 1..(r - 1) : ~Matches(q, m, snap)
Unclaimed(m, snap) == \A r \in Rules : ~Matches(r, m, snap)

\* Mutant: the policy is never consulted.
HoldNever(p) == FALSE
\* cycle.hold: some list was unreadable and the policy is to keep the cursor.
Hold(p) == cyc[p].degraded # {} /\ OnDegradedFilter = "hold"

\* ExitCode: a provider failure outranks every other.
ExitCode(errs) ==
  IF errs = {} THEN "ok" ELSE IF "provider" \in errs THEN "provider" ELSE "config"

\* Mutant: the last account's outcome replaces the others'.
LeaveForgetting(p, errs) ==
  LET c == cyc[p]
      last == c.acct = NAccounts \/ p \in stopping \cup cancelled
  IN  [Quiet(IF last THEN "ending" ELSE "account", "none") EXCEPT
         !.snap = c.snap, !.degraded = c.degraded, !.owed = c.owed,
         !.acct = c.acct + 1, !.errs = errs]
\* How p leaves an account: the loop goes on to the next one unless a shutdown
\* was requested or the context is gone.
Leave(p, errs) ==
  LET c == cyc[p]
      last == c.acct = NAccounts \/ p \in stopping \cup cancelled
  IN  [Quiet(IF last THEN "ending" ELSE "account", "none") EXCEPT
         !.snap = c.snap, !.degraded = c.degraded, !.owed = c.owed,
         !.acct = c.acct + 1, !.errs = c.errs \cup errs]
-----------------------------------------------------------------------------
(* The world around the cycle.                                             *)

Arrive(m) ==
  /\ m \notin inbox
  /\ inbox' = inbox \cup {m}
  /\ UNCHANGED <<gone, lists, calm, disk, dismissed, holder, signals, cyc>>

Delete(m) ==
  /\ m \in (inbox \cap Perishable) \ gone
  /\ gone' = gone \cup {m}
  /\ UNCHANGED <<inbox, lists, calm, disk, dismissed, holder, signals, cyc>>

\* An agent rewrites a list.  While the environment misbehaves a read of the
\* file may recover only some entries, or none, and say so.
EditList(l, found) ==
  /\ found.readable \/ ~calm
  /\ lists' = [lists EXCEPT ![l] = found]
  /\ UNCHANGED <<inbox, gone, calm, disk, dismissed, holder, signals, cyc>>

Readable == {found \in ListStates : found.readable}

\* From here on nothing fails, nobody interferes, and every list is readable.
Settle ==
  /\ ~calm /\ calm' = TRUE
  /\ lists' \in [Lists -> Readable]
  /\ UNCHANGED <<inbox, gone, disk, dismissed, holder, signals, cyc>>

\* A signal reaches a daemon in mid-cycle: ctx.Done is its stop channel.
RequestStop(p) ==
  /\ ~calm /\ p \in Daemons \ stopping /\ InCycle(p)
  /\ stopping' = stopping \cup {p}
  /\ UNCHANGED <<world, disk, dismissed, holder, cancelled, cyc>>

\* The cycle's context is cancelled: a daemon's once the drain runs out, a
\* server's when the client or the process goes away.
Cancel(p) ==
  /\ ~calm /\ p \in (Servers \cup stopping) \ cancelled /\ InCycle(p)
  /\ cancelled' = cancelled \cup {p}
  /\ UNCHANGED <<world, disk, dismissed, holder, stopping, cyc>>

\* The process dies.  The OS drops its lock; what it wrote stays.
Crash(p) ==
  /\ ~calm /\ InCycle(p)
  /\ Become(p, Quiet("down", "none"))
  /\ holder' = IF holder = p THEN NoRunner ELSE holder
  /\ UNCHANGED <<world, disk, dismissed, signals>>

Restart(p) ==
  /\ cyc[p].phase = "down"
  /\ Become(p, Quiet("idle", "none"))
  /\ stopping' = stopping \ {p} /\ cancelled' = cancelled \ {p}
  /\ UNCHANGED <<world, disk, dismissed, holder>>
-----------------------------------------------------------------------------
(* CycleWithStop.                                                          *)

\* The lock is held elsewhere (ErrLocked), or its file cannot be created.
CannotLock(p) ==
  /\ cyc[p].phase = "idle"
  /\ \E result \in {"locked", "config"} :
       /\ IF result = "locked" THEN holder # NoRunner ELSE ~calm
       /\ Become(p, Quiet("idle", result))
  /\ UNCHANGED <<world, disk, dismissed, holder, signals>>

\* Mutant: the cycle does not wait for the lock to be free.
BeginCycleUnlocked(p) ==
  /\ cyc[p].phase = "idle"
  /\ holder' = p
  /\ Become(p, [Quiet("account", "none")
                 EXCEPT !.snap = [l \in Lists |-> lists[l].entries],
                        !.degraded = {l \in Lists : ~lists[l].readable},
                        !.owed = inbox])
  /\ UNCHANGED <<world, disk, dismissed, signals>>

\* TryLock, then BeginCycle and Preload: every list is read once, up front.
\* Under `fail` a degraded cycle ends before anything is fetched.
BeginCycle(p) ==
  LET degraded == {l \in Lists : ~lists[l].readable}
      refuse   == degraded # {} /\ OnDegradedFilter = "fail"
  IN
  /\ cyc[p].phase = "idle" /\ holder = NoRunner
  /\ holder' = p
  /\ Become(p, [Quiet(IF refuse \/ NAccounts = 0 THEN "ending" ELSE "account", "none")
                 EXCEPT !.snap = [l \in Lists |-> lists[l].entries],
                        !.degraded = degraded, !.owed = inbox,
                        !.errs = IF refuse THEN {"degraded"} ELSE {}])
  /\ UNCHANGED <<world, disk, dismissed, signals>>

\* The deferred Unlock, and the status the caller reports.  A process that was
\* told to stop, or lost its context, exits.
EndCycle(p) ==
  /\ cyc[p].phase = "ending"
  /\ holder' = IF holder = p THEN NoRunner ELSE holder
  /\ Become(p, [Quiet(IF p \in stopping \cup cancelled THEN "down" ELSE "idle",
                      ExitCode(cyc[p].errs))
                 EXCEPT !.degraded = cyc[p].degraded, !.owed = cyc[p].owed])
  /\ UNCHANGED <<world, disk, dismissed, signals>>
-----------------------------------------------------------------------------
(* cycleAccount and the fetch callback.                                    *)

\* The state file does not load, or the provider cannot be built.
CannotOpen(p) ==
  /\ cyc[p].phase = "account"
  /\ \/ ~calm /\ Become(p, Leave(p, {"state"}))
     \/ /\ ~calm \/ p \in cancelled
        /\ Become(p, Leave(p, {"provider"}))
  /\ UNCHANGED <<world, disk, dismissed, holder, signals>>

\* Load, then the provider lists what the cursor leaves ahead.  It may list mail
\* behind the cursor again: delivery is at least once.
StartFetch(p) ==
  LET a    == cyc[p].acct
      mail == {m \in inbox \ gone : AccountOf[m] = a}
  IN
  /\ cyc[p].phase = "account"
  /\ \E again \in SUBSET (mail \cap saved[a]) :
       Become(p, [cyc[p] EXCEPT !.phase = "fetching", !.start = saved[a],
                                !.pending = (mail \ saved[a]) \cup again])
  /\ UNCHANGED <<world, disk, dismissed, holder, signals>>

\* A listed message turns out to have been deleted; the provider passes it by.
Vanish(p, m) ==
  /\ cyc[p].phase = "fetching" /\ m \in cyc[p].pending \cap gone
  /\ Become(p, [cyc[p] EXCEPT !.pending = @ \ {m}, !.passed = @ \cup {m}])
  /\ UNCHANGED <<world, disk, dismissed, holder, signals>>

\* The callback is entered with m: it looks at the stop channel before anything.
Enters(p, m) ==
  cyc[p].phase = "fetching" /\ m \in cyc[p].pending /\ p \notin stopping

\* The callback returns nil for m.
Accepted(p, m, marked) ==
  [cyc[p] EXCEPT !.phase = "fetching",
                 !.pending = @ \ {m}, !.passed = @ \cup {m},
                 !.accounted = IF marked THEN @ \cup {m} ELSE @,
                 !.msg = NoMessage, !.rule = NoRule, !.todo = {}, !.failed = FALSE]

\* Mutant: a quarantine that fails is logged and the message passed by.
MessageFailedAnyway(p, m) ==
  \/ /\ OnMessageFailure = "abort"
     /\ Become(p, Leave(p, {"message"}))
     /\ UNCHANGED quarantined
  \/ /\ OnMessageFailure = "quarantine"
     /\ Become(p, Accepted(p, m, TRUE))
     /\ quarantined' \in {quarantined, quarantined \cup {m}}
\* messageFailed: abort the account, or put the raw bytes aside and go on.  A
\* quarantine write that fails, having written the `.eml` or not, aborts too.
MessageFailed(p, m) ==
  \/ /\ OnMessageFailure = "abort"
     /\ Become(p, Leave(p, {"message"}))
     /\ UNCHANGED quarantined
  \/ /\ OnMessageFailure = "quarantine"
     /\ Become(p, Accepted(p, m, TRUE))
     /\ quarantined' = IF Live(p) THEN quarantined \cup {m} ELSE quarantined
  \/ /\ OnMessageFailure = "quarantine" /\ Live(p) /\ ~calm
     /\ Become(p, Leave(p, {"message"}))
     /\ quarantined' \in {quarantined, quarantined \cup {m}}

ReceiveUnparseable(p, m) ==
  /\ Enters(p, m) /\ m \notin Parseable
  /\ MessageFailed(p, m)
  /\ UNCHANGED <<world, saved, onDisk, dismissed, holder, signals>>

\* No rule claims m.  The verdict stands when every list was read, or when the
\* operator chose to proceed without.
ReceiveUnmatched(p, m) ==
  /\ Enters(p, m) /\ m \in Parseable
  /\ Unclaimed(m, cyc[p].snap)
  /\ Become(p, Accepted(p, m, FALSE))
  /\ dismissed' = IF Live(p) /\ ~Hold(p) THEN dismissed \cup {m} ELSE dismissed
  /\ UNCHANGED <<world, disk, holder, signals>>

ReceiveMatched(p, m) ==
  /\ Enters(p, m) /\ m \in Parseable
  /\ \E r \in Rules :
       /\ Claims(r, m, cyc[p].snap)
       /\ Become(p, [cyc[p] EXCEPT !.phase = "delivering", !.msg = m, !.rule = r,
                                   !.todo = FormatsOf[r]])
  /\ UNCHANGED <<world, disk, dismissed, holder, signals>>

\* One sink of deliver: Store writes the file unless it is there already, Plan
\* (a dry run) only looks.  An error leaves the other formats to go on.
Render(p, f) ==
  /\ cyc[p].phase = "delivering" /\ f \in cyc[p].todo
  /\ \/ /\ Become(p, [cyc[p] EXCEPT !.todo = @ \ {f}])
        /\ onDisk' = IF Live(p)
                     THEN onDisk \cup {<<DestOf[cyc[p].rule], cyc[p].msg, f>>}
                     ELSE onDisk
     \/ /\ ~calm
        /\ Become(p, [cyc[p] EXCEPT !.todo = @ \ {f}, !.failed = TRUE])
        /\ UNCHANGED onDisk
  /\ UNCHANGED <<world, saved, quarantined, dismissed, holder, signals>>

\* The end of deliver: every rendering is there, or some failed.
Delivered(p) ==
  /\ cyc[p].phase = "delivering" /\ cyc[p].todo = {}
  /\ IF cyc[p].failed
     THEN MessageFailed(p, cyc[p].msg)
     ELSE /\ Become(p, Accepted(p, cyc[p].msg, TRUE))
          /\ UNCHANGED quarantined
  /\ UNCHANGED <<world, saved, onDisk, dismissed, holder, signals>>

\* The provider gives up: a network or auth error, or a cancelled context.
ProviderFails(p) ==
  /\ cyc[p].phase = "fetching" /\ (~calm \/ p \in cancelled)
  /\ Become(p, Leave(p, {"provider"}))
  /\ UNCHANGED <<world, disk, dismissed, holder, signals>>

\* The tail of cycleAccount once Fetch returned the cursor `behind`: mark what is
\* accounted for, and save unless the cycle is dry or held.  Save is atomic.
SaveState(p, behind) ==
  LET a == cyc[p].acct IN
  IF Live(p) /\ ~Hold(p)
  THEN \/ /\ saved' = [saved EXCEPT ![a] = behind \cup cyc[p].accounted]
          /\ Become(p, Leave(p, {}))
       \/ /\ ~calm
          /\ Become(p, Leave(p, {"state"}))
          /\ UNCHANGED saved
  ELSE Become(p, Leave(p, {})) /\ UNCHANGED saved

\* Fetch returns nil: everything listed is behind the new cursor.
FetchDone(p) ==
  /\ cyc[p].phase = "fetching" /\ cyc[p].pending = {}
  /\ SaveState(p, cyc[p].start \cup cyc[p].passed)
  /\ UNCHANGED <<world, onDisk, quarantined, dismissed, holder, signals>>

\* Mutant: the cursor moves past what was listed, not past what was accepted.
FetchStoppedPastRefused(p) ==
  /\ cyc[p].phase = "fetching" /\ p \in stopping /\ cyc[p].pending # {}
  /\ SaveState(p, cyc[p].start \cup cyc[p].passed \cup cyc[p].pending)
  /\ UNCHANGED <<world, onDisk, quarantined, dismissed, holder, signals>>
\* The callback refused a message because a stop was requested.  The provider
\* returns "the state accumulated up to that point": some of what it was given
\* and some of what was accepted is behind that cursor, and nothing else.
FetchStopped(p) ==
  /\ cyc[p].phase = "fetching" /\ p \in stopping /\ cyc[p].pending # {}
  /\ \E behind \in SUBSET (cyc[p].start \cup cyc[p].passed) : SaveState(p, behind)
  /\ UNCHANGED <<world, onDisk, quarantined, dismissed, holder, signals>>
-----------------------------------------------------------------------------
Init ==
  /\ inbox = {} /\ gone = {} /\ calm = FALSE
  /\ lists \in [Lists -> Readable]
  /\ saved = [a \in Accounts |-> {}] /\ onDisk = {} /\ quarantined = {}
  /\ dismissed = {} /\ holder = NoRunner /\ stopping = {} /\ cancelled = {}
  /\ cyc = [p \in Runners |-> Quiet("idle", "none")]

World ==
  \/ \E m \in Messages : Arrive(m) \/ Delete(m)
  \/ \E l \in Lists, found \in ListStates : EditList(l, found)
  \/ Settle

Interfere(p) == RequestStop(p) \/ Cancel(p) \/ Crash(p)

\* What p does once it holds the lock.
Advance(p) ==
  \/ CannotOpen(p) \/ StartFetch(p) \/ ProviderFails(p)
  \/ FetchDone(p) \/ FetchStopped(p) \/ Delivered(p) \/ EndCycle(p)
  \/ \E m \in Messages : \/ Vanish(p, m) \/ ReceiveUnparseable(p, m)
                         \/ ReceiveUnmatched(p, m) \/ ReceiveMatched(p, m)
  \/ \E f \in Formats : Render(p, f)

Next ==
  \/ World
  \/ \E p \in Runners : \/ Interfere(p) \/ Restart(p) \/ CannotLock(p)
                        \/ BeginCycle(p) \/ Advance(p)

Spec == Init /\ [][Next]_vars

\* A process in a cycle goes on, a dead daemon is restarted by its supervisor
\* and keeps polling, and the environment settles in the end.
Fairness ==
  /\ WF_vars(Settle)
  /\ \A p \in Runners : WF_vars(Advance(p))
  /\ \A p \in Daemons : WF_vars(Restart(p)) /\ WF_vars(BeginCycle(p))

FairSpec == Spec /\ Fairness
-----------------------------------------------------------------------------
(* Properties.                                                             *)

\* Every variable, and every local of a cycle, has its type.
TypeOK ==
  /\ inbox \subseteq Messages /\ gone \subseteq inbox /\ calm \in BOOLEAN
  /\ lists \in [Lists -> [entries : SUBSET Messages, readable : BOOLEAN]]
  /\ saved \in [Accounts -> SUBSET Messages]
  /\ onDisk \subseteq Dests \X Messages \X Formats
  /\ quarantined \subseteq Messages /\ dismissed \subseteq Messages
  /\ holder \in Runners \cup {NoRunner}
  /\ stopping \subseteq Runners /\ cancelled \subseteq Runners
  /\ cyc \in [Runners -> CycleState]

\* Every rendering some rule asks for is in that rule's directory.
Stored(m) ==
  \E r \in Rules : \A f \in FormatsOf[r] : <<DestOf[r], m, f>> \in onDisk

\* Mail nobody needs to fetch again.
Settled ==
  {m \in Messages : Stored(m)} \cup quarantined \cup dismissed \cup gone

\* "No message is ever both undelivered and forgotten" (pipeline.go:594): mail
\* behind a saved cursor was stored in full, quarantined, judged unwanted with
\* every list read, or deleted by its owner.  It must survive a crash between two
\* renderings, a failing sink or quarantine, a stop in mid-fetch, an unreadable
\* list and a second process.
NeverForgotten == \A a \in Accounts : saved[a] \subseteq Settled

\* The cursor a cycle works from is the one on disk until it saves its own: no
\* process overwrites another's progress (the reason for the cycle lock).
Fresh(p) ==
  cyc[p].phase \in {"fetching", "delivering"} => cyc[p].start = saved[cyc[p].acct]
NoLostUpdate == \A p \in Runners : Fresh(p)

\* A cycle reported as a success, by a process nobody interrupted, settled all the
\* mail there was when it started, in every account: no failure of one account,
\* message, sink or save is masked by what the others did.
OkIsTrue(p) ==
  cyc[p].result = "ok" /\ Live(p) /\ ~Hold(p) /\ p \notin stopping \cup cancelled
  => cyc[p].owed \subseteq Settled
OkMeansSettled == \A p \in Runners : OkIsTrue(p)

\* While a --dry-run process holds the lock nothing on disk changes.
DryRunTouchesNothing == [][(holder \in DryRunners) => UNCHANGED disk]_vars

\* A cycle that could not read a list advances no cursor under `hold`, and writes
\* nothing at all under `fail`, whatever happens to the list meanwhile.
DegradedHolds ==
  [][\A p \in Runners : holder = p /\ cyc[p].degraded # {} =>
       /\ OnDegradedFilter = "hold" => UNCHANGED saved
       /\ OnDegradedFilter = "fail" => UNCHANGED disk]_vars

\* Mail that arrives is settled in the end, although until the environment settles
\* processes crash, sinks and providers fail and lists cannot be read.
EventuallySettled == \A m \in Messages : (m \in inbox) ~> (m \in Settled)
-----------------------------------------------------------------------------
(* The inductive invariant behind the safety properties.                   *)

\* A runner is in a cycle exactly while it holds the lock.
Locked(p) == InCycle(p) <=> holder = p

\* While an account is in progress it is one of the configuration's.
InAccount(p) ==
  cyc[p].phase \in {"account", "fetching", "delivering"} => cyc[p].acct \in Accounts

\* Under `fail` a cycle that could not read a list does nothing but end.
Refused(p) ==
  InCycle(p) /\ cyc[p].degraded # {} /\ OnDegradedFilter = "fail"
  => cyc[p].phase = "ending"

\* What a live cycle will put behind the cursor is settled, unless it is held.
PassedSettled(p) ==
  /\ cyc[p].accounted \subseteq cyc[p].passed
  /\ Live(p) /\ ~Hold(p) => cyc[p].passed \subseteq Settled

\* A message in delivery has, short of a failure, every rendering already done.
Rendered(p) ==
  cyc[p].phase = "delivering" =>
    /\ cyc[p].msg \in cyc[p].pending /\ cyc[p].rule \in Rules
    /\ Live(p) /\ ~cyc[p].failed =>
         \A f \in FormatsOf[cyc[p].rule] \ cyc[p].todo :
           <<DestOf[cyc[p].rule], cyc[p].msg, f>> \in onDisk

\* A cycle with nothing to report so far has settled the accounts behind it, and
\* in the one in progress misses nothing of what was there at the start.
Unblemished(p) ==
  /\ InCycle(p) /\ Live(p) /\ ~Hold(p) /\ cyc[p].errs = {}
  /\ p \notin stopping \cup cancelled
Owing(p) ==
  /\ cyc[p].owed \subseteq inbox
  /\ Unblemished(p) =>
       /\ cyc[p].phase = "ending" => cyc[p].acct > NAccounts
       /\ \A m \in cyc[p].owed :
            /\ AccountOf[m] < cyc[p].acct => m \in Settled
            /\ AccountOf[m] = cyc[p].acct
               /\ cyc[p].phase \in {"fetching", "delivering"}
               => m \in cyc[p].start \cup cyc[p].passed \cup cyc[p].pending \cup gone

\* A runner in a cycle has no graded outcome yet.
Ungraded(p) == InCycle(p) => cyc[p].result = "none"

RunnerInv(p) ==
  /\ Locked(p) /\ InAccount(p) /\ Refused(p) /\ Fresh(p) /\ PassedSettled(p)
  /\ Rendered(p) /\ Owing(p) /\ Ungraded(p) /\ OkIsTrue(p)

IInv == TypeOK /\ NeverForgotten /\ \A p \in Runners : RunnerInv(p)
=============================================================================
