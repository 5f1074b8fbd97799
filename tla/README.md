# mail-muncher in TLA+

mail-muncher fetches mail from Gmail and IMAP accounts, evaluates each message
against the rules of a configuration file, and stores what matches as `.eml` and
Markdown files.  It runs as a one-shot `run` (cron), as a `daemon`, and as an MCP
server whose `sync` tool runs a cycle on demand.  All three call one function,
`Runner.CycleWithStop`, over one state directory.

The promise everything else serves is written in `internal/pipeline/pipeline.go:594`:
*no message is ever both undelivered and forgotten*.  This directory holds the
TLA+ model of the code that has to keep it, the TLC runs that check it, and the
TLAPS proofs.

## 1. Inventory

| Component | State it keeps | Operations | Hard part | What makes it correct |
|---|---|---|---|---|
| pipeline cycle (`internal/pipeline`) | the cycle in progress; everything else is on disk | `CycleWithStop`, `cycleAccount`, the fetch callback, `messageFailed`, `deliver` | crashes between renderings, partial failure, graceful stop vs. cancellation, degraded lists | nothing behind a saved cursor is lost; success is reported only when true |
| quarantine (`quarantine.go`) | one `.eml` and one `.json` per failed message | `path`, `write` | names derived from ids; a rewrite in place | what a saved cursor has passed is whole on disk |
| state store and locks (`internal/state`) | one JSON file per account, a cycle lock, an instance lock | `Load`, `Save`, `TryLock`, `LockWait`, `Unlock` | crash or power loss in mid-save, several processes | a reader sees an old or a new state, never a mixture; one writer at a time |
| provider contract (`internal/provider`) | the cursor, the last 2000 seen ids | `Fetch`, `Seen`, `MarkSeen` | what a cursor covers after a fetch that ended early | behind the returned cursor is only what was behind the given one or was accepted |
| IMAP provider (`provider/imap`) | per mailbox: UIDVALIDITY and last UID | `Fetch`, `fetchMailbox`, `uidRange`, `deliver` | mail arriving during a fetch, UIDVALIDITY changes, dropped connections, stops | the provider contract |
| Gmail provider (`provider/gmail`) | history id, last sync time | `Fetch`, `fullScan`, `historyIDs`, `download` (worker pool) | expired history, recovery scans, workers finishing out of order, cancellation | the provider contract; the pool always ends; the callback is never concurrent |
| token source (`gmail/token.go`) | the OAuth token file, the token last saved | `LoadToken`, `SaveToken`, `Token`, `classifyRefreshError` | concurrent refreshes, failed saves, `auth` beside a cycle | the grant given last is the one on disk, and a token that works gets there |
| authorization flow (`gmail/auth.go`) | a listener with one buffered answer | `Run`, `callbackHandler` | duplicate and stale redirects, timeouts, interruption | it ends if its exchange is answered or interrupted, and only a code becomes a token |
| retry (`provider/retry.go`) | attempts | `RetryValue` | the context ends during a wait | no attempt is begun for nothing |
| filter engine (`internal/filter`) | per-cycle cache of list files, the degraded set | `NewEngine`, `BeginCycle`, `Preload`, `Degraded`, `Evaluate` | a file that changes, breaks or disappears in mid-cycle | one reading per list and cycle; a list not read in full is reported |
| configuration (`internal/config`) | none at run time | `Load`, `Validate`, the accessors | what defaults, aliases and external files add up to | what is accepted is complete |
| sinks (`internal/sink`) | the archive: one file per rendering, attachment directories | `Plan`, `Store`, naming | crash between attachment and message file, two writers, retries, names chosen by senders | a name that exists has its full contents; nothing is overwritten; names are apart |
| message model (`internal/model`) | none | `Parse`, `parseReferences`, `synthesizeThread` | broken headers | a reply has its conversation's key |
| daemon loop (`cmd/mail-muncher/daemon.go`) | cycle count, consecutive failures and skips | `run`, `drainContext`, `sleepContext` | a signal at any point, a wedged cycle | ends after a signal unless it is held where no context is watched; exits 3 only when the first tick is locked out |
| MCP server (`internal/mcpserver`) | archive index cache | `sync`, `Index`, `Resolve`, message tools, `list_rules` | reading an archive while a cycle writes it | an answer is what stood; tools agree with each other and with the engine |
| setup commands (`cmd`) | the configuration file | `init`, `auth`, `validate` | a file that appears while `init` asks | nobody's configuration is overwritten |

How they interact: `run`, `daemon` and `sync` build a `Runner`; a cycle takes the
state directory's `flock`, reads every list once (`Preload`), and then for each
account loads the cursor, hands it to the provider's `Fetch` together with a
callback, and saves the cursor `Fetch` returns.  The callback runs the engine and
the sinks for each message, and its error is how a stop or an abort reaches the
provider.  A signal closes the daemon's stop channel; the cycle's context is a
different one, cancelled only when the drain runs out.  The Gmail provider calls its
API through `RetryValue` with tokens of one shared source, while `auth` may replace the
token file under it.  The MCP tools share nothing with a cycle but the files it leaves.

## 2. Modules

### Pipeline

`Pipeline.tla` is the cycle: any number of processes (`Runners`), accounts, rules,
lists, formats and messages.  One `cyc[p]` record holds the locals of p's cycle.

| Model | Code |
|---|---|
| `saved[a]` | the mail behind the cursor in account a's state file, its seen ids included |
| `onDisk`, `quarantined` | the archive and the quarantine directory |
| `holder` | the `flock` of the state directory |
| `stopping`, `cancelled` | the stop channel and the cycle's context |
| `lists`, `cyc[p].snap`, `cyc[p].degraded` | the list files, and what `Preload` found in them |
| `BeginCycle` ... `EndCycle` | `CycleWithStop`, from `TryLock` to the deferred `Unlock` |
| `CannotOpen`, `StartFetch`, `FetchDone`, `FetchStopped`, `ProviderFails`, `SaveState` | `cycleAccount` |
| `ReceiveUnparseable`, `ReceiveUnmatched`, `ReceiveMatched`, `Render`, `Delivered`, `MessageFailed` | the fetch callback, `deliver`, `messageFailed` |
| `Arrive`, `Delete`, `EditList`, `Settle`, `Crash`, `Restart`, `RequestStop`, `Cancel` | the world around it |

A cursor is abstracted to the set of messages behind it, so that every provider
fits; what a provider may return is the contract of `provider.Provider.Fetch`
(`provider.go:67-71`).  `owed` and `dismissed` are history variables: the mail that
was there when a cycle began, and the mail a cycle entitled to judge found
unwanted.  Not in this module: the order in which a rule's formats are rendered
(left open), the contents of files, a rewrite of an existing quarantine file that
is cut short (`Storage` has it), and the eviction of seen ids (`ImapFetch` has it).

Each of `Pipeline`, `ImapFetch`, `GmailFetch`, `DownloadPool`, `Processes` and `Sink` has its
theorems in a module of the same name ending in `Proofs`; `ServicesProofs` has those about
`Storage`, `Credentials` and `Archive`, `RulesProofs` those about `Filter`, `Config`,
`Setup` and `Names` (section 6).

### ImapFetch and ProviderContract

`ImapFetch.tla` is one IMAP account: the server with its mailboxes, and `Fetch`
under one cycle after another.

| Model | Code |
|---|---|
| `validity`, `uidnext`, `present`, `aged` | the server's mailboxes; `aged` mail is older than `initial_lookback` |
| `cursor`, `seen` | the saved `SyncState`: UIDVALIDITY and last UID per mailbox, the FIFO of seen ids |
| `f` | the locals of the running `Fetch`: mailbox, sampled UIDNEXT, the UIDs asked for, `highest`, `out` |
| the `Fetch` actions | `Fetch`, `fetchMailbox`, `uidRange`, `deliver`, one step per round trip and per callback |

`ProviderContract.tla` is what a provider promises the pipeline: behind the cursor
it returns is only what was behind the one it was given, what the callback accepted,
and what the account's own settings exclude.  `FetchContract` shows that `ImapFetch` and `GmailFetch`
implement it.  For IMAP it holds with one exception that is written into the
instance: the one message that a graceful stop refuses (finding 1).

### GmailFetch

`GmailFetch.tla` is one Gmail account: its mail with dates and arrival order, the
history the server still keeps (`oldest`), and `Fetch` on both of its routes, the
full scan and the incremental run, page by page.  `now` is an abstract clock, `Overlap`
and `InitialLookback` are measured on it.  Each download here is one step; that is what
`Download.tla` states and `DownloadPool.tla` implements.  `MarkAll` is the loop that
marks the listed ids as seen, a recursive function over the number of them.

### Download and DownloadPool

`Download.tla` is the promise of `download` in three actions.  `DownloadPool.tla` is
the feeder, the workers, the closer and the caller's goroutine of `fetch.go:271-350`
with their two unbuffered channels and their two contexts.  `KeepsPromise` is the
refinement; `DownloadPoolProofs.tla` proves it.

### Processes

`Processes.tla` is `daemon`, cron `run` and the MCP `sync` tool over one state
directory: the instance lock, the cycle lock, the slot of a server, signals, the
drain, the daemon's counters and its exit status.  What a cycle does with mail is
`Pipeline`; here it is a loop over accounts and messages that may be held up anywhere:

| Place | Code | What ends a wait there |
|---|---|---|
| `login` | `dial`, up to the answer to `LOGIN` (`imap.go:434`) | the server |
| `between` | the provider's requests, under `watchContext` (`imap.go:189`) or with the context in the HTTP request | the server, or the context |
| `inside` | the callback: parse, evaluate, `Store` (`pipeline.go:684`), `quarantine.write` | the disk |
| `logout` | `disconnect` (`imap.go:451`), after the watch has stopped | the server |

`GoOn`, `ComeBack`, `LogOut` and `EndWork` go from one to the next; `AbortWork` is the
context ending a wait, and is possible only `between`.

### Sink

`Sink.tla` is `Store` of both sinks for the renderings of one message: the
directories, the temp files, `link(2)` and its fallback, the attachments and their
cleanup, with several writers that crash, fail and come back.  `Pipeline` takes from
it that a rendering is on disk or is not, and that storing one twice is harmless.

### Storage and Register

`Storage.tla` is what one account's cycle leaves on disk, write by write: the state
file through its temporary one (`CreateTemp`, `WriteAndSync`, `Rename`, `SyncDir`,
`SaveFails` are `Store.Save` and `writeFileAtomic`), and the two files of a quarantined
message written in place (`OpenEml`, `WriteEml`, `WriteSidecar`, `QuarantineFails` are
`quarantine.write`).  A file is what a reader finds and what a power loss may leave of
it; `entry` is what the state file's name may lead to then.  `Register.tla` is the
promise: a value written whole, the last or an earlier one.  `StateIsARegister` is the
refinement, `CoveredIsKept` ties the two kinds of file together.

### Credentials

`Credentials.tla` is one Gmail account's token: a cycle that loads it, workers that
refresh and persist it and call the API in the retry loop, and `auth` beside it.  A
token is a number, `issued` says of which grant it is, `expired` and `revoked` which are
dead; `cur` is what oauth2 holds, `last` what `persistingTokenSource` believes saved.
`StartCall`, `HandOut`, `Refresh`, `Persist`, `Send`, `Judge` and `Sleep` are `RetryValue`
around a call, and `CutShort` is the cycle's context ending a request (`Asking`); `Listen`
to `SaveToken` are `Authorizer.Run`, where `TimeOut` ends the wait for the browser only
and `Interrupt` an exchange too.  Replacing the file is one step
here, since its steps are those of `Storage`.

### Texts, MatchTree, Config and Filter

`Texts.tla` has what the next modules share: trimming, lower case, `NormalizeDomain`,
`ExpandPath`, the reference to a list file.  A text is a sequence of tokens.
`MatchTree.tla` is a rule's match tree: what compiles (`CompileNode`), what it accepts
(`MatchNode`), and the three walks that look for the files in it, which treat a YAML
alias each in its own way: the engine's (`CompiledRefs`), the configuration's
(`ExpandPathsInNode`, `CollectFilePathRefs`) and `list_rules`' (`MatchFilePaths`, which
passes by the `AliasFilePaths`).  What a
regular expression finds, and how long a duration is, are tables.
`Config` and `Filter` know a tree only through these walks, which are parameters of
theirs (`Compiles`, `Matches`, `FileRefs`, `ExpandNode`, `PathRefs`, `ListedFiles`, `AliasedPaths`); `MCRules`
gives them those of `MatchTree`, so that every run is about real trees, while the proofs
hold for any walks that fit (section 6).
`Config.tla` is `Load` and `Validate` over a decoded document.  `Filter.tla` starts from
a configuration both have let through and runs cycles over list files that their owners
rewrite: `Forget`, `Preload` and `Cached` are `BeginCycle`, `Preload` and `cachedList`;
`ListRules` is the tool.  `Evaluate` is the pipeline calling the engine for a message.

### Setup

`Setup.tla` is `init`: `RefuseExistingConfig`, one `Answer` per question (a flag,
`--yes`, or `Prompt`), `ValidateGenerated` through `Config`, `OpenConfig` and
`WriteConfigFile`, with a second writer of the file and kills.  `Rules.tla` puts `Filter`, `Names`
and, as the instance `I`, `Setup` side by side for their run and their proofs.

### Names

`Names.tla` has no state: `Parse` once the MIME library is done, `ParseReferences`,
`Slug`, `Basename`, `SanitizeFilename` and `AttachmentFiles`, over token sequences, with
the lengths as constants.  A number is one token, `Numeral(n)`, which TLC takes from
`ToString`.  The loops over tokens and over attachments are recursive functions, so that
they can be proved about.

### Archive

`Archive.tla` is the index and the tools that answer from it.  `StartIndex`, `Visit`
(the stat, and the cache), `Read`, `NextRoot` and `FinishIndex` are `Archive.Index`, file
by file, with a cycle (`Store`) and people (`Delete`) in between.  The tools are
operators on the records an `Index` returned: `ListMessages`, `SearchMessages`,
`LocatePath`, `LocateId`, `Conversation`, `GroupThreads`; `Oldest` is their stable sort.

## 3. Runs

| Run | Instance | Shows |
|---|---|---|
| `accounts` | a daemon, 2 accounts, 2 rules, 2 formats, quarantine/hold | nothing is forgotten (`NeverForgotten`), a failure in one account is not masked by another's success (`OkMeansSettled`), a degraded cycle advances no cursor (`DegradedHolds`), all mail is settled once failures stop (`EventuallySettled`) |
| `contended` | 2 cron runs and a dry-run server, 2 messages of which one does not parse, abort/fail, a negated list | no lost update of a cursor |
| `imap_fetch` | 1 mailbox, 2 messages per UIDVALIDITY, 2 epochs | the provider contract, no duplicates, everything that stays is fetched |
| `imap_stops` | 2 mailboxes, graceful stops | what was delivered in either mailbox is kept by the saved cursor |
| `imap_refused` | the same, 1 mailbox | finding 1 |
| `gmail_fetch` | 2 messages that arrive late, vanish, become spam; expired cursors | the provider contract on both routes, no blind window, one first look, everything that stays is fetched |
| `download_pool` | 4 ids, 3 workers | the pool implements `Download`, keeps quiet after an error, ends and leaks nothing |
| `processes` | 2 daemons, a cron run, 2 sync calls to one server | one poller, one sync, a daemon ends only for cause, a signalled one ends unless it is held where no context is watched (`ShutdownTerminates`), an unsignalled one keeps ticking unless a cycle of its own never ends |
| `sink` | 2 writers, 2 attachments | names are claimed once and whole, attachments come first, everything is archived in the end |
| `rules` | `Filter` over 2 list files, 3 messages and 37 documents; `Setup` with 6 command lines; `Names` with every list of up to 3 of 11 file names, 256 subjects and 17 kinds of noise in 3 chains of ancestors | a cycle that reports nothing decided by whole lists of its own time (`NoSilentMiss`), an edit comes into force (`EventuallyInForce`), what is accepted is complete, `list_rules` shows the lists the engine reads, but for findings 5 and 6 (`ListedAsRead`), `init` overwrites nobody, names and ancestors come out apart and complete |
| `services` | `Archive` with 2 dests (one behind a link), 6 paths and 3 writes; `Credentials` with 2 workers and 4 troubles; `Storage` with 2 messages and 2 kills | answers are what stood (`TrueAnswer`), a message is read back by every name it has (`ReadBack`), two calls split time without loss and a page's conversations have each message once (`ToolsAgree`), grants and tokens are kept (`GrantKept`, `EventuallyKept`), calls and `auth` end unless they are left without an answer (`CallsEnd`), the state is a register, the quarantine holds what the cursor passed |
| `archive_unborn` | the same | finding 2 |

`rules` and `services` put small components that share nothing side by side: an
instance chooses one at the start and the others rest.  `Services.tla` holds `Storage` and
`Credentials` as the instances `S` and `C`, for their run and for their proofs.

### Findings

1. `imap_refused`: `highest` is raised before the callback has accepted the message
   (`imap.go:361`), so a message refused by a graceful stop is behind the saved cursor
   and is never fetched.  `imap.go:158-160` and `pipeline.go:547-548` say the opposite.
   `Pipeline` assumes the contract; with IMAP, `NeverForgotten` therefore holds up to
   that one message per graceful stop.  Gmail keeps the contract without exception.
2. `archive_unborn`: a server started before a rule's dest exists never shows what is
   stored there (`archive.go:246`), against `archive.go:50-53`.  `TrueAnswer` asks only
   for dests that were there.

These are refuted by a module's formula as soon as it is checked in place of the properties of
the run, and the properties of the run name them as exceptions:

3. `WedgedShutdownTerminates`, in `processes`: the drain cancels the cycle's context
   (`daemon.go:340`), which nobody looks at during one message, in a `LOGIN` or in a
   `LOGOUT` (section 2, Processes).  A daemon whose disk or server hangs there never ends,
   against `daemon.go:320-321` ("so a wedged shutdown still terminates"), `daemon.go:37`
   and, for the two commands, `provider.go:71`.  `ShutdownTerminates` leaves out exactly
   these three places.
4. `FlowIsBound`, in `services`: the code is exchanged on `ctx`, not on the `waitCtx` that
   has the timeout (`auth.go:307`), by a client without one, so a silent token endpoint
   holds `auth` until it is interrupted, against `auth.go:219-220`.  `CallsEnd` leaves it
   out.
5. `AllFilesShown`, in `rules`: `from_domains_file: *alias` is read by the engine and missed
   by `list_rules` (`rules.go:312`), against `rules.go:277`.  `ListedAsRead` leaves out the
   files of which only an alias gives the path (`AliasedPaths`).
6. `EmptyNoteIsWhole`, in `rules`: a pattern list cut short at an overlong line, with nothing
   rejected before it, has an empty note (`rules.go:234`), against `rules.go:238-239` and
   `docs/mcp.md:166`.  A domain list cut short has none either; `docs/mcp.md:154` promises
   one for an empty list only.  `ListedAsRead` asks of a list without a note that no line
   was refused up to there.
7. `OneRecordEach`, in `services` with `Roots <- MCSharedRoots`: two rules that share a dest,
   or have one inside the other's: `Index` walks it once for each, and keys what it reads by
   rule and digest (`archive.go:244`, `record.go:111`).  A cold index has two records of each
   message, one per rule; the next one, which caches by path and so forgets for which rule it
   walked (`archive.go:283-286`), has one record that lists each file twice.  `archive.go:230`
   says "one record per stored message", and `docs/configuration.md:719-721` that sharing a
   dest shows only in the `rule:` key.  `TrueAnswer`, `ReadBack` and `ToolsAgree` are
   checked and proved for dests that are apart.

Read off the code while modelling:

- a second signal does not kill a daemon that is still shutting down, because `stop()`
  is deferred to the end of the command (`daemon.go:91-92`, `mcp.go:48-49`);
  `daemon.go:89-90` says it does;
- a Gmail state file that predates `LastSyncTime`, whose cursor has expired and whose
  recovery scan is stopped, is resumed like a first run, against `fetch.go:103-105`:
  `OneFirstLook` is violated in `gmail_fetch` with `Legacy = TRUE`;
- `persistingTokenSource.last` starts empty, so the first `Token` of a cycle saves what
  the cycle loaded, over a token that `auth` saved since (`token.go:154-175`, against
  `token.go:127-129`); `GrantKept` leaves out a grant saved while a cycle ran
  (`overlapped`);
- a refused refresh token is wrapped by `net/http` in a `*url.Error`, which the Gmail
  provider retries, though `token.go:190-192` says no retry fixes it (`Retryable`);
- a quarantined message is behind the cursor, so the next run does not retry it,
  which `exit.go:35-38` suggests; its files are not flushed before the state is, so
  a power loss can lose them (`CoveredIsKept` stops at `dark`); two ids of one account
  may share a name (`Distinct`);
- the daemon's count of consecutive skips (`daemon.go:243`) is not reset by a cycle
  that fails;
- when two writers store one message and a write fails, the cleanup of the one that
  failed may remove attachments of the one that succeeded (`markdown.go:157` removes
  a directory that another writer may have made since `plan`; `markdown.go:138-139`
  says "only if this call is what created it").  `LinkedFilesThere` and
  `EventuallyArchived` leave this case out (`AloneOrSound`);
- a process that is killed leaves the temp file it was writing; `sink/doc.go:66`
  says it leaves none;
- `init` puts answers into its YAML templates unquoted; `Setup` takes answers that YAML
  reads back as they are.

## 4. Bounds

Every bound is a constant of a configuration or a named constraint.

- `Pipeline`: the messages are few but differ in everything the code tells apart:
  account, parseable or not, matched by a list, by a rule's own predicates, by a
  negated list, or by none.  `Perishable` bounds who may delete mail.  Two accounts
  are enough for one to mask the other, two cron runs and a server for a lost update.
  `StillFailing` (in `contended` and `imap_stops`, which ask for safety only) leaves out the
  states after failures have stopped; each of their steps is one that a failing
  environment can take too.
- `ImapFetch`: two UIDs and two epochs let a UID of the old epoch sit above, at
  and below the new cursor; `MaxSeenIDs = 1` makes the FIFO overflow at the second
  message.  `OneInFirst` keeps the first of two mailboxes small: it must only be
  finished, with mail in it, when the second one is interrupted.
- `GmailFetch`: `PageSize = 1` gives a listing of two messages two pages; three
  moments are enough for mail dated before, at and after a watermark with
  `Overlap = 1`.  `Perishable`, `Suspect` and `InQuery` name the message that may
  vanish, be marked as spam, or match the first scan's query.
- `DownloadPool`: four ids and three workers, so that the feeder waits for a worker.
  The proofs need no bound.
- `Processes`: `MaxTally = 1` tells no failure from some; no decision in the code looks
  further.  Two daemons and a cron run are enough for a daemon that is locked out by
  either.
- `Sink`: two writers in the same or in different formats; two attachments, so that a
  crash can come between them.
- `Filter`: one edit (`MaxEdits`) at any moment of any cycle, from every pair of
  contents to every other: sound, mixed, cut short and missing.  The cache holds one
  reading per list, so a second edit in a cycle would change what it already misses.
  The documents are one
  configuration altered a field at a time, 20 match trees among them; two have an alias for a path,
  once of a path that is written out elsewhere and once of a label.
- `Names`: lengths of 3, 5 and 3 tokens stand for the code's 40, 120 and 16, so that
  names are cut in the middle, at a dash and in the extension.
- `Archive`: three writes suffice to store both formats of a message and replace one
  while the index walks, or to store, delete and store again.
- `Credentials`: four troubles (`MaxTroubles`) are a run of `auth`, an expiry, a failed
  save and a kill, in any order; tokens are issued only for a trouble.  `MaxAttempts = 3`
  leaves a retry between the first and the last.
- `Storage`: two kills, so that a recovery is interrupted too, and two messages, so that
  one is put aside and one delivered behind one cursor.
- Symmetry is used in `contended`, where the cron runs are interchangeable and no
  liveness is checked.

Deadlock is checked but in `download_pool`, whose download ends, and in `rules` and
`services`, where `init` ends and the bounded parts come to rest.

## 5. Fairness

- `Pipeline`: `WF` on the steps of a running process and on restarting and ticking
  of a daemon, and on `Settle`: failures stop at some time.  It is the code's own
  promise, since a message that fails for ever under `abort` is meant to hold the account.
- `ImapFetch`, `GmailFetch`: `WF` on the steps of `Fetch`, which the next cycle
  starts again, and on `Settle`.
- `Processes`: `WF` on what a daemon does by itself (`Proceed`): trying the lock, its timers,
  grading, and leaving a wait when the context ends it.  What a server or a disk lets its
  cycle do (`Served`) has none: no message, login or logout need ever finish, and
  `ShutdownTerminates` and `KeepsTicking` name the places where a cycle may then stay.
  Nothing is asked of cron runs and sync calls: they may hold the lock for ever, and the
  daemon's promises do not depend on them.  Nothing says that anybody signals.
- `DownloadPool`: `WF` on the pool as a whole: the Go scheduler runs some goroutine that can run.
- `Sink`: `WF` on each writer's `Store` or `Retry` (the next cycle hands it the
  message again) and on `Settle`.
- `Filter`: `WF` on `BeginCycle`, `Preload` and `EndCycle`: cycles recur and end.  Edits
  and messages come when they like.
- `Credentials`: `WF` on the next cycle and its end, on what a worker does by itself
  (`Proceed`: a token at hand, the next attempt, and a request that its cancelled context
  cuts short), and on `auth` taking an answer or running out of time while it waits for the
  browser.  The API, the token endpoint, the disk, the browser and the user owe nothing;
  no client in the code has a timeout.  `CallsEnd` and `EventuallyKept` say so: unless a
  request is left without an answer in a cycle nobody cancels (`Unanswered`), a write never
  ends (`Unwritten`), or `auth` waits for its exchange or its write for ever.

## 6. Proofs

`PipelineProofs.tla`, for every number of processes, accounts, rules, lists,
messages and both values of each policy, from the assumptions named in `Pipeline`:

- `TypeCorrect`, `NothingForgotten`, `NothingLost`, `SuccessIsTrue`, `DryRunIsDry`,
  `DegradedIsHeld`.  None of the safety properties is inductive.  `IInv` adds: the
  process that holds the lock is the one inside a cycle; a live cycle's idea of the saved cursor is
  what is on disk (`Fresh`); what a fetch has passed is stored, quarantined, judged
  or gone (`PassedSettled`); a rendering counted as done is on disk (`Rendered`);
  what a cycle owes is ahead of its cursor or settled (`Owing`); what the callback refused is
  not passed (`Refused`).

`DownloadPoolProofs.tla`, for any number of ids and workers:

- `Implements` (`Spec => KeepsPromise`), `QuietAfterError`, `TypeCorrect`.  The
  invariant: as long as nothing failed and nobody cancelled, an id that was not dealt
  with is not fed yet, with exactly one worker, or with the callback (`Covered`,
  `Exclusive`), and workers go away only after the last id was fed (`Fed`).  So a
  download that ends without an error has left nothing.

`ImapFetchProofs.tla`, for any number of mailboxes, UIDs and UIDVALIDITY values and any
limit of the seen list, with and without a lookback or stops:

- `FetchImplementsContract`, `NothingComesTwice`, `ProgressIsKept`, `TypeCorrect`.  A Fetch
  sees a mailbox through what it sampled when it selected it (`Selection`).  What it has
  gone past there is behind the saved cursor, accepted, gone, outside the lookback or
  refused by a stop (`Swept`), so the pair it writes covers nothing else (`Settling`) and
  all it accepted (`Keeping`).  The exception of finding 1 is the set `refused`; the
  theorem says it is the only one.

`GmailFetchProofs.tla`, for any amount of mail, pages of any size, any overlap, lookback
and seen list:

- `CursorHalvesAgree` (`NoBlindWindow`), `EveryStepKeepsTheContract`, `TypeCorrect`, and
  for an account that starts without a state `FetchImplementsContract` and
  `FirstLookIsFirst`.  A Fetch carries the saved cursor, or has dropped its history half
  (`Carried`); mail below the watermark it will save is dealt with or still listed
  (`Listed`), and mail above it is dated within the overlap of the clock it read
  (`Ahead`).  `NoBlindWindow` is itself part of the invariant: a recovery scan is
  complete because the two halves of the cursor it replaces agreed.
- With `Legacy` a first state may lack its time.  `FirstLookIsFirst` is then false (see
  above), and the contract's initial state does not fit, which has nothing behind the
  cursor; each step still keeps the contract (`EveryStepKeepsTheContract`).

`ProcessesProofs.tla`, for any number of daemons, cron runs, servers and calls:

- `OneDaemonPolls`, `OneSyncRuns`, `OneCycleRuns`, `NoOtherExit`, `TypeCorrect`.  The
  properties say that two processes are not in one place.  The invariant says who is: a
  process is where a lock lets it be exactly while it holds that lock (`Polling`,
  `Working`, `Syncing`).  `OneCycle`, at most one process in a cycle, is stated there only.

`SinkProofs.tla`, for any finite set of writers and any attachments:

- `ReportsAreTrue`, `LinksLeadSomewhere`, `NothingIsOverwritten`, `TypeCorrect`.  A
  rendering that is being written in place belongs to one writer (`Claims`), and with
  hard links there is none (`Linked`).  A document's attachments stay because on a disk
  that never fails nobody cleans up (`Sound`), and a single writer cleans up only what
  it has not published (`Alone`); so whoever has got to an attachment finds the earlier
  ones (`Steady`).

`ServicesProofs.tla`, for `Storage` with any sequence of ids and any number of kills, and
for `Credentials` with any number of workers, attempts and troubles:

- `StateIsSafe`: `Storage` implements `Register`.  What is renamed into place is whole and
  flushed (`Disk`).  `QuarantineHolds` (`CoveredIsKept`): the cursor is never ahead of the
  cycle, so the copy that is being written again is one the cursor has not passed (`Copies`).
  Both suppose that ids are sequences (`IdSequence`), the second also what `CoveredIsKept`
  says itself: no two ids share a name and no power was lost.
- `GrantStays` (`GrantKept`): all that a cycle and its workers hold was issued under the grant that
  was in the file when the cycle began (`Granted`).  `OneLateAttempt`: a call begins at
  most one attempt after its cycle was cancelled, whatever `MaxAttempts` says; it is the
  safety half of `CallsEnd`.

and for `Archive`, with any rules, paths and mail, any number of writes and deletions between
the steps of a walk, and pages of any length:

- `IndexIsTrue` (`TrueAnswer`), `StoredIsReadBack` (`ReadBack`), `AnswersAgree`
  (`ToolsAgree`).  The invariant, `ArchiveInv`: a record, cached or new, is what some file
  at its path was parsed to, and is of the file that is there if the two have one stamp
  (`Entry`); and the walk has found each file behind it that nobody touched since,
  once and as it is, and nothing else (`Found`).  `Holds` carries that through grouping
  and sorting.  `Arranged` allows every order of equals, so what is proved of the tools
  does not depend on how Go sorts them.
- The three suppose `DestsApart`, that no file is under two rules' dests: without it
  finding 7 says what happens.  `ReadBack` also supposes that no
  digest is stored under two rules (`DigestsApart`; the engine stores a message under the
  first rule that matches, `README.md:984` in the sources, and a digest has its account and id in it) and
  that a dest reached through a link is not itself a place with mail (`SpellingsApart`).
  The instance of `services` satisfies all three.

`RulesProofs.tla`, for any configuration files, whatever trees are their rules, any list files
and any number of edits:

- `Heard` (`NoSilentMiss`).  The invariant (`Invariance`): a list in the cache is what some
  file held that stood at its path in this cycle, and one that was not read whole
  has its path among the degraded (`Readings`); when the messages come, nothing is left to
  read, and what the pipeline was told is all there is to tell (`Complete`); a verdict
  is the one those lists lead to (`Judged`).
- `Accepted` (`AcceptedIsComplete`): what `Load` leaves blank is an error of `Validate` or has
  a default, and a path that shows something still does after `ExpandPath`.
- `Unclobbered` (`NeverClobbered`), for any command lines and answers: the file being filled
  is one this process created, or was allowed to replace (`SetupInv`).
- `NamesStayApart` (`NamesApart`), for any number of attachments, any names and any lengths.
  A number is in the file's name whatever is cut, appended or written in lower case
  (`NumberedIs`), so that numbers that are written apart make names apart; one number more is
  tried than there are files, so one of them is free (`SomeNumberIsFree`, by the pigeonhole
  theorem) and `AttachmentFile`'s search ends.  Then the files written first stay apart
  from the next (`Distinguished`, by induction over the attachments).  `Neutral` ends
  in a token no reserved extension ends in (`NeutralizedIs`).  A slug is letters with single dashes
  between them (`Plain`), and those are left as they are by each step that makes a slug.
- `AncestorsAreRead` (`AncestorsSurvive`), for any number of headers, ids and kinds of noise.
  Noise adds nothing to what is read and leaves at most one bracket open, with no bracket
  behind it (`QuietNoise`); the next id opens its own (`IdIsRead`), so a header reads as its
  ids (`HeaderIsRead`, by induction over them) and the headers as `Distinct` of them all.

`NamesStayApart` supposes that numbers are written apart, without capitals, dots and slashes
(`NumeralsApart`; `strconv.Itoa`), and that the names and the subject are sequences of
tokens; `AncestorsAreRead` that the noise has no bracketed run of its own with something in
it (`NoIdIn`: such a run is an ancestor, as it should be) and that no bracket is inside an
id.  All samples of the run satisfy both.
The other assumptions: expansions are sequences of tokens (`TextAssumption`), a document has
its fields (`DocumentAssumption`), a tree compiles only if each file in it has a path
(`WalkAssumption`, `compileDomainFile` and `compileRegexFile`), a command line settles `--force`
(`InvocationAssumption`), and letters have no signs or, being lower case, capitals among them
(`LetterAssumption`).  TLC evaluates all of them with `MatchTree`'s walks.

Induction over the loops of the code is stated with a set in place of a predicate
(`SetInduction`, in each module that needs it), since the library's induction theorems take
an operator: what `MarkAll` adds to a seen list at most, for any number of ids, and what
`Those` keeps of a sequence, are proved with it.

The other assumptions are those the component modules name: bounds and limits are naturals,
pages are not empty, the kinds of processes do not overlap, and a `Legacy` account has a message.

Each inductive invariant but that of `Storage` was an invariant of a TLC run before it was
proved, on instances like those of section 3; `Sink` showed there that its first `Sound` was too weak.
What is proved for every instance needs no run: the inductive invariants,
`DryRunTouchesNothing`, `OneCycle`, `OneLateAttempt` and the proved type invariants are in no
configuration.

Only model-checked:

- all liveness: `EventuallySettled`, `EventuallyFetched`, `EventuallyArchived`,
  `EventuallyKept`, `EventuallyInForce`, `ShutdownTerminates`, the rest of `CallsEnd` and
  the like, and `ENABLED`, which are beyond the prover;
- `ListedAsRead`, whose exceptions are findings 5 and 6: what it says is that two recursive walks of a tree, the engine's and
  `list_rules`', meet the same files.  That is induction over trees; supposing it
  of the walks would leave nothing to prove.

## 7. Not modelled

- Decoding and rendering: MIME, HTML, Markdown and YAML text, frontmatter, snippets, log
  and error wording, manifests.  They are functions of one message or one answer, with
  no state, and libraries do most of it.  `Names` starts behind the MIME library,
  `Config` behind the YAML decoder, `Archive` at the parsed frontmatter.
- Regular expressions and Go durations: tables of what each finds, or how long it is.
- TLS, dialling, the IMAP and Gmail wire formats, `password_command`, the browser: I/O
  whose outcomes are the failures of the modules above.
- Planted symlinks inside the archive (`mkdirNoFollow`) and the path checks of
  `Resolve` for names outside it: only the paths of stored messages are asked for.
- Refresh-token rotation: Google may hand out a new refresh token with a refresh
  (`token.go:131-133`).  `Credentials` takes it to stay as it is, so that any token of a live
  grant can be refreshed; with rotation, a save that is lost for good (a failed write, then
  a kill) would not be made up for, and `EventuallyKept` says nothing of that.
- Guidance, help, flag parsing and the test doubles: text, and code of the tests only.

## 8. Plan

What is left, in the order of what it would say:

1. Attachment listings of the archive (`archive.go`, `record.go`) and the manifests, which the
   sinks write beside a rendering and `Archive` does not show yet.
2. The eviction of seen ids seen from the pipeline: `ImapFetch` has it, `Pipeline`
   abstracts from it.
3. Refresh-token rotation in `Credentials`.
4. Two writers of one quarantine file; today the cycle lock rules them out.
