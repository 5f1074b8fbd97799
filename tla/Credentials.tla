---------------------------- MODULE Credentials ----------------------------
(***************************************************************************)
(* One Gmail account's OAuth token: `auth` obtains and saves it, a cycle   *)
(* loads it, refreshes it and saves what it was given, while its workers   *)
(* call the API through the shared retry loop.  `auth` takes no lock, so   *)
(* it may run beside a cycle; cycles of one account exclude each other.    *)
(*                                                                         *)
(* Access token n was issued under the grant issued[n]; grants and tokens  *)
(* are numbered in the order they are given.  The API, the token endpoint  *)
(* and the browser are external: they answer as they like, or never, since *)
(* no HTTP client here has a timeout.  A refresh is taken to leave the     *)
(* refresh token as it is; Google may rotate it (token.go:131-133), and    *)
(* then a save that is lost for good is not made up for.  How a token file *)
(* is atomically replaced is Storage's matter; here it is one step.        *)
(***************************************************************************)
EXTENDS Naturals, Sequences, FiniteSets

CONSTANTS
  Workers,       \* the callers of the API in one cycle
  MaxAttempts,   \* provider.RetryConfig
  Answers,       \* errors the API may answer: [kind |-> "http", code, reason]
  MaxTroubles    \* bound: expiries, revocations, failures, stops and auth runs

VARIABLES
  issued, expired, revoked,  \* tokens up to `expired` and grants up to `revoked` are dead
  file,        \* the token in the file, None before the first
  on, stopped, \* a cycle runs; its context is cancelled
  cur, last,   \* what oauth2 holds, and what the persisting source saved
  call,        \* worker -> [pc, attempt, token, error, late]
  auth,        \* [pc, results, token]
  saved,       \* history: the grant auth saved last
  overlapped,  \* history: it was saved while a cycle was running
  troubles

server   == <<issued, expired, revoked>>
source   == <<on, stopped, cur, last>>
history  == <<saved, overlapped>>
credVars == <<server, file, source, call, auth, history, troubles>>

None == 0
NoError == [kind |-> "none", code |-> 0, reason |-> ""]
Trouble(n) == troubles + n <= MaxTroubles /\ troubles' = troubles + n

-----------------------------------------------------------------------------
(* Errors *)

RetryableStatus(code) == code \in {408, 429} \cup 500 .. 599

\* A quota error says in its body that it is one; net/http wraps whatever the
\* transport returns, a refused refresh too, in a *url.Error.
Retryable(error) ==
  CASE error.kind = "http" -> \/ RetryableStatus(error.code)
                              \/ error.code = 403 /\ error.reason \in {"rateLimitExceeded", "userRateLimitExceeded", "backendError"}
    [] OTHER               -> error.kind = "url"

\* Only an answer that blames the grant sends the user to `auth`.
ClassifyRefreshError(code) ==
  [kind |-> "url", code |-> code, reason |-> IF code \in 400 .. 499 THEN "ErrTokenRejected" ELSE "refresh"]
Cancelled == [kind |-> "ctx", code |-> 0, reason |-> "canceled"]

-----------------------------------------------------------------------------
(* A cycle and its calls *)

Idle == [pc |-> "done", attempt |-> 0, token |-> None, error |-> NoError, late |-> 0]

\* Mutant: an expired token is not worth loading.
LoadsLive == file > expired
\* LoadToken: any token will do, refreshing it is oauth2's affair.
Loads == file # None

\* Mutant: the source of the last cycle is used again.
StartCycleKeeping ==
  /\ ~on /\ Loads
  /\ on' = TRUE /\ stopped' = FALSE /\ cur' = (IF cur = None THEN file ELSE cur) /\ last' = None
  /\ call' = [w \in Workers |-> [Idle EXCEPT !.pc = "start"]]
  /\ UNCHANGED <<server, file, auth, history, troubles>>
\* Nothing is built without a token in the file.
StartCycle ==
  /\ ~on /\ Loads
  /\ on' = TRUE /\ stopped' = FALSE /\ cur' = file /\ last' = None
  /\ call' = [w \in Workers |-> [Idle EXCEPT !.pc = "start"]]
  /\ UNCHANGED <<server, file, auth, history, troubles>>

EndCycle ==
  /\ on /\ \A w \in Workers : call[w].pc = "done"
  /\ on' = FALSE
  /\ UNCHANGED <<server, file, stopped, cur, last, call, auth, history, troubles>>

\* The process is killed: what its workers held is gone.
Crash ==
  /\ on /\ Trouble(1)
  /\ on' = FALSE /\ call' = [w \in Workers |-> Idle]
  /\ UNCHANGED <<server, file, stopped, cur, last, auth, history>>

Cancel ==
  /\ on /\ ~stopped /\ Trouble(1)
  /\ stopped' = TRUE
  /\ UNCHANGED <<server, file, on, cur, last, call, auth, history>>

Goto(w, pc)   == call' = [call EXCEPT ![w].pc = pc]
Attempt(w)    == call' = [call EXCEPT ![w].pc = "token", ![w].attempt = @ + 1, ![w].late = IF stopped THEN @ + 1 ELSE @]
Failed(w, error) == call' = [call EXCEPT ![w].pc = "judge", ![w].error = error]

StartCall(w) ==
  /\ call[w].pc = "start"
  /\ IF stopped THEN Goto(w, "done") ELSE Attempt(w)
  /\ UNCHANGED <<server, file, source, auth, history, troubles>>

\* oauth2 hands out the token it holds until that expires,
HandOut(w) ==
  /\ call[w].pc = "token" /\ cur > expired
  /\ call' = [call EXCEPT ![w].pc = "persist", ![w].token = cur]
  /\ UNCHANGED <<server, file, source, auth, history, troubles>>

\* then refreshes it, when the token endpoint answers.
Refresh(w) ==
  /\ call[w].pc = "token" /\ cur <= expired
  /\ \/ /\ issued[cur] > revoked
        /\ issued' = Append(issued, issued[cur]) /\ cur' = Len(issued')
        /\ call' = [call EXCEPT ![w].pc = "persist", ![w].token = cur']
        /\ UNCHANGED troubles
     \/ /\ \/ issued[cur] <= revoked /\ Failed(w, ClassifyRefreshError(400)) /\ UNCHANGED troubles
           \/ Failed(w, ClassifyRefreshError(503)) /\ Trouble(1)
        /\ UNCHANGED <<issued, cur>>
  /\ UNCHANGED <<expired, revoked, file, on, stopped, last, auth, history>>

\* Whether the token at hand is the one last saved.
SameToken(a, b) == a = b

\* A token that could not be written is used all the same, and not taken for written.
Persist(w) ==
  /\ call[w].pc = "persist" /\ Goto(w, "send")
  /\ LET held == call[w].token IN
       IF SameToken(last, held)
       THEN UNCHANGED <<file, last, troubles>>
       ELSE \/ file' = held /\ last' = held /\ UNCHANGED troubles
            \/ Trouble(1) /\ UNCHANGED <<file, last>>
  /\ UNCHANGED <<server, on, stopped, cur, auth, history>>

\* The API answers.
Send(w) ==
  /\ call[w].pc = "send"
  /\ \/ Goto(w, "done") /\ UNCHANGED troubles
     \/ Trouble(1) /\ \E error \in Answers : Failed(w, error)
  /\ UNCHANGED <<server, file, source, auth, history>>

\* Whether w waits for the endpoint or the API; both requests carry the context.
Asking(w) == call[w].pc = "send" \/ (call[w].pc = "token" /\ cur <= expired)

CutShort(w) ==
  /\ Asking(w) /\ stopped /\ Failed(w, Cancelled)
  /\ UNCHANGED <<server, file, source, auth, history, troubles>>

\* Mutant: only the error is looked at, not the context.
JudgeByError(w) ==
  /\ call[w].pc = "judge"
  /\ Goto(w, IF ~Retryable(call[w].error) \/ call[w].attempt = MaxAttempts THEN "done" ELSE "sleep")
  /\ UNCHANGED <<server, file, source, auth, history, troubles>>
\* What RetryValue makes of a failed attempt.
Judge(w) ==
  /\ call[w].pc = "judge"
  /\ LET c == call[w] IN
       Goto(w, IF c.error = Cancelled \/ stopped \/ ~Retryable(c.error) \/ c.attempt = MaxAttempts THEN "done" ELSE "sleep")
  /\ UNCHANGED <<server, file, source, auth, history, troubles>>

\* The timer and the end of the context may both be ready: select takes either.
Sleep(w) ==
  /\ call[w].pc = "sleep"
  /\ Attempt(w) \/ (stopped /\ Goto(w, "done"))
  /\ UNCHANGED <<server, file, source, auth, history, troubles>>

\* What w does by itself, and what others let it do: an answer, a write.
Proceed(w) == StartCall(w) \/ HandOut(w) \/ CutShort(w) \/ Judge(w) \/ Sleep(w)
Served(w) == Refresh(w) \/ Send(w) \/ Persist(w)

-----------------------------------------------------------------------------
(* `mail-muncher auth` *)

Redirects == {"denied", "stale", "bare", "code"}
AuthOver == [pc |-> "idle", results |-> <<>>, token |-> None]

Listen ==
  /\ auth.pc = "idle" /\ Trouble(1)
  /\ auth' = [AuthOver EXCEPT !.pc = "waiting"]
  /\ UNCHANGED <<server, file, source, call, history>>

\* The handler never blocks: a second request finds the channel full, or unread.
Redirect ==
  /\ auth.pc # "idle" /\ auth.results = <<>>
  /\ \E r \in Redirects : auth' = [auth EXCEPT !.results = <<r>>]
  /\ UNCHANGED <<server, file, source, call, history, troubles>>

TakeResult ==
  /\ auth.pc = "waiting" /\ auth.results # <<>>
  /\ auth' = IF auth.results = <<"code">> THEN [auth EXCEPT !.pc = "exchange", !.results = <<>>] ELSE AuthOver
  /\ UNCHANGED <<server, file, source, call, history, troubles>>

\* The time is up.
TimeOut ==
  /\ auth.pc = "waiting"
  /\ auth' = AuthOver
  /\ UNCHANGED <<server, file, source, call, history, troubles>>

\* The command is interrupted, which ends an exchange too, as a refusal does.
Interrupt ==
  /\ auth.pc \in {"waiting", "exchange"}
  /\ auth' = AuthOver
  /\ UNCHANGED <<server, file, source, call, history, troubles>>

Grants == IF issued = <<>> THEN 0 ELSE CHOOSE g \in {issued[n] : n \in DOMAIN issued} : \A n \in DOMAIN issued : issued[n] <= g

\* A code buys a grant of its own, when the endpoint answers: the exchange runs on the
\* context of the command, not on the one the timeout ends.
Exchange ==
  /\ auth.pc = "exchange"
  /\ issued' = Append(issued, Grants + 1)
  /\ auth' = [auth EXCEPT !.pc = "save", !.token = Len(issued')]
  /\ UNCHANGED <<expired, revoked, file, source, call, history, troubles>>

SaveToken ==
  /\ auth.pc = "save" /\ auth' = AuthOver
  /\ \/ /\ file' = auth.token /\ saved' = issued[auth.token] /\ overlapped' = on
        /\ UNCHANGED troubles
     \/ Trouble(1) /\ UNCHANGED <<file, history>>
  /\ UNCHANGED <<server, source, call>>

-----------------------------------------------------------------------------
(* The server *)

Expire ==
  /\ expired < Len(issued) /\ Trouble(1)
  /\ expired' = Len(issued)
  /\ UNCHANGED <<issued, revoked, file, source, call, auth, history>>

Revoke ==
  /\ revoked < Grants /\ Trouble(1)
  /\ revoked' = Grants
  /\ UNCHANGED <<issued, expired, file, source, call, auth, history>>

\* Before the first `auth`.
Init ==
  /\ issued = <<>> /\ expired = 0 /\ revoked = 0 /\ file = None /\ troubles = 0
  /\ on = FALSE /\ stopped = FALSE /\ cur = None /\ last = None
  /\ call = [w \in Workers |-> Idle] /\ auth = AuthOver /\ saved = 0 /\ overlapped = FALSE

Next ==
  \/ StartCycle \/ EndCycle \/ Crash \/ Cancel \/ (\E w \in Workers : Proceed(w) \/ Served(w))
  \/ Listen \/ Redirect \/ TakeResult \/ TimeOut \/ Interrupt \/ Exchange \/ SaveToken
  \/ Expire \/ Revoke

\* The next cycle comes, goroutines run, and the timeout bounds auth's wait for the
\* browser.  The API, the token endpoint and the disk owe nothing, nor does the user.
Fairness ==
  /\ WF_credVars(StartCycle) /\ WF_credVars(EndCycle)
  /\ \A w \in Workers : WF_credVars(Proceed(w))
  /\ WF_credVars(TakeResult \/ TimeOut)

Spec == Init /\ [][Next]_credVars /\ Fairness

-----------------------------------------------------------------------------
(* Properties *)

\* The file holds a token of the grant the user gave last, however often cycles
\* refreshed it, failed to save it or were killed, unless `auth` saved it into the
\* middle of a cycle.
GrantKept == file # None /\ ~overlapped => issued[file] = saved

\* Worker w is left alone with its request, or with its write, for ever.
Unanswered(w) == <>[](Asking(w) /\ ~stopped)
Unwritten(w)  == <>[](call[w].pc = "persist")

\* Once nothing fails any more and everything is answered, the file ends up with a
\* token that works, unless the grant itself is dead: a save that failed is made up
\* for.
EventuallyKept ==
  \/ <>[](file = None \/ issued[file] <= revoked \/ file > expired)
  \/ \E w \in Workers : Unanswered(w) \/ Unwritten(w)

\* Every call of a cycle ends, and with them the cycle, unless the API or the token
\* endpoint never answers one and nobody cancels it, or a write never ends.  Every run
\* of `auth` ends whatever the browser and the user do, unless the endpoint leaves its
\* exchange unanswered, or its write never ends.  And once a cycle is cancelled, each
\* of its calls begins one attempt at most.
CallsEnd ==
  /\ []<>~on \/ \E w \in Workers : Unanswered(w) \/ Unwritten(w)
  /\ []<>(auth.pc = "idle") \/ <>[](auth.pc = "exchange") \/ <>[](auth.pc = "save")
  /\ [](\A w \in Workers : call[w].late <= 1)

\* "The flow is bound by ctx and by Timeout" (auth.go:219-220): nobody need interrupt
\* it for it to end.  A write counts as done.  It does not hold: the exchange is not bound.
FlowIsBound == auth.pc # "idle" ~> auth.pc \in {"idle", "save"}
=============================================================================
