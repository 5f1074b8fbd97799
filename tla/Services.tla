------------------------------ MODULE Services ------------------------------
(***************************************************************************)
(* The two parts of an account that stand by themselves, with variables of *)
(* their own: S, its files on disk, and C, its credentials.                *)
(***************************************************************************)

CONSTANTS Account, Ids, MaxKills
VARIABLES state, entry, temp, eml, json, pc, reached, aside, kills, dark
S == INSTANCE Storage
storage == <<state, entry, temp, eml, json, pc, reached, aside, kills, dark>>

CONSTANTS Workers, MaxAttempts, Answers, MaxTroubles
VARIABLES issued, expired, revoked, file, on, stopped, cur, last, call, auth, saved, overlapped, troubles
C == INSTANCE Credentials
credentials == <<issued, expired, revoked, file, on, stopped, cur, last, call, auth, saved, overlapped, troubles>>

-----------------------------------------------------------------------------
\* The state file is a register that survives kills and power losses.
StateIsARegister == S!StateIsARegister

\* What a saved cursor has passed is delivered or whole in the quarantine.
CoveredIsKept == S!CoveredIsKept

\* An account's token file holds the grant its user gave last.
GrantKept == C!GrantKept

\* A token that works gets into the file in the end, unless a call is left without an
\* answer.
EventuallyKept == C!EventuallyKept

\* The calls of a cycle end, and so does `auth`, unless one is left without an answer.
CallsEnd == C!CallsEnd

\* "The flow is bound by ctx and by Timeout" (auth.go:219-220): the exchange is not.
FlowIsBound == C!FlowIsBound
=============================================================================
