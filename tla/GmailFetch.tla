----------------------------- MODULE GmailFetch -----------------------------
(***************************************************************************)
(* internal/provider/gmail: one account's Fetch, the state the pipeline    *)
(* saves from it, and the mailbox under it.                                *)
(*                                                                         *)
(* Mail is numbered in order of arrival; message m is added to the         *)
(* mailbox by history record m + 1, so the history id of a mailbox that    *)
(* has received k messages is k + 1 and 0 is no cursor.  Time is counted   *)
(* from 1, and 0 is the zero time.  The download pool hands the results    *)
(* over in any order; a call that is retried and fails, or a cancelled     *)
(* context, is Fail, at whatever point.                                    *)
(*                                                                         *)
(* Assumed of Gmail: messages.list answers newest first, and a page token  *)
(* stands for the messages older than the page; history.list answers from  *)
(* the record after the start, reports the mailbox's history id as it is   *)
(* when the page is built, and its last page runs to the end.              *)
(***************************************************************************)
EXTENDS Naturals, Sequences, FiniteSets, SequencesExt

CONSTANTS
  MaxMail,          \* bound: messages that ever arrive
  MaxTime,          \* bound: readings of the clock
  PageSize,         \* FetchOptions.PageSize
  Overlap,          \* RecoveryOverlap
  InitialLookback,  \* FetchOptions.InitialLookback; 0: no bound
  InQuery,          \* mail the account's query selects
  MaxSeenIDs,       \* provider.MaxSeenIDs
  Perishable,       \* bound: mail its owner may delete
  Suspect,          \* bound: mail that may wear SPAM or TRASH
  Legacy            \* TRUE iff the first state may predate LastSyncTime

Message == 1..MaxMail
Times   == 1..MaxTime

ASSUME BoundAssumption ==
  MaxMail \in Nat /\ MaxTime \in Nat \ {0} /\ PageSize \in Nat \ {0} /\ MaxSeenIDs \in Nat

ASSUME OptionAssumption ==
  Overlap \in Nat /\ InitialLookback \in Nat /\ InQuery \subseteq Message /\ Legacy \in BOOLEAN
  /\ Perishable \subseteq Message /\ Suspect \subseteq Message /\ (Legacy => MaxMail > 0)

VARIABLES
  arrived,          \* the mailbox: messages 1..arrived were added to it
  date,             \* a message's own date, which `after:` compares
  gone,             \* deleted messages
  junk,             \* messages wearing SPAM or TRASH
  oldest,           \* history records up to this one have expired
  now,              \* the clock
  calm,             \* TRUE once nothing fails or interferes any more
  include,          \* FetchOptions.IncludeSpamTrash
  cursor,           \* the saved SyncState
  f,                \* the locals of the Fetch in progress
  windowed,         \* history: mail the bounds of a first-ever scan left out
  shielded,         \* history: mail left out as spam or trash
  rooted            \* history: a history cursor was saved at some time

mailbox == <<arrived, date, gone, junk, oldest, now, calm, include>>
history == <<windowed, shielded, rooted>>
vars    == <<mailbox, cursor, f, history>>

SyncState == [history : 0..(MaxMail + 1), synced : 0..MaxTime, seen : Seq(Message)]
Phases    == {"idle", "history", "profile", "list", "download"}

FetchState ==
  [phase     : Phases,
   out       : SyncState,
   firstEver : BOOLEAN,
   sampled   : 0..MaxTime,            \* syncStart, scanStart
   next      : 0..(MaxMail + 1),      \* nextHistoryID, or the profile's
   after     : 0..MaxTime,            \* the `after:` bound; 0: none
   at        : 0..(MaxMail + 1),      \* the page token
   ids       : SUBSET Message,        \* listed, then still to be handed over
   passed    : SUBSET Message,        \* history: accepted by the callback
   accounted : Seq(Message)]          \* what the pipeline will mark seen

Idle ==
  [phase |-> "idle", out |-> [history |-> 0, synced |-> 0, seen |-> <<>>],
   firstEver |-> FALSE, sampled |-> 0, next |-> 0, after |-> 0, at |-> 0,
   ids |-> {}, passed |-> {}, accounted |-> <<>>]

Larger(a, b) == IF a > b THEN a ELSE b

\* MarkSeen: a FIFO in which an id keeps its place.
MarkSeen(ids, m) ==
  LET all == Append(ids, m) IN
  IF m \in ToSet(ids) THEN ids
  ELSE IF Len(all) <= MaxSeenIDs THEN all ELSE Tail(all)

\* The pipeline's loop over what it accounted for.
MarkAll(ids, ms) ==
  LET marked[i \in 0 .. Len(ms)] == IF i = 0 THEN ids ELSE MarkSeen(marked[i - 1], ms[i])
  IN marked[Len(ms)]
-----------------------------------------------------------------------------
(* The mailbox.                                                            *)

\* A message is added.  Its date lags behind the clock, by less than the overlap
\* allows for.
Arrive ==
  /\ arrived < MaxMail /\ arrived' = arrived + 1
  /\ \E d \in Times :
       d <= now /\ now <= d + Overlap /\ date' = [date EXCEPT ![arrived + 1] = d]
  /\ junk' \in {junk, junk \cup (Suspect \cap {arrived + 1})}
  /\ UNCHANGED <<gone, oldest, now, calm, include, cursor, f, history>>

Delete(m) ==
  /\ m \in (1..arrived \cap Perishable) \ gone
  /\ gone' = gone \cup {m} /\ junk' = junk \ {m}
  /\ UNCHANGED <<arrived, date, oldest, now, calm, include, cursor, f, history>>

\* The owner moves a message to Spam or Trash, or out of it.
Relabel(m) ==
  /\ ~calm /\ m \in (1..arrived \cap Suspect) \ gone
  /\ junk' = (junk \ {m}) \cup ({m} \ junk)
  /\ UNCHANGED <<arrived, date, gone, oldest, now, calm, include, cursor, f, history>>

\* Gmail drops the history there is.
Expire ==
  /\ ~calm /\ oldest < arrived + 1 /\ oldest' = arrived + 1
  /\ UNCHANGED <<arrived, date, gone, junk, now, calm, include, cursor, f, history>>

Tick ==
  /\ now < MaxTime /\ now' = now + 1
  /\ UNCHANGED <<arrived, date, gone, junk, oldest, calm, include, cursor, f, history>>

Settle ==
  /\ ~calm /\ calm' = TRUE
  /\ UNCHANGED <<arrived, date, gone, junk, oldest, now, include, cursor, f, history>>
-----------------------------------------------------------------------------
(* Fetch.                                                                  *)

\* Mutant: no cursor means a first-ever run.
BeginForgetting ==
  LET incremental == cursor.history > 0 IN
  /\ f.phase = "idle"
  /\ f' = [Idle EXCEPT !.phase = IF incremental THEN "history" ELSE "profile",
                       !.out = cursor, !.firstEver = ~incremental,
                       !.sampled = now, !.next = cursor.history,
                       !.at = cursor.history]
  /\ UNCHANGED <<mailbox, cursor, history>>
\* Load the state.  Both watermarks are sampled before anything is listed.
Begin ==
  LET incremental == cursor.history > 0 IN
  /\ f.phase = "idle"
  /\ f' = [Idle EXCEPT !.phase = IF incremental THEN "history" ELSE "profile",
                       !.out = cursor,
                       !.firstEver = ~incremental /\ cursor.synced = 0,
                       !.sampled = now, !.next = cursor.history,
                       !.at = cursor.history]
  /\ UNCHANGED <<mailbox, cursor, history>>

Expired == f.out.history < oldest

\* 404: the cursor is dropped and the same Fetch falls back to a full scan.
HistoryExpired ==
  /\ f.phase = "history" /\ Expired
  /\ f' = [f EXCEPT !.phase = "profile", !.out.history = 0, !.sampled = now,
                    !.next = 0, !.at = 0, !.ids = {}]
  /\ UNCHANGED <<mailbox, cursor, history>>

\* download skips what was delivered before.
Pending(ids, state) == ids \ ToSet(state.seen)

\* One page of users.history.list, from the record after `at`.
HistoryPage ==
  LET last == f.at + PageSize >= arrived + 1
      to   == IF last THEN arrived + 1 ELSE f.at + PageSize
      ids  == f.ids \cup f.at .. (to - 1)
  IN
  /\ f.phase = "history" /\ ~Expired
  /\ f' = [f EXCEPT !.phase = IF last THEN "download" ELSE @,
                    !.next = Larger(@, arrived + 1), !.at = to,
                    !.ids = IF last THEN Pending(ids, f.out) ELSE ids]
  /\ UNCHANGED <<mailbox, cursor, history>>

\* Mutant: the recovery scan starts at the watermark itself.
ScanAfterExact ==
  IF f.out.synced > 0 THEN f.out.synced
  ELSE IF f.firstEver /\ InitialLookback > 0
  THEN Larger(now, InitialLookback) - InitialLookback
  ELSE 0
\* The lower bound of a full scan: the watermark less the overlap, or the lookback
\* of a first-ever run.
ScanAfter ==
  IF f.out.synced > 0 THEN Larger(f.out.synced, Overlap) - Overlap
  ELSE IF f.firstEver /\ InitialLookback > 0
  THEN Larger(now, InitialLookback) - InitialLookback
  ELSE 0

\* The profile's cursor, read before the scan; then the query is built.
Profile ==
  /\ f.phase = "profile"
  /\ f' = [f EXCEPT !.phase = "list", !.next = arrived + 1, !.after = ScanAfter,
                    !.at = MaxMail + 1]
  /\ UNCHANGED <<mailbox, cursor, history>>

\* The scan's bounds: the account's query counts on a first-ever run only.
InBounds(m) == date[m] >= f.after /\ (f.firstEver => m \in InQuery)

\* One page of users.messages.list: the newest messages older than the token that
\* pass the query, spam and trash among them only if the account includes them.
ListPage ==
  LET older == {m \in 1..arrived : m < f.at} \ gone
      found == {m \in older : InBounds(m) /\ (include \/ m \notin junk)}
      page  == {m \in found : Cardinality({k \in found : k > m}) < PageSize}
      last  == page = found
      ids   == f.ids \cup page
      left  == {m \in older \ found : last \/ \E k \in page : m > k}
  IN
  /\ f.phase = "list"
  /\ f' = [f EXCEPT !.phase = IF last THEN "download" ELSE @,
                    !.at = IF last THEN 0 ELSE CHOOSE k \in page : \A m \in page : k <= m,
                    !.ids = IF last THEN Pending(ids, f.out) ELSE ids]
  /\ windowed' = windowed \cup {m \in left : f.firstEver /\ ~InBounds(m)}
  /\ shielded' = shielded \cup {m \in left : InBounds(m)}
  /\ UNCHANGED <<mailbox, cursor, rooted>>

\* Mutant: a deleted message fails the fetch.
VanishFatal(m) ==
  /\ f.phase = "download" /\ m \in f.ids \cap gone
  /\ f' = Idle
  /\ UNCHANGED <<mailbox, cursor, history>>
\* The pool's next result is for m: it was deleted since it was listed.
Vanish(m) ==
  /\ f.phase = "download" /\ m \in f.ids \cap gone
  /\ f' = [f EXCEPT !.ids = @ \ {m}]
  /\ UNCHANGED <<mailbox, cursor, history>>

\* excludedBySpamTrash: dropped, and not marked seen.
Exclude(m) ==
  /\ f.phase = "download" /\ m \in f.ids \cap junk /\ ~include
  /\ f' = [f EXCEPT !.ids = @ \ {m}]
  /\ shielded' = shielded \cup {m}
  /\ UNCHANGED <<mailbox, cursor, windowed, rooted>>

HandsOver(m) ==
  f.phase = "download" /\ m \in f.ids \ gone /\ (include \/ m \notin junk)

\* The callback returns nil; the pipeline accounts for it unless no rule matched.
Accept(m) ==
  /\ HandsOver(m)
  /\ \E accounted \in {<<>>, <<m>>} :
       f' = [f EXCEPT !.ids = @ \ {m}, !.passed = @ \cup {m},
                      !.out.seen = MarkSeen(@, m), !.accounted = @ \o accounted]
  /\ UNCHANGED <<mailbox, cursor, history>>

\* The pipeline marks what it accounted for and saves the state; the save may
\* fail, or be withheld.
Save(out) ==
  /\ f' = Idle
  /\ \/ /\ cursor' = [out EXCEPT !.seen = MarkAll(@, f.accounted)]
        /\ rooted' = (rooted \/ out.history > 0)
     \/ ~calm /\ UNCHANGED <<cursor, rooted>>

\* A stop was requested: the callback refuses m, and Fetch returns what it has.
Refuse(m) ==
  /\ ~calm /\ HandsOver(m)
  /\ Save(f.out)
  /\ UNCHANGED <<mailbox, windowed, shielded>>

\* Mutant: the watermark is the time of completion.
FinishFetchStamping ==
  /\ f.phase = "download" /\ f.ids = {}
  /\ Save([f.out EXCEPT !.history = Larger(@, f.next), !.synced = now])
  /\ UNCHANGED <<mailbox, windowed, shielded>>
\* Everything was handed over: both watermarks advance.
FinishFetch ==
  /\ f.phase = "download" /\ f.ids = {}
  /\ Save([f.out EXCEPT !.history = Larger(@, f.next), !.synced = f.sampled])
  /\ UNCHANGED <<mailbox, windowed, shielded>>

\* A call fails for good, the context is cancelled, or the callback aborts:
\* nothing is saved.
Fail ==
  /\ ~calm /\ f.phase # "idle"
  /\ f' = Idle
  /\ UNCHANGED <<mailbox, cursor, history>>
-----------------------------------------------------------------------------
\* A state file that predates LastSyncTime, of a run that delivered all there was.
LegacyState ==
  /\ Legacy /\ arrived = 1 /\ rooted = TRUE
  /\ cursor = [history |-> 2, synced |-> 0, seen |-> <<>>]
NoState ==
  /\ arrived = 0 /\ rooted = FALSE
  /\ cursor = Idle.out

Init ==
  /\ LegacyState \/ NoState
  /\ date = [m \in Message |-> IF m <= arrived THEN 1 ELSE 0]
  /\ gone = {} /\ junk = {} /\ oldest = 0 /\ now = 1 /\ calm = FALSE
  /\ include \in BOOLEAN /\ f = Idle /\ windowed = {} /\ shielded = {}

Mailbox ==
  \/ Arrive \/ Expire \/ Tick \/ Settle
  \/ \E m \in Message : Delete(m) \/ Relabel(m)

Fetch ==
  \/ Begin \/ HistoryExpired \/ HistoryPage \/ Profile \/ ListPage
  \/ \E m \in Message : Vanish(m) \/ Exclude(m) \/ Accept(m)
  \/ FinishFetch

Next == Mailbox \/ Fetch \/ Fail \/ \E m \in Message : Refuse(m)

Spec     == Init /\ [][Next]_vars
FairSpec == Spec /\ WF_vars(Fetch) /\ WF_vars(Settle)
-----------------------------------------------------------------------------
(* Properties.                                                             *)

TypeOK ==
  /\ arrived \in 0..MaxMail /\ date \in [Message -> 0..MaxTime]
  /\ gone \subseteq 1..arrived /\ junk \subseteq 1..arrived \ gone
  /\ oldest \in 0..(MaxMail + 1) /\ now \in Times
  /\ calm \in BOOLEAN /\ include \in BOOLEAN /\ rooted \in BOOLEAN
  /\ cursor \in SyncState /\ Len(cursor.seen) <= MaxSeenIDs
  /\ f \in FetchState /\ Len(f.out.seen) <= MaxSeenIDs
  /\ windowed \subseteq Message /\ shielded \subseteq Message

\* Mail a later Fetch that starts from the saved state does not ask for: what the
\* cursor has passed or, without one, what the `after:` bound leaves out.
Behind ==
  ToSet(cursor.seen) \cup
  {m \in 1..arrived :
     IF cursor.history > 0 THEN m < cursor.history
     ELSE date[m] + Overlap < cursor.synced}

Contract ==
  INSTANCE ProviderContract WITH
    behind <- Behind, active <- f.phase # "idle", passed <- f.passed,
    excused <- gone \cup windowed \cup shielded

\* Fetch keeps its contract on both routes, across pages during which mail comes
\* and goes, an expired cursor, failures and graceful stops; a refused message
\* included.
FetchContract == Contract!Spec

\* "A pair that disagreed would leave a window of mail neither route covers"
\* (gmail.go:236): mail the history cursor has not passed is within the reach of
\* the recovery scan that replaces the cursor once it has expired.
NoBlindWindow ==
  cursor.history > 0 =>
    \A m \in 1..arrived : m >= cursor.history => date[m] + Overlap >= cursor.synced

\* Once an account has had a cursor, no scan leaves mail out for the account's
\* query or lookback, which bound the first-ever run only (fetch.go:73-79).
OneFirstLook == [][rooted => windowed' = windowed]_vars

\* Mail that stays, unless it is left out, is behind the saved state in the end.
EventuallyFetched ==
  \A m \in Message :
    (m \in 1..arrived) ~> (m \in Behind \cup gone \cup windowed \cup shielded)
=============================================================================
