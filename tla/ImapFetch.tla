----------------------------- MODULE ImapFetch -----------------------------
(***************************************************************************)
(* internal/provider/imap: one account's Fetch over several mailboxes, the *)
(* cursor the pipeline saves from it, and the IMAP server under it.        *)
(*                                                                         *)
(* A message is known by mailbox, UIDVALIDITY and UID; its bytes play no   *)
(* part.  Connecting and retrying (which touch no state) are part of       *)
(* Begin; a fetch that fails, at whatever point, saves nothing.  The       *)
(* server answers a UID FETCH in UID order, never reuses a UID within a    *)
(* UIDVALIDITY, raises UIDVALIDITY when it renumbers a mailbox, and does   *)
(* not do so while that mailbox is selected (RFC 3501).                    *)
(***************************************************************************)
EXTENDS Naturals, Sequences, FiniteSets

CONSTANTS
  NBoxes,        \* configured mailboxes, visited in order
  MaxUid,        \* bound: UIDs handed out per mailbox and UIDVALIDITY
  MaxValidity,   \* bound: UIDVALIDITY values per mailbox
  MaxSeenIDs,    \* provider.MaxSeenIDs
  Lookback,      \* TRUE iff initial_lookback > 0
  CanStop        \* TRUE iff the callback may refuse a message (errStopRequested)

Boxes   == 1..NBoxes
Uids    == 1..MaxUid
Message == [box : Boxes, validity : 1..MaxValidity, uid : Uids]

ASSUME BoundAssumption ==
  NBoxes \in Nat /\ MaxUid \in Nat /\ MaxValidity \in Nat \ {0} /\ MaxSeenIDs \in Nat

ASSUME OptionAssumption == Lookback \in BOOLEAN /\ CanStop \in BOOLEAN

VARIABLES
  validity, uidnext, present,  \* the server: present[b] is the UIDs in mailbox b
  aged,                        \* mail older than initial_lookback
  calm,                        \* TRUE once nothing fails or interferes any more
  cursor,                      \* the saved pair of every mailbox; validity 0: none
  seen,                        \* the saved recently-seen ids, oldest first
  f,                           \* the locals of the Fetch in progress
  excluded,                    \* history: mail a windowed search left out
  refused                      \* history: mail the callback refused

server  == <<validity, uidnext, present, aged, calm>>
disk    == <<cursor, seen>>
history == <<excluded, refused>>
vars    == <<server, disk, f, history>>

Cursor == [validity : 0..MaxValidity, last : 0..MaxUid]
Phases == {"idle", "next", "search", "range", "found", "deliver"}

FetchState ==
  [phase     : Phases,
   at        : 1..(NBoxes + 1),          \* the mailbox being visited
   out       : [Boxes -> Cursor],        \* the state to be returned
   validity  : 0..MaxValidity,           \* as EXAMINE reported them; uidnext
   uidnext   : 0..(MaxUid + 1),          \* is 0 when the server left it out
   last      : 0..MaxUid,                \* lastUID
   highest   : 0..MaxUid,
   queue     : SUBSET Uids,              \* UIDs asked for, or still to be answered
   passed    : SUBSET Message,           \* history: accepted by the callback
   accounted : Seq(Message)]             \* accepted and to be marked seen

NoCursor == [b \in Boxes |-> [validity |-> 0, last |-> 0]]
Visit(phase, at, out) ==
  [phase |-> phase, at |-> at, out |-> out, validity |-> 0, uidnext |-> 0,
   last |-> 0, highest |-> 0, queue |-> {}, passed |-> {}, accounted |-> <<>>]
Idle == Visit("idle", 1, NoCursor)

\* MessageID, for a UID of the mailbox being visited.
Id(u) == [box |-> f.at, validity |-> f.validity, uid |-> u]

Highest(S) == CHOOSE u \in S : \A w \in S : w <= u
Lowest(S)  == CHOOSE u \in S : \A w \in S : u <= w
Larger(u, w) == IF u > w THEN u ELSE w

SeenIds == {seen[i] : i \in DOMAIN seen}

\* TrimSeenIDs keeps the newest.
Trim(ids) ==
  IF Len(ids) <= MaxSeenIDs THEN ids
  ELSE SubSeq(ids, Len(ids) - MaxSeenIDs + 1, Len(ids))
-----------------------------------------------------------------------------
(* The server.                                                             *)

Deliverable(b) == uidnext[b] <= MaxUid

NewMail(b) ==
  /\ Deliverable(b)
  /\ present' = [present EXCEPT ![b] = @ \cup {uidnext[b]}]
  /\ uidnext' = [uidnext EXCEPT ![b] = @ + 1]
  /\ UNCHANGED <<validity, aged, calm, disk, f, history>>

Expunge(b, u) ==
  /\ u \in present[b]
  /\ present' = [present EXCEPT ![b] = @ \ {u}]
  /\ aged' = {m \in aged : m.box # b \/ m.uid # u}
  /\ UNCHANGED <<validity, uidnext, calm, disk, f, history>>

\* Time passes: a message leaves the lookback window.
Age(m) ==
  /\ m.validity = validity[m.box] /\ m.uid \in present[m.box] /\ m \notin aged
  /\ aged' = aged \cup {m}
  /\ UNCHANGED <<validity, uidnext, present, calm, disk, f, history>>

Selected(b) == f.phase \notin {"idle", "next"} /\ f.at = b

\* The mailbox is rebuilt: a new UIDVALIDITY, and its mail renumbered from 1.
Rebuild(b) ==
  /\ validity[b] < MaxValidity /\ ~Selected(b)
  /\ validity' = [validity EXCEPT ![b] = @ + 1]
  /\ \E n \in 0..MaxUid :
       /\ present' = [present EXCEPT ![b] = 1..n]
       /\ uidnext' = [uidnext EXCEPT ![b] = n + 1]
  /\ aged' = {m \in aged : m.box # b}
  /\ UNCHANGED <<calm, disk, f, history>>

Settle ==
  /\ ~calm /\ calm' = TRUE
  /\ UNCHANGED <<validity, uidnext, present, aged, disk, f, history>>
-----------------------------------------------------------------------------
(* Fetch.                                                                  *)

\* Load the state, run the password command, connect and log in.
Begin ==
  /\ f.phase = "idle"
  /\ f' = Visit("next", 1, cursor)
  /\ UNCHANGED <<server, disk, history>>

\* Mutant: a server that reports no UIDNEXT has nothing new.
ExamineTrusting ==
  LET b      == f.at
      resync == f.out[b].validity # validity[b]
      last   == IF resync THEN 0 ELSE f.out[b].last
  IN
  /\ f.phase = "next" /\ b \in Boxes
  /\ \E next \in {uidnext[b], 0} :
       LET nothing == present[b] = {} \/ (~resync /\ last + 1 >= next)
           phase   == IF nothing THEN "deliver"
                      ELSE IF resync /\ Lookback THEN "search" ELSE "range"
       IN  f' = [f EXCEPT !.phase = phase, !.validity = validity[b],
                          !.uidnext = next, !.last = last, !.highest = last,
                          !.queue = {}]
  /\ UNCHANGED <<server, disk, history>>
\* fetchMailbox up to uidRange: EXAMINE, compare UIDVALIDITY, decide what to ask.
Examine ==
  LET b      == f.at
      resync == f.out[b].validity # validity[b]
      last   == IF resync THEN 0 ELSE f.out[b].last
  IN
  /\ f.phase = "next" /\ b \in Boxes
  /\ \E next \in {uidnext[b], 0} :
       LET nothing == \/ present[b] = {}
                      \/ ~resync /\ next > 0 /\ last + 1 >= next
           phase   == IF nothing THEN "deliver"
                      ELSE IF resync /\ Lookback THEN "search" ELSE "range"
       IN  f' = [f EXCEPT !.phase = phase, !.validity = validity[b],
                          !.uidnext = next, !.last = last, !.highest = last,
                          !.queue = {}]
  /\ UNCHANGED <<server, disk, history>>

\* UID SEARCH SINCE: the messages inside the window.
Search ==
  LET found == {u \in present[f.at] : Id(u) \notin aged} IN
  /\ f.phase = "search"
  /\ f' = [f EXCEPT !.phase = IF found = {} THEN "deliver" ELSE "found", !.queue = found]
  /\ excluded' = excluded \cup {Id(u) : u \in present[f.at] \ found}
  /\ UNCHANGED <<server, disk, refused>>

\* UID FETCH n:* .  When nothing is at or above n the server answers with the
\* highest message there is.
AskRange ==
  LET box   == present[f.at]
      above == {u \in box : u > f.last}
  IN
  /\ f.phase = "range"
  /\ f' = [f EXCEPT !.phase = "deliver",
                    !.queue = IF above = {} /\ box # {} THEN {Highest(box)} ELSE above]
  /\ UNCHANGED <<server, disk, history>>

\* UID FETCH of what the search found.
AskFound ==
  /\ f.phase = "found"
  /\ f' = [f EXCEPT !.phase = "deliver", !.queue = @ \cap present[f.at]]
  /\ UNCHANGED <<server, disk, history>>

\* A message expunged after it was asked for may be left out of the answer.
LeftOut(u) ==
  /\ f.phase = "deliver" /\ u \in f.queue \ present[f.at]
  /\ f' = [f EXCEPT !.queue = @ \ {u}]
  /\ UNCHANGED <<server, disk, history>>

\* The next message of the answer is u.
Arrives(u) == f.phase = "deliver" /\ f.queue # {} /\ u = Lowest(f.queue)
Consumed(u) == [f EXCEPT !.queue = @ \ {u}, !.highest = Larger(@, u)]

\* Mutant: the seen ids alone decide.
NotNewBySeen(u) == Id(u) \in SeenIds
\* Below the range that was asked for, or seen before.
NotNew(u) == u <= f.last \/ Id(u) \in SeenIds

\* A straggler of the range, or an id already seen.
Skip(u) ==
  /\ Arrives(u) /\ NotNew(u)
  /\ f' = Consumed(u)
  /\ UNCHANGED <<server, disk, history>>

\* The callback returns nil; it has the id marked seen unless no rule matched.
Accept(u) ==
  /\ Arrives(u) /\ ~NotNew(u)
  /\ \E marked \in {<<>>, <<Id(u)>>} :
       f' = [Consumed(u) EXCEPT !.passed = @ \cup {Id(u)},
                                !.accounted = @ \o marked]
  /\ UNCHANGED <<server, disk, history>>

\* Fetch is over: the pipeline marks what it accounted for and saves the state.
\* The save may fail, or be withheld.
Save(out) ==
  /\ f' = Idle
  /\ \/ cursor' = out /\ seen' = Trim(seen \o f.accounted)
     \/ ~calm /\ UNCHANGED disk

\* The pair of a mailbox is written together, or not at all.
Pair(highest) ==
  IF highest > 0
  THEN [f.out EXCEPT ![f.at] = [validity |-> f.validity, last |-> highest]]
  ELSE f.out

\* Mutant: the mailbox in flight keeps its old pair.
RefuseForgetting(u) ==
  /\ CanStop /\ ~calm
  /\ Arrives(u) /\ ~NotNew(u)
  /\ Save(f.out)
  /\ refused' = refused \cup {Id(u)}
  /\ UNCHANGED <<server, excluded>>
\* A stop was requested: the callback refuses u, and Fetch returns what it has.
\* u is already counted in `highest` by then.
Refuse(u) ==
  /\ CanStop /\ ~calm
  /\ Arrives(u) /\ ~NotNew(u)
  /\ Save(Pair(Larger(f.highest, u)))
  /\ refused' = refused \cup {Id(u)}
  /\ UNCHANGED <<server, excluded>>

\* Mutant: UIDNEXT is read when the mailbox is done.
FinishMailboxLate ==
  /\ f.phase = "deliver" /\ f.queue = {}
  /\ f' = [Visit("next", f.at + 1, Pair(Larger(f.highest, uidnext[f.at] - 1)))
            EXCEPT !.passed = f.passed, !.accounted = f.accounted]
  /\ UNCHANGED <<server, disk, history>>
\* The mailbox is done: nothing below the UIDNEXT that EXAMINE reported is waiting.
FinishMailbox ==
  LET next == f.uidnext
      highest == IF next > 1 THEN Larger(f.highest, next - 1) ELSE f.highest
  IN
  /\ f.phase = "deliver" /\ f.queue = {}
  /\ f' = [Visit("next", f.at + 1, Pair(highest)) EXCEPT !.passed = f.passed,
                                                         !.accounted = f.accounted]
  /\ UNCHANGED <<server, disk, history>>

FinishFetch ==
  /\ f.phase = "next" /\ f.at > NBoxes
  /\ Save(f.out)
  /\ UNCHANGED <<server, history>>

\* The connection drops, a command is refused, the context is cancelled, or the
\* callback aborts: nothing is saved.
Fail ==
  /\ ~calm /\ f.phase # "idle"
  /\ f' = Idle
  /\ UNCHANGED <<server, disk, history>>
-----------------------------------------------------------------------------
Init ==
  /\ validity = [b \in Boxes |-> 1] /\ uidnext = [b \in Boxes |-> 1]
  /\ present = [b \in Boxes |-> {}] /\ aged = {} /\ calm = FALSE
  /\ cursor = NoCursor /\ seen = <<>> /\ f = Idle
  /\ excluded = {} /\ refused = {}

Server ==
  \/ \E b \in Boxes : NewMail(b) \/ Rebuild(b) \/ \E u \in Uids : Expunge(b, u)
  \/ \E m \in Message : Age(m)
  \/ Settle

Fetch ==
  \/ Begin \/ Examine \/ Search \/ AskRange \/ AskFound
  \/ \E u \in Uids : LeftOut(u) \/ Skip(u) \/ Accept(u)
  \/ FinishMailbox \/ FinishFetch

Next == Server \/ Fetch \/ Fail \/ \E u \in Uids : Refuse(u)

Spec     == Init /\ [][Next]_vars
FairSpec == Spec /\ WF_vars(Fetch) /\ WF_vars(Settle)
-----------------------------------------------------------------------------
(* Properties.                                                             *)

TypeOK ==
  /\ validity \in [Boxes -> 1..MaxValidity]
  /\ uidnext \in [Boxes -> 1..(MaxUid + 1)]
  /\ present \in [Boxes -> SUBSET Uids]
  /\ aged \subseteq Message /\ calm \in BOOLEAN
  /\ cursor \in [Boxes -> Cursor]
  /\ seen \in Seq(Message) /\ Len(seen) <= MaxSeenIDs
  /\ f \in FetchState
  /\ excluded \subseteq Message /\ refused \subseteq Message

Covered(m) ==
  m.validity = cursor[m.box].validity /\ m.uid <= cursor[m.box].last

\* Mail the saved state will not be asked to deliver again.
Behind == {m \in Message : Covered(m)} \cup SeenIds

InBox(m) == m.validity = validity[m.box] /\ m.uid \in present[m.box]

\* Mail that was on the server once and is not any more.
Gone ==
  {m \in Message :
     \/ m.validity < validity[m.box]
     \/ m.validity = validity[m.box] /\ m.uid < uidnext[m.box] /\ ~InBox(m)}

Contract ==
  INSTANCE ProviderContract WITH
    behind <- Behind, active <- f.phase # "idle", passed <- f.passed,
    excused <- Gone \cup excluded \cup refused

\* Fetch keeps its contract: mail arriving at any moment of it, expunged under it,
\* renumbered before it or left behind by a failure is never put behind the saved
\* cursor unless the callback accepted it, a first look's window excluded it, or it
\* is gone; under a graceful stop, except for the message that was refused.
FetchContract == Contract!Spec

\* Mail behind the saved cursor is never handed to the callback again, although
\* `n:*` makes the server send it and its seen id may have been evicted.
NothingTwice == [][\A m \in f'.passed \ f.passed : m \notin Behind]_vars

\* "That is what lets a gracefully stopped daemon save its progress" (imap.go:159):
\* whenever a cursor moves, all the fetch delivered is behind it, in the mailboxes
\* that were finished and in the one that was not.
ProgressKept == [][cursor' # cursor => f.passed \subseteq Behind']_vars

\* "The mailbox in flight keeps a cursor at the last message fn accepted"
\* (imap.go:158): what a stop refused is still ahead of the cursor.
RefusedStaysAhead == \A m \in refused : InBox(m) => m \notin Behind

\* Mail that stays on the server gets behind the cursor or out of the window, also
\* when the first fetches fail and UIDVALIDITY changes meanwhile.
EventuallyFetched ==
  \A m \in Message : InBox(m) ~> (m \in Behind \cup Gone \cup excluded)
=============================================================================
