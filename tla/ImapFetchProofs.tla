--------------------------- MODULE ImapFetchProofs ---------------------------
(***************************************************************************)
(* Proofs about ImapFetch, for any number of mailboxes, UIDs and UIDVALI-  *)
(* DITY values, any limit of the seen list, with and without a lookback or *)
(* a stop.                                                                 *)
(*                                                                         *)
(* The argument.  Fetch knows a mailbox while it is selected (Selection):  *)
(* its UIDVALIDITY stands still and its UIDs only grow.  Everything at or  *)
(* below what Fetch has gone past in it is settled: behind the saved       *)
(* cursor, accepted, or left out for a reason (Swept).  The pair written   *)
(* for a mailbox covers nothing else (Settling), and all that was accepted *)
(* (Keeping).                                                              *)
(***************************************************************************)
EXTENDS ImapFetch, WellFoundedInduction, SequenceTheorems, TLAPS

Excused == Gone \cup excluded \cup refused
Settled == Behind \cup f.passed \cup Excused

AtBox == f.phase \in {"search", "range", "found", "deliver"}

\* What the server has in a mailbox was numbered below its UIDNEXT.
Numbered == \A b \in Boxes : \A u \in present[b] : u < uidnext[b]

\* What a Fetch knows of the saved state, and of the mailbox it has selected.
Selection ==
  /\ f.phase = "idle" => f = Idle
  /\ \A b \in Boxes : f.phase # "idle" /\ b >= f.at => f.out[b] = cursor[b]
  /\ AtBox =>
       /\ f.at \in Boxes /\ f.validity = validity[f.at] /\ f.uidnext <= uidnext[f.at]
       /\ f.last = IF cursor[f.at].validity = f.validity THEN cursor[f.at].last ELSE 0
       /\ f.phase # "deliver" => f.highest = f.last
       /\ \A u \in f.queue : u < uidnext[f.at]
  /\ f.phase = "search" => f.last = 0

\* In the mailbox being visited, mail up to the point reached is settled or still
\* in the answer, whose order is that of the UIDs.
Swept ==
  /\ f.phase \in {"found", "deliver"} =>
       \A u \in Uids :
         u <= f.highest \/ u < f.uidnext \/ (\E w \in f.queue : u <= w) =>
           Id(u) \in Settled \/ u \in f.queue
  /\ f.phase = "deliver" => \A u \in f.queue : u > f.highest \/ u <= f.last

\* The state to be returned covers settled mail only.
CoveredBy(out, m) == m.validity = out[m.box].validity /\ m.uid <= out[m.box].last
Settling == f.phase # "idle" => \A m \in Message : CoveredBy(f.out, m) => m \in Settled

\* What was accepted is covered by it, or by the pair about to be written.
Keeping ==
  /\ \A m \in f.passed :
       \/ m.box < f.at /\ CoveredBy(f.out, m)
       \/ m.box = f.at /\ f.phase = "deliver" /\ m.validity = f.validity /\ m.uid <= f.highest
  /\ \A i \in DOMAIN f.accounted : f.accounted[i] \in f.passed

IInv == TypeOK /\ Numbered /\ Selection /\ Swept /\ Settling /\ Keeping
-----------------------------------------------------------------------------
(* Types.                                                                  *)

\* A set of naturals has a least element.
LEMMA LeastNatural ==
  ASSUME NEW S \in SUBSET Nat, S # {}
  PROVE  \E n \in S : \A m \in S : n <= m
<1>1. PICK n \in S : \A m \in S : <<m, n>> \notin OpToRel(<, Nat)
  BY WFMin, NatLessThanWellFounded, Zenon
<1>2. \A m \in S : ~(m < n)
  BY <1>1 DEF OpToRel
<1> QED BY <1>2

\* A set of naturals with a bound has a greatest element: the least of its bounds.
LEMMA GreatestUpTo ==
  ASSUME NEW k \in Nat, NEW S \in SUBSET (1 .. k), S # {}
  PROVE  \E n \in S : \A m \in S : m <= n
<1> DEFINE B == {n \in Nat : \A m \in S : m <= n}
<1>1. k \in B
  OBVIOUS
<1>2. PICK n \in B : \A b \in B : n <= b
  <2> HIDE DEF B
  <2> QED BY <1>1, LeastNatural, B \in SUBSET Nat DEF B
<1>3. n \in S
  <2> SUFFICES ASSUME n \notin S PROVE FALSE
    OBVIOUS
  <2>1. PICK s \in S : TRUE
    <3> HIDE DEF B
    <3> QED OBVIOUS
  <2>2. n \in Nat /\ n # 0
    BY s \in 1 .. k, s <= n
  <2>3. \A m \in S : m \in Nat /\ m <= n /\ m # n
    OBVIOUS
  <2>4. \A m \in S : m <= n - 1
    <3> HIDE DEF B
    <3> QED BY <2>2, <2>3
  <2>5. n - 1 \in B
    BY <2>2, <2>4
  <2>6. n <= n - 1
    BY <1>2, <2>5
  <2> HIDE DEF B
  <2> QED BY <2>2, <2>6
<1> QED BY <1>3

LEMMA Ranges ==
  /\ NBoxes \in Nat /\ MaxUid \in Nat /\ MaxValidity \in Nat \ {0} /\ MaxSeenIDs \in Nat
  /\ Boxes \subseteq Nat \ {0} /\ Boxes \subseteq 1 .. (NBoxes + 1) /\ 1 \in 1 .. (NBoxes + 1)
  /\ \A b \in Boxes : b + 1 \in 1 .. (NBoxes + 1)
  /\ Uids \subseteq Nat \ {0} /\ Uids \subseteq 0 .. MaxUid /\ 0 \in 0 .. MaxUid /\ 0 \in 0 .. (MaxUid + 1)
  /\ 0 \in 0 .. MaxValidity /\ 1 .. MaxValidity \subseteq 0 .. MaxValidity /\ 1 .. MaxValidity \subseteq Nat
  /\ 1 .. (MaxUid + 1) \subseteq 0 .. (MaxUid + 1)
BY BoundAssumption DEF Boxes, Uids

\* The server, and the saved state.
LEMMA ServerType ==
  ASSUME TypeOK
  PROVE  /\ validity \in [Boxes -> 1 .. MaxValidity] /\ uidnext \in [Boxes -> 1 .. (MaxUid + 1)]
         /\ present \in [Boxes -> SUBSET Uids] /\ cursor \in [Boxes -> Cursor]
         /\ \A b \in Boxes :
              /\ validity[b] \in 1 .. MaxValidity /\ uidnext[b] \in 1 .. (MaxUid + 1) /\ present[b] \in SUBSET Uids
              /\ cursor[b] \in Cursor /\ cursor[b].validity \in 0 .. MaxValidity /\ cursor[b].last \in 0 .. MaxUid
              /\ validity[b] \in Nat \ {0} /\ uidnext[b] \in Nat \ {0} /\ present[b] \in SUBSET Nat
              /\ cursor[b].validity \in Nat /\ cursor[b].last \in Nat
<1>1. ASSUME NEW b \in Boxes
      PROVE  /\ validity[b] \in 1 .. MaxValidity /\ uidnext[b] \in 1 .. (MaxUid + 1) /\ present[b] \in SUBSET Uids
             /\ cursor[b] \in Cursor
  BY DEF TypeOK
<1>2. \A c \in Cursor : c.validity \in 0 .. MaxValidity /\ c.last \in 0 .. MaxUid
  BY DEF Cursor
<1>3. /\ 1 .. MaxValidity \subseteq Nat \ {0} /\ 0 .. MaxValidity \subseteq Nat /\ 1 .. (MaxUid + 1) \subseteq Nat \ {0}
      /\ 0 .. MaxUid \subseteq Nat /\ Uids \subseteq Nat
  BY Ranges
<1> QED BY <1>1, <1>2, <1>3 DEF TypeOK

\* The locals of Fetch.
LEMMA LocalsType ==
  ASSUME TypeOK
  PROVE  /\ f \in FetchState /\ f.phase \in Phases /\ f.at \in 1 .. (NBoxes + 1) /\ f.at \in Nat
         /\ f.out \in [Boxes -> Cursor] /\ f.validity \in 0 .. MaxValidity /\ f.uidnext \in 0 .. (MaxUid + 1)
         /\ f.last \in 0 .. MaxUid /\ f.highest \in 0 .. MaxUid /\ f.queue \in SUBSET Uids
         /\ f.passed \in SUBSET Message /\ f.accounted \in Seq(Message) /\ seen \in Seq(Message)
         /\ f.uidnext \in Nat /\ f.last \in Nat /\ f.highest \in Nat /\ f.validity \in Nat
<1>1. /\ f \in FetchState /\ seen \in Seq(Message)
  BY DEF TypeOK
<1>2. /\ f.phase \in Phases /\ f.at \in 1 .. (NBoxes + 1)
      /\ f.out \in [Boxes -> Cursor] /\ f.validity \in 0 .. MaxValidity /\ f.uidnext \in 0 .. (MaxUid + 1)
      /\ f.last \in 0 .. MaxUid /\ f.highest \in 0 .. MaxUid /\ f.queue \in SUBSET Uids
      /\ f.passed \in SUBSET Message /\ f.accounted \in Seq(Message)
  BY <1>1 DEF FetchState
<1> QED BY <1>1, <1>2, Ranges

LEMMA VisitType ==
  ASSUME NEW phase \in Phases, NEW at \in 1 .. (NBoxes + 1), NEW out \in [Boxes -> Cursor]
  PROVE  /\ Visit(phase, at, out) \in FetchState
         /\ LET v == Visit(phase, at, out) IN
              /\ v.phase = phase /\ v.at = at /\ v.out = out /\ v.queue = {} /\ v.passed = {} /\ v.accounted = <<>>
              /\ v.last = 0 /\ v.highest = 0
<1>1. <<>> \in Seq(Message)
  OBVIOUS
<1> QED BY <1>1, Ranges DEF Visit, FetchState

LEMMA IdleType == Idle \in FetchState /\ Idle.phase = "idle" /\ Idle.passed = {} /\ Idle.accounted = <<>>
<1>1. NoCursor \in [Boxes -> Cursor]
  BY Ranges DEF NoCursor, Cursor
<1> QED BY <1>1, Ranges, VisitType DEF Idle, Phases

\* The id of a UID of the selected mailbox.
LEMMA IdType ==
  ASSUME TypeOK, f.at \in Boxes, f.validity = validity[f.at], NEW u \in Uids
  PROVE  Id(u) \in Message /\ Id(u).box = f.at /\ Id(u).validity = f.validity /\ Id(u).uid = u
BY ServerType DEF Id, Message

LEMMA HighestOf ==
  ASSUME NEW S \in SUBSET Uids, S # {}
  PROVE  Highest(S) \in S
<1>1. \E u \in S : \A w \in S : w <= u
  BY Ranges, GreatestUpTo DEF Uids
<1> QED BY <1>1 DEF Highest

LEMMA LowestOf ==
  ASSUME NEW S \in SUBSET Uids, S # {}
  PROVE  Lowest(S) \in S /\ \A w \in S : Lowest(S) <= w
<1>1. \E u \in S : \A w \in S : u <= w
  BY Ranges, LeastNatural
<1> QED BY <1>1 DEF Lowest

\* The newest ids are kept, and no others.
LEMMA TrimFacts ==
  ASSUME NEW ids \in Seq(Message)
  PROVE  /\ Trim(ids) \in Seq(Message) /\ Len(Trim(ids)) <= MaxSeenIDs
         /\ \A i \in DOMAIN Trim(ids) : \E j \in DOMAIN ids : Trim(ids)[i] = ids[j]
<1>0. Len(ids) \in Nat /\ MaxSeenIDs \in Nat
  BY Ranges
<1>1. CASE Len(ids) <= MaxSeenIDs
  BY <1>1 DEF Trim
<1>2. CASE ~(Len(ids) <= MaxSeenIDs)
  <2> DEFINE a == Len(ids) - MaxSeenIDs + 1
             s == SubSeq(ids, a, Len(ids))
  <2>1. a \in 1 .. Len(ids) + 1 /\ Len(ids) - a + 1 = MaxSeenIDs
    BY <1>0, <1>2
  <2>2. /\ s \in Seq(Message) /\ Len(s) = MaxSeenIDs
        /\ \A i \in 1 .. MaxSeenIDs : s[i] = ids[a + i - 1]
    <3> HIDE DEF a
    <3> QED BY <1>0, <2>1, SubSeqProperties
  <2>3. \A i \in 1 .. MaxSeenIDs : a + i - 1 \in 1 .. Len(ids)
    BY <1>0, <1>2
  <2>4. Trim(ids) = s
    BY <1>2 DEF Trim
  <2> HIDE DEF a, s
  <2> QED BY <1>0, <2>2, <2>3, <2>4
<1> QED BY <1>1, <1>2
-----------------------------------------------------------------------------
(* The server under a Fetch.                                               *)

LEMMA MessageType ==
  ASSUME NEW m \in Message
  PROVE  m.box \in Boxes /\ m.validity \in Nat /\ m.uid \in Uids /\ m.uid \in Nat
BY Ranges DEF Message

\* Mail that is gone stays gone: no UID comes twice within a UIDVALIDITY, and no
\* UIDVALIDITY comes back.
LEMMA GoneGrows ==
  ASSUME TypeOK, Server
  PROVE  Gone \subseteq Gone'
<1> SUFFICES ASSUME NEW m \in Gone PROVE m \in Gone'
  OBVIOUS
<1>1. m \in Message /\ m.box \in Boxes /\ m.validity \in Nat /\ m.uid \in Nat
  BY MessageType DEF Gone
<1>2. \/ m.validity < validity[m.box]
      \/ m.validity = validity[m.box] /\ m.uid < uidnext[m.box] /\ m.uid \notin present[m.box]
  BY DEF Gone, InBox
<1>3. validity[m.box] \in Nat /\ uidnext[m.box] \in Nat
  BY <1>1, ServerType
<1>4. ASSUME NEW b \in Boxes, NewMail(b)
      PROVE  m \in Gone'
  <2>1. UNCHANGED validity
    BY <1>4 DEF NewMail
  <2>2. /\ uidnext'[m.box] = IF m.box = b THEN uidnext[b] + 1 ELSE uidnext[m.box]
        /\ present'[m.box] = IF m.box = b THEN present[b] \cup {uidnext[b]} ELSE present[m.box]
    BY <1>1, <1>4, ServerType DEF NewMail
  <2>3. m.uid < uidnext[m.box] => m.uid < uidnext'[m.box] /\ m.uid # uidnext[m.box]
    BY <1>1, <1>3, <2>2
  <2> QED BY <1>1, <1>2, <2>1, <2>2, <2>3 DEF Gone, InBox
<1>5. ASSUME NEW b \in Boxes, NEW u \in Uids, Expunge(b, u)
      PROVE  m \in Gone'
  <2>1. UNCHANGED <<validity, uidnext>>
    BY <1>5 DEF Expunge
  <2>2. present'[m.box] = IF m.box = b THEN present[b] \ {u} ELSE present[m.box]
    BY <1>1, <1>5, ServerType DEF Expunge
  <2> QED BY <1>1, <1>2, <2>1, <2>2 DEF Gone, InBox
<1>6. ASSUME NEW b \in Boxes, Rebuild(b)
      PROVE  m \in Gone'
  <2>1. CASE m.box = b
    <3>1. validity'[m.box] = validity[m.box] + 1
      BY <1>1, <1>6, <2>1, ServerType DEF Rebuild
    <3>2. m.validity < validity'[m.box]
      BY <1>1, <1>2, <1>3, <3>1
    <3> QED BY <1>1, <3>2 DEF Gone
  <2>2. CASE m.box # b
    <3>1. /\ validity'[m.box] = validity[m.box] /\ uidnext'[m.box] = uidnext[m.box]
          /\ present'[m.box] = present[m.box]
      BY <1>1, <1>6, <2>2, ServerType DEF Rebuild
    <3> QED BY <1>1, <1>2, <3>1 DEF Gone, InBox
  <2> QED BY <2>1, <2>2
<1>7. CASE UNCHANGED <<validity, uidnext, present>>
  BY <1>1, <1>2, <1>7 DEF Gone, InBox
<1>8. (\E n \in Message : Age(n)) \/ Settle => UNCHANGED <<validity, uidnext, present>>
  BY DEF Age, Settle
<1> QED BY <1>4, <1>5, <1>6, <1>7, <1>8 DEF Server

\* What the server does to the types, and to the mailbox a Fetch has selected.
LEMMA ServerSteps ==
  ASSUME TypeOK, Numbered, Server
  PROVE  /\ TypeOK' /\ Numbered' /\ UNCHANGED <<disk, f, history>>
         /\ AtBox /\ f.at \in Boxes => validity'[f.at] = validity[f.at] /\ uidnext[f.at] <= uidnext'[f.at]
<1>0. MaxValidity \in Nat /\ MaxUid \in Nat
  BY Ranges
<1>1. ASSUME NEW b \in Boxes, NewMail(b)
      PROVE  /\ TypeOK' /\ Numbered' /\ UNCHANGED <<disk, f, history>> /\ UNCHANGED validity
             /\ \A c \in Boxes : uidnext[c] <= uidnext'[c]
  <2>1. uidnext[b] \in Nat \ {0} /\ uidnext[b] <= MaxUid
    BY <1>1, ServerType DEF NewMail, Deliverable
  <2>2. uidnext[b] \in Uids /\ uidnext[b] + 1 \in 1 .. (MaxUid + 1)
    BY <1>0, <2>1 DEF Uids
  <2>3. present' \in [Boxes -> SUBSET Uids] /\ uidnext' \in [Boxes -> 1 .. (MaxUid + 1)]
    BY <1>1, <2>2, ServerType DEF NewMail
  <2>4. \A c \in Boxes : /\ uidnext'[c] = IF c = b THEN uidnext[b] + 1 ELSE uidnext[c]
                         /\ present'[c] = IF c = b THEN present[b] \cup {uidnext[b]} ELSE present[c]
    BY <1>1, ServerType DEF NewMail
  <2>5. \A c \in Boxes : uidnext[c] <= uidnext'[c]
    BY <2>4, ServerType
  <2>6. ASSUME NEW c \in Boxes, NEW u \in present'[c]
        PROVE  u < uidnext'[c]
    <3>1. uidnext[c] \in Nat /\ u \in Nat
      BY <2>1, <2>4, <2>6, ServerType
    <3> QED BY <2>4, <2>6, <3>1 DEF Numbered
  <2>7. UNCHANGED <<validity, aged, calm, disk, f, history>>
    BY <1>1 DEF NewMail
  <2> QED BY <2>3, <2>5, <2>6, <2>7 DEF TypeOK, Numbered, disk, history
<1>2. ASSUME NEW b \in Boxes, NEW u \in Uids, Expunge(b, u)
      PROVE  /\ TypeOK' /\ Numbered' /\ UNCHANGED <<disk, f, history>> /\ UNCHANGED <<validity, uidnext>>
  <2>1. UNCHANGED <<validity, uidnext, calm, disk, f, history>> /\ aged' \subseteq aged
    BY <1>2 DEF Expunge
  <2>2. present' \in [Boxes -> SUBSET Uids] /\ \A c \in Boxes : present'[c] \subseteq present[c]
    BY <1>2, ServerType DEF Expunge
  <2> QED BY <2>1, <2>2 DEF TypeOK, Numbered, disk, history
<1>3. ASSUME NEW b \in Boxes, Rebuild(b)
      PROVE  /\ TypeOK' /\ Numbered' /\ UNCHANGED <<disk, f, history>>
             /\ \A c \in Boxes : c # b => validity'[c] = validity[c] /\ uidnext'[c] = uidnext[c]
  <2>1. PICK n \in 0 .. MaxUid : /\ present' = [present EXCEPT ![b] = 1 .. n]
                                 /\ uidnext' = [uidnext EXCEPT ![b] = n + 1]
    BY <1>3 DEF Rebuild
  <2>2. 1 .. n \in SUBSET Uids /\ n + 1 \in 1 .. (MaxUid + 1) /\ \A u \in 1 .. n : u < n + 1
    BY <1>0 DEF Uids
  <2>3. present' \in [Boxes -> SUBSET Uids] /\ uidnext' \in [Boxes -> 1 .. (MaxUid + 1)]
    BY <2>1, <2>2, ServerType
  <2>4. validity[b] + 1 \in 1 .. MaxValidity
    <3>1. validity[b] \in Nat \ {0} /\ validity[b] < MaxValidity
      BY <1>3, ServerType DEF Rebuild
    <3> QED BY <1>0, <3>1
  <2>5. validity' \in [Boxes -> 1 .. MaxValidity] /\ \A c \in Boxes : c # b => validity'[c] = validity[c]
    BY <1>3, <2>4, ServerType DEF Rebuild
  <2>6. \A c \in Boxes : /\ uidnext'[c] = IF c = b THEN n + 1 ELSE uidnext[c]
                         /\ present'[c] = IF c = b THEN 1 .. n ELSE present[c]
    BY <2>1, ServerType
  <2>7. Numbered'
    <3>1. ASSUME NEW c \in Boxes, NEW u \in present'[c]
          PROVE  u < uidnext'[c]
      BY <2>2, <2>6 DEF Numbered
    <3> QED BY <3>1 DEF Numbered
  <2>8. UNCHANGED <<calm, disk, f, history>> /\ aged' \subseteq aged
    BY <1>3 DEF Rebuild
  <2> QED BY <2>3, <2>5, <2>6, <2>7, <2>8 DEF TypeOK, disk, history
<1>4. CASE (\E m \in Message : Age(m)) \/ Settle
  <2>1. UNCHANGED <<validity, uidnext, present, disk, f, history>> /\ aged' \subseteq Message /\ calm' \in BOOLEAN
    BY <1>4 DEF Age, Settle, TypeOK
  <2> QED BY <2>1, ServerType DEF TypeOK, Numbered, disk, history
<1>5. \A b \in Boxes : Rebuild(b) /\ AtBox => f.at # b
  BY DEF Rebuild, Selected, AtBox
<1>6. \A b \in Boxes : uidnext[b] <= uidnext[b]
  BY ServerType
<1> QED BY <1>1, <1>2, <1>3, <1>4, <1>5, <1>6 DEF Server

LEMMA ServerKeeps ==
  ASSUME IInv, Server \/ UNCHANGED vars
  PROVE  IInv' /\ Behind' = Behind /\ f' = f /\ Excused \subseteq Excused'
<1>1. CASE UNCHANGED vars
  <2>1. UNCHANGED <<validity, uidnext, present, aged, calm, cursor, seen, f, excluded, refused>>
    BY <1>1 DEF vars, server, disk, history
  <2>2. Behind' = Behind /\ Excused' = Excused
    BY <2>1 DEF Behind, Covered, SeenIds, Excused, Gone, InBox
  <2>3. TypeOK' /\ Numbered' /\ Selection'
    BY <2>1 DEF IInv, TypeOK, Numbered, Selection, AtBox
  <2>4. Swept' /\ Settling' /\ Keeping'
    BY <2>1, <2>2 DEF IInv, Swept, Settling, Keeping, Settled, Id, CoveredBy
  <2> QED BY <2>1, <2>2, <2>3, <2>4 DEF IInv
<1>2. CASE Server
  <2>1. /\ TypeOK' /\ Numbered' /\ UNCHANGED <<cursor, seen, f, excluded, refused>>
        /\ AtBox /\ f.at \in Boxes => validity'[f.at] = validity[f.at] /\ uidnext[f.at] <= uidnext'[f.at]
    BY <1>2, ServerSteps DEF IInv, disk, history
  <2>2. Behind' = Behind /\ Excused \subseteq Excused'
    BY <1>2, <2>1, GoneGrows DEF Behind, Covered, SeenIds, Excused, IInv
  <2>3. Settled \subseteq Settled' /\ \A u : Id(u)' = Id(u)
    BY <2>1, <2>2 DEF Settled, Id
  <2>4. Selection'
    <3>1. AtBox =>
            /\ f.at \in Boxes /\ f.validity = validity'[f.at] /\ f.uidnext <= uidnext'[f.at]
            /\ f.last = IF cursor[f.at].validity = f.validity THEN cursor[f.at].last ELSE 0
            /\ f.phase # "deliver" => f.highest = f.last
            /\ \A u \in f.queue : u < uidnext'[f.at]
      <4> SUFFICES ASSUME AtBox
                   PROVE  /\ f.at \in Boxes /\ f.validity = validity'[f.at] /\ f.uidnext <= uidnext'[f.at]
                          /\ f.last = IF cursor[f.at].validity = f.validity THEN cursor[f.at].last ELSE 0
                          /\ f.phase # "deliver" => f.highest = f.last
                          /\ \A u \in f.queue : u < uidnext'[f.at]
        OBVIOUS
      <4>1. /\ f.at \in Boxes /\ f.validity = validity[f.at] /\ f.uidnext <= uidnext[f.at]
            /\ f.last = IF cursor[f.at].validity = f.validity THEN cursor[f.at].last ELSE 0
            /\ f.phase # "deliver" => f.highest = f.last
            /\ \A u \in f.queue : u < uidnext[f.at]
        BY DEF IInv, Selection
      <4>2. validity'[f.at] = validity[f.at] /\ uidnext[f.at] <= uidnext'[f.at]
        BY <2>1, <4>1
      <4>3. /\ uidnext[f.at] \in Nat /\ uidnext'[f.at] \in Nat /\ f.uidnext \in Nat
            /\ \A u \in f.queue : u \in Nat
        <5>1. uidnext'[f.at] \in 1 .. (MaxUid + 1) /\ MaxUid \in Nat
          BY <2>1, <4>1, Ranges DEF TypeOK
        <5>2. uidnext[f.at] \in Nat
          BY <4>1, ServerType DEF IInv
        <5>3. f.uidnext \in Nat /\ f.queue \in SUBSET Nat
          BY LocalsType, Ranges DEF IInv
        <5> QED BY <5>1, <5>2, <5>3
      <4> QED BY <4>1, <4>2, <4>3
    <3> QED BY <2>1, <3>1 DEF IInv, Selection, AtBox
  <2>5. Swept' /\ Settling' /\ Keeping'
    BY <2>1, <2>3 DEF IInv, Swept, Settling, Keeping, CoveredBy
  <2> QED BY <2>1, <2>2, <2>4, <2>5 DEF IInv
<1> QED BY <1>1, <1>2
-----------------------------------------------------------------------------
(* The steps of a Fetch.                                                   *)

\* A step of Fetch that saves nothing leaves the server and the disk alone.
LEMMA Held ==
  ASSUME UNCHANGED <<server, disk>>, excluded \subseteq excluded', refused \subseteq refused'
  PROVE  /\ UNCHANGED <<validity, uidnext, present, aged, calm, cursor, seen>>
         /\ Behind' = Behind /\ Gone' = Gone /\ Excused \subseteq Excused'
         /\ Numbered => Numbered'
BY DEF server, disk, Behind, Covered, SeenIds, Excused, Gone, InBox, Numbered

\* Types, for such a step.
LEMMA HeldType ==
  ASSUME TypeOK, UNCHANGED <<server, disk>>, f' \in FetchState, excluded' \subseteq Message, refused' \subseteq Message
  PROVE  TypeOK'
BY DEF TypeOK, server, disk

LEMMA BeginKeeps ==
  ASSUME IInv, Begin
  PROVE  IInv' /\ Behind' = Behind /\ Excused' = Excused /\ f.phase = "idle" /\ f'.phase # "idle" /\ f'.passed = {}
<1>0. /\ UNCHANGED <<server, disk>> /\ UNCHANGED <<excluded, refused>>
      /\ f' = Visit("next", 1, cursor) /\ f.phase = "idle"
  BY DEF Begin, history
<1>1. /\ UNCHANGED <<validity, uidnext, present, aged, calm, cursor, seen>>
      /\ Behind' = Behind /\ Gone' = Gone /\ Numbered'
  BY <1>0, Held DEF IInv
<1>2. /\ f' \in FetchState /\ f'.phase = "next" /\ f'.at = 1 /\ f'.out = cursor
      /\ f'.passed = {} /\ f'.accounted = <<>>
  BY <1>0, ServerType, VisitType, Ranges DEF IInv, Phases
<1>3. TypeOK'
  BY <1>0, <1>2, HeldType DEF IInv, TypeOK
<1>4. Selection' /\ Swept'
  BY <1>1, <1>2 DEF Selection, Swept, AtBox
<1>5. Settling'
  <2>1. ASSUME NEW m \in Message, CoveredBy(cursor, m)
        PROVE  m \in Behind'
    BY <1>1, <2>1 DEF CoveredBy, Behind, Covered
  <2> QED BY <1>2, <2>1 DEF Settling, Settled
<1>6. Keeping'
  BY <1>2 DEF Keeping
<1>7. Excused' = Excused
  BY <1>0, <1>1 DEF Excused
<1> QED BY <1>0, <1>1, <1>2, <1>3, <1>4, <1>5, <1>6, <1>7 DEF IInv

\* Mail of the selected mailbox that the saved pair covers, and mail that is not there.
LEMMA BelowLast ==
  ASSUME IInv, AtBox, NEW u \in Uids, u <= f.last
  PROVE  Id(u) \in Behind
<1>1. f.at \in Boxes /\ f.validity = validity[f.at]
  BY DEF IInv, Selection
<1>2. Id(u) \in Message /\ Id(u).box = f.at /\ Id(u).validity = f.validity /\ Id(u).uid = u
  BY <1>1, IdType DEF IInv
<1>3. f.last = IF cursor[f.at].validity = f.validity THEN cursor[f.at].last ELSE 0
  BY DEF IInv, Selection
<1>4. u # 0 /\ u \in Nat
  BY Ranges
<1>5. cursor[f.at].validity = f.validity /\ u <= cursor[f.at].last
  BY <1>3, <1>4
<1> QED BY <1>2, <1>5 DEF Behind, Covered

LEMMA Absent ==
  ASSUME IInv, AtBox, NEW u \in Uids, u < uidnext[f.at], u \notin present[f.at]
  PROVE  Id(u) \in Gone
<1>1. f.at \in Boxes /\ f.validity = validity[f.at]
  BY DEF IInv, Selection
<1>2. Id(u) \in Message /\ Id(u).box = f.at /\ Id(u).validity = f.validity /\ Id(u).uid = u
  BY <1>1, IdType DEF IInv
<1> QED BY <1>1, <1>2 DEF Gone, InBox

LEMMA ExamineKeeps ==
  ASSUME IInv, Examine
  PROVE  /\ IInv' /\ Behind' = Behind /\ Excused' = Excused
         /\ f'.passed = f.passed /\ f.phase # "idle" /\ f'.phase # "idle"
<1> DEFINE b      == f.at
           resync == f.out[b].validity # validity[b]
           last   == IF resync THEN 0 ELSE f.out[b].last
<1>0. /\ UNCHANGED <<server, disk>> /\ UNCHANGED <<excluded, refused>>
      /\ f.phase = "next" /\ b \in Boxes
  BY DEF Examine, history
<1>1. /\ UNCHANGED <<validity, uidnext, present, aged, calm, cursor, seen>>
      /\ Behind' = Behind /\ Gone' = Gone /\ Numbered' /\ Excused' = Excused
  BY <1>0, Held DEF IInv, Excused
<1>2. PICK next \in {uidnext[b], 0} :
        LET nothing == \/ present[b] = {}
                       \/ ~resync /\ next > 0 /\ last + 1 >= next
            phase   == IF nothing THEN "deliver"
                       ELSE IF resync /\ Lookback THEN "search" ELSE "range"
        IN  f' = [f EXCEPT !.phase = phase, !.validity = validity[b],
                           !.uidnext = next, !.last = last, !.highest = last,
                           !.queue = {}]
  BY DEF Examine
<1> DEFINE nothing == \/ present[b] = {}
                      \/ ~resync /\ next > 0 /\ last + 1 >= next
           phase   == IF nothing THEN "deliver"
                      ELSE IF resync /\ Lookback THEN "search" ELSE "range"
<1>3. /\ f' = [f EXCEPT !.phase = phase, !.validity = validity[b],
                        !.uidnext = next, !.last = last, !.highest = last, !.queue = {}]
      /\ phase \in {"deliver", "search", "range"}
      /\ nothing <=> phase = "deliver"
      /\ phase = "search" => resync
  BY <1>2
<1>4. /\ f.out[b] = cursor[b] /\ last = (IF cursor[b].validity = validity[b] THEN cursor[b].last ELSE 0)
      /\ resync => last = 0
  <2>1. f.at \in Nat /\ b >= f.at
    BY LocalsType DEF IInv
  <2> QED BY <1>0, <2>1 DEF IInv, Selection
<1>5. last \in 0 .. MaxUid /\ next \in 0 .. (MaxUid + 1) /\ validity[b] \in 0 .. MaxValidity
      /\ next \in Nat /\ last \in Nat /\ uidnext[b] \in Nat /\ next <= uidnext[b]
  <2>1. cursor[b].last \in 0 .. MaxUid /\ uidnext[b] \in 1 .. (MaxUid + 1) /\ validity[b] \in 1 .. MaxValidity
        /\ uidnext[b] \in Nat
    BY <1>0, ServerType DEF IInv
  <2>2. last \in 0 .. MaxUid
    BY <1>4, <2>1, Ranges
  <2>3. last \in Nat
    BY <2>2, Ranges
  <2>4. next \in 0 .. (MaxUid + 1) /\ next \in Nat /\ next <= uidnext[b]
    BY <2>1, Ranges
  <2> HIDE DEF last
  <2> QED BY <2>1, <2>2, <2>3, <2>4, Ranges
<1> HIDE DEF nothing, phase, last
<1>7. /\ f' \in FetchState /\ f'.phase = phase /\ f'.validity = validity[b] /\ f'.uidnext = next
      /\ f'.last = last /\ f'.highest = last /\ f'.queue = {} /\ f'.at = f.at /\ f'.out = f.out
      /\ f'.passed = f.passed /\ f'.accounted = f.accounted
  BY <1>3, <1>5, LocalsType DEF IInv, FetchState, Phases
<1>8. TypeOK'
  BY <1>0, <1>7, HeldType DEF IInv, TypeOK
<1>9. Selection'
  BY <1>0, <1>1, <1>3, <1>4, <1>5, <1>7 DEF IInv, Selection, AtBox
<1>10. Settled' = Settled
  BY <1>1, <1>7 DEF Settled
<1>11. Settling'
  BY <1>0, <1>7, <1>10 DEF IInv, Settling
<1>12. Keeping'
  <2>1. \A m \in f.passed : m.box < f.at /\ CoveredBy(f.out, m)
    BY <1>0 DEF IInv, Keeping
  <2> QED BY <1>7, <2>1 DEF IInv, Keeping
<1>13. Swept'
  <2> SUFFICES ASSUME phase = "deliver", NEW u \in Uids, u <= last \/ u < next
               PROVE  Id(u)' \in Settled'
    BY <1>3, <1>7 DEF Swept
  <2>1. Id(u)' \in Message /\ Id(u)'.box = b /\ Id(u)'.validity = validity[b] /\ Id(u)'.uid = u
    BY <1>0, <1>7, ServerType DEF IInv, Id, Message
  <2>2. u \in Nat \ {0}
    BY Ranges
  <2>3. CASE u <= last
    <3>1. cursor[b].validity = validity[b] /\ u <= cursor[b].last
      BY <1>4, <2>2, <2>3
    <3> QED BY <1>10, <2>1, <3>1 DEF Settled, Behind, Covered
  <2>4. CASE ~(u <= last)
    <3>1. u < next
      BY <2>4
    <3>2. ~(last + 1 >= next)
      BY <1>5, <2>2, <2>4, <3>1
    <3>3. present[b] = {}
      BY <1>3, <3>2 DEF nothing
    <3>4. u < uidnext[b]
      BY <1>5, <2>2, <3>1
    <3> QED BY <1>10, <2>1, <3>3, <3>4 DEF Settled, Excused, Gone, InBox
  <2> QED BY <2>3, <2>4
<1> QED BY <1>0, <1>1, <1>3, <1>7, <1>8, <1>9, <1>11, <1>12, <1>13 DEF IInv

\* A step within the selected mailbox.
Inside ==
  /\ UNCHANGED <<server, disk, refused>> /\ excluded \subseteq excluded' /\ excluded' \subseteq Message
  /\ f' \in FetchState /\ AtBox /\ AtBox'
  /\ f'.at = f.at /\ f'.out = f.out /\ f'.validity = f.validity /\ f'.uidnext = f.uidnext /\ f'.last = f.last
  /\ f.passed \subseteq f'.passed

LEMMA InsideFacts ==
  ASSUME Inside
  PROVE  /\ UNCHANGED <<validity, uidnext, present, aged, calm, cursor, seen>>
         /\ Behind' = Behind /\ Gone' = Gone /\ Excused \subseteq Excused'
         /\ Settled \subseteq Settled' /\ (\A u : Id(u)' = Id(u))
<1>1. /\ UNCHANGED <<validity, uidnext, present, aged, calm, cursor, seen>>
      /\ Behind' = Behind /\ Gone' = Gone /\ Excused \subseteq Excused'
  BY Held DEF Inside
<1> QED BY <1>1 DEF Inside, Settled, Id

LEMMA InsideKeeps ==
  ASSUME IInv, Inside,
         f'.phase # "search" /\ (f'.phase # "deliver" => f'.highest = f'.last),
         f.phase = "deliver" => f'.phase = "deliver",
         f.highest <= f'.highest,
         \A u \in f'.queue : u < uidnext[f.at],
         \A m \in f'.passed \ f.passed : m.box = f.at /\ f'.phase = "deliver" /\ m.validity = f.validity /\ m.uid <= f'.highest,
         \A i \in DOMAIN f'.accounted : f'.accounted[i] \in f'.passed,
         Swept'
  PROVE  /\ IInv' /\ Behind' = Behind /\ Excused \subseteq Excused' /\ f.phase # "idle" /\ f'.phase # "idle"
<1>1. /\ UNCHANGED <<validity, uidnext, present, aged, calm, cursor, seen>>
      /\ Behind' = Behind /\ Excused \subseteq Excused' /\ Settled \subseteq Settled'
  BY InsideFacts
<1>2. TypeOK'
  BY HeldType DEF Inside, IInv, TypeOK
<1>3. Numbered'
  BY <1>1 DEF IInv, Numbered
<1>4. f.phase # "idle" /\ f'.phase # "idle"
  BY DEF Inside, AtBox
<1>5. Selection'
  <2>1. \A b \in Boxes : b >= f.at => f.out[b] = cursor[b]
    BY <1>4 DEF IInv, Selection
  <2>2. /\ f.at \in Boxes /\ f.validity = validity[f.at] /\ f.uidnext <= uidnext[f.at]
        /\ f.last = IF cursor[f.at].validity = f.validity THEN cursor[f.at].last ELSE 0
    BY DEF IInv, Selection, Inside
  <2> QED BY <1>1, <1>4, <2>1, <2>2 DEF Selection, Inside
<1>6. Settling'
  BY <1>1, <1>4 DEF IInv, Settling, Inside, CoveredBy
<1>7. Keeping'
  <2>1. ASSUME NEW m \in f'.passed
        PROVE  \/ m.box < f.at /\ CoveredBy(f.out, m)
               \/ m.box = f.at /\ f'.phase = "deliver" /\ m.validity = f.validity /\ m.uid <= f'.highest
    <3>1. CASE m \in f.passed
      <4>1. \/ m.box < f.at /\ CoveredBy(f.out, m)
            \/ m.box = f.at /\ f.phase = "deliver" /\ m.validity = f.validity /\ m.uid <= f.highest
        BY <3>1 DEF IInv, Keeping
      <4>2. m.uid <= f.highest => m.uid <= f'.highest
        <5>1. m.uid \in Nat
          BY <3>1, MessageType, LocalsType DEF IInv
        <5>2. f.highest \in Nat /\ f'.highest \in Nat
          BY LocalsType, <1>2, Ranges DEF IInv, Inside, FetchState
        <5> QED BY <5>1, <5>2
      <4> QED BY <4>1, <4>2
    <3> QED BY <3>1, <2>1
  <2> QED BY <2>1 DEF Keeping, Inside, CoveredBy
<1> QED BY <1>1, <1>2, <1>3, <1>4, <1>5, <1>6, <1>7 DEF IInv

LEMMA SearchKeeps ==
  ASSUME IInv, Search
  PROVE  /\ IInv' /\ Behind' = Behind /\ Excused \subseteq Excused'
         /\ f'.passed = f.passed /\ f.phase # "idle" /\ f'.phase # "idle"
<1> DEFINE found == {u \in present[f.at] : Id(u) \notin aged}
<1>0. /\ UNCHANGED <<server, disk, refused>> /\ f.phase = "search" /\ AtBox
      /\ f' = [f EXCEPT !.phase = IF found = {} THEN "deliver" ELSE "found", !.queue = found]
      /\ excluded' = excluded \cup {Id(u) : u \in present[f.at] \ found}
  BY DEF Search, AtBox
<1>1. f.at \in Boxes /\ f.validity = validity[f.at] /\ f.highest = f.last /\ f.last = 0 /\ f.uidnext <= uidnext[f.at]
  BY <1>0 DEF IInv, Selection
<1>2. present[f.at] \in SUBSET Uids /\ found \in SUBSET Uids /\ found \subseteq present[f.at]
  BY <1>1, ServerType DEF IInv
<1> HIDE DEF found
<1>3. /\ f' \in FetchState /\ f'.phase = (IF found = {} THEN "deliver" ELSE "found") /\ f'.queue = found
      /\ f'.at = f.at /\ f'.out = f.out /\ f'.validity = f.validity /\ f'.uidnext = f.uidnext /\ f'.last = f.last
      /\ f'.highest = f.highest /\ f'.passed = f.passed /\ f'.accounted = f.accounted
  BY <1>0, <1>2, LocalsType DEF IInv, FetchState, Phases
<1>4. Inside
  <2>1. excluded' \subseteq Message
    BY <1>0, <1>1, <1>2, IdType DEF IInv, TypeOK
  <2> QED BY <1>0, <1>3, <2>1 DEF Inside, AtBox
<1>5. Swept'
  <2>1. ASSUME NEW u \in Uids, u <= f.highest \/ u < f.uidnext \/ (\E w \in found : u <= w), u \notin found
        PROVE  Id(u) \in Settled'
    <3>1. u < uidnext[f.at]
      <4>1. /\ u \in Nat \ {0} /\ f.uidnext \in Nat /\ uidnext[f.at] \in Nat /\ found \subseteq Nat
        BY <1>1, <1>2, Ranges, ServerType, LocalsType DEF IInv
      <4>2. \A w \in found : w < uidnext[f.at]
        BY <1>1, <1>2 DEF IInv, Numbered
      <4>3. CASE u < f.uidnext
        BY <1>1, <4>1, <4>3
      <4>4. ASSUME NEW w \in found, u <= w
            PROVE  u < uidnext[f.at]
        <5>1. w \in Nat /\ w < uidnext[f.at]
          BY <4>1, <4>2
        <5> QED BY <4>1, <4>4, <5>1
      <4>5. ~(u <= f.highest)
        BY <1>1, <4>1
      <4> QED BY <2>1, <4>3, <4>4, <4>5
    <3>2. CASE u \in present[f.at]
      BY <1>0, <2>1, <3>2 DEF Settled, Excused
    <3>3. CASE u \notin present[f.at]
      BY <1>0, <1>4, <3>1, <3>3, Absent, InsideFacts DEF Settled, Excused
    <3> QED BY <3>2, <3>3
  <2>2. f.highest = 0
    BY <1>1
  <2>3. \A u \in found : u > f.highest
    BY <1>2, <2>2, Ranges
  <2> QED BY <1>3, <1>4, <2>1, <2>3, InsideFacts DEF Swept
<1>6. \A u \in f'.queue : u < uidnext[f.at]
  BY <1>1, <1>2, <1>3 DEF IInv, Numbered
<1>7. f.highest <= f'.highest
  BY <1>3, LocalsType DEF IInv
<1>8. f'.phase # "search" /\ (f'.phase # "deliver" => f'.highest = f'.last)
  BY <1>1, <1>3
<1>9. \A i \in DOMAIN f'.accounted : f'.accounted[i] \in f'.passed
  BY <1>3 DEF IInv, Keeping
<1> QED BY <1>0, <1>3, <1>4, <1>5, <1>6, <1>7, <1>8, <1>9, InsideKeeps

LEMMA AskRangeKeeps ==
  ASSUME IInv, AskRange
  PROVE  /\ IInv' /\ Behind' = Behind /\ Excused \subseteq Excused'
         /\ f'.passed = f.passed /\ f.phase # "idle" /\ f'.phase # "idle"
<1> DEFINE box   == present[f.at]
           above == {u \in box : u > f.last}
           queue == IF above = {} /\ box # {} THEN {Highest(box)} ELSE above
<1>0. /\ UNCHANGED <<server, disk, refused>> /\ UNCHANGED excluded /\ f.phase = "range" /\ AtBox
      /\ f' = [f EXCEPT !.phase = "deliver", !.queue = queue]
  BY DEF AskRange, AtBox, history
<1>1. /\ f.at \in Boxes /\ f.validity = validity[f.at] /\ f.highest = f.last /\ f.uidnext <= uidnext[f.at]
  BY <1>0 DEF IInv, Selection
<1>2. box \in SUBSET Uids
  BY <1>1, ServerType DEF IInv
<1>3. queue \in SUBSET box /\ above \subseteq queue
  BY <1>2, HighestOf
<1>4. \A u \in box : u \in Nat /\ (u > f.last <=> u \in above)
  BY <1>2, Ranges
<1>13. \A u \in queue : u > f.last \/ u <= f.last
  BY <1>3, <1>4, LocalsType DEF IInv
<1> HIDE DEF queue, above
<1>5. /\ f' \in FetchState /\ f'.phase = "deliver" /\ f'.queue = queue
      /\ f'.at = f.at /\ f'.out = f.out /\ f'.validity = f.validity /\ f'.uidnext = f.uidnext /\ f'.last = f.last
      /\ f'.highest = f.highest /\ f'.passed = f.passed /\ f'.accounted = f.accounted
  <2>1. queue \in SUBSET Uids
    BY <1>2, <1>3
  <2> QED BY <1>0, <2>1, LocalsType DEF IInv, FetchState, Phases
<1>6. Inside
  BY <1>0, <1>5 DEF Inside, AtBox, IInv, TypeOK
<1>7. \A u \in queue : u < uidnext[f.at]
  BY <1>1, <1>3 DEF IInv, Numbered
<1>8. ASSUME NEW u \in Uids, u <= f.highest \/ u < f.uidnext \/ (\E w \in queue : u <= w), u \notin queue
      PROVE  Id(u) \in Settled
  <2>1. CASE u <= f.last
    BY <1>0, <2>1, BelowLast DEF Settled
  <2>2. CASE ~(u <= f.last)
    <3>1. /\ u \in Nat /\ f.uidnext \in Nat /\ uidnext[f.at] \in Nat /\ f.last \in Nat
      BY <1>1, Ranges, ServerType, LocalsType DEF IInv
    <3>2. u < f.uidnext => u < uidnext[f.at]
      BY <1>1, <3>1
    <3>3. ASSUME NEW w \in queue, u <= w
          PROVE  u < uidnext[f.at]
      <4>1. w \in Nat /\ w < uidnext[f.at]
        BY <1>3, <1>4, <1>7
      <4> QED BY <3>1, <3>3, <4>1
    <3>4. u < uidnext[f.at] /\ u > f.last
      <4>1. u < uidnext[f.at]
        BY <1>1, <1>8, <2>2, <3>2, <3>3, <1>1, <3>1
      <4> QED BY <2>2, <3>1, <4>1
    <3>5. u \notin box
      BY <1>3, <1>4, <1>8, <3>4
    <3> QED BY <1>0, <3>4, <3>5, Absent DEF Settled, Excused
  <2> QED BY <2>1, <2>2
<1>9. Swept'
  BY <1>1, <1>13, <1>5, <1>6, <1>8, InsideFacts DEF Swept
<1>10. f.highest <= f'.highest
  BY <1>5, LocalsType DEF IInv
<1>11. \A i \in DOMAIN f'.accounted : f'.accounted[i] \in f'.passed
  BY <1>5 DEF IInv, Keeping
<1>12. \A u \in f'.queue : u < uidnext[f.at]
  BY <1>5, <1>7
<1> QED BY <1>5, <1>6, <1>9, <1>10, <1>11, <1>12, InsideKeeps

LEMMA AskFoundKeeps ==
  ASSUME IInv, AskFound
  PROVE  /\ IInv' /\ Behind' = Behind /\ Excused \subseteq Excused'
         /\ f'.passed = f.passed /\ f.phase # "idle" /\ f'.phase # "idle"
<1> DEFINE queue == f.queue \cap present[f.at]
<1>0. /\ UNCHANGED <<server, disk, refused>> /\ UNCHANGED excluded /\ f.phase = "found" /\ AtBox
      /\ f' = [f EXCEPT !.phase = "deliver", !.queue = queue]
  BY DEF AskFound, AtBox, history
<1>1. /\ f.at \in Boxes /\ f.highest = f.last /\ \A u \in f.queue : u < uidnext[f.at]
  BY <1>0 DEF IInv, Selection
<1>2. queue \in SUBSET f.queue /\ f.queue \in SUBSET Uids
  BY LocalsType DEF IInv
<1>3. \A u \in f.queue \ queue : Id(u) \in Gone
  BY <1>0, <1>1, <1>2, Absent
<1> HIDE DEF queue
<1>4. /\ f' \in FetchState /\ f'.phase = "deliver" /\ f'.queue = queue
      /\ f'.at = f.at /\ f'.out = f.out /\ f'.validity = f.validity /\ f'.uidnext = f.uidnext /\ f'.last = f.last
      /\ f'.highest = f.highest /\ f'.passed = f.passed /\ f'.accounted = f.accounted
  <2>1. queue \in SUBSET Uids
    BY <1>2
  <2> QED BY <1>0, <2>1, LocalsType DEF IInv, FetchState, Phases
<1>5. Inside
  BY <1>0, <1>4 DEF Inside, AtBox, IInv, TypeOK
<1>6. Swept'
  <2>1. ASSUME NEW u \in Uids, u <= f.highest \/ u < f.uidnext \/ (\E w \in queue : u <= w), u \notin queue
        PROVE  Id(u) \in Settled
    <3>1. Id(u) \in Settled \/ u \in f.queue
      BY <1>0, <1>2, <2>1 DEF IInv, Swept
    <3> QED BY <1>3, <2>1, <3>1 DEF Settled, Excused
  <2>2. \A u \in queue : u > f.highest \/ u <= f.last
    <3>1. \A u \in queue : u \in Nat
      BY <1>2, Ranges
    <3> QED BY <1>1, <3>1, LocalsType DEF IInv
  <2> QED BY <1>4, <1>5, <2>1, <2>2, InsideFacts DEF Swept
<1>7. f.highest <= f'.highest
  BY <1>4, LocalsType DEF IInv
<1>8. \A i \in DOMAIN f'.accounted : f'.accounted[i] \in f'.passed
  BY <1>4 DEF IInv, Keeping
<1>9. \A u \in f'.queue : u < uidnext[f.at]
  BY <1>1, <1>2, <1>4
<1> QED BY <1>0, <1>4, <1>5, <1>6, <1>7, <1>8, <1>9, InsideKeeps

\* One message of the answer is dealt with: settled, and counted if it arrived.
LEMMA ConsumedKeeps ==
  ASSUME IInv, f.phase = "deliver", UNCHANGED <<server, disk, history>>, NEW u \in f.queue,
         f' \in FetchState, f'.phase = "deliver", f'.queue = f.queue \ {u},
         f'.at = f.at, f'.out = f.out, f'.validity = f.validity, f'.uidnext = f.uidnext, f'.last = f.last,
         \/ f'.highest = f.highest
         \/ f'.highest = Larger(f.highest, u) /\ \A w \in f.queue : u <= w,
         f.passed \subseteq f'.passed, f'.passed \subseteq f.passed \cup {Id(u)},
         f'.passed = f.passed \/ u <= f'.highest,
         \A i \in DOMAIN f'.accounted : f'.accounted[i] \in f'.passed,
         Id(u) \in Settled'
  PROVE  /\ IInv' /\ Behind' = Behind /\ Excused \subseteq Excused' /\ f.phase # "idle" /\ f'.phase # "idle"
<1>0. AtBox /\ AtBox'
  BY DEF AtBox
<1>1. f.at \in Boxes /\ f.validity = validity[f.at] /\ \A w \in f.queue : w < uidnext[f.at]
  BY <1>0 DEF IInv, Selection
<1>2. Inside
  BY <1>0 DEF Inside, IInv, TypeOK, history
<1>3. f.queue \in SUBSET Uids /\ f.queue \in SUBSET Nat /\ u \in Uids /\ u \in Nat
      /\ f.highest \in Nat /\ f.last \in Nat /\ f'.highest \in Nat
  <2>1. f.queue \in SUBSET Uids /\ f.highest \in Nat /\ f.last \in Nat
    BY LocalsType DEF IInv
  <2>2. f.queue \in SUBSET Nat /\ u \in Uids /\ u \in Nat
    BY <2>1, Ranges
  <2> QED BY <2>1, <2>2 DEF Larger
<1>4. f.highest <= f'.highest
  BY <1>3 DEF Larger
<1>5. Swept'
  <2>1. ASSUME NEW w \in Uids, w <= f'.highest \/ w < f.uidnext \/ (\E x \in f.queue \ {u} : w <= x),
               w \notin f.queue \ {u}
        PROVE  Id(w) \in Settled'
    <3>1. CASE w = u
      BY <3>1
    <3>2. CASE w # u
      <4>1. w <= f.highest \/ w < f.uidnext \/ \E x \in f.queue : w <= x
        <5>1. w <= f'.highest => w <= f.highest \/ w <= u
          <6>1. w \in Nat
            BY Ranges
          <6> QED BY <1>3, <6>1 DEF Larger
        <5> QED BY <2>1, <5>1
      <4>2. Id(w) \in Settled
        BY <2>1, <3>2, <4>1 DEF IInv, Swept
      <4> QED BY <1>2, <4>2, InsideFacts
    <3> QED BY <3>1, <3>2
  <2>2. ASSUME NEW w \in f.queue \ {u}
        PROVE  w > f'.highest \/ w <= f.last
    <3>1. w > f.highest \/ w <= f.last
      BY DEF IInv, Swept
    <3>2. w \in Nat /\ w # u
      BY <1>3
    <3> QED BY <1>3, <3>1, <3>2 DEF Larger
  <2> QED BY <1>2, <2>1, <2>2, InsideFacts DEF Swept
<1>6. \A m \in f'.passed \ f.passed : m.box = f.at /\ m.validity = f.validity /\ m.uid <= f'.highest
  BY <1>1, <1>3, IdType DEF IInv
<1> QED BY <1>1, <1>2, <1>4, <1>5, <1>6, InsideKeeps

LEMMA LeftOutKeeps ==
  ASSUME IInv, NEW u \in Uids, LeftOut(u)
  PROVE  /\ IInv' /\ Behind' = Behind /\ Excused \subseteq Excused'
         /\ f'.passed = f.passed /\ f.phase # "idle" /\ f'.phase # "idle"
<1>0. /\ UNCHANGED <<server, disk, history>> /\ f.phase = "deliver" /\ u \in f.queue \ present[f.at]
      /\ f' = [f EXCEPT !.queue = @ \ {u}]
  BY DEF LeftOut
<1>1. /\ f' \in FetchState /\ f'.phase = "deliver" /\ f'.queue = f.queue \ {u}
      /\ f'.at = f.at /\ f'.out = f.out /\ f'.validity = f.validity /\ f'.uidnext = f.uidnext /\ f'.last = f.last
      /\ f'.highest = f.highest /\ f'.passed = f.passed /\ f'.accounted = f.accounted
  BY <1>0, LocalsType DEF IInv, FetchState
<1>2. Id(u) \in Settled'
  <2>1. AtBox
    BY <1>0 DEF AtBox
  <2>2. u < uidnext[f.at]
    BY <1>0, <2>1 DEF IInv, Selection
  <2>3. Id(u) \in Gone
    BY <1>0, <2>1, <2>2, Absent
  <2>4. Gone' = Gone
    BY <1>0 DEF Gone, InBox, server
  <2> QED BY <2>3, <2>4 DEF Settled, Excused
<1>3. \A i \in DOMAIN f'.accounted : f'.accounted[i] \in f'.passed
  BY <1>1 DEF IInv, Keeping
<1> QED BY <1>0, <1>1, <1>2, <1>3, ConsumedKeeps

\* What Consumed makes of the locals.
LEMMA ConsumedFacts ==
  ASSUME IInv, NEW u \in Uids, Arrives(u)
  PROVE  /\ f.phase = "deliver" /\ u \in f.queue /\ \A w \in f.queue : u <= w
         /\ f.at \in Boxes /\ f.validity = validity[f.at]
         /\ Consumed(u) \in FetchState
         /\ LET c == Consumed(u) IN
              /\ c.phase = "deliver" /\ c.queue = f.queue \ {u} /\ c.highest = Larger(f.highest, u)
              /\ c.at = f.at /\ c.out = f.out /\ c.validity = f.validity /\ c.uidnext = f.uidnext /\ c.last = f.last
              /\ c.passed = f.passed /\ c.accounted = f.accounted
         /\ u <= Larger(f.highest, u)
<1>1. f.phase = "deliver" /\ u \in f.queue /\ \A w \in f.queue : u <= w
  BY LowestOf, LocalsType DEF Arrives, IInv
<1>2. Larger(f.highest, u) \in 0 .. MaxUid /\ u <= Larger(f.highest, u)
  <2>1. u \in 0 .. MaxUid /\ u \in Nat /\ f.highest \in 0 .. MaxUid /\ f.highest \in Nat
    BY Ranges, LocalsType DEF IInv
  <2> QED BY <2>1 DEF Larger
<1>3. f.at \in Boxes /\ f.validity = validity[f.at]
  BY <1>1 DEF IInv, Selection, AtBox
<1> QED BY <1>1, <1>2, <1>3, LocalsType DEF IInv, Consumed, FetchState

LEMMA SkipKeeps ==
  ASSUME IInv, NEW u \in Uids, Skip(u)
  PROVE  /\ IInv' /\ Behind' = Behind /\ Excused \subseteq Excused'
         /\ f'.passed = f.passed /\ f.phase # "idle" /\ f'.phase # "idle"
<1>0. UNCHANGED <<server, disk, history>> /\ Arrives(u) /\ NotNew(u) /\ f' = Consumed(u)
  BY DEF Skip
<1>1. Id(u) \in Settled'
  <2>1. AtBox
    BY <1>0, ConsumedFacts DEF AtBox
  <2>2. Id(u) \in Behind
    BY <1>0, <2>1, BelowLast DEF NotNew, Behind
  <2>3. Behind' = Behind
    BY <1>0 DEF disk, Behind, Covered, SeenIds
  <2> QED BY <2>2, <2>3 DEF Settled
<1>2. \A i \in DOMAIN f'.accounted : f'.accounted[i] \in f'.passed
  BY <1>0, ConsumedFacts DEF IInv, Keeping
<1> QED BY <1>0, <1>1, <1>2, ConsumedFacts, ConsumedKeeps

LEMMA AcceptKeeps ==
  ASSUME IInv, NEW u \in Uids, Accept(u)
  PROVE  /\ IInv' /\ Behind' = Behind /\ Excused' = Excused
         /\ f'.passed = f.passed \cup {Id(u)} /\ Id(u) \in Message /\ f.phase # "idle" /\ f'.phase # "idle"
<1>0. UNCHANGED <<server, disk, history>> /\ Arrives(u) /\ ~NotNew(u)
  BY DEF Accept
<1>1. PICK marked \in {<<>>, <<Id(u)>>} :
        f' = [Consumed(u) EXCEPT !.passed = @ \cup {Id(u)}, !.accounted = @ \o marked]
  BY DEF Accept
<1>2. Id(u) \in Message
  BY <1>0, ConsumedFacts, IdType DEF IInv
<1>3. f.accounted \o marked \in Seq(Message)
      /\ \A i \in DOMAIN (f.accounted \o marked) : (f.accounted \o marked)[i] \in f.passed \cup {Id(u)}
  <2>1. f.accounted \in Seq(Message) /\ \A i \in DOMAIN f.accounted : f.accounted[i] \in f.passed
    BY LocalsType DEF IInv, Keeping
  <2>2. CASE marked = <<>>
    BY <2>1, <2>2
  <2>3. CASE marked = <<Id(u)>>
    <3> DEFINE s == Append(f.accounted, Id(u))
    <3>1. f.accounted \o marked = s
      BY <2>1, <2>3
    <3>2. s \in Seq(Message) /\ \A i \in DOMAIN s : s[i] \in f.passed \cup {Id(u)}
      BY <1>2, <2>1
    <3> QED BY <3>1, <3>2
  <2> QED BY <2>2, <2>3
<1>4. /\ f' \in FetchState /\ f'.phase = "deliver" /\ f'.queue = f.queue \ {u}
      /\ f'.at = f.at /\ f'.out = f.out /\ f'.validity = f.validity /\ f'.uidnext = f.uidnext /\ f'.last = f.last
      /\ f'.highest = Larger(f.highest, u)
      /\ f'.passed = f.passed \cup {Id(u)} /\ f'.accounted = f.accounted \o marked
  <2>1. f.passed \cup {Id(u)} \in SUBSET Message
    BY <1>2, LocalsType DEF IInv
  <2>2. Consumed(u) \in FetchState /\ Consumed(u).passed = f.passed /\ Consumed(u).accounted = f.accounted
    BY <1>0, ConsumedFacts
  <2>3. f' \in FetchState /\ f'.passed = f.passed \cup {Id(u)} /\ f'.accounted = f.accounted \o marked
    BY <1>1, <1>3, <2>1, <2>2 DEF FetchState
  <2>4. LET c == Consumed(u) IN
          /\ f'.phase = c.phase /\ f'.queue = c.queue /\ f'.at = c.at /\ f'.out = c.out /\ f'.validity = c.validity
          /\ f'.uidnext = c.uidnext /\ f'.last = c.last /\ f'.highest = c.highest
    BY <1>1, <2>2 DEF FetchState
  <2> QED BY <1>0, <2>3, <2>4, ConsumedFacts
<1>5. Id(u) \in Settled' /\ \A i \in DOMAIN f'.accounted : f'.accounted[i] \in f'.passed
  BY <1>3, <1>4 DEF Settled
<1>6. IInv' /\ Behind' = Behind /\ f.phase # "idle" /\ f'.phase # "idle"
  BY <1>0, <1>4, <1>5, ConsumedFacts, ConsumedKeeps
<1>7. Excused' = Excused
  BY <1>0 DEF Excused, Gone, InBox, server, history
<1> QED BY <1>2, <1>4, <1>6, <1>7

\* The pair written for the mailbox in flight covers settled mail, and all that was
\* accepted from it.
LEMMA PairFacts ==
  ASSUME IInv, f.phase = "deliver", NEW h \in 0 .. MaxUid, f.highest <= h, NEW X,
         \A u \in Uids : u <= h => Id(u) \in Settled \cup X
  PROVE  /\ Pair(h) \in [Boxes -> Cursor]
         /\ \A b \in Boxes : b # f.at => Pair(h)[b] = f.out[b]
         /\ \A m \in Message : CoveredBy(Pair(h), m) => m \in Settled \cup X
         /\ \A m \in f.passed : m.box <= f.at /\ CoveredBy(Pair(h), m)
<1>1. /\ f.out \in [Boxes -> Cursor] /\ f.validity \in 0 .. MaxValidity /\ f.highest \in Nat /\ h \in Nat
      /\ f.at \in Boxes /\ f.validity = validity[f.at] /\ f.at \in Nat
  <2>1. f.at \in Boxes /\ f.validity = validity[f.at]
    BY DEF IInv, Selection, AtBox
  <2>2. h \in Nat
    BY Ranges
  <2> QED BY <2>1, <2>2, LocalsType DEF IInv
<1>2. [validity |-> f.validity, last |-> h] \in Cursor
  BY <1>1 DEF Cursor
<1>3. Pair(h) \in [Boxes -> Cursor] /\ \A b \in Boxes : b # f.at => Pair(h)[b] = f.out[b]
  BY <1>1, <1>2 DEF Pair
<1>4. Pair(h)[f.at] = IF h > 0 THEN [validity |-> f.validity, last |-> h] ELSE f.out[f.at]
  BY <1>1 DEF Pair
<1>5. ASSUME NEW m \in Message, CoveredBy(Pair(h), m)
      PROVE  m \in Settled \cup X
  <2>1. CASE m.box = f.at /\ h > 0
    <3>1. m.validity = f.validity /\ m.uid <= h
      BY <1>4, <1>5, <2>1 DEF CoveredBy
    <3>2. m = Id(m.uid) /\ m.uid \in Uids
      BY <2>1, <3>1 DEF Id, Message
    <3> QED BY <3>1, <3>2
  <2>2. CASE ~(m.box = f.at /\ h > 0)
    <3>1. Pair(h)[m.box] = f.out[m.box]
      BY <1>3, <1>4, <2>2, MessageType
    <3>2. CoveredBy(f.out, m)
      BY <1>5, <3>1 DEF CoveredBy
    <3> QED BY <3>2 DEF IInv, Settling
  <2> QED BY <2>1, <2>2
<1>6. ASSUME NEW m \in f.passed
      PROVE  m.box <= f.at /\ CoveredBy(Pair(h), m)
  <2>1. m \in Message /\ m.box \in Boxes /\ m.uid \in Nat \ {0} /\ m.box \in Nat
    <3>1. m \in Message
      BY LocalsType DEF IInv
    <3> QED BY <3>1, MessageType, Ranges
  <2>2. CASE m.box < f.at /\ CoveredBy(f.out, m)
    <3>1. m.box # f.at /\ m.box <= f.at
      BY <1>1, <2>1, <2>2
    <3>2. Pair(h)[m.box] = f.out[m.box]
      BY <1>3, <2>1, <3>1
    <3> QED BY <2>2, <3>1, <3>2 DEF CoveredBy
  <2>3. CASE m.box = f.at /\ m.validity = f.validity /\ m.uid <= f.highest
    <3>1. m.uid <= h /\ h > 0
      BY <1>1, <2>1, <2>3
    <3>2. Pair(h)[m.box].validity = m.validity /\ Pair(h)[m.box].last = h
      BY <1>4, <2>3, <3>1
    <3> QED BY <1>1, <2>3, <3>1, <3>2 DEF CoveredBy
  <2> QED BY <2>2, <2>3 DEF IInv, Keeping
<1> QED BY <1>3, <1>5, <1>6

LEMMA FinishMailboxKeeps ==
  ASSUME IInv, FinishMailbox
  PROVE  /\ IInv' /\ Behind' = Behind /\ Excused' = Excused
         /\ f'.passed = f.passed /\ f.phase # "idle" /\ f'.phase # "idle"
<1> DEFINE h == IF f.uidnext > 1 THEN Larger(f.highest, f.uidnext - 1) ELSE f.highest
<1>0. /\ UNCHANGED <<server, disk>> /\ UNCHANGED <<excluded, refused>>
      /\ f.phase = "deliver" /\ f.queue = {}
      /\ f' = [Visit("next", f.at + 1, Pair(h)) EXCEPT !.passed = f.passed, !.accounted = f.accounted]
  BY DEF FinishMailbox, history
<1>1. /\ UNCHANGED <<validity, uidnext, present, aged, calm, cursor, seen>>
      /\ Behind' = Behind /\ Gone' = Gone /\ Numbered' /\ Excused' = Excused
  BY <1>0, Held DEF IInv, Excused
<1>2. h \in 0 .. MaxUid /\ f.highest <= h /\ \A u \in Uids : u <= h => u <= f.highest \/ u < f.uidnext
  <2>1. f.highest \in 0 .. MaxUid /\ f.uidnext \in 0 .. (MaxUid + 1)
    BY LocalsType DEF IInv
  <2>2. MaxUid \in Nat /\ Uids \subseteq Nat
    BY Ranges
  <2> QED BY <2>1, <2>2 DEF Larger
<1>3. \A u \in Uids : u <= h => Id(u) \in Settled
  BY <1>0, <1>2 DEF IInv, Swept
<1>4. f.at \in Boxes /\ f.at + 1 \in 1 .. (NBoxes + 1) /\ f.at \in Nat
  BY <1>0, Ranges, LocalsType DEF IInv, Selection, AtBox
<1> HIDE DEF h
<1>5. /\ Pair(h) \in [Boxes -> Cursor]
      /\ \A b \in Boxes : b # f.at => Pair(h)[b] = f.out[b]
      /\ \A m \in Message : CoveredBy(Pair(h), m) => m \in Settled
      /\ \A m \in f.passed : m.box <= f.at /\ CoveredBy(Pair(h), m)
  <2>1. \A u \in Uids : u <= h => Id(u) \in Settled \cup {}
    BY <1>3
  <2>2. /\ Pair(h) \in [Boxes -> Cursor]
        /\ \A b \in Boxes : b # f.at => Pair(h)[b] = f.out[b]
        /\ \A m \in Message : CoveredBy(Pair(h), m) => m \in Settled \cup {}
        /\ \A m \in f.passed : m.box <= f.at /\ CoveredBy(Pair(h), m)
    BY <1>0, <1>2, <2>1, PairFacts
  <2> QED BY <2>2
<1>6. /\ f' \in FetchState /\ f'.phase = "next" /\ f'.at = f.at + 1 /\ f'.out = Pair(h)
      /\ f'.passed = f.passed /\ f'.accounted = f.accounted
  <2> DEFINE v == Visit("next", f.at + 1, Pair(h))
  <2>1. v \in FetchState /\ v.phase = "next" /\ v.at = f.at + 1 /\ v.out = Pair(h)
    BY <1>4, <1>5, VisitType DEF Phases
  <2> HIDE DEF v
  <2>2. f' = [v EXCEPT !.passed = f.passed, !.accounted = f.accounted]
    BY <1>0 DEF v
  <2> QED BY <2>1, <2>2, LocalsType DEF IInv, FetchState
<1>7. TypeOK'
  BY <1>0, <1>6, HeldType DEF IInv, TypeOK
<1>8. Settled' = Settled
  BY <1>1, <1>6 DEF Settled
<1>9. Selection'
  <2>1. ASSUME NEW b \in Boxes, b >= f.at + 1
        PROVE  Pair(h)[b] = cursor[b]
    <3>1. b \in Nat /\ b # f.at /\ b >= f.at
      BY <1>4, <2>1, Ranges
    <3> QED BY <1>0, <1>5, <3>1 DEF IInv, Selection
  <2> QED BY <1>1, <1>6, <2>1 DEF Selection, AtBox
<1>10. Swept'
  BY <1>6 DEF Swept
<1>11. Settling'
  BY <1>5, <1>6, <1>8 DEF Settling
<1>12. Keeping'
  <2>1. ASSUME NEW m \in f.passed
        PROVE  m.box < f.at + 1
    <3>1. m.box \in Nat /\ m.box <= f.at
      BY <1>5, LocalsType, MessageType, Ranges DEF IInv
    <3> QED BY <1>4, <3>1
  <2> QED BY <1>5, <1>6, <2>1 DEF IInv, Keeping
<1> QED BY <1>0, <1>1, <1>6, <1>7, <1>9, <1>10, <1>11, <1>12 DEF IInv

\* The end of a Fetch.
LEMMA EndKeeps ==
  ASSUME IInv, f' = Idle, UNCHANGED server, UNCHANGED excluded, refused' \subseteq Message,
         cursor' \in [Boxes -> Cursor], seen' \in Seq(Message), Len(seen') <= MaxSeenIDs
  PROVE  IInv' /\ f'.phase = "idle" /\ f'.passed = {}
<1>1. f' \in FetchState /\ f'.phase = "idle" /\ f'.passed = {} /\ f'.accounted = <<>>
  BY IdleType
<1>2. TypeOK' /\ Numbered'
  BY <1>1 DEF IInv, TypeOK, Numbered, server
<1>3. Selection' /\ Swept' /\ Settling' /\ Keeping'
  BY <1>1 DEF Selection, Swept, Settling, Keeping, AtBox
<1> QED BY <1>1, <1>2, <1>3 DEF IInv

\* What is saved: the state returned, and of the ids only known ones.
LEMMA SaveKeeps ==
  ASSUME IInv, NEW out \in [Boxes -> Cursor], Save(out), NEW X,
         \A m \in Message : CoveredBy(out, m) => m \in Settled \cup X,
         \A m \in f.passed : CoveredBy(out, m),
         UNCHANGED server, UNCHANGED excluded, refused' \subseteq Message, f.phase # "idle"
  PROVE  /\ IInv' /\ f'.phase = "idle" /\ f'.passed = {}
         /\ Behind' \subseteq Settled \cup X
         /\ cursor' # cursor => f.passed \subseteq Behind'
<1>1. f' = Idle /\ ((cursor' = out /\ seen' = Trim(seen \o f.accounted)) \/ UNCHANGED <<cursor, seen>>)
  BY DEF Save, disk
<1>2. CASE UNCHANGED <<cursor, seen>>
  <2>1. IInv' /\ f'.phase = "idle" /\ f'.passed = {}
    BY <1>1, <1>2, EndKeeps DEF IInv, TypeOK
  <2>2. Behind' = Behind
    BY <1>2 DEF Behind, Covered, SeenIds
  <2> QED BY <1>2, <2>1, <2>2 DEF Settled
<1>3. CASE cursor' = out /\ seen' = Trim(seen \o f.accounted)
  <2>1. /\ seen \in Seq(Message) /\ f.accounted \in Seq(Message) /\ seen \o f.accounted \in Seq(Message)
    BY LocalsType, ConcatProperties DEF IInv
  <2>2. /\ seen' \in Seq(Message) /\ Len(seen') <= MaxSeenIDs
        /\ \A i \in DOMAIN seen' : \E j \in DOMAIN (seen \o f.accounted) : seen'[i] = (seen \o f.accounted)[j]
    BY <1>3, <2>1, TrimFacts
  <2>3. \A j \in DOMAIN (seen \o f.accounted) : (seen \o f.accounted)[j] \in SeenIds \cup f.passed
    <3> SUFFICES ASSUME NEW j \in DOMAIN (seen \o f.accounted)
                 PROVE  (seen \o f.accounted)[j] \in SeenIds \cup f.passed
      OBVIOUS
    <3>1. j \in 1 .. Len(seen) + Len(f.accounted)
      BY <2>1
    <3>2. CASE j <= Len(seen)
      <4>1. (seen \o f.accounted)[j] = seen[j] /\ j \in DOMAIN seen
        BY <2>1, <3>1, <3>2
      <4> QED BY <4>1 DEF SeenIds
    <3>3. CASE ~(j <= Len(seen))
      <4>1. (seen \o f.accounted)[j] = f.accounted[j - Len(seen)] /\ j - Len(seen) \in DOMAIN f.accounted
        BY <2>1, <3>1, <3>3
      <4> QED BY <4>1 DEF IInv, Keeping
    <3> QED BY <3>2, <3>3
  <2>4. SeenIds' \subseteq SeenIds \cup f.passed
    <3>1. \A i \in DOMAIN seen' : seen'[i] \in SeenIds \cup f.passed
      BY <2>2, <2>3
    <3>2. SeenIds' = {seen'[i] : i \in DOMAIN seen'}
      BY DEF SeenIds
    <3> QED BY <3>1, <3>2
  <2>5. IInv' /\ f'.phase = "idle" /\ f'.passed = {}
    BY <1>1, <1>3, <2>2, EndKeeps
  <2>6. \A m \in Message : Covered(m)' <=> CoveredBy(out, m)
    BY <1>3 DEF Covered, CoveredBy
  <2>7. Behind' \subseteq Settled \cup X
    <3>1. SeenIds \subseteq Settled /\ f.passed \subseteq Settled
      BY DEF Settled, Behind
    <3>2. Behind' = {m \in Message : Covered(m)'} \cup SeenIds'
      BY DEF Behind
    <3> QED BY <2>4, <2>6, <3>1, <3>2
  <2>8. f.passed \subseteq Behind'
    <3>1. f.passed \subseteq Message
      BY LocalsType DEF IInv
    <3> QED BY <2>6, <3>1 DEF Behind
  <2> QED BY <2>5, <2>7, <2>8
<1> QED BY <1>1, <1>2, <1>3

LEMMA FinishFetchKeeps ==
  ASSUME IInv, FinishFetch
  PROVE  /\ IInv' /\ f.phase # "idle" /\ f'.phase = "idle" /\ f'.passed = {} /\ Excused' = Excused
         /\ Behind' \subseteq Behind \cup f.passed \cup Excused
         /\ cursor' # cursor => f.passed \subseteq Behind'
<1>1. Save(f.out) /\ f.phase = "next" /\ UNCHANGED server /\ UNCHANGED <<excluded, refused>>
  BY DEF FinishFetch, history
<1>2. Excused' = Excused
  BY <1>1 DEF Excused, Gone, InBox, server
<1>3. f.out \in [Boxes -> Cursor] /\ \A m \in f.passed : CoveredBy(f.out, m)
  BY <1>1, LocalsType DEF IInv, Keeping
<1>4. \A m \in Message : CoveredBy(f.out, m) => m \in Settled \cup {}
  BY <1>1 DEF IInv, Settling
<1>5. /\ IInv' /\ f'.phase = "idle" /\ f'.passed = {}
      /\ Behind' \subseteq Settled \cup {}
      /\ cursor' # cursor => f.passed \subseteq Behind'
  BY <1>1, <1>3, <1>4, SaveKeeps DEF IInv, TypeOK
<1> QED BY <1>1, <1>2, <1>5 DEF Settled

LEMMA RefuseKeeps ==
  ASSUME IInv, NEW u \in Uids, Refuse(u)
  PROVE  /\ IInv' /\ f.phase # "idle" /\ f'.phase = "idle" /\ f'.passed = {} /\ Excused \subseteq Excused'
         /\ Behind' \subseteq Behind \cup f.passed \cup Excused'
         /\ cursor' # cursor => f.passed \subseteq Behind'
<1> DEFINE h == Larger(f.highest, u)
<1>1. /\ Arrives(u) /\ ~NotNew(u) /\ Save(Pair(h)) /\ refused' = refused \cup {Id(u)}
      /\ UNCHANGED server /\ UNCHANGED excluded
  BY DEF Refuse
<1>2. /\ f.phase = "deliver" /\ u \in f.queue /\ \A w \in f.queue : u <= w
      /\ f.at \in Boxes /\ f.validity = validity[f.at] /\ Id(u) \in Message
  BY <1>1, ConsumedFacts, IdType DEF IInv
<1>3. Excused' = Excused \cup {Id(u)}
  BY <1>1 DEF Excused, Gone, InBox, server
<1>4. h \in 0 .. MaxUid /\ f.highest <= h /\ \A w \in Uids : w <= h => w <= f.highest \/ w <= u
  <2>1. f.highest \in 0 .. MaxUid /\ u \in 0 .. MaxUid /\ MaxUid \in Nat /\ Uids \subseteq Nat
    BY LocalsType, Ranges DEF IInv
  <2> QED BY <2>1 DEF Larger
<1>5. ASSUME NEW w \in Uids, w <= h
      PROVE  Id(w) \in Settled \cup {Id(u)}
  <2>1. w <= f.highest \/ w <= u
    BY <1>4, <1>5
  <2>2. Id(w) \in Settled \/ w \in f.queue
    BY <1>2, <2>1 DEF IInv, Swept
  <2>3. w \in f.queue => w = u
    <3> SUFFICES ASSUME w \in f.queue PROVE w = u
      OBVIOUS
    <3>1. w \in Nat /\ u \in Nat /\ f.highest \in Nat /\ f.last \in Nat /\ u > f.last
      <4>1. ~(u <= f.last)
        BY <1>1 DEF NotNew
      <4> QED BY <4>1, Ranges, LocalsType DEF IInv
    <3>2. u <= w
      BY <1>2
    <3>3. w > f.highest \/ w <= f.last
      BY <1>2 DEF IInv, Swept
    <3> QED BY <2>1, <3>1, <3>2, <3>3
  <2> QED BY <2>2, <2>3
<1> HIDE DEF h
<1>6. /\ Pair(h) \in [Boxes -> Cursor]
      /\ \A m \in Message : CoveredBy(Pair(h), m) => m \in Settled \cup {Id(u)}
      /\ \A m \in f.passed : CoveredBy(Pair(h), m)
  BY <1>2, <1>4, <1>5, PairFacts
<1>7. refused' \subseteq Message
  BY <1>1, <1>2 DEF IInv, TypeOK
<1>8. /\ IInv' /\ f'.phase = "idle" /\ f'.passed = {}
      /\ Behind' \subseteq Settled \cup {Id(u)}
      /\ cursor' # cursor => f.passed \subseteq Behind'
  BY <1>1, <1>2, <1>6, <1>7, SaveKeeps
<1> QED BY <1>2, <1>3, <1>8 DEF Settled

LEMMA FailKeeps ==
  ASSUME IInv, Fail
  PROVE  IInv' /\ Behind' = Behind /\ Excused' = Excused /\ f.phase # "idle" /\ f'.phase = "idle" /\ f'.passed = {}
<1>1. UNCHANGED <<server, disk>> /\ UNCHANGED <<excluded, refused, cursor, seen>> /\ f' = Idle /\ f.phase # "idle"
  BY DEF Fail, history, disk
<1>2. Behind' = Behind /\ Excused' = Excused
  BY <1>1, Held DEF Excused
<1>3. IInv' /\ f'.phase = "idle" /\ f'.passed = {}
  BY <1>1, EndKeeps DEF IInv, TypeOK
<1> QED BY <1>1, <1>2, <1>3

-----------------------------------------------------------------------------
(* What holds of Fetch.                                                    *)

LEMMA InvInit == Init => IInv
<1> SUFFICES ASSUME Init PROVE IInv
  OBVIOUS
<1>1. /\ validity = [b \in Boxes |-> 1] /\ uidnext = [b \in Boxes |-> 1] /\ present = [b \in Boxes |-> {}]
      /\ aged = {} /\ calm = FALSE /\ cursor = NoCursor /\ seen = <<>> /\ f = Idle /\ excluded = {} /\ refused = {}
  BY DEF Init
<1>2. TypeOK
  <2>1. 1 \in 1 .. MaxValidity /\ 1 \in 1 .. (MaxUid + 1)
    BY BoundAssumption
  <2>2. NoCursor \in [Boxes -> Cursor]
    BY Ranges DEF NoCursor, Cursor
  <2>3. <<>> \in Seq(Message) /\ Len(<<>>) <= MaxSeenIDs
    BY BoundAssumption
  <2>4. f \in FetchState
    BY <1>1, IdleType
  <2> QED BY <1>1, <2>1, <2>2, <2>3, <2>4 DEF TypeOK
<1>3. Numbered
  BY <1>1 DEF Numbered
<1>4. Selection /\ Swept /\ Settling /\ Keeping
  BY <1>1, IdleType DEF Selection, Swept, Settling, Keeping, AtBox
<1> QED BY <1>2, <1>3, <1>4 DEF IInv

\* Every step is one the contract allows; and keeps what this module is about.
LEMMA Step ==
  ASSUME IInv, [Next]_vars
  PROVE  /\ IInv'
         /\ \/ Behind' = Behind /\ f'.passed = f.passed /\ (f'.phase # "idle" <=> f.phase # "idle")
               /\ Excused \subseteq Excused'
            \/ Behind' = Behind /\ f.phase = "idle" /\ f'.phase # "idle" /\ f'.passed = {} /\ Excused' = Excused
            \/ \E m \in Message : Behind' = Behind /\ Excused' = Excused /\ f.phase # "idle" /\ f'.phase # "idle"
                                   /\ f'.passed = f.passed \cup {m}
            \/ /\ f.phase # "idle" /\ f'.phase = "idle" /\ f'.passed = {} /\ Excused \subseteq Excused'
               /\ Behind' \subseteq Behind \cup f.passed \cup Excused'
<1>1. CASE Server \/ UNCHANGED vars
  BY <1>1, ServerKeeps
<1>2. CASE Begin
  BY <1>2, BeginKeeps
<1>3. CASE Examine \/ Search \/ AskRange \/ AskFound \/ FinishMailbox
  BY <1>3, ExamineKeeps, SearchKeeps, AskRangeKeeps, AskFoundKeeps, FinishMailboxKeeps
<1>4. ASSUME NEW u \in Uids, LeftOut(u) \/ Skip(u)
      PROVE  /\ IInv' /\ Behind' = Behind /\ Excused \subseteq Excused'
             /\ f'.passed = f.passed /\ f.phase # "idle" /\ f'.phase # "idle"
  BY <1>4, LeftOutKeeps, SkipKeeps
<1>5. ASSUME NEW u \in Uids, Accept(u)
      PROVE  /\ IInv' /\ Behind' = Behind /\ Excused' = Excused
             /\ f'.passed = f.passed \cup {Id(u)} /\ Id(u) \in Message /\ f.phase # "idle" /\ f'.phase # "idle"
  BY <1>5, AcceptKeeps
<1>6. CASE FinishFetch
  BY <1>6, FinishFetchKeeps
<1>7. CASE Fail
  BY <1>7, FailKeeps
<1>8. ASSUME NEW u \in Uids, Refuse(u)
      PROVE  /\ IInv' /\ f.phase # "idle" /\ f'.phase = "idle" /\ f'.passed = {} /\ Excused \subseteq Excused'
             /\ Behind' \subseteq Behind \cup f.passed \cup Excused'
  BY <1>8, RefuseKeeps
<1> QED BY <1>1, <1>2, <1>3, <1>4, <1>5, <1>6, <1>7, <1>8 DEF Next, Fetch

\* The invariant is inductive: what Fetch has gone past in a mailbox is settled, in
\* whatever order mail comes, goes, is renumbered or refused.
THEOREM Invariance == Spec => []IInv
<1>1. IInv /\ [Next]_vars => IInv'
  BY Step
<1> QED BY <1>1, InvInit, PTL DEF Spec

\* Cursors, UIDs and the seen list stay within their ranges (imap.go, state.go).
THEOREM TypeCorrect == Spec => []TypeOK
<1>1. IInv => TypeOK
  BY DEF IInv
<1> QED BY <1>1, Invariance, PTL

\* Fetch is an implementation of provider.Provider.Fetch, as the pipeline relies on
\* it: nothing gets behind the saved cursor but what the callback accepted, refused
\* or was never asked about because it is gone or outside the window.
THEOREM FetchImplementsContract == Spec => FetchContract
<1>1. Init => Contract!Init
  <2> SUFFICES ASSUME Init PROVE Contract!Init
    OBVIOUS
  <2>1. /\ validity = [b \in Boxes |-> 1] /\ uidnext = [b \in Boxes |-> 1]
        /\ cursor = NoCursor /\ seen = <<>> /\ f = Idle /\ excluded = {} /\ refused = {}
    BY DEF Init
  <2>2. \A m \in Message : m.box \in Boxes /\ m.validity \in Nat \ {0} /\ m.uid \in Nat \ {0}
    <3>1. \A m \in Message : m.validity \in 1 .. MaxValidity
      BY DEF Message
    <3>2. 1 .. MaxValidity \subseteq Nat \ {0}
      BY Ranges
    <3> QED BY <3>1, <3>2, MessageType, Ranges
  <2>3. ASSUME NEW m \in Message
        PROVE  ~Covered(m) /\ ~(m.validity < validity[m.box]) /\ ~(m.uid < uidnext[m.box])
    <3>1. cursor[m.box] = [validity |-> 0, last |-> 0] /\ validity[m.box] = 1 /\ uidnext[m.box] = 1
      BY <2>1, <2>2 DEF NoCursor
    <3> QED BY <2>2, <3>1 DEF Covered
  <2>4. Behind = {} /\ Gone = {}
    <3>1. SeenIds = {}
      BY <2>1 DEF SeenIds
    <3> QED BY <2>3, <3>1 DEF Behind, Gone
  <2> QED BY <2>1, <2>4, IdleType DEF Contract!Init
<1>2. IInv /\ [Next]_vars => [Contract!Next]_(Contract!vars)
  <2> SUFFICES ASSUME IInv, [Next]_vars PROVE [Contract!Next]_(Contract!vars)
    OBVIOUS
  <2>1. IInv'
    BY Step
  <2>2. Excused' \in SUBSET Message /\ Behind' \in SUBSET Message
    <3>1. excluded' \subseteq Message /\ refused' \subseteq Message /\ seen' \in Seq(Message)
      BY <2>1 DEF IInv, TypeOK
    <3>2. SeenIds' \subseteq Message
      BY <3>1 DEF SeenIds
    <3> QED BY <3>1, <3>2 DEF Excused, Gone, Behind
  <2> QED BY <2>2, Step DEF Contract!Next, Contract!vars, Contract!Excuse, Contract!Start, Contract!Pass,
                           Contract!Return, Excused
<1> QED BY <1>1, <1>2, Invariance, PTL DEF Spec, FetchContract, Contract!Spec

\* imap.go:352-368: a message behind the saved cursor is never handed over again,
\* although `n:*` makes the server send it and its seen id may have been evicted.
THEOREM NothingComesTwice == Spec => NothingTwice
<1>1. IInv /\ [Next]_vars => [\A m \in f'.passed \ f.passed : m \notin Behind]_vars
  <2> SUFFICES ASSUME IInv, Next, NEW m \in f'.passed \ f.passed PROVE m \notin Behind
    OBVIOUS
  <2>1. ASSUME NEW u \in Uids, Accept(u)
        PROVE  m \notin Behind
    <3>1. m = Id(u) /\ f.phase = "deliver" /\ ~(u <= f.last) /\ Id(u) \notin SeenIds
      <4>1. Arrives(u) /\ ~NotNew(u) /\ f'.passed = f.passed \cup {Id(u)}
        BY <2>1, AcceptKeeps DEF Accept
      <4>2. f.phase = "deliver"
        BY <4>1 DEF Arrives
      <4> QED BY <4>1, <4>2 DEF NotNew
    <3>2. /\ f.at \in Boxes /\ f.validity = validity[f.at]
          /\ f.last = IF cursor[f.at].validity = f.validity THEN cursor[f.at].last ELSE 0
      BY <3>1 DEF IInv, Selection, AtBox
    <3>3. m.box = f.at /\ m.validity = f.validity /\ m.uid = u
      BY <3>1, <3>2, IdType DEF IInv
    <3>4. ~Covered(m)
      BY <3>1, <3>2, <3>3 DEF Covered
    <3> QED BY <3>1, <3>4 DEF Behind
  <2>2. f.passed = f'.passed \/ f'.passed = {} \/ \E u \in Uids : Accept(u)
    BY ServerKeeps, BeginKeeps, ExamineKeeps, SearchKeeps, AskRangeKeeps, AskFoundKeeps, FinishMailboxKeeps,
       LeftOutKeeps, SkipKeeps, FinishFetchKeeps, FailKeeps, RefuseKeeps DEF Next, Fetch
  <2> QED BY <2>1, <2>2
<1> QED BY <1>1, Invariance, PTL DEF Spec, NothingTwice

\* imap.go:159: whenever a cursor moves, all that the Fetch delivered is behind it, in
\* the mailboxes that were finished and in the one a stop interrupted.
THEOREM ProgressIsKept == Spec => ProgressKept
<1>1. IInv /\ [Next]_vars => [cursor' # cursor => f.passed \subseteq Behind']_vars
  <2> SUFFICES ASSUME IInv, Next, cursor' # cursor PROVE f.passed \subseteq Behind'
    OBVIOUS
  <2>1. CASE FinishFetch
    BY <2>1, FinishFetchKeeps
  <2>2. ASSUME NEW u \in Uids, Refuse(u)
        PROVE  f.passed \subseteq Behind'
    BY <2>2, RefuseKeeps
  <2>3. FinishFetch \/ \E u \in Uids : Refuse(u)
    BY DEF Next, Fetch, Server, NewMail, Rebuild, Expunge, Age, Settle, Begin, Examine, Search, AskRange, AskFound,
           LeftOut, Skip, Accept, FinishMailbox, Fail, disk
  <2> QED BY <2>1, <2>2, <2>3
<1> QED BY <1>1, Invariance, PTL DEF Spec, ProgressKept
==============================================================================
