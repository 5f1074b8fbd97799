--------------------------- MODULE GmailFetchProofs ---------------------------
(***************************************************************************)
(* Proofs about GmailFetch, for any amount of mail, pages of any size, any *)
(* overlap, lookback and seen list.                                        *)
(*                                                                         *)
(* The argument.  A Fetch carries the saved cursor with it, or has dropped *)
(* its history half (Carried).  Mail below the watermark it is going to    *)
(* save is behind the saved cursor, still to be handed over, accepted or   *)
(* left out for a reason (Reached); mail above it arrived after the clock  *)
(* was read, and so is dated within the overlap of it (Ahead).  The two    *)
(* halves of a cursor therefore agree, which in turn is why a recovery     *)
(* scan that starts at one half misses nothing behind the other.           *)
(***************************************************************************)
EXTENDS GmailFetch, WellFoundedInduction, FiniteSetTheorems, SequenceTheorems, TLAPS

Excused == gone \cup windowed \cup shielded

\* No watermark is ahead of what it was read from.
Watermarks ==
  /\ cursor.synced <= now /\ cursor.history <= arrived + 1
  /\ f.sampled <= now /\ f.next <= arrived + 1

\* What a running Fetch has of the saved state.
Carried ==
  /\ f.phase = "idle" => f = Idle
  /\ f.phase # "idle" =>
       /\ f.sampled > 0
       /\ f.out.synced = cursor.synced /\ f.out.history \in {0, cursor.history}
       /\ ToSet(f.out.seen) \subseteq ToSet(cursor.seen) \cup f.passed
       /\ ToSet(f.accounted) \subseteq f.passed
  /\ f.firstEver => cursor.synced = 0

\* Mail a Fetch has dealt with or is going to, as far as it has listed.
Reached(m) ==
  \/ f.phase = "history" /\ m < f.at
  \/ f.phase = "list" /\ f.at <= m /\ m < f.next
  \/ f.phase = "download" /\ m < f.next

Listed ==
  /\ \A m \in 1 .. arrived : Reached(m) => m \in Behind \cup f.ids \cup f.passed \cup Excused
  /\ f.phase = "history" => f.out.history > 0 /\ f.at \in f.out.history .. (arrived + 1)
  /\ f.phase = "list" /\ ~f.firstEver => f.after = 0 \/ f.after + Overlap <= cursor.synced

\* Mail beyond the watermark a Fetch is going to save.
Ahead ==
  f.phase \in {"list", "download"} =>
    /\ f.next > 0
    /\ \A m \in 1 .. arrived : f.next <= m => f.sampled <= date[m] + Overlap

\* A cursor that was ever saved came with a time.
Timed == ~Legacy => (rooted => cursor.synced > 0) /\ (cursor.history > 0 => rooted)

IInv == TypeOK /\ Watermarks /\ Carried /\ Listed /\ Ahead /\ NoBlindWindow /\ Timed
-----------------------------------------------------------------------------
(* The seen list.                                                          *)

\* A set of naturals has a least element.
LEMMA LeastNatural ==
  ASSUME NEW S \in SUBSET Nat, S # {}
  PROVE  \E n \in S : \A m \in S : n <= m
<1>1. PICK n \in S : \A m \in S : <<m, n>> \notin OpToRel(<, Nat)
  BY WFMin, NatLessThanWellFounded, Zenon
<1>2. \A m \in S : ~(m < n)
  BY <1>1 DEF OpToRel
<1> QED BY <1>2

\* A set of naturals with a bound has a greatest element: the least of its bounds.
LEMMA GreatestUpTo ==
  ASSUME NEW k \in Nat, NEW S \in SUBSET (1 .. k), S # {}
  PROVE  \E n \in S : \A m \in S : m <= n
<1> DEFINE B == {n \in Nat : \A m \in S : m <= n}
<1>1. k \in B
  OBVIOUS
<1>2. PICK n \in B : \A b \in B : n <= b
  <2> HIDE DEF B
  <2> QED BY <1>1, LeastNatural, B \in SUBSET Nat DEF B
<1>3. n \in S
  <2> SUFFICES ASSUME n \notin S PROVE FALSE
    OBVIOUS
  <2>1. PICK s \in S : TRUE
    <3> HIDE DEF B
    <3> QED OBVIOUS
  <2>2. n \in Nat /\ n # 0
    BY s \in 1 .. k, s <= n
  <2>3. \A m \in S : m \in Nat /\ m <= n /\ m # n
    OBVIOUS
  <2>4. \A m \in S : m <= n - 1
    <3> HIDE DEF B
    <3> QED BY <2>2, <2>3
  <2>5. n - 1 \in B
    BY <2>2, <2>4
  <2>6. n <= n - 1
    BY <1>2, <2>5
  <2> HIDE DEF B
  <2> QED BY <2>2, <2>6
<1> QED BY <1>3

\* Induction, with a set for the property.
LEMMA SetInduction ==
  ASSUME NEW T \in SUBSET Nat, 0 \in T, \A n \in T : n + 1 \in T
  PROVE  T = Nat
<1> SUFFICES ASSUME Nat \ T # {} PROVE FALSE
  OBVIOUS
<1>1. PICK n \in Nat \ T : \A m \in Nat \ T : n <= m
  BY LeastNatural
<1> QED BY <1>1, n - 1 \in Nat

\* Marking one id adds it at most, and stays within the limit.
LEMMA MarkSeenFacts ==
  ASSUME NEW ids \in Seq(Message), Len(ids) <= MaxSeenIDs, NEW m \in Message
  PROVE  /\ MarkSeen(ids, m) \in Seq(Message) /\ Len(MarkSeen(ids, m)) <= MaxSeenIDs
         /\ ToSet(MarkSeen(ids, m)) \subseteq ToSet(ids) \cup {m}
<1> DEFINE all == Append(ids, m)
<1>1. all \in Seq(Message) /\ Len(all) = Len(ids) + 1 /\ all # <<>>
  OBVIOUS
<1>2. \A i \in 1 .. Len(all) : all[i] \in ToSet(ids) \cup {m}
  BY DEF ToSet
<1> HIDE DEF all
<1>3. /\ Tail(all) \in Seq(Message) /\ Len(Tail(all)) = Len(all) - 1
      /\ \A i \in 1 .. Len(Tail(all)) : Tail(all)[i] = all[i + 1]
  BY <1>1, HeadTailProperties
<1>4. ToSet(all) \subseteq ToSet(ids) \cup {m}
  BY <1>1, <1>2 DEF ToSet
<1>5. ToSet(Tail(all)) \subseteq ToSet(ids) \cup {m}
  BY <1>1, <1>2, <1>3 DEF ToSet
<1>6. MarkSeen(ids, m) = IF m \in ToSet(ids) THEN ids ELSE IF Len(all) <= MaxSeenIDs THEN all ELSE Tail(all)
  BY DEF MarkSeen, all
<1>7. Len(ids) \in Nat /\ MaxSeenIDs \in Nat
  BY BoundAssumption
<1>8. CASE m \in ToSet(ids)
  BY <1>6, <1>8
<1>9. CASE m \notin ToSet(ids) /\ Len(all) <= MaxSeenIDs
  BY <1>1, <1>4, <1>6, <1>9
<1>10. CASE m \notin ToSet(ids) /\ ~(Len(all) <= MaxSeenIDs)
  <2>1. MarkSeen(ids, m) = Tail(all)
    BY <1>6, <1>10
  <2> QED BY <1>1, <1>3, <1>5, <1>7, <2>1
<1> QED BY <1>8, <1>9, <1>10

\* The loop runs: the function that stands for it exists.
LEMMA MarkAllUnfolds ==
  ASSUME NEW ids, NEW ms \in Seq(Message)
  PROVE  \E marked :
           /\ marked = [i \in 0 .. Len(ms) |-> IF i = 0 THEN ids ELSE MarkSeen(marked[i - 1], ms[i])]
           /\ MarkAll(ids, ms) = marked[Len(ms)]
<1> DEFINE Runs(n, g) == g = [i \in 0 .. n |-> IF i = 0 THEN ids ELSE MarkSeen(g[i - 1], ms[i])]
           T == {n \in Nat : \E g : Runs(n, g)}
<1>1. 0 \in T
  <2> DEFINE g == [i \in 0 .. 0 |-> ids]
  <2>1. Runs(0, g)
    OBVIOUS
  <2> QED BY <2>1
<1>2. ASSUME NEW n \in T
      PROVE  n + 1 \in T
  <2>1. PICK g : Runs(n, g)
    OBVIOUS
  <2> DEFINE h == [i \in 0 .. (n + 1) |-> IF i <= n THEN g[i] ELSE MarkSeen(g[n], ms[n + 1])]
  <2>2. ASSUME NEW i \in 0 .. (n + 1)
        PROVE  h[i] = IF i = 0 THEN ids ELSE MarkSeen(h[i - 1], ms[i])
    <3>1. CASE i = 0
      BY <2>1, <3>1
    <3>2. CASE i \in 1 .. n
      <4>1. i - 1 \in 0 .. n /\ h[i - 1] = g[i - 1] /\ h[i] = g[i]
        BY <3>2
      <4>2. g[i] = MarkSeen(g[i - 1], ms[i])
        BY <2>1, <3>2
      <4> QED BY <3>2, <4>1, <4>2
    <3>3. CASE i = n + 1
      BY <3>3
    <3> QED BY <3>1, <3>2, <3>3
  <2>3. Runs(n + 1, h)
    BY <2>2
  <2> HIDE DEF Runs
  <2> QED BY <2>3
<1>3. T = Nat
  <2> HIDE DEF T
  <2>1. T \in SUBSET Nat
    BY DEF T
  <2> QED BY <1>1, <1>2, <2>1, SetInduction
<1>4. Len(ms) \in T
  BY <1>3
<1> DEFINE marked == CHOOSE g : Runs(Len(ms), g)
<1>5. Runs(Len(ms), marked)
  BY <1>4
<1>6. MarkAll(ids, ms) = marked[Len(ms)]
  BY DEF MarkAll
<1> HIDE DEF marked
<1> QED BY <1>5, <1>6

\* Marking a list of ids adds those at most, and stays within the limit.
LEMMA MarkAllFacts ==
  ASSUME NEW ids \in Seq(Message), Len(ids) <= MaxSeenIDs, NEW ms \in Seq(Message)
  PROVE  /\ MarkAll(ids, ms) \in Seq(Message) /\ Len(MarkAll(ids, ms)) <= MaxSeenIDs
         /\ ToSet(MarkAll(ids, ms)) \subseteq ToSet(ids) \cup ToSet(ms)
<1>1. PICK marked :
        /\ marked = [i \in 0 .. Len(ms) |-> IF i = 0 THEN ids ELSE MarkSeen(marked[i - 1], ms[i])]
        /\ MarkAll(ids, ms) = marked[Len(ms)]
  BY MarkAllUnfolds
<1> DEFINE Good(s) == s \in Seq(Message) /\ Len(s) <= MaxSeenIDs /\ ToSet(s) \subseteq ToSet(ids) \cup ToSet(ms)
           T == {n \in Nat : n <= Len(ms) => Good(marked[n])}
<1>2. 0 \in T
  BY <1>1
<1>3. ASSUME NEW n \in T
      PROVE  n + 1 \in T
  <2> SUFFICES ASSUME n + 1 <= Len(ms) PROVE Good(marked[n + 1])
    OBVIOUS
  <2>1. Good(marked[n])
    OBVIOUS
  <2>2. ms[n + 1] \in Message /\ ms[n + 1] \in ToSet(ms)
    BY DEF ToSet
  <2>3. marked[n + 1] = MarkSeen(marked[n], ms[n + 1])
    BY <1>1
  <2> QED BY <2>1, <2>2, <2>3, MarkSeenFacts
<1>4. T = Nat
  <2> HIDE DEF T
  <2>1. T \in SUBSET Nat
    BY DEF T
  <2> QED BY <1>2, <1>3, <2>1, SetInduction
<1>5. Len(ms) \in T
  BY <1>4
<1> QED BY <1>1, <1>5
-----------------------------------------------------------------------------
(* Types.                                                                  *)

LEMMA Ranges ==
  /\ 0 \in 0 .. MaxTime /\ 0 \in 0 .. (MaxMail + 1) /\ 0 \in 0 .. MaxMail
  /\ 1 \in Times /\ Times \subseteq 0 .. MaxTime
  /\ \A n \in 0 .. MaxMail : n + 1 \in 0 .. (MaxMail + 1)
  /\ MaxMail + 1 \in 0 .. (MaxMail + 1)
BY BoundAssumption DEF Times

LEMMA IdleType ==
  /\ Idle \in FetchState /\ Idle.out \in SyncState
  /\ Idle.out.seen = <<>> /\ Len(Idle.out.seen) = 0 /\ Idle.out.history = 0 /\ Idle.out.synced = 0
<1>1. <<>> \in Seq(Message) /\ Len(<<>>) = 0
  OBVIOUS
<1> QED BY <1>1, Ranges DEF Idle, FetchState, SyncState, Phases

LEMMA Fields ==
  ASSUME TypeOK
  PROVE  /\ arrived \in 0 .. MaxMail /\ arrived \in Nat /\ now \in 1 .. MaxTime /\ now \in 0 .. MaxTime
         /\ oldest \in 0 .. (MaxMail + 1) /\ date \in [Message -> 0 .. MaxTime]
         /\ 1 .. arrived \subseteq Message /\ Message \subseteq Nat \ {0}
         /\ gone \subseteq Message /\ junk \subseteq Message /\ windowed \subseteq Message /\ shielded \subseteq Message
         /\ cursor \in SyncState /\ cursor.history \in 0 .. (MaxMail + 1) /\ cursor.synced \in 0 .. MaxTime
         /\ cursor.seen \in Seq(Message) /\ Len(cursor.seen) <= MaxSeenIDs
         /\ f \in FetchState /\ f.phase \in Phases /\ f.firstEver \in BOOLEAN
         /\ f.out \in SyncState /\ f.out.history \in 0 .. (MaxMail + 1) /\ f.out.synced \in 0 .. MaxTime
         /\ f.out.seen \in Seq(Message) /\ Len(f.out.seen) <= MaxSeenIDs
         /\ f.sampled \in 0 .. MaxTime /\ f.next \in 0 .. (MaxMail + 1) /\ f.after \in 0 .. MaxTime
         /\ f.at \in 0 .. (MaxMail + 1) /\ f.ids \subseteq Message /\ f.passed \subseteq Message
         /\ f.accounted \in Seq(Message)
<1>1. f \in FetchState /\ cursor \in SyncState
  BY DEF TypeOK
<1>2. f.out \in SyncState
  BY <1>1 DEF FetchState
<1>3. arrived \in Nat /\ 1 .. arrived \subseteq Message /\ Message \subseteq Nat \ {0}
  BY BoundAssumption DEF TypeOK, Message
<1>4. now \in 1 .. MaxTime /\ now \in 0 .. MaxTime
  BY BoundAssumption DEF TypeOK, Times
<1>5. /\ cursor.history \in 0 .. (MaxMail + 1) /\ cursor.synced \in 0 .. MaxTime /\ cursor.seen \in Seq(Message)
      /\ f.out.history \in 0 .. (MaxMail + 1) /\ f.out.synced \in 0 .. MaxTime /\ f.out.seen \in Seq(Message)
  BY <1>1, <1>2 DEF SyncState
<1>6. /\ f.phase \in Phases /\ f.firstEver \in BOOLEAN
      /\ f.sampled \in 0 .. MaxTime /\ f.next \in 0 .. (MaxMail + 1) /\ f.after \in 0 .. MaxTime
      /\ f.at \in 0 .. (MaxMail + 1) /\ f.ids \subseteq Message /\ f.passed \subseteq Message
      /\ f.accounted \in Seq(Message)
  BY <1>1 DEF FetchState
<1>7. gone \subseteq Message /\ junk \subseteq Message
  BY <1>3 DEF TypeOK
<1> QED BY <1>1, <1>2, <1>3, <1>4, <1>5, <1>6, <1>7 DEF TypeOK

LEMMA InitType == Init => TypeOK
<1> SUFFICES ASSUME Init PROVE TypeOK
  OBVIOUS
<1>1. f = Idle /\ f \in FetchState /\ Len(f.out.seen) <= MaxSeenIDs
  BY IdleType, BoundAssumption DEF Init
<1>2. arrived \in 0 .. MaxMail /\ rooted \in BOOLEAN /\ cursor \in SyncState /\ Len(cursor.seen) <= MaxSeenIDs
  <2>1. CASE NoState
    <3>1. 0 <= MaxSeenIDs
      BY BoundAssumption
    <3> QED BY <2>1, <3>1, IdleType, Ranges DEF NoState
  <2>2. CASE LegacyState
    <3>1. <<>> \in Seq(Message) /\ Len(<<>>) = 0
      OBVIOUS
    <3>2. 2 \in 0 .. (MaxMail + 1) /\ 1 \in 0 .. MaxMail
      BY <2>2, BoundAssumption, OptionAssumption DEF LegacyState
    <3> QED BY <2>2, <3>1, <3>2, Ranges, BoundAssumption DEF LegacyState, SyncState
  <2> QED BY <2>1, <2>2 DEF Init
<1>3. date \in [Message -> 0 .. MaxTime]
  <2>1. 0 \in 0 .. MaxTime /\ 1 \in 0 .. MaxTime
    BY BoundAssumption
  <2> QED BY <2>1 DEF Init
<1> QED BY <1>1, <1>2, <1>3, Ranges DEF Init, TypeOK

\* What is saved is a state.
LEMMA SaveType ==
  ASSUME TypeOK, NEW out \in SyncState, Len(out.seen) <= MaxSeenIDs, Save(out)
  PROVE  /\ cursor' \in SyncState /\ Len(cursor'.seen) <= MaxSeenIDs
         /\ f' = Idle /\ rooted' \in BOOLEAN
<1>1. f.accounted \in Seq(Message) /\ out.seen \in Seq(Message)
  BY DEF TypeOK, FetchState, SyncState
<1>2. MarkAll(out.seen, f.accounted) \in Seq(Message) /\ Len(MarkAll(out.seen, f.accounted)) <= MaxSeenIDs
  BY <1>1, MarkAllFacts
<1> QED BY <1>2 DEF Save, TypeOK, SyncState

\* A page of a scan: where the next one starts, and what is left out between.
LEMMA ListPageFacts ==
  ASSUME TypeOK, ListPage
  PROVE  LET older == {m \in 1 .. arrived : m < f.at} \ gone
             found == {m \in older : InBounds(m) /\ (include \/ m \notin junk)}
         IN /\ f' \in FetchState
            /\ f' = [f EXCEPT !.phase = f'.phase, !.at = f'.at, !.ids = f'.ids]
            /\ f'.phase \in {"list", "download"}
            /\ windowed' \subseteq Message /\ windowed \subseteq windowed'
            /\ shielded' \subseteq Message /\ shielded \subseteq shielded'
            /\ ~f.firstEver => windowed' = windowed
            /\ f.ids \subseteq f'.ids \cup ToSet(f.out.seen)
            /\ \A m \in older : f'.phase = "list" => (f'.at <= m /\ m \in found => m \in f'.ids)
            /\ \A m \in found : f'.phase = "download" => m \in f'.ids \cup ToSet(f.out.seen)
            /\ \A m \in older \ found : 
                 f'.phase = "download" \/ f'.at <= m =>
                    IF InBounds(m) THEN m \in shielded' ELSE f.firstEver => m \in windowed'
<1> DEFINE older == {m \in 1 .. arrived : m < f.at} \ gone
           found == {m \in older : InBounds(m) /\ (include \/ m \notin junk)}
           Newer(m) == {k \in found : k > m}
           page  == {m \in found : Cardinality(Newer(m)) < PageSize}
           last  == page = found
           ids   == f.ids \cup page
           first == CHOOSE k \in page : \A m \in page : k <= m
           left  == {m \in older \ found : last \/ \E k \in page : m > k}
<1>0. f \in FetchState /\ f.ids \subseteq Message /\ older \subseteq Message /\ found \subseteq older /\ page \subseteq found
      /\ arrived \in Nat
  BY Fields
<1>1. /\ f.phase = "list"
      /\ f' = [f EXCEPT !.phase = IF last THEN "download" ELSE @,
                        !.at = IF last THEN 0 ELSE first,
                        !.ids = IF last THEN Pending(ids, f.out) ELSE ids]
      /\ windowed' = windowed \cup {m \in left : f.firstEver /\ ~InBounds(m)}
      /\ shielded' = shielded \cup {m \in left : InBounds(m)}
  BY DEF ListPage
<1>2. ASSUME ~last
      PROVE  /\ first \in page /\ \A m \in page : first <= m
             /\ \A m \in found : first <= m => m \in page
  <2>1. IsFiniteSet(found) /\ \A m \in found : IsFiniteSet(Newer(m)) /\ Newer(m) \subseteq found
    <3>1. IsFiniteSet(1 .. arrived)
      BY <1>0, FS_Interval
    <3>2. found \in SUBSET (1 .. arrived) /\ \A m \in found : Newer(m) \in SUBSET (1 .. arrived)
      OBVIOUS
    <3> QED BY <3>1, <3>2, FS_Subset
  <2>2. page # {}
    <3>1. found # {} /\ found \in SUBSET (1 .. arrived)
      BY <1>2
    <3>2. PICK m \in found : \A k \in found : k <= m
      <4> HIDE DEF found
      <4> QED BY <1>0, <3>1, GreatestUpTo
    <3>3. Newer(m) = {}
      BY <3>2
    <3> QED BY <3>2, <3>3, FS_EmptySet, BoundAssumption
  <2>3. \E k \in page : \A m \in page : k <= m
    <3>1. page \in SUBSET Nat
      OBVIOUS
    <3> HIDE DEF page
    <3> QED BY <2>2, <3>1, LeastNatural
  <2>4. first \in page /\ \A m \in page : first <= m
    <3> HIDE DEF page
    <3> QED BY <2>3
  <2>5. ASSUME NEW m \in found, first <= m
        PROVE  m \in page
    <3>1. first \in Nat /\ m \in Nat /\ Newer(m) \in SUBSET Newer(first)
      <4>1. found \subseteq 1 .. arrived /\ page \subseteq found
        OBVIOUS
      <4>2. first \in 1 .. arrived /\ m \in 1 .. arrived
        BY <2>4, <4>1
      <4>3. first \in Nat /\ m \in Nat
        BY <1>0, <4>2
      <4>4. \A k \in found : k \in Nat
        BY <1>0, <4>1
      <4>5. ASSUME NEW k \in found, k > m
            PROVE  k > first
        <5> HIDE DEF found, first, page
        <5>1. k \in Nat /\ first <= m
          BY <2>5, <4>4
        <5> QED BY <4>3, <4>5, <5>1
      <4> HIDE DEF found, first, page
      <4> QED BY <4>3, <4>5
    <3>2. Cardinality(Newer(m)) <= Cardinality(Newer(first)) /\ Cardinality(Newer(first)) < PageSize
      BY <1>0, <2>1, <2>4, <3>1, FS_Subset
    <3>3. Cardinality(Newer(m)) \in Nat /\ Cardinality(Newer(first)) \in Nat
      BY <1>0, <2>1, <2>4, FS_CardinalityType
    <3> QED BY <2>5, <3>2, <3>3, BoundAssumption
  <2> QED BY <2>4, <2>5
<1> HIDE DEF first, page, found, older
<1>3. f' \in FetchState
  <2>1. ids \subseteq Message /\ Pending(ids, f.out) \subseteq Message
    BY <1>0 DEF Pending
  <2>2. ~last => first \in 0 .. (MaxMail + 1)
    <3> SUFFICES ASSUME ~last PROVE first \in 0 .. (MaxMail + 1)
      OBVIOUS
    <3>1. first \in Message
      BY <1>0, <1>2
    <3> QED BY <3>1, BoundAssumption DEF Message
  <2>3. (IF last THEN 0 ELSE first) \in 0 .. (MaxMail + 1)
    BY <2>2, Ranges
  <2>4. (IF last THEN "download" ELSE f.phase) \in Phases
    BY <1>1 DEF Phases
  <2>5. (IF last THEN Pending(ids, f.out) ELSE ids) \in SUBSET Message
    BY <2>1
  <2> HIDE DEF ids, last
  <2> QED BY <1>0, <1>1, <2>3, <2>4, <2>5 DEF FetchState
<1>4. /\ f'.phase = IF last THEN "download" ELSE "list"
      /\ f'.at = IF last THEN 0 ELSE first
      /\ f'.ids = IF last THEN Pending(ids, f.out) ELSE ids
      /\ f' = [f EXCEPT !.phase = f'.phase, !.at = f'.at, !.ids = f'.ids]
  BY <1>0, <1>1 DEF FetchState
<1>5. /\ windowed' \subseteq Message /\ windowed \subseteq windowed'
      /\ shielded' \subseteq Message /\ shielded \subseteq shielded'
      /\ ~f.firstEver => windowed' = windowed
  BY <1>0, <1>1 DEF TypeOK
<1>6. f.ids \subseteq f'.ids \cup ToSet(f.out.seen)
  BY <1>4 DEF Pending
<1>7. ASSUME NEW m \in found
      PROVE  /\ f'.phase = "list" /\ f'.at <= m => m \in f'.ids
             /\ f'.phase = "download" => m \in f'.ids \cup ToSet(f.out.seen)
  BY <1>2, <1>4 DEF Pending
<1>8. ASSUME NEW m \in older \ found, f'.phase = "download" \/ f'.at <= m
      PROVE  m \in left
  <2>1. CASE last
    BY <2>1
  <2>2. CASE ~last
    <3>1. first \in page /\ first <= m /\ first # m
      <4>1. first \in page /\ first \in found
        BY <1>0, <1>2, <2>2
      <4>2. first <= m
        BY <1>4, <1>8, <2>2
      <4> QED BY <1>8, <4>1, <4>2
    <3>2. first < m
      <4>1. first \in Nat /\ m \in Nat
        BY <1>0, <3>1, Fields
      <4> QED BY <3>1, <4>1
    <3> QED BY <3>1, <3>2
  <2> QED BY <2>1, <2>2
<1>9. ASSUME NEW m \in left
      PROVE  IF InBounds(m) THEN m \in shielded' ELSE f.firstEver => m \in windowed'
  BY <1>1
<1> HIDE DEF left
<1>10. f'.phase \in {"list", "download"}
  BY <1>4
<1> QED BY <1>3, <1>4, <1>5, <1>6, <1>7, <1>8, <1>9, <1>10 DEF found, older

LEMMA TypeStep ==
  ASSUME TypeOK, Listed, [Next]_vars
  PROVE  TypeOK'
<1>0. f \in FetchState /\ f.out \in SyncState /\ Idle \in FetchState /\ Len(Idle.out.seen) <= MaxSeenIDs
  BY IdleType, Fields, BoundAssumption
<1>1. CASE Arrive
  <2>1. /\ arrived' \in 0 .. MaxMail /\ 1 .. arrived \subseteq 1 .. arrived' /\ arrived + 1 \in 1 .. arrived'
        /\ arrived + 1 \notin 1 .. arrived
    BY <1>1, BoundAssumption DEF Arrive, TypeOK
  <2>2. date' \in [Message -> 0 .. MaxTime]
    BY <1>1, Ranges DEF Arrive, TypeOK
  <2>3. gone' \subseteq 1 .. arrived' /\ junk' \subseteq 1 .. arrived' \ gone'
    BY <1>1, <2>1 DEF Arrive, TypeOK
  <2> QED BY <1>1, <2>1, <2>2, <2>3 DEF Arrive, TypeOK, history
<1>2. ASSUME NEW m \in Message, Delete(m)
      PROVE  TypeOK'
  BY <1>2 DEF Delete, TypeOK, history
<1>3. ASSUME NEW m \in Message, Relabel(m)
      PROVE  TypeOK'
  BY <1>3 DEF Relabel, TypeOK, history
<1>4. CASE Expire
  <2>1. arrived + 1 \in 0 .. (MaxMail + 1)
    BY Ranges DEF TypeOK
  <2> QED BY <1>4, <2>1 DEF Expire, TypeOK, history
<1>5. CASE Tick
  <2>1. now' \in Times
    BY <1>5, BoundAssumption DEF Tick, TypeOK, Times
  <2> QED BY <1>5, <2>1 DEF Tick, TypeOK, history
<1>6. CASE Settle
  BY <1>6 DEF Settle, TypeOK, history
<1>7. CASE Begin
  <2>1. cursor \in SyncState /\ cursor.history \in 0 .. (MaxMail + 1) /\ now \in Times
    BY DEF TypeOK, SyncState
  <2>2. f' \in FetchState /\ f'.out = cursor
    BY <1>0, <1>7, <2>1, Ranges DEF Begin, FetchState, Phases
  <2> QED BY <1>7, <2>2 DEF Begin, TypeOK, history, mailbox
<1>8. CASE HistoryExpired
  <2>1. [f.out EXCEPT !.history = 0] \in SyncState
    BY <1>0, Ranges DEF SyncState
  <2>2. f' = [f EXCEPT !.phase = "profile", !.out = [f.out EXCEPT !.history = 0], !.sampled = now,
                       !.next = 0, !.at = 0, !.ids = {}]
    BY <1>0, <1>8 DEF HistoryExpired, FetchState
  <2>3. f' \in FetchState /\ f'.out.seen = f.out.seen
    <3>1. [f.out EXCEPT !.history = 0].seen = f.out.seen
      BY <1>0 DEF SyncState
    <3> QED BY <1>0, <2>1, <2>2, <3>1, Ranges DEF FetchState, Phases, TypeOK
  <2> QED BY <1>8, <2>3 DEF HistoryExpired, TypeOK, history, mailbox
<1>9. CASE HistoryPage
  <2> DEFINE last == f.at + PageSize >= arrived + 1
             to   == IF last THEN arrived + 1 ELSE f.at + PageSize
             ids  == f.ids \cup f.at .. (to - 1)
  <2>1. f.at \in Nat \ {0} /\ f.ids \subseteq Message /\ f.next \in 0 .. (MaxMail + 1) /\ arrived \in 0 .. MaxMail
    <3>1. f.at \in f.out.history .. (arrived + 1) /\ f.out.history > 0
      BY <1>9 DEF HistoryPage, Listed
    <3>2. f.out.history \in Nat
      BY Fields, BoundAssumption
    <3>3. f.at \in Nat \ {0}
      BY <3>1, <3>2
    <3> QED BY <3>3, Fields
  <2>2. to \in 0 .. (MaxMail + 1) /\ ids \subseteq Message /\ Pending(ids, f.out) \subseteq Message
        /\ Larger(f.next, arrived + 1) \in 0 .. (MaxMail + 1)
    BY <2>1, BoundAssumption DEF Pending, Larger, Message
  <2>3. f' = [f EXCEPT !.phase = IF last THEN "download" ELSE @,
                       !.next = Larger(@, arrived + 1), !.at = to,
                       !.ids = IF last THEN Pending(ids, f.out) ELSE ids]
    BY <1>9 DEF HistoryPage
  <2> HIDE DEF last, to, ids
  <2>4. f' \in FetchState /\ f'.out = f.out
    BY <1>0, <2>2, <2>3 DEF FetchState, Phases
  <2> QED BY <1>9, <2>4 DEF HistoryPage, TypeOK, history, mailbox
<1>10. CASE Profile
  <2>1. ScanAfter \in 0 .. MaxTime
    <3>1. f.out.synced \in 0 .. MaxTime /\ now \in 0 .. MaxTime
      BY <1>0, Ranges DEF TypeOK, SyncState
    <3> QED BY <3>1, BoundAssumption, OptionAssumption DEF ScanAfter, Larger
  <2>2. f' \in FetchState /\ f'.out = f.out
    BY <1>0, <1>10, <2>1, Ranges DEF Profile, FetchState, Phases, TypeOK
  <2> QED BY <1>10, <2>2 DEF Profile, TypeOK, history, mailbox
<1>11. CASE ListPage
  <2>1. /\ f' \in FetchState /\ f'.out = f.out
        /\ windowed' \subseteq Message /\ shielded' \subseteq Message
    BY <1>0, <1>11, ListPageFacts DEF FetchState
  <2>2. UNCHANGED <<mailbox, cursor, rooted>>
    BY <1>11 DEF ListPage
  <2> QED BY <2>1, <2>2 DEF TypeOK, mailbox
<1>12. ASSUME NEW m \in Message, Vanish(m)
       PROVE  TypeOK'
  BY <1>0, <1>12 DEF Vanish, TypeOK, history, mailbox, FetchState
<1>13. ASSUME NEW m \in Message, Exclude(m)
       PROVE  TypeOK'
  BY <1>0, <1>13 DEF Exclude, TypeOK, history, mailbox, FetchState
<1>14. ASSUME NEW m \in Message, Accept(m)
       PROVE  TypeOK'
  <2>1. PICK marks \in {<<>>, <<m>>} :
          f' = [f EXCEPT !.ids = @ \ {m}, !.passed = @ \cup {m},
                         !.out.seen = MarkSeen(@, m), !.accounted = @ \o marks]
    BY <1>14 DEF Accept
  <2>2. f.out.seen \in Seq(Message) /\ Len(f.out.seen) <= MaxSeenIDs /\ f.accounted \in Seq(Message)
    BY <1>0 DEF TypeOK, FetchState, SyncState
  <2> DEFINE out == [f.out EXCEPT !.seen = MarkSeen(@, m)]
  <2>3. out \in SyncState /\ Len(out.seen) <= MaxSeenIDs
    <3>1. MarkSeen(f.out.seen, m) \in Seq(Message) /\ Len(MarkSeen(f.out.seen, m)) <= MaxSeenIDs
      BY <2>2, MarkSeenFacts
    <3> QED BY <1>0, <3>1 DEF SyncState
  <2>4. marks \in Seq(Message) /\ f.accounted \o marks \in Seq(Message)
    <3>1. <<>> \in Seq(Message) /\ <<m>> \in Seq(Message)
      OBVIOUS
    <3>2. marks \in Seq(Message)
      BY <2>1, <3>1
    <3> QED BY <2>2, <3>2, ConcatProperties
  <2>5. f' = [f EXCEPT !.ids = @ \ {m}, !.passed = @ \cup {m}, !.out = out, !.accounted = @ \o marks]
    BY <1>0, <2>1 DEF FetchState
  <2> HIDE DEF out
  <2>6. f' \in FetchState /\ f'.out = out
    BY <1>0, <2>3, <2>4, <2>5 DEF FetchState
  <2> QED BY <1>14, <2>3, <2>6 DEF Accept, TypeOK, history, mailbox
<1>15. CASE FinishFetch
  <2> DEFINE out == [f.out EXCEPT !.history = Larger(@, f.next), !.synced = f.sampled]
  <2>1. out \in SyncState /\ Len(out.seen) <= MaxSeenIDs /\ Save(out)
    <3>1. f.sampled \in 0 .. MaxTime /\ Larger(f.out.history, f.next) \in 0 .. (MaxMail + 1)
      BY <1>0 DEF FetchState, SyncState, Larger
    <3> QED BY <1>0, <1>15, <3>1 DEF FinishFetch, TypeOK, SyncState
  <2> HIDE DEF out
  <2>2. /\ cursor' \in SyncState /\ Len(cursor'.seen) <= MaxSeenIDs
        /\ f' = Idle /\ rooted' \in BOOLEAN
    BY <2>1, SaveType
  <2> QED BY <1>0, <1>15, <2>2 DEF FinishFetch, TypeOK, mailbox
<1>16. CASE Fail
  BY <1>0, <1>16 DEF Fail, TypeOK, history, mailbox
<1>17. ASSUME NEW m \in Message, Refuse(m)
       PROVE  TypeOK'
  BY <1>0, <1>17, SaveType DEF Refuse, TypeOK, mailbox
<1>18. CASE UNCHANGED vars
  BY <1>18 DEF vars, TypeOK, history, mailbox
<1> QED BY <1>1, <1>2, <1>3, <1>4, <1>5, <1>6, <1>7, <1>8, <1>9, <1>10, <1>11, <1>12, <1>13, <1>14, <1>15,
           <1>16, <1>17, <1>18 DEF Next, Mailbox, Fetch
-----------------------------------------------------------------------------
(* The mailbox under a Fetch.                                              *)

\* Mail that comes is behind nothing, and beyond every watermark there is.
LEMMA ArriveKeeps ==
  ASSUME IInv, Arrive, TypeOK'
  PROVE  IInv' /\ Behind' = Behind
<1>1. /\ arrived' = arrived + 1 /\ UNCHANGED <<gone, now, cursor, f, windowed, shielded, rooted>>
      /\ \A m \in 1 .. arrived : date'[m] = date[m]
      /\ now <= date'[arrived + 1] + Overlap
  <2>1. PICK d \in Times : now <= d + Overlap /\ date' = [date EXCEPT ![arrived + 1] = d]
    BY DEF Arrive
  <2>2. arrived + 1 \in Message /\ \A m \in 1 .. arrived : m \in Message /\ m # arrived + 1
    BY BoundAssumption DEF Arrive, Message, IInv, TypeOK
  <2>3. date \in [Message -> 0 .. MaxTime]
    BY DEF IInv, TypeOK
  <2>4. date'[arrived + 1] = d /\ \A m \in 1 .. arrived : date'[m] = date[m]
    BY <2>1, <2>2, <2>3
  <2> QED BY <2>1, <2>4 DEF Arrive, history
<1>2. /\ arrived \in Nat /\ arrived + 1 \in Nat /\ now \in Nat /\ cursor.synced \in Nat /\ cursor.history \in Nat
      /\ f.sampled \in Nat /\ f.next \in Nat /\ f.at \in Nat /\ Overlap \in Nat /\ date'[arrived + 1] \in Nat
  <2>1. date'[arrived + 1] \in 0 .. MaxTime
    BY BoundAssumption DEF TypeOK, Arrive, IInv, Message
  <2>2. /\ arrived \in Nat /\ now \in 0 .. MaxTime /\ cursor.synced \in 0 .. MaxTime /\ f.sampled \in 0 .. MaxTime
        /\ cursor.history \in 0 .. (MaxMail + 1) /\ f.next \in 0 .. (MaxMail + 1) /\ f.at \in 0 .. (MaxMail + 1)
    BY Fields DEF IInv
  <2> QED BY <2>1, <2>2, BoundAssumption, OptionAssumption
<1>3. 1 .. arrived' = 1 .. arrived \cup {arrived + 1}
  BY <1>1, <1>2
<1>4. /\ cursor.synced <= now /\ cursor.history <= arrived + 1
      /\ f.sampled <= now /\ f.next <= arrived + 1
  BY DEF IInv, Watermarks
<1>5. f.phase = "history" => f.at <= arrived + 1
  BY <1>2 DEF IInv, Listed
<1>6. Behind' = Behind
  <2>1. ~(arrived + 1 < cursor.history) /\ ~(date'[arrived + 1] + Overlap < cursor.synced)
    BY <1>1, <1>2, <1>4
  <2> QED BY <1>1, <1>3, <2>1 DEF Behind
<1>7. Watermarks'
  BY <1>1, <1>2, <1>4 DEF Watermarks
<1>8. Carried'
  BY <1>1 DEF IInv, Carried
<1>9. Listed'
  <2>1. \A m : Reached(m)' = Reached(m)
    BY <1>1 DEF Reached
  <2>2. ~Reached(arrived + 1)
    BY <1>2, <1>4, <1>5 DEF Reached, IInv, Ahead
  <2>3. Excused' = Excused
    BY <1>1 DEF Excused
  <2>4. f.phase = "history" => f.out.history > 0 /\ f.at \in f.out.history .. (arrived' + 1)
    <3>1. f.out.history \in Nat
      BY Fields, BoundAssumption DEF IInv
    <3> QED BY <1>1, <1>2, <3>1 DEF IInv, Listed
  <2> QED BY <1>1, <1>3, <1>6, <2>1, <2>2, <2>3, <2>4 DEF IInv, Listed
<1>10. Ahead'
  <2>1. f.sampled <= date'[arrived + 1] + Overlap
    BY <1>1, <1>2, <1>4
  <2> QED BY <1>1, <1>3, <2>1 DEF IInv, Ahead
<1>11. NoBlindWindow'
  <2>1. date'[arrived + 1] + Overlap >= cursor.synced
    BY <1>1, <1>2, <1>4
  <2> QED BY <1>1, <1>3, <2>1 DEF IInv, NoBlindWindow
<1>12. Timed'
  BY <1>1 DEF IInv, Timed
<1> QED BY <1>6, <1>7, <1>8, <1>9, <1>10, <1>11, <1>12 DEF IInv

\* Whatever else happens to the mailbox leaves a Fetch and the saved state alone.
LEMMA QuietKeeps ==
  ASSUME IInv, TypeOK', UNCHANGED <<arrived, date, cursor, f, windowed, shielded, rooted>>,
         gone \subseteq gone', now <= now'
  PROVE  IInv' /\ Behind' = Behind
<1>1. Behind' = Behind
  BY DEF Behind
<1>2. Watermarks'
  <2>1. now \in Nat /\ now' \in Nat /\ cursor.synced \in Nat /\ f.sampled \in Nat
    BY Fields, BoundAssumption DEF IInv, TypeOK, Times
  <2> QED BY <2>1 DEF IInv, Watermarks
<1>3. Carried'
  BY DEF IInv, Carried
<1>4. Listed'
  <2>1. \A m : Reached(m)' = Reached(m)
    BY DEF Reached
  <2>2. Excused \subseteq Excused'
    BY DEF Excused
  <2> QED BY <1>1, <2>1, <2>2 DEF IInv, Listed
<1>5. Ahead' /\ NoBlindWindow' /\ Timed'
  BY DEF IInv, Ahead, NoBlindWindow, Timed
<1> QED BY <1>1, <1>2, <1>3, <1>4, <1>5 DEF IInv

LEMMA MailboxKeeps ==
  ASSUME IInv, Mailbox \/ UNCHANGED vars, TypeOK'
  PROVE  IInv' /\ Behind' = Behind /\ f' = f /\ Excused \subseteq Excused'
<1>1. CASE Arrive
  BY <1>1, ArriveKeeps DEF Arrive, Excused, history
<1>2. CASE ~Arrive
  <2>1. UNCHANGED <<arrived, date, cursor, f, windowed, shielded, rooted>> /\ gone \subseteq gone'
    BY <1>2 DEF Mailbox, Expire, Tick, Settle, Delete, Relabel, vars, mailbox, history
  <2>2. now <= now'
    <3>1. now \in Nat
      BY Fields, BoundAssumption DEF IInv
    <3>2. now' = now \/ now' = now + 1
      BY <1>2 DEF Mailbox, Expire, Tick, Settle, Delete, Relabel, vars, mailbox, history
    <3> QED BY <3>1, <3>2
  <2> QED BY <2>1, <2>2, QuietKeeps DEF Excused
<1> QED BY <1>1, <1>2
-----------------------------------------------------------------------------
(* The steps of a Fetch.                                                   *)

\* A step of Fetch before anything is saved changes nothing of the mailbox.
LEMMA Held ==
  ASSUME UNCHANGED <<mailbox, cursor, rooted>>, windowed \subseteq windowed', shielded \subseteq shielded'
  PROVE  /\ UNCHANGED <<arrived, date, gone, now, cursor, rooted>>
         /\ Behind' = Behind /\ Excused \subseteq Excused'
         /\ NoBlindWindow => NoBlindWindow'
         /\ Timed => Timed'
BY DEF mailbox, Behind, Excused, NoBlindWindow, Timed

LEMMA BeginKeeps ==
  ASSUME IInv, Begin, TypeOK'
  PROVE  IInv' /\ Behind' = Behind /\ f.phase = "idle" /\ f'.phase # "idle" /\ f'.passed = {}
<1>0. UNCHANGED <<mailbox, cursor, history>>
  BY DEF Begin
<1>1. /\ UNCHANGED <<arrived, date, gone, now, cursor, rooted>>
      /\ Behind' = Behind /\ Excused \subseteq Excused'
      /\ NoBlindWindow' /\ Timed'
  BY <1>0, Held DEF IInv, history
<1>2. /\ f'.phase = IF cursor.history > 0 THEN "history" ELSE "profile"
      /\ f'.out = cursor /\ f'.firstEver = (~(cursor.history > 0) /\ cursor.synced = 0)
      /\ f'.sampled = now /\ f'.next = cursor.history /\ f'.at = cursor.history
      /\ f'.passed = {} /\ f'.accounted = <<>>
  BY DEF Begin, Idle
<1>3. /\ now \in Nat \ {0} /\ cursor.history \in Nat /\ arrived \in Nat
      /\ cursor.history <= arrived + 1
  BY Fields, BoundAssumption DEF IInv, Watermarks
<1>4. Watermarks'
  BY <1>1, <1>2, <1>3 DEF IInv, Watermarks
<1>5. Carried'
  <2>1. ToSet(f'.accounted) = {}
    BY <1>2 DEF ToSet
  <2>2. f'.phase # "idle" /\ f'.sampled > 0
    BY <1>2, <1>3
  <2>3. /\ f'.out.synced = cursor'.synced /\ f'.out.history = cursor'.history
        /\ ToSet(f'.out.seen) = ToSet(cursor'.seen)
        /\ f'.firstEver => cursor'.synced = 0
    BY <1>1, <1>2
  <2> QED BY <2>1, <2>2, <2>3 DEF Carried
<1>6. Listed'
  <2>1. ASSUME NEW m \in 1 .. arrived, Reached(m)'
        PROVE  m \in Behind
    BY <1>2, <2>1 DEF Reached, Behind
  <2> QED BY <1>1, <1>2, <1>3, <2>1 DEF Listed
<1>7. Ahead'
  BY <1>2 DEF Ahead
<1>8. f.phase = "idle"
  BY DEF Begin
<1> QED BY <1>1, <1>2, <1>4, <1>5, <1>6, <1>7, <1>8 DEF IInv

LEMMA HistoryExpiredKeeps ==
  ASSUME IInv, HistoryExpired, TypeOK'
  PROVE  IInv' /\ Behind' = Behind /\ f'.passed = f.passed /\ f.phase # "idle" /\ f'.phase # "idle"
<1>0. UNCHANGED <<mailbox, cursor, history>>
  BY DEF HistoryExpired
<1>1. /\ UNCHANGED <<arrived, date, gone, now, cursor, rooted>>
      /\ Behind' = Behind /\ NoBlindWindow' /\ Timed'
  BY <1>0, Held DEF IInv, history
<1>2. /\ f.phase = "history" /\ f'.phase = "profile"
      /\ f'.out = [f.out EXCEPT !.history = 0] /\ f'.firstEver = f.firstEver
      /\ f'.sampled = now /\ f'.next = 0 /\ f'.passed = f.passed /\ f'.accounted = f.accounted
  BY Fields DEF HistoryExpired, IInv, FetchState
<1>3. f'.out.history = 0 /\ f'.out.synced = f.out.synced /\ f'.out.seen = f.out.seen
  <2>1. f.out \in SyncState
    BY Fields DEF IInv
  <2> QED BY <1>2, <2>1 DEF SyncState
<1>4. now \in Nat \ {0} /\ arrived \in Nat
  BY Fields, BoundAssumption DEF IInv
<1>5. Watermarks'
  BY <1>1, <1>2, <1>4 DEF IInv, Watermarks
<1>6. Carried'
  BY <1>1, <1>2, <1>3, <1>4 DEF IInv, Carried
<1>7. Listed' /\ Ahead'
  BY <1>2 DEF Listed, Ahead, Reached
<1> QED BY <1>1, <1>2, <1>5, <1>6, <1>7 DEF IInv

\* What is not pending was delivered before, or in this Fetch.
LEMMA NotPending ==
  ASSUME IInv, f.phase # "idle", NEW ids, NEW m \in ids \ Pending(ids, f.out)
  PROVE  m \in Behind \cup f.passed
BY DEF IInv, Carried, Pending, Behind

LEMMA HistoryPageKeeps ==
  ASSUME IInv, HistoryPage, TypeOK'
  PROVE  IInv' /\ Behind' = Behind /\ f'.passed = f.passed /\ f.phase # "idle" /\ f'.phase # "idle"
<1> DEFINE last == f.at + PageSize >= arrived + 1
           to   == IF last THEN arrived + 1 ELSE f.at + PageSize
           ids  == f.ids \cup f.at .. (to - 1)
<1>0. UNCHANGED <<mailbox, cursor, history>>
  BY DEF HistoryPage
<1>1. /\ UNCHANGED <<arrived, date, gone, now, cursor, rooted>>
      /\ Behind' = Behind /\ Excused \subseteq Excused' /\ NoBlindWindow' /\ Timed'
  BY <1>0, Held DEF IInv, history
<1>2. f' = [f EXCEPT !.phase = IF last THEN "download" ELSE @,
                     !.next = Larger(@, arrived + 1), !.at = to,
                     !.ids = IF last THEN Pending(ids, f.out) ELSE ids]
  BY DEF HistoryPage
<1>3. /\ f.at \in Nat /\ to \in Nat /\ arrived \in Nat /\ f.out.history \in Nat
      /\ f.out.history > 0 /\ f.out.history <= f.at /\ f.at <= to /\ to <= arrived + 1
      /\ last => to = arrived + 1
  <2>1. /\ f.at \in f.out.history .. (arrived + 1) /\ f.out.history > 0
    BY DEF HistoryPage, IInv, Listed
  <2>2. f.out.history \in Nat /\ arrived \in Nat /\ PageSize \in Nat
    BY Fields, BoundAssumption DEF IInv
  <2> QED BY <2>1, <2>2
<1>4. \A m \in 1 .. arrived : m < to => m < f.at \/ m \in ids
  BY <1>3
<1>5. f.ids \subseteq ids
  OBVIOUS
<1> HIDE DEF last, to, ids
<1>6. /\ f.phase = "history" /\ f'.phase = IF last THEN "download" ELSE "history"
      /\ f'.next = Larger(f.next, arrived + 1) /\ f'.at = to
      /\ f'.ids = IF last THEN Pending(ids, f.out) ELSE ids
      /\ f'.out = f.out /\ f'.firstEver = f.firstEver /\ f'.sampled = f.sampled
      /\ f'.passed = f.passed /\ f'.accounted = f.accounted /\ f'.after = f.after
  BY <1>2, Fields DEF HistoryPage, IInv, FetchState
<1>7. f'.next = arrived + 1
  <2>1. f.next \in 0 .. (MaxMail + 1) /\ f.next <= arrived + 1
    BY Fields DEF IInv, Watermarks
  <2> QED BY <1>3, <1>6, <2>1 DEF Larger
<1>8. Watermarks'
  BY <1>1, <1>3, <1>6, <1>7 DEF IInv, Watermarks
<1>9. Carried'
  BY <1>1, <1>6 DEF IInv, Carried
<1>10. ASSUME NEW m \in 1 .. arrived, Reached(m)'
       PROVE  m \in Behind \cup f'.ids \cup f.passed \cup Excused
  <2>1. m < to
    BY <1>3, <1>6, <1>7, <1>10 DEF Reached
  <2>2. m < f.at => m \in Behind \cup f.ids \cup f.passed \cup Excused
    BY <1>6 DEF IInv, Listed, Reached
  <2>3. m \in Behind \cup ids \cup f.passed \cup Excused
    BY <1>4, <1>5, <2>1, <2>2
  <2> QED BY <1>6, <2>3, NotPending
<1>11. Listed'
  BY <1>1, <1>3, <1>6, <1>10 DEF Listed
<1>12. Ahead'
  BY <1>1, <1>3, <1>7 DEF Ahead
<1> QED BY <1>1, <1>6, <1>8, <1>9, <1>11, <1>12 DEF IInv

LEMMA ProfileKeeps ==
  ASSUME IInv, Profile, TypeOK'
  PROVE  IInv' /\ Behind' = Behind /\ f'.passed = f.passed /\ f.phase # "idle" /\ f'.phase # "idle"
<1>0. UNCHANGED <<mailbox, cursor, history>>
  BY DEF Profile
<1>1. /\ UNCHANGED <<arrived, date, gone, now, cursor, rooted>>
      /\ Behind' = Behind /\ NoBlindWindow' /\ Timed'
  BY <1>0, Held DEF IInv, history
<1>2. /\ f.phase = "profile" /\ f'.phase = "list" /\ f'.next = arrived + 1
      /\ f'.after = ScanAfter /\ f'.at = MaxMail + 1
      /\ f'.out = f.out /\ f'.firstEver = f.firstEver /\ f'.sampled = f.sampled
      /\ f'.passed = f.passed /\ f'.accounted = f.accounted
  BY Fields DEF Profile, IInv, FetchState
<1>3. arrived \in Nat /\ arrived <= MaxMail /\ MaxMail \in Nat
  BY Fields, BoundAssumption DEF IInv
<1>4. Watermarks' /\ Carried'
  BY <1>1, <1>2, <1>3 DEF IInv, Watermarks, Carried
<1>5. ~f.firstEver => ScanAfter = 0 \/ ScanAfter + Overlap <= cursor.synced
  <2>1. f.out.synced = cursor.synced /\ cursor.synced \in Nat /\ Overlap \in Nat
    BY <1>2, Fields, BoundAssumption, OptionAssumption DEF IInv, Carried
  <2> QED BY <2>1 DEF ScanAfter, Larger
<1>6. \A m \in 1 .. arrived : ~Reached(m)' /\ ~(arrived + 1 <= m)
  BY <1>2, <1>3 DEF Reached
<1>7. Listed' /\ Ahead'
  BY <1>1, <1>2, <1>3, <1>5, <1>6 DEF Listed, Ahead
<1> QED BY <1>1, <1>2, <1>4, <1>7 DEF IInv

LEMMA ListPageKeeps ==
  ASSUME IInv, ListPage, TypeOK'
  PROVE  /\ IInv' /\ Behind' = Behind /\ Excused \subseteq Excused'
         /\ f'.passed = f.passed /\ f.phase # "idle" /\ f'.phase # "idle"
<1> DEFINE older == {m \in 1 .. arrived : m < f.at} \ gone
           found == {m \in older : InBounds(m) /\ (include \/ m \notin junk)}
<1>0. /\ f' \in FetchState
      /\ f' = [f EXCEPT !.phase = f'.phase, !.at = f'.at, !.ids = f'.ids]
      /\ f'.phase \in {"list", "download"}
      /\ windowed \subseteq windowed' /\ shielded \subseteq shielded'
      /\ f.ids \subseteq f'.ids \cup ToSet(f.out.seen)
      /\ \A m \in older : f'.phase = "list" => (f'.at <= m /\ m \in found => m \in f'.ids)
      /\ \A m \in found : f'.phase = "download" => m \in f'.ids \cup ToSet(f.out.seen)
      /\ \A m \in older \ found : 
           f'.phase = "download" \/ f'.at <= m =>
              IF InBounds(m) THEN m \in shielded' ELSE f.firstEver => m \in windowed'
  BY ListPageFacts DEF IInv
<1>1. /\ UNCHANGED <<arrived, date, gone, now, cursor, rooted>>
      /\ Behind' = Behind /\ Excused \subseteq Excused' /\ NoBlindWindow' /\ Timed'
  <2>1. UNCHANGED <<mailbox, cursor, rooted>>
    BY DEF ListPage
  <2> QED BY <1>0, <2>1, Held DEF IInv
<1>2. f.phase = "list"
  BY DEF ListPage
<1>3. /\ f'.out = f.out /\ f'.firstEver = f.firstEver /\ f'.sampled = f.sampled /\ f'.next = f.next
      /\ f'.passed = f.passed /\ f'.accounted = f.accounted /\ f'.after = f.after
  BY <1>0, Fields DEF IInv, FetchState
<1>4. Watermarks' /\ Carried' /\ Ahead'
  <2>1. Watermarks' /\ Carried'
    BY <1>0, <1>1, <1>2, <1>3 DEF IInv, Watermarks, Carried
  <2>2. Ahead'
    BY <1>1, <1>2, <1>3 DEF IInv, Ahead
  <2> QED BY <2>1, <2>2
<1>5. ToSet(f.out.seen) \subseteq Behind \cup f.passed
  BY <1>2 DEF IInv, Carried, Behind
<1>6. ASSUME NEW m \in 1 .. arrived, ~InBounds(m), ~f.firstEver
      PROVE  m \in Behind
  <2>1. /\ cursor.synced \in Nat /\ f.after \in Nat /\ date[m] \in Nat /\ Overlap \in Nat
        /\ cursor.history \in Nat /\ m \in Nat
    <3>1. date \in [Message -> 0 .. MaxTime] /\ m \in Message /\ m \in Nat
      BY Fields DEF IInv
    <3>2. date[m] \in 0 .. MaxTime
      BY <3>1
    <3>3. cursor.synced \in 0 .. MaxTime /\ f.after \in 0 .. MaxTime /\ cursor.history \in 0 .. (MaxMail + 1)
      BY Fields DEF IInv
    <3> QED BY <3>1, <3>2, <3>3, BoundAssumption, OptionAssumption
  <2>2. date[m] < f.after
    BY <1>6, <2>1 DEF InBounds
  <2>3. f.after = 0 \/ f.after + Overlap <= cursor.synced
    BY <1>2, <1>6 DEF IInv, Listed
  <2>4. date[m] + Overlap < cursor.synced
    BY <2>1, <2>2, <2>3
  <2>5. cursor.history > 0 => m < cursor.history
    BY <2>1, <2>4 DEF IInv, NoBlindWindow
  <2> QED BY <2>4, <2>5 DEF Behind
<1>7. ASSUME NEW m \in 1 .. arrived, Reached(m)'
      PROVE  m \in Behind \cup f'.ids \cup f.passed \cup Excused'
  <2>1. m < f.next /\ (f'.phase = "download" \/ f'.at <= m)
    BY <1>0, <1>3, <1>7 DEF Reached
  <2>2. CASE f.at <= m
    <3>1. m \in Behind \cup f.ids \cup f.passed \cup Excused
      BY <1>2, <2>1, <2>2 DEF IInv, Listed, Reached
    <3> HIDE DEF older, found
    <3> QED BY <1>0, <1>1, <1>5, <3>1
  <2>3. CASE m < f.at
    <3>1. CASE m \in gone
      BY <1>1, <3>1 DEF Excused
    <3>2. CASE m \in older \ found
      <4>1. IF InBounds(m) THEN m \in shielded' ELSE f.firstEver => m \in windowed'
        BY <1>0, <2>1, <3>2
      <4> HIDE DEF older, found
      <4> QED BY <1>6, <4>1 DEF Excused
    <3>3. CASE m \in found
      <4>1. m \in f'.ids \cup ToSet(f.out.seen)
        <5>1. m \in older
          BY <3>3
        <5> HIDE DEF older, found
        <5> QED BY <1>0, <2>1, <3>3, <5>1
      <4> HIDE DEF older, found
      <4> QED BY <1>5, <4>1
    <3>4. m \in gone \/ m \in older
      BY <2>3
    <3> QED BY <3>1, <3>2, <3>3, <3>4
  <2>4. f.at \in Nat /\ m \in Nat
    BY Fields, BoundAssumption DEF IInv
  <2> QED BY <2>2, <2>3, <2>4
<1> HIDE DEF older, found
<1>8. Listed'
  <2>1. f'.phase # "history" /\ (~f'.firstEver => f'.after = 0 \/ f'.after + Overlap <= cursor'.synced)
    BY <1>0, <1>1, <1>2, <1>3 DEF IInv, Listed
  <2> QED BY <1>1, <1>3, <1>7, <2>1 DEF Listed
<1> QED BY <1>0, <1>1, <1>2, <1>3, <1>4, <1>8 DEF IInv

\* A result that is not handed over.
LEMMA DropKeeps ==
  ASSUME IInv, NEW m \in Message, Vanish(m) \/ Exclude(m), TypeOK'
  PROVE  /\ IInv' /\ Behind' = Behind /\ Excused \subseteq Excused'
         /\ f'.passed = f.passed /\ f.phase # "idle" /\ f'.phase # "idle"
<1>1. /\ f.phase = "download" /\ f' = [f EXCEPT !.ids = @ \ {m}]
      /\ windowed \subseteq windowed' /\ shielded \subseteq shielded'
      /\ UNCHANGED <<mailbox, cursor, rooted>>
      /\ m \in gone \cup shielded'
  BY DEF Vanish, Exclude, history
<1>2. /\ UNCHANGED <<arrived, date, gone, now, cursor, rooted>>
      /\ Behind' = Behind /\ Excused \subseteq Excused' /\ NoBlindWindow' /\ Timed'
  BY <1>1, Held DEF IInv
<1>3. /\ f'.phase = f.phase /\ f'.ids = f.ids \ {m} /\ f'.at = f.at
      /\ f'.out = f.out /\ f'.firstEver = f.firstEver /\ f'.sampled = f.sampled /\ f'.next = f.next
      /\ f'.passed = f.passed /\ f'.accounted = f.accounted /\ f'.after = f.after
  BY <1>1, Fields DEF IInv, FetchState
<1>4. Watermarks' /\ Carried' /\ Ahead'
  <2>1. Watermarks' /\ Carried'
    BY <1>1, <1>2, <1>3 DEF IInv, Watermarks, Carried
  <2>2. Ahead'
    BY <1>1, <1>2, <1>3 DEF IInv, Ahead
  <2> QED BY <2>1, <2>2
<1>5. m \in Excused'
  BY <1>1, <1>2 DEF Excused
<1>6. \A k : Reached(k)' = Reached(k)
  BY <1>3 DEF Reached
<1>7. Listed'
  BY <1>1, <1>2, <1>3, <1>5, <1>6 DEF IInv, Listed
<1> QED BY <1>1, <1>2, <1>3, <1>4, <1>7 DEF IInv

LEMMA AcceptKeeps ==
  ASSUME IInv, NEW m \in Message, Accept(m), TypeOK'
  PROVE  /\ IInv' /\ Behind' = Behind /\ UNCHANGED Excused
         /\ f'.passed = f.passed \cup {m} /\ f.phase # "idle" /\ f'.phase # "idle"
<1>1. PICK marks \in {<<>>, <<m>>} :
        f' = [f EXCEPT !.ids = @ \ {m}, !.passed = @ \cup {m},
                       !.out.seen = MarkSeen(@, m), !.accounted = @ \o marks]
  BY DEF Accept
<1>2. f.phase = "download" /\ UNCHANGED <<mailbox, cursor, history>>
  BY DEF Accept, HandsOver
<1>3. /\ UNCHANGED <<arrived, date, gone, now, cursor, rooted>>
      /\ Behind' = Behind /\ UNCHANGED Excused /\ NoBlindWindow' /\ Timed'
  <2>1. UNCHANGED Excused
    BY <1>2 DEF Excused, mailbox, history
  <2> QED BY <1>2, <2>1, Held DEF IInv, history
<1>4. /\ f'.phase = f.phase /\ f'.ids = f.ids \ {m} /\ f'.at = f.at
      /\ f'.firstEver = f.firstEver /\ f'.sampled = f.sampled /\ f'.next = f.next
      /\ f'.passed = f.passed \cup {m} /\ f'.accounted = f.accounted \o marks /\ f'.after = f.after
      /\ f'.out = [f.out EXCEPT !.seen = MarkSeen(f.out.seen, m)]
  BY <1>1, Fields DEF IInv, FetchState
<1>5. /\ f'.out.synced = f.out.synced /\ f'.out.history = f.out.history
      /\ f'.out.seen = MarkSeen(f.out.seen, m)
  <2>1. f.out \in SyncState
    BY Fields DEF IInv
  <2> QED BY <1>4, <2>1 DEF SyncState
<1>6. ToSet(f'.out.seen) \subseteq ToSet(f.out.seen) \cup {m}
  BY <1>5, Fields, MarkSeenFacts DEF IInv
<1>7. ToSet(f'.accounted) \subseteq ToSet(f.accounted) \cup {m}
  <2>1. f.accounted \in Seq(Message)
    BY Fields DEF IInv
  <2>2. CASE marks = <<>>
    BY <1>4, <2>1, <2>2
  <2>3. CASE marks = <<m>>
    <3>1. f'.accounted = Append(f.accounted, m)
      BY <1>4, <2>1, <2>3
    <3> QED BY <2>1, <3>1 DEF ToSet
  <2> QED BY <2>2, <2>3
<1>8. Carried'
  BY <1>2, <1>3, <1>4, <1>5, <1>6, <1>7 DEF IInv, Carried
<1>9. Watermarks'
  BY <1>3, <1>4 DEF IInv, Watermarks
<1>10. Ahead'
  BY <1>2, <1>3, <1>4 DEF IInv, Ahead
<1>11. \A k : Reached(k)' = Reached(k)
  BY <1>4 DEF Reached
<1>12. Listed'
  BY <1>2, <1>3, <1>4, <1>11 DEF IInv, Listed
<1> QED BY <1>2, <1>3, <1>4, <1>8, <1>9, <1>10, <1>12 DEF IInv

\* The end of a Fetch.
LEMMA Ended ==
  ASSUME f' = Idle
  PROVE  /\ f'.phase = "idle" /\ f'.passed = {} /\ f'.sampled = 0 /\ f'.next = 0
         /\ Carried' /\ Listed' /\ Ahead'
<1>1. f'.phase = "idle" /\ f'.passed = {} /\ f'.sampled = 0 /\ f'.next = 0 /\ f'.firstEver = FALSE
  BY DEF Idle
<1> QED BY <1>1 DEF Carried, Listed, Ahead, Reached

\* What a save leaves: the state it was given with more ids seen, or the state there was.
LEMMA Saved ==
  ASSUME IInv, NEW out \in SyncState, Len(out.seen) <= MaxSeenIDs, Save(out)
  PROVE  \/ UNCHANGED <<cursor, rooted>>
         \/ /\ cursor'.history = out.history /\ cursor'.synced = out.synced
            /\ ToSet(cursor'.seen) \subseteq ToSet(out.seen) \cup ToSet(f.accounted)
            /\ rooted' = (rooted \/ out.history > 0)
<1>1. out.seen \in Seq(Message) /\ f.accounted \in Seq(Message)
  BY Fields DEF IInv, SyncState
<1>2. ToSet(MarkAll(out.seen, f.accounted)) \subseteq ToSet(out.seen) \cup ToSet(f.accounted)
  BY <1>1, MarkAllFacts
<1>3. CASE cursor' = [out EXCEPT !.seen = MarkAll(@, f.accounted)] /\ rooted' = (rooted \/ out.history > 0)
  <2>1. /\ cursor'.history = out.history /\ cursor'.synced = out.synced
        /\ cursor'.seen = MarkAll(out.seen, f.accounted)
    BY <1>3 DEF SyncState
  <2> QED BY <1>2, <1>3, <2>1
<1> QED BY <1>3 DEF Save

\* Nothing was saved.
LEMMA DroppedKeeps ==
  ASSUME IInv, f' = Idle, UNCHANGED <<mailbox, cursor, history>>, TypeOK'
  PROVE  IInv' /\ Behind' = Behind
<1>1. UNCHANGED <<arrived, now, cursor>> /\ Behind' = Behind /\ NoBlindWindow' /\ Timed'
  BY Held DEF IInv, history
<1>2. Carried' /\ Listed' /\ Ahead' /\ f'.sampled = 0 /\ f'.next = 0
  BY Ended
<1>3. now \in Nat /\ arrived \in Nat
  BY Fields, BoundAssumption DEF IInv
<1>4. Watermarks'
  BY <1>1, <1>2, <1>3 DEF IInv, Watermarks
<1> QED BY <1>1, <1>2, <1>4 DEF IInv

\* A graceful stop saves the cursor it was given, or its recovery half.
LEMMA RefuseKeeps ==
  ASSUME IInv, NEW m \in Message, Refuse(m), TypeOK'
  PROVE  /\ IInv' /\ UNCHANGED Excused /\ f' = Idle /\ f.phase # "idle"
         /\ Behind' \subseteq Behind \cup f.passed
<1>1. /\ Save(f.out) /\ f' = Idle /\ f.phase = "download"
      /\ UNCHANGED <<arrived, date, gone, now, windowed, shielded>>
  BY DEF Refuse, Save, HandsOver, mailbox
<1>2. UNCHANGED Excused
  BY <1>1 DEF Excused
<1>3. CASE UNCHANGED <<cursor, rooted>>
  <2>1. UNCHANGED <<mailbox, cursor, history>>
    BY <1>1, <1>3 DEF Refuse, history
  <2> QED BY <1>1, <1>2, <2>1, DroppedKeeps
<1>4. CASE /\ cursor'.history = f.out.history /\ cursor'.synced = f.out.synced
           /\ ToSet(cursor'.seen) \subseteq ToSet(f.out.seen) \cup ToSet(f.accounted)
           /\ rooted' = (rooted \/ f.out.history > 0)
  <2>1. /\ cursor'.synced = cursor.synced /\ cursor'.history \in {0, cursor.history}
        /\ ToSet(cursor'.seen) \subseteq ToSet(cursor.seen) \cup f.passed
    BY <1>1, <1>4 DEF IInv, Carried
  <2>2. /\ now \in Nat /\ arrived \in Nat /\ cursor.history \in Nat /\ cursor.synced \in Nat
        /\ Overlap \in Nat /\ \A k \in 1 .. arrived : date[k] \in Nat /\ k \in Nat
    <3>1. date \in [Message -> 0 .. MaxTime] /\ 1 .. arrived \subseteq Message /\ Message \subseteq Nat
      BY Fields DEF IInv
    <3>2. \A k \in 1 .. arrived : date[k] \in 0 .. MaxTime
      BY <3>1
    <3>3. now \in 0 .. MaxTime /\ arrived \in Nat /\ cursor.history \in 0 .. (MaxMail + 1) /\ cursor.synced \in 0 .. MaxTime
      BY Fields DEF IInv
    <3> QED BY <3>1, <3>2, <3>3, BoundAssumption, OptionAssumption
  <2>3. Carried' /\ Listed' /\ Ahead' /\ f'.sampled = 0 /\ f'.next = 0
    BY <1>1, Ended
  <2>4. Watermarks'
    BY <1>1, <2>1, <2>2, <2>3 DEF IInv, Watermarks
  <2>5. NoBlindWindow'
    BY <1>1, <2>1 DEF IInv, NoBlindWindow
  <2>6. Timed'
    <3> SUFFICES ASSUME ~Legacy
                 PROVE  (rooted' => cursor'.synced > 0) /\ (cursor'.history > 0 => rooted')
      BY DEF Timed
    <3>1. (rooted => cursor.synced > 0) /\ (cursor.history > 0 => rooted)
      BY DEF IInv, Timed
    <3>2. (f.out.history > 0 => cursor.history > 0) /\ (cursor'.history > 0 => cursor.history > 0)
      BY <1>4, <2>1
    <3>3. rooted' => rooted
      BY <1>4, <3>1, <3>2
    <3>4. cursor'.history > 0 => rooted'
      BY <1>4, <3>1, <3>2
    <3> QED BY <2>1, <3>1, <3>3, <3>4
  <2>7. ASSUME NEW k \in 1 .. arrived,
               IF cursor'.history > 0 THEN k < cursor'.history ELSE date[k] + Overlap < cursor'.synced
        PROVE  k \in Behind
    <3>1. CASE cursor'.history > 0
      BY <2>1, <2>7, <3>1 DEF Behind
    <3>2. CASE ~(cursor'.history > 0)
      <4>1. date[k] + Overlap < cursor.synced
        BY <2>1, <2>7, <3>2
      <4>2. cursor.history > 0 => k < cursor.history
        BY <2>2, <4>1 DEF IInv, NoBlindWindow
      <4> QED BY <4>1, <4>2 DEF Behind
    <3> QED BY <3>1, <3>2
  <2>8. Behind' \subseteq Behind \cup f.passed
    <3>1. ToSet(cursor.seen) \subseteq Behind
      BY DEF Behind
    <3>2. Behind' = ToSet(cursor'.seen) \cup
                      {k \in 1 .. arrived : IF cursor'.history > 0 THEN k < cursor'.history
                                            ELSE date[k] + Overlap < cursor'.synced}
      BY <1>1 DEF Behind
    <3> QED BY <2>1, <2>7, <3>1, <3>2
  <2> QED BY <1>1, <1>2, <2>3, <2>4, <2>5, <2>6, <2>8 DEF IInv
<1>5. f.out \in SyncState /\ Len(f.out.seen) <= MaxSeenIDs
  BY Fields DEF IInv
<1> QED BY <1>1, <1>3, <1>4, <1>5, Saved

\* Both watermarks advance together, over mail that was dealt with.
LEMMA FinishFetchKeeps ==
  ASSUME IInv, FinishFetch, TypeOK'
  PROVE  /\ IInv' /\ UNCHANGED Excused /\ f' = Idle /\ f.phase # "idle"
         /\ Behind' \subseteq Behind \cup f.passed \cup Excused
<1> DEFINE out == [f.out EXCEPT !.history = Larger(@, f.next), !.synced = f.sampled]
<1>1. /\ Save(out) /\ f' = Idle /\ f.phase = "download" /\ f.ids = {}
      /\ UNCHANGED <<arrived, date, gone, now, windowed, shielded>>
  BY DEF FinishFetch, Save, mailbox
<1>2. UNCHANGED Excused
  BY <1>1 DEF Excused
<1>3. /\ f.out \in SyncState /\ f.sampled \in 0 .. MaxTime
      /\ f.out.history \in 0 .. (MaxMail + 1) /\ f.next \in 0 .. (MaxMail + 1)
      /\ Len(f.out.seen) <= MaxSeenIDs
  BY Fields DEF IInv
<1>4. /\ out \in SyncState /\ out.seen = f.out.seen /\ out.synced = f.sampled
      /\ out.history = Larger(f.out.history, f.next)
  <2>1. Larger(f.out.history, f.next) \in 0 .. (MaxMail + 1)
    BY <1>3 DEF Larger
  <2> QED BY <1>3, <2>1 DEF SyncState
<1> HIDE DEF out
<1>5. CASE UNCHANGED <<cursor, rooted>>
  <2>1. UNCHANGED <<mailbox, cursor, history>>
    BY <1>1, <1>5 DEF FinishFetch, history
  <2> QED BY <1>1, <1>2, <2>1, DroppedKeeps
<1>6. CASE /\ cursor'.history = out.history /\ cursor'.synced = out.synced
           /\ ToSet(cursor'.seen) \subseteq ToSet(out.seen) \cup ToSet(f.accounted)
           /\ rooted' = (rooted \/ out.history > 0)
  <2>1. /\ now \in Nat /\ arrived \in Nat /\ cursor.history \in Nat /\ f.out.history \in Nat
        /\ f.next \in Nat /\ f.sampled \in Nat /\ f.next > 0 /\ f.sampled > 0
        /\ f.next <= arrived + 1 /\ f.sampled <= now /\ cursor.history <= arrived + 1
        /\ f.out.history \in {0, cursor.history}
    <3>1. f.next > 0 /\ f.sampled > 0 /\ f.out.history \in {0, cursor.history}
      BY <1>1 DEF IInv, Ahead, Carried
    <3>2. f.next <= arrived + 1 /\ f.sampled <= now /\ cursor.history <= arrived + 1
      BY DEF IInv, Watermarks
    <3>3. now \in 0 .. MaxTime /\ arrived \in Nat /\ cursor.history \in 0 .. (MaxMail + 1)
      BY Fields DEF IInv
    <3> QED BY <1>3, <3>1, <3>2, <3>3, BoundAssumption
  <2>2. /\ cursor'.history \in {f.out.history, f.next} /\ cursor'.history >= f.next
        /\ cursor'.history > 0 /\ cursor'.history <= arrived + 1
        /\ cursor'.synced = f.sampled /\ rooted'
    <3>1. cursor'.history = Larger(f.out.history, f.next) /\ cursor'.synced = f.sampled
      BY <1>4, <1>6
    <3>2. /\ cursor'.history \in {f.out.history, f.next} /\ cursor'.history >= f.next
          /\ cursor'.history > 0 /\ cursor'.history <= arrived + 1
      BY <2>1, <3>1 DEF Larger
    <3>3. rooted'
      BY <1>6, <3>2
    <3> QED BY <3>1, <3>2, <3>3
  <2>3. Carried' /\ Listed' /\ Ahead' /\ f'.sampled = 0 /\ f'.next = 0
    BY <1>1, Ended
  <2>4. Watermarks'
    BY <1>1, <2>1, <2>2, <2>3 DEF Watermarks
  <2>5. NoBlindWindow'
    <3>1. ASSUME NEW k \in 1 .. arrived, k >= cursor'.history
          PROVE  date[k] + Overlap >= f.sampled
      <4>1. f.next <= k
        BY <2>1, <2>2, <3>1
      <4>2. f.sampled <= date[k] + Overlap
        BY <1>1, <4>1 DEF IInv, Ahead
      <4> QED BY <4>2
    <3> QED BY <1>1, <2>2, <3>1 DEF NoBlindWindow
  <2>6. Timed'
    BY <2>1, <2>2 DEF Timed
  <2>7. ASSUME NEW k \in 1 .. arrived, k < cursor'.history
        PROVE  k \in Behind \cup f.passed \cup Excused
    <3>1. CASE k < f.next
      BY <1>1, <3>1 DEF IInv, Listed, Reached
    <3>2. CASE ~(k < f.next)
      <4>1. k < cursor.history /\ cursor.history > 0
        BY <2>1, <2>2, <2>7, <3>2
      <4> QED BY <4>1 DEF Behind
    <3> QED BY <3>1, <3>2
  <2>8. ToSet(cursor'.seen) \subseteq Behind \cup f.passed
    BY <1>1, <1>4, <1>6 DEF IInv, Carried, Behind
  <2>9. Behind' = ToSet(cursor'.seen) \cup {k \in 1 .. arrived : k < cursor'.history}
    BY <1>1, <2>2 DEF Behind
  <2> QED BY <1>1, <1>2, <2>3, <2>4, <2>5, <2>6, <2>7, <2>8, <2>9 DEF IInv
<1> QED BY <1>1, <1>4, <1>3, <1>5, <1>6, Saved

-----------------------------------------------------------------------------
(* What holds of Fetch.                                                    *)

LEMMA InvInit == Init => IInv
<1> SUFFICES ASSUME Init PROVE IInv
  OBVIOUS
<1>1. TypeOK
  BY InitType
<1>2. /\ f = Idle /\ f.phase = "idle" /\ f.firstEver = FALSE /\ f.sampled = 0 /\ f.next = 0 /\ now = 1
  BY DEF Init, Idle
<1>3. /\ arrived \in {0, 1} /\ cursor.history <= arrived + 1 /\ cursor.synced = 0
      /\ cursor.history > 0 => arrived = 1 /\ cursor.history = 2
      /\ ~Legacy => ~rooted /\ ~(cursor.history > 0)
  BY DEF Init, LegacyState, NoState, Idle
<1>4. Watermarks
  BY <1>2, <1>3 DEF Watermarks
<1>5. Carried /\ Listed /\ Ahead
  BY <1>2 DEF Carried, Listed, Ahead, Reached
<1>6. NoBlindWindow
  BY <1>3 DEF NoBlindWindow
<1>7. Timed
  BY <1>3 DEF Timed
<1> QED BY <1>1, <1>4, <1>5, <1>6, <1>7 DEF IInv

LEMMA InvStep == IInv /\ [Next]_vars => IInv'
<1> SUFFICES ASSUME IInv, [Next]_vars PROVE IInv'
  OBVIOUS
<1>1. TypeOK'
  BY TypeStep DEF IInv
<1>2. CASE Mailbox \/ UNCHANGED vars
  BY <1>1, <1>2, MailboxKeeps
<1>3. CASE Fetch
  BY <1>1, <1>3, BeginKeeps, HistoryExpiredKeeps, HistoryPageKeeps, ProfileKeeps, ListPageKeeps,
     DropKeeps, AcceptKeeps, FinishFetchKeeps DEF Fetch
<1>4. CASE Fail
  BY <1>1, <1>4, DroppedKeeps DEF Fail
<1>5. ASSUME NEW m \in Message, Refuse(m)
      PROVE  IInv'
  BY <1>1, <1>5, RefuseKeeps
<1> QED BY <1>2, <1>3, <1>4, <1>5 DEF Next

\* The invariant is inductive: the two halves of the saved cursor, the Fetch in
\* progress and the mailbox stay in step, whatever the mailbox does meanwhile.
THEOREM Invariance == Spec => []IInv
<1> QED BY InvInit, InvStep, PTL DEF Spec

\* Cursors, pages and seen lists stay within their ranges (fetch.go, state.go).
THEOREM TypeCorrect == Spec => []TypeOK
<1>1. IInv => TypeOK
  BY DEF IInv
<1> QED BY <1>1, Invariance, PTL

\* gmail.go:236: no mail falls between the history cursor and the recovery scan
\* that replaces it, however pages, arrivals, expiries and stops interleave.
THEOREM CursorHalvesAgree == Spec => []NoBlindWindow
<1>1. IInv => NoBlindWindow
  BY DEF IInv
<1> QED BY <1>1, Invariance, PTL

\* An account that had a cursor is never scanned within its query or lookback again
\* (fetch.go:73-79), unless its state predates LastSyncTime.
THEOREM FirstLookIsFirst == ~Legacy => (Spec => OneFirstLook)
<1> SUFFICES ASSUME ~Legacy PROVE Spec => OneFirstLook
  OBVIOUS
<1>1. IInv /\ [Next]_vars => [rooted => windowed' = windowed]_vars
  <2> SUFFICES ASSUME IInv, Next, rooted PROVE windowed' = windowed
    OBVIOUS
  <2>1. CASE ListPage
    <3>1. cursor.synced > 0
      BY DEF IInv, Timed
    <3>2. ~f.firstEver
      BY <3>1 DEF IInv, Carried
    <3> QED BY <2>1, <3>2, ListPageFacts DEF IInv
  <2>2. CASE ~ListPage
    BY <2>2 DEF Next, Mailbox, Fetch, history, Arrive, Delete, Relabel, Expire, Tick, Settle, Begin, HistoryExpired,
       HistoryPage, Profile, Vanish, Exclude, Accept, FinishFetch, Fail, Refuse
  <2> QED BY <2>1, <2>2
<1> QED BY <1>1, Invariance, PTL DEF Spec, OneFirstLook

\* Every step of Fetch, the pipeline and the mailbox is one the contract allows.
LEMMA ContractStep == IInv /\ [Next]_vars => [Contract!Next]_(Contract!vars)
<1> SUFFICES ASSUME IInv, [Next]_vars PROVE [Contract!Next]_(Contract!vars)
  OBVIOUS
<1>1. TypeOK' /\ IInv'
  BY InvStep, TypeStep DEF IInv
<1>2. /\ Excused \in SUBSET Message /\ Excused' \in SUBSET Message /\ Behind' \in SUBSET Message
  <2>1. gone \subseteq Message /\ windowed \subseteq Message /\ shielded \subseteq Message
    BY Fields DEF IInv
  <2>2. gone' \subseteq Message /\ windowed' \subseteq Message /\ shielded' \subseteq Message
    <3>1. 1 .. arrived' \subseteq Message
      BY <1>1, BoundAssumption DEF TypeOK, Message
    <3> QED BY <1>1, <3>1 DEF TypeOK
  <2>3. Behind' \in SUBSET Message
    <3>1. 1 .. arrived' \subseteq Message /\ cursor'.seen \in Seq(Message)
      BY <1>1, BoundAssumption DEF TypeOK, Message, SyncState
    <3>2. ToSet(cursor'.seen) \subseteq Message
      BY <3>1 DEF ToSet
    <3> QED BY <3>1, <3>2 DEF Behind
  <2> QED BY <2>1, <2>2, <2>3 DEF Excused
<1>3. \/ Behind' = Behind /\ f'.passed = f.passed /\ (f'.phase # "idle" <=> f.phase # "idle")
         /\ Excused \subseteq Excused'
      \/ Behind' = Behind /\ f.phase = "idle" /\ f'.phase # "idle" /\ f'.passed = {} /\ Excused' = Excused
      \/ \E m \in Message : Behind' = Behind /\ Excused' = Excused /\ f.phase # "idle" /\ f'.phase # "idle"
                             /\ f'.passed = f.passed \cup {m}
      \/ /\ f.phase # "idle" /\ f'.phase = "idle" /\ f'.passed = {} /\ Excused \subseteq Excused'
         /\ Behind' \subseteq Behind \cup f.passed \cup Excused'
  <2>1. CASE Mailbox \/ UNCHANGED vars
    BY <1>1, <2>1, MailboxKeeps
  <2>2. CASE Begin
    BY <1>1, <2>2, BeginKeeps DEF Begin, Excused, mailbox, history
  <2>3. CASE HistoryExpired \/ HistoryPage \/ Profile
    <3>1. Excused' = Excused
      BY <2>3 DEF HistoryExpired, HistoryPage, Profile, Excused, mailbox, history
    <3> QED BY <1>1, <2>3, <3>1, HistoryExpiredKeeps, HistoryPageKeeps, ProfileKeeps
  <2>4. CASE ListPage
    BY <1>1, <2>4, ListPageKeeps
  <2>5. ASSUME NEW m \in Message, Vanish(m) \/ Exclude(m)
        PROVE  Behind' = Behind /\ f'.passed = f.passed /\ f'.phase # "idle" /\ f.phase # "idle"
               /\ Excused \subseteq Excused'
    BY <1>1, <2>5, DropKeeps
  <2>6. ASSUME NEW m \in Message, Accept(m)
        PROVE  Behind' = Behind /\ Excused' = Excused /\ f.phase # "idle" /\ f'.phase # "idle"
               /\ f'.passed = f.passed \cup {m}
    BY <1>1, <2>6, AcceptKeeps
  <2>7. CASE FinishFetch
    BY <1>1, <2>7, FinishFetchKeeps, Ended
  <2>8. CASE Fail
    <3>1. Behind' = Behind /\ f'.phase = "idle" /\ f'.passed = {} /\ f.phase # "idle"
      BY <1>1, <2>8, DroppedKeeps, Ended DEF Fail
    <3>2. Excused' = Excused
      BY <2>8 DEF Fail, Excused, mailbox, history
    <3> QED BY <3>1, <3>2
  <2>9. ASSUME NEW m \in Message, Refuse(m)
        PROVE  /\ f.phase # "idle" /\ f'.phase = "idle" /\ f'.passed = {} /\ Excused \subseteq Excused'
               /\ Behind' \subseteq Behind \cup f.passed \cup Excused'
    BY <1>1, <2>9, RefuseKeeps, Ended
  <2> QED BY <2>1, <2>2, <2>3, <2>4, <2>5, <2>6, <2>7, <2>8, <2>9 DEF Next, Fetch
<1> QED BY <1>2, <1>3 DEF Contract!Next, Contract!vars, Contract!Excuse, Contract!Start, Contract!Pass,
                       Contract!Return, Excused

\* Fetch never leaves behind mail that the callback did not accept and that is not
\* excused, on either route and from any state, one that predates LastSyncTime
\* included.
THEOREM EveryStepKeepsTheContract == Spec => [][Contract!Next]_(Contract!vars)
<1> QED BY Invariance, ContractStep, PTL DEF Spec

\* Fetch is an implementation of provider.Provider.Fetch, as the pipeline relies on
\* it: for any account that starts without a state.
THEOREM FetchImplementsContract == ~Legacy => (Spec => FetchContract)
<1> SUFFICES ASSUME ~Legacy PROVE Spec => FetchContract
  OBVIOUS
<1>1. Init => Contract!Init
  <2> SUFFICES ASSUME Init PROVE Contract!Init
    OBVIOUS
  <2>1. /\ arrived = 0 /\ cursor = Idle.out /\ f = Idle
        /\ gone = {} /\ windowed = {} /\ shielded = {}
    BY DEF Init, LegacyState, NoState
  <2>2. cursor.seen = <<>> /\ f.phase = "idle" /\ f.passed = {}
    BY <2>1 DEF Idle
  <2>3. Behind = {}
    BY <2>1, <2>2 DEF Behind, ToSet
  <2> QED BY <2>1, <2>2, <2>3 DEF Contract!Init
<1> QED BY <1>1, EveryStepKeepsTheContract, PTL DEF Spec, FetchContract, Contract!Spec
=============================================================================
