----------------------------- MODULE RulesProofs -----------------------------
(***************************************************************************)
(* Proofs about Filter, for any configuration files, whatever trees their  *)
(* rules are, any list files and any number of edits, about Setup (I), and *)
(* about Names, for any attachments, subjects and headers.                 *)
(*                                                                         *)
(* Filter.  A list in the cache is what some file held that stood there in *)
(* this cycle, and one that was not read whole has its path among the      *)
(* degraded (Readings).  When the messages come, nothing is left to read   *)
(* and what the pipeline was told is all there is to tell (Complete), so a *)
(* verdict can be traced to files read whole.                              *)
(*                                                                         *)
(* Validate.  What Load leaves blank is an error or has a default, and a   *)
(* path that shows something still does when it is trimmed (TrimmedText).  *)
(*                                                                         *)
(* Setup.  The file that is being filled was opened by this process.       *)
(*                                                                         *)
(* Names.  A slug is letters with single dashes between them, which is     *)
(* what the making of slugs leaves alone (Plain).  One number more is      *)
(* tried than there are files, so one is free, and the number is in the    *)
(* name whatever is cut or appended (NumberedIs); so the files written     *)
(* first stay apart from the next (Distinguished).                         *)
(*                                                                         *)
(* References.  Noise leaves at most a bracket open, which the next id     *)
(* opens again (QuietNoise), so a header reads as its ids (HeaderIsRead).  *)
(***************************************************************************)
EXTENDS Rules, FiniteSetTheorems, SequenceTheorems, WellFoundedInduction, TLAPS

-----------------------------------------------------------------------------
(* Numbers and sequences *)

\* A set of naturals has a least element.
LEMMA LeastNatural ==
  ASSUME NEW S \in SUBSET Nat, S # {}
  PROVE  \E n \in S : \A m \in S : n <= m
<1>1. PICK n \in S : \A m \in S : <<m, n>> \notin OpToRel(<, Nat)
  BY WFMin, NatLessThanWellFounded, Zenon
<1>2. \A m \in S : ~(m < n)
  BY <1>1 DEF OpToRel
<1> QED BY <1>2

\* A set of naturals with a bound has a greatest element: the least of its bounds.
LEMMA GreatestUpTo ==
  ASSUME NEW k \in Nat, NEW S \in SUBSET (1 .. k), S # {}
  PROVE  \E n \in S : \A m \in S : m <= n
<1> DEFINE B == {n \in Nat : \A m \in S : m <= n}
<1>1. k \in B
  OBVIOUS
<1>2. PICK n \in B : \A b \in B : n <= b
  <2> HIDE DEF B
  <2> QED BY <1>1, LeastNatural, B \in SUBSET Nat DEF B
<1>3. n \in S
  <2> SUFFICES ASSUME n \notin S PROVE FALSE
    OBVIOUS
  <2>1. PICK s \in S : TRUE
    <3> HIDE DEF B
    <3> QED OBVIOUS
  <2>2. n \in Nat /\ n # 0
    BY s \in 1 .. k, s <= n
  <2>3. \A m \in S : m \in Nat /\ m <= n /\ m # n
    OBVIOUS
  <2>4. \A m \in S : m <= n - 1
    <3> HIDE DEF B
    <3> QED BY <2>2, <2>3
  <2>5. n - 1 \in B
    BY <2>2, <2>4
  <2>6. n <= n - 1
    BY <1>2, <2>5
  <2> HIDE DEF B
  <2> QED BY <2>2, <2>6
<1> QED BY <1>3

\* Induction, with a set for the property.
LEMMA SetInduction ==
  ASSUME NEW T \in SUBSET Nat, 0 \in T, \A n \in T : n + 1 \in T
  PROVE  T = Nat
<1> SUFFICES ASSUME Nat \ T # {} PROVE FALSE
  OBVIOUS
<1>1. PICK n \in Nat \ T : \A m \in Nat \ T : n <= m
  BY LeastNatural
<1> QED BY <1>1, n - 1 \in Nat

\* A sequence is its head and the rest.
LEMMA HeadAndTail ==
  ASSUME NEW T, NEW s \in Seq(T), s # <<>>
  PROVE  Tail(s) \in Seq(T) /\ ToSet(s) = {Head(s)} \cup ToSet(Tail(s))
<1> DEFINE rest == Tail(s)
<1>1. /\ rest \in Seq(T) /\ Len(rest) = Len(s) - 1 /\ Head(s) = s[1]
      /\ \A i \in 1 .. Len(rest) : rest[i] = s[i + 1]
  BY HeadTailProperties
<1> HIDE DEF rest
<1>2. \A i \in DOMAIN rest : rest[i] \in ToSet(rest) /\ rest[i] \in ToSet(s)
  BY <1>1 DEF ToSet
<1>3. ASSUME NEW i \in DOMAIN s
      PROVE  s[i] \in {Head(s)} \cup ToSet(rest)
  <2>1. i # 1 => i - 1 \in DOMAIN rest /\ rest[i - 1] = s[i]
    BY <1>1
  <2> QED BY <1>1, <1>2, <2>1
<1>4. s[1] \in ToSet(s)
  BY DEF ToSet
<1>5. ToSet(s) \subseteq {Head(s)} \cup ToSet(rest)
  BY <1>3 DEF ToSet
<1>6. ToSet(rest) \subseteq ToSet(s)
  BY <1>2 DEF ToSet
<1> QED BY <1>1, <1>4, <1>5, <1>6 DEF rest

\* The loop of FlattenSeq runs: the function that stands for it exists.
LEMMA FlattenUnfolds ==
  ASSUME NEW T, NEW seqs \in Seq(Seq(T)), seqs # <<>>
  PROVE  \E flatten :
           /\ flatten = [i \in 1 .. Len(seqs) |-> IF i = 1 THEN seqs[i] ELSE flatten[i - 1] \o seqs[i]]
           /\ FlattenSeq(seqs) = flatten[Len(seqs)]
<1> DEFINE Runs(n, g) == g = [i \in 1 .. n |-> IF i = 1 THEN seqs[i] ELSE g[i - 1] \o seqs[i]]
           R == {n \in Nat : \E g : Runs(n, g)}
<1>1. 0 \in R
  <2> DEFINE g == [i \in 1 .. 0 |-> seqs]
  <2>1. Runs(0, g)
    OBVIOUS
  <2> QED BY <2>1
<1>2. ASSUME NEW n \in R
      PROVE  n + 1 \in R
  <2>1. PICK g : Runs(n, g)
    OBVIOUS
  <2> DEFINE h == [i \in 1 .. n + 1 |-> IF i <= n THEN g[i] ELSE IF i = 1 THEN seqs[i] ELSE g[n] \o seqs[i]]
  <2>2. ASSUME NEW i \in 1 .. n + 1
        PROVE  h[i] = IF i = 1 THEN seqs[i] ELSE h[i - 1] \o seqs[i]
    <3>1. CASE i = n + 1
      BY <3>1
    <3>2. CASE i \in 1 .. n
      <4>1. h[i] = g[i] /\ (i # 1 => i - 1 \in 1 .. n /\ h[i - 1] = g[i - 1])
        BY <3>2
      <4>2. g[i] = IF i = 1 THEN seqs[i] ELSE g[i - 1] \o seqs[i]
        BY <2>1, <3>2
      <4> QED BY <4>1, <4>2
    <3> QED BY <3>1, <3>2
  <2>3. Runs(n + 1, h)
    BY <2>2
  <2> HIDE DEF Runs
  <2> QED BY <2>3
<1>3. R = Nat
  <2> HIDE DEF R
  <2>1. R \in SUBSET Nat
    BY DEF R
  <2> QED BY <1>1, <1>2, <2>1, SetInduction
<1>4. Len(seqs) \in R /\ Len(seqs) # 0
  <2> HIDE DEF R
  <2> QED BY <1>3
<1> DEFINE flatten == CHOOSE g : Runs(Len(seqs), g)
<1>5. Runs(Len(seqs), flatten)
  BY <1>4
<1>6. FlattenSeq(seqs) = flatten[Len(seqs)]
  BY <1>4 DEF FlattenSeq
<1> HIDE DEF flatten
<1> QED BY <1>5, <1>6

\* What is flattened is of the same elements.
LEMMA FlattenType ==
  ASSUME NEW T, NEW seqs \in Seq(Seq(T))
  PROVE  FlattenSeq(seqs) \in Seq(T)
<1>1. CASE seqs = <<>>
  <2>1. FlattenSeq(seqs) = <<>>
    BY <1>1 DEF FlattenSeq
  <2> QED BY <2>1
<1>2. CASE seqs # <<>>
  <2>1. PICK flatten :
          /\ flatten = [i \in 1 .. Len(seqs) |-> IF i = 1 THEN seqs[i] ELSE flatten[i - 1] \o seqs[i]]
          /\ FlattenSeq(seqs) = flatten[Len(seqs)]
    BY <1>2, FlattenUnfolds
  <2>0. \A i \in 1 .. Len(seqs) : flatten[i] = IF i = 1 THEN seqs[i] ELSE flatten[i - 1] \o seqs[i]
    BY <2>1
  <2> DEFINE R == {n \in Nat : n \in 1 .. Len(seqs) => flatten[n] \in Seq(T)}
  <2>2. 0 \in R
    OBVIOUS
  <2>3. ASSUME NEW n \in R
        PROVE  n + 1 \in R
    <3> SUFFICES ASSUME n + 1 \in 1 .. Len(seqs) PROVE flatten[n + 1] \in Seq(T)
      OBVIOUS
    <3>1. seqs[n + 1] \in Seq(T)
      OBVIOUS
    <3>2. flatten[n + 1] = IF n + 1 = 1 THEN seqs[n + 1] ELSE flatten[n] \o seqs[n + 1]
      <4>1. n \in Nat /\ n + 1 - 1 = n
        OBVIOUS
      <4> HIDE DEF R
      <4> QED BY <2>0, <4>1
    <3>3. n # 0 => flatten[n] \in Seq(T)
      OBVIOUS
    <3> HIDE DEF R
    <3> QED BY <3>1, <3>2, <3>3
  <2>4. R = Nat
    <3> HIDE DEF R
    <3>1. R \in SUBSET Nat
      BY DEF R
    <3> QED BY <2>2, <2>3, <3>1, SetInduction
  <2>5. Len(seqs) \in R /\ Len(seqs) \in 1 .. Len(seqs)
    BY <1>2, <2>4
  <2> QED BY <2>1, <2>5
<1> QED BY <1>1, <1>2

\* Distinct unfolds likewise,
LEMMA DistinctUnfolds ==
  ASSUME NEW T, NEW s \in Seq(T)
  PROVE  \E kept :
           /\ kept = [i \in 0 .. Len(s) |->
                IF i = 0 THEN <<>>
                ELSE IF s[i] \in ToSet(kept[i - 1]) THEN kept[i - 1] ELSE Append(kept[i - 1], s[i])]
           /\ Distinct(s) = kept[Len(s)]
<1> DEFINE Grow(a, i) == IF s[i] \in ToSet(a) THEN a ELSE Append(a, s[i])
           Runs(n, g) == g = [i \in 0 .. n |-> IF i = 0 THEN <<>> ELSE Grow(g[i - 1], i)]
           R == {n \in Nat : \E g : Runs(n, g)}
<1>1. 0 \in R
  <2> DEFINE g == [i \in 0 .. 0 |-> <<>>]
  <2>1. Runs(0, g)
    OBVIOUS
  <2> QED BY <2>1
<1>2. ASSUME NEW n \in R
      PROVE  n + 1 \in R
  <2>1. PICK g : Runs(n, g)
    OBVIOUS
  <2> DEFINE h == [i \in 0 .. n + 1 |-> IF i <= n THEN g[i] ELSE Grow(g[n], n + 1)]
  <2> HIDE DEF Grow
  <2>2. ASSUME NEW i \in 0 .. n + 1
        PROVE  h[i] = IF i = 0 THEN <<>> ELSE Grow(h[i - 1], i)
    <3>1. CASE i = n + 1
      BY <3>1
    <3>2. CASE i \in 0 .. n
      <4>1. h[i] = g[i] /\ (i # 0 => i - 1 \in 0 .. n /\ h[i - 1] = g[i - 1])
        BY <3>2
      <4>2. g[i] = IF i = 0 THEN <<>> ELSE Grow(g[i - 1], i)
        BY <2>1, <3>2
      <4> QED BY <4>1, <4>2
    <3> QED BY <3>1, <3>2
  <2>3. Runs(n + 1, h)
    BY <2>2
  <2> HIDE DEF Runs
  <2> QED BY <2>3
<1>3. R = Nat
  <2> HIDE DEF R
  <2>1. R \in SUBSET Nat
    BY DEF R
  <2> QED BY <1>1, <1>2, <2>1, SetInduction
<1>4. Len(s) \in R
  <2> HIDE DEF R
  <2> QED BY <1>3
<1> DEFINE kept == CHOOSE g : Runs(Len(s), g)
<1>5. Runs(Len(s), kept)
  BY <1>4
<1>6. Distinct(s) = kept[Len(s)]
  BY DEF Distinct
<1> HIDE DEF kept
<1> QED BY <1>5, <1>6

\* and is of the elements of its argument.
LEMMA DistinctType ==
  ASSUME NEW T, NEW s \in Seq(T)
  PROVE  Distinct(s) \in Seq(T)
<1>1. PICK kept :
        /\ kept = [i \in 0 .. Len(s) |->
             IF i = 0 THEN <<>>
             ELSE IF s[i] \in ToSet(kept[i - 1]) THEN kept[i - 1] ELSE Append(kept[i - 1], s[i])]
        /\ Distinct(s) = kept[Len(s)]
  BY DistinctUnfolds
<1>0. \A i \in 0 .. Len(s) : i # 0 => kept[i] \in {kept[i - 1], Append(kept[i - 1], s[i])}
  BY <1>1
<1> DEFINE R == {n \in Nat : n \in 0 .. Len(s) => kept[n] \in Seq(T)}
<1>2. 0 \in R
  BY <1>1
<1>3. ASSUME NEW n \in R
      PROVE  n + 1 \in R
  <2> SUFFICES ASSUME n + 1 \in 0 .. Len(s) PROVE kept[n + 1] \in Seq(T)
    OBVIOUS
  <2>1. kept[n] \in Seq(T) /\ s[n + 1] \in T
    OBVIOUS
  <2>2. n \in Nat /\ n + 1 # 0 /\ n + 1 - 1 = n
    OBVIOUS
  <2>3. kept[n + 1] = kept[n] \/ kept[n + 1] = Append(kept[n], s[n + 1])
    <3> HIDE DEF R
    <3> QED BY <1>0, <2>2
  <2>4. Append(kept[n], s[n + 1]) \in Seq(T)
    <3> HIDE DEF R
    <3> QED BY <2>1, AppendProperties
  <2> HIDE DEF R
  <2> QED BY <2>1, <2>3, <2>4
<1>4. R = Nat
  <2> HIDE DEF R
  <2>1. R \in SUBSET Nat
    BY DEF R
  <2> QED BY <1>2, <1>3, <2>1, SetInduction
<1>5. Len(s) \in R
  BY <1>4
<1> QED BY <1>1, <1>5

\* Where the parts of a flattened sequence are.
Holds(s, part, from) ==
  \A j \in 1 .. Len(part) : from + j \in 1 .. Len(s) /\ s[from + j] = part[j]

LEMMA HeldByMore ==
  ASSUME NEW T, NEW s \in Seq(T), NEW u \in Seq(T)
  PROVE  /\ s \o u \in Seq(T) /\ Len(s \o u) = Len(s) + Len(u) /\ Len(s) \in Nat /\ Len(u) \in Nat
         /\ Holds(s \o u, u, Len(s))
         /\ \A part, from : Holds(s, part, from) => Holds(s \o u, part, from)
<1> DEFINE v == s \o u
<1>1. /\ v \in Seq(T) /\ Len(v) = Len(s) + Len(u) /\ Len(s) \in Nat /\ Len(u) \in Nat
      /\ \A i \in 1 .. Len(s) + Len(u) : v[i] = IF i <= Len(s) THEN s[i] ELSE u[i - Len(s)]
  BY ConcatProperties
<1> HIDE DEF v
<1>2. ASSUME NEW j \in 1 .. Len(u)
      PROVE  Len(s) + j \in 1 .. Len(v) /\ v[Len(s) + j] = u[j]
  <2>1. Len(s) + j \in 1 .. Len(s) + Len(u) /\ ~(Len(s) + j <= Len(s)) /\ Len(s) + j - Len(s) = j
    BY <1>1
  <2> QED BY <1>1, <2>1
<1>3. \A i \in 1 .. Len(s) : i \in 1 .. Len(v) /\ v[i] = s[i]
  BY <1>1
<1> QED BY <1>1, <1>2, <1>3 DEF Holds, v

LEMMA FlattenIs ==
  ASSUME NEW T, NEW seqs \in Seq(Seq(T))
  PROVE  \E at : /\ at[0] = 0 /\ at[Len(seqs)] = Len(FlattenSeq(seqs))
                 /\ \A k \in 1 .. Len(seqs) :
                      /\ at[k - 1] \in Nat /\ at[k] = at[k - 1] + Len(seqs[k])
                      /\ Holds(FlattenSeq(seqs), seqs[k], at[k - 1])
<1>0. Len(seqs) \in Nat /\ \A k \in 1 .. Len(seqs) : seqs[k] \in Seq(T)
  OBVIOUS
<1>1. CASE seqs = <<>>
  <2>1. FlattenSeq(seqs) = seqs /\ Len(seqs) = 0
    BY <1>1 DEF FlattenSeq
  <2> DEFINE at == [k \in 0 .. 0 |-> 0]
  <2>2. at[0] = 0 /\ at[Len(seqs)] = Len(FlattenSeq(seqs)) /\ ~\E k \in 1 .. Len(seqs) : TRUE
    BY <2>1
  <2> HIDE DEF at
  <2> QED BY <2>2
<1>2. CASE seqs # <<>>
  <2>1. PICK flatten :
          /\ flatten = [i \in 1 .. Len(seqs) |-> IF i = 1 THEN seqs[i] ELSE flatten[i - 1] \o seqs[i]]
          /\ FlattenSeq(seqs) = flatten[Len(seqs)]
    BY <1>2, FlattenUnfolds
  <2>2. \A i \in 1 .. Len(seqs) : flatten[i] = IF i = 1 THEN seqs[i] ELSE flatten[i - 1] \o seqs[i]
    BY <2>1
  <2> DEFINE at == [k \in 0 .. Len(seqs) |-> IF k = 0 THEN 0 ELSE Len(flatten[k])]
             Good(n) == \A k \in 1 .. n :
                          /\ at[k - 1] \in Nat /\ at[k] = at[k - 1] + Len(seqs[k])
                          /\ Holds(flatten[n], seqs[k], at[k - 1])
             R == {n \in Nat : n \in 1 .. Len(seqs) => flatten[n] \in Seq(T) /\ Good(n)}
  <2>3. at[0] = 0 /\ \A k \in 1 .. Len(seqs) : at[k] = Len(flatten[k])
    BY <1>0
  <2> HIDE DEF at
  <2>4. 0 \in R
    OBVIOUS
  <2>5. ASSUME NEW n \in R
        PROVE  n + 1 \in R
    <3> SUFFICES ASSUME n + 1 \in 1 .. Len(seqs) PROVE flatten[n + 1] \in Seq(T) /\ Good(n + 1)
      OBVIOUS
    <3>1. n \in Nat /\ n + 1 - 1 = n /\ seqs[n + 1] \in Seq(T) /\ Len(seqs[n + 1]) \in Nat
      BY <1>0
    <3>2. n # 0 => n \in 1 .. Len(seqs) /\ flatten[n] \in Seq(T) /\ Good(n)
      BY <1>0
    <3> HIDE DEF R
    <3>3. CASE n = 0
      <4>1. flatten[1] = seqs[1] /\ at[1] = Len(seqs[1]) /\ 1 \in 1 .. Len(seqs)
        BY <2>2, <2>3, <3>3, 0 + 1 = 1
      <4>2. Holds(flatten[1], seqs[1], 0)
        BY <4>1 DEF Holds
      <4>3. Good(1)
        <5>1. at[1 - 1] \in Nat /\ at[1] = at[1 - 1] + Len(seqs[1])
          BY <2>3, <3>1, <3>3, <4>1
        <5>2. Holds(flatten[1], seqs[1], at[1 - 1])
          BY <2>3, <4>2
        <5>3. \A k \in 1 .. 1 : k = 1
          OBVIOUS
        <5> QED BY <5>1, <5>2, <5>3
      <4> HIDE DEF Good
      <4> QED BY <3>1, <3>3, <4>1, <4>3
    <3>4. CASE n # 0
      <4>1. flatten[n + 1] = flatten[n] \o seqs[n + 1]
        <5>1. n + 1 # 1 /\ n + 1 \in 1 .. Len(seqs)
          BY <3>1, <3>4
        <5>2. flatten[n + 1] = IF n + 1 = 1 THEN seqs[n + 1] ELSE flatten[n] \o seqs[n + 1]
          <6>1. n \in Nat /\ n + 1 - 1 = n
            BY <3>1
          <6> HIDE DEF Good
          <6> QED BY <2>2, <6>1
        <5> QED BY <5>1, <5>2
      <4>2. at[n] = Len(flatten[n]) /\ at[n + 1] = Len(flatten[n + 1])
        BY <2>3, <3>2, <3>4
      <4>3. /\ flatten[n + 1] \in Seq(T) /\ Len(flatten[n + 1]) = Len(flatten[n]) + Len(seqs[n + 1])
            /\ Len(flatten[n]) \in Nat /\ Holds(flatten[n + 1], seqs[n + 1], Len(flatten[n]))
            /\ \A part, from : Holds(flatten[n], part, from) => Holds(flatten[n + 1], part, from)
        BY <3>1, <3>2, <3>4, <4>1, HeldByMore
      <4>4. ASSUME NEW k \in 1 .. n + 1
            PROVE  /\ at[k - 1] \in Nat /\ at[k] = at[k - 1] + Len(seqs[k])
                   /\ Holds(flatten[n + 1], seqs[k], at[k - 1])
        <5>1. CASE k = n + 1
          <6>1. at[k - 1] = Len(flatten[n]) /\ at[k] = Len(flatten[n + 1])
            BY <3>1, <4>2, <5>1
          <6> QED BY <4>3, <5>1, <6>1
        <5>2. CASE k \in 1 .. n
          BY <3>2, <3>4, <4>3, <5>2
        <5> QED BY <3>1, <5>1, <5>2
      <4> QED BY <4>3, <4>4
    <3> QED BY <3>3, <3>4
  <2>6. R = Nat
    <3> HIDE DEF R
    <3>1. R \in SUBSET Nat
      BY DEF R
    <3> QED BY <2>4, <2>5, <3>1, SetInduction
  <2>7. Len(seqs) \in R /\ Len(seqs) \in 1 .. Len(seqs)
    <3> HIDE DEF R
    <3> QED BY <1>0, <1>2, <2>6
  <2>8. Good(Len(seqs))
    BY <2>7
  <2> QED BY <2>1, <2>3, <2>7, <2>8
<1> QED BY <1>1, <1>2

-----------------------------------------------------------------------------
(* Texts *)

LEMMA TextIs ==
  ASSUME NEW T, NEW t \in Seq(T)
  PROVE  IsTokens(t)
<1>1. \A i \in 1 .. Len(t) : t[i] \in ToSet(t)
  BY DEF ToSet
<1>2. t \in [1 .. Len(t) -> ToSet(t)] /\ Len(t) \in Nat
  BY <1>1
<1> QED BY <1>2, SeqDef DEF IsTokens

LEMMA TextFacts ==
  ASSUME NEW s, IsTokens(s)
  PROVE  /\ s \in Seq(ToSet(s)) /\ Len(s) \in Nat /\ DOMAIN s = 1 .. Len(s)
         /\ \A i \in DOMAIN s : s[i] \in ToSet(s)
BY DEF IsTokens

LEMMA JoinedText ==
  ASSUME NEW s, IsTokens(s), NEW t, IsTokens(t)
  PROVE  IsTokens(s \o t)
<1> DEFINE T == ToSet(s) \cup ToSet(t)
<1>1. s \in Seq(T) /\ t \in Seq(T)
  BY SeqMonotonic DEF IsTokens
<1> HIDE DEF T
<1>2. s \o t \in Seq(T)
  BY <1>1, ConcatProperties
<1> QED BY <1>2, TextIs

\* What is left of a text that shows something still does.
LEMMA TrimShows ==
  ASSUME NEW s, IsTokens(s), NEW i \in DOMAIN s, s[i] # Space
  PROVE  /\ IsTokens(TrimSpace(s)) /\ TrimSpace(s) # <<>>
         /\ \E j \in DOMAIN TrimSpace(s) : TrimSpace(s)[j] # Space
<1> DEFINE shown == {k \in DOMAIN s : s[k] # Space}
<1>1. shown # {} /\ shown \in SUBSET (1 .. Len(s)) /\ Len(s) \in Nat
  BY TextFacts
<1>2. \E m \in shown : \A k \in shown : m <= k
  <2>1. shown \in SUBSET Nat
    <3> HIDE DEF shown
    <3> QED BY <1>1
  <2> HIDE DEF shown
  <2> QED BY <1>1, <2>1, LeastNatural
<1>3. \E n \in shown : \A k \in shown : k <= n
  <2> HIDE DEF shown
  <2> QED BY <1>1, GreatestUpTo
<1> DEFINE m == Min(shown)
           n == Max(shown)
           t == SubSeq(s, m, n)
<1>4. m \in shown /\ \A k \in shown : m <= k
  <2> HIDE DEF shown
  <2> QED BY <1>2 DEF Min
<1>5. n \in shown
  <2>1. \E x \in shown : \A y \in shown : x >= y
    BY <1>1, <1>3
  <2> HIDE DEF shown
  <2> QED BY <2>1 DEF Max
<1>6. TrimSpace(s) = t
  BY <1>1 DEF TrimSpace
<1>7. m \in 1 .. Len(s) /\ n \in 1 .. Len(s) /\ m <= n /\ s[m] # Space
  BY <1>1, <1>4, <1>5
<1>8. m \in Int /\ n \in Int /\ \A k \in m .. n : s[k] \in ToSet(s)
  <2>1. Len(s) \in Nat /\ \A k \in 1 .. Len(s) : s[k] \in ToSet(s)
    BY TextFacts
  <2> HIDE DEF shown, m, n
  <2> QED BY <1>7, <2>1
<1>9. t \in Seq(ToSet(s)) /\ Len(t) = n - m + 1 /\ \A k \in 1 .. n - m + 1 : t[k] = s[m + k - 1]
  <2> HIDE DEF shown, m, n
  <2> QED BY <1>7, <1>8, SubSeqProperties
<1> HIDE DEF shown, t, m, n
<1>10. Len(t) # 0 /\ 1 \in 1 .. n - m + 1 /\ m + 1 - 1 = m
  BY <1>7, <1>8, <1>9
<1>11. t[1] = s[m] /\ 1 \in DOMAIN t /\ t # <<>>
  BY <1>9, <1>10
<1> QED BY <1>6, <1>7, <1>9, <1>11, TextIs

LEMMA NotBlank ==
  ASSUME NEW s, IsTokens(s)
  PROVE  Blank(s) <=> \A i \in DOMAIN s : s[i] = Space
BY TrimShows DEF Blank, TrimSpace

\* A text that is not blank is not blank either when it is trimmed.
LEMMA TrimmedText ==
  ASSUME NEW s, IsTokens(s), ~Blank(s)
  PROVE  IsTokens(TrimSpace(s)) /\ ~Blank(TrimSpace(s))
<1>1. PICK i \in DOMAIN s : s[i] # Space
  BY NotBlank
<1>2. IsTokens(TrimSpace(s)) /\ \E j \in DOMAIN TrimSpace(s) : TrimSpace(s)[j] # Space
  BY <1>1, TrimShows
<1> QED BY <1>2, NotBlank

LEMMA Literals == IsTokens(DefaultStateDir) /\ IsTokens(<<"/", "quarantine">>)
<1>1. DefaultStateDir \in Seq({"~", "/", "state"}) /\ <<"/", "quarantine">> \in Seq({"/", "quarantine"})
  BY DEF DefaultStateDir
<1> QED BY <1>1, TextIs

LEMMA ExpandedText ==
  ASSUME NEW p, IsTokens(p)
  PROVE  IsTokens(ExpandPath(p))
<1> DEFINE T == ToSet(p) \cup ToSet(Home) \cup UNION {ToSet(Env[v]) : v \in DOMAIN Env}
           parts == [i \in DOMAIN p |-> IF p[i] \in DOMAIN Env THEN Env[p[i]] ELSE <<p[i]>>]
           q == FlattenSeq(parts)
<1>1. parts \in Seq(Seq(T))
  <2>1. ASSUME NEW i \in DOMAIN p
        PROVE  parts[i] \in Seq(T)
    <3>1. CASE p[i] \in DOMAIN Env
      <4>1. Env[p[i]] \in Seq(ToSet(Env[p[i]])) /\ ToSet(Env[p[i]]) \subseteq T
        BY <3>1, TextAssumption DEF IsTokens
      <4> HIDE DEF T
      <4> QED BY <3>1, <4>1, SeqMonotonic
    <3>2. CASE p[i] \notin DOMAIN Env
      <4>1. p[i] \in T
        <5>1. p[i] \in ToSet(p)
          BY TextFacts
        <5> QED BY <5>1
      <4> HIDE DEF T
      <4> QED BY <3>2, <4>1
    <3> QED BY <3>1, <3>2
  <2>2. DOMAIN p = 1 .. Len(p) /\ Len(p) \in Nat
    BY TextFacts
  <2>3. parts \in [1 .. Len(p) -> Seq(T)]
    <3> HIDE DEF T
    <3> QED BY <2>1, <2>2
  <2> HIDE DEF T, parts
  <2> QED BY <2>2, <2>3, SeqDef
<1>2. q \in Seq(T)
  <2> HIDE DEF T, parts
  <2> QED BY <1>1, FlattenType
<1>3. Home \in Seq(T)
  <2>1. Home \in Seq(ToSet(Home))
    BY TextAssumption DEF IsTokens
  <2>2. ToSet(Home) \subseteq T
    OBVIOUS
  <2> HIDE DEF T
  <2> QED BY <2>1, <2>2, SeqMonotonic
<1>4. q # <<>> => Tail(q) \in Seq(T) /\ Home \o Tail(q) \in Seq(T)
  <2> HIDE DEF q, T
  <2> QED BY <1>2, <1>3, HeadTailProperties, ConcatProperties
<1>5. ExpandPath(p) = q \/ (q # <<>> /\ ExpandPath(p) = Home \o Tail(q))
  <2> HIDE DEF T
  <2> QED BY DEF ExpandPath
<1> HIDE DEF q, T
<1> QED BY <1>2, <1>4, <1>5, TextIs

\* There is a place for what is put aside only if it has a name.
LEMMA RootNamed ==
  ASSUME NEW c, IsTokens(c.quarantine_dir), IsTokens(c.state_dir), QuarantineRoot(c) # <<>>
  PROVE  ~Blank(QuarantineRoot(c))
<1>1. CASE ~Blank(c.quarantine_dir)
  BY <1>1, TrimmedText DEF QuarantineRoot
<1>2. CASE Blank(c.quarantine_dir)
  <2> DEFINE s == TrimSpace(c.state_dir)
             q == <<"/", "quarantine">>
  <2>1. ~Blank(c.state_dir) /\ QuarantineRoot(c) = s \o q
    BY <1>2 DEF QuarantineRoot
  <2>2. IsTokens(s) /\ IsTokens(q) /\ IsTokens(s \o q)
    BY <2>1, TrimmedText, JoinedText, Literals
  <2>3. PICK j \in DOMAIN s : s[j] # Space
    <3>1. ~Blank(s)
      BY <2>1, TrimmedText
    <3> HIDE DEF s
    <3> QED BY <2>2, <3>1, NotBlank
  <2>4. j \in DOMAIN (s \o q) /\ (s \o q)[j] = s[j]
    <3> DEFINE T == ToSet(s) \cup ToSet(q)
    <3>1. s \in Seq(T) /\ q \in Seq(T)
      BY <2>2, SeqMonotonic DEF IsTokens
    <3> HIDE DEF T, s, q
    <3> QED BY <3>1, ConcatProperties
  <2> HIDE DEF s, q
  <2> QED BY <2>1, <2>2, <2>3, <2>4, NotBlank
<1> QED BY <1>1, <1>2

-----------------------------------------------------------------------------
(* Load and Validate *)

\* What Load makes of a document.
LEMMA LoadIs ==
  ASSUME NEW d \in Documents
  PROVE  LET c     == Load(d)
             state == Or(d.state_dir, DefaultStateDir)
         IN /\ c.on_message_failure = Or(Tidy(d.on_message_failure), <<"quarantine">>)
            /\ c.on_degraded_filter = Or(Tidy(d.on_degraded_filter), <<"hold">>)
            /\ c.state_dir = ExpandPath(state)
            /\ c.quarantine_dir = ExpandPath(Or(d.quarantine_dir, state \o <<"/", "quarantine">>))
            /\ c.accounts = [i \in DOMAIN d.accounts |-> c.accounts[i]]
            /\ c.rules = [i \in DOMAIN d.rules |-> ExpandRule(DefaultRule(d.rules[i]))]
<1> DEFINE a == ApplyDefaults(d)
           c == Load(d)
           state == Or(d.state_dir, DefaultStateDir)
<1>1. DOMAIN d = {"state_dir", "quarantine_dir", "on_message_failure", "on_degraded_filter", "accounts", "rules"}
  BY DocumentAssumption
<1>2. /\ DOMAIN a = DOMAIN d
      /\ a.on_message_failure = Or(Tidy(d.on_message_failure), <<"quarantine">>)
      /\ a.on_degraded_filter = Or(Tidy(d.on_degraded_filter), <<"hold">>)
      /\ a.state_dir = state
      /\ a.quarantine_dir = Or(d.quarantine_dir, state \o <<"/", "quarantine">>)
      /\ a.accounts = [i \in DOMAIN d.accounts |-> DefaultAccount(d.accounts[i])]
      /\ a.rules = [i \in DOMAIN d.rules |-> DefaultRule(d.rules[i])]
  BY <1>1 DEF ApplyDefaults
<1> HIDE DEF a
<1>0. c = ExpandPaths(a)
  BY DEF Load, a
<1> HIDE DEF c
<1>3. /\ c.on_message_failure = a.on_message_failure /\ c.on_degraded_filter = a.on_degraded_filter
      /\ c.state_dir = ExpandPath(a.state_dir) /\ c.quarantine_dir = ExpandPath(a.quarantine_dir)
      /\ c.accounts = [i \in DOMAIN a.accounts |-> c.accounts[i]]
      /\ c.rules = [i \in DOMAIN a.rules |-> ExpandRule(a.rules[i])]
  BY <1>0, <1>1, <1>2 DEF ExpandPaths
<1>4. \A i \in DOMAIN d.rules : a.rules[i] = DefaultRule(d.rules[i])
  BY <1>2
<1>5. DOMAIN a.rules = DOMAIN d.rules /\ DOMAIN a.accounts = DOMAIN d.accounts
  BY <1>2
<1>6. c.rules = [i \in DOMAIN d.rules |-> ExpandRule(DefaultRule(d.rules[i]))]
  BY <1>3, <1>4, <1>5
<1> QED BY <1>2, <1>3, <1>5, <1>6 DEF c

\* A rule keeps its account, and its formats are never missing.
LEMMA LoadedRule ==
  ASSUME NEW d \in Documents, NEW i \in DOMAIN d.rules
  PROVE  /\ DOMAIN Load(d).rules = DOMAIN d.rules
         /\ Load(d).rules[i].formats # <<>>
<1> DEFINE r == d.rules[i]
           t == DefaultRule(r)
<1>1. DOMAIN r = {"name", "account", "match", "dest", "formats"} /\ r.formats \in Seq(ToSet(r.formats))
  BY DocumentAssumption
<1>2. DOMAIN t = DOMAIN r /\ t.formats = IF r.formats = <<>> THEN <<<<"eml">>>> ELSE [j \in DOMAIN r.formats |-> Tidy(r.formats[j])]
  BY <1>1 DEF DefaultRule
<1>3. t.formats # <<>>
  <2>1. CASE r.formats = <<>>
    BY <1>2, <2>1
  <2>2. CASE r.formats # <<>>
    <3>1. DOMAIN t.formats = DOMAIN r.formats
      BY <1>2, <2>2
    <3>2. 1 \in DOMAIN r.formats /\ 1 \notin DOMAIN <<>>
      BY <1>1, <2>2
    <3> QED BY <3>1, <3>2
  <2> QED BY <2>1, <2>2
<1> HIDE DEF t
<1>4. ExpandRule(t).formats = t.formats
  BY <1>1, <1>2 DEF ExpandRule
<1> QED BY <1>3, <1>4, LoadIs DEF t

\* An error keeps a configuration from being used.
LEMMA NoErrors ==
  ASSUME NEW problems, Usable(problems), NEW field, NEW i, Error(field, i) \in problems
  PROVE  FALSE
BY DEF Usable, Error

LEMMA Settled ==
  ASSUME NEW known, NEW text, NEW default \in known, Blank(Or(text, default)) \/ Or(text, default) \in known
  PROVE  Or(text, default) \in known
BY DEF Or

LEMMA AcceptedPolicies ==
  ASSUME NEW d \in Documents, NEW there, NEW spoiled, Usable(Validate(Load(d), there, spoiled))
  PROVE  LET c == Load(d) IN
         /\ c.on_message_failure \in Policies /\ c.on_degraded_filter \in Degradations
         /\ MessageFailure(c) = <<"quarantine">> => ~Blank(QuarantineRoot(c))
<1> DEFINE c == Load(d)
<1>1. ValidatePolicies(c) \subseteq Validate(c, there, spoiled)
  BY DEF Validate
<1>2. Blank(c.on_message_failure) \/ c.on_message_failure \in Policies
  <2> HIDE DEF c
  <2>1. ~(~Blank(c.on_message_failure) /\ c.on_message_failure \notin Policies)
    <3> SUFFICES ASSUME ~Blank(c.on_message_failure) /\ c.on_message_failure \notin Policies PROVE FALSE
      OBVIOUS
    <3>1. Error("on_message_failure", 0) \in ValidatePolicies(c)
      BY DEF ValidatePolicies, When
    <3> QED BY <1>1, <3>1, NoErrors DEF c
  <2> QED BY <2>1
<1>3. Blank(c.on_degraded_filter) \/ c.on_degraded_filter \in Degradations
  <2> HIDE DEF c
  <2>1. ~(~Blank(c.on_degraded_filter) /\ c.on_degraded_filter \notin Degradations)
    <3> SUFFICES ASSUME ~Blank(c.on_degraded_filter) /\ c.on_degraded_filter \notin Degradations PROVE FALSE
      OBVIOUS
    <3>1. Error("on_degraded_filter", 0) \in ValidatePolicies(c)
      BY DEF ValidatePolicies, When
    <3> QED BY <1>1, <3>1, NoErrors DEF c
  <2> QED BY <2>1
<1>4. MessageFailure(c) = <<"quarantine">> => QuarantineRoot(c) # <<>>
  <2> HIDE DEF c
  <2> SUFFICES ASSUME MessageFailure(c) = <<"quarantine">> /\ QuarantineRoot(c) = <<>> PROVE FALSE
    OBVIOUS
  <2>1. Error("quarantine_dir", 0) \in ValidatePolicies(c)
    BY DEF ValidatePolicies, When
  <2> QED BY <1>1, <2>1, NoErrors DEF c
<1>5. <<"quarantine">> \in Policies /\ <<"hold">> \in Degradations
  BY DEF Policies, Degradations
<1>6. IsTokens(c.state_dir) /\ IsTokens(c.quarantine_dir)
  <2> DEFINE state == Or(d.state_dir, DefaultStateDir)
             place == Or(d.quarantine_dir, state \o <<"/", "quarantine">>)
  <2>1. IsTokens(d.state_dir) /\ IsTokens(d.quarantine_dir)
    BY DocumentAssumption
  <2>2. IsTokens(state)
    BY <2>1, Literals DEF Or
  <2>3. IsTokens(state \o <<"/", "quarantine">>)
    <3> HIDE DEF state
    <3> QED BY <2>2, Literals, JoinedText
  <2>4. IsTokens(place)
    <3> HIDE DEF state
    <3> QED BY <2>1, <2>3 DEF Or
  <2> HIDE DEF state, place
  <2>5. c.state_dir = ExpandPath(state) /\ c.quarantine_dir = ExpandPath(place)
    BY LoadIs DEF state, place
  <2> QED BY <2>2, <2>4, <2>5, ExpandedText
<1>7. c.on_message_failure \in Policies /\ c.on_degraded_filter \in Degradations
  <2>1. c.on_message_failure = Or(Tidy(d.on_message_failure), <<"quarantine">>)
        /\ c.on_degraded_filter = Or(Tidy(d.on_degraded_filter), <<"hold">>)
    BY LoadIs
  <2> HIDE DEF c
  <2> QED BY <1>2, <1>3, <1>5, <2>1, Settled
<1>8. MessageFailure(c) = <<"quarantine">> => ~Blank(QuarantineRoot(c))
  <2> HIDE DEF c
  <2> QED BY <1>4, <1>6, RootNamed
<1> QED BY <1>7, <1>8
LEMMA AcceptedRule ==
  ASSUME NEW d \in Documents, NEW there, NEW spoiled, Usable(Validate(Load(d), there, spoiled)),
         NEW i \in DOMAIN Load(d).rules
  PROVE  LET c == Load(d)
             r == c.rules[i]
         IN /\ Compiles(r.match) /\ ToSet(r.formats) \subseteq KnownFormats
            /\ \E j \in DOMAIN c.accounts : AppliesTo(r, c.accounts[j].name)
<1> DEFINE c == Load(d)
           r == c.rules[i]
           all == Validate(c, there, spoiled)
<1>0. c.accounts = [k \in DOMAIN d.accounts |-> c.accounts[k]] /\ d.accounts \in Seq(ToSet(d.accounts))
  BY LoadIs, DocumentAssumption
<1> HIDE DEF c
<1>1. UNION {When(UnknownAccount(c, r), Error("rule.account", i)), When(Blank(r.dest), Error("dest", i)),
             ValidateFormats(r, i), ValidateMatch(r, i, there, spoiled)} \subseteq all
  BY DEF Validate, ValidateRules, c
<1>2. /\ When(UnknownAccount(c, r), Error("rule.account", i)) \subseteq all
      /\ ValidateFormats(r, i) \subseteq all /\ ValidateMatch(r, i, there, spoiled) \subseteq all
      /\ When(c.accounts = <<>>, Error("accounts", 0)) \subseteq all
  <2>1. When(c.accounts = <<>>, Error("accounts", 0)) \subseteq all
    BY DEF Validate, ValidateAccounts
  <2> HIDE DEF all, r
  <2> QED BY <1>1, <2>1
<1>3. ASSUME NEW field, NEW k, Error(field, k) \in all
      PROVE  FALSE
  <2>1. Usable(all)
    BY DEF c
  <2> HIDE DEF all
  <2> QED BY <1>3, <2>1, NoErrors
<1> HIDE DEF all, r
<1>4. Compiles(r.match)
  <2> SUFFICES ASSUME ~Compiles(r.match) PROVE FALSE
    OBVIOUS
  <2>1. Error("match", i) \in ValidateMatch(r, i, there, spoiled)
    BY DEF ValidateMatch, When
  <2> QED BY <1>2, <1>3, <2>1
<1>5. ToSet(r.formats) \subseteq KnownFormats
  <2> SUFFICES ASSUME ToSet(r.formats) \ KnownFormats # {} PROVE FALSE
    OBVIOUS
  <2>1. Error("formats", i) \in ValidateFormats(r, i)
    BY DEF ValidateFormats, When
  <2> QED BY <1>2, <1>3, <2>1
<1>6. c.accounts # <<>> /\ ~UnknownAccount(c, r)
  <2>1. ASSUME c.accounts = <<>> PROVE FALSE
    BY <1>2, <1>3, <2>1 DEF When
  <2>2. ASSUME UnknownAccount(c, r) PROVE FALSE
    BY <1>2, <1>3, <2>2 DEF When
  <2> QED BY <2>1, <2>2
<1>7. \E j \in DOMAIN c.accounts : AppliesTo(r, c.accounts[j].name)
  <2>1. CASE r.account = <<>>
    <3>1. DOMAIN c.accounts # {}
      <4>1. ASSUME DOMAIN c.accounts = {}
            PROVE  c.accounts = <<>>
        BY <1>0, <4>1
      <4> QED BY <1>6, <4>1
    <3> QED BY <2>1, <3>1 DEF AppliesTo
  <2>2. CASE r.account # <<>>
    <3>1. r.account \in AccountNames(c)
      BY <1>6, <2>2 DEF UnknownAccount
    <3> QED BY <3>1 DEF AccountNames, AppliesTo
  <2> QED BY <2>1, <2>2
<1> QED BY <1>4, <1>5, <1>7 DEF c, r

-----------------------------------------------------------------------------
(* The lists of a cycle *)

Refs == [kind : FileKeys, path : Paths]

Shape ==
  /\ \E d \in Documents, there, spoiled \in SUBSET Paths :
       config = Load(d) /\ Usable(Validate(config, there, spoiled))
  /\ refs \in Seq(Refs) /\ todo \in Seq(Refs) /\ ToSet(todo) \subseteq ToSet(refs)
  /\ disk \in [Paths -> Contents] /\ during \in [Paths -> SUBSET Contents]
  /\ phase \in {"idle", "preload", "evaluate"}
  /\ cache = [r \in DOMAIN cache |-> cache[r]] /\ DOMAIN cache \subseteq ToSet(refs)

\* A cached list is what some file of this cycle holds; if that was not read in
\* full, its path is degraded.
Readings ==
  /\ \A p \in Paths : disk[p] \in during[p]
  /\ \A r \in DOMAIN cache : \E file \in during[r.path] :
       /\ cache[r] = ReadList(r, file).list
       /\ ReadList(r, file).failed => r.path \in degraded

\* Preload leaves no list unread, and what it reports is all there is to report.
Complete ==
  /\ phase = "preload" => ToSet(refs) \subseteq DOMAIN cache \cup ToSet(todo) /\ verdicts = <<>>
  /\ phase = "evaluate" \/ verdicts # <<>> => DOMAIN cache = ToSet(refs) /\ reported = degraded

\* Every verdict of a cycle is one the lists in the cache lead to.
Judged == \A m \in DOMAIN verdicts : verdicts[m] = FirstRule(config.rules, Messages[m], cache)

IInv == Shape /\ Readings /\ Complete /\ Judged

LEMMA ReadingIs ==
  ASSUME NEW r \in Refs, NEW file \in Contents
  PROVE  Reading[r.kind][file] = ReadList(r, file)
<1>1. r.kind \in FileKeys
  BY DEF Refs
<1>2. Reading[r.kind][file] = ReadList(Ref(r.kind, <<>>), file)
  BY <1>1 DEF Reading
<1>3. Ref(r.kind, <<>>).kind = r.kind
  BY DEF Ref
<1> QED BY <1>2, <1>3 DEF ReadList

LEMMA RefTypes ==
  ASSUME Shape, NEW r \in ToSet(refs)
  PROVE  r \in Refs /\ r.path \in Paths
<1>1. r \in Refs
  BY DEF Shape, ToSet
<1> QED BY <1>1 DEF Refs

\* What is read comes from a file that stands there, and a failure is noted.
LEMMA CachedKeeps ==
  ASSUME Shape, Readings, NEW wanted \in SUBSET ToSet(refs), Cached(wanted)
  PROVE  /\ DOMAIN cache' = DOMAIN cache \cup wanted
         /\ cache' = [r \in DOMAIN cache' |-> cache'[r]]
         /\ \A r \in DOMAIN cache' : \E file \in during[r.path] :
              /\ cache'[r] = ReadList(r, file).list
              /\ ReadList(r, file).failed => r.path \in degraded'
<1> DEFINE first == wanted \ DOMAIN cache
           read  == [r \in first |-> Reading[r.kind][disk[r.path]]]
<1>1. /\ cache' = [r \in DOMAIN cache \cup first |-> IF r \in first THEN read[r].list ELSE cache[r]]
      /\ degraded' = degraded \cup {r.path : r \in {q \in first : read[q].failed}}
  BY DEF Cached
<1>2. ASSUME NEW r \in first
      PROVE  disk[r.path] \in during[r.path] /\ read[r] = ReadList(r, disk[r.path])
  <2>1. r \in Refs /\ r.path \in Paths
    BY RefTypes
  <2>2. disk[r.path] \in Contents /\ disk[r.path] \in during[r.path]
    BY <2>1 DEF Shape, Readings
  <2> QED BY <2>1, <2>2, ReadingIs
<1> HIDE DEF read
<1>3. ASSUME NEW r \in DOMAIN cache'
      PROVE  \E file \in during[r.path] : /\ cache'[r] = ReadList(r, file).list
                                          /\ ReadList(r, file).failed => r.path \in degraded'
  <2>1. CASE r \in first
    BY <1>1, <1>2, <2>1
  <2>2. CASE r \notin first
    <3>1. r \in DOMAIN cache /\ cache'[r] = cache[r]
      BY <1>1, <2>2
    <3> QED BY <1>1, <3>1 DEF Readings
  <2> QED BY <2>1, <2>2
<1> QED BY <1>1, <1>3

\* The files of the rules of a configuration in force are list files.
LEMMA RefsType ==
  ASSUME NEW d \in Documents, NEW there, NEW spoiled, Usable(Validate(Load(d), there, spoiled))
  PROVE  EngineRefs(Load(d).rules) \in Seq(Refs)
<1> DEFINE c == Load(d)
           lists == [i \in DOMAIN c.rules |-> FileRefs(c.rules[i].match)]
<1>1. DOMAIN c.rules = DOMAIN d.rules /\ DOMAIN d.rules = 1 .. Len(d.rules) /\ Len(d.rules) \in Nat
  <2>1. d.rules \in Seq(ToSet(d.rules))
    BY DocumentAssumption
  <2>2. DOMAIN c.rules = DOMAIN d.rules
    BY LoadIs
  <2> QED BY <2>1, <2>2
<1>2. ASSUME NEW i \in DOMAIN d.rules
      PROVE  FileRefs(c.rules[i].match) \in Seq(Refs)
  <2>1. Compiles(c.rules[i].match)
    BY <1>1, AcceptedRule
  <2> QED BY <2>1, WalkAssumption DEF Refs
<1>3. lists \in Seq(Seq(Refs))
  <2>1. lists \in [1 .. Len(d.rules) -> Seq(Refs)]
    <3> HIDE DEF c
    <3> QED BY <1>1, <1>2
  <2> HIDE DEF lists
  <2> QED BY <1>1, <2>1, SeqDef
<1> HIDE DEF lists
<1>4. Distinct(FlattenSeq(lists)) \in Seq(Refs)
  BY <1>3, FlattenType, DistinctType
<1> QED BY <1>4 DEF EngineRefs, lists

-----------------------------------------------------------------------------
LEMMA Start == Init => IInv
<1> SUFFICES ASSUME Init PROVE IInv
  OBVIOUS
<1>1. PICK d \in Documents : config = Load(d) /\ Usable(Validate(config, Existing(disk), Spoiled(disk)))
  BY DEF Init
<1>2. Existing(disk) \in SUBSET Paths /\ Spoiled(disk) \in SUBSET Paths
  BY DEF Existing, Spoiled
<1>3. refs \in Seq(Refs)
  BY <1>1, RefsType DEF Init
<1>4. disk \in [Paths -> Contents] /\ during = [p \in Paths |-> {disk[p]}]
  BY DEF Init
<1>5. DOMAIN cache = {} /\ cache = [r \in DOMAIN cache |-> cache[r]] /\ DOMAIN verdicts = {} /\ verdicts = <<>>
      /\ phase = "idle" /\ todo = <<>>
  BY DEF Init
<1>6. todo \in Seq(Refs) /\ ToSet(todo) = {}
  BY <1>5 DEF ToSet
<1>7. Shape
  BY <1>1, <1>2, <1>3, <1>4, <1>5, <1>6 DEF Shape
<1> QED BY <1>4, <1>5, <1>7 DEF IInv, Readings, Complete, Judged

\* What never changes.
LEMMA ShapeStays ==
  ASSUME Shape, UNCHANGED <<config, refs, disk, during>>,
         todo' \in Seq(Refs), ToSet(todo)' \subseteq ToSet(refs), phase' \in {"idle", "preload", "evaluate"},
         cache' = [r \in DOMAIN cache' |-> cache'[r]], DOMAIN cache' \subseteq ToSet(refs)
  PROVE  Shape'
BY DEF Shape

LEMMA Step == IInv /\ [Next]_filterVars => IInv'
<1> SUFFICES ASSUME IInv, [Next]_filterVars PROVE IInv'
  OBVIOUS
<1>0. Shape /\ Readings /\ Complete /\ Judged
  BY DEF IInv
<1>1. CASE BeginCycle
  <2>1. /\ UNCHANGED <<config, refs, disk>> /\ phase' = "preload" /\ todo' = refs /\ verdicts' = <<>>
        /\ cache' = <<>> /\ during' = [p \in Paths |-> {disk[p]}]
    BY <1>1 DEF BeginCycle, Forget
  <2>2. DOMAIN cache' = {} /\ cache' = [r \in DOMAIN cache' |-> cache'[r]] /\ DOMAIN verdicts' = {}
    BY <2>1
  <2>3. Shape'
    BY <1>0, <2>1, <2>2 DEF Shape
  <2> QED BY <1>0, <2>1, <2>2, <2>3 DEF IInv, Readings, Complete, Judged, Shape
<1>2. CASE Preload
  <2>1. CASE todo # <<>>
    <3>1. Head(todo) \in ToSet(refs) /\ Tail(todo) \in Seq(Refs) /\ ToSet(Tail(todo)) \subseteq ToSet(refs)
          /\ ToSet(todo) = {Head(todo)} \cup ToSet(Tail(todo))
      <4>1. todo \in Seq(Refs) /\ ToSet(todo) \subseteq ToSet(refs)
        BY <1>0 DEF Shape
      <4>2. Tail(todo) \in Seq(Refs) /\ ToSet(todo) = {Head(todo)} \cup ToSet(Tail(todo))
        BY <2>1, <4>1, HeadAndTail
      <4> QED BY <4>1, <4>2
    <3>2. /\ phase = "preload" /\ Cached({Head(todo)}) /\ todo' = Tail(todo)
          /\ UNCHANGED <<phase, reported, config, refs, disk, verdicts, edits, during>>
      BY <1>2, <2>1 DEF Preload
    <3>3. /\ DOMAIN cache' = DOMAIN cache \cup {Head(todo)}
          /\ cache' = [r \in DOMAIN cache' |-> cache'[r]]
          /\ \A r \in DOMAIN cache' : \E file \in during[r.path] :
               /\ cache'[r] = ReadList(r, file).list
               /\ ReadList(r, file).failed => r.path \in degraded'
      BY <1>0, <3>1, <3>2, CachedKeeps
    <3>4. Shape'
      <4>1. ToSet(todo)' \subseteq ToSet(refs)
        BY <3>1, <3>2
      <4> QED BY <1>0, <3>1, <3>2, <3>3, <4>1, ShapeStays DEF Shape
    <3>5. Readings'
      BY <1>0, <3>2, <3>3 DEF Readings
    <3>6. Complete'
      <4>1. ToSet(todo)' = ToSet(Tail(todo)) /\ ToSet(refs)' = ToSet(refs)
        BY <3>2
      <4> QED BY <1>0, <3>1, <3>2, <3>3, <4>1 DEF Complete
    <3>7. Judged'
      <4>1. verdicts' = <<>>
        BY <1>0, <3>2 DEF Complete
      <4> QED BY <4>1 DEF Judged
    <3> QED BY <3>4, <3>5, <3>6, <3>7 DEF IInv
  <2>2. CASE todo = <<>>
    <3>1. /\ phase = "preload" /\ phase' = "evaluate" /\ reported' = degraded
          /\ UNCHANGED <<cache, degraded, todo, config, refs, disk, verdicts, edits, during>>
      BY <1>2, <2>2 DEF Preload
    <3>2. ToSet(todo) = {} /\ ToSet(todo)' = ToSet(todo) /\ ToSet(refs)' = ToSet(refs)
      BY <2>2, <3>1 DEF ToSet
    <3>3. DOMAIN cache = ToSet(refs)
      BY <1>0, <3>1, <3>2 DEF Complete, Shape
    <3>4. Shape'
      BY <1>0, <3>1, <3>2, ShapeStays DEF Shape
    <3> QED BY <1>0, <3>1, <3>2, <3>3, <3>4 DEF IInv, Readings, Complete, Judged
  <2> QED BY <2>1, <2>2
<1>3. ASSUME NEW m \in DOMAIN Messages, Evaluate(m)
      PROVE  IInv'
  <2>1. /\ phase = "evaluate" /\ Cached(ToSet(refs))
        /\ verdicts' = [k \in DOMAIN verdicts \cup {m} |->
             IF k = m THEN FirstRule(config.rules, Messages[m], cache') ELSE verdicts[k]]
        /\ UNCHANGED <<config, refs, disk, phase, todo, reported, edits, during>>
    BY <1>3 DEF Evaluate
  <2>2. DOMAIN cache = ToSet(refs) /\ reported = degraded
    BY <1>0, <2>1 DEF Complete
  <2>3. cache' = cache /\ degraded' = degraded
    <3>1. ToSet(refs) \ DOMAIN cache = {}
      BY <2>2
    <3>2. cache' = [r \in DOMAIN cache |-> cache[r]] /\ degraded' = degraded
      BY <2>1, <3>1 DEF Cached
    <3> QED BY <1>0, <3>2 DEF Shape
  <2>4. Shape'
    <3>1. ToSet(todo)' = ToSet(todo)
      BY <2>1
    <3> QED BY <1>0, <2>1, <2>3, <3>1, ShapeStays DEF Shape
  <2>5. Judged'
    BY <1>0, <2>1, <2>3 DEF Judged
  <2>6. Complete'
    <3>1. ToSet(refs)' = ToSet(refs)
      BY <2>1
    <3> QED BY <2>1, <2>2, <2>3, <3>1 DEF Complete
  <2> QED BY <1>0, <2>1, <2>3, <2>4, <2>5, <2>6 DEF IInv, Readings
<1>4. CASE EndCycle
  <2>1. /\ phase = "evaluate" /\ phase' = "idle"
        /\ UNCHANGED <<config, refs, disk, cache, degraded, todo, reported, verdicts, edits, during>>
    BY <1>4 DEF EndCycle
  <2>2. ToSet(todo)' = ToSet(todo) /\ ToSet(refs)' = ToSet(refs)
    BY <2>1
  <2>3. Shape'
    BY <1>0, <2>1, <2>2, ShapeStays DEF Shape
  <2> QED BY <1>0, <2>1, <2>2, <2>3 DEF IInv, Readings, Complete, Judged
<1>5. ASSUME NEW p \in Paths, NEW file \in Contents, Edit(p, file)
      PROVE  IInv'
  <2>1. /\ disk' = [disk EXCEPT ![p] = file] /\ during' = [during EXCEPT ![p] = @ \cup {file}]
        /\ UNCHANGED <<config, refs, cache, degraded, phase, todo, reported, verdicts>>
    BY <1>5 DEF Edit
  <2>2. /\ disk \in [Paths -> Contents] /\ during \in [Paths -> SUBSET Contents]
        /\ \A q \in Paths : disk[q] \in during[q]
    BY <1>0 DEF Shape, Readings
  <2>3. disk' \in [Paths -> Contents] /\ during' \in [Paths -> SUBSET Contents]
    BY <2>1, <2>2
  <2>4. \A q \in Paths : during[q] \subseteq during'[q] /\ disk'[q] \in during'[q]
    BY <2>1, <2>2
  <2>5. ToSet(todo)' = ToSet(todo) /\ ToSet(refs)' = ToSet(refs)
    BY <2>1
  <2>6. Shape'
    BY <1>0, <2>1, <2>3, <2>5 DEF Shape
  <2>7. Readings'
    <3>1. ASSUME NEW r \in DOMAIN cache
          PROVE  \E old \in during'[r.path] : /\ cache[r] = ReadList(r, old).list
                                              /\ ReadList(r, old).failed => r.path \in degraded
      <4>1. r.path \in Paths
        BY <1>0, RefTypes DEF Shape
      <4> QED BY <1>0, <2>4, <4>1 DEF Readings
    <3> QED BY <2>1, <2>4, <3>1 DEF Readings
  <2> QED BY <1>0, <2>1, <2>5, <2>6, <2>7 DEF IInv, Complete, Judged
<1>6. CASE UNCHANGED filterVars
  <2>1. UNCHANGED <<config, refs, disk, cache, degraded, phase, todo, reported, verdicts, during>>
    BY <1>6 DEF filterVars
  <2>2. ToSet(todo)' = ToSet(todo) /\ ToSet(refs)' = ToSet(refs)
    BY <2>1
  <2>3. Shape'
    BY <1>0, <2>1, <2>2, ShapeStays DEF Shape
  <2> QED BY <1>0, <2>1, <2>2, <2>3 DEF IInv, Readings, Complete, Judged
<1> QED BY <1>1, <1>2, <1>3, <1>4, <1>5, <1>6 DEF Next, Cycle

\* In every behaviour a cycle's lists can be traced to files of this cycle.
THEOREM Invariance == Spec => []IInv
BY Start, Step, PTL DEF Spec
\* A verdict without a degraded list is one that files read whole lead to.
THEOREM Heard == Spec => []NoSilentMiss
<1>1. ASSUME IInv
      PROVE  NoSilentMiss
  <2>1. SUFFICES ASSUME reported = {}, verdicts # <<>> PROVE NoSilentMiss
    BY DEF NoSilentMiss
  <2>2. Shape /\ Readings /\ DOMAIN cache = ToSet(refs) /\ degraded = {}
    BY <1>1, <2>1 DEF IInv, Complete
  <2> DEFINE Fits(r, file) == cache[r] = ReadList(r, file).list /\ ~ReadList(r, file).failed
             stood == [r \in ToSet(refs) |-> CHOOSE file \in during[r.path] : Fits(r, file)]
  <2>3. ASSUME NEW r \in ToSet(refs)
        PROVE  stood[r] \in during[r.path] /\ Fits(r, stood[r]) /\ r.path \in Paths
    <3>1. \E file \in during[r.path] : Fits(r, file)
      BY <2>2 DEF Readings
    <3> HIDE DEF Fits
    <3> QED BY <2>2, <3>1, RefTypes
  <2>4. \A r \in ToSet(refs) : Whole(r, stood[r])
    <3> HIDE DEF stood
    <3>1. ASSUME NEW r \in ToSet(refs), NEW file, ~ReadList(r, file).failed
          PROVE  Whole(r, file)
      <4>1. r.kind \in FileKeys
        BY <2>2, RefTypes DEF Refs
      <4>2. file.there
        <5>1. ASSUME ~file.there
              PROVE  ReadList(r, file) = [list |-> <<>>, failed |-> TRUE]
          BY <5>1 DEF ReadList
        <5> QED BY <3>1, <5>1
      <4>3. CASE r.kind = "from_domains_file"
        BY <3>1, <4>2, <4>3 DEF ReadList, Whole
      <4>4. CASE r.kind = "from_regex_file"
        <5>1. ~PatternFileStats(file).failed
          BY <3>1, <4>2, <4>4 DEF ReadList
        <5>2. ~file.cut /\ \A i \in DOMAIN PatternLines(file.lines) : CompilesListPattern(PatternLines(file.lines)[i])
          BY <5>1 DEF PatternFileStats
        <5> QED BY <4>2, <5>2 DEF Whole, ToSet
      <4> QED BY <4>1, <4>3, <4>4 DEF FileKeys
    <3> QED BY <2>3, <3>1
  <2>5. cache = [r \in DOMAIN stood |-> ReadList(r, stood[r]).list]
    <3>1. DOMAIN stood = ToSet(refs)
      OBVIOUS
    <3> HIDE DEF stood
    <3> QED BY <2>2, <2>3, <3>1 DEF Shape
  <2>6. stood \in [ToSet(refs) -> UNION {during[p] : p \in Paths}]
    <3>1. \A r \in ToSet(refs) : stood[r] \in UNION {during[p] : p \in Paths}
      <4> HIDE DEF stood
      <4> QED BY <2>3
    <3> QED BY <3>1
  <2>7. \A m \in DOMAIN verdicts : verdicts[m] = FirstRule(config.rules, Messages[m], cache)
    BY <1>1 DEF IInv, Judged
  <2> HIDE DEF stood, Fits
  <2>8. \A r \in DOMAIN stood : stood[r] \in during[r.path] /\ Whole(r, stood[r])
    BY <2>3, <2>4, <2>6
  <2> QED BY <2>5, <2>6, <2>7, <2>8 DEF NoSilentMiss
<1> QED BY <1>1, Invariance, PTL

\* Validate leaves nothing open that filtering needs.
THEOREM Accepted == Spec => []AcceptedIsComplete
<1>1. ASSUME IInv
      PROVE  AcceptedIsComplete
  <2>1. PICK d \in Documents, there, spoiled \in SUBSET Paths :
          config = Load(d) /\ Usable(Validate(config, there, spoiled))
    BY <1>1 DEF IInv, Shape
  <2>2. /\ config.on_message_failure \in Policies /\ config.on_degraded_filter \in Degradations
        /\ MessageFailure(config) = <<"quarantine">> => ~Blank(QuarantineRoot(config))
    BY <2>1, AcceptedPolicies
  <2>3. ASSUME NEW i \in DOMAIN config.rules
        PROVE  LET r == config.rules[i] IN
               /\ Compiles(r.match) /\ AccountsFor(r) # {}
               /\ r.formats # <<>> /\ ToSet(r.formats) \subseteq KnownFormats
               /\ \A ref \in ToSet(FileRefs(r.match)) : ~Blank(ref.path)
    <3> DEFINE r == config.rules[i]
    <3>1. /\ Compiles(r.match) /\ ToSet(r.formats) \subseteq KnownFormats
          /\ \E j \in DOMAIN config.accounts : AppliesTo(r, config.accounts[j].name)
      BY <2>1, AcceptedRule
    <3>2. AccountsFor(r) # {}
      <4> HIDE DEF r
      <4> QED BY <3>1 DEF AccountsFor
    <3>3. i \in DOMAIN d.rules
      BY <2>1, LoadIs
    <3>4. r.formats # <<>>
      BY <2>1, <3>3, LoadedRule
    <3>5. \A ref \in ToSet(FileRefs(r.match)) : ~Blank(ref.path)
      BY <2>1, <3>1, <3>3, WalkAssumption
    <3> QED BY <3>1, <3>2, <3>4, <3>5
  <2> QED BY <2>2, <2>3 DEF AcceptedIsComplete, MessageFailure, DegradedFilter
<1> QED BY <1>1, Invariance, PTL

-----------------------------------------------------------------------------
(* `init` *)

Questions == {"provider", "account", "dest", "host", "username", "password_cmd"}

SetupInv ==
  /\ "force" \in DOMAIN opts
  /\ asked \in Seq(Questions) /\ (step \in {"check", "ask"} => asked # <<>>)
  /\ step = "fill" => written = "partial"
  /\ NeverClobbered

\* No answer changes the flag, and what is left to ask are questions.
LEMMA SettleKeeps ==
  ASSUME SetupInv, step = "ask", NEW value, I!Settle(Head(asked), value)
  PROVE  /\ DOMAIN opts' = DOMAIN opts /\ opts'.force = opts.force
         /\ asked' \in Seq(Questions) /\ (step' = "ask" => asked' # <<>>) /\ step' # "check" /\ step' # "fill"
<1>1. Head(asked) \in Questions /\ Tail(asked) \in Seq(Questions)
  BY DEF SetupInv
<1>2. Head(asked) # "force"
  BY <1>1 DEF Questions
<1>3. DOMAIN opts' = DOMAIN opts /\ opts'.force = opts.force
  BY <1>2 DEF I!Settle, SetupInv
<1>4. /\ Tail(asked) \o <<"host", "username", "password_cmd">> \in Seq(Questions)
      /\ Tail(asked) \o <<>> \in Seq(Questions)
  BY <1>1 DEF Questions
<1>5. asked' \in Seq(Questions) /\ (step' = "ask" => asked' # <<>>) /\ step' # "check" /\ step' # "fill"
  BY <1>4 DEF I!Settle, SetupInv
<1> QED BY <1>3, <1>5

LEMMA SetupStart == I!Init => SetupInv
<1> SUFFICES ASSUME I!Init PROVE SetupInv
  OBVIOUS
<1>1. <<"provider", "account", "dest">> \in Seq(Questions)
  BY DEF Questions
<1> QED BY <1>1, InvocationAssumption DEF I!Init, SetupInv, NeverClobbered, I!NeverClobbered

\* A configuration is only ever replaced where there is none, or with --force.
LEMMA SetupStep == SetupInv /\ [I!Next]_(I!setupVars) => SetupInv'
<1> SUFFICES ASSUME SetupInv, [I!Next]_(I!setupVars) PROVE SetupInv'
  OBVIOUS
<1> USE DEF SetupInv, NeverClobbered, I!NeverClobbered
<1>1. CASE I!RefuseExistingConfig
  BY <1>1 DEF I!RefuseExistingConfig
<1>2. CASE I!Answer
  <2>1. step = "ask" /\ UNCHANGED <<written, theirs>>
    BY <1>2 DEF I!Answer
  <2>2. (\E value : I!Settle(Head(asked), value)) \/ I!NoAnswer
    BY <1>2 DEF I!Answer, I!Prompt
  <2>3. CASE I!NoAnswer
    BY <2>1, <2>3 DEF I!NoAnswer
  <2>4. ASSUME NEW value, I!Settle(Head(asked), value)
        PROVE  SetupInv'
    BY <2>1, <2>4, SettleKeeps
  <2> QED BY <2>2, <2>3, <2>4
<1>3. CASE I!ValidateGenerated
  BY <1>3 DEF I!ValidateGenerated
<1>4. CASE I!OpenConfig
  BY <1>4 DEF I!OpenConfig
<1>5. CASE I!WriteConfigFile
  BY <1>5 DEF I!WriteConfigFile
<1>6. CASE I!Kill
  BY <1>6 DEF I!Kill
<1>7. CASE I!SomebodyWrites
  BY <1>7 DEF I!SomebodyWrites
<1>8. CASE UNCHANGED I!setupVars
  BY <1>8 DEF I!setupVars
<1> QED BY <1>1, <1>2, <1>3, <1>4, <1>5, <1>6, <1>7, <1>8 DEF I!Next

\* Whatever is answered, refused or killed, and whoever else writes the file.
THEOREM Unclobbered == I!Spec => []NeverClobbered
<1>1. SetupInv => NeverClobbered
  BY DEF SetupInv
<1> QED BY <1>1, SetupStart, SetupStep, PTL DEF I!Spec

-----------------------------------------------------------------------------
(* Names *)

\* Numbers are written apart, and without letters or signs.
NumeralsApart ==
  /\ \A m, n \in Nat : Numeral(m) = Numeral(n) => m = n
  /\ \A n \in Nat : Numeral(n) \notin DOMAIN LowerCase \cup {".", "/", "\\"}

LEMMA ExtremesAre ==
  ASSUME NEW k \in Nat, NEW S \in SUBSET (1 .. k), S # {}
  PROVE  Min(S) \in S /\ Max(S) \in S /\ \A x \in S : Min(S) <= x /\ x <= Max(S)
<1>1. \E m \in S : \A x \in S : m <= x
  BY LeastNatural, S \in SUBSET Nat
<1>2. \E n \in S : \A x \in S : n >= x
  <2>1. \E n \in S : \A x \in S : x <= n
    BY GreatestUpTo
  <2> QED BY <2>1
<1>3. Min(S) \in S /\ \A x \in S : Min(S) <= x
  BY <1>1 DEF Min
<1>4. Max(S) \in S /\ \A x \in S : Max(S) >= x
  BY <1>2 DEF Max
<1> QED BY <1>3, <1>4

\* A part of a text is a text.
LEMMA PartText ==
  ASSUME NEW s, IsTokens(s), NEW m \in 1 .. Len(s), NEW n \in m .. Len(s)
  PROVE  LET t == SubSeq(s, m, n) IN
         /\ IsTokens(t) /\ ToSet(t) \subseteq ToSet(s) /\ t # <<>>
         /\ Len(t) = n - m + 1 /\ \A k \in 1 .. Len(t) : t[k] = s[m + k - 1]
         /\ t[1] = s[m] /\ t[Len(t)] = s[n]
<1> DEFINE t == SubSeq(s, m, n)
<1>1. Len(s) \in Nat /\ \A k \in 1 .. Len(s) : s[k] \in ToSet(s)
  BY TextFacts
<1>2. t \in Seq(ToSet(s)) /\ Len(t) = n - m + 1 /\ \A k \in 1 .. n - m + 1 : t[k] = s[m + k - 1]
  BY <1>1, SubSeqProperties
<1> HIDE DEF t
<1>3. IsTokens(t) /\ ToSet(t) \subseteq ToSet(s)
  BY <1>2, TextIs DEF ToSet
<1>4. Len(t) # 0 /\ 1 \in 1 .. n - m + 1 /\ n - m + 1 \in 1 .. n - m + 1 /\ m + 1 - 1 = m /\ m + (n - m + 1) - 1 = n
  BY <1>1, <1>2
<1>5. t[1] = s[m] /\ t[Len(t)] = s[n] /\ t # <<>>
  BY <1>2, <1>4
<1> QED BY <1>2, <1>3, <1>5 DEF t

\* What is cut off are the tokens of cut at either end, or at the right one.
LEMMA TrimIs ==
  ASSUME NEW s, IsTokens(s), NEW cut
  PROVE  \/ Trim(s, cut) = <<>> /\ \A k \in 1 .. Len(s) : s[k] \in cut
         \/ \E m \in 1 .. Len(s) : \E n \in m .. Len(s) :
              /\ Trim(s, cut) = SubSeq(s, m, n) /\ s[m] \notin cut /\ s[n] \notin cut
              /\ \A k \in 1 .. Len(s) : s[k] \notin cut => m <= k /\ k <= n
<1> DEFINE solid == {i \in DOMAIN s : s[i] \notin cut}
<1>1. solid \in SUBSET (1 .. Len(s)) /\ Len(s) \in Nat /\ DOMAIN s = 1 .. Len(s)
  BY TextFacts
<1>2. CASE solid = {}
  <2>1. Trim(s, cut) = <<>>
    BY <1>2 DEF Trim
  <2> QED BY <1>1, <1>2, <2>1
<1>3. CASE solid # {}
  <2>1. Min(solid) \in solid /\ Max(solid) \in solid /\ \A k \in solid : Min(solid) <= k /\ k <= Max(solid)
    <3> HIDE DEF solid
    <3> QED BY <1>1, <1>3, ExtremesAre
  <2>2. Trim(s, cut) = SubSeq(s, Min(solid), Max(solid))
    BY <1>3 DEF Trim
  <2>3. /\ Min(solid) \in 1 .. Len(s) /\ Max(solid) \in Min(solid) .. Len(s)
        /\ s[Min(solid)] \notin cut /\ s[Max(solid)] \notin cut
    BY <1>1, <2>1
  <2>4. \A k \in 1 .. Len(s) : s[k] \notin cut => Min(solid) <= k /\ k <= Max(solid)
    BY <1>1, <2>1
  <2> HIDE DEF solid
  <2> QED BY <2>2, <2>3, <2>4
<1> QED BY <1>2, <1>3

LEMMA TrimRightIs ==
  ASSUME NEW s, IsTokens(s), NEW cut
  PROVE  \/ TrimRight(s, cut) = <<>> /\ \A k \in 1 .. Len(s) : s[k] \in cut
         \/ \E n \in 1 .. Len(s) :
              /\ TrimRight(s, cut) = SubSeq(s, 1, n) /\ s[n] \notin cut
              /\ \A k \in 1 .. Len(s) : s[k] \notin cut => k <= n
<1> DEFINE solid == {i \in DOMAIN s : s[i] \notin cut}
<1>1. solid \in SUBSET (1 .. Len(s)) /\ Len(s) \in Nat /\ DOMAIN s = 1 .. Len(s)
  BY TextFacts
<1>2. CASE solid = {}
  <2>1. TrimRight(s, cut) = <<>>
    BY <1>2 DEF TrimRight
  <2> QED BY <1>1, <1>2, <2>1
<1>3. CASE solid # {}
  <2>1. Max(solid) \in solid /\ \A k \in solid : k <= Max(solid)
    <3> HIDE DEF solid
    <3> QED BY <1>1, <1>3, ExtremesAre
  <2>2. TrimRight(s, cut) = SubSeq(s, 1, Max(solid))
    BY <1>3 DEF TrimRight
  <2>3. Max(solid) \in 1 .. Len(s) /\ s[Max(solid)] \notin cut
    BY <1>1, <2>1
  <2>4. \A k \in 1 .. Len(s) : s[k] \notin cut => k <= Max(solid)
    BY <1>1, <2>1
  <2> HIDE DEF solid
  <2> QED BY <2>2, <2>3, <2>4
<1> QED BY <1>2, <1>3

\* A text is as long in lower case.
LEMMA LowerText ==
  ASSUME NEW s, IsTokens(s)
  PROVE  /\ IsTokens(Lower(s)) /\ Len(Lower(s)) = Len(s)
         /\ \A i \in 1 .. Len(s) : Lower(s)[i] = IF s[i] \in DOMAIN LowerCase THEN LowerCase[s[i]] ELSE s[i]
<1> DEFINE t == [i \in DOMAIN s |-> IF s[i] \in DOMAIN LowerCase THEN LowerCase[s[i]] ELSE s[i]]
<1>1. Len(s) \in Nat /\ DOMAIN s = 1 .. Len(s)
  BY TextFacts
<1>2. t \in [1 .. Len(s) -> {t[i] : i \in 1 .. Len(s)}]
  BY <1>1
<1>3. t = Lower(s) /\ \A i \in 1 .. Len(s) : t[i] = IF s[i] \in DOMAIN LowerCase THEN LowerCase[s[i]] ELSE s[i]
  BY <1>1 DEF Lower
<1> HIDE DEF t
<1>4. t \in Seq({t[i] : i \in 1 .. Len(s)}) /\ Len(t) = Len(s)
  BY <1>1, <1>2, SeqDef
<1> QED BY <1>3, <1>4, TextIs

\* The last token of a text that ends with e is that of e.
LEMMA EndsWith ==
  ASSUME NEW t, IsTokens(t), NEW a, NEW b, IsSuffix(<<a, b>>, t)
  PROVE  Len(t) \in Nat /\ Len(t) > 1 /\ t[Len(t)] = b
<1> DEFINE e == <<a, b>>
           r == [i \in 1 .. Len(t) |-> t[Len(t) - i + 1]]
           q == [i \in 1 .. 2 |-> e[2 - i + 1]]
<1>1. Len(t) \in Nat
  BY TextFacts
<1>2. Reverse(t) = r /\ Reverse(e) = q
  BY DEF Reverse
<1>3. Len(q) = 2 /\ Len(r) = Len(t)
  BY <1>1
<1>4. Len(q) <= Len(r) /\ SubSeq(q, 1, Len(q)) = SubSeq(r, 1, Len(q))
  <2> HIDE DEF q, r
  <2> QED BY <1>2 DEF IsSuffix, IsPrefix
<1>5. SubSeq(q, 1, 2)[1] = q[1] /\ SubSeq(r, 1, 2)[1] = r[1]
  BY <1>1, <1>3, <1>4
<1>6. q[1] = b /\ r[1] = t[Len(t)]
  BY <1>1, <1>3, <1>4
<1> QED BY <1>1, <1>3, <1>4, <1>5, <1>6

\* A step of the loop of Dashed, and the whole of it.
Grown(a, t, kept) ==
  IF t \in kept THEN [out |-> Append(a.out, t), dash |-> FALSE]
  ELSE [out |-> IF a.dash \/ a.out = <<>> THEN a.out ELSE Append(a.out, "-"), dash |-> TRUE]

LEMMA DashedUnfolds ==
  ASSUME NEW s, Len(s) \in Nat, NEW kept
  PROVE  \E b : /\ b[0].out = <<>> /\ ~b[0].dash
                /\ \A n \in 1 .. Len(s) : b[n] = Grown(b[n - 1], s[n], kept)
                /\ Dashed(s, kept) = b[Len(s)].out
<1> DEFINE none == [out |-> <<>>, dash |-> FALSE]
           Runs(n, g) == g = [i \in 0 .. n |-> IF i = 0 THEN none ELSE Grown(g[i - 1], s[i], kept)]
           R == {n \in Nat : \E g : Runs(n, g)}
<1>1. 0 \in R
  <2> DEFINE g == [i \in 0 .. 0 |-> none]
  <2>1. Runs(0, g)
    <3> HIDE DEF none
    <3> QED OBVIOUS
  <2> QED BY <2>1
<1>2. ASSUME NEW n \in R
      PROVE  n + 1 \in R
  <2>1. PICK g : Runs(n, g)
    OBVIOUS
  <2> DEFINE h == [i \in 0 .. n + 1 |-> IF i <= n THEN g[i] ELSE Grown(g[n], s[n + 1], kept)]
  <2> HIDE DEF none
  <2>2. ASSUME NEW i \in 0 .. n + 1
        PROVE  h[i] = IF i = 0 THEN none ELSE Grown(h[i - 1], s[i], kept)
    <3>1. CASE i = n + 1
      BY <3>1
    <3>2. CASE i \in 0 .. n
      <4>1. h[i] = g[i] /\ (i # 0 => i - 1 \in 0 .. n /\ h[i - 1] = g[i - 1])
        BY <3>2
      <4>2. g[i] = IF i = 0 THEN none ELSE Grown(g[i - 1], s[i], kept)
        BY <2>1, <3>2
      <4> QED BY <4>1, <4>2
    <3> QED BY <3>1, <3>2
  <2>3. Runs(n + 1, h)
    BY <2>2
  <2> HIDE DEF Runs
  <2> QED BY <2>3
<1>3. R = Nat
  <2> HIDE DEF R
  <2>1. R \in SUBSET Nat
    BY DEF R
  <2> QED BY <1>1, <1>2, <2>1, SetInduction
<1>4. Len(s) \in R
  <2> HIDE DEF R
  <2> QED BY <1>3
<1> DEFINE b == CHOOSE g : Runs(Len(s), g)
<1>5. Runs(Len(s), b)
  BY <1>4
<1>6. Dashed(s, kept) = b[Len(s)].out
  BY DEF Dashed, Grown
<1> HIDE DEF b
<1>7. b[0] = none
  <2> HIDE DEF none
  <2> QED BY <1>5
<1>8. \A n \in 1 .. Len(s) : b[n] = Grown(b[n - 1], s[n], kept)
  <2> HIDE DEF none
  <2> QED BY <1>5
<1> QED BY <1>6, <1>7, <1>8

LEMMA GrownIs ==
  ASSUME NEW a, NEW t, NEW kept
  PROVE  LET g == Grown(a, t, kept) IN
         /\ t \in kept => g.out = Append(a.out, t) /\ ~g.dash
         /\ t \notin kept /\ (a.dash \/ a.out = <<>>) => g.out = a.out /\ g.dash
         /\ t \notin kept /\ ~(a.dash \/ a.out = <<>>) => g.out = Append(a.out, "-") /\ g.dash
BY DEF Grown

\* What comes out is kept, or a dash.
LEMMA DashedType ==
  ASSUME NEW s, IsTokens(s), NEW kept
  PROVE  Dashed(s, kept) \in Seq(kept \cup {"-"})
<1> DEFINE T == kept \cup {"-"}
<1>0. Len(s) \in Nat /\ "-" \in T /\ kept \subseteq T
  BY TextFacts
<1>1. PICK b : /\ b[0].out = <<>> /\ ~b[0].dash
               /\ \A n \in 1 .. Len(s) : b[n] = Grown(b[n - 1], s[n], kept)
               /\ Dashed(s, kept) = b[Len(s)].out
  BY <1>0, DashedUnfolds
<1> HIDE DEF T
<1> DEFINE R == {n \in Nat : n \in 0 .. Len(s) => b[n].out \in Seq(T)}
<1>2. 0 \in R
  <2>1. <<>> \in Seq(T)
    OBVIOUS
  <2> QED BY <1>1, <2>1
<1>3. ASSUME NEW n \in R
      PROVE  n + 1 \in R
  <2> SUFFICES ASSUME n + 1 \in 0 .. Len(s) PROVE b[n + 1].out \in Seq(T)
    OBVIOUS
  <2>1. b[n].out \in Seq(T) /\ n \in Nat /\ n + 1 \in 1 .. Len(s) /\ n + 1 - 1 = n
    BY <1>0
  <2> HIDE DEF R
  <2>2. b[n + 1] = Grown(b[n], s[n + 1], kept)
    BY <1>1, <2>1
  <2>3. b[n + 1].out = b[n].out \/ \E x \in T : b[n + 1].out = Append(b[n].out, x)
    BY <1>0, <2>2, GrownIs
  <2>4. \A o \in Seq(T), x \in T : Append(o, x) \in Seq(T)
    BY AppendProperties
  <2> QED BY <2>1, <2>3, <2>4
<1>4. R = Nat
  <2> HIDE DEF R
  <2>1. R \in SUBSET Nat
    BY DEF R
  <2> QED BY <1>2, <1>3, <2>1, SetInduction
<1>5. b[Len(s)].out \in Seq(T)
  BY <1>0, <1>4
<1> QED BY <1>1, <1>5 DEF T

-----------------------------------------------------------------------------
(* Slugs *)

\* Letters, with single dashes between them.
Plain(t) ==
  /\ t \in Seq(Letters \cup {"-"}) /\ (t # <<>> => t[1] # "-")
  /\ \A i \in 1 .. Len(t) - 1 : t[i] # "-" \/ t[i + 1] # "-"

LEMMA PlainGrows ==
  ASSUME NEW t, Plain(t), NEW x \in Letters \cup {"-"}, x = "-" => t # <<>> /\ t[Len(t)] # "-"
  PROVE  Plain(Append(t, x)) /\ Append(t, x) # <<>> /\ Append(t, x)[Len(Append(t, x))] = x
<1> DEFINE T == Letters \cup {"-"}
           u == Append(t, x)
<1>1. t \in Seq(T) /\ Len(t) \in Nat
  BY DEF Plain
<1>2. /\ u \in Seq(T) /\ u # <<>> /\ Len(u) = Len(t) + 1
      /\ (\A i \in 1 .. Len(t) : u[i] = t[i]) /\ u[Len(t) + 1] = x
  <2>1. x \in T
    OBVIOUS
  <2> HIDE DEF T
  <2> QED BY <1>1, <2>1, AppendProperties
<1> HIDE DEF u
<1>3. u[1] # "-"
  <2>1. CASE t = <<>>
    <3>1. Len(t) = 0
      BY <2>1
    <3> QED BY <1>2, <2>1, <3>1
  <2>2. CASE t # <<>>
    <3>1. t[1] # "-"
      BY <2>2 DEF Plain
    <3>2. 1 \in 1 .. Len(t)
      BY <1>1, <2>2
    <3> QED BY <1>2, <3>1, <3>2
  <2> QED BY <2>1, <2>2
<1>4. ASSUME NEW i \in 1 .. Len(u) - 1
      PROVE  u[i] # "-" \/ u[i + 1] # "-"
  <2>1. CASE i = Len(t)
    BY <1>1, <1>2, <2>1
  <2>2. CASE i # Len(t)
    <3>1. i \in 1 .. Len(t) - 1 /\ i \in 1 .. Len(t) /\ i + 1 \in 1 .. Len(t)
      BY <1>1, <1>2, <2>2
    <3>2. t[i] # "-" \/ t[i + 1] # "-"
      BY <3>1 DEF Plain
    <3> QED BY <1>2, <3>1, <3>2
  <2> QED BY <2>1, <2>2
<1>5. Plain(u)
  BY <1>2, <1>3, <1>4 DEF Plain
<1> QED BY <1>2, <1>5 DEF u

LEMMA PlainPart ==
  ASSUME NEW t, Plain(t), NEW m \in 1 .. Len(t), NEW n \in m .. Len(t), t[m] # "-"
  PROVE  Plain(SubSeq(t, m, n))
<1> DEFINE T == Letters \cup {"-"}
           u == SubSeq(t, m, n)
<1>1. t \in Seq(T) /\ Len(t) \in Nat /\ IsTokens(t)
  BY TextIs DEF Plain
<1>2. /\ IsTokens(u) /\ ToSet(u) \subseteq ToSet(t) /\ u[1] = t[m]
      /\ Len(u) = n - m + 1 /\ \A k \in 1 .. Len(u) : u[k] = t[m + k - 1]
  BY <1>1, PartText
<1> HIDE DEF u
<1>3. u \in Seq(T)
  <2>1. ToSet(t) \subseteq T
    BY <1>1 DEF ToSet
  <2> HIDE DEF T
  <2> QED BY <1>2, <2>1, SeqMonotonic DEF IsTokens
<1>4. ASSUME NEW i \in 1 .. Len(u) - 1
      PROVE  u[i] # "-" \/ u[i + 1] # "-"
  <2>1. /\ m + i - 1 \in 1 .. Len(t) - 1 /\ m + (i + 1) - 1 = (m + i - 1) + 1
        /\ i \in 1 .. Len(u) /\ i + 1 \in 1 .. Len(u)
    BY <1>1, <1>2
  <2>2. t[m + i - 1] # "-" \/ t[(m + i - 1) + 1] # "-"
    BY <2>1 DEF Plain
  <2> QED BY <1>2, <2>1, <2>2
<1> QED BY <1>2, <1>3, <1>4 DEF Plain, u

\* No letter is a dash.
LEMMA NoDash == "-" \notin Letters
BY LetterAssumption

\* Dashed makes plain texts, and leaves them as they are.
LEMMA DashedPlain ==
  ASSUME NEW s, IsTokens(s)
  PROVE  Plain(Dashed(s, Letters))
<1>0. Len(s) \in Nat
  BY TextFacts
<1>1. PICK b : /\ b[0].out = <<>> /\ ~b[0].dash
               /\ \A n \in 1 .. Len(s) : b[n] = Grown(b[n - 1], s[n], Letters)
               /\ Dashed(s, Letters) = b[Len(s)].out
  BY <1>0, DashedUnfolds
<1> DEFINE Good(a) == Plain(a.out) /\ (~a.dash /\ a.out # <<>> => a.out[Len(a.out)] # "-")
           R == {n \in Nat : n \in 0 .. Len(s) => Good(b[n])}
<1>2. 0 \in R
  <2>1. Plain(<<>>)
    BY DEF Plain
  <2> QED BY <1>1, <2>1
<1>3. ASSUME NEW n \in R
      PROVE  n + 1 \in R
  <2> SUFFICES ASSUME n + 1 \in 0 .. Len(s) PROVE Good(b[n + 1])
    OBVIOUS
  <2>1. Good(b[n]) /\ n \in Nat /\ n + 1 \in 1 .. Len(s) /\ n + 1 - 1 = n
    BY <1>0
  <2>2. b[n + 1] = Grown(b[n], s[n + 1], Letters)
    <3> HIDE DEF Good, R
    <3> QED BY <1>1, <2>1
  <2>3. CASE s[n + 1] \in Letters
    <3>1. b[n + 1].out = Append(b[n].out, s[n + 1]) /\ s[n + 1] # "-"
      BY <2>2, <2>3, GrownIs, NoDash
    <3> QED BY <2>1, <2>3, <3>1, PlainGrows
  <2>4. CASE s[n + 1] \notin Letters /\ (b[n].dash \/ b[n].out = <<>>)
    <3>1. b[n + 1].out = b[n].out /\ b[n + 1].dash
      BY <2>2, <2>4, GrownIs
    <3> QED BY <2>1, <3>1
  <2>5. CASE s[n + 1] \notin Letters /\ ~(b[n].dash \/ b[n].out = <<>>)
    <3>1. b[n + 1].out = Append(b[n].out, "-") /\ b[n + 1].dash
      BY <2>2, <2>5, GrownIs
    <3> QED BY <2>1, <2>5, <3>1, PlainGrows
  <2> QED BY <2>3, <2>4, <2>5
<1>4. R = Nat
  <2> HIDE DEF R
  <2>1. R \in SUBSET Nat
    BY DEF R
  <2> QED BY <1>2, <1>3, <2>1, SetInduction
<1>5. Good(b[Len(s)])
  BY <1>0, <1>4
<1> QED BY <1>1, <1>5

LEMMA PlainStays ==
  ASSUME NEW t, Plain(t)
  PROVE  Dashed(t, Letters) = t
<1> DEFINE T == Letters \cup {"-"}
<1>0. t \in Seq(T) /\ Len(t) \in Nat /\ \A i \in 1 .. Len(t) : t[i] \in T
  BY DEF Plain
<1>1. PICK b : /\ b[0].out = <<>> /\ ~b[0].dash
               /\ \A n \in 1 .. Len(t) : b[n] = Grown(b[n - 1], t[n], Letters)
               /\ Dashed(t, Letters) = b[Len(t)].out
  BY <1>0, DashedUnfolds
<1> DEFINE Good(n, a) ==
             /\ a.out \in Seq(T) /\ Len(a.out) = n /\ \A k \in 1 .. n : a.out[k] = t[k]
             /\ a.dash <=> (n # 0 /\ t[n] = "-")
           R == {n \in Nat : n \in 0 .. Len(t) => Good(n, b[n])}
<1>2. 0 \in R
  <2>1. <<>> \in Seq(T) /\ Len(<<>>) = 0
    <3> HIDE DEF T
    <3> QED OBVIOUS
  <2>2. Good(0, b[0])
    <3> HIDE DEF T
    <3> QED BY <1>1, <2>1
  <2> HIDE DEF Good
  <2> QED BY <2>2
<1>3. ASSUME NEW n \in R
      PROVE  n + 1 \in R
  <2> SUFFICES ASSUME n + 1 \in 0 .. Len(t) PROVE Good(n + 1, b[n + 1])
    OBVIOUS
  <2>1. Good(n, b[n]) /\ n \in Nat /\ n + 1 \in 1 .. Len(t) /\ n + 1 - 1 = n
    BY <1>0
  <2>2. b[n + 1] = Grown(b[n], t[n + 1], Letters)
    <3> HIDE DEF Good, R
    <3> QED BY <1>1, <2>1
  <2>3. t[n + 1] \in T
    BY <1>0, <2>1
  <2> HIDE DEF R
  <2>4. b[n + 1].out = Append(b[n].out, t[n + 1]) /\ (b[n + 1].dash <=> t[n + 1] = "-")
    <3>1. CASE t[n + 1] \in Letters
      BY <2>2, <3>1, GrownIs, NoDash
    <3>2. CASE t[n + 1] = "-"
      <4>1. n # 0 /\ t[n] # "-"
        <5>1. n # 0
          <6>1. t # <<>> /\ 1 \in 1 .. Len(t)
            BY <1>0, <2>1
          <6>2. t[1] # "-"
            BY <6>1 DEF Plain
          <6>3. n = 0 => n + 1 = 1
            BY <2>1
          <6> QED BY <3>2, <6>2, <6>3
        <5>2. n \in 1 .. Len(t) - 1
          BY <1>0, <2>1, <5>1
        <5> QED BY <3>2, <5>1, <5>2 DEF Plain
      <4>2. ~b[n].dash /\ b[n].out # <<>>
        BY <2>1, <4>1
      <4> QED BY <2>2, <3>2, <4>2, GrownIs, NoDash
    <3> QED BY <2>3, <3>1, <3>2
  <2> DEFINE o == b[n].out
             u == b[n + 1].out
  <2>5. o \in Seq(T) /\ Len(o) = n /\ (\A k \in 1 .. n : o[k] = t[k]) /\ u = Append(o, t[n + 1])
    BY <2>1, <2>4
  <2>6. u \in Seq(T) /\ Len(u) = n + 1 /\ (\A k \in 1 .. n : u[k] = o[k]) /\ u[n + 1] = t[n + 1]
    <3> HIDE DEF T, o, u, Good
    <3> QED BY <2>3, <2>5, AppendProperties
  <2>7. \A k \in 1 .. n + 1 : u[k] = t[k]
    <3> HIDE DEF T, o, u, Good
    <3> QED BY <2>1, <2>5, <2>6
  <2> QED BY <2>4, <2>6, <2>7
<1>4. R = Nat
  <2> HIDE DEF R
  <2>1. R \in SUBSET Nat
    BY DEF R
  <2> QED BY <1>2, <1>3, <2>1, SetInduction
<1>5. Good(Len(t), b[Len(t)])
  BY <1>0, <1>4
<1> DEFINE u == b[Len(t)].out
<1>6. u \in Seq(T) /\ Len(u) = Len(t) /\ \A k \in 1 .. Len(t) : u[k] = t[k]
  BY <1>5
<1>7. u = t
  <2> HIDE DEF T, u
  <2> QED BY <1>0, <1>6, SeqEqual
<1> QED BY <1>1, <1>7

\* A slug is plain, short, and without a dash at its end.
LEMMA SlugIs ==
  ASSUME NEW s, IsTokens(s)
  PROVE  \/ Slug(s) = NoSubject
         \/ /\ Plain(Slug(s)) /\ Slug(s) # <<>> /\ Len(Slug(s)) <= MaxSlug
            /\ Slug(s)[Len(Slug(s))] # "-"
<1> DEFINE d == Dashed(Lower(s), Letters)
           t == Trim(d, {"-"})
           u == UpTo(MaxSlug, t)
           r == TrimRight(u, {"-"})
<1>1. Plain(d)
  BY LowerText, DashedPlain
<1>2. Slug(s) = IF r = <<>> THEN NoSubject ELSE r
  BY DEF Slug, OrElse
<1> SUFFICES ASSUME r # <<>>
             PROVE  Plain(r) /\ Len(r) <= MaxSlug /\ r[Len(r)] # "-"
  BY <1>2
<1> HIDE DEF d
<1>3. Plain(t)
  <2>1. CASE t = <<>>
    BY <2>1 DEF Plain
  <2>2. CASE t # <<>>
    <3>1. IsTokens(d)
      BY <1>1, TextIs DEF Plain
    <3>2. PICK m \in 1 .. Len(d) : \E n \in m .. Len(d) : t = SubSeq(d, m, n) /\ d[m] \notin {"-"}
      BY <2>2, <3>1, TrimIs
    <3> QED BY <1>1, <3>2, PlainPart
  <2> QED BY <2>1, <2>2
<1> HIDE DEF t
<1>4. IsTokens(t) /\ Len(t) \in Nat /\ MaxSlug \in Nat
  BY <1>3, TextIs, LetterAssumption DEF Plain
<1>5. Plain(u) /\ Len(u) \in Nat /\ Len(u) <= MaxSlug /\ IsTokens(u)
  <2>1. CASE Len(t) <= MaxSlug
    BY <1>3, <1>4, <2>1 DEF UpTo
  <2>2. CASE Len(t) > MaxSlug /\ MaxSlug = 0
    <3>1. u = <<>>
      BY <1>4, <2>2, SubSeqEmpty DEF UpTo
    <3> HIDE DEF u
    <3>2. Plain(u) /\ Len(u) = 0
      BY <3>1 DEF Plain
    <3>3. IsTokens(u)
      BY <3>2, TextIs DEF Plain
    <3> QED BY <2>2, <3>2, <3>3
  <2>3. CASE Len(t) > MaxSlug /\ MaxSlug # 0
    <3>1. u = SubSeq(t, 1, MaxSlug) /\ 1 \in 1 .. Len(t) /\ MaxSlug \in 1 .. Len(t) /\ t # <<>>
      BY <1>4, <2>3 DEF UpTo
    <3> HIDE DEF u
    <3>2. t[1] # "-"
      BY <1>3, <3>1 DEF Plain
    <3>3. Plain(u)
      BY <1>3, <3>1, <3>2, PlainPart
    <3>4. IsTokens(u) /\ Len(u) = MaxSlug
      BY <1>4, <3>1, PartText
    <3> QED BY <1>4, <3>3, <3>4
  <2> QED BY <1>4, <2>1, <2>2, <2>3
<1> HIDE DEF u
<1>6. PICK n \in 1 .. Len(u) : r = SubSeq(u, 1, n) /\ u[n] \notin {"-"}
  BY <1>5, TrimRightIs
<1> HIDE DEF r
<1>7. 1 \in 1 .. Len(u) /\ n \in 1 .. Len(u) /\ u # <<>>
  BY <1>5
<1>8. u[1] # "-"
  BY <1>5, <1>7 DEF Plain
<1>9. Plain(r)
  BY <1>5, <1>6, <1>7, <1>8, PlainPart
<1>10. Len(r) = n /\ r[Len(r)] = u[n]
  BY <1>5, <1>6, <1>7, PartText
<1>11. Len(r) <= MaxSlug
  BY <1>4, <1>5, <1>7, <1>10
<1> QED BY <1>6, <1>9, <1>10, <1>11

\* Lower case, and every token of a slug, have no lower case.
LEMMA PlainIsLower ==
  ASSUME NEW t, Plain(t)
  PROVE  Lower(t) = t
<1> DEFINE T == Letters \cup {"-"}
<1>1. t \in Seq(T) /\ Len(t) \in Nat /\ (\A i \in 1 .. Len(t) : t[i] \in T) /\ IsTokens(t)
  BY TextIs DEF Plain
<1>2. T \cap DOMAIN LowerCase = {}
  BY LetterAssumption
<1> HIDE DEF T
<1>3. Len(Lower(t)) = Len(t) /\ \A i \in 1 .. Len(t) : Lower(t)[i] = t[i]
  BY <1>1, <1>2, LowerText
<1>4. IsTokens(Lower(t)) /\ ToSet(Lower(t)) \subseteq T
  BY <1>1, <1>3, LowerText DEF ToSet
<1>5. Lower(t) \in Seq(T)
  BY <1>4, SeqMonotonic DEF IsTokens
<1> QED BY <1>1, <1>3, <1>5, SeqEqual

\* A text that neither starts nor ends with a token of cut is not cut.
LEMMA NothingToTrim ==
  ASSUME NEW s, IsTokens(s), s # <<>>, NEW cut, s[1] \notin cut, s[Len(s)] \notin cut
  PROVE  Trim(s, cut) = s /\ TrimRight(s, cut) = s
<1>1. Len(s) \in Nat /\ 1 \in 1 .. Len(s) /\ Len(s) \in 1 .. Len(s) /\ s \in Seq(ToSet(s))
  BY TextFacts
<1>2. SubSeq(s, 1, Len(s)) = s
  BY <1>1
<1>3. Trim(s, cut) = SubSeq(s, 1, Len(s))
  <2>1. PICK m \in 1 .. Len(s) : \E n \in m .. Len(s) :
          /\ Trim(s, cut) = SubSeq(s, m, n)
          /\ \A k \in 1 .. Len(s) : s[k] \notin cut => m <= k /\ k <= n
    BY <1>1, TrimIs
  <2>2. PICK n \in m .. Len(s) :
          /\ Trim(s, cut) = SubSeq(s, m, n)
          /\ \A k \in 1 .. Len(s) : s[k] \notin cut => m <= k /\ k <= n
    BY <2>1
  <2>3. m = 1 /\ n = Len(s)
    BY <1>1, <2>2
  <2> QED BY <2>2, <2>3
<1>4. TrimRight(s, cut) = SubSeq(s, 1, Len(s))
  <2>1. PICK n \in 1 .. Len(s) :
          /\ TrimRight(s, cut) = SubSeq(s, 1, n)
          /\ \A k \in 1 .. Len(s) : s[k] \notin cut => k <= n
    BY <1>1, TrimRightIs
  <2>2. n = Len(s)
    BY <1>1, <2>1
  <2> QED BY <2>1, <2>2
<1> QED BY <1>2, <1>3, <1>4

LEMMA SlugStays ==
  ASSUME NEW s, IsTokens(s)
  PROVE  SlugSettled(s)
<1> DEFINE r == Slug(s)
<1>1. SUFFICES ASSUME r # NoSubject PROVE Slug(r) = r /\ Len(r) <= MaxSlug
  BY DEF SlugSettled
<1>2. Plain(r) /\ r # <<>> /\ Len(r) <= MaxSlug /\ r[Len(r)] # "-"
  BY <1>1, SlugIs
<1> HIDE DEF r
<1>3. IsTokens(r) /\ Len(r) \in Nat /\ r[1] # "-"
  BY <1>2, TextIs DEF Plain
<1>4. Lower(r) = r /\ Dashed(r, Letters) = r
  BY <1>2, PlainIsLower, PlainStays
<1>5. Trim(r, {"-"}) = r /\ TrimRight(r, {"-"}) = r
  BY <1>2, <1>3, NothingToTrim
<1>6. UpTo(MaxSlug, r) = r
  BY <1>2, <1>3, LetterAssumption DEF UpTo
<1> QED BY <1>2, <1>4, <1>5, <1>6 DEF Slug, OrElse

-----------------------------------------------------------------------------
(* File names *)

LEMMA TokensOf ==
  ASSUME NEW T, NEW s \in Seq(T)
  PROVE  ToSet(s) \subseteq T
BY DEF ToSet

\* One path element, which is neither hidden nor leads out of its directory.
Element(t) ==
  /\ IsTokens(t) /\ t # <<>> /\ t[1] # "." /\ ToSet(t) \cap {"/", "\\"} = {}

LEMMA ElementTail ==
  ASSUME NEW t, Element(t), NEW u, IsTokens(u), ToSet(u) \cap {"/", "\\"} = {}
  PROVE  /\ Element(t \o u) /\ Len(t \o u) = Len(t) + Len(u)
         /\ \A i \in 1 .. Len(t) : (t \o u)[i] = t[i]
         /\ \A i \in 1 .. Len(u) : (t \o u)[Len(t) + i] = u[i]
<1> DEFINE T == ToSet(t) \cup ToSet(u)
           v == t \o u
<1>1. t \in Seq(T) /\ u \in Seq(T) /\ Len(t) \in Nat /\ Len(u) \in Nat
  BY SeqMonotonic, TextFacts DEF Element, IsTokens
<1>2. T \cap {"/", "\\"} = {}
  BY DEF Element
<1> HIDE DEF T
<1>3. /\ v \in Seq(T) /\ Len(v) = Len(t) + Len(u)
      /\ \A i \in 1 .. Len(t) + Len(u) : v[i] = IF i <= Len(t) THEN t[i] ELSE u[i - Len(t)]
  BY <1>1, ConcatProperties
<1> HIDE DEF v
<1>4. ToSet(v) \subseteq T /\ IsTokens(v)
  BY <1>3, TextIs DEF ToSet
<1>5. t # <<>> /\ Len(t) # 0 /\ 1 \in 1 .. Len(t) /\ t[1] # "."
  BY <1>1 DEF Element
<1>6. v[1] = t[1] /\ v # <<>>
  BY <1>1, <1>3, <1>5
<1>7. \A i \in 1 .. Len(t) : v[i] = t[i]
  BY <1>1, <1>3
<1>8. ASSUME NEW i \in 1 .. Len(u)
      PROVE  v[Len(t) + i] = u[i]
  <2>1. Len(t) + i \in 1 .. Len(t) + Len(u) /\ ~(Len(t) + i <= Len(t)) /\ Len(t) + i - Len(t) = i
    BY <1>1
  <2> QED BY <1>3, <2>1
<1> QED BY <1>2, <1>3, <1>4, <1>5, <1>6, <1>7, <1>8 DEF Element, v

LEMMA ElementPart ==
  ASSUME NEW t, IsTokens(t), ToSet(t) \cap {"/", "\\"} = {},
         NEW m \in 1 .. Len(t), NEW n \in m .. Len(t), t[m] # "."
  PROVE  Element(SubSeq(t, m, n))
BY PartText DEF Element

LEMMA Parts ==
  /\ Element(FallbackName)
  /\ IsTokens(Neutral) /\ ToSet(Neutral) \cap {"/", "\\"} = {} /\ Len(Neutral) = 2 /\ Neutral[2] = "attachment"
<1>1. FallbackName \in Seq({"attachment"}) /\ FallbackName # <<>> /\ FallbackName[1] = "attachment"
  BY DEF FallbackName
<1>2. Neutral \in Seq({".", "attachment"}) /\ Len(Neutral) = 2 /\ Neutral[2] = "attachment"
  BY DEF Neutral
<1>3. ToSet(FallbackName) \subseteq {"attachment"} /\ ToSet(Neutral) \subseteq {".", "attachment"}
  BY <1>1, <1>2, TokensOf
<1> QED BY <1>1, <1>2, <1>3, TextIs DEF Element

\* The extension is what follows the name's last dot, the dot included.
LEMMA ExtIs ==
  ASSUME NEW t, Element(t)
  PROVE  \/ Ext(t) = <<>>
         \/ \E k \in 2 .. Len(t) : Ext(t) = SubSeq(t, k, Len(t))
<1> DEFINE dots == {i \in DOMAIN t : t[i] = "."}
<1>1. IsTokens(t) /\ Len(t) \in Nat /\ DOMAIN t = 1 .. Len(t) /\ t[1] # "."
  BY TextFacts DEF Element
<1>2. CASE dots = {}
  BY <1>2 DEF Ext
<1>3. CASE dots # {}
  <2>1. dots \in SUBSET (1 .. Len(t))
    BY <1>1
  <2>2. Max(dots) \in dots
    <3> HIDE DEF dots
    <3> QED BY <1>1, <1>3, <2>1, ExtremesAre
  <2>3. Ext(t) = SubSeq(t, Max(dots), Len(t))
    BY <1>3 DEF Ext
  <2>4. Max(dots) \in 1 .. Len(t) /\ t[Max(dots)] = "."
    BY <1>1, <2>2
  <2> HIDE DEF dots
  <2>5. Max(dots) \in 2 .. Len(t)
    BY <1>1, <2>4
  <2> QED BY <2>3, <2>5
<1> QED BY <1>2, <1>3

\* What is before an extension is a name, and the extension can go behind any other.
LEMMA StemIs ==
  ASSUME NEW t, Element(t), NEW ext, ext \in {<<>>, Ext(t)}
  PROVE  /\ Element(Stem(t, ext)) /\ Len(Stem(t, ext)) \in Nat /\ Len(Stem(t, ext)) > 0
         /\ Stem(t, ext)[1] = t[1]
         /\ IsTokens(ext) /\ ToSet(ext) \cap {"/", "\\"} = {} /\ Len(ext) \in Nat
<1>1. IsTokens(t) /\ Len(t) \in Nat /\ t[1] # "." /\ 1 \in 1 .. Len(t) /\ t # <<>> /\ ToSet(t) \cap {"/", "\\"} = {}
  BY TextFacts DEF Element
<1>2. /\ IsTokens(ext) /\ ToSet(ext) \subseteq ToSet(t) /\ Len(ext) \in Nat /\ Len(ext) < Len(t)
  <2>1. CASE ext = <<>>
    <3>1. Len(ext) = 0 /\ ext \in Seq({})
      BY <2>1
    <3>2. IsTokens(ext) /\ ToSet(ext) \subseteq {}
      BY <3>1, TextIs, TokensOf
    <3> QED BY <1>1, <3>1, <3>2
  <2>2. CASE ext # <<>>
    <3>1. PICK k \in 2 .. Len(t) : ext = SubSeq(t, k, Len(t))
      BY <2>2, ExtIs
    <3>2. k \in 1 .. Len(t) /\ Len(t) \in k .. Len(t)
      BY <1>1
    <3>3. IsTokens(ext) /\ ToSet(ext) \subseteq ToSet(t) /\ Len(ext) = Len(t) - k + 1
      BY <1>1, <3>1, <3>2, PartText
    <3> QED BY <1>1, <3>3
  <2> QED BY <2>1, <2>2
<1>3. Stem(t, ext) = SubSeq(t, 1, Len(t) - Len(ext)) /\ Len(t) - Len(ext) \in 1 .. Len(t)
  BY <1>1, <1>2 DEF Stem
<1>4. Element(Stem(t, ext)) /\ Len(Stem(t, ext)) = Len(t) - Len(ext) /\ Stem(t, ext)[1] = t[1]
  BY <1>1, <1>3, ElementPart, PartText
<1> QED BY <1>1, <1>2, <1>3, <1>4

\* Whatever a sender calls it, a file gets a name.
LEMMA SanitizedIs ==
  ASSUME NEW name, IsTokens(name)
  PROVE  Element(SanitizeFilename(name))
<1> DEFINE slashes == {i \in DOMAIN name : name[i] \in {"/", "\\"}}
           base    == IF slashes = {} THEN name ELSE SubSeq(name, Max(slashes) + 1, Len(name))
           kept    == Letters \cup DOMAIN LowerCase \cup {".", "_", "-"}
           d       == Dashed(base, kept)
           clean   == Trim(d, {"-", "."})
           ext     == IF Len(Ext(clean)) > MaxExt THEN <<>> ELSE Ext(clean)
           keep    == IF MaxName - Len(ext) < 1 THEN 1 ELSE MaxName - Len(ext)
           cut     == TrimRight(UpTo(keep, Stem(clean, ext)), {"-", "."}) \o ext
<1>1. SanitizeFilename(name) = OrElse(IF Len(clean) > MaxName THEN cut ELSE clean, FallbackName)
  BY DEF SanitizeFilename
<1>2. IsTokens(base)
  <2>1. Len(name) \in Nat /\ DOMAIN name = 1 .. Len(name) /\ \A i \in 1 .. Len(name) : name[i] \in ToSet(name)
    BY TextFacts
  <2>2. CASE slashes # {}
    <3>1. slashes \in SUBSET (1 .. Len(name))
      BY <2>1
    <3>2. Max(slashes) \in slashes
      <4> HIDE DEF slashes
      <4> QED BY <2>1, <2>2, <3>1, ExtremesAre
    <3>3. Max(slashes) \in 1 .. Len(name)
      BY <3>1, <3>2
    <3> HIDE DEF slashes
    <3>4. base \in Seq(ToSet(name))
      BY <2>1, <2>2, <3>3, SubSeqProperties
    <3> QED BY <3>4, TextIs
  <2> QED BY <2>2
<1> HIDE DEF base
<1>3. d \in Seq(kept \cup {"-"})
  <2> HIDE DEF kept
  <2> QED BY <1>2, DashedType
<1>4. IsTokens(d) /\ ToSet(d) \cap {"/", "\\"} = {}
  <2>1. (kept \cup {"-"}) \cap {"/", "\\"} = {}
    BY LetterAssumption
  <2>2. ToSet(d) \subseteq kept \cup {"-"}
    <3> HIDE DEF kept, d
    <3> QED BY <1>3, TokensOf
  <2>3. IsTokens(d)
    <3> HIDE DEF kept, d
    <3> QED BY <1>3, TextIs
  <2> HIDE DEF kept, d
  <2> QED BY <2>1, <2>2, <2>3
<1> HIDE DEF d, kept
<1>5. CASE clean = <<>>
  <2>1. Len(clean) = 0 /\ MaxName \in Nat
    BY <1>5, LetterAssumption
  <2>2. SanitizeFilename(name) = FallbackName
    <3> HIDE DEF cut
    <3> QED BY <1>1, <1>5, <2>1 DEF OrElse
  <2> QED BY <2>2, Parts
<1>6. CASE clean # <<>>
  <2>1. PICK m \in 1 .. Len(d) : \E n \in m .. Len(d) : clean = SubSeq(d, m, n) /\ d[m] \notin {"-", "."}
    BY <1>4, <1>6, TrimIs
  <2>2. PICK n \in m .. Len(d) : clean = SubSeq(d, m, n) /\ d[m] # "." /\ d[m] # "-"
    BY <2>1
  <2> HIDE DEF clean
  <2>3. Element(clean) /\ clean[1] = d[m]
    <3>1. Element(SubSeq(d, m, n))
      BY <1>4, <2>2, ElementPart
    <3>2. SubSeq(d, m, n)[1] = d[m]
      BY <1>4, PartText
    <3> QED BY <2>2, <3>1, <3>2
  <2>4. ext \in {<<>>, Ext(clean)}
    OBVIOUS
  <2> HIDE DEF ext
  <2> DEFINE stem == Stem(clean, ext)
             u == UpTo(keep, stem)
             r == TrimRight(u, {"-", "."})
  <2>5. /\ Element(stem) /\ Len(stem) \in Nat /\ Len(stem) > 0 /\ stem[1] \notin {"-", "."}
        /\ IsTokens(ext) /\ ToSet(ext) \cap {"/", "\\"} = {} /\ Len(ext) \in Nat
    BY <2>1, <2>3, <2>4, StemIs
  <2>6. keep \in Nat /\ keep > 0
    BY <2>5, LetterAssumption
  <2> HIDE DEF stem, keep
  <2>7. Element(u) /\ Len(u) \in Nat /\ Len(u) > 0 /\ u[1] = stem[1]
    <3>1. CASE Len(stem) > keep
      <4>1. u = SubSeq(stem, 1, keep) /\ 1 \in 1 .. Len(stem) /\ keep \in 1 .. Len(stem)
        BY <2>5, <2>6, <3>1 DEF UpTo
      <4>2. IsTokens(stem) /\ ToSet(stem) \cap {"/", "\\"} = {} /\ stem[1] # "."
        BY <2>5 DEF Element
      <4>3. Element(SubSeq(stem, 1, keep))
        BY <4>1, <4>2, ElementPart
      <4>4. SubSeq(stem, 1, keep)[1] = stem[1] /\ Len(SubSeq(stem, 1, keep)) = keep - 1 + 1
        BY <4>1, <4>2, PartText
      <4> QED BY <2>6, <4>1, <4>3, <4>4
    <3>2. CASE ~(Len(stem) > keep)
      BY <2>5, <3>2 DEF UpTo
    <3> QED BY <3>1, <3>2
  <2> HIDE DEF u
  <2>8. Element(r)
    <3>1. 1 \in 1 .. Len(u) /\ u[1] \notin {"-", "."} /\ IsTokens(u)
      BY <2>5, <2>7 DEF Element
    <3>2. PICK k \in 1 .. Len(u) : r = SubSeq(u, 1, k)
      BY <3>1, TrimRightIs
    <3> QED BY <2>7, <3>1, <3>2, ElementPart DEF Element
  <2> HIDE DEF r
  <2>9. Element(r \o ext)
    BY <2>5, <2>8, ElementTail
  <2>10. cut = r \o ext
    BY DEF r, u, stem
  <2> HIDE DEF cut
  <2> QED BY <1>1, <1>6, <2>3, <2>9, <2>10 DEF OrElse, Element
<1> QED BY <1>5, <1>6

\* What a name ends in, in whatever case, is not reserved any more.
LEMMA NeutralizedIs ==
  ASSUME NEW t, Element(t)
  PROVE  LET f == NeutralizeExt(t) IN
         /\ Element(f) /\ Len(t) \in Nat /\ Len(f) \in Nat /\ Len(t) <= Len(f)
         /\ \A i \in 1 .. Len(t) : f[i] = t[i]
         /\ \A e \in ReservedExts : ~IsSuffix(e, Lower(f))
<1> DEFINE f == NeutralizeExt(t)
<1>1. Len(t) \in Nat /\ IsTokens(t)
  BY TextFacts DEF Element
<1>2. CASE \E e \in ReservedExts : IsSuffix(e, Lower(t))
  <2>1. f = t \o Neutral
    BY <1>2 DEF NeutralizeExt
  <2> HIDE DEF f
  <2>2. /\ Element(f) /\ Len(f) = Len(t) + 2 /\ \A i \in 1 .. Len(t) : f[i] = t[i]
        /\ f[Len(t) + 2] = "attachment"
    <3>1. IsTokens(Neutral) /\ ToSet(Neutral) \cap {"/", "\\"} = {}
      BY Parts
    <3>2. Len(Neutral) = 2 /\ Neutral[2] = "attachment" /\ 2 \in 1 .. Len(Neutral)
      BY Parts
    <3>3. /\ Element(t \o Neutral) /\ Len(t \o Neutral) = Len(t) + Len(Neutral)
          /\ \A i \in 1 .. Len(t) : (t \o Neutral)[i] = t[i]
          /\ \A i \in 1 .. Len(Neutral) : (t \o Neutral)[Len(t) + i] = Neutral[i]
      BY <3>1, ElementTail
    <3>4. (t \o Neutral)[Len(t) + 2] = Neutral[2]
      BY <3>2, <3>3
    <3> QED BY <2>1, <3>2, <3>3, <3>4
  <2>3. IsTokens(f) /\ Len(f) \in 1 .. Len(f)
    BY <1>1, <2>2 DEF Element
  <2>4. Lower(f)[Len(Lower(f))] = "attachment" /\ IsTokens(Lower(f))
    BY <2>2, <2>3, LowerText, LetterAssumption
  <2>5. ASSUME NEW e \in ReservedExts, IsSuffix(e, Lower(f))
        PROVE  FALSE
    <3>1. CASE e = <<".", "md">>
      <4>1. Lower(f)[Len(Lower(f))] = "md"
        BY <2>4, <2>5, <3>1, EndsWith
      <4> QED BY <2>4, <4>1
    <3>2. CASE e = <<".", "eml">>
      <4>1. Lower(f)[Len(Lower(f))] = "eml"
        BY <2>4, <2>5, <3>2, EndsWith
      <4> QED BY <2>4, <4>1
    <3> QED BY <3>1, <3>2 DEF ReservedExts
  <2> QED BY <1>1, <2>2, <2>5 DEF f
<1>3. CASE ~\E e \in ReservedExts : IsSuffix(e, Lower(t))
  <2>1. f = t
    BY <1>3 DEF NeutralizeExt
  <2> QED BY <1>1, <1>3, <2>1
<1> QED BY <1>2, <1>3

\* The number stands behind the stem, whatever happens to the rest.
LEMMA NumberedIs ==
  ASSUME NumeralsApart, NEW display, Element(display), NEW n \in Nat
  PROVE  LET f == NeutralizeExt(Numbered(display, n)) IN
         /\ Element(Numbered(display, n))
         /\ Lower(f)[Len(Stem(display, Ext(display))) + 2] = Numeral(n)
<1> DEFINE ext  == Ext(display)
           stem == Stem(display, ext)
           tag  == <<"-", Numeral(n)>>
           t    == (stem \o tag) \o ext
           f    == NeutralizeExt(t)
           k    == Len(stem) + 2
<1>1. /\ Element(stem) /\ Len(stem) \in Nat
      /\ IsTokens(ext) /\ ToSet(ext) \cap {"/", "\\"} = {} /\ Len(ext) \in Nat
  BY StemIs
<1>2. Numeral(n) \notin DOMAIN LowerCase /\ Numeral(n) \notin {"/", "\\"}
  BY DEF NumeralsApart
<1>3. tag \in Seq({"-", Numeral(n)}) /\ Len(tag) = 2 /\ tag[2] = Numeral(n)
  OBVIOUS
<1>4. IsTokens(tag) /\ ToSet(tag) \cap {"/", "\\"} = {}
  <2>1. ToSet(tag) \subseteq {"-", Numeral(n)} /\ IsTokens(tag)
    BY <1>3, TokensOf, TextIs
  <2> QED BY <1>2, <2>1
<1>5. Numbered(display, n) = t
  BY DEF Numbered
<1> HIDE DEF ext, stem, tag
<1>6. /\ Element(stem \o tag) /\ Len(stem \o tag) = k /\ (stem \o tag)[k] = Numeral(n)
  BY <1>1, <1>3, <1>4, ElementTail
<1>7. Element(t) /\ Len(t) = k + Len(ext) /\ t[k] = Numeral(n)
  <2>1. k \in 1 .. Len(stem \o tag)
    BY <1>1, <1>6
  <2> HIDE DEF k
  <2> QED BY <1>1, <1>6, <2>1, ElementTail
<1> HIDE DEF t
<1>8. Element(f) /\ k \in 1 .. Len(f) /\ f[k] = Numeral(n)
  <2>1. k \in 1 .. Len(t)
    BY <1>1, <1>7
  <2>2. Element(f) /\ Len(t) \in Nat /\ Len(f) \in Nat /\ Len(t) <= Len(f) /\ \A i \in 1 .. Len(t) : f[i] = t[i]
    BY <1>7, NeutralizedIs
  <2> HIDE DEF f, k
  <2> QED BY <1>7, <2>1, <2>2
<1>9. Lower(f)[k] = Numeral(n)
  <2> HIDE DEF f, k
  <2> QED BY <1>2, <1>8, LowerText DEF Element
<1> QED BY <1>5, <1>7, <1>9 DEF t, stem, ext

\* Of one number more than there are names, one is free.
LEMMA SomeNumberIsFree ==
  ASSUME NumeralsApart, NEW display, Element(display), NEW used, IsFiniteSet(used)
  PROVE  /\ Cardinality(used) \in Nat
         /\ \E n \in 2 .. Cardinality(used) + 2 : Lower(NeutralizeExt(Numbered(display, n))) \notin used
<1> DEFINE c == Cardinality(used)
           N == 2 .. c + 2
           to == [n \in N |-> Lower(NeutralizeExt(Numbered(display, n)))]
           k == Len(Stem(display, Ext(display))) + 2
<1>1. c \in Nat
  BY FS_CardinalityType
<1>2. IsFiniteSet(N) /\ Cardinality(N) = c + 1
  <2>1. 2 \in Int /\ c + 2 \in Int /\ ~(2 > c + 2) /\ (c + 2) - 2 + 1 = c + 1
    BY <1>1
  <2> HIDE DEF c
  <2> QED BY <2>1, FS_Interval
<1>3. \A n \in N : n \in Nat /\ to[n][k] = Numeral(n)
  <2>1. ASSUME NEW n \in N
        PROVE  n \in Nat /\ to[n][k] = Numeral(n)
    <3>1. n \in Nat
      BY <1>1
    <3>2. to[n] = Lower(NeutralizeExt(Numbered(display, n)))
      OBVIOUS
    <3> QED BY <3>1, <3>2, NumberedIs
  <2> QED BY <2>1
<1>4. SUFFICES ASSUME \A n \in N : to[n] \in used PROVE FALSE
  BY <1>1
<1> HIDE DEF N, k
<1>5. to \in [N -> used]
  BY <1>4
<1> HIDE DEF to, c
<1>6. Cardinality(used) < Cardinality(N)
  BY <1>1, <1>2 DEF c
<1>7. \E x, y \in N : x # y /\ to[x] = to[y]
  BY <1>2, <1>5, <1>6, FS_PigeonHole
<1> QED BY <1>3, <1>7 DEF NumeralsApart

LEMMA AttachmentIs ==
  ASSUME NumeralsApart, NEW used, IsFiniteSet(used), NEW name, IsTokens(name)
  PROVE  LET f == AttachmentFile(used, name) IN
         /\ Element(f) /\ Lower(f) \notin used
         /\ \A e \in ReservedExts : ~IsSuffix(e, Lower(f))
<1> DEFINE display  == SanitizeFilename(name)
           taken(d) == Lower(NeutralizeExt(d)) \in used
           N        == 2 .. Cardinality(used) + 2
           free(n)  == ~taken(Numbered(display, n)) /\ \A m \in 2 .. n - 1 : taken(Numbered(display, m))
           least    == CHOOSE n \in N : free(n)
           chosen   == IF taken(display) THEN Numbered(display, least) ELSE display
<1>1. AttachmentFile(used, name) = NeutralizeExt(chosen)
  BY DEF AttachmentFile
<1>2. Element(display)
  BY SanitizedIs
<1> HIDE DEF display
<1>3. Cardinality(used) \in Nat /\ \E n \in N : ~taken(Numbered(display, n))
  BY <1>2, SomeNumberIsFree
<1>4. least \in N /\ ~taken(Numbered(display, least))
  <2> DEFINE F == {n \in N : ~taken(Numbered(display, n))}
  <2>1. F \in SUBSET Nat /\ F # {}
    BY <1>3
  <2>2. PICK n \in F : \A m \in F : n <= m
    <3> HIDE DEF F
    <3> QED BY <2>1, LeastNatural
  <2>3. n \in N /\ ~taken(Numbered(display, n))
    BY <2>2
  <2>4. ASSUME NEW m \in 2 .. n - 1
        PROVE  taken(Numbered(display, m))
    <3>1. m \in N /\ ~(n <= m)
      BY <1>3, <2>3
    <3>2. m \notin F
      <4> HIDE DEF F
      <4> QED BY <2>2, <3>1
    <3> QED BY <3>1, <3>2
  <2>5. \E x \in N : free(x)
    <3> HIDE DEF N, taken
    <3> QED BY <2>3, <2>4
  <2>6. least \in N /\ free(least)
    <3> HIDE DEF N, free
    <3> QED BY <2>5
  <2> QED BY <2>6
<1>5. Element(chosen) /\ ~taken(chosen)
  <2>1. CASE taken(display)
    <3>1. least \in Nat
      BY <1>3, <1>4
    <3> HIDE DEF least, taken
    <3>2. Element(Numbered(display, least))
      BY <1>2, <3>1, NumberedIs
    <3> QED BY <1>4, <2>1, <3>2
  <2>2. CASE ~taken(display)
    BY <1>2, <2>2
  <2> QED BY <2>1, <2>2
<1> HIDE DEF chosen
<1> QED BY <1>1, <1>5, NeutralizedIs

\* The names of the files that are there already, as a disk that ignores case has them.
Names(files) == {Lower(f) : f \in ToSet(files)}

\* What the attachments that were written first are called.
Distinguished(files, n) ==
  /\ IsTokens(files) /\ Len(files) = n
  /\ \A i \in 1 .. n : Element(files[i]) /\ \A e \in ReservedExts : ~IsSuffix(e, Lower(files[i]))
  /\ \A i, j \in 1 .. n : i # j => Lower(files[i]) # Lower(files[j])
  /\ IsFiniteSet(Names(files))

LEMMA OneMore ==
  ASSUME NumeralsApart, NEW n \in Nat, NEW files, Distinguished(files, n), NEW name, IsTokens(name)
  PROVE  Distinguished(Append(files, AttachmentFile(Names(files), name)), n + 1)
<1> DEFINE f == AttachmentFile(Names(files), name)
           T == ToSet(files) \cup {f}
           more == Append(files, f)
<1>1. Element(f) /\ Lower(f) \notin Names(files) /\ \A e \in ReservedExts : ~IsSuffix(e, Lower(f))
  BY AttachmentIs DEF Distinguished
<1> HIDE DEF f
<1>2. IsTokens(files) /\ Len(files) = n /\ \A i \in 1 .. n : files[i] \in ToSet(files)
  BY TextFacts DEF Distinguished
<1>3. files \in Seq(T) /\ f \in T
  BY <1>2, SeqMonotonic DEF IsTokens
<1> HIDE DEF T
<1>4. /\ more \in Seq(T) /\ Len(more) = n + 1
      /\ (\A i \in 1 .. n : more[i] = files[i]) /\ more[n + 1] = f
  BY <1>2, <1>3, AppendProperties
<1> HIDE DEF more
<1>5. IsTokens(more)
  BY <1>4, TextIs
<1>6. \A i \in 1 .. n + 1 : (i \in 1 .. n /\ more[i] = files[i]) \/ (i = n + 1 /\ more[i] = f)
  BY <1>4
<1>7. \A i \in 1 .. n + 1 : Element(more[i]) /\ \A e \in ReservedExts : ~IsSuffix(e, Lower(more[i]))
  BY <1>1, <1>6 DEF Distinguished
<1>8. \A i \in 1 .. n : Lower(files[i]) # Lower(f)
  BY <1>1, <1>2 DEF Names
<1>9. ASSUME NEW i \in 1 .. n + 1, NEW j \in 1 .. n + 1, i # j
      PROVE  Lower(more[i]) # Lower(more[j])
  <2>1. CASE i = n + 1
    <3>1. j \in 1 .. n
      BY <1>9, <2>1
    <3> QED BY <1>4, <1>8, <2>1, <3>1
  <2>2. CASE j = n + 1
    <3>1. i \in 1 .. n
      BY <1>9, <2>2
    <3> QED BY <1>4, <1>8, <2>2, <3>1
  <2>3. CASE i # n + 1 /\ j # n + 1
    <3>1. i \in 1 .. n /\ j \in 1 .. n
      BY <2>3
    <3> QED BY <1>4, <1>9, <3>1 DEF Distinguished
  <2> QED BY <2>1, <2>2, <2>3
<1>10. IsFiniteSet(Names(more))
  <2>1. ToSet(more) \subseteq ToSet(files) \cup {f}
    BY <1>4, TokensOf DEF T
  <2>2. ToSet(files) \cup {f} \subseteq ToSet(more)
    <3>1. ToSet(more) = {more[i] : i \in 1 .. n + 1} /\ ToSet(files) = {files[i] : i \in 1 .. n}
      <4>1. DOMAIN more = 1 .. n + 1 /\ DOMAIN files = 1 .. n
        BY <1>2, <1>4, <1>5, TextFacts
      <4> QED BY <4>1 DEF ToSet
    <3>2. n + 1 \in 1 .. n + 1 /\ \A i \in 1 .. n : i \in 1 .. n + 1
      OBVIOUS
    <3> QED BY <1>4, <3>1, <3>2
  <2>3. Names(more) = Names(files) \cup {Lower(f)}
    BY <2>1, <2>2 DEF Names
  <2> QED BY <2>3, FS_AddElement DEF Distinguished
<1> QED BY <1>4, <1>5, <1>7, <1>9, <1>10 DEF Distinguished, more, f

LEMMA AttachmentFilesUnfolds ==
  ASSUME NEW names, Len(names) \in Nat
  PROVE  \E files : /\ files[0] = <<>>
                    /\ \A n \in 1 .. Len(names) :
                         files[n] = Append(files[n - 1], AttachmentFile(Names(files[n - 1]), names[n]))
                    /\ AttachmentFiles(names) = files[Len(names)]
<1> DEFINE More(a, i) == Append(a, AttachmentFile(Names(a), names[i]))
           Runs(n, g) == g = [i \in 0 .. n |-> IF i = 0 THEN <<>> ELSE More(g[i - 1], i)]
           R == {n \in Nat : \E g : Runs(n, g)}
<1>1. 0 \in R
  <2> DEFINE g == [i \in 0 .. 0 |-> <<>>]
  <2>1. Runs(0, g)
    <3> HIDE DEF More
    <3> QED OBVIOUS
  <2> QED BY <2>1
<1>2. ASSUME NEW n \in R
      PROVE  n + 1 \in R
  <2>1. PICK g : Runs(n, g)
    OBVIOUS
  <2> DEFINE h == [i \in 0 .. n + 1 |-> IF i <= n THEN g[i] ELSE More(g[n], n + 1)]
  <2> HIDE DEF More
  <2>2. ASSUME NEW i \in 0 .. n + 1
        PROVE  h[i] = IF i = 0 THEN <<>> ELSE More(h[i - 1], i)
    <3>1. CASE i = n + 1
      BY <3>1
    <3>2. CASE i \in 0 .. n
      <4>1. h[i] = g[i] /\ (i # 0 => i - 1 \in 0 .. n /\ h[i - 1] = g[i - 1])
        BY <3>2
      <4>2. g[i] = IF i = 0 THEN <<>> ELSE More(g[i - 1], i)
        BY <2>1, <3>2
      <4> QED BY <4>1, <4>2
    <3> QED BY <3>1, <3>2
  <2>3. Runs(n + 1, h)
    BY <2>2
  <2> HIDE DEF Runs
  <2> QED BY <2>3
<1>3. R = Nat
  <2> HIDE DEF R
  <2>1. R \in SUBSET Nat
    BY DEF R
  <2> QED BY <1>1, <1>2, <2>1, SetInduction
<1>4. Len(names) \in R
  <2> HIDE DEF R
  <2> QED BY <1>3
<1> DEFINE files == CHOOSE g : Runs(Len(names), g)
<1>5. Runs(Len(names), files)
  BY <1>4
<1>6. AttachmentFiles(names) = files[Len(names)]
  BY DEF AttachmentFiles, Names
<1> HIDE DEF files
<1>7. files[0] = <<>> /\ \A n \in 1 .. Len(names) : files[n] = More(files[n - 1], n)
  <2> HIDE DEF More
  <2> QED BY <1>5
<1> QED BY <1>6, <1>7

LEMMA FilesAreApart ==
  ASSUME NumeralsApart, NEW names, IsTokens(names), \A i \in 1 .. Len(names) : IsTokens(names[i])
  PROVE  Distinguished(AttachmentFiles(names), Len(names))
<1>0. Len(names) \in Nat
  BY TextFacts
<1>1. PICK files : /\ files[0] = <<>>
                   /\ \A n \in 1 .. Len(names) :
                        files[n] = Append(files[n - 1], AttachmentFile(Names(files[n - 1]), names[n]))
                   /\ AttachmentFiles(names) = files[Len(names)]
  BY <1>0, AttachmentFilesUnfolds
<1> DEFINE R == {n \in Nat : n \in 0 .. Len(names) => Distinguished(files[n], n)}
<1>2. 0 \in R
  <2>1. <<>> \in Seq({}) /\ Len(<<>>) = 0
    OBVIOUS
  <2>2. IsTokens(<<>>) /\ ToSet(<<>>) = {}
    BY <2>1, TextIs, TokensOf
  <2>3. Names(<<>>) = {}
    BY <2>2 DEF Names
  <2>4. Distinguished(<<>>, 0)
    BY <2>1, <2>2, <2>3, FS_EmptySet DEF Distinguished
  <2> QED BY <1>1, <2>4
<1>3. ASSUME NEW n \in R
      PROVE  n + 1 \in R
  <2> SUFFICES ASSUME n + 1 \in 0 .. Len(names) PROVE Distinguished(files[n + 1], n + 1)
    OBVIOUS
  <2>1. Distinguished(files[n], n) /\ n \in Nat /\ n + 1 \in 1 .. Len(names) /\ n + 1 - 1 = n
    BY <1>0
  <2> HIDE DEF R
  <2>2. files[n + 1] = Append(files[n], AttachmentFile(Names(files[n]), names[n + 1]))
    BY <1>1, <2>1
  <2>3. IsTokens(names[n + 1])
    BY <2>1
  <2> QED BY <2>1, <2>2, <2>3, OneMore
<1>4. R = Nat
  <2> HIDE DEF R
  <2>1. R \in SUBSET Nat
    BY DEF R
  <2> QED BY <1>2, <1>3, <2>1, SetInduction
<1>5. Distinguished(files[Len(names)], Len(names))
  BY <1>0, <1>4
<1> QED BY <1>1, <1>5

\* However many attachments a message has and whatever a sender calls them, each gets
\* one file name that no other has in either case, that stays in its directory and
\* that *.md and *.eml do not find; and a slug is the slug of itself.
THEOREM NamesStayApart ==
  ASSUME NumeralsApart,
         IsTokens(sample.names), \A i \in 1 .. Len(sample.names) : IsTokens(sample.names[i]),
         IsTokens(sample.subject)
  PROVE  NamesApart
<1> DEFINE files == AttachmentFiles(sample.names)
<1>1. Distinguished(files, Len(sample.names)) /\ Len(sample.names) \in Nat
  BY FilesAreApart, TextFacts
<1>2. AttachmentsApart(sample.names)
  <2> HIDE DEF files
  <2>1. DOMAIN files = 1 .. Len(sample.names)
    BY <1>1, TextFacts DEF Distinguished
  <2> QED BY <1>1, <2>1 DEF Distinguished, Element, AttachmentsApart, files
<1>3. SlugSettled(sample.subject)
  BY SlugStays
<1> QED BY <1>2, <1>3 DEF NamesApart

-----------------------------------------------------------------------------
(* References *)

\* The scan of a value unfolds as the other loops do,
ScanSteps(v, s) == \A i \in 1 .. Len(v) : s[i] = ScanReference(v, s[i - 1], i)

LEMMA ScanUnfolds ==
  ASSUME NEW v, Len(v) \in Nat, NEW out
  PROVE  \E s : s[0] = [start |-> Unbracketed, out |-> out] /\ ScanSteps(v, s) /\ Scan(v, out) = s[Len(v)].out
<1> DEFINE none == [start |-> Unbracketed, out |-> out]
           Runs(n, g) == g = [i \in 0 .. n |-> IF i = 0 THEN none ELSE ScanReference(v, g[i - 1], i)]
           R == {n \in Nat : \E g : Runs(n, g)}
<1>1. 0 \in R
  <2> DEFINE g == [i \in 0 .. 0 |-> none]
  <2>1. Runs(0, g)
    <3> HIDE DEF none
    <3> QED OBVIOUS
  <2> QED BY <2>1
<1>2. ASSUME NEW n \in R
      PROVE  n + 1 \in R
  <2>1. PICK g : Runs(n, g)
    OBVIOUS
  <2> DEFINE h == [i \in 0 .. n + 1 |-> IF i <= n THEN g[i] ELSE ScanReference(v, g[n], n + 1)]
  <2> HIDE DEF none
  <2>2. ASSUME NEW i \in 0 .. n + 1
        PROVE  h[i] = IF i = 0 THEN none ELSE ScanReference(v, h[i - 1], i)
    <3>1. CASE i = n + 1
      BY <3>1
    <3>2. CASE i \in 0 .. n
      <4>1. h[i] = g[i] /\ (i # 0 => i - 1 \in 0 .. n /\ h[i - 1] = g[i - 1])
        BY <3>2
      <4>2. g[i] = IF i = 0 THEN none ELSE ScanReference(v, g[i - 1], i)
        BY <2>1, <3>2
      <4> QED BY <4>1, <4>2
    <3> QED BY <3>1, <3>2
  <2>3. Runs(n + 1, h)
    BY <2>2
  <2> HIDE DEF Runs
  <2> QED BY <2>3
<1>3. R = Nat
  <2> HIDE DEF R
  <2>1. R \in SUBSET Nat
    BY DEF R
  <2> QED BY <1>1, <1>2, <2>1, SetInduction
<1>4. Len(v) \in R
  <2> HIDE DEF R
  <2> QED BY <1>3
<1> DEFINE s == CHOOSE g : Runs(Len(v), g)
<1>5. Runs(Len(v), s)
  BY <1>4
<1>6. Scan(v, out) = s[Len(v)].out
  BY DEF Scan
<1> HIDE DEF s
<1>7. s[0] = none /\ ScanSteps(v, s)
  <2> HIDE DEF none
  <2> QED BY <1>5 DEF ScanSteps
<1> QED BY <1>6, <1>7

\* and so does that of all values.
LEMMA ReferencesUnfold ==
  ASSUME NEW values, Len(values) \in Nat
  PROVE  \E read : /\ read[0] = <<>> /\ \A k \in 1 .. Len(values) : read[k] = Scan(values[k], read[k - 1])
                   /\ ParseReferences(values) = read[Len(values)]
<1> DEFINE Runs(n, g) == g = [k \in 0 .. n |-> IF k = 0 THEN <<>> ELSE Scan(values[k], g[k - 1])]
           R == {n \in Nat : \E g : Runs(n, g)}
<1>1. 0 \in R
  <2> DEFINE g == [k \in 0 .. 0 |-> <<>>]
  <2>1. Runs(0, g)
    OBVIOUS
  <2> QED BY <2>1
<1>2. ASSUME NEW n \in R
      PROVE  n + 1 \in R
  <2>1. PICK g : Runs(n, g)
    OBVIOUS
  <2> DEFINE h == [k \in 0 .. n + 1 |-> IF k <= n THEN g[k] ELSE Scan(values[n + 1], g[n])]
  <2>2. ASSUME NEW k \in 0 .. n + 1
        PROVE  h[k] = IF k = 0 THEN <<>> ELSE Scan(values[k], h[k - 1])
    <3>1. CASE k = n + 1
      BY <3>1
    <3>2. CASE k \in 0 .. n
      <4>1. h[k] = g[k] /\ (k # 0 => k - 1 \in 0 .. n /\ h[k - 1] = g[k - 1])
        BY <3>2
      <4>2. g[k] = IF k = 0 THEN <<>> ELSE Scan(values[k], g[k - 1])
        BY <2>1, <3>2
      <4> QED BY <4>1, <4>2
    <3> QED BY <3>1, <3>2
  <2>3. Runs(n + 1, h)
    BY <2>2
  <2> HIDE DEF Runs
  <2> QED BY <2>3
<1>3. R = Nat
  <2> HIDE DEF R
  <2>1. R \in SUBSET Nat
    BY DEF R
  <2> QED BY <1>1, <1>2, <2>1, SetInduction
<1>4. Len(values) \in R
  <2> HIDE DEF R
  <2> QED BY <1>3
<1> DEFINE read == CHOOSE g : Runs(Len(values), g)
<1>5. Runs(Len(values), read)
  BY <1>4
<1>6. ParseReferences(values) = read[Len(values)]
  BY DEF ParseReferences
<1> HIDE DEF read
<1> QED BY <1>5, <1>6

\* A part of a part is a part, and what stands in front moves it.
LEMMA HeldParts ==
  ASSUME NEW T, NEW t \in Seq(T), NEW u \in Seq(T), NEW s, NEW from \in Nat, Holds(s, t \o u, from)
  PROVE  Holds(s, t, from) /\ Holds(s, u, from + Len(t))
<1> DEFINE v == t \o u
<1>1. /\ Len(v) = Len(t) + Len(u) /\ Len(t) \in Nat /\ Len(u) \in Nat
      /\ Holds(v, u, Len(t)) /\ \A j \in 1 .. Len(t) : v[j] = t[j]
  BY HeldByMore, ConcatProperties
<1>2. \A j \in 1 .. Len(v) : from + j \in 1 .. Len(s) /\ s[from + j] = v[j]
  BY DEF Holds
<1> HIDE DEF v
<1>3. Holds(s, t, from)
  BY <1>1, <1>2 DEF Holds
<1>4. ASSUME NEW j \in 1 .. Len(u)
      PROVE  from + Len(t) + j \in 1 .. Len(s) /\ s[from + Len(t) + j] = u[j]
  <2>1. Len(t) + j \in 1 .. Len(v) /\ v[Len(t) + j] = u[j] /\ from + (Len(t) + j) = from + Len(t) + j
    BY <1>1 DEF Holds
  <2> QED BY <1>2, <2>1
<1> QED BY <1>3, <1>4 DEF Holds

LEMMA HeldBehind ==
  ASSUME NEW T, NEW s \in Seq(T), NEW u \in Seq(T), NEW part, NEW from \in Nat, Holds(u, part, from)
  PROVE  Holds(s \o u, part, Len(s) + from)
<1> DEFINE v == s \o u
<1>1. Len(s) \in Nat /\ Holds(v, u, Len(s))
  BY HeldByMore
<1> HIDE DEF v
<1>2. ASSUME NEW j \in 1 .. Len(part)
      PROVE  Len(s) + from + j \in 1 .. Len(v) /\ v[Len(s) + from + j] = part[j]
  <2>1. from + j \in 1 .. Len(u) /\ u[from + j] = part[j]
    BY DEF Holds
  <2>2. Len(s) + (from + j) \in 1 .. Len(v) /\ v[Len(s) + (from + j)] = u[from + j]
    BY <1>1, <2>1 DEF Holds
  <2>3. j \in Int
    OBVIOUS
  <2>4. Len(s) + from + j = Len(s) + (from + j)
    BY <1>1, <2>3
  <2> QED BY <2>1, <2>2, <2>4
<1> QED BY <1>2 DEF Holds, v

\* No brackets with something between them, except other brackets.
NoIdIn(noise) ==
  \A i, j \in 1 .. Len(noise) :
    noise[i] = "<" /\ noise[j] = ">" /\ i < j /\ (\A k \in i + 1 .. j - 1 : noise[k] \notin {"<", ">"}) => j = i + 1

LEMMA ScanIs ==
  ASSUME NEW v, NEW a, NEW i
  PROVE  LET b == ScanReference(v, a, i)
             id == TrimSpace(SubSeq(v, a.start, i))
         IN
         /\ v[i] = "<" => b.start = i /\ b.out = a.out
         /\ v[i] = ">" /\ a.start # Unbracketed =>
              /\ b.start = Unbracketed
              /\ b.out = IF id = <<"<", ">">> \/ id \in ToSet(a.out) THEN a.out ELSE Append(a.out, id)
         /\ v[i] \notin {"<", ">"} \/ (v[i] = ">" /\ a.start = Unbracketed) => b = a
BY DEF ScanReference, CloseReference

LEMMA NotSpace == "<" # Space /\ ">" # Space
BY Zenon DEF Space

LEMMA NothingAround ==
  ASSUME NEW s, IsTokens(s), s # <<>>, s[1] # Space, s[Len(s)] # Space
  PROVE  TrimSpace(s) = s
<1>1. TrimSpace(s) = Trim(s, {Space})
  <2>1. {i \in DOMAIN s : s[i] # Space} = {i \in DOMAIN s : s[i] \notin {Space}}
    OBVIOUS
  <2> QED BY <2>1 DEF TrimSpace, Trim
<1> QED BY <1>1, NothingToTrim

\* A bracketed run comes out as it is written.
LEMMA RunIs ==
  ASSUME NEW T, NEW v \in Seq(T), NEW p \in Nat, NEW U, NEW id \in Seq(U), Holds(v, id, p),
         Len(id) > 1, id[1] = "<", id[Len(id)] = ">"
  PROVE  TrimSpace(SubSeq(v, p + 1, p + Len(id))) = id
<1> DEFINE r == SubSeq(v, p + 1, p + Len(id))
<1>1. IsTokens(id) /\ IsTokens(v) /\ Len(id) \in Nat /\ Len(v) \in Nat
  BY TextIs
<1>2. 1 \in 1 .. Len(id) /\ Len(id) \in 1 .. Len(id) /\ id # <<>>
  BY <1>1
<1>3. p + 1 \in 1 .. Len(v) /\ p + Len(id) \in 1 .. Len(v) /\ p + Len(id) \in p + 1 .. Len(v)
  BY <1>1, <1>2 DEF Holds
<1>4. /\ IsTokens(r) /\ ToSet(r) \subseteq ToSet(v) /\ Len(r) = p + Len(id) - (p + 1) + 1
      /\ \A k \in 1 .. Len(r) : r[k] = v[p + 1 + k - 1]
  BY <1>1, <1>3, PartText
<1> HIDE DEF r
<1>5. Len(r) = Len(id)
  BY <1>1, <1>4
<1>6. \A k \in 1 .. Len(id) : r[k] = id[k]
  <2>1. ASSUME NEW k \in 1 .. Len(id)
        PROVE  r[k] = id[k]
    <3>1. p + 1 + k - 1 = p + k
      OBVIOUS
    <3>2. r[k] = v[p + k]
      BY <1>4, <1>5, <3>1
    <3> QED BY <3>2 DEF Holds
  <2> QED BY <2>1
<1>7. r = id
  <2> DEFINE W == ToSet(r) \cup U
  <2>1. r \in Seq(W) /\ id \in Seq(W)
    BY <1>4, SeqMonotonic DEF IsTokens
  <2> HIDE DEF W
  <2> QED BY <1>5, <1>6, <2>1, SeqEqual
<1> QED BY <1>1, <1>2, <1>7, NothingAround, NotSpace DEF r

\* Noise adds no reference: a bracket that is open at its end stands in it, with no
\* bracket behind.
LEMMA QuietNoise ==
  ASSUME NEW T, NEW v \in Seq(T), NEW s, ScanSteps(v, s), NEW noise, IsTokens(noise), NoIdIn(noise),
         NEW p \in Nat, Holds(v, noise, p), s[p].start = Unbracketed
  PROVE  s[p + Len(noise)].out = s[p].out
<1> DEFINE Opened(i) == \E q \in 1 .. i :
                          /\ s[p + i].start = p + q /\ noise[q] = "<"
                          /\ \A k \in q + 1 .. i : noise[k] \notin {"<", ">"}
           Good(i) == s[p + i].out = s[p].out /\ (s[p + i].start = Unbracketed \/ Opened(i))
           R == {i \in Nat : i \in 0 .. Len(noise) => Good(i)}
<1>0. Len(noise) \in Nat /\ noise \in Seq(ToSet(noise))
  BY TextFacts
<1>1. 0 \in R
  <2>1. p + 0 = p
    OBVIOUS
  <2>2. s[p + 0] = s[p]
    BY <2>1
  <2> QED BY <2>2
<1>2. ASSUME NEW i \in R
      PROVE  i + 1 \in R
  <2> SUFFICES ASSUME i + 1 \in 0 .. Len(noise) PROVE Good(i + 1)
    OBVIOUS
  <2>1. i \in Nat /\ i + 1 \in 1 .. Len(noise) /\ Good(i)
    BY <1>0
  <2> HIDE DEF R
  <2> DEFINE a == s[p + i]
             b == s[p + (i + 1)]
  <2>2. p + (i + 1) \in 1 .. Len(v) /\ v[p + (i + 1)] = noise[i + 1] /\ (p + (i + 1)) - 1 = p + i
    BY <2>1 DEF Holds
  <2>3. b = ScanReference(v, a, p + (i + 1))
    <3>1. s[p + (i + 1)] = ScanReference(v, s[(p + (i + 1)) - 1], p + (i + 1))
      BY <2>2 DEF ScanSteps
    <3> QED BY <2>2, <3>1
  <2>4. a.out = s[p].out /\ (a.start = Unbracketed \/ Opened(i))
    BY <2>1
  <2>5. CASE noise[i + 1] = "<"
    <3>1. b.start = p + (i + 1) /\ b.out = a.out
      BY <2>2, <2>3, <2>5, ScanIs
    <3>2. i + 1 \in 1 .. i + 1 /\ \A k \in (i + 1) + 1 .. i + 1 : FALSE
      BY <2>1
    <3>3. Opened(i + 1)
      BY <2>5, <3>1, <3>2
    <3> HIDE DEF Opened
    <3> QED BY <2>4, <3>1, <3>3
  <2>6. CASE noise[i + 1] = ">" /\ a.start # Unbracketed
    <3>1. PICK q \in 1 .. i : /\ a.start = p + q /\ noise[q] = "<"
                              /\ \A k \in q + 1 .. i : noise[k] \notin {"<", ">"}
      BY <2>4, <2>6
    <3>2. q = i
      <4>1. /\ q \in 1 .. Len(noise) /\ i + 1 \in 1 .. Len(noise) /\ q < i + 1
            /\ \A k \in q + 1 .. (i + 1) - 1 : noise[k] \notin {"<", ">"}
        BY <2>1, <3>1
      <4>2. i + 1 = q + 1
        BY <2>6, <3>1, <4>1 DEF NoIdIn
      <4> QED BY <2>1, <4>2
    <3>3. TrimSpace(SubSeq(v, a.start, p + (i + 1))) = <<"<", ">">>
      <4> DEFINE id == <<"<", ">">>
                 from == p + i - 1
      <4>1. id \in Seq({"<", ">"}) /\ Len(id) = 2 /\ id[1] = "<" /\ id[2] = ">"
        OBVIOUS
      <4> HIDE DEF id
      <4>2. from \in Nat /\ from + 1 = p + i /\ from + 2 = p + (i + 1)
        BY <2>1, <3>1, <3>2
      <4>3. p + i \in 1 .. Len(v) /\ v[p + i] = "<"
        BY <2>1, <3>1, <3>2 DEF Holds
      <4> HIDE DEF from
      <4>4. Holds(v, id, from)
        <5>1. \A j \in 1 .. 2 : j = 1 \/ j = 2
          OBVIOUS
        <5>2. from + 1 \in 1 .. Len(v) /\ v[from + 1] = id[1]
          BY <4>1, <4>2, <4>3
        <5>3. from + 2 \in 1 .. Len(v) /\ v[from + 2] = id[2]
          BY <2>2, <2>6, <4>1, <4>2
        <5> QED BY <4>1, <5>1, <5>2, <5>3 DEF Holds
      <4>5. TrimSpace(SubSeq(v, from + 1, from + 2)) = id
        <5>1. Len(id) > 1 /\ id[Len(id)] = ">"
          BY <4>1
        <5>2. TrimSpace(SubSeq(v, from + 1, from + Len(id))) = id
          BY <4>1, <4>2, <4>4, <5>1, RunIs
        <5> QED BY <4>1, <5>2
      <4>6. a.start = from + 1
        BY <3>1, <3>2, <4>2
      <4> QED BY <4>2, <4>5, <4>6 DEF id
    <3>4. b.start = Unbracketed /\ b.out = a.out
      BY <2>2, <2>3, <2>6, <3>3, ScanIs
    <3> QED BY <2>4, <3>4
  <2>7. CASE noise[i + 1] = ">" /\ a.start = Unbracketed
    <3>1. b = a
      BY <2>2, <2>3, <2>7, ScanIs
    <3> QED BY <2>4, <2>7, <3>1
  <2>8. CASE noise[i + 1] \notin {"<", ">"}
    <3>1. b = a
      BY <2>2, <2>3, <2>8, ScanIs
    <3>2. CASE Opened(i)
      <4>1. PICK q \in 1 .. i : /\ a.start = p + q /\ noise[q] = "<"
                                /\ \A k \in q + 1 .. i : noise[k] \notin {"<", ">"}
        BY <3>2
      <4>2. q \in 1 .. i + 1 /\ \A k \in q + 1 .. i + 1 : k \in q + 1 .. i \/ k = i + 1
        BY <2>1
      <4>3. Opened(i + 1)
        BY <2>8, <3>1, <4>1, <4>2
      <4> HIDE DEF Opened
      <4> QED BY <2>4, <3>1, <4>3
    <3>3. CASE a.start = Unbracketed
      BY <2>4, <3>1, <3>3
    <3> HIDE DEF Opened
    <3> QED BY <2>4, <3>2, <3>3
  <2> HIDE DEF Good
  <2> QED BY <2>5, <2>6, <2>7, <2>8
<1>3. R = Nat
  <2> HIDE DEF R
  <2>1. R \in SUBSET Nat
    BY DEF R
  <2> QED BY <1>1, <1>2, <2>1, SetInduction
<1>4. Len(noise) \in R
  <2> HIDE DEF R
  <2> QED BY <1>0, <1>3
<1>5. Good(Len(noise))
  BY <1>0, <1>4
<1> QED BY <1>5

\* What an id adds to the references, unless it is there.
WithId(out, x) == IF Id(x) \in ToSet(out) THEN out ELSE Append(out, Id(x))

LEMMA IdIs ==
  ASSUME NEW x
  PROVE  /\ Id(x) \in Seq({"<", x, "@", "x", ">"}) /\ Len(Id(x)) = 5 /\ Id(x) # <<"<", ">">>
         /\ Id(x)[1] = "<" /\ Id(x)[2] = x /\ Id(x)[3] = "@" /\ Id(x)[4] = "x" /\ Id(x)[5] = ">"
<1>1. Id(x) \in Seq({"<", x, "@", "x", ">"}) /\ Len(Id(x)) = 5
  BY DEF Id
<1>2. Len(<<"<", ">">>) = 2
  OBVIOUS
<1>3. Id(x)[1] = "<" /\ Id(x)[2] = x /\ Id(x)[3] = "@" /\ Id(x)[4] = "x" /\ Id(x)[5] = ">"
  BY DEF Id
<1> QED BY <1>1, <1>2, <1>3

LEMMA IdIsRead ==
  ASSUME NEW T, NEW v \in Seq(T), NEW s, ScanSteps(v, s), NEW x, x \notin {"<", ">"},
         NEW p \in Nat, Holds(v, Id(x), p)
  PROVE  s[p + 5].start = Unbracketed /\ s[p + 5].out = WithId(s[p].out, x)
<1>1. /\ v[p + 1] = "<" /\ v[p + 2] = x /\ v[p + 3] = "@" /\ v[p + 4] = "x" /\ v[p + 5] = ">"
      /\ {p + 1, p + 2, p + 3, p + 4, p + 5} \subseteq 1 .. Len(v)
  <2>1. \A j \in 1 .. 5 : p + j \in 1 .. Len(v) /\ v[p + j] = Id(x)[j]
    BY IdIs DEF Holds
  <2>2. 1 \in 1 .. 5 /\ 2 \in 1 .. 5 /\ 3 \in 1 .. 5 /\ 4 \in 1 .. 5 /\ 5 \in 1 .. 5
    OBVIOUS
  <2>3. /\ v[p + 1] = Id(x)[1] /\ v[p + 2] = Id(x)[2] /\ v[p + 3] = Id(x)[3]
        /\ v[p + 4] = Id(x)[4] /\ v[p + 5] = Id(x)[5]
    BY <2>1, <2>2
  <2>4. {p + 1, p + 2, p + 3, p + 4, p + 5} \subseteq 1 .. Len(v)
    BY <2>1, <2>2
  <2> QED BY <2>3, <2>4, IdIs
<1>2. /\ (p + 1) - 1 = p /\ (p + 2) - 1 = p + 1 /\ (p + 3) - 1 = p + 2
      /\ (p + 4) - 1 = p + 3 /\ (p + 5) - 1 = p + 4 /\ p + 1 # 0
  OBVIOUS
<1>3. /\ s[p + 1] = ScanReference(v, s[p], p + 1) /\ s[p + 2] = ScanReference(v, s[p + 1], p + 2)
      /\ s[p + 3] = ScanReference(v, s[p + 2], p + 3) /\ s[p + 4] = ScanReference(v, s[p + 3], p + 4)
      /\ s[p + 5] = ScanReference(v, s[p + 4], p + 5)
  <2>1. /\ s[p + 1] = ScanReference(v, s[(p + 1) - 1], p + 1) /\ s[p + 2] = ScanReference(v, s[(p + 2) - 1], p + 2)
        /\ s[p + 3] = ScanReference(v, s[(p + 3) - 1], p + 3) /\ s[p + 4] = ScanReference(v, s[(p + 4) - 1], p + 4)
        /\ s[p + 5] = ScanReference(v, s[(p + 5) - 1], p + 5)
    BY <1>1 DEF ScanSteps
  <2> QED BY <1>2, <2>1
<1>4. s[p + 1].start = p + 1 /\ s[p + 1].out = s[p].out
  BY <1>1, <1>3, ScanIs
<1>5. s[p + 4].start = p + 1 /\ s[p + 4].out = s[p].out
  <2>1. s[p + 2] = s[p + 1]
    BY <1>1, <1>3, ScanIs
  <2>2. s[p + 3] = s[p + 2]
    BY <1>1, <1>3, ScanIs
  <2>3. s[p + 4] = s[p + 3]
    BY <1>1, <1>3, ScanIs
  <2> QED BY <1>4, <2>1, <2>2, <2>3
<1>6. TrimSpace(SubSeq(v, p + 1, p + 5)) = Id(x)
  <2> DEFINE id == Id(x)
             U == {"<", x, "@", "x", ">"}
  <2>1. id \in Seq(U) /\ Len(id) = 5 /\ id[1] = "<" /\ id[5] = ">"
    BY IdIs
  <2> HIDE DEF U, id
  <2>2. TrimSpace(SubSeq(v, p + 1, p + Len(id))) = id
    <3>1. Holds(v, id, p)
      BY DEF id
    <3>2. Len(id) > 1 /\ id[Len(id)] = ">"
      BY <2>1
    <3> QED BY <2>1, <3>1, <3>2, RunIs
  <2> QED BY <2>1, <2>2 DEF id
<1>7. s[p + 4].start # Unbracketed
  BY <1>2, <1>5 DEF Unbracketed
<1>8. /\ s[p + 5].start = Unbracketed
      /\ s[p + 5].out = IF Id(x) = <<"<", ">">> \/ Id(x) \in ToSet(s[p + 4].out)
                        THEN s[p + 4].out ELSE Append(s[p + 4].out, Id(x))
  <2> DEFINE a  == s[p + 4]
             i  == p + 5
             id == TrimSpace(SubSeq(v, a.start, i))
  <2>1. id = Id(x)
    BY <1>5, <1>6
  <2>2. v[i] = ">" /\ a.start # Unbracketed /\ s[i] = ScanReference(v, a, i)
    BY <1>1, <1>3, <1>7
  <2> HIDE DEF a, i
  <2>3. /\ s[i].start = Unbracketed
        /\ s[i].out = IF id = <<"<", ">">> \/ id \in ToSet(a.out) THEN a.out ELSE Append(a.out, id)
    BY <2>2, ScanIs
  <2> QED BY <2>1, <2>3 DEF a, i
<1> QED BY <1>5, <1>8, IdIs DEF WithId

\* A header reads as the ids in it, whatever the noise.
LEMMA HeaderIsRead ==
  ASSUME NEW noise, IsTokens(noise), NoIdIn(noise), NEW Words, Words \cap {"<", ">"} = {},
         NEW xs \in Seq(Words), NEW kept, NEW b \in Nat,
         \A j \in 1 .. Len(xs) : kept[b + j] = WithId(kept[(b + j) - 1], xs[j])
  PROVE  Scan(HeaderOf(noise, xs), kept[b]) = kept[b + Len(xs)]
<1> DEFINE T      == ToSet(noise) \cup Words \cup {"<", "@", "x", ">"}
           blocks == [j \in DOMAIN xs |-> Id(xs[j]) \o noise]
           F      == FlattenSeq(blocks)
           v      == noise \o F
           N      == Len(noise)
<1>0. Len(xs) \in Nat /\ DOMAIN xs = 1 .. Len(xs) /\ \A j \in 1 .. Len(xs) : xs[j] \in Words /\ xs[j] \notin {"<", ">"}
  OBVIOUS
<1>1. noise \in Seq(T) /\ N \in Nat
  BY TextFacts, SeqMonotonic DEF IsTokens
<1>2. ASSUME NEW j \in 1 .. Len(xs)
      PROVE  Id(xs[j]) \in Seq(T)
  <2> DEFINE U == {"<", xs[j], "@", "x", ">"}
  <2>1. U \subseteq T
    BY <1>0
  <2>2. Id(xs[j]) \in Seq(U)
    BY IdIs
  <2> HIDE DEF T, U
  <2> QED BY <2>1, <2>2, SeqMonotonic
<1> HIDE DEF T
<1>3. \A j \in 1 .. Len(xs) : blocks[j] = Id(xs[j]) \o noise /\ blocks[j] \in Seq(T) /\ Len(blocks[j]) = 5 + N
  <2>1. ASSUME NEW j \in 1 .. Len(xs)
        PROVE  Id(xs[j]) \o noise \in Seq(T) /\ Len(Id(xs[j]) \o noise) = 5 + N
    <3> DEFINE id == Id(xs[j])
    <3>1. id \in Seq(T) /\ Len(id) = 5
      BY <1>2, IdIs
    <3> HIDE DEF id
    <3>2. id \o noise \in Seq(T) /\ Len(id \o noise) = Len(id) + N
      BY <1>1, <3>1, HeldByMore
    <3> QED BY <3>1, <3>2 DEF id
  <2> QED BY <1>0, <2>1
<1>4. blocks \in Seq(Seq(T)) /\ Len(blocks) = Len(xs)
  <2>1. blocks \in [1 .. Len(xs) -> Seq(T)]
    BY <1>0, <1>3
  <2> DEFINE S == Seq(T)
  <2>2. blocks \in [1 .. Len(xs) -> S]
    BY <2>1
  <2> HIDE DEF blocks, S
  <2>3. blocks \in Seq(S) /\ Len(blocks) = Len(xs)
    BY <1>0, <2>2, SeqDef
  <2> QED BY <2>3 DEF S
<1> HIDE DEF blocks, N
<1>5. PICK at : /\ at[0] = 0 /\ at[Len(blocks)] = Len(F)
                /\ \A k \in 1 .. Len(blocks) :
                     /\ at[k - 1] \in Nat /\ at[k] = at[k - 1] + Len(blocks[k])
                     /\ Holds(F, blocks[k], at[k - 1])
  BY <1>4, FlattenIs
<1>6. F \in Seq(T)
  BY <1>4, FlattenType
<1> HIDE DEF F
<1>7. v \in Seq(T) /\ Len(v) = N + Len(F) /\ Len(F) \in Nat
  BY <1>1, <1>6, HeldByMore DEF N
<1>8. Holds(v, noise, 0)
  <2>1. Holds(noise, noise, 0)
    BY <1>1 DEF Holds
  <2> QED BY <1>1, <1>6, <2>1, HeldByMore
<1>9. \A k \in 1 .. Len(xs) : Holds(v, blocks[k], N + at[k - 1])
  BY <1>1, <1>4, <1>5, <1>6, HeldBehind DEF N
<1> HIDE DEF v
<1>10. PICK s : /\ s[0] = [start |-> Unbracketed, out |-> kept[b]] /\ ScanSteps(v, s)
                /\ Scan(v, kept[b]) = s[Len(v)].out
  <2>1. Len(v) \in Nat
    BY <1>1, <1>7
  <2> QED BY <2>1, ScanUnfolds
<1> DEFINE R == {j \in Nat : j \in 0 .. Len(xs) => s[N + at[j]].out = kept[b + j]}
<1>11. 0 \in R
  <2>1. s[0].start = Unbracketed /\ s[0].out = kept[b] /\ 0 \in Nat
    BY <1>10
  <2>2. s[0 + N].out = s[0].out
    BY <1>7, <1>8, <1>10, <2>1, QuietNoise DEF N
  <2>3. N + at[0] = 0 + N /\ b + 0 = b
    BY <1>1, <1>5
  <2>4. s[N + at[0]].out = kept[b + 0]
    BY <2>1, <2>2, <2>3
  <2> QED BY <2>4
<1>12. ASSUME NEW j \in R
       PROVE  j + 1 \in R
  <2> SUFFICES ASSUME j + 1 \in 0 .. Len(xs) PROVE s[N + at[j + 1]].out = kept[b + (j + 1)]
    OBVIOUS
  <2>1. j \in Nat /\ j + 1 \in 1 .. Len(xs) /\ j \in 0 .. Len(xs) /\ (j + 1) - 1 = j /\ (b + (j + 1)) - 1 = b + j
    BY <1>0
  <2>2. s[N + at[j]].out = kept[b + j]
    BY <2>1
  <2> HIDE DEF R
  <2> DEFINE p == N + at[j]
             x == xs[j + 1]
  <2>3. /\ at[j] \in Nat /\ at[j + 1] = at[j] + Len(blocks[j + 1])
        /\ Holds(v, blocks[j + 1], N + at[j])
    <3>1. /\ at[(j + 1) - 1] \in Nat /\ at[j + 1] = at[(j + 1) - 1] + Len(blocks[j + 1])
          /\ Holds(v, blocks[j + 1], N + at[(j + 1) - 1])
      BY <1>4, <1>5, <1>9, <2>1
    <3> QED BY <2>1, <3>1
  <2>4. p \in Nat /\ N + at[j + 1] = p + 5 + N
    <3>1. Len(blocks[j + 1]) = 5 + N
      BY <1>3, <2>1
    <3>2. at[j] \in Nat /\ at[j + 1] = at[j] + (5 + N)
      BY <2>3, <3>1
    <3>3. \A m \in Nat : N + m \in Nat /\ N + (m + (5 + N)) = N + m + 5 + N
      BY <1>1
    <3> QED BY <3>2, <3>3
  <2>5. Holds(v, Id(x), p) /\ Holds(v, noise, p + 5)
    <3>1. Id(x) \in Seq(T) /\ Len(Id(x)) = 5 /\ Holds(v, Id(x) \o noise, p)
      BY <1>2, <1>3, <2>1, <2>3, IdIs
    <3> HIDE DEF p, x
    <3>2. Holds(v, Id(x), p) /\ Holds(v, noise, p + Len(Id(x)))
      BY <1>1, <2>4, <3>1, HeldParts
    <3> QED BY <3>1, <3>2
  <2>6. x \notin {"<", ">"}
    BY <1>0, <2>1
  <2>7. kept[b + (j + 1)] = WithId(kept[b + j], x)
    <3>1. kept[b + (j + 1)] = WithId(kept[(b + (j + 1)) - 1], xs[j + 1])
      BY <2>1
    <3> QED BY <2>1, <3>1
  <2> HIDE DEF p, x
  <2>8. s[p + 5].start = Unbracketed /\ s[p + 5].out = WithId(s[p].out, x)
    BY <1>7, <1>10, <2>4, <2>5, <2>6, IdIsRead
  <2>9. s[p + 5 + N].out = s[p + 5].out
    <3>1. p + 5 \in Nat
      BY <2>4
    <3> QED BY <1>7, <1>10, <2>5, <2>8, <3>1, QuietNoise DEF N
  <2>10. s[p].out = kept[b + j]
    BY <2>2 DEF p
  <2> QED BY <2>4, <2>7, <2>8, <2>9, <2>10
<1>13. R = Nat
  <2> HIDE DEF R
  <2>1. R \in SUBSET Nat
    BY DEF R
  <2> QED BY <1>11, <1>12, <2>1, SetInduction
<1>14. Len(xs) \in R
  <2> HIDE DEF R
  <2> QED BY <1>0, <1>13
<1>15. s[N + at[Len(xs)]].out = kept[b + Len(xs)]
  BY <1>0, <1>14
<1>16. N + at[Len(xs)] = Len(v)
  BY <1>4, <1>5, <1>7
<1> QED BY <1>10, <1>15, <1>16 DEF HeaderOf, v, F, blocks

\* Every header of a conversation gives its ids and nothing else, in their order and each
\* once, whatever a mailer writes between them that is no bracketed id of its own.
THEOREM AncestorsAreRead ==
  ASSUME IsTokens(sample.noise), NoIdIn(sample.noise),
         NEW Words, Words \cap {"<", ">"} = {}, sample.ancestors \in Seq(Seq(Words))
  PROVE  AncestorsSurvive
<1> DEFINE noise   == sample.noise
           values  == sample.ancestors
           headers == [i \in DOMAIN values |-> HeaderOf(noise, values[i])]
           F       == FlattenSeq(values)
           ids     == [i \in DOMAIN F |-> Id(F[i])]
           IdsOf   == {Id(w) : w \in Words}
<1>1. values \in Seq(Seq(Words)) /\ Len(values) \in Nat /\ DOMAIN values = 1 .. Len(values)
  OBVIOUS
<1> HIDE DEF values, noise
<1>2. \A k \in 1 .. Len(values) : values[k] \in Seq(Words)
  BY <1>1
<1>3. PICK at : /\ at[0] = 0 /\ at[Len(values)] = Len(F)
                /\ \A k \in 1 .. Len(values) :
                     /\ at[k - 1] \in Nat /\ at[k] = at[k - 1] + Len(values[k])
                     /\ Holds(F, values[k], at[k - 1])
  BY <1>1, FlattenIs
<1>4. F \in Seq(Words)
  BY <1>1, FlattenType
<1> HIDE DEF F
<1>5. ids \in Seq(IdsOf) /\ Len(ids) = Len(F) /\ Len(F) \in Nat /\ \A i \in 1 .. Len(F) : ids[i] = Id(F[i])
  <2>1. Len(F) \in Nat /\ DOMAIN F = 1 .. Len(F) /\ \A i \in 1 .. Len(F) : F[i] \in Words
    BY <1>4
  <2>2. ids \in [1 .. Len(F) -> IdsOf]
    BY <2>1
  <2>3. \A i \in 1 .. Len(F) : ids[i] = Id(F[i])
    BY <2>1
  <2> HIDE DEF ids, IdsOf
  <2>4. ids \in Seq(IdsOf) /\ Len(ids) = Len(F)
    BY <2>1, <2>2, SeqDef
  <2> QED BY <2>1, <2>3, <2>4
<1> HIDE DEF ids, IdsOf
<1>6. PICK kept :
        /\ kept = [i \in 0 .. Len(ids) |->
             IF i = 0 THEN <<>>
             ELSE IF ids[i] \in ToSet(kept[i - 1]) THEN kept[i - 1] ELSE Append(kept[i - 1], ids[i])]
        /\ Distinct(ids) = kept[Len(ids)]
  BY <1>5, DistinctUnfolds
<1>7. kept[0] = <<>> /\ \A i \in 1 .. Len(F) : kept[i] = WithId(kept[i - 1], F[i])
  <2>1. \A i \in 0 .. Len(F) :
          kept[i] = IF i = 0 THEN <<>>
                    ELSE IF ids[i] \in ToSet(kept[i - 1]) THEN kept[i - 1] ELSE Append(kept[i - 1], ids[i])
    BY <1>5, <1>6
  <2> QED BY <1>5, <2>1 DEF WithId
<1>8. Len(headers) = Len(values) /\ \A k \in 1 .. Len(values) : headers[k] = HeaderOf(noise, values[k])
  BY <1>1
<1> HIDE DEF headers
<1>9. PICK read : /\ read[0] = <<>> /\ \A k \in 1 .. Len(values) : read[k] = Scan(headers[k], read[k - 1])
                  /\ ParseReferences(headers) = read[Len(values)]
  <2>1. Len(headers) \in Nat
    BY <1>1, <1>8
  <2> QED BY <1>8, <2>1, ReferencesUnfold
<1>10. ASSUME NEW k \in 1 .. Len(values)
       PROVE  Scan(headers[k], kept[at[k - 1]]) = kept[at[k]]
  <2> DEFINE xs == values[k]
             b  == at[k - 1]
  <2>1. xs \in Seq(Words) /\ b \in Nat /\ at[k] = b + Len(xs) /\ headers[k] = HeaderOf(noise, xs) /\ Holds(F, xs, b)
    BY <1>2, <1>3, <1>8
  <2> HIDE DEF xs, b
  <2>2. ASSUME NEW j \in 1 .. Len(xs)
        PROVE  kept[b + j] = WithId(kept[(b + j) - 1], xs[j])
    BY <1>7, <2>1 DEF Holds
  <2>3. Scan(HeaderOf(noise, xs), kept[b]) = kept[b + Len(xs)]
    <3>1. IsTokens(noise) /\ NoIdIn(noise)
      BY DEF noise
    <3>2. xs \in Seq(Words) /\ b \in Nat
      BY <2>1
    <3> QED BY <2>2, <3>1, <3>2, HeaderIsRead
  <2> QED BY <2>1, <2>3 DEF b
<1> DEFINE R == {k \in Nat : k \in 0 .. Len(values) => read[k] = kept[at[k]]}
<1>11. 0 \in R
  BY <1>3, <1>7, <1>9
<1>12. ASSUME NEW k \in R
       PROVE  k + 1 \in R
  <2> SUFFICES ASSUME k + 1 \in 0 .. Len(values) PROVE read[k + 1] = kept[at[k + 1]]
    OBVIOUS
  <2>1. k \in Nat /\ k + 1 \in 1 .. Len(values) /\ (k + 1) - 1 = k /\ read[k] = kept[at[k]]
    BY <1>1
  <2> HIDE DEF R
  <2>2. read[k + 1] = Scan(headers[k + 1], read[(k + 1) - 1])
    BY <1>9, <2>1
  <2>3. Scan(headers[k + 1], kept[at[(k + 1) - 1]]) = kept[at[k + 1]]
    BY <1>10, <2>1
  <2> QED BY <2>1, <2>2, <2>3
<1>13. R = Nat
  <2> HIDE DEF R
  <2>1. R \in SUBSET Nat
    BY DEF R
  <2> QED BY <1>11, <1>12, <2>1, SetInduction
<1>14. Len(values) \in R
  <2> HIDE DEF R
  <2> QED BY <1>1, <1>13
<1>15. read[Len(values)] = kept[Len(F)]
  BY <1>1, <1>3, <1>14
<1>16. ParseReferences(headers) = Distinct(ids)
  BY <1>5, <1>6, <1>9, <1>15
<1> QED BY <1>16 DEF AncestorsSurvive, ChainSurvives, headers, ids, F, values, noise
=============================================================================
