-------------------------------- MODULE Texts --------------------------------
(***************************************************************************)
(* What configurations, rules and names share: a text is a sequence of     *)
(* tokens, and a reference to a list file says by which key it was made.   *)
(***************************************************************************)
EXTENDS Integers, Sequences, SequencesExt, FiniteSets, FiniteSetsExt, TLC

CONSTANTS
  Regex,       \* the texts each compilable pattern finds a match in
  Duration,    \* the texts that are Go durations, and how long they are
  LowerCase,   \* the tokens that have a lower case, and what it is
  Env,         \* what each variable token expands to
  Home         \* the home directory

IsTokens(t) == t \in Seq(ToSet(t))
ASSUME TextAssumption == IsTokens(Home) /\ \A v \in DOMAIN Env : IsTokens(Env[v])

Space == " "
NoDate == 0
FileKeys == {"from_domains_file", "from_regex_file"}

Ref(key, path) == [kind |-> key, path |-> path]

-----------------------------------------------------------------------------
Lower(s) == [i \in DOMAIN s |-> IF s[i] \in DOMAIN LowerCase THEN LowerCase[s[i]] ELSE s[i]]

TrimSpace(s) ==
  LET shown == {i \in DOMAIN s : s[i] # Space}
  IN IF shown = {} THEN <<>> ELSE SubSeq(s, Min(shown), Max(shown))

\* Each once, where it is met first.
Distinct(s) ==
  LET kept[i \in 0 .. Len(s)] ==
        IF i = 0 THEN <<>>
        ELSE IF s[i] \in ToSet(kept[i - 1]) THEN kept[i - 1] ELSE Append(kept[i - 1], s[i])
  IN kept[Len(s)]

\* `@Example.COM.` and `example.com` are one entry.
NormalizeDomain(s) ==
  LET bare   == TrimSpace(s)
      atless == IF IsPrefix(<<"@">>, bare) THEN Tail(bare) ELSE bare
      undot  == IF IsSuffix(<<".">>, atless) THEN Front(atless) ELSE atless
  IN Lower(TrimSpace(undot))

\* Environment first, then a leading `~` that stands alone or before a slash.
ExpandPath(p) ==
  LET q == FlattenSeq([i \in DOMAIN p |-> IF p[i] \in DOMAIN Env THEN Env[p[i]] ELSE <<p[i]>>])
  IN IF q # <<>> /\ q[1] = "~" /\ (Len(q) = 1 \/ q[2] = "/") /\ Home # <<>>
     THEN Home \o Tail(q)
     ELSE q
=============================================================================
