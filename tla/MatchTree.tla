------------------------------ MODULE MatchTree ------------------------------
(***************************************************************************)
(* internal/filter/compile.go: what a rule's match tree compiles to and    *)
(* which messages it accepts, and the three walks that look for the files  *)
(* a tree reads: the engine's, the configuration's and list_rules'.        *)
(*                                                                         *)
(* A YAML node is a record:                                                *)
(*   [kind |-> "scalar", value |-> text]      [kind |-> "null"]            *)
(*   [kind |-> "seq", items |-> <<node...>>]                               *)
(*   [kind |-> "map", keys |-> <<name...>>, values |-> <<node...>>]        *)
(*   [kind |-> "alias", of |-> node, under |-> the key of its anchor]      *)
(* An alias shares the anchored node, and an anchored node is no alias.    *)
(* Errors are not worded: a tree compiles or it does not.                  *)
(***************************************************************************)
EXTENDS Texts

-----------------------------------------------------------------------------
(* Messages *)

\* What follows the last "@", or nothing.
AddressDomain(address) ==
  LET ats == {i \in DOMAIN address : address[i] = "@"}
  IN IF ats = {} THEN <<>> ELSE Lower(TrimSpace(SubSeq(address, Max(ats) + 1, Len(address))))

FromDomains(msg) ==
  SelectSeq([i \in DOMAIN msg.from |-> AddressDomain(msg.from[i])], LAMBDA d : d # <<>>)

\* Equal to a wanted domain, or below one.
DomainsMatch(have, want) ==
  \E i \in DOMAIN have, j \in DOMAIN want :
    LET d == Lower(TrimSpace(have[i]))
        e == IF IsSuffix(<<".">>, d) THEN Front(d) ELSE d
    IN e = want[j] \/ IsSuffix(<<".">> \o want[j], e)

\* Header names are compared without regard to case.
HeaderValues(msg, name) ==
  {msg.headers[i].value : i \in {j \in DOMAIN msg.headers : Lower(msg.headers[j].name) = Lower(name)}}

Finds(pattern, texts) == \E t \in texts : t \in Regex[pattern]

-----------------------------------------------------------------------------
(* Compiling *)

Resolve(n) == IF n.kind = "alias" THEN n.of ELSE n
IsScalar(n) == Resolve(n).kind = "scalar"
Value(n) == Resolve(n).value
IsText(n) == IsScalar(n) /\ TrimSpace(Value(n)) # <<>>

Truth == [t \in {<<w>> : w \in {"1", "t", "T", "true", "TRUE", "True"}} |-> TRUE]
      @@ [t \in {<<w>> : w \in {"0", "f", "F", "false", "FALSE", "False"}} |-> FALSE]

\* The value of a key of a mapping; the last one wins.
Under(n, key) == n.values[Max({i \in DOMAIN n.keys : n.keys[i] = key})]

CompilesHeader(n) ==
  /\ n.kind = "map"
  /\ ToSet(n.keys) = {"name", "regex"}
  /\ \A i \in DOMAIN n.values : IsScalar(n.values[i])
  /\ TrimSpace(Value(Under(n, "name"))) # <<>>
  /\ Value(Under(n, "regex")) \in DOMAIN Regex

CompilesDomains(n) ==
  /\ n.kind = "seq" /\ n.items # <<>>
  /\ \A i \in DOMAIN n.items : IsScalar(n.items[i]) /\ NormalizeDomain(Value(n.items[i])) # <<>>

CompilesAge(n) ==
  LET d == TrimSpace(Value(n)) IN IsScalar(n) /\ d \in DOMAIN Duration /\ Duration[d] > 0

\* A node is a mapping of one key; `all` and `any` hold at least one node.
RECURSIVE CompileNode(_)
CompileNode(node) ==
  LET n == Resolve(node) IN
  /\ n.kind = "map" /\ Len(n.keys) = 1
  /\ LET key == n.keys[1]
         v   == Resolve(n.values[1])
     IN \/ key \in {"all", "any"} /\ v.kind = "seq" /\ v.items # <<>>
           /\ \A i \in DOMAIN v.items : CompileNode(v.items[i])
        \/ key = "not" /\ CompileNode(v)
        \/ key = "from_domains" /\ CompilesDomains(v)
        \/ key \in FileKeys \cup {"label"} /\ IsText(v)
        \/ key \in {"from_regex", "to_regex", "subject_regex"} /\ IsScalar(v) /\ v.value \in DOMAIN Regex
        \/ key = "header" /\ CompilesHeader(v)
        \/ key = "has_attachment" /\ IsScalar(v) /\ TrimSpace(v.value) \in DOMAIN Truth
        \/ key \in {"older_than", "newer_than"} /\ CompilesAge(v)

\* The files a compiled tree reads, in the order they are met.
RECURSIVE CompiledRefs(_)
CompiledRefs(node) ==
  LET n == Resolve(node)
      v == Resolve(n.values[1])
  IN CASE n.keys[1] \in {"all", "any"} -> FlattenSeq([i \in DOMAIN v.items |-> CompiledRefs(v.items[i])])
       [] n.keys[1] = "not"            -> CompiledRefs(v)
       [] n.keys[1] \in FileKeys       -> <<Ref(n.keys[1], v.value)>>
       [] OTHER                        -> <<>>

\* Strictly older or younger; a message without a date is neither.
Aged(msg, now, d, older) ==
  msg.date # NoDate /\ IF older THEN now - msg.date > d ELSE now - msg.date < d

\* The verdict of a tree that compiles, over the lists its files hold.
RECURSIVE MatchNode(_, _, _, _)
MatchNode(node, msg, lists, now) ==
  LET n   == Resolve(node)
      key == n.keys[1]
      v   == Resolve(n.values[1])
  IN CASE key = "all" -> \A i \in DOMAIN v.items : MatchNode(v.items[i], msg, lists, now)
       [] key = "any" -> \E i \in DOMAIN v.items : MatchNode(v.items[i], msg, lists, now)
       [] key = "not" -> ~MatchNode(v, msg, lists, now)
       [] key = "from_domains" ->
            DomainsMatch(FromDomains(msg), [i \in DOMAIN v.items |-> NormalizeDomain(Value(v.items[i]))])
       [] key = "from_domains_file" -> DomainsMatch(FromDomains(msg), lists[Ref(key, v.value)])
       [] key = "from_regex" -> Finds(v.value, ToSet(msg.from))
       [] key = "from_regex_file" -> \E p \in ToSet(lists[Ref(key, v.value)]) : Finds(p, ToSet(msg.from))
       [] key = "to_regex" -> Finds(v.value, ToSet(msg.to))
       [] key = "subject_regex" -> Finds(v.value, {msg.subject})
       [] key = "header" -> Finds(Value(Under(v, "regex")), HeaderValues(msg, Value(Under(v, "name"))))
       [] key = "has_attachment" -> (msg.attachments > 0) = Truth[TrimSpace(v.value)]
       [] key = "label" -> v.value \in msg.labels
       [] OTHER -> Aged(msg, now, Duration[TrimSpace(v.value)], key = "older_than")

-----------------------------------------------------------------------------
(* The other walks, over trees as they were written *)

\* Load expands paths in place: a scalar under a file key, wherever it hangs.
\* The walk stops at an alias, but the node an alias shares is walked at its
\* anchor: a mapping or a list anywhere in a tree, a scalar only under a file key.
RECURSIVE ExpandPathsInNode(_)
ExpandPathsInNode(n) ==
  CASE n.kind = "seq" -> [n EXCEPT !.items = [i \in DOMAIN n.items |-> ExpandPathsInNode(n.items[i])]]
    [] n.kind = "map" ->
         [n EXCEPT !.values = [i \in DOMAIN n.values |->
            IF n.keys[i] \in FileKeys /\ n.values[i].kind = "scalar"
            THEN [n.values[i] EXCEPT !.value = ExpandPath(n.values[i].value)]
            ELSE ExpandPathsInNode(n.values[i])]]
    [] n.kind = "alias" ->
         [n EXCEPT !.of = IF n.of.kind # "scalar" THEN ExpandPathsInNode(n.of)
                          ELSE IF n.under \in FileKeys THEN [n.of EXCEPT !.value = ExpandPath(n.of.value)]
                          ELSE n.of]
    [] OTHER -> n

\* The paths `validate` looks at: this walk does stop at an alias.
RECURSIVE CollectFilePathRefs(_)
CollectFilePathRefs(n) ==
  CASE n.kind = "seq" -> UNION {CollectFilePathRefs(n.items[i]) : i \in DOMAIN n.items}
    [] n.kind = "map" ->
         UNION {IF n.keys[i] \in FileKeys /\ n.values[i].kind = "scalar"
                THEN {Ref(n.keys[i], n.values[i].value)}
                ELSE CollectFilePathRefs(n.values[i]) : i \in DOMAIN n.keys}
    [] OTHER -> {}

\* The files list_rules shows for a rule. It follows an alias, but not one that
\* stands for the path itself.
RECURSIVE MatchFilePaths(_)
MatchFilePaths(n) ==
  CASE n.kind = "seq"   -> UNION {MatchFilePaths(n.items[i]) : i \in DOMAIN n.items}
    [] n.kind = "alias" -> MatchFilePaths(n.of)
    [] n.kind = "map"   ->
         UNION {IF n.keys[i] \in FileKeys /\ n.values[i].kind = "scalar" /\ n.values[i].value # <<>>
                THEN {Ref(n.keys[i], n.values[i].value)}
                ELSE MatchFilePaths(n.values[i]) : i \in DOMAIN n.keys}
    [] OTHER -> {}

\* Those it leaves out: an alias stands for the path.  Compiling resolves it.
RECURSIVE AliasFilePaths(_)
AliasFilePaths(n) ==
  CASE n.kind = "seq"   -> UNION {AliasFilePaths(n.items[i]) : i \in DOMAIN n.items}
    [] n.kind = "alias" -> AliasFilePaths(n.of)
    [] n.kind = "map"   ->
         UNION {IF n.keys[i] \in FileKeys /\ n.values[i].kind = "alias" /\ IsScalar(n.values[i])
                THEN {Ref(n.keys[i], Value(n.values[i]))}
                ELSE AliasFilePaths(n.values[i]) : i \in DOMAIN n.keys}
    [] OTHER -> {}
=============================================================================
