------------------------------- MODULE Filter -------------------------------
(***************************************************************************)
(* internal/filter: the lists other programs keep for the rules, how one   *)
(* cycle reads them, and what a message is decided by.  The rules are      *)
(* those of a configuration that Load and Validate let through; list_rules *)
(* (internal/mcpserver/rules.go) resolves the same files for an agent.     *)
(*                                                                         *)
(* A file: [there, lines, cut].  A missing file and an unreadable one are  *)
(* alike; cut says the scanner stops behind `lines` at one over its limit. *)
(***************************************************************************)
EXTENDS Config

CONSTANTS
  FileRefs(_),          \* the files a tree that compiles reads, in order
  Matches(_, _, _, _),  \* its verdict on a message, over the lists they hold
  ListedFiles(_),       \* the files list_rules shows for a tree
  AliasedPaths(_),      \* those whose path an alias stands for
  Documents,   \* the configuration files tried
  Paths,       \* the list files
  Contents,    \* what their owners may put in one
  Messages,    \* the messages of a cycle, by name: [account, from, ...]
  Now,         \* the time of every cycle
  MaxEdits     \* bound: how often an owner rewrites a file

\* Documents are records, their directories are texts and their lists sequences.
ASSUME DocumentAssumption ==
  \A d \in Documents :
    /\ DOMAIN d = {"state_dir", "quarantine_dir", "on_message_failure", "on_degraded_filter", "accounts", "rules"}
    /\ IsTokens(d.state_dir) /\ IsTokens(d.quarantine_dir)
    /\ d.accounts \in Seq(ToSet(d.accounts)) /\ d.rules \in Seq(ToSet(d.rules))
    /\ \A i \in DOMAIN d.accounts : DOMAIN d.accounts[i] = {"name", "provider", "gmail", "imap"}
    /\ \A i \in DOMAIN d.rules : LET r == d.rules[i] IN
         /\ DOMAIN r = {"name", "account", "match", "dest", "formats"} /\ r.formats \in Seq(ToSet(r.formats))

\* Paths are all the list files, and a tree compiles only if each of its files has a
\* path (compileDomainFile, compileRegexFile).
ASSUME WalkAssumption ==
  \A d \in Documents : \A i \in DOMAIN d.rules : LET tree == Load(d).rules[i].match IN
    Compiles(tree) => /\ FileRefs(tree) \in Seq([kind : FileKeys, path : Paths])
                      /\ \A ref \in ToSet(FileRefs(tree)) : ~Blank(ref.path)

VARIABLES
  config,      \* the configuration in force
  refs,        \* Engine.fileRefs: the files its rules read
  disk,        \* path -> file
  cache,       \* Files.domains and Files.patterns: reference -> list, where read
  degraded,    \* Files.degraded: the paths not read in full this cycle
  phase,       \* "idle", "preload", "evaluate"
  todo,        \* the references Preload has still to read
  reported,    \* cycle.degraded, the pipeline's copy, taken after Preload
  verdicts,    \* message -> the rule that claims it, 0 for none
  edits,
  during       \* history: path -> every file that stood there in this cycle

filterVars == <<config, refs, disk, cache, degraded, phase, todo, reported, verdicts, edits, during>>

Nobody == 0

-----------------------------------------------------------------------------
(* Reading a list *)

\* A domain list: `#` starts a comment anywhere, and every entry is kept.
ParseDomainList(lines) ==
  LET entry(s) == NormalizeDomain(IF "#" \in ToSet(s) THEN SubSeq(s, 1, Min({i \in DOMAIN s : s[i] = "#"}) - 1) ELSE s)
  IN Distinct(SelectSeq([i \in DOMAIN lines |-> entry(lines[i])], LAMBDA d : d # <<>>))

\* A pattern list: `#` starts a comment only at the start of a line.
PatternLines(lines) ==
  SelectSeq([i \in DOMAIN lines |-> TrimSpace(lines[i])], LAMBDA t : t # <<>> /\ t[1] # "#")

\* A pattern that also accepts nothing at all would claim every message.
CompilesListPattern(t) == t \in DOMAIN Regex /\ <<>> \notin Regex[t]

PatternFileStats(file) ==
  LET all  == PatternLines(file.lines)
      good == SelectSeq(all, CompilesListPattern)
      bad  == {i \in DOMAIN all : ~CompilesListPattern(all[i])}
  IN [patterns |-> Distinct(good),
      rejected |-> Cardinality(bad),
      total    |-> Len(all),
      failed   |-> file.cut \/ bad # {}]

\* What parsed, beside the failure and never instead of it.
ReadList(ref, file) ==
  IF ~file.there THEN [list |-> <<>>, failed |-> TRUE]
  ELSE IF ref.kind = "from_domains_file" THEN [list |-> ParseDomainList(file.lines), failed |-> file.cut]
  ELSE LET stats == PatternFileStats(file) IN [list |-> stats.patterns, failed |-> stats.failed]

\* The same as a table of what the owners may write.
Reading == [kind \in FileKeys |-> [file \in Contents |-> ReadList(Ref(kind, <<>>), file)]]

\* What `validate` has to say of a list's contents: nothing about domains.
DescribeFileProblems(ref, file) ==
  /\ ref.kind = "from_regex_file"
  /\ PatternFileStats(file).failed \/ PatternFileStats(file).patterns = <<>>

Existing(files) == {p \in Paths : files[p].there}
Spoiled(files)  == {p \in Existing(files) : DescribeFileProblems(Ref("from_regex_file", p), files[p])}

-----------------------------------------------------------------------------
(* The engine *)

\* The references of all rules, each once, in the order they are met.
EngineRefs(rules) == Distinct(FlattenSeq([i \in DOMAIN rules |-> FileRefs(rules[i].match)]))

\* The first rule in scope that accepts the message.
FirstRule(rules, msg, lists) ==
  LET claims == {i \in DOMAIN rules : AppliesTo(rules[i], msg.account) /\ Matches(rules[i].match, msg, lists, Now)}
  IN IF claims = {} THEN Nobody ELSE Min(claims)

\* cachedList: a file is read on its first use in a cycle.
Cached(wanted) ==
  LET first == wanted \ DOMAIN cache
      read  == [r \in first |-> Reading[r.kind][disk[r.path]]]
  IN /\ cache' = [r \in DOMAIN cache \cup first |-> IF r \in first THEN read[r].list ELSE cache[r]]
     /\ degraded' = degraded \cup {r.path : r \in {q \in first : read[q].failed}}

\* Mutant: the lists stay cached from one cycle to the next.
ForgetFailures == UNCHANGED cache /\ degraded' = {}
\* Mutant: a path once degraded stays so.
ForgetLists == cache' = <<>> /\ UNCHANGED degraded
\* Files.BeginCycle.
Forget == cache' = <<>> /\ degraded' = {}

BeginCycle ==
  /\ phase = "idle" /\ Forget
  /\ phase' = "preload" /\ todo' = refs
  /\ verdicts' = <<>>
  /\ during' = [p \in Paths |-> {disk[p]}]
  /\ UNCHANGED <<config, refs, disk, reported, edits>>

Preload ==
  /\ phase = "preload"
  /\ \/ /\ todo # <<>>
        /\ Cached({Head(todo)})
        /\ todo' = Tail(todo)
        /\ UNCHANGED <<phase, reported>>
     \/ /\ todo = <<>>
        /\ phase' = "evaluate" /\ reported' = degraded
        /\ UNCHANGED <<cache, degraded, todo>>
  /\ UNCHANGED <<config, refs, disk, verdicts, edits, during>>

\* A matcher reads its file through the cache too (here all of them are read,
\* those that `all` and `any` would skip included).
Evaluate(m) ==
  /\ phase = "evaluate" /\ m \notin DOMAIN verdicts
  /\ Cached(ToSet(refs))
  /\ verdicts' = [k \in DOMAIN verdicts \cup {m} |->
       IF k = m THEN FirstRule(config.rules, Messages[m], cache') ELSE verdicts[k]]
  /\ UNCHANGED <<config, refs, disk, phase, todo, reported, edits, during>>

EndCycle ==
  /\ phase = "evaluate" /\ phase' = "idle"
  /\ UNCHANGED <<config, refs, disk, cache, degraded, todo, reported, verdicts, edits, during>>

\* The program that owns a list writes it whenever it likes.
Edit(p, file) ==
  /\ edits < MaxEdits /\ file # disk[p]
  /\ edits' = edits + 1
  /\ disk' = [disk EXCEPT ![p] = file]
  /\ during' = [during EXCEPT ![p] = @ \cup {file}]
  /\ UNCHANGED <<config, refs, cache, degraded, phase, todo, reported, verdicts>>

\* A configuration with an error in it starts nothing.
Init ==
  /\ disk \in [Paths -> Contents]
  /\ config \in {c \in {Load(d) : d \in Documents} : Usable(Validate(c, Existing(disk), Spoiled(disk)))}
  /\ refs = EngineRefs(config.rules)
  /\ cache = <<>> /\ degraded = {} /\ phase = "idle" /\ todo = <<>>
  /\ reported = {} /\ verdicts = <<>> /\ edits = 0
  /\ during = [p \in Paths |-> {disk[p]}]

Cycle == BeginCycle \/ Preload \/ (\E m \in DOMAIN Messages : Evaluate(m)) \/ EndCycle

Next == Cycle \/ \E p \in Paths, file \in Contents : Edit(p, file)

Spec == Init /\ [][Next]_filterVars /\ WF_filterVars(BeginCycle) /\ WF_filterVars(Preload) /\ WF_filterVars(EndCycle)

-----------------------------------------------------------------------------
(* list_rules *)

AccountsFor(rule) ==
  {config.accounts[i].name : i \in {j \in DOMAIN config.accounts : AppliesTo(rule, config.accounts[j].name)}}

\* Its note is "" when there is nothing to say.  A domain list's error is lost
\* here, and so is that a pattern list was cut short.
ResolveDomainFile(file) ==
  LET list == ParseDomainList(file.lines)
  IN IF ~file.there THEN [exists |-> FALSE, list |-> <<>>, rejected |-> 0, note |-> "unavailable"]
     ELSE [exists |-> TRUE, list |-> list, rejected |-> 0, note |-> IF list = <<>> THEN "nothing" ELSE ""]

\* Mutant: a list is fine as long as one pattern is.
PatternNoteIfAny(stats) == IF stats.patterns = <<>> THEN "nothing" ELSE ""
PatternNote(stats) ==
  IF stats.patterns = <<>> THEN "nothing" ELSE IF stats.rejected > 0 THEN "short" ELSE ""

ResolvePatternFile(file) ==
  LET stats == PatternFileStats(file)
  IN IF ~file.there THEN [exists |-> FALSE, list |-> <<>>, rejected |-> 0, note |-> "unavailable"]
     ELSE [exists |-> TRUE, list |-> stats.patterns, rejected |-> stats.rejected, note |-> PatternNote(stats)]

ListRules ==
  [i \in DOMAIN config.rules |->
    LET rule == config.rules[i] IN
    [name     |-> rule.name,
     accounts |-> AccountsFor(rule),
     files    |-> [r \in ListedFiles(rule.match) |->
                    IF r.kind = "from_domains_file" THEN ResolveDomainFile(disk[r.path])
                                                    ELSE ResolvePatternFile(disk[r.path])]]]

-----------------------------------------------------------------------------
(* Properties *)

\* Every line of a file counts.
Whole(ref, file) ==
  /\ file.there /\ ~file.cut
  /\ ref.kind = "from_regex_file" => \A t \in ToSet(PatternLines(file.lines)) : CompilesListPattern(t)

\* When a cycle reports no degraded list, each of its verdicts is one that files
\* read whole, as they stood at some time in this cycle, lead to: a message is
\* never missed because a list could not be read, or is one of an earlier cycle.
NoSilentMiss ==
  reported = {} /\ verdicts # <<>> =>
    \E stood \in [ToSet(refs) -> UNION {during[p] : p \in Paths}] :
      /\ \A r \in DOMAIN stood : stood[r] \in during[r.path] /\ Whole(r, stood[r])
      /\ \A m \in DOMAIN verdicts :
           verdicts[m] = FirstRule(config.rules, Messages[m], [r \in DOMAIN stood |-> ReadList(r, stood[r]).list])

\* Once the owners let their lists rest, the cycles soon decide by what is in
\* them: an edit is never lost, and a list that was mended holds nothing back.
EventuallyInForce ==
  <>[](/\ \A r \in DOMAIN cache : cache[r] = Reading[r.kind][disk[r.path]].list
       /\ reported = {r.path : r \in {q \in ToSet(refs) : ~Whole(q, disk[q.path])}})

\* A rule without a match tree that compiles, or with a policy, account or format
\* nobody knows, never gets past Validate, whatever the defaults put in.
AcceptedIsComplete ==
  /\ config.on_message_failure = MessageFailure(config) /\ config.on_degraded_filter = DegradedFilter(config)
  /\ MessageFailure(config) = <<"quarantine">> => ~Blank(QuarantineRoot(config))
  /\ \A i \in DOMAIN config.rules : LET r == config.rules[i] IN
       /\ Compiles(r.match) /\ AccountsFor(r) # {}
       /\ r.formats # <<>> /\ ToSet(r.formats) \subseteq KnownFormats
       /\ \A ref \in ToSet(FileRefs(r.match)) : ~Blank(ref.path)

\* list_rules shows files the engine reads for a rule, all but those of which only an
\* alias gives the path, with the list it would read from each now; where a note is
\* missing something is in force, and no line was refused up to where the scanner
\* stops.
ListedAsRead ==
  \A i \in DOMAIN config.rules :
    LET shown == ListRules[i].files
        tree  == config.rules[i].match
        read  == ToSet(FileRefs(tree))
    IN /\ DOMAIN shown \subseteq read /\ read \ AliasedPaths(tree) \subseteq DOMAIN shown
       /\ \A r \in DOMAIN shown :
            /\ shown[r].list = ReadList(r, disk[r.path]).list
            /\ shown[r].note = "" => shown[r].list # <<>> /\ Whole(r, [disk[r.path] EXCEPT !.cut = FALSE])

\* "matchFilePaths collects every externally-owned file a match tree references"
\* (rules.go:277): list_rules shows every file the engine reads for a rule.  It does not.
AllFilesShown ==
  \A i \in DOMAIN config.rules : ToSet(FileRefs(config.rules[i].match)) \subseteq DOMAIN ListRules[i].files

\* "An empty note means "nothing to say": every line in the file is in force"
\* (rules.go:238-239), which is said of pattern lists.  Some that are cut short have one.
EmptyNoteIsWhole ==
  \A i \in DOMAIN config.rules : LET shown == ListRules[i].files IN
    \A r \in DOMAIN shown : r.kind = "from_regex_file" /\ shown[r].note = "" => Whole(r, disk[r.path])
=============================================================================
