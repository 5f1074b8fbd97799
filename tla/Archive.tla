------------------------------ MODULE Archive ------------------------------
(***************************************************************************)
(* internal/mcpserver: the index over the stored mail, built file by file  *)
(* while cycles store and people delete, and the tools that answer from    *)
(* it.  One Index at a time (Archive.mu).                                  *)
(*                                                                         *)
(* A path is [dir, id, ext]: its directories, the digest in its name and   *)
(* its extension.  A file is [mail, stamp]: what it renders, and its size  *)
(* and modification time, new with every write.  Digests, message and      *)
(* thread ids and times are numbers, and None where there is none.         *)
(* Names are compared without case and texts are sets of words, which this *)
(* leaves out, as it does the wording of answers and snippets.             *)
(***************************************************************************)
EXTENDS Naturals, Sequences, SequencesExt, FiniteSets, FiniteSetsExt, TLC

CONSTANTS
  Roots,       \* rules with a dest, in config order: [rule, account, dir, real]
  Places,      \* the paths there may be a file at, in the order of a walk
  Skipped,     \* names of hidden and of attachment directories
  Mails,       \* name -> what a file renders
  DefaultLimit, MaxLimit, DefaultBody, MaxBody, Day,
  MaxFileSize, \* bound of the code on what is read at all
  MaxWrites    \* bound: writes and deletions by others

\* NewArchive refuses a configuration without a dest.
ASSUME RootsAssumption ==
  /\ Roots \in Seq(ToSet(Roots)) /\ Roots # <<>> /\ Places \in Seq(ToSet(Places))
  /\ \A d \in {r.dir : r \in ToSet(Roots)} \cup {r.real : r \in ToSet(Roots)} \cup {p.dir : p \in ToSet(Places)} : d \in Seq(ToSet(d))
  /\ \A p \in ToSet(Places) : p = [dir |-> p.dir, id |-> p.id, ext |-> p.ext] /\ p.id \in Nat
ASSUME TimesAssumption == {Day, DefaultLimit} \subseteq Nat /\ MaxLimit \in Nat \ {0} /\ \A m \in DOMAIN Mails : Mails[m].date \in Nat

VARIABLES
  disk,        \* path -> file, or NoFile
  exists,      \* root -> its dest was there when the server started
  cache,       \* Archive.cache: path -> record
  at,          \* "idle", "walk", "done"
  root, names, \* the root that is walked, and the files left of it
  stated,      \* the next of them, as it was when it was stated, if not cached
  fresh,       \* the next cache
  found,       \* byMessage, in the order the renderings were met
  answer,      \* what Index returns
  writes,
  touched      \* history: paths written or deleted since the walk began

disks       == <<disk, writes, touched>>
walking     == <<at, root, names, stated, fresh, found>>
archiveVars == <<disks, exists, cache, walking, answer>>

NoFile == [mail |-> "none", stamp |-> 0]
Paths == ToSet(Places)
None == 0
AnyName == ""
RenderedAs == {"md", "eml"}

-----------------------------------------------------------------------------
(* Parsing one file *)

\* Strictly underneath, whatever is in between.
Within(dir, path) == IsPrefix(dir, path.dir)

\* The provider's thread, else the root of the references, the parent, itself.
SynthesizeThread(mail, native, id) ==
  IF native # None          THEN [thread |-> native, source |-> "provider"]
  ELSE IF mail.refs # <<>>  THEN [thread |-> mail.refs[1], source |-> "references"]
  ELSE IF mail.reply # None THEN [thread |-> mail.reply, source |-> "in_reply_to"]
  ELSE IF mail.msgid # None THEN [thread |-> mail.msgid, source |-> "self"]
  ELSE [thread |-> id, source |-> "self"]

\* The frontmatter has what the provider knew.  A file older than the threading
\* fields, and one that has none, is a thread of its own.
ReadMarkdown(mail, r) ==
  [account |-> IF mail.account # AnyName THEN mail.account ELSE r.account,
   date    |-> mail.date,
   in      |-> IF mail.old THEN [thread |-> IF mail.msgid # None THEN mail.msgid ELSE mail.id, source |-> "self"]
               ELSE SynthesizeThread(mail, mail.native, mail.id)]

\* The source of the message knows its headers, and not where it came from.
ReadEML(mail, r, stamp) ==
  [account |-> r.account,
   date    |-> IF mail.dated THEN mail.date ELSE stamp,
   in      |-> SynthesizeThread(mail, None, mail.id)]

Parses(path, file) ==
  /\ path.id # None /\ Mails[file.mail].size <= MaxFileSize
  /\ path.ext = "md" => Mails[file.mail].fenced

ParseFile(path, r, file) ==
  LET mail == Mails[file.mail]
      read == IF path.ext = "md" THEN ReadMarkdown(mail, r) ELSE ReadEML(mail, r, file.stamp)
  IN [path |-> path, format |-> path.ext, id |-> path.id, rule |-> r.rule, stamp |-> file.stamp,
      from |-> mail.from, words |-> mail.words, body |-> mail.body, account |-> read.account,
      date |-> read.date, thread |-> read.in.thread, source |-> read.in.source, files |-> <<>>]

-----------------------------------------------------------------------------
(* Index *)

\* The files of a dest that are not under a hidden or an attachments directory.
Walked(r, path) ==
  /\ Within(r.real, path) /\ path.ext \in RenderedAs
  /\ \A i \in Len(r.real) + 1 .. Len(path.dir) : path.dir[i] \notin Skipped

Listing(i) == IF exists[i] THEN {p \in Paths : Walked(Roots[i], p)} ELSE {}

Position == [path \in Paths |-> CHOOSE i \in DOMAIN Places : Places[i] = path]
First(paths) == CHOOSE p \in paths : \A q \in paths : Position[p] <= Position[q]

\* The elements of s that are in S, in order.
Those(s, S) ==
  LET kept[i \in 0 .. Len(s)] ==
        IF i = 0 THEN <<>> ELSE IF s[i] \in S THEN Append(kept[i - 1], s[i]) ELSE kept[i - 1]
  IN kept[Len(s)]

With(map, key, value) == [x \in DOMAIN map \cup {key} |-> IF x = key THEN value ELSE map[x]]

\* One message is what a rule stored under one digest; its markdown comes first.
NewRecord(files) ==
  LET isMarkdown == {f \in ToSet(files) : f.format = "md"}
      ranked     == Those(files, isMarkdown) \o Those(files, ToSet(files) \ isMarkdown)
  IN [ranked[1] EXCEPT !.files = ranked]

Key(f) == <<f.rule, f.id>>
ByMessage(files) ==
  {NewRecord(Those(files, {f \in ToSet(files) : Key(f) = k})) : k \in {Key(files[i]) : i \in DOMAIN files}}

Newer(a, b) ==
  \/ a.date > b.date
  \/ a.date = b.date /\ (a.id < b.id \/ (a.id = b.id /\ Position[a.path] < Position[b.path]))

\* However equals are sorted.
Arranged(records) ==
  {s \in [1 .. Cardinality(records) -> records] :
     ToSet(s) = records /\ \A j \in DOMAIN s : \A i \in 1 .. j - 1 : s[i] # s[j] /\ ~Newer(s[j], s[i])}

StartIndex ==
  /\ at = "idle" /\ at' = "walk"
  /\ root' = 1 /\ names' = Listing(1)
  /\ fresh' = <<>> /\ found' = <<>> /\ touched' = {}
  /\ UNCHANGED <<disk, writes, exists, cache, stated, answer>>

Keep(rec) == fresh' = With(fresh, rec.path, rec) /\ found' = Append(found, rec)

\* Mutant: a path that was read once is not read again.
HitByName(path, file) == path \in DOMAIN cache
\* A file whose size and time have not changed is not read again.
Hit(path, file) == path \in DOMAIN cache /\ cache[path].stamp = file.stamp

\* A directory is read when the walk comes to it: what is written meanwhile may be
\* met or not.
Visit ==
  /\ at = "walk" /\ names # {} /\ stated = NoFile
  /\ LET path == First(names)
         file == disk[path]
         hit  == Hit(path, file)
     IN \/ /\ file # NoFile /\ hit
           /\ Keep(cache[path]) /\ names' = names \ {path} /\ UNCHANGED stated
        \/ /\ file # NoFile /\ ~hit
           /\ stated' = file /\ UNCHANGED <<names, fresh, found>>
        \/ /\ file = NoFile \/ path \in touched
           /\ names' = names \ {path} /\ UNCHANGED <<stated, fresh, found>>
  /\ UNCHANGED <<disks, exists, cache, at, root, answer>>

\* What is read may be newer than what was stated, or gone by now.
Read ==
  /\ at = "walk" /\ stated # NoFile
  /\ LET path == First(names)
         file == disk[path]
     IN /\ IF file # NoFile /\ Parses(path, file)
           THEN Keep(ParseFile(path, Roots[root], [file EXCEPT !.stamp = stated.stamp]))
           ELSE UNCHANGED <<fresh, found>>
        /\ names' = names \ {path}
  /\ stated' = NoFile
  /\ UNCHANGED <<disks, exists, cache, at, root, answer>>

NextRoot ==
  /\ at = "walk" /\ names = {} /\ root < Len(Roots)
  /\ root' = root + 1 /\ names' = Listing(root + 1)
  /\ UNCHANGED <<disks, exists, cache, at, stated, fresh, found, answer>>

FinishIndex ==
  /\ at = "walk" /\ names = {} /\ root = Len(Roots)
  /\ at' = "done" /\ cache' = fresh /\ answer' \in Arranged(ByMessage(found))
  /\ UNCHANGED <<disks, exists, root, names, stated, fresh, found>>

\* The tool that asked for the index has answered.
Answered ==
  /\ at = "done" /\ at' = "idle" /\ answer' = <<>> /\ fresh' = <<>> /\ found' = <<>>
  /\ UNCHANGED <<disks, exists, cache, root, names, stated>>

\* A cycle stores a rendering, or somebody deletes one.
Put(path, file) ==
  /\ writes < MaxWrites /\ writes' = writes + 1
  /\ disk' = [disk EXCEPT ![path] = file] /\ touched' = touched \cup {path}
  /\ UNCHANGED <<exists, cache, walking, answer>>
Store(path, m) == (path.id = None \/ path.id = Mails[m].id) /\ Put(path, [mail |-> m, stamp |-> writes + 1])
Delete(path) == disk[path] # NoFile /\ Put(path, NoFile)

\* NewArchive looks once which of its directories are there.
Init ==
  /\ exists \in [DOMAIN Roots -> BOOLEAN]
  /\ disk = [p \in Paths |-> NoFile] /\ cache = <<>> /\ at = "idle"
  /\ root = 1 /\ names = {} /\ stated = NoFile /\ fresh = <<>> /\ found = <<>>
  /\ answer = <<>> /\ writes = 0 /\ touched = {}

Next ==
  \/ StartIndex \/ Visit \/ Read \/ NextRoot \/ FinishIndex \/ Answered
  \/ \E p \in Paths : Delete(p) \/ \E m \in DOMAIN Mails : Store(p, m)

Spec == Init /\ [][Next]_archiveVars
-----------------------------------------------------------------------------
(* The tools, over the records Index returned *)

\* "none", a moment, or a bare date: as an upper bound that is its whole day.
ParseBound(bound, endOfDay) == IF bound.kind = "day" /\ endOfDay THEN bound.time + Day ELSE bound.time

\* Mutant: until is inclusive.
PassesUntil(r, in) ==
  /\ in.rule \in {AnyName, r.rule} /\ in.account \in {AnyName, r.account} /\ in.thread \in {None, r.thread}
  /\ in.since.kind # "none" => r.date >= ParseBound(in.since, FALSE)
  /\ in.until.kind # "none" => r.date <= ParseBound(in.until, TRUE)
Passes(r, in) ==
  /\ in.rule \in {AnyName, r.rule} /\ in.account \in {AnyName, r.account} /\ in.thread \in {None, r.thread}
  /\ in.since.kind # "none" => r.date >= ParseBound(in.since, FALSE)
  /\ in.until.kind # "none" => r.date < ParseBound(in.until, TRUE)

Clamp(n, default, most) == IF n = 0 THEN default ELSE Min({n, most})

Page(matched, asked) ==
  LET limit == Clamp(asked, DefaultLimit, MaxLimit)
      page  == SubSeq(matched, 1, Min({limit, Len(matched)}))
  IN [messages |-> page, count |-> Len(page), matched |-> Len(matched), truncated |-> Len(matched) > limit]

ListMessages(in) == Page(Those(answer, {r \in ToSet(answer) : Passes(r, in)}), in.limit)

SearchMessages(in) == Page(Those(answer, {r \in ToSet(answer) : Passes(r, in) /\ in.query \in r.words}), in.limit)

\* Mutant: links are left as they are.
RealAsGiven(path) == path
\* Every symlink on the way to a dest is resolved.
Real(path) ==
  LET linked == {i \in DOMAIN Roots : Within(Roots[i].dir, path)}
  IN IF linked = {} THEN path
     ELSE LET r == Roots[Min(linked)]
          IN [path EXCEPT !.dir = r.real \o SubSeq(@, Len(r.dir) + 1, Len(@))]

\* A path is admitted as it was configured or as it resolves, if there is a
\* rendering at its end that is under the first root that knows it.
Resolve(path) ==
  LET real  == Real(path)
      known == {i \in DOMAIN Roots : /\ Within(Roots[i].real, path) \/ Within(Roots[i].dir, path)
                                     /\ real \in Paths /\ disk[real] # NoFile}
  IN {p \in {real} : known # {} /\ Within(Roots[Min(known)].real, p) /\ p.ext \in RenderedAs}

\* The records a call names; the first one is returned.
LocatePath(path) == Those(answer, {r \in ToSet(answer) : \E i \in DOMAIN r.files : r.files[i].path \in Resolve(path)})
LocateId(id) == Those(answer, {r \in ToSet(answer) : r.id = id})

\* Oldest first, and equals as they were.
Older(a, b) == a.date < b.date \/ (a.date = b.date /\ a.id < b.id)
Oldest(records) ==
  LET before(i) == {j \in DOMAIN records : \/ Older(records[j], records[i])
                                           \/ j < i /\ ~Older(records[i], records[j])}
  IN [n \in DOMAIN records |-> records[CHOOSE i \in DOMAIN records : Cardinality(before(i)) = n - 1]]
InThread(records, thread) == Those(records, {r \in ToSet(records) : r.thread = thread})
Conversation(target) == Oldest(InThread(answer, target.thread))

DetailOf(r, asked) ==
  LET budget == Clamp(asked, DefaultBody, MaxBody)
  IN [message |-> r, shown |-> Min({r.body, budget}), truncated |-> r.body > budget]

Trust == [provider |-> 0, references |-> 1, in_reply_to |-> 2, self |-> 3]
WeakestSource(records) ==
  LET worst == Max({Trust[records[i].source] : i \in DOMAIN records})
  IN CHOOSE s \in DOMAIN Trust : Trust[s] = worst

\* The page as conversations, the one of its newest message first.
GroupThreads(page) ==
  LET order == Those([i \in DOMAIN page |-> i],
                     {i \in DOMAIN page : \A j \in 1 .. i - 1 : page[j].thread # page[i].thread})
  IN [k \in DOMAIN order |->
       LET members == Oldest(InThread(page, page[order[k]].thread))
       IN [thread |-> page[order[k]].thread, source |-> WeakestSource(members), messages |-> members,
           first |-> members[1].date, last |-> Last(members).date]]

-----------------------------------------------------------------------------
(* Properties *)

RuleOf(path) == CHOOSE i \in DOMAIN Roots : Within(Roots[i].real, path)
Shows(p) == {i \in DOMAIN answer : \E j \in DOMAIN answer[i].files : answer[i].files[j].path = p}
Stored(p) == disk[p] # NoFile /\ Parses(p, disk[p]) /\ \E i \in DOMAIN Roots : Walked(Roots[i], p)

\* What stood while the index was built is in it once, as it is, and speaks
\* through its markdown; what was not there, or was deleted since the last index,
\* is not: whatever is stored or deleted elsewhere in the meantime.  No two rules may
\* share a dest for that, as docs/configuration.md:719 lets them: then each of the two
\* brings what is stored there into the index.
TrueAnswer ==
  at = "done" =>
    /\ \A p \in Paths \ touched :
         IF Stored(p) /\ exists[RuleOf(p)]
         THEN \E i \in DOMAIN answer :
                /\ Shows(p) = {i}
                /\ \E j \in DOMAIN answer[i].files :
                     /\ answer[i].files[j] = ParseFile(p, Roots[RuleOf(p)], disk[p])
                     /\ \A k \in DOMAIN answer[i].files : answer[i].files[k].path = p => k = j
         ELSE Shows(p) = {}
    /\ \A i \in DOMAIN answer : LET files == answer[i].files IN
         /\ \A j, k \in DOMAIN files : files[j].id = files[k].id /\ files[j].rule = files[k].rule
         /\ (\E j \in DOMAIN files : files[j].format = "md") => answer[i].format = "md"

\* A stored message is read back by its digest and by every path it has: the one
\* in the index and the one the manifest names, spelt as the rule spells its dest.
ReadBack ==
  at = "done" => \A i \in DOMAIN answer : \A f \in ToSet(answer[i].files) :
    LET r == Roots[RuleOf(f.path)]
        configured == [f.path EXCEPT !.dir = r.dir \o SubSeq(@, Len(r.real) + 1, Len(@))]
    IN f.path \notin touched =>
         LocateId(f.id) = <<answer[i]>> /\ LocatePath(f.path) = <<answer[i]>> /\ LocatePath(configured) = <<answer[i]>>

Ask(since, until, limit) ==
  [rule |-> AnyName, account |-> AnyName, thread |-> None, since |-> since, until |-> until, limit |-> limit]
Bound(kind, time) == [kind |-> kind, time |-> time]
Always == Bound("none", 0)
Listed(since, until) == ListMessages(Ask(since, until, MaxLimit)).messages

\* What comes from a date on, or after the end of a day, and what comes before.
BoundsSplit ==
  Len(answer) <= MaxLimit =>
    \A t \in {answer[i].date : i \in DOMAIN answer} :
      /\ Listed(Bound("time", t), Always) \o Listed(Always, Bound("time", t)) = answer
      /\ Listed(Bound("time", t + Day), Always) \o Listed(Always, Bound("day", t)) = answer

\* The conversations of a page.
ThreadsKept(page) ==
  LET threads == GroupThreads(page) IN
  /\ \A r \in ToSet(page) : \E k \in DOMAIN threads :
       \A h \in DOMAIN threads : r \in ToSet(threads[h].messages) <=> h = k
  /\ \A k \in DOMAIN threads : LET members == threads[k].messages IN
       /\ ToSet(members) = {r \in ToSet(page) : r.thread = threads[k].thread}
       /\ \A i, j \in DOMAIN members : i < j => members[i] # members[j] /\ members[i].date <= members[j].date
       /\ \A i \in DOMAIN members : Trust[members[i].source] <= Trust[threads[k].source]
       /\ \A h \in 1 .. k - 1 : threads[k].last <= threads[h].last

\* Two calls that split time see every message once between them, where a page holds
\* them all.  A page of any length shows each of its messages in one conversation,
\* once and oldest first, the most recent conversation first, none of them with a
\* better source than its worst message has.
ToolsAgree ==
  at = "done" =>
    /\ BoundsSplit
    /\ \A limit \in 0 .. MaxLimit : ThreadsKept(ListMessages(Ask(Always, Always, limit)).messages)

\* Index "returns one record per stored message" (archive.go:230): of a file that
\* stood all along there is one, also when "two rules [...] share a `dest`"
\* (docs/configuration.md:719).  It does not hold there.
OneRecordEach == at = "done" => \A p \in Paths \ touched : Cardinality(Shows(p)) <= 1

\* archive.go:50-53: a dest without mail "holds no messages until the first cycle
\* creates it", so it holds them from then on.
StoredIsShown == at = "done" => \A p \in Paths \ touched : Stored(p) => Shows(p) # {}
=============================================================================
