-------------------------------- MODULE Names --------------------------------
(***************************************************************************)
(* What a sender's headers and file names become: internal/model/parse.go, *)
(* once the MIME library has taken the message apart, and the names the    *)
(* sinks write under.  A text is a sequence of tokens; one that is not     *)
(* ASCII, or a letter with an accent, is a token outside Kept.             *)
(***************************************************************************)
EXTENDS Texts

CONSTANTS
  MaxSlug, MaxName, MaxExt,   \* lengths, in tokens
  Letters,                    \* tokens of lower-case ASCII letters and digits
  Numeral(_)                  \* the token a number is written as

\* "attachment" has no capital in it, and no letter is one of these signs.
ASSUME LetterAssumption ==
  /\ {MaxSlug, MaxName, MaxExt} \subseteq Nat
  /\ (Letters \cup {"attachment"}) \cap DOMAIN LowerCase = {}
  /\ (Letters \cup DOMAIN LowerCase) \cap {"-", ".", "/", "\\"} = {}

NoSubject     == <<"no-subject">>
FallbackName  == <<"attachment">>
Neutral       == <<".", "attachment">>
ReservedExts  == {<<".", "md">>, <<".", "eml">>}

-----------------------------------------------------------------------------
(* Parsing *)

Unbracketed == 0

CloseReference(v, scan, i) ==
  LET id == TrimSpace(SubSeq(v, scan.start, i)) IN
  [start |-> Unbracketed,
   out   |-> IF id = <<"<", ">">> \/ id \in ToSet(scan.out) THEN scan.out ELSE Append(scan.out, id)]

\* Mutant: a bracket that is never closed swallows what follows.
ScanReferenceFromFirst(v, scan, i) ==
  CASE v[i] = "<" /\ scan.start = Unbracketed -> [start |-> i, out |-> scan.out]
    [] v[i] = ">" /\ scan.start # Unbracketed -> CloseReference(v, scan, i)
    [] OTHER -> scan
\* The bracketed runs, oldest first: a bracket that is never closed is dropped, and
\* so is what stands between them.
ScanReference(v, scan, i) ==
  CASE v[i] = "<"                             -> [start |-> i, out |-> scan.out]
    [] v[i] = ">" /\ scan.start # Unbracketed -> CloseReference(v, scan, i)
    [] OTHER -> scan

Scan(v, out) ==
  LET scan[i \in 0 .. Len(v)] ==
        IF i = 0 THEN [start |-> Unbracketed, out |-> out] ELSE ScanReference(v, scan[i - 1], i)
  IN scan[Len(v)].out

ParseReferences(values) ==
  LET read[k \in 0 .. Len(values)] == IF k = 0 THEN <<>> ELSE Scan(values[k], read[k - 1])
  IN read[Len(values)]

\* The literals broken mailers write must not become a thread.
FirstMessageID(value) ==
  LET ids  == ParseReferences(<<value>>)
      bare == TrimSpace(value)
  IN IF ids # <<>> THEN ids[1]
     ELSE IF ToSet(bare) \cap {Space, "<", ">"} = {} /\ "@" \in ToSet(bare) THEN bare
     ELSE <<>>

OrElse(t, default) == IF t = <<>> THEN default ELSE t

FallbackFilename(i) == <<"attachment", "-", Numeral(i), ".", "bin">>

\* A message without content, or one the library cannot read, is refused.
Unreadable == [readable |-> FALSE]
Parse(id, account, env, received) ==
  IF ~env.readable THEN Unreadable
  ELSE [readable    |-> TRUE, id |-> id, account |-> account,
        subject     |-> env.subject,
        from        |-> OrElse(env.from, env.sender),
        date        |-> IF env.date = NoDate THEN received ELSE env.date,
        message_id  |-> TrimSpace(env.message_id),
        in_reply_to |-> FirstMessageID(env.in_reply_to),
        references  |-> ParseReferences(env.references),
        attachments |-> [i \in DOMAIN env.attachments |-> OrElse(TrimSpace(env.attachments[i]), FallbackFilename(i))]]

-----------------------------------------------------------------------------
(* Names on disk *)

\* Runs of anything else become one dash, and none leads.
Dashed(s, kept) ==
  LET b[n \in 0 .. Len(s)] ==
        IF n = 0 THEN [out |-> <<>>, dash |-> FALSE]
        ELSE IF s[n] \in kept THEN [out |-> Append(b[n - 1].out, s[n]), dash |-> FALSE]
        ELSE [out |-> IF b[n - 1].dash \/ b[n - 1].out = <<>> THEN b[n - 1].out ELSE Append(b[n - 1].out, "-"),
              dash |-> TRUE]
  IN b[Len(s)].out

Trim(s, cut) ==
  LET solid == {i \in DOMAIN s : s[i] \notin cut}
  IN IF solid = {} THEN <<>> ELSE SubSeq(s, Min(solid), Max(solid))
TrimRight(s, cut) ==
  LET solid == {i \in DOMAIN s : s[i] \notin cut}
  IN IF solid = {} THEN <<>> ELSE SubSeq(s, 1, Max(solid))
UpTo(n, s) == IF Len(s) > n THEN SubSeq(s, 1, n) ELSE s

Slug(s) == OrElse(TrimRight(UpTo(MaxSlug, Trim(Dashed(Lower(s), Letters), {"-"})), {"-"}), NoSubject)

\* The identity stands for 16 digits of a digest of both.
Basename(msg) ==
  [seconds |-> IF msg.date < 0 THEN 0 ELSE msg.date, identity |-> <<msg.account, msg.id>>, slug |-> Slug(msg.subject)]

\* From the last dot on.
Ext(s) ==
  LET dots == {i \in DOMAIN s : s[i] = "."}
  IN IF dots = {} THEN <<>> ELSE SubSeq(s, Max(dots), Len(s))
Stem(s, ext) == SubSeq(s, 1, Len(s) - Len(ext))

SanitizeFilename(name) ==
  LET slashes == {i \in DOMAIN name : name[i] \in {"/", "\\"}}
      base    == IF slashes = {} THEN name ELSE SubSeq(name, Max(slashes) + 1, Len(name))
      clean   == Trim(Dashed(base, Letters \cup DOMAIN LowerCase \cup {".", "_", "-"}), {"-", "."})
      ext     == IF Len(Ext(clean)) > MaxExt THEN <<>> ELSE Ext(clean)
      keep    == IF MaxName - Len(ext) < 1 THEN 1 ELSE MaxName - Len(ext)
  IN OrElse(IF Len(clean) > MaxName THEN TrimRight(UpTo(keep, Stem(clean, ext)), {"-", "."}) \o ext ELSE clean, FallbackName)

\* Mutant: the extension is compared as it is written.
NeutralizeExtAsWritten(name) ==
  IF \E e \in ReservedExts : IsSuffix(e, name) THEN name \o Neutral ELSE name
\* A name that a collector of *.md or *.eml would pick up gets another extension.
NeutralizeExt(name) ==
  IF \E e \in ReservedExts : IsSuffix(e, Lower(name)) THEN name \o Neutral ELSE name

\* -2, -3 before the extension until nobody has the name, in whatever case.
Numbered(display, n) == Stem(display, Ext(display)) \o <<"-", Numeral(n)>> \o Ext(display)
AttachmentFile(used, name) ==
  LET taken(d) == Lower(NeutralizeExt(d)) \in used
      display  == SanitizeFilename(name)
      least    == CHOOSE n \in 2 .. Cardinality(used) + 2 :
                    ~taken(Numbered(display, n)) /\ \A m \in 2 .. n - 1 : taken(Numbered(display, m))
  IN NeutralizeExt(IF taken(display) THEN Numbered(display, least) ELSE display)

AttachmentFiles(names) ==
  LET files[n \in 0 .. Len(names)] ==
        IF n = 0 THEN <<>>
        ELSE Append(files[n - 1], AttachmentFile({Lower(f) : f \in ToSet(files[n - 1])}, names[n]))
  IN files[Len(names)]

-----------------------------------------------------------------------------
(* Properties of one message *)

\* What an agent links to is one file per attachment, on a disk that ignores case
\* too, inside the attachments directory, and never one that *.md or *.eml finds.
AttachmentsApart(names) ==
  LET files == AttachmentFiles(names) IN
  /\ Len(files) = Len(names)
  /\ \A i, j \in DOMAIN files : i # j => Lower(files[i]) # Lower(files[j])
  /\ \A i \in DOMAIN files :
       /\ files[i] # <<>> /\ files[i][1] # "." /\ ToSet(files[i]) \cap {"/", "\\"} = {}
       /\ \A e \in ReservedExts : ~IsSuffix(e, Lower(files[i]))

\* A name that is made again from a name it was made into is the same: no part of
\* it depends on how the subject was spelt.
SlugSettled(s) ==
  LET slug == Slug(s) IN slug # NoSubject => Slug(slug) = slug /\ Len(slug) <= MaxSlug

\* The chain of ancestors comes through whatever mailers put between its ids, so
\* that its root names the conversation in every reply.
Id(n) == <<"<", n, "@", "x", ">">>
HeaderOf(noise, ids) == noise \o FlattenSeq([j \in DOMAIN ids |-> Id(ids[j]) \o noise])
ChainSurvives(noise, values) ==
  ParseReferences([i \in DOMAIN values |-> HeaderOf(noise, values[i])])
    = Distinct([i \in DOMAIN FlattenSeq(values) |-> Id(FlattenSeq(values)[i])])
=============================================================================
