------------------------------ MODULE SinkProofs ------------------------------
(***************************************************************************)
(* Proofs about Sink, for any number of writers, in either format, and any *)
(* attachments.                                                            *)
(*                                                                         *)
(* The argument.  A rendering in the middle of an in-place write belongs   *)
(* to the one writer that is filling it (Claims), so only a name that is   *)
(* free, or partial and the writer's own, ever changes.  With hard links   *)
(* no name is ever partial (Linked).  What the attachments need is that    *)
(* nobody removes them under a document: on a sound disk nobody cleans up  *)
(* (Sound), and a single writer of the document cleans up only what has    *)
(* not been published (Alone).  So a writer that has come to an attachment *)
(* finds the earlier ones still there (Steady).                            *)
(***************************************************************************)
EXTENDS Sink, FiniteSetTheorems, TLAPS

\* A rendering that is being filled in is partial, and one writer's.
Claims ==
  \A w \in Writers : at[w] = "fill" =>
    /\ files[Name(w)] = "partial"
    /\ \A v \in Writers : at[v] = "fill" /\ Name(v) = Name(w) => v = w

\* Where link(2) works nothing is written in place, and what was reported is there.
Linked ==
  hardLinks =>
    /\ \A n \in Formats : files[n] # "partial"
    /\ \A w \in Writers : at[w] \notin {"create", "fill"}
    /\ \A w \in Writers : result[w] \in {"stored", "skipped"} => files[Name(w)] = "whole"

\* Only a document's writer sees to attachments.
AtAttachments == {"plan", "mkdir", "attach", "rename", "clean", "remove"}
Carrying == \A w \in Writers : at[w] \in AtAttachments \/ mine[w] => Carries(w)

\* On a sound disk nobody fails and nobody cleans up: what is there stays there.
Sound ==
  sound =>
    \A w \in Writers :
      /\ at[w] \notin {"clean", "remove"} /\ result[w] # "failed"
      /\ at[w] \in {"attach", "rename"} => dir
      /\ at[w] = "rename" => w \in temps

\* A document with one writer is not there while that writer is on the way to it,
\* or cleans up after itself.
OneDocWriter == \A v, w \in Writers : format[v] = "md" /\ format[w] = "md" => v = w
OnTheWay(w) ==
  \/ at[w] \in AtAttachments \cup {"write", "link"}
  \/ at[w] = "untemp" /\ result[w] = "failed"
Alone ==
  hardLinks /\ OneDocWriter =>
    \A w \in Writers : format[w] = "md" /\ OnTheWay(w) => files["md"] # "whole"

\* The attachments that a document's writer has behind it are there.
Undisturbed == hardLinks /\ (sound \/ OneDocWriter)
Steady ==
  Undisturbed =>
    /\ \A w \in Writers : at[w] \in {"attach", "rename"} =>
         \A a \in Attachments \ todo[w] : files[a] = "whole"
    /\ \A w \in Writers : at[w] \in {"write", "link"} /\ format[w] = "md" =>
         \A a \in Attachments : files[a] = "whole"
    /\ files["md"] = "whole" => \A a \in Attachments : files[a] = "whole"

IInv == TypeOK /\ Claims /\ Linked /\ Carrying /\ Sound /\ Alone /\ Steady

-----------------------------------------------------------------------------
\* Steps that leave the files alone, but for temp files.
Quiet(w) ==
  \/ Crash(w) \/ Retry(w) \/ Replay(w) \/ Start(w) \/ Look(w) \/ PlanDir(w) \/ Attach(w)
  \/ Attached(w) \/ Write(w) \/ Untemp(w) \/ Clean(w)
Making(w)   == \E a \in Attachments : Rename(w, a)
Removing(w) == \E n \in Attachments \cup Writers : RemoveFile(w, n)
Loud(w)     == MakeDir(w) \/ Making(w) \/ Link(w) \/ Create(w) \/ Fill(w) \/ Removing(w) \/ RemoveDir(w)

LEMMA NextCases ==
  ASSUME [Next]_vars
  PROVE  UNCHANGED vars \/ Settle \/ \E w \in Writers : Quiet(w) \/ Loud(w)
BY DEF Next, Store, Quiet, Loud, Making, Removing

\* The setting is the same for ever, and so are the names.
LEMMA SettingStep ==
  ASSUME [Next]_vars
  PROVE  UNCHANGED setting /\ (\A w \in Writers : Name(w)' = Name(w) /\ Carries(w)' = Carries(w))
<1>1. UNCHANGED setting
  BY NextCases DEF vars, Settle, Quiet, Loud, Making, Removing, Crash, Retry, Replay, ComeBack, Start, Look,
     PlanDir, Attach, Attached, Write, Untemp, Clean, MakeDir, Rename, Link, Create, Fill, RemoveFile, RemoveDir
<1> QED BY <1>1 DEF setting, Name, Carries

\* What TypeOK says of the files and of where the writers are, and of the rest.
Kinds ==
  /\ files \in [Formats \cup Attachments -> {"none", "partial", "whole"}]
  /\ temps \subseteq Writers /\ at \in [Writers -> Places]
  /\ todo \in [Writers -> SUBSET (Attachments \cup Writers)] /\ mine \in [Writers -> BOOLEAN]
  /\ result \in [Writers -> {"none", "stored", "skipped", "failed"}]
  /\ \A w \in temps : at[w] \in {"rename", "link", "create", "fill", "untemp"}
Flags == format \in [Writers -> Formats] /\ {hardLinks, sound, calm, dir} \subseteq BOOLEAN

LEMMA TypeParts == TypeOK <=> Kinds /\ Flags
BY DEF TypeOK, Kinds, Flags

LEMMA FlagsStep ==
  ASSUME Flags, [Next]_vars
  PROVE  Flags'
<1>1. UNCHANGED setting
  BY SettingStep
<1>2. calm' \in {calm, TRUE}
  BY NextCases DEF vars, Settle, Quiet, Loud, Making, Removing, Crash, Retry, Replay, ComeBack, Start, Look,
     PlanDir, Attach, Attached, Write, Untemp, Clean, MakeDir, Rename, Link, Create, Fill, RemoveFile, RemoveDir
<1>3. ASSUME NEW w \in Writers, RemoveDir(w)
      PROVE  dir' \in BOOLEAN
  BY <1>3 DEF RemoveDir
<1>4. dir' \in {dir, TRUE} \/ \E w \in Writers : RemoveDir(w)
  BY NextCases DEF vars, Settle, Quiet, Loud, Making, Removing, Crash, Retry, Replay, ComeBack, Start, Look,
     PlanDir, Attach, Attached, Write, Untemp, Clean, MakeDir, Rename, Link, Create, Fill, RemoveFile, disk
<1>5. dir' \in BOOLEAN
  BY <1>3, <1>4 DEF Flags
<1> QED BY <1>1, <1>2, <1>5 DEF Flags, setting

\* No step leaves the types, and none leaves a temp file behind.
LEMMA TypeStep ==
  ASSUME TypeOK, [Next]_vars
  PROVE  TypeOK'
<1> SUFFICES Kinds'
  BY FlagsStep DEF TypeOK, Kinds, Flags
<1>0. Kinds /\ (\A w \in Writers : Name(w) \in Formats)
  BY TypeParts DEF Flags, Name
<1> USE NameAssumption DEF Kinds, Places, disk, locals, Goes, Answers, Abandon
<1>1. CASE UNCHANGED vars \/ Settle
  BY <1>0, <1>1 DEF vars, Settle
<1>2. ASSUME NEW w \in Writers, Crash(w) \/ Retry(w) \/ Replay(w) \/ Start(w)
      PROVE  Kinds'
  <2>1. CASE Crash(w)
    BY <1>0, <2>1 DEF Crash
  <2>2. CASE Retry(w) \/ Replay(w)
    <3>1. at[w] \in {"dead", "returned"} /\ UNCHANGED <<files, temps>>
          /\ at' = [at EXCEPT ![w] = "start"] /\ result' = [result EXCEPT ![w] = "none"]
          /\ todo' = [todo EXCEPT ![w] = {}] /\ mine' = [mine EXCEPT ![w] = FALSE]
      BY <2>2 DEF Retry, Replay, ComeBack
    <3>2. todo' \in [Writers -> SUBSET (Attachments \cup Writers)] /\ mine' \in [Writers -> BOOLEAN]
      BY <1>0, <3>1
    <3> QED BY <1>0, <3>1, <3>2
  <2>3. CASE Start(w)
    BY <1>0, <2>3 DEF Start
  <2> QED BY <1>2, <2>1, <2>2, <2>3
<1>3. ASSUME NEW w \in Writers, Look(w) \/ PlanDir(w) \/ MakeDir(w) \/ Attach(w) \/ Attached(w)
      PROVE  Kinds'
  <2>1. CASE Look(w)
    BY <1>0, <2>1 DEF Look
  <2>2. CASE PlanDir(w)
    BY <1>0, <2>2 DEF PlanDir
  <2>5. CASE Attached(w)
    BY <1>0, <2>5 DEF Attached
  <2>3. CASE MakeDir(w)
    BY <1>0, <2>3 DEF MakeDir
  <2>4. CASE Attach(w)
    BY <1>0, <2>4 DEF Attach
  <2> QED BY <1>3, <2>1, <2>2, <2>3, <2>4, <2>5
<1>4. ASSUME NEW w \in Writers, NEW a \in Attachments, Rename(w, a)
      PROVE  Kinds'
  <2>1. CASE w \in temps /\ Goes(w, "attach") /\ files' = [files EXCEPT ![a] = "whole"]
    BY <1>0, <1>4, <2>1 DEF Rename
  <2>2. CASE Abandon(w) /\ UNCHANGED <<files, todo, temps>>
    BY <1>0, <1>4, <2>2 DEF Rename
  <2> QED BY <1>4, <2>1, <2>2 DEF Rename
<1>5. ASSUME NEW w \in Writers, Write(w) \/ Link(w) \/ Create(w) \/ Fill(w)
      PROVE  Kinds'
  <2> USE DEF Taken, Publish
  <2>1. CASE Write(w)
    BY <1>0, <2>1 DEF Write
  <2>2. CASE Link(w)
    BY <1>0, <2>2 DEF Link
  <2>3. CASE Create(w)
    <3>1. CASE Taken(w)
      BY <1>0, <2>3, <3>1 DEF Create
    <3>2. CASE Publish(w, "partial") /\ Goes(w, "fill") /\ UNCHANGED result
      BY <1>0, <2>3, <3>2 DEF Create
    <3>3. CASE Abandon(w) /\ UNCHANGED files
      BY <1>0, <2>3, <3>3 DEF Create
    <3> QED BY <2>3, <3>1, <3>2, <3>3 DEF Create
  <2>4. CASE Fill(w)
    BY <1>0, <2>4 DEF Fill
  <2> QED BY <1>5, <2>1, <2>2, <2>3, <2>4
<1>6. ASSUME NEW w \in Writers, Untemp(w) \/ Clean(w) \/ RemoveDir(w)
      PROVE  Kinds'
  <2>1. CASE Untemp(w)
    BY <1>0, <2>1 DEF Untemp
  <2>2. CASE Clean(w)
    BY <1>0, <2>2 DEF Clean, Inside
  <2>3. CASE RemoveDir(w)
    BY <1>0, <2>3 DEF RemoveDir
  <2> QED BY <1>6, <2>1, <2>2, <2>3
<1>7. ASSUME NEW w \in Writers, NEW n \in Attachments \cup Writers, RemoveFile(w, n)
      PROVE  Kinds'
  BY <1>0, <1>7 DEF RemoveFile, Inside
<1> QED BY <1>1, <1>2, <1>3, <1>4, <1>5, <1>6, <1>7, NextCases DEF Quiet, Loud, Making, Removing

-----------------------------------------------------------------------------
\* What a step of a writer does to the files, its result and its place, without the
\* rest: most of the invariant needs no more.
LEMMA QuietStep ==
  ASSUME TypeOK, NEW w \in Writers, Quiet(w)
  PROVE  /\ UNCHANGED <<files, dir>>
         /\ temps \ {w} \subseteq temps' /\ temps' \subseteq temps \cup {w}
         /\ \A v \in Writers \ {w} : at'[v] = at[v] /\ result'[v] = result[v] /\ todo'[v] = todo[v] /\ mine'[v] = mine[v]
         /\ at'[w] # "fill" /\ at'[w] # "create"
         /\ result'[w] = "stored" => result[w] = "stored"
         /\ result'[w] = "skipped" /\ result[w] # "skipped" => files[Name(w)] # "none"
<1> USE DEF TypeOK, disk, locals, setting, Goes, Answers, Faulty, Abandon
<1>1. CASE Crash(w) \/ Retry(w) \/ Replay(w)
  BY <1>1 DEF Crash, Retry, Replay, ComeBack
<1>2. CASE Start(w) \/ Look(w) \/ PlanDir(w)
  BY <1>2 DEF Start, Look, PlanDir
<1>3. CASE Attach(w) \/ Attached(w) \/ Write(w)
  BY <1>3 DEF Attach, Attached, Write
<1>4. CASE Untemp(w) \/ Clean(w)
  BY <1>4 DEF Untemp, Clean
<1> QED BY <1>1, <1>2, <1>3, <1>4 DEF Quiet

\* The names of the renderings are not touched by what is done to attachments.
LEMMA AttachmentStep ==
  ASSUME TypeOK, NEW w \in Writers, MakeDir(w) \/ Making(w) \/ Removing(w) \/ RemoveDir(w)
  PROVE  /\ \A n \in Formats : files'[n] = files[n]
         /\ \A v \in Writers \ {w} : at'[v] = at[v] /\ result'[v] = result[v] /\ todo'[v] = todo[v] /\ mine'[v] = mine[v]
         /\ at'[w] # "fill" /\ at'[w] # "create"
         /\ result'[w] \in {result[w], "failed"}
<1> USE NameAssumption DEF TypeOK, disk, locals, setting, Goes, Answers, Faulty, Abandon, Formats
<1>1. CASE MakeDir(w) \/ RemoveDir(w)
  BY <1>1 DEF MakeDir, RemoveDir
<1>2. ASSUME NEW a \in Attachments, Rename(w, a)
      PROVE  /\ \A n \in Formats : files'[n] = files[n]
             /\ \A v \in Writers \ {w} : at'[v] = at[v] /\ result'[v] = result[v] /\ todo'[v] = todo[v] /\ mine'[v] = mine[v]
             /\ at'[w] # "fill" /\ at'[w] # "create"
             /\ result'[w] \in {result[w], "failed"}
  BY <1>2 DEF Rename
<1>3. ASSUME NEW m \in Attachments \cup Writers, RemoveFile(w, m)
      PROVE  /\ \A n \in Formats : files'[n] = files[n]
             /\ \A v \in Writers \ {w} : at'[v] = at[v] /\ result'[v] = result[v] /\ todo'[v] = todo[v] /\ mine'[v] = mine[v]
             /\ at'[w] # "fill" /\ at'[w] # "create"
             /\ result'[w] \in {result[w], "failed"}
  BY <1>3 DEF RemoveFile
<1> QED BY <1>1, <1>2, <1>3 DEF Making, Removing

\* A name is claimed by one writer, and filled by that writer.
LEMMA ClaimsStep ==
  ASSUME IInv, [Next]_vars
  PROVE  Claims'
<1>0. TypeOK /\ TypeOK' /\ Claims /\ (\A w \in Writers : Name(w) \in Formats /\ Name(w)' = Name(w))
  BY TypeStep, SettingStep DEF IInv, TypeOK, Name
<1>1. CASE UNCHANGED vars \/ Settle
  BY <1>0, <1>1 DEF vars, Settle, Claims, disk, locals
<1>2. ASSUME NEW w \in Writers, Quiet(w)
      PROVE  Claims'
  BY <1>0, <1>2, QuietStep DEF Claims
<1>3. ASSUME NEW w \in Writers, MakeDir(w) \/ Making(w) \/ Removing(w) \/ RemoveDir(w)
      PROVE  Claims'
  BY <1>0, <1>3, AttachmentStep DEF Claims
<1>4. ASSUME NEW w \in Writers, Link(w)
      PROVE  Claims'
  BY <1>0, <1>4 DEF Link, Taken, Publish, Goes, TypeOK, Claims
<1>5. ASSUME NEW w \in Writers, Create(w)
      PROVE  Claims'
  BY <1>0, <1>5 DEF Create, Taken, Publish, Goes, Abandon, TypeOK, Claims
<1>6. ASSUME NEW w \in Writers, Fill(w)
      PROVE  Claims'
  BY <1>0, <1>6 DEF Fill, Publish, Goes, Abandon, TypeOK, Claims
<1> QED BY <1>1, <1>2, <1>3, <1>4, <1>5, <1>6, NextCases DEF Loud

\* Where link(2) works, what a writer reports is there.
LEMMA LinkedStep ==
  ASSUME IInv, [Next]_vars
  PROVE  Linked'
<1>0. TypeOK /\ TypeOK' /\ Linked /\ (\A w \in Writers : Name(w) \in Formats /\ Name(w)' = Name(w))
      /\ hardLinks' = hardLinks
  BY TypeStep, SettingStep DEF IInv, TypeOK, Name, setting
<1>00. \A n \in Formats : files[n] \in {"none", "partial", "whole"}
  BY <1>0 DEF TypeOK
<1>1. CASE UNCHANGED vars \/ Settle
  BY <1>0, <1>1 DEF vars, Settle, Linked, disk, locals
<1>2. ASSUME NEW w \in Writers, Quiet(w)
      PROVE  Linked'
  BY <1>0, <1>00, <1>2, QuietStep DEF Linked
<1>3. ASSUME NEW w \in Writers, MakeDir(w) \/ Making(w) \/ Removing(w) \/ RemoveDir(w)
      PROVE  Linked'
  BY <1>0, <1>3, AttachmentStep DEF Linked
<1>4. ASSUME NEW w \in Writers, Link(w)
      PROVE  Linked'
  <2> USE DEF Link, Goes, Answers, TypeOK, Linked, setting
  <2>1. CASE Taken(w)
    BY <1>0, <1>00, <1>4, <2>1 DEF Taken
  <2>2. CASE Publish(w, "whole") /\ Goes(w, "untemp") /\ Answers(w, "stored")
    BY <1>0, <1>00, <1>4, <2>2 DEF Publish
  <2>3. CASE ~hardLinks
    BY <1>0, <2>3
  <2> QED BY <1>4, <2>1, <2>2, <2>3
<1>5. ASSUME NEW w \in Writers, Create(w) \/ Fill(w)
      PROVE  Linked'
  BY <1>0, <1>5 DEF Create, Fill, Linked
<1> QED BY <1>1, <1>2, <1>3, <1>4, <1>5, NextCases DEF Loud

\* Nobody comes to the attachments but a document's writer that has some.
LEMMA CarryingStep ==
  ASSUME IInv, [Next]_vars
  PROVE  Carrying'
<1>0. TypeOK /\ Carrying /\ (\A w \in Writers : Carries(w)' = Carries(w))
  BY SettingStep DEF IInv
<1> USE DEF TypeOK, Carrying, AtAttachments, disk, locals, setting, Goes, Answers, Abandon
<1>1. CASE UNCHANGED vars \/ Settle
  BY <1>0, <1>1 DEF vars, Settle
<1>2. ASSUME NEW w \in Writers, Crash(w) \/ Retry(w) \/ Replay(w) \/ Start(w) \/ Look(w) \/ PlanDir(w)
      PROVE  Carrying'
  BY <1>0, <1>2 DEF Crash, Retry, Replay, ComeBack, Start, Look, PlanDir
<1>3. ASSUME NEW w \in Writers, Attach(w) \/ Attached(w) \/ Write(w) \/ Untemp(w) \/ Clean(w)
      PROVE  Carrying'
  BY <1>0, <1>3 DEF Attach, Attached, Write, Untemp, Clean
<1>4. ASSUME NEW w \in Writers, MakeDir(w) \/ Link(w) \/ Create(w) \/ Fill(w) \/ RemoveDir(w)
      PROVE  Carrying'
  BY <1>0, <1>4 DEF MakeDir, Link, Taken, Create, Fill, RemoveDir
<1>5. ASSUME NEW w \in Writers, Making(w) \/ Removing(w)
      PROVE  Carrying'
  BY <1>0, <1>5 DEF Making, Rename, Removing, RemoveFile
<1> QED BY <1>1, <1>2, <1>3, <1>4, <1>5, NextCases DEF Quiet, Loud

\* On a sound disk nothing fails, and so nothing is cleaned up.
LEMMA SoundStep ==
  ASSUME IInv, [Next]_vars
  PROVE  Sound'
<1> SUFFICES ASSUME sound PROVE Sound'
  BY SettingStep DEF Sound, setting
<1>0. TypeOK /\ Sound /\ ~Faulty
  BY DEF IInv, Faulty
<1> USE DEF TypeOK, Sound, disk, locals, setting, Goes, Answers, Abandon
<1>1. CASE UNCHANGED vars \/ Settle
  BY <1>0, <1>1 DEF vars, Settle
<1>2. ASSUME NEW w \in Writers, Crash(w) \/ Retry(w) \/ Replay(w)
      PROVE  Sound'
  BY <1>0, <1>2 DEF Crash, Retry, Replay, ComeBack
<1>3. ASSUME NEW w \in Writers, Start(w) \/ Look(w) \/ PlanDir(w) \/ MakeDir(w)
      PROVE  Sound'
  BY <1>0, <1>3 DEF Start, Look, PlanDir, MakeDir
<1>4. ASSUME NEW w \in Writers, Attach(w) \/ Attached(w) \/ Write(w) \/ Untemp(w)
      PROVE  Sound'
  BY <1>0, <1>4 DEF Attach, Attached, Write, Untemp
<1>5. ASSUME NEW w \in Writers, Link(w) \/ Create(w) \/ Fill(w)
      PROVE  Sound'
  BY <1>0, <1>5 DEF Link, Taken, Create, Fill
<1>6. ASSUME NEW w \in Writers, Making(w)
      PROVE  Sound'
  <2>1. PICK a \in Attachments : Rename(w, a)
    BY <1>6 DEF Making
  <2>2. w \in temps /\ at[w] = "rename"
    BY <1>0, <2>1 DEF Rename
  <2>3. at' = [at EXCEPT ![w] = "attach"] /\ temps' = temps \ {w} /\ UNCHANGED <<sound, dir, result>>
    BY <1>0, <2>1, <2>2 DEF Rename
  <2>4. dir
    BY <1>0, <2>2
  <2> QED BY <1>0, <2>3, <2>4
<1>7. ASSUME NEW w \in Writers, Clean(w) \/ Removing(w) \/ RemoveDir(w)
      PROVE  FALSE
  BY <1>0, <1>7 DEF Clean, Removing, RemoveFile, RemoveDir
<1> QED BY <1>1, <1>2, <1>3, <1>4, <1>5, <1>6, <1>7, NextCases DEF Quiet, Loud

\* Who writes a document alone finds it missing until it has published it.
LEMMA AloneStep ==
  ASSUME IInv, [Next]_vars
  PROVE  Alone'
<1> SUFFICES ASSUME hardLinks, OneDocWriter, NEW v \in Writers, format[v] = "md", OnTheWay(v)'
             PROVE  files'["md"] # "whole"
  BY SettingStep DEF Alone, OneDocWriter, setting
<1>0. TypeOK /\ Carrying /\ Linked /\ Alone /\ "md" \in Formats
  BY DEF IInv, Formats
<1>00. \A w \in Writers : Carries(w) \/ Name(w) = "md" => w = v
  BY DEF OneDocWriter, Carries, Name
<1>01. \A w \in Writers : at[w] \in AtAttachments \/ mine[w] => w = v
  BY <1>0, <1>00 DEF Carrying
<1> USE DEF OnTheWay, AtAttachments
<1>1. CASE UNCHANGED vars \/ Settle
  BY <1>0, <1>1 DEF vars, Settle, disk, locals, Alone
<1>2. ASSUME NEW w \in Writers, Quiet(w), w # v
      PROVE  files'["md"] # "whole"
  BY <1>0, <1>2, QuietStep DEF Alone
<1>3. CASE Crash(v) \/ Retry(v) \/ Replay(v) \/ Start(v)
  BY <1>0, <1>3 DEF Crash, Retry, Replay, ComeBack, Start, Goes, Answers, TypeOK
<1>4. CASE Look(v)
  BY <1>0, <1>4 DEF Look, Goes, Answers, TypeOK, Name, disk
<1>5. CASE PlanDir(v) \/ Attach(v) \/ Attached(v) \/ Write(v) \/ Untemp(v) \/ Clean(v)
  BY <1>0, <1>5 DEF PlanDir, Attach, Attached, Write, Untemp, Clean, Goes, Answers, Abandon, TypeOK, disk, Alone
<1>6. ASSUME NEW w \in Writers, MakeDir(w) \/ Making(w) \/ Removing(w) \/ RemoveDir(w)
      PROVE  files'["md"] # "whole"
  <2>1. at[w] \in AtAttachments
    BY <1>6 DEF MakeDir, Making, Rename, Removing, RemoveFile, RemoveDir
  <2>2. w = v
    BY <1>01, <2>1
  <2> QED BY <1>0, <1>6, <2>1, <2>2, AttachmentStep DEF Alone
<1>7. ASSUME NEW w \in Writers, Link(w), w # v
      PROVE  files'["md"] # "whole"
  <2>1. Name(w) # "md" /\ at'[v] = at[v] /\ result'[v] = result[v]
    BY <1>0, <1>00, <1>7 DEF Link, Taken, Goes, Answers, TypeOK
  <2>2. files'["md"] = files["md"]
    BY <1>0, <1>7, <2>1 DEF Link, Taken, Publish, TypeOK
  <2> QED BY <1>0, <2>1, <2>2 DEF Alone
<1>8. CASE Link(v)
  BY <1>0, <1>8 DEF Link, Taken, Goes, Answers, TypeOK
<1>9. ASSUME NEW w \in Writers, Create(w) \/ Fill(w)
      PROVE  FALSE
  BY <1>0, <1>9 DEF Linked, Create, Fill
<1> QED BY <1>1, <1>2, <1>3, <1>4, <1>5, <1>6, <1>7, <1>8, <1>9, NextCases DEF Quiet, Loud

\* The attachments that are written stay, and the document comes after them.
LEMMA SteadyStep ==
  ASSUME IInv, [Next]_vars
  PROVE  Steady'
<1> SUFFICES ASSUME Undisturbed PROVE Steady'
  BY SettingStep DEF Steady, Undisturbed, OneDocWriter, setting
<1>0. TypeOK /\ TypeOK' /\ Carrying /\ Linked /\ Sound /\ Alone /\ Steady /\ hardLinks /\ "md" \in Formats
  BY TypeStep DEF IInv, Undisturbed, Formats
<1>00. format' = format
  BY SettingStep DEF setting
<1>1. CASE UNCHANGED vars \/ Settle
  BY <1>0, <1>00, <1>1 DEF vars, Settle, disk, locals, Steady
<1>2. ASSUME NEW w \in Writers, Quiet(w)
      PROVE  Steady'
  <2>1. at'[w] \in {"attach", "rename"} => at[w] = "attach" /\ todo'[w] = todo[w]
    BY <1>0, <1>2 DEF Quiet, Crash, Retry, Replay, ComeBack, Start, Look, PlanDir, Attach, Attached, Write,
       Untemp, Clean, Goes, Abandon, Answers, TypeOK, disk
  <2>2. at'[w] \in {"write", "link"} /\ format[w] = "md" =>
          at[w] = "write" \/ (at[w] = "attach" /\ todo[w] = {}) \/ Attachments = {}
    BY <1>0, <1>2 DEF Quiet, Crash, Retry, Replay, ComeBack, Start, Look, PlanDir, Attach, Attached, Write,
       Untemp, Clean, Goes, Abandon, Answers, TypeOK, disk, Carries
  <2> QED BY <1>0, <1>00, <1>2, <2>1, <2>2, QuietStep DEF Steady
<1>3. ASSUME NEW w \in Writers, MakeDir(w)
      PROVE  Steady'
  BY <1>0, <1>00, <1>3 DEF MakeDir, Goes, Answers, TypeOK, Steady
<1>4. ASSUME NEW w \in Writers, NEW a \in Attachments, Rename(w, a)
      PROVE  Steady'
  <2>1. a # "md"
    BY NameAssumption DEF Formats
  <2>2. CASE /\ at' = [at EXCEPT ![w] = "attach"] /\ files' = [files EXCEPT ![a] = "whole"]
             /\ todo' = [todo EXCEPT ![w] = @ \ {a}]
    <3>1. files'["md"] = files["md"] /\ \A b \in Attachments : files'[b] = IF b = a THEN "whole" ELSE files[b]
      BY <1>0, <2>1, <2>2 DEF TypeOK
    <3>2. at[w] = "rename" /\ \A v \in Writers : v # w => at'[v] = at[v] /\ todo'[v] = todo[v]
      BY <1>0, <1>4, <2>2 DEF Rename, TypeOK
    <3>3. at'[w] = "attach" /\ todo'[w] = todo[w] \ {a}
      BY <1>0, <2>2 DEF TypeOK
    <3> QED BY <1>0, <1>00, <3>1, <3>2, <3>3 DEF Steady
  <2>3. CASE at' = [at EXCEPT ![w] = "untemp"] /\ UNCHANGED <<files, todo>>
    BY <1>0, <1>00, <2>3 DEF TypeOK, Steady
  <2> QED BY <1>4, <2>2, <2>3 DEF Rename, Goes, Abandon
<1>5. ASSUME NEW w \in Writers, Link(w)
      PROVE  Steady'
  <2>1. /\ at[w] = "link" /\ at' = [at EXCEPT ![w] = "untemp"] /\ todo' = todo
        /\ files' = files \/ files' = [files EXCEPT ![format[w]] = "whole"]
    BY <1>0, <1>5 DEF Link, Taken, Publish, Name, Goes
  <2>2. \A a \in Attachments : files'[a] = files[a]
    <3>1. format[w] \in Formats /\ format[w] \notin Attachments
      BY <1>0, NameAssumption DEF TypeOK
    <3> QED BY <1>0, <2>1, <3>1 DEF TypeOK
  <2>3. format[w] # "md" => files'["md"] = files["md"]
    BY <1>0, <2>1 DEF TypeOK
  <2> QED BY <1>0, <1>00, <2>1, <2>2, <2>3 DEF TypeOK, Steady
<1>6. ASSUME NEW w \in Writers, Create(w) \/ Fill(w)
      PROVE  Steady'
  BY <1>0, <1>6 DEF Linked, Create, Fill
<1>7. ASSUME NEW w \in Writers, at[w] \in {"clean", "remove"}
      PROVE  files["md"] # "whole" /\ (\A v \in Writers : at[v] \in AtAttachments \/ format[v] = "md" => v = w)
  <2>1. ~sound /\ OneDocWriter
    BY <1>0, <1>7 DEF Sound, Undisturbed
  <2>2. \A v \in Writers : at[v] \in AtAttachments => format[v] = "md"
    BY <1>0 DEF Carrying, Carries
  <2>3. format[w] = "md"
    BY <1>7, <2>2 DEF AtAttachments
  <2> QED BY <1>0, <1>7, <2>1, <2>2, <2>3 DEF Alone, OnTheWay, OneDocWriter, AtAttachments
<1>8. ASSUME NEW w \in Writers, Removing(w) \/ RemoveDir(w)
      PROVE  Steady'
  <2>1. at[w] = "remove" /\ at'[w] \in {"remove", "returned"}
    BY <1>0, <1>8 DEF Removing, RemoveFile, RemoveDir, Goes, TypeOK
  <2>2. files'["md"] = files["md"] /\ \A v \in Writers \ {w} : at'[v] = at[v]
    BY <1>0, <1>8, AttachmentStep
  <2> QED BY <1>0, <1>00, <1>7, <2>1, <2>2 DEF Steady, AtAttachments
<1> QED BY <1>1, <1>2, <1>3, <1>4, <1>5, <1>6, <1>8, NextCases DEF Loud, Making

LEMMA Step ==
  ASSUME IInv, [Next]_vars
  PROVE  IInv'
BY TypeStep, ClaimsStep, LinkedStep, CarryingStep, SoundStep, AloneStep, SteadyStep DEF IInv

LEMMA Beginning ==
  ASSUME Init
  PROVE  IInv
<1> USE NameAssumption DEF Init, Formats
<1>1. TypeOK
  BY DEF TypeOK, Places
<1>2. Claims /\ Linked /\ Carrying /\ Sound
  BY DEF Claims, Linked, Carrying, AtAttachments, Sound, Name
<1>3. Alone /\ Steady
  BY DEF Alone, OnTheWay, AtAttachments, Steady
<1> QED BY <1>1, <1>2, <1>3 DEF IInv

\* The invariant holds throughout: all that follows is read off it.
THEOREM Invariance == Spec => []IInv
<1>1. Init => IInv
  BY Beginning
<1>2. IInv /\ [Next]_vars => IInv'
  BY Step
<1> QED BY <1>1, <1>2, PTL DEF Spec

-----------------------------------------------------------------------------
\* Every variable keeps its type, and no temp file outlives the Store that wrote it:
\* each exit of createFileExclusive and writeFileAtomic removes its own.
THEOREM TypeCorrect == Spec => []TypeOK
<1>1. IInv => TypeOK
  BY DEF IInv
<1> QED BY <1>1, Invariance, PTL

\* Where link(2) works, Store answers "stored" or "skipped" only of a rendering that
\* is there in full.
THEOREM ReportsAreTrue == Spec => []ReportedIsThere
<1>1. IInv => ReportedIsThere
  BY DEF IInv, Linked, ReportedIsThere
<1> QED BY <1>1, Invariance, PTL

\* A set with at most one element has no two.
LEMMA AtMostOne ==
  ASSUME NEW S, IsFiniteSet(S), Cardinality(S) <= 1, NEW x \in S, NEW y \in S
  PROVE  x = y
<1>1. IsFiniteSet(S \ {x}) /\ Cardinality(S \ {x}) = Cardinality(S) - 1
  BY FS_RemoveElement
<1>2. Cardinality(S \ {x}) \in Nat /\ Cardinality(S) \in Nat
  BY <1>1, FS_CardinalityType
<1>3. Cardinality(S \ {x}) = 0
  BY <1>1, <1>2
<1>4. S \ {x} = {}
  BY <1>1, <1>3, FS_EmptySet
<1> QED BY <1>4

\* writeAttachments comes before the document's link: what a published document links
\* to is there, across crashes, failures and retries of one writer, and races of
\* several on a sound disk.
THEOREM LinksLeadSomewhere == Spec => []LinkedFilesThere
<1>1. ASSUME AloneOrSound PROVE sound \/ OneDocWriter
  <2> DEFINE D == {w \in Writers : format[w] = "md"}
  <2>1. IsFiniteSet(D)
    BY NameAssumption, FS_Subset
  <2>2. CASE Cardinality(D) <= 1
    <3>1. ASSUME NEW v \in D, NEW w \in D PROVE v = w
      <4> HIDE DEF D
      <4> QED BY <2>1, <2>2, AtMostOne
    <3> QED BY <3>1 DEF OneDocWriter
  <2> QED BY <1>1, <2>2 DEF AloneOrSound
<1>2. IInv => LinkedFilesThere
  BY <1>1 DEF IInv, Steady, Undisturbed, LinkedFilesThere
<1> QED BY <1>2, Invariance, PTL

-----------------------------------------------------------------------------
\* What one step may do to a rendering.
LEMMA PublishedStep ==
  ASSUME IInv, [Next]_vars, NEW n \in Formats
  PROVE  /\ files[n] = "whole" => files'[n] = "whole"
         /\ \A w \in Writers : format[w] = n /\ result[w] # "stored" /\ result'[w] = "stored" => files[n] # "whole"
<1>0. TypeOK /\ Claims
  BY DEF IInv
<1>1. CASE UNCHANGED vars \/ Settle
  BY <1>1 DEF vars, Settle, disk, locals
<1>2. ASSUME NEW w \in Writers, Quiet(w)
      PROVE  files'[n] = files[n] /\ \A v \in Writers : result'[v] = "stored" => result[v] = "stored"
  BY <1>0, <1>2, QuietStep
<1>3. ASSUME NEW w \in Writers, MakeDir(w) \/ Making(w) \/ Removing(w) \/ RemoveDir(w)
      PROVE  files'[n] = files[n] /\ \A v \in Writers : result'[v] = "stored" => result[v] = "stored"
  BY <1>0, <1>3, AttachmentStep
<1>4. ASSUME NEW w \in Writers, Link(w) \/ Create(w) \/ Fill(w)
      PROVE  /\ \A v \in Writers \ {w} : result'[v] = result[v]
             /\ files'[n] # files[n] => n = Name(w) /\ files[n] # "whole"
             /\ result[w] # "stored" /\ result'[w] = "stored" => files[Name(w)] # "whole"
  <2>1. CASE Link(w)
    BY <1>0, <2>1 DEF Link, Taken, Publish, Answers, TypeOK
  <2>2. CASE Create(w)
    BY <1>0, <2>2 DEF Create, Taken, Publish, Abandon, Answers, TypeOK
  <2>3. CASE Fill(w)
    <3>1. files[Name(w)] = "partial"
      BY <1>0, <2>3 DEF Fill, Claims
    <3> QED BY <1>0, <2>3, <3>1 DEF Fill, Publish, Abandon, Answers, TypeOK
  <2> QED BY <1>4, <2>1, <2>2, <2>3
<1> QED BY <1>1, <1>2, <1>3, <1>4, NextCases DEF Loud, Name

\* A rendering that is whole is never replaced, truncated or removed by any writer,
\* link(2) or no link(2), and no second Store claims it.
THEOREM NothingIsOverwritten == Spec => PublishedOnce
<1>1. IInv /\ [Next]_vars =>
        [\A n \in Formats :
           /\ files[n] = "whole" => files'[n] = "whole"
           /\ \A w \in Writers :
                format[w] = n /\ result[w] # "stored" /\ result'[w] = "stored"
                => files[n] # "whole"]_vars
  BY PublishedStep
<1> QED BY <1>1, Invariance, PTL DEF Spec, PublishedOnce
==============================================================================
