-------------------------------- MODULE Sink --------------------------------
(***************************************************************************)
(* internal/sink: Store, of both sinks, for the renderings of one message  *)
(* under one rule.  A writer is one process that stores it in one format;  *)
(* several may run at once (two configurations, or two state directories,  *)
(* with one destination), and each comes back to the message after a       *)
(* crash, a failure or the loss of its state.                              *)
(*                                                                         *)
(* The name of a rendering is a function of the message's identity, so all *)
(* writers of a format want the same name.  Temp files have names of their *)
(* own that nobody reads: one that a crash leaves behind is forgotten      *)
(* here.  Links planted in the destination, and the year and month         *)
(* directories, are left out.                                              *)
(***************************************************************************)
EXTENDS Naturals, FiniteSets

CONSTANTS
  Writers,
  Attachments     \* on-disk names of the message's attachments

Formats == {"eml", "md"}
ASSUME NameAssumption ==
  IsFiniteSet(Writers) /\ Attachments \cap (Formats \cup Writers) = {}

VARIABLES
  format,         \* the format each writer stores
  hardLinks,      \* link(2) at the destination fails only for a taken name
  sound,          \* no write to this disk ever fails
  calm,           \* TRUE once no write fails and no writer dies any more
  files,          \* "none", "partial" or "whole", by name
  dir,            \* the attachments directory is there
  temps,          \* writers with a temp file
  at,             \* where each writer is in Store
  todo,           \* attachments it has not written yet, or files it has to remove
  mine,           \* cleanup would remove the attachments directory
  result          \* what Store is going to return

disk    == <<files, dir, temps>>
locals  == <<at, todo, mine, result>>
setting == <<format, hardLinks, sound>>
vars    == <<setting, calm, disk, locals>>

Places == {"start", "look", "plan", "mkdir", "attach", "rename", "write", "link",
           "create", "fill", "untemp", "clean", "remove",
           "returned", "dead"}

Name(w)    == format[w]
Carries(w) == format[w] = "md" /\ Attachments # {}
Goes(w, place) == at' = [at EXCEPT ![w] = place]
Answers(w, what) == result' = [result EXCEPT ![w] = what]

\* Writers whose temp file is in the attachments directory.
Inside == {w \in temps : at[w] = "rename"}

\* A call may fail.
Faulty == ~sound /\ ~calm
-----------------------------------------------------------------------------
Settle ==
  /\ ~calm /\ calm' = TRUE
  /\ UNCHANGED <<setting, disk, locals>>

\* The process dies; what it published stays.
Crash(w) ==
  /\ ~calm /\ at[w] \notin {"start", "returned", "dead"}
  /\ Goes(w, "dead") /\ temps' = temps \ {w}
  /\ UNCHANGED <<setting, calm, files, dir, todo, mine, result>>

\* The message comes again: to a writer that failed or died, or to one that has
\* stored it and forgotten.
ComeBack(w) ==
  /\ Goes(w, "start") /\ Answers(w, "none")
  /\ todo' = [todo EXCEPT ![w] = {}] /\ mine' = [mine EXCEPT ![w] = FALSE]
  /\ UNCHANGED <<setting, calm, disk>>
Retry(w) ==
  /\ at[w] = "dead" \/ (at[w] = "returned" /\ result[w] = "failed")
  /\ ComeBack(w)
Replay(w) == at[w] = "returned" /\ result[w] # "failed" /\ ComeBack(w)

\* ensureDir.
Start(w) ==
  /\ at[w] = "start"
  /\ \/ Goes(w, "look") /\ UNCHANGED result
     \/ Faulty /\ Goes(w, "returned") /\ Answers(w, "failed")
  /\ UNCHANGED <<setting, calm, disk, todo, mine>>

\* plan, the early out; then the document is rendered.
Look(w) ==
  /\ at[w] = "look"
  /\ \/ /\ files[Name(w)] # "none"
        /\ Goes(w, "returned") /\ Answers(w, "skipped")
     \/ /\ files[Name(w)] = "none"
        /\ Goes(w, IF Carries(w) THEN "plan" ELSE "write") /\ UNCHANGED result
     \/ Faulty /\ Goes(w, "returned") /\ Answers(w, "failed")
  /\ UNCHANGED <<setting, calm, disk, todo, mine>>
-----------------------------------------------------------------------------
(* writeAttachments.                                                       *)

\* Was the directory there before?
PlanDir(w) ==
  /\ at[w] = "plan"
  /\ mine' = [mine EXCEPT ![w] = ~dir]
  /\ Goes(w, "mkdir")
  /\ UNCHANGED <<setting, calm, disk, todo, result>>

\* Mutant: a directory that a crashed call has left is an error.
MakeDirOnce(w) ==
  /\ at[w] = "mkdir"
  /\ \/ /\ ~dir /\ dir' = TRUE /\ Goes(w, "attach")
        /\ todo' = [todo EXCEPT ![w] = Attachments]
        /\ UNCHANGED result
     \/ /\ Faulty \/ dir
        /\ Goes(w, "returned") /\ Answers(w, "failed")
        /\ UNCHANGED <<dir, todo>>
  /\ UNCHANGED <<setting, calm, files, temps, mine>>
\* mkdirNoFollow: a directory that is there already will do.
MakeDir(w) ==
  /\ at[w] = "mkdir"
  /\ \/ /\ dir' = TRUE /\ Goes(w, "attach")
        /\ todo' = [todo EXCEPT ![w] = Attachments]
        /\ UNCHANGED result
     \/ /\ Faulty /\ Goes(w, "returned") /\ Answers(w, "failed")
        /\ UNCHANGED <<dir, todo>>
  /\ UNCHANGED <<setting, calm, files, temps, mine>>

\* Something failed: the temp file goes, then, perhaps, the directory.
Abandon(w) == Goes(w, "untemp") /\ Answers(w, "failed")

\* writeFileAtomic, first half: a whole temp file in the attachments directory.
\* Without attachments left the message file is next.
Attach(w) ==
  /\ at[w] = "attach" /\ todo[w] # {}
  /\ \/ dir /\ Goes(w, "rename") /\ temps' = temps \cup {w} /\ UNCHANGED result
     \/ (Faulty \/ ~dir) /\ Abandon(w) /\ UNCHANGED temps
  /\ UNCHANGED <<setting, calm, files, dir, todo, mine>>

\* Second half.  Another writer's cleanup may have taken the temp file.
Rename(w, a) ==
  /\ at[w] = "rename" /\ a \in todo[w]
  /\ \/ /\ w \in temps /\ Goes(w, "attach")
        /\ files' = [files EXCEPT ![a] = "whole"]
        /\ todo' = [todo EXCEPT ![w] = @ \ {a}] /\ temps' = temps \ {w}
        /\ UNCHANGED result
     \/ /\ Faulty \/ w \notin temps
        /\ Abandon(w) /\ UNCHANGED <<files, todo, temps>>
  /\ UNCHANGED <<setting, calm, dir, mine>>

\* Mutant: the message file does not wait for the attachments.
AttachedEarly(w) ==
  /\ at[w] = "attach"
  /\ Goes(w, "write")
  /\ UNCHANGED <<setting, calm, disk, todo, mine, result>>
Attached(w) ==
  /\ at[w] = "attach" /\ todo[w] = {}
  /\ Goes(w, "write")
  /\ UNCHANGED <<setting, calm, disk, todo, mine, result>>
-----------------------------------------------------------------------------
(* createFileExclusive.                                                    *)

\* writeTemp.
Write(w) ==
  /\ at[w] = "write"
  /\ \/ Goes(w, "link") /\ temps' = temps \cup {w} /\ UNCHANGED result
     \/ Faulty /\ Abandon(w) /\ UNCHANGED temps
  /\ UNCHANGED <<setting, calm, files, dir, todo, mine>>

\* The name is taken: archived already.
Taken(w) ==
  /\ files[Name(w)] # "none"
  /\ Goes(w, "untemp") /\ Answers(w, "skipped")
  /\ UNCHANGED files

Publish(w, how) == files' = [files EXCEPT ![Name(w)] = how]

\* Mutant: a rename instead of a link.
LinkOver(w) ==
  /\ at[w] = "link"
  /\ \/ Publish(w, "whole") /\ Goes(w, "untemp") /\ Answers(w, "stored")
     \/ ~hardLinks /\ Goes(w, "create") /\ UNCHANGED <<files, result>>
  /\ UNCHANGED <<setting, calm, dir, temps, todo, mine>>
\* Mutant: the name is claimed first and filled afterwards.
LinkClaiming(w) ==
  /\ at[w] = "link"
  /\ Goes(w, "create") /\ UNCHANGED <<files, result>>
  /\ UNCHANGED <<setting, calm, dir, temps, todo, mine>>
\* link(2) claims the name with whole contents, or finds it taken, or is refused.
Link(w) ==
  /\ at[w] = "link"
  /\ \/ Taken(w)
     \/ /\ files[Name(w)] = "none"
        /\ Publish(w, "whole") /\ Goes(w, "untemp") /\ Answers(w, "stored")
     \/ /\ ~hardLinks /\ Goes(w, "create") /\ UNCHANGED <<files, result>>
  /\ UNCHANGED <<setting, calm, dir, temps, todo, mine>>

\* Mutant: O_TRUNC for O_EXCL.
CreateOver(w) ==
  /\ at[w] = "create"
  /\ \/ Publish(w, "partial") /\ Goes(w, "fill") /\ UNCHANGED result
     \/ Faulty /\ Abandon(w) /\ UNCHANGED files
  /\ UNCHANGED <<setting, calm, dir, temps, todo, mine>>
\* createInPlaceExclusive.
Create(w) ==
  /\ at[w] = "create"
  /\ \/ Taken(w)
     \/ /\ files[Name(w)] = "none"
        /\ Publish(w, "partial") /\ Goes(w, "fill") /\ UNCHANGED result
     \/ Faulty /\ Abandon(w) /\ UNCHANGED files
  /\ UNCHANGED <<setting, calm, dir, temps, todo, mine>>

Fill(w) ==
  /\ at[w] = "fill"
  /\ \/ Publish(w, "whole") /\ Goes(w, "untemp") /\ Answers(w, "stored")
     \/ Faulty /\ Publish(w, "none") /\ Abandon(w)
  /\ UNCHANGED <<setting, calm, dir, temps, todo, mine>>
-----------------------------------------------------------------------------
(* The deferred removal of the temp file, cleanup, and the return.         *)

Untemp(w) ==
  /\ at[w] = "untemp"
  /\ temps' = temps \ {w}
  /\ Goes(w, IF result[w] = "failed" /\ mine[w] THEN "clean" ELSE "returned")
  /\ UNCHANGED <<setting, calm, files, dir, todo, mine, result>>

\* os.RemoveAll lists the directory once, other writers' files included,
Clean(w) ==
  /\ at[w] = "clean"
  /\ todo' = [todo EXCEPT ![w] = {a \in Attachments : files[a] # "none"} \cup Inside]
  /\ Goes(w, "remove")
  /\ UNCHANGED <<setting, calm, disk, mine, result>>

\* removes what it listed, one by one, a temp file unless it has been renamed,
RemoveFile(w, n) ==
  /\ at[w] = "remove" /\ n \in todo[w]
  /\ todo' = [todo EXCEPT ![w] = @ \ {n}]
  /\ IF n \in Attachments
     THEN files' = [files EXCEPT ![n] = "none"] /\ UNCHANGED temps
     ELSE temps' \in {temps, temps \ (Inside \cap {n})} /\ UNCHANGED files
  /\ UNCHANGED <<setting, calm, dir, at, mine, result>>

\* and then the directory, unless something is in it again.
RemoveDir(w) ==
  /\ at[w] = "remove" /\ todo[w] = {}
  /\ dir' = (Inside # {} \/ \E a \in Attachments : files[a] # "none")
  /\ Goes(w, "returned")
  /\ UNCHANGED <<setting, calm, files, temps, todo, mine, result>>
-----------------------------------------------------------------------------
Init ==
  /\ format \in [Writers -> Formats]
  /\ hardLinks \in BOOLEAN /\ sound \in BOOLEAN /\ calm = FALSE
  /\ files = [n \in Formats \cup Attachments |-> "none"]
  /\ dir = FALSE /\ temps = {}
  /\ at = [w \in Writers |-> "start"] /\ todo = [w \in Writers |-> {}]
  /\ mine = [w \in Writers |-> FALSE] /\ result = [w \in Writers |-> "none"]

Store(w) ==
  \/ Start(w) \/ Look(w) \/ PlanDir(w) \/ MakeDir(w) \/ Attach(w) \/ Attached(w)
  \/ (\E a \in Attachments : Rename(w, a))
  \/ Write(w) \/ Link(w) \/ Create(w) \/ Fill(w) \/ Untemp(w) \/ Clean(w)
  \/ (\E n \in Attachments \cup Writers : RemoveFile(w, n)) \/ RemoveDir(w)

Next ==
  \/ Settle
  \/ \E w \in Writers : Store(w) \/ Retry(w) \/ Crash(w) \/ Replay(w)

Spec     == Init /\ [][Next]_vars
FairSpec ==
  /\ Spec /\ WF_vars(Settle)
  /\ \A w \in Writers : WF_vars(Store(w) \/ Retry(w))
-----------------------------------------------------------------------------
(* Properties.                                                             *)

\* The types, and a temp file does not outlive the Store that wrote it: "anything
\* that fails before the rename leaves no partial file and no temp file behind"
\* (sink.go:460).
TypeOK ==
  /\ \A w \in temps : at[w] \in {"rename", "link", "create", "fill", "untemp"}
  /\ format \in [Writers -> Formats]
  /\ {hardLinks, sound, calm, dir} \subseteq BOOLEAN
  /\ files \in [Formats \cup Attachments -> {"none", "partial", "whole"}]
  /\ temps \subseteq Writers /\ at \in [Writers -> Places]
  /\ todo \in [Writers -> SUBSET (Attachments \cup Writers)] /\ mine \in [Writers -> BOOLEAN]
  /\ result \in [Writers -> {"none", "stored", "skipped", "failed"}]

\* A rendering that is whole is never replaced, truncated or removed, whoever else
\* is writing, and a name is claimed once: "two writers racing the same message
\* cannot both win" (doc.go:65).
PublishedOnce ==
  [][\A n \in Formats :
       /\ files[n] = "whole" => files'[n] = "whole"
       /\ \A w \in Writers :
            format[w] = n /\ result[w] # "stored" /\ result'[w] = "stored"
            => files[n] # "whole"]_vars

\* Where link(2) works, a Store that reports the message stored, or there
\* already, is right: the rendering is there in full.
ReportedIsThere ==
  hardLinks =>
    \A w \in Writers :
      at[w] = "returned" /\ result[w] \in {"stored", "skipped"} =>
        files[Name(w)] = "whole"

\* No write fails, or a single writer stores the document.
AloneOrSound == sound \/ Cardinality({w \in Writers : format[w] = "md"}) <= 1

\* "The document never links to files that are not there yet" (markdown.go:85),
\* across crashes, failures and retries of one writer, and races of
\* several on a sound disk.  Not of several on a faulty one: a writer that fails
\* removes a directory that another one has made since it looked.
LinkedFilesThere ==
  /\ hardLinks /\ files["md"] = "whole"
  /\ AloneOrSound
  => \A a \in Attachments : files[a] = "whole"

\* Where link(2) works, every rendering is there in full in the end, however often
\* its writers died or failed before.
EventuallyArchived ==
  \A w \in Writers : (hardLinks /\ AloneOrSound) ~> (files[Name(w)] = "whole")
=============================================================================
