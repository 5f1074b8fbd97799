------------------------------ MODULE Storage ------------------------------
(***************************************************************************)
(* What a cycle leaves on disk for one account, write by write: the state  *)
(* file, replaced through a temporary one, and the messages put aside,     *)
(* written in place, whose files must be there once the cursor in the      *)
(* state has passed them.  The process may be killed and the power may     *)
(* fail between any two steps.                                             *)
(*                                                                         *)
(* A file is [seen, disk]: what a reader finds in it, and what it may hold *)
(* once the power has failed.  A message is named by the segments of the   *)
(* id its provider gave it, its number is its place in the mailbox.        *)
(***************************************************************************)
EXTENDS Integers, Sequences, SequencesExt, FiniteSets

CONSTANTS
  Account,   \* its name, in characters or runs of them
  Ids,       \* the message ids, in the order the provider returns them
  MaxKills   \* bound: kills and power losses

VARIABLES
  state,     \* the state file under its name; what it says is the cursor
  entry,     \* what the name of the state file may lead to after a power loss
  temp,      \* the temporary file, or NoFile
  eml, json, \* file name -> the file put aside there, or NoFile
  pc,        \* "cycle", "eml", "json", "temp", "rename", "dirsync"
  reached,   \* messages handled by this cycle
  aside,     \* history: messages a cycle put aside and went past
  kills,
  dark       \* history: the power has failed

disks     == <<state, entry, temp, eml, json>>
storeVars == <<disks, pc, reached, aside, kills, dark>>

Torn == -1
Missing == -2
Whole(v)     == [seen |-> v, disk |-> {v}]
Unflushed(v) == [seen |-> v, disk |-> {Torn, v}]
NoFile       == Whole(Missing)

Plain == {"work", "INBOX", "Sent", "7", "8", ".", "_", "-"}

\* One path segment: what is not a letter, a digit, a dot, a dash or an underscore
\* becomes one; dots at the ends are cut.
SafeSegment(s) ==
  LET kept == [i \in DOMAIN s |-> IF s[i] \in Plain THEN s[i] ELSE "_"]
      solid == {i \in DOMAIN kept : kept[i] # "."}
  IN IF solid = {} THEN <<"unknown">>
     ELSE SubSeq(kept, CHOOSE i \in solid : \A j \in solid : i <= j, CHOOSE i \in solid : \A j \in solid : j <= i)

QuarantinePath(id) == <<SafeSegment(Account), SafeSegment(id)>>
QuarantinePaths == {QuarantinePath(id) : id \in ToSet(Ids)}

ValidAccount(a) ==
  /\ a \notin {<<>>, <<".">>} /\ "/" \notin ToSet(a)
  /\ \A i \in 1 .. Len(a) - 1 : ~(a[i] = "." /\ a[i + 1] = ".")

-----------------------------------------------------------------------------
(* A message that cannot be delivered *)

Path == QuarantinePath(Ids[reached + 1])

\* The provider returns the next message; most are delivered.
Deliver ==
  /\ pc = "cycle" /\ reached < Len(Ids)
  /\ reached' = reached + 1 /\ aside' = aside \ {reached + 1}
  /\ UNCHANGED <<disks, pc, kills, dark>>

\* os.WriteFile: the file is cut to nothing, then written; nothing is flushed.
OpenEml ==
  /\ pc = "cycle" /\ reached < Len(Ids)
  /\ eml' = [eml EXCEPT ![Path] = Unflushed(Torn)] /\ pc' = "eml"
  /\ UNCHANGED <<state, entry, temp, json, reached, aside, kills, dark>>

WriteEml ==
  /\ pc = "eml"
  /\ eml' = [eml EXCEPT ![Path] = Unflushed(reached + 1)] /\ pc' = "json"
  /\ UNCHANGED <<state, entry, temp, json, reached, aside, kills, dark>>

WriteSidecar ==
  /\ pc = "json"
  /\ json' = [json EXCEPT ![Path] = Unflushed(reached + 1)] /\ pc' = "cycle"
  /\ reached' = reached + 1 /\ aside' = aside \cup {reached + 1}
  /\ UNCHANGED <<state, entry, temp, eml, kills, dark>>

Restart == pc' = "cycle" /\ reached' = state'.seen /\ temp' = NoFile

\* Mutant: the error is logged and the message counted as handled.
QuarantineFailsQuietly ==
  /\ pc \in {"eml", "json"} /\ pc' = "cycle"
  /\ reached' = reached + 1 /\ aside' = aside \cup {reached + 1}
  /\ UNCHANGED <<disks, kills, dark>>
\* A directory or file could not be made or written: the account's cycle ends without saving its state.
QuarantineFails ==
  /\ pc \in {"eml", "json"} \/ (pc = "cycle" /\ reached < Len(Ids))
  /\ UNCHANGED state /\ Restart
  /\ UNCHANGED <<entry, eml, json, aside, kills, dark>>

-----------------------------------------------------------------------------
(* Store.Save *)

CreateTemp ==
  /\ pc = "cycle" /\ reached > state.seen /\ ValidAccount(Account)
  /\ temp' = Unflushed(Torn) /\ pc' = "temp"
  /\ UNCHANGED <<state, entry, eml, json, reached, aside, kills, dark>>

\* Mutant: no fsync before the rename.
WriteUnsynced ==
  /\ pc = "temp"
  /\ temp' = Unflushed(reached) /\ pc' = "rename"
  /\ UNCHANGED <<state, entry, eml, json, reached, aside, kills, dark>>
WriteAndSync ==
  /\ pc = "temp"
  /\ temp' = Whole(reached) /\ pc' = "rename"
  /\ UNCHANGED <<state, entry, eml, json, reached, aside, kills, dark>>

Rename ==
  /\ pc = "rename"
  /\ state' = temp /\ entry' = entry \cup temp.disk /\ temp' = NoFile /\ pc' = "dirsync"
  /\ UNCHANGED <<eml, json, reached, aside, kills, dark>>

\* Best effort.
SyncDir ==
  /\ pc = "dirsync" /\ pc' = "cycle"
  /\ entry' \in {entry, state.disk}
  /\ UNCHANGED <<state, temp, eml, json, reached, aside, kills, dark>>

\* A create, write, chmod, close or rename failed: the temporary file is removed.
SaveFails ==
  /\ pc \in {"temp", "rename"} \/ (pc = "cycle" /\ reached > state.seen)
  /\ UNCHANGED state /\ Restart
  /\ UNCHANGED <<entry, eml, json, aside, kills, dark>>

-----------------------------------------------------------------------------
(* Kills, power losses, and Load in the next process *)

Kill ==
  /\ kills < MaxKills /\ kills' = kills + 1
  /\ UNCHANGED state /\ Restart
  /\ UNCHANGED <<entry, eml, json, aside, dark>>

PowerLoss ==
  /\ kills < MaxKills /\ kills' = kills + 1 /\ dark' = TRUE
  /\ \E c \in entry : state' = Whole(c) /\ entry' = {c}
  /\ eml' \in [QuarantinePaths -> {Whole(v) : v \in {Missing, Torn} \cup DOMAIN Ids}]
  /\ \A p \in QuarantinePaths : eml'[p].seen \in {Missing} \cup eml[p].disk
  /\ json' = [p \in QuarantinePaths |-> NoFile]
  /\ Restart
  /\ UNCHANGED <<aside>>

Init ==
  /\ state = Whole(0) /\ entry = {0} /\ temp = NoFile
  /\ eml = [p \in QuarantinePaths |-> NoFile] /\ json = eml
  /\ pc = "cycle" /\ reached = 0 /\ aside = {} /\ kills = 0 /\ dark = FALSE

Next ==
  \/ Deliver \/ OpenEml \/ WriteEml \/ WriteSidecar \/ QuarantineFails
  \/ CreateTemp \/ WriteAndSync \/ Rename \/ SyncDir \/ SaveFails
  \/ Kill \/ PowerLoss

Spec == Init /\ [][Next]_storeVars

-----------------------------------------------------------------------------
(* Properties *)

\* The state file is never a mixture, whenever the process dies or the power fails:
\* a reader finds a cursor that was saved, and a power loss goes back to one.
File == INSTANCE Register WITH
  Values <- 0 .. Len(Ids), First <- 0, value <- state.seen, may <- entry
StateIsARegister == File!Spec

\* However often the process is killed between two writes, a message the saved
\* cursor has passed without delivering it is whole in its quarantine file, with
\* its sidecar: of ids that share no path, and short of a power loss.
Distinct == Cardinality(QuarantinePaths) = Len(Ids)
CoveredIsKept ==
  Distinct /\ ~dark => \A n \in aside : n <= state.seen =>
    LET p == QuarantinePath(Ids[n]) IN eml[p].seen = n /\ json[p].seen = n
=============================================================================
