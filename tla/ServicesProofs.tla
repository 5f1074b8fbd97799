---------------------------- MODULE ServicesProofs ----------------------------
(***************************************************************************)
(* Proofs about Storage, for any sequence of message ids and any number of *)
(* kills and power losses, about Credentials, and about Archive.  The      *)
(* three share nothing: S and C are instances with variables of their own. *)
(*                                                                         *)
(* Storage.  The cursor in the state is never ahead of the cycle, so a     *)
(* message that is put aside again is one that the cursor has not passed:  *)
(* its copy may be cut short (Copies).  What is renamed into place has     *)
(* been written and flushed (Disk), and so the state file is a register.   *)
(*                                                                         *)
(* Credentials.  Whatever a cycle and its workers hold was issued under    *)
(* the grant that was in the file when the cycle began (Held); so as long  *)
(* as `auth` does not save another one meanwhile, nothing but a token of   *)
(* that grant can get into the file.                                       *)
(*                                                                         *)
(* Archive.  A record was parsed from some file at its path, and from the  *)
(* one that is there if they have one stamp (Entry); so the walk has found *)
(* each file behind it that nobody touched, once and as it is (Found).     *)
(* What the tools do with the answer follows from what it is: a record for *)
(* each message once (Holds), newest first (AnswerNumbers).                *)
(***************************************************************************)
EXTENDS Archive, Services, Integers, SequenceTheorems, FiniteSetTheorems, WellFoundedInduction, TLAPS

-----------------------------------------------------------------------------
(* What a cycle leaves on disk *)

\* An id is a sequence of characters, or of runs of them.
IdSequence == Ids \in Seq(Seq(STRING))

Files == [seen : Int, disk : SUBSET Int]
Total == Len(Ids)

Disk ==
  /\ reached \in 0 .. Total /\ entry \subseteq 0 .. Total
  /\ state = S!Whole(state.seen) /\ state.seen \in 0 .. reached
  /\ pc \in {"eml", "json"} => reached < Total
  /\ pc = "rename" => temp = S!Whole(reached)

\* A message is in both files of its path,
PathOf(n) == S!QuarantinePath(Ids[n])
CopyTypes ==
  /\ eml \in [S!QuarantinePaths -> Files] /\ json \in [S!QuarantinePaths -> Files]
  /\ aside \subseteq 1 .. Total
Begun  == pc = "json" => eml[PathOf(reached + 1)].seen = reached + 1
\* if it was put aside, and the cycle is past it.
Copies ==
  S!Distinct /\ ~dark => \A n \in aside : n <= reached =>
    eml[PathOf(n)].seen = n /\ json[PathOf(n)].seen = n

StorageInv == Disk /\ CopyTypes /\ Begun /\ Copies

\* A set of naturals has a least element.
LEMMA LeastNatural ==
  ASSUME NEW V \in SUBSET Nat, V # {}
  PROVE  \E n \in V : \A m \in V : n <= m
<1>1. PICK n \in V : \A m \in V : <<m, n>> \notin OpToRel(<, Nat)
  BY WFMin, NatLessThanWellFounded, Zenon
<1>2. \A m \in V : ~(m < n)
  BY <1>1 DEF OpToRel
<1> QED BY <1>2

\* Induction, with a set for the property.
LEMMA SetInduction ==
  ASSUME NEW T \in SUBSET Nat, 0 \in T, \A n \in T : n + 1 \in T
  PROVE  T = Nat
<1> SUFFICES ASSUME Nat \ T # {} PROVE FALSE
  OBVIOUS
<1>1. PICK n \in Nat \ T : \A m \in Nat \ T : n <= m
  BY LeastNatural
<1> QED BY <1>1, n - 1 \in Nat

LEMMA Numbers ==
  ASSUME IdSequence
  PROVE  Total \in Nat /\ DOMAIN Ids = 1 .. Total
BY DEF IdSequence, Total

LEMMA PathsAre ==
  ASSUME IdSequence, NEW n \in 1 .. Total
  PROVE  PathOf(n) \in S!QuarantinePaths
BY Numbers DEF PathOf, S!QuarantinePaths, S!ToSet

\* Ids that share no path: as many paths as ids.
LEMMA PathsApart ==
  ASSUME IdSequence, S!Distinct, NEW m \in 1 .. Total, NEW n \in 1 .. Total,
         PathOf(m) = PathOf(n)
  PROVE  m = n
<1> DEFINE f == [i \in 1 .. Total |-> PathOf(i)]
<1>1. Total \in Nat /\ DOMAIN Ids = 1 .. Total
  BY Numbers
<1>2. f \in Surjection(1 .. Total, S!QuarantinePaths)
  BY <1>1 DEF PathOf, Surjection, S!QuarantinePaths, S!ToSet
<1>3. IsFiniteSet(1 .. Total) /\ Cardinality(1 .. Total) = Total
  BY <1>1, FS_Interval
<1>4. Cardinality(1 .. Total) = Cardinality(S!QuarantinePaths)
  <2>1. S!Cardinality(S!QuarantinePaths) = Cardinality(S!QuarantinePaths)
    BY DEF S!Cardinality, Cardinality
  <2> QED BY <1>3, <2>1 DEF S!Distinct, Total
<1>5. f \in Injection(1 .. Total, S!QuarantinePaths)
  <2> HIDE DEF f
  <2> QED BY <1>2, <1>3, <1>4, FS_SurjSameCardinalityImpliesInj
<1> QED BY <1>5 DEF Injection, IsInjective

\* Files are files.
LEMMA FileTypes ==
  /\ \A v \in Int : S!Whole(v) \in Files /\ S!Unflushed(v) \in Files
  /\ S!NoFile \in Files
BY DEF S!Whole, S!Unflushed, S!NoFile, S!Missing, S!Torn, Files

LEMMA WholeIs == \A v : S!Whole(v).seen = v /\ S!Whole(v).disk = {v}
BY DEF S!Whole

-----------------------------------------------------------------------------
LEMMA StorageStart ==
  ASSUME IdSequence, S!Init
  PROVE  StorageInv
<1>1. Disk
  BY Numbers, WholeIs DEF S!Init, Disk
<1>2. CopyTypes /\ Begun /\ Copies
  BY FileTypes DEF S!Init, CopyTypes, Begun, Copies
<1> QED BY <1>1, <1>2 DEF StorageInv

LEMMA StorageFacts ==
  ASSUME IdSequence, StorageInv
  PROVE  /\ Total \in Nat /\ reached \in 0 .. Total /\ state.seen \in 0 .. reached /\ entry \subseteq 0 .. Total
         /\ eml \in [S!QuarantinePaths -> Files] /\ json \in [S!QuarantinePaths -> Files] /\ aside \subseteq 1 .. Total
BY Numbers DEF StorageInv, Disk, CopyTypes

\* The cycle begins anew where the state says.
LEMMA RestartKeeps ==
  ASSUME IdSequence, StorageInv, S!Restart, UNCHANGED <<state, entry, eml, json, aside, dark>>
  PROVE  StorageInv'
<1>1. Disk'
  BY StorageFacts DEF StorageInv, Disk, S!Restart
<1>2. CopyTypes' /\ Begun'
  BY DEF StorageInv, CopyTypes, Begun, S!Restart
<1>3. \A n \in aside : n <= reached' => n <= reached
  BY StorageFacts DEF S!Restart
<1>4. Copies'
  BY <1>3 DEF StorageInv, Copies, PathOf, S!Distinct, S!QuarantinePaths, S!Restart
<1> QED BY <1>1, <1>2, <1>4 DEF StorageInv

\* A message is delivered, or both its files are written: what is written over has
\* not been passed yet.
LEMMA CopyKeeps ==
  ASSUME IdSequence, StorageInv,
         S!Deliver \/ S!OpenEml \/ S!WriteEml \/ S!WriteSidecar
  PROVE  StorageInv' /\ UNCHANGED <<state, entry>>
<1>1. reached < Total
  BY DEF StorageInv, Disk, S!Deliver, S!OpenEml, S!WriteEml, S!WriteSidecar, Total
<1>2. UNCHANGED <<state, entry>>
  BY DEF S!Deliver, S!OpenEml, S!WriteEml, S!WriteSidecar, S!disks
<1>3. Disk'
  BY StorageFacts, <1>1, <1>2 DEF StorageInv, Disk, S!Deliver, S!OpenEml, S!WriteEml, S!WriteSidecar
<1> DEFINE here == PathOf(reached + 1)
           half == S!Unflushed(S!Torn)
           copy == S!Unflushed(reached + 1)
<1>4. reached + 1 \in 1 .. Total /\ here \in S!QuarantinePaths
  BY StorageFacts, <1>1, PathsAre
<1>5. \A n \in aside : PathOf(n) \in S!QuarantinePaths /\ (S!Distinct /\ n # reached + 1 => PathOf(n) # here)
  BY StorageFacts, <1>4, PathsApart, PathsAre
<1>6. half \in Files /\ copy \in Files /\ copy.seen = reached + 1
  BY StorageFacts, FileTypes DEF S!Unflushed, S!Torn
<1>7. here = S!Path
  BY DEF PathOf, S!Path
<1>8. UNCHANGED <<Ids, S!Distinct>> /\ \A n : PathOf(n)' = PathOf(n)
  BY DEF PathOf, S!Distinct, S!QuarantinePaths
<1> HIDE DEF here, half, copy
<1>9. CASE S!Deliver
  <2>1. CopyTypes' /\ Begun'
    BY <1>9, StorageFacts DEF StorageInv, CopyTypes, Begun, S!Deliver, S!disks
  <2>2. Copies'
    BY <1>8, <1>9, StorageFacts DEF StorageInv, Copies, S!Deliver, S!disks
  <2> QED BY <1>2, <1>3, <2>1, <2>2 DEF StorageInv
<1>10. CASE S!OpenEml
  <2>1. eml' = [eml EXCEPT ![here] = half] /\ pc' = "eml" /\ UNCHANGED <<json, reached, aside, dark>>
    BY <1>7, <1>10 DEF S!OpenEml, half
  <2>2. CopyTypes' /\ Begun'
    BY <1>4, <1>6, <2>1, StorageFacts DEF CopyTypes, Begun
  <2>3. Copies'
    BY <1>4, <1>5, <1>8, <2>1, StorageFacts DEF StorageInv, Copies
  <2> QED BY <1>2, <1>3, <2>2, <2>3 DEF StorageInv
<1>11. CASE S!WriteEml
  <2>1. eml' = [eml EXCEPT ![here] = copy] /\ pc' = "json" /\ UNCHANGED <<json, reached, aside, dark>>
    BY <1>7, <1>11 DEF S!WriteEml, copy
  <2>2. CopyTypes' /\ Begun'
    BY <1>4, <1>6, <1>8, <2>1, StorageFacts DEF CopyTypes, Begun, here
  <2>3. Copies'
    BY <1>4, <1>5, <1>8, <2>1, StorageFacts DEF StorageInv, Copies
  <2> QED BY <1>2, <1>3, <2>2, <2>3 DEF StorageInv
<1>12. CASE S!WriteSidecar
  <2>1. /\ json' = [json EXCEPT ![here] = copy] /\ pc = "json" /\ pc' = "cycle" /\ UNCHANGED <<eml, dark>>
        /\ reached' = reached + 1 /\ aside' = aside \cup {reached + 1}
    BY <1>7, <1>12 DEF S!WriteSidecar, copy
  <2>2. CopyTypes' /\ Begun'
    BY <1>4, <1>6, <2>1, StorageFacts DEF CopyTypes, Begun
  <2>3. json'[here].seen = reached + 1 /\ eml'[here].seen = reached + 1
    BY <1>4, <1>6, <2>1, StorageFacts DEF StorageInv, Begun, here
  <2>4. \A n \in aside : n <= reached + 1 /\ n # reached + 1 => n <= reached
    BY StorageFacts
  <2>5. Copies'
    BY <1>4, <1>5, <1>8, <2>1, <2>3, <2>4, StorageFacts DEF StorageInv, Copies, here
  <2> QED BY <1>2, <1>3, <2>2, <2>5 DEF StorageInv
<1> QED BY <1>2, <1>9, <1>10, <1>11, <1>12

\* The save, up to the rename, and a save or a quarantine that fails.
LEMMA SaveKeeps ==
  ASSUME IdSequence, StorageInv,
         S!CreateTemp \/ S!WriteAndSync \/ S!SaveFails \/ S!QuarantineFails \/ S!Kill
  PROVE  StorageInv' /\ UNCHANGED <<state, entry>>
<1>1. CASE S!CreateTemp \/ S!WriteAndSync
  <2>1. UNCHANGED <<state, entry, eml, json, reached, aside, dark>> /\ pc' \in {"temp", "rename"}
        /\ (pc' = "rename" => temp' = S!Whole(reached))
    BY <1>1 DEF S!CreateTemp, S!WriteAndSync
  <2>2. Disk'
    BY <2>1 DEF StorageInv, Disk
  <2>3. CopyTypes' /\ Begun' /\ Copies'
    BY <2>1 DEF StorageInv, CopyTypes, Begun, Copies, PathOf, S!Distinct, S!QuarantinePaths
  <2> QED BY <2>1, <2>2, <2>3 DEF StorageInv
<1>2. CASE S!SaveFails \/ S!QuarantineFails \/ S!Kill
  BY <1>2, RestartKeeps DEF S!SaveFails, S!QuarantineFails, S!Kill
<1> QED BY <1>1, <1>2

\* The rename puts a flushed file under the name, and the directory is flushed.
LEMMA RenameKeeps ==
  ASSUME IdSequence, StorageInv, S!Rename \/ S!SyncDir
  PROVE  StorageInv' /\ (S!File!Next \/ UNCHANGED <<state.seen, entry>>)
<1>1. UNCHANGED <<eml, json, reached, aside, dark>> /\ pc' \in {"dirsync", "cycle"}
  BY DEF S!Rename, S!SyncDir
<1>2. CopyTypes' /\ Begun' /\ Copies'
  BY <1>1 DEF StorageInv, CopyTypes, Begun, Copies, PathOf, S!Distinct, S!QuarantinePaths
<1>3. CASE S!Rename
  <2>1. state' = S!Whole(reached) /\ entry' = entry \cup {reached}
    BY <1>3, WholeIs DEF StorageInv, Disk, S!Rename
  <2>2. Disk'
    BY <1>1, <2>1, WholeIs, StorageFacts DEF Disk
  <2>3. S!File!Write(reached) /\ reached \in 0 .. Len(Ids)
    BY <2>1, WholeIs, StorageFacts DEF S!File!Write, Total
  <2> QED BY <1>2, <2>2, <2>3 DEF StorageInv, S!File!Next
<1>4. CASE S!SyncDir
  <2>1. state' = state /\ entry' \in {entry, {state.seen}}
    BY <1>4, WholeIs DEF StorageInv, Disk, S!SyncDir
  <2>2. Disk'
    BY <1>1, <2>1, StorageFacts DEF StorageInv, Disk
  <2>3. S!File!Settle \/ UNCHANGED <<state.seen, entry>>
    BY <2>1 DEF S!File!Settle
  <2> QED BY <1>2, <2>2, <2>3 DEF StorageInv, S!File!Next
<1> QED BY <1>3, <1>4

\* A power loss leaves a state that was saved, and any quarantine files.
LEMMA PowerLossKeeps ==
  ASSUME IdSequence, StorageInv, S!PowerLoss
  PROVE  StorageInv' /\ S!File!Next
<1>1. PICK c \in entry : state' = S!Whole(c) /\ entry' = {c}
  BY DEF S!PowerLoss
<1>2. dark' /\ pc' = "cycle" /\ reached' = c /\ UNCHANGED aside
  BY <1>1, WholeIs DEF S!PowerLoss, S!Restart
<1>3. Disk'
  BY <1>1, <1>2, WholeIs, StorageFacts DEF Disk
<1>4. eml' \in [S!QuarantinePaths -> Files] /\ json' \in [S!QuarantinePaths -> Files]
  <2>1. \A v \in {S!Missing, S!Torn} \cup DOMAIN Ids : S!Whole(v) \in Files
    BY FileTypes, Numbers DEF S!Missing, S!Torn
  <2> QED BY <2>1, FileTypes DEF S!PowerLoss
<1>5. CopyTypes' /\ Begun' /\ Copies'
  BY <1>2, <1>4, StorageFacts DEF CopyTypes, Begun, Copies
<1>6. S!File!PowerLoss
  BY <1>1, WholeIs DEF S!File!PowerLoss
<1> QED BY <1>3, <1>5, <1>6 DEF StorageInv, S!File!Next

LEMMA StorageStep ==
  ASSUME IdSequence, StorageInv, [S!Next]_(S!storeVars)
  PROVE  StorageInv' /\ [S!File!Next]_<<state.seen, entry>>
<1>1. CASE UNCHANGED S!storeVars
  <2>1. UNCHANGED <<state, entry, temp, eml, json, pc, reached, aside, kills, dark>>
    BY <1>1 DEF S!storeVars, S!disks
  <2> QED BY <2>1 DEF StorageInv, Disk, CopyTypes, Begun, Copies, PathOf, S!Distinct, S!QuarantinePaths
<1>2. CASE S!Next
  BY <1>2, CopyKeeps, SaveKeeps, RenameKeeps, PowerLossKeeps DEF S!Next
<1> QED BY <1>1, <1>2

\* However the process is killed, between any two writes, a message that the saved
\* cursor has passed without delivering it is whole in the quarantine: the pipeline
\* writes both files (quarantine.go) before it lets the cursor past the message.
THEOREM QuarantineHolds == IdSequence => (S!Spec => []CoveredIsKept)
<1> SUFFICES ASSUME IdSequence PROVE S!Spec => []CoveredIsKept
  OBVIOUS
<1>1. S!Init => StorageInv
  BY StorageStart
<1>2. StorageInv /\ [S!Next]_(S!storeVars) => StorageInv'
  BY StorageStep
<1>3. StorageInv => CoveredIsKept
  <2> SUFFICES ASSUME StorageInv PROVE CoveredIsKept
    OBVIOUS
  <2>1. \A n \in aside : n <= state.seen => n <= reached
    BY StorageFacts
  <2> QED BY <2>1 DEF StorageInv, Copies, PathOf, CoveredIsKept, S!CoveredIsKept
<1> QED BY <1>1, <1>2, <1>3, PTL DEF S!Spec

\* Store.Save writes a temporary file, flushes it and renames it: whatever dies in
\* between, a reader finds a cursor that was saved, and a power loss goes back to
\* one; the state file implements the abstract register.
THEOREM StateIsSafe == IdSequence => (S!Spec => StateIsARegister)
<1> SUFFICES ASSUME IdSequence PROVE S!Spec => StateIsARegister
  OBVIOUS
<1>1. S!Init => StorageInv /\ S!File!Init
  BY StorageStart, WholeIs DEF S!Init, S!File!Init
<1>2. StorageInv /\ [S!Next]_(S!storeVars) => StorageInv' /\ [S!File!Next]_<<state.seen, entry>>
  BY StorageStep
<1> QED BY <1>1, <1>2, PTL DEF S!Spec, StateIsARegister, S!StateIsARegister, S!File!Spec

-----------------------------------------------------------------------------
(* An account's credentials *)

Tokens == 1 .. Len(issued)
CallPlaces == {"start", "token", "persist", "send", "judge", "sleep", "done"}
Errors == Answers \cup {C!NoError, C!Cancelled, C!ClassifyRefreshError(400), C!ClassifyRefreshError(503)}
Calls == [pc : CallPlaces, attempt : Nat, token : Nat, error : Errors, late : Nat]
Auths == [pc : {"idle", "waiting", "exchange", "save"}, results : Seq(C!Redirects), token : Nat]

CredentialTypes ==
  /\ issued \in Seq(Nat) /\ file \in Tokens \cup {0}
  /\ on \in BOOLEAN /\ overlapped \in BOOLEAN
  /\ call \in [Workers -> Calls]
  /\ auth \in Auths
  /\ auth.pc = "save" => auth.token \in Tokens

\* What a cycle holds, which is nothing once it is over.
InHand ==
  /\ on => cur \in Tokens
  /\ \A w \in Workers : call[w].pc = "persist" => call[w].token \in Tokens
  /\ ~on => \A w \in Workers : call[w].pc = "done"

\* Tokens of the grant that auth saved last.
Held(t) == issued[t] = saved
Granted ==
  ~overlapped =>
    /\ file # 0 => Held(file)
    /\ on => Held(cur)
    /\ \A w \in Workers : call[w].pc = "persist" => Held(call[w].token)

\* An attempt begun after the cycle was cancelled is the call's last.
Late ==
  \A w \in Workers :
    /\ call[w].late <= 1
    /\ call[w].late = 1 => stopped /\ call[w].pc \notin {"start", "sleep"}

CredentialInv == CredentialTypes /\ InHand /\ Granted /\ Late

\* One of the grants is the newest.
LEMMA GreatestIn ==
  ASSUME NEW s \in Seq(Nat), s # <<>>
  PROVE  \E k \in 1 .. Len(s) : \A n \in 1 .. Len(s) : s[n] <= s[k]
<1> DEFINE Best(m) == \E k \in 1 .. m : \A n \in 1 .. m : s[n] <= s[k]
           T == {m \in Nat : m \in 1 .. Len(s) => Best(m)}
<1>1. \A n \in 1 .. Len(s) : s[n] \in Nat
  OBVIOUS
<1>2. 0 \in T
  OBVIOUS
<1>3. ASSUME NEW m \in T
      PROVE  m + 1 \in T
  <2>1. CASE m = 0
    <3>1. 1 \in 1 .. Len(s) => Best(1)
      BY <1>1
    <3> QED BY <2>1, <3>1
  <2>2. CASE m # 0 /\ m + 1 \in 1 .. Len(s)
    <3>1. m \in 1 .. Len(s) /\ m + 1 \in 1 .. Len(s)
      BY <2>2
    <3>2. PICK k \in 1 .. m : \A n \in 1 .. m : s[n] <= s[k]
      BY <3>1
    <3>3. \A n \in 1 .. m + 1 : n = m + 1 \/ n \in 1 .. m
      OBVIOUS
    <3>4. s[k] \in Nat /\ s[m + 1] \in Nat /\ \A n \in 1 .. m : s[n] \in Nat
      BY <1>1, <3>1
    <3>5. CASE s[k] <= s[m + 1]
      <4>1. \A n \in 1 .. m + 1 : s[n] <= s[m + 1]
        BY <3>2, <3>3, <3>4, <3>5
      <4> QED BY <3>1, <4>1
    <3>6. CASE s[m + 1] <= s[k]
      <4>1. \A n \in 1 .. m + 1 : s[n] <= s[k]
        BY <3>2, <3>3, <3>4, <3>6
      <4>2. k \in 1 .. m + 1
        OBVIOUS
      <4>3. Best(m + 1)
        BY <4>1, <4>2
      <4> QED BY <4>3
    <3>7. s[k] <= s[m + 1] \/ s[m + 1] <= s[k]
      BY <3>2, <3>4
    <3> QED BY <3>5, <3>6, <3>7
  <2> QED BY <2>1, <2>2
<1>4. T = Nat
  <2> HIDE DEF T
  <2>1. T \in SUBSET Nat
    BY DEF T
  <2> QED BY <1>2, <1>3, <2>1, SetInduction
<1>5. Len(s) \in T /\ Len(s) \in 1 .. Len(s)
  <2>1. Len(s) \in Nat /\ Len(s) \in 1 .. Len(s)
    OBVIOUS
  <2> HIDE DEF T
  <2> QED BY <1>4, <2>1
<1> QED BY <1>5

LEMMA GrantsAre ==
  ASSUME issued \in Seq(Nat)
  PROVE  C!Grants \in Nat
<1>1. CASE issued = <<>>
  BY <1>1 DEF C!Grants
<1>2. CASE issued # <<>>
  <2>1. PICK k \in 1 .. Len(issued) : \A n \in 1 .. Len(issued) : issued[n] <= issued[k]
    BY <1>2, GreatestIn
  <2>2. \E g \in {issued[n] : n \in DOMAIN issued} : \A n \in DOMAIN issued : issued[n] <= g
    <3>1. DOMAIN issued = 1 .. Len(issued) /\ issued[k] \in {issued[n] : n \in DOMAIN issued}
      OBVIOUS
    <3> QED BY <2>1, <3>1
  <2>3. C!Grants \in {issued[n] : n \in DOMAIN issued}
    BY <1>2, <2>2 DEF C!Grants
  <2> QED BY <2>3
<1> QED BY <1>1, <1>2

\* A new token leaves the old ones as they were.
LEMMA OneMore ==
  ASSUME issued \in Seq(Nat), NEW g \in Nat, issued' = Append(issued, g)
  PROVE  /\ issued' \in Seq(Nat) /\ Len(issued') = Len(issued) + 1
         /\ Tokens' = Tokens \cup {Len(issued')} /\ Len(issued') \in Nat
         /\ \A t \in Tokens : issued'[t] = issued[t]
         /\ issued'[Len(issued')] = g
<1>1. Len(issued) \in Nat /\ Len(issued') = Len(issued) + 1 /\ issued' \in Seq(Nat)
  OBVIOUS
<1>2. \A t \in 1 .. Len(issued) : issued'[t] = issued[t]
  OBVIOUS
<1>3. issued'[Len(issued) + 1] = g
  OBVIOUS
<1> QED BY <1>1, <1>2, <1>3 DEF Tokens

LEMMA Blanks ==
  /\ C!Idle \in Calls /\ C!Idle.pc = "done" /\ C!Idle.late = 0
  /\ C!AuthOver \in Auths /\ C!AuthOver.pc = "idle"
<1>1. C!NoError \in Errors
  BY DEF Errors
<1>2. C!Idle \in Calls /\ C!Idle.pc = "done" /\ C!Idle.late = 0
  BY <1>1 DEF C!Idle, C!None, Calls, CallPlaces
<1>3. <<>> \in Seq(C!Redirects)
  OBVIOUS
<1>4. C!AuthOver \in Auths /\ C!AuthOver.pc = "idle"
  BY <1>3 DEF C!AuthOver, C!None, Auths
<1> QED BY <1>2, <1>4

LEMMA CredentialStart ==
  ASSUME C!Init
  PROVE  CredentialInv
<1>1. CredentialTypes
  <2>1. issued \in Seq(Nat) /\ file = 0 /\ on = FALSE /\ overlapped = FALSE
    BY DEF C!Init, C!None
  <2>2. call \in [Workers -> Calls] /\ auth \in Auths /\ auth.pc # "save"
    BY Blanks DEF C!Init
  <2> QED BY <2>1, <2>2 DEF CredentialTypes
<1>2. InHand /\ Late
  BY Blanks DEF C!Init, InHand, Late
<1>3. Granted
  BY Blanks DEF C!Init, C!None, Granted
<1> QED BY <1>1, <1>2, <1>3 DEF CredentialInv

-----------------------------------------------------------------------------
\* A call goes somewhere else,
LEMMA GotoIs ==
  ASSUME CredentialTypes, NEW w \in Workers, NEW p \in CallPlaces, C!Goto(w, p)
  PROVE  /\ call' \in [Workers -> Calls]
         /\ \A v \in Workers \ {w} : call'[v] = call[v]
         /\ call'[w].pc = p /\ call'[w].token = call[w].token /\ call'[w].late = call[w].late
BY DEF CredentialTypes, Calls, C!Goto

\* fails,
LEMMA FailedIs ==
  ASSUME CredentialTypes, NEW w \in Workers, NEW e \in Errors, C!Failed(w, e)
  PROVE  /\ call' \in [Workers -> Calls]
         /\ \A v \in Workers \ {w} : call'[v] = call[v]
         /\ call'[w].pc = "judge" /\ call'[w].late = call[w].late
BY DEF CredentialTypes, Calls, CallPlaces, C!Failed

\* or is tried again.
LEMMA AttemptIs ==
  ASSUME CredentialTypes, NEW w \in Workers, C!Attempt(w)
  PROVE  /\ call' \in [Workers -> Calls]
         /\ \A v \in Workers \ {w} : call'[v] = call[v]
         /\ call'[w].pc = "token"
         /\ call'[w].late = IF stopped THEN call[w].late + 1 ELSE call[w].late
<1>1. call[w] \in Calls
  BY DEF CredentialTypes
<1>2. CASE stopped
  <2>1. call' = [call EXCEPT ![w].pc = "token", ![w].attempt = @ + 1, ![w].late = @ + 1]
    BY <1>2 DEF C!Attempt
  <2> QED BY <1>1, <1>2, <2>1 DEF CredentialTypes, Calls, CallPlaces
<1>3. CASE ~stopped
  <2>1. call' = [call EXCEPT ![w].pc = "token", ![w].attempt = @ + 1]
    BY <1>1, <1>3 DEF C!Attempt, Calls, CredentialTypes
  <2> QED BY <1>1, <1>3, <2>1 DEF CredentialTypes, Calls, CallPlaces
<1> QED BY <1>2, <1>3

\* Where nothing but one call moves, and it takes no token.
LEMMA OneCallMoves ==
  ASSUME CredentialInv, NEW w \in Workers, call[w].pc # "done",
         UNCHANGED <<issued, file, on, stopped, cur, auth, saved, overlapped>>,
         call' \in [Workers -> Calls], \A v \in Workers \ {w} : call'[v] = call[v],
         call'[w].pc # "persist",
         call'[w].late <= 1, call'[w].late = 1 => stopped /\ call'[w].pc \notin {"start", "sleep"}
  PROVE  CredentialInv'
<1>1. CredentialTypes'
  BY DEF CredentialInv, CredentialTypes, Tokens
<1>2. InHand' /\ Granted'
  BY DEF CredentialInv, InHand, Granted, Held, Tokens
<1>3. Late'
  BY DEF CredentialInv, Late
<1> QED BY <1>1, <1>2, <1>3 DEF CredentialInv

LEMMA CallKeeps ==
  ASSUME CredentialInv, NEW w \in Workers,
         C!StartCall(w) \/ C!Send(w) \/ C!CutShort(w) \/ C!Judge(w) \/ C!Sleep(w)
  PROVE  CredentialInv'
<1> USE DEF C!server, C!source, C!history
<1>0. /\ CredentialTypes /\ call[w] \in Calls /\ call[w].late \in Nat
      /\ call[w].late <= 1 /\ (call[w].late = 1 => stopped /\ call[w].pc \notin {"start", "sleep"})
  BY DEF CredentialInv, CredentialTypes, Calls, Late
<1>1. UNCHANGED <<issued, file, on, stopped, cur, auth, saved, overlapped>> /\ call[w].pc # "done"
  BY DEF C!StartCall, C!Send, C!CutShort, C!Asking, C!Judge, C!Sleep
<1>2. CASE C!Attempt(w) /\ call[w].pc \in {"start", "sleep"}
  BY <1>0, <1>1, <1>2, AttemptIs, OneCallMoves
<1>3. ASSUME NEW p \in CallPlaces \ {"start", "persist"}, C!Goto(w, p), p = "sleep" => ~stopped
      PROVE  CredentialInv'
  BY <1>0, <1>1, <1>3, GotoIs, OneCallMoves
<1>4. ASSUME NEW e \in Errors, C!Failed(w, e)
      PROVE  CredentialInv'
  BY <1>0, <1>1, <1>4, FailedIs, OneCallMoves
<1>5. CASE C!StartCall(w)
  BY <1>2, <1>3, <1>5 DEF C!StartCall, CallPlaces
<1>6. CASE C!Send(w)
  BY <1>3, <1>4, <1>6 DEF C!Send, CallPlaces, Errors
<1>7. CASE C!Judge(w)
  BY <1>3, <1>7 DEF C!Judge, CallPlaces
<1>8. CASE C!Sleep(w)
  BY <1>2, <1>3, <1>8 DEF C!Sleep, CallPlaces
<1>9. CASE C!CutShort(w)
  BY <1>4, <1>9 DEF C!CutShort, Errors
<1> QED BY <1>5, <1>6, <1>7, <1>8, <1>9

\* oauth2 hands out the token it holds, or refreshes it under the same grant.
LEMMA TokenKeeps ==
  ASSUME CredentialInv, NEW w \in Workers, C!HandOut(w) \/ C!Refresh(w)
  PROVE  CredentialInv'
<1> USE DEF C!server, C!source, C!history
<1>0. /\ CredentialTypes /\ call \in [Workers -> Calls] /\ call[w] \in Calls /\ call[w].late \in Nat
      /\ call[w].late <= 1 /\ (call[w].late = 1 => stopped)
  BY DEF CredentialInv, CredentialTypes, Calls, Late
<1>1. UNCHANGED <<file, on, stopped, auth, saved, overlapped>> /\ call[w].pc = "token"
  BY DEF C!HandOut, C!Refresh
<1>2. on /\ cur \in Tokens /\ issued \in Seq(Nat) /\ Len(issued) \in Nat
  BY <1>1 DEF CredentialInv, InHand, CredentialTypes
<1>3. ASSUME NEW e \in Errors, C!Failed(w, e), UNCHANGED <<issued, cur>>
      PROVE  CredentialInv'
  BY <1>0, <1>1, <1>3, FailedIs, OneCallMoves
<1>4. ASSUME cur' \in Nat, call' = [call EXCEPT ![w].pc = "persist", ![w].token = cur']
      PROVE  /\ call' \in [Workers -> Calls] /\ \A v \in Workers \ {w} : call'[v] = call[v]
             /\ call'[w].pc = "persist" /\ call'[w].token = cur' /\ call'[w].late = call[w].late
  BY <1>0, <1>4 DEF Calls, CallPlaces
<1>5. CASE /\ call' = [call EXCEPT ![w].pc = "persist", ![w].token = cur] /\ UNCHANGED <<issued, cur>>
  <2>1. cur' = cur /\ cur' \in Nat
    BY <1>2, <1>5 DEF Tokens
  <2>2. CredentialTypes'
    BY <1>0, <1>1, <1>4, <1>5, <2>1 DEF CredentialTypes, Tokens
  <2>3. InHand' /\ Granted'
    BY <1>1, <1>2, <1>4, <1>5, <2>1 DEF CredentialInv, InHand, Granted, Held, Tokens
  <2>4. Late'
    BY <1>0, <1>1, <1>4, <1>5, <2>1 DEF CredentialInv, Late
  <2> QED BY <2>2, <2>3, <2>4 DEF CredentialInv
<1>6. CASE /\ issued' = Append(issued, issued[cur]) /\ cur' = Len(issued')
           /\ call' = [call EXCEPT ![w].pc = "persist", ![w].token = cur']
  <2>1. issued[cur] \in Nat
    BY <1>2 DEF Tokens
  <2>2. /\ issued' \in Seq(Nat) /\ cur' \in Nat /\ Tokens' = Tokens \cup {cur'}
        /\ (\A t \in Tokens : issued'[t] = issued[t]) /\ issued'[cur'] = issued[cur]
    BY <1>2, <1>6, <2>1, OneMore
  <2>3. CredentialTypes'
    BY <1>0, <1>1, <1>4, <1>6, <2>2 DEF CredentialTypes
  <2>4. InHand'
    BY <1>1, <1>2, <1>4, <1>6, <2>2 DEF CredentialInv, InHand
  <2>5. \A t \in Tokens : Held(t)' <=> Held(t)
    BY <1>1, <2>2 DEF Held
  <2>6. Held(cur) <=> (issued'[cur'] = saved')
    BY <1>1, <2>2 DEF Held
  <2>7. Granted'
    <3> SUFFICES ASSUME ~overlapped PROVE Granted'
      BY <1>1 DEF Granted
    <3>1. (file # 0 => Held(file)) /\ Held(cur) /\ \A v \in Workers : call[v].pc = "persist" => Held(call[v].token)
      BY <1>2 DEF CredentialInv, Granted
    <3>2. Held(cur)'
      BY <2>6, <3>1 DEF Held
    <3>3. file' # 0 => Held(file)'
      BY <1>1, <2>2, <3>1 DEF Held, CredentialInv, CredentialTypes
    <3>4. \A v \in Workers : (call[v].pc = "persist")' => Held(call[v].token)'
      BY <1>1, <1>4, <1>6, <2>2, <3>1, <3>2 DEF Held, CredentialInv, InHand
    <3> QED BY <3>2, <3>3, <3>4 DEF Granted
  <2>8. Late'
    BY <1>0, <1>1, <1>4, <1>6, <2>2 DEF CredentialInv, Late
  <2> QED BY <2>3, <2>4, <2>7, <2>8 DEF CredentialInv
<1> QED BY <1>3, <1>5, <1>6 DEF C!HandOut, C!Refresh, Errors

\* persistingTokenSource: the token at hand gets into the file, or stays out of it.
LEMMA PersistKeeps ==
  ASSUME CredentialInv, NEW w \in Workers, C!Persist(w)
  PROVE  CredentialInv'
<1> USE DEF C!server, C!source, C!history
<1>1. /\ call[w].pc = "persist" /\ C!Goto(w, "send") /\ file' \in {file, call[w].token}
      /\ UNCHANGED <<issued, on, stopped, cur, auth, saved, overlapped>>
  BY DEF C!Persist
<1>2. CredentialTypes /\ call[w].token \in Tokens
  BY <1>1 DEF CredentialInv, InHand
<1>3. /\ call' \in [Workers -> Calls] /\ \A v \in Workers \ {w} : call'[v] = call[v]
      /\ call'[w].pc = "send" /\ call'[w].late = call[w].late
  BY <1>1, <1>2, GotoIs DEF CallPlaces
<1>4. CredentialTypes'
  BY <1>1, <1>2, <1>3 DEF CredentialTypes, Tokens
<1>5. InHand'
  BY <1>1, <1>3 DEF CredentialInv, InHand, Tokens
<1>6. Granted'
  BY <1>1, <1>3 DEF CredentialInv, Granted, Held
<1>7. Late'
  BY <1>1, <1>3 DEF CredentialInv, Late
<1> QED BY <1>4, <1>5, <1>6, <1>7 DEF CredentialInv

\* The beginning and the end of a cycle.
LEMMA CycleKeeps ==
  ASSUME CredentialInv, C!StartCycle \/ C!EndCycle \/ C!Crash \/ C!Cancel
  PROVE  CredentialInv'
<1> USE DEF C!server, C!source, C!history
<1>1. UNCHANGED <<issued, file, auth, saved, overlapped>> /\ on' \in BOOLEAN
  BY DEF CredentialInv, CredentialTypes, C!StartCycle, C!EndCycle, C!Crash, C!Cancel
<1>2. CASE C!StartCycle
  <2>1. [C!Idle EXCEPT !.pc = "start"] \in Calls
    BY Blanks DEF Calls, CallPlaces
  <2>2. [C!Idle EXCEPT !.pc = "start"].pc = "start" /\ [C!Idle EXCEPT !.pc = "start"].late = 0
    BY Blanks DEF Calls
  <2>3. call' \in [Workers -> Calls] /\ \A w \in Workers : call'[w].pc = "start" /\ call'[w].late = 0
    BY <1>2, <2>1, <2>2 DEF C!StartCycle
  <2>4. on' = TRUE /\ cur' = file /\ file # 0
    BY <1>2 DEF C!StartCycle, C!Loads, C!None
  <2>5. CredentialTypes' /\ InHand'
    BY <1>1, <2>3, <2>4 DEF CredentialInv, CredentialTypes, InHand, Tokens
  <2>6. Granted' /\ Late'
    BY <1>1, <2>3, <2>4 DEF CredentialInv, Granted, Held, Late
  <2> QED BY <2>5, <2>6 DEF CredentialInv
<1>3. CASE C!EndCycle
  <2>1. on' = FALSE /\ UNCHANGED <<stopped, cur, call>> /\ \A w \in Workers : call[w].pc = "done"
    BY <1>3 DEF C!EndCycle
  <2>2. CredentialTypes' /\ InHand'
    BY <1>1, <2>1 DEF CredentialInv, CredentialTypes, InHand, Tokens
  <2>3. Granted' /\ Late'
    BY <1>1, <2>1 DEF CredentialInv, Granted, Held, Late
  <2> QED BY <2>2, <2>3 DEF CredentialInv
<1>4. CASE C!Crash
  <2>1. on' = FALSE /\ call' \in [Workers -> Calls] /\ \A w \in Workers : call'[w].pc = "done" /\ call'[w].late = 0
    BY <1>4, Blanks DEF C!Crash
  <2>2. CredentialTypes' /\ InHand'
    BY <1>1, <2>1 DEF CredentialInv, CredentialTypes, InHand, Tokens
  <2>3. Granted' /\ Late'
    BY <1>1, <2>1 DEF CredentialInv, Granted, Held, Late
  <2> QED BY <2>2, <2>3 DEF CredentialInv
<1>5. CASE C!Cancel
  <2>1. stopped' /\ UNCHANGED <<on, cur, call>>
    BY <1>5 DEF C!Cancel
  <2>2. CredentialTypes' /\ InHand'
    BY <1>1, <2>1 DEF CredentialInv, CredentialTypes, InHand, Tokens
  <2>3. Granted' /\ Late'
    BY <1>1, <2>1 DEF CredentialInv, Granted, Held, Late
  <2> QED BY <2>2, <2>3 DEF CredentialInv
<1> QED BY <1>2, <1>3, <1>4, <1>5

\* The listener of `auth`, and what the server does to tokens and grants.
LEMMA ListenerKeeps ==
  ASSUME CredentialInv, C!Listen \/ C!Redirect \/ C!TakeResult \/ C!TimeOut \/ C!Interrupt \/ C!Expire \/ C!Revoke
  PROVE  CredentialInv'
<1> USE DEF C!server, C!source, C!history
<1>1. UNCHANGED <<issued, file, on, stopped, cur, call, saved, overlapped>>
  BY DEF C!Listen, C!Redirect, C!TakeResult, C!TimeOut, C!Interrupt, C!Expire, C!Revoke
<1>2. auth' \in Auths /\ (auth'.pc = "save" => auth.pc = "save" /\ auth'.token = auth.token)
  <2>1. auth \in Auths
    BY DEF CredentialInv, CredentialTypes
  <2>2. CASE C!Listen \/ C!TimeOut \/ C!Interrupt
    BY <2>2, Blanks DEF C!Listen, C!TimeOut, C!Interrupt, Auths
  <2>3. CASE C!Redirect
    <3>1. PICK r \in C!Redirects : auth' = [auth EXCEPT !.results = <<r>>]
      BY <2>3 DEF C!Redirect
    <3>2. <<r>> \in Seq(C!Redirects)
      OBVIOUS
    <3> QED BY <2>1, <3>1, <3>2 DEF Auths
  <2>4. CASE C!TakeResult
    <3>1. <<>> \in Seq(C!Redirects)
      OBVIOUS
    <3>2. auth' = [auth EXCEPT !.pc = "exchange", !.results = <<>>] \/ auth' = C!AuthOver
      BY <2>4 DEF C!TakeResult
    <3> QED BY <2>1, <3>1, <3>2, Blanks DEF Auths
  <2>5. CASE C!Expire \/ C!Revoke
    BY <2>1, <2>5 DEF C!Expire, C!Revoke
  <2> QED BY <2>2, <2>3, <2>4, <2>5
<1>3. CredentialTypes'
  BY <1>1, <1>2 DEF CredentialInv, CredentialTypes, Tokens
<1>4. InHand' /\ Granted' /\ Late'
  BY <1>1 DEF CredentialInv, InHand, Tokens, Granted, Held, Late
<1> QED BY <1>3, <1>4 DEF CredentialInv

\* `auth` buys a grant and saves it.
LEMMA ExchangeKeeps ==
  ASSUME CredentialInv, C!Exchange
  PROVE  CredentialInv'
<1> USE DEF C!server, C!source, C!history
<1>1. /\ issued' = Append(issued, C!Grants + 1) /\ auth' = [auth EXCEPT !.pc = "save", !.token = Len(issued')]
      /\ UNCHANGED <<file, on, stopped, cur, call, saved, overlapped>>
  BY DEF C!Exchange
<1>2. issued \in Seq(Nat) /\ auth \in Auths
  BY DEF CredentialInv, CredentialTypes
<1>3. C!Grants + 1 \in Nat
  BY <1>2, GrantsAre
<1>4. /\ issued' \in Seq(Nat) /\ Len(issued') \in Nat /\ Tokens' = Tokens \cup {Len(issued')}
      /\ \A t \in Tokens : issued'[t] = issued[t]
  BY <1>1, <1>2, <1>3, OneMore
<1>5. auth' \in Auths /\ auth'.token = Len(issued')
  BY <1>1, <1>2, <1>4 DEF Auths
<1>6. CredentialTypes'
  BY <1>1, <1>4, <1>5 DEF CredentialInv, CredentialTypes
<1>7. InHand' /\ Late'
  BY <1>1, <1>4 DEF CredentialInv, InHand, Late
<1>8. Granted'
  BY <1>1, <1>4 DEF CredentialInv, CredentialTypes, InHand, Granted, Held
<1> QED BY <1>6, <1>7, <1>8 DEF CredentialInv

LEMMA SaveTokenKeeps ==
  ASSUME CredentialInv, C!SaveToken
  PROVE  CredentialInv'
<1> USE DEF C!server, C!source, C!history
<1>1. /\ auth.pc = "save" /\ auth' = C!AuthOver /\ UNCHANGED <<issued, on, stopped, cur, call>>
      /\ \/ file' = auth.token /\ saved' = issued[auth.token] /\ overlapped' = on
         \/ UNCHANGED <<file, saved, overlapped>>
  BY DEF C!SaveToken
<1>2. CredentialTypes'
  BY <1>1, Blanks DEF CredentialInv, CredentialTypes, Tokens
<1>3. InHand' /\ Late'
  BY <1>1 DEF CredentialInv, InHand, Late, Tokens
<1>4. Granted'
  <2>1. CASE file' = auth.token /\ saved' = issued[auth.token] /\ overlapped' = on
    <3>1. ~on => \A w \in Workers : call'[w].pc # "persist"
      BY <1>1 DEF CredentialInv, InHand
    <3> QED BY <1>1, <2>1, <3>1 DEF Granted, Held
  <2>2. CASE UNCHANGED <<file, saved, overlapped>>
    BY <1>1, <2>2 DEF CredentialInv, Granted, Held
  <2> QED BY <1>1, <2>1, <2>2
<1> QED BY <1>2, <1>3, <1>4 DEF CredentialInv

LEMMA CredentialStep ==
  ASSUME CredentialInv, [C!Next]_(C!credVars)
  PROVE  CredentialInv'
<1>1. CASE UNCHANGED C!credVars
  <2>1. UNCHANGED <<issued, file, on, stopped, cur, call, auth, saved, overlapped>>
    BY <1>1 DEF C!credVars, C!server, C!source, C!history
  <2> QED BY <2>1 DEF CredentialInv, CredentialTypes, InHand, Granted, Held, Late, Tokens
<1>2. CASE C!Next
  BY <1>2, CallKeeps, TokenKeeps, PersistKeeps, CycleKeeps, ListenerKeeps, ExchangeKeeps, SaveTokenKeeps
     DEF C!Next, C!Proceed, C!Served
<1> QED BY <1>1, <1>2

\* However often cycles refresh the token, fail to save it or are killed, the token
\* file (token.go) holds a token of the grant that `auth` saved last, unless that
\* was saved into the middle of a cycle: for any number of workers and failures.
THEOREM GrantStays == C!Spec => []GrantKept
<1>1. C!Init => CredentialInv
  BY CredentialStart
<1>2. CredentialInv /\ [C!Next]_(C!credVars) => CredentialInv'
  BY CredentialStep
<1>3. CredentialInv => GrantKept
  BY DEF CredentialInv, Granted, Held, GrantKept, C!GrantKept, C!None
<1> QED BY <1>1, <1>2, <1>3, PTL DEF C!Spec

\* RetryValue (retry.go) begins at most one attempt after the cycle's context is
\* cancelled, however many it was still allowed: the safety half of CallsEnd.
THEOREM OneLateAttempt == C!Spec => [](\A w \in Workers : call[w].late <= 1)
<1>1. C!Init => CredentialInv
  BY CredentialStart
<1>2. CredentialInv /\ [C!Next]_(C!credVars) => CredentialInv'
  BY CredentialStep
<1>3. CredentialInv => \A w \in Workers : call[w].late <= 1
  BY DEF CredentialInv, Late
<1> QED BY <1>1, <1>2, <1>3, PTL DEF C!Spec

-----------------------------------------------------------------------------
(* Sequences of files *)

\* The loop of Those runs: the function that stands for it exists.
LEMMA ThoseUnfolds ==
  ASSUME NEW T, NEW s \in Seq(T), NEW V
  PROVE  \E kept :
           /\ kept = [i \in 0 .. Len(s) |->
                IF i = 0 THEN <<>> ELSE IF s[i] \in V THEN Append(kept[i - 1], s[i]) ELSE kept[i - 1]]
           /\ Those(s, V) = kept[Len(s)]
<1> DEFINE Grow(a, i) == IF s[i] \in V THEN Append(a, s[i]) ELSE a
           Runs(n, g) == g = [i \in 0 .. n |-> IF i = 0 THEN <<>> ELSE Grow(g[i - 1], i)]
           R == {n \in Nat : \E g : Runs(n, g)}
<1>1. 0 \in R
  <2> DEFINE g == [i \in 0 .. 0 |-> <<>>]
  <2>1. Runs(0, g)
    OBVIOUS
  <2> QED BY <2>1
<1>2. ASSUME NEW n \in R
      PROVE  n + 1 \in R
  <2>1. PICK g : Runs(n, g)
    OBVIOUS
  <2> DEFINE h == [i \in 0 .. n + 1 |-> IF i <= n THEN g[i] ELSE Grow(g[n], n + 1)]
  <2> HIDE DEF Grow
  <2>2. ASSUME NEW i \in 0 .. n + 1
        PROVE  h[i] = IF i = 0 THEN <<>> ELSE Grow(h[i - 1], i)
    <3>1. CASE i = n + 1
      BY <3>1
    <3>2. CASE i \in 0 .. n
      <4>1. h[i] = g[i] /\ (i # 0 => i - 1 \in 0 .. n /\ h[i - 1] = g[i - 1])
        BY <3>2
      <4>2. g[i] = IF i = 0 THEN <<>> ELSE Grow(g[i - 1], i)
        BY <2>1, <3>2
      <4> QED BY <4>1, <4>2
    <3> QED BY <3>1, <3>2
  <2>3. Runs(n + 1, h)
    BY <2>2
  <2> HIDE DEF Runs
  <2> QED BY <2>3
<1>3. R = Nat
  <2> HIDE DEF R
  <2>1. R \in SUBSET Nat
    BY DEF R
  <2> QED BY <1>1, <1>2, <2>1, SetInduction
<1>4. Len(s) \in R
  <2> HIDE DEF R
  <2> QED BY <1>3
<1> DEFINE kept == CHOOSE g : Runs(Len(s), g)
<1>5. Runs(Len(s), kept)
  BY <1>4
<1>6. Those(s, V) = kept[Len(s)]
  BY DEF Those
<1> HIDE DEF kept
<1> QED BY <1>5, <1>6

\* No element is in it twice.
Apart(s) == \A i, j \in DOMAIN s : s[i] = s[j] => i = j

\* Of the first n elements of s, those in V are in a, and nothing else is.
Selects(T, s, V, n, a) ==
  /\ a \in Seq(T)
  /\ \A i \in DOMAIN a : \E k \in 1 .. n : a[i] = s[k] /\ s[k] \in V
  /\ \A k \in 1 .. n : s[k] \in V => \E i \in DOMAIN a : a[i] = s[k]
  /\ Apart(s) => Apart(a)

\* They are in the order they had.
Ordered(s, n, a) == \A i, j \in DOMAIN a : i < j => \E k, l \in 1 .. n : k < l /\ a[i] = s[k] /\ a[j] = s[l]

LEMMA SelectsMore ==
  ASSUME NEW T, NEW s \in Seq(T), NEW V, NEW n \in Nat, n + 1 \in DOMAIN s, NEW a, Selects(T, s, V, n, a)
  PROVE  Selects(T, s, V, n + 1, IF s[n + 1] \in V THEN Append(a, s[n + 1]) ELSE a)
<1> USE DEF Selects
<1>0. s[n + 1] \in T /\ \A k \in 1 .. n : k \in DOMAIN s
  OBVIOUS
<1>1. CASE s[n + 1] \notin V
  <2>1. \A k \in 1 .. n + 1 : k = n + 1 \/ k \in 1 .. n
    OBVIOUS
  <2> QED BY <1>1, <2>1
<1>2. CASE s[n + 1] \in V
  <2> DEFINE b == Append(a, s[n + 1])
  <2>1. /\ b \in Seq(T) /\ Len(b) = Len(a) + 1 /\ b[Len(a) + 1] = s[n + 1]
        /\ \A i \in DOMAIN a : i \in DOMAIN b /\ b[i] = a[i]
        /\ \A i \in DOMAIN b : i \in DOMAIN a \/ i = Len(a) + 1
    BY <1>0, AppendProperties
  <2> HIDE DEF b
  <2>2. ASSUME NEW i \in DOMAIN b
        PROVE  \E k \in 1 .. n + 1 : b[i] = s[k] /\ s[k] \in V
    BY <1>2, <2>1
  <2>3. ASSUME NEW k \in 1 .. n + 1, s[k] \in V
        PROVE  \E i \in DOMAIN b : b[i] = s[k]
    <3>1. CASE k = n + 1
      BY <2>1, <3>1, Len(a) + 1 \in DOMAIN b
    <3>2. CASE k \in 1 .. n
      BY <2>1, <2>3, <3>2
    <3> QED BY <3>1, <3>2
  <2>4. ASSUME Apart(s)
        PROVE  Apart(b)
    <3>1. \A i \in DOMAIN a : a[i] # s[n + 1]
      BY <1>0, <2>4 DEF Apart
    <3>2. Apart(a)
      BY <2>4
    <3> QED BY <2>1, <3>1, <3>2 DEF Apart
  <2> QED BY <1>2, <2>1, <2>2, <2>3, <2>4 DEF b
<1> QED BY <1>1, <1>2

LEMMA OrderedMore ==
  ASSUME NEW T, NEW s \in Seq(T), NEW V, NEW n \in Nat, n + 1 \in DOMAIN s, NEW a, Selects(T, s, V, n, a), Ordered(s, n, a)
  PROVE  Ordered(s, n + 1, IF s[n + 1] \in V THEN Append(a, s[n + 1]) ELSE a)
<1>0. s[n + 1] \in T /\ a \in Seq(T) /\ (\A i \in DOMAIN a : \E k \in 1 .. n : a[i] = s[k])
      /\ (\A k \in 1 .. n : k \in 1 .. n + 1) /\ n + 1 \in 1 .. n + 1
  BY DEF Selects
<1>1. \A i, j \in DOMAIN a : i < j => \E k, l \in 1 .. n + 1 : k < l /\ a[i] = s[k] /\ a[j] = s[l]
  BY <1>0 DEF Ordered
<1> DEFINE b == Append(a, s[n + 1])
<1>2. /\ b[Len(a) + 1] = s[n + 1]
      /\ \A i \in DOMAIN a : b[i] = a[i]
      /\ \A i \in DOMAIN b : i \in DOMAIN a \/ i = Len(a) + 1
      /\ \A i, j \in DOMAIN b : i < j => i \in DOMAIN a
  BY <1>0, AppendProperties
<1> HIDE DEF b
<1>3. ASSUME NEW i \in DOMAIN b, NEW j \in DOMAIN b, i < j
      PROVE  \E k, l \in 1 .. n + 1 : k < l /\ b[i] = s[k] /\ b[j] = s[l]
  <2>1. i \in DOMAIN a /\ b[i] = a[i]
    BY <1>2, <1>3
  <2>2. CASE j \in DOMAIN a
    BY <1>1, <1>2, <1>3, <2>1, <2>2
  <2>3. CASE j = Len(a) + 1
    <3>1. PICK k \in 1 .. n : a[i] = s[k]
      BY <1>0, <2>1
    <3>2. k < n + 1 /\ k \in 1 .. n + 1 /\ n + 1 \in 1 .. n + 1
      OBVIOUS
    <3> QED BY <1>2, <2>1, <2>3, <3>1, <3>2
  <2> QED BY <1>2, <2>2, <2>3
<1> QED BY <1>1, <1>3 DEF Ordered, b

LEMMA ThoseFacts ==
  ASSUME NEW T, NEW s \in Seq(T), NEW V
  PROVE  /\ Those(s, V) \in Seq(T)
         /\ ToSet(Those(s, V)) = ToSet(s) \cap V
         /\ Apart(s) => Apart(Those(s, V))
         /\ \A i, j \in DOMAIN Those(s, V) :
              i < j => \E k, l \in DOMAIN s : k < l /\ Those(s, V)[i] = s[k] /\ Those(s, V)[j] = s[l]
<1>1. PICK kept :
        /\ kept = [i \in 0 .. Len(s) |->
             IF i = 0 THEN <<>> ELSE IF s[i] \in V THEN Append(kept[i - 1], s[i]) ELSE kept[i - 1]]
        /\ Those(s, V) = kept[Len(s)]
  BY ThoseUnfolds
<1>0. /\ kept[0] = <<>>
      /\ \A n \in Nat : n + 1 \in DOMAIN s => kept[n + 1] = IF s[n + 1] \in V THEN Append(kept[n], s[n + 1]) ELSE kept[n]
  <2>1. \A i \in 0 .. Len(s) : kept[i] = IF i = 0 THEN <<>> ELSE IF s[i] \in V THEN Append(kept[i - 1], s[i]) ELSE kept[i - 1]
    BY <1>1
  <2>2. kept[0] = <<>>
    BY <2>1
  <2>3. ASSUME NEW n \in Nat, n + 1 \in DOMAIN s
        PROVE  kept[n + 1] = IF s[n + 1] \in V THEN Append(kept[n], s[n + 1]) ELSE kept[n]
    <3>1. n + 1 \in 0 .. Len(s) /\ n + 1 # 0 /\ n + 1 - 1 = n
      BY <2>3
    <3> QED BY <2>1, <3>1
  <2> QED BY <2>2, <2>3
<1> DEFINE R == {n \in Nat : n \in 0 .. Len(s) => Selects(T, s, V, n, kept[n]) /\ Ordered(s, n, kept[n])}
<1>2. 0 \in R
  <2>1. Selects(T, s, V, 0, <<>>) /\ Ordered(s, 0, <<>>)
    BY <<>> \in Seq(T) DEF Selects, Apart, Ordered
  <2> QED BY <1>0, <2>1
<1>3. ASSUME NEW n \in R
      PROVE  n + 1 \in R
  <2> SUFFICES ASSUME n + 1 \in 0 .. Len(s) PROVE Selects(T, s, V, n + 1, kept[n + 1]) /\ Ordered(s, n + 1, kept[n + 1])
    OBVIOUS
  <2>1. n \in Nat /\ n + 1 \in DOMAIN s /\ Selects(T, s, V, n, kept[n]) /\ Ordered(s, n, kept[n])
    OBVIOUS
  <2> HIDE DEF R
  <2> QED BY <1>0, <2>1, SelectsMore, OrderedMore
<1>4. R = Nat
  <2> HIDE DEF R
  <2>1. R \in SUBSET Nat
    BY DEF R
  <2> QED BY <1>2, <1>3, <2>1, SetInduction
<1>5. Selects(T, s, V, Len(s), Those(s, V)) /\ Ordered(s, Len(s), Those(s, V))
  <2>1. Len(s) \in R
    <3> HIDE DEF R
    <3> QED BY <1>4
  <2>2. Selects(T, s, V, Len(s), kept[Len(s)]) /\ Ordered(s, Len(s), kept[Len(s)])
    BY <2>1
  <2> QED BY <1>1, <2>2
<1> DEFINE a == Those(s, V)
<1>6. a \in Seq(T) /\ (Apart(s) => Apart(a))
  BY <1>5 DEF Selects
<1> HIDE DEF a
<1>7. ToSet(a) = ToSet(s) \cap V
  <2>1. \A i \in DOMAIN a : \E k \in DOMAIN s : a[i] = s[k] /\ s[k] \in V
    BY <1>5 DEF Selects, a
  <2>2. \A k \in DOMAIN s : s[k] \in V => \E i \in DOMAIN a : a[i] = s[k]
    BY <1>5 DEF Selects, a
  <2> QED BY <2>1, <2>2 DEF ToSet
<1>8. \A i, j \in DOMAIN a : i < j => \E k, l \in DOMAIN s : k < l /\ a[i] = s[k] /\ a[j] = s[l]
  BY <1>5 DEF Ordered, a
<1> QED BY <1>6, <1>7, <1>8 DEF a

\* Two sequences that share nothing, one after the other.
LEMMA Joined ==
  ASSUME NEW T, NEW s \in Seq(T), NEW t \in Seq(T)
  PROVE  /\ s \o t \in Seq(T)
         /\ ToSet(s \o t) = ToSet(s) \cup ToSet(t)
         /\ Apart(s) /\ Apart(t) /\ ToSet(s) \cap ToSet(t) = {} => Apart(s \o t)
<1> DEFINE u == s \o t
<1>1. /\ u \in Seq(T) /\ Len(u) = Len(s) + Len(t)
      /\ \A i \in DOMAIN s : i \in DOMAIN u /\ u[i] = s[i]
      /\ \A i \in DOMAIN t : i + Len(s) \in DOMAIN u /\ u[i + Len(s)] = t[i]
      /\ \A i \in DOMAIN u : i \in DOMAIN s \/ (i - Len(s) \in DOMAIN t /\ u[i] = t[i - Len(s)])
  BY ConcatProperties
<1> HIDE DEF u
<1>2. ToSet(u) = ToSet(s) \cup ToSet(t)
  BY <1>1 DEF ToSet
<1>3. ASSUME Apart(s), Apart(t), ToSet(s) \cap ToSet(t) = {}
      PROVE  Apart(u)
  <2> SUFFICES ASSUME NEW i \in DOMAIN u, NEW j \in DOMAIN u, u[i] = u[j]
               PROVE  i = j
    BY DEF Apart
  <2>1. \A x, y : x \in DOMAIN s /\ y \in DOMAIN t => s[x] # t[y]
    BY <1>3 DEF ToSet
  <2>2. CASE i \in DOMAIN s /\ j \in DOMAIN s
    BY <1>1, <1>3, <2>2 DEF Apart
  <2>3. CASE i \notin DOMAIN s /\ j \notin DOMAIN s
    <3>1. i - Len(s) = j - Len(s)
      BY <1>1, <1>3, <2>3 DEF Apart
    <3> QED BY <1>1, <3>1
  <2> QED BY <1>1, <2>1, <2>2, <2>3
<1> QED BY <1>1, <1>2, <1>3 DEF u

-----------------------------------------------------------------------------
(* Paths, rules and records *)

\* No two rules walk over the same file.
DestsApart ==
  \A i, j \in DOMAIN Roots, p \in Paths : Within(Roots[i].real, p) /\ Within(Roots[j].real, p) => i = j

\* What a file at p is parsed to.
Reads(p, f) == ParseFile(p, Roots[RuleOf(p)], f)
Records == {Reads(p, f) : p \in Paths, f \in [mail : DOMAIN Mails, stamp : Nat]}

LEMMA FirstIs ==
  ASSUME NEW V \in SUBSET Paths, V # {}
  PROVE  First(V) \in V
<1>1. Places \in Seq(ToSet(Places)) /\ DOMAIN Places \subseteq Nat
  BY RootsAssumption
<1>2. \A p \in Paths : Position[p] \in Nat
  BY <1>1 DEF Position, Paths, ToSet
<1>3. PICK n \in {Position[p] : p \in V} : \A m \in {Position[p] : p \in V} : n <= m
  BY <1>2, {Position[p] : p \in V} \in SUBSET Nat, {Position[p] : p \in V} # {}, LeastNatural
<1>4. \E p \in V : \A q \in V : Position[p] <= Position[q]
  BY <1>3
<1> QED BY <1>4 DEF First

LEMMA RuleIs ==
  ASSUME DestsApart, NEW p \in Paths, NEW i \in DOMAIN Roots, Walked(Roots[i], p)
  PROVE  RuleOf(p) = i
<1>1. Within(Roots[i].real, p)
  BY DEF Walked
<1> QED BY <1>1 DEF DestsApart, RuleOf

LEMMA RecordIs ==
  ASSUME NEW p, NEW f
  PROVE  /\ Reads(p, f).path = p /\ Reads(p, f).stamp = f.stamp
         /\ Reads(p, f).format = p.ext
         /\ Key(Reads(p, f)) = <<Roots[RuleOf(p)].rule, p.id>>
         /\ \A x : LET r == [Reads(p, f) EXCEPT !.files = x] IN
              /\ r.files = x /\ r.format = Reads(p, f).format
              /\ r.id = Reads(p, f).id /\ r.date = Reads(p, f).date /\ r.source = Reads(p, f).source
<1> DEFINE r    == Roots[RuleOf(p)]
           mail == Mails[f.mail]
           read == IF p.ext = "md" THEN ReadMarkdown(mail, r) ELSE ReadEML(mail, r, f.stamp)
<1>1. Reads(p, f) = [path |-> p, format |-> p.ext, id |-> p.id, rule |-> r.rule, stamp |-> f.stamp,
      from |-> mail.from, words |-> mail.words, body |-> mail.body, account |-> read.account,
      date |-> read.date, thread |-> read.in.thread, source |-> read.in.source, files |-> <<>>]
  BY DEF Reads, ParseFile
<1> HIDE DEF r, mail, read
<1> QED BY <1>1 DEF Key, r

LEMMA NewRecordIs ==
  ASSUME NEW s \in Seq(Records), s # <<>>
  PROVE  /\ NewRecord(s).files \in Seq(Records)
         /\ ToSet(NewRecord(s).files) = ToSet(s)
         /\ Apart(s) => Apart(NewRecord(s).files)
         /\ (\E f \in ToSet(s) : f.format = "md") => NewRecord(s).format = "md"
         /\ \E f \in ToSet(s) : NewRecord(s).id = f.id /\ NewRecord(s).date = f.date /\ NewRecord(s).source = f.source
<1> DEFINE isMarkdown == {f \in ToSet(s) : f.format = "md"}
           first  == Those(s, isMarkdown)
           second == Those(s, ToSet(s) \ isMarkdown)
           ranked == first \o second
<1>1. /\ first \in Seq(Records) /\ ToSet(first) = isMarkdown /\ (Apart(s) => Apart(first))
      /\ second \in Seq(Records) /\ ToSet(second) = ToSet(s) \ isMarkdown /\ (Apart(s) => Apart(second))
  <2> HIDE DEF isMarkdown
  <2>1. isMarkdown \subseteq ToSet(s)
    BY DEF isMarkdown
  <2>2. /\ first \in Seq(Records) /\ ToSet(first) = ToSet(s) \cap isMarkdown
        /\ Apart(s) => Apart(first)
    BY ThoseFacts
  <2>3. /\ second \in Seq(Records) /\ ToSet(second) = ToSet(s) \cap (ToSet(s) \ isMarkdown)
        /\ Apart(s) => Apart(second)
    BY ThoseFacts
  <2> HIDE DEF first, second
  <2> QED BY <2>1, <2>2, <2>3
<1>2. NewRecord(s) = [ranked[1] EXCEPT !.files = ranked]
  BY DEF NewRecord
<1>3. /\ ranked \in Seq(Records) /\ ToSet(ranked) = ToSet(s)
      /\ Apart(s) => Apart(ranked)
  <2> HIDE DEF first, second
  <2>1. ToSet(first) \cup ToSet(second) = ToSet(s) /\ ToSet(first) \cap ToSet(second) = {}
    BY <1>1
  <2> QED BY <1>1, <2>1, Joined
<1>4. isMarkdown # {} => first # <<>> /\ ranked[1] = first[1] /\ first[1] \in isMarkdown
  <2> SUFFICES ASSUME isMarkdown # {}
               PROVE  first # <<>> /\ ranked[1] = first[1] /\ first[1] \in isMarkdown
    OBVIOUS
  <2> HIDE DEF isMarkdown, first, second
  <2>1. first # <<>>
    BY <1>1 DEF ToSet
  <2>2. 1 \in DOMAIN first
    BY <1>1, <2>1
  <2>3. ranked[1] = first[1]
    BY <1>1, <2>2, ConcatProperties
  <2> QED BY <1>1, <2>1, <2>2, <2>3 DEF ToSet
<1>5. ranked[1] \in Records /\ ranked[1] \in ToSet(s)
  <2> HIDE DEF first, second, ranked
  <2>1. ToSet(s) # {}
    BY DEF ToSet
  <2>2. ranked # <<>>
    BY <1>3, <2>1 DEF ToSet
  <2>3. 1 \in DOMAIN ranked /\ \A i \in DOMAIN ranked : ranked[i] \in Records
    BY <1>3, <2>2
  <2> QED BY <1>3, <2>3 DEF ToSet
<1>6. \A x : LET r == [ranked[1] EXCEPT !.files = x] IN
        r.files = x /\ r.format = ranked[1].format /\ r.id = ranked[1].id /\ r.date = ranked[1].date
        /\ r.source = ranked[1].source
  <2> HIDE DEF ranked
  <2>1. PICK p \in Paths, f \in [mail : DOMAIN Mails, stamp : Nat] : ranked[1] = Reads(p, f)
    BY <1>5 DEF Records
  <2> QED BY <2>1, RecordIs
<1>7. /\ NewRecord(s).files = ranked /\ NewRecord(s).format = ranked[1].format
      /\ NewRecord(s).id = ranked[1].id /\ NewRecord(s).date = ranked[1].date
      /\ NewRecord(s).source = ranked[1].source
  <2> HIDE DEF ranked
  <2> QED BY <1>2, <1>6
<1>8. (\E f \in ToSet(s) : f.format = "md") => ranked[1].format = "md"
  <2> HIDE DEF ranked, first
  <2> QED BY <1>4
<1> HIDE DEF ranked
<1> QED BY <1>3, <1>5, <1>7, <1>8

\* The files of one message.
Of(s, k) == Those(s, {f \in ToSet(s) : Key(f) = k})

LEMMA OfIs ==
  ASSUME NEW s \in Seq(Records), NEW k
  PROVE  Of(s, k) \in Seq(Records) /\ ToSet(Of(s, k)) = {f \in ToSet(s) : Key(f) = k} /\ (Apart(s) => Apart(Of(s, k)))
<1> DEFINE V == {f \in ToSet(s) : Key(f) = k}
<1>1. V \subseteq ToSet(s)
  OBVIOUS
<1> HIDE DEF V
<1>2. Of(s, k) = Those(s, V)
  BY DEF Of, V
<1>3. /\ Those(s, V) \in Seq(Records) /\ ToSet(Those(s, V)) = ToSet(s) \cap V
      /\ Apart(s) => Apart(Those(s, V))
  BY ThoseFacts
<1> QED BY <1>1, <1>2, <1>3 DEF V

\* The answer has a record for each message that was found, once.
LEMMA ArrangedIs ==
  ASSUME NEW s \in Seq(Records), NEW a \in Arranged(ByMessage(s))
  PROVE  /\ Apart(a)
         /\ a \in Seq(ByMessage(s))
         /\ \A i, j \in DOMAIN a : i < j => ~(a[j].date > a[i].date)
         /\ \A i \in DOMAIN a : \E l \in DOMAIN s : a[i] = NewRecord(Of(s, Key(s[l])))
         /\ \A l \in DOMAIN s : \E i \in DOMAIN a : a[i] = NewRecord(Of(s, Key(s[l])))
<1> DEFINE keys == {Key(s[i]) : i \in DOMAIN s}
           all  == {NewRecord(Of(s, k)) : k \in keys}
<1>1. ByMessage(s) = all
  BY DEF ByMessage, Of
<1>2. IsFiniteSet(all)
  <2> DEFINE record == [l \in DOMAIN s |-> NewRecord(Of(s, Key(s[l])))]
  <2>1. IsFiniteSet(DOMAIN s)
    BY FS_Interval
  <2>2. record \in Surjection(DOMAIN s, all)
    BY DEF Surjection
  <2> HIDE DEF record, all
  <2> QED BY <2>1, <2>2, FS_Surjection
<1> HIDE DEF all
<1>3. Cardinality(all) \in Nat
  BY <1>2, FS_CardinalityType
<1>4. /\ a \in [1 .. Cardinality(all) -> all] /\ ToSet(a) = all
      /\ \A j \in DOMAIN a : \A i \in 1 .. j - 1 : a[i] # a[j] /\ ~(a[j].date > a[i].date)
  BY <1>1 DEF Arranged, Newer
<1>5. Apart(a)
  <2>1. DOMAIN a = 1 .. Cardinality(all)
    BY <1>4
  <2>2. ASSUME NEW i \in DOMAIN a, NEW j \in DOMAIN a, a[i] = a[j]
        PROVE  i = j
    <3>1. i \in Nat /\ j \in Nat /\ i >= 1 /\ j >= 1
      BY <1>3, <2>1
    <3>2. ~(i < j) /\ ~(j < i)
      BY <1>4, <2>2, <3>1
    <3> QED BY <3>1, <3>2
  <2> QED BY <2>2 DEF Apart
<1>6. \A i \in DOMAIN a : a[i] \in all
  BY <1>4
<1>7. \A r \in all : \E i \in DOMAIN a : a[i] = r
  BY <1>4 DEF ToSet
<1>8. a \in Seq(all)
  BY <1>3, <1>4
<1>9. \A i, j \in DOMAIN a : i < j => ~(a[j].date > a[i].date)
  <2>1. DOMAIN a = 1 .. Cardinality(all)
    BY <1>4
  <2>2. \A i, j \in DOMAIN a : i < j => i \in 1 .. j - 1
    BY <1>3, <2>1
  <2> QED BY <1>4, <2>2
<1> QED BY <1>1, <1>5, <1>6, <1>7, <1>8, <1>9 DEF all

-----------------------------------------------------------------------------
(* The index *)

Renderings == [mail : DOMAIN Mails, stamp : 1 .. writes]
On(p) == disk[p] # NoFile /\ Parses(p, disk[p])

ArchiveTypes ==
  /\ writes \in Nat /\ touched \subseteq Paths
  /\ disk \in [Paths -> {NoFile} \cup Renderings]
  /\ exists \in [DOMAIN Roots -> BOOLEAN]

\* Who has been stated has not been read yet.
Walk ==
  /\ at \in {"idle", "walk", "done"}
  /\ at # "idle" => root \in DOMAIN Roots /\ names \subseteq Listing(root)
  /\ at = "done" => names = {} /\ root = Len(Roots)
  /\ stated # NoFile =>
       /\ at = "walk" /\ names # {} /\ stated.stamp \in 1 .. writes
       /\ First(names) \notin touched => stated = disk[First(names)]

\* A record is what some file was parsed to; one with the stamp of the file that
\* is there is of that file.
Entry(p, rec) ==
  \E f \in Renderings : Parses(p, f) /\ rec = Reads(p, f) /\ (f.stamp = disk[p].stamp => f = disk[p])
Entries(known) == \A p \in DOMAIN known : p \in Paths /\ Entry(p, known[p])

\* What the walk has behind it is found as it is, if nobody touched it.
Passed == {p \in Paths : \E i \in 1 .. root : p \in Listing(i) /\ (i = root => p \notin names)}
Found ==
  /\ found \in Seq(Records) /\ \A j \in DOMAIN found : found[j].path \in Passed
  /\ \A j, k \in DOMAIN found : found[j].path = found[k].path => j = k
  /\ \A p \in Passed \ touched :
       IF On(p) THEN \E j \in DOMAIN found : found[j] = Reads(p, disk[p])
       ELSE \A j \in DOMAIN found : found[j].path # p

ArchiveInv ==
  /\ ArchiveTypes /\ Walk /\ Entries(cache) /\ Entries(fresh)
  /\ at # "idle" => Found
  /\ at = "done" => answer \in Arranged(ByMessage(found))

LEMMA IndexStarts == Init => ArchiveInv
<1> SUFFICES ASSUME Init PROVE ArchiveInv
  OBVIOUS
<1> USE DEF Init
<1>1. ArchiveTypes
  BY DEF ArchiveTypes
<1>2. Walk
  BY DEF Walk
<1>3. Entries(cache) /\ Entries(fresh)
  BY DEF Entries
<1> QED BY <1>1, <1>2, <1>3 DEF ArchiveInv

LEMMA FileIs ==
  ASSUME ArchiveTypes, NEW p \in Paths, disk[p] # NoFile
  PROVE  disk[p] \in Renderings
BY DEF ArchiveTypes

\* The next file is one the walk has not passed.
LEMMA NextIs ==
  ASSUME DestsApart, Walk, at = "walk", names # {}
  PROVE  /\ First(names) \in Paths /\ First(names) \in names /\ First(names) \notin Passed
         /\ RuleOf(First(names)) = root
<1> DEFINE p == First(names)
<1>1. root \in DOMAIN Roots /\ names \subseteq Listing(root)
  BY DEF Walk
<1>2. \A i : Listing(i) \subseteq Paths /\ \A q \in Listing(i) : Walked(Roots[i], q)
  BY DEF Listing
<1>3. p \in names
  BY <1>1, <1>2, FirstIs
<1> HIDE DEF p
<1>4. p \in Paths /\ Walked(Roots[root], p)
  BY <1>1, <1>2, <1>3
<1>5. RuleOf(p) = root
  BY <1>1, <1>4, RuleIs
<1>6. ASSUME NEW i \in 1 .. root, p \in Listing(i)
      PROVE  i = root
  <2>1. DOMAIN Roots = 1 .. Len(Roots) /\ Len(Roots) \in Nat
    BY RootsAssumption
  <2>2. i \in DOMAIN Roots
    BY <1>1, <2>1
  <2>3. RuleOf(p) = i
    BY <1>2, <1>4, <1>6, <2>2, RuleIs
  <2> QED BY <1>5, <2>3
<1>7. p \notin Passed
  BY <1>3, <1>6 DEF Passed
<1> QED BY <1>3, <1>4, <1>5, <1>7 DEF p

\* When the walk has passed one more file, what it found is as it should be,
\* whether that file was kept
LEMMA KeptIsFound ==
  ASSUME Found, NEW p \in Paths, p \notin Passed, Passed' = Passed \cup {p}, UNCHANGED <<disk, touched>>,
         NEW f \in [mail : DOMAIN Mails, stamp : Nat], found' = Append(found, Reads(p, f)),
         p \notin touched => f = disk[p] /\ On(p)
  PROVE  Found'
<1> DEFINE rec == Reads(p, f)
<1>1. rec \in Records /\ rec.path = p
  BY RecordIs DEF Records
<1>2. found \in Seq(Records) /\ \A j \in DOMAIN found : found[j].path \in Passed /\ found[j].path # p
  BY DEF Found
<1>3. /\ found' \in Seq(Records) /\ Len(found') = Len(found) + 1 /\ found'[Len(found) + 1] = rec
      /\ \A j \in DOMAIN found : j \in DOMAIN found' /\ found'[j] = found[j]
      /\ \A j \in DOMAIN found' : j \in DOMAIN found \/ j = Len(found) + 1
  <2> HIDE DEF rec
  <2> QED BY <1>1, <1>2, AppendProperties DEF rec
<1>4. \A q : On(q)' = On(q)
  BY DEF On
<1>5. \A j \in DOMAIN found' : found'[j].path \in Passed'
  <2> HIDE DEF rec
  <2> QED BY <1>1, <1>2, <1>3
<1>6. \A j, k \in DOMAIN found' : found'[j].path = found'[k].path => j = k
  <2>1. \A j, k \in DOMAIN found : found[j].path = found[k].path => j = k
    BY DEF Found
  <2> HIDE DEF rec
  <2> QED BY <1>1, <1>2, <1>3, <2>1
<1>7. ASSUME NEW q \in Passed' \ touched'
      PROVE  IF On(q) THEN \E j \in DOMAIN found' : found'[j] = Reads(q, disk[q])
             ELSE \A j \in DOMAIN found' : found'[j].path # q
  <2>1. CASE q = p
    <3>1. On(q) /\ rec = Reads(q, disk[q]) /\ Len(found) + 1 \in DOMAIN found'
      BY <1>3, <2>1, q \notin touched
    <3> HIDE DEF rec
    <3> QED BY <1>3, <3>1
  <2>2. CASE q # p
    <3>1. q \in Passed \ touched
      BY <2>2
    <3>2. IF On(q) THEN \E j \in DOMAIN found : found[j] = Reads(q, disk[q])
          ELSE \A j \in DOMAIN found : found[j].path # q
      BY <3>1 DEF Found
    <3> HIDE DEF rec
    <3> QED BY <1>1, <1>3, <2>2, <3>2
  <2> QED BY <2>1, <2>2
<1> QED BY <1>3, <1>4, <1>5, <1>6, <1>7 DEF Found

\* or not.
LEMMA SkippedIsNotFound ==
  ASSUME Found, NEW p \in Paths, p \notin Passed, Passed' = Passed \cup {p}, UNCHANGED <<disk, touched, found>>,
         p \notin touched => ~On(p)
  PROVE  Found'
<1>1. \A q : On(q)' = On(q)
  BY DEF On
<1>2. found \in Seq(Records) /\ \A j \in DOMAIN found : found[j].path \in Passed /\ found[j].path # p
  BY DEF Found
<1>3. ASSUME NEW q \in Passed' \ touched'
      PROVE  IF On(q) THEN \E j \in DOMAIN found : found[j] = Reads(q, disk[q])
             ELSE \A j \in DOMAIN found : found[j].path # q
  BY <1>2 DEF Found
<1> QED BY <1>1, <1>2, <1>3 DEF Found

\* Where nothing moves but the walk, records stay true.
LEMMA WithEntry ==
  ASSUME NEW known, Entries(known), NEW p \in Paths, NEW rec, Entry(p, rec)
  PROVE  Entries(With(known, p, rec))
BY DEF Entries, With

LEMMA EntriesRest ==
  ASSUME NEW known, Entries(known), UNCHANGED <<disk, writes>>
  PROVE  \A p \in DOMAIN known : p \in Paths /\ Entry(p, known[p])'
BY DEF Entries, Entry, Renderings

\* Whoever writes or deletes a file leaves its old stamp to the past.
LEMMA PutKeepsInv ==
  ASSUME ArchiveInv, NEW p \in Paths, NEW f, Put(p, f),
         f = NoFile \/ (f \in [mail : DOMAIN Mails, stamp : Nat] /\ f.stamp = writes + 1)
  PROVE  ArchiveInv'
<1> USE DEF Put, walking
<1>1. /\ ArchiveTypes /\ Walk /\ Entries(cache) /\ Entries(fresh) /\ writes \in Nat
      /\ disk \in [Paths -> {NoFile} \cup Renderings]
  BY DEF ArchiveInv, ArchiveTypes
<1>2. writes' \in Nat /\ Renderings \subseteq Renderings' /\ (f = NoFile \/ f \in Renderings')
  BY <1>1 DEF Renderings
<1>3. /\ \A q \in Paths : q # p => disk'[q] = disk[q]
      /\ disk'[p] = f /\ f.stamp \notin 1 .. writes
  BY <1>1 DEF NoFile
<1>4. ArchiveTypes'
  BY <1>1, <1>2 DEF ArchiveTypes
<1>5. \A i : Listing(i)' = Listing(i)
  BY DEF Listing
<1>6. Walk'
  <2>1. ASSUME stated # NoFile
        PROVE  /\ at = "walk" /\ names # {} /\ stated.stamp \in 1 .. writes'
               /\ First(names) \notin touched' => stated = disk'[First(names)]
    <3>1. /\ at = "walk" /\ names # {} /\ stated.stamp \in 1 .. writes
          /\ First(names) \notin touched => stated = disk[First(names)]
      BY <1>1, <2>1 DEF Walk
    <3>2. First(names) \in Paths
      <4>1. names \subseteq Paths
        BY <1>1, <3>1 DEF Walk, Listing
      <4> QED BY <3>1, <4>1, FirstIs
    <3>3. First(names) \notin touched' => First(names) # p /\ First(names) \notin touched
      OBVIOUS
    <3> QED BY <1>1, <1>3, <3>1, <3>2, <3>3
  <2> QED BY <1>1, <1>5, <2>1 DEF Walk
<1>7. ASSUME NEW q \in Paths, NEW rec, Entry(q, rec)
      PROVE  \E g \in Renderings' : Parses(q, g) /\ rec = Reads(q, g) /\ (g.stamp = disk'[q].stamp => g = disk'[q])
  <2>1. PICK g \in Renderings : Parses(q, g) /\ rec = Reads(q, g) /\ (g.stamp = disk[q].stamp => g = disk[q])
    BY <1>7 DEF Entry
  <2>2. g.stamp \in 1 .. writes
    BY DEF Renderings
  <2> QED BY <1>2, <1>3, <2>1, <2>2
<1>8. Entries(cache)' /\ Entries(fresh)'
  <2>1. \A q \in Paths : \A rec : Entry(q, rec) => Entry(q, rec)'
    BY <1>7 DEF Entry
  <2>2. UNCHANGED <<cache, fresh>>
    OBVIOUS
  <2>3. /\ \A q \in DOMAIN cache : q \in Paths /\ Entry(q, cache[q])
        /\ \A q \in DOMAIN fresh : q \in Paths /\ Entry(q, fresh[q])
    BY <1>1 DEF Entries
  <2>4. /\ \A q \in DOMAIN cache : q \in Paths /\ Entry(q, cache[q])'
        /\ \A q \in DOMAIN fresh : q \in Paths /\ Entry(q, fresh[q])'
    BY <2>1, <2>2, <2>3
  <2> QED BY <2>2, <2>4 DEF Entries
<1>9. at # "idle" => Found'
  <2> SUFFICES ASSUME at # "idle" PROVE Found'
    OBVIOUS
  <2>1. Found
    BY DEF ArchiveInv
  <2>2. Passed' = Passed
    BY <1>5 DEF Passed
  <2>3. ASSUME NEW q \in Passed \ touched'
        PROVE  /\ On(q)' = On(q) /\ disk'[q] = disk[q]
               /\ IF On(q) THEN \E j \in DOMAIN found : found[j] = Reads(q, disk[q])
                  ELSE \A j \in DOMAIN found : found[j].path # q
    <3>1. q \in Passed \ touched /\ q # p /\ q \in Paths
      BY <2>3 DEF Passed
    <3> QED BY <1>3, <2>1, <3>1 DEF Found, On
  <2> QED BY <2>1, <2>2, <2>3 DEF Found
<1>10. at = "done" => answer \in Arranged(ByMessage(found))
  BY DEF ArchiveInv
<1> QED BY <1>4, <1>6, <1>8, <1>9, <1>10 DEF ArchiveInv

LEMMA IndexSteps == DestsApart /\ ArchiveInv /\ [Next]_archiveVars => ArchiveInv'
<1> SUFFICES ASSUME DestsApart, ArchiveInv, [Next]_archiveVars PROVE ArchiveInv'
  OBVIOUS
<1>0. /\ ArchiveTypes /\ Walk /\ Entries(cache) /\ Entries(fresh)
      /\ at # "idle" => Found
      /\ at = "done" => answer \in Arranged(ByMessage(found))
  BY DEF ArchiveInv
<1>r. DOMAIN Roots = 1 .. Len(Roots) /\ Len(Roots) \in Nat /\ 1 \in DOMAIN Roots
  BY RootsAssumption
<1>1. CASE StartIndex
  <2> USE <1>1 DEF StartIndex
  <2>1. ArchiveTypes'
    BY <1>0 DEF ArchiveTypes, Renderings
  <2>2. Walk'
    BY <1>0, <1>r DEF Walk, Listing
  <2>3. Entries(cache)' /\ Entries(fresh)'
    <3>1. \A p \in DOMAIN cache : p \in Paths /\ Entry(p, cache[p])'
      BY <1>0, EntriesRest
    <3> QED BY <3>1 DEF Entries, Entry
  <2>4. Found'
    <3>1. Passed' = {}
      BY DEF Passed, Listing
    <3>2. found' \in Seq(Records) /\ DOMAIN found' = {}
      OBVIOUS
    <3> QED BY <3>1, <3>2 DEF Found
  <2> QED BY <2>1, <2>2, <2>3, <2>4 DEF ArchiveInv
<1>2. CASE Visit
  <2> USE <1>2 DEF Visit, disks
  <2> DEFINE p == First(names)
  <2>0. /\ at = "walk" /\ names # {} /\ stated = NoFile /\ Found /\ at' = "walk"
        /\ UNCHANGED <<disk, writes, touched, exists, cache, root, answer>>
    BY <1>0
  <2>1. p \in Paths /\ p \in names /\ p \notin Passed /\ RuleOf(p) = root
    BY <1>0, <2>0, NextIs
  <2>2. ArchiveTypes'
    BY <1>0, <2>0 DEF ArchiveTypes, Renderings
  <2>3. Entries(cache)'
    <3>1. \A q \in DOMAIN cache : q \in Paths /\ Entry(q, cache[q])'
      BY <1>0, <2>0, EntriesRest
    <3> QED BY <2>0, <3>1 DEF Entries, Entry
  <2>4. names' = names \ {p} => Passed' = Passed \cup {p}
    <3>1. \A i : Listing(i)' = Listing(i)
      BY <2>0 DEF Listing
    <3>2. root \in 1 .. root /\ p \in Listing(root)
      BY <1>0, <1>r, <2>0, <2>1 DEF Walk
    <3> HIDE DEF p
    <3> QED BY <2>0, <2>1, <3>1, <3>2 DEF Passed
  <2>5. names' \subseteq Listing(root)' /\ root' \in DOMAIN Roots
    BY <1>0, <2>0 DEF Walk, Listing
  <2>6. CASE disk[p] # NoFile /\ Hit(p, disk[p]) /\ Keep(cache[p]) /\ names' = names \ {p} /\ stated' = stated
    <3>1. p \in DOMAIN cache /\ cache[p].stamp = disk[p].stamp
      BY <2>6 DEF Hit
    <3>2. PICK f \in Renderings : Parses(p, f) /\ cache[p] = Reads(p, f) /\ (f.stamp = disk[p].stamp => f = disk[p])
      BY <1>0, <3>1 DEF Entries, Entry
    <3>3. f = disk[p] /\ cache[p].path = p /\ On(p)
      <4>1. cache[p].stamp = f.stamp /\ cache[p].path = p
        BY <3>2, RecordIs
      <4> HIDE DEF p
      <4> QED BY <2>6, <3>1, <3>2, <4>1 DEF On
    <3>4. Walk'
      BY <1>0, <2>0, <2>5, <2>6 DEF Walk
    <3>5. Entries(fresh)'
      <4>1. Entry(p, cache[p])
        BY <1>0, <3>1 DEF Entries
      <4>2. Entries(With(fresh, p, cache[p]))
        BY <1>0, <2>1, <4>1, WithEntry
      <4>3. fresh' = With(fresh, p, cache[p])
        BY <2>6, <3>3 DEF Keep
      <4>4. Entries(fresh')
        BY <4>2, <4>3
      <4> QED BY <2>0, <4>4 DEF Entries, Entry, Renderings
    <3>6. Found'
      <4>1. f \in [mail : DOMAIN Mails, stamp : Nat] /\ found' = Append(found, Reads(p, f))
        BY <1>0, <2>6, <3>2 DEF Renderings, Keep, ArchiveTypes
      <4> QED BY <2>0, <2>1, <2>4, <2>6, <3>3, <4>1, KeptIsFound
    <3> QED BY <2>0, <2>2, <2>3, <3>4, <3>5, <3>6 DEF ArchiveInv
  <2>7. CASE disk[p] # NoFile /\ stated' = disk[p] /\ UNCHANGED <<names, fresh, found>>
    <3>1. disk[p].stamp \in 1 .. writes
      BY <1>0, <2>1, <2>7, FileIs DEF Renderings
    <3>2. Walk'
      BY <1>0, <2>0, <2>5, <2>7, <3>1 DEF Walk
    <3>3. Entries(fresh)'
      BY <1>0, <2>0, <2>7 DEF Entries, Entry, Renderings
    <3>4. Found'
      BY <2>0, <2>7 DEF Found, Passed, Listing, On
    <3> QED BY <2>0, <2>2, <2>3, <3>2, <3>3, <3>4 DEF ArchiveInv
  <2>8. CASE (disk[p] = NoFile \/ p \in touched) /\ names' = names \ {p} /\ UNCHANGED <<stated, fresh, found>>
    <3>1. Walk'
      BY <1>0, <2>0, <2>5, <2>8 DEF Walk
    <3>2. Entries(fresh)'
      BY <1>0, <2>0, <2>8 DEF Entries, Entry, Renderings
    <3>3. Found'
      <4>1. p \notin touched => ~On(p)
        BY <2>8 DEF On
      <4> QED BY <2>0, <2>1, <2>4, <2>8, <4>1, SkippedIsNotFound
    <3> QED BY <2>0, <2>2, <2>3, <3>1, <3>2, <3>3 DEF ArchiveInv
  <2> QED BY <2>6, <2>7, <2>8
<1>3. CASE Read
  <2> USE <1>3 DEF Read, disks
  <2> DEFINE p == First(names)
             f == [disk[p] EXCEPT !.stamp = stated.stamp]
  <2>0. /\ at = "walk" /\ stated # NoFile /\ names # {} /\ Found /\ at' = "walk" /\ stated' = NoFile
        /\ stated.stamp \in 1 .. writes /\ (p \notin touched => stated = disk[p])
        /\ names' = names \ {p} /\ UNCHANGED <<disk, writes, touched, exists, cache, root, answer>>
    BY <1>0 DEF Walk
  <2>1. p \in Paths /\ p \in names /\ p \notin Passed /\ RuleOf(p) = root
    BY <1>0, <2>0, NextIs
  <2>2. ArchiveTypes'
    BY <1>0, <2>0 DEF ArchiveTypes, Renderings
  <2>3. Entries(cache)'
    <3>1. \A q \in DOMAIN cache : q \in Paths /\ Entry(q, cache[q])'
      BY <1>0, <2>0, EntriesRest
    <3> QED BY <2>0, <3>1 DEF Entries, Entry
  <2>4. Passed' = Passed \cup {p}
    <3>1. \A i : Listing(i)' = Listing(i)
      BY <2>0 DEF Listing
    <3>2. root \in 1 .. root /\ p \in Listing(root)
      BY <1>0, <1>r, <2>0, <2>1 DEF Walk
    <3> HIDE DEF p
    <3> QED BY <2>0, <2>1, <3>1, <3>2 DEF Passed
  <2>5. Walk'
    BY <1>0, <2>0 DEF Walk, Listing
  <2>6. CASE On(p)
    <3>1. disk[p] \in Renderings
      BY <1>0, <2>1, <2>6, FileIs DEF On
    <3>2. /\ f \in Renderings /\ f.mail = disk[p].mail /\ f.stamp = stated.stamp
          /\ stated.stamp = disk[p].stamp => f = disk[p]
      <4> HIDE DEF p
      <4> QED BY <2>0, <3>1 DEF Renderings
    <3> HIDE DEF f
    <3>3. Parses(p, f)
      BY <2>6, <3>2 DEF On, Parses
    <3>4. Keep(Reads(p, f))
      BY <2>1, <2>6 DEF On, Reads, f
    <3>5. Reads(p, f).path = p
      BY RecordIs
    <3>6. Entries(fresh)'
      <4>1. Entry(p, Reads(p, f))
        BY <3>2, <3>3 DEF Entry
      <4>2. Entries(With(fresh, p, Reads(p, f)))
        BY <1>0, <2>1, <4>1, WithEntry
      <4>3. fresh' = With(fresh, p, Reads(p, f))
        BY <3>4, <3>5 DEF Keep
      <4>4. Entries(fresh')
        BY <4>2, <4>3
      <4> QED BY <2>0, <4>4 DEF Entries, Entry, Renderings
    <3>7. Found'
      <4>1. f \in [mail : DOMAIN Mails, stamp : Nat] /\ found' = Append(found, Reads(p, f))
        BY <1>0, <3>2, <3>4 DEF Renderings, Keep, ArchiveTypes
      <4>2. p \notin touched => f = disk[p] /\ On(p)
        BY <2>0, <2>6, <3>2
      <4> HIDE DEF p
      <4> QED BY <2>0, <2>1, <2>4, <4>1, <4>2, KeptIsFound
    <3> QED BY <2>0, <2>2, <2>3, <2>5, <3>6, <3>7 DEF ArchiveInv
  <2>7. CASE ~On(p)
    <3>1. UNCHANGED <<fresh, found>>
      BY <2>7 DEF On
    <3>2. Entries(fresh)'
      BY <1>0, <2>0, <3>1 DEF Entries, Entry, Renderings
    <3>3. Found'
      <4> HIDE DEF p
      <4> QED BY <2>0, <2>1, <2>4, <2>7, <3>1, SkippedIsNotFound
    <3> QED BY <2>0, <2>2, <2>3, <2>5, <3>2, <3>3 DEF ArchiveInv
  <2> QED BY <2>6, <2>7
<1>4. CASE NextRoot
  <2> USE <1>4 DEF NextRoot, disks
  <2>0. root \in DOMAIN Roots /\ root + 1 \in DOMAIN Roots /\ stated = NoFile /\ Found
    BY <1>0, <1>r DEF Walk
  <2>1. ArchiveTypes'
    BY <1>0 DEF ArchiveTypes, Renderings
  <2>2. Walk'
    BY <1>0, <2>0 DEF Walk, Listing
  <2>3. Entries(cache)' /\ Entries(fresh)'
    BY <1>0 DEF Entries, Entry, Renderings
  <2>4. Passed' = Passed
    <3>1. \A i : Listing(i)' = Listing(i)
      BY DEF Listing
    <3>2. ASSUME NEW q
          PROVE  (\E i \in 1 .. root + 1 : q \in Listing(i) /\ (i = root + 1 => q \notin Listing(root + 1)))
                 <=> \E i \in 1 .. root : q \in Listing(i)
      BY <1>r, <2>0
    <3> QED BY <3>1, <3>2 DEF Passed
  <2>5. Found'
    BY <2>0, <2>4 DEF Found, On
  <2> QED BY <2>1, <2>2, <2>3, <2>5 DEF ArchiveInv
<1>5. CASE FinishIndex
  <2> USE <1>5 DEF FinishIndex, disks
  <2>1. ArchiveTypes'
    BY <1>0 DEF ArchiveTypes, Renderings
  <2>2. Walk'
    BY <1>0 DEF Walk, Listing
  <2>3. Entries(cache)' /\ Entries(fresh)'
    BY <1>0 DEF Entries, Entry, Renderings
  <2>4. Found'
    BY <1>0 DEF Found, On, Passed, Listing
  <2> QED BY <2>1, <2>2, <2>3, <2>4 DEF ArchiveInv
<1>6. CASE Answered
  <2> USE <1>6 DEF Answered, disks
  <2>1. ArchiveTypes'
    BY <1>0 DEF ArchiveTypes, Renderings
  <2>2. Walk'
    BY <1>0 DEF Walk
  <2>3. Entries(cache)' /\ Entries(fresh)'
    BY <1>0 DEF Entries, Entry, Renderings
  <2> QED BY <2>1, <2>2, <2>3 DEF ArchiveInv
<1>7. CASE \E p \in Paths : Delete(p)
  BY <1>7, PutKeepsInv DEF Delete
<1>8. CASE \E p \in Paths : \E m \in DOMAIN Mails : Store(p, m)
  <2>1. PICK p \in Paths, m \in DOMAIN Mails : Store(p, m)
    BY <1>8
  <2> DEFINE f == [mail |-> m, stamp |-> writes + 1]
  <2>2. f \in [mail : DOMAIN Mails, stamp : Nat] /\ f.stamp = writes + 1
    BY <1>0 DEF ArchiveTypes
  <2>3. Put(p, f)
    BY <2>1 DEF Store
  <2> HIDE DEF f
  <2> QED BY <2>2, <2>3, PutKeepsInv
<1>9. CASE UNCHANGED archiveVars
  <2> USE <1>9 DEF archiveVars, disks, walking
  <2>1. ArchiveTypes' /\ Walk'
    BY <1>0 DEF ArchiveTypes, Renderings, Walk, Listing
  <2>2. Entries(cache)' /\ Entries(fresh)'
    BY <1>0 DEF Entries, Entry, Renderings
  <2>3. Found' = Found
    BY DEF Found, On, Passed, Listing
  <2> QED BY <1>0, <2>1, <2>2, <2>3 DEF ArchiveInv
<1> QED BY <1>1, <1>2, <1>3, <1>4, <1>5, <1>6, <1>7, <1>8, <1>9 DEF Next

\* An index that is done has passed the dests that were there.
LEMMA PassedIs ==
  ASSUME DestsApart, Walk, at = "done", NEW p \in Paths
  PROVE  p \in Passed <=> (\E i \in DOMAIN Roots : Walked(Roots[i], p)) /\ exists[RuleOf(p)]
<1>1. names = {} /\ 1 .. root = DOMAIN Roots
  BY RootsAssumption DEF Walk
<1>2. \A i \in DOMAIN Roots : p \in Listing(i) <=> exists[i] /\ Walked(Roots[i], p)
  BY DEF Listing
<1>3. \A i \in DOMAIN Roots : Walked(Roots[i], p) => RuleOf(p) = i
  BY RuleIs
<1> QED BY <1>1, <1>2, <1>3 DEF Passed

\* What a record of the answer holds.
Holds(r, k) ==
  /\ r = NewRecord(Of(found, k))
  /\ ToSet(r.files) = {f \in ToSet(found) : Key(f) = k}
  /\ Apart(r.files)
  /\ (\E f \in ToSet(r.files) : f.format = "md") => r.format = "md"
  /\ \E f \in ToSet(r.files) : r.id = f.id /\ r.date = f.date /\ r.source = f.source

LEMMA AnswerHolds ==
  ASSUME Found, answer \in Arranged(ByMessage(found))
  PROVE  /\ Apart(answer)
         /\ answer \in Seq(ByMessage(found))
         /\ \A i, j \in DOMAIN answer : i < j => ~(answer[j].date > answer[i].date)
         /\ \A i \in DOMAIN answer : \E l \in DOMAIN found : Holds(answer[i], Key(found[l]))
         /\ \A l \in DOMAIN found : \E i \in DOMAIN answer : Holds(answer[i], Key(found[l]))
<1>1. found \in Seq(Records) /\ Apart(found)
  BY DEF Found, Apart
<1>2. ASSUME NEW l \in DOMAIN found
      PROVE  Holds(NewRecord(Of(found, Key(found[l]))), Key(found[l]))
  <2> DEFINE k == Key(found[l])
             s == Of(found, k)
  <2>1. s \in Seq(Records) /\ ToSet(s) = {f \in ToSet(found) : Key(f) = k} /\ Apart(s)
    BY <1>1, OfIs
  <2>2. found[l] \in ToSet(found)
    BY DEF ToSet
  <2> HIDE DEF s
  <2>3. s # <<>>
    BY <2>1, <2>2 DEF ToSet
  <2>4. /\ ToSet(NewRecord(s).files) = ToSet(s)
        /\ Apart(NewRecord(s).files)
        /\ (\E f \in ToSet(s) : f.format = "md") => NewRecord(s).format = "md"
        /\ \E f \in ToSet(s) : NewRecord(s).id = f.id /\ NewRecord(s).date = f.date /\ NewRecord(s).source = f.source
    BY <2>1, <2>3, NewRecordIs
  <2> HIDE DEF k
  <2>5. Holds(NewRecord(s), k)
    BY <2>1, <2>4 DEF Holds, s
  <2> QED BY <2>5 DEF s, k
<1>3. /\ Apart(answer)
      /\ answer \in Seq(ByMessage(found))
      /\ \A i, j \in DOMAIN answer : i < j => ~(answer[j].date > answer[i].date)
      /\ \A i \in DOMAIN answer : \E l \in DOMAIN found : answer[i] = NewRecord(Of(found, Key(found[l])))
      /\ \A l \in DOMAIN found : \E i \in DOMAIN answer : answer[i] = NewRecord(Of(found, Key(found[l])))
  BY <1>1, ArrangedIs
<1> QED BY <1>2, <1>3

LEMMA AnswerIsTrue ==
  ASSUME DestsApart, ArchiveInv
  PROVE  TrueAnswer
<1> SUFFICES ASSUME at = "done"
             PROVE  /\ \A p \in Paths \ touched :
                         IF Stored(p) /\ exists[RuleOf(p)]
                         THEN \E i \in DOMAIN answer :
                                /\ Shows(p) = {i}
                                /\ \E j \in DOMAIN answer[i].files :
                                     /\ answer[i].files[j] = Reads(p, disk[p])
                                     /\ \A k \in DOMAIN answer[i].files : answer[i].files[k].path = p => k = j
                         ELSE Shows(p) = {}
                    /\ \A i \in DOMAIN answer : LET files == answer[i].files IN
                         /\ \A j, k \in DOMAIN files : files[j].id = files[k].id /\ files[j].rule = files[k].rule
                         /\ (\E j \in DOMAIN files : files[j].format = "md") => answer[i].format = "md"
  BY DEF TrueAnswer, Reads
<1>1. Walk /\ Found /\ answer \in Arranged(ByMessage(found))
  BY DEF ArchiveInv
<1>2. /\ Apart(answer)
      /\ \A i \in DOMAIN answer : \E l \in DOMAIN found : Holds(answer[i], Key(found[l]))
      /\ \A l \in DOMAIN found : \E i \in DOMAIN answer : Holds(answer[i], Key(found[l]))
  BY <1>1, AnswerHolds
<1>3. \A l, m \in DOMAIN found : found[l].path = found[m].path => l = m
  BY <1>1 DEF Found
\* A file of a record is one that was found.
<1>4. ASSUME NEW i \in DOMAIN answer, NEW j \in DOMAIN answer[i].files
      PROVE  \E l \in DOMAIN found : answer[i].files[j] = found[l] /\ Holds(answer[i], Key(found[l]))
  <2>1. PICK l \in DOMAIN found : Holds(answer[i], Key(found[l]))
    BY <1>2
  <2>2. answer[i].files[j] \in {f \in ToSet(found) : Key(f) = Key(found[l])}
    BY <2>1 DEF Holds, ToSet
  <2>3. PICK m \in DOMAIN found : answer[i].files[j] = found[m] /\ Key(found[m]) = Key(found[l])
    BY <2>2 DEF ToSet
  <2> QED BY <2>1, <2>3
<1>5. ASSUME NEW p \in Paths, \A l \in DOMAIN found : found[l].path # p
      PROVE  Shows(p) = {}
  BY <1>4, <1>5 DEF Shows
<1>6. ASSUME NEW p \in Paths \ touched, Stored(p), exists[RuleOf(p)]
      PROVE  \E i \in DOMAIN answer :
               /\ Shows(p) = {i}
               /\ \E j \in DOMAIN answer[i].files :
                    /\ answer[i].files[j] = Reads(p, disk[p])
                    /\ \A k \in DOMAIN answer[i].files : answer[i].files[k].path = p => k = j
  <2>1. On(p) /\ p \in Passed
    BY <1>1, <1>6, PassedIs DEF Stored, On
  <2>2. PICK l \in DOMAIN found : found[l] = Reads(p, disk[p])
    BY <1>1, <2>1 DEF Found
  <2>3. found[l].path = p
    BY <2>2, RecordIs
  <2>4. PICK i \in DOMAIN answer : Holds(answer[i], Key(found[l]))
    BY <1>2
  <2>5. found[l] \in ToSet(answer[i].files)
    BY <2>4 DEF Holds, ToSet
  <2>6. PICK j \in DOMAIN answer[i].files : answer[i].files[j] = found[l]
    BY <2>5 DEF ToSet
  <2>7. ASSUME NEW h \in DOMAIN answer, NEW k \in DOMAIN answer[h].files, answer[h].files[k].path = p
        PROVE  answer[h].files[k] = found[l] /\ h = i
    <3>1. PICK m \in DOMAIN found : answer[h].files[k] = found[m] /\ Holds(answer[h], Key(found[m]))
      BY <1>4
    <3>2. m = l
      BY <1>3, <2>3, <2>7, <3>1
    <3>3. answer[h] = answer[i]
      BY <2>4, <3>1, <3>2 DEF Holds
    <3> QED BY <1>2, <3>1, <3>2, <3>3 DEF Apart
  <2>8. Shows(p) = {i}
    BY <2>3, <2>6, <2>7 DEF Shows
  <2>9. \A k \in DOMAIN answer[i].files : answer[i].files[k].path = p => k = j
    BY <2>4, <2>6, <2>7 DEF Holds, Apart
  <2> QED BY <2>2, <2>6, <2>8, <2>9
<1>7. ASSUME NEW p \in Paths \ touched, ~(Stored(p) /\ exists[RuleOf(p)])
      PROVE  Shows(p) = {}
  <2>1. p \in Passed => ~On(p)
    BY <1>1, <1>7, PassedIs DEF Stored, On
  <2>2. \A l \in DOMAIN found : found[l].path # p
    BY <1>1, <2>1 DEF Found
  <2> QED BY <1>5, <2>2
<1>8. ASSUME NEW i \in DOMAIN answer
      PROVE  /\ \A j, k \in DOMAIN answer[i].files :
                  answer[i].files[j].id = answer[i].files[k].id /\ answer[i].files[j].rule = answer[i].files[k].rule
             /\ (\E j \in DOMAIN answer[i].files : answer[i].files[j].format = "md") => answer[i].format = "md"
  <2>1. PICK l \in DOMAIN found : Holds(answer[i], Key(found[l]))
    BY <1>2
  <2>2. \A j \in DOMAIN answer[i].files :
          answer[i].files[j] \in ToSet(answer[i].files) /\ Key(answer[i].files[j]) = Key(found[l])
    BY <2>1 DEF Holds, ToSet
  <2>3. \A j, k \in DOMAIN answer[i].files : Key(answer[i].files[j]) = Key(answer[i].files[k])
    BY <2>2
  <2>4. (\E j \in DOMAIN answer[i].files : answer[i].files[j].format = "md") => answer[i].format = "md"
    BY <2>1, <2>2 DEF Holds
  <2> QED BY <2>3, <2>4 DEF Key
<1> QED BY <1>6, <1>7, <1>8

\* What stood while an index was built is in its answer once, as it is, and what was
\* not there is not, for any rules whose dests are apart, any mail and any number of
\* writes and deletions in the meantime.
THEOREM IndexIsTrue ==
  ASSUME DestsApart
  PROVE  Spec => []TrueAnswer
<1>1. Init => ArchiveInv
  BY IndexStarts
<1>2. ArchiveInv /\ [Next]_archiveVars => ArchiveInv'
  BY IndexSteps
<1>3. ArchiveInv => TrueAnswer
  BY AnswerIsTrue
<1> QED BY <1>1, <1>2, <1>3, PTL DEF Spec

\* What is in V goes before what is not: the one after the other is all.
LEMMA Halves ==
  ASSUME NEW T, NEW s \in Seq(T), NEW V,
         \A i, j \in DOMAIN s : i < j /\ s[j] \in V => s[i] \in V
  PROVE  Those(s, V) \o Those(s, ToSet(s) \ V) = s
<1>0. Len(s) \in Nat /\ DOMAIN s = 1 .. Len(s) /\ \A i \in DOMAIN s : s[i] \in T /\ s[i] \in ToSet(s)
  BY DEF ToSet
<1>1. PICK k \in 0 .. Len(s) : \A i \in DOMAIN s : s[i] \in V <=> i <= k
  <2> DEFINE B == {n \in Nat : \A i \in DOMAIN s : s[i] \in V => i <= n}
  <2>1. Len(s) \in B /\ B \in SUBSET Nat
    BY <1>0
  <2>2. PICK k \in B : \A n \in B : k <= n
    <3> HIDE DEF B
    <3> QED BY <2>1, LeastNatural
  <2>3. k \in 0 .. Len(s) /\ \A i \in DOMAIN s : s[i] \in V => i <= k
    BY <1>0, <2>1, <2>2
  <2>4. k # 0 => s[k] \in V
    <3> SUFFICES ASSUME k # 0, s[k] \notin V PROVE FALSE
      OBVIOUS
    <3>1. \A i \in DOMAIN s : s[i] \in V => i <= k - 1
      BY <1>0, <2>3
    <3>2. k - 1 \in B
      BY <2>3, <3>1
    <3> QED BY <2>2, <2>3, <3>2
  <2>5. ASSUME NEW i \in DOMAIN s, i <= k
        PROVE  s[i] \in V
    <3>1. k # 0 /\ k \in DOMAIN s
      BY <1>0, <2>3, <2>5
    <3>2. i = k \/ i < k
      BY <1>0, <2>3, <2>5
    <3> QED BY <2>4, <3>1, <3>2
  <2> HIDE DEF B
  <2> QED BY <2>3, <2>5
<1>2. \A m \in 1 .. Len(s) : \A n \in m .. Len(s) : SubSeq(s, m, n) = Append(SubSeq(s, m, n - 1), s[n])
  <2> TAKE m \in 1 .. Len(s)
  <2> TAKE n \in m .. Len(s)
  <2>1. SubSeq(s, m, n) = SubSeq(s, m, n - 1) \o <<s[n]>>
    BY SubSeqRecursiveSecond
  <2>2. SubSeq(s, m, n - 1) \in Seq(T)
    BY <1>0, SubSeqProperties
  <2>3. Append(SubSeq(s, m, n - 1), s[n]) = SubSeq(s, m, n - 1) \o <<s[n]>>
    BY <1>0, <2>2, AppendIsConcat
  <2> QED BY <2>1, <2>3
<1>3. Those(s, V) = SubSeq(s, 1, k)
  <2>1. PICK kept :
          /\ kept = [i \in 0 .. Len(s) |->
               IF i = 0 THEN <<>> ELSE IF s[i] \in V THEN Append(kept[i - 1], s[i]) ELSE kept[i - 1]]
          /\ Those(s, V) = kept[Len(s)]
    BY ThoseUnfolds
  <2>2. \A i \in 0 .. Len(s) : kept[i] = IF i = 0 THEN <<>> ELSE IF s[i] \in V THEN Append(kept[i - 1], s[i]) ELSE kept[i - 1]
    BY <2>1
  <2> DEFINE R == {n \in Nat : n \in 0 .. Len(s) => kept[n] = IF n <= k THEN SubSeq(s, 1, n) ELSE SubSeq(s, 1, k)}
  <2>3. 0 \in R
    <3>1. kept[0] = <<>> /\ 0 <= k
      BY <1>0, <2>2
    <3>2. SubSeq(s, 1, 0) = <<>>
      BY SubSeqEmpty
    <3> QED BY <3>1, <3>2
  <2>4. ASSUME NEW n \in R
        PROVE  n + 1 \in R
    <3> SUFFICES ASSUME n + 1 \in 0 .. Len(s)
                 PROVE  kept[n + 1] = IF n + 1 <= k THEN SubSeq(s, 1, n + 1) ELSE SubSeq(s, 1, k)
      OBVIOUS
    <3>1. n \in Nat /\ n + 1 \in 1 .. Len(s) /\ n + 1 # 0 /\ n + 1 - 1 = n
      BY <1>0
    <3>2. kept[n] = IF n <= k THEN SubSeq(s, 1, n) ELSE SubSeq(s, 1, k)
      BY <1>0, <3>1
    <3> HIDE DEF R
    <3>3. kept[n + 1] = IF s[n + 1] \in V THEN Append(kept[n], s[n + 1]) ELSE kept[n]
      BY <2>2, <3>1
    <3>4. CASE n + 1 <= k
      <4>1. s[n + 1] \in V /\ n <= k
        BY <1>0, <1>1, <3>1, <3>4
      <4>2. SubSeq(s, 1, n + 1) = Append(SubSeq(s, 1, n), s[n + 1])
        BY <1>0, <1>2, <3>1
      <4> QED BY <3>2, <3>3, <3>4, <4>1, <4>2
    <3>5. CASE ~(n + 1 <= k)
      <4>1. s[n + 1] \notin V /\ (n <= k => n = k)
        BY <1>0, <1>1, <3>1, <3>5
      <4> QED BY <3>2, <3>3, <3>5, <4>1
    <3> QED BY <3>4, <3>5
  <2>5. R = Nat
    <3> HIDE DEF R
    <3>1. R \in SUBSET Nat
      BY DEF R
    <3> QED BY <2>3, <2>4, <3>1, SetInduction
  <2>6. kept[Len(s)] = IF Len(s) <= k THEN SubSeq(s, 1, Len(s)) ELSE SubSeq(s, 1, k)
    BY <1>0, <2>5, Len(s) \in R
  <2> HIDE DEF R
  <2>7. k \in Nat /\ k <= Len(s) /\ Len(s) \in Nat
    BY <1>0, <1>1
  <2>8. CASE Len(s) <= k
    <3>1. Len(s) = k
      BY <2>7, <2>8
    <3> QED BY <2>1, <2>6, <3>1
  <2>9. CASE ~(Len(s) <= k)
    BY <2>1, <2>6, <2>9
  <2> QED BY <2>8, <2>9
<1>4. Those(s, ToSet(s) \ V) = SubSeq(s, k + 1, Len(s))
  <2> DEFINE W == ToSet(s) \ V
  <2>0. \A i \in DOMAIN s : s[i] \in W <=> i > k
    BY <1>0, <1>1
  <2> HIDE DEF W
  <2>1. PICK kept :
          /\ kept = [i \in 0 .. Len(s) |->
               IF i = 0 THEN <<>> ELSE IF s[i] \in W THEN Append(kept[i - 1], s[i]) ELSE kept[i - 1]]
          /\ Those(s, W) = kept[Len(s)]
    BY ThoseUnfolds
  <2>2. \A i \in 0 .. Len(s) : kept[i] = IF i = 0 THEN <<>> ELSE IF s[i] \in W THEN Append(kept[i - 1], s[i]) ELSE kept[i - 1]
    BY <2>1
  <2> DEFINE R == {n \in Nat : n \in 0 .. Len(s) => kept[n] = SubSeq(s, k + 1, n)}
  <2>3. 0 \in R
    <3>1. kept[0] = <<>>
      BY <1>0, <2>2
    <3>2. SubSeq(s, k + 1, 0) = <<>>
      BY SubSeqEmpty
    <3> QED BY <3>1, <3>2
  <2>4. ASSUME NEW n \in R
        PROVE  n + 1 \in R
    <3> SUFFICES ASSUME n + 1 \in 0 .. Len(s)
                 PROVE  kept[n + 1] = SubSeq(s, k + 1, n + 1)
      OBVIOUS
    <3>1. n \in Nat /\ n + 1 \in 1 .. Len(s) /\ n + 1 # 0 /\ n + 1 - 1 = n
      BY <1>0
    <3>2. kept[n] = SubSeq(s, k + 1, n)
      BY <1>0, <3>1
    <3> HIDE DEF R
    <3>3. kept[n + 1] = IF s[n + 1] \in W THEN Append(kept[n], s[n + 1]) ELSE kept[n]
      BY <2>2, <3>1
    <3>4. CASE n + 1 > k
      <4>1. s[n + 1] \in W
        BY <1>0, <2>0, <3>1, <3>4
      <4>2. SubSeq(s, k + 1, n + 1) = Append(SubSeq(s, k + 1, n), s[n + 1])
        <5>1. k + 1 \in 1 .. Len(s) /\ n + 1 \in k + 1 .. Len(s)
          BY <1>0, <3>1, <3>4
        <5> QED BY <1>2, <3>1, <5>1
      <4> QED BY <3>2, <3>3, <4>1, <4>2
    <3>5. CASE ~(n + 1 > k)
      <4>1. s[n + 1] \notin W /\ n < k + 1 /\ n + 1 < k + 1
        BY <1>0, <2>0, <3>1, <3>5
      <4>2. SubSeq(s, k + 1, n) = <<>> /\ SubSeq(s, k + 1, n + 1) = <<>>
        BY <3>1, <4>1, SubSeqEmpty
      <4> QED BY <3>2, <3>3, <4>1, <4>2
    <3> QED BY <1>0, <3>1, <3>4, <3>5
  <2>5. R = Nat
    <3> HIDE DEF R
    <3>1. R \in SUBSET Nat
      BY DEF R
    <3> QED BY <2>3, <2>4, <3>1, SetInduction
  <2>6. kept[Len(s)] = SubSeq(s, k + 1, Len(s))
    BY <1>0, <2>5, Len(s) \in R
  <2> QED BY <2>1, <2>6 DEF W
<1>5. SubSeq(s, 1, k) \o SubSeq(s, k + 1, Len(s)) = s
  <2>1. SubSeq(s, 1, k) \o SubSeq(s, k + 1, Len(s)) = SubSeq(s, 1, Len(s))
    <3>1. 1 \in 1 .. Len(s) + 1 /\ k \in 1 - 1 .. Len(s) /\ Len(s) \in k .. Len(s)
      BY <1>0
    <3> QED BY <3>1, ConcatAdjacentSubSeq
  <2> QED BY <2>1, SubSeqFull
<1> QED BY <1>3, <1>4, <1>5


-----------------------------------------------------------------------------
(* The tools' bounds *)

LEMMA MinIs ==
  ASSUME NEW m \in Nat, NEW n \in Nat, m <= n
  PROVE  Min({n, m}) = m
<1>1. \A k \in {n, m} : (\A l \in {n, m} : k <= l) => k = m
  OBVIOUS
<1>2. m \in {n, m} /\ \A l \in {n, m} : m <= l
  OBVIOUS
<1> QED BY <1>1, <1>2 DEF Min

LEMMA TrustIs ==
  /\ DOMAIN Trust = {"provider", "references", "in_reply_to", "self"}
  /\ \A x \in DOMAIN Trust : Trust[x] \in 0 .. 3
BY DEF Trust

\* What fits a page is all of it.
LEMMA PageIsAll ==
  ASSUME NEW T, NEW s \in Seq(T), Len(s) <= MaxLimit
  PROVE  Page(s, MaxLimit).messages = s
<1> DEFINE limit == Clamp(MaxLimit, DefaultLimit, MaxLimit)
           page  == SubSeq(s, 1, Min({limit, Len(s)}))
<1>1. Len(s) \in Nat /\ MaxLimit \in Nat /\ MaxLimit # 0
  BY TimesAssumption
<1>2. limit = MaxLimit
  BY <1>1, MinIs DEF Clamp
<1>3. page = s
  BY <1>1, <1>2, MinIs, SubSeqFull
<1>4. Page(s, MaxLimit) = [messages |-> page, count |-> Len(page), matched |-> Len(s), truncated |-> Len(s) > limit]
  BY DEF Page
<1> HIDE DEF page
<1> QED BY <1>3, <1>4

\* What comes from a moment on, and what came before it.
LEMMA BoundIs ==
  ASSUME NEW r, NEW u
  PROVE  /\ Passes(r, Ask(Bound("time", u), Always, MaxLimit)) <=> r.date >= u
         /\ Passes(r, Ask(Always, Bound("time", u), MaxLimit)) <=> r.date < u
         /\ Passes(r, Ask(Always, Bound("day", u), MaxLimit)) <=> r.date < u + Day
BY DEF Passes, Ask, Bound, Always, ParseBound

\* Newest first: what comes from u on goes before what came before u.
LEMMA SplitAt ==
  ASSUME NEW T, answer \in Seq(T), Len(answer) <= MaxLimit,
         \A i \in DOMAIN answer : answer[i].date \in Nat,
         \A i, j \in DOMAIN answer : i < j => answer[j].date <= answer[i].date,
         NEW u \in Nat, NEW late, NEW early,
         \A r : Passes(r, late) <=> r.date >= u,
         \A r : Passes(r, early) <=> r.date < u,
         late.limit = MaxLimit, early.limit = MaxLimit
  PROVE  ListMessages(late).messages \o ListMessages(early).messages = answer
<1> DEFINE V == {r \in ToSet(answer) : Passes(r, late)}
           W == {r \in ToSet(answer) : Passes(r, early)}
<1>0. MaxLimit \in Nat /\ Len(answer) \in Nat
  BY TimesAssumption
<1>1. \A r \in ToSet(answer) : r.date \in Nat
  BY DEF ToSet
<1>2. W = ToSet(answer) \ V
  BY <1>1
<1>3. \A i \in DOMAIN answer : answer[i] \in V <=> answer[i].date >= u
  BY DEF ToSet
<1>4. \A i, j \in DOMAIN answer : i < j /\ answer[j] \in V => answer[i] \in V
  BY <1>3
<1>6. ListMessages(late) = Page(Those(answer, V), MaxLimit) /\ ListMessages(early) = Page(Those(answer, W), MaxLimit)
  BY DEF ListMessages
<1> HIDE DEF V, W
<1>5. Those(answer, V) \o Those(answer, ToSet(answer) \ V) = answer
  BY <1>4, Halves
<1>7. Those(answer, V) \in Seq(T) /\ Those(answer, W) \in Seq(T)
  BY ThoseFacts
<1>8. Len(Those(answer, V)) <= MaxLimit /\ Len(Those(answer, W)) <= MaxLimit
  <2>1. Len(Those(answer, V) \o Those(answer, W)) = Len(Those(answer, V)) + Len(Those(answer, W))
    BY <1>7, ConcatProperties
  <2>2. Len(Those(answer, V)) \in Nat /\ Len(Those(answer, W)) \in Nat
    BY <1>7
  <2> QED BY <1>0, <1>2, <1>5, <2>1, <2>2
<1>9. ListMessages(late).messages = Those(answer, V) /\ ListMessages(early).messages = Those(answer, W)
  BY <1>6, <1>7, <1>8, PageIsAll
<1> QED BY <1>2, <1>5, <1>9

Numbered(r) == r.date \in Nat /\ r.id \in Nat /\ r.source \in DOMAIN Trust

LEMMA RecordNumbers ==
  ASSUME NEW r \in Records
  PROVE  Numbered(r)
<1>1. PICK p \in Paths, f \in [mail : DOMAIN Mails, stamp : Nat] : r = Reads(p, f)
  BY DEF Records
<1> DEFINE rule == Roots[RuleOf(p)]
           mail == Mails[f.mail]
           read == IF p.ext = "md" THEN ReadMarkdown(mail, rule) ELSE ReadEML(mail, rule, f.stamp)
<1>2. read.date \in Nat
  <2>1. f.mail \in DOMAIN Mails /\ f.stamp \in Nat /\ mail.date \in Nat
    BY TimesAssumption
  <2>2. ReadMarkdown(mail, rule).date = mail.date
    BY DEF ReadMarkdown
  <2>3. ReadEML(mail, rule, f.stamp).date = IF mail.dated THEN mail.date ELSE f.stamp
    BY DEF ReadEML
  <2> QED BY <2>1, <2>2, <2>3
<1>3. read.in.source \in DOMAIN Trust
  <2>1. \A native, id : SynthesizeThread(mail, native, id).source \in {"provider", "references", "in_reply_to", "self"}
    BY DEF SynthesizeThread
  <2>2. ReadMarkdown(mail, rule).in.source \in {"provider", "references", "in_reply_to", "self"}
    BY <2>1 DEF ReadMarkdown
  <2>3. ReadEML(mail, rule, f.stamp).in.source \in {"provider", "references", "in_reply_to", "self"}
    BY <2>1 DEF ReadEML
  <2> QED BY <2>2, <2>3, TrustIs
<1>4. p.id \in Nat
  BY RootsAssumption DEF Paths
<1>5. Reads(p, f) = [path |-> p, format |-> p.ext, id |-> p.id, rule |-> rule.rule, stamp |-> f.stamp,
      from |-> mail.from, words |-> mail.words, body |-> mail.body, account |-> read.account,
      date |-> read.date, thread |-> read.in.thread, source |-> read.in.source, files |-> <<>>]
  BY DEF Reads, ParseFile
<1> HIDE DEF read
<1> QED BY <1>1, <1>2, <1>3, <1>4, <1>5 DEF Numbered

\* An answer, newest first.
LEMMA AnswerNumbers ==
  ASSUME ArchiveInv, at = "done"
  PROVE  /\ answer \in Seq(ByMessage(found)) /\ Apart(answer)
         /\ \A i \in DOMAIN answer : Numbered(answer[i])
         /\ \A i, j \in DOMAIN answer : i < j => answer[j].date <= answer[i].date
<1>1. Found /\ answer \in Arranged(ByMessage(found))
  BY DEF ArchiveInv
<1>2. /\ answer \in Seq(ByMessage(found)) /\ Apart(answer)
      /\ \A i, j \in DOMAIN answer : i < j => ~(answer[j].date > answer[i].date)
      /\ \A i \in DOMAIN answer : \E l \in DOMAIN found : Holds(answer[i], Key(found[l]))
  BY <1>1, AnswerHolds
<1>3. \A i \in DOMAIN answer : Numbered(answer[i])
  <2> SUFFICES ASSUME NEW i \in DOMAIN answer
               PROVE  Numbered(answer[i])
    OBVIOUS
  <2>1. PICK f \in ToSet(found) : answer[i].id = f.id /\ answer[i].date = f.date /\ answer[i].source = f.source
    BY <1>2 DEF Holds
  <2>2. f \in Records
    BY <1>1, <2>1 DEF Found, ToSet
  <2> QED BY <2>1, <2>2, RecordNumbers DEF Numbered
<1>4. \A i, j \in DOMAIN answer : i < j => answer[j].date <= answer[i].date
  BY <1>2, <1>3 DEF Numbered
<1> QED BY <1>2, <1>3, <1>4

LEMMA BoundsHold ==
  ASSUME ArchiveInv, at = "done"
  PROVE  BoundsSplit
<1> SUFFICES ASSUME Len(answer) <= MaxLimit, NEW t \in {answer[i].date : i \in DOMAIN answer}
             PROVE  /\ Listed(Bound("time", t), Always) \o Listed(Always, Bound("time", t)) = answer
                    /\ Listed(Bound("time", t + Day), Always) \o Listed(Always, Bound("day", t)) = answer
  BY DEF BoundsSplit
<1>1. /\ answer \in Seq(ByMessage(found)) /\ \A i \in DOMAIN answer : answer[i].date \in Nat
      /\ \A i, j \in DOMAIN answer : i < j => answer[j].date <= answer[i].date
  BY AnswerNumbers DEF Numbered
<1>2. t \in Nat /\ t + Day \in Nat
  BY <1>1, TimesAssumption
<1>3. \A since, until : Ask(since, until, MaxLimit).limit = MaxLimit
  BY DEF Ask
<1>4. ListMessages(Ask(Bound("time", t), Always, MaxLimit)).messages
      \o ListMessages(Ask(Always, Bound("time", t), MaxLimit)).messages = answer
  BY <1>1, <1>2, <1>3, BoundIs, SplitAt
<1>5. ListMessages(Ask(Bound("time", t + Day), Always, MaxLimit)).messages
      \o ListMessages(Ask(Always, Bound("day", t), MaxLimit)).messages = answer
  BY <1>1, <1>2, <1>3, BoundIs, SplitAt
<1> QED BY <1>4, <1>5 DEF Listed

-----------------------------------------------------------------------------
(* Reading back *)

\* No digest is stored under two rules.
DigestsApart ==
  \A i, j \in DOMAIN Roots, p, q \in Paths :
    Walked(Roots[i], p) /\ Walked(Roots[j], q) /\ p.id = q.id => Roots[i].rule = Roots[j].rule

\* A stored path, as the i-th rule spells its dest.
Spelt(i, p) == [p EXCEPT !.dir = Roots[i].dir \o SubSeq(@, Len(Roots[i].real) + 1, Len(@))]

\* No dest is configured as a place that another dest's mail is in, and a dest that
\* is a link to another place is not itself a place with mail.
SpellingsApart ==
  \A i, j \in DOMAIN Roots, p \in Paths :
    Within(Roots[j].real, p) =>
      /\ Within(Roots[i].dir, p) => Roots[i].dir = Roots[i].real
      /\ Within(Roots[i].real, Spelt(j, p)) \/ Within(Roots[i].dir, Spelt(j, p)) => i = j

\* The names directories have.
Segments == UNION ({ToSet(r.dir) : r \in ToSet(Roots)} \cup {ToSet(r.real) : r \in ToSet(Roots)} \cup {ToSet(p.dir) : p \in Paths})

LEMMA DirsAre ==
  /\ \A i \in DOMAIN Roots : Roots[i].dir \in Seq(Segments) /\ Roots[i].real \in Seq(Segments)
  /\ \A p \in Paths : p.dir \in Seq(Segments) /\ p = [dir |-> p.dir, id |-> p.id, ext |-> p.ext]
<1>1. \A d : d \in Seq(ToSet(d)) /\ ToSet(d) \subseteq Segments => d \in Seq(Segments)
  OBVIOUS
<1>2. \A i \in DOMAIN Roots : Roots[i] \in ToSet(Roots)
  BY DEF ToSet
<1>3. \A r \in ToSet(Roots) : r.dir \in Seq(ToSet(r.dir)) /\ r.real \in Seq(ToSet(r.real))
  BY RootsAssumption
<1>4. \A r \in ToSet(Roots) : ToSet(r.dir) \subseteq Segments /\ ToSet(r.real) \subseteq Segments
  BY DEF Segments
<1>5. \A p \in Paths : p.dir \in Seq(ToSet(p.dir)) /\ p = [dir |-> p.dir, id |-> p.id, ext |-> p.ext]
  BY RootsAssumption DEF Paths
<1>6. \A p \in Paths : ToSet(p.dir) \subseteq Segments
  BY DEF Segments
<1> HIDE DEF Segments
<1> QED BY <1>1, <1>2, <1>3, <1>4, <1>5, <1>6

LEMMA PrefixIs ==
  ASSUME NEW T, NEW a \in Seq(T), NEW b \in Seq(T), IsPrefix(a, b)
  PROVE  a \o SubSeq(b, Len(a) + 1, Len(b)) = b
<1>1. Len(a) \in Nat /\ Len(b) \in Nat /\ Len(a) <= Len(b) /\ SubSeq(a, 1, Len(a)) = SubSeq(b, 1, Len(a))
  BY DEF IsPrefix
<1>2. 1 \in 1 .. Len(b) + 1 /\ Len(a) \in 1 - 1 .. Len(b) /\ Len(b) \in Len(a) .. Len(b)
  BY <1>1
<1>3. SubSeq(b, 1, Len(a)) \o SubSeq(b, Len(a) + 1, Len(b)) = SubSeq(b, 1, Len(b))
  BY <1>2, ConcatAdjacentSubSeq
<1>4. SubSeq(a, 1, Len(a)) = a /\ SubSeq(b, 1, Len(b)) = b
  BY SubSeqFull
<1> QED BY <1>1, <1>3, <1>4

LEMMA PrefixOf ==
  ASSUME NEW T, NEW a \in Seq(T), NEW b \in Seq(T)
  PROVE  IsPrefix(a, a \o b) /\ SubSeq(a \o b, Len(a) + 1, Len(a \o b)) = b
<1>1. /\ Len(a) \in Nat /\ Len(b) \in Nat /\ a \o b \in Seq(T) /\ Len(a \o b) = Len(a) + Len(b)
      /\ \A i \in 1 .. Len(a) + Len(b) : (a \o b)[i] = IF i <= Len(a) THEN a[i] ELSE b[i - Len(a)]
  BY ConcatProperties
<1>2. SubSeq(a, 1, Len(a)) = SubSeq(a \o b, 1, Len(a))
  <2>1. CASE Len(a) = 0
    BY <2>1, SubSeqEmpty
  <2>2. CASE Len(a) # 0
    <3>1. 1 \in 1 .. Len(a) /\ Len(a) \in 1 .. Len(a)
      BY <1>1, <2>2
    <3> QED BY <3>1, SubSeqOfConcat1
  <2> QED BY <2>1, <2>2
<1>3. SubSeq(a \o b, Len(a) + 1, Len(a) + Len(b)) = b
  <2>1. CASE Len(b) = 0
    <3>1. b = <<>>
      BY <2>1
    <3>2. SubSeq(a \o b, Len(a) + 1, Len(a) + Len(b)) = <<>>
      BY <1>1, <2>1, SubSeqEmpty
    <3> QED BY <3>1, <3>2
  <2>2. CASE Len(b) # 0
    <3>1. Len(a) + 1 \in Len(a) + 1 .. Len(a) + Len(b) /\ Len(a) + Len(b) \in Len(a) + 1 .. Len(a) + Len(b)
      BY <1>1, <2>2
    <3>2. SubSeq(a \o b, Len(a) + 1, Len(a) + Len(b)) = SubSeq(b, Len(a) + 1 - Len(a), Len(a) + Len(b) - Len(a))
      BY <3>1, SubSeqOfConcat2
    <3>3. Len(a) + 1 - Len(a) = 1 /\ Len(a) + Len(b) - Len(a) = Len(b)
      BY <1>1
    <3> QED BY <3>2, <3>3, SubSeqFull
  <2> QED BY <2>1, <2>2
<1> QED BY <1>1, <1>2, <1>3 DEF IsPrefix

LEMMA MinIn ==
  ASSUME NEW V \in SUBSET Nat, V # {}
  PROVE  Min(V) \in V
<1>1. \E n \in V : \A m \in V : n <= m
  BY LeastNatural
<1> QED BY <1>1 DEF Min

\* A path with mail is real; as its rule spells it, it leads to the real one.
LEMMA RealIs ==
  ASSUME SpellingsApart, NEW j \in DOMAIN Roots, NEW p \in Paths, Within(Roots[j].real, p)
  PROVE  Real(p) = p /\ Real(Spelt(j, p)) = p /\ Within(Roots[j].dir, Spelt(j, p))
<1>0. /\ DOMAIN Roots \in SUBSET Nat
      /\ \A i \in DOMAIN Roots : Roots[i].dir \in Seq(Segments) /\ Roots[i].real \in Seq(Segments)
      /\ p.dir \in Seq(Segments) /\ p = [dir |-> p.dir, id |-> p.id, ext |-> p.ext]
  BY RootsAssumption, DirsAre
<1> DEFINE linked(x) == {i \in DOMAIN Roots : Within(Roots[i].dir, x)}
           rest(r)   == SubSeq(p.dir, Len(r) + 1, Len(p.dir))
           c         == Spelt(j, p)
<1>1. \A x : Real(x) = IF linked(x) = {} THEN x
               ELSE [x EXCEPT !.dir = Roots[Min(linked(x))].real \o SubSeq(x.dir, Len(Roots[Min(linked(x))].dir) + 1, Len(x.dir))]
  BY DEF Real
<1>2. \A x : linked(x) # {} => Min(linked(x)) \in linked(x)
  BY <1>0, MinIn
<1>3. Real(p) = p
  <2>1. CASE linked(p) = {}
    BY <1>1, <2>1
  <2>2. CASE linked(p) # {}
    <3> DEFINE i == Min(linked(p))
    <3>1. i \in DOMAIN Roots /\ Within(Roots[i].dir, p)
      BY <1>2, <2>2
    <3> HIDE DEF i
    <3>2. Roots[i].dir = Roots[i].real
      BY <3>1 DEF SpellingsApart
    <3>3. Roots[i].dir \o rest(Roots[i].dir) = p.dir
      BY <1>0, <3>1, PrefixIs DEF Within
    <3>4. Real(p) = [p EXCEPT !.dir = Roots[i].real \o rest(Roots[i].dir)]
      BY <1>1, <2>2 DEF i
    <3>5. [p EXCEPT !.dir = p.dir] = p
      BY <1>0
    <3> QED BY <3>2, <3>3, <3>4, <3>5
  <2> QED BY <2>1, <2>2
<1> DEFINE tail == rest(Roots[j].real)
<1>4. c = [p EXCEPT !.dir = Roots[j].dir \o tail]
  BY DEF Spelt
<1>5. tail \in Seq(Segments) /\ Roots[j].real \o tail = p.dir
  <2>1. Roots[j].real \o tail = p.dir
    BY <1>0, PrefixIs DEF Within
  <2>2. Len(Roots[j].real) + 1 \in Int /\ Len(p.dir) \in Int
        /\ \A i \in Len(Roots[j].real) + 1 .. Len(p.dir) : p.dir[i] \in Segments
    BY <1>0
  <2>3. tail \in Seq(Segments)
    BY <2>2, SubSeqProperties
  <2> QED BY <2>1, <2>3
<1> HIDE DEF tail
<1>6. c.dir = Roots[j].dir \o tail /\ \A x : [c EXCEPT !.dir = x] = [p EXCEPT !.dir = x]
  BY <1>0, <1>4
<1> HIDE DEF c
<1>7. Within(Roots[j].dir, c) /\ SubSeq(c.dir, Len(Roots[j].dir) + 1, Len(c.dir)) = tail
  <2>1. Roots[j].dir \in Seq(Segments) /\ tail \in Seq(Segments)
    BY <1>0, <1>5
  <2>2. /\ IsPrefix(Roots[j].dir, Roots[j].dir \o tail)
        /\ SubSeq(Roots[j].dir \o tail, Len(Roots[j].dir) + 1, Len(Roots[j].dir \o tail)) = tail
    BY <2>1, PrefixOf
  <2> QED BY <1>6, <2>2 DEF Within
<1>8. linked(c) # {} /\ Min(linked(c)) = j
  <2>1. \A i \in linked(c) : i = j
    BY DEF SpellingsApart, c
  <2>2. j \in linked(c)
    BY <1>7
  <2> QED BY <1>2, <2>1, <2>2
<1>9. Real(c) = [c EXCEPT !.dir = Roots[j].real \o tail]
  BY <1>1, <1>7, <1>8
<1>10. Real(c) = p
  <2>1. [p EXCEPT !.dir = p.dir] = p
    BY <1>0
  <2> QED BY <1>5, <1>6, <1>9, <2>1
<1> QED BY <1>3, <1>7, <1>10 DEF c

\* What is not in a sequence twice, and alone, is all of it.
LEMMA Only ==
  ASSUME NEW T, NEW s \in Seq(T), Apart(s), NEW x, ToSet(s) = {x}
  PROVE  s = <<x>>
<1>1. Len(s) \in Nat /\ DOMAIN s = 1 .. Len(s) /\ \A i \in DOMAIN s : s[i] = x
  BY DEF ToSet
<1>2. \E i \in DOMAIN s : s[i] = x
  BY DEF ToSet
<1>3. Len(s) = 1
  <2>1. Len(s) >= 1
    BY <1>1, <1>2
  <2>2. \A i \in DOMAIN s : i = 1
    BY <1>1, <2>1, 1 \in DOMAIN s DEF Apart
  <2> QED BY <1>1, <2>1, <2>2
<1> QED BY <1>1, <1>3

\* A call that names one record gets it.
LEMMA Named ==
  ASSUME NEW T, answer \in Seq(T), Apart(answer), NEW i \in DOMAIN answer, NEW V,
         \A h \in DOMAIN answer : answer[h] \in V <=> h = i
  PROVE  Those(answer, V) = <<answer[i]>>
<1>1. Those(answer, V) \in Seq(T) /\ ToSet(Those(answer, V)) = ToSet(answer) \cap V /\ Apart(Those(answer, V))
  BY ThoseFacts
<1>2. ToSet(answer) \cap V = {answer[i]}
  BY DEF ToSet
<1> QED BY <1>1, <1>2, Only

LEMMA AnswerReadsBack ==
  ASSUME DestsApart, DigestsApart, SpellingsApart, ArchiveInv
  PROVE  ReadBack
<1> SUFFICES ASSUME at = "done", NEW i \in DOMAIN answer, NEW f \in ToSet(answer[i].files), f.path \notin touched
             PROVE  /\ LocateId(f.id) = <<answer[i]>>
                    /\ LocatePath(f.path) = <<answer[i]>>
                    /\ LocatePath(Spelt(RuleOf(f.path), f.path)) = <<answer[i]>>
  BY DEF ReadBack, Spelt
<1> DEFINE p == f.path
<1>1. Walk /\ Found /\ answer \in Arranged(ByMessage(found))
  BY DEF ArchiveInv
<1>2. /\ Apart(answer) /\ answer \in Seq(ByMessage(found))
      /\ \A h \in DOMAIN answer : \E l \in DOMAIN found : Holds(answer[h], Key(found[l]))
  BY <1>1, AnswerHolds
\* What is in a record was found, where a rule walks.
<1>3. ASSUME NEW h \in DOMAIN answer, NEW g \in ToSet(answer[h].files)
      PROVE  /\ Holds(answer[h], Key(g)) /\ g.path \in Passed /\ Walked(Roots[RuleOf(g.path)], g.path)
             /\ RuleOf(g.path) \in DOMAIN Roots
             /\ Key(g) = <<Roots[RuleOf(g.path)].rule, g.path.id>> /\ g.id = g.path.id
  <2>1. PICK l \in DOMAIN found : Holds(answer[h], Key(found[l]))
    BY <1>2
  <2>2. g \in ToSet(found) /\ Key(g) = Key(found[l])
    BY <2>1 DEF Holds
  <2>3. g \in Records /\ g.path \in Passed
    BY <1>1, <2>2 DEF Found, ToSet
  <2>4. g.path \in Paths /\ \E k \in DOMAIN Roots : Walked(Roots[k], g.path)
    <3>1. \A k \in 1 .. root : k \in DOMAIN Roots
      BY <1>1, RootsAssumption DEF Walk
    <3>2. \A k : \A q \in Listing(k) : Walked(Roots[k], q)
      BY DEF Listing
    <3> QED BY <2>3, <3>1, <3>2 DEF Passed
  <2>5. Walked(Roots[RuleOf(g.path)], g.path) /\ RuleOf(g.path) \in DOMAIN Roots
    BY <2>4, RuleIs
  <2>6. Key(g) = <<Roots[RuleOf(g.path)].rule, g.path.id>>
    <3>1. PICK q \in Paths, x \in [mail : DOMAIN Mails, stamp : Nat] : g = Reads(q, x)
      BY <2>3 DEF Records
    <3>2. g.path = q /\ Key(g) = <<Roots[RuleOf(q)].rule, q.id>>
      BY <3>1, RecordIs
    <3> QED BY <3>2
  <2>7. g.id = g.path.id
    BY <2>6 DEF Key
  <2> QED BY <2>1, <2>2, <2>3, <2>5, <2>6, <2>7
<1>4. /\ p \in Paths \ touched /\ p \in Passed /\ Walked(Roots[RuleOf(p)], p) /\ RuleOf(p) \in DOMAIN Roots
  BY <1>3 DEF Passed
<1>5. On(p)
  <2>1. f \in ToSet(found)
    BY <1>3 DEF Holds
  <2> QED BY <1>1, <1>4, <2>1 DEF Found, ToSet
\* The path is shown by this record alone.
<1>6. \A h \in DOMAIN answer : (\E k \in DOMAIN answer[h].files : answer[h].files[k].path = p) <=> h = i
  <2>1. i \in Shows(p)
    BY DEF Shows, ToSet
  <2>2. TrueAnswer
    BY AnswerIsTrue
  <2>3. \E m \in DOMAIN answer : Shows(p) = {m}
    BY <1>4, <2>1, <2>2 DEF TrueAnswer
  <2>4. Shows(p) = {i}
    BY <2>1, <2>3
  <2> QED BY <2>4 DEF Shows
<1>7. ASSUME NEW x, Real(x) = p,
             \A k \in DOMAIN Roots : Within(Roots[k].real, x) \/ Within(Roots[k].dir, x) <=> k = RuleOf(p)
      PROVE  LocatePath(x) = <<answer[i]>>
  <2>1. Resolve(x) = {p}
    <3> DEFINE known == {k \in DOMAIN Roots : /\ Within(Roots[k].real, x) \/ Within(Roots[k].dir, x)
                                              /\ p \in Paths /\ disk[p] # NoFile}
               j == RuleOf(p)
    <3>1. known = {j} /\ known \in SUBSET Nat
      BY <1>4, <1>5, <1>7, RootsAssumption DEF On
    <3>2. Min(known) = j
      BY <3>1, MinIn
    <3>3. Within(Roots[j].real, p) /\ p.ext \in RenderedAs
      BY <1>4 DEF Walked
    <3>4. Resolve(x) = {q \in {p} : known # {} /\ Within(Roots[Min(known)].real, q) /\ q.ext \in RenderedAs}
      BY <1>7 DEF Resolve
    <3> HIDE DEF known, j
    <3> QED BY <3>1, <3>2, <3>3, <3>4
  <2> DEFINE V == {r \in ToSet(answer) : \E k \in DOMAIN r.files : r.files[k].path \in {p}}
  <2>2. LocatePath(x) = Those(answer, V)
    BY <2>1 DEF LocatePath
  <2>3. \A h \in DOMAIN answer : answer[h] \in V <=> h = i
    BY <1>6 DEF ToSet
  <2> HIDE DEF V
  <2> QED BY <1>2, <2>2, <2>3, Named
<1>8. LocatePath(p) = <<answer[i]>> /\ LocatePath(Spelt(RuleOf(p), p)) = <<answer[i]>>
  <2> DEFINE j == RuleOf(p)
  <2>1. j \in DOMAIN Roots /\ p \in Paths /\ Within(Roots[j].real, p)
    BY <1>4 DEF Walked
  <2>2. Real(p) = p /\ Real(Spelt(j, p)) = p /\ Within(Roots[j].dir, Spelt(j, p))
    BY <2>1, RealIs
  <2>3. \A k \in DOMAIN Roots : Within(Roots[k].real, p) \/ Within(Roots[k].dir, p) <=> k = j
    <3>1. ASSUME NEW k \in DOMAIN Roots, Within(Roots[k].dir, p)
          PROVE  Within(Roots[k].real, p)
      BY <2>1, <3>1 DEF SpellingsApart, Within
    <3> QED BY <2>1, <3>1 DEF DestsApart
  <2>4. \A k \in DOMAIN Roots : Within(Roots[k].real, Spelt(j, p)) \/ Within(Roots[k].dir, Spelt(j, p)) <=> k = j
    BY <2>1, <2>2 DEF SpellingsApart
  <2> QED BY <1>7, <2>2, <2>3, <2>4
<1>9. LocateId(f.id) = <<answer[i]>>
  <2> DEFINE V == {r \in ToSet(answer) : r.id = f.id}
  <2>1. ASSUME NEW h \in DOMAIN answer, answer[h].id = f.id
        PROVE  h = i
    <3>1. PICK g \in ToSet(answer[h].files) : answer[h].id = g.id
      BY <1>2 DEF Holds
    <3>2. g.path.id = p.id /\ Walked(Roots[RuleOf(g.path)], g.path) /\ g.path \in Paths
      BY <1>3, <2>1, <3>1 DEF Passed
    <3>3. Roots[RuleOf(g.path)].rule = Roots[RuleOf(p)].rule
      BY <1>3, <1>4, <3>2 DEF DigestsApart
    <3>4. Key(g) = Key(f)
      BY <1>3, <3>1, <3>2, <3>3
    <3>5. answer[h] = answer[i]
      BY <1>3, <3>1, <3>4 DEF Holds
    <3> QED BY <1>2, <3>5 DEF Apart
  <2>2. answer[i].id = f.id
    <3>1. PICK g \in ToSet(answer[i].files) : answer[i].id = g.id
      BY <1>2 DEF Holds
    <3>2. Key(g) = Key(f)
      BY <1>3, <3>1 DEF Holds
    <3> QED BY <3>1, <3>2 DEF Key
  <2>3. \A h \in DOMAIN answer : answer[h] \in V <=> h = i
    BY <2>1, <2>2 DEF ToSet
  <2>4. LocateId(f.id) = Those(answer, V)
    BY DEF LocateId
  <2> HIDE DEF V
  <2> QED BY <1>2, <2>3, <2>4, Named
<1> QED BY <1>8, <1>9

\* A stored message is read back by its digest, by the path in the index and by the
\* one the manifest names: for any rules whose dests and spellings are apart, where
\* no message is stored under two of them.
THEOREM StoredIsReadBack ==
  ASSUME DestsApart, DigestsApart, SpellingsApart
  PROVE  Spec => []ReadBack
<1>1. Init => ArchiveInv
  BY IndexStarts
<1>2. ArchiveInv /\ [Next]_archiveVars => ArchiveInv'
  BY IndexSteps
<1>3. ArchiveInv => ReadBack
  BY AnswerReadsBack
<1> QED BY <1>1, <1>2, <1>3, PTL DEF Spec

-----------------------------------------------------------------------------
(* The tools' conversations *)

\* Sorting loses nothing, and puts the older one first.
LEMMA OldestFacts ==
  ASSUME NEW T, NEW s \in Seq(T), Apart(s), \A i \in DOMAIN s : s[i].date \in Nat /\ s[i].id \in Nat
  PROVE  /\ Oldest(s) \in Seq(T) /\ Len(Oldest(s)) = Len(s)
         /\ ToSet(Oldest(s)) = ToSet(s)
         /\ Apart(Oldest(s))
         /\ \A n, m \in DOMAIN Oldest(s) : n < m => Oldest(s)[n].date <= Oldest(s)[m].date
<1> DEFINE D == DOMAIN s
           Less(j, i)  == Older(s[j], s[i]) \/ (j < i /\ ~Older(s[i], s[j]))
           before(i)   == {j \in D : Less(j, i)}
           place       == [i \in D |-> Cardinality(before(i))]
           whose(n)    == CHOOSE i \in D : Cardinality(before(i)) = n - 1
           o           == Oldest(s)
<1>1. Len(s) \in Nat /\ D = 1 .. Len(s) /\ IsFiniteSet(D) /\ Cardinality(D) = Len(s)
  <2>1. Len(s) \in Nat /\ D = 1 .. Len(s) /\ 1 \in Int /\ Len(s) \in Int
    OBVIOUS
  <2>2. IsFiniteSet(1 .. Len(s)) /\ Cardinality(1 .. Len(s)) = IF 1 > Len(s) THEN 0 ELSE Len(s) - 1 + 1
    BY <2>1, FS_Interval
  <2>3. (IF 1 > Len(s) THEN 0 ELSE Len(s) - 1 + 1) = Len(s)
    BY <2>1
  <2> QED BY <2>1, <2>2, <2>3
<1>2. o = [n \in D |-> s[whose(n)]]
  BY DEF Oldest
<1>3. \A i \in D : ~Less(i, i)
  BY <1>1 DEF Older
<1>4. \A i, j \in D : i # j => Less(i, j) \/ Less(j, i)
  BY <1>1 DEF Older
<1>5. \A i, j, k \in D : Less(i, j) /\ Less(j, k) => Less(i, k)
  BY <1>1 DEF Older
<1> HIDE DEF Less
<1>6. \A i \in D : IsFiniteSet(before(i)) /\ Cardinality(before(i)) \in 0 .. Len(s) - 1
  <2> SUFFICES ASSUME NEW i \in D
               PROVE  IsFiniteSet(before(i)) /\ Cardinality(before(i)) \in 0 .. Len(s) - 1
    OBVIOUS
  <2>1. before(i) \in SUBSET D /\ before(i) # D
    BY <1>3
  <2>2. IsFiniteSet(before(i)) /\ Cardinality(before(i)) <= Len(s) /\ Cardinality(before(i)) # Len(s)
    BY <1>1, <2>1, FS_Subset
  <2>3. Cardinality(before(i)) \in Nat
    BY <2>2, FS_CardinalityType
  <2> QED BY <1>1, <2>2, <2>3
<1>7. \A i, j \in D : Less(i, j) => Cardinality(before(i)) < Cardinality(before(j))
  <2> SUFFICES ASSUME NEW i \in D, NEW j \in D, Less(i, j)
               PROVE  Cardinality(before(i)) < Cardinality(before(j))
    OBVIOUS
  <2>1. before(i) \in SUBSET before(j) /\ before(i) # before(j)
    BY <1>3, <1>5
  <2>2. Cardinality(before(i)) <= Cardinality(before(j)) /\ Cardinality(before(i)) # Cardinality(before(j))
    BY <1>6, <2>1, FS_Subset
  <2> HIDE DEF before
  <2>3. Cardinality(before(i)) \in Int /\ Cardinality(before(j)) \in Int
    BY <1>1, <1>6
  <2> QED BY <2>2, <2>3
<1> HIDE DEF before
<1>8. \A i, j \in D : Cardinality(before(i)) = Cardinality(before(j)) => i = j
  <2> SUFFICES ASSUME NEW i \in D, NEW j \in D, Cardinality(before(i)) = Cardinality(before(j)), i # j
               PROVE  FALSE
    OBVIOUS
  <2>1. Cardinality(before(i)) < Cardinality(before(j)) \/ Cardinality(before(j)) < Cardinality(before(i))
    BY <1>4, <1>7
  <2>2. Cardinality(before(i)) \in Int
    BY <1>1, <1>6
  <2> QED BY <2>1, <2>2
<1>9. place \in Surjection(D, 0 .. Len(s) - 1)
  <2>1. place \in [D -> 0 .. Len(s) - 1]
    BY <1>6
  <2>2. place \in Injection(D, 0 .. Len(s) - 1)
    BY <1>8, <2>1 DEF Injection, IsInjective
  <2>3. IsFiniteSet(0 .. Len(s) - 1) /\ Cardinality(0 .. Len(s) - 1) = Len(s)
    <3>1. 0 \in Int /\ Len(s) - 1 \in Int
      BY <1>1
    <3>2. IsFiniteSet(0 .. Len(s) - 1) /\ Cardinality(0 .. Len(s) - 1) = IF 0 > Len(s) - 1 THEN 0 ELSE Len(s) - 1 - 0 + 1
      BY <3>1, FS_Interval
    <3> QED BY <1>1, <3>2
  <2> QED BY <1>1, <2>2, <2>3, FS_Injection
<1>10. \A n \in D : whose(n) \in D /\ Cardinality(before(whose(n))) = n - 1
  <2> SUFFICES ASSUME NEW n \in D
               PROVE  whose(n) \in D /\ Cardinality(before(whose(n))) = n - 1
    OBVIOUS
  <2>1. n - 1 \in 0 .. Len(s) - 1
    BY <1>1
  <2>2. \E i \in D : Cardinality(before(i)) = n - 1
    BY <1>9, <2>1 DEF Surjection
  <2> QED BY <2>2
<1> HIDE DEF whose
<1>11. \A i \in D : \E n \in D : whose(n) = i
  <2> SUFFICES ASSUME NEW i \in D
               PROVE  \E n \in D : whose(n) = i
    OBVIOUS
  <2> DEFINE c == Cardinality(before(i))
  <2>1. c \in 0 .. Len(s) - 1
    BY <1>6
  <2> HIDE DEF c
  <2>2. PICK n \in D : n - 1 = c
    BY <1>1, <2>1, c + 1 \in D
  <2>3. whose(n) \in D /\ Cardinality(before(whose(n))) = Cardinality(before(i))
    BY <1>10, <2>2 DEF c
  <2> QED BY <1>8, <2>3
<1>12. /\ DOMAIN o = D /\ o \in Seq(T) /\ Len(o) = Len(s)
       /\ \A n \in D : o[n] = s[whose(n)]
  <2>1. o \in [1 .. Len(s) -> T]
    BY <1>1, <1>2, <1>10
  <2> QED BY <1>1, <1>2, <2>1
<1> HIDE DEF o
<1>13. ToSet(o) = ToSet(s)
  <2>1. \A n \in D : \E i \in D : o[n] = s[i]
    BY <1>10, <1>12
  <2>2. \A i \in D : \E n \in D : o[n] = s[i]
    BY <1>11, <1>12
  <2> QED BY <1>12, <2>1, <2>2 DEF ToSet
<1>14. Apart(o)
  <2>1. \A n, m \in D : whose(n) = whose(m) => n = m
    BY <1>1, <1>10
  <2> QED BY <1>10, <1>12, <2>1 DEF Apart
<1>15. ASSUME NEW n \in D, NEW m \in D, n < m
       PROVE  o[n].date <= o[m].date
  <2>1. ~Less(whose(m), whose(n))
    <3>1. Cardinality(before(whose(n))) < Cardinality(before(whose(m)))
      BY <1>1, <1>10, <1>15
    <3>2. Cardinality(before(whose(n))) \in Int /\ Cardinality(before(whose(m))) \in Int
      BY <1>6, <1>10
    <3> QED BY <1>7, <1>10, <3>1, <3>2
  <2>2. whose(n) \in D /\ whose(m) \in D
    BY <1>10
  <2> QED BY <1>12, <2>1, <2>2 DEF Less, Older
<1> QED BY <1>12, <1>13, <1>14, <1>15 DEF o

LEMMA WeakestIs ==
  ASSUME NEW T, NEW s \in Seq(T), s # <<>>, \A i \in DOMAIN s : s[i].source \in DOMAIN Trust
  PROVE  \A i \in DOMAIN s : Trust[s[i].source] <= Trust[WeakestSource(s)]
<1> DEFINE W == {Trust[s[i].source] : i \in DOMAIN s}
<1>1. W \in SUBSET (0 .. 3) /\ 1 \in DOMAIN s /\ W # {}
  BY TrustIs
<1>2. Max(W) \in W /\ \A n \in W : n <= Max(W)
  <2> DEFINE U == {3 - n : n \in W}
  <2> HIDE DEF W
  <2>0. \A n \in W : n \in 0 .. 3 /\ 3 - n \in Nat
    BY <1>1
  <2>1. U \in SUBSET Nat /\ U # {}
    <3>1. U \in SUBSET Nat
      BY <2>0
    <3>2. PICK n \in W : TRUE
      BY <1>1
    <3>3. 3 - n \in U
      BY <3>2
    <3> QED BY <3>1, <3>3
  <2>2. PICK u \in U : \A v \in U : u <= v
    <3> HIDE DEF U
    <3> QED BY <2>1, LeastNatural
  <2>3. PICK w \in W : u = 3 - w
    BY <2>2
  <2>4. \A n \in W : w >= n
    <3> SUFFICES ASSUME NEW n \in W PROVE w >= n
      OBVIOUS
    <3>1. 3 - n \in U
      OBVIOUS
    <3>2. u <= 3 - n
      BY <2>2, <3>1
    <3> QED BY <2>0, <2>3, <3>2
  <2>5. \E x \in W : \A y \in W : x >= y
    BY <2>4
  <2>6. Max(W) \in W /\ \A y \in W : Max(W) >= y
    BY <2>5 DEF Max
  <2> QED BY <1>1, <2>6
<1>3. \E x \in DOMAIN Trust : Trust[x] = Max(W)
  BY <1>2
<1>4. Trust[WeakestSource(s)] = Max(W)
  BY <1>3 DEF WeakestSource
<1> QED BY <1>2, <1>4

\* The places where a conversation begins, in their order.
Opens(page) == {i \in DOMAIN page : \A j \in 1 .. i - 1 : page[j].thread # page[i].thread}
Order(page) == Those([i \in DOMAIN page |-> i], Opens(page))

LEMMA OrderIs ==
  ASSUME NEW T, NEW page \in Seq(T)
  PROVE  /\ Order(page) \in Seq(Nat)
         /\ \A k \in DOMAIN Order(page) : Order(page)[k] \in DOMAIN page /\ Order(page)[k] \in Opens(page)
         /\ \A i \in Opens(page) : \E k \in DOMAIN Order(page) : Order(page)[k] = i
         /\ \A h, k \in DOMAIN Order(page) : h < k => Order(page)[h] < Order(page)[k]
<1> DEFINE s == [i \in DOMAIN page |-> i]
           a == Order(page)
<1>1. s \in Seq(Nat) /\ DOMAIN s = DOMAIN page /\ \A i \in DOMAIN s : s[i] = i
  BY DOMAIN page = 1 .. Len(page)
<1>2. /\ a \in Seq(Nat) /\ ToSet(a) = ToSet(s) \cap Opens(page)
      /\ \A i, j \in DOMAIN a : i < j => \E k, l \in DOMAIN s : k < l /\ a[i] = s[k] /\ a[j] = s[l]
  <2> DEFINE V == Opens(page)
  <2> HIDE DEF s, V
  <2>1. a = Those(s, V)
    BY DEF Order, s, V
  <2>2. /\ Those(s, V) \in Seq(Nat) /\ ToSet(Those(s, V)) = ToSet(s) \cap V
        /\ \A i, j \in DOMAIN Those(s, V) :
             i < j => \E k, l \in DOMAIN s : k < l /\ Those(s, V)[i] = s[k] /\ Those(s, V)[j] = s[l]
    BY <1>1, ThoseFacts
  <2> HIDE DEF a
  <2> QED BY <2>1, <2>2 DEF V
<1>3. ToSet(s) = DOMAIN page /\ Opens(page) \subseteq DOMAIN page
  BY <1>1 DEF ToSet, Opens
<1> HIDE DEF s, a
<1>4. \A k \in DOMAIN a : a[k] \in DOMAIN page /\ a[k] \in Opens(page)
  BY <1>2, <1>3 DEF ToSet
<1>5. \A i \in Opens(page) : \E k \in DOMAIN a : a[k] = i
  BY <1>2, <1>3 DEF ToSet
<1>6. \A h, k \in DOMAIN a : h < k => a[h] < a[k]
  BY <1>1, <1>2
<1> QED BY <1>2, <1>4, <1>5, <1>6 DEF a

\* The records of a page, each with what the grouping looks at, newest first.
Paged(page) ==
  /\ Apart(page) /\ \A i \in DOMAIN page : Numbered(page[i])
  /\ \A i, j \in DOMAIN page : i < j => page[j].date <= page[i].date

LEMMA MembersAre ==
  ASSUME NEW T, NEW page \in Seq(T), Paged(page), NEW i \in DOMAIN page
  PROVE  LET members == Oldest(InThread(page, page[i].thread)) IN
         /\ members \in Seq(T) /\ members # <<>>
         /\ ToSet(members) = {r \in ToSet(page) : r.thread = page[i].thread}
         /\ Apart(members)
         /\ \A n, m \in DOMAIN members : n < m => members[n].date <= members[m].date
         /\ \A n \in DOMAIN members : Numbered(members[n])
<1> DEFINE V == {r \in ToSet(page) : r.thread = page[i].thread}
           s == InThread(page, page[i].thread)
           members == Oldest(s)
<1>1. s = Those(page, V) /\ V \subseteq ToSet(page) /\ page[i] \in V
  BY DEF InThread, ToSet
<1> HIDE DEF V, s
<1>2. s \in Seq(T) /\ ToSet(s) = V /\ Apart(s)
  <2>1. Those(page, V) \in Seq(T) /\ ToSet(Those(page, V)) = ToSet(page) \cap V /\ (Apart(page) => Apart(Those(page, V)))
    BY ThoseFacts
  <2> QED BY <1>1, <2>1 DEF Paged
<1>3. \A r \in V : Numbered(r)
  BY <1>1 DEF Paged, ToSet
<1>4. \A n \in DOMAIN s : s[n].date \in Nat /\ s[n].id \in Nat
  BY <1>2, <1>3 DEF Numbered, ToSet
<1>5. /\ members \in Seq(T) /\ Len(members) = Len(s) /\ ToSet(members) = V /\ Apart(members)
      /\ \A n, m \in DOMAIN members : n < m => members[n].date <= members[m].date
  BY <1>2, <1>4, OldestFacts
<1> HIDE DEF members
<1>6. members # <<>>
  BY <1>1, <1>5 DEF ToSet
<1>7. \A n \in DOMAIN members : Numbered(members[n])
  BY <1>3, <1>5 DEF ToSet
<1> QED BY <1>5, <1>6, <1>7 DEF members, s, V

LEMMA GroupsAreTrue ==
  ASSUME NEW T, NEW page \in Seq(T), Paged(page)
  PROVE  ThreadsKept(page)
<1> DEFINE order      == Order(page)
           members(k) == Oldest(InThread(page, page[order[k]].thread))
           threads    == GroupThreads(page)
           group(k)   == [thread |-> page[order[k]].thread, source |-> WeakestSource(members(k)), messages |-> members(k),
                          first |-> members(k)[1].date, last |-> Last(members(k)).date]
<1>1. threads = [k \in DOMAIN order |-> group(k)]
  BY DEF GroupThreads, Order, Opens
<1>2. /\ \A k \in DOMAIN order : order[k] \in DOMAIN page /\ order[k] \in Opens(page)
      /\ \A i \in Opens(page) : \E k \in DOMAIN order : order[k] = i
      /\ \A h, k \in DOMAIN order : h < k => order[h] < order[k]
      /\ order \in Seq(Nat) /\ DOMAIN order \in SUBSET Nat
  <2>1. order \in Seq(Nat)
    BY OrderIs
  <2> QED BY <2>1, OrderIs
<1> HIDE DEF order
<1>3. ASSUME NEW k \in DOMAIN order
      PROVE  /\ members(k) \in Seq(T) /\ members(k) # <<>>
             /\ ToSet(members(k)) = {r \in ToSet(page) : r.thread = page[order[k]].thread}
             /\ Apart(members(k))
             /\ \A n, m \in DOMAIN members(k) : n < m => members(k)[n].date <= members(k)[m].date
             /\ \A n \in DOMAIN members(k) : Numbered(members(k)[n])
  BY <1>2, MembersAre
<1> HIDE DEF members
<1>4. /\ DOMAIN threads = DOMAIN order
      /\ \A k \in DOMAIN order :
           /\ threads[k].thread = page[order[k]].thread /\ threads[k].messages = members(k)
           /\ threads[k].source = WeakestSource(members(k)) /\ threads[k].last = Last(members(k)).date
  BY <1>1
<1> HIDE DEF threads
<1>0. DOMAIN page \in SUBSET Nat
  OBVIOUS
\* The first of a conversation is the one that opens it.
<1>5. \A k \in DOMAIN order : \A i \in DOMAIN page : page[i].thread = page[order[k]].thread => order[k] <= i
  BY <1>0, <1>2 DEF Opens
<1>6. \A h, k \in DOMAIN order : page[order[h]].thread = page[order[k]].thread => h = k
  <2> SUFFICES ASSUME NEW h \in DOMAIN order, NEW k \in DOMAIN order, page[order[h]].thread = page[order[k]].thread, h # k
               PROVE  FALSE
    OBVIOUS
  <2>1. order[h] = order[k]
    BY <1>0, <1>2, <1>5
  <2>2. order[h] < order[k] \/ order[k] < order[h]
    BY <1>2
  <2> QED BY <1>0, <1>2, <2>1, <2>2
<1>7. ASSUME NEW r \in ToSet(page)
      PROVE  \E k \in DOMAIN threads : \A h \in DOMAIN threads : r \in ToSet(threads[h].messages) <=> h = k
  <2> DEFINE V == {i \in DOMAIN page : page[i].thread = r.thread}
  <2>1. V \in SUBSET Nat /\ V # {}
    BY <1>0 DEF ToSet
  <2>2. PICK i \in V : \A j \in V : i <= j
    <3> HIDE DEF V
    <3> QED BY <2>1, LeastNatural
  <2>3. i \in Opens(page)
    <3>1. \A j \in 1 .. i - 1 : j \in DOMAIN page /\ ~(i <= j)
      OBVIOUS
    <3> QED BY <2>2, <3>1 DEF Opens
  <2>4. PICK k \in DOMAIN order : order[k] = i
    BY <1>2, <2>3
  <2>5. page[order[k]].thread = r.thread
    BY <2>2, <2>4
  <2>6. \A h \in DOMAIN order : r \in ToSet(members(h)) <=> page[order[h]].thread = r.thread
    BY <1>3
  <2> QED BY <1>4, <1>6, <2>4, <2>5, <2>6
<1>8. ASSUME NEW k \in DOMAIN order
      PROVE  Last(members(k)) \in ToSet(members(k)) /\ Last(members(k)).date = page[order[k]].date
  <2> DEFINE s == members(k)
             top == page[order[k]]
  <2>1. s \in Seq(T) /\ s # <<>> /\ ToSet(s) = {r \in ToSet(page) : r.thread = top.thread}
    BY <1>3
  <2>2. \A n, m \in DOMAIN s : n < m => s[n].date <= s[m].date
    BY <1>3
  <2>3. top \in ToSet(page) /\ top \in ToSet(s) /\ order[k] \in DOMAIN page
    BY <1>2, <2>1 DEF ToSet
  <2> HIDE DEF s, top
  <2>4. Len(s) \in DOMAIN s /\ Last(s) = s[Len(s)] /\ Last(s) \in ToSet(s) /\ \A n \in DOMAIN s : n = Len(s) \/ n < Len(s)
    BY <2>1 DEF Last, ToSet
  <2>5. PICK x \in DOMAIN page : Last(s) = page[x] /\ page[x].thread = top.thread
    BY <2>1, <2>4 DEF ToSet
  <2>6. order[k] <= x
    BY <1>5, <2>5 DEF top
  <2>7. Last(s).date <= top.date
    <3>1. top.date \in Nat
      BY <2>3 DEF Paged, Numbered, top
    <3>2. order[k] < x \/ order[k] = x
      BY <1>0, <2>3, <2>6
    <3>3. order[k] = x => Last(s).date = top.date
      BY <2>5 DEF top
    <3>4. order[k] < x => page[x].date <= top.date
      BY <2>3 DEF Paged, top
    <3> QED BY <2>5, <3>1, <3>2, <3>3, <3>4
  <2>8. top.date <= Last(s).date
    <3>1. PICK n \in DOMAIN s : top = s[n]
      BY <2>3 DEF ToSet
    <3>2. top.date \in Nat
      BY <2>3 DEF Paged, Numbered, top
    <3> QED BY <2>2, <2>4, <3>1, <3>2
  <2>9. Last(s).date \in Nat /\ top.date \in Nat
    BY <2>3, <2>5 DEF Paged, Numbered, top
  <2> QED BY <2>4, <2>7, <2>8, <2>9 DEF s, top
<1>9. ASSUME NEW k \in DOMAIN threads
      PROVE  /\ ToSet(threads[k].messages) = {r \in ToSet(page) : r.thread = threads[k].thread}
             /\ \A i, j \in DOMAIN threads[k].messages : i < j =>
                  threads[k].messages[i] # threads[k].messages[j] /\ threads[k].messages[i].date <= threads[k].messages[j].date
             /\ \A i \in DOMAIN threads[k].messages : Trust[threads[k].messages[i].source] <= Trust[threads[k].source]
             /\ \A h \in 1 .. k - 1 : threads[k].last <= threads[h].last
  <2> DEFINE s == members(k)
  <2>1. k \in DOMAIN order /\ threads[k].messages = s /\ threads[k].thread = page[order[k]].thread
        /\ threads[k].source = WeakestSource(s) /\ threads[k].last = Last(s).date
    BY <1>4
  <2>2. /\ s \in Seq(T) /\ s # <<>> /\ Apart(s)
        /\ ToSet(s) = {r \in ToSet(page) : r.thread = page[order[k]].thread}
        /\ \A n, m \in DOMAIN s : n < m => s[n].date <= s[m].date
        /\ \A n \in DOMAIN s : Numbered(s[n])
    BY <1>3, <2>1
  <2>3. Last(s).date = page[order[k]].date
    BY <1>8, <2>1
  <2> HIDE DEF s
  <2>4. \A i, j \in DOMAIN s : i < j => s[i] # s[j] /\ s[i].date <= s[j].date
    <3>1. DOMAIN s \in SUBSET Nat
      BY <2>2
    <3> QED BY <2>2, <3>1 DEF Apart
  <2>5. \A i \in DOMAIN s : Trust[s[i].source] <= Trust[WeakestSource(s)]
    BY <2>2, WeakestIs DEF Numbered
  <2>6. ASSUME NEW h \in 1 .. k - 1
        PROVE  threads[k].last <= threads[h].last
    <3>1. h \in DOMAIN order /\ h < k
      BY <1>2, <2>1
    <3>2. order[h] < order[k] /\ order[h] \in DOMAIN page /\ order[k] \in DOMAIN page
      BY <1>2, <2>1, <3>1
    <3>3. page[order[k]].date <= page[order[h]].date
      BY <3>2 DEF Paged
    <3>4. threads[h].last = page[order[h]].date
      BY <1>4, <1>8, <3>1
    <3> QED BY <2>1, <2>3, <3>3, <3>4
  <2> QED BY <2>1, <2>2, <2>4, <2>5, <2>6
<1> QED BY <1>7, <1>9 DEF ThreadsKept, threads

\* A page is the newest of what was asked for.
LEMMA PageIs ==
  ASSUME NEW T, answer \in Seq(T), Paged(answer), NEW limit \in 0 .. MaxLimit
  PROVE  LET page == ListMessages(Ask(Always, Always, limit)).messages IN page \in Seq(T) /\ Paged(page)
<1> DEFINE in   == Ask(Always, Always, limit)
           V    == {r \in ToSet(answer) : Passes(r, in)}
           all  == Those(answer, V)
           most == Clamp(limit, DefaultLimit, MaxLimit)
           n    == Min({most, Len(all)})
           page == SubSeq(all, 1, n)
<1>1. ListMessages(in).messages = page
  <2>1. in.limit = limit
    BY DEF Ask
  <2>2. ListMessages(in) = [messages |-> page, count |-> Len(page), matched |-> Len(all), truncated |-> Len(all) > most]
    BY <2>1 DEF ListMessages, Page
  <2> HIDE DEF page
  <2> QED BY <2>2
<1> HIDE DEF V
<1>2. /\ all \in Seq(T) /\ Apart(all)
      /\ \A i \in DOMAIN all : Numbered(all[i])
      /\ \A i, j \in DOMAIN all : i < j => all[j].date <= all[i].date
  <2>1. /\ all \in Seq(T) /\ ToSet(all) = ToSet(answer) \cap V /\ (Apart(answer) => Apart(all))
        /\ \A i, j \in DOMAIN all : i < j => \E k, l \in DOMAIN answer : k < l /\ all[i] = answer[k] /\ all[j] = answer[l]
    BY ThoseFacts
  <2> HIDE DEF all
  <2>2. \A i \in DOMAIN all : Numbered(all[i])
    BY <2>1 DEF Paged, ToSet
  <2>3. \A i, j \in DOMAIN all : i < j => all[j].date <= all[i].date
    BY <2>1 DEF Paged
  <2> QED BY <2>1, <2>2, <2>3 DEF Paged
<1> HIDE DEF all
<1>3. n \in Nat /\ n <= Len(all)
  <2>1. most \in Nat /\ Len(all) \in Nat
    <3>1. MaxLimit \in Nat /\ DefaultLimit \in Nat /\ limit \in Nat /\ limit <= MaxLimit
      BY TimesAssumption
    <3>2. Min({limit, MaxLimit}) = limit
      <4>1. {MaxLimit, limit} = {limit, MaxLimit}
        OBVIOUS
      <4> QED BY <3>1, <4>1, MinIs
    <3> QED BY <1>2, <3>1, <3>2 DEF Clamp
  <2> HIDE DEF most
  <2>2. CASE most <= Len(all)
    <3>1. {Len(all), most} = {most, Len(all)}
      OBVIOUS
    <3>2. Min({Len(all), most}) = most
      BY <2>1, <2>2, MinIs
    <3> QED BY <2>1, <2>2, <3>1, <3>2
  <2>3. CASE ~(most <= Len(all))
    <3>1. Min({most, Len(all)}) = Len(all)
      BY <2>1, <2>3, MinIs
    <3> QED BY <2>1, <3>1
  <2> QED BY <2>2, <2>3
<1> HIDE DEF n
<1>4. page \in Seq(T) /\ DOMAIN page = 1 .. n /\ \A i \in DOMAIN page : i \in DOMAIN all /\ page[i] = all[i]
  <2>1. 1 \in Int /\ n \in Int /\ \A i \in 1 .. n : all[i] \in T
    BY <1>2, <1>3
  <2>2. page \in Seq(T) /\ Len(page) = (IF 1 <= n THEN n - 1 + 1 ELSE 0)
        /\ \A i \in 1 .. n - 1 + 1 : page[i] = all[1 + i - 1]
    BY <2>1, SubSeqProperties
  <2> HIDE DEF page
  <2> QED BY <1>2, <1>3, <2>2
<1> HIDE DEF page
<1>5. Paged(page)
  BY <1>2, <1>4 DEF Paged, Apart
<1> QED BY <1>1, <1>4, <1>5 DEF in

LEMMA AnswerAgrees ==
  ASSUME ArchiveInv
  PROVE  ToolsAgree
<1> SUFFICES ASSUME at = "done"
             PROVE  /\ BoundsSplit
                    /\ \A limit \in 0 .. MaxLimit : ThreadsKept(ListMessages(Ask(Always, Always, limit)).messages)
  BY DEF ToolsAgree
<1>1. BoundsSplit
  BY BoundsHold
<1>2. answer \in Seq(ByMessage(found)) /\ Paged(answer)
  BY AnswerNumbers DEF Paged
<1>3. ASSUME NEW limit \in 0 .. MaxLimit
      PROVE  ThreadsKept(ListMessages(Ask(Always, Always, limit)).messages)
  <2> DEFINE page == ListMessages(Ask(Always, Always, limit)).messages
  <2>1. page \in Seq(ByMessage(found)) /\ Paged(page)
    BY <1>2, PageIs
  <2> HIDE DEF page
  <2>2. ThreadsKept(page)
    BY <2>1, GroupsAreTrue
  <2> QED BY <2>2 DEF page
<1> QED BY <1>1, <1>3

\* Two calls that split time at a date of a message, or at the end of the day that
\* starts there, list every message once between them, if a page holds them all; and
\* the conversations of any page have each of its messages once, oldest first, and are
\* as sure as their worst message: for any rules whose dests are apart, and any mail.
THEOREM AnswersAgree ==
  ASSUME DestsApart
  PROVE  Spec => []ToolsAgree
<1>1. Init => ArchiveInv
  BY IndexStarts
<1>2. ArchiveInv /\ [Next]_archiveVars => ArchiveInv'
  BY IndexSteps
<1>3. ArchiveInv => ToolsAgree
  BY AnswerAgrees
<1> QED BY <1>1, <1>2, <1>3, PTL DEF Spec
=============================================================================
