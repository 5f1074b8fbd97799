-------------------------- MODULE ProviderContract --------------------------
(***************************************************************************)
(* What provider.Provider.Fetch promises the pipeline, for one account:    *)
(* the state it returns, once saved, has nothing behind it that was not    *)
(* behind the state it was given, except mail the callback accepted.       *)
(* Pipeline.tla assumes it of every provider; the modules of the providers *)
(* are shown to implement it.                                              *)
(***************************************************************************)
CONSTANT Message       \* all the mail there may ever be

VARIABLES
  behind,              \* mail behind the persisted state
  active,              \* TRUE while a Fetch is in progress
  passed,              \* what that Fetch's callback has accepted
  excused              \* mail no longer asked for: deleted at the provider, or
                       \* outside the window of a first look

vars == <<behind, active, passed, excused>>

Init == behind = {} /\ ~active /\ passed = {} /\ excused = {}

Excuse ==
  /\ excused' \in SUBSET Message /\ excused \subseteq excused'
  /\ UNCHANGED <<behind, active, passed>>

Start ==
  /\ ~active /\ active' /\ passed' = {}
  /\ UNCHANGED <<behind, excused>>

\* fn returns nil for m.
Pass(m) ==
  /\ active /\ passed' = passed \cup {m}
  /\ UNCHANGED <<behind, active, excused>>

\* Fetch returns, with or without an error, and its state is saved or dropped.
Return ==
  /\ active /\ ~active' /\ passed' = {}
  /\ excused' \in SUBSET Message /\ excused \subseteq excused'
  /\ behind' \in SUBSET Message
  /\ behind' \subseteq behind \cup passed \cup excused'

Next == Excuse \/ Start \/ (\E m \in Message : Pass(m)) \/ Return

Spec == Init /\ [][Next]_vars
=============================================================================
