----------------------------- MODULE MCPipeline -----------------------------
(***************************************************************************)
(* Instances of Pipeline for TLC.  Rule 1 consults the list "vip" and asks *)
(* for two formats; rule 2, evaluated after it, is served by its own       *)
(* predicates and stores elsewhere.  Mail a1 and a2 arrive in account 1,   *)
(* mail b1 in account 2.                                                   *)
(***************************************************************************)
EXTENDS Pipeline, TLC

MCAccountOf == [m \in Messages |-> IF m = "b1" THEN 2 ELSE 1]
MCScope     == <<Accounts, Accounts>>
MCInline    == <<{"a1"} \cap Messages, {"a2", "b1"} \cap Messages>>
MCListOf    == <<"vip", NoList>>
MCFormatsOf == <<{"eml", "md"}, {"eml"}>>
MCDestOf    == <<"news", "other">>

\* The list whole, missing, or emptied by its owner.
Whole   == [entries |-> Messages, readable |-> TRUE]
Missing == [entries |-> {}, readable |-> FALSE]
Emptied == [entries |-> {}, readable |-> TRUE]
AllListStates  == {Whole, Missing, Emptied}
WholeOrMissing == {Whole, Missing}
EmptyOrMissing == {Emptied, Missing}

\* Live runners that are neither daemons nor servers are interchangeable.
Interchangeable == Permutations(Runners \ (Daemons \cup Servers))

\* A bound: where only safety is asked the environment never stops failing, which
\* excludes nothing, since a step of a settled one is also a step of a failing one.
StillFailing == ~calm
=============================================================================
