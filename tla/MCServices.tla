----------------------------- MODULE MCServices -----------------------------
(***************************************************************************)
(* The archive and its tools, an account's credentials, and its files on   *)
(* disk: three parts that share nothing, each checked in behaviours where  *)
(* the other two rest.                                                     *)
(***************************************************************************)
EXTENDS Archive, Services

VARIABLE part   \* the one that moves

-----------------------------------------------------------------------------
MCAnswers == {[kind |-> "http", code |-> c, reason |-> ""] : c \in {404, 429}}
MCAccount == <<"work">>
MCIds == <<<<"work", ":", "INBOX", ":", "7">>, <<"work", ":", "INBOX", ":", "8">>>>

-----------------------------------------------------------------------------
P(dir, id, ext) == [dir |-> dir, id |-> id, ext |-> ext]
MCRoots == <<[rule |-> "jobs", account |-> "", dir |-> <<"home", "link">>, real |-> <<"disk">>],
             [rule |-> "rest", account |-> "work", dir |-> <<"home", "rest">>, real |-> <<"home", "rest">>]>>
MCSharedRoots == [i \in 1 .. 2 |-> [MCRoots[i] EXCEPT !.dir = MCRoots[1].dir, !.real = MCRoots[1].real]]
MCPlaces == <<P(<<"disk", "07">>, 1, "eml"), P(<<"disk", "07">>, 1, "md"), P(<<"disk", "07", "1.attachments">>, 2, "md"),
              P(<<"home", "rest", "07">>, 0, "md"), P(<<"home", "rest", "07">>, 2, "eml"), P(<<"home", "rest", "07">>, 3, "md")>>
Mail(id, date, dated, refs, native, fenced) ==
  [id |-> id, account |-> "work", date |-> date, dated |-> dated, refs |-> refs, reply |-> 0, msgid |-> 100 + id, native |-> native,
   old |-> FALSE, from |-> "ann", words |-> {"w"}, body |-> 3, fenced |-> fenced, size |-> 1]
MCMails == [first |-> Mail(1, 5, TRUE, <<>>, 900, TRUE), torn |-> Mail(1, 5, TRUE, <<>>, 900, FALSE),
            reply |-> Mail(2, 5, FALSE, <<101>>, 900, TRUE), other |-> Mail(3, 6, TRUE, <<101>>, 0, TRUE)]

-----------------------------------------------------------------------------
vars == <<part, archiveVars, credentials, storage>>

Start ==
  /\ part \in {"archive", "credentials", "storage"}
  /\ Init /\ C!Init /\ S!Init
  /\ part # "archive" => exists = [i \in DOMAIN Roots |-> TRUE]

Steps ==
  \/ part = "archive" /\ Next /\ UNCHANGED <<part, credentials, storage>>
  \/ part = "credentials" /\ C!Next /\ UNCHANGED <<part, archiveVars, storage>>
  \/ part = "storage" /\ S!Next /\ UNCHANGED <<part, archiveVars, credentials>>

\* A resting account has no token yet, and so nothing that fairness would ask of it.
MCSpec == Start /\ [][Steps]_vars /\ C!Fairness
=============================================================================
