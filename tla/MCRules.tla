------------------------------ MODULE MCRules ------------------------------
(***************************************************************************)
(* What stands before a message is filtered: the rules and their lists,    *)
(* `init`, which writes a first configuration, and the names and ids that  *)
(* are taken from a message; each checked in behaviours where the others   *)
(* rest.  The rules: one configuration, altered a field at a time, two     *)
(* list files, messages from two accounts.                                 *)
(***************************************************************************)
EXTENDS Rules

VARIABLE part   \* the one that moves

\* A rule's match tree is walked as MatchTree does.
T == INSTANCE MatchTree
MCCompiles(n) == T!CompileNode(n)
MCExpandNode(n) == T!ExpandPathsInNode(n)
MCPathRefs(n) == T!CollectFilePathRefs(n)
MCFileRefs(n) == T!CompiledRefs(n)
MCMatches(n, msg, lists, now) == T!MatchNode(n, msg, lists, now)
MCListedFiles(n) == T!MatchFilePaths(n)
MCAliasedPaths(n) == T!AliasFilePaths(n)

MCLowerCase == [t \in {"Shop", "COM", "HOLD", "Gmail", "Subject", "Imap", "A", "MD"} |->
  CASE t = "Shop" -> "shop" [] t = "COM" -> "com" [] t = "HOLD" -> "hold" [] t = "Gmail" -> "gmail" [] t = "Imap" -> "imap"
    [] t = "A" -> "a" [] t = "MD" -> "md" [] OTHER -> "subject"]
MCEnv == "$D" :> <<"/", "d">>
MCHome == <<"/", "h">>
MCDuration == <<"1h">> :> 1 @@ <<"72h">> :> 72 @@ <<"720h">> :> 720 @@ <<"-1h">> :> -1

Doms == <<"/", "d", "/", "doms">>
Pats == <<"/", "h", "/", "pats">>
MCPaths == {Doms, Pats}

Ann == <<"ann", "@", "Shop", ".", "COM">>
Bob == <<"bob", "#", "1", "@", "x", ".", "Shop", ".", "COM", ".">>
Cid == <<"cid", "@", "bishop", ".", "com">>
Texts == {Ann, Bob, Cid, <<>>, <<"sale">>, <<"cid">>}
Containing(w) == {t \in Texts : w \in ToSet(t)}
MCRegex == (<<".*">> :> Texts) @@ (<<"bob", "#">> :> Containing("bob")) @@ (<<"bob">> :> Containing("bob"))
             @@ (<<"cid">> :> Containing("cid")) @@ (<<"sale">> :> Containing("sale"))

Mail(account, from, subject, date) ==
  [account |-> account, from |-> <<from>>, to |-> <<Cid>>, subject |-> subject, date |-> date, labels |-> {<<"Mine">>},
   attachments |-> 0, headers |-> <<[name |-> <<"Subject">>, value |-> subject]>>]
MCMessages == "ann" :> Mail(<<"work">>, Ann, <<>>, 1) @@ "bob" :> Mail(<<"home">>, Bob, <<"sale">>, 900)
                @@ "cid" :> Mail(<<"home">>, Cid, <<"cid">>, NoDate)
MCNow == 1000

File(lines) == [there |-> TRUE, lines |-> lines, cut |-> FALSE]
Gone == [there |-> FALSE, lines |-> <<>>, cut |-> FALSE]
Sound == File(<<<<"bob", "#">>, <<"cid">>>>)
MCContents == {
  Gone,
  File(<<<<"@", "Shop", ".", "COM", " ", "#", "sale">>, <<"#", "bob">>, <<"shop", ".", "com">>>>),
  Sound,
  File(<<<<".*">>, <<"(">>, <<" ", "cid">>>>),
  [File(<<<<"cid">>>>) EXCEPT !.cut = TRUE]}

-----------------------------------------------------------------------------
S(t) == [kind |-> "scalar", value |-> t]
Items(ns) == [kind |-> "seq", items |-> ns]
Node(key, value) == [kind |-> "map", keys |-> <<key>>, values |-> <<value>>]
Alias(n, under) == [kind |-> "alias", of |-> n, under |-> under]
DomsFile == Node("from_domains_file", S(<<"$D", "/", "doms">>))
PatsFile == Node("from_regex_file", S(<<"~", "/", "pats">>))
AnyOf(ns) == Node("any", Items(ns))
AllOf(ns) == Node("all", Items(ns))
Header(name, regex) == [kind |-> "map", keys |-> <<"name", "regex">>, values |-> <<S(name), S(regex)>>]

\* Trees that compile and trees that do not.
Trees == {
  DomsFile, AnyOf(<<DomsFile, PatsFile>>),
  AllOf(<<Node("not", Alias(PatsFile, "not")), Alias(DomsFile, "all")>>),
  AnyOf(<<DomsFile, Node("from_domains_file", Alias(S(<<"$D", "/", "doms">>), "from_domains_file"))>>),
  AnyOf(<<Node("label", S(Doms)), Node("from_domains_file", Alias(S(Doms), "label"))>>),
  AnyOf(<<Node("older_than", S(<<"720h">>)), Node("header", Header(<<"subject">>, <<"sale">>))>>),
  AllOf(<<Node("newer_than", S(<<"720h">>)), Node("from_domains", Items(<<S(<<"@", "Shop", ".", "COM">>)>>))>>),
  AllOf(<<Node("label", S(<<"Mine">>)), Node("has_attachment", S(<<"false">>)), Node("to_regex", S(<<"cid">>))>>),
  AnyOf(<<Node("subject_regex", S(<<"cid">>)), Node("from_regex", S(<<"bob">>))>>),
  AnyOf(<<>>), Node("older_than", S(<<"-1h">>)), Node("from_domains", Items(<<S(<<"@", ".">>)>>)),
  Node("header", Header(<<" ">>, <<"sale">>)), Node("subject_regex", S(<<"(">>)), Node("has_attachment", S(<<"yes">>)),
  Node("not", S(<<"cid">>)), Node("from_regex_file", S(<<" ">>)), Node("spam", S(<<"cid">>)),
  [kind |-> "none"], [kind |-> "null"]}

Gmail == [name |-> <<"work">>, provider |-> <<"Gmail">>, imap |-> NoBlock,
          gmail |-> [credentials |-> <<"~", "/", "c">>, token |-> <<"~", "/", "t">>, lookback |-> <<>>, spam |-> FALSE]]
Imap == [name |-> <<"home">>, provider |-> <<"imap">>, gmail |-> NoBlock,
         imap |-> [host |-> <<"h">>, port |-> 0, username |-> <<"u">>, password_cmd |-> <<"p">>, mailboxes |-> <<>>,
                   lookback |-> <<>>, tls |-> NoTLS]]
Rule(name, account, tree) == [name |-> name, account |-> account, match |-> tree, dest |-> <<"~", "/", "a">>, formats |-> <<>>]

Base == [state_dir |-> <<>>, quarantine_dir |-> <<>>, on_message_failure |-> <<>>, on_degraded_filter |-> <<" ", "HOLD">>,
         accounts |-> <<Gmail, Imap>>,
         rules |-> <<Rule(<<"one">>, <<"home">>, PatsFile), Rule(<<"two">>, <<>>, DomsFile)>>]

MCDocuments ==
  {[Base EXCEPT !.rules[2].match = t] : t \in Trees}
    \cup {[Base EXCEPT !.on_message_failure = t] : t \in {<<"abort">>, <<"aborted">>}}
    \cup {[Base EXCEPT !.on_degraded_filter = t] : t \in {<<"proceed">>, <<"holding">>}}
    \cup {[Base EXCEPT !.accounts[1].gmail.lookback = <<"-1h">>], [Base EXCEPT !.accounts[1].imap = Imap.imap],
          [Base EXCEPT !.accounts[2].imap.port = 70000], [Base EXCEPT !.accounts[2].imap.mailboxes = <<<<" ">>>>],
          [Base EXCEPT !.accounts[2].name = <<"work">>], [Base EXCEPT !.accounts[1].provider = <<>>],
          [Base EXCEPT !.accounts = <<>>], [Base EXCEPT !.accounts = <<Imap>>, !.rules[1].account = <<"work">>],
          [Base EXCEPT !.rules[1].name = <<"two">>], [Base EXCEPT !.rules[1].account = <<"office">>],
          [Base EXCEPT !.rules[1].dest = <<" ">>], [Base EXCEPT !.rules[1].formats = <<<<"pdf">>>>],
          [Base EXCEPT !.rules[1].formats = <<<<"eml">>, <<"markdown">>>>, !.state_dir = <<"$D">>]}

-----------------------------------------------------------------------------
Flags == [provider |-> <<>>, account |-> <<>>, dest |-> <<>>, host |-> <<>>, username |-> <<>>, password_cmd |-> <<>>,
          yes |-> FALSE, force |-> FALSE]
Unattended == [Flags EXCEPT !.yes = TRUE, !.provider = <<"Imap">>, !.host = <<"h">>]
MCInvocations == {Flags, [Flags EXCEPT !.force = TRUE], [Unattended EXCEPT !.provider = <<"gmail">>],
                  Unattended, [Unattended EXCEPT !.username = <<"u">>, !.account = <<" ">>],
                  [Flags EXCEPT !.provider = <<"imap">>, !.host = <<" ">>]}
MCReplies == {<<>>, <<" ", "Imap">>, <<"gmail">>}
MCPasswordCmd == <<"pass">>

MCLetters == {"a", "b", "2", "md", "eml", "bin", "attachment"}
MCNumeral(n) == ToString(n)
FileNames == {<<"a", ".", "md">>, <<"A", ".", "md">>, <<"a", ".", "MD">>, <<"..", "/", "a", ".", "md">>, <<"a", "-", "2", ".", "md">>,
              <<"a", ".", "md", ".", "attachment">>, <<".", "eml">>, <<" ", "!">>, <<"a", "b", "a", "b", ".", "bin">>,
              <<"a", "b", "a", "b", "a", ".", "eml">>, <<"c:", "\\", "b", ".">>}
Subjects == [1 .. 4 -> {"a", "A", " ", "!"}]
Noises == [1 .. 2 -> {" ", "<", ">", "word"}] \cup {<<>>}
Nothing == [names |-> <<>>, subject |-> <<"a">>, noise |-> <<>>, ancestors |-> <<>>]
Chains == {<<<<"1", "2">>, <<"2", "3">>>>, <<<<"1", "1">>, <<>>, <<"2", "1">>>>, <<>>}
Samples ==
  {[Nothing EXCEPT !.names = n] : n \in UNION {[1 .. k -> FileNames] : k \in 1 .. 3}}
    \cup {[Nothing EXCEPT !.subject = t] : t \in Subjects}
    \cup {[Nothing EXCEPT !.noise = t, !.ancestors = c] : t \in Noises, c \in Chains}

-----------------------------------------------------------------------------
\* A part that rests shows one of its initial states.
RulesRest == config = Load(Base)
SetupRest == opts = Flags /\ theirs

Start ==
  /\ part \in {"rules", "setup", "names"}
  /\ part # "rules" => disk = [p \in Paths |-> Sound]
  /\ Init /\ I!Init
  /\ part # "rules" => RulesRest
  /\ part # "setup" => SetupRest
  /\ IF part = "names" THEN sample \in Samples ELSE sample = Nothing

Steps ==
  \/ part = "rules" /\ Next /\ UNCHANGED <<part, setup, sample>>
  \/ part = "setup" /\ I!Next /\ UNCHANGED <<part, filterVars, sample>>

vars == <<part, filterVars, setup, sample>>

\* Only the rules' cycles recur.
Benches ==
  Start /\ [][Steps]_vars
    /\ WF_vars(part = "rules" /\ BeginCycle /\ UNCHANGED <<part, setup, sample>>)
    /\ WF_vars(part = "rules" /\ Preload /\ UNCHANGED <<part, setup, sample>>)
    /\ WF_vars(part = "rules" /\ EndCycle /\ UNCHANGED <<part, setup, sample>>)
=============================================================================
