------------------------------- MODULE Config -------------------------------
(***************************************************************************)
(* internal/config: Load (defaults and path expansion) and Validate, over  *)
(* a document the YAML decoder has accepted.  Validate's findings are a    *)
(* set of <<severity, field, index>>; their wording is left out.           *)
(*                                                                         *)
(* A document: [state_dir, quarantine_dir, on_message_failure,             *)
(* on_degraded_filter, accounts, rules]; an account: [name, provider,      *)
(* gmail, imap], where a block that is not there is NoBlock; a rule:       *)
(* [name, account, match, dest, formats].  Values are texts.               *)
(***************************************************************************)
EXTENDS Texts

\* The walks over a rule's match tree, which are those of MatchTree: nothing here
\* depends on what a tree looks like, but that one with no nodes has a kind.
CONSTANTS
  Compiles(_),     \* compileNode accepts the tree
  ExpandNode(_),   \* the tree with its paths expanded
  PathRefs(_)      \* the paths `validate` looks at

NoBlock == <<>>
NoTLS == "omitted"

DefaultStateDir == <<"~", "/", "state">>
DefaultLookback == <<"720h">>
Policies == {<<"quarantine">>, <<"abort">>}
Degradations == {<<"hold">>, <<"fail">>, <<"proceed">>}
KnownFormats == {<<"eml">>, <<"markdown">>}

Blank(t) == TrimSpace(t) = <<>>
Or(t, default) == IF Blank(t) THEN default ELSE t
Tidy(t) == Lower(TrimSpace(t))

-----------------------------------------------------------------------------
(* Load *)

DefaultAccount(a) ==
  [a EXCEPT
     !.provider = Tidy(@),
     !.gmail = IF @ = NoBlock THEN @ ELSE [@ EXCEPT !.lookback = Or(@, DefaultLookback)],
     !.imap  = IF @ = NoBlock THEN @
               ELSE [@ EXCEPT !.lookback  = Or(@, DefaultLookback),
                              !.port      = IF @ = 0 THEN 993 ELSE @,
                              !.mailboxes = IF @ = <<>> THEN <<<<"INBOX">>>> ELSE @,
                              !.tls       = IF @ = NoTLS THEN "on" ELSE @]]

DefaultRule(r) ==
  [r EXCEPT !.formats = IF @ = <<>> THEN <<<<"eml">>>> ELSE [i \in DOMAIN @ |-> Tidy(@[i])]]

\* A policy is tidied, and filled in when it is missing, but never corrected; a
\* missing provider stays missing.
ApplyDefaults(c) ==
  LET state == Or(c.state_dir, DefaultStateDir) IN
  [c EXCEPT
     !.state_dir          = state,
     !.quarantine_dir     = Or(@, state \o <<"/", "quarantine">>),
     !.on_message_failure = Or(Tidy(@), <<"quarantine">>),
     !.on_degraded_filter = Or(Tidy(@), <<"hold">>),
     !.accounts = [i \in DOMAIN @ |-> DefaultAccount(@[i])],
     !.rules    = [i \in DOMAIN @ |-> DefaultRule(@[i])]]

ExpandAccount(a) ==
  IF a.gmail = NoBlock THEN a
  ELSE [a EXCEPT !.gmail.credentials = ExpandPath(@), !.gmail.token = ExpandPath(@)]

ExpandRule(r) == [r EXCEPT !.dest = ExpandPath(@), !.match = ExpandNode(@)]

ExpandPaths(c) ==
  [c EXCEPT
     !.state_dir      = ExpandPath(@),
     !.quarantine_dir = ExpandPath(@),
     !.accounts       = [i \in DOMAIN @ |-> ExpandAccount(@[i])],
     !.rules          = [i \in DOMAIN @ |-> ExpandRule(@[i])]]

Load(c) == ExpandPaths(ApplyDefaults(c))

\* The accessors, which default a configuration again that no Load has seen.
MessageFailure(c) == IF c.on_message_failure \in Policies THEN c.on_message_failure ELSE <<"quarantine">>
DegradedFilter(c) == IF c.on_degraded_filter \in Degradations THEN c.on_degraded_filter ELSE <<"hold">>
QuarantineRoot(c) ==
  IF ~Blank(c.quarantine_dir) THEN TrimSpace(c.quarantine_dir)
  ELSE IF ~Blank(c.state_dir) THEN TrimSpace(c.state_dir) \o <<"/", "quarantine">>
  ELSE <<>>

AppliesTo(rule, account) == rule.account \in {<<>>, account}

-----------------------------------------------------------------------------
(* Validate.  `there` is the set of paths that are files now, `spoiled` those *)
(* of them that hold a line the filter's parser complains about.             *)

Error(field, i)   == <<"error", field, i>>
Warning(field, i) == <<"warning", field, i>>
When(condition, problem) == IF condition THEN {problem} ELSE {}

ValidatePolicies(c) ==
  UNION {
    When(~Blank(c.on_message_failure) /\ c.on_message_failure \notin Policies, Error("on_message_failure", 0)),
    When(~Blank(c.on_degraded_filter) /\ c.on_degraded_filter \notin Degradations, Error("on_degraded_filter", 0)),
    When(c.on_degraded_filter = <<"proceed">>, Warning("on_degraded_filter", 0)),
    When(MessageFailure(c) = <<"quarantine">> /\ QuarantineRoot(c) = <<>>, Error("quarantine_dir", 0))}

\* Accounts or rules: each needs a name, and one of its own.
ValidateNames(things, field) ==
  {Error(field, i) : i \in {j \in DOMAIN things :
     Blank(things[j].name) \/ \E k \in 1 .. j - 1 : things[k].name = things[j].name}}

ValidateLookback(text, field, i) ==
  When(~Blank(text) /\ (text \notin DOMAIN Duration \/ Duration[text] <= 0), Error(field, i))

ValidateFile(path, field, i, there) ==
  IF Blank(path) THEN {Error(field, i)} ELSE When(path \notin there, Warning(field, i))

ValidateGmail(g, i, there) ==
  ValidateFile(g.credentials, "credentials_file", i, there)
    \cup ValidateFile(g.token, "token_file", i, there)
    \cup ValidateLookback(g.lookback, "initial_lookback", i)
    \cup When(g.spam, Warning("include_spam_trash", i))

ValidateIMAP(b, i) ==
  UNION {
    When(Blank(b.host), Error("host", i)),
    When(b.port # 0 /\ b.port \notin 1 .. 65535, Error("port", i)),
    When(Blank(b.username), Error("username", i)),
    When(Blank(b.password_cmd), Error("password_cmd", i)),
    When(\E j \in DOMAIN b.mailboxes : Blank(b.mailboxes[j]), Error("mailboxes", i)),
    When(\E j, k \in DOMAIN b.mailboxes : j < k /\ b.mailboxes[j] = b.mailboxes[k] /\ ~Blank(b.mailboxes[j]),
         Warning("mailboxes", i)),
    ValidateLookback(b.lookback, "initial_lookback", i),
    When(b.tls = "off", Warning("tls", i))}

\* Exactly one block, the one the provider names.
ValidateAccount(a, i, there) ==
  CASE a.provider = <<"gmail">> ->
         When(a.imap # NoBlock, Error("imap", i))
           \cup (IF a.gmail = NoBlock THEN {Error("gmail", i)} ELSE ValidateGmail(a.gmail, i, there))
    [] a.provider = <<"imap">> ->
         When(a.gmail # NoBlock, Error("gmail", i))
           \cup (IF a.imap = NoBlock THEN {Error("imap", i)} ELSE ValidateIMAP(a.imap, i))
    [] OTHER -> {Error("provider", i)}

\* The names rules may refer to.
AccountNames(c) == {c.accounts[i].name : i \in {j \in DOMAIN c.accounts : ~Blank(c.accounts[j].name)}}

ValidateAccounts(c, there) ==
  When(c.accounts = <<>>, Error("accounts", 0))
    \cup ValidateNames(c.accounts, "account.name")
    \cup UNION {ValidateAccount(c.accounts[i], i, there) : i \in DOMAIN c.accounts}

ValidateFormats(r, i) ==
  When(ToSet(r.formats) \ KnownFormats # {}, Error("formats", i))
    \cup When(\E j, k \in DOMAIN r.formats : j < k /\ r.formats[j] = r.formats[k] /\ r.formats[j] \in KnownFormats,
              Warning("formats", i))

ValidateMatch(r, i, there, spoiled) ==
  IF r.match.kind \in {"none", "null"} THEN {Error("match", i)}
  ELSE When(~Compiles(r.match), Error("match", i))
         \cup UNION {IF Blank(ref.path) THEN {Error("match", i)}
                    ELSE When(ref.path \notin there \/ (ref.kind = "from_regex_file" /\ ref.path \in spoiled),
                              Warning("match", i)) : ref \in PathRefs(r.match)}

\* Mutant: the reference is not checked.
UnknownAccountNever(c, r) == FALSE
UnknownAccount(c, r) == r.account # <<>> /\ r.account \notin AccountNames(c)

ValidateRules(c, there, spoiled) ==
  When(c.rules = <<>>, Warning("rules", 0))
    \cup ValidateNames(c.rules, "rule.name")
    \cup UNION {UNION {
           When(UnknownAccount(c, c.rules[i]), Error("rule.account", i)),
           When(Blank(c.rules[i].dest), Error("dest", i)),
           ValidateFormats(c.rules[i], i),
           ValidateMatch(c.rules[i], i, there, spoiled)} : i \in DOMAIN c.rules}

Validate(c, there, spoiled) ==
  When(Blank(c.state_dir), Error("state_dir", 0))
    \cup ValidatePolicies(c)
    \cup ValidateAccounts(c, there)
    \cup ValidateRules(c, there, spoiled)

Usable(problems) == \A p \in problems : p[1] # "error"
=============================================================================
