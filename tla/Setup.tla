------------------------------- MODULE Setup -------------------------------
(***************************************************************************)
(* `mail-muncher init`: refuse a config that is there, settle every        *)
(* answer, prove that what they render to validates, write it.  Somebody   *)
(* else may create the file meanwhile, and the process may be killed.      *)
(*                                                                         *)
(* An answer is a text that YAML reads back as it is: the templates do not *)
(* quote.  Prompts, guidance and the comments of the file are left out.    *)
(***************************************************************************)
EXTENDS Config

CONSTANTS
  Invocations,  \* flags: [provider, account, dest, host, username, password_cmd, yes, force]
  Replies,      \* lines a user may type
  PasswordCmd   \* defaultPasswordCmd of the platform

VARIABLES
  opts,     \* the flags, then the answers
  step,     \* "check", "ask", "render", "open", "fill", "done", "failed"
  todo,     \* the answers not yet settled
  closed,   \* stdin has ended
  config,   \* the file: "missing", "partial", "ours" or "theirs"
  theirs    \* history: somebody else's configuration was there, or came

setupVars == <<opts, step, todo, closed, config, theirs>>

Default(field) ==
  CASE field = "account"      -> <<"personal">>
    [] field = "dest"         -> <<"~", "/", "mail">>
    [] field = "password_cmd" -> PasswordCmd
    [] OTHER                  -> <<>>

-----------------------------------------------------------------------------
RefuseExistingConfig ==
  /\ step = "check"
  /\ step' = IF ~opts.force /\ config # "missing" THEN "failed" ELSE "ask"
  /\ UNCHANGED <<opts, todo, closed, config, theirs>>

Settle(field, value) ==
  /\ opts' = [opts EXCEPT ![field] =
       IF field \in {"account", "dest"} THEN TrimSpace(Or(value, Default(field)))
       ELSE IF field = "provider" THEN Tidy(value) ELSE TrimSpace(value)]
  /\ IF field = "provider" /\ opts'.provider \notin {<<"gmail">>, <<"imap">>}
     THEN step' = "failed" /\ UNCHANGED todo
     ELSE /\ todo' = Tail(todo) \o (IF field = "dest" /\ opts.provider = <<"imap">> THEN <<"host", "username", "password_cmd">>
                                    ELSE <<>>)
          /\ step' = IF todo' = <<>> THEN "render" ELSE "ask"

NoAnswer == step' = "failed" /\ UNCHANGED <<opts, todo>>

\* A blank line takes the default; the end of the input too, if there is one.
Prompt(field) ==
  \E line \in Replies, ends \in {TRUE, closed} :
    /\ closed' = ends /\ (closed => line = <<>>)
    /\ IF ~Blank(line) THEN Settle(field, TrimSpace(line))
       ELSE IF ends /\ Default(field) = <<>> THEN NoAnswer
       ELSE Settle(field, Default(field))

\* A flag, else --yes's default where there is an honest one, else the prompt.
Answer ==
  /\ step = "ask"
  /\ LET field == Head(todo) IN
       CASE opts[field] # <<>> -> Settle(field, opts[field]) /\ UNCHANGED closed
         [] opts[field] = <<>> /\ opts.yes ->
              IF Default(field) = <<>> THEN NoAnswer /\ UNCHANGED closed
              ELSE Settle(field, Default(field)) /\ UNCHANGED closed
         [] OTHER -> Prompt(field)
  /\ UNCHANGED <<config, theirs>>

\* The two templates, as the decoder reads them.
RenderConfig(o) ==
  [state_dir |-> <<>>, quarantine_dir |-> <<>>, on_message_failure |-> <<>>, on_degraded_filter |-> <<>>,
   accounts |-> <<[name |-> o.account, provider |-> o.provider,
     gmail |-> IF o.provider = <<"gmail">>
               THEN [credentials |-> <<"credentials">>, token |-> <<"token">>, lookback |-> <<>>, spam |-> FALSE]
               ELSE NoBlock,
     imap  |-> IF o.provider = <<"imap">>
               THEN [host |-> o.host, port |-> 993, tls |-> "on", username |-> o.username,
                     password_cmd |-> o.password_cmd, mailboxes |-> <<<<"INBOX">>>>, lookback |-> <<>>]
               ELSE NoBlock]>>,
   rules |-> <<[name |-> <<"recent">>, account |-> <<>>, dest |-> o.dest, formats |-> <<<<"eml">>, <<"markdown">>>>,
                match |-> [kind |-> "map", keys |-> <<"newer_than">>, values |-> <<[kind |-> "scalar", value |-> <<"72h">>]>>]]>>]

\* Nothing it names is on disk yet, which is a warning.
ValidateGenerated ==
  /\ step = "render"
  /\ step' = IF Usable(Validate(Load(RenderConfig(opts)), {}, {})) THEN "open" ELSE "failed"
  /\ UNCHANGED <<opts, todo, closed, config, theirs>>

\* Mutant: O_TRUNC always: the check made at the start is enough.
OpenConfigTruncating ==
  /\ step = "open"
  /\ step' = "fill" /\ config' = "partial"
  /\ UNCHANGED <<opts, todo, closed, theirs>>
\* O_EXCL, or O_TRUNC with --force.
OpenConfig ==
  /\ step = "open"
  /\ \/ step' = "failed" /\ UNCHANGED config
     \/ (opts.force \/ config = "missing") /\ step' = "fill" /\ config' = "partial"
  /\ UNCHANGED <<opts, todo, closed, theirs>>

WriteConfigFile ==
  /\ step = "fill"
  /\ \/ step' = "done" /\ config' = "ours"
     \/ step' = "failed" /\ UNCHANGED config
  /\ UNCHANGED <<opts, todo, closed, theirs>>

Kill ==
  /\ step \notin {"done", "failed"} /\ step' = "failed"
  /\ UNCHANGED <<opts, todo, closed, config, theirs>>

\* Another init, or a file copied into place.
SomebodyWrites ==
  /\ config = "missing" /\ step \notin {"done", "failed"}
  /\ config' = "theirs" /\ theirs' = TRUE
  /\ UNCHANGED <<opts, step, todo, closed>>

Init ==
  /\ opts \in Invocations /\ step = "check" /\ closed = FALSE
  /\ todo = <<"provider", "account", "dest">>
  /\ theirs \in BOOLEAN /\ config = IF theirs THEN "theirs" ELSE "missing"

Next ==
  \/ RefuseExistingConfig \/ Answer \/ ValidateGenerated \/ OpenConfig \/ WriteConfigFile
  \/ Kill \/ SomebodyWrites

Spec == Init /\ [][Next]_setupVars

-----------------------------------------------------------------------------
(* Property *)

\* Without --force somebody's configuration stays as it is, also one that appears
\* after init has looked and while it asks.
NeverClobbered == theirs /\ ~opts.force => config = "theirs"
=============================================================================
