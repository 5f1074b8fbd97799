---------------------------- MODULE MCImapFetch ----------------------------
(***************************************************************************)
(* Instances of ImapFetch for TLC.                                         *)
(***************************************************************************)
EXTENDS ImapFetch

\* A bound: where only safety is asked the environment never stops failing, which
\* excludes nothing, since a step of a settled one is also a step of a failing one.
StillFailing == ~calm

\* A bound: at most one message arrives in the first of two mailboxes, enough for
\* it to be finished, with mail, when the second one is interrupted.
OneInFirst == uidnext[1] <= 2
=============================================================================
