---------------------------- MODULE MCGmailFetch ----------------------------
(***************************************************************************)
(* Instances of GmailFetch for TLC.                                        *)
(***************************************************************************)
EXTENDS GmailFetch
=============================================================================
