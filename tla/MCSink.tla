------------------------------- MODULE MCSink -------------------------------
(***************************************************************************)
(* Instances of Sink for TLC.                                              *)
(***************************************************************************)
EXTENDS Sink
=============================================================================
