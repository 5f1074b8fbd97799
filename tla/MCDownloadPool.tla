--------------------------- MODULE MCDownloadPool ---------------------------
(***************************************************************************)
(* Instances of DownloadPool for TLC.                                      *)
(***************************************************************************)
EXTENDS DownloadPool
=============================================================================
