---------------------------- MODULE MCProcesses ----------------------------
(***************************************************************************)
(* Instances of Processes for TLC.                                         *)
(***************************************************************************)
EXTENDS Processes

CONSTANT s   \* the one MCP server
MCServerOf == [c \in Calls |-> s]
=============================================================================
