----------------------------- MODULE MCPidFile ------------------------------
(* Instances of PidFile for TLC: the values are in the .cfg files. *)
EXTENDS PidFile
=============================================================================
