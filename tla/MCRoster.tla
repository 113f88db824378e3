------------------------------ MODULE MCRoster ------------------------------
(* Instances of Roster for TLC: the values are in the .cfg files. *)
EXTENDS Roster
=============================================================================
