------------------------------ MODULE MCFolders ------------------------------
(***************************************************************************)
(* Folders for TLC: one subject in two organisations, so that the unique   *)
(* index of folder names, which leaves out org_id, has something to say.   *)
(***************************************************************************)
EXTENDS Folders

MCCallers == {[sub |-> "ann", org |-> "red"], [sub |-> "ann", org |-> "blue"]}
=============================================================================
