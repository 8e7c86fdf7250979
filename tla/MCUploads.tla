------------------------------ MODULE MCUploads ------------------------------
(* Small instances of Uploads for TLC.                                     *)
EXTENDS Uploads, TLC

ann == [sub |-> "ann", org |-> "org-demo-a"]
bob == [sub |-> "bob", org |-> "acme"]
eve == [sub |-> "eve", org |-> "acme"]

OneUser == {ann}
OrgMates == {bob, eve}

large == [size |-> 2, kind |-> "image", form |-> "raw"]
huge  == [size |-> 3, kind |-> "image", form |-> "raw"]
note  == [size |-> 1, kind |-> "doc", form |-> "raw"]
paper == [size |-> 2, kind |-> "doc", form |-> "raw"]
empty == [size |-> 0, kind |-> "doc", form |-> "raw"]

Docs == {note, paper}
Assorted == {empty, note, large, huge}

Symmetric == Permutations(Handlers) \cup Permutations(FileIds) \cup Permutations(JobIds)
=============================================================================
