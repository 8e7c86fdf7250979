---------------------------- MODULE MCMediaSystem ----------------------------
(* Small instances of MediaSystem for TLC.                                 *)
EXTENDS MediaSystem

ann == [sub |-> "ann", org |-> "org-demo-a"]
OneUser == {ann}

photo  == [size |-> 1, kind |-> "image", form |-> "raw"]
broken == [size |-> 2, kind |-> "image", form |-> "broken"]
garbled == [size |-> 1, kind |-> "image", form |-> "broken"]

Photos == {photo}
AnyImage == {photo, broken}
SameSize == {photo, garbled}

Symmetric == Permutations(Handlers) \cup Permutations(FileIds)
                \cup Permutations(JobIds) \cup Permutations(Workers)
=============================================================================
