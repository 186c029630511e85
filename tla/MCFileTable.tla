---------------------------- MODULE MCFileTable ----------------------------
(* Sets for the runs of FileTable. *)
EXTENDS FileTable, TLC

ReadOrBoth == {{"read"}, {"read", "write"}}

Symmetric == Permutations(Pids)
=============================================================================
