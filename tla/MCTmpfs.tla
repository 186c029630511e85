------------------------------ MODULE MCTmpfs ------------------------------
(* Tmpfs with bytes 0 and 1 and buffers that reach over three blocks. *)
EXTENDS Tmpfs, TLC

MCBuffers == {<<1>>, <<1, 0, 0, 1>>}
MCBytes == {0, 1}
MCBootMemory == {[f \in Frames |-> [at \in InBlock |-> 0]]}

Symmetric == Permutations(Inodes) \cup Permutations(Names)
=============================================================================
