---------------------------- MODULE BoundedFifo ----------------------------
(***************************************************************************)
(* What a ring buffer promises: a first-in first-out queue of bounded      *)
(* length.  A write takes as much of its data as there is room for and     *)
(* drops the rest, a read gives as much as there is of what was asked for. *)
(***************************************************************************)
EXTENDS Integers, Sequences

CONSTANTS
    Values,     \* bytes
    Capacity,   \* most bytes in the queue
    MaxTransfer \* most bytes written or asked for at once

VARIABLES
    queue,      \* the bytes in the queue, oldest first
    taken,      \* how many bytes the last write took
    given       \* the bytes the last read gave

absVars == <<queue, taken, given>>

Least(a, b) == IF a < b THEN a ELSE b

AbsInit == queue = <<>> /\ taken = 0 /\ given = <<>>

Put(n) ==
    LET fits == Least(Capacity - Len(queue), n) IN
    /\ UNCHANGED given
    /\ taken' = fits
    /\ \E data \in [1 .. fits -> Values] : queue' = queue \o data

Get(size) ==
    LET n == Least(Len(queue), size) IN
    /\ UNCHANGED taken
    /\ given' = SubSeq(queue, 1, n)
    /\ queue' = SubSeq(queue, n + 1, Len(queue))

AbsNext ==
    \/ \E n \in 0 .. MaxTransfer : Put(n)
    \/ \E size \in 0 .. MaxTransfer : Get(size)

AbsSpec == AbsInit /\ [][AbsNext]_absVars
=============================================================================
