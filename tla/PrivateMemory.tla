--------------------------- MODULE PrivateMemory ---------------------------
(***************************************************************************)
(* What user processes may assume of their memory: each has its own pages, *)
(* fork gives the child a copy of all of them, and from then on a store by *)
(* one process is seen by no other.                                        *)
(***************************************************************************)
EXTENDS Integers

CONSTANTS
    Procs,      \* processes
    VPages,     \* pages of a user address space
    Values,     \* contents of a page
    Unmapped,   \* the value of a page that is not mapped
    NoMemory    \* the memory of a process that does not exist

VARIABLE view   \* view[p][v]: what p reads at page v

Memories == [VPages -> Values \cup {Unmapped}]

AbsInit ==
    \E p \in Procs :
        view = [q \in Procs |-> IF q = p THEN [v \in VPages |-> Unmapped] ELSE NoMemory]

Fork(p, c) ==
    /\ view[p] # NoMemory
    /\ view[c] = NoMemory
    /\ view' = [view EXCEPT ![c] = view[p]]

Store(p, v, x) ==
    /\ view[p] # NoMemory
    /\ view[p][v] # Unmapped
    /\ view' = [view EXCEPT ![p][v] = x]

(* A new page holds anything. *)
Grow(p, v, x) ==
    /\ view[p] # NoMemory
    /\ view[p][v] = Unmapped
    /\ view' = [view EXCEPT ![p][v] = x]

(* exit, or the start of exec: the memory is gone. *)
Drop(p) ==
    /\ view[p] # NoMemory
    /\ view' = [view EXCEPT ![p] = NoMemory]

(* The end of exec: the memory is that of the new image. *)
Load(p) ==
    /\ view[p] = NoMemory
    /\ view'[p] \in Memories
    /\ view' = [view EXCEPT ![p] = view'[p]]

AbsNext ==
    \E p \in Procs :
        \/ \E c \in Procs : Fork(p, c)
        \/ \E v \in VPages, x \in Values : Store(p, v, x) \/ Grow(p, v, x)
        \/ Drop(p)
        \/ Load(p)

AbsSpec == AbsInit /\ [][AbsNext]_view
=============================================================================
