--------------------------- MODULE AddressSpaces ----------------------------
(* What the memory calls of the kernel do to the pages of processes, when  *)
(* an address space is nothing but the frame of each page and whether it   *)
(* may be written to.                                                      *)
EXTENDS Integers

CONSTANTS
    Procs,      \* processes
    Area,       \* pages of a user address space
    NoFrame,    \* the frame of a page that is not there
    NoSpace     \* the address space of a process that does not exist

VARIABLE space  \* space[p][v]: the frame of page v of p, and writable

Exists(p) == space[p] # NoSpace
NotThere == [frame |-> NoFrame, writable |-> FALSE]
FramesOf(s) == {s[v].frame : v \in Area} \ {NoFrame}
FramesOfOthers(p) == UNION {FramesOf(space[q]) : q \in {r \in Procs \ {p} : Exists(r)}}

(* Page v of the address space s of p has a frame that no page besides has. *)
Owned(p, s, v) ==
    /\ s[v].writable
    /\ s[v].frame \notin FramesOfOthers(p) \cup {s[w].frame : w \in Area \ {v}}

AbsInit ==
    \E p \in Procs :
        space = [q \in Procs |-> IF q = p THEN [v \in Area |-> NotThere] ELSE NoSpace]

(* Parent and child have the same pages, and neither may write to them. *)
Fork(p, c) ==
    LET shared == [v \in Area |-> [space[p][v] EXCEPT !.writable = FALSE]] IN
    /\ Exists(p) /\ ~Exists(c)
    /\ space' = [space EXCEPT ![p] = shared, ![c] = shared]

Exit(p) ==
    /\ Exists(p)
    /\ space' = [space EXCEPT ![p] = NoSpace]

(* What the other calls of p give it instead of its address space. *)
Changed(p, s) ==
    /\ Exists(p)
    /\ space' = [space EXCEPT ![p] = s]

(* The pages of a program are its own. *)
Exec(p, s) ==
    /\ Changed(p, s)
    /\ \A v \in Area : s[v] = NotThere \/ Owned(p, s, v)

(* One more page. *)
Extend(p, s) ==
    /\ Changed(p, s)
    /\ \E v \in Area :
        /\ space[p][v] = NotThere /\ Owned(p, s, v)
        /\ \A w \in Area \ {v} : s[w] = space[p][w]

(* Shared pages become p's own; a page that no other has stays where it is.*)
Unshare(p, s) ==
    /\ Changed(p, s)
    /\ \A v \in Area :
        \/ s[v] = space[p][v]
        \/ /\ ~space[p][v].writable /\ space[p][v] # NotThere
           /\ Owned(p, s, v)
           /\ space[p][v].frame \notin FramesOfOthers(p) => s[v].frame = space[p][v].frame

AbsNext ==
    \E p \in Procs :
        \/ \E c \in Procs : Fork(p, c)
        \/ Exit(p)
        \/ Exec(p, space'[p]) \/ Extend(p, space'[p]) \/ Unshare(p, space'[p])

AbsSpec == AbsInit /\ [][AbsNext]_space
=============================================================================
