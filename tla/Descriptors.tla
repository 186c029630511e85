---------------------------- MODULE Descriptors ----------------------------
(***************************************************************************)
(* What the file descriptors of processes promise: each is a value of its  *)
(* own.  Opening appends one, duplicating and forking copy values, and     *)
(* using one moves its own offset and nothing else.                        *)
(***************************************************************************)
EXTENDS Integers, Sequences

CONSTANTS
    Pids,       \* process slots
    Absent,     \* no process
    Closed,     \* no descriptor
    Kept        \* descriptors that survive exec

VARIABLE fds    \* the descriptors of each process

(* What may happen to the descriptors, as relations between the old and the *)
(* new ones.                                                                *)
Use(p, k, old, new) ==
    /\ k \in DOMAIN old[p] /\ old[p][k] # Closed /\ new[p][k] # Closed
    /\ new = [old EXCEPT ![p][k].user_offset = new[p][k].user_offset]

Open(p, d, old, new) ==
    /\ d # Closed
    /\ d.user_offset \in {0, d.length}
    /\ new = [old EXCEPT ![p] = Append(@, d)]

Close(p, k, old, new) == new = [old EXCEPT ![p][k] = Closed]

Duplicate(p, from, old, new) == new = [old EXCEPT ![p] = Append(@, old[p][from])]

Replace(p, from, to, old, new) ==
    /\ old[p][from] # Closed
    /\ new = [old EXCEPT ![p][to] = old[p][from]]

Exec(p, old, new) ==
    /\ Len(old[p]) > Kept
    /\ new = [old EXCEPT ![p] = SubSeq(@, 1, Kept)]

Fork(p, c, old, new) ==
    /\ old[c] = Absent
    /\ new = [old EXCEPT ![c] = old[p]]

Exit(p, old, new) == new = [old EXCEPT ![p] = Absent]

AbsInit ==
    \E p \in Pids : fds = [q \in Pids |-> IF q = p THEN <<>> ELSE Absent]

Changes(old, new) ==
    \E p \in Pids :
        /\ old[p] # Absent
        /\ \/ Exec(p, old, new) \/ Exit(p, old, new)
           \/ \E c \in Pids : Fork(p, c, old, new)
           \/ /\ new[p] # Absent
              /\ Len(new[p]) = Len(old[p]) + 1
              /\ \/ Open(p, new[p][Len(new[p])], old, new)
                 \/ \E k \in DOMAIN old[p] : Duplicate(p, k, old, new)
           \/ /\ new[p] # Absent
              /\ Len(new[p]) = Len(old[p])
              /\ \E k \in DOMAIN old[p] :
                    \/ Close(p, k, old, new)
                    \/ Use(p, k, old, new)
                    \/ \E to \in DOMAIN old[p] : Replace(p, k, to, old, new)

AbsNext == \E old \in {fds}, new \in {fds'} : Changes(old, new)

AbsSpec == AbsInit /\ [][AbsNext]_fds
=============================================================================
