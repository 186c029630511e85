----------------------------- MODULE Namespace -----------------------------
(***************************************************************************)
(* What the tree of files promises to those who spell a path in the usual  *)
(* way: names come and go one at a time, each at the end of a directory,   *)
(* and nothing that is there ever becomes something else.  What a device   *)
(* serves may go as well, and then by every name.                          *)
(***************************************************************************)
EXTENDS Sequences, SequencesExt

CONSTANTS
    Mountable,  \* devices
    Served,     \* what devices serve
    Nothing     \* what is not there

VARIABLE seen   \* what each sequence of names leads to

(* What is there before and after each change.  Names are known up to some *)
(* depth.                                                                  *)
Add(names, old, new) ==
    /\ old[names] = Nothing
    /\ new[names] \in {"file", "dir", "link"}
    /\ old[Front(names)] = "dir"
    /\ new = [old EXCEPT ![names] = new[names]]

(* A device appears with the names it serves itself. *)
Mount(names, old, new) ==
    /\ new[names] \in Mountable
    /\ old[Front(names)] = "dir"
    /\ \A n \in DOMAIN old : IF IsPrefix(names, n) THEN old[n] = Nothing ELSE new[n] = old[n]

Unlink(names, old, new) ==
    /\ old[names] \in {"file", "link"}
    /\ new = [old EXCEPT ![names] = Nothing]

Withdraw(names, old, new) ==
    /\ old[names] \in Served
    /\ new = [n \in DOMAIN old |-> IF old[n] = old[names] THEN Nothing ELSE old[n]]

Changes(old, new) ==
    \E names \in {n \in DOMAIN old : old[n] # new[n]} :
        \/ Add(names, old, new) \/ Mount(names, old, new)
        \/ Unlink(names, old, new) \/ Withdraw(names, old, new)

AbsInit ==
    /\ seen[<<>>] = "dir"
    /\ \A names \in DOMAIN seen : seen[names] \in {"dir", Nothing}

AbsNext == \E old \in {seen}, new \in {seen'} : Changes(old, new)

AbsSpec == AbsInit /\ [][AbsNext]_seen
=============================================================================
