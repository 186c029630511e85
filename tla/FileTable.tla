----------------------------- MODULE FileTable -----------------------------
(***************************************************************************)
(* The file descriptors of processes: append_process_fd, process_dup2,     *)
(* spawn_process and process_exit of kernel/sys/process.c and sys_open,    *)
(* sys_close, sys_read, sys_write, sys_seek, sys_unlink and sys_execve of  *)
(* kernel/sys/syscall.c, over nodes that malloc and free hand out.         *)
(*                                                                         *)
(* A node keeps the length its file had when it was opened; the file       *)
(* system behind it is its files and their lengths.  Every process has uid *)
(* 0, so that check_permission grants reading and writing.  Directories    *)
(* are not opened.  A read beyond the end of its file is undefined in      *)
(* tmpfs.c, and so is the use of a node whose file was removed: neither is *)
(* a step here.                                                            *)
(***************************************************************************)
EXTENDS Integers, SequencesExt

CONSTANTS
    Pids,       \* process slots
    Absent,     \* a slot with no process
    Regular,    \* files of the memory file system
    Ptys,       \* /dev/pts/n
    NNodes,     \* nodes that fit in memory
    Unused,     \* a node that is not allocated
    Closed,     \* an fd that is not open
    Kept,       \* descriptors that survive exec: 3
    MaxFds,     \* bound on fd_length
    MaxLength,  \* bound on lengths and offsets
    Rights      \* O_RDONLY, O_WRONLY, O_RDWR as the rights they give

Nodes == 1 .. NNodes
Offsets == 0 .. MaxLength
NodeValues == [file : Regular \cup Ptys, length : Offsets, user_mode : Rights,
               user_offset : Offsets]

ASSUME FileTableAssumption ==
    /\ Regular \cap Ptys = {}
    /\ NNodes \in Nat /\ MaxFds \in Nat /\ MaxLength \in Nat /\ Kept \in Nat
    /\ Rights \subseteq {{"read"}, {"write"}, {"read", "write"}}
    /\ Closed \notin Nodes \cup NodeValues /\ Unused \notin NodeValues
    /\ \A n \in 0 .. MaxFds :
          Absent \notin [1 .. n -> Nodes \cup NodeValues \cup {Closed}]

VARIABLES
    fds,        \* process->fds of each process, up to fd_length
    node,       \* the nodes
    linked,     \* files that kopen finds
    length,     \* f->length of each regular file
    leaked,     \* nodes that no pointer leads to any more
    forgets,    \* how many programs were run and files created so far
    strayed     \* has a program truncated a file with contents, or moved
                \* an offset beyond the end by SEEK_SET or SEEK_CUR?

vars == <<fds, node, linked, length, leaked, forgets, strayed>>

(* The access mode with the other flags of sys_open, which looks at O_EXCL *)
(* with O_CREAT only.                                                      *)
Flags == {flags \in [access : Rights, append : BOOLEAN, trunc : BOOLEAN,
                     creat : BOOLEAN, excl : BOOLEAN] : flags.excl => flags.creat}

Alive(p) == fds[p] # Absent
Running == {p \in Pids : Alive(p)}
Live == {x \in Nodes : node[x] # Unused}
Free == Nodes \ (Live \cup leaked)
NodesOf(p, S) == {fds[p][k] : k \in S} \ {Closed}
OpenOn(f) == {x \in Live : node[x].file = f}
IsOpen(p, k) == k \in DOMAIN fds[p] /\ fds[p][k] # Closed
Greater(a, b) == IF a > b THEN a ELSE b
Lesser(a, b) == IF a < b THEN a ELSE b

(* malloc gives the lowest free memory. *)
NewNode == Min(Free)

(* A new node is closed and never freed. *)
Forget ==
    /\ leaked' = leaked \cup {NewNode}
    /\ forgets' = forgets + 1

(* What kopen returns for file f. *)
Opened(f, rights, offset, kept) ==
    [file |-> f, length |-> kept, user_mode |-> rights, user_offset |-> offset]

LengthOf(f) == IF f \in Regular THEN length[f] ELSE 0

(* close_fs of every node in X: a pty leaves pty_map whoever closes it. *)
Unlinked(X) == {node[x].file : x \in X} \cap Ptys

Init ==
    /\ \E p \in Pids : fds = [q \in Pids |-> IF q = p THEN <<>> ELSE Absent]
    /\ node = [x \in Nodes |-> Unused]
    /\ \E S \in SUBSET Regular : linked = S \cup Ptys
    /\ length = [f \in Regular |-> 0]
    /\ leaked = {} /\ forgets = 0
    /\ strayed = FALSE

(* append_process_fd: x, holding value, becomes the last descriptor. *)
AppendFd(p, x, value) ==
    /\ Len(fds[p]) < MaxFds
    /\ fds' = [fds EXCEPT ![p] = Append(@, x)]
    /\ node' = [node EXCEPT ![x] = value]

(* sys_open of a file that kopen finds.  The new node has the length from  *)
(* before a truncation.                                                    *)
OpenFound(p, f, flags) ==
    /\ f \in linked
    /\ ~(flags.creat /\ flags.excl)
    /\ ~flags.trunc \/ "write" \in flags.access
    /\ strayed' = (strayed \/ (flags.trunc /\ LengthOf(f) > 0))
    /\ AppendFd(p, NewNode, Opened(f, flags.access,
                                   IF flags.append THEN LengthOf(f) ELSE 0, LengthOf(f)))
    /\ length' = IF flags.trunc /\ f \in Regular THEN [length EXCEPT ![f] = 0] ELSE length
    /\ UNCHANGED <<linked, leaked, forgets>>

(* sys_open of one it does not find; O_CREAT makes it.  create_file does   *)
(* not free the node of the directory.                                     *)
OpenNew(p, f, flags) ==
    /\ f \in Regular \ linked
    /\ flags.creat
    /\ ~flags.trunc \/ "write" \in flags.access
    /\ linked' = linked \cup {f}
    /\ length' = [length EXCEPT ![f] = 0]
    /\ Forget
    /\ Free # {NewNode}
    /\ AppendFd(p, Min(Free \ {NewNode}), Opened(f, flags.access, 0, 0))
    /\ UNCHANGED strayed

(* sys_open that fails after it found the file: the node is closed and     *)
(* freed again.                                                            *)
OpenFails(f, flags) ==
    /\ f \in linked
    /\ \/ flags.creat /\ flags.excl
       \/ flags.trunc /\ "write" \notin flags.access
    /\ linked' = linked \ ({f} \cap Ptys)
    /\ UNCHANGED <<fds, node, length, leaked, forgets, strayed>>

(* The same where it first called create_file, under which nothing can be  *)
(* made in /dev/pts.                                                       *)
CreateFails(f, flags) ==
    /\ f \notin linked
    /\ flags.creat
    /\ f \in Ptys \/ (flags.trunc /\ "write" \notin flags.access /\ Free # {NewNode})
    /\ linked' = linked \cup ({f} \cap Regular)
    /\ length' = IF f \in Ptys THEN length ELSE [length EXCEPT ![f] = 0]
    /\ Forget
    /\ UNCHANGED <<fds, node, strayed>>

(* sys_close. *)
Close(p, k) ==
    /\ IsOpen(p, k)
    /\ linked' = linked \ Unlinked({fds[p][k]})
    /\ fds' = [fds EXCEPT ![p][k] = Closed]
    /\ node' = [node EXCEPT ![fds[p][k]] = Unused]
    /\ UNCHANGED <<length, leaked, forgets, strayed>>

(* process_dup2 with to = -1. *)
Dup(p, from) ==
    /\ IsOpen(p, from)
    /\ Free # {}
    /\ AppendFd(p, NewNode, node[fds[p][from]])
    /\ UNCHANGED <<linked, length, leaked, forgets, strayed>>

(* process_dup2: the old node is freed before the new one is allocated and *)
(* filled, from freed memory when from = to; free leaves it as it was.     *)
Dup2(p, from, to) ==
    /\ IsOpen(p, from) /\ to \in DOMAIN fds[p]
    /\ LET old == NodesOf(p, {to})
           copy == Min(Free \cup old) IN
       /\ Free \cup old # {}
       /\ node' = [x \in Nodes |-> IF x = copy THEN node[fds[p][from]]
                                   ELSE IF x \in old THEN Unused ELSE node[x]]
       /\ fds' = [fds EXCEPT ![p][to] = copy]
       /\ linked' = linked \ Unlinked(old)
    /\ UNCHANGED <<length, leaked, forgets, strayed>>

(* Faulty: the offset is moved by what was asked for. *)
ReadMovesBySize(p, k, n) ==
    /\ IsOpen(p, k)
    /\ LET x == fds[p][k] IN
       /\ "read" \in node[x].user_mode
       /\ node[x].user_offset + n <= MaxLength
       /\ node' = [node EXCEPT ![x].user_offset = @ + n]
    /\ UNCHANGED <<fds, linked, length, leaked, forgets, strayed>>

(* sys_read. *)
Read(p, k, n) ==
    /\ IsOpen(p, k)
    /\ LET x == fds[p][k]
           f == node[x].file IN
       /\ "read" \in node[x].user_mode
       /\ node[x].user_offset + n <= MaxLength
       /\ IF f \in Ptys
            THEN \E out \in 0 .. n : node' = [node EXCEPT ![x].user_offset = @ + out]
            ELSE /\ node[x].user_offset <= length[f]
                 /\ node' = [node EXCEPT ![x].user_offset = Lesser(@ + n, length[f])]
    /\ UNCHANGED <<fds, linked, length, leaked, forgets, strayed>>

(* Faulty: the offset belongs to the file. *)
WriteMovesFile(p, k, n) ==
    /\ IsOpen(p, k)
    /\ LET x == fds[p][k]
           f == node[x].file
           end == node[x].user_offset + n IN
       /\ "write" \in node[x].user_mode
       /\ end <= MaxLength
       /\ node' = [y \in Nodes |-> IF y \in OpenOn(f) THEN [node[y] EXCEPT !.user_offset = end]
                                   ELSE node[y]]
       /\ length' = IF f \in Regular THEN [length EXCEPT ![f] = Greater(@, end)] ELSE length
    /\ UNCHANGED <<fds, linked, leaked, forgets, strayed>>

(* sys_write. *)
Write(p, k, n) ==
    /\ IsOpen(p, k)
    /\ LET x == fds[p][k]
           f == node[x].file
           end == node[x].user_offset + n IN
       /\ "write" \in node[x].user_mode
       /\ end <= MaxLength
       /\ node' = [node EXCEPT ![x].user_offset = end]
       /\ length' = IF f \in Regular THEN [length EXCEPT ![f] = Greater(@, end)] ELSE length
    /\ UNCHANGED <<fds, linked, leaked, forgets, strayed>>

(* sys_seek: SEEK_SET and SEEK_CUR lead anywhere, SEEK_END counts from the *)
(* length in the node.                                                     *)
Seek(p, k, whence, target) ==
    /\ IsOpen(p, k)
    /\ LET x == fds[p][k]
           f == node[x].file IN
       /\ f \in Regular
       /\ strayed' = (strayed \/ target > IF whence = "end" THEN node[x].length ELSE length[f])
       /\ node' = [node EXCEPT ![x].user_offset = target]
    /\ UNCHANGED <<fds, linked, length, leaked, forgets>>

(* sys_unlink of a file that is not open. *)
Unlink(f) ==
    /\ f \in linked \cap Regular
    /\ OpenOn(f) = {}
    /\ linked' = linked \ {f}
    /\ UNCHANGED <<fds, node, length, leaked, forgets, strayed>>

(* spawn_process: every open descriptor gets a copy of its node. *)
Fork(p, c) ==
    /\ ~Alive(c)
    /\ LET opened == {k \in DOMAIN fds[p] : fds[p][k] # Closed} IN
       \E copy \in [opened -> Free] :
          /\ \A j, k \in opened : j < k => copy[j] < copy[k]
          /\ \A k \in opened, x \in Free : x < copy[k] => \E j \in opened : copy[j] = x
          /\ fds' = [fds EXCEPT ![c] = [k \in DOMAIN fds[p] |->
                       IF k \in opened THEN copy[k] ELSE Closed]]
          /\ node' = [x \in Nodes |->
                       IF \E k \in opened : copy[k] = x
                         THEN node[fds[p][CHOOSE k \in opened : copy[k] = x]]
                         ELSE node[x]]
    /\ UNCHANGED <<linked, length, leaked, forgets, strayed>>

(* The nodes of descriptors S of process p are closed and freed; the ptys  *)
(* in closed are closed as well.                                           *)
CloseAll(p, S, closed) ==
    /\ node' = [x \in Nodes |-> IF x \in NodesOf(p, S) THEN Unused ELSE node[x]]
    /\ linked' = linked \ (Unlinked(NodesOf(p, S)) \cup closed)
    /\ UNCHANGED <<length, strayed>>

(* What exec leaves of the descriptors of p. *)
CutTo(p) == [fds EXCEPT ![p] = SubSeq(@, 1, Lesser(Kept, Len(@)))]

(* Faulty: the descriptors are cut off and their nodes forgotten. *)
ExecForgets(p, f) ==
    /\ f \in linked
    /\ fds' = CutTo(p)
    /\ UNCHANGED <<node, linked, length, leaked, forgets, strayed>>

(* sys_execve of what kopen finds.  elf_exec closes and frees the node of  *)
(* it when it is no ELF file, only closes that of a program, and does      *)
(* neither with that of another ELF file.                                  *)
Exec(p, f) ==
    /\ f \in linked
    /\ fds' = CutTo(p)
    /\ \E closed \in {{}, {f} \cap Ptys} :
        /\ CloseAll(p, Kept + 1 .. Len(fds[p]), closed)
        /\ \/ Forget
           \/ closed = {f} \cap Ptys /\ UNCHANGED <<leaked, forgets>>

(* process_exit; the array goes with the process in process_delete. *)
Exit(p) ==
    /\ fds' = [fds EXCEPT ![p] = Absent]
    /\ CloseAll(p, DOMAIN fds[p], {})
    /\ UNCHANGED <<leaked, forgets>>

Next ==
    \/ \E p \in Running :
        \/ /\ Free # {}
           /\ \E f \in Regular \cup Ptys :
                \/ \E flags \in Flags :
                    \/ OpenFound(p, f, flags) \/ OpenNew(p, f, flags)
                    \/ OpenFails(f, flags) \/ CreateFails(f, flags)
                \/ Exec(p, f)
        \/ \E k \in DOMAIN fds[p] :
            \/ Close(p, k)
            \/ Dup(p, k)
            \/ \E to \in DOMAIN fds[p] : Dup2(p, k, to)
            \/ \E n \in 1 .. MaxLength : Read(p, k, n) \/ Write(p, k, n)
            \/ \E whence \in {"set", "end"}, target \in Offsets : Seek(p, k, whence, target)
        \/ \E c \in Pids : Fork(p, c)
        \/ Exit(p)
    \/ \E f \in Regular : Unlink(f)

Spec == Init /\ [][Next]_vars

-----------------------------------------------------------------------------
TypeOK ==
    /\ \A p \in Running : fds[p] \in Seq(Nodes \cup {Closed}) /\ Len(fds[p]) <= MaxFds
    /\ node \in [Nodes -> NodeValues \cup {Unused}]
    /\ linked \subseteq Regular \cup Ptys
    /\ length \in [Regular -> Offsets] /\ strayed \in BOOLEAN
    /\ leaked \subseteq Nodes /\ forgets \in Nat

(* Every allocated node belongs to exactly one descriptor of one process,  *)
(* or to none for ever: none is shared or used after free, whatever is     *)
(* opened, duplicated, forked, replaced and closed.  Nodes are lost only   *)
(* by sys_execve, at most its own, and create_file, one each time.         *)
SlotsOwnNodes ==
    /\ TypeOK
    /\ \A x \in Nodes :
        Cardinality({slot \in Running \X (1 .. MaxFds) :
                        /\ slot[2] \in DOMAIN fds[slot[1]]
                        /\ fds[slot[1]][slot[2]] = x})
          = IF node[x] = Unused THEN 0 ELSE 1
    /\ leaked \cap Live = {}
    /\ Cardinality(leaked) = forgets

(* Programs that never truncate a file with contents, and seek to where    *)
(* they know it reaches, never make read_tmpfs start beyond its end.  The  *)
(* length in a node, from which SEEK_END counts, is never brought up to    *)
(* date while others write, but is at most the length of the file.         *)
OffsetsStayInside ==
    \A x \in Live :
        ~strayed /\ node[x].file \in Regular =>
            /\ node[x].user_offset <= length[node[x].file]
            /\ node[x].length <= length[node[x].file]

(* What a process sees of its descriptors: nodes on the heap behave as     *)
(* values in the tables.                                                   *)
Seen(p) ==
    IF Alive(p) THEN [k \in DOMAIN fds[p] |->
                        IF fds[p][k] = Closed THEN Closed ELSE node[fds[p][k]]]
    ELSE Absent

Table == INSTANCE Descriptors WITH fds <- [p \in Pids |-> Seen(p)]

ImplementsDescriptors == Table!AbsSpec
=============================================================================
