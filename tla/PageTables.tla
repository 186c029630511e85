----------------------------- MODULE PageTables -----------------------------
(***************************************************************************)
(* The four levels of page tables behind an address space: looking a page  *)
(* up and making the tables on its way, the nested loops of mmu_clone and  *)
(* mmu_free, the change of directory in elf_exec, the write fault and the  *)
(* check of user pointers, over the frame bitmap of kernel/cpu/mmu.c.      *)
(* CowMemory has what pages hold and shares them one by one, with one      *)
(* frame for all tables of a directory; here a call is a step and every    *)
(* table counts.                                                           *)
(*                                                                         *)
(* All of it runs with interrupts off.  A step that needs a frame waits    *)
(* for ever when there is none (the kernel stops), and no count comes to   *)
(* its limit of 255.                                                       *)
(***************************************************************************)
EXTENDS FrameOps, SequencesExt

CONSTANTS
    Procs,      \* process slots
    Fan,        \* entries of a table (512)
    Images,     \* the pages of each program, in the order they are mapped
    StackPages, \* the pages of the user stack, likewise
    HeapEnd,    \* bound on the heap of a process
    Pointers,   \* the first and the last page of what user pointers point to
    NoSpace     \* what a process that does not exist has

ASSUME PageAssumption ==
    /\ Fan \in Nat /\ Fan >= 2 /\ Fan % 2 = 0

(* The user half of an address space: page 1 stands for the low pages of   *)
(* the kernel, page 0 is never there, and programs have pages in the area. *)
Pages == 0 .. (Fan^4 \div 2) - 1
KernelPage == 1
UserArea == UNION {ToSet(image) : image \in Images} \cup ToSet(StackPages)
                \cup Min({Max(ToSet(image)) : image \in Images}) .. HeapEnd - 1

Entries == 0 .. Fan - 1
Upwards == [i \in 1 .. Fan |-> i - 1]

(* The index into the table of a level, 1 to 4, of the tables for page v. *)
Index(v, level) == (v \div Fan^(4 - level)) % Fan
KernelHalf(i, level) == level = 1 /\ i >= Fan \div 2

Absent == [frame |-> NoFrame, user |-> FALSE, writable |-> FALSE, cow |-> FALSE]
UserEntry(f) == [frame |-> f, user |-> TRUE, writable |-> TRUE, cow |-> FALSE]
KernelEntry(f) == [frame |-> f, user |-> FALSE, writable |-> TRUE, cow |-> FALSE]
Present(e) == e.frame # NoFrame
EmptyTable == [i \in Entries |-> Absent]

(* What is done with the result of a failed request is done to NoFrame. *)
Slots == Frames \cup {NoFrame}

VARIABLES
    mem,        \* frames, mem_refcounts and the tables; out: a result;
                \* refused: a pointer was not valid; starved: no frame was
                \* left
    directory,  \* thread.page_directory of each process
    heap        \* image.heap of each process, in pages

vars == <<mem, directory, heap>>

(* The end of a call: nothing is left of its results. *)
Return(m) ==
    /\ ~m.starved
    /\ mem' = [m EXCEPT !.out = NoFrame, !.refused = FALSE]

-----------------------------------------------------------------------------
(* Frames *)

(* mmu_request_frame and mmu_lock_frame.  The hint is left out: with or    *)
(* without it the lowest free frame is given (ImplementsFrameSet).         *)
Take(m) ==
    LET f == RequestFrame(m.frames, 0) IN
    [m EXCEPT !.frames = LockFrame(m.frames, f), !.out = f, !.starved = @ \/ f = NoFrame]

TakeTable(m) == LET n == Take(m) IN [n EXCEPT !.tables[n.out] = EmptyTable]

(* mmu_release_frame: whoever gets a frame for a table clears it. *)
Put(m, f) ==
    [m EXCEPT !.frames = ReleaseFrame(m.frames, f), !.tables[f] = EmptyTable]

-----------------------------------------------------------------------------
(* Looking up *)

(* mmu_lookup_frame_from, and mmu_lookup_frame without MMU_GET_MAKE: the   *)
(* last table on the way to page v.                                        *)
mmu_lookup_frame_from(m, root, v) ==
    LET Behind(t, level) == m.tables[t][Index(v, level)].frame IN
    Behind(Behind(Behind(root, 1), 2), 3)

EntryOf(m, root, v) == m.tables[mmu_lookup_frame_from(m, root, v)][Index(v, 4)]

(* One level of mmu_lookup_frame with MMU_GET_MAKE. *)
Descend(m, v, level) ==
    LET i == Index(v, level)
        e == m.tables[m.out][i] IN
    IF Present(e) THEN [m EXCEPT !.out = e.frame]
    ELSE LET n == TakeTable(m) IN
         [n EXCEPT !.tables[m.out][i] = UserEntry(n.out)]

mmu_lookup_frame(m, root, v) ==
    Descend(Descend(Descend([m EXCEPT !.out = root], v, 1), v, 2), v, 3)

(* mmu_allocate_frame_ex for the entry of page v. *)
mmu_allocate_frame_ex(m, root, v) ==
    LET n == mmu_lookup_frame(m, root, v)
        e == n.tables[n.out][Index(v, 4)]
        k == Take(n) IN
    IF Present(e)
    THEN [n EXCEPT !.tables[n.out][Index(v, 4)].writable = TRUE,
                   !.tables[n.out][Index(v, 4)].user = TRUE]
    ELSE [k EXCEPT !.tables[n.out][Index(v, 4)] = UserEntry(k.out)]

-----------------------------------------------------------------------------
(* Cloning and freeing *)

_copy_page(m, in, out, i) ==
    LET e == m.tables[in][i]
        shared == [e EXCEPT !.writable = FALSE, !.cow = TRUE] IN
    IF ~e.writable
    THEN [m EXCEPT !.mem_refcounts[e.frame] = @ + 1, !.tables[out][i] = e]
    ELSE IF m.mem_refcounts[e.frame] # 0 THEN m
    ELSE [m EXCEPT !.mem_refcounts[e.frame] = 2,
                   !.tables[in][i] = shared, !.tables[out][i] = shared]

(* The loops of mmu_clone from a level down; the copy is in out.  At the   *)
(* top the kernel's half is copied as it is.                               *)
RECURSIVE Clone(_, _, _)

(* Faulty: the last tables are shared instead of copied. *)
CloneEntryShallow(m, in, out, i, level) ==
    LET e == m.tables[in][i] IN
    IF ~Present(e) THEN m
    ELSE IF level >= 3 \/ KernelHalf(i, level) THEN [m EXCEPT !.tables[out][i] = e]
    ELSE LET n == Clone(m, e.frame, level + 1) IN
         [n EXCEPT !.tables[out][i] = UserEntry(n.out)]

CloneEntry(m, in, out, i, level) ==
    LET e == m.tables[in][i] IN
    IF ~Present(e) THEN m
    ELSE IF KernelHalf(i, level) \/ (level = 4 /\ ~e.user)
    THEN [m EXCEPT !.tables[out][i] = e]
    ELSE IF level = 4 THEN _copy_page(m, in, out, i)
    ELSE LET n == Clone(m, e.frame, level + 1) IN
         [n EXCEPT !.tables[out][i] = UserEntry(n.out)]

Clone(m, in, level) ==
    LET n == TakeTable(m) IN
    [FoldLeft(LAMBDA k, i : CloneEntry(k, in, n.out, i, level), n, Upwards)
        EXCEPT !.out = n.out]

mmu_clone(m, root) == Clone(m, root, 1)

_free_page(m, t, i) ==
    LET e == m.tables[t][i]
        n == [m EXCEPT !.mem_refcounts[e.frame] = @ - 1] IN
    IF e.writable THEN Put(m, e.frame)
    ELSE IF n.mem_refcounts[e.frame] = 0 THEN Put(n, e.frame) ELSE n

(* The loops of mmu_free from a level down: a table goes when all behind   *)
(* it has gone.                                                            *)
RECURSIVE Free(_, _, _)

FreeEntry(m, t, i, level) ==
    LET e == m.tables[t][i] IN
    IF ~Present(e) \/ KernelHalf(i, level) \/ (level = 4 /\ ~e.user) THEN m
    ELSE IF level = 4 THEN _free_page(m, t, i)
    ELSE Free(m, e.frame, level + 1)

(* Faulty: the second level stays. *)
FreeKeepsLevel(m, t, level) ==
    LET n == FoldLeft(LAMBDA k, i : FreeEntry(k, t, i, level), m, Upwards) IN
    IF level = 2 THEN n ELSE Put(n, t)

Free(m, t, level) ==
    Put(FoldLeft(LAMBDA k, i : FreeEntry(k, t, i, level), m, Upwards), t)

mmu_free(m, root) == Free(m, root, 1)

-----------------------------------------------------------------------------
(* Writing *)

(* mmu_copy_on_write, for an entry that is there. *)
mmu_copy_on_write(m, root, v) ==
    LET t == mmu_lookup_frame_from(m, root, v)
        i == Index(v, 4)
        e == m.tables[t][i]
        n == [m EXCEPT !.mem_refcounts[e.frame] = @ - 1]
        k == Take(n) IN
    IF ~e.cow THEN [m EXCEPT !.refused = TRUE]
    ELSE IF n.mem_refcounts[e.frame] = 0
    THEN [n EXCEPT !.tables[t][i].writable = TRUE, !.tables[t][i].cow = FALSE]
    ELSE [k EXCEPT !.tables[t][i] = UserEntry(k.out)]

(* mmu_validate_user for a pointer to the pages from first to last, with   *)
(* MMU_PTR_WRITE: it stops at the first page that is not valid.            *)
mmu_validate_user(m, root, first, last) ==
    FoldLeft(LAMBDA n, v :
                LET e == EntryOf(n, root, v) IN
                IF n.refused THEN n
                ELSE IF ~Present(e) \/ ~e.user THEN [n EXCEPT !.refused = TRUE]
                ELSE IF e.writable THEN n
                ELSE mmu_copy_on_write(n, root, v),
             m, [i \in 1 .. last - first + 1 |-> first + i - 1])

-----------------------------------------------------------------------------
(* The kernel's directory as mmu_init leaves it: tables down to its low    *)
(* pages, of which the first is not there, and a table of the upper half.  *)
KernelRoot == 1
KernelFrames == 0 .. 5

KernelTables ==
    [f \in Slots |->
        CASE f = KernelRoot -> [i \in Entries |->
                                  IF i = 0 THEN UserEntry(2)
                                  ELSE IF i >= Fan \div 2 THEN KernelEntry(5) ELSE Absent]
          [] f = 2 -> [EmptyTable EXCEPT ![0] = UserEntry(3)]
          [] f = 3 -> [EmptyTable EXCEPT ![0] = KernelEntry(4)]
          [] f = 4 -> [EmptyTable EXCEPT ![KernelPage] = KernelEntry(0)]
          [] OTHER -> EmptyTable]

Booted ==
    [frames |-> KernelFrames,
     mem_refcounts |-> [f \in Slots |-> 0],
     tables |-> KernelTables,
     out |-> NoFrame, refused |-> FALSE, starved |-> FALSE]

(* spawn_init: its directory is a clone of the kernel's. *)
Init ==
    LET m == mmu_clone(Booted, KernelRoot) IN
    \E p \in Procs :
        /\ mem = [m EXCEPT !.out = NoFrame]
        /\ directory = [q \in Procs |-> IF q = p THEN m.out ELSE NoFrame]
        /\ heap = [q \in Procs |-> HeapEnd]

Exists(p) == directory[p] # NoFrame

Fork(p, c) ==
    LET m == mmu_clone(mem, directory[p]) IN
    /\ Exists(p) /\ ~Exists(c)
    /\ Return(m)
    /\ directory' = [directory EXCEPT ![c] = m.out]
    /\ heap' = [heap EXCEPT ![c] = heap[p]]

(* process_delete. *)
Exit(p) ==
    /\ Exists(p)
    /\ Return(mmu_free(mem, directory[p]))
    /\ directory' = [directory EXCEPT ![p] = NoFrame]
    /\ UNCHANGED heap

(* elf_exec: a clone of the kernel's directory takes the place of the old  *)
(* one, which is freed from within it; then the pages of a program and of  *)
(* its stack are mapped, and the heap begins behind the program.           *)
Exec(p) ==
    LET m == mmu_clone(mem, KernelRoot)
        n == mmu_free(m, directory[p]) IN
    /\ Exists(p)
    /\ \E image \in Images :
        /\ Return(FoldLeft(LAMBDA k, v : mmu_allocate_frame_ex(k, m.out, v),
                           n, image \o StackPages))
        /\ heap' = [heap EXCEPT ![p] = Max(ToSet(image)) + 1]
    /\ directory' = [directory EXCEPT ![p] = m.out]

(* A page of sys_sbrk. *)
Sbrk(p) ==
    /\ Exists(p) /\ heap[p] < HeapEnd
    /\ Return(mmu_allocate_frame_ex(mem, directory[p], heap[p]))
    /\ heap' = [heap EXCEPT ![p] = @ + 1]
    /\ UNCHANGED directory

(* page_fault: user code writes to a page that it may only read. *)
WriteFault(p, v) ==
    LET e == EntryOf(mem, directory[p], v)
        m == mmu_copy_on_write(mem, directory[p], v) IN
    /\ Exists(p)
    /\ Present(e) /\ e.user /\ ~e.writable
    /\ ~m.refused /\ Return(m)
    /\ UNCHANGED <<directory, heap>>

(* mmu_validate_user, from a system call that will write where a pointer   *)
(* leads; one that turns out not to be valid may have had pages copied.    *)
ValidateUser(p, first, last) ==
    /\ Exists(p)
    /\ Return(mmu_validate_user(mem, directory[p], first, last))
    /\ UNCHANGED <<directory, heap>>

Next ==
    \E p \in Procs :
        \/ \E c \in Procs : Fork(p, c)
        \/ Exit(p) \/ Exec(p) \/ Sbrk(p)
        \/ \E v \in UserArea : WriteFault(p, v)
        \/ \E t \in Pointers : ValidateUser(p, t[1], t[2])

Spec == Init /\ [][Next]_vars

-----------------------------------------------------------------------------
Directories == {KernelRoot} \cup {directory[p] : p \in {q \in Procs : directory[q] # NoFrame}}

(* The user half of a directory's tables, level by level. *)
EntriesAt(t, level) ==
    {mem.tables[t][i] : i \in IF level = 1 THEN 0 .. (Fan \div 2) - 1 ELSE Entries}
Below(S, level) ==
    {e.frame : e \in {d \in UNION {EntriesAt(t, level) : t \in S} : Present(d)}}
Level2 == Below(Directories, 1)
Level3 == Below(Level2, 2)
Level4 == Below(Level3, 3)
Tables == Directories \cup Level2 \cup Level3 \cup Level4
UserPages ==
    {e.frame : e \in {d \in UNION {EntriesAt(t, 4) : t \in Level4} : d.user}}

(* The entries that lead to a frame. *)
Leading(f) == {s \in Frames \X Entries : mem.tables[s[1]][s[2]].frame = f}

(* Every table but a directory hangs in exactly one place, a page in as    *)
(* many as its count says; these frames and the kernel's are the locked    *)
(* ones: mmu_clone, mmu_free and mmu_lookup_frame forget no level, and     *)
(* share and release none twice.                                           *)
TablesAreTrees ==
    /\ mem.frames = KernelFrames \cup Tables \cup UserPages
    /\ Tables \cap UserPages = {}
    /\ \A t \in Tables : Cardinality(Leading(t)) = IF t \in Directories THEN 0 ELSE 1
    /\ \A f \in UserPages :
        Cardinality(Leading(f)) = IF mem.mem_refcounts[f] = 0 THEN 1 ELSE mem.mem_refcounts[f]
    /\ \A f \in Frames \ UserPages : mem.mem_refcounts[f] = 0

(* The kernel finds itself in every directory that it loads: its low pages *)
(* and its half, out of user code's reach, and nothing at address 0.       *)
KernelIsMapped ==
    \A d \in Directories :
        /\ EntryOf(mem, d, KernelPage) = KernelEntry(0)
        /\ ~Present(EntryOf(mem, d, 0))
        /\ \A i \in Fan \div 2 .. Fan - 1 : mem.tables[d][i] = KernelEntry(5)

TypeOK ==
    /\ mem.frames \subseteq Frames
    /\ mem.mem_refcounts \in [Slots -> 0 .. Cardinality(Procs)]
    /\ mem.tables \in [Slots -> [Entries -> [frame : Slots, user : BOOLEAN,
                                              writable : BOOLEAN, cow : BOOLEAN]]]
    /\ directory \in [Procs -> Slots] /\ heap \in [Procs -> 0 .. HeapEnd]

(* In every state the tables, the bitmap and the counts agree and every    *)
(* address space has the kernel in it, whatever was forked, freed and      *)
(* mapped before.                                                          *)
SpacesAreWhole == TypeOK /\ TablesAreTrees /\ KernelIsMapped

(* What the tables of p come to. *)
Space(p) ==
    IF ~Exists(p) THEN NoSpace
    ELSE [v \in UserArea |->
            LET e == EntryOf(mem, directory[p], v) IN
            [frame |-> e.frame, writable |-> e.writable]]

(* Four levels of tables are one table of pages: fork shares all pages of  *)
(* the parent and no other, a fault or a pointer changes pages of its own  *)
(* process only, and a page may be written to by one process alone.        *)
Flat == INSTANCE AddressSpaces
    WITH space <- [p \in Procs |-> Space(p)], Area <- UserArea
TablesActAsOne == Flat!AbsSpec
=============================================================================
