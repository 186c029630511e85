----------------------------- MODULE CowMemory -----------------------------
(***************************************************************************)
(* Copy-on-write address spaces: fork (mmu_clone, _copy_page), exit and    *)
(* exec (mmu_free, _free_page, elf_exec), the write fault                  *)
(* (mmu_copy_on_write) and sbrk, over the frame bitmap and the 8-bit       *)
(* reference counts of kernel/cpu/mmu.c.                                   *)
(*                                                                         *)
(* The loops over a page table run in the kernel with interrupts off; each *)
(* iteration is a step, and op says which loop is running and where it is. *)
(* User code runs only when op is idle.  The four levels of tables of a    *)
(* directory are allocated and released together and are represented by    *)
(* one frame, root.  Running out of frames is fatal to the kernel (it      *)
(* faults on the address made from a failed request and idt.c loops        *)
(* forever), so steps that need a frame wait for ever when there is none.  *)
(***************************************************************************)
EXTENDS FrameOps

CONSTANTS
    Procs,      \* process slots
    Dying,      \* the directory mmu_free is working on
    NPages,     \* pages of a user address space
    ImagePages, \* pages elf_exec maps
    FirstPages, \* frames of the kernel image
    Values,     \* contents of a page
    Unmapped,   \* no contents
    NoMemory,   \* no process
    MaxRef,     \* 255: where a reference count saturates
    Shrinking   \* do processes call sbrk with a negative size?

ASSUME CowAssumption ==
    /\ Dying \notin Procs
    /\ NPages \in Nat \ {0}
    /\ ImagePages \in 0 .. NPages
    /\ IsFiniteSet(Procs)
    /\ FirstPages \in 0 .. NFrames - 1     \* there is room for a directory
    /\ MaxRef \in Nat /\ MaxRef >= 2
    /\ Shrinking \in BOOLEAN
    /\ Values # {} /\ Unmapped \notin Values
    /\ NoMemory \notin [1 .. NPages -> Values \cup {Unmapped}]

VPages == 1 .. NPages
Spaces == Procs \cup {Dying}

(* The fields of pagemap_entry_t that matter.  An entry that is not        *)
(* present has no frame.                                                   *)
Entry == [frame : Frames \cup {NoFrame}, writable : BOOLEAN, cow : BOOLEAN]
NotPresent == [frame |-> NoFrame, writable |-> FALSE, cow |-> FALSE]
EmptyTable == [v \in VPages |-> NotPresent]

VARIABLES
    frames, lowest_available,   \* the frame bitmap and its hint
    mem_refcounts,              \* reference counts of the frames
    contents,                   \* what each frame holds
    root,                       \* the frame of each directory
    table,                      \* the user entries of each directory
    heap,                       \* image.heap, in pages, of each process
    live,                       \* processes that user code runs in
    op,                         \* the kernel loop in progress
    tainted                     \* has a count saturated, or has sbrk
                                \* reused a shared page?

memVars == <<frames, lowest_available, mem_refcounts, contents>>
vars == <<memVars, root, table, heap, live, op, tainted>>

Idle == [kind |-> "idle", proc |-> Dying, child |-> Dying, page |-> 1]
Loop(kind, p, c) == [kind |-> kind, proc |-> p, child |-> c, page |-> 1]
NextPage == op' = [op EXCEPT !.page = @ + 1]
Finished == op.page > NPages

Present(e) == e.frame # NoFrame

(* mmu_request_frame followed by mmu_lock_frame: out is the frame. *)
TakeFrame(out) ==
    /\ out # NoFrame
    /\ out = RequestFrame(frames, lowest_available)
    /\ frames' = LockFrame(frames, out)
    /\ lowest_available' = HintAfterRequest(frames, lowest_available)

(* The contents of a frame that is free, or holds tables, do not matter:   *)
(* whoever gets it for a page finds anything there.                        *)
PutFrame(f) ==
    /\ contents' = [contents EXCEPT ![f] = Unmapped]
    /\ frames' = ReleaseFrame(frames, f)
    /\ lowest_available' = HintAfterRelease(lowest_available, f)

(* spawn_init: one process with an empty directory. *)
Init ==
    \E p \in Procs :
        /\ frames = 0 .. FirstPages
        /\ lowest_available = FirstPages + 1
        /\ mem_refcounts = [f \in Frames |-> 0]
        /\ contents = [f \in Frames |-> Unmapped]
        /\ root = [q \in Spaces |-> IF q = p THEN FirstPages ELSE NoFrame]
        /\ table = [q \in Spaces |-> EmptyTable]
        /\ heap = [q \in Procs |-> 0]
        /\ live = {p}
        /\ op = Idle
        /\ tainted = FALSE

-----------------------------------------------------------------------------
(* Faulty: the value before the decrement is returned. *)
ReturnsOldCount(f) == IF mem_refcounts[f] = 0 THEN MaxRef ELSE mem_refcounts[f]

(* _refcount_decrease, as the uint8_t its callers compare with 0: the      *)
(* count after the call, and what the call returns (255 for a count that   *)
(* was 0 already).                                                         *)
Decreased(f) == IF mem_refcounts[f] = 0 THEN 0 ELSE mem_refcounts[f] - 1
DecreaseReturns(f) == IF mem_refcounts[f] = 0 THEN MaxRef ELSE mem_refcounts[f] - 1

(* fork: mmu_clone takes the frames of the new directory. *)
ForkStart(p, c) ==
    /\ op = Idle
    /\ p \in live
    /\ root[c] = NoFrame
    /\ \E out \in Frames :
         /\ TakeFrame(out)
         /\ root' = [root EXCEPT ![c] = out]
    /\ op' = Loop("fork", p, c)
    /\ UNCHANGED <<mem_refcounts, contents, table, heap, live, tainted>>

(* _copy_page, one alternative per way it returns.  An entry that is not   *)
(* present is skipped by mmu_clone.                                        *)
CopyNothing(e) ==
    /\ \/ ~Present(e)
       \/ e.writable /\ mem_refcounts[e.frame] # 0
    /\ UNCHANGED <<memVars, table, tainted>>

(* Faulty: the first sharing counts one owner. *)
ShareFirstAsOne(e) ==
    LET shared == [e EXCEPT !.writable = FALSE, !.cow = TRUE] IN
    /\ Present(e)
    /\ e.writable
    /\ mem_refcounts[e.frame] = 0
    /\ mem_refcounts' = [mem_refcounts EXCEPT ![e.frame] = 1]
    /\ table' = [table EXCEPT ![op.proc][op.page] = shared,
                              ![op.child][op.page] = shared]
    /\ UNCHANGED <<frames, lowest_available, contents, tainted>>

(* Faulty: the parent may go on writing. *)
ShareFirstParentWritable(e) ==
    LET shared == [e EXCEPT !.writable = FALSE, !.cow = TRUE] IN
    /\ Present(e)
    /\ e.writable
    /\ mem_refcounts[e.frame] = 0
    /\ mem_refcounts' = [mem_refcounts EXCEPT ![e.frame] = 2]
    /\ table' = [table EXCEPT ![op.child][op.page] = shared]
    /\ UNCHANGED <<frames, lowest_available, contents, tainted>>

(* The first sharing of a page: both entries become read-only. *)
ShareFirst(e) ==
    LET shared == [e EXCEPT !.writable = FALSE, !.cow = TRUE] IN
    /\ Present(e)
    /\ e.writable
    /\ mem_refcounts[e.frame] = 0
    /\ mem_refcounts' = [mem_refcounts EXCEPT ![e.frame] = 2]
    /\ table' = [table EXCEPT ![op.proc][op.page] = shared,
                              ![op.child][op.page] = shared]
    /\ UNCHANGED <<frames, lowest_available, contents, tainted>>

ShareAgain(e) ==
    /\ Present(e)
    /\ ~e.writable
    /\ mem_refcounts[e.frame] # MaxRef
    /\ mem_refcounts' = [mem_refcounts EXCEPT ![e.frame] = @ + 1]
    /\ table' = [table EXCEPT ![op.child][op.page] = e]
    /\ UNCHANGED <<frames, lowest_available, contents, tainted>>

(* A saturated count: the child gets a copy in a frame that is requested   *)
(* but not locked.                                                         *)
CopySaturated(e) ==
    LET out == RequestFrame(frames, lowest_available) IN
    /\ Present(e)
    /\ ~e.writable
    /\ mem_refcounts[e.frame] = MaxRef
    /\ out # NoFrame
    /\ lowest_available' = HintAfterRequest(frames, lowest_available)
    /\ contents' = [contents EXCEPT ![out] = contents[e.frame]]
    /\ table' = [table EXCEPT ![op.child][op.page] =
                    [frame |-> out, writable |-> TRUE, cow |-> FALSE]]
    /\ tainted' = TRUE
    /\ UNCHANGED <<frames, mem_refcounts>>

CopyPage ==
    /\ op.kind = "fork"
    /\ ~Finished
    /\ LET e == table[op.proc][op.page] IN
       CopyNothing(e) \/ ShareFirst(e) \/ ShareAgain(e) \/ CopySaturated(e)
    /\ NextPage
    /\ UNCHANGED <<root, heap, live>>

ForkEnd ==
    /\ op.kind = "fork"
    /\ Finished
    /\ live' = live \cup {op.child}
    /\ heap' = [heap EXCEPT ![op.child] = heap[op.proc]]
    /\ op' = Idle
    /\ UNCHANGED <<memVars, root, table, tainted>>

-----------------------------------------------------------------------------
(* process_delete: the directory goes to mmu_free. *)
ExitStart(p) ==
    /\ op = Idle
    /\ p \in live
    /\ live' = live \ {p}
    /\ root' = [root EXCEPT ![Dying] = root[p], ![p] = NoFrame]
    /\ table' = [table EXCEPT ![Dying] = table[p], ![p] = EmptyTable]
    /\ op' = Loop("exit", p, p)
    /\ UNCHANGED <<memVars, heap, tainted>>

(* elf_exec: a clone of the kernel directory replaces the old one, which   *)
(* goes to mmu_free.                                                       *)
ExecStart(p) ==
    /\ op = Idle
    /\ p \in live
    /\ live' = live \ {p}
    /\ \E out \in Frames :
         /\ TakeFrame(out)
         /\ root' = [root EXCEPT ![Dying] = root[p], ![p] = out]
    /\ table' = [table EXCEPT ![Dying] = table[p], ![p] = EmptyTable]
    /\ op' = Loop("exec", p, p)
    /\ UNCHANGED <<mem_refcounts, contents, heap, tainted>>

Freeing == op.kind \in {"exit", "exec"}

(* _free_page: the count is only looked at, and only lowered, when the     *)
(* entry is read-only.                                                     *)
FreePage ==
    /\ Freeing
    /\ ~Finished
    /\ LET e == table[Dying][op.page] IN
       /\ IF Present(e) /\ ~e.writable
            THEN mem_refcounts' = [mem_refcounts EXCEPT ![e.frame] = Decreased(e.frame)]
            ELSE UNCHANGED mem_refcounts
       /\ IF Present(e) /\ (e.writable \/ DecreaseReturns(e.frame) = 0)
            THEN PutFrame(e.frame)
            ELSE UNCHANGED <<frames, lowest_available, contents>>
    /\ table' = [table EXCEPT ![Dying][op.page] = NotPresent]
    /\ NextPage
    /\ UNCHANGED <<root, heap, live, tainted>>

(* The directory's own frames go last; exec goes on to load the image. *)
FreeEnd ==
    /\ Freeing
    /\ Finished
    /\ PutFrame(root[Dying])
    /\ root' = [root EXCEPT ![Dying] = NoFrame]
    /\ op' = IF op.kind = "exec" THEN Loop("load", op.proc, op.proc) ELSE Idle
    /\ UNCHANGED <<mem_refcounts, table, heap, live, tainted>>

(* elf_exec maps a page of the image or of the user stack and fills it. *)
LoadPage ==
    /\ op.kind = "load"
    /\ op.page <= ImagePages
    /\ \E out \in Frames, x \in Values :
         /\ TakeFrame(out)
         /\ contents' = [contents EXCEPT ![out] = x]
         /\ table' = [table EXCEPT ![op.proc][op.page] =
                        [frame |-> out, writable |-> TRUE, cow |-> FALSE]]
    /\ NextPage
    /\ UNCHANGED <<mem_refcounts, root, heap, live, tainted>>

LoadEnd ==
    /\ op.kind = "load"
    /\ op.page > ImagePages
    /\ heap' = [heap EXCEPT ![op.proc] = ImagePages]
    /\ live' = live \cup {op.proc}
    /\ op' = Idle
    /\ UNCHANGED <<memVars, root, table, tainted>>

-----------------------------------------------------------------------------
(* One page of sys_sbrk.  mmu_allocate_frame_ex takes a frame only if the  *)
(* entry has none, and sets writable either way; the page is not cleared,  *)
(* so it holds whatever its last owner left.                               *)
Sbrk(p) ==
    LET v == heap[p] + 1
        e == table[p][v]
    IN
    /\ op = Idle
    /\ p \in live
    /\ heap[p] < NPages
    /\ heap' = [heap EXCEPT ![p] = v]
    /\ IF Present(e)
         THEN /\ table' = [table EXCEPT ![p][v].writable = TRUE]
              /\ tainted' = (tainted \/ ~e.writable)
              /\ UNCHANGED memVars
         ELSE /\ \E out \in Frames, x \in Values :
                   /\ TakeFrame(out)
                   /\ contents' = [contents EXCEPT ![out] = x]
                   /\ table' = [table EXCEPT ![p][v].frame = out,
                                             ![p][v].writable = TRUE]
              /\ UNCHANGED <<mem_refcounts, tainted>>
    /\ UNCHANGED <<root, live, op>>

(* sys_sbrk with a negative size: only image.heap moves. *)
SbrkDown(p) ==
    /\ Shrinking
    /\ op = Idle
    /\ p \in live
    /\ heap[p] > 0
    /\ heap' = [heap EXCEPT ![p] = @ - 1]
    /\ UNCHANGED <<memVars, root, table, live, op, tainted>>

(* mmu_copy_on_write, from a write fault of user code or from              *)
(* mmu_validate_user before the kernel writes to user memory.  The last    *)
(* owner keeps the frame, any other gets a copy.                           *)
CopyOnWrite(p, v) ==
    LET e == table[p][v] IN
    /\ op = Idle
    /\ p \in live
    /\ Present(e) /\ ~e.writable
    /\ e.cow
    /\ mem_refcounts' = [mem_refcounts EXCEPT ![e.frame] = Decreased(e.frame)]
    /\ \/ /\ DecreaseReturns(e.frame) = 0
          /\ table' = [table EXCEPT ![p][v].writable = TRUE, ![p][v].cow = FALSE]
          /\ UNCHANGED <<frames, lowest_available, contents>>
       \/ /\ DecreaseReturns(e.frame) # 0
          /\ \E out \in Frames :
               /\ TakeFrame(out)
               /\ contents' = [contents EXCEPT ![out] = contents[e.frame]]
               /\ table' = [table EXCEPT ![p][v] =
                              [frame |-> out, writable |-> TRUE, cow |-> FALSE]]
    /\ UNCHANGED <<root, heap, live, op, tainted>>

(* A store by user code (or by the kernel for it): it faults until the     *)
(* entry is writable.                                                      *)
Store(p, v, x) ==
    LET e == table[p][v] IN
    /\ op = Idle
    /\ p \in live
    /\ Present(e) /\ e.writable
    /\ contents' = [contents EXCEPT ![e.frame] = x]
    /\ UNCHANGED <<frames, lowest_available, mem_refcounts, root, table, heap, live, op, tainted>>

Next ==
    \/ \E p \in Procs :
         \/ \E c \in Procs : ForkStart(p, c)
         \/ ExitStart(p) \/ ExecStart(p)
         \/ Sbrk(p) \/ SbrkDown(p)
         \/ \E v \in VPages : CopyOnWrite(p, v) \/ \E x \in Values : Store(p, v, x)
    \/ CopyPage \/ ForkEnd
    \/ FreePage \/ FreeEnd
    \/ LoadPage \/ LoadEnd

Spec == Init /\ [][Next]_vars

-----------------------------------------------------------------------------
(* The entries, of any directory, that map frame f. *)
Mappings(f) == {m \in Spaces \X VPages : table[m[1]][m[2]].frame = f}
Roots == {root[q] : q \in {r \in Spaces : root[r] # NoFrame}}
Mapped == {f \in Frames : Mappings(f) # {}}

TypeOK ==
    /\ frames \subseteq Frames
    /\ lowest_available \in 0 .. NFrames
    /\ mem_refcounts \in [Frames -> 0 .. MaxRef]
    /\ contents \in [Frames -> Values \cup {Unmapped}]
    /\ root \in [Spaces -> Frames \cup {NoFrame}]
    /\ table \in [Spaces -> [VPages -> Entry]]
    /\ heap \in [Procs -> 0 .. NPages]
    /\ live \subseteq Procs
    /\ op \in [kind : {"idle", "fork", "exit", "exec", "load"},
               proc : Spaces, child : Spaces, page : 1 .. NPages + 1]
    /\ tainted \in BOOLEAN

(* In the middle of every loop as well as between calls, the count of a    *)
(* frame is the number of entries that share it, all of them read-only and *)
(* copy-on-write; a frame without a count has one entry, which is          *)
(* writable.                                                               *)
RefcountExact ==
    /\ TypeOK
    /\ ~tainted => \A f \in Mapped :
          IF mem_refcounts[f] = 0
            THEN \E m \in Mappings(f) :
                   /\ Mappings(f) = {m}
                   /\ table[m[1]][m[2]].writable /\ ~table[m[1]][m[2]].cow
            ELSE /\ Cardinality(Mappings(f)) = mem_refcounts[f]
                 /\ \A m \in Mappings(f) :
                      ~table[m[1]][m[2]].writable /\ table[m[1]][m[2]].cow

(* No frame is free while an entry or a directory still uses it. *)
UsedFramesLocked ==
    ~tainted =>
        /\ Mapped \cup Roots \subseteq frames \ (0 .. FirstPages - 1)
        /\ Mapped \cap Roots = {}
        /\ \A q, r \in Spaces : root[q] = root[r] /\ root[q] # NoFrame => q = r

(* No frame stays locked that nothing uses. *)
NoFrameLeaks ==
    ~tainted => frames \subseteq Mapped \cup Roots \cup 0 .. FirstPages - 1

(* The frames in use are those locked, however fork, faults, exit and exec *)
(* interleave: none is given to two owners, and the last exit, exec or     *)
(* write fault that lets go of a frame releases it.                        *)
FramesAccounted == UsedFramesLocked /\ NoFrameLeaks

(* Copy-on-write is invisible: each process sees a private memory of which *)
(* fork makes a full copy.                                                 *)
View(p) ==
    IF p \notin live THEN NoMemory
    ELSE [v \in VPages |-> IF Present(table[p][v]) THEN contents[table[p][v].frame]
                                                  ELSE Unmapped]

Abs == INSTANCE PrivateMemory WITH view <- [p \in Procs |-> View(p)]

MemoryIsPrivate == Abs!AbsSpec
=============================================================================
