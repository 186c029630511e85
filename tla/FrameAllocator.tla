--------------------------- MODULE FrameAllocator ---------------------------
(***************************************************************************)
(* The physical frame allocator of kernel/cpu/mmu.c: the bitmap frames,    *)
(* the hint lowest_available, the boot-time set-up by mmu_init, and the    *)
(* callers that allocate and release frames (mmu_allocate_frame(s), the    *)
(* kernel heap, page tables, file blocks).  The kernel runs with           *)
(* interrupts off, so every call is one step.                              *)
(***************************************************************************)
EXTENDS FrameOps

CONSTANTS
    FirstPages,     \* frames 0 .. FirstPages - 1 hold the kernel and the bitmap
    MaxRun          \* longest run of frames a caller asks for

ASSUME AllocatorAssumption ==
    /\ FirstPages \in 0 .. NFrames
    /\ MaxRun \in Nat
    /\ MaxRun <= FirstPages + 1   \* see AllocateFrames

VARIABLES
    frames,             \* the frames whose bit is set
    lowest_available,   \* the hint
    unavailable_memory, \* frames of whole words locked after the memory map
    booted,             \* has mmu_init finished?
    held,               \* frames given to callers and not released
    kernel,             \* available frames taken by the kernel image
    result              \* return value of the last request

vars == <<frames, lowest_available, unavailable_memory, booted, held, kernel, result>>

Init ==
    /\ frames = Frames
    /\ lowest_available = 0
    /\ unavailable_memory = 0
    /\ booted = FALSE
    /\ held = {}
    /\ kernel = {}
    /\ result = NoFrame

(* Everything below first_page + frame_bytes. *)
ImageFrames == 0 .. FirstPages - 1

(* multiboot_memory_marker releases each frame of an available region.  A  *)
(* region may reach past the memory the bitmap covers.                     *)
MarkAvailable(f) ==
    /\ ~booted
    /\ frames' = ReleaseFrame(frames, f)
    /\ lowest_available' = HintAfterRelease(lowest_available, f)
    /\ UNCHANGED <<unavailable_memory, booted, held, kernel, result>>

(* Faulty: the image is locked before the count is taken. *)
FinishInitCountsLate ==
    /\ ~booted
    /\ booted' = TRUE
    /\ unavailable_memory' = Cardinality((frames \cup ImageFrames) \cap WholeFrames)
    /\ kernel' = ImageFrames \ frames
    /\ frames' = frames \cup ImageFrames
    /\ UNCHANGED <<lowest_available, held, result>>

(* The rest of mmu_init: the bits still set are counted as unavailable,    *)
(* then the frames of the kernel image are locked.                         *)
FinishInit ==
    /\ ~booted
    /\ booted' = TRUE
    /\ unavailable_memory' = Cardinality(frames \cap WholeFrames)
    /\ kernel' = ImageFrames \ frames
    /\ frames' = frames \cup ImageFrames
    /\ UNCHANGED <<lowest_available, held, result>>

(* Faulty: the frame is requested and not locked. *)
AllocateFrameUnlocked ==
    LET out == RequestFrame(frames, lowest_available) IN
    /\ booted
    /\ result' = out
    /\ lowest_available' = HintAfterRequest(frames, lowest_available)
    /\ held' = LockFrame(held, out)
    /\ UNCHANGED <<frames, unavailable_memory, booted, kernel>>

(* mmu_allocate_frame: request, then lock what the request returned. *)
AllocateFrame ==
    LET out == RequestFrame(frames, lowest_available) IN
    /\ booted
    /\ result' = out
    /\ lowest_available' = HintAfterRequest(frames, lowest_available)
    /\ frames' = LockFrame(frames, out)
    /\ held' = LockFrame(held, out)
    /\ UNCHANGED <<unavailable_memory, booted, kernel>>

(* mmu_allocate_frames(n), and malloc: a run is requested, then locked     *)
(* frame by frame.  A failed request starts at (uintptr_t) -1, and the     *)
(* frames after it wrap round to 0 .. n - 2: those bits get locked, which  *)
(* is harmless as long as they are the kernel image's (MaxRun is bounded). *)
AllocateFrames(n) ==
    LET first == RequestFrames(frames, lowest_available, n)
        run   == Frames \cap (first .. first + n - 1)
    IN
    /\ booted
    /\ result' = first
    /\ frames' = frames \cup run
    /\ held' = IF first = NoFrame THEN held ELSE held \cup run
    /\ UNCHANGED <<lowest_available, unavailable_memory, booted, kernel>>

(* mmu_release_frame, called with a frame the caller holds or, as          *)
(* process_delete does with a kernel stack's virtual address, with an      *)
(* address past the end of memory.                                         *)
Release(f) ==
    /\ booted
    /\ f \in held \/ f \notin Frames
    /\ frames' = ReleaseFrame(frames, f)
    /\ lowest_available' = HintAfterRelease(lowest_available, f)
    /\ held' = held \ {f}
    /\ UNCHANGED <<unavailable_memory, booted, kernel, result>>

Next ==
    \/ \E f \in Frames \cup {NFrames} : MarkAvailable(f) \/ Release(f)
    \/ FinishInit
    \/ AllocateFrame
    \/ \E n \in 1 .. MaxRun : AllocateFrames(n)

Spec == Init /\ [][Next]_vars

-----------------------------------------------------------------------------
(* mmu_used_memory, in frames: the set bits of the whole words, less those *)
(* that were set when mmu_init counted.                                    *)
UsedMemory == Cardinality(frames \cap WholeFrames) - unavailable_memory

TypeOK ==
    /\ frames \subseteq Frames
    /\ lowest_available \in 0 .. NFrames
    /\ unavailable_memory \in 0 .. NFrames
    /\ booted \in BOOLEAN
    /\ held \subseteq Frames
    /\ kernel \subseteq Frames
    /\ result \in Frames \cup {NoFrame}

(* No free frame hides below lowest_available, whatever the order of       *)
(* requests (which move it up) and releases (which move it down): the      *)
(* search of mmu_request_frame(s), which starts there, misses nothing.     *)
HintSound == \A f \in Frames : f < lowest_available => f \in frames

(* A frame some caller still holds has its bit set, so no later request    *)
(* can give it to a second caller; and it is never part of the kernel.     *)
HeldStaysLocked == held \subseteq frames \ kernel

(* The kernel image is never given out: neither to a caller nor, by the    *)
(* wrap-round of a failed request, for the first time.                     *)
ImageLocked ==
    /\ kernel \subseteq ImageFrames
    /\ IF booted THEN ImageFrames \subseteq frames \ held
                 ELSE held = {} /\ kernel = {} /\ lowest_available = 0

(* mmu_used_memory reports exactly the frames taken by callers and by the  *)
(* kernel image, except those of the partial last word: the count of       *)
(* unavailable frames taken at boot stays right ever after.                *)
UsedMemoryExact ==
    booted => UsedMemory = Cardinality((held \cup kernel) \cap WholeFrames)

(* The allocator implements FrameSet: each request returns the lowest free *)
(* frame or run, fails only when there is none, and takes nothing that is  *)
(* held.                                                                   *)
Abs == INSTANCE FrameSet WITH
    All     <- Frames,
    Single  <- WholeFrames,
    Nothing <- NoFrame,
    free    <- Frames \ frames,
    ready   <- booted,
    answer  <- result

ImplementsFrameSet == Abs!AbsSpec
=============================================================================
