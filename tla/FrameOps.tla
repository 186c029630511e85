------------------------------ MODULE FrameOps ------------------------------
(***************************************************************************)
(* The physical frame bitmap of kernel/cpu/mmu.c as pure operators.        *)
(*                                                                         *)
(* The bitmap is the set of frames whose bit is 1; a frame is a number.    *)
(* The code keeps WordBits = 32 bits to a word and looks for a free frame  *)
(* a word at a time, starting at the word of the hint lowest_available.    *)
(***************************************************************************)
EXTENDS Integers, FiniteSetsExt

CONSTANTS
    NFrames,    \* n_frames: frames of physical memory
    WordBits    \* bits of a word of the bitmap (32 in the code)

ASSUME FrameAssumption ==
    /\ NFrames \in Nat
    /\ WordBits \in Nat \ {0}

Frames == 0 .. NFrames - 1

(* The value (uintptr_t) -1 of a failed request. *)
NoFrame == -1

bit_index(f) == f \div WordBits

(* The frames mmu_request_frame can return: those of the whole words.  The *)
(* bits of a partial last word are only reached by mmu_request_frames.     *)
WholeFrames == {f \in Frames : bit_index(f) < bit_index(NFrames)}

(* Faulty: the scan skips the word of the hint. *)
ScannedFromNextWord(lowest) ==
    {f \in Frames : bit_index(lowest) < bit_index(f) /\ bit_index(f) < bit_index(NFrames)}

(* The bits mmu_request_frame looks at when the hint is lowest. *)
Scanned(lowest) ==
    {f \in Frames : bit_index(lowest) <= bit_index(f) /\ bit_index(f) < bit_index(NFrames)}

LeastOr(S) == IF S = {} THEN NoFrame ELSE Min(S)

(* The set of locked frames after mmu_lock_frame(f): no effect past the    *)
(* end of memory, which includes the address made from NoFrame.            *)
LockFrame(locked, f) == IF f \in Frames THEN locked \cup {f} ELSE locked

(* Faulty: a release leaves the hint where it is. *)
HintStaysAfterRelease(lowest, f) == lowest

(* The two halves of mmu_release_frame(f). *)
ReleaseFrame(locked, f) == IF f \in Frames THEN locked \ {f} ELSE locked
HintAfterRelease(lowest, f) == IF f \in Frames /\ f < lowest THEN f ELSE lowest

(* mmu_probe_frame: a frame past the end of memory is never free. *)
ProbeFrame(locked, f) == f \notin Frames \/ f \in locked

(* mmu_request_frame: the first clear bit at or after the word of the      *)
(* hint.  The frame is not locked; the hint moves just past it.            *)
RequestFrame(locked, lowest) == LeastOr(Scanned(lowest) \ locked)
HintAfterRequest(locked, lowest) ==
    IF Scanned(lowest) \subseteq locked THEN lowest
    ELSE RequestFrame(locked, lowest) + 1

(* mmu_request_frames(n): the first run of n clear bits that starts at or  *)
(* after the hint.  The hint does not move.                                *)
Runs(locked, lowest, n) ==
    {i \in Frames : i >= lowest /\ \A j \in 0 .. n - 1 : ~ProbeFrame(locked, i + j)}
RequestFrames(locked, lowest, n) == LeastOr(Runs(locked, lowest, n))
=============================================================================
