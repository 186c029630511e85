------------------------ MODULE FrameAllocatorProofs ------------------------
(***************************************************************************)
(* The frame allocator is correct for every memory size, word size and     *)
(* size of the kernel image.                                               *)
(***************************************************************************)
EXTENDS FrameAllocator, TLAPS, FiniteSetTheorems, WellFoundedInduction

-----------------------------------------------------------------------------
(* The operators of FrameOps *)

(* A non-empty finite set of naturals has a least element, and Min is it.  *)
(* The sets of elements below each element are ordered by strict           *)
(* inclusion, which is well founded: the minimal one is that of the least. *)
LEMMA MinOfFinite ==
    ASSUME NEW S, S \subseteq Nat, IsFiniteSet(S), S # {}
    PROVE  /\ Min(S) \in S
           /\ \A y \in S : Min(S) <= y
<1>. DEFINE Below(x) == {y \in S : y < x}
            Belows == {Below(x) : x \in S}
<1>1. IsWellFoundedOn(StrictSubsetOrdering(S), FiniteSubsetsOf(S))
  BY FS_StrictSubsetOrderingWellFounded
<1>2. Belows \subseteq FiniteSubsetsOf(S)
  BY FS_Subset DEF FiniteSubsetsOf
<1>3. Belows # {}
  OBVIOUS
<1>4. PICK B \in Belows : \A C \in Belows : <<C, B>> \notin StrictSubsetOrdering(S)
  BY <1>1, <1>2, <1>3, WFMin, Zenon
<1>5. PICK x \in S : B = Below(x)
  OBVIOUS
<1>6. ASSUME NEW y \in S, y < x PROVE FALSE
  <2>. HIDE DEF Belows
  <2>0. \A z \in S : z < y => z < x
    BY <1>6
  <2>1. y \in Below(x)
    BY <1>6
  <2>2. ~(y < y)
    OBVIOUS
  <2>3. y \notin Below(y)
    BY <2>2
  <2>4. Below(y) \in SUBSET S /\ Below(x) \in SUBSET S
    OBVIOUS
  <2>5. Below(y) \subseteq Below(x)
    BY <2>0
  <2>6. <<Below(y), Below(x)>> \in StrictSubsetOrdering(S)
    BY <2>1, <2>3, <2>4, <2>5, Zenon DEF StrictSubsetOrdering
  <2>7. Below(y) \in Belows
    BY DEF Belows
  <2>. QED
    BY <1>4, <1>5, <2>6, <2>7, Zenon
<1>7. \A y \in S : x <= y
  BY <1>6
<1>. QED
  BY <1>7 DEF Min

(* Words are numbered in the order of their bits. *)
LEMMA BitIndexMonotone ==
    ASSUME NEW a \in Nat, NEW b \in Nat, a <= b
    PROVE  bit_index(a) <= bit_index(b)
<1>. WordBits \in Nat \ {0}
  BY FrameAssumption
<1>. QED
  BY DEF bit_index

(* What is free at or after the word of a sound hint is all that is free   *)
(* in the whole words: starting there loses nothing.                       *)
LEMMA SoundHintScansAll ==
    ASSUME NEW locked, NEW lowest \in Nat,
           \A f \in Frames : f < lowest => f \in locked
    PROVE  Scanned(lowest) \ locked = WholeFrames \ locked
<1>1. ASSUME NEW f \in WholeFrames, f \notin locked
      PROVE  bit_index(lowest) <= bit_index(f)
  <2>1. f \in Frames /\ f \in Nat /\ lowest <= f
    BY <1>1, FrameAssumption DEF WholeFrames, Frames
  <2>. QED
    BY <2>1, BitIndexMonotone
<1>. QED
  BY <1>1 DEF Scanned, WholeFrames

(* A request that does not fail returns the least of its candidates. *)
LEMMA LeastOfFrames ==
    ASSUME NEW S \in SUBSET Frames, S # {}
    PROVE  /\ LeastOr(S) = Min(S)
           /\ LeastOr(S) \in S
           /\ \A y \in S : LeastOr(S) <= y
<1>1. IsFiniteSet(Frames)
  <2>1. 0 \in Int /\ NFrames - 1 \in Int
    BY FrameAssumption
  <2>. QED
    BY <2>1, FS_Interval DEF Frames
<1>2. IsFiniteSet(S)
  BY <1>1, FS_Subset
<1>3. S \subseteq Nat
  BY FrameAssumption DEF Frames
<1>. QED
  BY <1>2, <1>3, MinOfFinite DEF LeastOr

(* mmu_request_frame keeps a sound hint sound once the frame is locked:    *)
(* everything below the frame it returns is locked.                        *)
LEMMA RequestKeepsHint ==
    ASSUME NEW locked, NEW lowest \in 0 .. NFrames,
           \A f \in Frames : f < lowest => f \in locked,
           NEW out, out = RequestFrame(locked, lowest)
    PROVE  /\ HintAfterRequest(locked, lowest) \in 0 .. NFrames
           /\ \A f \in Frames :
                 f < HintAfterRequest(locked, lowest) => f \in LockFrame(locked, out)
<1>1. CASE Scanned(lowest) \subseteq locked
  BY <1>1 DEF HintAfterRequest, LockFrame
<1>2. CASE ~(Scanned(lowest) \subseteq locked)
  <2>. DEFINE S == Scanned(lowest) \ locked
  <2>1. S \in SUBSET Frames /\ S # {}
    BY <1>2 DEF Scanned
  <2>2. out \in S /\ \A y \in S : out <= y
    BY <2>1, LeastOfFrames DEF RequestFrame
  <2>3. HintAfterRequest(locked, lowest) = out + 1
    BY <1>2 DEF HintAfterRequest
  <2>4. out \in Frames /\ bit_index(out) < bit_index(NFrames)
    BY <2>2 DEF Scanned
  <2>5. LockFrame(locked, out) = locked \cup {out}
    BY <2>4 DEF LockFrame
  <2>6. ASSUME NEW f \in Frames, f < out, f \notin locked PROVE FALSE
    <3>1. f \in Nat /\ out \in Nat /\ lowest \in Nat /\ NFrames \in Nat /\ lowest <= f
      BY <2>4, <2>6, FrameAssumption DEF Frames
    <3>2. bit_index(lowest) <= bit_index(f) /\ bit_index(f) <= bit_index(out)
      BY <3>1, <2>6, BitIndexMonotone
    <3>3. bit_index(f) \in Int /\ bit_index(out) \in Int /\ bit_index(NFrames) \in Int
      BY <3>1, FrameAssumption DEF bit_index
    <3>4. f \in S
      BY <2>4, <2>6, <3>2, <3>3 DEF Scanned
    <3>. QED
      BY <2>2, <2>6, <3>1, <3>4
  <2>7. out + 1 \in 0 .. NFrames
    BY <2>4, FrameAssumption DEF Frames
  <2>8. ASSUME NEW f \in Frames, f < out + 1 PROVE f \in locked \cup {out}
    <3>1. f < out \/ f = out
      BY <2>4, <2>8 DEF Frames
    <3>. QED
      BY <2>6, <3>1
  <2>. QED
    BY <2>3, <2>5, <2>7, <2>8
<1>. QED
  BY <1>1, <1>2

(* mmu_request_frame returns a frame that is free, or none.                *)
LEMMA RequestIsFree ==
    ASSUME NEW locked, NEW lowest
    PROVE  \/ RequestFrame(locked, lowest) = NoFrame
           \/ RequestFrame(locked, lowest) \in Frames \ locked
<1>. DEFINE S == Scanned(lowest) \ locked
<1>1. S \in SUBSET Frames
  BY DEF Scanned
<1>2. CASE S = {}
  BY <1>2 DEF RequestFrame, LeastOr
<1>3. CASE S # {}
  <2>1. RequestFrame(locked, lowest) \in S
    BY <1>1, <1>3, LeastOfFrames DEF RequestFrame
  <2>. QED
    BY <1>1, <2>1
<1>. QED
  BY <1>2, <1>3

-----------------------------------------------------------------------------
(* The allocator *)

(* The inductive invariant: that held frames stay locked and that the      *)
(* hint is sound need each other, and the failing request for a run needs  *)
(* the kernel image to be locked.                                          *)
IInv == TypeOK /\ HintSound /\ HeldStaysLocked /\ ImageLocked

(* The run of a successful request is made of free frames. *)
LEMMA RunIsFree ==
    ASSUME TypeOK, NEW n \in 1 .. MaxRun, NEW first,
           first = RequestFrames(frames, lowest_available, n),
           first # NoFrame
    PROVE  /\ first \in Frames
           /\ first .. first + n - 1 \subseteq Frames \ frames
<1>. DEFINE S == Runs(frames, lowest_available, n)
<1>1. S # {} /\ S \in SUBSET Frames
  BY DEF RequestFrames, LeastOr, Runs
<1>2. first \in S
  BY <1>1, LeastOfFrames DEF RequestFrames
<1>3. first \in Int /\ n \in Int
  BY <1>1, <1>2, FrameAssumption, AllocatorAssumption DEF Frames
<1>4. ASSUME NEW f \in first .. first + n - 1
      PROVE  f \in Frames \ frames
  <2>1. f - first \in 0 .. n - 1 /\ first + (f - first) = f
    BY <1>3, <1>4
  <2>2. ~ProbeFrame(frames, first + (f - first))
    BY <1>2, <2>1 DEF Runs
  <2>. QED
    BY <2>1, <2>2 DEF ProbeFrame
<1>. QED
  BY <1>1, <1>2, <1>4

(* A failed request for a run only touches frames that are locked anyway. *)
LEMMA FailedRunIsImage ==
    ASSUME NEW n \in 1 .. MaxRun
    PROVE  Frames \cap (NoFrame .. NoFrame + n - 1) \subseteq ImageFrames
BY FrameAssumption, AllocatorAssumption DEF NoFrame, ImageFrames, Frames

(* At power-up every frame is locked, so the invariant holds.             *)
LEMMA InitIInv == Init => IInv
<1>. SUFFICES ASSUME Init PROVE IInv
  OBVIOUS
<1>1. NFrames \in Nat
  BY FrameAssumption
<1>2. TypeOK
  <2>1. lowest_available \in 0 .. NFrames /\ unavailable_memory \in 0 .. NFrames
    BY <1>1 DEF Init
  <2>2. frames \subseteq Frames /\ held \subseteq Frames /\ kernel \subseteq Frames
    BY DEF Init
  <2>3. booted \in BOOLEAN /\ result \in Frames \cup {NoFrame}
    BY DEF Init
  <2>. QED
    BY <2>1, <2>2, <2>3 DEF TypeOK
<1>3. HintSound /\ HeldStaysLocked
  BY DEF Init, HintSound, HeldStaysLocked
<1>4. ImageLocked
  BY DEF Init, ImageLocked
<1>. QED
  BY <1>2, <1>3, <1>4 DEF IInv

(* The memory map releases frames and moves the hint down with them.      *)
LEMMA MarkAvailableIInv ==
    ASSUME IInv, NEW f \in Frames \cup {NFrames}, MarkAvailable(f)
    PROVE  IInv'
<1>. USE DEF IInv, MarkAvailable
<1>1. TypeOK'
  BY FrameAssumption DEF TypeOK, ReleaseFrame, HintAfterRelease, Frames
<1>2. HintSound'
  BY FrameAssumption DEF TypeOK, HintSound, ReleaseFrame, HintAfterRelease, Frames
<1>3. HeldStaysLocked' /\ ImageLocked'
  BY FrameAssumption DEF HeldStaysLocked, ImageLocked, HintAfterRelease, Frames
<1>. QED
  BY <1>1, <1>2, <1>3

(* Locking the kernel image at the end of mmu_init keeps the invariant.   *)
LEMMA FinishInitIInv ==
    ASSUME IInv, FinishInit
    PROVE  IInv'
<1>. USE DEF IInv, FinishInit
<1>1. ImageFrames \subseteq Frames
  BY FrameAssumption, AllocatorAssumption DEF ImageFrames, Frames
<1>2. unavailable_memory' \in 0 .. NFrames
  <2>1. 0 \in Int /\ NFrames - 1 \in Int /\ NFrames \in Nat
    BY FrameAssumption
  <2>2. IsFiniteSet(Frames) /\ Cardinality(Frames) = NFrames
    BY <2>1, FS_Interval DEF Frames
  <2>3. frames \cap WholeFrames \in SUBSET Frames
    BY DEF TypeOK
  <2>4. /\ IsFiniteSet(frames \cap WholeFrames)
        /\ Cardinality(frames \cap WholeFrames) <= NFrames
    BY <2>2, <2>3, FS_Subset
  <2>5. Cardinality(frames \cap WholeFrames) \in Nat
    BY <2>4, FS_CardinalityType
  <2>. QED
    BY <2>1, <2>4, <2>5
<1>3. TypeOK'
  BY <1>1, <1>2 DEF TypeOK
<1>4. HintSound'
  BY DEF HintSound
<1>5. held = {} /\ HeldStaysLocked'
  BY DEF HeldStaysLocked, ImageLocked
<1>6. ImageLocked'
  BY <1>5 DEF ImageLocked
<1>. QED
  BY <1>3, <1>4, <1>5, <1>6

(* mmu_allocate_frame gives out a frame that was free: nobody held it.    *)
LEMMA AllocateFrameIInv ==
    ASSUME IInv, AllocateFrame
    PROVE  IInv'
<1>. DEFINE out == RequestFrame(frames, lowest_available)
<1>. USE DEF IInv, AllocateFrame
<1>1. \/ out = NoFrame
      \/ out \in Frames \ frames
  BY RequestIsFree
<1>2. /\ lowest_available' \in 0 .. NFrames
      /\ HintSound'
  BY RequestKeepsHint DEF TypeOK, HintSound
<1>3. TypeOK'
  BY <1>1, <1>2 DEF TypeOK, LockFrame
<1>4. kernel \subseteq frames /\ booted /\ booted' = booted /\ kernel' = kernel
  BY DEF ImageLocked
<1>5. CASE out = NoFrame
  <2>1. frames' = frames /\ held' = held
    BY <1>5, FrameAssumption DEF LockFrame, NoFrame, Frames
  <2>. QED
    BY <1>2, <1>3, <1>4, <2>1 DEF HeldStaysLocked, ImageLocked
<1>6. CASE out \in Frames \ frames
  <2>1. frames' = frames \cup {out} /\ held' = held \cup {out}
    BY <1>6 DEF LockFrame
  <2>2. HeldStaysLocked'
    BY <1>4, <1>6, <2>1 DEF HeldStaysLocked
  <2>3. ImageLocked'
    BY <1>4, <1>6, <2>1 DEF ImageLocked
  <2>. QED
    BY <1>2, <1>3, <2>2, <2>3
<1>. QED
  BY <1>1, <1>5, <1>6

(* mmu_allocate_frames gives out a free run, or locks only image frames.  *)
LEMMA AllocateFramesIInv ==
    ASSUME IInv, NEW n \in 1 .. MaxRun, AllocateFrames(n)
    PROVE  IInv'
<1>. DEFINE first == RequestFrames(frames, lowest_available, n)
            run   == Frames \cap (first .. first + n - 1)
<1>. USE DEF IInv, AllocateFrames
<1>1. kernel \subseteq frames
  BY DEF ImageLocked
<1>2. CASE first = NoFrame
  <2>1. frames' = frames
    BY <1>2, FailedRunIsImage DEF ImageLocked
  <2>. QED
    BY <1>2, <2>1 DEF TypeOK, HintSound, HeldStaysLocked, ImageLocked
<1>3. CASE first # NoFrame
  <2>1. first \in Frames /\ run \subseteq Frames \ frames
    BY <1>3, RunIsFree
  <2>2. frames' = frames \cup run /\ held' = held \cup run
    BY <1>3
  <2>3. TypeOK'
    BY <2>1, <2>2 DEF TypeOK
  <2>4. HintSound' /\ HeldStaysLocked'
    BY <1>1, <2>1, <2>2 DEF HintSound, HeldStaysLocked
  <2>5. ImageLocked'
    BY <2>1, <2>2 DEF ImageLocked
  <2>. QED
    BY <2>3, <2>4, <2>5
<1>. QED
  BY <1>2, <1>3

(* mmu_release_frame moves the hint down to the frame it releases.        *)
LEMMA ReleaseIInv ==
    ASSUME IInv, NEW f \in Frames \cup {NFrames}, Release(f)
    PROVE  IInv'
<1>. USE DEF IInv, Release
<1>1. TypeOK'
  BY FrameAssumption DEF TypeOK, ReleaseFrame, HintAfterRelease, Frames
<1>2. HintSound'
  BY FrameAssumption DEF TypeOK, HintSound, ReleaseFrame, HintAfterRelease, Frames
<1>3. HeldStaysLocked' /\ ImageLocked'
  BY DEF TypeOK, HeldStaysLocked, ImageLocked, ReleaseFrame
<1>. QED
  BY <1>1, <1>2, <1>3

(* The invariant is inductive: one step per action of the allocator.      *)
LEMMA NextIInv == IInv /\ [Next]_vars => IInv'
<1>. SUFFICES ASSUME IInv, [Next]_vars PROVE IInv'
  OBVIOUS
<1>1. ASSUME NEW f \in Frames \cup {NFrames}, MarkAvailable(f) PROVE IInv'
  BY <1>1, MarkAvailableIInv
<1>2. ASSUME NEW f \in Frames \cup {NFrames}, Release(f) PROVE IInv'
  BY <1>2, ReleaseIInv
<1>3. CASE FinishInit
  BY <1>3, FinishInitIInv
<1>4. CASE AllocateFrame
  BY <1>4, AllocateFrameIInv
<1>5. ASSUME NEW n \in 1 .. MaxRun, AllocateFrames(n) PROVE IInv'
  BY <1>5, AllocateFramesIInv
<1>6. CASE UNCHANGED vars
  BY <1>6 DEF vars, IInv, TypeOK, HintSound, HeldStaysLocked, ImageLocked
<1>. QED
  BY <1>1, <1>2, <1>3, <1>4, <1>5, <1>6 DEF Next

(* The bitmap, the hint and the results stay within their types. *)
THEOREM TypeCorrect == Spec => []TypeOK
BY InitIInv, NextIInv, PTL DEF Spec, IInv

(* No frame below lowest_available is ever free, so mmu_request_frame may  *)
(* start its search there.                                                 *)
THEOREM HintIsSound == Spec => []HintSound
BY InitIInv, NextIInv, PTL DEF Spec, IInv

(* A frame that a caller holds stays locked until that caller releases it, *)
(* so the requests in between cannot return it.                            *)
THEOREM HeldFramesStayLocked == Spec => []HeldStaysLocked
BY InitIInv, NextIInv, PTL DEF Spec, IInv

-----------------------------------------------------------------------------
(* The count of used memory.  mmu_used_memory subtracts a number that was  *)
(* taken once, at boot; what makes it right ever after is that the frames  *)
(* it counted, those locked for nobody, never change.                      *)
LockedForNobody == frames \ (held \cup kernel)

UnavailableCounted ==
    booted => unavailable_memory = Cardinality(LockedForNobody \cap WholeFrames)

(* No call after boot locks or releases a frame that is unavailable.       *)
LEMMA UnavailableStays ==
    ASSUME IInv, booted, [Next]_vars
    PROVE  /\ LockedForNobody' = LockedForNobody
           /\ unavailable_memory' = unavailable_memory
           /\ booted'
<1>. USE DEF LockedForNobody
<1>1. ASSUME NEW f \in Frames \cup {NFrames}, Release(f)
      PROVE  LockedForNobody' = LockedForNobody
  <2>1. CASE f \in held
    <3>1. f \in Frames /\ f \in held
      BY <2>1 DEF IInv, TypeOK
    <3>2. frames' = frames \ {f} /\ held' = held \ {f} /\ kernel' = kernel
      BY <1>1, <3>1 DEF Release, ReleaseFrame
    <3>3. f \notin kernel
      BY <3>1 DEF IInv, HeldStaysLocked
    <3>. QED
      BY <3>1, <3>2, <3>3
  <2>2. CASE f \notin Frames
    BY <1>1, <2>2 DEF Release, ReleaseFrame, IInv, TypeOK
  <2>. QED
    BY <1>1, <2>1, <2>2 DEF Release
<1>2. ASSUME AllocateFrame
      PROVE  LockedForNobody' = LockedForNobody
  <2>. DEFINE out == RequestFrame(frames, lowest_available)
  <2>1. frames' = LockFrame(frames, out) /\ held' = LockFrame(held, out) /\ kernel' = kernel
    BY <1>2 DEF AllocateFrame
  <2>2. CASE out \in Frames
    <3>. HIDE DEF out
    <3>1. frames' = frames \cup {out} /\ held' = held \cup {out}
      BY <2>1, <2>2 DEF LockFrame
    <3>2. out \notin frames
      BY <2>2, RequestIsFree, FrameAssumption DEF out, NoFrame, Frames
    <3>. QED
      BY <2>1, <3>1, <3>2
  <2>3. CASE out \notin Frames
    BY <2>1, <2>3 DEF LockFrame
  <2>. QED
    BY <2>2, <2>3
<1>3. ASSUME NEW n \in 1 .. MaxRun, AllocateFrames(n)
      PROVE  LockedForNobody' = LockedForNobody
  <2>. DEFINE first == RequestFrames(frames, lowest_available, n)
              run   == Frames \cap (first .. first + n - 1)
  <2>1. CASE first = NoFrame
    <3>1. frames' = frames /\ held' = held
      BY <1>3, <2>1, FailedRunIsImage DEF AllocateFrames, IInv, ImageLocked
    <3>. QED
      BY <1>3, <3>1 DEF AllocateFrames
  <2>2. CASE first # NoFrame
    <3>1. run \subseteq Frames \ frames
      BY <2>2, RunIsFree DEF IInv
    <3>2. frames' = frames \cup run /\ held' = held \cup run /\ kernel' = kernel
      BY <1>3, <2>2 DEF AllocateFrames
    <3>. QED
      BY <3>1, <3>2
  <2>. QED
    BY <2>1, <2>2
<1>4. ASSUME NEW f \in Frames \cup {NFrames}, MarkAvailable(f) PROVE FALSE
  BY <1>4 DEF MarkAvailable
<1>5. ~FinishInit
  BY DEF FinishInit
<1>6. UNCHANGED vars => LockedForNobody' = LockedForNobody
  BY DEF vars
<1>7. unavailable_memory' = unavailable_memory /\ booted'
  BY <1>4, <1>5 DEF Next, vars, Release, AllocateFrame, AllocateFrames
<1>. QED
  BY <1>1, <1>2, <1>3, <1>4, <1>5, <1>6, <1>7 DEF Next

(* At the end of mmu_init every locked frame is counted, and those of the  *)
(* image that were free become the kernel's.                               *)
LEMMA NextUnavailableCounted ==
    IInv /\ UnavailableCounted /\ [Next]_vars => UnavailableCounted'
<1>. SUFFICES ASSUME IInv, UnavailableCounted, [Next]_vars PROVE UnavailableCounted'
  OBVIOUS
<1>1. CASE booted
  BY <1>1, UnavailableStays DEF UnavailableCounted
<1>2. CASE FinishInit
  <2>1. held = {} /\ held' = {}
    BY <1>2 DEF FinishInit, IInv, ImageLocked
  <2>2. LockedForNobody' = frames
    BY <1>2, <2>1 DEF FinishInit, LockedForNobody
  <2>. QED
    BY <1>2, <2>2 DEF FinishInit, UnavailableCounted
<1>3. CASE ~booted /\ ~FinishInit
  <2>1. ~booted'
    BY <1>3 DEF Next, vars, MarkAvailable, Release, AllocateFrame, AllocateFrames
  <2>. QED
    BY <2>1 DEF UnavailableCounted
<1>. QED
  BY <1>1, <1>2, <1>3

(* Of the locked frames, those locked for nobody are the ones to subtract. *)
LEMMA CountedIsExact == IInv /\ UnavailableCounted => UsedMemoryExact
<1>. SUFFICES ASSUME IInv, UnavailableCounted, booted
              PROVE  UsedMemory = Cardinality((held \cup kernel) \cap WholeFrames)
  BY DEF UsedMemoryExact
<1>. DEFINE S == frames \cap WholeFrames
            T == held \cup kernel
<1>1. IsFiniteSet(Frames)
  <2>1. 0 \in Int /\ NFrames - 1 \in Int
    BY FrameAssumption
  <2>. QED
    BY <2>1, FS_Interval DEF Frames
<1>2. S \in SUBSET Frames
  BY DEF IInv, TypeOK
<1>3. IsFiniteSet(S)
  BY <1>1, <1>2, FS_Subset
<1>4. S \ T = LockedForNobody \cap WholeFrames
  BY DEF LockedForNobody
<1>5. S \cap T = T \cap WholeFrames
  BY DEF IInv, HeldStaysLocked, ImageLocked
<1>6. /\ Cardinality(S \ T) = Cardinality(S) - Cardinality(S \cap T)
      /\ IsFiniteSet(S \cap T)
  BY <1>3, FS_Difference, FS_Intersection
<1>7. Cardinality(S) \in Nat /\ Cardinality(S \cap T) \in Nat
  BY <1>3, <1>6, FS_CardinalityType
<1>8. unavailable_memory = Cardinality(S) - Cardinality(S \cap T)
  BY <1>4, <1>6 DEF UnavailableCounted
<1>. HIDE DEF S
<1>9. Cardinality(S) - unavailable_memory = Cardinality(S \cap T)
  BY <1>7, <1>8
<1>. QED
  BY <1>5, <1>9 DEF UsedMemory, S

(* mmu_used_memory counts exactly the frames of callers and of the kernel  *)
(* image, in whole words, after any sequence of calls.                     *)
THEOREM UsedMemoryIsExact == Spec => []UsedMemoryExact
<1>1. Init => UnavailableCounted
  BY DEF Init, UnavailableCounted
<1>. QED
  BY <1>1, InitIInv, NextIInv, NextUnavailableCounted, CountedIsExact, PTL DEF Spec

-----------------------------------------------------------------------------
(* The refinement: one lemma per step of the allocator.                    *)

(* At power-up no frame is free.                                          *)
LEMMA InitRefines == Init => Abs!AbsInit
<1>. SUFFICES ASSUME Init PROVE Abs!AbsInit
  OBVIOUS
<1>1. Frames \ frames = {}
  BY DEF Init
<1>. QED
  BY <1>1 DEF Init, Abs!AbsInit

(* A frame of the memory map is published, if the bitmap covers it.       *)
LEMMA MarkAvailableRefines ==
    ASSUME IInv, NEW f \in Frames \cup {NFrames}, MarkAvailable(f)
    PROVE  Abs!AbsNext \/ UNCHANGED Abs!absVars
<1>. USE DEF MarkAvailable
<1>1. CASE f \in Frames
  <2>1. Frames \ frames' = (Frames \ frames) \cup {f}
    BY <1>1 DEF ReleaseFrame
  <2>2. Abs!Publish(f)
    BY <2>1 DEF Abs!Publish
  <2>. QED
    BY <1>1, <2>2 DEF Abs!AbsNext
<1>2. CASE f \notin Frames
  BY <1>2 DEF ReleaseFrame, Abs!absVars
<1>. QED
  BY <1>1, <1>2

(* The end of mmu_init reserves the kernel image.                         *)
LEMMA FinishInitRefines ==
    ASSUME IInv, FinishInit
    PROVE  Abs!AbsNext
<1>1. ImageFrames \in SUBSET Frames
  BY FrameAssumption, AllocatorAssumption DEF ImageFrames, Frames
<1>2. Frames \ frames' = (Frames \ frames) \ ImageFrames
  BY DEF FinishInit
<1>3. Abs!Reserve(ImageFrames)
  BY <1>2 DEF FinishInit, Abs!Reserve
<1>. QED
  BY <1>1, <1>3 DEF Abs!AbsNext

(* mmu_request_frame searches from the hint and finds the lowest free     *)
(* frame of the whole words.                                              *)
LEMMA AllocateFrameRefines ==
    ASSUME IInv, AllocateFrame
    PROVE  Abs!AbsNext
<1>. DEFINE S == Scanned(lowest_available) \ frames
            out == RequestFrame(frames, lowest_available)
<1>1. S = (Frames \ frames) \cap WholeFrames
  <2>1. S = WholeFrames \ frames
    BY SoundHintScansAll DEF IInv, TypeOK, HintSound
  <2>. QED
    BY <2>1 DEF WholeFrames
<1>2. booted /\ booted' = booted /\ result' = out
  BY DEF AllocateFrame
<1>3. CASE S = {}
  <2>1. out = NoFrame /\ NoFrame \notin Frames
    BY <1>3, FrameAssumption DEF RequestFrame, LeastOr, NoFrame, Frames
  <2>2. frames' = frames /\ held' = held
    BY <2>1 DEF AllocateFrame, LockFrame
  <2>3. Abs!Take
    BY <1>1, <1>2, <1>3, <2>1, <2>2 DEF Abs!Take, Abs!Give
  <2>. QED
    BY <2>3 DEF Abs!AbsNext
<1>4. CASE S # {}
  <2>1. S \in SUBSET Frames
    BY DEF Scanned
  <2>2. out = Abs!Min(S) /\ out \in Frames
    BY <1>4, <2>1, LeastOfFrames DEF RequestFrame, Min, Abs!Min
  <2>3. out .. out + 1 - 1 = {out}
    BY <2>2, FrameAssumption DEF Frames
  <2>4. /\ Frames \ frames' = (Frames \ frames) \ {out}
        /\ held' = held \cup {out}
    BY <2>2 DEF AllocateFrame, LockFrame
  <2>5. Abs!Take
    BY <1>1, <1>2, <1>4, <2>2, <2>3, <2>4 DEF Abs!Take, Abs!Give
  <2>. QED
    BY <2>5 DEF Abs!AbsNext
<1>. QED
  BY <1>3, <1>4

(* mmu_request_frames finds the lowest free run.                          *)
LEMMA AllocateFramesRefines ==
    ASSUME IInv, NEW n \in 1 .. MaxRun, AllocateFrames(n)
    PROVE  Abs!AbsNext
<1>. DEFINE S == Runs(frames, lowest_available, n)
            A == {i \in Frames : i .. i + n - 1 \subseteq Frames \ frames}
            first == RequestFrames(frames, lowest_available, n)
            run == first .. first + n - 1
<1>1. n \in Nat /\ n >= 1
  BY AllocatorAssumption
<1>2. S = A
  <2>1. ASSUME NEW i \in S PROVE i \in A
    <3>1. i \in Frames /\ i \in Int
      BY <2>1, FrameAssumption DEF Runs, Frames
    <3>2. ASSUME NEW f \in i .. i + n - 1 PROVE f \in Frames \ frames
      <4>1. f - i \in 0 .. n - 1 /\ i + (f - i) = f
        BY <1>1, <3>1, <3>2
      <4>2. ~ProbeFrame(frames, i + (f - i))
        BY <4>1 DEF Runs
      <4>. QED
        BY <4>1, <4>2 DEF ProbeFrame
    <3>. QED
      BY <3>1, <3>2
  <2>2. ASSUME NEW i \in A PROVE i \in S
    <3>1. i \in Frames /\ i \in Int
      BY <2>2, FrameAssumption DEF Frames
    <3>2. i \in i .. i + n - 1
      BY <1>1, <3>1
    <3>3. i \notin frames
      BY <3>2
    <3>4. i >= lowest_available
      BY <3>1, <3>3 DEF IInv, TypeOK, HintSound
    <3>5. ASSUME NEW j \in 0 .. n - 1 PROVE ~ProbeFrame(frames, i + j)
      <4>1. i + j \in i .. i + n - 1
        BY <1>1, <3>1, <3>5
      <4>. QED
        BY <4>1 DEF ProbeFrame
    <3>. QED
      BY <3>1, <3>4, <3>5 DEF Runs
  <2>. QED
    BY <2>1, <2>2
<1>3. booted /\ booted' = booted /\ result' = first
  BY DEF AllocateFrames
<1>4. CASE S = {}
  <2>1. first = NoFrame
    BY <1>4 DEF RequestFrames, LeastOr
  <2>2. frames' = frames /\ held' = held
    BY <1>3, <2>1, FailedRunIsImage DEF AllocateFrames, IInv, ImageLocked
  <2>3. Abs!TakeRun(n)
    BY <1>2, <1>3, <1>4, <2>1, <2>2 DEF Abs!TakeRun, Abs!Give
  <2>. QED
    BY <2>3 DEF Abs!AbsNext
<1>5. CASE S # {}
  <2>1. S \in SUBSET Frames
    BY DEF Runs
  <2>2. first = Abs!Min(S) /\ first \in Frames
    BY <1>5, <2>1, LeastOfFrames DEF RequestFrames, Min, Abs!Min
  <2>3. first # NoFrame
    BY <2>2, FrameAssumption DEF NoFrame, Frames
  <2>4. run \subseteq Frames \ frames
    BY <2>3, RunIsFree DEF IInv
  <2>5. Frames \cap run = run
    BY <2>4
  <2>6. /\ Frames \ frames' = (Frames \ frames) \ run
        /\ held' = held \cup run
    BY <2>3, <2>5 DEF AllocateFrames
  <2>7. Abs!TakeRun(n)
    BY <1>2, <1>3, <1>5, <2>2, <2>6 DEF Abs!TakeRun, Abs!Give
  <2>. QED
    BY <2>7 DEF Abs!AbsNext
<1>. QED
  BY <1>4, <1>5

(* mmu_release_frame returns a frame, or does nothing past the end.       *)
LEMMA ReleaseRefines ==
    ASSUME IInv, NEW f \in Frames \cup {NFrames}, Release(f)
    PROVE  Abs!AbsNext \/ UNCHANGED Abs!absVars
<1>. USE DEF Release
<1>1. CASE f \in Frames
  <2>1. Frames \ frames' = (Frames \ frames) \cup {f}
    BY <1>1 DEF ReleaseFrame
  <2>2. Abs!Return(f)
    BY <1>1, <2>1 DEF Abs!Return
  <2>. QED
    BY <1>1, <2>2 DEF Abs!AbsNext
<1>2. CASE f \notin Frames
  <2>1. held' = held
    BY <1>2 DEF IInv, TypeOK
  <2>. QED
    BY <1>2, <2>1 DEF ReleaseFrame, Abs!absVars
<1>. QED
  BY <1>1, <1>2

(* Requests return the lowest free frame or run, fail only when there is   *)
(* none, and never touch what is held: the bitmap with its hint behaves as *)
(* a set of free frames.                                                   *)
THEOREM RefinesFrameSet == Spec => ImplementsFrameSet
<1>1. Init => Abs!AbsInit
  BY InitRefines
<1>2. ASSUME IInv, [Next]_vars PROVE [Abs!AbsNext]_(Abs!absVars)
  <2>1. ASSUME NEW f \in Frames \cup {NFrames}, MarkAvailable(f) \/ Release(f)
        PROVE  Abs!AbsNext \/ UNCHANGED Abs!absVars
    BY <1>2, <2>1, MarkAvailableRefines, ReleaseRefines
  <2>2. CASE FinishInit
    BY <1>2, <2>2, FinishInitRefines
  <2>3. CASE AllocateFrame
    BY <1>2, <2>3, AllocateFrameRefines
  <2>4. ASSUME NEW n \in 1 .. MaxRun, AllocateFrames(n) PROVE Abs!AbsNext
    BY <1>2, <2>4, AllocateFramesRefines
  <2>5. CASE UNCHANGED vars
    BY <2>5 DEF vars, Abs!absVars
  <2>. QED
    BY <1>2, <2>1, <2>2, <2>3, <2>4, <2>5 DEF Next
<1>. QED
  BY <1>1, <1>2, InitIInv, NextIInv, PTL DEF Spec, ImplementsFrameSet, Abs!AbsSpec
=============================================================================
