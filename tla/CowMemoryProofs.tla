--------------------------- MODULE CowMemoryProofs ---------------------------
(***************************************************************************)
(* Copy-on-write memory is correct for any number of processes, pages and  *)
(* frames and any limit of the reference counts.                           *)
(***************************************************************************)
EXTENDS CowMemory, TLAPS, FiniteSetTheorems, WellFoundedInduction

-----------------------------------------------------------------------------
(* The request for a frame, as in FrameAllocatorProofs *)

(* A non-empty finite set of naturals has a least element, and Min is it.  *)
(* The sets of elements below each element are ordered by strict           *)
(* inclusion, which is well founded: the minimal one is that of the least. *)
LEMMA MinOfFinite ==
    ASSUME NEW S, S \subseteq Nat, IsFiniteSet(S), S # {}
    PROVE  /\ Min(S) \in S
           /\ \A y \in S : Min(S) <= y
<1>. DEFINE Below(x) == {y \in S : y < x}
            Belows == {Below(x) : x \in S}
<1>1. IsWellFoundedOn(StrictSubsetOrdering(S), FiniteSubsetsOf(S))
  BY FS_StrictSubsetOrderingWellFounded
<1>2. Belows \subseteq FiniteSubsetsOf(S)
  BY FS_Subset DEF FiniteSubsetsOf
<1>3. Belows # {}
  OBVIOUS
<1>4. PICK B \in Belows : \A C \in Belows : <<C, B>> \notin StrictSubsetOrdering(S)
  BY <1>1, <1>2, <1>3, WFMin, Zenon
<1>5. PICK x \in S : B = Below(x)
  OBVIOUS
<1>6. ASSUME NEW y \in S, y < x PROVE FALSE
  <2>. HIDE DEF Belows
  <2>0. \A z \in S : z < y => z < x
    BY <1>6
  <2>1. y \in Below(x)
    BY <1>6
  <2>2. ~(y < y)
    OBVIOUS
  <2>3. y \notin Below(y)
    BY <2>2
  <2>4. Below(y) \in SUBSET S /\ Below(x) \in SUBSET S
    OBVIOUS
  <2>5. Below(y) \subseteq Below(x)
    BY <2>0
  <2>6. <<Below(y), Below(x)>> \in StrictSubsetOrdering(S)
    BY <2>1, <2>3, <2>4, <2>5, Zenon DEF StrictSubsetOrdering
  <2>7. Below(y) \in Belows
    BY DEF Belows
  <2>. QED
    BY <1>4, <1>5, <2>6, <2>7, Zenon
<1>7. \A y \in S : x <= y
  BY <1>6
<1>. QED
  BY <1>7 DEF Min

(* A request that does not fail returns the least of its candidates. *)
LEMMA LeastOfFrames ==
    ASSUME NEW S \in SUBSET Frames, S # {}
    PROVE  /\ LeastOr(S) = Min(S)
           /\ LeastOr(S) \in S
           /\ \A y \in S : LeastOr(S) <= y
<1>1. IsFiniteSet(Frames)
  <2>1. 0 \in Int /\ NFrames - 1 \in Int
    BY FrameAssumption
  <2>. QED
    BY <2>1, FS_Interval DEF Frames
<1>2. IsFiniteSet(S)
  BY <1>1, FS_Subset
<1>3. S \subseteq Nat
  BY FrameAssumption DEF Frames
<1>. QED
  BY <1>2, <1>3, MinOfFinite DEF LeastOr

(* mmu_request_frame returns a frame that is free, or none.                *)
LEMMA RequestIsFree ==
    ASSUME NEW locked, NEW lowest
    PROVE  \/ RequestFrame(locked, lowest) = NoFrame
           \/ RequestFrame(locked, lowest) \in Frames \ locked
<1>. DEFINE S == Scanned(lowest) \ locked
<1>1. S \in SUBSET Frames
  BY DEF Scanned
<1>2. CASE S = {}
  BY <1>2 DEF RequestFrame, LeastOr
<1>3. CASE S # {}
  <2>1. RequestFrame(locked, lowest) \in S
    BY <1>1, <1>3, LeastOfFrames DEF RequestFrame
  <2>. QED
    BY <1>1, <2>1
<1>. QED
  BY <1>2, <1>3

-----------------------------------------------------------------------------
(* The frames of the address spaces *)

(* mmu_request_frame and mmu_lock_frame take a frame that was free.        *)
LEMMA TakeFrameTakesFree ==
    ASSUME TypeOK, NEW out \in Frames, TakeFrame(out)
    PROVE  /\ out \notin frames
           /\ frames' = frames \cup {out}
           /\ lowest_available' \in 0 .. NFrames
<1>1. out \notin frames
  BY RequestIsFree DEF TakeFrame
<1>2. frames' = frames \cup {out}
  BY DEF TakeFrame, LockFrame
<1>3. lowest_available' = lowest_available \/ lowest_available' = out + 1
  BY DEF TakeFrame, HintAfterRequest
<1>4. out + 1 \in 0 .. NFrames
  BY FrameAssumption DEF Frames
<1>. QED
  BY <1>1, <1>2, <1>3, <1>4 DEF TypeOK

(* mmu_release_frame gives a frame back. *)
LEMMA PutFrameReleases ==
    ASSUME TypeOK, NEW f \in Frames, PutFrame(f)
    PROVE  /\ frames' = frames \ {f}
           /\ lowest_available' \in 0 .. NFrames
           /\ contents' = [contents EXCEPT ![f] = Unmapped]
           /\ contents' \in [Frames -> Values \cup {Unmapped}]
<1>1. lowest_available' \in 0 .. NFrames
  BY FrameAssumption DEF PutFrame, HintAfterRelease, Frames, TypeOK
<1>. QED
  BY <1>1 DEF PutFrame, ReleaseFrame, TypeOK

(* A store to one page table entry. *)
LEMMA EntryStored ==
    ASSUME NEW t \in [Spaces -> [VPages -> Entry]],
           NEW q \in Spaces, NEW v \in VPages, NEW e \in Entry,
           NEW u, u = [t EXCEPT ![q][v] = e]
    PROVE  /\ u \in [Spaces -> [VPages -> Entry]]
           /\ u[q][v] = e
           /\ \A r \in Spaces, w \in VPages : r # q \/ w # v => u[r][w] = t[r][w]
<1>. DEFINE row == [t[q] EXCEPT ![v] = e]
<1>1. t[q] \in [VPages -> Entry]
  OBVIOUS
<1>2. row \in [VPages -> Entry] /\ row[v] = e /\ \A w \in VPages \ {v} : row[w] = t[q][w]
  BY <1>1
<1>3. u = [t EXCEPT ![q] = row]
  OBVIOUS
<1>. HIDE DEF row
<1>4. u \in [Spaces -> [VPages -> Entry]] /\ u[q] = row /\ \A r \in Spaces \ {q} : u[r] = t[r]
  BY <1>2, <1>3
<1>. QED
  BY <1>2, <1>4

(* No frame is number -1, and a cleared entry is an entry. *)
LEMMA EntryFacts ==
    /\ NoFrame \notin Frames
    /\ NotPresent \in Entry
    /\ NotPresent.frame = NoFrame
    /\ \A f \in Frames \cup {NoFrame}, w, c \in BOOLEAN :
         [frame |-> f, writable |-> w, cow |-> c] \in Entry
    /\ \A e \in Entry : /\ e.frame \in Frames \cup {NoFrame}
                        /\ e.writable \in BOOLEAN /\ e.cow \in BOOLEAN
                        /\ e = [frame |-> e.frame, writable |-> e.writable, cow |-> e.cow]
<1>1. NoFrame \notin Frames
  BY FrameAssumption DEF NoFrame, Frames
<1>. QED
  BY <1>1 DEF Entry, NotPresent

(* The state of the loops. *)
Ops == [kind : {"idle", "fork", "exit", "exec", "load"},
        proc : Spaces, child : Spaces, page : 1 .. NPages + 1]

(* What starting a loop and going to its next page do to op. *)
LEMMA OpFacts ==
    /\ Idle \in Ops
    /\ \A k \in {"fork", "exit", "exec", "load"}, p, c \in Procs : Loop(k, p, c) \in Ops
    /\ op \in Ops /\ ~Finished => op.page \in VPages
    /\ op \in Ops /\ op.page \in VPages /\ NextPage =>
         /\ op' \in Ops
         /\ op'.kind = op.kind /\ op'.proc = op.proc /\ op'.child = op.child
         /\ op'.page = op.page + 1
<1>. NPages \in Nat \ {0}
  BY CowAssumption
<1>1. Idle \in Ops
  BY DEF Idle, Ops, Spaces
<1>2. \A k \in {"fork", "exit", "exec", "load"}, p, c \in Procs : Loop(k, p, c) \in Ops
  BY DEF Loop, Ops, Spaces
<1>3. op \in Ops /\ ~Finished => op.page \in VPages
  BY DEF Finished, Ops, VPages
<1>4. op \in Ops /\ op.page \in VPages /\ NextPage =>
         /\ op' \in Ops
         /\ op'.kind = op.kind /\ op'.proc = op.proc /\ op'.child = op.child
         /\ op'.page = op.page + 1
  BY DEF NextPage, Ops, VPages
<1>. QED
  BY <1>1, <1>2, <1>3, <1>4
-----------------------------------------------------------------------------
(* Type correctness: one lemma per action. *)

(* The first directory has the frame after the image's. *)
LEMMA InitType == Init => TypeOK
<1>. SUFFICES ASSUME NEW p \in Procs,
         /\ frames = 0 .. FirstPages
         /\ lowest_available = FirstPages + 1
         /\ mem_refcounts = [f \in Frames |-> 0]
         /\ contents = [f \in Frames |-> Unmapped]
         /\ root = [q \in Spaces |-> IF q = p THEN FirstPages ELSE NoFrame]
         /\ table = [q \in Spaces |-> EmptyTable]
         /\ heap = [q \in Procs |-> 0]
         /\ live = {p}
         /\ op = Idle
         /\ tainted = FALSE
       PROVE TypeOK
  BY DEF Init
<1>1. FirstPages \in Frames /\ frames \subseteq Frames /\ lowest_available \in 0 .. NFrames
  BY FrameAssumption, CowAssumption DEF Frames
<1>2. mem_refcounts \in [Frames -> 0 .. MaxRef]
  BY CowAssumption
<1>3. EmptyTable \in [VPages -> Entry]
  BY EntryFacts DEF EmptyTable
<1>4. op \in Ops
  BY OpFacts
<1>5. heap \in [Procs -> 0 .. NPages]
  BY CowAssumption
<1>. QED
  BY <1>1, <1>2, <1>3, <1>4, <1>5 DEF TypeOK, Ops

(* mmu_clone takes a frame for the directory. *)
LEMMA ForkStartType ==
    ASSUME TypeOK, NEW p \in Procs, NEW c \in Procs, ForkStart(p, c)
    PROVE  TypeOK'
<1>. PICK out \in Frames : TakeFrame(out) /\ root' = [root EXCEPT ![c] = out]
  BY DEF ForkStart
<1>1. frames' \subseteq Frames /\ lowest_available' \in 0 .. NFrames
  BY TakeFrameTakesFree DEF TypeOK
<1>2. op' \in Ops
  BY OpFacts DEF ForkStart
<1>. QED
  BY <1>1, <1>2 DEF ForkStart, TypeOK, Ops

(* An iteration of the loop of mmu_clone. *)
LEMMA CopyPageType ==
    ASSUME TypeOK, CopyPage
    PROVE  TypeOK'
<1>. DEFINE e == table[op.proc][op.page]
<1>1. op \in Ops /\ op.page \in VPages /\ op.proc \in Spaces /\ op.child \in Spaces
  BY OpFacts DEF CopyPage, TypeOK, Ops
<1>2. op' \in Ops
  BY <1>1, OpFacts DEF CopyPage
<1>3. e \in Entry /\ e.frame \in Frames \cup {NoFrame}
  BY <1>1, EntryFacts DEF TypeOK
<1>4. root' = root /\ heap' = heap /\ live' = live
  BY DEF CopyPage
<1>. HIDE DEF e
<1>5. ASSUME CopyNothing(e) PROVE TypeOK'
  BY <1>2, <1>4, <1>5 DEF CopyNothing, TypeOK, Ops, memVars
<1>6. ASSUME ShareFirst(e) PROVE TypeOK'
  <2>. DEFINE shared == [e EXCEPT !.writable = FALSE, !.cow = TRUE]
              t == [table EXCEPT ![op.proc][op.page] = shared]
  <2>1. shared \in Entry
    BY <1>3 DEF Entry
  <2>2. table' = [t EXCEPT ![op.child][op.page] = shared]
    BY <1>6 DEF ShareFirst
  <2>. HIDE DEF shared
  <2>3. t \in [Spaces -> [VPages -> Entry]]
    BY <1>1, <2>1, EntryStored DEF TypeOK
  <2>. HIDE DEF t
  <2>4. table' \in [Spaces -> [VPages -> Entry]]
    BY <1>1, <2>1, <2>2, <2>3, EntryStored
  <2>5. mem_refcounts' \in [Frames -> 0 .. MaxRef]
    BY <1>3, <1>6, CowAssumption DEF ShareFirst, TypeOK, Present
  <2>. QED
    BY <1>2, <1>4, <1>6, <2>4, <2>5 DEF ShareFirst, TypeOK, Ops
<1>7. ASSUME ShareAgain(e) PROVE TypeOK'
  <2>1. table' \in [Spaces -> [VPages -> Entry]]
    BY <1>1, <1>3, <1>7, EntryStored DEF ShareAgain, TypeOK
  <2>2. mem_refcounts' \in [Frames -> 0 .. MaxRef]
    BY <1>3, <1>7, CowAssumption DEF ShareAgain, TypeOK, Present
  <2>. QED
    BY <1>2, <1>4, <1>7, <2>1, <2>2 DEF ShareAgain, TypeOK, Ops
<1>8. ASSUME CopySaturated(e) PROVE TypeOK'
  <2>. DEFINE out == RequestFrame(frames, lowest_available)
              n == [frame |-> out, writable |-> TRUE, cow |-> FALSE]
  <2>1. out \in Frames /\ e.frame \in Frames
    BY <1>3, <1>8, RequestIsFree DEF CopySaturated, Present
  <2>2. n \in Entry
    BY <2>1, EntryFacts
  <2>3. lowest_available' \in 0 .. NFrames
    <3>1. lowest_available' = lowest_available \/ lowest_available' = out + 1
      BY <1>8 DEF CopySaturated, HintAfterRequest
    <3>. HIDE DEF out
    <3>. QED
      BY <2>1, <3>1, FrameAssumption DEF Frames, TypeOK
  <2>4. /\ contents' = [contents EXCEPT ![out] = contents[e.frame]]
        /\ table' = [table EXCEPT ![op.child][op.page] = n]
    BY <1>8 DEF CopySaturated
  <2>. HIDE DEF out, n
  <2>5. contents' \in [Frames -> Values \cup {Unmapped}]
    BY <2>1, <2>4 DEF TypeOK
  <2>6. table' \in [Spaces -> [VPages -> Entry]]
    BY <1>1, <2>2, <2>4, EntryStored DEF TypeOK
  <2>. QED
    BY <1>2, <1>4, <1>8, <2>3, <2>5, <2>6 DEF CopySaturated, TypeOK, Ops
<1>. QED
  BY <1>5, <1>6, <1>7, <1>8 DEF CopyPage, e

(* fork returns. *)
LEMMA ForkEndType ==
    ASSUME TypeOK, ForkEnd, op.proc \in Procs, op.child \in Procs
    PROVE  TypeOK'
<1>1. op' \in Ops
  BY OpFacts DEF ForkEnd
<1>2. heap' \in [Procs -> 0 .. NPages]
  BY DEF ForkEnd, TypeOK
<1>. QED
  BY <1>1, <1>2 DEF ForkEnd, TypeOK, Ops, memVars

(* process_delete. *)
LEMMA ExitStartType ==
    ASSUME TypeOK, NEW p \in Procs, ExitStart(p)
    PROVE  TypeOK'
<1>1. op' \in Ops
  BY OpFacts DEF ExitStart
<1>2. p \in Spaces /\ Dying \in Spaces
  BY DEF Spaces
<1>3. EmptyTable \in [VPages -> Entry]
  BY EntryFacts DEF EmptyTable
<1>4. table' \in [Spaces -> [VPages -> Entry]]
  BY <1>2, <1>3 DEF ExitStart, TypeOK
<1>5. root' \in [Spaces -> Frames \cup {NoFrame}]
  BY <1>2 DEF ExitStart, TypeOK
<1>. QED
  BY <1>1, <1>4, <1>5 DEF ExitStart, TypeOK, Ops, memVars

(* elf_exec gives up the old directory. *)
LEMMA ExecStartType ==
    ASSUME TypeOK, NEW p \in Procs, ExecStart(p)
    PROVE  TypeOK'
<1>. PICK out \in Frames : TakeFrame(out) /\ root' = [root EXCEPT ![Dying] = root[p], ![p] = out]
  BY DEF ExecStart
<1>1. op' \in Ops
  BY OpFacts DEF ExecStart
<1>2. p \in Spaces /\ Dying \in Spaces
  BY DEF Spaces
<1>3. EmptyTable \in [VPages -> Entry]
  BY EntryFacts DEF EmptyTable
<1>4. table' \in [Spaces -> [VPages -> Entry]]
  BY <1>2, <1>3 DEF ExecStart, TypeOK
<1>5. root' \in [Spaces -> Frames \cup {NoFrame}]
  BY <1>2 DEF TypeOK
<1>6. frames' \subseteq Frames /\ lowest_available' \in 0 .. NFrames
  BY TakeFrameTakesFree DEF TypeOK
<1>. QED
  BY <1>1, <1>4, <1>5, <1>6 DEF ExecStart, TypeOK, Ops

(* An iteration of the loop of mmu_free. *)
LEMMA FreePageType ==
    ASSUME TypeOK, FreePage
    PROVE  TypeOK'
<1>. DEFINE e == table[Dying][op.page]
<1>1. op \in Ops /\ op.page \in VPages /\ Dying \in Spaces
  BY OpFacts DEF FreePage, TypeOK, Ops, Spaces
<1>2. op' \in Ops
  BY <1>1, OpFacts DEF FreePage
<1>3. e.frame \in Frames \cup {NoFrame}
  BY <1>1, EntryFacts DEF TypeOK
<1>4. table' \in [Spaces -> [VPages -> Entry]]
  BY <1>1, EntryFacts, EntryStored DEF FreePage, TypeOK
<1>5. mem_refcounts' \in [Frames -> 0 .. MaxRef]
  <2>. HIDE DEF e
  <2>1. UNCHANGED mem_refcounts
        \/ (Present(e) /\ mem_refcounts' = [mem_refcounts EXCEPT ![e.frame] = Decreased(e.frame)])
    BY DEF FreePage, e
  <2>2. ASSUME Present(e) PROVE Decreased(e.frame) \in 0 .. MaxRef
    <3>1. e.frame \in Frames
      BY <1>3, <2>2 DEF Present
    <3>. QED
      BY <3>1, CowAssumption DEF Decreased, TypeOK
  <2>. QED
    BY <2>1, <2>2 DEF TypeOK
<1>6. /\ frames' \subseteq Frames /\ lowest_available' \in 0 .. NFrames
      /\ contents' \in [Frames -> Values \cup {Unmapped}]
  <2>. HIDE DEF e
  <2>1. UNCHANGED <<frames, lowest_available, contents>> \/ (Present(e) /\ PutFrame(e.frame))
    BY DEF FreePage, e
  <2>2. ASSUME Present(e), PutFrame(e.frame)
        PROVE  /\ frames' \subseteq Frames /\ lowest_available' \in 0 .. NFrames
               /\ contents' \in [Frames -> Values \cup {Unmapped}]
    <3>1. e.frame \in Frames
      BY <1>3, <2>2 DEF Present
    <3>. QED
      BY <2>2, <3>1, PutFrameReleases DEF TypeOK
  <2>. QED
    BY <2>1, <2>2 DEF TypeOK
<1>. QED
  BY <1>2, <1>4, <1>5, <1>6 DEF FreePage, TypeOK, Ops

(* mmu_free gives back the frame of the directory. *)
LEMMA FreeEndType ==
    ASSUME TypeOK, FreeEnd, root[Dying] \in Frames, op.kind = "exec" => op.proc \in Procs
    PROVE  TypeOK'
<1>1. op' \in Ops
  BY OpFacts DEF FreeEnd
<1>2. root' \in [Spaces -> Frames \cup {NoFrame}]
  BY DEF FreeEnd, TypeOK, Spaces
<1>3. /\ frames' \subseteq Frames /\ lowest_available' \in 0 .. NFrames
      /\ contents' \in [Frames -> Values \cup {Unmapped}]
  BY PutFrameReleases DEF FreeEnd, TypeOK
<1>. QED
  BY <1>1, <1>2, <1>3 DEF FreeEnd, TypeOK, Ops

(* elf_exec maps a page of the image. *)
LEMMA LoadPageType ==
    ASSUME TypeOK, LoadPage
    PROVE  TypeOK'
<1>. PICK out \in Frames, x \in Values :
         /\ TakeFrame(out)
         /\ contents' = [contents EXCEPT ![out] = x]
         /\ table' = [table EXCEPT ![op.proc][op.page] =
                        [frame |-> out, writable |-> TRUE, cow |-> FALSE]]
  BY DEF LoadPage
<1>1. op \in Ops /\ op.page \in VPages /\ op.proc \in Spaces
  BY CowAssumption DEF LoadPage, TypeOK, Ops, VPages
<1>2. op' \in Ops
  BY <1>1, OpFacts DEF LoadPage
<1>3. table' \in [Spaces -> [VPages -> Entry]]
  BY <1>1, EntryFacts, EntryStored DEF TypeOK
<1>4. frames' \subseteq Frames /\ lowest_available' \in 0 .. NFrames
  BY TakeFrameTakesFree DEF TypeOK
<1>5. contents' \in [Frames -> Values \cup {Unmapped}]
  BY DEF TypeOK
<1>. QED
  BY <1>2, <1>3, <1>4, <1>5 DEF LoadPage, TypeOK, Ops

(* elf_exec returns. *)
LEMMA LoadEndType ==
    ASSUME TypeOK, LoadEnd, op.proc \in Procs
    PROVE  TypeOK'
<1>1. op' \in Ops
  BY OpFacts DEF LoadEnd
<1>2. heap' \in [Procs -> 0 .. NPages]
  BY CowAssumption DEF LoadEnd, TypeOK
<1>. QED
  BY <1>1, <1>2 DEF LoadEnd, TypeOK, Ops, memVars

(* A page of sys_sbrk; the page is one that the process can have.          *)
LEMMA SbrkType ==
    ASSUME TypeOK, NEW p \in Procs, Sbrk(p)
    PROVE  TypeOK' /\ heap[p] + 1 \in VPages
<1>. DEFINE v == heap[p] + 1
            e == table[p][v]
<1>1. p \in Spaces /\ v \in VPages
  BY CowAssumption DEF Sbrk, TypeOK, Spaces, VPages
<1>2. e \in Entry
  BY <1>1 DEF TypeOK
<1>3. heap' \in [Procs -> 0 .. NPages]
  BY <1>1 DEF Sbrk, TypeOK, VPages
<1>. HIDE DEF v, e
<1>4. CASE Present(e)
  <2>1. table' = [table EXCEPT ![p][v].writable = TRUE]
    BY <1>4 DEF Sbrk, v, e
  <2>2. table' = [table EXCEPT ![p][v] = [e EXCEPT !.writable = TRUE]]
    BY <2>1 DEF e
  <2>3. [e EXCEPT !.writable = TRUE] \in Entry
    BY <1>2 DEF Entry
  <2>4. table' \in [Spaces -> [VPages -> Entry]]
    BY <1>1, <2>2, <2>3, EntryStored DEF TypeOK
  <2>5. tainted' \in BOOLEAN
    <3>1. tainted' = (tainted \/ ~e.writable)
      BY <1>4 DEF Sbrk, v, e
    <3>. QED
      BY <3>1
  <2>6. /\ frames' = frames /\ lowest_available' = lowest_available
        /\ mem_refcounts' = mem_refcounts /\ contents' = contents
    BY <1>4 DEF Sbrk, v, e, memVars
  <2>7. root' = root /\ live' = live /\ op' = op
    BY DEF Sbrk
  <2>. QED
    BY <1>1, <1>3, <2>4, <2>5, <2>6, <2>7 DEF TypeOK, v
<1>5. CASE ~Present(e)
  <2>0. PICK out \in Frames, x \in Values :
         /\ TakeFrame(out)
         /\ contents' = [contents EXCEPT ![out] = x]
         /\ table' = [table EXCEPT ![p][v].frame = out, ![p][v].writable = TRUE]
    BY <1>5 DEF Sbrk, v, e
  <2>. DEFINE n == [e EXCEPT !.frame = out, !.writable = TRUE]
  <2>1. table' = [table EXCEPT ![p][v] = n]
    BY <2>0 DEF e
  <2>2. n \in Entry
    BY <1>2 DEF Entry
  <2>. HIDE DEF n
  <2>3. table' \in [Spaces -> [VPages -> Entry]]
    BY <1>1, <2>1, <2>2, EntryStored DEF TypeOK
  <2>4. frames' \subseteq Frames /\ lowest_available' \in 0 .. NFrames
    BY <2>0, TakeFrameTakesFree DEF TypeOK
  <2>5. contents' \in [Frames -> Values \cup {Unmapped}]
    BY <2>0 DEF TypeOK
  <2>. QED
    BY <1>1, <1>3, <1>5, <2>3, <2>4, <2>5 DEF Sbrk, TypeOK, v, e
<1>. QED
  BY <1>1, <1>4, <1>5 DEF v

(* A write fault. *)
LEMMA CopyOnWriteType ==
    ASSUME TypeOK, NEW p \in Procs, NEW v \in VPages, CopyOnWrite(p, v)
    PROVE  TypeOK'
<1>. DEFINE e == table[p][v]
<1>1. p \in Spaces /\ e \in Entry /\ e.frame \in Frames
  BY EntryFacts DEF CopyOnWrite, TypeOK, Spaces, Present
<1>2. mem_refcounts' \in [Frames -> 0 .. MaxRef]
  <2>1. Decreased(e.frame) \in 0 .. MaxRef
    BY <1>1, CowAssumption DEF Decreased, TypeOK
  <2>. QED
    BY <1>1, <2>1 DEF CopyOnWrite, TypeOK
<1>3. ASSUME /\ table' = [table EXCEPT ![p][v].writable = TRUE, ![p][v].cow = FALSE]
             /\ UNCHANGED <<frames, lowest_available, contents>>
      PROVE TypeOK'
  <2>1. table' = [table EXCEPT ![p][v] = [e EXCEPT !.writable = TRUE, !.cow = FALSE]]
    BY <1>3
  <2>2. [e EXCEPT !.writable = TRUE, !.cow = FALSE] \in Entry
    BY <1>1 DEF Entry
  <2>3. table' \in [Spaces -> [VPages -> Entry]]
    BY <1>1, <2>1, <2>2, EntryStored DEF TypeOK
  <2>. QED
    BY <1>2, <1>3, <2>3 DEF CopyOnWrite, TypeOK
<1>4. ASSUME NEW out \in Frames,
             TakeFrame(out),
             contents' = [contents EXCEPT ![out] = contents[e.frame]],
             table' = [table EXCEPT ![p][v] = [frame |-> out, writable |-> TRUE, cow |-> FALSE]]
      PROVE TypeOK'
  <2>1. table' \in [Spaces -> [VPages -> Entry]]
    BY <1>1, <1>4, EntryFacts, EntryStored DEF TypeOK
  <2>2. frames' \subseteq Frames /\ lowest_available' \in 0 .. NFrames
    BY <1>4, TakeFrameTakesFree DEF TypeOK
  <2>3. contents' \in [Frames -> Values \cup {Unmapped}]
    BY <1>1, <1>4 DEF TypeOK
  <2>. QED
    BY <1>2, <2>1, <2>2, <2>3 DEF CopyOnWrite, TypeOK
<1>. QED
  BY <1>3, <1>4 DEF CopyOnWrite

(* A store of user code. *)
LEMMA StoreType ==
    ASSUME TypeOK, NEW p \in Procs, NEW v \in VPages, NEW x \in Values, Store(p, v, x)
    PROVE  TypeOK'
BY DEF Store, TypeOK
-----------------------------------------------------------------------------
(* How many entries of the tables t map a frame, and how stores to entries *)
(* change that number.                                                     *)
Tables == [Spaces -> [VPages -> Entry]]
MappingsIn(t, f) == {m \in Spaces \X VPages : t[m[1]][m[2]].frame = f}
OwnersIn(t, f) == Cardinality(MappingsIn(t, f))

(* A pair of a process and a page is in the set if its entry has the frame.*)
LEMMA MappingsMember ==
    ASSUME NEW t, NEW f, NEW q \in Spaces, NEW v \in VPages
    PROVE  <<q, v>> \in MappingsIn(t, f) <=> t[q][v].frame = f
BY DEF MappingsIn

(* What is in the set is a pair whose entry has the frame. *)
LEMMA MappingsArePairs ==
    ASSUME NEW t, NEW f, NEW m \in MappingsIn(t, f)
    PROVE  /\ m[1] \in Spaces /\ m[2] \in VPages
           /\ m = <<m[1], m[2]>>
           /\ t[m[1]][m[2]].frame = f
BY DEF MappingsIn

(* There are finitely many entries. *)
LEMMA MappingsFinite ==
    ASSUME NEW t, NEW f
    PROVE  IsFiniteSet(MappingsIn(t, f)) /\ OwnersIn(t, f) \in Nat
<1>1. IsFiniteSet(Spaces)
  BY CowAssumption, FS_AddElement DEF Spaces
<1>2. IsFiniteSet(VPages)
  <2>1. 1 \in Int /\ NPages \in Int
    BY CowAssumption
  <2>. QED
    BY <2>1, FS_Interval DEF VPages
<1>3. IsFiniteSet(Spaces \X VPages)
  BY <1>1, <1>2, FS_Product
<1>4. MappingsIn(t, f) \in SUBSET (Spaces \X VPages)
  BY DEF MappingsIn
<1>5. IsFiniteSet(MappingsIn(t, f))
  BY <1>3, <1>4, FS_Subset
<1>. QED
  BY <1>5, FS_CardinalityType DEF OwnersIn

(* A store to one entry: its new frame gains an owner, its old one loses   *)
(* one.                                                                    *)
SameBut(t, u, q, v) ==
    \A r \in Spaces, w \in VPages : r # q \/ w # v => u[r][w].frame = t[r][w].frame

(* The four cases of a store. *)
LEMMA OwnersAfterStore ==
    ASSUME NEW t, NEW u, NEW q \in Spaces, NEW v \in VPages, SameBut(t, u, q, v), NEW f
    PROVE  /\ u[q][v].frame = t[q][v].frame => OwnersIn(u, f) = OwnersIn(t, f)
           /\ u[q][v].frame = f /\ t[q][v].frame # f => OwnersIn(u, f) = OwnersIn(t, f) + 1
           /\ u[q][v].frame # f /\ t[q][v].frame = f => OwnersIn(u, f) = OwnersIn(t, f) - 1
           /\ u[q][v].frame # f /\ t[q][v].frame # f => OwnersIn(u, f) = OwnersIn(t, f)
<1>. DEFINE m == <<q, v>>
            M == MappingsIn(t, f)
            N == MappingsIn(u, f)
<1>0. \A r \in Spaces, w \in VPages : /\ <<r, w>> \in M <=> t[r][w].frame = f
                                      /\ <<r, w>> \in N <=> u[r][w].frame = f
  BY DEF MappingsIn
<1>1. ASSUME NEW n \in Spaces \X VPages, n # m PROVE n \in N <=> n \in M
  <2>. PICK r \in Spaces, w \in VPages : n = <<r, w>>
    OBVIOUS
  <2>1. u[r][w].frame = t[r][w].frame
    BY <1>1 DEF SameBut
  <2>2. /\ <<r, w>> \in M <=> t[r][w].frame = f
        /\ <<r, w>> \in N <=> u[r][w].frame = f
    BY <1>0
  <2>. QED
    BY <2>1, <2>2
<1>2. M \subseteq Spaces \X VPages /\ N \subseteq Spaces \X VPages /\ m \in Spaces \X VPages
  BY DEF MappingsIn
<1>3. (m \in N <=> u[q][v].frame = f) /\ (m \in M <=> t[q][v].frame = f)
  BY <1>0
<1>4. IsFiniteSet(M)
  BY MappingsFinite
<1>. HIDE DEF M, N, m
<1>5. CASE m \in N
  <2>1. N = M \cup {m}
    BY <1>1, <1>2, <1>5
  <2>2. Cardinality(N) = IF m \in M THEN Cardinality(M) ELSE Cardinality(M) + 1
    BY <1>4, <2>1, FS_AddElement
  <2>. QED
    BY <1>3, <1>5, <2>2 DEF OwnersIn, M, N
<1>6. CASE m \notin N
  <2>1. N = M \ {m}
    BY <1>1, <1>2, <1>6
  <2>2. Cardinality(N) = IF m \in M THEN Cardinality(M) - 1 ELSE Cardinality(M)
    BY <1>4, <2>1, FS_RemoveElement
  <2>. QED
    BY <1>3, <1>6, <2>2 DEF OwnersIn, M, N
<1>. QED
  BY <1>5, <1>6

(* A frame that is neither the old nor the new one keeps its owners. *)
LEMMA OtherOwnersStay ==
    ASSUME NEW t, NEW u, NEW q \in Spaces, NEW v \in VPages, SameBut(t, u, q, v), NEW g,
           u[q][v].frame # g, t[q][v].frame # g
    PROVE  OwnersIn(u, g) = OwnersIn(t, g)
<1>1. ASSUME NEW n \in Spaces \X VPages
      PROVE  n \in MappingsIn(u, g) <=> n \in MappingsIn(t, g)
  <2>. PICK r \in Spaces, w \in VPages : n = <<r, w>>
    OBVIOUS
  <2>1. u[r][w].frame = g <=> t[r][w].frame = g
    BY DEF SameBut
  <2>2. /\ <<r, w>> \in MappingsIn(u, g) <=> u[r][w].frame = g
        /\ <<r, w>> \in MappingsIn(t, g) <=> t[r][w].frame = g
    BY DEF MappingsIn
  <2>. QED
    BY <2>1, <2>2
<1>2. MappingsIn(u, g) \subseteq Spaces \X VPages /\ MappingsIn(t, g) \subseteq Spaces \X VPages
  BY DEF MappingsIn
<1>3. MappingsIn(u, g) = MappingsIn(t, g)
  BY <1>1, <1>2
<1>. QED
  BY <1>3 DEF OwnersIn

(* A frame that no entry has, and one that one entry has. *)
LEMMA NoOwner ==
    ASSUME NEW t, NEW f
    PROVE  OwnersIn(t, f) = 0 <=> \A q \in Spaces, v \in VPages : t[q][v].frame # f
<1>1. OwnersIn(t, f) = 0 <=> MappingsIn(t, f) = {}
  BY MappingsFinite, FS_EmptySet DEF OwnersIn
<1>2. MappingsIn(t, f) = {} <=> \A q \in Spaces, v \in VPages : t[q][v].frame # f
  <2>1. ASSUME MappingsIn(t, f) = {}, NEW q \in Spaces, NEW v \in VPages
        PROVE  t[q][v].frame # f
    BY <2>1, MappingsMember
  <2>2. ASSUME \A q \in Spaces, v \in VPages : t[q][v].frame # f, NEW m \in MappingsIn(t, f)
        PROVE  FALSE
    BY <2>2, MappingsArePairs
  <2>. QED
    BY <2>1, <2>2
<1>. QED
  BY <1>1, <1>2

(* One entry has the frame iff no other has. *)
LEMMA OneOwner ==
    ASSUME NEW t, NEW f, NEW q \in Spaces, NEW v \in VPages, t[q][v].frame = f
    PROVE  OwnersIn(t, f) = 1
             <=> \A r \in Spaces, w \in VPages : t[r][w].frame = f => r = q /\ w = v
<1>. DEFINE M == MappingsIn(t, f)
<1>1. <<q, v>> \in M /\ IsFiniteSet(M)
  BY MappingsMember, MappingsFinite
<1>2. OwnersIn(t, f) = 1 <=> \E m : M = {m}
  BY <1>1, FS_Singleton DEF OwnersIn
<1>3. ASSUME NEW m, M = {m}, NEW r \in Spaces, NEW w \in VPages, t[r][w].frame = f
      PROVE  r = q /\ w = v
  <2>1. <<r, w>> \in M
    BY <1>3, MappingsMember
  <2>2. <<r, w>> = <<q, v>>
    BY <1>1, <1>3, <2>1
  <2>. QED
    BY <2>2
<1>4. ASSUME \A r \in Spaces, w \in VPages : t[r][w].frame = f => r = q /\ w = v
      PROVE  M = {<<q, v>>}
  <2>1. ASSUME NEW m \in M PROVE m = <<q, v>>
    BY <1>4, <2>1, MappingsArePairs
  <2>. QED
    BY <1>1, <2>1
<1>. QED
  BY <1>2, <1>3, <1>4

(* Handing all tables of p to mmu_free changes no count.                   *)
HandedOver(t, u, p) ==
    /\ \A v \in VPages : /\ t[Dying][v].frame = NoFrame
                         /\ u[Dying][v].frame = t[p][v].frame
                         /\ u[p][v].frame = NoFrame
    /\ \A r \in Spaces, w \in VPages :
          r \notin {p, Dying} => u[r][w].frame = t[r][w].frame

(* The entries of p become as many of Dying. *)
LEMMA OwnersAfterMove ==
    ASSUME NEW t, NEW u, NEW p \in Procs, HandedOver(t, u, p), NEW f, f # NoFrame
    PROVE  OwnersIn(u, f) = OwnersIn(t, f)
<1>. DEFINE M == MappingsIn(t, f)
            N == MappingsIn(u, f)
            Moved(m) == IF m[1] = p THEN <<Dying, m[2]>> ELSE m
            g == [m \in M |-> Moved(m)]
<1>0. p \in Spaces /\ Dying \in Spaces /\ p # Dying
  BY CowAssumption DEF Spaces
<1>. USE DEF HandedOver
<1>1. ASSUME NEW m \in M PROVE Moved(m) \in N /\ m[1] # Dying
  <2>1. m[1] \in Spaces /\ m[2] \in VPages /\ m = <<m[1], m[2]>> /\ t[m[1]][m[2]].frame = f
    BY <1>1, MappingsArePairs
  <2>2. m[1] # Dying
    BY <2>1
  <2>3. CASE m[1] = p
    BY <1>0, <2>1, <2>3, MappingsMember
  <2>4. CASE m[1] # p
    <3>1. u[m[1]][m[2]].frame = f
      BY <2>1, <2>2, <2>4
    <3>2. <<m[1], m[2]>> \in N
      BY <2>1, <3>1, MappingsMember
    <3>. QED
      BY <2>1, <2>4, <3>2
  <2>. QED
    BY <2>2, <2>3, <2>4
<1>2. ASSUME NEW n \in N PROVE \E m \in M : Moved(m) = n
  <2>1. n[1] \in Spaces /\ n[2] \in VPages /\ n = <<n[1], n[2]>> /\ u[n[1]][n[2]].frame = f
    BY <1>2, MappingsArePairs
  <2>2. n[1] # p
    BY <2>1
  <2>3. CASE n[1] = Dying
    <3>1. <<p, n[2]>> \in M
      BY <1>0, <2>1, <2>3, MappingsMember
    <3>2. Moved(<<p, n[2]>>) = n
      BY <2>1, <2>3
    <3>. QED
      BY <3>1, <3>2
  <2>4. CASE n[1] # Dying
    <3>1. t[n[1]][n[2]].frame = f
      BY <2>1, <2>2, <2>4
    <3>2. <<n[1], n[2]>> \in M
      BY <2>1, <3>1, MappingsMember
    <3>3. n \in M /\ Moved(n) = n
      BY <2>1, <2>2, <3>2
    <3>. QED
      BY <3>3
  <2>. QED
    BY <2>3, <2>4
<1>3. ASSUME NEW m \in M, NEW n \in M, Moved(m) = Moved(n) PROVE m = n
  <2>1. /\ m = <<m[1], m[2]>> /\ n = <<n[1], n[2]>>
        /\ m[1] # Dying /\ n[1] # Dying
    BY <1>1, <1>3, MappingsArePairs
  <2>. QED
    BY <1>3, <2>1
<1>4. g \in Bijection(M, N)
  <2>. HIDE DEF M, N, Moved
  <2>1. g \in [M -> N]
    BY <1>1
  <2>2. \A m, n \in M : g[m] = g[n] => m = n
    BY <1>3
  <2>3. \A n \in N : \E m \in M : g[m] = n
    BY <1>2
  <2>. QED
    BY <2>1, <2>2, <2>3 DEF Bijection, Injection, Surjection, IsInjective
<1>5. ExistsBijection(M, N)
  BY <1>4 DEF ExistsBijection
<1>. QED
  BY <1>5, MappingsFinite, FS_Bijection DEF OwnersIn
-----------------------------------------------------------------------------
(* The inductive invariant.                                                *)

(* Where the loops are: whom they work for, and that mmu_free has a        *)
(* directory just as long as it runs.                                      *)
LoopsInOrder ==
    /\ op.kind # "idle" => op.proc \in Procs
    /\ op.kind = "fork" => /\ op.proc \in live
                           /\ op.child \in Procs \ live
                           /\ root[op.child] # NoFrame
    /\ op.kind \in {"exec", "load"} => op.proc \notin live /\ root[op.proc] # NoFrame
    /\ Freeing <=> root[Dying] # NoFrame
    /\ \A p \in live : root[p] # NoFrame

(* What the loops have not reached yet is empty, what mmu_free has passed  *)
(* as well, and mmu_clone has copied what it passed.                       *)
TablesInOrder ==
    /\ \A q \in Spaces : root[q] = NoFrame => \A v \in VPages : table[q][v] = NotPresent
    /\ Freeing => \A v \in VPages : v < op.page => table[Dying][v] = NotPresent
    /\ op.kind = "exec" => \A v \in VPages : table[op.proc][v] = NotPresent
    /\ op.kind = "load" => \A v \in VPages : op.page <= v => table[op.proc][v] = NotPresent
    /\ op.kind = "fork" => \A v \in VPages :
          IF v < op.page THEN table[op.child][v].frame = table[op.proc][v].frame
                         ELSE table[op.child][v] = NotPresent

(* An entry that is present has a locked frame with contents, and is       *)
(* writable when its frame has no count, copy-on-write when it has.        *)
EntriesExact ==
    \A q \in Spaces, v \in VPages :
        IF table[q][v].frame = NoFrame THEN table[q][v] = NotPresent
        ELSE /\ table[q][v].frame \in frames
             /\ FirstPages <= table[q][v].frame
             /\ contents[table[q][v].frame] \in Values
             /\ table[q][v].writable <=> mem_refcounts[table[q][v].frame] = 0
             /\ table[q][v].cow <=> mem_refcounts[table[q][v].frame] # 0

(* A frame without a count has at most one entry, ... *)
UncountedAlone ==
    \A q, r \in Spaces, v, w \in VPages :
        /\ table[q][v].frame # NoFrame
        /\ table[q][v].frame = table[r][w].frame
        /\ mem_refcounts[table[q][v].frame] = 0
        => q = r /\ v = w

(* ... and any other as many as its count. *)
CountsExact ==
    \A f \in Frames : mem_refcounts[f] # 0 => OwnersIn(table, f) = mem_refcounts[f]

(* The frame of a directory is locked and nobody else's. *)
RootsExact ==
    \A q \in Spaces : root[q] # NoFrame =>
        /\ root[q] \in frames
        /\ FirstPages <= root[q]
        /\ \A r \in Spaces : root[r] = root[q] => r = q
        /\ \A r \in Spaces, v \in VPages : table[r][v].frame # root[q]

(* Whatever is locked is the image's, a directory's or a page's. *)
NothingLeaks ==
    \A f \in frames :
        \/ f < FirstPages
        \/ \E q \in Spaces : root[q] = f
        \/ \E q \in Spaces, v \in VPages : table[q][v].frame = f

(* The kernel image stays locked. *)
ImageLocked == \A f \in Frames : f < FirstPages => f \in frames

Core ==
    /\ TablesInOrder
    /\ EntriesExact
    /\ UncountedAlone
    /\ CountsExact
    /\ RootsExact
    /\ NothingLeaks
    /\ ImageLocked

(* What a saturated count or a shared page taken by sbrk does to the rest  *)
(* is not bounded: only types and loops stay in order then.                *)
IInv == TypeOK /\ LoopsInOrder /\ (~tainted => Core)

(* The loops stay in order, whatever they find in the tables.              *)
LEMMA LoopsStayInOrder ==
    ASSUME TypeOK, LoopsInOrder, [Next]_vars
    PROVE  LoopsInOrder'
<1>0. Dying \notin Procs /\ Dying \in Spaces /\ Procs \subseteq Spaces /\ NoFrame \notin Frames
  BY CowAssumption, EntryFacts DEF Spaces
<1>1. ASSUME NEW p \in Procs, NEW c \in Procs, ForkStart(p, c) PROVE LoopsInOrder'
  <2>1. PICK out \in Frames : root' = [root EXCEPT ![c] = out]
    BY <1>1 DEF ForkStart
  <2>2. op = Idle /\ p \in live /\ root[c] = NoFrame /\ live' = live /\ op' = Loop("fork", p, c)
    BY <1>1 DEF ForkStart
  <2>. QED
    BY <1>0, <2>1, <2>2 DEF LoopsInOrder, TypeOK, Freeing, Idle, Loop
<1>2. ASSUME NEW p \in Procs, ExitStart(p) PROVE LoopsInOrder'
  <2>1. /\ op = Idle /\ p \in live /\ live' = live \ {p} /\ op' = Loop("exit", p, p)
        /\ root' = [root EXCEPT ![Dying] = root[p], ![p] = NoFrame]
    BY <1>2 DEF ExitStart
  <2>. QED
    BY <1>0, <2>1 DEF LoopsInOrder, TypeOK, Freeing, Idle, Loop
<1>3. ASSUME NEW p \in Procs, ExecStart(p) PROVE LoopsInOrder'
  <2>1. PICK out \in Frames : root' = [root EXCEPT ![Dying] = root[p], ![p] = out]
    BY <1>3 DEF ExecStart
  <2>2. op = Idle /\ p \in live /\ live' = live \ {p} /\ op' = Loop("exec", p, p)
    BY <1>3 DEF ExecStart
  <2>. QED
    BY <1>0, <2>1, <2>2 DEF LoopsInOrder, TypeOK, Freeing, Idle, Loop
<1>4. ASSUME op' = op \/ NextPage, root' = root, live' = live PROVE LoopsInOrder'
  <2>1. op'.kind = op.kind /\ op'.proc = op.proc /\ op'.child = op.child
    BY <1>4 DEF NextPage, TypeOK
  <2>. QED
    BY <1>4, <2>1 DEF LoopsInOrder, Freeing
<1>5. ASSUME NEW p \in Procs,
             \/ Sbrk(p) \/ SbrkDown(p)
             \/ \E v \in VPages : CopyOnWrite(p, v) \/ \E x \in Values : Store(p, v, x)
      PROVE  LoopsInOrder'
  <2>1. op' = op /\ root' = root /\ live' = live
    BY <1>5 DEF Sbrk, SbrkDown, CopyOnWrite, Store
  <2>. QED
    BY <1>4, <2>1
<1>6. CASE CopyPage \/ FreePage \/ LoadPage
  BY <1>4, <1>6 DEF CopyPage, FreePage, LoadPage
<1>7. CASE ForkEnd
  BY <1>7 DEF ForkEnd, LoopsInOrder, TypeOK, Freeing, Idle
<1>8. CASE FreeEnd
  <2>1. /\ Freeing
        /\ root' = [root EXCEPT ![Dying] = NoFrame] /\ live' = live
        /\ op' = IF op.kind = "exec" THEN Loop("load", op.proc, op.proc) ELSE Idle
    BY <1>8 DEF FreeEnd
  <2>2. CASE op.kind = "exec"
    BY <1>0, <2>1, <2>2 DEF LoopsInOrder, TypeOK, Freeing, Loop
  <2>3. CASE op.kind # "exec"
    BY <1>0, <2>1, <2>3 DEF LoopsInOrder, TypeOK, Freeing, Idle
  <2>. QED
    BY <2>2, <2>3
<1>9. CASE LoadEnd
  <2>1. op.kind = "load" /\ live' = live \cup {op.proc} /\ op' = Idle /\ root' = root
    BY <1>9 DEF LoadEnd
  <2>. QED
    BY <2>1 DEF LoopsInOrder, TypeOK, Freeing, Idle
<1>10. CASE UNCHANGED vars
  BY <1>4, <1>10 DEF vars
<1>. QED
  BY <1>1, <1>2, <1>3, <1>5, <1>6, <1>7, <1>8, <1>9, <1>10 DEF Next

(* The types are right in every state. *)
LEMMA TypesStay ==
    ASSUME TypeOK, LoopsInOrder, [Next]_vars
    PROVE  TypeOK'
<1>1. ASSUME NEW p \in Procs, NEW c \in Procs, ForkStart(p, c) PROVE TypeOK'
  BY <1>1, ForkStartType
<1>2. ASSUME NEW p \in Procs, ExitStart(p) \/ ExecStart(p) \/ Sbrk(p) PROVE TypeOK'
  BY <1>2, ExitStartType, ExecStartType, SbrkType
<1>3. ASSUME NEW p \in Procs, SbrkDown(p) PROVE TypeOK'
  <2>1. heap' \in [Procs -> 0 .. NPages]
    BY <1>3, CowAssumption DEF SbrkDown, TypeOK
  <2>. QED
    BY <1>3, <2>1 DEF SbrkDown, TypeOK, memVars
<1>4. ASSUME NEW p \in Procs, NEW v \in VPages,
             CopyOnWrite(p, v) \/ \E x \in Values : Store(p, v, x)
      PROVE  TypeOK'
  BY <1>4, CopyOnWriteType, StoreType
<1>5. CASE CopyPage \/ FreePage \/ LoadPage
  BY <1>5, CopyPageType, FreePageType, LoadPageType
<1>6. CASE ForkEnd
  BY <1>6, ForkEndType DEF ForkEnd, LoopsInOrder
<1>7. CASE FreeEnd
  <2>1. root[Dying] \in Frames
    BY <1>7 DEF FreeEnd, LoopsInOrder, TypeOK, Spaces
  <2>. QED
    BY <1>7, <2>1, FreeEndType DEF LoopsInOrder
<1>8. CASE LoadEnd
  BY <1>8, LoadEndType DEF LoadEnd, LoopsInOrder
<1>9. CASE UNCHANGED vars
  BY <1>9 DEF vars, memVars, TypeOK
<1>. QED
  BY <1>1, <1>2, <1>3, <1>4, <1>5, <1>6, <1>7, <1>8, <1>9 DEF Next

(* At the start there is one empty directory. *)
LEMMA InitLoops == Init => LoopsInOrder
<1>. SUFFICES ASSUME NEW p \in Procs,
         root = [q \in Spaces |-> IF q = p THEN FirstPages ELSE NoFrame],
         live = {p}, op = Idle
       PROVE LoopsInOrder
  BY DEF Init
<1>1. FirstPages # NoFrame /\ Dying \in Spaces /\ p \in Spaces /\ p # Dying
  BY CowAssumption, FrameAssumption DEF NoFrame, Spaces
<1>. QED
  BY <1>1 DEF LoopsInOrder, Idle, Freeing

(* No word of the tables or of the bitmap leaves its range, and the        *)
(* reference counts stay within a byte.                                    *)
THEOREM MemoryTypes == Spec => []TypeOK
BY InitType, InitLoops, TypesStay, LoopsStayInOrder, PTL DEF Spec
-----------------------------------------------------------------------------
(* The core of the invariant: one lemma per action.                        *)

(* A frame that is free has no owner, no count and is not the image's.     *)
LEMMA FreshFrame ==
    ASSUME TypeOK, Core, NEW out \in Frames, out \notin frames
    PROVE  /\ \A q \in Spaces : root[q] # out
           /\ \A q \in Spaces, v \in VPages : table[q][v].frame # out
           /\ mem_refcounts[out] = 0
           /\ FirstPages <= out
<1>1. \A q \in Spaces : root[q] # out
  BY EntryFacts DEF Core, RootsExact
<1>2. \A q \in Spaces, v \in VPages : table[q][v].frame # out
  BY EntryFacts DEF Core, EntriesExact
<1>3. mem_refcounts[out] = 0
  <2>1. OwnersIn(table, out) = 0
    BY <1>2, NoOwner
  <2>. QED
    BY <2>1 DEF Core, CountsExact
<1>4. FirstPages <= out
  <2>1. FirstPages \in Nat /\ out \in Nat
    BY CowAssumption, FrameAssumption DEF Frames
  <2>. QED
    BY <2>1 DEF Core, ImageLocked
<1>. QED
  BY <1>1, <1>2, <1>3, <1>4

(* The invariant holds at the start, when nothing is mapped. *)
LEMMA InitCore == Init => Core
<1>. SUFFICES ASSUME NEW p \in Procs,
         /\ frames = 0 .. FirstPages
         /\ mem_refcounts = [f \in Frames |-> 0]
         /\ root = [q \in Spaces |-> IF q = p THEN FirstPages ELSE NoFrame]
         /\ table = [q \in Spaces |-> EmptyTable]
         /\ op = Idle
       PROVE Core
  BY DEF Init
<1>1. \A q \in Spaces, v \in VPages : table[q][v] = NotPresent
  BY DEF EmptyTable
<1>2. p \in Spaces /\ FirstPages \in Nat /\ NotPresent.frame = NoFrame /\ NoFrame < 0
  BY CowAssumption, FrameAssumption, EntryFacts DEF Spaces, NoFrame
<1>3. TablesInOrder
  BY <1>1 DEF TablesInOrder, Idle, Freeing
<1>4. EntriesExact /\ UncountedAlone
  BY <1>1, <1>2 DEF EntriesExact, UncountedAlone
<1>5. CountsExact
  BY DEF CountsExact
<1>6. RootsExact
  BY <1>1, <1>2 DEF RootsExact
<1>7. NothingLeaks
  BY <1>2 DEF NothingLeaks
<1>8. ImageLocked
  BY <1>2, FrameAssumption DEF ImageLocked, Frames
<1>. QED
  BY <1>3, <1>4, <1>5, <1>6, <1>7, <1>8 DEF Core

(* fork: the new directory has a frame of its own. *)
LEMMA ForkStartCore ==
    ASSUME TypeOK, LoopsInOrder, Core, NEW p \in Procs, NEW c \in Procs, ForkStart(p, c)
    PROVE  Core'
<1>1. PICK out \in Frames : TakeFrame(out) /\ root' = [root EXCEPT ![c] = out]
  BY DEF ForkStart
<1>2. /\ op = Idle /\ p \in live /\ root[c] = NoFrame /\ op' = Loop("fork", p, c)
      /\ table' = table /\ mem_refcounts' = mem_refcounts /\ contents' = contents
  BY DEF ForkStart
<1>3. out \notin frames /\ frames' = frames \cup {out}
  BY <1>1, TakeFrameTakesFree
<1>4. /\ \A q \in Spaces : root[q] # out
      /\ \A q \in Spaces, v \in VPages : table[q][v].frame # out
      /\ FirstPages <= out
  BY <1>3, FreshFrame
<1>5. root'[c] = out /\ c \in Spaces /\ \A q \in Spaces \ {c} : root'[q] = root[q]
  BY <1>1 DEF TypeOK, Spaces
<1>6. TablesInOrder'
  BY <1>2, <1>5, EntryFacts DEF Core, TablesInOrder, Freeing, Loop, VPages
<1>7. EntriesExact' /\ UncountedAlone' /\ CountsExact' /\ ImageLocked'
  BY <1>2, <1>3 DEF Core, EntriesExact, UncountedAlone, CountsExact, ImageLocked
<1>8. RootsExact'
  BY <1>2, <1>3, <1>4, <1>5 DEF Core, RootsExact
<1>9. NothingLeaks'
  <2>. SUFFICES ASSUME NEW f \in frames
                PROVE  \/ f < FirstPages
                       \/ \E q \in Spaces : root'[q] = f
                       \/ \E q \in Spaces, v \in VPages : table[q][v].frame = f
    BY <1>2, <1>3, <1>5 DEF NothingLeaks
  <2>1. f # NoFrame
    BY EntryFacts DEF TypeOK
  <2>2. ASSUME NEW q \in Spaces, root[q] = f PROVE root'[q] = f
    BY <1>2, <1>5, <2>1, <2>2
  <2>. QED
    BY <2>2 DEF Core, NothingLeaks
<1>. QED
  BY <1>6, <1>7, <1>8, <1>9 DEF Core

(* The end of a loop that touches no entry. *)
LEMMA ForkEndCore ==
    ASSUME TypeOK, LoopsInOrder, Core, ForkEnd \/ LoadEnd
    PROVE  Core'
<1>1. op' = Idle /\ ~Freeing /\ table' = table /\ root' = root
  BY DEF ForkEnd, LoadEnd, Freeing
<1>2. frames' = frames /\ mem_refcounts' = mem_refcounts /\ contents' = contents
  BY DEF ForkEnd, LoadEnd, memVars
<1>3. TablesInOrder'
  BY <1>1 DEF Core, TablesInOrder, Freeing, Idle
<1>. QED
  BY <1>1, <1>2, <1>3 DEF Core, EntriesExact, UncountedAlone, CountsExact, RootsExact,
                          NothingLeaks, ImageLocked

(* exit and exec hand the tables of p to mmu_free. *)
LEMMA TablesMoved ==
    ASSUME TypeOK, LoopsInOrder, Core, op = Idle, NEW p \in Procs, p \in live,
           table' = [table EXCEPT ![Dying] = table[p], ![p] = EmptyTable]
    PROVE  /\ \A v \in VPages : table'[Dying][v] = table[p][v] /\ table'[p][v] = NotPresent
           /\ \A q \in Spaces \ {p, Dying}, v \in VPages : table'[q][v] = table[q][v]
           /\ \A v \in VPages : table[Dying][v] = NotPresent
           /\ root[Dying] = NoFrame
           /\ \A f \in Frames : OwnersIn(table', f) = OwnersIn(table, f)
<1>1. p \in Spaces /\ Dying \in Spaces /\ p # Dying
  BY CowAssumption DEF Spaces
<1>2. table'[Dying] = table[p] /\ table'[p] = EmptyTable
      /\ \A q \in Spaces \ {p, Dying} : table'[q] = table[q]
  BY <1>1 DEF TypeOK
<1>3. \A v \in VPages : EmptyTable[v] = NotPresent
  BY DEF EmptyTable
<1>4. root[Dying] = NoFrame
  BY DEF LoopsInOrder, Freeing, Idle
<1>5. \A v \in VPages : table[Dying][v] = NotPresent
  BY <1>1, <1>4 DEF Core, TablesInOrder
<1>6. ASSUME NEW f \in Frames PROVE OwnersIn(table', f) = OwnersIn(table, f)
  <2>1. f # NoFrame
    BY EntryFacts
  <2>2. \A v \in VPages : /\ table[Dying][v].frame = NoFrame
                          /\ table'[Dying][v].frame = table[p][v].frame
                          /\ table'[p][v].frame = NoFrame
    BY <1>2, <1>3, <1>5, EntryFacts
  <2>3. \A r \in Spaces, w \in VPages :
           r \notin {p, Dying} => table'[r][w].frame = table[r][w].frame
    BY <1>2
  <2>4. HandedOver(table, table', p)
    BY <2>2, <2>3 DEF HandedOver
  <2>. QED
    BY <2>1, <2>4, OwnersAfterMove
<1>. QED
  BY <1>2, <1>3, <1>4, <1>5, <1>6

(* exit and exec: p is left with no directory, or with a fresh one.        *)
HandOver(p, out) ==
    /\ op = Idle /\ (op' = Loop("exit", p, p) \/ op' = Loop("exec", p, p))
    /\ table' = [table EXCEPT ![Dying] = table[p], ![p] = EmptyTable]
    /\ root' = [root EXCEPT ![Dying] = root[p], ![p] = out]
    /\ mem_refcounts' = mem_refcounts /\ contents' = contents
    /\ \/ out = NoFrame /\ frames' = frames
       \/ out \in Frames \ frames /\ frames' = frames \cup {out}

(* A handed-over directory keeps its frames and its counts. *)
LEMMA HandOverCore ==
    ASSUME TypeOK, LoopsInOrder, Core, NEW p \in Procs, p \in live, NEW out, HandOver(p, out)
    PROVE  Core'
<1>0. p \in Spaces /\ Dying \in Spaces /\ p # Dying
  BY CowAssumption DEF Spaces
<1>1. /\ out # NoFrame => /\ \A q \in Spaces : root[q] # out
                          /\ \A q \in Spaces, v \in VPages : table[q][v].frame # out
                          /\ FirstPages <= out /\ out \in frames'
      /\ frames \subseteq frames'
      /\ \A f \in frames' : f \in frames \/ f = out
  BY FreshFrame DEF HandOver
<1>2. /\ \A v \in VPages : table'[Dying][v] = table[p][v] /\ table'[p][v] = NotPresent
      /\ \A q \in Spaces \ {p, Dying}, v \in VPages : table'[q][v] = table[q][v]
      /\ \A v \in VPages : table[Dying][v] = NotPresent
      /\ root[Dying] = NoFrame
      /\ \A f \in Frames : OwnersIn(table', f) = OwnersIn(table, f)
  BY TablesMoved DEF HandOver
<1>3. /\ root'[Dying] = root[p] /\ root'[p] = out
      /\ \A q \in Spaces \ {p, Dying} : root'[q] = root[q]
  BY <1>0 DEF TypeOK, HandOver
<1>4. \A v \in VPages : ~(v < 1)
  BY DEF VPages
<1>5. root[p] # NoFrame /\ mem_refcounts' = mem_refcounts /\ contents' = contents
  BY DEF LoopsInOrder, HandOver
<1>. DEFINE Was(q) == IF q = Dying THEN p ELSE q
<1>6. \A q \in Spaces \ {p}, v \in VPages :
         /\ Was(q) \in Spaces \ {Dying}
         /\ table'[q][v] = table[Was(q)][v] /\ root'[q] = root[Was(q)]
  BY <1>0, <1>2, <1>3
<1>7. \A q, r \in Spaces \ {p} : Was(q) = Was(r) => q = r
  OBVIOUS
<1>8. \A q \in Spaces \ {p} : root'[q] = root[Was(q)] /\ Was(q) \in Spaces \ {Dying}
  BY <1>0, <1>3
<1>. HIDE DEF Was
<1>9. TablesInOrder'
  <2>1. op'.kind \in {"exit", "exec"} /\ op'.page = 1 /\ op'.proc = p /\ Freeing'
    BY DEF HandOver, Loop, Freeing
  <2>2. ASSUME NEW q \in Spaces, root'[q] = NoFrame, NEW v \in VPages
        PROVE  table'[q][v] = NotPresent
    <3>1. q # Dying
      BY <1>3, <1>5, <2>2
    <3>2. CASE q = p
      BY <1>2, <3>2
    <3>3. CASE q # p
      BY <1>2, <1>3, <2>2, <3>1, <3>3 DEF Core, TablesInOrder
    <3>. QED
      BY <3>2, <3>3
  <2>. QED
    BY <1>2, <1>4, <2>1, <2>2 DEF TablesInOrder
<1>10. EntriesExact'
  <2>. SUFFICES ASSUME NEW q \in Spaces, NEW v \in VPages
                PROVE  LET e == table'[q][v] IN
                       IF e.frame = NoFrame THEN e = NotPresent
                       ELSE /\ e.frame \in frames' /\ FirstPages <= e.frame
                            /\ contents[e.frame] \in Values
                            /\ e.writable <=> mem_refcounts[e.frame] = 0
                            /\ e.cow <=> mem_refcounts[e.frame] # 0
    BY <1>5 DEF EntriesExact
  <2>1. CASE q = p
    BY <1>2, <2>1, EntryFacts
  <2>2. CASE q # p
    <3>1. table'[q][v] = table[Was(q)][v] /\ Was(q) \in Spaces
      BY <1>6, <2>2
    <3>. QED
      BY <1>1, <3>1 DEF Core, EntriesExact
  <2>. QED
    BY <2>1, <2>2
<1>11. UncountedAlone'
  <2>. SUFFICES ASSUME NEW q \in Spaces, NEW r \in Spaces, NEW v \in VPages, NEW w \in VPages,
                       table'[q][v].frame # NoFrame,
                       table'[q][v].frame = table'[r][w].frame,
                       mem_refcounts[table'[q][v].frame] = 0
                PROVE  q = r /\ v = w
    BY <1>5 DEF UncountedAlone
  <2>1. q # p /\ r # p
    BY <1>2, EntryFacts
  <2>2. /\ table'[q][v] = table[Was(q)][v] /\ Was(q) \in Spaces
        /\ table'[r][w] = table[Was(r)][w] /\ Was(r) \in Spaces
    BY <1>6, <2>1
  <2>3. Was(q) = Was(r) /\ v = w
    BY <2>2 DEF Core, UncountedAlone
  <2>. QED
    BY <1>7, <2>1, <2>3
<1>12. CountsExact'
  BY <1>2, <1>5 DEF Core, CountsExact
<1>13. RootsExact'
  <2>. SUFFICES ASSUME NEW q \in Spaces, root'[q] # NoFrame
                PROVE  /\ root'[q] \in frames' /\ FirstPages <= root'[q]
                       /\ \A r \in Spaces : root'[r] = root'[q] => r = q
                       /\ \A r \in Spaces, v \in VPages : table'[r][v].frame # root'[q]
    BY DEF RootsExact
  <2>1. CASE q = p
    <3>1. root'[q] = out
      BY <1>3, <2>1
    <3>2. \A r \in Spaces \ {p} : root'[r] # out
      BY <1>1, <1>8, <3>1
    <3>3. \A r \in Spaces, v \in VPages : table'[r][v].frame # out
      BY <1>1, <1>2, <1>6, <3>1, EntryFacts
    <3>. QED
      BY <1>1, <2>1, <3>1, <3>2, <3>3
  <2>2. CASE q # p
    <3>1. root'[q] = root[Was(q)] /\ Was(q) \in Spaces
      BY <1>8, <2>2
    <3>2. root'[q] \in frames /\ FirstPages <= root'[q]
      BY <3>1 DEF Core, RootsExact
    <3>3. ASSUME NEW r \in Spaces, root'[r] = root'[q] PROVE r = q
      <4>1. r # p
        BY <1>1, <1>3, <3>1, <3>3
      <4>2. Was(r) = Was(q)
        BY <1>8, <3>1, <3>3, <4>1 DEF Core, RootsExact
      <4>. QED
        BY <1>7, <2>2, <4>1, <4>2
    <3>4. ASSUME NEW r \in Spaces, NEW v \in VPages PROVE table'[r][v].frame # root'[q]
      <4>1. CASE r = p
        BY <1>2, <4>1, EntryFacts
      <4>2. CASE r # p
        BY <1>6, <3>1, <4>2 DEF Core, RootsExact
      <4>. QED
        BY <4>1, <4>2
    <3>. QED
      BY <1>1, <3>2, <3>3, <3>4
  <2>. QED
    BY <2>1, <2>2
<1>14. NothingLeaks'
  <2>. SUFFICES ASSUME NEW f \in frames'
                PROVE  \/ f < FirstPages
                       \/ \E q \in Spaces : root'[q] = f
                       \/ \E q \in Spaces, v \in VPages : table'[q][v].frame = f
    BY DEF NothingLeaks
  <2>1. CASE f = out
    BY <1>0, <1>3, <2>1
  <2>2. CASE f \in frames
    <3>1. f # NoFrame
      BY <2>2, EntryFacts DEF TypeOK
    <3>2. ASSUME NEW q \in Spaces, root[q] = f PROVE \E r \in Spaces : root'[r] = f
      BY <1>0, <1>2, <1>3, <3>1, <3>2
    <3>3. ASSUME NEW q \in Spaces, NEW v \in VPages, table[q][v].frame = f
          PROVE  \E r \in Spaces : table'[r][v].frame = f
      BY <1>0, <1>2, <3>1, <3>3, EntryFacts
    <3>. QED
      BY <2>2, <3>2, <3>3 DEF Core, NothingLeaks
  <2>. QED
    BY <1>1, <2>1, <2>2
<1>15. ImageLocked'
  BY <1>1 DEF Core, ImageLocked
<1>. QED
  BY <1>9, <1>10, <1>11, <1>12, <1>13, <1>14, <1>15 DEF Core

(* exit. *)
LEMMA ExitStartCore ==
    ASSUME TypeOK, LoopsInOrder, Core, NEW p \in Procs, ExitStart(p)
    PROVE  Core'
BY HandOverCore DEF ExitStart, memVars, HandOver

(* exec. *)
LEMMA ExecStartCore ==
    ASSUME TypeOK, LoopsInOrder, Core, NEW p \in Procs, ExecStart(p)
    PROVE  Core'
<1>1. PICK out \in Frames : TakeFrame(out) /\ root' = [root EXCEPT ![Dying] = root[p], ![p] = out]
  BY DEF ExecStart
<1>2. out \in Frames \ frames /\ frames' = frames \cup {out}
  BY <1>1, TakeFrameTakesFree
<1>. QED
  BY <1>1, <1>2, HandOverCore DEF ExecStart, HandOver

(* A fresh frame for an entry that had none: elf_exec and sbrk.            *)
FreshEntry(out) == [frame |-> out, writable |-> TRUE, cow |-> FALSE]

Placed(q, v, out, x) ==
    /\ out \in Frames \ frames /\ frames' = frames \cup {out}
    /\ table[q][v] = NotPresent
    /\ table' = [table EXCEPT ![q][v] = FreshEntry(out)]
    /\ contents' = [contents EXCEPT ![out] = x]
    /\ mem_refcounts' = mem_refcounts /\ root' = root

(* A frame that was free has one owner, and no count. *)
LEMMA PlacedCore ==
    ASSUME TypeOK, Core, NEW q \in Spaces, NEW v \in VPages, NEW out, NEW x \in Values,
           Placed(q, v, out, x), TablesInOrder'
    PROVE  Core'
<1>1. out \in Frames /\ out # NoFrame /\ out \notin frames /\ frames' = frames \cup {out}
  BY EntryFacts DEF Placed
<1>2. mem_refcounts' = mem_refcounts /\ root' = root
  BY DEF Placed
<1>3. /\ \A r \in Spaces : root[r] # out
      /\ \A r \in Spaces, w \in VPages : table[r][w].frame # out
      /\ mem_refcounts[out] = 0
      /\ FirstPages <= out
  BY <1>1, FreshFrame
<1>4. /\ table'[q][v] = FreshEntry(out)
      /\ \A r \in Spaces, w \in VPages : r # q \/ w # v => table'[r][w] = table[r][w]
  BY <1>1, EntryFacts, EntryStored DEF Placed, FreshEntry, TypeOK
<1>5. /\ FreshEntry(out).frame = out /\ FreshEntry(out).writable = TRUE
      /\ FreshEntry(out).cow = FALSE
  BY DEF FreshEntry
<1>6. contents'[out] = x /\ \A f \in Frames \ {out} : contents'[f] = contents[f]
  BY <1>1 DEF Placed, TypeOK
<1>7. table[q][v].frame = NoFrame
  BY EntryFacts DEF Placed
<1>8. EntriesExact'
  <2>. SUFFICES ASSUME NEW r \in Spaces, NEW w \in VPages
                PROVE  LET e == table'[r][w] IN
                       IF e.frame = NoFrame THEN e = NotPresent
                       ELSE /\ e.frame \in frames' /\ FirstPages <= e.frame
                            /\ contents'[e.frame] \in Values
                            /\ e.writable <=> mem_refcounts[e.frame] = 0
                            /\ e.cow <=> mem_refcounts[e.frame] # 0
    BY <1>2 DEF EntriesExact
  <2>1. CASE r = q /\ w = v
    BY <1>1, <1>3, <1>4, <1>5, <1>6, <2>1
  <2>2. CASE r # q \/ w # v
    <3>1. table'[r][w] = table[r][w]
      BY <1>4, <2>2
    <3>2. table[r][w].frame # NoFrame => contents'[table[r][w].frame] = contents[table[r][w].frame]
      BY <1>3, <1>6 DEF Core, EntriesExact, TypeOK
    <3>. QED
      BY <1>1, <3>1, <3>2 DEF Core, EntriesExact
  <2>. QED
    BY <2>1, <2>2
<1>9. UncountedAlone'
  <2>. SUFFICES ASSUME NEW r \in Spaces, NEW s \in Spaces, NEW w \in VPages, NEW y \in VPages,
                       table'[r][w].frame # NoFrame,
                       table'[r][w].frame = table'[s][y].frame,
                       mem_refcounts[table'[r][w].frame] = 0
                PROVE  r = s /\ w = y
    BY <1>2 DEF UncountedAlone
  <2>1. CASE (r # q \/ w # v) /\ (s # q \/ y # v)
    <3>1. table'[r][w] = table[r][w] /\ table'[s][y] = table[s][y]
      BY <1>4, <2>1
    <3>. QED
      BY <3>1 DEF Core, UncountedAlone
  <2>2. CASE r = q /\ w = v
    BY <1>3, <1>4, <1>5, <2>2
  <2>3. CASE s = q /\ y = v
    BY <1>3, <1>4, <1>5, <2>3
  <2>. QED
    BY <2>1, <2>2, <2>3
<1>10. CountsExact'
  <2>. SUFFICES ASSUME NEW f \in Frames, mem_refcounts[f] # 0
                PROVE  OwnersIn(table', f) = mem_refcounts[f]
    BY <1>2 DEF CountsExact
  <2>1. f # out /\ f # NoFrame
    BY <1>3, EntryFacts
  <2>2. SameBut(table, table', q, v)
    BY <1>4 DEF SameBut
  <2>3. table'[q][v].frame # f /\ table[q][v].frame # f
    BY <1>4, <1>5, <1>7, <2>1
  <2>4. OwnersIn(table', f) = OwnersIn(table, f)
    BY <2>2, <2>3, OwnersAfterStore
  <2>. QED
    BY <2>4 DEF Core, CountsExact
<1>11. RootsExact'
  <2>1. ASSUME NEW s \in Spaces, root[s] # NoFrame, NEW r \in Spaces, NEW w \in VPages
        PROVE  table'[r][w].frame # root[s]
    BY <1>3, <1>4, <1>5, <2>1 DEF Core, RootsExact
  <2>. QED
    BY <1>1, <1>2, <2>1 DEF Core, RootsExact
<1>12. NothingLeaks'
  <2>. SUFFICES ASSUME NEW f \in frames'
                PROVE  \/ f < FirstPages
                       \/ \E r \in Spaces : root[r] = f
                       \/ \E r \in Spaces, w \in VPages : table'[r][w].frame = f
    BY <1>2 DEF NothingLeaks
  <2>1. CASE f = out
    BY <1>4, <1>5, <2>1
  <2>2. CASE f \in frames
    <3>1. f # NoFrame
      BY <2>2, EntryFacts DEF TypeOK
    <3>2. ASSUME NEW r \in Spaces, NEW w \in VPages, table[r][w].frame = f
          PROVE  table'[r][w].frame = f
      BY <1>4, <1>7, <3>1, <3>2
    <3>. QED
      BY <2>2, <3>2 DEF Core, NothingLeaks
  <2>. QED
    BY <1>1, <2>1, <2>2
<1>13. ImageLocked'
  BY <1>1 DEF Core, ImageLocked
<1>. QED
  BY <1>8, <1>9, <1>10, <1>11, <1>12, <1>13 DEF Core

(* elf_exec maps a page. *)
LEMMA LoadPageCore ==
    ASSUME TypeOK, LoopsInOrder, Core, LoadPage
    PROVE  Core'
<1>1. PICK out \in Frames, x \in Values :
         /\ TakeFrame(out)
         /\ contents' = [contents EXCEPT ![out] = x]
         /\ table' = [table EXCEPT ![op.proc][op.page] = FreshEntry(out)]
  BY DEF LoadPage, FreshEntry
<1>2. op.kind = "load" /\ op \in Ops /\ op.page \in VPages /\ op.proc \in Spaces
  BY CowAssumption DEF LoadPage, TypeOK, Ops, VPages
<1>3. /\ op'.kind = "load" /\ op'.proc = op.proc /\ op'.page = op.page + 1
      /\ root' = root /\ mem_refcounts' = mem_refcounts
  BY <1>2, OpFacts DEF LoadPage
<1>4. table[op.proc][op.page] = NotPresent
  BY <1>2 DEF Core, TablesInOrder, VPages
<1>5. out \notin frames /\ frames' = frames \cup {out}
  BY <1>1, TakeFrameTakesFree
<1>6. Placed(op.proc, op.page, out, x)
  BY <1>1, <1>3, <1>4, <1>5 DEF Placed
<1>7. \A r \in Spaces, w \in VPages :
         r # op.proc \/ w # op.page => table'[r][w] = table[r][w]
  BY <1>1, <1>2, EntryFacts, EntryStored DEF FreshEntry, TypeOK
<1>8. TablesInOrder'
  <2>1. root[op.proc] # NoFrame
    BY <1>2 DEF LoopsInOrder
  <2>2. ASSUME NEW q \in Spaces, root[q] = NoFrame, NEW v \in VPages
        PROVE  table'[q][v] = NotPresent
    BY <1>7, <2>1, <2>2 DEF Core, TablesInOrder
  <2>3. ASSUME NEW v \in VPages, op'.page <= v PROVE table'[op.proc][v] = NotPresent
    <3>1. op.page <= v /\ v # op.page
      BY <1>2, <1>3, <2>3 DEF VPages
    <3>. QED
      BY <1>2, <1>7, <3>1 DEF Core, TablesInOrder
  <2>. QED
    BY <1>3, <2>2, <2>3 DEF TablesInOrder, Freeing
<1>. QED
  BY <1>2, <1>6, <1>8, PlacedCore

(* A page of sys_sbrk, unless it reuses a shared page.                     *)
LEMMA SbrkCore ==
    ASSUME TypeOK, LoopsInOrder, Core, NEW p \in Procs, Sbrk(p), ~tainted'
    PROVE  Core'
<1>. DEFINE v == heap[p] + 1
            e == table[p][v]
<1>1. p \in Spaces /\ v \in VPages /\ p \in live /\ op = Idle /\ op' = Idle /\ root' = root
  BY SbrkType DEF Sbrk, Spaces
<1>2. root[p] # NoFrame
  BY <1>1 DEF LoopsInOrder
<1>. HIDE DEF v, e
<1>3. CASE Present(e)
  <2>1. table' = [table EXCEPT ![p][v].writable = TRUE]
    BY <1>3 DEF Sbrk, v, e
  <2>2. tainted' = (tainted \/ ~e.writable)
    BY <1>3 DEF Sbrk, v, e
  <2>3. e \in Entry /\ e.writable = TRUE
    <3>1. e \in Entry
      BY <1>1 DEF TypeOK, e
    <3>. QED
      BY <2>2, <3>1, EntryFacts
  <2>4. [e EXCEPT !.writable = TRUE] = e
    BY <2>3 DEF Entry
  <2>5. table' = [table EXCEPT ![p][v] = e]
    BY <2>1, <2>4 DEF e
  <2>6. table' = table
    BY <1>1, <2>5 DEF e, TypeOK
  <2>7. frames' = frames /\ mem_refcounts' = mem_refcounts /\ contents' = contents
    BY <1>3 DEF Sbrk, memVars, v, e
  <2>8. op' = op
    BY <1>1
  <2>. QED
    BY <1>1, <2>6, <2>7, <2>8 DEF Core, TablesInOrder, EntriesExact, UncountedAlone,
                                  CountsExact, RootsExact, NothingLeaks, ImageLocked, Freeing
<1>4. CASE ~Present(e)
  <2>1. PICK out \in Frames, x \in Values :
         /\ TakeFrame(out)
         /\ contents' = [contents EXCEPT ![out] = x]
         /\ table' = [table EXCEPT ![p][v].frame = out, ![p][v].writable = TRUE]
    BY <1>4 DEF Sbrk, v, e
  <2>2. e = NotPresent
    BY <1>1, <1>4 DEF Core, EntriesExact, Present, e
  <2>3. [e EXCEPT !.frame = out, !.writable = TRUE] = FreshEntry(out)
    <3>. DEFINE n == [e EXCEPT !.frame = out, !.writable = TRUE]
    <3>1. e \in Entry /\ e.cow = FALSE
      BY <2>2, EntryFacts DEF NotPresent
    <3>2. n \in Entry /\ n.frame = out /\ n.writable = TRUE /\ n.cow = FALSE
      BY <3>1 DEF Entry
    <3>. QED
      BY <3>2, EntryFacts DEF FreshEntry
  <2>4. table' = [table EXCEPT ![p][v] = [e EXCEPT !.frame = out, !.writable = TRUE]]
    BY <2>1 DEF e
  <2>5. table' = [table EXCEPT ![p][v] = FreshEntry(out)]
    BY <2>3, <2>4
  <2>6. out \notin frames /\ frames' = frames \cup {out}
    BY <2>1, TakeFrameTakesFree
  <2>7. mem_refcounts' = mem_refcounts
    BY <1>4 DEF Sbrk, v, e
  <2>8. Placed(p, v, out, x)
    BY <1>1, <2>1, <2>2, <2>5, <2>6, <2>7 DEF Placed, e
  <2>9. \A r \in Spaces, w \in VPages : r # p \/ w # v => table'[r][w] = table[r][w]
    BY <1>1, <2>5, EntryFacts, EntryStored DEF FreshEntry, TypeOK
  <2>10. TablesInOrder'
    <3>1. ASSUME NEW q \in Spaces, root[q] = NoFrame, NEW w \in VPages
          PROVE  table'[q][w] = NotPresent
      BY <1>2, <2>9, <3>1 DEF Core, TablesInOrder
    <3>. QED
      BY <1>1, <3>1 DEF TablesInOrder, Idle, Freeing
  <2>. QED
    BY <1>1, <2>8, <2>10, PlacedCore
<1>. QED
  BY <1>3, <1>4

(* A frame whose only entry is given up is free again, and one that others *)
(* share is one owner short.                                               *)
LEMMA LastOwner ==
    ASSUME TypeOK, Core, NEW q \in Spaces, NEW v \in VPages,
           table[q][v].frame # NoFrame, mem_refcounts[table[q][v].frame] \in {0, 1},
           NEW r \in Spaces, NEW w \in VPages, table[r][w].frame = table[q][v].frame
    PROVE  r = q /\ w = v
<1>. DEFINE f == table[q][v].frame
<1>1. f \in Frames
  BY EntryFacts DEF TypeOK
<1>2. CASE mem_refcounts[f] = 0
  BY <1>2 DEF Core, UncountedAlone
<1>3. CASE mem_refcounts[f] = 1
  <2>1. OwnersIn(table, f) = 1
    BY <1>1, <1>3 DEF Core, CountsExact
  <2>. QED
    BY <2>1, OneOwner
<1>. QED
  BY <1>2, <1>3

(* A write fault of the last owner: the frame is its own again.            *)
LEMMA KeepFrameCore ==
    ASSUME TypeOK, LoopsInOrder, Core, NEW p \in Procs, NEW v \in VPages, CopyOnWrite(p, v),
           mem_refcounts[table[p][v].frame] = 1
    PROVE  Core'
<1>. DEFINE e == table[p][v]
            f == e.frame
<1>1. /\ p \in Spaces /\ p \in live /\ op = Idle /\ op' = op /\ root' = root
      /\ f # NoFrame /\ e \in Entry
  BY DEF CopyOnWrite, Present, Spaces, TypeOK
<1>2. f \in Frames
  BY <1>1, EntryFacts
<1>3. DecreaseReturns(f) = 0 /\ Decreased(f) = 0
  BY DEF DecreaseReturns, Decreased
<1>. HIDE DEF e, f
<1>4. /\ mem_refcounts' = [mem_refcounts EXCEPT ![f] = 0]
      /\ table' = [table EXCEPT ![p][v].writable = TRUE, ![p][v].cow = FALSE]
      /\ frames' = frames /\ contents' = contents
  BY <1>3 DEF CopyOnWrite, e, f
<1>5. table' = [table EXCEPT ![p][v] = FreshEntry(f)]
  <2>. DEFINE n == [e EXCEPT !.writable = TRUE, !.cow = FALSE]
  <2>1. table' = [table EXCEPT ![p][v] = n]
    BY <1>4 DEF e
  <2>2. n \in Entry /\ n.frame = f /\ n.writable = TRUE /\ n.cow = FALSE
    BY <1>1 DEF Entry, f
  <2>3. n = FreshEntry(f)
    BY <2>2, EntryFacts DEF FreshEntry
  <2>. QED
    BY <2>1, <2>3
<1>6. /\ table'[p][v] = FreshEntry(f)
      /\ \A r \in Spaces, w \in VPages : r # p \/ w # v => table'[r][w] = table[r][w]
  BY <1>1, <1>2, <1>5, EntryFacts, EntryStored DEF FreshEntry, TypeOK
<1>7. FreshEntry(f).frame = f /\ FreshEntry(f).writable = TRUE /\ FreshEntry(f).cow = FALSE
  BY DEF FreshEntry
<1>8. \A r \in Spaces, w \in VPages : table[r][w].frame = f => r = p /\ w = v
  BY <1>1, LastOwner DEF e, f
<1>9. mem_refcounts'[f] = 0 /\ \A g \in Frames \ {f} : mem_refcounts'[g] = mem_refcounts[g]
  BY <1>2, <1>4 DEF TypeOK
<1>10. \A r \in Spaces, w \in VPages : table'[r][w].frame = table[r][w].frame
  BY <1>6, <1>7 DEF e, f
<1>11. \A r \in Spaces, w \in VPages : table[r][w].frame \in Frames \cup {NoFrame}
  BY EntryFacts DEF TypeOK
<1>12. TablesInOrder'
  <2>1. ASSUME NEW q \in Spaces, root[q] = NoFrame, NEW w \in VPages
        PROVE  table'[q][w] = NotPresent
    BY <1>1, <1>6, <2>1 DEF Core, TablesInOrder, LoopsInOrder
  <2>. QED
    BY <1>1, <2>1 DEF TablesInOrder, Idle, Freeing
<1>13. EntriesExact'
  <2>. SUFFICES ASSUME NEW r \in Spaces, NEW w \in VPages
                PROVE  LET d == table'[r][w] IN
                       IF d.frame = NoFrame THEN d = NotPresent
                       ELSE /\ d.frame \in frames /\ FirstPages <= d.frame
                            /\ contents[d.frame] \in Values
                            /\ d.writable <=> mem_refcounts'[d.frame] = 0
                            /\ d.cow <=> mem_refcounts'[d.frame] # 0
    BY <1>4 DEF EntriesExact
  <2>1. CASE r = p /\ w = v
    <3>1. f \in frames /\ FirstPages <= f /\ contents[f] \in Values
      BY <1>1 DEF Core, EntriesExact, e, f
    <3>. QED
      BY <1>1, <1>6, <1>7, <1>9, <2>1, <3>1
  <2>2. CASE r # p \/ w # v
    <3>1. table'[r][w] = table[r][w] /\ table[r][w].frame # f
      BY <1>6, <1>8, <2>2
    <3>2. table[r][w].frame # NoFrame
             => mem_refcounts'[table[r][w].frame] = mem_refcounts[table[r][w].frame]
      BY <1>9, <1>11, <3>1
    <3>. QED
      BY <3>1, <3>2 DEF Core, EntriesExact
  <2>. QED
    BY <2>1, <2>2
<1>14. UncountedAlone'
  <2>. SUFFICES ASSUME NEW r \in Spaces, NEW s \in Spaces, NEW w \in VPages, NEW y \in VPages,
                       table'[r][w].frame # NoFrame,
                       table'[r][w].frame = table'[s][y].frame,
                       mem_refcounts'[table'[r][w].frame] = 0
                PROVE  r = s /\ w = y
    BY DEF UncountedAlone
  <2>1. CASE table[r][w].frame = f
    BY <1>8, <1>10, <2>1
  <2>2. CASE table[r][w].frame # f
    BY <1>9, <1>10, <1>11, <2>2 DEF Core, UncountedAlone
  <2>. QED
    BY <2>1, <2>2
<1>15. CountsExact'
  <2>. SUFFICES ASSUME NEW g \in Frames, mem_refcounts'[g] # 0
                PROVE  OwnersIn(table', g) = mem_refcounts'[g]
    BY DEF CountsExact
  <2>1. SameBut(table, table', p, v)
    BY <1>10 DEF SameBut
  <2>2. OwnersIn(table', g) = OwnersIn(table, g)
    BY <1>1, <1>10, <2>1, OwnersAfterStore
  <2>. QED
    BY <1>9, <2>2 DEF Core, CountsExact
<1>16. root' = root /\ frames' = frames
  BY <1>1, <1>4
<1>17. RootsExact' /\ NothingLeaks'
  BY <1>10, <1>16 DEF Core, RootsExact, NothingLeaks
<1>18. ImageLocked'
  BY <1>16 DEF Core, ImageLocked
<1>. QED
  BY <1>12, <1>13, <1>14, <1>15, <1>16, <1>17, <1>18 DEF Core

(* An entry lets go of a frame that others share. *)
Released(q, v) ==
    LET f == table[q][v].frame IN
    /\ f # NoFrame /\ mem_refcounts[f] \notin {0, 1}
    /\ mem_refcounts' = [mem_refcounts EXCEPT ![f] = mem_refcounts[f] - 1]
    /\ root' = root

(* The others keep it, and their count is right. *)
LEMMA ReleasedCounts ==
    ASSUME TypeOK, Core, NEW q \in Spaces, NEW v \in VPages, Released(q, v),
           SameBut(table, table', q, v), table'[q][v].frame # table[q][v].frame
    PROVE  LET f == table[q][v].frame IN
           /\ f \in Frames
           /\ mem_refcounts'[f] = mem_refcounts[f] - 1 /\ mem_refcounts[f] - 1 # 0
           /\ \A g \in Frames \ {f} : mem_refcounts'[g] = mem_refcounts[g]
           /\ OwnersIn(table', f) = mem_refcounts'[f]
           /\ \E r \in Spaces, w \in VPages : table'[r][w].frame = f
<1>. DEFINE f == table[q][v].frame
<1>1. f \in Frames /\ f # NoFrame
  BY EntryFacts DEF TypeOK, Released
<1>2. mem_refcounts[f] \in Nat /\ mem_refcounts[f] \notin {0, 1}
  BY <1>1, CowAssumption DEF TypeOK, Released
<1>3. /\ mem_refcounts'[f] = mem_refcounts[f] - 1
      /\ \A g \in Frames \ {f} : mem_refcounts'[g] = mem_refcounts[g]
  BY <1>1 DEF TypeOK, Released
<1>4. OwnersIn(table, f) = mem_refcounts[f]
  BY <1>1, <1>2 DEF Core, CountsExact
<1>5. OwnersIn(table', f) = OwnersIn(table, f) - 1
  BY OwnersAfterStore
<1>6. OwnersIn(table', f) # 0
  BY <1>2, <1>4, <1>5
<1>7. \E r \in Spaces, w \in VPages : table'[r][w].frame = f
  BY <1>6, NoOwner
<1>. QED
  BY <1>1, <1>2, <1>3, <1>4, <1>5, <1>7
(* A shared frame is let go of for nothing, by mmu_free, or for a copy.    *)
LetGo(q, v, out, x) ==
    /\ Released(q, v)
    /\ \/ /\ out = NoFrame
          /\ table' = [table EXCEPT ![q][v] = NotPresent]
          /\ frames' = frames /\ contents' = contents
       \/ /\ out \in Frames \ frames
          /\ table' = [table EXCEPT ![q][v] = FreshEntry(out)]
          /\ frames' = frames \cup {out} /\ contents' = [contents EXCEPT ![out] = x]

(* What letting go changes, and what it leaves alone. *)
LEMMA LetGoFacts ==
    ASSUME TypeOK, Core, NEW q \in Spaces, NEW v \in VPages, NEW out, NEW x \in Values,
           LetGo(q, v, out, x)
    PROVE  /\ out = NoFrame => table'[q][v] = NotPresent
           /\ out # NoFrame => /\ table'[q][v] = FreshEntry(out)
                               /\ out \in frames' /\ FirstPages <= out
                               /\ contents'[out] = x
                               /\ mem_refcounts[out] = 0
           /\ table'[q][v].frame = out
           /\ \A r \in Spaces, w \in VPages : r # q \/ w # v => table'[r][w] = table[r][w]
           /\ \A r \in Spaces, w \in VPages : table[r][w].frame # NoFrame =>
                 /\ table[r][w].frame # out
                 /\ contents'[table[r][w].frame] = contents[table[r][w].frame]
           /\ \A r \in Spaces : root[r] # NoFrame => root[r] # out
           /\ frames \subseteq frames'
           /\ \A f \in frames' : f \in frames \/ (f = out /\ out # NoFrame)
<1>1. CASE out = NoFrame
  <2>1. /\ table' = [table EXCEPT ![q][v] = NotPresent]
        /\ frames' = frames /\ contents' = contents
    BY <1>1, EntryFacts DEF LetGo
  <2>2. /\ table'[q][v] = NotPresent
        /\ \A r \in Spaces, w \in VPages : r # q \/ w # v => table'[r][w] = table[r][w]
    BY <2>1, EntryFacts, EntryStored DEF TypeOK
  <2>. QED
    BY <1>1, <2>1, <2>2, EntryFacts
<1>2. CASE out # NoFrame
  <2>1. /\ out \in Frames /\ out \notin frames
        /\ table' = [table EXCEPT ![q][v] = FreshEntry(out)]
        /\ frames' = frames \cup {out} /\ contents' = [contents EXCEPT ![out] = x]
    BY <1>2, EntryFacts DEF LetGo
  <2>2. /\ table'[q][v] = FreshEntry(out)
        /\ \A r \in Spaces, w \in VPages : r # q \/ w # v => table'[r][w] = table[r][w]
    BY <2>1, EntryFacts, EntryStored DEF FreshEntry, TypeOK
  <2>3. /\ \A r \in Spaces : root[r] # out
        /\ \A r \in Spaces, w \in VPages : table[r][w].frame # out
        /\ mem_refcounts[out] = 0
        /\ FirstPages <= out
    BY <2>1, FreshFrame
  <2>4. FreshEntry(out).frame = out
    BY DEF FreshEntry
  <2>5. contents'[out] = x /\ \A f \in Frames \ {out} : contents'[f] = contents[f]
    BY <2>1 DEF TypeOK
  <2>6. \A r \in Spaces, w \in VPages : table[r][w].frame \in Frames \cup {NoFrame}
    BY EntryFacts DEF TypeOK
  <2>. HIDE DEF FreshEntry
  <2>7. \A r \in Spaces, w \in VPages : table[r][w].frame # NoFrame =>
           contents'[table[r][w].frame] = contents[table[r][w].frame]
    BY <2>3, <2>5, <2>6
  <2>8. out \in frames' /\ frames \subseteq frames'
        /\ \A f \in frames' : f \in frames \/ f = out
    BY <2>1
  <2>9. contents'[out] = x
    BY <2>5
  <2>. QED
    BY <1>2, <2>2, <2>3, <2>4, <2>7, <2>8, <2>9
<1>. QED
  BY <1>1, <1>2

(* The frame stays with the others, and its count says how many they are. *)
LEMMA LetGoCore ==
    ASSUME TypeOK, Core, NEW q \in Spaces, NEW v \in VPages, NEW out, NEW x \in Values,
           LetGo(q, v, out, x), TablesInOrder'
    PROVE  Core'
<1>. DEFINE f == table[q][v].frame
<1>1. /\ out = NoFrame => table'[q][v] = NotPresent
      /\ out # NoFrame => /\ table'[q][v] = FreshEntry(out)
                          /\ out \in frames' /\ FirstPages <= out
                          /\ contents'[out] = x
                          /\ mem_refcounts[out] = 0
      /\ table'[q][v].frame = out
      /\ \A r \in Spaces, w \in VPages : r # q \/ w # v => table'[r][w] = table[r][w]
      /\ frames \subseteq frames'
      /\ \A g \in frames' : g \in frames \/ (g = out /\ out # NoFrame)
  BY LetGoFacts
<1>2. \A r \in Spaces, w \in VPages : table[r][w].frame # NoFrame =>
         /\ table[r][w].frame # out
         /\ contents'[table[r][w].frame] = contents[table[r][w].frame]
  BY LetGoFacts
<1>3. \A r \in Spaces : root[r] # NoFrame => root[r] # out
  BY LetGoFacts
<1>4. root' = root /\ Released(q, v) /\ f # NoFrame
  BY DEF LetGo, Released
<1>5. SameBut(table, table', q, v)
  BY <1>1 DEF SameBut
<1>6. table'[q][v].frame # f
  BY <1>1, <1>2, <1>4
<1>7. /\ f \in Frames
      /\ mem_refcounts'[f] = mem_refcounts[f] - 1 /\ mem_refcounts[f] - 1 # 0
      /\ \A g \in Frames \ {f} : mem_refcounts'[g] = mem_refcounts[g]
      /\ OwnersIn(table', f) = mem_refcounts'[f]
      /\ \E r \in Spaces, w \in VPages : table'[r][w].frame = f
  BY <1>4, <1>5, <1>6, ReleasedCounts
<1>8. mem_refcounts[f] # 0
  BY <1>4 DEF Released
<1>9. \A g \in Frames : mem_refcounts'[g] = 0 <=> mem_refcounts[g] = 0
  BY <1>7, <1>8
<1>10. \A r \in Spaces, w \in VPages : table[r][w].frame \in Frames \cup {NoFrame}
  BY EntryFacts DEF TypeOK
<1>11. out # NoFrame => out \in Frames
  BY DEF LetGo
<1>12. /\ FreshEntry(out).frame = out /\ FreshEntry(out).writable = TRUE
       /\ FreshEntry(out).cow = FALSE /\ NotPresent.frame = NoFrame
  BY EntryFacts DEF FreshEntry
<1>. HIDE DEF f
<1>13. EntriesExact'
  <2>. SUFFICES ASSUME NEW r \in Spaces, NEW w \in VPages
                PROVE  LET e == table'[r][w] IN
                       IF e.frame = NoFrame THEN e = NotPresent
                       ELSE /\ e.frame \in frames' /\ FirstPages <= e.frame
                            /\ contents'[e.frame] \in Values
                            /\ e.writable <=> mem_refcounts'[e.frame] = 0
                            /\ e.cow <=> mem_refcounts'[e.frame] # 0
    BY DEF EntriesExact
  <2>1. CASE r = q /\ w = v
    BY <1>1, <1>9, <1>11, <1>12, <2>1
  <2>2. CASE r # q \/ w # v
    <3>1. table'[r][w] = table[r][w]
      BY <1>1, <2>2
    <3>2. table[r][w].frame # NoFrame
             => (mem_refcounts'[table[r][w].frame] = 0 <=> mem_refcounts[table[r][w].frame] = 0)
      BY <1>9, <1>10
    <3>. QED
      BY <1>1, <1>2, <3>1, <3>2 DEF Core, EntriesExact
  <2>. QED
    BY <2>1, <2>2
<1>14. UncountedAlone'
  <2>. SUFFICES ASSUME NEW r \in Spaces, NEW s \in Spaces, NEW w \in VPages, NEW y \in VPages,
                       table'[r][w].frame # NoFrame,
                       table'[r][w].frame = table'[s][y].frame,
                       mem_refcounts'[table'[r][w].frame] = 0
                PROVE  r = s /\ w = y
    BY DEF UncountedAlone
  <2>1. CASE (r # q \/ w # v) /\ (s # q \/ y # v)
    <3>1. table'[r][w] = table[r][w] /\ table'[s][y] = table[s][y]
      BY <1>1, <2>1
    <3>2. mem_refcounts[table[r][w].frame] = 0
      BY <1>9, <1>10, <3>1
    <3>. QED
      BY <3>1, <3>2 DEF Core, UncountedAlone
  <2>2. CASE r = q /\ w = v
    BY <1>1, <1>2, <2>2
  <2>3. CASE s = q /\ y = v
    BY <1>1, <1>2, <2>3
  <2>. QED
    BY <2>1, <2>2, <2>3
<1>15. CountsExact'
  <2>. SUFFICES ASSUME NEW g \in Frames, mem_refcounts'[g] # 0
                PROVE  OwnersIn(table', g) = mem_refcounts'[g]
    BY DEF CountsExact
  <2>1. CASE g = f
    BY <1>7, <2>1
  <2>2. CASE g # f
    <3>1. mem_refcounts[g] # 0 /\ g # NoFrame
      BY <1>9, EntryFacts
    <3>2. table'[q][v].frame # g /\ table[q][v].frame # g
      BY <1>1, <2>2, <3>1 DEF f
    <3>3. OwnersIn(table', g) = OwnersIn(table, g)
      BY <1>5, <3>2, OtherOwnersStay
    <3>. QED
      BY <1>7, <2>2, <3>1, <3>3 DEF Core, CountsExact
  <2>. QED
    BY <2>1, <2>2
<1>16. RootsExact'
  <2>1. ASSUME NEW s \in Spaces, root[s] # NoFrame, NEW r \in Spaces, NEW w \in VPages
        PROVE  table'[r][w].frame # root[s]
    BY <1>1, <1>3, <2>1 DEF Core, RootsExact
  <2>. QED
    BY <1>1, <1>4, <2>1 DEF Core, RootsExact
<1>17. NothingLeaks'
  <2>. SUFFICES ASSUME NEW g \in frames'
                PROVE  \/ g < FirstPages
                       \/ \E r \in Spaces : root[r] = g
                       \/ \E r \in Spaces, w \in VPages : table'[r][w].frame = g
    BY <1>4 DEF NothingLeaks
  <2>1. CASE g = out
    BY <1>1, <2>1
  <2>2. CASE g \in frames /\ g # out
    <3>1. ASSUME NEW r \in Spaces, NEW w \in VPages, table[r][w].frame = g
          PROVE  \E s \in Spaces, y \in VPages : table'[s][y].frame = g
      BY <1>1, <1>7, <3>1 DEF f
    <3>. QED
      BY <2>2, <3>1 DEF Core, NothingLeaks
  <2>. QED
    BY <1>1, <2>1, <2>2
<1>18. ImageLocked'
  BY <1>1 DEF Core, ImageLocked
<1>. QED
  BY <1>13, <1>14, <1>15, <1>16, <1>17, <1>18 DEF Core
(* A write fault: the count of the frame decides who keeps it. *)
LEMMA CopyOnWriteCore ==
    ASSUME TypeOK, LoopsInOrder, Core, NEW p \in Procs, NEW v \in VPages, CopyOnWrite(p, v)
    PROVE  Core'
<1>. DEFINE e == table[p][v]
            f == e.frame
<1>1. /\ p \in Spaces /\ p \in live /\ op = Idle /\ op' = op /\ root' = root
      /\ f # NoFrame /\ ~e.writable
  BY DEF CopyOnWrite, Present, Spaces
<1>2. f \in Frames /\ mem_refcounts[f] \in Nat
  BY <1>1, EntryFacts, CowAssumption DEF TypeOK
<1>3. mem_refcounts[f] # 0 /\ contents[f] \in Values
  BY <1>1 DEF Core, EntriesExact
<1>4. CASE mem_refcounts[f] = 1
  BY <1>4, KeepFrameCore
<1>5. CASE mem_refcounts[f] # 1
  <2>1. DecreaseReturns(f) # 0 /\ Decreased(f) = mem_refcounts[f] - 1
    BY <1>2, <1>3, <1>5 DEF DecreaseReturns, Decreased
  <2>. HIDE DEF e, f
  <2>2. PICK out \in Frames :
               /\ TakeFrame(out)
               /\ contents' = [contents EXCEPT ![out] = contents[f]]
               /\ table' = [table EXCEPT ![p][v] = FreshEntry(out)]
    BY <2>1 DEF CopyOnWrite, FreshEntry, e, f
  <2>3. mem_refcounts' = [mem_refcounts EXCEPT ![f] = mem_refcounts[f] - 1]
    BY <2>1 DEF CopyOnWrite, e, f
  <2>4. Released(p, v)
    BY <1>1, <1>3, <1>5, <2>3 DEF Released, e, f
  <2>5. out \in Frames \ frames /\ frames' = frames \cup {out}
    BY <2>2, TakeFrameTakesFree
  <2>6. LetGo(p, v, out, contents[f])
    BY <2>2, <2>4, <2>5 DEF LetGo
  <2>7. \A r \in Spaces, w \in VPages : r # p \/ w # v => table'[r][w] = table[r][w]
    BY <1>1, <1>3, <2>6, LetGoFacts
  <2>8. TablesInOrder'
    <3>1. root[p] # NoFrame
      BY <1>1 DEF LoopsInOrder
    <3>2. ASSUME NEW q \in Spaces, root[q] = NoFrame, NEW w \in VPages
          PROVE  table'[q][w] = NotPresent
      BY <2>7, <3>1, <3>2 DEF Core, TablesInOrder
    <3>. QED
      BY <1>1, <3>2 DEF TablesInOrder, Idle, Freeing
  <2>. QED
    BY <1>1, <1>3, <2>6, <2>8, LetGoCore
<1>. QED
  BY <1>4, <1>5

(* A store goes to a frame that nobody else maps; for the counts it does   *)
(* not matter where it goes.                                               *)
LEMMA StoreCore ==
    ASSUME TypeOK, Core, NEW p \in Procs, NEW v \in VPages, NEW x \in Values, Store(p, v, x)
    PROVE  Core'
<1>. DEFINE f == table[p][v].frame
<1>1. /\ contents' = [contents EXCEPT ![f] = x]
      /\ frames' = frames /\ mem_refcounts' = mem_refcounts /\ root' = root
      /\ table' = table /\ op' = op
  BY DEF Store
<1>. HIDE DEF f
<1>2. \A g \in Frames : contents[g] \in Values => contents'[g] \in Values
  BY <1>1 DEF TypeOK
<1>3. \A r \in Spaces, w \in VPages : table[r][w].frame \in Frames \cup {NoFrame}
  BY EntryFacts DEF TypeOK
<1>4. EntriesExact'
  BY <1>1, <1>2, <1>3 DEF Core, EntriesExact
<1>5. /\ frames' = frames /\ mem_refcounts' = mem_refcounts /\ root' = root
      /\ table' = table /\ op' = op
  BY <1>1
<1>. QED
  BY <1>4, <1>5 DEF Core, TablesInOrder, UncountedAlone, CountsExact, RootsExact,
                    NothingLeaks, ImageLocked, Freeing

(* sbrk with a negative size touches no page. *)
LEMMA NothingMovesCore ==
    ASSUME Core, UNCHANGED <<memVars, root, table, op>>
    PROVE  Core'
BY DEF Core, TablesInOrder, EntriesExact, UncountedAlone, CountsExact, RootsExact,
       NothingLeaks, ImageLocked, Freeing, memVars

(* mmu_free after the last entry: the frame of the directory goes too.     *)
LEMMA FreeEndCore ==
    ASSUME TypeOK, LoopsInOrder, Core, FreeEnd
    PROVE  Core'
<1>. DEFINE f == root[Dying]
<1>1. Freeing /\ op.page > NPages /\ op \in Ops /\ Dying \in Spaces
  BY DEF FreeEnd, Finished, TypeOK, Ops, Spaces
<1>2. f \in Frames /\ f # NoFrame
  BY <1>1, EntryFacts DEF LoopsInOrder, TypeOK
<1>3. \A v \in VPages : table[Dying][v] = NotPresent
  BY <1>1, CowAssumption DEF Core, TablesInOrder, VPages, Ops
<1>4. /\ frames' = frames \ {f}
      /\ contents' = [contents EXCEPT ![f] = Unmapped]
  BY <1>2, PutFrameReleases DEF FreeEnd
<1>5. /\ root'[Dying] = NoFrame /\ \A q \in Spaces \ {Dying} : root'[q] = root[q]
      /\ table' = table /\ mem_refcounts' = mem_refcounts
  BY <1>1 DEF FreeEnd, TypeOK
<1>6. /\ FirstPages <= f
      /\ \A r \in Spaces : root[r] = f => r = Dying
      /\ \A r \in Spaces, v \in VPages : table[r][v].frame # f
  BY <1>1, <1>2 DEF Core, RootsExact
<1>7. /\ op'.kind \in {"load", "idle"} /\ ~Freeing'
      /\ op'.kind = "load" => op.kind = "exec" /\ op'.proc = op.proc
  BY DEF FreeEnd, Loop, Idle, Freeing
<1>. HIDE DEF f
<1>8. TablesInOrder'
  <2>1. ASSUME NEW q \in Spaces, root'[q] = NoFrame, NEW v \in VPages
        PROVE  table[q][v] = NotPresent
    BY <1>3, <1>5, <2>1 DEF Core, TablesInOrder
  <2>2. op'.kind = "load" => \A v \in VPages : table[op'.proc][v] = NotPresent
    BY <1>7 DEF Core, TablesInOrder
  <2>. QED
    BY <1>5, <1>7, <2>1, <2>2 DEF TablesInOrder
<1>9. EntriesExact'
  <2>1. \A r \in Spaces, w \in VPages : table[r][w].frame \in Frames \cup {NoFrame}
    BY EntryFacts DEF TypeOK
  <2>2. \A g \in Frames \ {f} : contents'[g] = contents[g]
    BY <1>2, <1>4 DEF TypeOK
  <2>3. \A r \in Spaces, w \in VPages : table[r][w].frame # NoFrame =>
           /\ contents'[table[r][w].frame] = contents[table[r][w].frame]
           /\ table[r][w].frame \in frames => table[r][w].frame \in frames'
    BY <1>4, <1>6, <2>1, <2>2
  <2>. QED
    BY <1>5, <2>3 DEF Core, EntriesExact
<1>10. UncountedAlone' /\ CountsExact'
  BY <1>5 DEF Core, UncountedAlone, CountsExact
<1>11. RootsExact'
  BY <1>4, <1>5, <1>6 DEF Core, RootsExact
<1>12. NothingLeaks'
  <2>. SUFFICES ASSUME NEW g \in frames, g # f
                PROVE  \/ g < FirstPages
                       \/ \E q \in Spaces : root'[q] = g
                       \/ \E q \in Spaces, v \in VPages : table[q][v].frame = g
    BY <1>4, <1>5 DEF NothingLeaks
  <2>1. ASSUME NEW q \in Spaces, root[q] = g PROVE root'[q] = g
    BY <1>5, <2>1 DEF f
  <2>. QED
    BY <2>1 DEF Core, NothingLeaks
<1>13. ImageLocked'
  <2>1. FirstPages \in Int /\ f \in Int
    BY <1>2, CowAssumption, FrameAssumption DEF Frames
  <2>. QED
    BY <1>4, <1>6, <2>1 DEF Core, ImageLocked
<1>. QED
  BY <1>8, <1>9, <1>10, <1>11, <1>12, <1>13 DEF Core
(* mmu_free gives back the frame of an entry that is its only one.         *)
Freed(q, v) ==
    LET f == table[q][v].frame IN
    /\ f # NoFrame /\ mem_refcounts[f] \in {0, 1}
    /\ mem_refcounts' = [mem_refcounts EXCEPT ![f] = 0]
    /\ table' = [table EXCEPT ![q][v] = NotPresent]
    /\ root' = root
    /\ PutFrame(f)

(* Nobody else had the frame: it may be released. *)
LEMMA FreedCore ==
    ASSUME TypeOK, Core, NEW q \in Spaces, NEW v \in VPages, Freed(q, v), TablesInOrder'
    PROVE  Core'
<1>. DEFINE f == table[q][v].frame
<1>1. f \in Frames /\ f # NoFrame /\ root' = root
  BY EntryFacts DEF Freed, TypeOK
<1>2. /\ table'[q][v] = NotPresent
      /\ \A r \in Spaces, w \in VPages : r # q \/ w # v => table'[r][w] = table[r][w]
  BY EntryFacts, EntryStored DEF Freed, TypeOK
<1>3. \A r \in Spaces, w \in VPages : table[r][w].frame = f => r = q /\ w = v
  BY LastOwner DEF Freed
<1>4. mem_refcounts'[f] = 0 /\ \A g \in Frames \ {f} : mem_refcounts'[g] = mem_refcounts[g]
  BY <1>1 DEF Freed, TypeOK
<1>5. frames' = frames \ {f} /\ contents' = [contents EXCEPT ![f] = Unmapped]
  BY <1>1, PutFrameReleases DEF Freed
<1>6. \A g \in Frames \ {f} : contents'[g] = contents[g]
  BY <1>1, <1>5 DEF TypeOK
<1>7. f \in frames /\ FirstPages <= f
  BY <1>1 DEF Core, EntriesExact
<1>8. \A r \in Spaces, w \in VPages : table[r][w].frame \in Frames \cup {NoFrame}
  BY EntryFacts DEF TypeOK
<1>9. NotPresent.frame = NoFrame
  BY EntryFacts
<1>10. \A g \in frames' : g \in frames /\ g # f
  BY <1>5
<1>11. \A g \in frames : g # f => g \in frames'
  BY <1>5
<1>. HIDE DEF f
<1>12. \A r \in Spaces, w \in VPages :
          IF r = q /\ w = v THEN table'[r][w] = NotPresent
          ELSE table'[r][w] = table[r][w] /\ table[r][w].frame # f
  BY <1>2, <1>3
<1>13. EntriesExact'
  <2>. SUFFICES ASSUME NEW r \in Spaces, NEW w \in VPages
                PROVE  LET e == table'[r][w] IN
                       IF e.frame = NoFrame THEN e = NotPresent
                       ELSE /\ e.frame \in frames' /\ FirstPages <= e.frame
                            /\ contents'[e.frame] \in Values
                            /\ e.writable <=> mem_refcounts'[e.frame] = 0
                            /\ e.cow <=> mem_refcounts'[e.frame] # 0
    BY DEF EntriesExact
  <2>1. CASE r = q /\ w = v
    BY <1>9, <1>12, <2>1
  <2>2. CASE r # q \/ w # v
    <3>1. table'[r][w] = table[r][w] /\ table[r][w].frame # f
      BY <1>12, <2>2
    <3>2. table[r][w].frame # NoFrame =>
             /\ mem_refcounts'[table[r][w].frame] = mem_refcounts[table[r][w].frame]
             /\ contents'[table[r][w].frame] = contents[table[r][w].frame]
      BY <1>4, <1>6, <1>8, <3>1
    <3>. QED
      BY <1>11, <3>1, <3>2 DEF Core, EntriesExact
  <2>. QED
    BY <2>1, <2>2
<1>14. UncountedAlone'
  <2>. SUFFICES ASSUME NEW r \in Spaces, NEW s \in Spaces, NEW w \in VPages, NEW y \in VPages,
                       table'[r][w].frame # NoFrame,
                       table'[r][w].frame = table'[s][y].frame,
                       mem_refcounts'[table'[r][w].frame] = 0
                PROVE  r = s /\ w = y
    BY DEF UncountedAlone
  <2>1. /\ table'[r][w] = table[r][w] /\ table[r][w].frame # f
        /\ table'[s][y] = table[s][y]
    BY <1>9, <1>12
  <2>2. mem_refcounts[table[r][w].frame] = 0
    BY <1>4, <1>8, <2>1
  <2>. QED
    BY <2>1, <2>2 DEF Core, UncountedAlone
<1>15. CountsExact'
  <2>. SUFFICES ASSUME NEW g \in Frames, mem_refcounts'[g] # 0
                PROVE  OwnersIn(table', g) = mem_refcounts'[g]
    BY DEF CountsExact
  <2>1. g # f /\ mem_refcounts'[g] = mem_refcounts[g]
    BY <1>4
  <2>2. SameBut(table, table', q, v)
    BY <1>2 DEF SameBut
  <2>3. table'[q][v].frame # g /\ table[q][v].frame # g
    BY <1>2, <1>9, <2>1, EntryFacts DEF f
  <2>4. OwnersIn(table', g) = OwnersIn(table, g)
    BY <2>2, <2>3, OtherOwnersStay
  <2>. QED
    BY <2>1, <2>4 DEF Core, CountsExact
<1>16. RootsExact'
  <2>1. ASSUME NEW s \in Spaces, root[s] # NoFrame
        PROVE  /\ root[s] \in frames' /\ FirstPages <= root[s]
               /\ \A r \in Spaces : root[r] = root[s] => r = s
    <3>1. root[s] # f
      BY <2>1 DEF Core, RootsExact, f
    <3>. QED
      BY <1>11, <2>1, <3>1 DEF Core, RootsExact
  <2>2. ASSUME NEW s \in Spaces, root[s] # NoFrame, NEW r \in Spaces, NEW w \in VPages
        PROVE  table'[r][w].frame # root[s]
    BY <1>9, <1>12, <2>2 DEF Core, RootsExact
  <2>. QED
    BY <1>1, <2>1, <2>2 DEF RootsExact
<1>17. NothingLeaks'
  <2>. SUFFICES ASSUME NEW g \in frames, g # f
                PROVE  \/ g < FirstPages
                       \/ \E r \in Spaces : root[r] = g
                       \/ \E r \in Spaces, w \in VPages : table'[r][w].frame = g
    BY <1>1, <1>10 DEF NothingLeaks
  <2>1. ASSUME NEW r \in Spaces, NEW w \in VPages, table[r][w].frame = g
        PROVE  table'[r][w].frame = g
    BY <1>12, <2>1 DEF f
  <2>. QED
    BY <2>1 DEF Core, NothingLeaks
<1>18. ImageLocked'
  <2>1. FirstPages \in Int /\ f \in Int
    BY <1>1, CowAssumption, FrameAssumption DEF Frames
  <2>2. ~(f < FirstPages)
    BY <1>7, <2>1
  <2>. QED
    BY <1>11, <2>2 DEF Core, ImageLocked
<1>. QED
  BY <1>13, <1>14, <1>15, <1>16, <1>17, <1>18 DEF Core

(* An iteration of the loop of mmu_free.                                   *)
LEMMA FreePageCore ==
    ASSUME TypeOK, LoopsInOrder, Core, FreePage
    PROVE  Core'
<1>. DEFINE v == op.page
            e == table[Dying][v]
            f == e.frame
<1>1. op \in Ops /\ v \in VPages /\ Dying \in Spaces /\ Freeing /\ root[Dying] # NoFrame
  BY OpFacts DEF FreePage, TypeOK, Ops, Spaces, LoopsInOrder
<1>2. /\ op'.kind = op.kind /\ op'.proc = op.proc /\ op'.page = v + 1
      /\ root' = root /\ table' = [table EXCEPT ![Dying][v] = NotPresent]
  BY <1>1, OpFacts DEF FreePage
<1>3. e \in Entry /\ f \in Frames \cup {NoFrame}
  BY <1>1, EntryFacts DEF TypeOK
<1>4. IF Present(e) /\ ~e.writable
        THEN mem_refcounts' = [mem_refcounts EXCEPT ![f] = Decreased(f)]
        ELSE UNCHANGED mem_refcounts
  BY DEF FreePage
<1>5. IF Present(e) /\ (e.writable \/ DecreaseReturns(f) = 0)
        THEN PutFrame(f)
        ELSE UNCHANGED <<frames, lowest_available, contents>>
  BY DEF FreePage
<1>6. /\ table'[Dying][v] = NotPresent
      /\ \A r \in Spaces, w \in VPages : r # Dying \/ w # v => table'[r][w] = table[r][w]
  BY <1>1, <1>2, EntryFacts, EntryStored DEF TypeOK
<1>7. f # NoFrame => (e.writable <=> mem_refcounts[f] = 0) /\ (e.writable \in BOOLEAN)
  BY <1>1, <1>3, EntryFacts DEF Core, EntriesExact
<1>8. TablesInOrder'
  <2>1. ASSUME NEW q \in Spaces, root[q] = NoFrame, NEW w \in VPages
        PROVE  table'[q][w] = NotPresent
    BY <1>1, <1>6, <2>1 DEF Core, TablesInOrder
  <2>2. ASSUME NEW w \in VPages, w < v + 1 PROVE table'[Dying][w] = NotPresent
    <3>1. w < v \/ w = v
      BY <1>1, <2>2 DEF VPages
    <3>. QED
      BY <1>1, <1>6, <3>1 DEF Core, TablesInOrder
  <2>3. op.kind = "exec" => op.proc # Dying
    BY CowAssumption DEF LoopsInOrder
  <2>4. op.kind = "exec" => op.proc \in Spaces
    BY DEF LoopsInOrder, Spaces
  <2>5. op.kind = "exec" => \A w \in VPages : table'[op.proc][w] = NotPresent
    BY <1>6, <2>3, <2>4 DEF Core, TablesInOrder
  <2>6. op'.kind \notin {"load", "fork"}
    BY <1>1, <1>2 DEF Freeing
  <2>. QED
    BY <1>2, <2>1, <2>2, <2>5, <2>6 DEF TablesInOrder
<1>9. CASE f = NoFrame
  <2>1. mem_refcounts' = mem_refcounts /\ frames' = frames /\ contents' = contents
    BY <1>4, <1>5, <1>9 DEF Present
  <2>2. e = NotPresent
    BY <1>1, <1>9 DEF Core, EntriesExact
  <2>. HIDE DEF v
  <2>3. table' = table
    BY <1>1, <1>2, <2>2 DEF TypeOK
  <2>. QED
    BY <1>2, <1>8, <2>1, <2>3 DEF Core, EntriesExact, UncountedAlone, CountsExact, RootsExact,
                                  NothingLeaks, ImageLocked
<1>10. CASE f # NoFrame /\ mem_refcounts[f] \in {0, 1}
  <2>0. f \in Frames
    BY <1>3, <1>10
  <2>1. PutFrame(f) /\ mem_refcounts' = [mem_refcounts EXCEPT ![f] = 0]
    <3>1. CASE mem_refcounts[f] = 0
      <4>1. e.writable /\ Present(e)
        BY <1>7, <1>10, <3>1 DEF Present
      <4>2. PutFrame(f) /\ mem_refcounts' = mem_refcounts
        BY <1>4, <1>5, <4>1
      <4>3. mem_refcounts = [mem_refcounts EXCEPT ![f] = 0]
        BY <2>0, <3>1 DEF TypeOK
      <4>. QED
        BY <4>2, <4>3
    <3>2. CASE mem_refcounts[f] = 1
      <4>1. ~e.writable /\ Present(e)
        BY <1>7, <1>10, <3>2 DEF Present
      <4>2. DecreaseReturns(f) = 0 /\ Decreased(f) = 0
        BY <3>2 DEF DecreaseReturns, Decreased
      <4>. QED
        BY <1>4, <1>5, <4>1, <4>2
    <3>. QED
      BY <1>10, <3>1, <3>2
  <2>2. Freed(Dying, v)
    BY <1>2, <1>10, <2>1 DEF Freed
  <2>. QED
    BY <1>1, <1>8, <2>2, FreedCore
<1>11. CASE f # NoFrame /\ mem_refcounts[f] \notin {0, 1}
  <2>0. f \in Frames /\ mem_refcounts[f] \in Nat
    BY <1>3, <1>11, CowAssumption DEF TypeOK
  <2>1. ~e.writable /\ Present(e)
    BY <1>7, <1>11 DEF Present
  <2>2. DecreaseReturns(f) # 0 /\ Decreased(f) = mem_refcounts[f] - 1
    BY <1>11, <2>0 DEF DecreaseReturns, Decreased
  <2>3. /\ mem_refcounts' = [mem_refcounts EXCEPT ![f] = mem_refcounts[f] - 1]
        /\ frames' = frames /\ contents' = contents
    BY <1>4, <1>5, <2>1, <2>2
  <2>4. Released(Dying, v)
    BY <1>2, <1>11, <2>3 DEF Released
  <2>5. PICK x \in Values : TRUE
    BY CowAssumption
  <2>6. LetGo(Dying, v, NoFrame, x)
    BY <1>2, <2>3, <2>4 DEF LetGo
  <2>. QED
    BY <1>1, <1>8, <2>6, LetGoCore
<1>. QED
  BY <1>9, <1>10, <1>11
(* fork lets the child have the frame as well: from then on the entry is   *)
(* read-only on both sides.                                                *)
SharedEntry(f) == [frame |-> f, writable |-> FALSE, cow |-> TRUE]

Shared(p, c, v) ==
    LET f == table[p][v].frame IN
    /\ f # NoFrame /\ p # c /\ table[c][v] = NotPresent
    /\ mem_refcounts' = [mem_refcounts EXCEPT ![f] =
                            IF mem_refcounts[f] = 0 THEN 2 ELSE mem_refcounts[f] + 1]
    /\ \A r \in Spaces, w \in VPages :
          table'[r][w] = IF r \in {p, c} /\ w = v THEN SharedEntry(f) ELSE table[r][w]
    /\ frames' = frames /\ contents' = contents /\ root' = root

(* The count grows by the child's entry; the first time, from one owner    *)
(* without a count to two with one.                                        *)
LEMMA SharedCore ==
    ASSUME TypeOK, Core, NEW p \in Spaces, NEW c \in Spaces, NEW v \in VPages, Shared(p, c, v),
           TablesInOrder'
    PROVE  Core'
<1>. DEFINE f == table[p][v].frame
            k == mem_refcounts[f]
<1>1. /\ f # NoFrame /\ p # c /\ table[c][v].frame = NoFrame
      /\ frames' = frames /\ contents' = contents /\ root' = root
  BY EntryFacts DEF Shared
<1>2. f \in Frames /\ k \in Nat
  BY <1>1, EntryFacts, CowAssumption DEF TypeOK
<1>3. /\ mem_refcounts'[f] = IF k = 0 THEN 2 ELSE k + 1
      /\ \A g \in Frames \ {f} : mem_refcounts'[g] = mem_refcounts[g]
  BY <1>2 DEF Shared, TypeOK
<1>4. \A r \in Spaces, w \in VPages :
         table'[r][w] = IF r \in {p, c} /\ w = v THEN SharedEntry(f) ELSE table[r][w]
  BY DEF Shared
<1>5. /\ SharedEntry(f).frame = f /\ SharedEntry(f).writable = FALSE
      /\ SharedEntry(f).cow = TRUE
  BY DEF SharedEntry
<1>6. mem_refcounts'[f] # 0
  BY <1>2, <1>3
<1>7. \A r \in Spaces, w \in VPages : table[r][w].frame \in Frames \cup {NoFrame}
  BY EntryFacts DEF TypeOK
<1>8. f \in frames /\ FirstPages <= f /\ contents[f] \in Values
  BY <1>1 DEF Core, EntriesExact
<1>9. table'[p][v].frame = f /\ table'[c][v].frame = f
  BY <1>4, <1>5
<1>10. \A r \in Spaces, w \in VPages :
          r # c \/ w # v => table'[r][w].frame = table[r][w].frame
  BY <1>4, <1>5
<1>11. ASSUME NEW r \in Spaces, NEW w \in VPages, table[r][w].frame = f, k = 0
       PROVE  r = p /\ w = v
  BY <1>1, <1>11 DEF Core, UncountedAlone
<1>. HIDE DEF f, k
<1>12. EntriesExact'
  <2>. SUFFICES ASSUME NEW r \in Spaces, NEW w \in VPages
                PROVE  LET e == table'[r][w] IN
                       IF e.frame = NoFrame THEN e = NotPresent
                       ELSE /\ e.frame \in frames /\ FirstPages <= e.frame
                            /\ contents[e.frame] \in Values
                            /\ e.writable <=> mem_refcounts'[e.frame] = 0
                            /\ e.cow <=> mem_refcounts'[e.frame] # 0
    BY <1>1 DEF EntriesExact
  <2>1. CASE r \in {p, c} /\ w = v
    BY <1>1, <1>4, <1>5, <1>6, <1>8, <2>1
  <2>2. CASE ~(r \in {p, c} /\ w = v)
    <3>1. table'[r][w] = table[r][w]
      BY <1>4, <2>2
    <3>2. table[r][w].frame # NoFrame =>
             (mem_refcounts'[table[r][w].frame] = 0 <=> mem_refcounts[table[r][w].frame] = 0)
      <4>1. CASE table[r][w].frame = f
        BY <1>6, <1>11, <2>2, <4>1 DEF k
      <4>2. CASE table[r][w].frame # f
        BY <1>3, <1>7, <4>2
      <4>. QED
        BY <4>1, <4>2
    <3>. QED
      BY <3>1, <3>2 DEF Core, EntriesExact
  <2>. QED
    BY <2>1, <2>2
<1>13. UncountedAlone'
  <2>. SUFFICES ASSUME NEW r \in Spaces, NEW s \in Spaces, NEW w \in VPages, NEW y \in VPages,
                       table'[r][w].frame # NoFrame,
                       table'[r][w].frame = table'[s][y].frame,
                       mem_refcounts'[table'[r][w].frame] = 0
                PROVE  r = s /\ w = y
    BY DEF UncountedAlone
  <2>1. table'[r][w].frame # f
    BY <1>6
  <2>2. (r # c \/ w # v) /\ (s # c \/ y # v)
    BY <1>9, <2>1
  <2>3. table'[r][w].frame = table[r][w].frame /\ table'[s][y].frame = table[s][y].frame
    BY <1>10, <2>2
  <2>4. mem_refcounts[table[r][w].frame] = 0
    BY <1>3, <1>7, <2>1, <2>3
  <2>5. table[r][w].frame # NoFrame /\ table[r][w].frame = table[s][y].frame
    BY <2>3
  <2>. QED
    BY <2>4, <2>5 DEF Core, UncountedAlone
<1>14. CountsExact'
  <2>. SUFFICES ASSUME NEW g \in Frames, mem_refcounts'[g] # 0
                PROVE  OwnersIn(table', g) = mem_refcounts'[g]
    BY DEF CountsExact
  <2>1. SameBut(table, table', c, v)
    BY <1>10 DEF SameBut
  <2>2. CASE g = f
    <3>1. OwnersIn(table, f) = IF k = 0 THEN 1 ELSE k
      <4>1. CASE k = 0
        <5>1. OwnersIn(table, f) = 1
          BY <1>11, <4>1, OneOwner DEF f
        <5>. QED
          BY <4>1, <5>1
      <4>2. CASE k # 0
        BY <1>2, <4>2 DEF Core, CountsExact, k
      <4>. QED
        BY <4>1, <4>2
    <3>2. OwnersIn(table', f) = OwnersIn(table, f) + 1
      <4>1. table'[c][v].frame = f /\ table[c][v].frame # f
        BY <1>1, <1>9
      <4>. QED
        BY <2>1, <4>1, OwnersAfterStore
    <3>. QED
      BY <1>2, <1>3, <2>2, <3>1, <3>2
  <2>3. CASE g # f
    <3>1. table'[c][v].frame # g /\ table[c][v].frame # g
      BY <1>1, <1>9, <2>3, EntryFacts
    <3>2. OwnersIn(table', g) = OwnersIn(table, g)
      BY <2>1, <3>1, OtherOwnersStay
    <3>. QED
      BY <1>3, <2>3, <3>2 DEF Core, CountsExact
  <2>. QED
    BY <2>2, <2>3
<1>15. RootsExact'
  <2>1. ASSUME NEW s \in Spaces, root[s] # NoFrame, NEW r \in Spaces, NEW w \in VPages
        PROVE  table'[r][w].frame # root[s]
    <3>1. root[s] # f /\ table[r][w].frame # root[s]
      BY <2>1 DEF Core, RootsExact, f
    <3>. QED
      BY <1>9, <1>10, <3>1
  <2>. QED
    BY <1>1, <2>1 DEF Core, RootsExact
<1>16. NothingLeaks'
  <2>. SUFFICES ASSUME NEW g \in frames
                PROVE  \/ g < FirstPages
                       \/ \E r \in Spaces : root[r] = g
                       \/ \E r \in Spaces, w \in VPages : table'[r][w].frame = g
    BY <1>1 DEF NothingLeaks
  <2>1. g # NoFrame
    BY EntryFacts DEF TypeOK
  <2>2. ASSUME NEW r \in Spaces, NEW w \in VPages, table[r][w].frame = g
        PROVE  table'[r][w].frame = g
    BY <1>1, <1>10, <2>1, <2>2
  <2>. QED
    BY <2>2 DEF Core, NothingLeaks
<1>17. ImageLocked'
  BY <1>1 DEF Core, ImageLocked
<1>. QED
  BY <1>12, <1>13, <1>14, <1>15, <1>16, <1>17 DEF Core

(* An iteration of the loop of mmu_clone, unless a count was saturated.    *)
LEMMA CopyPageCore ==
    ASSUME TypeOK, LoopsInOrder, Core, CopyPage, ~tainted'
    PROVE  Core'
<1>. DEFINE p == op.proc
            c == op.child
            v == op.page
            e == table[p][v]
            f == e.frame
<1>1. /\ op \in Ops /\ v \in VPages /\ p \in Spaces /\ c \in Spaces /\ p # c
      /\ op.kind = "fork" /\ root[p] # NoFrame /\ root[c] # NoFrame
  BY OpFacts DEF CopyPage, TypeOK, Ops, LoopsInOrder
<1>2. /\ op'.kind = "fork" /\ op'.proc = p /\ op'.child = c /\ op'.page = v + 1
      /\ root' = root
  BY <1>1, OpFacts DEF CopyPage
<1>3. e \in Entry /\ f \in Frames \cup {NoFrame}
  BY <1>1, EntryFacts DEF TypeOK
<1>4. table[c][v] = NotPresent
  BY <1>1 DEF Core, TablesInOrder, VPages
<1>5. f # NoFrame => /\ e.writable <=> mem_refcounts[f] = 0
                     /\ e.cow <=> mem_refcounts[f] # 0
  BY <1>1 DEF Core, EntriesExact
<1>6. ~CopySaturated(e) /\ (CopyNothing(e) \/ ShareFirst(e) \/ ShareAgain(e))
  BY DEF CopyPage, CopySaturated
<1>7. ASSUME table'[p][v].frame = f, table'[c][v].frame = f,
             \A r \in Spaces, w \in VPages : r \notin {p, c} \/ w # v
                                                => table'[r][w] = table[r][w]
      PROVE  TablesInOrder'
  <2>1. ASSUME NEW q \in Spaces, root[q] = NoFrame, NEW w \in VPages
        PROVE  table'[q][w] = NotPresent
    BY <1>1, <1>7, <2>1 DEF Core, TablesInOrder
  <2>2. ASSUME NEW w \in VPages
        PROVE  IF w < v + 1 THEN table'[c][w].frame = table'[p][w].frame
                            ELSE table'[c][w] = NotPresent
    <3>1. CASE w = v
      BY <1>1, <1>7, <3>1 DEF VPages
    <3>2. CASE w # v
      <4>1. table'[c][w] = table[c][w] /\ table'[p][w] = table[p][w]
        BY <1>1, <1>7, <3>2
      <4>2. w < v + 1 <=> w < v
        BY <1>1, <3>2 DEF VPages
      <4>. QED
        BY <1>1, <4>1, <4>2 DEF Core, TablesInOrder
    <3>. QED
      BY <3>1, <3>2
  <2>. QED
    BY <1>2, <2>1, <2>2 DEF TablesInOrder, Freeing
<1>8. ASSUME Shared(p, c, v) PROVE Core'
  <2>1. /\ SharedEntry(f).frame = f
        /\ \A r \in Spaces, w \in VPages :
              table'[r][w] = IF r \in {p, c} /\ w = v THEN SharedEntry(f) ELSE table[r][w]
    BY <1>8 DEF Shared, SharedEntry
  <2>. HIDE DEF p, c, v, f
  <2>2. TablesInOrder'
    BY <1>1, <1>7, <2>1
  <2>. QED
    BY <1>1, <1>8, <2>2, SharedCore
<1>9. CASE CopyNothing(e)
  <2>1. f = NoFrame
    BY <1>5, <1>9 DEF CopyNothing, Present
  <2>2. /\ table' = table /\ frames' = frames /\ mem_refcounts' = mem_refcounts
        /\ contents' = contents
    BY <1>9 DEF CopyNothing, memVars
  <2>3. TablesInOrder'
    BY <1>4, <1>7, <2>1, <2>2, EntryFacts
  <2>. QED
    BY <1>2, <2>2, <2>3 DEF Core, EntriesExact, UncountedAlone, CountsExact, RootsExact,
                            NothingLeaks, ImageLocked
<1>10. CASE ShareFirst(e)
  <2>. DEFINE n == [e EXCEPT !.writable = FALSE, !.cow = TRUE]
              t == [table EXCEPT ![p][v] = n]
  <2>1. /\ f # NoFrame /\ mem_refcounts[f] = 0
        /\ mem_refcounts' = [mem_refcounts EXCEPT ![f] = 2]
        /\ table' = [t EXCEPT ![c][v] = n]
        /\ frames' = frames /\ contents' = contents
    BY <1>10 DEF ShareFirst, Present
  <2>2. n = SharedEntry(f) /\ n \in Entry
    <3>1. n \in Entry /\ n.frame = f /\ n.writable = FALSE /\ n.cow = TRUE
      BY <1>3 DEF Entry
    <3>. QED
      BY <3>1, EntryFacts DEF SharedEntry
  <2>. HIDE DEF n, p, c, v, f, e
  <2>3. /\ t \in [Spaces -> [VPages -> Entry]]
        /\ t[p][v] = n
        /\ \A r \in Spaces, w \in VPages : r # p \/ w # v => t[r][w] = table[r][w]
    BY <1>1, <2>2, EntryStored DEF TypeOK
  <2>. HIDE DEF t
  <2>4. /\ table'[c][v] = n
        /\ \A r \in Spaces, w \in VPages : r # c \/ w # v => table'[r][w] = t[r][w]
    BY <1>1, <2>1, <2>2, <2>3, EntryStored
  <2>5. \A r \in Spaces, w \in VPages :
          table'[r][w] = IF r \in {p, c} /\ w = v THEN SharedEntry(f) ELSE table[r][w]
    BY <1>1, <2>2, <2>3, <2>4
  <2>6. mem_refcounts' = [mem_refcounts EXCEPT ![f] =
                             IF mem_refcounts[f] = 0 THEN 2 ELSE mem_refcounts[f] + 1]
    BY <2>1
  <2>7. f # NoFrame /\ frames' = frames /\ contents' = contents
    BY <2>1
  <2>8. Shared(p, c, v)
    BY <1>1, <1>2, <1>4, <2>5, <2>6, <2>7 DEF Shared, f, e
  <2>. QED
    BY <1>8, <2>8
<1>11. CASE ShareAgain(e)
  <2>1. /\ f # NoFrame /\ e.writable = FALSE
        /\ mem_refcounts' = [mem_refcounts EXCEPT ![f] = mem_refcounts[f] + 1]
        /\ table' = [table EXCEPT ![c][v] = e]
        /\ frames' = frames /\ contents' = contents
    BY <1>3, <1>11, EntryFacts DEF ShareAgain, Present
  <2>2. mem_refcounts[f] # 0 /\ e.cow = TRUE
    BY <1>3, <1>5, <2>1, EntryFacts
  <2>3. e = SharedEntry(f)
    BY <1>3, <2>1, <2>2, EntryFacts DEF SharedEntry
  <2>. HIDE DEF p, c, v, f
  <2>4. /\ table'[c][v] = e
        /\ \A r \in Spaces, w \in VPages : r # c \/ w # v => table'[r][w] = table[r][w]
    BY <1>1, <1>3, <2>1, EntryStored DEF TypeOK
  <2>5. \A r \in Spaces, w \in VPages :
          table'[r][w] = IF r \in {p, c} /\ w = v THEN SharedEntry(f) ELSE table[r][w]
    BY <1>1, <2>3, <2>4
  <2>6. mem_refcounts' = [mem_refcounts EXCEPT ![f] =
                             IF mem_refcounts[f] = 0 THEN 2 ELSE mem_refcounts[f] + 1]
    BY <2>1, <2>2
  <2>7. f # NoFrame /\ frames' = frames /\ contents' = contents
    BY <2>1
  <2>8. Shared(p, c, v)
    BY <1>1, <1>2, <1>4, <2>5, <2>6, <2>7 DEF Shared, f
  <2>. QED
    BY <1>8, <2>8
<1>. QED
  BY <1>6, <1>9, <1>10, <1>11
-----------------------------------------------------------------------------
(* A count that saturated, or a shared page that sbrk made writable, stays *)
(* so recorded.                                                            *)
LEMMA TaintStays ==
    ASSUME TypeOK, [Next]_vars, ~tainted'
    PROVE  ~tainted
<1>1. tainted' = tainted \/ tainted' = TRUE \/ \E b \in BOOLEAN : tainted' = (tainted \/ b)
  <2>1. ASSUME NEW p \in Procs, Sbrk(p)
        PROVE  tainted' = tainted \/ \E b \in BOOLEAN : tainted' = (tainted \/ b)
    <3>. DEFINE v == heap[p] + 1
                e == table[p][v]
    <3>1. e.writable \in BOOLEAN
      BY <2>1, SbrkType, EntryFacts DEF TypeOK, Spaces
    <3>. HIDE DEF v, e
    <3>2. tainted' = tainted \/ tainted' = (tainted \/ ~e.writable)
      BY <2>1 DEF Sbrk, v, e
    <3>. QED
      BY <3>1, <3>2
  <2>2. CASE CopyPage
    BY <2>2 DEF CopyPage, CopyNothing, ShareFirst, ShareAgain, CopySaturated
  <2>3. ASSUME NEW p \in Procs,
               \/ \E c \in Procs : ForkStart(p, c)
               \/ ExitStart(p) \/ ExecStart(p) \/ SbrkDown(p)
               \/ \E v \in VPages : CopyOnWrite(p, v) \/ \E x \in Values : Store(p, v, x)
        PROVE  tainted' = tainted
    BY <2>3 DEF ForkStart, ExitStart, ExecStart, SbrkDown, CopyOnWrite, Store
  <2>4. CASE ForkEnd \/ FreePage \/ FreeEnd \/ LoadPage \/ LoadEnd \/ UNCHANGED vars
    BY <2>4 DEF ForkEnd, FreePage, FreeEnd, LoadPage, LoadEnd, vars
  <2>. QED
    BY <2>1, <2>2, <2>3, <2>4 DEF Next
<1>. QED
  BY <1>1 DEF TypeOK

(* Every step keeps the invariant.                                         *)
LEMMA CoreStays ==
    ASSUME TypeOK, LoopsInOrder, Core, [Next]_vars, ~tainted'
    PROVE  Core'
<1>1. ASSUME NEW p \in Procs, NEW c \in Procs, ForkStart(p, c) PROVE Core'
  BY <1>1, ForkStartCore
<1>2. ASSUME NEW p \in Procs, ExitStart(p) \/ ExecStart(p) \/ Sbrk(p) PROVE Core'
  BY <1>2, ExitStartCore, ExecStartCore, SbrkCore
<1>3. ASSUME NEW p \in Procs, SbrkDown(p) PROVE Core'
  BY <1>3, NothingMovesCore DEF SbrkDown
<1>4. ASSUME NEW p \in Procs, NEW v \in VPages, CopyOnWrite(p, v) PROVE Core'
  BY <1>4, CopyOnWriteCore
<1>5. ASSUME NEW p \in Procs, NEW v \in VPages, NEW x \in Values, Store(p, v, x) PROVE Core'
  BY <1>5, StoreCore
<1>6. CASE CopyPage
  BY <1>6, CopyPageCore
<1>7. CASE ForkEnd \/ LoadEnd
  BY <1>7, ForkEndCore
<1>8. CASE FreePage
  BY <1>8, FreePageCore
<1>9. CASE FreeEnd
  BY <1>9, FreeEndCore
<1>10. CASE LoadPage
  BY <1>10, LoadPageCore
<1>11. CASE UNCHANGED vars
  BY <1>11, NothingMovesCore DEF vars
<1>. QED
  BY <1>1, <1>2, <1>3, <1>4, <1>5, <1>6, <1>7, <1>8, <1>9, <1>10, <1>11 DEF Next

(* The inductive invariant holds in every state. *)
LEMMA InvariantHolds == Spec => []IInv
<1>1. Init => IInv
  BY InitType, InitLoops, InitCore DEF IInv
<1>2. IInv /\ [Next]_vars => IInv'
  BY TypesStay, LoopsStayInOrder, TaintStays, CoreStays DEF IInv
<1>. QED
  BY <1>1, <1>2, PTL DEF Spec

(* The counts of the frames are exact, whatever fork, exit, exec, sbrk and *)
(* write faults do and wherever their loops are: a frame without a count   *)
(* has one entry, that its owner may write through, any other as many      *)
(* entries as its count, none of them writable.                            *)
THEOREM CountsAreExact == Spec => []RefcountExact
<1>1. ASSUME IInv PROVE RefcountExact
  <2>. SUFFICES ASSUME Core, TypeOK, NEW f \in Frames, Mappings(f) # {}
       PROVE IF mem_refcounts[f] = 0
            THEN \E m \in Mappings(f) :
                   /\ Mappings(f) = {m}
                   /\ table[m[1]][m[2]].writable /\ ~table[m[1]][m[2]].cow
            ELSE /\ Cardinality(Mappings(f)) = mem_refcounts[f]
                 /\ \A m \in Mappings(f) :
                      ~table[m[1]][m[2]].writable /\ table[m[1]][m[2]].cow
    BY <1>1 DEF IInv, RefcountExact, Mapped
  <2>1. Mappings(f) = MappingsIn(table, f) /\ f # NoFrame
    BY EntryFacts DEF Mappings, MappingsIn
  <2>2. ASSUME NEW m \in Mappings(f)
        PROVE  /\ m[1] \in Spaces /\ m[2] \in VPages /\ m = <<m[1], m[2]>>
               /\ table[m[1]][m[2]].frame = f
               /\ table[m[1]][m[2]].writable <=> mem_refcounts[f] = 0
               /\ table[m[1]][m[2]].cow <=> mem_refcounts[f] # 0
    <3>1. /\ m[1] \in Spaces /\ m[2] \in VPages /\ m = <<m[1], m[2]>>
          /\ table[m[1]][m[2]].frame = f
      BY <2>1, MappingsArePairs
    <3>. QED
      BY <2>1, <3>1 DEF Core, EntriesExact
  <2>3. CASE mem_refcounts[f] = 0
    <3>1. PICK m \in Mappings(f) : TRUE
      OBVIOUS
    <3>2. ASSUME NEW n \in Mappings(f) PROVE n = m
      <4>1. n[1] = m[1] /\ n[2] = m[2]
        BY <2>1, <2>2, <2>3 DEF Core, UncountedAlone
      <4>. QED
        BY <2>2, <4>1
    <3>3. Mappings(f) = {m}
      BY <3>2
    <3>. QED
      BY <2>2, <2>3, <3>3
  <2>4. CASE mem_refcounts[f] # 0
    <3>1. Cardinality(Mappings(f)) = mem_refcounts[f]
      BY <2>1, <2>4 DEF Core, CountsExact, OwnersIn
    <3>. QED
      BY <2>2, <2>4, <3>1
  <2>. QED
    BY <2>3, <2>4
<1>. QED
  BY <1>1, InvariantHolds, PTL

(* The frames that are locked are those of the image, of the directories   *)
(* and of the pages, and no frame is two of these: nothing is handed out   *)
(* twice and nothing leaks.                                                *)
THEOREM FramesAreAccounted == Spec => []FramesAccounted
<1>1. ASSUME IInv, ~tainted
      PROVE  /\ Mapped \cup Roots \subseteq frames \ (0 .. FirstPages - 1)
             /\ Mapped \cap Roots = {}
             /\ \A q, r \in Spaces : root[q] = root[r] /\ root[q] # NoFrame => q = r
             /\ frames \subseteq Mapped \cup Roots \cup 0 .. FirstPages - 1
  <2>. USE <1>1 DEF IInv, Core
  <2>0. FirstPages \in Nat /\ Frames \subseteq Nat
    BY CowAssumption, FrameAssumption DEF Frames
  <2>1. ASSUME NEW f \in Mapped
        PROVE  /\ f \in frames \ (0 .. FirstPages - 1)
               /\ \A q \in Spaces : root[q] # f
    <3>1. PICK m \in Mappings(f) : TRUE
      BY DEF Mapped
    <3>2. m[1] \in Spaces /\ m[2] \in VPages /\ table[m[1]][m[2]].frame = f /\ f # NoFrame
      BY EntryFacts DEF Mappings, Mapped
    <3>3. f \in frames /\ FirstPages <= f
      BY <3>2 DEF EntriesExact
    <3>4. f \notin 0 .. FirstPages - 1
      BY <2>0, <3>3 DEF TypeOK
    <3>5. \A q \in Spaces : root[q] # f
      BY <3>2 DEF RootsExact
    <3>. QED
      BY <3>3, <3>4, <3>5
  <2>2. ASSUME NEW f \in Roots
        PROVE  f \in frames \ (0 .. FirstPages - 1) /\ f \notin Mapped
    <3>1. PICK q \in Spaces : root[q] = f /\ f # NoFrame
      BY DEF Roots
    <3>2. f \in frames /\ FirstPages <= f
      BY <3>1 DEF RootsExact
    <3>3. f \notin 0 .. FirstPages - 1
      BY <2>0, <3>2 DEF TypeOK
    <3>. QED
      BY <2>1, <3>1, <3>2, <3>3
  <2>3. \A q, r \in Spaces : root[q] = root[r] /\ root[q] # NoFrame => q = r
    BY DEF RootsExact
  <2>4. ASSUME NEW f \in frames PROVE f \in Mapped \cup Roots \cup 0 .. FirstPages - 1
    <3>0. f \in Frames /\ f \in Nat /\ f # NoFrame
      BY <2>0, EntryFacts DEF TypeOK
    <3>1. CASE f < FirstPages
      BY <2>0, <3>0, <3>1
    <3>2. ASSUME NEW q \in Spaces, root[q] = f PROVE f \in Roots
      BY <3>0, <3>2 DEF Roots
    <3>3. ASSUME NEW q \in Spaces, NEW v \in VPages, table[q][v].frame = f PROVE f \in Mapped
      <4>1. <<q, v>> \in Mappings(f)
        BY <3>3 DEF Mappings
      <4>. QED
        BY <3>0, <4>1 DEF Mapped
    <3>. QED
      BY <3>1, <3>2, <3>3 DEF NothingLeaks
  <2>. QED
    BY <2>1, <2>2, <2>3, <2>4
<1>2. IInv => FramesAccounted
  BY <1>1 DEF FramesAccounted, UsedFramesLocked, NoFrameLeaks
<1>. QED
  BY <1>2, InvariantHolds, PTL
-----------------------------------------------------------------------------
(* The implementation of private memory.  What process q reads at page v   *)
(* through the tables t, when the frames hold cs; and what it sees if l    *)
(* are the live processes.                                                 *)
SeenIn(t, cs, q, v) == IF t[q][v].frame = NoFrame THEN Unmapped ELSE cs[t[q][v].frame]
ViewIn(t, cs, l, q) == IF q \notin l THEN NoMemory ELSE [v \in VPages |-> SeenIn(t, cs, q, v)]
Views == [p \in Procs |-> View(p)]
Memories == [VPages -> Values \cup {Unmapped}]

(* A process has a memory as long as it lives. *)
LEMMA ViewInFacts ==
    ASSUME NEW t \in Tables, NEW cs \in [Frames -> Values \cup {Unmapped}], NEW l,
           NEW q \in Procs
    PROVE  /\ q \notin l => ViewIn(t, cs, l, q) = NoMemory
           /\ q \in l => /\ ViewIn(t, cs, l, q) \in Memories
                         /\ ViewIn(t, cs, l, q) # NoMemory
                         /\ \A v \in VPages : ViewIn(t, cs, l, q)[v] = SeenIn(t, cs, q, v)
<1>1. ASSUME NEW v \in VPages PROVE SeenIn(t, cs, q, v) \in Values \cup {Unmapped}
  <2>1. t[q][v].frame \in Frames \cup {NoFrame}
    BY EntryFacts DEF Tables, Spaces
  <2>. QED
    BY <2>1 DEF SeenIn
<1>2. [v \in VPages |-> SeenIn(t, cs, q, v)] \in Memories
  BY <1>1 DEF Memories
<1>3. NoMemory \notin Memories
  BY CowAssumption DEF Memories, VPages
<1>. QED
  BY <1>2, <1>3 DEF ViewIn

(* The same for the memories of this state and of the next one.            *)
LEMMA ViewsFacts ==
    ASSUME TypeOK, TypeOK', NEW q \in Procs
    PROVE  /\ q \notin live => Views[q] = NoMemory
           /\ q \in live => /\ Views[q] \in Memories /\ Views[q] # NoMemory
                            /\ \A v \in VPages : Views[q][v] = SeenIn(table, contents, q, v)
           /\ q \notin live' => Views'[q] = NoMemory
           /\ q \in live' => /\ Views'[q] \in Memories /\ Views'[q] # NoMemory
                             /\ \A v \in VPages : Views'[q][v] = SeenIn(table', contents', q, v)
<1>1. Views[q] = ViewIn(table, contents, live, q)
  BY DEF Views, View, ViewIn, SeenIn, Present
<1>2. Views'[q] = ViewIn(table', contents', live', q)
  BY DEF Views, View, ViewIn, SeenIn, Present
<1>3. /\ table \in Tables /\ contents \in [Frames -> Values \cup {Unmapped}]
      /\ table' \in Tables /\ contents' \in [Frames -> Values \cup {Unmapped}]
  BY DEF TypeOK, Tables
<1>4. /\ q \notin live => ViewIn(table, contents, live, q) = NoMemory
      /\ q \in live => /\ ViewIn(table, contents, live, q) \in Memories
                       /\ ViewIn(table, contents, live, q) # NoMemory
                       /\ \A v \in VPages : ViewIn(table, contents, live, q)[v]
                                              = SeenIn(table, contents, q, v)
  BY <1>3, ViewInFacts
<1>5. /\ q \notin live' => ViewIn(table', contents', live', q) = NoMemory
      /\ q \in live' => /\ ViewIn(table', contents', live', q) \in Memories
                        /\ ViewIn(table', contents', live', q) # NoMemory
                        /\ \A v \in VPages : ViewIn(table', contents', live', q)[v]
                                               = SeenIn(table', contents', q, v)
  BY <1>3, ViewInFacts
<1>. QED
  BY <1>1, <1>2, <1>4, <1>5

(* Page v of q reads as before. *)
SeesSame(q, v) == SeenIn(table', contents', q, v) = SeenIn(table, contents, q, v)

(* The memories of those who go on living are the same if their pages are. *)
LEMMA SameView ==
    ASSUME TypeOK, TypeOK', NEW q \in Procs, q \in live <=> q \in live',
           \A v \in VPages : q \in live => SeesSame(q, v)
    PROVE  Views'[q] = Views[q]
<1>1. CASE q \notin live
  BY <1>1, ViewsFacts
<1>2. CASE q \in live
  <2>1. Views[q] \in Memories /\ Views'[q] \in Memories
    BY <1>2, ViewsFacts
  <2>2. ASSUME NEW v \in VPages PROVE Views'[q][v] = Views[q][v]
    <3>1. /\ Views[q][v] = SeenIn(table, contents, q, v)
          /\ Views'[q][v] = SeenIn(table', contents', q, v)
      BY <1>2, ViewsFacts
    <3>. QED
      BY <1>2, <3>1 DEF SeesSame
  <2>. QED
    BY <2>1, <2>2 DEF Memories
<1>. QED
  BY <1>1, <1>2

(* The same for all processes. *)
LEMMA SameViews ==
    ASSUME TypeOK, TypeOK', live' = live,
           \A q \in live, v \in VPages : SeesSame(q, v)
    PROVE  Views' = Views
<1>1. ASSUME NEW q \in Procs PROVE Views'[q] = Views[q]
  BY SameView
<1>. QED
  BY <1>1 DEF Views

(* An entry with the frame it had, which holds what it held.               *)
LEMMA FrameKept ==
    ASSUME NEW q \in Spaces, NEW v \in VPages,
           table'[q][v].frame = table[q][v].frame,
           table[q][v].frame # NoFrame =>
              contents'[table[q][v].frame] = contents[table[q][v].frame]
    PROVE  SeesSame(q, v)
BY DEF SeesSame, SeenIn
(* The loops of fork, exit and exec change what no process sees.           *)
LEMMA CopyPageUnseen ==
    ASSUME TypeOK, TypeOK', LoopsInOrder, CopyPage, ~tainted'
    PROVE  Views' = Views
<1>. DEFINE e == table[op.proc][op.page]
            c == op.child
            n == [e EXCEPT !.writable = FALSE, !.cow = TRUE]
            t == [table EXCEPT ![op.proc][op.page] = n]
<1>1. /\ op.page \in VPages /\ op.proc \in Spaces /\ c \in Spaces /\ c \notin live
      /\ live' = live /\ live \subseteq Spaces
  BY OpFacts DEF CopyPage, TypeOK, Ops, LoopsInOrder, Spaces
<1>2. e \in Entry
  BY <1>1 DEF TypeOK
<1>3. n \in Entry /\ n.frame = e.frame
  BY <1>2 DEF Entry
<1>4. CopyNothing(e) \/ ShareFirst(e) \/ ShareAgain(e)
  BY DEF CopyPage, CopySaturated
<1>5. contents' = contents
  BY <1>4 DEF CopyNothing, ShareFirst, ShareAgain, memVars
<1>6. \/ table' = table
      \/ table' = [table EXCEPT ![c][op.page] = e]
      \/ table' = [t EXCEPT ![c][op.page] = n]
  BY <1>4 DEF CopyNothing, ShareFirst, ShareAgain
<1>. HIDE DEF n, e, c
<1>7. /\ t \in [Spaces -> [VPages -> Entry]]
      /\ t[op.proc][op.page] = n
      /\ \A r \in Spaces, w \in VPages : r # op.proc \/ w # op.page => t[r][w] = table[r][w]
  BY <1>1, <1>3, EntryStored DEF TypeOK
<1>. HIDE DEF t
<1>8. \A r \in Spaces, w \in VPages : t[r][w].frame = table[r][w].frame
  BY <1>3, <1>7 DEF e
<1>9. ASSUME NEW r \in live, NEW w \in VPages PROVE table'[r][w].frame = table[r][w].frame
  <2>1. r \in Spaces /\ r # c
    BY <1>1
  <2>2. CASE table' = table
    BY <2>2
  <2>3. CASE table' = [table EXCEPT ![c][op.page] = e]
    <3>1. table'[r][w] = table[r][w]
      BY <1>1, <1>2, <2>1, <2>3, EntryStored DEF TypeOK
    <3>. QED
      BY <3>1
  <2>4. CASE table' = [t EXCEPT ![c][op.page] = n]
    <3>1. table'[r][w] = t[r][w]
      BY <1>1, <1>3, <1>7, <2>1, <2>4, EntryStored
    <3>. QED
      BY <1>8, <2>1, <3>1
  <2>. QED
    BY <1>6, <2>2, <2>3, <2>4
<1>10. \A r \in live, w \in VPages : SeesSame(r, w)
  BY <1>1, <1>5, <1>9, FrameKept
<1>. QED
  BY <1>1, <1>10, SameViews

(* mmu_free releases only frames of which it had the last entry. *)
LEMMA FreePageUnseen ==
    ASSUME TypeOK, TypeOK', Core, FreePage
    PROVE  Views' = Views
<1>. DEFINE v == op.page
            f == table[Dying][v].frame
<1>1. v \in VPages /\ Dying \in Spaces /\ live' = live /\ live \subseteq Spaces \ {Dying}
  BY OpFacts, CowAssumption DEF FreePage, TypeOK, Ops, Spaces
<1>2. \A r \in Spaces, w \in VPages : r # Dying \/ w # v => table'[r][w] = table[r][w]
  BY <1>1, EntryFacts, EntryStored DEF FreePage, TypeOK
<1>3. f \in Frames \cup {NoFrame} /\ table[Dying][v] \in Entry
  BY <1>1, EntryFacts DEF TypeOK
<1>4. \/ contents' = contents
      \/ f # NoFrame /\ (table[Dying][v].writable \/ DecreaseReturns(f) = 0) /\ PutFrame(f)
  BY DEF FreePage, Present
<1>5. ASSUME NEW r \in live, NEW w \in VPages PROVE SeesSame(r, w)
  <2>1. CASE contents' = contents
    BY <1>1, <1>2, <2>1, FrameKept
  <2>2. CASE f # NoFrame /\ (table[Dying][v].writable \/ DecreaseReturns(f) = 0) /\ PutFrame(f)
    <3>1. f \in Frames /\ mem_refcounts[f] \in Nat
      BY <1>3, <2>2, CowAssumption DEF TypeOK
    <3>2. table[Dying][v].writable <=> mem_refcounts[f] = 0
      BY <1>1, <2>2 DEF Core, EntriesExact
    <3>3. mem_refcounts[f] \in {0, 1}
      BY <2>2, <3>1, <3>2, CowAssumption DEF DecreaseReturns
    <3>4. table[r][w].frame # f
      BY <1>1, <2>2, <3>3, LastOwner
    <3>5. \A g \in Frames \ {f} : contents'[g] = contents[g]
      BY <2>2, <3>1, PutFrameReleases DEF TypeOK
    <3>6. table[r][w].frame \in Frames \cup {NoFrame}
      BY <1>1, EntryFacts DEF TypeOK
    <3>7. table[r][w].frame # NoFrame =>
             contents'[table[r][w].frame] = contents[table[r][w].frame]
      BY <3>4, <3>5, <3>6
    <3>8. table'[r][w].frame = table[r][w].frame
      BY <1>1, <1>2
    <3>. QED
      BY <1>1, <3>7, <3>8, FrameKept
  <2>. QED
    BY <1>4, <2>1, <2>2
<1>. QED
  BY <1>1, <1>5, SameViews

(* The frame of a directory is no page's. *)
LEMMA FreeEndUnseen ==
    ASSUME TypeOK, TypeOK', LoopsInOrder, Core, FreeEnd
    PROVE  Views' = Views
<1>. DEFINE f == root[Dying]
<1>1. Dying \in Spaces /\ f \in Frames /\ f # NoFrame
  BY EntryFacts DEF FreeEnd, LoopsInOrder, TypeOK, Spaces
<1>2. live' = live /\ table' = table /\ live \subseteq Spaces
  BY DEF FreeEnd, TypeOK, Spaces
<1>3. \A g \in Frames \ {f} : contents'[g] = contents[g]
  BY <1>1, PutFrameReleases DEF FreeEnd, TypeOK
<1>4. ASSUME NEW r \in live, NEW w \in VPages PROVE SeesSame(r, w)
  <2>1. table[r][w].frame # f
    BY <1>1, <1>2 DEF Core, RootsExact
  <2>2. table[r][w].frame \in Frames \cup {NoFrame}
    BY <1>2, EntryFacts DEF TypeOK
  <2>3. table[r][w].frame # NoFrame =>
           contents'[table[r][w].frame] = contents[table[r][w].frame]
    BY <1>3, <2>1, <2>2
  <2>. QED
    BY <1>2, <2>3, FrameKept
<1>. QED
  BY <1>2, <1>4, SameViews

(* A frame that was free is filled and mapped: nobody else notices.        *)
LEMMA FreshUnseen ==
    ASSUME TypeOK, Core, NEW q \in Spaces, NEW v \in VPages, NEW out \in Frames, NEW x,
           out \notin frames,
           contents' = [contents EXCEPT ![out] = x],
           table' = [table EXCEPT ![q][v] = FreshEntry(out)],
           NEW r \in Spaces, NEW w \in VPages, r # q \/ w # v
    PROVE  SeesSame(r, w)
<1>1. table'[r][w] = table[r][w]
  BY EntryFacts, EntryStored DEF FreshEntry, TypeOK
<1>2. table[r][w].frame # out /\ table[r][w].frame \in Frames \cup {NoFrame}
  BY FreshFrame, EntryFacts DEF TypeOK
<1>3. table[r][w].frame # NoFrame =>
           contents'[table[r][w].frame] = contents[table[r][w].frame]
  BY <1>2 DEF TypeOK
<1>. QED
  BY <1>1, <1>3, FrameKept

(* elf_exec fills pages of a process that is not running. *)
LEMMA LoadPageUnseen ==
    ASSUME TypeOK, TypeOK', LoopsInOrder, Core, LoadPage
    PROVE  Views' = Views
<1>1. PICK out \in Frames, x \in Values :
         /\ TakeFrame(out)
         /\ contents' = [contents EXCEPT ![out] = x]
         /\ table' = [table EXCEPT ![op.proc][op.page] = FreshEntry(out)]
  BY DEF LoadPage, FreshEntry
<1>2. /\ op.page \in VPages /\ op.proc \in Spaces /\ op.proc \notin live
      /\ live' = live /\ live \subseteq Spaces
  BY CowAssumption DEF LoadPage, TypeOK, Ops, VPages, LoopsInOrder, Spaces
<1>3. out \notin frames
  BY <1>1, TakeFrameTakesFree
<1>4. \A r \in live, w \in VPages : SeesSame(r, w)
  BY <1>1, <1>2, <1>3, FreshUnseen
<1>. QED
  BY <1>2, <1>4, SameViews

(* A write fault changes the frame, not what it holds.                     *)
LEMMA CopyOnWriteUnseen ==
    ASSUME TypeOK, TypeOK', Core, NEW p \in Procs, NEW v \in VPages, CopyOnWrite(p, v)
    PROVE  Views' = Views
<1>. DEFINE e == table[p][v]
            f == e.frame
<1>1. p \in Spaces /\ live' = live /\ live \subseteq Spaces /\ f # NoFrame /\ e \in Entry
  BY DEF CopyOnWrite, Present, Spaces, TypeOK
<1>2. f \in Frames
  BY <1>1, EntryFacts
<1>3. CASE /\ table' = [table EXCEPT ![p][v].writable = TRUE, ![p][v].cow = FALSE]
           /\ contents' = contents
  <2>. DEFINE n == [e EXCEPT !.writable = TRUE, !.cow = FALSE]
  <2>1. table' = [table EXCEPT ![p][v] = n]
    BY <1>3
  <2>2. n \in Entry /\ n.frame = f
    BY <1>1 DEF Entry
  <2>. HIDE DEF n
  <2>3. \A r \in Spaces, w \in VPages : table'[r][w].frame = table[r][w].frame
    <3>1. /\ table'[p][v] = n
          /\ \A r \in Spaces, w \in VPages : r # p \/ w # v => table'[r][w] = table[r][w]
      BY <1>1, <2>1, <2>2, EntryStored DEF TypeOK
    <3>. QED
      BY <2>2, <3>1
  <2>4. \A r \in live, w \in VPages : SeesSame(r, w)
    BY <1>1, <1>3, <2>3, FrameKept
  <2>. QED
    BY <1>1, <2>4, SameViews
<1>4. ASSUME NEW out \in Frames, TakeFrame(out),
             contents' = [contents EXCEPT ![out] = contents[f]],
             table' = [table EXCEPT ![p][v] = FreshEntry(out)]
      PROVE  Views' = Views
  <2>1. out \notin frames
    BY <1>4, TakeFrameTakesFree
  <2>2. SeesSame(p, v)
    <3>1. table'[p][v] = FreshEntry(out)
      BY <1>1, <1>4, EntryFacts, EntryStored DEF FreshEntry, TypeOK
    <3>2. contents'[out] = contents[f]
      BY <1>4 DEF TypeOK
    <3>3. out # NoFrame
      BY EntryFacts
    <3>. QED
      BY <1>1, <3>1, <3>2, <3>3 DEF SeesSame, SeenIn, FreshEntry
  <2>3. ASSUME NEW r \in live, NEW w \in VPages PROVE SeesSame(r, w)
    <3>1. CASE r = p /\ w = v
      BY <2>2, <3>1
    <3>2. CASE r # p \/ w # v
      <4>. DEFINE x == contents[f]
      <4>1. contents' = [contents EXCEPT ![out] = x]
        BY <1>4
      <4>. HIDE DEF x, e, f
      <4>. QED
        BY <1>1, <1>4, <2>1, <3>2, <4>1, FreshUnseen
    <3>. QED
      BY <3>1, <3>2
  <2>. QED
    BY <1>1, <2>3, SameViews
<1>. QED
  BY <1>3, <1>4 DEF CopyOnWrite, FreshEntry
(* What a process can notice is a step of private memory.                  *)
LEMMA ForkIsFork ==
    ASSUME TypeOK, TypeOK', LoopsInOrder, Core, ForkEnd
    PROVE  Abs!Fork(op.proc, op.child)
<1>. DEFINE p == op.proc
            c == op.child
<1>1. p \in live /\ p \in Procs /\ c \in Procs \ live /\ p # c /\ live' = live \cup {c}
  BY DEF ForkEnd, LoopsInOrder, TypeOK
<1>2. table' = table /\ contents' = contents /\ Procs \subseteq Spaces
  BY DEF ForkEnd, memVars, Spaces
<1>3. \A v \in VPages : table[c][v].frame = table[p][v].frame
  <2>1. op \in Ops /\ op.page > NPages /\ op.kind = "fork"
    BY DEF ForkEnd, Finished, TypeOK, Ops
  <2>2. \A v \in VPages : v < op.page
    BY <2>1, CowAssumption DEF VPages, Ops
  <2>. QED
    BY <2>1, <2>2 DEF Core, TablesInOrder
<1>. HIDE DEF p, c
<1>4. Views[p] # NoMemory /\ Views[c] = NoMemory
  BY <1>1, ViewsFacts
<1>5. ASSUME NEW q \in Procs, q # c PROVE Views'[q] = Views[q]
  <2>1. \A v \in VPages : q \in live => SeesSame(q, v)
    BY <1>2 DEF SeesSame, SeenIn
  <2>. QED
    BY <1>1, <1>5, <2>1, SameView
<1>6. Views'[c] = Views[p]
  <2>1. Views'[c] \in Memories /\ Views[p] \in Memories
    BY <1>1, ViewsFacts
  <2>2. ASSUME NEW v \in VPages PROVE Views'[c][v] = Views[p][v]
    <3>1. /\ Views'[c][v] = SeenIn(table', contents', c, v)
          /\ Views[p][v] = SeenIn(table, contents, p, v)
      BY <1>1, ViewsFacts
    <3>. QED
      BY <1>2, <1>3, <3>1 DEF SeenIn
  <2>. QED
    BY <2>1, <2>2 DEF Memories
<1>7. Views' = [Views EXCEPT ![c] = Views[p]]
  BY <1>1, <1>5, <1>6 DEF Views
<1>. QED
  BY <1>4, <1>7 DEF Abs!Fork, Views, p, c

(* exit, and exec before it has the new image. *)
LEMMA HandOverIsDrop ==
    ASSUME TypeOK, TypeOK', NEW p \in Procs, p \in live, live' = live \ {p},
           table' = [table EXCEPT ![Dying] = table[p], ![p] = EmptyTable],
           contents' = contents
    PROVE  Abs!Drop(p)
<1>1. Views[p] # NoMemory /\ Views'[p] = NoMemory
  BY ViewsFacts
<1>2. ASSUME NEW q \in Procs, q # p PROVE Views'[q] = Views[q]
  <2>1. table'[q] = table[q]
    BY <1>2, CowAssumption DEF TypeOK, Spaces
  <2>2. \A v \in VPages : q \in live => SeesSame(q, v)
    BY <2>1 DEF SeesSame, SeenIn
  <2>. QED
    BY <1>2, <2>2, SameView
<1>3. Views' = [Views EXCEPT ![p] = NoMemory]
  BY <1>1, <1>2 DEF Views
<1>. QED
  BY <1>1, <1>3 DEF Abs!Drop, Views

(* The end of exec. *)
LEMMA LoadIsLoad ==
    ASSUME TypeOK, TypeOK', LoopsInOrder, LoadEnd
    PROVE  Abs!Load(op.proc)
<1>. DEFINE p == op.proc
<1>1. p \in Procs \ live /\ live' = live \cup {p} /\ table' = table /\ contents' = contents
  BY DEF LoadEnd, LoopsInOrder, memVars
<1>. HIDE DEF p
<1>2. Views[p] = NoMemory /\ Views'[p] \in Memories
  BY <1>1, ViewsFacts
<1>3. ASSUME NEW q \in Procs, q # p PROVE Views'[q] = Views[q]
  <2>1. \A v \in VPages : q \in live => SeesSame(q, v)
    BY <1>1 DEF SeesSame, SeenIn
  <2>. QED
    BY <1>1, <1>3, <2>1, SameView
<1>4. Views' = [Views EXCEPT ![p] = Views'[p]]
  BY <1>1, <1>3 DEF Views
<1>5. Views'[p] \in Abs!Memories
  BY <1>2 DEF Memories, Abs!Memories
<1>. QED
  BY <1>2, <1>4, <1>5 DEF Abs!Load, Views, p

(* One page of p is given or gets the contents x.                          *)
LEMMA OnePageSeen ==
    ASSUME TypeOK, TypeOK', NEW p \in Procs, p \in live, live' = live, NEW v \in VPages, NEW x,
           SeenIn(table', contents', p, v) = x,
           \A r \in live, w \in VPages : r # p \/ w # v => SeesSame(r, w)
    PROVE  /\ Views[p] # NoMemory
           /\ Views[p][v] = SeenIn(table, contents, p, v)
           /\ Views' = [Views EXCEPT ![p][v] = x]
<1>1. /\ Views[p] # NoMemory /\ Views[p] \in Memories /\ Views'[p] \in Memories
      /\ \A w \in VPages : /\ Views[p][w] = SeenIn(table, contents, p, w)
                           /\ Views'[p][w] = SeenIn(table', contents', p, w)
  BY ViewsFacts
<1>2. Views'[p] = [Views[p] EXCEPT ![v] = x]
  <2>1. Views'[p][v] = x /\ \A w \in VPages \ {v} : Views'[p][w] = Views[p][w]
    BY <1>1 DEF SeesSame
  <2>. QED
    BY <1>1, <2>1 DEF Memories
<1>3. ASSUME NEW q \in Procs, q # p PROVE Views'[q] = Views[q]
  BY <1>3, SameView
<1>4. Views' = [Views EXCEPT ![p] = [Views[p] EXCEPT ![v] = x]]
  BY <1>2, <1>3 DEF Views
<1>. QED
  BY <1>1, <1>4

(* A store goes to a frame that only this entry maps. *)
LEMMA StoreIsStore ==
    ASSUME TypeOK, TypeOK', Core, NEW p \in Procs, NEW v \in VPages, NEW x \in Values,
           Store(p, v, x)
    PROVE  Abs!Store(p, v, x)
<1>. DEFINE f == table[p][v].frame
<1>1. /\ p \in Spaces /\ p \in live /\ live' = live /\ live \subseteq Spaces /\ table' = table
      /\ f # NoFrame /\ table[p][v].writable
      /\ contents' = [contents EXCEPT ![f] = x]
  BY DEF Store, Present, Spaces, TypeOK
<1>2. f \in Frames
  BY <1>1, EntryFacts DEF TypeOK
<1>3. mem_refcounts[f] = 0 /\ contents[f] \in Values
  BY <1>1 DEF Core, EntriesExact
<1>4. contents'[f] = x /\ \A g \in Frames \ {f} : contents'[g] = contents[g]
  BY <1>1, <1>2 DEF TypeOK
<1>5. ASSUME NEW r \in live, NEW w \in VPages, r # p \/ w # v PROVE SeesSame(r, w)
  <2>1. r \in Spaces /\ table[r][w].frame # f
    BY <1>1, <1>3, <1>5, LastOwner
  <2>2. table[r][w].frame \in Frames \cup {NoFrame}
    BY <2>1, EntryFacts DEF TypeOK
  <2>3. table[r][w].frame # NoFrame =>
           contents'[table[r][w].frame] = contents[table[r][w].frame]
    BY <1>4, <2>1, <2>2
  <2>. QED
    BY <1>1, <2>1, <2>3, FrameKept
<1>6. SeenIn(table', contents', p, v) = x
  BY <1>1, <1>4 DEF SeenIn
<1>7. /\ Views[p] # NoMemory
      /\ Views[p][v] = SeenIn(table, contents, p, v)
      /\ Views' = [Views EXCEPT ![p][v] = x]
  <2>1. p \in live /\ live' = live
    BY <1>1
  <2>2. \A r \in live, w \in VPages : r # p \/ w # v => SeesSame(r, w)
    BY <1>5
  <2>. HIDE DEF f
  <2>. QED
    BY <1>6, <2>1, <2>2, OnePageSeen
<1>8. Views[p][v] # Unmapped
  BY <1>1, <1>3, <1>7, CowAssumption DEF SeenIn
<1>. QED
  BY <1>7, <1>8 DEF Abs!Store, Views

(* sbrk gives a page, or finds one that the process had.                   *)
LEMMA SbrkIsGrow ==
    ASSUME TypeOK, TypeOK', Core, NEW p \in Procs, Sbrk(p), ~tainted'
    PROVE  Views' = Views \/ \E v \in VPages, x \in Values : Abs!Grow(p, v, x)
<1>. DEFINE v == heap[p] + 1
            e == table[p][v]
<1>1. p \in Spaces /\ v \in VPages /\ p \in live /\ live' = live /\ live \subseteq Spaces
  BY SbrkType DEF Sbrk, Spaces, TypeOK
<1>2. e \in Entry
  BY <1>1 DEF TypeOK
<1>. HIDE DEF v, e
<1>3. CASE Present(e)
  <2>. DEFINE n == [e EXCEPT !.writable = TRUE]
  <2>1. table' = [table EXCEPT ![p][v] = n] /\ contents' = contents
    BY <1>3 DEF Sbrk, memVars, v, e
  <2>2. n \in Entry /\ n.frame = e.frame
    BY <1>2 DEF Entry
  <2>. HIDE DEF n
  <2>3. \A r \in Spaces, w \in VPages : table'[r][w].frame = table[r][w].frame
    <3>1. /\ table'[p][v] = n
          /\ \A r \in Spaces, w \in VPages : r # p \/ w # v => table'[r][w] = table[r][w]
      BY <1>1, <2>1, <2>2, EntryStored DEF TypeOK
    <3>. QED
      BY <2>2, <3>1 DEF e
  <2>4. \A r \in live, w \in VPages : SeesSame(r, w)
    BY <1>1, <2>1, <2>3, FrameKept
  <2>. QED
    BY <1>1, <2>4, SameViews
<1>4. CASE ~Present(e)
  <2>1. PICK out \in Frames, x \in Values :
         /\ TakeFrame(out)
         /\ contents' = [contents EXCEPT ![out] = x]
         /\ table' = [table EXCEPT ![p][v].frame = out, ![p][v].writable = TRUE]
    BY <1>4 DEF Sbrk, v, e
  <2>2. e = NotPresent
    BY <1>1, <1>4 DEF Core, EntriesExact, Present, e
  <2>3. [e EXCEPT !.frame = out, !.writable = TRUE] = FreshEntry(out)
    <3>. DEFINE n == [e EXCEPT !.frame = out, !.writable = TRUE]
    <3>1. e \in Entry /\ e.cow = FALSE
      BY <2>2, EntryFacts DEF NotPresent
    <3>2. n \in Entry /\ n.frame = out /\ n.writable = TRUE /\ n.cow = FALSE
      BY <3>1 DEF Entry
    <3>. QED
      BY <3>2, EntryFacts DEF FreshEntry
  <2>4. table' = [table EXCEPT ![p][v] = [e EXCEPT !.frame = out, !.writable = TRUE]]
    BY <2>1 DEF e
  <2>5. table' = [table EXCEPT ![p][v] = FreshEntry(out)]
    BY <2>3, <2>4
  <2>6. out \notin frames /\ out # NoFrame
    BY <2>1, TakeFrameTakesFree, EntryFacts
  <2>7. \A r \in live, w \in VPages : r # p \/ w # v => SeesSame(r, w)
    BY <1>1, <2>1, <2>5, <2>6, FreshUnseen
  <2>8. SeenIn(table', contents', p, v) = x
    <3>1. table'[p][v] = FreshEntry(out)
      BY <1>1, <2>5, EntryFacts, EntryStored DEF FreshEntry, TypeOK
    <3>2. contents'[out] = x
      BY <2>1 DEF TypeOK
    <3>. QED
      BY <2>6, <3>1, <3>2 DEF SeenIn, FreshEntry
  <2>9. /\ Views[p] # NoMemory
        /\ Views[p][v] = SeenIn(table, contents, p, v)
        /\ Views' = [Views EXCEPT ![p][v] = x]
    BY <1>1, <2>7, <2>8, OnePageSeen
  <2>10. Views[p][v] = Unmapped
    BY <1>4, <2>9 DEF SeenIn, Present, e
  <2>11. Abs!Grow(p, v, x)
    BY <2>9, <2>10 DEF Abs!Grow, Views
  <2>. QED
    BY <1>1, <2>11
<1>. QED
  BY <1>3, <1>4
(* At the start one process has an empty memory. *)
LEMMA InitIsEmpty == Init => Abs!AbsInit
<1>. SUFFICES ASSUME NEW p \in Procs,
                     table = [q \in Spaces |-> EmptyTable], live = {p}
              PROVE  Views = [q \in Procs |-> IF q = p THEN [v \in VPages |-> Unmapped]
                                                      ELSE NoMemory]
  BY DEF Init, Abs!AbsInit, Views
<1>1. ASSUME NEW q \in Procs, NEW v \in VPages PROVE ~Present(table[q][v])
  BY EntryFacts DEF EmptyTable, Present, Spaces
<1>. QED
  BY <1>1 DEF Views, View

(* Every step is a step of private memory, or changes no memory. *)
LEMMA StepsArePrivate ==
    ASSUME IInv, IInv', ~tainted, ~tainted', [Next]_vars
    PROVE  Abs!AbsNext \/ Views' = Views
<1>. USE DEF IInv
<1>1. ASSUME NEW p \in Procs, NEW c \in Procs, ForkStart(p, c) PROVE Views' = Views
  BY <1>1 DEF ForkStart, Views, View
<1>2. ASSUME NEW p \in Procs, ExitStart(p) \/ ExecStart(p) PROVE Abs!Drop(p)
  BY <1>2, HandOverIsDrop DEF ExitStart, ExecStart, memVars
<1>3. ASSUME NEW p \in Procs, Sbrk(p)
      PROVE  Views' = Views \/ \E v \in VPages, x \in Values : Abs!Grow(p, v, x)
  BY <1>3, SbrkIsGrow
<1>4. ASSUME NEW p \in Procs, SbrkDown(p) PROVE Views' = Views
  BY <1>4 DEF SbrkDown, Views, View, memVars
<1>5. ASSUME NEW p \in Procs, NEW v \in VPages, CopyOnWrite(p, v) PROVE Views' = Views
  BY <1>5, CopyOnWriteUnseen
<1>6. ASSUME NEW p \in Procs, NEW v \in VPages, NEW x \in Values, Store(p, v, x)
      PROVE  Abs!Store(p, v, x)
  BY <1>6, StoreIsStore
<1>7. CASE CopyPage \/ FreePage \/ FreeEnd \/ LoadPage
  BY <1>7, CopyPageUnseen, FreePageUnseen, FreeEndUnseen, LoadPageUnseen
<1>8. CASE ForkEnd
  <2>1. op.proc \in Procs /\ op.child \in Procs
    BY <1>8 DEF ForkEnd, LoopsInOrder
  <2>. QED
    BY <1>8, <2>1, ForkIsFork DEF Abs!AbsNext
<1>9. CASE LoadEnd
  <2>1. op.proc \in Procs
    BY <1>9 DEF LoadEnd, LoopsInOrder
  <2>. QED
    BY <1>9, <2>1, LoadIsLoad DEF Abs!AbsNext
<1>10. CASE UNCHANGED vars
  BY <1>10 DEF vars, memVars, Views, View
<1>. QED
  BY <1>1, <1>2, <1>3, <1>4, <1>5, <1>6, <1>7, <1>8, <1>9, <1>10 DEF Next, Abs!AbsNext

(* As long as no count saturates and sbrk takes no shared page, sharing    *)
(* pages between parent and child is invisible: every process has a memory *)
(* of its own, of which fork makes a full copy.                            *)
THEOREM SharingIsInvisible == Spec /\ []~tainted => MemoryIsPrivate
<1>1. IInv /\ IInv' /\ ~tainted /\ (~tainted)' /\ [Next]_vars
         => [Abs!AbsNext]_([p \in Procs |-> View(p)])
  BY StepsArePrivate DEF Views
<1>. QED
  BY <1>1, InitIsEmpty, InvariantHolds, PTL DEF Spec, MemoryIsPrivate, Abs!AbsSpec
=============================================================================
