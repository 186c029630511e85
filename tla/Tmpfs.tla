------------------------------- MODULE Tmpfs -------------------------------
(***************************************************************************)
(* The memory file system, kernel/sys/fs/tmpfs.c: one directory, its       *)
(* entries, and the blocks of its files on the frames of the allocator.    *)
(* Frames are handed out as FrameAllocatorProofs shows (the lowest free    *)
(* one); the rest of the kernel takes and releases frames at any time, and *)
(* so does malloc for the object of an entry, its name and its array of    *)
(* blocks or of entries.  Only the array is followed: unlink frees all but *)
(* it.  A call runs with interrupts off.  A new block keeps what its frame *)
(* held before.  Subdirectories are entries only.                          *)
(***************************************************************************)
EXTENDS BlockPieces, SequencesExt

CONSTANTS
    Names,      \* file names
    Inodes,     \* addresses of tmpfs_file and tmpfs_dir objects
    Bytes,      \* byte values
    Buffers,    \* the buffers that are written
    NFrames,    \* frames of memory
    MaxLength,  \* longest file
    MaxOthers,  \* most frames held besides blocks and arrays
    Kinds,      \* the kinds of entries that are made
    BootMemory, \* what the frames may hold at first
    Unused      \* an address with no object

ASSUME TmpfsAssumption ==
    /\ Buffers \subseteq Seq(Bytes)
    /\ NFrames \in Nat \ {0}
    /\ MaxLength \in Nat /\ MaxOthers \in Nat
    /\ Kinds \subseteq {"file", "dir", "link"}
    /\ BootMemory \subseteq [0 .. NFrames - 1 -> [0 .. BLOCKSIZE - 1 -> Bytes]]
    /\ Unused \notin [name : Names, type : Kinds, length : 0 .. MaxLength,
                      blocks : Seq(0 .. NFrames - 1)]

VARIABLES
    files,      \* d->files: the entries of the directory, in order
    inode,      \* the object at each address
    free,       \* the free frames
    others,     \* frames that are held and no blocks: the arrays of all
                \* entries, and what the rest of the kernel has
    lost,       \* those of others that nothing will ever release
    removed,    \* how many files and links were removed
    mem,        \* the bytes of each frame
    tmpfs_total_blocks,
    written     \* the last write: name, offset and data

vars == <<files, inode, free, others, lost, removed, mem, tmpfs_total_blocks, written>>

Frames == 0 .. NFrames - 1
InBlock == 0 .. BLOCKSIZE - 1

Init ==
    /\ files = <<>>
    /\ inode = [i \in Inodes |-> Unused]
    /\ free = Frames
    /\ others = {} /\ lost = {} /\ removed = 0
    /\ mem \in BootMemory
    /\ tmpfs_total_blocks = 0
    /\ written \in [name : Names, offset : {0}, data : {<<>>}]

Greater(a, b) == IF a > b THEN a ELSE b
Lesser(a, b) == IF a < b THEN a ELSE b

Entries(name) == {k \in DOMAIN files : inode[files[k]].name = name}
Found(name) == Entries(name) # {}

(* What n requests give out, one after the other: the n lowest free frames *)
(* in ascending order, and nothing if there are not so many.               *)
LowestFree(n) ==
    {new \in [1 .. n -> free] :
        /\ \A j, k \in 1 .. n : j < k => new[j] < new[k]
        /\ \A f \in free \ Range(new) : \A k \in 1 .. n : new[k] < f}

(* malloc, of a frame. *)
TakeFrame ==
    \E f \in free :
        /\ \A g \in free : f <= g
        /\ others' = others \cup {f}
        /\ free' = free \ {f}

(* tmpfs_new_file and tmpfs_new_dir, with a frame for the array, appended  *)
(* to the directory.                                                       *)
AddEntry(name, type) ==
    /\ TakeFrame
    /\ \E i \in Inodes :
        /\ inode[i] = Unused
        /\ inode' = [inode EXCEPT ![i] = [name |-> name, type |-> type,
                                          length |-> 0, blocks |-> <<>>]]
        /\ files' = Append(files, i)

(* Faulty: the name is not looked up. *)
CreateUnchecked(name, type) ==
    /\ AddEntry(name, type)
    /\ UNCHANGED <<lost, removed, mem, tmpfs_total_blocks, written>>

(* create_tmpfs, mkdir_tmpfs and symlink_tmpfs refuse a name that exists. *)
Create(name, type) ==
    /\ ~Found(name)
    /\ AddEntry(name, type)
    /\ UNCHANGED <<lost, removed, mem, tmpfs_total_blocks, written>>

(* Faulty: only the block that is missing is allocated, and a gap before   *)
(* it keeps frame 0.                                                       *)
GrownWithHole(blocks, pieces) ==
    LET need == Max({p.block + 1 : p \in pieces}) IN
    IF need <= Len(blocks) THEN {blocks}
    ELSE {blocks \o [k \in 1 .. need - Len(blocks) |->
                       IF k = need - Len(blocks) THEN f ELSE 0] :
            f \in {f \in free : \A g \in free : f <= g}}

(* tmpfs_file_getset_block for every block that is touched: the file grows *)
(* to the last of them, if there are frames for all.                       *)
Grown(blocks, pieces) ==
    LET need == Max({p.block + 1 : p \in pieces}) IN
    IF need <= Len(blocks) THEN {blocks}
    ELSE {blocks \o new : new \in LowestFree(need - Len(blocks))}

(* write_tmpfs, called with a node of file i. *)
Write(i, offset, data) ==
    LET end == offset + Len(data)
        pieces == Pieces(offset, end) IN
    \E blocks \in Grown(inode[i].blocks, pieces) :
        /\ inode' = [inode EXCEPT ![i].length = Greater(@, end), ![i].blocks = blocks]
        /\ free' = free \ Range(blocks)
        /\ mem' = [f \in Frames |-> [at \in InBlock |->
                     LET p == {q \in pieces : /\ blocks[q.block + 1] = f
                                              /\ at \in q.at .. q.at + q.n - 1} IN
                     IF p = {} THEN mem[f][at]
                     ELSE LET q == CHOOSE q \in p : TRUE IN
                          data[q.from + (at - q.at) + 1]]]
        /\ tmpfs_total_blocks' = tmpfs_total_blocks + Len(blocks) - Len(inode[i].blocks)
        /\ written' = [name |-> inode[i].name, offset |-> offset, data |-> data]
        /\ UNCHANGED <<files, others, lost, removed>>

(* read_tmpfs, called with an offset within the file: the bytes it stores. *)
read_tmpfs(i, offset, size) ==
    LET end == IF offset + size > inode[i].length THEN inode[i].length
               ELSE offset + size
        pieces == Pieces(offset, end) IN
    [k \in 1 .. end - offset |->
        LET p == CHOOSE p \in pieces : Copies(p, k - 1) IN
        mem[inode[i].blocks[p.block + 1]][p.at + (k - 1 - p.from)]]

(* The blocks of file i go back to the frame allocator. *)
ReleaseBlocks(i) ==
    /\ free' = free \cup Range(inode[i].blocks)
    /\ tmpfs_total_blocks' = tmpfs_total_blocks - Len(inode[i].blocks)

(* Faulty: the blocks are released and still used. *)
TruncateKeepsBlocks(i) ==
    /\ ReleaseBlocks(i)
    /\ inode' = [inode EXCEPT ![i].length = 0]
    /\ UNCHANGED <<files, others, lost, removed, mem, written>>

(* truncate_tmpfs. *)
Truncate(i) ==
    /\ ReleaseBlocks(i)
    /\ inode' = [inode EXCEPT ![i].length = 0, ![i].blocks = <<>>]
    /\ UNCHANGED <<files, others, lost, removed, mem, written>>

(* unlink_tmpfs: the entries behind the removed one move up.  A directory  *)
(* always has its array of entries and is never removed.  tmpfs_free_file  *)
(* releases the blocks, but not the array that lists them.                 *)
Unlink(name) ==
    /\ \E k \in Entries(name) :
        LET i == files[k] IN
        /\ \A j \in Entries(name) : k <= j
        /\ inode[i].type # "dir"
        /\ ReleaseBlocks(i)
        /\ files' = RemoveAt(files, k)
        /\ inode' = [inode EXCEPT ![i] = Unused]
    /\ \E f \in others \ lost : lost' = lost \cup {f}
    /\ removed' = removed + 1
    /\ UNCHANGED <<others, mem, written>>

(* The rest of the kernel, arrays that grow and so move, and whatever else *)
(* malloc gives and free takes back.                                       *)
Held == Cardinality(others \ lost)

OthersTake ==
    /\ Held < Len(files) + MaxOthers
    /\ TakeFrame
    /\ UNCHANGED <<files, inode, lost, removed, mem, tmpfs_total_blocks, written>>

OthersRelease ==
    /\ Held > Len(files)
    /\ \E f \in others \ lost :
        /\ others' = others \ {f}
        /\ free' = free \cup {f}
    /\ UNCHANGED <<files, inode, lost, removed, mem, tmpfs_total_blocks, written>>

IsFile(i) == inode[i].type = "file"

Next ==
    \/ \E name \in Names :
        \/ \E type \in Kinds : Create(name, type)
        \/ Unlink(name)
    \/ \E i \in Range(files) :
        /\ IsFile(i)
        /\ \/ \E offset \in 0 .. MaxLength, data \in Buffers :
                /\ offset + Len(data) <= MaxLength
                /\ Write(i, offset, data)
           \/ Truncate(i)
    \/ OthersTake
    \/ OthersRelease

Spec == Init /\ [][Next]_vars

-----------------------------------------------------------------------------
Objects == {i \in Inodes : inode[i] # Unused}
Blocks(i) == inode[i].blocks

TypeOK ==
    /\ files \in Seq(Inodes)
    /\ \A i \in Objects :
        /\ inode[i].name \in Names /\ inode[i].type \in Kinds
        /\ inode[i].length \in 0 .. MaxLength
        /\ inode[i].blocks \in Seq(Frames)
    /\ free \subseteq Frames /\ others \subseteq Frames /\ lost \subseteq others
    /\ mem \in [Frames -> [InBlock -> Bytes]]
    /\ tmpfs_total_blocks \in 0 .. NFrames

(* The directory lists every object once, and no name twice: finddir_tmpfs *)
(* reaches each of them.                                                   *)
DirectoryListsAll ==
    /\ IsInjective(files)
    /\ Range(files) = Objects
    /\ \A i, j \in Objects : inode[i].name = inode[j].name => i = j

(* Every frame is free, held outside the files or one block of one file:   *)
(* growing, truncating and unlinking never share a frame between two, nor  *)
(* lose a block.  Each file and link that is unlinked loses one frame, its *)
(* array of blocks, and nothing else loses any; every entry that is there  *)
(* still has the frame of its array.                                       *)
FramesOwnedOnce ==
    /\ TypeOK
    /\ \A i \in Objects :
        /\ IsInjective(Blocks(i))
        /\ Range(Blocks(i)) \cap (free \cup others) = {}
        /\ \A j \in Objects \ {i} : Range(Blocks(i)) \cap Range(Blocks(j)) = {}
    /\ free \cap others = {}
    /\ Frames = free \cup others \cup UNION {Range(Blocks(i)) : i \in Objects}
    /\ tmpfs_total_blocks = Cardinality(UNION {Range(Blocks(i)) : i \in Objects})
    /\ Cardinality(lost) = removed /\ Held >= Len(files)

(* The bytes of a file: byte k is in block k / BLOCKSIZE. *)
Text(i) ==
    [k \in 1 .. inode[i].length |->
        mem[Blocks(i)[((k - 1) \div BLOCKSIZE) + 1]][(k - 1) % BLOCKSIZE]]

(* A read that starts within the file gives its bytes from there to the    *)
(* end of the file or of the buffer, and every block it needs exists.      *)
ReadGivesText ==
    \A i \in {j \in Objects : IsFile(j)} :
        \A offset \in 0 .. inode[i].length, size \in 0 .. MaxLength :
            read_tmpfs(i, offset, size) =
                SubSeq(Text(i), offset + 1, Lesser(offset + size, inode[i].length))

(* Wherever in the blocks of a file a transfer starts and ends, the memcpy *)
(* calls of read_tmpfs and write_tmpfs copy each of its bytes once, to its *)
(* place; a read so gives the bytes of the file.                           *)
TransfersAreExact ==
    /\ \A i \in Objects :
        LET reach == BLOCKSIZE * Len(Blocks(i)) IN
        \A offset \in 0 .. reach : \A end \in offset .. reach : CutExactly(offset, end)
    /\ ReadGivesText

(* The files by their names. *)
Named(name) == CHOOSE i \in Objects : inode[i].name = name
FileNames == {inode[i].name : i \in {j \in Objects : IsFile(j)}}
FlatText == [name \in FileNames |-> Text(Named(name))]

(* Blocks on shared frames implement independent sequences of bytes: no    *)
(* write, truncation or removal shows in another file, and a write changes *)
(* its own range only.                                                     *)
Flat == INSTANCE FlatFiles WITH text <- FlatText

ImplementsFlatFiles == Flat!AbsSpec
=============================================================================
