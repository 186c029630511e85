------------------------------ MODULE Ramdisk -------------------------------
(* The way of the files from the directory ramdisk_base to the root file   *)
(* system: src/ramdiskfs_tool/main.c writes an image of linked entries,    *)
(* src/kernel/sys/fs/ramdiskfs.c reads it, and copy_directory of kmain.c   *)
(* copies what it lists into a tmpfs. Sizes are in units of the model, and *)
(* a path is the sequence of its names. Links and devices are left out:    *)
(* the tool never gets past one.                                           *)
EXTENDS Naturals, Sequences, SequencesExt, TLC

CONSTANTS
    Trees,      \* directories to make an image of
    Dot,        \* "." or ".." in a listing, which the host puts anywhere
    Offset0,    \* sizeof(ramdiskfs_header_t)
    EntrySize,  \* sizeof(ramdiskfs_entry_t)
    BufSize     \* bytes that copy_directory reads at a time

(* A tree gives the path of each directory its listing, that of each file  *)
(* its text.                                                               *)
ASSUME RamdiskAssumption ==
    /\ Offset0 \in Nat \ {0} /\ EntrySize \in Nat \ {0} /\ BufSize \in Nat \ {0}
    /\ \A t \in Trees : <<>> \in DOMAIN t.listing

VARIABLES
    tree,       \* the directory
    phase,      \* "write", "copy", "done", or "outside" of the image
    calls,      \* create_directory, innermost first: [dir, rest, written, child]
    at,         \* position in the image file
    image,      \* offset -> entry or byte
    size,       \* header.size
    copies,     \* copy_directory, innermost first: [from, i, to, open, offset]
    rootfs      \* path -> names in a directory, or bytes of a file

tool == <<calls, at, image, size>>
kernel == <<copies, rootfs>>
vars == <<tree, phase, tool, kernel>>

-----------------------------------------------------------------------------
(* create_directory, one turn of its loop an action *)

Init ==
    /\ tree \in Trees
    /\ phase = "write"
    /\ calls = <<[dir |-> <<>>, rest |-> tree.listing[<<>>], written |-> 0, child |-> 0]>>
    /\ image = Offset0 :> [name |-> "", type |-> "dir", next |-> 0,
                           target |-> Offset0 + EntrySize, size |-> 0]
    /\ at = Offset0 + EntrySize
    /\ size = 0
    /\ copies = <<>> /\ rootfs = <<>> :> <<>>

Writing == phase = "write" /\ UNCHANGED <<tree, kernel>>

Call == Head(calls)
More == Call.rest # <<>>
AtDot == Head(Call.rest) = Dot
ToWrite == Append(Call.dir, Head(Call.rest))

(* Faulty: the last entry of a directory leads on to the next one outside. *)
EntryLinked(call, type, bytes) ==
    [name |-> Head(call.rest), type |-> type,
     next |-> call.child + EntrySize + bytes,
     target |-> IF type = "dir" /\ bytes # 0 THEN call.child + EntrySize ELSE 0,
     size |-> IF type = "dir" THEN 0 ELSE bytes]

(* The entry of the file or directory whose content took that many bytes.  *)
(* It has a next one if readdir gives anything more, "." and ".." included. *)
EntryOf(call, type, bytes) ==
    [name |-> Head(call.rest), type |-> type,
     next |-> IF Tail(call.rest) = <<>> THEN 0 ELSE call.child + EntrySize + bytes,
     target |-> IF type = "dir" /\ bytes # 0 THEN call.child + EntrySize ELSE 0,
     size |-> IF type = "dir" THEN 0 ELSE bytes]

(* create_directory after it wrote that entry. *)
After(call, bytes) ==
    [call EXCEPT !.rest = Tail(@), !.written = @ + EntrySize + bytes]

SkipDot ==
    /\ Writing /\ More /\ AtDot
    /\ calls' = <<[Call EXCEPT !.rest = Tail(@)]>> \o Tail(calls)
    /\ UNCHANGED <<phase, at, image, size>>

WriteFile ==
    /\ Writing /\ More /\ ~AtDot /\ ToWrite \in DOMAIN tree.text
    /\ LET text == tree.text[ToWrite]
           call == [Call EXCEPT !.child = at]
           start == at + EntrySize IN
        /\ image' = [o \in start .. start + Len(text) - 1 |-> text[o - start + 1]]
                    @@ at :> EntryOf(call, "file", Len(text)) @@ image
        /\ at' = start + Len(text)
        /\ calls' = <<After(call, Len(text))>> \o Tail(calls)
    /\ UNCHANGED <<phase, size>>

(* The entry of a directory is written when its content is. *)
EnterDirectory ==
    /\ Writing /\ More /\ ~AtDot /\ ToWrite \in DOMAIN tree.listing
    /\ at' = at + EntrySize
    /\ calls' = <<[dir |-> ToWrite, rest |-> tree.listing[ToWrite],
                   written |-> 0, child |-> 0],
                  [Call EXCEPT !.child = at]>> \o Tail(calls)
    /\ UNCHANGED <<phase, image, size>>

LeaveDirectory ==
    /\ Writing /\ ~More /\ Len(calls) > 1
    /\ LET caller == calls[2] IN
        /\ image' = caller.child :> EntryOf(caller, "dir", Call.written) @@ image
        /\ calls' = <<After(caller, Call.written)>> \o SubSeq(calls, 3, Len(calls))
    /\ UNCHANGED <<phase, at, size>>

(* copy_directory before its first entry. *)
Started(from, to) ==
    [from |-> from, i |-> 0, to |-> to, open |-> FALSE, offset |-> 0]

(* main writes the header; the kernel boots with the image. *)
WriteHeader ==
    /\ phase = "write" /\ ~More /\ Len(calls) = 1
    /\ size' = image[Offset0].target + Call.written
    /\ calls' = <<>>
    /\ phase' = "copy"
    /\ copies' = <<Started(Offset0, <<>>)>>
    /\ UNCHANGED <<tree, at, image, rootfs>>

-----------------------------------------------------------------------------
(* ramdiskfs.c *)

IsEntry(o) == o \in DOMAIN image /\ o < size

(* Offset of the entry of that index in directory d, 0 behind the last. It *)
(* may lie outside of the image.                                           *)
Listed(d, index) ==
    LET follow[k \in 0 .. index] ==
            IF k = 0 THEN image[d].target
            ELSE IF follow[k - 1] = 0 \/ ~IsEntry(follow[k - 1]) THEN follow[k - 1]
            ELSE image[follow[k - 1]].next IN
    follow[index]

(* ramdiskfs_finddir: the first entry of that name among those up to index. *)
Found(d, index) ==
    LET name == image[Listed(d, index)].name
        named == {k \in 0 .. index : image[Listed(d, k)].name = name} IN
    Listed(d, CHOOSE k \in named : \A l \in named : k <= l)

(* Faulty: every piece is read from the start of the text. *)
ReadFromStart(o, offset, n) ==
    [k \in 1 .. n |-> image[o + EntrySize + k - 1]]

(* ramdiskfs_read *)
ReadEntry(o, offset, n) ==
    LET e == image[o]
        end == IF offset + n > e.size THEN e.size ELSE offset + n IN
    IF offset > e.size THEN <<>>
    ELSE [k \in 1 .. end - offset |-> image[o + EntrySize + offset + k - 1]]

-----------------------------------------------------------------------------
(* copy_directory *)

Copy == Head(copies)
ToCopy == Listed(Copy.from, Copy.i)
Node == Found(Copy.from, Copy.i)        \* what finddir_fs makes of its name
Target == Append(Copy.to, image[Node].name)
NextEntry(copy) == [copy EXCEPT !.i = @ + 1, !.open = FALSE, !.offset = 0]

AtEntry ==
    /\ phase = "copy" /\ ToCopy # 0 /\ IsEntry(ToCopy)
    /\ UNCHANGED <<tree, tool, phase>>

(* create_tmpfs and mkdir_tmpfs add the name last. *)
Made(name, content) ==
    Append(Copy.to, name) :> content @@ [rootfs EXCEPT ![Copy.to] = Append(@, name)]

(* The name is in use: the entry is skipped. *)
SkipEntry ==
    /\ AtEntry /\ ~Copy.open /\ Target \in DOMAIN rootfs
    /\ copies' = <<NextEntry(Copy)>> \o Tail(copies)
    /\ UNCHANGED rootfs

CreateFile ==
    /\ AtEntry /\ ~Copy.open /\ Target \notin DOMAIN rootfs
    /\ image[Node].type = "file"
    /\ rootfs' = Made(image[Node].name, <<>>)
    /\ copies' = <<[Copy EXCEPT !.open = TRUE]>> \o Tail(copies)

(* One turn of the loop over the text; write_tmpfs takes all of a piece. *)
CopyPiece ==
    /\ AtEntry /\ Copy.open /\ Copy.offset < image[Node].size
    /\ LET left == image[Node].size - Copy.offset
           piece == ReadEntry(Node, Copy.offset, IF left > BufSize THEN BufSize ELSE left) IN
        /\ rootfs' = [rootfs EXCEPT ![Target] = SubSeq(@, 1, Copy.offset) \o piece]
        /\ copies' = <<[Copy EXCEPT !.offset = @ + Len(piece)]>> \o Tail(copies)

CloseFile ==
    /\ AtEntry /\ Copy.open /\ Copy.offset = image[Node].size
    /\ copies' = <<NextEntry(Copy)>> \o Tail(copies)
    /\ UNCHANGED rootfs

CopyDirectory ==
    /\ AtEntry /\ Target \notin DOMAIN rootfs
    /\ image[Node].type = "dir"
    /\ rootfs' = Made(image[Node].name, <<>>)
    /\ copies' = <<Started(Node, Target)>> \o copies

EndDirectory ==
    /\ phase = "copy" /\ ToCopy = 0
    /\ IF Len(copies) = 1
       THEN copies' = <<>> /\ phase' = "done"
       ELSE /\ copies' = <<NextEntry(copies[2])>> \o SubSeq(copies, 3, Len(copies))
            /\ UNCHANGED phase
    /\ UNCHANGED <<tree, tool, rootfs>>

(* Nothing is said of what the kernel makes of the memory behind the image. *)
ReadOutside ==
    /\ phase = "copy" /\ ToCopy # 0 /\ ~IsEntry(ToCopy)
    /\ phase' = "outside"
    /\ UNCHANGED <<tree, tool, kernel>>

Next == \/ SkipDot \/ WriteFile \/ EnterDirectory \/ LeaveDirectory \/ WriteHeader
        \/ SkipEntry \/ CreateFile \/ CopyPiece \/ CloseFile
        \/ CopyDirectory \/ EndDirectory \/ ReadOutside

Spec == Init /\ [][Next]_vars /\ WF_vars(Next)

-----------------------------------------------------------------------------
(* Only listings of nothing else end with "." or "..", and the top         *)
(* directory has an entry. Otherwise the last entry of a directory gets a  *)
(* next one that is not in it.                                             *)
Plain ==
    /\ \A d \in DOMAIN tree.listing :
        LET listing == tree.listing[d] IN
        Last(listing) = Dot => Range(listing) = {Dot}
    /\ Range(tree.listing[<<>>]) # {Dot}

(* What copy_directory finds in the image is what the tool was given: the  *)
(* same names in the same order in each directory, the same text in each   *)
(* file, and nothing else.                                                 *)
RootfsIsTree ==
    phase = "done" /\ Plain =>
        rootfs = [d \in DOMAIN tree.listing |->
                    SelectSeq(tree.listing[d], LAMBDA n : n # Dot)] @@ tree.text

(* A boot with such an image comes to its end and stays inside the image. *)
BootEnds == Plain => <>(phase = "done")
=============================================================================
