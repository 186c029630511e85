------------------------------- MODULE Stdio --------------------------------
(* A stream of the C library, src/libc/stdio.c, over one descriptor of one *)
(* file. fread, fgets and fwrite are loops of the calls modelled here, one *)
(* byte each; between two of them other processes run.                     *)
(*                                                                         *)
(* Programs obey the rule of C that reads and writes are separated by a    *)
(* seek, a flush or the end of the file, and seek inside the file only.    *)
EXTENDS Integers, Sequences, SequencesExt

CONSTANTS
    Bytes,      \* the values of a byte
    EndOfLine,  \* the one that flushes
    Paths,      \* paths of the file, as sequences of characters
    BUFSIZ,     \* size of the two buffers
    Sizes,      \* sizes of read buffers that programs bring themselves
    EOF, NoByte,    \* -1 as a result and as "nothing pushed back"
    MaxLength   \* bound on the length of the file

ASSUME StdioAssumption ==
    /\ EndOfLine \in Bytes /\ EOF \notin Bytes /\ NoByte \notin Bytes \cup {EOF}
    /\ BUFSIZ \in Nat \ {0} /\ Sizes \subseteq Nat \ {0}
    /\ MaxLength \in Nat

VARIABLES
    file,       \* the bytes of the file, in the kernel
    position,   \* user_offset of the descriptor
    length,     \* length in the descriptor's node, set by open only
    rights,     \* what the descriptor may do, {} when closed
    stream,     \* the FILE
    returned,   \* result of the last call that reads a byte
    course      \* what the program has done with the stream so far:
                \*   "unread"    no read yet
                \*   "forward"   then reads only, none at the end of the file
                \*   "mixed"     anything else

streamvars == <<file, position, length, rights, stream, returned, course>>

-----------------------------------------------------------------------------
(* The FILE *)

NewBuffer(size) == [i \in 0 .. size - 1 |-> NoByte]

NewStream(wbufsiz) ==
    [read_buf |-> NewBuffer(BUFSIZ), bufsiz |-> BUFSIZ,
     available |-> 0, offset |-> 0, read_from |-> 0, ungetc |-> NoByte,
     eof |-> FALSE, last_read_start |-> 0,
     write_buf |-> <<>>, wbufsiz |-> wbufsiz]

FStream(size) ==
           [read_buf : [0 .. size - 1 -> Bytes \cup {NoByte}], bufsiz : {size},
            available : 0 .. size, offset : 0 .. size,
            read_from : 0 .. size, ungetc : Bytes \cup {NoByte},
            eof : BOOLEAN, last_read_start : 0 .. MaxLength,
            write_buf : BoundedSeq(Bytes, BUFSIZ), wbufsiz : {0, BUFSIZ}]

MayRead == "read" \in rights
MayWrite == "write" \in rights
Closed == rights = {}

(* The file f with the bytes w written at offset p. *)
Overlay(f, p, w) ==
    LET end == IF p + Len(w) > Len(f) THEN p + Len(w) ELSE Len(f) IN
    [i \in 1 .. end |-> IF i \in p + 1 .. p + Len(w) THEN w[i - p] ELSE f[i]]

(* The file after fflush, whose result of syscall_write nobody looks at. *)
Flushed(w) == IF MayWrite THEN Overlay(file, position, w) ELSE file
PositionFlushed(w) == IF MayWrite THEN position + Len(w) ELSE position

(* fseek and ftell forget what was read ahead, but not last_read_start. *)
Emptied(s) ==
    [s EXCEPT !.offset = 0, !.read_from = 0, !.available = 0,
              !.ungetc = NoByte, !.eof = FALSE, !.write_buf = <<>>]

StreamTypeOK ==
    /\ file \in BoundedSeq(Bytes, MaxLength)
    /\ position \in 0 .. MaxLength /\ length \in 0 .. MaxLength
    /\ rights \in SUBSET {"read", "write"}
    /\ stream.bufsiz \in Sizes \cup {BUFSIZ} /\ stream \in FStream(stream.bufsiz)
    /\ returned \in Bytes \cup {EOF, NoByte}
    /\ course \in {"unread", "forward", "mixed"}

StdioInit ==
    /\ file = <<>>
    /\ position = 0 /\ length = 0
    /\ rights = {}
    /\ stream = NewStream(BUFSIZ)
    /\ returned = NoByte
    /\ course = "unread"

-----------------------------------------------------------------------------
(* Opening and closing *)

(* fopen takes the flags from the letters of the path. The later of "a"    *)
(* and "+" decides about O_APPEND.                                         *)
Appends(path) ==
    \E i \in DOMAIN path :
        path[i] = "a" /\ \A j \in i + 1 .. Len(path) : path[j] # "+"

Truncates(path) == Contains(path, "w")

(* sys_open's access bits for those flags. *)
Rights(path) ==
    LET writes == Contains(path, "w") \/ Contains(path, "a")
        both == Contains(path, "+") IN
    (IF ~writes \/ both THEN {"read"} ELSE {})
        \cup (IF writes \/ both THEN {"write"} ELSE {})

fopen ==
    /\ Closed
    /\ \E path \in Paths :
        /\ rights' = Rights(path)
        /\ file' = IF Truncates(path) THEN <<>> ELSE file
        /\ position' = IF Appends(path) THEN Len(file) ELSE 0
        /\ position' <= Len(file')      \* not O_APPEND with O_TRUNC
    /\ length' = Len(file)
    /\ stream' = NewStream(BUFSIZ)
    /\ returned' = NoByte /\ course' = "unread"

(* A stream for a descriptor that was opened for both; wbufsiz stays 0. *)
fdopen ==
    /\ Closed
    /\ rights' = {"read", "write"}
    /\ position' = 0 /\ length' = Len(file)
    /\ stream' = NewStream(0)
    /\ returned' = NoByte /\ course' = "unread"
    /\ UNCHANGED file

(* Faulty: the pending bytes are not written. *)
fclose_unflushed ==
    /\ ~Closed
    /\ rights' = {}
    /\ stream' = Emptied(stream)
    /\ returned' = NoByte
    /\ UNCHANGED <<file, position, length, course>>

(* fclose, also called by __stdio_free when the program ends. *)
fclose ==
    /\ ~Closed
    /\ file' = Flushed(stream.write_buf)
    /\ position' = PositionFlushed(stream.write_buf)
    /\ rights' = {}
    /\ stream' = Emptied(stream)
    /\ returned' = NoByte
    /\ UNCHANGED <<length, course>>

(* freopen forgets what was buffered, but not last_read_start. *)
freopen ==
    /\ ~Closed
    /\ LET flushed == Flushed(stream.write_buf) IN
       /\ \E path \in Paths :
            /\ rights' = Rights(path)
            /\ file' = IF Truncates(path) THEN <<>> ELSE flushed
            /\ position' = IF Appends(path) THEN Len(flushed) ELSE 0
            /\ position' <= Len(file')      \* as in fopen
       /\ length' = Len(flushed)
    /\ stream' = Emptied(stream)
    /\ returned' = NoByte
    /\ course' = IF stream.last_read_start = 0 THEN "unread" ELSE "mixed"

(* setvbuf with _IOLBF and a buffer, before anything is done with the      *)
(* stream, as C has it.                                                    *)
setvbuf ==
    /\ ~Closed
    /\ stream = NewStream(stream.wbufsiz)
    /\ \E size \in Sizes :
        stream' = [stream EXCEPT !.read_buf = NewBuffer(size), !.bufsiz = size]
    /\ UNCHANGED <<file, position, length, rights, returned, course>>

-----------------------------------------------------------------------------
(* Reading *)

(* _read_bytes fills the rest of the buffer, from its start if it is full. *)
Filled(s) ==
    LET start == IF s.offset = s.bufsiz THEN 0 ELSE s.offset
        n == IF Len(file) - position < s.bufsiz - start
             THEN Len(file) - position ELSE s.bufsiz - start IN
    [s EXCEPT !.last_read_start = position, !.read_from = start,
              !.available = n, !.offset = start + n,
              !.read_buf = [i \in DOMAIN @ |->
                  IF i \in start .. start + n - 1 THEN file[position + i - start + 1]
                  ELSE @[i]]]

(* What _read_bytes leaves when sys_read refuses. *)
Refused(s) ==
    [s EXCEPT !.offset = IF s.offset = s.bufsiz THEN 0 ELSE @,
              !.last_read_start = position]

(* C: no read after a write that is still in the buffer. *)
Readable == ~Closed /\ stream.write_buf = <<>>

fgetc_ungotten ==
    /\ Readable /\ stream.ungetc # NoByte
    /\ returned' = stream.ungetc
    /\ stream' = [stream EXCEPT !.ungetc = NoByte]
    /\ UNCHANGED <<file, position, length, rights, course>>

(* fgetc, or a byte of fread. *)
fgetc ==
    /\ Readable /\ stream.ungetc = NoByte
    /\ MayRead
    /\ LET s == IF stream.available = 0 THEN Filled(stream) ELSE stream IN
        /\ position' = IF stream.available = 0 THEN position + s.available ELSE position
        /\ IF s.available = 0
           THEN /\ returned' = EOF
                /\ stream' = [s EXCEPT !.eof = TRUE]
                /\ course' = "mixed"
           ELSE /\ returned' = s.read_buf[s.read_from]
                /\ stream' = [s EXCEPT !.read_from = @ + 1, !.available = @ - 1]
                /\ course' = IF course = "unread" THEN "forward" ELSE course
    /\ UNCHANGED <<file, length, rights>>

fgetc_refused ==
    /\ Readable /\ stream.ungetc = NoByte
    /\ ~MayRead
    /\ returned' = EOF
    /\ stream' = [Refused(stream) EXCEPT !.eof = TRUE]
    /\ course' = "mixed"
    /\ UNCHANGED <<file, position, length, rights>>

(* The program gives back the byte it just read. *)
ungetc ==
    /\ ~Closed /\ returned \in Bytes
    /\ stream.ungetc = NoByte
    /\ stream' = [stream EXCEPT !.ungetc = returned]
    /\ returned' = NoByte /\ course' = "mixed"
    /\ UNCHANGED <<file, position, length, rights>>

-----------------------------------------------------------------------------
(* Writing *)

(* C: no write while bytes that were read ahead are in the buffer. *)
Writable == ~Closed /\ stream.available = 0 /\ stream.ungetc = NoByte

(* fputc, or a byte of fwrite: a full buffer or a newline flushes. A       *)
(* stream of fdopen is never full; the model ends where the memory does.   *)
fputc ==
    /\ Writable
    /\ Len(stream.write_buf) < BUFSIZ
    /\ position + Len(stream.write_buf) < MaxLength
    /\ \E b \in Bytes :
        LET w == Append(stream.write_buf, b) IN
        IF Len(w) = stream.wbufsiz \/ b = EndOfLine
        THEN /\ file' = Flushed(w) /\ position' = PositionFlushed(w)
             /\ stream' = [stream EXCEPT !.write_buf = <<>>]
        ELSE /\ stream' = [stream EXCEPT !.write_buf = w]
             /\ UNCHANGED <<file, position>>
    /\ returned' = NoByte
    /\ course' = IF course = "unread" THEN course ELSE "mixed"
    /\ UNCHANGED <<length, rights>>

fflush ==
    /\ stream.write_buf # <<>>
    /\ file' = Flushed(stream.write_buf)
    /\ position' = PositionFlushed(stream.write_buf)
    /\ stream' = [stream EXCEPT !.write_buf = <<>>]
    /\ returned' = NoByte
    /\ UNCHANGED <<length, rights, course>>

-----------------------------------------------------------------------------
(* Positions *)

(* Faulty: what was read ahead is counted as read. *)
TargetPastBuffer(offset, whence) ==
    CASE whence = "SEEK_SET" -> offset
      [] whence = "SEEK_END" -> length + offset
      [] whence = "SEEK_CUR" -> offset + PositionFlushed(stream.write_buf)

(* Where fseek leads: SEEK_CUR counts from read_from while there is one,   *)
(* and otherwise from the offset in the kernel, after the flush.           *)
Target(offset, whence) ==
    CASE whence = "SEEK_SET" -> offset
      [] whence = "SEEK_END" -> length + offset
      [] whence = "SEEK_CUR" ->
            offset + IF stream.read_from # 0
                     THEN stream.read_from + stream.last_read_start
                     ELSE PositionFlushed(stream.write_buf)

fseek ==
    /\ ~Closed
    /\ \E offset \in -1 .. MaxLength,
          whence \in {"SEEK_SET", "SEEK_CUR", "SEEK_END"} :
        position' = Target(offset, whence)
    /\ file' = Flushed(stream.write_buf)
    /\ position' \in 0 .. Len(file')
    /\ stream' = Emptied(stream)
    /\ returned' = NoByte
    /\ course' = IF course = "unread" THEN course ELSE "mixed"
    /\ UNCHANGED <<length, rights>>

(* ftell's result. *)
Told ==
    IF stream.read_from # 0 \/ stream.last_read_start # 0
    THEN stream.last_read_start + stream.read_from
    ELSE PositionFlushed(stream.write_buf)

ftell ==
    /\ ~Closed
    /\ file' = Flushed(stream.write_buf)
    /\ position' = PositionFlushed(stream.write_buf)
    /\ stream' = IF stream.read_from # 0 \/ stream.last_read_start # 0
                 THEN [stream EXCEPT !.write_buf = <<>>]
                 ELSE Emptied(stream)
    /\ returned' = NoByte
    /\ UNCHANGED <<length, rights, course>>

-----------------------------------------------------------------------------
(* Another process adds a byte to the file, also while bytes wait to be    *)
(* written: fflush puts those where they were to go all the same.          *)
Grow ==
    /\ Len(file) < MaxLength
    /\ \E b \in Bytes : file' = Append(file, b)
    /\ course' = IF course = "forward" THEN "mixed" ELSE course
    /\ UNCHANGED <<position, length, rights, stream, returned>>

StdioNext ==
        \/ fopen \/ fdopen \/ freopen \/ setvbuf \/ fclose
        \/ fgetc_ungotten \/ fgetc \/ fgetc_refused \/ ungetc
        \/ fputc \/ fflush
        \/ fseek \/ ftell
        \/ Grow

StdioSpec == StdioInit /\ [][StdioNext]_streamvars

-----------------------------------------------------------------------------
(* Where the program stands: before what was read ahead or pushed back and *)
(* behind what waits to be written.                                        *)
Pos ==
    PositionFlushed(stream.write_buf) - stream.available
        - (IF stream.ungetc = NoByte THEN 0 ELSE 1)

(* Whatever is read, written, pushed back, flushed and sought, the program *)
(* sees one file with one position: _read_bytes gives the bytes in order   *)
(* and once, _write_bytes and fclose lose and repeat none.  What others    *)
(* add meanwhile it sees too, except as many of their bytes as it has put  *)
(* beyond the end that they see: fflush writes its own over those.         *)
Unbuffered == INSTANCE FileStream
    WITH content <- Flushed(stream.write_buf), saved <- file, pos <- Pos, Nothing <- NoByte
ImplementsFileStream == Unbuffered!Spec

(* ftell gives the position of the program, and fseek counts from it, for  *)
(* a stream that was only written and sought, or only read, and not to its *)
(* end: the two sums of fseek and ftell agree with the kernel's offset.    *)
PositionIsKnown ==
    /\ StreamTypeOK
    /\ ~Closed /\ course # "mixed" => Told = Pos /\ Target(0, "SEEK_CUR") = Pos
=============================================================================
