---------------------------- MODULE LibraryProofs ----------------------------
(***************************************************************************)
(* A stream is a file with one position, for buffers of any size and files *)
(* of any length; what the kernel prints is on its screen, of any size and *)
(* with either driver; the functions on strings do what they are for,      *)
(* whatever the strings are; and printf into one never leaves it.          *)
(***************************************************************************)
EXTENDS Library, TLAPS, SequenceTheorems, WellFoundedInduction, FiniteSetTheorems

-----------------------------------------------------------------------------
(* Sequences and files *)

(* A bounded sequence is a sequence that is not longer than the bound. *)
LEMMA BoundedIs ==
    ASSUME NEW S, NEW n \in Nat
    PROVE  \A s : s \in BoundedSeq(S, n) <=> s \in Seq(S) /\ Len(s) <= n
<1>1. ASSUME NEW s \in BoundedSeq(S, n) PROVE s \in Seq(S) /\ Len(s) <= n
  <2>1. PICK m \in 0 .. n : s \in [1 .. m -> S]
    BY DEF BoundedSeq, SeqOf
  <2>2. m \in Nat
    OBVIOUS
  <2>3. s \in Seq(S)
    BY <2>1, <2>2, SeqDef
  <2>4. Len(s) = m
    BY <2>1, <2>2, <2>3, LenProperties
  <2>. QED
    BY <2>3, <2>4
<1>2. ASSUME NEW s \in Seq(S), Len(s) <= n PROVE s \in BoundedSeq(S, n)
  <2>1. s \in [1 .. Len(s) -> S] /\ Len(s) \in 0 .. n
    BY <1>2, LenProperties
  <2>. QED
    BY <2>1 DEF BoundedSeq, SeqOf
<1>. QED
  BY <1>1, <1>2

(* A function on 1 .. n is a sequence of length n. *)
LEMMA FunctionIsSeq ==
    ASSUME NEW S, NEW n \in Nat, NEW s \in [1 .. n -> S]
    PROVE  s \in Seq(S) /\ Len(s) = n
<1>1. s \in Seq(S)
  BY SeqDef
<1>. QED
  BY <1>1, LenProperties

(* The empty sequence. *)
LEMMA EmptyIs ==
    ASSUME NEW S
    PROVE  \E w \in Seq(S) : w = <<>> /\ Len(w) = 0
<1>1. <<>> \in Seq(S)
  BY EmptySeq
<1>2. Len(<<>>) = 0
  OBVIOUS
<1>. QED
  BY <1>1, <1>2, Zenon

(* The file with w written over it at position p. *)
LEMMA OverlayIs ==
    ASSUME NEW f \in Seq(Bytes), NEW p \in 0 .. Len(f), NEW w \in Seq(Bytes)
    PROVE  /\ Overlay(f, p, w) \in Seq(Bytes)
           /\ Len(Overlay(f, p, w)) = IF p + Len(w) > Len(f) THEN p + Len(w) ELSE Len(f)
           /\ \A i \in 1 .. Len(Overlay(f, p, w)) :
                 Overlay(f, p, w)[i] = IF i \in p + 1 .. p + Len(w) THEN w[i - p] ELSE f[i]
<1>1. Len(f) \in Nat /\ Len(w) \in Nat /\ p \in Nat
      /\ (\A i \in 1 .. Len(f) : f[i] \in Bytes)
      /\ (\A i \in 1 .. Len(w) : w[i] \in Bytes)
  BY LenProperties, ElementOfSeq
<1>2. PICK end \in Nat : end = IF p + Len(w) > Len(f) THEN p + Len(w) ELSE Len(f)
  BY <1>1
<1>3. Overlay(f, p, w) =
        [i \in 1 .. end |-> IF i \in p + 1 .. p + Len(w) THEN w[i - p] ELSE f[i]]
  BY <1>2 DEF Overlay
<1>4. ASSUME NEW i \in 1 .. end
      PROVE  (IF i \in p + 1 .. p + Len(w) THEN w[i - p] ELSE f[i]) \in Bytes
  <2>1. CASE i \in p + 1 .. p + Len(w)
    <3>1. i - p \in 1 .. Len(w)
      BY <1>1, <2>1
    <3>. QED
      BY <1>1, <2>1, <3>1
  <2>2. CASE i \notin p + 1 .. p + Len(w)
    <3>1. i \in 1 .. Len(f)
      BY <1>1, <1>2, <2>2
    <3>. QED
      BY <1>1, <2>2, <3>1
  <2>. QED
    BY <2>1, <2>2
<1>5. Overlay(f, p, w) \in [1 .. end -> Bytes]
  BY <1>3, <1>4
<1>6. Overlay(f, p, w) \in Seq(Bytes) /\ Len(Overlay(f, p, w)) = end
  BY <1>5, FunctionIsSeq
<1>. QED
  BY <1>2, <1>3, <1>6

(* Nothing written changes nothing. *)
LEMMA OverlayNothing ==
    ASSUME NEW f \in Seq(Bytes), NEW p \in 0 .. Len(f)
    PROVE  Overlay(f, p, <<>>) = f
<1>1. PICK w \in Seq(Bytes) : w = <<>> /\ Len(w) = 0
  BY EmptyIs
<1>2. Len(f) \in Nat /\ p \in Nat /\ p <= Len(f) /\ p + Len(w) = p
  BY <1>1, LenProperties
<1>3. PICK g : g = Overlay(f, p, w)
  OBVIOUS
<1>4. g \in Seq(Bytes) /\ Len(g) = Len(f) /\ \A i \in 1 .. Len(f) : g[i] = f[i]
  <2>1. /\ g \in Seq(Bytes)
        /\ Len(g) = IF p + Len(w) > Len(f) THEN p + Len(w) ELSE Len(f)
        /\ \A i \in 1 .. Len(g) : g[i] = IF i \in p + 1 .. p + Len(w) THEN w[i - p] ELSE f[i]
    BY <1>3, OverlayIs
  <2>2. p + 1 .. p + Len(w) = {}
    BY <1>2
  <2>. QED
    BY <1>2, <2>1, <2>2
<1>5. g = f
  BY <1>4, SeqEqual
<1>. QED
  BY <1>1, <1>3, <1>5

-----------------------------------------------------------------------------
(* The fields of a FILE *)

(* The types of the fields. *)
LEMMA FieldsAre ==
    ASSUME NEW size \in Nat \ {0}, NEW s \in FStream(size)
    PROVE  /\ s.read_buf \in [0 .. size - 1 -> Bytes \cup {NoByte}] /\ s.bufsiz = size
           /\ s.available \in 0 .. size /\ s.offset \in 0 .. size /\ s.read_from \in 0 .. size
           /\ s.ungetc \in Bytes \cup {NoByte} /\ s.eof \in BOOLEAN
           /\ s.last_read_start \in 0 .. MaxLength
           /\ s.write_buf \in Seq(Bytes) /\ Len(s.write_buf) \in 0 .. BUFSIZ
           /\ s.wbufsiz \in {0, BUFSIZ}
           /\ s = [read_buf |-> s.read_buf, bufsiz |-> s.bufsiz, available |-> s.available,
                   offset |-> s.offset, read_from |-> s.read_from, ungetc |-> s.ungetc,
                   eof |-> s.eof, last_read_start |-> s.last_read_start,
                   write_buf |-> s.write_buf, wbufsiz |-> s.wbufsiz]
<1>1. /\ s.read_buf \in [0 .. size - 1 -> Bytes \cup {NoByte}] /\ s.bufsiz = size
      /\ s.available \in 0 .. size /\ s.offset \in 0 .. size /\ s.read_from \in 0 .. size
      /\ s.ungetc \in Bytes \cup {NoByte} /\ s.eof \in BOOLEAN
      /\ s.last_read_start \in 0 .. MaxLength
      /\ s.write_buf \in BoundedSeq(Bytes, BUFSIZ)
      /\ s.wbufsiz \in {0, BUFSIZ}
  BY DEF FStream
<1>2. s.write_buf \in Seq(Bytes) /\ Len(s.write_buf) <= BUFSIZ
  BY <1>1, BoundedIs, StdioAssumption
<1>3. Len(s.write_buf) \in 0 .. BUFSIZ
  BY <1>2, LenProperties, StdioAssumption
<1>4. s = [read_buf |-> s.read_buf, bufsiz |-> s.bufsiz, available |-> s.available,
           offset |-> s.offset, read_from |-> s.read_from, ungetc |-> s.ungetc,
           eof |-> s.eof, last_read_start |-> s.last_read_start,
           write_buf |-> s.write_buf, wbufsiz |-> s.wbufsiz]
  BY DEF FStream
<1>. QED
  BY <1>1, <1>2, <1>3, <1>4

(* A FILE, field by field. *)
Record(buf, size, n, o, r, u, e, l, w, z) ==
    [read_buf |-> buf, bufsiz |-> size, available |-> n, offset |-> o, read_from |-> r,
     ungetc |-> u, eof |-> e, last_read_start |-> l, write_buf |-> w, wbufsiz |-> z]

(* A record with fields of these types is a FILE. *)
LEMMA RecordIs ==
    ASSUME NEW size, NEW buf \in [0 .. size - 1 -> Bytes \cup {NoByte}],
           NEW n \in 0 .. size, NEW o \in 0 .. size, NEW r \in 0 .. size,
           NEW u \in Bytes \cup {NoByte}, NEW e \in BOOLEAN, NEW l \in 0 .. MaxLength,
           NEW w \in Seq(Bytes), Len(w) <= BUFSIZ, NEW z \in {0, BUFSIZ}
    PROVE  Record(buf, size, n, o, r, u, e, l, w, z) \in FStream(size)
<1>1. w \in BoundedSeq(Bytes, BUFSIZ)
  BY BoundedIs, StdioAssumption
<1>. QED
  BY <1>1 DEF FStream, Record

(* A stream with nothing in its buffers. *)
Blank(s) ==
    /\ s.bufsiz \in Sizes \cup {BUFSIZ} /\ s \in FStream(s.bufsiz)
    /\ s.available = 0 /\ s.offset = 0 /\ s.read_from = 0
    /\ s.ungetc = NoByte /\ s.write_buf = <<>>

(* A new stream is blank. *)
LEMMA NewIsBlank ==
    ASSUME NEW w \in {0, BUFSIZ}
    PROVE  Blank(NewStream(w)) /\ NewStream(w).last_read_start = 0
<1>1. PICK s : s = NewStream(w)
  OBVIOUS
<1>2. PICK buf \in [0 .. BUFSIZ - 1 -> Bytes \cup {NoByte}] : buf = NewBuffer(BUFSIZ)
  BY DEF NewBuffer
<1>3. s = [read_buf |-> buf, bufsiz |-> BUFSIZ, available |-> 0, offset |-> 0,
           read_from |-> 0, ungetc |-> NoByte, eof |-> FALSE, last_read_start |-> 0,
           write_buf |-> <<>>, wbufsiz |-> w]
  BY <1>1, <1>2 DEF NewStream
<1>4. s \in FStream(BUFSIZ)
  <2>1. PICK v \in Seq(Bytes) : v = <<>> /\ Len(v) = 0
    BY EmptyIs
  <2>2. PICK o \in 0 .. BUFSIZ, l \in 0 .. MaxLength, u \in Bytes \cup {NoByte} :
          o = 0 /\ l = 0 /\ Len(v) <= BUFSIZ /\ u = NoByte
    BY <2>1, StdioAssumption
  <2>3. PICK e \in BOOLEAN : e = FALSE
    OBVIOUS
  <2>4. Record(buf, BUFSIZ, o, o, o, u, e, l, v, w) \in FStream(BUFSIZ)
    BY <2>2, RecordIs
  <2>. QED
    BY <1>3, <2>1, <2>2, <2>3, <2>4 DEF Record
<1>5. /\ s.bufsiz = BUFSIZ /\ s.available = 0 /\ s.offset = 0 /\ s.read_from = 0
      /\ s.ungetc = NoByte /\ s.write_buf = <<>> /\ s.last_read_start = 0
  BY <1>3
<1>. QED
  BY <1>1, <1>4, <1>5 DEF Blank

(* So is one that was emptied. *)
LEMMA EmptiedIsBlank ==
    ASSUME NEW size \in Sizes \cup {BUFSIZ}, NEW s \in FStream(size)
    PROVE  Blank(Emptied(s)) /\ Emptied(s).last_read_start = s.last_read_start
<1>0. size \in Nat \ {0}
  BY StdioAssumption
<1>1. /\ s.read_buf \in [0 .. size - 1 -> Bytes \cup {NoByte}] /\ s.bufsiz = size
      /\ s.last_read_start \in 0 .. MaxLength /\ s.wbufsiz \in {0, BUFSIZ}
      /\ s = [read_buf |-> s.read_buf, bufsiz |-> s.bufsiz, available |-> s.available,
              offset |-> s.offset, read_from |-> s.read_from, ungetc |-> s.ungetc,
              eof |-> s.eof, last_read_start |-> s.last_read_start,
              write_buf |-> s.write_buf, wbufsiz |-> s.wbufsiz]
  BY <1>0, FieldsAre
<1>2. PICK t : t = Emptied(s)
  OBVIOUS
<1>3. t = [read_buf |-> s.read_buf, bufsiz |-> size, available |-> 0, offset |-> 0,
           read_from |-> 0, ungetc |-> NoByte, eof |-> FALSE,
           last_read_start |-> s.last_read_start, write_buf |-> <<>>, wbufsiz |-> s.wbufsiz]
  BY <1>1, <1>2 DEF Emptied
<1>4. t \in FStream(size)
  <2>0. PICK v \in Seq(Bytes) : v = <<>> /\ Len(v) = 0
    BY EmptyIs
  <2>1. PICK o \in 0 .. size, u \in Bytes \cup {NoByte} :
          o = 0 /\ Len(v) <= BUFSIZ /\ u = NoByte
    BY <1>0, <2>0, StdioAssumption
  <2>2. PICK buf \in [0 .. size - 1 -> Bytes \cup {NoByte}], l \in 0 .. MaxLength,
             z \in {0, BUFSIZ} :
          buf = s.read_buf /\ l = s.last_read_start /\ z = s.wbufsiz
    BY <1>1
  <2>3. PICK e \in BOOLEAN : e = FALSE
    OBVIOUS
  <2>4. Record(buf, size, o, o, o, u, e, l, v, z) \in FStream(size)
    BY <2>1, RecordIs
  <2>. QED
    BY <1>3, <2>0, <2>1, <2>2, <2>3, <2>4 DEF Record
<1>5. /\ t.bufsiz = size /\ t.available = 0 /\ t.offset = 0 /\ t.read_from = 0
      /\ t.ungetc = NoByte /\ t.write_buf = <<>> /\ t.last_read_start = s.last_read_start
  BY <1>3
<1>. QED
  BY <1>2, <1>4, <1>5 DEF Blank

-----------------------------------------------------------------------------
(* The invariant *)

(* StreamTypeOK, with bounded sequences as sequences. *)
Shape ==
    /\ file \in Seq(Bytes) /\ Len(file) <= MaxLength
    /\ position \in 0 .. Len(file) /\ length \in 0 .. MaxLength
    /\ rights \in SUBSET {"read", "write"}
    /\ stream.bufsiz \in Sizes \cup {BUFSIZ} /\ stream \in FStream(stream.bufsiz)
    /\ returned \in Bytes \cup {EOF, NoByte}
    /\ course \in {"unread", "forward", "mixed"}
    /\ position + Len(stream.write_buf) <= MaxLength

(* What was read ahead is in the buffer at read_from, as it is in the file *)
(* before the kernel's offset; what waits to be written excludes that.     *)
Ahead ==
    /\ stream.read_from + stream.available <= stream.bufsiz
    /\ stream.available <= position
    /\ \A k \in 0 .. stream.available - 1 :
          stream.read_buf[stream.read_from + k] = file[position - stream.available + k + 1]
    /\ stream.available > 0 => stream.write_buf = <<>> /\ MayRead

(* The byte that was pushed back is the next one of the file.              *)
Pushed ==
    stream.ungetc # NoByte =>
        /\ stream.write_buf = <<>> /\ MayRead
        /\ stream.available < position
        /\ stream.ungetc = file[position - stream.available]

(* The byte that was read last is the one before the position.             *)
Behind ==
    returned \in Bytes =>
        /\ stream.write_buf = <<>> /\ MayRead
        /\ Pos \in 1 .. Len(file) /\ returned = file[Pos]

(* How the two sums of fseek and ftell come about: nothing was read, or    *)
(* the buffer was filled from its start each time but the last, which came *)
(* to the end of the file.                                                 *)
Known ==
    /\ ~Closed /\ course = "unread" =>
        /\ stream.last_read_start = 0 /\ stream.read_from = 0 /\ stream.available = 0
        /\ stream.offset = 0 /\ stream.ungetc = NoByte
    /\ ~Closed /\ course = "forward" =>
        /\ stream.ungetc = NoByte /\ stream.write_buf = <<>> /\ stream.read_from > 0
        /\ stream.last_read_start + stream.read_from + stream.available = position
        /\ stream.offset = stream.bufsiz \/ position = Len(file)

IInv == Shape /\ Ahead /\ Pushed /\ Behind /\ Known

(* The types of the fields of the stream, and its buffers. *)
LEMMA StreamIs ==
    ASSUME Shape
    PROVE  /\ stream.bufsiz \in Nat \ {0} /\ stream \in FStream(stream.bufsiz)
           /\ stream.read_buf \in [0 .. stream.bufsiz - 1 -> Bytes \cup {NoByte}]
           /\ stream.available \in 0 .. stream.bufsiz /\ stream.offset \in 0 .. stream.bufsiz
           /\ stream.read_from \in 0 .. stream.bufsiz
           /\ stream.ungetc \in Bytes \cup {NoByte} /\ stream.eof \in BOOLEAN
           /\ stream.last_read_start \in 0 .. MaxLength
           /\ stream.write_buf \in Seq(Bytes) /\ Len(stream.write_buf) \in 0 .. BUFSIZ
           /\ stream.wbufsiz \in {0, BUFSIZ}
<1>1. stream.bufsiz \in Nat \ {0} /\ stream \in FStream(stream.bufsiz)
  BY StdioAssumption DEF Shape
<1>. QED
  BY <1>1, FieldsAre

(* The file after the pending bytes are written, if they may be. *)
LEMMA FlushedIs ==
    ASSUME Shape, NEW w \in Seq(Bytes), position + Len(w) <= MaxLength
    PROVE  /\ Flushed(w) \in Seq(Bytes) /\ Len(Flushed(w)) <= MaxLength
           /\ PositionFlushed(w) \in 0 .. Len(Flushed(w))
           /\ PositionFlushed(w) <= position + Len(w)
           /\ PositionFlushed(w) >= position
<1>1. /\ file \in Seq(Bytes) /\ Len(file) \in Nat /\ Len(file) <= MaxLength
      /\ position \in 0 .. Len(file) /\ Len(w) \in Nat
  BY LenProperties DEF Shape
<1>2. CASE MayWrite
  <2>1. Flushed(w) = Overlay(file, position, w) /\ PositionFlushed(w) = position + Len(w)
    BY <1>2 DEF Flushed, PositionFlushed
  <2>2. /\ Overlay(file, position, w) \in Seq(Bytes)
        /\ Len(Overlay(file, position, w))
             = IF position + Len(w) > Len(file) THEN position + Len(w) ELSE Len(file)
    BY <1>1, OverlayIs
  <2>. QED
    BY <1>1, <2>1, <2>2
<1>3. CASE ~MayWrite
  BY <1>1, <1>3 DEF Flushed, PositionFlushed
<1>. QED
  BY <1>2, <1>3

(* Nothing pending changes nothing. *)
NoneFlushed == Shape => Flushed(<<>>) = file /\ PositionFlushed(<<>>) = position

(* The empty buffer is flushed without effect. *)
LEMMA FlushedNothing == NoneFlushed
<1>1. SUFFICES ASSUME Shape PROVE Flushed(<<>>) = file /\ PositionFlushed(<<>>) = position
  BY DEF NoneFlushed
<1>2. file \in Seq(Bytes) /\ position \in 0 .. Len(file) /\ position \in Nat
  <2>1. file \in Seq(Bytes) /\ position \in 0 .. Len(file)
    BY <1>1 DEF Shape
  <2>2. Len(file) \in Nat
    BY <2>1, LenProperties
  <2>. QED
    BY <2>1, <2>2
<1>3. Overlay(file, position, <<>>) = file
  BY <1>2, OverlayNothing
<1>4. PICK w \in Seq(Bytes) : w = <<>> /\ Len(w) = 0
  BY EmptyIs
<1>5. position + Len(w) = position
  BY <1>2, <1>4
<1>6. PositionFlushed(w) = position
  BY <1>5 DEF PositionFlushed
<1>7. Flushed(w) = file
  BY <1>3, <1>4 DEF Flushed
<1>. QED
  BY <1>4, <1>6, <1>7

(* The same after a step. *)
LEMMA FlushedNothingAfter == NoneFlushed'
BY FlushedNothing, PTL

-----------------------------------------------------------------------------
(* Every step keeps the invariant *)

(* A stream with empty buffers has the invariant wherever it stands.       *)
LEMMA BlankKeeps ==
    ASSUME Blank(stream'), file' \in Seq(Bytes), Len(file') <= MaxLength,
           position' \in 0 .. Len(file'), length' \in 0 .. MaxLength,
           rights' \in SUBSET {"read", "write"}, returned' = NoByte,
           course' \in {"unread", "forward", "mixed"},
           course' = "forward" => Closed',
           ~Closed' /\ course' = "unread" => stream'.last_read_start = 0
    PROVE  IInv'
<1>1. /\ stream'.bufsiz \in Sizes \cup {BUFSIZ} /\ stream' \in FStream(stream'.bufsiz)
      /\ stream'.available = 0 /\ stream'.offset = 0 /\ stream'.read_from = 0
      /\ stream'.ungetc = NoByte /\ stream'.write_buf = <<>>
  BY DEF Blank
<1>2. stream'.bufsiz \in Nat \ {0}
  BY <1>1, StdioAssumption
<1>3. PICK p \in Nat, n \in Nat : p = position' /\ n = Len(file') /\ p <= n
  BY LenProperties
<1>4. position' + Len(stream'.write_buf) <= MaxLength
  <2>1. Len(stream'.write_buf) = 0
    BY <1>1
  <2>2. PICK m \in Nat : m = MaxLength
    BY StdioAssumption
  <2>3. n <= m
    BY <1>3, <2>2
  <2>4. p + 0 <= m
    <3>1. p <= n
      BY <1>3
    <3>2. p <= m
      BY <2>3, <3>1
    <3>. QED
      BY <3>2
  <2>. QED
    BY <1>3, <2>1, <2>2, <2>4
<1>5. Shape'
  BY <1>1, <1>4 DEF Shape
<1>6. Ahead'
  BY <1>1, <1>2, <1>3 DEF Ahead
<1>7. Pushed' /\ Behind'
  BY <1>1, StdioAssumption DEF Pushed, Behind
<1>8. Known'
  BY <1>1 DEF Known, Closed
<1>. QED
  BY <1>5, <1>6, <1>7, <1>8 DEF IInv

(* At the start there is an empty file and no stream.                      *)
LEMMA InitInv ==
    ASSUME StdioInit
    PROVE  IInv
<1>1. /\ file = <<>> /\ position = 0 /\ length = 0 /\ rights = {}
      /\ stream = NewStream(BUFSIZ) /\ returned = NoByte /\ course = "unread"
  BY DEF StdioInit
<1>2. PICK f \in Seq(Bytes) : f = <<>> /\ Len(f) = 0
  BY EmptyIs
<1>3. file \in Seq(Bytes) /\ Len(file) = 0
  BY <1>1, <1>2
<1>4. /\ stream.bufsiz \in Sizes \cup {BUFSIZ} /\ stream \in FStream(stream.bufsiz)
      /\ stream.available = 0 /\ stream.offset = 0 /\ stream.read_from = 0
      /\ stream.ungetc = NoByte /\ stream.write_buf = <<>>
  BY <1>1, NewIsBlank DEF Blank
<1>5. stream.bufsiz \in Nat \ {0}
  BY <1>4, StdioAssumption
<1>6. Shape
  <2>1. Len(stream.write_buf) = 0
    BY <1>4
  <2>2. 0 \in 0 .. 0 /\ 0 + 0 <= MaxLength /\ 0 \in 0 .. MaxLength /\ 0 <= MaxLength
    BY StdioAssumption
  <2>3. position \in 0 .. Len(file) /\ length \in 0 .. MaxLength
        /\ position + Len(stream.write_buf) <= MaxLength
    BY <1>1, <1>3, <2>1, <2>2
  <2>. QED
    BY <1>1, <1>3, <1>4, <2>2, <2>3 DEF Shape
<1>7. Ahead /\ Pushed /\ Behind
  BY <1>1, <1>4, <1>5, StdioAssumption DEF Ahead, Pushed, Behind
<1>8. Known
  BY <1>1 DEF Known, Closed
<1>. QED
  BY <1>6, <1>7, <1>8 DEF IInv

(* A path gives some rights. *)
LEMMA RightsAre ==
    ASSUME NEW path
    PROVE  Rights(path) \in SUBSET {"read", "write"}
BY DEF Rights

(* Opening.                                                                *)
LEMMA OpenKeeps ==
    ASSUME IInv, fopen \/ fdopen
    PROVE  IInv'
<1>0. /\ file \in Seq(Bytes) /\ Len(file) <= MaxLength /\ Len(file) \in Nat
  BY LenProperties DEF IInv, Shape
<1>1. PICK w \in {0, BUFSIZ} : stream' = NewStream(w)
  BY DEF fopen, fdopen
<1>2. Blank(stream') /\ stream'.last_read_start = 0
  BY <1>1, NewIsBlank
<1>3. PICK e \in Seq(Bytes) : e = <<>> /\ Len(e) = 0
  BY EmptyIs
<1>4. file' \in {e, file} /\ position' \in 0 .. Len(file')
  <2>1. CASE fopen
    <3>1. file' \in {e, file} /\ position' \in {0, Len(file)} /\ position' <= Len(file')
      BY <1>3, <2>1 DEF fopen
    <3>2. Len(file') \in Nat
      BY <1>0, <1>3, <3>1
    <3>. QED
      BY <1>0, <3>1, <3>2
  <2>2. CASE fdopen
    BY <1>0, <2>2 DEF fdopen
  <2>. QED
    BY <2>1, <2>2
<1>5. file' \in Seq(Bytes) /\ Len(file') <= MaxLength
  <2>1. Len(e) <= MaxLength
    BY <1>3, StdioAssumption
  <2>. QED
    BY <1>0, <1>4, <2>1
<1>6. length' \in 0 .. MaxLength /\ returned' = NoByte /\ course' = "unread"
  BY <1>0 DEF fopen, fdopen
<1>7. rights' \in SUBSET {"read", "write"}
  BY RightsAre DEF fopen, fdopen
<1>. QED
  BY <1>2, <1>4, <1>5, <1>6, <1>7, BlankKeeps

(* The file after the flush with which fclose, freopen, fseek and ftell    *)
(* begin, and the emptied stream.                                          *)
LEMMA EmptyingIs ==
    ASSUME IInv
    PROVE  /\ Flushed(stream.write_buf) \in Seq(Bytes)
           /\ Len(Flushed(stream.write_buf)) \in Nat
           /\ Len(Flushed(stream.write_buf)) <= MaxLength
           /\ PositionFlushed(stream.write_buf) \in 0 .. Len(Flushed(stream.write_buf))
           /\ Blank(Emptied(stream))
           /\ Emptied(stream).last_read_start = stream.last_read_start
<1>1. Shape
  BY DEF IInv
<1>2. stream.write_buf \in Seq(Bytes) /\ position + Len(stream.write_buf) <= MaxLength
  BY <1>1, StreamIs DEF Shape
<1>3. stream.bufsiz \in Sizes \cup {BUFSIZ} /\ stream \in FStream(stream.bufsiz)
  BY <1>1 DEF Shape
<1>4. Blank(Emptied(stream)) /\ Emptied(stream).last_read_start = stream.last_read_start
  BY <1>3, EmptiedIsBlank
<1>. QED
  BY <1>1, <1>2, <1>4, FlushedIs, LenProperties

(* Closing, reopening and seeking.                                         *)
LEMMA EmptyingKeeps ==
    ASSUME IInv, fclose \/ freopen \/ fseek
    PROVE  IInv'
<1>0. /\ length \in 0 .. MaxLength /\ rights \in SUBSET {"read", "write"}
      /\ course \in {"unread", "forward", "mixed"}
  BY DEF IInv, Shape
<1>1. PICK flushed \in Seq(Bytes), at \in Nat :
        /\ flushed = Flushed(stream.write_buf) /\ at = PositionFlushed(stream.write_buf)
        /\ Len(flushed) \in Nat /\ Len(flushed) <= MaxLength /\ at <= Len(flushed)
  BY EmptyingIs
<1>2. stream' = Emptied(stream) /\ returned' = NoByte
  BY DEF fclose, freopen, fseek
<1>3. Blank(stream') /\ stream'.last_read_start = stream.last_read_start
  BY <1>2, EmptyingIs
<1>4. PICK e \in Seq(Bytes) : e = <<>> /\ Len(e) = 0
  BY EmptyIs
<1>5. CASE fclose
  <2>1. /\ file' = flushed /\ position' = at /\ rights' = {} /\ length' = length
        /\ course' = course
    BY <1>1, <1>5 DEF fclose
  <2>2. Closed'
    BY <2>1 DEF Closed
  <2>. QED
    BY <1>0, <1>1, <1>2, <1>3, <2>1, <2>2, BlankKeeps
<1>6. CASE freopen
  <2>1. /\ file' \in {e, flushed} /\ position' \in {0, Len(flushed)} /\ position' <= Len(file')
        /\ length' = Len(flushed)
        /\ course' = IF stream.last_read_start = 0 THEN "unread" ELSE "mixed"
    BY <1>1, <1>4, <1>6 DEF freopen
  <2>2. rights' \in SUBSET {"read", "write"}
    BY <1>6, RightsAre DEF freopen
  <2>3. Len(e) <= MaxLength /\ Len(e) \in Nat
    BY <1>4, StdioAssumption
  <2>4. file' \in Seq(Bytes) /\ Len(file') <= MaxLength /\ Len(file') \in Nat
    BY <1>1, <2>1, <2>3
  <2>5. position' \in 0 .. Len(file') /\ length' \in 0 .. MaxLength
    BY <1>1, <2>1, <2>4
  <2>. QED
    BY <1>2, <1>3, <2>1, <2>2, <2>4, <2>5, BlankKeeps
<1>7. CASE fseek
  <2>1. /\ file' = flushed /\ position' \in 0 .. Len(file') /\ length' = length
        /\ rights' = rights /\ course' = IF course = "unread" THEN course ELSE "mixed"
        /\ ~Closed
    BY <1>1, <1>7 DEF fseek
  <2>2. ~Closed' /\ course' = "unread" => stream'.last_read_start = 0
    BY <1>3, <2>1 DEF IInv, Known
  <2>. QED
    BY <1>0, <1>1, <1>2, <1>3, <2>1, <2>2, BlankKeeps
<1>. QED
  BY <1>5, <1>6, <1>7

(* What the parts of the invariant say, with the position as a number.     *)
LEMMA InvIs ==
    ASSUME IInv
    PROVE  /\ Shape /\ file \in Seq(Bytes) /\ Len(file) \in Nat /\ Len(file) <= MaxLength
           /\ position \in Nat /\ position <= Len(file) /\ position <= MaxLength
           /\ \A i \in 1 .. Len(file) : file[i] \in Bytes
           /\ stream.write_buf = <<>> =>
                /\ PositionFlushed(stream.write_buf) = position
                /\ Flushed(stream.write_buf) = file
                /\ Pos = position - stream.available
                           - (IF stream.ungetc = NoByte THEN 0 ELSE 1)
<1>1. Shape
  BY DEF IInv
<1>2. file \in Seq(Bytes) /\ position \in 0 .. Len(file) /\ Len(file) <= MaxLength
  BY <1>1 DEF Shape
<1>3. Len(file) \in Nat /\ \A i \in 1 .. Len(file) : file[i] \in Bytes
  BY <1>2, LenProperties, ElementOfSeq
<1>4. position \in Nat /\ position <= Len(file) /\ position <= MaxLength
  <2>1. PICK n \in Nat, m \in Nat : n = Len(file) /\ m = MaxLength
    BY <1>3, StdioAssumption
  <2>2. position \in 0 .. n /\ n <= m
    BY <1>2, <2>1
  <2>3. position \in Nat /\ position <= n
    BY <2>2
  <2>4. position <= m
    BY <2>2, <2>3
  <2>. QED
    BY <2>1, <2>3, <2>4
<1>5. ASSUME stream.write_buf = <<>>
      PROVE  /\ PositionFlushed(stream.write_buf) = position
             /\ Flushed(stream.write_buf) = file
             /\ Pos = position - stream.available - (IF stream.ungetc = NoByte THEN 0 ELSE 1)
  BY <1>1, <1>5, FlushedNothing DEF NoneFlushed, Pos
<1>. QED
  BY <1>1, <1>2, <1>3, <1>4, <1>5

(* The position after a step that leaves nothing pending.                  *)
LEMMA PosAfter ==
    ASSUME Shape', stream'.write_buf = <<>>
    PROVE  /\ Pos' = position' - stream'.available
                       - (IF stream'.ungetc = NoByte THEN 0 ELSE 1)
           /\ Flushed(stream.write_buf)' = file'
BY FlushedNothingAfter DEF NoneFlushed, Pos

(* Giving a new stream another buffer.                                     *)
LEMMA SetvbufKeeps ==
    ASSUME IInv, setvbuf
    PROVE  IInv'
<1>0. Shape /\ Ahead /\ Pushed /\ Behind /\ Known
  BY DEF IInv
<1>1. PICK size \in Sizes :
        stream' = [stream EXCEPT !.read_buf = NewBuffer(size), !.bufsiz = size]
  BY DEF setvbuf
<1>2. stream = NewStream(stream.wbufsiz) /\ UNCHANGED <<file, position, length, rights, returned, course>>
  BY DEF setvbuf
<1>3. stream.wbufsiz \in {0, BUFSIZ}
  BY <1>0, StreamIs
<1>4. /\ stream.available = 0 /\ stream.offset = 0 /\ stream.read_from = 0
      /\ stream.ungetc = NoByte /\ stream.write_buf = <<>> /\ stream.last_read_start = 0
  BY <1>2, <1>3, NewIsBlank DEF Blank
<1>5. size \in Nat \ {0} /\ size \in Sizes \cup {BUFSIZ}
  BY StdioAssumption
<1>6. PICK buf \in [0 .. size - 1 -> Bytes \cup {NoByte}] : buf = NewBuffer(size)
  BY DEF NewBuffer
<1>7. PICK s \in FStream(stream.bufsiz) :
        /\ s = stream /\ s.available = 0 /\ s.offset = 0 /\ s.read_from = 0
        /\ s.ungetc = NoByte /\ s.last_read_start = 0 /\ s.write_buf = <<>>
        /\ s.eof \in BOOLEAN /\ s.wbufsiz \in {0, BUFSIZ}
  BY <1>0, <1>3, <1>4, StreamIs
<1>8. PICK t : t = stream'
  OBVIOUS
<1>9. t = Record(buf, size, 0, 0, 0, NoByte, s.eof, 0, <<>>, s.wbufsiz)
  <2>1. t = [s EXCEPT !.read_buf = buf, !.bufsiz = size]
    BY <1>1, <1>6, <1>7, <1>8
  <2>. QED
    BY <1>7, <2>1 DEF FStream, Record
<1>10. t \in FStream(size)
  <2>1. PICK v \in Seq(Bytes) : v = <<>> /\ Len(v) = 0
    BY EmptyIs
  <2>2. PICK o \in 0 .. size, l \in 0 .. MaxLength, u \in Bytes \cup {NoByte} :
          o = 0 /\ l = 0 /\ Len(v) <= BUFSIZ /\ u = NoByte
    BY <1>5, <2>1, StdioAssumption
  <2>3. PICK e \in BOOLEAN, z \in {0, BUFSIZ} : e = s.eof /\ z = s.wbufsiz
    BY <1>7
  <2>4. Record(buf, size, o, o, o, u, e, l, v, z) \in FStream(size)
    BY <2>2, RecordIs
  <2>. QED
    BY <1>9, <2>1, <2>2, <2>3, <2>4
<1>11. /\ t.bufsiz = size /\ t.available = 0 /\ t.offset = 0 /\ t.read_from = 0
       /\ t.ungetc = NoByte /\ t.write_buf = <<>> /\ t.last_read_start = 0
  BY <1>9 DEF Record
<1>12. Shape'
  <2>1. stream'.bufsiz \in Sizes \cup {BUFSIZ} /\ stream' \in FStream(stream'.bufsiz)
    BY <1>5, <1>8, <1>10, <1>11
  <2>2. Len(stream'.write_buf) = Len(stream.write_buf)
    BY <1>4, <1>8, <1>11
  <2>. QED
    BY <1>0, <1>2, <2>1, <2>2 DEF Shape
<1>13. Ahead'
  <2>1. position \in Nat
    BY InvIs
  <2>. QED
    BY <1>2, <1>5, <1>8, <1>11, <2>1 DEF Ahead
<1>14. Pushed'
  BY <1>8, <1>11 DEF Pushed
<1>15. Behind'
  <2>1. PICK at : at = Pos
    OBVIOUS
  <2>2. at = position - 0 - 0 /\ Pos' = position - 0 - 0
    BY <1>2, <1>4, <1>8, <1>11, <1>12, <2>1, InvIs, PosAfter
  <2>. QED
    BY <1>0, <1>2, <1>4, <1>8, <1>11, <2>1, <2>2 DEF Behind, MayRead
<1>16. Known'
  BY <1>0, <1>2, <1>4, <1>8, <1>11 DEF Known, Closed
<1>. QED
  BY <1>12, <1>13, <1>14, <1>15, <1>16 DEF IInv

(* Values that fields of the stream may have.                              *)
MaySet(n, o, r, u, e, l, w) ==
    /\ n \in 0 .. stream.bufsiz /\ o \in 0 .. stream.bufsiz /\ r \in 0 .. stream.bufsiz
    /\ u \in Bytes \cup {NoByte} /\ e \in BOOLEAN /\ l \in 0 .. MaxLength
    /\ w \in Seq(Bytes) /\ Len(w) <= BUFSIZ

(* A step that gives them to the fields.                                   *)
Sets(n, o, r, u, e, l, w) ==
    stream' = Record(stream.read_buf, stream.bufsiz, n, o, r, u, e, l, w, stream.wbufsiz)

(* The stream after a step that sets fields of it.                         *)
LEMMA StreamSet ==
    ASSUME Shape, NEW n, NEW o, NEW r, NEW u, NEW e, NEW l, NEW w,
           MaySet(n, o, r, u, e, l, w), Sets(n, o, r, u, e, l, w)
    PROVE  /\ stream'.bufsiz \in Sizes \cup {BUFSIZ} /\ stream' \in FStream(stream'.bufsiz)
           /\ stream'.read_buf = stream.read_buf /\ stream'.bufsiz = stream.bufsiz
           /\ stream'.available = n /\ stream'.offset = o /\ stream'.read_from = r
           /\ stream'.ungetc = u /\ stream'.last_read_start = l /\ stream'.write_buf = w
<1>1. PICK buf, size, z : buf = stream.read_buf /\ size = stream.bufsiz /\ z = stream.wbufsiz
  OBVIOUS
<1>2. /\ buf \in [0 .. size - 1 -> Bytes \cup {NoByte}] /\ z \in {0, BUFSIZ}
      /\ n \in 0 .. size /\ o \in 0 .. size /\ r \in 0 .. size
      /\ size \in Sizes \cup {BUFSIZ}
      /\ u \in Bytes \cup {NoByte} /\ e \in BOOLEAN /\ l \in 0 .. MaxLength
      /\ w \in Seq(Bytes) /\ Len(w) <= BUFSIZ
  BY <1>1, StreamIs DEF Shape, MaySet
<1>3. PICK t : t = Record(buf, size, n, o, r, u, e, l, w, z)
  OBVIOUS
<1>4. t \in FStream(size)
  BY <1>2, <1>3, RecordIs
<1>5. /\ t.read_buf = buf /\ t.bufsiz = size /\ t.available = n /\ t.offset = o
      /\ t.read_from = r /\ t.ungetc = u /\ t.last_read_start = l /\ t.write_buf = w
  BY <1>3 DEF Record
<1>6. stream' = t
  BY <1>1, <1>3 DEF Sets
<1>. QED
  BY <1>1, <1>2, <1>4, <1>5, <1>6

(* The stream, field by field.                                             *)
LEMMA StreamRecord ==
    ASSUME Shape
    PROVE  /\ stream = Record(stream.read_buf, stream.bufsiz, stream.available, stream.offset,
                              stream.read_from, stream.ungetc, stream.eof,
                              stream.last_read_start, stream.write_buf, stream.wbufsiz)
<1>1. stream.bufsiz \in Nat \ {0} /\ stream \in FStream(stream.bufsiz)
  BY StreamIs
<1>. QED
  BY <1>1, FieldsAre DEF Record

(* The fields have values that they may have.                              *)
LEMMA FieldsMay ==
    ASSUME Shape
    PROVE  MaySet(stream.available, stream.offset, stream.read_from, stream.ungetc, stream.eof,
                  stream.last_read_start, stream.write_buf)
<1>1. Len(stream.write_buf) <= BUFSIZ
  BY StreamIs, StdioAssumption
<1>. QED
  BY <1>1, StreamIs DEF MaySet

(* Reading the byte that was pushed back.                                  *)
LEMMA UngottenKeeps ==
    ASSUME IInv, fgetc_ungotten
    PROVE  /\ IInv' /\ Pos' = Pos + 1 /\ file' = file /\ MayRead
           /\ Pos + 1 \in 1 .. Len(file) /\ returned' = file[Pos + 1]
           /\ stream.write_buf = <<>> /\ stream'.write_buf = <<>>
<1>0. Shape /\ Ahead /\ Pushed /\ Behind /\ Known
  BY DEF IInv
<1>1. PICK s : s = stream
  OBVIOUS
<1>2. /\ s.ungetc # NoByte /\ s.write_buf = <<>> /\ ~Closed
      /\ returned' = s.ungetc /\ stream' = [s EXCEPT !.ungetc = NoByte]
      /\ UNCHANGED <<file, position, length, rights, course>>
  BY <1>1 DEF fgetc_ungotten, Readable
<1>3. /\ s.available \in Nat /\ s.available < position /\ MayRead
      /\ s.ungetc = file[position - s.available] /\ s.ungetc \in Bytes
  BY <1>0, <1>1, <1>2, StreamIs DEF Pushed
<1>4. /\ file \in Seq(Bytes) /\ Len(file) \in Nat
      /\ position \in Nat /\ position <= Len(file)
  BY InvIs
<1>5. Sets(s.available, s.offset, s.read_from, NoByte, s.eof, s.last_read_start, s.write_buf)
  BY <1>0, <1>1, <1>2, StreamRecord DEF Record, Sets
<1>6. MaySet(s.available, s.offset, s.read_from, NoByte, s.eof, s.last_read_start, s.write_buf)
  BY <1>0, <1>1, FieldsMay DEF MaySet
<1>7. /\ stream'.bufsiz \in Sizes \cup {BUFSIZ} /\ stream' \in FStream(stream'.bufsiz)
      /\ stream'.read_buf = s.read_buf /\ stream'.bufsiz = s.bufsiz
      /\ stream'.available = s.available /\ stream'.read_from = s.read_from
      /\ stream'.ungetc = NoByte /\ stream'.write_buf = s.write_buf
  BY <1>0, <1>1, <1>5, <1>6, StreamSet
<1>8. Shape'
  BY <1>0, <1>1, <1>2, <1>3, <1>7 DEF Shape
<1>9. PICK at \in Nat : at = position - s.available
  BY <1>3, <1>4
<1>10. at \in 1 .. Len(file)
  BY <1>3, <1>4, <1>9
<1>11. Pos' = at /\ Pos = at - 1
  BY <1>1, <1>2, <1>3, <1>4, <1>7, <1>8, <1>9, InvIs, PosAfter
<1>12. Ahead'
  BY <1>0, <1>1, <1>2, <1>7 DEF Ahead, MayRead
<1>13. Pushed'
  BY <1>7 DEF Pushed
<1>14. Behind'
  BY <1>2, <1>3, <1>7, <1>9, <1>10, <1>11 DEF Behind, MayRead
<1>15. Known'
  BY <1>0, <1>1, <1>2 DEF Known, Closed
<1>. QED
  BY <1>1, <1>2, <1>3, <1>7, <1>8, <1>9, <1>10, <1>11, <1>12, <1>13, <1>14, <1>15 DEF IInv

(* Pushing the last byte back.                                             *)
LEMMA UngetcKeeps ==
    ASSUME IInv, ungetc
    PROVE  /\ IInv' /\ Pos' = Pos - 1 /\ file' = file /\ Pos \in 1 .. Len(file)
           /\ returned = file[Pos] /\ stream.write_buf = <<>> /\ stream'.write_buf = <<>>
<1>0. Shape /\ Ahead /\ Pushed /\ Behind /\ Known
  BY DEF IInv
<1>1. PICK s : s = stream
  OBVIOUS
<1>2. /\ s.ungetc = NoByte /\ returned \in Bytes
      /\ stream' = [s EXCEPT !.ungetc = returned] /\ returned' = NoByte /\ course' = "mixed"
      /\ UNCHANGED <<file, position, length, rights>>
  BY <1>1 DEF ungetc
<1>3. PICK at : at = Pos
  OBVIOUS
<1>4. s.write_buf = <<>> /\ MayRead /\ at \in 1 .. Len(file) /\ returned = file[at]
  BY <1>0, <1>1, <1>2, <1>3 DEF Behind
<1>5. /\ file \in Seq(Bytes) /\ Len(file) \in Nat
      /\ position \in Nat /\ position <= Len(file) /\ s.available \in Nat
      /\ at = position - s.available - 0
  BY <1>0, <1>1, <1>2, <1>3, <1>4, InvIs, StreamIs
<1>6. at = position - s.available /\ s.available < position
  BY <1>4, <1>5
<1>7. PICK u \in Bytes \cup {NoByte} : u = returned
  BY <1>2
<1>8. /\ Sets(s.available, s.offset, s.read_from, u, s.eof, s.last_read_start, s.write_buf)
      /\ MaySet(s.available, s.offset, s.read_from, u, s.eof, s.last_read_start, s.write_buf)
  <2>1. stream' = [s EXCEPT !.ungetc = u]
    BY <1>2, <1>7
  <2>2. Sets(s.available, s.offset, s.read_from, u, s.eof, s.last_read_start, s.write_buf)
    BY <1>0, <1>1, <2>1, StreamRecord DEF Record, Sets
  <2>3. MaySet(s.available, s.offset, s.read_from, u, s.eof, s.last_read_start, s.write_buf)
    BY <1>0, <1>1, FieldsMay DEF MaySet
  <2>. QED
    BY <2>2, <2>3
<1>9. /\ stream'.bufsiz \in Sizes \cup {BUFSIZ} /\ stream' \in FStream(stream'.bufsiz)
      /\ stream'.read_buf = s.read_buf /\ stream'.bufsiz = s.bufsiz
      /\ stream'.available = s.available /\ stream'.read_from = s.read_from
      /\ stream'.ungetc = u /\ stream'.write_buf = s.write_buf
  BY <1>0, <1>1, <1>8, StreamSet
<1>10. Shape'
  BY <1>0, <1>1, <1>2, <1>9 DEF Shape
<1>11. u # NoByte
  BY <1>2, <1>7, StdioAssumption
<1>12. Pos' = position - s.available - 1
  BY <1>2, <1>4, <1>9, <1>10, <1>11, PosAfter
<1>13. Ahead'
  BY <1>0, <1>1, <1>2, <1>9 DEF Ahead, MayRead
<1>14. Pushed'
  BY <1>2, <1>4, <1>6, <1>7, <1>9 DEF Pushed, MayRead
<1>15. Behind'
  BY <1>2, StdioAssumption DEF Behind
<1>16. Known'
  BY <1>2 DEF Known
<1>. QED
  BY <1>1, <1>2, <1>3, <1>4, <1>6, <1>9, <1>10, <1>12, <1>13, <1>14, <1>15, <1>16 DEF IInv

(* A read that the kernel refuses.                                         *)
LEMMA RefusedKeeps ==
    ASSUME IInv, fgetc_refused
    PROVE  /\ IInv' /\ Pos' = Pos /\ file' = file
           /\ stream.write_buf = <<>> /\ stream'.write_buf = <<>>
<1>0. Shape /\ Ahead /\ Pushed /\ Behind /\ Known
  BY DEF IInv
<1>1. PICK s : s = stream
  OBVIOUS
<1>2. /\ s.ungetc = NoByte /\ s.write_buf = <<>>
      /\ stream' = [Refused(s) EXCEPT !.eof = TRUE] /\ returned' = EOF /\ course' = "mixed"
      /\ UNCHANGED <<file, position, length, rights>>
  BY <1>1 DEF fgetc_refused, Readable
<1>3. PICK o \in 0 .. s.bufsiz : o = IF s.offset = s.bufsiz THEN 0 ELSE s.offset
  BY <1>0, <1>1, StreamIs
<1>4. s = Record(s.read_buf, s.bufsiz, s.available, s.offset, s.read_from, s.ungetc,
                 s.eof, s.last_read_start, s.write_buf, s.wbufsiz)
  BY <1>0, <1>1, StreamRecord
<1>5. Refused(s) = [s EXCEPT !.offset = o, !.last_read_start = position]
  BY <1>3, <1>4 DEF Refused, Record
<1>6. PICK e, l : e \in BOOLEAN /\ e = TRUE /\ l = position
  OBVIOUS
<1>7. /\ Sets(s.available, o, s.read_from, s.ungetc, e, l, s.write_buf)
      /\ MaySet(s.available, o, s.read_from, s.ungetc, e, l, s.write_buf)
  <2>1. stream' = [[s EXCEPT !.offset = o, !.last_read_start = l] EXCEPT !.eof = e]
    BY <1>2, <1>5, <1>6
  <2>2. Sets(s.available, o, s.read_from, s.ungetc, e, l, s.write_buf)
    BY <1>1, <1>4, <2>1 DEF Record, Sets
  <2>3. l \in 0 .. MaxLength
    BY <1>6, InvIs, StdioAssumption
  <2>4. MaySet(s.available, o, s.read_from, s.ungetc, e, l, s.write_buf)
    BY <1>0, <1>1, <1>3, <1>6, <2>3, FieldsMay DEF MaySet
  <2>. QED
    BY <2>2, <2>4
<1>8. /\ stream'.bufsiz \in Sizes \cup {BUFSIZ} /\ stream' \in FStream(stream'.bufsiz)
      /\ stream'.read_buf = s.read_buf /\ stream'.bufsiz = s.bufsiz
      /\ stream'.available = s.available /\ stream'.read_from = s.read_from
      /\ stream'.ungetc = s.ungetc /\ stream'.write_buf = s.write_buf
  BY <1>0, <1>1, <1>7, StreamSet
<1>9. Shape'
  BY <1>0, <1>1, <1>2, <1>8 DEF Shape
<1>10. Pos' = Pos
  BY <1>1, <1>2, <1>8, <1>9, InvIs, PosAfter
<1>11. Ahead'
  BY <1>0, <1>1, <1>2, <1>8 DEF Ahead, MayRead
<1>12. Pushed'
  BY <1>2, <1>8 DEF Pushed
<1>13. Behind'
  BY <1>2, StdioAssumption DEF Behind
<1>14. Known'
  BY <1>2 DEF Known
<1>. QED
  BY <1>1, <1>2, <1>8, <1>9, <1>10, <1>11, <1>12, <1>13, <1>14 DEF IInv

(* Writing what is pending, alone or in ftell.                             *)
LEMMA FlushKeeps ==
    ASSUME IInv, file' = Flushed(stream.write_buf),
           position' = PositionFlushed(stream.write_buf),
           stream' = [stream EXCEPT !.write_buf = <<>>], returned' = NoByte,
           UNCHANGED <<length, rights, course>>
    PROVE  IInv' /\ Pos' = Pos /\ stream'.write_buf = <<>>
<1>0. Shape /\ Ahead /\ Pushed /\ Behind /\ Known
  BY DEF IInv
<1>1. PICK s : s = stream
  OBVIOUS
<1>2. PICK v \in Seq(Bytes) : v = <<>> /\ Len(v) = 0
  BY EmptyIs
<1>3. /\ Sets(s.available, s.offset, s.read_from, s.ungetc, s.eof, s.last_read_start, v)
      /\ MaySet(s.available, s.offset, s.read_from, s.ungetc, s.eof, s.last_read_start, v)
  <2>1. stream' = [s EXCEPT !.write_buf = v]
    BY <1>1, <1>2
  <2>2. Sets(s.available, s.offset, s.read_from, s.ungetc, s.eof, s.last_read_start, v)
    BY <1>0, <1>1, <2>1, StreamRecord DEF Record, Sets
  <2>3. Len(v) <= BUFSIZ
    BY <1>2, StdioAssumption
  <2>4. MaySet(s.available, s.offset, s.read_from, s.ungetc, s.eof, s.last_read_start, v)
    BY <1>0, <1>1, <2>3, FieldsMay DEF MaySet
  <2>. QED
    BY <2>2, <2>4
<1>4. /\ stream'.bufsiz \in Sizes \cup {BUFSIZ} /\ stream' \in FStream(stream'.bufsiz)
      /\ stream'.read_buf = s.read_buf /\ stream'.bufsiz = s.bufsiz
      /\ stream'.available = s.available /\ stream'.offset = s.offset
      /\ stream'.read_from = s.read_from /\ stream'.ungetc = s.ungetc
      /\ stream'.last_read_start = s.last_read_start /\ stream'.write_buf = v
  BY <1>0, <1>1, <1>3, StreamSet
<1>5. PICK f \in Seq(Bytes), p \in Nat :
        /\ f = Flushed(s.write_buf) /\ p = PositionFlushed(s.write_buf)
        /\ Len(f) \in Nat /\ Len(f) <= MaxLength /\ p <= Len(f)
  BY <1>1, EmptyingIs
<1>6. file' = f /\ position' = p
  BY <1>1, <1>5
<1>7. Shape'
  <2>1. PICK m \in Nat : m = MaxLength
    BY StdioAssumption
  <2>2. p + 0 = p /\ p <= m
    BY <1>5, <2>1
  <2>3. position' + Len(stream'.write_buf) <= MaxLength
    BY <1>2, <1>4, <1>6, <2>1, <2>2
  <2>. QED
    BY <1>0, <1>4, <1>5, <1>6, <2>3 DEF Shape
<1>8. CASE s.write_buf = <<>>
  <2>1. f = file /\ p = position
    BY <1>1, <1>5, <1>8, InvIs
  <2>2. Pos' = Pos
    BY <1>1, <1>2, <1>4, <1>6, <1>7, <1>8, <2>1, InvIs, PosAfter
  <2>3. Ahead'
    BY <1>0, <1>1, <1>2, <1>4, <1>6, <2>1 DEF Ahead, MayRead
  <2>4. Pushed'
    BY <1>0, <1>1, <1>2, <1>4, <1>6, <2>1 DEF Pushed, MayRead
  <2>5. Behind'
    BY StdioAssumption DEF Behind
  <2>6. Known'
    BY <1>0, <1>1, <1>2, <1>4, <1>6, <2>1 DEF Known, Closed
  <2>. QED
    BY <1>2, <1>4, <1>7, <2>2, <2>3, <2>4, <2>5, <2>6 DEF IInv
<1>9. CASE s.write_buf # <<>>
  <2>1. s.available \in Nat /\ s.read_from \in Nat
    BY <1>0, <1>1, StreamIs
  <2>2. s.available = 0
    BY <1>0, <1>1, <1>9, <2>1 DEF Ahead
  <2>3. s.ungetc = NoByte
    BY <1>0, <1>1, <1>9 DEF Pushed
  <2>4. Pos' = Pos
    <3>1. Pos = PositionFlushed(s.write_buf) - 0 - 0
      BY <1>1, <2>2, <2>3 DEF Pos
    <3>2. Pos' = p - 0 - 0
      BY <1>2, <1>4, <1>6, <1>7, <2>2, <2>3, PosAfter
    <3>. QED
      BY <1>5, <3>1, <3>2
  <2>5. Ahead'
    BY <1>0, <1>1, <1>4, <1>6, <2>1, <2>2 DEF Ahead
  <2>6. Pushed'
    BY <1>4, <2>3 DEF Pushed
  <2>7. Behind'
    BY StdioAssumption DEF Behind
  <2>8. Known'
    BY <1>0, <1>1, <1>4, <1>9, <2>2, <2>3 DEF Known, Closed
  <2>. QED
    BY <1>2, <1>4, <1>7, <2>4, <2>5, <2>6, <2>7, <2>8 DEF IInv
<1>. QED
  BY <1>8, <1>9

(* Asking for the position.                                                *)
LEMMA FtellKeeps ==
    ASSUME IInv, ftell
    PROVE  IInv'
<1>1. /\ file' = Flushed(stream.write_buf) /\ position' = PositionFlushed(stream.write_buf)
      /\ returned' = NoByte /\ UNCHANGED <<length, rights, course>> /\ ~Closed
  BY DEF ftell
<1>2. CASE stream.read_from # 0 \/ stream.last_read_start # 0
  <2>1. stream' = [stream EXCEPT !.write_buf = <<>>]
    BY <1>2 DEF ftell
  <2>. QED
    BY <1>1, <2>1, FlushKeeps
<1>3. CASE ~(stream.read_from # 0 \/ stream.last_read_start # 0)
  <2>1. stream' = Emptied(stream)
    BY <1>3 DEF ftell
  <2>2. Blank(stream') /\ stream'.last_read_start = 0
    BY <1>3, <2>1, EmptyingIs
  <2>3. /\ file' \in Seq(Bytes) /\ Len(file') <= MaxLength /\ position' \in 0 .. Len(file')
    BY <1>1, EmptyingIs
  <2>4. /\ length' \in 0 .. MaxLength /\ rights' \in SUBSET {"read", "write"}
        /\ course' \in {"unread", "forward", "mixed"}
    BY <1>1 DEF IInv, Shape
  <2>5. course' # "forward"
    BY <1>1, <1>3 DEF IInv, Known
  <2>. QED
    BY <1>1, <2>2, <2>3, <2>4, <2>5, BlankKeeps
<1>. QED
  BY <1>2, <1>3

(* Another process adds to the file.                                       *)
LEMMA GrowKeeps ==
    ASSUME IInv, Grow
    PROVE  IInv' /\ Pos' = Pos
<1>0. Shape /\ Ahead /\ Pushed /\ Behind /\ Known
  BY DEF IInv
<1>1. PICK b \in Bytes : file' = Append(file, b)
  BY DEF Grow
<1>2. /\ Len(file) < MaxLength
      /\ course' = IF course = "forward" THEN "mixed" ELSE course
      /\ UNCHANGED <<position, length, rights, stream, returned>>
  BY DEF Grow
<1>3. /\ file \in Seq(Bytes) /\ Len(file) \in Nat
      /\ position \in Nat /\ position <= Len(file)
  BY InvIs
<1>4. /\ file' \in Seq(Bytes) /\ Len(file') = Len(file) + 1
      /\ \A i \in 1 .. Len(file) : file'[i] = file[i]
  BY <1>1, <1>3, AppendProperties
<1>5. Shape'
  <2>1. position' \in 0 .. Len(file') /\ Len(file') <= MaxLength
    BY <1>2, <1>3, <1>4, StdioAssumption
  <2>2. position' + Len(stream'.write_buf) <= MaxLength
    BY <1>0, <1>2 DEF Shape
  <2>3. course' \in {"unread", "forward", "mixed"}
    BY <1>0, <1>2 DEF Shape
  <2>. QED
    BY <1>0, <1>2, <1>4, <2>1, <2>2, <2>3 DEF Shape
<1>6. Pos' = Pos
  BY <1>2 DEF Pos, PositionFlushed, MayWrite
<1>7. stream.available \in Nat /\ stream.read_from \in Nat
  BY <1>0, StreamIs
<1>8. Ahead'
  <2>1. ASSUME NEW k \in 0 .. stream.available - 1
        PROVE  file'[position - stream.available + k + 1]
                 = file[position - stream.available + k + 1]
    <3>1. position - stream.available + k + 1 \in 1 .. Len(file)
      BY <1>0, <1>3, <1>7 DEF Ahead
    <3>. QED
      BY <1>4, <3>1
  <2>. QED
    BY <1>0, <1>2, <2>1 DEF Ahead, MayRead
<1>9. Pushed'
  <2>1. stream.available < position
          => file'[position - stream.available] = file[position - stream.available]
    BY <1>3, <1>4, <1>7
  <2>. QED
    BY <1>0, <1>2, <2>1 DEF Pushed, MayRead
<1>10. Behind'
  <2>1. PICK at : at = Pos
    OBVIOUS
  <2>2. returned \in Bytes => /\ at \in 1 .. Len(file) /\ returned = file[at]
                              /\ stream.write_buf = <<>> /\ MayRead
    BY <1>0, <2>1 DEF Behind
  <2>3. at \in 1 .. Len(file) => at \in 1 .. Len(file') /\ file'[at] = file[at]
    BY <1>3, <1>4
  <2>. QED
    BY <1>2, <1>6, <2>1, <2>2, <2>3 DEF Behind, MayRead
<1>11. Known'
  BY <1>0, <1>2 DEF Known, Closed
<1>. QED
  BY <1>1, <1>2, <1>5, <1>6, <1>8, <1>9, <1>10, <1>11 DEF IInv

(* Writing a byte.                                                         *)
LEMMA FputcKeeps ==
    ASSUME IInv, fputc
    PROVE  /\ IInv' /\ returned' = NoByte /\ rights' = rights
           /\ \E b \in Bytes :
                IF MayWrite
                THEN /\ Flushed(stream.write_buf)'
                          = Overlay(file, position, Append(stream.write_buf, b))
                     /\ Pos = position + Len(stream.write_buf) /\ Pos' = Pos + 1
                ELSE Flushed(stream.write_buf)' = file /\ Pos' = Pos
<1>0. Shape /\ Ahead /\ Pushed /\ Behind /\ Known
  BY DEF IInv
<1>1. PICK s : s = stream
  OBVIOUS
<1>2. /\ s.available = 0 /\ s.ungetc = NoByte /\ ~Closed
      /\ Len(s.write_buf) < BUFSIZ /\ position + Len(s.write_buf) < MaxLength
      /\ returned' = NoByte /\ course' = (IF course = "unread" THEN course ELSE "mixed")
      /\ UNCHANGED <<length, rights>>
  BY <1>1 DEF fputc, Writable
<1>3. PICK b \in Bytes :
        LET w == Append(s.write_buf, b) IN
        IF Len(w) = s.wbufsiz \/ b = EndOfLine
        THEN /\ file' = Flushed(w) /\ position' = PositionFlushed(w)
             /\ stream' = [s EXCEPT !.write_buf = <<>>]
        ELSE /\ stream' = [s EXCEPT !.write_buf = w]
             /\ UNCHANGED <<file, position>>
  BY <1>1 DEF fputc
<1>4. s.write_buf \in Seq(Bytes) /\ Len(s.write_buf) \in Nat /\ s.read_from \in Nat
      /\ s.bufsiz \in Nat /\ s.read_from <= s.bufsiz
  <2>1. s.read_from \in 0 .. s.bufsiz /\ s.bufsiz \in Nat /\ s.write_buf \in Seq(Bytes)
    BY <1>0, <1>1, StreamIs
  <2>. QED
    BY <2>1, LenProperties
<1>5. PICK w \in Seq(Bytes) : w = Append(s.write_buf, b) /\ Len(w) = Len(s.write_buf) + 1
  <2>1. /\ Append(s.write_buf, b) \in Seq(Bytes)
        /\ Len(Append(s.write_buf, b)) = Len(s.write_buf) + 1
    BY <1>4, AppendProperties
  <2>. QED
    BY <2>1
<1>6. PICK v \in Seq(Bytes) : v = <<>> /\ Len(v) = 0
  BY EmptyIs
<1>7. PICK q \in Seq(Bytes) :
        /\ q = IF Len(w) = s.wbufsiz \/ b = EndOfLine THEN v ELSE w
        /\ stream' = [s EXCEPT !.write_buf = q]
  BY <1>3, <1>5, <1>6
<1>8. Len(q) <= BUFSIZ
  BY <1>2, <1>4, <1>5, <1>6, <1>7, StdioAssumption
<1>9. /\ Sets(s.available, s.offset, s.read_from, s.ungetc, s.eof, s.last_read_start, q)
      /\ MaySet(s.available, s.offset, s.read_from, s.ungetc, s.eof, s.last_read_start, q)
  <2>1. Sets(s.available, s.offset, s.read_from, s.ungetc, s.eof, s.last_read_start, q)
    BY <1>0, <1>1, <1>7, StreamRecord DEF Record, Sets
  <2>2. MaySet(s.available, s.offset, s.read_from, s.ungetc, s.eof, s.last_read_start, q)
    BY <1>0, <1>1, <1>8, FieldsMay DEF MaySet
  <2>. QED
    BY <2>1, <2>2
<1>10. /\ stream'.bufsiz \in Sizes \cup {BUFSIZ} /\ stream' \in FStream(stream'.bufsiz)
       /\ stream'.read_buf = s.read_buf /\ stream'.bufsiz = s.bufsiz
       /\ stream'.available = 0 /\ stream'.offset = s.offset
       /\ stream'.read_from = s.read_from /\ stream'.ungetc = NoByte
       /\ stream'.last_read_start = s.last_read_start /\ stream'.write_buf = q
  BY <1>0, <1>1, <1>2, <1>9, StreamSet
<1>11. position \in Nat /\ position <= Len(file) /\ Len(file) \in Nat /\ file \in Seq(Bytes)
       /\ Len(file) <= MaxLength
  BY InvIs
<1>12. position + Len(w) <= MaxLength
  BY <1>2, <1>4, <1>5, <1>11, StdioAssumption
<1>13. PICK f \in Seq(Bytes), p \in Nat :
         /\ f = Flushed(w) /\ p = PositionFlushed(w)
         /\ Len(f) \in Nat /\ Len(f) <= MaxLength /\ p <= Len(f) /\ p <= MaxLength
  <2>1. PICK f \in Seq(Bytes), p \in Nat :
         /\ f = Flushed(w) /\ p = PositionFlushed(w) /\ Len(f) <= MaxLength /\ p \in 0 .. Len(f)
    BY <1>0, <1>12, FlushedIs
  <2>2. Len(f) \in Nat
    BY LenProperties
  <2>3. PICK m \in Nat : m = MaxLength
    BY StdioAssumption
  <2>4. p <= Len(f) /\ Len(f) <= m
    BY <2>1, <2>2, <2>3
  <2>5. p <= m
    BY <2>2, <2>4
  <2>. QED
    BY <2>1, <2>2, <2>3, <2>4, <2>5
<1>14. IF Len(w) = s.wbufsiz \/ b = EndOfLine
       THEN file' = f /\ position' = p ELSE file' = file /\ position' = position
  BY <1>3, <1>5, <1>13
<1>15. /\ file' \in Seq(Bytes) /\ Len(file') <= MaxLength /\ position' \in Nat
       /\ position' \in 0 .. Len(file')
       /\ position' + Len(stream'.write_buf) <= MaxLength
  <2>1. CASE Len(w) = s.wbufsiz \/ b = EndOfLine
    <3>1. p + 0 = p
      OBVIOUS
    <3>. QED
      BY <1>6, <1>7, <1>10, <1>13, <1>14, <2>1, <3>1
  <2>2. CASE ~(Len(w) = s.wbufsiz \/ b = EndOfLine)
    BY <1>7, <1>10, <1>11, <1>12, <1>14, <2>2
  <2>. QED
    BY <2>1, <2>2
<1>16. course' \in {"unread", "mixed"}
  BY <1>2
<1>17. Shape'
  BY <1>0, <1>2, <1>10, <1>15, <1>16 DEF Shape
<1>18. Ahead'
  BY <1>4, <1>10, <1>15 DEF Ahead
<1>19. Pushed' /\ Behind'
  BY <1>2, <1>10, StdioAssumption DEF Pushed, Behind
<1>20. Known'
  <2>1. ASSUME course' = "unread"
        PROVE  s.last_read_start = 0 /\ s.read_from = 0 /\ s.offset = 0
    BY <1>0, <1>1, <1>2, <2>1 DEF Known
  <2>. QED
    BY <1>10, <1>16, <2>1 DEF Known
<1>21. IF MayWrite
       THEN /\ Flushed(stream.write_buf)' = Overlay(file, position, w)
            /\ Pos = position + Len(stream.write_buf) /\ Pos' = Pos + 1
       ELSE Flushed(stream.write_buf)' = file /\ Pos' = Pos
  <2>1. Pos = PositionFlushed(s.write_buf) - 0 - 0
    BY <1>1, <1>2 DEF Pos
  <2>2. Pos' = PositionFlushed(stream.write_buf)' - 0 - 0
    BY <1>10 DEF Pos
  <2>3. MayWrite' <=> MayWrite
    BY <1>2 DEF MayWrite
  <2>4. CASE Len(w) = s.wbufsiz \/ b = EndOfLine
    <3>1. stream'.write_buf = <<>> /\ file' = f /\ position' = p
      BY <1>6, <1>7, <1>10, <1>14, <2>4
    <3>2. Flushed(stream.write_buf)' = f /\ PositionFlushed(stream.write_buf)' = p
      BY <1>17, <3>1, FlushedNothingAfter DEF NoneFlushed
    <3>3. CASE MayWrite
      <4>1. f = Overlay(file, position, w) /\ p = position + Len(w)
            /\ PositionFlushed(s.write_buf) = position + Len(s.write_buf)
        BY <1>13, <3>3 DEF Flushed, PositionFlushed
      <4>. QED
        BY <1>1, <1>4, <1>5, <1>11, <2>1, <2>2, <3>2, <3>3, <4>1
    <3>4. CASE ~MayWrite
      <4>1. f = file /\ p = position /\ PositionFlushed(s.write_buf) = position
        BY <1>13, <3>4 DEF Flushed, PositionFlushed
      <4>. QED
        BY <2>1, <2>2, <3>2, <3>4, <4>1
    <3>. QED
      BY <3>3, <3>4
  <2>5. CASE ~(Len(w) = s.wbufsiz \/ b = EndOfLine)
    <3>1. stream'.write_buf = w /\ file' = file /\ position' = position
      BY <1>7, <1>10, <1>14, <2>5
    <3>2. CASE MayWrite
      <4>1. Flushed(stream.write_buf)' = Overlay(file, position, w)
            /\ PositionFlushed(stream.write_buf)' = position + Len(w)
            /\ PositionFlushed(s.write_buf) = position + Len(s.write_buf)
        BY <2>3, <3>1, <3>2 DEF Flushed, PositionFlushed
      <4>. QED
        BY <1>1, <1>4, <1>5, <1>11, <2>1, <2>2, <3>2, <4>1
    <3>3. CASE ~MayWrite
      <4>1. Flushed(stream.write_buf)' = file
            /\ PositionFlushed(stream.write_buf)' = position
            /\ PositionFlushed(s.write_buf) = position
        BY <2>3, <3>1, <3>3 DEF Flushed, PositionFlushed
      <4>. QED
        BY <2>1, <2>2, <3>3, <4>1
    <3>. QED
      BY <3>2, <3>3
  <2>. QED
    BY <2>4, <2>5
<1>. QED
  BY <1>1, <1>2, <1>5, <1>17, <1>18, <1>19, <1>20, <1>21 DEF IInv

(* What _read_bytes brings: the next bytes of the file, as many as there   *)
(* are and as there is room behind the last ones.                          *)
Brings(buf, start, n, e) ==
    /\ start = IF stream.offset = stream.bufsiz THEN 0 ELSE stream.offset
    /\ start + n <= stream.bufsiz /\ position + n <= Len(file)
    /\ n = 0 => position = Len(file)
    /\ start + n = stream.bufsiz \/ position + n = Len(file)
    /\ buf \in [0 .. stream.bufsiz - 1 -> Bytes \cup {NoByte}]
    /\ \A k \in 0 .. n - 1 : buf[start + k] = file[position + k + 1]
    /\ Filled(stream) = Record(buf, stream.bufsiz, n, start + n, start, stream.ungetc,
                               e, position, stream.write_buf, stream.wbufsiz)

(* Filling the buffer brings that.                                         *)
LEMMA FilledIs ==
    ASSUME IInv, stream.available = 0
    PROVE  \E buf : \E start \in Nat, n \in Nat, e \in BOOLEAN : Brings(buf, start, n, e)
<1>0. Shape
  BY DEF IInv
<1>1. PICK s, size, o : s = stream /\ size = stream.bufsiz /\ o = stream.offset
  OBVIOUS
<1>15. size \in Nat \ {0} /\ o \in Nat /\ o <= size /\ s.bufsiz = size /\ s.offset = o
  BY <1>0, <1>1, StreamIs
<1>2. PICK f \in Seq(Bytes), len \in Nat, p \in Nat :
        f = file /\ len = Len(file) /\ p = position /\ p <= len
        /\ \A i \in 1 .. len : f[i] \in Bytes
  BY InvIs
<1>3. s.read_buf \in [0 .. size - 1 -> Bytes \cup {NoByte}] /\ s.eof \in BOOLEAN
  BY <1>0, <1>1, StreamIs
<1>4. s = Record(s.read_buf, size, s.available, s.offset, s.read_from, s.ungetc,
                 s.eof, s.last_read_start, s.write_buf, s.wbufsiz)
  BY <1>0, <1>1, StreamRecord
<1>5. PICK start \in Nat : start = (IF o = size THEN 0 ELSE o) /\ start < size
  BY <1>15
<1>16. PICK left \in Nat, room \in Nat : left = len - p /\ room = size - start /\ room > 0
  <2>1. len - p \in Nat
    BY <1>2
  <2>2. size - start \in Nat /\ size - start > 0
    BY <1>5, <1>15
  <2>. QED
    BY <2>1, <2>2
<1>6. PICK n \in Nat : n = IF left < room THEN left ELSE room
  OBVIOUS
<1>7. /\ start + n <= size /\ p + n <= len /\ (n = 0 => p = len)
      /\ (start + n = size \/ p + n = len)
  <2>1. size \in Nat /\ size = start + room /\ len = p + left
    BY <1>2, <1>5, <1>15, <1>16
  <2>2. n <= room /\ n <= left /\ (n = left \/ n = room) /\ (n = 0 => left = 0)
    BY <1>6, <1>16
  <2>3. start + n <= start + room /\ p + n <= p + left
    BY <2>2
  <2>4. n = 0 => p = len
    BY <2>1, <2>2
  <2>5. start + n = size \/ p + n = len
    BY <2>1, <2>2
  <2>. QED
    BY <2>1, <2>3, <2>4, <2>5
<1>8. PICK buf : buf = [i \in DOMAIN s.read_buf |->
                          IF i \in start .. start + n - 1 THEN f[p + i - start + 1]
                          ELSE s.read_buf[i]]
  OBVIOUS
<1>9. buf \in [0 .. size - 1 -> Bytes \cup {NoByte}]
  <2>1. ASSUME NEW i \in 0 .. size - 1
        PROVE  (IF i \in start .. start + n - 1 THEN f[p + i - start + 1] ELSE s.read_buf[i])
                  \in Bytes \cup {NoByte}
    <3>1. CASE i \in start .. start + n - 1
      <4>1. p + i - start + 1 \in 1 .. len
        BY <1>2, <1>7, <2>1, <3>1
      <4>. QED
        BY <1>2, <3>1, <4>1
    <3>2. CASE i \notin start .. start + n - 1
      BY <1>3, <3>2
    <3>. QED
      BY <3>1, <3>2
  <2>. QED
    BY <1>3, <1>8, <2>1
<1>10. \A k \in 0 .. n - 1 : buf[start + k] = f[p + k + 1]
  <2>1. SUFFICES ASSUME NEW k \in 0 .. n - 1 PROVE buf[start + k] = f[p + k + 1]
    OBVIOUS
  <2>2. start + k \in 0 .. size - 1 /\ start + k \in start .. start + n - 1
        /\ p + (start + k) - start + 1 = p + k + 1
    BY <1>2, <1>7, <1>15
  <2>. QED
    BY <1>3, <1>8, <2>2
<1>11. Filled(s) = [s EXCEPT !.last_read_start = p, !.read_from = start, !.available = n,
                             !.offset = start + n, !.read_buf = buf]
  <2>1. start = (IF s.offset = s.bufsiz THEN 0 ELSE s.offset)
    BY <1>5, <1>15
  <2>2. n = IF Len(file) - position < s.bufsiz - start
            THEN Len(file) - position ELSE s.bufsiz - start
    BY <1>2, <1>6, <1>15, <1>16
  <2>3. buf = [i \in DOMAIN s.read_buf |->
                 IF i \in start .. start + n - 1 THEN file[position + i - start + 1]
                 ELSE s.read_buf[i]]
    BY <1>2, <1>8
  <2>4. Filled(s) = [s EXCEPT !.last_read_start = position, !.read_from = start,
                              !.available = n, !.offset = start + n, !.read_buf = buf]
    BY <2>1, <2>2, <2>3 DEF Filled
  <2>. QED
    BY <1>2, <2>4
<1>17. PICK last \in Nat : last = start + n
  OBVIOUS
<1>12. Filled(s) = Record(buf, size, n, last, start, s.ungetc,
                          s.eof, p, s.write_buf, s.wbufsiz)
  <2>1. Filled(s) = [s EXCEPT !.last_read_start = p, !.read_from = start, !.available = n,
                              !.offset = last, !.read_buf = buf]
    BY <1>11, <1>17
  <2>2. PICK a, b, c, d, g, u, w, x, z :
          /\ a = s.read_buf /\ b = s.available /\ c = s.offset /\ d = s.read_from
          /\ g = s.last_read_start /\ u = s.ungetc /\ x = s.eof /\ w = s.write_buf
          /\ z = s.wbufsiz
    OBVIOUS
  <2>3. s = [read_buf |-> a, bufsiz |-> size, available |-> b, offset |-> c, read_from |-> d,
             ungetc |-> u, eof |-> x, last_read_start |-> g, write_buf |-> w, wbufsiz |-> z]
    BY <1>4, <2>2 DEF Record
  <2>9. PICK t : t = Filled(s)
    OBVIOUS
  <2>5. PICK r : r = [s EXCEPT !.last_read_start = p, !.read_from = start]
    OBVIOUS
  <2>6. r = [read_buf |-> a, bufsiz |-> size, available |-> b, offset |-> c,
             read_from |-> start, ungetc |-> u, eof |-> x, last_read_start |-> p,
             write_buf |-> w, wbufsiz |-> z]
    BY <2>3, <2>5
  <2>7. t = [r EXCEPT !.available = n, !.offset = last, !.read_buf = buf]
    BY <2>1, <2>5, <2>9
  <2>4. t = [read_buf |-> buf, bufsiz |-> size, available |-> n, offset |-> last,
                     read_from |-> start, ungetc |-> u, eof |-> x, last_read_start |-> p,
                     write_buf |-> w, wbufsiz |-> z]
    BY <2>6, <2>7
  <2>. QED
    BY <2>2, <2>4, <2>9 DEF Record
<1>18. PICK e \in BOOLEAN : e = s.eof
  BY <1>3
<1>13. Filled(stream) = Record(buf, stream.bufsiz, n, start + n, start, stream.ungetc,
                               e, position, stream.write_buf, stream.wbufsiz)
  BY <1>1, <1>2, <1>12, <1>17, <1>18
<1>14. start = (IF stream.offset = stream.bufsiz THEN 0 ELSE stream.offset)
  BY <1>1, <1>5
<1>19. /\ start + n <= stream.bufsiz /\ position + n <= Len(file)
       /\ (n = 0 => position = Len(file))
       /\ (start + n = stream.bufsiz \/ position + n = Len(file))
  BY <1>1, <1>2, <1>7
<1>20. buf \in [0 .. stream.bufsiz - 1 -> Bytes \cup {NoByte}]
  BY <1>1, <1>9
<1>21. \A k \in 0 .. n - 1 : buf[start + k] = file[position + k + 1]
  BY <1>2, <1>10
<1>22. Brings(buf, start, n, e)
  BY <1>13, <1>14, <1>19, <1>20, <1>21 DEF Brings
<1>. QED
  <2>1. \E d \in BOOLEAN : Brings(buf, start, n, d)
    BY <1>18, <1>22
  <2>. QED
    BY <1>5, <1>6, <2>1

(* A FILE after a byte was taken from its buffer, or the end was met. *)
Taken(s, r, n, e) == [s EXCEPT !.read_from = r, !.available = n, !.eof = e]

(* What t is then. *)
TakenFrom(t, size, s, r, n) ==
    /\ t \in FStream(size) /\ t.bufsiz = size
    /\ t.read_buf = s.read_buf /\ t.offset = s.offset /\ t.read_from = r /\ t.available = n
    /\ t.ungetc = s.ungetc /\ t.write_buf = s.write_buf
    /\ t.last_read_start = s.last_read_start

(* It is a FILE. *)
LEMMA TakenIs ==
    ASSUME NEW size \in Nat \ {0}, NEW s \in FStream(size),
           NEW r \in 0 .. size, NEW n \in 0 .. size, NEW e \in BOOLEAN
    PROVE  TakenFrom(Taken(s, r, n, e), size, s, r, n)
<1>1. PICK buf \in [0 .. size - 1 -> Bytes \cup {NoByte}], o \in 0 .. size,
           u \in Bytes \cup {NoByte}, l \in 0 .. MaxLength, w \in Seq(Bytes), z \in {0, BUFSIZ} :
        /\ buf = s.read_buf /\ o = s.offset /\ u = s.ungetc /\ l = s.last_read_start
        /\ w = s.write_buf /\ z = s.wbufsiz /\ Len(w) <= BUFSIZ
  BY FieldsAre, StdioAssumption
<1>2. PICK a, b, c : a = s.available /\ b = s.read_from /\ c = s.eof
  OBVIOUS
<1>3. s = [read_buf |-> buf, bufsiz |-> size, available |-> a, offset |-> o, read_from |-> b,
           ungetc |-> u, eof |-> c, last_read_start |-> l, write_buf |-> w, wbufsiz |-> z]
  BY <1>1, <1>2, FieldsAre
<1>4. PICK t : t = Taken(s, r, n, e)
  OBVIOUS
<1>5. t = Record(buf, size, n, o, r, u, e, l, w, z)
  BY <1>3, <1>4 DEF Taken, Record
<1>6. t \in FStream(size)
  BY <1>1, <1>5, RecordIs
<1>7. TakenFrom(t, size, s, r, n)
  BY <1>1, <1>5, <1>6 DEF TakenFrom, Record
<1>. QED
  BY <1>4, <1>7

(* The stream s and the offset p with which fgetc looks for a byte: what   *)
(* was read ahead begins where the program stands; if there is nothing,    *)
(* that is the end of the file.                                            *)
Seen(s, p) ==
    /\ s = IF stream.available = 0 THEN Filled(stream) ELSE stream
    /\ p = IF stream.available = 0 THEN position + s.available ELSE position
    /\ s.bufsiz = stream.bufsiz /\ s \in FStream(stream.bufsiz)
    /\ s.ungetc = NoByte /\ s.write_buf = <<>>
    /\ p <= Len(file) /\ p - s.available = Pos /\ s.available <= p
    /\ s.available = 0 => p = Len(file)
    /\ s.read_from + s.available <= s.bufsiz
    /\ \A k \in 0 .. s.available - 1 :
          s.read_buf[s.read_from + k] = file[p - s.available + k + 1]
    /\ course # "mixed" /\ s.available > 0 =>
          /\ s.last_read_start + s.read_from + s.available = p
          /\ s.offset = s.bufsiz \/ p = Len(file)

(* Without anything read ahead the buffer is filled.                       *)
LEMMA SeesFilled ==
    ASSUME IInv, ~Closed, stream.ungetc = NoByte, stream.write_buf = <<>>,
           stream.available = 0
    PROVE  \E s, p : p \in Nat /\ Seen(s, p)
<1>0. Shape /\ Known
  BY DEF IInv
<1>1. PICK size \in Nat \ {0} : size = stream.bufsiz
  BY <1>0, StreamIs
<1>2. PICK buf : \E start \in Nat, n \in Nat, e \in BOOLEAN : Brings(buf, start, n, e)
  BY FilledIs
<1>3. PICK start \in Nat, n \in Nat, e \in BOOLEAN : Brings(buf, start, n, e)
  BY <1>2
<1>4. PICK last \in Nat : last = start + n
  OBVIOUS
<1>19. PICK s : s = Filled(stream)
  OBVIOUS
<1>20. PICK m \in Nat, len \in Nat : m = position /\ len = Len(file) /\ m <= MaxLength
  BY InvIs
<1>21. PICK w \in Seq(Bytes) : w = stream.write_buf /\ Len(w) <= BUFSIZ
  <2>1. stream.write_buf \in Seq(Bytes) /\ Len(stream.write_buf) \in 0 .. BUFSIZ
    BY <1>0, StreamIs
  <2>2. Len(stream.write_buf) <= BUFSIZ
    BY <2>1, StdioAssumption
  <2>. QED
    BY <2>1, <2>2
<1>5. PICK u \in Bytes \cup {NoByte}, z \in {0, BUFSIZ} :
        u = stream.ungetc /\ z = stream.wbufsiz
  BY <1>0, StreamIs
<1>6. /\ start = (IF stream.offset = size THEN 0 ELSE stream.offset)
      /\ last <= size /\ m + n <= len
      /\ (n = 0 => m = len) /\ (last = size \/ m + n = len)
      /\ buf \in [0 .. size - 1 -> Bytes \cup {NoByte}]
      /\ \A k \in 0 .. n - 1 : buf[start + k] = file[m + k + 1]
      /\ s = Record(buf, size, n, last, start, u, e, m, w, z)
  BY <1>1, <1>3, <1>4, <1>5, <1>19, <1>20, <1>21 DEF Brings
<1>7. n \in 0 .. size /\ last \in 0 .. size /\ start \in 0 .. size /\ m \in 0 .. MaxLength
  BY <1>4, <1>20, <1>6, StdioAssumption
<1>8. s \in FStream(size)
  <2>1. Len(w) <= BUFSIZ
    BY <1>21
  <2>2. Record(buf, size, n, last, start, u, e, m, w, z) \in FStream(size)
    <3>1. buf \in [0 .. size - 1 -> Bytes \cup {NoByte}]
      BY <1>6
    <3>. QED
      BY <1>7, <2>1, <3>1, RecordIs, Zenon
  <2>. QED
    BY <1>6, <2>2
<1>9. /\ s.read_buf = buf /\ s.bufsiz = size /\ s.available = n /\ s.offset = last
      /\ s.read_from = start /\ s.ungetc = u /\ s.last_read_start = m /\ s.write_buf = w
  BY <1>6 DEF Record
<1>10. PICK p \in Nat : p = m + n
  OBVIOUS
<1>11. Pos = m
  <2>1. Pos = position - 0 - 0
    BY InvIs
  <2>. QED
    BY <1>20, <2>1
<1>12. ASSUME course # "mixed", n > 0
       PROVE  start = 0
  <2>1. CASE course = "unread"
    <3>1. stream.offset = 0
      BY <1>0, <2>1 DEF Known
    <3>. QED
      BY <1>6, <3>1
  <2>2. CASE course = "forward"
    <3>1. stream.offset = size \/ m = len
      BY <1>0, <1>1, <1>20, <2>2 DEF Known
    <3>2. m # len
      BY <1>6, <1>12
    <3>. QED
      BY <1>6, <3>1, <3>2
  <2>3. course \in {"unread", "forward", "mixed"}
    BY <1>0 DEF Shape
  <2>. QED
    BY <1>12, <2>1, <2>2, <2>3
<1>13. /\ s = (IF stream.available = 0 THEN Filled(stream) ELSE stream)
       /\ p = IF stream.available = 0 THEN position + s.available ELSE position
  BY <1>9, <1>10, <1>19, <1>20
<1>14. /\ s.bufsiz = stream.bufsiz /\ s \in FStream(stream.bufsiz)
       /\ s.ungetc = NoByte /\ s.write_buf = <<>>
  BY <1>1, <1>5, <1>8, <1>9, <1>21
<1>15. /\ p <= Len(file) /\ p - s.available = Pos /\ s.available <= p
       /\ (s.available = 0 => p = Len(file)) /\ s.read_from + s.available <= s.bufsiz
  BY <1>4, <1>6, <1>9, <1>10, <1>11, <1>20
<1>16. \A k \in 0 .. s.available - 1 :
          s.read_buf[s.read_from + k] = file[p - s.available + k + 1]
  <2>1. SUFFICES ASSUME NEW k \in 0 .. n - 1
                 PROVE  buf[start + k] = file[p - n + k + 1]
    BY <1>9
  <2>2. p - n + k + 1 = m + k + 1
    BY <1>10
  <2>. QED
    BY <1>6, <2>2
<1>17. course # "mixed" /\ s.available > 0 =>
          /\ s.last_read_start + s.read_from + s.available = p
          /\ (s.offset = s.bufsiz \/ p = Len(file))
  BY <1>4, <1>6, <1>9, <1>10, <1>12, <1>20
<1>18. Seen(s, p)
  BY <1>13, <1>14, <1>15, <1>16, <1>17 DEF Seen
<1>. QED
  BY <1>10, <1>18

(* What was read ahead is seen as it is.                                   *)
LEMMA SeesKept ==
    ASSUME IInv, ~Closed, stream.ungetc = NoByte, stream.write_buf = <<>>,
           stream.available # 0
    PROVE  \E s, p : p \in Nat /\ Seen(s, p)
<1>0. Shape /\ Ahead /\ Known
  BY DEF IInv
<1>1. PICK s : s = stream
  OBVIOUS
<1>2. PICK p \in Nat : p = position /\ p <= Len(file)
  BY InvIs
<1>3. s.available \in Nat /\ s.available > 0
  BY <1>0, <1>1, StreamIs
<1>4. /\ s = (IF stream.available = 0 THEN Filled(stream) ELSE stream)
      /\ p = IF stream.available = 0 THEN position + s.available ELSE position
  BY <1>1, <1>2
<1>5. /\ s.bufsiz = stream.bufsiz /\ s \in FStream(stream.bufsiz)
      /\ s.ungetc = NoByte /\ s.write_buf = <<>>
  BY <1>0, <1>1, StreamIs
<1>6. p - s.available = Pos
  <2>1. Pos = position - stream.available - 0
    BY InvIs
  <2>. QED
    BY <1>1, <1>2, <1>3, <2>1
<1>7. /\ s.available <= p /\ s.read_from + s.available <= s.bufsiz
      /\ \A k \in 0 .. s.available - 1 :
            s.read_buf[s.read_from + k] = file[p - s.available + k + 1]
  BY <1>0, <1>1, <1>2 DEF Ahead
<1>8. ASSUME course # "mixed"
      PROVE  /\ s.last_read_start + s.read_from + s.available = p
             /\ (s.offset = s.bufsiz \/ p = Len(file))
  <2>1. course # "unread"
    BY <1>0, <1>1, <1>3 DEF Known
  <2>2. course = "forward"
    BY <1>0, <1>8, <2>1 DEF Shape
  <2>. QED
    BY <1>0, <1>1, <1>2, <2>2 DEF Known
<1>9. Seen(s, p)
  BY <1>2, <1>3, <1>4, <1>5, <1>6, <1>7, <1>8 DEF Seen
<1>. QED
  BY <1>2, <1>9

(* Reading a byte.                                                         *)
LEMMA FgetcKeeps ==
    ASSUME IInv, fgetc
    PROVE  /\ IInv' /\ file' = file /\ rights' = rights /\ MayRead
           /\ stream.write_buf = <<>> /\ stream'.write_buf = <<>>
           /\ \/ Pos' = Pos /\ Pos = Len(file) /\ returned' = EOF
              \/ Pos' = Pos + 1 /\ Pos + 1 \in 1 .. Len(file) /\ returned' = file[Pos + 1]
<1>0. Shape
  BY DEF IInv
<1>1. /\ ~Closed /\ stream.write_buf = <<>> /\ stream.ungetc = NoByte /\ MayRead
      /\ file' = file /\ length' = length /\ rights' = rights
  BY DEF fgetc, Readable
<1>2. PICK s, p : p \in Nat /\ Seen(s, p)
  BY <1>1, SeesFilled, SeesKept
<1>3. /\ position' = p
      /\ IF s.available = 0
         THEN returned' = EOF /\ stream' = [s EXCEPT !.eof = TRUE] /\ course' = "mixed"
         ELSE /\ returned' = s.read_buf[s.read_from]
              /\ stream' = [s EXCEPT !.read_from = @ + 1, !.available = @ - 1]
              /\ course' = IF course = "unread" THEN "forward" ELSE course
  <2>1. /\ s = (IF stream.available = 0 THEN Filled(stream) ELSE stream)
        /\ p = IF stream.available = 0 THEN position + s.available ELSE position
    BY <1>2 DEF Seen
  <2>. QED
    BY <2>1 DEF fgetc
<1>4. PICK size \in Nat \ {0} : size = stream.bufsiz /\ size \in Sizes \cup {BUFSIZ}
  BY <1>0, StreamIs DEF Shape
<1>5. /\ s.bufsiz = size /\ s \in FStream(size) /\ s.ungetc = NoByte /\ s.write_buf = <<>>
  BY <1>2, <1>4 DEF Seen
<1>6. PICK a \in Nat, r \in Nat, l \in Nat, len \in Nat, here \in Nat :
        /\ a = s.available /\ r = s.read_from /\ l = s.last_read_start /\ len = Len(file)
        /\ here + a = p /\ r + a <= size /\ p <= len /\ (a = 0 => p = len)
        /\ Pos = here
  <2>1. s.available \in Nat /\ s.read_from \in Nat /\ s.last_read_start \in Nat
    BY <1>5, FieldsAre, StdioAssumption
  <2>2. Len(file) \in Nat
    BY InvIs
  <2>3. p - s.available \in Nat
    BY <1>2, <2>1 DEF Seen
  <2>4. PICK a \in Nat, here \in Nat : a = s.available /\ here = p - a
    BY <2>1, <2>3
  <2>5. here + a = p /\ Pos = here
    BY <1>2, <2>4 DEF Seen
  <2>6. PICK r \in Nat, l \in Nat, len \in Nat :
          r = s.read_from /\ l = s.last_read_start /\ len = Len(file)
    BY <2>1, <2>2
  <2>7. r + a <= size /\ p <= len /\ (a = 0 => p = len)
    BY <1>2, <1>5, <2>4, <2>6 DEF Seen
  <2>. QED
    BY <2>4, <2>5, <2>6, <2>7
<1>15. /\ p \in Nat /\ size \in Nat /\ a \in Nat /\ r \in Nat /\ l \in Nat
       /\ len \in Nat /\ here \in Nat
       /\ here + a = p /\ r + a <= size /\ p <= len /\ (a = 0 => p = len)
  BY <1>2, <1>4, <1>6
<1>16. a = s.available /\ r = s.read_from /\ l = s.last_read_start
  BY <1>6
<1>7. \A k \in 0 .. a - 1 : s.read_buf[r + k] = file[here + k + 1]
  <2>1. p - a = here
    BY <1>15
  <2>. QED
    BY <1>2, <1>6, <2>1 DEF Seen
<1>8. course # "mixed" /\ a > 0 => l + r + a = p /\ (s.offset = size \/ p = len)
  BY <1>2, <1>5, <1>6 DEF Seen
<1>9. file \in Seq(Bytes) /\ (\A i \in 1 .. len : file[i] \in Bytes) /\ len <= MaxLength
  BY <1>6, InvIs
<1>10. PICK m \in Nat : m = MaxLength
  BY StdioAssumption
<1>11. p <= m
  <2>1. p <= len /\ len <= m
    BY <1>6, <1>9, <1>10
  <2>. QED
    BY <1>2, <2>1
<1>12. length \in 0 .. MaxLength /\ rights \in SUBSET {"read", "write"}
       /\ course \in {"unread", "forward", "mixed"}
  BY <1>0 DEF Shape
<1>13. CASE a = 0
  <2>1. returned' = EOF /\ stream' = [s EXCEPT !.eof = TRUE] /\ course' = "mixed"
    BY <1>3, <1>6, <1>13
  <2>2. stream' = Taken(s, r, a, TRUE)
    <3>1. PICK b, o, u, g, w, z :
            b = s.read_buf /\ o = s.offset /\ u = s.ungetc /\ g = s.eof /\ w = s.write_buf
              /\ z = s.wbufsiz
      OBVIOUS
    <3>2. s = [read_buf |-> b, bufsiz |-> size, available |-> a, offset |-> o, read_from |-> r,
               ungetc |-> u, eof |-> g, last_read_start |-> l, write_buf |-> w, wbufsiz |-> z]
      BY <1>4, <1>5, <1>16, <3>1, FieldsAre
    <3>3. PICK t : t = stream'
      OBVIOUS
    <3>4. t = [read_buf |-> b, bufsiz |-> size, available |-> a, offset |-> o, read_from |-> r,
               ungetc |-> u, eof |-> TRUE, last_read_start |-> l, write_buf |-> w, wbufsiz |-> z]
      BY <2>1, <3>2, <3>3
    <3>5. PICK v : v = Taken(s, r, a, TRUE)
      OBVIOUS
    <3>6. v = [read_buf |-> b, bufsiz |-> size, available |-> a, offset |-> o, read_from |-> r,
               ungetc |-> u, eof |-> TRUE, last_read_start |-> l, write_buf |-> w, wbufsiz |-> z]
      BY <3>2, <3>5 DEF Taken
    <3>. QED
      BY <3>3, <3>4, <3>5, <3>6
  <2>3. PICK e \in BOOLEAN : e = TRUE
    OBVIOUS
  <2>4. r \in 0 .. size /\ a \in 0 .. size
    BY <1>13, <1>15
  <2>5. /\ stream' \in FStream(size) /\ stream'.bufsiz = size
        /\ stream'.available = 0 /\ stream'.read_from = r /\ stream'.ungetc = NoByte
        /\ stream'.write_buf = <<>>
    <3>1. s \in FStream(size) /\ size \in Nat \ {0} /\ s.ungetc = NoByte /\ s.write_buf = <<>>
      BY <1>4, <1>5
    <3>2. TakenFrom(Taken(s, r, a, e), size, s, r, a)
      BY <2>3, <2>4, <3>1, TakenIs
    <3>3. TakenFrom(stream', size, s, r, a)
      BY <2>2, <2>3, <3>2
    <3>. QED
      BY <1>13, <3>1, <3>3 DEF TakenFrom
  <2>6. here = p /\ p = len
    BY <1>13, <1>15
  <2>7. position' + Len(stream'.write_buf) <= MaxLength
    BY <1>2, <1>3, <1>10, <1>11, <2>5
  <2>8. Shape'
    BY <1>1, <1>2, <1>3, <1>4, <1>6, <1>9, <1>12, <2>1, <2>5, <2>7 DEF Shape
  <2>9. Pos' = here
    <3>1. Pos' = position' - 0 - 0
      BY <2>5, <2>8, PosAfter
    <3>. QED
      BY <1>2, <1>3, <2>6, <3>1
  <2>10. Ahead'
    BY <1>2, <1>3, <1>4, <1>6, <1>13, <2>5 DEF Ahead
  <2>11. Pushed' /\ Behind' /\ Known'
    BY <2>1, <2>5, StdioAssumption DEF Pushed, Behind, Known
  <2>. QED
    BY <1>1, <1>6, <2>1, <2>5, <2>6, <2>8, <2>9, <2>10, <2>11 DEF IInv
<1>14. CASE a # 0
  <2>1. /\ returned' = s.read_buf[r]
        /\ stream' = [s EXCEPT !.read_from = r + 1, !.available = a - 1]
        /\ course' = IF course = "unread" THEN "forward" ELSE course
    BY <1>3, <1>6, <1>14
  <2>2. PICK b \in Nat, q \in Nat : b + 1 = a /\ q = r + 1
    <3>1. a - 1 \in Nat /\ r + 1 \in Nat /\ (a - 1) + 1 = a
      BY <1>15, <1>14
    <3>. QED
      BY <3>1
  <2>3. PICK e \in BOOLEAN : e = s.eof
    BY <1>4, <1>5, FieldsAre
  <2>4. stream' = Taken(s, q, b, e)
    <3>1. PICK c, o, u, w, z :
            c = s.read_buf /\ o = s.offset /\ u = s.ungetc /\ w = s.write_buf /\ z = s.wbufsiz
      OBVIOUS
    <3>2. s = [read_buf |-> c, bufsiz |-> size, available |-> a, offset |-> o, read_from |-> r,
               ungetc |-> u, eof |-> e, last_read_start |-> l, write_buf |-> w, wbufsiz |-> z]
      BY <1>4, <1>5, <1>16, <2>3, <3>1, FieldsAre
    <3>3. PICK t : t = stream'
      OBVIOUS
    <3>4. t = [s EXCEPT !.read_from = q, !.available = b]
      <4>1. a - 1 = b
        BY <1>15, <2>2
      <4>. QED
        BY <2>1, <2>2, <3>3, <4>1
    <3>5. t = [read_buf |-> c, bufsiz |-> size, available |-> b, offset |-> o, read_from |-> q,
               ungetc |-> u, eof |-> e, last_read_start |-> l, write_buf |-> w, wbufsiz |-> z]
      BY <3>2, <3>4
    <3>6. PICK v : v = Taken(s, q, b, e)
      OBVIOUS
    <3>7. v = [read_buf |-> c, bufsiz |-> size, available |-> b, offset |-> o, read_from |-> q,
               ungetc |-> u, eof |-> e, last_read_start |-> l, write_buf |-> w, wbufsiz |-> z]
      BY <3>2, <3>6 DEF Taken
    <3>. QED
      BY <3>3, <3>5, <3>6, <3>7
  <2>5. q \in 0 .. size /\ b \in 0 .. size /\ q + b = r + a
    BY <1>15, <2>2
  <2>6. /\ stream' \in FStream(size) /\ stream'.bufsiz = size
        /\ stream'.read_buf = s.read_buf /\ stream'.offset = s.offset
        /\ stream'.available = b /\ stream'.read_from = q /\ stream'.ungetc = NoByte
        /\ stream'.write_buf = <<>> /\ stream'.last_read_start = l
    <3>1. s \in FStream(size) /\ size \in Nat \ {0} /\ s.ungetc = NoByte /\ s.write_buf = <<>>
      BY <1>4, <1>5
    <3>2. TakenFrom(stream', size, s, q, b)
      BY <2>3, <2>4, <2>5, <3>1, TakenIs
    <3>. QED
      BY <1>16, <3>1, <3>2 DEF TakenFrom
  <2>7. position' + Len(stream'.write_buf) <= MaxLength
    BY <1>2, <1>3, <1>10, <1>11, <2>6
  <2>8. here + 1 \in 1 .. len /\ here + 1 <= p /\ p - b = here + 1
    BY <1>15, <2>2
  <2>9. returned' = file[here + 1] /\ returned' \in Bytes
    <3>1. s.read_buf[r + 0] = file[here + 0 + 1] /\ r + 0 = r /\ here + 0 + 1 = here + 1
      BY <1>6, <1>7, <1>14
    <3>. QED
      BY <1>9, <2>1, <2>8, <3>1
  <2>10. course' \in {"forward", "mixed"} /\ (course' = "forward" => course # "mixed")
    BY <1>12, <2>1
  <2>11. Shape'
    BY <1>1, <1>2, <1>3, <1>4, <1>6, <1>9, <1>12, <2>6, <2>7, <2>9, <2>10 DEF Shape
  <2>12. Pos' = here + 1
    <3>1. Pos' = position' - b - 0
      BY <2>6, <2>11, PosAfter
    <3>. QED
      BY <1>2, <1>3, <2>2, <2>8, <3>1
  <2>13. Ahead'
    <3>1. ASSUME NEW k \in 0 .. b - 1
          PROVE  s.read_buf[q + k] = file[p - b + k + 1]
      <4>1. k + 1 \in 0 .. a - 1 /\ r + (k + 1) = q + k
            /\ here + (k + 1) + 1 = p - b + k + 1
        BY <1>15, <2>2
      <4>. QED
        BY <1>7, <4>1
    <3>2. q + b <= size /\ b <= p
      BY <1>15, <2>2, <2>5
    <3>. QED
      BY <1>1, <1>3, <2>6, <3>1, <3>2 DEF Ahead, MayRead
  <2>14. Pushed'
    BY <2>6 DEF Pushed
  <2>15. Behind'
    BY <1>1, <1>6, <2>6, <2>8, <2>9, <2>12 DEF Behind, MayRead
  <2>16. Known'
    <3>1. ASSUME course' = "forward"
          PROVE  l + q + b = p /\ (s.offset = size \/ p = len) /\ q > 0
      <4>1. l + r + a = p /\ (s.offset = size \/ p = len)
        BY <1>6, <1>8, <1>14, <2>10, <3>1
      <4>2. l + q + b = l + r + a
        BY <1>15, <2>2
      <4>. QED
        BY <2>2, <4>1, <4>2
    <3>. QED
      BY <1>1, <1>3, <1>6, <2>6, <2>10, <3>1 DEF Known
  <2>. QED
    BY <1>1, <1>6, <2>6, <2>8, <2>9, <2>11, <2>12, <2>13, <2>14, <2>15, <2>16 DEF IInv
<1>. QED
  BY <1>13, <1>14

(* Every step keeps the invariant.                                         *)
LEMMA NextKeeps ==
    ASSUME IInv, [StdioNext]_streamvars
    PROVE  IInv'
<1>1. CASE UNCHANGED streamvars
  <2>1. UNCHANGED <<file, position, length, rights, stream, returned, course>>
    BY <1>1 DEF streamvars
  <2>2. Shape' /\ Ahead' /\ Pushed' /\ Known'
    BY <2>1 DEF IInv, Shape, Ahead, Pushed, Known, MayRead, Closed
  <2>3. Pos' = Pos
    BY <2>1 DEF Pos, PositionFlushed, MayWrite
  <2>4. Behind'
    BY <2>1, <2>3 DEF IInv, Behind, MayRead
  <2>. QED
    BY <2>2, <2>4 DEF IInv
<1>2. CASE fopen \/ fdopen
  BY <1>2, OpenKeeps
<1>3. CASE freopen \/ fclose \/ fseek
  BY <1>3, EmptyingKeeps
<1>4. CASE setvbuf
  BY <1>4, SetvbufKeeps
<1>5. CASE fgetc_ungotten
  BY <1>5, UngottenKeeps
<1>6. CASE fgetc
  BY <1>6, FgetcKeeps
<1>7. CASE fgetc_refused
  BY <1>7, RefusedKeeps
<1>8. CASE ungetc
  BY <1>8, UngetcKeeps
<1>9. CASE fputc
  BY <1>9, FputcKeeps
<1>10. CASE fflush
  BY <1>10, FlushKeeps DEF fflush
<1>11. CASE ftell
  BY <1>11, FtellKeeps
<1>12. CASE Grow
  BY <1>12, GrowKeeps
<1>. QED
  BY <1>1, <1>2, <1>3, <1>4, <1>5, <1>6, <1>7, <1>8, <1>9, <1>10, <1>11, <1>12
     DEF StdioNext

(* The invariant holds of every stream at every time.                      *)
LEMMA Invariant == StdioSpec => []IInv
<1>1. StdioInit => IInv
  BY InitInv
<1>2. IInv /\ [StdioNext]_streamvars => IInv'
  BY NextKeeps
<1>. QED
  BY <1>1, <1>2, PTL DEF StdioSpec

-----------------------------------------------------------------------------
(* Positions *)

(* The program stands inside the file.                                     *)
LEMMA PosIs ==
    ASSUME IInv
    PROVE  Pos \in 0 .. Len(Flushed(stream.write_buf))
<1>0. Shape /\ Ahead /\ Pushed
  BY DEF IInv
<1>1. PICK p \in Nat, n \in Nat, a \in Nat :
        /\ p = PositionFlushed(stream.write_buf) /\ n = Len(Flushed(stream.write_buf))
        /\ p <= n /\ a = stream.available
  BY <1>0, EmptyingIs, StreamIs
<1>2. CASE stream.write_buf = <<>>
  <2>1. p = position /\ a <= p
    BY <1>0, <1>1, <1>2, InvIs DEF Ahead
  <2>2. CASE stream.ungetc = NoByte
    <3>1. Pos = p - a - 0
      BY <1>1, <2>2 DEF Pos
    <3>. QED
      BY <1>1, <2>1, <3>1
  <2>3. CASE stream.ungetc # NoByte
    <3>1. Pos = p - a - 1 /\ a < p
      BY <1>0, <1>1, <2>1, <2>3 DEF Pos, Pushed
    <3>. QED
      BY <1>1, <2>1, <3>1
  <2>. QED
    BY <2>2, <2>3
<1>3. CASE stream.write_buf # <<>>
  <2>1. a = 0 /\ stream.ungetc = NoByte
    BY <1>0, <1>1, <1>3 DEF Ahead, Pushed
  <2>2. Pos = p - 0 - 0
    BY <1>1, <2>1 DEF Pos
  <2>. QED
    BY <1>1, <2>2
<1>. QED
  BY <1>2, <1>3

(* The same as a predicate. *)
InFile == IInv => Pos \in 0 .. Len(Flushed(stream.write_buf))

(* It holds after a step, too. *)
LEMMA InFileAfter == InFile'
<1>1. InFile
  BY PosIs DEF InFile
<1>. QED
  BY <1>1, PTL

(* The invariant says where ftell and fseek stand.                         *)
LEMMA InvTells ==
    ASSUME IInv
    PROVE  PositionIsKnown
<1>0. Shape /\ Known
  BY DEF IInv
<1>1. StreamTypeOK
  <2>1. file \in BoundedSeq(Bytes, MaxLength)
    BY <1>0, BoundedIs, StdioAssumption DEF Shape
  <2>2. position \in 0 .. MaxLength
    BY InvIs, StdioAssumption
  <2>. QED
    BY <1>0, <2>1, <2>2 DEF Shape, StreamTypeOK
<1>2. ASSUME ~Closed, course # "mixed"
      PROVE  Told = Pos /\ Target(0, "SEEK_CUR") = Pos
  <2>1. PICK p \in Nat, a \in Nat, r \in Nat, l \in Nat :
          /\ p = PositionFlushed(stream.write_buf) /\ a = stream.available
          /\ r = stream.read_from /\ l = stream.last_read_start
    <3>1. PositionFlushed(stream.write_buf) \in Nat
      BY EmptyingIs
    <3>2. stream.available \in Nat /\ stream.read_from \in Nat /\ stream.last_read_start \in Nat
      BY <1>0, StreamIs, StdioAssumption
    <3>. QED
      BY <3>1, <3>2
  <2>2. CASE course = "unread"
    <3>1. a = 0 /\ r = 0 /\ l = 0 /\ stream.ungetc = NoByte
      BY <1>0, <1>2, <2>1, <2>2 DEF Known
    <3>2. Pos = p - 0 - 0 /\ Told = p /\ Target(0, "SEEK_CUR") = 0 + p
      BY <2>1, <3>1 DEF Pos, Told, Target
    <3>. QED
      BY <2>1, <3>2
  <2>3. CASE course = "forward"
    <3>1. /\ stream.ungetc = NoByte /\ stream.write_buf = <<>> /\ r > 0
          /\ l + r + a = position
      BY <1>0, <1>2, <2>1, <2>3 DEF Known
    <3>2. p = l + r + a
      BY <2>1, <3>1, InvIs
    <3>3. Pos = p - a - 0 /\ Told = l + r /\ Target(0, "SEEK_CUR") = 0 + (r + l)
      BY <2>1, <3>1 DEF Pos, Told, Target
    <3>. QED
      BY <2>1, <3>2, <3>3
  <2>. QED
    BY <1>0, <1>2, <2>2, <2>3 DEF Shape
<1>. QED
  BY <1>1, <1>2 DEF PositionIsKnown

(* ftell gives the position of the program, and fseek counts from it, for  *)
(* a stream that was only written and sought, or only read and not to its  *)
(* end, with buffers of every size.                                        *)
THEOREM PositionsAreKnown == StdioSpec => []PositionIsKnown
<1>1. IInv => PositionIsKnown
  BY InvTells
<1>. QED
  BY <1>1, Invariant, PTL
-----------------------------------------------------------------------------
(* The file with one position *)

(* Lengths with which a byte is put at q into a file of n bytes: the file  *)
(* up to q has m, the new one r, and t of them lie behind the byte.        *)
Lengths(q, n, m, t, r) ==
    /\ m = (IF q > n THEN q ELSE n) /\ q <= m
    /\ r = (IF q + 1 > n THEN q + 1 ELSE n) /\ r = q + 1 + t
    /\ t = IF q + 2 <= m THEN m - (q + 2) + 1 ELSE 0

(* There are such lengths. *)
LEMMA LengthsExist ==
    ASSUME NEW q \in Nat, NEW n \in Nat
    PROVE  \E m, t, r \in Nat : Lengths(q, n, m, t, r)
<1>1. PICK m \in Nat, r \in Nat :
        m = (IF q > n THEN q ELSE n) /\ r = (IF q + 1 > n THEN q + 1 ELSE n)
  OBVIOUS
<1>2. r - (q + 1) \in Nat
  BY <1>1
<1>3. PICK t \in Nat : t = r - (q + 1)
  BY <1>2
<1>4. Lengths(q, n, m, t, r)
  BY <1>1, <1>3 DEF Lengths
<1>. QED
  BY <1>1, <1>3, <1>4

(* Where an index of the new file lies: in w, in the file before it, at the *)
(* new byte, or behind that.                                                *)
Lies(i, p, k, q, m, t) ==
    \/ /\ i <= q /\ i <= q + 1 /\ i \in 1 .. q /\ i \in 1 .. q + 1 /\ i \in 1 .. m
       /\ i \in p + 1 .. q /\ i \in p + 1 .. q + 1 /\ i - p \in 1 .. k
    \/ /\ i <= q /\ i <= q + 1 /\ i \in 1 .. q /\ i \in 1 .. q + 1 /\ i \in 1 .. m
       /\ i \notin p + 1 .. q /\ i \notin p + 1 .. q + 1
    \/ /\ ~(i <= q) /\ i <= q + 1 /\ i \in 1 .. q + 1 /\ i - q = 1
       /\ i \in p + 1 .. q + 1 /\ i - p = k + 1
    \/ /\ ~(i <= q + 1) /\ i \in 1 .. m /\ i - (q + 1) \in 1 .. t
       /\ q + 1 + (i - (q + 1)) = i
       /\ i \notin p + 1 .. q /\ i \notin p + 1 .. q + 1

(* Every index does. *)
LEMMA IndexLies ==
    ASSUME NEW p \in Nat, NEW k \in Nat, NEW q \in Nat, q = p + k,
           NEW n \in Nat, NEW m \in Nat, NEW t \in Nat, NEW r \in Nat,
           Lengths(q, n, m, t, r), NEW i \in 1 .. r
    PROVE  Lies(i, p, k, q, m, t)
<1>1. i \in Nat /\ i >= 1 /\ i <= r
  OBVIOUS
<1>2. CASE i <= q
  BY <1>1, <1>2 DEF Lengths, Lies
<1>3. CASE i = q + 1
  BY <1>1, <1>3 DEF Lengths, Lies
<1>4. CASE i > q + 1
  <2>1. i \in 1 .. m /\ i - (q + 1) \in 1 .. t
    BY <1>1, <1>4 DEF Lengths
  <2>. QED
    BY <1>1, <1>4, <2>1 DEF Lies
<1>. QED
  BY <1>1, <1>2, <1>3, <1>4

(* The file c with the byte b put at position q. *)
WithByte(c, q, b) == SubSeq(c, 1, q) \o <<b>> \o SubSeq(c, q + 2, Len(c))

(* A byte more after w is one byte replaced, or added, at its end.         *)
LEMMA OverlayAppend ==
    ASSUME NEW f \in Seq(Bytes), NEW p \in 0 .. Len(f), NEW w \in Seq(Bytes), NEW b \in Bytes,
           NEW c, c = Overlay(f, p, w), NEW q \in Nat, q = p + Len(w)
    PROVE  Overlay(f, p, Append(w, b)) = WithByte(c, q, b)
<1>1. PICK n \in Nat, k \in Nat : n = Len(f) /\ k = Len(w) /\ p \in Nat /\ p <= n /\ q = p + k
  BY LenProperties
<1>2. PICK v \in Seq(Bytes) : /\ v = Append(w, b) /\ Len(v) = k + 1 /\ v[k + 1] = b
                              /\ \A i \in 1 .. k : v[i] = w[i]
  <2>1. /\ Append(w, b) \in Seq(Bytes) /\ Len(Append(w, b)) = k + 1
        /\ Append(w, b)[k + 1] = b /\ \A i \in 1 .. k : Append(w, b)[i] = w[i]
    BY <1>1, AppendProperties
  <2>. QED
    BY <2>1
<1>3. PICK m \in Nat, t \in Nat, r \in Nat : Lengths(q, n, m, t, r)
  BY LengthsExist
<1>4. /\ c \in Seq(Bytes) /\ Len(c) = m /\ q <= m
      /\ \A i \in 1 .. m : c[i] = IF i \in p + 1 .. q THEN w[i - p] ELSE f[i]
  <2>1. /\ c \in Seq(Bytes)
        /\ Len(c) = IF p + Len(w) > Len(f) THEN p + Len(w) ELSE Len(f)
        /\ \A i \in 1 .. Len(c) : c[i] = IF i \in p + 1 .. p + Len(w) THEN w[i - p] ELSE f[i]
    BY OverlayIs
  <2>2. Len(c) = m /\ q <= m /\ p + Len(w) = q
    BY <1>1, <1>3, <2>1 DEF Lengths
  <2>. QED
    BY <2>1, <2>2
<1>6. PICK d \in Seq(Bytes) : /\ d = Overlay(f, p, v) /\ Len(d) = r
        /\ \A i \in 1 .. r : d[i] = IF i \in p + 1 .. q + 1 THEN v[i - p] ELSE f[i]
  <2>1. p + Len(v) = q + 1
    BY <1>1, <1>2
  <2>4. /\ Overlay(f, p, v) \in Seq(Bytes)
        /\ Len(Overlay(f, p, v)) = IF p + Len(v) > Len(f) THEN p + Len(v) ELSE Len(f)
        /\ \A i \in 1 .. Len(Overlay(f, p, v)) :
              Overlay(f, p, v)[i] = IF i \in p + 1 .. p + Len(v) THEN v[i - p] ELSE f[i]
    BY OverlayIs
  <2>2. /\ Overlay(f, p, v) \in Seq(Bytes)
        /\ Len(Overlay(f, p, v)) = IF q + 1 > n THEN q + 1 ELSE n
        /\ \A i \in 1 .. Len(Overlay(f, p, v)) :
              Overlay(f, p, v)[i] = IF i \in p + 1 .. q + 1 THEN v[i - p] ELSE f[i]
    BY <1>1, <2>1, <2>4
  <2>3. r = IF q + 1 > n THEN q + 1 ELSE n
    BY <1>3 DEF Lengths
  <2>. QED
    BY <2>2, <2>3
<1>7. PICK x \in Seq(Bytes) : /\ x = SubSeq(c, 1, q) /\ Len(x) = q
                              /\ \A i \in 1 .. q : x[i] = c[i]
  <2>1. \A i \in 1 .. q : c[i] \in Bytes
    BY <1>4, ElementOfSeq
  <2>2. /\ SubSeq(c, 1, q) \in Seq(Bytes)
        /\ Len(SubSeq(c, 1, q)) = IF 1 <= q THEN q - 1 + 1 ELSE 0
        /\ \A i \in 1 .. q - 1 + 1 : SubSeq(c, 1, q)[i] = c[1 + i - 1]
    BY <2>1, SubSeqProperties
  <2>3. Len(SubSeq(c, 1, q)) = q
    BY <2>2
  <2>4. ASSUME NEW i \in 1 .. q PROVE SubSeq(c, 1, q)[i] = c[i]
    <3>1. i \in 1 .. q - 1 + 1 /\ 1 + i - 1 = i
      OBVIOUS
    <3>. QED
      BY <2>2, <3>1
  <2>. QED
    BY <2>2, <2>3, <2>4
<1>8. PICK z \in Seq(Bytes) : /\ z = SubSeq(c, q + 2, m) /\ Len(z) = t
                              /\ \A i \in 1 .. t : z[i] = c[q + 1 + i]
  <2>1. PICK l \in Int : l = q + 2
    OBVIOUS
  <2>2. \A i \in l .. m : i \in 1 .. m
    BY <2>1
  <2>3. \A i \in l .. m : c[i] \in Bytes
    BY <1>4, <2>2, ElementOfSeq
  <2>4. /\ SubSeq(c, l, m) \in Seq(Bytes)
        /\ Len(SubSeq(c, l, m)) = IF l <= m THEN m - l + 1 ELSE 0
        /\ \A i \in 1 .. m - l + 1 : SubSeq(c, l, m)[i] = c[l + i - 1]
    BY <2>3, SubSeqProperties
  <2>5. t = IF l <= m THEN m - l + 1 ELSE 0
    BY <1>3, <2>1 DEF Lengths
  <2>6. ASSUME NEW i \in 1 .. t
        PROVE  i \in 1 .. m - l + 1 /\ l + i - 1 = q + 1 + i
    BY <2>1, <2>5
  <2>7. PICK z \in Seq(Bytes) : z = SubSeq(c, l, m)
    BY <2>4
  <2>8. Len(z) = t
    BY <2>4, <2>5, <2>7
  <2>9. ASSUME NEW i \in 1 .. t PROVE z[i] = c[q + 1 + i]
    BY <2>4, <2>6, <2>7
  <2>. QED
    BY <2>1, <2>7, <2>8, <2>9
<1>9. PICK y \in Seq(Bytes) : y = <<b>> /\ Len(y) = 1 /\ y[1] = b
  <2>1. <<b>> \in Seq(Bytes) /\ Len(<<b>>) = 1 /\ <<b>>[1] = b
    OBVIOUS
  <2>. QED
    BY <2>1
<1>10. PICK g \in Seq(Bytes) : /\ g = x \o y /\ Len(g) = q + 1
                               /\ \A i \in 1 .. q + 1 : g[i] = IF i <= q THEN x[i] ELSE y[i - q]
  <2>1. /\ x \o y \in Seq(Bytes) /\ Len(x \o y) = Len(x) + Len(y)
        /\ \A i \in 1 .. Len(x) + Len(y) :
              (x \o y)[i] = IF i <= Len(x) THEN x[i] ELSE y[i - Len(x)]
    BY ConcatProperties
  <2>2. Len(x) = q /\ Len(x) + Len(y) = q + 1
    BY <1>7, <1>9
  <2>. QED
    BY <2>1, <2>2
<1>11. PICK h \in Seq(Bytes) : /\ h = g \o z /\ Len(h) = r
         /\ \A i \in 1 .. r : h[i] = IF i <= q + 1 THEN g[i] ELSE z[i - (q + 1)]
  <2>1. /\ g \o z \in Seq(Bytes) /\ Len(g \o z) = Len(g) + Len(z)
        /\ \A i \in 1 .. Len(g) + Len(z) :
              (g \o z)[i] = IF i <= Len(g) THEN g[i] ELSE z[i - Len(g)]
    BY ConcatProperties
  <2>2. Len(g) = q + 1 /\ Len(g) + Len(z) = r
    BY <1>3, <1>8, <1>10 DEF Lengths
  <2>3. PICK h \in Seq(Bytes) : h = g \o z
    BY <2>1
  <2>4. Len(h) = r
    BY <2>1, <2>2, <2>3
  <2>5. ASSUME NEW i \in 1 .. r
        PROVE  h[i] = IF i <= q + 1 THEN g[i] ELSE z[i - (q + 1)]
    BY <2>1, <2>2, <2>3
  <2>. QED
    BY <2>3, <2>4, <2>5
<1>12. ASSUME NEW i \in 1 .. r PROVE d[i] = h[i]
  <2>1. CASE /\ i <= q /\ i <= q + 1 /\ i \in 1 .. q /\ i \in 1 .. q + 1 /\ i \in 1 .. m
             /\ i \in p + 1 .. q /\ i \in p + 1 .. q + 1 /\ i - p \in 1 .. k
    <3>1. h[i] = c[i]
      BY <1>7, <1>10, <1>11, <2>1
    <3>2. d[i] = v[i - p] /\ c[i] = w[i - p]
      BY <1>4, <1>6, <2>1
    <3>. QED
      BY <1>2, <2>1, <3>1, <3>2
  <2>2. CASE /\ i <= q /\ i <= q + 1 /\ i \in 1 .. q /\ i \in 1 .. q + 1 /\ i \in 1 .. m
             /\ i \notin p + 1 .. q /\ i \notin p + 1 .. q + 1
    <3>1. h[i] = c[i]
      BY <1>7, <1>10, <1>11, <2>2
    <3>. QED
      BY <1>4, <1>6, <2>2, <3>1
  <2>3. CASE /\ ~(i <= q) /\ i <= q + 1 /\ i \in 1 .. q + 1 /\ i - q = 1
             /\ i \in p + 1 .. q + 1 /\ i - p = k + 1
    <3>1. h[i] = b
      BY <1>9, <1>10, <1>11, <2>3
    <3>2. d[i] = v[k + 1]
      BY <1>6, <2>3
    <3>. QED
      BY <1>2, <3>1, <3>2
  <2>4. CASE /\ ~(i <= q + 1) /\ i \in 1 .. m /\ i - (q + 1) \in 1 .. t
             /\ q + 1 + (i - (q + 1)) = i
             /\ i \notin p + 1 .. q /\ i \notin p + 1 .. q + 1
    <3>1. h[i] = z[i - (q + 1)]
      BY <1>11, <2>4
    <3>2. z[i - (q + 1)] = c[i]
      BY <1>8, <2>4
    <3>3. c[i] = f[i] /\ d[i] = f[i]
      BY <1>4, <1>6, <2>4
    <3>. QED
      BY <3>1, <3>2, <3>3
  <2>5. p \in Nat /\ q = p + k
    BY <1>1
  <2>6. Lies(i, p, k, q, m, t)
    BY <1>3, <2>5, IndexLies
  <2>. QED
    BY <2>1, <2>2, <2>3, <2>4, <2>6, Zenon DEF Lies
<1>13. d = h
  BY <1>6, <1>11, <1>12, SeqEqual
<1>. QED
  BY <1>2, <1>4, <1>6, <1>7, <1>8, <1>9, <1>10, <1>11, <1>13 DEF WithByte

(* A stream that is not open yet stands at the start of an empty file.     *)
LEMMA InitIsInit ==
    ASSUME StdioInit
    PROVE  Unbuffered!Init
<1>1. IInv
  BY InitInv
<1>2. Flushed(stream.write_buf) \in Seq(Bytes)
  BY <1>1, EmptyingIs
<1>3. stream.write_buf = <<>> /\ stream.available = 0 /\ stream.ungetc = NoByte
  BY NewIsBlank DEF StdioInit, Blank
<1>4. Pos = position - 0 - 0 /\ Flushed(stream.write_buf) = file
  BY <1>1, <1>3, InvIs
<1>. QED
  BY <1>2, <1>4 DEF StdioInit, Unbuffered!Init

(* fgetc gives the next byte, or the end.                                  *)
LEMMA ReadIsGet ==
    ASSUME IInv, fgetc_ungotten \/ fgetc \/ fgetc_refused
    PROVE  Unbuffered!Get \/ Unbuffered!GetNothing
<1>1. PICK c, q, n : c = Flushed(stream.write_buf) /\ q = Pos /\ n = Len(c)
  OBVIOUS
<1>2. q \in 0 .. n /\ n \in Nat
  BY <1>1, PosIs, EmptyingIs
<1>3. /\ IInv' /\ file' = file /\ rights' = rights
      /\ stream.write_buf = <<>> /\ stream'.write_buf = <<>>
  <2>1. CASE fgetc_ungotten
    BY <2>1, UngottenKeeps DEF fgetc_ungotten
  <2>2. CASE fgetc
    BY <2>2, FgetcKeeps
  <2>3. CASE fgetc_refused
    BY <2>3, RefusedKeeps DEF fgetc_refused
  <2>. QED
    BY <2>1, <2>2, <2>3
<1>4. c = file /\ Flushed(stream.write_buf)' = c
  <2>1. c = file
    BY <1>1, <1>3, InvIs
  <2>2. Flushed(stream.write_buf)' = file'
    BY <1>3, PosAfter DEF IInv
  <2>. QED
    BY <1>3, <2>1, <2>2
<1>5. \/ MayRead /\ Pos' = q + 1 /\ q + 1 \in 1 .. n /\ returned' = c[q + 1]
      \/ Pos' = q /\ (~MayRead \/ q = n) /\ returned' = EOF
  <2>1. CASE fgetc_ungotten
    BY <1>1, <1>4, <2>1, UngottenKeeps
  <2>2. CASE fgetc
    BY <1>1, <1>4, <2>2, FgetcKeeps
  <2>3. CASE fgetc_refused
    BY <1>1, <1>4, <2>3, RefusedKeeps DEF fgetc_refused
  <2>. QED
    BY <2>1, <2>2, <2>3
<1>6. CASE MayRead /\ Pos' = q + 1 /\ q + 1 \in 1 .. n /\ returned' = c[q + 1]
  <2>1. q < n
    BY <1>2, <1>6
  <2>2. Unbuffered!Get
    BY <1>1, <1>3, <1>4, <1>6, <2>1 DEF Unbuffered!Get, MayRead
  <2>. QED
    BY <2>2
<1>7. CASE Pos' = q /\ (~MayRead \/ q = n) /\ returned' = EOF
  <2>1. ~MayRead \/ q >= n
    BY <1>2, <1>7
  <2>2. Unbuffered!GetNothing
    BY <1>1, <1>3, <1>4, <1>7, <2>1 DEF Unbuffered!GetNothing, MayRead
  <2>. QED
    BY <2>2
<1>. QED
  BY <1>5, <1>6, <1>7

(* ungetc puts the last byte back.                                         *)
LEMMA UngetcIsPutBack ==
    ASSUME IInv, ungetc
    PROVE  Unbuffered!PutBack
<1>1. PICK c, q : c = Flushed(stream.write_buf) /\ q = Pos
  OBVIOUS
<1>2. /\ IInv' /\ Pos' = q - 1 /\ file' = file /\ q \in 1 .. Len(file) /\ returned = file[q]
      /\ stream.write_buf = <<>> /\ stream'.write_buf = <<>>
  BY <1>1, UngetcKeeps
<1>3. c = file /\ Flushed(stream.write_buf)' = c
  <2>1. c = file
    BY <1>1, <1>2, InvIs
  <2>2. Flushed(stream.write_buf)' = file'
    BY <1>2, PosAfter DEF IInv
  <2>. QED
    BY <1>2, <2>1, <2>2
<1>4. q > 0
  BY <1>2
<1>. QED
  BY <1>1, <1>2, <1>3, <1>4 DEF ungetc, Unbuffered!PutBack

(* fputc puts a byte, or nothing if the stream may not write.              *)
LEMMA FputcIsPut ==
    ASSUME IInv, fputc
    PROVE  Unbuffered!Put \/ Unbuffered!Seek
<1>1. PICK c, q, n : c = Flushed(stream.write_buf) /\ q = Pos /\ n = Len(c)
  OBVIOUS
<1>2. q \in 0 .. n /\ n \in Nat
  BY <1>1, PosIs, EmptyingIs
<1>3. returned' = NoByte /\ rights' = rights
  BY FputcKeeps
<1>4. PICK b \in Bytes :
        IF MayWrite
        THEN /\ Flushed(stream.write_buf)' = Overlay(file, position, Append(stream.write_buf, b))
             /\ Pos = position + Len(stream.write_buf) /\ Pos' = Pos + 1
        ELSE Flushed(stream.write_buf)' = file /\ Pos' = Pos
  BY FputcKeeps
<1>5. CASE MayWrite
  <2>1. c = Overlay(file, position, stream.write_buf)
    BY <1>1, <1>5 DEF Flushed
  <2>8. file \in Seq(Bytes) /\ position \in 0 .. Len(file) /\ stream.write_buf \in Seq(Bytes)
    BY StreamIs DEF IInv, Shape
  <2>9. PICK f \in Seq(Bytes), w \in Seq(Bytes) : f = file /\ w = stream.write_buf
    BY <2>8
  <2>10. PICK p \in 0 .. Len(f) : p = position
    BY <2>8, <2>9
  <2>2. f = file /\ w = stream.write_buf /\ p = position
    BY <2>9, <2>10
  <2>3. q \in Nat /\ q = p + Len(w) /\ q <= n
    BY <1>1, <1>2, <1>4, <1>5, <2>2
  <2>4. Overlay(f, p, Append(w, b)) = WithByte(c, q, b)
    <3>1. c = Overlay(f, p, w)
      BY <2>1, <2>2
    <3>2. q \in Nat /\ q = p + Len(w)
      BY <2>3
    <3>. QED
      BY <3>1, <3>2, OverlayAppend
  <2>5. Flushed(stream.write_buf)' = SubSeq(c, 1, q) \o <<b>> \o SubSeq(c, q + 2, Len(c))
    BY <1>4, <1>5, <2>2, <2>4 DEF WithByte
  <2>6. Pos' = q + 1
    BY <1>1, <1>4, <1>5
  <2>7. file' \in {file, Flushed(stream.write_buf)'}
    <3>1. CASE file' = file
      BY <3>1
    <3>2. CASE stream' = [stream EXCEPT !.write_buf = <<>>]
      <4>1. stream'.write_buf = <<>>
        BY <3>2, StreamRecord DEF IInv, Record
      <4>2. IInv'
        BY FputcKeeps
      <4>. QED
        BY <4>1, <4>2, PosAfter DEF IInv
    <3>. QED
      BY <3>1, <3>2 DEF fputc
  <2>11. Unbuffered!Put
    BY <1>1, <1>3, <1>5, <2>3, <2>5, <2>6, <2>7 DEF Unbuffered!Put, MayWrite
  <2>. QED
    BY <2>11
<1>6. CASE ~MayWrite
  <2>1. Flushed(stream.write_buf)' = c /\ Pos' = q /\ c = file
    BY <1>1, <1>4, <1>6 DEF Flushed
  <2>3. file' = file
    BY <1>6 DEF fputc, Flushed
  <2>2. Unbuffered!Seek
    BY <1>1, <1>2, <1>3, <2>1, <2>3 DEF Unbuffered!Seek
  <2>. QED
    BY <2>2
<1>. QED
  BY <1>5, <1>6

(* fflush, ftell and fseek write what is pending and lead into the file.   *)
LEMMA FlushIsSeek ==
    ASSUME IInv, fflush \/ ftell \/ fseek
    PROVE  Unbuffered!Seek
<1>1. PICK c : c = Flushed(stream.write_buf)
  OBVIOUS
<1>2. file' = c /\ returned' = NoByte /\ rights' = rights
  BY <1>1 DEF fflush, ftell, fseek
<1>3. IInv'
  BY FlushKeeps, FtellKeeps, EmptyingKeeps DEF fflush
<1>4. stream'.write_buf = <<>>
  <2>1. CASE stream' = [stream EXCEPT !.write_buf = <<>>]
    BY <2>1, StreamRecord DEF IInv, Record
  <2>2. CASE stream' = Emptied(stream)
    BY <2>2, EmptyingIs DEF Blank
  <2>. QED
    BY <2>1, <2>2 DEF fflush, ftell, fseek
<1>5. Flushed(stream.write_buf)' = c
  BY <1>2, <1>3, <1>4, PosAfter DEF IInv
<1>6. (Pos \in 0 .. Len(Flushed(stream.write_buf)))'
  BY <1>3, InFileAfter DEF InFile
<1>. QED
  BY <1>1, <1>2, <1>5, <1>6 DEF Unbuffered!Seek

(* Opening and closing.                                                    *)
LEMMA OpenIsReopen ==
    ASSUME IInv, fopen \/ fdopen \/ freopen \/ fclose
    PROVE  Unbuffered!Reopen
<1>1. PICK c : c = Flushed(stream.write_buf)
  OBVIOUS
<1>2. IInv'
  BY OpenKeeps, EmptyingKeeps
<1>3. file' \in {c, <<>>}
  <2>1. CASE fopen \/ fdopen
    <3>1. ~MayWrite
      BY <2>1 DEF fopen, fdopen, Closed, MayWrite
    <3>2. c = file
      BY <1>1, <3>1 DEF Flushed
    <3>. QED
      BY <2>1, <3>2 DEF fopen, fdopen
  <2>2. CASE freopen \/ fclose
    BY <1>1, <2>2 DEF freopen, fclose
  <2>. QED
    BY <2>1, <2>2
<1>4. returned' = NoByte
  BY DEF fopen, fdopen, freopen, fclose
<1>5. rights' \subseteq {"read", "write"}
  BY <1>2 DEF IInv, Shape
<1>6. stream'.write_buf = <<>>
  <2>1. CASE fopen \/ fdopen
    <3>1. PICK w \in {0, BUFSIZ} : stream' = NewStream(w)
      BY <2>1 DEF fopen, fdopen
    <3>. QED
      BY <3>1, NewIsBlank DEF Blank
  <2>2. CASE freopen \/ fclose
    BY <2>2, EmptyingIs DEF freopen, fclose, Blank
  <2>. QED
    BY <2>1, <2>2
<1>7. Flushed(stream.write_buf)' = file'
  BY <1>2, <1>6, PosAfter DEF IInv
<1>8. (Pos \in 0 .. Len(Flushed(stream.write_buf)))'
  BY <1>2, InFileAfter DEF InFile
<1>. QED
  BY <1>1, <1>3, <1>4, <1>5, <1>7, <1>8 DEF Unbuffered!Reopen

(* d is the file f with w written over it at position p. *)
Overlaid(f, p, w, d) ==
    /\ d \in Seq(Bytes) /\ Len(d) = IF p + Len(w) > Len(f) THEN p + Len(w) ELSE Len(f)
    /\ \A i \in 1 .. Len(d) : d[i] = IF i \in p + 1 .. p + Len(w) THEN w[i - p] ELSE f[i]

(* What Overlay gives. *)
LEMMA OverlayGives ==
    \A f \in Seq(Bytes) : \A p \in 0 .. Len(f), w \in Seq(Bytes) :
        Overlaid(f, p, w, Overlay(f, p, w))
BY OverlayIs DEF Overlaid

(* A byte more at the end of the file is at the end of what the program    *)
(* sees, unless w reaches over the end.                                    *)
LEMMA OverlayLonger ==
    ASSUME NEW f \in Seq(Bytes), NEW p \in 0 .. Len(f), NEW w \in Seq(Bytes), NEW b \in Bytes,
           NEW c, c = Overlay(f, p, w)
    PROVE  Overlay(Append(f, b), p, w) = IF Len(c) > Len(f) THEN c ELSE Append(c, b)
<1>1. PICK n \in Nat, k \in Nat : n = Len(f) /\ k = Len(w) /\ p \in Nat /\ p <= n
  BY LenProperties
<1>2. PICK g \in Seq(Bytes) : /\ g = Append(f, b) /\ Len(g) = n + 1 /\ g[n + 1] = b
                              /\ \A i \in 1 .. n : g[i] = f[i]
  <2>1. /\ Append(f, b) \in Seq(Bytes) /\ Len(Append(f, b)) = n + 1
        /\ Append(f, b)[n + 1] = b /\ \A i \in 1 .. n : Append(f, b)[i] = f[i]
    BY <1>1, AppendProperties
  <2>. QED
    BY <2>1
<1>3. PICK m \in Nat : m = IF p + k > n THEN p + k ELSE n
  BY <1>1
<1>4. /\ c \in Seq(Bytes) /\ Len(c) = m
      /\ \A i \in 1 .. m : c[i] = IF i \in p + 1 .. p + k THEN w[i - p] ELSE f[i]
  BY <1>1, <1>3, OverlayIs
<1>5. p \in 0 .. Len(g)
  BY <1>1, <1>2
<1>6. PICK d : d = Overlay(g, p, w)
  OBVIOUS
<1>7. /\ d \in Seq(Bytes) /\ Len(d) = IF p + k > n + 1 THEN p + k ELSE n + 1
      /\ \A i \in 1 .. Len(d) : d[i] = IF i \in p + 1 .. p + k THEN w[i - p] ELSE g[i]
  <2>1. Overlaid(g, p, w, d)
    BY <1>5, <1>6, OverlayGives, Zenon
  <2>2. Len(w) = k /\ Len(g) = n + 1
    BY <1>1, <1>2
  <2>. QED
    BY <2>1, <2>2 DEF Overlaid
<1>8. CASE p + k > n
  <2>1. m > n /\ Len(d) = m
    BY <1>1, <1>3, <1>7, <1>8
  <2>2. ASSUME NEW i \in 1 .. m PROVE d[i] = c[i]
    <3>1. i \in p + 1 .. p + k \/ i \in 1 .. n
      BY <1>1, <1>3, <1>8
    <3>. QED
      BY <1>2, <1>4, <1>7, <2>1, <3>1
  <2>3. d = c
    BY <1>4, <1>7, <2>1, <2>2, SeqEqual
  <2>. QED
    BY <1>1, <1>2, <1>4, <1>6, <2>1, <2>3
<1>9. CASE ~(p + k > n)
  <2>1. m = n /\ Len(d) = n + 1
    BY <1>1, <1>3, <1>7, <1>9
  <2>2. PICK h \in Seq(Bytes) : /\ h = Append(c, b) /\ Len(h) = n + 1 /\ h[n + 1] = b
                                /\ \A i \in 1 .. n : h[i] = c[i]
    <3>1. /\ Append(c, b) \in Seq(Bytes) /\ Len(Append(c, b)) = n + 1
          /\ Append(c, b)[n + 1] = b /\ \A i \in 1 .. n : Append(c, b)[i] = c[i]
      BY <1>4, <2>1, AppendProperties
    <3>. QED
      BY <3>1
  <2>3. ASSUME NEW i \in 1 .. n + 1 PROVE d[i] = h[i]
    <3>1. i \in 1 .. n \/ (i = n + 1 /\ i \notin p + 1 .. p + k)
      BY <1>1, <1>9
    <3>. QED
      BY <1>2, <1>4, <1>7, <2>1, <2>2, <3>1
  <2>4. d = h
    BY <1>7, <2>1, <2>2, <2>3, SeqEqual
  <2>5. ~(Len(c) > Len(f))
    BY <1>1, <1>4, <2>1
  <2>. QED
    BY <1>2, <1>6, <2>2, <2>4, <2>5
<1>. QED
  BY <1>8, <1>9

(* Another process adds to the file.                                       *)
LEMMA GrowIsGrow ==
    ASSUME IInv, Grow
    PROVE  Unbuffered!Grow
<1>1. PICK b \in Bytes : file' = Append(file, b)
  BY DEF Grow
<1>2. PICK c : c = Flushed(stream.write_buf)
  OBVIOUS
<1>3. Pos' = Pos
  BY GrowKeeps
<1>4. UNCHANGED <<rights, returned, stream, position>>
  BY DEF Grow
<1>5. PICK f, p, w : f = file /\ p = position /\ w = stream.write_buf
  OBVIOUS
<1>6. f \in Seq(Bytes) /\ p \in 0 .. Len(f) /\ w \in Seq(Bytes)
  BY <1>5, StreamIs DEF IInv, Shape
<1>7. Flushed(stream.write_buf)' = IF Len(c) > Len(f) THEN c ELSE Append(c, b)
  <2>1. CASE MayWrite
    <3>1. c = Overlay(f, p, w)
      BY <1>2, <1>5, <2>1 DEF Flushed
    <3>2. Flushed(stream.write_buf)' = Overlay(Append(f, b), p, w)
      BY <1>1, <1>4, <1>5, <2>1 DEF Flushed, MayWrite
    <3>3. Overlay(Append(f, b), p, w) = IF Len(c) > Len(f) THEN c ELSE Append(c, b)
      BY <1>6, <3>1, OverlayLonger
    <3>. QED
      BY <3>2, <3>3
  <2>2. CASE ~MayWrite
    <3>1. c = f /\ Flushed(stream.write_buf)' = Append(f, b)
      BY <1>1, <1>2, <1>4, <1>5, <2>2 DEF Flushed, MayWrite
    <3>2. ~(Len(f) > Len(f))
      BY <1>6, LenProperties
    <3>. QED
      BY <3>1, <3>2
  <2>. QED
    BY <2>1, <2>2
<1>. QED
  BY <1>1, <1>2, <1>3, <1>4, <1>5, <1>7 DEF Unbuffered!Grow

(* A new buffer changes nothing that the program sees; neither does rest.  *)
LEMMA RestIsRest ==
    ASSUME IInv, setvbuf \/ UNCHANGED streamvars
    PROVE  UNCHANGED Unbuffered!vars
<1>1. CASE setvbuf
  <2>1. PICK w : w = stream.wbufsiz
    OBVIOUS
  <2>2. w \in {0, BUFSIZ} /\ stream = NewStream(w)
    BY <1>1, <2>1, StreamIs DEF setvbuf, IInv, Shape
  <2>3. stream.write_buf = <<>> /\ stream.available = 0 /\ stream.ungetc = NoByte
    BY <2>2, NewIsBlank DEF Blank
  <2>4. PICK size \in Sizes :
          stream' = [stream EXCEPT !.read_buf = NewBuffer(size), !.bufsiz = size]
    BY <1>1 DEF setvbuf
  <2>5. /\ stream'.write_buf = stream.write_buf /\ stream'.available = stream.available
        /\ stream'.ungetc = stream.ungetc
    BY <2>4, StreamRecord DEF IInv, Record
  <2>6. UNCHANGED <<file, position, rights, returned>>
    BY <1>1 DEF setvbuf
  <2>7. Flushed(stream.write_buf)' = Flushed(stream.write_buf)
        /\ PositionFlushed(stream.write_buf)' = PositionFlushed(stream.write_buf)
    BY <2>5, <2>6 DEF Flushed, PositionFlushed, MayWrite
  <2>8. Pos' = Pos
    BY <2>5, <2>7 DEF Pos
  <2>. QED
    BY <2>6, <2>7, <2>8 DEF Unbuffered!vars
<1>2. CASE UNCHANGED streamvars
  <2>1. UNCHANGED <<file, position, rights, stream, returned>>
    BY <1>2 DEF streamvars
  <2>2. Flushed(stream.write_buf)' = Flushed(stream.write_buf)
        /\ PositionFlushed(stream.write_buf)' = PositionFlushed(stream.write_buf)
    BY <2>1 DEF Flushed, PositionFlushed, MayWrite
  <2>3. Pos' = Pos
    BY <2>1, <2>2 DEF Pos
  <2>. QED
    BY <2>1, <2>2, <2>3 DEF Unbuffered!vars
<1>. QED
  BY <1>1, <1>2

(* Every step of the stream is one of the file, or none.                   *)
LEMMA StepIsStep ==
    ASSUME IInv, [StdioNext]_streamvars
    PROVE  [Unbuffered!Next]_Unbuffered!vars
<1>1. CASE fgetc_ungotten \/ fgetc \/ fgetc_refused
  BY <1>1, ReadIsGet DEF Unbuffered!Next
<1>2. CASE ungetc
  BY <1>2, UngetcIsPutBack DEF Unbuffered!Next
<1>3. CASE fputc
  BY <1>3, FputcIsPut DEF Unbuffered!Next
<1>4. CASE fflush \/ ftell \/ fseek
  BY <1>4, FlushIsSeek DEF Unbuffered!Next
<1>5. CASE fopen \/ fdopen \/ freopen \/ fclose
  BY <1>5, OpenIsReopen DEF Unbuffered!Next
<1>6. CASE Grow
  BY <1>6, GrowIsGrow DEF Unbuffered!Next
<1>7. CASE setvbuf \/ UNCHANGED streamvars
  BY <1>7, RestIsRest
<1>. QED
  BY <1>1, <1>2, <1>3, <1>4, <1>5, <1>6, <1>7 DEF StdioNext

(* Through buffers of every size the program sees one file with one        *)
(* position: no byte that is read, written, pushed back, flushed or sought *)
(* over is lost, repeated or out of order.  Of what others add it loses    *)
(* the bytes in whose places it has put its own, and no more.              *)
THEOREM StreamIsFile == StdioSpec => ImplementsFileStream
<1>1. StdioInit => Unbuffered!Init
  BY InitIsInit
<1>2. IInv /\ [StdioNext]_streamvars => [Unbuffered!Next]_Unbuffered!vars
  BY StepIsStep
<1>. QED
  BY <1>1, <1>2, Invariant, PTL DEF StdioSpec, ImplementsFileStream, Unbuffered!Spec
-----------------------------------------------------------------------------
(* The screen of the kernel, of any size.                                  *)

(* What is put besides newlines, and what a cell may hold. *)
Glyph == (Letters \cup UNION {Range(kvprintf(f)) : f \in Formats}) \ {Newline}
Cell == Glyph \cup {NUL}
VgaY == 0 .. VGA_HEIGHT - 1
VgaX == 0 .. VGA_WIDTH - 1
LfbY == 0 .. Rows - 1
LfbX == 0 .. Columns - 1

(* What is put is not the character 0. *)
LEMMA CharactersAre ==
    /\ NUL \notin Glyph \cup {Newline} /\ Newline \notin Glyph
    /\ \A c \in Letters \cup {Newline} : c \in Glyph \cup {Newline}
    /\ \A f \in Formats : kvprintf(f) \in Seq(Glyph \cup {Newline})
<1>1. NUL \notin Glyph \cup {Newline}
  BY ConsoleAssumption DEF IsText, Glyph
<1>2. ASSUME NEW f \in Formats PROVE kvprintf(f) \in Seq(Glyph \cup {Newline})
  <2>1. kvprintf(f) \in Seq(Range(kvprintf(f)))
    BY ConsoleAssumption DEF IsText
  <2>2. Range(kvprintf(f)) \subseteq Glyph \cup {Newline}
    BY DEF Glyph
  <2>. QED
    BY <2>1, <2>2
<1>. QED
  BY <1>1, <1>2 DEF Glyph

(* Sizes are numbers. *)
LEMMA SizesAre ==
    /\ VGA_WIDTH \in Nat \ {0} /\ VGA_HEIGHT \in Nat \ {0}
    /\ Columns \in Nat /\ Columns > VGA_WIDTH /\ Rows \in Nat /\ Rows >= VGA_HEIGHT
BY ConsoleAssumption

(* A number is its quotient times the height of the VGA screen, and the    *)
(* rest, in one way only.                                                  *)
LEMMA RestOf ==
    ASSUME NEW a \in Nat
    PROVE  \E q \in Nat, r \in VgaY : r = a % VGA_HEIGHT /\ a = VGA_HEIGHT * q + r
<1>. VGA_HEIGHT \in Nat \ {0}
  BY SizesAre
<1>1. PICK q \in Int : q = a \div VGA_HEIGHT
  OBVIOUS
<1>2. PICK r \in VgaY : r = a % VGA_HEIGHT
  BY DEF VgaY
<1>3. a % VGA_HEIGHT = a - VGA_HEIGHT * (a \div VGA_HEIGHT)
  OBVIOUS
<1>4. r = a - VGA_HEIGHT * q
  BY <1>1, <1>2, <1>3, Zenon
<1>5. a = VGA_HEIGHT * q + r
  BY <1>4 DEF VgaY
<1>6. q >= 0
  BY <1>1
<1>7. q \in Nat
  BY <1>6
<1>. QED
  BY <1>2, <1>5, <1>7, Zenon

LEMMA RestIs ==
    ASSUME NEW q \in Nat, NEW r \in 0 .. VGA_HEIGHT - 1, NEW a \in Nat,
           a = VGA_HEIGHT * q + r
    PROVE  r = a % VGA_HEIGHT
BY ConsoleAssumption

(* The row of the next line on the VGA screen. *)
LEMMA NextRow ==
    ASSUME NEW a \in Nat
    PROVE  /\ a % VGA_HEIGHT \in VgaY
           /\ (a + 1) % VGA_HEIGHT =
                 IF (a % VGA_HEIGHT) + 1 = VGA_HEIGHT THEN 0 ELSE (a % VGA_HEIGHT) + 1
<1>. VGA_HEIGHT \in Nat \ {0}
  BY SizesAre
<1>1. PICK q \in Nat, r \in VgaY : r = a % VGA_HEIGHT /\ a = VGA_HEIGHT * q + r
  BY RestOf
<1>2. PICK b \in Nat, p \in Nat, t \in Nat : b = a + 1 /\ p = q + 1 /\ t = r + 1
  <2>1. a + 1 \in Nat /\ q + 1 \in Nat /\ r + 1 \in Nat
    BY DEF VgaY
  <2>. QED
    BY <2>1, Zenon
<1>3. CASE t = VGA_HEIGHT
  <2>1. b = VGA_HEIGHT * p + 0
    <3>1. VGA_HEIGHT * p = VGA_HEIGHT * q + VGA_HEIGHT
      BY <1>2
    <3>. QED
      BY <1>1, <1>2, <1>3, <3>1 DEF VgaY
  <2>2. 0 \in 0 .. VGA_HEIGHT - 1
    OBVIOUS
  <2>3. 0 = b % VGA_HEIGHT
    BY <2>1, <2>2, RestIs
  <2>. QED
    BY <1>1, <1>2, <1>3, <2>3
<1>4. CASE t # VGA_HEIGHT
  <2>1. b = VGA_HEIGHT * q + t
    BY <1>1, <1>2 DEF VgaY
  <2>2. t \in 0 .. VGA_HEIGHT - 1
    BY <1>2, <1>4 DEF VgaY
  <2>3. t = b % VGA_HEIGHT
    BY <2>1, <2>2, RestIs
  <2>. QED
    BY <1>1, <1>2, <1>4, <2>3
<1>. QED
  BY <1>3, <1>4

(* Lines that follow each other are in different rows. *)
LEMMA RowsDiffer ==
    ASSUME NEW a \in Nat, NEW b \in Nat, a < b, b < a + VGA_HEIGHT
    PROVE  a % VGA_HEIGHT # b % VGA_HEIGHT
<1>. VGA_HEIGHT \in Nat \ {0}
  BY SizesAre
<1>1. SUFFICES ASSUME a % VGA_HEIGHT = b % VGA_HEIGHT PROVE FALSE
  OBVIOUS
<1>2. PICK q \in Nat, r \in VgaY : r = a % VGA_HEIGHT /\ a = VGA_HEIGHT * q + r
  BY RestOf
<1>3. PICK p \in Nat, t \in VgaY : t = b % VGA_HEIGHT /\ b = VGA_HEIGHT * p + t
  BY RestOf
<1>4. CASE p <= q
  <2>1. VGA_HEIGHT * p <= VGA_HEIGHT * q
    BY <1>4
  <2>. QED
    BY <1>1, <1>2, <1>3, <2>1 DEF VgaY
<1>5. CASE p >= q + 1
  <2>1. VGA_HEIGHT * p >= VGA_HEIGHT * q + VGA_HEIGHT
    BY <1>5
  <2>. QED
    BY <1>1, <1>2, <1>3, <2>1 DEF VgaY
<1>. QED
  BY <1>4, <1>5

(* A line of an unfinished screen is in the row with its number.           *)
LEMMA SmallRow ==
    ASSUME NEW a \in Nat, a < VGA_HEIGHT
    PROVE  a % VGA_HEIGHT = a
<1>. VGA_HEIGHT \in Nat \ {0}
  BY SizesAre
<1>. QED
  OBVIOUS
-----------------------------------------------------------------------------
(* The invariant *)

(* What a line shows at a place, counted from 0. *)
CharAt(lines, i, x) ==
    IF i \in 1 .. Len(lines) /\ x < Len(lines[i]) THEN lines[i][x + 1] ELSE NUL

Screen == [terminal_row : Nat, terminal_column : Nat,
           vga_membuffer : [VgaY -> [VgaX -> Cell]],
           lfb_membuffer : [LfbY -> [LfbX -> Cell]],
           linear_framebuffer : [LfbY -> [LfbX -> Cell]]]

ScreenShape ==
    /\ driver \in {"vga", "copying", "lfb"}
    /\ screen \in Screen
    /\ copying \in [row : Nat, column : Nat, y : 0 .. VGA_HEIGHT, x : 0 .. VGA_WIDTH]
    /\ unsent \in Seq(Glyph \cup {Newline})
    /\ paper \in Seq(Seq(Glyph)) /\ Len(paper) >= 1
    /\ muddled \in BOOLEAN
    /\ driver = "copying" => unsent = <<>>

(* No line is longer than the screen is wide, and the last one ends before. *)
Fitting(lines, width) ==
    /\ \A i \in 1 .. Len(lines) : Len(lines[i]) <= width
    /\ Len(lines[Len(lines)]) < width

(* The VGA screen: the last lines are there; and as long as it has not     *)
(* started over, nothing else.                                             *)
OnVgaRows(s, lines) ==
    /\ \A i \in 1 .. Len(lines) : i > Len(lines) - VGA_HEIGHT =>
          \A x \in 1 .. Len(lines[i]) :
             s.vga_membuffer[(i - 1) % VGA_HEIGHT][x - 1] = lines[i][x]
    /\ Len(lines) <= VGA_HEIGHT =>
          \A y \in VgaY : \A x \in VgaX : s.vga_membuffer[y][x] = CharAt(lines, y + 1, x)
    /\ s.terminal_row = (Len(lines) - 1) % VGA_HEIGHT

OnVga(s, lines) == OnVgaRows(s, lines) /\ s.terminal_column = Len(lines[Len(lines)])

(* The framebuffer: all that is there are the last lines. *)
Hidden(lines) == IF Len(lines) > Rows THEN Len(lines) - Rows ELSE 0

OnLfbRows(s, lines) ==
    /\ \A y \in LfbY : \A x \in LfbX :
          s.lfb_membuffer[y][x] = CharAt(lines, Hidden(lines) + y + 1, x)
    /\ s.terminal_row = Len(lines) - 1 - Hidden(lines)

OnLfb(s, lines) == OnLfbRows(s, lines) /\ s.terminal_column = Len(lines[Len(lines)])

(* While lfb_copy_from_vga is at column x of row y: what lies before that  *)
(* has been copied, and nothing else is on the framebuffer.                *)
Copied ==
    /\ Len(paper) <= VGA_HEIGHT /\ Fitting(paper, VGA_WIDTH)
    /\ \A y \in VgaY : \A x \in VgaX : screen.vga_membuffer[y][x] = CharAt(paper, y + 1, x)
    /\ copying.row = Len(paper) - 1 /\ copying.column = Len(paper[Len(paper)])
    /\ screen.terminal_row = copying.y /\ screen.terminal_column = copying.x
    /\ copying.y = VGA_HEIGHT => copying.x = 0
    /\ \A y \in LfbY : \A x \in LfbX :
          screen.lfb_membuffer[y][x] =
             IF y < copying.y \/ (y = copying.y /\ x < copying.x)
             THEN CharAt(paper, y + 1, x) ELSE NUL

ScreenInv ==
    /\ ScreenShape
    /\ screen.linear_framebuffer = screen.lfb_membuffer
    /\ driver = "vga" =>
          /\ OnVga(screen, paper) /\ Fitting(paper, VGA_WIDTH)
          /\ \A y \in LfbY : \A x \in LfbX : screen.lfb_membuffer[y][x] = NUL
    /\ driver = "copying" /\ ~muddled => Copied
    /\ driver = "lfb" /\ ~muddled => OnLfb(screen, paper) /\ Fitting(paper, Columns)
-----------------------------------------------------------------------------
(* Lines *)

(* A new line under the others. *)
IsNewLine(n, lines, k) ==
    /\ n \in Seq(Seq(Glyph)) /\ Len(n) = k + 1
    /\ \A i \in 1 .. k : n[i] = lines[i]
    /\ n[k + 1] = <<>> /\ Len(n[k + 1]) = 0
    /\ \A i \in Nat : \A x \in Nat : CharAt(n, i, x) = CharAt(lines, i, x)

LEMMA NewLineIs ==
    ASSUME NEW lines \in Seq(Seq(Glyph)), NEW k \in Nat, Len(lines) = k,
           NEW n, n = Append(lines, <<>>)
    PROVE  IsNewLine(n, lines, k)
<1>1. <<>> \in Seq(Glyph) /\ Len(<<>>) = 0
  OBVIOUS
<1>2. n \in Seq(Seq(Glyph)) /\ Len(n) = k + 1
  BY <1>1, AppendProperties
<1>3. \A i \in 1 .. k : n[i] = lines[i]
  BY <1>1, AppendProperties
<1>4. n[k + 1] = <<>>
  BY <1>1, <1>2, AppendProperties
<1>5. ASSUME NEW i \in Nat, NEW x \in Nat PROVE CharAt(n, i, x) = CharAt(lines, i, x)
  <2>1. CASE i = k + 1
    <3>1. CharAt(n, i, x) = NUL
      BY <1>1, <1>2, <1>4, <2>1 DEF CharAt
    <3>2. CharAt(lines, i, x) = NUL
      BY <2>1 DEF CharAt
    <3>. QED
      BY <3>1, <3>2
  <2>2. CASE i # k + 1
    <3>1. i \in 1 .. k + 1 <=> i \in 1 .. k
      BY <2>2
    <3>. QED
      BY <1>2, <1>3, <3>1, Zenon DEF CharAt
  <2>. QED
    BY <2>1, <2>2
<1>. QED
  BY <1>1, <1>2, <1>3, <1>4, <1>5 DEF IsNewLine

LEMMA NewLineFits ==
    ASSUME NEW lines, NEW k \in Nat, NEW n, IsNewLine(n, lines, k), NEW width \in Nat \ {0},
           \A i \in 1 .. k : Len(lines[i]) <= width
    PROVE  Fitting(n, width)
<1>1. /\ Len(n) = k + 1 /\ \A i \in 1 .. k : n[i] = lines[i]
      /\ Len(n[k + 1]) = 0
  BY DEF IsNewLine
<1>2. ASSUME NEW i \in 1 .. k + 1 PROVE Len(n[i]) <= width
  <2>1. CASE i = k + 1
    BY <1>1, <2>1
  <2>2. CASE i # k + 1
    <3>1. i \in 1 .. k
      BY <2>2
    <3>. QED
      BY <1>1, <3>1
  <2>. QED
    BY <2>1, <2>2
<1>. QED
  BY <1>1, <1>2 DEF Fitting

(* One more character in the last line. *)
Longer(lines, c) == [lines EXCEPT ![Len(lines)] = Append(Last(lines), c)]

IsLonger(m, lines, k, w, c) ==
    /\ m \in Seq(Seq(Glyph)) /\ Len(m) = k
    /\ \A i \in 1 .. k : i # k => m[i] = lines[i]
    /\ Len(m[k]) = w + 1 /\ m[k][w + 1] = c
    /\ \A x \in 1 .. w : m[k][x] = lines[k][x]
    /\ \A i \in Nat : \A x \in Nat :
          CharAt(m, i, x) = IF i = k /\ x = w THEN c ELSE CharAt(lines, i, x)

LEMMA LongerIs ==
    ASSUME NEW lines \in Seq(Seq(Glyph)), NEW k \in Nat, k >= 1, Len(lines) = k,
           NEW w \in Nat, Len(lines[k]) = w, NEW c \in Glyph,
           NEW m, m = Longer(lines, c)
    PROVE  IsLonger(m, lines, k, w, c)
<1>1. k \in 1 .. k /\ DOMAIN lines = 1 .. k
  BY LenProperties
<1>2. lines[k] \in Seq(Glyph)
  BY <1>1, ElementOfSeq
<1>3. PICK longer : longer = Append(lines[k], c)
  OBVIOUS
<1>4. /\ longer \in Seq(Glyph) /\ Len(longer) = w + 1 /\ longer[w + 1] = c
      /\ \A x \in 1 .. w : longer[x] = lines[k][x]
  BY <1>2, <1>3, AppendProperties
<1>5. m = [lines EXCEPT ![k] = longer]
  BY <1>3 DEF Longer, Last
<1>6. m \in Seq(Seq(Glyph)) /\ Len(m) = k
  BY <1>1, <1>4, <1>5, ExceptSeq
<1>7. m[k] = longer /\ \A i \in 1 .. k : i # k => m[i] = lines[i]
  BY <1>1, <1>5
<1>8. /\ Len(m[k]) = w + 1 /\ m[k][w + 1] = c
      /\ \A x \in 1 .. w : m[k][x] = lines[k][x]
  BY <1>4, <1>7
<1>9. ASSUME NEW i \in Nat, NEW x \in Nat
      PROVE  CharAt(m, i, x) = IF i = k /\ x = w THEN c ELSE CharAt(lines, i, x)
  <2>1. CASE i = k
    <3>1. CharAt(m, i, x) = IF x < w + 1 THEN m[k][x + 1] ELSE NUL
      BY <1>6, <1>8, <2>1 DEF CharAt
    <3>2. CharAt(lines, i, x) = IF x < w THEN lines[k][x + 1] ELSE NUL
      BY <2>1 DEF CharAt
    <3>3. CASE x < w
      <4>1. x + 1 \in 1 .. w
        BY <3>3
      <4>. QED
        BY <1>8, <3>1, <3>2, <3>3, <4>1
    <3>4. CASE x = w
      BY <1>8, <2>1, <3>1, <3>4
    <3>5. CASE x > w
      BY <3>1, <3>2, <3>5
    <3>. QED
      BY <3>3, <3>4, <3>5
  <2>2. CASE i # k
    BY <1>6, <1>7, <2>2, Zenon DEF CharAt
  <2>. QED
    BY <2>1, <2>2
<1>. QED
  BY <1>6, <1>7, <1>8, <1>9 DEF IsLonger

LEMMA LongerFits ==
    ASSUME NEW lines, NEW k \in Nat, NEW w \in Nat, NEW c, NEW m, IsLonger(m, lines, k, w, c),
           NEW width \in Nat, w < width,
           \A i \in 1 .. k : Len(lines[i]) <= width
    PROVE  \A i \in 1 .. k : Len(m[i]) <= width
<1>1. /\ \A i \in 1 .. k : i # k => m[i] = lines[i]
      /\ Len(m[k]) = w + 1
  BY DEF IsLonger
<1>2. ASSUME NEW i \in 1 .. k PROVE Len(m[i]) <= width
  <2>1. CASE i = k
    BY <1>1, <2>1
  <2>2. CASE i # k
    BY <1>1, <2>2
  <2>. QED
    BY <2>1, <2>2
<1>. QED
  BY <1>2

-----------------------------------------------------------------------------
(* The VGA screen *)

(* A screen is its fields. *)
ScreenOf(row, column, v, l, f) ==
    [terminal_row |-> row, terminal_column |-> column, vga_membuffer |-> v,
     lfb_membuffer |-> l, linear_framebuffer |-> f]

LEMMA ScreenFieldsAre ==
    ASSUME NEW s \in Screen
    PROVE  /\ s.terminal_row \in Nat /\ s.terminal_column \in Nat
           /\ s.vga_membuffer \in [VgaY -> [VgaX -> Cell]]
           /\ s.lfb_membuffer \in [LfbY -> [LfbX -> Cell]]
           /\ s.linear_framebuffer \in [LfbY -> [LfbX -> Cell]]
           /\ s = ScreenOf(s.terminal_row, s.terminal_column, s.vga_membuffer,
                           s.lfb_membuffer, s.linear_framebuffer)
<1>1. /\ s.terminal_row \in Nat /\ s.terminal_column \in Nat
      /\ s.vga_membuffer \in [VgaY -> [VgaX -> Cell]]
      /\ s.lfb_membuffer \in [LfbY -> [LfbX -> Cell]]
      /\ s.linear_framebuffer \in [LfbY -> [LfbX -> Cell]]
  BY DEF Screen
<1>. QED
  BY <1>1 DEF Screen, ScreenOf

HasFields(s, row, column, v, l, f) ==
    /\ s \in Screen
    /\ s.terminal_row = row /\ s.terminal_column = column /\ s.vga_membuffer = v
    /\ s.lfb_membuffer = l /\ s.linear_framebuffer = f

LEMMA ScreenIs ==
    ASSUME NEW row \in Nat, NEW column \in Nat, NEW v \in [VgaY -> [VgaX -> Cell]],
           NEW l \in [LfbY -> [LfbX -> Cell]], NEW f \in [LfbY -> [LfbX -> Cell]],
           NEW s, s = ScreenOf(row, column, v, l, f)
    PROVE  HasFields(s, row, column, v, l, f)
BY DEF HasFields, Screen, ScreenOf

(* Nothing but the cursor moves. *)
LEMMA RowIs ==
    ASSUME NEW s \in Screen, NEW row \in Nat,
           NEW t, t = [s EXCEPT !.terminal_row = row]
    PROVE  /\ t \in Screen /\ t.terminal_row = row /\ t.terminal_column = s.terminal_column
           /\ t.vga_membuffer = s.vga_membuffer /\ t.lfb_membuffer = s.lfb_membuffer
           /\ t.linear_framebuffer = s.linear_framebuffer
<1>1. PICK column \in Nat, v \in [VgaY -> [VgaX -> Cell]], l \in [LfbY -> [LfbX -> Cell]],
           f \in [LfbY -> [LfbX -> Cell]] :
         /\ column = s.terminal_column
         /\ v = s.vga_membuffer /\ l = s.lfb_membuffer /\ f = s.linear_framebuffer
  BY ScreenFieldsAre
<1>2. t = ScreenOf(row, column, v, l, f)
  BY <1>1, ScreenFieldsAre DEF ScreenOf
<1>3. HasFields(t, row, column, v, l, f)
  BY <1>2, ScreenIs
<1>. QED
  BY <1>1, <1>3, Zenon DEF HasFields

LEMMA ColumnIs ==
    ASSUME NEW s \in Screen, NEW column \in Nat,
           NEW t, t = [s EXCEPT !.terminal_column = column]
    PROVE  /\ t \in Screen /\ t.terminal_row = s.terminal_row /\ t.terminal_column = column
           /\ t.vga_membuffer = s.vga_membuffer /\ t.lfb_membuffer = s.lfb_membuffer
           /\ t.linear_framebuffer = s.linear_framebuffer
<1>1. PICK row \in Nat, v \in [VgaY -> [VgaX -> Cell]], l \in [LfbY -> [LfbX -> Cell]],
           f \in [LfbY -> [LfbX -> Cell]] :
         /\ row = s.terminal_row
         /\ v = s.vga_membuffer /\ l = s.lfb_membuffer /\ f = s.linear_framebuffer
  BY ScreenFieldsAre
<1>2. t = ScreenOf(row, column, v, l, f)
  BY <1>1, ScreenFieldsAre DEF ScreenOf
<1>3. HasFields(t, row, column, v, l, f)
  BY <1>2, ScreenIs
<1>. QED
  BY <1>1, <1>3, Zenon DEF HasFields

Moved(s, row, column) == [s EXCEPT !.terminal_row = row, !.terminal_column = column]

IsMoved(t, s, row, column) ==
    /\ t \in Screen /\ t.terminal_row = row /\ t.terminal_column = column
    /\ t.vga_membuffer = s.vga_membuffer /\ t.lfb_membuffer = s.lfb_membuffer
    /\ t.linear_framebuffer = s.linear_framebuffer

LEMMA CursorIs ==
    ASSUME NEW s \in Screen, NEW row \in Nat, NEW column \in Nat,
           NEW t, t = Moved(s, row, column)
    PROVE  IsMoved(t, s, row, column)
<1>1. PICK v \in [VgaY -> [VgaX -> Cell]], l \in [LfbY -> [LfbX -> Cell]],
           f \in [LfbY -> [LfbX -> Cell]] :
         /\ v = s.vga_membuffer /\ l = s.lfb_membuffer /\ f = s.linear_framebuffer
  BY ScreenFieldsAre
<1>2. t = ScreenOf(row, column, v, l, f)
  <2>1. PICK u : u = [s EXCEPT !.terminal_row = row]
    OBVIOUS
  <2>2. u = ScreenOf(row, s.terminal_column, v, l, f)
    BY <1>1, <2>1, ScreenFieldsAre DEF ScreenOf
  <2>3. t = [u EXCEPT !.terminal_column = column]
    BY <2>1, Zenon DEF Moved
  <2>. QED
    BY <2>2, <2>3 DEF ScreenOf
<1>3. HasFields(t, row, column, v, l, f)
  BY <1>2, ScreenIs
<1>. QED
  BY <1>1, <1>3, Zenon DEF HasFields, IsMoved

(* The next row of the VGA screen is that of a new line. *)
LEMMA VgaNextIs ==
    ASSUME NEW s \in Screen, NEW t, t = vga_next_row(s)
    PROVE  /\ t \in Screen /\ t.vga_membuffer = s.vga_membuffer
           /\ t.lfb_membuffer = s.lfb_membuffer
           /\ t.linear_framebuffer = s.linear_framebuffer /\ t.terminal_column = 0
           /\ t.terminal_row = IF s.terminal_row + 1 = VGA_HEIGHT THEN 0 ELSE s.terminal_row + 1
<1>1. s.terminal_row + 1 \in Nat
  BY ScreenFieldsAre
<1>2. PICK r \in Nat : r = IF s.terminal_row + 1 = VGA_HEIGHT THEN 0 ELSE s.terminal_row + 1
  BY <1>1
<1>3. PICK u : u = [s EXCEPT !.terminal_column = 0]
  OBVIOUS
<1>4. t = [u EXCEPT !.terminal_row = r]
  BY <1>2, <1>3, Zenon DEF vga_next_row
<1>5. /\ u \in Screen /\ u.terminal_column = 0
      /\ u.vga_membuffer = s.vga_membuffer /\ u.lfb_membuffer = s.lfb_membuffer
      /\ u.linear_framebuffer = s.linear_framebuffer
  BY <1>3, ColumnIs
<1>. QED
  BY <1>2, <1>4, <1>5, RowIs

LEMMA VgaNextRow ==
    ASSUME NEW s \in Screen, NEW lines \in Seq(Seq(Glyph)), NEW k \in Nat, Len(lines) = k,
           k >= 1, OnVgaRows(s, lines),
           NEW t, t = vga_next_row(s), NEW n, n = Append(lines, <<>>)
    PROVE  OnVga(t, n)
<1>1. /\ t.vga_membuffer = s.vga_membuffer /\ t.terminal_column = 0
      /\ t.terminal_row = IF s.terminal_row + 1 = VGA_HEIGHT THEN 0 ELSE s.terminal_row + 1
  BY VgaNextIs
<1>2. /\ Len(n) = k + 1 /\ n[k + 1] = <<>> /\ Len(n[k + 1]) = 0
      /\ \A i \in 1 .. k : n[i] = lines[i]
      /\ \A i \in Nat : \A x \in Nat : CharAt(n, i, x) = CharAt(lines, i, x)
  <2>1. IsNewLine(n, lines, k)
    BY NewLineIs
  <2>. QED
    BY <2>1 DEF IsNewLine
<1>4. VGA_HEIGHT \in Nat \ {0}
  BY SizesAre
<1>5. t.terminal_row = (Len(n) - 1) % VGA_HEIGHT
  <2>1. PICK a \in Nat : a = k - 1
    BY k - 1 \in Nat
  <2>2. (a + 1) % VGA_HEIGHT = IF (a % VGA_HEIGHT) + 1 = VGA_HEIGHT THEN 0 ELSE (a % VGA_HEIGHT) + 1
    BY NextRow
  <2>3. s.terminal_row = a % VGA_HEIGHT
    BY <2>1 DEF OnVgaRows
  <2>4. t.terminal_row = (a + 1) % VGA_HEIGHT
    BY <1>1, <2>2, <2>3
  <2>5. a + 1 = Len(n) - 1
    BY <1>2, <2>1
  <2>. QED
    BY <2>4, <2>5
<1>6. ASSUME NEW i \in 1 .. Len(n), i > Len(n) - VGA_HEIGHT, NEW x \in 1 .. Len(n[i])
      PROVE  t.vga_membuffer[(i - 1) % VGA_HEIGHT][x - 1] = n[i][x]
  <2>1. i # k + 1
    BY <1>2
  <2>2. i \in 1 .. k /\ i > k - VGA_HEIGHT /\ n[i] = lines[i]
    BY <1>2, <1>4, <1>6, <2>1
  <2>3. \A z \in 1 .. Len(lines[i]) :
           s.vga_membuffer[(i - 1) % VGA_HEIGHT][z - 1] = lines[i][z]
    BY <2>2 DEF OnVgaRows
  <2>4. x \in 1 .. Len(lines[i])
    BY <1>6, <2>2, Zenon
  <2>5. s.vga_membuffer[(i - 1) % VGA_HEIGHT][x - 1] = lines[i][x]
    BY <2>3, <2>4
  <2>. QED
    BY <1>1, <2>2, <2>5, Zenon
<1>7. ASSUME Len(n) <= VGA_HEIGHT, NEW y \in VgaY, NEW x \in VgaX
      PROVE  t.vga_membuffer[y][x] = CharAt(n, y + 1, x)
  <2>1. k <= VGA_HEIGHT
    BY <1>2, <1>4, <1>7
  <2>2. t.vga_membuffer[y][x] = CharAt(lines, y + 1, x)
    BY <1>1, <2>1 DEF OnVgaRows
  <2>3. y + 1 \in Nat /\ x \in Nat
    BY DEF VgaY, VgaX
  <2>4. CharAt(n, y + 1, x) = CharAt(lines, y + 1, x)
    BY <1>2, <2>3
  <2>. QED
    BY <2>2, <2>4
<1>8. t.terminal_column = Len(n[Len(n)])
  BY <1>1, <1>2
<1>. QED
  BY <1>5, <1>6, <1>7, <1>8 DEF OnVga, OnVgaRows

(* A character on the VGA screen goes to the end of the last line. *)
WithEntry(s, c) == [s EXCEPT !.vga_membuffer[s.terminal_row][s.terminal_column] = c]

OnlyEntry(t, s, c) ==
    \A y \in VgaY : \A x \in VgaX :
       t.vga_membuffer[y][x] =
          IF y = s.terminal_row /\ x = s.terminal_column THEN c ELSE s.vga_membuffer[y][x]

LEMMA EntryIs ==
    ASSUME NEW s \in Screen, s.terminal_row \in VgaY, s.terminal_column \in VgaX,
           NEW c \in Glyph, NEW t, t = WithEntry(s, c)
    PROVE  /\ t \in Screen
           /\ t.terminal_column = s.terminal_column /\ t.terminal_row = s.terminal_row
           /\ t.lfb_membuffer = s.lfb_membuffer
           /\ t.linear_framebuffer = s.linear_framebuffer
           /\ OnlyEntry(t, s, c)
<1>1. PICK v : v = s.vga_membuffer
  OBVIOUS
<1>2. PICK u : u = [v EXCEPT ![s.terminal_row] = [@ EXCEPT ![s.terminal_column] = c]]
  OBVIOUS
<1>3. v \in [VgaY -> [VgaX -> Cell]] /\ c \in Cell
  BY <1>1 DEF Screen, Cell
<1>4. /\ u \in [VgaY -> [VgaX -> Cell]]
      /\ \A y \in VgaY : \A x \in VgaX :
            u[y][x] = IF y = s.terminal_row /\ x = s.terminal_column THEN c ELSE v[y][x]
  BY <1>2, <1>3
<1>5. t = [s EXCEPT !.vga_membuffer = u]
  BY <1>1, <1>2 DEF WithEntry
<1>6. PICK row \in Nat, column \in Nat, l \in [LfbY -> [LfbX -> Cell]],
           f \in [LfbY -> [LfbX -> Cell]] :
         /\ row = s.terminal_row /\ column = s.terminal_column
         /\ l = s.lfb_membuffer /\ f = s.linear_framebuffer
  BY ScreenFieldsAre
<1>7. HasFields(t, row, column, u, l, f)
  <2>1. t = ScreenOf(row, column, u, l, f)
    BY <1>5, <1>6, ScreenFieldsAre DEF ScreenOf
  <2>. QED
    BY <1>4, <2>1, ScreenIs
<1>8. OnlyEntry(t, s, c)
  BY <1>1, <1>4, <1>7, Zenon DEF OnlyEntry, HasFields
<1>. QED
  BY <1>6, <1>7, <1>8, Zenon DEF HasFields

LEMMA VgaEntry ==
    ASSUME NEW s \in Screen, NEW lines \in Seq(Seq(Glyph)), NEW k \in Nat, Len(lines) = k,
           k >= 1, NEW w \in Nat, Len(lines[k]) = w,
           OnVga(s, lines), Fitting(lines, VGA_WIDTH), NEW c \in Glyph,
           NEW t, t = WithEntry(s, c), NEW m, m = Longer(lines, c)
    PROVE  /\ t \in Screen /\ OnVgaRows(t, m)
           /\ t.terminal_column = w /\ t.terminal_row = s.terminal_row
           /\ t.lfb_membuffer = s.lfb_membuffer
           /\ t.linear_framebuffer = s.linear_framebuffer
<1>1. VGA_HEIGHT \in Nat \ {0} /\ VGA_WIDTH \in Nat \ {0} /\ k - 1 \in Nat
  BY SizesAre
<1>2. s.terminal_row = (k - 1) % VGA_HEIGHT /\ s.terminal_row \in VgaY
  BY <1>1, NextRow DEF OnVga, OnVgaRows
<1>3. s.terminal_column = w /\ w \in VgaX
  BY <1>1 DEF OnVga, Fitting, VgaX
<1>4. PICK row \in VgaY : row = s.terminal_row
  BY <1>2
<1>5. /\ t \in Screen
      /\ t.terminal_column = s.terminal_column /\ t.terminal_row = s.terminal_row
      /\ t.lfb_membuffer = s.lfb_membuffer
      /\ t.linear_framebuffer = s.linear_framebuffer
  BY <1>2, <1>3, EntryIs
<1>6. \A y \in VgaY : \A x \in VgaX :
         t.vga_membuffer[y][x] = IF y = row /\ x = w THEN c ELSE s.vga_membuffer[y][x]
  <2>1. OnlyEntry(t, s, c)
    BY <1>2, <1>3, EntryIs
  <2>. QED
    BY <1>3, <1>4, <2>1, Zenon DEF OnlyEntry
<1>7. /\ Len(m) = k /\ Len(m[k]) = w + 1 /\ m[k][w + 1] = c
      /\ \A i \in 1 .. k : i # k => m[i] = lines[i]
      /\ \A x \in 1 .. w : m[k][x] = lines[k][x]
      /\ \A i \in Nat : \A x \in Nat :
            CharAt(m, i, x) = IF i = k /\ x = w THEN c ELSE CharAt(lines, i, x)
  <2>1. IsLonger(m, lines, k, w, c)
    BY LongerIs
  <2>. QED
    BY <2>1 DEF IsLonger
<1>8. ASSUME NEW i \in 1 .. Len(m), i > Len(m) - VGA_HEIGHT, NEW x \in 1 .. Len(m[i])
      PROVE  t.vga_membuffer[(i - 1) % VGA_HEIGHT][x - 1] = m[i][x]
  <2>1. i \in 1 .. k /\ i > k - VGA_HEIGHT
    BY <1>7, <1>8
  <2>2. PICK a \in Nat : a = i - 1
    BY i - 1 \in Nat
  <2>3. PICK y \in VgaY : y = a % VGA_HEIGHT
    BY NextRow
  <2>4. \A z \in 1 .. Len(lines[i]) : s.vga_membuffer[y][z - 1] = lines[i][z]
    BY <2>1, <2>2, <2>3 DEF OnVga, OnVgaRows
  <2>5. CASE i = k
    <3>1. y = row
      BY <1>2, <1>4, <2>2, <2>3, <2>5
    <3>2. x \in 1 .. w + 1
      BY <1>7, <1>8, <2>5
    <3>3. CASE x = w + 1
      <4>1. x - 1 = w
        BY <3>3
      <4>2. t.vga_membuffer[y][w] = c
        BY <1>3, <1>6, <3>1
      <4>. QED
        BY <1>7, <2>2, <2>3, <2>5, <3>3, <4>1, <4>2
    <3>4. CASE x # w + 1
      <4>1. x \in 1 .. w /\ x - 1 # w /\ x - 1 \in VgaX
        BY <1>1, <1>3, <3>2, <3>4 DEF VgaX
      <4>2. m[i][x] = lines[i][x]
        BY <1>7, <2>5, <4>1
      <4>3. s.vga_membuffer[y][x - 1] = lines[i][x]
        BY <2>4, <2>5, <4>1
      <4>4. t.vga_membuffer[y][x - 1] = s.vga_membuffer[y][x - 1]
        BY <1>6, <4>1
      <4>. QED
        BY <2>2, <2>3, <4>2, <4>3, <4>4
    <3>. QED
      BY <3>3, <3>4
  <2>6. CASE i # k
    <3>1. m[i] = lines[i]
      BY <1>7, <2>1, <2>6
    <3>2. y # row
      <4>1. PICK b \in Nat : b = k - 1
        BY <1>1
      <4>2. a < b /\ b < a + VGA_HEIGHT
        BY <1>1, <2>1, <2>2, <2>6, <4>1
      <4>3. a % VGA_HEIGHT # b % VGA_HEIGHT
        BY <4>2, RowsDiffer
      <4>. QED
        BY <1>2, <1>4, <2>3, <4>1, <4>3
    <3>3. Len(lines[i]) <= VGA_WIDTH /\ Len(lines[i]) \in Nat
      BY <2>1, ElementOfSeq, LenProperties DEF Fitting
    <3>4. x \in 1 .. Len(lines[i])
      BY <1>8, <3>1
    <3>5. x - 1 \in VgaX
      BY <1>1, <3>3, <3>4 DEF VgaX
    <3>6. s.vga_membuffer[y][x - 1] = lines[i][x]
      BY <2>4, <3>4
    <3>7. t.vga_membuffer[y][x - 1] = s.vga_membuffer[y][x - 1]
      BY <1>6, <3>2, <3>5
    <3>. QED
      BY <2>2, <2>3, <3>1, <3>6, <3>7
  <2>. QED
    BY <2>5, <2>6
<1>9. ASSUME Len(m) <= VGA_HEIGHT, NEW y \in VgaY, NEW x \in VgaX
      PROVE  t.vga_membuffer[y][x] = CharAt(m, y + 1, x)
  <2>1. k <= VGA_HEIGHT
    BY <1>7, <1>9
  <2>2. row = k - 1
    <3>1. PICK b \in Nat : b = k - 1
      BY <1>1
    <3>2. b < VGA_HEIGHT
      BY <1>1, <2>1, <3>1
    <3>3. b % VGA_HEIGHT = b
      BY <3>2, SmallRow
    <3>. QED
      BY <1>2, <1>4, <3>1, <3>3
  <2>3. s.vga_membuffer[y][x] = CharAt(lines, y + 1, x)
    BY <2>1 DEF OnVga, OnVgaRows
  <2>4. y + 1 \in Nat /\ x \in Nat /\ (y = row <=> y + 1 = k)
    BY <2>2 DEF VgaY, VgaX
  <2>5. CharAt(m, y + 1, x) = IF y + 1 = k /\ x = w THEN c ELSE CharAt(lines, y + 1, x)
    BY <1>7, <2>4
  <2>. QED
    BY <1>6, <2>3, <2>4, <2>5
<1>10. t.terminal_row = (Len(m) - 1) % VGA_HEIGHT
  BY <1>2, <1>5, <1>7
<1>. QED
  BY <1>3, <1>5, <1>8, <1>9, <1>10 DEF OnVgaRows

(* vga_terminal_putchar puts a character on the paper and the screen. *)
LEMMA VgaPutchar ==
    ASSUME NEW s \in Screen, NEW lines \in Seq(Seq(Glyph)), Len(lines) >= 1,
           OnVga(s, lines), Fitting(lines, VGA_WIDTH), NEW c \in Glyph \cup {Newline},
           NEW t, t = vga_terminal_putchar(s, c), NEW n, n = OnPaper(lines, c, VGA_WIDTH)
    PROVE  /\ t \in Screen /\ OnVga(t, n)
           /\ n \in Seq(Seq(Glyph)) /\ Len(n) >= 1 /\ Fitting(n, VGA_WIDTH)
           /\ t.lfb_membuffer = s.lfb_membuffer
           /\ t.linear_framebuffer = s.linear_framebuffer
<1>1. PICK k \in Nat : k = Len(lines)
  BY LenProperties
<1>2. VGA_WIDTH \in Nat \ {0} /\ k >= 1
  BY <1>1, SizesAre
<1>3. PICK w \in Nat : w = Len(lines[k])
  <2>1. lines[k] \in Seq(Glyph)
    BY <1>1, <1>2, ElementOfSeq
  <2>. QED
    BY <2>1, LenProperties
<1>4. /\ w < VGA_WIDTH /\ \A i \in 1 .. k : Len(lines[i]) <= VGA_WIDTH
      /\ s.terminal_column = w
  BY <1>1, <1>3 DEF Fitting, OnVga
<1>5. CASE c = Newline
  <2>1. t = vga_next_row(s) /\ n = Append(lines, <<>>)
    BY <1>5 DEF vga_terminal_putchar, OnPaper
  <2>2. OnVga(t, n)
    <3>1. OnVgaRows(s, lines)
      BY DEF OnVga
    <3>. QED
      BY <1>1, <1>2, <2>1, <3>1, VgaNextRow
  <2>3. IsNewLine(n, lines, k)
    BY <1>1, <2>1, NewLineIs
  <2>4. Fitting(n, VGA_WIDTH)
    BY <1>2, <1>4, <2>3, NewLineFits
  <2>. QED
    BY <1>2, <2>1, <2>2, <2>3, <2>4, VgaNextIs DEF IsNewLine
<1>6. CASE c # Newline
  <2>1. PICK u : u = WithEntry(s, c)
    OBVIOUS
  <2>2. PICK m : m = Longer(lines, c)
    OBVIOUS
  <2>3. c \in Glyph
    BY <1>6
  <2>4. /\ u \in Screen /\ OnVgaRows(u, m)
        /\ u.terminal_column = w /\ u.terminal_row = s.terminal_row
        /\ u.lfb_membuffer = s.lfb_membuffer
        /\ u.linear_framebuffer = s.linear_framebuffer
    BY <1>1, <1>2, <1>3, <2>1, <2>2, <2>3, VgaEntry
  <2>5. IsLonger(m, lines, k, w, c)
    BY <1>1, <1>2, <1>3, <2>2, <2>3, LongerIs
  <2>6. m \in Seq(Seq(Glyph)) /\ Len(m) = k /\ Len(m[k]) = w + 1
    BY <2>5 DEF IsLonger
  <2>7. \A i \in 1 .. k : Len(m[i]) <= VGA_WIDTH
    BY <1>2, <1>4, <2>5, LongerFits
  <2>8. /\ t = IF w + 1 = VGA_WIDTH THEN vga_next_row(u) ELSE [u EXCEPT !.terminal_column = @ + 1]
        /\ n = IF w + 1 = VGA_WIDTH THEN Append(m, <<>>) ELSE m
    <3>1. t = IF w + 1 = VGA_WIDTH THEN vga_next_row(u) ELSE [u EXCEPT !.terminal_column = @ + 1]
      BY <1>4, <1>6, <2>1, Zenon DEF vga_terminal_putchar, WithEntry
    <3>2. Len(Append(Last(lines), c)) = w + 1
      <4>1. lines[k] \in Seq(Glyph)
        BY <1>1, <1>2, ElementOfSeq
      <4>. QED
        BY <1>1, <1>3, <2>3, <4>1, AppendProperties DEF Last
    <3>3. n = IF w + 1 = VGA_WIDTH THEN Append(m, <<>>) ELSE m
      BY <1>6, <2>2, <3>2, Zenon DEF OnPaper, Longer
    <3>. QED
      BY <3>1, <3>3
  <2>9. CASE w + 1 = VGA_WIDTH
    <3>1. t = vga_next_row(u) /\ n = Append(m, <<>>)
      BY <2>8, <2>9
    <3>2. OnVga(t, n)
      BY <1>2, <2>4, <2>6, <3>1, VgaNextRow
    <3>3. IsNewLine(n, m, k)
      BY <2>6, <3>1, NewLineIs
    <3>4. Fitting(n, VGA_WIDTH)
      BY <1>2, <2>7, <3>3, NewLineFits
    <3>. QED
      BY <1>2, <2>4, <3>1, <3>2, <3>3, <3>4, VgaNextIs DEF IsNewLine
  <2>10. CASE w + 1 # VGA_WIDTH
    <3>1. t = [u EXCEPT !.terminal_column = w + 1] /\ n = m
      BY <2>4, <2>8, <2>10, Zenon
    <3>2. PICK v \in Nat : v = w + 1
      OBVIOUS
    <3>3. /\ t \in Screen /\ t.terminal_row = u.terminal_row /\ t.terminal_column = v
          /\ t.vga_membuffer = u.vga_membuffer /\ t.lfb_membuffer = u.lfb_membuffer
          /\ t.linear_framebuffer = u.linear_framebuffer
      BY <2>4, <3>1, <3>2, ColumnIs
    <3>4. OnVga(t, n)
      <4>1. OnVgaRows(t, n)
        BY <2>4, <3>1, <3>3 DEF OnVgaRows
      <4>2. t.terminal_column = Len(n[Len(n)])
        BY <2>6, <3>1, <3>2, <3>3
      <4>. QED
        BY <4>1, <4>2 DEF OnVga
    <3>5. Fitting(n, VGA_WIDTH)
      BY <1>2, <1>4, <2>6, <2>7, <2>10, <3>1 DEF Fitting
    <3>. QED
      BY <1>2, <2>4, <2>6, <3>1, <3>3, <3>4, <3>5
  <2>. QED
    BY <2>9, <2>10
<1>. QED
  BY <1>5, <1>6
-----------------------------------------------------------------------------
(* The framebuffer *)

(* A new line on the framebuffer, of which the screen is a copy. *)
Scrolled(l) == [y \in LfbY |-> IF y < Rows - 1 THEN l[y + 1] ELSE EmptyRow(Columns)]

LEMMA ScrolledIs ==
    ASSUME NEW l \in [LfbY -> [LfbX -> Cell]]
    PROVE  Scrolled(l) \in [LfbY -> [LfbX -> Cell]]
<1>1. ASSUME NEW y \in LfbY PROVE (IF y < Rows - 1 THEN l[y + 1] ELSE EmptyRow(Columns)) \in [LfbX -> Cell]
  <2>1. EmptyRow(Columns) \in [LfbX -> Cell]
    BY DEF EmptyRow, LfbX, Cell
  <2>2. y < Rows - 1 => y + 1 \in LfbY
    BY SizesAre DEF LfbY
  <2>. QED
    BY <2>1, <2>2
<1>. QED
  BY <1>1 DEF Scrolled

LEMMA LfbNextIs ==
    ASSUME NEW s \in Screen, NEW t, t = lfb_newline(s), s.linear_framebuffer = s.lfb_membuffer
    PROVE  /\ t \in Screen /\ t.vga_membuffer = s.vga_membuffer
           /\ t.linear_framebuffer = t.lfb_membuffer /\ t.terminal_column = 0
           /\ IF s.terminal_row + 1 >= Rows
              THEN t.lfb_membuffer = Scrolled(s.lfb_membuffer) /\ t.terminal_row = s.terminal_row
              ELSE t.lfb_membuffer = s.lfb_membuffer /\ t.terminal_row = s.terminal_row + 1
<1>1. /\ s.terminal_row \in Nat /\ s.vga_membuffer \in [VgaY -> [VgaX -> Cell]]
      /\ s.lfb_membuffer \in [LfbY -> [LfbX -> Cell]]
  BY ScreenFieldsAre
<1>2. PICK u : u = [s EXCEPT !.terminal_column = 0]
  OBVIOUS
<1>3. /\ u \in Screen /\ u.terminal_column = 0 /\ u.terminal_row = s.terminal_row
      /\ u.vga_membuffer = s.vga_membuffer /\ u.lfb_membuffer = s.lfb_membuffer
      /\ u.linear_framebuffer = s.linear_framebuffer
  BY <1>2, ColumnIs
<1>4. CASE s.terminal_row + 1 >= Rows
  <2>1. PICK l : l = Scrolled(s.lfb_membuffer)
    OBVIOUS
  <2>2. l \in [LfbY -> [LfbX -> Cell]]
    BY <1>1, <2>1, ScrolledIs
  <2>3. t = [s EXCEPT !.terminal_column = 0, !.lfb_membuffer = l, !.linear_framebuffer = l]
    BY <1>4, <2>1 DEF lfb_newline, Scrolled, LfbY
  <2>4. t = [[u EXCEPT !.lfb_membuffer = l] EXCEPT !.linear_framebuffer = l]
    BY <1>2, <2>3, Zenon
  <2>5. PICK row \in Nat, column \in Nat, v \in [VgaY -> [VgaX -> Cell]] :
           row = s.terminal_row /\ column = 0 /\ v = s.vga_membuffer
    BY <1>1
  <2>6. t = ScreenOf(row, column, v, l, l)
    BY <1>3, <2>4, <2>5, ScreenFieldsAre DEF ScreenOf
  <2>7. HasFields(t, row, column, v, l, l)
    BY <2>2, <2>6, ScreenIs
  <2>. QED
    BY <1>4, <2>1, <2>5, <2>7, Zenon DEF HasFields
<1>5. CASE ~(s.terminal_row + 1 >= Rows)
  <2>1. PICK r \in Nat : r = s.terminal_row + 1
    BY <1>1
  <2>2. t = [s EXCEPT !.terminal_column = 0, !.terminal_row = @ + 1]
    BY <1>5 DEF lfb_newline
  <2>3. t = [u EXCEPT !.terminal_row = r]
    BY <1>2, <1>3, <2>1, <2>2, Zenon
  <2>. QED
    BY <1>3, <1>5, <2>1, <2>3, RowIs
<1>. QED
  BY <1>4, <1>5

LEMMA LfbNextRow ==
    ASSUME NEW s \in Screen, NEW lines \in Seq(Seq(Glyph)), NEW k \in Nat, Len(lines) = k,
           k >= 1, OnLfbRows(s, lines), s.linear_framebuffer = s.lfb_membuffer,
           NEW t, t = lfb_newline(s), NEW n, n = Append(lines, <<>>)
    PROVE  OnLfb(t, n)
<1>1. /\ t.terminal_column = 0
      /\ s.terminal_row + 1 >= Rows =>
            t.lfb_membuffer = Scrolled(s.lfb_membuffer) /\ t.terminal_row = s.terminal_row
      /\ s.terminal_row + 1 < Rows =>
            t.lfb_membuffer = s.lfb_membuffer /\ t.terminal_row = s.terminal_row + 1
  <2>1. Rows \in Nat /\ s.terminal_row \in Nat
    BY SizesAre, ScreenFieldsAre
  <2>. QED
    BY <2>1, LfbNextIs
<1>2. /\ Len(n) = k + 1 /\ Len(n[k + 1]) = 0
      /\ \A i \in Nat : \A x \in Nat : CharAt(n, i, x) = CharAt(lines, i, x)
  <2>1. IsNewLine(n, lines, k)
    BY NewLineIs
  <2>. QED
    BY <2>1 DEF IsNewLine
<1>3. Rows \in Nat \ {0} /\ Columns \in Nat \ {0}
  BY SizesAre
<1>4. PICK h \in Nat : h = Hidden(lines) /\ h = IF k > Rows THEN k - Rows ELSE 0
  <2>1. Hidden(lines) = IF k > Rows THEN k - Rows ELSE 0
    BY DEF Hidden
  <2>2. Hidden(lines) \in Nat
    BY <1>3, <2>1
  <2>. QED
    BY <2>1, <2>2
<1>5. /\ s.terminal_row = k - 1 - h
      /\ \A y \in LfbY : \A x \in LfbX : s.lfb_membuffer[y][x] = CharAt(lines, h + y + 1, x)
  BY <1>4 DEF OnLfbRows
<1>6. \A y \in LfbY : \A x \in LfbX : h + y + 1 \in Nat /\ x \in Nat
  BY DEF LfbY, LfbX
<1>7. t.terminal_column = Len(n[Len(n)])
  BY <1>1, <1>2
<1>8. CASE k >= Rows
  <2>1. Hidden(n) = h + 1 /\ s.terminal_row + 1 >= Rows
    BY <1>2, <1>3, <1>4, <1>5, <1>8 DEF Hidden
  <2>2. t.lfb_membuffer = Scrolled(s.lfb_membuffer) /\ t.terminal_row = s.terminal_row
    BY <1>1, <2>1
  <2>3. t.terminal_row = Len(n) - 1 - Hidden(n)
    BY <1>2, <1>5, <2>1, <2>2
  <2>4. ASSUME NEW y \in LfbY, NEW x \in LfbX
        PROVE  t.lfb_membuffer[y][x] = CharAt(n, Hidden(n) + y + 1, x)
    <3>1. h + 1 + y + 1 \in Nat /\ x \in Nat
      BY DEF LfbY, LfbX
    <3>2. CASE y < Rows - 1
      <4>1. PICK z \in LfbY : z = y + 1
        BY <1>3, <3>2 DEF LfbY
      <4>2. t.lfb_membuffer[y][x] = s.lfb_membuffer[z][x]
        BY <2>2, <3>2, <4>1 DEF Scrolled
      <4>3. s.lfb_membuffer[z][x] = CharAt(lines, h + z + 1, x)
        BY <1>5
      <4>4. h + z + 1 = Hidden(n) + y + 1 /\ h + z + 1 \in Nat
        <5>1. y \in Int /\ z = y + 1
          BY <4>1 DEF LfbY
        <5>2. h + z + 1 = (h + 1) + y + 1 /\ h + z + 1 \in Nat
          BY <3>1, <5>1
        <5>. QED
          BY <2>1, <5>2
      <4>. QED
        BY <1>2, <3>1, <4>2, <4>3, <4>4
    <3>3. CASE ~(y < Rows - 1)
      <4>1. t.lfb_membuffer[y][x] = NUL
        BY <2>2, <3>3 DEF Scrolled, EmptyRow, LfbX
      <4>2. Hidden(n) + y + 1 = k + 1
        <5>1. h = k - Rows
          BY <1>3, <1>4, <1>8
        <5>2. y = Rows - 1
          <6>1. y \in Int /\ Rows \in Int /\ y <= Rows - 1
            BY <1>3 DEF LfbY
          <6>. QED
            BY <3>3, <6>1
        <5>. QED
          BY <1>3, <2>1, <5>1, <5>2
      <4>3. CharAt(n, k + 1, x) = NUL
        BY <1>2, <3>1 DEF CharAt
      <4>. QED
        BY <4>1, <4>2, <4>3
    <3>. QED
      BY <3>2, <3>3
  <2>. QED
    BY <1>7, <2>3, <2>4 DEF OnLfb, OnLfbRows
<1>9. CASE k < Rows
  <2>1. Hidden(n) = 0 /\ h = 0 /\ s.terminal_row + 1 < Rows
    BY <1>2, <1>3, <1>4, <1>5, <1>9 DEF Hidden
  <2>2. t.lfb_membuffer = s.lfb_membuffer /\ t.terminal_row = s.terminal_row + 1
    BY <1>1, <2>1
  <2>3. t.terminal_row = Len(n) - 1 - Hidden(n)
    BY <1>2, <1>5, <2>1, <2>2
  <2>4. ASSUME NEW y \in LfbY, NEW x \in LfbX
        PROVE  t.lfb_membuffer[y][x] = CharAt(n, Hidden(n) + y + 1, x)
    BY <1>2, <1>5, <1>6, <2>1, <2>2
  <2>. QED
    BY <1>7, <2>3, <2>4 DEF OnLfb, OnLfbRows
<1>. QED
  BY <1>3, <1>8, <1>9

(* The pixels of a character at the cursor, on the screen or not. *)
HasPixels(t, s, c) ==
    /\ t \in Screen /\ t.vga_membuffer = s.vga_membuffer
    /\ t.terminal_row = s.terminal_row /\ t.terminal_column = s.terminal_column
    /\ t.linear_framebuffer = t.lfb_membuffer
    /\ s.terminal_row < Rows /\ s.terminal_column < Columns =>
          t.lfb_membuffer = [s.lfb_membuffer EXCEPT ![s.terminal_row] =
                               [@ EXCEPT ![s.terminal_column] = c]]

LEMMA PixelsAre ==
    ASSUME NEW s \in Screen, NEW c \in Cell, s.linear_framebuffer = s.lfb_membuffer,
           NEW t, t = lfb_set_pixels(s, c)
    PROVE  HasPixels(t, s, c)
<1>1. PICK row \in Nat, column \in Nat, v \in [VgaY -> [VgaX -> Cell]], l \in [LfbY -> [LfbX -> Cell]] :
         /\ row = s.terminal_row /\ column = s.terminal_column /\ v = s.vga_membuffer
         /\ l = s.lfb_membuffer
  BY ScreenFieldsAre
<1>2. CASE row < Rows /\ column < Columns
  <2>1. PICK u : u = [l EXCEPT ![row] = [@ EXCEPT ![column] = c]]
    OBVIOUS
  <2>2. u \in [LfbY -> [LfbX -> Cell]]
    BY <1>2, <2>1, SizesAre DEF LfbY, LfbX
  <2>3. t = [s EXCEPT !.lfb_membuffer = u, !.linear_framebuffer = u]
    BY <1>1, <1>2, <2>1 DEF lfb_set_pixels
  <2>4. t = ScreenOf(row, column, v, u, u)
    BY <1>1, <2>3, ScreenFieldsAre DEF ScreenOf
  <2>5. HasFields(t, row, column, v, u, u)
    BY <2>2, <2>4, ScreenIs
  <2>. QED
    BY <1>1, <2>1, <2>5, Zenon DEF HasFields, HasPixels
<1>3. CASE ~(row < Rows /\ column < Columns)
  BY <1>1, <1>3, Zenon DEF lfb_set_pixels, HasPixels
<1>. QED
  BY <1>2, <1>3

(* A character on the framebuffer goes to the end of the last line. *)
LEMMA LfbEntry ==
    ASSUME NEW s \in Screen, NEW lines \in Seq(Seq(Glyph)), NEW k \in Nat, Len(lines) = k,
           k >= 1, NEW w \in Nat, Len(lines[k]) = w, w < Columns,
           OnLfb(s, lines), s.linear_framebuffer = s.lfb_membuffer, NEW c \in Glyph,
           NEW t, t = lfb_set_pixels(s, c), NEW m, m = Longer(lines, c)
    PROVE  OnLfbRows(t, m)
<1>1. Rows \in Nat \ {0} /\ Columns \in Nat
  BY SizesAre
<1>2. PICK h \in Nat : h = Hidden(lines) /\ h = IF k > Rows THEN k - Rows ELSE 0
  <2>1. Hidden(lines) = IF k > Rows THEN k - Rows ELSE 0
    BY DEF Hidden
  <2>2. Hidden(lines) \in Nat
    BY <1>1, <2>1
  <2>. QED
    BY <2>1, <2>2
<1>3. PICK row \in LfbY : row = s.terminal_row /\ row = k - 1 - h
  <2>1. s.terminal_row = k - 1 - h
    BY <1>2 DEF OnLfb, OnLfbRows
  <2>2. k - 1 - h \in 0 .. Rows - 1
    BY <1>1, <1>2
  <2>. QED
    BY <2>1, <2>2 DEF LfbY
<1>4. s.terminal_column = w /\ w \in LfbX
  BY <1>1 DEF OnLfb, LfbX
<1>5. c \in Cell
  BY DEF Cell
<1>6. PICK l \in [LfbY -> [LfbX -> Cell]] : l = s.lfb_membuffer
  BY ScreenFieldsAre
<1>7. t.terminal_row = row /\ t.lfb_membuffer = [l EXCEPT ![row] = [@ EXCEPT ![w] = c]]
  <2>1. row < Rows
    BY <1>1 DEF LfbY
  <2>2. s.terminal_row < Rows /\ s.terminal_column < Columns
    BY <1>3, <1>4, <2>1, Zenon
  <2>3. /\ t.terminal_row = s.terminal_row
        /\ t.lfb_membuffer = [s.lfb_membuffer EXCEPT ![s.terminal_row] =
                                 [@ EXCEPT ![s.terminal_column] = c]]
    <3>1. HasPixels(t, s, c)
      BY <1>5, PixelsAre
    <3>. QED
      BY <2>2, <3>1, Zenon DEF HasPixels
  <2>. QED
    BY <1>3, <1>4, <1>6, <2>3, Zenon
<1>8. \A y \in LfbY : \A x \in LfbX :
         t.lfb_membuffer[y][x] = IF y = row /\ x = w THEN c ELSE l[y][x]
  BY <1>4, <1>7
<1>9. /\ Len(m) = k
      /\ \A i \in Nat : \A x \in Nat :
            CharAt(m, i, x) = IF i = k /\ x = w THEN c ELSE CharAt(lines, i, x)
  <2>1. IsLonger(m, lines, k, w, c)
    BY LongerIs
  <2>. QED
    BY <2>1 DEF IsLonger
<1>10. Hidden(m) = h
  BY <1>2, <1>9 DEF Hidden
<1>11. ASSUME NEW y \in LfbY, NEW x \in LfbX
       PROVE  t.lfb_membuffer[y][x] = CharAt(m, Hidden(m) + y + 1, x)
  <2>1. l[y][x] = CharAt(lines, h + y + 1, x)
    BY <1>2, <1>6 DEF OnLfb, OnLfbRows
  <2>2. PICK i \in Nat : i = h + y + 1
    BY h + y + 1 \in Nat DEF LfbY
  <2>3. x \in Nat /\ (y = row <=> i = k)
    BY <1>3, <2>2 DEF LfbX, LfbY
  <2>4. CharAt(m, i, x) = IF i = k /\ x = w THEN c ELSE CharAt(lines, i, x)
    BY <1>9, <2>3
  <2>. QED
    BY <1>8, <1>10, <2>1, <2>2, <2>3, <2>4
<1>12. t.terminal_row = Len(m) - 1 - Hidden(m)
  BY <1>3, <1>7, <1>9, <1>10
<1>. QED
  BY <1>11, <1>12 DEF OnLfbRows

(* What lfb_terminal_putchar leaves, wherever the cursor is. *)
LEMMA LfbPutcharIs ==
    ASSUME NEW s \in Screen, s.linear_framebuffer = s.lfb_membuffer,
           NEW c \in Cell \cup {Newline}, NEW t, t = lfb_terminal_putchar(s, c)
    PROVE  /\ t \in Screen /\ t.vga_membuffer = s.vga_membuffer
           /\ t.linear_framebuffer = t.lfb_membuffer
<1>1. CASE c = Newline
  BY <1>1, LfbNextIs DEF lfb_terminal_putchar
<1>2. CASE c # Newline
  <2>1. PICK u : u = lfb_set_pixels(s, c)
    OBVIOUS
  <2>2. c \in Cell
    BY <1>2
  <2>3. u \in Screen /\ u.vga_membuffer = s.vga_membuffer /\ u.linear_framebuffer = u.lfb_membuffer
    <3>1. HasPixels(u, s, c)
      BY <2>1, <2>2, PixelsAre
    <3>. QED
      BY <3>1, Zenon DEF HasPixels
  <2>4. CASE s.terminal_column + 1 >= Columns
    <3>1. t = lfb_newline(u)
      BY <1>2, <2>1, <2>4 DEF lfb_terminal_putchar
    <3>. QED
      BY <2>3, <3>1, LfbNextIs
  <2>5. CASE ~(s.terminal_column + 1 >= Columns)
    <3>1. PICK z \in Nat : z = u.terminal_column + 1
      <4>1. u.terminal_column + 1 \in Nat
        BY <2>3, ScreenFieldsAre
      <4>. QED
        BY <4>1
    <3>2. t = [u EXCEPT !.terminal_column = z]
      BY <1>2, <2>1, <2>5, <3>1 DEF lfb_terminal_putchar
    <3>. QED
      BY <2>3, <3>1, <3>2, ColumnIs
  <2>. QED
    BY <2>4, <2>5
<1>. QED
  BY <1>1, <1>2

(* The endless paper of either width. *)
LEMMA PaperIs ==
    ASSUME NEW lines \in Seq(Seq(Glyph)), Len(lines) >= 1, NEW c \in Glyph \cup {Newline},
           NEW width, NEW n, n = OnPaper(lines, c, width)
    PROVE  n \in Seq(Seq(Glyph)) /\ Len(n) >= 1
<1>1. PICK k \in Nat : k = Len(lines) /\ k >= 1
  BY LenProperties
<1>2. CASE c = Newline
  <2>1. n = Append(lines, <<>>)
    BY <1>2 DEF OnPaper
  <2>2. IsNewLine(n, lines, k)
    BY <1>1, <2>1, NewLineIs
  <2>. QED
    BY <1>1, <2>2 DEF IsNewLine
<1>3. CASE c # Newline
  <2>1. PICK m : m = Longer(lines, c)
    OBVIOUS
  <2>2. PICK w \in Nat : w = Len(lines[k])
    <3>1. lines[k] \in Seq(Glyph)
      BY <1>1, ElementOfSeq
    <3>. QED
      BY <3>1, LenProperties
  <2>3. IsLonger(m, lines, k, w, c)
    <3>1. c \in Glyph
      BY <1>3
    <3>. QED
      BY <1>1, <2>1, <2>2, <3>1, LongerIs
  <2>4. m \in Seq(Seq(Glyph)) /\ Len(m) = k
    BY <2>3 DEF IsLonger
  <2>5. n = m \/ n = Append(m, <<>>)
    BY <1>3, <2>1, Zenon DEF OnPaper, Longer
  <2>6. CASE n = Append(m, <<>>)
    <3>1. IsNewLine(n, m, k)
      BY <2>4, <2>6, NewLineIs
    <3>. QED
      BY <1>1, <3>1 DEF IsNewLine
  <2>. QED
    BY <1>1, <2>4, <2>5, <2>6
<1>. QED
  BY <1>2, <1>3

(* lfb_terminal_putchar puts a character on the paper and the screen. *)
LEMMA LfbPutchar ==
    ASSUME NEW s \in Screen, NEW lines \in Seq(Seq(Glyph)), Len(lines) >= 1,
           s.linear_framebuffer = s.lfb_membuffer,
           OnLfb(s, lines), Fitting(lines, Columns), NEW c \in Glyph \cup {Newline},
           NEW t, t = lfb_terminal_putchar(s, c), NEW n, n = OnPaper(lines, c, Columns)
    PROVE  OnLfb(t, n) /\ Fitting(n, Columns)
<1>1. PICK k \in Nat : k = Len(lines)
  BY LenProperties
<1>2. Columns \in Nat \ {0} /\ k >= 1
  BY <1>1, SizesAre
<1>3. PICK w \in Nat : w = Len(lines[k])
  <2>1. lines[k] \in Seq(Glyph)
    BY <1>1, <1>2, ElementOfSeq
  <2>. QED
    BY <2>1, LenProperties
<1>4. /\ w < Columns /\ \A i \in 1 .. k : Len(lines[i]) <= Columns
      /\ s.terminal_column = w
  BY <1>1, <1>3 DEF Fitting, OnLfb
<1>5. CASE c = Newline
  <2>1. t = lfb_newline(s) /\ n = Append(lines, <<>>)
    BY <1>5 DEF lfb_terminal_putchar, OnPaper
  <2>2. OnLfb(t, n)
    <3>1. OnLfbRows(s, lines)
      BY DEF OnLfb
    <3>. QED
      BY <1>1, <1>2, <2>1, <3>1, LfbNextRow
  <2>3. IsNewLine(n, lines, k)
    BY <1>1, <2>1, NewLineIs
  <2>4. Fitting(n, Columns)
    BY <1>2, <1>4, <2>3, NewLineFits
  <2>. QED
    BY <2>2, <2>4
<1>6. CASE c # Newline
  <2>1. PICK u : u = lfb_set_pixels(s, c)
    OBVIOUS
  <2>2. PICK m : m = Longer(lines, c)
    OBVIOUS
  <2>3. c \in Glyph /\ c \in Cell
    BY <1>6 DEF Cell
  <2>4. /\ u \in Screen /\ u.terminal_column = s.terminal_column
        /\ u.linear_framebuffer = u.lfb_membuffer
    <3>1. HasPixels(u, s, c)
      BY <2>1, <2>3, PixelsAre
    <3>. QED
      BY <3>1, Zenon DEF HasPixels
  <2>5. OnLfbRows(u, m)
    BY <1>1, <1>2, <1>3, <1>4, <2>1, <2>2, <2>3, LfbEntry
  <2>6. IsLonger(m, lines, k, w, c)
    BY <1>1, <1>2, <1>3, <2>2, <2>3, LongerIs
  <2>7. m \in Seq(Seq(Glyph)) /\ Len(m) = k /\ Len(m[k]) = w + 1
    BY <2>6 DEF IsLonger
  <2>8. \A i \in 1 .. k : Len(m[i]) <= Columns
    BY <1>2, <1>4, <2>6, LongerFits
  <2>9. t = IF w + 1 >= Columns THEN lfb_newline(u) ELSE [u EXCEPT !.terminal_column = @ + 1]
    BY <1>4, <1>6, <2>1, Zenon DEF lfb_terminal_putchar
  <2>10. n = IF w + 1 = Columns THEN Append(m, <<>>) ELSE m
    <3>1. Len(Append(Last(lines), c)) = w + 1
      <4>1. lines[k] \in Seq(Glyph)
        BY <1>1, <1>2, ElementOfSeq
      <4>. QED
        BY <1>1, <1>3, <2>3, <4>1, AppendProperties DEF Last
    <3>. QED
      BY <1>6, <2>2, <3>1, Zenon DEF OnPaper, Longer
  <2>11. CASE w + 1 = Columns
    <3>1. t = lfb_newline(u) /\ n = Append(m, <<>>)
      BY <1>2, <2>9, <2>10, <2>11
    <3>2. OnLfb(t, n)
      BY <1>2, <2>4, <2>5, <2>7, <3>1, LfbNextRow
    <3>3. IsNewLine(n, m, k)
      BY <2>7, <3>1, NewLineIs
    <3>4. Fitting(n, Columns)
      BY <1>2, <2>8, <3>3, NewLineFits
    <3>. QED
      BY <3>2, <3>4
  <2>12. CASE w + 1 # Columns
    <3>1. w + 1 < Columns
      BY <1>2, <1>4, <2>12
    <3>2. PICK v \in Nat : v = w + 1
      OBVIOUS
    <3>3. t = [u EXCEPT !.terminal_column = v] /\ n = m
      <4>1. ~(w + 1 >= Columns)
        BY <1>2, <3>1
      <4>2. t = [u EXCEPT !.terminal_column = u.terminal_column + 1]
        BY <2>9, <4>1, Zenon
      <4>. QED
        BY <1>4, <2>4, <2>10, <2>12, <3>2, <4>2, Zenon
    <3>4. /\ t.terminal_row = u.terminal_row /\ t.terminal_column = v
          /\ t.lfb_membuffer = u.lfb_membuffer
      BY <2>4, <3>2, <3>3, ColumnIs
    <3>5. OnLfb(t, n)
      <4>1. OnLfbRows(t, n)
        BY <2>5, <3>3, <3>4 DEF OnLfbRows
      <4>2. t.terminal_column = Len(n[Len(n)])
        BY <2>7, <3>2, <3>3, <3>4
      <4>. QED
        BY <4>1, <4>2 DEF OnLfb
    <3>6. Fitting(n, Columns)
      BY <2>7, <2>8, <3>1, <3>3 DEF Fitting
    <3>. QED
      BY <3>5, <3>6
  <2>. QED
    BY <2>11, <2>12
<1>. QED
  BY <1>5, <1>6
-----------------------------------------------------------------------------
(* A row of the VGA screen goes to the framebuffer *)

(* What the copy of a character leaves. *)
IsCopied(t, c) ==
    /\ t.terminal_row = copying.y /\ t.terminal_column = copying.x + 1
    /\ \A y \in LfbY : \A x \in LfbX :
          t.lfb_membuffer[y][x] =
             IF y = copying.y /\ x = copying.x THEN c ELSE screen.lfb_membuffer[y][x]

LEMMA CharacterIsCopied ==
    ASSUME ScreenShape, screen.linear_framebuffer = screen.lfb_membuffer, Copied, InText,
           NEW c, c = screen.vga_membuffer[copying.y][copying.x],
           NEW t, t = lfb_terminal_putchar(screen, c)
    PROVE  IsCopied(t, c)
<1>1. /\ VGA_HEIGHT \in Nat /\ VGA_WIDTH \in Nat /\ Columns \in Nat /\ Columns > VGA_WIDTH
      /\ Rows \in Nat /\ Rows >= VGA_HEIGHT
  BY SizesAre
<1>2. PICK y \in LfbY, x \in LfbX : y = copying.y /\ x = copying.x
  <2>1. copying.y \in 0 .. VGA_HEIGHT /\ copying.x \in 0 .. VGA_WIDTH
    BY DEF ScreenShape
  <2>2. copying.y \in LfbY /\ copying.x \in LfbX
    BY <1>1, <2>1 DEF InText, LfbY, LfbX
  <2>. QED
    BY <2>2
<1>3. /\ x + 1 < Columns /\ x < Columns /\ y < Rows /\ y \in VgaY /\ x \in VgaX
  BY <1>1, <1>2 DEF InText, LfbY, LfbX, VgaY, VgaX
<1>4. c \in Cell /\ c # Newline
  <2>1. screen.vga_membuffer \in [VgaY -> [VgaX -> Cell]]
    BY ScreenFieldsAre DEF ScreenShape
  <2>2. c \in Cell
    BY <1>2, <1>3, <2>1
  <2>. QED
    BY <2>2, CharactersAre DEF Cell, InText
<1>5. screen \in Screen /\ screen.terminal_row = y /\ screen.terminal_column = x
  BY <1>2 DEF ScreenShape, Copied
<1>6. PICK u : u = lfb_set_pixels(screen, c)
  OBVIOUS
<1>7. /\ u \in Screen /\ u.terminal_row = y /\ u.terminal_column = x
      /\ u.lfb_membuffer = [screen.lfb_membuffer EXCEPT ![y] = [@ EXCEPT ![x] = c]]
  <2>1. screen.terminal_row < Rows /\ screen.terminal_column < Columns
    BY <1>3, <1>5
  <2>2. HasPixels(u, screen, c)
    BY <1>4, <1>5, <1>6, PixelsAre
  <2>. QED
    BY <1>5, <2>1, <2>2, Zenon DEF HasPixels
<1>8. PICK z \in Nat : z = x + 1
  BY x + 1 \in Nat DEF LfbX
<1>9. t = [u EXCEPT !.terminal_column = z]
  <2>1. ~(x + 1 >= Columns)
    BY <1>1, <1>3 DEF LfbX
  <2>2. t = [u EXCEPT !.terminal_column = u.terminal_column + 1]
    BY <1>4, <1>5, <1>6, <2>1, Zenon DEF lfb_terminal_putchar
  <2>. QED
    BY <1>7, <1>8, <2>2, Zenon
<1>10. /\ t.terminal_row = y /\ t.terminal_column = z /\ t.lfb_membuffer = u.lfb_membuffer
  BY <1>7, <1>9, ColumnIs
<1>11. screen.lfb_membuffer \in [LfbY -> [LfbX -> Cell]]
  BY <1>5, ScreenFieldsAre
<1>12. \A j \in LfbY : \A i \in LfbX :
          u.lfb_membuffer[j][i] = IF j = y /\ i = x THEN c ELSE screen.lfb_membuffer[j][i]
  BY <1>7, <1>11
<1>. QED
  BY <1>2, <1>8, <1>10, <1>12 DEF IsCopied

(* Where a row of the VGA screen shows its first 0 its line has ended. *)
LEMMA NothingBehind ==
    ASSUME ScreenShape, Copied, copying.y < VGA_HEIGHT, ~InText,
           NEW x \in Nat, x >= copying.x
    PROVE  CharAt(paper, copying.y + 1, x) = NUL
<1>1. VGA_WIDTH \in Nat /\ VGA_HEIGHT \in Nat
  BY SizesAre
<1>2. PICK y \in 0 .. VGA_HEIGHT, z \in 0 .. VGA_WIDTH : y = copying.y /\ z = copying.x
  BY DEF ScreenShape
<1>3. y \in VgaY /\ y + 1 \in Nat
  BY <1>1, <1>2 DEF VgaY
<1>4. CASE y + 1 \notin 1 .. Len(paper)
  BY <1>2, <1>4 DEF CharAt
<1>5. CASE y + 1 \in 1 .. Len(paper)
  <2>1. paper \in Seq(Seq(Glyph)) /\ paper[y + 1] \in Seq(Glyph)
    BY <1>5, ElementOfSeq DEF ScreenShape
  <2>2. PICK line \in Seq(Glyph) : line = paper[y + 1]
    BY <2>1
  <2>3. Len(line) \in Nat /\ Len(line) <= VGA_WIDTH
    BY <1>5, <2>2, LenProperties DEF Copied, Fitting
  <2>4. Len(line) <= z
    <3>1. CASE z = VGA_WIDTH
      BY <2>3, <3>1
    <3>2. CASE z # VGA_WIDTH
      <4>1. z \in VgaX /\ z < VGA_WIDTH /\ y < VGA_HEIGHT
        BY <1>1, <1>2, <1>3, <3>2 DEF VgaX
      <4>2. CharAt(paper, y + 1, z) = NUL
        <5>1. screen.vga_membuffer[y][z] = CharAt(paper, y + 1, z)
          BY <1>3, <4>1 DEF Copied
        <5>. QED
          BY <1>2, <4>1, <5>1 DEF InText
      <4>3. z < Len(line) => line[z + 1] = NUL
        BY <1>5, <2>2, <4>2 DEF CharAt
      <4>4. z < Len(line) => line[z + 1] \in Glyph
        <5>1. z < Len(line) => z + 1 \in 1 .. Len(line)
          BY <1>2, <2>3
        <5>. QED
          BY <5>1, ElementOfSeq
      <4>. QED
        BY <2>3, <4>3, <4>4, CharactersAre
    <3>. QED
      BY <3>1, <3>2
  <2>5. ~(x < Len(line))
    BY <1>2, <2>3, <2>4
  <2>. QED
    BY <1>2, <2>2, <2>5 DEF CharAt
<1>. QED
  BY <1>4, <1>5

(* Nothing is on the paper that the VGA screen has no room for. *)
LEMMA NothingBeside ==
    ASSUME NEW lines \in Seq(Seq(Glyph)), Fitting(lines, VGA_WIDTH), NEW i \in Nat, NEW x \in Nat,
           x >= VGA_WIDTH \/ i > Len(lines)
    PROVE  CharAt(lines, i, x) = NUL
<1>1. VGA_WIDTH \in Nat
  BY SizesAre
<1>2. CASE i \in 1 .. Len(lines)
  <2>1. Len(lines[i]) \in Nat /\ Len(lines[i]) <= VGA_WIDTH
    BY <1>2, ElementOfSeq, LenProperties DEF Fitting
  <2>2. ~(x < Len(lines[i]))
    BY <1>1, <1>2, <2>1, LenProperties
  <2>. QED
    BY <2>2 DEF CharAt
<1>3. CASE i \notin 1 .. Len(lines)
  BY <1>3 DEF CharAt
<1>. QED
  BY <1>2, <1>3
-----------------------------------------------------------------------------
(* The invariant is inductive *)

LEMMA ScreenInitInv == ConsoleInit => ScreenInv
<1>. SUFFICES ASSUME ConsoleInit PROVE ScreenInv
  OBVIOUS
<1>1. VGA_HEIGHT \in Nat \ {0} /\ VGA_WIDTH \in Nat \ {0} /\ Rows \in Nat /\ Columns \in Nat
  BY SizesAre
<1>2. PICK v, l : /\ v = [y \in VgaY |-> EmptyRow(VGA_WIDTH)]
                  /\ l = [y \in LfbY |-> EmptyRow(Columns)]
  OBVIOUS
<1>3. /\ v \in [VgaY -> [VgaX -> Cell]] /\ \A y \in VgaY : \A x \in VgaX : v[y][x] = NUL
      /\ l \in [LfbY -> [LfbX -> Cell]] /\ \A y \in LfbY : \A x \in LfbX : l[y][x] = NUL
  BY <1>2 DEF EmptyRow, VgaX, LfbX, Cell
<1>4. PICK row \in Nat, column \in Nat :
         row = 0 /\ column = 0 /\ screen = ScreenOf(row, column, v, l, l)
  BY <1>2 DEF ConsoleInit, ScreenOf, VgaY, LfbY
<1>5. /\ screen \in Screen /\ screen.terminal_row = 0 /\ screen.terminal_column = 0
      /\ screen.vga_membuffer = v /\ screen.lfb_membuffer = l /\ screen.linear_framebuffer = l
  <2>1. HasFields(screen, row, column, v, l, l)
    BY <1>3, <1>4, ScreenIs
  <2>. QED
    BY <1>4, <2>1, Zenon DEF HasFields
<1>6. /\ paper = << <<>> >> /\ paper \in Seq(Seq(Glyph)) /\ Len(paper) = 1
      /\ paper[1] = <<>> /\ Len(paper[1]) = 0
  <2>1. <<>> \in Seq(Glyph) /\ Len(<<>>) = 0
    OBVIOUS
  <2>. QED
    BY <2>1 DEF ConsoleInit
<1>7. \A i, x : x \in Nat => CharAt(paper, i, x) = NUL
  BY <1>6 DEF CharAt
<1>8. OnVga(screen, paper)
  <2>1. screen.terminal_row = (Len(paper) - 1) % VGA_HEIGHT
    <3>1. 0 % VGA_HEIGHT = 0
      BY <1>1, SmallRow
    <3>. QED
      BY <1>5, <1>6, <3>1
  <2>2. ASSUME NEW i \in 1 .. Len(paper), NEW x \in 1 .. Len(paper[i]) PROVE FALSE
    <3>1. i = 1
      BY <1>6
    <3>. QED
      BY <1>6, <2>2, <3>1
  <2>3. \A y \in VgaY : \A x \in VgaX : screen.vga_membuffer[y][x] = CharAt(paper, y + 1, x)
    BY <1>3, <1>5, <1>7 DEF VgaX
  <2>. QED
    BY <1>5, <1>6, <2>1, <2>2, <2>3 DEF OnVga, OnVgaRows
<1>9. Fitting(paper, VGA_WIDTH)
  BY <1>1, <1>6 DEF Fitting
<1>10. ScreenShape
  <2>1. copying \in [row : Nat, column : Nat, y : 0 .. VGA_HEIGHT, x : 0 .. VGA_WIDTH]
    BY <1>1 DEF ConsoleInit, NotCopying
  <2>2. unsent \in Seq(Glyph \cup {Newline}) /\ unsent = <<>>
    BY DEF ConsoleInit
  <2>3. driver = "vga" /\ muddled \in BOOLEAN
    BY DEF ConsoleInit
  <2>4. Len(paper) >= 1
    BY <1>6
  <2>. QED
    BY <1>5, <1>6, <2>1, <2>2, <2>3, <2>4, Zenon DEF ScreenShape
<1>. QED
  BY <1>3, <1>5, <1>8, <1>9, <1>10 DEF ScreenInv, ConsoleInit

(* A character of any text. *)
LEMMA PutcharInv ==
    ASSUME ScreenInv, NEW c \in Glyph \cup {Newline}, putchar(c),
           unsent' \in Seq(Glyph \cup {Newline})
    PROVE  ScreenInv'
<1>1. /\ screen \in Screen /\ paper \in Seq(Seq(Glyph)) /\ Len(paper) >= 1
      /\ driver \in {"vga", "lfb"} /\ screen.linear_framebuffer = screen.lfb_membuffer
  BY DEF ScreenInv, ScreenShape, putchar
<1>2. /\ driver' = driver /\ copying' = copying /\ muddled' = muddled
      /\ paper' = OnPaper(paper, c, Width)
  BY DEF putchar
<1>3. paper' \in Seq(Seq(Glyph)) /\ Len(paper') >= 1
  <2>1. PICK n : n = OnPaper(paper, c, Width)
    OBVIOUS
  <2>2. n \in Seq(Seq(Glyph)) /\ Len(n) >= 1
    BY <1>1, <2>1, PaperIs
  <2>. QED
    BY <1>2, <2>1, <2>2
<1>4. CASE driver = "vga"
  <2>1. screen' = vga_terminal_putchar(screen, c) /\ paper' = OnPaper(paper, c, VGA_WIDTH)
    BY <1>4 DEF putchar, Width
  <2>2. OnVga(screen, paper) /\ Fitting(paper, VGA_WIDTH)
    BY <1>4 DEF ScreenInv
  <2>3. PICK t, n : t = screen' /\ n = paper'
    OBVIOUS
  <2>4. /\ t \in Screen /\ OnVga(t, n) /\ Fitting(n, VGA_WIDTH)
        /\ t.lfb_membuffer = screen.lfb_membuffer
        /\ t.linear_framebuffer = screen.linear_framebuffer
    BY <1>1, <2>1, <2>2, <2>3, VgaPutchar
  <2>5. OnVga(screen, paper)'
    BY <2>3, <2>4 DEF OnVga, OnVgaRows
  <2>6. Fitting(paper, VGA_WIDTH)'
    BY <2>3, <2>4 DEF Fitting
  <2>7. ScreenShape'
    BY <1>2, <1>3, <1>4, <2>3, <2>4 DEF ScreenInv, ScreenShape
  <2>8. /\ (screen.linear_framebuffer = screen.lfb_membuffer)'
        /\ (\A y \in LfbY : \A x \in LfbX : screen.lfb_membuffer[y][x] = NUL)'
    BY <1>1, <1>4, <2>3, <2>4 DEF ScreenInv
  <2>. QED
    BY <1>2, <1>4, <2>5, <2>6, <2>7, <2>8 DEF ScreenInv
<1>5. CASE driver = "lfb"
  <2>1. screen' = lfb_terminal_putchar(screen, c) /\ paper' = OnPaper(paper, c, Columns)
    BY <1>5 DEF putchar, Width
  <2>2. PICK t, n : t = screen' /\ n = paper'
    OBVIOUS
  <2>3. /\ t \in Screen /\ t.linear_framebuffer = t.lfb_membuffer
    <3>1. c \in Cell \cup {Newline}
      BY DEF Cell
    <3>. QED
      BY <1>1, <2>1, <2>2, <3>1, LfbPutcharIs
  <2>4. ASSUME ~muddled PROVE OnLfb(screen, paper)' /\ Fitting(paper, Columns)'
    <3>1. OnLfb(screen, paper) /\ Fitting(paper, Columns)
      BY <1>5, <2>4 DEF ScreenInv
    <3>2. OnLfb(t, n) /\ Fitting(n, Columns)
      BY <1>1, <2>1, <2>2, <3>1, LfbPutchar
    <3>3. OnLfb(screen, paper)'
      BY <2>2, <3>2 DEF OnLfb, OnLfbRows, Hidden
    <3>4. Fitting(paper, Columns)'
      BY <2>2, <3>2 DEF Fitting
    <3>. QED
      BY <3>3, <3>4
  <2>5. ScreenShape'
    BY <1>2, <1>3, <1>5, <2>2, <2>3 DEF ScreenInv, ScreenShape
  <2>. QED
    BY <1>2, <1>5, <2>2, <2>3, <2>4, <2>5 DEF ScreenInv
<1>. QED
  BY <1>1, <1>4, <1>5

LEMMA PutTextInv == ScreenInv /\ PutText => ScreenInv'
<1>. SUFFICES ASSUME ScreenInv, PutText PROVE ScreenInv'
  OBVIOUS
<1>1. PICK c \in Letters \cup {Newline} : putchar(c)
  BY DEF PutText
<1>2. c \in Glyph \cup {Newline}
  BY CharactersAre
<1>3. unsent' \in Seq(Glyph \cup {Newline})
  BY DEF PutText, ScreenInv, ScreenShape
<1>. QED
  BY <1>1, <1>2, <1>3, PutcharInv

LEMMA PutFormattedInv == ScreenInv /\ PutFormatted => ScreenInv'
<1>. SUFFICES ASSUME ScreenInv, PutFormatted PROVE ScreenInv'
  OBVIOUS
<1>1. unsent \in Seq(Glyph \cup {Newline}) /\ unsent # <<>>
  BY DEF PutFormatted, ScreenInv, ScreenShape
<1>2. Head(unsent) \in Glyph \cup {Newline} /\ Tail(unsent) \in Seq(Glyph \cup {Newline})
  BY <1>1, HeadTailProperties
<1>3. putchar(Head(unsent)) /\ unsent' = Tail(unsent)
  BY DEF PutFormatted
<1>. QED
  BY <1>2, <1>3, PutcharInv

LEMMA KprintfInv == ScreenInv /\ kprintf => ScreenInv'
<1>. SUFFICES ASSUME ScreenInv, kprintf PROVE ScreenInv'
  OBVIOUS
<1>1. /\ driver # "copying" /\ driver' = driver /\ screen' = screen /\ copying' = copying
      /\ paper' = paper /\ muddled' = muddled /\ unsent' \in Seq(Glyph \cup {Newline})
  BY CharactersAre DEF kprintf
<1>2. ScreenShape'
  BY <1>1 DEF ScreenInv, ScreenShape
<1>3. (driver = "vga" => OnVga(screen, paper) /\ Fitting(paper, VGA_WIDTH))'
  BY <1>1 DEF ScreenInv, OnVga, OnVgaRows, Fitting, CharAt
<1>4. (driver = "lfb" /\ ~muddled => OnLfb(screen, paper) /\ Fitting(paper, Columns))'
  BY <1>1 DEF ScreenInv, OnLfb, OnLfbRows, Hidden, Fitting, CharAt
<1>. QED
  BY <1>1, <1>2, <1>3, <1>4 DEF ScreenInv

(* kmain has the framebuffer, which is empty. *)
LEMMA TakeFramebufferInv == ScreenInv /\ TakeFramebuffer => ScreenInv'
<1>. SUFFICES ASSUME ScreenInv, TakeFramebuffer PROVE ScreenInv'
  OBVIOUS
<1>1. /\ VGA_HEIGHT \in Nat \ {0} /\ VGA_WIDTH \in Nat \ {0}
  BY SizesAre
<1>2. /\ screen \in Screen /\ screen.linear_framebuffer = screen.lfb_membuffer
      /\ OnVga(screen, paper) /\ Fitting(paper, VGA_WIDTH)
      /\ \A y \in LfbY : \A x \in LfbX : screen.lfb_membuffer[y][x] = NUL
  BY DEF ScreenInv, ScreenShape, TakeFramebuffer
<1>3. PICK t : t = screen'
  OBVIOUS
<1>4. /\ t \in Screen /\ t.terminal_row = 0 /\ t.terminal_column = 0
      /\ t.vga_membuffer = screen.vga_membuffer /\ t.lfb_membuffer = screen.lfb_membuffer
      /\ t.linear_framebuffer = screen.linear_framebuffer
  <2>1. PICK row \in Nat, column \in Nat : row = 0 /\ column = 0
    OBVIOUS
  <2>2. t = Moved(screen, row, column)
    BY <1>3, <2>1 DEF TakeFramebuffer, Moved
  <2>3. /\ t \in Screen /\ t.terminal_row = row /\ t.terminal_column = column
        /\ t.vga_membuffer = screen.vga_membuffer /\ t.lfb_membuffer = screen.lfb_membuffer
        /\ t.linear_framebuffer = screen.linear_framebuffer
    <3>1. PICK s \in Screen : s = screen
      BY <1>2
    <3>2. t = Moved(s, row, column)
      BY <2>2, <3>1
    <3>3. IsMoved(t, s, row, column)
      BY <3>2, CursorIs
    <3>. QED
      BY <3>1, <3>3, Zenon DEF IsMoved
  <2>. QED
    BY <2>1, <2>3
<1>5. screen.terminal_row \in Nat /\ screen.terminal_column \in Nat
  BY <1>2, ScreenFieldsAre
<1>6. copying' = [row |-> screen.terminal_row, column |-> screen.terminal_column, y |-> 0, x |-> 0]
  BY DEF TakeFramebuffer, NotCopying
<1>7. /\ driver = "vga" /\ driver' = "copying" /\ paper' = paper /\ unsent' = unsent /\ unsent = <<>>
      /\ muddled' \in BOOLEAN /\ (muddled' <=> Len(paper) > VGA_HEIGHT)
  <2>1. driver = "vga" /\ driver' = "copying" /\ paper' = paper /\ unsent' = unsent /\ unsent = <<>>
    BY DEF TakeFramebuffer
  <2>2. muddled' = (Len(paper) > VGA_HEIGHT)
    BY DEF TakeFramebuffer
  <2>3. (Len(paper) > VGA_HEIGHT) \in BOOLEAN
    OBVIOUS
  <2>. QED
    BY <2>1, <2>2, <2>3, Zenon
<1>8. ScreenShape'
  <2>1. copying' \in [row : Nat, column : Nat, y : 0 .. VGA_HEIGHT, x : 0 .. VGA_WIDTH]
    BY <1>1, <1>5, <1>6
  <2>. QED
    BY <1>3, <1>4, <1>7, <2>1 DEF ScreenInv, ScreenShape
<1>9. ASSUME ~muddled' PROVE Copied'
  <2>1. PICK k \in Nat : k = Len(paper) /\ k >= 1 /\ k <= VGA_HEIGHT
    <3>1. paper \in Seq(Seq(Glyph)) /\ Len(paper) >= 1
      BY DEF ScreenInv, ScreenShape
    <3>. QED
      BY <1>1, <1>7, <1>9, <3>1, LenProperties
  <2>2. copying'.row = Len(paper) - 1 /\ copying'.column = Len(paper[Len(paper)])
    <3>1. PICK a \in Nat : a = k - 1 /\ a < VGA_HEIGHT
      BY <1>1, <2>1
    <3>2. a % VGA_HEIGHT = a
      BY <3>1, SmallRow
    <3>3. screen.terminal_row = Len(paper) - 1
      BY <1>2, <2>1, <3>1, <3>2 DEF OnVga, OnVgaRows
    <3>. QED
      BY <1>2, <1>6, <3>3 DEF OnVga
  <2>3. \A y \in VgaY : \A x \in VgaX : t.vga_membuffer[y][x] = CharAt(paper, y + 1, x)
    BY <1>2, <1>4, <2>1 DEF OnVga, OnVgaRows
  <2>4. copying'.y = 0 /\ copying'.x = 0
    BY <1>6
  <2>5. ASSUME NEW y \in LfbY, NEW x \in LfbX
        PROVE  t.lfb_membuffer[y][x] = NUL
    BY <1>2, <1>4
  <2>6. (\A y \in LfbY : \A x \in LfbX :
          screen.lfb_membuffer[y][x] =
             IF y < copying.y \/ (y = copying.y /\ x < copying.x)
             THEN CharAt(paper, y + 1, x) ELSE NUL)'
    <3>1. ASSUME NEW y \in LfbY, NEW x \in LfbX
          PROVE  t.lfb_membuffer[y][x] =
                    IF y < 0 \/ (y = 0 /\ x < 0) THEN CharAt(paper, y + 1, x) ELSE NUL
      <4>1. t.lfb_membuffer[y][x] = NUL
        BY <2>5
      <4>2. ~(y < 0) /\ ~(x < 0)
        BY DEF LfbX, LfbY
      <4>. QED
        BY <4>1, <4>2
    <3>. QED
      BY <1>3, <1>7, <2>4, <3>1 DEF CharAt
  <2>7. (\A y \in VgaY : \A x \in VgaX : screen.vga_membuffer[y][x] = CharAt(paper, y + 1, x))'
    BY <1>3, <1>7, <2>3 DEF CharAt
  <2>8. Fitting(paper, VGA_WIDTH)' /\ (Len(paper) <= VGA_HEIGHT)'
    BY <1>2, <1>7, <2>1 DEF Fitting
  <2>9. (/\ copying.row = Len(paper) - 1 /\ copying.column = Len(paper[Len(paper)])
         /\ screen.terminal_row = copying.y /\ screen.terminal_column = copying.x
         /\ copying.y = VGA_HEIGHT => copying.x = 0)'
    BY <1>3, <1>4, <1>7, <2>2, <2>4
  <2>. QED
    BY <2>6, <2>7, <2>8, <2>9 DEF Copied
<1>10. (screen.linear_framebuffer = screen.lfb_membuffer)'
  BY <1>2, <1>3, <1>4
<1>. QED
  BY <1>7, <1>8, <1>9, <1>10 DEF ScreenInv

(* lfb_copy_from_vga puts one character. *)
LEMMA CopyCharacterInv == ScreenInv /\ CopyCharacter => ScreenInv'
<1>. SUFFICES ASSUME ScreenInv, CopyCharacter PROVE ScreenInv'
  OBVIOUS
<1>1. /\ VGA_HEIGHT \in Nat \ {0} /\ VGA_WIDTH \in Nat \ {0}
  BY SizesAre
<1>2. /\ ScreenShape /\ screen \in Screen /\ screen.linear_framebuffer = screen.lfb_membuffer
      /\ InText /\ copying \in [row : Nat, column : Nat, y : 0 .. VGA_HEIGHT, x : 0 .. VGA_WIDTH]
  BY DEF ScreenInv, ScreenShape, CopyCharacter
<1>3. PICK a \in Nat, b \in Nat, y \in VgaY, x \in VgaX :
         copying = [row |-> a, column |-> b, y |-> y, x |-> x]
  <2>1. copying.y \in VgaY /\ copying.x \in VgaX
    BY <1>1, <1>2 DEF InText, VgaY, VgaX
  <2>2. PICK a \in Nat, b \in Nat, y \in VgaY, x \in VgaX :
           a = copying.row /\ b = copying.column /\ y = copying.y /\ x = copying.x
    BY <1>2, <2>1
  <2>3. copying = [row |-> a, column |-> b, y |-> y, x |-> x]
    BY <1>2, <2>2
  <2>. QED
    BY <2>3
<1>4. PICK c, t : c = screen.vga_membuffer[copying.y][copying.x] /\ t = screen'
  OBVIOUS
<1>5. t = lfb_terminal_putchar(screen, c)
  BY <1>4 DEF CopyCharacter
<1>6. /\ t \in Screen /\ t.vga_membuffer = screen.vga_membuffer
      /\ t.linear_framebuffer = t.lfb_membuffer
  <2>1. screen.vga_membuffer \in [VgaY -> [VgaX -> Cell]]
    BY <1>2, ScreenFieldsAre
  <2>2. c = screen.vga_membuffer[y][x]
    BY <1>3, <1>4
  <2>3. c \in Cell \cup {Newline}
    BY <2>1, <2>2
  <2>. QED
    BY <1>2, <1>5, <2>3, LfbPutcharIs
<1>7. copying' = [row |-> a, column |-> b, y |-> y, x |-> x + 1]
  BY <1>3 DEF CopyCharacter
<1>8. /\ driver = "copying" /\ driver' = "copying" /\ paper' = paper /\ unsent' = unsent
      /\ muddled' = muddled
  BY DEF CopyCharacter
<1>9. ScreenShape'
  <2>1. copying' \in [row : Nat, column : Nat, y : 0 .. VGA_HEIGHT, x : 0 .. VGA_WIDTH]
    <3>1. y \in 0 .. VGA_HEIGHT /\ x + 1 \in 0 .. VGA_WIDTH
      BY <1>1 DEF VgaY, VgaX
    <3>. QED
      BY <1>3, <1>7, <3>1
  <2>. QED
    BY <1>2, <1>4, <1>6, <1>8, <2>1 DEF ScreenShape
<1>10. ASSUME ~muddled PROVE Copied'
  <2>1. Copied
    BY <1>8, <1>10 DEF ScreenInv
  <2>2. /\ t.terminal_row = copying.y /\ t.terminal_column = copying.x + 1
        /\ \A j \in LfbY : \A i \in LfbX :
              t.lfb_membuffer[j][i] =
                 IF j = copying.y /\ i = copying.x THEN c ELSE screen.lfb_membuffer[j][i]
    <3>1. IsCopied(t, c)
      BY <1>2, <1>4, <1>5, <2>1, CharacterIsCopied
    <3>. QED
      BY <3>1, Zenon DEF IsCopied
  <2>3. c = CharAt(paper, y + 1, x)
    BY <1>3, <1>4, <2>1 DEF Copied
  <2>4. ASSUME NEW j \in LfbY, NEW i \in LfbX
        PROVE  t.lfb_membuffer[j][i] =
                  IF j < y \/ (j = y /\ i < x + 1) THEN CharAt(paper, j + 1, i) ELSE NUL
    <3>1. screen.lfb_membuffer[j][i] =
             IF j < y \/ (j = y /\ i < x) THEN CharAt(paper, j + 1, i) ELSE NUL
      BY <1>3, <2>1 DEF Copied
    <3>2. t.lfb_membuffer[j][i] = IF j = y /\ i = x THEN c ELSE screen.lfb_membuffer[j][i]
      BY <1>3, <2>2
    <3>3. i < x + 1 <=> i < x \/ i = x
      BY DEF LfbX, VgaX
    <3>. QED
      BY <2>3, <3>1, <3>2, <3>3
  <2>5. (\A j \in LfbY : \A i \in LfbX :
          screen.lfb_membuffer[j][i] =
             IF j < copying.y \/ (j = copying.y /\ i < copying.x)
             THEN CharAt(paper, j + 1, i) ELSE NUL)'
    BY <1>4, <1>7, <1>8, <2>4 DEF CharAt
  <2>6. (\A j \in VgaY : \A i \in VgaX : screen.vga_membuffer[j][i] = CharAt(paper, j + 1, i))'
    BY <1>4, <1>6, <1>8, <2>1 DEF CharAt, Copied
  <2>7. Fitting(paper, VGA_WIDTH)' /\ (Len(paper) <= VGA_HEIGHT)'
    BY <1>8, <2>1 DEF Fitting, Copied
  <2>8. y # VGA_HEIGHT
    BY <1>1 DEF VgaY
  <2>9. (/\ copying.row = Len(paper) - 1 /\ copying.column = Len(paper[Len(paper)])
         /\ screen.terminal_row = copying.y /\ screen.terminal_column = copying.x
         /\ copying.y = VGA_HEIGHT => copying.x = 0)'
    BY <1>3, <1>4, <1>7, <1>8, <2>1, <2>2, <2>8 DEF Copied
  <2>. QED
    BY <2>5, <2>6, <2>7, <2>9 DEF Copied
<1>11. (screen.linear_framebuffer = screen.lfb_membuffer)'
  BY <1>4, <1>6
<1>. QED
  BY <1>8, <1>9, <1>10, <1>11 DEF ScreenInv

(* A row is copied. *)
LEMMA CopyNextRowInv == ScreenInv /\ CopyNextRow => ScreenInv'
<1>. SUFFICES ASSUME ScreenInv, CopyNextRow PROVE ScreenInv'
  OBVIOUS
<1>1. /\ VGA_HEIGHT \in Nat \ {0} /\ VGA_WIDTH \in Nat \ {0} /\ 0 \in 0 .. VGA_WIDTH
  BY SizesAre
<1>2. /\ ScreenShape /\ screen \in Screen /\ screen.linear_framebuffer = screen.lfb_membuffer
      /\ ~InText /\ copying.y < VGA_HEIGHT
      /\ copying \in [row : Nat, column : Nat, y : 0 .. VGA_HEIGHT, x : 0 .. VGA_WIDTH]
  BY DEF ScreenInv, ScreenShape, CopyNextRow
<1>3. PICK a \in Nat, b \in Nat, y \in VgaY, x \in 0 .. VGA_WIDTH :
         copying = [row |-> a, column |-> b, y |-> y, x |-> x]
  <2>1. copying.y \in VgaY
    BY <1>1, <1>2 DEF VgaY
  <2>2. PICK a \in Nat, b \in Nat, y \in VgaY, x \in 0 .. VGA_WIDTH :
           a = copying.row /\ b = copying.column /\ y = copying.y /\ x = copying.x
    BY <1>2, <2>1
  <2>3. copying = [row |-> a, column |-> b, y |-> y, x |-> x]
    BY <1>2, <2>2
  <2>. QED
    BY <2>3
<1>4. PICK t : t = screen'
  OBVIOUS
<1>5. /\ t \in Screen /\ t.terminal_row = screen.terminal_row + 1 /\ t.terminal_column = 0
      /\ t.vga_membuffer = screen.vga_membuffer /\ t.lfb_membuffer = screen.lfb_membuffer
      /\ t.linear_framebuffer = screen.linear_framebuffer
  <2>1. screen.terminal_row + 1 \in Nat
    BY <1>2, ScreenFieldsAre
  <2>2. PICK row \in Nat, column \in Nat : row = screen.terminal_row + 1 /\ column = 0
    BY <2>1
  <2>3. t = Moved(screen, row, column)
    BY <1>4, <2>2, Zenon DEF CopyNextRow, Moved
  <2>4. /\ t \in Screen /\ t.terminal_row = row /\ t.terminal_column = column
        /\ t.vga_membuffer = screen.vga_membuffer /\ t.lfb_membuffer = screen.lfb_membuffer
        /\ t.linear_framebuffer = screen.linear_framebuffer
    <3>1. PICK s \in Screen : s = screen
      BY <1>2
    <3>2. t = Moved(s, row, column)
      BY <2>3, <3>1
    <3>3. IsMoved(t, s, row, column)
      BY <3>2, CursorIs
    <3>. QED
      BY <3>1, <3>3, Zenon DEF IsMoved
  <2>. QED
    BY <2>2, <2>4
<1>6. copying' = [row |-> a, column |-> b, y |-> y + 1, x |-> 0]
  BY <1>3 DEF CopyNextRow
<1>7. /\ driver = "copying" /\ driver' = "copying" /\ paper' = paper /\ unsent' = unsent
      /\ muddled' = muddled
  BY DEF CopyNextRow
<1>8. ScreenShape'
  <2>1. copying' \in [row : Nat, column : Nat, y : 0 .. VGA_HEIGHT, x : 0 .. VGA_WIDTH]
    <3>1. y + 1 \in 0 .. VGA_HEIGHT
      BY <1>1 DEF VgaY
    <3>. QED
      BY <1>1, <1>3, <1>6, <3>1
  <2>. QED
    BY <1>2, <1>4, <1>5, <1>7, <2>1 DEF ScreenShape
<1>9. ASSUME ~muddled PROVE Copied'
  <2>1. Copied
    BY <1>7, <1>9 DEF ScreenInv
  <2>2. \A i \in Nat : i >= x => CharAt(paper, y + 1, i) = NUL
    <3>1. \A i \in Nat : i >= copying.x => CharAt(paper, copying.y + 1, i) = NUL
      BY <1>2, <2>1, NothingBehind
    <3>. QED
      BY <1>3, <3>1
  <2>3. ASSUME NEW j \in LfbY, NEW i \in LfbX
        PROVE  t.lfb_membuffer[j][i] =
                  IF j < y + 1 \/ (j = y + 1 /\ i < 0) THEN CharAt(paper, j + 1, i) ELSE NUL
    <3>1. t.lfb_membuffer[j][i] =
             IF j < y \/ (j = y /\ i < x) THEN CharAt(paper, j + 1, i) ELSE NUL
      BY <1>3, <1>5, <2>1 DEF Copied
    <3>2. /\ j < y + 1 <=> j < y \/ j = y
          /\ ~(i < 0) /\ i \in Nat /\ (i < x \/ i >= x)
      BY DEF LfbX, LfbY, VgaY
    <3>3. j = y /\ i >= x => CharAt(paper, j + 1, i) = NUL
      BY <2>2, <3>2
    <3>. QED
      BY <3>1, <3>2, <3>3
  <2>4. (\A j \in LfbY : \A i \in LfbX :
          screen.lfb_membuffer[j][i] =
             IF j < copying.y \/ (j = copying.y /\ i < copying.x)
             THEN CharAt(paper, j + 1, i) ELSE NUL)'
    BY <1>4, <1>6, <1>7, <2>3 DEF CharAt
  <2>5. (\A j \in VgaY : \A i \in VgaX : screen.vga_membuffer[j][i] = CharAt(paper, j + 1, i))'
    BY <1>4, <1>5, <1>7, <2>1 DEF CharAt, Copied
  <2>6. Fitting(paper, VGA_WIDTH)' /\ (Len(paper) <= VGA_HEIGHT)'
    BY <1>7, <2>1 DEF Fitting, Copied
  <2>7. (/\ copying.row = Len(paper) - 1 /\ copying.column = Len(paper[Len(paper)])
         /\ screen.terminal_row = copying.y /\ screen.terminal_column = copying.x
         /\ copying.y = VGA_HEIGHT => copying.x = 0)'
    BY <1>3, <1>4, <1>5, <1>6, <1>7, <2>1 DEF Copied
  <2>. QED
    BY <2>4, <2>5, <2>6, <2>7 DEF Copied
<1>10. (screen.linear_framebuffer = screen.lfb_membuffer)'
  BY <1>2, <1>4, <1>5
<1>. QED
  BY <1>7, <1>8, <1>9, <1>10 DEF ScreenInv

(* The whole VGA screen is copied, and the cursor goes back to its place.  *)
LEMMA CopyEndsInv == ScreenInv /\ CopyEnds => ScreenInv'
<1>. SUFFICES ASSUME ScreenInv, CopyEnds PROVE ScreenInv'
  OBVIOUS
<1>1. /\ VGA_HEIGHT \in Nat \ {0} /\ VGA_WIDTH \in Nat \ {0} /\ Columns \in Nat
      /\ Columns > VGA_WIDTH /\ Rows \in Nat /\ Rows >= VGA_HEIGHT
  BY SizesAre
<1>2. /\ ScreenShape /\ screen \in Screen /\ screen.linear_framebuffer = screen.lfb_membuffer
      /\ copying.y = VGA_HEIGHT /\ copying.row \in Nat /\ copying.column \in Nat
  BY DEF ScreenInv, ScreenShape, CopyEnds
<1>3. PICK t : t = screen'
  OBVIOUS
<1>4. /\ t \in Screen /\ t.terminal_row = copying.row /\ t.terminal_column = copying.column
      /\ t.lfb_membuffer = screen.lfb_membuffer
      /\ t.linear_framebuffer = screen.linear_framebuffer
  <2>1. t = Moved(screen, copying.row, copying.column)
    BY <1>3, Zenon DEF CopyEnds, Moved
  <2>2. PICK s \in Screen, row \in Nat, column \in Nat :
           s = screen /\ row = copying.row /\ column = copying.column
    BY <1>2
  <2>3. t = Moved(s, row, column)
    BY <2>1, <2>2
  <2>4. IsMoved(t, s, row, column)
    BY <2>3, CursorIs
  <2>. QED
    BY <2>2, <2>4, Zenon DEF IsMoved
<1>5. /\ driver = "copying" /\ driver' = "lfb" /\ paper' = paper /\ unsent' = unsent
      /\ muddled' = muddled /\ copying' = NotCopying
  BY DEF CopyEnds
<1>6. ScreenShape'
  <2>1. NotCopying \in [row : Nat, column : Nat, y : 0 .. VGA_HEIGHT, x : 0 .. VGA_WIDTH]
    BY <1>1 DEF NotCopying
  <2>. QED
    BY <1>2, <1>3, <1>4, <1>5, <2>1 DEF ScreenShape
<1>7. ASSUME ~muddled PROVE OnLfb(screen, paper)' /\ Fitting(paper, Columns)'
  <2>1. Copied
    BY <1>5, <1>7 DEF ScreenInv
  <2>2. PICK k \in Nat : k = Len(paper) /\ k <= VGA_HEIGHT /\ paper \in Seq(Seq(Glyph)) /\ k >= 1
    <3>1. paper \in Seq(Seq(Glyph)) /\ Len(paper) >= 1
      BY <1>2 DEF ScreenShape
    <3>. QED
      BY <2>1, <3>1, LenProperties DEF Copied
  <2>3. Hidden(paper) = 0
    BY <1>1, <2>2 DEF Hidden
  <2>4. ASSUME NEW y \in LfbY, NEW x \in LfbX
        PROVE  screen.lfb_membuffer[y][x] = CharAt(paper, y + 1, x)
    <3>1. screen.lfb_membuffer[y][x] =
             IF y < VGA_HEIGHT \/ (y = VGA_HEIGHT /\ x < copying.x)
             THEN CharAt(paper, y + 1, x) ELSE NUL
      BY <1>2, <2>1 DEF Copied
    <3>2. y \in Nat /\ x \in Nat /\ y + 1 \in Nat
      BY DEF LfbY, LfbX
    <3>3. CASE y < VGA_HEIGHT
      BY <3>1, <3>3
    <3>4. CASE ~(y < VGA_HEIGHT)
      <4>1. y + 1 > Len(paper)
        BY <1>1, <2>2, <3>2, <3>4
      <4>2. CharAt(paper, y + 1, x) = NUL
        BY <2>1, <2>2, <3>2, <4>1, NothingBeside DEF Copied
      <4>. QED
        BY <3>1, <4>2
    <3>. QED
      BY <3>3, <3>4
  <2>5. t.terminal_row = Len(paper) - 1 - Hidden(paper)
    BY <1>4, <2>1, <2>2, <2>3 DEF Copied
  <2>6. t.terminal_column = Len(paper[Len(paper)])
    BY <1>4, <2>1 DEF Copied
  <2>7. (\A y \in LfbY : \A x \in LfbX :
           screen.lfb_membuffer[y][x] = CharAt(paper, Hidden(paper) + y + 1, x))'
    <3>1. ASSUME NEW y \in LfbY, NEW x \in LfbX
          PROVE  t.lfb_membuffer[y][x] = CharAt(paper, Hidden(paper) + y + 1, x)
      <4>1. Hidden(paper) + y + 1 = y + 1
        BY <2>3 DEF LfbY
      <4>2. t.lfb_membuffer[y][x] = CharAt(paper, y + 1, x)
        BY <1>4, <2>4
      <4>. QED
        BY <4>1, <4>2
    <3>. QED
      BY <1>3, <1>5, <3>1 DEF CharAt, Hidden
  <2>8. OnLfb(screen, paper)'
    <3>1. (screen.terminal_row = Len(paper) - 1 - Hidden(paper))'
      BY <1>3, <1>5, <2>5 DEF Hidden
    <3>2. (screen.terminal_column = Len(paper[Len(paper)]))'
      BY <1>3, <1>5, <2>6
    <3>. QED
      BY <2>7, <3>1, <3>2 DEF OnLfb, OnLfbRows
  <2>9. Fitting(paper, Columns)'
    <3>1. ASSUME NEW i \in 1 .. k PROVE Len(paper[i]) <= Columns
      <4>1. Len(paper[i]) \in Nat
        BY <2>2, ElementOfSeq, LenProperties
      <4>2. Len(paper[i]) <= VGA_WIDTH
        BY <2>1, <2>2 DEF Copied, Fitting
      <4>. QED
        BY <1>1, <4>1, <4>2
    <3>2. Len(paper[k]) < Columns
      <4>1. Len(paper[k]) \in Nat
        BY <2>2, ElementOfSeq, LenProperties
      <4>2. Len(paper[k]) < VGA_WIDTH
        BY <2>1, <2>2 DEF Copied, Fitting
      <4>. QED
        BY <1>1, <4>1, <4>2
    <3>. QED
      BY <1>5, <2>2, <3>1, <3>2 DEF Fitting
  <2>. QED
    BY <2>8, <2>9
<1>8. (screen.linear_framebuffer = screen.lfb_membuffer)'
  BY <1>2, <1>3, <1>4
<1>. QED
  BY <1>5, <1>6, <1>7, <1>8 DEF ScreenInv

LEMMA ScreenNextInv == ScreenInv /\ [ConsoleNext]_consolevars => ScreenInv'
<1>. SUFFICES ASSUME ScreenInv, [ConsoleNext]_consolevars PROVE ScreenInv'
  OBVIOUS
<1>1. CASE PutText
  BY <1>1, PutTextInv
<1>2. CASE kprintf
  BY <1>2, KprintfInv
<1>3. CASE PutFormatted
  BY <1>3, PutFormattedInv
<1>4. CASE TakeFramebuffer
  BY <1>4, TakeFramebufferInv
<1>5. CASE CopyCharacter
  BY <1>5, CopyCharacterInv
<1>6. CASE CopyNextRow
  BY <1>6, CopyNextRowInv
<1>7. CASE CopyEnds
  BY <1>7, CopyEndsInv
<1>8. CASE UNCHANGED consolevars
  BY <1>8 DEF consolevars, ScreenInv, ScreenShape, OnVga, OnVgaRows, OnLfb, OnLfbRows, Hidden,
              Fitting, Copied, CharAt
<1>. QED
  BY <1>1, <1>2, <1>3, <1>4, <1>5, <1>6, <1>7, <1>8 DEF ConsoleNext

(* What the invariant says of the screen. *)
LEMMA ScreenIsPaper == ScreenInv => ScreenShowsPaper
<1>. SUFFICES ASSUME ScreenInv PROVE ScreenShowsPaper
  OBVIOUS
<1>1. /\ VGA_HEIGHT \in Nat \ {0} /\ Rows \in Nat /\ Columns \in Nat
  BY SizesAre
<1>2. PICK k \in Nat : k = Len(paper) /\ k >= 1
  <2>1. paper \in Seq(Seq(Glyph)) /\ Len(paper) >= 1
    BY DEF ScreenInv, ScreenShape
  <2>. QED
    BY <2>1, LenProperties
<1>3. paper \in Seq(Seq(Glyph)) /\ screen \in Screen
  BY DEF ScreenInv, ScreenShape
<1>4. ASSUME driver = "vga"
      PROVE  /\ \A i \in (IF k > VGA_HEIGHT THEN k - VGA_HEIGHT ELSE 0) + 1 .. k :
                   Begins(screen.vga_membuffer[(i - 1) % VGA_HEIGHT], paper[i])
             /\ screen.terminal_row = (k - 1) % VGA_HEIGHT
             /\ screen.terminal_column = Len(Last(paper))
  <2>1. OnVga(screen, paper)
    BY <1>4 DEF ScreenInv
  <2>2. ASSUME NEW i \in (IF k > VGA_HEIGHT THEN k - VGA_HEIGHT ELSE 0) + 1 .. k
        PROVE  Begins(screen.vga_membuffer[(i - 1) % VGA_HEIGHT], paper[i])
    <3>1. i \in 1 .. k /\ i > k - VGA_HEIGHT
      BY <1>1, <2>2
    <3>2. \A x \in 1 .. Len(paper[i]) :
             screen.vga_membuffer[(i - 1) % VGA_HEIGHT][x - 1] = paper[i][x]
      BY <1>2, <2>1, <3>1 DEF OnVga, OnVgaRows
    <3>3. DOMAIN paper[i] = 1 .. Len(paper[i])
      BY <1>2, <1>3, <3>1, ElementOfSeq, LenProperties
    <3>. QED
      BY <3>2, <3>3, Zenon DEF Begins
  <2>. QED
    BY <1>2, <2>1, <2>2 DEF OnVga, OnVgaRows, Last
<1>5. ASSUME driver = "lfb", ~muddled
      PROVE  /\ \A y \in 0 .. Rows - 1 :
                   Shows(screen.linear_framebuffer[y],
                         IF Hidden(paper) + y + 1 <= k THEN paper[Hidden(paper) + y + 1] ELSE <<>>)
             /\ screen.terminal_row = k - 1 - Hidden(paper)
             /\ screen.terminal_column = Len(Last(paper))
  <2>1. OnLfb(screen, paper) /\ screen.linear_framebuffer = screen.lfb_membuffer
    BY <1>5 DEF ScreenInv
  <2>2. PICK h \in Nat : h = Hidden(paper)
    <3>1. Hidden(paper) \in Nat
      BY <1>1, <1>2 DEF Hidden
    <3>. QED
      BY <3>1
  <2>3. ASSUME NEW y \in 0 .. Rows - 1
        PROVE  Shows(screen.linear_framebuffer[y],
                     IF h + y + 1 <= k THEN paper[h + y + 1] ELSE <<>>)
    <3>1. y \in LfbY
      BY DEF LfbY
    <3>2. PICK i \in Nat : i = h + y + 1 /\ i >= 1
      BY h + y + 1 \in Nat
    <3>3. DOMAIN screen.linear_framebuffer[y] = LfbX
      <4>1. screen.linear_framebuffer \in [LfbY -> [LfbX -> Cell]]
        BY <1>3, ScreenFieldsAre
      <4>. QED
        BY <3>1, <4>1
    <3>4. ASSUME NEW x \in LfbX
          PROVE  screen.linear_framebuffer[y][x] = CharAt(paper, i, x) /\ x \in Nat
      BY <2>1, <2>2, <3>1, <3>2 DEF OnLfb, OnLfbRows, LfbX
    <3>5. PICK line : line = IF i <= k THEN paper[i] ELSE <<>>
      OBVIOUS
    <3>6. \A x \in Nat : CharAt(paper, i, x) = IF x < Len(line) THEN line[x + 1] ELSE NUL
      <4>1. CASE i <= k
        <5>1. i \in 1 .. Len(paper) /\ line = paper[i]
          BY <1>2, <3>2, <3>5, <4>1
        <5>. QED
          BY <5>1, Zenon DEF CharAt
      <4>2. CASE ~(i <= k)
        <5>1. i \notin 1 .. Len(paper) /\ line = <<>>
          BY <1>2, <3>2, <3>5, <4>2
        <5>2. Len(line) = 0
          BY <5>1
        <5>. QED
          BY <5>1, <5>2 DEF CharAt
      <4>. QED
        BY <4>1, <4>2
    <3>7. Shows(screen.linear_framebuffer[y], line)
      BY <3>3, <3>4, <3>6, Zenon DEF Shows
    <3>. QED
      BY <3>2, <3>5, <3>7, Zenon
  <2>. QED
    BY <1>2, <2>1, <2>2, <2>3 DEF OnLfb, OnLfbRows, Last
<1>. QED
  BY <1>2, <1>4, <1>5, Zenon DEF ScreenShowsPaper, Hidden

(* On a screen of any size, and whatever the texts are, the screen shows   *)
(* the end of what kprintf, puts and the processes put on the terminal and *)
(* the cursor is behind it: on the VGA screen, whose rows are used in      *)
(* turn, on the framebuffer, which scrolls, and after lfb_copy_from_vga,   *)
(* unless the VGA screen had started over.                                 *)
THEOREM ScreenFollowsPaper == ConsoleSpec => []ScreenShowsPaper
<1>1. ConsoleInit => ScreenInv
  BY ScreenInitInv
<1>2. ScreenInv /\ [ConsoleNext]_consolevars => ScreenInv'
  BY ScreenNextInv
<1>3. ScreenInv => ScreenShowsPaper
  BY ScreenIsPaper
<1>. QED
  BY <1>1, <1>2, <1>3, PTL DEF ConsoleSpec

-----------------------------------------------------------------------------
(* The functions on strings *)

(* The least element of a set is its minimum. *)
LEMMA MinIs ==
    ASSUME NEW S, S \subseteq Int, NEW x \in S, \A y \in S : x <= y
    PROVE  Min(S) = x
<1>. DEFINE IsMin(z) == z \in S /\ \A y \in S : z =< y
<1>1. IsMin(x)
  OBVIOUS
<1>2. Min(S) = CHOOSE z : IsMin(z)
  BY Zenon DEF Min
<1>3. IsMin(Min(S))
  <2>. HIDE DEF IsMin
  <2>. QED
    BY <1>1, <1>2, Zenon
<1>4. Min(S) \in Int /\ Min(S) <= x /\ x <= Min(S)
  <2>. HIDE DEF Min
  <2>. QED
    BY <1>3
<1>. QED
  <2>. HIDE DEF Min
  <2>. QED
    BY <1>4

(* A set of numbers that is not empty has a least element: the sets 1 .. n *)
(* for its members are finite, and inclusion of finite sets is well-founded.*)
LEMMA LeastElement ==
    ASSUME NEW S, S \subseteq Nat, S # {}
    PROVE  \E m \in S : \A k \in S : m <= k
<1>. DEFINE Upto(n) == 1 .. n
            T == {Upto(n) : n \in S}
            R == StrictSubsetOrdering(Nat)
<1>1. IsWellFoundedOn(R, FiniteSubsetsOf(Nat))
  BY FS_StrictSubsetOrderingWellFounded, Zenon
<1>2. T \subseteq FiniteSubsetsOf(Nat) /\ T # {}
  <2>1. \A n \in S : Upto(n) \in SUBSET Nat
    OBVIOUS
  <2>2. \A n \in S : IsFiniteSet(Upto(n))
    BY FS_Interval
  <2>. QED BY <2>1, <2>2, Zenon DEF FiniteSubsetsOf
<1>3. PICK x \in T : \A y \in T : ~ (<<y, x>> \in R)
  <2>. HIDE DEF T, R
  <2>. QED BY <1>1, <1>2, WFMin, Zenon
<1>4. PICK m \in S : x = Upto(m)
  BY <1>3, Zenon
<1>5. \A k \in S : m <= k
  <2>. SUFFICES ASSUME NEW k \in S, k < m PROVE FALSE
    OBVIOUS
  <2>1. <<Upto(k), Upto(m)>> \in R
    <3>1. Upto(k) \subseteq Upto(m) /\ Upto(k) # Upto(m)
      <4>1. m \in Upto(m) /\ m \notin Upto(k)
        OBVIOUS
      <4>2. Upto(k) \subseteq Upto(m)
        OBVIOUS
      <4>. QED BY <4>1, <4>2, Zenon
    <3>2. Upto(k) \in SUBSET Nat /\ Upto(m) \in SUBSET Nat
      OBVIOUS
    <3>. HIDE DEF Upto
    <3>3. <<Upto(k), Upto(m)>> \in (SUBSET Nat) \X (SUBSET Nat)
      BY <3>2
    <3>. QED BY <3>1, <3>3 DEF StrictSubsetOrdering
  <2>. QED BY <1>3, <1>4, <2>1, Zenon
<1>. QED
  BY <1>5, Zenon

LEMMA MinExists ==
    ASSUME NEW S, S \subseteq Nat, S # {}
    PROVE  Min(S) \in S /\ \A y \in S : Min(S) <= y
<1>1. PICK m \in S : \A k \in S : m <= k
  BY LeastElement
<1>2. Min(S) = m
  <2>1. S \subseteq Int
    OBVIOUS
  <2>. QED
    BY <1>1, <2>1, MinIs, Zenon
<1>. QED
  BY <1>1, <1>2

LEMMA MaxIs ==
    ASSUME NEW S, S \subseteq Int, NEW x \in S, \A y \in S : y <= x
    PROVE  Max(S) = x
<1>. DEFINE IsMax(z) == z \in S /\ \A y \in S : z >= y
<1>1. IsMax(x)
  OBVIOUS
<1>2. Max(S) = CHOOSE z : IsMax(z)
  BY Zenon DEF Max
<1>3. IsMax(Max(S))
  <2>. HIDE DEF IsMax
  <2>. QED
    BY <1>1, <1>2, Zenon
<1>4. Max(S) \in Int /\ Max(S) <= x /\ x <= Max(S)
  <2>. HIDE DEF Max
  <2>. QED
    BY <1>3
<1>. QED
  <2>. HIDE DEF Max
  <2>. QED
    BY <1>4

(* A part of a text. *)
LEMMA PartOfText ==
    ASSUME NEW text \in Seq(1 .. 255), NEW b \in 1 .. Len(text) + 1, NEW e \in b - 1 .. Len(text)
    PROVE  /\ SubSeq(text, b, e) \in Seq(1 .. 255) /\ Len(SubSeq(text, b, e)) = e - b + 1
           /\ \A k \in 1 .. e - b + 1 : SubSeq(text, b, e)[k] = text[b + k - 1]
<1>1. Len(text) \in Nat /\ b \in Int /\ e \in Int /\ \A i \in b .. e : i \in 1 .. Len(text)
  OBVIOUS
<1>2. \A i \in b .. e : text[i] \in 1 .. 255
  BY <1>1, ElementOfSeq, Zenon
<1>3. /\ SubSeq(text, b, e) \in Seq(1 .. 255)
      /\ Len(SubSeq(text, b, e)) = IF b <= e THEN e - b + 1 ELSE 0
      /\ \A k \in 1 .. e - b + 1 : SubSeq(text, b, e)[k] = text[b + k - 1]
  <2>1. SubSeq(text, b, e) \in Seq(1 .. 255)
    BY <1>1, <1>2, SubSeqProperties, Zenon
  <2>. QED
    BY <1>1, <2>1
<1>4. (IF b <= e THEN e - b + 1 ELSE 0) = e - b + 1
  BY <1>1
<1>. QED
  BY <1>3, <1>4, Zenon

(* The string at p is text. *)
Holds(m, p, text) ==
    /\ \A k \in 0 .. Len(text) - 1 : m[p + k] = text[k + 1]
    /\ m[p + Len(text)] = 0

LEMMA HeldIs ==
    ASSUME NEW m, NEW p \in Nat, NEW text \in Seq(1 .. 255),
           Holds(m, p, text), p + Len(text) < 2 * Room, Room \in Nat
    PROVE  strlen(m, p) = Len(text) /\ StringAt(m, p) = text
<1>. DEFINE S == {a \in p .. 2 * Room - 1 : m[a] = 0}
<1>1. Len(text) \in Nat /\ \A i \in 1 .. Len(text) : text[i] # 0
  <2>1. \A i \in 1 .. Len(text) : text[i] \in 1 .. 255
    BY ElementOfSeq, Zenon
  <2>2. \A x \in 1 .. 255 : x # 0
    OBVIOUS
  <2>3. Len(text) \in Nat
    OBVIOUS
  <2>. QED
    BY <2>1, <2>2, <2>3, Zenon
<1>2. p + Len(text) \in S
  BY <1>1 DEF Holds
<1>3. ASSUME NEW a \in S PROVE p + Len(text) <= a
  <2>. SUFFICES ASSUME a < p + Len(text) PROVE FALSE
    BY <1>1
  <2>1. a - p \in 0 .. Len(text) - 1 /\ a = p + (a - p)
    BY <1>1
  <2>2. m[a] = text[a - p + 1]
    BY <2>1 DEF Holds
  <2>3. a - p + 1 \in 1 .. Len(text)
    BY <1>1, <2>1
  <2>. QED
    BY <1>1, <2>2, <2>3
<1>4. Min(S) = p + Len(text)
  <2>. HIDE DEF S
  <2>1. S \subseteq Int
    BY DEF S
  <2>. QED
    BY <1>2, <1>3, <2>1, MinIs
<1>5. strlen(m, p) = Len(text)
  BY <1>1, <1>4 DEF strlen
<1>6. StringAt(m, p) = text
  <2>1. text = [i \in 1 .. Len(text) |-> text[i]]
    OBVIOUS
  <2>2. \A i \in 1 .. Len(text) : i - 1 \in 0 .. Len(text) - 1 /\ p + (i - 1) = p + i - 1 /\ (i - 1) + 1 = i
    BY <1>1
  <2>3. \A i \in 1 .. Len(text) : m[p + i - 1] = text[i]
    BY <2>2 DEF Holds
  <2>4. [i \in 1 .. Len(text) |-> m[p + i - 1]] = [i \in 1 .. Len(text) |-> text[i]]
    BY <2>3
  <2>. QED
    BY <1>5, <2>1, <2>4 DEF StringAt
<1>. QED
  BY <1>5, <1>6

(* Two texts are in the memory where a program put them. *)
TextsAre == loaded \in [1 .. 2 -> Texts]
Laid ==
    /\ TextsAre
    /\ \A i \in 1 .. 2 : Holds(bytes, Start(i), loaded[i])

(* memmove has copied some of the bytes, and every other is what it was;   *)
(* those it will yet take are among them.                                  *)
MovedPart(l) == IF l.down THEN l.dst + l.left .. l.dst + l.n - 1
                ELSE l.dst .. l.dst + l.n - l.left - 1
LoopShape(l) ==
    /\ l.dst \in 0 .. Room - 1 /\ l.src \in 0 .. Room - 1 /\ l.n \in 0 .. Room - 1
    /\ l.left \in 0 .. l.n /\ l.down \in BOOLEAN
    /\ l.down = (l.dst > l.src /\ l.dst - l.src < l.n)
    /\ l.dst = l.src => l.left = 0
MovedSoFar ==
    job \in {"moving", "moved"} =>
        /\ LoopShape(loop)
        /\ \A a \in Addresses :
              bytes[a] = IF a \in MovedPart(loop) THEN loop.before[a - loop.dst + loop.src]
                         ELSE loop.before[a]
        /\ job = "moved" => loop.left = 0

(* strcat has put the first characters of the second text behind the first.*)
JoinedText == loaded[1] \o loaded[2]
JoinedSoFar ==
    /\ job \in {"joining", "joined"} =>
          /\ TextsAre /\ Len(loaded[1]) + Len(loaded[2]) < Room
          /\ Holds(bytes, Start(2), loaded[2])
    /\ job = "joining" =>
          /\ loop.src \in Start(2) .. Start(2) + Len(loaded[2])
          /\ loop.dst = Len(loaded[1]) + (loop.src - Start(2))
          /\ \A k \in 0 .. loop.dst - 1 : bytes[k] = JoinedText[k + 1]
    /\ job = "joined" => Holds(bytes, Start(1), JoinedText)

LoopRecords ==
    [dst : Int, src : Int, n : Int, left : Int, down : BOOLEAN, before : [Addresses -> Int]]
MemoryInv ==
    /\ loop \in LoopRecords
    /\ job \in {"nothing", "loaded", "moving", "moved", "joining", "joined", "splitting"}
    /\ bytes \in [Addresses -> Int]
    /\ job = "loaded" => Laid
    /\ job \in {"loaded", "splitting"} => TextsAre
    /\ MovedSoFar /\ JoinedSoFar

LEMMA TextIs ==
    \A s \in Texts : s \in Seq(1 .. 255) /\ s \in Seq(Int) /\ Len(s) \in Nat /\ Len(s) < Room
                     /\ \A i \in 1 .. Len(s) : s[i] \in 1 .. 255
<1>. SUFFICES ASSUME NEW s \in Texts
              PROVE  s \in Seq(1 .. 255) /\ s \in Seq(Int) /\ Len(s) \in Nat /\ Len(s) < Room
                     /\ \A i \in 1 .. Len(s) : s[i] \in 1 .. 255
  BY Zenon
<1>1. s \in Seq(1 .. 255) /\ Len(s) < Room
  BY StringsAssumption, Zenon
<1>2. \A i \in 1 .. Len(s) : s[i] \in 1 .. 255
  BY <1>1, ElementOfSeq, Zenon
<1>3. Len(s) \in Nat /\ s \in [1 .. Len(s) -> 1 .. 255]
  BY <1>1, LenProperties, Zenon
<1>4. s \in [1 .. Len(s) -> Int]
  <2>1. \A i \in 1 .. Len(s) : s[i] \in Int
    <3>1. \A x \in 1 .. 255 : x \in Int
      OBVIOUS
    <3>. QED
      BY <1>2, <3>1, Zenon
  <2>2. s = [i \in 1 .. Len(s) |-> s[i]]
    BY <1>3, Zenon
  <2>. QED
    BY <2>1, <2>2, Zenon
<1>5. s \in Seq(Int)
  BY <1>3, <1>4, SeqDef
<1>. QED
  BY <1>1, <1>2, <1>3, <1>5, Zenon

LEMMA PlacesAre == Room \in Nat /\ Start(1) = 0 /\ Start(2) = Room
BY StringsAssumption DEF Start

LEMMA MemoryInit == StringsInit => MemoryInv
<1>1. Unwritten \in [Addresses -> Int]
  BY DEF Unwritten
<1>2. NoLoop \in LoopRecords
  BY <1>1 DEF NoLoop, LoopRecords
<1>. QED
  BY <1>1, <1>2 DEF StringsInit, MemoryInv, MovedSoFar, JoinedSoFar, Laid

LEMMA LoadKeeps == MemoryInv /\ Load => MemoryInv'
<1>. SUFFICES ASSUME MemoryInv, Load PROVE MemoryInv'
  OBVIOUS
<1>1. PICK s \in Texts, t \in Texts :
          /\ loaded' = <<s, t>>
          /\ bytes' = [a \in Addresses |->
                LET text == IF a < Start(2) THEN s ELSE t
                    at == (a % Room) + 1 IN
                IF at <= Len(text) THEN text[at] ELSE IF at = Len(text) + 1 THEN 0 ELSE -1]
  BY Zenon DEF Load
<1>. DEFINE At(text, at) == IF at <= Len(text) THEN text[at] ELSE IF at = Len(text) + 1 THEN 0 ELSE -1
<1>2. Room \in Nat /\ Room > 0 /\ Len(s) \in Nat /\ Len(s) < Room /\ Len(t) \in Nat /\ Len(t) < Room
  BY TextIs, PlacesAre
<1>3. \A a \in Addresses : bytes'[a] = At(IF a < Room THEN s ELSE t, (a % Room) + 1)
  BY <1>1, PlacesAre
<1>4. \A k \in 0 .. Room - 1 : /\ k \in Addresses /\ k % Room = k /\ k < Room
                               /\ Room + k \in Addresses /\ (Room + k) % Room = k /\ ~(Room + k < Room)
  BY <1>2 DEF Addresses
<1>5. \A k \in 0 .. Room - 1 : bytes'[k] = At(s, k + 1) /\ bytes'[Room + k] = At(t, k + 1)
  BY <1>3, <1>4
<1>6. Holds(bytes', 0, s) /\ Holds(bytes', Room, t)
  <2>1. 0 + Len(s) = Len(s)
    BY <1>2
  <2>2. \A k \in 0 .. Len(s) - 1 : /\ k \in 0 .. Room - 1 /\ k + 1 <= Len(s) /\ 0 + k = k
    BY <1>2
  <2>3. \A k \in 0 .. Len(t) - 1 : /\ k \in 0 .. Room - 1 /\ k + 1 <= Len(t)
    BY <1>2
  <2>4. /\ Len(s) \in 0 .. Room - 1 /\ ~(Len(s) + 1 <= Len(s))
        /\ Len(t) \in 0 .. Room - 1 /\ ~(Len(t) + 1 <= Len(t))
    BY <1>2
  <2>5. bytes'[Len(s)] = 0 /\ bytes'[Room + Len(t)] = 0
    BY <1>5, <2>4
  <2>. QED
    BY <1>5, <2>1, <2>2, <2>3, <2>5 DEF Holds
<1>7. Laid'
  <2>1. loaded'[1] = s /\ loaded'[2] = t /\ TextsAre'
    BY <1>1 DEF TextsAre
  <2>. QED
    BY <1>6, <2>1, PlacesAre DEF Laid
<1>8. bytes' \in [Addresses -> Int]
  <2>1. \A a \in Addresses : a % Room \in 0 .. Room - 1
    BY <1>2 DEF Addresses
  <2>2. \A a \in Addresses : At(IF a < Room THEN s ELSE t, (a % Room) + 1) \in Int
    <3>. SUFFICES ASSUME NEW a \in Addresses, NEW text \in {s, t}, NEW at \in 1 .. Room
                  PROVE  At(text, at) \in Int
      BY <1>2, <2>1
    <3>. QED
      BY TextIs
  <2>3. bytes' = [a \in Addresses |-> bytes'[a]]
    BY <1>1
  <2>. QED
    BY <1>3, <2>2, <2>3
<1>9. job' = "loaded" /\ loop' = loop
  BY DEF Load
<1>. QED
  BY <1>7, <1>8, <1>9 DEF MemoryInv, MovedSoFar, JoinedSoFar, Laid

LEMMA MoveKeeps ==
    ASSUME MemoryInv, NEW dst \in 0 .. Room - 1, NEW src \in 0 .. Room - 1, NEW n \in 0 .. Room - 1,
           Move(dst, src, n)
    PROVE  MemoryInv'
<1>1. /\ job' = "moving" /\ UNCHANGED bytes
      /\ loop' = [dst |-> dst, src |-> src, n |-> n, left |-> IF dst = src THEN 0 ELSE n,
                  down |-> dst > src /\ dst - src < n, before |-> bytes]
  BY DEF Move, memmove
<1>2. /\ loop'.dst = dst /\ loop'.src = src /\ loop'.n = n /\ loop'.before = bytes
      /\ loop'.left = (IF dst = src THEN 0 ELSE n)
      /\ loop'.down = (dst > src /\ dst - src < n)
  BY <1>1
<1>3. LoopShape(loop)' /\ loop' \in LoopRecords
  BY <1>1, <1>2, PlacesAre DEF LoopShape, LoopRecords, MemoryInv
<1>4. \A a \in Addresses : a \in MovedPart(loop') => dst = src
  BY <1>2, PlacesAre DEF MovedPart, Addresses
<1>5. \A a \in Addresses : a - dst + dst = a
  BY PlacesAre DEF Addresses
<1>6. \A a \in Addresses :
          bytes'[a] = IF a \in MovedPart(loop') THEN loop'.before[a - loop'.dst + loop'.src]
                      ELSE loop'.before[a]
  BY <1>1, <1>2, <1>4, <1>5
<1>. QED
  BY <1>1, <1>3, <1>6 DEF MemoryInv, MovedSoFar, JoinedSoFar

LEMMA MoveByteKeeps == MemoryInv /\ MoveByte => MemoryInv'
<1>. SUFFICES ASSUME MemoryInv, MoveByte PROVE MemoryInv'
  OBVIOUS
<1>1. PICK dst, src, n, left, down, before :
          /\ dst = loop.dst /\ src = loop.src /\ n = loop.n /\ left = loop.left
          /\ down = loop.down /\ before = loop.before
  OBVIOUS
<1>2. job = "moving" /\ LoopShape(loop) /\ left > 0
  BY <1>1 DEF MoveByte, MemoryInv, MovedSoFar
<1>3. /\ Room \in Nat /\ dst \in 0 .. Room - 1 /\ src \in 0 .. Room - 1 /\ n \in 0 .. Room - 1
      /\ left \in 1 .. n /\ down \in BOOLEAN /\ down = (dst > src /\ dst - src < n) /\ dst # src
  BY <1>1, <1>2, PlacesAre DEF LoopShape
<1>4. PICK i \in 0 .. n - 1 : i = IF down THEN left - 1 ELSE n - left
  BY <1>3
<1>5. dst + i \in Addresses /\ src + i \in Addresses
  BY <1>3, <1>4 DEF Addresses
<1>6. src + i \notin MovedPart(loop)
  <2>1. CASE down
    <3>1. MovedPart(loop) = dst + left .. dst + n - 1 /\ i = left - 1 /\ src < dst
      BY <1>1, <1>3, <1>4, <2>1 DEF MovedPart
    <3>. QED
      BY <1>3, <3>1
  <2>2. CASE ~down
    <3>1. MovedPart(loop) = dst .. dst + n - left - 1 /\ i = n - left /\ (src < dst => dst - src >= n)
      <4>1. MovedPart(loop) = dst .. dst + n - left - 1
        BY <1>1, <2>2, Zenon DEF MovedPart
      <4>2. i = n - left
        BY <1>4, <2>2, Zenon
      <4>3. ~(dst > src /\ dst - src < n)
        BY <1>3, <2>2, Zenon
      <4>. QED
        BY <1>3, <4>1, <4>2, <4>3
    <3>. QED
      BY <1>3, <3>1
  <2>. QED
    BY <2>1, <2>2
<1>7. bytes[src + i] = before[src + i]
  BY <1>1, <1>2, <1>5, <1>6 DEF MemoryInv, MovedSoFar
<1>8. bytes' = [bytes EXCEPT ![dst + i] = bytes[src + i]] /\ bytes \in [Addresses -> Int]
  BY <1>1, <1>4 DEF MoveByte, MemoryInv
<1>9. /\ loop'.dst = dst /\ loop'.src = src /\ loop'.n = n /\ loop'.left = left - 1
      /\ loop'.down = down /\ loop'.before = before
  BY <1>1 DEF MoveByte, MemoryInv, LoopRecords
<1>10. loop' \in LoopRecords
  BY <1>1, <1>3 DEF MoveByte, MemoryInv, LoopRecords
<1>11. LoopShape(loop)'
  BY <1>3, <1>9 DEF LoopShape
<1>12. \A a \in Addresses : a \in MovedPart(loop') <=> (a \in MovedPart(loop) \/ a = dst + i)
  BY <1>1, <1>3, <1>4, <1>9 DEF MovedPart, Addresses
<1>13. \A a \in Addresses : bytes'[a] = IF a = dst + i THEN before[src + i] ELSE bytes[a]
  BY <1>7, <1>8, <1>5
<1>14. (dst + i) - dst + src = src + i
  BY <1>3, <1>4
<1>15. \A a \in Addresses :
          bytes'[a] = IF a \in MovedPart(loop') THEN loop'.before[a - loop'.dst + loop'.src]
                      ELSE loop'.before[a]
  BY <1>1, <1>2, <1>9, <1>12, <1>13, <1>14 DEF MemoryInv, MovedSoFar
<1>16. bytes' \in [Addresses -> Int] /\ job' = "moving"
  BY <1>2, <1>5, <1>8 DEF MoveByte
<1>. QED
  BY <1>10, <1>11, <1>15, <1>16 DEF MemoryInv, MovedSoFar, JoinedSoFar

LEMMA MoveEndsKeeps == MemoryInv /\ MoveEnds => MemoryInv'
BY DEF MemoryInv, MovedSoFar, JoinedSoFar, MoveEnds, Laid

(* The joined text, character by character. *)
LEMMA JoinedIs ==
    ASSUME TextsAre
    PROVE  /\ JoinedText \in Seq(1 .. 255)
           /\ loaded[1] \in Seq(1 .. 255) /\ loaded[2] \in Seq(1 .. 255)
           /\ Len(loaded[1]) \in Nat /\ Len(loaded[2]) \in Nat
           /\ Len(loaded[1]) < Room /\ Len(loaded[2]) < Room
           /\ Len(JoinedText) = Len(loaded[1]) + Len(loaded[2])
           /\ \A k \in 1 .. Len(loaded[1]) : JoinedText[k] = loaded[1][k]
           /\ \A k \in 1 .. Len(loaded[2]) : JoinedText[Len(loaded[1]) + k] = loaded[2][k]
           /\ \A k \in 1 .. Len(loaded[2]) : loaded[2][k] # 0
<1>1. loaded[1] \in Texts /\ loaded[2] \in Texts
  BY DEF TextsAre
<1>2. PICK s \in Texts, t \in Texts : s = loaded[1] /\ t = loaded[2]
  BY <1>1
<1>3. /\ s \in Seq(1 .. 255) /\ t \in Seq(1 .. 255) /\ Len(s) \in Nat /\ Len(t) \in Nat
      /\ Len(s) < Room /\ Len(t) < Room /\ \A i \in 1 .. Len(t) : t[i] \in 1 .. 255
  BY TextIs, Zenon
<1>4. s \o t \in Seq(1 .. 255) /\ Len(s \o t) = Len(s) + Len(t)
  BY <1>3, ConcatProperties
<1>5. \A k \in 1 .. Len(s) : (s \o t)[k] = s[k]
  BY <1>3, ConcatProperties
<1>6. \A k \in 1 .. Len(t) : (s \o t)[Len(s) + k] = t[k]
  BY <1>3, ConcatProperties
<1>7. \A x \in 1 .. 255 : x # 0
  OBVIOUS
<1>. QED
  BY <1>2, <1>3, <1>4, <1>5, <1>6, <1>7, Zenon DEF JoinedText

LEMMA JoinKeeps == MemoryInv /\ Join => MemoryInv'
<1>. SUFFICES ASSUME MemoryInv, Join PROVE MemoryInv'
  OBVIOUS
<1>1. /\ job = "loaded" /\ job' = "joining" /\ UNCHANGED <<bytes, loaded>> /\ Laid /\ TextsAre
      /\ Len(loaded[1]) + Len(loaded[2]) < Room
      /\ Holds(bytes, 0, loaded[1]) /\ Holds(bytes, Room, loaded[2])
  <2>1. Laid /\ Holds(bytes, Start(1), loaded[1]) /\ Holds(bytes, Start(2), loaded[2])
    BY DEF Join, MemoryInv, Laid
  <2>. QED
    BY <2>1, PlacesAre DEF Join, Laid
<1>2. strlen(bytes, 0) = Len(loaded[1])
  BY <1>1, HeldIs, JoinedIs, PlacesAre
<1>3. loop' = [NoLoop EXCEPT !.dst = Len(loaded[1]), !.src = Room, !.before = bytes]
  <2>1. 0 + strlen(bytes, 0) = Len(loaded[1])
    BY <1>1, <1>2, JoinedIs
  <2>. QED
    BY <2>1, PlacesAre DEF Join, strcat, strcpy
<1>4. loop' \in LoopRecords /\ loop'.src = Room /\ loop'.dst = Len(loaded[1])
  <2>1. Len(loaded[1]) \in Int /\ Room \in Int /\ bytes \in [Addresses -> Int]
    BY <1>1, JoinedIs, PlacesAre DEF MemoryInv
  <2>2. loop' = [dst |-> Len(loaded[1]), src |-> Room, n |-> 0, left |-> 0, down |-> FALSE,
                 before |-> bytes]
    BY <1>3 DEF NoLoop
  <2>. QED
    BY <2>1, <2>2 DEF LoopRecords
<1>5. /\ loop'.src \in Room .. Room + Len(loaded[2])
      /\ loop'.dst = Len(loaded[1]) + (loop'.src - Room)
  BY <1>1, <1>4, JoinedIs, PlacesAre
<1>6. \A k \in 0 .. loop'.dst - 1 : bytes[k] = JoinedText[k + 1]
  <2>. SUFFICES ASSUME NEW k \in 0 .. Len(loaded[1]) - 1 PROVE bytes[k] = JoinedText[k + 1]
    BY <1>4
  <2>1. bytes[0 + k] = loaded[1][k + 1] /\ 0 + k = k /\ k + 1 \in 1 .. Len(loaded[1])
    BY <1>1, JoinedIs DEF Holds
  <2>. QED
    BY <1>1, <2>1, JoinedIs
<1>7. JoinedText' = JoinedText /\ TextsAre'
  BY <1>1 DEF JoinedText, TextsAre
<1>8. JoinedSoFar'
  BY <1>1, <1>5, <1>6, <1>7, PlacesAre DEF JoinedSoFar, Start
<1>. QED
  BY <1>1, <1>4, <1>8 DEF MemoryInv, MovedSoFar

LEMMA JoinByteKeeps == MemoryInv /\ JoinByte => MemoryInv'
<1>. SUFFICES ASSUME MemoryInv, JoinByte PROVE MemoryInv'
  OBVIOUS
<1>1. PICK dst, src : dst = loop.dst /\ src = loop.src
  OBVIOUS
<1>2. /\ job = "joining" /\ job' = "joining" /\ UNCHANGED loaded /\ TextsAre
      /\ Len(loaded[1]) + Len(loaded[2]) < Room /\ Holds(bytes, Room, loaded[2])
      /\ bytes \in [Addresses -> Int] /\ loop \in LoopRecords
      /\ src \in Room .. Room + Len(loaded[2]) /\ dst = Len(loaded[1]) + (src - Room)
      /\ \A k \in 0 .. dst - 1 : bytes[k] = JoinedText[k + 1]
      /\ bytes[src] # 0 /\ bytes' = [bytes EXCEPT ![dst] = bytes[src]]
      /\ loop' = [loop EXCEPT !.dst = dst + 1, !.src = src + 1]
  BY <1>1, PlacesAre DEF JoinByte, MemoryInv, JoinedSoFar, LoopRecords
<1>3. PICK s, t : s = loaded[1] /\ t = loaded[2]
  OBVIOUS
<1>4. /\ Room \in Nat /\ Len(s) \in Nat /\ Len(t) \in Nat /\ Len(s) + Len(t) < Room
      /\ src \in Room .. Room + Len(t) /\ dst = Len(s) + (src - Room)
  BY <1>2, <1>3, JoinedIs, PlacesAre
<1>5. src # Room + Len(t)
  BY <1>2, <1>3 DEF Holds
<1>6. PICK j \in 0 .. Len(t) - 1 : src = Room + j /\ dst = Len(s) + j
  BY <1>4, <1>5
<1>7. bytes[src] = t[j + 1] /\ JoinedText[dst + 1] = t[j + 1]
  <2>1. bytes[src] = t[j + 1]
    BY <1>2, <1>3, <1>6 DEF Holds
  <2>2. j + 1 \in 1 .. Len(t) /\ dst + 1 = Len(s) + (j + 1)
    BY <1>4, <1>6
  <2>3. JoinedText[Len(s) + (j + 1)] = t[j + 1]
    BY <1>2, <1>3, <2>2, JoinedIs, Zenon
  <2>. QED
    BY <2>1, <2>2, <2>3
<1>8. dst \in Addresses /\ dst < Room
  BY <1>4, <1>6 DEF Addresses
<1>9. \A a \in Addresses : bytes'[a] = IF a = dst THEN t[j + 1] ELSE bytes[a]
  BY <1>2, <1>7, <1>8
<1>10. \A k \in 0 .. dst : bytes'[k] = JoinedText[k + 1]
  <2>1. \A k \in 0 .. dst : k \in Addresses /\ (k = dst \/ k \in 0 .. dst - 1)
    BY <1>4, <1>8 DEF Addresses
  <2>. QED
    BY <1>2, <1>7, <1>9, <2>1
<1>11. Holds(bytes', Room, loaded[2])
  <2>1. \A k \in 0 .. Len(t) : Room + k \in Addresses /\ Room + k # dst
    BY <1>4, <1>8 DEF Addresses
  <2>2. \A k \in 0 .. Len(t) : bytes'[Room + k] = bytes[Room + k]
    BY <1>9, <2>1
  <2>3. Len(t) \in 0 .. Len(t) /\ \A k \in 0 .. Len(t) - 1 : k \in 0 .. Len(t)
    BY <1>4
  <2>. QED
    BY <1>2, <1>3, <2>2, <2>3 DEF Holds
<1>12. loop' \in LoopRecords /\ loop'.dst = dst + 1 /\ loop'.src = src + 1
  <2>1. dst + 1 \in Int /\ src + 1 \in Int
    BY <1>4
  <2>2. loop \in LoopRecords /\ loop' = [loop EXCEPT !.dst = dst + 1, !.src = src + 1]
    BY <1>2
  <2>. QED
    BY <2>1, <2>2 DEF LoopRecords
<1>13. /\ loop'.src \in Room .. Room + Len(t)
       /\ loop'.dst = Len(s) + (loop'.src - Room) /\ loop'.dst - 1 = dst
  BY <1>4, <1>5, <1>12
<1>14. bytes' \in [Addresses -> Int]
  <2>1. src \in Addresses
    BY <1>4, <1>5 DEF Addresses
  <2>2. bytes[src] \in Int
    BY <1>2, <2>1
  <2>. QED
    BY <1>2, <1>8, <2>2
<1>15. JoinedText' = JoinedText /\ TextsAre'
  BY <1>2 DEF JoinedText, TextsAre
<1>16. JoinedSoFar'
  BY <1>2, <1>3, <1>10, <1>11, <1>13, <1>15, PlacesAre DEF JoinedSoFar, Start
<1>. QED
  BY <1>2, <1>12, <1>14, <1>16 DEF MemoryInv, MovedSoFar

LEMMA JoinEndsKeeps == MemoryInv /\ JoinEnds => MemoryInv'
<1>. SUFFICES ASSUME MemoryInv, JoinEnds PROVE MemoryInv'
  OBVIOUS
<1>1. PICK dst, src : dst = loop.dst /\ src = loop.src
  OBVIOUS
<1>2. /\ job = "joining" /\ job' = "joined" /\ UNCHANGED <<loaded, loop>> /\ TextsAre
      /\ Len(loaded[1]) + Len(loaded[2]) < Room /\ Holds(bytes, Room, loaded[2])
      /\ bytes \in [Addresses -> Int] /\ loop \in LoopRecords
      /\ src \in Room .. Room + Len(loaded[2]) /\ dst = Len(loaded[1]) + (src - Room)
      /\ \A k \in 0 .. dst - 1 : bytes[k] = JoinedText[k + 1]
      /\ bytes[src] = 0 /\ bytes' = [bytes EXCEPT ![dst] = 0]
  BY <1>1, PlacesAre DEF JoinEnds, MemoryInv, JoinedSoFar
<1>3. PICK s, t : s = loaded[1] /\ t = loaded[2]
  OBVIOUS
<1>4. /\ Room \in Nat /\ Len(s) \in Nat /\ Len(t) \in Nat /\ Len(s) + Len(t) < Room
      /\ src \in Room .. Room + Len(t) /\ dst = Len(s) + (src - Room)
      /\ \A k \in 1 .. Len(t) : t[k] # 0
      /\ Len(JoinedText) = Len(s) + Len(t)
  BY <1>2, <1>3, JoinedIs, PlacesAre
<1>5. src = Room + Len(t)
  <2>. SUFFICES ASSUME NEW j \in 0 .. Len(t) - 1, src = Room + j PROVE FALSE
    BY <1>4
  <2>1. bytes[src] = t[j + 1]
    BY <1>2, <1>3 DEF Holds
  <2>. QED
    BY <1>2, <1>4, <2>1
<1>6. dst = Len(JoinedText) /\ dst \in Addresses /\ dst < Room
  BY <1>4, <1>5 DEF Addresses
<1>7. \A a \in Addresses : bytes'[a] = IF a = dst THEN 0 ELSE bytes[a]
  BY <1>2, <1>6
<1>8. Holds(bytes', 0, JoinedText)
  <2>1. \A k \in 0 .. dst - 1 : k \in Addresses /\ k # dst /\ 0 + k = k
    BY <1>4, <1>6 DEF Addresses
  <2>2. 0 + dst = dst
    BY <1>4, <1>6
  <2>3. \A k \in 0 .. dst - 1 : bytes'[k] = bytes[k]
    BY <1>7, <2>1
  <2>4. \A k \in 0 .. dst - 1 : bytes'[0 + k] = JoinedText[k + 1]
    BY <1>2, <2>1, <2>3
  <2>5. bytes'[0 + dst] = 0
    BY <1>6, <1>7, <2>2
  <2>. QED
    BY <1>6, <2>4, <2>5, Zenon DEF Holds
<1>9. Holds(bytes', Room, loaded[2])
  <2>1. \A k \in 0 .. Len(t) : Room + k \in Addresses /\ Room + k # dst
    BY <1>4, <1>6 DEF Addresses
  <2>2. \A k \in 0 .. Len(t) : bytes'[Room + k] = bytes[Room + k]
    BY <1>7, <2>1
  <2>3. Len(t) \in 0 .. Len(t) /\ \A k \in 0 .. Len(t) - 1 : k \in 0 .. Len(t)
    BY <1>4
  <2>. QED
    BY <1>2, <1>3, <2>2, <2>3 DEF Holds
<1>10. bytes' \in [Addresses -> Int]
  BY <1>2, <1>6
<1>11. JoinedText' = JoinedText /\ TextsAre'
  BY <1>2 DEF JoinedText, TextsAre
<1>12. JoinedSoFar'
  BY <1>2, <1>8, <1>9, <1>11, PlacesAre DEF JoinedSoFar, Start
<1>. QED
  BY <1>2, <1>10, <1>12 DEF MemoryInv, MovedSoFar

LEMMA TokenizeKeeps == \A i \in 1 .. 2 : MemoryInv /\ Tokenize(i) => MemoryInv'
<1>. SUFFICES ASSUME NEW i \in 1 .. 2, MemoryInv, Tokenize(i) PROVE MemoryInv'
  OBVIOUS
<1>1. PICK delim \in Delimiters : strtok_r(i, delim)
  BY DEF Tokenize
<1>2. bytes' = bytes \/ \E end : bytes' = [bytes EXCEPT ![end] = 0]
  BY <1>1, Zenon DEF strtok_r
<1>3. bytes' \in [Addresses -> Int]
  BY <1>2 DEF MemoryInv
<1>. QED
  BY <1>3 DEF Tokenize, MemoryInv, MovedSoFar, JoinedSoFar, Laid, TextsAre

LEMMA DiscardKeeps == MemoryInv /\ Discard => MemoryInv'
<1>1. Unwritten \in [Addresses -> Int]
  BY DEF Unwritten
<1>2. NoLoop \in LoopRecords
  BY <1>1 DEF NoLoop, LoopRecords
<1>. QED
  BY <1>1, <1>2 DEF Discard, MemoryInv, MovedSoFar, JoinedSoFar, Laid

LEMMA MemoryNext == MemoryInv /\ [StringsNext]_stringvars => MemoryInv'
<1>. SUFFICES ASSUME MemoryInv, [StringsNext]_stringvars PROVE MemoryInv'
  OBVIOUS
<1>1. CASE UNCHANGED stringvars
  BY <1>1 DEF stringvars, MemoryInv, MovedSoFar, JoinedSoFar, JoinedText, Laid, TextsAre
<1>2. ASSUME NEW dst \in 0 .. Room - 1, NEW src \in 0 .. Room - 1, NEW n \in 0 .. Room - 1,
             Move(dst, src, n)
      PROVE  MemoryInv'
  BY <1>2, MoveKeeps
<1>3. ASSUME NEW i \in 1 .. 2, Tokenize(i) PROVE MemoryInv'
  BY <1>3, TokenizeKeeps
<1>. QED
  BY <1>1, <1>2, <1>3, LoadKeeps, DiscardKeeps, MoveByteKeeps, MoveEndsKeeps, JoinKeeps,
     JoinByteKeeps, JoinEndsKeeps DEF StringsNext

(* However the two places overlap, memmove copies the bytes as they were   *)
(* before and changes no other; strcat puts the one string behind the      *)
(* other, whatever the strings are.                                        *)
THEOREM MemoryMovesExactly == StringsSpec => []MovesAreExact
<1>1. StringsInit => MemoryInv
  BY MemoryInit
<1>2. MemoryInv /\ [StringsNext]_stringvars => MemoryInv'
  BY MemoryNext
<1>3. MemoryInv => MovesAreExact
  <2>. SUFFICES ASSUME MemoryInv PROVE MovesAreExact
    OBVIOUS
  <2>1. ASSUME job = "moved"
        PROVE  \A a \in Addresses :
                  bytes[a] = IF a \in loop.dst .. loop.dst + loop.n - 1
                             THEN loop.before[a - loop.dst + loop.src] ELSE loop.before[a]
    <3>1. MovedPart(loop) = loop.dst .. loop.dst + loop.n - 1
      BY <2>1, PlacesAre DEF MovedPart, MemoryInv, MovedSoFar, LoopShape
    <3>. QED
      BY <2>1, <3>1, Zenon DEF MemoryInv, MovedSoFar
  <2>2. ASSUME job = "joined"
        PROVE  /\ StringAt(bytes, Start(1)) = loaded[1] \o loaded[2]
               /\ StringAt(bytes, Start(2)) = loaded[2]
    <3>1. /\ TextsAre /\ Len(loaded[1]) + Len(loaded[2]) < Room
          /\ Holds(bytes, Start(2), loaded[2]) /\ Holds(bytes, Start(1), JoinedText)
      BY <2>2 DEF MemoryInv, JoinedSoFar
    <3>2. /\ JoinedText \in Seq(1 .. 255) /\ loaded[2] \in Seq(1 .. 255)
          /\ 0 + Len(JoinedText) < 2 * Room /\ Room + Len(loaded[2]) < 2 * Room
      <4>. DEFINE a == Len(loaded[1])  b == Len(loaded[2])
      <4>1. /\ JoinedText \in Seq(1 .. 255) /\ loaded[2] \in Seq(1 .. 255)
            /\ a \in Nat /\ b \in Nat /\ Len(JoinedText) = a + b /\ a + b < Room /\ Room \in Nat
        BY <3>1, JoinedIs, PlacesAre
      <4>2. 0 + (a + b) < 2 * Room /\ Room + b < 2 * Room
        <5>. HIDE DEF a, b
        <5>. QED
          BY <4>1
      <4>. QED
        BY <4>1, <4>2, Zenon
    <3>3. StringAt(bytes, Start(1)) = JoinedText /\ StringAt(bytes, Start(2)) = loaded[2]
      BY <3>1, <3>2, HeldIs, PlacesAre
    <3>. QED
      BY <3>3, Zenon DEF JoinedText
  <2>. QED
    BY <2>1, <2>2, Zenon DEF MovesAreExact
<1>. QED
  BY <1>1, <1>2, <1>3, PTL DEF StringsSpec
-----------------------------------------------------------------------------
(* The tokens of a string *)

(* Behind the first n characters the memory at p is still the text.        *)
Kept(m, p, text, n) ==
    /\ \A j \in n .. Len(text) - 1 : m[p + j] = text[j + 1]
    /\ m[p + Len(text)] = 0

LEMMA LengthOfRest ==
    ASSUME Room \in Nat, NEW m, NEW p \in Nat, NEW text \in Seq(1 .. 255), NEW n \in 0 .. Len(text),
           Kept(m, p, text, n), p + Len(text) < 2 * Room
    PROVE  strlen(m, p + n) = Len(text) - n
<1>. DEFINE S == {a \in p + n .. 2 * Room - 1 : m[a] = 0}
<1>1. Len(text) \in Nat /\ \A i \in 1 .. Len(text) : text[i] # 0
  <2>1. \A i \in 1 .. Len(text) : text[i] \in 1 .. 255
    BY ElementOfSeq, Zenon
  <2>2. \A x \in 1 .. 255 : x # 0
    OBVIOUS
  <2>3. Len(text) \in Nat
    OBVIOUS
  <2>. QED
    BY <2>1, <2>2, <2>3, Zenon
<1>2. p + Len(text) \in S
  BY <1>1 DEF Kept
<1>3. ASSUME NEW a \in S PROVE p + Len(text) <= a
  <2>. SUFFICES ASSUME a < p + Len(text) PROVE FALSE
    BY <1>1
  <2>1. a - p \in n .. Len(text) - 1 /\ a = p + (a - p)
    BY <1>1
  <2>2. m[a] = text[a - p + 1]
    BY <2>1 DEF Kept
  <2>3. a - p + 1 \in 1 .. Len(text)
    BY <1>1, <2>1
  <2>. QED
    BY <1>1, <2>2, <2>3
<1>4. Min(S) = p + Len(text)
  <2>. HIDE DEF S
  <2>1. S \subseteq Int
    BY DEF S
  <2>. QED
    BY <1>2, <1>3, <2>1, MinIs
<1>. QED
  BY <1>1, <1>4 DEF strlen

LEMMA DelimitersAre ==
    ASSUME NEW delim \in Delimiters
    PROVE  0 \notin Range(delim)
<1>1. delim \in Seq(1 .. 255)
  BY StringsAssumption, Zenon
<1>2. \A i \in 1 .. Len(delim) : delim[i] \in 1 .. 255
  BY <1>1, ElementOfSeq, Zenon
<1>3. DOMAIN delim = 1 .. Len(delim)
  BY <1>1
<1>4. \A x \in 1 .. 255 : x # 0
  OBVIOUS
<1>5. \A i \in DOMAIN delim : delim[i] # 0
  BY <1>2, <1>3, <1>4, Zenon
<1>. QED
  BY <1>5 DEF Range

(* strspn skips the delimiters. *)
SkipsTo(m, p, text, n, delim, k) ==
    /\ strspn(m, p + n, delim) = k - n
    /\ \A j \in n .. k - 1 : text[j + 1] \in Range(delim)
    /\ k < Len(text) => text[k + 1] \notin Range(delim)
LEMMA SkipIs ==
    ASSUME Room \in Nat, NEW m, NEW p \in Nat, NEW text \in Seq(1 .. 255), NEW n \in 0 .. Len(text),
           Kept(m, p, text, n), p + Len(text) < 2 * Room, NEW delim \in Delimiters
    PROVE  \E k \in n .. Len(text) : SkipsTo(m, p, text, n, delim, k)
<1>. DEFINE S == {j \in 0 .. Len(text) - n : m[(p + n) + j] \notin Range(delim)}
<1>1. Len(text) \in Nat
  OBVIOUS
<1>2. strspn(m, p + n, delim) = Min(S)
  BY LengthOfRest DEF strspn
<1>3. \A j \in 0 .. Len(text) - n - 1 : m[(p + n) + j] = text[(n + j) + 1]
  <2>1. \A j \in 0 .. Len(text) - n - 1 : n + j \in n .. Len(text) - 1 /\ (p + n) + j = p + (n + j)
    BY <1>1
  <2>. QED
    BY <2>1 DEF Kept
<1>4. Len(text) - n \in S
  <2>1. Len(text) - n \in 0 .. Len(text) - n /\ (p + n) + (Len(text) - n) = p + Len(text)
    BY <1>1
  <2>. QED
    BY <2>1, DelimitersAre DEF Kept
<1>5. S \subseteq Nat
  OBVIOUS
<1>6. Min(S) \in S /\ \A j \in S : Min(S) <= j
  <2>. HIDE DEF S
  <2>. QED
    BY <1>4, <1>5, MinExists, Zenon
<1>7. PICK d \in 0 .. Len(text) - n : /\ d = Min(S) /\ m[(p + n) + d] \notin Range(delim)
                                      /\ \A j \in S : d <= j
  BY <1>6, Zenon
<1>8. PICK k \in n .. Len(text) : k = n + d
  BY <1>1
<1>9. \A j \in n .. k - 1 : text[j + 1] \in Range(delim)
  <2>. SUFFICES ASSUME NEW j \in n .. k - 1 PROVE text[j + 1] \in Range(delim)
    OBVIOUS
  <2>1. j - n \in 0 .. Len(text) - n - 1 /\ j - n \in 0 .. Len(text) - n /\ j - n < d /\ n + (j - n) = j
    BY <1>1, <1>8
  <2>2. j - n \notin S
    <3>. HIDE DEF S
    <3>. QED
      BY <1>7, <2>1
  <2>3. m[(p + n) + (j - n)] \in Range(delim)
    BY <2>1, <2>2
  <2>. QED
    BY <1>3, <2>1, <2>3
<1>10. k < Len(text) => text[k + 1] \notin Range(delim)
  <2>. SUFFICES ASSUME k < Len(text) PROVE text[k + 1] \notin Range(delim)
    OBVIOUS
  <2>1. d \in 0 .. Len(text) - n - 1
    BY <1>1, <1>8
  <2>. QED
    BY <1>3, <1>7, <1>8, <2>1
<1>11. Min(S) = k - n
  <2>. HIDE DEF S
  <2>. QED
    BY <1>1, <1>7, <1>8
<1>. QED
  BY <1>2, <1>9, <1>10, <1>11, Zenon DEF SkipsTo

(* strcspn goes on to the next delimiter. *)
SpansTo(m, p, text, n, delim, k) ==
    /\ strcspn(m, p + n, delim) = k - n
    /\ \A j \in n .. k - 1 : text[j + 1] \notin Range(delim)
    /\ k < Len(text) => text[k + 1] \in Range(delim)
LEMMA SpanIs ==
    ASSUME Room \in Nat, NEW m, NEW p \in Nat, NEW text \in Seq(1 .. 255), NEW n \in 0 .. Len(text),
           Kept(m, p, text, n), p + Len(text) < 2 * Room, NEW delim \in Delimiters
    PROVE  \E k \in n .. Len(text) : SpansTo(m, p, text, n, delim, k)
<1>. DEFINE S == {j \in 0 .. Len(text) - n : m[(p + n) + j] \in Range(delim) \cup {0}}
<1>1. Len(text) \in Nat /\ \A i \in 1 .. Len(text) : text[i] # 0
  <2>1. \A i \in 1 .. Len(text) : text[i] \in 1 .. 255
    BY ElementOfSeq, Zenon
  <2>2. \A x \in 1 .. 255 : x # 0
    OBVIOUS
  <2>3. Len(text) \in Nat
    OBVIOUS
  <2>. QED
    BY <2>1, <2>2, <2>3, Zenon
<1>2. strcspn(m, p + n, delim) = Min(S)
  BY LengthOfRest DEF strcspn
<1>3. \A j \in 0 .. Len(text) - n - 1 : m[(p + n) + j] = text[(n + j) + 1]
  <2>1. \A j \in 0 .. Len(text) - n - 1 : n + j \in n .. Len(text) - 1 /\ (p + n) + j = p + (n + j)
    BY <1>1
  <2>. QED
    BY <2>1 DEF Kept
<1>4. Len(text) - n \in S
  <2>1. Len(text) - n \in 0 .. Len(text) - n /\ (p + n) + (Len(text) - n) = p + Len(text)
    BY <1>1
  <2>. QED
    BY <2>1 DEF Kept
<1>5. S \subseteq Nat
  OBVIOUS
<1>6. Min(S) \in S /\ \A j \in S : Min(S) <= j
  <2>. HIDE DEF S
  <2>. QED
    BY <1>4, <1>5, MinExists, Zenon
<1>7. PICK d \in 0 .. Len(text) - n : /\ d = Min(S) /\ m[(p + n) + d] \in Range(delim) \cup {0}
                                      /\ \A j \in S : d <= j
  BY <1>6, Zenon
<1>8. PICK k \in n .. Len(text) : k = n + d
  BY <1>1
<1>9. \A j \in n .. k - 1 : text[j + 1] \notin Range(delim)
  <2>. SUFFICES ASSUME NEW j \in n .. k - 1 PROVE text[j + 1] \notin Range(delim)
    OBVIOUS
  <2>1. j - n \in 0 .. Len(text) - n - 1 /\ j - n \in 0 .. Len(text) - n /\ j - n < d /\ n + (j - n) = j
    BY <1>1, <1>8
  <2>2. j - n \notin S
    <3>. HIDE DEF S
    <3>. QED
      BY <1>7, <2>1
  <2>3. m[(p + n) + (j - n)] \notin Range(delim)
    BY <2>1, <2>2
  <2>. QED
    BY <1>3, <2>1, <2>3
<1>10. k < Len(text) => text[k + 1] \in Range(delim)
  <2>. SUFFICES ASSUME k < Len(text) PROVE text[k + 1] \in Range(delim)
    OBVIOUS
  <2>1. d \in 0 .. Len(text) - n - 1 /\ k + 1 \in 1 .. Len(text)
    BY <1>1, <1>8
  <2>2. m[(p + n) + d] = text[k + 1]
    BY <1>3, <1>8, <2>1
  <2>. QED
    BY <1>1, <1>7, <2>1, <2>2
<1>11. Min(S) = k - n
  <2>. HIDE DEF S
  <2>. QED
    BY <1>1, <1>7, <1>8
<1>. QED
  BY <1>2, <1>9, <1>10, <1>11, Zenon DEF SpansTo

(* The places where the words of a text begin. *)
Starts(text, delim) == {i \in DOMAIN text : InWord(text, delim, i) /\ ~InWord(text, delim, i - 1)}

(* Where the word that was taken before the n-th began. *)
BegunBefore(given, p, text, n) ==
    IF n = 1 THEN 0
    ELSE IF given[n - 1] = Null THEN Len(text) ELSE given[n - 1] - p + 1

(* The n-th of the tokens is the first word behind the one before, and it  *)
(* is still in the memory, of which the first q characters were split.     *)
TokenIsWord(m, p, text, delim, b, q) ==
    /\ EndOf(text, delim, b) \in b .. q
    /\ \A j \in b .. EndOf(text, delim, b) : m[p + (j - 1)] = text[j]
    /\ m[p + EndOf(text, delim, b)] = 0
FirstBehind(text, delim, begun, b) ==
    /\ b \in Starts(text, delim) /\ begun < b
    /\ \A v \in Starts(text, delim) : begun < v => b <= v
TokenIs(m, p, text, delim, given, q, n) ==
    /\ given[n] = Null =>
          \A b \in Starts(text, delim) : ~(BegunBefore(given, p, text, n) < b)
    /\ given[n] # Null =>
          /\ FirstBehind(text, delim, BegunBefore(given, p, text, n), given[n] - p + 1)
          /\ TokenIsWord(m, p, text, delim, given[n] - p + 1, q)

(* The words that begin behind the last token are those behind the first q *)
(* characters, where the memory is still the text.                         *)
SplitUpTo(m, p, text, delim, given, q) ==
    /\ q \in 0 .. Len(text) /\ Kept(m, p, text, q)
    /\ q < Len(text) => ~InWord(text, delim, q)
    /\ \A b \in Starts(text, delim) :
          BegunBefore(given, p, text, Len(given) + 1) < b <=> q < b
    /\ \A n \in 1 .. Len(given) : TokenIs(m, p, text, delim, given, q, n)

LEMMA WordIsKept ==
    ASSUME NEW m, NEW l, NEW p \in Nat, NEW text \in Seq(1 .. 255), NEW delim,
           NEW q \in 0 .. Len(text), NEW r \in q .. Len(text),
           \A j \in 0 .. q : l[p + j] = m[p + j],
           NEW b \in Starts(text, delim), TokenIsWord(m, p, text, delim, b, q)
    PROVE  TokenIsWord(l, p, text, delim, b, r)
<1>1. PICK e : e = EndOf(text, delim, b)
  OBVIOUS
<1>2. b \in 1 .. Len(text) /\ Len(text) \in Nat
  <2>1. b \in DOMAIN text
    BY DEF Starts
  <2>. QED
    BY <2>1
<1>3. e \in b .. q /\ (\A j \in b .. e : m[p + (j - 1)] = text[j]) /\ m[p + e] = 0
  BY <1>1, Zenon DEF TokenIsWord
<1>4. e \in b .. r /\ e \in 0 .. q /\ \A j \in b .. e : j - 1 \in 0 .. q
  BY <1>2, <1>3
<1>5. e \in b .. r /\ (\A j \in b .. e : l[p + (j - 1)] = text[j]) /\ l[p + e] = 0
  BY <1>3, <1>4
<1>. QED
  BY <1>1, <1>5, Zenon DEF TokenIsWord

LEMMA EarlierTokens ==
    ASSUME NEW m, NEW l, NEW p \in Nat, NEW text \in Seq(1 .. 255), NEW delim, NEW x \in Int,
           NEW given \in Seq(Int), NEW q \in 0 .. Len(text), NEW r \in q .. Len(text),
           \A j \in 0 .. q : l[p + j] = m[p + j],
           \A n \in 1 .. Len(given) : TokenIs(m, p, text, delim, given, q, n)
    PROVE  \A n \in 1 .. Len(given) : TokenIs(l, p, text, delim, Append(given, x), r, n)
<1>. SUFFICES ASSUME NEW n \in 1 .. Len(given)
              PROVE  TokenIs(l, p, text, delim, Append(given, x), r, n)
  OBVIOUS
<1>1. Len(given) \in Nat /\ Len(text) \in Nat
  OBVIOUS
<1>2. \A i \in 1 .. Len(given) : Append(given, x)[i] = given[i] /\ given[i] \in Int
  OBVIOUS
<1>3. Append(given, x)[n] = given[n]
  BY <1>2
<1>4. BegunBefore(Append(given, x), p, text, n) = BegunBefore(given, p, text, n)
  <2>1. CASE n = 1
    BY <2>1 DEF BegunBefore
  <2>2. CASE n # 1
    <3>1. n - 1 \in 1 .. Len(given)
      BY <1>1, <2>2
    <3>2. Append(given, x)[n - 1] = given[n - 1]
      BY <1>2, <3>1
    <3>. QED
      BY <3>2, Zenon DEF BegunBefore
  <2>. QED
    BY <2>1, <2>2
<1>5. TokenIs(m, p, text, delim, given, q, n)
  OBVIOUS
<1>6. ASSUME NEW b \in Starts(text, delim), TokenIsWord(m, p, text, delim, b, q)
      PROVE  TokenIsWord(l, p, text, delim, b, r)
  BY <1>6, WordIsKept
<1>. QED
  BY <1>3, <1>4, <1>5, <1>6, Zenon DEF TokenIs, FirstBehind

(* Between the places where one word and the next begin. *)
LEMMA NextStart ==
    ASSUME NEW text \in Seq(1 .. 255), NEW delim, NEW q \in 0 .. Len(text), NEW k \in q .. Len(text),
           \A j \in q .. k - 1 : text[j + 1] \in Range(delim)
    PROVE  \A b \in Starts(text, delim) : q < b => k < b
<1>. SUFFICES ASSUME NEW b \in Starts(text, delim), q < b, ~(k < b) PROVE FALSE
  OBVIOUS
<1>1. b \in 1 .. Len(text) /\ text[b] \notin Range(delim)
  <2>1. b \in DOMAIN text /\ text[b] \notin Range(delim)
    BY DEF Starts, InWord
  <2>. QED
    BY <2>1
<1>2. b - 1 \in q .. k - 1 /\ (b - 1) + 1 = b
  BY <1>1
<1>3. text[b] \in Range(delim)
  BY <1>2
<1>. QED
  BY <1>1, <1>3

LEMMA NoStartWithin ==
    ASSUME NEW text \in Seq(1 .. 255), NEW delim, NEW k \in 0 .. Len(text), NEW e \in k + 1 .. Len(text),
           \A j \in k .. e - 1 : text[j + 1] \notin Range(delim),
           e < Len(text) => text[e + 1] \in Range(delim)
    PROVE  \A b \in Starts(text, delim) : k + 1 < b => e + 1 < b /\ e < Len(text)
<1>. SUFFICES ASSUME NEW b \in Starts(text, delim), k + 1 < b PROVE e + 1 < b /\ e < Len(text)
  OBVIOUS
<1>1. /\ b \in 1 .. Len(text) /\ text[b] \notin Range(delim)
      /\ b - 1 \in 1 .. Len(text) => text[b - 1] \in Range(delim)
  <2>1. b \in DOMAIN text /\ text[b] \notin Range(delim)
        /\ ~(b - 1 \in DOMAIN text /\ text[b - 1] \notin Range(delim))
    BY DEF Starts, InWord
  <2>. QED
    BY <2>1
<1>2. e < b
  <2>. SUFFICES ASSUME b <= e PROVE FALSE
    BY <1>1
  <2>1. b - 1 \in 1 .. Len(text) /\ b - 2 \in k .. e - 1 /\ (b - 2) + 1 = b - 1
    BY <1>1
  <2>2. text[b - 1] \notin Range(delim)
    BY <2>1
  <2>. QED
    BY <1>1, <2>1, <2>2
<1>3. e < Len(text)
  BY <1>1, <1>2
<1>4. e + 1 # b
  BY <1>1, <1>3
<1>. QED
  BY <1>1, <1>2, <1>3, <1>4

LEMMA EndIs ==
    ASSUME NEW text \in Seq(1 .. 255), NEW delim, NEW k \in 0 .. Len(text), NEW e \in k + 1 .. Len(text),
           \A j \in k .. e - 1 : text[j + 1] \notin Range(delim),
           e < Len(text) => text[e + 1] \in Range(delim)
    PROVE  EndOf(text, delim, k + 1) = e
<1>. DEFINE S == {x \in k + 1 .. Len(text) : ~InWord(text, delim, x + 1)}
<1>1. Len(text) \in Nat /\ DOMAIN text = 1 .. Len(text)
  OBVIOUS
<1>2. e \in S
  BY <1>1 DEF InWord
<1>3. ASSUME NEW x \in S PROVE e <= x
  <2>. SUFFICES ASSUME x < e PROVE FALSE
    BY <1>1
  <2>1. x \in k .. e - 1 /\ x + 1 \in 1 .. Len(text)
    BY <1>1
  <2>. QED
    BY <1>1, <2>1 DEF InWord
<1>4. S \subseteq Int
  OBVIOUS
<1>5. Min(S) = e
  <2>. HIDE DEF S
  <2>. QED
    BY <1>2, <1>3, <1>4, MinIs
<1>. QED
  BY <1>5 DEF EndOf

(* Behind the first q characters only delimiters come before the k-th, and *)
(* none from there up to the e-th.                                         *)
NextWord(text, delim, q, k, e) ==
    /\ k \in q .. Len(text) /\ k < Len(text) /\ e \in k + 1 .. Len(text)
    /\ \A j \in q .. k - 1 : text[j + 1] \in Range(delim)
    /\ text[k + 1] \notin Range(delim)
    /\ \A j \in k .. e - 1 : text[j + 1] \notin Range(delim)
    /\ e < Len(text) => text[e + 1] \in Range(delim)

(* There a word starts, the first behind the first q characters; it ends   *)
(* behind the e-th character, and the next one starts still further on.    *)
LEMMA NextWordIs ==
    ASSUME NEW text \in Seq(1 .. 255), NEW delim, NEW q \in 0 .. Len(text), NEW k, NEW e,
           q < Len(text) => ~InWord(text, delim, q), NextWord(text, delim, q, k, e)
    PROVE  /\ k + 1 \in Starts(text, delim) /\ EndOf(text, delim, k + 1) = e
           /\ \A b \in Starts(text, delim) : q < b => k < b
           /\ \A b \in Starts(text, delim) : k + 1 < b => e + 1 < b /\ e < Len(text)
<1>1. DOMAIN text = 1 .. Len(text) /\ Len(text) \in Nat
  OBVIOUS
<1>2. /\ k \in q .. Len(text) /\ k < Len(text) /\ e \in k + 1 .. Len(text)
      /\ text[k + 1] \notin Range(delim)
  BY Zenon DEF NextWord
<1>3. \A j \in q .. k - 1 : text[j + 1] \in Range(delim)
  BY Zenon DEF NextWord
<1>4. /\ \A j \in k .. e - 1 : text[j + 1] \notin Range(delim)
      /\ e < Len(text) => text[e + 1] \in Range(delim)
  BY Zenon DEF NextWord
<1>5. k \in 0 .. Len(text) /\ k + 1 \in 1 .. Len(text) /\ (k + 1) - 1 = k
  BY <1>1, <1>2
<1>6. ~InWord(text, delim, k)
  <2>1. CASE q = k
    BY <1>2, <2>1, Zenon
  <2>2. CASE q # k
    <3>1. k - 1 \in q .. k - 1 /\ (k - 1) + 1 = k
      BY <1>1, <1>2, <2>2
    <3>2. text[k] \in Range(delim)
      BY <1>3, <3>1
    <3>. QED
      BY <3>2 DEF InWord
  <2>. QED
    BY <2>1, <2>2
<1>7. k + 1 \in Starts(text, delim)
  BY <1>1, <1>2, <1>5, <1>6 DEF Starts, InWord
<1>8. EndOf(text, delim, k + 1) = e
  BY <1>2, <1>4, <1>5, EndIs, Zenon
<1>9. \A b \in Starts(text, delim) : q < b => k < b
  BY <1>2, <1>3, NextStart, Zenon
<1>10. \A b \in Starts(text, delim) : k + 1 < b => e + 1 < b /\ e < Len(text)
  BY <1>2, <1>4, <1>5, NoStartWithin, Zenon
<1>. QED
  BY <1>7, <1>8, <1>9, <1>10, Zenon

LEMMA AppendedIs ==
    ASSUME NEW given \in Seq(Int), NEW x \in Int
    PROVE  /\ Len(Append(given, x)) = Len(given) + 1 /\ Len(given) \in Nat
           /\ Append(given, x)[Len(given) + 1] = x
           /\ Append(given, x) \in Seq(Int) /\ Append(given, x) # <<>>
<1>1. /\ Len(Append(given, x)) = Len(given) + 1 /\ Len(given) \in Nat
      /\ Append(given, x)[Len(given) + 1] = x
      /\ Append(given, x) \in Seq(Int)
  OBVIOUS
<1>2. Append(given, x) # <<>>
  <2>1. Len(<<>>) = 0 /\ Len(given) + 1 # 0
    BY <1>1
  <2>. QED
    BY <1>1, <2>1
<1>. QED
  BY <1>1, <1>2, Zenon

LEMMA BegunIsKept ==
    ASSUME NEW given \in Seq(Int), NEW x \in Int, NEW p, NEW text
    PROVE  BegunBefore(Append(given, x), p, text, Len(given) + 1)
           = BegunBefore(given, p, text, Len(given) + 1)
<1>1. Len(given) \in Nat /\ \A i \in 1 .. Len(given) : Append(given, x)[i] = given[i]
  OBVIOUS
<1>2. CASE Len(given) + 1 = 1
  BY <1>2 DEF BegunBefore
<1>3. CASE Len(given) + 1 # 1
  <2>1. (Len(given) + 1) - 1 \in 1 .. Len(given)
    BY <1>1, <1>3
  <2>. QED
    BY <1>1, <2>1, Zenon DEF BegunBefore
<1>. QED
  BY <1>2, <1>3

LEMMA BegunAtToken ==
    ASSUME NEW given \in Seq(Int), NEW x \in Int, x # Null, NEW p, NEW text
    PROVE  BegunBefore(Append(given, x), p, text, Len(Append(given, x)) + 1) = x - p + 1
<1>1. /\ Len(Append(given, x)) = Len(given) + 1 /\ Len(given) \in Nat
      /\ Append(given, x)[Len(given) + 1] = x
  BY AppendedIs, Zenon
<1>2. (Len(given) + 1) + 1 # 1 /\ ((Len(given) + 1) + 1) - 1 = Len(given) + 1
  BY <1>1
<1>. QED
  BY <1>1, <1>2, Zenon DEF BegunBefore

LEMMA BegunAtEnd ==
    ASSUME NEW given \in Seq(Int), NEW p, NEW text
    PROVE  BegunBefore(Append(given, Null), p, text, Len(Append(given, Null)) + 1) = Len(text)
<1>1. /\ Len(Append(given, Null)) = Len(given) + 1 /\ Len(given) \in Nat
      /\ Append(given, Null)[Len(given) + 1] = Null
  <2>1. Null \in Int
    BY DEF Null
  <2>. QED
    BY <2>1, AppendedIs, Zenon
<1>2. (Len(given) + 1) + 1 # 1 /\ ((Len(given) + 1) + 1) - 1 = Len(given) + 1
  BY <1>1
<1>. QED
  BY <1>1, <1>2, Zenon DEF BegunBefore

(* There is no more token, and strtok_r stays at the end of the string. *)
LEMMA NoMoreTokens ==
    ASSUME NEW m, NEW p \in Nat, NEW text \in Seq(1 .. 255), NEW delim, NEW given \in Seq(Int),
           NEW q, SplitUpTo(m, p, text, delim, given, q),
           \A j \in q .. Len(text) - 1 : text[j + 1] \in Range(delim)
    PROVE  SplitUpTo(m, p, text, delim, Append(given, Null), Len(text))
<1>1. /\ q \in 0 .. Len(text) /\ Kept(m, p, text, q) /\ Len(text) \in q .. Len(text)
      /\ Len(text) \in Nat
  BY DEF SplitUpTo
<1>2. \A b \in Starts(text, delim) : ~(q < b)
  <2>1. \A b \in Starts(text, delim) : b \in DOMAIN text
    BY DEF Starts
  <2>2. \A b \in Starts(text, delim) : b \in 1 .. Len(text)
    BY <2>1
  <2>. QED
    <3>1. \A b \in Starts(text, delim) : q < b => Len(text) < b
      BY <1>1, NextStart, Zenon
    <3>. QED
      BY <1>1, <2>2, <3>1
<1>3. Null \in Int
  BY DEF Null
<1>4. Kept(m, p, text, Len(text))
  BY <1>1 DEF Kept
<1>5. \A n \in 1 .. Len(given) :
          TokenIs(m, p, text, delim, Append(given, Null), Len(text), n)
  BY <1>1, <1>3, EarlierTokens DEF SplitUpTo
<1>6. TokenIs(m, p, text, delim, Append(given, Null), Len(text), Len(given) + 1)
  <2>1. Append(given, Null)[Len(given) + 1] = Null
    BY <1>3, AppendedIs, Zenon
  <2>2. BegunBefore(Append(given, Null), p, text, Len(given) + 1)
        = BegunBefore(given, p, text, Len(given) + 1)
    BY <1>3, BegunIsKept, Zenon
  <2>. QED
    BY <1>2, <2>1, <2>2, Zenon DEF TokenIs, SplitUpTo
<1>7. \A n \in 1 .. Len(given) + 1 :
          TokenIs(m, p, text, delim, Append(given, Null), Len(text), n)
  BY <1>5, <1>6
<1>8. BegunBefore(Append(given, Null), p, text, Len(Append(given, Null)) + 1) = Len(text)
  BY BegunAtEnd, Zenon
<1>9. Len(Append(given, Null)) = Len(given) + 1
  BY <1>3, AppendedIs, Zenon
<1>10. \A b \in Starts(text, delim) : ~(Len(text) < b)
  <2>1. \A b \in Starts(text, delim) : b \in DOMAIN text
    BY DEF Starts
  <2>2. \A b \in Starts(text, delim) : b \in 1 .. Len(text)
    BY <2>1
  <2>. QED
    BY <1>1, <2>2
<1>11. Len(text) \in 0 .. Len(text) /\ ~(Len(text) < Len(text))
  BY <1>1
<1>. QED
  BY <1>4, <1>7, <1>8, <1>9, <1>10, <1>11, Zenon DEF SplitUpTo

(* The next token is the next word, when behind it there is a 0.               *)
LEMMA OneMoreToken ==
    ASSUME NEW m, NEW l, NEW p \in Nat, NEW text \in Seq(1 .. 255), NEW delim,
           NEW given \in Seq(Int), NEW q, SplitUpTo(m, p, text, delim, given, q),
           NEW k, NEW e, NextWord(text, delim, q, k, e),
           \A j \in 0 .. Len(text) : l[p + j] = IF j = e THEN 0 ELSE m[p + j],
           NEW r, r = IF e = Len(text) THEN e ELSE e + 1
    PROVE  SplitUpTo(l, p, text, delim, Append(given, p + k), r)
<1>. SUFFICES ASSUME k \in q .. Len(text), k < Len(text), e \in k + 1 .. Len(text),
                     \A j \in q .. k - 1 : text[j + 1] \in Range(delim),
                     text[k + 1] \notin Range(delim),
                     \A j \in k .. e - 1 : text[j + 1] \notin Range(delim),
                     e < Len(text) => text[e + 1] \in Range(delim)
              PROVE  SplitUpTo(l, p, text, delim, Append(given, p + k), r)
  BY Zenon DEF NextWord
<1>1. /\ q \in 0 .. Len(text) /\ Kept(m, p, text, q) /\ Len(text) \in Nat
      /\ p + k \in Int /\ p + k # Null /\ (p + k) - p + 1 = k + 1
      /\ r \in q .. Len(text) /\ r \in 0 .. Len(text) /\ k \in 0 .. Len(text)
  BY DEF SplitUpTo, Null
<1>2. /\ k + 1 \in Starts(text, delim) /\ EndOf(text, delim, k + 1) = e
      /\ \A b \in Starts(text, delim) : q < b => k < b
      /\ \A b \in Starts(text, delim) : k + 1 < b => e + 1 < b /\ e < Len(text)
  <2>1. q < Len(text) => ~InWord(text, delim, q)
    BY Zenon DEF SplitUpTo
  <2>. QED
    BY <1>1, <2>1, NextWordIs, Zenon
<1>3. \A b \in Starts(text, delim) : b \in 1 .. Len(text)
  <2>1. \A b \in Starts(text, delim) : b \in DOMAIN text
    BY DEF Starts
  <2>. QED
    BY <2>1
<1>4. \A b \in Starts(text, delim) : q < b => k + 1 <= b
  BY <1>1, <1>2, <1>3
<1>5. \A b \in Starts(text, delim) : k + 1 < b <=> r < b
  BY <1>1, <1>2, <1>3
<1>6. EndOf(text, delim, k + 1) = e
  BY <1>2
<1>7. Kept(l, p, text, r)
  <2>1. \A j \in r .. Len(text) - 1 : l[p + j] = text[j + 1]
    <3>1. \A j \in r .. Len(text) - 1 : j \in 0 .. Len(text) /\ j # e /\ j \in q .. Len(text) - 1
      BY <1>1
    <3>. QED
      BY <1>1, <3>1 DEF Kept
  <2>2. l[p + Len(text)] = 0
    BY <1>1 DEF Kept
  <2>. QED
    BY <2>1, <2>2 DEF Kept
<1>8. r < Len(text) => ~InWord(text, delim, r)
  BY <1>1 DEF InWord
<1>9. \A n \in 1 .. Len(given) : TokenIs(l, p, text, delim, Append(given, p + k), r, n)
  <2>1. \A j \in 0 .. q : l[p + j] = m[p + j]
    <3>1. \A j \in 0 .. q : j \in 0 .. Len(text) /\ j # e
      BY <1>1
    <3>. QED
      BY <3>1, Zenon
  <2>2. \A n \in 1 .. Len(given) : TokenIs(m, p, text, delim, given, q, n)
    BY Zenon DEF SplitUpTo
  <2>. QED
    BY <1>1, <2>1, <2>2, EarlierTokens, Zenon
<1>10. FirstBehind(text, delim, BegunBefore(given, p, text, Len(given) + 1), k + 1)
  <2>1. \A b \in Starts(text, delim) :
            BegunBefore(given, p, text, Len(given) + 1) < b <=> q < b
    BY Zenon DEF SplitUpTo
  <2>2. q < k + 1
    BY <1>1
  <2>. QED
    BY <1>2, <1>4, <2>1, <2>2, Zenon DEF FirstBehind
<1>11. TokenIsWord(l, p, text, delim, k + 1, r)
  <2>1. e \in k + 1 .. r
    BY <1>1
  <2>2. l[p + e] = 0
    BY <1>1
  <2>3. \A j \in k + 1 .. e : l[p + (j - 1)] = text[j]
    <3>1. \A j \in k + 1 .. e : j - 1 \in 0 .. Len(text) /\ j - 1 # e
                                /\ j - 1 \in q .. Len(text) - 1 /\ (j - 1) + 1 = j
      BY <1>1
    <3>2. \A j \in q .. Len(text) - 1 : m[p + j] = text[j + 1]
      BY <1>1, Zenon DEF Kept
    <3>3. \A j \in k + 1 .. e : l[p + (j - 1)] = m[p + (j - 1)]
      BY <3>1, Zenon
    <3>4. \A j \in k + 1 .. e : m[p + (j - 1)] = text[(j - 1) + 1]
      BY <3>1, <3>2, Zenon
    <3>. QED
      BY <3>1, <3>3, <3>4, Zenon
  <2>. QED
    BY <1>6, <2>1, <2>2, <2>3 DEF TokenIsWord
<1>12. TokenIs(l, p, text, delim, Append(given, p + k), r, Len(given) + 1)
  <2>1. Append(given, p + k)[Len(given) + 1] = p + k
    BY <1>1, AppendedIs, Zenon
  <2>2. BegunBefore(Append(given, p + k), p, text, Len(given) + 1)
        = BegunBefore(given, p, text, Len(given) + 1)
    BY <1>1, BegunIsKept, Zenon
  <2>. QED
    BY <1>1, <1>10, <1>11, <2>1, <2>2, Zenon DEF TokenIs
<1>13. \A n \in 1 .. Len(given) + 1 : TokenIs(l, p, text, delim, Append(given, p + k), r, n)
  BY <1>9, <1>12
<1>14. BegunBefore(Append(given, p + k), p, text, Len(Append(given, p + k)) + 1) = k + 1
  <2>1. PICK x \in Int : x = p + k /\ x # Null /\ x - p + 1 = k + 1
    BY <1>1, Zenon
  <2>2. BegunBefore(Append(given, x), p, text, Len(Append(given, x)) + 1) = x - p + 1
    BY <2>1, BegunAtToken
  <2>. QED
    BY <2>1, <2>2, Zenon
<1>15. Len(Append(given, p + k)) = Len(given) + 1
  BY <1>1, AppendedIs, Zenon
<1>. QED
  BY <1>1, <1>5, <1>7, <1>8, <1>13, <1>14, <1>15, Zenon DEF SplitUpTo

(* What happens elsewhere in the memory does not matter. *)
LEMMA SplitIsKept ==
    ASSUME NEW m, NEW l, NEW p \in Nat, NEW text \in Seq(1 .. 255), NEW delim,
           NEW given, NEW q, SplitUpTo(m, p, text, delim, given, q),
           \A j \in 0 .. Len(text) : l[p + j] = m[p + j]
    PROVE  SplitUpTo(l, p, text, delim, given, q)
<1>1. /\ q \in 0 .. Len(text) /\ Kept(m, p, text, q) /\ Len(text) \in Nat
      /\ q \in q .. Len(text) /\ \A j \in 0 .. q : j \in 0 .. Len(text)
  BY DEF SplitUpTo
<1>2. Kept(l, p, text, q)
  <2>1. Len(text) \in 0 .. Len(text) /\ \A j \in q .. Len(text) - 1 : j \in 0 .. Len(text)
    BY <1>1
  <2>. QED
    BY <1>1, <2>1, Zenon DEF Kept
<1>3. \A j \in 0 .. q : l[p + j] = m[p + j]
  BY <1>1, Zenon
<1>4. \A b \in Starts(text, delim) :
          TokenIsWord(m, p, text, delim, b, q) => TokenIsWord(l, p, text, delim, b, q)
  BY <1>1, <1>3, WordIsKept, Zenon
<1>5. \A n : TokenIs(m, p, text, delim, given, q, n) => TokenIs(l, p, text, delim, given, q, n)
  BY <1>4, Zenon DEF TokenIs, FirstBehind
<1>. QED
  BY <1>2, <1>5, Zenon DEF SplitUpTo

(* What strtok_r has done with the strings. *)
TokenRecords == [delim : Delimiters \cup {<<>>}, out : Int, returned : Seq(Int)]
OutOf(out, p) == IF out = Null THEN 0 ELSE out - p
SplitSoFar(i) ==
    /\ tokens[i].returned = <<>> <=> tokens[i].out = Null
    /\ tokens[i].returned # <<>> => tokens[i].delim \in Delimiters
    /\ SplitUpTo(bytes, Start(i), loaded[i], tokens[i].delim, tokens[i].returned,
                 OutOf(tokens[i].out, Start(i)))
TokensInv ==
    job \in {"loaded", "splitting"} =>
        /\ TextsAre /\ tokens \in [1 .. 2 -> TokenRecords]
        /\ \A i \in 1 .. 2 : SplitSoFar(i)

(* A record of tokens for which nothing was returned allows any delimiters.*)
LEMMA NothingSplit ==
    ASSUME NEW m, NEW p \in Nat, NEW text \in Seq(1 .. 255), NEW delim, Kept(m, p, text, 0)
    PROVE  SplitUpTo(m, p, text, delim, <<>>, 0)
<1>1. Len(text) \in Nat /\ Len(<<>>) = 0 /\ 0 \in 0 .. Len(text) /\ 0 + 1 = 1
      /\ 1 .. Len(<<>>) = {} /\ 0 \notin 1 .. Len(text) /\ DOMAIN text = 1 .. Len(text)
  OBVIOUS
<1>2. BegunBefore(<<>>, p, text, Len(<<>>) + 1) = 0
  BY <1>1 DEF BegunBefore
<1>3. ~InWord(text, delim, 0)
  BY <1>1, Zenon DEF InWord
<1>. QED
  BY <1>1, <1>2, <1>3 DEF SplitUpTo

LEMMA StringsAre ==
    ASSUME NEW two \in [1 .. 2 -> Texts], NEW i \in 1 .. 2
    PROVE  /\ Start(i) \in Nat /\ two[i] \in Seq(1 .. 255) /\ Room \in Nat
           /\ Len(two[i]) \in Nat /\ Len(two[i]) < Room
           /\ Start(i) + Len(two[i]) < 2 * Room
           /\ \A j \in 0 .. Len(two[i]) : Start(i) + j \in Addresses
           /\ \A j \in 1 .. Len(two[i]) : two[i][j] # 0
<1>1. two[i] \in Texts
  OBVIOUS
<1>2. PICK text \in Texts : text = two[i]
  BY <1>1
<1>3. /\ text \in Seq(1 .. 255) /\ Len(text) \in Nat /\ Len(text) < Room
      /\ \A j \in 1 .. Len(text) : text[j] \in 1 .. 255
  BY TextIs, Zenon
<1>4. \A x \in 1 .. 255 : x # 0
  OBVIOUS
<1>5. \A j \in 1 .. Len(text) : text[j] # 0
  BY <1>3, <1>4, Zenon
<1>6. PICK n \in Nat : n = Len(text) /\ n < Room
  BY <1>3
<1>7. PICK p \in Nat : p = Start(i) /\ (p = 0 \/ p = Room)
  BY PlacesAre
<1>8. p + n < 2 * Room /\ \A j \in 0 .. n : p + j \in Addresses
  BY <1>6, <1>7, PlacesAre DEF Addresses
<1>. QED
  BY <1>2, <1>3, <1>5, <1>6, <1>7, <1>8, PlacesAre, Zenon

LEMMA LoadSplits == MemoryInv /\ TokensInv /\ Load => TokensInv'
<1>. SUFFICES ASSUME MemoryInv, Load PROVE TokensInv'
  OBVIOUS
<1>1. MemoryInv' /\ job' = "loaded"
  BY LoadKeeps DEF Load
<1>2. Laid' /\ TextsAre'
  BY <1>1 DEF MemoryInv, Laid
<1>3. tokens' = [i \in 1 .. 2 |-> [delim |-> <<>>, out |-> Null, returned |-> <<>>]]
  BY DEF Load
<1>4. \A i \in 1 .. 2 : tokens'[i].delim = <<>> /\ tokens'[i].out = Null /\ tokens'[i].returned = <<>>
  BY <1>3
<1>5. tokens' \in [1 .. 2 -> TokenRecords]
  <2>1. [delim |-> <<>>, out |-> Null, returned |-> <<>>] \in TokenRecords
    <3>1. Null \in Int /\ <<>> \in Seq(Int)
      BY DEF Null
    <3>. QED
      BY <3>1 DEF TokenRecords
  <2>. QED
    BY <1>3, <2>1
<1>6. ASSUME NEW i \in 1 .. 2 PROVE SplitSoFar(i)'
  <2>1. PICK text, p : text = loaded'[i] /\ p = Start(i)
    OBVIOUS
  <2>2. text \in Seq(1 .. 255) /\ p \in Nat /\ Len(text) \in Nat
    BY <1>2, <2>1, StringsAre DEF TextsAre
  <2>3. Holds(bytes', p, text)
    BY <1>2, <2>1 DEF Laid
  <2>4. Kept(bytes', p, text, 0)
    BY <2>3 DEF Kept, Holds
  <2>5. SplitUpTo(bytes', p, text, <<>>, <<>>, 0)
    BY <2>2, <2>4, NothingSplit
  <2>. QED
    BY <1>4, <2>1, <2>5, Zenon DEF SplitSoFar, OutOf
<1>. QED
  BY <1>1, <1>2, <1>5, <1>6 DEF TokensInv

(* A call of strtok_r for one of the strings. *)
LEMMA StrtokSplits ==
    ASSUME TextsAre, bytes \in [Addresses -> Int], tokens \in [1 .. 2 -> TokenRecords],
           NEW i \in 1 .. 2, SplitSoFar(i), NEW delim \in Delimiters,
           tokens[i].returned # <<>> => delim = tokens[i].delim,
           strtok_r(i, delim), UNCHANGED loaded
    PROVE  /\ SplitSoFar(i)' /\ tokens' \in [1 .. 2 -> TokenRecords]
           /\ \A j \in 1 .. 2 : j # i => tokens'[j] = tokens[j]
           /\ bytes' = bytes \/ \E j \in 0 .. Len(loaded[i]) : bytes' = [bytes EXCEPT ![Start(i) + j] = 0]
<1>1. PICK p, text, given, out, q :
          /\ p = Start(i) /\ text = loaded[i] /\ given = tokens[i].returned
          /\ out = tokens[i].out /\ q = OutOf(out, p)
  OBVIOUS
<1>2. /\ p \in Nat /\ text \in Seq(1 .. 255) /\ Room \in Nat /\ Len(text) \in Nat
      /\ p + Len(text) < 2 * Room /\ (\A j \in 0 .. Len(text) : p + j \in Addresses)
      /\ \A j \in 1 .. Len(text) : text[j] # 0
  BY <1>1, StringsAre DEF TextsAre
<1>3. tokens[i] \in TokenRecords /\ given \in Seq(Int) /\ out \in Int
  BY <1>1 DEF TokenRecords
<1>4. SplitUpTo(bytes, p, text, delim, given, q)
  <2>1. SplitUpTo(bytes, p, text, tokens[i].delim, given, q)
    BY <1>1, Zenon DEF SplitSoFar
  <2>2. CASE given # <<>>
    BY <1>1, <2>1, <2>2, Zenon
  <2>3. CASE given = <<>>
    <3>1. q = 0
      BY <1>1, <2>3, Zenon DEF SplitSoFar, OutOf
    <3>2. Kept(bytes, p, text, 0)
      BY <2>1, <3>1, Zenon DEF SplitUpTo
    <3>. QED
      BY <1>2, <2>3, <3>1, <3>2, NothingSplit
  <2>. QED
    BY <2>2, <2>3
<1>5. q \in 0 .. Len(text) /\ Kept(bytes, p, text, q)
  BY <1>4 DEF SplitUpTo
<1>6. (IF out = Null THEN p ELSE out) = p + q
  BY <1>1, <1>2, <1>3 DEF OutOf
<1>7. PICK k \in q .. Len(text) :
          /\ strspn(bytes, p + q, delim) = k - q
          /\ \A j \in q .. k - 1 : text[j + 1] \in Range(delim)
          /\ k < Len(text) => text[k + 1] \notin Range(delim)
  <2>1. PICK k \in q .. Len(text) : SkipsTo(bytes, p, text, q, delim, k)
    BY <1>2, <1>5, SkipIs, Zenon
  <2>. QED
    BY <2>1, Zenon DEF SkipsTo
<1>8. (p + q) + strspn(bytes, p + q, delim) = p + k /\ k \in 0 .. Len(text)
  BY <1>2, <1>5, <1>7
<1>9. bytes[p + k] = 0 <=> k = Len(text)
  <2>1. CASE k = Len(text)
    <3>1. bytes[p + Len(text)] = 0
      BY <1>5, Zenon DEF Kept
    <3>. QED
      BY <2>1, <3>1, Zenon
  <2>2. CASE k # Len(text)
    <3>1. k \in q .. Len(text) - 1 /\ k + 1 \in 1 .. Len(text)
      BY <1>2, <1>5, <2>2
    <3>. QED
      BY <1>2, <1>5, <2>2, <3>1 DEF Kept
  <2>. QED
    BY <2>1, <2>2
<1>. DEFINE t == [tokens[i] EXCEPT !.delim = delim]
            from == IF t.out = Null THEN Start(i) ELSE t.out
            token == from + strspn(bytes, from, t.delim)
            end == strpbrk(bytes, token, t.delim)
<1>10. IF bytes[token] = 0
       THEN /\ tokens' = [tokens EXCEPT ![i] =
                 [t EXCEPT !.out = token, !.returned = Append(@, Null)]]
            /\ UNCHANGED bytes
       ELSE /\ bytes' = IF end = Null THEN bytes ELSE [bytes EXCEPT ![end] = 0]
            /\ tokens' = [tokens EXCEPT ![i] =
                 [t EXCEPT !.out = IF end = Null THEN token + strlen(bytes, token) ELSE end + 1,
                           !.returned = Append(@, token)]]
  BY Zenon DEF strtok_r
<1>11. /\ t.out = out /\ t.delim = delim /\ t.returned = given
       /\ t \in TokenRecords
  BY <1>1, <1>3 DEF TokenRecords
<1>. HIDE DEF t
<1>12. from = p + q /\ token = p + k /\ end = strpbrk(bytes, p + k, delim)
  BY <1>1, <1>6, <1>8, <1>11, Zenon
<1>. HIDE DEF from, token, end
<1>13. /\ bytes[p + k] = 0 =>
             /\ tokens' = [tokens EXCEPT ![i] =
                   [t EXCEPT !.out = p + k, !.returned = Append(@, Null)]]
             /\ UNCHANGED bytes
       /\ bytes[p + k] # 0 =>
             /\ bytes' = IF end = Null THEN bytes ELSE [bytes EXCEPT ![end] = 0]
             /\ tokens' = [tokens EXCEPT ![i] =
                   [t EXCEPT !.out = IF end = Null THEN (p + k) + strlen(bytes, p + k) ELSE end + 1,
                             !.returned = Append(@, p + k)]]
  BY <1>10, <1>12, Zenon
<1>14. ASSUME NEW o \in Int, NEW x \in Int,
              tokens' = [tokens EXCEPT ![i] = [t EXCEPT !.out = o, !.returned = Append(@, x)]]
       PROVE  /\ tokens'[i].out = o /\ tokens'[i].returned = Append(given, x)
              /\ tokens'[i].delim = delim /\ tokens' \in [1 .. 2 -> TokenRecords]
              /\ tokens'[i].returned # <<>>
              /\ \A j \in 1 .. 2 : j # i => tokens'[j] = tokens[j]
  <2>1. Append(given, x) \in Seq(Int) /\ Append(given, x) # <<>>
    BY <1>3, AppendedIs, Zenon
  <2>2. PICK z : z = [t EXCEPT !.out = o, !.returned = Append(given, x)]
    OBVIOUS
  <2>3. /\ z \in TokenRecords /\ z.out = o /\ z.returned = Append(given, x) /\ z.delim = delim
    <3>1. PICK y \in Seq(Int) : y = Append(given, x)
      BY <2>1
    <3>2. z = [t EXCEPT !.out = o, !.returned = y]
      BY <2>2, <3>1, Zenon
    <3>3. z \in TokenRecords /\ z.out = o /\ z.returned = y /\ z.delim = delim
      BY <1>11, <3>2 DEF TokenRecords
    <3>. QED
      BY <3>1, <3>3, Zenon
  <2>4. tokens' = [tokens EXCEPT ![i] = z]
    BY <1>11, <1>14, <2>2, Zenon
  <2>. QED
    BY <2>1, <2>3, <2>4
<1>15. CASE k = Len(text)
  <2>1. /\ tokens' = [tokens EXCEPT ![i] = [t EXCEPT !.out = p + k, !.returned = Append(@, Null)]]
        /\ UNCHANGED bytes
    BY <1>9, <1>13, <1>15, Zenon
  <2>2. p + k \in Int /\ Null \in Int /\ p + k # Null /\ (p + k) - p = Len(text)
    BY <1>2, <1>8, <1>15 DEF Null
  <2>3. /\ tokens'[i].out = p + k /\ tokens'[i].returned = Append(given, Null)
        /\ tokens'[i].delim = delim /\ tokens' \in [1 .. 2 -> TokenRecords]
        /\ tokens'[i].returned # <<>> /\ \A j \in 1 .. 2 : j # i => tokens'[j] = tokens[j]
    BY <1>14, <2>1, <2>2, Zenon
  <2>4. SplitUpTo(bytes, p, text, delim, Append(given, Null), Len(text))
    BY <1>2, <1>3, <1>4, <1>7, <1>15, NoMoreTokens
  <2>5. SplitSoFar(i)'
    BY <1>1, <2>1, <2>2, <2>3, <2>4, Zenon DEF SplitSoFar, OutOf
  <2>. QED
    BY <2>1, <2>3, <2>5
<1>16. CASE k # Len(text)
  <2>1. k < Len(text) /\ text[k + 1] \notin Range(delim) /\ bytes[p + k] # 0
    BY <1>2, <1>7, <1>8, <1>9, <1>16
  <2>2. Kept(bytes, p, text, k)
    <3>1. \A j \in k .. Len(text) - 1 : j \in q .. Len(text) - 1
      BY <1>5, <1>7
    <3>. QED
      BY <1>5, <3>1, Zenon DEF Kept
  <2>3. PICK e \in k .. Len(text) :
            /\ strcspn(bytes, p + k, delim) = e - k
            /\ \A j \in k .. e - 1 : text[j + 1] \notin Range(delim)
            /\ e < Len(text) => text[e + 1] \in Range(delim)
    <3>1. PICK e \in k .. Len(text) : SpansTo(bytes, p, text, k, delim, e)
      BY <1>2, <1>8, <2>2, SpanIs, Zenon
    <3>. QED
      BY <3>1, Zenon DEF SpansTo
  <2>4. e \in k + 1 .. Len(text) /\ e \in 0 .. Len(text)
    BY <1>2, <1>8, <2>1, <2>3
  <2>5. (p + k) + strcspn(bytes, p + k, delim) = p + e
    BY <1>2, <1>8, <2>3, <2>4
  <2>6. bytes[p + e] = 0 <=> e = Len(text)
    <3>1. CASE e = Len(text)
      BY <1>5, <3>1 DEF Kept
    <3>2. CASE e # Len(text)
      <4>0. q \in Int /\ k \in Int /\ e \in Int /\ q <= k /\ k + 1 <= e /\ e < Len(text)
        BY <1>2, <1>5, <1>7, <2>4, <3>2
      <4>1. e \in q .. Len(text) - 1 /\ e + 1 \in 1 .. Len(text)
        BY <1>2, <1>5, <4>0
      <4>. QED
        BY <1>2, <1>5, <3>2, <4>1 DEF Kept
    <3>. QED
      BY <3>1, <3>2
  <2>7. end = IF e = Len(text) THEN Null ELSE p + e
    BY <1>12, <2>5, <2>6, Zenon DEF strpbrk
  <2>8. p + e # Null /\ p + e \in Int /\ p + k \in Int /\ (p + k) + (Len(text) - k) = p + Len(text)
    BY <1>2, <1>8, <2>4 DEF Null
  <2>9. strlen(bytes, p + k) = Len(text) - k
    BY <1>2, <1>8, <2>2, LengthOfRest
  <2>10. PICK r : r = IF e = Len(text) THEN e ELSE e + 1
    OBVIOUS
  <2>11. bytes' = IF e = Len(text) THEN bytes ELSE [bytes EXCEPT ![p + e] = 0]
    <3>. QED
      BY <1>13, <2>1, <2>7, <2>8, Zenon
  <2>12. tokens' = [tokens EXCEPT ![i] = [t EXCEPT !.out = p + r, !.returned = Append(@, p + k)]]
    <3>1. (IF end = Null THEN (p + k) + strlen(bytes, p + k) ELSE end + 1) = p + r
      <4>1. CASE e = Len(text)
        <5>1. end = Null /\ (p + k) + strlen(bytes, p + k) = p + Len(text) /\ r = Len(text)
          BY <2>7, <2>8, <2>9, <2>10, <4>1, Zenon
        <5>. QED
          BY <5>1, Zenon
      <4>2. CASE e # Len(text)
        <5>1. end = p + e /\ r = e + 1 /\ end # Null
          BY <2>7, <2>8, <2>10, <4>2, Zenon
        <5>2. (p + e) + 1 = p + (e + 1)
          BY <1>2, <2>4
        <5>. QED
          BY <5>1, <5>2, Zenon
      <4>. QED
        BY <4>1, <4>2, Zenon
    <3>. QED
      BY <1>13, <2>1, <3>1, Zenon
  <2>13. p + r \in Int /\ p + r # Null /\ (p + r) - p = r
    BY <1>2, <2>4, <2>10 DEF Null
  <2>14. /\ tokens'[i].out = p + r /\ tokens'[i].returned = Append(given, p + k)
         /\ tokens'[i].delim = delim /\ tokens' \in [1 .. 2 -> TokenRecords]
         /\ tokens'[i].returned # <<>> /\ \A j \in 1 .. 2 : j # i => tokens'[j] = tokens[j]
    BY <1>14, <2>8, <2>12, <2>13, Zenon
  <2>15. \A j \in 0 .. Len(text) : bytes'[p + j] = IF j = e THEN 0 ELSE bytes[p + j]
    <3>1. \A j \in 0 .. Len(text) : p + j \in Addresses /\ (p + j = p + e <=> j = e)
      <4>1. \A j \in 0 .. Len(text) : j \in Nat /\ e \in Nat
        BY <1>2, <2>4
      <4>2. \A j \in 0 .. Len(text) : p + j = p + e <=> j = e
        BY <1>2, <4>1
      <4>. QED
        BY <1>2, <4>2, Zenon
    <3>. QED
      BY <2>6, <2>11, <3>1
  <2>16. SplitUpTo(bytes', p, text, delim, Append(given, p + k), r)
    <3>1. NextWord(text, delim, q, k, e)
      BY <1>7, <2>1, <2>3, <2>4, Zenon DEF NextWord
    <3>. QED
      BY <1>2, <1>3, <1>4, <2>10, <2>15, <3>1, OneMoreToken, Zenon
  <2>17. SplitSoFar(i)'
    BY <1>1, <2>13, <2>14, <2>16, Zenon DEF SplitSoFar, OutOf
  <2>. QED
    BY <1>1, <2>4, <2>11, <2>14, <2>17
<1>. QED
  BY <1>15, <1>16

LEMMA TokenizeSplits ==
    ASSUME MemoryInv, TokensInv, NEW i \in 1 .. 2, Tokenize(i)
    PROVE  TokensInv'
<1>1. /\ job \in {"loaded", "splitting"} /\ job' = "splitting" /\ UNCHANGED loaded
      /\ TextsAre /\ tokens \in [1 .. 2 -> TokenRecords] /\ bytes \in [Addresses -> Int]
      /\ \A j \in 1 .. 2 : SplitSoFar(j)
  BY DEF Tokenize, TokensInv, MemoryInv
<1>2. PICK delim \in Delimiters :
          (tokens[i].returned # <<>> => delim = tokens[i].delim) /\ strtok_r(i, delim)
  BY Zenon DEF Tokenize
<1>3. /\ SplitSoFar(i)' /\ tokens' \in [1 .. 2 -> TokenRecords]
      /\ \A j \in 1 .. 2 : j # i => tokens'[j] = tokens[j]
      /\ bytes' = bytes \/ \E j \in 0 .. Len(loaded[i]) : bytes' = [bytes EXCEPT ![Start(i) + j] = 0]
  BY <1>1, <1>2, StrtokSplits, Zenon
<1>4. ASSUME NEW o \in 1 .. 2, o # i PROVE SplitSoFar(o)'
  <2>1. PICK p, text : p = Start(o) /\ text = loaded[o]
    OBVIOUS
  <2>2. /\ p \in Nat /\ text \in Seq(1 .. 255) /\ Len(text) \in Nat /\ Len(text) < Room
        /\ Room \in Nat /\ \A j \in 0 .. Len(text) : p + j \in Addresses
    BY <1>1, <2>1, StringsAre DEF TextsAre
  <2>3. Start(i) \in Nat /\ Len(loaded[i]) \in Nat /\ Len(loaded[i]) < Room
    BY <1>1, StringsAre DEF TextsAre
  <2>4. (p = 0 /\ Start(i) = Room) \/ (p = Room /\ Start(i) = 0)
    BY <1>4, <2>1, PlacesAre
  <2>5. \A j \in 0 .. Len(text) : bytes'[p + j] = bytes[p + j]
    <3>1. CASE bytes' = bytes
      BY <3>1
    <3>2. ASSUME NEW k \in 0 .. Len(loaded[i]), bytes' = [bytes EXCEPT ![Start(i) + k] = 0]
          PROVE  \A j \in 0 .. Len(text) : bytes'[p + j] = bytes[p + j]
      <4>1. \A j \in 0 .. Len(text) : p + j # Start(i) + k
        BY <2>2, <2>3, <2>4
      <4>. QED
        BY <1>1, <2>2, <3>2, <4>1
    <3>. QED
      BY <1>3, <3>1, <3>2
  <2>6. tokens'[o] = tokens[o] /\ SplitSoFar(o)
    BY <1>1, <1>3, <1>4
  <2>7. SplitUpTo(bytes, p, text, tokens[o].delim, tokens[o].returned, OutOf(tokens[o].out, p))
    BY <2>1, <2>6, Zenon DEF SplitSoFar
  <2>8. SplitUpTo(bytes', p, text, tokens[o].delim, tokens[o].returned, OutOf(tokens[o].out, p))
    BY <2>2, <2>5, <2>7, SplitIsKept
  <2>. QED
    BY <1>1, <2>1, <2>6, <2>8, Zenon DEF SplitSoFar
<1>. QED
  BY <1>1, <1>3, <1>4 DEF TokensInv, TextsAre

LEMMA TokensNext == MemoryInv /\ TokensInv /\ [StringsNext]_stringvars => TokensInv'
<1>. SUFFICES ASSUME MemoryInv, TokensInv, [StringsNext]_stringvars PROVE TokensInv'
  OBVIOUS
<1>1. CASE UNCHANGED stringvars
  BY <1>1 DEF stringvars, TokensInv, TextsAre, SplitSoFar
<1>2. ASSUME NEW dst \in 0 .. Room - 1, NEW src \in 0 .. Room - 1, NEW n \in 0 .. Room - 1,
             Move(dst, src, n)
      PROVE  TokensInv'
  BY <1>2 DEF Move, TokensInv
<1>3. ASSUME NEW i \in 1 .. 2, Tokenize(i) PROVE TokensInv'
  BY <1>3, TokenizeSplits
<1>4. CASE Load
  BY <1>4, LoadSplits
<1>5. CASE Discard \/ MoveByte \/ MoveEnds \/ Join \/ JoinByte \/ JoinEnds
  BY <1>5 DEF Discard, MoveByte, MoveEnds, Join, JoinByte, JoinEnds, TokensInv
<1>. QED
  BY <1>1, <1>2, <1>3, <1>4, <1>5 DEF StringsNext

(* What the invariant says of a string says what TokensAreWords does.      *)
LEMMA WordsAre ==
    ASSUME NEW text, NEW delim, NEW w \in Words(text, delim)
    PROVE  w[1] \in Starts(text, delim) /\ w = <<w[1], EndOf(text, delim, w[1])>>
<1>1. PICK b \in Starts(text, delim) : w = <<b, EndOf(text, delim, b)>>
  BY Zenon DEF Words, Starts
<1>. QED
  BY <1>1

LEMMA WordAtStart ==
    ASSUME NEW text, NEW delim, NEW b \in Starts(text, delim)
    PROVE  <<b, EndOf(text, delim, b)>> \in Words(text, delim)
BY Zenon DEF Words, Starts

LEMMA TokensAre == MemoryInv /\ TokensInv => TokensAreWords
<1>. SUFFICES ASSUME MemoryInv, TokensInv, job = "splitting",
                     NEW i \in 1 .. 2, NEW n \in DOMAIN tokens[i].returned
              PROVE
            LET At(k) == tokens[i].returned[k] - Start(i) + 1
                begun == IF n = 1 THEN 0
                         ELSE IF tokens[i].returned[n - 1] = Null THEN Len(loaded[i]) ELSE At(n - 1)
                behind == {w \in Words(loaded[i], tokens[i].delim) : w[1] > begun} IN
            IF tokens[i].returned[n] = Null THEN behind = {}
            ELSE \E w \in behind :
                    /\ w[1] = At(n) /\ \A v \in behind : w[1] <= v[1]
                    /\ StringAt(bytes, tokens[i].returned[n]) = SubSeq(loaded[i], w[1], w[2])
  BY Zenon DEF TokensAreWords
<1>1. PICK p, text, given, delim, q :
          /\ p = Start(i) /\ text = loaded[i] /\ given = tokens[i].returned
          /\ delim = tokens[i].delim /\ q = OutOf(tokens[i].out, p)
  OBVIOUS
<1>2. /\ p \in Nat /\ text \in Seq(1 .. 255) /\ Room \in Nat /\ Len(text) \in Nat
      /\ p + Len(text) < 2 * Room
  BY <1>1, StringsAre DEF TextsAre, TokensInv
<1>3. given \in Seq(Int) /\ n \in 1 .. Len(given)
  <2>1. tokens[i] \in TokenRecords
    BY DEF TokensInv
  <2>2. given \in Seq(Int) /\ n \in DOMAIN given
    BY <1>1, <2>1 DEF TokenRecords
  <2>. QED
    BY <2>2
<1>4. SplitUpTo(bytes, p, text, delim, given, q)
  BY <1>1, Zenon DEF TokensInv, SplitSoFar
<1>5. TokenIs(bytes, p, text, delim, given, q, n) /\ q \in 0 .. Len(text)
  BY <1>3, <1>4, Zenon DEF SplitUpTo
<1>. DEFINE begun == IF n = 1 THEN 0
                     ELSE IF given[n - 1] = Null THEN Len(text) ELSE given[n - 1] - p + 1
            behind == {w \in Words(text, delim) : w[1] > begun}
<1>6. begun = BegunBefore(given, p, text, n)
  BY DEF BegunBefore
<1>7. begun \in Int /\ \A b \in Starts(text, delim) : b \in Int
  <2>1. begun \in Int
    <3>1. n # 1 => given[n - 1] \in Int
      <4>1. n # 1 => n - 1 \in 1 .. Len(given)
        BY <1>3
      <4>. QED
        BY <1>3, <4>1
    <3>. QED
      BY <1>2, <3>1
  <2>2. \A b \in Starts(text, delim) : b \in DOMAIN text
    BY DEF Starts
  <2>. QED
    BY <1>2, <2>1, <2>2
<1>. HIDE DEF begun
<1>8. given[n] = Null => behind = {}
  <2>. SUFFICES ASSUME given[n] = Null, NEW w \in Words(text, delim), w[1] > begun PROVE FALSE
    OBVIOUS
  <2>1. w[1] \in Starts(text, delim)
    BY WordsAre
  <2>2. ~(begun < w[1])
    BY <1>5, <1>6, <2>1, Zenon DEF TokenIs
  <2>. QED
    BY <1>7, <2>1, <2>2
<1>9. ASSUME given[n] # Null
      PROVE  \E w \in behind :
                    /\ w[1] = given[n] - p + 1 /\ \A v \in behind : w[1] <= v[1]
                    /\ StringAt(bytes, given[n]) = SubSeq(text, w[1], w[2])
  <2>1. PICK b : b = given[n] - p + 1
    OBVIOUS
  <2>2. FirstBehind(text, delim, begun, b) /\ TokenIsWord(bytes, p, text, delim, b, q)
    BY <1>5, <1>6, <1>9, <2>1, Zenon DEF TokenIs
  <2>3. b \in Starts(text, delim) /\ begun < b /\ \A v \in Starts(text, delim) : begun < v => b <= v
    BY <2>2, Zenon DEF FirstBehind
  <2>4. PICK e : e = EndOf(text, delim, b)
    OBVIOUS
  <2>5. /\ e \in b .. q /\ (\A j \in b .. e : bytes[p + (j - 1)] = text[j]) /\ bytes[p + e] = 0
    BY <2>2, <2>4, Zenon DEF TokenIsWord
  <2>6. <<b, e>> \in behind
    <3>1. <<b, e>> \in Words(text, delim)
      BY <2>3, <2>4, WordAtStart, Zenon
    <3>2. b > begun
      BY <1>7, <2>3
    <3>. QED
      BY <3>1, <3>2
  <2>7. \A v \in behind : b <= v[1]
    <3>. SUFFICES ASSUME NEW v \in Words(text, delim), v[1] > begun PROVE b <= v[1]
      OBVIOUS
    <3>1. v[1] \in Starts(text, delim)
      BY WordsAre
    <3>. QED
      BY <1>7, <2>3, <3>1
  <2>8. b \in 1 .. Len(text) /\ e \in b .. Len(text) /\ given[n] \in Int /\ given[n] = p + (b - 1)
    <3>1. b \in DOMAIN text
      BY <2>3 DEF Starts
    <3>2. b \in 1 .. Len(text)
      BY <1>2, <3>1
    <3>3. given[n] \in Int
      BY <1>3
    <3>. QED
      <4>1. e \in b .. Len(text)
        BY <1>2, <1>5, <2>5, <3>2
      <4>2. PICK x \in Int : x = given[n]
        BY <3>3
      <4>3. x = p + (b - 1)
        BY <1>2, <2>1, <3>2, <4>2
      <4>. QED
        BY <3>2, <4>1, <4>2, <4>3
  <2>9. PICK word : word = SubSeq(text, b, e)
    OBVIOUS
  <2>10. /\ word \in Seq(1 .. 255) /\ Len(word) = e - b + 1
         /\ \A k \in 1 .. e - b + 1 : word[k] = text[b + k - 1]
    <3>1. b \in 1 .. Len(text) + 1 /\ e \in b - 1 .. Len(text) /\ b <= e
      BY <1>2, <2>8
    <3>. QED
      BY <1>2, <2>9, <3>1, PartOfText, Zenon
  <2>11. Holds(bytes, given[n], word)
    <3>1. (p + (b - 1)) + (e - b + 1) = p + e
      BY <1>2, <2>8
    <3>2. ASSUME NEW k \in 0 .. (e - b + 1) - 1 PROVE bytes[given[n] + k] = word[k + 1]
      <4>1. /\ k + 1 \in 1 .. e - b + 1 /\ b + (k + 1) - 1 = b + k /\ b + k \in b .. e
            /\ p + ((b + k) - 1) = (p + (b - 1)) + k
        <5>1. b \in Int /\ e \in Int /\ k \in Int /\ 0 <= k /\ k <= e - b
          BY <1>2, <2>8
        <5>2. /\ k + 1 \in 1 .. e - b + 1 /\ b + (k + 1) - 1 = b + k /\ b + k \in b .. e
          BY <5>1
        <5>3. p + ((b + k) - 1) = (p + (b - 1)) + k
          BY <1>2, <5>1
        <5>. QED
          BY <5>2, <5>3, Zenon
      <4>. QED
        BY <2>5, <2>8, <2>10, <4>1
    <3>. QED
      BY <2>5, <2>8, <2>10, <3>1, <3>2 DEF Holds
  <2>12. given[n] \in Nat /\ given[n] + Len(word) < 2 * Room
    BY <1>2, <2>8, <2>10
  <2>13. StringAt(bytes, given[n]) = word
    BY <1>2, <2>10, <2>11, <2>12, HeldIs
  <2>. QED
    BY <2>1, <2>6, <2>7, <2>9, <2>13
<1>. QED
  BY <1>1, <1>8, <1>9, Zenon DEF begun
-----------------------------------------------------------------------------
(* The searches *)

(* From place r on, the two texts agree as far as this. *)
Agreed(hay, needle, r) ==
    Min({n \in 0 .. Len(needle) :
            n = Len(needle) \/ r + n >= Len(hay) \/ hay[r + n + 1] # needle[n + 1]})
Over(hay, needle) ==
    Min({r \in 0 .. Len(hay) :
            Agreed(hay, needle, r) = Len(needle) \/ r + Agreed(hay, needle, r) >= Len(hay)})

AgreesAsFarAs(hay, needle, r, a) ==
    /\ a \in 0 .. Len(needle)
    /\ a = Len(needle) \/ r + a >= Len(hay) \/ hay[r + a + 1] # needle[a + 1]
    /\ \A n \in 0 .. a - 1 : r + n < Len(hay) /\ hay[r + n + 1] = needle[n + 1]

LEMMA AgreedIs ==
    ASSUME NEW hay, NEW needle, Len(hay) \in Nat, Len(needle) \in Nat, NEW r \in 0 .. Len(hay)
    PROVE  AgreesAsFarAs(hay, needle, r, Agreed(hay, needle, r))
<1>. DEFINE S == {n \in 0 .. Len(needle) :
                    n = Len(needle) \/ r + n >= Len(hay) \/ hay[r + n + 1] # needle[n + 1]}
<1>1. Len(needle) \in S /\ S \subseteq Nat
  OBVIOUS
<1>2. Min(S) \in S /\ \A n \in S : Min(S) <= n
  <2>. HIDE DEF S
  <2>. QED
    BY <1>1, MinExists, Zenon
<1>3. PICK a \in S : a = Agreed(hay, needle, r) /\ \A n \in S : a <= n
  BY <1>2, Zenon DEF Agreed
<1>4. \A n \in 0 .. a - 1 : r + n < Len(hay) /\ hay[r + n + 1] = needle[n + 1]
  <2>. SUFFICES ASSUME NEW n \in 0 .. a - 1 PROVE r + n < Len(hay) /\ hay[r + n + 1] = needle[n + 1]
    OBVIOUS
  <2>1. n \in 0 .. Len(needle) /\ ~(a <= n) /\ n # Len(needle)
    OBVIOUS
  <2>2. n \notin S
    <3>. HIDE DEF S
    <3>. QED
      BY <1>3, <2>1
  <2>. QED
    BY <2>1, <2>2
<1>5. /\ a \in 0 .. Len(needle)
      /\ a = Len(needle) \/ r + a >= Len(hay) \/ hay[r + a + 1] # needle[a + 1]
  OBVIOUS
<1>. QED
  BY <1>3, <1>4, <1>5, Zenon DEF AgreesAsFarAs

(* The places where the needle is in the hay are where they agree on all. *)
LEMMA PlaceIs ==
    ASSUME NEW hay \in Seq(1 .. 255), NEW needle \in Seq(1 .. 255), NEW r \in 0 .. Len(hay)
    PROVE  Agreed(hay, needle, r) = Len(needle)
           <=> r + Len(needle) <= Len(hay) /\ SubSeq(hay, r + 1, r + Len(needle)) = needle
<1>1. Len(hay) \in Nat /\ Len(needle) \in Nat
  OBVIOUS
<1>. DEFINE a0 == Agreed(hay, needle, r)
<1>4. AgreesAsFarAs(hay, needle, r, a0)
  BY <1>1, AgreedIs, Zenon
<1>5. /\ a0 \in 0 .. Len(needle)
      /\ a0 = Len(needle) \/ r + a0 >= Len(hay) \/ hay[r + a0 + 1] # needle[a0 + 1]
      /\ \A n \in 0 .. a0 - 1 : r + n < Len(hay) /\ hay[r + n + 1] = needle[n + 1]
  <2>. HIDE DEF a0
  <2>. QED
    BY <1>4, Zenon DEF AgreesAsFarAs
<1>2. ASSUME Agreed(hay, needle, r) = Len(needle)
      PROVE  r + Len(needle) <= Len(hay) /\ SubSeq(hay, r + 1, r + Len(needle)) = needle
  <2>1. \A n \in 0 .. Len(needle) - 1 : r + n < Len(hay) /\ hay[r + n + 1] = needle[n + 1]
    BY <1>2, <1>5, Zenon
  <2>2. r + Len(needle) <= Len(hay)
    <3>1. CASE Len(needle) = 0
      BY <1>1, <3>1
    <3>2. CASE Len(needle) # 0
      <4>1. Len(needle) - 1 \in 0 .. Len(needle) - 1
        BY <1>1, <3>2
      <4>2. r + (Len(needle) - 1) < Len(hay)
        BY <2>1, <4>1, Zenon
      <4>. QED
        BY <1>1, <4>2
    <3>. QED
      BY <3>1, <3>2
  <2>3. PICK part : part = SubSeq(hay, r + 1, r + Len(needle))
    OBVIOUS
  <2>4. /\ part \in Seq(1 .. 255) /\ Len(part) = Len(needle)
        /\ \A k \in 1 .. Len(needle) : part[k] = hay[(r + 1) + k - 1]
    <3>1. r + 1 \in 1 .. Len(hay) + 1 /\ r + Len(needle) \in (r + 1) - 1 .. Len(hay)
          /\ (r + Len(needle)) - (r + 1) + 1 = Len(needle)
      BY <1>1, <2>2
    <3>. QED
      BY <2>3, <3>1, PartOfText, Zenon
  <2>5. \A k \in 1 .. Len(needle) : part[k] = needle[k]
    <3>1. \A k \in 1 .. Len(needle) : k - 1 \in 0 .. Len(needle) - 1 /\ r + (k - 1) + 1 = (r + 1) + k - 1
                                      /\ (k - 1) + 1 = k
      BY <1>1
    <3>. QED
      BY <2>1, <2>4, <3>1, Zenon
  <2>6. part = needle
    BY <2>4, <2>5, SeqEqual
  <2>. QED
    BY <2>2, <2>3, <2>6
<1>3. ASSUME r + Len(needle) <= Len(hay), SubSeq(hay, r + 1, r + Len(needle)) = needle,
             Agreed(hay, needle, r) # Len(needle)
      PROVE  FALSE
  <2>1. PICK a \in 0 .. Len(needle) - 1 : r + a >= Len(hay) \/ hay[r + a + 1] # needle[a + 1]
    <3>1. PICK a \in 0 .. Len(needle) : /\ a = Agreed(hay, needle, r)
                                        /\ a = Len(needle) \/ r + a >= Len(hay) \/ hay[r + a + 1] # needle[a + 1]
      BY <1>5, Zenon
    <3>. QED
      BY <1>1, <1>3, <3>1
  <2>2. \A k \in 1 .. Len(needle) : needle[k] = hay[(r + 1) + k - 1]
    <3>1. r + 1 \in 1 .. Len(hay) + 1 /\ r + Len(needle) \in (r + 1) - 1 .. Len(hay)
          /\ (r + Len(needle)) - (r + 1) + 1 = Len(needle)
      BY <1>1, <1>3
    <3>2. \A k \in 1 .. Len(needle) : SubSeq(hay, r + 1, r + Len(needle))[k] = hay[(r + 1) + k - 1]
      BY <3>1, PartOfText, Zenon
    <3>. QED
      BY <1>3, <3>2, Zenon
  <2>3. a + 1 \in 1 .. Len(needle) /\ (r + 1) + (a + 1) - 1 = r + a + 1 /\ ~(r + a >= Len(hay))
    BY <1>1, <1>3, <2>1
  <2>4. needle[a + 1] = hay[r + a + 1]
    <3>1. needle[a + 1] = hay[(r + 1) + (a + 1) - 1]
      BY <2>2, <2>3, Zenon
    <3>. QED
      BY <2>3, <3>1, Zenon
  <2>. QED
    BY <2>1, <2>3, <2>4, Zenon
<1>. QED
  BY <1>2, <1>3

(* strstr finds the first place. *)
LEMMA StrstrIs ==
    ASSUME NEW hay \in Seq(1 .. 255), NEW needle \in Seq(1 .. 255)
    PROVE  LET places == {r \in 0 .. Len(hay) - Len(needle) :
                             SubSeq(hay, r + 1, r + Len(needle)) = needle} IN
           /\ Agreed(hay, needle, Over(hay, needle)) = Len(needle) =>
                 places # {} /\ Min(places) = Over(hay, needle)
           /\ Agreed(hay, needle, Over(hay, needle)) # Len(needle) => places = {}
<1>. DEFINE places == {r \in 0 .. Len(hay) - Len(needle) :
                          SubSeq(hay, r + 1, r + Len(needle)) = needle}
            S == {r \in 0 .. Len(hay) :
                     Agreed(hay, needle, r) = Len(needle) \/ r + Agreed(hay, needle, r) >= Len(hay)}
<1>1. Len(hay) \in Nat /\ Len(needle) \in Nat
  OBVIOUS
<1>2. \A r \in 0 .. Len(hay) : Agreed(hay, needle, r) \in 0 .. Len(needle)
  BY <1>1, AgreedIs, Zenon DEF AgreesAsFarAs
<1>3. \A r : r \in places <=> r \in 0 .. Len(hay) /\ Agreed(hay, needle, r) = Len(needle)
  <2>1. \A r : r \in 0 .. Len(hay) - Len(needle) <=> r \in 0 .. Len(hay) /\ r + Len(needle) <= Len(hay)
    BY <1>1
  <2>2. \A r \in 0 .. Len(hay) :
            Agreed(hay, needle, r) = Len(needle)
            <=> r + Len(needle) <= Len(hay) /\ SubSeq(hay, r + 1, r + Len(needle)) = needle
    BY PlaceIs, Zenon
  <2>. QED
    BY <2>1, <2>2, Zenon
<1>4. Len(hay) \in S /\ S \subseteq Nat
  <2>1. Len(hay) \in 0 .. Len(hay)
    BY <1>1
  <2>2. Len(hay) + Agreed(hay, needle, Len(hay)) >= Len(hay)
    BY <1>1, <1>2, <2>1
  <2>. QED
    BY <2>1, <2>2
<1>5. Min(S) \in S /\ \A r \in S : Min(S) <= r
  <2>. HIDE DEF S
  <2>. QED
    BY <1>4, MinExists, Zenon
<1>6. PICK o \in S : o = Over(hay, needle) /\ \A r \in S : o <= r
  BY <1>5, Zenon DEF Over
<1>7. o \in 0 .. Len(hay)
      /\ (Agreed(hay, needle, o) = Len(needle) \/ o + Agreed(hay, needle, o) >= Len(hay))
  OBVIOUS
<1>8. \A r \in places : r \in S /\ r \in Int
  <2>. SUFFICES ASSUME NEW r \in places PROVE r \in S /\ r \in Int
    OBVIOUS
  <2>. HIDE DEF places
  <2>1. r \in 0 .. Len(hay) /\ Agreed(hay, needle, r) = Len(needle)
    BY <1>3
  <2>. QED
    BY <2>1
<1>9. \A r \in places : o <= r /\ r + Len(needle) <= Len(hay)
  <2>1. \A r \in places : o <= r
    <3>. HIDE DEF places, S
    <3>. QED
      BY <1>6, <1>8
  <2>2. \A r \in places : r + Len(needle) <= Len(hay)
    BY <1>1
  <2>. QED
    BY <2>1, <2>2
<1>10. ASSUME Agreed(hay, needle, o) = Len(needle) PROVE places # {} /\ Min(places) = o
  <2>1. o \in places
    BY <1>3, <1>7, <1>10
  <2>. HIDE DEF places
  <2>2. places \subseteq Int /\ \A r \in places : o <= r
    BY <1>8, <1>9
  <2>. QED
    BY <2>1, <2>2, MinIs
<1>11. ASSUME Agreed(hay, needle, o) # Len(needle) PROVE places = {}
  <2>. SUFFICES ASSUME NEW r \in places PROVE FALSE
    OBVIOUS
  <2>1. o <= r /\ r + Len(needle) <= Len(hay) /\ r \in Int
    BY <1>8, <1>9
  <2>2. Agreed(hay, needle, o) \in 0 .. Len(needle) /\ o + Agreed(hay, needle, o) >= Len(hay)
    BY <1>2, <1>7, <1>11
  <2>3. PICK x \in Int : x = Agreed(hay, needle, o)
    BY <2>2
  <2>. HIDE DEF places, S
  <2>. QED
    BY <1>1, <1>7, <1>11, <2>1, <2>2, <2>3
<1>. QED
  BY <1>6, <1>10, <1>11, Zenon

(* strcmp compares the first characters in which the texts differ. *)
SameFor(s, t) == {n \in 0 .. Len(s) : n <= Len(t) /\ SubSeq(s, 1, n) = SubSeq(t, 1, n)}

LEMMA SameIs ==
    ASSUME NEW s \in Seq(1 .. 255), NEW t \in Seq(1 .. 255), NEW i \in 0 .. Len(s), i <= Len(t),
           \A n \in 0 .. i - 1 : s[n + 1] = t[n + 1],
           i < Len(s) /\ i < Len(t) => s[i + 1] # t[i + 1]
    PROVE  Max(SameFor(s, t)) = i
<1>1. Len(s) \in Nat /\ Len(t) \in Nat
  OBVIOUS
<1>2. ASSUME NEW n \in 0 .. Len(s), n <= Len(t)
      PROVE  /\ SubSeq(s, 1, n) \in Seq(1 .. 255) /\ Len(SubSeq(s, 1, n)) = n
             /\ SubSeq(t, 1, n) \in Seq(1 .. 255) /\ Len(SubSeq(t, 1, n)) = n
             /\ \A k \in 1 .. n : SubSeq(s, 1, n)[k] = s[k] /\ SubSeq(t, 1, n)[k] = t[k]
  <2>1. /\ 1 \in 1 .. Len(s) + 1 /\ n \in 1 - 1 .. Len(s)
        /\ 1 \in 1 .. Len(t) + 1 /\ n \in 1 - 1 .. Len(t) /\ n - 1 + 1 = n
        /\ \A k \in 1 .. n : 1 + k - 1 = k
    BY <1>1, <1>2
  <2>2. /\ SubSeq(s, 1, n) \in Seq(1 .. 255) /\ Len(SubSeq(s, 1, n)) = n - 1 + 1
        /\ \A k \in 1 .. n - 1 + 1 : SubSeq(s, 1, n)[k] = s[1 + k - 1]
    BY <2>1, PartOfText, Zenon
  <2>3. /\ SubSeq(t, 1, n) \in Seq(1 .. 255) /\ Len(SubSeq(t, 1, n)) = n - 1 + 1
        /\ \A k \in 1 .. n - 1 + 1 : SubSeq(t, 1, n)[k] = t[1 + k - 1]
    BY <2>1, PartOfText, Zenon
  <2>. QED
    BY <2>1, <2>2, <2>3, Zenon
<1>3. i \in SameFor(s, t)
  <2>1. PICK a, b : a = SubSeq(s, 1, i) /\ b = SubSeq(t, 1, i)
    OBVIOUS
  <2>2. a \in Seq(1 .. 255) /\ b \in Seq(1 .. 255) /\ Len(a) = i /\ Len(b) = i
        /\ \A k \in 1 .. i : a[k] = s[k] /\ b[k] = t[k]
    BY <1>2, <2>1, Zenon
  <2>3. \A k \in 1 .. i : a[k] = b[k]
    <3>1. \A k \in 1 .. i : k - 1 \in 0 .. i - 1 /\ (k - 1) + 1 = k
      OBVIOUS
    <3>. QED
      BY <2>2, <3>1, Zenon
  <2>4. a = b
    BY <2>2, <2>3, SeqEqual
  <2>. QED
    BY <2>1, <2>4 DEF SameFor
<1>4. ASSUME NEW n \in SameFor(s, t) PROVE n <= i
  <2>1. n \in 0 .. Len(s) /\ n <= Len(t) /\ SubSeq(s, 1, n) = SubSeq(t, 1, n)
    BY DEF SameFor
  <2>. SUFFICES ASSUME i < n PROVE FALSE
    BY <2>1
  <2>2. i + 1 \in 1 .. n /\ i < Len(s) /\ i < Len(t)
    BY <1>1, <2>1
  <2>3. s[i + 1] = t[i + 1]
    <3>1. \A k \in 1 .. n : SubSeq(s, 1, n)[k] = s[k] /\ SubSeq(t, 1, n)[k] = t[k]
      BY <1>2, <2>1, Zenon
    <3>2. SubSeq(s, 1, n)[i + 1] = s[i + 1] /\ SubSeq(t, 1, n)[i + 1] = t[i + 1]
      BY <2>2, <3>1, Zenon
    <3>. QED
      BY <2>1, <3>2, Zenon
  <2>. QED
    BY <2>2, <2>3
<1>5. SameFor(s, t) \subseteq Int
  BY DEF SameFor
<1>. QED
  BY <1>3, <1>4, <1>5, MaxIs, Zenon

LEMMA StrcmpIs ==
    ASSUME Room \in Nat, NEW m, NEW p \in Nat, NEW q \in Nat,
           NEW s \in Seq(1 .. 255), NEW t \in Seq(1 .. 255), Holds(m, p, s), Holds(m, q, t),
           p + Len(s) < 2 * Room, q + Len(t) < 2 * Room
    PROVE  LET same == Max(SameFor(s, t)) IN
           strcmp(m, p, q) =
              (IF s = t THEN 0
               ELSE IF same = Len(s) \/ (same < Len(t) /\ s[same + 1] < t[same + 1]) THEN -1
               ELSE 1)
<1>1. Len(s) \in Nat /\ Len(t) \in Nat
  OBVIOUS
<1>2. strlen(m, p) = Len(s) /\ strlen(m, q) = Len(t)
  BY HeldIs
<1>3. PICK shorter \in Nat : /\ shorter = Min({strlen(m, p), strlen(m, q)})
                             /\ shorter <= Len(s) /\ shorter <= Len(t)
                             /\ shorter = Len(s) \/ shorter = Len(t)
  <2>1. PICK x \in {Len(s), Len(t)} : x <= Len(s) /\ x <= Len(t)
    BY <1>1
  <2>2. x = Min({Len(s), Len(t)})
    <3>1. PICK both : both = {Len(s), Len(t)}
      OBVIOUS
    <3>2. both \subseteq Int /\ x \in both /\ \A y \in both : x <= y
      BY <1>1, <2>1, <3>1
    <3>3. x = Min(both)
      BY <3>2, MinIs
    <3>. QED
      BY <3>1, <3>3
  <2>. QED
    BY <1>1, <1>2, <2>1, <2>2
<1>4. \A n \in 1 .. Len(s) : s[n] \in 1 .. 255
  BY ElementOfSeq, Zenon
<1>5. \A n \in 1 .. Len(t) : t[n] \in 1 .. 255
  BY ElementOfSeq, Zenon
<1>6. /\ \A n \in 0 .. Len(s) - 1 : m[p + n] = s[n + 1] /\ m[p + n] \in 1 .. 255
      /\ \A n \in 0 .. Len(t) - 1 : m[q + n] = t[n + 1] /\ m[q + n] \in 1 .. 255
      /\ m[p + Len(s)] = 0 /\ m[q + Len(t)] = 0
  <2>1. /\ \A n \in 0 .. Len(s) - 1 : n + 1 \in 1 .. Len(s)
        /\ \A n \in 0 .. Len(t) - 1 : n + 1 \in 1 .. Len(t)
    BY <1>1
  <2>. QED
    BY <1>4, <1>5, <2>1, Zenon DEF Holds
<1>. DEFINE S == {n \in 0 .. shorter : m[p + n] # m[q + n] \/ m[p + n] = 0}
<1>7. shorter \in S /\ S \subseteq Nat
  <2>1. CASE shorter = Len(s)
    BY <1>6, <2>1
  <2>2. CASE shorter < Len(s) /\ shorter = Len(t)
    <3>1. shorter \in 0 .. Len(s) - 1
      BY <1>1, <2>2
    <3>2. m[p + shorter] # 0 /\ m[q + shorter] = 0
      <4>1. \A x \in 1 .. 255 : x # 0
        OBVIOUS
      <4>2. shorter = Len(t)
        BY <2>2
      <4>. QED
        BY <1>6, <3>1, <4>1, <4>2, Zenon
    <3>. QED
      BY <3>2
  <2>. QED
    BY <1>1, <1>3, <2>1, <2>2
<1>8. Min(S) \in S /\ \A n \in S : Min(S) <= n
  <2>. HIDE DEF S
  <2>. QED
    BY <1>7, MinExists, Zenon
<1>9. PICK i \in S : i = Min(S) /\ \A n \in S : i <= n
  BY <1>8, Zenon
<1>10. /\ i \in 0 .. shorter /\ i <= Len(s) /\ i <= Len(t) /\ i \in 0 .. Len(s)
       /\ m[p + i] # m[q + i] \/ m[p + i] = 0
  BY <1>1, <1>3
<1>11. \A n \in 0 .. i - 1 : m[p + n] = m[q + n] /\ n \in 0 .. Len(s) - 1 /\ n \in 0 .. Len(t) - 1
  <2>. SUFFICES ASSUME NEW n \in 0 .. i - 1
                PROVE  m[p + n] = m[q + n] /\ n \in 0 .. Len(s) - 1 /\ n \in 0 .. Len(t) - 1
    OBVIOUS
  <2>1. n \in 0 .. shorter /\ ~(i <= n) /\ n \in 0 .. Len(s) - 1 /\ n \in 0 .. Len(t) - 1
    BY <1>1, <1>10
  <2>2. n \notin S
    <3>. HIDE DEF S
    <3>. QED
      BY <1>9, <2>1
  <2>. QED
    BY <2>1, <2>2
<1>12. \A n \in 0 .. i - 1 : s[n + 1] = t[n + 1]
  BY <1>6, <1>11, Zenon
<1>13. i < Len(s) /\ i < Len(t) => s[i + 1] # t[i + 1]
  <2>. SUFFICES ASSUME i < Len(s), i < Len(t) PROVE s[i + 1] # t[i + 1]
    OBVIOUS
  <2>1. i \in 0 .. Len(s) - 1 /\ i \in 0 .. Len(t) - 1
    BY <1>1, <1>10
  <2>2. m[p + i] = s[i + 1] /\ m[q + i] = t[i + 1] /\ m[p + i] # 0
    <3>1. \A x \in 1 .. 255 : x # 0
      OBVIOUS
    <3>. QED
      BY <1>6, <2>1, <3>1, Zenon
  <2>. QED
    BY <1>10, <2>2
<1>14. Max(SameFor(s, t)) = i
  BY <1>10, <1>12, <1>13, SameIs, Zenon
<1>15. strcmp(m, p, q) = IF m[p + i] < m[q + i] THEN -1 ELSE IF m[p + i] > m[q + i] THEN 1 ELSE 0
  BY <1>3, <1>9, Zenon DEF strcmp
<1>. HIDE DEF S
<1>16. (IF m[p + i] < m[q + i] THEN -1 ELSE IF m[p + i] > m[q + i] THEN 1 ELSE 0)
       = (IF s = t THEN 0
          ELSE IF i = Len(s) \/ (i < Len(t) /\ s[i + 1] < t[i + 1]) THEN -1 ELSE 1)
  <2>1. CASE i = Len(s) /\ i = Len(t)
    <3>1. s = t
      <4>1. \A k \in 1 .. Len(s) : s[k] = t[k]
        <5>1. \A k \in 1 .. Len(s) : k - 1 \in 0 .. i - 1 /\ (k - 1) + 1 = k
          BY <2>1
        <5>. QED
          BY <1>12, <5>1, Zenon
      <4>. QED
        BY <2>1, <4>1, SeqEqual
    <3>2. m[p + i] = 0 /\ m[q + i] = 0
      BY <1>6, <2>1
    <3>. QED
      BY <3>1, <3>2
  <2>2. CASE i = Len(s) /\ i < Len(t)
    <3>1. s # t
      BY <1>1, <2>2
    <3>2. i \in 0 .. Len(t) - 1
      BY <1>1, <1>10, <2>2
    <3>3. m[p + i] = 0 /\ m[q + i] \in 1 .. 255
      BY <1>6, <2>2, <3>2, Zenon
    <3>4. m[p + i] < m[q + i]
      <4>1. \A x \in 1 .. 255 : 0 < x
        OBVIOUS
      <4>. QED
        BY <3>3, <4>1, Zenon
    <3>. QED
      BY <2>2, <3>1, <3>4, Zenon
  <2>3. CASE i < Len(s) /\ i = Len(t)
    <3>1. s # t
      BY <1>1, <2>3
    <3>2. i \in 0 .. Len(s) - 1
      BY <1>1, <1>10, <2>3
    <3>3. m[q + i] = 0 /\ m[p + i] \in 1 .. 255
      BY <1>6, <2>3, <3>2, Zenon
    <3>4. ~(m[p + i] < m[q + i]) /\ m[p + i] > m[q + i]
      <4>1. \A x \in 1 .. 255 : ~(x < 0) /\ x > 0
        OBVIOUS
      <4>. QED
        BY <3>3, <4>1, Zenon
    <3>5. i # Len(s) /\ ~(i < Len(t))
      BY <1>1, <2>3
    <3>. QED
      BY <3>1, <3>4, <3>5, Zenon
  <2>4. CASE i < Len(s) /\ i < Len(t)
    <3>1. s[i + 1] # t[i + 1]
      BY <1>13, <2>4
    <3>2. i \in 0 .. Len(s) - 1 /\ i \in 0 .. Len(t) - 1
      BY <1>1, <1>10, <2>4
    <3>3. /\ m[p + i] = s[i + 1] /\ m[q + i] = t[i + 1]
          /\ m[p + i] \in 1 .. 255 /\ m[q + i] \in 1 .. 255
      BY <1>6, <3>2, Zenon
    <3>4. PICK x \in 1 .. 255, y \in 1 .. 255 : x = s[i + 1] /\ y = t[i + 1] /\ x # y
      BY <3>1, <3>3
    <3>. QED
      BY <1>1, <2>4, <3>3, <3>4
  <2>. QED
    BY <1>1, <1>10, <2>1, <2>2, <2>3, <2>4
<1>. QED
  BY <1>14, <1>15, <1>16, Zenon

LEMMA SearchesAre == MemoryInv => SearchesAreExact
<1>. SUFFICES ASSUME MemoryInv, job = "loaded" PROVE SearchesAreExact
  BY DEF SearchesAreExact
<1>1. PICK s, t : s = loaded[1] /\ t = loaded[2]
  OBVIOUS
<1>2. Laid /\ TextsAre
  BY DEF MemoryInv
<1>3. /\ s \in Seq(1 .. 255) /\ t \in Seq(1 .. 255) /\ Room \in Nat /\ Len(s) \in Nat /\ Len(t) \in Nat
      /\ Len(s) < Room /\ Len(t) < Room
  BY <1>1, <1>2, StringsAre, PlacesAre DEF TextsAre
<1>4. Holds(bytes, 0, s) /\ Holds(bytes, Room, t)
  BY <1>1, <1>2, PlacesAre DEF Laid
<1>5. 0 + Len(s) < 2 * Room /\ Room + Len(t) < 2 * Room
  <2>1. PICK a \in Nat, b \in Nat : a = Len(s) /\ b = Len(t) /\ a < Room /\ b < Room
    BY <1>3
  <2>2. 0 + a < 2 * Room /\ Room + b < 2 * Room
    BY <1>3, <2>1
  <2>. QED
    BY <2>1, <2>2, Zenon
<1>6. StringAt(bytes, 0) = s /\ StringAt(bytes, Room) = t
  BY <1>3, <1>4, <1>5, HeldIs
<1>. DEFINE places == {r \in 0 .. Len(s) - Len(t) : SubSeq(s, r + 1, r + Len(t)) = t}
<1>7. strstr(bytes, 0, Room) = IF Agreed(s, t, Over(s, t)) = Len(t) THEN 0 + Over(s, t) ELSE Null
  BY <1>6, Zenon DEF strstr, Agreed, Over
<1>8. /\ Agreed(s, t, Over(s, t)) = Len(t) => places # {} /\ Min(places) = Over(s, t)
      /\ Agreed(s, t, Over(s, t)) # Len(t) => places = {}
  BY <1>3, StrstrIs, Zenon
<1>9. Agreed(s, t, Over(s, t)) = Len(t) => 0 + Min(places) = Min(places)
  <2>1. \A r \in places : r \in Nat
    BY <1>3
  <2>2. places # {} => Min(places) \in places
    <3>1. places \subseteq Nat
      BY <2>1
    <3>. HIDE DEF places
    <3>. QED
      BY <3>1, MinExists, Zenon
  <2>. HIDE DEF places
  <2>3. places # {} => Min(places) \in Nat
    BY <2>1, <2>2
  <2>. QED
    BY <1>8, <2>3
<1>10. strstr(bytes, 0, Room) = IF places = {} THEN Null ELSE Min(places)
  <2>. HIDE DEF places
  <2>. QED
    BY <1>7, <1>8, <1>9, Zenon
<1>11. strcmp(bytes, 0, Room) =
              (IF s = t THEN 0
               ELSE IF Max(SameFor(s, t)) = Len(s)
                       \/ (Max(SameFor(s, t)) < Len(t) /\ s[Max(SameFor(s, t)) + 1] < t[Max(SameFor(s, t)) + 1])
                    THEN -1 ELSE 1)
  <2>1. 0 \in Nat
    OBVIOUS
  <2>. QED
    BY <1>3, <1>4, <1>5, <2>1, StrcmpIs, Zenon
<1>. QED
  BY <1>1, <1>10, <1>11, PlacesAre, Zenon DEF SearchesAreExact, SameFor

(* strtok_r gives the words of each string one after the other, whatever   *)
(* it is split at and however two strings are split in turns; strstr finds *)
(* the first place and strcmp the order, whatever the strings are.         *)
THEOREM StringResults == StringsSpec => []ResultsAreExact
<1>1. StringsInit => MemoryInv /\ TokensInv
  <2>1. StringsInit => TokensInv
    BY DEF StringsInit, TokensInv
  <2>. QED
    BY <2>1, MemoryInit
<1>2. MemoryInv /\ TokensInv /\ [StringsNext]_stringvars => (MemoryInv /\ TokensInv)'
  BY MemoryNext, TokensNext
<1>3. MemoryInv /\ TokensInv => ResultsAreExact
  BY TokensAre, SearchesAre DEF ResultsAreExact
<1>. QED
  BY <1>1, <1>2, <1>3, PTL DEF StringsSpec

-----------------------------------------------------------------------------
(* printf into a string *)

Chars == UNION {Range(_printf(c.format)) : c \in Calls}

(* vsnprintf has written as much of what was handed on as fits before a 0. *)
Fitted(size, n) == Lesser(n, size - 1)
CutText ==
    /\ \A i \in call.size .. Capacity - 1 : str[i] = Untouched
    /\ call.size >= 1 => \A i \in 0 .. Fitted(call.size, Len(shown)) - 1 : str[i] = shown[i + 1]
    /\ result = -1 => written = IF call.size >= 1 THEN Fitted(call.size, Len(shown)) ELSE 0
    /\ call.size >= 2 /\ (shown # <<>> \/ result # -1) =>
          str[Fitted(call.size, Len(shown))] = NUL

(* vsprintf has written all of it. *)
WholeText ==
    /\ \A i \in 0 .. Len(shown) - 1 : str[i] = shown[i + 1]
    /\ result = -1 => written = Len(shown)
    /\ result # -1 => str[Len(shown)] = NUL

FormattingInv ==
    /\ call \in Calls \cup {Idle} /\ shown \in Seq(Chars) /\ rest \in Seq(Chars)
    /\ str \in [Memory -> Chars \cup {NUL, Untouched}] /\ written \in Nat /\ result \in Int
    /\ call = Idle =>
          /\ rest = <<>> /\ shown = <<>> /\ written = 0 /\ result = -1
          /\ \A i \in Memory : str[i] = Untouched
    /\ call # Idle =>
          /\ Len(shown) + Len(rest) = Len(_printf(call.format))
          /\ result # -1 => rest = <<>> /\ result = Len(shown)
          /\ call.routine = "vsnprintf" => CutText
          /\ call.routine = "vsprintf" => WholeText

LEMMA CallsAre ==
    ASSUME NEW c \in Calls
    PROVE  /\ c # Idle /\ _printf(c.format) \in Seq(Chars) /\ Capacity \in Nat
           /\ c.routine \in {"vfprintf", "vsprintf", "vsnprintf"}
           /\ c.routine = "vsprintf" => Len(_printf(c.format)) < Capacity
           /\ c.routine = "vsnprintf" => c.size \in 0 .. Capacity
<1>1. /\ c # Idle /\ Capacity \in Nat
      /\ c.routine \in {"vfprintf", "vsprintf", "vsnprintf"}
      /\ _printf(c.format) \in Seq(Range(_printf(c.format)))
      /\ c.routine = "vsprintf" => Len(_printf(c.format)) < Capacity
      /\ c.routine = "vsnprintf" => c.size \in 0 .. Capacity
  BY FormattingAssumption, Zenon
<1>2. Range(_printf(c.format)) \subseteq Chars
  BY Zenon DEF Chars
<1>3. \A S, T, s : S \subseteq T /\ s \in Seq(S) => s \in Seq(T)
  OBVIOUS
<1>. QED
  BY <1>1, <1>2, <1>3, Zenon

LEMMA FormattingStarts == FormattingInit => FormattingInv
BY FormattingAssumption DEF FormattingInit, FormattingInv, Memory

LEMMA CallKeeps == FormattingInv /\ Call => FormattingInv'
<1>. SUFFICES ASSUME FormattingInv, Call PROVE FormattingInv'
  OBVIOUS
<1>1. PICK c \in Calls : call' = c /\ rest' = _printf(c.format)
  BY DEF Call
<1>2. /\ call = Idle /\ UNCHANGED <<shown, str, written, result>>
      /\ shown = <<>> /\ written = 0 /\ result = -1 /\ \A i \in Memory : str[i] = Untouched
      /\ str \in [Memory -> Chars \cup {NUL, Untouched}]
  BY DEF Call, FormattingInv
<1>3. /\ c # Idle /\ _printf(c.format) \in Seq(Chars) /\ Capacity \in Nat
      /\ c.routine = "vsnprintf" => c.size \in 0 .. Capacity
  BY CallsAre
<1>4. Len(shown) = 0 /\ Len(_printf(c.format)) \in Nat /\ shown \in Seq(Chars)
  BY <1>2, <1>3
<1>5. c.routine = "vsnprintf" => CutText'
  <2>. SUFFICES ASSUME c.routine = "vsnprintf" PROVE CutText'
    OBVIOUS
  <2>1. \A i \in c.size .. Capacity - 1 : i \in Memory
    BY <1>3 DEF Memory
  <2>2. c.size \in Nat /\ c.size >= 1 => Fitted(c.size, 0) = 0
    BY <1>3 DEF Fitted, Lesser
  <2>. QED
    BY <1>1, <1>2, <1>3, <1>4, <2>1, <2>2 DEF CutText
<1>6. WholeText'
  BY <1>2, <1>4 DEF WholeText
<1>. QED
  BY <1>1, <1>2, <1>3, <1>4, <1>5, <1>6 DEF FormattingInv

(* A character that vsnprintf is given. *)
LEMMA CutKeeps ==
    ASSUME FormattingInv, call \in Calls, call.routine = "vsnprintf", result = -1,
           NEW c \in Chars, _cb_sprintf(c), shown' = Append(shown, c),
           UNCHANGED <<call, result>>
    PROVE  /\ CutText' /\ str' \in [Memory -> Chars \cup {NUL, Untouched}] /\ written' \in Nat
<1>1. PICK s, n : s = call.size /\ n = Len(shown)
  OBVIOUS
<1>2. /\ s \in 0 .. Capacity /\ Capacity \in Nat /\ n \in Nat /\ shown \in Seq(Chars)
      /\ CutText /\ str \in [Memory -> Chars \cup {NUL, Untouched}] /\ call # Idle
      /\ written = IF s >= 1 THEN Fitted(s, n) ELSE 0
  BY <1>1, CallsAre DEF FormattingInv, CutText
<1>3. /\ Len(shown') = n + 1 /\ shown'[n + 1] = c /\ shown' # <<>>
      /\ \A i \in 1 .. n : shown'[i] = shown[i]
  BY <1>1, <1>2
<1>4. CASE s > written + 1
  <2>1. s >= 2 /\ n + 1 < s /\ written = n /\ Fitted(s, n) = n /\ Fitted(s, n + 1) = n + 1
    BY <1>2, <1>4 DEF Fitted, Lesser
  <2>2. str' = [str EXCEPT ![n] = c, ![n + 1] = NUL] /\ written' = n + 1
    BY <1>1, <1>4, <2>1 DEF _cb_sprintf
  <2>3. n \in Memory /\ n + 1 \in Memory /\ n # n + 1
    BY <1>2, <2>1 DEF Memory
  <2>4. \A i \in Memory : str'[i] = IF i = n + 1 THEN NUL ELSE IF i = n THEN c ELSE str[i]
    BY <1>2, <2>2, <2>3
  <2>5. str' \in [Memory -> Chars \cup {NUL, Untouched}]
    BY <1>2, <2>2, <2>3
  <2>6. \A i \in s .. Capacity - 1 : str'[i] = Untouched
    <3>1. \A i \in s .. Capacity - 1 : i \in Memory /\ i # n /\ i # n + 1
      BY <1>2, <2>1 DEF Memory
    <3>. QED
      BY <1>1, <1>2, <2>4, <3>1 DEF CutText
  <2>7. \A i \in 0 .. n : str'[i] = shown'[i + 1]
    <3>1. \A i \in 0 .. n - 1 : i \in Memory /\ i # n /\ i # n + 1 /\ i + 1 \in 1 .. n
      BY <1>2, <2>1 DEF Memory
    <3>2. \A i \in 0 .. n - 1 : str[i] = shown[i + 1]
      BY <1>1, <1>2, <2>1 DEF CutText
    <3>3. \A i \in 0 .. n - 1 : str'[i] = shown'[i + 1]
      BY <1>3, <2>4, <3>1, <3>2
    <3>4. str'[n] = shown'[n + 1]
      BY <1>3, <2>3, <2>4
    <3>5. \A i \in 0 .. n : i \in 0 .. n - 1 \/ i = n
      BY <1>2
    <3>. QED
      BY <3>3, <3>4, <3>5, Zenon
  <2>8. str'[n + 1] = NUL /\ \A i \in 0 .. (n + 1) - 1 : i \in 0 .. n
    BY <1>2, <2>3, <2>4
  <2>9. CutText'
    <3>1. call'.size = s /\ Len(shown') = n + 1 /\ Fitted(s, n + 1) = n + 1 /\ s >= 1
      <4>1. call' = call
        OBVIOUS
      <4>2. call'.size = s
        BY <1>1, <4>1
      <4>3. s >= 1
        BY <1>2, <2>1
      <4>. QED
        BY <1>3, <2>1, <4>2, <4>3, Zenon
    <3>2. \A i \in 0 .. Fitted(s, n + 1) - 1 : str'[i] = shown'[i + 1]
      BY <2>7, <2>8, <3>1
    <3>3. str'[Fitted(s, n + 1)] = NUL /\ written' = Fitted(s, n + 1)
      BY <2>2, <2>8, <3>1
    <3>. QED
      BY <2>6, <3>1, <3>2, <3>3, Zenon DEF CutText
  <2>. QED
    BY <1>2, <2>2, <2>5, <2>9
<1>5. CASE ~(s > written + 1)
  <2>1. UNCHANGED <<str, written>>
    BY <1>1, <1>5 DEF _cb_sprintf
  <2>2. s >= 1 => Fitted(s, n) = s - 1 /\ Fitted(s, n + 1) = s - 1 /\ s - 1 <= n
    BY <1>2, <1>5 DEF Fitted, Lesser
  <2>3. s >= 2 => shown # <<>>
    <3>1. s >= 2 => n >= 1
      BY <1>2, <2>2
    <3>. QED
      BY <1>1, <3>1
  <2>4. s >= 1 => \A i \in 0 .. (s - 1) - 1 : str[i] = shown'[i + 1]
    <3>1. s >= 1 => \A i \in 0 .. (s - 1) - 1 : i + 1 \in 1 .. n
      BY <1>2, <2>2
    <3>. QED
      BY <1>1, <1>2, <1>3, <2>2, <3>1 DEF CutText
  <2>5. CutText'
    BY <1>1, <1>2, <1>3, <2>1, <2>2, <2>3, <2>4 DEF CutText
  <2>. QED
    BY <1>2, <2>1, <2>5 DEF FormattingInv
<1>. QED
  BY <1>4, <1>5

(* A character that vsprintf is given. *)
LEMMA WholeKeeps ==
    ASSUME FormattingInv, call \in Calls, call.routine = "vsprintf", result = -1, rest # <<>>,
           NEW c \in Chars, _cb_u_sprintf(c), shown' = Append(shown, c),
           UNCHANGED <<call, result>>
    PROVE  /\ WholeText' /\ str' \in [Memory -> Chars \cup {NUL, Untouched}] /\ written' \in Nat
<1>1. PICK n : n = Len(shown)
  OBVIOUS
<1>2. /\ n \in Nat /\ Capacity \in Nat /\ n < Capacity /\ shown \in Seq(Chars) /\ WholeText
      /\ str \in [Memory -> Chars \cup {NUL, Untouched}] /\ written = n
  <2>1. n \in Nat /\ Len(rest) \in Nat \ {0} /\ n + Len(rest) < Capacity /\ Capacity \in Nat
    BY <1>1, CallsAre DEF FormattingInv
  <2>. QED
    BY <1>1, <2>1, CallsAre DEF FormattingInv, WholeText
<1>3. /\ Len(shown') = n + 1 /\ shown'[n + 1] = c
      /\ \A i \in 1 .. n : shown'[i] = shown[i]
  BY <1>1, <1>2
<1>4. n \in Memory /\ str' = [str EXCEPT ![n] = c] /\ written' = n + 1
  BY <1>2 DEF Memory, _cb_u_sprintf
<1>5. \A i \in 0 .. n - 1 : i \in Memory /\ i # n /\ i + 1 \in 1 .. n
  BY <1>2 DEF Memory
<1>6. \A i \in 0 .. n - 1 : str'[i] = shown'[i + 1]
  BY <1>1, <1>2, <1>3, <1>4, <1>5 DEF WholeText
<1>7. str'[n] = shown'[n + 1]
  BY <1>2, <1>3, <1>4
<1>8. \A i \in 0 .. (n + 1) - 1 : i \in 0 .. n - 1 \/ i = n
  BY <1>2
<1>9. \A i \in 0 .. (n + 1) - 1 : str'[i] = shown'[i + 1]
  BY <1>6, <1>7, <1>8, Zenon
<1>10. WholeText'
  BY <1>3, <1>4, <1>9 DEF WholeText
<1>. QED
  BY <1>2, <1>4, <1>10

LEMMA PutKeeps == FormattingInv /\ (PutToString \/ PutToStream) => FormattingInv'
<1>. SUFFICES ASSUME FormattingInv, PutToString \/ PutToStream PROVE FormattingInv'
  OBVIOUS
<1>1. PICK c : c = Head(rest)
  OBVIOUS
<1>2. /\ rest # <<>> /\ shown' = Append(shown, c) /\ rest' = Tail(rest)
      /\ UNCHANGED <<call, result>> /\ call \in Calls /\ call # Idle
      /\ shown \in Seq(Chars) /\ rest \in Seq(Chars)
      /\ Len(shown) + Len(rest) = Len(_printf(call.format))
      /\ str \in [Memory -> Chars \cup {NUL, Untouched}] /\ written \in Nat /\ result \in Int
      /\ result = -1
  BY <1>1 DEF PutToString, PutToStream, FormattingInv
<1>3. c \in Chars /\ shown' \in Seq(Chars) /\ rest' \in Seq(Chars)
      /\ Len(shown') + Len(rest') = Len(shown) + Len(rest)
  BY <1>1, <1>2
<1>4. /\ call.routine = "vsnprintf" => CutText'
      /\ call.routine = "vsprintf" => WholeText'
      /\ str' \in [Memory -> Chars \cup {NUL, Untouched}] /\ written' \in Nat
  <2>1. CASE PutToStream
    <3>1. call.routine = "vfprintf" /\ UNCHANGED <<str, written>>
      BY <2>1 DEF PutToStream
    <3>. QED
      BY <1>2, <3>1
  <2>2. CASE PutToString /\ call.routine = "vsprintf"
    <3>1. _cb_u_sprintf(c)
      BY <1>1, <2>2 DEF PutToString
    <3>. QED
      BY <1>2, <1>3, <2>2, <3>1, WholeKeeps
  <2>3. CASE PutToString /\ call.routine = "vsnprintf"
    <3>1. _cb_sprintf(c)
      BY <1>1, <2>3 DEF PutToString
    <3>. QED
      BY <1>2, <1>3, <2>3, <3>1, CutKeeps
  <2>. QED
    BY <2>1, <2>2, <2>3 DEF PutToString
<1>. QED
  BY <1>2, <1>3, <1>4 DEF FormattingInv

LEMMA ReturnKeeps == FormattingInv /\ Return => FormattingInv'
<1>. SUFFICES ASSUME FormattingInv, Return PROVE FormattingInv'
  OBVIOUS
<1>1. PICK s, n : s = call.size /\ n = Len(shown)
  OBVIOUS
<1>2. /\ rest = <<>> /\ result = -1 /\ result' = n /\ UNCHANGED <<call, rest, shown>>
      /\ call \in Calls /\ call # Idle /\ shown \in Seq(Chars) /\ rest \in Seq(Chars)
      /\ Len(shown) + Len(rest) = Len(_printf(call.format)) /\ n \in Nat
      /\ str \in [Memory -> Chars \cup {NUL, Untouched}] /\ written \in Nat /\ result' # -1
      /\ call.routine = "vsnprintf" => CutText
      /\ call.routine = "vsprintf" => WholeText
  BY <1>1 DEF Return, FormattingInv
<1>3. /\ Capacity \in Nat /\ call.routine \in {"vfprintf", "vsprintf", "vsnprintf"}
      /\ call.routine = "vsprintf" => n < Capacity
      /\ call.routine = "vsnprintf" => s \in 0 .. Capacity
  <2>1. n = Len(_printf(call.format))
    BY <1>1, <1>2
  <2>. QED
    BY <1>1, <1>2, <2>1, CallsAre
<1>4. CASE call.routine = "vfprintf"
  <2>1. UNCHANGED <<str, written>>
    BY <1>4 DEF Return
  <2>. QED
    BY <1>1, <1>2, <1>4, <2>1 DEF FormattingInv
<1>5. CASE call.routine = "vsprintf"
  <2>1. WholeText /\ written = n /\ n \in Memory
    BY <1>1, <1>2, <1>3, <1>5 DEF WholeText, Memory
  <2>2. str' = [str EXCEPT ![n] = NUL] /\ written' = n + 1
    BY <1>5, <2>1 DEF Return, _cb_u_sprintf
  <2>3. \A i \in 0 .. n - 1 : i \in Memory /\ i # n
    BY <1>2, <1>3, <1>5 DEF Memory
  <2>4. \A i \in 0 .. n - 1 : str'[i] = shown[i + 1]
    BY <1>1, <1>2, <2>1, <2>2, <2>3 DEF WholeText
  <2>5. str'[n] = NUL
    BY <1>2, <2>1, <2>2
  <2>6. WholeText'
    BY <1>1, <1>2, <2>4, <2>5 DEF WholeText
  <2>. QED
    BY <1>1, <1>2, <1>5, <2>1, <2>2, <2>6 DEF FormattingInv
<1>6. CASE call.routine = "vsnprintf"
  <2>1. CutText /\ written = (IF s >= 1 THEN Fitted(s, n) ELSE 0) /\ _cb_sprintf(NUL)
    BY <1>1, <1>2, <1>6 DEF CutText, Return
  <2>2. CASE s > written + 1
    <3>1. s >= 2 /\ written = n /\ n + 1 < s /\ Fitted(s, n) = n
      BY <1>2, <1>3, <1>6, <2>1, <2>2 DEF Fitted, Lesser
    <3>2. str' = [str EXCEPT ![n] = NUL, ![n + 1] = NUL] /\ written' = n + 1
      BY <1>1, <2>1, <2>2, <3>1 DEF _cb_sprintf
    <3>3. n \in Memory /\ n + 1 \in Memory
      BY <1>2, <1>3, <1>6, <3>1 DEF Memory
    <3>4. \A i \in Memory : str'[i] = IF i \in {n, n + 1} THEN NUL ELSE str[i]
      BY <1>2, <3>2, <3>3
    <3>5. \A i \in s .. Capacity - 1 : i \in Memory /\ i \notin {n, n + 1}
      BY <1>2, <1>3, <1>6, <3>1 DEF Memory
    <3>6. \A i \in 0 .. n - 1 : i \in Memory /\ i \notin {n, n + 1}
      BY <1>2, <1>3, <1>6, <3>1 DEF Memory
    <3>7. \A i \in s .. Capacity - 1 : str'[i] = Untouched
      BY <1>1, <2>1, <3>4, <3>5 DEF CutText
    <3>8. \A i \in 0 .. n - 1 : str'[i] = shown[i + 1]
      BY <1>1, <2>1, <3>1, <3>4, <3>6 DEF CutText
    <3>9. str'[n] = NUL
      BY <3>3, <3>4
    <3>10. CutText'
      BY <1>1, <1>2, <3>1, <3>7, <3>8, <3>9 DEF CutText
    <3>. QED
      BY <1>1, <1>2, <1>6, <3>2, <3>3, <3>10 DEF FormattingInv
  <2>3. CASE ~(s > written + 1)
    <3>1. UNCHANGED <<str, written>>
      BY <1>1, <2>1, <2>3 DEF _cb_sprintf
    <3>2. s >= 2 => shown # <<>>
      <4>1. s >= 2 => n >= 1
        BY <1>2, <1>3, <1>6, <2>1, <2>3 DEF Fitted, Lesser
      <4>. QED
        BY <1>1, <4>1
    <3>3. CutText'
      BY <1>1, <1>2, <2>1, <3>1, <3>2 DEF CutText
    <3>. QED
      BY <1>1, <1>2, <1>6, <3>1, <3>3 DEF FormattingInv
  <2>. QED
    BY <2>2, <2>3
<1>. QED
  BY <1>3, <1>4, <1>5, <1>6

LEMMA ForgetKeeps == FormattingInv /\ Forget => FormattingInv'
<1>. SUFFICES ASSUME FormattingInv, Forget PROVE FormattingInv'
  OBVIOUS
<1>1. rest = <<>>
  BY DEF FormattingInv, Forget
<1>. QED
  BY <1>1, FormattingAssumption DEF FormattingInv, Forget, Memory

LEMMA FormattingStep == FormattingInv /\ [FormattingNext]_formattingvars => FormattingInv'
<1>1. FormattingInv /\ UNCHANGED formattingvars => FormattingInv'
  BY DEF FormattingInv, formattingvars, CutText, WholeText, Fitted
<1>. QED
  BY <1>1, CallKeeps, PutKeeps, ReturnKeeps, ForgetKeeps DEF FormattingNext

LEMMA FormattingHolds == FormattingInv => StringHoldsText
<1>. SUFFICES ASSUME FormattingInv PROVE StringHoldsText
  OBVIOUS
<1>1. ASSUME call # Idle, call.routine = "vsnprintf", call.size >= 2, shown # <<>> \/ result # -1
      PROVE  IsString(SubSeq(shown, 1, Lesser(Len(shown), call.size - 1)))
  <2>1. PICK s, n, k : s = call.size /\ n = Len(shown) /\ k = Fitted(s, n)
    OBVIOUS
  <2>2. s \in Nat /\ n \in Nat /\ shown \in Seq(Chars) /\ CutText /\ s >= 2
    BY <1>1, <2>1, CallsAre DEF FormattingInv
  <2>3. k \in 0 .. n
    BY <2>1, <2>2 DEF Fitted, Lesser
  <2>4. /\ Len(SubSeq(shown, 1, k)) = k /\ DOMAIN SubSeq(shown, 1, k) = 1 .. k
        /\ \A i \in 1 .. k : SubSeq(shown, 1, k)[i] = shown[i]
    BY <2>1, <2>2, <2>3
  <2>5. \A i \in 1 .. k : str[i - 1] = shown[i]
    <3>1. \A i \in 0 .. k - 1 : str[i] = shown[i + 1]
      BY <2>1, <2>2 DEF CutText
    <3>2. \A i \in 1 .. k : i - 1 \in 0 .. k - 1 /\ (i - 1) + 1 = i
      BY <2>3
    <3>. QED
      BY <3>1, <3>2
  <2>6. str[k] = NUL
    BY <1>1, <2>1, <2>2 DEF CutText
  <2>7. IsString(SubSeq(shown, 1, k))
    BY <2>4, <2>5, <2>6 DEF IsString
  <2>. QED
    BY <2>1, <2>7 DEF Fitted
<1>2. ASSUME call # Idle, call.routine = "vsnprintf"
      PROVE  \A i \in call.size .. Capacity - 1 : str[i] = Untouched
  BY <1>2 DEF FormattingInv, CutText
<1>3. ASSUME result # -1, call.routine = "vsprintf" PROVE IsString(shown)
  <2>1. WholeText /\ shown \in Seq(Chars) /\ Len(shown) \in Nat
    BY <1>3 DEF FormattingInv
  <2>2. \A i \in 1 .. Len(shown) : i - 1 \in 0 .. Len(shown) - 1 /\ (i - 1) + 1 = i
    BY <2>1
  <2>3. \A i \in 1 .. Len(shown) : str[i - 1] = shown[i]
    BY <2>1, <2>2 DEF WholeText
  <2>. QED
    BY <1>3, <2>1, <2>3 DEF IsString, WholeText
<1>4. ASSUME result # -1 PROVE result = Len(shown) /\ result = Len(_printf(call.format))
  <2>1. /\ call # Idle /\ rest = <<>> /\ result = Len(shown) /\ shown \in Seq(Chars)
        /\ Len(shown) + Len(rest) = Len(_printf(call.format))
    BY <1>4 DEF FormattingInv
  <2>2. Len(rest) = 0 /\ Len(shown) \in Nat
    BY <2>1
  <2>. QED
    BY <2>1, <2>2
<1>. QED
  BY <1>1, <1>2, <1>3, <1>4, Zenon DEF StringHoldsText

(* vsnprintf never writes beyond the size that it was given and leaves a   *)
(* string at every moment, what fits of what was formatted; vsprintf and   *)
(* vsnprintf return the length of all of it, for every size and format.    *)
THEOREM StringsAreCut == FormattingSpec => []StringHoldsText
BY FormattingStarts, FormattingStep, FormattingHolds, PTL DEF FormattingSpec

-----------------------------------------------------------------------------
(* Of the specification of all the parts, each part does its own steps.    *)
LEMMA PartsAreThere == Spec => StdioSpec /\ ConsoleSpec /\ StringsSpec /\ FormattingSpec
<1>1. Init => StdioInit /\ ConsoleInit /\ StringsInit /\ FormattingInit
  BY DEF Init
<1>2. [Next]_vars => [StdioNext]_streamvars
  BY DEF Next, vars
<1>3. [Next]_vars => [ConsoleNext]_consolevars
  BY DEF Next, vars
<1>4. [Next]_vars => [StringsNext]_stringvars
  BY DEF Next, vars
<1>5. [Next]_vars => [FormattingNext]_formattingvars
  BY DEF Next, vars
<1>. QED
  BY <1>1, <1>2, <1>3, <1>4, <1>5, PTL
     DEF Spec, StdioSpec, ConsoleSpec, StringsSpec, FormattingSpec

(* What the run of Library checks of streams, of the screen, of strings    *)
(* and of what printf leaves in one holds whatever the sizes of buffers,   *)
(* files, screens and strings are and whatever is printed.                 *)
THEOREM LibraryIsCorrect ==
    Spec => /\ []PositionIsKnown /\ []ScreenShowsPaper /\ ImplementsFileStream
            /\ []MovesAreExact /\ []ResultsAreExact /\ []StringHoldsText
BY PartsAreThere, PositionsAreKnown, StreamIsFile, ScreenFollowsPaper, MemoryMovesExactly,
   StringResults, StringsAreCut, PTL
=============================================================================
