------------------------------ MODULE TtyProofs ------------------------------
(***************************************************************************)
(* The keyboard and the pty are correct for any keys, any size of the ring *)
(* and of the reads, and any length of the keyboard's buffer.              *)
(***************************************************************************)
EXTENDS Tty, TLAPS, SequenceTheorems, FiniteSetTheorems

-----------------------------------------------------------------------------
(* The ring buffer: a bounded first-in first-out queue for every size and  *)
(* every length of its reads and writes.                                   *)

(* A function on 1 .. n is a sequence of length n. *)
LEMMA FunctionIsSeq ==
    ASSUME NEW S, NEW n \in Nat, NEW f \in [1 .. n -> S]
    PROVE  f \in Seq(S) /\ Len(f) = n
<1>1. f \in Seq(S)
  BY SMT
<1>2. DOMAIN f = 1 .. n /\ DOMAIN f = 1 .. Len(f) /\ Len(f) \in Nat
  BY <1>1, LenProperties
<1>. QED
  BY <1>1, <1>2

(* One slot always stays free, and the two counts complement each other.   *)
LEMMA CountsComplement ==
    ASSUME NEW r \in Ring
    PROVE  /\ ringbuffer_readable(r) \in 0 .. Size - 1
           /\ ringbuffer_avail(r) = Size - 1 - ringbuffer_readable(r)
BY RingAssumption DEF Ring, Slot, ringbuffer_readable, ringbuffer_avail

(* An index that advances by less than the size stays inside the buffer.   *)
LEMMA AdvanceStays ==
    ASSUME NEW i \in Slot, NEW n \in 0 .. Size - 1
    PROVE  Advance(i, n) \in Slot
BY RingAssumption DEF Advance, Slot

(* Advancing in two steps or in one ends in the same place. *)
LEMMA AdvanceTwice ==
    ASSUME NEW i \in Slot, NEW m \in 0 .. Size - 1, NEW n \in 0 .. Size - 1,
           m + n \in 0 .. Size - 1
    PROVE  Advance(Advance(i, m), n) = Advance(i, m + n)
BY RingAssumption DEF Advance, Slot

(* The distance undoes the advance. *)
LEMMA DistanceAdvance ==
    ASSUME NEW i \in Slot, NEW n \in 0 .. Size - 1
    PROVE  Distance(i, Advance(i, n)) = n
BY RingAssumption DEF Advance, Distance, Slot

(* The write index is where the readable bytes end. *)
LEMMA WidxEndsContents ==
    ASSUME NEW r \in Ring
    PROVE  r.widx = Advance(r.ridx, ringbuffer_readable(r))
BY RingAssumption DEF Ring, Slot, ringbuffer_readable, Advance

(* How many bytes are readable follows from where they start and end. *)
LEMMA ReadableBetween ==
    ASSUME NEW r \in Ring, NEW n \in 0 .. Size - 1, r.widx = Advance(r.ridx, n)
    PROVE  ringbuffer_readable(r) = n
BY RingAssumption DEF Ring, Slot, ringbuffer_readable, Advance

(* The bytes already in the ring are not where a write that fits goes. *)
LEMMA OldBytesAreFar ==
    ASSUME NEW r \in Ring, NEW n \in Nat, ringbuffer_readable(r) + n <= Size - 1,
           NEW j \in 0 .. ringbuffer_readable(r) - 1
    PROVE  /\ Distance(r.widx, Advance(r.ridx, j)) \in Int
           /\ Distance(r.widx, Advance(r.ridx, j)) >= n
<1>1. Size \in Nat /\ r.ridx \in 0 .. Size - 1 /\ r.widx \in 0 .. Size - 1
  BY RingAssumption DEF Ring, Slot
<1>2. CASE r.ridx > r.widx
  <2>1. ringbuffer_readable(r) = Size - r.ridx + r.widx
    BY <1>2 DEF ringbuffer_readable
  <2>2. CASE r.ridx + j >= Size
    <3>1. Advance(r.ridx, j) = r.ridx + j - Size /\ r.ridx + j - Size < r.widx
      BY <1>1, <2>1, <2>2 DEF Advance
    <3>2. Distance(r.widx, Advance(r.ridx, j)) = r.ridx + j - r.widx
      BY <1>1, <3>1 DEF Distance
    <3>. QED
      BY <1>1, <2>1, <3>2
  <2>3. CASE r.ridx + j < Size
    <3>1. Distance(r.widx, Advance(r.ridx, j)) = r.ridx + j - r.widx
      BY <1>1, <1>2, <2>3 DEF Advance, Distance
    <3>. QED
      BY <1>1, <2>1, <3>1
  <2>. QED
    BY <1>1, <2>2, <2>3
<1>3. CASE r.ridx <= r.widx
  <2>1. ringbuffer_readable(r) = r.widx - r.ridx
    BY <1>1, <1>3 DEF ringbuffer_readable
  <2>2. Distance(r.widx, Advance(r.ridx, j)) = r.ridx + j - r.widx + Size
    BY <1>1, <2>1 DEF Advance, Distance
  <2>. QED
    BY <1>1, <2>1, <2>2
<1>. QED
  BY <1>1, <1>2, <1>3

(* The contents are a sequence of bytes, one for each readable byte. *)
LEMMA ContentsType ==
    ASSUME NEW r \in Ring
    PROVE  /\ Contents(r) \in Seq(Values)
           /\ Len(Contents(r)) = ringbuffer_readable(r)
           /\ \A i \in 1 .. ringbuffer_readable(r) :
                 Contents(r)[i] = r.buffer[Advance(r.ridx, i - 1)]
<1>1. ringbuffer_readable(r) \in 0 .. Size - 1 /\ Size \in Nat
  BY CountsComplement, RingAssumption
<1>2. ASSUME NEW i \in 1 .. ringbuffer_readable(r)
      PROVE  r.buffer[Advance(r.ridx, i - 1)] \in Values
  <2>1. i - 1 \in 0 .. Size - 1
    BY <1>1
  <2>2. Advance(r.ridx, i - 1) \in Slot
    BY <2>1, AdvanceStays DEF Ring
  <2>. QED
    BY <2>2 DEF Ring
<1>3. Contents(r) \in [1 .. ringbuffer_readable(r) -> Values]
  BY <1>2 DEF Contents
<1>4. ringbuffer_readable(r) \in Nat
  BY <1>1
<1>. QED
  BY <1>3, <1>4, FunctionIsSeq DEF Contents

(* ringbuffer_write appends what fits to the contents. *)
LEMMA WriteAppends ==
    ASSUME NEW r \in Ring, NEW data \in Seq(Values),
           NEW n, n = Written(r, data),
           NEW s, s = ringbuffer_write(r, data)
    PROVE  /\ n \in 0 .. Size - 1
           /\ n <= Len(data)
           /\ s \in Ring
           /\ Contents(s) = Contents(r) \o SubSeq(data, 1, n)
<1>. DEFINE have == ringbuffer_readable(r)
<1>0. Len(data) \in Nat /\ Size \in Nat
  BY LenProperties, RingAssumption
<1>1. have \in 0 .. Size - 1 /\ ringbuffer_avail(r) = Size - 1 - have
  BY CountsComplement
<1>2. n \in 0 .. Size - 1 /\ n <= Len(data) /\ have + n \in 0 .. Size - 1
  BY <1>0, <1>1 DEF Written, Lesser
<1>3. /\ s.ridx = r.ridx
      /\ s.widx = Advance(r.widx, n)
      /\ \A k \in Slot : s.buffer[k] = IF Distance(r.widx, k) < n
                                         THEN data[Distance(r.widx, k) + 1]
                                         ELSE r.buffer[k]
  BY DEF ringbuffer_write, Ring
<1>4. s \in Ring
  <2>1. Advance(r.widx, n) \in Slot
    BY <1>2, AdvanceStays DEF Ring
  <2>2. ASSUME NEW k \in Slot, Distance(r.widx, k) < n
        PROVE  data[Distance(r.widx, k) + 1] \in Values
    <3>1. Distance(r.widx, k) + 1 \in 1 .. Len(data)
      BY <1>0, <1>2, <2>2 DEF Distance, Ring, Slot
    <3>. QED
      BY <3>1, ElementOfSeq
  <2>. QED
    BY <2>1, <2>2 DEF ringbuffer_write, Ring
<1>5. ringbuffer_readable(s) = have + n
  <2>1. s.widx = Advance(s.ridx, have + n)
    <3>1. r.ridx \in Slot
      BY DEF Ring
    <3>2. r.widx = Advance(r.ridx, have)
      BY WidxEndsContents
    <3>. HIDE DEF have
    <3>3. Advance(Advance(r.ridx, have), n) = Advance(r.ridx, have + n)
      BY <1>1, <1>2, <3>1, AdvanceTwice
    <3>. QED
      BY <1>3, <3>2, <3>3
  <2>. QED
    BY <1>2, <1>4, <2>1, ReadableBetween
<1>6. /\ SubSeq(data, 1, n) \in Seq(Values)
      /\ Len(SubSeq(data, 1, n)) = n
      /\ \A i \in 1 .. n : SubSeq(data, 1, n)[i] = data[i]
  <2>1. \A i \in 1 .. n : data[i] \in Values
    BY <1>0, <1>2, ElementOfSeq
  <2>2. 1 \in Int /\ n \in Int
    BY <1>2
  <2>3. /\ SubSeq(data, 1, n) \in Seq(Values)
        /\ Len(SubSeq(data, 1, n)) = IF 1 <= n THEN n - 1 + 1 ELSE 0
        /\ \A i \in 1 .. n - 1 + 1 : SubSeq(data, 1, n)[i] = data[1 + i - 1]
    BY <2>1, <2>2, SubSeqProperties
  <2>. QED
    BY <1>2, <2>3
<1>7. ASSUME NEW i \in 1 .. have + n
      PROVE  Contents(s)[i] = (Contents(r) \o SubSeq(data, 1, n))[i]
  <2>. DEFINE k == Advance(r.ridx, i - 1)
  <2>. HIDE DEF have, k
  <2>0. i - 1 \in 0 .. Size - 1 /\ have \in Int /\ n \in Int /\ i \in Int
    BY <1>0, <1>1, <1>2
  <2>1. k \in Slot
    BY <2>0, AdvanceStays DEF Ring, k
  <2>2. Contents(s)[i] = s.buffer[k]
    BY <1>3, <1>4, <1>5, ContentsType DEF k
  <2>3. (Contents(r) \o SubSeq(data, 1, n))[i] =
            IF i <= have THEN Contents(r)[i] ELSE SubSeq(data, 1, n)[i - have]
    <3>1. Contents(r) \in Seq(Values) /\ Len(Contents(r)) = have
      BY ContentsType DEF have
    <3>. QED
      BY <1>6, <3>1, ConcatProperties
  <2>4. CASE i <= have
    <3>1. Distance(r.widx, k) \in Int /\ Distance(r.widx, k) >= n
      <4>1. i - 1 \in 0 .. have - 1 /\ n \in Nat /\ have + n <= Size - 1
        BY <1>0, <1>2, <2>0, <2>4
      <4>. QED
        BY <4>1, OldBytesAreFar DEF k, have
    <3>2. ~(Distance(r.widx, k) < n)
      BY <2>0, <3>1
    <3>3. s.buffer[k] = r.buffer[k]
      BY <1>3, <2>1, <3>2
    <3>4. Contents(r)[i] = r.buffer[k]
      BY <2>0, <2>4, ContentsType DEF k, have
    <3>. QED
      BY <2>2, <2>3, <2>4, <3>3, <3>4
  <2>5. CASE i > have
    <3>1. i - 1 - have \in 0 .. Size - 1 /\ have + (i - 1 - have) = i - 1
      BY <1>0, <1>1, <1>2, <2>0, <2>5
    <3>2. k = Advance(r.widx, i - 1 - have)
      <4>1. r.ridx \in Slot
        BY DEF Ring
      <4>2. r.widx = Advance(r.ridx, have)
        BY WidxEndsContents DEF have
      <4>3. Advance(Advance(r.ridx, have), i - 1 - have)
              = Advance(r.ridx, have + (i - 1 - have))
        <5>1. have + (i - 1 - have) \in 0 .. Size - 1
          BY <2>0, <3>1
        <5>. QED
          BY <1>1, <3>1, <4>1, <5>1, AdvanceTwice
      <4>. QED
        BY <3>1, <4>2, <4>3 DEF k
    <3>3. Distance(r.widx, k) = i - 1 - have
      BY <3>1, <3>2, DistanceAdvance DEF Ring
    <3>4. i - 1 - have < n /\ i - 1 - have + 1 = i - have /\ i - have \in 1 .. n
      BY <2>0, <2>5
    <3>5. s.buffer[k] = data[i - have]
      BY <1>3, <2>1, <3>3, <3>4
    <3>6. SubSeq(data, 1, n)[i - have] = data[i - have]
      BY <1>6, <3>4
    <3>7. ~(i <= have)
      BY <2>0, <2>5
    <3>. QED
      BY <2>2, <2>3, <3>5, <3>6, <3>7
  <2>6. i <= have \/ i > have
    BY <2>0
  <2>. QED
    BY <2>4, <2>5, <2>6
<1>8. /\ Contents(s) \in Seq(Values)
      /\ Len(Contents(s)) = have + n
  BY <1>4, <1>5, ContentsType
<1>9. /\ Contents(r) \o SubSeq(data, 1, n) \in Seq(Values)
      /\ Len(Contents(r) \o SubSeq(data, 1, n)) = have + n
  BY <1>6, ContentsType, ConcatProperties
<1>10. Contents(s) = Contents(r) \o SubSeq(data, 1, n)
  BY <1>7, <1>8, <1>9, SeqEqual
<1>. QED
  BY <1>2, <1>4, <1>10

(* ringbuffer_read takes the oldest bytes from the contents and stores     *)
(* them.                                                                   *)
LEMMA ReadTakesOldest ==
    ASSUME NEW r \in Ring, NEW size \in Nat,
           NEW n, n = Lesser(ringbuffer_readable(r), size),
           NEW s, s = ringbuffer_read(r, size)
    PROVE  /\ s \in Ring
           /\ Given(r, size) \in Seq(Values)
           /\ Given(r, size) = SubSeq(Contents(r), 1, n)
           /\ Contents(s) = SubSeq(Contents(r), n + 1, Len(Contents(r)))
<1>. DEFINE have == ringbuffer_readable(r)
<1>0. Size \in Nat
  BY RingAssumption
<1>1. have \in 0 .. Size - 1
  BY CountsComplement
<1>2. n \in 0 .. have /\ n \in Int /\ have \in Int /\ have - n \in 0 .. Size - 1
  BY <1>0, <1>1 DEF Lesser
<1>3. s.buffer = r.buffer /\ s.ridx = Advance(r.ridx, n) /\ s.widx = r.widx
  BY DEF ringbuffer_read, Ring
<1>4. s \in Ring
  <2>1. Advance(r.ridx, n) \in Slot
    BY <1>0, <1>1, <1>2, AdvanceStays DEF Ring
  <2>. QED
    BY <2>1 DEF ringbuffer_read, Ring
<1>5. ringbuffer_readable(s) = have - n
  <2>1. n \in 0 .. Size - 1 /\ n + (have - n) = have
    BY <1>0, <1>1, <1>2
  <2>2. s.widx = Advance(s.ridx, have - n)
    <3>1. r.ridx \in Slot
      BY DEF Ring
    <3>2. r.widx = Advance(r.ridx, have)
      BY WidxEndsContents
    <3>. HIDE DEF have
    <3>3. Advance(Advance(r.ridx, n), have - n) = Advance(r.ridx, n + (have - n))
      BY <1>1, <1>2, <2>1, <3>1, AdvanceTwice
    <3>. QED
      BY <1>3, <2>1, <3>2, <3>3
  <2>. QED
    BY <1>2, <1>4, <2>2, ReadableBetween
<1>6. /\ Contents(r) \in Seq(Values)
      /\ Len(Contents(r)) = have
      /\ \A i \in 1 .. have : Contents(r)[i] = r.buffer[Advance(r.ridx, i - 1)]
  BY ContentsType
<1>7. \A i \in 1 .. have : Contents(r)[i] \in Values
  BY <1>6, ElementOfSeq
<1>8. Given(r, size) \in Seq(Values) /\ Given(r, size) = SubSeq(Contents(r), 1, n)
  <2>1. n \in Nat /\ 1 .. n \subseteq 1 .. have
    BY <1>2
  <2>2. \A i \in 1 .. n : Given(r, size)[i] = Contents(r)[i] /\ Contents(r)[i] \in Values
    BY <1>6, <1>7, <2>1 DEF Given
  <2>3. Given(r, size) \in [1 .. n -> Values]
    BY <2>2 DEF Given
  <2>4. Given(r, size) \in Seq(Values) /\ Len(Given(r, size)) = n
    BY <2>1, <2>3, FunctionIsSeq
  <2>5. /\ SubSeq(Contents(r), 1, n) \in Seq(Values)
        /\ Len(SubSeq(Contents(r), 1, n)) = IF 1 <= n THEN n - 1 + 1 ELSE 0
        /\ \A i \in 1 .. n - 1 + 1 : SubSeq(Contents(r), 1, n)[i] = Contents(r)[1 + i - 1]
    BY <1>2, <1>7, <2>1, SubSeqProperties
  <2>6. /\ Len(SubSeq(Contents(r), 1, n)) = n
        /\ \A i \in 1 .. n : SubSeq(Contents(r), 1, n)[i] = Contents(r)[i]
    BY <2>1, <2>5
  <2>7. Given(r, size) = SubSeq(Contents(r), 1, n)
    BY <2>2, <2>4, <2>5, <2>6, SeqEqual
  <2>. QED
    BY <2>4, <2>7
<1>9. Contents(s) = SubSeq(Contents(r), n + 1, have)
  <2>1. n + 1 \in Int /\ \A i \in n + 1 .. have : Contents(r)[i] \in Values
    BY <1>2, <1>7
  <2>2. /\ SubSeq(Contents(r), n + 1, have) \in Seq(Values)
        /\ Len(SubSeq(Contents(r), n + 1, have)) =
              IF n + 1 <= have THEN have - (n + 1) + 1 ELSE 0
        /\ \A i \in 1 .. have - (n + 1) + 1 :
              SubSeq(Contents(r), n + 1, have)[i] = Contents(r)[n + 1 + i - 1]
    BY <1>2, <2>1, SubSeqProperties
  <2>3. /\ Len(SubSeq(Contents(r), n + 1, have)) = have - n
        /\ \A i \in 1 .. have - n :
              SubSeq(Contents(r), n + 1, have)[i] = Contents(r)[n + i]
    <3>1. have - (n + 1) + 1 = have - n
      BY <1>2
    <3>2. \A i \in 1 .. have - n : n + 1 + i - 1 = n + i
      BY <1>2
    <3>3. Len(SubSeq(Contents(r), n + 1, have)) = have - n
      BY <1>2, <2>2, <3>1
    <3>. QED
      BY <2>2, <3>1, <3>2, <3>3
  <2>4. /\ Contents(s) \in Seq(Values)
        /\ Len(Contents(s)) = have - n
        /\ \A i \in 1 .. have - n : Contents(s)[i] = s.buffer[Advance(s.ridx, i - 1)]
    BY <1>4, <1>5, ContentsType
  <2>5. ASSUME NEW i \in 1 .. have - n
        PROVE  Contents(s)[i] = Contents(r)[n + i]
    <3>1. /\ n \in 0 .. Size - 1 /\ i - 1 \in 0 .. Size - 1
          /\ n + (i - 1) \in 0 .. Size - 1
          /\ n + i \in 1 .. have /\ n + i - 1 = n + (i - 1)
      BY <1>0, <1>1, <1>2
    <3>2. Advance(Advance(r.ridx, n), i - 1) = Advance(r.ridx, n + (i - 1))
      BY <3>1, AdvanceTwice DEF Ring
    <3>3. Contents(s)[i] = s.buffer[Advance(s.ridx, i - 1)]
      BY <2>4
    <3>4. Contents(r)[n + i] = r.buffer[Advance(r.ridx, (n + i) - 1)]
      BY <1>6, <3>1
    <3>5. s.buffer[Advance(s.ridx, i - 1)] = r.buffer[Advance(r.ridx, n + (i - 1))]
      BY <1>3, <3>2
    <3>. QED
      BY <3>1, <3>3, <3>4, <3>5
  <2>. QED
    BY <2>2, <2>3, <2>4, <2>5, SeqEqual
<1>. QED
  BY <1>4, <1>6, <1>8, <1>9

-----------------------------------------------------------------------------
(* Every buffer passed to a call is a sequence of bytes. *)
LEMMA TransfersAreSeqs ==
    ASSUME NEW n \in 0 .. MaxTransfer, NEW data \in [1 .. n -> Values]
    PROVE  data \in Seq(Values) /\ Len(data) = n
<1>1. n \in Nat
  BY TransferAssumption
<1>. QED
  BY <1>1, FunctionIsSeq

(* A new ring is well formed. *)
LEMMA InitTypeOK == RingInit => RingTypeOK
BY RingAssumption, EmptySeq DEF RingInit, NewRings, RingTypeOK

(* Reads and writes keep the ring well formed. *)
LEMMA NextTypeOK == RingTypeOK /\ [RingNext]_ringvars => RingTypeOK'
<1>. SUFFICES ASSUME RingTypeOK, [RingNext]_ringvars PROVE RingTypeOK'
  OBVIOUS
<1>. USE DEF RingTypeOK
<1>1. ASSUME NEW n \in 0 .. MaxTransfer, NEW data \in [1 .. n -> Values], Write(data)
      PROVE  RingTypeOK'
  <2>1. data \in Seq(Values)
    BY TransfersAreSeqs
  <2>2. Written(rb, data) \in 0 .. Size - 1 /\ ringbuffer_write(rb, data) \in Ring
    BY <2>1, WriteAppends
  <2>. QED
    BY <1>1, <2>2 DEF Write
<1>2. ASSUME NEW size \in 0 .. MaxTransfer, Read(size)
      PROVE  RingTypeOK'
  <2>1. size \in Nat
    BY TransferAssumption
  <2>2. Given(rb, size) \in Seq(Values) /\ ringbuffer_read(rb, size) \in Ring
    BY <2>1, ReadTakesOldest
  <2>. QED
    BY <1>2, <2>2 DEF Read
<1>3. CASE UNCHANGED ringvars
  BY <1>3 DEF ringvars
<1>. QED
  BY <1>1, <1>2, <1>3 DEF RingNext

(* The indices never leave the buffer, and a write never reports more      *)
(* bytes than the ring can hold.                                           *)
THEOREM RingTypeCorrect == RingSpec => []RingTypeOK
BY InitTypeOK, NextTypeOK, PTL DEF RingSpec

(* ringbuffer.c implements a first-in first-out queue of Size - 1 bytes.   *)
THEOREM RefinesFifo == RingSpec => ImplementsFifo
<1>1. RingInit => Fifo!AbsInit
  <2>. SUFFICES ASSUME RingInit PROVE Fifo!AbsInit
    OBVIOUS
  <2>1. rb \in Ring /\ rb.ridx = rb.widx
    BY DEF RingInit, NewRings
  <2>2. ringbuffer_readable(rb) = 0
    BY <2>1 DEF ringbuffer_readable, Ring, Slot
  <2>3. Contents(rb) \in Seq(Values) /\ Len(Contents(rb)) = 0
    BY <2>1, <2>2, ContentsType
  <2>4. Contents(rb) = <<>>
    BY <2>3, EmptySeq
  <2>. QED
    BY <2>4 DEF RingInit, Fifo!AbsInit
<1>2. ASSUME RingTypeOK, [RingNext]_ringvars PROVE [Fifo!AbsNext]_(Fifo!absVars)
  <2>0. /\ ringbuffer_readable(rb) \in 0 .. Size - 1
        /\ ringbuffer_avail(rb) = Size - 1 - ringbuffer_readable(rb)
        /\ Len(Contents(rb)) = ringbuffer_readable(rb)
    BY <1>2, CountsComplement, ContentsType DEF RingTypeOK
  <2>1. ASSUME NEW n \in 0 .. MaxTransfer, NEW data \in [1 .. n -> Values], Write(data)
        PROVE  Fifo!Put(n)
    <3>. DEFINE m == Written(rb, data)
                first == SubSeq(data, 1, m)
    <3>1. data \in Seq(Values) /\ Len(data) = n /\ n \in Nat
      BY TransfersAreSeqs, TransferAssumption
    <3>2. m = Fifo!Least(Size - 1 - Len(Contents(rb)), n)
      BY <2>0, <3>1 DEF Written, Lesser, Fifo!Least
    <3>3. /\ m \in Nat /\ m <= n
          /\ Contents(rb') = Contents(rb) \o first
      <4>1. m \in 0 .. Size - 1 /\ m <= Len(data)
            /\ Contents(rb') = Contents(rb) \o first
        BY <1>2, <2>1, <3>1, WriteAppends DEF RingTypeOK, Write
      <4>. HIDE DEF m, first
      <4>. QED
        BY <3>1, <4>1, RingAssumption
    <3>4. first \in [1 .. m -> Values]
      <4>. HIDE DEF m
      <4>1. \A i \in 1 .. m : data[i] \in Values
        BY <3>1, <3>3
      <4>2. first \in Seq(Values) /\ Len(first) = m
        BY <3>3, <4>1, SubSeqProperties
      <4>. HIDE DEF first
      <4>. QED
        BY <4>2, LenProperties
    <3>5. taken' = m /\ given' = given
      BY <2>1 DEF Write
    <3>. HIDE DEF m, first
    <3>. QED
      BY <3>2, <3>3, <3>4, <3>5 DEF Fifo!Put
  <2>2. ASSUME NEW size \in 0 .. MaxTransfer, Read(size)
        PROVE  Fifo!Get(size)
    <3>1. size \in Nat
      BY TransferAssumption
    <3>. DEFINE m == Lesser(ringbuffer_readable(rb), size)
    <3>2. m = Fifo!Least(Len(Contents(rb)), size)
      BY <2>0 DEF Lesser, Fifo!Least
    <3>3. /\ Given(rb, size) = SubSeq(Contents(rb), 1, m)
          /\ Contents(rb') = SubSeq(Contents(rb), m + 1, Len(Contents(rb)))
      BY <1>2, <2>2, <3>1, ReadTakesOldest DEF RingTypeOK, Read
    <3>. QED
      BY <2>2, <3>2, <3>3 DEF Read, Fifo!Get
  <2>3. CASE UNCHANGED ringvars
    BY <2>3 DEF ringvars, Fifo!absVars
  <2>. QED
    BY <1>2, <2>1, <2>2, <2>3 DEF RingNext, Fifo!AbsNext
<1>. QED
  BY <1>1, <1>2, InitTypeOK, NextTypeOK, PTL DEF RingSpec, ImplementsFifo, Fifo!AbsSpec

-----------------------------------------------------------------------------
(* The keyboard and the pty.                                               *)

Codes == Keys \cup {"shift down", "shift up", "caps lock"}
Scancode == [code : Codes, meant : Codes \X BOOLEAN]

(* What Shift and Caps Lock are after a scancode. *)
ShiftAfter(code, b) ==
    IF code = "shift down" THEN TRUE ELSE IF code = "shift up" THEN FALSE ELSE b
CapsAfter(code, b) == Differs(b, code = "caps lock")

(* sh[i] and lk[i] are what Shift and Caps Lock are after i of the         *)
(* scancodes of q, and each character in q was meant with the ones before  *)
(* it.                                                                     *)
Follows(q, sh, lk) ==
    /\ sh \in [0 .. Len(q) -> BOOLEAN] /\ lk \in [0 .. Len(q) -> BOOLEAN]
    /\ \A i \in 1 .. Len(q) :
          /\ sh[i] = ShiftAfter(q[i].code, sh[i - 1])
          /\ lk[i] = CapsAfter(q[i].code, lk[i - 1])
          /\ q[i].meant = Char(q[i].code, Differs(sh[i - 1], lk[i - 1]))

(* The handler's flags, brought up to date with the scancodes that it has  *)
(* not seen, are the user's.                                               *)
FlagsFollow ==
    ~missed => \E sh, lk \in [0 .. Len(scancodes) -> BOOLEAN] :
        /\ Follows(scancodes, sh, lk)
        /\ sh[0] = _kbd_shift /\ lk[0] = _kbd_caps_lock
        /\ sh[Len(scancodes)] = down /\ lk[Len(scancodes)] = locked

(* pos says where each element of s is in t, from left to right. *)
Picks(pos, s, t) ==
    /\ pos \in [1 .. Len(s) -> 1 .. Len(t)]
    /\ \A i, j \in 1 .. Len(s) : i < j => pos[i] < pos[j]
    /\ \A i \in 1 .. Len(s) : s[i] = t[pos[i]]

Held == received \o Contents(rb)

HeldPicked == \E pos \in [1 .. Len(Held) -> 1 .. Len(echoed)] : Picks(pos, Held, echoed)

(* The places pos picks for s, and those of the characters that the line   *)
(* does not discard.                                                       *)
Image(pos, s) == {pos[i] : i \in 1 .. Len(s)}
Places(t) == {i \in DOMAIN t : t[i] # CR}

EchoPicked ==
    \E pos \in [1 .. Len(echoed) -> 1 .. Len(handed)] :
        /\ Picks(pos, echoed, handed)
        /\ Image(pos, echoed) = Places(handed)

(* What the keyboard has handed over, what of it is shown, what of that is *)
(* held, and how much the keyboard may still hand over.                    *)
Line ==
    /\ EchoPicked
    /\ HeldPicked
    /\ Len(Held) + dropped = Len(echoed)
    /\ Len(echoed) <= Len(handed)

Bounded == Len(handed) + Cardinality(Unserved) <= MaxTyped

IInv ==
    /\ TypeOK
    /\ scancodes \in Seq(Scancode)
    /\ Bounded
    /\ FlagsFollow
    /\ Line
-----------------------------------------------------------------------------
(* A key gives one of the characters that the line takes, or '\r'. *)
LEMMA CharsAreValues ==
    ASSUME NEW code, NEW upper \in BOOLEAN
    PROVE  /\ Taken(Char(code, upper)) <=> Gives(code, upper) /\ Char(code, upper) # CR
           /\ Taken(Char(code, upper)) => Char(code, upper) \in Values
           /\ Gives(code, upper) => Char(code, upper) \in Values \cup {CR}
<1>. DEFINE c == Char(code, upper)
<1>1. c[1] = code
  BY DEF Char
<1>2. Taken(c) <=> Gives(code, upper) /\ c # CR
  <2>. HIDE DEF c
  <2>. QED
    BY <1>1, Zenon DEF Taken, Gives, c
<1>3. ASSUME Taken(c) PROVE c \in Values
  <2>1. code \in Keys
    BY <1>1, <1>3 DEF Taken
  <2>2. <<code, upper>> \in Keys \X BOOLEAN /\ c = Char(<<code, upper>>[1], <<code, upper>>[2])
    BY <2>1
  <2>. HIDE DEF c
  <2>3. c \in {Char(typed[1], typed[2]) : typed \in Keys \X BOOLEAN}
    BY <2>2
  <2>. QED
    BY <1>3, <2>3, TtyAssumption
<1>. QED
  BY <1>2, <1>3

(* A key or a modifier, with what the user meant, is a scancode. *)
LEMMA ScancodeType ==
    ASSUME NEW code \in Codes, NEW upper \in BOOLEAN
    PROVE  [code |-> code, meant |-> Char(code, upper)] \in Scancode
BY DEF Scancode, Char

(* What the bounds are. *)
LEMMA BoundsTypes ==
    KbdBuffer \in Nat /\ MaxTyped \in Nat /\ MaxTransfer \in Nat /\ 1 \in 0 .. MaxTransfer
<1>1. KbdBuffer \in Nat /\ MaxTyped \in Nat /\ MaxTransfer >= 1
  BY TtyAssumption, Zenon
<1>. QED
  BY <1>1, TransferAssumption

(* A sequence of what the keyboard keeps, one scancode longer or shorter.  *)
LEMMA Longer ==
    ASSUME NEW S, NEW q \in Seq(S), NEW x \in S
    PROVE  /\ Append(q, x) \in Seq(S)
           /\ Len(q) \in Nat /\ Len(Append(q, x)) = Len(q) + 1
           /\ \A i \in 1 .. Len(q) : Append(q, x)[i] = q[i]
           /\ Append(q, x)[Len(q) + 1] = x
BY AppendProperties, LenProperties

(* The first scancode, and those behind it. *)
LEMMA Shorter ==
    ASSUME NEW S, NEW q \in Seq(S), q # <<>>
    PROVE  /\ Head(q) = q[1] /\ Head(q) \in S
           /\ Tail(q) \in Seq(S)
           /\ Len(q) \in Nat /\ Len(q) >= 1 /\ Len(Tail(q)) = Len(q) - 1
           /\ \A i \in 1 .. Len(q) - 1 : Tail(q)[i] = q[i + 1]
<1>1. Len(q) \in Nat /\ Len(q) >= 1 /\ q[1] \in S
  BY EmptySeq, LenProperties, ElementOfSeq
<1>. QED
  BY <1>1, HeadTailProperties
-----------------------------------------------------------------------------
(* The flags of the handler.                                               *)

(* A scancode more: the flags after it are those the user sees.            *)
LEMMA FollowsMore ==
    ASSUME NEW q \in Seq(Scancode), NEW sh, NEW lk, Follows(q, sh, lk),
           NEW code \in Codes,
           NEW x, x = [code |-> code, meant |-> Char(code, Differs(sh[Len(q)], lk[Len(q)]))],
           NEW r, r = Append(q, x)
    PROVE  \E sh1, lk1 \in [0 .. Len(r) -> BOOLEAN] :
              /\ Follows(r, sh1, lk1)
              /\ sh1[0] = sh[0] /\ lk1[0] = lk[0]
              /\ sh1[Len(r)] = ShiftAfter(code, sh[Len(q)])
              /\ lk1[Len(r)] = CapsAfter(code, lk[Len(q)])
<1>. DEFINE n == Len(q)
            s == ShiftAfter(code, sh[n])
            l == CapsAfter(code, lk[n])
            sh1 == [i \in 0 .. n + 1 |-> IF i <= n THEN sh[i] ELSE s]
            lk1 == [i \in 0 .. n + 1 |-> IF i <= n THEN lk[i] ELSE l]
<1>0. n \in Nat /\ sh \in [0 .. n -> BOOLEAN] /\ lk \in [0 .. n -> BOOLEAN]
  BY LenProperties DEF Follows
<1>1. sh[n] \in BOOLEAN /\ lk[n] \in BOOLEAN
  BY <1>0
<1>2. x \in Scancode
  BY <1>1, ScancodeType DEF Differs
<1>3. /\ Len(r) = n + 1
      /\ \A i \in 1 .. n : r[i] = q[i]
      /\ r[n + 1] = x
  BY <1>2, Longer
<1>4. s \in BOOLEAN /\ l \in BOOLEAN
  BY <1>1 DEF ShiftAfter, CapsAfter, Differs
<1>. HIDE DEF s, l
<1>5. sh1 \in [0 .. Len(r) -> BOOLEAN] /\ lk1 \in [0 .. Len(r) -> BOOLEAN]
  BY <1>0, <1>3, <1>4
<1>6. /\ sh1[0] = sh[0] /\ lk1[0] = lk[0]
      /\ sh1[n + 1] = s /\ lk1[n + 1] = l
      /\ \A i \in 0 .. n : sh1[i] = sh[i] /\ lk1[i] = lk[i]
  BY <1>0
<1>. HIDE DEF sh1, lk1
<1>7. Follows(r, sh1, lk1)
  <2>. SUFFICES ASSUME NEW i \in 1 .. n + 1
                PROVE  /\ sh1[i] = ShiftAfter(r[i].code, sh1[i - 1])
                       /\ lk1[i] = CapsAfter(r[i].code, lk1[i - 1])
                       /\ r[i].meant = Char(r[i].code, Differs(sh1[i - 1], lk1[i - 1]))
    BY <1>3, <1>5 DEF Follows
  <2>0. i - 1 \in 0 .. n
    BY <1>0
  <2>1. CASE i \in 1 .. n
    <3>1. sh1[i] = sh[i] /\ lk1[i] = lk[i] /\ sh1[i - 1] = sh[i - 1] /\ lk1[i - 1] = lk[i - 1]
      BY <1>6, <2>0, <2>1
    <3>. QED
      BY <1>3, <2>1, <3>1 DEF Follows
  <2>2. CASE i = n + 1
    <3>1. sh1[i - 1] = sh[n] /\ lk1[i - 1] = lk[n]
      BY <1>0, <1>6, <2>2
    <3>2. x.code = code /\ x.meant = Char(code, Differs(sh[n], lk[n]))
      OBVIOUS
    <3>. HIDE DEF n
    <3>. QED
      BY <1>3, <1>6, <2>2, <3>1, <3>2 DEF s, l
  <2>. QED
    BY <1>0, <2>1, <2>2
<1>. QED
  BY <1>3, <1>5, <1>6, <1>7 DEF s, l

(* The first scancode is served: the flags after it are the handler's.     *)
LEMMA FollowsFewer ==
    ASSUME NEW q \in Seq(Scancode), q # <<>>, NEW sh, NEW lk, Follows(q, sh, lk)
    PROVE  /\ Head(q).meant = Char(Head(q).code, Differs(sh[0], lk[0]))
           /\ \E sh1, lk1 \in [0 .. Len(Tail(q)) -> BOOLEAN] :
                 /\ Follows(Tail(q), sh1, lk1)
                 /\ sh1[0] = ShiftAfter(Head(q).code, sh[0])
                 /\ lk1[0] = CapsAfter(Head(q).code, lk[0])
                 /\ sh1[Len(Tail(q))] = sh[Len(q)]
                 /\ lk1[Len(Tail(q))] = lk[Len(q)]
<1>. DEFINE n == Len(q)
            sh1 == [i \in 0 .. n - 1 |-> sh[i + 1]]
            lk1 == [i \in 0 .. n - 1 |-> lk[i + 1]]
<1>0. /\ Head(q) = q[1]
      /\ n \in Nat /\ n >= 1 /\ Len(Tail(q)) = n - 1
      /\ \A i \in 1 .. n - 1 : Tail(q)[i] = q[i + 1]
  BY Shorter
<1>1. /\ sh \in [0 .. n -> BOOLEAN] /\ lk \in [0 .. n -> BOOLEAN]
      /\ \A i \in 1 .. n : /\ sh[i] = ShiftAfter(q[i].code, sh[i - 1])
                           /\ lk[i] = CapsAfter(q[i].code, lk[i - 1])
                           /\ q[i].meant = Char(q[i].code, Differs(sh[i - 1], lk[i - 1]))
  BY DEF Follows
<1>. HIDE DEF n
<1>2. sh1 \in [0 .. n - 1 -> BOOLEAN] /\ lk1 \in [0 .. n - 1 -> BOOLEAN]
  BY <1>0, <1>1
<1>3. \A i \in 0 .. n - 1 : sh1[i] = sh[i + 1] /\ lk1[i] = lk[i + 1]
  OBVIOUS
<1>. HIDE DEF sh1, lk1
<1>4. /\ sh[1] = ShiftAfter(q[1].code, sh[0])
      /\ lk[1] = CapsAfter(q[1].code, lk[0])
      /\ q[1].meant = Char(q[1].code, Differs(sh[0], lk[0]))
  BY <1>0, <1>1
<1>5. ASSUME NEW i \in 1 .. n - 1
      PROVE  /\ sh1[i] = ShiftAfter(Tail(q)[i].code, sh1[i - 1])
             /\ lk1[i] = CapsAfter(Tail(q)[i].code, lk1[i - 1])
             /\ Tail(q)[i].meant = Char(Tail(q)[i].code, Differs(sh1[i - 1], lk1[i - 1]))
  <2>1. i + 1 \in 1 .. n /\ i \in 0 .. n - 1 /\ i - 1 \in 0 .. n - 1 /\ (i + 1) - 1 = i
        /\ (i - 1) + 1 = i
    BY <1>0
  <2>2. /\ sh1[i] = sh[i + 1] /\ lk1[i] = lk[i + 1]
        /\ sh1[i - 1] = sh[i] /\ lk1[i - 1] = lk[i]
        /\ Tail(q)[i] = q[i + 1]
    BY <1>0, <1>3, <2>1
  <2>3. /\ sh[i + 1] = ShiftAfter(q[i + 1].code, sh[i])
        /\ lk[i + 1] = CapsAfter(q[i + 1].code, lk[i])
        /\ q[i + 1].meant = Char(q[i + 1].code, Differs(sh[i], lk[i]))
    BY <1>1, <2>1
  <2>. QED
    BY <2>2, <2>3
<1>6. Follows(Tail(q), sh1, lk1)
  BY <1>0, <1>2, <1>5 DEF Follows
<1>7. sh1[0] = sh[1] /\ lk1[0] = lk[1] /\ sh1[n - 1] = sh[n] /\ lk1[n - 1] = lk[n]
  BY <1>0, <1>3
<1>. QED
  BY <1>0, <1>2, <1>4, <1>6, <1>7 DEF n
-----------------------------------------------------------------------------
(* How many characters the keyboard keeps.                                 *)
UnservedIn(q) == {i \in DOMAIN q : q[i].code \in Keys}

(* A sequence of scancodes has finitely many characters. *)
LEMMA UnservedFinite ==
    ASSUME NEW q \in Seq(Scancode)
    PROVE  /\ IsFiniteSet(UnservedIn(q)) /\ Cardinality(UnservedIn(q)) \in Nat
           /\ \A i : i \in UnservedIn(q) <=> i \in 1 .. Len(q) /\ q[i].code \in Keys
<1>1. DOMAIN q = 1 .. Len(q) /\ Len(q) \in Nat
  BY LenProperties
<1>2. IsFiniteSet(1 .. Len(q))
  BY <1>1, FS_Interval
<1>3. UnservedIn(q) \subseteq 1 .. Len(q)
  BY <1>1 DEF UnservedIn
<1>4. IsFiniteSet(UnservedIn(q))
  BY <1>2, <1>3, FS_Subset
<1>. QED
  BY <1>1, <1>4, FS_CardinalityType DEF UnservedIn

(* A character more, or a modifier. *)
LEMMA UnservedMore ==
    ASSUME NEW q \in Seq(Scancode), NEW x \in Scancode
    PROVE  Cardinality(UnservedIn(Append(q, x)))
             = Cardinality(UnservedIn(q)) + IF x.code \in Keys THEN 1 ELSE 0
<1>. DEFINE n == Len(q)
            r == Append(q, x)
            U == UnservedIn(q)
            W == UnservedIn(r)
<1>1. r \in Seq(Scancode) /\ n \in Nat /\ Len(r) = n + 1 /\ r[n + 1] = x
      /\ \A i \in 1 .. n : r[i] = q[i]
  BY Longer
<1>2. /\ \A i : i \in U <=> i \in 1 .. n /\ q[i].code \in Keys
      /\ \A i : i \in W <=> i \in 1 .. n + 1 /\ r[i].code \in Keys
      /\ IsFiniteSet(U) /\ Cardinality(U) \in Nat
  BY <1>1, UnservedFinite
<1>. HIDE DEF n, r, U, W
<1>3. n + 1 \notin U /\ (n + 1 \in W <=> x.code \in Keys)
  BY <1>1, <1>2
<1>4. \A i : i # n + 1 => (i \in W <=> i \in U)
  BY <1>1, <1>2
<1>5. CASE x.code \in Keys
  <2>1. W = U \cup {n + 1}
    BY <1>3, <1>4, <1>5
  <2>2. Cardinality(W) = Cardinality(U) + 1
    BY <1>2, <1>3, <2>1, FS_AddElement
  <2>. QED
    BY <1>5, <2>2 DEF U, W, r
<1>6. CASE x.code \notin Keys
  <2>1. W = U
    BY <1>3, <1>4, <1>6
  <2>. QED
    BY <1>2, <1>6, <2>1 DEF U, W, r
<1>. QED
  BY <1>5, <1>6

(* One is served. *)
LEMMA UnservedFewer ==
    ASSUME NEW q \in Seq(Scancode), q # <<>>
    PROVE  Cardinality(UnservedIn(Tail(q)))
             = Cardinality(UnservedIn(q)) - IF Head(q).code \in Keys THEN 1 ELSE 0
<1>. DEFINE n == Len(q)
            U == UnservedIn(q)
            W == UnservedIn(Tail(q))
            g == [i \in W |-> i + 1]
<1>1. /\ Head(q) = q[1] /\ Tail(q) \in Seq(Scancode)
      /\ n \in Nat /\ n >= 1 /\ Len(Tail(q)) = n - 1
      /\ \A i \in 1 .. n - 1 : Tail(q)[i] = q[i + 1]
  BY Shorter
<1>2. /\ \A i : i \in U <=> i \in 1 .. n /\ q[i].code \in Keys
      /\ \A i : i \in W <=> i \in 1 .. n - 1 /\ Tail(q)[i].code \in Keys
      /\ IsFiniteSet(U) /\ Cardinality(U) \in Nat /\ IsFiniteSet(W)
  BY <1>1, UnservedFinite
<1>. HIDE DEF n, U, W
<1>3. \A i \in W : i \in 1 .. n - 1 /\ i + 1 \in 1 .. n /\ i + 1 # 1 /\ i + 1 \in U
  BY <1>1, <1>2
<1>4. ASSUME NEW j \in U, j # 1 PROVE j - 1 \in W /\ (j - 1) + 1 = j
  <2>1. j \in 1 .. n /\ j - 1 \in 1 .. n - 1 /\ (j - 1) + 1 = j
    BY <1>1, <1>2, <1>4
  <2>2. Tail(q)[j - 1] = q[j]
    BY <1>1, <2>1
  <2>. QED
    BY <1>2, <1>4, <2>1, <2>2
<1>5. g \in Bijection(W, U \ {1})
  <2>1. g \in [W -> U \ {1}]
    BY <1>3
  <2>2. \A a, b \in W : g[a] = g[b] => a = b
    BY <1>3
  <2>3. \A j \in U \ {1} : \E i \in W : g[i] = j
    BY <1>4
  <2>. HIDE DEF g
  <2>. QED
    BY <2>1, <2>2, <2>3 DEF Bijection, Injection, Surjection, IsInjective
<1>6. Cardinality(W) = Cardinality(U \ {1})
  <2>1. ExistsBijection(W, U \ {1})
    BY <1>5 DEF ExistsBijection
  <2>2. IsFiniteSet(U \ {1})
    BY <1>2, FS_RemoveElement
  <2>. QED
    BY <1>2, <2>1, <2>2, FS_Bijection
<1>7. 1 \in U <=> Head(q).code \in Keys
  BY <1>1, <1>2
<1>8. Cardinality(U \ {1}) = IF 1 \in U THEN Cardinality(U) - 1 ELSE Cardinality(U)
  BY <1>2, FS_RemoveElement
<1>. QED
  BY <1>2, <1>6, <1>7, <1>8 DEF U, W
-----------------------------------------------------------------------------
(* Subsequences.                                                           *)

(* The places picked for u are those for s, and k if u has x besides. *)
ImageGrows(p1, u, pos, s, x, k) ==
    /\ u = s => Image(p1, u) = Image(pos, s)
    /\ u = Append(s, x) => Image(p1, u) = Image(pos, s) \cup {k}

(* One more of both, or of the longer one only.                            *)
LEMMA PicksMore ==
    ASSUME NEW S, NEW s \in Seq(S), NEW t \in Seq(S), NEW x \in S, NEW pos, Picks(pos, s, t),
           NEW u, u = s \/ u = Append(s, x)
    PROVE  \E p1 \in [1 .. Len(u) -> 1 .. Len(Append(t, x))] :
              /\ Picks(p1, u, Append(t, x))
              /\ ImageGrows(p1, u, pos, s, x, Len(t) + 1)
<1>. DEFINE m == Len(s)
            n == Len(t)
            t1 == Append(t, x)
<1>1. /\ m \in Nat /\ n \in Nat
      /\ Len(t1) = n + 1 /\ t1[n + 1] = x /\ \A i \in 1 .. n : t1[i] = t[i]
  BY Longer, LenProperties
<1>2. /\ pos \in [1 .. m -> 1 .. n]
      /\ \A i, j \in 1 .. m : i < j => pos[i] < pos[j]
      /\ \A i \in 1 .. m : s[i] = t[pos[i]]
  BY DEF Picks
<1>3. CASE u = s
  <2>1. pos \in [1 .. m -> 1 .. n + 1]
    BY <1>1, <1>2
  <2>2. \A i \in 1 .. m : s[i] = t1[pos[i]]
    BY <1>1, <1>2
  <2>3. Picks(pos, s, t1)
    BY <1>1, <1>2, <2>1, <2>2 DEF Picks
  <2>4. u # Append(s, x)
    <3>1. Len(Append(s, x)) = m + 1
      BY Longer
    <3>. QED
      BY <1>1, <1>3, <3>1
  <2>5. ImageGrows(pos, u, pos, s, x, Len(t) + 1)
    BY <1>3, <2>4 DEF ImageGrows
  <2>. QED
    BY <1>1, <1>3, <2>1, <2>3, <2>5
<1>4. CASE u = Append(s, x)
  <2>. DEFINE p1 == [i \in 1 .. m + 1 |-> IF i <= m THEN pos[i] ELSE n + 1]
  <2>1. Len(u) = m + 1 /\ u[m + 1] = x /\ \A i \in 1 .. m : u[i] = s[i]
    BY <1>4, Longer
  <2>. HIDE DEF m, n, t1
  <2>2. p1 \in [1 .. m + 1 -> 1 .. n + 1]
    BY <1>1, <1>2
  <2>3. p1[m + 1] = n + 1 /\ \A i \in 1 .. m : p1[i] = pos[i]
    BY <1>1
  <2>. HIDE DEF p1
  <2>4. ASSUME NEW i \in 1 .. m + 1, NEW j \in 1 .. m + 1, i < j PROVE p1[i] < p1[j]
    <3>1. i \in 1 .. m /\ (j \in 1 .. m \/ j = m + 1)
      BY <1>1, <2>4
    <3>2. pos[i] \in 1 .. n /\ p1[i] = pos[i]
      BY <1>2, <2>3, <3>1
    <3>3. CASE j \in 1 .. m
      <4>1. p1[j] = pos[j] /\ pos[i] < pos[j]
        BY <1>2, <2>3, <2>4, <3>1, <3>3
      <4>. QED
        BY <3>2, <4>1
    <3>4. CASE j = m + 1
      BY <1>1, <2>3, <3>2, <3>4
    <3>. QED
      BY <3>1, <3>3, <3>4
  <2>5. ASSUME NEW i \in 1 .. m + 1 PROVE u[i] = t1[p1[i]]
    <3>1. CASE i \in 1 .. m
      <4>1. p1[i] = pos[i] /\ u[i] = s[i] /\ s[i] = t[pos[i]]
        BY <1>2, <2>1, <2>3, <3>1
      <4>2. pos[i] \in 1 .. n
        BY <1>2, <3>1
      <4>. QED
        BY <1>1, <4>1, <4>2
    <3>2. CASE i = m + 1
      BY <1>1, <2>1, <2>3, <3>2
    <3>. QED
      BY <1>1, <3>1, <3>2
  <2>6. Picks(p1, u, t1)
    BY <1>1, <2>1, <2>2, <2>4, <2>5 DEF Picks
  <2>7. Image(p1, u) = Image(pos, s) \cup {n + 1}
    <3>1. ASSUME NEW i \in 1 .. m + 1 PROVE p1[i] \in Image(pos, s) \cup {n + 1}
      <4>1. i \in 1 .. m \/ i = m + 1
        BY <1>1
      <4>. QED
        BY <2>3, <4>1 DEF Image, m
    <3>2. ASSUME NEW i \in 1 .. m PROVE i \in 1 .. m + 1 /\ pos[i] = p1[i]
      BY <1>1, <2>3
    <3>3. m + 1 \in 1 .. m + 1 /\ p1[m + 1] = n + 1
      BY <1>1, <2>3
    <3>4. Image(p1, u) = {p1[i] : i \in 1 .. m + 1} /\ Image(pos, s) = {pos[i] : i \in 1 .. m}
      BY <2>1 DEF Image, m
    <3>. QED
      BY <3>1, <3>2, <3>3, <3>4
  <2>8. u # s
    BY <1>1, <2>1 DEF m
  <2>9. ImageGrows(p1, u, pos, s, x, n + 1)
    BY <2>7, <2>8 DEF ImageGrows
  <2>. QED
    BY <1>1, <2>1, <2>2, <2>6, <2>9 DEF t1, n
<1>. QED
  BY <1>3, <1>4

(* The ranks of the picked places are 1, 2, ...                            *)
LEMMA PicksAreKept ==
    ASSUME NEW S, NEW s \in Seq(S), NEW t \in Seq(S), NEW pos, Picks(pos, s, t)
    PROVE  /\ Image(pos, s) \in SUBSET DOMAIN t
           /\ s = Kept(t, Image(pos, s))
<1>. DEFINE m == Len(s)
            n == Len(t)
            kept == {pos[i] : i \in 1 .. m}
            Upto(i) == {j \in kept : j <= i}
<1>1. m \in Nat /\ n \in Nat /\ DOMAIN t = 1 .. n /\ DOMAIN s = 1 .. m
  BY LenProperties
<1>2. /\ pos \in [1 .. m -> 1 .. n]
      /\ \A i, j \in 1 .. m : i < j => pos[i] < pos[j]
      /\ \A i \in 1 .. m : s[i] = t[pos[i]]
  BY DEF Picks
<1>. HIDE DEF m, n
<1>3. ASSUME NEW i \in 1 .. m, NEW j \in 1 .. m PROVE pos[i] <= pos[j] <=> i <= j
  <2>1. pos[i] \in 1 .. n /\ pos[j] \in 1 .. n
    BY <1>2
  <2>. QED
    BY <1>1, <1>2, <2>1
<1>4. ASSUME NEW k \in 0 .. m
      PROVE  LET K == {pos[i] : i \in 1 .. k} IN Cardinality(K) = k
  <2>. DEFINE K == {pos[i] : i \in 1 .. k}
              g == [i \in 1 .. k |-> pos[i]]
  <2>1. k \in Nat /\ \A i \in 1 .. k : i \in 1 .. m
    BY <1>1
  <2>2. g \in [1 .. k -> K] /\ \A x \in K : \E i \in 1 .. k : g[i] = x
    OBVIOUS
  <2>3. ASSUME NEW i \in 1 .. k, NEW j \in 1 .. k, g[i] = g[j] PROVE i = j
    <3>1. pos[i] = pos[j] /\ pos[i] \in 1 .. n /\ i \in 1 .. m /\ j \in 1 .. m
      BY <1>2, <2>1, <2>3
    <3>2. i <= j /\ j <= i
      BY <1>1, <1>3, <3>1
    <3>. QED
      BY <2>1, <3>2
  <2>. HIDE DEF g, K
  <2>4. g \in Bijection(1 .. k, K)
    BY <2>2, <2>3 DEF Bijection, Injection, Surjection, IsInjective
  <2>5. ExistsBijection(1 .. k, K)
    BY <2>4 DEF ExistsBijection
  <2>6. Cardinality(K) = k
    BY <2>1, <2>5, FS_CountingElements
  <2>. QED
    BY <2>6 DEF K
<1>5. Cardinality(kept) = m
  BY <1>1, <1>4
<1>6. ASSUME NEW k \in 1 .. m PROVE Cardinality(Upto(pos[k])) = k
  <2>1. Upto(pos[k]) = {pos[i] : i \in 1 .. k}
    <3>1. ASSUME NEW x \in Upto(pos[k]) PROVE x \in {pos[i] : i \in 1 .. k}
      <4>1. PICK i \in 1 .. m : x = pos[i] /\ pos[i] <= pos[k]
        OBVIOUS
      <4>2. i \in 1 .. k
        BY <1>1, <1>3, <4>1
      <4>. QED
        BY <4>1, <4>2
    <3>2. ASSUME NEW i \in 1 .. k PROVE pos[i] \in Upto(pos[k])
      <4>1. i \in 1 .. m /\ i <= k
        BY <1>1
      <4>. QED
        BY <1>3, <4>1
    <3>. QED
      BY <3>1, <3>2
  <2>2. k \in 0 .. m
    BY <1>1
  <2>. QED
    BY <1>4, <2>1, <2>2
<1>7. ASSUME NEW k \in 1 .. m
      PROVE  (CHOOSE i \in kept : Cardinality(Upto(i)) = k) = pos[k]
  <2>1. pos[k] \in kept /\ Cardinality(Upto(pos[k])) = k
    BY <1>6
  <2>2. ASSUME NEW i \in kept, Cardinality(Upto(i)) = k PROVE i = pos[k]
    <3>1. PICK j \in 1 .. m : i = pos[j]
      OBVIOUS
    <3>. HIDE DEF Upto
    <3>2. Cardinality(Upto(i)) = j
      BY <1>6, <3>1
    <3>. QED
      BY <2>2, <3>1, <3>2
  <2>. HIDE DEF kept, Upto
  <2>. QED
    BY <2>1, <2>2
<1>8. kept \in SUBSET DOMAIN t
  BY <1>1, <1>2
<1>9. s = [k \in 1 .. m |-> s[k]]
  BY <1>1
<1>10. s = [k \in 1 .. m |-> t[CHOOSE i \in kept : Cardinality(Upto(i)) = k]]
  <2>. HIDE DEF kept, Upto
  <2>. QED
    BY <1>2, <1>7, <1>9
<1>11. kept = Image(pos, s)
  BY DEF Image, m
<1>12. s = Kept(t, kept)
  <2>. HIDE DEF kept
  <2>. QED
    BY <1>5, <1>10 DEF Kept, Upto
<1>. QED
  BY <1>8, <1>11, <1>12
-----------------------------------------------------------------------------
(* Every step keeps the invariant.                                         *)

LEMMA InitIInv == Init => IInv
<1>. SUFFICES ASSUME Init PROVE IInv
  OBVIOUS
<1>. USE DEF Init
<1>1. RingTypeOK
  BY InitTypeOK
<1>2. TypeOK
  <2>1. /\ handed \in Seq(Values \cup {CR})
        /\ echoed \in Seq(Values) /\ received \in Seq(Values) /\ Len(scancodes) = 0
    BY EmptySeq
  <2>2. dropped \in 0 .. MaxTyped
    BY BoundsTypes
  <2>3. Len(scancodes) <= KbdBuffer
    BY <2>1, BoundsTypes
  <2>. QED
    BY <1>1, <2>1, <2>2, <2>3 DEF TypeOK
<1>3. Unserved = {}
  BY DEF Unserved
<1>4. Bounded
  <2>1. Cardinality({}) = 0 /\ Len(handed) = 0
    BY FS_EmptySet
  <2>. QED
    BY <1>3, <2>1, BoundsTypes DEF Bounded
<1>5. FlagsFollow
  <2>. DEFINE f == [i \in 0 .. 0 |-> FALSE]
  <2>1. Len(scancodes) = 0
    OBVIOUS
  <2>2. f \in [0 .. Len(scancodes) -> BOOLEAN] /\ f[0] = FALSE
    BY <2>1
  <2>. HIDE DEF f
  <2>3. Follows(scancodes, f, f)
    BY <2>1, <2>2 DEF Follows
  <2>. QED
    BY <2>1, <2>2, <2>3 DEF FlagsFollow
<1>6. Contents(rb) = <<>>
  <2>1. rb \in Ring /\ rb.ridx = rb.widx
    BY <1>1 DEF RingInit, NewRings, RingTypeOK
  <2>2. ringbuffer_readable(rb) = 0
    BY <2>1 DEF ringbuffer_readable, Ring, Slot
  <2>3. Contents(rb) \in Seq(Values) /\ Len(Contents(rb)) = 0
    BY <2>1, <2>2, ContentsType
  <2>. QED
    BY <2>3, EmptySeq
<1>7. Held = <<>>
  BY <1>6 DEF Held
<1>8. HeldPicked
  <2>. DEFINE f == [i \in 1 .. 0 |-> 1]
  <2>1. Len(Held) = 0 /\ Len(echoed) = 0
    BY <1>7
  <2>2. f \in [1 .. Len(Held) -> 1 .. Len(echoed)]
    BY <2>1
  <2>3. Picks(f, Held, echoed)
    BY <2>1, <2>2 DEF Picks
  <2>. QED
    BY <2>2, <2>3 DEF HeldPicked
<1>9. EchoPicked
  <2>. DEFINE f == [i \in 1 .. 0 |-> 1]
  <2>1. Len(handed) = 0 /\ Len(echoed) = 0 /\ DOMAIN handed = {}
    OBVIOUS
  <2>2. f \in [1 .. Len(echoed) -> 1 .. Len(handed)]
    BY <2>1
  <2>3. Picks(f, echoed, handed)
    BY <2>1, <2>2 DEF Picks
  <2>4. Image(f, echoed) = {} /\ Places(handed) = {}
    BY <2>1 DEF Image, Places
  <2>. QED
    BY <2>2, <2>3, <2>4 DEF EchoPicked
<1>10. Line
  <2>1. Len(Held) = 0 /\ Len(echoed) = 0 /\ Len(handed) = 0 /\ dropped = 0
    BY <1>7
  <2>. QED
    BY <1>8, <1>9, <2>1 DEF Line
<1>. QED
  BY <1>2, <1>4, <1>5, <1>10, EmptySeq DEF IInv

(* What the line has is the same when its parts are. *)
LEMMA LineStays ==
    ASSUME Line, UNCHANGED <<rb, handed, echoed, received, dropped>>
    PROVE  Line'
<1>1. Held' = Held
  BY DEF Held
<1>2. HeldPicked' /\ EchoPicked'
  BY <1>1 DEF Line, HeldPicked, EchoPicked
<1>. QED
  BY <1>1, <1>2 DEF Line

(* The keyboard sends a scancode, and the user's view of Shift and Caps    *)
(* Lock is what that scancode makes of it.                                 *)
LEMMA SendKeeps ==
    ASSUME IInv, NEW code \in Codes, Send(code),
           down' = ShiftAfter(code, down), locked' = CapsAfter(code, locked),
           code \in Keys => Len(handed) + Cardinality(Unserved) < MaxTyped
    PROVE  IInv'
<1>. DEFINE x == [code |-> code, meant |-> Char(code, Differs(down, locked))]
<1>1. TypeOK /\ scancodes \in Seq(Scancode)
  BY DEF IInv
<1>2. x \in Scancode
  BY <1>1, ScancodeType DEF TypeOK, Differs
<1>3. UNCHANGED <<_kbd_shift, _kbd_caps_lock, rb, taken, given, handed, echoed, received, dropped>>
  BY DEF Send, tty, ringvars
<1>4. down' \in BOOLEAN /\ locked' \in BOOLEAN
  BY <1>1 DEF TypeOK, ShiftAfter, CapsAfter, Differs
<1>5. Line'
  BY <1>3, LineStays DEF IInv
<1>6. RingTypeOK'
  BY <1>1, <1>3 DEF TypeOK, RingTypeOK
<1>7. CASE scancodes' = Append(scancodes, x) /\ missed' = missed /\ Len(scancodes) < KbdBuffer
  <2>1. scancodes' \in Seq(Scancode) /\ Len(scancodes) \in Nat
        /\ Len(scancodes') = Len(scancodes) + 1
    BY <1>1, <1>2, <1>7, Longer
  <2>2. TypeOK'
    <3>1. Len(scancodes') <= KbdBuffer
      BY <1>7, <2>1, BoundsTypes
    <3>. QED
      BY <1>1, <1>3, <1>4, <1>6, <1>7, <3>1, BoundsTypes DEF TypeOK
  <2>3. Bounded'
    <3>1. Cardinality(Unserved')
            = Cardinality(Unserved) + IF code \in Keys THEN 1 ELSE 0
      BY <1>1, <1>2, <1>7, UnservedMore DEF Unserved, UnservedIn
    <3>2. Cardinality(Unserved) \in Nat /\ Len(handed) \in Nat /\ MaxTyped \in Nat
      BY <1>1, UnservedFinite, LenProperties, BoundsTypes DEF Unserved, UnservedIn, TypeOK
    <3>3. Len(handed) + Cardinality(Unserved) <= MaxTyped /\ handed' = handed
      BY <1>3 DEF IInv, Bounded
    <3>. QED
      BY <3>1, <3>2, <3>3 DEF Bounded
  <2>4. FlagsFollow'
    <3>. SUFFICES ASSUME ~missed
                  PROVE  \E s1, l1 \in [0 .. Len(scancodes') -> BOOLEAN] :
                            /\ Follows(scancodes', s1, l1)
                            /\ s1[0] = _kbd_shift' /\ l1[0] = _kbd_caps_lock'
                            /\ s1[Len(scancodes')] = down' /\ l1[Len(scancodes')] = locked'
      BY <1>7 DEF FlagsFollow
    <3>1. PICK sh, lk \in [0 .. Len(scancodes) -> BOOLEAN] :
             /\ Follows(scancodes, sh, lk)
             /\ sh[0] = _kbd_shift /\ lk[0] = _kbd_caps_lock
             /\ sh[Len(scancodes)] = down /\ lk[Len(scancodes)] = locked
      BY DEF IInv, FlagsFollow
    <3>2. x = [code |-> code,
               meant |-> Char(code, Differs(sh[Len(scancodes)], lk[Len(scancodes)]))]
      BY <3>1
    <3>. HIDE DEF x
    <3>3. \E s1, l1 \in [0 .. Len(scancodes') -> BOOLEAN] :
              /\ Follows(scancodes', s1, l1)
              /\ s1[0] = sh[0] /\ l1[0] = lk[0]
              /\ s1[Len(scancodes')] = ShiftAfter(code, sh[Len(scancodes)])
              /\ l1[Len(scancodes')] = CapsAfter(code, lk[Len(scancodes)])
      BY <1>1, <1>7, <3>1, <3>2, FollowsMore
    <3>. QED
      BY <1>3, <3>1, <3>3
  <2>. QED
    BY <1>5, <2>1, <2>2, <2>3, <2>4 DEF IInv
<1>8. CASE missed' = TRUE /\ scancodes' = scancodes
  <2>1. TypeOK'
    BY <1>1, <1>3, <1>4, <1>6, <1>8 DEF TypeOK
  <2>2. FlagsFollow'
    BY <1>8 DEF FlagsFollow
  <2>3. Bounded'
    BY <1>3, <1>8 DEF IInv, Bounded, Unserved
  <2>. QED
    BY <1>1, <1>5, <1>8, <2>1, <2>2, <2>3 DEF IInv
<1>. QED
  BY <1>7, <1>8 DEF Send

(* The user presses a key. *)
LEMMA UserKeeps ==
    ASSUME IInv, Shift \/ CapsLock \/ \E key \in Keys : Type(key)
    PROVE  IInv'
<1>1. down \in BOOLEAN /\ locked \in BOOLEAN
  BY DEF IInv, TypeOK
<1>2. CASE Shift
  <2>. DEFINE code == IF down THEN "shift up" ELSE "shift down"
  <2>1. code \in Codes /\ code \notin Keys
    BY TtyAssumption DEF Codes
  <2>2. down' = ShiftAfter(code, down) /\ locked' = CapsAfter(code, locked)
    BY <1>1, <1>2 DEF Shift, ShiftAfter, CapsAfter, Differs
  <2>3. Send(code)
    BY <1>2 DEF Shift
  <2>. HIDE DEF code
  <2>. QED
    BY <2>1, <2>2, <2>3, SendKeeps
<1>3. CASE CapsLock
  <2>1. "caps lock" \in Codes /\ "caps lock" \notin Keys
    BY TtyAssumption DEF Codes
  <2>2. down' = ShiftAfter("caps lock", down) /\ locked' = CapsAfter("caps lock", locked)
    BY <1>1, <1>3 DEF CapsLock, ShiftAfter, CapsAfter, Differs
  <2>3. Send("caps lock")
    BY <1>3 DEF CapsLock
  <2>. QED
    BY <2>1, <2>2, <2>3, SendKeeps
<1>4. ASSUME NEW key \in Keys, Type(key) PROVE IInv'
  <2>1. key \in Codes /\ key \notin {"shift down", "shift up", "caps lock"}
    BY TtyAssumption DEF Codes
  <2>2. down' = ShiftAfter(key, down) /\ locked' = CapsAfter(key, locked)
    BY <1>1, <1>4, <2>1 DEF Type, user, ShiftAfter, CapsAfter, Differs
  <2>3. Send(key) /\ Len(handed) + Cardinality(Unserved) < MaxTyped
    BY <1>4 DEF Type
  <2>. QED
    BY <2>1, <2>2, <2>3, SendKeeps
<1>. QED
  BY <1>2, <1>3, <1>4

(* Characters put together in either order. *)
LEMMA Together ==
    ASSUME NEW s \in Seq(Values), NEW t \in Seq(Values), NEW u \in Seq(Values)
    PROVE  (s \o t) \o u = s \o (t \o u)
BY ConcatAssociative

(* A character is put into the ring or, if that is full, dropped: the      *)
(* bytes that were held stay, in order.                                    *)
LEMMA WriteHolds ==
    ASSUME TypeOK, NEW c \in Values, Write(<<c>>), received' = received
    PROVE  /\ taken' \in 0 .. 1
           /\ Held' = IF taken' = 0 THEN Held ELSE Append(Held, c)
           /\ RingTypeOK'
           /\ [RingNext]_ringvars
<1>. DEFINE data == <<c>>
<1>1. data \in Seq(Values) /\ Len(data) = 1 /\ data[1] = c
  OBVIOUS
<1>2. rb \in Ring /\ received \in Seq(Values)
  BY DEF TypeOK, RingTypeOK
<1>3. rb' = ringbuffer_write(rb, data) /\ taken' = Written(rb, data) /\ given' = given
  BY DEF Write
<1>4. [RingNext]_ringvars
  <2>1. data \in [1 .. 1 -> Values]
    BY <1>1
  <2>. HIDE DEF data
  <2>. QED
    BY <2>1, BoundsTypes DEF RingNext, data
<1>. HIDE DEF data
<1>5. /\ taken' \in 0 .. Size - 1 /\ taken' <= 1
      /\ Contents(rb') = Contents(rb) \o SubSeq(data, 1, taken')
  BY <1>1, <1>2, <1>3, WriteAppends
<1>6. taken' \in 0 .. 1 /\ taken' \in Int
  BY <1>5, RingAssumption
<1>7. Contents(rb) \in Seq(Values)
  BY <1>2, ContentsType
<1>8. RingTypeOK'
  BY <1>4, NextTypeOK DEF TypeOK
<1>9. CASE taken' = 0
  <2>1. SubSeq(data, 1, 0) = <<>>
    BY SubSeqEmpty
  <2>2. Contents(rb') = Contents(rb)
    BY <1>5, <1>7, <1>9, <2>1, ConcatEmptySeq
  <2>3. Held' = Held
    BY <2>2 DEF Held
  <2>. QED
    BY <1>4, <1>6, <1>8, <1>9, <2>3
<1>10. CASE taken' = 1
  <2>1. SubSeq(data, 1, 1) = data
    BY <1>1, SubSeqFull
  <2>2. Contents(rb') = Contents(rb) \o data
    BY <1>5, <1>10, <2>1
  <2>3. Held' = (received \o Contents(rb)) \o data
    <3>1. Held' = received \o (Contents(rb) \o data)
      BY <2>2 DEF Held
    <3>2. received \o (Contents(rb) \o data) = (received \o Contents(rb)) \o data
      BY <1>1, <1>2, <1>7, Together
    <3>. QED
      BY <3>1, <3>2
  <2>4. Held' = Append(Held, c)
    <3>1. Held \in Seq(Values)
      BY <1>2, <1>7, ConcatProperties DEF Held
    <3>2. Held \o <<c>> = Append(Held, c)
      BY <3>1, AppendIsConcat
    <3>. QED
      BY <2>3, <3>2 DEF Held, data
  <2>. QED
    BY <1>4, <1>6, <1>8, <1>10, <2>4
<1>. QED
  BY <1>6, <1>9, <1>10

(* The handler's flags follow the scancode that it serves. *)
LEMMA HandlerFollows ==
    ASSUME FlagsFollow, scancodes \in Seq(Scancode), kbd_handler
    PROVE  /\ FlagsFollow'
           /\ ~missed => Head(scancodes).meant
                           = Char(Head(scancodes).code, Differs(_kbd_shift, _kbd_caps_lock))
<1>. DEFINE code == Head(scancodes).code
<1>1. /\ scancodes # <<>> /\ scancodes' = Tail(scancodes)
      /\ down' = down /\ locked' = locked /\ missed' = missed
      /\ _kbd_shift' = ShiftAfter(code, _kbd_shift)
      /\ _kbd_caps_lock' = CapsAfter(code, _kbd_caps_lock)
  BY DEF kbd_handler, _kbd_chr, ShiftAfter, CapsAfter, user
<1>. HIDE DEF code
<1>2. SUFFICES ASSUME ~missed
      PROVE /\ FlagsFollow'
            /\ Head(scancodes).meant = Char(code, Differs(_kbd_shift, _kbd_caps_lock))
  BY <1>1 DEF FlagsFollow, code
<1>3. PICK sh, lk \in [0 .. Len(scancodes) -> BOOLEAN] :
         /\ Follows(scancodes, sh, lk)
         /\ sh[0] = _kbd_shift /\ lk[0] = _kbd_caps_lock
         /\ sh[Len(scancodes)] = down /\ lk[Len(scancodes)] = locked
  BY <1>2 DEF FlagsFollow
<1>4. Head(scancodes).meant = Char(code, Differs(_kbd_shift, _kbd_caps_lock))
  BY <1>1, <1>3, FollowsFewer DEF code
<1>5. \E s1, l1 \in [0 .. Len(scancodes') -> BOOLEAN] :
         /\ Follows(scancodes', s1, l1)
         /\ s1[0] = ShiftAfter(code, sh[0])
         /\ l1[0] = CapsAfter(code, lk[0])
         /\ s1[Len(scancodes')] = sh[Len(scancodes)]
         /\ l1[Len(scancodes')] = lk[Len(scancodes)]
  BY <1>1, <1>3, FollowsFewer DEF code
<1>6. FlagsFollow'
  BY <1>1, <1>3, <1>5 DEF FlagsFollow
<1>. QED
  BY <1>4, <1>6

(* One character more: its place is the last, unless it is '\r'. *)
LEMMA PlacesMore ==
    ASSUME NEW S, NEW t \in Seq(S), NEW c \in S
    PROVE  /\ Append(t, c) \in Seq(S) /\ Len(Append(t, c)) = Len(t) + 1
           /\ Places(Append(t, c)) = IF c = CR THEN Places(t)
                                              ELSE Places(t) \cup {Len(t) + 1}
<1>. DEFINE n == Len(t)
            t1 == Append(t, c)
<1>1. /\ t1 \in Seq(S) /\ n \in Nat /\ Len(t1) = n + 1
      /\ t1[n + 1] = c /\ \A i \in 1 .. n : t1[i] = t[i]
  BY Longer
<1>2. DOMAIN t = 1 .. n /\ DOMAIN t1 = 1 .. n + 1
  BY <1>1, LenProperties
<1>. HIDE DEF t1, n
<1>3. /\ \A i : i \in 1 .. n + 1 <=> i \in 1 .. n \/ i = n + 1
      /\ n + 1 \notin 1 .. n
  BY <1>1
<1>4. \A i : i \in Places(t1) <=> i \in Places(t) \/ (i = n + 1 /\ c # CR)
  BY <1>1, <1>2, <1>3 DEF Places
<1>5. Places(t1) = IF c = CR THEN Places(t) ELSE Places(t) \cup {n + 1}
  BY <1>4
<1>. QED
  BY <1>1, <1>5 DEF t1, n

(* What is shown follows what the keyboard hands over. *)
LEMMA EchoMore ==
    ASSUME EchoPicked, handed \in Seq(Values \cup {CR}), echoed \in Seq(Values),
           NEW c \in Values \cup {CR}, handed' = Append(handed, c),
           echoed' = IF c = CR THEN echoed ELSE Append(echoed, c)
    PROVE  EchoPicked'
<1>1. PICK pos \in [1 .. Len(echoed) -> 1 .. Len(handed)] :
         Picks(pos, echoed, handed) /\ Image(pos, echoed) = Places(handed)
  BY DEF EchoPicked
<1>2. echoed \in Seq(Values \cup {CR})
  BY SeqMonotonic
<1>3. /\ echoed' = echoed \/ echoed' = Append(echoed, c)
      /\ echoed' = echoed => c = CR
      /\ c = CR => echoed' = echoed
  <2>1. Append(echoed, c) # echoed
    BY <1>2, Longer
  <2>. QED
    BY <2>1
<1>4. Places(handed') = IF c = CR THEN Places(handed)
                                  ELSE Places(handed) \cup {Len(handed) + 1}
  BY PlacesMore
<1>5. PICK p1 \in [1 .. Len(echoed') -> 1 .. Len(handed')] :
         /\ Picks(p1, echoed', handed')
         /\ ImageGrows(p1, echoed', pos, echoed, c, Len(handed) + 1)
  <2>. DEFINE S == Values \cup {CR}
  <2>1. echoed \in Seq(S) /\ handed \in Seq(S) /\ c \in S
    BY <1>2
  <2>. HIDE DEF S
  <2>2. \E p1 \in [1 .. Len(echoed') -> 1 .. Len(Append(handed, c))] :
           /\ Picks(p1, echoed', Append(handed, c))
           /\ ImageGrows(p1, echoed', pos, echoed, c, Len(handed) + 1)
    <3>1. Picks(pos, echoed, handed) /\ (echoed' = echoed \/ echoed' = Append(echoed, c))
      BY <1>1, <1>3
    <3>. QED
      BY <2>1, <3>1, PicksMore, Zenon
  <2>. QED
    BY <2>2
<1>6. Image(p1, echoed') = Places(handed')
  BY <1>1, <1>3, <1>4, <1>5 DEF ImageGrows
<1>. QED
  BY <1>5, <1>6 DEF EchoPicked

(* The handler keeps the invariant. *)
LEMMA HandlerKeeps ==
    ASSUME IInv, kbd_handler
    PROVE  IInv' /\ [RingNext]_ringvars
<1>. DEFINE code == Head(scancodes).code
            upper == Differs(_kbd_shift, _kbd_caps_lock)
            c == Char(code, upper)
<1>1. TypeOK /\ scancodes \in Seq(Scancode)
  BY DEF IInv
<1>2. /\ scancodes # <<>> /\ scancodes' = Tail(scancodes)
      /\ UNCHANGED <<down, locked, missed, received>>
  BY DEF kbd_handler, user
<1>3. _kbd_shift' \in BOOLEAN /\ _kbd_caps_lock' \in BOOLEAN
  BY <1>1 DEF kbd_handler, _kbd_chr, TypeOK, Differs
<1>4. FlagsFollow'
  BY <1>1, HandlerFollows DEF IInv
<1>5. /\ scancodes' \in Seq(Scancode)
      /\ Len(scancodes) \in Nat /\ Len(scancodes') = Len(scancodes) - 1
  BY <1>1, <1>2, Shorter
<1>6. Len(scancodes') <= KbdBuffer
  <2>1. Len(scancodes) <= KbdBuffer
    BY <1>1 DEF TypeOK
  <2>. QED
    BY <1>5, <2>1, BoundsTypes
<1>7. Cardinality(Unserved') = Cardinality(Unserved) - IF code \in Keys THEN 1 ELSE 0
  BY <1>1, <1>2, UnservedFewer DEF Unserved, UnservedIn
<1>8. /\ Cardinality(Unserved) \in Nat /\ Cardinality(Unserved') \in Nat
      /\ Len(echoed) \in Nat /\ Len(handed) \in Nat
  BY <1>1, <1>5, UnservedFinite, LenProperties DEF Unserved, UnservedIn, TypeOK
<1>9. upper \in BOOLEAN
  BY DEF Differs
<1>10. /\ Len(handed) + Cardinality(Unserved) <= MaxTyped
       /\ Line /\ HeldPicked /\ EchoPicked
       /\ Len(Held) + dropped = Len(echoed) /\ Len(echoed) <= Len(handed)
       /\ dropped \in Nat /\ Held \in Seq(Values) /\ echoed \in Seq(Values)
       /\ handed \in Seq(Values \cup {CR})
  <2>1. received \in Seq(Values) /\ Contents(rb) \in Seq(Values)
    BY <1>1, ContentsType DEF TypeOK, RingTypeOK
  <2>2. Held \in Seq(Values)
    BY <2>1, ConcatProperties DEF Held
  <2>. QED
    BY <1>1, <2>2, BoundsTypes DEF IInv, Bounded, Line, TypeOK
<1>11. CASE Gives(code, upper)
  <2>1. /\ handed' = Append(handed, c)
        /\ tty_input_process(c)
    BY <1>11 DEF kbd_handler, tty_input_process
  <2>2. c \in Values \cup {CR} /\ code \in Keys /\ (c # CR => c \in Values)
    BY <1>9, <1>11, CharsAreValues DEF Gives
  <2>. HIDE DEF c, code, upper
  <2>3. /\ handed' \in Seq(Values \cup {CR}) /\ Len(handed') = Len(handed) + 1
        /\ Places(handed') = IF c = CR THEN Places(handed)
                                        ELSE Places(handed) \cup {Len(handed) + 1}
    <3>. DEFINE S == Values \cup {CR}
    <3>1. handed \in Seq(S) /\ c \in S
      BY <1>10, <2>2
    <3>. HIDE DEF S
    <3>2. /\ Append(handed, c) \in Seq(S) /\ Len(Append(handed, c)) = Len(handed) + 1
          /\ Places(Append(handed, c)) = IF c = CR THEN Places(handed)
                                          ELSE Places(handed) \cup {Len(handed) + 1}
      BY <3>1, PlacesMore
    <3>. QED
      BY <2>1, <3>2 DEF S
  <2>4. Bounded'
    BY <1>7, <1>8, <1>10, <2>2, <2>3, BoundsTypes DEF Bounded
  <2>5. CASE c = CR
    <3>1. UNCHANGED <<echoed, rb, taken, given, dropped>>
      BY <2>1, <2>5 DEF tty_input_process, ringvars
    <3>2. Held' = Held
      BY <1>2, <3>1 DEF Held
    <3>3. HeldPicked'
      BY <1>10, <3>1, <3>2 DEF HeldPicked
    <3>4. EchoPicked'
      BY <1>10, <2>1, <2>2, <2>3, <2>5, <3>1, EchoMore
    <3>5. Line'
      <4>1. Len(Held') + dropped' = Len(echoed') /\ Len(echoed') <= Len(handed')
        BY <1>8, <1>10, <2>3, <3>1, <3>2
      <4>. QED
        BY <3>3, <3>4, <4>1 DEF Line
    <3>6. TypeOK'
      BY <1>1, <1>2, <1>3, <1>6, <2>3, <3>1 DEF TypeOK, RingTypeOK
    <3>. QED
      BY <1>4, <1>5, <2>4, <3>1, <3>5, <3>6 DEF IInv, ringvars
  <2>6. CASE c # CR
    <3>1. /\ echoed' = Append(echoed, c) /\ Write(<<c>>)
          /\ dropped' = dropped + 1 - taken'
          /\ c \in Values
      BY <2>1, <2>2, <2>6 DEF tty_input_process
    <3>2. /\ taken' \in 0 .. 1
          /\ Held' = IF taken' = 0 THEN Held ELSE Append(Held, c)
          /\ RingTypeOK'
          /\ [RingNext]_ringvars
      BY <1>1, <1>2, <3>1, WriteHolds
    <3>3. echoed' \in Seq(Values) /\ Len(echoed') = Len(echoed) + 1
      BY <1>10, <3>1, Longer
    <3>4. HeldPicked'
      <4>1. PICK pos \in [1 .. Len(Held) -> 1 .. Len(echoed)] : Picks(pos, Held, echoed)
        BY <1>10 DEF HeldPicked
      <4>2. Held' = Held \/ Held' = Append(Held, c)
        BY <3>2
      <4>. QED
        BY <1>10, <3>1, <4>1, <4>2, PicksMore DEF HeldPicked
    <3>5. EchoPicked'
      BY <1>10, <2>1, <2>2, <2>3, <2>6, <3>1, EchoMore
    <3>6. Len(Held') + dropped' = Len(echoed') /\ dropped' \in Nat
      <4>1. Len(Held) \in Nat /\ Len(Append(Held, c)) = Len(Held) + 1
        BY <1>10, <3>1, Longer
      <4>2. Len(echoed') = Len(echoed) + 1 /\ Len(Held) + dropped = Len(echoed) /\ dropped \in Nat
        BY <1>10, <3>3
      <4>3. CASE taken' = 0
        <5>1. dropped' = dropped + 1 /\ Held' = Held
          BY <3>1, <3>2, <4>2, <4>3
        <5>. QED
          BY <1>8, <4>1, <4>2, <5>1
      <4>4. CASE taken' = 1
        <5>1. dropped' = dropped /\ Held' = Append(Held, c)
          BY <3>1, <3>2, <4>2, <4>4
        <5>. QED
          BY <1>8, <4>1, <4>2, <5>1
      <4>. QED
        BY <3>2, <4>3, <4>4
    <3>7. Len(echoed') <= Len(handed')
      BY <1>8, <1>10, <2>3, <3>3
    <3>8. dropped' \in 0 .. MaxTyped
      <4>1. Len(Held') \in Nat
        BY <1>10, <3>1, <3>2, Longer
      <4>2. Len(handed') <= MaxTyped
        BY <1>8, <2>3, <2>4, BoundsTypes DEF Bounded
      <4>. QED
        BY <1>8, <2>3, <3>3, <3>6, <3>7, <4>1, <4>2, BoundsTypes
    <3>9. TypeOK'
      BY <1>1, <1>2, <1>3, <1>6, <2>3, <3>2, <3>3, <3>8 DEF TypeOK
    <3>10. Line'
      BY <3>4, <3>5, <3>6, <3>7 DEF Line
    <3>. QED
      BY <1>4, <1>5, <2>4, <3>2, <3>9, <3>10 DEF IInv
  <2>. QED
    BY <2>5, <2>6
<1>12. CASE ~Gives(code, upper)
  <2>1. UNCHANGED <<handed, echoed, rb, taken, given, dropped>>
    BY <1>12 DEF kbd_handler, ringvars
  <2>. HIDE DEF c, code, upper
  <2>2. Line'
    BY <1>2, <1>10, <2>1, LineStays
  <2>3. Bounded'
    BY <1>7, <1>8, <1>10, <2>1, BoundsTypes DEF Bounded
  <2>4. TypeOK'
    BY <1>1, <1>2, <1>3, <1>6, <2>1 DEF TypeOK, RingTypeOK
  <2>. QED
    BY <1>4, <1>5, <2>1, <2>2, <2>3, <2>4 DEF IInv, ringvars
<1>. QED
  BY <1>11, <1>12

(* A read moves characters from the ring to those received. *)
LEMMA ReaderKeeps ==
    ASSUME IInv, NEW size \in 1 .. MaxTransfer, read_pty_slave(size)
    PROVE  IInv' /\ [RingNext]_ringvars
<1>. DEFINE n == Lesser(ringbuffer_readable(rb), size)
            C == Contents(rb)
<1>1. /\ UNCHANGED <<down, locked, missed, scancodes, _kbd_shift, _kbd_caps_lock>>
      /\ UNCHANGED <<handed, echoed, dropped>>
  BY DEF read_pty_slave, user
<1>2. rb' = ringbuffer_read(rb, size) /\ given' = Given(rb, size)
      /\ received' = received \o given'
  BY DEF read_pty_slave, Read
<1>3. TypeOK /\ rb \in Ring /\ received \in Seq(Values) /\ size \in Nat
  BY BoundsTypes DEF IInv, TypeOK, RingTypeOK
<1>4. [RingNext]_ringvars
  <2>1. size \in 0 .. MaxTransfer
    BY BoundsTypes
  <2>2. Read(size)
    BY DEF read_pty_slave
  <2>. QED
    BY <2>1, <2>2 DEF RingNext
<1>5. RingTypeOK'
  BY <1>3, <1>4, NextTypeOK DEF TypeOK
<1>6. C \in Seq(Values) /\ Len(C) = ringbuffer_readable(rb) /\ Len(C) \in Nat
  BY <1>3, ContentsType, CountsComplement
<1>7. n \in 0 .. Len(C)
  BY <1>3, <1>6 DEF Lesser
<1>8. given' \in Seq(Values) /\ given' = SubSeq(C, 1, n)
      /\ Contents(rb') = SubSeq(C, n + 1, Len(C))
  BY <1>2, <1>3, ReadTakesOldest
<1>. HIDE DEF n, C
<1>9. Contents(rb') \in Seq(Values)
  BY <1>5, ContentsType DEF RingTypeOK
<1>10. given' \o Contents(rb') = C
  <2>1. SubSeq(C, 1, n) \o SubSeq(C, n + 1, Len(C)) = SubSeq(C, 1, Len(C))
    <3>1. 1 \in 1 .. Len(C) + 1 /\ n \in 1 - 1 .. Len(C) /\ Len(C) \in n .. Len(C)
      BY <1>6, <1>7
    <3>. QED
      BY <1>6, <3>1, ConcatAdjacentSubSeq
  <2>. QED
    BY <1>6, <1>8, <2>1, SubSeqFull
<1>11. Held' = Held
  <2>1. (received \o given') \o Contents(rb') = received \o (given' \o Contents(rb'))
    BY <1>3, <1>8, <1>9, Together
  <2>. QED
    BY <1>2, <1>10, <2>1 DEF Held, C
<1>12. received' \in Seq(Values)
  BY <1>2, <1>3, <1>8, ConcatProperties
<1>13. TypeOK'
  BY <1>1, <1>3, <1>5, <1>12 DEF TypeOK
<1>14. FlagsFollow' /\ Bounded'
  BY <1>1 DEF IInv, FlagsFollow, Bounded, Unserved
<1>15. Line'
  <2>1. HeldPicked' /\ EchoPicked'
    BY <1>1, <1>11 DEF IInv, Line, HeldPicked, EchoPicked
  <2>. QED
    BY <1>1, <1>11, <2>1 DEF IInv, Line
<1>. QED
  BY <1>1, <1>4, <1>13, <1>14, <1>15 DEF IInv

(* Nothing changes. *)
LEMMA StutterKeeps ==
    ASSUME IInv, UNCHANGED vars
    PROVE  IInv' /\ [RingNext]_ringvars
<1>1. UNCHANGED <<down, locked, scancodes, missed, _kbd_shift, _kbd_caps_lock,
                  rb, taken, given, handed, echoed, received, dropped>>
  BY DEF vars, user, tty, ringvars
<1>2. TypeOK' /\ (scancodes \in Seq(Scancode))'
  BY <1>1 DEF IInv, TypeOK, RingTypeOK
<1>3. FlagsFollow' /\ Bounded'
  BY <1>1 DEF IInv, FlagsFollow, Bounded, Unserved
<1>5. Line'
  BY <1>1, LineStays DEF IInv
<1>. QED
  BY <1>1, <1>2, <1>3, <1>5 DEF IInv, ringvars

(* Every step keeps the invariant, and does nothing else to the ring. *)
LEMMA NextKeeps == IInv /\ [Next]_vars => IInv' /\ [RingNext]_ringvars
<1>. SUFFICES ASSUME IInv, [Next]_vars PROVE IInv' /\ [RingNext]_ringvars
  OBVIOUS
<1>1. CASE Shift \/ CapsLock \/ \E key \in Keys : Type(key)
  <2>1. UNCHANGED ringvars
    BY <1>1 DEF Shift, CapsLock, Type, Send, tty
  <2>. QED
    BY <1>1, <2>1, UserKeeps
<1>2. CASE kbd_handler
  BY <1>2, HandlerKeeps
<1>3. ASSUME NEW size \in 1 .. MaxTransfer, read_pty_slave(size)
      PROVE  IInv' /\ [RingNext]_ringvars
  BY <1>3, ReaderKeeps
<1>4. CASE UNCHANGED vars
  BY <1>4, StutterKeeps
<1>. QED
  BY <1>1, <1>2, <1>3, <1>4 DEF Next

(* The invariant holds in every state. *)
LEMMA InvariantHolds == Spec => []IInv
BY InitIInv, NextKeeps, PTL DEF Spec
-----------------------------------------------------------------------------
(* The keyboard never keeps more than its buffer, and the characters for   *)
(* which there was no room are counted.                                    *)
THEOREM KeyboardTypes == Spec => []TypeOK
<1>1. IInv => TypeOK
  BY DEF IInv
<1>. QED
  BY <1>1, InvariantHolds, PTL

(* The screen shows what the keyboard has handed to tty_input_process,     *)
(* except each '\r', which IGNCR discards.  What processes have read and    *)
(* can still read are the characters shown, in order and each once,        *)
(* whichever process reads how much at a time, but for those that came     *)
(* when the ring was full.                                                 *)
THEOREM ReadsAreTheKeys == Spec => []ReadsFollowKeys
<1>1. IInv => ReadsFollowKeys
  <2>. SUFFICES ASSUME IInv PROVE ReadsFollowKeys
    OBVIOUS
  <2>1. /\ received \in Seq(Values) /\ Contents(rb) \in Seq(Values) /\ echoed \in Seq(Values)
        /\ handed \in Seq(Values \cup {CR})
    BY ContentsType DEF IInv, TypeOK, RingTypeOK
  <2>2. Held \in Seq(Values)
    BY <2>1, ConcatProperties DEF Held
  <2>3. IsSubsequence(Held, echoed)
    BY <2>1, <2>2, PicksAreKept DEF IInv, Line, HeldPicked, IsSubsequence
  <2>4. echoed = Kept(handed, Places(handed))
    <3>1. PICK pos \in [1 .. Len(echoed) -> 1 .. Len(handed)] :
             Picks(pos, echoed, handed) /\ Image(pos, echoed) = Places(handed)
      BY DEF IInv, Line, EchoPicked
    <3>2. echoed \in Seq(Values \cup {CR})
      BY <2>1, SeqMonotonic
    <3>3. echoed = Kept(handed, Image(pos, echoed))
      BY <2>1, <3>1, <3>2, PicksAreKept
    <3>. QED
      BY <3>1, <3>3
  <2>. QED
    BY <2>3, <2>4 DEF IInv, Line, ReadsFollowKeys, Held, Places
<1>. QED
  BY <1>1, InvariantHolds, PTL

(* The handler's _kbd_shift and _kbd_caps_lock are, when it serves a       *)
(* scancode, what the user's were when the key was pressed, however late   *)
(* the interrupt is served: the character meant then is shown, if it is    *)
(* one that the line takes, and nothing else.                              *)
THEOREM CharactersAreMeant == Spec => TypedAsMeant
<1>. DEFINE c == Head(scancodes).meant
            Shows == echoed' = IF Taken(c) THEN Append(echoed, c) ELSE echoed
<1>1. ASSUME IInv, [Next]_vars, ~missed, Len(scancodes') < Len(scancodes)
      PROVE  Shows
  <2>0. scancodes \in Seq(Scancode) /\ Len(scancodes) \in Nat
    BY <1>1, LenProperties DEF IInv
  <2>1. CASE kbd_handler
    <3>. DEFINE code == Head(scancodes).code
                upper == Differs(_kbd_shift, _kbd_caps_lock)
    <3>1. c = Char(code, upper) /\ upper \in BOOLEAN
      BY <1>1, <2>1, HandlerFollows DEF IInv, Differs
    <3>2. IF Gives(code, upper)
            THEN tty_input_process(Char(code, upper))
            ELSE echoed' = echoed
      BY <2>1 DEF kbd_handler
    <3>. HIDE DEF c, code, upper
    <3>3. Taken(c) <=> Gives(code, upper) /\ c # CR
      BY <3>1, CharsAreValues
    <3>4. CASE Gives(code, upper)
      <4>1. echoed' = IF c = CR THEN echoed ELSE Append(echoed, c)
        BY <3>1, <3>2, <3>4 DEF tty_input_process
      <4>. QED
        BY <3>3, <3>4, <4>1
    <3>5. CASE ~Gives(code, upper)
      BY <3>2, <3>3, <3>5
    <3>. QED
      BY <3>4, <3>5
  <2>2. ASSUME NEW code, Send(code) PROVE FALSE
    <3>1. scancodes' = scancodes \/ \E x : scancodes' = Append(scancodes, x)
      BY <2>2 DEF Send
    <3>2. ASSUME NEW x PROVE Len(Append(scancodes, x)) = Len(scancodes) + 1
      BY <2>0
    <3>. QED
      BY <1>1, <2>0, <3>1, <3>2
  <2>3. CASE UNCHANGED vars \/ \E size \in 1 .. MaxTransfer : read_pty_slave(size)
    <3>1. scancodes' = scancodes
      BY <2>3 DEF vars, read_pty_slave
    <3>. QED
      BY <1>1, <2>0, <3>1
  <2>. HIDE DEF Shows
  <2>4. CASE Shift \/ CapsLock \/ \E key \in Keys : Type(key)
    BY <2>2, <2>4 DEF Shift, CapsLock, Type
  <2>. QED
    BY <1>1, <2>1, <2>3, <2>4 DEF Next
<1>2. IInv /\ [Next]_vars => [~missed /\ Len(scancodes') < Len(scancodes) => Shows]_vars
  BY <1>1
<1>. QED
  BY <1>2, InvariantHolds, PTL DEF Spec, TypedAsMeant

(* Keys and readers use the ring only through its two operations: to them  *)
(* too it is a first-in first-out queue.                                   *)
THEOREM LineIsFifo == Spec => ImplementsFifo
<1>1. Init => RingInit
  BY DEF Init
<1>2. Spec => RingSpec
  BY <1>1, NextKeeps, InvariantHolds, PTL DEF Spec, RingSpec
<1>. QED
  BY <1>2, RefinesFifo
=============================================================================
