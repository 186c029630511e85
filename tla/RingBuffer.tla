---------------------------- MODULE RingBuffer ----------------------------
(***************************************************************************)
(* A ring buffer of kernel/lib/ringbuffer.c, first as operators on a       *)
(* record with the fields of ringbuffer_t, then under any sequence of      *)
(* writes and reads, of any length up to MaxTransfer.  Each call runs with *)
(* interrupts off.                                                         *)
(***************************************************************************)
EXTENDS Integers, Sequences

CONSTANTS
    Values,     \* bytes
    Size,       \* rb->size: 4096 for a pty
    MaxTransfer \* longest buffer passed to a call

ASSUME RingAssumption ==
    /\ Size \in Nat \ {0}
    /\ Values # {}

ASSUME TransferAssumption == MaxTransfer \in Nat

Slot == 0 .. Size - 1
Ring == [buffer : [Slot -> Values], ridx : Slot, widx : Slot]

(* ringbuffer_alloc: the bytes are whatever the memory holds. *)
NewRings == {rb \in Ring : rb.ridx = 0 /\ rb.widx = 0}

Lesser(a, b) == IF a < b THEN a ELSE b

(* Faulty: a full buffer and an empty one look alike. *)
AvailToTheLast(rb) ==
    IF rb.ridx = rb.widx THEN Size
    ELSE IF rb.ridx > rb.widx THEN rb.ridx - rb.widx
    ELSE Size - rb.widx + rb.ridx

ringbuffer_avail(rb) ==
    IF rb.ridx = rb.widx THEN Size - 1
    ELSE IF rb.ridx > rb.widx THEN rb.ridx - rb.widx - 1
    ELSE Size - rb.widx + rb.ridx - 1

ringbuffer_readable(rb) ==
    IF rb.ridx > rb.widx THEN Size - rb.ridx + rb.widx ELSE rb.widx - rb.ridx

(* An index after n bytes: it goes back to 0 when it reaches the end. *)
Advance(i, n) == IF i + n >= Size THEN i + n - Size ELSE i + n

(* How far slot k is behind index i, going up and round. *)
Distance(i, k) == IF k >= i THEN k - i ELSE k - i + Size

(* ringbuffer_write: what fits is copied, to the end of the buffer first   *)
(* and then from its start.                                                *)
Written(rb, data) == Lesser(ringbuffer_avail(rb), Len(data))
ringbuffer_write(rb, data) ==
    [rb EXCEPT
        !.buffer = [k \in Slot |-> IF Distance(rb.widx, k) < Written(rb, data)
                                     THEN data[Distance(rb.widx, k) + 1]
                                     ELSE rb.buffer[k]],
        !.widx = Advance(rb.widx, Written(rb, data))]

(* ringbuffer_read: the bytes it gives, and the ring afterwards. *)
Given(rb, size) ==
    [i \in 1 .. Lesser(ringbuffer_readable(rb), size) |->
        rb.buffer[Advance(rb.ridx, i - 1)]]
ringbuffer_read(rb, size) ==
    [rb EXCEPT !.ridx = Advance(rb.ridx, Lesser(ringbuffer_readable(rb), size))]

(* The bytes in the ring, oldest first. *)
Contents(rb) ==
    [i \in 1 .. ringbuffer_readable(rb) |-> rb.buffer[Advance(rb.ridx, i - 1)]]

-----------------------------------------------------------------------------
VARIABLES
    rb,         \* the ring
    taken,      \* what the last ringbuffer_write returned
    given       \* what the last ringbuffer_read stored

ringvars == <<rb, taken, given>>

RingInit == rb \in NewRings /\ taken = 0 /\ given = <<>>

Write(data) ==
    /\ rb' = ringbuffer_write(rb, data)
    /\ taken' = Written(rb, data)
    /\ UNCHANGED given

Read(size) ==
    /\ rb' = ringbuffer_read(rb, size)
    /\ given' = Given(rb, size)
    /\ UNCHANGED taken

RingNext ==
    \/ \E n \in 0 .. MaxTransfer : \E data \in [1 .. n -> Values] : Write(data)
    \/ \E size \in 0 .. MaxTransfer : Read(size)

RingSpec == RingInit /\ [][RingNext]_ringvars

-----------------------------------------------------------------------------
(* The indices stay inside the buffer and no write takes more than fits.   *)
RingTypeOK ==
    /\ rb \in Ring
    /\ taken \in 0 .. Size - 1
    /\ given \in Seq(Values)

(* The two indices implement a first-in first-out queue of Size - 1 bytes: *)
(* wrapping round, a full and an empty buffer and partial transfers        *)
(* neither lose, double nor reorder a byte.                                *)
Fifo == INSTANCE BoundedFifo WITH queue <- Contents(rb), Capacity <- Size - 1

ImplementsFifo == Fifo!AbsSpec
=============================================================================
