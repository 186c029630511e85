---------------------------- MODULE BlockPieces ----------------------------
(***************************************************************************)
(* How read_tmpfs and write_tmpfs (kernel/sys/fs/tmpfs.c) cut a transfer   *)
(* into one memcpy per block.                                              *)
(***************************************************************************)
EXTENDS Integers

CONSTANT BLOCKSIZE      \* bytes in a block

ASSUME BlockAssumption == BLOCKSIZE \in Nat \ {0}

(* n bytes at position "at" of a block and at position "from" of the buffer *)
Piece(block, at, from, n) == [block |-> block, at |-> at, from |-> from, n |-> n]

(* Faulty: the first block is copied as a whole one. *)
FirstPieceWhole(offset) ==
    Piece(offset \div BLOCKSIZE, offset % BLOCKSIZE, 0, BLOCKSIZE)

(* The blocks of the loop, and the rest of the last one. *)
FirstPiece(offset) ==
    Piece(offset \div BLOCKSIZE, offset % BLOCKSIZE, 0, BLOCKSIZE - (offset % BLOCKSIZE))
WholePiece(offset, block) ==
    Piece(block, 0, BLOCKSIZE * (block - (offset \div BLOCKSIZE)) - (offset % BLOCKSIZE),
          BLOCKSIZE)
LastPiece(offset, end) ==
    [WholePiece(offset, end \div BLOCKSIZE) EXCEPT !.n = end % BLOCKSIZE]

Pieces(offset, end) ==
    LET start_block == offset \div BLOCKSIZE
        end_block == end \div BLOCKSIZE IN
    IF start_block = end_block
      THEN {Piece(start_block, offset % BLOCKSIZE, 0, end - offset)}
      ELSE {FirstPiece(offset)}
             \cup {WholePiece(offset, block) : block \in start_block + 1 .. end_block - 1}
             \cup {p \in {LastPiece(offset, end)} : p.n > 0}

(* Does piece p copy byte i of the buffer? *)
Copies(p, i) == i \in p.from .. p.from + p.n - 1

(* Byte i of the buffer is byte offset + i of the file. *)
InPlace(p, i, offset) ==
    /\ p.block = (offset + i) \div BLOCKSIZE
    /\ p.at + (i - p.from) = (offset + i) % BLOCKSIZE

(* Is every byte of the buffer copied exactly once, to or from its place   *)
(* in the file, and neither block nor buffer left?                         *)
CutExactly(offset, end) ==
    LET pieces == Pieces(offset, end) IN
    /\ \A i \in 0 .. end - offset - 1 :
        \E p \in pieces : InPlace(p, i, offset) /\ {q \in pieces : Copies(q, i)} = {p}
    /\ \A p \in pieces :
        /\ p.at >= 0 /\ p.at + p.n <= BLOCKSIZE
        /\ p.from >= 0 /\ p.from + p.n <= end - offset
=============================================================================
