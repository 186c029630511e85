-------------------------- MODULE FileSystemProofs --------------------------
(***************************************************************************)
(* The memory file system is correct for every size of a block and of the  *)
(* memory, any names, and files and transfers of any length; and paths are *)
(* for every set of names, length of paths and list of mountpoints that    *)
(* kmain may have.                                                         *)
(***************************************************************************)
EXTENDS Tmpfs, Vfs, TLAPS, SequenceTheorems, FiniteSetTheorems, WellFoundedInduction

-----------------------------------------------------------------------------
(* Transfers.                                                              *)

(* A position is its block times the size of a block, and the rest.        *)
LEMMA BlockOf ==
    ASSUME NEW a \in Nat
    PROVE  \E q \in Nat, r \in InBlock :
              /\ q = a \div BLOCKSIZE /\ r = a % BLOCKSIZE
              /\ a = BLOCKSIZE * q + r
<1>. BLOCKSIZE \in Nat \ {0}
  BY BlockAssumption
<1>1. PICK q \in Int : q = a \div BLOCKSIZE
  OBVIOUS
<1>2. PICK r \in InBlock : r = a % BLOCKSIZE
  BY DEF InBlock
<1>3. a % BLOCKSIZE = a - BLOCKSIZE * (a \div BLOCKSIZE)
  OBVIOUS
<1>4. r = a - BLOCKSIZE * q
  BY <1>1, <1>2, <1>3, Zenon
<1>5. a = BLOCKSIZE * q + r
  BY <1>4 DEF InBlock
<1>6. q >= 0
  BY <1>1
<1>7. q \in Nat
  BY <1>6
<1>. QED
  BY <1>1, <1>2, <1>5, <1>7, Zenon

(* Block and place in it are determined by the position.                   *)
LEMMA BlockUnique ==
    ASSUME NEW q \in Nat, NEW r \in 0 .. BLOCKSIZE - 1, NEW a \in Nat,
           a = BLOCKSIZE * q + r
    PROVE  q = a \div BLOCKSIZE /\ r = a % BLOCKSIZE
BY BlockAssumption

(* Blocks follow each other. *)
LEMMA BlocksInOrder ==
    ASSUME NEW a \in Nat, NEW b \in Nat, a < b
    PROVE  BLOCKSIZE * a + BLOCKSIZE <= BLOCKSIZE * b
<1>. BLOCKSIZE \in Nat \ {0}
  BY BlockAssumption
<1>. QED
  OBVIOUS

(* Blocks to the right of another start where it ends, or behind that. *)
LEMMA Distributed ==
    ASSUME NEW a \in Nat, NEW b \in Nat
    PROVE  BLOCKSIZE * (b - a) = BLOCKSIZE * b - BLOCKSIZE * a
<1>. BLOCKSIZE \in Nat \ {0}
  BY BlockAssumption
<1>. QED
  OBVIOUS

(* A multiple of the size of a block is a position. *)
LEMMA Multiple ==
    ASSUME NEW a \in Nat
    PROVE  BLOCKSIZE * a \in Nat
<1>. BLOCKSIZE \in Nat \ {0}
  BY BlockAssumption
<1>. QED
  OBVIOUS

(* What makes p a part of a transfer from offset to end: it is inside one  *)
(* block and inside the buffer, and byte "from" of the buffer belongs      *)
(* where it starts.                                                        *)
Fits(p, offset, end) ==
    /\ p.block \in Nat /\ p.at \in Nat /\ p.from \in Nat /\ p.n \in Nat
    /\ p.at + p.n <= BLOCKSIZE
    /\ p.from + p.n <= end - offset
    /\ BLOCKSIZE * p.block + p.at = offset + p.from

(* A transfer that starts and ends in different blocks passes the end of   *)
(* the first.                                                              *)
LEMMA LaterBlock ==
    ASSUME NEW q \in Nat, NEW r \in InBlock, NEW b \in Nat, NEW s \in InBlock,
           BLOCKSIZE * q + r <= BLOCKSIZE * b + s
    PROVE  q <= b
<1>. SUFFICES ASSUME b < q PROVE FALSE
  OBVIOUS
<1>1. BLOCKSIZE * b + BLOCKSIZE <= BLOCKSIZE * q
  BY BlocksInOrder
<1>2. BLOCKSIZE * b \in Nat /\ BLOCKSIZE * q \in Nat /\ BLOCKSIZE \in Nat
  BY Multiple, BlockAssumption
<1>3. PICK m \in Nat : m = BLOCKSIZE * b
  BY <1>2
<1>4. PICK n \in Nat : n = BLOCKSIZE * q
  BY <1>2
<1>5. m + BLOCKSIZE <= n /\ n + r <= m + s
  BY ONLY <1>1, <1>3, <1>4, BLOCKSIZE * q + r <= BLOCKSIZE * b + s
<1>. QED
  BY <1>2, <1>5 DEF InBlock

(* Every piece of a transfer fits. *)
LEMMA PiecesFit ==
    ASSUME NEW offset \in Nat, NEW end \in Nat, offset <= end,
           NEW p \in Pieces(offset, end)
    PROVE  Fits(p, offset, end)
<1>1. PICK q \in Nat, r \in InBlock :
        q = offset \div BLOCKSIZE /\ r = offset % BLOCKSIZE /\ offset = BLOCKSIZE * q + r
  BY BlockOf
<1>2. PICK b \in Nat, s \in InBlock :
        b = end \div BLOCKSIZE /\ s = end % BLOCKSIZE /\ end = BLOCKSIZE * b + s
  BY BlockOf
<1>3. q <= b
  BY ONLY <1>1, <1>2, offset <= end, LaterBlock
<1>4. BLOCKSIZE \in Nat \ {0} /\ r \in Nat /\ r < BLOCKSIZE /\ s \in Nat /\ s < BLOCKSIZE
  BY BlockAssumption DEF InBlock
<1>5. PICK m \in Nat : m = BLOCKSIZE * q
  BY Multiple
<1>6. PICK n \in Nat : n = BLOCKSIZE * b
  BY Multiple
<1>7. offset = m + r /\ end = n + s
  BY <1>1, <1>2, <1>5, <1>6
<1>8. CASE q = b
  <2>1. p = Piece(q, r, 0, end - offset)
    BY <1>1, <1>2, <1>8 DEF Pieces
  <2>2. p.block = q /\ p.at = r /\ p.from = 0 /\ p.n = end - offset
    BY <2>1 DEF Piece
  <2>3. m = n
    BY <1>5, <1>6, <1>8
  <2>4. p.n \in Nat /\ p.at + p.n <= BLOCKSIZE /\ p.from + p.n <= end - offset
    BY <1>4, <1>7, <2>2, <2>3
  <2>5. BLOCKSIZE * p.block + p.at = offset + p.from
    BY <1>1, <2>2
  <2>. QED
    BY <1>4, <2>2, <2>4, <2>5 DEF Fits
<1>9. CASE q < b
  <2>0. m + BLOCKSIZE <= n
    BY <1>5, <1>6, <1>9, BlocksInOrder
  <2>1. \/ p = FirstPiece(offset)
        \/ \E block \in q + 1 .. b - 1 : p = WholePiece(offset, block)
        \/ p = LastPiece(offset, end)
    BY <1>1, <1>2, <1>9 DEF Pieces
  <2>2. CASE p = FirstPiece(offset)
    <3>1. p.block = q /\ p.at = r /\ p.from = 0 /\ p.n = BLOCKSIZE - r
      BY <1>1, <2>2 DEF FirstPiece, Piece
    <3>2. p.n \in Nat /\ p.at + p.n <= BLOCKSIZE /\ p.from + p.n <= end - offset
      BY <1>4, <1>7, <2>0, <3>1
    <3>3. BLOCKSIZE * p.block + p.at = offset + p.from
      BY <1>1, <3>1
    <3>. QED
      BY <1>4, <3>1, <3>2, <3>3 DEF Fits
  <2>3. ASSUME NEW c \in q + 1 .. b - 1, p = WholePiece(offset, c)
        PROVE  Fits(p, offset, end)
    <3>1. p.block = c /\ p.at = 0 /\ p.n = BLOCKSIZE /\ p.from = BLOCKSIZE * (c - q) - r
      BY <1>1, <2>3 DEF WholePiece, Piece
    <3>2. c \in Nat /\ q < c /\ c < b
      OBVIOUS
    <3>3. PICK k \in Nat : k = BLOCKSIZE * c
      BY <3>2, Multiple
    <3>4. p.from = k - m - r
      BY <1>5, <3>1, <3>2, <3>3, Distributed
    <3>5. m + BLOCKSIZE <= k /\ k + BLOCKSIZE <= n
      BY <1>5, <1>6, <3>2, <3>3, BlocksInOrder
    <3>6. p.from \in Nat /\ p.n \in Nat /\ p.at + p.n <= BLOCKSIZE
          /\ p.from + p.n <= end - offset
      BY <1>4, <1>7, <3>1, <3>4, <3>5
    <3>7. k + p.at = offset + p.from
      BY <1>4, <1>7, <3>1, <3>4
    <3>8. BLOCKSIZE * p.block + p.at = offset + p.from
      BY <3>1, <3>3, <3>7
    <3>. QED
      BY <3>1, <3>2, <3>6, <3>8 DEF Fits
  <2>4. CASE p = LastPiece(offset, end)
    <3>1. p.block = b /\ p.at = 0 /\ p.n = s /\ p.from = BLOCKSIZE * (b - q) - r
      BY <1>1, <1>2, <2>4 DEF LastPiece, WholePiece, Piece
    <3>2. p.from = n - m - r
      BY <1>5, <1>6, <3>1, Distributed
    <3>3. p.from \in Nat /\ p.at + p.n <= BLOCKSIZE /\ p.from + p.n <= end - offset
      BY <1>4, <1>7, <2>0, <3>1, <3>2
    <3>4. n + p.at = offset + p.from
      BY <1>4, <1>7, <3>1, <3>2
    <3>5. BLOCKSIZE * p.block + p.at = offset + p.from
      BY <3>1, <1>6, <3>4
    <3>. QED
      BY <1>4, <3>1, <3>3, <3>5 DEF Fits
  <2>. QED
    BY <2>1, <2>2, <2>3, <2>4
<1>. QED
  BY <1>3, <1>8, <1>9

(* A piece that fits copies bytes of the buffer to or from their places.   *)
LEMMA CopiesInPlace ==
    ASSUME NEW offset \in Nat, NEW end \in Nat, NEW p, Fits(p, offset, end),
           NEW i \in Nat, Copies(p, i)
    PROVE  InPlace(p, i, offset)
<1>1. BLOCKSIZE \in Nat \ {0}
  BY BlockAssumption
<1>2. PICK m \in Nat : m = BLOCKSIZE * p.block
  BY Multiple DEF Fits
<1>3. p.from <= i /\ i < p.from + p.n
  BY DEF Copies, Fits
<1>4. m + p.at = offset + p.from
  BY <1>2 DEF Fits
<1>5. p.at + (i - p.from) \in InBlock
  BY <1>1, <1>3 DEF Fits, InBlock
<1>6. offset + i = m + (p.at + (i - p.from))
  BY <1>3, <1>4 DEF Fits
<1>7. offset + i = BLOCKSIZE * p.block + (p.at + (i - p.from))
  BY <1>2, <1>6
<1>8. p.block \in Nat /\ offset + i \in Nat
  BY DEF Fits
<1>9. PICK r \in 0 .. BLOCKSIZE - 1 : r = p.at + (i - p.from)
  BY <1>5 DEF InBlock
<1>10. offset + i = BLOCKSIZE * p.block + r
  BY <1>7, <1>9
<1>11. p.block = (offset + i) \div BLOCKSIZE /\ r = (offset + i) % BLOCKSIZE
  BY <1>8, <1>10, BlockUnique
<1>. QED
  BY <1>9, <1>11 DEF InPlace

(* No two pieces of a transfer are in the same block. *)
LEMMA OnePieceABlock ==
    ASSUME NEW offset \in Nat, NEW end \in Nat, offset <= end,
           NEW p \in Pieces(offset, end), NEW q \in Pieces(offset, end),
           p.block = q.block
    PROVE  p = q
<1>1. PICK a \in Nat, r \in InBlock :
        a = offset \div BLOCKSIZE /\ r = offset % BLOCKSIZE /\ offset = BLOCKSIZE * a + r
  BY BlockOf
<1>2. PICK b \in Nat, s \in InBlock :
        b = end \div BLOCKSIZE /\ s = end % BLOCKSIZE /\ end = BLOCKSIZE * b + s
  BY BlockOf
<1>3. a <= b
  BY ONLY <1>1, <1>2, offset <= end, LaterBlock
<1>4. CASE a = b
  BY <1>1, <1>2, <1>4 DEF Pieces
<1>5. CASE a < b
  <2>1. FirstPiece(offset).block = a
    BY <1>1 DEF FirstPiece, Piece
  <2>2. \A c : WholePiece(offset, c).block = c
    BY DEF WholePiece, Piece
  <2>3. LastPiece(offset, end).block = b
    BY <1>2 DEF LastPiece, WholePiece, Piece
  <2>4. ASSUME NEW x \in Pieces(offset, end)
        PROVE  \/ x = FirstPiece(offset) /\ x.block = a
               \/ x = WholePiece(offset, x.block) /\ a < x.block /\ x.block < b
               \/ x = LastPiece(offset, end) /\ x.block = b
    <3>1. \/ x = FirstPiece(offset)
          \/ \E c \in a + 1 .. b - 1 : x = WholePiece(offset, c)
          \/ x = LastPiece(offset, end)
      BY <1>1, <1>2, <1>5, <2>4 DEF Pieces
    <3>2. ASSUME NEW c \in a + 1 .. b - 1, x = WholePiece(offset, c)
          PROVE  x = WholePiece(offset, x.block) /\ a < x.block /\ x.block < b
      BY <2>2, <3>2
    <3>. QED
      BY <2>1, <2>3, <3>1, <3>2
  <2>5. a # b
    BY <1>5
  <2>. QED
    BY <2>4, <2>5, <1>5
<1>. QED
  BY <1>3, <1>4, <1>5

(* Every byte of the buffer is in a piece. *)
LEMMA PiecesCover ==
    ASSUME NEW offset \in Nat, NEW end \in Nat, offset <= end,
           NEW i \in Nat, i < end - offset
    PROVE  \E p \in Pieces(offset, end) : Copies(p, i)
<1>1. PICK a \in Nat, r \in InBlock :
        a = offset \div BLOCKSIZE /\ r = offset % BLOCKSIZE /\ offset = BLOCKSIZE * a + r
  BY BlockOf
<1>2. PICK b \in Nat, s \in InBlock :
        b = end \div BLOCKSIZE /\ s = end % BLOCKSIZE /\ end = BLOCKSIZE * b + s
  BY BlockOf
<1>3. a <= b
  BY ONLY <1>1, <1>2, offset <= end, LaterBlock
<1>4. BLOCKSIZE \in Nat \ {0} /\ r \in Nat /\ r < BLOCKSIZE /\ s \in Nat /\ s < BLOCKSIZE
  BY BlockAssumption DEF InBlock
<1>5. PICK m \in Nat : m = BLOCKSIZE * a
  BY Multiple
<1>6. PICK n \in Nat : n = BLOCKSIZE * b
  BY Multiple
<1>7. offset = m + r /\ end = n + s
  BY <1>1, <1>2, <1>5, <1>6
<1>8. CASE a = b
  <2>1. Piece(a, r, 0, end - offset) \in Pieces(offset, end)
    BY <1>1, <1>2, <1>8 DEF Pieces
  <2>. QED
    BY <2>1 DEF Copies, Piece
<1>9. CASE a < b
  <2>1. offset + i \in Nat
    OBVIOUS
  <2>2. PICK c \in Nat, t \in InBlock :
          c = (offset + i) \div BLOCKSIZE /\ t = (offset + i) % BLOCKSIZE
          /\ offset + i = BLOCKSIZE * c + t
    BY <2>1, BlockOf
  <2>3. t \in Nat /\ t < BLOCKSIZE
    BY <1>4, <2>2 DEF InBlock
  <2>4. PICK k \in Nat : k = BLOCKSIZE * c
    BY Multiple
  <2>5. offset + i = k + t
    BY <2>2, <2>4
  <2>6. a <= c /\ c <= b
    <3>1. BLOCKSIZE * a + r <= BLOCKSIZE * c + t
      BY <1>5, <1>7, <2>4, <2>5
    <3>2. BLOCKSIZE * c + t <= BLOCKSIZE * b + s
      BY <1>6, <1>7, <2>4, <2>5
    <3>. QED
      BY <3>1, <3>2, LaterBlock
  <2>7. CASE c = a
    <3>1. FirstPiece(offset) \in Pieces(offset, end)
      BY <1>1, <1>2, <1>9 DEF Pieces
    <3>2. FirstPiece(offset).from = 0 /\ FirstPiece(offset).n = BLOCKSIZE - r
      BY <1>1 DEF FirstPiece, Piece
    <3>3. k = m
      BY <1>5, <2>4, <2>7
    <3>4. i < BLOCKSIZE - r
      BY <1>4, <1>7, <2>3, <2>5, <3>3
    <3>. QED
      BY <1>4, <3>1, <3>2, <3>4 DEF Copies
  <2>8. CASE a < c /\ c < b
    <3>1. WholePiece(offset, c) \in Pieces(offset, end)
      BY <1>1, <1>2, <1>9, <2>8 DEF Pieces
    <3>2. WholePiece(offset, c).from = BLOCKSIZE * (c - a) - r
          /\ WholePiece(offset, c).n = BLOCKSIZE
      BY <1>1 DEF WholePiece, Piece
    <3>3. PICK f \in Int : f = k - m - r /\ WholePiece(offset, c).from = f
      BY <1>4, <1>5, <2>4, <3>2, Distributed
    <3>4. f <= i /\ i <= f + BLOCKSIZE - 1
      BY <1>4, <1>7, <2>3, <2>5, <3>3
    <3>. QED
      BY <1>4, <3>1, <3>2, <3>3, <3>4 DEF Copies
  <2>9. CASE c = b
    <3>1. k = n
      BY <1>6, <2>4, <2>9
    <3>2. t < s
      BY <1>7, <2>3, <1>4, <2>5, <3>1
    <3>3. LastPiece(offset, end).from = BLOCKSIZE * (b - a) - r /\ LastPiece(offset, end).n = s
      BY <1>1, <1>2 DEF LastPiece, WholePiece, Piece
    <3>4. LastPiece(offset, end) \in Pieces(offset, end)
      BY <1>1, <1>2, <1>9, <1>4, <2>3, <3>2, <3>3 DEF Pieces
    <3>5. PICK f \in Int : f = n - m - r /\ LastPiece(offset, end).from = f
      BY <1>4, <1>5, <1>6, <3>3, Distributed
    <3>6. f <= i /\ i <= f + s - 1
      BY <1>4, <1>7, <2>3, <2>5, <3>1, <3>2, <3>5
    <3>. QED
      BY <1>4, <3>3, <3>4, <3>5, <3>6 DEF Copies
  <2>. QED
    BY <2>6, <2>7, <2>8, <2>9
<1>. QED
  BY <1>3, <1>8, <1>9

(* A transfer copies each of its bytes once, to its place, whatever the    *)
(* size of a block.                                                        *)
LEMMA TransferExact ==
    ASSUME NEW offset \in Nat, NEW end \in Nat, offset <= end
    PROVE  CutExactly(offset, end)
<1>1. ASSUME NEW i \in 0 .. end - offset - 1
      PROVE  \E p \in Pieces(offset, end) :
                /\ InPlace(p, i, offset)
                /\ {q \in Pieces(offset, end) : Copies(q, i)} = {p}
  <2>1. i \in Nat /\ i < end - offset
    OBVIOUS
  <2>2. PICK p \in Pieces(offset, end) : Copies(p, i)
    BY <2>1, PiecesCover
  <2>3. InPlace(p, i, offset)
    BY <2>1, <2>2, PiecesFit, CopiesInPlace
  <2>4. ASSUME NEW q \in Pieces(offset, end), Copies(q, i) PROVE q = p
    <3>1. InPlace(q, i, offset)
      BY <2>1, <2>4, PiecesFit, CopiesInPlace
    <3>2. p.block = q.block
      BY <2>3, <3>1 DEF InPlace
    <3>. QED
      BY <3>2, OnePieceABlock
  <2>. QED
    BY <2>2, <2>3, <2>4
<1>2. ASSUME NEW p \in Pieces(offset, end)
      PROVE  /\ p.at >= 0 /\ p.at + p.n <= BLOCKSIZE
             /\ p.from >= 0 /\ p.from + p.n <= end - offset
  BY PiecesFit DEF Fits
<1>. QED
  BY <1>1, <1>2 DEF CutExactly

(* The only piece of an empty transfer, and the pieces of others, which    *)
(* are not empty.                                                          *)
LEMMA PiecesNotEmpty ==
    ASSUME NEW offset \in Nat, NEW end \in Nat, offset < end,
           NEW p \in Pieces(offset, end)
    PROVE  p.n > 0
<1>1. PICK a \in Nat, r \in InBlock :
        a = offset \div BLOCKSIZE /\ r = offset % BLOCKSIZE /\ offset = BLOCKSIZE * a + r
  BY BlockOf
<1>2. PICK b \in Nat, s \in InBlock :
        b = end \div BLOCKSIZE /\ s = end % BLOCKSIZE /\ end = BLOCKSIZE * b + s
  BY BlockOf
<1>3. BLOCKSIZE \in Nat \ {0} /\ r \in Nat /\ r < BLOCKSIZE
  BY BlockAssumption DEF InBlock
<1>4. CASE a = b
  BY <1>1, <1>2, <1>4 DEF Pieces, Piece
<1>5. CASE a # b
  <2>1. \/ p = FirstPiece(offset)
        \/ \E c \in a + 1 .. b - 1 : p = WholePiece(offset, c)
        \/ p.n > 0
    BY <1>1, <1>2, <1>5 DEF Pieces
  <2>2. FirstPiece(offset).n = BLOCKSIZE - r
    BY <1>1 DEF FirstPiece, Piece
  <2>3. \A c : WholePiece(offset, c).n = BLOCKSIZE
    BY DEF WholePiece, Piece
  <2>. QED
    BY <1>3, <2>1, <2>2, <2>3
<1>. QED
  BY <1>4, <1>5

(* An empty transfer has one piece, in the block of its position. *)
LEMMA EmptyTransfer ==
    ASSUME NEW offset \in Nat
    PROVE  Pieces(offset, offset) = {Piece(offset \div BLOCKSIZE, offset % BLOCKSIZE, 0, 0)}
<1>1. offset - offset = 0
  OBVIOUS
<1>. QED
  BY <1>1 DEF Pieces

(* A transfer touches blocks up to a last one, and that one holds the last *)
(* byte.                                                                   *)
LEMMA LastBlock ==
    ASSUME NEW offset \in Nat, NEW end \in Nat, offset <= end
    PROVE  \E p \in Pieces(offset, end) :
              /\ p.block \in Nat
              /\ end <= BLOCKSIZE * (p.block + 1)
              /\ \A q \in Pieces(offset, end) : q.block \in Nat /\ q.block <= p.block
<1>0. BLOCKSIZE \in Nat \ {0}
  BY BlockAssumption
<1>1. ASSUME NEW b \in Nat, NEW t \in InBlock, NEW a \in Nat, a <= BLOCKSIZE * b + t + 1
      PROVE  a <= BLOCKSIZE * (b + 1)
  <2>1. BLOCKSIZE * (b + 1) = BLOCKSIZE * b + BLOCKSIZE
    BY <1>0
  <2>2. PICK m \in Nat : m = BLOCKSIZE * b
    BY Multiple
  <2>3. a <= m + t + 1
    BY <1>1, <2>2
  <2>4. a <= m + BLOCKSIZE
    BY <1>0, <2>3 DEF InBlock
  <2>. QED
    BY <2>1, <2>2, <2>4
<1>2. CASE offset = end
  <2>1. PICK b \in Nat, t \in InBlock :
          b = offset \div BLOCKSIZE /\ t = offset % BLOCKSIZE /\ offset = BLOCKSIZE * b + t
    BY BlockOf
  <2>2. Pieces(offset, end) = {Piece(b, t, 0, 0)}
    BY <1>2, <2>1, EmptyTransfer
  <2>3. Piece(b, t, 0, 0).block = b
    BY DEF Piece
  <2>4. PICK m \in Nat : m = BLOCKSIZE * b
    BY Multiple
  <2>5. end = m + t
    BY <1>2, <2>1, <2>4
  <2>6. end <= m + t + 1
    BY <2>5 DEF InBlock
  <2>7. end <= BLOCKSIZE * (b + 1)
    BY <1>1, <2>4, <2>6
  <2>. QED
    BY <2>2, <2>3, <2>7
<1>3. CASE offset < end
  <2>. DEFINE i == end - offset - 1
  <2>1. i \in Nat /\ i < end - offset /\ offset + i = end - 1 /\ end - 1 \in Nat
    BY <1>3
  <2>2. PICK p \in Pieces(offset, end) : Copies(p, i)
    BY <2>1, PiecesCover
  <2>3. PICK b \in Nat, t \in InBlock :
          b = (end - 1) \div BLOCKSIZE /\ t = (end - 1) % BLOCKSIZE
          /\ end - 1 = BLOCKSIZE * b + t
    BY <2>1, BlockOf
  <2>4. p.block = b
    <3>1. InPlace(p, i, offset)
      BY <2>1, <2>2, PiecesFit, CopiesInPlace
    <3>. QED
      BY <2>1, <2>3, <3>1 DEF InPlace
  <2>5. PICK m \in Nat : m = BLOCKSIZE * b
    BY Multiple
  <2>6. end = m + t + 1
    BY <2>3, <2>5 DEF InBlock
  <2>7. end <= BLOCKSIZE * (b + 1)
    BY <1>1, <2>5, <2>6
  <2>8. ASSUME NEW q \in Pieces(offset, end) PROVE q.block \in Nat /\ q.block <= b
    <3>1. Fits(q, offset, end) /\ q.n > 0
      BY <1>3, PiecesFit, PiecesNotEmpty
    <3>2. PICK k \in Nat : k = BLOCKSIZE * q.block
      BY <3>1, Multiple DEF Fits
    <3>3. k + q.at = offset + q.from
      BY <3>1, <3>2 DEF Fits
    <3>4. k + 0 <= m + t
      BY <2>6, <3>1, <3>3 DEF Fits, InBlock
    <3>5. q.block \in Nat /\ 0 \in InBlock
      BY <1>0, <3>1 DEF Fits, InBlock
    <3>. QED
      BY <2>5, <3>2, <3>4, <3>5, LaterBlock
  <2>. QED
    BY <2>4, <2>7, <2>8
<1>. QED
  BY <1>2, <1>3

(* The number of blocks that write_tmpfs sees to is that of the last one.  *)
LEMMA Needed ==
    ASSUME NEW offset \in Nat, NEW end \in Nat, offset <= end
    PROVE  \E need \in Nat :
              /\ need = Max({p.block + 1 : p \in Pieces(offset, end)})
              /\ end <= BLOCKSIZE * need
              /\ \A p \in Pieces(offset, end) : p.block \in Nat /\ p.block + 1 <= need
<1>1. PICK p \in Pieces(offset, end) :
              /\ p.block \in Nat
              /\ end <= BLOCKSIZE * (p.block + 1)
              /\ \A q \in Pieces(offset, end) : q.block \in Nat /\ q.block <= p.block
  BY LastBlock
<1>. DEFINE S == {q.block + 1 : q \in Pieces(offset, end)}
<1>2. p.block + 1 \in S
  OBVIOUS
<1>3. \A y \in S : y \in Nat /\ y <= p.block + 1
  BY <1>1
<1>4. Max(S) \in S /\ \A y \in S : Max(S) >= y
  <2>1. \E x \in S : \A y \in S : x >= y
    BY <1>1, <1>2, <1>3
  <2>. QED
    BY <2>1 DEF Max
<1>5. PICK need : need = Max(S)
  OBVIOUS
<1>6. need \in Nat /\ need <= p.block + 1 /\ need >= p.block + 1
  BY <1>2, <1>3, <1>4, <1>5
<1>7. need = p.block + 1
  BY <1>1, <1>6
<1>8. \A q \in Pieces(offset, end) : q.block \in Nat /\ q.block + 1 <= need
  BY <1>1, <1>7
<1>9. end <= BLOCKSIZE * need
  BY <1>1, <1>7
<1>. QED
  BY <1>5, <1>6, <1>8, <1>9, Zenon
-----------------------------------------------------------------------------
(* Frames and the directory.                                               *)

Node == [name : Names, type : Kinds, length : 0 .. MaxLength, blocks : Seq(Frames)]

(* TypeOK, which says nothing of addresses that hold no object, and with   *)
(* the number of blocks left open.                                         *)
Shape ==
    /\ files \in Seq(Inodes)
    /\ inode \in [Inodes -> Node \cup {Unused}]
    /\ free \subseteq Frames /\ others \subseteq Frames
    /\ mem \in [Frames -> [InBlock -> Bytes]]

(* The blocks of all objects. *)
Used == UNION {Range(Blocks(i)) : i \in Objects}

(* FramesOwnedOnce without the types and what is lost. *)
Owned ==
    /\ \A i \in Objects :
        /\ IsInjective(Blocks(i))
        /\ Range(Blocks(i)) \cap (free \cup others) = {}
        /\ \A j \in Objects \ {i} : Range(Blocks(i)) \cap Range(Blocks(j)) = {}
    /\ free \cap others = {}
    /\ Frames = free \cup others \cup Used

Counted == tmpfs_total_blocks = Cardinality(Used)

(* Every byte of a file has a block. *)
Reach == \A i \in Objects : inode[i].length <= BLOCKSIZE * Len(Blocks(i))

IInv == Shape /\ DirectoryListsAll /\ Owned /\ Counted /\ Reach

(* Every removal has lost one frame, and every entry still has its own. *)
Losses ==
    /\ lost \subseteq others
    /\ removed \in Nat /\ Cardinality(lost) = removed
    /\ Held >= Len(files)

(* An address without an object is not taken for one with. *)
LEMMA UnusedIsNone == Unused \notin Node
BY TmpfsAssumption DEF Node, Frames

(* What an object is. *)
LEMMA ObjectIs ==
    ASSUME Shape, NEW i \in Objects
    PROVE  /\ i \in Inodes /\ inode[i] \in Node
           /\ inode[i].name \in Names /\ inode[i].type \in Kinds
           /\ inode[i].length \in 0 .. MaxLength
           /\ inode[i].blocks \in Seq(Frames) /\ Len(inode[i].blocks) \in Nat
<1>1. i \in Inodes /\ inode[i] \in Node
  BY DEF Shape, Objects
<1>2. inode[i].blocks \in Seq(Frames)
  BY <1>1 DEF Node
<1>. QED
  BY <1>1, <1>2, LenProperties DEF Node

(* The elements of a sequence without repetition are as many as it is      *)
(* long.                                                                   *)
LEMMA InjectiveSize ==
    ASSUME NEW S, NEW s \in Seq(S), IsInjective(s)
    PROVE  IsFiniteSet(Range(s)) /\ Cardinality(Range(s)) = Len(s)
<1>1. Len(s) \in Nat /\ DOMAIN s = 1 .. Len(s)
  BY LenProperties
<1>2. IsFiniteSet(1 .. Len(s)) /\ Cardinality(1 .. Len(s)) = Len(s)
  <2>1. 1 \in Int /\ Len(s) \in Int
    BY <1>1
  <2>2. IF 1 > Len(s) THEN Len(s) = 0 ELSE Len(s) - 1 + 1 = Len(s)
    BY <1>1
  <2>. QED
    BY <2>1, <2>2, FS_Interval
<1>3. s \in Surjection(1 .. Len(s), Range(s))
  BY <1>1 DEF Surjection, Range
<1>4. s \in Injection(1 .. Len(s), Range(s))
  BY <1>1, <1>3 DEF Surjection, Injection, IsInjective
<1>. QED
  BY <1>2, <1>3, <1>4, FS_Surjection

(* The elements of a sequence and of one that is put behind it. *)
LEMMA ConcatRange ==
    ASSUME NEW S, NEW s \in Seq(S), NEW t \in Seq(S)
    PROVE  Range(s \o t) = Range(s) \cup Range(t)
<1>1. s \o t \in Seq(S) /\ Len(s \o t) = Len(s) + Len(t)
      /\ \A i \in 1 .. Len(s) + Len(t) :
            (s \o t)[i] = IF i <= Len(s) THEN s[i] ELSE t[i - Len(s)]
  BY ConcatProperties
<1>2. Len(s) \in Nat /\ DOMAIN s = 1 .. Len(s) /\ Len(t) \in Nat /\ DOMAIN t = 1 .. Len(t)
      /\ DOMAIN (s \o t) = 1 .. Len(s) + Len(t)
  BY <1>1, LenProperties
<1>3. ASSUME NEW x \in Range(s \o t) PROVE x \in Range(s) \cup Range(t)
  <2>1. PICK k \in 1 .. Len(s) + Len(t) : x = (s \o t)[k]
    BY <1>2, <1>3 DEF Range
  <2>2. CASE k <= Len(s)
    <3>1. k \in 1 .. Len(s) /\ x = s[k]
      BY <1>1, <1>2, <2>1, <2>2
    <3>. QED
      BY <1>2, <3>1 DEF Range
  <2>3. CASE ~(k <= Len(s))
    <3>1. k - Len(s) \in 1 .. Len(t) /\ x = t[k - Len(s)]
      BY <1>1, <1>2, <2>1, <2>3
    <3>. QED
      BY <1>2, <3>1 DEF Range
  <2>. QED
    BY <2>2, <2>3
<1>4. ASSUME NEW x \in Range(s) PROVE x \in Range(s \o t)
  <2>1. PICK k \in 1 .. Len(s) : x = s[k]
    BY <1>2, <1>4 DEF Range
  <2>2. k \in 1 .. Len(s) + Len(t) /\ x = (s \o t)[k]
    BY <1>1, <1>2, <2>1
  <2>. QED
    BY <1>2, <2>2 DEF Range
<1>5. ASSUME NEW x \in Range(t) PROVE x \in Range(s \o t)
  <2>1. PICK k \in 1 .. Len(t) : x = t[k]
    BY <1>2, <1>5 DEF Range
  <2>2. Len(s) + k \in 1 .. Len(s) + Len(t) /\ ~(Len(s) + k <= Len(s))
        /\ (Len(s) + k) - Len(s) = k
    BY <1>2
  <2>3. x = (s \o t)[Len(s) + k]
    BY <1>1, <2>1, <2>2
  <2>. QED
    BY <1>2, <2>2, <2>3 DEF Range
<1>. QED
  BY <1>3, <1>4, <1>5

(* Two sequences without repetition that have nothing in common give one   *)
(* without repetition.                                                     *)
LEMMA ConcatInjective ==
    ASSUME NEW S, NEW s \in Seq(S), NEW t \in Seq(S), IsInjective(s), IsInjective(t),
           Range(s) \cap Range(t) = {}
    PROVE  IsInjective(s \o t)
<1>1. s \o t \in Seq(S) /\ Len(s \o t) = Len(s) + Len(t)
      /\ \A i \in 1 .. Len(s) + Len(t) :
            (s \o t)[i] = IF i <= Len(s) THEN s[i] ELSE t[i - Len(s)]
  BY ConcatProperties
<1>2. Len(s) \in Nat /\ DOMAIN s = 1 .. Len(s) /\ Len(t) \in Nat /\ DOMAIN t = 1 .. Len(t)
      /\ DOMAIN (s \o t) = 1 .. Len(s) + Len(t)
  BY <1>1, LenProperties
<1>3. SUFFICES ASSUME NEW a \in 1 .. Len(s) + Len(t), NEW b \in 1 .. Len(s) + Len(t),
                      (s \o t)[a] = (s \o t)[b]
               PROVE  a = b
  BY <1>2 DEF IsInjective
<1>4. ASSUME NEW c \in 1 .. Len(s) + Len(t), c <= Len(s)
      PROVE  c \in 1 .. Len(s) /\ (s \o t)[c] = s[c] /\ s[c] \in Range(s)
  BY <1>1, <1>2, <1>4 DEF Range
<1>5. ASSUME NEW c \in 1 .. Len(s) + Len(t), ~(c <= Len(s))
      PROVE  c - Len(s) \in 1 .. Len(t) /\ (s \o t)[c] = t[c - Len(s)]
             /\ t[c - Len(s)] \in Range(t)
  <2>1. c - Len(s) \in 1 .. Len(t)
    BY <1>2, <1>5
  <2>. QED
    BY <1>1, <1>2, <1>5, <2>1 DEF Range
<1>6. CASE a <= Len(s) /\ b <= Len(s)
  BY <1>2, <1>3, <1>4, <1>6 DEF IsInjective
<1>7. CASE ~(a <= Len(s)) /\ ~(b <= Len(s))
  <2>1. a - Len(s) = b - Len(s)
    BY <1>2, <1>3, <1>5, <1>7 DEF IsInjective
  <2>. QED
    BY <1>2, <2>1
<1>. QED
  BY <1>3, <1>4, <1>5, <1>6, <1>7

(* The frames of memory are finitely many. *)
LEMMA FramesFinite == IsFiniteSet(Frames) /\ Cardinality(Frames) = NFrames
<1>1. 0 \in Int /\ NFrames - 1 \in Int /\ NFrames \in Nat \ {0}
  BY TmpfsAssumption
<1>2. IF 0 > NFrames - 1 THEN 0 = NFrames ELSE NFrames - 1 - 0 + 1 = NFrames
  BY <1>1
<1>. QED
  BY <1>1, <1>2, FS_Interval DEF Frames

(* Growing a file keeps its blocks and puts free frames behind them, each  *)
(* once, until there are as many blocks as are needed.                     *)
LEMMA GrownIs ==
    ASSUME Shape, NEW old \in Seq(Frames), IsInjective(old), Range(old) \cap free = {},
           NEW pieces, NEW need \in Nat, need = Max({p.block + 1 : p \in pieces}),
           NEW blocks \in Grown(old, pieces)
    PROVE  /\ blocks \in Seq(Frames) /\ IsInjective(blocks)
           /\ Len(blocks) \in Nat /\ Len(old) \in Nat
           /\ Len(blocks) >= Len(old) /\ Len(blocks) >= need
           /\ \A k \in 1 .. Len(old) : blocks[k] = old[k]
           /\ \E new \in SUBSET free :
                 /\ Range(blocks) = Range(old) \cup new
                 /\ Cardinality(new) = Len(blocks) - Len(old)
<1>1. Len(old) \in Nat
  BY LenProperties
<1>2. CASE need <= Len(old)
  <2>1. blocks = old
    BY <1>2 DEF Grown
  <2>2. Cardinality({}) = 0
    BY FS_EmptySet
  <2>. QED
    BY <1>1, <1>2, <2>1, <2>2
<1>3. CASE ~(need <= Len(old))
  <2>1. PICK n \in Nat : n = need - Len(old)
    <3>1. need - Len(old) \in Nat
      BY <1>1, <1>3
    <3>. QED
      BY <3>1
  <2>2. PICK new \in LowestFree(n) : blocks = old \o new
    BY <1>3, <2>1 DEF Grown
  <2>3. new \in [1 .. n -> free] /\ \A j, k \in 1 .. n : j < k => new[j] < new[k]
    BY <2>2 DEF LowestFree
  <2>4. new \in [1 .. n -> Frames]
    BY <2>3 DEF Shape
  <2>5. new \in Seq(Frames) /\ DOMAIN new = 1 .. n
    BY <2>4, SMT
  <2>6. Len(new) = n
    BY <2>5, LenProperties
  <2>7. IsInjective(new)
    <3>1. SUFFICES ASSUME NEW j \in 1 .. n, NEW k \in 1 .. n, new[j] = new[k]
                   PROVE  j = k
      BY <2>5 DEF IsInjective
    <3>2. new[j] \in Int /\ new[k] \in Int
      BY <2>4, TmpfsAssumption DEF Frames
    <3>3. ~(j < k) /\ ~(k < j)
      BY <2>3, <3>1, <3>2
    <3>. QED
      BY <3>3
  <2>8. Range(new) \subseteq free
    BY <2>3, <2>5 DEF Range
  <2>9. IsInjective(blocks)
    BY <2>2, <2>5, <2>7, <2>8, ConcatInjective
  <2>10. blocks \in Seq(Frames) /\ Len(blocks) = Len(old) + Len(new)
         /\ \A k \in 1 .. Len(old) + Len(new) :
              blocks[k] = IF k <= Len(old) THEN old[k] ELSE new[k - Len(old)]
    BY <2>2, <2>5, ConcatProperties
  <2>11. Len(blocks) = need
    BY <1>1, <2>1, <2>6, <2>10
  <2>12. \A k \in 1 .. Len(old) : blocks[k] = old[k]
    BY <1>1, <2>1, <2>6, <2>10
  <2>13. Range(blocks) = Range(old) \cup Range(new)
    BY <2>2, <2>5, ConcatRange
  <2>14. Cardinality(Range(new)) = Len(blocks) - Len(old)
    BY <2>1, <2>5, <2>6, <2>7, <2>11, InjectiveSize
  <2>. QED
    BY <1>1, <1>3, <2>8, <2>9, <2>10, <2>11, <2>12, <2>13, <2>14
<1>. QED
  BY <1>2, <1>3

(* File i gets another length and other blocks. *)
Changed(i, n, b) == inode' = [inode EXCEPT ![i].length = n, ![i].blocks = b]

(* Changing the length and the blocks of a file leaves all other things of *)
(* it and the other objects alone.                                         *)
LEMMA ChangeFacts ==
    ASSUME Shape, NEW i \in Objects, NEW n \in 0 .. MaxLength, NEW b \in Seq(Frames),
           Changed(i, n, b)
    PROVE  /\ inode' \in [Inodes -> Node \cup {Unused}]
           /\ Objects' = Objects
           /\ inode'[i].length = n /\ inode'[i].blocks = b
           /\ \A j \in Objects : inode'[j].name = inode[j].name /\ inode'[j].type = inode[j].type
           /\ \A j \in Inodes \ {i} : inode'[j] = inode[j]
<1>1. i \in Inodes /\ inode[i] \in Node
  BY ObjectIs
<1>2. inode \in [Inodes -> Node \cup {Unused}]
  BY DEF Shape
<1>3. inode'[i] = [inode[i] EXCEPT !.length = n, !.blocks = b]
  BY <1>1, <1>2 DEF Changed
<1>4. inode'[i] \in Node
  <2>1. PICK e : e = inode[i]
    OBVIOUS
  <2>2. e \in Node /\ inode'[i] = [e EXCEPT !.length = n, !.blocks = b]
    BY <1>1, <1>3, <2>1
  <2>3. [e EXCEPT !.length = n, !.blocks = b]
          = [name |-> e.name, type |-> e.type, length |-> n, blocks |-> b]
    BY <2>2 DEF Node
  <2>4. e.name \in Names /\ e.type \in Kinds
    BY <2>2 DEF Node
  <2>5. [name |-> e.name, type |-> e.type, length |-> n, blocks |-> b] \in Node
    BY <2>4 DEF Node
  <2>. QED
    BY <2>2, <2>3, <2>5, Zenon
<1>5. \A j \in Inodes \ {i} : inode'[j] = inode[j]
  BY <1>1, <1>2 DEF Changed
<1>6. inode'[i].length = n /\ inode'[i].blocks = b
      /\ inode'[i].name = inode[i].name /\ inode'[i].type = inode[i].type
  BY <1>1, <1>3 DEF Node
<1>7. inode' \in [Inodes -> Node \cup {Unused}]
  <2>1. DOMAIN inode' = Inodes /\ inode' = [j \in Inodes |-> inode'[j]]
    BY <1>2 DEF Changed
  <2>2. \A j \in Inodes : inode'[j] \in Node \cup {Unused}
    BY <1>2, <1>4, <1>5
  <2>. QED
    BY <2>1, <2>2
<1>8. inode'[i] # Unused /\ inode[i] # Unused
  BY <1>1, <1>4, UnusedIsNone
<1>9. Objects' = Objects
  BY <1>5, <1>8 DEF Objects
<1>. QED
  BY <1>5, <1>6, <1>7, <1>9 DEF Objects

(* The directory is as good as before when neither entries nor names       *)
(* change.                                                                 *)
LEMMA DirectoryStays ==
    ASSUME DirectoryListsAll, files' = files, Objects' = Objects,
           \A j \in Objects : inode'[j].name = inode[j].name
    PROVE  DirectoryListsAll'
BY DEF DirectoryListsAll

(* The frames of one object may change for free ones.                      *)
LEMMA OwnedStays ==
    ASSUME Owned, Objects' = Objects, others' = others, NEW i \in Objects,
           \A j \in Objects \ {i} : inode'[j].blocks = inode[j].blocks,
           IsInjective(inode'[i].blocks),
           Range(inode'[i].blocks) \subseteq free \cup Range(inode[i].blocks),
           free' = (free \cup Range(inode[i].blocks)) \ Range(inode'[i].blocks)
    PROVE  Owned'
<1>1. \A j \in Objects : Blocks(j)' = IF j = i THEN inode'[i].blocks ELSE Blocks(j)
  BY DEF Blocks
<1>2. Blocks(i) = inode[i].blocks
  BY DEF Blocks
<1>3. Used' = UNION {Range(Blocks(j)') : j \in Objects}
  BY DEF Used
<1>4. ASSUME NEW j \in Objects' PROVE IsInjective(Blocks(j)')
  BY <1>1, <1>4 DEF Owned
<1>5. ASSUME NEW j \in Objects' PROVE Range(Blocks(j)') \cap (free' \cup others') = {}
  BY <1>1, <1>2, <1>5 DEF Owned
<1>6. ASSUME NEW j \in Objects', NEW k \in Objects' \ {j}
      PROVE  Range(Blocks(j)') \cap Range(Blocks(k)') = {}
  BY <1>1, <1>2, <1>6 DEF Owned
<1>7. free' \cap others' = {}
  BY <1>2 DEF Owned
<1>8. Frames = free' \cup others' \cup Used'
  <2>1. Range(Blocks(i)') \subseteq Used'
    BY <1>3
  <2>2. Range(Blocks(i)) \subseteq free' \cup Used'
    BY <1>1, <1>2, <2>1
  <2>3. \A j \in Objects \ {i} : Range(Blocks(j)) \subseteq Used'
    BY <1>1, <1>3
  <2>4. Used \subseteq free' \cup Used'
    BY <2>2, <2>3 DEF Used
  <2>5. free \subseteq free' \cup Used'
    BY <1>1, <2>1
  <2>6. Range(Blocks(i)) \subseteq Frames /\ free \subseteq Frames
    BY DEF Owned, Used
  <2>7. free' \subseteq Frames
    BY <1>2, <2>6
  <2>8. Range(Blocks(i)') \subseteq Frames
    BY <1>1, <1>2, <2>6
  <2>9. \A j \in Objects \ {i} : Range(Blocks(j)') \subseteq Frames
    BY <1>1 DEF Owned, Used
  <2>10. Used' \subseteq Frames
    BY <1>3, <2>8, <2>9
  <2>. QED
    BY <2>4, <2>5, <2>7, <2>10 DEF Owned
<1>. QED
  BY <1>4, <1>5, <1>6, <1>7, <1>8 DEF Owned

(* The blocks of objects are the frames that nobody else has. *)
LEMMA UsedIs ==
    ASSUME Owned
    PROVE  Used = Frames \ (free \cup others)
<1>1. \A i \in Objects : Range(Blocks(i)) \cap (free \cup others) = {}
  BY DEF Owned
<1>2. Used \cap (free \cup others) = {}
  BY <1>1 DEF Used
<1>. QED
  BY <1>2 DEF Owned

(* The same after a step. *)
LEMMA UsedIsAfter ==
    ASSUME Owned'
    PROVE  Used' = Frames \ (free' \cup others')
<1>1. \A i \in Objects' : Range(Blocks(i)') \cap (free' \cup others') = {}
  BY DEF Owned
<1>2. Used' \cap (free' \cup others') = {}
  BY <1>1 DEF Used
<1>. QED
  BY <1>2 DEF Owned

(* The number of blocks changes as the frames in use do. *)
LEMMA CountedMore ==
    ASSUME Owned, Counted, Owned', NEW new \in SUBSET free, others' = others,
           free' = free \ new,
           tmpfs_total_blocks' = tmpfs_total_blocks + Cardinality(new)
    PROVE  Counted'
<1>1. Used' = Used \cup new
  BY UsedIs, UsedIsAfter DEF Owned
<1>2. Used \cap new = {}
  BY UsedIs
<1>3. Used \in SUBSET Frames /\ new \in SUBSET Frames
  BY DEF Owned
<1>4. IsFiniteSet(Used) /\ IsFiniteSet(new)
  BY <1>3, FramesFinite, FS_Subset
<1>5. Cardinality(Used) \in Nat /\ Cardinality(new) \in Nat
  BY <1>4, FS_CardinalityType
<1>6. Cardinality({}) = 0
  BY FS_EmptySet
<1>7. Cardinality(Used \cup new) = Cardinality(Used) + Cardinality(new) - Cardinality(Used \cap new)
  BY <1>4, FS_Union
<1>8. Cardinality(Used \cup new) = Cardinality(Used) + Cardinality(new)
  <2>1. Cardinality(Used \cap new) = 0
    BY <1>2, <1>6
  <2>2. Cardinality(Used \cup new) = Cardinality(Used) + Cardinality(new) - 0
    BY <1>7, <2>1
  <2>. QED
    BY <1>5, <2>2
<1>. QED
  BY <1>1, <1>8 DEF Counted

(* The same when an object gives its blocks back. *)
LEMMA CountedLess ==
    ASSUME Owned, Counted, Owned', NEW gone \in SUBSET Used, others' = others,
           free' = free \cup gone,
           tmpfs_total_blocks' = tmpfs_total_blocks - Cardinality(gone)
    PROVE  Counted'
<1>1. Used' = Used \ gone
  BY UsedIs, UsedIsAfter
<1>2. Used \cap gone = gone
  OBVIOUS
<1>3. Used \in SUBSET Frames
  BY DEF Owned
<1>4. IsFiniteSet(Used)
  BY <1>3, FramesFinite, FS_Subset
<1>5. Cardinality(Used \ gone) = Cardinality(Used) - Cardinality(Used \cap gone)
  BY <1>4, FS_Difference
<1>. QED
  BY <1>1, <1>2, <1>5 DEF Counted

(* A frame that is taken comes from the free ones. *)
LEMMA TakeMoves ==
    ASSUME Shape, Owned, TakeFrame
    PROVE  /\ free' \cup others' = free \cup others /\ free' \cap others' = {}
           /\ free' \subseteq Frames /\ others' \subseteq Frames
BY DEF TakeFrame, Owned, Shape

(* Nothing of the memory file system is touched when the rest of the       *)
(* kernel takes or releases a frame.                                       *)
LEMMA OthersKeep ==
    ASSUME IInv, OthersTake \/ OthersRelease
    PROVE  IInv'
<1>1. /\ free' \cup others' = free \cup others /\ free' \cap others' = {}
      /\ free' \subseteq Frames /\ others' \subseteq Frames
      /\ UNCHANGED <<files, inode, mem, tmpfs_total_blocks>>
  <2>1. CASE OthersTake
    BY <2>1, TakeMoves DEF OthersTake, IInv
  <2>2. CASE OthersRelease
    BY <2>2 DEF OthersRelease, IInv, Owned, Shape
  <2>. QED
    BY <2>1, <2>2
<1>2. Objects' = Objects /\ \A i \in Objects : Blocks(i)' = Blocks(i)
  BY <1>1 DEF Objects, Blocks
<1>3. Used' = Used
  BY <1>2 DEF Used
<1>4. Shape'
  BY <1>1 DEF IInv, Shape
<1>5. DirectoryListsAll'
  BY <1>1, <1>2 DEF IInv, DirectoryListsAll
<1>6. Owned'
  BY <1>1, <1>2, <1>3 DEF IInv, Owned
<1>7. Counted' /\ Reach'
  BY <1>1, <1>2, <1>3 DEF IInv, Counted, Reach
<1>. QED
  BY <1>4, <1>5, <1>6, <1>7 DEF IInv

(* A file that is truncated gives all its blocks back. *)
LEMMA TruncateKeeps ==
    ASSUME IInv, NEW i \in Objects, Truncate(i)
    PROVE  IInv'
<1>0. Shape /\ DirectoryListsAll /\ Owned /\ Counted /\ Reach
  BY DEF IInv
<1>1. i \in Inodes /\ inode[i].blocks \in Seq(Frames) /\ Len(inode[i].blocks) \in Nat
  BY <1>0, ObjectIs
<1>2. /\ inode' = [inode EXCEPT ![i].length = 0, ![i].blocks = <<>>]
      /\ free' = free \cup Range(inode[i].blocks)
      /\ tmpfs_total_blocks' = tmpfs_total_blocks - Len(inode[i].blocks)
      /\ UNCHANGED <<files, others, mem>>
  BY DEF Truncate, ReleaseBlocks
<1>3. 0 \in 0 .. MaxLength /\ <<>> \in Seq(Frames)
  BY TmpfsAssumption
<1>4. /\ inode' \in [Inodes -> Node \cup {Unused}]
      /\ Objects' = Objects
      /\ inode'[i].length = 0 /\ inode'[i].blocks = <<>>
      /\ \A j \in Objects : inode'[j].name = inode[j].name /\ inode'[j].type = inode[j].type
      /\ \A j \in Inodes \ {i} : inode'[j] = inode[j]
  BY <1>0, <1>2, <1>3, ChangeFacts DEF Changed
<1>5. IsInjective(<<>>) /\ Range(<<>>) = {}
  BY DEF IsInjective, Range
<1>6. IsInjective(inode[i].blocks) /\ Range(inode[i].blocks) \subseteq Used
  BY <1>0 DEF Owned, Used, Blocks
<1>7. \A j \in Objects : j \in Inodes
  BY DEF Objects
<1>8. Owned'
  <2>1. \A j \in Objects \ {i} : inode'[j].blocks = inode[j].blocks
    BY <1>4, <1>7
  <2>. QED
    BY <1>0, <1>2, <1>4, <1>5, <2>1, OwnedStays
<1>9. Counted'
  <2>1. Cardinality(Range(inode[i].blocks)) = Len(inode[i].blocks)
    BY <1>1, <1>6, InjectiveSize
  <2>. QED
    BY <1>0, <1>2, <1>6, <1>8, <2>1, CountedLess
<1>10. Shape'
  <2>1. Range(inode[i].blocks) \subseteq Frames
    BY <1>0, <1>6 DEF Owned
  <2>. QED
    BY <1>0, <1>2, <1>4, <2>1 DEF Shape
<1>11. DirectoryListsAll'
  BY <1>0, <1>2, <1>4, DirectoryStays
<1>12. Reach'
  <2>1. 0 <= BLOCKSIZE * Len(<<>>)
    BY BlockAssumption
  <2>2. ASSUME NEW j \in Objects' PROVE inode'[j].length <= BLOCKSIZE * Len(Blocks(j)')
    <3>1. CASE j = i
      BY <1>4, <2>1, <3>1 DEF Blocks
    <3>2. CASE j # i
      BY <1>0, <1>4, <1>7, <2>2, <3>2 DEF Blocks, Reach
    <3>. QED
      BY <3>1, <3>2
  <2>. QED
    BY <2>2 DEF Reach
<1>. QED
  BY <1>8, <1>9, <1>10, <1>11, <1>12 DEF IInv

(* The memory after a write of data from offset to end of a file with      *)
(* these blocks.                                                           *)
MemWritten(offset, end, data, blocks) ==
    mem' = [f \in Frames |-> [at \in InBlock |->
              LET p == {q \in Pieces(offset, end) :
                          /\ blocks[q.block + 1] = f
                          /\ at \in q.at .. q.at + q.n - 1} IN
              IF p = {} THEN mem[f][at]
              ELSE LET q == CHOOSE q \in p : TRUE IN
                   data[q.from + (at - q.at) + 1]]]

(* What write_tmpfs leaves in the blocks are bytes of the buffer and what  *)
(* was there.                                                              *)
LEMMA WriteTypes ==
    ASSUME Shape, NEW offset \in Nat, NEW data \in Seq(Bytes), NEW end \in Nat,
           end = offset + Len(data), NEW blocks, MemWritten(offset, end, data, blocks)
    PROVE  mem' \in [Frames -> [InBlock -> Bytes]]
<1>. DEFINE P(f, at) == {q \in Pieces(offset, end) :
                           /\ blocks[q.block + 1] = f
                           /\ at \in q.at .. q.at + q.n - 1}
            New(f, at) == IF P(f, at) = {} THEN mem[f][at]
                          ELSE data[(CHOOSE q \in P(f, at) : TRUE).from
                                    + (at - (CHOOSE q \in P(f, at) : TRUE).at) + 1]
<1>1. mem' = [f \in Frames |-> [at \in InBlock |-> New(f, at)]]
  BY DEF MemWritten
<1>2. Len(data) \in Nat /\ DOMAIN data = 1 .. Len(data) /\ \A k \in 1 .. Len(data) : data[k] \in Bytes
  BY LenProperties, ElementOfSeq
<1>3. ASSUME NEW f \in Frames, NEW at \in InBlock PROVE New(f, at) \in Bytes
  <2>1. CASE P(f, at) = {}
    BY <2>1 DEF Shape
  <2>2. CASE P(f, at) # {}
    <3>. DEFINE q == CHOOSE q \in P(f, at) : TRUE
    <3>1. q \in P(f, at)
      BY <2>2
    <3>2. q \in Pieces(offset, end) /\ at \in q.at .. q.at + q.n - 1
      BY <3>1
    <3>. HIDE DEF q
    <3>3. Fits(q, offset, end)
      BY <1>2, <3>2, PiecesFit
    <3>4. q.from + (at - q.at) + 1 \in 1 .. Len(data)
      <4>1. PICK from \in Nat, n \in Nat, a \in Nat, m \in Nat :
              from = q.from /\ n = q.n /\ a = q.at /\ m = Len(data)
        BY <1>2, <3>3 DEF Fits
      <4>2. from + n <= end - offset
        BY <3>3, <4>1 DEF Fits
      <4>3. from + n <= m
        BY <4>1, <4>2
      <4>4. at \in Int /\ a <= at /\ at <= a + n - 1
        BY <3>2, <4>1 DEF InBlock
      <4>5. from + (at - a) + 1 \in 1 .. m
        BY <4>3, <4>4
      <4>. QED
        BY <4>1, <4>5
    <3>5. New(f, at) = data[q.from + (at - q.at) + 1]
      BY <2>2 DEF q
    <3>. QED
      BY <1>2, <3>4, <3>5
  <2>. QED
    BY <2>1, <2>2
<1>. HIDE DEF New
<1>. QED
  BY <1>1, <1>3

(* A write extends the file by frames that were free, and keeps the rest.  *)
LEMMA WriteKeeps ==
    ASSUME IInv, NEW i \in Objects, NEW offset \in Nat, NEW data \in Seq(Bytes),
           offset + Len(data) <= MaxLength, Write(i, offset, data)
    PROVE  IInv'
<1>0. Shape /\ DirectoryListsAll /\ Owned /\ Counted /\ Reach
  BY DEF IInv
<1>1. i \in Inodes /\ inode[i].blocks \in Seq(Frames) /\ Len(inode[i].blocks) \in Nat
      /\ inode[i].length \in 0 .. MaxLength
  BY <1>0, ObjectIs
<1>. DEFINE end == offset + Len(data)
<1>2. end \in Nat /\ offset <= end /\ end <= MaxLength
  BY LenProperties
<1>3. PICK blocks \in Grown(inode[i].blocks, Pieces(offset, end)) :
        /\ inode' = [inode EXCEPT ![i].length = Greater(@, end), ![i].blocks = blocks]
        /\ free' = free \ Range(blocks)
        /\ MemWritten(offset, end, data, blocks)
        /\ tmpfs_total_blocks' = tmpfs_total_blocks + Len(blocks) - Len(inode[i].blocks)
        /\ UNCHANGED <<files, others>>
  BY DEF Write, MemWritten
<1>4. PICK need \in Nat :
        /\ need = Max({p.block + 1 : p \in Pieces(offset, end)})
        /\ end <= BLOCKSIZE * need
  BY <1>2, Needed
<1>. HIDE DEF end
<1>5. PICK old \in Seq(Frames) : old = inode[i].blocks
  BY <1>1
<1>6. IsInjective(old) /\ Range(old) \cap (free \cup others) = {} /\ Range(old) \subseteq Used
  BY <1>0, <1>5 DEF Owned, Used, Blocks
<1>7. /\ blocks \in Seq(Frames) /\ IsInjective(blocks)
      /\ Len(blocks) \in Nat /\ Len(old) \in Nat
      /\ Len(blocks) >= Len(old) /\ Len(blocks) >= need
      /\ \E new \in SUBSET free :
            /\ Range(blocks) = Range(old) \cup new
            /\ Cardinality(new) = Len(blocks) - Len(old)
  <2>1. blocks \in Grown(old, Pieces(offset, end)) /\ Range(old) \cap free = {}
    BY <1>3, <1>5, <1>6
  <2>. QED
    BY <1>0, <1>4, <1>6, <2>1, GrownIs
<1>8. PICK new \in SUBSET free : Range(blocks) = Range(old) \cup new
                                 /\ Cardinality(new) = Len(blocks) - Len(old)
  BY <1>7
<1>9. PICK n \in 0 .. MaxLength : n = Greater(inode[i].length, end)
  BY <1>1, <1>2 DEF Greater
<1>10. inode' = [inode EXCEPT ![i].length = n, ![i].blocks = blocks]
  BY <1>3, <1>9
<1>11. /\ inode' \in [Inodes -> Node \cup {Unused}]
       /\ Objects' = Objects
       /\ inode'[i].length = n /\ inode'[i].blocks = blocks
       /\ \A j \in Objects : inode'[j].name = inode[j].name /\ inode'[j].type = inode[j].type
       /\ \A j \in Inodes \ {i} : inode'[j] = inode[j]
  BY <1>0, <1>7, <1>10, ChangeFacts DEF Changed
<1>12. \A j \in Objects : j \in Inodes
  BY DEF Objects
<1>13. Owned'
  <2>1. \A j \in Objects \ {i} : inode'[j].blocks = inode[j].blocks
    BY <1>11, <1>12
  <2>2. IsInjective(inode'[i].blocks)
    BY <1>7, <1>11
  <2>3. Range(inode'[i].blocks) \subseteq free \cup Range(inode[i].blocks)
    BY <1>5, <1>8, <1>11
  <2>4. free' = (free \cup Range(inode[i].blocks)) \ Range(inode'[i].blocks)
    BY <1>3, <1>5, <1>8, <1>11
  <2>5. others' = others
    BY <1>3
  <2>. QED
    BY <1>0, <1>11, <2>1, <2>2, <2>3, <2>4, <2>5, OwnedStays
<1>14. Counted'
  <2>1. free' = free \ new
    BY <1>3, <1>6, <1>8
  <2>2. tmpfs_total_blocks' = tmpfs_total_blocks + Len(blocks) - Len(old)
    BY <1>3, <1>5
  <2>3. tmpfs_total_blocks \in Nat
    <3>1. IsFiniteSet(Used)
      BY <1>0, FramesFinite, FS_Subset DEF Owned
    <3>. QED
      BY <1>0, <3>1, FS_CardinalityType DEF Counted
  <2>4. tmpfs_total_blocks' = tmpfs_total_blocks + Cardinality(new)
    BY <1>7, <1>8, <2>2, <2>3
  <2>. QED
    BY <1>0, <1>3, <1>13, <2>1, <2>4, CountedMore
<1>15. Shape'
  <2>1. mem' \in [Frames -> [InBlock -> Bytes]]
    BY <1>0, <1>2, <1>3, WriteTypes DEF end
  <2>. QED
    BY <1>0, <1>3, <1>11, <2>1 DEF Shape
<1>16. DirectoryListsAll'
  BY <1>0, <1>3, <1>11, DirectoryStays
<1>17. Reach'
  <2>0. \A a, b \in Nat : a <= b => BLOCKSIZE * a <= BLOCKSIZE * b
    BY BlockAssumption
  <2>1. BLOCKSIZE * need <= BLOCKSIZE * Len(blocks)
        /\ BLOCKSIZE * Len(old) <= BLOCKSIZE * Len(blocks)
    BY <1>7, <2>0
  <2>2. n <= BLOCKSIZE * Len(blocks)
    <3>1. PICK m \in Nat : m = BLOCKSIZE * Len(blocks)
      BY <1>7, Multiple
    <3>2. PICK a \in Nat : a = BLOCKSIZE * need
      BY Multiple
    <3>3. PICK b \in Nat : b = BLOCKSIZE * Len(old)
      BY <1>7, Multiple
    <3>4. inode[i].length <= b
      BY <1>0, <1>5, <3>3 DEF Reach, Blocks
    <3>5. end <= a /\ a <= m /\ b <= m
      BY <1>4, <2>1, <3>1, <3>2, <3>3
    <3>6. n <= m
      BY <1>1, <1>9, <3>4, <3>5 DEF Greater
    <3>. QED
      BY <3>1, <3>6
  <2>3. ASSUME NEW j \in Objects' PROVE inode'[j].length <= BLOCKSIZE * Len(Blocks(j)')
    <3>1. CASE j = i
      BY <1>11, <2>2, <3>1 DEF Blocks
    <3>2. CASE j # i
      BY <1>0, <1>11, <1>12, <2>3, <3>2 DEF Blocks, Reach
    <3>. QED
      BY <3>1, <3>2
  <2>. QED
    BY <2>3 DEF Reach
<1>. QED
  BY <1>13, <1>14, <1>15, <1>16, <1>17 DEF IInv

(* A new entry: an object without blocks, under a name that no other has.  *)
LEMMA CreateKeeps ==
    ASSUME IInv, NEW name \in Names, NEW type \in Kinds, Create(name, type)
    PROVE  IInv'
<1>0. Shape /\ DirectoryListsAll /\ Owned /\ Counted /\ Reach
  BY DEF IInv
<1>. DEFINE r == [name |-> name, type |-> type, length |-> 0, blocks |-> <<>>]
<1>1. PICK i \in Inodes :
        /\ inode[i] = Unused
        /\ inode' = [inode EXCEPT ![i] = r]
        /\ files' = Append(files, i)
  BY DEF Create, AddEntry
<1>2. /\ ~Found(name) /\ UNCHANGED <<mem, tmpfs_total_blocks>>
      /\ free' \cup others' = free \cup others /\ free' \cap others' = {}
      /\ free' \subseteq Frames /\ others' \subseteq Frames
  BY <1>0, TakeMoves DEF Create, AddEntry
<1>3. r.name = name /\ r.length = 0 /\ r.blocks = <<>>
  OBVIOUS
<1>4. r \in Node
  <2>1. 0 \in 0 .. MaxLength /\ <<>> \in Seq(Frames)
    BY TmpfsAssumption
  <2>. QED
    BY <2>1 DEF Node
<1>. HIDE DEF r
<1>5. r # Unused
  BY <1>4, UnusedIsNone
<1>6. inode \in [Inodes -> Node \cup {Unused}]
  BY <1>0 DEF Shape
<1>7. inode'[i] = r /\ \A j \in Inodes \ {i} : inode'[j] = inode[j]
  BY <1>1, <1>6
<1>8. inode' \in [Inodes -> Node \cup {Unused}]
  BY <1>1, <1>4, <1>6
<1>9. Objects' = Objects \cup {i} /\ i \notin Objects /\ \A j \in Objects : j \in Inodes \ {i}
  BY <1>1, <1>5, <1>7 DEF Objects
<1>10. /\ files \in Seq(Inodes) /\ Len(files) \in Nat /\ DOMAIN files = 1 .. Len(files)
       /\ Range(files) = Objects
  BY <1>0, LenProperties DEF Shape, DirectoryListsAll
<1>11. /\ files' \in Seq(Inodes) /\ Len(files') = Len(files) + 1
       /\ DOMAIN files' = 1 .. Len(files) + 1
       /\ \A k \in 1 .. Len(files) : files'[k] = files[k]
       /\ files'[Len(files) + 1] = i
  <2>1. /\ Append(files, i) \in Seq(Inodes) /\ Len(Append(files, i)) = Len(files) + 1
        /\ \A k \in 1 .. Len(files) : Append(files, i)[k] = files[k]
        /\ Append(files, i)[Len(files) + 1] = i
    BY <1>10, AppendProperties
  <2>. QED
    BY <1>1, <2>1, LenProperties
<1>12. \A j \in Objects : inode[j].name # name
  <2>1. SUFFICES ASSUME NEW j \in Objects, inode[j].name = name PROVE FALSE
    OBVIOUS
  <2>2. PICK k \in DOMAIN files : files[k] = j
    BY <1>10 DEF Range
  <2>3. k \in Entries(name)
    BY <2>1, <2>2 DEF Entries
  <2>. QED
    BY <1>2, <2>3 DEF Found
<1>13. DirectoryListsAll'
  <2>1. IsInjective(files)'
    <3>1. SUFFICES ASSUME NEW a \in 1 .. Len(files) + 1, NEW b \in 1 .. Len(files) + 1,
                          files'[a] = files'[b]
                   PROVE  a = b
      BY <1>11 DEF IsInjective
    <3>2. \A k \in 1 .. Len(files) : files'[k] \in Objects
      BY <1>10, <1>11 DEF Range
    <3>3. (a \in 1 .. Len(files) \/ a = Len(files) + 1)
          /\ (b \in 1 .. Len(files) \/ b = Len(files) + 1)
      BY <1>10
    <3>4. CASE a \in 1 .. Len(files) /\ b \in 1 .. Len(files)
      BY <1>0, <1>10, <1>11, <3>1, <3>4 DEF DirectoryListsAll, IsInjective
    <3>. QED
      BY <1>9, <1>11, <3>1, <3>2, <3>3, <3>4
  <2>2. Range(files)' = Objects'
    <3>1. Range(files)' = {files'[k] : k \in 1 .. Len(files) + 1}
      BY <1>11 DEF Range
    <3>2. Range(files) = {files[k] : k \in 1 .. Len(files)}
      BY <1>10 DEF Range
    <3>3. \A x \in Range(files)' : x \in Objects'
      <4>1. \A k \in 1 .. Len(files) + 1 : k \in 1 .. Len(files) \/ k = Len(files) + 1
        BY <1>10
      <4>. QED
        BY <1>9, <1>10, <1>11, <3>1, <3>2, <4>1
    <3>4. \A x \in Objects' : x \in Range(files)'
      <4>1. \A k \in 1 .. Len(files) : k \in 1 .. Len(files) + 1
        BY <1>10
      <4>2. Len(files) + 1 \in 1 .. Len(files) + 1
        BY <1>10
      <4>. QED
        BY <1>9, <1>10, <1>11, <3>1, <3>2, <4>1, <4>2
    <3>. QED
      BY <3>3, <3>4
  <2>3. \A j, k \in Objects' : inode'[j].name = inode'[k].name => j = k
    <3>1. SUFFICES ASSUME NEW j \in Objects', NEW k \in Objects',
                          inode'[j].name = inode'[k].name
                   PROVE  j = k
      OBVIOUS
    <3>2. CASE j \in Objects /\ k \in Objects
      BY <1>0, <1>7, <1>9, <3>1, <3>2 DEF DirectoryListsAll
    <3>3. CASE j \in Objects /\ k = i
      BY <1>3, <1>7, <1>9, <1>12, <3>1, <3>3
    <3>4. CASE j = i /\ k \in Objects
      BY <1>3, <1>7, <1>9, <1>12, <3>1, <3>4
    <3>. QED
      BY <1>9, <3>2, <3>3, <3>4
  <2>. QED
    BY <2>1, <2>2, <2>3 DEF DirectoryListsAll
<1>14. Blocks(i)' = <<>> /\ \A j \in Objects : Blocks(j)' = Blocks(j)
  BY <1>3, <1>7, <1>9 DEF Blocks
<1>15. IsInjective(<<>>) /\ Range(<<>>) = {}
  BY DEF IsInjective, Range
<1>16. Used' = Used
  BY <1>9, <1>14, <1>15 DEF Used
<1>17. Owned'
  BY <1>0, <1>2, <1>9, <1>14, <1>15, <1>16 DEF Owned
<1>18. Counted'
  BY <1>0, <1>2, <1>16 DEF Counted
<1>19. Reach'
  <2>1. 0 <= BLOCKSIZE * Len(<<>>)
    BY BlockAssumption
  <2>. QED
    BY <1>0, <1>3, <1>7, <1>9, <1>14, <2>1 DEF Reach
<1>20. Shape'
  BY <1>0, <1>2, <1>8, <1>11 DEF Shape
<1>. QED
  BY <1>13, <1>17, <1>18, <1>19, <1>20 DEF IInv

(* Taking an element out of a sequence without repetition leaves the       *)
(* others, each once.                                                      *)
LEMMA RemoveAtIs ==
    ASSUME NEW S, NEW s \in Seq(S), IsInjective(s), NEW k \in DOMAIN s
    PROVE  /\ RemoveAt(s, k) \in Seq(S) /\ IsInjective(RemoveAt(s, k))
           /\ Range(RemoveAt(s, k)) = Range(s) \ {s[k]}
           /\ Len(RemoveAt(s, k)) = Len(s) - 1
<1>1. Len(s) \in Nat /\ DOMAIN s = 1 .. Len(s) /\ \A i \in 1 .. Len(s) : s[i] \in S
  BY LenProperties, ElementOfSeq
<1>2. k \in 1 .. Len(s)
  BY <1>1
<1>3. PICK a : a = SubSeq(s, 1, k - 1)
  OBVIOUS
<1>4. PICK b : b = SubSeq(s, k + 1, Len(s))
  OBVIOUS
<1>5. a \in Seq(S) /\ Len(a) = k - 1 /\ \A i \in 1 .. k - 1 : a[i] = s[i]
  <2>1. 1 \in Int /\ k - 1 \in Int /\ \A i \in 1 .. k - 1 : s[i] \in S
    BY <1>1, <1>2
  <2>2. /\ a \in Seq(S) /\ Len(a) = (IF 1 <= k - 1 THEN k - 1 - 1 + 1 ELSE 0)
        /\ \A i \in 1 .. k - 1 - 1 + 1 : a[i] = s[1 + i - 1]
    BY <1>3, <2>1, SubSeqProperties
  <2>. QED
    BY <1>2, <2>2
<1>6. b \in Seq(S) /\ Len(b) = Len(s) - k /\ \A i \in 1 .. Len(s) - k : b[i] = s[k + i]
  <2>1. k + 1 \in Int /\ Len(s) \in Int /\ \A i \in k + 1 .. Len(s) : s[i] \in S
    BY <1>1, <1>2
  <2>2. /\ b \in Seq(S) /\ Len(b) = (IF k + 1 <= Len(s) THEN Len(s) - (k + 1) + 1 ELSE 0)
        /\ \A i \in 1 .. Len(s) - (k + 1) + 1 : b[i] = s[k + 1 + i - 1]
    BY <1>4, <2>1, SubSeqProperties
  <2>3. \A i \in 1 .. Len(s) - k : i \in 1 .. Len(s) - (k + 1) + 1 /\ k + 1 + i - 1 = k + i
    BY <1>1, <1>2
  <2>. QED
    BY <1>1, <1>2, <2>2, <2>3
<1>7. DOMAIN a = 1 .. k - 1 /\ DOMAIN b = 1 .. Len(s) - k
  BY <1>1, <1>2, <1>5, <1>6, LenProperties
<1>8. Range(a) = {s[i] : i \in 1 .. k - 1}
  BY <1>5, <1>7 DEF Range
<1>9. Range(b) = {s[i] : i \in k + 1 .. Len(s)}
  <2>1. \A i \in 1 .. Len(s) - k : k + i \in k + 1 .. Len(s)
    BY <1>1, <1>2
  <2>2. \A j \in k + 1 .. Len(s) : j - k \in 1 .. Len(s) - k /\ k + (j - k) = j
    BY <1>1, <1>2
  <2>3. ASSUME NEW x \in Range(b) PROVE x \in {s[i] : i \in k + 1 .. Len(s)}
    BY <1>6, <1>7, <2>1, <2>3 DEF Range
  <2>4. ASSUME NEW j \in k + 1 .. Len(s) PROVE s[j] \in Range(b)
    BY <1>6, <1>7, <2>2 DEF Range
  <2>. QED
    BY <2>3, <2>4
<1>10. \A i, j \in 1 .. Len(s) : s[i] = s[j] => i = j
  BY <1>1 DEF IsInjective
<1>11. IsInjective(a)
  <2>1. \A i \in 1 .. k - 1 : i \in 1 .. Len(s)
    BY <1>1, <1>2
  <2>. QED
    BY <1>5, <1>7, <1>10, <2>1 DEF IsInjective
<1>12. IsInjective(b)
  <2>1. SUFFICES ASSUME NEW i \in 1 .. Len(s) - k, NEW j \in 1 .. Len(s) - k, b[i] = b[j]
                 PROVE  i = j
    BY <1>7 DEF IsInjective
  <2>2. k + i \in 1 .. Len(s) /\ k + j \in 1 .. Len(s)
    BY <1>1, <1>2
  <2>3. k + i = k + j
    BY <1>6, <1>10, <2>1, <2>2
  <2>. QED
    BY <1>2, <2>3
<1>13. Range(a) \cap Range(b) = {}
  <2>1. SUFFICES ASSUME NEW i \in 1 .. k - 1, NEW j \in k + 1 .. Len(s), s[i] = s[j] PROVE FALSE
    BY <1>8, <1>9
  <2>2. i \in 1 .. Len(s) /\ j \in 1 .. Len(s) /\ i # j
    BY <1>1, <1>2
  <2>. QED
    BY <1>10, <2>1, <2>2
<1>14. RemoveAt(s, k) = a \o b
  BY <1>3, <1>4 DEF RemoveAt
<1>15. Range(a) \cup Range(b) = Range(s) \ {s[k]}
  <2>1. \A i \in 1 .. Len(s) : i \in 1 .. k - 1 \/ i = k \/ i \in k + 1 .. Len(s)
    BY <1>1, <1>2
  <2>2. \A i \in (1 .. k - 1) \cup (k + 1 .. Len(s)) : i \in 1 .. Len(s) /\ i # k
    BY <1>1, <1>2
  <2>3. Range(s) = {s[i] : i \in 1 .. Len(s)}
    BY <1>1 DEF Range
  <2>4. \A i \in (1 .. k - 1) \cup (k + 1 .. Len(s)) : s[i] \in Range(s) \ {s[k]}
    BY <1>2, <1>10, <2>2, <2>3
  <2>5. ASSUME NEW x \in Range(s) \ {s[k]} PROVE x \in Range(a) \cup Range(b)
    BY <1>8, <1>9, <2>1, <2>3, <2>5
  <2>6. ASSUME NEW x \in Range(a) \cup Range(b) PROVE x \in Range(s) \ {s[k]}
    BY <1>8, <1>9, <2>4, <2>6
  <2>. QED
    BY <2>5, <2>6
<1>16. Len(a \o b) = Len(s) - 1
  <2>1. Len(a \o b) = Len(a) + Len(b)
    BY <1>5, <1>6, ConcatProperties
  <2>2. Len(a) + Len(b) = Len(s) - 1
    BY <1>1, <1>2, <1>5, <1>6
  <2>. QED
    BY <2>1, <2>2
<1>17. a \o b \in Seq(S) /\ Range(a \o b) = Range(a) \cup Range(b) /\ IsInjective(a \o b)
  BY <1>5, <1>6, <1>11, <1>12, <1>13, ConcatProperties, ConcatRange, ConcatInjective
<1>. QED
  BY <1>14, <1>15, <1>16, <1>17

(* An entry that is removed takes its object and its blocks along.         *)
LEMMA UnlinkKeeps ==
    ASSUME IInv, NEW name \in Names, Unlink(name)
    PROVE  IInv'
<1>0. Shape /\ DirectoryListsAll /\ Owned /\ Counted /\ Reach
  BY DEF IInv
<1>1. PICK k \in Entries(name) :
        /\ free' = free \cup Range(inode[files[k]].blocks)
        /\ tmpfs_total_blocks' = tmpfs_total_blocks - Len(inode[files[k]].blocks)
        /\ files' = RemoveAt(files, k)
        /\ inode' = [inode EXCEPT ![files[k]] = Unused]
  BY DEF Unlink, ReleaseBlocks
<1>2. UNCHANGED <<others, mem>>
  BY DEF Unlink
<1>3. k \in DOMAIN files
  BY DEF Entries
<1>4. PICK i : i = files[k]
  OBVIOUS
<1>5. i \in Objects
  BY <1>0, <1>3, <1>4 DEF DirectoryListsAll, Range
<1>6. i \in Inodes /\ inode[i].blocks \in Seq(Frames) /\ Len(inode[i].blocks) \in Nat
  BY <1>0, <1>5, ObjectIs
<1>7. /\ RemoveAt(files, k) \in Seq(Inodes) /\ IsInjective(RemoveAt(files, k))
      /\ Range(RemoveAt(files, k)) = Range(files) \ {i}
  <2>1. files \in Seq(Inodes) /\ IsInjective(files)
    BY <1>0 DEF Shape, DirectoryListsAll
  <2>. QED
    BY <1>3, <1>4, <2>1, RemoveAtIs
<1>8. inode \in [Inodes -> Node \cup {Unused}]
  BY <1>0 DEF Shape
<1>9. inode' = [inode EXCEPT ![i] = Unused]
  BY <1>1, <1>4
<1>10. /\ inode' \in [Inodes -> Node \cup {Unused}]
       /\ inode'[i] = Unused /\ \A j \in Inodes \ {i} : inode'[j] = inode[j]
  BY <1>6, <1>8, <1>9
<1>11. Objects' = Objects \ {i} /\ \A j \in Objects' : j \in Objects /\ inode'[j] = inode[j]
  BY <1>10 DEF Objects
<1>12. \A j \in Objects' : Blocks(j)' = Blocks(j)
  BY <1>11 DEF Blocks
<1>13. DirectoryListsAll'
  <2>1. Range(files)' = Objects' /\ IsInjective(files)'
    BY <1>0, <1>1, <1>7, <1>11 DEF DirectoryListsAll
  <2>2. \A a, b \in Objects' : inode'[a].name = inode'[b].name => a = b
    BY <1>0, <1>11 DEF DirectoryListsAll
  <2>. QED
    BY <2>1, <2>2 DEF DirectoryListsAll
<1>14. PICK old \in Seq(Frames) : old = inode[i].blocks /\ old = Blocks(i)
  BY <1>6 DEF Blocks
<1>15. IsInjective(old) /\ Range(old) \subseteq Used
       /\ Range(old) \cap (free \cup others) = {}
       /\ \A j \in Objects' : Range(old) \cap Range(Blocks(j)) = {}
  BY <1>0, <1>5, <1>11, <1>14 DEF Owned, Used
<1>16. free' = free \cup Range(old)
  BY <1>1, <1>4, <1>14
<1>17. Used' = Used \ Range(old)
  <2>1. Used' = UNION {Range(Blocks(j)) : j \in Objects \ {i}}
    BY <1>11, <1>12 DEF Used
  <2>2. ASSUME NEW x \in Used' PROVE x \in Used \ Range(old)
    <3>1. PICK j \in Objects \ {i} : x \in Range(Blocks(j))
      BY <2>1, <2>2
    <3>2. x \in Used
      BY <3>1 DEF Used
    <3>. QED
      BY <1>11, <1>15, <3>1, <3>2
  <2>3. ASSUME NEW x \in Used \ Range(old) PROVE x \in Used'
    <3>1. PICK j \in Objects : x \in Range(Blocks(j))
      BY <2>3 DEF Used
    <3>2. j # i
      BY <1>14, <2>3, <3>1
    <3>. QED
      BY <2>1, <3>1, <3>2
  <2>. QED
    BY <2>2, <2>3
<1>18. Owned'
  <2>1. \A j \in Objects' :
           /\ IsInjective(Blocks(j)')
           /\ Range(Blocks(j)') \cap (free' \cup others') = {}
           /\ \A l \in Objects' \ {j} : Range(Blocks(j)') \cap Range(Blocks(l)') = {}
    BY <1>0, <1>2, <1>11, <1>12, <1>15, <1>16 DEF Owned
  <2>2. free' \cap others' = {}
    BY <1>0, <1>2, <1>15, <1>16 DEF Owned
  <2>3. Frames = free' \cup others' \cup Used'
    BY <1>0, <1>2, <1>15, <1>16, <1>17 DEF Owned
  <2>. QED
    BY <2>1, <2>2, <2>3 DEF Owned
<1>19. Counted'
  <2>1. Cardinality(Range(old)) = Len(old)
    BY <1>15, InjectiveSize
  <2>2. tmpfs_total_blocks' = tmpfs_total_blocks - Cardinality(Range(old))
    BY <1>1, <1>4, <1>14, <2>1
  <2>. QED
    BY <1>0, <1>2, <1>15, <1>16, <1>18, <2>2, CountedLess
<1>20. Reach'
  BY <1>0, <1>11, <1>12 DEF Reach
<1>21. Shape'
  <2>1. Range(old) \subseteq Frames
    BY <1>0, <1>15 DEF Owned
  <2>. QED
    BY <1>0, <1>1, <1>2, <1>7, <1>10, <1>16, <2>1 DEF Shape
<1>. QED
  BY <1>13, <1>18, <1>19, <1>20, <1>21 DEF IInv

(* At the start there are no objects, and all frames are free. *)
LEMMA InitInv ==
    ASSUME Init
    PROVE  IInv
<1>1. /\ files = <<>> /\ inode = [i \in Inodes |-> Unused] /\ free = Frames /\ others = {}
      /\ mem \in BootMemory /\ tmpfs_total_blocks = 0
  BY DEF Init
<1>2. Objects = {}
  BY <1>1 DEF Objects
<1>3. Used = {}
  BY <1>2 DEF Used
<1>4. Shape
  BY <1>1, TmpfsAssumption DEF Shape, Frames, InBlock
<1>5. DirectoryListsAll
  BY <1>1, <1>2 DEF DirectoryListsAll, IsInjective, Range
<1>6. Owned
  BY <1>1, <1>2, <1>3 DEF Owned
<1>7. Counted
  BY <1>1, <1>3, FS_EmptySet DEF Counted
<1>8. Reach
  BY <1>2 DEF Reach
<1>. QED
  BY <1>4, <1>5, <1>6, <1>7, <1>8 DEF IInv

(* What a write is called with. *)
LEMMA BuffersAreData ==
    ASSUME NEW data \in Buffers, NEW offset \in 0 .. MaxLength
    PROVE  data \in Seq(Bytes) /\ offset \in Nat
BY TmpfsAssumption

(* Every step keeps the invariant. *)
LEMMA NextKeeps ==
    ASSUME IInv, [Next]_vars
    PROVE  IInv'
<1>1. ASSUME NEW name \in Names, NEW type \in Kinds, Create(name, type) PROVE IInv'
  BY <1>1, CreateKeeps
<1>2. ASSUME NEW name \in Names, Unlink(name) PROVE IInv'
  BY <1>2, UnlinkKeeps
<1>3. \A i \in Range(files) : i \in Objects
  BY DEF IInv, DirectoryListsAll
<1>4. ASSUME NEW i \in Range(files), NEW offset \in 0 .. MaxLength, NEW data \in Buffers,
             offset + Len(data) <= MaxLength, Write(i, offset, data)
      PROVE  IInv'
  BY <1>3, <1>4, BuffersAreData, WriteKeeps
<1>5. ASSUME NEW i \in Range(files), Truncate(i) PROVE IInv'
  BY <1>3, <1>5, TruncateKeeps
<1>6. CASE OthersTake \/ OthersRelease
  BY <1>6, OthersKeep
<1>7. CASE UNCHANGED vars
  <2>1. UNCHANGED <<files, inode, free, others, mem, tmpfs_total_blocks>>
    BY <1>7 DEF vars
  <2>2. Objects' = Objects /\ \A i \in Objects : Blocks(i)' = Blocks(i)
    BY <2>1 DEF Objects, Blocks
  <2>3. Used' = Used
    BY <2>2 DEF Used
  <2>4. Shape'
    BY <2>1 DEF IInv, Shape
  <2>5. DirectoryListsAll'
    BY <2>1, <2>2 DEF IInv, DirectoryListsAll
  <2>6. Owned' /\ Counted' /\ Reach'
    BY <2>1, <2>2, <2>3 DEF IInv, Owned, Counted, Reach
  <2>. QED
    BY <2>4, <2>5, <2>6 DEF IInv
<1>. QED
  BY <1>1, <1>2, <1>4, <1>5, <1>6, <1>7 DEF Next

(* The memory file system always has its invariant. *)
LEMMA Invariant == Spec => []IInv
<1>1. Init => IInv
  BY InitInv
<1>2. IInv /\ [Next]_vars => IInv'
  BY NextKeeps
<1>. QED
  BY <1>1, <1>2, PTL DEF Spec

(* What a step does to the frames that are held: nothing, or one more, or  *)
(* one less.                                                               *)
LEMMA HeldIs ==
    ASSUME Shape, Losses
    PROVE  IsFiniteSet(others) /\ IsFiniteSet(lost) /\ IsFiniteSet(others \ lost) /\ Held \in Nat
<1>1. others \in SUBSET Frames /\ lost \in SUBSET Frames /\ others \ lost \in SUBSET Frames
  BY DEF Shape, Losses
<1>2. IsFiniteSet(others) /\ IsFiniteSet(lost) /\ IsFiniteSet(others \ lost)
  BY <1>1, FramesFinite, FS_Subset
<1>. QED
  BY <1>2, FS_CardinalityType DEF Held

(* malloc gives a frame that nothing holds. *)
LEMMA TakeHolds ==
    ASSUME Shape, Owned, Losses, TakeFrame, lost' = lost
    PROVE  Held' = Held + 1 /\ lost' \subseteq others'
<1>1. PICK f \in free : others' = others \cup {f}
  BY DEF TakeFrame
<1>2. f \notin others \ lost /\ others' \ lost' = (others \ lost) \cup {f}
        /\ lost' \subseteq others'
  BY <1>1 DEF Owned, Losses
<1>3. Cardinality((others \ lost) \cup {f}) = Cardinality(others \ lost) + 1
  BY <1>2, HeldIs, FS_AddElement
<1>. QED
  BY <1>2, <1>3 DEF Held

(* Every step keeps account of what is lost. *)
LEMMA LossesKeep ==
    ASSUME IInv, Losses, [Next]_vars
    PROVE  Losses'
<1>0. Shape /\ DirectoryListsAll /\ Owned
  BY DEF IInv
<1>1. /\ files \in Seq(Inodes) /\ Len(files) \in Nat /\ Held \in Nat /\ removed \in Nat
      /\ Held >= Len(files)
  BY <1>0, HeldIs, LenProperties DEF Shape, Losses
<1>2. ASSUME NEW name \in Names, NEW type \in Kinds, Create(name, type) PROVE Losses'
  <2>1. Held' = Held + 1 /\ lost' \subseteq others' /\ UNCHANGED <<lost, removed>>
    BY <1>0, <1>2, TakeHolds DEF Create, AddEntry
  <2>2. Len(files') = Len(files) + 1
    <3>1. PICK i \in Inodes : files' = Append(files, i)
      BY <1>2 DEF Create, AddEntry
    <3>. QED
      BY <1>1, <3>1, AppendProperties
  <2>3. Cardinality(lost') = removed'
    BY <2>1 DEF Losses
  <2>4. Held' >= Len(files')
    BY <1>1, <2>1, <2>2
  <2>. QED
    BY <1>1, <2>1, <2>3, <2>4 DEF Losses
<1>3. ASSUME NEW name \in Names, Unlink(name) PROVE Losses'
  <2>1. PICK f \in others \ lost : lost' = lost \cup {f}
    BY <1>3 DEF Unlink
  <2>2. others' = others /\ removed' = removed + 1
    BY <1>3 DEF Unlink
  <2>3. Cardinality(lost \cup {f}) = Cardinality(lost) + 1
    BY <1>0, <2>1, HeldIs, FS_AddElement
  <2>4. Cardinality(lost') = removed'
    BY <2>1, <2>2, <2>3 DEF Losses
  <2>5. Held' = Held - 1
    <3>1. others' \ lost' = (others \ lost) \ {f}
      BY <2>1, <2>2
    <3>2. Cardinality((others \ lost) \ {f}) = Cardinality(others \ lost) - 1
      BY <1>0, <2>1, HeldIs, FS_RemoveElement
    <3>. QED
      BY <3>1, <3>2 DEF Held
  <2>6. Len(files') = Len(files) - 1
    <3>1. PICK k \in Entries(name) : files' = RemoveAt(files, k)
      BY <1>3 DEF Unlink
    <3>2. k \in DOMAIN files /\ IsInjective(files)
      BY <1>0, <3>1 DEF Entries, DirectoryListsAll
    <3>. QED
      BY <1>1, <3>1, <3>2, RemoveAtIs
  <2>7. Held' >= Len(files')
    BY <1>1, <2>5, <2>6
  <2>8. lost' \subseteq others' /\ removed' \in Nat
    BY <1>1, <2>1, <2>2 DEF Losses
  <2>. QED
    BY <2>4, <2>7, <2>8 DEF Losses
<1>4. CASE UNCHANGED <<files, others, lost, removed>>
  BY <1>4 DEF Losses, Held
<1>5. CASE OthersTake
  <2>1. Held' = Held + 1 /\ lost' \subseteq others' /\ UNCHANGED <<files, lost, removed>>
    BY <1>0, <1>5, TakeHolds DEF OthersTake
  <2>2. Held' >= Len(files')
    BY <1>1, <2>1
  <2>. QED
    BY <2>1, <2>2 DEF Losses
<1>6. CASE OthersRelease
  <2>1. PICK f \in others \ lost : others' = others \ {f}
    BY <1>6 DEF OthersRelease
  <2>2. Held > Len(files) /\ UNCHANGED <<files, lost, removed>>
    BY <1>6 DEF OthersRelease
  <2>3. Held' = Held - 1
    <3>1. others' \ lost' = (others \ lost) \ {f}
      BY <2>1, <2>2
    <3>2. Cardinality((others \ lost) \ {f}) = Cardinality(others \ lost) - 1
      BY <1>0, <2>1, HeldIs, FS_RemoveElement
    <3>. QED
      BY <3>1, <3>2 DEF Held
  <2>4. Held' >= Len(files')
    BY <1>1, <2>2, <2>3
  <2>5. lost' \subseteq others'
    BY <2>1, <2>2 DEF Losses
  <2>. QED
    BY <2>2, <2>4, <2>5 DEF Losses
<1>7. ASSUME NEW i, NEW offset, NEW data, Write(i, offset, data) PROVE Losses'
  <2>1. UNCHANGED <<files, others, lost, removed>>
    BY <1>7 DEF Write
  <2>. QED
    BY <1>4, <2>1
<1>8. ASSUME NEW i, Truncate(i) PROVE Losses'
  BY <1>4, <1>8 DEF Truncate
<1>9. CASE UNCHANGED vars
  BY <1>4, <1>9 DEF vars
<1>. QED
  BY <1>2, <1>3, <1>5, <1>6, <1>7, <1>8, <1>9 DEF Next

(* What is lost is always accounted for. *)
LEMMA LossesInvariant == Spec => []Losses
<1>1. Init => Losses
  <2>1. SUFFICES ASSUME Init PROVE Losses
    OBVIOUS
  <2>2. others = {} /\ lost = {} /\ removed = 0 /\ files = <<>> /\ others \ lost = {}
    BY <2>1 DEF Init
  <2>3. Cardinality({}) = 0
    BY FS_EmptySet
  <2>. QED
    BY <2>2, <2>3 DEF Losses, Held
<1>2. IInv /\ Losses /\ [Next]_vars => Losses'
  BY LossesKeep
<1>. QED
  BY <1>1, <1>2, Invariant, PTL DEF Spec

(* The directory lists every object once and no name twice, whatever is    *)
(* created and removed in whatever order (create_tmpfs, unlink_tmpfs).     *)
THEOREM DirectoryIsComplete == Spec => []DirectoryListsAll
<1>1. IInv => DirectoryListsAll
  BY DEF IInv
<1>. QED
  BY <1>1, Invariant, PTL

(* Types and partition give FramesOwnedOnce. *)
LEMMA OwnedOnce ==
    ASSUME IInv, Losses
    PROVE  FramesOwnedOnce
<1>1. tmpfs_total_blocks \in 0 .. NFrames
  <2>1. Used \in SUBSET Frames
    BY DEF IInv, Owned
  <2>2. IsFiniteSet(Used) /\ Cardinality(Used) <= NFrames
    BY <2>1, FramesFinite, FS_Subset
  <2>3. Cardinality(Used) \in Nat
    BY <2>2, FS_CardinalityType
  <2>4. tmpfs_total_blocks \in Nat /\ tmpfs_total_blocks <= NFrames
    BY <2>2, <2>3 DEF IInv, Counted
  <2>. QED
    BY <2>4, TmpfsAssumption
<1>2. TypeOK
  BY <1>1, ObjectIs DEF IInv, Losses, Shape, TypeOK
<1>. QED
  BY <1>2 DEF IInv, Losses, Owned, Counted, Used, FramesOwnedOnce

(* Growing, truncating and unlinking files neither lose nor share a block, *)
(* tmpfs_total_blocks counts those in use, and the frames that are lost    *)
(* are as many as the files and links that were unlinked.                  *)
THEOREM FramesAreOwnedOnce == Spec => []FramesOwnedOnce
<1>1. IInv /\ Losses => FramesOwnedOnce
  BY OwnedOnce
<1>. QED
  BY <1>1, Invariant, LossesInvariant, PTL
-----------------------------------------------------------------------------
(* The bytes of files.                                                     *)

(* A position before the end of the blocks is in one of them. *)
LEMMA BlockWithin ==
    ASSUME NEW a \in Nat, NEW n \in Nat, a < BLOCKSIZE * n
    PROVE  (a \div BLOCKSIZE) + 1 \in 1 .. n /\ a % BLOCKSIZE \in InBlock
<1>1. PICK q \in Nat, r \in InBlock :
        q = a \div BLOCKSIZE /\ r = a % BLOCKSIZE /\ a = BLOCKSIZE * q + r
  BY BlockOf
<1>2. BLOCKSIZE \in Nat \ {0}
  BY BlockAssumption
<1>3. \A b, c \in Nat : b <= c => BLOCKSIZE * b <= BLOCKSIZE * c
  BY <1>2
<1>4. ~(n <= q)
  <2>1. PICK m \in Nat : m = BLOCKSIZE * q
    BY Multiple
  <2>2. PICK k \in Nat : k = BLOCKSIZE * n
    BY Multiple
  <2>3. m + r < k
    BY <1>1, <2>1, <2>2
  <2>4. m < k
    BY <2>3 DEF InBlock
  <2>. QED
    BY <1>3, <2>1, <2>2, <2>4
<1>. QED
  BY <1>1, <1>4

(* The n bytes that are laid out in blocks b of memory m. *)
Laid(m, b, n) == [k \in 1 .. n |-> m[b[((k - 1) \div BLOCKSIZE) + 1]][(k - 1) % BLOCKSIZE]]

(* They are bytes, and each has its block. *)
LEMMA LaidOut ==
    ASSUME NEW m \in [Frames -> [InBlock -> Bytes]], NEW b \in Seq(Frames),
           NEW n \in Nat, n <= BLOCKSIZE * Len(b)
    PROVE  /\ Laid(m, b, n) \in Seq(Bytes) /\ Len(Laid(m, b, n)) = n
           /\ DOMAIN Laid(m, b, n) = 1 .. n
           /\ \A a \in 0 .. n - 1 :
                 /\ (a \div BLOCKSIZE) + 1 \in 1 .. Len(b)
                 /\ a % BLOCKSIZE \in InBlock
                 /\ b[(a \div BLOCKSIZE) + 1] \in Frames
                 /\ Laid(m, b, n)[a + 1] = m[b[(a \div BLOCKSIZE) + 1]][a % BLOCKSIZE]
<1>1. Len(b) \in Nat
  BY LenProperties
<1>2. ASSUME NEW a \in 0 .. n - 1
      PROVE  /\ (a \div BLOCKSIZE) + 1 \in 1 .. Len(b)
             /\ a % BLOCKSIZE \in InBlock
             /\ b[(a \div BLOCKSIZE) + 1] \in Frames
             /\ m[b[(a \div BLOCKSIZE) + 1]][a % BLOCKSIZE] \in Bytes
  <2>1. PICK l \in Nat : l = BLOCKSIZE * Len(b)
    BY <1>1, Multiple
  <2>2. a \in Nat /\ a < l
    BY <2>1
  <2>3. (a \div BLOCKSIZE) + 1 \in 1 .. Len(b) /\ a % BLOCKSIZE \in InBlock
    BY <1>1, <2>1, <2>2, BlockWithin
  <2>4. b[(a \div BLOCKSIZE) + 1] \in Frames
    BY <2>3, ElementOfSeq
  <2>. QED
    BY <2>3, <2>4
<1>. DEFINE At(k) == m[b[((k - 1) \div BLOCKSIZE) + 1]][(k - 1) % BLOCKSIZE]
<1>3. Laid(m, b, n) = [k \in 1 .. n |-> At(k)]
  BY DEF Laid
<1>4. \A k \in 1 .. n : At(k) \in Bytes
  <2>1. SUFFICES ASSUME NEW k \in 1 .. n PROVE At(k) \in Bytes
    OBVIOUS
  <2>2. k - 1 \in 0 .. n - 1
    OBVIOUS
  <2>. QED
    BY <1>2, <2>2
<1>5. ASSUME NEW a \in 0 .. n - 1
      PROVE  Laid(m, b, n)[a + 1] = m[b[(a \div BLOCKSIZE) + 1]][a % BLOCKSIZE]
  <2>1. a + 1 \in 1 .. n /\ (a + 1) - 1 = a
    OBVIOUS
  <2>2. Laid(m, b, n)[a + 1] = At(a + 1)
    BY <1>3, <2>1
  <2>. QED
    BY <2>1, <2>2
<1>. HIDE DEF At
<1>6. Laid(m, b, n) \in [1 .. n -> Bytes]
  BY <1>3, <1>4
<1>7. Laid(m, b, n) \in Seq(Bytes) /\ DOMAIN Laid(m, b, n) = 1 .. n
  BY <1>6, SMT
<1>8. Len(Laid(m, b, n)) = n
  BY <1>7, LenProperties
<1>. QED
  BY <1>2, <1>5, <1>7, <1>8

(* Byte k of a file is a byte, and in one of its blocks. *)
LEMMA TextIs ==
    ASSUME Shape, Reach, NEW i \in Objects
    PROVE  /\ Text(i) \in Seq(Bytes) /\ Len(Text(i)) = inode[i].length
           /\ DOMAIN Text(i) = 1 .. inode[i].length
           /\ \A a \in 0 .. inode[i].length - 1 :
                 /\ (a \div BLOCKSIZE) + 1 \in 1 .. Len(Blocks(i))
                 /\ a % BLOCKSIZE \in InBlock
                 /\ Blocks(i)[(a \div BLOCKSIZE) + 1] \in Frames
                 /\ Text(i)[a + 1] = mem[Blocks(i)[(a \div BLOCKSIZE) + 1]][a % BLOCKSIZE]
<1>1. /\ inode[i].length \in Nat /\ Blocks(i) \in Seq(Frames)
      /\ inode[i].length <= BLOCKSIZE * Len(Blocks(i))
  BY ObjectIs, TmpfsAssumption DEF Blocks, Reach
<1>2. mem \in [Frames -> [InBlock -> Bytes]]
  BY DEF Shape
<1>3. Text(i) = Laid(mem, Blocks(i), inode[i].length)
  BY DEF Text, Laid
<1>. QED
  BY <1>1, <1>2, <1>3, LaidOut

(* A read gives the bytes of the file in its range. *)
LEMMA ReadIsText ==
    ASSUME Shape, Reach, NEW i \in Objects,
           NEW offset \in 0 .. inode[i].length, NEW size \in 0 .. MaxLength
    PROVE  read_tmpfs(i, offset, size)
             = SubSeq(Text(i), offset + 1, Lesser(offset + size, inode[i].length))
<1>1. inode[i].length \in Nat /\ size \in Nat
  BY ObjectIs, TmpfsAssumption
<1>2. PICK len \in Nat : len = inode[i].length
  BY <1>1
<1>3. PICK end \in Nat : end = Lesser(offset + size, inode[i].length)
  BY <1>1 DEF Lesser
<1>4. offset \in Nat /\ offset <= end /\ end <= len
  BY <1>1, <1>2, <1>3 DEF Lesser
<1>5. end = IF offset + size > inode[i].length THEN inode[i].length ELSE offset + size
  BY <1>1, <1>3 DEF Lesser
<1>. DEFINE P(k) == CHOOSE p \in Pieces(offset, end) : Copies(p, k - 1)
            At(k) == mem[inode[i].blocks[P(k).block + 1]][P(k).at + (k - 1 - P(k).from)]
<1>6. read_tmpfs(i, offset, size) = [k \in 1 .. end - offset |-> At(k)]
  BY <1>5 DEF read_tmpfs
<1>7. ASSUME NEW k \in 1 .. end - offset PROVE At(k) = Text(i)[offset + k]
  <2>1. k - 1 \in Nat /\ k - 1 < end - offset
    BY <1>4
  <2>2. P(k) \in Pieces(offset, end) /\ Copies(P(k), k - 1)
    BY <1>4, <2>1, PiecesCover
  <2>. HIDE DEF P
  <2>3. InPlace(P(k), k - 1, offset)
    BY <1>4, <2>1, <2>2, PiecesFit, CopiesInPlace
  <2>4. offset + (k - 1) \in 0 .. inode[i].length - 1 /\ (offset + (k - 1)) + 1 = offset + k
    BY <1>2, <1>4, <2>1
  <2>5. Text(i)[(offset + (k - 1)) + 1]
          = mem[Blocks(i)[((offset + (k - 1)) \div BLOCKSIZE) + 1]][(offset + (k - 1)) % BLOCKSIZE]
    BY <2>4, TextIs
  <2>6. At(k) = mem[Blocks(i)[((offset + (k - 1)) \div BLOCKSIZE) + 1]][(offset + (k - 1)) % BLOCKSIZE]
    BY <2>3 DEF InPlace, Blocks
  <2>. QED
    BY <2>4, <2>5, <2>6
<1>. HIDE DEF At, P
<1>8. Text(i) \in Seq(Bytes) /\ Len(Text(i)) = len
  BY <1>2, TextIs
<1>9. \A k \in 1 .. len : Text(i)[k] \in Bytes
  BY <1>8, ElementOfSeq
<1>10. PICK t : t = SubSeq(Text(i), offset + 1, end)
  OBVIOUS
<1>11. t \in Seq(Bytes) /\ Len(t) = end - offset
       /\ \A k \in 1 .. end - offset : t[k] = Text(i)[offset + k]
  <2>1. offset + 1 \in Int /\ end \in Int /\ \A k \in offset + 1 .. end : Text(i)[k] \in Bytes
    BY <1>4, <1>9
  <2>2. /\ t \in Seq(Bytes)
        /\ Len(t) = IF offset + 1 <= end THEN end - (offset + 1) + 1 ELSE 0
        /\ \A k \in 1 .. end - (offset + 1) + 1 : t[k] = Text(i)[(offset + 1) + k - 1]
    BY <1>10, <2>1, SubSeqProperties
  <2>3. \A k \in 1 .. end - offset : k \in 1 .. end - (offset + 1) + 1
                                     /\ (offset + 1) + k - 1 = offset + k
    BY <1>4
  <2>. QED
    BY <1>4, <2>2, <2>3
<1>12. DOMAIN t = 1 .. end - offset /\ t = [k \in 1 .. end - offset |-> t[k]]
  BY <1>11, LenProperties
<1>13. t = [k \in 1 .. end - offset |-> At(k)]
  BY <1>7, <1>11, <1>12
<1>. QED
  BY <1>3, <1>6, <1>10, <1>13

(* Every transfer is cut exactly, and reads give what is in the file.      *)
LEMMA Exact ==
    ASSUME IInv
    PROVE  TransfersAreExact
<1>1. Shape /\ Reach
  BY DEF IInv
<1>2. ReadGivesText
  BY <1>1, ReadIsText DEF ReadGivesText
<1>3. ASSUME NEW i \in Objects, NEW offset \in 0 .. BLOCKSIZE * Len(Blocks(i)),
             NEW end \in offset .. BLOCKSIZE * Len(Blocks(i))
      PROVE  CutExactly(offset, end)
  <2>1. Len(Blocks(i)) \in Nat
    BY <1>1, ObjectIs DEF Blocks
  <2>2. PICK m \in Nat : m = BLOCKSIZE * Len(Blocks(i))
    BY <2>1, Multiple
  <2>3. offset \in Nat /\ end \in Nat /\ offset <= end
    BY <2>2
  <2>. QED
    BY <2>3, TransferExact
<1>. QED
  BY <1>2, <1>3 DEF TransfersAreExact

(* The memcpy calls of read_tmpfs and write_tmpfs copy every byte of a     *)
(* transfer once, to its place, for every size of a block, and what        *)
(* read_tmpfs stores are the bytes of the file in the range asked for.     *)
THEOREM TransfersExact == Spec => []TransfersAreExact
<1>1. IInv => TransfersAreExact
  BY Exact
<1>. QED
  BY <1>1, Invariant, PTL
-----------------------------------------------------------------------------
(* The files as independent sequences of bytes.                            *)

(* Different blocks of a file are on different frames. *)
LEMMA FrameOfBlock ==
    ASSUME NEW b \in Seq(Frames), IsInjective(b),
           NEW x \in 1 .. Len(b), NEW y \in 1 .. Len(b), b[x] = b[y]
    PROVE  x = y
<1>1. DOMAIN b = 1 .. Len(b)
  BY LenProperties
<1>. QED
  BY <1>1 DEF IsInjective

(* What a write leaves at a position of the file that has a block: the     *)
(* byte of the buffer if it is in the range, and what was there if not.    *)
LEMMA WrittenAt ==
    ASSUME NEW offset \in Nat, NEW end \in Nat, offset <= end, NEW data,
           NEW b \in Seq(Frames), IsInjective(b),
           \A p \in Pieces(offset, end) : p.block \in Nat /\ p.block + 1 <= Len(b),
           MemWritten(offset, end, data, b),
           NEW a \in Nat, NEW f \in Frames, NEW at \in InBlock,
           (a \div BLOCKSIZE) + 1 \in 1 .. Len(b),
           f = b[(a \div BLOCKSIZE) + 1], at = a % BLOCKSIZE
    PROVE  mem'[f][at] = IF offset <= a /\ a < end THEN data[a - offset + 1] ELSE mem[f][at]
<1>. DEFINE P == {q \in Pieces(offset, end) : b[q.block + 1] = f /\ at \in q.at .. q.at + q.n - 1}
<1>1. mem'[f][at] = IF P = {} THEN mem[f][at]
                    ELSE LET q == CHOOSE q \in P : TRUE IN data[q.from + (at - q.at) + 1]
  BY DEF MemWritten
<1>2. PICK c \in Nat, r \in InBlock : c = a \div BLOCKSIZE /\ r = at /\ a = BLOCKSIZE * c + r
  BY BlockOf
<1>3. PICK m \in Nat : m = BLOCKSIZE * c
  BY Multiple
<1>4. a = m + r
  BY <1>2, <1>3
<1>5. Len(b) \in Nat
  BY LenProperties
<1>6. ASSUME NEW q \in P
      PROVE  q.block = c /\ offset <= a /\ a < end /\ q.from + (at - q.at) + 1 = a - offset + 1
  <2>1. q \in Pieces(offset, end) /\ b[q.block + 1] = f /\ at \in q.at .. q.at + q.n - 1
    OBVIOUS
  <2>2. Fits(q, offset, end)
    BY <2>1, PiecesFit
  <2>3. q.block \in Nat /\ q.block + 1 \in 1 .. Len(b)
    BY <1>5, <2>1
  <2>4. q.block + 1 = c + 1
    BY <1>2, <2>1, <2>3, FrameOfBlock
  <2>5. q.block = c
    BY <2>3, <2>4
  <2>6. PICK from \in Nat, n \in Nat, start \in Nat :
          from = q.from /\ n = q.n /\ start = q.at
    BY <2>2 DEF Fits
  <2>7. m + start = offset + from /\ from + n <= end - offset
    BY <1>3, <2>2, <2>5, <2>6 DEF Fits
  <2>8. r \in Int /\ start <= r /\ r <= start + n - 1
    BY <1>2, <2>1, <2>6 DEF InBlock
  <2>9. offset <= a /\ a < end /\ from + (r - start) + 1 = a - offset + 1
    BY <1>4, <2>7, <2>8
  <2>. QED
    BY <1>2, <2>5, <2>6, <2>9
<1>7. CASE offset <= a /\ a < end
  <2>1. a - offset \in Nat /\ a - offset < end - offset /\ offset + (a - offset) = a
    BY <1>7
  <2>2. PICK p \in Pieces(offset, end) : Copies(p, a - offset)
    BY <2>1, PiecesCover
  <2>3. InPlace(p, a - offset, offset) /\ Fits(p, offset, end)
    BY <2>1, <2>2, PiecesFit, CopiesInPlace
  <2>4. p.block = c /\ p.at + ((a - offset) - p.from) = at
    BY <1>2, <2>1, <2>3 DEF InPlace
  <2>5. at \in p.at .. p.at + p.n - 1
    <3>1. PICK from \in Nat, n \in Nat, start \in Nat :
            from = p.from /\ n = p.n /\ start = p.at
      BY <2>3 DEF Fits
    <3>2. from <= a - offset /\ a - offset <= from + n - 1
      BY <2>2, <3>1 DEF Copies
    <3>3. start + ((a - offset) - from) = at
      BY <2>4, <3>1
    <3>4. at \in start .. start + n - 1
      BY <2>1, <3>2, <3>3 DEF InBlock
    <3>. QED
      BY <3>1, <3>4
  <2>6. p \in P
    BY <1>2, <2>2, <2>4, <2>5
  <2>7. PICK s \in P : s = CHOOSE q \in P : TRUE
    BY <2>6
  <2>. HIDE DEF P
  <2>8. mem'[f][at] = data[s.from + (at - s.at) + 1]
    BY <1>1, <2>6, <2>7
  <2>. QED
    BY <1>6, <1>7, <2>8
<1>8. CASE ~(offset <= a /\ a < end)
  <2>1. P = {}
    BY <1>6, <1>8
  <2>. QED
    BY <1>1, <1>8, <2>1
<1>. QED
  BY <1>7, <1>8

(* What a write does to its file and to the others. *)
LEMMA WriteIs ==
    ASSUME IInv, NEW i \in Objects, NEW offset \in Nat, NEW data \in Seq(Bytes),
           offset + Len(data) <= MaxLength, Write(i, offset, data)
    PROVE  \E b \in Seq(Frames) :
              /\ IsInjective(b) /\ Len(b) >= Len(Blocks(i))
              /\ \A k \in 1 .. Len(Blocks(i)) : b[k] = Blocks(i)[k]
              /\ \A p \in Pieces(offset, offset + Len(data)) :
                    p.block \in Nat /\ p.block + 1 <= Len(b)
              /\ MemWritten(offset, offset + Len(data), data, b)
              /\ inode'[i].length = Greater(inode[i].length, offset + Len(data))
              /\ inode'[i].blocks = b
              /\ Objects' = Objects
              /\ \A j \in Objects : inode'[j].name = inode[j].name /\ inode'[j].type = inode[j].type
              /\ \A j \in Objects \ {i} : inode'[j] = inode[j]
              /\ written' = [name |-> inode[i].name, offset |-> offset, data |-> data]
<1>0. Shape /\ Owned
  BY DEF IInv
<1>1. i \in Inodes /\ Blocks(i) \in Seq(Frames) /\ Len(Blocks(i)) \in Nat
      /\ inode[i].length \in 0 .. MaxLength
  BY <1>0, ObjectIs DEF Blocks
<1>. DEFINE end == offset + Len(data)
<1>2. end \in Nat /\ offset <= end /\ end <= MaxLength
  BY LenProperties
<1>3. PICK b \in Grown(Blocks(i), Pieces(offset, end)) :
        /\ inode' = [inode EXCEPT ![i].length = Greater(@, end), ![i].blocks = b]
        /\ MemWritten(offset, end, data, b)
        /\ written' = [name |-> inode[i].name, offset |-> offset, data |-> data]
  BY DEF Write, MemWritten, Blocks
<1>. HIDE DEF end
<1>4. PICK need \in Nat :
        /\ need = Max({p.block + 1 : p \in Pieces(offset, end)})
        /\ \A p \in Pieces(offset, end) : p.block \in Nat /\ p.block + 1 <= need
  BY <1>2, Needed
<1>5. PICK old \in Seq(Frames) : old = Blocks(i)
  BY <1>1
<1>6. IsInjective(old) /\ Range(old) \cap free = {}
  BY <1>0, <1>5 DEF Owned
<1>7. /\ b \in Seq(Frames) /\ IsInjective(b)
      /\ Len(b) \in Nat /\ Len(b) >= Len(old) /\ Len(b) >= need
      /\ \A k \in 1 .. Len(old) : b[k] = old[k]
  <2>1. b \in Grown(old, Pieces(offset, end))
    BY <1>3, <1>5
  <2>. QED
    BY <1>0, <1>4, <1>6, <2>1, GrownIs
<1>8. PICK n \in 0 .. MaxLength : n = Greater(inode[i].length, end)
  BY <1>1, <1>2 DEF Greater
<1>9. inode' = [inode EXCEPT ![i].length = n, ![i].blocks = b]
  BY <1>3, <1>8
<1>10. /\ Objects' = Objects
       /\ inode'[i].length = n /\ inode'[i].blocks = b
       /\ \A j \in Objects : inode'[j].name = inode[j].name /\ inode'[j].type = inode[j].type
       /\ \A j \in Inodes \ {i} : inode'[j] = inode[j]
  <2>1. Shape /\ i \in Objects /\ n \in 0 .. MaxLength /\ b \in Seq(Frames)
        /\ Changed(i, n, b)
    BY <1>0, <1>7, <1>9 DEF Changed
  <2>. QED
    BY <2>1, ChangeFacts
<1>11. \A j \in Objects : j \in Inodes
  BY DEF Objects
<1>12. \A p \in Pieces(offset, end) : p.block \in Nat /\ p.block + 1 <= Len(b)
  BY <1>4, <1>7
<1>13. \A j \in Objects \ {i} : inode'[j] = inode[j]
  BY <1>10, <1>11
<1>. QED
  BY <1>3, <1>5, <1>7, <1>8, <1>10, <1>12, <1>13 DEF end

(* What is read from a file after a write to it. *)
LEMMA TextWritten ==
    ASSUME IInv, IInv', NEW i \in Objects, NEW offset \in Nat, NEW data \in Seq(Bytes),
           offset + Len(data) <= MaxLength, Write(i, offset, data)
    PROVE  /\ Text(i)' \in Seq(Bytes)
           /\ Len(Text(i)') = Greater(Len(Text(i)), offset + Len(data))
           /\ \A k \in (1 .. Len(Text(i))) \ (offset + 1 .. offset + Len(data)) :
                 Text(i)'[k] = Text(i)[k]
           /\ \A k \in 1 .. Len(data) : Text(i)'[offset + k] = data[k]
           /\ \A j \in Objects \ {i} : Text(j)' = Text(j)
<1>0. Shape /\ Owned /\ Reach /\ Shape' /\ Owned' /\ Reach'
  BY DEF IInv
<1>1. PICK b \in Seq(Frames) :
              /\ IsInjective(b) /\ Len(b) >= Len(Blocks(i))
              /\ \A k \in 1 .. Len(Blocks(i)) : b[k] = Blocks(i)[k]
              /\ \A p \in Pieces(offset, offset + Len(data)) :
                    p.block \in Nat /\ p.block + 1 <= Len(b)
              /\ MemWritten(offset, offset + Len(data), data, b)
              /\ inode'[i].length = Greater(inode[i].length, offset + Len(data))
              /\ inode'[i].blocks = b
              /\ Objects' = Objects
              /\ \A j \in Objects \ {i} : inode'[j] = inode[j]
  BY WriteIs
<1>2. PICK end \in Nat : end = offset + Len(data) /\ offset <= end
  BY LenProperties
<1>3. Len(b) \in Nat /\ Len(data) \in Nat
  BY LenProperties
<1>4. PICK len \in Nat : len = inode[i].length
  BY <1>0, ObjectIs, TmpfsAssumption
<1>5. /\ Len(Text(i)) = len /\ Len(Blocks(i)) \in Nat
      /\ \A a \in 0 .. len - 1 :
            /\ (a \div BLOCKSIZE) + 1 \in 1 .. Len(Blocks(i))
            /\ Text(i)[a + 1] = mem[Blocks(i)[(a \div BLOCKSIZE) + 1]][a % BLOCKSIZE]
  BY <1>0, <1>4, TextIs, ObjectIs DEF Blocks
<1>6. PICK long \in Nat : long = Greater(len, end)
  BY DEF Greater
<1>7. long = inode'[i].length /\ len <= long /\ end <= long
  BY <1>1, <1>2, <1>4, <1>6 DEF Greater
<1>8. long <= BLOCKSIZE * Len(b)
  BY <1>0, <1>1, <1>7 DEF Reach, Blocks
<1>9. PICK m \in [Frames -> [InBlock -> Bytes]] : m = mem'
  BY <1>0 DEF Shape
<1>10. Text(i)' = Laid(m, b, long)
  BY <1>1, <1>7, <1>9 DEF Text, Laid, Blocks
<1>11. /\ Laid(m, b, long) \in Seq(Bytes) /\ Len(Laid(m, b, long)) = long
       /\ \A a \in 0 .. long - 1 :
             /\ (a \div BLOCKSIZE) + 1 \in 1 .. Len(b)
             /\ a % BLOCKSIZE \in InBlock
             /\ b[(a \div BLOCKSIZE) + 1] \in Frames
             /\ Laid(m, b, long)[a + 1] = m[b[(a \div BLOCKSIZE) + 1]][a % BLOCKSIZE]
  BY <1>8, LaidOut
<1>12. ASSUME NEW a \in 0 .. long - 1
       PROVE  Laid(m, b, long)[a + 1]
                = IF offset <= a /\ a < end THEN data[a - offset + 1]
                  ELSE mem[b[(a \div BLOCKSIZE) + 1]][a % BLOCKSIZE]
  <2>1. PICK f \in Frames, at \in InBlock : f = b[(a \div BLOCKSIZE) + 1] /\ at = a % BLOCKSIZE
    BY <1>11
  <2>2. a \in Nat /\ (a \div BLOCKSIZE) + 1 \in 1 .. Len(b)
    BY <1>11
  <2>3. MemWritten(offset, end, data, b)
        /\ \A p \in Pieces(offset, end) : p.block \in Nat /\ p.block + 1 <= Len(b)
    BY <1>1, <1>2
  <2>4. mem'[f][at] = IF offset <= a /\ a < end THEN data[a - offset + 1] ELSE mem[f][at]
    BY <1>1, <1>2, <2>1, <2>2, <2>3, WrittenAt
  <2>5. Laid(m, b, long)[a + 1] = mem'[f][at]
    BY <1>9, <1>11, <2>1, Zenon
  <2>. QED
    BY <2>1, <2>4, <2>5, Zenon
<1>13. \A k \in (1 .. len) \ (offset + 1 .. end) : Text(i)'[k] = Text(i)[k]
  <2>1. SUFFICES ASSUME NEW k \in 1 .. len, k \notin offset + 1 .. end
                 PROVE  Text(i)'[k] = Text(i)[k]
    OBVIOUS
  <2>2. PICK a \in Nat : a = k - 1 /\ a + 1 = k
    OBVIOUS
  <2>3. a \in 0 .. len - 1 /\ a \in 0 .. long - 1 /\ ~(offset <= a /\ a < end)
    BY <1>7, <2>1, <2>2
  <2>4. b[(a \div BLOCKSIZE) + 1] = Blocks(i)[(a \div BLOCKSIZE) + 1]
    BY <1>1, <1>5, <2>3
  <2>5. Laid(m, b, long)[a + 1] = mem[b[(a \div BLOCKSIZE) + 1]][a % BLOCKSIZE]
    BY <1>12, <2>3
  <2>. QED
    BY <1>5, <1>10, <2>2, <2>3, <2>4, <2>5
<1>14. \A k \in 1 .. Len(data) : Text(i)'[offset + k] = data[k]
  <2>1. SUFFICES ASSUME NEW k \in 1 .. Len(data) PROVE Text(i)'[offset + k] = data[k]
    OBVIOUS
  <2>2. PICK a \in Nat : a = offset + k - 1 /\ a + 1 = offset + k /\ a - offset + 1 = k
    OBVIOUS
  <2>3. a \in 0 .. long - 1 /\ offset <= a /\ a < end
    BY <1>2, <1>3, <1>7, <2>2
  <2>4. Laid(m, b, long)[a + 1] = data[a - offset + 1]
    BY <1>12, <2>3
  <2>. QED
    BY <1>10, <2>2, <2>4
<1>15. \A j \in Objects \ {i} : Text(j)' = Text(j)
  <2>1. SUFFICES ASSUME NEW j \in Objects \ {i} PROVE Text(j)' = Text(j)
    OBVIOUS
  <2>2. inode'[j] = inode[j] /\ Blocks(j)' = Blocks(j) /\ Blocks(i)' = b
    BY <1>1 DEF Blocks
  <2>3. Range(b) \cap Range(Blocks(j)) = {}
    BY <1>0, <1>1, <2>2 DEF Owned
  <2>4. PICK bs \in Seq(Frames), n \in Nat : bs = Blocks(j) /\ n = inode[j].length
    BY <1>0, ObjectIs, TmpfsAssumption DEF Blocks
  <2>5. n <= BLOCKSIZE * Len(bs)
    BY <1>0, <2>4 DEF Reach
  <2>6. PICK m0 \in [Frames -> [InBlock -> Bytes]] : m0 = mem
    BY <1>0 DEF Shape
  <2>7. Text(j) = Laid(m0, bs, n) /\ Text(j)' = Laid(m, bs, n)
    BY <1>9, <2>2, <2>4, <2>6 DEF Text, Laid
  <2>8. \A a \in 0 .. n - 1 : /\ (a \div BLOCKSIZE) + 1 \in 1 .. Len(bs)
                              /\ a % BLOCKSIZE \in InBlock
                              /\ bs[(a \div BLOCKSIZE) + 1] \in Frames
    BY <2>5, <2>6, LaidOut
  <2>9. ASSUME NEW f \in Range(bs) \cap Frames, NEW at \in InBlock PROVE m[f][at] = m0[f][at]
    <3>1. ASSUME NEW q \in Pieces(offset, end), b[q.block + 1] = f PROVE FALSE
      <4>1. q.block + 1 \in 1 .. Len(b)
        BY <1>1, <1>2, <1>3, <3>1
      <4>2. b[q.block + 1] \in Range(b)
        BY <4>1, LenProperties DEF Range
      <4>. QED
        BY <2>3, <2>4, <2>9, <3>1, <4>2
    <3>2. {q \in Pieces(offset, end) : /\ b[q.block + 1] = f
                                      /\ at \in q.at .. q.at + q.n - 1} = {}
      BY <3>1
    <3>3. MemWritten(offset, end, data, b)
      BY <1>1, <1>2
    <3>4. mem'[f][at] = mem[f][at]
      BY <3>2, <3>3 DEF MemWritten
    <3>. QED
      BY <1>9, <2>6, <3>4
  <2>10. ASSUME NEW k \in 1 .. n
         PROVE  m[bs[((k - 1) \div BLOCKSIZE) + 1]][(k - 1) % BLOCKSIZE]
                  = m0[bs[((k - 1) \div BLOCKSIZE) + 1]][(k - 1) % BLOCKSIZE]
    <3>1. k - 1 \in 0 .. n - 1
      OBVIOUS
    <3>2. bs[((k - 1) \div BLOCKSIZE) + 1] \in Range(bs)
      BY <2>8, <3>1, LenProperties DEF Range
    <3>. QED
      BY <2>8, <2>9, <3>1, <3>2
  <2>11. Laid(m, bs, n) = Laid(m0, bs, n)
    BY <2>10 DEF Laid
  <2>. QED
    BY <2>7, <2>11
<1>. QED
  BY <1>2, <1>5, <1>6, <1>10, <1>11, <1>13, <1>14, <1>15

(* What the files by their names are, once the directory is complete.      *)
FlatFacts ==
    DirectoryListsAll =>
        /\ DOMAIN FlatText = FileNames /\ FlatText = [n \in FileNames |-> FlatText[n]]
        /\ \A i \in Objects : IsFile(i) => /\ inode[i].name \in FileNames
                                           /\ FlatText[inode[i].name] = Text(i)
        /\ \A n \in FileNames : \E i \in Objects : IsFile(i) /\ inode[i].name = n

(* A name of a file leads to its text.                                     *)
LEMMA FlatIs == FlatFacts
<1>1. SUFFICES ASSUME DirectoryListsAll
               PROVE  /\ DOMAIN FlatText = FileNames
                      /\ FlatText = [n \in FileNames |-> FlatText[n]]
                      /\ \A i \in Objects : IsFile(i) => /\ inode[i].name \in FileNames
                                                         /\ FlatText[inode[i].name] = Text(i)
                      /\ \A n \in FileNames : \E i \in Objects : IsFile(i) /\ inode[i].name = n
  BY DEF FlatFacts
<1>2. DOMAIN FlatText = FileNames /\ FlatText = [n \in FileNames |-> FlatText[n]]
  BY DEF FlatText
<1>3. ASSUME NEW i \in Objects, IsFile(i)
      PROVE  inode[i].name \in FileNames /\ FlatText[inode[i].name] = Text(i)
  <2>1. inode[i].name \in FileNames
    BY <1>3 DEF FileNames
  <2>2. Named(inode[i].name) \in Objects /\ inode[Named(inode[i].name)].name = inode[i].name
    BY DEF Named
  <2>3. Named(inode[i].name) = i
    BY <1>1, <2>2 DEF DirectoryListsAll
  <2>. QED
    BY <2>1, <2>3 DEF FlatText
<1>4. \A n \in FileNames : \E i \in Objects : IsFile(i) /\ inode[i].name = n
  BY DEF FileNames
<1>. QED
  BY <1>2, <1>3, <1>4

(* The same after a step.                                                  *)
LEMMA FlatIsAfter == FlatFacts'
BY FlatIs, PTL

(* The files have the names that they had.                                 *)
LEMMA NamesStay ==
    ASSUME Objects' = Objects,
           \A j \in Objects : inode'[j].name = inode[j].name /\ inode'[j].type = inode[j].type
    PROVE  /\ FileNames' = FileNames
           /\ \A j \in Objects : IsFile(j)' <=> IsFile(j)
<1>1. \A j \in Objects : IsFile(j)' <=> IsFile(j)
  BY DEF IsFile
<1>2. \A n : n \in FileNames' <=> n \in FileNames
  BY <1>1 DEF FileNames
<1>. QED
  BY <1>1, <1>2

(* Names and texts that stay make a directory that looks the same.         *)
LEMMA FlatStays ==
    ASSUME IInv, IInv', Objects' = Objects,
           \A j \in Objects : inode'[j].name = inode[j].name /\ inode'[j].type = inode[j].type,
           \A j \in Objects : IsFile(j) => Text(j)' = Text(j)
    PROVE  FlatText' = FlatText
<1>1. FileNames' = FileNames /\ \A j \in Objects : IsFile(j)' <=> IsFile(j)
  BY NamesStay
<1>2. DirectoryListsAll /\ DirectoryListsAll'
  BY DEF IInv
<1>3. /\ FlatText' = [n \in FileNames |-> FlatText'[n]]
      /\ \A i \in Objects : IsFile(i) => FlatText'[inode[i].name] = Text(i)'
  BY <1>1, <1>2, FlatIsAfter DEF FlatFacts
<1>4. /\ FlatText = [n \in FileNames |-> FlatText[n]]
      /\ \A i \in Objects : IsFile(i) => FlatText[inode[i].name] = Text(i)
      /\ \A n \in FileNames : \E i \in Objects : IsFile(i) /\ inode[i].name = n
  BY <1>2, FlatIs DEF FlatFacts
<1>5. \A n \in FileNames : FlatText'[n] = FlatText[n]
  BY <1>3, <1>4
<1>. QED
  BY <1>3, <1>4, <1>5

(* A write changes its range of its file and nothing that is in another.   *)
LEMMA WriteIsPut ==
    ASSUME IInv, IInv', NEW i \in Objects, IsFile(i),
           NEW offset \in Nat, NEW data \in Seq(Bytes),
           offset + Len(data) <= MaxLength, Write(i, offset, data)
    PROVE  Flat!Put(written'.name, written'.offset, written'.data)
<1>1. /\ Objects' = Objects
      /\ \A j \in Objects : inode'[j].name = inode[j].name /\ inode'[j].type = inode[j].type
      /\ written' = [name |-> inode[i].name, offset |-> offset, data |-> data]
  BY WriteIs
<1>2. /\ Text(i)' \in Seq(Bytes)
      /\ Len(Text(i)') = Greater(Len(Text(i)), offset + Len(data))
      /\ \A k \in (1 .. Len(Text(i))) \ (offset + 1 .. offset + Len(data)) :
            Text(i)'[k] = Text(i)[k]
      /\ \A k \in 1 .. Len(data) : Text(i)'[offset + k] = data[k]
      /\ \A j \in Objects \ {i} : Text(j)' = Text(j)
  BY TextWritten
<1>3. FileNames' = FileNames /\ \A j \in Objects : IsFile(j)' <=> IsFile(j)
  BY <1>1, NamesStay
<1>4. DirectoryListsAll /\ DirectoryListsAll'
  BY DEF IInv
<1>5. /\ DOMAIN FlatText' = FileNames
      /\ \A j \in Objects : IsFile(j) => FlatText'[inode[j].name] = Text(j)'
  BY <1>1, <1>3, <1>4, FlatIsAfter DEF FlatFacts
<1>6. /\ DOMAIN FlatText = FileNames
      /\ \A j \in Objects : IsFile(j) => /\ inode[j].name \in FileNames
                                         /\ FlatText[inode[j].name] = Text(j)
      /\ \A n \in FileNames : \E j \in Objects : IsFile(j) /\ inode[j].name = n
  BY <1>4, FlatIs DEF FlatFacts
<1>7. PICK f : f = inode[i].name
  OBVIOUS
<1>8. PICK old : old = Text(i)
  OBVIOUS
<1>9. f \in FileNames /\ FlatText[f] = old /\ FlatText'[f] = Text(i)'
  BY <1>5, <1>6, <1>7, <1>8
<1>10. ASSUME NEW g \in FileNames \ {f} PROVE FlatText'[g] = FlatText[g]
  <2>1. PICK j \in Objects : IsFile(j) /\ inode[j].name = g
    BY <1>6
  <2>2. j # i
    BY <1>7, <1>10, <2>1
  <2>. QED
    BY <1>2, <1>5, <1>6, <2>1, <2>2
<1>11. /\ FlatText'[f] \in Seq(Bytes)
       /\ Len(FlatText'[f]) = IF offset + Len(data) > Len(old) THEN offset + Len(data) ELSE Len(old)
       /\ \A k \in (1 .. Len(old)) \ (offset + 1 .. offset + Len(data)) : FlatText'[f][k] = old[k]
       /\ \A k \in 1 .. Len(data) : FlatText'[f][offset + k] = data[k]
  <2>1. Len(old) \in Nat /\ Len(data) \in Nat /\ offset + Len(data) \in Nat
    <3>1. Text(i) \in Seq(Bytes)
      BY TextIs DEF IInv
    <3>. QED
      BY <1>8, <3>1, LenProperties
  <2>2. Greater(Len(old), offset + Len(data))
          = IF offset + Len(data) > Len(old) THEN offset + Len(data) ELSE Len(old)
    BY <2>1 DEF Greater
  <2>. QED
    BY <1>2, <1>8, <1>9, <2>2
<1>12. Flat!Put(f, offset, data)
  BY <1>5, <1>6, <1>9, <1>10, <1>11 DEF Flat!Put
<1>. QED
  BY <1>1, <1>7, <1>12

(* A file that is truncated is empty, and the others are as they were.     *)
LEMMA TruncateIsEmpty ==
    ASSUME IInv, IInv', NEW i \in Objects, IsFile(i), Truncate(i)
    PROVE  Flat!Empty(inode[i].name) /\ inode[i].name \in DOMAIN FlatText
<1>0. Shape /\ DirectoryListsAll /\ DirectoryListsAll'
  BY DEF IInv
<1>1. mem' = mem /\ written' = written
      /\ inode' = [inode EXCEPT ![i].length = 0, ![i].blocks = <<>>]
  BY DEF Truncate
<1>2. 0 \in 0 .. MaxLength /\ <<>> \in Seq(Frames)
  BY TmpfsAssumption
<1>3. /\ Objects' = Objects /\ inode'[i].length = 0
      /\ \A j \in Objects : inode'[j].name = inode[j].name /\ inode'[j].type = inode[j].type
      /\ \A j \in Inodes \ {i} : inode'[j] = inode[j]
  BY <1>0, <1>1, <1>2, ChangeFacts DEF Changed
<1>4. Text(i)' = <<>>
  BY <1>3 DEF Text
<1>5. \A j \in Objects \ {i} : Text(j)' = Text(j)
  <2>1. SUFFICES ASSUME NEW j \in Objects \ {i} PROVE Text(j)' = Text(j)
    OBVIOUS
  <2>2. inode'[j] = inode[j]
    BY <1>3 DEF Objects
  <2>3. mem' = mem
    BY <1>1
  <2>. QED
    BY <2>2, <2>3 DEF Text, Blocks
<1>6. FileNames' = FileNames /\ \A j \in Objects : IsFile(j)' <=> IsFile(j)
  BY <1>3, NamesStay
<1>7. /\ FlatText' = [n \in FileNames |-> FlatText'[n]]
      /\ \A j \in Objects : IsFile(j) => FlatText'[inode[j].name] = Text(j)'
  BY <1>0, <1>3, <1>6, FlatIsAfter DEF FlatFacts
<1>8. /\ DOMAIN FlatText = FileNames
      /\ \A j \in Objects : IsFile(j) => /\ inode[j].name \in FileNames
                                         /\ FlatText[inode[j].name] = Text(j)
      /\ \A n \in FileNames : \E j \in Objects : IsFile(j) /\ inode[j].name = n
  BY <1>0, FlatIs DEF FlatFacts
<1>9. PICK f : f = inode[i].name
  OBVIOUS
<1>10. f \in FileNames /\ FlatText'[f] = <<>>
  BY <1>4, <1>7, <1>8, <1>9
<1>11. ASSUME NEW g \in FileNames \ {f} PROVE FlatText'[g] = FlatText[g]
  <2>1. PICK j \in Objects : IsFile(j) /\ inode[j].name = g
    BY <1>8
  <2>2. j # i
    BY <1>9, <1>11, <2>1
  <2>. QED
    BY <1>5, <1>7, <1>8, <2>1, <2>2
<1>12. FlatText' = [FlatText EXCEPT ![f] = <<>>]
  <2>1. FlatText' = [n \in FileNames |-> IF n = f THEN <<>> ELSE FlatText[n]]
    BY <1>7, <1>10, <1>11
  <2>. QED
    BY <1>8, <2>1
<1>. QED
  BY <1>1, <1>8, <1>9, <1>10, <1>12 DEF Flat!Empty

(* A new file is empty; a new entry of another kind is no file.            *)
LEMMA CreateIsAdd ==
    ASSUME IInv, IInv', NEW name \in Names, NEW type \in Kinds, Create(name, type)
    PROVE  Flat!Add(name) \/ UNCHANGED <<FlatText, written>>
<1>0. Shape /\ DirectoryListsAll /\ DirectoryListsAll'
  BY DEF IInv
<1>. DEFINE r == [name |-> name, type |-> type, length |-> 0, blocks |-> <<>>]
<1>1. PICK i \in Inodes : inode[i] = Unused /\ inode' = [inode EXCEPT ![i] = r]
  BY DEF Create, AddEntry
<1>2. ~Found(name) /\ mem' = mem /\ written' = written
  BY DEF Create
<1>3. r.name = name /\ r.type = type /\ r.length = 0
  OBVIOUS
<1>4. r \in Node
  <2>1. 0 \in 0 .. MaxLength /\ <<>> \in Seq(Frames)
    BY TmpfsAssumption
  <2>. QED
    BY <2>1 DEF Node
<1>. HIDE DEF r
<1>5. inode'[i] = r /\ \A j \in Inodes \ {i} : inode'[j] = inode[j]
  BY <1>0, <1>1 DEF Shape
<1>6. Objects' = Objects \cup {i} /\ i \notin Objects /\ \A j \in Objects : j \in Inodes \ {i}
  <2>1. r # Unused
    BY <1>4, UnusedIsNone
  <2>. QED
    BY <1>1, <1>5, <2>1 DEF Objects
<1>7. /\ Text(i)' = <<>>
      /\ \A j \in Objects : /\ Text(j)' = Text(j) /\ inode'[j].name = inode[j].name
                            /\ IsFile(j)' <=> IsFile(j)
  BY <1>2, <1>3, <1>5, <1>6 DEF Text, Blocks, IsFile
<1>8. IsFile(i)' <=> type = "file"
  BY <1>3, <1>5 DEF IsFile
<1>9. \A j \in Objects : inode[j].name # name
  <2>1. SUFFICES ASSUME NEW j \in Objects, inode[j].name = name PROVE FALSE
    OBVIOUS
  <2>2. PICK k \in DOMAIN files : files[k] = j
    BY <1>0 DEF DirectoryListsAll, Range
  <2>3. k \in Entries(name)
    BY <2>1, <2>2 DEF Entries
  <2>. QED
    BY <1>2, <2>3 DEF Found
<1>10. /\ FlatText' = [n \in FileNames' |-> FlatText'[n]]
       /\ \A j \in Objects' : IsFile(j)' => FlatText'[inode'[j].name] = Text(j)'
  BY <1>0, FlatIsAfter DEF FlatFacts
<1>11. /\ DOMAIN FlatText = FileNames /\ FlatText = [n \in FileNames |-> FlatText[n]]
       /\ \A j \in Objects : IsFile(j) => FlatText[inode[j].name] = Text(j)
       /\ \A n \in FileNames : \E j \in Objects : IsFile(j) /\ inode[j].name = n
  BY <1>0, FlatIs DEF FlatFacts
<1>12. name \notin FileNames
  BY <1>9, <1>11
<1>13. FileNames' = {inode'[j].name : j \in {k \in Objects' : IsFile(k)'}}
  BY DEF FileNames
<1>14. FileNames = {inode[j].name : j \in {k \in Objects : IsFile(k)}}
  BY DEF FileNames
<1>15. \A n \in FileNames : FlatText'[n] = FlatText[n]
  BY <1>6, <1>7, <1>10, <1>11
<1>16. CASE type = "file"
  <2>1. \A n : n \in FileNames' <=> n \in FileNames \cup {name}
    BY <1>3, <1>5, <1>6, <1>7, <1>8, <1>13, <1>14, <1>16
  <2>2. FileNames' = FileNames \cup {name}
    BY <2>1
  <2>3. FlatText'[name] = <<>>
    BY <1>3, <1>5, <1>6, <1>7, <1>8, <1>10, <1>16
  <2>4. FlatText' = [f \in FileNames \cup {name} |-> IF f = name THEN <<>> ELSE FlatText[f]]
    BY <1>10, <1>12, <1>15, <2>2, <2>3
  <2>. QED
    BY <1>2, <1>11, <1>12, <2>4 DEF Flat!Add
<1>17. CASE type # "file"
  <2>1. \A n : n \in FileNames' <=> n \in FileNames
    BY <1>6, <1>7, <1>8, <1>13, <1>14, <1>17
  <2>2. FileNames' = FileNames
    BY <2>1
  <2>3. FlatText' = FlatText
    BY <1>10, <1>11, <1>15, <2>2
  <2>. QED
    BY <1>2, <2>3
<1>. QED
  BY <1>16, <1>17

(* A file that is removed is gone, and the others are as they were.        *)
LEMMA UnlinkIsDrop ==
    ASSUME IInv, IInv', NEW name \in Names, Unlink(name)
    PROVE  \/ name \in DOMAIN FlatText /\ Flat!Drop(name)
           \/ UNCHANGED <<FlatText, written>>
<1>0. Shape /\ DirectoryListsAll /\ DirectoryListsAll'
  BY DEF IInv
<1>1. PICK k \in Entries(name) : inode' = [inode EXCEPT ![files[k]] = Unused]
  BY DEF Unlink
<1>2. mem' = mem /\ written' = written
  BY DEF Unlink
<1>3. PICK i : i = files[k]
  OBVIOUS
<1>4. i \in Objects /\ inode[i].name = name
  BY <1>0, <1>3 DEF DirectoryListsAll, Range, Entries
<1>5. i \in Inodes
  BY <1>4 DEF Objects
<1>6. inode'[i] = Unused /\ \A j \in Inodes \ {i} : inode'[j] = inode[j]
  BY <1>0, <1>1, <1>3, <1>5 DEF Shape
<1>7. Objects' = Objects \ {i} /\ \A j \in Objects' : j \in Objects /\ inode'[j] = inode[j]
  BY <1>6 DEF Objects
<1>8. \A j \in Objects' : Text(j)' = Text(j) /\ (IsFile(j)' <=> IsFile(j))
  BY <1>2, <1>7 DEF Text, Blocks, IsFile
<1>9. /\ FlatText' = [n \in FileNames' |-> FlatText'[n]]
      /\ \A j \in Objects' : IsFile(j)' => FlatText'[inode'[j].name] = Text(j)'
      /\ \A n \in FileNames' : \E j \in Objects' : IsFile(j)' /\ inode'[j].name = n
  BY <1>0, FlatIsAfter DEF FlatFacts
<1>10. /\ DOMAIN FlatText = FileNames /\ FlatText = [n \in FileNames |-> FlatText[n]]
       /\ \A j \in Objects : IsFile(j) => FlatText[inode[j].name] = Text(j)
       /\ \A n \in FileNames : \E j \in Objects : IsFile(j) /\ inode[j].name = n
  BY <1>0, FlatIs DEF FlatFacts
<1>11. FileNames' = {inode'[j].name : j \in {l \in Objects' : IsFile(l)'}}
       /\ FileNames = {inode[j].name : j \in {l \in Objects : IsFile(l)}}
  BY DEF FileNames
<1>12. \A j \in Objects' : inode[j].name # name
  BY <1>0, <1>4, <1>7 DEF DirectoryListsAll
<1>13. \A n : n \in FileNames' <=> n \in FileNames \ {name}
  BY <1>4, <1>7, <1>8, <1>11, <1>12
<1>14. FileNames' = FileNames \ {name}
  BY <1>13
<1>15. \A n \in FileNames' : FlatText'[n] = FlatText[n]
  BY <1>7, <1>8, <1>9, <1>10
<1>16. FlatText' = [n \in FileNames \ {name} |-> FlatText[n]]
  BY <1>9, <1>14, <1>15
<1>17. CASE name \in FileNames
  BY <1>2, <1>10, <1>16, <1>17 DEF Flat!Drop, Flat!Restrict
<1>18. CASE name \notin FileNames
  <2>1. FileNames \ {name} = FileNames
    BY <1>18
  <2>. QED
    BY <1>2, <1>10, <1>16, <2>1
<1>. QED
  BY <1>17, <1>18

(* The frames that the rest of the kernel takes and releases show in no    *)
(* file.                                                                   *)
LEMMA OthersShowNot ==
    ASSUME IInv, IInv', UNCHANGED <<inode, mem, written>>
    PROVE  UNCHANGED <<FlatText, written>>
<1>1. Objects' = Objects /\ \A j \in Objects : Text(j)' = Text(j)
  BY DEF Objects, Text, Blocks
<1>2. FlatText' = FlatText
  BY <1>1, FlatStays
<1>. QED
  BY <1>2

(* At the start there is no file.                                          *)
LEMMA InitIsEmpty ==
    ASSUME Init
    PROVE  Flat!AbsInit
<1>1. Objects = {}
  BY DEF Init, Objects
<1>2. FileNames = {}
  BY <1>1 DEF FileNames
<1>3. FlatText = [f \in {} |-> <<>>]
  BY <1>2 DEF FlatText
<1>. QED
  BY <1>3 DEF Init, Flat!AbsInit

(* Every step of the directory is a step of the flat files, or is not      *)
(* seen.                                                                   *)
LEMMA StepIsFlat ==
    ASSUME IInv, IInv', [Next]_vars
    PROVE  [Flat!AbsNext]_(Flat!absVars)
<1>. SUFFICES Flat!AbsNext \/ UNCHANGED <<FlatText, written>>
  BY DEF Flat!absVars
<1>1. \A i \in Range(files) : i \in Objects
  BY DEF IInv, DirectoryListsAll
<1>2. ASSUME NEW name \in Names, NEW type \in Kinds, Create(name, type)
      PROVE  Flat!AbsNext \/ UNCHANGED <<FlatText, written>>
  BY <1>2, CreateIsAdd DEF Flat!AbsNext
<1>3. ASSUME NEW name \in Names, Unlink(name)
      PROVE  Flat!AbsNext \/ UNCHANGED <<FlatText, written>>
  BY <1>3, UnlinkIsDrop DEF Flat!AbsNext
<1>4. ASSUME NEW i \in Range(files), IsFile(i), NEW offset \in 0 .. MaxLength,
             NEW data \in Buffers, offset + Len(data) <= MaxLength, Write(i, offset, data)
      PROVE  Flat!AbsNext
  <2>1. Flat!Put(written'.name, written'.offset, written'.data)
    BY <1>1, <1>4, BuffersAreData, WriteIsPut
  <2>. QED
    BY <2>1 DEF Flat!AbsNext
<1>5. ASSUME NEW i \in Range(files), IsFile(i), Truncate(i)
      PROVE  Flat!AbsNext
  <2>1. Flat!Empty(inode[i].name) /\ inode[i].name \in DOMAIN FlatText
    BY <1>1, <1>5, TruncateIsEmpty
  <2>. QED
    BY <2>1 DEF Flat!AbsNext
<1>6. CASE OthersTake \/ OthersRelease
  <2>1. inode' = inode /\ mem' = mem /\ written' = written
    BY <1>6 DEF OthersTake, OthersRelease
  <2>. QED
    BY <2>1, OthersShowNot
<1>7. CASE UNCHANGED vars
  <2>1. inode' = inode /\ mem' = mem /\ written' = written
    BY <1>7 DEF vars
  <2>. QED
    BY <2>1, OthersShowNot
<1>8. CASE \E name \in Names : Unlink(name) \/ \E type \in Kinds : Create(name, type)
  BY <1>2, <1>3, <1>8
<1>9. CASE \E i \in Range(files) :
             /\ IsFile(i)
             /\ \/ \E offset \in 0 .. MaxLength, data \in Buffers :
                     offset + Len(data) <= MaxLength /\ Write(i, offset, data)
                \/ Truncate(i)
  BY <1>4, <1>5, <1>9
<1>. QED
  BY <1>6, <1>7, <1>8, <1>9 DEF Next

(* Files in blocks on shared frames are independent sequences of bytes: a  *)
(* write changes its own range of its own file only, and creating,         *)
(* truncating and removing change no other file, whatever the blocks of    *)
(* the files hold and wherever write_tmpfs starts and ends.                *)
THEOREM ImplementsFiles == Spec => ImplementsFlatFiles
<1>1. Init => Flat!AbsInit
  BY InitIsEmpty
<1>2. IInv /\ IInv' /\ [Next]_vars => [Flat!AbsNext]_(Flat!absVars)
  BY StepIsFlat
<1>. QED
  BY <1>1, <1>2, Invariant, PTL DEF Spec, ImplementsFlatFiles, Flat!AbsSpec

-----------------------------------------------------------------------------
(* Paths and mountpoints.                                                  *)

(* A bounded sequence is a sequence that is not longer than the bound. *)
LEMMA BoundedIs ==
    ASSUME NEW S, NEW n \in Nat
    PROVE  \A s : s \in BoundedSeq(S, n) <=> s \in Seq(S) /\ Len(s) <= n
<1>1. ASSUME NEW s \in BoundedSeq(S, n) PROVE s \in Seq(S) /\ Len(s) <= n
  <2>1. PICK m \in 0 .. n : s \in [1 .. m -> S]
    BY DEF BoundedSeq, SeqOf
  <2>2. m \in Nat
    OBVIOUS
  <2>3. s \in Seq(S)
    BY <2>1, <2>2, SeqDef
  <2>4. Len(s) = m
    BY <2>1, <2>2, <2>3, LenProperties
  <2>. QED
    BY <2>3, <2>4
<1>2. ASSUME NEW s \in Seq(S), Len(s) <= n PROVE s \in BoundedSeq(S, n)
  <2>1. s \in [1 .. Len(s) -> S] /\ Len(s) \in 0 .. n
    BY <1>2, LenProperties
  <2>. QED
    BY <2>1 DEF BoundedSeq, SeqOf
<1>. QED
  BY <1>1, <1>2


(* A set of natural numbers that is not empty has a least member. *)
LEMMA LeastElement ==
    ASSUME NEW S, S \subseteq Nat, S # {}
    PROVE  \E m \in S : \A k \in S : m <= k
<1>. DEFINE Upto(n) == 1 .. n
            T == {Upto(n) : n \in S}
            R == StrictSubsetOrdering(Nat)
<1>1. IsWellFoundedOn(R, FiniteSubsetsOf(Nat))
  BY FS_StrictSubsetOrderingWellFounded, Zenon
<1>2. T \subseteq FiniteSubsetsOf(Nat) /\ T # {}
  <2>1. \A n \in S : Upto(n) \in SUBSET Nat
    OBVIOUS
  <2>2. \A n \in S : IsFiniteSet(Upto(n))
    BY FS_Interval
  <2>. QED BY <2>1, <2>2, Zenon DEF FiniteSubsetsOf
<1>3. PICK x \in T : \A y \in T : ~ (<<y, x>> \in R)
  <2>. HIDE DEF T, R
  <2>. QED BY <1>1, <1>2, WFMin, Zenon
<1>4. PICK m \in S : x = Upto(m)
  BY <1>3, Zenon
<1>5. \A k \in S : m <= k
  <2>. SUFFICES ASSUME NEW k \in S, k < m PROVE FALSE
    OBVIOUS
  <2>1. <<Upto(k), Upto(m)>> \in R
    <3>1. Upto(k) \subseteq Upto(m) /\ Upto(k) # Upto(m)
      <4>1. m \in Upto(m) /\ m \notin Upto(k)
        OBVIOUS
      <4>2. Upto(k) \subseteq Upto(m)
        OBVIOUS
      <4>. QED BY <4>1, <4>2, Zenon
    <3>2. Upto(k) \in SUBSET Nat /\ Upto(m) \in SUBSET Nat
      OBVIOUS
    <3>. HIDE DEF Upto
    <3>3. <<Upto(k), Upto(m)>> \in (SUBSET Nat) \X (SUBSET Nat)
      BY <3>2
    <3>. QED BY <3>1, <3>3 DEF StrictSubsetOrdering
  <2>. QED BY <1>3, <1>4, <2>1, Zenon
<1>. QED
  BY <1>5, Zenon


(* One with a bound has a greatest. *)
LEMMA GreatestElement ==
    ASSUME NEW S, S \subseteq Nat, S # {}, NEW n \in Nat, \A k \in S : k <= n
    PROVE  \E m \in S : \A k \in S : k <= m
<1>. DEFINE T == {n - k : k \in S}
<1>1. T \subseteq Nat /\ T # {}
  <2>1. \A k \in S : n - k \in Nat
    OBVIOUS
  <2>. QED BY <2>1, Zenon
<1>2. PICK t \in T : \A k \in T : t <= k
  <2>. HIDE DEF T
  <2>. QED BY <1>1, LeastElement
<1>3. PICK m \in S : t = n - m
  OBVIOUS
<1>4. \A k \in S : n - k \in T
  OBVIOUS
<1>5. \A k \in S : k <= m
  <2>. HIDE DEF T
  <2>. QED BY <1>2, <1>3, <1>4
<1>. QED
  BY <1>5, Zenon

(* Max and Min are what they are called. *)
LEMMA MaxIs ==
    ASSUME NEW S, S \subseteq Int, NEW m \in S, \A k \in S : m >= k
    PROVE  Max(S) = m
<1>1. Max(S) \in S /\ \A k \in S : Max(S) >= k
  BY Zenon DEF Max
<1>2. Max(S) >= m /\ m >= Max(S) /\ Max(S) \in Int
  BY <1>1
<1>. QED
  BY <1>2

LEMMA MinIs ==
    ASSUME NEW S, S \subseteq Int, NEW m \in S, \A k \in S : m <= k
    PROVE  Min(S) = m
<1>1. Min(S) \in S /\ \A k \in S : Min(S) <= k
  BY Zenon DEF Min
<1>2. Min(S) <= m /\ m <= Min(S) /\ Min(S) \in Int
  BY <1>1
<1>. QED
  BY <1>2

-----------------------------------------------------------------------------
(* Strings *)

Chars == Letters \cup {Slash}
Routes == Seq(Strings)

(* The last character of s that is no slash, if there is one. *)
EndsAt(s, n) ==
    /\ n \in 0 .. Len(s)
    /\ n > 0 => s[n] # Slash
    /\ \A i \in n + 1 .. Len(s) : s[i] = Slash

LEMMA TrimmedIs ==
    ASSUME NEW s \in Strings
    PROVE  \E n \in 0 .. Len(s) :
              EndsAt(s, n) /\ Trimmed(s) = SubSeq(s, 1, n) /\ Trimmed(s) \in Strings
<1>. DEFINE kept == {i \in DOMAIN s : s[i] # Slash}
<1>1. s \in Seq(Chars) /\ Strings = Seq(Chars) /\ Len(s) \in Nat /\ DOMAIN s = 1 .. Len(s)
  BY DEF Strings, Chars
<1>2. CASE kept = {}
  <2>1. Trimmed(s) = <<>>
    BY <1>2 DEF Trimmed
  <2>2. SubSeq(s, 1, 0) = <<>> /\ <<>> \in Seq(Chars)
    BY <1>1
  <2>3. EndsAt(s, 0)
    BY <1>1, <1>2 DEF EndsAt
  <2>. QED
    BY <1>1, <2>1, <2>2, <2>3
<1>3. CASE kept # {}
  <2>1. kept \subseteq Nat /\ \A k \in kept : k <= Len(s)
    BY <1>1
  <2>2. PICK n \in kept : \A k \in kept : k <= n
    <3>. HIDE DEF kept
    <3>. QED BY <1>1, <1>3, <2>1, GreatestElement
  <2>3. Max(kept) = n
    <3>1. kept \subseteq Int /\ \A k \in kept : n >= k
      BY <2>1, <2>2
    <3>. HIDE DEF kept
    <3>. QED BY <2>2, <3>1, MaxIs
  <2>4. Trimmed(s) = SubSeq(s, 1, n)
    BY <1>3, <2>3 DEF Trimmed
  <2>5. n \in 1 .. Len(s) /\ s[n] # Slash
    BY <1>1, <2>2
  <2>6. \A i \in n + 1 .. Len(s) : s[i] = Slash
    BY <1>1, <2>2, <2>5
  <2>7. SubSeq(s, 1, n) \in Seq(Chars)
    BY <1>1, <2>5
  <2>. QED
    BY <1>1, <2>4, <2>5, <2>6, <2>7 DEF EndsAt
<1>. QED
  BY <1>2, <1>3

(* There is only one such place. *)
LEMMA EndIsOne ==
    ASSUME NEW s \in Strings, NEW n \in Nat, NEW m \in Nat, EndsAt(s, n), EndsAt(s, m)
    PROVE  n = m
<1>1. Len(s) \in Nat
  BY DEF Strings
<1>2. ~(n < m) /\ ~(m < n)
  BY <1>1 DEF EndsAt
<1>. QED
  BY <1>2

LEMMA PathIs ==
    ASSUME NEW path \in Paths
    PROVE  path \in Strings /\ Len(path) \in Nat /\ DOMAIN path = 1 .. Len(path)
<1>1. path \in BoundedSeq(Letters \cup {Slash}, MaxPath) /\ MaxPath \in Nat
  BY VfsAssumption DEF Paths
<1>2. path \in Seq(Letters \cup {Slash})
  BY <1>1, BoundedIs
<1>. QED
  BY <1>2 DEF Strings

(* A plain path with n names. *)
Plain(path, n) ==
    /\ path \in Paths /\ path \in Strings /\ n \in Nat /\ 2 * n <= Len(path) /\ Len(path) >= 1
    /\ path[1] = Slash
    /\ \A i \in 1 .. 2 * n : path[i] = Slash <=> i % 2 = 1
    /\ \A i \in 2 * n + 1 .. Len(path) : path[i] = Slash
    /\ Trimmed(path) = SubSeq(path, 1, 2 * n)
    /\ NamesIn[path] \in Routes /\ Len(NamesIn[path]) = n
    /\ \A k \in 1 .. n : NamesIn[path][k] = <<path[2 * k]>>

LEMMA PlainIs ==
    ASSUME NEW path \in PlainPaths
    PROVE  \E n \in Nat : Plain(path, n)
<1>1. /\ path \in Paths /\ path # <<>> /\ path[1] = Slash
      /\ \A i \in 1 .. Len(Trimmed(path)) : path[i] = Slash <=> i % 2 = 1
  BY DEF PlainPaths
<1>2. /\ path \in Strings /\ Strings = Seq(Chars) /\ path \in Seq(Chars) /\ Len(path) \in Nat
      /\ Len(path) >= 1
  <2>1. path \in Strings /\ Strings = Seq(Chars) /\ Len(path) \in Nat
    BY <1>1, PathIs DEF Strings, Chars
  <2>. QED
    BY <1>1, <2>1
<1>3. PICK e \in 0 .. Len(path) : EndsAt(path, e) /\ Trimmed(path) = SubSeq(path, 1, e)
  BY <1>2, TrimmedIs
<1>4. Len(Trimmed(path)) = e /\ e \in Nat
  BY <1>2, <1>3
<1>5. e % 2 = 0
  BY <1>1, <1>2, <1>3, <1>4 DEF EndsAt
<1>6. PICK n \in Nat : e = 2 * n /\ e \div 2 = n
  BY <1>4, <1>5
<1>7. NamesIn[path] = [i \in 1 .. n |-> <<path[2 * i]>>]
  BY <1>4, <1>6 DEF NamesIn
<1>8. \A i \in 1 .. n : 2 * i \in 1 .. Len(path)
  BY <1>2, <1>3, <1>6
<1>9. \A i \in 1 .. n : <<path[2 * i]>> \in Strings
  <2>1. \A i \in 1 .. n : path[2 * i] \in Chars
    BY <1>2, <1>8
  <2>. QED
    BY <1>2, <2>1
<1>10. NamesIn[path] \in [1 .. n -> Strings]
  BY <1>7, <1>9
<1>11. NamesIn[path] \in Routes /\ Len(NamesIn[path]) = n
  <2>1. NamesIn[path] \in Routes
    BY <1>10, SeqDef DEF Routes
  <2>2. DOMAIN NamesIn[path] = 1 .. n
    BY <1>10
  <2>. QED
    BY <2>1, <2>2, LenProperties DEF Routes
<1>12. \A k \in 1 .. n : NamesIn[path][k] = <<path[2 * k]>>
  BY <1>7
<1>13. /\ \A i \in 1 .. 2 * n : path[i] = Slash <=> i % 2 = 1
       /\ \A i \in 2 * n + 1 .. Len(path) : path[i] = Slash
       /\ Trimmed(path) = SubSeq(path, 1, 2 * n) /\ 2 * n <= Len(path)
  BY <1>1, <1>2, <1>3, <1>4, <1>6 DEF EndsAt
<1>. QED
  BY <1>1, <1>2, <1>11, <1>12, <1>13, Zenon DEF Plain

LEMMA OneCharacter ==
    ASSUME NEW S, NEW s \in Seq(S), NEW a \in 1 .. Len(s)
    PROVE  SubSeq(s, a, a) = <<s[a]>>
<1>1. s[a] \in S /\ Len(s) \in Nat
  OBVIOUS
<1>2. SubSeq(s, a, a) \in Seq(S) /\ Len(SubSeq(s, a, a)) = 1 /\ SubSeq(s, a, a)[1] = s[a]
  BY <1>1
<1>3. PICK t \in Seq(S) : t = SubSeq(s, a, a)
  BY <1>2
<1>4. Len(t) = 1 /\ t[1] = s[a]
  BY <1>2, <1>3, Zenon
<1>5. t = <<t[1]>>
  BY <1>4
<1>. QED
  BY <1>3, <1>4, <1>5, Zenon

(* Of the first 2n characters of a plain path those at odd places are      *)
(* slashes: each but the first ends a token, whose name is one character.  *)
LEMMA EndsTokenIs ==
    ASSUME NEW path, NEW n \in Nat, Plain(path, n), NEW s, s = SubSeq(path, 1, 2 * n),
           NEW p \in 1 .. 2 * n
    PROVE  EndsToken(s, p) <=> p % 2 = 1 /\ p >= 3
<1>1. path \in Seq(Chars) /\ 2 * n <= Len(path) /\ \A i \in 1 .. 2 * n : path[i] = Slash <=> i % 2 = 1
  BY DEF Plain, Strings, Chars
<1>2. \A i \in 1 .. 2 * n : s[i] = path[i]
  BY <1>1
<1>3. \A i \in 1 .. 2 * n : s[i] = Slash <=> i % 2 = 1
  BY <1>1, <1>2
<1>4. ASSUME EndsToken(s, p) PROVE p % 2 = 1 /\ p >= 3
  <2>1. s[p] = Slash /\ p >= 2
    BY <1>4 DEF EndsToken
  <2>. QED
    BY <1>3, <2>1
<1>5. ASSUME p % 2 = 1, p >= 3 PROVE EndsToken(s, p)
  <2>1. s[p] = Slash
    BY <1>3, <1>5
  <2>2. p - 1 \in 1 .. p - 1 /\ p - 1 \in 1 .. 2 * n /\ (p - 1) % 2 = 0 /\ (p - (p - 1)) % 2 = 1
    BY <1>5
  <2>3. s[p - 1] # Slash
    BY <1>3, <2>2
  <2>4. \A r \in (p - 1) + 1 .. p : s[r] = Slash
    <3>1. \A r \in (p - 1) + 1 .. p : r = p
      OBVIOUS
    <3>. QED
      BY <2>1, <3>1, Zenon
  <2>. QED
    BY <2>1, <2>2, <2>3, <2>4, Zenon DEF EndsToken
<1>. QED
  BY <1>4, <1>5, Zenon

TokenEnds(n) == {2 * k + 1 : k \in 1 .. n}

LEMMA NoTokens ==
    ASSUME NEW path, Plain(path, 0)
    PROVE  DOMAIN Tokens[path] = {}
<1>1. path \in Paths /\ path \in Seq(Chars) /\ Trimmed(path) = SubSeq(path, 1, 0)
  BY DEF Plain, Strings, Chars
<1>2. Trimmed(path) = <<>>
  BY <1>1
<1>3. DOMAIN Split(<<>>) = {}
  <2>1. {p \in DOMAIN <<>> : <<>>[p] # Slash} = {}
    OBVIOUS
  <2>. QED
    BY <2>1 DEF Split
<1>. QED
  BY <1>1, <1>2, <1>3 DEF Tokens

LEMMA TokensAre ==
    ASSUME NEW path, NEW n \in Nat, Plain(path, n), n > 0
    PROVE  /\ DOMAIN Tokens[path] = TokenEnds(n)
           /\ \A k \in 1 .. n :
                 Tokens[path][2 * k + 1] = [name |-> <<path[2 * k]>>, upto |-> SubSeq(path, 1, 2 * k)]
<1>. DEFINE s == SubSeq(path, 1, 2 * n)
            letters == {p \in DOMAIN s : s[p] # Slash}
            ends == {p \in DOMAIN s : EndsToken(s, p)} \cup {Len(s) + 1}
            first(p) == LET before == {q \in ends : q < p} IN
                        IF before # {} THEN Max(before) + 1 ELSE Min(letters)
<1>1. /\ path \in Paths /\ path \in Seq(Chars) /\ 2 * n <= Len(path) /\ 2 * n >= 2
      /\ \A i \in 1 .. 2 * n : path[i] = Slash <=> i % 2 = 1
      /\ Trimmed(path) = s
  BY DEF Plain, Strings, Chars
<1>2. /\ s \in Seq(Chars) /\ Len(s) = 2 * n /\ DOMAIN s = 1 .. 2 * n
      /\ \A i \in 1 .. 2 * n : s[i] = path[i]
  BY <1>1
<1>3. \A i \in 1 .. 2 * n : s[i] = Slash <=> i % 2 = 1
  BY <1>1, <1>2
<1>4. ends = TokenEnds(n)
  <2>1. \A p \in 1 .. 2 * n : EndsToken(s, p) <=> p % 2 = 1 /\ p >= 3
    BY EndsTokenIs
  <2>2. ends = {p \in 1 .. 2 * n : p % 2 = 1 /\ p >= 3} \cup {2 * n + 1}
    BY <1>2, <2>1
  <2>3. {p \in 1 .. 2 * n : p % 2 = 1 /\ p >= 3} \cup {2 * n + 1} = TokenEnds(n)
    <3>1. ASSUME NEW p \in {p \in 1 .. 2 * n : p % 2 = 1 /\ p >= 3} \cup {2 * n + 1}
          PROVE  p \in TokenEnds(n)
      <4>1. \E k \in 1 .. n : p = 2 * k + 1
        <5>1. CASE p = 2 * n + 1
          BY <1>1, <5>1
        <5>2. CASE p \in 1 .. 2 * n /\ p % 2 = 1 /\ p >= 3
          <6>1. p = 2 * (p \div 2) + 1 /\ p \div 2 \in 1 .. n
            BY <5>2
          <6>. QED BY <6>1, Zenon
        <5>. QED BY <5>1, <5>2
      <4>. QED BY <4>1 DEF TokenEnds
    <3>2. ASSUME NEW k \in 1 .. n
          PROVE  2 * k + 1 \in {p \in 1 .. 2 * n : p % 2 = 1 /\ p >= 3} \cup {2 * n + 1}
      OBVIOUS
    <3>. QED BY <3>1, <3>2 DEF TokenEnds
  <2>. QED
    BY <2>2, <2>3, Zenon
<1>5. letters # {} /\ Min(letters) = 2
  <2>1. s[1] = Slash /\ s[2] # Slash /\ 1 \in 1 .. 2 * n /\ 2 \in 1 .. 2 * n
    BY <1>1, <1>3
  <2>2. 2 \in letters /\ letters \subseteq Int /\ \A p \in letters : 2 <= p
    <3>. HIDE DEF s
    <3>. QED BY <1>2, <2>1
  <2>. HIDE DEF letters
  <2>. QED BY <2>2, MinIs
<1>6. ASSUME NEW k \in 1 .. n PROVE first(2 * k + 1) = 2 * k
  <2>. DEFINE before == {q \in ends : q < 2 * k + 1}
  <2>1. \A q : q \in before <=> \E j \in 1 .. k - 1 : q = 2 * j + 1
    <3>1. \A j \in 1 .. n : 2 * j + 1 < 2 * k + 1 <=> j \in 1 .. k - 1
      OBVIOUS
    <3>2. \A j \in 1 .. k - 1 : j \in 1 .. n
      OBVIOUS
    <3>. HIDE DEF ends
    <3>. QED
      BY <1>4, <3>1, <3>2, Zenon DEF TokenEnds
  <2>2. CASE k = 1
    <3>1. before = {}
      <4>. HIDE DEF before
      <4>. QED BY <2>1, <2>2
    <3>2. first(2 * k + 1) = Min(letters)
      BY <3>1, Zenon
    <3>. HIDE DEF first, letters
    <3>. QED
      BY <1>5, <2>2, <3>2
  <2>3. CASE k > 1
    <3>1. k - 1 \in 1 .. k - 1 /\ 2 * (k - 1) + 1 = 2 * k - 1
      BY <2>3
    <3>2. 2 * k - 1 \in before
      <4>. HIDE DEF before
      <4>. QED BY <2>1, <3>1, Zenon
    <3>3. \A q \in before : q \in Int /\ 2 * k - 1 >= q
      <4>. HIDE DEF before
      <4>1. \A j \in 1 .. k - 1 : 2 * j + 1 \in Int /\ 2 * k - 1 >= 2 * j + 1
        OBVIOUS
      <4>. QED BY <2>1, <4>1, Zenon
    <3>4. Max(before) = 2 * k - 1
      <4>1. before \subseteq Int /\ \A q \in before : 2 * k - 1 >= q
        BY <3>3, Zenon
      <4>. HIDE DEF before
      <4>. QED BY <3>2, <4>1, MaxIs
    <3>5. before # {} /\ (2 * k - 1) + 1 = 2 * k
      <4>. HIDE DEF before
      <4>. QED BY <3>2
    <3>6. first(2 * k + 1) = Max(before) + 1
      BY <3>5, Zenon
    <3>. HIDE DEF before, first
    <3>. QED
      BY <3>4, <3>5, <3>6
  <2>. HIDE DEF first
  <2>. QED
    BY <2>2, <2>3
<1>7. Tokens[path] = [p \in IF letters = {} THEN {} ELSE ends |->
                        [name |-> SubSeq(s, first(p), p - 1), upto |-> SubSeq(s, 1, p - 1)]]
  <2>1. Tokens[path] = Split(s)
    BY <1>1, Zenon DEF Tokens
  <2>. QED
    BY <2>1, Zenon DEF Split
<1>8. Tokens[path] = [p \in TokenEnds(n) |->
                        [name |-> SubSeq(s, first(p), p - 1), upto |-> SubSeq(s, 1, p - 1)]]
  <2>. HIDE DEF letters, ends, first, s
  <2>. QED
    BY <1>4, <1>5, <1>7, Zenon
<1>9. ASSUME NEW k \in 1 .. n
      PROVE  Tokens[path][2 * k + 1] = [name |-> <<path[2 * k]>>, upto |-> SubSeq(path, 1, 2 * k)]
  <2>1. 2 * k + 1 \in TokenEnds(n) /\ (2 * k + 1) - 1 = 2 * k
    BY DEF TokenEnds
  <2>2. Tokens[path][2 * k + 1] = [name |-> SubSeq(s, 2 * k, 2 * k), upto |-> SubSeq(s, 1, 2 * k)]
    <3>. HIDE DEF first, s
    <3>. QED BY <1>6, <1>8, <2>1, Zenon
  <2>3. SubSeq(s, 2 * k, 2 * k) = <<path[2 * k]>>
    <3>1. 2 * k \in 1 .. 2 * n
      OBVIOUS
    <3>2. SubSeq(s, 2 * k, 2 * k) = <<s[2 * k]>>
      <4>. HIDE DEF s
      <4>. QED BY <1>2, <3>1, OneCharacter, Zenon
    <3>. QED
      BY <1>2, <3>1, <3>2, Zenon
  <2>4. SubSeq(s, 1, 2 * k) = SubSeq(path, 1, 2 * k)
    BY <1>1
  <2>. QED
    BY <2>2, <2>3, <2>4, Zenon
<1>. QED
  BY <1>8, <1>9, Zenon

(* The name of a new file is the last name of its path. *)
LEMMA FileNameIs ==
    ASSUME NEW path, NEW n \in Nat, Plain(path, n), n > 0
    PROVE  FileName[path] = <<path[2 * n]>>
<1>. DEFINE before == {p \in 1 .. Len(path) - 1 : path[p] = Slash /\ path[p+1] # Slash}
            t == SubSeq(path, 2 * n, Len(path))
<1>1. /\ path \in Paths /\ path \in Seq(Chars) /\ 2 * n <= Len(path) /\ Len(path) \in Nat
      /\ \A i \in 1 .. 2 * n : path[i] = Slash <=> i % 2 = 1
      /\ \A i \in 2 * n + 1 .. Len(path) : path[i] = Slash
  BY DEF Plain, Strings, Chars
<1>2. 2 * n \in 1 .. Len(path) /\ path[2 * n] # Slash /\ 2 * n - 1 \in 1 .. 2 * n
      /\ path[2 * n - 1] = Slash /\ (2 * n - 1) + 1 = 2 * n /\ 2 * n - 1 \in 1 .. Len(path) - 1
  BY <1>1
<1>3. Max(before \cup {0}) = 2 * n - 1
  <2>1. 2 * n - 1 \in before
    BY <1>1, <1>2
  <2>2. \A p \in before : p <= 2 * n - 1
    BY <1>1
  <2>3. before \cup {0} \subseteq Int /\ \A p \in before \cup {0} : 2 * n - 1 >= p
    BY <2>2
  <2>. HIDE DEF before
  <2>. QED BY <2>1, <2>3, MaxIs
<1>4. FileName[path] = Trimmed(t)
  <2>1. FileName[path] = Trimmed(SubSeq(path, 1 + Max(before \cup {0}), Len(path)))
    BY <1>1 DEF FileName
  <2>2. 1 + (2 * n - 1) = 2 * n
    OBVIOUS
  <2>. QED
    BY <1>3, <2>1, <2>2, Zenon
<1>5. /\ t \in Seq(Chars) /\ Len(t) = Len(path) - 2 * n + 1
      /\ \A i \in 1 .. Len(t) : t[i] = path[2 * n + i - 1]
  BY <1>1, <1>2
<1>6. t[1] = path[2 * n] /\ Len(t) >= 1 /\ t[1] # Slash
  BY <1>1, <1>2, <1>5
<1>7. \A i \in 2 .. Len(t) : t[i] = Slash
  <2>1. \A i \in 2 .. Len(t) : i \in 1 .. Len(t) /\ 2 * n + i - 1 \in 2 * n + 1 .. Len(path)
    BY <1>1, <1>5
  <2>. QED
    BY <1>1, <1>5, <2>1, Zenon
<1>8. Trimmed(t) = <<path[2 * n]>>
  <2>. HIDE DEF t
  <2>1. EndsAt(t, 1)
    BY <1>5, <1>6, <1>7 DEF EndsAt
  <2>2. t \in Strings
    BY <1>5 DEF Strings, Chars
  <2>3. PICK m \in 0 .. Len(t) : EndsAt(t, m) /\ Trimmed(t) = SubSeq(t, 1, m)
    BY <2>2, TrimmedIs
  <2>4. m = 1
    <3>1. m \in Nat
      BY <1>5
    <3>. QED BY <2>1, <2>2, <2>3, <3>1, EndIsOne
  <2>5. SubSeq(t, 1, 1) = <<t[1]>>
    <3>1. 1 \in 1 .. Len(t)
      BY <1>5, <1>6
    <3>. QED BY <1>5, <3>1, OneCharacter, Zenon
  <2>. QED
    BY <1>6, <2>3, <2>4, <2>5, Zenon
<1>. QED
  BY <1>4, <1>8, Zenon

(* A string of slashes has none. *)
LEMMA NoFileName ==
    ASSUME NEW path, Plain(path, 0)
    PROVE  FileName[path] = <<>>
<1>. DEFINE before == {p \in 1 .. Len(path) - 1 : path[p] = Slash /\ path[p+1] # Slash}
<1>1. /\ path \in Paths /\ path \in Seq(Chars) /\ Len(path) \in Nat
      /\ \A i \in 1 .. Len(path) : path[i] = Slash
  BY DEF Plain, Strings, Chars
<1>2. before = {}
  BY <1>1
<1>3. Max(before \cup {0}) = 0
  <2>1. before \cup {0} = {0}
    BY <1>2
  <2>2. Max({0}) = 0
    BY MaxIs
  <2>. QED
    BY <2>1, <2>2, Zenon
<1>4. FileName[path] = Trimmed(SubSeq(path, 1 + Max(before \cup {0}), Len(path)))
  BY <1>1 DEF FileName
<1>5. SubSeq(path, 1 + 0, Len(path)) = path
  BY <1>1
<1>6. Trimmed(path) = SubSeq(path, 1, 0) /\ SubSeq(path, 1, 0) = <<>>
  BY <1>1 DEF Plain
<1>. QED
  BY <1>3, <1>4, <1>5, <1>6, Zenon

(* Whatever the path, the name is a string. *)
LEMMA FileNameIsString ==
    ASSUME NEW path \in Paths
    PROVE  FileName[path] \in Strings
<1>. DEFINE before == {p \in 1 .. Len(path) - 1 : path[p] = Slash /\ path[p+1] # Slash}
<1>1. path \in Seq(Chars) /\ Len(path) \in Nat
  BY PathIs DEF Strings, Chars
<1>2. PICK m \in before \cup {0} : \A p \in before \cup {0} : p <= m
  <2>1. before \cup {0} \subseteq Nat /\ before \cup {0} # {}
        /\ \A p \in before \cup {0} : p <= Len(path)
    BY <1>1
  <2>. HIDE DEF before
  <2>. QED BY <1>1, <2>1, GreatestElement
<1>3. m \in 0 .. Len(path)
  BY <1>1
<1>4. Max(before \cup {0}) = m
  <2>1. before \cup {0} \subseteq Int /\ \A p \in before \cup {0} : m >= p
    BY <1>1, <1>2
  <2>. HIDE DEF before
  <2>. QED BY <2>1, MaxIs
<1>5. FileName[path] = Trimmed(SubSeq(path, 1 + m, Len(path)))
  <2>1. FileName[path] = Trimmed(SubSeq(path, 1 + Max(before \cup {0}), Len(path)))
    BY DEF FileName
  <2>. QED
    BY <1>4, <2>1, Zenon
<1>6. SubSeq(path, 1 + m, Len(path)) \in Strings
  <2>1. SubSeq(path, 1 + m, Len(path)) \in Seq(Chars)
    BY <1>1, <1>3
  <2>. QED
    BY <2>1 DEF Strings, Chars
<1>. QED
  BY <1>5, <1>6, TrimmedIs, Zenon

-----------------------------------------------------------------------------
(* Routes *)

LEMMA PrefixIs ==
    ASSUME NEW a \in Routes, NEW b \in Routes
    PROVE  IsPrefix(a, b) <=> Len(a) <= Len(b) /\ \A i \in 1 .. Len(a) : a[i] = b[i]
<1>1. a \in Seq(Strings) /\ b \in Seq(Strings) /\ Len(a) \in Nat /\ Len(b) \in Nat
  BY DEF Routes
<1>2. ASSUME IsPrefix(a, b) PROVE Len(a) <= Len(b) /\ \A i \in 1 .. Len(a) : a[i] = b[i]
  <2>1. Len(a) <= Len(b) /\ SubSeq(a, 1, Len(a)) = SubSeq(b, 1, Len(a))
    BY <1>2 DEF IsPrefix
  <2>2. \A i \in 1 .. Len(a) : SubSeq(a, 1, Len(a))[i] = a[i] /\ SubSeq(b, 1, Len(a))[i] = b[i]
    BY <1>1, <2>1
  <2>. QED
    BY <2>1, <2>2
<1>3. ASSUME Len(a) <= Len(b), \A i \in 1 .. Len(a) : a[i] = b[i] PROVE IsPrefix(a, b)
  <2>1. PICK s \in Seq(Strings) : s = SubSeq(a, 1, Len(a))
    BY <1>1
  <2>2. PICK t \in Seq(Strings) : t = SubSeq(b, 1, Len(a))
    BY <1>1, <1>3
  <2>3. Len(s) = Len(a) /\ Len(t) = Len(a) /\ \A i \in 1 .. Len(a) : s[i] = a[i] /\ t[i] = b[i]
    BY <1>1, <1>3, <2>1, <2>2
  <2>4. Len(s) = Len(t) /\ \A i \in 1 .. Len(s) : s[i] = t[i]
    BY <1>3, <2>3
  <2>5. s = t
    BY <2>4, SeqEqual
  <2>. QED
    BY <1>3, <2>1, <2>2, <2>5 DEF IsPrefix
<1>. QED
  BY <1>2, <1>3, Zenon

(* Of two prefixes of the same names one is a prefix of the other. *)
LEMMA PrefixesCompare ==
    ASSUME NEW a \in Routes, NEW b \in Routes, NEW c \in Routes, IsPrefix(a, c), IsPrefix(b, c)
    PROVE  IsPrefix(a, b) \/ IsPrefix(b, a)
<1>1. /\ Len(a) <= Len(c) /\ \A i \in 1 .. Len(a) : a[i] = c[i]
      /\ Len(b) <= Len(c) /\ \A i \in 1 .. Len(b) : b[i] = c[i]
  BY PrefixIs, Zenon
<1>2. Len(a) \in Nat /\ Len(b) \in Nat
  BY DEF Routes
<1>3. CASE Len(a) <= Len(b)
  <2>1. \A i \in 1 .. Len(a) : a[i] = b[i]
    BY <1>1, <1>2, <1>3
  <2>. QED BY <1>3, <2>1, PrefixIs, Zenon
<1>4. CASE Len(b) <= Len(a)
  <2>1. \A i \in 1 .. Len(b) : b[i] = a[i]
    BY <1>1, <1>2, <1>4
  <2>. QED BY <1>4, <2>1, PrefixIs, Zenon
<1>. QED
  BY <1>2, <1>3, <1>4

LEMMA FrontIs ==
    ASSUME NEW a \in Routes, Len(a) > 0
    PROVE  /\ Front(a) \in Routes /\ Len(Front(a)) = Len(a) - 1
           /\ \A i \in 1 .. Len(a) - 1 : Front(a)[i] = a[i]
           /\ Last(a) \in Strings /\ Last(a) = a[Len(a)] /\ Append(Front(a), Last(a)) = a
<1>1. a \in Seq(Strings) /\ Len(a) \in Nat
  BY DEF Routes
<1>2. Len(a) - 1 \in Nat /\ Len(a) - 1 <= Len(a)
  BY <1>1
<1>3. PICK f \in Seq(Strings) : f = Front(a) /\ f = SubSeq(a, 1, Len(a) - 1)
  <2>1. SubSeq(a, 1, Len(a) - 1) \in Seq(Strings)
    BY <1>1, <1>2
  <2>. QED
    BY <2>1, Zenon DEF Front
<1>4. Len(f) = Len(a) - 1 /\ \A i \in 1 .. Len(a) - 1 : f[i] = a[i]
  <2>1. PICK n \in Nat : n = Len(a) - 1
    BY <1>2
  <2>2. f = SubSeq(a, 1, n) /\ n <= Len(a)
    BY <1>2, <1>3, <2>1, Zenon
  <2>3. Len(f) = n /\ \A i \in 1 .. n : f[i] = a[i]
    BY <1>1, <2>2
  <2>. QED BY <2>1, <2>3, Zenon
<1>5. Last(a) \in Strings /\ Last(a) = a[Len(a)]
  BY <1>1 DEF Last
<1>6. PICK t \in Seq(Strings) : t = Append(f, Last(a))
  <2>1. Append(f, Last(a)) \in Seq(Strings)
    BY <1>5
  <2>. QED BY <2>1, Zenon
<1>7. Len(t) = Len(a) /\ \A i \in 1 .. Len(a) : t[i] = a[i]
  BY <1>1, <1>4, <1>5, <1>6
<1>8. t = a
  BY <1>1, <1>7, SeqEqual
<1>. QED
  BY <1>3, <1>4, <1>5, <1>6, <1>8 DEF Routes

(* What is a prefix of all but the last is one of all; and the other way,  *)
(* but for all of them.                                                    *)
LEMMA PrefixOfFront ==
    ASSUME NEW a \in Routes, NEW b \in Routes, Len(b) > 0
    PROVE  /\ IsPrefix(a, Front(b)) <=> IsPrefix(a, b) /\ Len(a) < Len(b)
           /\ IsPrefix(a, b) /\ Len(a) = Len(b) <=> a = b
<1>1. /\ Front(b) \in Routes /\ Len(Front(b)) = Len(b) - 1
      /\ \A i \in 1 .. Len(b) - 1 : Front(b)[i] = b[i]
  BY FrontIs
<1>2. a \in Seq(Strings) /\ b \in Seq(Strings) /\ Len(a) \in Nat /\ Len(b) \in Nat
  BY DEF Routes
<1>3. IsPrefix(a, b) <=> Len(a) <= Len(b) /\ \A i \in 1 .. Len(a) : a[i] = b[i]
  BY PrefixIs
<1>4. IsPrefix(a, Front(b)) <=>
        Len(a) <= Len(b) - 1 /\ \A i \in 1 .. Len(a) : a[i] = Front(b)[i]
  BY <1>1, PrefixIs
<1>5. Len(a) <= Len(b) - 1 => \A i \in 1 .. Len(a) : Front(b)[i] = b[i]
  BY <1>1, <1>2
<1>6. Len(a) <= Len(b) - 1 <=> Len(a) <= Len(b) /\ Len(a) < Len(b)
  BY <1>2
<1>7. IsPrefix(a, Front(b)) <=> IsPrefix(a, b) /\ Len(a) < Len(b)
  <2>1. Len(a) <= Len(b) - 1 =>
          ((\A i \in 1 .. Len(a) : a[i] = Front(b)[i]) <=> \A i \in 1 .. Len(a) : a[i] = b[i])
    BY <1>5
  <2>. QED
    BY <1>3, <1>4, <1>6, <2>1, Zenon
<1>8. IsPrefix(a, b) /\ Len(a) = Len(b) <=> a = b
  <2>1. ASSUME IsPrefix(a, b), Len(a) = Len(b) PROVE a = b
    BY <1>2, <1>3, <2>1, SeqEqual
  <2>2. ASSUME a = b PROVE IsPrefix(a, b) /\ Len(a) = Len(b)
    BY <1>2, <1>3, <2>2
  <2>. QED BY <2>1, <2>2, Zenon
<1>. QED
  BY <1>7, <1>8, Zenon

(* A path without slashes at its end is the only one with its names. *)
LEMMA SpelledOnce ==
    ASSUME NEW m, NEW k \in Nat, Plain(m, k), Len(m) = 2 * k,
           NEW path, NEW n \in Nat, Plain(path, n), k <= n
    PROVE  NamesIn[m] = SubSeq(NamesIn[path], 1, k) <=> m = SubSeq(path, 1, 2 * k)
<1>1. /\ m \in Seq(Chars) /\ path \in Seq(Chars) /\ 2 * n <= Len(path) /\ Len(path) \in Nat
      /\ \A i \in 1 .. 2 * k : m[i] = Slash <=> i % 2 = 1
      /\ \A i \in 1 .. 2 * n : path[i] = Slash <=> i % 2 = 1
      /\ NamesIn[m] \in Seq(Strings) /\ Len(NamesIn[m]) = k
      /\ NamesIn[path] \in Seq(Strings) /\ Len(NamesIn[path]) = n
      /\ \A j \in 1 .. k : NamesIn[m][j] = <<m[2 * j]>>
      /\ \A j \in 1 .. n : NamesIn[path][j] = <<path[2 * j]>>
  <2>1. Routes = Seq(Strings) /\ Strings = Seq(Chars)
    BY Zenon DEF Routes, Strings, Chars
  <2>2. \A p, i : Plain(p, i) =>
          /\ p \in Strings /\ i \in Nat /\ 2 * i <= Len(p)
          /\ \A j \in 1 .. 2 * i : p[j] = Slash <=> j % 2 = 1
          /\ NamesIn[p] \in Routes /\ Len(NamesIn[p]) = i
          /\ \A j \in 1 .. i : NamesIn[p][j] = <<p[2 * j]>>
    BY Zenon DEF Plain
  <2>3. path \in Seq(Chars) => Len(path) \in Nat
    OBVIOUS
  <2>. QED
    BY <2>1, <2>2, <2>3, Zenon
<1>2. PICK a \in Seq(Strings) : a = SubSeq(NamesIn[path], 1, k)
  <2>1. SubSeq(NamesIn[path], 1, k) \in Seq(Strings)
    BY <1>1
  <2>. QED BY <2>1, Zenon
<1>3. PICK s \in Seq(Chars) : s = SubSeq(path, 1, 2 * k)
  <2>1. SubSeq(path, 1, 2 * k) \in Seq(Chars)
    BY <1>1
  <2>. QED BY <2>1, Zenon
<1>4. Len(a) = k /\ \A j \in 1 .. k : a[j] = NamesIn[path][j]
  BY <1>1, <1>2
<1>5. Len(s) = 2 * k /\ \A i \in 1 .. 2 * k : s[i] = path[i]
  BY <1>1, <1>3
<1>6. \A j \in 1 .. k : a[j] = <<path[2 * j]>>
  <2>1. \A j \in 1 .. k : j \in 1 .. n
    OBVIOUS
  <2>. QED BY <1>1, <1>4, <2>1, Zenon
<1>7. NamesIn[m] = a <=> \A j \in 1 .. k : <<m[2 * j]>> = <<path[2 * j]>>
  <2>1. NamesIn[m] = a <=> \A j \in 1 .. k : NamesIn[m][j] = a[j]
    BY <1>1, <1>4, SeqEqual
  <2>. QED BY <1>1, <1>6, <2>1, Zenon
<1>8. m = s <=> \A i \in 1 .. 2 * k : m[i] = path[i]
  <2>1. m = s <=> \A i \in 1 .. 2 * k : m[i] = s[i]
    BY <1>1, <1>5, SeqEqual
  <2>. QED BY <1>5, <2>1, Zenon
<1>9. ASSUME \A j \in 1 .. k : <<m[2 * j]>> = <<path[2 * j]>>, NEW i \in 1 .. 2 * k
      PROVE  m[i] = path[i]
  <2>1. i \in 1 .. 2 * n
    OBVIOUS
  <2>2. CASE i % 2 = 1
    <3>1. m[i] = Slash /\ path[i] = Slash
      BY <1>1, <2>1, <2>2, Zenon
    <3>. QED BY <3>1, Zenon
  <2>3. CASE i % 2 = 0
    <3>1. PICK j \in 1 .. k : i = 2 * j
      <4>1. i = 2 * (i \div 2) /\ i \div 2 \in 1 .. k
        BY <2>3
      <4>. QED BY <4>1, Zenon
    <3>2. <<m[i]>> = <<path[i]>>
      BY <1>9, <3>1, Zenon
    <3>. QED BY <3>2
  <2>. QED
    BY <2>2, <2>3
<1>10. ASSUME \A i \in 1 .. 2 * k : m[i] = path[i], NEW j \in 1 .. k
       PROVE  <<m[2 * j]>> = <<path[2 * j]>>
  <2>1. 2 * j \in 1 .. 2 * k
    OBVIOUS
  <2>. QED BY <1>10, <2>1, Zenon
<1>. QED
  BY <1>2, <1>3, <1>7, <1>8, <1>9, <1>10, Zenon

-----------------------------------------------------------------------------
(* The tree and its mountpoints *)

IsDir(names) == names \in DOMAIN tree /\ tree[names] = "dir"

(* What a file is in is a directory, and so is what that is in. *)
TreeOk ==
    /\ DOMAIN tree \subseteq Routes /\ tree \in [DOMAIN tree -> {"file", "dir", "link"}]
    /\ IsDir(Root)
    /\ \A names \in DOMAIN tree : \A k \in 0 .. Len(names) - 1 : IsDir(SubSeq(names, 1, k))

(* What is mounted is the first of what kmain mounts, each in a directory. *)
MountsOk ==
    /\ IsFiniteSet(DOMAIN mounts) /\ NMounts \in 0 .. Len(BootMounts)
    /\ DOMAIN mounts = {BootMounts[i].path : i \in 1 .. NMounts}
    /\ \A i \in 1 .. NMounts :
          /\ mounts[BootMounts[i].path] = BootMounts[i].node
          /\ LET names == NamesIn[BootMounts[i].path] IN
             \A k \in 0 .. Len(names) - 1 : IsDir(SubSeq(names, 1, k))

PtysOk == pty_map \subseteq {Pty}

PathInv == TreeOk /\ MountsOk /\ PtysOk

(* What kmain mounts and where. *)
BootMount(m, node) ==
    /\ m \in PlainPaths /\ Trimmed(m) = m /\ NamesIn[m] \in Routes /\ Len(NamesIn[m]) > 0
    /\ Plain(m, Len(NamesIn[m])) /\ Len(m) = 2 * Len(NamesIn[m])
    /\ node \in Devices /\ node \notin Routes /\ node # Null

LEMMA BootMountIs ==
    ASSUME NEW i \in 1 .. Len(BootMounts)
    PROVE  /\ BootMount(BootMounts[i].path, BootMounts[i].node)
           /\ \A j \in 1 .. Len(BootMounts) :
                 j # i => ~IsPrefix(NamesIn[BootMounts[j].path], NamesIn[BootMounts[i].path])
<1>1. DOMAIN BootMounts = 1 .. Len(BootMounts)
  <2>1. BootMounts \in Seq(Range(BootMounts))
    BY VfsAssumption, Zenon
  <2>. QED BY <2>1
<1>. DEFINE m == BootMounts[i].path
            node == BootMounts[i].node
<1>2. /\ m \in PlainPaths /\ Trimmed(m) = m
      /\ \A j \in DOMAIN BootMounts \ {i} : ~IsPrefix(NamesIn[BootMounts[j].path], NamesIn[m])
  <2>1. i \in DOMAIN BootMounts
    BY <1>1, Zenon
  <2>. QED
    BY <2>1, VfsAssumption, Zenon
<1>3. node \in Devices /\ node \notin Routes /\ node # Null
  <2>1. node \in Devices
    BY <1>1, Zenon DEF Devices
  <2>2. Null \notin Devices /\ \A d \in Devices : d \notin Seq(Strings)
    BY VfsAssumption, Zenon
  <2>. QED
    BY <2>1, <2>2, Zenon DEF Routes
<1>4. PICK n \in Nat : Plain(m, n)
  BY <1>2, PlainIs
<1>5. Len(NamesIn[m]) = n /\ NamesIn[m] \in Routes
  BY <1>4, Zenon DEF Plain
<1>6. Len(m) = 2 * n /\ n > 0
  <2>1. m \in Seq(Chars) /\ 2 * n <= Len(m) /\ Len(m) >= 1 /\ Trimmed(m) = SubSeq(m, 1, 2 * n)
    BY <1>4, Zenon DEF Plain, Strings, Chars
  <2>2. Len(SubSeq(m, 1, 2 * n)) = 2 * n
    BY <2>1
  <2>3. Len(m) = 2 * n
    BY <1>2, <2>1, <2>2, Zenon
  <2>. QED BY <2>1, <2>3
<1>7. \A j \in 1 .. Len(BootMounts) : j # i => j \in DOMAIN BootMounts \ {i}
  BY <1>1, Zenon
<1>8. Len(NamesIn[m]) > 0 /\ Plain(m, Len(NamesIn[m])) /\ Len(m) = 2 * Len(NamesIn[m])
  BY <1>4, <1>5, <1>6, Zenon
<1>. QED
  BY <1>2, <1>3, <1>5, <1>7, <1>8, Zenon DEF BootMount

MountFacts ==
    /\ \A m \in DOMAIN mounts :
          /\ BootMount(m, mounts[m])
          /\ \A k \in 0 .. Len(NamesIn[m]) - 1 : IsDir(SubSeq(NamesIn[m], 1, k))
    /\ \A m \in DOMAIN mounts : \A o \in DOMAIN mounts : IsPrefix(NamesIn[m], NamesIn[o]) => m = o

LEMMA MountsAre == MountsOk => MountFacts
<1>. SUFFICES ASSUME MountsOk PROVE MountFacts
  OBVIOUS
<1>1. \A i \in 1 .. NMounts : i \in 1 .. Len(BootMounts)
  BY DEF MountsOk
<1>2. \A m \in DOMAIN mounts :
        \E i \in 1 .. Len(BootMounts) : i \in 1 .. NMounts /\ m = BootMounts[i].path
  BY <1>1, Zenon DEF MountsOk
<1>3. ASSUME NEW m \in DOMAIN mounts
      PROVE  /\ BootMount(m, mounts[m])
             /\ \A k \in 0 .. Len(NamesIn[m]) - 1 : IsDir(SubSeq(NamesIn[m], 1, k))
  <2>1. PICK i \in 1 .. Len(BootMounts) : i \in 1 .. NMounts /\ m = BootMounts[i].path
    BY <1>2
  <2>2. /\ mounts[m] = BootMounts[i].node
        /\ \A k \in 0 .. Len(NamesIn[m]) - 1 : IsDir(SubSeq(NamesIn[m], 1, k))
    BY <2>1, Zenon DEF MountsOk
  <2>3. BootMount(BootMounts[i].path, BootMounts[i].node)
    BY BootMountIs
  <2>. QED
    BY <2>1, <2>2, <2>3, Zenon
<1>4. ASSUME NEW m \in DOMAIN mounts, NEW o \in DOMAIN mounts, IsPrefix(NamesIn[m], NamesIn[o])
      PROVE  m = o
  <2>1. PICK i \in 1 .. Len(BootMounts) : m = BootMounts[i].path
    BY <1>2
  <2>2. PICK j \in 1 .. Len(BootMounts) : o = BootMounts[j].path
    BY <1>2
  <2>3. i # j => ~IsPrefix(NamesIn[m], NamesIn[o])
    BY <2>1, <2>2, BootMountIs
  <2>. QED
    BY <1>4, <2>1, <2>2, <2>3, Zenon
<1>. QED
  BY <1>3, <1>4, Zenon DEF MountFacts

-----------------------------------------------------------------------------
(* What names mean *)

(* No device is on the way. *)
Free(names) == \A m \in DOMAIN mounts : ~IsPrefix(NamesIn[m], names)

LEMMA MeaningFree ==
    ASSUME NEW names, Free(names)
    PROVE  Meaning(names) = IF names \in DOMAIN tree THEN names ELSE Null
<1>1. {m \in DOMAIN mounts : IsPrefix(NamesIn[m], names)} = {}
  BY Zenon DEF Free
<1>. QED
  BY <1>1, Zenon DEF Meaning

LEMMA OneOver ==
    ASSUME PathInv, NEW names \in Routes, NEW m \in DOMAIN mounts, NEW o \in DOMAIN mounts,
           IsPrefix(NamesIn[m], names), IsPrefix(NamesIn[o], names)
    PROVE  m = o
<1>1. MountFacts
  BY MountsAre DEF PathInv
<1>2. NamesIn[m] \in Routes /\ NamesIn[o] \in Routes
  BY <1>1, Zenon DEF MountFacts, BootMount
<1>3. IsPrefix(NamesIn[m], NamesIn[o]) \/ IsPrefix(NamesIn[o], NamesIn[m])
  BY <1>2, PrefixesCompare
<1>. QED
  BY <1>1, <1>3, Zenon DEF MountFacts

LEMMA MeaningOver ==
    ASSUME PathInv, NEW names \in Routes, NEW m \in DOMAIN mounts, IsPrefix(NamesIn[m], names)
    PROVE  Meaning(names) =
              IF Len(names) = Len(NamesIn[m]) THEN mounts[m]
              ELSE IF mounts[m] = PtyDir /\ Len(names) = Len(NamesIn[m]) + 1
                      /\ Last(names) \in Listed
                     THEN Pty ELSE Null
<1>. DEFINE over == {path \in DOMAIN mounts : IsPrefix(NamesIn[path], names)}
<1>1. \A o \in over : o = m
  BY OneOver
<1>2. m \in over
  OBVIOUS
<1>3. over # {} /\ (CHOOSE path \in over : TRUE) = m
  <2>. HIDE DEF over
  <2>. QED BY <1>1, <1>2, Zenon
<1>. QED
  BY <1>3, Zenon DEF Meaning

NodeFacts ==
    /\ PtyDir \notin Routes /\ Pty \notin Routes /\ Null \notin Routes
    /\ Pty # PtyDir /\ Pty # Null /\ Null \notin Devices

LEMMA NodesAre == NodeFacts
BY VfsAssumption, Zenon DEF Routes, NodeFacts

LEMMA MeaningIsNode ==
    ASSUME PathInv, NEW names \in Routes
    PROVE  Meaning(names) \in Nodes
<1>1. CASE Free(names)
  BY <1>1, MeaningFree, Zenon DEF Nodes, Routes
<1>2. CASE ~Free(names)
  <2>1. PICK m \in DOMAIN mounts : IsPrefix(NamesIn[m], names)
    BY <1>2 DEF Free
  <2>2. mounts[m] \in Devices
    BY MountsAre, Zenon DEF PathInv, MountFacts, BootMount
  <2>. QED
    BY <2>1, <2>2, MeaningOver, Zenon DEF Nodes
<1>. QED
  BY <1>1, <1>2

(* At a mountpoint: what it is in is a directory. *)
LEMMA MeaningOfMount ==
    ASSUME PathInv, NEW m \in DOMAIN mounts
    PROVE  /\ Meaning(NamesIn[m]) = mounts[m]
           /\ Free(Front(NamesIn[m])) /\ IsDir(Front(NamesIn[m]))
           /\ Meaning(Front(NamesIn[m])) = Front(NamesIn[m])
<1>1. MountFacts
  BY MountsAre DEF PathInv
<1>2. PICK names \in Routes : names = NamesIn[m]
  BY <1>1, Zenon DEF MountFacts, BootMount
<1>3. Len(names) > 0 /\ Len(names) \in Nat
  <2>1. Len(names) > 0
    BY <1>1, <1>2, Zenon DEF MountFacts, BootMount
  <2>. QED BY <2>1 DEF Routes
<1>4. IsPrefix(names, names) /\ Meaning(names) = mounts[m]
  <2>1. IsPrefix(names, names)
    BY <1>3, PrefixOfFront
  <2>. QED BY <1>2, <2>1, MeaningOver, Zenon
<1>5. Free(Front(names))
  <2>. SUFFICES ASSUME NEW o \in DOMAIN mounts, IsPrefix(NamesIn[o], Front(names)) PROVE FALSE
    BY Zenon DEF Free
  <2>1. NamesIn[o] \in Routes
    BY <1>1, Zenon DEF MountFacts, BootMount
  <2>2. IsPrefix(NamesIn[o], names) /\ Len(NamesIn[o]) < Len(names)
    BY <1>3, <2>1, PrefixOfFront
  <2>3. o = m
    BY <1>1, <1>2, <2>2, Zenon DEF MountFacts
  <2>. QED
    BY <1>2, <1>3, <2>2, <2>3
<1>6. IsDir(Front(names))
  <2>1. Len(names) - 1 \in 0 .. Len(names) - 1
    BY <1>3
  <2>2. \A k \in 0 .. Len(names) - 1 : IsDir(SubSeq(names, 1, k))
    BY <1>1, <1>2, Zenon DEF MountFacts
  <2>. QED
    BY <2>1, <2>2, Zenon DEF Front
<1>. QED
  BY <1>2, <1>4, <1>5, <1>6, MeaningFree, Zenon DEF IsDir

(* Elsewhere a name is found as finddir finds it in what the others mean. *)
LEMMA MeaningOfEntry ==
    ASSUME PathInv, NEW names \in Routes, Len(names) > 0,
           \A m \in DOMAIN mounts : NamesIn[m] # names
    PROVE  Meaning(names) =
              IF Meaning(Front(names)) = Null THEN Null
              ELSE finddir(Meaning(Front(names)), Last(names))
<1>1. MountFacts /\ TreeOk
  BY MountsAre DEF PathInv
<1>2. /\ Front(names) \in Routes /\ Len(Front(names)) = Len(names) - 1 /\ Last(names) \in Strings
      /\ Append(Front(names), Last(names)) = names /\ Len(names) \in Nat
  <2>1. Len(names) \in Nat
    BY DEF Routes
  <2>. QED BY <2>1, FrontIs
<1>3. ASSUME NEW m \in DOMAIN mounts
      PROVE  IsPrefix(NamesIn[m], names) <=> IsPrefix(NamesIn[m], Front(names))
  <2>1. NamesIn[m] \in Routes /\ NamesIn[m] # names
    BY <1>1, Zenon DEF MountFacts, BootMount
  <2>2. /\ IsPrefix(NamesIn[m], Front(names)) <=> IsPrefix(NamesIn[m], names) /\ Len(NamesIn[m]) < Len(names)
        /\ IsPrefix(NamesIn[m], names) /\ Len(NamesIn[m]) = Len(names) <=> NamesIn[m] = names
    BY <2>1, PrefixOfFront
  <2>3. IsPrefix(NamesIn[m], names) => Len(NamesIn[m]) <= Len(names)
    BY DEF IsPrefix
  <2>4. Len(NamesIn[m]) \in Nat
    BY <2>1 DEF Routes
  <2>5. Len(NamesIn[m]) <= Len(names) /\ Len(NamesIn[m]) # Len(names) => Len(NamesIn[m]) < Len(names)
    BY <1>2, <2>4
  <2>. QED
    BY <2>1, <2>2, <2>3, <2>5, Zenon
<1>4. CASE Free(names)
  <2>1. Free(Front(names))
    BY <1>3, <1>4, Zenon DEF Free
  <2>2. /\ Meaning(names) = IF names \in DOMAIN tree THEN names ELSE Null
        /\ Meaning(Front(names)) = IF Front(names) \in DOMAIN tree THEN Front(names) ELSE Null
    BY <1>4, <2>1, MeaningFree, Zenon
  <2>3. names \in DOMAIN tree => IsDir(Front(names))
    <3>1. Len(names) - 1 \in 0 .. Len(names) - 1
      BY <1>2
    <3>. QED BY <1>1, <3>1, Zenon DEF TreeOk, Front
  <2>4. Front(names) # PtyDir /\ Front(names) # Null
    BY <1>2, NodesAre, Zenon DEF NodeFacts
  <2>5. finddir(Front(names), Last(names)) =
          IF IsDir(Front(names)) /\ names \in DOMAIN tree THEN names ELSE Null
    BY <1>2, <2>4, Zenon DEF finddir, IsDir
  <2>. QED
    BY <2>2, <2>3, <2>4, <2>5, Zenon DEF IsDir
<1>5. CASE ~Free(names)
  <2>1. PICK m \in DOMAIN mounts : IsPrefix(NamesIn[m], names)
    BY <1>5, Zenon DEF Free
  <2>2. IsPrefix(NamesIn[m], Front(names))
    BY <1>3, <2>1, Zenon
  <2>. DEFINE d == Len(NamesIn[m])
              n == Len(names)
  <2>3. NamesIn[m] \in Routes /\ mounts[m] \notin Routes /\ mounts[m] # Null
    BY <1>1, Zenon DEF MountFacts, BootMount
  <2>4. d \in Nat /\ d <= n - 1
    <3>1. d <= Len(Front(names))
      BY <2>2, Zenon DEF IsPrefix
    <3>. QED BY <1>2, <2>3, <3>1 DEF Routes
  <2>5. Meaning(names) = IF n = d THEN mounts[m]
                         ELSE IF mounts[m] = PtyDir /\ n = d + 1 /\ Last(names) \in Listed
                                THEN Pty ELSE Null
    BY <2>1, MeaningOver, Zenon
  <2>6. Meaning(Front(names)) =
          IF n - 1 = d THEN mounts[m]
          ELSE IF mounts[m] = PtyDir /\ n - 1 = d + 1 /\ Last(Front(names)) \in Listed
                 THEN Pty ELSE Null
    BY <1>2, <2>2, MeaningOver, Zenon
  <2>7. n # d /\ (n - 1 = d <=> n = d + 1)
    BY <1>2, <2>4
  <2>8. \A node : node \notin Routes =>
          finddir(node, Last(names)) =
            IF node = PtyDir /\ Last(names) \in Listed THEN Pty ELSE Null
    BY <1>1, Zenon DEF TreeOk, finddir
  <2>9. CASE n - 1 = d
    <3>1. Meaning(Front(names)) = mounts[m] /\ n = d + 1
      BY <2>6, <2>7, <2>9, Zenon
    <3>. QED
      BY <2>3, <2>5, <2>7, <2>8, <3>1, Zenon
  <2>10. CASE n - 1 # d
    <3>1. Meaning(names) = Null
      BY <2>5, <2>7, <2>10, Zenon
    <3>2. Meaning(Front(names)) \in {Pty, Null}
      BY <2>6, <2>10, Zenon
    <3>3. finddir(Pty, Last(names)) = Null
      BY <2>8, NodesAre, Zenon DEF NodeFacts
    <3>. QED
      BY <3>1, <3>2, <3>3, Zenon
  <2>. QED
    BY <2>9, <2>10, Zenon
<1>. QED
  BY <1>4, <1>5, Zenon

-----------------------------------------------------------------------------
(* The walk of _kopen *)

(* How many names of a plain path the walk has passed at character p. *)
Passed(p, n) == IF p = 0 THEN 0 ELSE IF p > 2 * n THEN n ELSE (p - 1) \div 2

Reached(path, n) ==
    [p \in 0 .. Len(path) + 1 |-> Meaning(SubSeq(NamesIn[path], 1, Passed(p, n)))]

WalkOf(path, wd) ==
    wd = [p \in 0 .. Len(path) + 1 |->
            IF p = 0 THEN Root
            ELSE IF p \in DOMAIN Tokens[path] THEN TokenNode(Tokens[path][p])[wd[p - 1]]
            ELSE wd[p - 1]]

LEMMA RootMeansRoot == PathInv => Meaning(<<>>) = Root
<1>. SUFFICES ASSUME PathInv PROVE Meaning(<<>>) = Root
  OBVIOUS
<1>1. <<>> \in Routes /\ Len(<<>>) = 0
  BY DEF Routes
<1>2. Free(<<>>)
  <2>. SUFFICES ASSUME NEW m \in DOMAIN mounts, IsPrefix(NamesIn[m], <<>>) PROVE FALSE
    BY Zenon DEF Free
  <2>1. NamesIn[m] \in Routes /\ Len(NamesIn[m]) > 0
    BY MountsAre, Zenon DEF PathInv, MountFacts, BootMount
  <2>2. Len(NamesIn[m]) <= 0
    BY <1>1, Zenon DEF IsPrefix
  <2>. QED BY <2>1, <2>2 DEF Routes
<1>. QED
  BY <1>2, MeaningFree, Zenon DEF PathInv, TreeOk, IsDir, Root

(* A token leads from what the names before it mean to what they mean with *)
(* it.                                                                     *)
LEMMA TokenLeads ==
    ASSUME PathInv, NEW path, NEW n \in Nat, Plain(path, n), NEW k \in 1 .. n
    PROVE  TokenNode(Tokens[path][2 * k + 1])[Meaning(SubSeq(NamesIn[path], 1, k - 1))]
              = Meaning(SubSeq(NamesIn[path], 1, k))
<1>1. Tokens[path][2 * k + 1] = [name |-> <<path[2 * k]>>, upto |-> SubSeq(path, 1, 2 * k)]
  <2>1. n > 0
    OBVIOUS
  <2>. QED BY <2>1, TokensAre
<1>2. /\ NamesIn[path] \in Routes /\ Len(NamesIn[path]) = n
      /\ \A j \in 1 .. n : NamesIn[path][j] = <<path[2 * j]>>
  BY Zenon DEF Plain
<1>3. PICK names \in Routes : names = SubSeq(NamesIn[path], 1, k)
  <2>1. SubSeq(NamesIn[path], 1, k) \in Routes
    BY <1>2 DEF Routes
  <2>. QED BY <2>1, Zenon
<1>4. Len(names) = k /\ \A j \in 1 .. k : names[j] = NamesIn[path][j]
  BY <1>2, <1>3 DEF Routes
<1>5. PICK before \in Routes : before = SubSeq(NamesIn[path], 1, k - 1)
  <2>1. SubSeq(NamesIn[path], 1, k - 1) \in Routes
    BY <1>2 DEF Routes
  <2>. QED BY <2>1, Zenon
<1>6. Front(names) = before
  <2>1. Front(names) = SubSeq(names, 1, k - 1)
    BY <1>4, Zenon DEF Front
  <2>2. SubSeq(SubSeq(NamesIn[path], 1, k), 1, k - 1) = SubSeq(NamesIn[path], 1, k - 1)
    <3>1. NamesIn[path] \in Seq(Strings) /\ k - 1 \in Nat
      BY <1>2 DEF Routes
    <3>2. PICK s \in Seq(Strings) : s = NamesIn[path] /\ Len(s) = n
      BY <1>2, <3>1, Zenon
    <3>3. SubSeq(SubSeq(s, 1, k), 1, k - 1) = SubSeq(s, 1, k - 1)
      BY <3>1, <3>2
    <3>. QED BY <3>2, <3>3, Zenon
  <2>. QED BY <1>3, <1>5, <2>1, <2>2, Zenon
<1>7. Last(names) = <<path[2 * k]>> /\ Len(names) > 0
  <2>1. Last(names) = names[k] /\ k \in 1 .. k
    BY <1>4 DEF Last
  <2>2. k \in 1 .. n /\ Len(names) > 0
    BY <1>4
  <2>. QED BY <1>2, <1>4, <2>1, <2>2, Zenon
<1>8. \A m \in DOMAIN mounts : NamesIn[m] = names <=> m = SubSeq(path, 1, 2 * k)
  <2>. SUFFICES ASSUME NEW m \in DOMAIN mounts
                PROVE  NamesIn[m] = names <=> m = SubSeq(path, 1, 2 * k)
    OBVIOUS
  <2>1. /\ NamesIn[m] \in Routes /\ Plain(m, Len(NamesIn[m])) /\ Len(m) = 2 * Len(NamesIn[m])
    BY MountsAre, Zenon DEF PathInv, MountFacts, BootMount
  <2>2. CASE Len(NamesIn[m]) = k
    <3>1. Plain(m, k) /\ Len(m) = 2 * k /\ k \in Nat /\ k <= n
      BY <2>1, <2>2
    <3>2. NamesIn[m] = SubSeq(NamesIn[path], 1, k) <=> m = SubSeq(path, 1, 2 * k)
      BY <3>1, SpelledOnce
    <3>. QED BY <1>3, <3>2, Zenon
  <2>3. CASE Len(NamesIn[m]) # k
    <3>1. NamesIn[m] # names
      BY <1>4, <2>3, Zenon
    <3>2. Len(SubSeq(path, 1, 2 * k)) = 2 * k
      <4>1. path \in Seq(Chars) /\ 2 * n <= Len(path)
        BY Zenon DEF Plain, Strings, Chars
      <4>. QED BY <4>1
    <3>3. Len(m) # 2 * k
      <4>1. Len(NamesIn[m]) \in Nat
        BY <2>1 DEF Routes
      <4>. QED BY <2>1, <2>3, <4>1
    <3>. QED BY <3>1, <3>2, <3>3, Zenon
  <2>. QED
    BY <2>2, <2>3, Zenon
<1>9. Meaning(before) \in Nodes
  BY MeaningIsNode
<1>. DEFINE upto == SubSeq(path, 1, 2 * k)
<1>10. TokenNode(Tokens[path][2 * k + 1])[Meaning(before)] =
         IF Meaning(before) = Null THEN Null
         ELSE IF upto \in DOMAIN mounts THEN mounts[upto] ELSE finddir(Meaning(before), Last(names))
  <2>1. /\ Tokens[path][2 * k + 1].upto = upto
        /\ Tokens[path][2 * k + 1].name = Last(names)
    <3>1. Tokens[path][2 * k + 1] = [name |-> Last(names), upto |-> upto]
      BY <1>1, <1>7, Zenon
    <3>. HIDE DEF upto
    <3>. QED BY <3>1
  <2>. HIDE DEF upto
  <2>. QED
    BY <1>9, <2>1, Zenon DEF TokenNode
<1>11. CASE upto \in DOMAIN mounts
  <2>1. NamesIn[upto] = names
    BY <1>8, <1>11, Zenon
  <2>2. Meaning(names) = mounts[upto] /\ Meaning(before) = before
    BY <1>6, <1>11, <2>1, MeaningOfMount, Zenon
  <2>3. before # Null
    BY NodesAre, Zenon DEF NodeFacts
  <2>. QED
    BY <1>3, <1>5, <1>10, <1>11, <2>2, <2>3, Zenon
<1>12. CASE upto \notin DOMAIN mounts
  <2>1. \A m \in DOMAIN mounts : NamesIn[m] # names
    BY <1>8, <1>12, Zenon
  <2>2. Meaning(names) = IF Meaning(before) = Null THEN Null
                         ELSE finddir(Meaning(before), Last(names))
    BY <1>6, <1>7, <2>1, MeaningOfEntry, Zenon
  <2>. QED
    BY <1>3, <1>5, <1>10, <1>12, <2>2, Zenon
<1>. QED
  BY <1>11, <1>12, Zenon

LEMMA ReachedIsWalk ==
    ASSUME PathInv, NEW path, NEW n \in Nat, Plain(path, n)
    PROVE  WalkOf(path, Reached(path, n))
<1>. DEFINE f == Reached(path, n)
<1>1. Len(path) \in Nat /\ 2 * n <= Len(path)
  <2>1. path \in Seq(Chars) /\ 2 * n <= Len(path)
    BY Zenon DEF Plain, Strings, Chars
  <2>. QED BY <2>1
<1>2. ASSUME NEW p \in 0 .. Len(path) + 1
      PROVE  Meaning(SubSeq(NamesIn[path], 1, Passed(p, n))) =
                IF p = 0 THEN Root
                ELSE IF p \in DOMAIN Tokens[path] THEN TokenNode(Tokens[path][p])[f[p - 1]]
                ELSE f[p - 1]
  <2>1. CASE p = 0
    <3>1. Passed(p, n) = 0
      BY <2>1 DEF Passed
    <3>2. SubSeq(NamesIn[path], 1, 0) = <<>>
      <4>1. NamesIn[path] \in Seq(Strings)
        BY Zenon DEF Plain, Routes
      <4>. QED BY <4>1
    <3>. QED BY <2>1, <3>1, <3>2, RootMeansRoot, Zenon
  <2>2. CASE p # 0
    <3>1. p - 1 \in 0 .. Len(path) + 1
      BY <2>2
    <3>2. f[p - 1] = Meaning(SubSeq(NamesIn[path], 1, Passed(p - 1, n)))
      BY <3>1, Zenon DEF Reached
    <3>3. DOMAIN Tokens[path] = IF n = 0 THEN {} ELSE TokenEnds(n)
      <4>1. CASE n = 0
        BY <4>1, NoTokens
      <4>2. CASE n # 0
        <5>1. n > 0
          BY <4>2
        <5>. QED BY <4>2, <5>1, TokensAre, Zenon
      <4>. QED BY <4>1, <4>2
    <3>4. CASE p \in DOMAIN Tokens[path]
      <4>1. PICK k \in 1 .. n : p = 2 * k + 1
        BY <3>3, <3>4, Zenon DEF TokenEnds
      <4>2. Passed(p, n) = k /\ Passed(p - 1, n) = k - 1
        <5>1. p > 0 /\ p - 1 > 0 /\ p - 1 <= 2 * n /\ (p - 1) \div 2 = k
              /\ ((p - 1) - 1) \div 2 = k - 1 /\ (p > 2 * n => k = n)
          BY <4>1
        <5>. QED BY <5>1 DEF Passed
      <4>3. TokenNode(Tokens[path][p])[f[p - 1]] = Meaning(SubSeq(NamesIn[path], 1, k))
        BY <3>2, <4>1, <4>2, TokenLeads, Zenon
      <4>. QED
        BY <2>2, <3>4, <4>2, <4>3, Zenon
    <3>5. CASE p \notin DOMAIN Tokens[path]
      <4>1. Passed(p, n) = Passed(p - 1, n)
        <5>1. CASE p > 2 * n + 1
          BY <5>1 DEF Passed
        <5>2. CASE p <= 2 * n + 1 /\ n # 0
          <6>1. p % 2 = 1 => p = 1
            <7>. SUFFICES ASSUME p % 2 = 1, p # 1 PROVE FALSE
              OBVIOUS
            <7>1. p = 2 * (p \div 2) + 1 /\ p \div 2 \in 1 .. n
              BY <2>2, <5>2
            <7>2. p \in TokenEnds(n)
              BY <7>1, Zenon DEF TokenEnds
            <7>. QED BY <3>3, <3>5, <5>2, <7>2, Zenon
          <6>2. CASE p = 1
            BY <5>2, <6>2 DEF Passed
          <6>3. CASE p # 1
            <7>1. p % 2 = 0
              BY <6>1, <6>3
            <7>2. p <= 2 * n /\ p >= 2 /\ (p - 1) \div 2 = ((p - 1) - 1) \div 2
              BY <2>2, <5>2, <7>1
            <7>. QED BY <7>2 DEF Passed
          <6>. QED BY <6>2, <6>3
        <5>3. CASE p <= 2 * n + 1 /\ n = 0
          BY <2>2, <5>3 DEF Passed
        <5>. QED BY <5>1, <5>2, <5>3
      <4>. QED
        BY <2>2, <3>2, <3>5, <4>1, Zenon
    <3>. QED
      BY <3>4, <3>5, Zenon
  <2>. QED
    BY <2>1, <2>2, Zenon
<1>. QED
  BY <1>2, Zenon DEF WalkOf, Reached

(* There is only one such walk. *)
LEMMA WalkIsOne ==
    ASSUME NEW path, Len(path) \in Nat, NEW f, WalkOf(path, f), NEW g, WalkOf(path, g)
    PROVE  f = g
<1>. DEFINE D == 0 .. Len(path) + 1
            bad == {p \in D : f[p] # g[p]}
<1>1. /\ f = [p \in D |-> f[p]] /\ g = [p \in D |-> g[p]]
      /\ \A p \in D : f[p] = IF p = 0 THEN Root
                             ELSE IF p \in DOMAIN Tokens[path] THEN TokenNode(Tokens[path][p])[f[p - 1]]
                             ELSE f[p - 1]
      /\ \A p \in D : g[p] = IF p = 0 THEN Root
                             ELSE IF p \in DOMAIN Tokens[path] THEN TokenNode(Tokens[path][p])[g[p - 1]]
                             ELSE g[p - 1]
  BY Zenon DEF WalkOf
<1>2. bad = {}
  <2>. SUFFICES ASSUME bad # {} PROVE FALSE
    OBVIOUS
  <2>1. PICK p \in bad : \A q \in bad : p <= q
    <3>1. bad \subseteq Nat
      OBVIOUS
    <3>. HIDE DEF bad
    <3>. QED BY <3>1, LeastElement
  <2>2. p \in D /\ f[p] # g[p]
    OBVIOUS
  <2>3. p # 0
    BY <1>1, <2>2, Zenon
  <2>4. p - 1 \in D /\ ~(p <= p - 1)
    BY <2>2, <2>3
  <2>5. f[p - 1] = g[p - 1]
    BY <2>1, <2>4, Zenon
  <2>. QED
    BY <1>1, <2>2, <2>3, <2>5, Zenon
<1>3. \A p \in D : f[p] = g[p]
  BY <1>2, Zenon
<1>. QED
  BY <1>1, <1>3, Zenon

LEMMA WalkIs ==
    ASSUME PathInv, NEW path, NEW n \in Nat, Plain(path, n)
    PROVE  Walk(path) = Reached(path, n)
<1>1. WalkOf(path, Reached(path, n))
  BY ReachedIsWalk
<1>2. WalkOf(path, Walk(path))
  BY <1>1, Zenon DEF WalkOf, Walk
<1>3. Len(path) \in Nat
  <2>1. path \in Seq(Chars)
    BY Zenon DEF Plain, Strings, Chars
  <2>. QED BY <2>1
<1>. QED
  BY <1>1, <1>2, <1>3, WalkIsOne

(* kopen finds what the names mean, and its parent mode what they mean     *)
(* without the last.                                                       *)
LEMMA KopenIs ==
    ASSUME PathInv, NEW path, NEW n \in Nat, Plain(path, n)
    PROVE  /\ kopen(path) = Meaning(NamesIn[path])
           /\ n = 0 => Parent(path) = Root
           /\ n > 0 => Parent(path) = Meaning(Front(NamesIn[path]))
<1>1. Walk(path) = Reached(path, n)
  BY WalkIs
<1>2. /\ NamesIn[path] \in Seq(Strings) /\ Len(NamesIn[path]) = n
      /\ Len(path) \in Nat /\ 2 * n <= Len(path)
  <2>1. /\ path \in Seq(Chars) /\ 2 * n <= Len(path)
        /\ NamesIn[path] \in Seq(Strings) /\ Len(NamesIn[path]) = n
    BY Zenon DEF Plain, Strings, Chars, Routes
  <2>2. Len(path) \in Nat
    BY <2>1
  <2>. QED BY <2>1, <2>2
<1>3. kopen(path) = Meaning(NamesIn[path])
  <2>1. Len(path) + 1 \in 0 .. Len(path) + 1 /\ Passed(Len(path) + 1, n) = n
    BY <1>2 DEF Passed
  <2>2. SubSeq(NamesIn[path], 1, n) = NamesIn[path]
    <3>1. PICK s \in Seq(Strings) : s = NamesIn[path] /\ Len(s) = n
      BY <1>2
    <3>2. SubSeq(s, 1, n) = s
      BY <3>1
    <3>. QED BY <3>1, <3>2, Zenon
  <2>. QED
    BY <1>1, <2>1, <2>2, Zenon DEF kopen, Reached
<1>4. n = 0 => Parent(path) = Root
  BY NoTokens, Zenon DEF Parent
<1>5. ASSUME n > 0 PROVE Parent(path) = Meaning(Front(NamesIn[path]))
  <2>1. DOMAIN Tokens[path] = TokenEnds(n)
    BY <1>5, TokensAre
  <2>2. Max(TokenEnds(n)) = 2 * n + 1 /\ TokenEnds(n) # {}
    <3>1. 2 * n + 1 \in TokenEnds(n) /\ TokenEnds(n) \subseteq Int
          /\ \A p \in TokenEnds(n) : 2 * n + 1 >= p
      BY <1>5 DEF TokenEnds
    <3>. QED BY <3>1, MaxIs
  <2>3. (2 * n + 1) - 1 = 2 * n /\ 2 * n \in 0 .. Len(path) + 1 /\ Passed(2 * n, n) = n - 1
    <3>1. 2 * n # 0 /\ ~(2 * n > 2 * n) /\ (2 * n - 1) \div 2 = n - 1
      BY <1>5
    <3>2. Passed(2 * n, n) = n - 1
      BY <3>1, Zenon DEF Passed
    <3>3. (2 * n + 1) - 1 = 2 * n /\ 2 * n \in 0 .. Len(path) + 1
      BY <1>2
    <3>. QED BY <3>2, <3>3, Zenon
  <2>4. Parent(path) = Walk(path)[2 * n]
    BY <2>1, <2>2, <2>3, Zenon DEF Parent
  <2>5. Reached(path, n)[2 * n] = Meaning(SubSeq(NamesIn[path], 1, n - 1))
    BY <2>3, Zenon DEF Reached
  <2>6. Front(NamesIn[path]) = SubSeq(NamesIn[path], 1, n - 1)
    BY <1>2, Zenon DEF Front
  <2>. QED
    BY <1>1, <2>4, <2>5, <2>6, Zenon
<1>. QED
  BY <1>3, <1>4, <1>5, Zenon

-----------------------------------------------------------------------------
(* The invariant *)

LEMMA MeansAll == PathInv => PathsMeanNames
<1>. SUFFICES ASSUME PathInv, NEW path \in PlainPaths
              PROVE  kopen(path) = Meaning(NamesIn[path])
  BY DEF PathsMeanNames
<1>1. PICK n \in Nat : Plain(path, n)
  BY PlainIs
<1>. QED
  BY <1>1, KopenIs

LEMMA VfsStarts == VfsInit => PathInv
<1>. SUFFICES ASSUME VfsInit PROVE PathInv
  OBVIOUS
<1>0. PtysOk
  BY DEF VfsInit, PtysOk
<1>1. /\ tree = [f \in {Root} \cup BootDirs |-> "dir"] /\ mounts = [path \in {} |-> Null]
  BY DEF VfsInit
<1>2. TreeOk
  <2>1. /\ DOMAIN tree = {Root} \cup BootDirs /\ \A f \in DOMAIN tree : tree[f] = "dir"
        /\ tree \in [DOMAIN tree -> {"file", "dir", "link"}]
    BY <1>1
  <2>2. Root \in Routes /\ Len(Root) = 0
    BY DEF Root, Routes
  <2>3. \A d \in BootDirs :
          d \in Routes /\ \A k \in 1 .. Len(d) - 1 : SubSeq(d, 1, k) \in BootDirs
    BY VfsAssumption, Zenon DEF Routes
  <2>4. ASSUME NEW f \in DOMAIN tree, NEW k \in 0 .. Len(f) - 1 PROVE IsDir(SubSeq(f, 1, k))
    <3>1. f \in BootDirs /\ f \in Seq(Strings)
      BY <2>1, <2>2, <2>3, <2>4 DEF Routes
    <3>2. CASE k = 0
      <4>1. SubSeq(f, 1, 0) = Root
        BY <3>1 DEF Root
      <4>. QED BY <2>1, <3>2, <4>1, Zenon DEF IsDir
    <3>3. CASE k # 0
      <4>1. k \in 1 .. Len(f) - 1
        BY <3>3
      <4>2. SubSeq(f, 1, k) \in DOMAIN tree
        BY <2>1, <2>3, <3>1, <4>1, Zenon
      <4>. QED BY <2>1, <4>2, Zenon DEF IsDir
    <3>. QED BY <3>2, <3>3
  <2>. QED
    BY <2>1, <2>2, <2>3, <2>4, Zenon DEF TreeOk, IsDir
<1>3. MountsOk
  <2>1. DOMAIN mounts = {}
    BY <1>1
  <2>2. IsFiniteSet(DOMAIN mounts) /\ NMounts = 0
    BY <2>1, FS_EmptySet, Zenon DEF NMounts
  <2>3. 0 \in 0 .. Len(BootMounts) /\ \A i \in 1 .. 0 : FALSE
    <3>1. BootMounts \in Seq(Range(BootMounts))
      BY VfsAssumption, Zenon
    <3>. QED BY <3>1
  <2>4. {BootMounts[i].path : i \in 1 .. 0} = {}
    BY <2>3, Zenon
  <2>. QED
    BY <2>1, <2>2, <2>3, <2>4, Zenon DEF MountsOk
<1>. QED
  BY <1>0, <1>2, <1>3 DEF PathInv

(* Directories stay, and so does what kmain mounted. *)
LEMMA MountsStay ==
    ASSUME MountsOk, UNCHANGED mounts, \A f \in Routes : IsDir(f) => IsDir(f)'
    PROVE  MountsOk'
<1>1. MountFacts
  BY MountsAre
<1>2. DOMAIN mounts' = DOMAIN mounts /\ NMounts' = NMounts
  BY DEF NMounts
<1>3. ASSUME NEW i \in 1 .. NMounts, NEW k \in 0 .. Len(NamesIn[BootMounts[i].path]) - 1
      PROVE  IsDir(SubSeq(NamesIn[BootMounts[i].path], 1, k))'
  <2>1. IsDir(SubSeq(NamesIn[BootMounts[i].path], 1, k))
    BY Zenon DEF MountsOk
  <2>2. BootMounts[i].path \in DOMAIN mounts
    BY Zenon DEF MountsOk
  <2>3. NamesIn[BootMounts[i].path] \in Seq(Strings)
    BY <1>1, <2>2, Zenon DEF MountFacts, BootMount, Routes
  <2>4. SubSeq(NamesIn[BootMounts[i].path], 1, k) \in Routes
    <3>1. PICK s \in Seq(Strings) : s = NamesIn[BootMounts[i].path]
      BY <2>3
    <3>2. k \in 0 .. Len(s)
      BY <3>1
    <3>3. SubSeq(s, 1, k) \in Seq(Strings)
      BY <3>2
    <3>. QED BY <3>1, <3>3, Zenon DEF Routes
  <2>. QED
    BY <2>1, <2>4, Zenon
<1>. QED
  BY <1>2, <1>3, Zenon DEF MountsOk

(* A new entry of a directory. *)
LEMMA MakeKeepsTree ==
    ASSUME TreeOk, NEW node, NEW name \in Strings, NEW kind \in {"file", "dir", "link"},
           Make(node, name, kind)
    PROVE  /\ TreeOk' /\ \A f \in Routes : IsDir(f) => IsDir(f)'
           /\ node \in Routes /\ Append(node, name) \in Routes /\ Append(node, name) \notin DOMAIN tree
           /\ DOMAIN tree' = DOMAIN tree \cup {Append(node, name)}
           /\ tree'[Append(node, name)] = kind /\ \A f \in DOMAIN tree : tree'[f] = tree[f]
           /\ IsDir(node) /\ Front(Append(node, name)) = node /\ Last(Append(node, name)) = name
           /\ Len(Append(node, name)) > 0
<1>. DEFINE new == Append(node, name)
<1>1. /\ node \in DOMAIN tree /\ tree[node] = "dir" /\ new \notin DOMAIN tree
      /\ tree' = [f \in DOMAIN tree \cup {new} |-> IF f = new THEN kind ELSE tree[f]]
  BY Zenon DEF Make
<1>2. node \in Seq(Strings) /\ Routes = Seq(Strings)
  BY <1>1, Zenon DEF TreeOk, Routes
<1>3. /\ new \in Seq(Strings) /\ Len(new) = Len(node) + 1 /\ Len(node) \in Nat
      /\ \A k \in 0 .. Len(node) : SubSeq(new, 1, k) = SubSeq(node, 1, k)
      /\ SubSeq(node, 1, Len(node)) = node /\ new[Len(node) + 1] = name
  <2>1. new \in Seq(Strings) /\ Len(new) = Len(node) + 1 /\ Len(node) \in Nat
        /\ new[Len(node) + 1] = name
    BY <1>2
  <2>2. \A k \in 0 .. Len(node) : SubSeq(new, 1, k) = SubSeq(node, 1, k)
    BY <1>2
  <2>3. SubSeq(node, 1, Len(node)) = node
    BY <1>2
  <2>. QED BY <2>1, <2>2, <2>3, Zenon
<1>4. Front(new) = node /\ Last(new) = name /\ Len(new) > 0
  <2>1. Len(new) - 1 = Len(node) /\ Len(node) \in 0 .. Len(node) /\ Len(new) > 0
    BY <1>3
  <2>. QED
    BY <1>3, <2>1, Zenon DEF Front, Last
<1>5. /\ DOMAIN tree' = DOMAIN tree \cup {new} /\ tree'[new] = kind
      /\ \A f \in DOMAIN tree : tree'[f] = tree[f]
  <2>. HIDE DEF new
  <2>. QED BY <1>1
<1>6. \A f \in Routes : IsDir(f) => IsDir(f)'
  BY <1>5, Zenon DEF IsDir
<1>7. tree' \in [DOMAIN tree' -> {"file", "dir", "link"}]
  <2>1. tree \in [DOMAIN tree -> {"file", "dir", "link"}]
    BY DEF TreeOk
  <2>. HIDE DEF new
  <2>. QED BY <1>1, <2>1
<1>8. ASSUME NEW f \in DOMAIN tree', NEW k \in 0 .. Len(f) - 1 PROVE IsDir(SubSeq(f, 1, k))'
  <2>1. CASE f \in DOMAIN tree
    <3>1. IsDir(SubSeq(f, 1, k)) /\ SubSeq(f, 1, k) \in Routes
      BY <2>1, Zenon DEF TreeOk, IsDir
    <3>. QED BY <1>6, <3>1, Zenon
  <2>2. CASE f = new
    <3>1. k \in 0 .. Len(node) /\ (k # Len(node) => k \in 0 .. Len(node) - 1)
      <4>1. Len(f) = Len(node) + 1
        BY <1>3, <2>2, Zenon
      <4>2. Len(node) \in Nat /\ k \in 0 .. Len(f) - 1
        BY <1>3, Zenon
      <4>3. PICK n \in Nat : n = Len(node) /\ Len(f) = n + 1
        BY <4>1, <4>2
      <4>4. k \in 0 .. n /\ (k # n => k \in 0 .. n - 1)
        BY <4>2, <4>3
      <4>. QED BY <4>3, <4>4, Zenon
    <3>2. SubSeq(f, 1, k) = SubSeq(node, 1, k)
      BY <1>3, <2>2, <3>1, Zenon
    <3>3. IsDir(SubSeq(node, 1, k)) /\ SubSeq(node, 1, k) \in Routes
      <4>1. IsDir(node)
        BY <1>1, Zenon DEF IsDir
      <4>2. IsDir(SubSeq(node, 1, k))
        BY <1>1, <1>3, <3>1, <4>1, Zenon DEF TreeOk
      <4>. QED BY <4>2, Zenon DEF TreeOk, IsDir
    <3>. QED BY <1>6, <3>2, <3>3, Zenon
  <2>. QED BY <1>5, <2>1, <2>2, Zenon
<1>9. TreeOk'
  <2>1. DOMAIN tree' \subseteq Routes
    BY <1>2, <1>3, <1>5, Zenon DEF TreeOk
  <2>2. IsDir(Root)'
    BY <1>6, Zenon DEF TreeOk, IsDir
  <2>. QED
    BY <1>7, <1>8, <2>1, <2>2, Zenon DEF TreeOk
<1>. QED
  BY <1>1, <1>2, <1>3, <1>4, <1>5, <1>6, <1>9, Zenon DEF IsDir

(* Of an entry that is no directory. *)
LEMMA UnlinkKeepsPaths ==
    ASSUME PathInv, NEW o, RemoveFile(o), UNCHANGED <<mounts, pty_map>>
    PROVE  PathInv'
<1>1. UNCHANGED mounts /\ PtysOk'
  BY DEF PathInv, PtysOk
<1>3. /\ o \in DOMAIN tree /\ tree[o] # "dir" /\ tree' = [f \in DOMAIN tree \ {o} |-> tree[f]]
  BY Zenon DEF RemoveFile
<1>4. DOMAIN tree' = DOMAIN tree \ {o} /\ \A f \in DOMAIN tree' : tree'[f] = tree[f]
  BY <1>3
<1>5. \A f \in Routes : IsDir(f) => IsDir(f)'
  BY <1>3, <1>4, Zenon DEF IsDir
<1>6. TreeOk'
  <2>1. tree' \in [DOMAIN tree' -> {"file", "dir", "link"}]
    <3>1. tree \in [DOMAIN tree -> {"file", "dir", "link"}]
      BY DEF PathInv, TreeOk
    <3>. QED BY <1>3, <3>1
  <2>2. ASSUME NEW f \in DOMAIN tree', NEW k \in 0 .. Len(f) - 1 PROVE IsDir(SubSeq(f, 1, k))'
    <3>1. IsDir(SubSeq(f, 1, k)) /\ SubSeq(f, 1, k) \in Routes
      BY <1>4, Zenon DEF PathInv, TreeOk, IsDir
    <3>. QED BY <1>5, <3>1, Zenon
  <2>3. DOMAIN tree' \subseteq Routes /\ IsDir(Root)'
    BY <1>4, <1>5, Zenon DEF PathInv, TreeOk, IsDir
  <2>. QED
    BY <2>1, <2>2, <2>3, Zenon DEF TreeOk
<1>. QED
  BY <1>1, <1>5, <1>6, MountsStay DEF PathInv

LEMMA NamesOfPath ==
    ASSUME NEW path, NEW n \in Nat, Plain(path, n), n > 0
    PROVE  /\ NamesIn[path] \in Routes /\ Len(NamesIn[path]) = n
           /\ FileName[path] = Last(NamesIn[path])
<1>1. /\ NamesIn[path] \in Routes /\ Len(NamesIn[path]) = n
      /\ \A k \in 1 .. n : NamesIn[path][k] = <<path[2 * k]>>
  BY Zenon DEF Plain
<1>2. n \in 1 .. n
  OBVIOUS
<1>3. FileName[path] = <<path[2 * n]>>
  BY FileNameIs
<1>. QED
  BY <1>1, <1>2, <1>3, Zenon DEF Last

(* vfs_mount mounts where nothing is mounted, and the file that it makes   *)
(* has the names of the mountpoint.                                        *)
Mounted(m, node) ==
    /\ BootMount(m, node) /\ m \notin DOMAIN mounts
    /\ Free(NamesIn[m]) /\ Free(Front(NamesIn[m]))
    /\ \A o \in DOMAIN mounts : ~IsPrefix(NamesIn[m], NamesIn[o])
    /\ Parent(m) = Front(NamesIn[m]) /\ FileName[m] = Last(NamesIn[m])
    /\ Make(Front(NamesIn[m]), Last(NamesIn[m]), "file")
    /\ mounts' = [path \in DOMAIN mounts \cup {m} |-> IF path = m THEN node ELSE mounts[path]]
    /\ UNCHANGED pty_map

(* Directories are no ptys. *)
LEMMA MakeKeepsPtys ==
    ASSUME TreeOk, PtysOk, NEW node, NEW name, NEW kind, Make(node, name, kind), close_fs(node)
    PROVE  UNCHANGED pty_map
<1>1. node \in Routes
  BY Zenon DEF Make, TreeOk
<1>2. node # Pty
  BY <1>1, NodesAre, Zenon DEF NodeFacts
<1>. QED
  BY <1>2 DEF close_fs, PtysOk

LEMMA MountIs ==
    ASSUME PathInv, vfs_mount
    PROVE  /\ NMounts + 1 \in 1 .. Len(BootMounts)
           /\ Mounted(BootMounts[NMounts + 1].path, BootMounts[NMounts + 1].node)
<1>1. /\ MountFacts /\ TreeOk /\ NMounts \in 0 .. Len(BootMounts) /\ NMounts < Len(BootMounts)
      /\ DOMAIN mounts = {BootMounts[i].path : i \in 1 .. NMounts}
  BY MountsAre, Zenon DEF PathInv, MountsOk, vfs_mount
<1>2. Len(BootMounts) \in Nat
  <2>1. BootMounts \in Seq(Range(BootMounts))
    BY VfsAssumption, Zenon
  <2>. QED BY <2>1
<1>3. PICK i \in 1 .. Len(BootMounts) : i = NMounts + 1
  BY <1>1, <1>2
<1>4. \A j \in 1 .. NMounts : j \in 1 .. Len(BootMounts) /\ j # i
  BY <1>1, <1>2, <1>3
<1>5. PICK m : m = BootMounts[i].path
  OBVIOUS
<1>6. PICK node : node = BootMounts[i].node
  OBVIOUS
<1>7. BootMount(m, node)
  BY <1>5, <1>6, BootMountIs, Zenon
<1>8. ASSUME NEW o \in DOMAIN mounts
      PROVE  ~IsPrefix(NamesIn[o], NamesIn[m]) /\ ~IsPrefix(NamesIn[m], NamesIn[o])
  <2>1. PICK j \in 1 .. Len(BootMounts) : o = BootMounts[j].path /\ j # i
    BY <1>1, <1>4, Zenon
  <2>. QED
    BY <1>5, <2>1, BootMountIs, Zenon
<1>9. PICK names \in Routes : names = NamesIn[m] /\ Len(names) > 0 /\ Len(names) \in Nat
  <2>1. NamesIn[m] \in Routes /\ Len(NamesIn[m]) > 0
    BY <1>7, Zenon DEF BootMount
  <2>2. Len(NamesIn[m]) \in Nat
    BY <2>1 DEF Routes
  <2>. QED BY <2>1, <2>2, Zenon
<1>10. Free(names)
  BY <1>8, <1>9, Zenon DEF Free
<1>11. m \notin DOMAIN mounts
  <2>1. IsPrefix(names, names)
    BY <1>9, PrefixOfFront
  <2>. QED BY <1>8, <1>9, <2>1, Zenon
<1>12. Free(Front(names))
  <2>. SUFFICES ASSUME NEW o \in DOMAIN mounts, IsPrefix(NamesIn[o], Front(names)) PROVE FALSE
    BY Zenon DEF Free
  <2>1. NamesIn[o] \in Routes
    BY <1>1, Zenon DEF MountFacts, BootMount
  <2>2. IsPrefix(NamesIn[o], names)
    BY <1>9, <2>1, PrefixOfFront
  <2>. QED
    BY <1>10, <2>2, Zenon DEF Free
<1>13. /\ Make(Parent(m), FileName[m], "file") /\ close_fs(Parent(m))
       /\ mounts' = [path \in DOMAIN mounts \cup {m} |-> IF path = m THEN node ELSE mounts[path]]
  BY <1>3, <1>5, <1>6, Zenon DEF vfs_mount, create_file
<1>17. UNCHANGED pty_map
  <2>1. PtysOk
    BY DEF PathInv
  <2>. QED
    BY <1>1, <1>13, <2>1, MakeKeepsPtys
<1>14. Plain(m, Len(names)) /\ Parent(m) = Meaning(Front(names)) /\ FileName[m] = Last(names)
  <2>1. Plain(m, Len(names))
    BY <1>7, <1>9, Zenon DEF BootMount
  <2>. QED
    BY <1>9, <2>1, KopenIs, NamesOfPath, Zenon
<1>15. Parent(m) = Front(names)
  <2>1. Meaning(Front(names)) \in DOMAIN tree
    BY <1>13, <1>14, Zenon DEF Make
  <2>2. Null \notin DOMAIN tree
    BY <1>1, NodesAre, Zenon DEF NodeFacts, TreeOk
  <2>. QED
    BY <1>12, <1>14, <2>1, <2>2, MeaningFree, Zenon
<1>16. Mounted(m, node)
  BY <1>7, <1>8, <1>9, <1>10, <1>11, <1>12, <1>13, <1>14, <1>15, <1>17, Zenon DEF Mounted
<1>. QED
  BY <1>3, <1>5, <1>6, <1>16, Zenon

LEMMA MountKeeps ==
    ASSUME PathInv, vfs_mount
    PROVE  PathInv'
<1>1. PICK i \in 1 .. Len(BootMounts) :
        i = NMounts + 1 /\ Mounted(BootMounts[i].path, BootMounts[i].node)
  BY MountIs, Zenon
<1>2. PICK m : m = BootMounts[i].path
  OBVIOUS
<1>3. PICK node : node = BootMounts[i].node
  OBVIOUS
<1>4. PICK names \in Routes : names = NamesIn[m] /\ Len(names) > 0
  BY <1>1, <1>2, Zenon DEF Mounted, BootMount
<1>5. /\ m \notin DOMAIN mounts /\ Make(Front(names), Last(names), "file") /\ Last(names) \in Strings
      /\ mounts' = [path \in DOMAIN mounts \cup {m} |-> IF path = m THEN node ELSE mounts[path]]
      /\ Append(Front(names), Last(names)) = names
  BY <1>1, <1>2, <1>3, <1>4, FrontIs, Zenon DEF Mounted
<1>6. TreeOk' /\ (\A f \in Routes : IsDir(f) => IsDir(f)') /\ IsDir(Front(names))
      /\ names \in DOMAIN tree'
  BY <1>5, MakeKeepsTree, Zenon DEF PathInv
<1>7. /\ IsFiniteSet(DOMAIN mounts) /\ NMounts \in Nat
      /\ DOMAIN mounts = {BootMounts[j].path : j \in 1 .. NMounts}
  BY DEF PathInv, MountsOk
<1>8. DOMAIN mounts' = DOMAIN mounts \cup {m} /\ mounts'[m] = node
      /\ \A o \in DOMAIN mounts : mounts'[o] = mounts[o]
  BY <1>5
<1>9. IsFiniteSet(DOMAIN mounts') /\ NMounts' = NMounts + 1
  BY <1>5, <1>7, <1>8, FS_AddElement, Zenon DEF NMounts
<1>10. /\ NMounts' \in 0 .. Len(BootMounts) /\ NMounts' = i
       /\ \A j \in 1 .. i : j # i => j \in 1 .. NMounts
       /\ \A j \in 1 .. NMounts : j \in 1 .. i
       /\ i \in 1 .. i
  BY <1>1, <1>7, <1>9
<1>11. DOMAIN mounts' = {BootMounts[j].path : j \in 1 .. i}
  BY <1>2, <1>7, <1>8, <1>10, Zenon
<1>12. ASSUME NEW j \in 1 .. i
       PROVE  /\ mounts'[BootMounts[j].path] = BootMounts[j].node
              /\ \A k \in 0 .. Len(NamesIn[BootMounts[j].path]) - 1 :
                    IsDir(SubSeq(NamesIn[BootMounts[j].path], 1, k))'
  <2>1. CASE j = i
    <3>1. mounts'[BootMounts[j].path] = BootMounts[j].node
      BY <1>2, <1>3, <1>8, <2>1, Zenon
    <3>2. ASSUME NEW k \in 0 .. Len(names) - 1 PROVE IsDir(SubSeq(names, 1, k))'
      BY <1>6, Zenon DEF TreeOk
    <3>. QED BY <1>2, <1>4, <2>1, <3>1, <3>2, Zenon
  <2>2. CASE j # i
    <3>1. j \in 1 .. NMounts
      BY <1>10, <2>2, Zenon
    <3>2. BootMounts[j].path \in DOMAIN mounts /\ mounts[BootMounts[j].path] = BootMounts[j].node
      BY <3>1, Zenon DEF PathInv, MountsOk
    <3>3. PICK s \in Routes : s = NamesIn[BootMounts[j].path]
      BY <3>2, MountsAre, Zenon DEF PathInv, MountFacts, BootMount
    <3>4. ASSUME NEW k \in 0 .. Len(s) - 1 PROVE IsDir(SubSeq(s, 1, k))'
      <4>1. IsDir(SubSeq(s, 1, k))
        BY <3>1, <3>3, Zenon DEF PathInv, MountsOk
      <4>2. SubSeq(s, 1, k) \in Routes
        <5>1. SubSeq(s, 1, k) \in DOMAIN tree
          BY <4>1, Zenon DEF IsDir
        <5>. QED BY <5>1, Zenon DEF PathInv, TreeOk
      <4>. QED BY <1>6, <4>1, <4>2, Zenon
    <3>. QED
      BY <1>8, <3>2, <3>3, <3>4, Zenon
  <2>. QED BY <2>1, <2>2, Zenon
<1>13. MountsOk'
  BY <1>9, <1>10, <1>11, <1>12, Zenon DEF MountsOk
<1>14. PtysOk'
  BY <1>1 DEF Mounted, PathInv, PtysOk
<1>. QED
  BY <1>6, <1>13, <1>14 DEF PathInv

(* Files, directories and links that processes make. *)
Made(path) == \E kind \in {"file", "dir", "link"} : Make(Parent(path), FileName[path], kind)

(* A call closes a pty, and that is all it does. *)
PtyGoes == UNCHANGED <<tree, mounts>> /\ pty_map' = pty_map \ {Pty}

LEMMA CallsMake ==
    ASSUME PathInv, NEW path, OpenNew(path) \/ mkdir(path) \/ symlink(path)
    PROVE  (Made(path) /\ UNCHANGED <<mounts, pty_map>>) \/ PtyGoes
<1>. DEFINE node == Parent(path)
<1>1. Made(path) \/ Refused(node)
  BY Zenon DEF OpenNew, create_file, mkdir, symlink, Made
<1>2. UNCHANGED mounts /\ close_fs(node)
  BY Zenon DEF OpenNew, create_file, mkdir, symlink
<1>3. CASE Made(path)
  <2>1. PICK kind \in {"file", "dir", "link"} : Make(node, FileName[path], kind)
    BY <1>3, Zenon DEF Made
  <2>2. UNCHANGED pty_map
    BY <1>2, <2>1, MakeKeepsPtys DEF PathInv
  <2>. QED BY <1>2, <1>3, <2>2
<1>4. CASE Refused(node)
  <2>1. node = Pty /\ UNCHANGED tree
    BY <1>4, Zenon DEF Refused
  <2>2. pty_map' = pty_map \ {Pty}
    BY <1>2, <2>1, Zenon DEF close_fs
  <2>. QED BY <1>2, <2>1, <2>2, Zenon DEF PtyGoes
<1>. QED
  BY <1>1, <1>3, <1>4

LEMMA CallsRemove ==
    ASSUME PathInv, NEW path, unlink(path)
    PROVE  \/ \E old : RemoveFile(old) /\ UNCHANGED <<mounts, pty_map>>
           \/ PtyGoes
<1>. DEFINE node == Parent(path)
            old == finddir(node, FileName[path])
<1>1. (RemoveFile(old) \/ Refused(node)) /\ UNCHANGED mounts /\ close_fs(node)
  BY Zenon DEF unlink
<1>2. CASE RemoveFile(old)
  <2>1. old \in Routes
    BY <1>2, Zenon DEF RemoveFile, PathInv, TreeOk
  <2>2. node # Pty
    <3>. SUFFICES ASSUME node = Pty PROVE FALSE
      OBVIOUS
    <3>1. Pty \notin DOMAIN tree /\ Pty # PtyDir
      BY NodesAre, Zenon DEF NodeFacts, PathInv, TreeOk
    <3>2. finddir(Pty, FileName[path]) = Null
      BY <3>1, Zenon DEF finddir
    <3>. QED BY <2>1, <3>2, NodesAre, Zenon DEF NodeFacts
  <2>3. UNCHANGED pty_map
    <3>. HIDE DEF node
    <3>. QED BY <1>1, <2>2 DEF close_fs, PathInv, PtysOk
  <2>. QED BY <1>1, <1>2, <2>3, Zenon
<1>3. CASE Refused(node)
  <2>1. node = Pty /\ UNCHANGED tree
    BY <1>3, Zenon DEF Refused
  <2>2. pty_map' = pty_map \ {Pty}
    BY <1>1, <2>1, Zenon DEF close_fs
  <2>. QED BY <1>1, <2>1, <2>2, Zenon DEF PtyGoes
<1>. QED
  BY <1>1, <1>2, <1>3

LEMMA ClosesPty ==
    ASSUME NEW path, Close(path)
    PROVE  PtyGoes
BY Zenon DEF Close, close_fs, PtyGoes

LEMMA MadeKeeps ==
    ASSUME PathInv, NEW path \in Paths, Made(path), UNCHANGED <<mounts, pty_map>>
    PROVE  PathInv'
<1>1. PICK kind \in {"file", "dir", "link"} : Make(Parent(path), FileName[path], kind)
  BY Zenon DEF Made
<1>2. FileName[path] \in Strings
  BY FileNameIsString
<1>3. TreeOk' /\ \A f \in Routes : IsDir(f) => IsDir(f)'
  BY <1>1, <1>2, MakeKeepsTree, Zenon DEF PathInv
<1>4. UNCHANGED mounts /\ PtysOk'
  BY DEF PathInv, PtysOk
<1>. QED
  BY <1>3, <1>4, MountsStay DEF PathInv

(* What no pty has to do with. *)
LEMMA NamesKeep ==
    ASSUME PathInv, UNCHANGED <<tree, mounts>>, PtysOk'
    PROVE  PathInv'
BY DEF PathInv, TreeOk, MountsOk, IsDir, NMounts

LEMMA PathsKeep == PathInv /\ [VfsNext]_vfsvars => PathInv'
<1>. SUFFICES ASSUME PathInv, [VfsNext]_vfsvars PROVE PathInv'
  OBVIOUS
<1>1. CASE vfs_mount
  BY <1>1, MountKeeps
<1>2. CASE PtyGoes
  <2>1. PtysOk' /\ UNCHANGED <<tree, mounts>>
    BY <1>2 DEF PtyGoes, PathInv, PtysOk
  <2>. QED BY <2>1, NamesKeep
<1>3. ASSUME NEW path \in Paths, OpenNew(path) \/ mkdir(path) \/ symlink(path) PROVE PathInv'
  BY <1>2, <1>3, CallsMake, MadeKeeps
<1>4. ASSUME NEW path \in Paths, unlink(path) PROVE PathInv'
  BY <1>2, <1>4, CallsRemove, UnlinkKeepsPaths
<1>5. ASSUME NEW path \in Paths, Close(path) PROVE PathInv'
  BY <1>2, <1>5, ClosesPty
<1>6. CASE UNCHANGED vfsvars
  <2>1. PtysOk' /\ UNCHANGED <<tree, mounts>>
    BY <1>6 DEF vfsvars, PathInv, PtysOk
  <2>. QED BY <2>1, NamesKeep
<1>. QED
  BY <1>1, <1>3, <1>4, <1>5, <1>6, Zenon DEF VfsNext

LEMMA PathsInvariant == VfsSpec => []PathInv
BY VfsStarts, PathsKeep, PTL DEF VfsSpec

(* Every plain spelling of a path leads where its names lead: _kopen, which *)
(* goes over the characters, cuts the string at slashes and compares what   *)
(* it has cut off with the mountpoints, agrees with the tree.               *)
THEOREM PathsLead == VfsSpec => []PathsMeanNames
BY PathsInvariant, MeansAll, PTL

-----------------------------------------------------------------------------
(* What was made is found *)

(* Only files are known by their names. *)
LEMMA OwnMeaning ==
    ASSUME PathInv, NEW names \in Routes, Meaning(names) \in Routes
    PROVE  Free(names) /\ Meaning(names) = names /\ names \in DOMAIN tree
<1>1. Free(names)
  <2>. SUFFICES ASSUME NEW m \in DOMAIN mounts, IsPrefix(NamesIn[m], names) PROVE FALSE
    BY Zenon DEF Free
  <2>1. mounts[m] \notin Routes
    BY MountsAre, Zenon DEF PathInv, MountFacts, BootMount
  <2>. QED
    BY <2>1, MeaningOver, NodesAre, Zenon DEF NodeFacts
<1>. QED
  BY <1>1, MeaningFree, NodesAre, Zenon DEF NodeFacts

(* Processes add one name to the tree, at the end of a directory. *)
LEMMA MadeIs ==
    ASSUME PathInv, NEW call \in Paths, Made(call)
    PROVE  \E names \in Routes :
              /\ Len(names) > 0 /\ names \notin DOMAIN tree
              /\ DOMAIN tree' = DOMAIN tree \cup {names}
              /\ tree'[names] \in {"file", "dir", "link"}
              /\ \A f \in DOMAIN tree : tree'[f] = tree[f]
              /\ IsDir(Front(names))
<1>1. PICK kind \in {"file", "dir", "link"} : Make(Parent(call), FileName[call], kind)
  BY Zenon DEF Made
<1>2. PICK node, name : node = Parent(call) /\ name = FileName[call]
  OBVIOUS
<1>3. name \in Strings /\ Make(node, name, kind) /\ TreeOk
  BY <1>1, <1>2, FileNameIsString, Zenon DEF PathInv
<1>. QED
  BY <1>3, MakeKeepsTree, Zenon

(* kmain adds the file that it mounts something on. *)
LEMMA MountedIs ==
    ASSUME PathInv, vfs_mount
    PROVE  \E m : \E node \in Devices :
              /\ Mounted(m, node) /\ NamesIn[m] \in Routes /\ Len(NamesIn[m]) > 0
              /\ NamesIn[m] \notin DOMAIN tree /\ DOMAIN tree' = DOMAIN tree \cup {NamesIn[m]}
              /\ \A f \in DOMAIN tree : tree'[f] = tree[f]
              /\ IsDir(Front(NamesIn[m])) /\ node \notin Routes /\ node # Null /\ m \in PlainPaths
<1>1. PICK m, node : Mounted(m, node)
  BY MountIs, Zenon
<1>2. PICK names : names = NamesIn[m]
  OBVIOUS
<1>3. /\ names \in Routes /\ Len(names) > 0 /\ node \in Devices /\ node \notin Routes /\ node # Null
      /\ Make(Front(names), Last(names), "file") /\ m \in PlainPaths
  BY <1>1, <1>2, Zenon DEF Mounted, BootMount
<1>4. Append(Front(names), Last(names)) = names /\ Last(names) \in Strings
  BY <1>3, FrontIs, Zenon
<1>5. /\ names \notin DOMAIN tree /\ DOMAIN tree' = DOMAIN tree \cup {names}
      /\ \A f \in DOMAIN tree : tree'[f] = tree[f]
      /\ IsDir(Front(names))
  BY <1>3, <1>4, MakeKeepsTree, Zenon DEF PathInv
<1>. QED
  BY <1>1, <1>2, <1>3, <1>5, Zenon

LEMMA MadeIsFound ==
    ASSUME PathInv, PathInv', NEW call \in Paths, Made(call), UNCHANGED <<mounts, pty_map>>,
           NEW new \in DOMAIN tree', new \notin DOMAIN tree, NEW path \in PlainPaths,
           FileName[path] = Last(new), Parent(path) = Front(new), kopen(path) = Null
    PROVE  kopen(path)' = new \/ new \in {NamesIn[m] : m \in DOMAIN mounts'}
<1>1. PICK n \in Nat : Plain(path, n)
  BY PlainIs
<1>2. /\ new \in Routes /\ Len(new) > 0 /\ new \notin DOMAIN tree /\ Front(new) \in Routes
      /\ Append(Front(new), Last(new)) = new
  BY MadeIs, FrontIs, Zenon
<1>3. PICK names \in Routes : names = NamesIn[path] /\ Len(names) = n
  BY <1>1, Zenon DEF Plain
<1>4. kopen(path) = Meaning(names) /\ kopen(path)' = Meaning(names)'
  <2>1. kopen(path) = Meaning(NamesIn[path])
    BY <1>1, KopenIs
  <2>2. PathsMeanNames'
    BY MeansAll, PTL
  <2>3. kopen(path)' = Meaning(NamesIn[path])'
    BY <2>2 DEF PathsMeanNames
  <2>. QED BY <1>3, <2>1, <2>3
<1>5. n > 0
  <2>. SUFFICES ASSUME n = 0 PROVE FALSE
    OBVIOUS
  <2>1. names = <<>>
    BY <1>3 DEF Routes
  <2>2. Root \in Routes
    BY DEF Root, Routes
  <2>. QED
    BY <1>4, <2>1, <2>2, RootMeansRoot, NodesAre, Zenon DEF NodeFacts
<1>6. Meaning(Front(names)) = Front(new) /\ Last(names) = Last(new)
  BY <1>1, <1>3, <1>5, KopenIs, NamesOfPath, Zenon
<1>7. Front(names) \in Routes /\ Append(Front(names), Last(names)) = names
  BY <1>3, <1>5, FrontIs, Zenon
<1>8. Free(Front(names)) /\ Front(names) = Front(new)
  BY <1>2, <1>6, <1>7, OwnMeaning, Zenon
<1>9. new = names
  BY <1>2, <1>6, <1>7, <1>8, Zenon
<1>10. DOMAIN mounts' = DOMAIN mounts
  OBVIOUS
<1>11. CASE \E m \in DOMAIN mounts' : NamesIn[m] = names
  BY <1>9, <1>11, Zenon
<1>12. CASE \A m \in DOMAIN mounts' : NamesIn[m] # names
  <2>1. ASSUME NEW m \in DOMAIN mounts', IsPrefix(NamesIn[m], names) PROVE FALSE
    <3>1. m \in DOMAIN mounts /\ NamesIn[m] \in Routes /\ NamesIn[m] # names
      BY <1>10, <1>12, MountsAre, Zenon DEF PathInv, MountFacts, BootMount
    <3>2. /\ IsPrefix(NamesIn[m], Front(names)) <=> IsPrefix(NamesIn[m], names) /\ Len(NamesIn[m]) < Len(names)
          /\ IsPrefix(NamesIn[m], names) /\ Len(NamesIn[m]) = Len(names) <=> NamesIn[m] = names
      <4>1. Len(names) > 0
        BY <1>3, <1>5, Zenon
      <4>. QED BY <3>1, <4>1, PrefixOfFront
    <3>3. Len(NamesIn[m]) <= Len(names) /\ Len(NamesIn[m]) # Len(names)
      BY <2>1, <3>1, <3>2, Zenon DEF IsPrefix
    <3>4. Len(NamesIn[m]) \in Nat /\ Len(names) \in Nat
      BY <3>1 DEF Routes
    <3>5. Len(NamesIn[m]) < Len(names)
      BY <3>3, <3>4
    <3>. QED
      BY <1>8, <2>1, <3>1, <3>2, <3>5, Zenon DEF Free
  <2>2. {m \in DOMAIN mounts' : IsPrefix(NamesIn[m], names)} = {}
    BY <2>1, Zenon
  <2>3. Meaning(names)' = IF names \in DOMAIN tree' THEN names ELSE Null
    BY <2>2, Zenon DEF Meaning
  <2>. QED
    BY <1>4, <1>9, <2>3, Zenon
<1>. QED
  BY <1>11, <1>12, Zenon

LEMMA StepFinds ==
    ASSUME PathInv, PathInv', [VfsNext]_vfsvars,
           NEW new \in DOMAIN tree' \ DOMAIN tree, NEW path \in PlainPaths,
           FileName[path] = Last(new), Parent(path) = Front(new), kopen(path) = Null
    PROVE  kopen(path)' = new \/ new \in {NamesIn[m] : m \in DOMAIN mounts'}
<1>1. CASE vfs_mount
  <2>1. PICK m : /\ m \in DOMAIN mounts' /\ DOMAIN tree' = DOMAIN tree \cup {NamesIn[m]}
    <3>1. PICK m, node : /\ Mounted(m, node) /\ DOMAIN tree' = DOMAIN tree \cup {NamesIn[m]}
      BY <1>1, MountedIs, Zenon
    <3>2. mounts' = [p \in DOMAIN mounts \cup {m} |-> IF p = m THEN node ELSE mounts[p]]
      BY <3>1, Zenon DEF Mounted
    <3>3. m \in DOMAIN mounts'
      BY <3>2
    <3>. QED BY <3>1, <3>3, Zenon
  <2>. QED
    BY <2>1, Zenon
<1>2. CASE PtyGoes \/ UNCHANGED vfsvars
  <2>1. tree' = tree
    BY <1>2 DEF PtyGoes, vfsvars
  <2>. QED BY <2>1
<1>3. ASSUME NEW call \in Paths, OpenNew(call) \/ mkdir(call) \/ symlink(call)
      PROVE  kopen(path)' = new \/ new \in {NamesIn[m] : m \in DOMAIN mounts'}
  <2>1. CASE Made(call) /\ UNCHANGED <<mounts, pty_map>>
    BY <2>1, MadeIsFound
  <2>. QED
    BY <1>2, <1>3, <2>1, CallsMake
<1>4. ASSUME NEW call \in Paths, unlink(call)
      PROVE  kopen(path)' = new \/ new \in {NamesIn[m] : m \in DOMAIN mounts'}
  <2>1. ASSUME NEW old, RemoveFile(old) PROVE FALSE
    <3>1. DOMAIN tree' = DOMAIN tree \ {old}
      BY <2>1 DEF RemoveFile
    <3>. QED BY <3>1
  <2>. QED
    BY <1>2, <1>4, <2>1, CallsRemove
<1>5. ASSUME NEW call \in Paths, Close(call)
      PROVE  kopen(path)' = new \/ new \in {NamesIn[m] : m \in DOMAIN mounts'}
  BY <1>2, <1>5, ClosesPty
<1>. QED
  BY <1>1, <1>2, <1>3, <1>4, <1>5, Zenon DEF VfsNext

(* What a call makes is found where the same string leads: kopen, its      *)
(* parent mode and the file name that create_file takes from the string    *)
(* agree, through whatever is mounted.                                     *)
THEOREM MadeFilesAreFound == VfsSpec => CreatedIsFound
<1>1. PathInv /\ PathInv' /\ [VfsNext]_vfsvars =>
        [\A new \in DOMAIN tree' \ DOMAIN tree : \A path \in PlainPaths :
            /\ FileName[path] = Last(new) /\ Parent(path) = Front(new)
            /\ kopen(path) = Null
            => kopen(path)' = new \/ new \in {NamesIn[m] : m \in DOMAIN mounts'}]_vfsvars
  BY StepFinds
<1>. QED
  BY <1>1, PathsInvariant, PTL DEF VfsSpec, CreatedIsFound

-----------------------------------------------------------------------------
(* Routes seen from outside *)

Spelled == DOMAIN Spelling
View == [names \in DOMAIN Spelling |-> Kind[kopen(Spelling[names])]]

LEMMA SpelledIs ==
    ASSUME NEW names \in Spelled
    PROVE  /\ names \in Routes /\ Spelling[names] \in PlainPaths
           /\ NamesIn[Spelling[names]] = names
<1>1. PICK path \in PlainPaths : NamesIn[path] = names
  BY Zenon DEF Spelled, Spelling
<1>2. names \in Routes
  BY <1>1, PlainIs, Zenon DEF Plain
<1>3. Spelling[names] = CHOOSE p \in PlainPaths : NamesIn[p] = names
  BY Zenon DEF Spelled, Spelling
<1>. QED
  BY <1>1, <1>2, <1>3, Zenon

LEMMA SpelledHas ==
    ASSUME NEW path \in PlainPaths
    PROVE  NamesIn[path] \in Spelled
BY Zenon DEF Spelled, Spelling

(* A path up to the slash before its last name. *)
LEMMA FrontSpelled ==
    ASSUME NEW names \in Spelled, Len(names) > 0
    PROVE  Front(names) \in Spelled
<1>1. PICK path \in PlainPaths : path = Spelling[names] /\ NamesIn[path] = names /\ names \in Routes
  BY SpelledIs, Zenon
<1>2. PICK n \in Nat : Plain(path, n)
  BY PlainIs
<1>3. /\ n > 0 /\ Len(names) = n /\ path \in Seq(Chars) /\ 2 * n <= Len(path)
      /\ \A i \in 1 .. 2 * n : path[i] = Slash <=> i % 2 = 1
      /\ \A j \in 1 .. n : names[j] = <<path[2 * j]>>
      /\ path \in Paths /\ path[1] = Slash /\ names \in Seq(Strings)
  <2>1. Len(names) = n /\ path \in Seq(Chars) /\ names \in Seq(Strings)
    BY <1>1, <1>2, Zenon DEF Plain, Strings, Chars, Routes
  <2>2. n > 0
    BY <2>1
  <2>. QED BY <1>1, <1>2, <2>1, <2>2, Zenon DEF Plain
<1>4. Len(path) \in Nat /\ 2 * n - 1 \in 1 .. Len(path) /\ 2 * n - 2 \in Nat
  BY <1>3
<1>5. PICK q : q = SubSeq(path, 1, 2 * n - 1)
  OBVIOUS
<1>6. q \in Seq(Chars) /\ Len(q) = 2 * n - 1 /\ \A i \in 1 .. 2 * n - 1 : q[i] = path[i]
  <2>1. path \in Seq(Chars)
    BY <1>3, Zenon
  <2>2. PICK l \in 1 .. Len(path) : l = 2 * n - 1
    BY <1>4, Zenon
  <2>3. q = SubSeq(path, 1, l)
    BY <1>5, <2>2, Zenon
  <2>4. q \in Seq(Chars) /\ Len(q) = l /\ \A i \in 1 .. l : q[i] = path[i]
    BY <2>1, <2>3
  <2>. QED BY <2>2, <2>4, Zenon
<1>7. q \in Paths
  <2>1. MaxPath \in Nat /\ path \in BoundedSeq(Chars, MaxPath)
        /\ \A i \in 2 .. Len(path) : path[i] = Slash \/ path[i-1] = Slash
    BY <1>3, VfsAssumption, Zenon DEF Paths, Chars
  <2>2. Len(path) <= MaxPath
    BY <2>1, BoundedIs
  <2>3. q \in BoundedSeq(Chars, MaxPath)
    <3>1. Len(q) <= MaxPath
      BY <1>4, <1>6, <2>1, <2>2
    <3>. QED BY <1>6, <2>1, <3>1, BoundedIs
  <2>4. ASSUME NEW i \in 2 .. Len(q) PROVE q[i] = Slash \/ q[i-1] = Slash
    <3>1. i \in 2 .. Len(path) /\ i \in 1 .. 2 * n - 1 /\ i - 1 \in 1 .. 2 * n - 1
      BY <1>4, <1>6
    <3>. QED BY <1>6, <2>1, <3>1, Zenon
  <2>. QED
    BY <2>3, <2>4, Zenon DEF Paths, Chars
<1>8. Trimmed(q) = SubSeq(q, 1, 2 * n - 2) /\ Len(Trimmed(q)) = 2 * n - 2
  <2>1. EndsAt(q, 2 * n - 2)
    <3>1. q[2 * n - 1] = Slash
      <4>1. 2 * n - 1 \in 1 .. 2 * n - 1 /\ 2 * n - 1 \in 1 .. 2 * n /\ (2 * n - 1) % 2 = 1
        BY <1>3
      <4>. QED BY <1>3, <1>6, <4>1, Zenon
    <3>2. ASSUME 2 * n - 2 > 0 PROVE q[2 * n - 2] # Slash
      <4>1. 2 * n - 2 \in 1 .. 2 * n - 1 /\ 2 * n - 2 \in 1 .. 2 * n /\ (2 * n - 2) % 2 # 1
        BY <1>3, <3>2
      <4>. QED BY <1>3, <1>6, <4>1, Zenon
    <3>3. \A i \in (2 * n - 2) + 1 .. Len(q) : i = 2 * n - 1
      BY <1>6
    <3>4. 2 * n - 2 \in 0 .. Len(q)
      BY <1>4, <1>6
    <3>. QED BY <3>1, <3>2, <3>3, <3>4, Zenon DEF EndsAt
  <2>2. q \in Strings
    BY <1>6, Zenon DEF Strings, Chars
  <2>3. PICK e \in 0 .. Len(q) : EndsAt(q, e) /\ Trimmed(q) = SubSeq(q, 1, e)
    BY <2>2, TrimmedIs
  <2>4. e = 2 * n - 2
    <3>1. e \in Nat
      BY <1>6
    <3>. QED BY <1>4, <2>1, <2>2, <2>3, <3>1, EndIsOne
  <2>5. Len(SubSeq(q, 1, e)) = e
    BY <1>6
  <2>. QED BY <2>3, <2>4, <2>5, Zenon
<1>9. q \in PlainPaths
  <2>1. q # <<>> /\ q[1] = Slash
    <3>1. 1 \in 1 .. 2 * n - 1 /\ Len(q) > 0
      BY <1>4, <1>6
    <3>. QED BY <1>3, <1>6, <3>1
  <2>2. ASSUME NEW i \in 1 .. Len(Trimmed(q)) PROVE q[i] = Slash <=> i % 2 = 1
    <3>1. i \in 1 .. 2 * n - 1 /\ i \in 1 .. 2 * n
      BY <1>8
    <3>. QED BY <1>3, <1>6, <3>1, Zenon
  <2>. QED BY <1>7, <2>1, <2>2, Zenon DEF PlainPaths
<1>10. PICK k \in Nat : Plain(q, k)
  BY <1>9, PlainIs
<1>11. k = n - 1
  <2>1. Trimmed(q) = SubSeq(q, 1, 2 * k) /\ 2 * k <= Len(q)
    BY <1>10, Zenon DEF Plain
  <2>2. Len(SubSeq(q, 1, 2 * k)) = 2 * k
    BY <1>6, <2>1
  <2>3. 2 * k = 2 * n - 2
    BY <1>8, <2>1, <2>2, Zenon
  <2>. QED BY <2>3
<1>12. NamesIn[q] = Front(names)
  <2>1. /\ NamesIn[q] \in Seq(Strings) /\ Len(NamesIn[q]) = k
        /\ \A j \in 1 .. k : NamesIn[q][j] = <<q[2 * j]>>
    BY <1>10, Zenon DEF Plain, Routes
  <2>2. /\ Front(names) \in Seq(Strings) /\ Len(Front(names)) = n - 1
        /\ \A j \in 1 .. n - 1 : Front(names)[j] = names[j]
    BY <1>1, <1>3, FrontIs, Zenon DEF Routes
  <2>3. ASSUME NEW j \in 1 .. k PROVE NamesIn[q][j] = Front(names)[j]
    <3>1. j \in 1 .. n - 1 /\ j \in 1 .. n /\ 2 * j \in 1 .. 2 * n - 1
      BY <1>11
    <3>. QED BY <1>3, <1>6, <2>1, <2>2, <3>1, Zenon
  <2>. QED
    BY <1>11, <2>1, <2>2, <2>3, SeqEqual
<1>. QED
  BY <1>9, <1>12, SpelledHas

LEMMA RootSpelled == Root \in Spelled
<1>1. PICK s \in Seq(Chars) : s = <<Slash>>
  <2>1. Slash \in Chars
    BY DEF Chars
  <2>2. <<Slash>> \in Seq(Chars)
    BY <2>1
  <2>. QED BY <2>2
<1>2. Len(s) = 1 /\ s[1] = Slash
  BY <1>1
<1>3. s \in Paths
  <2>1. MaxPath \in Nat /\ Len(s) <= MaxPath
    BY <1>2, VfsAssumption
  <2>2. s \in BoundedSeq(Chars, MaxPath)
    BY <2>1, BoundedIs
  <2>3. \A i \in 2 .. Len(s) : FALSE
    BY <1>2
  <2>. QED BY <2>2, <2>3, Zenon DEF Paths, Chars
<1>4. Trimmed(s) = <<>>
  <2>1. {i \in DOMAIN s : s[i] # Slash} = {}
    BY <1>2
  <2>. QED BY <2>1, Zenon DEF Trimmed
<1>5. s \in PlainPaths
  <2>1. \A i \in 1 .. Len(Trimmed(s)) : FALSE
    BY <1>4
  <2>2. Len(<<>>) # 1
    OBVIOUS
  <2>3. s # <<>>
    BY <1>2, <2>2, Zenon
  <2>. QED BY <1>2, <1>3, <2>1, <2>3, Zenon DEF PlainPaths
<1>6. PICK k \in Nat : Plain(s, k)
  BY <1>5, PlainIs
<1>7. 2 * k <= Len(s) /\ NamesIn[s] \in Seq(Strings) /\ Len(NamesIn[s]) = k
  BY <1>6, Zenon DEF Plain, Routes
<1>8. NamesIn[s] = <<>>
  BY <1>2, <1>7
<1>. QED
  BY <1>5, <1>8, SpelledHas, Zenon DEF Root

(* What names lead to: a file is seen by its kind. *)
Shows(names) ==
    IF Free(names) THEN IF names \in DOMAIN tree THEN tree[names] ELSE Null ELSE Meaning(names)

ViewIsShown == View = [names \in Spelled |-> Shows(names)]

LEMMA ViewIs == PathInv => ViewIsShown
<1>. SUFFICES ASSUME PathInv, NEW names \in Spelled
              PROVE  Kind[kopen(Spelling[names])] = Shows(names)
  BY Zenon DEF ViewIsShown, View, Spelled
<1>1. names \in Routes /\ kopen(Spelling[names]) = Meaning(names)
  BY SpelledIs, MeansAll, Zenon DEF PathsMeanNames
<1>2. Kind[Meaning(names)] = IF Meaning(names) \in DOMAIN tree THEN tree[Meaning(names)]
                             ELSE Meaning(names)
  BY <1>1, MeaningIsNode, Zenon DEF Kind
<1>3. Null \notin DOMAIN tree
  BY NodesAre, Zenon DEF NodeFacts, PathInv, TreeOk
<1>4. CASE Free(names)
  BY <1>1, <1>2, <1>3, <1>4, MeaningFree, Zenon DEF Shows
<1>5. CASE ~Free(names)
  <2>1. Meaning(names) \notin Routes
    BY <1>1, <1>5, OwnMeaning, Zenon
  <2>2. Meaning(names) \notin DOMAIN tree
    BY <2>1, Zenon DEF PathInv, TreeOk
  <2>. QED
    BY <1>1, <1>2, <1>5, <2>2, Zenon DEF Shows
<1>. QED
  BY <1>4, <1>5

(* What node, mounted at depth names, makes of names, before and after a   *)
(* step.                                                                   *)
Behind(names, depth, node) ==
    IF Len(names) = depth THEN node
    ELSE IF node = PtyDir /\ Len(names) = depth + 1 /\ Last(names) \in Listed THEN Pty ELSE Null

OverMeans ==
    \A names \in Routes : \A m \in DOMAIN mounts :
        IsPrefix(NamesIn[m], names) => Meaning(names) = Behind(names, Len(NamesIn[m]), mounts[m])

LEMMA MeansOver == PathInv => OverMeans
BY MeaningOver, Zenon DEF OverMeans, Behind

(* What is behind a mountpoint stays while that is mounted. *)
LEMMA MeaningStays ==
    ASSUME PathInv, PathInv', NEW names \in Routes, NEW m \in DOMAIN mounts,
           IsPrefix(NamesIn[m], names), m \in DOMAIN mounts', mounts'[m] = mounts[m],
           UNCHANGED pty_map
    PROVE  Meaning(names)' = Meaning(names)
<1>1. OverMeans
  BY MeansOver
<1>2. OverMeans'
  BY MeansOver, PTL
<1>3. Meaning(names) = Behind(names, Len(NamesIn[m]), mounts[m])
  BY <1>1, Zenon DEF OverMeans
<1>4. Meaning(names)' = Behind(names, Len(NamesIn[m]), mounts[m])'
  BY <1>2, Zenon DEF OverMeans
<1>5. Listed' = Listed
  BY DEF Listed
<1>6. Behind(names, Len(NamesIn[m]), mounts[m])' = Behind(names, Len(NamesIn[m]), mounts[m])
  BY <1>5, Zenon DEF Behind
<1>. QED
  BY <1>3, <1>4, <1>6, Zenon

LEMMA FreeStays ==
    ASSUME NEW names, UNCHANGED mounts
    PROVE  Free(names)' <=> Free(names)
BY Zenon DEF Free

(* All names but one show what they did. *)
LEMMA ShowsOthers ==
    ASSUME PathInv, PathInv', NEW a, UNCHANGED <<mounts, pty_map>>,
           \A f : f # a => (f \in DOMAIN tree' <=> f \in DOMAIN tree),
           \A f \in DOMAIN tree : f # a => tree'[f] = tree[f],
           NEW names \in Routes, names # a \/ ~Free(names)
    PROVE  Shows(names)' = Shows(names)
<1>1. Free(names)' <=> Free(names)
  BY FreeStays
<1>2. CASE Free(names)
  BY <1>1, <1>2, Zenon DEF Shows
<1>3. CASE ~Free(names)
  <2>1. PICK m \in DOMAIN mounts : IsPrefix(NamesIn[m], names)
    BY <1>3, Zenon DEF Free
  <2>2. Meaning(names)' = Meaning(names)
    BY <2>1, MeaningStays
  <2>. QED BY <1>1, <1>3, <2>2, Zenon DEF Shows
<1>. QED
  BY <1>2, <1>3

(* What a prefix of names lacks on the way, the names without their last   *)
(* lack too.                                                               *)
LEMMA FreeFront ==
    ASSUME PathInv, NEW names \in Routes, Len(names) > 0, Free(names)
    PROVE  Free(Front(names))
<1>. SUFFICES ASSUME NEW m \in DOMAIN mounts, IsPrefix(NamesIn[m], Front(names)) PROVE FALSE
  BY Zenon DEF Free
<1>1. NamesIn[m] \in Routes
  BY MountsAre, Zenon DEF PathInv, MountFacts, BootMount
<1>2. IsPrefix(NamesIn[m], names)
  BY <1>1, PrefixOfFront
<1>. QED
  BY <1>2, Zenon DEF Free

(* The view before and after a step, by what the names show. *)
Views(V, W) ==
    /\ V = [names \in Spelled |-> V[names]] /\ W = [names \in Spelled |-> W[names]]
    /\ \A names \in Spelled : V[names] = Shows(names) /\ W[names] = Shows(names)'

LEMMA ViewsAre ==
    ASSUME PathInv, PathInv'
    PROVE  Views(View, View')
<1>1. View = [names \in Spelled |-> Shows(names)]
  BY ViewIs DEF ViewIsShown
<1>2. ViewIsShown'
  BY ViewIs, PTL
<1>3. View' = [names \in Spelled |-> Shows(names)']
  BY <1>2 DEF ViewIsShown
<1>4. \A names \in Spelled : View[names] = Shows(names) /\ View'[names] = Shows(names)'
  BY <1>1, <1>3, Zenon
<1>5. View = [names \in Spelled |-> View[names]]
  BY <1>1, Zenon
<1>6. View' = [names \in Spelled |-> View'[names]]
  BY <1>3, Zenon
<1>. QED
  BY <1>4, <1>5, <1>6, Zenon DEF Views

(* Functions that differ at most at one place. *)
LEMMA ChangedOne ==
    ASSUME NEW S, NEW V, NEW W, V = [n \in S |-> V[n]], W = [n \in S |-> W[n]],
           NEW a \in S, \A n \in S : n # a => W[n] = V[n]
    PROVE  W = [V EXCEPT ![a] = W[a]]
OBVIOUS

LEMMA SameView ==
    ASSUME NEW V, NEW W, Views(V, W), \A names \in Spelled : Shows(names)' = Shows(names)
    PROVE  W = V
<1>1. \A names \in Spelled : W[names] = V[names]
  BY Zenon DEF Views
<1>2. V = [names \in Spelled |-> V[names]] /\ W = [names \in Spelled |-> W[names]]
  BY Zenon DEF Views
<1>. QED
  BY <1>1, <1>2

LEMMA MadeShows ==
    ASSUME PathInv, PathInv', NEW call \in Paths, Made(call), UNCHANGED <<mounts, pty_map>>,
           NEW V, NEW W, Views(V, W)
    PROVE  Space!Changes(V, W) \/ W = V
<1>1. PICK a \in Routes :
         /\ Len(a) > 0 /\ a \notin DOMAIN tree
         /\ DOMAIN tree' = DOMAIN tree \cup {a}
         /\ tree'[a] \in {"file", "dir", "link"}
         /\ \A f \in DOMAIN tree : tree'[f] = tree[f]
         /\ IsDir(Front(a))
  BY MadeIs
<1>2. ASSUME NEW names \in Spelled, names # a \/ ~Free(names)
      PROVE  Shows(names)' = Shows(names)
  <2>1. names \in Routes
    BY SpelledIs
  <2>2. \A f : f # a => (f \in DOMAIN tree' <=> f \in DOMAIN tree)
    BY <1>1, Zenon
  <2>3. \A f \in DOMAIN tree : f # a => tree'[f] = tree[f]
    BY <1>1, Zenon
  <2>. QED BY <1>2, <2>1, <2>2, <2>3, ShowsOthers
<1>3. CASE a \in Spelled /\ Free(a)
  <2>1. V[a] = Null
    <3>1. V[a] = Shows(a)
      BY <1>3, Zenon DEF Views
    <3>. QED BY <1>1, <1>3, <3>1, Zenon DEF Shows
  <2>2. W[a] \in {"file", "dir", "link"}
    <3>1. W[a] = Shows(a)'
      BY <1>3, Zenon DEF Views
    <3>2. Free(a)'
      BY <1>3, FreeStays
    <3>3. Shows(a)' = tree'[a]
      BY <1>1, <3>2, Zenon DEF Shows
    <3>. QED BY <1>1, <3>1, <3>3
  <2>3. V[Front(a)] = "dir"
    <3>1. Front(a) \in Spelled
      BY <1>1, <1>3, FrontSpelled
    <3>2. Free(Front(a))
      BY <1>1, <1>3, FreeFront
    <3>3. V[Front(a)] = Shows(Front(a))
      BY <3>1, Zenon DEF Views
    <3>. QED BY <1>1, <3>2, <3>3, Zenon DEF Shows, IsDir
  <2>4. \A n \in Spelled : n # a => W[n] = V[n]
    BY <1>2, Zenon DEF Views
  <2>5. V = [n \in Spelled |-> V[n]] /\ W = [n \in Spelled |-> W[n]]
    BY Zenon DEF Views
  <2>6. W = [V EXCEPT ![a] = W[a]]
    BY <1>3, <2>4, <2>5, ChangedOne
  <2>7. CASE V[a] = W[a]
    <3>1. \A n \in Spelled : W[n] = V[n]
      BY <2>4, <2>7, Zenon
    <3>. QED BY <2>5, <3>1
  <2>8. CASE V[a] # W[a]
    <3>1. a \in {n \in DOMAIN V : V[n] # W[n]}
      BY <1>3, <2>5, <2>8
    <3>2. Space!Front(a) = Front(a)
      BY Zenon DEF Space!Front, Front
    <3>3. Space!Add(a, V, W)
      BY <2>1, <2>2, <2>3, <2>6, <3>2, Zenon DEF Space!Add
    <3>. QED BY <3>1, <3>3, Zenon DEF Space!Changes
  <2>. QED BY <2>7, <2>8
<1>4. CASE ~(a \in Spelled /\ Free(a))
  <2>1. \A names \in Spelled : Shows(names)' = Shows(names)
    BY <1>2, <1>4, Zenon
  <2>. QED BY <2>1, SameView
<1>. QED
  BY <1>3, <1>4

LEMMA UnlinkShows ==
    ASSUME PathInv, PathInv', NEW o, RemoveFile(o), UNCHANGED <<mounts, pty_map>>,
           NEW V, NEW W, Views(V, W)
    PROVE  Space!Changes(V, W) \/ W = V
<1>1. /\ o \in DOMAIN tree /\ tree[o] # "dir"
      /\ tree' = [f \in DOMAIN tree \ {o} |-> tree[f]] /\ UNCHANGED mounts
  BY Zenon DEF RemoveFile
<1>2. DOMAIN tree' = DOMAIN tree \ {o} /\ \A f \in DOMAIN tree' : tree'[f] = tree[f]
  BY <1>1
<1>3. ASSUME NEW names \in Spelled, names # o \/ ~Free(names)
      PROVE  Shows(names)' = Shows(names)
  <2>1. names \in Routes
    BY SpelledIs
  <2>2. \A f : f # o => (f \in DOMAIN tree' <=> f \in DOMAIN tree)
    BY <1>2, Zenon
  <2>3. \A f \in DOMAIN tree : f # o => tree'[f] = tree[f]
    BY <1>2, Zenon
  <2>. QED BY <1>1, <1>3, <2>1, <2>2, <2>3, ShowsOthers
<1>4. CASE o \in Spelled /\ Free(o)
  <2>1. V[o] \in {"file", "link"}
    <3>1. V[o] = Shows(o)
      BY <1>4, Zenon DEF Views
    <3>2. Shows(o) = tree[o]
      BY <1>1, <1>4, Zenon DEF Shows
    <3>3. tree[o] \in {"file", "dir", "link"}
      <4>1. tree \in [DOMAIN tree -> {"file", "dir", "link"}]
        BY Zenon DEF PathInv, TreeOk
      <4>. QED BY <1>1, <4>1
    <3>. QED BY <1>1, <3>1, <3>2, <3>3
  <2>2. W[o] = Null
    <3>1. W[o] = Shows(o)'
      BY <1>4, Zenon DEF Views
    <3>2. Free(o)'
      BY <1>1, <1>4, FreeStays
    <3>3. o \notin DOMAIN tree'
      BY <1>2
    <3>. QED BY <3>1, <3>2, <3>3, Zenon DEF Shows
  <2>3. \A n \in Spelled : n # o => W[n] = V[n]
    BY <1>3, Zenon DEF Views
  <2>4. V = [n \in Spelled |-> V[n]] /\ W = [n \in Spelled |-> W[n]]
    BY Zenon DEF Views
  <2>5. W = [V EXCEPT ![o] = W[o]]
    BY <1>4, <2>3, <2>4, ChangedOne
  <2>6. CASE V[o] = W[o]
    <3>1. \A n \in Spelled : W[n] = V[n]
      BY <2>3, <2>6, Zenon
    <3>. QED BY <2>4, <3>1
  <2>7. CASE V[o] # W[o]
    <3>1. o \in {n \in DOMAIN V : V[n] # W[n]}
      BY <1>4, <2>4, <2>7
    <3>2. Space!Unlink(o, V, W)
      BY <2>1, <2>2, <2>5, Zenon DEF Space!Unlink
    <3>. QED BY <3>1, <3>2, Zenon DEF Space!Changes
  <2>. QED BY <2>6, <2>7
<1>5. CASE ~(o \in Spelled /\ Free(o))
  <2>1. \A names \in Spelled : Shows(names)' = Shows(names)
    BY <1>3, <1>5, Zenon
  <2>. QED BY <2>1, SameView
<1>. QED
  BY <1>4, <1>5

(* A pty that is closed was shown by the names that /dev/pts serves.       *)
LEMMA PtyShows ==
    ASSUME PathInv, PathInv', PtyGoes, NEW V, NEW W, Views(V, W)
    PROVE  Space!Changes(V, W) \/ W = V
<1>1. UNCHANGED mounts /\ UNCHANGED tree /\ Listed' = {}
  BY DEF PtyGoes, Listed
<1>2. Pty # Null /\ Pty \notin Devices /\ Pty \notin {"file", "dir", "link"}
  BY VfsAssumption, Zenon
<1>3. ASSUME NEW n \in Spelled PROVE W[n] = IF V[n] = Pty THEN Null ELSE V[n]
  <2>1. n \in Routes /\ V[n] = Shows(n) /\ W[n] = Shows(n)'
    BY SpelledIs, Zenon DEF Views
  <2>2. Free(n)' <=> Free(n)
    BY <1>1, FreeStays
  <2>3. CASE Free(n)
    <3>1. V[n] \in {"file", "dir", "link", Null} /\ W[n] = V[n]
      <4>1. tree \in [DOMAIN tree -> {"file", "dir", "link"}]
        BY Zenon DEF PathInv, TreeOk
      <4>2. V[n] = IF n \in DOMAIN tree THEN tree[n] ELSE Null
        BY <2>1, <2>3, Zenon DEF Shows
      <4>3. W[n] = IF n \in DOMAIN tree THEN tree[n] ELSE Null
        BY <1>1, <2>1, <2>2, <2>3, Zenon DEF Shows
      <4>. QED BY <4>1, <4>2, <4>3
    <3>. QED BY <1>2, <3>1
  <2>4. CASE ~Free(n)
    <3>1. PICK m \in DOMAIN mounts : IsPrefix(NamesIn[m], n)
      BY <2>4, Zenon DEF Free
    <3>2. mounts[m] \in Devices
      BY MountsAre, Zenon DEF PathInv, MountFacts, BootMount
    <3>3. OverMeans /\ OverMeans'
      BY MeansOver, PTL
    <3>4. V[n] = Behind(n, Len(NamesIn[m]), mounts[m])
      BY <2>1, <2>4, <3>1, <3>3, Zenon DEF Shows, OverMeans
    <3>5. W[n] = Behind(n, Len(NamesIn[m]), mounts[m])'
      <4>1. m \in DOMAIN mounts'
        BY <1>1
      <4>2. Meaning(n)' = Behind(n, Len(NamesIn[m]), mounts[m])'
        BY <2>1, <3>1, <3>3, <4>1, Zenon DEF OverMeans
      <4>. QED BY <2>1, <2>2, <2>4, <4>2, Zenon DEF Shows
    <3>6. W[n] = IF Len(n) = Len(NamesIn[m]) THEN mounts[m] ELSE Null
      BY <1>1, <3>5, Zenon DEF Behind
    <3>7. mounts[m] # Pty
      BY <1>2, <3>2, Zenon
    <3>8. CASE Len(n) = Len(NamesIn[m])
      BY <3>4, <3>6, <3>7, <3>8, Zenon DEF Behind
    <3>9. CASE Len(n) # Len(NamesIn[m])
      <4>1. V[n] \in {Pty, Null} /\ W[n] = Null
        BY <3>4, <3>6, <3>9, Zenon DEF Behind
      <4>. QED BY <1>2, <4>1, Zenon
    <3>. QED BY <3>8, <3>9
  <2>. QED BY <2>3, <2>4
<1>4. V = [n \in Spelled |-> V[n]] /\ W = [n \in Spelled |-> W[n]] /\ DOMAIN V = Spelled
  <2>1. V = [n \in Spelled |-> V[n]] /\ W = [n \in Spelled |-> W[n]]
    BY Zenon DEF Views
  <2>. QED BY <2>1
<1>5. CASE \A n \in Spelled : V[n] # Pty
  <2>1. \A n \in Spelled : W[n] = V[n]
    BY <1>3, <1>5, Zenon
  <2>. QED BY <1>4, <2>1
<1>6. CASE \E n \in Spelled : V[n] = Pty
  <2>1. PICK a \in Spelled : V[a] = Pty
    BY <1>6
  <2>2. a \in {n \in DOMAIN V : V[n] # W[n]}
    BY <1>2, <1>3, <1>4, <2>1, Zenon
  <2>3. \A n \in Spelled : W[n] = IF V[n] = V[a] THEN Null ELSE V[n]
    BY <1>3, <2>1, Zenon
  <2>4. W = [n \in Spelled |-> IF V[n] = V[a] THEN Null ELSE V[n]]
    BY <1>4, <2>3
  <2>5. Space!Withdraw(a, V, W)
    BY <1>4, <2>1, <2>4, Zenon DEF Space!Withdraw
  <2>. QED BY <2>2, <2>5, Zenon DEF Space!Changes
<1>. QED
  BY <1>5, <1>6

(* Below a new mountpoint nothing was: no file, and nothing mounted. *)
LEMMA NothingBelow ==
    ASSUME PathInv, NEW names \in Routes, NEW n \in Routes, IsPrefix(names, n), Free(names),
           names \notin DOMAIN tree, \A o \in DOMAIN mounts : ~IsPrefix(names, NamesIn[o])
    PROVE  Free(n) /\ n \notin DOMAIN tree
<1>1. Free(n)
  <2>. SUFFICES ASSUME NEW o \in DOMAIN mounts, IsPrefix(NamesIn[o], n) PROVE FALSE
    BY Zenon DEF Free
  <2>1. NamesIn[o] \in Routes
    BY MountsAre, Zenon DEF PathInv, MountFacts, BootMount
  <2>2. IsPrefix(NamesIn[o], names) \/ IsPrefix(names, NamesIn[o])
    BY <2>1, PrefixesCompare
  <2>. QED
    BY <2>2, Zenon DEF Free
<1>2. n \notin DOMAIN tree
  <2>. SUFFICES ASSUME n \in DOMAIN tree PROVE FALSE
    OBVIOUS
  <2>1. names # n
    OBVIOUS
  <2>2. /\ names \in Seq(Strings) /\ n \in Seq(Strings)
        /\ Len(names) <= Len(n) /\ \A i \in 1 .. Len(names) : names[i] = n[i]
    BY PrefixIs, Zenon DEF Routes
  <2>3. Len(names) # Len(n)
    BY <2>1, <2>2, SeqEqual, Zenon
  <2>4. Len(names) \in 0 .. Len(n) - 1 /\ SubSeq(n, 1, Len(names)) \in Seq(Strings)
        /\ Len(SubSeq(n, 1, Len(names))) = Len(names)
        /\ \A i \in 1 .. Len(names) : SubSeq(n, 1, Len(names))[i] = n[i]
    BY <2>2, <2>3
  <2>5. SubSeq(n, 1, Len(names)) = names
    BY <2>2, <2>4, SeqEqual
  <2>6. IsDir(SubSeq(n, 1, Len(names)))
    BY <2>4, Zenon DEF PathInv, TreeOk
  <2>. QED
    BY <2>5, <2>6, Zenon DEF IsDir
<1>. QED
  BY <1>1, <1>2

LEMMA MountShows ==
    ASSUME PathInv, PathInv', vfs_mount, NEW V, NEW W, Views(V, W)
    PROVE  Space!Changes(V, W)
<1>1. PICK m : \E node \in Devices :
         /\ Mounted(m, node) /\ NamesIn[m] \in Routes /\ Len(NamesIn[m]) > 0
         /\ NamesIn[m] \notin DOMAIN tree /\ DOMAIN tree' = DOMAIN tree \cup {NamesIn[m]}
         /\ \A f \in DOMAIN tree : tree'[f] = tree[f]
         /\ IsDir(Front(NamesIn[m])) /\ node \notin Routes /\ node # Null /\ m \in PlainPaths
  BY MountedIs, Zenon
<1>2. PICK node \in Devices :
         /\ Mounted(m, node) /\ NamesIn[m] \in Routes /\ Len(NamesIn[m]) > 0
         /\ NamesIn[m] \notin DOMAIN tree /\ DOMAIN tree' = DOMAIN tree \cup {NamesIn[m]}
         /\ \A f \in DOMAIN tree : tree'[f] = tree[f]
         /\ IsDir(Front(NamesIn[m])) /\ node \notin Routes /\ node # Null /\ m \in PlainPaths
  BY <1>1, Zenon
<1>3. PICK names \in Routes : names = NamesIn[m]
  BY <1>2, Zenon
<1>4. /\ names \in Spelled /\ Len(names) > 0 /\ names \notin DOMAIN tree
      /\ DOMAIN tree' = DOMAIN tree \cup {names} /\ \A f \in DOMAIN tree : tree'[f] = tree[f]
      /\ Free(names) /\ Free(Front(names)) /\ IsDir(Front(names))
      /\ \A o \in DOMAIN mounts : ~IsPrefix(names, NamesIn[o])
      /\ node \in Devices /\ node # Null /\ m \notin DOMAIN mounts /\ UNCHANGED pty_map
  BY <1>2, <1>3, SpelledHas, Zenon DEF Mounted
<1>5. mounts' = [path \in DOMAIN mounts \cup {m} |-> IF path = m THEN node ELSE mounts[path]]
  BY <1>2, Zenon DEF Mounted
<1>6. DOMAIN mounts' = DOMAIN mounts \cup {m} /\ mounts'[m] = node
      /\ \A o \in DOMAIN mounts : mounts'[o] = mounts[o]
  BY <1>4, <1>5
<1>7. IsPrefix(names, names)
  BY <1>4, PrefixOfFront
<1>8. V[names] = Null
  <2>1. V[names] = Shows(names)
    BY <1>4, Zenon DEF Views
  <2>. QED BY <1>4, <2>1, Zenon DEF Shows
<1>9. W[names] = node
  <2>1. W[names] = Shows(names)'
    BY <1>4, Zenon DEF Views
  <2>2. OverMeans'
    BY MeansOver, PTL
  <2>3. Meaning(names)' = mounts'[m]
    BY <1>3, <1>6, <1>7, <2>2, Zenon DEF OverMeans, Behind
  <2>4. ~Free(names)'
    BY <1>3, <1>6, <1>7, Zenon DEF Free
  <2>. QED BY <1>6, <2>1, <2>3, <2>4, Zenon DEF Shows
<1>10. V[Front(names)] = "dir"
  <2>1. Front(names) \in Spelled
    BY <1>4, FrontSpelled
  <2>2. V[Front(names)] = Shows(Front(names))
    BY <2>1, Zenon DEF Views
  <2>. QED BY <1>4, <2>2, Zenon DEF Shows, IsDir
<1>11. ASSUME NEW n \in Spelled, IsPrefix(names, n) PROVE V[n] = Null
  <2>1. n \in Routes
    BY SpelledIs
  <2>2. Free(n) /\ n \notin DOMAIN tree
    BY <1>4, <1>11, <2>1, NothingBelow
  <2>3. V[n] = Shows(n)
    BY Zenon DEF Views
  <2>. QED BY <2>2, <2>3, Zenon DEF Shows
<1>12. ASSUME NEW n \in Spelled, ~IsPrefix(names, n) PROVE W[n] = V[n]
  <2>1. n \in Routes /\ n # names
    BY <1>7, <1>12, SpelledIs, Zenon
  <2>2. Free(n)' <=> Free(n)
    BY <1>3, <1>6, <1>12, Zenon DEF Free
  <2>3. Shows(n)' = Shows(n)
    <3>1. CASE Free(n)
      <4>1. n \in DOMAIN tree' <=> n \in DOMAIN tree
        BY <1>4, <2>1, Zenon
      <4>2. n \in DOMAIN tree => tree'[n] = tree[n]
        BY <1>4, Zenon
      <4>. QED BY <2>2, <3>1, <4>1, <4>2, Zenon DEF Shows
    <3>2. CASE ~Free(n)
      <4>1. PICK o \in DOMAIN mounts : IsPrefix(NamesIn[o], n)
        BY <3>2, Zenon DEF Free
      <4>2. o \in DOMAIN mounts' /\ mounts'[o] = mounts[o]
        BY <1>6, Zenon
      <4>3. Meaning(n)' = Meaning(n)
        BY <1>4, <2>1, <4>1, <4>2, MeaningStays
      <4>. QED BY <2>2, <3>2, <4>3, Zenon DEF Shows
    <3>. QED BY <3>1, <3>2
  <2>. QED BY <2>3, Zenon DEF Views
<1>13. DOMAIN V = Spelled
  <2>1. V = [n \in Spelled |-> V[n]]
    BY Zenon DEF Views
  <2>. QED BY <2>1
<1>14. names \in {n \in DOMAIN V : V[n] # W[n]}
  BY <1>4, <1>8, <1>9, <1>13, Zenon
<1>15. Space!Front(names) = Front(names)
  BY Zenon DEF Space!Front, Front
<1>16. \A n : Space!IsPrefix(names, n) <=> IsPrefix(names, n)
  BY Zenon DEF Space!IsPrefix, IsPrefix
<1>17. Space!Mount(names, V, W)
  <2>1. W[names] \in Devices /\ V[Space!Front(names)] = "dir"
    BY <1>4, <1>9, <1>10, <1>15, Zenon
  <2>2. ASSUME NEW n \in DOMAIN V
        PROVE  IF Space!IsPrefix(names, n) THEN V[n] = Null ELSE W[n] = V[n]
    BY <1>11, <1>12, <1>13, <1>16, Zenon
  <2>. QED
    BY <2>1, <2>2, Zenon DEF Space!Mount
<1>. QED
  BY <1>14, <1>17, Zenon DEF Space!Changes

LEMMA StepShows ==
    ASSUME PathInv, PathInv', VfsNext
    PROVE  Space!Changes(View, View') \/ View' = View
<1>. SUFFICES ASSUME NEW V, NEW W, Views(V, W)
              PROVE  Space!Changes(V, W) \/ W = V
  BY ViewsAre, Zenon
<1>1. CASE vfs_mount
  BY <1>1, MountShows
<1>2. CASE PtyGoes
  BY <1>2, PtyShows
<1>3. ASSUME NEW call \in Paths, OpenNew(call) \/ mkdir(call) \/ symlink(call)
      PROVE  Space!Changes(V, W) \/ W = V
  <2>1. CASE Made(call) /\ UNCHANGED <<mounts, pty_map>>
    BY <2>1, MadeShows
  <2>. QED BY <1>2, <1>3, <2>1, CallsMake
<1>4. ASSUME NEW call \in Paths, unlink(call) PROVE Space!Changes(V, W) \/ W = V
  <2>1. ASSUME NEW old, RemoveFile(old), UNCHANGED <<mounts, pty_map>>
        PROVE  Space!Changes(V, W) \/ W = V
    BY <2>1, UnlinkShows
  <2>. QED BY <1>2, <1>4, <2>1, CallsRemove
<1>5. ASSUME NEW call \in Paths, Close(call) PROVE Space!Changes(V, W) \/ W = V
  BY <1>2, <1>5, ClosesPty
<1>. QED
  BY <1>1, <1>3, <1>4, <1>5, Zenon DEF VfsNext

LEMMA ViewStarts == VfsInit => Space!AbsInit
<1>. SUFFICES ASSUME VfsInit PROVE Space!AbsInit
  OBVIOUS
<1>1. View = [names \in Spelled |-> Shows(names)]
  BY VfsStarts, ViewIs DEF ViewIsShown
<1>2. /\ tree = [f \in {Root} \cup BootDirs |-> "dir"] /\ mounts = [path \in {} |-> Null]
  BY DEF VfsInit
<1>3. Root \in DOMAIN tree /\ (\A f \in DOMAIN tree : tree[f] = "dir") /\ DOMAIN mounts = {}
  BY <1>2
<1>4. \A names \in Spelled : Shows(names) \in {"dir", Null}
  BY <1>3, Zenon DEF Shows, Free
<1>5. Shows(Root) = "dir"
  BY <1>3, Zenon DEF Shows, Free
<1>6. View[<<>>] = "dir" /\ \A names \in Spelled : View[names] \in {"dir", Null}
  BY <1>1, <1>4, <1>5, RootSpelled, Zenon DEF Root
<1>7. DOMAIN View = Spelled
  BY <1>1
<1>. QED
  BY <1>6, <1>7, Zenon DEF Space!AbsInit, View, Spelled

LEMMA ViewSteps ==
    ASSUME PathInv, PathInv', [VfsNext]_vfsvars
    PROVE  [Space!AbsNext]_View
<1>1. CASE VfsNext
  <2>1. Space!Changes(View, View') => Space!AbsNext
    BY Zenon DEF Space!AbsNext, View
  <2>. QED BY <1>1, <2>1, StepShows
<1>2. CASE UNCHANGED vfsvars
  <2>1. tree' = tree /\ mounts' = mounts /\ pty_map' = pty_map
    BY <1>2 DEF vfsvars
  <2>2. \A names : Shows(names)' = Shows(names)
    <3>. SUFFICES ASSUME NEW names PROVE Shows(names)' = Shows(names)
      OBVIOUS
    <3>. QED BY <2>1 DEF Shows, Free, Meaning, Listed
  <2>3. View' = View
    BY <2>2, ViewsAre, SameView, Zenon
  <2>. QED BY <2>3
<1>. QED
  BY <1>1, <1>2

(* The tree of files implements the namespace: whatever strings processes   *)
(* pass, what plain paths lead to changes one name at a time, in a          *)
(* directory, and nothing that is there ever becomes something else; a pty  *)
(* goes, by whatever names it has, with the first call that closes it, also *)
(* one that was refused below it.                                           *)
THEOREM NamesComeAndGo == VfsSpec => ImplementsNamespace
<1>1. VfsInit => Space!AbsInit
  BY ViewStarts
<1>2. PathInv /\ PathInv' /\ [VfsNext]_vfsvars => [Space!AbsNext]_View
  BY ViewSteps
<1>. QED
  BY <1>1, <1>2, PathsInvariant, PTL DEF VfsSpec, ImplementsNamespace, Space!AbsSpec, View
=============================================================================
