------------------------------ MODULE PrintfOps ------------------------------
(***************************************************************************)
(* _printf of src/libc/stdio.c: what each conversion gives to the          *)
(* callback.  A format is a sequence of items: ordinary characters and     *)
(* conversions with their flags, width, precision and argument.            *)
(*                                                                         *)
(* Left out: floating point.  A width or precision taken from a negative   *)
(* argument, or above the 100 digits that _print_dec has room for, is no   *)
(* item: the code writes outside its buffer or for ever.                   *)
(***************************************************************************)
EXTENDS Numerals

(* What the loops of _printf read behind a '%'.  asign is 2 when ' ' came  *)
(* last and 1 when '+' did.                                                *)
IsItem(d) ==
    /\ d.conv \in {"d", "u", "x", "X", "p", "s", "c", "literal"}
    /\ d.align \in BOOLEAN /\ d.fzero \in BOOLEAN /\ d.alt \in BOOLEAN
    /\ d.asign \in 0 .. 2 /\ d.big \in BOOLEAN
    /\ d.argw \in 0 .. 99 /\ d.precision \in -1 .. 99
    /\ d.number \in Int

Pad(fzero, n) == Repeat(IF fzero THEN "0" ELSE " ", n)

(* _print_dec: a number that is aligned to the right, as it is without     *)
(* '-', has a '0' for each of its digits.                                  *)
_print_dec(value, width, fzero, align, precision) ==
    LET least == IF precision = -1 THEN 1 ELSE precision
        nwidth == Greater(IF value = 0 THEN 0 ELSE Digits[10][value], least) IN
    IF align THEN Pad(fzero, width - nwidth) \o Repeat("0", nwidth)
    ELSE Numeral(Lower, value, 10, nwidth) \o Pad(fzero, width - nwidth)

(* _print_hex. *)
_print_hex(value, width, fzero, alt, caps, align) ==
    LET nwidth == Digits[16][value]
        prefix == IF alt THEN <<"0", IF caps THEN "X" ELSE "x">> ELSE <<>>
        room == width - nwidth - Len(prefix) IN
    Repeat(" ", IF align /\ ~fzero THEN room ELSE 0)
        \o prefix
        \o Repeat("0", IF align /\ fzero THEN room ELSE 0)
        \o Numeral(IF caps THEN Upper ELSE Lower, value, 16, nwidth)
        \o Repeat(" ", IF align THEN 0 ELSE room)

(* va_arg with the type that the length modifier gives. *)
Bits(d) == IF d.big \/ d.conv = "p" THEN LongBits ELSE IntBits

(* %d: the sign is outside the width; -v of the least number is that       *)
(* number again, whose bits are those of its magnitude.                    *)
SignedText(d) ==
    LET v == Signed(d.number, Bits(d))
        sign == IF v < 0 THEN <<"-">>
                ELSE CASE d.asign = 0 -> <<>>
                       [] d.asign = 1 -> <<"+">>
                       [] d.asign = 2 -> <<" ">> IN
    sign \o _print_dec(Unsigned(Magnitude(v), LongBits), d.argw, d.fzero, d.align, d.precision)

UnsignedText(d) ==
    _print_dec(Unsigned(d.number, Bits(d)), d.argw, d.fzero, d.align, d.precision)

(* %x, %X and %p, which has "0x" always. *)
HexText(d) ==
    _print_hex(Unsigned(d.number, Bits(d)), d.argw, d.fzero, d.alt \/ d.conv = "p",
               d.conv = "X", d.align)

(* %s: cut off at the precision and at the width, and padded behind. *)
StringText(d) ==
    LET limit == IF d.precision >= 0 THEN Lesser(Len(d.word), d.precision) ELSE Len(d.word)
        count == IF d.argw > 0 THEN Lesser(limit, d.argw) ELSE limit IN
    SubSeq(d.word, 1, count) \o Repeat(" ", d.argw - count)

Text(d) ==
    CASE d.conv = "d" -> SignedText(d)
      [] d.conv = "u" -> UnsignedText(d)
      [] d.conv \in {"x", "X", "p"} -> HexText(d)
      [] d.conv = "s" -> StringText(d)
      [] d.conv = "c" -> SubSeq(d.word, 1, 1)
      [] d.conv = "literal" -> d.word

(* %ls ends the whole call. *)
GivesUp(d) == d.conv = "s" /\ d.big

(* All that _printf gives to the callback. *)
_printf(format) ==
    LET stops == {i \in DOMAIN format : GivesUp(format[i])}
        last == IF stops = {} THEN Len(format)
                ELSE (CHOOSE i \in stops : \A j \in stops : i <= j) - 1 IN
    FlattenSeq([i \in 1 .. last |-> Text(format[i])])

-----------------------------------------------------------------------------
(* _atoi (libc/stdlib.c): '-' and blanks may stand anywhere; the first     *)
(* other character that is no digit of the radix ends the number.          *)
_atoi(text, radix) ==
    LET Read(so_far, c) ==
            IF so_far.ended THEN so_far
            ELSE IF c = "-" THEN [so_far EXCEPT !.sign = TRUE]
            ELSE IF c \in {" ", "+", "_"} THEN so_far
            ELSE IF c \notin Range(Lower) \cup Range(Upper) \/ DigitOf(c) >= radix
                 THEN [so_far EXCEPT !.ended = TRUE]
            ELSE [so_far EXCEPT !.res = @ * radix + DigitOf(c)]
        read == FoldLeft(Read, [res |-> 0, sign |-> FALSE, ended |-> FALSE], text) IN
    IF read.sign THEN -read.res ELSE read.res

-----------------------------------------------------------------------------
(* The conversions for which _printf promises what the C standard does.    *)
(* Decimals: only with '-', without '0', and with a width only when no     *)
(* sign counts into it.  Hexadecimals: without a precision, and with '#'   *)
(* only for other numbers than 0.  Strings: no wider than the width, and   *)
(* padded as with '-'.                                                     *)
StandardConversion(d) ==
    CASE d.conv \in {"d", "u"} ->
            /\ ~d.align /\ ~d.fzero
            /\ d.conv = "d" /\ (d.asign # 0 \/ Signed(d.number, Bits(d)) < 0) => d.argw = 0
      [] d.conv \in {"x", "X"} ->
            /\ d.precision < 0
            /\ d.alt => Unsigned(d.number, Bits(d)) # 0
      [] d.conv = "s" ->
            /\ ~d.big /\ ~d.align
            /\ d.argw > 0 => Len(d.word) <= d.argw
      [] d.conv \in {"c", "literal"} -> TRUE
      [] d.conv = "p" -> FALSE

(* What the standard says of such a conversion. *)
StandardText(d) ==
    CASE d.conv = "d" ->
            StandardField(Lower, Signed(d.number, Bits(d)), 10,
                          StandardSign(Signed(d.number, Bits(d)), d.asign = 1, d.asign = 2),
                          d.argw, d.precision, ~d.align, d.fzero)
      [] d.conv = "u" ->
            StandardField(Lower, Unsigned(d.number, Bits(d)), 10, <<>>,
                          d.argw, d.precision, ~d.align, d.fzero)
      [] d.conv \in {"x", "X"} ->
            StandardField(IF d.conv = "X" THEN Upper ELSE Lower, Unsigned(d.number, Bits(d)), 16,
                          IF d.alt THEN <<"0", d.conv>> ELSE <<>>,
                          d.argw, d.precision, ~d.align, d.fzero)
      [] d.conv = "s" ->
            LET shown == IF d.precision < 0 THEN d.word
                         ELSE SubSeq(d.word, 1, Lesser(Len(d.word), d.precision)) IN
            shown \o Repeat(" ", d.argw - Len(shown))
      [] OTHER -> Text(d)
=============================================================================
