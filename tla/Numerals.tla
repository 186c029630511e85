------------------------------ MODULE Numerals ------------------------------
(***************************************************************************)
(* Numbers as text, for the modules about printf, kprintf and the string   *)
(* functions: a text is a sequence of characters.                          *)
(***************************************************************************)
EXTENDS Integers, Sequences, SequencesExt

CONSTANTS
    IntBits,    \* bits of an int: 32
    LongBits,   \* bits of a long, a pointer and intmax_t: 64
    NUL         \* the character 0

ASSUME NumeralsAssumption ==
    /\ IntBits \in Nat \ {0, 1} /\ LongBits \in Nat
    /\ IntBits < LongBits

Greater(a, b) == IF a > b THEN a ELSE b
Lesser(a, b) == IF a < b THEN a ELSE b

Lower == <<"0", "1", "2", "3", "4", "5", "6", "7", "8", "9", "a", "b", "c", "d", "e", "f">>
Upper == <<"0", "1", "2", "3", "4", "5", "6", "7", "8", "9", "A", "B", "C", "D", "E", "F">>

(* The value of a digit. *)
DigitOf(c) == (CHOOSE i \in 1 .. 16 : Lower[i] = c \/ Upper[i] = c) - 1

(* n times the character c, nothing for n < 0. *)
Repeat(c, n) == [i \in 1 .. n |-> c]

(* How many digits the number v has; 0 has one. *)
DigitsIn(base) ==
    LET count[v \in 0 .. 2^LongBits] == IF v < base THEN 1 ELSE 1 + count[v \div base] IN
    count
Digits == [base \in {8, 10, 16} |-> DigitsIn(base)]

(* The last n digits of v. *)
Numeral(glyphs, v, base, n) ==
    [i \in 1 .. n |-> glyphs[((v \div base^(n - i)) % base) + 1]]

(* A value as the machine keeps it in so many bits. *)
Unsigned(v, bits) == v % 2^bits
Signed(v, bits) ==
    IF Unsigned(v, bits) < 2^(bits - 1) THEN Unsigned(v, bits) ELSE Unsigned(v, bits) - 2^bits

Magnitude(v) == IF v < 0 THEN -v ELSE v

-----------------------------------------------------------------------------
(* What the C standard says of the text of an integer: the sign or prefix, *)
(* the digits, at least as many as the precision asks for, and padding up  *)
(* to the width: blanks before, blanks behind with '-', zeros after the    *)
(* sign or prefix with '0' unless there is '-' or a precision.             *)
StandardField(glyphs, v, base, prefix, width, precision, left, zero) ==
    LET least == IF precision < 0 THEN 1 ELSE precision
        digits == IF v = 0 THEN least ELSE Greater(Digits[base][Magnitude(v)], least)
        number == Numeral(glyphs, Magnitude(v), base, digits)
        room == width - Len(prefix) - digits IN
    IF left THEN prefix \o number \o Repeat(" ", room)
    ELSE IF zero /\ precision < 0 THEN prefix \o Repeat("0", room) \o number
    ELSE Repeat(" ", room) \o prefix \o number

(* The sign of a signed conversion, of which ' ' yields to '+'. *)
StandardSign(v, plus, space) ==
    IF v < 0 THEN <<"-">> ELSE IF plus THEN <<"+">> ELSE IF space THEN <<" ">> ELSE <<>>
=============================================================================
