------------------------------ MODULE Console ------------------------------
(***************************************************************************)
(* What the kernel prints while it boots: kprintf (kernel/lib/kprintf.c)   *)
(* and puts (kernel/lib/terminal.c) on the VGA text screen and, once kmain *)
(* has the framebuffer, on that (kernel/video/).  Only here, before the    *)
(* first process, and from the keyboard and the processes through the same *)
(* terminal_putchar, are characters put on the screen.                     *)
(*                                                                         *)
(* The least number of intmax_t has no magnitude in kvprintf (__int_str    *)
(* indexes its digits with negative numbers), and a width of 256 or more   *)
(* overruns its buffers: neither is an item of a format.                   *)
(*                                                                         *)
(* A cell of the screen stands for the pixels of a character, and is NUL   *)
(* when nothing was put there.  Left out:                                  *)
(* colours, and the clearing of the screen, which nothing calls.           *)
(***************************************************************************)
EXTENDS Numerals

CONSTANT ShortBits   \* bits of a short: 16

ASSUME KprintfAssumption == ShortBits \in Nat \ {0} /\ ShortBits < IntBits

(* What the loops of kvprintf read behind a '%'.  The precision is read    *)
(* and never used.  The second h of "hh" is taken for the conversion.      *)
IsDirective(d) ==
    /\ d.conv \in {"d", "u", "x", "X", "o", "p", "s", "c", "e", "E", "f", "%", "literal"}
    /\ d.length \in {"", "hh", "h", "l", "ll", "j", "z", "t", "L"}
    /\ d.conv = "%" => d.length = ""
    /\ d.left_justify \in BOOLEAN /\ d.zero_pad \in BOOLEAN /\ d.alt_form \in BOOLEAN
    /\ d.plus_sign \in BOOLEAN /\ d.space_no_sign \in BOOLEAN
    /\ d.length_spec \in 0 .. 255
    /\ d.number \in (1 - 2^(LongBits - 1) .. 2^LongBits - 1) \ {2^(LongBits - 1)}

(* With "hh", an integer with "L" and the conversions of floating point    *)
(* take no argument, so that the next conversion would take the one meant  *)
(* for them.                                                               *)
TakesArgument(d) ==
    /\ d.length # "hh"
    /\ \/ d.conv \in {"p", "s", "c"}
       \/ d.conv \in {"d", "u", "x", "X", "o"} /\ d.length # "L"

IsKernelFormat(format) ==
    /\ \A i \in DOMAIN format : IsDirective(format[i])
    /\ \A i, j \in DOMAIN format :
          i < j /\ TakesArgument(format[j]) =>
             TakesArgument(format[i]) \/ format[i].conv \in {"%", "literal"}

(* Faulty: the sign is not counted as part of the field. *)
__int_str_wide(i, glyphs, base, plus, space, padding_no, justify, zero_pad) ==
    LET sign == IF i < 0 THEN <<"-">> ELSE IF plus THEN <<"+">>
                ELSE IF space THEN <<" ">> ELSE <<>>
        b == sign \o Numeral(glyphs, Magnitude(i), base, Digits[base][Magnitude(i)])
        padding == Repeat(IF zero_pad THEN "0" ELSE " ", padding_no - Len(b) + Len(sign)) IN
    IF justify THEN b \o padding ELSE padding \o b

(* __int_str: the sign belongs to the number, and the padding of either    *)
(* kind goes before or behind both.                                        *)
__int_str(i, glyphs, base, plus, space, padding_no, justify, zero_pad) ==
    LET sign == IF i < 0 THEN <<"-">> ELSE IF plus THEN <<"+">>
                ELSE IF space THEN <<" ">> ELSE <<>>
        b == sign \o Numeral(glyphs, Magnitude(i), base, Digits[base][Magnitude(i)])
        padding == Repeat(IF zero_pad THEN "0" ELSE " ", padding_no - Len(b)) IN
    IF justify THEN b \o padding ELSE padding \o b

(* The bits of the argument that the length modifier keeps. *)
LengthBits(length) ==
    CASE length = "" -> IntBits
      [] length = "h" -> ShortBits
      [] length \in {"l", "ll", "j", "z", "t"} -> LongBits

(* The argument as __int_str gets it, an intmax_t: an unsigned long above  *)
(* its range turns negative.                                               *)
Integer(d) ==
    IF d.conv = "d" THEN Signed(d.number, LengthBits(d.length))
    ELSE Signed(Unsigned(d.number, LengthBits(d.length)), LongBits)

IntegerText(d, glyphs, base) ==
    __int_str(Integer(d), glyphs, base, d.plus_sign, d.space_no_sign, d.length_spec,
              d.left_justify, d.zero_pad)

(* %u, %x, %X, %o and %p, which takes a size_t whatever its length says;   *)
(* the prefix comes before the whole field.                                *)
kunsigned(d) ==
    CASE d.conv = "u" -> IntegerText(d, Lower, 10)
      [] d.conv = "x" -> (IF d.alt_form THEN <<"0", "x">> ELSE <<>>) \o IntegerText(d, Lower, 16)
      [] d.conv = "X" -> (IF d.alt_form THEN <<"0", "x">> ELSE <<>>) \o IntegerText(d, Upper, 16)
      [] d.conv = "o" -> (IF d.alt_form THEN <<"0">> ELSE <<>>) \o IntegerText(d, Lower, 8)
      [] d.conv = "p" -> IntegerText([d EXCEPT !.length = "z"], Upper, 16)

(* Without a number to write, the exponent is always 0. *)
kexponent(d) ==
    <<IF d.conv = "e" THEN "e" ELSE "E", "+">>
        \o __int_str(0, Lower, 10, FALSE, FALSE, 2, FALSE, TRUE)

(* What kvprintf puts on the terminal for one item.  After "hh" the letter *)
(* of the conversion is left, an ordinary character; "L" gives nothing for *)
(* an integer, and so do "%%" and "%f".                                    *)
ktext(d) ==
    CASE d.conv = "literal" -> d.word
      [] d.conv # "literal" /\ d.length = "hh" -> <<d.conv>>
      [] d.conv = "p" -> kunsigned(d)
      [] d.conv \in {"u", "x", "X", "o", "d"} /\ d.length = "L" ->
            IF d.alt_form /\ d.conv \in {"x", "X"} THEN <<"0", "x">>
            ELSE IF d.alt_form /\ d.conv = "o" THEN <<"0">> ELSE <<>>
      [] d.conv \in {"u", "x", "X", "o"} /\ d.length \notin {"hh", "L"} -> kunsigned(d)
      [] d.conv = "d" /\ d.length \notin {"hh", "L"} -> IntegerText(d, Lower, 10)
      [] d.conv = "c" /\ d.length # "hh" -> SubSeq(d.word, 1, 1)
      [] d.conv = "s" /\ d.length # "hh" -> d.word
      [] d.conv \in {"e", "E"} /\ d.length # "hh" -> kexponent(d)
      [] d.conv \in {"f", "%"} /\ d.length # "hh" -> <<>>

kvprintf(format) == FlattenSeq([i \in DOMAIN format |-> ktext(format[i])])

-----------------------------------------------------------------------------
(* The conversions for which kvprintf does what the C standard says: not   *)
(* "hh"; no unsigned number that intmax_t cannot hold; zeros only before   *)
(* digits that nothing stands in front of; '#' without a width and only    *)
(* for other numbers than 0; '+' and ' ' only where a sign is due.         *)
StandardDirective(d) ==
    CASE d.conv \in {"d", "u", "x", "X", "o"} ->
            /\ d.length \notin {"hh", "L"}
            /\ d.zero_pad => /\ ~d.left_justify
                             /\ ~d.plus_sign /\ ~d.space_no_sign /\ Integer(d) >= 0
            /\ d.conv # "d" => Integer(d) >= 0 /\ ~d.plus_sign /\ ~d.space_no_sign
            /\ d.alt_form => d.conv \in {"x", "o"} /\ d.length_spec = 0 /\ Integer(d) # 0
      [] d.conv \in {"s", "c"} -> d.length # "hh" /\ d.length_spec = 0
      [] d.conv = "literal" -> TRUE
      [] OTHER -> FALSE

StandardBase(conv) ==
    CASE conv \in {"d", "u"} -> 10 [] conv \in {"x", "X"} -> 16 [] conv = "o" -> 8

(* What the standard says of such a conversion. *)
StandardDirectiveText(d) ==
    CASE d.conv \in {"d", "u", "x", "X", "o"} ->
            StandardField(IF d.conv = "X" THEN Upper ELSE Lower,
                          Integer(d), StandardBase(d.conv),
                          IF d.conv = "d" THEN StandardSign(Integer(d), d.plus_sign, d.space_no_sign)
                          ELSE IF ~d.alt_form THEN <<>>
                          ELSE IF d.conv = "x" THEN <<"0", "x">> ELSE <<"0">>,
                          d.length_spec, -1, d.left_justify, d.zero_pad)
      [] OTHER -> ktext(d)

-----------------------------------------------------------------------------
(* The screens. *)

CONSTANTS
    VGA_WIDTH, VGA_HEIGHT,  \* 80 and 25
    Columns, Rows,          \* characters on the framebuffer
    Newline,                \* '\n'
    Letters,                \* the other characters that puts is given
    Formats,                \* the calls of kprintf to look at
    MaxText                 \* bound on the characters of the texts put

(* The character 0 is no part of a string, and no call puts it with %c.    *)
IsText(s) == s \in Seq(Range(s)) /\ NUL \notin Range(s)

ASSUME ConsoleAssumption ==
    /\ VGA_WIDTH \in Nat \ {0} /\ VGA_HEIGHT \in Nat \ {0}
    /\ Columns \in Nat /\ Columns > VGA_WIDTH
    /\ Rows \in Nat /\ Rows >= VGA_HEIGHT
    /\ NUL # Newline /\ {NUL, Newline} \cap Letters = {}
    /\ \A f \in Formats : IsKernelFormat(f) /\ IsText(kvprintf(f))

VARIABLES
    driver,     \* which terminal_t the variable terminal is: "vga" or "lfb",
                \* "copying" while the latter takes over
    copying,    \* the variables of lfb_copy_from_vga
    screen,     \* the cursor and the memory of both drivers
    unsent,     \* what the call under way has still to put
    format,     \* its format if it is kprintf, else <<>>
    sent,       \* what it has put
    paper,      \* the lines put since the start, as if on endless paper
    muddled     \* had the VGA screen started over when it was left?
consolevars == <<driver, copying, screen, unsent, format, sent, paper, muddled>>

EmptyRow(width) == [x \in 0 .. width - 1 |-> NUL]
NotCopying == [row |-> 0, column |-> 0, y |-> 0, x |-> 0]

ConsoleInit ==
    /\ driver = "vga" /\ copying = NotCopying
    /\ screen = [terminal_row |-> 0, terminal_column |-> 0,
                 vga_membuffer |-> [y \in 0 .. VGA_HEIGHT - 1 |-> EmptyRow(VGA_WIDTH)],
                 lfb_membuffer |-> [y \in 0 .. Rows - 1 |-> EmptyRow(Columns)],
                 linear_framebuffer |-> [y \in 0 .. Rows - 1 |-> EmptyRow(Columns)]]
    /\ unsent = <<>> /\ format = <<>> /\ sent = <<>>
    /\ paper = << <<>> >> /\ muddled = FALSE

(* vga_terminal_putchar: below the last row comes the first one again.     *)
vga_next_row(s) ==
    [s EXCEPT !.terminal_column = 0,
              !.terminal_row = IF @ + 1 = VGA_HEIGHT THEN 0 ELSE @ + 1]

vga_terminal_putchar(s, c) ==
    IF c = Newline THEN vga_next_row(s)
    ELSE LET t == [s EXCEPT !.vga_membuffer[s.terminal_row][s.terminal_column] = c] IN
         IF s.terminal_column + 1 = VGA_WIDTH THEN vga_next_row(t)
         ELSE [t EXCEPT !.terminal_column = @ + 1]

(* Faulty: only the copy in memory scrolls. *)
lfb_newline_unseen(s) ==
    IF s.terminal_row + 1 >= Rows
    THEN LET scrolled == [y \in 0 .. Rows - 1 |->
                            IF y < Rows - 1 THEN s.lfb_membuffer[y + 1] ELSE EmptyRow(Columns)] IN
         [s EXCEPT !.terminal_column = 0, !.lfb_membuffer = scrolled]
    ELSE [s EXCEPT !.terminal_column = 0, !.terminal_row = @ + 1]

(* A newline on the framebuffer: in the last row everything moves up, in   *)
(* memory first, from where it is copied to the screen.                    *)
lfb_newline(s) ==
    IF s.terminal_row + 1 >= Rows
    THEN LET scrolled == [y \in 0 .. Rows - 1 |->
                            IF y < Rows - 1 THEN s.lfb_membuffer[y + 1] ELSE EmptyRow(Columns)] IN
         [s EXCEPT !.terminal_column = 0,
                   !.lfb_membuffer = scrolled, !.linear_framebuffer = scrolled]
    ELSE [s EXCEPT !.terminal_column = 0, !.terminal_row = @ + 1]

(* The pixels of a character, of which lfb_set_pixel leaves out those that *)
(* are not on the screen.                                                  *)
lfb_set_pixels(s, c) ==
    IF s.terminal_row < Rows /\ s.terminal_column < Columns
    THEN [s EXCEPT !.lfb_membuffer[s.terminal_row][s.terminal_column] = c,
                   !.linear_framebuffer[s.terminal_row][s.terminal_column] = c]
    ELSE s

lfb_terminal_putchar(s, c) ==
    IF c = Newline THEN lfb_newline(s)
    ELSE IF s.terminal_column + 1 >= Columns THEN lfb_newline(lfb_set_pixels(s, c))
    ELSE [lfb_set_pixels(s, c) EXCEPT !.terminal_column = @ + 1]

-----------------------------------------------------------------------------
(* The endless paper: a full line or a newline begins the next one. *)
OnPaper(lines, c, width) ==
    IF c = Newline THEN Append(lines, <<>>)
    ELSE LET longer == Append(Last(lines), c)
             written == [lines EXCEPT ![Len(lines)] = longer] IN
         IF Len(longer) = width THEN Append(written, <<>>) ELSE written

Width == IF driver = "vga" THEN VGA_WIDTH ELSE Columns

putchar(c) ==
    /\ driver # "copying"
    /\ screen' = IF driver = "vga" THEN vga_terminal_putchar(screen, c)
                 ELSE lfb_terminal_putchar(screen, c)
    /\ paper' = OnPaper(paper, c, Width)
    /\ UNCHANGED <<driver, copying, muddled>>

(* The next character of a text that puts writes, or of what a process or  *)
(* the keyboard sends through terminal_pty_putchar.                        *)
Printed == FoldLeft(LAMBDA n, line : n + Len(line), Len(paper), paper)
PutText ==
    /\ unsent = <<>> /\ format = <<>> /\ Printed < MaxText
    /\ \E c \in Letters \cup {Newline} : putchar(c)
    /\ UNCHANGED <<unsent, format, sent>>

(* A call of kprintf, looked at on an empty screen: its text does not      *)
(* depend on what is there.                                                *)
kprintf ==
    /\ driver # "copying" /\ paper = << <<>> >> /\ format = <<>>
    /\ \E f \in Formats :
          /\ format' = f
          /\ unsent' = kvprintf(f)
    /\ UNCHANGED <<driver, copying, screen, sent, paper, muddled>>

(* The next character of kprintf. *)
PutFormatted ==
    /\ unsent # <<>>
    /\ putchar(Head(unsent))
    /\ sent' = Append(sent, Head(unsent))
    /\ unsent' = Tail(unsent)
    /\ UNCHANGED format

(* kmain has the framebuffer, its copy in memory (cleared) and a font, and *)
(* calls lfb_copy_from_vga, which puts the cursor at the start and keeps   *)
(* in row and column where it was.                                         *)
TakeFramebuffer ==
    /\ driver = "vga" /\ unsent = <<>> /\ format = <<>>
    /\ driver' = "copying"
    /\ copying' = [NotCopying EXCEPT !.row = screen.terminal_row,
                                     !.column = screen.terminal_column]
    /\ screen' = [screen EXCEPT !.terminal_row = 0, !.terminal_column = 0]
    /\ muddled' = (Len(paper) > VGA_HEIGHT)
    /\ UNCHANGED <<unsent, format, sent, paper>>

(* A row of the VGA screen is copied up to its first 0. *)
InText == /\ copying.y < VGA_HEIGHT /\ copying.x < VGA_WIDTH
          /\ screen.vga_membuffer[copying.y][copying.x] # NUL

CopyCharacter ==
    /\ driver = "copying" /\ InText
    /\ screen' = lfb_terminal_putchar(screen, screen.vga_membuffer[copying.y][copying.x])
    /\ copying' = [copying EXCEPT !.x = @ + 1]
    /\ UNCHANGED <<driver, unsent, format, sent, paper, muddled>>

CopyNextRow ==
    /\ driver = "copying" /\ copying.y < VGA_HEIGHT /\ ~InText
    /\ screen' = [screen EXCEPT !.terminal_row = @ + 1, !.terminal_column = 0]
    /\ copying' = [copying EXCEPT !.y = @ + 1, !.x = 0]
    /\ UNCHANGED <<driver, unsent, format, sent, paper, muddled>>

(* The cursor where it was. *)
CopyEnds ==
    /\ driver = "copying" /\ copying.y = VGA_HEIGHT
    /\ driver' = "lfb" /\ copying' = NotCopying
    /\ screen' = [screen EXCEPT !.terminal_row = copying.row,
                                !.terminal_column = copying.column]
    /\ UNCHANGED <<unsent, format, sent, paper, muddled>>

ConsoleNext ==
    \/ PutText \/ kprintf \/ PutFormatted
    \/ TakeFramebuffer \/ CopyCharacter \/ CopyNextRow \/ CopyEnds

ConsoleSpec == ConsoleInit /\ [][ConsoleNext]_consolevars

-----------------------------------------------------------------------------
(* A row of the screen that begins with the text of a line. *)
Begins(row, line) == \A i \in DOMAIN line : row[i - 1] = line[i]
Shows(row, line) == \A x \in DOMAIN row : row[x] = IF x < Len(line) THEN line[x + 1] ELSE NUL

(* The screen shows the end of what was put, line by line, and the cursor  *)
(* is behind it.  The framebuffer scrolls; on the VGA screen a line goes   *)
(* over the one that was put VGA_HEIGHT lines earlier, whose end may still *)
(* be seen.  Taking the framebuffer loses nothing, unless the VGA screen   *)
(* had started over: then the cursor is among the lines that were copied.  *)
ScreenShowsPaper ==
    LET lines == Len(paper)
        Earlier(rows) == IF lines > rows THEN lines - rows ELSE 0 IN
    IF driver = "vga"
    THEN /\ \A i \in Earlier(VGA_HEIGHT) + 1 .. lines :
               Begins(screen.vga_membuffer[(i - 1) % VGA_HEIGHT], paper[i])
         /\ screen.terminal_row = (lines - 1) % VGA_HEIGHT
         /\ screen.terminal_column = Len(Last(paper))
    ELSE driver = "lfb" /\ ~muddled =>
         /\ \A y \in 0 .. Rows - 1 :
               Shows(screen.linear_framebuffer[y],
                     IF Earlier(Rows) + y + 1 <= lines THEN paper[Earlier(Rows) + y + 1] ELSE <<>>)
         /\ screen.terminal_row = lines - 1 - Earlier(Rows)
         /\ screen.terminal_column = Len(Last(paper))

(* What kprintf puts on the terminal, for the conversions for which        *)
(* kvprintf does what the C standard says.                                 *)
KprintfFollowsC ==
    format # <<>> /\ unsent = <<>>
        /\ (\A i \in DOMAIN format : StandardDirective(format[i])) =>
    sent = FlattenSeq([i \in DOMAIN format |-> StandardDirectiveText(format[i])])
=============================================================================
