----------------------------- MODULE MCLibrary -----------------------------
EXTENDS Library

Item(conv) ==
    {[conv |-> conv, align |-> a, fzero |-> z, alt |-> h, asign |-> s, big |-> b,
      argw |-> w, precision |-> p, number |-> n, word |-> <<"q", "r", "s">>] :
        a \in BOOLEAN, z \in BOOLEAN, h \in (IF conv \in {"x", "X"} THEN BOOLEAN ELSE {FALSE}),
        s \in (IF conv = "d" THEN 0 .. 2 ELSE {0}), b \in BOOLEAN, w \in {0, 2, 5},
        p \in (IF conv \in {"d", "u", "s"} THEN {-1, 0, 3} ELSE {-1}),
        n \in (IF conv \in {"s", "c"} THEN {0} ELSE {-16, -1, 0, 9, 10, 99})}
Items == UNION {Item(conv) : conv \in {"d", "u", "x", "X", "p", "s", "c"}}

Literal == [conv |-> "literal", align |-> TRUE, fzero |-> FALSE, alt |-> FALSE, asign |-> 0,
            big |-> FALSE, argw |-> 0, precision |-> -1, number |-> 0, word |-> <<":">>]

(* Some items for the routines that write a string, alone and in a row. *)
Plain == {d \in Items : ~d.align /\ ~d.fzero /\ ~d.alt /\ d.asign = 0
                        /\ d.precision = -1 /\ d.argw \in {0, 2} /\ d.number \in {-1, 0, 10}
                        /\ d.conv \in {"d", "x", "s"}}
Several == {<<>>} \cup {<<d, Literal>> : d \in Plain} \cup {<<c, Literal, d>> : c, d \in Plain}

Directive(conv) ==
    {[conv |-> conv, length |-> l, left_justify |-> j, zero_pad |-> z, alt_form |-> h,
      plus_sign |-> p, space_no_sign |-> s, length_spec |-> w, number |-> n,
      word |-> <<"q", "r">>] :
        l \in {"", "hh", "h", "l", "L"}, j \in BOOLEAN, z \in BOOLEAN,
        h \in (IF conv \in {"x", "X", "o"} THEN BOOLEAN ELSE {FALSE}),
        p \in (IF conv \in {"d", "u"} THEN BOOLEAN ELSE {FALSE}),
        s \in (IF conv = "d" THEN BOOLEAN ELSE {FALSE}), w \in {0, 2, 4},
        n \in (IF conv \in {"s", "c", "e", "E", "f"} THEN {0} ELSE {-16, -1, 0, 10, 99, 255})}
Directives ==
    {d \in UNION {Directive(conv) : conv \in {"d", "u", "x", "X", "o", "p", "s", "c", "e", "f"}} :
        d.conv \in {"s", "c", "e", "f"} => d.length = "" /\ ~d.zero_pad}

KernelLiteral(conv) ==
    [conv |-> conv, length |-> "", left_justify |-> FALSE, zero_pad |-> FALSE,
     alt_form |-> FALSE, plus_sign |-> FALSE, space_no_sign |-> FALSE, length_spec |-> 0,
     number |-> 0, word |-> <<":">>]

MCCalls ==
    {[routine |-> "vfprintf", format |-> <<d>>, size |-> 0] : d \in Items}
    \cup {[routine |-> "vsnprintf", format |-> f, size |-> n] : f \in Several, n \in {0, 1, 2, 4, 9}}
    \cup {[routine |-> "vsprintf", format |-> f, size |-> 0] : f \in Several}

MCFormats == {<<d, KernelLiteral(c)>> : d \in Directives, c \in {"literal", "%"}}

(* One path for each set of flags that fopen can make of one. *)
MCPaths == {<<"t">>, <<"+">>, <<"w">>, <<"a">>, <<"w", "+">>, <<"+", "a">>}

MCTexts == UNION {[1 .. n -> 1 .. 3] : n \in 0 .. 3}
           \cup {<<1, 1, 2, 1, 1>>, <<1, 3, 3, 1, 2>>, <<3, 1, 2, 3, 1>>, <<1, 1, 1, 2>>}
(* Without a character, with each of them, with the room nearly filled. *)
MCMovable == {<<>>, <<1, 2, 3>>, <<3, 1, 2, 3, 1>>, <<1, 3, 3, 1, 2>>}
MCDelimiters == {<<>>, <<3>>, <<3, 2>>}
=============================================================================
