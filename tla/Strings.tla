------------------------------ MODULE Strings ------------------------------
(***************************************************************************)
(* The functions on strings and memory of the C library, libc/string.c,    *)
(* of which the kernel has its own copies in kernel/lib/string.c.          *)
(*                                                                         *)
(* A program puts two strings in its memory, one behind the other, and     *)
(* searches, moves, copies, joins or splits them.  A character is a number *)
(* and 0 ends a string; -1 is memory that nothing was written to.          *)
(***************************************************************************)
EXTENDS Integers, Sequences, SequencesExt, FiniteSetsExt

CONSTANTS
    Texts,      \* the strings to look at, without the 0
    Delimiters, \* what strtok_r is to split them at
    Room,       \* bytes for each of the two
    Movable     \* bound: the strings in whose memory bytes are moved

ASSUME StringsAssumption ==
    /\ Room \in Nat
    /\ \A t \in Texts \cup Delimiters : t \in Seq(1 .. 255)
    /\ \A t \in Texts : Len(t) < Room

VARIABLES
    bytes,      \* the memory
    loaded,     \* the two strings as they were put there, or <<>>
    job,        \* what is done with them
    loop,       \* the variables of memmove or strcpy, and the memory before the call
    tokens      \* for each string: the delimiters, *out and what was returned
stringvars == <<bytes, loaded, job, loop, tokens>>

Addresses == 0 .. 2 * Room - 1
Start(i) == (i - 1) * Room
Null == -1      \* the null pointer
Unwritten == [a \in Addresses |-> -1]
NoLoop == [dst |-> 0, src |-> 0, n |-> 0, left |-> 0, down |-> FALSE, before |-> Unwritten]

StringsInit ==
    /\ bytes = Unwritten /\ loop = NoLoop
    /\ loaded = <<>> /\ job = "nothing" /\ tokens = <<>>

(* The program writes the strings. *)
Load ==
    /\ job = "nothing"
    /\ \E s, t \in Texts :
          /\ loaded' = <<s, t>>
          /\ bytes' = [a \in Addresses |->
                LET text == IF a < Start(2) THEN s ELSE t
                    at == (a % Room) + 1 IN
                IF at <= Len(text) THEN text[at] ELSE IF at = Len(text) + 1 THEN 0 ELSE -1]
    /\ tokens' = [i \in 1 .. 2 |-> [delim |-> <<>>, out |-> Null, returned |-> <<>>]]
    /\ job' = "loaded"
    /\ UNCHANGED loop

(* strlen, strspn, strcspn, strpbrk and strchr(_, 0) on the string at p.   *)
strlen(m, p) == Min({a \in p .. 2 * Room - 1 : m[a] = 0}) - p
strspn(m, p, set) == Min({n \in 0 .. strlen(m, p) : m[p + n] \notin Range(set)})
strcspn(m, p, set) == Min({n \in 0 .. strlen(m, p) : m[p + n] \in Range(set) \cup {0}})
strpbrk(m, p, set) ==
    IF m[p + strcspn(m, p, set)] = 0 THEN Null ELSE p + strcspn(m, p, set)

(* The string at p. *)
StringAt(m, p) == [i \in 1 .. strlen(m, p) |-> m[p + i - 1]]

(* strcmp, which compares the two up to the first difference. *)
strcmp(m, p, q) ==
    LET shorter == Min({strlen(m, p), strlen(m, q)})
        i == Min({n \in 0 .. shorter : m[p + n] # m[q + n] \/ m[p + n] = 0}) IN
    IF m[p + i] < m[q + i] THEN -1 ELSE IF m[p + i] > m[q + i] THEN 1 ELSE 0

(* strstr: from each place on, as far as the two agree; the search is over *)
(* at the first place where all of the second string is found or where the *)
(* first one ends before a difference.                                     *)
strstr(m, p, q) ==
    LET hay == StringAt(m, p)
        needle == StringAt(m, q)
        Agree(r) == Min({n \in 0 .. Len(needle) :
                            n = Len(needle) \/ r + n >= Len(hay) \/ hay[r + n + 1] # needle[n + 1]})
        over == Min({r \in 0 .. Len(hay) :
                        Agree(r) = Len(needle) \/ r + Agree(r) >= Len(hay)}) IN
    IF Agree(over) = Len(needle) THEN p + over ELSE Null

(* Faulty: always upwards, as memcpy does it. *)
memmove_up(dst, src, n) ==
    [dst |-> dst, src |-> src, n |-> n, left |-> IF dst = src THEN 0 ELSE n,
     down |-> FALSE, before |-> bytes]

(* memmove: downwards when the end of the source lies in the destination. *)
memmove(dst, src, n) ==
    [dst |-> dst, src |-> src, n |-> n, left |-> IF dst = src THEN 0 ELSE n,
     down |-> dst > src /\ dst - src < n, before |-> bytes]

(* A program moves n bytes within what it wrote. *)
Move(dst, src, n) ==
    /\ job = "loaded" /\ Range(loaded) \subseteq Movable
    /\ job' = "moving" /\ loop' = memmove(dst, src, n)
    /\ UNCHANGED <<bytes, loaded, tokens>>

MoveByte ==
    /\ job = "moving" /\ loop.left > 0
    /\ LET i == IF loop.down THEN loop.left - 1 ELSE loop.n - loop.left IN
       bytes' = [bytes EXCEPT ![loop.dst + i] = bytes[loop.src + i]]
    /\ loop' = [loop EXCEPT !.left = @ - 1]
    /\ UNCHANGED <<loaded, job, tokens>>

MoveEnds ==
    /\ job = "moving" /\ loop.left = 0
    /\ job' = "moved"
    /\ UNCHANGED <<bytes, loaded, loop, tokens>>

(* strcpy, and strcat with the string behind another. *)
strcpy(dst, src) == [NoLoop EXCEPT !.dst = dst, !.src = src, !.before = bytes]
strcat(dst, src) == strcpy(dst + strlen(bytes, dst), src)

(* It joins the strings where the first one has room for both. *)
Join ==
    /\ job = "loaded"
    /\ Len(loaded[1]) + Len(loaded[2]) < Room
    /\ job' = "joining" /\ loop' = strcat(Start(1), Start(2))
    /\ UNCHANGED <<bytes, loaded, tokens>>

JoinByte ==
    /\ job = "joining" /\ bytes[loop.src] # 0
    /\ bytes' = [bytes EXCEPT ![loop.dst] = bytes[loop.src]]
    /\ loop' = [loop EXCEPT !.dst = @ + 1, !.src = @ + 1]
    /\ UNCHANGED <<loaded, job, tokens>>

JoinEnds ==
    /\ job = "joining" /\ bytes[loop.src] = 0
    /\ bytes' = [bytes EXCEPT ![loop.dst] = 0]
    /\ job' = "joined"
    /\ UNCHANGED <<loaded, loop, tokens>>

(* Faulty: the search for the next token begins at the 0 that ended the    *)
(* last one.                                                               *)
strtok_r_short(i, delim) ==
    LET t == [tokens[i] EXCEPT !.delim = delim]
        str == IF t.out = Null THEN Start(i) ELSE t.out
        token == str + strspn(bytes, str, t.delim)
        end == strpbrk(bytes, token, t.delim) IN
    IF bytes[token] = 0
    THEN /\ tokens' = [tokens EXCEPT ![i] =
              [t EXCEPT !.out = token, !.returned = Append(@, Null)]]
         /\ UNCHANGED bytes
    ELSE /\ bytes' = IF end = Null THEN bytes ELSE [bytes EXCEPT ![end] = 0]
         /\ tokens' = [tokens EXCEPT ![i] =
              [t EXCEPT !.out = IF end = Null THEN token + strlen(bytes, token) ELSE end,
                        !.returned = Append(@, token)]]

(* strtok_r, with the string the first time and a null pointer after that. *)
strtok_r(i, delim) ==
    LET t == [tokens[i] EXCEPT !.delim = delim]
        str == IF t.out = Null THEN Start(i) ELSE t.out
        token == str + strspn(bytes, str, t.delim)
        end == strpbrk(bytes, token, t.delim) IN
    IF bytes[token] = 0
    THEN /\ tokens' = [tokens EXCEPT ![i] =
              [t EXCEPT !.out = token, !.returned = Append(@, Null)]]
         /\ UNCHANGED bytes
    ELSE /\ bytes' = IF end = Null THEN bytes ELSE [bytes EXCEPT ![end] = 0]
         /\ tokens' = [tokens EXCEPT ![i] =
              [t EXCEPT !.out = IF end = Null THEN token + strlen(bytes, token) ELSE end + 1,
                        !.returned = Append(@, token)]]

(* It takes the next token of one of the strings, in turns as it likes,    *)
(* until it has been told that there is none, and once more.               *)
Tokenize(i) ==
    /\ job \in {"loaded", "splitting"}
    /\ Cardinality({n \in DOMAIN tokens[i].returned : tokens[i].returned[n] = Null}) < 2
    /\ job' = "splitting"
    /\ \E delim \in Delimiters :
          /\ tokens[i].returned # <<>> => delim = tokens[i].delim
          /\ strtok_r(i, delim)
    /\ UNCHANGED <<loaded, loop>>

(* It needs the memory for something else. *)
Discard ==
    /\ job \notin {"nothing", "moving", "joining"}
    /\ bytes' = Unwritten /\ loop' = NoLoop
    /\ loaded' = <<>> /\ job' = "nothing" /\ tokens' = <<>>

StringsNext ==
    \/ Load \/ Discard
    \/ \E dst, src, n \in 0 .. Room - 1 : Move(dst, src, n)
    \/ MoveByte \/ MoveEnds \/ Join \/ JoinByte \/ JoinEnds
    \/ \E i \in 1 .. 2 : Tokenize(i)

StringsSpec == StringsInit /\ [][StringsNext]_stringvars

-----------------------------------------------------------------------------
(* The words of a text: its longest parts without a delimiter, as pairs of *)
(* the places where they begin and end.                                    *)
InWord(text, delim, i) == i \in DOMAIN text /\ text[i] \notin Range(delim)
EndOf(text, delim, b) == Min({e \in b .. Len(text) : ~InWord(text, delim, e + 1)})
Words(text, delim) ==
    {<<b, EndOf(text, delim, b)>> :
        b \in {i \in DOMAIN text : InWord(text, delim, i) /\ ~InWord(text, delim, i - 1)}}

(* Each token is the first word of the string behind the one before; when  *)
(* there is none, nothing is returned.                                     *)
TokensAreWords ==
    job = "splitting" =>
        \A i \in 1 .. 2 : \A n \in DOMAIN tokens[i].returned :
            LET At(k) == tokens[i].returned[k] - Start(i) + 1
                begun == IF n = 1 THEN 0
                         ELSE IF tokens[i].returned[n - 1] = Null THEN Len(loaded[i]) ELSE At(n - 1)
                rest == {w \in Words(loaded[i], tokens[i].delim) : w[1] > begun} IN
            IF tokens[i].returned[n] = Null THEN rest = {}
            ELSE \E w \in rest :
                    /\ w[1] = At(n) /\ \A v \in rest : w[1] <= v[1]
                    /\ StringAt(bytes, tokens[i].returned[n]) = SubSeq(loaded[i], w[1], w[2])

(* memmove copies the bytes as they were before, however the two places    *)
(* overlap, and nothing else; strcat joins.                                *)
MovesAreExact ==
    /\ job = "moved" =>
          \A a \in Addresses :
             bytes[a] = IF a \in loop.dst .. loop.dst + loop.n - 1
                        THEN loop.before[a - loop.dst + loop.src] ELSE loop.before[a]
    /\ job = "joined" =>
          /\ StringAt(bytes, Start(1)) = loaded[1] \o loaded[2]
          /\ StringAt(bytes, Start(2)) = loaded[2]

(* What a search returns, and strcmp. *)
SearchesAreExact ==
    job = "loaded" =>
        LET s == loaded[1] t == loaded[2]
            places == {p \in 0 .. Len(s) - Len(t) : SubSeq(s, p + 1, p + Len(t)) = t}
            same == Max({n \in 0 .. Len(s) : n <= Len(t) /\ SubSeq(s, 1, n) = SubSeq(t, 1, n)}) IN
        /\ strstr(bytes, Start(1), Start(2)) = IF places = {} THEN Null ELSE Min(places)
        /\ strcmp(bytes, Start(1), Start(2)) =
              (IF s = t THEN 0
               ELSE IF same = Len(s) \/ (same < Len(t) /\ s[same + 1] < t[same + 1]) THEN -1
               ELSE 1)

(* The tokens that strtok_r returns are the words of the string, in order, *)
(* then nothing; those returned earlier stay what they were, and splitting *)
(* one string while the other is being split disturbs neither.  strstr     *)
(* finds the first place where the one string is part of the other, and    *)
(* none exactly when there is none; strcmp orders strings by the first     *)
(* character that differs, a string before its continuations.              *)
ResultsAreExact == TokensAreWords /\ SearchesAreExact
=============================================================================
