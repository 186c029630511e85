----------------------------- MODULE FileStream -----------------------------
(* What a program may take a stream for: a file and a position in it, with *)
(* no buffer between them. Others see what the program puts only when it   *)
(* is saved, and what they add meanwhile may be lost.                      *)
EXTENDS Naturals, Sequences

CONSTANTS
    Bytes,      \* the values of a byte
    EOF,        \* what a read at the end gives
    Nothing     \* what the other calls give

VARIABLES
    content,    \* the bytes of the file, as the program sees it
    saved,      \* those that other processes see
    pos,        \* bytes before the stream's position
    rights,     \* what the stream may do
    returned    \* result of the last call

vars == <<content, saved, pos, rights, returned>>

Init ==
    /\ content \in Seq(Bytes) /\ saved = content
    /\ pos = 0
    /\ rights = {}
    /\ returned = Nothing

(* A read gives the byte at the position and moves behind it. *)
Get ==
    /\ "read" \in rights /\ pos < Len(content)
    /\ returned' = content[pos + 1]
    /\ pos' = pos + 1
    /\ UNCHANGED <<content, saved, rights>>

GetNothing ==
    /\ "read" \notin rights \/ pos >= Len(content)
    /\ returned' = EOF
    /\ UNCHANGED <<content, saved, pos, rights>>

(* A write replaces the byte at the position, or adds one at the end, and  *)
(* is saved at once or later.                                              *)
Put ==
    /\ "write" \in rights /\ pos <= Len(content)
    /\ \E b \in Bytes :
        content' = SubSeq(content, 1, pos) \o <<b>>
                       \o SubSeq(content, pos + 2, Len(content))
    /\ saved' \in {saved, content'}
    /\ pos' = pos + 1
    /\ returned' = Nothing
    /\ UNCHANGED rights

(* The byte that was read last will be read again. *)
PutBack ==
    /\ pos > 0 /\ pos' = pos - 1
    /\ returned = content[pos] /\ returned' = Nothing
    /\ UNCHANGED <<content, saved, rights>>

(* Seeking, also to where the stream is, saves what was put. *)
Seek ==
    /\ pos' \in 0 .. Len(content)
    /\ saved' = content
    /\ returned' = Nothing
    /\ UNCHANGED <<content, rights>>

(* The stream is closed and another one opened, which may empty the file. *)
Reopen ==
    /\ content' \in {content, <<>>} /\ saved' = content'
    /\ pos' \in 0 .. Len(content')
    /\ rights' \subseteq {"read", "write"}
    /\ returned' = Nothing

(* Another process adds to the file as it sees it. When the program has    *)
(* put bytes beyond that end already, one of them will be written over the *)
(* other's, and the program never sees it.                                 *)
Grow ==
    /\ \E b \in Bytes :
        /\ saved' = Append(saved, b)
        /\ content' = IF Len(content) > Len(saved) THEN content ELSE Append(content, b)
    /\ UNCHANGED <<pos, rights, returned>>

Next == Get \/ GetNothing \/ Put \/ PutBack \/ Seek \/ Reopen \/ Grow

Spec == Init /\ [][Next]_vars
=============================================================================
