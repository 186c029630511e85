----------------------------- MODULE FlatFiles -----------------------------
(***************************************************************************)
(* What a directory of files promises: every name stands for a sequence of *)
(* bytes of its own.  A write past the end may leave anything in the gap,  *)
(* and nothing else that was not written ever changes.                     *)
(***************************************************************************)
EXTENDS Integers, Sequences, Functions

CONSTANTS
    Names,      \* file names
    Bytes       \* byte values

VARIABLES
    text,       \* the bytes of each file that exists
    written     \* the name, offset and data of the last write

absVars == <<text, written>>

AbsInit ==
    /\ text = [f \in {} |-> <<>>]
    /\ written \in [name : Names, offset : {0}, data : {<<>>}]

(* The bytes of file f from offset on become data. *)
Put(f, offset, data) ==
    LET end == offset + Len(data)
        kept == Len(text[f]) IN
    /\ f \in DOMAIN text
    /\ DOMAIN text' = DOMAIN text
    /\ \A g \in DOMAIN text \ {f} : text'[g] = text[g]
    /\ text'[f] \in Seq(Bytes)
    /\ Len(text'[f]) = IF end > kept THEN end ELSE kept
    /\ \A k \in (1 .. kept) \ (offset + 1 .. end) : text'[f][k] = text[f][k]
    /\ \A k \in 1 .. Len(data) : text'[f][offset + k] = data[k]

Empty(f) ==
    /\ text' = [text EXCEPT ![f] = <<>>]
    /\ UNCHANGED written

Add(n) ==
    /\ n \notin DOMAIN text
    /\ text' = [f \in DOMAIN text \cup {n} |-> IF f = n THEN <<>> ELSE text[f]]
    /\ UNCHANGED written

Drop(n) ==
    /\ text' = Restrict(text, DOMAIN text \ {n})
    /\ UNCHANGED written

AbsNext ==
    \/ Put(written'.name, written'.offset, written'.data)
    \/ \E f \in DOMAIN text : Empty(f) \/ Drop(f)
    \/ \E n \in Names : Add(n)

AbsSpec == AbsInit /\ [][AbsNext]_absVars
=============================================================================
