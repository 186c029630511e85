--------------------------- MODULE MCContextSwitch ---------------------------
EXTENDS ContextSwitch

(* r15 empty, or with something in each byte. *)
MCR15Words == {Word(0), [i \in Byte |-> 1]}
=============================================================================
