------------------------------- MODULE MCTty -------------------------------
(* A key that Shift changes, one that it mutes and one that it turns into  *)
(* what the line discards.                                                 *)
EXTENDS Tty

MCKeys == {"a", "space", "minus"}
MCChars == {<<"a", FALSE>>, <<"a", TRUE>>, <<"space", FALSE>>, <<"minus", FALSE>>}
=============================================================================
