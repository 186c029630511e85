-------------------------------- MODULE MCVfs -------------------------------
(* Vfs with a character device in /d, as in /dev, and a directory of ptys  *)
(* at /n, so that paths of few characters lead below the pty.              *)
EXTENDS Vfs

CONSTANT Device

MCBootDirs == {<< <<"d">> >>}
MCBootMounts == <<[path |-> <<"/", "d", "/", "d">>, node |-> Device],
                  [path |-> <<"/", "n">>, node |-> PtyDir]>>
MCPtyNames == {<<"d">>}
=============================================================================
