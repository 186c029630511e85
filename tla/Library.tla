------------------------------ MODULE Library ------------------------------
(***************************************************************************)
(* Text in the system: what a program does with the C library, its streams,*)
(* printf and the functions on strings, and what the kernel prints.  They  *)
(* have no state in common, and a program makes one call at a time, so     *)
(* that each is looked at by itself.                                       *)
(***************************************************************************)
EXTENDS Formatting, Stdio, Strings, Console

VARIABLE side   \* which part is looked at
vars == <<side, formattingvars, streamvars, stringvars, consolevars>>

Init ==
    /\ side \in {"printf", "streams", "strings", "kernel"}
    /\ FormattingInit /\ StdioInit /\ StringsInit /\ ConsoleInit

Next ==
    /\ UNCHANGED side
    /\ \/ /\ side = "printf" /\ FormattingNext
          /\ UNCHANGED <<streamvars, stringvars, consolevars>>
       \/ /\ side = "streams" /\ StdioNext
          /\ UNCHANGED <<formattingvars, stringvars, consolevars>>
       \/ /\ side = "strings" /\ StringsNext
          /\ UNCHANGED <<formattingvars, streamvars, consolevars>>
       \/ /\ side = "kernel" /\ ConsoleNext
          /\ UNCHANGED <<formattingvars, streamvars, stringvars>>

Spec == Init /\ [][Next]_vars

-----------------------------------------------------------------------------
(* printf (libc/stdio.c) and kprintf (kernel/lib/kprintf.c) write what the *)
(* C standard says, for every combination of flags, width, precision and   *)
(* length for which they do what the standard says at all, which           *)
(* StandardConversion and StandardDirective give; and atoi reads back the  *)
(* numbers that printf wrote.                                              *)
TextFollowsC == PrintfFollowsC /\ NumbersReadBack /\ KprintfFollowsC
=============================================================================
