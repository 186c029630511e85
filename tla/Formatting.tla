----------------------------- MODULE Formatting -----------------------------
(***************************************************************************)
(* Calls of vfprintf, vsprintf and vsnprintf of src/libc/stdio.c, one at a *)
(* time.  Each hands its text on character by character: to fputc or to a  *)
(* string in memory.                                                       *)
(***************************************************************************)
EXTENDS PrintfOps

CONSTANTS
    Calls,      \* the calls to look at: records of routine, format, size
    Capacity,   \* bytes of the memory in which the string lies
    Untouched,  \* what the memory holds before the call
    Idle        \* not a call

ASSUME FormattingAssumption ==
    /\ Capacity \in Nat /\ Idle \notin Calls
    /\ \A c \in Calls :
          /\ c.routine \in {"vfprintf", "vsprintf", "vsnprintf"}
          /\ \A i \in DOMAIN c.format : IsItem(c.format[i])
          /\ _printf(c.format) \in Seq(Range(_printf(c.format)))
          /\ c.routine = "vsprintf" => Len(_printf(c.format)) < Capacity
          /\ c.routine = "vsnprintf" => c.size \in 0 .. Capacity

VARIABLES
    call,       \* the call under way
    rest,       \* what the formatting has still to hand on
    shown,      \* what it handed on
    str,        \* the memory the string is written to
    written,    \* _printf_cb.written
    result      \* what the call returned, -1 before
formattingvars == <<call, rest, shown, str, written, result>>

Memory == 0 .. Capacity - 1

FormattingInit ==
    /\ call = Idle /\ rest = <<>> /\ shown = <<>> /\ written = 0 /\ result = -1
    /\ str = [i \in Memory |-> Untouched]

(* A program calls. *)
Call ==
    /\ call = Idle
    /\ \E c \in Calls :
          /\ call' = c
          /\ rest' = _printf(c.format)
    /\ UNCHANGED <<shown, str, written, result>>

(* Faulty: the last byte is not kept for the 0. *)
_cb_sprintf_late(c) ==
    IF call.size > written
    THEN /\ str' = [i \in Memory |-> IF i = written THEN c
                                     ELSE IF i = written + 1 /\ i < call.size THEN NUL
                                     ELSE str[i]]
         /\ written' = written + 1
    ELSE UNCHANGED <<str, written>>

(* vsnprintf: as long as there is room for the character and a 0. *)
_cb_sprintf(c) ==
    IF call.size > written + 1
    THEN /\ str' = [str EXCEPT ![written] = c, ![written + 1] = NUL]
         /\ written' = written + 1
    ELSE UNCHANGED <<str, written>>

(* vsprintf. *)
_cb_u_sprintf(c) ==
    /\ str' = [str EXCEPT ![written] = c]
    /\ written' = written + 1

(* One character. *)
PutToString ==
    /\ rest # <<>> /\ call.routine \in {"vsprintf", "vsnprintf"}
    /\ IF call.routine = "vsprintf" THEN _cb_u_sprintf(Head(rest)) ELSE _cb_sprintf(Head(rest))
    /\ shown' = Append(shown, Head(rest))
    /\ rest' = Tail(rest)
    /\ UNCHANGED <<call, result>>

PutToStream ==
    /\ rest # <<>> /\ call.routine = "vfprintf"
    /\ shown' = Append(shown, Head(rest))
    /\ rest' = Tail(rest)
    /\ UNCHANGED <<call, str, written, result>>

(* The end of the call: vsprintf and vsnprintf hand on a 0. *)
Return ==
    /\ call # Idle /\ rest = <<>> /\ result = -1
    /\ CASE call.routine = "vsprintf" -> _cb_u_sprintf(NUL)
         [] call.routine = "vsnprintf" -> _cb_sprintf(NUL)
         [] OTHER -> UNCHANGED <<str, written>>
    /\ result' = Len(shown)
    /\ UNCHANGED <<call, rest, shown>>

(* The caller is done with the result. *)
Forget ==
    /\ result # -1
    /\ call' = Idle /\ shown' = <<>> /\ written' = 0 /\ result' = -1
    /\ str' = [i \in Memory |-> Untouched]
    /\ UNCHANGED rest

FormattingNext == Call \/ PutToString \/ PutToStream \/ Return \/ Forget

FormattingSpec == FormattingInit /\ [][FormattingNext]_formattingvars

-----------------------------------------------------------------------------
(* The string that starts at the first byte is s. *)
IsString(s) ==
    /\ \A i \in DOMAIN s : str[i - 1] = s[i]
    /\ str[Len(s)] = NUL

(* vsnprintf never writes past the size it was given and, with room for a  *)
(* character, always leaves a string: what it handed on so far, cut off    *)
(* so that it fits; at the end the result is the length without the cut.   *)
(* vsprintf leaves the whole text.  (A vsnprintf of size 1 leaves nothing, *)
(* not even the 0: _cb_sprintf wants room for two.)                        *)
StringHoldsText ==
    /\ call # Idle /\ call.routine = "vsnprintf" =>
          /\ \A i \in call.size .. Capacity - 1 : str[i] = Untouched
          /\ call.size >= 2 /\ (shown # <<>> \/ result # -1) =>
                IsString(SubSeq(shown, 1, Lesser(Len(shown), call.size - 1)))
    /\ result # -1 =>
          /\ result = Len(shown)
          /\ call.routine = "vsprintf" => IsString(shown)
          /\ call.routine \in {"vsprintf", "vsnprintf"} => result = Len(_printf(call.format))

(* What printf hands on, for the conversions for which _printf does what   *)
(* the C standard says.                                                    *)
PrintfFollowsC ==
    result # -1 /\ (\A i \in DOMAIN call.format : StandardConversion(call.format[i])) =>
    shown = FlattenSeq([i \in DOMAIN call.format |-> StandardText(call.format[i])])

(* atoi (libc/stdlib.c) reads back the number that %d wrote. *)
NumbersReadBack ==
    result # -1 /\ Len(call.format) = 1 /\ call.format[1].conv = "d"
        /\ StandardConversion(call.format[1])
        /\ ~(call.format[1].precision = 0 /\ call.format[1].number = 0) =>
    _atoi(shown, 10) = Signed(call.format[1].number, Bits(call.format[1]))
=============================================================================
