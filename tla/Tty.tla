-------------------------------- MODULE Tty --------------------------------
(***************************************************************************)
(* The keyboard (kernel/cpu/kbd.c) and the pty it types into               *)
(* (kernel/sys/fs/dev/tty.c), as kmain connects them: one pty, keys go     *)
(* through its master and tty_input_process to the screen and to the ring  *)
(* that processes read (pty->in, the rb of RingBuffer), and what processes *)
(* write goes to the screen.                                               *)
(*                                                                         *)
(* No call changes the modes of a pty: echo is on, '\r' is discarded,      *)
(* other characters pass unchanged (kmain clears ONLCR), and a read takes  *)
(* what the ring has, because read_pty_slave looks for ICANON in cflag,    *)
(* where that bit is always set.  The keyboard interrupt is served in user *)
(* mode and in the idle loop; a system call runs to its end.               *)
(***************************************************************************)
EXTENDS RingBuffer, SequencesExt

CONSTANTS
    Keys,       \* the keys that can give a character
    KbdBuffer,  \* scancodes the keyboard keeps until it is served
    MaxTyped    \* bound on the characters typed

Differs(a, b) == a # b

(* A character is its key and whether 32 is subtracted from its code.      *)
(* Enter and Backspace never change.  A space becomes 0, which is no       *)
(* character, and '-' becomes 13.                                          *)
Char(key, upper) == <<key, upper /\ key \notin {"enter", "backspace"}>>
Nul == <<"space", TRUE>>
CR  == <<"minus", TRUE>>

(* Does _kbd_chr give a character?  And is a character one that the line   *)
(* takes?                                                                  *)
Gives(code, upper) == code \in Keys /\ Char(code, upper) # Nul
Taken(c) == c[1] \in Keys /\ c \notin {Nul, CR}

ASSUME TtyAssumption ==
    /\ Values = {c \in {Char(typed[1], typed[2]) : typed \in Keys \X BOOLEAN} : Taken(c)}
    /\ Keys \cap {"shift down", "shift up", "caps lock"} = {}
    /\ KbdBuffer \in Nat /\ MaxTyped \in Nat
    /\ MaxTransfer >= 1

VARIABLES
    down, locked,       \* is Shift held, is Caps Lock on: the user's view
    scancodes,          \* scancodes to be served, with the character meant
    missed,             \* has the keyboard dropped one?
    _kbd_shift, _kbd_caps_lock,
    handed,             \* characters the keyboard has handed to the line
    echoed,             \* those on the screen
    received,           \* characters processes have read, in order
    dropped             \* characters there was no room for

user == <<down, locked>>
tty == <<_kbd_shift, _kbd_caps_lock, ringvars, handed, echoed, received, dropped>>
vars == <<user, scancodes, missed, tty>>

(* Where the scancodes of characters are among those to be served. *)
Unserved == {i \in DOMAIN scancodes : scancodes[i].code \in Keys}

Init ==
    /\ down = FALSE /\ locked = FALSE
    /\ scancodes = <<>> /\ missed = FALSE
    /\ _kbd_shift = FALSE /\ _kbd_caps_lock = FALSE
    /\ RingInit
    /\ handed = <<>> /\ echoed = <<>> /\ received = <<>> /\ dropped = 0

(* The keyboard: it keeps a few scancodes and drops what comes then. *)
Send(code) ==
    /\ IF Len(scancodes) < KbdBuffer
         THEN /\ scancodes' = Append(scancodes,
                    [code |-> code, meant |-> Char(code, Differs(down, locked))])
              /\ UNCHANGED missed
         ELSE missed' = TRUE /\ UNCHANGED scancodes
    /\ UNCHANGED tty

Shift ==
    /\ down' = ~down
    /\ Send(IF down THEN "shift up" ELSE "shift down")
    /\ UNCHANGED locked

CapsLock ==
    /\ locked' = ~locked
    /\ Send("caps lock")
    /\ UNCHANGED down

Type(key) ==
    /\ Len(handed) + Cardinality(Unserved) < MaxTyped
    /\ Send(key)
    /\ UNCHANGED user

(* Faulty: releasing Shift is not noticed. *)
_kbd_chr_sticky(code) ==
    /\ _kbd_shift' = (_kbd_shift \/ code = "shift down")
    /\ _kbd_caps_lock' = Differs(_kbd_caps_lock, code = "caps lock")

(* _kbd_chr: what a scancode does to the two flags. *)
_kbd_chr(code) ==
    /\ _kbd_shift' = IF code = "shift down" THEN TRUE
                     ELSE IF code = "shift up" THEN FALSE ELSE _kbd_shift
    /\ _kbd_caps_lock' = Differs(_kbd_caps_lock, code = "caps lock")

(* Faulty: the character is shown only when there was room for it, and     *)
(* counted in any case.                                                    *)
tty_input_quiet(c) ==
    /\ handed' = Append(handed, c)
    /\ IF c = CR
         THEN UNCHANGED <<echoed, ringvars, dropped>>
         ELSE /\ echoed' = IF ringbuffer_avail(rb) = 0 THEN echoed ELSE Append(echoed, c)
              /\ Write(<<c>>)
              /\ dropped' = dropped + 1 - taken'

(* tty_input_process.  Some bit of iflag is always set, so that            *)
(* iflag * IGNCR is not 0 and '\r' is discarded before anything else; any  *)
(* other character is echoed, then put in the ring if there is room.       *)
tty_input_process(c) ==
    /\ handed' = Append(handed, c)
    /\ IF c = CR
         THEN UNCHANGED <<echoed, ringvars, dropped>>
         ELSE /\ echoed' = Append(echoed, c)
              /\ Write(<<c>>)
              /\ dropped' = dropped + 1 - taken'

(* kbd_handler. *)
kbd_handler ==
    /\ scancodes # <<>>
    /\ scancodes' = Tail(scancodes)
    /\ LET code == Head(scancodes).code IN
       /\ _kbd_chr(code)
       /\ IF Gives(code, Differs(_kbd_shift, _kbd_caps_lock))
            THEN tty_input_process(Char(code, Differs(_kbd_shift, _kbd_caps_lock)))
            ELSE UNCHANGED <<handed, echoed, ringvars, dropped>>
    /\ UNCHANGED <<user, missed, received>>

(* read_pty_slave, by any process. *)
read_pty_slave(size) ==
    /\ ringbuffer_readable(rb) > 0
    /\ Read(size)
    /\ received' = received \o given'
    /\ UNCHANGED <<user, scancodes, missed, _kbd_shift, _kbd_caps_lock, handed,
                   echoed, dropped>>

Next ==
    \/ Shift \/ CapsLock
    \/ \E key \in Keys : Type(key)
    \/ kbd_handler
    \/ \E size \in 1 .. MaxTransfer : read_pty_slave(size)

Spec == Init /\ [][Next]_vars

-----------------------------------------------------------------------------
TypeOK ==
    /\ down \in BOOLEAN /\ locked \in BOOLEAN /\ missed \in BOOLEAN
    /\ _kbd_shift \in BOOLEAN /\ _kbd_caps_lock \in BOOLEAN
    /\ Len(scancodes) <= KbdBuffer
    /\ RingTypeOK
    /\ handed \in Seq(Values \cup {CR})
    /\ echoed \in Seq(Values) /\ received \in Seq(Values)
    /\ dropped \in 0 .. MaxTyped

(* However far the handler is behind the keys, a key whose scancode is     *)
(* served shows the character that Shift and Caps Lock made of it when it  *)
(* was pressed, and nothing for a modifier, a space that they turn into 0  *)
(* and a '-' that they turn into '\r', as long as the keyboard itself has  *)
(* dropped nothing.                                                        *)
TypedAsMeant ==
    [][~missed /\ Len(scancodes') < Len(scancodes) =>
          LET c == Head(scancodes).meant IN
          echoed' = IF Taken(c) THEN Append(echoed, c) ELSE echoed]_vars

(* The characters of t at the places in kept, in order. *)
Kept(t, kept) ==
    [k \in 1 .. Cardinality(kept) |->
        t[CHOOSE i \in kept : Cardinality({j \in kept : j <= i}) = k]]

IsSubsequence(s, t) == \E kept \in SUBSET DOMAIN t : s = Kept(t, kept)

(* What the screen shows are the characters the keyboard has handed to the *)
(* line, in order, except each '\r' (Shift or Caps Lock and '-'), which    *)
(* the line discards.  What processes have read and can still read are the *)
(* characters shown, in order and each once, whichever process reads how   *)
(* much at a time; one is missing for each that came when the ring was     *)
(* full.                                                                   *)
ReadsFollowKeys ==
    LET held == received \o Contents(rb) IN
    /\ TypeOK
    /\ echoed = Kept(handed, {i \in DOMAIN handed : handed[i] # CR})
    /\ IsSubsequence(held, echoed)
    /\ Len(held) + dropped = Len(echoed)
=============================================================================
