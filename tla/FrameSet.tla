------------------------------ MODULE FrameSet ------------------------------
(***************************************************************************)
(* What the frame allocator promises its callers, without bitmap, words or *)
(* hint: a set of free frames from which a request always gets the lowest  *)
(* free frame (or run of frames), and fails only when there is none.       *)
(***************************************************************************)
EXTENDS Integers, FiniteSetsExt

CONSTANTS
    All,        \* every frame of physical memory
    Single,     \* the frames a request for one frame may return
    Nothing,    \* the answer of a request that fails
    MaxRun      \* longest run requested

VARIABLES
    free,       \* the free frames
    held,       \* the frames callers have been given and not returned
    ready,      \* has the allocator been set up?
    answer      \* the result of the last request

absVars == <<free, held, ready, answer>>

AbsInit ==
    /\ free = {}
    /\ held = {}
    /\ ready = FALSE
    /\ answer = Nothing

(* Set-up: available memory is announced, then the kernel's own is kept.   *)
Publish(f) ==
    /\ ~ready
    /\ free' = free \cup {f}
    /\ UNCHANGED <<held, ready, answer>>

Reserve(S) ==
    /\ ~ready
    /\ ready' = TRUE
    /\ free' = free \ S
    /\ UNCHANGED <<held, answer>>

(* A request gives out the lowest candidate and all frames of its run. *)
Give(candidates, n) ==
    /\ ready
    /\ IF candidates = {}
         THEN /\ answer' = Nothing
              /\ UNCHANGED <<free, held>>
         ELSE LET first == Min(candidates) IN
              /\ answer' = first
              /\ free' = free \ (first .. first + n - 1)
              /\ held' = held \cup (first .. first + n - 1)
    /\ UNCHANGED ready

Take == Give(free \cap Single, 1)

TakeRun(n) == Give({i \in All : i .. i + n - 1 \subseteq free}, n)

Return(f) ==
    /\ ready
    /\ f \in held
    /\ held' = held \ {f}
    /\ free' = free \cup {f}
    /\ UNCHANGED <<ready, answer>>

AbsNext ==
    \/ \E f \in All : Publish(f) \/ Return(f)
    \/ \E S \in SUBSET All : Reserve(S)
    \/ Take
    \/ \E n \in 1 .. MaxRun : TakeRun(n)

AbsSpec == AbsInit /\ [][AbsNext]_absVars
=============================================================================
