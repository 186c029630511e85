---------------------------- MODULE MCPageTables ----------------------------
(* PageTables with tables of two entries: the user half has eight pages,   *)
(* and a table of each level below the first has a neighbour.              *)
EXTENDS PageTables

(* Which of the free frames a request gets makes no difference but for the *)
(* numbers of frames: states with the same view have the same tables in    *)
(* the same places, as many free frames, and share the same pages.         *)
Way(p, v) ==
    LET Behind(t, level) == mem.tables[t][Index(v, level)].frame
        second == Behind(directory[p], 1)
        third == Behind(second, 2) IN
    <<second # NoFrame, third # NoFrame, Behind(third, 3) # NoFrame>>
Shape(p) ==
    [v \in Pages |->
        LET e == EntryOf(mem, directory[p], v) IN
        <<Way(p, v), Present(e), e.user, e.writable, e.cow, mem.mem_refcounts[e.frame]>>]
Shared ==
    {<<p, v, q, w>> \in Procs \X UserArea \X Procs \X UserArea :
        EntryOf(mem, directory[p], v).frame = EntryOf(mem, directory[q], w).frame}
FramesAside ==
    <<heap, {p \in Procs : Exists(p)}, Cardinality(mem.frames), Shared,
      [p \in Procs |-> Shape(p)]>>

MCImages == {<<3>>}
MCStack == <<7>>
MCPointers == {<<0, 1>>, <<1, 2>>, <<3, 3>>, <<2, 3>>, <<3, 4>>, <<4, 5>>, <<7, 7>>}
=============================================================================
