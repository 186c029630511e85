----------------------------- MODULE MCRamdisk ------------------------------
(* Ramdisk with every tree of at most three files and directories over     *)
(* these paths, some of the same name, texts of up to three bytes, and one *)
(* dot anywhere in each listing.                                           *)
EXTENDS Ramdisk

Paths == {<<"z">>} \cup UNION {[1 .. n -> {"x", "y"}] : n \in 1 .. 3}
MCTexts == {<<>>, <<1>>, <<1, 2, 3>>}

Above(path) == SubSeq(path, 1, Len(path) - 1)

(* Listings of directory d of a tree with these paths. *)
Listings(paths, d) ==
    SetToSeqs({Last(p) : p \in {q \in paths : Above(q) = d}} \cup {Dot})

TreesOf(paths, dirs) ==
    [listing : {f \in [dirs -> UNION {Listings(paths, d) : d \in dirs}] :
                    \A d \in dirs : f[d] \in Listings(paths, d)},
     text : [paths \ dirs -> MCTexts]]

MCTrees ==
    UNION {UNION {TreesOf(paths, dirs \cup {<<>>}) :
                    dirs \in {ds \in SUBSET paths :
                                \A p \in paths : Above(p) \in ds \cup {<<>>}}} :
            paths \in UNION {kSubset(n, Paths) : n \in 0 .. 3}}
=============================================================================
