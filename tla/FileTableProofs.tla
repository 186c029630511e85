--------------------------- MODULE FileTableProofs ---------------------------
(***************************************************************************)
(* File descriptors for any processes, files, sizes of the tables and of   *)
(* the heap: each node has one descriptor, offsets stay inside the files,  *)
(* and the descriptors behave as values.                                   *)
(***************************************************************************)
EXTENDS FileTable, TLAPS, SequenceTheorems, WellFoundedInduction, FiniteSetTheorems

(* What may be in the table of a process. *)
Entry == Nodes \cup {Closed}
Rows == UNION {[1 .. n -> Entry] : n \in 0 .. MaxFds}

(* The nodes in a row, and of a process. *)
RowNodes(s) == IF s = Absent THEN {} ELSE {s[k] : k \in DOMAIN s} \ {Closed}
Own(p) == RowNodes(fds[p])

FdsType == fds \in [Pids -> Rows \cup {Absent}]

HeapType ==
    /\ node \in [Nodes -> NodeValues \cup {Unused}]
    /\ linked \subseteq Regular \cup Ptys
    /\ length \in [Regular -> Offsets] /\ strayed \in BOOLEAN

(* No two entries of a row have the same node. *)
Distinct(s) == \A k, l \in DOMAIN s : s[k] = s[l] /\ s[k] # Closed => k = l

(* Each node that is allocated belongs to one entry of one process. *)
OwnedOnce ==
    /\ \A p \in Running : Distinct(fds[p])
    /\ \A p, q \in Pids : p # q => Own(p) \cap Own(q) = {}
    /\ \A x \in Nodes : node[x] # Unused <=> \E p \in Pids : x \in Own(p)

(* A regular file that is open is still there. *)
OpenFilesExist ==
    \A x \in Live : node[x].file \in Regular => node[x].file \in linked

IInv ==
    /\ FdsType /\ HeapType
    /\ OwnedOnce
    /\ OpenFilesExist /\ OffsetsStayInside
-----------------------------------------------------------------------------
(* Rows. *)

(* A set of numbers that is not empty has a least one, which Min gives. *)
LEMMA LeastExists == ASSUME NEW S \in SUBSET Nat, S # {} PROVE Min(S) \in S
<1>1. PICK x \in S : \A y \in S : ~ (<<y, x>> \in OpToRel(<, Nat))
  BY NatLessThanWellFounded, WFMin
<1>2. \A y \in S : x <= y
  <2>. SUFFICES ASSUME NEW y \in S, y < x PROVE FALSE
    OBVIOUS
  <2>1. <<y, x>> \in OpToRel(<, Nat)
    BY DEF OpToRel
  <2>. QED
    BY <1>1, <2>1
<1>. QED
  BY <1>1, <1>2 DEF Min

(* No row of a table is the mark of a slot without a process. *)
LEMMA RowIsNotAbsent ==
  ASSUME NEW n \in 0 .. MaxFds, NEW s \in [1 .. n -> Nodes \cup NodeValues \cup {Closed}]
  PROVE  s # Absent
  BY FileTableAssumption

(* A row is a sequence of at most MaxFds entries. *)
LEMMA RowIsSequence ==
  ASSUME NEW s \in Rows
  PROVE  /\ s \in Seq(Entry) /\ Len(s) \in 0 .. MaxFds /\ DOMAIN s = 1 .. Len(s)
         /\ s \in [1 .. Len(s) -> Entry]
         /\ s # Absent
<1>1. PICK n \in 0 .. MaxFds : s \in [1 .. n -> Entry]
  BY DEF Rows
<1>2. n \in Nat
  BY FileTableAssumption
<1>3. s \in Seq(Entry) /\ Len(s) = n
  BY <1>1, <1>2, SeqDef, LenProperties
<1>4. s \in [1 .. n -> Nodes \cup NodeValues \cup {Closed}]
  BY <1>1 DEF Entry
<1>. QED
  BY <1>1, <1>3, <1>4, RowIsNotAbsent

(* A function on 1 .. n is a sequence of length n. *)
LEMMA RowIsSeq ==
  ASSUME NEW T, NEW n \in Nat, NEW s \in [1 .. n -> T]
  PROVE  s \in Seq(T) /\ Len(s) = n
<1>1. s \in Seq(T)
  BY SeqDef
<1>. QED
  BY <1>1, LenProperties

(* Appending to a row. *)
LEMMA AppendToRow ==
  ASSUME NEW T, NEW s \in Seq(T), NEW e \in T
  PROVE  /\ Append(s, e) \in [1 .. Len(s) + 1 -> T]
         /\ Append(s, e) = [k \in 1 .. Len(s) + 1 |-> IF k = Len(s) + 1 THEN e ELSE s[k]]
<1>1. /\ Append(s, e) \in Seq(T) /\ Len(Append(s, e)) = Len(s) + 1
      /\ \A i \in 1 .. Len(s) : Append(s, e)[i] = s[i]
      /\ Append(s, e)[Len(s) + 1] = e
  BY AppendProperties
<1>2. Append(s, e) \in [1 .. Len(s) + 1 -> T]
  BY <1>1, LenProperties
<1>3. Len(s) \in Nat
  BY LenProperties
<1>. DEFINE a == Append(s, e)
            n == Len(s)
<1>4. a \in [1 .. n + 1 -> T] /\ n \in Nat /\ a[n + 1] = e /\ \A i \in 1 .. n : a[i] = s[i]
  BY <1>1, <1>2, <1>3
<1>. HIDE DEF a, n
<1>5. a = [k \in 1 .. n + 1 |-> IF k = n + 1 THEN e ELSE s[k]]
  <2>1. \A k \in 1 .. n + 1 : a[k] = IF k = n + 1 THEN e ELSE s[k]
    BY <1>4
  <2>. QED
    BY <1>4, <2>1
<1>. QED
  BY <1>4, <1>5 DEF a, n

(* Cutting a row off. *)
LEMMA CutRow ==
  ASSUME NEW T, NEW s \in Seq(T), NEW m \in Nat, m <= Len(s)
  PROVE  /\ SubSeq(s, 1, m) \in [1 .. m -> T]
         /\ SubSeq(s, 1, m) = [k \in 1 .. m |-> s[k]]
<1>1. Len(s) \in Nat /\ DOMAIN s = 1 .. Len(s) /\ s \in [1 .. Len(s) -> T]
  BY LenProperties
<1>. DEFINE c == SubSeq(s, 1, m)
<1>2. \A i \in 1 .. m : s[i] \in T
  BY <1>1
<1>3. c \in Seq(T) /\ Len(c) = m /\ \A i \in 1 .. m : c[i] = s[i]
  <2>1. 1 \in Int /\ m \in Int /\ \A i \in 1 .. m : s[i] \in T
    BY <1>2
  <2>2. /\ SubSeq(s, 1, m) \in Seq(T)
        /\ Len(SubSeq(s, 1, m)) = IF 1 <= m THEN m - 1 + 1 ELSE 0
        /\ \A i \in 1 .. m - 1 + 1 : SubSeq(s, 1, m)[i] = s[1 + i - 1]
    BY <2>1, SubSeqProperties
  <2>3. m - 1 + 1 = m /\ (1 <= m \/ m = 0) /\ \A i \in 1 .. m : 1 + i - 1 = i
    OBVIOUS
  <2>4. \A i \in 1 .. m : SubSeq(s, 1, m)[i] = s[i]
    BY <2>2, <2>3
  <2>. QED
    BY <2>2, <2>3, <2>4
<1>. HIDE DEF c
<1>4. c \in [1 .. m -> T]
  BY <1>3, LenProperties
<1>5. c = [k \in 1 .. m |-> s[k]]
  BY <1>3, <1>4
<1>. QED
  BY <1>4, <1>5 DEF c

(* The type invariant follows. *)
LEMMA TypesFollow ==
  ASSUME FdsType, HeapType, leaked \subseteq Nodes, forgets \in Nat
  PROVE  TypeOK
<1>. SUFFICES ASSUME NEW p \in Running
              PROVE  fds[p] \in Seq(Nodes \cup {Closed}) /\ Len(fds[p]) <= MaxFds
  BY DEF TypeOK, HeapType
<1>1. fds[p] \in Rows
  BY DEF Running, Alive, FdsType
<1>2. Len(fds[p]) \in 0 .. MaxFds => Len(fds[p]) <= MaxFds
  BY FileTableAssumption
<1>. QED
  BY <1>1, <1>2, RowIsSequence DEF Entry

(* The nodes of a row are nodes, and a process without one has none. *)
LEMMA RowHasNodes ==
  ASSUME NEW s \in Rows \cup {Absent}
  PROVE  RowNodes(s) \subseteq Nodes
<1>1. CASE s = Absent
  BY <1>1 DEF RowNodes
<1>2. CASE s \in Rows
  <2>1. s \in [1 .. Len(s) -> Entry] /\ DOMAIN s = 1 .. Len(s)
    BY <1>2, RowIsSequence
  <2>. QED
    BY <2>1 DEF RowNodes, Entry
<1>. QED
  BY <1>1, <1>2

(* When the row of one process is replaced by one with nodes of its own    *)
(* and free ones, which are in use afterwards while the others it had are  *)
(* free, then nodes still have one owner and every other process sees what *)
(* it saw.                                                                 *)
LEMMA RowStep ==
  ASSUME FdsType, OwnedOnce,
         NEW p \in Pids, NEW s \in Rows \cup {Absent},
         s # Absent => Distinct(s),
         RowNodes(s) \subseteq Own(p) \cup Free,
         fds' = [fds EXCEPT ![p] = s],
         \A x \in Nodes : x \notin Own(p) \cup RowNodes(s) => node'[x] = node[x],
         \A x \in RowNodes(s) : node'[x] # Unused,
         \A x \in Own(p) \ RowNodes(s) : node'[x] = Unused
  PROVE  /\ FdsType' /\ OwnedOnce'
         /\ \A q \in Pids : q # p => Seen(q)' = Seen(q)
<1>1. FdsType'
  BY DEF FdsType
<1>2. fds'[p] = s /\ \A q \in Pids : q # p => fds'[q] = fds[q]
  BY DEF FdsType
<1>3. Own(p)' = RowNodes(s) /\ \A q \in Pids : q # p => Own(q)' = Own(q)
  BY <1>2 DEF Own
<1>4. \A q \in Pids : Own(q) \subseteq Nodes
  BY RowHasNodes DEF FdsType, Own
<1>5. RowNodes(s) \subseteq Nodes
  BY RowHasNodes
<1>6. \A q \in Pids : q # p => Own(q) \cap Own(p) = {} /\ Own(q) \cap Free = {}
  BY <1>4 DEF OwnedOnce, Free, Live
<1>7. \A q \in Pids : q # p => Own(q) \cap RowNodes(s) = {}
  BY <1>6
<1>8. OwnedOnce'
  <2>1. \A q \in Running' : Distinct(fds'[q])
    <3>. SUFFICES ASSUME NEW q \in Pids, fds'[q] # Absent PROVE Distinct(fds'[q])
      BY DEF Running, Alive
    <3>. QED
      BY <1>2 DEF OwnedOnce, Running, Alive
  <2>2. \A q, r \in Pids : q # r => Own(q)' \cap Own(r)' = {}
    <3>. SUFFICES ASSUME NEW q \in Pids, NEW r \in Pids, q # r PROVE Own(q)' \cap Own(r)' = {}
      OBVIOUS
    <3>1. CASE q = p
      BY <3>1, <1>3, <1>7
    <3>2. CASE r = p
      BY <3>2, <1>3, <1>7
    <3>3. CASE q # p /\ r # p
      BY <3>3, <1>3 DEF OwnedOnce
    <3>. QED
      BY <3>1, <3>2, <3>3
  <2>3. \A x \in Nodes : node'[x] # Unused <=> \E q \in Pids : x \in Own(q)'
    <3>. SUFFICES ASSUME NEW x \in Nodes
                  PROVE  node'[x] # Unused <=> \E q \in Pids : x \in Own(q)'
      OBVIOUS
    <3>1. CASE x \in RowNodes(s)
      BY <3>1, <1>3
    <3>2. CASE x \in Own(p) \ RowNodes(s)
      <4>1. node'[x] = Unused
        BY <3>2
      <4>2. \A q \in Pids : x \notin Own(q)'
        BY <3>2, <1>3, <1>6
      <4>. QED
        BY <4>1, <4>2
    <3>3. CASE x \notin Own(p) \cup RowNodes(s)
      <4>1. node'[x] = node[x]
        BY <3>3
      <4>2. node[x] # Unused <=> \E q \in Pids : x \in Own(q)
        BY DEF OwnedOnce
      <4>3. (\E q \in Pids : x \in Own(q)) <=> \E q \in Pids : x \in Own(q)'
        BY <3>3, <1>3
      <4>. QED
        BY <4>1, <4>2, <4>3
    <3>. QED
      BY <3>1, <3>2, <3>3
  <2>. QED
    BY <2>1, <2>2, <2>3 DEF OwnedOnce
<1>9. ASSUME NEW q \in Pids, q # p PROVE Seen(q)' = Seen(q)
  <2>1. fds'[q] = fds[q]
    BY <1>2, <1>9
  <2>2. CASE fds[q] = Absent
    BY <2>1, <2>2 DEF Seen, Alive
  <2>3. CASE fds[q] # Absent
    <3>1. \A k \in DOMAIN fds[q] : fds[q][k] # Closed => node'[fds[q][k]] = node[fds[q][k]]
      <4>. SUFFICES ASSUME NEW k \in DOMAIN fds[q], fds[q][k] # Closed
                    PROVE  node'[fds[q][k]] = node[fds[q][k]]
        OBVIOUS
      <4>1. fds[q][k] \in Own(q)
        BY <2>3 DEF Own, RowNodes
      <4>. QED
        BY <4>1, <1>4, <1>6, <1>7, <1>9
    <3>. QED
      BY <2>1, <2>3, <3>1 DEF Seen, Alive
  <2>. QED
    BY <2>2, <2>3
<1>. QED
  BY <1>1, <1>8, <1>9
-----------------------------------------------------------------------------
(* What a process sees. *)

(* The tables of values that Descriptors speaks of. *)
Map == [q \in Pids |-> Seen(q)]

(* A process with a row sees a row of values of the same length. *)
LEMMA SeenRow ==
  ASSUME FdsType, HeapType, NEW p \in Running
  PROVE  /\ fds[p] \in Rows /\ Len(fds[p]) \in 0 .. MaxFds /\ DOMAIN fds[p] = 1 .. Len(fds[p])
         /\ fds[p] \in [1 .. Len(fds[p]) -> Entry] /\ fds[p] \in Seq(Entry)
         /\ Own(p) \subseteq Nodes
         /\ Own(p) = {fds[p][k] : k \in 1 .. Len(fds[p])} \ {Closed}
         /\ Seen(p) = [k \in 1 .. Len(fds[p]) |->
                         IF fds[p][k] = Closed THEN Closed ELSE node[fds[p][k]]]
<1>1. p \in Pids /\ fds[p] \in Rows /\ fds[p] # Absent
  BY DEF Running, Alive, FdsType
<1>2. /\ Len(fds[p]) \in 0 .. MaxFds /\ DOMAIN fds[p] = 1 .. Len(fds[p])
      /\ fds[p] \in [1 .. Len(fds[p]) -> Entry] /\ fds[p] \in Seq(Entry)
  BY <1>1, RowIsSequence
<1>3. Own(p) \subseteq Nodes
  BY <1>1, RowHasNodes DEF Own
<1>4. Own(p) = {fds[p][k] : k \in 1 .. Len(fds[p])} \ {Closed}
  BY <1>1, <1>2 DEF Own, RowNodes
<1>. QED
  BY <1>1, <1>2, <1>3, <1>4 DEF Seen, Alive

(* Nodes that are in use have values. *)
LEMMA OwnedHaveValues ==
  ASSUME HeapType, OwnedOnce, NEW p \in Pids, NEW x \in Own(p), x \in Nodes
  PROVE  node[x] \in NodeValues /\ x \in Live
<1>1. node[x] # Unused
  BY DEF OwnedOnce
<1>. QED
  BY <1>1 DEF HeapType, Free, Live

(* The row a process sees is a sequence. *)
LEMMA SeenValues ==
  ASSUME FdsType, HeapType, OwnedOnce, NEW p \in Running
  PROVE  /\ Seen(p) \in [1 .. Len(fds[p]) -> NodeValues \cup {Closed}]
         /\ Seen(p) \in Seq(NodeValues \cup {Closed}) /\ Len(Seen(p)) = Len(fds[p])
         /\ Seen(p) # Absent
<1>1. p \in Pids
  BY DEF Running
<1>2. Len(fds[p]) \in Nat
  BY SeenRow, FileTableAssumption
<1>3. ASSUME NEW k \in 1 .. Len(fds[p]), fds[p][k] # Closed PROVE node[fds[p][k]] \in NodeValues
  BY <1>1, <1>3, SeenRow, OwnedHaveValues
<1>4. Seen(p) \in [1 .. Len(fds[p]) -> NodeValues \cup {Closed}]
  BY <1>3, SeenRow
<1>5. Seen(p) \in Seq(NodeValues \cup {Closed})
  BY <1>2, <1>4, SeqDef
<1>6. Len(Seen(p)) = Len(fds[p])
  BY <1>2, <1>4, <1>5, LenProperties
<1>7. Seen(p) # Absent
  <2>1. Len(fds[p]) \in 0 .. MaxFds
    BY SeenRow
  <2>2. Seen(p) \in [1 .. Len(fds[p]) -> Nodes \cup NodeValues \cup {Closed}]
    BY <1>4
  <2>. QED
    BY <2>1, <2>2, RowIsNotAbsent
<1>. QED
  BY <1>4, <1>5, <1>6, <1>7

(* A step that leaves the others what they see changes one entry of Map. *)
LEMMA OneChanges ==
  ASSUME NEW p \in Pids, \A q \in Pids : q # p => Seen(q)' = Seen(q)
  PROVE  Map' = [Map EXCEPT ![p] = Seen(p)']
  BY DEF Map

(* A change that Descriptors allows. *)
LEMMA ChangesStep == ASSUME Table!Changes(Map, Map') PROVE Table!AbsNext
  BY DEF Table!AbsNext, Map

-----------------------------------------------------------------------------
(* Files. *)

(* When every node in use afterwards is a copy of one that was, and no     *)
(* regular file goes away or changes, offsets stay inside the files.       *)
LEMMA HeapCopies ==
  ASSUME OpenFilesExist, OffsetsStayInside,
         UNCHANGED <<length, strayed>>, linked \cap Regular \subseteq linked',
         \A x \in Nodes : node'[x] # Unused =>
            \E y \in Nodes : node[y] # Unused /\ node'[x] = node[y]
  PROVE  OpenFilesExist' /\ OffsetsStayInside'
<1>1. ASSUME NEW x \in Live', node'[x].file \in Regular
      PROVE  /\ node'[x].file \in linked'
             /\ ~strayed' => /\ node'[x].user_offset <= length'[node'[x].file]
                             /\ node'[x].length <= length'[node'[x].file]
  <2>1. PICK y \in Nodes : node[y] # Unused /\ node'[x] = node[y]
    BY DEF Free, Live
  <2>2. y \in Live
    BY <2>1 DEF Free, Live
  <2>3. node[y].file \in linked
    BY <1>1, <2>1, <2>2 DEF OpenFilesExist
  <2>4. ~strayed => /\ node[y].user_offset <= length[node[y].file]
                    /\ node[y].length <= length[node[y].file]
    BY <1>1, <2>1, <2>2 DEF OffsetsStayInside
  <2>. QED
    BY <1>1, <2>1, <2>3, <2>4
<1>. QED
  BY <1>1 DEF OpenFilesExist, OffsetsStayInside
-----------------------------------------------------------------------------
(* Appending a descriptor. *)

(* The row with a free node at its end. *)
LEMMA LongerRow ==
  ASSUME FdsType, HeapType, OwnedOnce, NEW p \in Running, NEW x \in Free,
         Len(fds[p]) < MaxFds
  PROVE  /\ Append(fds[p], x) \in Rows /\ Distinct(Append(fds[p], x))
         /\ RowNodes(Append(fds[p], x)) = Own(p) \cup {x}
         /\ Append(fds[p], x) =
              [k \in 1 .. Len(fds[p]) + 1 |-> IF k = Len(fds[p]) + 1 THEN x ELSE fds[p][k]]
<1>. DEFINE n == Len(fds[p])
            s == Append(fds[p], x)
<1>1. /\ n \in 0 .. MaxFds /\ n \in Nat /\ n < MaxFds /\ n + 1 \in 0 .. MaxFds
      /\ x \in Nodes /\ x \in Entry /\ x # Closed /\ node[x] = Unused
      /\ fds[p] \in Seq(Entry) /\ fds[p] \in [1 .. n -> Entry]
      /\ p \in Pids
  BY SeenRow, FileTableAssumption DEF Free, Live, Entry, Running
<1>2. s \in [1 .. n + 1 -> Entry] /\ s = [k \in 1 .. n + 1 |-> IF k = n + 1 THEN x ELSE fds[p][k]]
  BY <1>1, AppendToRow
<1>3. x \notin Own(p)
  BY <1>1 DEF OwnedOnce
<1>4. Own(p) = {fds[p][k] : k \in 1 .. n} \ {Closed}
  BY SeenRow
<1>5. Distinct(fds[p]) /\ DOMAIN fds[p] = 1 .. n
  BY SeenRow DEF OwnedOnce
<1>. HIDE DEF n, s
<1>6. /\ DOMAIN s = 1 .. n + 1 /\ 1 .. n + 1 = (1 .. n) \cup {n + 1} /\ s[n + 1] = x
      /\ \A k \in 1 .. n : s[k] = fds[p][k]
  BY <1>1, <1>2
<1>7. s \in Rows
  BY <1>1, <1>2 DEF Rows
<1>8. Distinct(s)
  <2>. SUFFICES ASSUME NEW k \in DOMAIN s, NEW l \in DOMAIN s, s[k] = s[l], s[k] # Closed
                PROVE  k = l
    BY DEF Distinct
  <2>1. ASSUME NEW i \in 1 .. n PROVE s[i] # x \/ x = Closed
    BY <2>1, <1>3, <1>4, <1>6
  <2>2. CASE k \in 1 .. n /\ l \in 1 .. n
    BY <2>2, <1>5, <1>6 DEF Distinct
  <2>3. CASE k = n + 1 \/ l = n + 1
    BY <2>1, <2>3, <1>1, <1>6
  <2>. QED
    BY <2>2, <2>3, <1>6
<1>9. RowNodes(s) = Own(p) \cup {x}
  <2>1. s # Absent
    BY <1>7, RowIsSequence
  <2>2. RowNodes(s) = {s[k] : k \in 1 .. n + 1} \ {Closed}
    BY <2>1, <1>6 DEF RowNodes
  <2>3. {s[k] : k \in 1 .. n + 1} = {fds[p][k] : k \in 1 .. n} \cup {x}
    BY <1>6
  <2>. QED
    BY <2>2, <2>3, <1>1, <1>4
<1>. QED
  BY <1>2, <1>7, <1>8, <1>9 DEF n, s

(* A descriptor is appended for a node that was free. *)
LEMMA AppendStep ==
  ASSUME FdsType, HeapType, OwnedOnce, NEW p \in Running, NEW x \in Free,
         NEW v \in NodeValues, AppendFd(p, x, v)
  PROVE  /\ FdsType' /\ OwnedOnce'
         /\ node' \in [Nodes -> NodeValues \cup {Unused}]
         /\ node' = [node EXCEPT ![x] = v] /\ x \in Nodes
         /\ Map' = [Map EXCEPT ![p] = Append(Map[p], v)]
         /\ Map'[p] # Absent /\ Len(Map'[p]) = Len(Map[p]) + 1
         /\ Map'[p][Len(Map'[p])] = v
         /\ Map[p] = Seen(p) /\ Map[p] # Absent
<1>. DEFINE n == Len(fds[p])
            s == Append(fds[p], x)
            w == Append(Seen(p), v)
<1>1. /\ n < MaxFds /\ fds' = [fds EXCEPT ![p] = s] /\ node' = [node EXCEPT ![x] = v]
      /\ p \in Pids /\ x \in Nodes /\ node[x] = Unused
  BY DEF AppendFd, Running, Free, Live
<1>2. s \in Rows /\ Distinct(s) /\ RowNodes(s) = Own(p) \cup {x}
      /\ s = [k \in 1 .. n + 1 |-> IF k = n + 1 THEN x ELSE fds[p][k]]
  BY <1>1, LongerRow
<1>3. /\ n \in Nat /\ fds[p] \in [1 .. n -> Entry]
      /\ Seen(p) = [k \in 1 .. n |-> IF fds[p][k] = Closed THEN Closed ELSE node[fds[p][k]]]
      /\ Own(p) \subseteq Nodes /\ Own(p) = {fds[p][k] : k \in 1 .. n} \ {Closed}
  BY SeenRow
<1>4. /\ Seen(p) \in Seq(NodeValues \cup {Closed}) /\ Len(Seen(p)) = n /\ Seen(p) # Absent
  BY SeenValues
<1>5. w = [k \in 1 .. n + 1 |-> IF k = n + 1 THEN v ELSE Seen(p)[k]] /\ w \in [1 .. n + 1 -> NodeValues \cup {Closed}]
  BY <1>4, AppendToRow
<1>5a. Len(w) = n + 1
  BY <1>4, AppendProperties
<1>6. s # Absent
  BY <1>2, RowIsSequence
<1>7. v # Unused /\ v # Closed /\ x # Closed
  BY FileTableAssumption, <1>1
<1>8. node \in [Nodes -> NodeValues \cup {Unused}]
  BY DEF HeapType
<1>. HIDE DEF n, s, w
<1>9. node' \in [Nodes -> NodeValues \cup {Unused}] /\ node'[x] = v
      /\ \A y \in Nodes : y # x => node'[y] = node[y]
  BY <1>1, <1>8
<1>10. \A y \in Own(p) : node[y] # Unused
  BY <1>1, <1>3 DEF OwnedOnce
<1>11. FdsType' /\ OwnedOnce' /\ \A q \in Pids : q # p => Seen(q)' = Seen(q)
  <2>1. RowNodes(s) \subseteq Own(p) \cup Free
    BY <1>2
  <2>2. \A y \in Nodes : y \notin Own(p) \cup RowNodes(s) => node'[y] = node[y]
    BY <1>2, <1>9
  <2>3. \A y \in RowNodes(s) : node'[y] # Unused
    BY <1>2, <1>3, <1>7, <1>9, <1>10
  <2>4. \A y \in Own(p) \ RowNodes(s) : node'[y] = Unused
    BY <1>2
  <2>5. s \in Rows \cup {Absent} /\ (s # Absent => Distinct(s))
    BY <1>2
  <2>. QED
    BY <2>1, <2>2, <2>3, <2>4, <2>5, <1>1, RowStep
<1>12. fds'[p] = s
  BY <1>1 DEF FdsType
<1>13. 1 .. n + 1 = (1 .. n) \cup {n + 1} /\ n + 1 \notin 1 .. n
  BY <1>3
<1>14. Seen(p)' = w
  <2>1. Seen(p)' = [k \in DOMAIN s |-> IF s[k] = Closed THEN Closed ELSE node'[s[k]]]
    BY <1>6, <1>12 DEF Seen, Alive
  <2>2. DOMAIN s = 1 .. n + 1
    BY <1>2
  <2>3. ASSUME NEW k \in 1 .. n + 1
        PROVE  (IF s[k] = Closed THEN Closed ELSE node'[s[k]])
                  = IF k = n + 1 THEN v ELSE Seen(p)[k]
    <3>1. CASE k = n + 1
      BY <3>1, <1>2, <1>7, <1>9
    <3>2. CASE k \in 1 .. n
      <4>1. s[k] = fds[p][k] /\ k # n + 1
        BY <3>2, <1>2, <1>13
      <4>2. Seen(p)[k] = IF fds[p][k] = Closed THEN Closed ELSE node[fds[p][k]]
        BY <3>2, <1>3
      <4>3. fds[p][k] # Closed => fds[p][k] \in Nodes /\ fds[p][k] # x
        <5>1. fds[p][k] # Closed => fds[p][k] \in Own(p)
          BY <3>2, <1>3
        <5>. QED
          BY <5>1, <1>1, <1>3, <1>10
      <4>. QED
        BY <4>1, <4>2, <4>3, <1>9
    <3>. QED
      BY <3>1, <3>2, <1>13
  <2>. QED
    BY <2>1, <2>2, <2>3, <1>5
<1>15. Map' = [Map EXCEPT ![p] = w]
  BY <1>1, <1>11, <1>14, OneChanges
<1>16. Map[p] = Seen(p)
  BY <1>1 DEF Map
<1>17. Map'[p] = w
  BY <1>1, <1>15 DEF Map
<1>18. w # Absent
  <2>1. n + 1 \in 0 .. MaxFds
    BY <1>1, <1>3, FileTableAssumption DEF n
  <2>2. w \in [1 .. n + 1 -> Nodes \cup NodeValues \cup {Closed}]
    BY <1>5
  <2>. QED
    BY <2>1, <2>2, RowIsNotAbsent
<1>19. w[n + 1] = v
  BY <1>5, <1>13
<1>. QED
  BY <1>1, <1>4, <1>5a, <1>9, <1>11, <1>15, <1>16, <1>17, <1>18, <1>19 DEF w, n
-----------------------------------------------------------------------------
(* Opening and duplicating. *)


(* The node that malloc finds is free. *)
LEMMA NewNodeIsFree == ASSUME Free # {} PROVE NewNode \in Free
<1>1. Free \in SUBSET Nat
  BY FileTableAssumption DEF Free, Live, Nodes
<1>. QED
  BY <1>1, LeastExists DEF NewNode

(* The two steps of Descriptors that append. *)
LEMMA AppendChanges ==
  ASSUME NEW p \in Pids, Map[p] # Absent, Map'[p] # Absent,
         Len(Map'[p]) = Len(Map[p]) + 1,
         \/ Table!Open(p, Map'[p][Len(Map'[p])], Map, Map')
         \/ \E k \in DOMAIN Map[p] : Table!Duplicate(p, k, Map, Map')
  PROVE  Table!Changes(Map, Map')
  BY DEF Table!Changes

(* sys_open of a file that exists. *)
LEMMA OpenFoundStep ==
  ASSUME IInv, NEW p \in Running, NEW f \in Regular \cup Ptys, NEW flags \in Flags,
         Free # {}, OpenFound(p, f, flags)
  PROVE  IInv' /\ Table!Changes(Map, Map')
<1>. DEFINE v == Opened(f, flags.access, IF flags.append THEN LengthOf(f) ELSE 0, LengthOf(f))
            x == NewNode
<1>1. /\ f \in linked /\ strayed' = (strayed \/ (flags.trunc /\ LengthOf(f) > 0))
      /\ AppendFd(p, x, v)
      /\ length' = IF flags.trunc /\ f \in Regular THEN [length EXCEPT ![f] = 0] ELSE length
      /\ linked' = linked
  BY DEF OpenFound
<1>2. flags.access \in Rights /\ flags.trunc \in BOOLEAN /\ flags.append \in BOOLEAN
  BY DEF Flags
<1>3. FdsType /\ HeapType /\ OwnedOnce /\ OpenFilesExist /\ OffsetsStayInside
  BY DEF IInv
<1>4. length \in [Regular -> Offsets] /\ strayed \in BOOLEAN /\ linked \subseteq Regular \cup Ptys
  BY <1>3 DEF HeapType
<1>5. 0 \in Offsets /\ LengthOf(f) \in Offsets /\ (f \in Regular => LengthOf(f) = length[f])
      /\ LengthOf(f) \in Int
  BY <1>4, FileTableAssumption DEF LengthOf, Offsets
<1>6. /\ v.file = f /\ v.length = LengthOf(f) /\ v.user_offset \in {0, LengthOf(f)}
      /\ v \in NodeValues
  BY <1>2, <1>5 DEF Opened, NodeValues
<1>7. x \in Free /\ p \in Pids
  BY NewNodeIsFree DEF Running
<1>8. v # Closed
  BY <1>6, FileTableAssumption
<1>. HIDE DEF v, x
<1>9. /\ FdsType' /\ OwnedOnce'
      /\ node' \in [Nodes -> NodeValues \cup {Unused}]
      /\ node' = [node EXCEPT ![x] = v] /\ x \in Nodes
      /\ Map' = [Map EXCEPT ![p] = Append(Map[p], v)]
      /\ Map'[p] # Absent /\ Len(Map'[p]) = Len(Map[p]) + 1
      /\ Map'[p][Len(Map'[p])] = v
      /\ Map[p] # Absent
  BY <1>1, <1>3, <1>6, <1>7, AppendStep
<1>10. HeapType'
  BY <1>1, <1>2, <1>4, <1>5, <1>9 DEF HeapType
<1>11. ASSUME NEW y \in Live', node'[y].file \in Regular
       PROVE  /\ node'[y].file \in linked'
              /\ ~strayed' => /\ node'[y].user_offset <= length'[node'[y].file]
                              /\ node'[y].length <= length'[node'[y].file]
  <2>0. node \in [Nodes -> NodeValues \cup {Unused}]
    BY <1>3 DEF HeapType
  <2>1. CASE y = x
    <3>1. node'[y] = v
      BY <2>0, <2>1, <1>9
    <3>2. ASSUME ~strayed' PROVE length'[f] = LengthOf(f)
      <4>1. CASE flags.trunc
        <5>1. ~(LengthOf(f) > 0)
          BY <1>1, <3>2, <4>1
        <5>2. LengthOf(f) = 0
          BY <1>5, <5>1, FileTableAssumption DEF Offsets
        <5>3. f \in Regular
          BY <1>11, <3>1, <1>6
        <5>. QED
          BY <1>1, <1>4, <4>1, <5>2, <5>3
      <4>2. CASE ~flags.trunc
        BY <1>1, <1>5, <4>2, <1>11, <3>1, <1>6
      <4>. QED
        BY <1>2, <4>1, <4>2
    <3>3. 0 <= LengthOf(f) /\ LengthOf(f) <= LengthOf(f)
      BY <1>5, FileTableAssumption DEF Offsets
    <3>. QED
      BY <3>1, <3>2, <3>3, <1>1, <1>6
  <2>2. CASE y # x
    <3>1. node'[y] = node[y] /\ y \in Live
      BY <2>0, <2>2, <1>9 DEF Free, Live
    <3>2. node[y].file \in linked
      BY <3>1, <1>3, <1>11 DEF OpenFilesExist
    <3>3. ~strayed => /\ node[y].user_offset <= length[node[y].file]
                      /\ node[y].length <= length[node[y].file]
      BY <3>1, <1>3, <1>11 DEF OffsetsStayInside
    <3>4. ~strayed' => ~strayed /\ length'[node[y].file] = length[node[y].file]
      <4>. SUFFICES ASSUME ~strayed' PROVE ~strayed /\ length'[node[y].file] = length[node[y].file]
        OBVIOUS
      <4>1. ~strayed /\ ~(flags.trunc /\ LengthOf(f) > 0)
        BY <1>1
      <4>2. CASE flags.trunc /\ f \in Regular
        <5>1. length[f] = 0
          BY <4>1, <4>2, <1>5, FileTableAssumption DEF Offsets
        <5>2. length' = length
          BY <1>1, <4>2, <5>1, <1>4
        <5>. QED
          BY <4>1, <5>2
      <4>3. CASE ~(flags.trunc /\ f \in Regular)
        BY <1>1, <4>1, <4>3
      <4>. QED
        BY <4>2, <4>3
    <3>. QED
      BY <3>1, <3>2, <3>3, <3>4, <1>1
  <2>. QED
    BY <2>1, <2>2
<1>12. OpenFilesExist' /\ OffsetsStayInside'
  BY <1>11 DEF OpenFilesExist, OffsetsStayInside
<1>13. Table!Open(p, Map'[p][Len(Map'[p])], Map, Map')
  <2>1. Table!Open(p, v, Map, Map')
    BY <1>6, <1>8, <1>9 DEF Table!Open
  <2>. QED
    BY <2>1, <1>9
<1>14. Table!Changes(Map, Map')
  BY <1>7, <1>9, <1>13, AppendChanges
<1>. QED
  BY <1>9, <1>10, <1>12, <1>14 DEF IInv

(* sys_open of a file that it makes. *)
LEMMA OpenNewStep ==
  ASSUME IInv, NEW p \in Running, NEW f \in Regular \cup Ptys, NEW flags \in Flags,
         Free # {}, OpenNew(p, f, flags)
  PROVE  IInv' /\ Table!Changes(Map, Map')
<1>. DEFINE v == Opened(f, flags.access, 0, 0)
            x == Min(Free \ {NewNode})
<1>1. /\ f \in Regular /\ f \notin linked /\ linked' = linked \cup {f}
      /\ length' = [length EXCEPT ![f] = 0] /\ strayed' = strayed
      /\ AppendFd(p, x, v)
  BY DEF OpenNew
<1>2. flags.access \in Rights
  BY DEF Flags
<1>3. FdsType /\ HeapType /\ OwnedOnce /\ OpenFilesExist /\ OffsetsStayInside
  BY DEF IInv
<1>4. length \in [Regular -> Offsets] /\ strayed \in BOOLEAN /\ linked \subseteq Regular \cup Ptys
      /\ node \in [Nodes -> NodeValues \cup {Unused}]
  BY <1>3 DEF HeapType
<1>5. 0 \in Offsets
  BY FileTableAssumption DEF Offsets
<1>6. v.file = f /\ v.length = 0 /\ v.user_offset = 0 /\ v \in NodeValues
  BY <1>2, <1>5 DEF Opened, NodeValues
<1>7. x \in Free /\ p \in Pids
  <2>1. Free # {NewNode}
    BY DEF OpenNew
  <2>2. Free \ {NewNode} \in SUBSET Nat /\ Free \ {NewNode} # {}
    BY <2>1, FileTableAssumption DEF Free, Nodes
  <2>3. x \in Free \ {NewNode}
    BY <2>2, LeastExists
  <2>. QED
    BY <2>3 DEF Running
<1>8. v # Closed
  BY <1>6, FileTableAssumption
<1>. HIDE DEF v, x
<1>9. /\ FdsType' /\ OwnedOnce'
      /\ node' \in [Nodes -> NodeValues \cup {Unused}]
      /\ node' = [node EXCEPT ![x] = v] /\ x \in Nodes
      /\ Map' = [Map EXCEPT ![p] = Append(Map[p], v)]
      /\ Map'[p] # Absent /\ Len(Map'[p]) = Len(Map[p]) + 1
      /\ Map'[p][Len(Map'[p])] = v
      /\ Map[p] # Absent
  BY <1>1, <1>3, <1>6, <1>7, AppendStep
<1>10. HeapType'
  BY <1>1, <1>4, <1>5, <1>9 DEF HeapType
<1>11. ASSUME NEW y \in Live', node'[y].file \in Regular
       PROVE  /\ node'[y].file \in linked'
              /\ ~strayed' => /\ node'[y].user_offset <= length'[node'[y].file]
                              /\ node'[y].length <= length'[node'[y].file]
  <2>1. CASE y = x
    <3>1. node'[y] = v /\ length'[f] = 0
      BY <2>1, <1>1, <1>4, <1>9
    <3>. QED
      BY <3>1, <1>1, <1>6
  <2>2. CASE y # x
    <3>1. node'[y] = node[y] /\ y \in Live
      BY <1>4, <2>2, <1>9 DEF Free, Live
    <3>2. node[y].file \in linked
      BY <3>1, <1>3, <1>11 DEF OpenFilesExist
    <3>3. ~strayed => /\ node[y].user_offset <= length[node[y].file]
                      /\ node[y].length <= length[node[y].file]
      BY <3>1, <1>3, <1>11 DEF OffsetsStayInside
    <3>4. length'[node[y].file] = length[node[y].file]
      BY <3>1, <3>2, <1>1, <1>4, <1>11
    <3>. QED
      BY <3>1, <3>2, <3>3, <3>4, <1>1
  <2>. QED
    BY <2>1, <2>2
<1>12. OpenFilesExist' /\ OffsetsStayInside'
  BY <1>11 DEF OpenFilesExist, OffsetsStayInside
<1>13. Table!Open(p, Map'[p][Len(Map'[p])], Map, Map')
  <2>1. Table!Open(p, v, Map, Map')
    BY <1>6, <1>8, <1>9 DEF Table!Open
  <2>. QED
    BY <2>1, <1>9
<1>14. Table!Changes(Map, Map')
  BY <1>7, <1>9, <1>13, AppendChanges
<1>. QED
  BY <1>9, <1>10, <1>12, <1>14 DEF IInv

(* A step that changes neither rows nor nodes. *)
LEMMA RowsStay ==
  ASSUME FdsType, OwnedOnce, UNCHANGED <<fds, node>>
  PROVE  FdsType' /\ OwnedOnce' /\ Map' = Map /\ Live' = Live
<1>1. FdsType'
  BY DEF FdsType
<1>2. \A q \in Pids : Own(q)' = Own(q) /\ Seen(q)' = Seen(q)
  BY DEF Own, Seen, Alive
<1>3. Running' = Running
  BY DEF Running, Alive
<1>4. OwnedOnce'
  BY <1>2, <1>3 DEF OwnedOnce
<1>5. Map' = Map
  BY <1>2 DEF Map
<1>. QED
  BY <1>1, <1>4, <1>5 DEF Live

(* sys_open that fails. *)
LEMMA OpenFailsStep ==
  ASSUME IInv, NEW f \in Regular \cup Ptys, NEW flags \in Flags,
         OpenFails(f, flags) \/ CreateFails(f, flags)
  PROVE  IInv' /\ Map' = Map
<1>1. /\ linked \cap Regular \subseteq linked' /\ linked' \subseteq linked \cup {f}
      /\ \/ length' = length
         \/ f \in Regular \ linked /\ length' = [length EXCEPT ![f] = 0]
      /\ UNCHANGED <<fds, node, strayed>>
  <2>1. CASE OpenFails(f, flags)
    BY <2>1, FileTableAssumption DEF OpenFails
  <2>2. CASE CreateFails(f, flags)
    BY <2>2, FileTableAssumption DEF CreateFails
  <2>. QED
    BY <2>1, <2>2
<1>2. FdsType /\ HeapType /\ OwnedOnce /\ OpenFilesExist /\ OffsetsStayInside
  BY DEF IInv
<1>3. FdsType' /\ OwnedOnce' /\ Map' = Map /\ Live' = Live
  BY <1>1, <1>2, RowsStay
<1>4. length \in [Regular -> Offsets] /\ strayed \in BOOLEAN /\ linked \subseteq Regular \cup Ptys
      /\ node \in [Nodes -> NodeValues \cup {Unused}]
  BY <1>2 DEF HeapType
<1>5. 0 \in Offsets /\ Regular \cap Ptys = {}
  BY FileTableAssumption DEF Offsets
<1>6. HeapType'
  <2>1. linked' \subseteq Regular \cup Ptys
    BY <1>1, <1>4
  <2>2. length' \in [Regular -> Offsets]
    BY <1>1, <1>4, <1>5
  <2>. QED
    BY <2>1, <2>2, <1>1, <1>4 DEF HeapType
<1>7. ASSUME NEW y \in Live', node'[y].file \in Regular
      PROVE  /\ node'[y].file \in linked'
             /\ ~strayed' => /\ node'[y].user_offset <= length'[node'[y].file]
                             /\ node'[y].length <= length'[node'[y].file]
  <2>1. node' = node /\ strayed' = strayed /\ y \in Live
    BY <1>1, <1>3
  <2>2. node[y].file \in linked
    BY <2>1, <1>2, <1>7 DEF OpenFilesExist
  <2>3. ~strayed => /\ node[y].user_offset <= length[node[y].file]
                    /\ node[y].length <= length[node[y].file]
    BY <2>1, <1>2, <1>7 DEF OffsetsStayInside
  <2>4. length'[node[y].file] = length[node[y].file] /\ node[y].file \in linked'
    BY <2>1, <2>2, <1>1, <1>4, <1>5, <1>7
  <2>. QED
    BY <2>1, <2>2, <2>3, <2>4
<1>8. OpenFilesExist' /\ OffsetsStayInside'
  BY <1>7 DEF OpenFilesExist, OffsetsStayInside
<1>. QED
  BY <1>3, <1>6, <1>8 DEF IInv

(* process_dup2 with to = -1. *)
LEMMA DupStep ==
  ASSUME IInv, NEW p \in Running, NEW k \in DOMAIN fds[p], Dup(p, k)
  PROVE  IInv' /\ Table!Changes(Map, Map')
<1>. DEFINE y == fds[p][k]
            v == node[y]
            x == NewNode
<1>1. /\ y # Closed /\ Free # {} /\ AppendFd(p, x, v)
      /\ UNCHANGED <<linked, length, strayed>>
  BY DEF Dup, IsOpen
<1>2. FdsType /\ HeapType /\ OwnedOnce /\ OpenFilesExist /\ OffsetsStayInside
  BY DEF IInv
<1>3. x \in Free /\ p \in Pids
  BY <1>1, NewNodeIsFree DEF Running
<1>4. /\ k \in 1 .. Len(fds[p]) /\ y \in Own(p) /\ Own(p) \subseteq Nodes
      /\ Seen(p) = [i \in 1 .. Len(fds[p]) |->
                      IF fds[p][i] = Closed THEN Closed ELSE node[fds[p][i]]]
  BY <1>1, <1>2, SeenRow
<1>5. v \in NodeValues
  BY <1>2, <1>3, <1>4, OwnedHaveValues
<1>6. y \in Nodes /\ v # Unused
  BY <1>4, <1>5, FileTableAssumption
<1>7. Seen(p)[k] = v /\ k \in DOMAIN Seen(p)
  BY <1>1, <1>4
<1>. HIDE DEF x, v, y
<1>9. /\ FdsType' /\ OwnedOnce'
      /\ node' \in [Nodes -> NodeValues \cup {Unused}]
      /\ node' = [node EXCEPT ![x] = v] /\ x \in Nodes
      /\ Map' = [Map EXCEPT ![p] = Append(Map[p], v)]
      /\ Map'[p] # Absent /\ Len(Map'[p]) = Len(Map[p]) + 1
      /\ Map[p] = Seen(p) /\ Map[p] # Absent
  BY <1>1, <1>2, <1>3, <1>5, AppendStep
<1>10. HeapType'
  BY <1>1, <1>2, <1>9 DEF HeapType
<1>11. \A z \in Nodes : node'[z] # Unused =>
          \E w \in Nodes : node[w] # Unused /\ node'[z] = node[w]
  <2>. SUFFICES ASSUME NEW z \in Nodes, node'[z] # Unused
                PROVE  \E w \in Nodes : node[w] # Unused /\ node'[z] = node[w]
    OBVIOUS
  <2>0. node \in [Nodes -> NodeValues \cup {Unused}]
    BY <1>2 DEF HeapType
  <2>1. CASE z = x
    BY <2>0, <2>1, <1>6, <1>9 DEF v
  <2>2. CASE z # x
    BY <2>0, <2>2, <1>9
  <2>. QED
    BY <2>1, <2>2
<1>12. OpenFilesExist' /\ OffsetsStayInside'
  BY <1>1, <1>2, <1>11, HeapCopies
<1>13. Table!Duplicate(p, k, Map, Map') /\ k \in DOMAIN Map[p]
  BY <1>7, <1>9 DEF Table!Duplicate
<1>14. Table!Changes(Map, Map')
  BY <1>3, <1>9, <1>13, AppendChanges
<1>. QED
  BY <1>9, <1>10, <1>12, <1>14 DEF IInv
-----------------------------------------------------------------------------
(* Closing, replacing and using a descriptor. *)

(* The row with entry k replaced by z, which is the node of that entry, a  *)
(* free one, or none.                                                      *)
LEMMA ReplacedRow ==
  ASSUME FdsType, HeapType, OwnedOnce, NEW p \in Running, NEW k \in DOMAIN fds[p],
         NEW z \in Free \cup {fds[p][k], Closed}
  PROVE  /\ [fds[p] EXCEPT ![k] = z] \in Rows
         /\ Distinct([fds[p] EXCEPT ![k] = z])
         /\ RowNodes([fds[p] EXCEPT ![k] = z]) = (Own(p) \ {fds[p][k]}) \cup ({z} \ {Closed})
         /\ [fds[p] EXCEPT ![k] = z] = [i \in 1 .. Len(fds[p]) |-> IF i = k THEN z ELSE fds[p][i]]
<1>. DEFINE n == Len(fds[p])
            r == fds[p]
            s == [fds[p] EXCEPT ![k] = z]
<1>1. /\ n \in 0 .. MaxFds /\ r \in [1 .. n -> Entry] /\ DOMAIN r = 1 .. n
      /\ Own(p) = {r[i] : i \in 1 .. n} \ {Closed} /\ Own(p) \subseteq Nodes
      /\ k \in 1 .. n /\ p \in Pids
  BY SeenRow DEF Running
<1>2. z \in Entry
  BY <1>1 DEF Free, Live, Entry
<1>3. Own(p) \cap Free = {}
  BY <1>1 DEF OwnedOnce, Free, Live
<1>4. \A i, j \in 1 .. n : r[i] = r[j] /\ r[i] # Closed => i = j
  BY <1>1 DEF OwnedOnce, Distinct
<1>5. s \in [1 .. n -> Entry] /\ s = [i \in 1 .. n |-> IF i = k THEN z ELSE r[i]]
  BY <1>1, <1>2
<1>. HIDE DEF n, s
<1>6. s \in Rows
  BY <1>1, <1>5 DEF Rows
<1>7. Distinct(s)
  <2>. SUFFICES ASSUME NEW i \in 1 .. n, NEW j \in 1 .. n, s[i] = s[j], s[i] # Closed
                PROVE  i = j
    BY <1>5 DEF Distinct
  <2>1. ASSUME NEW l \in 1 .. n, l # k, r[l] # Closed PROVE r[l] # z
    <3>1. r[l] \in Own(p) /\ r[l] # r[k]
      BY <2>1, <1>1, <1>4
    <3>. QED
      BY <3>1, <2>1, <1>3
  <2>2. CASE i # k /\ j # k
    BY <2>2, <1>4, <1>5
  <2>3. CASE i = k \/ j = k
    BY <2>1, <2>3, <1>5
  <2>. QED
    BY <2>2, <2>3
<1>8. RowNodes(s) = (Own(p) \ {r[k]}) \cup ({z} \ {Closed})
  <2>1. s # Absent
    BY <1>6, RowIsSequence
  <2>2. RowNodes(s) = {s[i] : i \in 1 .. n} \ {Closed}
    BY <2>1, <1>5 DEF RowNodes
  <2>3. ASSUME NEW e \in RowNodes(s) PROVE e \in (Own(p) \ {r[k]}) \cup ({z} \ {Closed})
    <3>1. PICK i \in 1 .. n : s[i] = e /\ e # Closed
      BY <2>2
    <3>. QED
      BY <3>1, <1>1, <1>4, <1>5
  <2>4. ASSUME NEW e \in (Own(p) \ {r[k]}) \cup ({z} \ {Closed}) PROVE e \in RowNodes(s)
    <3>1. CASE e = z /\ e # Closed
      BY <3>1, <2>2, <1>1, <1>5
    <3>2. CASE e \in Own(p) \ {r[k]}
      <4>1. PICK i \in 1 .. n : r[i] = e /\ e # Closed /\ i # k
        BY <3>2, <1>1
      <4>. QED
        BY <4>1, <2>2, <1>5
    <3>. QED
      BY <2>4, <3>1, <3>2
  <2>. QED
    BY <2>3, <2>4
<1>. QED
  BY <1>5, <1>6, <1>7, <1>8 DEF n, s

(* Entry k becomes z, and what the process sees there becomes v. *)
Replacing(p, k, z, v) ==
    /\ k \in DOMAIN fds[p] /\ z \in Free \cup {fds[p][k], Closed}
    /\ IF z = Closed THEN v = Closed ELSE v \in NodeValues
    /\ fds' = [fds EXCEPT ![p] = [fds[p] EXCEPT ![k] = z]]
    /\ node' = [x \in Nodes |-> IF x = z THEN v
                                ELSE IF x = fds[p][k] THEN Unused ELSE node[x]]

Replaced(p, k, v) ==
    /\ Map' = [Map EXCEPT ![p] = [Map[p] EXCEPT ![k] = v]]
    /\ Map[p] # Absent /\ Map'[p] # Absent /\ Len(Map'[p]) = Len(Map[p])
    /\ Map[p] = Seen(p) /\ k \in DOMAIN Map[p] /\ Map'[p][k] = v
    /\ DOMAIN Map[p] = DOMAIN fds[p]
    /\ \A i \in DOMAIN fds[p] :
          Map[p][i] = IF fds[p][i] = Closed THEN Closed ELSE node[fds[p][i]]

(* Replacing an entry and its node replaces the value. *)
LEMMA ReplaceStep ==
  ASSUME FdsType, HeapType, OwnedOnce, NEW p \in Running, NEW k, NEW z, NEW v,
         Replacing(p, k, z, v)
  PROVE  /\ FdsType' /\ OwnedOnce' /\ node' \in [Nodes -> NodeValues \cup {Unused}]
         /\ Replaced(p, k, v)
<1>0. /\ k \in DOMAIN fds[p] /\ z \in Free \cup {fds[p][k], Closed}
      /\ IF z = Closed THEN v = Closed ELSE v \in NodeValues
      /\ fds' = [fds EXCEPT ![p] = [fds[p] EXCEPT ![k] = z]]
      /\ node' = [x \in Nodes |-> IF x = z THEN v
                                  ELSE IF x = fds[p][k] THEN Unused ELSE node[x]]
  BY DEF Replacing
<1>. DEFINE n == Len(fds[p])
            r == fds[p]
            s == [fds[p] EXCEPT ![k] = z]
            w == [Seen(p) EXCEPT ![k] = v]
<1>1. /\ n \in 0 .. MaxFds /\ r \in [1 .. n -> Entry] /\ DOMAIN r = 1 .. n
      /\ Own(p) = {r[i] : i \in 1 .. n} \ {Closed} /\ Own(p) \subseteq Nodes
      /\ k \in 1 .. n /\ p \in Pids
      /\ Seen(p) = [i \in 1 .. n |-> IF r[i] = Closed THEN Closed ELSE node[r[i]]]
  BY <1>0, SeenRow DEF Running
<1>1a. n \in Nat
  BY <1>1, FileTableAssumption
<1>2. /\ s \in Rows /\ Distinct(s) /\ RowNodes(s) = (Own(p) \ {r[k]}) \cup ({z} \ {Closed})
      /\ s = [i \in 1 .. n |-> IF i = k THEN z ELSE r[i]]
  BY <1>0, ReplacedRow
<1>3. /\ Seen(p) \in [1 .. n -> NodeValues \cup {Closed}]
      /\ Len(Seen(p)) = n /\ Seen(p) # Absent
  BY SeenValues
<1>4. v \in NodeValues \cup {Closed}
  BY <1>0
<1>5. w \in [1 .. n -> NodeValues \cup {Closed}] /\ w[k] = v
      /\ \A i \in 1 .. n : i # k => w[i] = Seen(p)[i]
  BY <1>1, <1>3, <1>4
<1>. HIDE DEF w
<1>6. w # Absent /\ Len(w) = n
  <2>1. w \in [1 .. n -> Nodes \cup NodeValues \cup {Closed}]
    BY <1>5
  <2>2. w \in Seq(NodeValues \cup {Closed})
    BY <1>1a, <1>5, RowIsSeq
  <2>3. Len(w) = n
    BY <1>1a, <1>5, RowIsSeq
  <2>. QED
    BY <1>1, <2>1, <2>3, RowIsNotAbsent
<1>7. node \in [Nodes -> NodeValues \cup {Unused}] /\ Closed \notin Nodes /\ Unused \notin NodeValues
  BY FileTableAssumption DEF HeapType
<1>8. fds' = [fds EXCEPT ![p] = s]
  BY <1>0
<1>9. z # Closed => z \in Nodes
  BY <1>0, <1>1 DEF Free, Live, Entry
<1>. HIDE DEF n, s
<1>9a. /\ node' \in [Nodes -> NodeValues \cup {Unused}]
       /\ \A x \in Nodes :
             node'[x] = IF x = z THEN v ELSE IF x = r[k] THEN Unused ELSE node[x]
  BY <1>0, <1>7, <1>9
<1>10. IF z = Closed THEN v = Closed ELSE v \in NodeValues
  BY <1>0
<1>11. \A x \in Own(p) : node[x] # Unused
  BY <1>1 DEF OwnedOnce
<1>12. FdsType' /\ OwnedOnce' /\ \A q \in Pids : q # p => Seen(q)' = Seen(q)
  <2>1. RowNodes(s) \subseteq Own(p) \cup Free
    <3>1. r[k] # Closed => r[k] \in Own(p)
      BY <1>1
    <3>2. z \in Free \/ z = r[k] \/ z = Closed
      BY <1>0
    <3>. QED
      BY <1>2, <3>1, <3>2
  <2>2. ASSUME NEW x \in Nodes, x \notin Own(p) \cup RowNodes(s) PROVE node'[x] = node[x]
    <3>1. x # z
      BY <2>2, <1>2, <1>7
    <3>2. x # r[k]
      BY <2>2, <1>1, <1>7
    <3>. QED
      BY <2>2, <3>1, <3>2, <1>9a
  <2>3. ASSUME NEW x \in RowNodes(s) PROVE node'[x] # Unused
    <3>1. CASE x = z
      <4>0. Closed \notin Own(p)
        BY <1>1
      <4>1. z # Closed /\ z \in Nodes
        BY <3>1, <4>0, <1>2, <1>9
      <4>2. v # Unused
        BY <4>1, <1>7, <1>10
      <4>. QED
        BY <3>1, <4>1, <4>2, <1>9a
    <3>2. CASE x # z
      <4>1. x \in Own(p) /\ x # r[k] /\ x \in Nodes
        BY <3>2, <1>1, <1>2
      <4>. QED
        BY <3>2, <4>1, <1>9a, <1>11
    <3>. QED
      BY <3>1, <3>2
  <2>4. ASSUME NEW x \in Own(p) \ RowNodes(s) PROVE node'[x] = Unused
    <3>1. x = r[k] /\ x # z /\ x \in Nodes
      BY <1>1, <1>2
    <3>. QED
      BY <3>1, <1>9a
  <2>5. s \in Rows \cup {Absent} /\ (s # Absent => Distinct(s))
    BY <1>2
  <2>. QED
    BY <2>1, <2>2, <2>3, <2>4, <2>5, <1>1, <1>8, RowStep
<1>13. fds'[p] = s /\ s # Absent
  BY <1>1, <1>2, <1>8, RowIsSequence DEF FdsType
<1>14. Seen(p)' = w
  <2>1. Seen(p)' = [i \in DOMAIN s |-> IF s[i] = Closed THEN Closed ELSE node'[s[i]]]
    BY <1>13 DEF Seen, Alive
  <2>2. DOMAIN s = 1 .. n
    BY <1>2
  <2>3. ASSUME NEW i \in 1 .. n
        PROVE  (IF s[i] = Closed THEN Closed ELSE node'[s[i]]) = w[i]
    <3>1. CASE i = k
      BY <3>1, <1>2, <1>5, <1>9, <1>9a, <1>10
    <3>2. CASE i # k
      <4>1. s[i] = r[i] /\ w[i] = IF r[i] = Closed THEN Closed ELSE node[r[i]]
        BY <3>2, <1>1, <1>2, <1>5
      <4>2. ASSUME r[i] # Closed PROVE r[i] \in Nodes /\ r[i] # z /\ r[i] # r[k]
        <5>1. r[i] \in Own(p)
          BY <4>2, <1>1
        <5>2. r[i] # r[k]
          BY <3>2, <4>2, <1>1 DEF OwnedOnce, Distinct
        <5>3. r[i] \notin Free
          BY <5>1, <1>1, <1>11 DEF Free, Live
        <5>4. z \in Free \/ z = r[k] \/ z = Closed
          BY <1>0
        <5>. QED
          BY <4>2, <5>1, <5>2, <5>3, <5>4, <1>1
      <4>. QED
        BY <4>1, <4>2, <1>9a
    <3>. QED
      BY <3>1, <3>2
  <2>. QED
    BY <2>1, <2>2, <2>3, <1>5
<1>15. Map' = [Map EXCEPT ![p] = w]
  BY <1>1, <1>12, <1>14, OneChanges
<1>16. Map[p] = Seen(p) /\ Map'[p] = w
  BY <1>1, <1>15 DEF Map
<1>17. DOMAIN Seen(p) = 1 .. n /\ w[k] = v
  BY <1>1, <1>5
<1>. QED
  BY <1>1, <1>3, <1>6, <1>9a, <1>12, <1>15, <1>16, <1>17 DEF w, n, Replaced

(* The steps of Descriptors that keep the length of a table. *)
LEMMA SameLengthChanges ==
  ASSUME NEW p \in Pids, Map[p] # Absent, Map'[p] # Absent, Len(Map'[p]) = Len(Map[p]),
         NEW k \in DOMAIN Map[p],
         \/ Table!Close(p, k, Map, Map')
         \/ Table!Use(p, k, Map, Map')
         \/ \E to \in DOMAIN Map[p] : Table!Replace(p, k, to, Map, Map')
  PROVE  Table!Changes(Map, Map')
  BY DEF Table!Changes

(* sys_close. *)
LEMMA CloseStep ==
  ASSUME IInv, NEW p \in Running, NEW k \in DOMAIN fds[p], Close(p, k)
  PROVE  IInv' /\ Table!Changes(Map, Map')
<1>1. /\ fds[p][k] # Closed
      /\ linked' = linked \ Unlinked({fds[p][k]})
      /\ fds' = [fds EXCEPT ![p][k] = Closed]
      /\ node' = [node EXCEPT ![fds[p][k]] = Unused]
      /\ UNCHANGED <<length, strayed>>
  BY DEF Close, IsOpen
<1>2. FdsType /\ HeapType /\ OwnedOnce /\ OpenFilesExist /\ OffsetsStayInside /\ p \in Pids
  BY DEF IInv, Running
<1>3. node \in [Nodes -> NodeValues \cup {Unused}] /\ Closed \notin Nodes
  BY <1>2, FileTableAssumption DEF HeapType
<1>4. fds' = [fds EXCEPT ![p] = [fds[p] EXCEPT ![k] = Closed]]
  BY <1>1
<1>5. node' = [x \in Nodes |-> IF x = Closed THEN Closed
                               ELSE IF x = fds[p][k] THEN Unused ELSE node[x]]
  BY <1>1, <1>3
<1>6. /\ FdsType' /\ OwnedOnce'
      /\ node' \in [Nodes -> NodeValues \cup {Unused}]
      /\ Map' = [Map EXCEPT ![p] = [Map[p] EXCEPT ![k] = Closed]]
      /\ Map[p] # Absent /\ Map'[p] # Absent /\ Len(Map'[p]) = Len(Map[p])
      /\ k \in DOMAIN Map[p]
  <2>1. Replacing(p, k, Closed, Closed)
    BY <1>4, <1>5 DEF Replacing
  <2>2. /\ FdsType' /\ OwnedOnce' /\ node' \in [Nodes -> NodeValues \cup {Unused}]
        /\ Replaced(p, k, Closed)
    BY <1>2, <2>1, ReplaceStep
  <2>. QED
    BY <2>2 DEF Replaced
<1>7. linked' \subseteq linked /\ linked \cap Regular \subseteq linked'
  BY <1>1, FileTableAssumption DEF Unlinked
<1>8. HeapType'
  BY <1>1, <1>2, <1>6, <1>7 DEF HeapType
<1>9. \A x \in Nodes : node'[x] # Unused => node[x] # Unused /\ node'[x] = node[x]
  BY <1>3, <1>5
<1>10. OpenFilesExist' /\ OffsetsStayInside'
  BY <1>1, <1>2, <1>7, <1>9, HeapCopies
<1>11. Table!Close(p, k, Map, Map')
  BY <1>6 DEF Table!Close
<1>12. Table!Changes(Map, Map')
  BY <1>2, <1>6, <1>11, SameLengthChanges
<1>. QED
  BY <1>6, <1>8, <1>10, <1>12 DEF IInv

(* process_dup2: the copy goes to the lowest node that is free, or was the *)
(* one replaced.                                                           *)
LEMMA Dup2Step ==
  ASSUME IInv, NEW p \in Running, NEW from \in DOMAIN fds[p], NEW to \in DOMAIN fds[p],
         Dup2(p, from, to)
  PROVE  IInv' /\ Table!Changes(Map, Map')
<1>. DEFINE old == NodesOf(p, {to})
            copy == Min(Free \cup old)
            v == node[fds[p][from]]
<1>1. /\ fds[p][from] # Closed /\ Free \cup old # {}
      /\ node' = [x \in Nodes |-> IF x = copy THEN v
                                  ELSE IF x \in old THEN Unused ELSE node[x]]
      /\ fds' = [fds EXCEPT ![p][to] = copy]
      /\ linked' = linked \ Unlinked(old)
      /\ UNCHANGED <<length, strayed>>
  BY DEF Dup2, IsOpen
<1>2. FdsType /\ HeapType /\ OwnedOnce /\ OpenFilesExist /\ OffsetsStayInside /\ p \in Pids
  BY DEF IInv, Running
<1>3. node \in [Nodes -> NodeValues \cup {Unused}] /\ Closed \notin Nodes /\ Unused \notin NodeValues
  BY <1>2, FileTableAssumption DEF HeapType
<1>4. old = {fds[p][to]} \ {Closed}
  BY DEF NodesOf
<1>5. /\ fds[p][from] \in Own(p) /\ Own(p) \subseteq Nodes
      /\ (fds[p][to] # Closed => fds[p][to] \in Own(p))
  BY <1>1, <1>2, SeenRow
<1>6. v \in NodeValues /\ fds[p][from] \in Nodes
  BY <1>2, <1>5, OwnedHaveValues
<1>7. Free \cup old \subseteq Nodes /\ Nodes \subseteq Nat
  <2>1. old \subseteq Nodes
    BY <1>4, <1>5
  <2>2. Free \subseteq Nodes
    BY DEF Free, Live
  <2>3. Nodes \subseteq Nat
    BY FileTableAssumption DEF Nodes
  <2>. QED
    BY <2>1, <2>2, <2>3
<1>8. copy \in Free \cup old
  BY <1>1, <1>7, LeastExists
<1>. HIDE DEF copy, v, old
<1>9. copy \in Free \cup {fds[p][to], Closed} /\ copy # Closed /\ copy \in Nodes
  BY <1>3, <1>4, <1>7, <1>8
<1>10. fds' = [fds EXCEPT ![p] = [fds[p] EXCEPT ![to] = copy]]
  BY <1>1
<1>11. node' = [x \in Nodes |-> IF x = copy THEN v
                                ELSE IF x = fds[p][to] THEN Unused ELSE node[x]]
  <2>1. \A x \in Nodes : x \in old <=> x = fds[p][to]
    BY <1>3, <1>4
  <2>. QED
    BY <1>1, <2>1
<1>12. /\ FdsType' /\ OwnedOnce'
       /\ node' \in [Nodes -> NodeValues \cup {Unused}]
       /\ Map' = [Map EXCEPT ![p] = [Map[p] EXCEPT ![to] = v]]
       /\ Map[p] # Absent /\ Map'[p] # Absent /\ Len(Map'[p]) = Len(Map[p])
       /\ DOMAIN Map[p] = DOMAIN fds[p]
       /\ \A i \in DOMAIN fds[p] :
             Map[p][i] = IF fds[p][i] = Closed THEN Closed ELSE node[fds[p][i]]
  <2>1. Replacing(p, to, copy, v)
    BY <1>6, <1>9, <1>10, <1>11 DEF Replacing
  <2>2. /\ FdsType' /\ OwnedOnce' /\ node' \in [Nodes -> NodeValues \cup {Unused}]
        /\ Replaced(p, to, v)
    BY <1>2, <2>1, ReplaceStep
  <2>. QED
    BY <2>2 DEF Replaced
<1>13. Map[p][from] = v /\ v # Closed
  BY <1>1, <1>6, <1>12, FileTableAssumption DEF v
<1>14. linked' \subseteq linked /\ linked \cap Regular \subseteq linked'
  BY <1>1, FileTableAssumption DEF Unlinked
<1>15. HeapType'
  BY <1>1, <1>2, <1>12, <1>14 DEF HeapType
<1>16. \A x \in Nodes : node'[x] # Unused =>
          \E y \in Nodes : node[y] # Unused /\ node'[x] = node[y]
  <2>1. v # Unused /\ v = node[fds[p][from]]
    BY <1>3, <1>6 DEF v
  <2>. QED
    BY <2>1, <1>6, <1>11
<1>17. OpenFilesExist' /\ OffsetsStayInside'
  BY <1>1, <1>2, <1>14, <1>16, HeapCopies
<1>18. Table!Replace(p, from, to, Map, Map')
  BY <1>12, <1>13 DEF Table!Replace
<1>19. Table!Changes(Map, Map')
  BY <1>2, <1>12, <1>18, SameLengthChanges
<1>. QED
  BY <1>12, <1>15, <1>17, <1>19 DEF IInv

(* A descriptor is used: its offset moves to t, and files only grow. *)
LEMMA UseStep ==
  ASSUME IInv, NEW p \in Running, NEW k \in DOMAIN fds[p], fds[p][k] # Closed,
         NEW t \in Offsets,
         node' = [node EXCEPT ![fds[p][k]].user_offset = t],
         UNCHANGED <<fds, linked>>,
         length' \in [Regular -> Offsets], \A f \in Regular : length[f] <= length'[f],
         strayed' \in BOOLEAN, strayed => strayed',
         node[fds[p][k]].file \in Regular /\ ~strayed' => t <= length'[node[fds[p][k]].file]
  PROVE  IInv' /\ Table!Changes(Map, Map')
<1>. DEFINE y == fds[p][k]
            v == [node[y] EXCEPT !.user_offset = t]
<1>2. FdsType /\ HeapType /\ OwnedOnce /\ OpenFilesExist /\ OffsetsStayInside /\ p \in Pids
  BY DEF IInv, Running
<1>3. /\ node \in [Nodes -> NodeValues \cup {Unused}]
      /\ length \in [Regular -> Offsets] /\ linked \subseteq Regular \cup Ptys
  BY <1>2 DEF HeapType
<1>3a. Closed \notin Nodes /\ Unused \notin NodeValues /\ Closed \notin NodeValues
  BY FileTableAssumption
<1>4. y \in Own(p) /\ Own(p) \subseteq Nodes
  BY <1>2, SeenRow
<1>5. node[y] \in NodeValues /\ y \in Live
  BY <1>2, <1>4, OwnedHaveValues
<1>6. /\ v \in NodeValues /\ v.file = node[y].file /\ v.length = node[y].length
      /\ v.user_offset = t
  BY <1>5 DEF NodeValues
<1>7. node' = [node EXCEPT ![y] = v]
  OBVIOUS
<1>8. fds' = [fds EXCEPT ![p] = [fds[p] EXCEPT ![k] = y]]
  <2>1. [fds[p] EXCEPT ![k] = y] = fds[p]
    BY <1>2, SeenRow
  <2>. QED
    BY <2>1, <1>2 DEF FdsType
<1>9. y # Closed /\ y \in Free \cup {fds[p][k], Closed}
  OBVIOUS
<1>. HIDE DEF v
<1>10. node' = [x \in Nodes |-> IF x = y THEN v ELSE IF x = fds[p][k] THEN Unused ELSE node[x]]
  BY <1>3, <1>7
<1>11. /\ FdsType' /\ OwnedOnce'
       /\ node' \in [Nodes -> NodeValues \cup {Unused}]
       /\ Map' = [Map EXCEPT ![p] = [Map[p] EXCEPT ![k] = v]]
       /\ Map[p] # Absent /\ Map'[p] # Absent /\ Len(Map'[p]) = Len(Map[p])
       /\ k \in DOMAIN Map[p] /\ Map'[p][k] = v
       /\ \A i \in DOMAIN fds[p] :
             Map[p][i] = IF fds[p][i] = Closed THEN Closed ELSE node[fds[p][i]]
  <2>1. Replacing(p, k, y, v)
    BY <1>6, <1>8, <1>9, <1>10 DEF Replacing
  <2>2. /\ FdsType' /\ OwnedOnce' /\ node' \in [Nodes -> NodeValues \cup {Unused}]
        /\ Replaced(p, k, v)
    BY <1>2, <2>1, ReplaceStep
  <2>. QED
    BY <2>2 DEF Replaced
<1>12. HeapType'
  BY <1>3, <1>11 DEF HeapType
<1>13. ASSUME NEW x \in Live', node'[x].file \in Regular
       PROVE  /\ node'[x].file \in linked'
              /\ ~strayed' => /\ node'[x].user_offset <= length'[node'[x].file]
                              /\ node'[x].length <= length'[node'[x].file]
  <2>. DEFINE f == node[x].file
  <2>1. x \in Live /\ node[x] \in NodeValues /\ node'[x].file = f /\ node'[x].length = node[x].length
    BY <1>3, <1>5, <1>6, <1>10 DEF Free, Live
  <2>2. f \in Regular /\ f \in linked
    BY <2>1, <1>2, <1>13 DEF OpenFilesExist
  <2>3. ~strayed => node[x].user_offset <= length[f] /\ node[x].length <= length[f]
    BY <2>1, <2>2, <1>2 DEF OffsetsStayInside
  <2>4. node[x].user_offset \in Int /\ node[x].length \in Int /\ length[f] \in Int /\ length'[f] \in Int
    BY <2>1, <2>2, <1>3 DEF NodeValues, Offsets
  <2>5. length[f] <= length'[f]
    BY <2>2
  <2>. HIDE DEF f
  <2>6. ~strayed' => node[x].user_offset <= length'[f] /\ node[x].length <= length'[f]
    BY <2>3, <2>4, <2>5
  <2>7. ASSUME ~strayed' PROVE node'[x].user_offset <= length'[f]
    <3>1. CASE x = y
      <4>1. node'[x] = v
        BY <3>1, <1>4, <1>10
      <4>. QED
        BY <3>1, <4>1, <2>2, <2>7, <1>6 DEF f
    <3>2. CASE x # y
      <4>1. x \in Nodes /\ node'[x] = node[x]
        BY <3>2, <2>1, <1>10 DEF Live
      <4>. QED
        BY <2>6, <2>7, <4>1
    <3>. QED
      BY <3>1, <3>2
  <2>. QED
    BY <2>1, <2>2, <2>6, <2>7
<1>14. OpenFilesExist' /\ OffsetsStayInside'
  BY <1>13 DEF OpenFilesExist, OffsetsStayInside
<1>15. Map[p][k] = node[y] /\ v = [Map[p][k] EXCEPT !.user_offset = t]
  BY <1>11 DEF v
<1>16. Table!Use(p, k, Map, Map')
  <2>1. Map[p][k] # Closed /\ v # Closed
    BY <1>3a, <1>5, <1>6, <1>15
  <2>2. Map' = [Map EXCEPT ![p] = [Map[p] EXCEPT ![k] = [Map[p][k] EXCEPT !.user_offset = t]]]
    BY <1>11, <1>15
  <2>3. Map'[p][k].user_offset = t
    BY <1>6, <1>11
  <2>4. Map' = [Map EXCEPT ![p][k].user_offset = Map'[p][k].user_offset]
    BY <2>2, <2>3
  <2>. QED
    BY <1>11, <2>1, <2>4 DEF Table!Use
<1>17. Table!Changes(Map, Map')
  BY <1>2, <1>11, <1>16, SameLengthChanges
<1>. QED
  BY <1>11, <1>12, <1>14, <1>17 DEF IInv

(* The node of an open descriptor. *)
LEMMA OpenNode ==
  ASSUME IInv, NEW p \in Running, NEW k \in DOMAIN fds[p], fds[p][k] # Closed
  PROVE  /\ node[fds[p][k]] \in NodeValues /\ fds[p][k] \in Live
         /\ length \in [Regular -> Offsets] /\ strayed \in BOOLEAN
         /\ node[fds[p][k]].user_offset \in Offsets /\ node[fds[p][k]].length \in Offsets
         /\ node[fds[p][k]].file \in Regular \cup Ptys
<1>1. FdsType /\ HeapType /\ OwnedOnce /\ p \in Pids
  BY DEF IInv, Running
<1>2. fds[p][k] \in Own(p) /\ Own(p) \subseteq Nodes
  BY <1>1, SeenRow
<1>3. node[fds[p][k]] \in NodeValues /\ fds[p][k] \in Live
  BY <1>1, <1>2, OwnedHaveValues
<1>. QED
  BY <1>1, <1>3 DEF HeapType, NodeValues

(* sys_read. *)
LEMMA ReadStep ==
  ASSUME IInv, NEW p \in Running, NEW k \in DOMAIN fds[p], NEW n \in 1 .. MaxLength,
         Read(p, k, n)
  PROVE  IInv' /\ Table!Changes(Map, Map')
<1>. DEFINE x == fds[p][k]
            f == node[x].file
            o == node[x].user_offset
<1>1. /\ x # Closed /\ o + n <= MaxLength
      /\ IF f \in Ptys
           THEN \E out \in 0 .. n : node' = [node EXCEPT ![x].user_offset = @ + out]
           ELSE /\ o <= length[f]
                /\ node' = [node EXCEPT ![x].user_offset = Lesser(@ + n, length[f])]
      /\ UNCHANGED <<fds, linked, length, strayed>>
  BY DEF Read, IsOpen
<1>2. /\ node \in [Nodes -> NodeValues \cup {Unused}] /\ x \in Nodes
      /\ length \in [Regular -> Offsets] /\ strayed \in BOOLEAN /\ o \in Offsets
      /\ f \in Regular \cup Ptys /\ Regular \cap Ptys = {} /\ MaxLength \in Nat
  BY <1>1, OpenNode, FileTableAssumption DEF IInv, HeapType, Live
<1>3. \A g \in Regular : length[g] <= length'[g]
  BY <1>1, <1>2 DEF Offsets
<1>. HIDE DEF o
<1>4. \E t \in Offsets : /\ node' = [node EXCEPT ![x].user_offset = t]
                         /\ (f \in Regular =>  t <= length'[f])
  <2>1. CASE f \in Ptys
    <3>1. PICK out \in 0 .. n : node' = [node EXCEPT ![x].user_offset = @ + out]
      BY <1>1, <2>1
    <3>2. o + out \in Offsets
      BY <1>1, <1>2 DEF Offsets
    <3>3. node' = [node EXCEPT ![x].user_offset = o + out]
      BY <3>1, <1>2 DEF o
    <3>. QED
      BY <2>1, <3>2, <3>3, <1>2
  <2>2. CASE f \in Regular
    <3>1. o <= length[f] /\ node' = [node EXCEPT ![x].user_offset = Lesser(o + n, length[f])]
      BY <1>1, <1>2, <2>2 DEF o
    <3>2. length[f] \in Offsets
      BY <1>2, <2>2
    <3>3. Lesser(o + n, length[f]) \in Offsets /\ Lesser(o + n, length[f]) <= length[f]
      BY <1>1, <1>2, <3>2 DEF Offsets, Lesser
    <3>. QED
      BY <3>1, <3>3, <1>1
  <2>. QED
    BY <1>2, <2>1, <2>2
<1>5. PICK t \in Offsets : /\ node' = [node EXCEPT ![x].user_offset = t]
                          /\ (f \in Regular =>  t <= length'[f])
  BY <1>4
<1>6. /\ x # Closed /\ UNCHANGED <<fds, linked>> /\ length' \in [Regular -> Offsets]
      /\ strayed' \in BOOLEAN /\ strayed' = strayed
  BY <1>1, <1>2
<1>. QED
  BY <1>3, <1>5, <1>6, UseStep

(* sys_write. *)
LEMMA WriteStep ==
  ASSUME IInv, NEW p \in Running, NEW k \in DOMAIN fds[p], NEW n \in 1 .. MaxLength,
         Write(p, k, n)
  PROVE  IInv' /\ Table!Changes(Map, Map')
<1>. DEFINE x == fds[p][k]
            f == node[x].file
            end == node[x].user_offset + n
<1>1. /\ x # Closed /\ end <= MaxLength
      /\ node' = [node EXCEPT ![x].user_offset = end]
      /\ length' = IF f \in Regular THEN [length EXCEPT ![f] = Greater(@, end)] ELSE length
      /\ UNCHANGED <<fds, linked, strayed>>
  BY DEF Write, IsOpen
<1>2. /\ length \in [Regular -> Offsets] /\ strayed \in BOOLEAN
      /\ node[x].user_offset \in Offsets /\ MaxLength \in Nat
  BY <1>1, OpenNode, FileTableAssumption
<1>3. end \in Offsets
  BY <1>1, <1>2 DEF Offsets
<1>. HIDE DEF end
<1>4. ASSUME NEW g \in Regular
      PROVE  /\ Greater(length[g], end) \in Offsets /\ length[g] <= Greater(length[g], end)
             /\ end <= Greater(length[g], end) /\ length[g] <= length[g]
  <2>1. length[g] \in Int /\ end \in Int /\ length[g] \in Offsets
    BY <1>2, <1>3 DEF Offsets
  <2>. QED
    BY <2>1, <1>3 DEF Greater
<1>5. length' \in [Regular -> Offsets]
  BY <1>1, <1>2, <1>4
<1>6. \A g \in Regular : length[g] <= length'[g]
  BY <1>1, <1>2, <1>4
<1>7. f \in Regular => end <= length'[f]
  BY <1>1, <1>2, <1>4
<1>. QED
  BY <1>1, <1>2, <1>3, <1>5, <1>6, <1>7, UseStep

(* sys_seek. *)
LEMMA SeekStep ==
  ASSUME IInv, NEW p \in Running, NEW k \in DOMAIN fds[p], NEW whence \in {"set", "end"},
         NEW target \in Offsets, Seek(p, k, whence, target)
  PROVE  IInv' /\ Table!Changes(Map, Map')
<1>. DEFINE x == fds[p][k]
            f == node[x].file
            bound == IF whence = "end" THEN node[x].length ELSE length[f]
<1>1. /\ x # Closed /\ f \in Regular
      /\ strayed' = (strayed \/ target > bound)
      /\ node' = [node EXCEPT ![x].user_offset = target]
      /\ UNCHANGED <<fds, linked, length>>
  BY DEF Seek, IsOpen
<1>2. /\ length \in [Regular -> Offsets] /\ strayed \in BOOLEAN /\ x \in Live
      /\ node[x].length \in Offsets /\ length[f] \in Offsets
  BY <1>1, OpenNode
<1>3. \A g \in Regular : length[g] <= length'[g]
  BY <1>1, <1>2 DEF Offsets
<1>4. ~strayed => node[x].length <= length[f]
  BY <1>1, <1>2 DEF IInv, OffsetsStayInside
<1>5. ~strayed' => target <= length'[f]
  <2>. SUFFICES ASSUME ~strayed' PROVE target <= length[f]
    BY <1>1
  <2>1. ~strayed /\ ~(target > bound)
    BY <1>1
  <2>2. target \in Int /\ node[x].length \in Int /\ length[f] \in Int
    BY <1>2 DEF Offsets
  <2>3. node[x].length <= length[f]
    BY <2>1, <1>4
  <2>. QED
    BY <2>1, <2>2, <2>3
<1>6. strayed' \in BOOLEAN /\ (strayed => strayed')
  BY <1>1
<1>. QED
  BY <1>1, <1>2, <1>3, <1>5, <1>6, UseStep

(* sys_unlink. *)
LEMMA UnlinkStep ==
  ASSUME IInv, NEW f \in Regular, Unlink(f)
  PROVE  IInv' /\ Map' = Map
<1>1. /\ OpenOn(f) = {} /\ linked' = linked \ {f}
      /\ UNCHANGED <<fds, node, length, strayed>>
  BY DEF Unlink
<1>2. FdsType' /\ OwnedOnce' /\ Map' = Map /\ Live' = Live
  BY <1>1, RowsStay DEF IInv
<1>3. HeapType'
  BY <1>1 DEF IInv, HeapType
<1>4. \A x \in Live : node[x].file # f
  BY <1>1 DEF OpenOn
<1>5. OpenFilesExist'
  BY <1>1, <1>2, <1>4 DEF IInv, OpenFilesExist
<1>6. OffsetsStayInside'
  BY <1>1, <1>2 DEF IInv, OffsetsStayInside
<1>. QED
  BY <1>2, <1>3, <1>5, <1>6 DEF IInv
-----------------------------------------------------------------------------
(* Processes. *)

(* spawn_process. *)
LEMMA ForkStep ==
  ASSUME IInv, NEW p \in Running, NEW c \in Pids, Fork(p, c)
  PROVE  IInv' /\ Table!Changes(Map, Map')
<1>. DEFINE r == fds[p]
            n == Len(fds[p])
            opened == {k \in DOMAIN r : r[k] # Closed}
<1>1. fds[c] = Absent /\ UNCHANGED <<linked, length, strayed>>
  BY DEF Fork, Alive
<1>2. PICK copy \in [opened -> Free] :
         /\ \A j, k \in opened : j < k => copy[j] < copy[k]
         /\ fds' = [fds EXCEPT ![c] = [k \in DOMAIN r |-> IF k \in opened THEN copy[k] ELSE Closed]]
         /\ node' = [x \in Nodes |->
                       IF \E k \in opened : copy[k] = x
                         THEN node[r[CHOOSE k \in opened : copy[k] = x]] ELSE node[x]]
  BY DEF Fork
<1>3. FdsType /\ HeapType /\ OwnedOnce /\ OpenFilesExist /\ OffsetsStayInside /\ p \in Pids
  BY DEF IInv, Running
<1>4. /\ n \in 0 .. MaxFds /\ n \in Nat /\ r \in [1 .. n -> Entry] /\ DOMAIN r = 1 .. n
      /\ Own(p) \subseteq Nodes /\ Own(p) = {r[i] : i \in 1 .. n} \ {Closed}
      /\ Seen(p) = [i \in 1 .. n |-> IF r[i] = Closed THEN Closed ELSE node[r[i]]]
  BY <1>3, SeenRow, FileTableAssumption
<1>. DEFINE s == [k \in 1 .. n |-> IF k \in opened THEN copy[k] ELSE Closed]
<1>5. fds' = [fds EXCEPT ![c] = s]
  BY <1>2, <1>4
<1>6. opened \subseteq 1 .. n /\ opened \subseteq Int /\ Free \subseteq Int /\ Free \subseteq Nodes
      /\ Closed \notin Nodes /\ Nodes \subseteq Entry /\ Closed \in Entry
  BY <1>4, FileTableAssumption DEF Free, Live, Nodes, Entry
<1>7. \A j, k \in opened : copy[j] = copy[k] => j = k
  <2>. SUFFICES ASSUME NEW j \in opened, NEW k \in opened, copy[j] = copy[k] PROVE j = k
    OBVIOUS
  <2>1. copy[j] \in Int /\ j \in Int /\ k \in Int
    BY <1>6
  <2>2. ~(j < k) /\ ~(k < j)
    BY <1>2, <2>1
  <2>. QED
    BY <2>1, <2>2
<1>8. \A k \in opened : r[k] \in Own(p) /\ k \in 1 .. n /\ copy[k] \in Free
  BY <1>4
<1>9. ASSUME NEW k \in opened
      PROVE  node'[copy[k]] = node[r[k]] /\ node[r[k]] \in NodeValues
  <2>1. (CHOOSE j \in opened : copy[j] = copy[k]) = k
    BY <1>7
  <2>2. copy[k] \in Nodes
    BY <1>6
  <2>3. node'[copy[k]] = node[r[k]]
    BY <1>2, <2>1, <2>2
  <2>. QED
    BY <2>3, <1>3, <1>4, <1>8, OwnedHaveValues
<1>10. \A x \in Nodes : (\A k \in opened : copy[k] # x) => node'[x] = node[x]
  BY <1>2
<1>10a. DOMAIN node' = Nodes /\ node' = [x \in Nodes |-> node'[x]]
  BY <1>2
<1>11. node \in [Nodes -> NodeValues \cup {Unused}] /\ Unused \notin NodeValues /\ Closed \notin NodeValues
  BY <1>3, FileTableAssumption DEF HeapType
<1>12. ASSUME NEW x \in Nodes
       PROVE  \/ node'[x] = node[x] /\ \A k \in opened : copy[k] # x
              \/ \E k \in opened : /\ copy[k] = x /\ node'[x] = node[r[k]]
                                   /\ node[r[k]] \in NodeValues /\ r[k] \in Nodes
  BY <1>4, <1>8, <1>9, <1>10
<1>13. s \in [1 .. n -> Entry]
  BY <1>6, <1>8
<1>14. s \in Rows
  BY <1>4, <1>13 DEF Rows
<1>15. s # Absent
  BY <1>14, RowIsSequence
<1>. HIDE DEF n
<1>16. DOMAIN s = 1 .. n /\ \A k \in 1 .. n : s[k] = IF k \in opened THEN copy[k] ELSE Closed
  OBVIOUS
<1>. HIDE DEF s
<1>17. Distinct(s)
  <2>1. \A k \in 1 .. n : k \notin opened => s[k] = Closed
    BY <1>16
  <2>2. \A k \in opened : s[k] = copy[k]
    BY <1>6, <1>16
  <2>. QED
    BY <2>1, <2>2, <1>7, <1>16 DEF Distinct
<1>. HIDE DEF opened
<1>18. RowNodes(s) = {copy[k] : k \in opened}
  <2>1. RowNodes(s) = {s[k] : k \in 1 .. n} \ {Closed}
    BY <1>15, <1>16 DEF RowNodes
  <2>2. \A k \in opened : s[k] = copy[k] /\ copy[k] # Closed /\ k \in 1 .. n
    BY <1>6, <1>8, <1>16
  <2>3. \A k \in 1 .. n : k \notin opened => s[k] = Closed
    BY <1>16
  <2>. QED
    BY <2>1, <2>2, <2>3
<1>19. Own(c) = {} /\ c # p
  BY <1>1 DEF Own, RowNodes, Running, Alive
<1>20. FdsType' /\ OwnedOnce' /\ \A q \in Pids : q # c => Seen(q)' = Seen(q)
  <2>1. RowNodes(s) \subseteq Own(c) \cup Free
    BY <1>8, <1>18
  <2>2. \A x \in Nodes : x \notin Own(c) \cup RowNodes(s) => node'[x] = node[x]
    BY <1>10, <1>18
  <2>3. \A x \in RowNodes(s) : node'[x] # Unused
    BY <1>9, <1>11, <1>18
  <2>4. \A x \in Own(c) \ RowNodes(s) : node'[x] = Unused
    BY <1>19
  <2>5. s \in Rows \cup {Absent} /\ (s # Absent => Distinct(s))
    BY <1>14, <1>17
  <2>. QED
    BY <2>1, <2>2, <2>3, <2>4, <2>5, <1>3, <1>5, RowStep
<1>21. node' \in [Nodes -> NodeValues \cup {Unused}]
  <2>1. \A x \in Nodes : node'[x] \in NodeValues \cup {Unused}
    BY <1>11, <1>12
  <2>. QED
    BY <1>10a, <2>1
<1>22. HeapType'
  BY <1>1, <1>3, <1>21 DEF HeapType
<1>23. OpenFilesExist' /\ OffsetsStayInside'
  <2>1. \A x \in Nodes : node'[x] # Unused =>
           \E y \in Nodes : node[y] # Unused /\ node'[x] = node[y]
    BY <1>11, <1>12
  <2>2. linked \cap Regular \subseteq linked'
    BY <1>1
  <2>. QED
    BY <1>1, <1>3, <2>1, <2>2, HeapCopies
<1>24. Seen(c)' = Seen(p)
  <2>1. fds'[c] = s
    BY <1>3, <1>5 DEF FdsType
  <2>2. Seen(c)' = [k \in 1 .. n |-> IF s[k] = Closed THEN Closed ELSE node'[s[k]]]
    BY <2>1, <1>15, <1>16 DEF Seen, Alive
  <2>3. ASSUME NEW k \in 1 .. n
        PROVE  (IF s[k] = Closed THEN Closed ELSE node'[s[k]])
                  = IF r[k] = Closed THEN Closed ELSE node[r[k]]
    <3>1. k \in opened <=> r[k] # Closed
      BY <1>4 DEF opened
    <3>2. CASE k \in opened
      <4>1. s[k] = copy[k] /\ copy[k] # Closed
        BY <3>2, <1>6, <1>8, <1>16
      <4>. QED
        BY <3>1, <3>2, <4>1, <1>9
    <3>3. CASE k \notin opened
      BY <3>1, <3>3, <1>16
    <3>. QED
      BY <3>2, <3>3
  <2>. QED
    BY <2>2, <2>3, <1>4
<1>25. Map' = [Map EXCEPT ![c] = Map[p]] /\ Map[c] = Absent /\ Map[p] # Absent
  <2>1. Map' = [Map EXCEPT ![c] = Seen(c)']
    BY <1>20, OneChanges
  <2>2. Map[p] = Seen(p) /\ Map[c] = Seen(c)
    BY <1>3 DEF Map
  <2>3. Seen(p) # Absent
    BY <1>3, SeenValues
  <2>4. Seen(c) = Absent
    BY <1>1 DEF Seen, Alive
  <2>. QED
    BY <2>1, <2>2, <2>3, <2>4, <1>24
<1>26. Table!Changes(Map, Map')
  BY <1>3, <1>25 DEF Table!Changes, Table!Fork
<1>. QED
  BY <1>20, <1>22, <1>23, <1>26 DEF IInv

(* A process loses the descriptors S, whose nodes are freed. *)
LEMMA CloseAllHeap ==
  ASSUME IInv, NEW p \in Running, NEW S, NEW closed \in SUBSET Ptys,
         CloseAll(p, S, closed), NodesOf(p, S) \subseteq Nodes
  PROVE  /\ HeapType' /\ OpenFilesExist' /\ OffsetsStayInside'
         /\ \A x \in Nodes : node'[x] = IF x \in NodesOf(p, S) THEN Unused ELSE node[x]
<1>1. /\ node' = [x \in Nodes |-> IF x \in NodesOf(p, S) THEN Unused ELSE node[x]]
      /\ linked' = linked \ (Unlinked(NodesOf(p, S)) \cup closed)
      /\ UNCHANGED <<length, strayed>>
  BY DEF CloseAll
<1>2. HeapType /\ OpenFilesExist /\ OffsetsStayInside
  BY DEF IInv
<1>3. linked' \subseteq linked /\ linked \cap Regular \subseteq linked'
  BY <1>1, FileTableAssumption DEF Unlinked
<1>4. HeapType'
  BY <1>1, <1>2, <1>3 DEF HeapType
<1>5. \A x \in Nodes : node'[x] # Unused => node[x] # Unused /\ node'[x] = node[x]
  BY <1>1
<1>. QED
  BY <1>1, <1>2, <1>3, <1>4, <1>5, HeapCopies

(* sys_execve of a process with more than the descriptors that are kept. *)
LEMMA ExecCuts ==
  ASSUME IInv, NEW p \in Running, NEW f \in Regular \cup Ptys, Exec(p, f), Len(fds[p]) > Kept
  PROVE  IInv' /\ Table!Changes(Map, Map')
<1>. DEFINE r == fds[p]
            n == Len(fds[p])
            s == SubSeq(fds[p], 1, Kept)
            w == SubSeq(Seen(p), 1, Kept)
            gone == NodesOf(p, Kept + 1 .. n)
<1>1. n > Kept /\ fds' = [fds EXCEPT ![p] = s]
      /\ \E closed \in SUBSET Ptys : CloseAll(p, Kept + 1 .. n, closed)
  <2>1. Len(fds[p]) \in 0 .. MaxFds /\ Kept \in Nat
    BY SeenRow, FileTableAssumption DEF IInv
  <2>2. Lesser(Kept, Len(fds[p])) = Kept
    BY <2>1 DEF Lesser
  <2>3. fds' = [fds EXCEPT ![p] = s]
    BY <2>2 DEF Exec, CutTo
  <2>. QED
    BY <2>3 DEF Exec
<1>2. FdsType /\ HeapType /\ OwnedOnce /\ p \in Pids
  BY DEF IInv, Running
<1>3. /\ n \in 0 .. MaxFds /\ n \in Nat /\ r \in [1 .. n -> Entry] /\ DOMAIN r = 1 .. n
      /\ r \in Seq(Entry)
      /\ Own(p) \subseteq Nodes /\ Own(p) = {r[i] : i \in 1 .. n} \ {Closed}
      /\ Seen(p) = [i \in 1 .. n |-> IF r[i] = Closed THEN Closed ELSE node[r[i]]]
      /\ MaxFds \in Nat /\ Kept \in Nat
  BY <1>2, SeenRow, FileTableAssumption
<1>4. Seen(p) \in Seq(NodeValues \cup {Closed}) /\ Len(Seen(p)) = n /\ Seen(p) # Absent
  BY <1>2, SeenValues
<1>5. s \in [1 .. Kept -> Entry] /\ s = [k \in 1 .. Kept |-> r[k]]
  BY <1>1, <1>3, CutRow
<1>6. w = [k \in 1 .. Kept |-> Seen(p)[k]]
  BY <1>1, <1>3, <1>4, CutRow
<1>7. /\ \A k \in 1 .. n : k \in 1 .. Kept \/ k \in Kept + 1 .. n
      /\ \A k \in 1 .. Kept : k \in 1 .. n /\ k \notin Kept + 1 .. n
      /\ \A k \in Kept + 1 .. n : k \in 1 .. n
      /\ Kept \in 0 .. MaxFds
  BY <1>1, <1>3
<1>8. \A i, j \in 1 .. n : r[i] = r[j] /\ r[i] # Closed => i = j
  BY <1>2, <1>3 DEF OwnedOnce, Distinct
<1>9. gone = {r[k] : k \in Kept + 1 .. n} \ {Closed}
  BY DEF NodesOf
<1>. HIDE DEF n, s, w, gone
<1>10. gone \subseteq Own(p) /\ gone \subseteq Nodes
  BY <1>3, <1>7, <1>9
<1>11. /\ HeapType' /\ OpenFilesExist' /\ OffsetsStayInside'
       /\ \A x \in Nodes : node'[x] = IF x \in gone THEN Unused ELSE node[x]
  BY <1>1, <1>10, CloseAllHeap DEF gone
<1>12. s \in Rows
  BY <1>5, <1>7 DEF Rows
<1>13. s # Absent
  BY <1>12, RowIsSequence
<1>14. DOMAIN s = 1 .. Kept /\ \A k \in 1 .. Kept : s[k] = r[k] /\ k \in 1 .. n
  BY <1>5, <1>7
<1>15. Distinct(s)
  BY <1>8, <1>14 DEF Distinct
<1>16. RowNodes(s) = Own(p) \ gone
  <2>1. RowNodes(s) = {s[k] : k \in 1 .. Kept} \ {Closed}
    BY <1>13, <1>14 DEF RowNodes
  <2>2. ASSUME NEW x \in RowNodes(s) PROVE x \in Own(p) /\ x \notin gone
    <3>1. PICK k \in 1 .. Kept : s[k] = x /\ x # Closed
      BY <2>1
    <3>2. x = r[k] /\ k \in 1 .. n /\ k \notin Kept + 1 .. n
      BY <3>1, <1>7, <1>14
    <3>3. x \in Own(p)
      BY <3>1, <3>2, <1>3
    <3>4. \A j \in Kept + 1 .. n : r[j] # x
      BY <3>1, <3>2, <1>7, <1>8
    <3>. QED
      BY <3>3, <3>4, <1>9
  <2>3. ASSUME NEW x \in Own(p), x \notin gone PROVE x \in RowNodes(s)
    <3>1. PICK k \in 1 .. n : r[k] = x /\ x # Closed
      BY <1>3
    <3>2. k \in 1 .. Kept
      BY <3>1, <2>3, <1>7, <1>9
    <3>. QED
      BY <3>1, <3>2, <2>1, <1>14
  <2>. QED
    BY <2>2, <2>3
<1>17. \A x \in Own(p) : node[x] # Unused
  BY <1>2, <1>3 DEF OwnedOnce
<1>18. FdsType' /\ OwnedOnce' /\ \A q \in Pids : q # p => Seen(q)' = Seen(q)
  <2>1. RowNodes(s) \subseteq Own(p) \cup Free
    BY <1>16
  <2>2. \A x \in Nodes : x \notin Own(p) \cup RowNodes(s) => node'[x] = node[x]
    BY <1>10, <1>11
  <2>3. \A x \in RowNodes(s) : node'[x] # Unused
    BY <1>3, <1>11, <1>16, <1>17
  <2>4. \A x \in Own(p) \ RowNodes(s) : node'[x] = Unused
    BY <1>3, <1>11, <1>16
  <2>5. s \in Rows \cup {Absent} /\ (s # Absent => Distinct(s))
    BY <1>12, <1>15
  <2>. QED
    BY <2>1, <2>2, <2>3, <2>4, <2>5, <1>1, <1>2, RowStep
<1>19. Seen(p)' = w
  <2>1. fds'[p] = s
    BY <1>1, <1>2 DEF FdsType
  <2>2. Seen(p)' = [k \in 1 .. Kept |-> IF s[k] = Closed THEN Closed ELSE node'[s[k]]]
    BY <2>1, <1>13, <1>14 DEF Seen, Alive
  <2>3. ASSUME NEW k \in 1 .. Kept
        PROVE  (IF s[k] = Closed THEN Closed ELSE node'[s[k]]) = Seen(p)[k]
    <3>1. s[k] = r[k] /\ k \in 1 .. n
      BY <1>14
    <3>2. Seen(p)[k] = IF r[k] = Closed THEN Closed ELSE node[r[k]]
      BY <3>1, <1>3
    <3>3. s[k] # Closed => s[k] \in RowNodes(s)
      BY <1>13, <1>14 DEF RowNodes
    <3>4. s[k] # Closed => node'[s[k]] = node[s[k]]
      BY <3>3, <1>3, <1>11, <1>16
    <3>. QED
      BY <3>1, <3>2, <3>4
  <2>. QED
    BY <2>2, <2>3, <1>6
<1>20. Map' = [Map EXCEPT ![p] = w] /\ Map[p] = Seen(p)
  <2>1. Map' = [Map EXCEPT ![p] = Seen(p)']
    BY <1>2, <1>18, OneChanges
  <2>. QED
    BY <2>1, <1>2, <1>19 DEF Map
<1>21. Table!Exec(p, Map, Map')
  BY <1>1, <1>4, <1>20 DEF Table!Exec, w
<1>22. Table!Changes(Map, Map')
  BY <1>2, <1>4, <1>20, <1>21 DEF Table!Changes
<1>. QED
  BY <1>11, <1>18, <1>22 DEF IInv

(* sys_execve of a process without. *)
LEMMA ExecCutsNone ==
  ASSUME IInv, NEW p \in Running, NEW f \in Regular \cup Ptys, Exec(p, f), ~(Len(fds[p]) > Kept)
  PROVE  IInv' /\ Map' = Map
<1>. DEFINE n == Len(fds[p])
<1>1. FdsType /\ HeapType /\ OwnedOnce /\ p \in Pids
  BY DEF IInv, Running
<1>2. /\ n \in 0 .. MaxFds /\ n \in Nat /\ fds[p] \in [1 .. n -> Entry] /\ fds[p] \in Seq(Entry)
      /\ Kept \in Nat /\ n <= Kept
  BY <1>1, SeenRow, FileTableAssumption
<1>3. Lesser(Kept, n) = n
  BY <1>2 DEF Lesser
<1>4. SubSeq(fds[p], 1, n) = fds[p]
  BY <1>2, CutRow
<1>5. fds' = fds
  BY <1>1, <1>3, <1>4 DEF Exec, CutTo, FdsType
<1>6. Kept + 1 .. n = {}
  BY <1>2
<1>7. NodesOf(p, Kept + 1 .. n) = {}
  BY <1>6 DEF NodesOf
<1>8. PICK closed \in SUBSET Ptys : CloseAll(p, Kept + 1 .. n, closed)
  BY DEF Exec
<1>9. /\ HeapType' /\ OpenFilesExist' /\ OffsetsStayInside'
  BY <1>7, <1>8, CloseAllHeap
<1>10. node' = node
  BY <1>1, <1>7, <1>8 DEF CloseAll, HeapType
<1>11. FdsType' /\ OwnedOnce' /\ Map' = Map
  BY <1>1, <1>5, <1>10, RowsStay
<1>. QED
  BY <1>9, <1>11 DEF IInv

(* sys_execve. *)
LEMMA ExecStep ==
  ASSUME IInv, NEW p \in Running, NEW f \in Regular \cup Ptys, Exec(p, f)
  PROVE  IInv' /\ (Table!Changes(Map, Map') \/ Map' = Map)
BY ExecCuts, ExecCutsNone

(* process_exit. *)
LEMMA ExitStep ==
  ASSUME IInv, NEW p \in Running, Exit(p)
  PROVE  IInv' /\ Table!Changes(Map, Map')
<1>1. fds' = [fds EXCEPT ![p] = Absent] /\ CloseAll(p, DOMAIN fds[p], {})
  BY DEF Exit
<1>2. FdsType /\ HeapType /\ OwnedOnce /\ p \in Pids /\ fds[p] # Absent
  BY DEF IInv, Running, Alive
<1>3. Own(p) = NodesOf(p, DOMAIN fds[p]) /\ Own(p) \subseteq Nodes
  BY <1>2, SeenRow DEF Own, RowNodes, NodesOf
<1>4. /\ HeapType' /\ OpenFilesExist' /\ OffsetsStayInside'
      /\ \A x \in Nodes : node'[x] = IF x \in Own(p) THEN Unused ELSE node[x]
  BY <1>1, <1>3, CloseAllHeap
<1>5. FdsType' /\ OwnedOnce' /\ \A q \in Pids : q # p => Seen(q)' = Seen(q)
  <2>. DEFINE s == Absent
  <2>1. RowNodes(s) = {}
    BY DEF RowNodes
  <2>2. RowNodes(s) \subseteq Own(p) \cup Free
    BY <2>1
  <2>3. \A x \in Nodes : x \notin Own(p) \cup RowNodes(s) => node'[x] = node[x]
    BY <1>4
  <2>4. \A x \in RowNodes(s) : node'[x] # Unused
    BY <2>1
  <2>5. \A x \in Own(p) \ RowNodes(s) : node'[x] = Unused
    BY <1>3, <1>4
  <2>6. s \in Rows \cup {Absent} /\ (s # Absent => Distinct(s)) /\ fds' = [fds EXCEPT ![p] = s]
    BY <1>1
  <2>. HIDE DEF s
  <2>. QED
    BY <2>2, <2>3, <2>4, <2>5, <2>6, <1>2, RowStep
<1>6. Seen(p)' = Absent
  <2>1. fds'[p] = Absent
    BY <1>1, <1>2 DEF FdsType
  <2>. QED
    BY <2>1 DEF Seen, Alive
<1>7. Map' = [Map EXCEPT ![p] = Absent] /\ Map[p] = Seen(p)
  <2>1. Map' = [Map EXCEPT ![p] = Seen(p)']
    BY <1>2, <1>5, OneChanges
  <2>. QED
    BY <2>1, <1>2, <1>6 DEF Map
<1>8. Map[p] # Absent
  BY <1>2, <1>7, SeenValues
<1>9. Table!Changes(Map, Map')
  BY <1>2, <1>7, <1>8 DEF Table!Changes, Table!Exit
<1>. QED
  BY <1>4, <1>5, <1>9 DEF IInv
-----------------------------------------------------------------------------
(* Behaviours. *)

(* The first process has no descriptors, and no node is in use. *)
LEMMA InitHolds == ASSUME Init PROVE IInv /\ Table!AbsInit
<1>1. PICK p \in Pids : fds = [q \in Pids |-> IF q = p THEN <<>> ELSE Absent]
  BY DEF Init
<1>2. /\ node = [x \in Nodes |-> Unused] /\ length = [f \in Regular |-> 0] /\ strayed = FALSE
      /\ \E S \in SUBSET Regular : linked = S \cup Ptys
  BY DEF Init
<1>3. 0 \in 0 .. MaxFds /\ 0 \in Offsets
  BY FileTableAssumption DEF Offsets
<1>4. <<>> \in Rows /\ DOMAIN <<>> = {}
  <2>1. <<>> \in [1 .. 0 -> Entry] /\ DOMAIN <<>> = {}
    OBVIOUS
  <2>. QED
    BY <2>1, <1>3 DEF Rows
<1>5. <<>> # Absent
  BY <1>4, RowIsSequence
<1>6. FdsType
  BY <1>1, <1>4 DEF FdsType
<1>7. HeapType
  BY <1>2, <1>3 DEF HeapType
<1>8. \A q \in Pids : Own(q) = {}
  BY <1>1, <1>4 DEF Own, RowNodes
<1>9. OwnedOnce
  <2>1. \A q \in Running : Distinct(fds[q])
    BY <1>1, <1>4 DEF Running, Alive, Distinct
  <2>. QED
    BY <2>1, <1>2, <1>8 DEF OwnedOnce
<1>10. Live = {}
  BY <1>2 DEF Live
<1>11. OpenFilesExist /\ OffsetsStayInside
  BY <1>10 DEF OpenFilesExist, OffsetsStayInside
<1>12. Map = [q \in Pids |-> IF q = p THEN <<>> ELSE Absent]
  <2>1. \A q \in Pids : Seen(q) = IF q = p THEN <<>> ELSE Absent
    <3>. SUFFICES ASSUME NEW q \in Pids PROVE Seen(q) = IF q = p THEN <<>> ELSE Absent
      OBVIOUS
    <3>1. CASE q = p
      <4>1. Seen(q) = [k \in {} |-> IF fds[q][k] = Closed THEN Closed ELSE node[fds[q][k]]]
        BY <3>1, <1>1, <1>4, <1>5 DEF Seen, Alive
      <4>2. \A g : DOMAIN <<>> = {} /\ <<>> = [k \in {} |-> g]
        OBVIOUS
      <4>. QED
        BY <3>1, <4>1, <4>2
    <3>2. CASE q # p
      BY <3>2, <1>1 DEF Seen, Alive
    <3>. QED
      BY <3>1, <3>2
  <2>. QED
    BY <2>1 DEF Map
<1>. QED
  BY <1>6, <1>7, <1>9, <1>11, <1>12 DEF IInv, Table!AbsInit, Map

(* Every step preserves the invariant and is one of Descriptors, or leaves *)
(* what every process sees.                                                *)
LEMMA NextHolds ==
  ASSUME IInv, Next
  PROVE  IInv' /\ (Table!Changes(Map, Map') \/ Map' = Map)
<1>1. CASE \E f \in Regular : Unlink(f)
  BY <1>1, UnlinkStep
<1>2. ASSUME NEW p \in Running, Free # {}, NEW f \in Regular \cup Ptys, NEW flags \in Flags,
             \/ OpenFound(p, f, flags) \/ OpenNew(p, f, flags)
             \/ OpenFails(f, flags) \/ CreateFails(f, flags)
      PROVE  IInv' /\ (Table!Changes(Map, Map') \/ Map' = Map)
  <2>1. CASE OpenFound(p, f, flags)
    BY <1>2, <2>1, OpenFoundStep
  <2>2. CASE OpenNew(p, f, flags)
    BY <1>2, <2>2, OpenNewStep
  <2>3. CASE OpenFails(f, flags) \/ CreateFails(f, flags)
    BY <1>2, <2>3, OpenFailsStep
  <2>. QED
    BY <1>2, <2>1, <2>2, <2>3
<1>3. ASSUME NEW p \in Running, NEW k \in DOMAIN fds[p],
             \/ Close(p, k)
             \/ Dup(p, k)
             \/ \E to \in DOMAIN fds[p] : Dup2(p, k, to)
             \/ \E n \in 1 .. MaxLength : Read(p, k, n) \/ Write(p, k, n)
             \/ \E whence \in {"set", "end"}, target \in Offsets : Seek(p, k, whence, target)
      PROVE  IInv' /\ (Table!Changes(Map, Map') \/ Map' = Map)
  <2>1. CASE Close(p, k)
    BY <2>1, CloseStep
  <2>2. CASE Dup(p, k)
    BY <2>2, DupStep
  <2>3. CASE \E to \in DOMAIN fds[p] : Dup2(p, k, to)
    BY <2>3, Dup2Step
  <2>4. CASE \E n \in 1 .. MaxLength : Read(p, k, n)
    BY <2>4, ReadStep
  <2>5. CASE \E n \in 1 .. MaxLength : Write(p, k, n)
    BY <2>5, WriteStep
  <2>6. CASE \E whence \in {"set", "end"}, target \in Offsets : Seek(p, k, whence, target)
    <3>1. PICK whence \in {"set", "end"}, target \in Offsets : Seek(p, k, whence, target)
      BY <2>6
    <3>. QED
      BY <3>1, SeekStep
  <2>. QED
    BY <1>3, <2>1, <2>2, <2>3, <2>4, <2>5, <2>6
<1>4. ASSUME NEW p \in Running,
             \/ \E c \in Pids : Fork(p, c)
             \/ \E f \in Regular \cup Ptys : Exec(p, f)
             \/ Exit(p)
      PROVE  IInv' /\ (Table!Changes(Map, Map') \/ Map' = Map)
  BY <1>4, ForkStep, ExecStep, ExitStep
<1>. QED
  BY <1>1, <1>2, <1>3, <1>4 DEF Next

(* The invariant holds in every behaviour. *)
LEMMA Invariance == Spec => []IInv
<1>1. Init => IInv
  BY InitHolds
<1>2. IInv /\ [Next]_vars => IInv'
  <2>. SUFFICES ASSUME IInv, [Next]_vars PROVE IInv'
    OBVIOUS
  <2>1. CASE Next
    BY <2>1, NextHolds
  <2>2. CASE UNCHANGED vars
    <3>1. UNCHANGED <<fds, node, linked, length, strayed>>
      BY <2>2 DEF vars
    <3>2. FdsType' /\ OwnedOnce' /\ Live' = Live
      BY <3>1, RowsStay DEF IInv
    <3>3. HeapType' /\ OpenFilesExist' /\ OffsetsStayInside'
      BY <3>1, <3>2 DEF IInv, HeapType, OpenFilesExist, OffsetsStayInside
    <3>. QED
      BY <3>2, <3>3 DEF IInv
  <2>. QED
    BY <2>1, <2>2
<1>. QED
  BY <1>1, <1>2, PTL DEF Spec

(* Nodes that are lost are neither in use nor handed out, and are as many  *)
(* as were forgotten.                                                      *)
Leaks ==
    /\ leaked \subseteq Nodes /\ leaked \cap Live = {}
    /\ forgets \in Nat /\ Cardinality(leaked) = forgets

(* The nodes are finitely many. *)
LEMMA LeakedFinite ==
  ASSUME Leaks
  PROVE  IsFiniteSet(leaked)
<1>1. NNodes \in Nat /\ 1 \in Int /\ NNodes \in Int
  BY FileTableAssumption
<1>2. IsFiniteSet(Nodes)
  BY <1>1, FS_Interval DEF Nodes
<1>. QED
  BY <1>2, FS_Subset DEF Leaks

(* Only free nodes come into use. *)
FreshOnly == \A x \in leaked : node'[x] = node[x]

(* A step that forgets nothing. *)
LEMMA LeaksStay ==
  ASSUME Leaks, FreshOnly, UNCHANGED <<leaked, forgets>>
  PROVE  Leaks'
BY DEF Leaks, FreshOnly, Live

(* A step that forgets the node it got. *)
LEMMA LeaksGrow ==
  ASSUME Leaks, FreshOnly, Free # {}, Forget, node'[NewNode] = node[NewNode]
  PROVE  Leaks'
<1>1. NewNode \in Free
  BY NewNodeIsFree
<1>2. leaked' = leaked \cup {NewNode} /\ forgets' = forgets + 1 /\ NewNode \notin leaked
      /\ NewNode \in Nodes
  BY <1>1 DEF Forget, Free
<1>3. Cardinality(leaked \cup {NewNode}) = Cardinality(leaked) + 1
  BY <1>2, LeakedFinite, FS_AddElement
<1>4. forgets' \in Nat /\ Cardinality(leaked') = forgets'
  BY <1>2, <1>3 DEF Leaks
<1>5. leaked' \subseteq Nodes
  BY <1>2 DEF Leaks
<1>6. leaked' \cap Live' = {}
  BY <1>1, <1>2 DEF Leaks, FreshOnly, Live, Free
<1>. QED
  BY <1>4, <1>5, <1>6 DEF Leaks

(* What is not in use stays so but for the nodes that malloc gives. *)
LEMMA FreshByRow ==
  ASSUME IInv, Leaks, NEW p \in Running, NEW X \in SUBSET Free,
         \A x \in Nodes \ (Own(p) \cup X) : node'[x] = node[x]
  PROVE  FreshOnly
<1>1. Own(p) \subseteq Live
  <2>1. Own(p) \subseteq Nodes /\ p \in Pids
    BY SeenRow DEF IInv, Running
  <2>. QED
    BY <2>1 DEF IInv, OwnedOnce, Live
<1>. QED
  BY <1>1 DEF Leaks, FreshOnly, Free

(* Every step keeps account of the nodes that are lost. *)
LEMMA LeaksKeep ==
  ASSUME IInv, Leaks, [Next]_vars
  PROVE  Leaks'
<1>1. \A p \in Running : \A k \in DOMAIN fds[p] : fds[p][k] # Closed => fds[p][k] \in Own(p)
  BY DEF Own, RowNodes, Running, Alive
<1>2. ASSUME UNCHANGED <<node, leaked, forgets>> PROVE Leaks'
  BY <1>2, LeaksStay DEF FreshOnly
<1>3. ASSUME NEW p \in Running, Free # {}, NEW f \in Regular \cup Ptys, NEW flags \in Flags,
             OpenFound(p, f, flags)
      PROVE  Leaks'
  <2>1. \A x \in Nodes \ (Own(p) \cup {NewNode}) : node'[x] = node[x]
    BY <1>3 DEF OpenFound, AppendFd, IInv, HeapType
  <2>2. FreshOnly
    BY <1>3, <2>1, NewNodeIsFree, FreshByRow
  <2>. QED
    BY <1>3, <2>2, LeaksStay DEF OpenFound
<1>4. ASSUME NEW p \in Running, Free # {}, NEW f \in Regular \cup Ptys, NEW flags \in Flags,
             OpenNew(p, f, flags)
      PROVE  Leaks'
  <2>. DEFINE y == Min(Free \ {NewNode})
  <2>1. Free # {NewNode} /\ Forget
    BY <1>4 DEF OpenNew
  <2>2. Free \ {NewNode} \in SUBSET Nat /\ Free \ {NewNode} # {}
    BY <1>4, <2>1, FileTableAssumption DEF Free, Nodes
  <2>3. y \in Free \ {NewNode}
    BY <2>2, LeastExists
  <2>4. PICK v : AppendFd(p, y, v)
    BY <1>4 DEF OpenNew
  <2>. HIDE DEF y
  <2>5. \A x \in Nodes \ {y} : node'[x] = node[x]
    BY <2>4 DEF AppendFd, IInv, HeapType
  <2>6. FreshOnly
    BY <2>3, <2>5, FreshByRow
  <2>7. NewNode \in Nodes \ {y}
    BY <1>4, <2>3, NewNodeIsFree DEF Free
  <2>8. node'[NewNode] = node[NewNode]
    BY <2>5, <2>7
  <2>. QED
    BY <1>4, <2>1, <2>6, <2>8, LeaksGrow
<1>5. ASSUME Free # {}, NEW f \in Regular \cup Ptys, NEW flags \in Flags,
             OpenFails(f, flags) \/ CreateFails(f, flags)
      PROVE  Leaks'
  <2>1. CASE OpenFails(f, flags)
    BY <2>1, <1>2 DEF OpenFails
  <2>2. CASE CreateFails(f, flags)
    <3>1. FreshOnly /\ Forget /\ node'[NewNode] = node[NewNode]
      BY <2>2 DEF CreateFails, FreshOnly
    <3>. QED
      BY <1>5, <3>1, LeaksGrow
  <2>. QED
    BY <1>5, <2>1, <2>2
<1>6. ASSUME NEW p \in Running, NEW S \in SUBSET DOMAIN fds[p], NEW closed,
             CloseAll(p, S, closed)
      PROVE  FreshOnly /\ \A x \in Free : node'[x] = node[x]
  <2>1. NodesOf(p, S) \subseteq Own(p)
    BY <1>1 DEF NodesOf
  <2>2. \A x \in Nodes \ Own(p) : node'[x] = node[x]
    BY <1>6, <2>1 DEF CloseAll
  <2>3. FreshOnly
    BY <2>2, FreshByRow
  <2>4. Own(p) \subseteq Live
    <3>1. Own(p) \subseteq Nodes /\ p \in Pids
      BY SeenRow DEF IInv, Running
    <3>. QED
      BY <3>1 DEF IInv, OwnedOnce, Live
  <2>. QED
    BY <2>2, <2>3, <2>4 DEF Free
<1>7. ASSUME NEW p \in Running, Free # {}, NEW f \in Regular \cup Ptys, Exec(p, f)
      PROVE  Leaks'
  <2>1. Kept + 1 .. Len(fds[p]) \in SUBSET DOMAIN fds[p]
    BY SeenRow, FileTableAssumption DEF IInv
  <2>2. PICK closed : CloseAll(p, Kept + 1 .. Len(fds[p]), closed)
    BY <1>7 DEF Exec
  <2>3. FreshOnly /\ \A x \in Free : node'[x] = node[x]
    BY <1>6, <2>1, <2>2
  <2>4. node'[NewNode] = node[NewNode]
    BY <1>7, <2>3, NewNodeIsFree
  <2>5. Forget \/ UNCHANGED <<leaked, forgets>>
    BY <1>7 DEF Exec
  <2>. QED
    BY <1>7, <2>3, <2>4, <2>5, LeaksStay, LeaksGrow
<1>8. ASSUME NEW p \in Running, Exit(p) PROVE Leaks'
  <2>1. CloseAll(p, DOMAIN fds[p], {}) /\ UNCHANGED <<leaked, forgets>>
    BY <1>8 DEF Exit
  <2>2. FreshOnly
    BY <1>6, <2>1
  <2>. QED
    BY <2>1, <2>2, LeaksStay
<1>9. ASSUME NEW p \in Running, NEW k \in DOMAIN fds[p], NEW v,
             fds[p][k] # Closed, node' = [node EXCEPT ![fds[p][k]] = v],
             UNCHANGED <<leaked, forgets>>
      PROVE  Leaks'
  <2>1. \A x \in Nodes \ Own(p) : node'[x] = node[x]
    BY <1>1, <1>9 DEF IInv, HeapType
  <2>2. FreshOnly
    BY <2>1, FreshByRow
  <2>. QED
    BY <1>9, <2>2, LeaksStay
<1>10. ASSUME NEW p \in Running, NEW k \in DOMAIN fds[p], Close(p, k) PROVE Leaks'
  BY <1>9, <1>10 DEF Close, IsOpen
<1>11. ASSUME NEW p \in Running, NEW k \in DOMAIN fds[p], NEW n, Read(p, k, n) PROVE Leaks'
  <2>1. \E v : node' = [node EXCEPT ![fds[p][k]] = v]
    BY <1>11 DEF Read
  <2>. QED
    BY <1>9, <1>11, <2>1 DEF Read, IsOpen
<1>12. ASSUME NEW p \in Running, NEW k \in DOMAIN fds[p], NEW n, Write(p, k, n) PROVE Leaks'
  <2>1. \E v : node' = [node EXCEPT ![fds[p][k]] = v]
    BY <1>12 DEF Write
  <2>. QED
    BY <1>9, <1>12, <2>1 DEF Write, IsOpen
<1>13. ASSUME NEW p \in Running, NEW k \in DOMAIN fds[p], NEW whence, NEW target,
              Seek(p, k, whence, target)
       PROVE  Leaks'
  <2>1. \E v : node' = [node EXCEPT ![fds[p][k]] = v]
    BY <1>13 DEF Seek
  <2>. QED
    BY <1>9, <1>13, <2>1 DEF Seek, IsOpen
<1>14. ASSUME NEW p \in Running, NEW k \in DOMAIN fds[p], Dup(p, k) PROVE Leaks'
  <2>1. NewNode \in Free
    BY <1>14, NewNodeIsFree DEF Dup
  <2>2. \A x \in Nodes \ {NewNode} : node'[x] = node[x]
    BY <1>14 DEF Dup, AppendFd, IInv, HeapType
  <2>3. FreshOnly
    BY <2>1, <2>2, FreshByRow
  <2>. QED
    BY <1>14, <2>3, LeaksStay DEF Dup
<1>15. ASSUME NEW p \in Running, NEW k \in DOMAIN fds[p], NEW to \in DOMAIN fds[p], Dup2(p, k, to)
       PROVE  Leaks'
  <2>. DEFINE old == NodesOf(p, {to})
              copy == Min(Free \cup old)
  <2>1. old \subseteq Own(p) /\ old \subseteq Nodes
    <3>1. old \subseteq Own(p)
      BY <1>1 DEF NodesOf
    <3>. QED
      BY <3>1, SeenRow DEF IInv
  <2>2. Free \cup old # {} /\ Free \cup old \in SUBSET Nat
    <3>1. Free \cup old # {}
      BY <1>15 DEF Dup2
    <3>. HIDE DEF old
    <3>2. Free \subseteq Nodes /\ Nodes \subseteq Nat
      BY FileTableAssumption DEF Free, Nodes
    <3>. QED
      BY <2>1, <3>1, <3>2
  <2>3. copy \in Free \cup old
    BY <2>2, LeastExists
  <2>4. \A x \in Nodes \ ({copy} \cup old) : node'[x] = node[x]
    BY <1>15 DEF Dup2
  <2>. HIDE DEF old, copy
  <2>5. \A x \in Nodes \ (Own(p) \cup (Free \cap {copy})) : node'[x] = node[x]
    BY <2>1, <2>3, <2>4
  <2>6. FreshOnly
    BY <2>5, FreshByRow
  <2>. QED
    BY <1>15, <2>6, LeaksStay DEF Dup2
<1>16. ASSUME NEW p \in Running, NEW c \in Pids, Fork(p, c) PROVE Leaks'
  <2>1. \A x \in Nodes \ Free : node'[x] = node[x]
    <3>. DEFINE opened == {k \in DOMAIN fds[p] : fds[p][k] # Closed}
    <3>1. PICK copy \in [opened -> Free] :
             node' = [x \in Nodes |->
                       IF \E k \in opened : copy[k] = x
                         THEN node[fds[p][CHOOSE k \in opened : copy[k] = x]]
                         ELSE node[x]]
      BY <1>16 DEF Fork
    <3>. HIDE DEF opened
    <3>. QED
      BY <3>1
  <2>2. FreshOnly
    BY <2>1, FreshByRow
  <2>. QED
    BY <1>16, <2>2, LeaksStay DEF Fork
<1>17. CASE \E f \in Regular : Unlink(f)
  BY <1>2, <1>17 DEF Unlink
<1>18. CASE UNCHANGED vars
  BY <1>2, <1>18 DEF vars
<1>19. ASSUME NEW p \in Running, NEW k \in DOMAIN fds[p],
              \/ Close(p, k)
              \/ Dup(p, k)
              \/ \E to \in DOMAIN fds[p] : Dup2(p, k, to)
              \/ \E n \in 1 .. MaxLength : Read(p, k, n) \/ Write(p, k, n)
              \/ \E whence \in {"set", "end"}, target \in Offsets : Seek(p, k, whence, target)
       PROVE  Leaks'
  BY <1>10, <1>11, <1>12, <1>13, <1>14, <1>15, <1>19
<1>20. ASSUME NEW p \in Running, Free # {}, NEW f \in Regular \cup Ptys,
              \/ \E flags \in Flags :
                  \/ OpenFound(p, f, flags) \/ OpenNew(p, f, flags)
                  \/ OpenFails(f, flags) \/ CreateFails(f, flags)
              \/ Exec(p, f)
       PROVE  Leaks'
  BY <1>3, <1>4, <1>5, <1>7, <1>20
<1>. QED
  BY <1>8, <1>16, <1>17, <1>18, <1>19, <1>20 DEF Next

(* What is lost is always accounted for. *)
LEMMA LeaksInvariant == Spec => []Leaks
<1>1. Init => Leaks
  BY FS_EmptySet DEF Init, Leaks
<1>2. IInv /\ Leaks /\ [Next]_vars => Leaks'
  BY LeaksKeep
<1>. QED
  BY <1>1, <1>2, Invariance, PTL DEF Spec

(* The entries that hold node x are at most one, and none when x is free. *)
LEMMA OneSlot ==
  ASSUME IInv, NEW x \in Nodes
  PROVE  Cardinality({slot \in Running \X (1 .. MaxFds) :
                        /\ slot[2] \in DOMAIN fds[slot[1]]
                        /\ fds[slot[1]][slot[2]] = x})
           = IF node[x] = Unused THEN 0 ELSE 1
<1>. DEFINE Slots == {slot \in Running \X (1 .. MaxFds) :
                        /\ slot[2] \in DOMAIN fds[slot[1]]
                        /\ fds[slot[1]][slot[2]] = x}
<1>1. FdsType /\ HeapType /\ OwnedOnce /\ x # Closed
  BY FileTableAssumption DEF IInv
<1>2. ASSUME NEW p \in Running, NEW k \in 1 .. MaxFds, k \in DOMAIN fds[p], fds[p][k] = x
      PROVE  x \in Own(p) /\ p \in Pids /\ node[x] # Unused
  BY <1>1, <1>2, SeenRow DEF OwnedOnce, Running
<1>3. CASE node[x] = Unused
  <2>1. Slots = {}
    <3>. SUFFICES ASSUME NEW slot \in Slots PROVE FALSE
      OBVIOUS
    <3>1. slot[1] \in Running /\ slot[2] \in 1 .. MaxFds
      OBVIOUS
    <3>2. slot[2] \in DOMAIN fds[slot[1]] /\ fds[slot[1]][slot[2]] = x
      OBVIOUS
    <3>. QED
      BY <3>1, <3>2, <1>2, <1>3
  <2>2. Cardinality({}) = 0
    BY FS_EmptySet
  <2>. QED
    BY <2>1, <2>2, <1>3
<1>4. CASE node[x] # Unused
  <2>1. PICK p \in Pids : x \in Own(p)
    BY <1>1, <1>4 DEF OwnedOnce
  <2>2. p \in Running
    BY <2>1 DEF Own, RowNodes, Running, Alive
  <2>3. Own(p) = {fds[p][k] : k \in 1 .. Len(fds[p])} \ {Closed} /\ DOMAIN fds[p] = 1 .. Len(fds[p])
        /\ Len(fds[p]) \in 0 .. MaxFds
    BY <1>1, <2>2, SeenRow
  <2>4. PICK k \in 1 .. Len(fds[p]) : fds[p][k] = x
    BY <2>1, <2>3
  <2>5. k \in 1 .. MaxFds /\ k \in DOMAIN fds[p]
    BY <2>3, FileTableAssumption
  <2>. DEFINE only == <<p, k>>
  <2>6. only \in Slots
    BY <2>2, <2>4, <2>5
  <2>7. ASSUME NEW slot \in Slots PROVE slot = only
    <3>1. slot[1] \in Running /\ slot[2] \in 1 .. MaxFds /\ slot = <<slot[1], slot[2]>>
      OBVIOUS
    <3>2. slot[2] \in DOMAIN fds[slot[1]] /\ fds[slot[1]][slot[2]] = x
      OBVIOUS
    <3>3. x \in Own(slot[1]) /\ slot[1] \in Pids
      BY <3>1, <3>2, <1>2
    <3>4. slot[1] = p
      BY <3>3, <2>1, <1>1 DEF OwnedOnce
    <3>5. slot[2] = k
      BY <3>2, <3>4, <2>2, <2>4, <2>5, <1>1 DEF OwnedOnce, Distinct
    <3>. QED
      BY <3>1, <3>4, <3>5
  <2>. HIDE DEF only, Slots
  <2>8. Slots = {only}
    BY <2>6, <2>7
  <2>9. Cardinality({only}) = 1
    BY FS_Singleton
  <2>. QED
    BY <2>8, <2>9, <1>4 DEF Slots
<1>. QED
  BY <1>3, <1>4

(* The tables, the nodes and the files are well formed. *)
THEOREM TablesAreTyped == Spec => []TypeOK
<1>1. IInv /\ Leaks => TypeOK
  BY TypesFollow DEF IInv, Leaks
<1>. QED
  BY <1>1, Invariance, LeaksInvariant, PTL

(* append_process_fd, process_dup2, spawn_process, sys_execve and          *)
(* process_exit neither free a node twice nor let two descriptors have it, *)
(* and lose none but the one that sys_execve opens and the one that        *)
(* create_file opens.                                                      *)
THEOREM NodesHaveOneSlot == Spec => []SlotsOwnNodes
<1>1. IInv /\ Leaks => SlotsOwnNodes
  BY TypesFollow, OneSlot DEF IInv, Leaks, SlotsOwnNodes
<1>. QED
  BY <1>1, Invariance, LeaksInvariant, PTL

(* sys_read and sys_write of programs that seek to where they know the     *)
(* file reaches, and truncate none with contents, never give read_tmpfs an *)
(* offset beyond the end.                                                  *)
THEOREM OffsetsAreInside == Spec => []OffsetsStayInside
<1>1. IInv => OffsetsStayInside
  BY DEF IInv
<1>. QED
  BY <1>1, Invariance, PTL

(* The descriptors of sys_open, sys_close, process_dup2, spawn_process and *)
(* sys_execve behave as values in the tables of Descriptors.               *)
THEOREM DescriptorsAreValues == Spec => ImplementsDescriptors
<1>1. Init => Table!AbsInit
  BY InitHolds
<1>2. IInv /\ [Next]_vars => [Table!AbsNext]_Map
  <2>. SUFFICES ASSUME IInv, [Next]_vars PROVE Table!AbsNext \/ Map' = Map
    OBVIOUS
  <2>1. CASE Next
    BY <2>1, NextHolds, ChangesStep
  <2>2. CASE UNCHANGED vars
    <3>1. UNCHANGED <<fds, node>>
      BY <2>2 DEF vars
    <3>. QED
      BY <3>1, RowsStay DEF IInv
  <2>. QED
    BY <2>1, <2>2
<1>3. [Table!AbsNext]_Map <=> [Table!AbsNext]_[p \in Pids |-> Seen(p)]
  BY DEF Map
<1>. QED
  BY <1>1, <1>2, <1>3, Invariance, PTL DEF Spec, ImplementsDescriptors, Table!AbsSpec
=============================================================================
