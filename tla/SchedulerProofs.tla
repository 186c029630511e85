--------------------------- MODULE SchedulerProofs ---------------------------
(***************************************************************************)
(* The scheduler for any set of process structures: what the run queue     *)
(* holds, what becomes of finished processes, and that orderly programs    *)
(* never make the kernel use what an earlier deletion freed.               *)
(***************************************************************************)
EXTENDS Scheduler, TLAPS, SequenceTheorems, FiniteSetTheorems

(* q lists the elements of S, each once. *)
Enumerates(q, S) ==
    /\ q \in Seq(S)
    /\ \A i, j \in 1 .. Len(q) : q[i] = q[j] => i = j
    /\ \A x \in S : \E i \in 1 .. Len(q) : q[i] = x

(* As long as nothing dangling is used, what runs is alive. *)
RunnerLives == ~dangling /\ pc = "run" => current_process \in Alive \cup {Idle}

(* The delete queue holds at most one process, and only in switch_next. *)
DeleteOne ==
    delete_queue # Null =>
        pc = "switch" /\ delete_queue \in finished /\ next[delete_queue] = Null

Basics == RunnerLives /\ DeleteOne /\ waiting[Idle] = Null

(* The run queue lists the processes that must be in it. *)
Queued == Sound => \E q \in Lists(Ready) : Enumerates(q, Ready) /\ IsQueue(q)

(* A next field that the running process still has from when it was queued *)
(* leads into the queue; and when the process that is switched away from   *)
(* goes on, a process alone in the queue has none.                         *)
StaleLinksLead ==
    Sound /\ current_process \notin finished =>
        /\ current_process = Idle => process_queue = Null
        /\ pc = "run" /\ current_process # Idle /\ process_queue = Null =>
              next[current_process] = Null
        /\ pc = "switch" /\ process_queue # Null /\ process_queue = process_queue_end =>
              next[process_queue] = Null

(* A process that will not delete itself has one that waits for it. *)
FlagsAreMeant ==
    ~dangling => \A z \in Alive \cap has_waiters : \E w \in Alive : waiting[w] = z

(* The process tree when programs are orderly: it holds the processes, one *)
(* that has finished is a leaf, and only its parent waits for a process.   *)
LeavesFinish == \A x \in allocated \cap finished : Children(x) = {}
TreeIsWhole ==
    /\ in_tree = allocated
    /\ \A x \in in_tree : parent[x] \in in_tree \cup {Null}
    /\ LeavesFinish
ParentsWait ==
    \A w \in Alive : waiting[w] # Null =>
        /\ waiting[w] \in Children(w)
        /\ waiting[w] \in has_waiters \/ (pc = "run" /\ current_process = w)
DeleteAlone == delete_queue # Null => delete_queue \in allocated \ has_waiters
Tree == Orderly /\ ~drained => ~dangling /\ TreeIsWhole /\ ParentsWait /\ DeleteAlone

IInv ==
    /\ TypeOK
    /\ Basics
    /\ Queued /\ StaleLinksLead
    /\ ZombiesAreAwaited /\ FlagsAreMeant
    /\ Tree
-----------------------------------------------------------------------------
(* The types.                                                              *)

LEMMA InitTypes == Init => TypeOK
BY DEF Init, TypeOK

(* make_process_ready, ... *)
LEMMA QueueTypes ==
    ASSUME TypeOK, NEW p \in Slots, NEW links \in [Slots -> Slots \cup {Null}],
           MakeReady(p, links)
    PROVE  /\ process_queue' \in Slots \cup {Null} /\ process_queue_end' \in Slots \cup {Null}
           /\ next' \in [Slots -> Slots \cup {Null}] /\ drained' \in BOOLEAN
BY DEF TypeOK, MakeReady

(* ... switch_task ... *)
LEMMA SwitchTypes ==
    ASSUME TypeOK, SwitchTask
    PROVE  /\ process_queue' \in Slots \cup {Null} /\ process_queue_end' \in Slots \cup {Null}
           /\ next' \in [Slots -> Slots \cup {Null}] /\ drained' \in BOOLEAN
           /\ pc' \in {"run", "switch"}
<1>1. CASE current_process = Idle
  BY <1>1 DEF SwitchTask, queueVars, TypeOK
<1>2. CASE current_process # Idle
  <2>1. current_process \in Slots /\ next \in [Slots -> Slots \cup {Null}]
    BY <1>2 DEF TypeOK
  <2>2. MakeReady(current_process, next) /\ pc' = "switch"
    BY <1>2 DEF SwitchTask
  <2>. QED
    BY <2>1, <2>2, QueueTypes
<1>. QED
  BY <1>1, <1>2

(* ... and process_delete keep the types. *)
LEMMA DeleteTypes ==
    ASSUME TypeOK, NEW p \in Slots, Delete(p)
    PROVE  /\ allocated' \subseteq Slots /\ in_tree' \subseteq Slots
           /\ parent' \in [Slots -> Slots \cup {Null}]
           /\ dangling' \in BOOLEAN
BY DEF TypeOK, Delete

(* Every step keeps the types. *)
LEMMA TypesKeep == TypeOK /\ [Next]_vars => TypeOK'
<1>. SUFFICES ASSUME TypeOK, [Next]_vars PROVE TypeOK'
  OBVIOUS
<1>1. CASE TimerTick
  <2>1. SwitchTask
    BY <1>1 DEF TimerTick
  <2>. QED
    BY <1>1, <2>1, SwitchTypes DEF TimerTick, TypeOK, treeVars
<1>2. ASSUME NEW p \in Slots, NEW c \in Slots, Fork(p, c) PROVE TypeOK'
  <2>1. MakeReady(c, [next EXCEPT ![c] = Null])
    BY <1>2 DEF Fork
  <2>2. [next EXCEPT ![c] = Null] \in [Slots -> Slots \cup {Null}]
    BY DEF TypeOK
  <2>3. /\ process_queue' \in Slots \cup {Null} /\ process_queue_end' \in Slots \cup {Null}
        /\ next' \in [Slots -> Slots \cup {Null}] /\ drained' \in BOOLEAN
    BY <2>1, <2>2, QueueTypes
  <2>4. /\ parent' \in [Slots -> Slots \cup {Null}]
        /\ waiting' \in [Slots \cup {Idle} -> Slots \cup {Null}]
    BY <1>2 DEF Fork, TypeOK
  <2>. QED
    BY <1>2, <2>3, <2>4 DEF Fork, TypeOK
<1>3. ASSUME NEW p \in Slots, NEW c \in Slots, WaitPid(p, c) PROVE TypeOK'
  BY <1>3 DEF WaitPid, TypeOK, queueVars, treeVars
<1>4. ASSUME NEW p \in Slots, Exit(p) PROVE TypeOK'
  BY <1>4 DEF Exit, TypeOK, queueVars, treeVars
<1>5. CASE WaitLoop
  <2>. DEFINE c == waiting[current_process]
  <2>1. c \in Slots
    BY <1>5 DEF WaitLoop, TypeOK
  <2>2. CASE c \in finished
    <3>1. /\ Delete(c) /\ waiting' = [waiting EXCEPT ![current_process] = Null]
          /\ UNCHANGED <<queueVars, has_waiters, pc, delete_queue, finished, current_process>>
      BY <1>5, <2>2 DEF WaitLoop
    <3>. HIDE DEF c
    <3>. QED
      BY <2>1, <3>1, DeleteTypes DEF TypeOK, queueVars
  <2>3. CASE c \notin finished
    <3>1. /\ SwitchTask /\ has_waiters' = has_waiters \cup {c}
          /\ dangling' = (dangling \/ c \notin allocated)
          /\ UNCHANGED <<allocated, treeVars, waiting, delete_queue, finished, current_process>>
      BY <1>5, <2>3 DEF WaitLoop
    <3>. HIDE DEF c
    <3>. QED
      BY <2>1, <3>1, SwitchTypes DEF TypeOK, treeVars
  <2>. QED
    BY <2>2, <2>3
<1>6. CASE DeleteQueued
  <2>1. delete_queue \in Slots /\ Delete(delete_queue)
    BY <1>6 DEF DeleteQueued, TypeOK
  <2>. QED
    BY <1>6, <2>1, DeleteTypes DEF DeleteQueued, TypeOK, queueVars
<1>7. CASE PickNext
  BY <1>7 DEF PickNext, TypeOK, treeVars
<1>8. CASE PickIdle
  BY <1>8 DEF PickIdle, TypeOK, queueVars, treeVars
<1>9. CASE UNCHANGED vars
  BY <1>9 DEF vars, TypeOK, queueVars, treeVars
<1>. QED
  BY <1>1, <1>2, <1>3, <1>4, <1>5, <1>6, <1>7, <1>8, <1>9 DEF Next, SwitchNext
-----------------------------------------------------------------------------
(* Who runs, and what is about to be deleted.                              *)

LEMMA BasicsKeep == TypeOK /\ Basics /\ [Next]_vars => Basics'
<1>. SUFFICES ASSUME TypeOK, Basics, [Next]_vars PROVE Basics'
  OBVIOUS
<1>0. Idle \notin Slots /\ Null \notin Slots
  BY SchedulerAssumption
<1>. USE DEF Basics, RunnerLives, DeleteOne
<1>1. CASE TimerTick
  <2>1. pc' = "switch" /\ delete_queue = Null /\ delete_queue' = Null /\ waiting' = waiting
    BY <1>1 DEF TimerTick, SwitchTask
  <2>. QED
    BY <2>1
<1>2. ASSUME NEW p \in Slots, NEW c \in Slots, Fork(p, c) PROVE Basics'
  <2>1. /\ pc = "run" /\ current_process = p /\ pc' = pc /\ current_process' = p
        /\ allocated' = allocated \cup {c} /\ c \notin allocated
        /\ finished' = finished \ {c} /\ delete_queue' = delete_queue
        /\ delete_queue = Null /\ dangling' = (dangling \/ p \notin in_tree)
    BY <1>2 DEF Fork, InUserMode
  <2>2. RunnerLives'
    BY <2>1 DEF Alive
  <2>3. waiting'[Idle] = Null
    BY <1>0, <1>2 DEF Fork, TypeOK
  <2>. QED
    BY <2>1, <2>2, <2>3
<1>3. ASSUME NEW p \in Slots, NEW c \in Slots, WaitPid(p, c) PROVE Basics'
  <2>1. waiting'[Idle] = Null
    BY <1>0, <1>3 DEF WaitPid, TypeOK
  <2>. QED
    BY <1>3, <2>1 DEF WaitPid, queueVars, Alive
<1>4. ASSUME NEW p \in Slots, Exit(p) PROVE Basics'
  <2>1. pc = "run" /\ pc' = "switch" /\ finished' = finished \cup {p} /\ waiting' = waiting
        /\ delete_queue = Null
    BY <1>4 DEF Exit, InUserMode
  <2>2. CASE p \in has_waiters
    BY <1>4, <2>1, <2>2 DEF Exit
  <2>3. CASE p \notin has_waiters
    <3>1. next' = [next EXCEPT ![p] = delete_queue] /\ delete_queue' = p
      BY <1>4, <2>3 DEF Exit
    <3>2. next'[p] = Null
      BY <2>1, <3>1 DEF TypeOK
    <3>. QED
      BY <2>1, <3>1, <3>2
  <2>. QED
    BY <2>2, <2>3
<1>5. CASE WaitLoop
  <2>. DEFINE p == current_process
              c == waiting[current_process]
  <2>1. c \in Slots /\ pc = "run" /\ delete_queue = Null /\ delete_queue' = Null
        /\ finished' = finished /\ p' = p /\ p # Idle
    BY <1>5 DEF WaitLoop, TypeOK
  <2>2. CASE c \in finished
    <3>1. /\ allocated' = allocated \ {c} /\ waiting' = [waiting EXCEPT ![p] = Null]
          /\ pc' = pc /\ dangling' \in BOOLEAN /\ (dangling => dangling')
      BY <1>5, <2>2 DEF WaitLoop, Delete
    <3>2. RunnerLives'
      BY <2>1, <2>2, <3>1 DEF Alive
    <3>3. waiting'[Idle] = Null
      BY <3>1 DEF TypeOK
    <3>. QED
      BY <2>1, <3>2, <3>3
  <2>3. CASE c \notin finished
    <3>1. pc' = "switch" /\ waiting' = waiting
      BY <1>5, <2>3 DEF WaitLoop, SwitchTask
    <3>. QED
      BY <2>1, <3>1
  <2>. QED
    BY <2>2, <2>3
<1>6. CASE DeleteQueued
  <2>1. pc' = "switch" /\ delete_queue' = Null /\ waiting' = waiting
    BY <1>6 DEF DeleteQueued
  <2>. QED
    BY <2>1
<1>7. CASE PickNext
  <2>1. /\ delete_queue' = Null /\ waiting' = waiting
        /\ finished' = finished /\ allocated' = allocated
        /\ current_process' = process_queue
        /\ dangling' = (dangling \/ process_queue \notin allocated)
        /\ pc' = IF process_queue \in finished THEN "switch" ELSE "run"
    BY <1>7 DEF PickNext
  <2>2. RunnerLives'
    BY <2>1 DEF Alive
  <2>. QED
    BY <2>1, <2>2
<1>8. CASE PickIdle
  BY <1>8 DEF PickIdle
<1>9. CASE UNCHANGED vars
  BY <1>9 DEF vars, queueVars, treeVars, Alive
<1>. QED
  BY <1>1, <1>2, <1>3, <1>4, <1>5, <1>6, <1>7, <1>8, <1>9 DEF Next, SwitchNext
-----------------------------------------------------------------------------
(* The run queue.                                                          *)

(* One more at the end of a list, and one less at its start.               *)
LEMMA EnumeratesMore ==
    ASSUME NEW S, NEW q, Enumerates(q, S), NEW p, p \notin S
    PROVE  /\ Enumerates(Append(q, p), S \cup {p})
           /\ Len(q) \in Nat /\ Len(Append(q, p)) = Len(q) + 1
           /\ Append(q, p)[Len(q) + 1] = p
           /\ \A i \in 1 .. Len(q) : Append(q, p)[i] = q[i]
<1>. DEFINE n == Len(q)
            r == Append(q, p)
            T == S \cup {p}
<1>1. q \in Seq(T) /\ q \in Seq(S) /\ n \in Nat
  <2>1. q \in Seq(S) /\ S \subseteq T
    BY DEF Enumerates
  <2>2. n \in Nat /\ DOMAIN q = 1 .. n /\ \A i \in 1 .. n : q[i] \in S
    BY <2>1, LenProperties, ElementOfSeq
  <2>. QED
    BY <2>1, <2>2, SeqDef
<1>2. p \in T
  OBVIOUS
<1>3. /\ r \in Seq(T) /\ Len(r) = n + 1 /\ r[n + 1] = p
      /\ \A i \in 1 .. n : r[i] = q[i]
  BY <1>1, <1>2, AppendProperties
<1>4. \A i \in 1 .. n : q[i] \in S
  BY <1>1, ElementOfSeq
<1>. HIDE DEF n, r
<1>5. ASSUME NEW i \in 1 .. n + 1, NEW j \in 1 .. n + 1, r[i] = r[j] PROVE i = j
  <2>1. (i \in 1 .. n \/ i = n + 1) /\ (j \in 1 .. n \/ j = n + 1)
    BY <1>1
  <2>. QED
    BY <1>3, <1>4, <1>5, <2>1 DEF Enumerates, n
<1>6. ASSUME NEW x \in T PROVE \E i \in 1 .. n + 1 : r[i] = x
  <2>1. CASE x \in S
    <3>1. PICK i \in 1 .. n : q[i] = x
      BY <2>1 DEF Enumerates, n
    <3>2. i \in 1 .. n + 1
      BY <1>1
    <3>. QED
      BY <1>3, <3>1, <3>2
  <2>2. CASE x = p
    <3>1. n + 1 \in 1 .. n + 1
      BY <1>1
    <3>. QED
      BY <1>3, <2>2, <3>1
  <2>. QED
    BY <2>1, <2>2
<1>7. Enumerates(r, T)
  BY <1>3, <1>5, <1>6 DEF Enumerates
<1>. QED
  BY <1>1, <1>3, <1>7 DEF n, r

(* A list without its first element. *)
LEMMA EnumeratesFewer ==
    ASSUME NEW S, NEW q, Enumerates(q, S), q # <<>>
    PROVE  /\ Enumerates(Tail(q), S \ {q[1]})
           /\ Len(q) \in Nat /\ Len(q) >= 1 /\ Len(Tail(q)) = Len(q) - 1
           /\ q[1] \in S
           /\ \A i \in 1 .. Len(q) - 1 : Tail(q)[i] = q[i + 1]
<1>. DEFINE n == Len(q)
            r == Tail(q)
            T == S \ {q[1]}
<1>1. q \in Seq(S) /\ n \in Nat
  BY LenProperties DEF Enumerates
<1>2. n >= 1
  BY <1>1, EmptySeq
<1>3. /\ r \in Seq(S) /\ Len(r) = n - 1
      /\ \A i \in 1 .. n - 1 : r[i] = q[i + 1]
  BY <1>1, HeadTailProperties
<1>4. \A i \in 1 .. n : q[i] \in S
  BY <1>1, ElementOfSeq
<1>. HIDE DEF n, r
<1>5. ASSUME NEW i \in 1 .. n, NEW j \in 1 .. n, q[i] = q[j] PROVE i = j
  BY <1>5 DEF Enumerates, n
<1>6. \A i \in 1 .. n - 1 : i + 1 \in 1 .. n /\ i + 1 # 1
  BY <1>1
<1>7. \A i \in 1 .. n - 1 : r[i] \in T
  <2>. SUFFICES ASSUME NEW i \in 1 .. n - 1 PROVE q[i + 1] \in T
    BY <1>3
  <2>1. 1 \in 1 .. n
    BY <1>1, <1>2
  <2>. QED
    BY <1>4, <1>5, <1>6, <2>1
<1>8. r \in Seq(T)
  <2>1. n - 1 \in Nat /\ DOMAIN r = 1 .. n - 1
    BY <1>1, <1>2, <1>3, LenProperties
  <2>2. r = [i \in 1 .. n - 1 |-> r[i]]
    BY <1>3, <2>1, LenProperties, SeqDef
  <2>3. r \in [1 .. n - 1 -> T]
    BY <1>7, <2>2
  <2>. QED
    BY <2>1, <2>3, SeqDef
<1>9. ASSUME NEW i \in 1 .. n - 1, NEW j \in 1 .. n - 1, r[i] = r[j] PROVE i = j
  <2>1. i + 1 = j + 1
    BY <1>3, <1>5, <1>6, <1>9
  <2>. QED
    BY <1>1, <2>1
<1>10. ASSUME NEW x \in T PROVE \E i \in 1 .. n - 1 : r[i] = x
  <2>1. PICK i \in 1 .. n : q[i] = x
    BY DEF Enumerates, n
  <2>2. i # 1
    BY <2>1
  <2>3. i - 1 \in 1 .. n - 1 /\ (i - 1) + 1 = i
    BY <1>1, <2>2
  <2>. QED
    BY <1>3, <2>1, <2>3
<1>11. Enumerates(r, T)
  BY <1>3, <1>8, <1>9, <1>10 DEF Enumerates
<1>12. q[1] \in S
  BY <1>1, <1>2, <1>4
<1>. QED
  BY <1>1, <1>2, <1>3, <1>11, <1>12 DEF n, r

(* A list of the elements of a finite set is one of Lists. *)
LEMMA EnumerationIsList ==
    ASSUME NEW S, NEW q, Enumerates(q, S)
    PROVE  q \in Lists(S)
<1>. DEFINE n == Len(q)
<1>1. q \in Seq(S) /\ n \in Nat /\ DOMAIN q = 1 .. n
  BY LenProperties DEF Enumerates
<1>2. q \in [1 .. n -> S]
  BY <1>1, ElementOfSeq, SeqDef
<1>3. /\ \A i, j \in 1 .. n : q[i] = q[j] => i = j
      /\ \A x \in S : \E i \in 1 .. n : q[i] = x
  BY DEF Enumerates
<1>. HIDE DEF n
<1>4. q \in Bijection(1 .. n, S)
  BY <1>2, <1>3 DEF Bijection, Injection, Surjection, IsInjective
<1>5. ExistsBijection(1 .. n, S)
  BY <1>4 DEF ExistsBijection
<1>6. Cardinality(S) = n
  BY <1>1, <1>5, FS_CountingElements
<1>. QED
  BY <1>1, <1>2, <1>3, <1>6 DEF Lists

(* What a list of the run queue says of its head and tail. *)
LEMMA QueueEnds ==
    ASSUME NEW S, S \subseteq Slots, NEW q, Enumerates(q, S), IsQueue(q)
    PROVE  /\ Len(q) \in Nat
           /\ q = <<>> => process_queue = Null /\ process_queue_end = Null /\ S = {}
           /\ q # <<>> => /\ Len(q) >= 1
                          /\ process_queue = q[1] /\ process_queue_end = q[Len(q)]
                          /\ process_queue \in S /\ process_queue_end \in S
                          /\ process_queue # Null /\ process_queue_end # Null
                          /\ process_queue = process_queue_end => Len(q) = 1
                          /\ \A i \in 1 .. Len(q) - 1 : next[q[i]] = q[i + 1]
<1>1. q \in Seq(S) /\ Len(q) \in Nat /\ Null \notin Slots
  BY LenProperties, SchedulerAssumption DEF Enumerates
<1>2. CASE q = <<>>
  <2>1. Len(q) = 0
    BY <1>2
  <2>2. S = {}
    BY <2>1 DEF Enumerates
  <2>. QED
    BY <1>1, <1>2, <2>2 DEF IsQueue
<1>3. CASE q # <<>>
  <2>1. Len(q) >= 1
    BY <1>1, <1>3, EmptySeq
  <2>2. 1 \in 1 .. Len(q) /\ Len(q) \in 1 .. Len(q)
    BY <1>1, <2>1
  <2>3. q[1] \in S /\ q[Len(q)] \in S
    BY <1>1, <2>2, ElementOfSeq
  <2>4. q[1] = q[Len(q)] => Len(q) = 1
    BY <2>2 DEF Enumerates
  <2>. QED
    BY <1>1, <1>3, <2>1, <2>3, <2>4 DEF IsQueue
<1>. QED
  BY <1>2, <1>3

(* make_process_ready puts a process that is not queued behind the others, *)
(* whatever its own next field was.                                        *)
LEMMA QueuedBehind ==
    ASSUME NEW S, S \subseteq Slots, NEW q, Enumerates(q, S), IsQueue(q),
           NEW p \in Slots, p \notin S,
           NEW links \in [Slots -> Slots \cup {Null}],
           \A x \in S : links[x] = next[x],
           MakeReady(p, links)
    PROVE  /\ \E r : Enumerates(r, S \cup {p}) /\ IsQueue(r)'
           /\ process_queue' # Null
           /\ process_queue # Null => process_queue' # process_queue_end'
           /\ process_queue = Null => process_queue' = p /\ next' = links
<1>. DEFINE n == Len(q)
            r == Append(q, p)
<1>1. /\ Enumerates(r, S \cup {p})
      /\ n \in Nat /\ Len(r) = n + 1 /\ r[n + 1] = p
      /\ \A i \in 1 .. n : r[i] = q[i]
  BY EnumeratesMore
<1>2. r # <<>>
  BY <1>1, EmptySeq
<1>3. Null \notin Slots
  BY SchedulerAssumption
<1>4. process_queue_end' = p
  BY DEF MakeReady
<1>5. CASE q = <<>>
  <2>1. process_queue = Null /\ process_queue_end = Null /\ n = 0
    BY <1>5, QueueEnds
  <2>2. process_queue' = p /\ next' = links
    BY <2>1 DEF MakeReady
  <2>. HIDE DEF n, r
  <2>3. IsQueue(r)'
    BY <1>1, <1>2, <1>4, <2>1, <2>2 DEF IsQueue
  <2>. QED
    BY <1>1, <1>3, <2>1, <2>2, <2>3
<1>6. CASE q # <<>>
  <2>1. /\ n >= 1 /\ process_queue = q[1] /\ process_queue_end = q[n]
        /\ process_queue \in S /\ process_queue # Null /\ process_queue_end # Null
        /\ \A i \in 1 .. n - 1 : next[q[i]] = q[i + 1]
    <3>1. /\ Len(q) >= 1
          /\ process_queue \in S /\ process_queue # Null /\ process_queue_end # Null
      BY <1>6, QueueEnds
    <3>2. /\ process_queue = q[1] /\ process_queue_end = q[n]
          /\ \A i \in 1 .. n - 1 : next[q[i]] = q[i + 1]
      BY <1>6 DEF IsQueue
    <3>. QED
      BY <3>1, <3>2
  <2>2. process_queue' = process_queue /\ next' = [links EXCEPT ![process_queue_end] = p]
    BY <2>1 DEF MakeReady
  <2>3. \A i \in 1 .. n : q[i] \in S
    BY ElementOfSeq DEF Enumerates
  <2>4. \A i \in 1 .. n - 1 : q[i] # q[n]
    <3>1. n \in 1 .. n /\ \A i \in 1 .. n - 1 : i \in 1 .. n /\ i # n
      BY <1>1, <2>1
    <3>2. \A i, j \in 1 .. n : q[i] = q[j] => i = j
      BY DEF Enumerates
    <3>. HIDE DEF n, r
    <3>. QED
      BY <3>1, <3>2
  <2>. HIDE DEF n, r
  <2>5. ASSUME NEW i \in 1 .. n PROVE next'[r[i]] = r[i + 1]
    <3>1. CASE i = n
      BY <1>1, <2>1, <2>2, <2>3, <3>1
    <3>2. CASE i \in 1 .. n - 1
      <4>1. i + 1 \in 1 .. n
        BY <1>1, <3>2
      <4>2. next'[q[i]] = next[q[i]]
        BY <2>1, <2>2, <2>3, <2>4, <3>2
      <4>. QED
        BY <1>1, <2>1, <3>2, <4>1, <4>2
    <3>. QED
      BY <1>1, <3>1, <3>2
  <2>6. IsQueue(r)'
    <3>1. 1 \in 1 .. n /\ (n + 1) - 1 = n
      BY <1>1, <2>1
    <3>. QED
      BY <1>1, <1>2, <1>4, <2>1, <2>2, <2>5, <3>1 DEF IsQueue
  <2>. QED
    BY <1>1, <1>4, <2>1, <2>2, <2>6
<1>. QED
  BY <1>5, <1>6

(* next_ready_process takes the first of the queue, unless that was alone  *)
(* and had a stale next field.                                             *)
LEMMA TakenFirst ==
    ASSUME NEW S, S \subseteq Slots, NEW q, Enumerates(q, S), IsQueue(q), PickNext, ~drained'
    PROVE  /\ \E r : Enumerates(r, S \ {process_queue}) /\ IsQueue(r)'
           /\ process_queue \in S
           /\ process_queue' = Null => next[process_queue] = Null
<1>. DEFINE n == Len(q)
            r == Tail(q)
<1>1. /\ process_queue # Null
      /\ process_queue' = next[process_queue]
      /\ process_queue_end' = IF next[process_queue] = Null THEN Null ELSE process_queue_end
      /\ next' = next
  BY DEF PickNext
<1>2. process_queue = process_queue_end => next[process_queue] = Null
  BY DEF PickNext
<1>3. q # <<>>
  BY <1>1, QueueEnds
<1>4. /\ n \in Nat /\ n >= 1 /\ process_queue = q[1] /\ process_queue_end = q[n]
      /\ process_queue \in S
      /\ \A i \in 1 .. n - 1 : next[q[i]] = q[i + 1]
  BY <1>3, QueueEnds
<1>5. /\ Enumerates(r, S \ {q[1]}) /\ Len(r) = n - 1
      /\ \A i \in 1 .. n - 1 : r[i] = q[i + 1]
  BY <1>3, EnumeratesFewer
<1>6. Null \notin S /\ \A i \in 1 .. n : q[i] \in S
  BY SchedulerAssumption, ElementOfSeq DEF Enumerates
<1>7. r \in Seq(S \ {q[1]})
  BY <1>5 DEF Enumerates
<1>. HIDE DEF n, r
<1>8. IsQueue(r)'
  <2>1. CASE n = 1
    <3>1. r = <<>>
      BY <1>5, <1>7, <2>1, EmptySeq
    <3>. QED
      BY <1>1, <1>2, <1>4, <2>1, <3>1 DEF IsQueue
  <2>2. CASE n > 1
    <3>1. 1 \in 1 .. n - 1 /\ n - 1 \in 1 .. n - 1 /\ 2 \in 1 .. n /\ (n - 1) + 1 = n
      BY <1>4, <2>2
    <3>2. next[q[1]] = q[2] /\ q[2] # Null
      BY <1>4, <1>6, <3>1
    <3>3. process_queue' = r[1] /\ process_queue_end' = r[n - 1]
      BY <1>1, <1>4, <1>5, <3>1, <3>2
    <3>4. ASSUME NEW i \in 1 .. (n - 1) - 1 PROVE next[r[i]] = r[i + 1]
      <4>1. i \in 1 .. n - 1 /\ i + 1 \in 1 .. n - 1
        BY <1>4
      <4>. QED
        BY <1>4, <1>5, <4>1
    <3>5. r # <<>>
      BY <1>4, <1>5, <2>2
    <3>. QED
      BY <1>1, <1>5, <3>3, <3>4, <3>5 DEF IsQueue
  <2>. QED
    BY <1>4, <2>1, <2>2
<1>. QED
  BY <1>1, <1>4, <1>5, <1>8

(* A step that changes neither the queue nor who must be in it. *)
LEMMA QueueStays ==
    ASSUME Queued, UNCHANGED queueVars, Sound' => Ready' = Ready, dangling => dangling'
    PROVE  Queued'
<1>. SUFFICES ASSUME Sound' PROVE \E q \in Lists(Ready') : Enumerates(q, Ready') /\ IsQueue(q)'
  BY DEF Queued
<1>1. Sound /\ Ready' = Ready
  BY DEF Sound, queueVars
<1>2. PICK q \in Lists(Ready) : Enumerates(q, Ready) /\ IsQueue(q)
  BY <1>1 DEF Queued
<1>3. IsQueue(q)'
  BY <1>2 DEF IsQueue, queueVars
<1>. QED
  BY <1>1, <1>2, <1>3

(* The running process or the idle task is switched away from. *)
LEMMA SwitchQueues ==
    ASSUME TypeOK, Basics, Queued, StaleLinksLead, pc = "run", SwitchTask,
           UNCHANGED <<allocated, finished, current_process>>, dangling => dangling'
    PROVE  Queued' /\ StaleLinksLead'
<1>0. pc' = "switch" /\ Idle \notin Slots /\ Null \notin Slots
  BY SchedulerAssumption DEF SwitchTask
<1>1. Alive' = Alive /\ Ready' = Alive
  BY <1>0 DEF Alive, Ready
<1>2. CASE current_process = Idle
  <2>1. UNCHANGED queueVars
    BY <1>2 DEF SwitchTask
  <2>2. Ready = Alive
    BY <1>0, <1>2 DEF Ready, Alive, TypeOK
  <2>3. Queued'
    BY <1>1, <2>1, <2>2, QueueStays
  <2>4. StaleLinksLead'
    <3>1. Sound' => Sound
      BY <2>1 DEF Sound, queueVars
    <3>2. current_process \notin finished
      BY <1>0, <1>2 DEF TypeOK
    <3>3. Sound => process_queue = Null
      BY <1>2, <3>2 DEF StaleLinksLead
    <3>4. process_queue' = process_queue
      BY <2>1 DEF queueVars
    <3>. QED
      BY <1>0, <3>1, <3>3, <3>4 DEF StaleLinksLead
  <2>. QED
    BY <2>3, <2>4
<1>3. CASE current_process # Idle
  <2>1. current_process \in Slots /\ MakeReady(current_process, next) /\ drained' = drained
    BY <1>3 DEF SwitchTask, TypeOK, MakeReady
  <2>. SUFFICES ASSUME Sound' PROVE Queued' /\ StaleLinksLead'
    BY DEF Queued, StaleLinksLead
  <2>2. Sound /\ current_process \in Alive
    BY <1>3, <2>1 DEF Sound, Basics, RunnerLives
  <2>3. /\ Ready \subseteq Slots /\ current_process \notin Ready
        /\ Ready \cup {current_process} = Alive
    BY <2>2 DEF Ready, Alive, TypeOK
  <2>4. PICK q \in Lists(Ready) : Enumerates(q, Ready) /\ IsQueue(q)
    BY <2>2 DEF Queued
  <2>5. next \in [Slots -> Slots \cup {Null}]
    BY DEF TypeOK
  <2>6. /\ \E r : Enumerates(r, Ready \cup {current_process}) /\ IsQueue(r)'
        /\ process_queue' # Null
        /\ process_queue # Null => process_queue' # process_queue_end'
        /\ process_queue = Null => process_queue' = current_process /\ next' = next
    BY <2>1, <2>3, <2>4, <2>5, QueuedBehind
  <2>7. Queued'
    BY <1>1, <2>3, <2>6, EnumerationIsList DEF Queued
  <2>8. StaleLinksLead'
    <3>1. current_process \notin finished
      BY <2>2 DEF Alive
    <3>2. process_queue = Null => next[current_process] = Null
      BY <1>3, <2>2, <3>1 DEF StaleLinksLead
    <3>. QED
      BY <1>0, <1>3, <2>6, <3>2 DEF StaleLinksLead
  <2>. QED
    BY <2>7, <2>8
<1>. QED
  BY <1>2, <1>3

(* Every step keeps the queue in order, as long as it is not drained and   *)
(* nothing dangling is used.                                               *)
LEMMA QueueKeeps ==
    ASSUME TypeOK, Basics, Queued, StaleLinksLead, [Next]_vars
    PROVE  Queued' /\ StaleLinksLead'
<1>0. Idle \notin Slots /\ Null \notin Slots
  BY SchedulerAssumption
<1>1. CASE TimerTick
  <2>1. /\ pc = "run" /\ SwitchTask
        /\ UNCHANGED <<allocated, finished, current_process, dangling>>
    BY <1>1 DEF TimerTick
  <2>. QED
    BY <2>1, SwitchQueues
<1>2. ASSUME NEW p \in Slots, NEW c \in Slots, Fork(p, c) PROVE Queued' /\ StaleLinksLead'
  <2>. DEFINE links == [next EXCEPT ![c] = Null]
  <2>1. /\ MakeReady(c, links) /\ pc = "run" /\ current_process = p
        /\ pc' = pc /\ current_process' = current_process
        /\ drained' = drained /\ (dangling => dangling')
    BY <1>2 DEF Fork, InUserMode, MakeReady
  <2>. SUFFICES ASSUME Sound' PROVE Queued' /\ StaleLinksLead'
    BY DEF Queued, StaleLinksLead
  <2>2. Sound /\ p \in Alive
    BY <1>0, <2>1 DEF Sound, Basics, RunnerLives
  <2>3. Alive' = Alive \cup {c} /\ c \notin Alive
    BY <1>2, <2>2 DEF Fork, Alive
  <2>4. Ready' = Ready \cup {c} /\ Ready \subseteq Slots /\ c \notin Ready
    BY <2>1, <2>2, <2>3 DEF Ready, Alive, TypeOK
  <2>5. links \in [Slots -> Slots \cup {Null}] /\ \A x \in Ready : links[x] = next[x]
    BY <2>4 DEF TypeOK
  <2>6. PICK q \in Lists(Ready) : Enumerates(q, Ready) /\ IsQueue(q)
    BY <2>2 DEF Queued
  <2>. HIDE DEF links
  <2>7. /\ \E r : Enumerates(r, Ready \cup {c}) /\ IsQueue(r)'
        /\ process_queue' # Null
    BY <2>1, <2>4, <2>5, <2>6, QueuedBehind
  <2>8. Queued'
    BY <2>4, <2>7, EnumerationIsList DEF Queued
  <2>9. StaleLinksLead'
    BY <1>0, <2>1, <2>7 DEF StaleLinksLead
  <2>. QED
    BY <2>8, <2>9
<1>3. ASSUME NEW p \in Slots, NEW c \in Slots, WaitPid(p, c) PROVE Queued' /\ StaleLinksLead'
  <2>1. UNCHANGED <<queueVars, allocated, finished, current_process, pc, dangling>>
    BY <1>3 DEF WaitPid
  <2>2. Ready' = Ready
    BY <2>1 DEF Ready, Alive
  <2>. QED
    BY <2>1, <2>2, QueueStays DEF StaleLinksLead, Sound, queueVars
<1>4. ASSUME NEW p \in Slots, Exit(p) PROVE Queued' /\ StaleLinksLead'
  <2>1. /\ pc = "run" /\ current_process = p /\ pc' = "switch" /\ current_process' = p
        /\ finished' = finished \cup {p} /\ allocated' = allocated
        /\ process_queue' = process_queue /\ process_queue_end' = process_queue_end
        /\ drained' = drained /\ dangling' = dangling
    BY <1>4 DEF Exit, InUserMode
  <2>2. StaleLinksLead'
    BY <2>1 DEF StaleLinksLead
  <2>3. ASSUME Sound' PROVE Queued'
    <3>1. Sound /\ Ready' = Ready /\ p \notin Ready
      BY <2>1, <2>3 DEF Sound, Ready, Alive
    <3>2. PICK q \in Lists(Ready) : Enumerates(q, Ready) /\ IsQueue(q)
      BY <3>1 DEF Queued
    <3>3. \A i \in 1 .. Len(q) : q[i] \in Ready /\ q[i] \in Slots
      BY <3>2, ElementOfSeq DEF Enumerates, Ready, Alive, TypeOK
    <3>4. \A x \in Slots : x # p => next'[x] = next[x]
      <4>1. CASE p \in has_waiters
        BY <1>4, <4>1 DEF Exit
      <4>2. CASE p \notin has_waiters
        BY <1>4, <4>2 DEF Exit, TypeOK
      <4>. QED
        BY <4>1, <4>2
    <3>5. \A i \in 1 .. Len(q) - 1 : next'[q[i]] = next[q[i]]
      <4>1. Len(q) \in Nat
        BY <3>2, LenProperties DEF Enumerates
      <4>2. \A i \in 1 .. Len(q) - 1 : i \in 1 .. Len(q)
        BY <4>1
      <4>. QED
        BY <3>1, <3>3, <3>4, <4>2
    <3>6. IsQueue(q)'
      BY <2>1, <3>2, <3>5 DEF IsQueue
    <3>. QED
      BY <3>1, <3>2, <3>6 DEF Queued
  <2>. QED
    BY <2>2, <2>3 DEF Queued
<1>5. CASE WaitLoop
  <2>. DEFINE c == waiting[current_process]
  <2>1. /\ c \in Slots /\ pc = "run"
        /\ finished' = finished /\ current_process' = current_process
    BY <1>5 DEF WaitLoop, TypeOK
  <2>2. CASE c \in finished
    <3>1. UNCHANGED <<queueVars, pc>> /\ Delete(c)
      BY <1>5, <2>2 DEF WaitLoop
    <3>2. allocated' = allocated \ {c} /\ (dangling => dangling')
      BY <3>1 DEF Delete
    <3>. HIDE DEF c
    <3>3. Ready' = Ready
      BY <2>1, <2>2, <3>1, <3>2 DEF Ready, Alive
    <3>. QED
      BY <2>1, <3>1, <3>2, <3>3, QueueStays DEF StaleLinksLead, Sound, queueVars
  <2>3. CASE c \notin finished
    <3>1. SwitchTask /\ allocated' = allocated /\ (dangling => dangling')
      BY <1>5, <2>3 DEF WaitLoop
    <3>. QED
      BY <2>1, <3>1, SwitchQueues
  <2>. QED
    BY <2>2, <2>3
<1>6. CASE DeleteQueued
  <2>1. /\ Delete(delete_queue) /\ delete_queue # Null
        /\ UNCHANGED <<queueVars, finished, current_process, pc>>
    BY <1>6 DEF DeleteQueued
  <2>2. allocated' = allocated \ {delete_queue} /\ (dangling => dangling')
    BY <2>1 DEF Delete
  <2>3. delete_queue \in finished
    BY <2>1 DEF Basics, DeleteOne
  <2>4. Ready' = Ready
    BY <2>1, <2>2, <2>3 DEF Ready, Alive
  <2>. QED
    BY <2>1, <2>2, <2>4, QueueStays DEF StaleLinksLead, Sound, queueVars
<1>7. CASE PickNext
  <2>1. /\ pc = "switch" /\ process_queue # Null /\ current_process' = process_queue
        /\ pc' = IF process_queue \in finished THEN "switch" ELSE "run"
        /\ allocated' = allocated /\ finished' = finished /\ next' = next
        /\ (drained => drained') /\ (dangling => dangling')
    BY <1>7 DEF PickNext
  <2>. SUFFICES ASSUME Sound' PROVE Queued' /\ StaleLinksLead'
    BY DEF Queued, StaleLinksLead
  <2>2. Sound /\ ~drained'
    BY <2>1 DEF Sound
  <2>3. Ready = Alive /\ Ready \subseteq Slots
    BY <2>1 DEF Ready, Alive, TypeOK
  <2>4. PICK q \in Lists(Ready) : Enumerates(q, Ready) /\ IsQueue(q)
    BY <2>2 DEF Queued
  <2>5. /\ \E r : Enumerates(r, Ready \ {process_queue}) /\ IsQueue(r)'
        /\ process_queue \in Ready
        /\ process_queue' = Null => next[process_queue] = Null
    BY <1>7, <2>2, <2>3, <2>4, TakenFirst
  <2>6. pc' = "run" /\ Ready' = Ready \ {process_queue}
    BY <2>1, <2>3, <2>5 DEF Ready, Alive
  <2>7. Queued'
    BY <2>5, <2>6, EnumerationIsList DEF Queued
  <2>8. StaleLinksLead'
    BY <1>0, <2>1, <2>3, <2>5, <2>6 DEF StaleLinksLead
  <2>. QED
    BY <2>7, <2>8
<1>8. CASE PickIdle
  <2>1. /\ pc = "switch" /\ pc' = "run" /\ process_queue = Null /\ current_process' = Idle
        /\ UNCHANGED <<queueVars, allocated, finished, dangling>>
    BY <1>8 DEF PickIdle
  <2>2. Ready' = Ready
    BY <1>0, <2>1 DEF Ready, Alive, TypeOK
  <2>. QED
    BY <2>1, <2>2, QueueStays DEF StaleLinksLead, queueVars
<1>9. CASE UNCHANGED vars
  <2>1. UNCHANGED <<queueVars, allocated, finished, current_process, pc, dangling>>
    BY <1>9 DEF vars
  <2>2. Ready' = Ready
    BY <2>1 DEF Ready, Alive
  <2>. QED
    BY <2>1, <2>2, QueueStays DEF StaleLinksLead, Sound, queueVars
<1>. QED
  BY <1>1, <1>2, <1>3, <1>4, <1>5, <1>6, <1>7, <1>8, <1>9 DEF Next, SwitchNext
-----------------------------------------------------------------------------
(* Those that have finished.                                               *)

(* Steps that let the processes that are alive, what they wait for and the *)
(* flags be as they were, and remove nothing but the one to be deleted.    *)
LEMMA ZombiesStay ==
    ASSUME ZombiesAreAwaited, FlagsAreMeant, dangling => dangling',
           Alive' = Alive, waiting' = waiting, has_waiters' = has_waiters,
           allocated' \cap finished' \subseteq allocated \cap finished,
           \A z \in allocated' \cap finished' :
              pc = "switch" /\ delete_queue = z => pc' = "switch" /\ delete_queue' = z
    PROVE  ZombiesAreAwaited' /\ FlagsAreMeant'
BY DEF ZombiesAreAwaited, FlagsAreMeant

(* Every step leaves each finished process to somebody who will delete it. *)
LEMMA ZombiesKeep ==
    ASSUME TypeOK, Basics, ZombiesAreAwaited, FlagsAreMeant, [Next]_vars
    PROVE  ZombiesAreAwaited' /\ FlagsAreMeant'
<1>0. Idle \notin Slots /\ Null \notin Slots
  BY SchedulerAssumption
<1>1. CASE TimerTick
  <2>1. /\ pc = "run"
        /\ UNCHANGED <<allocated, finished, waiting, has_waiters, dangling>>
    BY <1>1 DEF TimerTick
  <2>. QED
    BY <2>1, ZombiesStay DEF Alive
<1>2. ASSUME NEW p \in Slots, NEW c \in Slots, Fork(p, c)
      PROVE  ZombiesAreAwaited' /\ FlagsAreMeant'
  <2>1. /\ pc = "run" /\ c \notin allocated
        /\ allocated' = allocated \cup {c} /\ finished' = finished \ {c}
        /\ has_waiters' = has_waiters \ {c}
        /\ dangling => dangling'
    BY <1>2 DEF Fork, InUserMode
  <2>2. Alive' = Alive \cup {c} /\ c \notin Alive
    BY <2>1 DEF Alive
  <2>3. \A w \in Alive : waiting'[w] = waiting[w]
    BY <1>2, <2>2 DEF Fork, Alive, TypeOK
  <2>4. ZombiesAreAwaited'
    BY <2>1, <2>2, <2>3 DEF ZombiesAreAwaited
  <2>5. FlagsAreMeant'
    BY <2>1, <2>2, <2>3 DEF FlagsAreMeant
  <2>. QED
    BY <2>4, <2>5
<1>3. ASSUME NEW p \in Slots, NEW c \in Slots, WaitPid(p, c)
      PROVE  ZombiesAreAwaited' /\ FlagsAreMeant'
  <2>1. /\ pc = "run" /\ waiting[p] = Null
        /\ waiting' = [waiting EXCEPT ![p] = c]
        /\ UNCHANGED <<allocated, finished, has_waiters, dangling>>
    BY <1>3 DEF WaitPid, InUserMode
  <2>2. Alive' = Alive /\ Alive \subseteq Slots
    BY <2>1 DEF Alive, TypeOK
  <2>3. ASSUME NEW z \in Slots, NEW w \in Alive, waiting[w] = z
        PROVE  waiting'[w] = z
    BY <1>0, <2>1, <2>2, <2>3 DEF TypeOK
  <2>4. ZombiesAreAwaited'
    BY <2>1, <2>2, <2>3 DEF ZombiesAreAwaited, TypeOK
  <2>5. FlagsAreMeant'
    BY <2>1, <2>2, <2>3 DEF FlagsAreMeant
  <2>. QED
    BY <2>4, <2>5
<1>4. ASSUME NEW p \in Slots, Exit(p)
      PROVE  ZombiesAreAwaited' /\ FlagsAreMeant'
  <2>1. /\ pc = "run" /\ current_process = p /\ waiting[p] = Null /\ pc' = "switch"
        /\ finished' = finished \cup {p}
        /\ UNCHANGED <<allocated, waiting, has_waiters, dangling>>
    BY <1>4 DEF Exit, InUserMode
  <2>. SUFFICES ASSUME ~dangling PROVE ZombiesAreAwaited' /\ FlagsAreMeant'
    BY <2>1 DEF ZombiesAreAwaited, FlagsAreMeant
  <2>2. p \in Alive /\ Alive' = Alive \ {p} /\ Alive \subseteq Slots
    BY <1>0, <2>1 DEF Basics, RunnerLives, Alive, TypeOK
  <2>3. ASSUME NEW z \in Slots, \E w \in Alive : waiting[w] = z
        PROVE  \E w \in Alive' : waiting'[w] = z
    BY <1>0, <2>1, <2>2, <2>3
  <2>4. ASSUME NEW z \in allocated' \cap finished'
        PROVE  \/ pc' = "switch" /\ delete_queue' = z
               \/ \E w \in Alive' : waiting'[w] = z
    <3>1. z \in Slots
      BY <2>1 DEF TypeOK
    <3>2. CASE z # p
      <4>1. \E w \in Alive : waiting[w] = z
        BY <2>1, <3>2 DEF ZombiesAreAwaited
      <4>. QED
        BY <2>3, <3>1, <4>1
    <3>3. CASE z = p /\ p \in has_waiters
      <4>1. \E w \in Alive : waiting[w] = z
        BY <2>2, <3>3 DEF FlagsAreMeant
      <4>. QED
        BY <2>3, <3>1, <4>1
    <3>4. CASE z = p /\ p \notin has_waiters
      BY <1>4, <2>1, <3>4 DEF Exit
    <3>. QED
      BY <3>2, <3>3, <3>4
  <2>5. FlagsAreMeant'
    BY <2>1, <2>2, <2>3 DEF FlagsAreMeant
  <2>. QED
    BY <2>4, <2>5 DEF ZombiesAreAwaited
<1>5. CASE WaitLoop
  <2>. DEFINE p == current_process
              c == waiting[current_process]
  <2>1. /\ c \in Slots /\ pc = "run" /\ p \in Slots
        /\ finished' = finished
    BY <1>5 DEF WaitLoop, TypeOK, Basics
  <2>2. ~dangling => p \in Alive
    BY <1>0, <2>1 DEF Basics, RunnerLives
  <2>3. Alive \subseteq Slots
    BY DEF Alive, TypeOK
  <2>4. CASE c \in finished
    <3>1. /\ allocated' = allocated \ {c} /\ waiting' = [waiting EXCEPT ![p] = Null]
          /\ has_waiters' = has_waiters /\ (dangling => dangling')
      BY <1>5, <2>4 DEF WaitLoop, Delete
    <3>2. Alive' = Alive
      BY <2>1, <2>4, <3>1 DEF Alive
    <3>3. ASSUME NEW z \in Slots, z # c, NEW w \in Alive, waiting[w] = z
          PROVE  waiting'[w] = z
      BY <2>3, <3>1, <3>3 DEF TypeOK
    <3>. HIDE DEF c, p
    <3>4. ZombiesAreAwaited'
      BY <2>1, <3>1, <3>2, <3>3 DEF ZombiesAreAwaited, TypeOK
    <3>5. FlagsAreMeant'
      <4>1. c \notin Alive
        BY <2>4 DEF Alive
      <4>. QED
        BY <2>3, <3>1, <3>2, <3>3, <4>1 DEF FlagsAreMeant
    <3>. QED
      BY <3>4, <3>5
  <2>5. CASE c \notin finished
    <3>1. /\ has_waiters' = has_waiters \cup {c}
          /\ dangling' = (dangling \/ c \notin allocated)
          /\ allocated' = allocated /\ waiting' = waiting
      BY <1>5, <2>5 DEF WaitLoop
    <3>2. Alive' = Alive
      BY <2>1, <3>1 DEF Alive
    <3>3. ZombiesAreAwaited'
      BY <2>1, <3>1, <3>2 DEF ZombiesAreAwaited
    <3>4. FlagsAreMeant'
      BY <2>2, <3>1, <3>2 DEF FlagsAreMeant
    <3>. QED
      BY <3>3, <3>4
  <2>. QED
    BY <2>4, <2>5
<1>6. CASE DeleteQueued
  <2>1. /\ allocated' = allocated \ {delete_queue} /\ delete_queue # Null
        /\ UNCHANGED <<finished, waiting, has_waiters>> /\ (dangling => dangling')
    BY <1>6 DEF DeleteQueued, Delete
  <2>2. delete_queue \in finished
    BY <2>1 DEF Basics, DeleteOne
  <2>3. Alive' = Alive
    BY <2>1, <2>2 DEF Alive
  <2>. QED
    BY <2>1, <2>3, ZombiesStay
<1>7. CASE PickNext
  <2>1. /\ delete_queue = Null
        /\ UNCHANGED <<allocated, finished, waiting, has_waiters>> /\ (dangling => dangling')
    BY <1>7 DEF PickNext
  <2>2. \A z \in allocated' \cap finished' : delete_queue # z
    BY <1>0, <2>1 DEF TypeOK
  <2>. QED
    BY <2>1, <2>2, ZombiesStay DEF Alive
<1>8. CASE PickIdle
  <2>1. /\ delete_queue = Null
        /\ UNCHANGED <<allocated, finished, waiting, has_waiters, dangling>>
    BY <1>8 DEF PickIdle
  <2>2. \A z \in allocated' \cap finished' : delete_queue # z
    BY <1>0, <2>1 DEF TypeOK
  <2>. QED
    BY <2>1, <2>2, ZombiesStay DEF Alive
<1>9. CASE UNCHANGED vars
  <2>1. UNCHANGED <<allocated, finished, waiting, has_waiters, dangling, pc, delete_queue>>
    BY <1>9 DEF vars
  <2>. QED
    BY <2>1, ZombiesStay DEF Alive
<1>. QED
  BY <1>1, <1>2, <1>3, <1>4, <1>5, <1>6, <1>7, <1>8, <1>9 DEF Next, SwitchNext
-----------------------------------------------------------------------------
(* The tree of orderly programs.                                           *)

(* A process without children is deleted with its own node only. *)
LEMMA BranchOfLeaf ==
    ASSUME TypeOK, NEW p \in in_tree, Children(p) = {}
    PROVE  Branch(p) = {p}
<1>1. p \in Slots /\ in_tree \subseteq Slots
  BY DEF TypeOK
<1>2. {p} \in SUBSET Slots /\ Closed({p})
  BY <1>1 DEF Closed, Children
<1>3. p \in Branch(p)
  BY DEF Branch
<1>4. \A c \in Branch(p) : c = p
  BY <1>2 DEF Branch
<1>. QED
  BY <1>3, <1>4

(* process_delete of a finished process of orderly programs takes its own node. *)
LEMMA DeleteKeepsTree ==
    ASSUME TypeOK, TreeIsWhole, ~dangling, NEW p \in allocated \cap finished, Delete(p),
           finished' = finished
    PROVE  /\ ~dangling' /\ TreeIsWhole'
           /\ allocated' = allocated \ {p} /\ in_tree' = in_tree \ {p}
           /\ \A c \in in_tree' : parent'[c] = parent[c]
<1>1. /\ in_tree = allocated /\ p \in in_tree /\ p \in Slots
      /\ \A x \in in_tree : parent[x] \in in_tree \cup {Null}
      /\ Children(p) = {} /\ in_tree \subseteq Slots
  BY DEF TreeIsWhole, LeavesFinish, TypeOK
<1>2. Branch(p) = {p}
  BY <1>1, BranchOfLeaf
<1>3. /\ allocated' = allocated \ {p} /\ in_tree' = in_tree \ {p}
      /\ parent' = [c \in Slots |-> IF c \in {p} THEN Null ELSE parent[c]]
      /\ ~dangling'
  BY <1>1, <1>2 DEF Delete
<1>4. \A c \in in_tree' : parent'[c] = parent[c]
  BY <1>1, <1>3
<1>5. \A x \in in_tree' : parent'[x] \in in_tree' \cup {Null}
  <2>1. \A x \in in_tree : parent[x] # p
    BY <1>1 DEF Children
  <2>. QED
    BY <1>1, <1>3, <1>4, <2>1
<1>6. LeavesFinish'
  <2>1. ASSUME NEW x \in allocated \cap finished, NEW c \in in_tree', parent'[c] = x PROVE FALSE
    <3>1. c \in Children(x)
      BY <1>3, <1>4, <2>1 DEF Children
    <3>. QED
      BY <3>1 DEF TreeIsWhole, LeavesFinish
  <2>. QED
    BY <1>3, <2>1 DEF LeavesFinish, Children
<1>. QED
  BY <1>1, <1>3, <1>4, <1>5, <1>6 DEF TreeIsWhole

(* The process that stops running is not one that only now waits. *)
LEMMA TreeStays ==
    ASSUME TypeOK, Tree, UNCHANGED <<treeVars, allocated, finished, waiting>>,
           drained => drained', Orderly /\ ~drained' /\ ~dangling => ~dangling',
           has_waiters \subseteq has_waiters',
           \A w \in Alive : pc = "run" /\ current_process = w /\ waiting[w] # Null =>
              waiting[w] \in has_waiters' \/ (pc' = "run" /\ current_process' = w),
           delete_queue' = Null \/ (delete_queue' = delete_queue /\ has_waiters' = has_waiters)
    PROVE  Tree'
<1>. SUFFICES ASSUME Orderly, ~drained'
              PROVE  ~dangling' /\ TreeIsWhole' /\ ParentsWait' /\ DeleteAlone'
  BY DEF Tree
<1>1. ~dangling /\ TreeIsWhole /\ ParentsWait /\ DeleteAlone
  BY DEF Tree
<1>2. TreeIsWhole'
  BY <1>1 DEF TreeIsWhole, LeavesFinish, Children, treeVars
<1>3. Alive' = Alive
  BY DEF Alive
<1>4. ParentsWait'
  <2>. SUFFICES ASSUME NEW w \in Alive, waiting[w] # Null
                PROVE  /\ waiting[w] \in Children(w)'
                       /\ waiting[w] \in has_waiters' \/ (pc' = "run" /\ current_process' = w)
    BY <1>3 DEF ParentsWait
  <2>1. /\ waiting[w] \in Children(w)
        /\ waiting[w] \in has_waiters \/ (pc = "run" /\ current_process = w)
    BY <1>1 DEF ParentsWait
  <2>. QED
    BY <2>1 DEF Children, treeVars
<1>5. DeleteAlone'
  BY <1>1 DEF DeleteAlone
<1>. QED
  BY <1>1, <1>2, <1>4, <1>5

(* fork, ... *)
LEMMA TreeForks ==
    ASSUME TypeOK, Basics, Tree, NEW p \in Slots, NEW c \in Slots, Fork(p, c)
    PROVE  Tree'
<1>1. /\ pc = "run" /\ current_process = p /\ c \notin allocated
      /\ pc' = pc /\ current_process' = current_process
      /\ allocated' = allocated \cup {c} /\ finished' = finished \ {c}
      /\ has_waiters' = has_waiters \ {c}
      /\ parent' = [parent EXCEPT ![c] = p] /\ in_tree' = in_tree \cup {c}
      /\ dangling' = (dangling \/ p \notin in_tree)
      /\ drained' = drained /\ delete_queue' = delete_queue
  BY DEF Fork, InUserMode, MakeReady
<1>2. Null \notin Slots /\ Idle \notin Slots
  BY SchedulerAssumption
<1>. SUFFICES ASSUME Orderly, ~drained
              PROVE  ~dangling' /\ TreeIsWhole' /\ ParentsWait' /\ DeleteAlone'
  BY <1>1 DEF Tree
<1>3. ~dangling /\ TreeIsWhole /\ ParentsWait
  BY DEF Tree
<1>4. p \in Alive
  BY <1>1, <1>2, <1>3 DEF Basics, RunnerLives
<1>5. /\ in_tree = allocated /\ p \in in_tree /\ p # c /\ in_tree \subseteq Slots
      /\ p \notin finished
      /\ \A x \in in_tree : parent[x] \in in_tree \cup {Null} /\ parent[x] # c
  BY <1>1, <1>2, <1>3, <1>4 DEF TreeIsWhole, Alive, TypeOK
<1>6. parent'[c] = p /\ \A x \in in_tree : x # c /\ parent'[x] = parent[x]
  BY <1>1, <1>5 DEF TypeOK
<1>7. ~dangling'
  BY <1>1, <1>3, <1>5
<1>8. TreeIsWhole'
  <2>1. \A x \in in_tree' : parent'[x] \in in_tree' \cup {Null}
    BY <1>1, <1>5, <1>6
  <2>2. LeavesFinish'
    <3>1. ASSUME NEW x \in allocated' \cap finished', NEW y \in in_tree', parent'[y] = x
          PROVE  FALSE
      <4>1. x \in allocated \cap finished /\ x # c
        BY <1>1, <3>1
      <4>2. Children(x) = {}
        BY <1>3, <4>1 DEF TreeIsWhole, LeavesFinish
      <4>3. CASE y = c
        BY <1>5, <1>6, <3>1, <4>1, <4>3
      <4>4. CASE y \in in_tree
        BY <1>6, <3>1, <4>2, <4>4 DEF Children
      <4>. QED
        BY <1>1, <4>3, <4>4
    <3>. QED
      BY <3>1 DEF LeavesFinish, Children
  <2>. QED
    BY <1>1, <1>5, <2>1, <2>2 DEF TreeIsWhole
<1>9. Alive' = Alive \cup {c}
  BY <1>1 DEF Alive
<1>10. waiting'[c] = Null /\ \A w \in Alive : w # c /\ waiting'[w] = waiting[w]
  <2>1. waiting' = [waiting EXCEPT ![c] = Null]
    BY DEF Fork
  <2>. QED
    BY <1>1, <2>1 DEF TypeOK, Alive
<1>11. ParentsWait'
  <2>. SUFFICES ASSUME NEW w \in Alive', waiting'[w] # Null
                PROVE  /\ waiting'[w] \in Children(w)'
                       /\ waiting'[w] \in has_waiters' \/ (pc' = "run" /\ current_process' = w)
    BY DEF ParentsWait
  <2>1. w \in Alive /\ waiting'[w] = waiting[w]
    BY <1>9, <1>10
  <2>2. /\ waiting[w] \in Children(w)
        /\ waiting[w] \in has_waiters \/ (pc = "run" /\ current_process = w)
    BY <1>3, <2>1 DEF ParentsWait
  <2>3. waiting[w] \in in_tree /\ parent[waiting[w]] = w
    BY <2>2 DEF Children
  <2>4. waiting[w] \in Children(w)'
    BY <1>1, <1>6, <2>3 DEF Children
  <2>. QED
    BY <1>1, <1>6, <2>1, <2>2, <2>3, <2>4
<1>12. DeleteAlone'
  BY <1>1 DEF DeleteAlone, Basics, DeleteOne
<1>. QED
  BY <1>7, <1>8, <1>11, <1>12

(* ... process_exit, ... *)
LEMMA TreeExits ==
    ASSUME TypeOK, Basics, Tree, NEW p \in Slots, Exit(p)
    PROVE  Tree'
<1>1. /\ pc = "run" /\ current_process = p /\ waiting[p] = Null
      /\ Orderly => Children(p) = {}
      /\ finished' = finished \cup {p}
      /\ UNCHANGED <<allocated, parent, in_tree, waiting, has_waiters, dangling, drained>>
  BY DEF Exit, InUserMode, treeVars
<1>. SUFFICES ASSUME Orderly, ~drained
              PROVE  ~dangling' /\ TreeIsWhole' /\ ParentsWait' /\ DeleteAlone'
  BY <1>1 DEF Tree
<1>2. ~dangling /\ TreeIsWhole /\ ParentsWait
  BY DEF Tree
<1>3. p \in Alive /\ Alive' = Alive \ {p}
  BY <1>1, <1>2, SchedulerAssumption DEF Basics, RunnerLives, Alive
<1>4. TreeIsWhole'
  BY <1>1, <1>2 DEF TreeIsWhole, LeavesFinish, Children
<1>5. ParentsWait'
  <2>. SUFFICES ASSUME NEW w \in Alive', waiting[w] # Null
                PROVE  waiting[w] \in Children(w)' /\ waiting[w] \in has_waiters
    BY <1>1 DEF ParentsWait
  <2>1. w \in Alive /\ w # p
    BY <1>3
  <2>2. waiting[w] \in Children(w) /\ waiting[w] \in has_waiters
    BY <1>1, <1>2, <2>1 DEF ParentsWait
  <2>. QED
    BY <1>1, <2>2 DEF Children
<1>6. DeleteAlone'
  <2>1. CASE p \in has_waiters
    BY <1>1, <2>1 DEF Exit, Basics, DeleteOne, DeleteAlone
  <2>2. CASE p \notin has_waiters
    BY <1>1, <1>3, <2>2 DEF Exit, DeleteAlone, Alive
  <2>. QED
    BY <2>1, <2>2
<1>. QED
  BY <1>1, <1>2, <1>4, <1>5, <1>6

(* ... sys_waitpid, which has found its process finished, ... *)
LEMMA TreeReaps ==
    ASSUME TypeOK, Basics, Tree, WaitLoop, waiting[current_process] \in finished
    PROVE  Tree'
<1>. DEFINE p == current_process
            c == waiting[current_process]
<1>1. /\ c \in Slots /\ c # Null /\ pc = "run" /\ p \in Slots /\ Delete(c)
      /\ waiting' = [waiting EXCEPT ![p] = Null]
      /\ UNCHANGED <<drained, has_waiters, pc, delete_queue, finished, current_process>>
  BY DEF WaitLoop, TypeOK, Basics, queueVars
<1>2. c \in finished
  OBVIOUS
<1>3. DeleteAlone'
  BY <1>1 DEF Basics, DeleteOne, DeleteAlone
<1>. SUFFICES ASSUME Orderly, ~drained
              PROVE  ~dangling' /\ TreeIsWhole' /\ ParentsWait'
  BY <1>1, <1>3 DEF Tree
<1>4. ~dangling /\ TreeIsWhole /\ ParentsWait
  BY DEF Tree
<1>5. p \in Alive
  BY <1>1, <1>4, SchedulerAssumption DEF Basics, RunnerLives
<1>6. c \in Children(p)
  BY <1>1, <1>4, <1>5 DEF ParentsWait
<1>7. c \in allocated \cap finished /\ parent[c] = p
  BY <1>2, <1>4, <1>6 DEF TreeIsWhole, Children
<1>. HIDE DEF p, c
<1>8. /\ ~dangling' /\ TreeIsWhole'
      /\ allocated' = allocated \ {c} /\ in_tree' = in_tree \ {c}
      /\ \A x \in in_tree' : parent'[x] = parent[x]
  BY <1>1, <1>4, <1>7, DeleteKeepsTree
<1>9. Alive' = Alive /\ Alive \subseteq Slots
  BY <1>1, <1>2, <1>8 DEF Alive, TypeOK
<1>10. ParentsWait'
  <2>. SUFFICES ASSUME NEW w \in Alive, waiting'[w] # Null
                PROVE  /\ waiting'[w] \in Children(w)'
                       /\ waiting'[w] \in has_waiters' \/ (pc' = "run" /\ current_process' = w)
    BY <1>9 DEF ParentsWait
  <2>1. w # p /\ waiting'[w] = waiting[w]
    BY <1>1, <1>9 DEF TypeOK
  <2>2. /\ waiting[w] \in in_tree /\ parent[waiting[w]] = w
        /\ waiting[w] \in has_waiters \/ (pc = "run" /\ current_process = w)
    BY <1>4, <2>1 DEF ParentsWait, Children
  <2>3. waiting[w] # c
    BY <1>7, <2>1, <2>2
  <2>. QED
    BY <1>1, <1>8, <2>1, <2>2, <2>3 DEF Children
<1>. QED
  BY <1>8, <1>10

(* ... switch_next, which empties the delete queue, ... *)
LEMMA TreeDeletes ==
    ASSUME TypeOK, Basics, Tree, DeleteQueued
    PROVE  Tree'
<1>1. /\ delete_queue # Null /\ pc = "switch" /\ Delete(delete_queue)
      /\ delete_queue' = next[delete_queue]
      /\ UNCHANGED <<drained, has_waiters, waiting, pc, finished, current_process>>
  BY DEF DeleteQueued, queueVars
<1>2. delete_queue \in finished /\ delete_queue' = Null
  BY <1>1 DEF Basics, DeleteOne
<1>3. DeleteAlone'
  BY <1>2 DEF DeleteAlone
<1>. SUFFICES ASSUME Orderly, ~drained
              PROVE  ~dangling' /\ TreeIsWhole' /\ ParentsWait'
  BY <1>1, <1>3 DEF Tree
<1>4. ~dangling /\ TreeIsWhole /\ ParentsWait /\ DeleteAlone
  BY DEF Tree
<1>5. delete_queue \in allocated \cap finished /\ delete_queue \notin has_waiters
  BY <1>1, <1>2, <1>4 DEF DeleteAlone
<1>6. /\ ~dangling' /\ TreeIsWhole'
      /\ allocated' = allocated \ {delete_queue} /\ in_tree' = in_tree \ {delete_queue}
      /\ \A x \in in_tree' : parent'[x] = parent[x]
  BY <1>1, <1>4, <1>5, DeleteKeepsTree
<1>7. Alive' = Alive
  BY <1>1, <1>2, <1>6 DEF Alive
<1>8. ParentsWait'
  <2>. SUFFICES ASSUME NEW w \in Alive, waiting[w] # Null
                PROVE  /\ waiting[w] \in Children(w)'
                       /\ waiting[w] \in has_waiters
    BY <1>1, <1>7 DEF ParentsWait
  <2>1. /\ waiting[w] \in in_tree /\ parent[waiting[w]] = w
        /\ waiting[w] \in has_waiters
    BY <1>1, <1>4 DEF ParentsWait, Children
  <2>2. waiting[w] # delete_queue
    BY <1>5, <2>1
  <2>. QED
    BY <1>6, <2>1, <2>2 DEF Children
<1>. QED
  BY <1>6, <1>8

(* ... and the start of sys_waitpid keep the tree of orderly programs. *)
LEMMA TreeWaits ==
    ASSUME TypeOK, Basics, Tree, NEW p \in Slots, NEW c \in Slots, WaitPid(p, c)
    PROVE  Tree'
<1>1. /\ pc = "run" /\ current_process = p /\ c \in in_tree
      /\ Orderly => c \in Children(p)
      /\ waiting' = [waiting EXCEPT ![p] = c]
      /\ UNCHANGED <<allocated, finished, parent, in_tree, has_waiters, dangling, drained,
                     delete_queue, pc, current_process>>
  BY DEF WaitPid, InUserMode, treeVars, queueVars
<1>. SUFFICES ASSUME Orderly, ~drained
              PROVE  ~dangling /\ TreeIsWhole' /\ ParentsWait' /\ DeleteAlone'
  BY <1>1 DEF Tree
<1>2. ~dangling /\ TreeIsWhole /\ ParentsWait /\ DeleteAlone
  BY DEF Tree
<1>3. TreeIsWhole' /\ DeleteAlone'
  BY <1>1, <1>2 DEF TreeIsWhole, LeavesFinish, Children, DeleteAlone
<1>4. ParentsWait'
  <2>. SUFFICES ASSUME NEW w \in Alive, waiting'[w] # Null
                PROVE  /\ waiting'[w] \in Children(w)
                       /\ waiting'[w] \in has_waiters \/ (pc = "run" /\ current_process = w)
    BY <1>1 DEF ParentsWait, Alive, Children
  <2>1. CASE w = p
    <3>1. waiting'[w] = c
      BY <1>1, <2>1 DEF TypeOK
    <3>. QED
      BY <1>1, <2>1, <3>1
  <2>2. CASE w # p
    <3>1. waiting'[w] = waiting[w]
      BY <1>1, <2>2 DEF TypeOK, Alive
    <3>. QED
      BY <1>2, <3>1 DEF ParentsWait
  <2>. QED
    BY <2>1, <2>2
<1>. QED
  BY <1>2, <1>3, <1>4

(* Every step keeps it, until the queue is drained. *)
LEMMA TreeKeeps ==
    ASSUME TypeOK, Basics, Queued, Tree, [Next]_vars
    PROVE  Tree'
<1>1. CASE TimerTick
  <2>1. /\ pc = "run" /\ waiting[current_process] = Null /\ SwitchTask
        /\ UNCHANGED <<treeVars, allocated, finished, waiting, dangling, has_waiters,
                       delete_queue>>
    BY <1>1 DEF TimerTick, InUserMode
  <2>2. drained' = drained
    BY <2>1 DEF SwitchTask, MakeReady, queueVars
  <2>. QED
    BY <2>1, <2>2, TreeStays
<1>2. ASSUME NEW p \in Slots, NEW c \in Slots, Fork(p, c) PROVE Tree'
  BY <1>2, TreeForks
<1>3. ASSUME NEW p \in Slots, NEW c \in Slots, WaitPid(p, c) PROVE Tree'
  BY <1>3, TreeWaits
<1>4. ASSUME NEW p \in Slots, Exit(p) PROVE Tree'
  BY <1>4, TreeExits
<1>5. CASE WaitLoop
  <2>. DEFINE p == current_process
              c == waiting[current_process]
  <2>1. CASE c \in finished
    BY <1>5, <2>1, TreeReaps
  <2>2. CASE c \notin finished
    <3>1. /\ c \in Slots /\ c # Null /\ pc = "run" /\ p \in Slots /\ SwitchTask
          /\ has_waiters' = has_waiters \cup {c}
          /\ dangling' = (dangling \/ c \notin allocated)
          /\ UNCHANGED <<treeVars, allocated, finished, waiting, delete_queue>>
      BY <1>5, <2>2 DEF WaitLoop, TypeOK, Basics
    <3>2. drained' = drained
      BY <3>1 DEF SwitchTask, MakeReady, queueVars
    <3>3. delete_queue' = Null
      BY <3>1 DEF Basics, DeleteOne
    <3>4. ASSUME Orderly, ~drained', ~dangling PROVE ~dangling'
      <4>1. TreeIsWhole /\ ParentsWait
        BY <3>2, <3>4 DEF Tree
      <4>2. p \in Alive
        BY <3>1, <3>4, SchedulerAssumption DEF Basics, RunnerLives
      <4>3. c \in allocated
        BY <3>1, <4>1, <4>2 DEF ParentsWait, TreeIsWhole, Children
      <4>. QED
        BY <3>1, <3>4, <4>3
    <3>. QED
      BY <3>1, <3>2, <3>3, <3>4, TreeStays
  <2>. QED
    BY <2>1, <2>2
<1>6. CASE DeleteQueued
  BY <1>6, TreeDeletes
<1>7. CASE PickNext
  <2>1. /\ pc = "switch" /\ process_queue # Null /\ delete_queue' = Null
        /\ dangling' = (dangling \/ process_queue \notin allocated)
        /\ drained => drained'
        /\ UNCHANGED <<treeVars, allocated, finished, waiting, has_waiters>>
    BY <1>7 DEF PickNext
  <2>2. ASSUME ~drained', ~dangling PROVE ~dangling'
    <3>1. PICK q \in Lists(Ready) : Enumerates(q, Ready) /\ IsQueue(q)
      BY <2>1, <2>2 DEF Queued, Sound
    <3>2. Ready \subseteq Slots /\ Ready \subseteq allocated
      BY DEF Ready, Alive, TypeOK
    <3>3. process_queue \in Ready
      BY <2>1, <3>1, <3>2, QueueEnds
    <3>. QED
      BY <2>1, <2>2, <3>2, <3>3
  <2>. QED
    BY <2>1, <2>2, TreeStays
<1>8. CASE PickIdle
  <2>1. /\ pc = "switch" /\ delete_queue' = Null /\ drained' = drained
        /\ UNCHANGED <<treeVars, allocated, finished, waiting, has_waiters, dangling>>
    BY <1>8 DEF PickIdle, queueVars
  <2>. QED
    BY <2>1, TreeStays
<1>9. CASE UNCHANGED vars
  <2>1. UNCHANGED <<treeVars, allocated, finished, waiting, has_waiters, dangling, drained,
                    delete_queue, pc, current_process>>
    BY <1>9 DEF vars, queueVars
  <2>. QED
    BY <2>1, TreeStays
<1>. QED
  BY <1>1, <1>2, <1>3, <1>4, <1>5, <1>6, <1>7, <1>8, <1>9 DEF Next, SwitchNext
-----------------------------------------------------------------------------
(* The invariant.                                                          *)

LEMMA InitIInv == Init => IInv
<1>. SUFFICES ASSUME Init PROVE IInv
  OBVIOUS
<1>0. TypeOK
  BY InitTypes
<1>1. PICK init \in Slots :
         /\ process_queue = Null /\ process_queue_end = Null /\ delete_queue = Null
         /\ next = [p \in Slots |-> Null] /\ finished = {} /\ has_waiters = {}
         /\ allocated = {init} /\ parent = [p \in Slots |-> Null] /\ in_tree = {init}
         /\ waiting = [p \in Slots \cup {Idle} |-> Null]
         /\ current_process = init /\ pc = "run" /\ drained = FALSE /\ dangling = FALSE
  BY DEF Init
<1>2. Alive = {init} /\ Ready = {}
  BY <1>1 DEF Alive, Ready
<1>3. Basics
  BY <1>1, <1>2 DEF Basics, RunnerLives, DeleteOne
<1>4. Queued
  <2>1. Enumerates(<<>>, Ready)
    BY <1>2 DEF Enumerates
  <2>2. IsQueue(<<>>)
    BY <1>1 DEF IsQueue
  <2>. QED
    BY <2>1, <2>2, EnumerationIsList DEF Queued
<1>5. StaleLinksLead
  BY <1>1, SchedulerAssumption DEF StaleLinksLead
<1>6. ZombiesAreAwaited /\ FlagsAreMeant
  BY <1>1 DEF ZombiesAreAwaited, FlagsAreMeant
<1>7. Tree
  BY <1>1, <1>2 DEF Tree, TreeIsWhole, LeavesFinish, ParentsWait, DeleteAlone
<1>. QED
  BY <1>0, <1>3, <1>4, <1>5, <1>6, <1>7 DEF IInv

(* Every step keeps the whole invariant. *)
LEMMA NextKeeps == IInv /\ [Next]_vars => IInv'
BY TypesKeep, BasicsKeep, QueueKeeps, ZombiesKeep, TreeKeeps DEF IInv

(* The invariant holds in every state. *)
LEMMA InvariantHolds == Spec => []IInv
BY InitIInv, NextKeeps, PTL DEF Spec
-----------------------------------------------------------------------------
(* For any number of processes the intrusive run queue of process.c holds  *)
(* each process that can run exactly once, in spite of the next fields     *)
(* that are never cleared, until next_ready_process takes a tail whose     *)
(* field is stale; and a process that runs is neither finished nor freed.  *)
THEOREM QueueIsExact == Spec => []QueueHoldsReady
<1>1. IInv => QueueHoldsReady
  BY DEF IInv, QueueHoldsReady, Basics, RunnerLives, Queued, Sound
<1>. QED
  BY <1>1, InvariantHolds, PTL

(* process_exit leaves no process behind: without waiters it is deleted by *)
(* the next switch_next, and PROC_FLAG_HAS_WAITERS is only set where a     *)
(* process in sys_waitpid will delete it.                                  *)
THEOREM ZombiesAreReaped == Spec => []ZombiesAreAwaited
<1>1. IInv => ZombiesAreAwaited
  BY DEF IInv
<1>. QED
  BY <1>1, InvariantHolds, PTL

(* Programs that wait only for their children and exit only without any    *)
(* never make sys_waitpid, fork, switch_next or process_delete use a       *)
(* process or tree node that an earlier deletion freed, as long as the     *)
(* queue is not drained.  Within one deletion process_delete does use what *)
(* tree_destroy_and_merge has freed, see Delete.                           *)
THEOREM OrderlyProgramsNeverDangle == Spec => []OrderlyNeverDangles
<1>1. IInv => OrderlyNeverDangles
  BY DEF IInv, Tree, OrderlyNeverDangles
<1>. QED
  BY <1>1, InvariantHolds, PTL

(* next_ready_process takes a tail with a stale next field only when a     *)
(* process has exited: one that is switched away from by timer_handler or  *)
(* in sys_waitpid is itself the tail.                                      *)
THEOREM DrainingNeedsExit == Spec => OnlyExitDrains
<1>1. ASSUME IInv, [Next]_vars, ~dangling, ~drained, drained'
      PROVE  current_process \in finished
  <2>1. CASE PickNext
    <3>1. /\ pc = "switch" /\ process_queue # Null
          /\ process_queue = process_queue_end /\ next[process_queue] # Null
      BY <1>1, <2>1 DEF PickNext
    <3>2. Sound
      BY <1>1 DEF Sound
    <3>. QED
      BY <1>1, <3>1, <3>2 DEF IInv, StaleLinksLead
  <2>2. CASE ~PickNext
    <3>1. drained' = drained
      BY <1>1, <2>2 DEF Next, TimerTick, SwitchTask, MakeReady, Fork, WaitPid, Exit, WaitLoop,
        SwitchNext, DeleteQueued, PickIdle, queueVars, vars
    <3>. QED
      BY <1>1, <3>1
  <2>. QED
    BY <2>1, <2>2
<1>2. IInv /\ [Next]_vars =>
        [~dangling /\ ~drained /\ drained' => current_process \in finished]_vars
  BY <1>1
<1>. QED
  BY <1>2, InvariantHolds, PTL DEF Spec, OnlyExitDrains
=============================================================================
