----------------------------- MODULE Scheduler -----------------------------
(***************************************************************************)
(* Processes and the round-robin scheduler of kernel/sys/process.c, with   *)
(* fork, exit, waitpid, the timer interrupt and the idle task.             *)
(*                                                                         *)
(* The run queue is intrusive: a process structure holds its queue_node,   *)
(* whose next field is written when something is queued behind it (or when *)
(* it goes on the delete queue) and never cleared.  Structures are         *)
(* malloc'ed and freed, so a slot here is an address, a freed slot keeps   *)
(* its old fields, and a new process may reuse it.                         *)
(*                                                                         *)
(* Kernel code runs with interrupts off.  Only switch_next, which loops,   *)
(* takes several steps; pc = "switch" while it runs.                       *)
(***************************************************************************)
EXTENDS Integers, Sequences, FiniteSets

CONSTANTS
    Slots,      \* addresses of process structures
    Null,       \* the null pointer
    Idle,       \* kernel_idle_task
    Orderly     \* do programs wait only for their own children and exit
                \* only when they have none, as init.c and sh.c do?

ASSUME SchedulerAssumption ==
    /\ Null \notin Slots /\ Idle \notin Slots /\ Null # Idle
    /\ Orderly \in BOOLEAN

VARIABLES
    process_queue,      \* head of the run queue
    process_queue_end,  \* its tail
    delete_queue,       \* head of the list of processes to delete
    next,               \* queue_node.next of each slot
    finished,           \* slots with PROC_FLAG_FINISHED
    has_waiters,        \* slots with PROC_FLAG_HAS_WAITERS
    allocated,          \* slots that hold a process
    parent,             \* parent in process_tree, Null for the root and for
                        \* a slot that has no node in the tree
    in_tree,            \* slots with a node in process_tree
    waiting,            \* waiting[p]: the process p's sys_waitpid holds
    current_process,
    pc,                 \* "run", or "switch" inside switch_next
    drained,            \* has the tail been dequeued with a stale next?
    dangling            \* has memory been used that an earlier call freed, so
                        \* that malloc may have given it away since?

queueVars == <<process_queue, process_queue_end, next, drained>>
treeVars == <<parent, in_tree>>
vars == <<queueVars, delete_queue, finished, has_waiters, allocated, treeVars,
          waiting, current_process, pc, dangling>>

(* multitasking_init: init runs, nothing is queued. *)
Init ==
    \E init \in Slots :
        /\ process_queue = Null
        /\ process_queue_end = Null
        /\ delete_queue = Null
        /\ next = [p \in Slots |-> Null]
        /\ finished = {}
        /\ has_waiters = {}
        /\ allocated = {init}
        /\ parent = [p \in Slots |-> Null]
        /\ in_tree = {init}
        /\ waiting = [p \in Slots \cup {Idle} |-> Null]
        /\ current_process = init
        /\ pc = "run"
        /\ drained = FALSE
        /\ dangling = FALSE

(* User code of p, or the idle loop, runs: p is current and not in the     *)
(* loop of sys_waitpid.                                                    *)
InUserMode(p) == pc = "run" /\ current_process = p /\ waiting[p] = Null

Children(p) == {c \in in_tree : parent[c] = p}

-----------------------------------------------------------------------------
(* Faulty: the tail is not moved. *)
MakeReadyKeepsTail(p, links) ==
    /\ IF process_queue_end # Null
         THEN /\ next' = [links EXCEPT ![process_queue_end] = p]
              /\ UNCHANGED <<process_queue, process_queue_end>>
         ELSE /\ process_queue' = p
              /\ process_queue_end' = p
              /\ next' = links
    /\ UNCHANGED drained

(* Faulty: the process goes to the head of the queue. *)
MakeReadyAtHead(p, links) ==
    /\ process_queue' = p
    /\ process_queue_end' = IF process_queue_end = Null THEN p ELSE process_queue_end
    /\ next' = [links EXCEPT ![p] = process_queue]
    /\ UNCHANGED drained

(* make_process_ready: p goes behind the tail, or becomes the only one.    *)
(* links is the next field of every slot before the call.                  *)
MakeReady(p, links) ==
    /\ process_queue_end' = p
    /\ IF process_queue_end # Null
         THEN /\ next' = [links EXCEPT ![process_queue_end] = p]
              /\ UNCHANGED process_queue
         ELSE /\ process_queue' = p
              /\ next' = links
    /\ UNCHANGED drained

(* Faulty: switched away from without being queued. *)
SwitchTaskUnqueued ==
    /\ UNCHANGED queueVars
    /\ pc' = "switch"

(* switch_task(1): the running process queues itself, the idle task does   *)
(* not.                                                                    *)
SwitchTask ==
    /\ IF current_process = Idle THEN UNCHANGED queueVars
                                 ELSE MakeReady(current_process, next)
    /\ pc' = "switch"

(* timer_handler, which can only interrupt user code and the idle loop. *)
TimerTick ==
    /\ pc = "run"
    /\ InUserMode(current_process)
    /\ SwitchTask
    /\ UNCHANGED <<delete_queue, finished, has_waiters, allocated, treeVars,
                   waiting, current_process, dangling>>

(* fork: a cleared structure, a node below the parent's in the tree, and a *)
(* place at the end of the run queue.                                      *)
Fork(p, c) ==
    /\ InUserMode(p)
    /\ c \notin allocated
    /\ allocated' = allocated \cup {c}
    /\ finished' = finished \ {c}
    /\ has_waiters' = has_waiters \ {c}
    /\ waiting' = [waiting EXCEPT ![c] = Null]
    /\ parent' = [parent EXCEPT ![c] = p]
    /\ in_tree' = in_tree \cup {c}
    /\ dangling' = (dangling \/ p \notin in_tree)
    /\ MakeReady(c, [next EXCEPT ![c] = Null])
    /\ UNCHANGED <<delete_queue, current_process, pc>>

(* Faulty: only a process with waiters is put on the delete queue. *)
ExitDeletesAwaited(p) ==
    /\ InUserMode(p)
    /\ Orderly => Children(p) = {}
    /\ IF p \notin has_waiters
         THEN UNCHANGED <<next, delete_queue>>
         ELSE /\ next' = [next EXCEPT ![p] = delete_queue]
              /\ delete_queue' = p
    /\ finished' = finished \cup {p}
    /\ pc' = "switch"
    /\ UNCHANGED <<process_queue, process_queue_end, drained, has_waiters,
                   allocated, treeVars, waiting, current_process, dangling>>

(* process_exit: without waiters the process goes on the delete queue,     *)
(* linked through the same next field.                                     *)
Exit(p) ==
    /\ InUserMode(p)
    /\ Orderly => Children(p) = {}
    /\ IF p \in has_waiters
         THEN UNCHANGED <<next, delete_queue>>
         ELSE /\ next' = [next EXCEPT ![p] = delete_queue]
              /\ delete_queue' = p
    /\ finished' = finished \cup {p}
    /\ pc' = "switch"
    /\ UNCHANGED <<process_queue, process_queue_end, drained, has_waiters,
                   allocated, treeVars, waiting, current_process, dangling>>

(* sys_waitpid finds the process in the tree; its loop is WaitLoop.  For a *)
(* pid that is not in the tree it returns at once.                         *)
WaitPid(p, c) ==
    /\ InUserMode(p)
    /\ c \in in_tree
    /\ Orderly => c \in Children(p)
    /\ waiting' = [waiting EXCEPT ![p] = c]
    /\ UNCHANGED <<queueVars, delete_queue, finished, has_waiters, allocated,
                   treeVars, current_process, pc, dangling>>

-----------------------------------------------------------------------------
(* The nodes tree_remove_branch frees: that of p and all below it.         *)
Closed(S) == \A c \in in_tree : parent[c] \in S => c \in S
Branch(p) == {c \in in_tree : \A S \in SUBSET Slots : p \in S /\ Closed(S) => c \in S}

(* process_delete(p).  tree_destroy_and_merge frees the structure itself,  *)
(* which is the value of its node, and takes the node out of the tree with *)
(* the whole branch below it.  process_delete then goes on reading the     *)
(* structure (name, pwd, fds, image, thread) and frees it again.  Nothing  *)
(* is requested between the two frees, which run with interrupts off, and  *)
(* free writes nothing into a page: what is read is what was there, and    *)
(* the second free takes nothing from anybody.                             *)
(*                                                                         *)
(* It is another matter when an earlier call freed p or, with the branch   *)
(* of an ancestor, its node: this is dangling.  And for the root,          *)
(* tree_free_values does not terminate if there are children.              *)
Delete(p) ==
    LET gone  == Branch(p)
        freed == allocated \ {p}
    IN
    /\ allocated' = freed \ {p}
    /\ in_tree' = in_tree \ gone
    /\ parent' = [c \in Slots |-> IF c \in gone THEN Null ELSE parent[c]]
    /\ dangling' = \/ dangling
                   \/ p \notin allocated
                   \/ p \notin in_tree
                   \/ parent[p] = Null /\ Children(p) # {}

(* Faulty: the process waited for is not told. *)
WaitLoopSetsNoFlag ==
    LET p == current_process
        c == waiting[p]
    IN
    /\ pc = "run"
    /\ c # Null
    /\ IF c \in finished
         THEN /\ Delete(c)
              /\ waiting' = [waiting EXCEPT ![p] = Null]
              /\ UNCHANGED <<queueVars, has_waiters, pc>>
         ELSE /\ dangling' = (dangling \/ c \notin allocated)
              /\ SwitchTask
              /\ UNCHANGED <<has_waiters, allocated, treeVars, waiting>>
    /\ UNCHANGED <<delete_queue, finished, current_process>>

(* Faulty: the loop does not let others run. *)
WaitLoopSpins ==
    LET p == current_process
        c == waiting[p]
    IN
    /\ pc = "run"
    /\ c # Null
    /\ IF c \in finished
         THEN /\ Delete(c)
              /\ waiting' = [waiting EXCEPT ![p] = Null]
              /\ UNCHANGED has_waiters
         ELSE /\ has_waiters' = has_waiters \cup {c}
              /\ UNCHANGED <<allocated, treeVars, waiting, dangling>>
    /\ UNCHANGED <<queueVars, delete_queue, finished, current_process, pc>>

(* One iteration of the loop of sys_waitpid; the flags it reads are those  *)
(* of the slot it found, whatever has become of it since.                  *)
WaitLoop ==
    LET p == current_process
        c == waiting[p]
    IN
    /\ pc = "run"
    /\ c # Null
    /\ IF c \in finished
         THEN /\ Delete(c)
              /\ waiting' = [waiting EXCEPT ![p] = Null]
              /\ UNCHANGED <<queueVars, has_waiters, pc>>
         ELSE /\ has_waiters' = has_waiters \cup {c}
              /\ dangling' = (dangling \/ c \notin allocated)
              /\ SwitchTask
              /\ UNCHANGED <<allocated, treeVars, waiting>>
    /\ UNCHANGED <<delete_queue, finished, current_process>>

(* switch_next: first the delete queue is emptied, ... *)
DeleteQueued ==
    /\ pc = "switch"
    /\ delete_queue # Null
    /\ Delete(delete_queue)
    /\ delete_queue' = next[delete_queue]
    /\ UNCHANGED <<queueVars, finished, has_waiters, waiting, current_process, pc>>

(* ... then next_ready_process is called until it returns a process that   *)
(* has not finished.                                                       *)
PickNext ==
    /\ pc = "switch"
    /\ delete_queue = Null
    /\ process_queue # Null
    /\ LET n == process_queue IN
       /\ process_queue' = next[n]
       /\ process_queue_end' = IF next[n] = Null THEN Null ELSE process_queue_end
       /\ drained' = (drained \/ (n = process_queue_end /\ next[n] # Null))
       /\ dangling' = (dangling \/ n \notin allocated)
       /\ current_process' = n
       /\ pc' = IF n \in finished THEN "switch" ELSE "run"
    /\ UNCHANGED <<next, delete_queue, finished, has_waiters, allocated, treeVars, waiting>>

PickIdle ==
    /\ pc = "switch"
    /\ delete_queue = Null
    /\ process_queue = Null
    /\ current_process' = Idle
    /\ pc' = "run"
    /\ UNCHANGED <<queueVars, delete_queue, finished, has_waiters, allocated,
                   treeVars, waiting, dangling>>

SwitchNext == DeleteQueued \/ PickNext \/ PickIdle

Next ==
    \/ TimerTick
    \/ \E p \in Slots :
         \/ \E c \in Slots : Fork(p, c) \/ WaitPid(p, c)
         \/ Exit(p)
    \/ WaitLoop
    \/ SwitchNext

(* Kernel code runs to its end, and the timer keeps ticking.  Nothing      *)
(* makes user code fork, wait or exit.                                     *)
Fairness == WF_vars(SwitchNext) /\ WF_vars(WaitLoop) /\ WF_vars(TimerTick)

Spec == Init /\ [][Next]_vars /\ Fairness

-----------------------------------------------------------------------------
TypeOK ==
    /\ process_queue \in Slots \cup {Null}
    /\ process_queue_end \in Slots \cup {Null}
    /\ delete_queue \in Slots \cup {Null}
    /\ next \in [Slots -> Slots \cup {Null}]
    /\ finished \subseteq Slots
    /\ has_waiters \subseteq Slots
    /\ allocated \subseteq Slots
    /\ parent \in [Slots -> Slots \cup {Null}]
    /\ in_tree \subseteq Slots
    /\ waiting \in [Slots \cup {Idle} -> Slots \cup {Null}]
    /\ current_process \in Slots \cup {Idle}
    /\ pc \in {"run", "switch"}
    /\ drained \in BOOLEAN
    /\ dangling \in BOOLEAN

Alive == allocated \ finished

(* Those that must be in the run queue. *)
Ready == Alive \ {p \in Alive : pc = "run" /\ current_process = p}

(* q lists the run queue: it follows the next fields from the head to the  *)
(* tail.                                                                   *)
IsQueue(q) ==
    IF q = <<>>
      THEN process_queue = Null /\ process_queue_end = Null
      ELSE /\ process_queue = q[1]
           /\ process_queue_end = q[Len(q)]
           /\ \A i \in 1 .. Len(q) - 1 : next[q[i]] = q[i + 1]

Lists(S) == {q \in [1 .. Cardinality(S) -> S] : \A x \in S : \E i \in DOMAIN q : q[i] = x}

(* Until the tail is dequeued with a stale next, the run queue holds every *)
(* process that can run, except the running one, exactly once and nothing  *)
(* else, however fork, exit, waitpid and the timer interleave; and even    *)
(* afterwards no process runs that has finished or was freed.              *)
QueueHoldsReady ==
    /\ TypeOK
    /\ ~dangling /\ pc = "run" => current_process \in Alive \cup {Idle}
    /\ ~drained /\ ~dangling => \E q \in Lists(Ready) : IsQueue(q)

(* The stale next only does harm when a process exits: a process that is   *)
(* switched away from by the timer or in sys_waitpid has queued itself, so *)
(* the tail is never what next_ready_process takes.                        *)
OnlyExitDrains ==
    [][~dangling /\ ~drained /\ drained' => current_process \in finished]_vars

(* A finished process that has not been deleted is on its way out in       *)
(* switch_next, or some process is in sys_waitpid for it: none is left     *)
(* behind.                                                                 *)
ZombiesAreAwaited ==
    ~dangling => \A z \in allocated \cap finished :
        \/ pc = "switch" /\ delete_queue = z
        \/ \E w \in Alive : waiting[w] = z

(* Programs that wait for their children and for nobody else never make    *)
(* fork, sys_waitpid, switch_next or process_delete use a process or tree  *)
(* node that an earlier deletion freed; only a drained queue can.  That    *)
(* each deletion goes on using what it has freed itself is not excluded,   *)
(* see Delete.                                                             *)
OrderlyNeverDangles == Orderly /\ ~drained => ~dangling

Sound == ~drained /\ ~dangling

(* As long as the queue is not drained, every process that can run does.   *)
EveryReadyRuns ==
    []Sound => \A p \in Slots : (p \in Alive) ~> (pc = "run" /\ current_process = p) \/ p \notin Alive

(* sys_waitpid returns once the process it waits for has finished.         *)
WaitersReturn ==
    []Sound => \A p \in Slots : (waiting[p] \in finished) ~> (waiting[p] = Null)

(* sys_waitpid polls with interrupts off.  When programs wait only for     *)
(* their children, user code or the idle loop is reached again and again,  *)
(* so that interrupts are served.                                          *)
InterruptsComeBack ==
    []Sound => []<>InUserMode(current_process)
=============================================================================
