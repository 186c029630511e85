---------------------------- MODULE ContextSwitch ----------------------------
(***************************************************************************)
(* Interrupts, system calls and switches of process on the processor       *)
(* itself: the registers, the kernel stack of each process and the         *)
(* interrupt controllers (kernel/cpu/isr.s and idt.c, kernel/sys/          *)
(* process.s, process.c and syscall.c, kernel/cpu/userspace.c).            *)
(*                                                                         *)
(* A register holds a word of WordBytes digits, the lowest first.  The     *)
(* kernel's own code keeps nothing in a register across the calls shown    *)
(* here (it is compiled with -O0), but it does not clear them either: what *)
(* a program has in r15 is still there when save_context runs.             *)
(*                                                                         *)
(* Which process waits for which and the memory behind a page directory    *)
(* are in Scheduler and CowMemory: here sys_waitpid may poll as often as   *)
(* it likes and a directory only has an owner.  Left out: swapgs (nothing  *)
(* reads through GS), the FS base (always 0), faults that the kernel       *)
(* cannot resolve, and what mmu_clone, mmu_free and page_fault make of a   *)
(* page_directory whose low byte was overwritten.                          *)
(***************************************************************************)
EXTENDS Integers, Sequences, SequencesExt, FiniteSetsExt

CONSTANTS
    MaxPid,     \* bound on the processes that are ever started
    WordBytes,  \* bytes in a register: 8
    Calls,      \* the numbers programs put into rax
    R15Words,   \* what programs put into r15
    Irqs,       \* the lines of the interrupt controllers in use
    Depth       \* bound on interrupts within interrupts

SYS_EXIT == 0
SYS_FORK == 1
SYS_GETPID == 7
SYS_EXECVE == 24
SYS_WAITPID == 25
LastCall == 25

Byte == 0 .. WordBytes - 1
Word(n) == [i \in Byte |-> IF i = 0 THEN n ELSE 0]

ASSUME ContextAssumption ==
    /\ MaxPid \in Nat \ {0} /\ WordBytes \in Nat \ {0, 1} /\ Depth \in Nat \ {0}
    /\ Calls \subseteq Nat /\ Irqs \subseteq 0 .. 15
    /\ R15Words \subseteq [Byte -> Int]

Idle == -1                      \* the pid of kernel_idle_task
Pids == 1 .. MaxPid
Threads == Pids \cup {Idle}

(* The order in which isr_common pushes and pops, resume_user pops, and    *)
(* struct regs names them.                                                 *)
Pushed == <<"rax", "rbx", "rcx", "rdx", "rsi", "rdi", "rbp", "r8", "r9", "r10", "r11",
            "r12", "r13", "r14", "r15">>
Popped == <<"r15", "r14", "r13", "r12", "r11", "r10", "r9", "r8", "rbp", "rdi", "rsi",
            "rdx", "rcx", "rbx", "rax">>
\* Faulty: rdi and rsi are the wrong way round.
ResumedSwapped == <<"r15", "r14", "r13", "r12", "r11", "r10", "r9", "r8", "rbp", "rsi", "rdi",
                    "rdx", "rcx", "rbx", "rax">>
Resumed == <<"r15", "r14", "r13", "r12", "r11", "r10", "r9", "r8", "rbp", "rdi", "rsi",
             "rdx", "rcx", "rbx", "rax">>
StructRegs == <<"r15", "r14", "r13", "r12", "r11", "r10", "r9", "r8", "rbp", "rdi", "rsi",
                "rdx", "rcx", "rbx", "rax">>
Regs == Range(Pushed)
Field(name) == CHOOSE i \in DOMAIN StructRegs : StructRegs[i] = name

(* thread_context_t keeps these, and r15; a call may change the rest.      *)
Saved == {"rbx", "rbp", "r12", "r13", "r14"}
Scratch == Word(-1)
Called(r) == [x \in Regs |-> IF x \in Saved \cup {"r15"} THEN r[x] ELSE Scratch]

VARIABLES
    current_process,
    ready,          \* process_queue
    thread,         \* process_t.thread
    kernel_stack,   \* rsp[0] of the TSS: whose stack interrupts start on
    stack,          \* the frames on each kernel stack, the oldest first
    rsp,            \* on whose stack the kernel is, and how many frames deep
    reg,            \* the registers
    at,             \* where the processor is
    interrupts,     \* does it accept interrupts?
    current_pml,    \* CR3: the owner of the directory and its low byte
    in_service,     \* of the two interrupt controllers
    expected,       \* the registers each program must find
    uses_r15        \* has a program put anything into r15?
vars == <<current_process, ready, thread, kernel_stack, stack, rsp, reg, at,
          interrupts, current_pml, in_service, expected, uses_r15>>
cpu == <<reg, at, interrupts, rsp>>
switching == <<current_process, ready, thread, kernel_stack, current_pml>>
programs == <<expected, uses_r15>>

NewThread(p, ip) ==
    [sp |-> <<p, 0>>, ip |-> ip, saved |-> [r \in Saved |-> Word(0)],
     saved4 |-> Word(0), page_directory |-> [of |-> p, low |-> 0]]

(* kmain is about to run /bin/init as process 1, on a stack of its own and *)
(* with nothing in r15.                                                    *)
Init ==
    /\ current_process = 1 /\ ready = <<>>
    /\ thread = [p \in Threads |-> NewThread(p, IF p = Idle THEN "_idle" ELSE "unused")]
    /\ kernel_stack = 0
    /\ stack = [p \in Threads |-> <<>>]
    /\ rsp = <<0, 0>>
    /\ reg = [r \in Regs |-> Word(0)]
    /\ at = "elf_exec" /\ interrupts = FALSE
    /\ current_pml = [of |-> 1, low |-> 0]
    /\ in_service = [master |-> {}, slave |-> {}]
    /\ expected = [p \in Pids |-> reg] /\ uses_r15 = FALSE

Started == {p \in Pids : thread[p].ip # "unused"} \cup {1}

-----------------------------------------------------------------------------
(* save_context: r15 goes one byte too high, so that the last of its bytes *)
(* becomes the lowest of page_directory, which comes next in thread_t.     *)
save_context(t) ==
    [t EXCEPT !.sp = rsp,
              !.ip = "switch_task",
              !.saved = [r \in Saved |-> reg[r]],
              !.saved4 = [i \in Byte |-> IF i = 0 THEN @[0] ELSE reg["r15"][i - 1]],
              !.page_directory.low = reg["r15"][WordBytes - 1]]

(* restore_context. *)
Restored(t) ==
    [r \in Regs |-> IF r \in Saved THEN t.saved[r]
                    ELSE IF r = "r15" THEN t.saved4
                    ELSE IF r = "rax" THEN Word(1) ELSE Scratch]

(* switch_next, with the threads and the queue as they are by then.        *)
switch_next(queue, threads) ==
    LET next == IF queue = <<>> THEN Idle ELSE Head(queue) IN
    /\ current_process' = next
    /\ ready' = IF queue = <<>> THEN <<>> ELSE Tail(queue)
    /\ thread' = threads
    /\ kernel_stack' = next
    /\ current_pml' = threads[next].page_directory
    /\ reg' = Restored(threads[next])
    /\ rsp' = threads[next].sp /\ at' = threads[next].ip
    /\ interrupts' = FALSE

(* switch_task(1); the idle task is not saved: it starts again. *)
switch_task ==
    IF current_process = Idle THEN switch_next(ready, thread)
    ELSE switch_next(Append(ready, current_process),
                     [thread EXCEPT ![current_process] = save_context(@)])

-----------------------------------------------------------------------------
(* What the processor and isr_common put on the kernel stack: a program's  *)
(* frame at its top, others below the one that is there.                   *)
Frame(int_no) ==
    [int_no |-> int_no, cs |-> at = "user", rip |-> at, rflags |-> interrupts,
     regs |-> Reverse([i \in DOMAIN Pushed |-> reg[Pushed[i]]])]

isr_common(int_no) ==
    LET below == IF at = "user" THEN <<kernel_stack, 0>> ELSE rsp IN
    /\ stack' = [stack EXCEPT ![below[1]] = Append(SubSeq(@, 1, below[2]), Frame(int_no))]
    /\ rsp' = <<below[1], below[2] + 1>>
    /\ at' = "isr_handler" /\ interrupts' = FALSE
    /\ UNCHANGED <<reg, switching>>

Top == stack[rsp[1]][rsp[2]]
Serving(int_no) == at = "isr_handler" /\ Top.int_no = int_no

(* When interrupts are served: in user mode, behind the sti of a system    *)
(* call, and in the idle loop.                                             *)
Accepting ==
    /\ interrupts /\ at \in {"user", "isr_return", "_idle"}
    /\ at # "user" => rsp[2] < Depth

(* The priority of line at a controller, above all that is in service.     *)
Above(line, lines) == \A i \in lines : line < i

(* A line of the interrupt controllers, which are set to let every line    *)
(* through.  Those of the second come through line 2 of the first.         *)
Irq(irq) ==
    LET line == IF irq < 8 THEN irq ELSE 2 IN
    /\ Accepting
    /\ Above(line, in_service.master)
    /\ irq >= 8 => Above(irq, in_service.slave)
    /\ in_service' = [master |-> in_service.master \cup {line},
                      slave |-> in_service.slave \cup (IF irq < 8 THEN {} ELSE {irq})]
    /\ isr_common(32 + irq)
    /\ UNCHANGED programs

(* A request that is gone when the processor asks for it: a controller     *)
(* answers with its last line, and has nothing in service for it.  The     *)
(* first one does not know when it is the second that does so.             *)
Spurious(irq) ==
    /\ Accepting
    /\ \/ /\ irq = 7 /\ Above(0, in_service.master)
          /\ UNCHANGED in_service
       \/ /\ irq = 15 /\ Above(2, in_service.master) /\ Above(8, in_service.slave)
          /\ in_service' = [in_service EXCEPT !.master = @ \cup {2}]
    /\ isr_common(32 + irq)
    /\ UNCHANGED programs

(* A program makes a system call. *)
Int128 ==
    /\ at = "user"
    /\ isr_common(128)
    /\ UNCHANGED <<in_service, programs>>

(* A store to a page that is copied on write, by a program or, in a system *)
(* call, by the kernel.                                                    *)
PageFault ==
    /\ at = "user" \/ (Serving(128) /\ rsp[2] < Depth)
    /\ current_pml.low = 0
    /\ isr_common(14)
    /\ UNCHANGED <<in_service, programs>>

-----------------------------------------------------------------------------
(* irq_ack: the end of the interrupt of the highest priority in service. *)
Ended(lines) == lines \ {i \in lines : \A j \in lines : i <= j}
\* Faulty: the first controller only.
irq_ack_first(n) == in_service' = [in_service EXCEPT !.master = Ended(@)]
irq_ack(n) ==
    in_service' = [master |-> Ended(in_service.master),
                   slave |-> IF n >= 8 THEN Ended(in_service.slave) ELSE in_service.slave]

Return ==
    /\ at' = "isr_return" /\ reg' = Called(reg)
    /\ UNCHANGED <<rsp, switching, stack, programs>>

(* timer_handler: it ends its interrupt before it switches. *)
timer_handler ==
    /\ Serving(32)
    /\ irq_ack(0)
    /\ switch_task
    /\ UNCHANGED <<stack, programs>>

(* kbd_handler, which ends its interrupt, and lines that nothing handles.  *)
handle_irq(irq) ==
    /\ Serving(32 + irq) /\ irq \notin {0, 7}
    /\ irq_ack(irq)
    /\ Return /\ UNCHANGED interrupts

(* Line 7, which is not ended whether or not it is in service, and a fault *)
(* that mmu_copy_on_write resolved.                                        *)
Ignore ==
    /\ Serving(39) \/ Serving(14)
    /\ Return /\ UNCHANGED <<interrupts, in_service>>

(* The answer of a system call, and sti. *)
Answer(rval) ==
    /\ stack' = [stack EXCEPT ![rsp[1]][rsp[2]].regs[Field("rax")] = rval]
    /\ expected' = [expected EXCEPT ![current_process]["rax"] = rval]
    /\ at' = "isr_return" /\ interrupts' = TRUE /\ reg' = Called(reg)
    /\ UNCHANGED <<rsp, uses_r15, in_service>>

Number == Top.regs[Field("rax")][0]

(* Calls that only return something, and numbers that are no call.         *)
SimpleCall ==
    /\ Serving(128) /\ Number \notin {SYS_EXIT, SYS_FORK}
    /\ Answer(IF Number > LastCall THEN Word(-22)
              ELSE IF Number = SYS_GETPID THEN Word(current_process) ELSE Word(0))
    /\ UNCHANGED switching

(* fork: the child's stack gets a copy of the frame (syscall_regs, that of *)
(* the call being served), and its context the parent's saved registers;   *)
(* the parent's own context is not used again.                             *)
Fork ==
    /\ Serving(128) /\ Number = SYS_FORK
    /\ thread[current_process].page_directory.low = 0
    /\ \E child \in Pids \ Started :
          /\ \A p \in Pids \ Started : child <= p
          /\ LET saved == save_context(thread[current_process])
                 r == [Top EXCEPT !.regs[Field("rax")] = Word(0)] IN
             /\ thread' = [thread EXCEPT
                    ![current_process] = saved,
                    ![child] = [sp |-> <<child, 1>>, ip |-> "resume_user",
                                saved |-> saved.saved, saved4 |-> saved.saved4,
                                page_directory |-> [of |-> child, low |-> 0]]]
             /\ stack' = [stack EXCEPT ![child] = <<r>>,
                            ![rsp[1]][rsp[2]].regs[Field("rax")] = Word(child)]
          /\ ready' = Append(ready, child)
          /\ expected' = [expected EXCEPT
                ![current_process]["rax"] = Word(child),
                ![child] = [expected[current_process] EXCEPT !["rax"] = Word(0)]]
    /\ at' = "isr_return" /\ interrupts' = TRUE /\ reg' = Called(reg)
    /\ UNCHANGED <<rsp, current_process, kernel_stack, current_pml, uses_r15, in_service>>

(* sys_exit. *)
Exit ==
    /\ Serving(128) /\ Number = SYS_EXIT
    /\ switch_next(ready, thread)
    /\ UNCHANGED <<stack, in_service, programs>>

(* sys_waitpid: as long as the process is not finished. *)
Wait ==
    /\ at = "waitpid" \/ (Serving(128) /\ Number = SYS_WAITPID)
    /\ switch_task
    /\ UNCHANGED <<stack, in_service, programs>>

WaitEnds ==
    /\ at = "waitpid"
    /\ Answer(Word(0))
    /\ UNCHANGED switching

(* sys_execve of a program: elf_exec makes a new directory. *)
Exec ==
    /\ Serving(128) /\ Number = SYS_EXECVE
    /\ thread[current_process].page_directory.low = 0
    /\ thread' = [thread EXCEPT ![current_process].page_directory = [of |-> current_process, low |-> 0]]
    /\ current_pml' = [of |-> current_process, low |-> 0]
    /\ at' = "elf_exec" /\ reg' = Called(reg)
    /\ UNCHANGED <<current_process, ready, kernel_stack, stack, rsp, interrupts, in_service, programs>>

(* enter_userspace, with argc, argv and envp; the rest is left over.       *)
enter_userspace ==
    /\ at = "elf_exec"
    /\ kernel_stack' = current_process
    /\ reg' = [reg EXCEPT !["rdi"] = Word(1), !["rsi"] = Word(2), !["rdx"] = Word(3)]
    /\ expected' = [expected EXCEPT ![current_process] = reg']
    /\ at' = "user" /\ interrupts' = TRUE
    /\ UNCHANGED <<current_process, ready, thread, current_pml, stack, rsp,
                   in_service, uses_r15>>

-----------------------------------------------------------------------------
(* save_context returns 1: back to the handler of the timer, which is done *)
(* then, or to sys_waitpid.                                                *)
SwitchedBack ==
    /\ at = "switch_task"
    /\ at' = IF Top.int_no = 32 THEN "isr_return" ELSE "waitpid"
    /\ reg' = Called(reg)
    /\ UNCHANGED <<interrupts, rsp, switching, stack, in_service, programs>>

(* iretq behind isr_common or resume_user, which pop the registers in the  *)
(* given order.                                                            *)
Pop(order) ==
    LET frame == Top IN
    /\ reg' = [r \in Regs |-> frame.regs[CHOOSE i \in DOMAIN order : order[i] = r]]
    /\ at' = IF frame.cs THEN "user" ELSE frame.rip
    /\ interrupts' = frame.rflags
    /\ rsp' = <<rsp[1], rsp[2] - 1>>
    /\ stack' = [stack EXCEPT ![rsp[1]] = SubSeq(@, 1, rsp[2] - 1)]
    /\ UNCHANGED <<switching, in_service, programs>>

isr_return == at = "isr_return" /\ Pop(Popped)
resume_user == at = "resume_user" /\ Pop(Resumed)

(* _idle: sti and hlt. *)
_idle ==
    /\ at = "_idle" /\ ~interrupts
    /\ interrupts' = TRUE
    /\ UNCHANGED <<reg, at, rsp, switching, stack, in_service, programs>>

(* A program computes: anything of its own in its registers, and the       *)
(* number of the next system call.                                         *)
Compute ==
    /\ at = "user"
    /\ \E call \in Calls, w \in R15Words :
          /\ reg' = [r \in Regs |->
                IF r = "rax" THEN Word(call) ELSE IF r = "r15" THEN w
                ELSE Word(100 * current_process + Field(r))]
          /\ uses_r15' = (uses_r15 \/ w # Word(0))
    /\ expected' = [expected EXCEPT ![current_process] = reg']
    /\ UNCHANGED <<at, interrupts, rsp, switching, stack, in_service>>

Next ==
    \/ \E irq \in Irqs : Irq(irq) \/ Spurious(irq) \/ handle_irq(irq)
    \/ Int128 \/ PageFault \/ timer_handler \/ Ignore
    \/ SimpleCall \/ Fork \/ Exit \/ Wait \/ WaitEnds \/ Exec \/ enter_userspace
    \/ SwitchedBack \/ isr_return \/ resume_user \/ _idle \/ Compute

Spec == Init /\ [][Next]_vars

-----------------------------------------------------------------------------
(* A program never notices that it was interrupted or that others ran:     *)
(* whatever happens in between, nested interrupts and switches in the      *)
(* middle of a system call included, it finds each register as it left it, *)
(* only rax with the answer of its system call, 0 in the child of a fork,  *)
(* and its own address space.  save_context does not keep r15, but the     *)
(* frame does; what it does to the pointer to the page directory begins    *)
(* only when some program uses r15.                                        *)
UserStateSurvives ==
    /\ at = "user" => reg = expected[current_process] /\ current_process # Idle
    /\ current_pml.of = current_process
    /\ ~uses_r15 => \A p \in Threads : thread[p].page_directory.low = 0

(* Whenever the processor accepts interrupts, none is in service that      *)
(* would hold another line back: a handler that switches to another        *)
(* process, or returns 1, has ended its interrupt, and each is ended at    *)
(* each controller it came through, spurious ones included.  Only line 7   *)
(* may be in service: nothing ends it, so that it comes once, but it is    *)
(* the last of the first controller and holds back nothing else.           *)
InterruptsStayPossible ==
    interrupts => in_service.master \subseteq {7} /\ in_service.slave = {}
=============================================================================
