------------------------ MODULE ContextSwitchProofs ------------------------
(***************************************************************************)
(* Interrupts and switches for any number of processes, any depth of       *)
(* interrupts, any width of a register and any contents: programs find     *)
(* their registers, and interrupts stay possible.                          *)
(***************************************************************************)
EXTENDS ContextSwitch, TLAPS, SequenceTheorems

Words == [Byte -> Int]
Files == [Regs -> Words]
Places == {"elf_exec", "user", "isr_handler", "isr_return", "waitpid", "switch_task",
           "resume_user", "_idle"}
Stacked == [int_no : Nat, cs : BOOLEAN, rip : Places, rflags : BOOLEAN,
            regs : [DOMAIN StructRegs -> Words]]
Directory == [of : Threads, low : Int]
Context == [sp : (Threads \cup {0}) \X Nat, ip : Places \cup {"unused"},
            saved : [Saved -> Words], saved4 : Words, page_directory : Directory]

Types ==
    /\ current_process \in Threads /\ ready \in Seq(Pids)
    /\ thread \in [Threads -> Context] /\ kernel_stack \in Threads \cup {0}
    /\ stack \in [Threads -> Seq(Stacked)] /\ rsp \in (Threads \cup {0}) \X Nat
    /\ reg \in Files /\ at \in Places /\ interrupts \in BOOLEAN
    /\ current_pml \in Directory
    /\ expected \in [Pids -> Files] /\ uses_r15 \in BOOLEAN

(* A frame on the kernel stack has the registers e. *)
Holds(f, e) == \A r \in Regs : f.regs[Field(r)] = e[r]

(* Frame k of thread p.  The first one is from user code, or from the idle *)
(* loop, and the others from within the kernel: from the end of an         *)
(* interrupt, or from a system call that met a fault.                      *)
First(p) ==
    IF p = Idle THEN /\ ~stack[p][1].cs /\ stack[p][1].rip = "_idle" /\ stack[p][1].int_no # 128
    ELSE stack[p][1].cs /\ Holds(stack[p][1], expected[p])
Further(p, k) ==
    /\ ~stack[p][k].cs /\ stack[p][k].int_no # 128
    /\ \/ stack[p][k].rip = "isr_return"
       \/ stack[p][k].rip = "isr_handler" /\ ~stack[p][k].rflags /\ stack[p][k - 1].int_no = 128
Framed(p, d) ==
    /\ d \in 1 .. Len(stack[p])
    /\ First(p)
    /\ \A k \in 2 .. d : Further(p, k)

(* Where the kernel is on a frame, and where a program's process is. *)
InKernel == {"isr_handler", "isr_return", "waitpid", "switch_task", "resume_user"}
InProcess == {"elf_exec", "user", "waitpid", "switch_task", "resume_user"}

(* What is true of the processor at each place. *)
Placed ==
    /\ at # "elf_exec" => kernel_stack = current_process
    /\ at \in InProcess => current_process \in Pids
    /\ at = "user" => reg = expected[current_process]
    /\ at = "_idle" => current_process = Idle /\ rsp = <<Idle, 0>>
    /\ at \in InKernel => rsp[1] = current_process /\ Framed(current_process, rsp[2])
    /\ at = "isr_handler" => ~interrupts
    /\ at = "waitpid" => Top.int_no = 128
    /\ at = "switch_task" => Top.int_no \in {32, 128}
    /\ at = "resume_user" => rsp[2] = 1

(* A process that waits for the processor has its frames, and a context    *)
(* that leads to them.                                                     *)
Leads(context, p) ==
    /\ context.sp[1] = p /\ Framed(p, context.sp[2])
    /\ \/ /\ context.ip = "switch_task"
          /\ stack[p][context.sp[2]].int_no \in {32, 128}
       \/ context.ip = "resume_user" /\ context.sp[2] = 1
Resumable(p) == Leads(thread[p], p)

Suspended ==
    /\ \A i, j \in DOMAIN ready : ready[i] = ready[j] => i = j
    /\ \A i \in DOMAIN ready : ready[i] # current_process /\ Resumable(ready[i])
    /\ current_process \in Started \cup {Idle}
    /\ thread[Idle].sp = <<Idle, 0>> /\ thread[Idle].ip = "_idle"

Directories ==
    /\ \A p \in Threads : thread[p].page_directory.of = p
    /\ current_pml.of = current_process

(* As long as no program has put anything into r15 it is 0 wherever it is  *)
(* kept.                                                                   *)
NothingInR15 ==
    ~uses_r15 =>
        /\ reg["r15"] = Word(0) /\ \A p \in Pids : expected[p]["r15"] = Word(0)
        /\ \A p \in Threads : thread[p].saved4 = Word(0) /\ thread[p].page_directory.low = 0
        /\ \A p \in Threads : \A k \in 1 .. Len(stack[p]) :
              stack[p][k].regs[Field("r15")] = Word(0)

(* An interrupt is in service only while it is being handled, and line 7   *)
(* for ever.  A spurious one of the second controller is not in service    *)
(* there.                                                                  *)
Line(irq) == IF irq < 8 THEN irq ELSE 2
Handled == {irq \in (0 .. 15) \ {7} : Serving(32 + irq)}
InService ==
    /\ in_service.master \ {7} = {Line(irq) : irq \in Handled}
    /\ in_service.slave \subseteq {irq \in Handled : irq >= 8}
    /\ in_service = [master |-> in_service.master, slave |-> in_service.slave]

IInv == Types /\ Placed /\ Suspended /\ Directories /\ NothingInR15 /\ InService
-----------------------------------------------------------------------------
(* Registers and frames. *)

(* A function on 1 .. n is a sequence of length n. *)
LEMMA IsSequence ==
  ASSUME NEW T, NEW n \in Nat, NEW s \in [1 .. n -> T]
  PROVE  s \in Seq(T) /\ Len(s) = n
<1>1. s \in Seq(T)
  BY SeqDef
<1>. QED
  BY <1>1, LenProperties

(* The fifteen places of struct regs have different names, pushed in the   *)
(* opposite order.                                                         *)
LEMMA PlacesOfRegisters ==
  /\ DOMAIN StructRegs = 1 .. 15 /\ DOMAIN Pushed = 1 .. 15
  /\ \A i \in 1 .. 15 : Pushed[16 - i] = StructRegs[i]
  /\ \A i, j \in 1 .. 15 : StructRegs[i] = StructRegs[j] => i = j
  /\ Popped = StructRegs /\ Resumed = StructRegs
<1>1. DOMAIN StructRegs = 1 .. 15 /\ DOMAIN Pushed = 1 .. 15
  BY DEF StructRegs, Pushed
<1>2. \A i \in 1 .. 15 : i \in {1, 2, 3, 4, 5, 6, 7, 8, 9, 10, 11, 12, 13, 14, 15}
  OBVIOUS
<1>3. ASSUME NEW i \in 1 .. 15 PROVE Pushed[16 - i] = StructRegs[i]
  BY <1>2 DEF StructRegs, Pushed
<1>4. ASSUME NEW i \in 1 .. 15, NEW j \in 1 .. 15, StructRegs[i] = StructRegs[j] PROVE i = j
  BY <1>2, <1>4 DEF StructRegs
<1>. QED
  BY <1>1, <1>3, <1>4 DEF Popped, Resumed, StructRegs

(* Each register has one place. *)
LEMMA FieldOfRegister ==
  /\ \A r \in Regs : Field(r) \in 1 .. 15 /\ StructRegs[Field(r)] = r
  /\ \A r, q \in Regs : Field(r) = Field(q) => r = q
  /\ \A r \in Regs : /\ Field(r) = CHOOSE i \in DOMAIN Popped : Popped[i] = r
                     /\ Field(r) = CHOOSE i \in DOMAIN Resumed : Resumed[i] = r
<1>1. ASSUME NEW r \in Regs PROVE Field(r) \in 1 .. 15 /\ StructRegs[Field(r)] = r
  <2>1. PICK i \in 1 .. 15 : Pushed[i] = r
    BY PlacesOfRegisters DEF Regs, Range
  <2>2. 16 - i \in 1 .. 15 /\ 16 - (16 - i) = i
    OBVIOUS
  <2>3. StructRegs[16 - i] = r
    BY <2>1, <2>2, PlacesOfRegisters
  <2>4. \E k \in DOMAIN StructRegs : StructRegs[k] = r
    BY <2>2, <2>3, PlacesOfRegisters
  <2>. QED
    BY <2>4, PlacesOfRegisters DEF Field
<1>2. ASSUME NEW r \in Regs
      PROVE  /\ Field(r) = CHOOSE i \in DOMAIN Popped : Popped[i] = r
             /\ Field(r) = CHOOSE i \in DOMAIN Resumed : Resumed[i] = r
  BY PlacesOfRegisters DEF Field
<1>. QED
  BY <1>1, <1>2

(* The registers that are spoken of by name. *)
LEMMA NamedRegisters ==
  /\ {"rax", "r15", "rdi", "rsi", "rdx"} \subseteq Regs /\ Saved \subseteq Regs
  /\ "r15" \notin Saved /\ "rax" \notin Saved
<1>1. \A i \in 1 .. 15 : Pushed[i] \in Regs
  BY PlacesOfRegisters DEF Regs, Range
<1>2. /\ Pushed[1] = "rax" /\ Pushed[2] = "rbx" /\ Pushed[3] = "rcx" /\ Pushed[4] = "rdx"
      /\ Pushed[5] = "rsi" /\ Pushed[6] = "rdi" /\ Pushed[7] = "rbp" /\ Pushed[12] = "r12"
      /\ Pushed[13] = "r13" /\ Pushed[14] = "r14" /\ Pushed[15] = "r15"
  BY DEF Pushed
<1>3. 1 \in 1 .. 15 /\ 2 \in 1 .. 15 /\ 4 \in 1 .. 15 /\ 5 \in 1 .. 15 /\ 6 \in 1 .. 15
      /\ 7 \in 1 .. 15 /\ 12 \in 1 .. 15 /\ 13 \in 1 .. 15 /\ 14 \in 1 .. 15 /\ 15 \in 1 .. 15
  OBVIOUS
<1>4. "rax" \in Regs /\ "rbx" \in Regs /\ "rdx" \in Regs /\ "rsi" \in Regs /\ "rdi" \in Regs
      /\ "rbp" \in Regs /\ "r12" \in Regs /\ "r13" \in Regs /\ "r14" \in Regs /\ "r15" \in Regs
  BY <1>1, <1>2, <1>3
<1>. QED
  BY <1>4 DEF Saved

(* What isr_common puts on the stack are the registers. *)
LEMMA FrameHolds ==
  ASSUME Types, NEW n \in Nat
  PROVE  /\ Frame(n) \in Stacked /\ Holds(Frame(n), reg)
         /\ Frame(n).int_no = n /\ Frame(n).cs = (at = "user") /\ Frame(n).rip = at
         /\ Frame(n).rflags = interrupts
<1>. DEFINE pushed == [i \in DOMAIN Pushed |-> reg[Pushed[i]]]
            back == Reverse(pushed)
<1>1. reg \in [Regs -> Words] /\ at \in Places /\ interrupts \in BOOLEAN
  BY DEF Types, Files
<1>2. \A i \in 1 .. 15 : Pushed[i] \in Regs
  BY PlacesOfRegisters DEF Regs, Range
<1>3. pushed \in [1 .. 15 -> Words]
  BY <1>1, <1>2, PlacesOfRegisters
<1>4. Len(pushed) = 15
  BY <1>3, IsSequence
<1>5. back = [i \in 1 .. 15 |-> pushed[(15 - i) + 1]]
  BY <1>4 DEF Reverse
<1>6. \A i \in 1 .. 15 : (15 - i) + 1 \in 1 .. 15 /\ (15 - i) + 1 = 16 - i
  OBVIOUS
<1>7. back \in [1 .. 15 -> Words] /\ \A i \in 1 .. 15 : back[i] = reg[Pushed[16 - i]]
  BY <1>3, <1>5, <1>6, PlacesOfRegisters
<1>8. \A r \in Regs : back[Field(r)] = reg[r]
  <2>. SUFFICES ASSUME NEW r \in Regs PROVE back[Field(r)] = reg[r]
    OBVIOUS
  <2>1. Field(r) \in 1 .. 15 /\ StructRegs[Field(r)] = r
    BY FieldOfRegister
  <2>2. Pushed[16 - Field(r)] = r
    BY <2>1, PlacesOfRegisters
  <2>. QED
    BY <1>7, <2>1, <2>2
<1>. HIDE DEF back
<1>9. Frame(n) = [int_no |-> n, cs |-> at = "user", rip |-> at, rflags |-> interrupts,
                  regs |-> back]
  BY DEF Frame, back
<1>10. DOMAIN StructRegs = 1 .. 15
  BY PlacesOfRegisters
<1>. QED
  BY <1>1, <1>7, <1>8, <1>9, <1>10 DEF Stacked, Holds
-----------------------------------------------------------------------------
(* Frames, and who waits on them. *)

(* The frames of a process stay as long as nothing goes over them and what *)
(* its program expects is the same.                                        *)
LEMMA FramesStay ==
  ASSUME NEW p, NEW d \in Nat, Framed(p, d),
         d <= Len(stack'[p]), Len(stack'[p]) \in Nat,
         \A k \in 1 .. d : stack'[p][k] = stack[p][k],
         p # Idle => expected'[p] = expected[p]
  PROVE  Framed(p, d)'
<1>1. d \in 1 .. Len(stack[p]) /\ First(p) /\ \A k \in 2 .. d : Further(p, k)
  BY DEF Framed
<1>2. d >= 1 /\ 1 \in 1 .. d /\ d \in 1 .. Len(stack'[p])
  BY <1>1
<1>3. First(p)'
  BY <1>1, <1>2 DEF First, Holds
<1>4. ASSUME NEW k \in 2 .. d PROVE Further(p, k)'
  <2>1. k \in 1 .. d /\ k - 1 \in 1 .. d
    OBVIOUS
  <2>2. stack'[p][k] = stack[p][k] /\ stack'[p][k - 1] = stack[p][k - 1]
    BY <2>1
  <2>3. Further(p, k)
    BY <1>1
  <2>. QED
    BY <2>2, <2>3 DEF Further
<1>. QED
  BY <1>2, <1>3, <1>4 DEF Framed

(* Nor does a process that waits for the processor notice anything as long *)
(* as its context and its frames stay.                                     *)
LEMMA ResumableStays ==
  ASSUME Types, Types', NEW p \in Pids, Resumable(p),
         thread'[p].sp = thread[p].sp, thread'[p].ip = thread[p].ip,
         stack'[p] = stack[p], expected'[p] = expected[p]
  PROVE  Resumable(p)'
<1>1. p \in Threads
  BY DEF Threads
<1>2. thread[p].sp \in (Threads \cup {0}) \X Nat /\ stack[p] \in Seq(Stacked)
  BY <1>1 DEF Types, Context
<1>3. PICK d \in Nat : d = thread[p].sp[2]
  BY <1>2
<1>4. Framed(p, d) /\ thread[p].sp[1] = p /\ Len(stack[p]) \in Nat
  BY <1>2, <1>3 DEF Resumable, Leads
<1>5. d <= Len(stack[p])
  BY <1>3, <1>4 DEF Framed
<1>6. Framed(p, d)'
  BY <1>3, <1>4, <1>5, FramesStay
<1>7. Framed(p, thread[p].sp[2])'
  BY <1>3, <1>6 DEF Framed
<1>. QED
  BY <1>4, <1>7 DEF Resumable, Leads

LEMMA SuspendedStays ==
  ASSUME Types, Types', Suspended,
         current_process' = current_process, ready' = ready,
         \A p \in Threads : thread'[p].sp = thread[p].sp /\ thread'[p].ip = thread[p].ip,
         \A p \in Pids \ {current_process} :
            stack'[p] = stack[p] /\ expected'[p] = expected[p]
  PROVE  Suspended'
<1>1. ASSUME NEW i \in DOMAIN ready PROVE ready[i] # current_process /\ Resumable(ready[i])'
  <2>1. ready[i] \in Pids \ {current_process} /\ Resumable(ready[i])
    BY DEF Suspended, Types
  <2>2. ready[i] \in Threads
    BY <2>1 DEF Threads
  <2>3. PICK p \in Pids \ {current_process} : p = ready[i]
    BY <2>1
  <2>4. Resumable(p)'
    BY <2>1, <2>2, <2>3, ResumableStays
  <2>. QED
    BY <2>1, <2>3, <2>4 DEF Resumable, Leads
<1>2. Started' = Started
  BY DEF Started, Threads
<1>3. Idle \in Threads
  BY DEF Threads
<1>. QED
  BY <1>1, <1>2, <1>3 DEF Suspended

(* Which interrupts are being handled. *)
LEMMA WhatIsHandled ==
  /\ at # "isr_handler" => Handled = {}
  /\ \A irq \in (0 .. 15) \ {7} : Serving(32 + irq) => Handled = {irq}
  /\ \A n \in {14, 39, 128} : Serving(n) => Handled = {}
<1>1. \A irq \in 0 .. 15, other \in 0 .. 15 : 32 + irq = 32 + other => irq = other
  OBVIOUS
<1>2. \A irq \in (0 .. 15) \ {7} : 32 + irq \notin {14, 39, 128}
  OBVIOUS
<1>. QED
  BY <1>1, <1>2 DEF Handled, Serving

(* A system call is served on the first frame of its program's stack.      *)
LEMMA CallIsFirst ==
  ASSUME Types, Placed, at \in InKernel, Top.int_no = 128
  PROVE  /\ current_process \in Pids /\ rsp = <<current_process, 1>>
         /\ Top = stack[current_process][1] /\ Top.cs
         /\ Holds(Top, expected[current_process]) /\ Len(stack[current_process]) >= 1
         /\ Framed(current_process, 1)
<1>. DEFINE d == rsp[2]
            c == current_process
<1>1. rsp \in (Threads \cup {0}) \X Nat /\ c \in Threads
  BY DEF Types
<1>2. rsp[1] = c /\ Framed(c, d)
  BY DEF Placed
<1>3. rsp = <<c, d>> /\ d \in Nat /\ Top = stack[c][d]
  BY <1>1, <1>2 DEF Top
<1>4. d \in 1 .. Len(stack[c]) /\ First(c) /\ \A k \in 2 .. d : Further(c, k)
  BY <1>2 DEF Framed
<1>5. Len(stack[c]) \in Nat
  BY <1>1 DEF Types
<1>6. d = 1
  <2>. SUFFICES ASSUME d # 1 PROVE FALSE
    OBVIOUS
  <2>1. d \in 2 .. d
    BY <1>3, <1>4, <1>5
  <2>. QED
    BY <1>3, <1>4, <2>1 DEF Further
<1>7. c # Idle
  BY <1>3, <1>4, <1>6 DEF First
<1>8. c \in Pids
  BY <1>1, <1>7 DEF Threads
<1>. QED
  BY <1>2, <1>3, <1>4, <1>5, <1>6, <1>7, <1>8 DEF First
-----------------------------------------------------------------------------
(* Switches. *)

(* What the queue and the contexts must be for a switch, and what is to be *)
(* kept about r15.                                                         *)
QueueLeads(q, th) ==
    /\ \A i, j \in DOMAIN q : q[i] = q[j] => i = j
    /\ \A i \in DOMAIN q : Leads(th[q[i]], q[i])
    /\ th[Idle].sp = <<Idle, 0>> /\ th[Idle].ip = "_idle"
    /\ \A p \in Threads : th[p].page_directory.of = p
    /\ ~uses_r15 => \A p \in Threads : th[p].saved4 = Word(0) /\ th[p].page_directory.low = 0

(* Frames and contexts that nothing touches stay as they are. *)
LEMMA LeadsStays ==
  ASSUME NEW t \in Context, NEW p \in Pids, Leads(t, p), stack' = stack, expected' = expected
  PROVE  Leads(t, p)'
BY DEF Leads, Framed, First, Further, Holds

(* A switch to a queue of processes with good contexts. *)
LEMMA SwitchLeads ==
  ASSUME ContextAssumption, Types, NothingInR15,
         NEW q \in Seq(Pids), NEW th \in [Threads -> Context], switch_next(q, th),
         QueueLeads(q, th),
         stack' = stack, expected' = expected, uses_r15' = uses_r15
  PROVE  /\ Types' /\ Placed' /\ Suspended' /\ Directories' /\ NothingInR15'
         /\ at' # "isr_handler" /\ interrupts' = FALSE
<1>1. PICK next : next = IF q = <<>> THEN Idle ELSE Head(q)
  OBVIOUS
<1>2. PICK rest : rest = IF q = <<>> THEN <<>> ELSE Tail(q)
  OBVIOUS
<1>3. /\ current_process' = next /\ ready' = rest /\ thread' = th /\ kernel_stack' = next
      /\ current_pml' = th[next].page_directory /\ reg' = Restored(th[next])
      /\ rsp' = th[next].sp /\ at' = th[next].ip /\ interrupts' = FALSE
  BY <1>1, <1>2 DEF switch_next
<1>4. /\ \A i, j \in DOMAIN q : q[i] = q[j] => i = j
      /\ \A i \in DOMAIN q : Leads(th[q[i]], q[i])
      /\ th[Idle].sp = <<Idle, 0>> /\ th[Idle].ip = "_idle"
      /\ \A p \in Threads : th[p].page_directory.of = p
      /\ ~uses_r15 => \A p \in Threads : th[p].saved4 = Word(0) /\ th[p].page_directory.low = 0
  BY DEF QueueLeads
<1>5. Pids \subseteq Threads /\ Idle \in Threads /\ Idle \notin Pids
  BY ContextAssumption DEF Threads, Pids, Idle
<1>6. /\ rest \in Seq(Pids) /\ \A i \in DOMAIN rest : i + 1 \in DOMAIN q /\ rest[i] = q[i + 1]
      /\ next = Idle \/ (next \in Pids /\ 1 \in DOMAIN q /\ next = q[1])
  <2>1. CASE q = <<>>
    BY <2>1, <1>1, <1>2
  <2>2. CASE q # <<>>
    <3>1. next = q[1] /\ next \in Pids /\ rest = Tail(q)
      BY <2>2, <1>1, <1>2
    <3>2. /\ Len(q) \in Nat /\ Len(q) >= 1 /\ rest \in Seq(Pids) /\ Len(rest) = Len(q) - 1
          /\ \A i \in 1 .. Len(rest) : rest[i] = q[i + 1]
      BY <2>2, <3>1
    <3>3. DOMAIN q = 1 .. Len(q) /\ DOMAIN rest = 1 .. Len(rest)
      BY <3>2
    <3>. QED
      BY <3>1, <3>2, <3>3
  <2>. QED
    BY <2>1, <2>2
<1>7. next \in Threads /\ th[next] \in Context
  BY <1>5, <1>6
<1>8. next \in Pids => Leads(th[next], next)
  BY <1>4, <1>5, <1>6
<1>9. next = Idle \/ next \in Pids
  BY <1>6
<1>10. Types'
  <2>1. Restored(th[next]) \in Files
    <3>1. th[next].saved \in [Saved -> Words] /\ th[next].saved4 \in Words
      BY <1>7 DEF Context
    <3>2. Word(1) \in Words /\ Scratch \in Words
      BY DEF Words, Word, Scratch
    <3>. QED
      BY <3>1, <3>2 DEF Restored, Files
  <2>2. /\ th[next].page_directory \in Directory /\ th[next].sp \in (Threads \cup {0}) \X Nat
    BY <1>7 DEF Context
  <2>3. th[next].ip \in Places
    BY <1>4, <1>8, <1>9 DEF Leads, Places
  <2>. QED
    BY <1>3, <1>5, <1>6, <1>7, <2>1, <2>2, <2>3 DEF Types
<1>11. Placed'
  <2>1. CASE next = Idle
    BY <1>3, <1>4, <2>1 DEF Placed, InProcess, InKernel
  <2>2. CASE next \in Pids
    <3>1. Leads(th[next], next)'
      BY <1>7, <1>8, <2>2, LeadsStays
    <3>2. th[next].ip \in {"switch_task", "resume_user"}
      BY <1>8, <2>2 DEF Leads
    <3>3. (rsp[1] = next /\ Framed(next, rsp[2]))'
      BY <3>1, <1>3 DEF Leads, Framed
    <3>4. at' = "switch_task" => Top'.int_no \in {32, 128}
      BY <3>1, <1>3 DEF Leads, Top
    <3>5. at' = "resume_user" => rsp'[2] = 1
      BY <3>1, <1>3 DEF Leads
    <3>. QED
      BY <1>3, <1>5, <2>2, <3>2, <3>3, <3>4, <3>5 DEF Placed, InProcess, InKernel
  <2>. QED
    BY <1>9, <2>1, <2>2
<1>12. Suspended'
  <2>1. ASSUME NEW i \in DOMAIN rest, NEW j \in DOMAIN rest, rest[i] = rest[j] PROVE i = j
    BY <1>4, <1>6, <2>1
  <2>2. ASSUME NEW i \in DOMAIN rest PROVE rest[i] # next /\ Resumable(rest[i])'
    <3>1. i + 1 \in DOMAIN q /\ rest[i] = q[i + 1] /\ i \in Nat /\ i >= 1 /\ rest[i] \in Pids
      BY <1>6
    <3>2. rest[i] # next
      BY <3>1, <1>4, <1>5, <1>6
    <3>3. PICK p \in Pids : p = rest[i]
      BY <3>1
    <3>4. Leads(th[p], p) /\ th[p] \in Context
      BY <3>1, <3>3, <1>4, <1>5
    <3>5. Leads(th[p], p)'
      BY <3>4, LeadsStays
    <3>. QED
      BY <3>2, <3>3, <3>5, <1>3 DEF Resumable
  <2>3. next \in Started' \cup {Idle}
    BY <1>3, <1>8, <1>9 DEF Started, Leads
  <2>. QED
    BY <1>3, <1>4, <2>1, <2>2, <2>3 DEF Suspended
<1>13. Directories'
  BY <1>3, <1>4, <1>7 DEF Directories
<1>14. NothingInR15'
  <2>. SUFFICES ASSUME ~uses_r15 PROVE NothingInR15'
    BY DEF NothingInR15
  <2>1. reg'["r15"] = th[next].saved4
    BY <1>3, NamedRegisters DEF Restored
  <2>. QED
    BY <1>3, <1>4, <1>7, <2>1 DEF NothingInR15
<1>15. at' # "isr_handler"
  BY <1>3, <1>4, <1>8, <1>9 DEF Leads
<1>. QED
  BY <1>3, <1>10, <1>11, <1>12, <1>13, <1>14, <1>15
-----------------------------------------------------------------------------
(* Entries into the kernel. *)

(* A frame goes on top of those that are there, or becomes the first.      *)
LEMMA EntryLeads ==
  ASSUME ContextAssumption, Types, Placed, Suspended, Directories, NothingInR15,
         NEW n \in Nat, isr_common(n),
         \/ at \in {"user", "_idle", "isr_return"} \/ Serving(128),
         n = 128 => at = "user",
         expected' = expected, uses_r15' = uses_r15
  PROVE  /\ Types' /\ Placed' /\ Suspended' /\ Directories' /\ NothingInR15'
         /\ Serving(n)'
<1>1. PICK p, d : <<p, d>> = IF at = "user" THEN <<kernel_stack, 0>> ELSE rsp
  BY DEF Types
<1>2. PICK f : f = Frame(n)
  OBVIOUS
<1>3. /\ stack' = [stack EXCEPT ![p] = Append(SubSeq(@, 1, d), f)]
      /\ rsp' = <<p, d + 1>> /\ at' = "isr_handler" /\ interrupts' = FALSE
      /\ reg' = reg /\ current_process' = current_process /\ ready' = ready
      /\ thread' = thread /\ kernel_stack' = kernel_stack /\ current_pml' = current_pml
  <2>. DEFINE below == IF at = "user" THEN <<kernel_stack, 0>> ELSE rsp
  <2>1. below[1] = p /\ below[2] = d
    BY <1>1
  <2>2. stack' = [stack EXCEPT ![below[1]] = Append(SubSeq(@, 1, below[2]), Frame(n))]
        /\ rsp' = <<below[1], below[2] + 1>>
    BY DEF isr_common
  <2>. HIDE DEF below
  <2>3. stack' = [stack EXCEPT ![p] = Append(SubSeq(@, 1, d), f)] /\ rsp' = <<p, d + 1>>
    BY <2>1, <2>2, <1>2
  <2>. QED
    BY <2>3 DEF isr_common, switching
<1>4. /\ f \in Stacked /\ Holds(f, reg) /\ f.int_no = n /\ f.cs = (at = "user")
      /\ f.rip = at /\ f.rflags = interrupts
  BY <1>2, FrameHolds
<1>5. Pids \subseteq Threads /\ Idle \in Threads /\ Idle \notin Pids
  BY ContextAssumption DEF Threads, Pids, Idle
<1>6. /\ p = current_process /\ p \in Threads
      /\ \/ at = "user" /\ d = 0 /\ p \in Pids /\ reg = expected[p]
         \/ at = "_idle" /\ d = 0 /\ p = Idle
         \/ at \in {"isr_return", "isr_handler"} /\ Framed(p, d) /\ d \in Nat \ {0}
            /\ rsp = <<p, d>>
  <2>1. current_process \in Threads /\ rsp \in (Threads \cup {0}) \X Nat
    BY DEF Types
  <2>2. CASE at = "user"
    <3>1. kernel_stack = current_process /\ current_process \in Pids /\ reg = expected[current_process]
      BY <2>2 DEF Placed, InProcess
    <3>. QED
      BY <1>1, <2>1, <2>2, <3>1
  <2>3. CASE at = "_idle"
    <3>1. current_process = Idle /\ rsp = <<Idle, 0>>
      BY <2>3 DEF Placed
    <3>. QED
      BY <1>1, <2>1, <2>3, <3>1
  <2>4. CASE at \in {"isr_return", "isr_handler"}
    <3>1. rsp[1] = current_process /\ Framed(current_process, rsp[2])
      BY <2>4 DEF Placed, InKernel
    <3>2. rsp = <<p, d>>
      BY <1>1, <2>4
    <3>3. p = current_process /\ Framed(p, d) /\ d \in Nat
      BY <2>1, <3>1, <3>2
    <3>4. d # 0
      BY <3>3 DEF Framed
    <3>. QED
      BY <2>1, <2>4, <3>2, <3>3, <3>4
  <2>. QED
    BY <2>2, <2>3, <2>4 DEF Serving
<1>7. stack \in [Threads -> Seq(Stacked)] /\ stack[p] \in Seq(Stacked) /\ Len(stack[p]) \in Nat
  BY <1>6 DEF Types
<1>8. d \in Nat /\ d <= Len(stack[p])
  BY <1>6, <1>7 DEF Framed
<1>9. PICK s : s = Append(SubSeq(stack[p], 1, d), f)
  OBVIOUS
<1>10. /\ s \in Seq(Stacked) /\ Len(s) = d + 1 /\ s[d + 1] = f
       /\ \A k \in 1 .. d : s[k] = stack[p][k]
  <2>. DEFINE s0 == SubSeq(stack[p], 1, d)
  <2>1. \A k \in 1 .. d : stack[p][k] \in Stacked
    BY <1>7, <1>8
  <2>2. s0 \in Seq(Stacked) /\ Len(s0) = d /\ \A k \in 1 .. d : s0[k] = stack[p][k]
    BY <1>8, <2>1, SubSeqProperties
  <2>. HIDE DEF s0
  <2>3. s = Append(s0, f)
    BY <1>9 DEF s0
  <2>. QED
    BY <1>4, <1>8, <2>2, <2>3, AppendProperties
<1>11. stack'[p] = s /\ \A q \in Threads \ {p} : stack'[q] = stack[q]
  BY <1>3, <1>6, <1>7, <1>9
<1>12. Types'
  <2>1. stack' \in [Threads -> Seq(Stacked)]
    BY <1>3, <1>6, <1>7, <1>9, <1>10
  <2>2. rsp' \in (Threads \cup {0}) \X Nat
    BY <1>3, <1>6, <1>8
  <2>. QED
    BY <1>3, <2>1, <2>2 DEF Types, Places
<1>13. Framed(p, d + 1)'
  <2>1. CASE d = 0
    <3>1. stack'[p][1] = f
      BY <1>10, <1>11, <2>1
    <3>2. First(p)'
      <4>1. CASE at = "user"
        BY <3>1, <4>1, <1>4, <1>5, <1>6 DEF First, Holds
      <4>2. CASE at = "_idle"
        BY <3>1, <4>2, <1>4, <1>6 DEF First
      <4>. QED
        BY <4>1, <4>2, <1>6, <2>1
    <3>3. d + 1 \in 1 .. Len(stack'[p]) /\ d + 1 = 1 /\ 2 .. 1 = {}
      BY <1>10, <1>11, <2>1
    <3>. QED
      BY <3>2, <3>3 DEF Framed
  <2>2. CASE d # 0
    <3>1. Framed(p, d) /\ rsp = <<p, d>> /\ at \in {"isr_return", "isr_handler"}
      BY <1>6, <2>2
    <3>2. Framed(p, d)'
      BY <3>1, <1>8, <1>10, <1>11, FramesStay
    <3>3. stack'[p][d + 1] = f /\ stack'[p][d] = stack[p][d] /\ (d + 1) - 1 = d
      BY <1>8, <1>10, <1>11, <2>2
    <3>4. at = "isr_handler" => ~interrupts /\ stack[p][d].int_no = 128
      BY <3>1 DEF Placed, Serving, Top
    <3>5. Further(p, d + 1)'
      <4>1. n # 128 /\ at # "user"
        BY <3>1
      <4>2. ~f.cs /\ f.int_no # 128 /\ f.rip = at /\ f.rflags = interrupts
        BY <4>1, <1>4
      <4>3. stack'[p][(d + 1) - 1] = stack[p][d]
        BY <3>3
      <4>4. CASE at = "isr_return"
        BY <3>3, <4>2, <4>4 DEF Further
      <4>5. CASE at = "isr_handler"
        BY <3>3, <3>4, <4>2, <4>3, <4>5 DEF Further
      <4>. QED
        BY <3>1, <4>4, <4>5
    <3>6. \A k \in 2 .. d + 1 : k \in 2 .. d \/ k = d + 1
      BY <1>8
    <3>7. d + 1 \in 1 .. Len(stack'[p])
      BY <1>8, <1>10, <1>11
    <3>. QED
      BY <3>2, <3>5, <3>6, <3>7 DEF Framed
  <2>. QED
    BY <2>1, <2>2
<1>14. Placed'
  <2>1. (rsp[1] = current_process /\ Framed(current_process, rsp[2]))'
    BY <1>3, <1>6, <1>13 DEF Framed
  <2>2. kernel_stack = current_process
    BY DEF Placed, Serving
  <2>. QED
    BY <1>3, <2>1, <2>2 DEF Placed, InProcess
<1>15. Suspended'
  BY <1>3, <1>5, <1>6, <1>11, <1>12, SuspendedStays
<1>16. Directories'
  BY <1>3 DEF Directories
<1>17. NothingInR15'
  <2>. SUFFICES ASSUME ~uses_r15 PROVE NothingInR15'
    BY DEF NothingInR15
  <2>1. f.regs[Field("r15")] = Word(0)
    BY <1>4, NamedRegisters DEF Holds, NothingInR15
  <2>2. ASSUME NEW q \in Threads, NEW k \in 1 .. Len(stack'[q])
        PROVE  stack'[q][k].regs[Field("r15")] = Word(0)
    <3>1. CASE q = p
      <4>1. k = d + 1 \/ k \in 1 .. d
        BY <3>1, <1>8, <1>10, <1>11
      <4>2. CASE k = d + 1
        BY <2>1, <3>1, <4>2, <1>10, <1>11
      <4>3. CASE k \in 1 .. d
        <5>1. stack'[q][k] = stack[p][k] /\ k \in 1 .. Len(stack[p])
          BY <3>1, <4>3, <1>7, <1>8, <1>10, <1>11
        <5>. QED
          BY <5>1, <1>6 DEF NothingInR15
      <4>. QED
        BY <4>1, <4>2, <4>3
    <3>2. CASE q # p
      BY <3>2, <1>11 DEF NothingInR15
    <3>. QED
      BY <3>1, <3>2
  <2>. QED
    BY <1>3, <2>2 DEF NothingInR15
<1>18. Serving(n)'
  <2>1. rsp'[1] = p /\ rsp'[2] = d + 1
    BY <1>3
  <2>2. Top' = f
    BY <2>1, <1>10, <1>11 DEF Top
  <2>. QED
    BY <2>2, <1>3, <1>4 DEF Serving
<1>. QED
  BY <1>12, <1>14, <1>15, <1>16, <1>17, <1>18
-----------------------------------------------------------------------------
(* Returns from the kernel. *)

(* iretq leads to where the frame came from, with the registers in it.     *)
LEMMA ReturnLeads ==
  ASSUME ContextAssumption, Types, Placed, Suspended, Directories, NothingInR15,
         NEW order \in {Popped, Resumed}, Pop(order), at \in {"isr_return", "resume_user"}
  PROVE  /\ Types' /\ Placed' /\ Suspended' /\ Directories' /\ NothingInR15'
         /\ at' = "isr_handler" => Serving(128)'
<1>1. PICK p, d : <<p, d>> = rsp
  BY DEF Types
<1>2. PICK f : f = stack[p][d]
  OBVIOUS
<1>3. Top = f
  BY <1>1, <1>2 DEF Top
<1>4. /\ reg' = [r \in Regs |-> f.regs[Field(r)]]
      /\ at' = (IF f.cs THEN "user" ELSE f.rip) /\ interrupts' = f.rflags
      /\ rsp' = <<p, d - 1>>
      /\ stack' = [stack EXCEPT ![p] = SubSeq(@, 1, d - 1)]
      /\ current_process' = current_process /\ ready' = ready
      /\ thread' = thread /\ kernel_stack' = kernel_stack /\ current_pml' = current_pml
      /\ expected' = expected /\ uses_r15' = uses_r15
  <2>1. \A r \in Regs : Field(r) = CHOOSE i \in DOMAIN order : order[i] = r
    BY FieldOfRegister
  <2>2. rsp[1] = p /\ rsp[2] = d
    BY <1>1
  <2>3. reg' = [r \in Regs |-> f.regs[CHOOSE i \in DOMAIN order : order[i] = r]]
    BY <1>3 DEF Pop
  <2>4. reg' = [r \in Regs |-> f.regs[Field(r)]]
    BY <2>1, <2>3
  <2>5. rsp' = <<p, d - 1>> /\ stack' = [stack EXCEPT ![p] = SubSeq(@, 1, d - 1)]
    BY <2>2 DEF Pop
  <2>. QED
    BY <1>3, <2>4, <2>5 DEF Pop, switching, programs
<1>5. Pids \subseteq Threads /\ Idle \in Threads /\ Idle \notin Pids
  BY ContextAssumption DEF Threads, Pids, Idle
<1>6. /\ p = current_process /\ p \in Threads /\ Framed(p, d) /\ kernel_stack = p
      /\ at = "resume_user" => d = 1
  BY <1>1 DEF Placed, InKernel, Types
<1>7. /\ stack \in [Threads -> Seq(Stacked)] /\ stack[p] \in Seq(Stacked)
      /\ Len(stack[p]) \in Nat /\ d \in Nat
  BY <1>1, <1>6 DEF Types
<1>8. d \in 1 .. Len(stack[p]) /\ First(p) /\ \A k \in 2 .. d : Further(p, k)
  BY <1>6 DEF Framed
<1>9. f \in Stacked
  BY <1>2, <1>7, <1>8
<1>10. f.cs \in BOOLEAN /\ f.rip \in Places /\ f.rflags \in BOOLEAN
       /\ f.regs \in [1 .. 15 -> Words]
  BY <1>9, PlacesOfRegisters DEF Stacked
<1>11. PICK s : s = SubSeq(stack[p], 1, d - 1)
  OBVIOUS
<1>12. /\ s \in Seq(Stacked) /\ Len(s) = d - 1
       /\ \A k \in 1 .. d - 1 : s[k] = stack[p][k] /\ k \in 1 .. Len(stack[p])
  <2>1. \A k \in 1 .. d - 1 : k \in 1 .. Len(stack[p]) /\ stack[p][k] \in Stacked
    BY <1>7, <1>8
  <2>2. d - 1 \in Int /\ 1 \in Int
    BY <1>7
  <2>3. \A k \in 1 .. (d - 1) - 1 + 1 : SubSeq(stack[p], 1, d - 1)[k] = stack[p][1 + k - 1]
    BY <2>1, <2>2, SubSeqProperties
  <2>4. \A k \in 1 .. d - 1 : s[k] = stack[p][k]
    BY <1>7, <1>11, <2>3
  <2>5. s \in Seq(Stacked) /\ Len(s) = IF 1 <= d - 1 THEN (d - 1) - 1 + 1 ELSE 0
    BY <1>11, <2>1, <2>2, SubSeqProperties
  <2>. QED
    BY <1>7, <1>8, <2>1, <2>4, <2>5
<1>13. stack'[p] = s /\ \A q \in Threads \ {p} : stack'[q] = stack[q]
  BY <1>4, <1>6, <1>7, <1>11
<1>14. reg' \in Files /\ \A r \in Regs : reg'[r] = f.regs[Field(r)]
  BY <1>4, <1>10, FieldOfRegister DEF Files
<1>15. Types'
  <2>1. stack' \in [Threads -> Seq(Stacked)]
    BY <1>4, <1>6, <1>7, <1>11, <1>12
  <2>2. rsp' \in (Threads \cup {0}) \X Nat
    BY <1>4, <1>6, <1>7, <1>8
  <2>. QED
    BY <1>4, <1>10, <1>14, <2>1, <2>2 DEF Types, Places
<1>16. \/ d = 1 /\ p \in Pids /\ at' = "user" /\ reg' = expected[p]
       \/ d = 1 /\ p = Idle /\ at' = "_idle"
       \/ d >= 2 /\ at' = "isr_return"
       \/ d >= 2 /\ at' = "isr_handler" /\ ~interrupts' /\ stack[p][d - 1].int_no = 128
  <2>1. CASE d = 1
    <3>1. CASE p = Idle
      BY <1>2, <1>4, <1>8, <2>1, <3>1 DEF First
    <3>2. CASE p # Idle
      <4>1. p \in Pids
        BY <3>2, <1>6 DEF Threads
      <4>2. f.cs /\ Holds(f, expected[p])
        BY <1>2, <1>8, <2>1, <3>2 DEF First
      <4>3. reg' \in [Regs -> Words] /\ expected[p] \in [Regs -> Words]
        BY <1>14, <4>1 DEF Types, Files
      <4>4. \A r \in Regs : reg'[r] = expected[p][r]
        BY <1>14, <4>2 DEF Holds
      <4>5. reg' = expected[p]
        BY <4>3, <4>4
      <4>. QED
        BY <1>4, <2>1, <4>1, <4>2, <4>5
    <3>. QED
      BY <3>1, <3>2
  <2>2. CASE d # 1
    <3>1. d >= 2 /\ d \in 2 .. d
      BY <1>7, <1>8, <2>2
    <3>2. Further(p, d)
      BY <1>8, <3>1
    <3>. QED
      BY <1>2, <1>4, <3>1, <3>2 DEF Further
  <2>. QED
    BY <2>1, <2>2
<1>17. d >= 2 => Framed(p, d - 1)'
  <2>. SUFFICES ASSUME d >= 2 PROVE Framed(p, d - 1)'
    OBVIOUS
  <2>1. d - 1 \in 1 .. Len(stack[p]) /\ d - 1 \in Nat
    BY <1>7, <1>8
  <2>2. \A k \in 2 .. d - 1 : Further(p, k)
    BY <1>7, <1>8
  <2>3. Framed(p, d - 1)
    BY <2>1, <2>2, <1>8 DEF Framed
  <2>4. d - 1 <= Len(stack'[p]) /\ Len(stack'[p]) \in Nat
        /\ \A k \in 1 .. d - 1 : stack'[p][k] = stack[p][k]
    BY <2>1, <1>12, <1>13
  <2>5. expected'[p] = expected[p]
    BY <1>4
  <2>. QED
    BY <2>1, <2>3, <2>4, <2>5, FramesStay
<1>18. Placed' /\ (at' = "isr_handler" => Serving(128)')
  <2>1. CASE d = 1
    <3>1. rsp' = <<p, 0>>
      BY <1>4, <2>1
    <3>. QED
      BY <1>4, <1>5, <1>6, <1>16, <2>1, <3>1 DEF Placed, InKernel, InProcess
  <2>2. CASE d >= 2
    <3>1. Framed(p, d - 1)' /\ rsp' = <<p, d - 1>>
      BY <1>4, <1>17, <2>2
    <3>2. (rsp[1] = current_process /\ Framed(current_process, rsp[2]))'
      BY <1>4, <1>6, <3>1 DEF Framed
    <3>3. Top' = stack[p][d - 1]
      BY <1>7, <1>12, <1>13, <2>2, <3>1 DEF Top
    <3>. QED
      BY <1>4, <1>6, <1>16, <2>2, <3>2, <3>3 DEF Placed, InKernel, InProcess, Serving
  <2>. QED
    BY <1>7, <1>8, <2>1, <2>2
<1>19. Suspended'
  BY <1>4, <1>5, <1>6, <1>13, <1>15, SuspendedStays
<1>20. Directories'
  BY <1>4 DEF Directories
<1>21. NothingInR15'
  <2>. SUFFICES ASSUME ~uses_r15 PROVE NothingInR15'
    BY <1>4 DEF NothingInR15
  <2>1. reg'["r15"] = Word(0)
    BY <1>2, <1>6, <1>8, <1>14, NamedRegisters DEF NothingInR15
  <2>2. ASSUME NEW q \in Threads, NEW k \in 1 .. Len(stack'[q])
        PROVE  stack'[q][k].regs[Field("r15")] = Word(0)
    <3>1. CASE q = p
      <4>1. stack'[q][k] = stack[p][k] /\ k \in 1 .. Len(stack[p])
        BY <3>1, <1>12, <1>13
      <4>. QED
        BY <4>1, <1>6 DEF NothingInR15
    <3>2. CASE q # p
      BY <3>2, <1>13 DEF NothingInR15
    <3>. QED
      BY <3>1, <3>2
  <2>. QED
    BY <1>4, <2>1, <2>2 DEF NothingInR15
<1>. QED
  BY <1>15, <1>18, <1>19, <1>20, <1>21
-----------------------------------------------------------------------------
(* Answers of system calls. *)

(* What a call leaves in the registers. *)
LEMMA CallKeepsR15 ==
  ASSUME Types
  PROVE  Called(reg) \in Files /\ Called(reg)["r15"] = reg["r15"]
<1>1. reg \in [Regs -> Words] /\ Scratch \in Words
  BY DEF Types, Files, Words, Scratch, Word
<1>. QED
  BY <1>1, NamedRegisters DEF Called, Files

(* What save_context makes of a context. *)
LEMMA SavedContext ==
  ASSUME ContextAssumption, Types, NEW t \in Context
  PROVE  /\ save_context(t) \in Context
         /\ save_context(t).sp = rsp /\ save_context(t).ip = "switch_task"
         /\ save_context(t).page_directory.of = t.page_directory.of
         /\ t.saved4 = Word(0) /\ reg["r15"] = Word(0)
               => save_context(t).saved4 = Word(0) /\ save_context(t).page_directory.low = 0
<1>1. PICK r15 \in Words : r15 = reg["r15"]
  BY NamedRegisters DEF Types, Files
<1>2. PICK low \in Int : low = r15[WordBytes - 1]
  BY <1>1, ContextAssumption DEF Words, Byte
<1>3. PICK kept : kept = [i \in Byte |-> IF i = 0 THEN t.saved4[0] ELSE r15[i - 1]]
  OBVIOUS
<1>4. PICK regs : regs = [r \in Saved |-> reg[r]]
  OBVIOUS
<1>5. regs \in [Saved -> Words]
  BY <1>4, NamedRegisters DEF Types, Files
<1>6. t.saved4 \in Words /\ t.page_directory \in Directory
  BY DEF Context
<1>7. kept \in Words
  <2>1. 0 \in Byte /\ \A i \in Byte : i # 0 => i - 1 \in Byte
    BY ContextAssumption DEF Byte
  <2>. QED
    BY <1>1, <1>3, <1>6, <2>1 DEF Words
<1>8. save_context(t) = [t EXCEPT !.sp = rsp, !.ip = "switch_task", !.saved = regs,
                                  !.saved4 = kept, !.page_directory.low = low]
  BY <1>1, <1>2, <1>3, <1>4 DEF save_context
<1>9. rsp \in (Threads \cup {0}) \X Nat
  BY DEF Types
<1>10. /\ save_context(t) = [sp |-> rsp, ip |-> "switch_task", saved |-> regs, saved4 |-> kept,
                            page_directory |-> [t.page_directory EXCEPT !.low = low]]
       /\ [t.page_directory EXCEPT !.low = low] \in Directory
       /\ [t.page_directory EXCEPT !.low = low].of = t.page_directory.of
       /\ [t.page_directory EXCEPT !.low = low].low = low
  BY <1>6, <1>8 DEF Context, Directory
<1>11. save_context(t) \in Context
  BY <1>5, <1>7, <1>9, <1>10 DEF Context, Places
<1>12. ASSUME t.saved4 = Word(0), reg["r15"] = Word(0)
       PROVE  kept = Word(0) /\ low = 0
  <2>1. r15 = [i \in Byte |-> IF i = 0 THEN 0 ELSE 0] /\ t.saved4 = [i \in Byte |-> IF i = 0 THEN 0 ELSE 0]
    BY <1>1, <1>12 DEF Word
  <2>2. /\ 0 \in Byte /\ \A i \in Byte : i # 0 => i - 1 \in Byte
        /\ WordBytes - 1 \in Byte
    BY ContextAssumption DEF Byte
  <2>. QED
    BY <1>2, <1>3, <2>1, <2>2 DEF Word
<1>13. /\ save_context(t).sp = rsp /\ save_context(t).ip = "switch_task"
       /\ save_context(t).saved4 = kept
       /\ save_context(t).page_directory = [t.page_directory EXCEPT !.low = low]
  BY <1>10
<1>14. save_context(t).page_directory.of = t.page_directory.of
  BY <1>10, <1>13
<1>15. save_context(t).page_directory.low = low
  BY <1>10, <1>13
<1>. QED
  BY <1>11, <1>12, <1>13, <1>14, <1>15

(* A frame and the registers of a program with a new rax. *)
Answered(f, rval) == [f EXCEPT !.regs[Field("rax")] = rval]
WithRax(e, rval) == [e EXCEPT !["rax"] = rval]

(* The answer reaches rax and nothing else. *)
LEMMA AnswerInRax ==
  ASSUME NEW f \in Stacked, NEW e \in Files, Holds(f, e), NEW rval \in Words
  PROVE  /\ Answered(f, rval) \in Stacked /\ WithRax(e, rval) \in Files
         /\ Holds(Answered(f, rval), WithRax(e, rval))
         /\ Answered(f, rval).cs = f.cs /\ Answered(f, rval).int_no = f.int_no
         /\ Answered(f, rval).regs[Field("r15")] = f.regs[Field("r15")]
         /\ WithRax(e, rval)["r15"] = e["r15"]
<1>1. PICK x : x = Field("rax")
  OBVIOUS
<1>2. x \in 1 .. 15
  BY <1>1, FieldOfRegister, NamedRegisters
<1>3. f.regs \in [1 .. 15 -> Words]
  BY PlacesOfRegisters DEF Stacked
<1>4. PICK regs : regs = [f.regs EXCEPT ![x] = rval]
  OBVIOUS
<1>5. regs \in [1 .. 15 -> Words] /\ regs[x] = rval /\ \A y \in 1 .. 15 : y # x => regs[y] = f.regs[y]
  BY <1>2, <1>3, <1>4
<1>6. Answered(f, rval) = [f EXCEPT !.regs = regs]
  BY <1>1, <1>4 DEF Answered
<1>7. /\ Answered(f, rval) \in Stacked /\ Answered(f, rval).regs = regs
      /\ Answered(f, rval).cs = f.cs /\ Answered(f, rval).int_no = f.int_no
  BY <1>5, <1>6, PlacesOfRegisters DEF Stacked
<1>8. /\ WithRax(e, rval) \in Files /\ WithRax(e, rval)["rax"] = rval
      /\ \A r \in Regs : r # "rax" => WithRax(e, rval)[r] = e[r]
  BY NamedRegisters DEF WithRax, Files
<1>9. \A r \in Regs : Field(r) \in 1 .. 15 /\ (r # "rax" => Field(r) # x)
  BY <1>1, FieldOfRegister, NamedRegisters
<1>10. \A r \in Regs : regs[Field(r)] = WithRax(e, rval)[r]
  BY <1>1, <1>5, <1>8, <1>9 DEF Holds
<1>11. Holds(Answered(f, rval), WithRax(e, rval))
  BY <1>7, <1>10 DEF Holds
<1>12. "r15" \in Regs /\ "r15" # "rax"
  BY NamedRegisters
<1>. QED
  BY <1>5, <1>7, <1>8, <1>9, <1>11, <1>12

(* A system call that answers goes on with its own frame. *)
LEMMA AnswerLeads ==
  ASSUME ContextAssumption, Types, Placed, Suspended, Directories, NothingInR15,
         at \in InKernel, Top.int_no = 128,
         NEW rval \in Words, Answer(rval), UNCHANGED switching
  PROVE  /\ Types' /\ Placed' /\ Suspended' /\ Directories' /\ NothingInR15'
         /\ at' = "isr_return" /\ in_service' = in_service
<1>1. PICK c \in Pids : c = current_process
  BY CallIsFirst
<1>2. /\ rsp = <<c, 1>> /\ Top = stack[c][1] /\ Top.cs /\ Holds(Top, expected[c])
      /\ Len(stack[c]) >= 1
  BY <1>1, CallIsFirst
<1>3. PICK f : f = stack[c][1]
  OBVIOUS
<1>4. PICK e : e = expected[c]
  OBVIOUS
<1>5. Pids \subseteq Threads /\ c \in Threads
  BY <1>1 DEF Threads
<1>6. /\ stack \in [Threads -> Seq(Stacked)] /\ expected \in [Pids -> Files]
      /\ stack[c] \in Seq(Stacked) /\ e \in Files
  BY <1>1, <1>4, <1>5 DEF Types
<1>7. f \in Stacked /\ Len(stack[c]) \in Nat /\ 1 \in 1 .. Len(stack[c])
  BY <1>2, <1>3, <1>6
<1>8. Holds(f, e) /\ f.cs
  BY <1>2, <1>3, <1>4
<1>9. /\ stack' = [stack EXCEPT ![c] = [stack[c] EXCEPT ![1] = Answered(f, rval)]]
      /\ expected' = [expected EXCEPT ![c] = WithRax(e, rval)]
  <2>1. rsp[1] = c /\ rsp[2] = 1
    BY <1>2
  <2>2. stack' = [stack EXCEPT ![c][1].regs[Field("rax")] = rval]
    BY <2>1 DEF Answer
  <2>3. expected' = [expected EXCEPT ![c]["rax"] = rval]
    BY <1>1 DEF Answer
  <2>. QED
    BY <2>2, <2>3, <1>3, <1>4 DEF Answered, WithRax
<1>10. /\ at' = "isr_return" /\ interrupts' = TRUE /\ reg' = Called(reg) /\ rsp' = rsp
       /\ uses_r15' = uses_r15 /\ in_service' = in_service
       /\ current_process' = current_process /\ ready' = ready /\ thread' = thread
       /\ kernel_stack' = kernel_stack /\ current_pml' = current_pml
  BY DEF Answer, switching
<1>11. PICK g : g = Answered(f, rval)
  OBVIOUS
<1>12. PICK h : h = WithRax(e, rval)
  OBVIOUS
<1>13. /\ g \in Stacked /\ h \in Files /\ Holds(g, h) /\ g.cs
       /\ g.int_no = f.int_no /\ g.regs[Field("r15")] = f.regs[Field("r15")]
       /\ h["r15"] = e["r15"]
  BY <1>6, <1>7, <1>8, <1>11, <1>12, AnswerInRax
<1>14. /\ stack' = [stack EXCEPT ![c] = [stack[c] EXCEPT ![1] = g]]
       /\ expected' = [expected EXCEPT ![c] = h]
  BY <1>9, <1>11, <1>12
<1>15. PICK s : s = [stack[c] EXCEPT ![1] = g]
  OBVIOUS
<1>16. /\ s \in Seq(Stacked) /\ Len(s) = Len(stack[c]) /\ s[1] = g
       /\ \A k \in 1 .. Len(s) : k # 1 => s[k] = stack[c][k]
  BY <1>6, <1>7, <1>13, <1>15
<1>17. /\ stack'[c] = s /\ \A q \in Threads \ {c} : stack'[q] = stack[q]
       /\ expected'[c] = h /\ \A q \in Pids \ {c} : expected'[q] = expected[q]
       /\ stack' \in [Threads -> Seq(Stacked)] /\ expected' \in [Pids -> Files]
  BY <1>1, <1>5, <1>6, <1>13, <1>14, <1>15, <1>16
<1>18. Types'
  BY <1>10, <1>17, CallKeepsR15 DEF Types, Places
<1>19. Framed(c, 1)'
  <2>1. c # Idle
    BY <1>1, ContextAssumption DEF Pids, Idle
  <2>2. First(c)'
    BY <2>1, <1>13, <1>16, <1>17 DEF First, Holds
  <2>3. 1 \in 1 .. Len(stack'[c]) /\ 2 .. 1 = {}
    BY <1>7, <1>16, <1>17
  <2>. QED
    BY <2>2, <2>3 DEF Framed
<1>20. Placed'
  <2>1. (rsp[1] = current_process /\ Framed(current_process, rsp[2]))'
    BY <1>1, <1>2, <1>10, <1>19 DEF Framed
  <2>2. kernel_stack = current_process
    BY DEF Placed, InKernel
  <2>. QED
    BY <1>10, <2>1, <2>2 DEF Placed, InProcess
<1>21. Suspended'
  BY <1>1, <1>5, <1>10, <1>17, <1>18, SuspendedStays
<1>22. Directories'
  BY <1>10 DEF Directories
<1>23. NothingInR15'
  <2>. SUFFICES ASSUME ~uses_r15 PROVE NothingInR15'
    BY <1>10 DEF NothingInR15
  <2>1. ASSUME NEW q \in Threads, NEW k \in 1 .. Len(stack'[q])
        PROVE  stack'[q][k].regs[Field("r15")] = Word(0)
    <3>1. CASE q = c
      <4>1. k \in 1 .. Len(stack[c]) /\ stack[c][k].regs[Field("r15")] = Word(0)
        BY <3>1, <1>5, <1>16, <1>17 DEF NothingInR15
      <4>. QED
        BY <3>1, <4>1, <1>3, <1>13, <1>16, <1>17
    <3>2. CASE q # c
      BY <3>2, <1>17 DEF NothingInR15
    <3>. QED
      BY <3>1, <3>2
  <2>2. \A q \in Pids : expected'[q]["r15"] = Word(0)
    BY <1>4, <1>13, <1>17 DEF NothingInR15
  <2>. QED
    BY <1>10, <2>1, <2>2, CallKeepsR15 DEF NothingInR15
<1>. QED
  BY <1>10, <1>18, <1>20, <1>21, <1>22, <1>23

(* The child of a fork starts on a copy of its parent's frame. *)
LEMMA ForkLeads ==
  ASSUME ContextAssumption, Types, Placed, Suspended, Directories, NothingInR15, Fork
  PROVE  /\ Types' /\ Placed' /\ Suspended' /\ Directories' /\ NothingInR15'
         /\ at' = "isr_return" /\ in_service' = in_service
<1>1. at = "isr_handler" /\ Top.int_no = 128
  BY DEF Fork, Serving
<1>2. PICK c \in Pids : c = current_process
  BY <1>1, CallIsFirst DEF InKernel
<1>3. /\ rsp = <<c, 1>> /\ Top = stack[c][1] /\ Top.cs /\ Holds(Top, expected[c])
      /\ Len(stack[c]) >= 1
  BY <1>1, <1>2, CallIsFirst DEF InKernel
<1>4. PICK f : f = stack[c][1]
  OBVIOUS
<1>5. PICK e : e = expected[c]
  OBVIOUS
<1>6. PICK saved : saved = save_context(thread[c])
  OBVIOUS
<1>7. Pids \subseteq Threads /\ c \in Threads /\ Idle \in Threads /\ Idle \notin Pids
  BY ContextAssumption DEF Threads, Pids, Idle
<1>8. /\ stack \in [Threads -> Seq(Stacked)] /\ expected \in [Pids -> Files]
      /\ stack[c] \in Seq(Stacked) /\ e \in Files
      /\ thread \in [Threads -> Context] /\ thread[c] \in Context /\ ready \in Seq(Pids)
  BY <1>2, <1>5, <1>7 DEF Types
<1>9. f \in Stacked /\ Len(stack[c]) \in Nat /\ 1 \in 1 .. Len(stack[c])
  BY <1>3, <1>4, <1>8
<1>10. Holds(f, e) /\ f.cs /\ f.int_no = 128
  BY <1>1, <1>3, <1>4, <1>5
<1>11. /\ saved \in Context /\ saved.sp = rsp /\ saved.ip = "switch_task"
       /\ saved.page_directory.of = thread[c].page_directory.of
       /\ thread[c].saved4 = Word(0) /\ reg["r15"] = Word(0)
             => saved.saved4 = Word(0) /\ saved.page_directory.low = 0
  BY <1>6, <1>8, SavedContext
<1>12. PICK child \in Pids \ Started :
          /\ LET saved0 == save_context(thread[current_process])
                 r == [Top EXCEPT !.regs[Field("rax")] = Word(0)] IN
             /\ thread' = [thread EXCEPT
                    ![current_process] = saved0,
                    ![child] = [sp |-> <<child, 1>>, ip |-> "resume_user",
                                saved |-> saved0.saved, saved4 |-> saved0.saved4,
                                page_directory |-> [of |-> child, low |-> 0]]]
             /\ stack' = [stack EXCEPT ![child] = <<r>>,
                            ![rsp[1]][rsp[2]].regs[Field("rax")] = Word(child)]
          /\ ready' = Append(ready, child)
          /\ expected' = [expected EXCEPT
                ![current_process]["rax"] = Word(child),
                ![child] = [expected[current_process] EXCEPT !["rax"] = Word(0)]]
  BY DEF Fork
<1>13. child # c /\ child \in Pids /\ child \in Threads /\ child # Idle
  BY <1>2, <1>7, <1>12, ContextAssumption DEF Suspended, Pids, Idle
<1>14. PICK t : t = [sp |-> <<child, 1>>, ip |-> "resume_user", saved |-> saved.saved,
                     saved4 |-> saved.saved4, page_directory |-> [of |-> child, low |-> 0]]
  OBVIOUS
<1>15. PICK g : g = Answered(f, Word(child))
  OBVIOUS
<1>16. PICK h : h = WithRax(e, Word(child))
  OBVIOUS
<1>17. PICK g0 : g0 = Answered(f, Word(0))
  OBVIOUS
<1>18. PICK h0 : h0 = WithRax(e, Word(0))
  OBVIOUS
<1>19. Word(child) \in Words /\ Word(0) \in Words
  BY <1>12 DEF Word, Words, Pids
<1>20. /\ g \in Stacked /\ h \in Files /\ Holds(g, h) /\ g.cs
       /\ g.regs[Field("r15")] = f.regs[Field("r15")] /\ h["r15"] = e["r15"]
  BY <1>8, <1>9, <1>10, <1>15, <1>16, <1>19, AnswerInRax
<1>21. /\ g0 \in Stacked /\ h0 \in Files /\ Holds(g0, h0) /\ g0.cs
       /\ g0.regs[Field("r15")] = f.regs[Field("r15")] /\ h0["r15"] = e["r15"]
  BY <1>8, <1>9, <1>10, <1>17, <1>18, <1>19, AnswerInRax
<1>22. thread' = [thread EXCEPT ![c] = saved, ![child] = t]
  BY <1>2, <1>6, <1>12, <1>14
<1>23. PICK s : s = [stack[c] EXCEPT ![1] = g]
  OBVIOUS
<1>24. stack' = [stack EXCEPT ![child] = <<g0>>, ![c] = s]
  <2>1. rsp[1] = c /\ rsp[2] = 1
    BY <1>3
  <2>2. stack' = [stack EXCEPT ![child] = <<g0>>, ![c][1].regs[Field("rax")] = Word(child)]
    BY <2>1, <1>3, <1>4, <1>12, <1>17 DEF Answered
  <2>3. PICK u : u = [stack EXCEPT ![child] = <<g0>>]
    OBVIOUS
  <2>4. stack' = [u EXCEPT ![c][1].regs[Field("rax")] = Word(child)]
    BY <2>2, <2>3
  <2>5. u[c] = stack[c] /\ u \in [Threads -> Seq(Stacked)]
    BY <2>3, <1>7, <1>8, <1>13, <1>21
  <2>6. stack' = [u EXCEPT ![c] = [stack[c] EXCEPT ![1] = g]]
    BY <2>4, <2>5, <1>4, <1>15 DEF Answered
  <2>. QED
    BY <2>3, <2>6, <1>23
<1>25. expected' = [expected EXCEPT ![c] = h, ![child] = h0]
  BY <1>2, <1>5, <1>12, <1>16, <1>18 DEF WithRax
<1>26. /\ at' = "isr_return" /\ interrupts' = TRUE /\ reg' = Called(reg) /\ rsp' = rsp
       /\ uses_r15' = uses_r15 /\ in_service' = in_service
       /\ current_process' = current_process /\ ready' = Append(ready, child)
       /\ kernel_stack' = kernel_stack /\ current_pml' = current_pml
  BY <1>12 DEF Fork
<1>27. /\ s \in Seq(Stacked) /\ Len(s) = Len(stack[c]) /\ s[1] = g
       /\ \A k \in 1 .. Len(s) : k # 1 => s[k] = stack[c][k]
  BY <1>8, <1>9, <1>20, <1>23
<1>28. <<g0>> \in Seq(Stacked) /\ Len(<<g0>>) = 1 /\ <<g0>>[1] = g0
  BY <1>21
<1>29. /\ stack'[c] = s /\ stack'[child] = <<g0>>
       /\ \A q \in Threads \ {c, child} : stack'[q] = stack[q]
       /\ stack' \in [Threads -> Seq(Stacked)]
  BY <1>7, <1>8, <1>13, <1>24, <1>27, <1>28
<1>30. /\ expected'[c] = h /\ expected'[child] = h0
       /\ \A q \in Pids \ {c, child} : expected'[q] = expected[q]
       /\ expected' \in [Pids -> Files]
  BY <1>2, <1>8, <1>13, <1>20, <1>21, <1>25
<1>31. /\ t \in Context /\ t.sp = <<child, 1>> /\ t.ip = "resume_user"
       /\ t.saved4 = saved.saved4 /\ t.page_directory = [of |-> child, low |-> 0]
  <2>1. saved.saved \in [Saved -> Words] /\ saved.saved4 \in Words
    BY <1>11 DEF Context
  <2>2. [of |-> child, low |-> 0] \in Directory
    BY <1>13 DEF Directory
  <2>3. <<child, 1>> \in (Threads \cup {0}) \X Nat
    BY <1>13
  <2>. QED
    BY <1>14, <2>1, <2>2, <2>3 DEF Context, Places
<1>32. /\ thread'[c] = saved /\ thread'[child] = t
       /\ \A q \in Threads \ {c, child} : thread'[q] = thread[q]
       /\ thread' \in [Threads -> Context]
  BY <1>7, <1>8, <1>11, <1>13, <1>22, <1>31
<1>33. ready' \in Seq(Pids) /\ Len(ready') = Len(ready) + 1 /\ ready'[Len(ready) + 1] = child
       /\ Len(ready) \in Nat /\ \A i \in 1 .. Len(ready) : ready'[i] = ready[i]
  BY <1>8, <1>13, <1>26, AppendProperties
<1>34. Types'
  BY <1>26, <1>29, <1>30, <1>32, <1>33, CallKeepsR15 DEF Types, Places
<1>35. Framed(c, 1)'
  <2>1. First(c)'
    BY <1>2, <1>7, <1>20, <1>27, <1>29, <1>30 DEF First, Holds
  <2>2. 1 \in 1 .. Len(stack'[c]) /\ 2 .. 1 = {}
    BY <1>9, <1>27, <1>29
  <2>. QED
    BY <2>1, <2>2 DEF Framed
<1>36. Framed(child, 1)'
  <2>1. First(child)'
    BY <1>13, <1>21, <1>28, <1>29, <1>30 DEF First, Holds
  <2>2. 1 \in 1 .. Len(stack'[child]) /\ 2 .. 1 = {}
    BY <1>28, <1>29
  <2>. QED
    BY <2>1, <2>2 DEF Framed
<1>37. Placed'
  <2>1. (rsp[1] = current_process /\ Framed(current_process, rsp[2]))'
    BY <1>2, <1>3, <1>26, <1>35 DEF Framed
  <2>2. kernel_stack = current_process
    BY <1>1 DEF Placed
  <2>. QED
    BY <1>26, <2>1, <2>2 DEF Placed, InProcess
<1>38. ASSUME NEW i \in 1 .. Len(ready)
       PROVE  ready[i] \in Pids \ {c, child} /\ Resumable(ready[i])'
  <2>1. i \in DOMAIN ready /\ ready[i] \in Pids
    BY <1>8
  <2>2. ready[i] # c /\ Resumable(ready[i])
    BY <2>1, <1>2 DEF Suspended
  <2>3. PICK p \in Pids : p = ready[i]
    BY <2>1
  <2>4. Resumable(p)
    BY <2>2, <2>3 DEF Resumable, Leads
  <2>5. p # child
    BY <2>4, <1>12, <1>13 DEF Started, Resumable, Leads
  <2>6. p \in Threads \ {c, child}
    BY <2>2, <2>3, <2>5, <1>7
  <2>7. Resumable(p)'
    BY <2>4, <2>6, <1>29, <1>30, <1>32, <1>34, ResumableStays
  <2>. QED
    BY <2>2, <2>3, <2>5, <2>7, <1>33 DEF Resumable, Leads
<1>39. Resumable(child)'
  BY <1>31, <1>32, <1>36 DEF Resumable, Leads, Framed
<1>40. Suspended'
  <2>1. DOMAIN ready = 1 .. Len(ready) /\ DOMAIN ready' = 1 .. Len(ready) + 1
    BY <1>8, <1>33
  <2>2. \A i \in DOMAIN ready' : i \in 1 .. Len(ready) \/ i = Len(ready) + 1
    BY <2>1, <1>33
  <2>3. \A i, j \in DOMAIN ready' : ready'[i] = ready'[j] => i = j
    <3>. SUFFICES ASSUME NEW i \in DOMAIN ready', NEW j \in DOMAIN ready', ready'[i] = ready'[j]
                  PROVE  i = j
      OBVIOUS
    <3>1. CASE i \in 1 .. Len(ready) /\ j \in 1 .. Len(ready)
      BY <3>1, <2>1, <1>33 DEF Suspended
    <3>2. CASE i = Len(ready) + 1 /\ j \in 1 .. Len(ready)
      BY <3>2, <1>33, <1>38
    <3>3. CASE i \in 1 .. Len(ready) /\ j = Len(ready) + 1
      BY <3>3, <1>33, <1>38
    <3>. QED
      BY <2>2, <3>1, <3>2, <3>3
  <2>4. ASSUME NEW i \in DOMAIN ready'
        PROVE  (ready[i] # current_process /\ Resumable(ready[i]))'
    <3>1. CASE i \in 1 .. Len(ready)
      BY <3>1, <1>2, <1>26, <1>33, <1>38
    <3>2. CASE i = Len(ready) + 1
      <4>1. ready'[i] = child
        BY <3>2, <1>33
      <4>. QED
        BY <4>1, <1>2, <1>13, <1>26, <1>39 DEF Resumable, Leads
    <3>. QED
      BY <2>2, <3>1, <3>2
  <2>5. (current_process \in Started \cup {Idle})'
    BY <1>2, <1>11, <1>26, <1>32 DEF Started
  <2>6. (thread[Idle].sp = <<Idle, 0>> /\ thread[Idle].ip = "_idle")'
    BY <1>2, <1>7, <1>13, <1>32 DEF Suspended
  <2>. QED
    BY <2>3, <2>4, <2>5, <2>6 DEF Suspended
<1>41. Directories'
  <2>1. ASSUME NEW q \in Threads PROVE thread'[q].page_directory.of = q
    <3>1. CASE q = c
      BY <3>1, <1>7, <1>11, <1>32 DEF Directories
    <3>2. CASE q = child
      BY <3>2, <1>31, <1>32
    <3>3. CASE q \notin {c, child}
      BY <3>3, <1>32 DEF Directories
    <3>. QED
      BY <3>1, <3>2, <3>3
  <2>. QED
    BY <2>1, <1>26 DEF Directories
<1>42. NothingInR15'
  <2>. SUFFICES ASSUME ~uses_r15 PROVE NothingInR15'
    BY <1>26 DEF NothingInR15
  <2>1. f.regs[Field("r15")] = Word(0)
    BY <1>4, <1>7, <1>9 DEF NothingInR15
  <2>2. ASSUME NEW q \in Threads, NEW k \in 1 .. Len(stack'[q])
        PROVE  stack'[q][k].regs[Field("r15")] = Word(0)
    <3>1. CASE q = c
      <4>1. k \in 1 .. Len(stack[c]) /\ stack[c][k].regs[Field("r15")] = Word(0)
        BY <3>1, <1>7, <1>27, <1>29 DEF NothingInR15
      <4>. QED
        BY <3>1, <4>1, <2>1, <1>20, <1>27, <1>29
    <3>2. CASE q = child
      <4>1. k = 1
        BY <3>2, <1>28, <1>29
      <4>. QED
        BY <3>2, <4>1, <2>1, <1>21, <1>28, <1>29
    <3>3. CASE q \notin {c, child}
      BY <3>3, <1>29 DEF NothingInR15
    <3>. QED
      BY <3>1, <3>2, <3>3
  <2>3. \A q \in Pids : expected'[q]["r15"] = Word(0)
    BY <1>2, <1>5, <1>20, <1>21, <1>30 DEF NothingInR15
  <2>4. saved.saved4 = Word(0) /\ saved.page_directory.low = 0
    BY <1>7, <1>11 DEF NothingInR15
  <2>5. \A q \in Threads : thread'[q].saved4 = Word(0) /\ thread'[q].page_directory.low = 0
    BY <2>4, <1>31, <1>32 DEF NothingInR15
  <2>6. reg'["r15"] = Word(0)
    BY <1>26, CallKeepsR15 DEF NothingInR15
  <2>. QED
    BY <2>2, <2>3, <2>5, <2>6 DEF NothingInR15
<1>. QED
  BY <1>26, <1>34, <1>37, <1>40, <1>41, <1>42
-----------------------------------------------------------------------------
(* Steps that leave the stacks alone. *)

(* Then nobody loses a frame. *)
LEMMA StaysOnStack ==
  ASSUME ContextAssumption, Types, Types', Placed, Suspended,
         current_process' = current_process, ready' = ready, stack' = stack, rsp' = rsp,
         \A p \in Threads : thread'[p].sp = thread[p].sp /\ thread'[p].ip = thread[p].ip,
         \A p \in Pids : p # current_process \/ at \in InKernel => expected'[p] = expected[p]
  PROVE  /\ Suspended'
         /\ at \in InKernel => (rsp[1] = current_process /\ Framed(current_process, rsp[2]))'
<1>1. \A p \in Pids \ {current_process} : stack'[p] = stack[p] /\ expected'[p] = expected[p]
  OBVIOUS
<1>2. Suspended'
  BY <1>1, SuspendedStays
<1>3. ASSUME at \in InKernel
      PROVE  (rsp[1] = current_process /\ Framed(current_process, rsp[2]))'
  <2>1. rsp[1] = current_process /\ Framed(current_process, rsp[2])
    BY <1>3 DEF Placed
  <2>2. PICK c \in Threads : c = current_process
    BY DEF Types
  <2>3. PICK d \in Nat : d = rsp[2]
    BY DEF Types
  <2>4. Framed(c, d)
    BY <2>1, <2>2, <2>3 DEF Framed
  <2>5. Len(stack[c]) \in Nat
    BY DEF Types
  <2>6. d <= Len(stack'[c]) /\ Len(stack'[c]) \in Nat /\ \A k \in 1 .. d : stack'[c][k] = stack[c][k]
    BY <2>4, <2>5 DEF Framed
  <2>7. c # Idle => expected'[c] = expected[c]
    BY <1>3 DEF Threads
  <2>8. Framed(c, d)'
    BY <2>4, <2>6, <2>7, FramesStay
  <2>. QED
    BY <2>1, <2>2, <2>3, <2>8 DEF Framed
<1>. QED
  BY <1>2, <1>3

(* The end of an interrupt or of a fault. *)
LEMMA HandlerReturns ==
  ASSUME ContextAssumption, Types, Placed, Suspended, Directories, NothingInR15,
         at = "isr_handler", Return, interrupts' = interrupts
  PROVE  Types' /\ Placed' /\ Suspended' /\ Directories' /\ NothingInR15'
<1>1. /\ at' = "isr_return" /\ reg' = Called(reg) /\ interrupts' = interrupts /\ rsp' = rsp
      /\ current_process' = current_process /\ ready' = ready /\ thread' = thread
      /\ kernel_stack' = kernel_stack /\ current_pml' = current_pml /\ stack' = stack
      /\ expected' = expected /\ uses_r15' = uses_r15
  BY DEF Return, switching, programs
<1>2. Types'
  BY <1>1, CallKeepsR15 DEF Types, Places
<1>3. /\ Suspended'
      /\ at \in InKernel => (rsp[1] = current_process /\ Framed(current_process, rsp[2]))'
  BY <1>1, <1>2, StaysOnStack
<1>4. (rsp[1] = current_process /\ Framed(current_process, rsp[2]))'
  BY <1>3 DEF InKernel
<1>5. Placed'
  BY <1>1, <1>4 DEF Placed, InProcess
<1>6. Directories' /\ NothingInR15'
  BY <1>1, CallKeepsR15 DEF Directories, NothingInR15
<1>. QED
  BY <1>2, <1>3, <1>5, <1>6

(* Back in the middle of a call or of the timer's handler. *)
LEMMA BackLeads ==
  ASSUME ContextAssumption, Types, Placed, Suspended, Directories, NothingInR15, SwitchedBack
  PROVE  /\ Types' /\ Placed' /\ Suspended' /\ Directories' /\ NothingInR15'
         /\ at' \in {"isr_return", "waitpid"} /\ in_service' = in_service
<1>1. /\ at = "switch_task" /\ at' = (IF Top.int_no = 32 THEN "isr_return" ELSE "waitpid")
      /\ reg' = Called(reg) /\ interrupts' = interrupts /\ rsp' = rsp
      /\ current_process' = current_process /\ ready' = ready /\ thread' = thread
      /\ kernel_stack' = kernel_stack /\ current_pml' = current_pml /\ stack' = stack
      /\ expected' = expected /\ uses_r15' = uses_r15 /\ in_service' = in_service
  BY DEF SwitchedBack, switching, programs
<1>2. Types'
  BY <1>1, CallKeepsR15 DEF Types, Places
<1>3. /\ Suspended'
      /\ at \in InKernel => (rsp[1] = current_process /\ Framed(current_process, rsp[2]))'
  BY <1>1, <1>2, StaysOnStack
<1>4. (rsp[1] = current_process /\ Framed(current_process, rsp[2]))'
  BY <1>1, <1>3 DEF InKernel
<1>5. Top' = Top /\ Top.int_no \in {32, 128}
  BY <1>1 DEF Top, Placed
<1>6. Placed'
  BY <1>1, <1>4, <1>5 DEF Placed, InProcess
<1>7. Directories' /\ NothingInR15'
  BY <1>1, CallKeepsR15 DEF Directories, NothingInR15
<1>. QED
  BY <1>1, <1>2, <1>3, <1>6, <1>7

(* The idle loop. *)
LEMMA IdleLeads ==
  ASSUME ContextAssumption, Types, Placed, Suspended, Directories, NothingInR15, _idle
  PROVE  /\ Types' /\ Placed' /\ Suspended' /\ Directories' /\ NothingInR15'
         /\ at' = at /\ at = "_idle" /\ in_service' = in_service
<1>1. /\ at = "_idle" /\ at' = at /\ interrupts' = TRUE /\ rsp' = rsp /\ reg' = reg
      /\ current_process' = current_process /\ ready' = ready /\ thread' = thread
      /\ kernel_stack' = kernel_stack /\ current_pml' = current_pml /\ stack' = stack
      /\ expected' = expected /\ uses_r15' = uses_r15 /\ in_service' = in_service
  BY DEF _idle, switching, programs
<1>2. Types'
  BY <1>1 DEF Types
<1>3. Suspended'
  BY <1>1, <1>2, StaysOnStack
<1>4. Placed' /\ Directories' /\ NothingInR15'
  BY <1>1 DEF Placed, InKernel, InProcess, Directories, NothingInR15
<1>. QED
  BY <1>1, <1>2, <1>3, <1>4

(* A new program in the process. *)
LEMMA ExecLeads ==
  ASSUME ContextAssumption, Types, Placed, Suspended, Directories, NothingInR15, Exec
  PROVE  /\ Types' /\ Placed' /\ Suspended' /\ Directories' /\ NothingInR15'
         /\ at' = "elf_exec" /\ in_service' = in_service
<1>1. at = "isr_handler" /\ Top.int_no = 128
  BY DEF Exec, Serving
<1>2. PICK c \in Pids : c = current_process
  BY <1>1, CallIsFirst DEF InKernel
<1>3. c \in Threads /\ thread \in [Threads -> Context] /\ thread[c] \in Context
  BY <1>2 DEF Threads, Types
<1>4. PICK d : d = [of |-> c, low |-> 0]
  OBVIOUS
<1>5. PICK t : t = [thread[c] EXCEPT !.page_directory = d]
  OBVIOUS
<1>6. d \in Directory /\ d.of = c /\ d.low = 0
  BY <1>3, <1>4 DEF Directory
<1>7. /\ t \in Context /\ t.sp = thread[c].sp /\ t.ip = thread[c].ip
      /\ t.saved4 = thread[c].saved4 /\ t.page_directory = d
  BY <1>3, <1>5, <1>6 DEF Context
<1>8. /\ thread' = [thread EXCEPT ![c] = t] /\ current_pml' = d
      /\ at' = "elf_exec" /\ reg' = Called(reg) /\ interrupts' = interrupts /\ rsp' = rsp
      /\ current_process' = current_process /\ ready' = ready
      /\ kernel_stack' = kernel_stack /\ stack' = stack
      /\ expected' = expected /\ uses_r15' = uses_r15 /\ in_service' = in_service
  BY <1>2, <1>4, <1>5 DEF Exec, programs
<1>9. /\ thread'[c] = t /\ thread' \in [Threads -> Context]
      /\ \A p \in Threads \ {c} : thread'[p] = thread[p]
  BY <1>3, <1>7, <1>8
<1>10. Types'
  BY <1>6, <1>8, <1>9, CallKeepsR15 DEF Types, Places
<1>11. \A p \in Threads : thread'[p].sp = thread[p].sp /\ thread'[p].ip = thread[p].ip
  BY <1>7, <1>9
<1>12. Suspended'
  BY <1>8, <1>10, <1>11, StaysOnStack
<1>13. Placed'
  BY <1>2, <1>8 DEF Placed, InProcess, InKernel
<1>14. Directories'
  BY <1>2, <1>6, <1>7, <1>8, <1>9 DEF Directories
<1>15. NothingInR15'
  <2>. SUFFICES ASSUME ~uses_r15 PROVE NothingInR15'
    BY <1>8 DEF NothingInR15
  <2>1. \A p \in Threads : thread'[p].saved4 = Word(0) /\ thread'[p].page_directory.low = 0
    BY <1>3, <1>6, <1>7, <1>9 DEF NothingInR15
  <2>. QED
    BY <1>8, <2>1, CallKeepsR15 DEF NothingInR15
<1>. QED
  BY <1>8, <1>10, <1>12, <1>13, <1>14, <1>15

(* The first entry into a program. *)
LEMMA EnterLeads ==
  ASSUME ContextAssumption, Types, Placed, Suspended, Directories, NothingInR15,
         enter_userspace
  PROVE  /\ Types' /\ Placed' /\ Suspended' /\ Directories' /\ NothingInR15'
         /\ at' = "user" /\ in_service' = in_service /\ at # "isr_handler"
<1>1. at = "elf_exec"
  BY DEF enter_userspace
<1>2. PICK c \in Pids : c = current_process
  BY <1>1 DEF Placed, InProcess
<1>3. PICK r : r = [reg EXCEPT !["rdi"] = Word(1), !["rsi"] = Word(2), !["rdx"] = Word(3)]
  OBVIOUS
<1>4. r \in Files /\ r["r15"] = reg["r15"]
  <2>1. Word(1) \in Words /\ Word(2) \in Words /\ Word(3) \in Words
    BY DEF Word, Words
  <2>2. reg \in [Regs -> Words]
    BY DEF Types, Files
  <2>. QED
    BY <1>3, <2>1, <2>2, NamedRegisters DEF Files
<1>5. /\ at' = "user" /\ reg' = r /\ interrupts' = TRUE /\ rsp' = rsp
      /\ current_process' = current_process /\ ready' = ready /\ thread' = thread
      /\ kernel_stack' = c /\ current_pml' = current_pml /\ stack' = stack
      /\ expected' = [expected EXCEPT ![c] = r] /\ uses_r15' = uses_r15
      /\ in_service' = in_service
  BY <1>2, <1>3 DEF enter_userspace
<1>6. /\ expected'[c] = r /\ expected' \in [Pids -> Files]
      /\ \A p \in Pids \ {c} : expected'[p] = expected[p]
  BY <1>4, <1>5 DEF Types
<1>7. Types'
  BY <1>2, <1>4, <1>5, <1>6 DEF Types, Places, Threads
<1>8. \A p \in Pids : p # current_process \/ at \in InKernel => expected'[p] = expected[p]
  BY <1>1, <1>2, <1>6 DEF InKernel
<1>9. Suspended'
  BY <1>5, <1>7, <1>8, StaysOnStack
<1>10. Placed' /\ Directories'
  BY <1>2, <1>5, <1>6 DEF Placed, InProcess, InKernel, Directories
<1>11. NothingInR15'
  BY <1>2, <1>4, <1>5, <1>6 DEF NothingInR15
<1>. QED
  BY <1>1, <1>5, <1>7, <1>9, <1>10, <1>11

(* A program at work. *)
LEMMA ComputeLeads ==
  ASSUME ContextAssumption, Types, Placed, Suspended, Directories, NothingInR15, Compute
  PROVE  /\ Types' /\ Placed' /\ Suspended' /\ Directories' /\ NothingInR15'
         /\ at' = at /\ at = "user" /\ in_service' = in_service
<1>1. at = "user"
  BY DEF Compute
<1>2. PICK c \in Pids : c = current_process
  BY <1>1 DEF Placed, InProcess
<1>3. PICK call \in Calls, w \in R15Words :
          /\ reg' = [r \in Regs |->
                IF r = "rax" THEN Word(call) ELSE IF r = "r15" THEN w
                ELSE Word(100 * current_process + Field(r))]
          /\ uses_r15' = (uses_r15 \/ w # Word(0))
  BY DEF Compute
<1>4. PICK e : e = [r \in Regs |->
                IF r = "rax" THEN Word(call) ELSE IF r = "r15" THEN w
                ELSE Word(100 * c + Field(r))]
  OBVIOUS
<1>5. reg' = e
  BY <1>2, <1>3, <1>4
<1>6. e \in Files /\ e["r15"] = w
  <2>1. w \in Words /\ call \in Int /\ c \in Int
    BY <1>2, <1>3, ContextAssumption DEF Words, Pids
  <2>2. \A r \in Regs : Field(r) \in Int
    BY FieldOfRegister
  <2>3. \A n \in Int : Word(n) \in Words
    BY DEF Word, Words
  <2>4. \A r \in Regs : 100 * c + Field(r) \in Int
    BY <2>1, <2>2
  <2>5. \A r \in Regs : Word(100 * c + Field(r)) \in Words
    BY <2>3, <2>4
  <2>6. Word(call) \in Words
    BY <2>1, <2>3
  <2>. QED
    BY <1>4, <2>1, <2>5, <2>6, NamedRegisters DEF Files
<1>7. /\ at' = at /\ interrupts' = interrupts /\ rsp' = rsp
      /\ current_process' = current_process /\ ready' = ready /\ thread' = thread
      /\ kernel_stack' = kernel_stack /\ current_pml' = current_pml /\ stack' = stack
      /\ expected' = [expected EXCEPT ![c] = e]
      /\ in_service' = in_service
  BY <1>2, <1>5 DEF Compute, switching
<1>8. /\ expected'[c] = e /\ expected' \in [Pids -> Files]
      /\ \A p \in Pids \ {c} : expected'[p] = expected[p]
  BY <1>6, <1>7 DEF Types
<1>9. uses_r15' \in BOOLEAN
  BY <1>3 DEF Types
<1>10. Types'
  BY <1>5, <1>6, <1>7, <1>8, <1>9 DEF Types
<1>11. \A p \in Pids : p # current_process \/ at \in InKernel => expected'[p] = expected[p]
  BY <1>1, <1>2, <1>8 DEF InKernel
<1>12. Suspended'
  BY <1>7, <1>10, <1>11, StaysOnStack
<1>13. Placed' /\ Directories'
  BY <1>1, <1>2, <1>5, <1>7, <1>8 DEF Placed, InProcess, InKernel, Directories
<1>14. NothingInR15'
  <2>. SUFFICES ASSUME ~uses_r15' PROVE NothingInR15'
    BY DEF NothingInR15
  <2>1. ~uses_r15 /\ w = Word(0)
    BY <1>3
  <2>. QED
    BY <2>1, <1>5, <1>6, <1>7, <1>8 DEF NothingInR15
<1>. QED
  BY <1>1, <1>7, <1>10, <1>12, <1>13, <1>14
-----------------------------------------------------------------------------
(* Giving up the processor. *)

(* For good: the next process takes over. *)
LEMMA NextLeads ==
  ASSUME ContextAssumption, Types, Placed, Suspended, Directories, NothingInR15,
         switch_next(ready, thread),
         stack' = stack, expected' = expected, uses_r15' = uses_r15
  PROVE  /\ Types' /\ Placed' /\ Suspended' /\ Directories' /\ NothingInR15'
         /\ at' # "isr_handler"
<1>1. PICK q \in Seq(Pids) : q = ready
  BY DEF Types
<1>2. PICK th \in [Threads -> Context] : th = thread
  BY DEF Types
<1>3. switch_next(q, th)
  BY <1>1, <1>2 DEF switch_next
<1>4. \A i \in DOMAIN q : Leads(th[q[i]], q[i])
  BY <1>1, <1>2 DEF Suspended, Resumable
<1>5. QueueLeads(q, th)
  BY <1>1, <1>2, <1>4 DEF QueueLeads, Suspended, Directories, NothingInR15
<1>. QED
  BY <1>3, <1>5, SwitchLeads

(* For a while: the process goes to the end of the queue. *)
LEMMA TaskLeads ==
  ASSUME ContextAssumption, Types, Placed, Suspended, Directories, NothingInR15,
         switch_task, at \in InKernel, Top.int_no \in {32, 128},
         stack' = stack, expected' = expected, uses_r15' = uses_r15
  PROVE  /\ Types' /\ Placed' /\ Suspended' /\ Directories' /\ NothingInR15'
         /\ at' # "isr_handler"
<1>1. CASE current_process = Idle
  BY <1>1, NextLeads DEF switch_task
<1>2. CASE current_process # Idle
  <2>1. PICK c \in Pids : c = current_process
    BY <1>2 DEF Types, Threads
  <2>2. PICK saved : saved = save_context(thread[c])
    OBVIOUS
  <2>3. PICK q : q = Append(ready, c)
    OBVIOUS
  <2>4. PICK th : th = [thread EXCEPT ![c] = saved]
    OBVIOUS
  <2>5. switch_next(q, th)
    <3>1. switch_next(Append(ready, c), [thread EXCEPT ![c] = save_context(@)])
      BY <1>2, <2>1 DEF switch_task
    <3>2. th = [thread EXCEPT ![c] = save_context(@)]
      BY <2>2, <2>4
    <3>. QED
      BY <3>1, <3>2, <2>3 DEF switch_next
  <2>6. /\ c \in Threads /\ thread \in [Threads -> Context] /\ thread[c] \in Context
        /\ ready \in Seq(Pids) /\ Len(ready) \in Nat
    BY <2>1 DEF Types, Threads
  <2>7. /\ saved \in Context /\ saved.sp = rsp /\ saved.ip = "switch_task"
        /\ saved.page_directory.of = thread[c].page_directory.of
        /\ thread[c].saved4 = Word(0) /\ reg["r15"] = Word(0)
              => saved.saved4 = Word(0) /\ saved.page_directory.low = 0
    BY <2>2, <2>6, SavedContext
  <2>8. /\ q \in Seq(Pids) /\ Len(q) = Len(ready) + 1 /\ q[Len(ready) + 1] = c
        /\ \A i \in 1 .. Len(ready) : q[i] = ready[i]
    BY <2>1, <2>3, <2>6, AppendProperties
  <2>9. /\ th \in [Threads -> Context] /\ th[c] = saved
        /\ \A p \in Threads \ {c} : th[p] = thread[p]
    BY <2>4, <2>6, <2>7
  <2>10. DOMAIN ready = 1 .. Len(ready) /\ DOMAIN q = 1 .. Len(ready) + 1
    BY <2>6, <2>8
  <2>11. \A i \in DOMAIN q : i \in 1 .. Len(ready) \/ i = Len(ready) + 1
    BY <2>6, <2>10
  <2>12. \A i \in 1 .. Len(ready) : ready[i] # c /\ Leads(thread[ready[i]], ready[i])
    BY <2>1, <2>10 DEF Suspended, Resumable
  <2>13. Leads(saved, c)
    <3>1. rsp[1] = c /\ Framed(c, rsp[2]) /\ Top = stack[c][rsp[2]]
      BY <2>1 DEF Placed, Top
    <3>2. Framed(c, saved.sp[2]) /\ saved.sp[1] = c
      BY <3>1, <2>7
    <3>. QED
      BY <3>1, <3>2, <2>7 DEF Leads
  <2>14. ASSUME NEW i \in DOMAIN q PROVE Leads(th[q[i]], q[i])
    <3>1. CASE i \in 1 .. Len(ready)
      <4>1. ready[i] \in Threads \ {c} /\ q[i] = ready[i]
        BY <3>1, <2>6, <2>8, <2>10, <2>12 DEF Threads
      <4>. QED
        BY <4>1, <3>1, <2>9, <2>12
    <3>2. CASE i = Len(ready) + 1
      BY <3>2, <2>8, <2>9, <2>13
    <3>. QED
      BY <2>11, <3>1, <3>2
  <2>15. ASSUME NEW i \in DOMAIN q, NEW j \in DOMAIN q, q[i] = q[j] PROVE i = j
    <3>1. CASE i \in 1 .. Len(ready) /\ j \in 1 .. Len(ready)
      BY <3>1, <2>8, <2>10, <2>15 DEF Suspended
    <3>2. CASE i = Len(ready) + 1 /\ j \in 1 .. Len(ready)
      BY <3>2, <2>8, <2>12, <2>15
    <3>3. CASE i \in 1 .. Len(ready) /\ j = Len(ready) + 1
      BY <3>3, <2>8, <2>12, <2>15
    <3>. QED
      BY <2>11, <3>1, <3>2, <3>3
  <2>16. th[Idle].sp = <<Idle, 0>> /\ th[Idle].ip = "_idle"
    <3>1. Idle \in Threads \ {c}
      BY <2>1, ContextAssumption DEF Threads, Pids, Idle
    <3>. QED
      BY <3>1, <2>9 DEF Suspended
  <2>17. \A p \in Threads : th[p].page_directory.of = p
    BY <2>6, <2>7, <2>9 DEF Directories
  <2>18. ~uses_r15 => \A p \in Threads : th[p].saved4 = Word(0) /\ th[p].page_directory.low = 0
    BY <2>6, <2>7, <2>9 DEF NothingInR15
  <2>19. QueueLeads(q, th)
    BY <2>14, <2>15, <2>16, <2>17, <2>18 DEF QueueLeads
  <2>20. q \in Seq(Pids)
    BY <2>8
  <2>21. th \in [Threads -> Context]
    BY <2>9
  <2>. QED
    <3>1. /\ ContextAssumption /\ Types /\ NothingInR15 /\ stack' = stack /\ expected' = expected
          /\ uses_r15' = uses_r15
      OBVIOUS
    <3>. QED
      BY ONLY <2>5, <2>19, <2>20, <2>21, <3>1, SwitchLeads
<1>. QED
  BY <1>1, <1>2
-----------------------------------------------------------------------------
(* The interrupt controllers. *)

(* Ending the interrupt of the highest priority leaves none but line 7. *)
LEMMA OneEnds ==
  /\ Ended({}) = {}
  /\ \A i \in Int : Ended({i}) = {}
  /\ \A i \in 0 .. 6 : \A lines : lines \ {7} = {i} => Ended(lines) \subseteq {7}
<1>1. ASSUME NEW i \in 0 .. 6, NEW lines, lines \ {7} = {i} PROVE Ended(lines) \subseteq {7}
  <2>1. i \in lines /\ \A j \in lines : j = i \/ j = 7
    BY <1>1
  <2>2. \A j \in lines : i <= j
    BY <2>1
  <2>. QED
    BY <2>1, <2>2 DEF Ended
<1>. QED
  BY <1>1 DEF Ended

(* Nothing is in service but what is being handled, and line 7. *)
LEMMA NoneHandled ==
  ASSUME InService, Handled = {}
  PROVE  in_service.master \subseteq {7} /\ in_service.slave = {}
BY DEF InService

(* One interrupt is in service while it is handled. *)
LEMMA OneHandled ==
  ASSUME InService, NEW irq \in (0 .. 15) \ {7}, Handled = {irq}
  PROVE  /\ in_service.master \ {7} = {Line(irq)} /\ Line(irq) \in 0 .. 6
         /\ in_service.slave \subseteq IF irq >= 8 THEN {irq} ELSE {}
<1>1. {Line(i) : i \in {irq}} = {Line(irq)}
  OBVIOUS
<1>2. {i \in {irq} : i >= 8} = IF irq >= 8 THEN {irq} ELSE {}
  OBVIOUS
<1>. QED
  BY <1>1, <1>2 DEF InService, Line

(* The same after a step. *)
LEMMA NoneLeft ==
  ASSUME NEW lines \in SUBSET {7}, Handled' = {}, in_service' = [master |-> lines, slave |-> {}]
  PROVE  InService'
<1>1. {Line(i) : i \in {}} = {} /\ {i \in {} : i >= 8} = {}
  OBVIOUS
<1>2. in_service'.master = lines /\ in_service'.slave = {} /\ lines \ {7} = {}
  OBVIOUS
<1>. QED
  BY <1>1, <1>2 DEF InService

(* After irq_ack nothing is in service, or line 7 only. *)
LEMMA AckEnds ==
  ASSUME InService, NEW irq \in (0 .. 15) \ {7}, Handled = {irq}, irq_ack(irq), Handled' = {}
  PROVE  InService'
<1>1. /\ in_service.master \ {7} = {Line(irq)} /\ Line(irq) \in 0 .. 6
      /\ in_service.slave \subseteq IF irq >= 8 THEN {irq} ELSE {}
  BY OneHandled
<1>2. Ended(in_service.master) \in SUBSET {7}
  BY <1>1, OneEnds
<1>3. (IF irq >= 8 THEN Ended(in_service.slave) ELSE in_service.slave) = {}
  <2>1. in_service.slave = {} \/ (irq >= 8 /\ in_service.slave = {irq})
    BY <1>1
  <2>. QED
    BY <2>1, OneEnds
<1>4. in_service' = [master |-> Ended(in_service.master), slave |-> {}]
  BY <1>3 DEF irq_ack
<1>. QED
  BY <1>2, <1>4, NoneLeft

(* Steps that handle no interrupt, neither before nor after. *)
LEMMA NothingToAck ==
  ASSUME InService, Handled = {}, Handled' = {}, in_service' = in_service
  PROVE  InService'
<1>1. in_service.master \in SUBSET {7} /\ in_service = [master |-> in_service.master, slave |-> {}]
  BY NoneHandled DEF InService
<1>. QED
  BY <1>1, NoneLeft

(* What is handled in the next state. *)
LEMMA WhatIsHandledNext ==
  /\ at' # "isr_handler" => Handled' = {}
  /\ \A irq \in (0 .. 15) \ {7} : Serving(32 + irq)' => Handled' = {irq}
  /\ \A n \in {14, 39, 128} : Serving(n)' => Handled' = {}
<1>1. \A irq \in 0 .. 15, other \in 0 .. 15 : 32 + irq = 32 + other => irq = other
  OBVIOUS
<1>2. \A irq \in (0 .. 15) \ {7} : 32 + irq \notin {14, 39, 128}
  OBVIOUS
<1>. QED
  BY <1>1, <1>2 DEF Handled, Serving

(* An interrupt comes in service when its handling begins: a line that the *)
(* controllers have in service, or one that they only answer with.         *)
LEMMA IrqServed ==
  ASSUME ContextAssumption, IInv, NEW irq \in Irqs, Irq(irq) \/ Spurious(irq)
  PROVE  IInv'
<1>1. irq \in 0 .. 15 /\ 32 + irq \in Nat /\ 32 + irq # 128
  BY ContextAssumption
<1>2. /\ Types /\ Placed /\ Suspended /\ Directories /\ NothingInR15 /\ InService
  BY DEF IInv
<1>3. /\ interrupts /\ at \in {"user", "isr_return", "_idle"}
      /\ isr_common(32 + irq) /\ expected' = expected /\ uses_r15' = uses_r15
  BY DEF Irq, Spurious, Accepting, programs
<1>4. /\ Types' /\ Placed' /\ Suspended' /\ Directories' /\ NothingInR15'
      /\ Serving(32 + irq)'
  BY <1>1, <1>2, <1>3, EntryLeads
<1>5. Handled = {}
  BY <1>3, WhatIsHandled
<1>6. PICK lines \in SUBSET {7} : in_service = [master |-> lines, slave |-> {}]
  <2>1. /\ in_service.master \in SUBSET {7}
        /\ in_service = [master |-> in_service.master, slave |-> {}]
    BY <1>2, <1>5, NoneHandled DEF InService
  <2>. QED
    BY <2>1
<1>7. CASE irq = 7
  <2>1. PICK more \in SUBSET {7} : in_service' = [master |-> more, slave |-> {}]
    <3>1. CASE Irq(irq)
      <4>1. in_service' = [master |-> lines \cup {7}, slave |-> {} \cup {}]
        BY <1>6, <1>7, <3>1 DEF Irq
      <4>. QED
        BY <4>1
    <3>2. CASE Spurious(irq)
      <4>1. in_service' = in_service
        BY <1>7, <3>2 DEF Spurious
      <4>. QED
        BY <1>6, <4>1
    <3>. QED
      BY <3>1, <3>2
  <2>2. Handled' = {}
    BY <1>4, <1>7, WhatIsHandledNext
  <2>3. InService'
    BY <2>1, <2>2, NoneLeft
  <2>. QED
    BY <1>4, <2>3 DEF IInv
<1>8. CASE irq # 7
  <2>1. PICK below \in SUBSET (IF irq < 8 THEN {} ELSE {irq}) :
          in_service' = [master |-> lines \cup {Line(irq)}, slave |-> below]
    <3>1. CASE Irq(irq)
      <4>1. in_service' = [master |-> lines \cup {Line(irq)},
                           slave |-> {} \cup (IF irq < 8 THEN {} ELSE {irq})]
        BY <1>6, <3>1 DEF Irq, Line
      <4>. QED
        BY <4>1
    <3>2. CASE Spurious(irq)
      <4>1. irq = 15 /\ in_service' = [in_service EXCEPT !.master = @ \cup {2}]
        BY <1>8, <3>2 DEF Spurious
      <4>2. in_service' = [master |-> lines \cup {2}, slave |-> {}]
        BY <1>6, <4>1
      <4>3. Line(irq) = 2
        BY <4>1 DEF Line
      <4>. QED
        BY <4>2, <4>3
    <3>. QED
      BY <3>1, <3>2
  <2>2. Handled' = {irq}
    BY <1>1, <1>4, <1>8, WhatIsHandledNext
  <2>3. {Line(i) : i \in {irq}} = {Line(irq)} /\ Line(irq) # 7
    BY <1>1, <1>8 DEF Line
  <2>4. {i \in {irq} : i >= 8} = IF irq < 8 THEN {} ELSE {irq}
    BY <1>1
  <2>5. (lines \cup {Line(irq)}) \ {7} = {Line(irq)}
    BY <2>3
  <2>6. in_service'.master = lines \cup {Line(irq)} /\ in_service'.slave = below
    BY <2>1
  <2>7. InService'
    BY <2>1, <2>2, <2>3, <2>4, <2>5, <2>6 DEF InService
  <2>. QED
    BY <1>4, <2>7 DEF IInv
<1>. QED
  BY <1>7, <1>8
-----------------------------------------------------------------------------
(* The invariant. *)

(* The first program starts with empty stacks. *)
LEMMA InitHolds ==
  ASSUME ContextAssumption, Init
  PROVE  IInv
<1>1. Pids \subseteq Threads /\ Idle \in Threads /\ Idle \notin Pids /\ 1 \in Pids /\ 1 \in Threads
  BY ContextAssumption DEF Threads, Pids, Idle
<1>2. Word(0) \in Words
  BY DEF Word, Words
<1>3. reg \in Files /\ reg["r15"] = Word(0)
  BY <1>2, NamedRegisters DEF Init, Files
<1>4. /\ thread \in [Threads -> Context]
      /\ \A p \in Threads : /\ thread[p].sp = <<p, 0>> /\ thread[p].saved4 = Word(0)
                            /\ thread[p].page_directory = [of |-> p, low |-> 0]
      /\ thread[Idle].ip = "_idle"
  <2>1. ASSUME NEW p \in Threads, NEW ip \in {"_idle", "unused"}
        PROVE  NewThread(p, ip) \in Context
    <3>1. <<p, 0>> \in (Threads \cup {0}) \X Nat /\ [of |-> p, low |-> 0] \in Directory
      BY DEF Directory
    <3>2. [r \in Saved |-> Word(0)] \in [Saved -> Words]
      BY <1>2
    <3>. QED
      BY <1>2, <3>1, <3>2 DEF NewThread, Context, Places
  <2>2. thread = [p \in Threads |-> NewThread(p, IF p = Idle THEN "_idle" ELSE "unused")]
    BY DEF Init
  <2>3. \A p \in Threads : /\ NewThread(p, "_idle").sp = <<p, 0>> /\ NewThread(p, "unused").sp = <<p, 0>>
                           /\ NewThread(p, "_idle").saved4 = Word(0) /\ NewThread(p, "unused").saved4 = Word(0)
                           /\ NewThread(p, "_idle").page_directory = [of |-> p, low |-> 0]
                           /\ NewThread(p, "unused").page_directory = [of |-> p, low |-> 0]
                           /\ NewThread(p, "_idle").ip = "_idle"
    BY DEF NewThread
  <2>. QED
    BY <1>1, <2>1, <2>2, <2>3
<1>5. stack \in [Threads -> Seq(Stacked)] /\ \A p \in Threads : Len(stack[p]) = 0
  BY DEF Init
<1>6. [of |-> 1, low |-> 0] \in Directory
  BY <1>1 DEF Directory
<1>7. Types
  <2>1. /\ current_process = 1 /\ ready = <<>> /\ kernel_stack = 0 /\ rsp = <<0, 0>>
        /\ at = "elf_exec" /\ interrupts = FALSE /\ current_pml = [of |-> 1, low |-> 0]
        /\ expected = [p \in Pids |-> reg] /\ uses_r15 = FALSE
    BY DEF Init
  <2>2. expected \in [Pids -> Files] /\ ready \in Seq(Pids)
    BY <1>3, <2>1
  <2>. QED
    BY <1>1, <1>3, <1>4, <1>5, <1>6, <2>1, <2>2 DEF Types, Places
<1>8. Placed
  BY <1>1 DEF Init, Placed, InProcess, InKernel
<1>9. Suspended
  <2>1. ready = <<>> /\ DOMAIN ready = {} /\ current_process = 1
    BY DEF Init
  <2>. QED
    BY <1>1, <1>4, <2>1 DEF Suspended, Started
<1>10. Directories
  <2>1. current_pml.of = 1 /\ current_process = 1
    BY DEF Init
  <2>2. \A p \in Threads : thread[p].page_directory.of = p
    <3>. SUFFICES ASSUME NEW p \in Threads PROVE thread[p].page_directory.of = p
      OBVIOUS
    <3>1. thread[p].page_directory = [of |-> p, low |-> 0]
      BY <1>4
    <3>. QED
      BY <3>1
  <2>. QED
    BY <2>1, <2>2 DEF Directories
<1>11. NothingInR15
  <2>1. \A p \in Pids : expected[p]["r15"] = Word(0)
    BY <1>3 DEF Init
  <2>2. \A p \in Threads : thread[p].page_directory.low = 0
    <3>. SUFFICES ASSUME NEW p \in Threads PROVE thread[p].page_directory.low = 0
      OBVIOUS
    <3>1. thread[p].page_directory = [of |-> p, low |-> 0]
      BY <1>4
    <3>. QED
      BY <3>1
  <2>3. \A p \in Threads : 1 .. Len(stack[p]) = {}
    BY <1>5
  <2>4. \A p \in Threads : thread[p].saved4 = Word(0)
    BY <1>4
  <2>. QED
    BY <1>3, <2>1, <2>2, <2>3, <2>4 DEF NothingInR15
<1>12. InService
  <2>1. Handled = {}
    BY WhatIsHandled DEF Init
  <2>2. in_service = [master |-> {}, slave |-> {}]
    BY DEF Init
  <2>3. {Line(i) : i \in {}} = {} /\ {} \ {7} = {}
    OBVIOUS
  <2>. QED
    BY <2>1, <2>2, <2>3 DEF InService
<1>. QED
  BY <1>7, <1>8, <1>9, <1>10, <1>11, <1>12 DEF IInv

(* Handlers of interrupts. *)
LEMMA HandlersKeep ==
  ASSUME ContextAssumption, IInv, timer_handler \/ Ignore \/ \E irq \in Irqs : handle_irq(irq)
  PROVE  IInv'
<1>1. Types /\ Placed /\ Suspended /\ Directories /\ NothingInR15 /\ InService
  BY DEF IInv
<1>2. ASSUME NEW irq \in Irqs, handle_irq(irq) PROVE IInv'
  <2>1. /\ Serving(32 + irq) /\ irq \in (0 .. 15) \ {7} /\ irq_ack(irq) /\ Return
        /\ interrupts' = interrupts /\ at' = "isr_return" /\ at = "isr_handler"
    BY <1>2, ContextAssumption DEF handle_irq, Return, Serving
  <2>2. Types' /\ Placed' /\ Suspended' /\ Directories' /\ NothingInR15'
    BY <1>1, <2>1, HandlerReturns
  <2>3. Handled = {irq} /\ Handled' = {}
    BY <2>1, WhatIsHandled, WhatIsHandledNext
  <2>4. InService'
    BY <1>1, <2>1, <2>3, AckEnds
  <2>. QED
    BY <2>2, <2>4 DEF IInv
<1>3. CASE timer_handler
  <2>1. /\ Serving(32) /\ irq_ack(0) /\ switch_task
        /\ stack' = stack /\ expected' = expected /\ uses_r15' = uses_r15
    BY <1>3 DEF timer_handler, programs
  <2>2. at \in InKernel /\ Top.int_no \in {32, 128}
    BY <2>1 DEF Serving, InKernel
  <2>3. /\ Types' /\ Placed' /\ Suspended' /\ Directories' /\ NothingInR15'
        /\ at' # "isr_handler"
    BY <1>1, <2>1, <2>2, TaskLeads
  <2>4. 0 \in (0 .. 15) \ {7} /\ 32 + 0 = 32
    OBVIOUS
  <2>5. Handled = {0} /\ Handled' = {}
    BY <2>1, <2>3, <2>4, WhatIsHandled, WhatIsHandledNext
  <2>6. InService'
    BY <1>1, <2>1, <2>4, <2>5, AckEnds
  <2>. QED
    BY <2>3, <2>6 DEF IInv
<1>4. CASE Ignore
  <2>1. /\ Serving(39) \/ Serving(14)
        /\ Return /\ interrupts' = interrupts /\ in_service' = in_service
        /\ at' = "isr_return" /\ at = "isr_handler"
    BY <1>4 DEF Ignore, Return, Serving
  <2>2. Types' /\ Placed' /\ Suspended' /\ Directories' /\ NothingInR15'
    BY <1>1, <2>1, HandlerReturns
  <2>3. Handled = {} /\ Handled' = {}
    BY <2>1, WhatIsHandled, WhatIsHandledNext
  <2>4. InService'
    BY <1>1, <2>1, <2>3, NothingToAck
  <2>. QED
    BY <2>2, <2>4 DEF IInv
<1>. QED
  BY <1>2, <1>3, <1>4

(* System calls. *)
LEMMA CallsKeep ==
  ASSUME ContextAssumption, IInv, SimpleCall \/ Fork \/ Exit \/ Wait \/ WaitEnds \/ Exec
  PROVE  IInv'
<1>1. Types /\ Placed /\ Suspended /\ Directories /\ NothingInR15 /\ InService
  BY DEF IInv
<1>2. /\ at \in InKernel /\ Top.int_no = 128 /\ Handled = {}
  <2>1. Serving(128) \/ at = "waitpid"
    BY DEF SimpleCall, Fork, Exit, Wait, WaitEnds, Exec
  <2>2. CASE Serving(128)
    BY <2>2, WhatIsHandled DEF Serving, InKernel
  <2>3. CASE at = "waitpid"
    BY <1>1, <2>3, WhatIsHandled DEF Placed, InKernel
  <2>. QED
    BY <2>1, <2>2, <2>3
<1>3. current_process \in Int
  BY <1>1, ContextAssumption DEF Types, Threads, Pids, Idle
<1>4. /\ Types' /\ Placed' /\ Suspended' /\ Directories' /\ NothingInR15'
      /\ at' # "isr_handler" /\ in_service' = in_service
  <2>1. \A n \in Int : Word(n) \in Words
    BY DEF Word, Words
  <2>2. CASE SimpleCall
    <3>1. PICK rval : rval = IF Number > LastCall THEN Word(-22)
                             ELSE IF Number = SYS_GETPID THEN Word(current_process) ELSE Word(0)
      OBVIOUS
    <3>2. rval \in Words
      BY <1>3, <2>1, <3>1
    <3>3. Answer(rval) /\ UNCHANGED switching
      BY <2>2, <3>1 DEF SimpleCall, Answer
    <3>. QED
      BY <1>1, <1>2, <3>2, <3>3, AnswerLeads
  <2>3. CASE WaitEnds
    <3>1. PICK rval \in Words : rval = Word(0)
      BY <2>1
    <3>2. Answer(rval) /\ UNCHANGED switching
      BY <2>3, <3>1 DEF WaitEnds, Answer
    <3>. QED
      BY <1>1, <1>2, <3>2, AnswerLeads
  <2>4. CASE Fork
    BY <1>1, <2>4, ForkLeads
  <2>5. CASE Exit
    <3>1. /\ switch_next(ready, thread) /\ in_service' = in_service
          /\ stack' = stack /\ expected' = expected /\ uses_r15' = uses_r15
      BY <2>5 DEF Exit, programs
    <3>. QED
      BY <1>1, <3>1, NextLeads
  <2>6. CASE Wait
    <3>1. /\ switch_task /\ in_service' = in_service
          /\ stack' = stack /\ expected' = expected /\ uses_r15' = uses_r15
      BY <2>6 DEF Wait, programs
    <3>2. Top.int_no \in {32, 128}
      BY <1>2
    <3>. QED
      BY <1>1, <1>2, <3>1, <3>2, TaskLeads
  <2>7. CASE Exec
    BY <1>1, <2>7, ExecLeads
  <2>. QED
    BY <2>2, <2>3, <2>4, <2>5, <2>6, <2>7
<1>5. Handled' = {}
  BY <1>4, WhatIsHandledNext
<1>6. InService'
  BY <1>1, <1>2, <1>4, <1>5, NothingToAck
<1>. QED
  BY <1>4, <1>6 DEF IInv

(* Entries that no controller knows of. *)
LEMMA EntriesKeep ==
  ASSUME ContextAssumption, IInv, Int128 \/ PageFault
  PROVE  IInv'
<1>1. Types /\ Placed /\ Suspended /\ Directories /\ NothingInR15 /\ InService
  BY DEF IInv
<1>2. ASSUME NEW n \in {14, 128}, isr_common(n), at = "user" \/ Serving(128),
             n = 128 => at = "user",
             in_service' = in_service, expected' = expected, uses_r15' = uses_r15
      PROVE  IInv'
  <2>1. n \in Nat /\ (at \in {"user", "_idle", "isr_return"} \/ Serving(128))
    BY <1>2
  <2>2. /\ Types' /\ Placed' /\ Suspended' /\ Directories' /\ NothingInR15'
        /\ Serving(n)'
    BY <1>1, <1>2, <2>1, EntryLeads
  <2>3. Handled = {}
    BY <1>2, WhatIsHandled
  <2>4. Handled' = {}
    BY <2>2, WhatIsHandledNext
  <2>5. InService'
    BY <1>1, <1>2, <2>3, <2>4, NothingToAck
  <2>. QED
    BY <2>2, <2>5 DEF IInv
<1>3. CASE Int128
  BY <1>2, <1>3 DEF Int128, programs
<1>4. CASE PageFault
  BY <1>2, <1>4 DEF PageFault, programs
<1>. QED
  BY <1>3, <1>4

(* Returns, and steps of programs and of the idle loop. *)
LEMMA ReturnsKeep ==
  ASSUME ContextAssumption, IInv,
         enter_userspace \/ SwitchedBack \/ isr_return \/ resume_user \/ _idle \/ Compute
  PROVE  IInv'
<1>1. Types /\ Placed /\ Suspended /\ Directories /\ NothingInR15 /\ InService
  BY DEF IInv
<1>2. /\ Types' /\ Placed' /\ Suspended' /\ Directories' /\ NothingInR15'
      /\ at # "isr_handler" /\ (at' = "isr_handler" => Serving(128)')
      /\ in_service' = in_service
  <2>1. CASE enter_userspace
    BY <1>1, <2>1, EnterLeads
  <2>2. CASE SwitchedBack
    <3>1. at = "switch_task"
      BY <2>2 DEF SwitchedBack
    <3>. QED
      BY <1>1, <2>2, <3>1, BackLeads
  <2>3. CASE isr_return
    <3>1. Pop(Popped) /\ Popped \in {Popped, Resumed} /\ at = "isr_return" /\ in_service' = in_service
      BY <2>3 DEF isr_return, Pop
    <3>. QED
      BY <1>1, <3>1, ReturnLeads
  <2>4. CASE resume_user
    <3>1. Pop(Resumed) /\ Resumed \in {Popped, Resumed} /\ at = "resume_user" /\ in_service' = in_service
      BY <2>4 DEF resume_user, Pop
    <3>. QED
      BY <1>1, <3>1, ReturnLeads
  <2>5. CASE _idle
    BY <1>1, <2>5, IdleLeads
  <2>6. CASE Compute
    BY <1>1, <2>6, ComputeLeads
  <2>. QED
    BY <2>1, <2>2, <2>3, <2>4, <2>5, <2>6
<1>3. Handled = {} /\ Handled' = {}
  BY <1>2, WhatIsHandled, WhatIsHandledNext
<1>4. InService'
  BY <1>1, <1>2, <1>3, NothingToAck
<1>. QED
  BY <1>2, <1>4 DEF IInv

(* Each step keeps the invariant. *)
LEMMA StepsKeep ==
  ASSUME ContextAssumption, IInv, [Next]_vars
  PROVE  IInv'
<1>1. ASSUME NEW irq \in Irqs, Irq(irq) \/ Spurious(irq) PROVE IInv'
  BY <1>1, IrqServed
<1>2. CASE timer_handler \/ Ignore \/ \E irq \in Irqs : handle_irq(irq)
  BY <1>2, HandlersKeep
<1>3. CASE SimpleCall \/ Fork \/ Exit \/ Wait \/ WaitEnds \/ Exec
  BY <1>3, CallsKeep
<1>4. CASE Int128 \/ PageFault
  BY <1>4, EntriesKeep
<1>5. CASE enter_userspace \/ SwitchedBack \/ isr_return \/ resume_user \/ _idle \/ Compute
  BY <1>5, ReturnsKeep
<1>6. CASE UNCHANGED vars
  <2>1. /\ current_process' = current_process /\ ready' = ready /\ thread' = thread
        /\ kernel_stack' = kernel_stack /\ stack' = stack /\ rsp' = rsp /\ reg' = reg
        /\ at' = at /\ interrupts' = interrupts /\ current_pml' = current_pml
        /\ in_service' = in_service /\ expected' = expected /\ uses_r15' = uses_r15
    BY <1>6 DEF vars
  <2>2. Types' /\ Directories' /\ NothingInR15'
    BY <2>1 DEF IInv, Types, Directories, NothingInR15
  <2>3. Top' = Top
    BY <2>1 DEF Top
  <2>4. Placed'
    <3>1. Placed
      BY DEF IInv
    <3>2. Framed(current_process, rsp[2])' <=> Framed(current_process, rsp[2])
      BY <2>1 DEF Framed, First, Further, Holds
    <3>. QED
      BY <2>1, <2>3, <3>1, <3>2 DEF Placed
  <2>5. Suspended'
    BY <2>1, <2>2, SuspendedStays DEF IInv
  <2>6. InService'
    BY <2>1 DEF IInv, InService, Handled, Serving, Top
  <2>. QED
    BY <2>2, <2>4, <2>5, <2>6 DEF IInv
<1>. QED
  BY <1>1, <1>2, <1>3, <1>4, <1>5, <1>6 DEF Next
-----------------------------------------------------------------------------
(* A program finds its registers and its address space, for any number of  *)
(* processes, any depth of interrupts and any width of a register.         *)
THEOREM UserStateIsKept == Spec => []UserStateSurvives
<1>1. IInv => UserStateSurvives
  <2>. SUFFICES ASSUME IInv PROVE UserStateSurvives
    OBVIOUS
  <2>1. Idle \notin Pids
    BY ContextAssumption DEF Pids, Idle
  <2>. QED
    BY <2>1 DEF IInv, UserStateSurvives, Placed, InProcess, Directories, NothingInR15
<1>. QED
  BY <1>1, InitHolds, StepsKeep, ContextAssumption, PTL DEF Spec

(* Whenever interrupts are accepted none is in service but line 7, which   *)
(* nothing ends and which holds back nothing else.                         *)
THEOREM InterruptsAreEnded == Spec => []InterruptsStayPossible
<1>1. IInv => InterruptsStayPossible
  <2>. SUFFICES ASSUME IInv, interrupts
                PROVE  in_service.master \subseteq {7} /\ in_service.slave = {}
    BY DEF InterruptsStayPossible
  <2>1. at # "isr_handler"
    BY DEF IInv, Placed
  <2>. QED
    BY <2>1, WhatIsHandled, NoneHandled DEF IInv
<1>. QED
  BY <1>1, InitHolds, StepsKeep, ContextAssumption, PTL DEF Spec
=============================================================================
