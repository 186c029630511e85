# Voxel in TLA+

Voxel is a small x86-64 kernel with a C library, a shell and a tool that writes
its ramdisk. This directory holds TLA+ modules that model its core, TLC
configurations that check them on small instances, and theorems that TLAPS
checks for every value of the constants. Every definition is translated from the
source; `PROJECT.json` gives the lines of each one, the faulty variant of the
code that each property catches, the hazards and the components.

    tlasany M.tla                        parse a module
    tlc -workers 2 -config X.cfg M       run a check (see "Runs")
    tlapm FrameAllocatorProofs.tla       check the proofs of a module

## 1. Inventory

The kernel runs on one processor. System calls, faults and interrupt handlers
run with interrupts off, so that what interleaves is: whole system calls of
different processes, timer and keyboard interrupts in user code and in the idle
loop, and the places where a system call gives up the processor itself
(`switch_task` in `sys_waitpid`, `switch_next` in `process_exit`). There is no
persistent storage: nothing survives a restart.

| component | state | operations | interacts with | what makes it correct |
|---|---|---|---|---|
| frame allocator, `kernel/cpu/mmu.c` | bitmap `frames`, hint `lowest_available`, counts | `mmu_init`, request, lock, release, used memory | everything that needs a page: malloc, page tables, tmpfs blocks, kernel stacks | no frame twice, none hidden, none lost; the used memory reported is the used memory |
| copy-on-write memory, `mmu.c`, `elf.c`, `syscall.c` | four levels of page tables, 8-bit `mem_refcounts`, contents of frames | fork, write fault, exec, exit, sbrk, check of user pointers | frame allocator; process life cycle | every process sees memory of its own; counts are the number of sharers; the last sharer releases; tables hang in one place and go with their directory |
| processes and scheduler, `process.c`, `tree.c`, `timer.c`, `syscall.c` | intrusive run queue, delete queue, process tree, flags | fork, exit, waitpid, timer tick, idle | memory (a switch loads the page directory), descriptors (exit closes them) | the queue holds the processes that can run; all of them do run; zombies go; waiters return |
| ring buffer, `lib/ringbuffer.c` | two indices, bytes | read, write | terminal | first in, first out, for transfers of any length |
| keyboard and terminal line, `kbd.c`, `tty.c` | Shift, Caps Lock, `pty->in` | keyboard interrupt, `tty_input_process`, read | ring buffer; any number of readers | every character once, in order, in the case it was typed in, unless counted as dropped |
| tmpfs, `sys/fs/tmpfs.c` | directories, files, blocks | create, mkdir, symlink, unlink, read, write, truncate | frame allocator; VFS; descriptors | files are independent byte sequences; each frame belongs to one block of one file |
| file descriptors, `process.c`, `syscall.c` | `fds` of each process, a malloc'ed node for each | open, close, dup2, read, write, seek, fork, exec, exit, unlink | tmpfs, pty map, malloc | each node has one owner; descriptors are values; offsets stay inside files |
| paths and mountpoints, `vfs.c` | tree of names, table of mounts | `kopen`, create, mkdir, symlink, unlink | tmpfs; `sys_open` | a path leads where its names lead; what was made is found |
| buffered streams, `libc/stdio.c` | a FILE: read buffer, pushed back byte, pending bytes, remembered positions | fopen, freopen, setvbuf, fclose, fgetc, fputc, fflush, fseek, ftell, ungetc | descriptors; other processes that write the file | the program sees one file with one position |
| ramdisk, `ramdiskfs_tool/main.c`, `ramdiskfs.c`, `kmain.c` | image of linked entries; positions of two recursions | write the image, list it, copy it into tmpfs | tmpfs; the host's `readdir` | the root file system is the directory the image was made of |
| kernel heap, `lib/alloc.c` | none besides frames: every block has frames of its own | malloc, free, realloc | frame allocator | follows from the allocator |
| program loader, `elf.c` | none | `elf_exec` | memory, descriptors | (its pages are in CowMemory and PageTables) |
| context switch and interrupt entry, `process.s`, `isr.s`, `idt.c`, `process.c`, `syscall.c` | registers, kernel stacks, `thread` of each process, the interrupt controllers | interrupt and system call entry and return, `irq_ack`, switch, fork, exec, exit, first entry of a program | scheduler; memory (page directory) | a program finds its registers and its address space; interrupts stay possible |
| formatted output, `libc/stdio.c` | the string being written | `vfprintf`, `vsprintf`, `vsnprintf` | buffered streams | the text is the one that C says; no byte beyond the size given |
| strings of the C library, `libc/string.c`, `libc/stdlib.c` | the strings of the caller | `memmove`, `strcat`, `strstr`, `strcmp`, `strtok_r`, `atoi` | any program | overlapping moves, tokens and searches give what they should |
| kernel formatting and screens, `lib/kprintf.c`, `lib/terminal.c`, `video/*.c` | cursor and memory of the VGA and the framebuffer driver | `kprintf`, `puts`, change of driver | every part of the kernel that reports; the terminal line's output | the screen shows the last lines put, none lost by the change of driver |
| other system calls, other devices, machine set-up, programs | see PROJECT.json | | | |

What is hard to test here: the order in which sharers of a page fork, write,
exec and exit; a run queue whose links are reused for deletion and by the next
process at the same address; polling inside `sys_waitpid`; nodes copied and
freed by four different calls; three different walks over the same path string;
ends of buffers, blocks and words; positions kept twice; a switch in the middle of
an interrupt within a system call. The hazards in `PROJECT.json` name each one at its line with the properties that guard it, or
the reason why none does.

## 2. Modules and the code

Abstract specifications are in the third column; each is checked as a PROPERTY
of the detailed module through `INSTANCE ... WITH`.

| module | models | implements | MC module |
|---|---|---|---|
| FrameOps | the pure part of the allocator: probe, lock, release, search | | |
| FrameAllocator | boot, requests, releases | FrameSet | |
| CowMemory | address spaces over FrameOps | PrivateMemory | MCCowMemory |
| PageTables | the four levels of tables of each address space, over FrameOps | AddressSpaces | MCPageTables |
| Scheduler | processes, queues, tree, timer | | MCScheduler |
| RingBuffer | the ring | BoundedFifo | |
| Tty | keyboard to reader, composed with RingBuffer (`pty->in`) | BoundedFifo | MCTty |
| BlockPieces | how a transfer is cut at blocks | | MCTmpfs |
| Tmpfs | one directory and its files, over BlockPieces | FlatFiles | MCTmpfs |
| FileTable | descriptors of all processes | Descriptors | MCFileTable |
| Vfs | paths, mounts, names | Namespace | MCVfs |
| Stdio | one stream over one file | FileStream | MCLibrary |
| Ramdisk | image tool, reader, boot copy | (compared with the tree at the end) | MCRamdisk |
| ContextSwitch | registers, kernel stacks, interrupt controllers | | MCContextSwitch |
| Numerals | numbers as text, and what C says of them | | |
| PrintfOps, Formatting | `_printf` of the C library; its callers | (compared with StandardText) | |
| Strings | two strings of a program in one memory | (compared with definitions over sequences) | |
| Console | `kvprintf`; the two screens of the kernel | (compared with StandardDirectiveText and endless paper) | |
| Library | Formatting, Stdio, Strings and Console side by side | | MCLibrary |
| FrameAllocatorProofs, CowMemoryProofs, SchedulerProofs, TtyProofs, FileSystemProofs, FileTableProofs, LibraryProofs, ContextSwitchProofs | theorems about the module they are named after, TtyProofs also about RingBuffer; FileSystemProofs about Tmpfs and Vfs; LibraryProofs about Stdio, Console, Strings and Formatting, and through them about Library | | |

**FrameOps, FrameAllocator.** A bitmap is the set of locked frames. A word of
`WordBits` frames that is all ones is skipped, as in `mmu_request_frame`. The
failed request's `(uintptr_t) -1` is `NoFrame`, and `AllocateFrames` locks from
there as the callers do. `MarkAvailable` is the memory map marker and may come in any
number and order; `FinishInit` locks the kernel image and takes the count that
`mmu_used_memory` subtracts ever after. `held` is what callers got and not yet
released, a history variable.

**CowMemory.** `table[p][v]` is the last-level entry of page v of process p;
`op` is the loop of `mmu_clone`, `mmu_free` or `elf_exec` in progress, one page an
action, since the loops request and release frames between pages. `Store`
needs a writable entry; `CopyOnWrite` is the fault that makes one. Contents of
frames matter only as equal or different. The four levels of tables are one
frame here, as they are allocated and freed together; PageTables has them. `tainted` records that a count
has saturated, or that a page that sbrk had given up was mapped again; nothing
is claimed behind it (see section 6).

**PageTables.** `mem.tables[f]` is what frame f holds as a table, and the bodies of
`mmu_lookup_frame`, `mmu_clone`, `mmu_free`, `mmu_copy_on_write` and `mmu_validate_user` are
functions from one `mem` to the next, since each runs to its end with interrupts off; their loops
are folds, in the order of the code. A call that finds no frame does not return. The hint of the
bitmap is left out: that it changes nothing is `ImplementsFrameSet`, which is proved. What the four
levels come to, one frame and one permission for each page, is AddressSpaces.

**Scheduler.** Slots are addresses of `process_t`, reused after `free` with their
old fields, which is why `next` survives. `switch_next` is three actions
(`DeleteQueued`, `PickNext`, `PickIdle`); the loop of `sys_waitpid` is `WaitLoop`.
`drained` and `dangling` are history variables: the tail was dequeued with a stale
`next`; memory was used that an earlier call freed, so that `malloc` may have given it away.
What one deletion frees, reads and frees again (section 6) is not dangling: `Delete` is one
step, with both frees, since interrupts are off and nothing is requested between them.

**Tty.** The user's view of Shift and Caps Lock (`down`, `locked`) is apart from the
handler's (`_kbd_shift`, `_kbd_caps_lock`), and each scancode carries the character
that was meant, so that a late handler can be compared with the typist. `handed` is a history
of what the keyboard gave the line, `echoed` of what the line took of it: all but `CR`. Tty EXTENDS
RingBuffer: `rb` is `pty->in`, the keyboard writes to it and the readers read from it, and
what RingBuffer promises to one user (`ImplementsFifo`) is checked again in this use.

**Tmpfs.** `inode`, `files`, `mem`, `free` follow the structures; `OthersTake` and
`OthersRelease` are the rest of the kernel using the same frames, `malloc` among it, which gives every
entry a frame for its array of blocks or entries. `unlink` releases the blocks of a file and never their array:
that frame is in `lost`, and `removed` counts the removals. A new block holds what its frame held before.

**FileTable.** `node` is the memory of malloc'ed `fs_node_t`s, `fds` the arrays. A
node's `length` is what it was at open. `linked` is what a path still finds;
closing any descriptor of a pty unlinks it, as `close_pty_slave` does. `leaked` has the nodes that
nothing leads to any more: the one that `sys_execve` opens for the program, which `elf_exec` closes and nobody frees,
or not even closes if it is an ELF file of another class or type, and the one of the directory in
`create_file`, whether it succeeds or not. `forgets` counts the programs run and files created. `strayed`
records that a program truncated a file with contents or sought past the end.

**Vfs.** Strings are sequences of letters and slashes, a letter being a whole
name. `Tokens`, `FileName` and `Parent` are the three walks of the code over
the string, each translated by itself: `Tokens` gives the places where `_kopen` puts a zero, with the
name before it and the whole string up to it, and `Walk` is `wd` after each character, so that
`OPEN_FLAG_PARENT` is the walk one place before the last token's end. `pty_map` has the ptys in the
list of tty.c; kmain makes one. `close_fs` of a pty takes it out. The calls that make or remove a name close the
node they take for the directory before they can fail, and `Close` is every other call that opens a path and closes
it. `VfsSpec` is the specification; kmain mounts first, then processes call.

**Stdio.** `fgetc`, `fputc`, `fseek` and `ftell` are the bodies of `_read_bytes`,
`_write_bytes` and the two positioning calls with the system calls they make;
`fread`, `fgets`, `fwrite` are loops of them. `course` records whether the
program has used the stream in one direction; `freopen` and `fseek` keep the position that the
last read started at. Another process may add to the file at any time (`Grow`), also while bytes wait
to be written; FileStream therefore tells `saved`, what others see, from `content`, what the
program sees. `StdioSpec` is the specification of a stream alone, which the theorems are about, as `FormattingSpec`,
`StringsSpec` and `ConsoleSpec` are of theirs.

**ContextSwitch.** `at` is where the processor is: in user code, at the places in the kernel
where something is called that matters here, in `switch_task`, in the idle loop. `stack` has the
frames that `isr_common` pushed on each kernel stack and `rsp` how many of them are in
use, so that a frame that was popped is gone and the next one goes over it. A register is a
sequence of bytes, because `save_context` puts r15 one byte beside its place. The orders
in which registers are pushed and popped are sequences taken from the assembly text. An
interrupt is possible only when the two controllers have nothing in service that holds it
back. `Irq` is a line that asks, of any number, 7 among them, which `pic_remap` lets through and
`handle_irq` never ends; `Spurious` is 7 or 15 answered by a controller with nothing in service for it. `expected` (what each program must find) and `uses_r15` are history variables.

**PrintfOps, Formatting.** A format is a sequence of items with the fields that the loops of
`_printf` fill in, and `_printf` the text that the items give. Formatting hands
this text on character by character, as the callbacks do, to a string or a stream.
`StandardConversion` says for which items the code does what C says: it is a precondition
of `TextFollowsC`, and section 6 lists what lies outside.

**Strings.** Two strings lie in one memory with room behind each; `memmove` takes any two places
of it. The loops of `memmove` and `strcpy` are one action a byte, with their variables in `loop`, where
`before` is a history variable, the memory before the call. `strtok_r` is one action a call, for both strings
in turn, each with its own `saveptr` and delimiters. Bytes are moved only in the memory of the strings in
`Movable`, a bound: what `memmove` copies does not matter to it, and those have a character in each
place and a nearly full memory, for every source, destination and size.

**Console.** `screen` has the cursor and the memory of the drivers: the VGA cells, the
copy of the framebuffer in memory and the framebuffer. `paper` is what was put, on endless paper;
`muddled` records that the VGA screen had started over when it was left. One character
is one action, also in `lfb_copy_from_vga`, whose variables are in `copying`. Nothing else is put while it
runs: the keyboard and the timer come later in `kmain`.

**Library.** The four share no state and a program makes one call at a time; `side` chooses in
the initial state which one a behaviour is about.

**Ramdisk.** `calls` is the stack of `create_directory`, one action a turn of its
loop, and `copies` that of `copy_directory`. Offsets are real: entries, texts and
links lie at the offsets the tool computes with `ftell` and sizes.

## 3. Runs

Every run ends without error. Bounds are CONSTANTS of the .cfg. What frames, cow_saturation, sched_safety, tty,
tmpfs, file_table and context check, and library but for the text of single conversions, is also proved for all values of the
constants (section 4).

| run | module / cfg | properties | instance, and why it is enough |
|---|---|---|---|
| frames | FrameAllocator | HintSound, HeldStaysLocked, UsedMemoryExact, ImplementsFrameSet | 8 frames, words of 3 (two whole and a partial one), runs of up to 2 |
| cow_saturation | MCCowMemory / CowSaturation | RefcountExact, FramesAccounted, MemoryIsPrivate | 3 processes, 1 page, limit 2: the limit is reached and left, three sharers come and go in every order, heaps shrink |
| page_tables | MCPageTables / PageTables | SpacesAreWhole, TablesActAsOne | 3 processes, tables of 2 entries, so that the user half has 8 pages behind 1, 2 and 4 tables; a program, a heap and a stack of one page each, in three of the last tables; pointers into each, across them and beyond; 37 frames, two fewer than three processes that share nothing would have |
| sched_safety | MCScheduler / SchedulerSafety | QueueHoldsReady, ZombiesAreAwaited, OnlyExitDrains | 4 slots, any program: queues of three with a runner, freed slots reused |
| sched_liveness | Scheduler / SchedulerLiveness | OrderlyNeverDangles, EveryReadyRuns, WaitersReturn, InterruptsComeBack | 3 slots, orderly programs, with fairness |
| tty | MCTty / Tty | ReadsFollowKeys, TypedAsMeant, ImplementsFifo | a key that Shift changes, one that it mutes and one that it turns into the `\r` the line discards; ring of 2, reads of up to 2, 2 scancodes waiting: empty, full, both wraps |
| tmpfs | MCTmpfs / Tmpfs | TransfersAreExact, FramesOwnedOnce, DirectoryListsAll, ImplementsFlatFiles | 2 names and objects, blocks of 2 bytes, up to 3 blocks on 4 frames, of which each entry takes one and each unlink loses one, so that frames run out; every transfer that fits into such a file |
| file_table | MCFileTable / FileTable | SlotsOwnNodes, OffsetsStayInside, ImplementsDescriptors | 2 processes, 2 descriptors each, 3 nodes, so that one cannot be had, sooner the more programs are run; a file and a pty |
| vfs | MCVfs / Vfs | PathsMeanNames, CreatedIsFound, ImplementsNamespace | every string of up to 6 characters over two names and the slash, as the path of every call; a device in a directory, and the directory of ptys at the root, so that paths lead below its pty; 5 files, boot's four and one more, or more when those that mark a mountpoint are removed |
| ramdisk | MCRamdisk / Ramdisk | RootfsIsTree, BootEnds | all trees of up to 3 entries on 3 levels with every order of listing, texts shorter and longer than the copy buffer of 2 |
| library | MCLibrary / Library | StringHoldsText, TextFollowsC, ScreenShowsPaper, ResultsAreExact, PositionIsKnown, MovesAreExact, ImplementsFileStream | every combination of flags, length and a few widths, precisions and numbers at the ends of an int of 5 and a long of 8 bits; sizes from 0 to more than the text; streams with buffers of 2, or 3 by `setvbuf`, on files of up to 3: a refill, a short one, one behind a short one; all strings of up to 3 of 3 letters and some longer ones that repeat themselves; screens of 2 by 3 and 3 by 3 characters and 10 characters put, so that both screens are full and more |
| context | MCContextSwitch / ContextSwitch | UserStateSurvives, InterruptsStayPossible | 2 processes and the idle loop, words of 2 bytes, interrupts within interrupts up to 2 deep, lines 0, 1, 7 and 15 (of the second controller), the last two also spurious |

Deadlock is checked except in cow_saturation, page_tables and file_table (the last process may
exit), tmpfs (each unlink loses a frame, until none is left), vfs (at the bound on files every call may be refused), ramdisk (the boot
ends), library (the kernel's text is bounded) and context (there is no step where a fork finds no
pid left, or where a `page_directory` with an overwritten byte would be used). Symmetry is used only over model values that
no definition tells apart, and in runs without liveness.
In cow_saturation and sched_safety a CONSTRAINT stops behaviours at `tainted`
and `dangling` states: these states are checked, what follows them is not. In CowMemory,
PageTables, Scheduler, Tmpfs, FileTable, Tty and Stdio the type invariant is a conjunct of one of the
invariants checked. In page_tables the cfg names a VIEW, `FramesAside`: two states are the same when
their tables have the same shape and the same permissions, the same pages are shared, and as many
frames are free. Which frame a request gives makes no difference to any definition but for its
number, so that a permutation of the frames above the kernel's leads from the one behaviour to the
other; the numbers alone would make the run endless.

Reading of the main results:

- *MemoryIsPrivate*: copy-on-write implements a memory in which fork makes a full
  copy and a store changes one page of one process.
- *RefcountExact* and *FramesAccounted* (a frame in use is locked, and one that is locked is in
  use: `UsedFramesLocked`, `NoFrameLeaks`) hold between any two iterations
  of the page loops, not only between calls.
- *SpacesAreWhole*, *TablesActAsOne*: through fork, exec, exit, growth, faults and pointers that turn
  out not to be valid half way, each table below a directory hangs in one entry, what is locked is
  what is reachable, the kernel is in each directory, and four levels act as one table of
  pages, in which a page that may be written to is one process's own.
- *QueueHoldsReady* holds until a process exits while the tail it dequeues has a
  stale `next`; *OnlyExitDrains* says that nothing else does it.
- *InterruptsComeBack*: `sys_waitpid` polls with interrupts off, and yet the processor
  always reaches user code or the idle loop again when programs wait for
  their own children only.
- *FramesOwnedOnce*, *SlotsOwnNodes*: nothing is lost or leaked but what section 6 names, and of
  that exactly as much as was counted: a frame for each file or link removed, a node for each program run and each
  file created.
- *ImplementsNamespace*: with each call at most one name comes or goes, in a directory. A pty that any
  call closes goes with every name it has.
- *ImplementsDescriptors*: fork, dup2 and exec give each descriptor its own offset, and
  no call on one changes another.
- *ImplementsFileStream*: read-ahead, push-back and delayed writes are invisible to a
  program that follows C's rule about changing direction. What other processes add in between it
  sees too, except as many of their bytes as it has put beyond the end that they see: its own go over those.
- *ReadsFollowKeys*, *TypedAsMeant*, *ImplementsFifo*: each key shows what Shift and Caps Lock made
  of it when it was pressed, nothing where that is 0 or a carriage return; what the readers get, in
  order, is what was shown without what was counted as dropped, and the ring is used so that its
  own promise holds.
- *UserStateSurvives*: through interrupts within system calls, faults, switches out of
  both and the two ways into user code, a program finds every register as it left it, only rax
  with the answer, and its own address space. r15 survives because the frame of `isr_common`
  keeps it, not through the switch; its other effect is in section 6.
- *InterruptsStayPossible*: whenever interrupts are accepted nothing is in service that holds back a
  line, except that line 7, which is never ended, asks only once and is then in service for ever; it is the last of the first controller, so that
  it holds back no other. It needs that `timer_handler` ends its interrupt before it switches, and that
  each line of the second controller is ended at both.
- *TextFollowsC*, *StringHoldsText*: what C promises of `printf` holds for the conversions that
  `StandardConversion` and `StandardDirective` name, a string is cut at its size, and at every
  moment of the call it is a string.
- *ScreenShowsPaper*: the framebuffer shows the end of what was put, also across the change of driver,
  unless the VGA screen had started over before.
- *RootfsIsTree* needs that the host lists "." and ".." before the last entry.

### Fairness

Scheduler assumes weak fairness of `SwitchNext` and `WaitLoop`, since kernel code
runs to its end with nothing that could stop it, and of `TimerTick`, since the PIT
is set up once and keeps ticking. Nothing makes user code fork, wait or exit.
The liveness properties are conditional on `Sound` (no drained queue, nothing
dangling used), and the run sets `Orderly`: programs wait for their own children and
exit only without any, as `init.c` and `sh.c` do. Ramdisk assumes that the
program goes on (`WF_vars(Next)`): the tool and the boot code are single threads
without anything to wait for.

## 4. Proofs

25785 obligations, all checked; no statement is taken on trust besides the named
assumptions on the constants, which TLC evaluates in the runs. Each invariant was checked by
TLC on the run's instance before it was proved. What holds for instances of a few processes,
frames or keys in the runs holds by these theorems for every number of them.

| module | theorem | statement |
|---|---|---|
| FrameAllocatorProofs | TypeCorrect, HintIsSound, HeldFramesStayLocked, UsedMemoryIsExact | `Spec => []TypeOK`, `[]HintSound`, `[]HeldStaysLocked`, `[]UsedMemoryExact` |
| | RefinesFrameSet | `Spec => Abs!Spec` |
| CowMemoryProofs | MemoryTypes, CountsAreExact, FramesAreAccounted | `Spec => []TypeOK`, `[]RefcountExact`, `[]FramesAccounted` |
| | SharingIsInvisible | `Spec /\ []~tainted => MemoryIsPrivate`, a refinement |
| SchedulerProofs | QueueIsExact, ZombiesAreReaped, OrderlyProgramsNeverDangle | `Spec => []QueueHoldsReady`, `[]ZombiesAreAwaited`, `[]OrderlyNeverDangles` |
| | DrainingNeedsExit | `Spec => OnlyExitDrains`, about steps |
| TtyProofs | RingTypeCorrect, RefinesFifo | `RingSpec => []RingTypeOK`, `ImplementsFifo` |
| | KeyboardTypes, ReadsAreTheKeys | `Spec => []TypeOK`, `[]ReadsFollowKeys` |
| | CharactersAreMeant, LineIsFifo | `Spec => TypedAsMeant`, `ImplementsFifo`, about steps |
| FileSystemProofs | DirectoryIsComplete, FramesAreOwnedOnce, TransfersExact | `Spec => []DirectoryListsAll`, `[]FramesOwnedOnce`, `[]TransfersAreExact` |
| | ImplementsFiles | `Spec => ImplementsFlatFiles`, a refinement |
| | PathsLead, MadeFilesAreFound | `VfsSpec => []PathsMeanNames`, `CreatedIsFound`, the latter about steps |
| | NamesComeAndGo | `VfsSpec => ImplementsNamespace`, a refinement |
| FileTableProofs | TablesAreTyped, NodesHaveOneSlot, OffsetsAreInside | `Spec => []TypeOK`, `[]SlotsOwnNodes`, `[]OffsetsStayInside` |
| | DescriptorsAreValues | `Spec => ImplementsDescriptors`, a refinement |
| LibraryProofs | PositionsAreKnown | `StdioSpec => []PositionIsKnown` |
| | StreamIsFile | `StdioSpec => ImplementsFileStream`, a refinement |
| | ScreenFollowsPaper | `ConsoleSpec => []ScreenShowsPaper` |
| | MemoryMovesExactly, StringResults | `StringsSpec => []MovesAreExact`, `[]ResultsAreExact` |
| | StringsAreCut | `FormattingSpec => []StringHoldsText` |
| | LibraryIsCorrect | the six of them for Library's `Spec`, which the run checks |
| ContextSwitchProofs | UserStateIsKept, InterruptsAreEnded | `Spec => []UserStateSurvives`, `[]InterruptsStayPossible` |

**FrameAllocatorProofs** (sizes are
natural numbers, words are not empty, a run of frames that callers ask for is at most one
longer than the kernel image). The inductive invariant is
`IInv == TypeOK /\ HintSound /\ HeldStaysLocked /\ ImageLocked`.
No part is inductive alone. A request returns the lowest free frame only if no free
frame is below the hint; that it was free is what keeps `held` locked; and a failed
request makes the caller lock frames `-1 .. n - 2`, which is harmless only
because the image, locked since boot, covers them: that is `ImageLocked` and the
assumption on `MaxRun`. The first lemmas are about the operators of FrameOps: the search by words
finds a frame exactly when one is free, and the lowest. CowMemoryProofs states again the three
that it needs, as it cannot extend FrameAllocator.

**CowMemoryProofs** (finitely many processes, room for the first directory, a limit of at
least 2, and marks for "not mapped" and "no memory" that are no contents). `IInv` says of every moment,
also in the middle of `mmu_clone`, `mmu_free` and `elf_exec`: how far the loop has come and what
the tables that it works on hold on either side (`LoopsInOrder`); and, until a count saturates,
that a writable entry is the only one of its frame, that a frame with the count 0 is mapped at
most once, and that a count is the number of entries that share the frame. Frames are accounted
for from the same: what is locked is mapped, a root of a table, or of the kernel. The
refinement then needs only that two entries share a frame while neither is writable. The loops'
steps and the write faults change nothing that a process can see; the end of a fork is the abstract
fork, the start of an exec or exit drops the memory, the last page loaded is the abstract
load. The theorem is about behaviours with `[]~tainted`, as the run stops at its CONSTRAINT: a saturated
count ends the promise, and section 6 says how. RefcountExact and FramesAccounted have this condition
in themselves and are proved for all behaviours.

**SchedulerProofs** (only that the null pointer, the idle task and the slots are different; the
number of slots need not be finite). A run queue is there as pointers, so the
invariant says of `next` that from the head it visits the queued processes once each and ends at
the tail (`Queued`), that a stale `next` behind the tail leads to nowhere in the queue unless the tail
was drained (`StaleLinksLead`), that a finished process that is not deleted yet is in the delete queue or has one
that waits for it, as its flag says (`ZombiesAreAwaited`, `FlagsAreMeant`), and, for orderly programs, that the tree
has exactly the processes, a finished one without children, and only a parent waits for a process (`Tree`).
OrderlyNeverDangles is part of `Tree` and needs the rest of it: what is deleted must be a leaf, and nobody else may wait for it.

**TtyProofs** (the size of the ring is positive; the codes of Shift and Caps Lock are no keys; a
transfer may have a byte). The first part is about the ring alone, for every size and transfer: it rests
on what `Advance` (the index after k bytes) and `Distance` (bytes between two indices) are, each with its
lemma, and on the contents after a read and a write, proved byte by byte. The
invariant of the second part relates three clocks: the keys that were pressed, the scancodes that wait, and the flags of the handler.
`FlagsFollow`: the handler's flags, after the scancodes that still wait, would be the user's;
`EchoPicked`: what was echoed is a selection, in order, of what the keyboard handed over, at the places of the
characters that are not discarded; `HeldPicked`: the ring and what was read are such a selection of what was echoed;
`Len(Held) + dropped = Len(echoed)`: exactly what was counted as dropped is missing. The theorems about the ring are used
as they are for LineIsFifo.

**FileSystemProofs**, about Tmpfs (blocks are not empty, there is a frame, buffers are sequences of bytes). The lemmas of
the first part are about `Pieces`: for every position, length and size of a block they lie inside their
blocks, no block has two, and they cover the transfer, each byte once and in its place (`TransferExact`).
`IInv == Shape /\ DirectoryListsAll /\ Owned /\ Counted /\ Reach`: the directory is without repetition and has
exactly the objects, the blocks of a file are different frames and those of two files disjoint, each
frame is free, of the rest of the kernel or in one file, `tmpfs_total_blocks` is how many are, and
a length never exceeds the blocks. `Losses`, that the lost frames are as many as the removals and that
each entry still has its own, is an invariant by itself. Counting needs that a file grows by different frames, which `truncate_tmpfs`
takes one after the other from those that are free. The refinement goes action by action: `WrittenAt` says where in
memory a byte of a write is afterwards, and since frames are owned once, the text of the file written is
the old one with the range replaced, and no other text changes.
About Vfs (the slash is no letter; kmain makes a directory after the one it is in; its mountpoints are plain paths, none of
them below another; devices and ptys are no sequences of names, and a pty no device or kind of file). `PathInv` says that what a file is in is a directory, up to the root
(`TreeOk`), and that what is mounted is the first of what kmain mounts, each in directories of the tree, which nothing removes
(`MountsOk`), and that no pty is listed but the one of boot (`PtysOk`). A plain path of n names ends its tokens
at the places 3, 5, .. 2n + 1 and nowhere else (`TokensAre`). So its walk can be written down: at each place it has
reached what the names so far mean, in the tree or behind a mountpoint (`Reached`). This function satisfies the
equation of the recursive function `Walk` (`ReachedIsWalk`), and no other one does, since two would differ at a least
place (`WalkIsOne`), which takes the place of an induction over the string. For CreatedIsFound a file that was made has a name of its own in
a directory of its own (`OwnMeaning`), so the same names lead to it unless something is mounted over it. For the
refinement a string of any kind, also one that is not plain, adds or removes one place of the tree; what plain paths show of
it is that place or nothing (`ShowsOthers`), and below a new mountpoint there was nothing (`NothingBelow`). Only a path
to the pty itself closes it (`PtyShows`), which makes or removes no file, and what is not listed is behind
no path (`PtyGoes`).

**FileTableProofs** (the marks for a closed, an unused and an absent slot are no nodes, values or
rows). `IInv` says that each allocated node is in one entry of one process (`OwnedOnce`: rows of `fds`
are without repetition, those of two processes are disjoint, and no freed node is in one), that an
open regular file is linked (`OpenFilesExist`), without which a new file of the same name would begin with
nodes beyond its end, and `OffsetsStayInside` itself. That leaked nodes are in no entry and as many as were
forgotten is the invariant `Leaks`. From one slot for each node the refinement follows
action by action: a call on one descriptor moves no other offset because no other descriptor has its node.

**LibraryProofs** (sizes of buffers are positive; the end of file and the mark for "no byte" are no bytes; the
framebuffer is wider than the VGA screen and has at least as many rows; texts are strings without NUL;
what `_printf` makes of a format of the calls is a sequence, and fits into the memory when it is printed without a size).
For streams, `IInv` says what a buffered stream is at any moment. `Ahead`: the bytes read ahead are in the buffer as they
are in the file before the kernel's offset, and nothing waits to be written then. `Pushed`: a byte that was
pushed back is the next one of the file. `Behind`: the byte that was read last is the one before the
position. `Known`: the two sums by which `ftell` and `fseek` compute a position come about only
if the buffer was filled from its start each time but the last; that is the condition of `PositionIsKnown`.
`Brings` is what `_read_bytes` leaves in the stream and `Seen` what `fgetc` then finds in it. The file that the
program sees is the kernel's with the pending bytes laid over it: one more pending byte is one more
byte put there (`OverlayAppend`), and flushing them changes nothing that is seen. A byte that another process adds to the
kernel's file shows behind the pending ones or is under them, as FileStream's `Grow` has it. With these each call is a
step of FileStream or a stutter.
For the screen, `ScreenInv` says of every moment more than is promised: as long as the VGA screen has not
started over, it holds nothing but the lines (`OnVgaRows`); the framebuffer holds nothing but its last
lines, in memory and on the screen (`OnLfbRows`), and nothing at all before kmain takes it; no
line is longer than the screen is wide, and the last one ends before (`Fitting`), which is where either driver
begins the next one; and in the middle of `lfb_copy_from_vga` what lies before the place it has reached is copied
(`Copied`). That a row may be copied up to its first 0 rests on 0 being no character of a text. That
a line of the VGA screen does not go over one that still counts is that two of VGA_HEIGHT successive numbers
have different rests (`RowsDiffer`).
For strings, `MemoryInv` says of every moment in the loop of `memmove` which bytes have been copied, that every
other is what it was, and that those which the loop will yet take are among the others: this is what the
choice of the direction is for (`MovedSoFar`); and in the loop of `strcpy` which characters of the second
text are behind the first (`JoinedSoFar`). `TokensInv` says of each string how far it was split: behind
that the memory is still the text, each token returned earlier is still the word that it was, and
the words behind the last one are those that begin behind that place (`NextStart`, `NoStartWithin`). A search that the
model writes as the least place of a kind is what it is by `LeastElement`, that a set of natural
numbers that is not empty has a least member; it takes the place of an induction over the text,
and `StrstrIs` and `StrcmpIs` rest on it too: the least place where two texts differ.
For `printf` into a string, `FormattingInv` says of every character handed on what the memory holds: for
`vsnprintf` as much of the text as fits before a 0, that 0, and nothing beyond the size (`CutText`), for
`vsprintf` all of it, with the 0 when the call is over (`WholeText`). What the text of a format is plays no part in it.

**ContextSwitchProofs** (a word has at least two bytes, programs put words into r15, the
lines are 0 to 15). `IInv` describes a kernel stack: its first frame is from user code and holds what the
program expects, or from the idle loop, and each further one is from the end of an interrupt or from a
system call that met a fault (`Framed`); so a frame of a system call is always the first, which
is what lets `syscall_regs`, an answer or a fork write to it. A process that waits in the queue has a context
that leads to the top of its own frames (`Resumable`), and waits once. What the controllers have in service is
exactly the interrupt whose handler has not ended it, line 7 aside, and the second has none without the first (`InService`): that no second one can be, comes from
`interrupts` being off in a handler, and that a switch leaves none behind, from `timer_handler` ending its own first.

Only model-checked:

- Liveness and everything under fairness (`EveryReadyRuns`, `WaitersReturn`, `InterruptsComeBack`,
  `BootEnds`), for which the provers have no rules here.
- PageTables (`SpacesAreWhole`, `TablesActAsOne`), whose loops over levels are recursive operators, and
  Ramdisk (`RootfsIsTree`), whose promise is about trees of any depth.
- `TextFollowsC`, which rests on what the recursive functions of Numerals compute for every number, an induction over
  data.

## 5. Plan

Modelled and checked, in the order of importance: allocator, memory, scheduler, then ring and terminal,
files and descriptors, paths, streams, ramdisk, then the switch with its interrupts, formatted
output, strings and screens, and the levels of page tables. Proved: allocator, memory, scheduler, ring
and terminal, tmpfs, descriptors, paths, streams, strings and `printf` into strings of the C library, the kernel's screen and the switch. What could follow:

1. PageTables with recursive functions instead of operators, so that it can be proved about.
2. More of the code: the other modes and the output side of tty.c with ptys opened by
   path; the list of open streams with `__stdio_free` and fork with
   unflushed buffers; `realloc` and the block headers; directories in FileTable
   with `readdir` and `stat`.

## 6. Limits of the code met while modelling

The repository has no tests and no documents that say what these should do, so none
is held against the code as a property; each is in the model as it is in the code,
or outside of it as noted.

*Memory.* With a saturated count `_copy_page` copies into a frame that it does not lock.
A page below the heap's end that sbrk gave up stays mapped; mapping it again makes it
writable even when it is shared. No caller checks a failed request: out of memory is fatal
(the models wait there). Kernel stacks are released by virtual address and so are lost.

*Scheduler.* Every deletion uses freed memory: `tree_destroy_and_merge` frees the process itself, as
the value of its node, `process_delete` then reads `name`, `pwd`, `fds`, `image` and `thread` of it
and frees it again, and `switch_next` deletes the process in whose tables it runs. Interrupts
are off, nothing is requested in between, and `free` writes nothing into a page, so nothing comes of it.
`queue_node.next` is never cleared: an exit that dequeues such a tail leaves a
queue with a process that is not ready and without the others. A child that exits before
its parent waits is deleted at once, so that `waitpid` does not find it. Deleting a parent
frees the tree nodes of its descendants; when init exits with children `tree_free_values`
does not end. Two waiters for one process delete it twice. Pollers that wait for each
other leave interrupts off for good.

*Files.* A block past a gap is not cleared. A read that starts behind the end of a file
computes a negative size. `unlink` frees a file that is open, and never removes a directory.
`O_TRUNC` does not touch other offsets; `O_APPEND` and `SEEK_END` use the length at open.
`spawn_process` copies entries of `fds` that were never written. Closing any descriptor of a pty, `stat` or `chmod` of it, and to be refused a file,
directory, link or removal below it removes it from the map (vfs.c:246, 290, 329, 368, tty.c:208-213).
`execve` of what is no program returns 0 with descriptors closed; of a program it loses the node it opened
(syscall.c:523), which `elf_exec` closes and nobody frees (elf.c:69), and an ELF file of another class or type it leaves open.
`create_file` loses the node of the directory, made or not (vfs.c:246), failing `mkdir`, `symlink`, `unlink` too. `unlink`
never frees the array of blocks (tmpfs.c:97-106), a frame each time.

*Paths.* A doubled slash inside a path is not found by `kopen` while `create_file` makes the file.
Mountpoints are compared as strings, so `dev/zero` and `//dev/zero` miss them. A mounted
placeholder can be unlinked. `symlink(t, "/")` makes an entry without a name.

*Terminal.* `IGNCR` is tested with a multiplication, so that `\r` is discarded although it is not set, and
`ICANON` in the wrong word; Shift or Caps Lock with Space gives no character, with '-' a `\r`,
which is neither echoed nor read, with a digit a control code; the right Shift is ignored. `terminal`
is a copy of the driver made before `lfb_terminal_init`, so that its size is 0;
`vga_terminal.columns` is `VGA_HEIGHT`. The VGA screen starts over at the top without clearing
the row; when the framebuffer is taken after that, the cursor lies among the lines that were
copied. The framebuffer looks up a glyph by a signed character.

*Streams.* `fopen` and `freopen` take the flags from the letters of the path, not of the mode.
A stream of `fdopen` has a write buffer that never counts as full. `ftell` and `SEEK_CUR` are wrong
after the end of the file was met, a byte was pushed back, or a seek or `freopen` followed reads
(`PositionIsKnown` says when they are right). `freopen` links a stream twice, so that the list at the end of a program may be a ring; `fork` duplicates
what waits to be written, and `fflush` writes at the offset where it began to wait, over what others appended since (stdio.c:233). `_stat` sets bits in a variable without a value.

*Ramdisk.* A listing that ends with "." or ".." gives the last entry a next one: of the
directory above, or outside of the image. An entry that is a link or a device is
never passed. An image of an empty directory is read outside of itself.

*Switch.* `pic_remap` lets every line through (pic.c:49-52) and line 7 is never acknowledged (idt.c:239): after a
genuine one it stays in service for ever, and holds back itself alone. `save_context` stores r15 one byte beside where `restore_context` reads it: its last byte
becomes the lowest of `page_directory`, and each switch in the middle of a call shifts the bytes
again. CR3 ignores that byte but for two cache flags, while `mmu_clone`, `mmu_free` and
lookups use the pointer: this is why ContextSwitch has no step for them then. An interrupt between
`swapgs` and `iretq` leaves GS swapped for the next process; both bases are 0. A user exception
or a fault that is no copy on write is reported and returns to the same instruction, for ever.

*Formatted output of the C library.* A decimal that is aligned to the right prints '0' for each
digit, so that the names of `tmpnam` do not differ. The sign is outside of the width, and
`%-05d` puts zeros behind the number. `%s` is cut at the width and always padded behind. A
negative `*` width is taken as it is. `%ls` ends the call. `vsnprintf` with room for one byte
writes none, not even the 0. `atoi` passes '-', blanks and '_' anywhere in a number, and `itoa`
returns a pointer to the end.

*Formatted output of the kernel.* `%%` prints nothing. `%hhd` prints "d" and takes no argument, so
that later conversions get the wrong ones. An unsigned number of 2^63 or more is printed as a negative
one (an address in `idt.c`). Zeros come before the sign, the prefix is outside of the width,
the precision is ignored, and a width of 256 overruns the buffer.

## 7. Not modelled

Machine set-up is straight-line code whose results the other modules begin with. Of formatted output,
floating point is left out, which TLA+ cannot compute, and `%n` in the kernel; of the screens,
colours, `clear` (nothing calls it) and the pixels of a character; of the switch, `swapgs` and the FS
base, which nothing reads through. `stat`, `chmod`, `chown`, `umask`, `uname`, `access`,
`readlink`, `ioctl` and `sleep` set or read one field. Permissions never refuse: every
process has uid 0 and no call changes it. `/dev/null`, `/dev/zero` and `/dev/tty` have no state.
Vendored headers define constants only. Link targets, owners and
modes are left out of Tmpfs and Vfs. Planned parts are in section 5.
