# 0s: specifications and proofs

0s is a small teaching kernel for the i386 (C and assembler, derived from
ZeOS): up to ten tasks in one page table, a round-robin scheduler, semaphores,
a keyboard and a console driver, and a file system that lives in memory.
This directory specifies the kernel's state machines in TLA+, checks them with
TLC and proves them with TLAPS: all but what is live.

Paths below are relative to `src/`.

## 1. The system

Every gate of the IDT is an *interrupt gate* (`interrupt.c:95-98`, system calls
included), and no handler enables interrupts: only `main` does, once, before it
enters user mode (`system.c:120`, `hardware.c:98`). A system call, a tic or a key
therefore runs to its `iret` alone. Three things make the kernel hard all the
same:

* a handler that blocks or exits never returns to its caller: it ends in
  `task_switch`, inside *another* task's saved context. The blocked task's
  result is stored by whoever wakes it;
* the order of handlers is arbitrary: a key or a tic may come between any two
  instructions of any task, and a task may make any call with any arguments;
* almost all data is shared: task lists, the page table window, frames,
  dynamic channels, the directory, the block lists.

| component | code | state | operations | what makes it correct |
|---|---|---|---|---|
| task lists | `include/list.h` | links in the task structures | add, add_tail, del, first, empty | a task is on exactly one list |
| scheduler | `sched.c`, part of `sys.c` | `runqueue`, `freequeue`, state, quantum, `roundtics`, `eoi_from_interrupt` | clock, fork, exit, nice, block, unblock, switch | a ready task always exists; turns end; every ready task gets one |
| semaphores | `sem.c`, part of `sys.c` | owner, value, queue | init, wait, signal, destroy | waiters leave in order, with the right result, none is forgotten |
| keyboard | `interrupt.c:271`, `devices.c:84`, `circbuff.c` | ring, `keyboardqueue`, remain/offset/buff of the reader | read, key pressed | keys are delivered once, in order, to the readers in order |
| memory | `mm.c`, parts of `sys.c`, `sched.c`, `interrupt.c` | page table, TLB, `phys_mem`, `phpages` | fork, exit, switch, map another task's pages | a task reaches its own pages only; no frame is lost or shared |
| file system | `fat.c` | directory, `block_lists`, free list, counters | create, read, write, unlink | a file contains what was written; no block is lost |
| channels | `channel.c`, `devices.c`, part of `sys.c` | channels of a task, dynamic channels, directory names | open, read, write, close, unlink, dup, fork, exit | a descriptor keeps its file, rights and offset |
| console | `io.c`, `kernutil.c`, `devices.c:60`, `interrupt.c:249` | screen, cursor, seconds | write, printk, clock | text stays below the clock, in order; the clock is right |
| entry and contexts | `entry.S`, `sched.c:113`, `interrupt.c`, `hardware.c` | kernel stacks, TSS, IDT, GDT | dispatch, save, restore, switch, EOI | a process finds its registers as it left them; each interrupt is acknowledged |
| library | `libc.c` | `errno` | wrappers of the calls, `perror` | a result or an error reaches the caller |
| boot, build, programs | `bootsect.S`, `build.c`, `system.c`, `user.c` | | | |

Interactions: the clock and keyboard handlers act on whatever task they
interrupt; exit destroys semaphores, closes channels and frees memory; fork
copies the task structure, its channels and its memory; the keyboard handler
maps the pages of a blocked reader in the window of the current task; channels
call the drivers, the driver of files calls `fat.c`.

`PROJECT.json` lists the hazards of this code, at the line where each bites,
with the properties that would notice.

## 2. Modules

| module | role |
|---|---|
| `Lists` | operators for `list.h`: a function from list heads to sequences |
| `Scheduler` | tasks, scheduler and semaphores |
| `ListPointers` | operators for `list.h` again, on the `next` and `prev` pointers |
| `LinkedScheduler` | `Scheduler` with the pointers of its lists |
| `Dispatch` | abstract: who has the processor, and for how long |
| `Keyboard` | driver, ring buffer, blocked readers |
| `Terminal` | abstract: a queue of keys and a queue of readers |
| `Memory` | frames, page table, TLB, with fork, exit, switch, keyboard copy |
| `AddressSpaces` | abstract: every process has a memory of its own |
| `Fat` | directory and block chains |
| `Files` | abstract: a file is a sequence of bytes |
| `Channels` | descriptors over `Fat` (instantiated as `Disk`) |
| `Kernel` | `Scheduler` and `Keyboard` composed (instantiated as `S` and `K`) |
| `Libc` | registers, and what the wrappers of the library do with them |
| `Contexts` | kernel stacks, TSS, entry, return and switch, over `Libc` |
| `Processes` | abstract: every process has registers and an errno of its own |
| `Console` | screen, cursor, scrolling, the clock in the first row |
| `Teletype` | abstract: a page of lines that moves up |
| `MCScheduler`, `MCLinkedScheduler`, `MCKeyboard`, `MCMemory`, `MCFat`, `MCChannels`, `MCKernel`, `MCContexts`, `MCConsole` | values and constraints for TLC |
| `SchedulerProofs` | lemmas on `Lists`, theorems on `Scheduler` and `LinkedScheduler` |
| `KeyboardProofs`, `KernelProofs`, `MemoryProofs`, `FatProofs`, `ContextsProofs`, `ChannelsProofs`, `ConsoleProofs` | theorems on the module each is named after |

Each handler is one action, because each runs with interrupts off. Calls that
are refused with an error change nothing and are not written as actions: they
are stuttering steps. The comment `\* else EBADF` after a guard names the error.
In every module the section *Deliberate defects* has operators such as
`Requeue_linked`: plausible slips of the code, used by no action, that are put
in place of the operator they are named after to see that a property notices.

### Scheduler

`lists` maps each list head (`sems[s].queue`, `runqueue`, `freequeue`,
`keyboardqueue`) to the sequence of slots on it. `current` is the slot whose
kernel stack ESP points into. `pid`, `state`, `quantum`, `remaining_quantum`
are the fields of `struct task_struct`; `eax` is what the saved context of a task
holds where user mode will find the result of the call: `"number"` stands for
the number of the system call, which is there until somebody overwrites it.
`in_service` is the interrupt controller's side of the end of interrupt: it is
true if a handler was left without acknowledging.

`sys_fork_ENOMEM` is the path on which `alloc_frame` fails: the slot has left
`freequeue` and nothing puts it back (`sys.c:96-103`). The constant
`MemoryMayRunOut` says whether that may happen; with the constants of the sources
(380 usable frames, 10 tasks of 20 pages) it cannot. Semaphore values wrap at
`MaxInt`, and `sem_init` converts an unsigned value to an int.

`LinkedScheduler` adds to each of these actions what the same service does to the
`list_head` structures in memory (`links`), with the branches that the code takes on them:
`Relink` is `list_del` and `list_add_tail`, `ForkLinks` has the copy of the parent's whole
structure between `list_del` and `list_add` of the child, `Emptied` the loop of
`sys_sem_destroy`. `LinksDenoteLists`, which is proved, says that the pointers are the lists of `Scheduler`; it
is why the other modules, and the proofs, may take a list as a sequence. Heads of
semaphores are zero until their first `sem_init`.

Left out: the statistics `tics` and `cs`, and `get_stats`, `getpid`, which only
read.

### Keyboard

The ring has the four fields of `struct circ_buff`; `is_empty` goes by the
positions, `is_full` and `get_size` by the count, as in the code, and so the full
ring looks empty. `sys_read_keyboard` copies `size` bytes to the user however
few it got: bytes that the call did not put in `sysbuff` are `STALE`.
`DrainFull` is the last part of the handler, which looks at the ring after the
first part may have woken the reader. `sched_unblock` resets `remain` and `offset`.

### Memory

The TLB is a partial copy of the page table that may contain any translation
used since the last write of CR3; `Evict` lets the processor forget one. Between
handlers the user may touch any page for which there is a translation, so a
missing flush shows as soon as it could matter. `ForkLoop` is the loop of fork,
with its failure path. Which task is switched to is left to `Scheduler`.

### Fat

Operations are operators from one value of `fs` to the next, so that `Channels`
can use them; `read_block` and `write_block` are one iteration of a loop each. `opened` keeps that descriptors of files can never be closed (see
findings and `fat.c:133`), so that a file may be written after its removal.

### Channels

`channels[t]` exists for the tasks that exist. Two results of undefined behaviour
are modelled: `task[0]` may start with or without its standard channels, because
`sched.c:104` calls `set_default_std_in_out_err` without its argument; and
after a call through a NULL driver or a copy at a negative offset the kernel is
`lost`, and no further step is described. `bad_fd` accepts one descriptor too many
(`sys.c:27`); the word it reaches is 0 and is modelled as one more element, and
the descriptors that a process may pass (`FdArgs`) end there. `write_piece` is one
round of the loop of `sys_write_file`; `OpenMode` is what open keeps of its flags in the
dynamic channel.
Since the kernel may be lost, its two runs have no deadlock checking.

### Kernel

`Scheduler` blocks a reader whenever it likes and wakes the first one with any
key; `Keyboard` lets any task that is not blocked read at any time. Here each
decides for the other: `lists[S!keyboardqueue]` is the `keyboardqueue` of
`Keyboard`, `sys_read_keyboard` blocks the *current* task exactly when the ring
lacks keys, and the key that completes a read unblocks its reader, in one step of
both. What only the composition has: fork copies `remain` and `offset` with the
rest of the structure, exit and fork reuse slots, and a woken reader still has
to get the processor. The semaphores are left out (`NrSem <- 0`), so
`sched_unblock` is called by the keyboard handler alone. Each step of `Kernel` is by
its form a step or a stutter of `Scheduler`; that it is one of `Keyboard` is checked and
proved (`ImplementsKeyboard`).

### Contexts and Libc

`cpu` holds the sixteen registers of the process that runs; `stack[t][i]` is the i-th
word of the kernel stack of slot t counted from the top, so that
`stack[KERNEL_STACK_SIZE-EAX_POS]` is word `EAX_POS`, and `n(%esp)` in `system_call`
word `RESTORE_SIZE - n/4`. The order of the pushes and that of the pops of
`RESTORE_ALL` are two sequences translated from two places of the source (`task_switch`
pops the same registers in the same order as `RESTORE_ALL`); nothing in the model says
that they match, and `ImplementsProcesses` says it. `esp0` is the stack that the TSS names, `pages` the
slot whose pages are mapped; `errno` is a variable in those pages.

`eip` has three values, for code of the process's own, the `int 0x80` of a library
function, and the test of the result behind it, so that interrupts and switches may come
between. Which task is next is left to `Scheduler`: any ready one. Simplified: a frame
that has been popped, and the frame and the `errno` of a slot that is free, are put
back to their initial values (the next entry or fork overwrites them), and the fork
that fails with ENOMEM is left out (it returns as the one that fails with EAGAIN
does). A page fault of a process ends it; every other exception, and a
page fault of task 0, stops the machine, and so this run has no deadlock checking.

One behaviour here is the compiler's: with the flags of the Makefile (`-O2`),
`sys_unlink` ends in a jump to `f_unlink` that has its argument in the word of
`sys_unlink`'s own first argument, which is the EBX that `SAVE_ALL` pushed. The
process gets the index of a file in EBX. `Processes` allows it for that one service.

### Console

The screen is one array of cells, as in memory: what lies to the right of a row is
the next one, so that writes past the end of a row land where they land in the
code. `printc` computes the address of a character first and stores it last,
behind a scroll that may come between. Nobody calls `clean_screen`: the kernel prints on
what the BIOS and the boot sector left, and the initial screen is any one (`Leftovers`,
of which TLC takes three). A newline leaves what the rest of its line shows; in the
last column it blanks cells of the rows below (`Spill` in `Teletype`). `do_scroll` has an
inline assembler statement that changes an operand declared as input; the outcome depends on the
compiler, and `keeps` is that outcome, any value, constant in a behaviour. `Teletype`
has it as a parameter of the page, and hides the last column and one corner, where the
code puts what nobody would (section 5).

`sys_write_console` has a loop over pieces of `SYSBUFF_SIZE`: no buffer that
`access_ok` admits is that long (81920 bytes of data pages, 102400 of `sysbuff`), so
the loop has one round. `itoa` is a recursive function that finds the digits from the
last to the first, as its loop does, and `Number` reads cells of the first row back, so
that `ClockShowsTime` speaks of what is on the screen: the row ends in a time that agrees
with the interrupts. What stands before that time is not the clock's, so if it is a digit
the row does not tell where the minutes begin, and the property only says that one
reading of it is right. The loop of `sys_write_file` has one round for the same reason;
`Channels` has a smaller `SYSBUFF_SIZE` so that it has two rounds all the same, which shows what it does when a write fails half-way *between* pieces; with the sources' size
a write fails within its only piece.

## 3. Runs

| run | expects | question |
|---|---|---|
| `scheduler_safety` | pass | type, list partition, states, turns, pids, waiters, results, EOIs, order of release; the pointers of `LinkedScheduler` denote the lists; `Scheduler` implements `Dispatch` |
| `sem_negative` | violation | `sys.c:282`: no semaphore starts negative |
| `keyboard_safety` | pass | the ring is consistent, the first reader lacks keys; `Keyboard` implements `Terminal` |
| `kernel` | pass | scheduler and keyboard together: the driver is `Keyboard`'s, no field of a reader outlives its read, every ready task runs, every reader returns |
| `keyboard_full` | violation | `circbuff.h:14`: `get_character` returns what it was asked for |
| `memory` | pass | a task reaches only its pages, frames are private, none is lost; `Memory` implements `AddressSpaces` |
| `fat` | pass | counters match the lists, reads return what was written; `Fat` implements `Files` |
| `fat_unlink` | violation | `fat.c:243`: unlink puts all blocks at the end of the free list |
| `channels` | pass | offsets, rights, devices and descriptors of files keep their meaning |
| `channels_free` | violation | `channel.h:17`: `FREE_CHANNEL` marks an unopened dynamic channel |
| `contexts` | pass | the next entry saves on the stack of the process that runs; registers that nobody touches never change; `Contexts` implements `Processes` |
| `console` | pass | the cursor stays on the screen, the clock shows the time; `Console` implements `Teletype` |

### Bounds

*Scheduler.* Three slots give an idle task, a running one and a waiting one, and
reuse of slots, one of which a failing fork may lose; quanta of one and two tics give
tics that switch and tics that do not; `MaxInt = 1` makes counters wrap at
once. There is one semaphore; what a task does that owns one and waits on another is
left to the proofs, which are for any number. `MaxPid` bounds the number of forks; the
proofs show that nothing depends on it. With a child in front and task 0 behind, the
running task is in the middle of the run queue, so that `list_del` is met at both ends of
a list, between two entries and for a single one.

*Keyboard.* A ring of four with counts 0 to 5 covers reads of nothing, below,
equal to and above the size of the ring; two tasks make a queue and two keys show
their order. Tasks and keys are symmetric.

*Kernel.* Three slots (two readers besides task 0), turns of one tic, a ring of three,
reads of one and two keys: a reader behind another, a read that takes two keys with
tics, forks and exits between them, a ring that is full and empty. No symmetry, because
liveness is checked.

*Memory.* Two pages per task make the loop of fork iterate, seven frames let the
fourth task run out half-way through its copy.

*Fat.* Two files, three blocks of two bytes, one buffer of three bytes
that crosses a block: partial blocks, growth, exhaustion, interleaved chains,
removal and reuse. The constraint `StillSound` stops at the first state with a
broken chain, about which nothing is promised any more; such states are still
checked themselves. The run of `UnlinkFreesBlocks` uses one-byte blocks.

*Channels.* Two tasks, four channels each and five dynamic ones (so that the
restriction of the search to the first `NUM_CHANNELS` shows), one file name next
to the two devices, two blocks, and a `SYSBUFF_SIZE` of 1, so that a write of two
has two pieces and may fail in the second. `MaxCloses` bounds how far `opens` is
decreased below zero. `FdArgs` is {3, 4}, one valid descriptor of a file and the
one beyond the array; descriptors 0 to 2 are closed by exit. `Flags` opens what exists for
reading (1), creates a file for reading, for writing and for both (5, 6, 7) and asks for a
new one (15), so that every access a file may refuse is tried.

*Contexts.* Three tasks, so that one may be woken by another while a third waits. The
calls are one of each kind (exit, fork, unlink, sem_wait, sem_signal, and 42, the
first number that the bounds check refuses); results are 3 besides 0 and the errors. Registers that nothing changes have
sixteen different values, so that no exchange goes unseen.

*Console.* Four rows: the clock's, and three that scroll. Five columns hold the shortest
time ("m:ss") and one cell more, which the second digit of the minutes takes; every
column is reached with every character. At first the screen is blank, full of digits, or
shows digits, blanks and letters, so that what the clock leaves standing before its time
is of every kind. Seconds of two interrupts, minutes of four seconds and base 2 make all
digits roll over within 18 interrupts.

### Fairness

`Scheduler` and `Kernel` assume weak fairness of `Clock`: the timer is hardware, and the
handlers return. (Those of exceptions other than a page fault do not: they stop the
machine, and what is said here is said of one that runs.) `Kernel` assumes it of `KeyPressed` too, that is, that somebody goes
on typing: without that no read has to end. Nothing is assumed of tasks. Even so a
task on the run queue may starve: fork puts the child *in front*, and a chain of children
that fork and exit passes the others over for ever. `EveryReadyTaskRuns` and
`EveryReaderReturns` therefore have the premise that from some time on no fork
succeeds. `Keyboard`, `Contexts` and `Console` assume no fairness.

## 4. Proofs

`tlapm` checks these for all values of the constants that satisfy the assumptions of
the modules: any number of tasks and semaphores, any int size, any quanta, memory
that may run out or not (`SchedulerAssumption`); a ring of any size, any readers and
counts (`KeyboardAssumption`; `KernelAssumption` is these two); any number of tasks,
data pages and frames (`MemoryAssumption`); any number of tasks, any calls, arguments
and results (`ContextsAssumption`); any number of tasks, channels, dynamic channels,
files and blocks, any counts and flags (`ChannelsAssumption`); any number of files and
of blocks of any size, any set of buffers with a longest one (`FatAssumption`); a screen of any size with
room for a time, any texts, tic rate, base and minute of at most two digits
(`ConsoleAssumption`). `ClockAssumption` says that the minutes fit in the row for as
long as the clock runs: with the 80 columns of the code an int overflows first.

| theorem | says |
|---|---|
| `SchedulerProofs!Invariance` | `Spec => []IInv` |
| `TypeCorrect`, `RunqueueHasTasks`, `ListsAreAPartition`, `NoWaiterIsForgotten`, `PidsAreUnique`, `TurnsEnd`, `StatesMatchLists`, `WokenHaveResults`, `InterruptsEnd` | the invariants of `scheduler_safety` |
| `SchedulerProofs!ReleasedInOrder` | `WaitersReleasedInOrder`, the action property of `scheduler_safety` |
| `SchedulerProofs!Refinement` | the scheduler implements `Dispatch` |
| `SchedulerProofs!LinkedInvariance`, `PointersAreLists` | the pointers of `LinkedScheduler` denote the lists (`LinksDenoteLists`) |
| `KeyboardProofs!TypeCorrect`, `CountAgrees`, `ReadersAreServed` | the invariants of `keyboard_safety` |
| `KeyboardProofs!Refinement` | the driver implements `Terminal` |
| `KernelProofs!Invariance`, `FieldsAreReset` | the invariant of `kernel`, with those of its two parts |
| `KernelProofs!DriverRefinement`, `SchedulerRefinement`, `TerminalRefinement` | the composition implements `Keyboard`, `Scheduler` and `Terminal` |
| `MemoryProofs!TypeCorrect`, `OwnPages`, `PrivateFrames`, `FramesReturn` | the invariants of `memory` |
| `MemoryProofs!Refinement` | frames, page table and TLB implement `AddressSpaces` |
| `ContextsProofs!TypeCorrect`, `OwnStack` | the invariants of `contexts` |
| `ContextsProofs!Refinement` | entry, return and switch implement `Processes` |
| `ChannelsProofs!TypeCorrect`, `OffsetsStayInside`, `AccessIsAsCreated`, `DevicesStay` | the invariants of `channels` |
| `ChannelsProofs!DescriptorsStay` | `FileDescriptorsStay`, its action property |
| `FatProofs!TypeCorrect`, `CountersAgree` | `TypeOK` and `CountersMatchLists` of `fat`, up to and including the first unsound state |
| `FatProofs!ReadsContents` | `ReadsBack` of `fat`, in every state |
| `FatProofs!Refinement` | directory, chains and free list implement `Files` |
| `ConsoleProofs!TypeCorrect`, `ShowsTheTime` | the invariants of `console` |
| `ConsoleProofs!Refinement` | the console implements `Teletype` |

*The scheduler.* No invariant of the list is inductive alone. That `list_del` of the
current task takes it from the run queue needs `RunqueueNeverEmpty`; that needs
the guards on pid 0 and hence `UniquePids`, `pid[Idle] = 0` in particular; that
a woken task has not been on another list needs `ListsPartition`; `sem_init`
forgets nobody because of `NoForgottenWaiter`, which in turn needs that exit
destroys all semaphores of a pid that nobody else has. `IInv` is the conjunction
of the nine invariants that `scheduler_safety` checks, and together they are
inductive. `SchedulerProofs` proves `Init => IInv` and then, for each action, the
conjuncts that the action disturbs, one step each.

The first part of `SchedulerProofs` states once, for any sequence, what `list_add`,
`list_add_tail`, `list_del` and `list_move_all` do to the set of entries and to
uniqueness. The loop of exit over the semaphores, and the loops of all other modules, use
`NatSetInduction`, which is induction over the naturals with a set in the place of
the predicate: it shows that the recursive definition has a solution, and what the
solution is after each iteration. Each module of proofs has its own copy of it. Under `IInv` each action is an action of
`Dispatch`. The order of release follows one queue through each action: a task
that leaves another list does not change it (`StackLists`, `RequeueLists`), the first
entry leaves its tail, and the loop of exit empties exactly the queues of the process
(`ReleasedQueues`, by induction over the semaphores). That the lists of different
semaphores share no task, again from `IInv`, is what keeps a wake-up on one from
disturbing another.

*The pointers.* A list of n entries is a ring of n+1 nodes (`Loop`), and `Joined` says
that `next` and `prev` go round it once each. `list_del` and the two `list_add` turn one
ring into another and write no node outside it; since the rings of different lists
share no node (`WellLinked`, which is `ListsPartition` seen from the lists), every other
list stays as it was. `Tied` says so of all lists whose heads are in use. The
hard actions are fork, which copies the parent's links over the child's while
the child is on no list and links it again before anyone looks, and the loop of
`sys_sem_destroy`, which has as many rounds as the queue is long and, as is shown, then
finds it empty.

*The keyboard.* `Ring` says that head and tail are as far apart as count, up to one
round; `CountMatchesPositions` follows. Under it the lemma `GetCharacter` replaces the
loop by what it computes, by induction over its iterations: the first characters,
none from a full ring. So the last part of the handler, which runs only when
the ring is full, never gives anybody a character (`DrainsNothing`), and a task that
waits has been given nothing yet. `IInv` adds that nobody waits twice and that the
first reader lacks keys. Each step, rewritten without loops (`ReadsNow`, `Blocks`,
`Stores`, `Wakes`), keeps it and is a step of `Terminal`.

*Scheduler and keyboard together.* `KernelProofs` instantiates `SchedulerProofs` and
`KeyboardProofs` as `Kernel` instantiates the modules, and takes from them that each
part keeps its own invariant. What is left is that every action of the composition is one of each
part, or changes nothing that the part sees: fork and exit touch no reader and no
field of one. `Resting` says that `remain` and `offset` of a task that does not read
are 0; it is what makes the copy that fork takes of them harmless.

*Memory.* `IInv` is the conjunction of the four invariants that the run `memory`
checks. `Shows` says that the windows show the current task's pages and nothing else;
using a page, storing to it and evicting it keep that, and `Remap` establishes it for
the task that it maps, whatever the TLB held. The loop of fork is replaced by what it
computes, by induction over its iterations (`LoopInv`): the frames that it has taken
were free and are distinct, they hold copies of the parent's pages (`Copied`), and the
windows again show the parent alone. A fork that fails never gives back its slot, so
`NoForkFailed` is false for good after it, and what depends on it need not be shown
again.

*Contexts.* `IInv` says that whoever is on the run queue or waits has registers that it
may resume with: in the processor for the current task, on its kernel stack for the
others, as the frame that entry has pushed. That the pops undo the pushes, with the
result in the place of EAX, is computed once (`Words`, `SavedThenPopped`). Each action keeps
`IInv` and changes only what `Processes` lets it change.

*Channels.* `IInv` is the type invariant, `FsOK` (modes and sizes of the directory are
what they must be), `DeviceEntriesStay` and `FileChannels`: a dynamic channel of a file has the
mode that the file was created with, and an offset within its size, unless the file
was removed under it. Descriptors share dynamic channels after fork and dup, so
what one process does to the offset or, by writing, to the size must suit them all; the
key lemma (`Grown`, through both loops of a write and the error path that moves the
offset back) is that sizes only grow, whatever the chains of blocks look like. So the theorems
hold also when unlink has damaged the chains, where `StillSound` stops the run of `fat`.
`FileDescriptorsStay` would allow a task to close its descriptor of a file; in the code no
such close succeeds (section 5), and in the proof none changes anything.

*The console.* `PrintcStep` shows that one character is one character of `Teletype`, and
`PrintedStep` carries it through the loop of a text. The case to look at is a newline in the
last column, whose loop blanks the cells from the next row to the end of the screen's
memory (`FilledStep`): on the page these are the places within `Spill` of the line's end.
For the clock, `ClockRow` says exactly what the end of the first row holds once a second
has passed; of the cells before it nothing is known. `Itoa` unfolds the digits of a
number, `DigitsRead` reads them back, by induction over quotients, and `ItoaDigits` shows
that each is a digit and that the first is not zero. `RowIsRead` then finds the time in
the row: its minutes begin where `itoa` put their first digit. `Ticking` accounts for each
interrupt, the additional one of the first second included.

*The file system.* `Divided(s, P)` says that P gives each file, and `Nobody` for the free
blocks, the whole chain that starts at its first block, and that every block is in one
of these chains at one place; there is such a P if and only if the chains that `Sound`
looks at are one (`SoundDivided`, `DividedSound`), by a pigeon-hole argument: a chain of
different blocks is not longer than `MAX_BLOCKS`, where `Chain` would cut it.

The inductive invariant of `Spec` is `Kept`: types without bounds on sizes and counters, and
that whatever exists has been opened. It says nothing of chains, which removals may damage.
`ReadsBack` is then a theorem about one state: when its chains are sound, every iteration
of `fat_read` finds the block of its position (`Translate`) and adds the bytes that
are there (`BytesRead`), so the loop returns the content.

Writing is where the chains change. `Writing` is the invariant of the loop of `fat_write`,
shown by induction over its iterations (`WritingStep`): blocks have only moved from the
free chain to the file's (`Moved`), as many as the bytes so far need; all other files have
their blocks and bytes; of the file, the bytes written are where `Content` finds them and
the others are as before; and a write that failed has used the last free block. A write that
begins beyond the block after the last one appends fewer blocks than the size needs (`Hole`);
the chains still divide the blocks, but no longer fit the sizes.

`CountersMatchLists` and the ranges in `TypeOK` are not invariants of `Spec`: once a
chain is damaged, a later removal counts blocks that the file does not have, and a chain may
become sound again with the wrong counters. They are invariants of `SoundSpec`, whose
behaviours take no step from an unsound state, which is what the constraint of the run
`fat` explores. The hard step is a removal that leaves the chains sound although
`last_free_block` was not the last: then the other files still have their chains
(`UnlinkOthers`), and since every block is in one chain, as many are free as there
were and the file had (`UnlinkFrees`, by counting places).

The refinement is of `Spec` without restriction, since `Files` promises nothing after the
promise has ended. From a sound state, `Create` is a creation; `Unlink` is a removal, or
ends the promise, and then `fragile` held, because joining the file's chain to the last
free block keeps everything divided (`UnlinkDivided`); `Write` is `Written` when it begins in
the file or the block after it, where the room that `Files` computes from the contents is
the number of free blocks (`RoomIs`, `OverwrittenInside`), `WrittenBeyond` when it begins
further out, and an end of the promise, with no content changed, when the file is gone. That the
division is unique (`DividedChains`) is what makes the contents before and after comparable.

*Only model-checked:* the liveness properties, since ENABLED and fairness are beyond the
prover. The four properties that the code violates are refuted by TLC on small instances.

## 5. What the checks found

* **Negative semaphores** (`sem_negative`): the parameter of `sem_init` is unsigned,
  so its test for a negative value never holds.
* **The keyboard jams** (`keyboard_full`): with 80 unread keys the ring is full for
  `save_character` and empty for `get_character`; from then on reads return 0
  characters, and nothing changes that. A reader that asks for 80 characters gets a
  result of 0, and one that asks for more, or for 0 behind another reader, blocks
  the queue. The end of the handler, meant to hand over a full buffer, never hands
  over anything, for a ring of any size (`DrainsNothing`). This is why `Terminal` has a state `jammed` and the properties speak of
  counts from 1 to 79.
* **unlink loses blocks** (`fat_unlink`): `last_free_block` is not moved. After two
  removals blocks are lost, and later a file's chain may be rewritten. This is
  why `Files` calls itself `fragile` after a removal.
* **Shared dynamic channels** (`channels_free`): exit of a child frees the standard
  channels of its parent; the next open reuses them under the parent's descriptors.

Met on the way, without a run of their own:

* the console, compiled with `-O2`, loses the text of the rows that it moves up, because of the
  operand that `do_scroll` changes (`io.c:34`); a character that fills the last row is stored
  after the scroll, in the row below its own (`io.c:71`); nothing clears the screen at start,
  and a newline does not fill the rest of its line as `io.c:60` says (its loop begins beyond
  the last column or not at all), so what is printed stands beside what was there before; at the
  last column it blanks what the rows below showed; the end of the
  clock's string puts a NUL in row 1 (`io.c:110`);
* unlink gives its process another EBX under `-O2` (`sys.c:266`); exit of task 0
  returns, with whatever was in EAX (`sys.c:49`); `perror` returns the `errno` of its own
  write if that fails (`libc.c:134`); `access_ok` refuses the first byte of the
  data pages for writing (`utils.c:76`);
* files can never be closed, because
nothing increases `opens` in the directory (`fat.c:133`); unlink succeeds only if
the file *is* in use (`sys.c:263`); an open of an existing path takes the driver
that the dynamic channel had before (`sys.c:204`); a failed write moves the offset
back by ENOSPC (`devices.c:126`); a fork that runs out of memory loses its slot and
frees a frame of the parent (`sys.c:97`), which the constants of the sources exclude.

## 6. Not modelled

Boot sector and image builder; the set-up of GDT and IDT, constant tables filled once;
interrupts in the few instructions between `sti` in `main` and user mode; `access_ok` and
user addresses; `get_stats` and `getpid`, which only read, and `debug`; `perror`, the string
functions and the test programs; scan codes, whose table is constant; `printk_xy`, which
nobody calls. They keep no state that the modelled parts depend on; `PROJECT.json` lists
them under `components`.

The minutes of the clock are written to a string of eight characters
(`interrupt.c:26`) without a test, which is enough for 9999 minutes, about a week; the
text of a page fault to one of 36 (`interrupt.c:216`), which holds a pid of four digits.
The models have no strings, and the effects of an overflow are not described.

## 7. Plan

Done: `Lists`, `ListPointers`, `Scheduler` with `Dispatch`, `LinkedScheduler`, `Keyboard` with `Terminal`,
`Kernel`, `Memory` with `AddressSpaces`, `Fat` with `Files`, `Channels`, `Contexts` over
`Libc` with `Processes`, `Console` with `Teletype`; proofs of all safety properties,
action properties and refinements of the passing runs.

Next, in this order:

1. `Memory` in `Kernel`, so that fork's failure is the allocator's and a reader finds its
   characters in its own pages.
2. An abstract specification of descriptors, with what `Channels` keeps of it.
