# Moxia: a verification project

Moxia is a small operating system for x86-64: a UEFI loader and a kernel with
preemptive tasks, a terminal with pipelines, a FAT file system on a volume image
in memory, and user programs with four system calls. This directory holds TLA+
models of its kernel (`src/kernel`) and its loader (`src/MoxiaLoaderPkg`), TLC
configurations that check them on small instances, and TLAPS proofs, for every
instance, of the safety of the task manager, its preemption, the timers, the frame
allocator, the pipe, the console, the keyboard, the shell, program loading and the boot.

## The system

One processor, no locks: mutual exclusion is `cli ... sti`. Three things run
concurrently: the tasks, the timer interrupt (which preempts) and the keyboard
interrupt. They share the objects below.

| Component | State | Operations | Uses | What makes it correct |
|---|---|---|---|---|
| Task manager (`task.cpp`) | a run queue per level, `current_level_`, `level_changed_`, tasks with level, running flag and message queue, `finish_tasks_`, `finish_waiter_` | NewTask, Wakeup, Sleep, SendMessage, ReceiveMessage, SwitchTask, Finish, WaitFinish | context switch | the queues hold exactly the ready tasks; the front of the current queue has the processor; the highest level runs; no wakeup is lost; Finish meets WaitFinish |
| Timer manager (`timer.cpp`) | `tick_`, priority queue of timers | AddTimer, Tick | task manager (messages to task 1, SwitchTask) | timers fire at their tick, in order; preemption is periodic |
| Main loop (`Main.cpp`) | its message queue | receive or sleep, forward keys, repeat timers | task and timer manager | keys reach the terminal; timers repeat |
| Terminal (`terminal.cpp`) | line buffer, `last_exit_code`, one task per pipeline stage | TaskTerminal, ExecuteCommand | task manager, pipes, files, programs | the prompt returns; nothing is left of a pipeline; the exit code is the last stage's |
| Pipe (`terminal.cpp`) | the reader's message queue, `data_`, `len_`, `closed_` | Write, FinishWrite, Read | task manager | one ordered byte stream with an end |
| Frame allocator (`memory_manager.cpp`) | bitmap, range | InitializeMemoryManager, Allocate, Free | | no frame has two owners, none leaks, none that is not memory is handed out |
| Program loading (`terminal.cpp`, `paging.cpp`, `elf.hpp`) | page maps, CR3 of a task | SetupPML4, LoadELF, SetupPageMaps, CleanPageMaps, FreePML4 | frame allocator | an exec gives back the frames it took |
| System calls (`syscall.cpp`, `asmfunc.asm`) | file table of a task, saved kernel stack pointer | read, write, open, exit | files, tasks | |
| FAT (`fat.cpp`) | FAT and directory entries, read and write position of a descriptor | Read, Write, FindFile, CreateFile | | chains stay disjoint; what is read is what was written |
| Interrupts and faults (`interrupt.cpp`) | vector table, one shared interrupt stack | fault handlers, KillApp | | a program's fault ends that program only |
| Keyboard (`keyboard.cpp`) | modifiers held down | KeyboardOnInterrupt | task manager | modifiers follow the keys |
| Console (`console.cpp`, `fonts.cpp`) | buffer, cursor, what the screen shows | PutChar, PutString, Clear | frame buffer | the cursor stays on the screen, which shows the buffer |
| Loader and initialisation (`MoxiaLoaderPkg/Main.c`, `Main.cpp`) | memory map and its key, frames of kernel and volume, what is initialised | UefiMain, KernelMainNewStack | firmware, frame allocator | the kernel allocates no memory that is in use; nothing is used before it is there |
| Kernel heap (`newlib_support.c`) | program break | sbrk | frame allocator | the break stays in the heap |

What is hard here: interleavings that only a badly timed interrupt produces,
operations called with interrupts on that are written as if they were off,
references to tasks that may be gone, early returns after half of the work, and
long legal sequences of scheduler calls. `PROJECT.json` lists each such hazard at
its line, with the properties that would catch it.

## The modules

| Module | Models | Status |
|---|---|---|
| `RunQueues` | the run queue methods of `TaskManager`, as operators on a record of its fields | checked, proved |
| `TaskManager` | the task manager: one action per public operation | checked, proved |
| `Preemption` | the task manager's calls that are made with interrupts on, step by step | checked, proved |
| `PriorityScheduler` | abstract: what the task manager promises as a scheduler | refined by `TaskManager`, proved |
| `TimerManager` | timers, the timer interrupt, the main loop's repetition | checked, proved |
| `MemoryManager` | the frame bitmap, bit by bit | checked, proved |
| `Pipe` | `PipeDescriptor`, byte by byte | checked, proved |
| `ByteStream` | abstract: what a pipe promises | refined by `Pipe`, proved |
| `FatNames` | the two conversions of a file name, `SetFileName` and `NameIsEqual` | checked |
| `Fat` | the file allocation table, directories, files as two tasks use them | checked |
| `Shell` | keyboard, main loop, terminal and pipelines together | checked, proved |
| `Exec` | `ExecuteFile`: page maps, program loading, faults, CR3 | checked, proved |
| `Keyboard` | the keyboard driver, as operators on its modifiers | checked and proved in `TerminalIO` |
| `Console` | the console and what it draws | checked and proved in `TerminalIO` |
| `TerminalIO` | composes the two with the terminal's prompt and descriptor | checked, proved |
| `Boot` | the loader, and the order in which the kernel initialises itself | checked, proved |
| `*Proofs` | the proofs about the module of that name; `RunQueuesProofs` serves two, `MemoryProofs` is about `MemoryManager`, `Boot` and `Exec` | |
| `MC*` | instances for TLC | |

Definitions whose name ends in `_Something` and whose comment begins with
*Fault* are not part of a model: each is one of its definitions with a bug such
as the code could have, kept to show that the properties notice it.

**RunQueues and TaskManager.** `sched` holds `running_`, `current_level_` and
`level_changed_` of the manager and `level_` and `running_` of the tasks; `cpu` is
the task whose context is loaded, and changes where the code reaches
`SwitchContext` or `RestoreContext`. An operation is one step. The code makes it
one by turning interrupts off, except in three places (`Main.cpp:55`,
`Main.cpp:76`, `terminal.cpp:469`), which `Preemption` takes apart, as `TimerManager`
does a fourth (`Main.cpp:72`). Tasks may call any
operation at any time, within the obligations written in the module: nobody puts
the idle task to sleep, or another task that has work to do; only a task's
creator waits for it, once; neither the main loop nor the idle task finishes. A
task switched out inside `WaitFinish` resumes with interrupts off, so nothing but
its own loop can be next (`Interruptible`). `ReceiveMessage` and the `Sleep` that
follows an empty queue are one step because every caller has both in one critical
section. `SwitchTask` is taken at any time, which covers every timer period.

**Preemption.** `pc` says where each task is in those three places; interrupts come
between any two steps. `push_back` of a run queue and `emplace_back` of `tasks_` are
windows with a begin and an end. Whoever changes the same queue, or looks a task up,
in between leaves the container in an undefined state: `broken` records whose window
was hit, and the behaviour ends there. The rest of the kernel is kept as far as it
competes for these containers.

**TimerManager.** `timers` is the priority queue, a set in which the least timeout
is on top; equal timeouts come in any order. Each turn of the loop in `Tick` is a
step. Clients add timers before or after their tick; the main loop receives and
handles messages with any delay. It calls `AddTimer` with interrupts on, so its push
begins and ends in two steps, and ticks may come between them. A tick that finds
nothing expired only reads the top; one that pops or pushes itself works on a heap
that is half changed, and the behaviour ends there (`torn`). The only other caller of
`AddTimer`, `InitializeTask`, turns interrupts off, as other clients are assumed to.
Today no client adds a timer whose message would make the main loop push; the model is
of the interface. A timer carries the tick at which it was added, for the properties.

**MemoryManager.** No caller of `Allocate` or `Free` turns interrupts off, so every
bit read or written is a step of its own and two tasks interleave between them. The
bits of 64 frames share a word: that changing one is one step takes `SetBit`'s `|=` and
`&=` to be compiled to one instruction on memory, which an interrupt cannot divide.
`Init` runs the boot pass over a memory map. `range_end` is the end of memory
times the frame size, as the code has it: it passes an address where a frame
number is meant, so the range is far too large.

**Pipe.** The n-th byte written is the number n, so order and loss show. A
Write in progress, a Read in progress and the remainder `data_` are variables. Every
`Read` is made in a system call; one that finds nothing sleeps there, which stops the
machine (`halted`, see *Shell*).

**Fat.** `fat` is the table; `ent` gives the directory entry at each place of each
cluster, `disk` the bytes. A free cluster holds entries left over from earlier use,
so that a directory cluster that is not cleared shows. `fd` has the fields of
`fat::FileDescriptor`, `call` the local variables of the call a task is in. No
caller turns interrupts off (`FMASK` is 0, so system calls run with interrupts on),
and a step is one turn of a loop that changes the volume; searches change nothing
and are one step. Names are converted as the code does, by two different
algorithms; the widths are constants. The n-th byte a task writes is `<<t, n>>`, and
what `Write` copies from behind its buffer is an empty value. A call that leaves the
volume ends the behaviour (`wild`). Callers are assumed not to write to a directory.
A behaviour starts with any sound volume of `Images` (`IsVolume`), whose directories
lie at most `MaxDepth` deep; the entries `.` and `..` of a directory are there and lead
back, but are not counted as files. Only the last name of a path may be empty: the code
reads two slashes in a row as a way back to the root.
Three variables only serve the properties: `raced` (an allocation overlapped with
another, or an open with a creation), `stale` (a deleted entry was reused that had
clusters), `shared` and `crossed` (whose file another task wrote, who wrote across the
end of a cluster).

**Shell.** One task per pipeline stage, each with the local variables of its
`ExecuteCommand`; a key message stands for the keys of a whole stage, `Enter`
executes. What a program does is left open: it writes into its pipe, reads, and
exits when it likes. Only ready tasks run, and any of them may: of the scheduler
nothing else is assumed, which the refinement of `PriorityScheduler` justifies.
Every read of a pipe comes from a program, inside a system call; when the queue is
empty `Sleep` switches away on the program's stack, and the processor ends in a
fault handler (`halted`). Other faults in system calls, which stop the machine too, are
left to `Exec`. A message to a task that has finished goes to freed
memory: it is lost or the processor faults.

**Exec.** `run` holds where each task is in `ExecuteFile` and its local variables; a
step takes or gives back one frame, and the timer may switch tasks at any of them.
`mem` is the page map in each frame, `cr3` the register, `context` its copy in each
task, `data` the segments whose bytes a frame holds. The address space keeps its
shape with fewer levels, entries and bytes; the upper half belongs to programs. A
program's segments are assumed not to be empty, to lie below the page of the stack and
in the same half as the first, the only one `LoadELF` looks at; the first argument is
the command. `Allocate` and `Free` are single steps, which
`MemoryManager` justifies as long as two calls of `Allocate` do not overlap. A program
makes system calls, opens files and exits in them, and faults in any way, in its own
code or in a call: a call uses the program's pointers, its stack and its number
untested, so it may fault with the processor at CPL 0, and then `KillApp` returns and
the handler stops the machine. `IdtEntries` is the vector table as
`InitializeInterrupt` sets it, and an interrupt during `KillApp` (`kill_hit`) may or
may not destroy what `KillApp` still needs.

**Keyboard, Console, TerminalIO.** The driver is two operators: the modifiers after a
byte, and the messages it sends, with the machine's scan codes and masks. In the
console each writer is inside one `PutChar` (test, draw, move) or `NewLine`; `screen`
is what the frame buffer shows in each cell, drawn as `fonts.cpp` draws: sixteen
pixels wide, strings up to their NUL, nothing for bytes above 127. Scrolling and
`Clear` are one step each. `TerminalIO` puts keys at one end and the screen at the
other, with the prompt, a program that reads from the terminal and two tasks that
print between them; `down` and `doubled` (keys held, and held together) and
`overlapped`, `raced` and `returned` serve the properties.

**Boot.** The firmware is external: it may allocate between any two steps of the
loader, which changes the key of its memory map, and any call whose status the loader
tests may fail. `types` is the firmware's map, `memmap` the loader's copy, on its
stack. The kernel's part is the list of its initialisation calls, what each uses of
the ones before, the frames the heap and the two stacks take, and interrupts that may
come as soon as the flag is on and the device is started. Of the statuses the loader
ignores only that of the first `GetMemoryMap` is modelled.

## The runs

| Run | Bounds | Checks |
|---|---|---|
| `task_manager` | 2 levels, 4 tasks, 1 message per queue | all, the refinement and `NoStarvation` |
| `preemption` | 3 levels, 6 tasks, 4 keys | `OnlyStagesRace` |
| `timer_manager` | 7 ticks, preemption every 2, repetition every 3, two repeating timers and one that does not | all |
| `memory_manager` | 3 maps of 3 frames, 2 tasks with 2 blocks of 1 or 2 frames | all |
| `pipe` | messages of 3 bytes, writes of 0 to 7, reads of 0 to 4, 9 bytes | all |
| `fat` | 4 volumes of 6 clusters of 2 bytes or 2 entries, 2 tasks, 9 paths, names of 2 and 1 characters, lengths 0, 1, 2 and 4, 5 bytes in all | all |
| `shell` | 5 keys, 1 chunk per stage, up to 4 stages | all safety properties |
| `shell_live` | 4 keys, all kinds of stages and redirects | `PromptReturns` |
| `exec` | 3 levels of 4 entries, pages of 2 bytes, 12 frames, 2 tasks, 3 executions of 9 programs | all |
| `terminal_io` | 3 rows, 3 columns of which the last stays empty, 2 writers, 5 bytes typed or printed | all |
| `boot` | 9 frames, 3 kernels, 2 allocations by the firmware | all |
| `shell_sleep_in_syscall` | 3 keys, programs only | finds the finding below |

Why the bounds are enough. Four tasks on two levels put two tasks in one queue at,
below or above the current level, and let a parent and a child meet in every order.
Six tasks are the main loop, the terminal, the idle task and a pipeline of three stages
behind it, each of which may be starting the next. Seven ticks cover three
preemptions, two repetitions and a main loop that misses one. Three frames with a
hole or an unavailable region, and blocks of two, reach every branch of the
search, and two tasks every overlap. A pipe needs writes and reads below, at and
above the size of a message. Five keys give a pipeline of three stages with a key
typed meanwhile, or two lines one after the other, the first of which may leave
tasks behind. Two-byte clusters and five bytes let a task fill a cluster by several
writes or by one, start a file with one cluster or with two, extend it by one or two,
write across the end of a cluster, and fill the cluster another task has just linked;
the volumes have a full root and a full subdirectory, an empty file, and deleted entries
with and without clusters, before and behind a file; two free clusters are few enough
to run out. The nine paths are long, short, dotted, end in a slash or
lead through a file. States after an overlap (`raced`) are not explored further, since
every property excepts them. The nine programs of `exec` share pages, cross into another page map and another top-level entry, begin within a
page, lie beside the stack, have too many or too long arguments, and are refused by
each test; twelve frames are enough for any one of them and not for two, so that
allocation fails at every place. Three rows and five characters scroll twice, with a
carriage return, a NUL and a character without a glyph among them. Nine frames hold
kernel, volume, stack, runtime services and heap, in any order that leaves room, and
sometimes none. But for `fat` the safety properties are proved for all
bounds besides.

What they show (the type invariants of `Pipe`, `Shell`, `TimerManager` and
`MemoryManager` are proved and are in no run; that of `Fat` documents its state):

* `RunQueuesExact`, `CpuIsCurrent`, `HighestLevelRuns`, `NoLostWakeup`,
  `FinishHandshake`, `ImplementsPriorityScheduler`: the scheduler's bookkeeping
  is consistent after every sequence of operations. The code's one subtlety is
  `level_changed_`: a task woken above the current level does not run at once, but
  the flag is always there for the next rotation.
* `OnlyStagesRace`: what the main loop does with interrupts on is safe, because it is
  alone at its level. A run queue **breaks when the timer comes while the terminal or
  a stage pushes the stage it starts**, and a lookup fails while `tasks_` grows.
* `NoOverdueTimer`, `PreemptionIsPeriodic`, `MessagesInOrder` hold **until a tick pops
  or pushes a timer while the main loop is inside its own push**: late messages delay
  nothing but themselves, and a push may take as long as it likes if nothing expires.
* `NoFrameOwnedTwice` and `BitmapExact` hold **as long as no two calls of
  `Allocate` overlap**: two programs started in one pipeline can make them overlap,
  and then both may get the same frame. `Free` may overlap with anything.
  `SearchMissesNothing`: the search passes over no room. `UnavailableStaysOut`: reserved
  frames and holes are never handed out, but **frames beyond the end of memory are, when
  no room below it is left**, where the code means to fail.
* `EveryByteInOrder`, `ImplementsByteStream`: a pipe is a byte stream. `ReaderSeesAll`:
  its reader sees every byte and the end, **unless it catches up with its writer**, which
  stops the machine; once the end is sent no `Read` waits in vain.
* `ChainsSound` (no cluster in two files, none lost, every chain ends and is long
  enough) holds **as long as allocations do not overlap and no deleted entry with
  clusters is reused**. Both happen: `a > f | b > g` lets two tasks allocate, and
  `CreateFile` does not reset the first cluster. `FileHoldsWhatWasWritten` holds
  **unless a write crosses the end of a cluster**: `Write` then copies more than it was
  given. `ReadsInOrder` and `StaysInVolume`: a read leaves the volume only if the file is
  written while it is being read, an allocation only if the volume is full, and a write
  only **if two tasks append to one file**, and one fills the cluster the other has linked
  and not marked yet. A write of no bytes truncates the file all the same.
  `CreatedIsFound` holds **as long as names fit 8.3**: others are stored under one form
  and looked up under another, and may hide a short name in a later entry.
* `NothingLeftBehind` and `ExitCodeOfLastStage` hold **unless a redirect failed**,
  whose early return abandons the stages it has started. `FreedReaderQuitEarly`:
  a freed task is used only when a stage ended before the end of its input, which
  every builtin does. `IdleOnlyAtPrompt` and `PromptReturns` hold **unless a line
  ends in `|`**, whose last stage becomes a terminal that never ends, or the
  machine halts.
* `MapsOwnTheirFrames`: through every switch, failure and inherited CR3 a task runs on
  an allocated page map that is a tree and shares no frame with another's.
  `FramesGivenBack` states exactly what stays allocated: **after every program the
  frames of arguments and stack, after an error all of them**. `ProgramComplete`: what
  runs is complete, except that **the last argument may be longer than its page**.
  `HaltedForCause`: loading a program stops the machine **if a segment begins within a
  page and its last byte lies one page further than its size rounds to**; a fault in a
  program's own code does so only **if an interrupt hits `KillApp`**, but **every fault in
  a system call does**. The shifted vector table
  does no harm, since each handler it misplaces expects an error code as well.
* `CursorOnScreen` holds for the column always, for the row **unless two `NewLine`s both
  found the last row free**. `ScreenShowsBuffer` holds for output that does not overlap,
  **but for a row with a NUL, once scrolled, and a row written after a carriage return**.
  `ModifiersFollowKeys`: Shift is always right, in spite of its masks; Ctrl and Alt are
  **off too early when both keys are held and one is released**.
* `LoaderDataKept`: however stale the first memory map, the kernel never allocates its
  own memory, the volume or what the firmware keeps, but **it may allocate the frame that
  holds the description of the screen**, which the pixel writer goes on reading.
  `NoEarlyUse`: nothing is used before it is initialised, **if the firmware hands over
  with interrupts off**: the first `sti` is at the end of `InitializeTask`.

Finding. A comment in `TerminalFileDescriptor::Read` asks why a read cannot
`Sleep`; `PipeDescriptor::Read` does sleep in the same place. The run
`shell_sleep_in_syscall` shows the trace: a program that reads its pipe before
anything was written halts the machine, for the reason given under *Shell*.

Fairness. `task_manager` assumes, for `NoStarvation`, that the timer interrupt keeps coming while
interrupts are on, which the periodic mode of the local APIC gives, and that a
task inside `WaitFinish` completes a turn of its loop. `shell_live` assumes that
every ready task gets its turns, which round robin gives tasks of one level
(`NoStarvation`) while the main loop, alone above them, sleeps between messages;
and that programs end. `pipe` assumes, until the machine halts, that the writer's command
ends and that the reader goes on reading with a buffer that is not empty.

Deadlock is not an error in these runs: a kernel without work waits for a key, and
a bound on ticks, keys or bytes stops a run, as do leaving the volume, a halted
machine, a loader that gave up and a container that is broken. Whether the shell may stop there is
what `IdleOnlyAtPrompt` checks. The task manager and the frame allocator
always have a next step, and their runs do check for deadlock.

## The proofs

Every proof module has an inductive invariant `IInv` (`MemoryProofs` also `BootInv` and `ExecInv`), a lemma per action that the
action preserves it, and theorems `Spec => []P` for the properties of the run. TLC
has checked each on the instance of the run. The assumptions are those of the
modules; they are named there and hold for the constants of the code.

**Task manager** (`RunQueuesProofs`, `TaskManagerProofs`). For at least two levels and
two tasks, any number of messages and any exit codes, all safety properties of
`task_manager`, and that it implements `PriorityScheduler`. The properties are not
inductive one by one: that a rotation finds the current task at the front needs the
queues to be exact, and that they are exact after `Sleep` needs the current task to be
the one that has the processor.

    IInv == TypeOK /\ SchedPart /\ IdPart /\ WaitPart /\ NoLostWakeup /\ FinishHandshake

`SchedPart`: the queues hold the awake tasks, the processor is at the front of the
current queue, a rescan is due or nothing waits above, the idle task is awake at
some level, so that a rotation always finds a task. `IdPart`: ids above `latest_id`
are unused. `WaitPart`: who waits waits for a task it created, and for one only.
`RunQueuesProofs` does the work below: for each operator of `RunQueues` a lemma
that it preserves the type, the exactness of the queues, the front, and the
rescan rule. The lemmas on `Erase` and on the rotation of a queue are stated on
sequences alone. The refinement follows from the invariant: the highest ready level is
the current one whenever no rescan is due, and a rotation that rescans finds it.

**Preemption** (`PreemptionProofs`). `OnlyStagesRace` for any number of tasks and keys.
It uses the lemmas of `RunQueuesProofs` for queues that a push is about to change: the
invariant says of the scheduler *without the tasks being pushed* (`Queued`) what
`SchedPart` says of the whole, that whoever is inside a push has the processor, and
that the main loop, while it is inside one of its calls, gives the processor to nobody.
All that holds until a container is broken; afterwards only `BrokenPart`, whose window
it was, is left. The proof needs the main loop to be above the default level
(`AboveAssumption`, `kMaxLevel > kDefaultLevel`; they are 3 and 1 in the code). With the
main loop at the default level the property is false: the timer would rotate its queue
while it pushes.

**Frame allocator** (`MemoryProofs`). For every memory map whose regions are
sorted and disjoint, any frame size, any number of tasks and blocks. While no two calls
of `Allocate` have overlapped, blocks and the frames of calls under way are disjoint
(`Disjoint`), their bits are set (`Owned`), and the bits a call has found clear and not
set yet are still clear (`StillClear`): the last is what an overlap destroys, and what
makes the other two inductive although each bit is a step. That unavailable memory
stays out does not depend on it: `BootPart`, the bits of the boot stay set, needs only
that no call touches a bit it did not find clear. What the boot pass marks is a
recursive function of the map; that it marks every frame that is not available
(`BootMarksTheRest`) is proved by the least region at which it would not.

**Program loading** (`MemoryProofs`). For page maps of two or more levels and entries per
map, any page size, any number of frames and tasks, and every program that satisfies
`ProgramAssumption`: all four properties of `exec`. `ExecInv` says that there is a
labelling of the frames in use, which gives each page map and each page the root it
hangs below, its level, its number among the pages and the top entry it is reached by,
such that entries lead from a label to the label one level down (`Forest`). The labelling
is existential because `CleanPageMaps` and a failed load unlink trees that stay
allocated: a frame keeps its label when nothing points to it any more, which a
definition by reachability could not give. `MapsInv` relates the roots to CR3 and its
copies in the tasks, and `TaskInv` says of each task which frames it has taken
(`TakenIs`), how far it has mapped, copied and cleaned (`Progress`, `Copied`), and why the
arguments lie where they do (`ArgsFit`). What a walk through the levels finds is a
recursive function; the lemmas on it go by the least level at which it would differ.

**Boot** (`MemoryProofs`). For every memory map, kernel image and heap size. `BootInv`
follows the frames of kernel, volume, stack and runtime services from the firmware's
map to the kernel's bitmap: the copy of the map may be older than the map, but what the
loader itself took before the copy is in it, and the copy the kernel gets is the one
whose key the firmware accepted. `NoEarlyUse` needs of it what each initialisation call
has left behind, and that interrupts are off until `InitializeTask`.

**Timers** (`TimerManagerProofs`). For every period, repetition and set of timer values.
`TaskTimerPart` follows the one task timer through the turns of `Tick`, `MessagePart`
says that what was sent has expired and that no timer older than a message expires
before it. A tick in the middle of a push changes nothing or sets `torn`, after which
only the types are left.

**Pipe** (`PipeProofs`). For every size of a message and every set of sizes of writes
and reads. `EveryByteInOrder` is inductive together with: a `Read` waits only when
nothing is left over, nothing is written after `FinishWrite`, and the empty message is
the last. The same invariant proves that `Pipe` implements `ByteStream`: a `Write`
pushes the bytes, `FinishWrite` closes the stream, a `Read` that returns pulls them, and
all other steps stutter.

**Console and keyboard** (`TerminalIOProofs`). For a screen of any size. `ColumnPart` and
`RowPart` count the writers that have tested and not yet moved: column and number of
writers inside `PutChar` together never exceed the width, although a test may be stale
when it is used. `ScreenPart` holds while no `PutChar` interrupted another: one writer,
the cursor where it left it, the screen as the buffer, and nothing below the cursor.
`WirePart` says of the bytes of a key still on the wire that they will make the
modifiers follow; the masks of the driver are computed bit by bit.

**Shell** (`ShellProofs`). For every set of stages, any number of keys, tasks and writes,
and so for pipelines of any length. `ChainPart` is the heart: until a redirect fails, the
terminal, the stages that live and those whose exit code nobody has taken form one
chain in the order of their ids, and all but the last are attached to the next. So
whoever has no next stage is the last, and when the terminal is, nothing is left
(`NothingLeftBehind`); and the one result travels up the chain, since only the last can
be between its command and its end (`ResultPart`, `ExitCodeOfLastStage`). `PipePart`
counts what was written, read and queued, with the end behind it; `QuitPart` and
`WaitPart` keep what a stage still needs of its subtask. `SleepPart` says why each task
sleeps; if all do, the stage with the greatest id waits for nobody, so it is at a prompt
(`IdleOnlyAtPrompt`).

Induction over data is done without an induction rule, by the least counterexample
(`LeastNat`, `GreatestTask`, from the well-foundedness of `<`): the first region of a map,
or the first message of a queue, at which a recursive function would not be what the
lemma says; the highest level with a ready task; the timer on top.

Only model-checked: liveness (`NoStarvation`, `PromptReturns`, `ReaderSeesAll`), which is
out of the prover's reach, and the safety of files (`Fat`).

## Not modelled

* The kernel heap: `sbrk` moves one pointer, and `malloc` is newlib's, which is not in
  the repository. That it is entered from interrupts and tasks alike is therefore not
  covered, nor that `Finish` runs on the stack it has just freed (`task.cpp:228`).
* Registers other than CR3, descriptor and gate layouts, the registers of the
  interrupt controllers and of the local APIC, pixel formats: data without behaviour.
* `printk` and what builtins print; `LoadFile`, `ReadName`, `FormatName` and
  `ListAllEntries`, which only read; how a command line is cut into words.
* Calls of the loader whose status it ignores (`OpenRootDir`, `OpenGOP`, the opening of
  `kernel.elf`): they are taken to succeed.
* The example programs: `Shell` and `Exec` allow a program anything they do.

## Plan

Proofs about `Fat`: the invariant is that there are disjoint sequences of clusters, one
per entry, that the table links and the directories lead to.

## Running

    tlc -workers 2 -config MCTaskManager.cfg MCTaskManager
    tlapm TaskManagerProofs.tla

`MemoryProofs` takes about ten minutes from nothing, the others a few minutes at most.
