# A TLA+ verification of the Yalnix kernel

Yalnix is a small teaching kernel in C: one CPU, user processes in Region 1 of
the address space, the kernel in Region 0, and a hardware layer (supplied by
the course framework, not in this repository) that delivers traps and switches
kernel contexts.  This directory models the kernel's control logic in TLA+,
checks it with TLC on small instances and proves every safety property that TLC
checks, the three refinements included, with TLAPS for every value of the constants.
Paths are relative to the repository root; line numbers are those of
`PROJECT.json`.

## 1. The system

### Inventory

| Component | State it keeps | Operations | What makes it correct |
|---|---|---|---|
| Scheduler (`src/process.c`, `src/trap.c`) | `PCB.state`, `ready_queue`, `current_process`, `clock_ticks`, `PCB.delay_until` | `ProcessMakeReady`, `ProcessWakeDelayed`, `ProcessSchedule`, `ProcessSwitch`, `TrapClock`, `SysDelay` | the queue links a process once and only READY ones; the CPU never goes to a blocked or dead process; whoever is due is woken; whoever is queued runs |
| Process life cycle (`src/process.c`, `src/syscalls.c`) | `parent`, `children`, `waiting_for_child`, the process table | `SysFork`, `SysExit`/`ProcessExitCurrent`, `SysWait`, `ProcessDestroy` | no dangling parent or child link; no exit missed by a waiting parent; a PCB is freed once, as a zombie, by its parent |
| IPC (`src/ipc.c`) | the object table: pipes, locks, condition variables, each with a queue of blocked processes | `PipeInit/Read/Write`, `LockInit/Acquire/Release`, `CvarInit/Signal/Broadcast/Wait`, `Reclaim`, `IpcProcessExit` | mutual exclusion with hand-off; a pipe is a byte stream; no lost wake-up; a slot is reused only when nobody depends on it |
| Terminals (`src/tty.c`) | per terminal: input queue, unfinished line, read and write queues, writer, busy flag; per process: the line handed to it, its write's length and offset | `SysTtyRead`, `SysTtyWrite`, `TrapTtyReceive`, `TrapTtyTransmit` | one chunk in the hardware at a time; a write is whole and unbroken; input is neither lost nor reordered; nobody sleeps on input |
| Memory (`src/memory.c`, `src/kernelbrk.c`, part of `src/process.c`, `src/syscalls.c`, `src/template.c`) | the frame table, page tables of processes and kernel, kernel stacks, breaks and stack limits | `FrameAlloc/Free`, `SysBrk`, `ProcessGrowStack`, `ProcessCopyRegion1`, `SetKernelBrk`, `LoadProgram`, `ProcessDestroy` | a frame has one owner and is lost by nobody; failures roll back; heap and stack stay apart; memories are private |
| Traps and dispatch (`src/trap.c`, `src/syscalls.c`, `KCCopy`, `KCSwitch`) | `PCB.user_context`, `*uctxt`, what the kernel stacks hold | the handlers' entries and returns | a process goes on with its own registers; a result reaches the process that asked |
| Queue (`src/Queue.c`) | a doubly linked list with a sentinel | push, pop, remove | it is a sequence |
| Boot (`src/kernelstart.c`) | - | `KernelStart` | every kernel page in use is reserved and mapped when virtual memory is enabled |
| Idle (`src/idle.c`) | - | a loop of `Pause` | always there to run |

### How the parts interact

All blocking calls share one shape: the handler saves the user context, sets the
process BLOCKED, links it into some queue (or only sets `waiting_for_child` or
`delay_until`), calls `ProcessSchedule`, and continues **behind that call** when
the process is next switched to, usually in a loop that looks at the shared
state again.  All wake-ups go through `ProcessMakeReady`.  `ProcessExitCurrent`
calls into IPC to release locks and wakes a waiting parent.  Terminal traps
arrive while any process, or idle, is in user mode and wake readers and writers.
All memory comes from one table of frames: page tables and kernel stacks of
processes, and the kernel heap, which every `malloc` in the kernel may extend.
Fork and the copying of kernel stacks go through one scratch page below the
kernel stack.

### What is hard here

Kernel code is not preempted, so the concurrency is exactly the interleaving at
calls of `ProcessSchedule`: what a handler knew before the call may be stale
after it.  Around that: exits of processes that others wait for or that own
locks; objects reclaimed and reused under the same id; a wrapping clock;
completion interrupts; wake-ups that must not be lost; and calls that run out
of frames half way, in a kernel that hands a freed frame to the next who asks.
`PROJECT.json` lists every such hazard at its line, with the properties aimed at it.

## 2. The modules

| Module | Models | Used by |
|---|---|---|
| `Sched` | scheduler core, clock trap, Delay | extended by the three below |
| `Process` | Fork, Exit, Wait, Delay and the process tree | runs `Process_*` |
| `Ipc` | pipes, locks, condition variables, Reclaim, exit | runs `Ipc_*` |
| `Tty` | terminal reads, writes and interrupts | runs `Tty_*` |
| `Frames` | frame table, page tables and the loops over them, as operators | extended by `Memory` |
| `Memory` | boot, Fork, Exec, Brk, stack growth, exit, Wait and the kernel heap, over frames | runs `Memory_*`, through `MCMemory`, which holds the executables |
| `AddressSpaces` | abstract: private address spaces | refined by `Memory` |
| `Context` | user contexts through traps, calls, forks and switches | run `Context_registers` |
| `VirtualCpus` | abstract: a register set per process | refined by `Context` |
| `Queue` | the linked lists of `Queue.c` | run `Queue_fifo` |
| `Fifo` | abstract: sequences of entries | refined by `Queue` |
| `SchedProofs` | lemmas on sequences without repetition, `ProcessMakeReady`, `ProcessSchedule` and systems without Delay | the proofs of `Process`, `Ipc` and `Tty` |
| `ProcessProofs` | scheduler discipline, process tree, Wait/Exit and Delay of `Process` | |
| `IpcProofs` | wait queues, locks and pipes of `Ipc` | |
| `TtyProofs` | writes and reads of `Tty` | |
| `QueueProofs` | `Queue` implements `Fifo` | |
| `ContextProofs` | `Context` implements `VirtualCpus` | |
| `FramesProofs` | what the loops of `Frames` leave: tables filled with fresh frames, and frames divided among owners | the proofs of `Memory` |
| `MemoryProofs` | layouts, ownership of frames and the kernel's mappings of `Memory`; `Memory` implements `AddressSpaces` | |

### State and actions: scheduling, IPC, terminals

A process is named by its pid.  The queues of `Queue.c` are sequences of their
owners.  A variable has the name of the C variable or field it stands for.
`kernel_pc[p]` is new: it says at which call of `ProcessSchedule` process `p`
left the CPU (`"wait"`, `"pipe_read"`, `"acquire"`, `"cvar_wait"`, `"tty_read"`,
`"tty_write"`), or `"user"` when nothing but the return to user mode is left.
In the kernel this is the saved kernel stack.

One action is one uninterrupted stretch of kernel code: from the trap to the
first `ProcessSchedule` that switches away (or to the return), and from there to
the next.  So `SysWait` is the call up to its first block and `SysWaitResumed`
one further turn of its loop, and every call that blocks has such a pair.  The
action contains all the handler does, `ProcessSchedule` included.  Calls that
fail their argument checks, run out of memory or find nothing to do return
without changing the modelled state and are stutters.

`ProcessSchedule(st, rq, du, now)` takes the states, queue and wake-up times
the handler has built so far and says what the step ends with.  It follows the
code exactly where it matters most: when the front of the queue is the current
process there is no `ProcessSwitch`, and its state stays READY.

Data is abstracted to what the properties tell apart: pipe bytes and typed bytes
are numbered in order of arrival, written bytes are counted, exit statuses
and buffers are left out, user contexts and memory are the subject of modules of
their own.  `holds`, `sent`, `delivered`
(Ipc) and `consumed`, `received`, `acked`, `wire` (Tty) record what programs and
hardware have seen; no kernel step reads them except that a transmit interrupt
needs a chunk on the `wire`.

`Process` leaves IPC and terminals out, `Ipc` leaves Wait and Delay out, `Tty`
leaves exits out; each says so where the code would call the missing part.  A
blocked process cannot exit, so a terminal never refers to a dead one.

Lengths and capacities of pipes are ints of `INT_MAX + 1` non-negative values, and a sum
or a doubling wraps as the build's ints do (`AsInt`).  Two things can then go wrong in
`SysPipeWrite`, and both are outcomes of the action: the doubling overflows, reaches 0
and never ends (`"growing"`), or the sum wraps to a negative number that passes for one
that fits, and `memcpy` runs over the end of the buffer (`"overrun"`).  The kernel does
not come back from the first, and after the second the model says nothing more.  A
growth for which `malloc` has no room returns ERROR and is no step.

A received line may be empty: `TrapTtyReceive` drops only negative lengths, and an empty
line wakes a reader, who returns 0, or takes a place in the input queue.

### State and actions: memory

A page table is a function from page to frame.  `FrameAlloc` returns the lowest
free frame, so a C loop that asks for a frame per page is determined by the order
in which it visits the pages: `Up` and `Down` give that order, `Served` the pages
it gets to before frames run out, `Mapped` and `Taken` what it leaves.  Brk and
`SetKernelBrk` share the loop `MoveBreak`, with its roll-back.  Every action then
follows its handler to the end, and each failure the code provides for is a
branch or an action: no frame for the child's stack, for a page of the copy, for
a page of the stack or of the new image; no pid; a kernel context that cannot be
cloned; an executable that cannot be read.

Two abstractions are deliberate.  Who runs and whom Wait finds is the business of
the scheduler modules, so `Switch` gives the CPU to any live process.  And the
kernel heap moves in steps of its own (`SetKernelBrk` with any request up to
`MaxKernelBrk`) instead of inside the calls that use `malloc`; no call uses it
between two of its own frame allocations, except that the start of init allocates an
argument buffer between its kernel stack and its image, which changes only the numbers
of the frames it gets.  `pmem` is what is in each frame; a
frame that is free contains `Junk`, because nobody may rely on it.  `Boot` is
`KernelStart` up to the enabling of virtual memory, with the break at three
points of it; `LateGrowth` says how far `malloc` may move the break behind
`MemoryInit`'s back.

Executables are assumed to have their data behind their text.  `LoadProgram` checks
only that data does not begin before text (`src/template.c:65`); if the two overlapped,
the frames of the text pages that are mapped over would be lost.  The heap of a program
starts where its data pages end, which is what `UP_TO_PAGE(li.ud_end)` is for the
layouts that `LoadInfo` (external) describes.

Left out: page protections, the flushing of the TLB (the model translates through
the tables themselves), and frames numbered outside physical memory.

### State and actions: user contexts

A context is a place in the program and `regs[0]`.  `Context` follows it through
`*uctxt`, the PCB and the local variable `caller` of `TrapKernel`, which Fork copies
with the parent's kernel stack.  `resumes_in[p]` is where `p`'s kernel stack goes
on when it is switched to.  After a switch `*uctxt` is `Stale`: the code does not
say whether the hardware keeps it on the kernel stack, and a handler that relied
on either would fail.  Any live process may be switched to at any time, which is
more than the scheduler allows.

Two steps store into the saved context of another process.  `TrapTtyTransmit` writes the
result of a TtyWrite again.  `WakeOne` (`src/ipc.c:376`) writes SUCCESS into `regs[0]` of a
process that sleeps on an IPC queue: one of them in Release, CvarSignal and CvarWait, any
number in PipeWrite, CvarBroadcast and at an exit.  Which call wakes whom is the
business of `Ipc`; here any set of processes asleep on a queue may be woken by any
call that succeeds.  What the woken call restores has that SUCCESS in it, and it returns
with a result of its own over it, or sleeps again.

### Queues

`Queue` has the links of `Queue.c` with the sentinel as a node.  Its steps are the
uses the kernel makes of it: an entry is pushed when it is in no queue, popped, or
removed from the queue it is in; a removal of an unlinked entry does nothing.
The other modules use sequences instead, which is what `IsFifo` justifies.

### Refinements

- `PrivateMemory`: `Memory` implements `AddressSpaces` with the contents of the mapped
  pages of each process as its address space.  Only the process itself writes to
  it, Fork copies it whole or not at all, and pages keep what is in them through
  everybody's Brk, Fork, Exec and exit, failed ones included.
- `OwnRegisters`: `Context` implements `VirtualCpus`.  A process that was preempted goes
  on with exactly the registers it had, and the only others that change are
  `regs[0]` of a process inside a call, several of them at once when several are woken.
- `IsFifo`: `Queue` implements `Fifo` with the walk along `next` as the sequence.

### Mutants

Each module holds, before the definition they alter, mutated forms of it named
for the bug (`DueLate`, `WaitBlocksSilently`, `CopyFramesKept`, ...).  They are not
used by the specification.  `PROJECT.json` pairs each checked property with a
mutant that violates it, so every property is known to react to a change of the
code it is about.

## 3. What TLC checks

`tlc -config <run>.cfg <module>`; each run ends within about two minutes.

| Run | Instance | Shows |
|---|---|---|
| `Process_lifecycle` | idle, init and 2 more pids, clock modulo 4, delays of 1-2 ticks; 8 700 states | `TypeOK`, `SchedulerSound`, `FamilySound`, `NoMissedExit`, `NoOversleep`, `ReapedByParent`; live: `QueuedRuns`, `ExitCollected`, `DelayEnds` |
| `Process_ready_runs` (violated) | 1 more pid | `ReadyRuns` |
| `Ipc_objects` | 3 processes, 2 slots of any kind; 64 000 states | `SchedulerSound`, `WaitersSound`, `LockSound`, `NoBarging`; live: `HandoffCompletes`, `WokenReaderRuns` |
| `Ipc_pipes` | 3 processes, 1 slot for a pipe or a lock, 6 bytes, reads and writes of 1-4, `INT_MAX` 7; 96 000 states | `TypeOK`, `NoLostReader`, `PipeFifo` |
| `Ipc_memcpy` (violated) | both copy orders | `PipeFifo` |
| `Tty_safety` | 3 processes, 2 terminals, writes of 1 and 3 with chunks of 2, one reader that splits lines; 786 000 states | `TypeOK`, `OneChunk`, `WritersSound`, `WholeWrite`, `NoByteLost`, `ReadInOrder`, `WriteUnbroken` |
| `Tty_liveness` | 3 processes that read whole lines of 0-2 bytes and write; 95 000 states | `NoSleepingReader`, `NoByteLost`; live: `WriteCompletes`, `ReadCompletes` |
| `Tty_leftover_lost` (violated) | 3 readers that split lines | `NoByteLost` |
| `Memory_frames` | idle and 2 processes, 14 frames, 5 pages of Region 1, 6 of Region 0, 3 executables; 121 000 states | `TypeOK`, `FramesExclusive`, `FramesAccounted`, `LayoutSound`, `KernelMapped`, `PrivateMemory` |
| `Memory_scratch` (violated) | the heap may reach the kernel stack | `HeapMapped` |
| `Context_registers` | idle and 2 processes, 3 places in a program; 104 000 states | `TypeOK`, `OwnRegisters` |
| `Queue_fifo` | 2 queues, 4 entries; 1 300 states | `LinksSound`, `LengthSound`, `IsFifo` |

### Why these bounds

Two processes beside idle and init are a parent and a child, or two siblings, with
pids reused after a reap.  For the safety properties the proofs of section 4 remove
the bounds altogether; for those, the runs guard against a mistake in the model, and
the mutants against a property that says nothing.  A clock modulo 4 with delays
up to 2 wraps while processes sleep and produces wake-up times that are 0 and
that lie behind the clock.  For locks, three processes are an owner, a first
waiter and a second one that could barge in; two slots are a condition with
its lock, each reclaimed and reused.  A pipe of initial capacity
1 doubles its buffer twice, and reads of 1-4 bytes leave overlapping rests.  With
`INT_MAX = 7`, a pipe asked for 5 to 7 bytes in all doubles for ever, and one that holds 4
and is given 4 more is overrun; 6 bytes stored over a pipe's life let both happen after
reads and a reuse of the slot.  `Ipc_objects` has writes of 1 byte and 1 in all, so there
no write is lost, and its liveness properties are about a kernel that keeps running.
Chunks of 2 with writes of 1 and 3 are a write of less than a chunk and of one and a
bit.  `MaxBytes`, `MaxLen`, `MaxInput`, `MaxLines` and
`MaxDelay` are the only cut-offs there, all of them on what programs and users do.
`Word = 1` in the `Ipc` and `Tty` runs stops the clock there: nothing in them
reads it.

With 14 frames of which the kernel and idle take up to 6, two processes of up to 5 pages
and two frames of kernel stack cannot all have what they ask for: Fork fails at
its stack, at its first page or half way, Brk and stack growth fail after some
pages, Exec after the old image is gone.  One executable is small, one needs data
and two pages of stack, one is refused because its data would touch its stack.
`MaxKernelBrk = 3` keeps the heap one page below the scratch page, without which
`HeapMapped` and with it the accounting of frames fail (`Memory_scratch`);
`LateGrowth = 0` stands for a `malloc` that takes heap in steps large enough not to
ask again before virtual memory is on.  With `LateGrowth = 1`, `KernelMapped` fails as
soon as it is: pages of the heap are neither reserved nor mapped.  The code relies
on this silently.

Contexts of two processes and idle suffice to tell whose registers are whose, as
the program changes its place between any two traps; the pids are reused.  One of the
two is awake to wake the other, so that several are woken at once only in the proof.  Four
entries in two queues give first, middle, last and only entries.

### Fairness

Liveness is checked under `FairSpec`:

- `SF(Clock)`: the clock interrupt keeps coming.  It is masked in the kernel and
  stays pending, so it is taken at the next return to user mode; with other
  traps in between, user mode comes and goes, hence strong fairness.
- `SF(TrapTtyTransmit(t))` per terminal: the hardware acknowledges every chunk it
  was given, and the pending interrupt is taken in user mode likewise.
- `WF` of the resumed halves of blocking calls: kernel code that is on the CPU
  runs to its end.

Programs are not assumed fair: they may never make another call.

### What the violated runs show

- **A READY process that never runs** (`Process_ready_runs`,
  `src/process.c:239`).  With nobody else ready, a clock trap makes the current
  process READY, takes it off the queue again and finds that it is current, so
  nothing sets it RUNNING.  At the next trap it does not count as running, is not
  queued, and idle takes over for good.  Two clock ticks while init is alone
  suffice.  `QueuedRuns`, which does hold, says that only processes off the queue
  are affected.
- **Overlapping memcpy** (`Ipc_memcpy`, `src/ipc.c:140`): undefined behaviour,
  modelled as a choice between the two copy orders; downwards it corrupts what
  is left in the pipe.  All other pipe runs use the upward order only.
- **Left-over input** (`Tty_leftover_lost`, `src/tty.c:224`): with several
  readers of one terminal, the rest of a line handed to one overwrites the rest
  left by another.  Nor does a rest wake anybody, so `NoSleepingReader` fails on
  the same instance.  With one reader, or with readers that take whole lines,
  neither happens (`Tty_safety`, `Tty_liveness`).
- **The heap over the scratch page** (`Memory_scratch`, `src/kernelbrk.c:36`):
  `SetKernelBrk` refuses breaks above the base of the kernel stack, not at it, so
  that the page below the stack may become heap.  The next Fork maps its scratch
  page there and unmaps it, and the heap has a hole.

Three more are known and are not runs of their own, as no document or test of the
repository says otherwise.  A wake-up time that wraps to exactly 0
(`src/syscalls.c:377`) reads as "not delayed", and the Delay never ends; `DelayEnds` speaks
of processes that have a wake-up time.  One that wraps to less than the clock ends the
Delay at once.  And the int overflows of PipeWrite (`src/ipc.c:165`, `src/ipc.c:402`):
`PipeFifo` says that they, and nothing else, take a write out of the kernel's hands.

## 4. What is proved

All safety properties of `Process`, `Ipc`, `Tty`, `Context`, `Queue` and `Memory`, three
refinements included, for every value of the constants that meets the named
assumption of the module:

| Module | Theorem | Statement |
|---|---|---|
| `ProcessProofs` | `TypeCorrect` | `Spec => []TypeOK` |
| | `SchedulerCorrect` | `Spec => []SchedulerSound` |
| | `FamilyCorrect` | `Spec => []FamilySound` |
| | `OnlyParentReaps` | `Spec => ReapedByParent` |
| | `NoExitMissed` | `Spec => []NoMissedExit` |
| | `NobodyOversleeps` | `Spec => []NoOversleep` |
| `IpcProofs` | `TypeCorrect` | `Spec => []TypeOK` |
| | `SchedulerCorrect` | `Spec => []SchedulerSound` |
| | `WaitersCorrect` | `Spec => []WaitersSound` |
| | `LocksCorrect` | `Spec => []LockSound` |
| | `HandedInOrder` | `Spec => NoBarging` |
| | `ReadersCorrect` | `Spec => []NoLostReader` |
| | `PipesCorrect` | `CopyOrders = {"ascending"} /\ Spec => []PipeFifo` |
| `TtyProofs` | `TypeCorrect` | `Spec => []TypeOK` |
| | `ChunksCorrect` | `Spec => []OneChunk` |
| | `WritersCorrect` | `Spec => []WritersSound` |
| | `WritesWhole` | `Spec => []WholeWrite` |
| | `WritesUnbroken` | `Spec => WriteUnbroken` |
| | `ReadersAwake` | `Spec => []NoSleepingReader`, if `OneReader \/ WholeLines` |
| | `BytesKept` | `Spec => []NoByteLost`, if `OneReader \/ WholeLines` |
| | `ReadsInOrder` | `Spec => []ReadInOrder`, if `OneReader` |
| `QueueProofs` | `LinksCorrect` | `Spec => []LinksSound` |
| | `LengthCorrect` | `Spec => []LengthSound` |
| | `FifoCorrect` | `Spec => IsFifo` |
| `ContextProofs` | `TypeCorrect` | `Spec => []TypeOK` |
| | `RegistersCorrect` | `Spec => OwnRegisters` |
| `MemoryProofs` | `TypeCorrect` | `Spec => []TypeOK` |
| | `LayoutCorrect` | `Spec => []LayoutSound` |
| | `FramesExclusiveCorrect` | `Spec => []FramesExclusive`, if `MaxKernelBrk < StackBase` |
| | `FramesAccountedCorrect` | `Spec => []FramesAccounted`, if `MaxKernelBrk < StackBase` |
| | `KernelMappedCorrect` | `Spec => []KernelMapped`, if also `LateGrowth = 0` |
| | `PrivateMemoryCorrect` | `Spec => PrivateMemory`, if `MaxKernelBrk < StackBase` |

The assumptions say that sets are finite, that numbers are numbers and that `NULL`
is none of the values it is told apart from: `SchedAssumption`, `ProcessAssumption`,
`IpcAssumption`, `TtyAssumption`, `QueueAssumption`, `ContextAssumption`.
`FramesAssumption` and `MemoryAssumption` say how Region 0 is laid out (text below the
break, the break below the stack, the stack within physical memory), that a linker
puts data behind text, that every program has a page of stack, and that `Invalid` is no
number.  Eight theorems have a hypothesis besides, and each is there because the
property is violated without it:

- `CopyOrders = {"ascending"}`: what the overlapping `memcpy` does (`Ipc_memcpy`);
- `OneReader \/ WholeLines` (at most one process reads terminals, or no read asks for
  less than a line): left-over input (`Tty_leftover_lost`).  `ReadInOrder` is about a
  single reader in the first place, as two that were handed lines may return in
  either order;
- `MaxKernelBrk < StackBase`: the kernel heap stays below the scratch page, which
  `SetKernelBrk` does not see to (`Memory_scratch`).  When Fork maps the scratch page
  over a page of the heap, the frame there is lost (`FramesAccounted` fails on that
  instance too), and a Fork that fails leaves a frame there that it has freed, which
  `free` may free again when it is another's: with 11 frames and a kernel stack of one
  page, TLC finds `FramesExclusive` and `PrivateMemory` violated;
- `LateGrowth = 0`: no heap is taken between `MemoryInit` and the enabling of virtual
  memory, as nobody would map it.

The argument, module by module:

1. `SchedProofs`.  `ScheduleSound`: if the states and the queue a handler passes
   to `ProcessSchedule` are in order (`StatesSound`, `QueueSound`), so are those
   it leaves, and each process is treated as `Rescheduled` says: the dead stay
   dead, and a blocked process is woken exactly when it is due.  `WakeSound` says
   the same of `ProcessMakeReady`, provided it is not called on the live process
   on the CPU.  `Undelayed` is the scheduler's part of the invariants of `Ipc` and
   `Tty`: types, `SchedulerSound`, and that nobody is delayed, so that only a
   wake-up ends a BLOCKED state.
2. `ProcessProofs`.  The inductive invariant is `SchedInv == TypeOK /\
   SchedulerSound /\ IdleRuns`.  `IdleRuns` (idle is RUNNING and in no call) is
   needed because `ProcessSchedule` falls back to idle without looking at it.  One
   lemma per handler.
   `FamilySound` is inductive beside it: the one fact an exit needs is that nobody but
   the dying process changes between alive and dead (`LifeKept`), the one a reap needs
   is that a zombie has no children left.
   `NoMissedExit` is strengthened by `delay_until[p] # 0` implying that `p` is blocked in
   Delay (`WaitOK`): otherwise a timer could wake a parent out of `SysWait` with its flag
   still up.  A step either does not concern a process (`Undisturbed`) or leaves it
   awake; only the exit of a child of a waiting parent needs an argument of its own.
   `NoOversleep` follows from `Rescheduled`, because every step that moves the clock or
   puts a process to sleep ends in `ProcessSchedule`.
3. `IpcProofs`.  `IpcInv == Undelayed(PC) /\ ObjectsInv /\ PipesInv`.  `ObjectsInv` has
   the wait queues in both directions (`QueuesLinked`: who is queued is blocked in a
   call on that object, who is blocked is queued where its call says) beside
   `LockSound`; without the first direction a wake-up might reach a process that
   is running.  `PipesInv` adds that a pipe's buffer has a capacity its bytes fit
   into, one that is an int greater than 0, and that bytes read and buffered add up to
   bytes written.  `CapacityEnsured` says what the doubling loop of `PipeEnsureCapacity`
   leaves if it ends: an int that is at least what was asked; it rests on the least number
   with a property.  `GrowthEnds` says that it does end when at most half
   the range of int is asked (`DoubledGrows`: up to there each round adds at least 1).
   The stream half of `PipeFifo` (`Streams`) then needs only that the upward copy leaves
   exactly the bytes not read.  Its other half is about the moment a write is lost
   (`PipeWriteCases`), and that nothing moves afterwards (`LostStays`): the lost process is
   the current one, in the kernel, where no trap and no call is taken.
4. `TtyProofs`.  `TtyInv == Undelayed(PC) /\ OutInv /\ InInv`.  `OutInv` is about writes:
   every process blocked in `SysTtyWrite` has one place, as a writer or in a queue; a
   chunk is on the wire exactly while the terminal is busy, and acknowledged bytes
   and the chunk add up to the offset; a queued write has not begun.  `InInv` is about
   the read queues, and that a line is handed only to a process on its way out of
   `SysTtyRead`.  For what is read, `ReadInv` says that each byte typed is in one
   place - returned, left over, in a process's hands, or queued - that queued
   lines come after all the others in the order of the queue (`Parted`), that each
   line is a run of consecutive bytes, and that nothing is left over while a line
   is in somebody's hands (`LinesTidy`).  The last is what fails with several readers
   that cut lines.  `Parted` is about sets of bytes alone; each way of taking a line
   is a lemma about it (`HandedTaken`, `InputTaken`, ...).  With one reader, `CutNext` shows
   that the line it finds is the next one.
5. `QueueProofs`.  The links alone are not inductive: that `QueuePopFront` finds an entry
   behind the head when `length` is not 0 needs the length to be that of the ring.
   `QueueInv` says there are sequences, one per queue and without common entries, that
   rings and lengths are those of.  `WalkIs` shows that the walk along `next` reads
   them off, and every operation is the one of `Fifo` on them.
6. `ContextProofs`.  `ContextInv` says where `*uctxt` may be relied on: it holds the
   registers of the current process in user mode only, and every other process was
   switched away from in the kernel with its registers in its PCB.  Each step then
   maps to a step of `VirtualCpus` or to a stutter.  `Posts` is what `WakeOne` may do to the
   PCBs: results for processes that sleep in a call.  `Informed` says that these are the
   results `VirtualCpus` allows, and `ScheduleWaking` and `ReturnWaking` treat the two ways
   a handler that has woken others goes on.
7. `FramesProofs`.  `Up` and `Down` number the pages of a finite set without gaps
   (`Ranks`), and so the k-th free frame exists and differs for each page served
   (`AllocGives`).  `Looped` is what follows of a loop over pages: the table it leaves is
   the old one with fresh frames on the pages served, and the frames taken are those.
   `BreakMoved` gives the three outcomes of moving a break; when frames run out, what is
   unmapped is exactly what was mapped.  `Divided` says that a set of frames is
   partitioned among owners, and `ExchangeDivides` that it stays so when one owner
   exchanges some of his for frames that were free.
8. `MemoryProofs`.  In three layers.  `LayoutInv == TypeOK /\ LayoutSound` and that the
   process on the CPU is alive.  `FrameInv` adds `Divided` for the owners of frames (the
   memory below the text, the heap, each table, each kernel stack), that no table names
   a frame twice (`Unshared`), that unused PCBs hold nothing (`EmptyHolds`; Fork and boot
   overwrite their tables), that free frames contain `Junk`, and that the image of the
   kernel stays mapped (`ImageMapped`): frame 0 stands for "none" in a kernel stack and
   may not be handed out, which it would be if the break could move below the image.
   Each handler is then an exchange of frames by one owner (`TableStep`), by a new
   process's stack and table (`CreateStep`), or by the heap.  The kernel's mappings need
   that an exit or a switch maps the stack of the next process and that Fork and Wait
   touch the stacks of others only.  For `PrivateMemory`, `FrameInv` before and after a
   step gives that the frames a step fills or gives up are not another's, and each
   handler is one step of `AddressSpaces` or changes no address space.

The inductive invariants were checked with TLC on the instances of section 3 before
they were proved.

Only model-checked: all liveness properties (`QueuedRuns`, `ExitCollected`, `DelayEnds`,
`HandoffCompletes`, `WokenReaderRuns`, `WriteCompletes`, `ReadCompletes`), since fairness
and ENABLED are outside the prover's reach.

## 5. Not modelled, and the plan

Not modelled: the TLB and page protections; the bytes of executables, argument
blocks and exit statuses; the heap allocator (`malloc` is in the framework); failures
of `malloc` in IPC and terminal calls, which return an error and change nothing,
or in a receive trap, which drops the line.  GetPid, TrapDisk, TrapUnhandled and the
stubs `re0sp.c` and `re1sp.c` change nothing.  The modules over `Sched` are not
composed with each other: what they share is the scheduler, and `SchedulerSound` is
checked over `Process` and `Ipc`.

What would come next: abstract specifications of a byte stream, which pipes and
terminals implement, and of a lock with a FIFO of waiters, which `Ipc` implements.
