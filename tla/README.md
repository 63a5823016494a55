# A TLA+ model of the Pintos kernel and its automated warehouse

The repository is a Pintos kernel (threads, devices, memory, a simple file
system, user programs) extended with a thread-based simulator of warehouse
robots (`src/projects/automated_warehouse`) and a sleep queue (`timer_sleep`,
`thread_sleep`, `thread_wakeup`). This directory models the kernel and the
simulator, model-checks the models with TLC on small instances, and proves
safety properties of the warehouse (with its refinement), of threads and sleep,
interrupts, the console, the disk driver, partitions, the file system and
paging with TLAPS for all instances.

## The system: inventory

| Part | State | Operations | What makes it hard |
|---|---|---|---|
| Warehouse, central thread (`automated_warehouse.c`) | plan arrays, `wait_steps`, victim, `step` | poll reports, receive, plan (BFS), accept a batch, choose a deadlock victim, dispatch, release | acts on copies of the robots' state; 100-poll timeout; conflicts between robots |
| Robots (`automated_warehouse.c`, `robot.c`) | `robots[]` | report, block, obey a command, load, unload | test and move are separate instructions; all robot threads run at once |
| Messages and barrier (`aw_message.c`, `aw_thread.c`) | boxes with dirty bits, `blocked_threads` | `block_thread`, `unblock_threads` | the bit is set before the thread blocks |
| Threads and scheduler (`thread.c`) | status, `ready_list`, `all_list`, tids | create, exit, block, unblock, yield, tick | preemption inside `thread_create`; one `elem` for all lists |
| Timer and sleep (`timer.c`, `thread.c`) | `ticks`, `sleep_list`, `next_tick_to_wakeup` | `timer_sleep`, `timer_interrupt` | the clock is read before the thread sleeps; a cached minimum |
| Synchronization (`synch.c`) | semaphore values and waiters, lock holders, condition waiters | down, try_down, up, acquire, try_acquire, release, wait, signal, broadcast | woken threads compete; `cond_wait` releases, then sleeps |
| Interrupts (`interrupt.c`, `intr-stubs.S`) | handlers, gates, IF, frames, `in_external_intr`, `yield_on_return`, both interrupt controllers | register, set level, take, return, end, yield on return | handlers nest; the yield happens inside the handler's frame |
| Interrupt queue, serial port, input (`intq.c`, `serial.c`, `input.c`) | circular buffers, waiting threads, interrupt enable register | putc, flush, getc, interrupt handlers | bounded buffer between handlers and threads; polling mixed with interrupts |
| Keyboard (`kbd.c`) | shift keys, Caps Lock | `keyboard_interrupt` | state built from presses, repeats and releases |
| Console (`console.c`, `debug.c`) | recursive lock with depth | printing, nested printing, printing by handlers, panic | handlers and a panic do not take the lock |
| Display (`vga.c`) | frame buffer, cursor | `vga_putc` | wrapping, tabs and scrolling at the edges |
| Page allocator (`palloc.c`, `bitmap.c`) | `used_map` and lock of each pool | get, free | pages are given back without the lock |
| Block allocator (`malloc.c`) | descriptors, free lists, arenas | malloc, realloc, free | arenas appear and vanish; header read without a lock |
| Processes and paging (`process.c`, `pagedir.c`, `exception.c`) | page directories and tables, CR3, the processor's TLB | execute, load, install, clear, fault, exit | a switch between any two steps; failures half way; stale translations |
| Program loader (`process.c`) | address space built from an ELF file | `load`, `validate_segment`, `load_segment`, `setup_stack` | addresses and sizes from the file, in words that wrap |
| Disk driver (`ide.c`) | channel lock, `expecting_interrupt`, `completion_wait`; the drives | detection, read, write, interrupt handler | completion and stray interrupts; two threads |
| Block devices (`block.c`, `partition.c`, `init.c`) | `all_blocks`, roles, counts | partition scan, read, write, choice of devices | tables inside partitions; sector numbers that wrap |
| File system (`filesys/`) | free map, inodes, directory, open files; disk and memory | create, open, reopen, remove, close, deny_write; reads and writes at byte ranges | several disk writes per operation; removal of open files; partial sectors |
| Archives (`fsutil.c`, `ustar.c`) | position in the scratch device | extract, append, rm | state kept between commands and lost between boots |
| Command line (`init.c`, `shutdown.c`) | options, arguments | options, actions, the end | order of options, arguments of actions |
| Library (`list.c`, `hash.c`, `bitmap.c`, `stdlib.c`, `string.c`, `arithmetic.c`) | | all operations | pointers, rehashing, boundary bits, overlap, overflow |

`PROJECT.json` lists every part with its status, and each hazard at the line
where it bites.

## Modules

| Module | Models | Notes |
|---|---|---|
| `AwMap`, `AwNav` | map, places, distances; BFS routing and escape direction | pure operators |
| `RouteSearch` | placements of robots, and the reference definition for the BFS | |
| `Fleet` | abstract: vehicles that move over free floor, fetch and deliver once | |
| `Warehouse` | central thread, robot threads, boxes, barrier | implements `Fleet` |
| `Lists` | what is left of a list from which elements are removed | used by `Sched` |
| `Sched` | run queue, block, unblock, yield, schedule | shared by `Threads`, `Synch` and `Serial` |
| `Threads` | thread life cycle, time slices, sleeping, idle | |
| `Monitor` | abstract: locks with one owner, atomic wait, FIFO signals | |
| `Synch` | semaphores, locks, condition variables | implements `Monitor` |
| `Intq`, `Serial` | interrupt queue; serial port, input buffer, UART | |
| `Interrupts` | gates, levels, handlers on the stacks of several threads, both controllers | processor and controllers are external |
| `Console`, `Vga`, `Keyboard` | console lock; display; scan codes | |
| `Palloc`, `Malloc` | page and block allocators | |
| `Paging`, `Loader` | processes, page directories, TLB; ELF loading | the TLB is external |
| `Ide`, `Partition` | disk driver; devices, partitions, roles | the drives are external |
| `Filesys`, `FileData` | free map, inodes, directory, files, restarts; the bytes of one file | |
| `Archive`, `CommandLine` | ustar archives; kernel command line | |
| `KList`, `KHash`, `KBitmap`, `Stdlib`, `Strings`, `Arith` | the libraries | with reference definitions |
| `WarehouseProofs`, `ThreadsProofs`, `ConsoleProofs`, `IdeProofs`, `FilesysProofs` | theorems about the component of that name | |
| `DevicesProofs` | theorems about `Interrupts` and `Partition` | |
| `MemoryProofs` | theorems about `Paging` | |
| `KernelProofs` | the theorems on `MCKernel`, where the components stand side by side | |
| `MC*` | instances for TLC (`Serial` and `Filesys` are run as they are) | `MCKernel` and `MCAlgorithms` hold several components side by side |

Correspondence. A definition keeps the name of the C function where that is
possible. One action is the longest stretch of a handler that nobody else can
observe in parts: a section with interrupts off (`Threads`, `Synch`,
`Serial`, `Interrupts`), one access to a shared object (`Warehouse`, `Ide`,
`Paging`), one character (`Console`), a critical section or one bit of a
bitmap (`Palloc`, `Malloc`), the stretch up to a disk write (`Filesys`), one
table entry (`Partition`), one page (`Loader`). The sequential modules take a
whole call as one action. A call that spans several actions records where it
stands: `pc` of a robot or a process, `todo` of a thread in `Synch`, `call` in
the allocators, `op` in the file system, `request` of a disk user, `calls` in
`Partition`. Names, payloads and page contents are left out where no property
is about them; bytes on the serial line are numbered.

The sequential modules carry a reference next to the code's own state: `seq`
(a sequence) beside the pointers of `KList`, `members` (a set) beside the
buckets of `KHash`, `ones` (a set of bits) beside the words of `KBitmap`,
`content` beside the sectors of `FileData`, `paper` (a roll of rows) beside
the frame buffer of `Vga`, `key_down` and `legend_text` beside the flags of
`Keyboard`, `expected` beside the archive of `Archive`.

Definitions whose comment begins "Variant of" are faulty versions of the
definition that follows. No specification uses them; they stand for plausible
bugs, and each property of a passing run is violated by the variant that
`PROJECT.json` names for it.

## Runs

Passing runs.

| Run | Instance | Shows |
|---|---|---|
| `warehouse_pairs` | 2 robots, nine pairs of tasks, four of them behind the bottleneck of items 4 and 5; a robot may once be late for its barrier; with fairness | no collision; accepted commands are always carried out; decisions rest on current reports; `Warehouse` implements `Fleet`, so that every robot loads its item once and delivers it where it should; every pair of tasks is finished |
| `synch` | 3 threads and an interrupt handler; one semaphore (value up to 2), lock, condition | no lost wakeup or signal; holder exact; waiter lists exact; `Synch` implements `Monitor` |
| `serial` | writer, reader, idle; 3-slot queues (2 usable); up to 4 bytes each way; with fairness | bytes in order and none lost; interrupts enabled when needed; nobody sleeps through an event, or with interrupts off; output reaches the line; readers are served; ready threads run |
| `kernel` | seven components, see below | see below |
| `algorithms` | fourteen components, see below | see below |

`MCKernel` and `MCAlgorithms` put components that do not interact side by
side: the first state chooses one (`part`), and the variables of the others
hold a dummy value. A property `MCP` is the property `P` of the component,
under the condition that the behaviour is about it.

`kernel` checks, with all interleavings inside each component:

- `Threads`: a thread is in one list at most; the cached wakeup tick is exact;
  wakeups are neither late nor early; no halt with a ready thread.
- `Malloc`: no overlap, no page lost or released twice, exact free lists.
- `Paging`: the TLB never holds a translation that the running process's
  directory does not have, and no write goes unnoticed by the dirty bit; every
  page has one owner, also after failures and
  while a process exits; the active directory is never free.
- `Interrupts`: one external handler at a time, with interrupts off; no
  interrupt stays in service while a thread that did not take it runs; a
  thread keeps its level.
- `Console`: the characters of two calls are not mixed, handlers and panics
  aside; depth and holder agree with the calls under way; a panic prints
  without waiting for the lock.
- `Ide`: a read returns the last write acknowledged; without stray interrupts
  a write is on the medium, and no completion left over, when the lock is
  released; a waiting thread is always going to be woken; only disks
  that identified themselves are used.
- `Filesys`: no sector in two files and no name twice; the disk is consistent
  at every crash point; sectors and counts are exact.

`algorithms` checks `RouteSearch` (the BFS answer begins a shortest path to the
best reachable cell), `KList` (every operation, sorting and splicing included,
leaves pointers that form the right list), `KHash` (from `hash_init` to
`hash_destroy`, every element is found, before and after growing, shrinking and
failing to; `rehash` moves element by element, reading its successor first), `KBitmap`, `Stdlib`,
`Strings`, `Arith` (as their specifications say), `Vga` and `Keyboard` (the
screen shows the last rows printed; characters are those of the keys' legends),
`FileData` (files read back as written, the counts returned are those the length, the
denial of writes and memory allow, and no other sector changes), `Archive`
(what is extracted is what was archived, over boots; `extract` panics exactly
where a name is taken or the archive has no end; a sector of zeros ends it,
unless `fsutil_append` put a byte from beyond its buffer there or found no room), `Loader` (the address
space is what the headers describe, or `load` fails), `Partition` (devices are
the partitions that fit; only their sectors are written), `CommandLine` (a line
has the effect of its words, in order, until an action panics or the warehouse
turns the machine off).

Runs that violate a property, each a disagreement between the code and what the
repository says of it (details under "findings" in `PROJECT.json`):

| Run | Violated | In short |
|---|---|---|
| `warehouse_livelock` | `Termination` | With tasks 1C:3A:1A two robots step back and forth for ever, each falling back to a cell that depends on where the other is. The report presents the victim as the way out of congestion, but a victim is chosen only when nobody moves. |
| `warehouse_untimely` | `HandledAtBarrier` | A robot preempted around its dirty bit is taken for blocked; the report says all robots are blocked. |
| `serial_readers` | `NoPanic` | Two readers of an empty buffer make the ASSERT in `wait` (`intq.c:91`) fail. |
| `filesys_lowmemory` | `NamesUnique` | A directory read without memory for its bounce buffer counts as end of directory; a name is entered twice. |
| `archive_end` | `EndMarked` | `fsutil_append` writes its end marker twice to the same sector, so that one sector of zeros ends an archive where the comment asks for two; the next sector keeps what it held. |
| `partition_extended` | `GivenTableRead` | `read_partition_table` reads sector 0 whatever sector it is given; partitions inside an extended partition are not found. |
| `command_line_seed` | `SeedKept` | `parse_options` ends by seeding the random generator from the clock, also after `-rs`. |

One more loss is part of the `Filesys` model rather than a violated property:
`filesys_create` that fails in `dir_add` (name taken, name refused, directory
full) releases the inode's sector but not its data sectors. The variable
`lost` collects them, and `SectorsAccounted` says that, restarts aside, no
other step loses a sector.

Other differences between comments and code that the models contain and no run
is about: `bitmap_scan_and_flip` returns its start, not 0, for a count of
zero; `memmove` returns the end of the destination when it copies upward;
`umod64` and `smod64` cut the remainder to 32 bits; nothing resets
`expecting_interrupt` (`ide.c`), so that a stray interrupt after the first
command counts as a completion (which is why part of `IdeDataExact` holds only
for `strays = 0`); `wait_until_idle` waits 10 ms, not 10 s; the position of
`fsutil_extract` is not reset within a boot; the test in `calloc` lets some
products pass that do not fit in a word, although its comment says that it
makes sure they do (`CallocSizeExact` says which ones it settles rightly, and
nothing about the others).

### Bounds, and why they are enough

- Warehouse: in `warehouse_pairs` the poll limit `TIMEOUT` is 2 instead of 100.
  It is reached when a robot is late for the first sleep of the polling loop;
  `LastLate` requires that it has reported when the last one ends, so the central
  thread never goes on without a report (see "Late robots"). `MaxHoldups = 1`
  is one late sleep in a behaviour, at any of its steps. `step` is counted modulo
  `STEP_RANGE`. Pairs of robots exercise every conflict rule, since batch
  acceptance compares robots in pairs; the order by `wait_steps` and the victim
  with more robots are covered by the proofs, for safety. Routes: one robot among up to
  two others, on every floor cell.
- Threads: main, idle and two threads, 4 ticks, slices of 2 ticks, sleeps of 0
  and 2. `MaxTicks` and `MaxTid` allow a thread to be preempted between
  reading the clock and sleeping for longer than its sleep, to exit, and its
  structure to be used again. `INT64_MAX` is any number beyond all wakeup
  ticks.
- Synch: three clients are the least with a holder, a waiter and a latecomer.
- Serial: a queue with two usable slots is full, empty and wraps around within
  four bytes.
- Malloc: three kernel pages let an arena, a big block of two and a lack of
  contiguous pages meet; two blocks make an arena partly and wholly free.
- Paging: two processes compete for six kernel pages and two frames, so that
  every allocation of `load` can fail; pages 1 and 3 lie in different page
  tables.
- Interrupts: two threads, one vector on each controller, one exception, two
  frames per thread; deeper nesting is covered by the proof.
- Console: three calls of two characters, nested twice, one character printed
  by a handler.
- Ide: two devices, two threads, one stray interrupt; every device
  is sound or fails in one of four ways.
- Filesys: four sectors hold one file of each length, so that the third
  creation fails. The free map and the root directory (16 entries of 20 bytes)
  are each one sector, as on disks of up to 4096 sectors, and their writes are
  atomic.
- Words, sectors, pages, rows and buffers of the sequential components are a
  few units long (2-byte sectors, 4-byte pages, words of 3 or 4 bits, a
  screen of 2 rows by 3 columns), and their inputs lie at and on both sides of
  every boundary.

Symmetry (`kernel`): callers of the heap, open files, and
file names are interchangeable; the properties there are safety properties.

Deadlock checking is off in `synch` and `serial`, because bounded counters run
out or all threads may wait for calls nobody makes, and in `algorithms` and
the runs about one of its components, whose inputs end. In `kernel` it is on:
`Ended` names the states in which a component rightly stops (a panic, all calls
made, no disk). `Threads` may always stop, since its clock and its tids are
bounded, so deadlock is not checked for that component.

### Fairness

- Warehouse: weak fairness of the whole next-state relation: the processor does
  not stop while a thread can go on. No fairness between threads is needed,
  because the central thread's sleep, which waits for the robots except for
  `MaxHoldups` times, makes them take turns.
- Serial: weak fairness of the steps of a call in progress (the processor
  runs), of the UART and of the idle thread; strong fairness of the serial
  and timer interrupts, since the handlers run whenever interrupts are on and
  the timer keeps interrupting: threads turn interrupts off only for bounded
  times. Calls, key presses and arriving bytes are not fair. From this follow
  `OutputReachesLine` and `ThreadsServed` (every ready thread runs, every
  reader gets the bytes that arrive).

### Late robots

The central thread sleeps 10 ticks between two polls and after a release; robot
threads need far less to reach their barrier, but nothing makes sure that they
do. When a sleep ends, every robot is at its barrier or at a point of `Late`
(of `LastLate` for the sleep after which the poll limit is reached), and the
latter happens `MaxHoldups` times at most. Two instances are of interest:

- `PromptRobots`, the hypothesis of the proofs and true in `warehouse_pairs`: a
  late robot has not begun its next step (`start`, `report`) or has set its
  dirty bit and not blocked yet (`block`); at the last poll only the latter. Such
  a robot misses the release, and blocks after it with its command unread. The
  safety properties survive this, and since a missed release is made up for
  by the next, so does `Termination`.
- `warehouse_untimely` lets a robot be late anywhere, and refutes what the report
  says of the barrier. That robots in the middle of a move, or a report missing
  after 100 polls, are harmless is not claimed: both are excluded by
  `PromptRobots`, and `ReportsCurrent` and what rests on it are
  shown under this hypothesis only.

## Proofs

### WarehouseProofs

From `WarehouseAssumption` (at least one robot; tasks over items 1 to 9 and
places A, B, C) and any values of the other constants:

- `TypeCorrect`: `Spec => []TypeOK`.
- `CollisionFree`: if `PromptRobots`, `Spec => []NoCollision`.
- `ReportsHold`: if `PromptRobots`, `Spec => []ReportsCurrent`.
- `FleetImplemented`: if `PromptRobots`, `Spec => ActsAsFleet`: every step of the
  threads, boxes and barrier is a step of `Fleet` or changes nothing there.

`NoCollision` is not inductive: a robot about to commit a move needs to know
that nobody else can be on that cell. The invariant `IInv` adds

- `Barrier`: until the release, robots only start, report or block; one that
  has reported is described by its message; polled dirty bits stay set;
- `Batch`: an accepted robot's cells, now and next, conflict with nobody's
  (`Compatible`), whatever subset of the batch has moved already;
- `Commanded`: until the release nobody moved, and the boxes hold exactly the
  accepted commands;
- `Moving`: after it, each robot is where it was or where it was told to go.

The argument: `can_accept_batch_move` establishes `Compatible` pairwise as
robots are considered one by one; a victim's escape cell is open
(`EscapeDirection`) when nothing else was accepted; `Batch` and `Moving` then
imply `NoCollision` (`BatchSafe`) for every order of the robot threads. One
lemma handles each group of actions. The lemmas on the operators
(`NextDirectionType`, `BestDirection`, ...) are about the result's type or
minimality, not about what the BFS computes.

For the refinement, `Errand` adds what a robot thread knows where it changes
`robots[]`: the item it loads is that of its task, a robot that is done moves
no more, and one about to commit a move is next to a cell that it tested and
that admits it. A commit is then a `Move` of `Fleet` (the invariant says nobody
took the cell since the test), loading is `Load`, unloading is `Deliver`, and
the steps of the central thread leave the vehicles alone (`CentralFrame`).

### ThreadsProofs

From `ThreadsAssumption` (a time slice of at least one tick; no sleep reaches
`INT64_MAX`), for any number of threads:

- `ThreadsSafe`: `ThreadsSpec =>
  [](ElemExclusive /\ AllListExact /\ WakeupTickExact /\ NoIdleWhileReady)`;
- `SleepersWakeOnTime`: `ThreadsSpec => WakeupOnTime`, an action property.

`ThreadsInv` adds that the run queue has exactly the ready threads, once each
(`RunQueueExact`); that a thread `thread_create` is still making is blocked,
not asleep and made by one thread only (`Newborns`: without it, unblocking it
could queue it twice); that sleepers are blocked (`Sleepers`); that
`next_tick_to_wakeup` is a lower bound which some sleeper attains
(`TickLeast`); and that no tick asked for is `INT64_MAX` (`StartsBelow`),
which marks an empty list. `StartsBelow` is where the assumption on durations
is used.

`thread_wakeup` takes several threads from the sleep list at once. That
`Only` keeps order, members and uniqueness is proved by induction over the
length of the list. The library's induction theorems have an operator as
parameter, which the provers cannot instantiate; `NatInduct` has a set of
numbers instead and rests on the theorem that every set of numbers has a
minimal element.

Such library theorems slow the provers down wherever they are in scope. The
lemmas of `ThreadsProofs`, `FilesysProofs` and `ConsoleProofs` therefore assume
the facts they need (`LeastInNat`, `SetFacts`, `SpanSize(n) = n`), and the end of
each module proves these facts from the library and discharges them: the
theorems assume none of them.

### DevicesProofs

`InterruptsExact`: `IntrSpec => []IntrExact`, from `IntrAssumption` (there is a
thread; the vectors of devices are among 32 to 47, the others are not), for any
number of threads, any registered vectors and any depth of nesting.

`IntrExact` says nothing about threads that are switched away, so it does not
survive a switch. `IntrInv` adds

- `OneHandler`: a frame in the handler of an external interrupt is the
  innermost frame of the running thread, interrupts are off, and its vector
  is the one in service; without such a frame nothing is in service;
- `LevelsKept`: a thread that waits in its own code resumes at the level it
  chose, and the outermost frame of an interrupted thread saved that level;
- the gates of external vectors turn interrupts off.

The argument: an external interrupt is taken only with IF set, hence outside
any external handler; the handler's end is signalled before `thread_yield`, so
that a switch happens with nothing in service; returning from the outermost
frame restores the saved level. There is one lemma per action.

`DevicesWithinDisk`: `PartitionSpec => []DevicesFit`, from
`PartitionAssumption` (a disk has at least one sector and fewer than a sector
number can count), for any partition tables. `PartitionInv` adds that the disk
itself is the first device, with its size, and that every device ends at or
before the end of the disk. The point is `FitsWithin`: an end that wraps around
is smaller than the start, so the test `start + size < start` of
`found_partition` excludes it, and partition-relative accesses cannot wrap
(`WrappedSum`).

### ConsoleProofs

`ConsoleSafe`: `ConsoleSpec => []ConsoleExact`, from `ConsoleAssumption` (the
mark of a free lock is no thread), for any threads, lengths, depth of nesting
and number of characters printed by handlers. `ConsoleInv` adds that the calls
of a thread bear one number that no other thread's have (`CallsNumbered`), that
what a call under way printed is followed by nobody else's characters
(`LastToPrint`), and that depth and holder count the open calls
(`LockCounts`). All three are claimed only until a panic, which turns the lock
off; after it, what matters is that only the panicking thread goes on printing
and that its characters bear the number 0.

### IdeProofs

`IdeExact`: `IdeSpec => [](IdeDataExact /\ IdeCompletes)`, from `IdeAssumption`
(the marks for nobody and for the boot code are no threads), for one channel with
its two devices, and any threads, sectors, data, states of the devices and
number of stray interrupts. `IdeCompletes` is a safety property: the
completion of a thread that waits is recorded, pending or still to come. `IdeInv` adds

- `OneUser`: whoever is inside the channel holds its lock, or is `ide_init`;
- `Working`: for a command under way, what the drive is doing, and that its
  completion is recorded, pending or to come;
- `Abandoned`: without a command the drive is idle or still storing;
- `Unstrayed`: without stray interrupts, completions are counted exactly;
- `DataKept`: medium and drive buffer together hold what was acknowledged, or
  what a write that has handed over its data says.

`Stored` is the point: after a stray interrupt a write may be reported complete
while the drive is still storing, so reads are right although the medium is
not yet; the drive finishes before it accepts the next command.

### FilesysProofs

From `FilesysAssumption` and `NoEntryAssumption` (a disk of more than four
sectors, some directory slots, finitely many file handles; the mark of an empty
place is no record), for any disk size, names, lengths and open files:

- `FilesysSafe`: `FilesysSpec => [](NoSharedSectors /\ CrashSafe)`, also when
  memory runs out while the directory is read;
- `NamesStayUnique`: if such reads do not fail, `FilesysSpec => []NamesUnique`.

`FilesysInv` relates the disk, the tables in memory and the operation between
two of its disk writes: all sectors in use are marked (`Marked`) and used once,
by the operation too (`Apart`); what the directory names is on the disk, marked
there, before it is named (`OnDisk`); an inode has one entry and a removed one
none (`Linked`); the counts of an open inode are the numbers of its files
(`Referenced`). `Kept` adds what only holds while reads succeed: sectors
accounted for, names unique, open inodes reachable. `filesys_lowmemory` shows
that the condition is needed.

### MemoryProofs

`PagingSafe`: `PagingSpec => [](TlbCoherent /\ FramesExact)`, from
`PagingAssumption` (`"main"` is no process; frames are positive numbers; the
pages are among 0 to 3, at two to a table, and `load` installs only those), for
any processes, pool sizes and lists of pages to load within these four pages, with a switch between any two steps, any allocation failing, and
pages cleared, cleaned and mapped again by a caller of `pagedir.h`. `PagingInv`
adds `TablesInv` and `PagesInHand`. `TablesInv` says

- `TablesHold`: a page table that is not allocated has no entries;
- `KernelExact`: which pages of the kernel pool a process has at each stage of
  its life, and at which stages it has a directory;
- `FramesOnce`: a frame in use is held by a caller or mapped by exactly one
  page;
- `RightDir`: CR3 is the running thread's directory, or, between forgetting and
  leaving it, the one it gives up;
- `BufferExact`: a TLB entry agrees with the active directory's table, and is
  not dirty where the table is not;
- `DirtyKept`: pages written are dirty, and only a process in user mode has any.

`PagesInHand` says that a page which `load_segment` has got from the pool and
not yet mapped (`kpage`; getting it and `install_page` are separate steps) is
held, and is in the hands of one process, which is loading. Without it,
the page given back after a failing `install_page` could be another's
(`GetPageInv`, `InstallHand`, `OtherHand`).

The argument for exit: `process_exit` forgets its directory before it leaves it,
and leaves it before it frees it, so that a switch back never activates a
freed directory (`ForgetInv`, `LeaveInv`, `DestroyInv`). For the TLB: every
change that takes rights or the dirty bit away reloads CR3 if the directory is
active, and a switch always does. Mapping needs no reload because
`install_page` maps only pages that are not mapped (`Mappable`).

### KernelProofs

The properties as `kernel` checks them, `Spec => []MCP`: `KernelElemExclusive`,
`KernelWakeupTickExact`, `KernelNoIdleWhileReady`, `KernelWakeupOnTime`,
`KernelInterruptsExact`, `KernelConsoleExact`, `KernelIdeDataExact`,
`KernelIdeCompletes`, `KernelNoSharedSectors`, `KernelCrashSafe`,
`KernelSectorsAccounted`, `KernelTlbCoherent`, `KernelFramesExact`. They
follow from the components' invariants and `KernelSteps`: a step of `MCKernel`
is a step of the component the behaviour is about. They say nothing about
components acting on each other, since a behaviour of `MCKernel` has one. `KernelNoSharedSectors` and
`KernelSectorsAccounted` include unique names and exact sectors, and so assume
`~ReadsFail`, as the run does.

### Only model-checked

- Liveness and fairness (`Termination`, `OutputReachesLine`, `ThreadsServed`):
  outside the prover's reach.
- What recursive definitions compute (the BFS, sorting, hashing, string
  functions, division, archives, files): the modules with RECURSIVE operators
  cannot be reasoned about, and `algorithms` checks them against references.
- `CommandsCarriedOut` of the warehouse: it needs that the first step of the route
  the BFS returns leads to an open cell, which depends on what the search computes.
- `Malloc` (`NoOverlap`, `PagesAccounted`, `FreeListExact`), `Synch`
  (`SynchExact`, `SignalNotLost` and the refinement of `Monitor`) and `Serial`.
- `DevicesFit` is checked by the runs as part of `MCPartitionsExact`.

## Not modelled

- Boot loader, page tables and segments of the kernel (`start.S`, `loader.S`,
  `gdt.c`, `tss.c`, `paging_init`): they run once, before the second thread.
- `pit.c`, `speaker.c`, the calibration and the busy-wait delays of `timer.c`:
  port set-up and timing loops, in which only real time matters.
- `rtc.c`: a read of the clock, used for the random seed only, and a conversion
  of dates. The conversion adds the days of the current month as well
  (`i <= mon`, with `mon` counted from 1) and takes every fourth year from 1970
  for a leap year, so it is not the time since 1970; nothing else in the
  repository depends on it.
- Formatted printing (`stdio.c`) and the random generator (`random.c`):
  sequential functions on bytes, whose only reference would be their text.
- System calls: stubs in this repository, which end the calling process
  (that much is in `Paging`).
- Parsing of the warehouse's own arguments (`parse_robot_tasks`) and printing of
  the map; the models start from a well-formed list of tasks.
- Disk errors other than a refused transfer, on which the driver panics (that
  is in `Ide`): it never reads the error of a write after its data is sent.
- Two threads writing parts of the same
  sector: `inode_write_at` reads, changes and writes back a sector without a
  lock, and the repository's comments leave file locking to the callers;
  `FileData` has one caller at a time.
- Priorities: stored by `thread_set_priority` and used by nothing.
