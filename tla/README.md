# A specification of the ucore kernel

TLA+ modules, TLC configurations and TLAPS proofs for the teaching kernel
*ucore* as it stands in `src/labcodes_answer/lab8_result`, the cumulative result
of the eight labs. Paths below are relative to that directory. The directories
`lab1_result` .. `lab7_result` are earlier stages of the same files and are not
modelled separately.

## 1. Inventory

### How the kernel runs

One CPU. The kernel is **not preemptible**: `schedule()` is called only by code
that gives the CPU up (`do_wait`, `do_exit`, `do_sleep`, `down`, a read of the
console, `cpu_idle`) and at the end of `trap()` for a trap that came *from user
mode*. What can happen between two instructions of kernel code is an interrupt
handler: the clock (`run_timer_list`) and the keyboard (`dev_stdin_write`). Both
may change the state of processes, so the hard part of the kernel is the windows
between "mark myself asleep" and `schedule()`, and between `schedule()` and the
use of what was read before it.

### Components

| component | files | state | operations | what makes it correct |
|---|---|---|---|---|
| scheduling core | `kern/schedule/sched.c` | `current`, process states, run queue | `wakeup_proc`, `schedule`, `run_timer_list` | run queue = runnable processes off the CPU; no lost wakeup |
| timers | `kern/schedule/sched.c` | `timer_list`, a list of differences | `add_timer`, `del_timer`, `run_timer_list` | a timer fires exactly at its deadline |
| stride scheduler | `kern/schedule/default_sched.c`, `libs/skew_heap.h` | skew heap, 32-bit strides, slices | enqueue, dequeue, pick_next, proc_tick | heap order; the process with the least stride is picked |
| process life cycle | `kern/process/proc.c`, `kern/trap/trap.c` | process structures, parent/child links, flags, wait states | fork, exit, wait, kill, sleep, yield | tree of processes, each reaped once, killed ones exit |
| pids | `kern/process/proc.c` | `last_pid`, `next_safe`, `proc_list` | `get_pid` | a fresh pid, the search ends |
| semaphores, wait queues | `kern/sync/sem.c`, `wait.c` | value, queue of waiters | `up`, `down`, `try_down`, `wakeup_wait` | no unit lost or duplicated, woken in order |
| monitor | `kern/sync/monitor.c` | mutex, `next`, `next_count`, condition variables | `cond_wait`, `cond_signal`, leave | one process in the monitor, no lost signal |
| dining philosophers | `kern/sync/check_sync.c` | states of philosophers | take and put forks, twice | neighbours never eat together, everybody finishes |
| console input | `kern/fs/devs/dev_stdin.c` | ring buffer, wait queue | `dev_stdin_write` (interrupt), `dev_stdin_read` | characters in order, no reader left asleep |
| files of a process | `kern/fs/file.c`, `fs.c` | fd array, open counts | open, close, dup, read, write, seek | counts match, no leaked file |
| VFS inodes | `kern/fs/vfs/*.c` | `ref_count`, `open_count` | lookup, open, close, reclaim | freed at the last reference only |
| SFS | `kern/fs/sfs/*.c` | free map, block map, dirty flags | load, truncate, read, write, sync, reclaim | each block owned once, nothing dirty lost |
| page allocator | `kern/mm/default_pmm.c` | free list | alloc, free with coalescing | blocks disjoint, sorted, maximal |
| kmalloc | `kern/mm/kmalloc.c` | SLOB free list | kmalloc, kfree | units disjoint, nothing lost |
| virtual memory | `kern/mm/vmm.c`, `pmm.c` | vmas, page tables, reference counts | map, fault, fork copy, unmap | reference counts match mappings |
| swap | `kern/mm/swap.c`, `swap_fifo.c` | FIFO of pages, swap entries | swap out, swap in | no page lost |
| exec | `kern/process/proc.c` | address space | `do_execve`, `load_icode` | old space gone, new one complete |
| boot, drivers, debug, libs, user programs, tools | `boot`, `kern/driver`, `kern/debug`, `kern/libs`, `libs`, `user`, `tools` | | | not modelled |

### How the components interact

* Everything that blocks ends in `schedule()` (`sched.c`), and everything that
  unblocks ends in `wakeup_proc()`: these two are the shared vocabulary of the
  models (module `Sched`). Wait queues, semaphores, the monitor, the console and
  the life cycle are clients of them.
* The clock interrupt calls `run_timer_list`, which wakes sleepers and charges
  the slice of the current process; the keyboard interrupt calls
  `dev_stdin_write`, which wakes readers. Both run on the stack of whoever is
  current and never block.
* `do_exit`, `do_wait` and `do_fork` share the family links, `proc_list` and the
  pids. `do_kill` crosses every sleep that is marked interruptible.
* `kmalloc` takes pages from the page allocator; every other module takes its
  memory from these two.
* Files, VFS and SFS hold per-inode and per-filesystem semaphores, but the disk driver
  polls and the kernel does not preempt itself: whoever takes one gives it back before
  anybody else runs, so that each call on a file is one step. The exception is a read
  of stdin, which sleeps with its descriptor acquired.
* Fork, exec and exit go through descriptors (inode counts) and memory (page tables,
  reference counts); page faults change only the memory of the process that faults.

### Which behaviours are hard

* **The window before `schedule()`.** A process marks itself asleep, turns
  interrupts on and only then calls `schedule()`; the interrupt may wake it while
  it is still current (`wakeup_proc` then must not queue it).
* **What was true before `schedule()` need not be true after it.** `do_wait`
  walks its children again, `dev_stdin_read` tests the buffer again,
  `cond_wait` relies on the hand-over instead.
* **Hand-over instead of release.** `up` gives its unit to the first waiter
  without counting it; `cond_signal` gives the monitor to the waiter.
* **Kill.** It may come before, during and after any sleep, and the flag is tested
  in few places.
* **Objects in stack frames.** The `timer_t` of `do_sleep` and the `wait_t` of
  `down` and `dev_stdin_read` live on the kernel stack of the sleeper.
* **Calls that fail half way.** A full disk in the middle of a growth, a program that
  turns out bad when some of its areas are mapped, a fork without a kernel stack.
* **Two handles on one file.** Each has its own position, and the other may truncate.
* **Cached copies.** Inodes and the free map are in memory, and only what is marked
  dirty is written back.
* **Wrapping and stale numbers.** Strides wrap, pids wrap, `next_safe` and the
  `property` field of a page outlive what they were computed from.

The list with its lines is `hazards` in `PROJECT.json`.

## 2. Plan

Order of work: the scheduling core and the life cycle first, since everything else
sleeps and wakes through them; then what processes block on; then memory; then
files. Each step adds a module, its run and its mutants.

| step | modules | state |
|---|---|---|
| 1 | `Sched`, `Lifecycle`, `Process`, proofs in `ProcessProofs` | done |
| 2 | `Semaphore`, `CountingSemaphore`, `Monitor`, `SyncClients`, proofs of semaphores, the monitor and the dinners in `SyncClientsProofs` | done |
| 3 | `Stride`; `TimerList` with `AlarmClock`; `Family` and `Pid`; `Stdin` | done |
| 4 | `PageAlloc` and `Slob` | done |
| 5 | `Files`: descriptors and inode counts through fork, exec and exit | done |
| 6 | `Sfs` with `FlatFiles`: block map, free map, truncation, write back, shutdown and boot | done |
| 7 | `Vm` with `PrivateMemory`: areas, page tables, frames through fork, exec, faults, exit | done |
| 8 | proofs of the console (`StdinProofs`), the page allocator, the heap of `kmalloc` and the memory of processes (`MemoryProofs`), open files (`FilesProofs`), the file system (`SfsProofs`), pids, family links, the stride scheduler and timers (`LinkedProofs`), on `NatProofs` | done |
| 9 | `Sfs` implementing `FlatFiles`, proved in `SfsProofs` | done |

Abstract specifications: `Lifecycle` (implemented by `Process` and by `Family`),
`CountingSemaphore` (by `SyncClients`), `AlarmClock` (by `TimerList`), `FlatFiles` (by
`Sfs`), `PrivateMemory` (by `Vm`).

## 3. The modules

A step of a model is the code between two points where something else can happen:
for kernel code, from one return of `schedule()` to the next call of it, cut further
wherever an interrupt that matters may come in between. A *label* of `pc` names such
a point.

**`Sched`** (`sched.c`, `proc_run`): `current`, `state`, `wait_state`, `need_resched`,
the run queue as a set, the set of processes with a timer, `panic`. `wakeup_proc` is
the group `StateAfterWakeup`, `WaitAfterWakeup`, `QueueAfterWakeup`, `WakeupAsserts`
(its assertion and its warning path); `schedule` is `Schedule(next)`, where the
scheduling class's choice is any process of the queue; the clock interrupt is
`ClockTick`. Panics and failed assertions set `panic`, which stops everything.

**`Process`** (`proc.c`, `trap.c`): one action for each system call section: `SysFork`,
`DoExit`, `SysWait` / `WaitReaps` / `WaitSleeps` / `WaitFails` / `WaitWoken`, `SysKill`,
`SysSleep` / `SleepWoken`, `SysYield`, the return of a trap (`TrapReturn`, with the
test of `PF_EXITING` and of `need_resched`), `IdleLoop`, the body of `init_main` with the
assertions at its end (`InitDone`; whether the heap has grown meanwhile, which makes the last one about free
pages fail, is a choice there, and `Slob` shows that it may have), `Switch` and `Tick`. Children are a set here; `Family` shows that the linked lists
hold it. **`Lifecycle`** is what programs may believe: processes are born, die,
are collected once by a living parent, and orphans pass to initproc.

**`Family`** and **`Pid`** (`proc.c`): the links `cptr`, `yptr`, `optr` through
`set_links`, `remove_links` and the loop of `do_exit`; `proc_list`, `last_pid` and
`next_safe` through `get_pid`. `Pid` composes the two, as `do_fork` and `do_wait` do
inside one section with interrupts off. The walks of the code are functions of the number of
rounds: `Kids` is cut off after as many rounds as there are processes, `Scan` after as many as
`MaxPid` walks over the list take. That these are enough is proved, not assumed (section 6).

**`TimerList`** (`sched.c`): the delta list through `add_timer`, `del_timer`,
`run_timer_list`, against **`AlarmClock`**, where each timer counts its own ticks. The
walk of `add_timer` is the first place at which `Stops` holds; what it has subtracted
until there is `Due`, a recursive function of the place. `earlier` is history: the pairs of
linked timers in the order of `add_timer`.

**`Stride`** (`default_sched.c`, `skew_heap.h`): the skew heap as its links, strides
modulo `Wrap`, the comparison by the sign of the difference, slices, priorities.
`skew_heap_merge` recurses to the right subtree of the smaller root and, once the call
returns, makes the result its left one. Here the calls are rounds (`Descend`), as many as there are
processes, and each puts its smaller root at once where the call before it would (`Return`);
nothing reads the links of a node in between. The actions are `Create`, `Wake`, the calls of
`schedule` (`Yield`, `Sleep`, `Leave`), `Tick` and `lab6_set_priority`.
`busy` says of a behaviour whether its processes never sleep, because the bound on
the spread of strides holds only then.

**`Semaphore`** (`sem.c`, `wait.c`): `up` and `down` in the steps `Up`, `DownTakes`,
`DownSleeps`, `DownWoken`, threads that sleep and quit, init's reaping of them.
**`Monitor`** (`monitor.c`) adds condition variables, and **`SyncClients`** the threads:
both dinners of `check_sync.c` and a program that calls anything, one of which a
behaviour runs. The two dinners share the text where the code does (test, take, put);
they differ in `Call` and in how a philosopher waits. **`CountingSemaphore`** is a
semaphore as textbooks have it.

**`Stdin`** (`dev_stdin.c`): the ring buffer, the wait queue, readers, kill, and the
keyboard interrupt between any two sections that have interrupts off. Keys are
numbered, so that order can be stated. After `schedule()` the reader's `wait_t` is unlinked
only if `wait_in_queue` finds it linked, since a key has unlinked it already.

**`PageAlloc`** (`default_pmm.c`) is a set of operators on the free area: list,
`property`, reserved bits, count; **`Slob`** (`kmalloc.c`) adds the heap of units on
top and is the specification that runs, with other callers of `alloc_pages` beside
`kmalloc`. Sizes are whole units of 8 bytes. `page_init` hands over the zones of the
memory map one by one (`zone` counts them), each in one `Boot` step, and calls come
once it has done all (`Booted`). Zones come in address order and are not adjacent, as the
map of the BIOS has them: `default_init_memmap` merges nothing.

**`Files`** (`file.c`, `fs.c`, `vfsfile.c`, `inode.c`): the descriptor tables of
processes and `ref_count` and `open_count` of inodes. Operators with the names of the
code (`fd_array_close`, `vop_ref_dec`, `dup_fs`, `files_closeall`, ...) map the table
at hand and the inodes to what they leave; the actions are the system calls, fork, exec
in its three outcomes, and exit. `lost` counts the references that `O_EXCL` leaks.
`inode_check` stands before the operations of the code that have it (`__vop_op`): a count at
`MAX_INODE_COUNT` stops the kernel (`panic` is `limit`), any other failed assertion gives
`assert`, and a call of an operation that an inode lacks gives `missing`. The
loops over a table are recursive functions of the descriptor.

**`Sfs`** (`sfs_inode.c`, `sfs_fs.c`, positions from `file.c`): blocks of bytes or of
block numbers, free map, super block, inodes in memory and on disk. Again operators of
the code's names map a record to a record, whose `ret` is the error code or the
assertion that failed; the actions are open (with truncation or appending), read, write,
seek, fsync, close, shutdown and mount. **`FlatFiles`** has files as sequences of
bytes and no blocks; its calls may fall short only while blocks are scarce or at
`MaxFileSize`. `torn` is the set of files that a failed write left longer than their blocks (section 7), of
which `FlatFiles` promises nothing.

**`Vm`** (`pmm.c`, `vmm.c`, `proc.c`): kernel stacks, page directories, tables, user
pages and their reference counts; frames are allocated lowest first, which is what
`FirstFit` of the page allocator shows. A user page is a number below `USTACKTOP`, and
`NPTEENTRY` of them have one page table; the stack is the last area. The loops over the pages of an
area, over the areas of a process and over those of a program are recursive functions, in
the order of the code. Actions: fork, exec, exec of a program that
turns out bad after some areas (`ExecBadProgram`) or after a page in the middle of one (`ExecBadPage`), exit,
reaping, page fault, a bad access, which ends the kernel and not the process, user write. What a page held
before it was given out is one value, `Leftover`, since nothing tells such contents
apart. **`PrivateMemory`** has one function from pages to contents for each process.

## 4. The runs

| run | instance | what it shows |
|---|---|---|
| `process` | 3 users of which two may be killed, initproc, idleproc, `MAX_PROCESS` 5, kill of initproc, fair | run queue = runnable processes off the CPU; a parent asleep in `do_wait` has nothing to collect, adopted zombies included; parents live; no assertion fails but the one about free pages; the life cycle is implemented; orphans are reaped, sleepers return, the killed stop running |
| `process_killed` | 2 users, `MAX_PROCESS` 4, kill of users, fair, **violation** | a killed process need not exit (finding) |
| `pids` | 3 users, the fewest pids allowed | sibling lists exact, pids unique, life cycle implemented |
| `timer_list` | 4 timers, delays to 5 | each timer fires at its deadline, in order |
| `stride` | 3 processes, 3-bit strides, priorities 1 to 3 while nobody sleeps, else 0 and 2, fair | heap exact, spread bounded, least picked, no starvation of processes that never sleep |
| `sync_clients` | 3 threads, a table of 3, two meals, 5 semaphores, fair | units neither lost nor held back, first come first served, counting semaphore implemented; neighbours exclude each other, nobody hungry without a reason; one thread in the monitor, counts agree, the signalled thread finds its condition true; dinners end |
| `stdin` | 2 readers, buffer of 2, 5 keys | queue exact (no dangling `wait_t`), no reader forgotten, characters in order unless overrun |
| `memory` | 5 pages in 2 zones, pages of 6 units, 3 sizes and 3 block lengths | pages and units have one owner each, first fit exact, ring sorted and merged |
| `files` | 2 users and initproc, 3 descriptors, a file, root and stdin | counts of inodes exact, no assertion about them fails but the limit; a program starts with the standard descriptors only |
| `sfs` | 2 files, 2 handles, 3 blocks of 2 bytes, 1 direct block and 2 entries, symmetry | each block has one owner; what is clean is on the disk; flat files implemented, over shutdown and boot |
| `sfs_stale` | the same with 4 blocks, **violation** | a write at a stale position fails an assertion (finding) |
| `vm` | 2 processes, 4 pages under 2 tables, 17 frames, symmetry | each frame is free or has one use; page tables agree with areas; private memory implemented |

Every property has a mutant of the modelled code that breaks it; the mutated
operators stand next to the ones they replace and are marked `Mutant`.

*Bounds.* Three users and initproc give a parent and a child, two siblings, an orphan that
passes to a sleeping initproc, a structure that is reused meanwhile, and three generations: a zombie
that loses its parent while initproc sleeps and its grandparent lives, where nothing but the test in
`do_exit` wakes initproc. `ChosenSpec` refuses the calls of programs (fork, sleep, kill) after which all
three structures would be in use and a timer armed or a process marked as exiting; with two in use nothing is left out. Every
other number of processes is covered by the proofs of section 6 for the safety properties.
Seventeen frames are one less than two processes need that use all their pages, so that forks fail for want of
a stack, single pages run out, and a process can touch a page that its sibling lacks. The area of a
program has two pages, so that loading it may fail between them.
Three blocks cannot hold both files: a disk fills in the middle of a growth, with and
without a block of entries to give back. Three descriptors are the two standard ones and
one, so that exec opens its program at either kind.
`MAX_INODE_COUNT` is 8 instead of 65536, so that calls reach the limit. `MaxLost` bounds the lost references.
Strides of three bits make `BIG_STRIDE` 3, so that one pass may be all of it or a
third, and strides wrap every few picks. `ChosenSpec` of `MCStride` gives processes that never sleep
priorities 1 to 3, and 0 and 2 where some sleep; priorities above `BIG_STRIDE` are left out,
because there the pass is 0 and the code does starve the others. `MAX_PID` is the least its `static_assert`
allows, so that pids wrap among live ones. Five keys wrap a buffer of two twice.
Four timers allow two deadlines with two timers each. Pages of six units make the
smallest heap in which a block may span two pages, fill one, or leave one unit.
A table of three has both neighbours of one philosopher waiting for each other; that
philosophers opposite each other may eat together needs no instance. Counters that grow without
bound in the code (`runs`, ticks) are not modelled; those that are have their bound in
the constants `MaxValue`, `MaxKeys`, `MaxDelay`, `TIMES`.

*Deadlock* is checked in `pids`, `timer_list`, `stride` and `stdin`; in the others
the kernel really stops: initproc ends and panics, an assertion of an inode or of SFS fails, memory
runs out.

## 5. Fairness

* The CPU goes on: weak fairness on the current kernel step or switch. Nothing in the
  kernel blocks the CPU except `panic`.
* The queue is fair: strong fairness on dispatching each process. `Stride` justifies
  it: `NoStarvation` holds under no more than weak fairness of the clock (`Tick`) and of the
  preemption it asks for (`Preempt`), for priorities up to `BIG_STRIDE`. It speaks of processes
  that never sleep, and only those are said to be preempted fairly.
* Timers expire and the clock ticks: weak fairness on `Tick`. The clock interrupt is
  periodic; `AlarmClock` is what makes each timer expire.
* User programs get no fairness: they may loop for ever and never call anything.

## 6. What is proved

`ProcessProofs`, for every set of users, every `MaxProcess` of at
least 3 and every `Killable`, from the assumptions named in `Sched` and `Process` (the
special processes are distinct and no users):

| theorem | statement |
|---|---|
| `TypeCorrect` | `Spec => []TypeOK` |
| `RunQueueCorrect` | the run queue is exact |
| `WakeupsKept` | no wakeup of `do_wait` is lost |
| `FamilyTree` | parents live, and the parent pointers form a tree |
| `TimersCorrect` | no timer outlives its frame |
| `FreedSafely` | what is freed is off the CPU and off the queue |
| `AssertionsHold` | no assertion of `wakeup_proc`, `do_fork`, `run_timer_list` fails, nor one of `init_main` at lines 1025-1028; line 1029 is excepted and can fail |
| `ShutdownClean` | when `init_main` has no child left, no user is left |
| `LifecycleImplemented` | `Spec => ImplementsLifecycle` |

The inductive invariant `Inv` is the conjunction of `TypeOK`, `Places`,
`RunQueueExact`, `NoAssertFails`, `Lineage`, `Counted`, `ParentAlive`, `Rooted`,
`NoLostWakeup` and `AllQuit`. None of the interesting parts is inductive alone:

* `Places` ties the label of a process to its state, `wait_state` and timer; without
  it a wakeup could hit a process in the wrong place, and `RunQueueExact` would fail
  in `schedule()` and `NoAssertFails` in `wakeup_proc`.
* `ParentAlive` needs `Lineage` (parents are users or initproc, initproc waits for
  any child) and `Places` (a zombie has left every sleep).
* `Rooted` says that no set of users is closed under `parent`; it is what makes
  `AllQuit` true, since users that initproc cannot see would have to be each other's
  ancestors.
* `NoLostWakeup` needs `ParentAlive` and the adoption step in one piece: an orphan
  that is a zombie already wakes initproc in the step that gives it to initproc.
* `Counted` relates `nr_process` to the live users, for the assertion of `init_main`.

The proof sorts the actions into kinds (`StepKinds`: a process moves between two
labels, forks, kills, exits, sleeps, ...) and proves one lemma for each conjunct over
the kinds, so that an action is taken apart once and not once for each conjunct.

`TypeOK`, `TimerFrames` and `Rooted` are parts of the invariant that no run lists; the
run `process` checks what follows from them.

`SyncClientsProofs`, for every set of threads, size of the table, number of meals and
bound on the values, from `ProcAssumption`, `MonitorAssumption` and `TableAssumption`:

| theorem | statement |
|---|---|
| `NothingHeldBack` | `Spec => []NoUnitHeldBack`: no wakeup of a semaphore is lost or duplicated |
| `ServesInOrder` | `Spec => FirstComeFirstServed` |
| `SemaphoresCount` | `Spec => ImplementsCounting` |

Its invariant is `Typed`, `Parked`, `Placed`, `Queued` and `Finite`. `Queued` is the
property itself, said with positions instead of cardinalities; it is not inductive,
because a step that overwrote the `wait_state` of a thread in a queue would break it:

* `Parked` says that such a thread is asleep inside `down`, off the run queue, and has
  not got the CPU back; so it calls nothing, and `__up` always finds it asleep.
* `Placed` says that timers belong to threads inside `do_sleep`, so that the clock
  interrupt never wakes a thread in a queue, and that a thread outside `down` has
  no semaphore it asked for.
* `Finite` is what the refinement needs to count the units given and not yet taken.

Each step of a program is one call of the kernel (`Calls`), which is shown once, and
each kind of call keeps the invariant. The same kinds (`QueueStep`) give the other two
theorems.

The same module adds to that invariant what the dinners and the monitor need, for every
table of at least 3 seats and any number of meals:

| theorem | statement |
|---|---|
| `OneThreadInside` | `Spec => []OneInMonitor` |
| `NeighboursNeverEat` | `Spec => []NeighboursExclude`, with semaphores and with the monitor |
| `SignalledEats` | `Spec => []SignalledIsSeated` |
| `CountsAreRight` | `Spec => []CountsAgree` |
| `HungryHaveReason` | `Spec => []HungryForAReason` |

The invariant `Dinner` is `DinnerTyped`, `Solo`, `NoDinner`, `Table`, `One`, `Counted`,
`Apart` and `Reasons`:

* `One` says who may go on inside: the thread whose stage is inside and that is not
  asleep for a semaphore. `up` of `mutex` or of `next`, and `cond_signal`, hand this from one
  thread to another; that the receiver is in the right place is what `Table` says.
* `Table` has a row for each philosopher, which ties the stage of its thread to its state, to
  the value of its semaphore, to the count of its condition variable and to the place it
  will return to (`Asks`, `Row`). A thread asleep in `cond_wait` is hungry until somebody
  signals it and eats from then on, before it runs again: this is `SignalledIsSeated`.
* `Solo` (a thread without the CPU is in `schedule()`) keeps every section of the code whole.
* `Reasons` is `HungryForAReason` with mutex taken: a philosopher may also wait for its
  left neighbour to get round to testing it (`Pending`), which `put_forks` does second.
* `Counted` needs the set of threads inside `cond_signal` to be finite for its
  cardinality to go up and down by one.

`StdinProofs`, for every set of processes, size of the buffer, length of the reads and number
of keys:

| theorem | statement |
|---|---|
| `WaitQueueExact` | `Spec => []QueueExact` |
| `ReadersWoken` | `Spec => []NoReaderForgotten` |
| `KeysInOrder` | `Spec => []ReadInOrder` |
| `ConsoleKeepsRunQueue` | the run queue is exact and no assertion of `wakeup_proc` fails |

`Inv` is `Typed`, `Parked`, `Linked`, `Placed`, `Ring`, `NoReaderForgotten` and
`RunQueueExact`. `Parked` and `Linked` are the two halves of `QueueExact`, the second without
cardinalities; a kill in the window before `schedule()` wakes the reader while its `wait_t` is
still linked, which is why `Linked` speaks of places and not of sleep. `Ring` says which keys the
slots between `rpos` and `wpos` hold, by position and not by slot; `SlotsApart` shows that
positions less than a buffer apart have different slots, by the division with remainder
that `%` stands for. The order of the keys is conditional, as in the code: with a full buffer
the key that comes overwrites the oldest one not read yet, so that the order holds while none has.

The first half of `MemoryProofs`, for every memory map of zones that are in order and not adjacent
(`ZonesAssumption`), every size of a page, set of object sizes and set of block lengths:

| theorem | statement |
|---|---|
| `MemoryInvariant` | `Spec => []MemoryInv` |
| `PagesHaveOneOwner` | `Spec => []PagesPartitioned` |
| `FirstFitExact` | `Spec => []FirstFit` |

`MemoryInv` is `AreaInv`, `Booting` and `LargeHeld`, and `AreaInv` is

* `FreeArea`: the list is in address order and `nr_free` is its length; where `property` of
  a free page is not 0 the page heads a block of that many free pages which no free page
  follows, and every free page is in such a block (`BlocksRight`). Since the page before a
  head is not free either, blocks are the maximal runs of free pages, and a first block of
  sufficient length is the first run of sufficient length;
* `HandedOut`: the pages of a block that somebody holds are not free and shared with nobody,
  its first page is reserved, and `property` is 0 in its middle. The last is what makes
  `BlocksRight` inductive: `default_free_pages` writes the length at the head and leaves
  the others as they are, and a length left over in the middle would be believed.

`Booting` and `LargeHeld` tie this to `kmalloc`: nothing is handed out before the last
zone is in, and each large object has a block of its own. The list is a sequence, and the loops of
the code that walk it are positions in it; the lemmas in the middle of the
module say what cutting a slice out of an ascending sequence and inserting one leave.

The module adds the heap of `kmalloc` to that invariant, for every size of a page of more than
4 units (`SlobAssumption`):

| theorem | statement |
|---|---|
| `HeapInvariant` | `Spec => []KmallocInv` |
| `HeapSorted` | `Spec => []RingSorted` |
| `UnitsHaveOneOwner` | `Spec => []UnitsPartitioned` |

`KmallocInv` is `HeapInv` and what the heap shares with the rest: its pages are blocks it holds
and not those of a large object, and each large object has its own bigblock among the blocks in
use. `HeapInv` joins the two properties. Neither is inductive alone: a merge is right only when
the units that come back are not free yet, and the units of a block are its own only as
long as its header says how many they are, which nobody but the heap may have written (the
header of a block in use is outside the free units, and `Takes` and `Gives` change headers
there only).

* `RingVisits`: links that lead to the next free block by address, and from the last to
  `arena`, make a ring through all of them. A set of free blocks that the links do not leave
  has the last one, `arena` and by its order every other (`Closed`), and a walk of as many steps
  as there are blocks repeats itself unless it has met them all. So `slob_alloc` finds a fit when there
  is one (`FitIs`) and `slob_free` its point wherever `slobfree` is (`PointIs`).
* `slob_free` is taken in two steps, as in the code: the merge with the block above leaves a
  gap (`GapIs`), which the block below grows into (`GapJoined`) or a block of its own fills
  (`GapLinked`). `Gives` says what comes out, and that a page given to the heap leaves
  a block with room for any small request (`AllocsHeap`).
* `BlockTaken` and `FrontTaken` are the two ways `slob_alloc` cuts a block.

The second half of `MemoryProofs` is about the memory of processes, for every set of processes, every
number of frames above 1, every stack, size of a page table and set of programs whose areas
stay out of the stack (`VmAssumption`, the condition under which `mm_map` takes all areas of a program):

| theorem | statement |
|---|---|
| `VmInvariant` | `VmSpec => []VmInv` |
| `VmFramesExact` | `VmSpec => []FramesExact` |
| `VmPagesInAreas` | `VmSpec => []PagesInAreas` |
| `PrivateMemoryImplemented` | `VmSpec => ImplementsPrivateMemory` |

`VmInv` is `VmTypeOK`, `StacksInv`, `MapsInv` and `OwnersInv`.

* `OwnersInv` is `FramesExact` without cardinalities: the frames are split into the free ones and those
  each process owns (`Owned`), and within one process no frame is at two *places*, which are its page
  directory, its tables and its pages. A free frame has count 0.
* `MapsInv` ties the page tables to the areas (`Lies`): `PagesInAreas`, and besides that no table is
  where no area is. `FramesExact` needs both, for `exit_mmap` goes by the areas, and a page or
  table outside them would keep its frame for ever. It also needs that pages have count 1, for
  `page_remove_pte` frees a page only when its count drops to 0. A process that is not live
  has no memory left.
* `StacksInv`: who has a process structure has a kernel stack, also as a zombie.

A call changes one process. `Sound(x, s)` is the invariant inside it, where `x` is what others own with
its counts and contents, and the areas that the pages may lie in: frames are those of others,
which are as they were, the free ones, and those at the places of the mm at hand. Every operator
from `alloc_page` to `CopyPage` keeps it; while a page is allocated and not yet mapped it counts as a frame of
others (`Pending`). The loops go by induction (`Iteration` of `NatProofs`), each with what it has done
so far: the pages below n are gone, copied or loaded. Areas are added to `x` as the
code links them, before their pages. `Calls` leads from a sound state back to `VmInv`; the alternative
is that the kernel stops (`Leaves`).

`View` is what a mm and the frames make of each page, and every lemma says what it does to `View` too. So
the same lemmas give the refinement: fork leaves the child the `View` of the parent, exec that of the
program and its stack, exit none, and since frames of others keep their contents, nobody
else's `View` changes.

`FilesProofs`, for every set of processes and files, from `FilesAssumption` (the special
inodes and processes are distinct; a table has more than two descriptors):

| theorem | statement |
|---|---|
| `FilesInvariant` | `Spec => []FilesInv` |
| `CountsCorrect` | `Spec => []CountsExact` |
| `ExecStandard` | `Spec => ExecKeepsStandard` |

`FilesInv` is `FilesTyped`, `Slots` and `InodeCounts`. `Slots` says that a descriptor is free, or
open with count 1, or open on stdin with count 2 while its process sleeps in a read, and
that a process that is gone has an empty table. Inside a call counts do not agree with the
tables of all processes, because the table at hand is not yet back in its place: `Exact(s, o,
r)` is the invariant there, where `o` and `r` are what the rest of the system opens and
refers to, constant but for the references a call takes or gives back on its own account
(`RefTaken`, `RefGiven`). Each operator of the code has a lemma that it keeps `Exact` (`Opens`,
`Closes`), the loops are taken through by induction (`ClosesFrom`, `Copies`), `Begins` and
`Settles` lead from the invariant into a call and back, and each call is a lemma of a
few steps. The assertions of `inode.c` about the two counts follow from `Holds`: whoever opens a file refers to it. Its
limit on them does not, and is excepted: a call that reaches it ends in `limit` (`CountsExact` speaks of `assert`).

`SfsProofs`, for every number of files, handles and blocks, every size of a block and shape
of an inode, from `SizesAssumption` (sizes are positive; `NoInode` is not an inode) and
`ClosedAssumption` (a closed handle is told from an open one):

| theorem | statement |
|---|---|
| `FsInvariant` | `Spec => []IInv` |
| `BlocksHaveOneOwner` | `Spec => []BlocksExact` |
| `CleanIsOnDisk` | `Spec => []CleanMeansOnDisk` |
| `BlockAssertionsHold` | the assertions about blocks in use, and those of `sfs_do_mount`, never fail |
| `SfsKeepsFiles` | `Spec => ImplementsFlatFiles` |

`IInv` is `FsInv`, `HandlesInv` and `NoBlockAssertFails`. The *places* of a file are its indexes and
its block of entries, and `Names` says which block each names. `FsInv` says that

* every block is free or at one place of one inode that counts (`Apart`), and `unused_blocks` is
  the number of the free ones;
* a file has no holes below its count of blocks (`Filled`). Without this `sfs_bmap_load_nolock`,
  which does not create inside a file, would find no block, and the assertion about blocks in use would fail;
* an inode in memory that is not dirty is on the disk but for its count of blocks, which is not smaller
  in memory (`OnDisk`). Filling an entry does not mark the inode dirty, so that the blocks a failed
  growth left there are found again after the next load.

A call changes one file. `Partition` splits the blocks into those of other files, the free ones and those
this file names, and `Sound(x, m)` is what every operator of the code keeps of the mounted file system m;
`x` is what other files and the disk held before the call, which none of them touches.
Allocation with its place is one `Gain`, truncation one `Loss`; the operators follow the code from
`sfs_block_alloc` to `sfs_bmap_load_nolock`, the loops of `sfs_truncfile` and `sfs_io_nolock` go by induction
(`Iteration`), and `MountedSound` and `CallKeeps` lead from the invariant into a call and back, whether it
succeeds or stops half way. The invariant allows what the findings of section 7 show: a file longer than
its blocks, and an index past them.

The refinement needs the contents besides the blocks. `Pages` is what a file has at each of its indexes, and
each lemma about an operator says what it does to them: a gain puts a cleared block at one index, a loss
blanks one, writing back and loading an inode change none. The loops say how far they came (`Grown`, `Shrunk`,
`Putting` and `Taking`, with `Reach` for the bytes passed), so that a call that stops half way is covered too.
Between calls `FlatInv` holds: a file that is not torn has the blocks of its size, in memory and on
disk, and is zero past its end in its last block. It is not inductive without the zeros, for a growth, or a write past the
end, shows those bytes; and not without the disk, for a closed file is loaded from there.
`Bytes`, `WrittenBytes` and `ReadBytes` turn pages into the sequences of `FlatFiles`. Each call then is
one lemma (`OpenFlat`, `WriteFlat`, `ReadFlat`, `SeekFlat`, `WriteBackFlat`, `FsyncFlat`, `CloseFlat`, `BootFlat`): other
files keep their pages (`CallFlat`), a write that leaves a file longer than its blocks is `FlatTear`, and a call whose
assertion fails changes nothing that programs see (`PanicFlat`).

`LinkedProofs`, for every set of process structures and every `MAX_PROCESS` and `MAX_PID` that the
`static_assert` of `get_pid` allows (`FamilyAssumption`, `PidAssumption`):

| theorem | statement |
|---|---|
| `FamilyInvariant` | `Spec => []FamilyInv` |
| `LinksCorrect` | `Spec => []LinksExact` |
| `PidsDiffer` | `Spec => []PidsUnique` |
| `LifecycleKept` | `Spec => ImplementsLifecycle`: the linked lists implement what `Process` says of a set of children |

`FamilyInv` is `StatusType`, `LinksInv` and `PidInv`.

* `PidInv` says more than that pids differ: no process has a pid above `last_pid` and below `next_safe`
  (`Gap`). This is what the short way through `get_pid`, which does not look at the list, relies on, and a process
  that leaves or takes `last_pid` keeps it. The long way is taken a round at a time
  (`Rounds`): the pids met so far are below `last_pid` or not below `next_safe`, and each round
  brings the walk nearer to its end (`Rest`), since `last_pid` comes nearer to some free pid whenever
  it starts again, and there are more pids than processes (`SomeUnused`). So it ends, within the rounds of `Scan`.
* `LinksInv` says that there are lists `K`, one for each process, in which no process is twice, of which
  `parent`, `cptr`, `optr` and `yptr` are the links (`Chained`), which hold the processes that
  exist, and that a zombie's is empty. `Pushes`, `Drops` and `Pops` say what one more in front, one less anywhere and
  one less in front do to the links. Inside the loop of `do_exit` the links of the process that exits
  are not quite those of a list, because its `cptr` is at the next child while that child's `yptr` is at one
  that has left; `Chained(l, K, x)` leaves the two out for `x`, and `AdoptsAll` takes the loop
  through by induction.
* `KidsAre` says that a walk along links of lists is the list. `LinksExact` and the refinement follow.

The second part of `LinkedProofs` is about `Stride`, for every finite set of processes, every even
`Wrap` of at least 4, every slice and set of priorities (`StrideAssumption`):

| theorem | statement |
|---|---|
| `StrideInductive` | `StrideSpec => []StrideInv` |
| `StrideHeapExact` | `StrideSpec => []HeapExact` |
| `StridesClose` | `StrideSpec => []SpreadBounded` |
| `StridePicksLeast` | `StrideSpec => PicksLeast` |

`StrideInv` is `StrideTypes`, `Tree`, the count of the queue and `BusyRuns`.

* `Tree` says more than `HeapExact`: the links up and down agree and have no circle (`Placed`, `Acyclic`),
  the root names no parent, and no node is after a child of its (`Ordered`). Order is `Above`, which holds
  too where two strides are incomparable and each is before the other; so it is about neighbours
  only, is not transitive, and survives every merge.
* A merge goes by induction over its rounds (`MergeRounds`). Between two rounds one node is open (`Opened`):
  its left link is not set yet, and every way up from it ends at the top (`Climbs`), so that nothing put there closes a
  circle. The nodes that have won are the left spine down to it (`Spent`), one more with each round and none of them
  a root again; hence there are enough rounds (`MergeEnds`).
* The process picked is charged while it is in the heap, which breaks the order at the root.
  `stride_dequeue` then merges the two subtrees (`RemoveKeeps`), where only the order below is needed.
  It also needs that the root names no parent, or the result would be hung into the node named.
* `PicksLeast` (`RootLeast`): all strides of a comparable queue have a distance below
  half of `Wrap` from one of them, the base. Distances are compared as the signs of the differences say, so along every path
  of the tree they do not fall, and the root's is the least.
* `BusyRuns` (`PassKeeps`): a pass is at most `BIG_STRIDE`, and it is the least stride that gets it.
  The next smallest is then the base, and the charged one lies within `BIG_STRIDE` of it.

Its third part is about `TimerList`, for every set of timers and every `MaxDelay` (`TimerAssumption`):

| theorem | statement |
|---|---|
| `TimersInductive` | `TimerSpec => []TimerInv` |
| `TimersKeepDeadlines` | `TimerSpec => ImplementsAlarmClock` |
| `TimersFirstAhead` | `TimerSpec => []FirstAhead` |

`TimerInv` says that `list` is a chain (`Chain`): no timer is in it twice, a timer outside has `expires` 0, the
first one has not, and timers of the same deadline stand in the order `earlier`. What is left of a timer is the
sum of the distances up to it (`Sums`), which never falls along the list (`SumsAscend`) and is at least 1. An
insertion, a deletion or a tick makes another list of other distances; for each the
lemma names a function that has the wanted values and sums the new distances, and since nothing else
does (`SumUnique`) these are the new sums (`SumsAre`).

* `TimerAddKeeps`: the walk stops behind all timers that are due no later, so what is subtracted from the one
  behind stays positive, and those of the same deadline are before.
* `TimerDelKeeps`: the distance of the timer that leaves goes to the one behind it, and no sum changes.
* `TimerTickKeeps`: only the first distance falls, and with it all sums. The timers that fire are the first ones at
  distance 0 then, which are those whose sum was 1 and no others.

`FirstAhead`, the assertion of `run_timer_list` on the first timer, is a part of `TimerInv` that no run lists.

`NatProofs` has what all these but the first three modules rest on: least elements, induction and recursion over the
naturals. The library's theorems for these take predicates as parameters; here a set stands for
the predicate, whose least element outside exists because inclusion of finite sets is
well founded, and a recursive function exists because its finite beginnings do.

Only model-checked: liveness (`OrphansReaped`, `SleepReturns`, `KilledStopsRunning`, `DinnerEnds` and
`NoStarvation`), since the prover handles neither fairness nor `ENABLED`. Every other property of a passing run
is a theorem.

## 7. Where the code and its documentation disagree

* **A killed process may live on** (`process_killed`, `trap.c:302`): the trap tests
  `PF_EXITING` before it reschedules and not after, so that a process killed while
  preempted returns to user mode, and may block for ever in its next call.
* **A stale position stops the kernel** (`sfs_stale`, `sfs_inode.c:356`): after another
  handle has truncated the file, a write at the old position asks for a block far
  past the end, against `assert(index <= din->blocks)`.
* **The pages of the heap do not come back** (`proc.c:1029`; `pages_missing` in `Process`): `init_main` ends with
  `assert(nr_free_pages_store == nr_free_pages())`, and the grading script waits for the line after it; but
  `slob_free` keeps every page that `slob_alloc` took, so the assertion fails whenever the heap had to
  grow while processes ran. No run is about it: `Process` lets the heap have grown or not, and
  `AssertionsHold` excepts this assertion.
* **Opens that fail use up an inode** (`vfsfile.c:46`; `lost` and `limit` in `Files`): `O_CREAT` with `O_EXCL` on a file that exists
  returns without the `vop_ref_dec` of the other error paths. The inode is never reclaimed, and
  at 65536 such calls `assert(ref_count < MAX_INODE_COUNT && open_count < MAX_INODE_COUNT)` of `inode_check` stops
  the kernel. `CountsExact` counts the lost references and promises nothing of the limit.
* **A killed reader may sleep on** (`dev_stdin.c:59`): a reader woken by a key that
  somebody else takes goes back to sleep although it was killed in between, because
  `dev_stdin_read` looks at `PF_EXITING` nowhere. It leaves at the next key.
* **An old zombie may starve**: `do_wait` takes the first zombie of a list that has the
  youngest child first, so that a parent whose other children come and go for ever need
  never collect an old one. `OrphansReaped` therefore speaks of behaviours in which
  programs stop forking at some time.
* **Files longer than their blocks**: a write at a position past the end, for which the
  disk has no block, fails and yet sets the size to that position (`sfs_inode.c:639`).
  What such a file holds is unspecified (`torn` in `Sfs`).
* **A growth that fails keeps its blocks**; a later truncation to the size the file has
  already fails the assertion of `sfs_inode.c:935`.
* Seen while modelling, and left to the notes of the hazards: `find_order` rounds
  down (8193 bytes get two pages); `slob_alloc` refuses 4080 to 4087 bytes; strides of
  a process that slept or is new may be incomparable, and then no process is the
  least; a priority above `BIG_STRIDE` starves everybody else; `O_CREAT` truncates a file
  that exists; a position below
  `SFS_MAX_FILE_SIZE` may be past what the block map can hold; `load_icode`,
  `read` and `seek` on the root directory, `getdirentry` on a file (for which `inode.h:120` promises `ENOTDIR`) and
  `O_CREAT` of a name that is not there reach operations the inode does not have, and the assertion of
  `__vop_op` stops the kernel (`missing` in `Files`); a bad access of a program panics in
  `trap.c:211` before the `do_exit` below it (`BadAccess` in `Vm`); pages of
  the stack are handed to programs as they were left.

## 8. What is not modelled

* **Swap**: only `check_swap`, a fixed script at boot, swaps. Afterwards
  `check_mm_struct` is NULL and no page is queued; a kernel without a free page
  ends in `swap_out(NULL)`, and `Vm` models that end.
* **Power failure**: the file system has no recovery; `Sfs` models shutdown and boot.
* **Directories**: the root is the only one, and the code can create nothing in it. Paths
  stand for inodes. There is no system call that changes the working directory.
* **User memory of system calls** (`copy_from_user`, `user_mem_check`), arguments of exec,
  the ELF format, `fstat`, `getdirentry`, `getcwd`.
* **Semaphores of files, inodes and address spaces**: never contended, see section 1.
* Boot, drivers, debugging and the C library have no concurrency or state that the
  rest depends on beyond the interrupts. User programs are the nondeterminism of
  `Process`. `lab1_result` to `lab7_result` and the unanswered labs hold earlier stages of
  the same files: most of the repository's lines are such copies, which a map to
  `lab8_result` does not count.
* Within modelled files: the variant of the stride class on a list, `slob_alloc` with an
  alignment (no caller), the `do_fork` of a process whose `copy_mm` or `copy_fs` fails (no
  allocation in them can fail and return), and the content of exit codes.
