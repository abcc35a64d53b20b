# A verification of three xv6 kernels

The repository holds three xv6 kernels that differ in their process scheduler: `round-robin/`,
`priority-scheduler/` and `lottery-scheduler/`, each with the whole of xv6 around it.  This
directory holds TLA+ models of them, from the spin locks up to the shell, the TLC configurations
that check the models on small instances, and TLAPS proofs, for every size, about process
management in all three kernels, the spin locks, the log, the disk's block layer, memory, and pipes,
open files and console input under the shell.  `PROJECT.json` maps definitions to source lines and
lists runs, mutants, findings, hazards and theorems.

Most files are the same in the three trees.  Such a file is modelled once, and the map names one
copy; process management and run queues, which differ, are modelled once per kernel.

## 1. Inventory

| Component | State | Operations | Interacts with | Hard part |
|---|---|---|---|---|
| Process management (`proc.c`, `sysproc.c`, `trap.c`) | `ptable`: state, pid, parent, killed, chan; `cpus[c].proc`; `nextpid` | fork, exit, wait, kill, sleep, wakeup, yield, scheduler | run queues, every sleeper in the kernel, timer interrupts | locks that cross a context switch; wakeups before the awaited fact; fields written without the lock |
| Lottery run queue (`runqueue.c`, `rand.c`) | array of 64 slots and a count, per CPU; `tickets`; `randstate` | `rq_add`, `rq_remove`, `rq_select`, `settickets`, `settickets_pid` | process management, through eight calls | selection used after the unlock; tickets that change during the draw; overflow |
| Priority run queue (`runqueue.c`) | singly linked lists per priority, a count | `rq_add`, `rq_remove`, `rq_select`, `setpriority`, `update_priorities` | process management | a priority change must find the process in its old list; lists linked to themselves |
| Spin locks (`spinlock.c`) | `locked`, `cpu`, `ncli`, `intena` | acquire, release, pushcli, popcli | everything | interrupts across `swtch`, nesting, order of locks |
| Log (`log.c`) | in-memory header, `outstanding`, `committing`; header and blocks on disk | `begin_op`, `log_write`, `end_op`, commit, recovery | buffer cache, every file system call | a crash between two writes; space reservation; sleepers in `begin_op` |
| Buffer cache, disk drivers, sleep locks (`bio.c`, `ide.c`, `memide.c`, `sleeplock.c`) | buffers with refcnt and flags; request queue; lock and owner | `bget`, `brelse`, `iderw`, `ideintr`, acquire, release | log, inodes | recycling; interrupt against sleeper; several sleepers |
| Pipes and file table (`pipe.c`, `file.c`) | ring with `nread`, `nwrite`; open flags; reference counts | alloc, dup, close, read, write | sleep/wakeup, kill, fork, exit | lost wakeups, closing, counters that wrap |
| Inodes, directories (`fs.c`, `sysfile.c`) | inode cache, `nlink`, directory blocks | open, create, mkdir, link, unlink, chdir, read, write, close | log, buffer cache, sleep locks | counts across unlocks; order of inode locks |
| Blocks of files (`fs.c`, `file.c`) | bitmap, addresses, sizes, offsets | bmap, readi, writei, itrunc, balloc, filewrite | log | limits, chunks, shared offsets |
| Memory (`kalloc.c`, `vm.c`, `exec.c`) | free list, page tables, `sz` | kalloc, kfree, growproc, copyuvm, exec | fork, wait, boot | failure half-way |
| Console (`console.c`, `kbd.c`) | ring with `r`, `w`, `e`; screen memory; modifiers | `consoleintr`, `consoleread`, `cgaputc`, `cprintf`, `panic`, `kbdgetc` | sleep/wakeup | ring at its limit; panics on several CPUs |
| Clock (`trap.c`, `sysproc.c`) | `ticks` | timer interrupt, `sys_sleep` | sleep/wakeup, kill | wraps round |
| System calls (`syscall.c`, `string.c`) | - | `argint`, `argptr`, `argstr`, string functions | user memory | words that wrap round, ends of buffers |
| Boot (`main.c`, `entryother.S`, `mp.c`, `lapic.c`, `ioapic.c`) | words below the code page, `use_lock` | `startothers`, `mpmain`, `kinit1`, `kinit2` | page allocator | one word shared by all CPUs |
| User programs and library (`sh.c`, `grep.c`, `umalloc.c`, ...) | heap, command tree | parse, run, malloc, free, match, printf | system calls | processes that outlive their parent; descriptors of pipes |
| Tests (`usertests.c`, `lotterytest.c`, ...) | - | - | all of the above | what they expect |
| mkfs (`mkfs.c`) | image | `ialloc`, `iappend`, `balloc` | the file system reads it | limits |

What makes them correct: a RUNNABLE process is in exactly one queue and nobody else is; a
process runs on one CPU at most; no zombie is missed by its parent and no process is left
without a living parent; the scheduler never uses a selection that has become wrong; the draw is
proportional; whoever sleeps is woken; a file system call reaches the disk as a whole or not at
all; references, links and blocks are counted exactly; every page is in one place; a pipe is
a FIFO and the console a line editor; a file is a sequence of bytes; a user program gets what
the comment above the function promises.  `PROJECT.json` lists the hazards line by line.

## 2. Modules

| Module | Models | Composed with |
|---|---|---|
| `ProcLifecycle` | the life of a process, whatever the policy (abstract) | refined by the three kernels |
| `LotteryRunqueue`, `LotterySched` | lottery `runqueue.c`; `proc.c`, ticket system calls, traps | refines `ProcLifecycle` |
| `LotteryDraw` | the arithmetic of `rq_select()` and `rand_range()` | - |
| `PrioRunqueue`, `PrioSched` | priority `runqueue.c`; `proc.c`, `setpriority` | refines `ProcLifecycle` |
| `RoundRobin` | round-robin `proc.c` | refines `ProcLifecycle` |
| `LotterySchedProofs`, `RoundRobinProofs`, `PrioSchedProofs`, `SpinLockProofs`, `LogProofs`, `BlockIOProofs`, `MemoryProofs`, `ShellPipelineProofs` | theorems about the module of that name; the last one about `Pipe` and `Console` with it | - |
| `SpinLock` | `spinlock.c` under the kernel code that nests, hands over and carries locks | - |
| `Clock` | `sys_sleep()` and the timer tick | - |
| `AtomicDisk`, `Log` | all-or-nothing writes (abstract); `log.c` with crashes | `Log` refines `AtomicDisk` |
| `BlockStore`, `BlockIO` | one exclusive register per block (abstract); sleep locks, buffer cache and driver together | `BlockIO` refines `BlockStore` |
| `FileSystem`, `UserTests` | inode cache, directories and system calls on paths; tests of `usertests.c` as scripts on it | - |
| `ByteFiles`, `FileBlocks` | a file as bytes (abstract); its blocks, and the tests of `usertests.c` about them | `FileBlocks` refines `ByteFiles` |
| `MkImage` | the image that `mkfs` makes | - |
| `Pipe`, `Console`, `LineEditor` | pipes, file table, descriptors; console input; a line editor (abstract) | `Console` refines `LineEditor` |
| `ShellPipeline` | `cat \| cat` as the shell runs it | `Pipe` and `Console` |
| `Memory` | every page of fork, exec, sbrk, exit, wait | - |
| `ExecStack` | arguments on the stack of a new program | - |
| `Boot` | start of the CPUs, over the page allocator | - |
| `SyscallArgs`, `Strings` | argument fetching; string functions, and path names on characters | - |
| `Keyboard`, `ConsoleOutput` | `kbdgetc()`; `cgaputc()`, messages and panics of several CPUs | - |
| `UserHeap`, `UserText`, `Grep`, `ShellParser` | `umalloc.c`; `printf`, `gets`, `wc`; `grep.c`; the parser of `sh.c` | - |
| `UserKernel`, `Programs` | system calls on processes as programs see them; the test programs, `runcmd()` of the shell, and init with one of them | `Programs` runs on `UserKernel` |
| `MC_KernelParts` | `sbrktest` on `Memory`; several parts in one run | see below |
| `MC_LogAndLocks`, `MC_SmallParts` | nothing of their own: several parts in one run | see below |

Definitions carry the names of the functions they model.  Where a function is several steps,
the actions are named after its parts: `exitWakesParent`, `exitReparents`, `exitSched`.  An
operator with a suffix after an underscore, such as `rq_remove_keepsLast`, is a deliberate
mistake next to the definition it would replace; no specification uses it.  `PROJECT.json`
says which property each mistake violates.

A property that a `.cfg` names is often a conjunction of named parts: `FilesAreConsistent` of
`FileSystem` is `TypeOK`, `QuietIsConsistent`, `NamesAreValid`, `CacheIsCoherent` and `NoPanic`.  Each part
stands in the module of its component, with the comment that says what it promises; the text below
names the parts.

Parts that share no state are checked side by side in one run: `MC_KernelParts`, `MC_SmallParts`
and `MC_LogAndLocks` choose a part in the initial state (`topic`), and the variables of the others
stay as they are.  This is a disjoint union of specifications, not a composition; parts that do
interact are composed in a module of their own.

### State and atomicity

*Process management.* `state`, `pid`, `parent`, `killed`, `chan`, `tickets`/`priority`, `cpu` are
the fields of `struct proc`, indexed by slot.  Slot 1 is init.  A slot is its own pointer, 0 is
the null pointer.  `kpc` is where the kernel thread of a process is, or will be when it next
runs, so the code behind `sched()` in `sleep()`, `wait()` and `exit()` runs when the process is
resumed; a zombie that is resumed panics.  A critical section of the process table lock is one
action, except where somebody may interleave with its parts.  In the lottery kernel,
`rq_select()` runs under the queue's lock alone, so its two passes and the use of its answer are
three steps, and the walk of `wakeup1()` and the phases of `exit()` are steps of the lock's
holder (`cs`, `csCpu`, `wk`), which may have to wait for a queue's lock.  In all three kernels a
process that resumes inside `wait()` has the lock already.  Writes without the lock
(`np->parent` in `fork()`, and `np->state` of a failed fork in the round-robin kernel) are steps
of their own.  A system call that does not touch this state is `sysReturns`.  Sleeping on any
lock, buffer, pipe or the clock is `sleep(c, ch)` for a channel `ch` of `Chans`; anybody,
interrupt handlers included, may wake a channel at any time, which covers spurious wakeups.
`PrioRunqueue` keeps `head`, `tail` and `next` as pointers rather than sequences, since the code
can link a process to itself; a traversal that would not end sets `q.fault`.  The round-robin
kernel's walk through the table is one step per slot, each CPU at its own position.  Statistics
fields, which no decision reads, are left out.

*Spin locks.* Every access to `locked`, `cpu`, `ncli` and `intena` that another CPU or an interrupt
can tell apart is a step.  The kernel threads above take the locks in the orders in which the
lottery and the round-robin kernel do.

*Disk.* `Log` keeps home blocks, log blocks and header as what is on disk; every disk write is a
step, and `crash` may come between any two, during recovery too, and resets what is in memory.
It takes for granted what `BlockStore` says, which `BlockIO` implements: there a critical section
of `bcache.lock`, of a sleep lock's spin lock or of `idelock` is one action, and a sleeper that
is woken tests again in an action of its own.

*Files.* `FileSystem` takes transactions as atomic (`Log`) and buffers as registers (`BlockStore`);
its actions end where a process waits for an inode's lock, gives one up or looks at the counters
under `icache.lock`.  An inode has one block there; `FileBlocks` has direct and indirect ones, one step
per block, between which other processes write other files.  Names are values in `FileSystem` and
characters in `Strings`.  `UserKernel` has descriptors that share offsets and pipes, and a
whole system call as one action.

*Sleepers.* Where `p->killed` is tested and the process then sleeps (pipes, console, clock), test
and sleep are two steps, the spin lock held between them: `kill()` takes the process table
lock only and comes in between.

*User level.* A user program is one thread.  `UserHeap`, `Grep`, `ShellParser` and `UserText` are
its loops, compared with a reference definition over all bounded inputs.  In
`UserKernel` a program is the sequence of the calls that it still makes.

*Tests.* The scripts make the calls of the tests in their order, with their expectations.  They
are shorter: one child for ten, two rounds for five, numbers scaled to the constants so that
their relation to a block, a page or the largest file stays.  A second descriptor of one process
is held by its child, and a file opened with `O_CREATE` counts as writable.

## 3. Runs

| Run | Configuration | Question and answer |
|---|---|---|
| `lottery_sched` | 3 slots, 2 CPUs, 3 pids, one ticket count | Queues, table and CPUs agree, the selection is still valid when used, no panic, everybody has a living parent, no zombie is missed, refinement of `ProcLifecycle`; `ptable_lock` is released again and again. |
| `prio_sched` | 3 slots, 2 CPUs, 3 pids, priorities 0 and 1 | Lists hold exactly the RUNNABLE processes of their priority, the best one is picked, CPUs and table agree, no panic and no endless traversal, no zombie missed, refinement of `ProcLifecycle`. |
| `prio_zombie` | 3 slots, 1 CPU, priorities 0-3 | **Violated.** A lifted sleeper is queued twice, and its second entry brings a zombie back to a CPU. |
| `rr_sched` | 3 slots, 2 CPUs, 4 pids | CPUs and table agree, no zombie missed, refinement of `ProcLifecycle`; a RUNNABLE process runs. |
| `rr_wait` | 5 slots, the process tests | **Violated.** `forktest` on the round-robin kernel: `wait()` sleeps for a child that was reaped. |
| `kernel_parts` | memory: 2 address spaces, 16 pages; draw: 3 processes, 5-bit integers, one concurrent `settickets()`; clock: 2 sleepers, 2-bit ticks | Every page is free or in one place, `sz` is what is mapped, failures give everything back, `sbrktest` passes; exact proportionality, somebody wins, the draw ends; sleepers wake neither early nor late, killed ones exit. |
| `log_locks` | log: 2 calls, 3 blocks, 4 log blocks; locks: 2 CPUs, 2 processes, two kernels | Refinement of `AtomicDisk`, no overflow of the log, sleepers in `begin_op()` are woken; mutual exclusion, interrupts come back, no panic, no circle of CPUs. |
| `block_io` | 2 processes, 3 blocks, 2 buffers, both drivers | Refinement of `BlockStore`, exact reference counts, one buffer per block, every `bread()` returns. |
| `fs` | 2 processes, 10 inodes, 2 calls out of 9, or a test | Links, names, blocks and references agree when nobody is in a call, tests pass, no panic, every call returns but for the circle of `fs_deadlock`. |
| `fs_deadlock` | 2 processes, `create` and `unlink` | **Violated.** The two wait for each other. |
| `pipeline` | pipe of 2 bytes, ring of 3 characters, counters of 3 bits and modulo 6, one kill | References and pipe ends agree, nobody oversleeps, refinement of `LineEditor`, the text arrives in order, the pipeline ends. |
| `small_parts` | fifteen parts, see the comments of the `.cfg` | Boot, `mkfs`, blocks of files with their tests (refinement of `ByteFiles`), arguments, path names, strings, keyboard, screen, messages, `exec()`, heap, parser, grep, text functions, and init with tests or shell. |

### Bounds

Three slots give a parent, a child and a grandchild or two siblings, so a process can exit
while it has both a parent and a child; one pid more than can live at once makes a slot be used
again.  With one ticket count in `lottery_sched` the scheduler still draws any process of its
queue; counts that differ and change belong to `LotteryDraw`.  Two CPUs give every interleaving of a scheduler with a critical section elsewhere.
`MaxPid` bounds the forks of a behaviour; without it the state space is infinite, and nothing but
the guard of `allocproc` depends on it.  `NPROC` equals `MAX_PROCS` as in the code, so a queue can
be full.  In `prio_sched`, 0 and 1 stand for the priorities 0 to 10 and 1 is the short-lived one
(5 in the code); in `prio_zombie` there is one more that is neither.  One pass ages a process,
and `HIGH_PID` = 2 makes the third process a high pid.

Counters are given words so short that they wrap round within a few steps: ticket counts, ticks,
`nread` and `nwrite`, the ring's `r`, `w`, `e`, addresses of arguments and of the heap.  Buffers
are shorter than what goes through them: a pipe of two bytes, a ring of three characters, a
log that a third block overflows when slots are not reserved, two buffers for three blocks,
files that need their indirect block, a disk that is full, a page table that two pages
fill.  Two calls that overlap are enough for the circles and races of `fs`; a third
multiplies the states by a hundred and gives no new order of two inode locks.
`MaxCalls`, `MaxMessages`, `MaxPut`, `MaxUnits`, `MaxWire` and `MaxLine` end a behaviour after
enough calls or characters for each branch to be taken.  `MaxLag` is how many ticks a woken
sleeper may wait for a CPU, and `SleepsAsAsked` exempts sleeps that come within it of a whole turn of
the clock.

`CHECK_DEADLOCK FALSE` is set in every `.cfg`, since everything modelled here may really stop: a
kernel at a panic or when init exits (which happens when init is killed), a call when it
has returned, programs when they have exited, and behaviours at their bounds.  That nothing stops before its
time is what the liveness properties and, for the tests, `ProgramsEnd` say.

### Up to the first lifted sleeper

In the priority kernel, `wakeup1()` adds a sleeper of priority other than 0 and 5 to its list
twice.  After that the lists are no longer lists: `prio_zombie`, which uses the unrestricted
`Spec`, shows what follows.  The other properties of that kernel are checked under
`SpecNoLift`, all behaviours up to the first such wakeup: they say that this is the only
operation that breaks them.

### Fairness

* Lottery: a CPU that holds a spin lock has interrupts off and executes until it releases it, so
  `selectDraw` and the steps of the lock's holder are weakly fair.  Nothing else is.
* Round-robin: each scheduler goes on, a process inside `wait()` with the lock goes on, and the
  timer interrupt makes a process yield (`trap.c`).  A CPU may lose every race for the lock:
  whichever wins them walks through the whole table and starts what it meets.
* Spin locks: a CPU goes on in the kernel; it may lose every race, which is why
  `InterruptsAreServed` has a second disjunct.
* Draw: `rq_select()` runs with its lock held.  The rejection loop of `rand_range()` is taken as
  one step that returns some accepted number: that `rand()` delivers one eventually is the one
  thing assumed of the generator, and a threshold that accepts nothing is a step that
  cannot be taken, which `DrawEnds` would report.
* Log: the disk answers, so commit and recovery go on, and a system call makes finitely many
  writes and ends, so `end_op` is strongly fair.  A crash is never forced.
* Clock and block I/O: processes that can run do, the drive answers, a holder releases its buffer.
  Steps that compete for a lock (`tick`, `Proceed`, `acquiresleep`) are strongly fair: with weak
  fairness one process could win every race, which spin locks permit but no schedule of finitely
  many processes with interrupts does for ever.  Without this assumption `KilledEnds` (in `PartsGoOn`)
  and `BreadReturns` do not hold.
* Memory, file system, pipeline: every process goes on when it can (weak fairness); the user of
  the pipeline types.  What the scheduler needs for that is checked for the round-robin kernel
  only; under the lottery it holds with probability one, and under priorities it need not hold.

In the runs with several parts, the parts that are not chosen have no step that is enabled, so
their fairness asks nothing.

### Where a property stops short

Some properties make an exception for something that the code really does.

* `SizeMatchesPages` (`Memory`, in `MemoryIsConsistent`): `sbrk()` of minus everything frees the pages and then takes the size
  0 for a failure, so `sz` stays (`proc.c:200`).
* `QuietIsConsistent` (`FileSystem`, in `FilesAreConsistent`) allows for two things.  Two `iput()` of an inode without links that
  overlap may both see `ref` 2 and neither frees the inode (`fs.c:337`; `overlapped`).  And `create()` and `link()`
  do not look whether the directory that they have locked was removed meanwhile (`sysfile.c:249`;
  `orphaned`); what happens afterwards is explored but promised nothing.
* `CallsReturnOrCircle` (`FileSystem`): `Circle` is the deadlock of `fs_deadlock`.  `link("f", ".")`
  is not among the calls: it locks against itself (`fs.c:559-561`).
* `CleanIsDisk` (`BlockIO`, in `CacheIsConsistent`) is checked with `DiskErrors = FALSE`.  When the drive reports an error,
  `ideintr()` leaves the buffer's data and marks it valid (`ide.c:118-122`).
* `InOrder` (`ShellPipeline`, in `PipesAreConsistent`): a killed writer may leave bytes without waking the reader
  (`pipe.c:86-88`); `pipeclose()`, which follows at once, does it.
* `ImageIsConsistent` (`MkImage`, in `BlocksAreConsistent`): the size of the root directory is rounded up a block too far when its entries
  fill their blocks (`mkfs.c:161`).
* `ProgramsEnd` (`Programs`, in `ProgramsWork`) is checked on the lottery kernel for all programs and on the round-robin kernel
  for those that do not call `wait()` once too often (see `rr_wait`).

Others follow what the code does where a reader might expect something else: `grep` drops the rest
of a file that does not end with a newline and lines longer than its buffer; of several
redirections of one command the innermost wins; an empty command is accepted between symbols;
a line longer than the shell's buffer is run in pieces; `memmove()` of user
programs copies forwards only; `sleep()` of a negative number lasts almost for ever; `cprintf()`
does not know `%c`.

## 4. What is proved

The proofs hold for every value of the constants that the named assumptions allow.  These ask for
positive sizes, finite sets of processes and blocks, a free value for "none", and, in the
lottery kernel, `NPROC <= MAX_PROCS`, as in `param.h`.  Each component has an inductive invariant,
`IInv`, and three facts: `Init => IInv`, `IInv /\ [Next]_vars => IInv'`, and that `IInv` implies the
property.  Next-state preservation has one lemma per action and one step per conjunct.

### Lottery kernel (`LotterySchedProofs`)

* `TypeCorrect`, `QueuesCorrect`, `CpusCorrect`, `SelectionCorrect`, `PanicFree`, `FamiliesCorrect`:
  each `Spec => []P` for the invariant of the same subject that `lottery_sched` checks.
* `LifecycleImplemented`: `Spec => RefinesLifecycle`.

None of the invariants is inductive alone.  That the queues match the states needs that a fork in
progress owns an EMBRYO of its own (`ForkOwnsChild`), that every started process has a valid
CPU and is not behind its last `sched()` (`StartedProcesses`), that the holder of
`ptable_lock` is where `cs` says and the processes it has still to wake are asleep
(`LockDiscipline`), and that a CPU is switched out of its scheduler exactly when it has a current
process (`SchedMatchesProc`).  That a queue is never full needs a count: a compact array without
duplicates that lacks one process has a free slot (`RoomInQueue`, from the cardinality theorems).
That a selection stays valid needs that nobody but its own CPU removes a RUNNABLE process from
a queue, which follows from `CpuMatchesState`.

Families have an invariant of their own on top, `FamilyInv`.  A waiter is missed only if its child
becomes a ZOMBIE without telling it, so `ExitInProgress` says what an exit that is under way has
done (its parent is awake or among those it is waking, its children are init's), and
`WaitersAreTold` that a sleeper of `wait()` has a child, and no ZOMBIE among its children unless
the holder of the lock is about to wake it.  That `fork()` writes `np->parent` without the lock is
harmless because the child has no parent before and the forking process afterwards (`ForkSetsParent`).

For the refinement, every action is a step of `ProcLifecycle` or a stutter, each wakeup of one
sleeper in the walk of `wakeup1()` included; the invariant supplies what the code does not test,
such as that a process on its way to a CPU is RUNNABLE, not a ZOMBIE.

### Round-robin kernel (`RoundRobinProofs`)

* `ProcessesCorrect`: `Spec => []StaysConsistent`; `LifecycleImplemented`: `Spec => RefinesLifecycle`.

`StaysConsistent` is not inductive: it needs that a CPU in the middle of its walk through the table has
the lock (`WalksLocked`), that a process behind its last `sched()` is a ZOMBIE or a free slot, which
no wakeup touches (`DeadStayDead`), and that a process asleep in `wait()` is on its own channel and has no
ZOMBIE among its children (`WaitersAreTold`).  The stale `parent` of a free slot (see `rr_wait`) does
not disturb this: it makes `wait()` sleep too long, and never makes it miss a ZOMBIE.

### Priority kernel (`PrioSchedProofs`)

* `IInvHolds`; `ProcessesCorrect`: `SpecNoLift => []StaysConsistent`; `PicksBestHolds`:
  `SpecNoLift => PicksBest`; `LifecycleImplemented`: `SpecNoLift => RefinesLifecycle`.

All of this is about the behaviours up to the first wakeup that lifts a sleeper, as in the run; after
it the statements are false (`prio_zombie`).  The invariant says of every list that it links, from
head to tail and each once, exactly the processes that belong there by state, CPU and priority, and
that the counts are the numbers of processes linked.  The code follows the links node by node, and
what a traversal meets is a recursive function: a lemma about it takes the first node at which it would
fail (`FirstIsMember`) instead of an induction.  `AddKeepsLists`, `RemoveKeepsLists` and `SelectRemoves`
say what `rq_add()`, `rq_remove()` and `rq_select()` do to well-formed lists, `WakeKeeps` and `UpdateKeeps` what
the walks of `wakeup1()` and `update_priorities()` do to all of them.  That a process is in its old
list when its priority changes follows from the lists' agreement with the table, which holds
whenever `ptable.lock` is free.

### Spin locks (`SpinLockProofs`)

* `IInvHolds`; `LocksCorrect`: `Spec => []LocksAreSafe`, for every number of CPUs and processes and for both
  kinds of kernel.

`LocksAreSafe` says where locks and interrupts are; why they are there is in the code that threads have
still to do.  `CodeIsDisciplined` therefore says of every step of every thread's code what is held
there: locks are taken in the order of `Rank`, `sched()` is reached with `ptable.lock` alone, interrupts are
let in outside of every lock.  `LocksMatchCode`, `CliNests`, `StatesMatchCode` and `InterruptsRemembered` tie
the locks, the depth of `pushcli()`, the state of a process and the interrupt flag to the code behind
the current step.  A call or an interrupt puts code in front of what is there, so the lemmas named
`Fits...` are the rules of a backward reasoning: what holds behind a piece of kernel code must fit what the
piece leaves (`FitsHandler`: an interrupt handler fits in front of any code without locks; `FitsSleep`,
`FitsSwitch`).  Across a switch, `SwitchedOut` says that whoever is on no CPU has exactly
`ptable.lock` to release, which is what makes it right that another thread releases it; and a process
that comes back to `sched()` finds `intena` of whoever ran there last, so that `InterruptsRemembered` speaks of
`saved` until `resume` has put it back.  No circle forms because a CPU that spins has only
locks of lower rank.

### Log (`LogProofs`)

* `QuietDurable`: when nobody is in a call and nothing is being committed, what was written is on its home
  block and the log is empty, whether or not calls fit their reservation.
* `LogCorrect`: `Spec => []LogIsConsistent`, under `CallsFit`.
* `LogIsAtomic`: `Spec => RefinesAtomicDisk`, with a crash between any two writes and crashes
  during recovery; `CallsFit` is not needed.

`CallsFit` says that a call writes fewer blocks than `MAXOPBLOCKS` and that the log has as many blocks as
the header says, two more than a call needs.  Fewer, because of the log's blocks one is its header, and
because `log_write()` tests for a full log before it looks whether it has the block already:
section 5 says what happens without it.

The reservation is a count over the processes: what the calls that are open may still write, and
what the log already has, fit into the log together (`Reserved`, with the set `Charged` of a block per
call and slot, and the cardinality theorems).  Durability needs that a block whose cached value
differs from its home block is in the log header (`WritesAreLogged`), and that commit, installation
and recovery are loops whose positions below the index are done (`LoopsCopy`): so
recovery that crashes half-way and starts again does the same copies.

### Block layer (`BlockIOProofs`)

* `IInvHolds`: the inductive invariant, drive errors included.
* `CacheCorrect`: `Spec => []CacheIsConsistent`, and `StoreImplemented`: `Spec => RefinesBlockStore`, both
  under `DiskErrors = FALSE`.

A failed read (`ide.c:118-122`) marks a buffer valid that has another block's data: with it, both
theorems are false, so the hypothesis is exactly the exception of `CleanIsDisk` below "Where a property
stops short".  The invariant ties four things together that the code keeps in different places
and under different locks.  `OwnersHold`: the owner of a sleep lock is the process that has the
buffer in its hand.  `QueueIsWaitedFor`: a process in `iderw()` waits for a buffer that it owns, which is
in the queue until its flags say that it is in sync, and nothing else is in the queue.
`DriveKnowsHead`: what the drive has been told is about the head of the queue as it still is; this
needs that its owner cannot touch it meanwhile.  `ReadBeforeUse`: what a process holds has been
read, but for the buffer it is about to read.  For `StoreImplemented`, a block's abstract value is its
buffer's data when it is in the cache and valid, and the disk's otherwise; the step that matters is
recycling, which changes where a value is looked up: what is recycled is not referenced and not dirty,
so by `CleanIsDisk` both places have the same value.

### Memory (`MemoryProofs`)

* `IInvHolds`, and `PagesCorrect`: `Spec => []MemoryIsConsistent`.

The assumptions say that there are pages enough for init and that a word holds the sum of two sizes, as
the code's constants do; which programs `exec()` is given, by how much `sbrk()` changes a size
and how many calls a behaviour has is arbitrary.  That no page is lost or given to two
(`PagesPartitioned`) is nearly inductive: it needs that a page is put only where there is none.
What a process keeps when a call fails is not.  `BuiltSoFar` says that the pages of the address space
under construction are those below the point the call has come to, no more and no fewer, so that
`mappages()` never meets a page and the undoing of `allocuvm()` takes exactly what it added;
`OldSizeKept` that the size a failing call falls back to is still the one whose pages are there,
and that for `fork()` the parent has every page `copyuvm()` asks for.  `NothingSpare` says that what
is not being built is empty, which is what makes the moved address space of `fork()` and `exec()` fit
in its new place, and `ForkOwnsChild` that no two calls build the same child.  `Order`, `RoundsUp` and
`WholePages` are the arithmetic of `PGROUNDUP` that all of this rests on: `v * PGSIZE < n` exactly when
`v` is below the number of the page at `PGROUNDUP(n)`.

### Pipes, files and console (`ShellPipelineProofs`)

* `IInvHolds`; `PipesCorrect`: `Spec => []PipesAreConsistent`; `NobodySleeps`: `Spec => []NobodySleepsInVain`;
  `ConsoleImplements`: `Spec => RefinesLineEditor`.

The theorems are about the whole of `cat | cat`: one pipe, three processes, and one reader of the console
(`ShellAssumption`).  Everything else is arbitrary: the sizes of the ring, of the file table, of the descriptor
table (four at least) and of `cat`'s buffer, what is typed, which console descriptors the shell begins
with, which calls fail, and whom `kill()` hits when and how often.  `PipeAssumption` and
`ConsoleAssumption` ask what 32-bit words and rings of 512 and 128 bytes satisfy: a counter wraps round
at a multiple of the size of its ring that is larger than the ring.

`RefIsExact` is nearly inductive, but counts over three sets change with it, and `fork()` and `exit()` move
many members at once; the lemmas about `Holders` and `Closers` come from the cardinality
theorems.  `PipeMatchesFiles` is not inductive: `EndsHaveOneFile` adds that an end has one file or one
process between `fileclose()` and `pipeclose()`, never both, and `CallsHaveFiles` that a call on the pipe
has a descriptor of its own for the end it uses, so nobody can close the last reference under it.
That nobody sleeps in vain needs it of those who are about to (`SleepersWait`), and that they hold the lock
between the test and the sleep (`LockHeldToSleep`); the console has the same two in `ConsoleInv`.
`ProgramsMatchCalls` says which call each program may be in, and so that the writer is the left cat and the
reader the right one.

`InOrder` says nothing once a call of the left cat has returned -1, and -1 is forgotten with its next call.
`TextIsKept` says more: only a failed `write()` excuses it, and this is remembered in where the program is
afterwards (`WriteFailed`); a `dup()` or `close()` that failed before does not.  The bytes of a ring are a sequence read off an array between two counters; what one side puts
in and the other takes out of it is in the lemmas about `Dist`, `Filled`, `Queue` and `Span`, on the arithmetic of
counters that wrap round.  They are used for the pipe and for the console, where taking
back a character of the line, and confirming it, are the steps of the refinement.

### Only model-checked, and why

* The liveness properties: `TableLockReleased`, `NoStarvation`, `PartsGoOn`, `NobodyIsShutOut`, `BreadReturns`,
  `CallsReturnOrCircle`, `PipelineEnds`.  Fairness and `ENABLED` are beyond the installed backends.
* What recursive functions and folds compute for every input: the sum of `rq_select()` (`DrawIsFair`), and
  the parts of `small_parts` that compare a loop with a reference definition (`ArgumentsAreIntact`,
  `HeapIsConsistent`, `TextIsUnderstood`, most of `BlocksAreConsistent`): this is induction over data.  Where
  such a module declares a RECURSIVE operator, no theorem about it can be checked at all.
* What no proof has been written for yet: `Clock`, `FileSystem`, `UserTests`, `Boot` and `ConsoleOutput`.
  Section 7 says in which order they would come.

## 5. Findings

Three are shown by runs, and `PROJECT.json` quotes the lines: in the priority kernel `wakeup1()` queues
twice, and a zombie is resumed as a consequence (`prio_zombie`); in the round-robin kernel
`wait()` leaves a stale parent, and `forktest` hangs (`rr_wait`); in all three, `create()` and `unlink()` of one name
can wait for each other (`fs_deadlock`).

Others are visible in the definitions and have no run of their own, beside those of "Where a
property stops short":

* `kill(0)` succeeds, since free slots have the pid 0 (`proc.c:599`), while `sysproc.c:84` of the
  lottery kernel promises -1 for a pid that is not found.
* A sum of tickets that overflows becomes 0 or negative, and `runqueue.c:96` takes it for a number of
  tickets; for a negative one the threshold of `rand_range()` is 0 and its loop endless.
* Priority 5 is served before priority 0 (`Rank`).
* The log that `mkfs` makes holds one data block less than `LOGSIZE`, so three calls of
  `MAXOPBLOCKS` blocks each, which `begin_op()` admits, would make `log_write()` panic (`modify`, with
  `OpBlocks = MAXOPBLOCKS`).

## 6. Not modelled

* Protocols of hardware: `bootasm.S`, `bootmain.c`, `mp.c`, `lapic.c`, `ioapic.c`, `uart.c`, `picirq.c`, the probing of
  `ideinit()`, segment and page table bits, trap frames.  They move constants into registers.
  (Reading `mp.c` showed two oddities without a run: an unknown entry of the MP table makes its loop
  endless, and disabled CPUs are counted.)
* ELF headers in `exec()`, byte order and superblock in `mkfs`: layouts.
* `fstat()`, `mknod()`, `getpinfo()`'s numbers: copies of fields.
* `ls`, `cat`, `echo`, `kill`, `ln`, `mkdir`, `rm`: a loop around one modelled call.  init's restart of the
  shell.
* Of `usertests.c`: `validatetest`'s loop over addresses, `bsstest`, `uio`, `argptest` and `sbrktest`'s reads above
  the kernel are page and port protections; `mem` and `fsfull` are loops until a resource is used
  up, which `UserHeap` and `FileBlocks` reach on their own.
* The xorshift sequence of `rand()` is an arbitrary number.
* Memory ordering is that of the locks: the code's data races (`np->parent`, `tickets`) are on aligned
  words, which x86 reads and writes whole.
* Generated tables (`usys.S`, `vectors.pl`, `syscall.c`'s array), documentation and print scripts.

## 7. Plan

1. Prove more, in this order: the safety part of `Clock` (`SleepsEndInTime`); `CacheIsCoherent` of
   `FileSystem`.
2. Extend the model where a composition is still missing: `FileSystem` over `Log` with a crash between two
   calls (the two meet in `AtomicDisk` only), and `FileBlocks` under `FileSystem` for directories of several
   blocks.
3. Repair the causes of the exceptions above in a copy of the definitions (`iput()`, `create()`) and check
   that the exceptions go.
