# A TLA+ model of OSLAB2022

The repository is a set of operating-system lab projects: a kernel, the machine
layer it stands on with its boot loader and C library, and a few programs of
their own. This directory holds TLA+ modules that model them, TLC
configurations that check them on small instances, and TLAPS proofs about the
kernel's locks, semaphores, scheduler, allocator, process memory, terminals and
disk, the loader, the start of the processors, contexts, the clock, address
spaces on the host, `thread-os` and `libco`. `PROJECT.json` is the index: which
definition models which lines, what every run checks, which faults the properties have been seen to catch, the
hazards of the code and the theorems.

All paths below are relative to `src/`; `am/` is `abstract-machine/am/`.

## 1. Inventory

### The kernel (`kernel/`)

| part | state | operations | talks to |
|---|---|---|---|
| spin locks, `kernel/src/kmt.c` 30-60 | `flag` of each lock; `nest[]`, `intenb[]` of each CPU | `spin_init`, `spin_lock`, `spin_unlock` | the interrupt flag; `os_trap`, which takes `locks[cpu]` to schedule |
| semaphores, `kmt.c` 62-85 | `lk` and `value` of each semaphore | `sem_init`, `sem_wait`, `sem_signal` | `lock.c`; `yield` |
| tasks and scheduling, `kmt.c` 9-28 and 87-121, `os.c`, `uproc.c` | the ring of each CPU (`next`, `prev`), `percpu[].curTask`, `currents[]`, `status`, the saved contexts, pids, the family links | `k_init`, `kcreate`, `ucreate`, `os_trap`, `fork`, `exit`, `sleep`, `getpid` | spin locks, `pmm`, the trap entry of the machine |
| memory allocator, `pmm.c`, `lock.c` | ten free lists and their locks, `hbound` | `kinit`, `kalloc`, `kfree` | called by every other part with interrupts off |
| memory of processes, `os.c` 94-115, `uproc.c` 22-53 | `va[]`, `pa[]`, `np` and the page table of each process | `PF_handler`, `pgmap`, the copy in `fork` | `pmm`, the MMU |
| input device, `dev/dev_input.c` | the ring of events, modifier keys, caps lock, the semaphores `sem_kbdirq` and `events_sem` | `input_read`, `input_notify` (interrupt), `dev_input_task` | the keyboard controller, the terminal task |
| terminals, `dev/dev_tty.c` | for each the grid, the cursor, dirty marks, the queue of cooked lines | `tty_read`, `tty_write`, `tty_cook`, `tty_render`, `dev_tty_task` | the input device, the frame buffer |
| frame buffer, `dev/dev_video.c` | texture and sprite memory, the current display | `fb_init`, `fb_write` | terminals; the display of the machine |
| disk, `dev/dev_sd.c` | one block buffer | `sd_read`, `sd_write`, over `blkread`/`blkwrite` | the disk of the machine |

`framework/main.c` ties it together: `os->init`, one process for CPU 0
(`uproc_test`), then `mpe_init`, after which every CPU enters `os_run` as its
idle task. A trap saves the context of the running task, lets `irq_handlers`
serve a page fault or a system call, and returns the context of the next task
of the ring. `dev_init`, which makes the devices and starts their two tasks,
has no caller at this commit, and `os->on_irq` is null.

### The machine layer (`abstract-machine/`)

| part | state | operations |
|---|---|---|
| boot loader, `am/src/x86/qemu/boot/main.c` | memory, the drive, `is_ap` | `load_kernel`, `load_program`, `copy_from_disk` |
| start and stop, `mpe.c`, `trm.c` | the boot record, `ap_ready`, the start interrupts | `mpe_init`, `othercpu_entry`, `halt`, `__am_stop_the_world` |
| contexts, `cte.c`, `trap32.S` | frames on kernel stacks, registers, `esp0` | trap entry, `__am_irq_handle`, `__am_iret`, `kcontext`, `ucontext` |
| address spaces, `vme.c` | page tables, `kpt` | `vme_init`, `protect`, `unprotect`, `map` |
| devices, `ioe.c` | clock registers, frame buffer and canvas memory, ATA registers | `timer_rtc`, `estimate_freq`, `gpu_fbdraw`, `render`, `disk_blkio` |
| native address spaces and disk, `native/vme.c`, `native/ioe/disk.c` | page maps in lists, what the host has mapped, the image file | `protect`, `map`, `__am_switch`, `disk_blkio` |
| C library, `klib/src/` | none | `string.c`, `vsprintf`, `int64.c` |

### Programs

| part | state | operations |
|---|---|---|
| coroutines, `libco/co.c` | the ring, the contexts, `current` | `co_start`, `co_wait`, `co_yield`, `wrapper` |
| `thread-os.c` | `currents[]`, the tasks' contexts, a spin lock | `on_interrupt`, `func`, on the processors above |
| `pstree/pstree.c` | records of processes, while processes start and end | the two loops of `init`, `P` |
| `crepl/crepl.c` | the counter, the line buffer, libraries in `/tmp` and in the process | the loop, its `fork`, `execve`, `wait`, `dlopen` |
| `fatree.c`, `frecov/frecov.c` | a FAT32 image; the walk; the files written | `dfs`, `next_cluster`; the scan, `Traverse_Dir`, `file_recovery` |
| `amgame/` | the segments of a snake, the screen | one frame: erase, key or move, draw |

### What is hard

* **Per-CPU bookkeeping for per-task critical sections.** `nest[]` and
  `intenb[]` belong to a CPU. A task that was switched out inside a critical
  section would leave its count to the next one. Nothing in the code says that
  this cannot happen; it follows from interrupts being off, which follows from
  the bookkeeping being right.
* **Two locks that look alike.** The semaphores and the allocator use `lock.c`,
  which leaves interrupts alone. The holder of a semaphore's lock is preempted,
  and the others spin for whole time slices.
* **Rings edited in steps**, by `kcreate` (possibly for another CPU), `ucreate`
  and implicitly by the scheduler that walks them.
* **Nested traps.** `sleep` and `exit` yield inside a system call, so a task has
  a stack of saved contexts, and where it resumes depends on popping it right.
* **Failure without a check.** `pmm->alloc` returns 0 when it has nothing, and
  most callers do not look.
* **Contexts that outlive their frames** in `libco`: `co_yield` may return
  without having switched, while `current` has moved on.
* **Marks shared without a lock.** The blinking cursor marks cells of a terminal
  that another task draws and clears.
* **One boot record for all.** The interrupt that starts a processor is the one
  that stops it; which, is decided by what the record holds when it arrives.
* **Data that changes while it is read**: the clock, `/proc`.
* **Bookkeeping of a fact kept elsewhere**: what the host has mapped, which
  libraries are loaded, which pages are in the table and which in the record.
* **Boundaries**: a cluster, a sector, a word, the wrap of a queue.

### What makes each part correct

* Spin locks: one holder; the holder keeps its CPU; the interrupt flag comes
  back as it was; no CPU waits for itself.
* Semaphores: no token lost or invented, no waiter forgotten.
* Scheduling: rings stay rings and keep all their tasks; every trap resumes
  exactly where a context was saved; the dead never run; the ready always do.
* Allocator: a block is on its list, with one caller, or in transit; blocks do
  not overlap; a request is served from a block that is large enough.
* Process memory: what a process writes it reads back, nobody else changes it,
  `fork` copies all of it, and every page taken is some process's.
* Console: readers get the lines typed at their terminal, each once and whole;
  the screen shows the terminal on display; every key is served.
* Disk, loader, frame buffer: bytes and pixels end where they belong, and
  nothing beside them changes.
* Start and stop: each processor enters the program once, on its own.
* Contexts: each thread gets back its own registers and stack.
* Address spaces: separate, beside the kernel's; no page is lost.
* klib: what the C library promises, as far as the code keeps it (section 4).
* libco: the ring stays intact, nothing runs twice, everything ends.
* Programs: `pstree` prints every process it found under its parent, apart from
  those cut off from process 1; `crepl` answers a line that it compiled with
  that line's value; `fatree` lists each file once; `frecov` adds each file to
  the one in `/tmp` of its name, in the order found; the snake is whole and the
  screen shows it.

## 2. Modules

| module | what it is | code |
|---|---|---|
| `RecursiveLock` | promise of `spin_lock`/`spin_unlock`: an agent holds a lock some number of times | - |
| `KmtSpinlock` | the lock one statement at a time, inside trap entry, `os_trap` and trap return | `kmt.c` 30-60, `os.c` 44-68 |
| `KmtSpinlockProofs` | TLAPS proofs about `KmtSpinlock` | |
| `Semaphore` | promise of `sem_wait`/`sem_signal`: atomic counters | - |
| `KmtSem` | semaphores under preemption, with the producers and consumers of `os.c` | `kmt.c` 62-85, `lock.c` 30-40, `os.c` 4-10 |
| `KmtSemProofs` | TLAPS proofs about `KmtSem` | |
| `RunQueue` | promise of the scheduler: a rotating queue on each CPU | - |
| `KmtSched` | rings, contexts, processes | `kmt.c`, `os.c`, `uproc.c`, `framework/main.c` |
| `KmtSchedProofs` | TLAPS proofs about `KmtSched`: contexts; rings, run queues and families | |
| `Heap` | promise of the allocator: disjoint blocks | - |
| `Pmm` | the allocator, one memory access at a time | `pmm.c` |
| `PmmProofs` | TLAPS proofs about `Pmm` | |
| `PrivateMemory` | promise to processes: a private memory, copied by `fork` | - |
| `ProcMem` | demand paging and the copy of `fork` | `os.c` 94-115, `uproc.c` 22-53, `vme.c` |
| `ProcMemProofs` | TLAPS proofs about `ProcMem` | |
| `InputDev` | the input device and the keyboard controller | `dev_input.c`, `ioe.c` 104-132 |
| `TtyDev` | the terminals and their frame buffer | `dev_tty.c`, `dev_video.c` |
| `Console` | `InputDev` and `TtyDev` together, with the two tasks of `dev_init`, programs that write and readers | `dev.c`, `dev_tty.c` |
| `ConsoleProofs` | TLAPS proofs about `Console` | |
| `SdDev` | the disk device on the ATA registers and on an image file | `dev_sd.c`, `ioe.c`, `native/ioe/disk.c` |
| `RtcTimer` | the clock, read while it runs, and the estimate of the frequency | `ioe.c` |
| `Gpu` | rectangles and trees of canvases | `ioe.c` |
| `BootLoader` | the loading of a program, sector by sector | `boot/main.c` |
| `X86Smp` | the start and the stop of the processors | `mpe.c`, `trm.c` |
| `ThreadOs` | `thread-os.c` on the processors of `X86Smp` | `thread-os.c` |
| `PartsProofs` | TLAPS proofs about `X86Smp`, `ThreadOs`, `Libco`, `SdDev`, `RtcTimer`, `BootLoader`, `NativeVme`, `X86Vme` and `X86Trap` | |
| `LeastNumber` | a set of numbers has a least, a bounded one a greatest; induction on a set of numbers and the existence of recursive functions, which follow | |
| `X86Trap` | the words of the trap frames on the kernel stacks | `cte.c`, `trap32.S`, `vme.c` 158-173 |
| `AddressSpaces` | promise of an address space: a mapping of its own beside the kernel's | - |
| `X86Vme` | page tables of several levels | `qemu/vme.c` |
| `NativeVme` | address spaces as mappings of the host | `native/vme.c` |
| `KlibString`, `Klib` | string functions on a memory, and formatted output | `string.c`, `stdio.c` |
| `Int64` | division and counting of zeros on double words | `int64.c` |
| `Libco` | the coroutine library | `libco/co.c` |
| `FatImage` | a FAT32 image made from a file system, and what both programs do with it | `fatree.c`, `frecov.c` |
| `FatTree`, `FatRecover` | the two programs | `fatree.c`, `frecov.c` |
| `Pstree`, `Crepl`, `Snake` | the other programs | `pstree.c`, `crepl.c`, `amgame/` |
| `MC*` | instances for TLC; `MCParts` holds those of every part that shares no state with another: by `EXTENDS` the parts that are proved about, so that what it checks of them is what the theorems state, the others as instances | |

Each `Abstract`/`Queues`/`Spaces`/`Separate` instance at the end of a detailed module gives
the refinement mapping, and its `Spec` is checked as a property of the detailed
specification.

A definition named `<Definition>_<Fault>` is `<Definition>` with the fault its
comment names. No specification uses it: `PROJECT.json` pairs it with the
property that notices when it takes the definition's place.

### How the models divide the kernel

The kernel is modelled in layers. Each layer takes from the one below what that
layer's run (or proof) establishes:

* `KmtSpinlock` knows no rings: its scheduler picks any task of the CPU. It
  shows that code under `locks[c]` runs with interrupts of CPU `c` off and that
  the lock excludes.
* `KmtSched` therefore writes code under `locks[c]` as steps of CPU `c` that no
  trap on `c` interrupts, but that the other CPUs interleave with, since
  `locks[c]` is never taken by them.
* `KmtSem` runs with interrupts on, so preemption is a step of its own. The
  whole of `os_trap` is one step: it touches only its CPU's ring, and the ring
  does not change once the threads are made.
* `Pmm` gives each CPU at most one call in progress, because `safe_kalloc` and
  `safe_kfree` turn interrupts off. The CPUs interleave at each access.
* `ProcMem` makes each handler one step, because processes live on one CPU and
  the handlers hold its lock with interrupts off. Its page table is a function;
  `X86Vme` shows that the tree of tables implements one.
* `Console` uses the counter that `KmtSem` is shown to implement for every
  semaphore, and makes a critical section under a spin lock one step, as
  `KmtSpinlock` allows. The lock of a terminal is a semaphore, so `tty_write`,
  which takes it twice, is several steps, and what touches a terminal without
  its lock (`tty_mark_all`, the blinking cursor) is a step between them.
* `X86Trap` is below all: it justifies that a context saved is the context
  resumed, which `KmtSched` and `KmtSpinlock` take from it.

### State and code, module by module

**KmtSpinlock.** `flag`, `nest`, `intenb`, `ienabled`, `curTask` are the
variables of the code and the interrupt flag of each CPU. `pc`, `depth`, `lk`,
`i` describe the calls in progress of an *agent*: a task, or the trap handler of
a CPU. `stage` and `inKernel` are the progress of a handler, `rflags` the flag
in a saved context. `SpinLock` .. `SlXchg` and `SuNest` .. `SuIset` are the
statements of the two functions in order; a failed exchange changes nothing and
is left out. `Trap` may come between any two statements while interrupts are
on. `SpinLockAgain` is the nesting that the code has: `fork` holds `locks[cpu]`
when it calls `ucreate`, on the same lock. Tasks take their own CPU's lock or
one that is no CPU's (`in->lock`); the handler takes `locks[cpu]` only.

**KmtSched.** `next` and `prev` are written one pointer at a time, in the order
of the code (`KNext`, `KPrev`, `KLink`, `KBack`; `UCreate`, `UBack`, `ULink`).
`context[t]` is the stack of saved contexts, each reduced to where it resumes:
in the task's own code, in the loop of `sleep`, or behind the `yield` of `exit`.
`Trap` pushes, `Switch` pops. `Advance` is one round of the `do`-`while`.
`home` is a history variable: the ring a task was linked into.
`RuntimeCreate` says whether `kcreate` is called after `mpe_init`, as the calls
that are commented out in `os_run` would; only the run `sched_runtime` sets it.

**Pmm.** Addresses are numbers. The heap is scaled (two small classes, regions
of 4 and 16 units), but the region bounds, the rounding, the choice of a class
by size and by address, and every comparison are those of the code.
`allocated` is the set of live blocks as callers see them, from the return of
`alloc` to the call of `free`. A call that has done its work rests in `a_done`
or `f_done` until it has given up its lock.

**KmtSem.** A thread's `pc` is its place in `P(..); printf; V(..)` with the
statements of `sem_wait` and `sem_signal` written out; `v` is the value it has
loaded between the read and the write of `value++` or `value--`. `depth` counts
the parentheses printed.

**ProcMem.** `maps` is `va[]`, `pa[]` and `np`; `table` is the page table;
`memory` the contents of the heap's pages. `PageZero` is the page at address 0,
which is what is mapped when `alloc` has failed.

**Console.** `kbd` is what the keyboard controller holds; `in` is `input_t`
with its ring; `tty[t]` is `tty_t` (grid, cursor, dirty marks, the cook queue
`q`, the semaphores `cooked` and `lock`); `write[w]` is the `tty_write` or
`tty_render` that task `w` is in. `pressed`, `got`, `cooked` and `lines` are
histories, by which the properties compare what was typed with what was read.
`lost` records that a redraw mark was wiped by another task's render: the code
does that (`dev_tty.c:115`), and `ScreenShowsTerminal` says that nothing else
makes the screen differ from the terminal. `Fresh` is what a new cook buffer
holds; the code relies on zeros there, which the machine's memory has at the
start (section 5, **Lines**). The grid is scrolled with the `memmove`
of `klib`, as `KlibString` has it: rows that overlap are copied from the wrong
end (`string.c` 91-103), so that what is scrolled up is the last rows over and
over. The screen shows the grid all the same, which is what the property says.

**SdDev, RtcTimer, Gpu.** `op` is the call in progress with the place in its
loop, `regs` the command block of the drive; `flat` is the disk as its callers
see it. A clock tick may come between any two register reads. A canvas tree is
a record; drawing it is a fold, compared with `Shown`, what a reader of the tree
sees at one pixel.

**BootLoader, X86Smp, ThreadOs.** The byte at place `x` of the image is `x`, so a
segment in the wrong place shows. `jmp_code` and `is_ap` are the boot record,
`ipi` the interrupts under way, which arrive in any order and at any later time.
Two processors that call `halt` at once stop each other before the power goes
off: the machine then stands still instead of going off. In `ThreadOs` a
processor whose number is above every task's searches for ever (`"search"`).

**X86Trap.** `words` is the memory of the kernel stacks, `reg` the registers.
`trap` pushes what the processor and `trap32.S` push, `irq_handle` is
`__am_irq_handle` with any switch the kernel may make, `iret` is `__am_iret`
with its loop that moves six words of the frame. `own` is what each thread left.
A context made by `kcontext` has `cr3` 0, so a kernel thread runs in the page
directory of whatever ran before; the property leaves `cr3` of kernel threads
out.

**X86Vme, NativeVme.** A table is a function of its indices and a walk
(`ptwalk`) takes the tables and the pages left one level down at a time. A walk
that finds no page left panics, which stops the machine: the action then sets
`vmePanicked` and leaves the tables alone, as nothing reads them any more. On the host `host[c]` is what `mmap`
has put in place and `is_mapped` the code's record of it. Mapping an address
twice makes the list of `native/vme.c` a cycle and `unprotect` there does
nothing; the model maps an address once, as the kernel does.

**Klib, Int64.** The functions keep no state: a behaviour is one call, and the
property a reference definition of its result. The memory of `Klib` is the
caller's with one byte behind it, so that what is written past the end of a
buffer shows. `Order` compares bytes as the `char` of this machine does, signed.
Printed numbers are sequences of character codes: a digit of ten or more is the
character that the code makes of it, `'0'` and the digit added. `Int64` has words of four bits,
so that every case of the division is reached by small numbers.

**Libco.** `current` and the stack that executes are separate variables, since
`co_yield` sets the first without always changing the second. `context` is what
`setjmp` saved. When a frame is resumed a second time its local variables may be
as they are in memory or as they were in registers, so `Resume` has both
outcomes. `ran` is a history variable that counts the iterations that were
really executed.

**FatTree, FatRecover.** A disk is a function of its 32 byte units, built by
`DiskOf` from a file system; `stack` holds the calls of `dfs`. `frecov` has no
allocation table: the scan takes a cluster for a directory by how many of its
entries look like one, and the walk of it looks one entry past its end. What it
finds it appends to a file in `/tmp`, so `before` is what lay there and `tmp`
what lies there now, and two files of one name end in one. A name that
`filename` has no room for ends the model in `"crash"`, as nothing can be said
of what the program does from there. The fields `attr`, `part` and `byte` of a unit
are what each reader makes of its 32 bytes.

**Pstree, Crepl, Snake.** In `Pstree` processes start others and end between any
two steps, and the children of one that ends pass to process 1. `/proc` lists
processes by their numbers, so one born with a number already passed is not
found. Opening a stat file (`OpenStat`) and reading it (`ReadStat`) are two
steps: of a process that ends before the first the run aborts, of one that ends
between them the file is empty, and the record has no name and the parent 0. In
`Crepl` a process that forks waits, so the
processes are a stack. Each `fork`, each `execve` and each compiler may fail
where the one before did not: a child whose `execve` fails is one more loop on
the stack, with its parent's counter and buffer, and a compiler that is killed
leaves the status 0 behind. The libraries in `/tmp` are those of earlier
sessions too (`OldLibs`), under the same names. A library without the wrapper that
an expression needs ends the process. In
`Snake` the screen is the set of white pixels, and those beside it are kept.

## 3. Runs

| run | instance | what it shows |
|---|---|---|
| `spinlock` | 2 CPUs, 4 tasks, 3 locks, nesting 2, `FairSpec` | the four safety properties, `ImplementsRecursiveLock`, `LockReleased` |
| `sched` | 2 CPUs, 2 kernel threads, 3 processes | rings, contexts, families; `ImplementsRunQueue` |
| `sched_live` | the same, `FairSpec` | `EveryTaskRuns` |
| `sched_runtime` | the same, with `kcreate` after start | **violation**: a task drops out of a ring |
| `pmm_huge` | two huge sizes | **violation**: overlapping blocks |
| `pmm_free` | pages freed | **violation**: `assert(id != -1)` |
| `sem` | 2 producers, 2 consumers, 2 CPUs, capacity 2 | `Balanced`, `ImplementsSemaphore` |
| `sem_live` | 1 producer, 2 consumers, 1 CPU, `FairSpec` | `KeepsPrinting` |
| `libco_wrapper` | 3 coroutines in the ring | **violation**: `wrapper` returns |
| `procmem` | 3 processes, 3 pages, 4 frames, arrays of length 2 | `ImplementsPrivateMemory`, `MemoryAccounted`, also when memory or the arrays run out |
| `console` | 2 terminals of 3 by 2 cells, one program, one reader, four scripts of keys, ring of 3, cook buffer of 4, `FairSpec` | `LinesAsTyped`, `ScreenShowsTerminal`, `AllServed` |
| `parts` | one instance of each part below | a property of each part |

The parts of the repository that share no state are checked in one run, `parts`.
The variable `part` names the part a behaviour is of; the variables of the other
parts keep their initial values, so the states of the run are the disjoint union
of the states of the parts. A property of a proved part is the very definition
its theorem names, and is checked in all states, those in which its part is at
rest included; a property of `MCParts` is that of its module while its part
runs. Assigning a subset to `Checked` in `MCParts.cfg` checks some parts
only.

| part | instance | property |
|---|---|---|
| `pmm` | 2 CPUs, a small, a page and a huge size, heap of two huge blocks | `Conserved`, `ImplementsHeap`, with every kind of block running out |
| `disk` | 6 bytes in 3 blocks, 2 calls of up to 3 bytes anywhere, ATA, image, image cut off | `FlatDisk` |
| `clock` | 12 seconds to the minute, 2 minutes to the hour, started just before the end of either | `RtcSound` |
| `display` | 3 by 2 pixels, rectangles over two edges, four trees of canvases, one too large | `DrawsPicture` |
| `boot` | 3 programs of one to three segments | `LoadsProgram` |
| `smp` | 3 processors, any of which halts at any time | `StartsOnce` |
| `threads` | 3 processors with 2 and with 4 tasks | `ThreadsSound` |
| `cte` | 2 kernel threads, 1 user thread | `ContextsIntact` |
| `vme` | 2 levels of 2 entries, 5 pages, 2 spaces, 2 frames | `SpacesSound`, also when pages run out |
| `nativevme` | 2 processors, 2 spaces, 2 pages | `HostShowsSpace` |
| `klib` | 5 bytes of memory and the one behind, values 0, 1, 2 and 200, 6 numbers, `%d` and `%x` in widths up to 3 | `KlibSound` |
| `int64` | words of 4 bits, 16 operands at the edges | `ArithmeticExact` |
| `libco` | 3 coroutines, at most 2 in the ring, up to 3 iterations | `CoroutinesSound`, `Terminates` |
| `fatree`, `frecov` | seven file systems of up to five nodes; for `frecov` an empty `/tmp` and one with a file | `ListsTree`, `RecoversFiles` |
| `pstree` | 3 processes in two families, 2 more that start at any time, all of which end at any time | `TreePrinted` |
| `crepl` | every script of 3 lines out of 8, an empty `/tmp` and one with two libraries; every `fork`, `execve` and compiler may fail | `AnswersLine` |
| `game` | 4 by 3 tiles, length 2, 7 frames of any keys | `SnakeIntact` |

### Bounds, and why they are enough

* *Two CPUs.* Locks, lists and rings are shared by pairs: a third CPU adds a
  third contender and no new way to conflict. For the spin locks and the
  semaphores the proofs hold for any number. `smp` and `threads` have three,
  since one processor starts a second while a third already runs; the proofs
  cover any number there too.
* *`MaxNest` = 2* is what the code nests. `KmtSpinlockProofs` has any bound.
* *Tasks.* In `spinlock` each CPU has its idle task, one that locks, and the trap
  handler, which locks too: three flows of control that share `nest[c]`. The
  theorems cover any number. `KmtSched` has two
  kernel threads (one per CPU by `cpurec`), and three processes: a parent that
  forks twice, or a chain. The theorems about its contexts, rings, run queues
  and families cover any number of CPUs, threads and processes; its liveness
  rests on this instance.
* *Heap.* Every list has from one to four blocks, so it is empty, has one block
  and has several; the first page lies on the boundary of its region, as it
  does when `PAGESTART` is page aligned. `HugeBound` bounds `hbound`, which in
  the code only grows; it lies above the end of the heap, so requests that no
  longer fit are included. `PmmProofs` has any heap, any requests and any
  number of callers.
* *Capacity 1 and 2, two of each kind.* Threads wait on both sides, a signal
  meets zero, one and two waiters.
* *ProcMem.* Four frames let a process with both its pages fork once and fail
  the second time. A page more than the arrays hold ends in the panic of
  `pgmap`. `MaxPages` stands for 64. Frames and values are interchangeable
  (nothing orders or names them), which is what makes the symmetry sound; the
  properties checked with it are invariants and a safety refinement.
* *Console.* The ring holds two events and the queue three characters, so both
  fill, wrap and panic; the scripts type two lines, erase across the wrap, at
  the start and right behind a complete line, change the terminal while a program writes, and use every modifier.
  A screen of three lines scrolls. `IrqCap` = 1 is the worst case for waking up:
  with more interrupts pending the input task only looks more often. `MaxTicks`
  bounds the ticks, which carry no character.
* *disk, vme, boot, klib, fat.* Ranges begin and end inside, at and over a block,
  a sector, a cluster or a table; the pool of pages is one short of what two full
  spaces need. Two calls on the disk let one undo what the other did.
* *int64.* The cases of `__udivmoddi4` compare words and shifts, and the operands
  take each: zero and nonzero halves, powers of two, equal leading zeros, shifts
  by 0, by one less than a word and by a word.
* *libco.* Two coroutines in the ring with main make every neighbourhood (next
  is main, next is another, next is oneself); `MaxIterations` = 3 lets one
  finish first, last, or together. Programs with three at once fail as
  `libco_wrapper` shows, so the passing part stops at two.
* *klib.* 200 stands in one place of the strings and 2 in another, so that bytes on
  either side of 128 are compared with each other and with NUL; the numbers have
  no digit, one and several, with and without letters in base 16.
* *frecov.* `NameRoom` = 4 stands for the 114 bytes of `filename`; one file
  system has a name longer than that, one has two files of one name in two
  directories, and the old file has that name too.
* *crepl, pstree, game.* Three lines let one line fail between two that compile,
  and let a child that could not start the compiler take the second and hand
  back to its parent for the third;
  the families have a child born before its parent, and the two numbers given out
  later lie between those in use, so one born is found or passed by, depending on
  when; the options are varied in one family only, without births; the board lets the snake turn
  twice within its length and reach every wall.

`CHECK_DEADLOCK FALSE` is set only where the program may stop: a panic
(`Pmm`, `ProcMem`, `Console`), the end of the program or of the keys typed
(`Console`, `parts`), all memory handed out.

### Fairness

* `KmtSpinlock!FairSpec`: a CPU executes the statement it is at, and a handler
  goes on to schedule. Nothing obliges a task to lock or sleep. The exchange has
  weak fairness only; `LockReleased` does not need a CPU to win a race it may
  lose for ever: `locks[c]` is contended by no other CPU.
* `KmtSched!FairSpec`: `main` reaches `mpe_init`; a CPU goes on. `Trap` of a
  running task is part of "goes on", because the timer ticks in user code and
  `os_run` yields. A sleep need not end (`SleepDone` is not fair by itself).
* `KmtSem!FairSpec`: timers tick, and a thread that is switched in again and
  again completes its next statement (strong fairness of `Working`, since every
  slice switches it off again); a lock that is free whenever the thread runs is
  obtained. On one CPU this is justified: the lock
  is held only while its holder is switched out, and no one else can race. On
  several CPUs `atomic_xchg` promises nothing of the kind, so `KeepsPrinting` is
  claimed for one CPU only.
* `Console!FairSpec`: the timer interrupt comes again and again, and each task
  that can go on does (what `EveryTaskRuns` and `KeepsPrinting` give). Nothing
  obliges the user to type or a program to write.
* `parts`: only `libco` runs on, because there is one thread of control and it
  goes on. Nothing else is assumed fair.

## 4. Where the code and its documents disagree

1. `kcreate` after `mpe_init` (commented out in `os_run`) links a task into the
   ring of another CPU under `glock` and the *caller's* `locks[cpu]`, while the
   scheduler and `ucreate` of that CPU hold another lock. `sched_runtime` ends
   with a created task that is in no ring.
2. `hugealloc` rounds the address up and moves `hbound` by the size only, so a
   large block after a smaller one overlaps what comes next. The allocator's own
   test (`kernel/test/test.c`, `Judge`) states the opposite. `pmm_huge`.
3. `sfree` tests `ptr <= PAGESTART`; the first page is at `PAGESTART` and
   belongs to no small class, so the assertion fails. `pmm_free`.
4. A coroutine that finishes just before a dead one in the ring returns from
   `wrapper`, whose stack frame has no caller. `libco_wrapper`.

Each is a `findings` entry with the line that says otherwise. Where the code
does less than one would expect and nothing in the repository says otherwise,
the property names the exception and leaves it out: overlapping `memmove`, the
sign of `memcmp`, `strncpy` and `strncmp` past a terminator, the byte behind the
`n` of `strncpy`, the order of bytes from 128 on, negative numbers and those
that need letters in base 16, whose digits from ten on come out as `:` to `?`
(`Klib`); a redraw lost when the terminal changes (`Console`); the end of
a directory cluster, names with more than 15 parts or with no room, and that
files of one name are joined (`FatRecover`); the line after one that does not
compile, and a line whose child was killed or was another loop, which leaves the
status 0, so that the loop loads what lies in `/tmp` under the name (`Crepl`); names
with a `)`, more than 999 processes, and the processes cut off from process 1
because one above them started too late or ended between the opening and the
reading of its file (`Pstree`); a turn at the right or the lower wall,
which draws beside the screen (`Snake`); the last block of an image that is cut
off (`SdDev`).

## 5. Proofs

`KmtSpinlockProofs` and `KmtSemProofs` hold for every number of CPUs, tasks,
locks, every assignment of tasks to CPUs, every capacity, under the assumptions
`ModelAssumption` and `KmtSemAssumption` only; the theorems of
`PartsProofs` for every value of the constants of their modules, under the
assumption each module names (below), which TLC evaluates for the instance of
`parts`; `PmmProofs` and
`ProcMemProofs` for every heap, number of callers, processes, pages and frames,
under `PmmAssumption` and `PowersOfTwo` (the few facts about powers of two that
the proofs use, true of any numbers and evaluated for those of the runs) and
under `ProcMemAssumption`. The theorems about
`KmtSched` hold for every number of CPUs, kernel threads and processes, under
`SchedAssumption` (idle tasks, threads and processes are distinct, and there are
finitely many) and `RuntimeCreate = FALSE`: `kcreate` is called before
`mpe_init` only, as at this commit. `sched_runtime` shows that the rings need
the second.

**Spin locks.** `MutualExclusion` is not inductive: whether `spin_lock` goes for
the flag depends on `nest[c]`, a CPU's counter, while holding is a property of
an agent. `IInv` relates the two. For the agent that a CPU executes (`Running`),
`nest[c]` is what that agent's own calls have added, `ienabled[c]` follows from
its place, and `intenb[c]` is the flag of code outside critical sections. Every
other agent (`Suspended`) is outside, or just before `iset(false)` with the right
value in `i`: the one place inside `spin_lock` where a task can be switched out
by the timer. `SavedInv` says that saved contexts carry the flag of outside.
Each action preserves `IInv` (one lemma per action; `OneAgent` collects what is
common to actions that leave scheduling alone). From it: `TypeCorrect`,
`MutualExclusionHolds`, `HolderNotPreemptedHolds`, `SafeAssertsHold`,
`InterruptStateRestoredHolds`, and `Refinement` (every step is a step of
`RecursiveLock` or a stutter).

**Semaphores.** `IInv` is the type invariant, exclusion, `LoadedValue` (the
holder's `v` is still the semaphore's value when it writes) and `Accounting`: the
value of `empty1`, the producers holding a token, the parentheses open and the
consumers that have printed and not yet signalled add up to `Capacity`, and
likewise for `fill1`. The counts are cardinalities of sets of threads, so the
lemmas about them say what one thread's change of place does to a count.
`Balanced` follows, since counts are not negative. `Refinement` maps `value` to
the abstract counter and a thread's place to whether it holds a token.

**Scheduling.** `Switch` takes the last context of the task that the scheduler
has come to, so `ContextSaved` and `ExitNeverReturns` depend on the stacks of
all tasks it may come to. `IInv` of `KmtSchedProofs` has three layers for that.
`Rings`: following `next` from a task of a CPU's ring one stays in that ring; a
task being made points into the ring before it is in it (`Fresh`). `Suspended`:
a task that no CPU executes has saved the context of its own code, or that and
the `yield` of `sleep`, if it is `RUNNING`, and its own and the `yield` of
`exit` if it is a `ZOMBIE`. `Current`: the task that a CPU executes has nothing
saved while its own code runs, and its own context while the kernel serves it.
So `os_trap` finds a context for every task, and the one above which `exit`
would return is on the stack of zombies only, which the do-while skips.

**Rings.** `RingIntact` walks the ring, and a walk is hard to relate to the same
walk after a pointer has changed. `OneCycle` says the same without walking: a
nonempty set of tasks of a ring that `next` does not leave is the whole ring. An
insertion keeps that by a short argument (`RingGrows`: take the new task out of
such a set, and the rest is such a set of the ring before). `MutualLinks`, `prev`
the inverse of `next`, fails between the last two pointer writes, and not in the
same place for `kcreate`, which sets `next` first, and `ucreate`, which sets
`prev` first; `Adding` names for each the one task whose inverse is missing.
That the walk meets exactly the ring (`WalkMeetsRing`) follows: of as many steps
as there are tasks two end at the same task, and what is met up to there is a
set that `next` does not leave.

**Run queues.** `Refinement` maps the queue of a CPU, in `RunQueue` a sequence
that turns and grows, to the tasks one meets from `current` on. The link to the
walk is made once: a sequence without repetitions that follows `next` and comes
back, through all of the ring, is the walk (`QueueLists`, `ListsUnique`). After
that nothing walks: `do`-`while` turns such a sequence (`ListsRotate`), the last
write of an insertion puts the new task at its end (`ListsInsert`), and the
writes before it touch no task of the ring (`ListsSame`).

**Families.** The same for the lists of children, which end in a null pointer
instead of coming back: `List` says that a set of children with the first, that
`bros` leaves only at its end, is all of them. `Unborn`
says that the processes being made are different and have no parent yet. All
processes are on CPU 0 at this commit, where `main` makes the first; the proof
does not use that, and so covers CPUs that fork at the same time, too.

**Allocator.** `Conserved` walks the free lists and counts, so no step can be
argued on it. `IInv` of `PmmProofs` has ownership in its place. `ListOK`: a list
is a chain of different blocks that ends, and a block is on it exactly when it
is `InUse` by nobody, that is neither live nor in the hands of a CPU
(`Holds`). `Sole`: no two have the same block. `Local`: what a CPU has read
of a list under its lock is still so (`r` is the head it pops, `nxt` of the block
it pushes is the head), which needs `LocksExclude`. A pop drops the first of the
chain and a push puts one before it; all other steps leave chains alone
(`OthersKept`, `Quiet`). After a panic the machine has stopped and nothing is
claimed. `PtrClass` is arithmetic on regions: `kfree` finds from the address
the class that `kalloc` chose from the size. `ConservedHolds` then finds in the
chain the walk (`Walked`), and for each block one of the places it is counted in
(`Counted`).

`Refinement` of `Heap` has a hypothesis, `OneHugeSize`, because `hugealloc` does
not keep the promise without it. Of two sizes the pieces overlap, which the run
`pmm_huge` shows. And `hbound` is compared with the end of the heap, not the end
of the piece rounded up: with a huge region that does not begin at a multiple of
the size the last piece ends outside. (With `HeapStart` 28, one request of 5
and a region of 64 units TLC finds the piece 128 to 160 in a heap that ends at
132.) `PmmProofs` shows that these are the only two ways: small and page blocks
need no hypothesis, and huge pieces of one size from an aligned start are
disjoint multiples of it below `hbound` (`Pieces`).

**Memory of processes.** `MemoryAccounted` compares the set of frames recorded
for a page with the page table. It is not inductive: `fork` copies entry by
entry, and were a page recorded twice, the later entry would take the place of
the first in the child's table while the first frame stayed allocated. `IInv` of
`ProcMemProofs` has `RecordOf`: the entries are what the table shows, and a page
has one. That is why `Forked` can name the one entry behind each page of the
child. `Private`: a frame of a table is in no other place and not free, which
keeps a write of one process out of the memory of another. `Refinement` maps the
memory of a process to what its table shows it of the pages (`Sight`): a fault
is the first touch, which shows whatever the frame holds, `fork` copies the
sight, a write changes one value of one process. What `PrivateMemory` promises ends, in the model as in the code,
when `alloc` has returned 0 and page 0 has been mapped.

**Terminals.** `ScreenShowsTerminal` speaks of the cells that are not marked, so
it rests on every writer marking what it changes. `Marked` says that of one
`tty_putc` (`PutChar`, with the scroll of the whole grid and the arithmetic of
lines in `RowOf`), and `PutAll` of a text; both cover any grid and any
characters. The rest is who may touch what. `Locked` says that the lock of a
terminal excludes, though it is given back between the text and the drawing.
`Shown` follows one rendering: after the scan, what a task has in hand is all
that is dirty, and as the terminal has it (`InHand`); after the drawing every
cell of the screen is right (`Finished`), so the marks may go. Between the two
only the terminal task interferes, with marks and with the change of the
display: then the marks are lost, which the history variable `lost` records
and the property excepts, or nothing is being drawn there (`NotLost`). Steps
that change nothing of this are one lemma (`Quiet`); steps inside a terminal's
lock another (`AloneStep`). `Puts` and `CopyLoop` are functions defined by recursion on a
`CHOOSE`: that they exist is `Recursion`, what holds along them `UpTo`, both in
`LeastNumber`, both from the order of the naturals. The assumptions are
`TtyAssumption`, `InputAssumption` and `ConsoleAssumption`: sizes are positive,
texts are sequences of numbers, the terminal task is a writer and the only
consumer, and there are two terminals, as in `dev.c`.

**Lines.** `LinesAsTyped` compares what the readers got with an edit of all the
characters cooked so far, and the queue between them is a ring of bytes in
which only terminators tell where a line ends. The invariant `LinesOK` gives
that place: `Stored` says that there are offsets, counted from `front`, at which
the complete lines not yet read lie one after the other, each with its NUL, then
the line being typed. A step of a program, of a reader and of `tty_cook` then is
one of four changes of the ring: a character is put (`Putting`), a line ended
(`Ending`), a character erased (`Erasing`), the first line taken (`Reading`,
where the search for the NUL finds the end of that line and not of another).
Each is proved for any size and any place of `front`, so also where the line
wraps. `EditedOn` says that one more character is one more step of the edit.
That lines, tokens and waiting readers add up is `Tally`. The panics need the
other ring: `RingOK` says that every event of `in` has its token, given out,
about to be, or taken, so nobody who has one finds the ring empty.

The theorem supposes `Fresh = NUL`, and the code needs it: `tty_pop_back`
(`dev_tty.c:26`) erases backwards as far as the byte before `rear` is not 0, and
in a new queue those bytes were never written, as `tty_init` takes the buffer
from `pmm->alloc` and does not clear it. With `Fresh = 7` and the buffer of 4 of
the run, three BACKSPACE and a RETURN as the first keys give the reader a line
that begins with 7, which TLC shows when they are added to `MCScript`.

**Start of the processors.** `StartsOnce` counts entries into the program, while
what decides on the next one is the interrupt on its way and what the boot
record will hold when it arrives. `ThreadInv` therefore says, for each content of the
record, what may be under way. With none yet (`BeforeReady`) nothing has happened.
With the jump to the loader (`Starting`) those not yet started are new, and an
interrupt is for the one the first processor waits for, so it cannot hit a
processor that runs. With the stop, anything may be on its way, as no processor
gets past the record again. One that fetched the jump before the record changed
is the one waited for and has not reported (`Booting`): that is why the
first processor cannot start the next one behind it. `FirstBoot` and `SetUp` are
what the first processor has done and who is in `inited`. One lemma per action.

**thread-os.** An interrupt saves a task in its context and takes the next from
one, so `Place`, where a task is, moves between two variables. `OwnTasks` says
that processor `c` runs only tasks `t` with `t % ncpu = c`; so `PlaceOf(t)` needs
to look at one processor only, and changes at no interrupt. `OneInside` is then
the invariant of a lock. `SearchEnds` shows that the loop of `on_interrupt`,
`CHOOSE` of a first distance in the model, finds a task whenever the processor
has one; it rests on `Smallest` (the order of the naturals is well-founded)
and on `FullRound` (arithmetic modulo the number of tasks).

**Coroutines.** `RingInv` of `PartsProofs` says who is current and on whose
stack: main runs the others only from `co_wait`, and waits then for the last
of the ring; a coroutine is never `WAITING`; a context that may be resumed is on
its owner's stack. With that `RingIntactHolds` covers any number of coroutines
in the ring, and so does `MainIsCurrentAgain`: `co_wait` returns when the last of
the ring is dead, and it can only be seen so from main. That no iteration is
executed twice, and that `wrapper` does not return, is another matter: it needs
that the `next` of a coroutine that yields is not dead (`NextLives`), which is
true of two in the ring beside main, because the one main waits for lives, and
false of three. So `CoroutinesSoundHolds` has the hypothesis `MaxInRing <= 2`,
and `libco_wrapper` is the counterexample for 3. Of the test programs of the
repository `test_1` starts two and waits for both; `test_2` starts four, so of
it only the ring and `MainIsCurrentAgain` are proved.

**Disk.** `SdInv` says of the call in progress that what is before its place is
done (`InCall`), and of the one buffer what it holds at each place of the loop
(`BufferSo`): the block, then the block with the part of the data written over
it. What is new at each turn is arithmetic: the part of the range in one block
(`BlockPart`), and where the next one begins. `SdAssumption`: the size is a
multiple of the block size, and an address fits the four digits of the drive's
registers.

**Clock.** `Reading` says that a date being read was begun less than a minute
ago and has the seconds of then; equal seconds at the end mean the same second
(`SameSecond`), so no field is of another minute (`NotTorn`). For the frequency
two marks are compared in seconds of the hour; `RtcAssumption` says that starting
takes no more than an hour, and with more the estimate is in fact wrong, since
the hours are not read. If an hour ends between the marks the difference is not
positive (`HourLater`), and `estimate_freq` starts again.

**Loader.** `Current` says that the sector number and the target of
`copy_from_disk` are of the same place, though the first is rounded by a
division and the second by a mask; that holds only of segments that lie at the
same place of a sector in memory and in the file. It is in `BootAssumption`, with
the other thing the code takes for granted: that the whole sectors read for one
segment, and what is cleared behind it, leave alone those loaded before
(`Filled`). Linkers lay segments out so. `Ahead` says that the work left is the rest
of the plan, and what is `Placed` stays so (`OthersStay`).

**Address spaces on the host.** The list of a space is a chain of pointers;
`Pages` is what it leads to, the least set with the first page and the next of
each. `OnTheList` and `Closed` say that this is every page mapped and no other,
which an insertion at the head keeps; `Flagged` that `is_mapped` says whether the
space is on a processor, `Alone` that it is on one at most. From these
`__am_switch` takes out exactly what was in place.

**Address spaces of the x86 machine.** Following entries from table to table is
hard to relate to the same walk after one entry has changed. The invariant
`VmeInv` therefore says that there is a `tab`: the table on the way to each
address at each level of each space. `Shape` says that these form trees, that no
table is in two of them or in two places of one, and that together they are the
pages taken; `InMemory` that each entry is the pointer to the next table, or
absent if there is none, and that a first table has the kernel's own entries for
kernel addresses. A page taken from the allocator is then in no tree, so putting
it into one leaves all others alone; `PtWalk` says that of a whole walk,
however many tables it adds and also when it fails half way (`Keeps`: each
processor finds what it found before). `Joins` and `Leaves` are `protect` and
`unprotect`: the pages that `teardown` frees are those of the one tree
(`TearsDown`), since an entry shared with the kernel has no `PTE_U`. `Sees` and
`TablesFound` come back from `tab` to what follows entries, `Translate` and
`Tables`. `IdentityMaps` is the loop of `vme_init`, over the kernel addresses
in any order. `VmeAssumption`: two levels or more, a finite set of indices, in
the first table some of them for users and some not, and frames of tables that
are neither the null pointer nor an `AddrSpace` object.

**Contexts.** `TrapInv` says of every thread that does not run that at
`ctxOf` lies a context on its own stack, below what it has pushed, with the
registers it left (`ContextAt`); of the current one, between trap and return,
the same of the frame at `tf` (`Trapped`). The stacks lie apart
(`RegionsApart`), so what is stored for one thread leaves the others alone
(`OthersKept`). The return moves six words onto addresses two or more above
them, and `MovesUp` shows that in the order of `trap32.S` none is overwritten
before it is read. `TrapAssumption` asks for 23 words of stack: 20 for a frame
of kernel code and 3 for what a thread pushes. With 22 the invariant fails.

Leaves that take a prover more than a second name it with a longer limit
(`SMTT(60)`, `ZenonT(60)`); all others are proved in a fifth of the default time.

The properties of `runs` that a theorem covers are named under `theorems`. What
the proofs give for every instance is not run again: the types of both modules
and the exclusion of `KmtSem` are theorems only.

**Only model-checked.** Everything under fairness (`LockReleased`,
`EveryTaskRuns`, `KeepsPrinting`, `AllServed`, `Terminates`): TLAPS proves
neither `ENABLED` nor these. Everything about recursion over data other than the
walks of rings, lists and page tables above: directory trees, process trees and
canvases, which are defined by recursion and compared with reference definitions
by TLC. Of the runs' safety properties these are `DrawsPicture`, `KlibSound`,
`ArithmeticExact`, `ListsTree`, `RecoversFiles`, `TreePrinted`, `AnswersLine` and
`SnakeIntact`.

## 6. Not modelled, and why

* `kteardown`, `uteardown`, `wait`, `kill`, `mmap`: without callers, or stubs
  that return a constant.
* User code: `initcode` is never copied into a process, so the models let a
  process do anything a process can.
* The earlier allocator `kernel/pmm.c`, the tests and sketches
  (`kernel/test/`, `test.c` files), and `crepl/teste.c`, which is the
  preprocessed text of a test: not part of what is built. `sperf.c` is empty.
* Of the machine layer: the 64-bit trap entry (`KmtSpinlock` has its effect on
  the interrupt flag), descriptor tables, the search for the number of
  processors, the initialisation of the interrupt controllers, the serial port,
  `gpu_memcpy`; sound and network, which report that they are absent.
* Of the native machine: its start, signals and input, which rest on the
  semantics of the host's processes and signals; the nemu machine, where
  nothing in the repository runs.
* Of klib: `stdlib.c` (a bump allocator and parsers), and of `int64.c` the
  shifts, multiplications and trapping variants.
* Of `dev_video.c`: the font and the encoding of textures. Of `dev_input.c`:
  the mouse and the serial console, stubs in the code.
* One deadlock of two layers: `input_notify` signals from inside a trap while
  the interrupted task may hold the semaphore's lock. `Console` has atomic
  semaphores and cannot show it; the handler is never registered at this commit.
* Timing: no property depends on how long a slice or a sleep is.

## 7. Plan

Done: the spin locks and semaphores, scheduling, the allocator, process memory,
the processors, `thread-os`, the console, the disk, the clock, the loader,
contexts, page tables, the host's address spaces and libco, with their proofs; the
display, klib and the programs.

Next, in this order:

1. **Interrupts in semaphores.** `KmtSem` with a signal from a handler, for the
   deadlock named above, once the handler is registered.
2. **klib.** `stdlib.c`, and the rest of `int64.c`.
