# A TLA+ model of the unidos kernel

unidos is a small UNIX-like kernel for one 80386 CPU. This directory models its
boot loader and its process, memory and descriptor management in TLA+, checks the models with TLC on
small instances, and proves the main safety properties of the scheduler, of the
frame allocator, of user address spaces, of descriptors and of the access of system
calls to user memory with TLAPS for every instance.

Paths are relative to the repository (`src/kernel/sched.c` is written
`sched.c`). `PROJECT.json` maps every definition to the lines it translates.

## The system and its parts

| part | source | module | state |
| --- | --- | --- | --- |
| scheduler, process and thread slots, waitpid | `sched.c`, `sys/*.c`, tail of `kmain.c`, `syscall.c` | `Sched` | modelled |
| promise of fork/exit/waitpid | (abstract) | `ProcLife` | implemented by `Sched` |
| sleeping against the absolute clock | `pit.c`, `sched.c` | `SleepClock` | modelled |
| physical memory manager | `kmem.c` | `Pmm` | modelled |
| kernel page directory | `paging.c` | `Paging` | map and unmap |
| demand-paged pools, scratch page | `dpage.c`, `mm.c` | `KernelVm` (extends `Paging`) | modelled |
| user address spaces | `mm.c`, `vma.c`, `sys/exec.c`, fork path of `sched.c` | `Mm` | modelled |
| descriptors and open files | `io/fdpool.c`, `fdman.c`, `openfile.c`, `console.c` | `FdTable` | modelled; writing is in `UserIo` |
| first page directory, higher-half remap, region table, pools | `paging.c`, `kremap.c`, `kva.c`, `pool.c`, `dpage.c` | `KernelBoot` (extends `KernelVm` and `BootInfo`) | modelled |
| boot information | `bootinfo.c` | `BootInfo` | modelled |
| user memory access; write, execve's path, waitpid's status; block device arithmetic | `uaccess.c`, `sys/write.c`, `sys/exec.c`, `sys/wait.c`, `io/blkdev.c`, `io/openfile.c` | `UserIo` | modelled; the read side has no caller |
| boot loader | `boot/` | `BootLoader` (extends `BootInfo`) | modelled |
| exceptions, PIC, keyboard, panic, errno | `exception.c`, `pic.c`, `kb.c`, `panic.c`, `errno.c` | | not modelled: a halt, device set-up, text |
| kernel entry, early console | `prekinit/`, `asmcore/` | | not modelled: descriptor tables and text (the gate types and `enter_usermode` are used by `Sched`) |

How they interact. The timer interrupt and `int 0x81` are the only places where
threads switch. Every vector is an interrupt gate, so a system call runs to its
own `int 0x81` without interruption; kernel threads run with interrupts on and
can be preempted anywhere. `fork` takes a process slot, clones the
address space (`Mm`), takes a thread slot, links the thread and copies the
descriptors (`FdTable`), and undoes all of it when a step fails. Address spaces take frames from
the physical memory manager (`Pmm`) and slots from demand-paged pools
(`KernelVm`), which take frames in turn. Before any of that, the loader
(`BootLoader`) measures memory, loads the kernel and hands both over;
`KernelBoot` builds the page directory in which `KernelVm`'s pools then live.

## Modules

**Sched.** State: the fields of `process_t` and `thread_t` by slot, the globals of
`sched.c`, the loaded CR3, and where each thread stands (`pc`: ordinary code,
about to set `sched_pending`, about to execute `int 0x81`; `cont`: what follows).
One action per operation: `Tick`, `int81`, `sched_thread_yield`,
`sched_thread_sleep`, `sched_thread_exit`, `_fork`, `ForkUndone` (a fork that is
undone after it took a thread slot: only `next_tid` has moved), `_execve`, `_waitpid` with the passes of its loop (`WaitReap`,
`WaitNoChild`, `WaitBlock`), `KmainProcAlloc`, `KmainAddThread`, `enter_usermode`,
`AddSibling`. A user thread's system call is one step; a kernel thread's call is
split where interrupts are on again. Pids are slot numbers, as in the code.
`wake_tick` is kept relative to the clock. Slots start unused: the pool pages are
taken to hold zeros when the kernel starts, which `pool_init` does not ensure.
`AddSibling` stands for a kernel thread that calls `sched_add_thread` on its own
process. No code in the repository does that yet, so only the runs about
siblings enable it (`SIBLINGS`). `SELFTEST` starts from the state after
`start_waitpid_selftest`, whose call in `kmain.c` is commented out.

**ProcLife.** What fork, exit and waitpid promise: a process is freed only by its
creator and only after it has exited. `Sched` implements it under the mapping
`life <- Life`, `creator <- Creator`, where the creator of a process is the one whose child list
names it. Parent pointers play no part, because the code leaves them dangling
when a parent is reaped first.

**SleepClock.** The sleep queue with the deadline stored in `Width` bits.

**Pmm.** Region table, bitmap, counter and hint; `mem_init`'s reservations, the
bitmap's creation, the identity-window loop and then every allocator. Addresses
are counted in units of a fraction of a page, so regions start and end inside
frames. A window may run past the last frame: the bits left over in the last
byte of the bitmap (`Bits`) are set from the start, and those behind it belong to other
memory, so that the counter may or may not be decremented for them; a counter below zero
stands for the wrapped unsigned number. `grants` is a history variable: how often each frame is handed out.

**Paging, KernelVm.** Operators for `paging_map_page` and `paging_unmap_page` on a
record of the page structures, and the two users of the kernel directory. Slots
may lie across two pages. `ZEROED` says whether a frame that becomes a page table
happens to hold zeros; `paging.c` does not clear it.

**Mm.** An operation (boot, load, fork, exec) is begun, allocates step by step,
each step able to fail, and ends; nothing else runs meanwhile, as in the code.
The kernel's own frames are an initial choice: any number may be gone.

**FdTable.** Entry pool, descriptor lists, the console's open file with its count.
The pool may refuse an entry at any time.

**BootInfo, KernelBoot.** `BootInfo` is how the kernel turns one of the four memory
reports into a size; both sides of the handoff use it. `KernelBoot` goes through
the boot in order: the frames `pmm_init` keeps (low memory, image, bitmap, what the
firmware reserves; `reserved`), the rounds in which frames for the page tables are taken (`tables`,
with `pmm_reserve_pageframe_seq` as in `Pmm`), the first directory with identity map and physical window, image
and stack at their high addresses, teardown of the low map, demand pool, regions,
thread and process pools with their stacks, guard pages. A loop that can fail in
the middle is one step per iteration. From phase `run` on, the operations of
`KernelVm` go on beside directories that copy the kernel half (`dirs`). All
panics of this path end in phase `halt`. One demand pool stands for the five.

**UserIo.** One process with its page permissions and bytes, one open file, and
the system call in progress. Addresses wrap at `ADDR`; every pointer is tried. A
turn of `__write_copyin`'s loop is a step, and so is a byte of
`copyin_path_bounded`. A block address wraps at `MAX_OFFSET`, and base and span of a device are any two
offsets, as `blkdev_populate` checks neither. The block driver is external: it writes all of a request,
one block of it, fails, or has no write operation. `sink` and `touched` record what the target took and
which user bytes the kernel used.

**BootLoader.** Both stages, one action per loop turn or label. External: a BIOS
that fails reads when it likes, an 8042 that may stop answering, what firmware says
of memory, the disk. A byte is the place it has on the disk, so a byte from a
wrong sector is a wrong byte and the checksum matches when the bytes do. A sector
has 4 bytes, memory is counted in 64 KiB blocks, and 16-bit words are smaller in
proportion, so that carries and wraps happen.

**Lists** has `InsertAt` and `RemoveAt`, apart from the larger library module of
the same operators so that proofs load little.

**MCSched, MCPmm, MCMm, MCBoot, MCUserIo, MCLoader** give constants that a configuration cannot express.
A definition `M_X` is `X` with a mistake a programmer could make. No specification uses
one; each shows that a property notices the mistake.

## Runs

| run | configuration | shows |
| --- | --- | --- |
| `sched_user` | 4 processes, 4 threads, 4 spaces, all waitpid filters | run queue and wait lists exact, no lost wakeup, no panic, CR3 live, child lists a forest, threads have processes, `ProcLife` implemented |
| `sched_timer_live` | self-test processes, sleeps of 1 and 2 ticks | sleep queue exact; no ready thread starves; waitpid returns |
| `sched_siblings` | a process starts a second thread | live counts and thread lists survive exits in any order |
| `pmm` | 11 frames, narrow holes, 3 region slots | reserved frames stay marked, counter exact, no frame granted twice |
| `fd_table` | 4 processes, 8 entries for 3 per process | counts exact, entries owned once, inherited descriptors complete or absent |
| `mm` | 19 frames, 4 spaces, 7 vmas, 3 processes | no frame or slot leaks or has two owners, spaces agree with their vmas, no operation disturbs another space |
| `kernel_boot` | 12 machines, 3 to 64 frames, one with a reserved frame where the page tables go, 8 pages to a table | the image, the stack and the window stay mapped; frames are held once and none is lost; regions lie apart; every thread slot has its stack; every directory shares the kernel half |
| `user_io` | 32 addresses in pages of 4, chunks of 4 bytes, the console and seven disks | write puts a prefix of the buffer in place and reports it, block requests stay in the device's span, full buffers are written in full, paths and statuses arrive, the kernel touches only permitted bytes |
| `boot_loader` | 8 intact and 59 damaged disks, 13 machines | the kernel is entered only verified and with A20 on; an intact disk is refused only for read errors; memory is not overstated; parameters arrive whole, and none do when their chain is broken; every boot ends |

Three runs check what a comment in the source says and find that the code does
something else (`findings` in `PROJECT.json`):

| run | the comment | the code |
| --- | --- | --- |
| `pmm_window` | `kmem.c:581` "up to the first taken frame" | the window is cut at the last obstacle |
| `sleep_wrap` | `sched.c:513` "whose deadline has passed" | a 32-bit deadline wraps |
| `kernel_vm_straddle` | `dpage.c:89` "If we already mapped the first page" | a first page that was mapped before is unmapped too |

The passing runs of `Pmm` and `KernelBoot` stay clear of the disagreements: both
have obstacles of one frame each, for which scanning a window from the far end
makes no difference, and `kernel_boot` sets `ZEROED`. On one of `kernel_boot`'s machines the window
also reaches past the end of memory; the loop then finds no frame for the rest, and the boot halts.

Further configurations can be run by hand (`tlc -config X.cfg M`). `KernelVm.cfg`
(module `KernelVm`) passes: the pools alone, with slots on two pages, 7 frames.
The others end in a counterexample to a sentence of the repository:

| configuration | module | the sentence | the code |
| --- | --- | --- | --- |
| `SchedReap.cfg` | `MCSched` | `sched.c:882` "reap threads belonging to this process" | a thread that exited before its sibling is off the list and is never reaped |
| `PmmEnd.cfg` | `MCPmm` | `kmem.c:573` "we can only reserve up to the end of the bitmap" | a window two or more frames too long is cut by one frame only |
| `KernelBootHole.cfg` | `MCBoot` | `kmem.c:577` "we can only reserve up to the first reserved frame" | two reserved frames side by side: the first becomes a page table |
| `KernelVmDirty.cfg` | `KernelVm` | `mm.c:56` "guaranteed to be unmapped" | a new page table is not cleared |
| `KernelBootAlias.cfg` | `MCBoot` | `kremap.c:189` "removes all low-VA kernel aliases" | the identity map is rounded up to 4 MiB (`paging.c:52`), the teardown stops at the end of memory |
| `BootLoaderKparams.cfg` | `MCLoader` | `docs/boot-protocol.md:204` "On any kparams load/traversal failure, stage2 disables kparams and continues boot" | a read error in the parameters waits for a key and resets |
| `BootLoaderEmpty.cfg` | `MCLoader` | `docs/boot-protocol.md:206` "BOOTINFO mirrors the same pointer/length" | for an empty `KPARAMS.DAT`, ESI is 0 and bootinfo holds 0x700 |
| `BootLoaderE801.cfg` | `MCLoader` | `stage2.asm:238` "did we get a zero? some BIOSes report with CX/DX instead" | 1 MiB is added before the test, so it is never zero |

Read in passing, without a property: `docs/boot-protocol.md:32` says stage1
validates "magic/version", but only the magic is compared; the two CMOS words are added in 16
bits, so from 63 MiB on the sum wraps and less memory is used.

### Bounds and why they are enough

* `Sched`: idle, the first process and two forked ones give a parent, a child, a
  sibling and a grandchild, slot reuse and orphans. The fourth space is
  the one an exec builds while three user processes live. A cadence of 2 makes
  a tick with and one without a switch. No counter is unbounded.
* `Pmm`: 11 frames hold low memory, kernel, bitmap, four holes and the window; three
  region slots fill up.
* `KernelVm`: three units per slot and four per page make both kinds of slot.
  Frames run out at each allocation.
* `Mm`: two regions, the second under two page tables. The real stack is one page;
  the longer one makes a clone and a mapping that need a second table. The
  initial number of kernel frames lets memory run out at each step.
* `SleepClock`: 3 bits for 32, 9 ticks.
* `KernelBoot`: memory of 3 frames up to 64, so that the boot stops at each
  stage (the frame bitmap among them), takes the tables in one round and in several, ends inside a page, doubles the pools, and reaches into the pool's
  addresses. 3 slots give both kinds of slot and a pool that grows into a second page.
* `UserIo`: two chunks and a rest; buffers and paths that end at, before and behind
  a page; the last user byte; block sizes that divide a chunk, equal it, exceed it
  and are no power of two; a disk whose second block is beyond the largest offset.
  `OFFSET_BOUND` caps the offset at which a write may start.
* `BootLoader`: up to three clusters for each file, the last one full or not; parameters that are
  empty, fill a cluster, have the greatest length, exceed it, or have a high word in their size; an E820
  map one entry longer than the table; every one of the five
  links rewired to every kind of FAT value; tracks of 5 sectors, so that files
  cross heads and cylinders; a retry limit of 3, as in the code.
* `FdTable`: 8 entries are enough for two processes with descriptors and refuse the third.

Deadlock is checked in the scheduler, user access and loader runs. Elsewhere the models are of
libraries that may exhaust their resources and stop (`CHECK_DEADLOCK FALSE`).

### Fairness

`FairSpec` has strong fairness of the timer: the PIC latches it while interrupts
are off, so a tick that is possible again and again is taken. It also has strong
fairness of each thread's `Continue` (finishing a yield or a pass of waitpid's
loop): at 1 kHz a thread that gets the CPU again and again executes instructions
between ticks. `BootLoader`'s `Spec` has weak fairness of its next-state relation:
one instruction stream with interrupts used only by the BIOS goes on while it can. No fairness makes a thread call anything, so nothing is assumed
about programs.

## Proofs

`ListLemmas` has facts about sequences, minima and filters.

### Scheduler

`SchedProofs` and `SchedTheorems` prove for every number of slots, every
cadence and every choice of `SELFTEST`, `SIBLINGS`, `Sleeps` and `Waits` allowed by
`SizesAssumption`:

| theorem | property |
| --- | --- |
| `TypeCorrect` | `TypeOK` |
| `RunQueueExact` | `RunqExact` |
| `OneRunning` | `RunningIsCurrent` |
| `WaitQueuesExact` | `WaitersExact` |
| `NeverPanics` | `NoPanic` |
| `LoadedSpaceIsLive` | `LoadedSpaceLive` |
| `SpacesNeverLeak` | `SpacesOwned` |
| `ChildrenFormForest` | `ChildListsForest` |
| `ImplementsLife` | `ImplementsProcLife` |
| `ExitedForEver` | `ExitIsFinal` |
| `NoWakeupLost`, for `SIBLINGS = {}` | `NoLostWakeup` |
| `ThreadsNeverLeak`, for `SIBLINGS = {}` | `ThreadsHaveProcess` |
| `SleepQueueExact` | `SleepqExact` |
| `LiveThreadsCounted` | `LiveCountExact` |

None of them is inductive alone. That exit does not panic needs the thread to
be on the list of its process; that reaping does not free the loaded space needs the reaped process not
to be the current one, hence that children are in use, differ from their parent and have an
address space iff the parent has one; that kmain's process can take its first
thread needs that nobody else touched it. `IInv` adds these: `ListsInv` (threads and
their processes), `CpuInv` (a current thread that stopped running really leaves),
`KinInv` (children), `SpaceInv` (spaces and ring 3 threads), `BootInv` (kmain).
`SchedProofs` shows `Init => IInv` and that every step keeps it: first the steps that only
move threads between RUNNABLE, RUNNING and SLEEPING, then the creation of threads and
processes, blocking and exit, fork and exec, reaping. `SchedTheorems` draws the conclusions.

That `Sched` implements `ProcLife`: `KinInv` makes the list naming
a child unique, so that `Creator` is the process whose list names it; then a fork maps to
`Create`, the exit of a last thread to `Exit`, a reap to `Reap`, and every other step
to a stutter. `ExitedForEver` is an action property: no step makes a zombie thread
anything but free, and that only while another thread is current.

The two theorems about wakeups need one thread per process, which is what the kernel's callers of
`sched_add_thread` make (`SIBLINGS = {}`). `OneThread` then holds for ever, so the
thread that `wake_parent_waiter` takes off the parent's wait list is the one waiting for the
child that exits, and a reaper has no sibling left blocked on what it reaps. `AllListed`
says that exited threads stay on the list of their process, where the reaper finds them.
With siblings both theorems are false: one of two waiters stays blocked beside a zombie
until the other reaps it, and `SchedReap.cfg` shows the thread that is never reaped.

The sleep queue is sorted by deadline, and a thread is inserted before the first one
that sleeps longer. `SleepQueueExact` needs that ticks take threads only from the front
(`DropOrder` of `ListLemmas`) and that a sleeping thread is not on the queue twice.
For `LiveThreadsCounted`, the threads of a live process that have not exited are those on
its list, once each (`ListsInv`), so their number is the length of the list; `Counts` adds
which thread heads the list, and that a zombie has kept one thread there.

### Frame allocator

`PmmProofs` proves, for every memory size and firmware map allowed by
`MemoryAssumption`, `PmmTypeCorrect`, `ReservedFramesMarked`, `CounterExact`,
`RunsWithinBitmap`, `RegionsCoalesced` and `ReservedForEver`. Its invariant `PInv` adds that the region
table is finite and holds non-empty spans, and that the window loop still needs a
frame while it runs.

`CounterExact` (`AvailableExact`) is about the running kernel and, during the window loop, about
the states in which no window has run past the bitmap; for memory of every size, also where one does.
The argument is that of `RunsWithinBitmap`: up to the window loop nothing is granted beyond the bitmap
and the hint is below every free frame. A window that runs past the end starts at the lowest free
frame and covers all that follow, so none is left (`WithinBitmap \/ Unset = {}`), while the cut
before its highest frame leaves the loop at least one frame short: the next round fails and the boot halts.

### User address spaces

`MmProofs` (the invariant and the steps of allocation, cloning and destruction) and
`MmTheorems` (the steps of mapping, the whole next-state relation, the conclusions) prove for
every number of frames, slots, processes and pages and every layout of disjoint regions
(`LayoutAssumption`):

| theorem | property |
| --- | --- |
| `FramesNeverLost` | `FramesAccounted` |
| `SlotsNeverLost` | `SlotsAccounted` |
| `VmasDescribeSpaces` | `SpacesDescribed` |
| `SpacesStayApart` | `SpacesIsolated` |

The properties count frames and slots. The invariant `MmInv` says the same without counting:
`held` gives the frame at each `Place` (the directory of a space, one of its tables, one of its
pages), and `FramesInv` says that no frame is in two places and that those in none are the free
ones and the kernel's. `SpacesInv` has what holds of a single space, `OwnersInv` who has which
space, `VmasInv` which list a vma is on, `OpInv` what the operation under way works on. An
operation that fails in the middle must find a space it can take apart, so `DescInv` says what the
vmas describe at each stage: `UserDesc` for a finished space, `FreshDesc` for a new one, `MapDesc`
for one that is being mapped (the pages up to the next one of the current region),
`CloneDesc` for a clone (a part of the original, list and pages). `SpacesStayApart` is an action
property: `StepTouches` says which one space a step writes to, and `MmInv` that this is not the
space of another user process.

### Descriptors

`FdProofs` proves for every size of the pool (`FdAssumption`) `ReferencesCounted`
(`RefcountExact`), `EntriesOwned` (`EntriesOwnedOnce`) and `DescriptorsKept`
(`DescriptorsInherited`). The invariant `FdInv` adds `FdOwned`: an entry is used iff it is on
a list, on one list and once, and only live processes have entries. With it a fork
that is undone gives back exactly the references it took.

### User memory

`UserIoProofs` proves for every size of the address space, of a page, of the copy buffer, of the
longest path and of a status, and every image and target allowed by `UserIoAssumption`:

| theorem | property |
| --- | --- |
| `CopiesInside` | `CopiesStayInside` |
| `WritePrefix` | `WriteIsPrefix` |
| `BlocksWithinSpan` | `BlocksInSpan` |
| `ConsoleWritesComplete` | `WritesComplete` |
| `PathIsCallers` | `PathCopied` |
| `StatusReachesCaller` | `StatusDelivered` |

`UserIoInvariant` is the invariant `UInv` behind them. `LoopInv` is the loop invariant of
`__write_copyin`: the buffer ends in the user half (so no address of it wraps), and the target
holds the first `done` bytes of it, from the place the offset had at the start; `ResultInv` is what
is left of it when the call returns. `PathInv` is that of `copyin_path_bounded`: the bytes so far are
readable, those of the caller and, until the copy ends, not NUL. `RefusedInv` says that a refused path has no
NUL that could be reached. `UserIoAssumption` has what the arithmetic needs: pages divide the address
space, the kernel half is mapped for the kernel only, a process maps less than half
of its addresses, and a write starts so far below the largest offset that `of->offset` cannot wrap
(64 bits in the code). Base and span of a device are any offsets: that no block address wraps is proved,
from the check that returns `-EOVERFLOW`.

### What the proofs take from the library

Two facts cannot be derived by the solvers: a non-empty set of numbers has a least element, and what
`Cardinality` is of a finite set with one more element. The lemmas about steps assume
them as formulas (`WellOrdered`, `Counting`, `Known`, `Sized`, `Fits`), and the theorems discharge these from
`WellFoundedInduction` and `FiniteSetTheorems`. For that reason a proof module instantiates the two library modules in the
middle, just before the lemmas that cite them: what is in scope of a lemma is part of each of its proof obligations.

### What is proved and what is only checked

What is proved for every instance is not always also checked by a run: the type
invariants, `RunningIsCurrent`, `SpacesOwned`, `ExitIsFinal`, `RegionsSeparate` and
`ReservationsPermanent` rest on their proofs, and so does `WithinBitmap` of a running kernel.

Only model-checked:

* liveness (`ReadyThreadsRun`, `WaitReturns`, `BootEnds`), which is out of the prover's reach;
* `FramesExclusive`, which depends on the holes: wide ones violate it (`pmm_window`);
* `KernelBoot` and `KernelVm`: their invariants hold for machines on which the windows, pools and
  image do not meet, which the runs give by a list of machines; no proof has been attempted;
* `BootLoader`: that the loader copies the right bytes (`IntactDiskBoots`, `KparamsFaithful`) is an
  induction over the cluster chain of the disk, which needs the induction theorems that no installed
  prover can instantiate; `HandoffContract` and `MemoryNotOverstated` have not been attempted.

## Not modelled

* Register frames, names, messages, the text on the screen: no property depends on them.
* The TLB: `paging.c` flushes after each change, and one CPU runs.
* Exceptions, PIC, keyboard, panic and errno: handlers that halt, device set-up and tables.
* Kernel entry and the early console: descriptor tables and text output.
* The read side of files, block devices and pipes, `open_file_read` among them: no code calls it.
* Block drivers: there is none in the repository; `UserIo` has an external one.

`hazards` in `PROJECT.json` lists what can go wrong where,
with the properties that would notice and, where none does, why.
