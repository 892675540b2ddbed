# TLA+ models of the advanced-operating-systems kernels

The repository holds four assignments of an operating-systems course, each a
copy of the teaching kernel xv6 for RISC-V with something added: a secure boot
loader (assignment 1), demand paging, page swapping and copy-on-write fork
(assignment 2), a user-level threading library (assignment 3) and a
trap-and-emulate virtual machine monitor (assignment 4). The kernels of
assignments 2, 3 and 4 are near copies of each other; the modules here model the
copy of assignment 2 (`src/assignment2/src/xv6-riscv/kernel`, below `kernel/`),
the library of assignment 3 (`src/assignment3/src/xv6-riscv/user/ulthread.c`)
and the monitor of assignment 4
(`src/assignment4/src/xv6-riscv/kernel/trap-and-emulate.c`).

## 1. Inventory

| Part | State | Operations | Hard behaviour | What makes it correct |
|---|---|---|---|---|
| File system log, `kernel/log.c` | `log.outstanding`, `log.committing`, the header in memory and on disk, log slots, pins of buffers | `begin_op`, `log_write`, `end_op`, `commit`, `recover_from_log` | power failure between any two disk writes, also during recovery; several system calls in one transaction; commit without a lock; sleeping for space | all or nothing after a crash; nobody writes during a commit; the reserved space is enough; sleepers are woken |
| Processes, `kernel/proc.c`, `spinlock.c` | process table, `wait_lock` and a lock per process, `c->proc` of each CPU, kernel contexts | `fork`, `exit`, `wait`, `sleep`, `wakeup`, `kill`, `yield`, `sched`, `scheduler` | every interleaving of several CPUs; locks handed over in `swtch`; lost wakeups; orphans | one CPU per kernel stack; no missed zombie; `sched`'s assertions; everybody is reaped |
| Heap paging and swapping, `kernel/pfault.c`, `proc.c`, `exec.c` | `heap_tracker`, `resident_heap_pages`, `p->sz`, the page table, `psa_tracker`, the swap area (PSA) on disk | page fault, eviction, retrieval, `sbrk`, `exec`, `exit` | the fault handler sleeps for the disk with shared tables half changed; no lock | pages keep their contents; no block has two owners or none; the resident limit; FIFO; a fault is resolved |
| User-level threads, `user/ulthread.c` | thread table, `thread_count`, `current_thread`, `last_yielded_thread`, time stamps | `ulthread_init`, `_create`, `_schedule`, `_yield`, `_destroy` | long call sequences, slot and id reuse, equal time stamps | the scheduler picks what its algorithm says, never a dead thread; no starvation under round robin |
| Copy-on-write fork, `kernel/cow.c`, `vm.c`, `proc.c` | groups with a count and a list of shared frames, page tables with writable bits, the free frames | `fork(0)`, `fork(1)`, write fault, `exec`, `exit`, `wait` | frames shared by several processes and freed by one; groups outlive their processes | a frame is freed after its last user; nobody notices the sharing |
| Trap and emulate, assignment 4 `kernel/trap-and-emulate.c` | one global `vm_state`: mode, privileged registers, the saved page table; each guest's page table | `ecall`, `sret`, `mret`, `csrr`, `csrw`, faults, start and end of a guest | long sequences of privilege transitions; a page table that is swapped under the guest; state that outlives a guest | privilege is gained only through the guest's own vectors; a guest sees its own memory as its PMP says; the host goes on |
| Boot loader, assignment 1 `bootloader/` | kernel copies, measurement, PMP registers | load, measure, fall back to recovery, set PMP | sequential | an unmeasured kernel does not run |
| Buffer cache and sleep locks, `kernel/bio.c`, `sleeplock.c` | buffers, LRU list, reference counts, locks | `bread`, `bwrite`, `brelse`, `bpin`, `bunpin` | a buffer is found and locked in two steps; recycling | one buffer per block; no recycled buffer in use; a store of blocks |
| Virtio disk, `kernel/virtio_disk.c` | descriptors, two rings, requests in flight, `vdisk_lock` | submit, interrupt, completion | the device works while the handler reads the ring; wrapping indices; answers out of order | no request is lost or answered twice; sleepers have something to wait for |
| Pipes and the file table, `kernel/pipe.c`, `file.c`, `sysfile.c` | ring with free-running counters, two ends, reference counts of files, descriptors | `pipe`, `dup`, `fork`, read, write, close, exit, kill | both ends sleeping; a close or a kill against a sleep; entries given away before they are closed | a queue of bytes; no lost wakeup; nothing used after it is freed |
| UART and console, `kernel/uart.c`, `console.c` | transmit ring, input line | put, get, interrupt | interrupts, full ring | bytes in order |
| Inodes, directories, `kernel/fs.c`, `sysfile.c` | the inode table (references, locks, `valid`), inodes, link counts and the block bitmap on disk | path lookup, `create`, `open`, `mkdir`, `link`, `unlink`, write, truncate, close | references dropped by several processes; an inode is freed outside the table's lock and reused at once; two locks at a time; a full disk | the table agrees with its users and the disk; links and blocks are counted; lookups do not block each other for good |
| Page tables and allocator, `kernel/vm.c`, `kalloc.c` | page tables, free list | `mappages`, `uvmunmap`, `kalloc`, `kfree` | | a frame has one owner |

How they meet: every file system call brackets its block writes with
`begin_op`/`end_op` and goes through the buffer cache, which the log pins;
`log`, the pipes, the disk driver and `wait` sleep and wake each other with
`sleep`/`wakeup`, whose locks are those of `proc.c`; the page fault handler is
entered from `usertrap`, uses the buffer cache to reach the PSA (without the
log), and shares `psa_tracker` with `exit`; user-level threads know the kernel
only through `ctime()`.

`PROJECT.json` lists all of these as components with their status, and, under
"hazards", the places in this code where something can go wrong that a test
would hardly reach, with the property that watches over each.

## 2. Modules

| Module | Models | Remarks |
|---|---|---|
| `AtomicDisk` | what the log promises | a disk that changes by whole groups of operations; a crash takes it back to the last one |
| `Log` | `kernel/log.c`, the pins of `bio.c`, power failure | implements `AtomicDisk` by a refinement mapping |
| `LogProofs` | | the inductive invariant of `Log` and its consequences, and that `Log` implements `AtomicDisk` |
| `Proc` | `kernel/proc.c`, `spinlock.c` | |
| `ProcProofs` | | the safety invariants of `Proc` |
| `Paging` | `kernel/pfault.c`, `track_heap`, `growproc`, resets in `exec` and `exit` | |
| `ULThread` | `user/ulthread.c` | |
| `ULThreadProofs` | | ids, and what the scan of the table finds |
| `PrivateMemory` | what fork promises | every process has a memory of its own |
| `Cow` | `kernel/cow.c` and its callers | implements `PrivateMemory` |
| `CowProofs` | | the group table, the sharing of frames, and the refinement |
| `TrapEmulate` | assignment 4 `kernel/trap-and-emulate.c` and its callers | |
| `TrapEmulateProofs` | | privilege, memory view and the host's safety |
| `BlockStore` | what `bread`, `bwrite` and `brelse` promise | a block has one content, which its owner sees and changes |
| `BlockIO` | `kernel/bio.c`, `sleeplock.c` composed with `virtio_disk.c` and its device | implements `BlockStore` |
| `BlockIOProofs` | | rings, requests and sleepers; the refinement of `BlockStore` |
| `ByteQueue` | what a pipe promises | a bounded queue between two ends |
| `Pipe` | `kernel/pipe.c` composed with the file table and the descriptors | implements `ByteQueue` |
| `PipeProofs` | | references, sleepers and the refinement of `ByteQueue` |
| `Inode` | `kernel/fs.c` with the calls of `sysfile.c` | the disk is what transactions leave, as `Log` promises |
| `InodeProofs` | | the inode table, the order of locks, link counts |
| `MCLog`, `MCProc`, `MCPaging`, `MCULThread`, `MCCow`, `MCTrapEmulate`, `MCBlockIO`, `MCPipe`, `MCInode` | | instances for TLC; symmetry sets |

### Log

A critical section of `log.lock` is one action, and so is each synchronous
`bwrite`; `commit()` runs without the lock and is therefore a chain of actions
(`Commit`, `WriteLog`, `WriteLogDone`, `WriteHead`, `InstallTrans`,
`InstallDone`, `ClearHead`), with the variables `phase` and `tail` as program
counter and loop variable. The boot process uses the same two for `ReadHead`,
`RecoverInstall`, `RecoverInstalled` and `RecoverClear`. A system call is
`Call`, `BeginOp` (one turn of `begin_op`'s loop), any number of `LogWrite`s of
at most OPBLOCKS distinct blocks, and `EndOp`, after which the last one runs
`commit()` and `EndCommit`. `Evict` is the recycling of an unpinned buffer by
`bget`. `Crash` may come at any instant, sets memory to zero and may leave the
data block that is being written with any contents; the header block is written
whole (its words lie in one sector). A panic stops everything but `Crash`.

The mapping to `AtomicDisk`: `durable` is what recovery would make of the disk
now (`Recovered`), `current` is what a running process reads, `active` the
processes between `begin_op` and `end_op`.

### Proc

A CPU runs its scheduler (`cpu[c] = 0`) or a process. One action per critical
section of a `p->lock`; `wait_lock`, which `wait` and `exit` hold over several
of those, and `p->lock` across `swtch` are explicit. `sw` says where a context
is: running, in `sched()` with its lock held (`swtch`), saved (`off`), or just
loaded by a scheduler (`load`). `wakeup` and the scan of `wait` visit one slot
per step. `exit` from `usertrap` on a killed process, an exception that makes
`usertrap` mark the process itself (`Fault`, with `setkilled`), `fork` failing for
lack of memory and `wait` failing to copy the status out are included. `init`
raises no exception. Files, memory and `sleep` on other channels than `wait`'s are
left out. `asked` is history: the pids that `kill` was called with and those of
processes that raised an exception. `NoLockCircle` reads off `pc`, `idx` and the
locks who spins for whom.

### Paging

A page is named by its distance from the start of the heap and holds BPP parts,
one per disk block (4 in the code). The handler is split at the places where
another process can come in or look at what it left: the scan of `psa_tracker`
(`EvictScan`), the marking of the blocks and of the victim (`EvictMark`), each
disk block (`EvictWrite`, `RetrieveRead`), and the retry of the store (`Retry`).
`usertrap` calls the handler with interrupts off and the Makefile builds for one
CPU, so with OneCpu nothing comes between the scan and the marking; disk
accesses sleep. The model follows the code in mapping a fresh page at `p->sz`
whatever page faulted, in taking block 0 when the PSA is full, and in running
through the tracker when `sbrk` asks for nothing. Times are kept as ranks: a
tick renumbers the times in use, since the code only compares them. Program
segments, `fork` and `exec` of a process that has a heap, and the kernel pages
that the handler never frees are left out.

### ULThread

Every library call is an action; the context switch is the change of `running`.
`main` creates threads and calls `ulthread_schedule` Rounds times. The three
algorithms share a loop over the thread table: `scan[i]` is the candidate after i
slots and `Better` the body of the loop for each algorithm. It starts from the
candidate the code starts from: the first runnable slot on the first call, the
stale `current_thread` after. `older` and `yielded` are history: the live slots
that were created before, and those whose present thread has yielded. `tid` of a NULL
`last_yielded_thread` is read from address 0, which is no thread's id. A full
table is left to the caller to avoid (the code would write in front of it).

### Cow

Frames hold one value per page; `free` is the allocator's list, whose order does
not matter, and `kfree` leaves junk behind. `fork` and `wait` hold a process
lock and the fault handler runs with interrupts off, so each is one action on
the one CPU of the Makefile; `exit` reads a group's count (`ExitRead`) and
writes it back (`ExitZombie`) with interrupts on. `cow_init` is never called in
the code, so an unused group has number 0, which is also the `cow_group` of a
process without one; the model starts from that. `get_cow_group` returning NULL
is a panic of its own kind. `Freed` is `uvmunmap`'s decision, made with the
group of the process that unmaps. `init` and the shell are one process.
`Disciplined` is what programs keep to when they call `fork(1)`; the code tests none
of it. It is stated with the history `kin`, which names those who really share by
`fork(1)`, and not with `cow_group`, which `freeproc` leaves to the next owner of
the slot.

### TrapEmulate

`usertrap` keeps interrupts off, so a trap is one action. A page table is named
by the process whose frames it maps and by the pieces that are missing; `old` is
`vm_state.old_ptable`. `mstatus` and `sstatus` are their previous-mode fields,
addresses are a few multiples of 4, PMP entries allow everything or nothing. The
address space is cut into pieces of whole pages: the program, unmapped memory
below 0x80000000, RAM, and what follows it. A `pmpaddr` counts half pieces, so that
it can miss a page boundary, lie below the RAM, in it or above it, and come
before the entry that precedes it (`From`, `To`, `Covers`). All instructions are
possible in all modes with all register values, on the CSRs of `vm_state` and on
one that it does not have (`Unknown`); an instruction that the monitor does not
decode is left undone and traps again (`Ignore`). A guest that does
what its mode forbids is given up (`GiveUp`), which re-initialises `vm_state`.
`freeproc`, `uvmunmap` and `copy_pagetable_region` panic on a missing piece,
`uvmunmap` on an address that starts no page, the kernel faults on the NULL of
`get_vm_reg`, and the model does all of it (`Panic`). The conditions under which the
properties hold are the constants AtOnce, Killable, Careful, UnknownReads,
EarlyFaults and LowMemory (section 6).

### BlockIO

One action per critical section of `bcache.lock` or of a sleep lock's spin lock.
`vdisk_lock` is explicit, since the interrupt handler reads the used ring under
it while the device goes on: `IntrBegin` acknowledges, `IntrEntry` takes an
answer, `IntrEnd` leaves. Ring indices count modulo WRAP, a small multiple of
the ring's size in place of 2^16. `DeviceTake` and `DeviceAnswer` are external:
the device takes requests in order, serves them in any order and raises an
interrupt. What a process sleeps on follows from its `pc`.

### Pipe

`pipewrite` and `piperead` run from `acquire`, or from the end of a sleep, to
the next sleep or the return; `fileclose` is two actions, the entry of the file
table and then the pipe (file.c:71-83). `nread` and `nwrite` count modulo WRAP
in place of 2^32. `sys_pipe` is taken apart at each allocation that can fail,
with what it gives back then. `fork` copies descriptors, `exit` closes them one
by one, `kill` wakes.

### Inode

What a process does between `ilock` and `iunlock` is one action where it waits
for no other lock; a lock kept while it waits for another is explicit. `iput` is
three actions (`Iput`, `IputInvalid`, `IputDrop`), because it frees the inode
outside `itable.lock` and clears `valid` and the reference later. A lookup is
one `Walk` per directory. `call` is what a system call has in its variables,
`todo` the inodes it still has to put. The disk changes by whole inodes: that
operations are atomic is what `Log` shows. `iget` panics when all NINODE entries
are in use; with `MayFill = FALSE` the programs keep clear of that.

## 3. Runs

| Run | Instance | Distinct states | Shows |
|---|---|---|---|
| `log_atomic` | 2 processes, 3 blocks, 2 values, operations of 2 blocks, two at a time, a log of three | 125,600 | `AtomicOperations` (refinement), `QuietIsDurable`, `PinsMatchHeader` |
| `log_space` | 3 processes, 3 blocks, room for two operations, so the third sleeps; fair | 16,989 | `CommitExcludesOps`, `NoPanic`, `SleeperHasWaker`, `SleeperWakes` |
| `proc_safety` | 3 slots, 2 CPUs, 3 forks, kills, exceptions | 249,504 | `StackExclusive`, `SchedChecks`, `NoMissedZombie`, `HasLivingParent`, `KilledWasAsked`, `NoLockCircle` |
| `proc_live` | 3 slots, 1 CPU, as the Makefile builds it; fair | 12,772 | `ZombieReaped`, `KilledExits` |
| `ulthread` | 3 threads at a time, 2 batches, 2 priorities, all algorithms; fair | 16,397 | `NeverRunsDestroyed`, `FollowsAlgorithm`, `FirstComeFirstServed`, `EveryoneRuns` |
| `paging` | 1 process after another, 4 heap pages, 2 resident, 2 blocks per page; fair | 1,066,584 | `HeapIntact`, `BlocksAccounted`, `EvictsOldest`, `StoreCompletes` |
| `paging_pair` | 2 processes, 2 pages each, 1 resident | 1,134,469 | `HeapIntact`, `BlocksAccounted` |
| `cow` | 4 slots, 5 processes, 5 frames, 1 page | 129,649 | `NotFreedInUse`, `KernelRunsOn`, `MemoryIsPrivate` (refinement) |
| `trap_emulate` | 2 guests in turn, 2 pieces of memory, 2 PMP entries with 6 values, 2 addresses | 556,283 | `HostSurvives`, `MemoryView`, `PrivilegeKept` |
| `block_io` | 2 processes, 3 blocks, 2 buffers, 2 requests at a time | 706,620 | `CacheCoherent`, `SleeperHasReason`, `StoresBlocks` (refinement) |
| `pipe` | 2 processes, 1 pipe of 2 bytes, 3 files, calls of 3 bytes | 607,578 | `NothingDangles`, `SleeperHasReason`, `PipeIsQueue` (refinement) |
| `inode` | 2 processes, 3 inodes, 1 block, 8 calls on paths of one and two names | 639,254 | `TableAgrees`, `NothingLost`, `NoStandstill` |

The bounds. In `log_atomic` two operations of two blocks share three blocks, so
that they overlap (absorption), a commit has several blocks (a crash between any
two), and recovery can crash; two values tell old from new. Two
operations may need more than the log has, so the panic of `log_write` and the
reboot after it are among the behaviours. `log_space` has one
process more than the log has room for. `proc_safety` has init, a child and a
grandchild or sibling, a slot that is used again (MaxPid is larger than the
number of slots) and two CPUs, the least that can race; CPUs are interchangeable
and so a symmetry set. `ulthread` has three threads, so that a scan has a
first, a middle and a last, and a second batch that finds used slots and a stale
`current_thread`. `paging` has two pages more than may be resident, so that two pages
have blocks at the same time, and two blocks per page, so that a page can be half
written; `paging_pair` lets two evictions and retrievals overlap. Its PSA has room for all pages, as the real one
(PSASIZE blocks) has for the few processes that fit in memory.

`cow` has a shell and three slots, two of which can be a pair that shares while
a third process comes and goes, fewer frames than all could map and one process more than slots, so that a slot and its stale `cow_group`
are used again. `trap_emulate` has two guests, so that the second inherits what
the first left in `vm_state`, and two entries and pieces, so that an entry has a
predecessor; a `pmpaddr` is unset, the start of the program or of the unmapped
piece, the middle of a piece of RAM, where no page starts, or a boundary between
pieces. `block_io` has fewer buffers than blocks, so that every read may
recycle, two requests in flight, so that the answers can be exchanged, and rings
that wrap after two requests. `pipe` has a call that is longer than the ring, so
that one call fills it, sleeps and goes on, counters that wrap every second
time around, and one file too few for a second pipe. `inode` has a directory, a file in
it that gets a second name beside it, a path that takes the file for a
directory, inodes that are a file at one time and a directory at another, and a
table as large as the disk, which cannot fill up.

Deadlock is checked in every run but those of `ULThread`, where main ends after
its last batch, and of `Cow`, `TrapEmulate` and `Pipe`, where all processes may
have ended. So in `Proc`, `BlockIO` and `Inode` no order of taking locks stops
everybody.

## 4. Fairness

* `Log`: weak fairness of the kernel's own steps and of each process in
  `begin_op` and `end_op`: a disk write ends, a runnable process runs, a system
  call gets to its `end_op`. None for the start of calls, for `log_write` or for
  a crash, and none that says who gets the space: `SleeperWakes` says that a
  sleeper is woken, not that it is admitted, which the code does not guarantee.
* `Proc`: a CPU finishes its context switches, its timer interrupts whatever it
  runs, and its scheduler's loop visits all slots, so `Yield` (per CPU) and
  `Schedule` (per slot) are strongly fair; a spin lock that is released
  again and again is got in the end (strong fairness of kernel steps, the usual
  reading of `acquire`); `init` calls `wait` for ever; a killed process traps.
* `ULThread`: the timer ticks, main's loop goes on and a thread reaches its next
  call: cooperative threads that do not yield starve the others by design.
* `Paging`: a process inside the handler goes on.
* `Cow`, `TrapEmulate`, `BlockIO`, `Pipe` and `Inode` state no fairness. What
  could keep a process waiting is stated as invariants instead
  (`SleeperHasReason`, `NoStandstill`): they hold whatever the scheduler does.

## 5. Proofs

`LogProofs` proves about `Log`, for any finite sets of processes and blocks and
any sizes that satisfy `LogConstants`:

* `LogInvariant`: `Spec => []IInv`, with
  `IInv == TypeOK /\ Control /\ Header /\ PinnedOnce /\ Space`. None of
  these is inductive alone. `TypeOK` needs `Header` (every header entry has a
  log slot) and the pins (a pin is not taken below 0). `Control` ties
  `committing` to the phases of `commit()` and to exactly one committer, and
  `outstanding` to the number of active processes. `Header` needs `Control`, to
  know that nothing is logged while the header is being installed. `Space`
  counts, as a finite set of credits, the blocks that open operations have
  reserved and not used.
* `CommitIsExclusive`, `PinsAreKept`, `SleepersHaveWakers`: the invariants
  `CommitExcludesOps`, `PinsMatchHeader` (which is `TypeOK` and `PinnedOnce`) and
  `SleeperHasWaker` of the runs.
* `LogNeverPanics`: `NoPanic`, from the assumption
  `OPBLOCKS < MAXOPBLOCKS /\ MAXOPBLOCKS < LOGSIZE /\ LOGSIZE <= NLOG`. It needs
  one more invariant, `LastOne`: the only open operation either can use a credit
  that an ended one left over, or everything in the log is its own. The first
  part of the assumption cannot be dropped, see 6.

From `IInv` it goes on with what the log does to data:

* `DataInvariant`: `Spec => [](IInv /\ Data)`. `Data` says that the header on the disk
  is empty until `commit` writes it and then names what is being installed
  (`Headed`); that what `write_log` has passed is in the log and what
  `install_trans` has passed is at home (`Logged`, `Installed`); and that buffers
  differ from the disk only for blocks yet to be installed, which are cached
  (`Buffers`).
* `QuietMeansDurable`: `QuietIsDurable`, since a quiet log has an empty header.
* `LogIsAtomic`: `Spec => AtomicOperations`. The only step that changes `durable`
  is the write of the header; a crash at any other step maps to a crash of
  `AtomicDisk` with `durable` unchanged.

`ProcProofs` (`ProcConstants`; any number of CPUs and slots):

* `ProcInvariant`: `Spec => []IInv`. Its conjuncts say which locks are held at
  which place of the code, that a process is on the stack of at most one CPU and
  where its context is saved otherwise, who is being waited for, and who is
  whose parent. The four theorems `StackIsExclusive`, `SchedNeverPanics`,
  `NoWakeupLost` and `ParentsAreAlive` follow by reading off conjuncts.
* `LocksAreOrdered`: `NoLockCircle`. Who has a `p->lock` spins for nothing, so a
  circle could only be of threads that have `wait_lock` and wait for it.
* `KilledOnRequest` assumes `0 \notin KillPids`. A freed slot has pid 0, so that
  `kill(0)` marks a slot nobody owns and its next owner inherits the flag; see 6.

`TrapEmulateProofs` (any number of guests and pieces of RAM, any values of
registers):

* `Types`, and from it the action property `PrivilegeIsKept`, for guests that
  do anything.
* `HostIsSafe` and `GuestsSeeTheirMemory` assume `OneAtATime`: one guest runs at a
  time, is not killed from outside once it has trapped, is careful with the PMP,
  does not fault before it has trapped, reads no CSR that `vm_state` does not have,
  and page tables find memory. Without any one of these the host can be stopped
  (section 6), so these theorems say under which conditions the monitor is safe and
  not that it is. Under them the guest may still write any value to a `pmpaddr`: what
  does not fit the memory is found by the condition on `mret` that `Careful` states.

`BlockIOProofs` (any number of processes, buffers, blocks and descriptors; ring
indices modulo any multiple of the ring's size, 2^16 in the code):

* `BlockIOInvariant`: `Spec => []IInv`. The conjuncts are: uses and pins are
  counted and every buffer is in the list (`Counted`); a lock and the place of
  its holder agree (`Locked`); requests, descriptors and waiting holders match
  one to one (`Asked`); a request the disk owns is at exactly one place
  (`Placed`); the entries of a ring are those between its indices (`Rings`); what
  each sleeper waits for (`Sleepers`). `Rings` is arithmetic modulo WRAP and NUM
  (lemmas `ForwardIndex` to `Popped`). That there is always room is a pigeonhole
  argument (`RingHasRoom`): every request owns at least two descriptors of its
  own, so a full ring would need more descriptors than there are.
* `NobodySleepsInVain`: `SleeperHasReason`. `CacheIsCoherent`: `CacheCoherent`, from
  `~MayRunOut`: `bget` panics when all buffers are in use, which is up to its
  callers.

* `DataInvariant` (`Data`: what is newer than the disk is pinned or held; a holder
  reads exactly when its buffer is not valid; an answered request left the same
  data on both sides), and `BlocksAreStored`: `Spec => StoresBlocks`. A block
  changes owner in `AcquireSleep` or `Finish` and in `ReleaseSleep`, and content in
  `Modify`; every other step is a stutter.

`CowProofs` (any number of slots, pages and frames):

* `CowInvariant` and `GroupsAreFound`, for programs that do anything. Entries of the
  group table are never given back; the proof counts them: an entry is taken by
  a slot's first `fork(1)`, the slot keeps its `cow_group` for ever, and the shell's
  slot has none, so there are always fewer entries taken than slots.
* `RunsOn` (`KernelRunsOn`), for programs that do anything but call `fork(0)` while
  they have read-only pages: who has a read-only page has `cow_enabled` set.
* `SharingInvariant`, `NothingFreedInUse` and `WritersAreAlone` assume `InPairs`:
  a parent and one child that it waits for share, no two such pairs are in one
  group, and there is no `exec` while sharing. Who shares is what programs did
  (`kin`), not what the code's tables say. Without any of the conditions the code
  frees frames in use (section 6). `Sharing`
  says that frames are shared by such a pair only and are listed in its group,
  `Counts` that the count is 1 at most and not 1 once the child is a zombie, which
  is what makes `uvmunmap` keep the parent's frames.
* `CopyOnWriteIsInvisible`: `Spec => MemoryIsPrivate`, from `InPairs` and
  `~KernelWrites` (`copyout` does not look at the writable bit).

`PipeProofs` (any number of processes, files and pipes, any PIPESIZE, counters
modulo any larger multiple of it, calls of any size):

* `PipeInvariant`: `Spec => []IInv`, with
  `IInv == Types /\ InCalls /\ Referenced /\ Opened`. `InCalls` says what a process
  has in its variables at each place; `Referenced` that `file.ref` is counted and
  that a file which is not for a pipe yet belongs to one call; `Opened` that an
  open end of a pipe has one file or one process that closes it, and that a reader
  or writer has a descriptor for its end. None is inductive without the others: that
  `fileclose` closes the right end needs `Referenced`, that the file stays in
  use during a call needs `InCalls`. References are counted as the cardinality of the set
  `Fds(f)` of pairs of a process and a number, since a sum over processes would
  need induction.
* `NothingEverDangles`: `NothingDangles`, read off `IInv`.
* `PipeSleepInvariant` adds `Stored` (at most PIPESIZE bytes between the counters,
  all of them written) and `SleeperHasReason`; the latter is `SleepersHaveReason`.
* `PipesAreQueues`: `Spec => PipeIsQueue`. `Filled` appends to the window between
  the counters and `Drained` takes from its front (lemmas on arithmetic modulo WRAP
  and modulo PIPESIZE, which agree because the one divides the other); an end is
  open or closed in the queue as in the page.

`ULThreadProofs` (a table of any size, any priorities, any number of rounds)
assumes `~ThreadsCreate`; with it the code repeats ids (section 6).

* The invariant is `IInv`. `Table`: a free slot has the values of `ulthread_init` and
  a later time than any thread. `Ids`: no two threads have one id, and while main
  runs all ids are below `thread_count`; this holds although `thread_count` goes
  down again, because main creates threads only when all others are gone.
  `Switched`: what `current_thread` and `last_yielded_thread` say of who runs.
  `InOrder`: in the first batch under FCFS slots are taken in order, so that older
  threads are at smaller indices with no later times. `RunsTheLiving`
  (`NeverRunsDestroyed`) follows.
* `ObeysAlgorithm` (`FollowsAlgorithm`) and `FirstCome` (`FirstComeFirstServed`) need
  what `scan` ends at. That is an induction over the table; the library's
  induction rule takes an operator, so it is done by a least counterexample
  (`ScanInduction`): if a set of pairs of an index and a candidate has the first
  candidate and is kept by `Better`, there is no least index i with the pair of i and
  `scan[i]` outside it. The sets used say, for each algorithm, that the candidate is
  the best of the slots seen so far, or is the stale one that the scan started
  from and none was better.

`InodeProofs` (any number of processes, inodes, names and blocks, any set of calls
on paths of any length) assumes `~MayFill`, which leaves out the panic of `iget` at
a full table and nothing else.

* `Inductive`: `Spec => []IInv`. Who has a lock follows from where each process is
  (`Placed`, `Locked`), and so do the references (`Referenced`). `Table`: an inode
  has one entry, a valid entry is a copy of what is on disk, and there is no copy
  of a free inode but those that `iput` has just freed. `Free`: nobody has a free
  inode, except who is about to drop it. `Holding` says what a process may rely on
  between the steps of `iput`, `create` and `unlink`: the one that frees an inode is
  alone with it, but for a `create` that has been given the same inode anew and
  waits for its lock; the new inode of `create` has no entries and no names; the
  name that `unlink` removes still leads to the inode it has. `Space`: blocks.
  `Tree`: directories can be ranked so that entries lead to lower ranks. `Linked`:
  an inode has at least the links that are counted, so that nothing with a name is
  ever freed. Each action has one lemma for what it does to its own process and
  one, `Guar`, for what it leaves to the others; `Rely` concludes that what the others
  hold stays true. The panics of `ilock` (no type), `iput` (lock in use), `bfree` and
  `unlink` (no links) are excluded by `Types` (`panicked = FALSE`).
* `TableIsRight`: `TableAgrees`.
* `NobodyStandsStill`: `NoStandstill`, by the ranks of `Tree`. Only `create` and
  `unlink` keep a lock while they wait. Of those, take one whose directory has the
  least rank. It waits for a directory below its own, and whoever keeps that one
  would have a lower rank still. This does not need `Attached`: also while
  directories are removed under lookups, nobody blocks everybody.
* `ExactLinks` and `NoInodeLost` (`NothingLost`) also assume `~RmdirBusy` (section 6).
  `Attached` strengthens `Linked` to equality: `nlink` is the number of names, of
  subdirectories (their `..`) and of names that `sys_link` has promised; the
  directory that a call works in has a name or is the root; a directory without a
  name is empty, and none has two. Steps are of four sorts: those that leave
  links alone (`Idle`), a lookup that takes one inode more (`Takes`), a change of
  counts without a name (`Tame`: `ialloc`, `sys_link` and its failure), and
  the one that enters or removes a name (`Ties`).

The proofs have one lemma per action or per conjunct, with one step per case.
Each invariant was model-checked before it was proved. All eight proof modules
are independent of each other. `InodeProofs` takes about a quarter of an hour, the
others a few minutes each.

Only model-checked:

* liveness (`SleeperWakes`, `ZombieReaped`, `KilledExits`,
  `EveryoneRuns`, `StoreCompletes`), which is out of the prover's reach;
* `Paging` (`HeapIntact`, `BlocksAccounted`, `EvictsOldest`). These hold for one `sbrk`,
  pages touched in order, programs that exit alone, one CPU and a PSA that is
  large enough, which is little more than the instances of the runs.

All other invariants, action properties and refinements of the runs are stated
by theorems.

## 6. Limits of the code

The properties hold for the programs and machines that the constants of the
runs describe. Each of the following is excluded by a constant, and with the
value given here TLC shows what the code then does.

* **Log one block short.** `begin_op` reserves MAXOPBLOCKS blocks for an
  operation within LOGSIZE, `mkfs` makes a log of LOGSIZE blocks of which one is
  the header, and `log_write` panics at `log.size - 1`, before it looks whether
  the block is already there (log.c:220). `log_space` with
  `OPBLOCKS = MAXOPBLOCKS`, LOGSIZE = NLOG a multiple of it and enough processes
  and blocks violates `NoPanic`.
* **A missed kill** (proc.c:521, two CPUs): it comes between `wait`'s test of
  `killed(p)` and its `sleep`, finds the victim RUNNING and wakes nobody. The
  victim sleeps until a child of its own exits. On one CPU `wait` holds
  `wait_lock` from the test to the sleep and is not interrupted, and `proc_live`
  shows that every killed process exits.
* `KillPids` with 0 (`Proc`): `kill(0)` finds an unused slot, and the process
  that gets it is killed although `KilledWasAsked` says that neither it nor anybody
  else asked.
* `ThreadsCreate = TRUE` (`ULThread`): `thread_count` is the number of live
  threads and also the next id (ulthread.c:47), so that two threads share an id
  and `ulthread_destroy` frees the other's slot: `NeverRunsDestroyed` fails.
* `FirstComeFirstServed` is stated for the first batch: later the stale
  `current_thread` wins a tie within a clock tick.
* `FollowsAlgorithm` leaves out the first switch of every later batch under
  PRIORITY. `last_yielded_thread` is a pointer to a slot that `ulthread_destroy` and
  `ulthread_schedule` never reset (ulthread.c:128-133). A new thread in that slot
  is passed over although it never yielded, also when it is the only most urgent
  one.
* `ExitAlone = FALSE` (`Paging`): `exit` calls `init_psa_regions` (proc.c:440)
  and frees the swap blocks of everyone: `HeapIntact` fails.
* `MaxSbrk = 2`: `track_heap` (proc.c:273) counts addresses from `p->sz`, which
  the faults move, so that a second `sbrk` tracks the wrong pages, and the fault
  on a page it returned is taken for ever: `StoreCompletes` fails.
* `InOrder = FALSE`: a program that touches a later page first gets the page at
  `p->sz` mapped instead; the count and the victim go wrong.
* `OneCpu = FALSE`: two evictions can find the same free block; `HeapIntact`
  fails. A PSA with SCAN too small: block 0 is taken from its owner.
* `SbrkSizes` with 0: `track_heap` counts past zero, fills all entries and
  panics.
* `EvictsOldest` holds up to pages that came in within one clock tick.
* `Cow`. A group's count is 1 for two processes, so `uvmunmap` (vm.c:196) frees
  shared frames when the third member is there (`MaxMembers = 3`), when a parent
  exits first (`Orphans`), or in `exec` (`SharedExec`): `NotFreedInUse` fails.
  It also fails when all sharing is in pairs: `freeproc` does not clear `cow_group`,
  and `fork(1)` joins whatever group it finds there (`StaleGroups`, seen with
  NPROC = 5 and MaxPid = 6). A calls `fork(1)`, the child K exits and is waited for;
  the shell forks C into K's slot; A calls `fork(1)` again and has D; C calls
  `fork(1)` and has E, in A's group. D exits and is waited for with count 1, and
  its frames, which A maps, are freed.
* `SharerForks = TRUE`: a process with read-only pages calls `fork(0)`. `uvmcopy`
  copies the flags of the pages, but the child's `cow_enabled` is not set, and its
  first store takes the path for a missing page (pfault.c:178): `mappages` panics
  with "remap", and `KernelRunsOn` fails. A fault that finds no free frame
  panics too ("no memory"), which no property forbids.
* `KernelWrites = TRUE`: `copyout` does not look at the writable bit, and a system
  call stores in both memories: `MemoryIsPrivate` fails. Frames that a group still lists when its last member has gone are lost, and the list
  overflows at SHMEM_MAX (cow.c:67), which is not modelled.
* `TrapEmulate`: `vm_state` is one for all guests (`AtOnce = 2`) and is
  re-initialised only when the monitor gives a guest up, not when it is killed
  (`Killable`): `MemoryView` and `HostSurvives` fail. A guest can stop the host in
  four more ways, and `HostSurvives` fails with each of the values:
  - `Careful = FALSE`: a guest that makes a privileged mistake while its view has
    holes ends on that table, and `freeproc` panics; or it returns by `mret` under
    PMP entries that take away a page which is not there, take one away twice,
    or start where no page does, and `uvmunmap` panics ("not mapped", "not
    aligned"). A careful guest writes PMP registers in machine mode only, and once it
    has, it reads and writes no CSR above its mode and calls `mret` in machine mode
    only, to a lower one, with entries that fit.
  - `UnknownReads = TRUE`: `csrr` of a CSR that `vm_state` does not have; `handle_csrr`
    follows the NULL of `get_vm_reg` (trap-and-emulate.c:305-309). `csrw` tests for it
    and gives the guest up.
  - `EarlyFaults = TRUE`: a guest faults before it has trapped. `switch_page_table`
    then sets `p->pagetable` to the NULL of `old_ptable` (trap.c:81) and `freeproc`
    walks it.
  - `LowMemory = TRUE`: `proc_pagetable` or `mappages` finds no memory and nobody looks.
    The monitor never frees the page tables that it replaces, so that this comes
    after enough `mret`s; the count of free pages is not modelled.
* `MayRunOut = TRUE` (`BlockIO`): `bget` panics when all buffers are in use
  (bio.c:88).
* `MayFill = TRUE` (`Inode`) and NINODE smaller than the inodes in use at one time:
  `iget` panics (fs.c:267) and `TableAgrees` fails.
* `RmdirBusy = TRUE` (`Inode`): a directory is removed between another
  process's lookup and its lock, `create` (sysfile.c:254) does not look at its
  link count again and makes a file in it that nobody can reach: `NothingLost`
  fails.
* An inode can be lost. `iput` gives up the inode's lock (fs.c:355) before it
  drops its reference (fs.c:360). If another process allocates the freed inode,
  unlinks it and puts it in between, it sees two references and leaves it, and
  the first then only counts down. `NothingLost` does not claim the contrary.

The kernel pages that the fault handler keeps (pfault.c:69), the PSA blocks that
`exec` forgets (exec.c:166), the CoW frames above and the byte that `piperead`
takes before its `copyout` fails (pipe.c:124) are lost on every such path and
need no model.

## 7. Plan

All modules of the first plan that have concurrency or long call sequences are
there, and all of them but `Paging` have their proofs. What is left:

1. `Paging`: `BlocksAccounted` and `HeapIntact`. The invariant would say that the
   blocks in use are whole aligned groups of BPP, each of one page on disk or on its
   way, and that mapped pages are those below `p->sz` that are not on disk.
2. `Proc`: `sleep` and `wakeup` on other channels than `wait`'s, of which `Log`, `Pipe`
   and `BlockIO` have their own versions, as one abstract specification.
3. The copies of the kernel in assignments 3 and 4.

## 8. Not modelled

* The boot loader, hardware set-up, register saving, ELF parsing, argument
  fetching, formatted output, `mkfs`, SHA-256 (third-party) and the UART and
  console: sequential input, output or glue that runs alone; no property here
  depends on them.
* The user programs. They are most of the repository's lines, with `usertests.c`
  in three copies of 3,101 lines; they are tests and stock programs, and are
  read here as documentation of what the kernel promises.
* The kernels of assignments 3 and 4 repeat the one of assignment 2, file by
  file, in what is modelled. The map names the copy of assignment 2 only, so
  that about two thirds of the kernel lines of the repository cannot be in it;
  what is specific to assignment 4 is in `TrapEmulate`.
* File contents beyond one block, indirect blocks, `stat`, device files,
  `chdir`, and paths with `.` or `..` (`Inode`); failing `copyin` and `copyout`
  (`Pipe`); program segments of on-demand processes (`Paging`).
* Weak memory: `acquire` and `release` contain fences, the driver has its own
  around the ring indices, and data that the code shares without a lock
  (`psa_tracker`, a group's count) is split at each access that matters.
