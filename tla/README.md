# xv6unrc in TLA+

Specifications of the system in `src/xv6`, an xv6 for the x86 whose `fork`
shares memory copy-on-write. The modules model the parts of the kernel where
several CPUs, processes, interrupts and crashes meet, and the programs around it
that have a logic of their own: the shell, the allocator, the image builder. TLC
checks them on small instances and TLAPS proves the core for every instance.
Source references are to `src/xv6`.

## The system

| Part | State | Operations | Hard because |
|---|---|---|---|
| spin locks (`spinlock.c`) | `lk->locked`, `lk->cpu`; per CPU `ncli`, `intena`, FL_IF | `acquire`, `release`, `holding`, `pushcli`, `popcli` | two words per lock, interrupts inside `pushcli`, nesting |
| process table (`proc.c`) | `ptable`, `nextpid`, per CPU `proc` | `fork`, `exit`, `wait`, `kill`, `sleep`, `wakeup`, `yield`, `scheduler` | the lock is handed over through `swtch`; entries are also written without it |
| copy-on-write (`proc.c`, `vm.c`, `trap.c`) | page tables, PTE_W/PTE_A, free frames | `fork`, page fault (`trapCOW`, `copypage`, `isshared`), `exec`, `sbrk`, `unlinkzombiesharedmemory` | no reference counts: sharing is found by comparing page table entries, and who shares at all by comparing names |
| redo log (`log.c`) | `log.lh`, `log.busy`, the header and log sectors | `begin_trans`, `log_write`, `commit_trans`, recovery | crashes between any two disk writes, eviction of uncommitted blocks |
| pipes (`pipe.c`) | ring buffer, `nread`, `nwrite`, open flags | `pipewrite`, `piperead`, `pipeclose` | sleeping inside loops, wrap-around, kill, freeing |
| buffer cache, disk (`bio.c`, `ide.c`) | LRU list, B_BUSY/B_VALID/B_DIRTY, request queue | `bget`, `bread`, `bwrite`, `brelse`, `iderw`, `ideintr` | sleeping for a buffer that is recycled meanwhile |
| i-nodes, directories (`fs.c`) | `icache`, bitmap, directory blocks | `iget`, `ilock`, `iput`, `bmap`, `namex`, ... | reference counts against link counts, lock order |
| open files, file system calls (`file.c`, `sysfile.c`) | `ftable`, `ofile[]` | `open`, `dup`, `close`, `link`, `unlink`, ... | transactions around every change |
| memory (`vm.c`, `kalloc.c`), `exec.c` | page tables, `kmem.freelist` | `allocuvm`, `deallocuvm`, `copyuvm`, `freevm`, `exec` | failure half-way |
| console, keyboard, serial (`console.c`, ...) | `input` ring with three indices | `consoleintr`, `consoleread` | interrupt against readers, a full ring, a ^D that is put back |
| shell (`user/sh.c`) | the line, the command tree, descriptors and pipes | `parsecmd`, `nulterminate`, `runcmd` | a grammar by hand, words cut off in place, descriptors inherited by every process of a pipeline, failing forks |
| allocator (`user/umalloc.c`) | circular free list | `malloc`, `free`, `morecore` | any order of frees, chunks that may or may not follow one another |
| image builder (`mkfs.c`) | the image, `freeinode`, `freeblock`, `usedblocks` | `ialloc`, `iappend`, `balloc` | repeats the kernel's layout in code of its own |
| boot, interrupt controllers, timer, other user programs | | | straight-line or device code |

Every layer synchronises with spin locks, and waits with `sleep`/`wakeup` of
`proc.c`; the clock interrupt of `trap.c` preempts; the file system writes
through the log, the log through the buffer cache; pipes are reached through
open files; `fork`, `exec`, `exit` and `wait` drive the copy-on-write code.

What makes each part correct: locks exclude and never deadlock a CPU with its
own interrupts; a process runs on one CPU and its stack is not freed under it,
no wakeup is lost, everyone runs and killed processes exit; a process sees only
its own stores, and frames are neither lost nor freed in use (which this code
does not achieve, see Copy-on-write); a transaction is
atomic across crashes; a pipe is a bounded FIFO; a sector has one buffer and one
user and no write is lost; references, links and blocks are counted exactly, and
an i-node, a file or a pipe is let go with its last reference and not before; the
console is a terminal; a command line is read as the grammar says, runs to its
end and gives the prompt back; the heap is tiled by its blocks; and the kernel
finds in an image what `mkfs` put there.

## Modules

| Module | Models | State and actions |
|---|---|---|
| `Spinlock` | `spinlock.c` | `locked`, `owner` are the two words of a lock; `fl_if`, `ncli`, `intena` belong to a CPU; `pc`, `lk`, `eflags`, `held` are the running activation and `saved` the interrupted one. One action per access to shared words (`PushcliRead`, `PushcliCli`, `AcquireXchg`, `AcquireSetCpu`, `ReleaseClearCpu`, `ReleaseXchg`, `Popcli`), and `Interrupt`, `Iret`. Locks are numbered in the kernel's locking order. |
| `SpinlockProofs`, `ProcProofs`, `LogProofs`, `PipeProofs`, `BufCacheProofs`, `FileTableProofs`, `ConsoleProofs`, `InodeProofs` | | inductive invariants and theorems, see Proofs |
| `Proc` | `proc.c`, `trap.c`, `sys_sleep` | `state`, `pid`, `parent`, `chan`, `killed` are fields of `struct proc`; `ptlock` is the CPU holding `ptable.lock`; `proc` each CPU's process, whose entry is also the scheduler's loop variable; `ctx` what a process resumes when switched to. `due` abstracts `ticks - ticks0 >= n`: a tick makes any subset of those in `sys_sleep` due, and the others go round its loop again. init, which does not call `sleep` (`user/init.c`), stays out of `sys_sleep`. |
| `AtomicDisk` | | what the log promises: transactions that reach the disk whole or not at all |
| `Log` | `log.c` and what it needs of `bio.c` | the disk (`home`, `logdata`, `hn`, `hsector`), the cache (`cache`, `dirty`), `log` (`busy`, `n`, `sector`). One action per disk write, and `Bread`, `Evict`, `Crash`. |
| `Fifo` | | what a pipe promises: a bounded queue with two ends |
| `Pipe` | `pipe.c` | the fields of `struct pipe`, `lock` for `p->lock`, and each process's place and loop counter. `untold` is history: an early return of `pipewrite` has left out its wakeup. `sleep`, `wakeup` and `kill` act atomically, as `Proc` shows they do. |
| `Cow` | the copy-on-write parts of `proc.c`, `vm.c`, `trap.c`, `exec.c`, `kalloc.c`, and `sbrk` | `fr`, `w`, `a` are page table entries (frame, PTE_W, PTE_A), `stale` the writable translations left in the TLB, `free` the free frames, `sz` the size in pages; `pid` says whether the entry has one, which is what the scans look at; `naming` is the child that a parent in `fork` has made RUNNABLE and not yet named; `panicked` the panic that stopped the kernel. |
| `BlockStore` | | what the buffer cache promises: sectors with one user at a time, who reads what was written last |
| `BufCache`, `MCBufCache` | `bio.c`, `ide.c` | `sector`, `busy`, `valid`, `dirty`, `data` are fields of `struct buf`, `mru` is the list; `idequeue`, `cmd`, `irq`, `disk` the driver and the drive. A step is a critical section of `bcache.lock` or `idelock`. Each process has one buffer at a time; `LogWrite` is `log_write`'s pinning of it. `bget`'s panic is the place `nobuffers`. The MC module adds symmetry. |
| `Inode`, `MCInode` | the i-node layer of `fs.c`, `sysfile.c`, `file.c` | `dtype`, `dnlink`, `daddrs` are the i-nodes on the disk, `inum`, `ref`, `busy`, `valid`, `type`, `nlink`, `addrs` the table in memory, `bitmap` the blocks in use, `dir` the root directory; `trans` is the process between `begin_trans` and `commit_trans`, and `file`, `cwd`, `ip` are the pointers each process keeps. A step is a critical section of `icache.lock` or what happens between an `ilock` and its `iunlock`. Every call ends in `Iput` or `Commit`; `Iput` goes on to `IputTrunc` and `IputFree` when it frees, in a transaction of its own, of another process, or of nobody, where `log_write` panics (`logpanic`). The MC module adds symmetry. |
| `FileTable` | `file.c`, the descriptors of `sysfile.c`, `pipealloc`, the files of `fork` and `exit` | `ref`, `type`, `pipe`, `writable` are `struct file`, `ofile` the descriptors; `held` are the references a call has in its locals (`pipealloc`'s two files, what `close` and `exit` pass to `fileclose`), `fd` is `dup`'s new descriptor before `filedup`, `ff` is `fileclose`'s copy. Pipes are only their open flags and their page, i-nodes only a count: `Pipe` and `Inode` start where `fileclose` calls them. |
| `Tty` | | what the console promises: a line under edit, of which the last character or all can be erased, a queue of committed characters, reads that end at a newline, at n characters or at a ^D |
| `Console`, `MCConsole` | `console.c`'s input | `buf`, `r`, `w`, `e` are `struct input`, with indices that wrap; `lock` is `input.lock`, kept by an interrupt for all its characters and by a reader until it sleeps or returns. The MC module adds symmetry. |
| `ShParser` | the parser of `user/sh.c` | `buf` is the line as `gets` fills it; tokens and trees are operators named after the functions, words spans of the line. The second half is the reference: the tokens of a line and the set of trees the grammar gives them. |
| `Sh` | `main` and `runcmd` of `user/sh.c`, with `init`, `cat` and `echo` | per process its place, command, descriptors, `p[2]` and parent; of a pipe how full it is. One action per case of `runcmd` up to the next call that others can notice. `Leave` is the shell at the end of its input or after a failing fork, `Restart` init's answer. |
| `Umalloc` | `user/umalloc.c` | `heap` is the headers, `freep` and the break; `live` the blocks the program has. |
| `Mkfs` | `mkfs.c`, and `IBLOCK`, `BBLOCK`, `bmap`, `readi` of the kernel | `img` is the image in units that each hold an i-node, an entry, a block number or a piece of a file; the bitmap is one unit with the set of its bits. |
| `Programs` | | the last four side by side, one of them running |

A definition whose comment says "Faulty variant" is a plausible mistake in the
definition that follows it; substituted for it, it makes TLC find the named
property violated (`PROJECT.json`, "mutants").

## Runs

Every passing run but `proc_live` and `programs` also checks its module's
`TypeOK`; in `Log` and
`FileTable` it says too that nobody has met one of the code's panics, in `BufCache`
and `Inode` that the only one met is the one named below, in `Pipe` that nobody is in a freed pipe, in `Console` that a full
ring has something to read.

| Run | Instance | Shows |
|---|---|---|
| `spinlock` | 2 CPUs, 2 locks | `MutualExclusion`, `HoldingMeansIntrOff`, `FlagRestored`, `NoPanic`. Two locks give nesting, one level of interrupt is all the interrupt gates allow. |
| `proc` | 4 entries, 2 CPUs, pids to 4, kill of pid 3, failing allocations | `StackOwned`, `TickNoticed`, `FamilyInOrder`. Four entries give a grandchild whose parent exits while it is a zombie, and init asleep in `wait`. |
| `proc_live` | 3 entries, 1 CPU | `RunnableRuns`: processes compete for one CPU, which is where starvation could happen. `KilledExits`: a kill may find its target anywhere, between a test of `p->killed` and the `sleep` that follows too. |
| `log` | 3 blocks, 2 values, 2 processes, transactions of 2 blocks | `OneTransaction`, no panic, and the refinement of `AtomicDisk`. A transaction of two blocks can be torn; a third block is evicted and read meanwhile. |
| `pipe` | buffer of 2, counters modulo 6, 2 readers, 1 writer, sizes 0, 1, 3 | `SleepersMustWait` and the refinement of `Fifo`. Size 3 exceeds the buffer, so calls sleep in mid-loop; the counters wrap. |
| `buf` | 3 buffers, 4 sectors, 2 processes, 2 pinned blocks | `OneBufferPerSector`, `SleepersServed`, no panic but `bget: no buffers`, and the refinement of `BlockStore`. With more sectors than buffers, a buffer is recycled while someone sleeps for it, and pinned ones stand in the way until none is left. |
| `inode` | 2 processes, 2 names, 2 i-nodes beside the root, 2 blocks | `RefsCounted`, `DiskConsistent`, no panic of `iput` and `unlink`. Two names give a file with two links, and one process that opens, links, writes, executes or makes its current directory what the other unlinks; two i-nodes are reused as soon as they are freed. |
| `files` | 2 processes, 3 files, 2 descriptors each, one pipe | `RefsCounted`, `ClosedWithLast`, no panic. A pipe takes two of the three files and both descriptors, so every allocation can fail, and a fork shares what is left. |
| `console` | ring of 4, indices modulo 8, 2 readers, reads of 1 and 4 | `SleepersMustWait` and the refinement of `Tty`. A read of 4 empties the ring, which is filled by lines that have no newline yet; `^U` has up to three characters to erase. |
| `programs` | lines of up to 5 of the 9 kinds of characters; 13 command lines, 6 processes of which one may be left of earlier lines, 2 pipes of one byte; a heap of 10 units; an image of 16 blocks, 5 i-nodes | `ParsesTheGrammar` on every line; `PromptsWhenDone`, `PromptsAgain`; `HeapTiled`; `ImageMounts`. Five characters hold every pair of nested constructs; the command lines have pipelines of three, lists and background jobs inside pipelines, readers that never read and more processes than entries; the heap has room for two chunks and a hole between them; files need an indirect block, run into the log and beyond the image, i-nodes into the bitmap, and the root's entries fill its last block. |
| `cow_kernel` | 4 entries, programs of 3 to 4 pages, 12 frames | violation of `NoPanic`: a system call that stores into a shared page panics |
| `cow_shared` | the same | violation of `NoSharedWritable`: a page becomes writable in one process while another maps its frame |

`pipe` and `programs` do not check deadlock: all ends of the pipe may be
closed, or the program has ended. In `buf` and `inode` a panic stops the process
that meets it and lets the others go on, which is more than the machine does;
`Halted` stands for the stop. The other runs do: locks, buffers, i-nodes, transactions and the console's
readers never wait for each other in a circle.

### Copy-on-write

`Cow` has no passing run: it describes what the code does, and the code keeps
neither of the promises that its comments and tests make. `cow_kernel` and
`cow_shared` give the shortest behaviours; the second is

1. a program forks and has never accessed its second page; both processes have
   the same entry for it, without PTE_W and PTE_A;
2. the parent loads from the page, and the hardware sets PTE_A in its entry;
3. the parent stores to it. `isshared` compares all bits of the entries
   (`proc.c:156`), finds nobody with the same one, and `copypage` sets PTE_W on the
   frame that the child still maps.

`NoSharedWritable` fails in a second way, also for pages that were accessed before:
the scan of `isshared` stops at the first entry whose pid is 0 (`proc.c:138`), so
that sharers behind the entry of a reaped process are missed. A failed `fork`, in
turn, leaves its pid in a free entry whose page directory is null or freed; what
the scans find there is arbitrary (`Garbage`), and frames are copied without need,
or never freed, or the kernel panics.

Other steps end with a frame on the free list that a live process maps:
`exec` (`exec.c:92`) and a shrinking `sbrk` (`proc.c:123`) free what is shared,
`wait` frees what a process shared with a zombie before it wrote to it (`isshared`
skips zombies, `proc.c:142`), and a
child of init or sh that forks before it has its name (`proc.c:321`) shares what
is then freed. The free list goes through the frames, so anything may follow,
and the model stops there (`Corrupted`). The stale writable translations of the
TLB, which `fork` does not flush (`proc.c:303`), are in the model, but the
contents of pages are not, so that nothing is said about stores through them.

### Freeing outside a transaction

`exit` (`proc.c:345`), `chdir` (`sysfile.c:372`), a failing `open`
(`sysfile.c:308`) and `exec` (`exec.c:49`, `99`) call `iput` without
`begin_trans`. When the i-node was unlinked meanwhile this is the call that
frees it: `log_write` panics, or, if another process is in a transaction, the
writes join that one. The run and the proofs cover both: the panic is reachable,
and in the other case references, links and blocks stay right. `itrunc` is one
step, so that the other process's commit cannot come between a `bfree` and the
`iupdate` that forgets the block; with a crash after such a commit the block
would be free and in use on the disk. The tables are large enough for `iget`,
`ialloc` and `balloc` not to panic.

### The assumptions of `buf`

Nothing keeps processes and pinned blocks from taking every buffer: NBUF and
LOGSIZE are both 10, while a transaction that pins k blocks needs k + 1 buffers
and every other process in the file system one or two more. `bget` then panics
("bget: no buffers"), in the run too, where two pinned blocks and one process leave
nothing to the other. A process has one buffer at a time in the model, while
`log_write`, `install_trans` and `bmap` hold two: the code meets the panic
earlier. `iderw`'s panic without a second disk is left out. A failing read is excluded
(`ReadSucceeds = {TRUE}`): `ideintr` marks the buffer valid all the same, with
what it held before, and the refinement fails.

### The assumptions of `programs`

The user types the next line when at most `MaxLeft` = 1 process of the lines before
is left (background jobs, and what a panic left behind). init's own fork does not
fail. `cat` at the console is ended by ^D. A `cd` line changes nothing that is kept,
and is no step. The heap starts without foreign memory, and the program may
call `sbrk` between any two calls of `malloc`.

`mkfs` does not compare what it is given with `nblocks` and `ninodes`, and
rounds the size of the root up to the next block even if it fills its last one
(`mkfs.c:151`). `ImageMounts` says that a finished image is what the kernel expects
if and only if the data ends before the log, the i-nodes before the bitmap, and
the root has room for one more entry in its last block. An image whose data goes
beyond the last block is not finished: `rsect` cannot read the block back and
`mkfs` exits.

### What `proc` leaves open

A fork that fails gives its entry back with its pid. `kill` of that pid finds the
free entry, marks it killed and, as `allocproc` does not clear the mark, the
next process created there is born killed. No property rules this out;
`FamilyInOrder` speaks of the entries in use. A kill between the test of
`p->killed` in `sys_sleep` and its `sleep` leaves the process asleep until the next
tick: `TickNoticed` speaks of ticks only, and `KilledExits` says that it exits in
the end. In a pipe nothing but the other end wakes such a process.

### What `pipe` leaves open

`pipewrite` wakes the readers when it sleeps and when it is done, but not when it
returns early, killed or with the readers gone (`pipe.c:85`). A reader that sleeps
then stays asleep beside a full buffer until another write or the close.
`SleepersMustWait` allows this sleeper, and only as long as nothing has announced
the bytes (`untold`).

## Fairness

`Proc!FairSpec` assumes that CPUs and their clocks go on, that a process given
the CPU again and again gets on with its kernel code, that a CPU spinning for a
lock that is free again and again obtains it, and that a pending interrupt is
delivered once interrupts are on. `xchg` promises no fairness, so the third is
an assumption about the hardware, as is the last; nothing is assumed about user
programs. A process may be preempted between `sleep`'s two locks, but not while it
spins for the second, since `acquire` turns interrupts off first: without that a
killed process could wait for `tickslock` for ever. The pipe, the console and
the buffer cache have no liveness run: `SleepersMustWait` and `SleepersServed`
say that who sleeps has a reason to, so no wakeup was lost.

`Sh` assumes that as long as some process can take a step one does (`ShFair`): the
scheduler never idles beside a runnable process. Nothing is said of which one,
nor that anybody types. A command line has only finitely many steps, so this is
enough for `PromptsAgain`; what could break it is everyone waiting for everyone.

## Proofs

Each theorem below says that an invariant of a run holds in every behaviour of
`Spec`, or that every behaviour of `Spec` is one of the abstract specification,
for all values of the constants that satisfy the module's `ASSUME`. None of the
invariants is inductive; each proofs module defines the strengthening `IInv`,
which was model-checked before it was proved, has one lemma per action or group
of actions, and combines them in `NextIInv`.

| Module | Theorems | Assumption |
|---|---|---|
| `SpinlockProofs` | `TypeCorrect`, `LocksExclude`, `NoInterruptWhileHolding`, `FlagIsRestored`, `PanicFree` | any CPUs, any finite set of locks |
| `ProcProofs` | `TypeCorrect`, `StacksOwned`, `NoLostTick`, `Family` | any table size, CPUs, bound on pids |
| `LogProofs` | `TypeCorrect` (with it, no panic), `TransactionsExclude`, `Refinement` of `AtomicDisk` | transactions shorter than the log (`MaxBlocks < LOGSIZE`), at least one block |
| `PipeProofs` | `TypeCorrect`, `NoLostWakeup`, `Refinement` of `Fifo` | PIPESIZE divides the modulus of the counters and is smaller; at least one byte value |
| `BufCacheProofs` | `TypeCorrect` (with it, no panic of `bwrite`, `brelse`, `iderw`), `Exclusive`, `NoLostWakeup`, `Refinement` of `BlockStore` | any finite set of buffers, any sectors and processes; reads succeed, for the refinement only |
| `FileTableProofs` | `TypeCorrect` (with it, no panic), `RefsExact`, `LastCloses` | any finite set of processes, any number of files, descriptors and pages |
| `ConsoleProofs` | `TypeCorrect`, `NoLostWakeup`, `Refinement` of `Tty` | INPUT_BUF divides the modulus of the indices and is smaller; reads of any size |
| `InodeProofs` | `TypeCorrect` (with it, no panic of `iput` and `unlink`), `RefsExact`, `DiskSound` | any finite sets of processes and names, any number of blocks and of i-nodes (the root's at least) with an entry for each |

**Spin locks.** `IInv` adds, per CPU, `CountInv` (`ncli` is the number of locks
held plus the `pushcli` in progress; it and `inintr` decide FL_IF; while it is
positive `intena` says whether the activation started interruptible), `FrameInv`
(what a place in the code says of its operand), `SavedInv` (an interrupted
activation held nothing and was at most inside `pushcli`, where its saved flag is
still set), and `LockInv` (the two words of a lock agree with who won it).
The CPU that moves keeps its part and, with `OtherCPU` and `LocksAlone`, the
others keep theirs.

**Processes.** `StackOwned` needs to know why a CPU may leave a process that is no
longer RUNNING: it holds `ptable.lock` from the change of state to the
scheduler's return (`CpuInv`), and where a process is agrees with the context it
will resume (`SlotInv`). `ForkInv` says that an embryo belongs to one fork, which
is what lets `fork` and `allocproc` write `p->state` without the lock. `TickInv`
says that `tickslock` is held from the test of `ticks` up to `sleep`.
`FamilyInv` adds that init is alive and parentless, so that `exit` has someone to
pass children to. That the first free entry and a fresh pid exist is shown with
the least element of a set of numbers.

**Log.** The refinement maps the disk of `AtomicDisk` to what a reboot would
restore. `HeaderInv` says which header is on the disk at each place, and that it
names a block once; `CacheInv` says that a buffer is pinned exactly while its
log sector is still to be installed and holds the same then, and that a clean
buffer and an installed log sector hold what the home sector holds. A crash at
any point then maps to a step in which the transaction has happened or has
not, and writing the header's `n` is the step at which it happens.

**Pipe.** The queue of `Fifo` is the bytes from `nread` to `nwrite`, found in the
ring modulo PIPESIZE while the counters wrap at another modulus; the lemmas on
`%` that come first carry this across a wrap. `UsedInv` bounds their distance,
`LockInv` says who is in a loop, `EndsInv` when an end is closed, and `SleepInv`
strengthens `SleepersMustWait` by the intermediate states: a sleeper that has no
reason to sleep any more has a process in its loop that is going to wake it.

**Buffer cache.** `UserInv` and `FlagInv` tie the flags to the place of the
buffer's user, `QueueInv` says that the disk queue holds the requests of the
sleepers in `iderw`, each once, with the drive working on the first. The refinement is proved
under `ReadSucceeds = {TRUE}`, which `CleanInv` needs (a clean valid buffer holds
what the disk holds): a failed read leaves the old contents marked valid, see
above.

**Open files.** `RefsCounted` counts the members of `Place`, the descriptors and
locals of all processes. A step changes what one place keeps, or moves a file
from one place to another; `GainRefs`, `LoseRefs` and `MoveRefs` say how the
count follows. `LocalInv` says which locals a call has set at each place, and
that a `dup`, read or write has another descriptor on its file: that keeps the
file from being closed under it, as only the process changes its descriptors.
`LifeInv` says that a fork's child does not run and has one parent. `FreshInv` is
what `open` and `pipe` rely on when they set the fields of a file without the
lock: until then no other place knows the file. `EndInv` says that one file at
most leads to an end of a pipe, or one `fileclose` is about to close it, and that
the end is open exactly as long; `InodeInv` counts the i-node references of files
and of calls on their way. `LastCloses` follows from these with `FileInv`: a file
that has a type has references.

**Console.** As in the pipe, the terminal's line and queue are found in the ring
modulo INPUT_BUF while the indices wrap at another modulus. Every place is
measured from `r`: `Ready` characters can be read, `Used` are in the ring
(`RingIs`), the k-th is `Text(k)`, and `Layout` says that queue and line are
these characters in this order. `EditIs` reduces the cases of `consoleintr` to
two, a character joins the ring (`Inserts`) or some leave the line (`Erases`, for
`^U` as many as back to the newline or the committed part). `LineInv` says that the
line has no newline, so that `^U` erases all of it (`KillIs`), which is what `Tty`
allows. `SleepInv` extends `SleepersMustWait` to the
reader that has seen the empty ring and still holds the lock.

**I-nodes.** `LocalInv` says what a call has in its locals at each place, and that
it is in its transaction where it relies on the disk. `RefInv` and `EntryInv` are
`RefsCounted`; `Change` says how a count follows when a function changes at one
argument, for pointers and names alike. `LockInv` says that I_BUSY is set exactly
while one call has the i-node locked, `CopyInv` that a valid copy in memory is the
i-node on the disk, so that what `iput` decides on the copy is right for the disk,
and `ValidInv` that `iput` never looks at a copy that was not read. `LinkInv`
extends the count of the names to the middle of a transaction: link(2) counts a
link before it makes the name, or takes it back. `DirInv` adds that a directory has
one name, which makes `rootnlink` (`RootInv`) follow. `TransInv` is what a call
found in its transaction and still relies on: the name is free, the i-node is the
one that was looked up. `FreeInv` is what a call that frees relies on, in
whosever transaction: it has the last reference, no name is left, and after
`itrunc` no block. The bounds of the link
counts in `TypeOK` are a second invariant on top of `IInv`.

What stays with TLC: the liveness properties (`RunnableRuns`, `KilledExits`,
`PromptsAgain`), as the prover does not treat fairness; `ShParser` and `Sh`, whose
recursive operators it cannot handle; `Umalloc` and `Mkfs`, whose properties are
about what loops over their data compute and would need induction over it; and
`Cow`, whose two properties are false of the code.

## Not modelled

`getcallerpcs`, `procdump`; page directories and sharing of whole page tables
(programs larger than 4 MB); an entry that other CPUs see while `fork` fills it;
`sched`'s saving of `intena` across a migration; negative arguments of `sleep`;
directories below the root's own, device files and `stati`; a process that holds
two buffers; a second disk; the contents of pages; a crash while an i-node is being
freed in another's transaction; init's own failures; ELF loading; the bounds checks of `syscall.c`; scan codes, the screen,
device registers and boot; the user programs that only wrap a system call or two,
and the tests. `PROJECT.json` lists every component with the reason.

## Plan

1. `Inode`: nested directories, so that a directory can be removed while a
   process creates a file in it, and lock order along a path matters.
2. `Cow`: entries seen while they are created (`proc.c:145`), sharing of page
   tables.
