# A TLA+ model of the openproninx kernel

This directory specifies the concurrent and crash-sensitive parts of the
openproninx kernel in TLA+, model-checks them with TLC on small instances and
proves the write-ahead log's safety with TLAPS for every instance.

## The system

openproninx is an x86_64 kernel for several processors, descended from xv6,
with its user programs and boot loaders. Its parts, and how they meet:

| Part | State | Operations | Meets |
|---|---|---|---|
| Processes, `proc.c`, `trap.c`, `sysproc.c` | the process table under `ptable.lock`, what each CPU runs | fork, exit, waitpid, kill, signals, sleep, wakeup, scheduler, yield | everything that sleeps |
| Buffer cache, `bio.c`, `sleeplock.c` | buffers with flags, reference counts, a sleep lock each, an LRU list | bread, bwrite, brelse | the disk driver below, log and file systems above |
| Disk drivers, `ide.c`, `storage/ahci.c`, `storage/nvme.c`, `ramdisk.c` | request queue or rings | submit, interrupt, poll, timeout | buffer cache, block devices |
| Write-ahead log, `log.c` | header in memory and on disk, log area, call count | begin_op, log_write, end_op, commit, recovery | pins buffers, brackets every native file-system call |
| Native file system, `fs.c`, `sysfile.c`, `file.c` | inodes on disk, the inode cache, directory entries, open files | iget, ilock, iput, path lookup, create, link, unlink, open, close, read, write | log, buffer cache |
| UFS2, `ufs2.c`, and FAT32, `fat32.c` | bitmaps, inodes, directories, cluster chains | allocation, growing writes, directory updates, without a journal | block devices, inode cache |
| Pipes, `pipe.c` | ring, counters, open flags | read, write, close | files, sleep and wakeup |
| Console, `console.c`, `kbd.c`, `uart.c` | an input ring per terminal, the active terminal, foreground pids | key interrupt, read, write, switch | signals, files |
| Network, `net/` with vendored lwIP | the interface, UDP and TCP slots, one DNS and one ping request | send, receive, accept, timers, process exit | drivers, sleep and wakeup |
| Memory, `kalloc.c`, `vm.c`, `exec.c` | free list, page tables | kalloc, kfree, copyuvm, exec | processes |
| Spin locks, `spinlock.c` | lock words, interrupt nesting of each CPU | acquire, release, pushcli, popcli | everything |
| Services and shutdown, `fnustate.c`, `user/fnusvc.c`, `user/init.c`, `shutdown.c` | service table, one-command mailbox, hand-off of a halt | start, stop, reap, halt | processes, drivers |
| Accounts, `auth.c`; display; clock; boot loaders; user programs | | | |

What is hard in it: several CPUs and interrupts interleave between any two
critical sections; a value tested under one lock is used after it is dropped
(`bget()`, `iput()`, `log_write()`, path lookup); sleepers depend on a wakeup
on the right channel at the right moment, and a signal may wake them early;
power may fail between two disk writes; a transfer may fail; slots, buffers,
cache entries and pids are reused; counters wrap. `PROJECT.json` lists each
such place under `hazards`, with the property that guards it or the reason
none does yet.

## Modules

| Module | Models | State and actions |
|---|---|---|
| `Log` | `kern/log.c`, with the part of the buffer cache and disk it relies on | Disk: `home`, `dlog`, `dhead`. Memory: `buf`, `dirty`, `lh`, `outstanding`, `committing`. Actions carry the names of the functions. `Crash` may happen in any state, during recovery too. |
| `AtomicStore` | abstract: what the log promises | Blocks become stable all together, while no call is in progress. |
| `LogProofs` | proofs about `Log` | |
| `BufferCache` | `kern/bio.c`, `kern/sleeplock.c`, the queue of `kern/ide.c` | Fields of `struct buf`, the list, the drive's queue. One action per critical section. |
| `Inode` | the inode cache of `kern/fs.c` and link, unlink, create, open and close of `kern/sysfile.c` and `kern/file.c`, native file system | On-disk inodes `din` and entries `ent`, `icache` as `ino` and `lock`, locals of each call in `reg`. |
| `Proc` | `kern/proc.c` with the killed tests of `kern/trap.c` | Fields of `struct proc`, `cpu`, and the place `kpc` of each process in the kernel. |
| `Pipe` | `kern/pipe.c` with the file references that keep it alive | Fields of `struct pipe`; the counters wrap at `Modulus`. |
| `Channel` | abstract: what a pipe promises | A bounded byte queue. |
| `MC*` | instances for TLC | |

Conventions. A critical section under a spin lock is one action; every point
where the code drops the lock ends the action. A process asleep is a value of
its control point, and `wakeup()` moves the sleepers of a channel. A signal
(`raise_on()`) wakes a sleeper whatever it waits for, so the modules let it
happen. `panic()` stops the CPU that calls it and leaves its locks taken.
Block contents, names and bytes are members of small sets. Definitions named
`X_Y` with the comment "Mutant" are deliberately wrong versions of `X`, kept
to show that a property notices the mistake; no specification uses them.

Modelling decisions worth knowing:

- `Log`: writes of the log area are synchronous (`bwrite()` waits), so the
  area has no cached copy apart from the disk. A call writes at most
  `MAXOPBLOCKS` distinct blocks, as `param.h` says. The capacity test of
  `log_write()` runs before `_log.lock` is taken, so it is an action of its
  own (`LogCheck`), before `LogAppend`.
- `BufferCache`: a history variable `latest` keeps what was last written to
  each block. `Zero` makes the zeroed buffers of `binit()` name a real block.
- `Inode`: what runs under an inode's lock touches only what the lock
  protects, so it is one action together with the one `icache.lock` section
  in it; locks held longer stay in `lock`. The inodes of the model share one
  disk block, so `ialloc()` scans them in one step. `inode_access()` may
  refuse at any place it is called. Every process's current directory is the
  root; `.` and `..`, `chdir()`, file contents and devices are left out.
- `Proc`: pending SIGKILL is not kept, since the bit is only ever read
  masked by a mask that excludes it. A history variable `victim` remembers
  whom a fatal signal was meant for.
- `Pipe`: from the last test to `sleep()` is an action of its own, because
  `kill()` does not take the pipe's lock.

## Runs

| Run | Shows |
|---|---|
| `log_safety` | 2 processes, 3 blocks, crashes anywhere. The log implements `AtomicStore` (`ImplementsStore`); a commit runs alone; logged blocks stay pinned until installed; a sleeper in `begin_op()` has a waker. |
| `log_liveness` | 3 processes, a header with room for 2 calls. `begin_op()`'s reservation is never overdrawn; sleepers are woken and commits end. |
| `log_overrun` | violation: `LogFits`. |
| `cache_safety` | 3 processes, 2 buffers, 3 blocks. One buffer per block, exact reference counts, one user at a time, every holder sees the last contents, clean blocks are on disk, no lost wakeup on locks or transfers. |
| `cache_failed_read` | violation: `ValidMeansRead`. |
| `inode_safety` | 2 processes over `/a`, `/a/b` and `/b`. One cache entry per inode, exact references on failing paths too, a cache that agrees with the disk, link counts that cover the links, and no process finds an inode it looked up freed. |
| `inode_deadlock` | violation: `NoDeadlock`. |
| `inode_leak` | violation: `NoLeak`. |
| `proc_safety` | 3 slots, 2 CPUs, 3 pids. No process on two CPUs, every process has a parent able to reap it, pids are unique, no zombie is overlooked by a sleeping parent, embryos are owned. |
| `proc_liveness` | 2 slots, 1 CPU. A killed process reaches `exit()`. |
| `proc_reborn_killed` | violation: `KilledMeansSignalled`. |
| `pipe` | 2 processes sharing both ends, ring of 2, counters modulo 4. The ring implements `Channel`, nobody uses it after it is freed, nobody sleeps on a condition that holds. |

Where the code disagrees with what the repository says of it (`findings`):

- `log_overrun`: two processes pass the unlocked capacity test together and
  the transaction outgrows the log area.
- `cache_failed_read`: a failed read leaves a buffer marked `B_VALID` that was
  never filled.
- `inode_deadlock`: `sys_link()` walks its second path with the first inode
  locked, while `sys_unlink()` locks parent before child; `link(a, b)` and
  `unlink(a)` then wait for each other, both inside a transaction.
- `inode_leak`: an inode number reused inside the window of `iput()` shares
  its cache entry; its own last `iput()` sees two references and does not
  free, and the first only counts down.
- `proc_reborn_killed`: a signal to an embryo whose `fork()` fails stays in
  the slot, and the next process there is born killed.

### Bounds

Two or three processes are enough for every hazard listed: each is a conflict
of two actors, and the third is there where a bystander must be woken or must
not be admitted. Buffers are fewer than blocks, so recycling happens. The log
holds two calls, so one fills it. The three
blocks of `log_safety` just fit its log area (`SIZE - 1 = 3`), and the overrun
is left to `log_overrun`, which has a fourth. In the pipe a write may be longer than the ring, and the
counters wrap after two turns. `MaxPid` lets a slot be reused. With three
slots a dying process with a child is itself a child of init, so the wakeup
of init for an inherited zombie coincides with that of the parent. `MCCalls` names the calls of the inode runs;
`NoPanicYet` follows a behaviour only up to its first panic, since a stopped
CPU keeps its locks. With `NINODE = NInum` the cache never fills; an instance
with four inodes on three entries (4.4 million states, without `open` and
`unlink` of `/a/b`) reaches the "no inodes" panic of `iget()` and keeps the
same invariants.

Symmetry in the processes (and in blocks, values, CPUs where a run uses it) is
sound: nothing orders them, and the runs that use it check invariants and the
step simulation of a refinement, no liveness.

Deadlock is checked where the system cannot stop (`log_*`). The other runs
turn it off: all processes may have closed the pipe, exited, or, in `Inode`,
wait for each other as the finding shows.

### Fairness

`log_liveness`: weak fairness of each process's next step, because the
scheduler runs every runnable process and a disk write ends; strong fairness
of `end_op()`, because a call makes finitely many `log_write()`s and then
returns. Nothing is assumed of `Enter`, signals, recycling or crashes.

`proc_liveness`: strong fairness of being scheduled, since `scheduler()` scans
round robin and the timer preempts whoever runs; strong fairness of the kernel
code a process is in. Nothing is assumed of what a program chooses to do.

## Proofs

`LogProofs` proves, for any finite set of processes, any blocks and contents,
any `LOGSIZE >= MAXOPBLOCKS >= 1` and any size of the log area
(`LogAssumption`), with crashes and recoveries at every point:

| Theorem | States |
|---|---|
| `Inductive` | `Spec => []IInv` |
| `TypeCorrect` | `Spec => []TypeOK`: every index `install_trans()` uses is in range |
| `CommitsAlone` | `Spec => []CommitAlone` |
| `StaysPinned` | `Spec => []PinnedUntilInstalled` |
| `SleepersWakeable` | `Spec => []SleeperHasWaker` |
| `ReservationHolds` | `Spec => []Reserved` |

None of the invariants is inductive alone. That install indices are in range
needs the reservation; the reservation needs to know that a call's blocks are
in the header until it ends (`CallInv`), since absorption makes the room used
depend on what others logged; that a call logs into the running transaction
and not into a commit needs `CommitAlone`; and recovery needs the header to be
empty between transactions and free of duplicates (`HeaderInv`). `IInv` is
their conjunction. The reservation is counted in tokens: `Credit` has one for
each block a call in progress may still write, `Reserved` bounds header and
tokens together, and each action is shown to trade at least one token for each
block it appends. There is one lemma per action, and the theorems follow.

Only model-checked: the refinement of `AtomicStore`, everything about
`BufferCache`, `Inode`, `Proc` and `Pipe`, and all liveness, which is outside
the prover's reach (fairness and ENABLED).

## Plan

In this order:

1. `SpinLock` (acquire, release, interrupt nesting, sleeping with a second
   lock held), which the other modules take for granted.
2. `Console`: input ring, line editing, signals and blocked readers.
3. `Net`: UDP, TCP, DNS and ping slots with timeouts and callbacks.
4. `Ufs2`: allocation and directory updates with failures between writes.
5. `Ahci` and `Nvme` beside the IDE queue, refining one abstract disk.
6. `Services`: `fnustate`, `fnusvc`, `init` and the shutdown hand-off.
7. `FileData`: `bmap`, `balloc`, `readi` and `writei` over the log, and the
   composition of log and buffer cache with `NBUF = LOGSIZE`.
8. `Memory`: free list and pages through fork, exec and exit; pure algorithms
   (`vmem_alloc`, byte ranges of `blockdev.c`, UTF-8 decoding, path elements)
   against reference definitions.

Proofs to follow: `AtomicStore` refinement of the log; `OneBufferPerBlock`,
`RefcntExact` and `OneUser` of the buffer cache; `OneSlotPerInode` and
`RefExact` of the inode cache; `PidUnique`, `OneCpuEach` and `ParentCanReap`
of the process table; `NoUseAfterFree` and the channel refinement of the pipe.
As parts are added, runs with disjoint state are merged so that the project
keeps one run for each question.

Not modelled, and not planned: start-up of processors, display, clock,
firmware calls, boot loaders, argument checking of system calls, the shell and
other sequential user programs. `PROJECT.json` gives the reason for each.
