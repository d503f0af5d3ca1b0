-------------------------------- MODULE Log --------------------------------
(***************************************************************************)
(* The redo log of kern/log.c over the buffer cache and the disk, with     *)
(* power failures between any two disk writes.                             *)
(*                                                                         *)
(* `home', `dlog' and `dhead' are on disk: the home locations of the       *)
(* blocks, the data blocks of the log area (block start+i is dlog[i]) and  *)
(* the header block, kept as the sequence block[0..n-1].  Everything else  *)
(* is memory: `buf' and `dirty' are the cached home blocks and their       *)
(* B_DIRTY flags, `lh', `outstanding' and `committing' are struct log.     *)
(* A block of the log area is written through (bwrite returns when the     *)
(* disk has it), so its cached copy is not kept apart from dlog and dhead. *)
(***************************************************************************)
EXTENDS Integers, Sequences, FiniteSets, SequencesExt

CONSTANTS
  Proc,         \* processes making file-system calls
  Block, Val,   \* home block numbers, block contents
  None,         \* "no buffer holds this block"
  LOGSIZE,      \* capacity of the in-memory header, kern/param.h
  MAXOPBLOCKS,  \* blocks one file-system call may write, kern/param.h
  SIZE          \* _log.size: blocks of the log area, header included

ASSUME LogAssumption ==
  /\ LOGSIZE \in Nat /\ MAXOPBLOCKS \in Nat \ {0} /\ SIZE \in Nat \ {0}
  /\ MAXOPBLOCKS <= LOGSIZE
  /\ IsFiniteSet(Proc)
  /\ None \notin Val

VARIABLES
  home, dlog, dhead,                 \* disk
  buf, dirty,                        \* buffer cache
  lh, outstanding, committing,       \* struct log
  pc,      \* control point of each process
  arg,     \* the <<block, contents>> a process is about to log
  wrote,   \* blocks logged by the current call of each process
  tail,    \* loop counter of write_log / install_trans
  mode     \* "boot" | "recover" | "up": the machine

disk == <<home, dlog, dhead>>
vars == <<home, dlog, dhead, buf, dirty, lh, outstanding, committing,
          pc, arg, wrote, tail, mode>>

\* panic() stops only the CPU that calls it: "panicked" is final, with the
\* buffer of `arg' still locked, and the other processes go on.
PC == {"idle", "begin", "sleeping", "inop", "logging",
       "write_log", "install", "finish", "panicked"}

NoArg == <<None, None>>

TypeOK ==
  /\ home \in [Block -> Val]
  /\ dlog \in [1..LOGSIZE -> Val]
  /\ dhead \in Seq(Block)
  /\ buf \in [Block -> Val \cup {None}]
  /\ dirty \in SUBSET Block
  /\ lh \in Seq(Block)
  /\ outstanding \in Nat
  /\ committing \in BOOLEAN
  /\ pc \in [Proc -> PC]
  /\ arg \in [Proc -> (Block \X Val) \cup {NoArg}]
  /\ wrote \in [Proc -> SUBSET Block]
  /\ tail \in Nat \ {0}
  /\ mode \in {"boot", "recover", "up"}

\* The contents bread(b) returns: the cached copy, else the disk's.
Bread(b) == IF buf[b] = None THEN home[b] ELSE buf[b]

\* Mutant: a commit in progress is not waited for.
Admit_DuringCommit == Len(lh) + (outstanding + 1) * MAXOPBLOCKS <= LOGSIZE

\* Mutant: only the caller's own blocks are counted.
Admit_OwnOnly == ~committing /\ Len(lh) + MAXOPBLOCKS <= LOGSIZE

\* begin_op's admission test.
Admit == /\ ~committing
         /\ Len(lh) + (outstanding + 1) * MAXOPBLOCKS <= LOGSIZE

\* wakeup(&_log), applied to a vector of control points.
Wakeup(f) == [q \in Proc |-> IF f[q] = "sleeping" THEN "begin" ELSE f[q]]

Init ==
  /\ home \in [Block -> Val]
  /\ \E v \in Val : dlog = [i \in 1..LOGSIZE |-> v]
  /\ dhead = <<>>
  /\ buf = [b \in Block |-> None] /\ dirty = {}
  /\ lh = <<>> /\ outstanding = 0 /\ committing = FALSE
  /\ pc = [p \in Proc |-> "idle"]
  /\ arg = [p \in Proc |-> NoArg]
  /\ wrote = [p \in Proc |-> {}]
  /\ tail = 1
  /\ mode = "boot"
-----------------------------------------------------------------------------
(* File-system calls.                                                      *)

\* A process enters a file-system call.
Enter(p) ==
  /\ mode = "up" /\ pc[p] = "idle"
  /\ pc' = [pc EXCEPT ![p] = "begin"]
  /\ UNCHANGED <<disk, buf, dirty, lh, outstanding, committing, arg, wrote,
                 tail, mode>>

\* One turn of the loop of begin_op(), under _log.lock.
begin_op(p) ==
  /\ mode = "up" /\ pc[p] = "begin"
  /\ IF Admit
     THEN /\ outstanding' = outstanding + 1
          /\ pc' = [pc EXCEPT ![p] = "inop"]
     ELSE /\ pc' = [pc EXCEPT ![p] = "sleeping"]
          /\ UNCHANGED outstanding
  /\ UNCHANGED <<disk, buf, dirty, lh, committing, arg, wrote, tail, mode>>

\* raise_on() makes any sleeper runnable; begin_op() then tests again.
raise_on(p) ==
  /\ mode = "up" /\ pc[p] = "sleeping"
  /\ pc' = [pc EXCEPT ![p] = "begin"]
  /\ UNCHANGED <<disk, buf, dirty, lh, outstanding, committing, arg, wrote,
                 tail, mode>>

TooBig == Len(lh) >= LOGSIZE \/ Len(lh) >= SIZE - 1

\* The call bread()s block b, changes it to v and calls log_write(), whose
\* capacity tests run before _log.lock is taken.  The buffer stays locked.
LogCheck(p, b, v) ==
  /\ mode = "up" /\ pc[p] = "inop"
  /\ Cardinality(wrote[p] \cup {b}) <= MAXOPBLOCKS
  /\ \A q \in Proc : arg[q][1] # b
  /\ arg' = [arg EXCEPT ![p] = <<b, v>>]
  /\ pc' = [pc EXCEPT ![p] = IF TooBig \/ outstanding < 1 THEN "panicked"
                                                          ELSE "logging"]
  /\ UNCHANGED <<disk, buf, dirty, lh, outstanding, committing, wrote, tail,
                 mode>>

\* Mutant: the buffer is not pinned.
LogAppend_NoPin(p) ==
  LET b == arg[p][1] IN
  /\ mode = "up" /\ pc[p] = "logging"
  /\ lh' = IF b \in ToSet(lh) THEN lh ELSE Append(lh, b)
  /\ buf' = [buf EXCEPT ![b] = arg[p][2]]
  /\ wrote' = [wrote EXCEPT ![p] = @ \cup {b}]
  /\ arg' = [arg EXCEPT ![p] = NoArg]
  /\ pc' = [pc EXCEPT ![p] = "inop"]
  /\ UNCHANGED <<disk, dirty, outstanding, committing, tail, mode>>

\* The locked part of log_write(): absorb or append, pin the buffer.
LogAppend(p) ==
  LET b == arg[p][1] IN
  /\ mode = "up" /\ pc[p] = "logging"
  /\ lh' = IF b \in ToSet(lh) THEN lh ELSE Append(lh, b)
  /\ dirty' = dirty \cup {b}
  /\ buf' = [buf EXCEPT ![b] = arg[p][2]]
  /\ wrote' = [wrote EXCEPT ![p] = @ \cup {b}]
  /\ arg' = [arg EXCEPT ![p] = NoArg]
  /\ pc' = [pc EXCEPT ![p] = "inop"]
  /\ UNCHANGED <<disk, outstanding, committing, tail, mode>>

\* The first critical section of end_op(): the last call starts the commit.
end_op(p) ==
  /\ mode = "up" /\ pc[p] = "inop"
  /\ outstanding' = outstanding - 1
  /\ wrote' = [wrote EXCEPT ![p] = {}]
  /\ \/ /\ committing
        /\ pc' = [pc EXCEPT ![p] = "panicked"]
        /\ UNCHANGED <<committing, tail>>
     \/ /\ ~committing /\ outstanding = 1
        /\ committing' = TRUE
        /\ tail' = 1
        /\ pc' = [pc EXCEPT ![p] = IF lh = <<>> THEN "finish" ELSE "write_log"]
     \/ /\ ~committing /\ outstanding # 1
        /\ pc' = Wakeup([pc EXCEPT ![p] = "idle"])
        /\ UNCHANGED <<committing, tail>>
  /\ UNCHANGED <<disk, buf, dirty, lh, arg, mode>>
-----------------------------------------------------------------------------
(* commit(): one action per disk write.                                    *)

\* write_log(): copy one modified block from the cache to the log.
write_log(p) ==
  /\ mode = "up" /\ pc[p] = "write_log" /\ tail <= Len(lh)
  /\ dlog' = [dlog EXCEPT ![tail] = Bread(lh[tail])]
  /\ buf' = [buf EXCEPT ![lh[tail]] = Bread(lh[tail])]
  /\ tail' = tail + 1
  /\ UNCHANGED <<home, dhead, dirty, lh, outstanding, committing, pc, arg,
                 wrote, mode>>

\* write_head() with n > 0: the commit point.
write_head(p) ==
  /\ mode = "up" /\ pc[p] = "write_log" /\ tail > Len(lh)
  /\ dhead' = lh
  /\ tail' = 1
  /\ pc' = [pc EXCEPT ![p] = "install"]
  /\ UNCHANGED <<home, dlog, buf, dirty, lh, outstanding, committing, arg,
                 wrote, mode>>

\* One turn of install_trans(): copy a log block home through the cache.
InstallOne ==
  /\ tail <= Len(lh)
  /\ home' = [home EXCEPT ![lh[tail]] = dlog[tail]]
  /\ buf' = [buf EXCEPT ![lh[tail]] = dlog[tail]]
  /\ dirty' = dirty \ {lh[tail]}
  /\ tail' = tail + 1
  /\ UNCHANGED <<dlog, dhead, lh>>

\* _log.lh.n = 0; write_head(): erase the transaction from the log.
EraseHead ==
  /\ tail > Len(lh)
  /\ lh' = <<>>
  /\ dhead' = <<>>
  /\ tail' = 1
  /\ UNCHANGED <<home, dlog, buf, dirty>>

install_trans(p) ==
  /\ mode = "up" /\ pc[p] = "install"
  /\ InstallOne
  /\ UNCHANGED <<outstanding, committing, pc, arg, wrote, mode>>

erase(p) ==
  /\ mode = "up" /\ pc[p] = "install"
  /\ EraseHead
  /\ pc' = [pc EXCEPT ![p] = "finish"]
  /\ UNCHANGED <<outstanding, committing, arg, wrote, mode>>

\* Mutant: the sleepers of begin_op() are not woken after a commit.
finish_NoWakeup(p) ==
  /\ mode = "up" /\ pc[p] = "finish"
  /\ committing' = FALSE
  /\ pc' = [pc EXCEPT ![p] = "idle"]
  /\ UNCHANGED <<disk, buf, dirty, lh, outstanding, arg, wrote, tail, mode>>

\* Mutant: _log.committing is not reset.
finish_StillCommitting(p) ==
  /\ mode = "up" /\ pc[p] = "finish"
  /\ pc' = Wakeup([pc EXCEPT ![p] = "idle"])
  /\ UNCHANGED <<disk, buf, dirty, lh, outstanding, committing, arg, wrote,
                 tail, mode>>

\* The second critical section of end_op().
finish(p) ==
  /\ mode = "up" /\ pc[p] = "finish"
  /\ committing' = FALSE
  /\ pc' = Wakeup([pc EXCEPT ![p] = "idle"])
  /\ UNCHANGED <<disk, buf, dirty, lh, outstanding, arg, wrote, tail, mode>>
-----------------------------------------------------------------------------
(* The environment: buffer recycling, power failures, restart.             *)

\* bget() recycles an unreferenced clean buffer for another block.
Recycle(b) ==
  /\ buf[b] # None /\ b \notin dirty
  /\ \A q \in Proc : arg[q][1] # b
  /\ buf' = [buf EXCEPT ![b] = None]
  /\ UNCHANGED <<disk, dirty, lh, outstanding, committing, pc, arg, wrote,
                 tail, mode>>

\* Power failure (or the reset after a panic): memory is lost.
Crash ==
  /\ mode' = "boot"
  /\ buf' = [b \in Block |-> None] /\ dirty' = {}
  /\ lh' = <<>> /\ outstanding' = 0 /\ committing' = FALSE
  /\ pc' = [p \in Proc |-> "idle"]
  /\ arg' = [p \in Proc |-> NoArg]
  /\ wrote' = [p \in Proc |-> {}]
  /\ tail' = 1
  /\ UNCHANGED disk

\* Mutant: recovery does not read the header it finds on disk.
read_head_Empty ==
  /\ mode = "boot"
  /\ lh' = <<>>
  /\ tail' = 1
  /\ mode' = "recover"
  /\ UNCHANGED <<disk, buf, dirty, outstanding, committing, pc, arg, wrote>>

\* initlog() calls recover_from_log(): read_head() ...
read_head ==
  /\ mode = "boot"
  /\ lh' = dhead
  /\ tail' = 1
  /\ mode' = "recover"
  /\ UNCHANGED <<disk, buf, dirty, outstanding, committing, pc, arg, wrote>>

\* ... then install_trans() and the erasure, before any system call runs.
RecoverInstall ==
  /\ mode = "recover"
  /\ InstallOne
  /\ UNCHANGED <<outstanding, committing, pc, arg, wrote, mode>>

RecoverErase ==
  /\ mode = "recover"
  /\ EraseHead
  /\ mode' = "up"
  /\ UNCHANGED <<outstanding, committing, pc, arg, wrote>>

Step(p) == \/ begin_op(p) \/ LogAppend(p) \/ end_op(p)
           \/ write_log(p) \/ write_head(p) \/ install_trans(p) \/ erase(p)
           \/ finish(p)

Next ==
  \/ \E p \in Proc : \/ Enter(p) \/ raise_on(p) \/ Step(p)
                     \/ \E b \in Block, v \in Val : LogCheck(p, b, v)
  \/ \E b \in Block : Recycle(b)
  \/ Crash
  \/ read_head \/ RecoverInstall \/ RecoverErase

Spec == Init /\ [][Next]_vars
-----------------------------------------------------------------------------
(* Refinement of AtomicStore.                                              *)

\* The contents a recovery would restore: the log wins once it is headed.
Stable == [b \in Block |->
             IF b \in ToSet(dhead)
             THEN dlog[CHOOSE i \in 1..Len(dhead) : dhead[i] = b]
             ELSE home[b]]

\* What a file-system call reads; before recovery is over nobody reads.
View == IF mode = "up" THEN [b \in Block |-> Bread(b)]
                       ELSE Stable

Active == {p \in Proc : pc[p] \in {"inop", "logging", "panicked"}}

Store == INSTANCE AtomicStore WITH stable <- Stable, view <- View,
                                   active <- Active

\* The log implements the atomic store: a crash at any point, recovery
\* included, leaves exactly the state of the last commit point, and a commit
\* never includes half of a call (log.c, "never any reasoning required about
\* whether a commit might write an uncommitted system call's updates").
ImplementsStore == Store!Spec

\* The reservation in begin_op() and the counters agree with the calls in
\* progress, and a commit runs alone: no call is inside the transaction
\* while its blocks are copied out.
CommitAlone ==
  /\ outstanding = Cardinality(Active)
  /\ committing <=> \E p \in Proc : pc[p] \in {"write_log", "install", "finish"}
  /\ committing => outstanding = 0
  /\ \A p, q \in Proc :
       pc[p] \in {"write_log", "install", "finish"}
       /\ pc[q] \in {"write_log", "install", "finish"} => p = q

\* Every block of the running transaction is pinned (B_DIRTY) until it has
\* been installed, and nothing else is: bget() may then recycle any clean
\* buffer without losing an update.
PinnedUntilInstalled ==
  mode = "up" =>
    dirty = {lh[i] : i \in {j \in 1..Len(lh) :
                     (\E p \in Proc : pc[p] = "install") => j >= tail}}

\* A process asleep in begin_op() always has somebody who will wake it: a
\* call in progress or a commit.  end_op() wakes the sleepers on both paths.
SleeperHasWaker ==
  (\E p \in Proc : pc[p] = "sleeping") => committing \/ outstanding > 0

\* The room begin_op() promised and has not handed out yet: one token for
\* each block a call in progress may still write.
Credit == {c \in Active \X (1..MAXOPBLOCKS) : c[2] > Cardinality(wrote[c[1]])}

\* The reservation of begin_op() holds to the end of every call, however the
\* calls interleave and absorb each other's blocks: what is in the header and
\* what the calls in progress may still add never outgrow LOGSIZE.
Reserved == Len(lh) + Cardinality(Credit) <= LOGSIZE

\* The capacity test of log_write(), `_log.lh.n >= _log.size - 1', is meant to
\* keep the transaction inside the log area of the disk.
LogFits == Len(lh) <= SIZE - 1

\* A call that stays within MAXOPBLOCKS never meets the panic "too big a
\* transaction": begin_op() has reserved its room.
NoPanic == \A p \in Proc : pc[p] # "panicked"
-----------------------------------------------------------------------------
(* The inductive invariant of the safety proofs in LogProofs.              *)

Distinct(s) == \A i, j \in 1..Len(s) : s[i] = s[j] => i = j

\* The header: nothing of it outlives its transaction, in memory or on disk,
\* and no block is in it twice.
HeaderInv ==
  /\ mode # "up" => Active = {} /\ ~committing /\ dirty = {}
  /\ mode = "up" /\ outstanding = 0 /\ ~committing => lh = <<>>
  /\ \A p \in Proc : pc[p] = "finish" => lh = <<>>
  /\ Distinct(lh) /\ Distinct(dhead) /\ Len(dhead) <= LOGSIZE

\* A call's blocks are in the header until the call ends, and the block it
\* is about to log is within its allowance.
CallInv ==
  \A p \in Proc :
    /\ IsFiniteSet(wrote[p])
    /\ p \notin Active => wrote[p] = {}
    /\ p \in Active => wrote[p] \subseteq ToSet(lh)
    /\ pc[p] = "logging" =>
         /\ arg[p] \in Block \X Val
         /\ Cardinality(wrote[p] \cup {arg[p][1]}) <= MAXOPBLOCKS

IInv == /\ TypeOK /\ CommitAlone /\ PinnedUntilInstalled /\ SleeperHasWaker
        /\ Reserved /\ HeaderInv /\ CallInv
-----------------------------------------------------------------------------
(* Liveness.  A process that can run is scheduled and a disk write ends;   *)
(* a file-system call makes finitely many log_write()s, so one that could  *)
(* return again and again does (strong fairness of end_op).                *)

Fairness == /\ \A p \in Proc : /\ WF_vars(begin_op(p))
                               /\ WF_vars(LogAppend(p))
                               /\ SF_vars(end_op(p))
                               /\ WF_vars(write_log(p) \/ write_head(p))
                               /\ WF_vars(install_trans(p) \/ erase(p))
                               /\ WF_vars(finish(p))
            /\ WF_vars(read_head \/ RecoverInstall \/ RecoverErase)

FairSpec == Spec /\ Fairness

\* No lost wakeup: unless the power fails or a process panics, a process
\* asleep in begin_op() is woken, and a commit that has started ends.
SleeperWoken ==
  \A p \in Proc : pc[p] = "sleeping" ~> pc[p] # "sleeping" \/ ~NoPanic
CommitEnds == committing ~> ~committing
=============================================================================
