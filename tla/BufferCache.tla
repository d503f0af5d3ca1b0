---------------------------- MODULE BufferCache ----------------------------
(***************************************************************************)
(* The buffer cache (kern/bio.c), its sleep locks (kern/sleeplock.c) and   *)
(* the IDE request queue below it (kern/ide.c), for one device.            *)
(*                                                                         *)
(* Each critical section under bcache.lock, a sleep lock's inner spinlock  *)
(* or the channel lock is one action, so that every point where the code   *)
(* drops a lock is a point where other processes and the disk interrupt    *)
(* may run.                                                                *)
(***************************************************************************)
EXTENDS Integers, Sequences, FiniteSets, SequencesExt

CONSTANTS
  Proc,       \* processes
  Buf,        \* the NBUF buffers
  Block, Val, \* block numbers of the device, block contents
  None,       \* no block, no buffer, no owner
  Zero,       \* the block a zeroed struct buf names: block 0 if the device
              \* is number 0, otherwise None
  Faulty      \* may a transfer end with the drive's error bit set?

ASSUME BufferCacheAssumption ==
  /\ None \notin Block \cup Buf \cup Proc \cup Val
  /\ Faulty \in BOOLEAN
  /\ Zero \in Block \cup {None}

VARIABLES
  blockno, valid, dirty, refcnt, data, \* struct buf
  owner,    \* owner of each buffer's sleep lock, or None
  lru,      \* bcache.head list, most recently used first
  queue,    \* channel->queue; its head is the request in the drive
  disk,     \* contents of the device
  pc,       \* control point of each process
  bp,       \* the buffer each process works on
  want,     \* the block each process asked for
  latest    \* history: last contents written to each block by a bwrite or
            \* log_write

vars == <<blockno, valid, dirty, refcnt, data, owner, lru, queue, disk,
          pc, bp, want, latest>>

PC == {"idle", "lock", "locksleep", "submit", "iosleep", "iocheck", "held",
       "unlocked", "panicked"}

TypeOK ==
  /\ blockno \in [Buf -> Block \cup {None}]
  /\ valid \in [Buf -> BOOLEAN]
  /\ dirty \in [Buf -> BOOLEAN]
  /\ refcnt \in [Buf -> Nat]
  /\ data \in [Buf -> Val \cup {None}]
  /\ owner \in [Buf -> Proc \cup {None}]
  /\ lru \in Seq(Buf) /\ Len(lru) = Cardinality(Buf) /\ ToSet(lru) = Buf
  /\ queue \in Seq(Buf)
  /\ disk \in [Block -> Val]
  /\ pc \in [Proc -> PC]
  /\ bp \in [Proc -> Buf \cup {None}]
  /\ want \in [Proc -> Block \cup {None}]
  /\ latest \in [Block -> Val]

\* binit() only links the zeroed buffers: all of them name the same block.
Init ==
  /\ blockno = [b \in Buf |-> Zero]
  /\ valid = [b \in Buf |-> FALSE] /\ dirty = [b \in Buf |-> FALSE]
  /\ refcnt = [b \in Buf |-> 0] /\ data = [b \in Buf |-> None]
  /\ owner = [b \in Buf |-> None]
  /\ lru = SetToSeq(Buf)
  /\ queue = <<>>
  /\ disk \in [Block -> Val]
  /\ pc = [p \in Proc |-> "idle"]
  /\ bp = [p \in Proc |-> None] /\ want = [p \in Proc |-> None]
  /\ latest = disk

\* wakeup(chan): every process asleep at `from' on buffer b runs again.
Wake(f, b, from, to) ==
  [q \in Proc |-> IF f[q] = from /\ bp[q] = b THEN to ELSE f[q]]
-----------------------------------------------------------------------------
(* bget: find the block or recycle the least recently used idle buffer.    *)

Cached(k) == {b \in Buf : blockno[b] = k}

\* Mutant: the scan goes the wrong way and stops at the oldest one.
FirstCached_Oldest(k) ==
  lru[CHOOSE i \in 1..Len(lru) : /\ blockno[lru[i]] = k
                                 /\ \A j \in i+1..Len(lru) : blockno[lru[j]] # k]

\* The forward scan stops at the most recently used buffer of the block.
FirstCached(k) ==
  lru[CHOOSE i \in 1..Len(lru) : /\ blockno[lru[i]] = k
                                 /\ \A j \in 1..i-1 : blockno[lru[j]] # k]

\* Mutant: a dirty buffer may be recycled.
Recyclable_Dirty(b) == refcnt[b] = 0

Recyclable(b) == refcnt[b] = 0 /\ ~dirty[b]

\* The backward scan stops at the last recyclable buffer of the list.
Victim == LET i == CHOOSE i \in 1..Len(lru) :
                     /\ Recyclable(lru[i])
                     /\ \A j \in i+1..Len(lru) : ~Recyclable(lru[j])
          IN  lru[i]

\* Mutant: a hit takes no reference.
bgetHit_NoRef(p, k) ==
  /\ pc[p] = "idle" /\ Cached(k) # {}
  /\ bp' = [bp EXCEPT ![p] = FirstCached(k)]
  /\ want' = [want EXCEPT ![p] = k]
  /\ pc' = [pc EXCEPT ![p] = "lock"]
  /\ UNCHANGED <<blockno, valid, dirty, refcnt, data, owner, lru, queue, disk,
                 latest>>

bgetHit(p, k) ==
  /\ pc[p] = "idle" /\ Cached(k) # {}
  /\ refcnt' = [refcnt EXCEPT ![FirstCached(k)] = @ + 1]
  /\ bp' = [bp EXCEPT ![p] = FirstCached(k)]
  /\ want' = [want EXCEPT ![p] = k]
  /\ pc' = [pc EXCEPT ![p] = "lock"]
  /\ UNCHANGED <<blockno, valid, dirty, data, owner, lru, queue, disk, latest>>

bgetMiss(p, k) ==
  /\ pc[p] = "idle" /\ Cached(k) = {}
  /\ want' = [want EXCEPT ![p] = k]
  /\ IF \E b \in Buf : Recyclable(b)
     THEN /\ blockno' = [blockno EXCEPT ![Victim] = k]
          /\ valid' = [valid EXCEPT ![Victim] = FALSE]
          /\ dirty' = [dirty EXCEPT ![Victim] = FALSE]
          /\ refcnt' = [refcnt EXCEPT ![Victim] = 1]
          /\ bp' = [bp EXCEPT ![p] = Victim]
          /\ pc' = [pc EXCEPT ![p] = "lock"]
     ELSE /\ pc' = [pc EXCEPT ![p] = "panicked"]   \* "bget: no buffers"
          /\ UNCHANGED <<blockno, valid, dirty, refcnt, bp>>
  /\ UNCHANGED <<data, owner, lru, queue, disk, latest>>

bget(p, k) == bgetHit(p, k) \/ bgetMiss(p, k)

\* Mutant: bread() trusts a buffer that was never filled.
bread_NoRead(p) == "held"

\* bread() reads the block unless the buffer is valid.
bread(p) == IF valid[bp[p]] THEN "held" ELSE "submit"

\* Mutant: `if' instead of `while': a woken process takes the lock untested.
acquiresleep_If(p) ==
  /\ pc[p] = "lock"
  /\ owner' = [owner EXCEPT ![bp[p]] = p]
  /\ pc' = [pc EXCEPT ![p] = bread(p)]
  /\ UNCHANGED <<blockno, valid, dirty, refcnt, data, lru, queue, disk, bp,
                 want, latest>>

\* One turn of the loop of acquiresleep(&b->lock); the new owner goes on in
\* bread(), which looks only at the buffer it has just locked.
acquiresleep(p) ==
  /\ pc[p] = "lock"
  /\ IF owner[bp[p]] = None
     THEN /\ owner' = [owner EXCEPT ![bp[p]] = p]
          /\ pc' = [pc EXCEPT ![p] = bread(p)]
     ELSE /\ pc' = [pc EXCEPT ![p] = "locksleep"]
          /\ UNCHANGED owner
  /\ UNCHANGED <<blockno, valid, dirty, refcnt, data, lru, queue, disk, bp,
                 want, latest>>
-----------------------------------------------------------------------------
(* The IDE queue.                                                          *)

\* iderw(), under the channel lock: append the request and sleep.  The first
\* test of the flags fails: bread() comes here with an invalid buffer and
\* bwrite() with a dirty one.
iderw(p) ==
  /\ pc[p] = "submit"
  /\ queue' = Append(queue, bp[p])
  /\ pc' = [pc EXCEPT ![p] = "iosleep"]
  /\ UNCHANGED <<blockno, valid, dirty, refcnt, data, owner, lru, disk, bp,
                 want, latest>>

\* `while ((flags & (B_VALID|B_DIRTY)) != B_VALID) sleep(buffer)'.
IoTest(p) ==
  /\ pc[p] = "iocheck"
  /\ pc' = [pc EXCEPT ![p] = IF valid[bp[p]] /\ ~dirty[bp[p]] THEN "held"
                                                               ELSE "iosleep"]
  /\ UNCHANGED <<blockno, valid, dirty, refcnt, data, owner, lru, queue, disk,
                 bp, want, latest>>

\* ideintr(): complete the request at the head.  A failed read leaves the
\* data of the buffer as it was; the status of a write is not looked at.
ideintr ==
  /\ queue # <<>>
  /\ LET b == Head(queue) IN
     /\ \E ok \in {TRUE, ~Faulty} :
          /\ data' = [data EXCEPT ![b] = IF ok /\ ~dirty[b]
                                         THEN disk[blockno[b]] ELSE @]
          /\ disk' = [disk EXCEPT ![blockno[b]] = IF ok /\ dirty[b]
                                                  THEN data[b] ELSE @]
     /\ valid' = [valid EXCEPT ![b] = TRUE]
     /\ dirty' = [dirty EXCEPT ![b] = FALSE]
     /\ pc' = Wake(pc, b, "iosleep", "iocheck")
  /\ queue' = Tail(queue)
  /\ UNCHANGED <<blockno, refcnt, owner, lru, bp, want, latest>>

\* kill() makes a sleeper runnable whatever it waits for: both loops test
\* their condition again.
raise_on(p) ==
  /\ \/ pc[p] = "locksleep" /\ pc' = [pc EXCEPT ![p] = "lock"]
     \/ pc[p] = "iosleep" /\ pc' = [pc EXCEPT ![p] = "iocheck"]
  /\ UNCHANGED <<blockno, valid, dirty, refcnt, data, owner, lru, queue, disk,
                 bp, want, latest>>
-----------------------------------------------------------------------------
(* The holder of a buffer.                                                 *)

\* Change the contents, then bwrite(): mark dirty and wait for the disk.
bwrite(p, v) ==
  /\ pc[p] = "held"
  /\ data' = [data EXCEPT ![bp[p]] = v]
  /\ latest' = [latest EXCEPT ![want[p]] = v]
  /\ dirty' = [dirty EXCEPT ![bp[p]] = TRUE]
  /\ pc' = [pc EXCEPT ![p] = "submit"]
  /\ UNCHANGED <<blockno, valid, refcnt, owner, lru, queue, disk, bp, want>>

\* Change the contents, then log_write(): only pin the buffer; the commit
\* writes it later with a bwrite of its own.
log_write(p, v) ==
  /\ pc[p] = "held"
  /\ data' = [data EXCEPT ![bp[p]] = v]
  /\ latest' = [latest EXCEPT ![want[p]] = v]
  /\ dirty' = [dirty EXCEPT ![bp[p]] = TRUE]
  /\ UNCHANGED <<blockno, valid, refcnt, owner, lru, queue, disk, pc, bp, want>>

\* Mutant: the lock is dropped without a wakeup.
releasesleep_NoWake(p) ==
  /\ pc[p] = "held"
  /\ owner' = [owner EXCEPT ![bp[p]] = None]
  /\ pc' = [pc EXCEPT ![p] = "unlocked"]
  /\ UNCHANGED <<blockno, valid, dirty, refcnt, data, lru, queue, disk, bp,
                 want, latest>>

\* brelse(), first half: releasesleep() and its wakeup.
releasesleep(p) ==
  /\ pc[p] = "held"
  /\ owner' = [owner EXCEPT ![bp[p]] = None]
  /\ pc' = Wake([pc EXCEPT ![p] = "unlocked"], bp[p], "locksleep", "lock")
  /\ UNCHANGED <<blockno, valid, dirty, refcnt, data, lru, queue, disk, bp,
                 want, latest>>

\* brelse(), second half: drop the reference, move an idle buffer to the head.
brelse(p) ==
  LET b == bp[p] IN
  /\ pc[p] = "unlocked"
  /\ refcnt' = [refcnt EXCEPT ![b] = @ - 1]
  /\ lru' = IF refcnt[b] = 1
            THEN <<b>> \o SelectSeq(lru, LAMBDA c : c # b) ELSE lru
  /\ bp' = [bp EXCEPT ![p] = None]
  /\ want' = [want EXCEPT ![p] = None]
  /\ pc' = [pc EXCEPT ![p] = "idle"]
  /\ UNCHANGED <<blockno, valid, dirty, data, owner, queue, disk, latest>>

Next ==
  \/ \E p \in Proc :
       \/ \E k \in Block : bget(p, k)
       \/ acquiresleep(p) \/ iderw(p) \/ IoTest(p) \/ raise_on(p)
       \/ \E v \in Val : bwrite(p, v) \/ log_write(p, v)
       \/ releasesleep(p) \/ brelse(p)
  \/ ideintr

Spec == Init /\ [][Next]_vars
-----------------------------------------------------------------------------
Users(b) == {p \in Proc : bp[p] = b}
Holds(p) == pc[p] \in {"submit", "iosleep", "iocheck", "held"}

InUse(b) == refcnt[b] > 0 \/ valid[b] \/ dirty[b]

\* bget() never works with two buffers of one block, although it decides under
\* bcache.lock and locks the buffer only later, and although all the zeroed
\* buffers of binit() name the same block.
OneBufferPerBlock ==
  \A b, c \in Buf : blockno[b] = blockno[c] /\ InUse(b) /\ InUse(c) => b = c

\* refcnt counts the processes between bget and the end of brelse, so a
\* buffer somebody waits for is never recycled under it.
RefcntExact ==
  /\ \A b \in Buf : refcnt[b] = Cardinality(Users(b))
  /\ \A p \in Proc : bp[p] # None => blockno[bp[p]] = want[p]

\* "Only one process at a time can use a buffer" (bio.c): the sleep lock has
\* exactly the one process that got it as owner.
OneUser ==
  \A p \in Proc : Holds(p) <=> (bp[p] # None /\ owner[bp[p]] = p)

\* The three together: a buffer is the one place of its block and the one
\* possession of its user.
BuffersExact == OneBufferPerBlock /\ RefcntExact /\ OneUser

\* Whoever holds a block sees the last contents written to it, whichever
\* buffer it travelled through and whether or not it reached the disk.
ReadsLatest == \A p \in Proc : pc[p] = "held" => data[bp[p]] = latest[want[p]]

\* A block that no buffer has dirty is on the disk as last written: recycling
\* a clean buffer loses nothing.
CleanIsOnDisk ==
  \A k \in Block :
     (\A b \in Cached(k) : ~dirty[b]) => disk[k] = latest[k]

\* No write is lost on its way through buffers and queue.
NoLostWrite == ReadsLatest /\ CleanIsOnDisk

\* A process asleep on a buffer's lock has a holder to wake it; one asleep
\* for a transfer has its buffer in the queue.
SleeperHasWaker ==
  \A p \in Proc :
    /\ pc[p] = "locksleep" => owner[bp[p]] # None
    /\ pc[p] = "iosleep" => \E i \in 1..Len(queue) : queue[i] = bp[p]

\* "B_VALID: the buffer data has been read from the disk" (bio.c:17).
ValidMeansRead == \A b \in Buf : valid[b] => data[b] # None
=============================================================================
