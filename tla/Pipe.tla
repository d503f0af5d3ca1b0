-------------------------------- MODULE Pipe --------------------------------
(***************************************************************************)
(* A pipe (kern/pipe.c) and the two files that name it (kern/file.c).      *)
(*                                                                         *)
(* The code of pipewrite() and piperead() runs under p->lock up to its     *)
(* sleep or return, and is one action up to there; kill() takes only       *)
(* ptable.lock, so the step from the last test to sleep() is an action of  *)
(* its own.  The reference count of each file is the number of processes   *)
(* in `readers' or `writers'.  nread and nwrite are unsigned and wrap at   *)
(* Modulus, 2^32 in the code.                                              *)
(***************************************************************************)
EXTENDS Integers, Sequences, FiniteSets, SequencesExt

CONSTANTS
  Proc, Val, None,
  PIPESIZE,
  Modulus,    \* the counters count modulo this
  MaxCount    \* bound: bytes of one read or write call

ASSUME PipeAssumption ==
  /\ PIPESIZE \in Nat \ {0} /\ MaxCount \in Nat
  /\ Modulus \in Nat /\ Modulus > PIPESIZE /\ Modulus % PIPESIZE = 0
  /\ None \notin Proc \cup Val

VARIABLES
  data, nread, nwrite, readopen, writeopen, lock, \* struct pipe
  freed,            \* kfree(p) has been called
  readers, writers, \* processes with a reference to the file of each end
  pc, buf, count,   \* place in the call, bytes yet to write, bytes to read
  killed,           \* p->killed
  out               \* bytes the latest piperead() returned

pipe == <<data, nread, nwrite, readopen, writeopen>>
vars == <<pipe, lock, freed, readers, writers, pc, buf, count, killed, out>>

PC == {"user", "wenter", "wsleepy", "wasleep", "renter", "rsleepy", "rasleep",
       "rclose", "wclose"}

TypeOK ==
  /\ data \in [0..PIPESIZE - 1 -> Val \cup {None}]
  /\ nread \in 0..Modulus - 1 /\ nwrite \in 0..Modulus - 1
  /\ readopen \in BOOLEAN /\ writeopen \in BOOLEAN /\ freed \in BOOLEAN
  /\ lock \in Proc \cup {None}
  /\ readers \in SUBSET Proc /\ writers \in SUBSET Proc
  /\ pc \in [Proc -> PC]
  /\ buf \in [Proc -> Seq(Val)]
  /\ count \in [Proc -> Nat]
  /\ killed \in SUBSET Proc
  /\ out \in Seq(Val)

\* After pipealloc(): the creator holds both ends.
Init ==
  /\ data = [i \in 0..PIPESIZE - 1 |-> None]
  /\ nread = 0 /\ nwrite = 0
  /\ readopen = TRUE /\ writeopen = TRUE /\ freed = FALSE
  /\ lock = None
  /\ \E p \in Proc : readers = {p} /\ writers = {p}
  /\ pc = [p \in Proc |-> "user"]
  /\ buf = [p \in Proc |-> <<>>] /\ count = [p \in Proc |-> 0]
  /\ killed = {}
  /\ out = <<>>

\* Unsigned addition to a counter.
Plus(c, k) == (c + k) % Modulus

\* Bytes in the ring, as the unsigned difference of the counters.
Used == (nwrite - nread) % Modulus
Full == nwrite = Plus(nread, PIPESIZE)
Empty == nread = nwrite

\* The bytes in the ring, oldest first.
Contents == [i \in 1..Used |-> data[(nread + i - 1) % PIPESIZE]]


\* wakeup(): the sleepers at `from' go back to acquire p->lock.
Wakeup(f, from, to) == [p \in Proc |-> IF f[p] = from THEN to ELSE f[p]]
-----------------------------------------------------------------------------
(* System calls on the two files.                                          *)

\* write(fd, s): filewrite() calls pipewrite().
WriteCall(p, s) ==
  /\ pc[p] = "user" /\ p \in writers /\ p \notin killed
  /\ buf' = [buf EXCEPT ![p] = s]
  /\ pc' = [pc EXCEPT ![p] = "wenter"]
  /\ UNCHANGED <<pipe, lock, freed, readers, writers, count, killed, out>>

\* read(fd, n): fileread() calls piperead().
ReadCall(p, n) ==
  /\ pc[p] = "user" /\ p \in readers /\ p \notin killed
  /\ count' = [count EXCEPT ![p] = n]
  /\ pc' = [pc EXCEPT ![p] = "renter"]
  /\ UNCHANGED <<pipe, lock, freed, readers, writers, buf, killed, out>>

\* fork(): filedup() of every open file; q starts in user space.
Dup(p, q) ==
  /\ pc[p] = "user" /\ p \in (readers \cup writers) /\ p \notin killed
  /\ pc[q] = "user" /\ q \notin (readers \cup writers \cup killed)
  /\ readers' = IF p \in readers THEN readers \cup {q} ELSE readers
  /\ writers' = IF p \in writers THEN writers \cup {q} ELSE writers
  /\ UNCHANGED <<pipe, lock, freed, pc, buf, count, killed, out>>

\* close(fd) or exit(): fileclose() drops the reference under ftable.lock;
\* the last one goes on to pipeclose().
CloseRead(p) ==
  /\ pc[p] = "user" /\ p \in readers
  /\ readers' = readers \ {p}
  /\ pc' = IF readers = {p} THEN [pc EXCEPT ![p] = "rclose"] ELSE pc
  /\ UNCHANGED <<pipe, lock, freed, writers, buf, count, killed, out>>

CloseWrite(p) ==
  /\ pc[p] = "user" /\ p \in writers
  /\ writers' = writers \ {p}
  /\ pc' = IF writers = {p} THEN [pc EXCEPT ![p] = "wclose"] ELSE pc
  /\ UNCHANGED <<pipe, lock, freed, readers, buf, count, killed, out>>

\* kill(): mark p and make it runnable if it sleeps.
kill(p) ==
  /\ p \notin killed
  /\ killed' = killed \cup {p}
  /\ pc' = [pc EXCEPT ![p] = CASE @ = "wasleep" -> "wenter"
                               [] @ = "rasleep" -> "renter"
                               [] OTHER -> @]
  /\ UNCHANGED <<pipe, lock, freed, readers, writers, buf, count, out>>
-----------------------------------------------------------------------------
(* The pipe's critical sections.                                           *)

\* Mutant: || for && in the test for the last close.
pipeclose_FreesEarly(p) ==
  /\ pc[p] \in {"rclose", "wclose"} /\ lock = None
  /\ readopen' = (readopen /\ pc[p] # "rclose")
  /\ writeopen' = (writeopen /\ pc[p] # "wclose")
  /\ freed' = TRUE
  /\ LET woken == IF pc[p] = "wclose" THEN Wakeup(pc, "rasleep", "renter")
                                      ELSE Wakeup(pc, "wasleep", "wenter")
     IN  pc' = [woken EXCEPT ![p] = "user"]
  /\ UNCHANGED <<data, nread, nwrite, lock, readers, writers, buf, count,
                 killed, out>>

pipeclose(p) ==
  /\ pc[p] \in {"rclose", "wclose"} /\ lock = None
  /\ readopen' = (readopen /\ pc[p] # "rclose")
  /\ writeopen' = (writeopen /\ pc[p] # "wclose")
  /\ freed' = (freed \/ ~(readopen' \/ writeopen'))
  /\ LET woken == IF pc[p] = "wclose" THEN Wakeup(pc, "rasleep", "renter")
                                      ELSE Wakeup(pc, "wasleep", "wenter")
     IN  pc' = [woken EXCEPT ![p] = "user"]
  /\ UNCHANGED <<data, nread, nwrite, lock, readers, writers, buf, count,
                 killed, out>>

\* The bytes that fit before the ring is full.
Room(p) == Min({PIPESIZE - Used, Len(buf[p])})

\* Mutant: ++nwrite for nwrite++.
Store_PreIncrement(s) ==
  data' = [i \in DOMAIN data |->
             IF \E j \in 1..Len(s) : (nwrite + j) % PIPESIZE = i
             THEN s[CHOOSE j \in 1..Len(s) : (nwrite + j) % PIPESIZE = i]
             ELSE data[i]]

\* data[nwrite++ % PIPESIZE] = ..., once for each byte of s.
Store(s) ==
  data' = [i \in DOMAIN data |->
             IF \E j \in 1..Len(s) : (nwrite + j - 1) % PIPESIZE = i
             THEN s[CHOOSE j \in 1..Len(s) : (nwrite + j - 1) % PIPESIZE = i]
             ELSE data[i]]

\* The loop of pipewrite() up to its return or to sleep().
pipewrite(p) ==
  LET k == Room(p) IN
  /\ pc[p] = "wenter" /\ lock = None
  /\ Store(SubSeq(buf[p], 1, k))
  /\ nwrite' = Plus(nwrite, k)
  /\ \/ /\ k = Len(buf[p])                       \* all written: return n
        /\ pc' = Wakeup([pc EXCEPT ![p] = "user"], "rasleep", "renter")
        /\ buf' = [buf EXCEPT ![p] = <<>>]
        /\ UNCHANGED lock
     \/ /\ k < Len(buf[p]) /\ (~readopen \/ p \in killed)    \* return -1
        /\ pc' = [pc EXCEPT ![p] = "user"]
        /\ buf' = [buf EXCEPT ![p] = <<>>]
        /\ UNCHANGED lock
     \/ /\ k < Len(buf[p]) /\ readopen /\ p \notin killed
        /\ pc' = Wakeup([pc EXCEPT ![p] = "wsleepy"], "rasleep", "renter")
        /\ buf' = [buf EXCEPT ![p] = SubSeq(@, k + 1, Len(@))]
        /\ lock' = p
  /\ UNCHANGED <<nread, readopen, writeopen, freed, readers, writers, count,
                 killed, out>>

\* piperead() up to its return or to sleep().
piperead(p) ==
  LET k == Min({Used, count[p]}) IN
  /\ pc[p] = "renter" /\ lock = None
  /\ \/ /\ Empty /\ writeopen /\ p \in killed                \* return -1
        /\ pc' = [pc EXCEPT ![p] = "user"]
        /\ count' = [count EXCEPT ![p] = 0]
        /\ UNCHANGED <<nread, out, lock>>
     \/ /\ Empty /\ writeopen /\ p \notin killed
        /\ pc' = [pc EXCEPT ![p] = "rsleepy"]
        /\ lock' = p
        /\ UNCHANGED <<nread, out, count>>
     \/ /\ ~(Empty /\ writeopen)                             \* return k
        /\ out' = SubSeq(Contents, 1, k)
        /\ nread' = Plus(nread, k)
        /\ pc' = Wakeup([pc EXCEPT ![p] = "user"], "wasleep", "wenter")
        /\ count' = [count EXCEPT ![p] = 0]
        /\ UNCHANGED lock
  /\ UNCHANGED <<data, nwrite, readopen, writeopen, freed, readers, writers,
                 buf, killed>>

\* sleep(chan, &p->lock): asleep and without the lock in one step.
sleep(p) ==
  /\ pc[p] \in {"wsleepy", "rsleepy"}
  /\ pc' = [pc EXCEPT ![p] = IF @ = "wsleepy" THEN "wasleep" ELSE "rasleep"]
  /\ lock' = None
  /\ UNCHANGED <<pipe, freed, readers, writers, buf, count, killed, out>>

Next ==
  \E p \in Proc :
    \/ \E k \in 1..MaxCount : \/ ReadCall(p, k)
                              \/ \E s \in [1..k -> Val] : WriteCall(p, s)
    \/ \E q \in Proc : Dup(p, q)
    \/ CloseRead(p) \/ CloseWrite(p) \/ kill(p)
    \/ pipeclose(p) \/ pipewrite(p) \/ piperead(p) \/ sleep(p)

Spec == Init /\ [][Next]_vars
-----------------------------------------------------------------------------
Fifo == INSTANCE Channel WITH Capacity <- PIPESIZE, queue <- Contents,
          out <- out, readable <- readopen, writable <- writeopen

\* The ring implements the byte channel: with any number of readers and
\* writers, across every wrap of the ring and of the counters, bytes come out
\* in order, once, and a read returns nothing only at end of file.
ImplementsChannel == Fifo!Spec

\* No process touches the pipe after pipeclose() has freed it, and the flags
\* say who is left: an end is open until its last reference is dropped.
NoUseAfterFree ==
  /\ freed => \A p \in Proc : pc[p] = "user"
  /\ readers # {} => readopen
  /\ writers # {} => writeopen

\* No lost wakeup between readers and writers: a writer sleeps only while the
\* ring is full and somebody can drain it, a reader only while it is empty
\* and somebody can fill it, so the two ends never wait for each other.  The
\* exception is in the code: a killed pipewrite() that has filled the ring
\* returns before its wakeup(&p->nread) and leaves the readers asleep.
SleepsForAReason ==
  \A p \in Proc :
    /\ pc[p] \in {"wsleepy", "wasleep"} => Full /\ readopen
    /\ pc[p] \in {"rsleepy", "rasleep"} => writeopen /\ (killed = {} => Empty)
=============================================================================
