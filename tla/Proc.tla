-------------------------------- MODULE Proc --------------------------------
(***************************************************************************)
(* The process table of kern/proc.c: fork, exit, waitpid, signals, sleep   *)
(* and the per-CPU schedulers, with the killed tests of kern/trap.c.       *)
(*                                                                         *)
(* A critical section under ptable.lock is one action, and a system call   *)
(* enters its first one from user space; code that runs without the lock   *)
(* (the middle of fork, exit before its critical section) is a place of    *)
(* its own.  A slot is an index of ptable.proc; slot 1 holds init.         *)
(* A pending SIGKILL is left out of sig_pending: the bit is only read      *)
(* masked with sig_catch, which never holds it.                            *)
(***************************************************************************)
EXTENDS Integers, FiniteSets, FiniteSetsExt

CONSTANTS
  NPROC,    \* slots of the process table
  CPU,      \* processors running scheduler()
  SIGKILL, Caught, \* the signal nobody can claim; the other signals
  MaxPid    \* bound: pids handed out by a run

ASSUME ProcAssumption ==
  /\ NPROC \in Nat \ {0} /\ MaxPid \in Nat \ {0}
  /\ 0 \notin Caught \cup {SIGKILL} /\ SIGKILL \notin Caught

Slot == 1..NPROC
Signal == Caught \cup {SIGKILL}
initproc == 1
None == 0       \* a null struct proc pointer, no process on a CPU

VARIABLES
  state, pid, parent, killed, pending, catch, \* struct proc
  nextpid,
  cpu,      \* cpu[c]: slot c is running, c->proc
  kpc,      \* where each process is in the kernel
  arg,      \* slot under construction (fork), target pid (waitpid)
  victim    \* history: the pid each slot had when killed was last set

table == <<state, pid, parent, killed, pending, catch>>
vars == <<table, nextpid, cpu, kpc, arg, victim>>

States == {"UNUSED", "EMBRYO", "SLEEPING", "RUNNABLE", "RUNNING", "ZOMBIE"}
KPC == {"user", "fork", "waitpid", "sigwait", "exit", "panic", "gone"}

TypeOK ==
  /\ state \in [Slot -> States]
  /\ pid \in [Slot -> 0..MaxPid]
  /\ parent \in [Slot -> Slot \cup {None}]
  /\ killed \in [Slot -> BOOLEAN]
  /\ pending \in [Slot -> SUBSET Caught]
  /\ catch \in [Slot -> SUBSET Caught]
  /\ nextpid \in 1..MaxPid + 1
  /\ cpu \in [CPU -> Slot \cup {None}]
  /\ kpc \in [Slot -> KPC]
  /\ arg \in [Slot -> -1..MaxPid + NPROC]
  /\ victim \in [Slot -> 0..MaxPid]

\* After userinit(): init is runnable, every other slot is zeroed.
Init ==
  /\ state = [s \in Slot |-> IF s = initproc THEN "RUNNABLE" ELSE "UNUSED"]
  /\ pid = [s \in Slot |-> IF s = initproc THEN 1 ELSE 0]
  /\ parent = [s \in Slot |-> None]
  /\ killed = [s \in Slot |-> FALSE]
  /\ pending = [s \in Slot |-> {}] /\ catch = [s \in Slot |-> {}]
  /\ nextpid = 2
  /\ cpu = [c \in CPU |-> None]
  /\ kpc = [s \in Slot |-> IF s = initproc THEN "user" ELSE "gone"]
  /\ arg = [s \in Slot |-> 0]
  /\ victim = [s \in Slot |-> 0]

Running(p) == state[p] = "RUNNING"

\* Back to user space, system call done.
Return(p) == /\ kpc' = [kpc EXCEPT ![p] = "user"]
             /\ arg' = [arg EXCEPT ![p] = 0]

\* sched(): give up the CPU, in the state the caller has chosen.
LeaveCpu(p) == cpu' = [c \in CPU |-> IF cpu[c] = p THEN None ELSE cpu[c]]
-----------------------------------------------------------------------------
(* scheduler() and yield().                                                *)

\* Mutant: p->state = RUNNING is missing.
scheduler_NotMarked(c, p) ==
  /\ cpu[c] = None /\ state[p] = "RUNNABLE"
  /\ cpu' = [cpu EXCEPT ![c] = p]
  /\ UNCHANGED <<table, nextpid, kpc, arg, victim>>

scheduler(c, p) ==
  /\ cpu[c] = None /\ state[p] = "RUNNABLE"
  /\ cpu' = [cpu EXCEPT ![c] = p]
  /\ state' = [state EXCEPT ![p] = "RUNNING"]
  /\ UNCHANGED <<pid, parent, killed, pending, catch, nextpid, kpc, arg, victim>>

yield(p) ==
  /\ Running(p) /\ kpc[p] # "panic"
  /\ state' = [state EXCEPT ![p] = "RUNNABLE"]
  /\ LeaveCpu(p)
  /\ UNCHANGED <<pid, parent, killed, pending, catch, nextpid, kpc, arg, victim>>

\* trap(): a system call starts only if the process is not killed by then.
Syscall(p) == Running(p) /\ kpc[p] = "user" /\ ~killed[p]

\* trap(): a fault in user space kills the process; so does exit(2).
Fault(p) ==
  /\ Running(p) /\ kpc[p] = "user"
  /\ killed' = [killed EXCEPT ![p] = TRUE]
  /\ victim' = [victim EXCEPT ![p] = pid[p]]
  /\ UNCHANGED <<state, pid, parent, pending, catch, nextpid, cpu, kpc, arg>>

\* trap(): a killed process in user space exits; any process but init may
\* call exit.  The half of exit() before its critical section needs no lock;
\* init stops there with panic("init exiting").
ExitCall(p) ==
  /\ Running(p) /\ kpc[p] = "user" /\ (killed[p] \/ p # initproc)
  /\ kpc' = [kpc EXCEPT ![p] = IF p = initproc THEN "panic" ELSE "exit"]
  /\ UNCHANGED <<table, nextpid, cpu, arg, victim>>
-----------------------------------------------------------------------------
(* fork().                                                                 *)

\* Mutant: nextpid is read but not advanced.
allocproc_SamePid(p) ==
  LET free == {s \in Slot : state[s] = "UNUSED"}
      np == Min(free)
  IN
  /\ Syscall(p) /\ free # {} /\ nextpid <= MaxPid
  /\ state' = [state EXCEPT ![np] = "EMBRYO"]
  /\ pid' = [pid EXCEPT ![np] = nextpid]
  /\ arg' = [arg EXCEPT ![p] = np]
  /\ kpc' = [kpc EXCEPT ![p] = "fork"]
  /\ UNCHANGED <<parent, killed, pending, catch, nextpid, cpu, victim>>

\* allocproc(), under the lock: the first unused slot becomes an embryo.
\* killed is not initialised here.  Without a free slot fork() returns -1.
allocproc(p) ==
  LET free == {s \in Slot : state[s] = "UNUSED"}
      np == Min(free)
  IN
  /\ Syscall(p) /\ free # {} /\ nextpid <= MaxPid
  /\ state' = [state EXCEPT ![np] = "EMBRYO"]
  /\ pid' = [pid EXCEPT ![np] = nextpid]
  /\ nextpid' = nextpid + 1
  /\ pending' = [pending EXCEPT ![np] = {}]
  /\ catch' = [catch EXCEPT ![np] = {}]
  /\ arg' = [arg EXCEPT ![p] = np]
  /\ kpc' = [kpc EXCEPT ![p] = "fork"]
  /\ UNCHANGED <<parent, killed, cpu, victim>>

\* Mutant: the failing path forgets np->state = UNUSED.
ForkFails_KeepsEmbryo(p) ==
  /\ Running(p) /\ kpc[p] = "fork"
  /\ Return(p)
  /\ UNCHANGED <<table, nextpid, cpu, victim>>

\* kalloc() or copyuvm() fails: the slot is given back without the lock.
ForkFails(p) ==
  /\ Running(p) /\ kpc[p] = "fork"
  /\ state' = [state EXCEPT ![arg[p]] = "UNUSED"]
  /\ Return(p)
  /\ UNCHANGED <<pid, parent, killed, pending, catch, nextpid, cpu, victim>>

\* The rest of fork().  np->parent is set before the lock is taken, but only
\* p itself would look at it.
fork(p) ==
  LET np == arg[p] IN
  /\ Running(p) /\ kpc[p] = "fork"
  /\ parent' = [parent EXCEPT ![np] = p]
  /\ state' = [state EXCEPT ![np] = "RUNNABLE"]
  /\ kpc' = [kpc EXCEPT ![p] = "user", ![np] = "user"]
  /\ arg' = [arg EXCEPT ![p] = 0]
  /\ UNCHANGED <<pid, killed, pending, catch, nextpid, cpu, victim>>
-----------------------------------------------------------------------------
(* exit() and waitpid().                                                   *)

\* wakeup1(q): processes asleep on slot q's own address.  Only q sleeps
\* there, in waitpid() or signal_take().
Wake1(f, q) == IF q # None /\ f[q] = "SLEEPING"
               THEN [f EXCEPT ![q] = "RUNNABLE"] ELSE f

\* Mutant: the children keep their dead parent.
exit_NoReparent(p) ==
  /\ Running(p) /\ kpc[p] = "exit"
  /\ state' = [Wake1(state, parent[p]) EXCEPT ![p] = "ZOMBIE"]
  /\ kpc' = [kpc EXCEPT ![p] = "gone"]
  /\ LeaveCpu(p)
  /\ UNCHANGED <<pid, parent, killed, pending, catch, nextpid, arg, victim>>

\* Mutant: wakeup1(curproc->parent) is missing.
exit_ParentNotWoken(p) ==
  LET kids == {q \in Slot : parent[q] = p} IN
  /\ Running(p) /\ kpc[p] = "exit"
  /\ parent' = [q \in Slot |-> IF q \in kids THEN initproc ELSE parent[q]]
  /\ state' = [(IF \E q \in kids : state[q] = "ZOMBIE"
                THEN Wake1(state, initproc) ELSE state) EXCEPT ![p] = "ZOMBIE"]
  /\ kpc' = [kpc EXCEPT ![p] = "gone"]
  /\ LeaveCpu(p)
  /\ UNCHANGED <<pid, killed, pending, catch, nextpid, arg, victim>>

\* The critical section of exit(): wake the parent, hand the children to
\* init, become a zombie.
exit(p) ==
  LET kids == {q \in Slot : parent[q] = p}
      woken == Wake1(state, parent[p])
      woken2 == IF \E q \in kids : state[q] = "ZOMBIE"
                THEN Wake1(woken, initproc) ELSE woken
  IN
  /\ Running(p) /\ kpc[p] = "exit"
  /\ parent' = [q \in Slot |-> IF q \in kids THEN initproc ELSE parent[q]]
  /\ state' = [woken2 EXCEPT ![p] = "ZOMBIE"]
  /\ kpc' = [kpc EXCEPT ![p] = "gone"]
  /\ LeaveCpu(p)
  /\ UNCHANGED <<pid, killed, pending, catch, nextpid, arg, victim>>

Matches(p, q, target) == parent[q] = p /\ target \in {-1, pid[q]}

Zombies(p, target) ==
  {q \in Slot : Matches(p, q, target) /\ state[q] = "ZOMBIE"}

\* The reaping branch: the first matching zombie's slot is freed.
Reap(p, target) ==
  LET q == Min(Zombies(p, target)) IN
  /\ Zombies(p, target) # {}
  /\ pid' = [pid EXCEPT ![q] = 0]
  /\ parent' = [parent EXCEPT ![q] = None]
  /\ killed' = [killed EXCEPT ![q] = FALSE]
  /\ victim' = [victim EXCEPT ![q] = 0]
  /\ pending' = [pending EXCEPT ![q] = {}]
  /\ catch' = [catch EXCEPT ![q] = {}]
  /\ state' = [state EXCEPT ![q] = "UNUSED"]
  /\ Return(p)
  /\ UNCHANGED <<nextpid, cpu>>

\* No zombie: return -1 or, with nohang, 0; otherwise sleep on oneself.
ReapNone(p, target, nohang) ==
  /\ Zombies(p, target) = {}
  /\ IF \/ ~\E q \in Slot : Matches(p, q, target)
        \/ killed[p] \/ pending[p] \cap catch[p] # {}
        \/ nohang
     THEN /\ Return(p)
          /\ UNCHANGED <<state, cpu>>
     ELSE /\ state' = [state EXCEPT ![p] = "SLEEPING"]
          /\ LeaveCpu(p)
          /\ kpc' = [kpc EXCEPT ![p] = "waitpid"]
          /\ arg' = [arg EXCEPT ![p] = target]
  /\ UNCHANGED <<pid, parent, killed, pending, catch, nextpid, victim>>

\* waitpid(target, nohang): the first scan, or the one after a wakeup.
waitpid(p, target, nohang) ==
  /\ \/ Syscall(p)
     \/ Running(p) /\ kpc[p] = "waitpid" /\ target = arg[p] /\ ~nohang
  /\ Reap(p, target) \/ ReapNone(p, target, nohang)
-----------------------------------------------------------------------------
(* Signals.                                                                *)

Fatal(s, sig) ==
  sig # 0 /\ (sig = SIGKILL \/ (sig \notin catch[s] /\ pid[s] # 1))


\* raise_on() for every slot of T.  Signal 0 leaves no trace but still makes a
\* sleeper runnable.
Raise(T, sig) ==
  /\ pending' = [s \in Slot |-> IF s \in T THEN pending[s] \cup ({sig} \cap Caught)
                                           ELSE pending[s]]
  /\ killed' = [s \in Slot |-> killed[s] \/ (s \in T /\ Fatal(s, sig))]
  /\ state' = [s \in Slot |-> IF s \in T /\ state[s] = "SLEEPING"
                              THEN "RUNNABLE" ELSE state[s]]
  /\ victim' = [s \in Slot |-> IF s \in T /\ Fatal(s, sig) THEN pid[s]
                                                         ELSE victim[s]]

\* kill(target, sig), one critical section; -1 is everyone but init and p.
kill(p, target, sig) ==
  LET T == IF target = -1
           THEN {s \in Slot : state[s] # "UNUSED" /\ pid[s] > 1 /\ s # p}
           ELSE {s \in Slot : state[s] # "UNUSED" /\ pid[s] = target}
  IN
  /\ Syscall(p) /\ T # {}
  /\ Raise(T, sig)
  /\ UNCHANGED <<pid, parent, catch, nextpid, cpu, kpc, arg>>

signal_catch(p, mask) ==
  /\ Syscall(p)
  /\ catch' = [catch EXCEPT ![p] = mask \ {SIGKILL}]
  /\ UNCHANGED <<state, pid, parent, killed, pending, nextpid, cpu, kpc, arg,
                 victim>>

\* signal_take(out, block): take a claimed signal, fail, or sleep on oneself.
signal_take(p) ==
  LET ready == pending[p] \cap catch[p] IN
  /\ Syscall(p) \/ (Running(p) /\ kpc[p] = "sigwait")
  /\ \/ /\ ready # {}
        /\ \E sig \in ready : pending' = [pending EXCEPT ![p] = @ \ {sig}]
        /\ kpc' = [kpc EXCEPT ![p] = "user"]
        /\ UNCHANGED <<state, cpu>>
     \/ /\ ready = {} /\ killed[p]
        /\ kpc' = [kpc EXCEPT ![p] = "user"]
        /\ UNCHANGED <<state, cpu, pending>>
     \/ /\ ready = {} /\ ~killed[p]
        /\ state' = [state EXCEPT ![p] = "SLEEPING"]
        /\ LeaveCpu(p)
        /\ kpc' = [kpc EXCEPT ![p] = "sigwait"]
        /\ UNCHANGED pending
  /\ UNCHANGED <<pid, parent, killed, catch, nextpid, arg, victim>>

Next ==
  \E p \in Slot :
    \/ \E c \in CPU : scheduler(c, p)
    \/ yield(p) \/ Fault(p) \/ ExitCall(p)
    \/ allocproc(p) \/ ForkFails(p) \/ fork(p)
    \/ exit(p) \/ signal_take(p)
    \/ \E t \in {-1} \cup 1..MaxPid :
         \/ \E nohang \in BOOLEAN : waitpid(p, t, nohang)
         \/ \E sig \in Signal \cup {0} : kill(p, t, sig)
    \/ \E mask \in SUBSET Signal : signal_catch(p, mask)

Spec == Init /\ [][Next]_vars

\* scheduler() scans the table round robin and the timer preempts every
\* process, so a runnable process keeps being run; a process that keeps being
\* run gets through the kernel code it is in.
Fairness ==
  \A p \in Slot :
    /\ SF_vars(\E c \in CPU : scheduler(c, p))
    /\ WF_vars(yield(p))
    /\ SF_vars(killed[p] /\ ExitCall(p)) /\ SF_vars(exit(p))
    /\ SF_vars(ForkFails(p) \/ fork(p))
    /\ SF_vars(kpc[p] = "waitpid" /\ waitpid(p, arg[p], FALSE))
    /\ SF_vars(kpc[p] = "sigwait" /\ signal_take(p))

FairSpec == Spec /\ Fairness
-----------------------------------------------------------------------------
Live == {s \in Slot : state[s] \notin {"UNUSED", "EMBRYO"}}

\* Each CPU runs one process and a running process is on exactly one CPU,
\* across every sleep, exit and preemption.
OneCpuEach ==
  /\ \A p \in Slot : Running(p) <=> \E c \in CPU : cpu[c] = p
  /\ \A c, d \in CPU : cpu[c] = cpu[d] /\ cpu[c] # None => c = d

\* Every process but init has a parent that can still reap it: exit() hands
\* the children of a dying process to init in the same critical section.
ParentCanReap ==
  \A s \in Live \ {initproc} :
    /\ parent[s] \in Live
    /\ state[parent[s]] # "ZOMBIE"

\* A pid names at most one process, so kill() and waitpid() act on the one
\* the caller means; a slot in use never shows pid 0.
PidUnique ==
  \A s, t \in Slot : state[s] # "UNUSED" /\ state[t] # "UNUSED" =>
                      pid[s] # 0 /\ (pid[s] = pid[t] => s = t)

\* No lost wakeup in waitpid(): a parent is never asleep while a child it
\* waits for is a zombie, nor with a signal that should end its wait.
NoMissedExit ==
  \A p \in Slot : state[p] = "SLEEPING" =>
    /\ kpc[p] = "waitpid" =>
         ~\E q \in Slot : Matches(p, q, arg[p]) /\ state[q] = "ZOMBIE"
    /\ kpc[p] = "waitpid" => \E q \in Slot : Matches(p, q, arg[p])
    /\ ~killed[p] /\ pending[p] \cap catch[p] = {}

\* An embryo belongs to one process in the middle of fork(), which alone will
\* publish it or give it back.
EmbryoOwned ==
  \A s \in Slot : state[s] = "EMBRYO" =>
    Cardinality({p \in Slot : kpc[p] = "fork" /\ arg[p] = s}) = 1

\* The process tree is whole: every process has a pid of its own, somebody to
\* reap it, and while it is built one maker.
FamilyIntact == ParentCanReap /\ PidUnique /\ EmbryoOwned


\* "killed: If non-zero, have been killed" (proc.h): a process marked killed
\* has been the target of a fatal signal or a fault.
KilledMeansSignalled ==
  \A s \in Live : killed[s] => victim[s] = pid[s]

=============================================================================
