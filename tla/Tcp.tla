-------------------------------- MODULE Tcp ---------------------------------
(***************************************************************************)
(* TCP handles (kern/net/lwip/lwip.c): a table of slots over lwIP's        *)
(* callback interface.                                                     *)
(*                                                                         *)
(* lwIP is external.  Its port is the single-core one, with input and      *)
(* timers in interrupt context (lwipopts.h), and every call or callback    *)
(* holds its slot's lock with interrupts off, so each is one action; a     *)
(* call that waits is one action up to each sleep().  `conn' is the state  *)
(* of the lwIP control block a slot points to; "none" stands for pcb = 0.  *)
(* A segment has two units of data, and a queue holds the units of each    *)
(* segment already read.  Time enters only as sys_now() - deadline, modulo *)
(* Wrap (2^32 milliseconds in the code), which is what a waiter keeps here.*)
(* The counters of dropped packets, which nothing reads, are left out.     *)
(***************************************************************************)
EXTENDS Integers, Sequences, SequencesExt, FiniteSets, FiniteSetsExt

CONSTANTS
  Proc, None,
  SLOTS,           \* TCP_SLOTS
  QUEUE_DEPTH,     \* TCP_QUEUE_DEPTH
  Wrap             \* sys_now() counts modulo this

VARIABLES
  tcp,             \* the slot table
  waiter,          \* what each process does: [pc, asleep, h, late]
  live             \* processes that have not exited

vars == <<tcp, waiter, live>>

Slot == 1..SLOTS
Conn == {"none", "closed", "listen", "synsent", "est", "closewait"}
State == {"FREE", "CONNECTING", "CONNECTED", "LISTENING", "ERROR", "CLOSED"}

TypeOK ==
  /\ DOMAIN tcp = Slot
  /\ \A s \in Slot :
       /\ tcp[s].conn \in Conn /\ tcp[s].state \in State
       /\ tcp[s].owner \in Proc \cup {None} /\ tcp[s].bound \in BOOLEAN
       /\ tcp[s].q \in BoundedSeq(0..1, QUEUE_DEPTH)
       /\ tcp[s].accepted \in BoundedSeq(Slot, QUEUE_DEPTH)
  /\ waiter \in [Proc -> [pc : {"user", "connect", "accept", "recv", "exit"},
                          asleep : BOOLEAN, h : Slot, late : 0..Wrap - 1]]
  /\ live \subseteq Proc

Free == [conn |-> "none", owner |-> None, state |-> "FREE", bound |-> FALSE,
         q |-> <<>>, accepted |-> <<>>]

\* A process outside these calls.
Idle == [pc |-> "user", asleep |-> FALSE, h |-> 1, late |-> 0]

Init ==
  /\ tcp = [s \in Slot |-> Free]
  /\ waiter = [p \in Proc |-> Idle]
  /\ live = Proc

Used(s) == tcp[s].conn # "none"
Owned(p, s) == Used(s) /\ tcp[s].owner = p

\* (int)(sys_now() - deadline) >= 0
Expired(late) == late < Wrap \div 2


\* wakeup(slot): every sleeper on slot s is runnable again.
Wakeup(s) == [p \in Proc |-> [waiter[p] EXCEPT !.asleep = @ /\ waiter[p].h # s]]

Return(p) == waiter' = [waiter EXCEPT ![p] = Idle]
Sleep(p, pc, s, d) ==
  waiter' = [waiter EXCEPT ![p] = [pc |-> pc, asleep |-> TRUE, h |-> s, late |-> d]]
Calling(p) == p \in live /\ waiter[p].pc = "user"
-----------------------------------------------------------------------------
(* System calls.                                                           *)

\* The first slot without a control block.
FreeSlot(s) == ~Used(s) /\ \A t \in 1..s - 1 : Used(t)

tcp_open(p) ==
  /\ Calling(p)
  /\ \E s \in Slot :
       /\ FreeSlot(s)
       /\ tcp' = [tcp EXCEPT ![s] = [Free EXCEPT !.conn = "closed", !.owner = p,
                                                 !.state = "CLOSED"]]
  /\ UNCHANGED <<waiter, live>>

tcp_bind(p, s) ==
  /\ Calling(p) /\ Owned(p, s)
  /\ tcp[s].state = "CLOSED" /\ ~tcp[s].bound
  /\ tcp[s].conn = "closed"    \* or lwIP's tcp_bind() refuses
  /\ tcp' = [tcp EXCEPT ![s].bound = TRUE]
  /\ UNCHANGED <<waiter, live>>

tcp_listen(p, s) ==
  /\ Calling(p) /\ Owned(p, s)
  /\ tcp[s].state = "CLOSED" /\ tcp[s].bound
  /\ tcp[s].conn = "closed"    \* or lwIP's tcp_listen() refuses
  /\ tcp' = [tcp EXCEPT ![s].conn = "listen", ![s].state = "LISTENING"]
  /\ UNCHANGED <<waiter, live>>

\* The loop of tcp_connect(), from its test to a return or the next sleep().
ConnectWait(p, s, d, state) ==
  IF state = "CONNECTING" /\ ~Expired(d) THEN Sleep(p, "connect", s, d)
  ELSE Return(p)

tcp_connect(p, s, timeout) ==
  /\ Calling(p) /\ Owned(p, s) /\ timeout > 0
  /\ tcp[s].state = "CLOSED"
  /\ \/ /\ tcp[s].conn = "closed"
        /\ tcp' = [tcp EXCEPT ![s].state = "CONNECTING", ![s].conn = "synsent"]
        /\ ConnectWait(p, s, -timeout % Wrap, "CONNECTING")
     \/ /\ tcp' = [tcp EXCEPT ![s].state = "ERROR"]   \* lwIP refuses
        /\ UNCHANGED waiter
  /\ UNCHANGED live

ConnectRetry(p) ==
  /\ waiter[p].pc = "connect" /\ ~waiter[p].asleep
  /\ ConnectWait(p, waiter[p].h, waiter[p].late, tcp[waiter[p].h].state)
  /\ UNCHANGED <<tcp, live>>

\* The loop of tcp_accept().
AcceptWait(p, s, d, timeout) ==
  IF tcp[s].accepted # <<>>
  THEN /\ tcp' = [tcp EXCEPT ![s].accepted = Tail(@)]
       /\ Return(p)
  ELSE /\ IF timeout = 0 \/ Expired(d) THEN Return(p) ELSE Sleep(p, "accept", s, d)
       /\ UNCHANGED tcp

tcp_accept(p, s, timeout) ==
  /\ Calling(p) /\ Owned(p, s) /\ tcp[s].state = "LISTENING"
  /\ AcceptWait(p, s, -timeout % Wrap, timeout)
  /\ UNCHANGED live

AcceptRetry(p) ==
  /\ waiter[p].pc = "accept" /\ ~waiter[p].asleep
  /\ AcceptWait(p, waiter[p].h, waiter[p].late, 1)
  /\ UNCHANGED live

\* The loop of tcp_recv(), then the copy of at most n units of one segment.
RecvWait(p, s, d, timeout, n) ==
  IF tcp[s].q # <<>>
  THEN /\ tcp' = [tcp EXCEPT ![s].q = IF Head(@) + n >= 2 THEN Tail(@)
                                     ELSE [@ EXCEPT ![1] = @ + n]]
       /\ Return(p)
  ELSE /\ IF tcp[s].state # "CONNECTED" \/ timeout = 0 \/ Expired(d)
          THEN Return(p) ELSE Sleep(p, "recv", s, d)
       /\ UNCHANGED tcp

tcp_recv(p, s, timeout, n) ==
  /\ Calling(p) /\ Owned(p, s)
  /\ RecvWait(p, s, -timeout % Wrap, timeout, n)
  /\ UNCHANGED live

RecvRetry(p, n) ==
  /\ waiter[p].pc = "recv" /\ ~waiter[p].asleep
  /\ RecvWait(p, waiter[p].h, waiter[p].late, 1, n)
  /\ UNCHANGED live

\* tcp_close() on slot s: what is left of the slot.
Closed(slot) ==
  [slot EXCEPT !.conn = "none", !.owner = None, !.state = "FREE", !.bound = FALSE,
               !.q = <<>>, !.accepted = <<>>]

tcp_close(p, s) ==
  /\ Calling(p) /\ Owned(p, s)
  /\ tcp' = [tcp EXCEPT ![s] = Closed(@)]
  /\ waiter' = Wakeup(s)
  /\ UNCHANGED live

\* exit(): tcp_process_exit() closes the slots of the process one by one,
\* each under its own lock.
exit(p) ==
  /\ Calling(p)
  /\ waiter' = [waiter EXCEPT ![p].pc = "exit", ![p].h = 1]
  /\ UNCHANGED <<tcp, live>>

tcp_process_exit(p) ==
  /\ waiter[p].pc = "exit"
  /\ LET s == waiter[p].h
         woken == IF Owned(p, s) THEN Wakeup(s) ELSE waiter
     IN  /\ tcp' = IF Owned(p, s) THEN [tcp EXCEPT ![s] = Closed(@)] ELSE tcp
         /\ IF s < SLOTS
            THEN waiter' = [woken EXCEPT ![p].h = s + 1] /\ UNCHANGED live
            ELSE waiter' = [woken EXCEPT ![p] = Idle] /\ live' = live \ {p}
-----------------------------------------------------------------------------
(* Callbacks from lwIP, and the timer tick.                                *)

\* A data segment: lwIP's window is opened again whether or not it is queued.
tcp_received(s) ==
  /\ tcp[s].conn = "est"
  /\ IF tcp[s].state = "CONNECTED" /\ Len(tcp[s].q) < QUEUE_DEPTH
     THEN tcp' = [tcp EXCEPT ![s].q = Append(@, 0)] /\ waiter' = Wakeup(s)
     ELSE UNCHANGED <<tcp, waiter>>
  /\ UNCHANGED live

\* The peer closed its side: the callback with a null pbuf.
PeerClosed(s) ==
  /\ tcp[s].conn = "est"
  /\ tcp' = [tcp EXCEPT ![s].conn = "closewait", ![s].state = "CLOSED"]
  /\ waiter' = Wakeup(s)
  /\ UNCHANGED live

\* lwIP has freed the control block: reset by the peer or given up.
tcp_error(s) ==
  /\ tcp[s].conn \in {"synsent", "est", "closewait"}
  /\ tcp' = [tcp EXCEPT ![s].conn = "none", ![s].state = "ERROR"]
  /\ waiter' = Wakeup(s)
  /\ UNCHANGED live

tcp_connected(s) ==
  /\ tcp[s].conn = "synsent"
  /\ tcp' = [tcp EXCEPT ![s].conn = "est", ![s].state = "CONNECTED"]
  /\ waiter' = Wakeup(s)
  /\ UNCHANGED live

\* A connection on listener s: refused unless a slot and a place are free.
tcp_accepted(s) ==
  /\ tcp[s].conn = "listen" /\ tcp[s].state = "LISTENING"
  /\ Len(tcp[s].accepted) < QUEUE_DEPTH
  /\ \E c \in Slot :
       /\ FreeSlot(c)
       /\ tcp' = [tcp EXCEPT ![c].conn = "est", ![c].owner = tcp[s].owner,
                             ![c].state = "CONNECTED", ![c].q = <<>>,
                             ![s].accepted = Append(@, c)]
  /\ waiter' = Wakeup(s)
  /\ UNCHANGED live

Timed == {p \in Proc : waiter[p].pc \notin {"user", "exit"}}
Asleep == {p \in Proc : waiter[p].asleep}

\* Every waiter is one tick closer to, or further past, its deadline.
\* Bound: a runnable waiter runs before it is past it by half of the range.
Tick(waiters) ==
  /\ \A p \in Timed \ Asleep : waiter[p].late # Wrap \div 2 - 1
  /\ waiter' = [p \in Proc |-> IF p \in Timed
                               THEN [waiters[p] EXCEPT !.late = (@ + 1) % Wrap]
                               ELSE waiter[p]]
  /\ UNCHANGED <<tcp, live>>

\* Mutant: the tick does not wake the TCP waiters.
lwip_timers_NoTcp == Tick(waiter)

\* The timer interrupt wakes every slot.
lwip_timers == Tick([p \in Proc |-> Wakeup(waiter[p].h)[p]])

Next ==
  \/ \E p \in Proc :
       \/ tcp_open(p) \/ exit(p) \/ tcp_process_exit(p)
       \/ ConnectRetry(p) \/ AcceptRetry(p)
       \/ \E n \in 1..2 : RecvRetry(p, n)
       \/ \E s \in Slot :
            \/ tcp_bind(p, s) \/ tcp_listen(p, s) \/ tcp_close(p, s)
            \/ \E t \in 0..Wrap \div 2 - 1 :
                 \/ tcp_connect(p, s, t) \/ tcp_accept(p, s, t)
                 \/ \E n \in 1..2 : tcp_recv(p, s, t, n)
  \/ \E s \in Slot : \/ tcp_received(s) \/ PeerClosed(s) \/ tcp_error(s)
                     \/ tcp_connected(s) \/ tcp_accepted(s)
  \/ lwip_timers

Spec == Init /\ [][Next]_vars
-----------------------------------------------------------------------------
\* exit() is to "release their bounded kernel queues explicitly" (proc.c): no
\* control block outlives its owner, the connections that arrived for it and
\* were never collected included.
NoOrphan == \A s \in Slot : Used(s) => tcp[s].owner \in live


\* "Waking the bounded set of network waiters once per tick makes deadlines
\* reliable" (lwip.c): no TCP waiter is asleep at or after its deadline.
DeadlinesReliable == \A p \in Asleep : ~Expired(waiter[p].late)
=============================================================================
