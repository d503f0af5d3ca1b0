-------------------------------- MODULE Udp ---------------------------------
(***************************************************************************)
(* UDP handles (kern/net/lwip/lwip.c): process-owned slots, each with a    *)
(* ring of received datagrams.  Calls, callbacks, sleeping and time are    *)
(* modelled as in Tcp.  lwIP gives a slot the datagrams for its port and   *)
(* refuses a port that is in use.  A datagram is the port it was sent to   *)
(* with a value; sending, which changes no slot, is left out.              *)
(***************************************************************************)
EXTENDS Integers, Sequences

CONSTANTS
  Proc, Port, Val, None,
  SLOTS,           \* UDP_SLOTS
  QUEUE_DEPTH,     \* UDP_QUEUE_DEPTH
  Wrap             \* sys_now() counts modulo this

VARIABLES
  udp,             \* the slot table: [pcb, owner, port, head, tail, count, queue]
  recv,            \* what each process does: [pc, asleep, h, late]
  alive            \* processes that have not exited

vars == <<udp, recv, alive>>

Slot == 1..SLOTS
Datagram == Port \X Val

TypeOK ==
  /\ \A s \in Slot : /\ udp[s].pcb \in BOOLEAN
                     /\ udp[s].owner \in Proc \cup {None}
                     /\ udp[s].port \in Port \cup {None}
                     /\ udp[s].head \in 0..QUEUE_DEPTH - 1
                     /\ udp[s].tail \in 0..QUEUE_DEPTH - 1
                     /\ udp[s].count \in 0..QUEUE_DEPTH
  /\ recv \in [Proc -> [pc : {"user", "recv", "exit"}, asleep : BOOLEAN, h : Slot,
                        late : 0..Wrap - 1]]
  /\ alive \subseteq Proc

Free == [pcb |-> FALSE, owner |-> None, port |-> None, head |-> 0, tail |-> 0, count |-> 0,
         queue |-> [i \in 0..QUEUE_DEPTH - 1 |-> None]]
Idle == [pc |-> "user", asleep |-> FALSE, h |-> 1, late |-> 0]

Init ==
  /\ udp = [s \in Slot |-> Free]
  /\ recv = [p \in Proc |-> Idle]
  /\ alive = Proc

Owned(p, s) == udp[s].pcb /\ udp[s].owner = p
Expired(late) == late < Wrap \div 2
Wakeup(s) == [p \in Proc |-> [recv[p] EXCEPT !.asleep = @ /\ recv[p].h # s]]
Calling(p) == p \in alive /\ recv[p].pc = "user"
-----------------------------------------------------------------------------
udp_open(p) ==
  /\ Calling(p)
  /\ \E s \in Slot :
       /\ ~udp[s].pcb /\ \A t \in 1..s - 1 : udp[t].pcb
       /\ udp' = [udp EXCEPT ![s] = [Free EXCEPT !.pcb = TRUE, !.owner = p]]
  /\ UNCHANGED <<recv, alive>>

udp_bind(p, s, port) ==
  /\ Calling(p) /\ Owned(p, s)
  /\ udp[s].port = None
  /\ \A t \in Slot : udp[t].port # port    \* or lwIP's udp_bind() refuses
  /\ udp' = [udp EXCEPT ![s].port = port]
  /\ UNCHANGED <<recv, alive>>

\* The loop of proninx_udp_recvfrom(), then the copy of one datagram.
RecvWait(p, s, late, timeout) ==
  LET u == udp[s] IN
  IF u.count # 0
  THEN /\ udp' = [udp EXCEPT ![s].head = (@ + 1) % QUEUE_DEPTH, ![s].count = @ - 1,
                             ![s].queue[u.head] = None]
       /\ recv' = [recv EXCEPT ![p] = Idle]
  ELSE /\ recv' = [recv EXCEPT ![p] =
                     IF timeout = 0 \/ Expired(late) THEN Idle
                     ELSE [pc |-> "recv", asleep |-> TRUE, h |-> s, late |-> late]]
       /\ UNCHANGED udp

udp_recvfrom(p, s, timeout) ==
  /\ Calling(p) /\ Owned(p, s)
  /\ RecvWait(p, s, -timeout % Wrap, timeout)
  /\ UNCHANGED alive

RecvRetry(p) ==
  /\ recv[p].pc = "recv" /\ ~recv[p].asleep
  /\ IF Owned(p, recv[p].h) THEN RecvWait(p, recv[p].h, recv[p].late, 1)
     ELSE recv' = [recv EXCEPT ![p] = Idle] /\ UNCHANGED udp
  /\ UNCHANGED alive


Closed(u) == Free

udp_close(p, s) ==
  /\ Calling(p) /\ Owned(p, s)
  /\ udp' = [udp EXCEPT ![s] = Closed(@)]
  /\ recv' = Wakeup(s)
  /\ UNCHANGED alive

\* Mutant: the loop stops one slot early.
LastSlot_Early(s) == s = SLOTS - 1

LastSlot(s) == s = SLOTS

\* exit(): the slots one by one, each under its own lock.
exit(p) ==
  /\ Calling(p)
  /\ recv' = [recv EXCEPT ![p].pc = "exit", ![p].h = 1]
  /\ UNCHANGED <<udp, alive>>

udp_process_exit(p) ==
  /\ recv[p].pc = "exit"
  /\ LET s == recv[p].h
         woken == IF Owned(p, s) THEN Wakeup(s) ELSE recv
     IN  /\ udp' = IF Owned(p, s) THEN [udp EXCEPT ![s] = Closed(@)] ELSE udp
         /\ IF LastSlot(s)
            THEN recv' = [woken EXCEPT ![p] = Idle] /\ alive' = alive \ {p}
            ELSE recv' = [woken EXCEPT ![p].h = s + 1] /\ UNCHANGED alive
-----------------------------------------------------------------------------
\* Mutant: a full ring takes one more.
Room_One(u) == u.count <= QUEUE_DEPTH

Room(u) == u.count < QUEUE_DEPTH

\* A datagram arrives for a bound slot: queued, or dropped when there is no
\* room for it.
udp_input(s, d) ==
  /\ udp[s].pcb /\ udp[s].port = d[1]
  /\ IF Room(udp[s])
     THEN /\ udp' = [udp EXCEPT ![s].queue[udp[s].tail] = d, ![s].count = @ + 1,
                                ![s].tail = (@ + 1) % QUEUE_DEPTH]
          /\ recv' = Wakeup(s)
     ELSE UNCHANGED <<udp, recv>>
  /\ UNCHANGED alive


TickWakes(s) == Wakeup(s)

\* Bound: a runnable waiter runs before it is late by half of the range.
lwip_timers ==
  /\ \A p \in Proc : recv[p].pc = "recv" /\ ~recv[p].asleep => recv[p].late # Wrap \div 2 - 1
  /\ recv' = [p \in Proc |-> IF recv[p].pc = "recv"
                             THEN [TickWakes(recv[p].h)[p] EXCEPT !.late = (@ + 1) % Wrap]
                             ELSE recv[p]]
  /\ UNCHANGED <<udp, alive>>

Next ==
  \/ \E p \in Proc :
       \/ udp_open(p) \/ RecvRetry(p) \/ exit(p) \/ udp_process_exit(p)
       \/ \E s \in Slot : \/ udp_close(p, s)
                          \/ \E port \in Port : udp_bind(p, s, port)
                          \/ \E t \in 0..Wrap \div 2 - 1 : udp_recvfrom(p, s, t)
  \/ \E s \in Slot, d \in Datagram : udp_input(s, d)
  \/ lwip_timers

Spec == Init /\ [][Next]_vars
-----------------------------------------------------------------------------
\* The datagrams in a slot's ring, oldest first.
Pending(u) == [i \in 1..u.count |-> u.queue[(u.head + i - 1) % QUEUE_DEPTH]]

\* A slot's ring is a queue: a step adds one datagram behind the others,
\* takes the oldest, empties it, or leaves it as it is.  A full ring drops
\* what comes and overwrites nothing.
QueueStep ==
  \A s \in Slot :
    LET old == Pending(udp[s])  new == Pending(udp'[s])
    IN  \/ new \in {old, <<>>}
        \/ old # <<>> /\ new = Tail(old)
        \/ \E d \in Datagram : new = Append(old, d)
RingIsQueue == [][QueueStep]_vars

\* A slot holds datagrams for its own port only: none of its last owner's
\* outlives the handle.
OwnDatagrams ==
  \A s \in Slot : \A i \in 1..udp[s].count :
    Pending(udp[s])[i] \in {udp[s].port} \X Val

\* exit() is to "release their bounded kernel queues explicitly" (proc.c): no
\* slot outlives its owner.
NoUdpOrphan == \A s \in Slot : udp[s].pcb => udp[s].owner \in alive

\* No process sleeps while its slot has a datagram, or past its deadline.
UdpWaits ==
  \A p \in Proc : recv[p].asleep => udp[recv[p].h].count = 0 /\ ~Expired(recv[p].late)
=============================================================================
