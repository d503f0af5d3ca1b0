------------------------------- MODULE Query --------------------------------
(***************************************************************************)
(* Name resolution and echo requests (kern/net/lwip/lwip.c): one shared    *)
(* dns_state and one shared ping_state, each under its lock.               *)
(*                                                                         *)
(* As in Tcp, a call is one action up to each sleep(), and a waiter keeps  *)
(* sys_now() - deadline modulo Wrap.  lwIP is external: a query it has in  *)
(* progress ends in one call of proninx_dns_found(), with an address or    *)
(* with none once it gives up, and echo replies may be lost, late or       *)
(* duplicated.  The address of a name is the name itself.                  *)
(***************************************************************************)
EXTENDS Integers

CONSTANTS
  Proc, Name, None,
  Wrap,            \* sys_now() counts modulo this
  PingMod          \* ping identifiers count modulo this, 2^16 in the code

VARIABLES
  dns,             \* dns_state: [pending, complete, success, address]
  asked,           \* the name lwIP has a query in progress for, or None
  ping,            \* ping_state: [sequence, waiting, received: the reply that did it]
  echoed,          \* sequence numbers of replies that may still arrive
  caller           \* what each process does: [pc, asleep, late, arg, wrong]

vars == <<dns, asked, ping, echoed, caller>>

TypeOK ==
  /\ dns \in [pending : BOOLEAN, complete : BOOLEAN, success : BOOLEAN,
              address : Name \cup {None}]
  /\ asked \in Name \cup {None}
  /\ ping \in [sequence : 0..PingMod - 1, waiting : BOOLEAN,
               received : {None} \cup 0..PingMod - 1]
  /\ echoed \subseteq 0..PingMod - 1
  /\ caller \in [Proc -> [pc : {"user", "dns", "ping"}, asleep : BOOLEAN, late : 0..Wrap - 1,
                          arg : Name \cup {None} \cup 0..PingMod - 1,
                          wrong : {"no", "dns", "ping"}]]

Idle == [pc |-> "user", asleep |-> FALSE, late |-> 0, arg |-> None, wrong |-> "no"]

Init ==
  /\ dns = [pending |-> FALSE, complete |-> FALSE, success |-> FALSE, address |-> None]
  /\ asked = None
  /\ ping = [sequence |-> 0, waiting |-> FALSE, received |-> None]
  /\ echoed = {}
  /\ caller = [p \in Proc |-> Idle]

\* (int)(sys_now() - deadline) >= 0
Expired(late) == late < Wrap \div 2

\* wakeup(): the sleepers on one of the two states are runnable again.
Woken(c, chan) ==
  [p \in Proc |-> [c[p] EXCEPT !.asleep = @ /\ c[p].pc # chan]]

\* The call `pc' ends: res is what it gives its caller, None if it failed.
\* `wrong' records a success that is not the answer to what was asked.
Ends(p, pc, arg, res) ==
  caller' = [caller EXCEPT ![p] = [Idle EXCEPT !.wrong = IF res \in {None, arg} THEN "no" ELSE pc]]

Sleeps(p, pc, late, arg) ==
  caller' = [caller EXCEPT ![p] = [Idle EXCEPT !.pc = pc, !.asleep = TRUE,
                                                !.late = late, !.arg = arg]]
-----------------------------------------------------------------------------
\* The loop of proninx_dns_resolve() and what follows it, on state d.
DnsWait(p, d, late, name) ==
  IF ~d.complete /\ ~Expired(late) THEN Sleeps(p, "dns", late, name)
  ELSE Ends(p, "dns", name, IF d.complete /\ d.success THEN d.address ELSE None)

\* dns_gethostbyname() answers from its table, starts a query, or fails.
proninx_dns_resolve(p, name, timeout) ==
  /\ caller[p].pc = "user" /\ ~dns.pending
  /\ \/ LET d == [pending |-> FALSE, complete |-> TRUE, success |-> TRUE, address |-> name]
        IN  dns' = d /\ DnsWait(p, d, -timeout % Wrap, name) /\ UNCHANGED asked
     \/ LET d == [dns EXCEPT !.pending = TRUE, !.complete = FALSE, !.success = FALSE]
        IN  /\ dns' = d /\ DnsWait(p, d, -timeout % Wrap, name)
            /\ asked' = name
     \/ /\ dns' = [dns EXCEPT !.complete = FALSE, !.success = FALSE]
        /\ Ends(p, "dns", name, None) /\ UNCHANGED asked
  /\ UNCHANGED <<ping, echoed>>


DnsRetry(p) ==
  /\ caller[p].pc = "dns" /\ ~caller[p].asleep
  /\ DnsWait(p, dns, caller[p].late, caller[p].arg)
  /\ UNCHANGED <<dns, asked, ping, echoed>>

proninx_dns_found(success) ==
  /\ asked # None
  /\ dns' = [pending |-> FALSE, complete |-> TRUE, success |-> success,
             address |-> IF success THEN asked ELSE dns.address]
  /\ asked' = None
  /\ caller' = Woken(caller, "dns")
  /\ UNCHANGED <<ping, echoed>>
-----------------------------------------------------------------------------
\* proninx_lwip_ping() refuses while another request waits.
Refused == ping.waiting

proninx_lwip_ping(p, timeout) ==
  /\ caller[p].pc = "user" /\ ~Refused
  /\ LET seq == (ping.sequence + 1) % PingMod
     IN  /\ seq \notin echoed   \* bound: no reply is a whole cycle old
         /\ \/ /\ ping' = [sequence |-> seq, waiting |-> TRUE, received |-> None]
               /\ echoed' = echoed \cup {seq}
               /\ Sleeps(p, "ping", -timeout % Wrap, seq)
            \/ /\ ping' = [sequence |-> seq, waiting |-> FALSE, received |-> None]
               /\ Ends(p, "ping", seq, None) /\ UNCHANGED echoed   \* raw_sendto() fails
  /\ UNCHANGED <<dns, asked>>

PingRetry(p) ==
  /\ caller[p].pc = "ping" /\ ~caller[p].asleep
  /\ IF ping.received = None /\ ~Expired(caller[p].late)
     THEN Sleeps(p, "ping", caller[p].late, caller[p].arg) /\ UNCHANGED ping
     ELSE /\ ping' = [ping EXCEPT !.waiting = FALSE]
          /\ Ends(p, "ping", caller[p].arg, ping.received)
  /\ UNCHANGED <<dns, asked, echoed>>

\* Mutant: the sequence number of the reply is not compared.
Answers_Any(seq) == ping.waiting

\* Whether a reply belongs to the request that waits.
Answers(seq) == ping.waiting /\ seq = ping.sequence

\* A reply arrives, and may arrive again: wakes both states.
lwip_ping_input(seq) ==
  /\ seq \in echoed
  /\ IF Answers(seq)
     THEN /\ ping' = [ping EXCEPT !.received = seq]
          /\ caller' = Woken(Woken(caller, "ping"), "dns")
     ELSE UNCHANGED <<ping, caller>>
  /\ echoed' \in {echoed, echoed \ {seq}}
  /\ UNCHANGED <<dns, asked>>

\* A reply is lost.
Lose(seq) ==
  /\ seq \in echoed
  /\ echoed' = echoed \ {seq}
  /\ UNCHANGED <<dns, asked, ping, caller>>


\* Of the two states, the tick wakes only ping_state.
TickWakes == Woken(caller, "ping")

\* Bound: a runnable waiter runs before it is late by half of the range.
proninx_lwip_timers ==
  /\ \A p \in Proc : caller[p].pc # "user" /\ ~caller[p].asleep
                     => caller[p].late # Wrap \div 2 - 1
  /\ caller' = [p \in Proc |-> IF caller[p].pc = "user" THEN caller[p]
                               ELSE [TickWakes[p] EXCEPT !.late = (@ + 1) % Wrap]]
  /\ UNCHANGED <<dns, asked, ping, echoed>>

Next ==
  \/ \E p \in Proc, t \in 1..Wrap \div 2 - 1 :
       \/ proninx_lwip_ping(p, t)
       \/ \E name \in Name : proninx_dns_resolve(p, name, t)
  \/ \E p \in Proc : DnsRetry(p) \/ PingRetry(p)
  \/ \E success \in BOOLEAN : proninx_dns_found(success)
  \/ \E seq \in echoed : lwip_ping_input(seq) \/ Lose(seq)
  \/ proninx_lwip_timers

Spec == Init /\ [][Next]_vars
-----------------------------------------------------------------------------
\* dns_state is reserved exactly while lwIP has a query in progress: a
\* resolver that gives up leaves it reserved, so that the late answer cannot
\* meet the next query.
OneQuery == dns.pending <=> asked # None

\* A ping that succeeds was answered by a reply to its own request: late,
\* duplicated and other callers' replies do not count.
PingAnswered == \A p \in Proc : caller[p].wrong # "ping"

\* "Waking the bounded set of network waiters once per tick makes deadlines
\* reliable" (lwip.c): no ping sleeps at or after its deadline.
PingDeadline ==
  \A p \in Proc : caller[p].pc = "ping" /\ caller[p].asleep => ~Expired(caller[p].late)

\* "Resolve hostname to IPv4 address" (doc/ABI.md): a resolver that succeeds
\* has the address of the name it asked for.
RightAddress == \A p \in Proc : caller[p].wrong # "dns"
=============================================================================
