-------------------------------- MODULE Nic ---------------------------------
(***************************************************************************)
(* The packet path: the adapter (kern/net/adapter.c), the two network      *)
(* drivers below it (e1000.c, virtio_net.c) and lwIP's side of it          *)
(* (lwip_input, lwip_linkoutput and proninx_lwip_init in lwip.c).          *)
(*                                                                         *)
(* The boot processor attaches the devices found on the bus and starts     *)
(* lwIP with interrupts off (kmain).  From then on three parties step:     *)
(* the device, which reads and writes the rings by itself; the service     *)
(* routine, which interrupts and the timer's poll both run on processor 0, *)
(* so that it never runs twice at once; and senders on any processor.      *)
(* The service routine gives up the driver's lock while the stack reads a  *)
(* frame.  A frame is one of a few values.  `sent' and `arrived' are the   *)
(* frames accepted for sending, or come in from the wire, that the device  *)
(* has not put on the wire, or the stack has not been given, yet; a sent   *)
(* buffer is emptied.  The statistics are left out.                        *)
(***************************************************************************)
EXTENDS Integers, Sequences, SequencesExt, FiniteSets

CONSTANTS
  Frame, None,
  RING,            \* E1000_NUM_TX_DESC and E1000_NUM_RX_DESC
  VIRTQ_SIZE,
  IndexMod         \* ring indices of VirtIO count modulo this, 2^16 in the code

VARIABLES
  adapter,         \* [iface, handler, ready]
  booted,          \* interrupts are on
  reading,         \* the frame the stack is being given, or None
  sent, arrived,
  e1000,           \* [initialized, tx, tail, tdh, rx, cur, rdh, rdt]
  vnet             \* [present, inflight, txq, rxq]

vars == <<adapter, booted, reading, sent, arrived, e1000, vnet>>

Desc == 0..RING - 1
VDesc == 0..VIRTQ_SIZE - 1
Nics == {"em0", "vtnet0"}

\* One VirtIO queue: the available and used rings, the driver's used_index,
\* the device's place in the available ring, what the device holds, and the
\* contents of the buffers.
EmptyQueue ==
  [avail |-> [i \in VDesc |-> 0], availIndex |-> 0, used |-> [i \in VDesc |-> 0],
   usedIndex |-> 0, seen |-> 0, taken |-> 0, held |-> {}, buf |-> [i \in VDesc |-> None]]

TypeOK ==
  /\ adapter.iface \in Nics \cup {None} /\ adapter.handler \in BOOLEAN
  /\ reading \in Frame \cup {None}
  /\ e1000.tail \in Desc /\ e1000.cur \in Desc
  /\ \A q \in {vnet.txq, vnet.rxq} :
       /\ {q.availIndex, q.usedIndex, q.seen, q.taken} \subseteq 0..IndexMod - 1
       /\ q.held \subseteq VDesc

Init ==
  /\ adapter = [iface |-> None, handler |-> FALSE, ready |-> FALSE]
  /\ booted = FALSE /\ reading = None /\ sent = <<>> /\ arrived = <<>>
  /\ e1000 = [initialized |-> FALSE, tx |-> [i \in Desc |-> "idle"], tail |-> 0, tdh |-> 0,
              txbuf |-> [i \in Desc |-> None],
              rx |-> [i \in Desc |-> None], cur |-> 0, rdh |-> 0, rdt |-> RING - 1]
  /\ vnet = [present |-> FALSE, inflight |-> [i \in VDesc |-> FALSE],
             txq |-> EmptyQueue, rxq |-> EmptyQueue]

Plus(n, m) == (n + 1) % m
-----------------------------------------------------------------------------
(* Start-up.                                                               *)


\* proninx_net_register(): the first interface keeps the place.
Placed == adapter.iface = None
Register(nic) == adapter' = [adapter EXCEPT !.iface = IF @ = None THEN nic ELSE @]

\* A failure for want of memory comes before anything modelled here.
e1000_attach ==
  /\ ~booted /\ ~e1000.initialized /\ ~adapter.ready
  /\ Register("em0")
  /\ e1000' = [e1000 EXCEPT !.initialized = Placed]
  /\ UNCHANGED <<booted, reading, sent, arrived, vnet>>

\* Buffer id enters the available ring, in receive_refill() and in
\* virtio_net_transmit().
Refilled(q, id) ==
  [q EXCEPT !.avail[q.availIndex % VIRTQ_SIZE] = id, !.availIndex = Plus(@, IndexMod)]

\* queue_setup(), one receive_refill() per buffer, registration.
virtio_net_attach ==
  /\ ~booted /\ ~vnet.present /\ ~adapter.ready
  /\ Register("vtnet0")
  /\ vnet' = [vnet EXCEPT !.present = Placed,
                          !.rxq = FoldLeft(Refilled, EmptyQueue, [i \in 1..VIRTQ_SIZE |-> i - 1])]
  /\ UNCHANGED <<booted, reading, sent, arrived, e1000>>

\* lwIP waits for ever without an interface; its set-up may fail before or
\* after the handler is in place.
proninx_lwip_init ==
  /\ ~booted /\ ~adapter.handler
  /\ adapter.iface # None
  /\ \/ adapter' = [adapter EXCEPT !.handler = TRUE, !.ready = TRUE]
     \/ adapter' = [adapter EXCEPT !.handler = TRUE]
  /\ UNCHANGED <<booted, reading, sent, arrived, e1000, vnet>>

Scheduler ==
  /\ ~booted /\ booted' = TRUE
  /\ UNCHANGED <<adapter, reading, sent, arrived, e1000, vnet>>
-----------------------------------------------------------------------------
(* Sending: lwip_linkoutput() and proninx_net_transmit(), then the driver. *)

Sending(nic) == booted /\ adapter.ready /\ adapter.iface = nic

\* Mutant: the descriptor's previous frame is not waited for.
TxFree_Always(d) == TRUE

\* Descriptor d was never used, or its frame has been sent.
TxFree(d) == e1000.tx[d] # "queued"

e1000_transmit(f) ==
  /\ Sending("em0") /\ TxFree(e1000.tail)
  /\ e1000' = [e1000 EXCEPT !.tx[e1000.tail] = "queued", !.txbuf[e1000.tail] = f,
                            !.tail = Plus(@, RING)]
  /\ sent' = Append(sent, f)
  /\ UNCHANGED <<adapter, booted, reading, arrived, vnet>>

\* The device sends from its head up to the tail register: equal, the two
\* mean an empty ring.
E1000Sends ==
  /\ e1000.tdh # e1000.tail
  /\ e1000' = [e1000 EXCEPT !.tx[e1000.tdh] = "done",
                            !.txbuf[e1000.tdh] = None, !.tdh = Plus(@, RING)]
  /\ sent' = Tail(sent)
  /\ UNCHANGED <<adapter, booted, reading, arrived, vnet>>

\* Mutant: the buffer after the last one used, in flight or not.
Chosen_Next(i) == i = vnet.txq.availIndex % VIRTQ_SIZE

\* The first buffer that is not in flight.
Chosen(i) == ~vnet.inflight[i] /\ \A j \in 0..i - 1 : vnet.inflight[j]

virtio_net_transmit(f) ==
  /\ Sending("vtnet0")
  /\ \E i \in VDesc :
       /\ Chosen(i)
       /\ vnet' = [vnet EXCEPT !.inflight[i] = TRUE,
                               !.txq = Refilled([@ EXCEPT !.buf[i] = f], i)]
  /\ sent' = Append(sent, f)
  /\ UNCHANGED <<adapter, booted, reading, arrived, e1000>>
-----------------------------------------------------------------------------
(* The VirtIO device: takes buffers in the order of the available ring; it *)
(* fills them in that order and sends them in any order.                   *)

Takes(q) ==
  [q EXCEPT !.taken = Plus(@, IndexMod), !.held = @ \cup {q.avail[q.taken % VIRTQ_SIZE]}]
Returns(q, id) ==
  [q EXCEPT !.used[q.usedIndex % VIRTQ_SIZE] = id, !.usedIndex = Plus(@, IndexMod),
            !.held = @ \ {id}]

DeviceTakes ==
  /\ vnet.present /\ vnet.txq.taken # vnet.txq.availIndex
  /\ vnet' = [vnet EXCEPT !.txq = Takes(@)]
  /\ UNCHANGED <<adapter, booted, reading, sent, arrived, e1000>>

\* A frame is on the wire: one copy of it leaves `sent'.
VnetSends(id) ==
  /\ id \in vnet.txq.held
  /\ vnet' = [vnet EXCEPT !.txq = Returns([@ EXCEPT !.buf[id] = None], id)]
  /\ sent' = LET f == vnet.txq.buf[id] IN
             IF Contains(sent, f) THEN RemoveFirst(sent, f) ELSE Append(sent, None)
  /\ UNCHANGED <<adapter, booted, reading, arrived, e1000>>

VnetReceives(f) ==
  /\ vnet.present /\ vnet.rxq.taken # vnet.rxq.availIndex
  /\ LET id == vnet.rxq.avail[vnet.rxq.taken % VIRTQ_SIZE]
     IN  vnet' = [vnet EXCEPT !.rxq = Returns(Takes([@ EXCEPT !.buf[id] = f]), id)]
  /\ arrived' = Append(arrived, f)
  /\ UNCHANGED <<adapter, booted, reading, sent, e1000>>
-----------------------------------------------------------------------------
(* Receiving.                                                              *)

\* The device fills the descriptors from its head up to the tail register,
\* and drops what comes when none is left.
E1000Receives(f) ==
  /\ e1000.initialized /\ e1000.rdh # e1000.rdt
  /\ e1000' = [e1000 EXCEPT !.rx[e1000.rdh] = f, !.rdh = Plus(@, RING)]
  /\ arrived' = Append(arrived, f)
  /\ UNCHANGED <<adapter, booted, reading, sent, vnet>>

\* proninx_net_receive() up to the handler's call, which has no lock.
Given(f) == booted /\ reading = None /\ reading' = f

\* The handler is done with the frame that buffer `buf' holds by now, or has
\* refused it: lwip_input() does so until lwIP is ready and without a pbuf.
Used(buf) ==
  /\ reading # None /\ reading' = None
  /\ arrived' = IF buf = Head(arrived) THEN Tail(arrived) ELSE <<None>>

E1000Gives ==
  /\ e1000.rx[e1000.cur] # None
  /\ Given(e1000.rx[e1000.cur])
  /\ UNCHANGED <<adapter, booted, sent, arrived, e1000, vnet>>

\* One round of the loop of e1000_service().
e1000_service ==
  /\ e1000.rx[e1000.cur] # None
  /\ Used(e1000.rx[e1000.cur])
  /\ e1000' = [e1000 EXCEPT !.rx[e1000.cur] = None, !.rdt = e1000.cur,
                            !.cur = Plus(@, RING)]
  /\ UNCHANGED <<adapter, booted, sent, vnet>>

\* virtio_net_service() first takes back what has been sent.
Reclaimed ==
  LET q == vnet.txq
      done == {q.used[i % VIRTQ_SIZE] :
                 i \in {j \in 0..IndexMod - 1 :
                          (j - q.seen) % IndexMod < (q.usedIndex - q.seen) % IndexMod}}
  IN  [vnet EXCEPT !.inflight = [i \in VDesc |-> @[i] /\ i \notin done],
                   !.txq.seen = q.usedIndex]

NextUsed == vnet.rxq.used[vnet.rxq.seen % VIRTQ_SIZE]

VnetReclaims ==
  /\ booted /\ vnet.present /\ reading = None
  /\ vnet.txq.seen # vnet.txq.usedIndex
  /\ vnet' = Reclaimed
  /\ UNCHANGED <<adapter, booted, reading, sent, arrived, e1000>>

VnetGives ==
  /\ vnet.rxq.seen # vnet.rxq.usedIndex
  /\ Given(vnet.rxq.buf[NextUsed])
  /\ vnet' = Reclaimed
  /\ UNCHANGED <<adapter, booted, sent, arrived, e1000>>

\* One round of the second loop of virtio_net_service().
virtio_net_service ==
  /\ vnet.rxq.seen # vnet.rxq.usedIndex
  /\ Used(vnet.rxq.buf[NextUsed])
  /\ vnet' = [vnet EXCEPT !.rxq = [Refilled(@, NextUsed) EXCEPT !.seen = Plus(@, IndexMod)]]
  /\ UNCHANGED <<adapter, booted, sent, e1000>>

Next ==
  \/ e1000_attach \/ virtio_net_attach \/ proninx_lwip_init \/ Scheduler
  \/ \E f \in Frame : \/ e1000_transmit(f) \/ virtio_net_transmit(f) \/ E1000Receives(f)
                      \/ VnetReceives(f)
  \/ \E id \in VDesc : VnetSends(id)
  \/ E1000Sends \/ DeviceTakes \/ VnetReclaims
  \/ E1000Gives \/ e1000_service \/ VnetGives \/ virtio_net_service

Spec == Init /\ [][Next]_vars
-----------------------------------------------------------------------------
\* The n frames in buffers b from index i on.
Window(b, i, n, size) == [k \in 1..n |-> b[(i + k - 1) % size]]


\* A buffer is in one place at a time, on its way to the device, with it, or
\* on its way back; a transmit buffer in none of them is free to reuse.
BuffersExact ==
  \A q \in {vnet.txq, vnet.rxq} :
    LET going == {q.avail[i % VIRTQ_SIZE] : i \in {j \in 0..IndexMod - 1 :
                    (j - q.taken) % IndexMod < (q.availIndex - q.taken) % IndexMod}}
        coming == {q.used[i % VIRTQ_SIZE] : i \in {j \in 0..IndexMod - 1 :
                    (j - q.seen) % IndexMod < (q.usedIndex - q.seen) % IndexMod}}
        count == (q.availIndex - q.seen) % IndexMod
    IN  /\ Cardinality(going \cup q.held \cup coming) = count
        /\ q = vnet.txq => {i \in VDesc : vnet.inflight[i]} = going \cup q.held \cup coming

\* Only the registered interface is in service, whichever devices the
\* machine has: the driver that lost the place never gives or takes frames.
OneInterface == /\ e1000.initialized => adapter.iface = "em0"
                /\ vnet.present => adapter.iface = "vtnet0"
=============================================================================
