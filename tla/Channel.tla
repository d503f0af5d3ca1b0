------------------------------ MODULE Channel ------------------------------
(***************************************************************************)
(* What a pipe promises: a bounded first-in first-out byte channel.        *)
(* `queue' holds the bytes on the way, `out' the bytes of the latest read. *)
(* Bytes leave in the order they came, each once, and none is lost while a *)
(* reader may still come; a closed end stays closed.                       *)
(***************************************************************************)
EXTENDS Integers, Sequences, SequencesExt

CONSTANTS Val, Capacity

VARIABLES queue, out, readable, writable

vars == <<queue, out, readable, writable>>

Init == queue = <<>> /\ out = <<>> /\ readable = TRUE /\ writable = TRUE

\* One or more bytes enter, the channel never holding more than Capacity.
Send == /\ writable
        /\ \E k \in 1..Capacity : \E s \in [1..k -> Val] :
             /\ Len(queue) + k <= Capacity
             /\ queue' = queue \o s
        /\ UNCHANGED <<out, readable, writable>>

\* A read takes the oldest bytes; it takes none only at end of file.
Receive == /\ readable
           /\ \E k \in 0..Len(queue) :
                /\ k = 0 => queue = <<>> /\ ~writable
                /\ out' = SubSeq(queue, 1, k)
                /\ queue' = SubSeq(queue, k + 1, Len(queue))
           /\ UNCHANGED <<readable, writable>>

CloseRead == readable' = FALSE /\ UNCHANGED <<queue, out, writable>>
CloseWrite == writable' = FALSE /\ UNCHANGED <<queue, out, readable>>

Next == Send \/ Receive \/ CloseRead \/ CloseWrite

Step == [Next]_vars

Spec == Init /\ [][Next]_vars
=============================================================================
