-------------------------------- MODULE Tty ---------------------------------
(***************************************************************************)
(* What a terminal promises its readers: the characters of a line reach    *)
(* them only once the line is ended, in the order typed, each once, and    *)
(* until then the line can be edited.                                      *)
(***************************************************************************)
EXTENDS Integers, Sequences

CONSTANTS Char, Size

VARIABLES line, ready     \* the line being edited, and what may be read

Init == line = <<>> /\ ready = <<>>

Room == Len(line) + Len(ready) < Size

Type(c) == Room /\ line' = Append(line, c) /\ UNCHANGED ready

\* The line is ended by character c.
End(c) == Room /\ line' = <<>> /\ ready' = ready \o Append(line, c)

\* The last n characters of the line are taken back.
Erase(n) == line' = SubSeq(line, 1, Len(line) - n) /\ UNCHANGED ready

Read(n) == ready' = SubSeq(ready, n + 1, Len(ready)) /\ UNCHANGED line

Next == \/ \E c \in Char : Type(c) \/ End(c)
        \/ \E n \in 1..Len(line) : Erase(n)
        \/ \E n \in 1..Len(ready) : Read(n)

Step == [Next]_<<line, ready>>

Spec == Init /\ [][Next]_<<line, ready>>
=============================================================================
