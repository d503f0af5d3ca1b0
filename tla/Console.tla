------------------------------ MODULE Console -------------------------------
(***************************************************************************)
(* Terminal input (kern/console.c): the keyboard interrupt, readers and    *)
(* signals.                                                                *)
(*                                                                         *)
(* cons.lock is held by consoleintr() for a whole interrupt, one character *)
(* here, and by consoleread() from its start to sleep() or its return.     *)
(* `lock' is its holder where that spans steps: kill() from another        *)
(* processor needs only the process table's lock, so it can step between   *)
(* a reader's test for signals and its sleep().  Echo is in Screen.        *)
(***************************************************************************)
EXTENDS Integers, Sequences

CONSTANTS
  Proc, None,
  NVT,             \* terminals 0..NVT - 1; another minor is /dev/console
  INPUT_BUF,
  Modulus          \* r, w and e count modulo this, 2^32 in the code

VARIABLES
  tty,             \* per terminal: [buf, r, w, e]
  active,          \* the terminal in front of the user
  icanon,          \* ICANON in the one termios all terminals share
  lock,            \* the reader that holds cons.lock across steps, or None
  rd,              \* what each process does: [pc, asleep, vt, con, n, target]
  sig              \* processes with a signal pending

vars == <<tty, active, icanon, lock, rd, sig>>

Term == 0..NVT - 1
Typed == {"a", "\n", "^D"}
Control == {"^U", "^C", "^H"}

TypeOK ==
  /\ \A t \in Term : {tty[t].r, tty[t].w, tty[t].e} \subseteq 0..Modulus - 1
  /\ active \in Term /\ icanon \in BOOLEAN /\ lock \in Proc \cup {None}
  /\ rd \in [Proc -> [pc : {"user", "read", "tosleep"}, asleep : BOOLEAN, vt : Term,
                      con : BOOLEAN, n : 0..2, target : 0..2]]
  /\ sig \subseteq Proc

Idle == [pc |-> "user", asleep |-> FALSE, vt |-> 0, con |-> FALSE, n |-> 0, target |-> 0]

Init ==
  /\ tty = [t \in Term |-> [buf |-> [i \in 0..INPUT_BUF - 1 |-> None], r |-> 0, w |-> 0, e |-> 0]]
  /\ active = 0 /\ icanon = TRUE /\ lock = None
  /\ rd = [p \in Proc |-> Idle]
  /\ sig = {}

Minus(a, b) == (a - b) % Modulus
Plus(a, n) == (a + n) % Modulus

\* Mutant: nobody is woken.
Wakeup_None(r, t) == r

\* wakeup(&v->in.r)
Wakeup(r, t) == [p \in Proc |-> [r[p] EXCEPT !.asleep = @ /\ r[p].vt # t]]

\* kill(): the signal is pending and its target does not sleep on.
Raised(r, p) == IF p = None THEN r ELSE [r EXCEPT ![p].asleep = FALSE]
-----------------------------------------------------------------------------
(* consoleintr()                                                           *)

Room(v) == Minus(v.e, v.r) < INPUT_BUF

\* e moves back and r forward over slots whose contents no longer matter.
Cut(v, e) == [v EXCEPT !.e = e, !.buf = [i \in DOMAIN @ |->
                 IF \E k \in 0..Minus(v.e, e) - 1 : i = Plus(e, k) % INPUT_BUF THEN None ELSE @[i]]]
Taken(v, n) == [v EXCEPT !.r = Plus(@, n), !.buf = [i \in DOMAIN @ |->
                 IF \E k \in 0..n - 1 : i = Plus(v.r, k) % INPUT_BUF THEN None ELSE @[i]]]

Pushed(v, c) == [v EXCEPT !.buf[v.e % INPUT_BUF] = c, !.e = Plus(@, 1)]

\* Mutant: ended lines are erased too.
Erased_Ended(v) == Cut(v, v.r)

\* What is left of the line after ^U or ^C: the loop stops at a newline.
Erased(v) ==
  LET at(k) == Plus(v.w, k)
      keep == {k \in 0..Minus(v.e, v.w) :
                 \A j \in k..Minus(v.e, v.w) - 1 : v.buf[at(j) % INPUT_BUF] # "\n"}
  IN  Cut(v, at(CHOOSE k \in keep : \A j \in keep : k <= j))

vt_switch(n) ==
  /\ lock = None /\ n # active
  /\ active' = n
  /\ UNCHANGED <<tty, icanon, lock, rd, sig>>

\* Not canonical: every character ends the line.
Raw(c) ==
  /\ lock = None /\ ~icanon
  /\ LET v == tty[active] IN
       /\ Room(v)
       /\ tty' = [tty EXCEPT ![active] = [Pushed(v, c) EXCEPT !.w = Plus(v.e, 1)]]
  /\ rd' = Wakeup(rd, active)
  /\ UNCHANGED <<active, icanon, lock, sig>>

\* Mutant: a line that fills the buffer is not ended.
Ends_OnlyByKey(v, c) == c \in {"\n", "^D"}

Ends(v, c) == c \in {"\n", "^D"} \/ v.e = Plus(v.r, INPUT_BUF)

Canonical(c) ==
  /\ lock = None /\ icanon
  /\ Room(tty[active])
  /\ LET v == Pushed(tty[active], c) IN
       IF Ends(v, c)
       THEN /\ tty' = [tty EXCEPT ![active] = [v EXCEPT !.w = v.e]]
            /\ rd' = Wakeup(rd, active)
       ELSE tty' = [tty EXCEPT ![active] = v] /\ UNCHANGED rd
  /\ UNCHANGED <<active, icanon, lock, sig>>

\* fg is the foreground process of the active terminal, if it has one.
Edit(c, fg) ==
  /\ lock = None /\ icanon
  /\ LET v == tty[active] IN
       CASE c = "^H" -> /\ v.e # v.w
                        /\ tty' = [tty EXCEPT ![active] = Cut(v, Minus(v.e, 1))]
                        /\ UNCHANGED <<rd, sig>>
         [] c = "^U" -> /\ tty' = [tty EXCEPT ![active] = Erased(v)]
                        /\ UNCHANGED <<rd, sig>>
         [] c = "^C" -> /\ tty' = [tty EXCEPT ![active] = Erased(v)]
                        /\ sig' = sig \cup ({fg} \ {None})
                        /\ rd' = Wakeup(Raised(rd, fg), active)
  /\ UNCHANGED <<active, icanon, lock>>
-----------------------------------------------------------------------------
(* consoleread()                                                           *)

vt_of(minor) == IF minor < NVT THEN minor ELSE active

Return(p) == rd' = [rd EXCEPT ![p] = Idle] /\ lock' = None

\* The loop, from taking or having the lock to a return or to the step
\* before sleep().  At most two characters are read per call.
Loop(p, v, con, n, target) ==
  LET t == tty[v]
      have == Minus(t.w, t.r)
      at(k) == t.buf[Plus(t.r, k) % INPUT_BUF]
      \* the characters taken: up to a line's end, or one when not canonical
      take == IF ~icanon THEN 1
              ELSE CHOOSE k \in 1..n : /\ k <= have
                                       /\ k = n \/ k = have \/ at(k - 1) \in {"\n", "^D"}
                                       /\ \A j \in 0..k - 2 : at(j) \notin {"\n", "^D"}
      ends == ~icanon \/ take = n \/ at(take - 1) \in {"\n", "^D"}
      back == IF icanon /\ at(take - 1) = "^D" /\ n - take + 1 < target THEN 1 ELSE 0
  IN  \/ /\ have > 0 /\ ends
         /\ tty' = [tty EXCEPT ![v] = Taken(@, take - back)]
         /\ Return(p)
      \/ /\ have > 0 /\ ~ends
         /\ tty' = [tty EXCEPT ![v] = Taken(@, take)]
         /\ IF p \in sig THEN Return(p)
            ELSE /\ rd' = [rd EXCEPT ![p] = [pc |-> "tosleep", asleep |-> FALSE, vt |-> v,
                                             con |-> con, n |-> n - take, target |-> target]]
                 /\ lock' = p
      \/ /\ have = 0
         /\ IF p \in sig THEN Return(p)
            ELSE /\ rd' = [rd EXCEPT ![p] = [pc |-> "tosleep", asleep |-> FALSE, vt |-> v,
                                             con |-> con, n |-> n, target |-> target]]
                 /\ lock' = p
         /\ UNCHANGED tty

consoleread(p, minor, n) ==
  /\ rd[p].pc = "user" /\ lock = None
  /\ Loop(p, vt_of(minor), minor = NVT, n, n)
  /\ UNCHANGED <<active, icanon, sig>>

\* sleep() puts the process to sleep and gives up cons.lock in one step.
Sleep(p) ==
  /\ rd[p].pc = "tosleep"
  /\ rd' = [rd EXCEPT ![p].pc = "read", ![p].asleep = TRUE]
  /\ lock' = None
  /\ UNCHANGED <<tty, active, icanon, sig>>

\* Awake again: sleep() has taken the lock back.
Reread(p) ==
  /\ rd[p].pc = "read" /\ ~rd[p].asleep /\ lock = None
  /\ Loop(p, rd[p].vt, rd[p].con, rd[p].n, rd[p].target)
  /\ UNCHANGED <<active, icanon, sig>>
-----------------------------------------------------------------------------
\* kill() by a process on another processor: no console lock.
kill(p) ==
  /\ p \notin sig
  /\ sig' = sig \cup {p}
  /\ rd' = Raised(rd, p)
  /\ UNCHANGED <<tty, active, icanon, lock>>

\* A process outside these calls takes its signal.
Handled(p) ==
  /\ p \in sig /\ rd[p].pc = "user"
  /\ sig' = sig \ {p}
  /\ UNCHANGED <<tty, active, icanon, lock, rd>>

\* TCSETS changes the shared termios without a lock.
consoleioctl ==
  /\ icanon' = ~icanon
  /\ UNCHANGED <<tty, active, lock, rd, sig>>

Next ==
  \/ \E t \in Term : vt_switch(t)
  \/ \E c \in Typed : Raw(c) \/ Canonical(c)
  \/ \E c \in Control, fg \in Proc \cup {None} : Edit(c, fg)
  \/ \E p \in Proc : \/ Sleep(p) \/ Reread(p) \/ kill(p) \/ Handled(p)
                     \/ \E minor \in 0..NVT, n \in 1..2 : consoleread(p, minor, n)
  \/ consoleioctl

Spec == Init /\ [][Next]_vars
-----------------------------------------------------------------------------
Window(v, i, n) == [k \in 1..n |-> v.buf[Plus(i, k - 1) % INPUT_BUF]]

\* Input of terminal 0 reaches its readers line by line, in the order typed, each character
\* once and only after its line has ended, although the indices wrap and
\* the mode may change at any time.
T == INSTANCE Tty WITH
       Char <- Typed, Size <- INPUT_BUF,
       line <- Window(tty[0], tty[0].w, Minus(tty[0].e, tty[0].w)),
       ready <- Window(tty[0], tty[0].r, Minus(tty[0].w, tty[0].r))
ImplementsTty == T!Spec

\* A full buffer stops taking characters and is always readable: typing can
\* never fill a terminal up with a line that cannot be ended.
NeverStuck ==
  \A t \in Term : LET v == tty[t] IN
    /\ Minus(v.w, v.r) <= Minus(v.e, v.r) /\ Minus(v.e, v.r) <= INPUT_BUF
    /\ ~Room(v) /\ v.e # v.w => v.r # v.w

\* No reader sleeps while its terminal has input.
NoMissedInput == \A p \in Proc : rd[p].asleep => tty[rd[p].vt].r = tty[rd[p].vt].w

\* "/dev/console dynamically follows the currently active foreground
\* terminal" (doc/VIDEO.md): whoever waits for input on it waits on the
\* terminal in front of the user.
ConsoleFollows == \A p \in Proc : rd[p].asleep /\ rd[p].con => rd[p].vt = active

\* A signal ends a wait for input: nobody sleeps with one pending.
SignalEndsRead == \A p \in Proc : rd[p].asleep => p \notin sig
=============================================================================
