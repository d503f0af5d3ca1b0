--------------------------------- MODULE Vt ---------------------------------
(***************************************************************************)
(* What a character does to a terminal's screen (kern/console.c): the      *)
(* UTF-8 decoder, the escape sequences, the cursor and the scroll of       *)
(* cgaputc(), for one terminal and any sequence of bytes.                  *)
(*                                                                         *)
(* Bytes are classes of bytes.  A cell is blank or not.  A parameter is an  *)
(* int built digit by digit, so it wraps; Wide is the number of values of  *)
(* that int.                                                               *)
(***************************************************************************)
EXTENDS Integers

CONSTANTS
  Cols, Rows,
  NPARAM,          \* entries of ansi_params, 8 in the code
  Wide             \* 2^32 in the code

VARIABLES cells, pos, ansi, params, nparams, attr, utf8

vars == <<cells, pos, ansi, params, nparams, attr, utf8>>

Digit == {"0", "1", "2", "7"}
Value == [d \in Digit |-> CASE d = "0" -> 0 [] d = "1" -> 1 [] d = "2" -> 2 [] d = "7" -> 7]
Ascii == Digit \cup {"x", "LF", "CR", "^H", "ESC", "[", ";", "m", "J", "H", "K"}
Lead == {"L2", "L3", "L4"}           \* first byte of a sequence of that length
Byte == Ascii \cup Lead \cup {"C", "*"}  \* continuation, and no byte of UTF-8
Screen == 0..Cols * Rows - 1
Glyph == Ascii \ {"LF", "CR", "^H", "ESC"}

TypeOK ==
  /\ cells \in [Screen -> {"blank", "x"}]
  /\ pos \in Int /\ ansi \in 0..2 /\ attr \in {0, 7} /\ utf8 \in 0..3
  /\ params \in [0..NPARAM - 1 -> -(Wide \div 2) .. Wide \div 2 - 1]
  /\ nparams \in Nat

Init ==
  /\ cells = [i \in Screen |-> "blank"]
  /\ pos = 0 /\ ansi = 0 /\ attr = 0 /\ utf8 = 0 /\ nparams = 0
  /\ params = [i \in 0..NPARAM - 1 |-> 0]
-----------------------------------------------------------------------------
(* decode_utf8(): the character a byte completes, or none.  What a longer  *)
(* sequence stands for is some character of the font, or "?".              *)
Expected(b) == CASE b = "L2" -> 1 [] b = "L3" -> 2 [] b = "L4" -> 3

decode_utf8(b) ==
  IF utf8 = 0
  THEN CASE b \in Lead -> [c |-> "none", utf8 |-> Expected(b)]
         [] b \in {"C", "*"} -> [c |-> "x", utf8 |-> 0]
         [] OTHER -> [c |-> b, utf8 |-> 0]
  ELSE IF b = "C"
       THEN [c |-> IF utf8 = 1 THEN "x" ELSE "none", utf8 |-> utf8 - 1]
       ELSE [c |-> "x", utf8 |-> 0]
-----------------------------------------------------------------------------
(* An escape sequence's last character                                     *)

Signed(n) == ((n + Wide \div 2) % Wide) - Wide \div 2

Clamp(n, max) == IF n < 0 THEN 0 ELSE IF n > max THEN max ELSE n

Coordinate(i) == IF params[i] = 0 THEN 0 ELSE params[i] - 1

Erase(S) == [i \in Screen |-> IF i \in S THEN "blank" ELSE cells[i]]

LineStart == (pos \div Cols) * Cols

\* The parameters are zeroed when a sequence begins; nothing reads them
\* between its end and then, so here they are zeroed at its end.
Fresh == nparams' = 0 /\ params' = [i \in DOMAIN params |-> 0]

Finish(c) ==
  /\ attr' = IF c = "m"
             THEN LET set == {i \in 0..nparams : params[i] \in {0, 7}}
                  IN  IF set = {} THEN attr
                      ELSE params[CHOOSE i \in set : \A j \in set : j <= i]
             ELSE attr
  /\ cells' = CASE c = "J" /\ params[0] = 2 -> Erase(Screen)
                [] c = "K" /\ params[0] = 0 -> Erase(pos..LineStart + Cols - 1)
                [] c = "K" /\ params[0] = 1 -> Erase(LineStart..pos)
                [] c = "K" /\ params[0] = 2 -> Erase(LineStart..LineStart + Cols - 1)
                [] OTHER -> cells
  /\ pos' = CASE c = "J" /\ params[0] = 2 -> 0
              [] c = "H" -> Clamp(Coordinate(0), Rows - 1) * Cols + Clamp(Coordinate(1), Cols - 1)
              [] OTHER -> pos
  /\ ansi' = 0
  /\ Fresh

\* Mutant: every ';' opens another parameter.
NextParam_Any == nparams + 1

NextParam == IF nparams < NPARAM - 1 THEN nparams + 1 ELSE nparams

Parameter(c) ==
  /\ IF c \in Digit
     THEN params' = [params EXCEPT ![nparams] = Signed(@ * 10 + Value[c])] /\ UNCHANGED nparams
     ELSE nparams' = NextParam /\ UNCHANGED params
  /\ UNCHANGED <<cells, pos, ansi, attr>>
-----------------------------------------------------------------------------
(* A character outside a sequence                                          *)

Moved(c) ==
  CASE c = "LF" -> pos + Cols - (pos % Cols)
    [] c = "CR" -> pos - (pos % Cols)
    [] c \in {"^H", "BACKSPACE"} -> IF pos > 0 THEN pos - 1 ELSE pos
    [] c \in Glyph -> pos + 1
    [] OTHER -> pos

Written(c) ==
  CASE c = "BACKSPACE" /\ pos > 0 -> [cells EXCEPT ![pos - 1] = "blank"]
    [] c \in Glyph -> [cells EXCEPT ![pos] = "x"]
    [] OTHER -> cells

\* Mutant: the scroll is one character late.
Scrolls_Late(p) == p \div Cols > Rows

Scrolls(p) == p \div Cols >= Rows

Plain(c) ==
  /\ LET p == Moved(c) w == Written(c) IN
       IF Scrolls(p)
       THEN /\ pos' = p - Cols
            /\ cells' = [i \in Screen |-> IF i < p - Cols /\ i + Cols \in Screen
                                          THEN w[i + Cols] ELSE "blank"]
       ELSE pos' = p /\ cells' = w
  /\ ansi' = 0
  /\ UNCHANGED <<params, nparams, attr>>
-----------------------------------------------------------------------------
\* A decoded character c goes through the escape automaton.
Character(c) ==
  CASE ansi = 0 /\ c = "ESC" -> ansi' = 1 /\ UNCHANGED <<cells, pos, params, nparams, attr>>
    [] ansi = 1 /\ c = "[" -> ansi' = 2 /\ Fresh /\ UNCHANGED <<cells, pos, attr>>
    [] ansi = 2 /\ c \in Digit \cup {";"} -> Parameter(c)
    [] ansi = 2 /\ c \notin Digit \cup {";"} -> Finish(c)
    [] OTHER -> Plain(c)

cgaputc(b) ==
  LET d == decode_utf8(b) IN
  /\ utf8' = d.utf8
  /\ IF d.c = "none" THEN UNCHANGED <<cells, pos, ansi, params, nparams, attr>>
                     ELSE Character(d.c)

\* The keyboard's echo of an erased character skips the decoder.
Backspace == Character("BACKSPACE") /\ UNCHANGED utf8

Next == Backspace \/ \E b \in Byte : cgaputc(b)

Spec == Init /\ [][Next]_vars
-----------------------------------------------------------------------------
\* No sequence of bytes makes cgaputc() write outside the cells or panic
\* with "pos under/overflow": the cursor is on the screen between any two
\* characters, also when a parameter of a cursor movement has overflowed.
CursorOnScreen == pos \in Screen

\* No sequence of parameters leaves ansi_params.
ParamsInBounds == ansi = 2 => nparams \in DOMAIN params
=============================================================================
