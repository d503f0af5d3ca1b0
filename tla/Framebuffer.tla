---------------------------- MODULE Framebuffer -----------------------------
(***************************************************************************)
(* The graphical console (kern/framebuffer.c and the terminal switch,      *)
(* flush and resize of kern/console.c).                                    *)
(*                                                                         *)
(* Four copies of the screen have to agree: the cells of a terminal, the   *)
(* cells known to be drawn (`rendered'), the pixels in memory (`canvas')   *)
(* and the display (`vram'), which is never read back.  Pixels are         *)
(* abstracted to the character a cell shows; zeroed pixels show a space.   *)
(* `writer' holds cons.lock while it changes its terminal's cells.  A mode *)
(* change takes that lock only for its last step.                          *)
(***************************************************************************)
EXTENDS Integers

CONSTANTS
  Terminal, None,
  Shapes           \* the modes: <<columns, rows>>

VARIABLES
  cells, pending,  \* per terminal: its characters, scrolls not yet drawn
  active,
  con,             \* the geometry the console uses
  writer,          \* the terminal consolewrite() is changing, or None
  mode,            \* "set" or "changed": the console has yet to follow
  fb               \* [shape, up, shadow, rendered, canvas, vram, lo, hi, top, bot]

vars == <<cells, pending, active, con, writer, mode, fb>>

Char == {" ", "x"}
Unknown == "?"           \* 0xffff, no cell's value
Size(g) == g[1] * g[2]
Grid(g) == 0..Size(g) - 1
Fill(g, c) == [i \in Grid(g) |-> c]
Scrolled(f, g, n, c) == [i \in Grid(g) |-> IF i < Size(g) - n * g[1] THEN f[i + n * g[1]] ELSE c]
Least(a, b) == IF a < b THEN a ELSE b
Most(a, b) == IF a > b THEN a ELSE b
-----------------------------------------------------------------------------
(* The dirty spans: lo > hi is a clean row.                                *)


mark_dirty(f, y0, y1, x0, x1) ==
  LET clean(y) == f.lo[y] > f.hi[y] IN
  [f EXCEPT
     !.lo = [y \in DOMAIN @ |-> IF y \notin y0..y1 - 1 THEN @[y]
                                ELSE IF clean(y) THEN x0 ELSE Least(@[y], x0)],
     !.hi = [y \in DOMAIN @ |-> IF y \notin y0..y1 - 1 THEN @[y]
                                ELSE IF clean(y) THEN x1 ELSE Most(@[y], x1)],
     !.top = Least(@, y0), !.bot = Most(@, y1)]

dirty_reset(f) ==
  LET in(y) == y \in f.top..f.bot - 1 IN
  [f EXCEPT !.lo = [y \in DOMAIN @ |-> IF in(y) THEN 1 ELSE @[y]],
            !.hi = [y \in DOMAIN @ |-> IF in(y) THEN 0 ELSE @[y]],
            !.top = f.shape[2], !.bot = 0]

fb_present(f) ==
  LET sent(i) == \E y \in f.top..f.bot - 1 :
                   i \in y * f.shape[1] + f.lo[y] .. y * f.shape[1] + f.hi[y] - 1
  IN  dirty_reset([f EXCEPT !.vram = [i \in DOMAIN @ |->
                        IF sent(i) \/ ~f.shadow THEN f.canvas[i] ELSE @[i]]])
-----------------------------------------------------------------------------
(* Drawing                                                                 *)

All(f) == mark_dirty(f, 0, f.shape[2], 0, f.shape[1])

framebuffer_clear(f) ==
  IF ~f.up THEN f
  ELSE fb_present(All([f EXCEPT !.canvas = Fill(f.shape, " "), !.rendered = Fill(f.shape, Unknown)]))

framebuffer_scroll_lines(f, n) ==
  IF ~f.up \/ n = 0 THEN f
  ELSE IF n >= f.shape[2] THEN framebuffer_clear(f)
  ELSE All([f EXCEPT !.canvas = Scrolled(@, f.shape, n, " "),
                     !.rendered = Scrolled(@, f.shape, n, " "),
                     !.vram = IF f.shadow THEN @ ELSE Scrolled(@, f.shape, n, " ")])

\* Draw columns x0..x1 - 1 of row r from the cells c.
Drawn(f, c, r, x0, x1) ==
  LET in(i) == i \in r * f.shape[1] + x0 .. r * f.shape[1] + x1 - 1 IN
  mark_dirty([f EXCEPT !.canvas = [i \in DOMAIN @ |-> IF in(i) THEN c[i] ELSE @[i]],
                       !.rendered = [i \in DOMAIN @ |-> IF in(i) THEN c[i] ELSE @[i]]],
             r, r + 1, x0, x1)


\* The span of row r from the first to the last cell that differs.
Changed(f, c, r) ==
  LET w == f.shape[1]
      diff == {x \in 0..w - 1 : c[r * w + x] # f.rendered[r * w + x]}
      first == CHOOSE x \in diff : \A y \in diff : x <= y
      end == CHOOSE x \in diff : \A y \in diff : x >= y
  IN  IF diff = {} THEN <<0, 0>> ELSE <<first, end + 1>>

framebuffer_flush_cells(f, c) ==
  LET row[r \in 0..f.shape[2]] ==
        IF r = 0 THEN f
        ELSE LET g == row[r - 1]
                 s == Changed(g, c, r - 1)
             IN  IF s[1] = s[2] THEN g ELSE Drawn(g, c, r - 1, s[1], s[2])
  IN  IF f.up THEN fb_present(row[f.shape[2]]) ELSE f

framebuffer_redraw_cells(f, c) ==
  LET row[r \in 0..f.shape[2]] ==
        IF r = 0 THEN f ELSE Drawn(row[r - 1], c, r - 1, 0, f.shape[1])
  IN  IF f.up THEN fb_present(row[f.shape[2]]) ELSE f
-----------------------------------------------------------------------------
(* Terminals                                                               *)

\* The cells of terminal v read with the framebuffer's geometry: past their
\* end, while the geometries differ, lies garbage g.
Read(v, g) == [i \in Grid(fb.shape) |-> IF i \in DOMAIN cells[v] THEN cells[v][i] ELSE g]

\* cgaputc() for the three things it does to cells and to the display: one
\* cell, a scroll, and ESC [ 2 J.
Put(v, i, c) ==
  /\ writer = v /\ cells[v][i] # c
  /\ cells' = [cells EXCEPT ![v][i] = c]
  /\ UNCHANGED <<pending, active, con, writer, mode, fb>>

ScrollUp(v) ==
  /\ writer = v /\ DOMAIN cells[v] = Grid(con)
  /\ cells' = [cells EXCEPT ![v] = Scrolled(@, con, 1, " ")]
  /\ pending[v] < con[2]                        \* bound
  /\ pending' = [pending EXCEPT ![v] = @ + 1]
  /\ UNCHANGED <<active, con, writer, mode, fb>>

EraseAll(v) ==
  /\ writer = v /\ DOMAIN cells[v] = Grid(con)
  /\ cells' = [cells EXCEPT ![v] = Fill(con, " ")]
  /\ pending' = [pending EXCEPT ![v] = 0]
  /\ fb' = framebuffer_clear(fb)
  /\ UNCHANGED <<active, con, writer, mode>>

consolewrite(v) ==
  /\ writer = None
  /\ writer' = v
  /\ UNCHANGED <<cells, pending, active, con, mode, fb>>

Flushed(v, g) == framebuffer_flush_cells(framebuffer_scroll_lines(fb, pending[v]), Read(v, g))

\* The end of consolewrite(): vt_flush() and the unlock.
vt_flush(v, g) ==
  /\ writer = v
  /\ writer' = None
  /\ IF v = active /\ cells[v] # <<>>
     THEN fb' = Flushed(v, g) /\ pending' = [pending EXCEPT ![v] = 0]
     ELSE UNCHANGED <<fb, pending>>
  /\ UNCHANGED <<cells, active, con, mode>>

vt_switch(n, g) ==
  /\ writer = None /\ n # active /\ cells[n] # <<>>
  /\ active' = n
  /\ pending' = [pending EXCEPT ![n] = 0]
  /\ fb' = framebuffer_redraw_cells(fb, Read(n, g))
  /\ UNCHANGED <<cells, con, writer, mode>>
-----------------------------------------------------------------------------
(* A mode change                                                           *)

\* framebuffer_reshape() to shape g: the new buffers hold garbage d in
\* their spans; without a shadow the canvas is the display itself.
Reshaped(g, d, shadow, seen) ==
  LET f == [shape |-> g, up |-> TRUE, shadow |-> shadow, vram |-> seen,
            rendered |-> Fill(g, Unknown), canvas |-> IF shadow THEN Fill(g, " ") ELSE seen,
            lo |-> [y \in 0..g[2] - 1 |-> d[1]], hi |-> [y \in 0..g[2] - 1 |-> d[2]],
            top |-> g[2], bot |-> 0]
  IN  IF shadow THEN All(f) ELSE f

Gone(f) == dirty_reset([f EXCEPT !.up = FALSE, !.canvas = Fill(f.shape, " "),
                                 !.rendered = Fill(f.shape, Unknown)])

Spans == {<<1, 0>>, <<1, 9>>}

\* The adapter takes the mode and the buffers fit: everything is blank.
display_set_resolution(g, d, shadow) ==
  /\ mode = "set" /\ g # fb.shape
  /\ LET f == Reshaped(g, d, shadow, Fill(g, " "))
     IN  fb' = fb_present(All(dirty_reset([f EXCEPT !.canvas = Fill(g, " ")])))
  /\ mode' = "changed"
  /\ UNCHANGED <<cells, pending, active, con, writer>>

\* They do not fit: back to the old mode, with buffers if those still do.
SetFails(d, again) ==
  /\ mode = "set"
  /\ fb' = IF again THEN Reshaped(fb.shape, d, fb.shadow, fb.vram) ELSE Gone(fb)
  /\ UNCHANGED <<cells, pending, active, con, writer, mode>>

\* console_switch_to_gpu(): vt_reset_all() blanks the terminals in order,
\* and stops at the first, k, it finds no memory for.
console_switch_to_gpu(k) ==
  /\ mode = "changed" /\ writer = None
  /\ con' = fb.shape
  /\ cells' = [t \in Terminal |-> IF t < k THEN Fill(fb.shape, " ")
                                  ELSE IF t = k THEN <<>> ELSE cells[t]]
  /\ pending' = [t \in Terminal |-> IF t < k THEN 0 ELSE pending[t]]
  /\ fb' = IF k \notin Terminal THEN framebuffer_redraw_cells(fb, cells'[active]) ELSE fb
  /\ mode' = "set"
  /\ UNCHANGED <<active, writer>>
-----------------------------------------------------------------------------
Init ==
  LET g == CHOOSE s \in Shapes : TRUE IN
  /\ con = g
  /\ cells = [t \in Terminal |-> Fill(g, " ")]
  /\ pending = [t \in Terminal |-> 0]
  /\ active = 0 /\ writer = None /\ mode = "set"
  /\ fb = framebuffer_redraw_cells(
            dirty_reset(Reshaped(g, <<0, 0>>, TRUE, Fill(g, "x"))), Fill(g, " "))

Next ==
  \/ \E v \in Terminal :
       \/ consolewrite(v) \/ ScrollUp(v) \/ EraseAll(v)
       \/ \E i \in DOMAIN cells[v], c \in Char : Put(v, i, c)
       \/ \E g \in Char : vt_flush(v, g) \/ vt_switch(v, g)
  \/ \E g \in Shapes, shadow \in BOOLEAN, d \in Spans : display_set_resolution(g, d, shadow)
  \/ \E d \in Spans, again \in BOOLEAN : SetFails(d, again)
  \/ \E k \in Terminal \cup {2} : console_switch_to_gpu(k)

Spec == Init /\ [][Next]_vars
-----------------------------------------------------------------------------
TypeOK ==
  /\ active \in Terminal /\ writer \in Terminal \cup {None} /\ mode \in {"set", "changed"}
  /\ con \in Shapes /\ fb.shape \in Shapes
  /\ \A t \in Terminal : pending[t] \in Nat
  /\ DOMAIN fb.canvas = Grid(fb.shape) /\ DOMAIN fb.vram = Grid(fb.shape)

Dirty(i) == LET w == fb.shape[1] IN
  \E y \in fb.top..fb.bot - 1 : i \in y * w + fb.lo[y] .. y * w + fb.hi[y] - 1


\* However many scrolls, erasures, switches and mode changes came before,
\* a flush of the terminal in front leaves its cells on the display.
FlushStep ==
  \A v \in Terminal : writer = v /\ writer' = None /\ v = active /\ mode = "set"
       /\ fb.up /\ DOMAIN cells[v] = Grid(con) => fb'.vram = cells[v]

\* "an inactive terminal lives in ram only" (console.c:167): between writes
\* the display shows the active terminal.
ShowsActive ==
  writer = None /\ mode = "set" /\ fb.up /\ DOMAIN cells[active] = Grid(con)
    => fb.vram = cells[active]
=============================================================================
