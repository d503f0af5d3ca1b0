----------------------------- MODULE MCStreams ------------------------------
(***************************************************************************)
(* Pipes, terminals and the network, each a part of its own: a behaviour   *)
(* is a behaviour of one part, chosen at the start, while the others keep  *)
(* their initial states.                                                   *)
(***************************************************************************)
EXTENDS Pipe

CONSTANTS Reader, Port

VARIABLES
  part,
  tty, active, icanon, conslock, rd, sig,
  cells, pos, ansi, params, nparams, attr, utf8,
  fbcells, pending, front, con, writer, mode, fb,
  tcp, waiter, live,
  udp, recv, alive,
  dns, asked, ping, echoed, caller,
  adapter, booted, reading, sent, arrived, e1000, vnet

Con == INSTANCE Console WITH
       Proc <- Reader, NVT <- 2, INPUT_BUF <- 2, Modulus <- 4,
       lock <- conslock
V == INSTANCE Vt WITH
       Cols <- 2, Rows <- 2, NPARAM <- 2, Wide <- 16
F == INSTANCE Framebuffer WITH
       Terminal <- {0, 1}, Shapes <- {<<2, 2>>, <<1, 1>>}, cells <- fbcells,
       active <- front
T == INSTANCE Tcp WITH
       SLOTS <- 2, QUEUE_DEPTH <- 1, Wrap <- 4
U == INSTANCE Udp WITH
       SLOTS <- 2, QUEUE_DEPTH <- 2, Wrap <- 4
Q == INSTANCE Query WITH
       Name <- Val, Wrap <- 4, PingMod <- 3
N == INSTANCE Nic WITH
       Frame <- Val, RING <- 3, VIRTQ_SIZE <- 2, IndexMod <- 4

ConVars == <<tty, active, icanon, conslock, rd, sig>>
VVars == <<cells, pos, ansi, params, nparams, attr, utf8>>
FVars == <<fbcells, pending, front, con, writer, mode, fb>>
TVars == <<tcp, waiter, live>>
UVars == <<udp, recv, alive>>
QVars == <<dns, asked, ping, echoed, caller>>
NVars == <<adapter, booted, reading, sent, arrived, e1000, vnet>>

\* A part that was not chosen has no state.
No_pipe == data = 0 /\ nread = 0 /\ nwrite = 0 /\ readopen = 0
  /\ writeopen = 0 /\ lock = 0 /\ freed = 0 /\ readers = 0 /\ writers = 0
  /\ pc = 0 /\ buf = 0 /\ count = 0 /\ killed = 0 /\ out = 0
No_console == tty = 0 /\ active = 0 /\ icanon = 0 /\ conslock = 0 /\ rd = 0
  /\ sig = 0
No_vt == cells = 0 /\ pos = 0 /\ ansi = 0 /\ params = 0 /\ nparams = 0
  /\ attr = 0 /\ utf8 = 0
No_fb == fbcells = 0 /\ pending = 0 /\ front = 0 /\ con = 0 /\ writer = 0
  /\ mode = 0 /\ fb = 0
No_tcp == tcp = 0 /\ waiter = 0 /\ live = 0
No_udp == udp = 0 /\ recv = 0 /\ alive = 0
No_query == dns = 0 /\ asked = 0 /\ ping = 0 /\ echoed = 0 /\ caller = 0
No_nic == adapter = 0 /\ booted = 0 /\ reading = 0 /\ sent = 0 /\ arrived = 0
  /\ e1000 = 0 /\ vnet = 0

MCInit ==
  \/ /\ part = "pipe" /\ Init
     /\ No_console /\ No_vt /\ No_fb /\ No_tcp /\ No_udp /\ No_query /\ No_nic
  \/ /\ part = "console" /\ Con!Init
     /\ No_pipe /\ No_vt /\ No_fb /\ No_tcp /\ No_udp /\ No_query /\ No_nic
  \/ /\ part = "vt" /\ V!Init
     /\ No_pipe /\ No_console /\ No_fb /\ No_tcp /\ No_udp /\ No_query
     /\ No_nic
  \/ /\ part = "fb" /\ F!Init
     /\ No_pipe /\ No_console /\ No_vt /\ No_tcp /\ No_udp /\ No_query
     /\ No_nic
  \/ /\ part = "tcp" /\ T!Init
     /\ No_pipe /\ No_console /\ No_vt /\ No_fb /\ No_udp /\ No_query
     /\ No_nic
  \/ /\ part = "udp" /\ U!Init
     /\ No_pipe /\ No_console /\ No_vt /\ No_fb /\ No_tcp /\ No_query
     /\ No_nic
  \/ /\ part = "query" /\ Q!Init
     /\ No_pipe /\ No_console /\ No_vt /\ No_fb /\ No_tcp /\ No_udp /\ No_nic
  \/ /\ part = "nic" /\ N!Init
     /\ No_pipe /\ No_console /\ No_vt /\ No_fb /\ No_tcp /\ No_udp
     /\ No_query


Step_pipe == /\ part = "pipe" /\ Next
             /\ UNCHANGED <<part, ConVars, VVars, FVars, TVars, UVars, QVars,
                            NVars>>
Step_console == /\ part = "console" /\ Con!Next
                /\ UNCHANGED <<part, vars, VVars, FVars, TVars, UVars, QVars,
                               NVars>>
Step_vt == /\ part = "vt" /\ V!Next
           /\ UNCHANGED <<part, vars, ConVars, FVars, TVars, UVars, QVars,
                          NVars>>
Step_fb == /\ part = "fb" /\ F!Next
           /\ UNCHANGED <<part, vars, ConVars, VVars, TVars, UVars, QVars,
                          NVars>>
Step_tcp == /\ part = "tcp" /\ T!Next
            /\ UNCHANGED <<part, vars, ConVars, VVars, FVars, UVars, QVars,
                           NVars>>
Step_udp == /\ part = "udp" /\ U!Next
            /\ UNCHANGED <<part, vars, ConVars, VVars, FVars, TVars, QVars,
                           NVars>>
Step_query == /\ part = "query" /\ Q!Next
              /\ UNCHANGED <<part, vars, ConVars, VVars, FVars, TVars, UVars,
                             NVars>>
Step_nic == /\ part = "nic" /\ N!Next
            /\ UNCHANGED <<part, vars, ConVars, VVars, FVars, TVars, UVars,
                           QVars>>

MCNext == Step_pipe \/ Step_console \/ Step_vt \/ Step_fb \/ Step_tcp
  \/ Step_udp \/ Step_query \/ Step_nic

MCVars == <<part, vars, ConVars, VVars, FVars, TVars, UVars, QVars, NVars>>
MCSpec == MCInit /\ [][MCNext]_MCVars
-----------------------------------------------------------------------------



\* Nobody is inside a pipe's functions, or may still call one, after
\* pipeclose() has freed the page.
PipeOutlivesUse == part = "pipe" => NoUseAfterFree

\* A pipe is the bounded byte channel of Channel, however calls, closes and
\* kills interleave.
PipeIsChannel ==
  /\ part = "pipe" => Fifo!Init
  /\ [][part = "pipe" => Fifo!Step]_MCVars

\* Terminal input is the line-edited channel of Tty, whatever is typed, read,
\* switched and set (consoleintr, consoleread).
ConsoleIsTty ==
  /\ part = "console" => Con!T!Init
  /\ [][part = "console" => Con!T!Step]_MCVars

\* No sequence of keys overruns the input ring or fills it with a line that
\* cannot end (consoleintr), and no sequence of bytes moves the cursor off
\* the screen or a parameter out of its array (cgaputc).
InBounds ==
  /\ part = "console" => Con!NeverStuck
  /\ part = "vt" => V!CursorOnScreen /\ V!ParamsInBounds




\* The ring of a socket is a queue: datagrams leave in the order they came
\* (udp_input, udp_recvfrom).
RingIsQueue == [][part = "udp" => U!QueueStep]_MCVars



\* Bounds: terminal 1 takes one character, a screen holds one mark.
Marks(t) == {i \in DOMAIN fbcells[t] : fbcells[t][i] = "x"}
Few == /\ part = "console" => tty[1].e <= 1
       /\ part = "fb" => /\ Cardinality(Marks(0)) <= 1 /\ Cardinality(Marks(1)) <= 1
                         /\ pending[1] <= 1

\* No part chooses among processes, ports or values.
Symmetry == Permutations(Proc) \cup Permutations(Val) \cup Permutations(Port)
=============================================================================
