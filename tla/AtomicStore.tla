---------------------------- MODULE AtomicStore ----------------------------
(***************************************************************************)
(* What the write-ahead log promises the file system: a block store with   *)
(* group-committed transactions.  `view' is what a running system reads,   *)
(* `stable' is what survives a power failure, `active' is the set of       *)
(* processes inside begin_op() ... end_op().  Blocks become stable only    *)
(* all together and only while no file-system call is in progress.         *)
(***************************************************************************)
CONSTANTS Proc, Block, Val

VARIABLES stable, view, active

vars == <<stable, view, active>>

TypeOK == /\ stable \in [Block -> Val]
          /\ view \in [Block -> Val]
          /\ active \in SUBSET Proc

Init == /\ stable \in [Block -> Val]
        /\ view = stable
        /\ active = {}

Begin(p) == /\ p \notin active
            /\ active' = active \cup {p}
            /\ UNCHANGED <<stable, view>>

Write(p, b, v) == /\ p \in active
                  /\ view' = [view EXCEPT ![b] = v]
                  /\ UNCHANGED <<stable, active>>

End(p) == /\ p \in active
          /\ active' = active \ {p}
          /\ UNCHANGED <<stable, view>>

Commit == /\ active = {}
          /\ stable' = view
          /\ UNCHANGED <<view, active>>

Crash == /\ view' = stable
         /\ active' = {}
         /\ UNCHANGED stable

Next == \/ \E p \in Proc : \/ Begin(p)
                           \/ End(p)
                           \/ \E b \in Block, v \in Val : Write(p, b, v)
        \/ Commit
        \/ Crash

Spec == Init /\ [][Next]_vars
=============================================================================
