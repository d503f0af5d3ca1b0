------------------------------- MODULE Inode -------------------------------
(***************************************************************************)
(* The inode cache of kern/fs.c on the native file system and the system   *)
(* calls of kern/sysfile.c that walk paths and change links.               *)
(*                                                                         *)
(* `din' and `ent' are the on-disk inodes and the entries of directories   *)
(* other than "." and "..", as the log presents them; `ino' and `lock' are *)
(* icache.  The code between ilock() and iunlock() touches only what the   *)
(* lock protects, so it is one action with the one icache or inode-table   *)
(* critical section it contains; an action that needs a lock waits for it  *)
(* in its guard.  Locks kept from one action to the next are in `lock'.    *)
(***************************************************************************)
EXTENDS Integers, Sequences, FiniteSets, FiniteSetsExt, SequencesExt

CONSTANTS
  Proc, Name,
  NInum,        \* inodes of the device, 1 is the root directory
  NINODE,       \* entries of icache
  Calls         \* bound: the calls made, <<call, path, new path of link()>>

Op == {"open", "create", "mkdir", "link", "unlink"}

ASSUME InodeAssumption ==
  /\ NInum \in Nat \ {0} /\ NINODE \in Nat \ {0}
  /\ Calls \subseteq Op \X Seq(Name) \X Seq(Name)

Inum == 1..NInum
Slot == 1..NINODE
ROOTINO == 1
None == 0       \* no slot, no inode, an empty directory entry, no owner

Type == {"none", "T_DIR", "T_FILE"}

VARIABLES
  din,     \* din[i]: type and nlink of the inode on disk
  ent,     \* ent[i][n]: the inode number entry n of directory i holds
  ino,     \* icache.inode[s]: inum, ref, valid and the cached type, nlink
  lock,    \* lock[s]: the process holding the sleep lock of the entry
  pc,      \* where each process is
  reg,     \* its local variables, see Idle
  file     \* the inode of the file each process has open

vars == <<din, ent, ino, lock, pc, reg, file>>

\* Locals of a call: the system call, path still to walk, wanted parent?, last
\* name, ip, dp; the inodes to iput() before going on at `ret'.
Idle == [op |-> "none", path |-> <<>>, new |-> <<>>, parent |-> FALSE,
         name |-> "", ip |-> None, dp |-> None, puts |-> <<>>, ret |-> "idle"]

PC == {"idle", "walk", "found", "put", "free", "freed", "alloc", "new", "open",
       "publish", "unlink", "dropped", "undo", "giveup", "panicked", "full", "nospace"}

TypeOK ==
  /\ din \in [Inum -> [type : Type, nlink : Nat]]
  /\ ent \in [Inum -> [Name -> Inum \cup {None}]]
  /\ ino \in [Slot -> [inum : Inum \cup {None}, ref : Nat, valid : BOOLEAN,
                       type : Type, nlink : Nat]]
  /\ lock \in [Slot -> Proc \cup {None}]
  /\ pc \in [Proc -> PC]
  /\ \A p \in Proc : /\ reg[p].ip \in Slot \cup Inum \cup {None}
                     /\ reg[p].dp \in Slot \cup {None}
                     /\ reg[p].puts \in Seq(Slot)
  /\ file \in [Proc -> Slot \cup {None}]

NoEntries == [n \in Name |-> None]

\* A new file system: the root directory, current directory of everybody.
Init ==
  /\ din = [i \in Inum |-> IF i = ROOTINO THEN [type |-> "T_DIR", nlink |-> 1]
                                          ELSE [type |-> "none", nlink |-> 0]]
  /\ ent = [i \in Inum |-> NoEntries]
  /\ ino = [s \in Slot |->
       IF s = 1
       THEN [inum |-> ROOTINO, ref |-> Cardinality(Proc), valid |-> TRUE,
             type |-> "T_DIR", nlink |-> 1]
       ELSE [inum |-> None, ref |-> 0, valid |-> FALSE, type |-> "none",
             nlink |-> 0]]
  /\ lock = [s \in Slot |-> None]
  /\ pc = [p \in Proc |-> "idle"]
  /\ reg = [p \in Proc |-> Idle]
  /\ file = [p \in Proc |-> None]
-----------------------------------------------------------------------------
(* The inode cache.                                                        *)

\* icache.lock is free unless a CPU panicked inside iget() with it held.
IcacheFree == \A q \in Proc : pc[q] # "nospace"

Hits(i) == {s \in Slot : ino[s].ref > 0 /\ ino[s].inum = i}
Empty == {s \in Slot : ino[s].ref = 0}
NoSlot(i) == Hits(i) = {} /\ Empty = {}       \* "iget: no inodes"
SlotFor(i) == CASE Hits(i) # {} -> Min(Hits(i))
                [] NoSlot(i) -> None
                [] OTHER -> Min(Empty)

\* Mutant: the scan does not look at the inodes in use.
iget_Duplicate(tab, i) ==
  IF Empty = {} THEN tab
  ELSE [tab EXCEPT ![Min(Empty)] = [@ EXCEPT !.inum = i, !.ref = 1,
                                             !.valid = FALSE]]

\* Mutant: a recycled entry keeps ip->valid.
iget_KeepsValid(tab, i) ==
  IF NoSlot(i) THEN tab
  ELSE [tab EXCEPT ![SlotFor(i)] =
          IF Hits(i) # {} THEN [@ EXCEPT !.ref = @ + 1]
                          ELSE [@ EXCEPT !.inum = i, !.ref = 1]]

\* iget() on the table `tab', which differs from ino only in loaded fields.
iget(tab, i) ==
  IF NoSlot(i) THEN tab
  ELSE [tab EXCEPT ![SlotFor(i)] =
          IF Hits(i) # {} THEN [@ EXCEPT !.ref = @ + 1]
                          ELSE [@ EXCEPT !.inum = i, !.ref = 1, !.valid = FALSE]]

\* Where a process is after iget(i).
AfterIget(p, i, next) ==
  pc' = [pc EXCEPT ![p] = IF NoSlot(i) THEN "nospace" ELSE next]

\* ilock() reads the inode from disk unless it is valid.
Loaded(s) == IF ino[s].valid THEN ino[s]
             ELSE [ino[s] EXCEPT !.valid = TRUE, !.type = din[ino[s].inum].type,
                                 !.nlink = din[ino[s].inum].nlink]

\* icache after ilock(s); s is free for p to lock.
Locked(s) == [ino EXCEPT ![s] = Loaded(s)]
CanLock(s) == lock[s] = None

\* A change of type or nlink under the lock, with the iupdate() after it.
Cache(tab, s, t, n) == [tab EXCEPT ![s].type = t, ![s].nlink = n]
iupdate(disk, s, t, n) == [disk EXCEPT ![ino[s].inum] = [type |-> t, nlink |-> n]]

\* panic() with the lock of s just taken.
Panic(p, s) ==
  /\ ino' = Locked(s)
  /\ lock' = [lock EXCEPT ![s] = p]
  /\ pc' = [pc EXCEPT ![p] = "panicked"]
  /\ UNCHANGED <<din, ent, reg, file>>

\* ilock(s) and what follows under the lock; the lock of a free inode is
\* taken by a panic and never given back.
ilock(p, s, body) ==
  /\ CanLock(s)
  /\ IF Loaded(s).type # "none"
     THEN body
     ELSE Panic(p, s)

\* Locals still needed at `ret'; the others are reset to keep the state small.
Locals(r, ret) ==
  CASE ret \in {"open", "publish", "dropped"} -> [Idle EXCEPT !.op = r.op, !.ip = r.ip]
    [] ret \in {"giveup", "undo"} -> [Idle EXCEPT !.dp = r.dp]
    [] ret = "idle" -> Idle
    [] OTHER -> r

\* Go on at `ret' once the references in `puts' are dropped.
Put(p, puts, ret) ==
  /\ pc' = [pc EXCEPT ![p] = "put"]
  /\ reg' = [reg EXCEPT ![p] = [Locals(@, ret) EXCEPT !.puts = puts, !.ret = ret]]

\* All of them are dropped; at "idle" the call is over.
Resume(p, ret) ==
  /\ pc' = [pc EXCEPT ![p] = ret]
  /\ reg' = [reg EXCEPT ![p] = [Locals(@, ret) EXCEPT !.puts = <<>>, !.ret = "idle"]]

\* Drop one reference and go on with the next one or at ret.
Drop(p) ==
  LET s == Head(reg[p].puts) IN
  /\ ino' = [ino EXCEPT ![s].ref = @ - 1]
  /\ IF Len(reg[p].puts) = 1
     THEN Resume(p, reg[p].ret)
     ELSE Put(p, Tail(reg[p].puts), reg[p].ret)

\* Mutants: the link count, or the reference count, is not looked at.
LastRef_AnyLinks(s) == ino[s].ref = 1 /\ ino[s].valid
LastRef_AnyRef(s) == ino[s].valid /\ ino[s].nlink = 0

\* iput()'s test: the last reference to an inode without links.
LastRef(s) == ino[s].ref = 1 /\ ino[s].valid /\ ino[s].nlink = 0

\* iput() up to the release of icache.lock.
iput(p) ==
  /\ pc[p] = "put" /\ IcacheFree
  /\ IF LastRef(Head(reg[p].puts))
     THEN pc' = [pc EXCEPT ![p] = "free"] /\ UNCHANGED <<ino, reg>>
     ELSE Drop(p)
  /\ UNCHANGED <<din, ent, lock, file>>

\* iput() of an inode nobody can reach: truncate and free it, then ...
itrunc(p) ==
  LET s == Head(reg[p].puts) IN
  /\ pc[p] = "free"
  /\ ilock(p, s,
     /\ din' = iupdate(din, s, "none", Loaded(s).nlink)
     /\ ent' = [ent EXCEPT ![ino[s].inum] = NoEntries]
     /\ ino' = [Locked(s) EXCEPT ![s].type = "none", ![s].valid = FALSE]
     /\ pc' = [pc EXCEPT ![p] = "freed"]
     /\ UNCHANGED <<lock, reg, file>>)

\* ... take icache.lock again to drop the reference.
iputEnd(p) ==
  /\ pc[p] = "freed" /\ IcacheFree
  /\ Drop(p)
  /\ UNCHANGED <<din, ent, lock, file>>
-----------------------------------------------------------------------------
(* Pathname lookup.                                                        *)

\* namex() starts at the root: iget(ROOTDEV, ROOTINO).
RootSlot == SlotFor(ROOTINO)

\* A system call on path a; `link' also names b.
Call(p, op, a, b) ==
  /\ pc[p] = "idle" /\ IcacheFree
  /\ op \in {"open", "create"} => file[p] = None
  /\ reg' = [reg EXCEPT ![p] = [Idle EXCEPT
               !.op = op, !.path = a, !.new = b, !.ip = RootSlot,
               !.parent = (op \in {"create", "mkdir", "unlink"})]]
  /\ ino' = iget(ino, ROOTINO)
  /\ pc' = [pc EXCEPT ![p] = "walk"]
  /\ UNCHANGED <<din, ent, lock, file>>

\* Where namex() returning 0 leads: link() still holds the old inode.
NotFound(p) == IF reg[p].op = "link" /\ reg[p].parent THEN "giveup" ELSE "idle"

\* The path is used up: namei() returns ip, nameiparent() of "/" fails.
WalkEnd(p) ==
  /\ pc[p] = "walk" /\ reg[p].path = <<>>
  /\ IF reg[p].parent THEN Put(p, <<reg[p].ip>>, NotFound(p))
                      ELSE /\ pc' = [pc EXCEPT ![p] = "found"]
                           /\ UNCHANGED reg
  /\ UNCHANGED <<din, ent, ino, lock, file>>

\* One turn of the loop of namex(), under the lock of ip.  It fails if ip is
\* no directory, lacks the name, or inode_access() refuses, which it may for
\* any process that is not root.
namex(p) ==
  LET s == reg[p].ip
      n == Head(reg[p].path)
      last == reg[p].parent /\ Len(reg[p].path) = 1
      i == ent[ino[s].inum][n]        \* dirlookup()
  IN
  /\ pc[p] = "walk" /\ reg[p].path # <<>>
  /\ ilock(p, s,
     \/ /\ ino' = Locked(s)
        /\ Put(p, <<s>>, NotFound(p))
        /\ UNCHANGED <<din, ent, lock, file>>
     \/ /\ Loaded(s).type = "T_DIR" /\ last
        /\ ino' = Locked(s)
        /\ reg' = [reg EXCEPT ![p].name = n, ![p].path = <<>>]
        /\ pc' = [pc EXCEPT ![p] = "found"]
        /\ UNCHANGED <<din, ent, lock, file>>
     \/ /\ Loaded(s).type = "T_DIR" /\ ~last /\ i # None
        /\ IcacheFree
        /\ ino' = iget(Locked(s), i)
        /\ reg' = [reg EXCEPT ![p].ip = SlotFor(i), ![p].path = Tail(@),
                              ![p].puts = <<s>>, ![p].ret = "walk"]
        /\ AfterIget(p, i, "put")
        /\ UNCHANGED <<din, ent, lock, file>>)
-----------------------------------------------------------------------------
(* sys_open() without O_CREATE, and of what create() found.                *)

\* Lock the inode, check it, allocate the file; any of it may fail.
sys_open(p) ==
  LET s == reg[p].ip IN
  /\ \/ pc[p] = "found" /\ reg[p].op = "open"
     \/ pc[p] = "open"
  /\ ilock(p, s,
     /\ ino' = Locked(s)
     /\ \/ /\ reg[p].op = "open" \/ (reg[p].op = "create" /\ Loaded(s).type = "T_FILE")
           /\ file' = [file EXCEPT ![p] = s]
           /\ Resume(p, "idle")
        \/ Put(p, <<s>>, "idle") /\ UNCHANGED file
     /\ UNCHANGED <<din, ent, lock>>)

\* close(): fileclose() of the last reference to the file.
fileclose(p) ==
  /\ pc[p] = "idle" /\ file[p] # None
  /\ Put(p, <<file[p]>>, "idle")
  /\ file' = [file EXCEPT ![p] = None]
  /\ UNCHANGED <<din, ent, ino, lock>>
-----------------------------------------------------------------------------
(* create(): O_CREATE and mkdir().                                         *)

\* The inodes of the model share one block, so ialloc() scans them in one step.
Free == {i \in Inum : din[i].type = "none"}

TypeOf(op) == IF op = "mkdir" THEN "T_DIR" ELSE "T_FILE"

\* Under the lock of the parent: the name exists, or an inode is allocated.
\* The parent stays locked in the second case.
create(p) ==
  LET s == reg[p].ip
      i == ent[ino[s].inum][reg[p].name]
  IN
  /\ pc[p] = "found" /\ reg[p].op \in {"create", "mkdir"}
  /\ ilock(p, s,
     \/ /\ ino' = Locked(s)                              \* access denied
        /\ Put(p, <<s>>, "idle")
        /\ UNCHANGED <<din, ent, lock, file>>
     \/ /\ i # None /\ IcacheFree
        /\ ino' = iget(Locked(s), i)
        /\ reg' = [reg EXCEPT ![p] = [Idle EXCEPT !.op = reg[p].op, !.puts = <<s>>,
                                      !.ip = SlotFor(i), !.ret = "open"]]
        /\ AfterIget(p, i, "put")
        /\ UNCHANGED <<din, ent, lock, file>>
     \/ /\ i = None
        /\ ino' = Locked(s)
        /\ lock' = [lock EXCEPT ![s] = p]
        /\ IF Free = {}                                  \* "ialloc: no inodes"
           THEN pc' = [pc EXCEPT ![p] = "full"] /\ UNCHANGED <<din, reg>>
           ELSE /\ din' = [din EXCEPT ![Min(Free)] =
                             [type |-> TypeOf(reg[p].op), nlink |-> 0]]
                /\ pc' = [pc EXCEPT ![p] = "alloc"]
                /\ reg' = [reg EXCEPT ![p].dp = s, ![p].ip = Min(Free)]
        /\ UNCHANGED <<ent, file>>)

\* The iget() at the end of ialloc(); until here reg.ip is the inode number.
ialloc(p) ==
  LET i == reg[p].ip IN
  /\ pc[p] = "alloc" /\ IcacheFree
  /\ ino' = iget(ino, i)
  /\ reg' = [reg EXCEPT ![p].ip = SlotFor(i)]
  /\ AfterIget(p, i, "new")
  /\ UNCHANGED <<din, ent, lock, file>>

\* Lock and fill the new inode, enter it in the parent, unlock the parent;
\* the inode itself stays locked while the parent is put.
CreateLink(p) ==
  LET s == reg[p].ip
      d == reg[p].dp
      up == Loaded(d).nlink + IF reg[p].op = "mkdir" THEN 1 ELSE 0
      t == TypeOf(reg[p].op)
  IN
  /\ pc[p] = "new"
  /\ ilock(p, s,
     /\ din' = iupdate(iupdate(din, s, t, 1), d, "T_DIR", up)
     /\ ino' = Cache(Cache(Locked(s), s, t, 1), d, "T_DIR", up)
     /\ ent' = [ent EXCEPT ![ino[d].inum][reg[p].name] = ino[s].inum]
     /\ lock' = [lock EXCEPT ![d] = None, ![s] = p]
     /\ Put(p, <<d>>, "publish")
     /\ UNCHANGED file)

\* mkdir() puts the new inode; open() makes a file of it, if it can.
CreateEnd(p) ==
  LET s == reg[p].ip IN
  /\ pc[p] = "publish"
  /\ lock' = [lock EXCEPT ![s] = None]
  /\ \/ /\ reg[p].op = "create"
        /\ file' = [file EXCEPT ![p] = s]
        /\ Resume(p, "idle")
     \/ Put(p, <<s>>, "idle") /\ UNCHANGED file
  /\ UNCHANGED <<din, ent, ino>>
-----------------------------------------------------------------------------
(* sys_unlink().                                                           *)

\* Under the lock of the parent, kept if the name is there.
UnlinkLookup(p) ==
  LET s == reg[p].ip
      i == ent[ino[s].inum][reg[p].name]
  IN
  /\ pc[p] = "found" /\ reg[p].op = "unlink"
  /\ ilock(p, s,
     \/ /\ ino' = Locked(s)                              \* no such name, or no access
        /\ Put(p, <<s>>, "idle")
        /\ UNCHANGED <<din, ent, lock, file>>
     \/ /\ i # None /\ IcacheFree
        /\ ino' = iget(Locked(s), i)
        /\ lock' = [lock EXCEPT ![s] = p]
        /\ reg' = [reg EXCEPT ![p].dp = s, ![p].ip = SlotFor(i)]
        /\ AfterIget(p, i, "unlink")
        /\ UNCHANGED <<din, ent, file>>)

isdirempty(i) == ent[i] = NoEntries

\* Lock the inode, erase its entry and unlock the parent.
sys_unlink(p) ==
  LET s == reg[p].ip
      d == reg[p].dp
      isdir == Loaded(s).type = "T_DIR"
      down == IF isdir THEN ino[d].nlink - 1 ELSE ino[d].nlink
  IN
  /\ pc[p] = "unlink"
  /\ ilock(p, s,
     IF Loaded(s).nlink < 1 THEN Panic(p, s) ELSE        \* "unlink: nlink < 1"
     \/ /\ isdir /\ ~isdirempty(ino[s].inum)
        /\ ino' = Locked(s)
        /\ Put(p, <<s>>, "giveup")
        /\ UNCHANGED <<din, ent, lock, file>>
     \/ /\ ~isdir \/ isdirempty(ino[s].inum)
        /\ ent' = [ent EXCEPT ![ino[d].inum][reg[p].name] = None]
        /\ din' = iupdate(din, d, "T_DIR", down)
        /\ ino' = Cache(Locked(s), d, "T_DIR", down)
        /\ lock' = [lock EXCEPT ![d] = None, ![s] = p]
        /\ Put(p, <<d>>, "dropped")
        /\ UNCHANGED file)

\* The parent is put; count the link down and let the inode go.
UnlinkEnd(p) ==
  LET s == reg[p].ip
      n == ino[s].nlink - 1
  IN
  /\ pc[p] = "dropped"
  /\ din' = iupdate(din, s, ino[s].type, n)
  /\ ino' = Cache(ino, s, ino[s].type, n)
  /\ lock' = [lock EXCEPT ![s] = None]
  /\ Put(p, <<s>>, "idle")
  /\ UNCHANGED <<ent, file>>
-----------------------------------------------------------------------------
(* sys_link(): reg.dp is the inode of the old path, kept locked while       *)
(* namex() walks the new one.                                               *)

LinkOld(p) ==
  LET s == reg[p].ip IN
  /\ pc[p] = "found" /\ reg[p].op = "link" /\ ~reg[p].parent
  /\ ilock(p, s,
     \/ /\ Loaded(s).type = "T_DIR"
        /\ ino' = Locked(s)
        /\ Put(p, <<s>>, "idle")
        /\ UNCHANGED <<din, ent, lock, file>>
     \/ /\ Loaded(s).type # "T_DIR" /\ IcacheFree
        /\ ino' = iget(Locked(s), ROOTINO)
        /\ lock' = [lock EXCEPT ![s] = p]
        /\ reg' = [reg EXCEPT ![p].dp = s, ![p].ip = RootSlot, ![p].parent = TRUE,
                              ![p].path = reg[p].new, ![p].new = <<>>]
        /\ pc' = [pc EXCEPT ![p] = "walk"]
        /\ UNCHANGED <<din, ent, file>>)

\* Lock the parent of the new path, count the link, unlock the old inode and
\* enter the name.  dirlink() fails if the name is there; the reference with
\* which dirlookup() tells it so is dropped at once.
sys_link(p) ==
  LET s == reg[p].dp
      d == reg[p].ip
      n == ino[s].nlink + 1
      i == ent[ino[d].inum][reg[p].name]
  IN
  /\ pc[p] = "found" /\ reg[p].op = "link" /\ reg[p].parent
  /\ ilock(p, d,
     \/ /\ ino' = Locked(d)                              \* access denied
        /\ Put(p, <<d>>, "giveup")
        /\ UNCHANGED <<din, ent, lock, file>>
     \/ /\ din' = iupdate(din, s, ino[s].type, n)
        /\ ino' = Cache(Locked(d), s, ino[s].type, n)
        /\ \/ /\ i = None
              /\ ent' = [ent EXCEPT ![ino[d].inum][reg[p].name] = ino[s].inum]
              /\ lock' = [lock EXCEPT ![s] = None]
              /\ Put(p, <<d, s>>, "idle")
           \/ /\ i # None /\ IcacheFree
              /\ IF NoSlot(i)
                 THEN /\ lock' = [lock EXCEPT ![s] = None, ![d] = p]
                      /\ pc' = [pc EXCEPT ![p] = "nospace"]
                      /\ UNCHANGED reg
                 ELSE /\ lock' = [lock EXCEPT ![s] = None]
                      /\ Put(p, <<d>>, "undo")
              /\ UNCHANGED ent
        /\ UNCHANGED file)

\* Mutant: the inode is unlocked and not put.
GiveUp_NoPut(p) ==
  /\ pc[p] = "giveup"
  /\ lock' = [lock EXCEPT ![reg[p].dp] = None]
  /\ Resume(p, "idle")
  /\ UNCHANGED <<din, ent, ino, file>>

\* The iunlockput() that ends a failing link(), of the old inode, and a
\* failing unlink(), of the parent.
GiveUp(p) ==
  /\ pc[p] = "giveup"
  /\ lock' = [lock EXCEPT ![reg[p].dp] = None]
  /\ Put(p, <<reg[p].dp>>, "idle")
  /\ UNCHANGED <<din, ent, ino, file>>

\* `bad:' lock the old inode again and count the link down.
LinkUndo(p) ==
  LET s == reg[p].dp
      n == Loaded(s).nlink - 1
  IN
  /\ pc[p] = "undo"
  /\ ilock(p, s,
     /\ din' = iupdate(din, s, Loaded(s).type, n)
     /\ ino' = Cache(Locked(s), s, Loaded(s).type, n)
     /\ Put(p, <<s>>, "idle")
     /\ UNCHANGED <<ent, lock, file>>)

Step(p) == \/ iput(p) \/ itrunc(p) \/ iputEnd(p) \/ WalkEnd(p) \/ namex(p)
           \/ sys_open(p) \/ create(p) \/ ialloc(p) \/ CreateLink(p)
           \/ CreateEnd(p) \/ UnlinkLookup(p) \/ sys_unlink(p) \/ UnlinkEnd(p)
           \/ LinkOld(p) \/ sys_link(p) \/ GiveUp(p) \/ LinkUndo(p)

Next == \E p \in Proc :
          \/ \E c \in Calls : Call(p, c[1], c[2], c[3])
          \/ fileclose(p)
          \/ Step(p)

Spec == Init /\ [][Next]_vars
-----------------------------------------------------------------------------
\* References to slot s among the locals and the open file of p; slot 1 is
\* everybody's current directory.
Holds(p, s) ==
  LET r == reg[p] IN
  Cardinality({k \in 1..Len(r.puts) : r.puts[k] = s})
  + (IF r.ip = s /\ pc[p] # "alloc" THEN 1 ELSE 0)
  + (IF r.dp = s THEN 1 ELSE 0)
  + (IF file[p] = s THEN 1 ELSE 0)
  + (IF s = 1 THEN 1 ELSE 0)

\* iget() never caches an inode twice, so its lock and its fields are the one
\* copy everybody uses, however entries are recycled meanwhile.
OneSlotPerInode == \A i \in Inum : Cardinality(Hits(i)) <= 1

\* ip->ref "tracks the number of in-memory pointers to the entry" (fs.c), on
\* every path through the calls, failing ones included; and one entry is all
\* there is of an inode.
RefExact ==
  /\ OneSlotPerInode
  /\ IcacheFree => \A s \in Slot : ino[s].ref = MapThenSumSet(LAMBDA p : Holds(p, s), Proc)

\* The cache is write-through and an inode in use stays allocated: an entry
\* marked valid and referenced is the inode on disk, which is not free.
CacheCoherent ==
  \A s \in Slot : ino[s].ref > 0 /\ ino[s].valid =>
    /\ din[ino[s].inum].type # "none"
    /\ din[ino[s].inum] = [type |-> ino[s].type, nlink |-> ino[s].nlink]

\* Names of inode i, ".." of its subdirectories, and the root's own link.
Links(i) ==
  LET named == {e \in Inum \X Name : din[e[1]].type = "T_DIR" /\ ent[e[1]][e[2]] = i}
      subdirs == {n \in Name : ent[i][n] # None /\ din[ent[i][n]].type = "T_DIR"}
  IN  Cardinality(named) + Cardinality(subdirs) + IF i = ROOTINO THEN 1 ELSE 0

\* nlink never falls short of "the number of links referring to" the inode
\* (fs.c), in the middle of a call or not, so a directory entry never names a
\* free inode.
LinksCounted ==
  \A i \in Inum : Links(i) > 0 => /\ din[i].type # "none"
                                  /\ din[i].nlink >= Links(i)

\* Whatever the others do to the inode a process has looked up and not yet
\* locked, it never finds it freed ("ilock: no type") or, in unlink(), without
\* links ("unlink: nlink < 1").
NeverPanics == \A p \in Proc : pc[p] # "panicked"

\* "iput() frees if the reference and link counts have fallen to zero" (fs.c):
\* an inode without links stays allocated only while the cache holds it or
\* ialloc() is about to put it there.
NoLeak ==
  IcacheFree => \A i \in Inum : din[i].type # "none" /\ din[i].nlink = 0 =>
    \/ Hits(i) # {}
    \/ \E p \in Proc : pc[p] = "alloc" /\ reg[p].ip = i

\* The lock a process needs for its next step.
Wanted(p) ==
  CASE pc[p] = "walk" /\ reg[p].path # <<>> -> reg[p].ip
    [] pc[p] \in {"found", "new", "open", "unlink"} -> reg[p].ip
    [] pc[p] = "undo" -> reg[p].dp
    [] pc[p] = "free" -> Head(reg[p].puts)
    [] OTHER -> None

\* "The separation also helps avoid deadlock and races during pathname
\* lookup" (fs.c): no processes wait for each other's inode locks.
NoDeadlock ==
  ~\E Q \in SUBSET Proc \ {{}} :
     \A p \in Q : Wanted(p) # None /\ lock[Wanted(p)] \in Q
=============================================================================
