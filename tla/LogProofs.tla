----------------------------- MODULE LogProofs -----------------------------
(***************************************************************************)
(* The safety of the log of kern/log.c for every number of processes,      *)
(* blocks and contents and every log size: IInv is inductive.              *)
(***************************************************************************)
EXTENDS Log, FiniteSetTheorems, TLAPS

USE DEF PC

CommitPC == {"write_log", "install", "finish"}

LEMMA ActiveFinite == IsFiniteSet(Active)
BY LogAssumption, FS_Subset DEF Active

LEMMA AllowanceFinite == /\ IsFiniteSet(1..MAXOPBLOCKS)
                         /\ Cardinality(1..MAXOPBLOCKS) = MAXOPBLOCKS
<1>1. 1 \in Int /\ MAXOPBLOCKS \in Int /\ ~(1 > MAXOPBLOCKS)
  BY LogAssumption
<1>2. /\ IsFiniteSet(1..MAXOPBLOCKS)
      /\ Cardinality(1..MAXOPBLOCKS) = MAXOPBLOCKS - 1 + 1
  BY <1>1, FS_Interval
<1> QED BY <1>1, <1>2

LEMMA CreditFinite == IsFiniteSet(Credit)
<1>1. IsFiniteSet(Active \X (1..MAXOPBLOCKS))
  BY AllowanceFinite, ActiveFinite, FS_Product
<1> QED BY <1>1, FS_Subset DEF Credit

\* No call in progress, no credit.
LEMMA CreditNone == ASSUME Active = {} PROVE Cardinality(Credit) = 0
BY FS_EmptySet DEF Credit

\* Len(lh) is within LOGSIZE, so dlog is defined where install_trans reads it.
LEMMA HeaderFits == ASSUME TypeOK, Reserved PROVE Len(lh) \in 0..LOGSIZE
<1>1. Cardinality(Credit) \in Nat
  BY CreditFinite, FS_CardinalityType
<1> QED BY <1>1, LogAssumption DEF TypeOK, Reserved

\* The process in commit() is alone: it is the only one there and no call is
\* in progress.
LEMMA Committer ==
  ASSUME CommitAlone, NEW p \in Proc, pc[p] \in CommitPC
  PROVE  /\ committing /\ outstanding = 0 /\ Active = {}
         /\ \A q \in Proc : pc[q] \in CommitPC => q = p
<1>1. committing /\ outstanding = 0
  BY DEF CommitAlone, CommitPC
<1>2. Active = {}
  BY <1>1, ActiveFinite, FS_EmptySet DEF CommitAlone
<1> QED BY <1>1, <1>2 DEF CommitAlone, CommitPC

LEMMA AppendSet ==
  ASSUME NEW S, NEW s \in Seq(S), NEW x \in S
  PROVE  Append(s, x) \in Seq(S) /\ ToSet(Append(s, x)) = ToSet(s) \cup {x}
<1> DEFINE t == Append(s, x)
<1>1. t \in Seq(S) /\ Len(t) = Len(s) + 1 /\ Len(s) \in Nat
      /\ DOMAIN t = 1..Len(s) + 1 /\ DOMAIN s = 1..Len(s)
  OBVIOUS
<1>2. \A i \in 1..Len(s) : t[i] = s[i]
  OBVIOUS
<1>3. t[Len(s) + 1] = x
  OBVIOUS
<1> HIDE DEF t
<1>4. ToSet(t) \subseteq ToSet(s) \cup {x}
  BY <1>1, <1>2, <1>3 DEF ToSet
<1>5. ToSet(s) \cup {x} \subseteq ToSet(t)
  BY <1>1, <1>2, <1>3 DEF ToSet
<1> QED BY <1>1, <1>4, <1>5 DEF t

\* The pins are untouched by a step that leaves them and install_trans alone.
LEMMA PinnedFrame ==
  ASSUME PinnedUntilInstalled, UNCHANGED <<dirty, lh, tail, mode>>,
         \A q \in Proc : pc'[q] = "install" <=> pc[q] = "install"
  PROVE  PinnedUntilInstalled'
<1>1. (\E q \in Proc : pc'[q] = "install") <=> (\E q \in Proc : pc[q] = "install")
  OBVIOUS
<1> QED BY <1>1 DEF PinnedUntilInstalled

THEOREM InitIInv == Init => IInv
<1> SUFFICES ASSUME Init PROVE IInv
  OBVIOUS
<1> USE DEF Init
<1>1. TypeOK
  <2>1. dlog \in [1..LOGSIZE -> Val]
    <3>1. PICK v \in Val : dlog = [i \in 1..LOGSIZE |-> v]
      OBVIOUS
    <3> QED BY <3>1
  <2>2. arg \in [Proc -> (Block \X Val) \cup {NoArg}]
    BY DEF NoArg
  <2>3. dhead \in Seq(Block) /\ lh \in Seq(Block)
    OBVIOUS
  <2>4. pc \in [Proc -> PC] /\ wrote \in [Proc -> SUBSET Block]
    OBVIOUS
  <2>5. buf \in [Block -> Val \cup {None}]
    OBVIOUS
  <2>6. outstanding \in Nat /\ tail \in Nat \ {0}
    OBVIOUS
  <2>7. committing \in BOOLEAN /\ mode \in {"boot", "recover", "up"}
        /\ home \in [Block -> Val] /\ dirty \in SUBSET Block
    OBVIOUS
  <2> HIDE DEF Init
  <2> QED BY <2>1, <2>2, <2>3, <2>4, <2>5, <2>6, <2>7 DEF TypeOK
<1>2. Active = {}
  BY DEF Active
<1>3. CommitAlone
  BY <1>2, FS_EmptySet DEF CommitAlone
<1>4. PinnedUntilInstalled /\ SleeperHasWaker
  BY DEF PinnedUntilInstalled, SleeperHasWaker
<1>5. Reserved
  BY <1>2, CreditNone, LogAssumption DEF Reserved
<1>6. HeaderInv
  BY <1>2, LogAssumption DEF HeaderInv, Distinct
<1>7. CallInv
  BY <1>2, FS_EmptySet DEF CallInv
<1> QED BY <1>1, <1>3, <1>4, <1>5, <1>6, <1>7 DEF IInv

LEMMA BeginOp == ASSUME IInv, NEW p \in Proc, begin_op(p) PROVE IInv'
<1> USE DEF begin_op
<1>0. /\ TypeOK /\ CommitAlone /\ PinnedUntilInstalled /\ SleeperHasWaker
      /\ Reserved /\ HeaderInv /\ CallInv
  BY DEF IInv
<1>1. TypeOK'
  BY <1>0 DEF TypeOK, disk
<1>2. /\ Admit => Active' = Active \cup {p}
      /\ ~Admit => Active' = Active
      /\ p \notin Active
  BY <1>0 DEF TypeOK, Active
<1>3. CommitAlone'
  <2>1. outstanding' = Cardinality(Active')
    BY <1>0, <1>2, ActiveFinite, FS_AddElement DEF CommitAlone
  <2> QED BY <2>1, <1>0, <1>2 DEF CommitAlone, Admit, TypeOK
<1>4. PinnedUntilInstalled'
  <2>1. \A q \in Proc : pc'[q] = "install" <=> pc[q] = "install"
    BY <1>0 DEF TypeOK
  <2> QED BY <2>1, <1>0, PinnedFrame
<1>5. SleeperHasWaker'
  BY <1>0, <1>2, LogAssumption DEF SleeperHasWaker, Admit, HeaderInv, TypeOK
<1>6. Reserved'
  <2>1. CASE Admit
    <3>1. IsFiniteSet(Active')
      BY ActiveFinite, <1>2, <2>1, FS_AddElement
    <3>2. /\ Cardinality(Active' \X (1..MAXOPBLOCKS))
               = Cardinality(Active') * Cardinality(1..MAXOPBLOCKS)
          /\ IsFiniteSet(Active' \X (1..MAXOPBLOCKS))
      BY <3>1, AllowanceFinite, FS_Product
    <3> HIDE DEF begin_op
    <3>3. Credit' \subseteq Active' \X (1..MAXOPBLOCKS)
      BY DEF Credit
    <3>4. Cardinality(Credit') <= (outstanding + 1) * MAXOPBLOCKS
      <4>1. outstanding + 1 = Cardinality(Active')
        BY <1>3, <2>1 DEF CommitAlone, begin_op
      <4>2. Cardinality(Credit') <= Cardinality(Active' \X (1..MAXOPBLOCKS))
        BY <3>2, <3>3, FS_Subset
      <4> QED BY <4>1, <4>2, <3>2, AllowanceFinite
    <3>5. Cardinality(Credit') \in Nat
      BY <3>2, <3>3, FS_Subset, FS_CardinalityType
    <3> QED BY <3>4, <3>5, <2>1, <1>0, LogAssumption
              DEF begin_op, Admit, Reserved, TypeOK
  <2>2. CASE ~Admit
    <3>1. Credit' = Credit
      BY <1>2, <2>2 DEF Credit
    <3> QED BY <3>1, <1>0 DEF Reserved
  <2> QED BY <2>1, <2>2
<1>7. HeaderInv'
  BY <1>0, <1>2 DEF HeaderInv, TypeOK, Distinct, disk
<1>8. CallInv'
  BY <1>0, <1>2 DEF CallInv, TypeOK
<1> QED BY <1>1, <1>3, <1>4, <1>5, <1>6, <1>7, <1>8 DEF IInv

\* Entering a call and being woken by a signal touch no log state.
LEMMA EnterStep == ASSUME IInv, NEW p \in Proc, Enter(p) \/ raise_on(p) PROVE IInv'
<1> USE DEF Enter, raise_on
<1>0. /\ TypeOK /\ CommitAlone /\ PinnedUntilInstalled /\ SleeperHasWaker
      /\ Reserved /\ HeaderInv /\ CallInv
  BY DEF IInv
<1>1. TypeOK'
  BY <1>0 DEF TypeOK, disk
<1>2. Active' = Active
  BY <1>0 DEF TypeOK, Active
<1>3. CommitAlone'
  BY <1>0, <1>2 DEF CommitAlone, TypeOK
<1>4. PinnedUntilInstalled'
  <2>1. \A q \in Proc : pc'[q] = "install" <=> pc[q] = "install"
    BY <1>0 DEF TypeOK
  <2> QED BY <2>1, <1>0, PinnedFrame
<1>5. SleeperHasWaker'
  BY <1>0 DEF SleeperHasWaker, TypeOK
<1>6. Reserved'
  BY <1>0, <1>2 DEF Reserved, Credit
<1>7. HeaderInv'
  BY <1>0, <1>2 DEF HeaderInv, TypeOK, Distinct, disk
<1>8. CallInv'
  BY <1>0, <1>2 DEF CallInv, TypeOK
<1> QED BY <1>1, <1>2, <1>3, <1>4, <1>5, <1>6, <1>7, <1>8 DEF IInv

\* The unlocked test of log_write() keeps the call in the transaction.
LEMMA LogCheckStep ==
  ASSUME IInv, NEW p \in Proc, NEW b \in Block, NEW v \in Val, LogCheck(p, b, v)
  PROVE  IInv'
<1> USE DEF LogCheck
<1>0. /\ TypeOK /\ CommitAlone /\ PinnedUntilInstalled /\ SleeperHasWaker
      /\ Reserved /\ HeaderInv /\ CallInv
  BY DEF IInv
<1>1. TypeOK'
  BY <1>0 DEF TypeOK, disk
<1>2. Active' = Active /\ p \in Active
  BY <1>0 DEF TypeOK, Active
<1>3. CommitAlone'
  BY <1>0, <1>2 DEF CommitAlone, TypeOK
<1>4. PinnedUntilInstalled'
  <2>1. \A q \in Proc : pc'[q] = "install" <=> pc[q] = "install"
    BY <1>0 DEF TypeOK
  <2> QED BY <2>1, <1>0, PinnedFrame
<1>5. SleeperHasWaker'
  BY <1>0 DEF SleeperHasWaker, TypeOK
<1>6. Reserved'
  BY <1>0, <1>2 DEF Reserved, Credit
<1>7. HeaderInv'
  BY <1>0, <1>2 DEF HeaderInv, TypeOK, Distinct, disk
<1>8. CallInv'
  <2> SUFFICES ASSUME NEW q \in Proc
               PROVE  /\ IsFiniteSet(wrote'[q])
                      /\ q \notin Active' => wrote'[q] = {}
                      /\ q \in Active' => wrote'[q] \subseteq ToSet(lh')
                      /\ pc'[q] = "logging" =>
                           /\ arg'[q] \in Block \X Val
                           /\ Cardinality(wrote'[q] \cup {arg'[q][1]}) <= MAXOPBLOCKS
    BY DEF CallInv
  <2>1. CASE q = p
    BY <2>1, <1>0, <1>2 DEF CallInv, TypeOK
  <2>2. CASE q # p
    BY <2>2, <1>0, <1>2 DEF CallInv, TypeOK
  <2> QED BY <2>1, <2>2
<1> QED BY <1>1, <1>3, <1>4, <1>5, <1>6, <1>7, <1>8 DEF IInv

\* The locked half of log_write() spends one credit for the block it appends
\* and none for a block it absorbs.
LEMMA LogAppendStep == ASSUME IInv, NEW p \in Proc, LogAppend(p) PROVE IInv'
<1> DEFINE b == arg[p][1]
           c == Cardinality(wrote[p])
<1>0. /\ TypeOK /\ CommitAlone /\ PinnedUntilInstalled /\ SleeperHasWaker
      /\ Reserved /\ HeaderInv /\ CallInv
  BY DEF IInv
<1>1. /\ arg[p] \in Block \X Val /\ b \in Block /\ arg[p][2] \in Val
      /\ IsFiniteSet(wrote[p]) /\ wrote[p] \subseteq ToSet(lh)
      /\ Cardinality(wrote[p] \cup {b}) <= MAXOPBLOCKS
      /\ mode = "up" /\ pc[p] = "logging" /\ p \in Active
  BY <1>0 DEF LogAppend, CallInv, Active
<1>2. Active' = Active
  BY <1>0, <1>1 DEF LogAppend, TypeOK, Active
<1>3. ~committing /\ outstanding > 0
  <2>1. Active # {}
    BY <1>1
  <2>2. outstanding # 0
    BY <2>1, <1>0, ActiveFinite, FS_EmptySet DEF CommitAlone
  <2> QED BY <2>2, <1>0 DEF CommitAlone, TypeOK
<1>4. ToSet(lh') = ToSet(lh) \cup {b} /\ lh' \in Seq(Block)
  <2>1. CASE b \in ToSet(lh)
    BY <2>1, <1>0 DEF LogAppend, TypeOK
  <2>2. CASE b \notin ToSet(lh)
    BY <2>2, <1>0, <1>1, AppendSet DEF LogAppend, TypeOK
  <2> QED BY <2>1, <2>2
<1>5. TypeOK'
  BY <1>0, <1>1, <1>4 DEF LogAppend, TypeOK, disk
<1>6. CommitAlone'
  BY <1>0, <1>2, <1>3 DEF LogAppend, CommitAlone, TypeOK
<1>7. PinnedUntilInstalled'
  <2>1. \A q \in Proc : pc[q] # "install" /\ pc'[q] # "install"
    BY <1>0, <1>3 DEF LogAppend, CommitAlone, TypeOK
  <2>2. dirty = ToSet(lh)
    <3>1. dirty = {lh[i] : i \in 1..Len(lh)}
      BY <2>1, <1>0, <1>1 DEF PinnedUntilInstalled
    <3> QED BY <3>1, <1>0 DEF ToSet, TypeOK
  <2>3. dirty' = ToSet(lh')
    BY <2>2, <1>4 DEF LogAppend
  <2>4. dirty' = {lh'[i] : i \in 1..Len(lh')}
    BY <2>3, <1>4 DEF ToSet
  <2> QED BY <2>1, <2>4 DEF PinnedUntilInstalled
<1>8. SleeperHasWaker'
  BY <1>0, <1>3 DEF LogAppend, SleeperHasWaker, TypeOK
<1>9. Reserved'
  <2>1. /\ IsFiniteSet(wrote'[p])
        /\ c \in Nat /\ Cardinality(wrote'[p]) \in Nat
        /\ Cardinality(wrote'[p]) = IF b \in wrote[p] THEN c ELSE c + 1
        /\ Cardinality(wrote'[p]) <= MAXOPBLOCKS
    <3>1. wrote'[p] = wrote[p] \cup {b}
      BY <1>0 DEF LogAppend, TypeOK
    <3>2. /\ IsFiniteSet(wrote[p] \cup {b})
          /\ Cardinality(wrote[p] \cup {b}) = IF b \in wrote[p] THEN c ELSE c + 1
      BY <1>1, FS_AddElement
    <3>3. c \in Nat /\ Cardinality(wrote[p] \cup {b}) \in Nat
      BY <1>1, <3>2, FS_CardinalityType
    <3> QED BY <3>1, <3>2, <3>3, <1>1
  <2>2. \A q \in Proc : q # p => wrote'[q] = wrote[q]
    BY <1>0 DEF LogAppend, TypeOK
  <2>3. Credit' \subseteq Credit
    <3> SUFFICES ASSUME NEW q \in Active, NEW k \in 1..MAXOPBLOCKS,
                        k > Cardinality(wrote'[q])
                 PROVE  k > Cardinality(wrote[q])
      BY <1>2 DEF Credit
    <3>1. CASE q = p
      BY <3>1, <2>1, LogAssumption
    <3>2. CASE q # p
      BY <3>2, <2>2 DEF Active
    <3> QED BY <3>1, <3>2
  <2>4. Cardinality(Credit) \in Nat /\ Cardinality(Credit') \in Nat
        /\ Cardinality(Credit') <= Cardinality(Credit)
    BY <2>3, CreditFinite, FS_Subset, FS_CardinalityType
  <2>5. CASE b \in ToSet(lh)
    BY <2>5, <2>4, <1>0, LogAssumption DEF LogAppend, Reserved, TypeOK
  <2>6. CASE b \notin ToSet(lh)
    <3>1. Cardinality(wrote'[p]) = c + 1
      BY <2>6, <2>1, <1>1
    <3>2. <<p, c + 1>> \in Credit /\ <<p, c + 1>> \notin Credit'
      BY <3>1, <2>1, <1>1 DEF Credit
    <3>3. Credit' \subseteq Credit \ {<<p, c + 1>>}
      BY <3>2, <2>3
    <3>4. Cardinality(Credit') <= Cardinality(Credit) - 1
      <4> DEFINE R == Credit \ {<<p, c + 1>>}
      <4>1. IsFiniteSet(R) /\ Cardinality(R) = Cardinality(Credit) - 1
        BY <3>2, CreditFinite, FS_RemoveElement
      <4>2. Cardinality(Credit') <= Cardinality(R)
        BY <4>1, <3>3, FS_Subset
      <4> QED BY <4>1, <4>2
    <3>5. Len(lh') = Len(lh) + 1
      BY <2>6, <1>0, <1>1 DEF LogAppend, TypeOK
    <3> QED BY <3>4, <3>5, <2>4, <1>0, LogAssumption DEF Reserved, TypeOK
  <2> QED BY <2>5, <2>6
<1>10. HeaderInv'
  <2>1. Distinct(lh')
    <3>1. CASE b \in ToSet(lh)
      BY <3>1, <1>0 DEF LogAppend, HeaderInv
    <3>2. CASE b \notin ToSet(lh)
      BY <3>2, <1>0, <1>1 DEF LogAppend, HeaderInv, Distinct, TypeOK, ToSet
    <3> QED BY <3>1, <3>2
  <2>2. \A q \in Proc : pc'[q] # "finish"
    BY <1>0, <1>3 DEF LogAppend, CommitAlone, TypeOK
  <2> QED BY <2>1, <2>2, <1>0, <1>1, <1>3 DEF LogAppend, HeaderInv, TypeOK, disk
<1>11. CallInv'
  <2> SUFFICES ASSUME NEW q \in Proc
               PROVE  /\ IsFiniteSet(wrote'[q])
                      /\ q \notin Active' => wrote'[q] = {}
                      /\ q \in Active' => wrote'[q] \subseteq ToSet(lh')
                      /\ pc'[q] = "logging" =>
                           /\ arg'[q] \in Block \X Val
                           /\ Cardinality(wrote'[q] \cup {arg'[q][1]}) <= MAXOPBLOCKS
    BY DEF CallInv
  <2>1. CASE q = p
    <3>1. wrote'[p] = wrote[p] \cup {b} /\ pc'[p] = "inop"
      BY <1>0 DEF LogAppend, TypeOK
    <3>2. IsFiniteSet(wrote[p] \cup {b})
      BY <1>1, FS_AddElement
    <3> QED BY <3>1, <3>2, <2>1, <1>1, <1>2, <1>4
  <2>2. CASE q # p
    <3>1. wrote'[q] = wrote[q] /\ pc'[q] = pc[q] /\ arg'[q] = arg[q]
      BY <2>2, <1>0 DEF LogAppend, TypeOK
    <3> QED BY <3>1, <1>0, <1>2, <1>4 DEF CallInv
  <2> QED BY <2>1, <2>2
<1> QED BY <1>5, <1>6, <1>7, <1>8, <1>9, <1>10, <1>11 DEF IInv

\* end_op() gives its credit back; the last call turns into the committer.
LEMMA EndOpStep == ASSUME IInv, NEW p \in Proc, end_op(p) PROVE IInv'
<1>0. /\ TypeOK /\ CommitAlone /\ PinnedUntilInstalled /\ SleeperHasWaker
      /\ Reserved /\ HeaderInv /\ CallInv
  BY DEF IInv
<1>1. mode = "up" /\ pc[p] = "inop" /\ p \in Active
  BY DEF end_op, Active
<1>2. outstanding > 0 /\ ~committing
  <2>1. Active # {}
    BY <1>1
  <2>2. outstanding # 0
    BY <2>1, <1>0, ActiveFinite, FS_EmptySet DEF CommitAlone
  <2> QED BY <2>2, <1>0 DEF CommitAlone, TypeOK
<1>3. \A q \in Proc : pc[q] \notin CommitPC
  BY <1>0, <1>2 DEF CommitAlone, CommitPC
<1>4. /\ pc' \in [Proc -> PC]
      /\ pc'[p] \in {"idle", "finish", "write_log"}
      /\ \A q \in Proc : q # p =>
           \/ pc'[q] = pc[q] /\ pc[q] # "sleeping"
           \/ pc[q] = "sleeping" /\ pc'[q] = "begin" /\ outstanding # 1
           \/ pc[q] = "sleeping" /\ pc'[q] = "sleeping" /\ outstanding = 1
      /\ pc'[p] \in CommitPC <=> outstanding = 1
      /\ committing' = (outstanding = 1)
      /\ pc'[p] = "finish" => lh = <<>>
  BY <1>0, <1>1, <1>2 DEF end_op, Wakeup, TypeOK, CommitPC
<1>5. Active' = Active \ {p}
  BY <1>0, <1>1, <1>4 DEF Active, TypeOK
<1>6. TypeOK'
  <2>1. outstanding' \in Nat /\ committing' \in BOOLEAN /\ tail' \in Nat \ {0}
    <3>1. outstanding' \in Nat
      BY <1>0, <1>2 DEF end_op, TypeOK
    <3>2. committing' \in BOOLEAN
      BY <1>4
    <3>3. tail' \in Nat \ {0}
      BY <1>0 DEF end_op, TypeOK
    <3> QED BY <3>1, <3>2, <3>3
  <2> QED BY <2>1, <1>0, <1>4 DEF end_op, TypeOK, disk
<1>7. CommitAlone'
  <2>1. outstanding' = Cardinality(Active')
    BY <1>0, <1>1, <1>5, ActiveFinite, FS_RemoveElement DEF end_op, CommitAlone
  <2>2. \A q \in Proc : pc'[q] \in CommitPC => q = p
    BY <1>3, <1>4 DEF CommitPC
  <2>3. committing' <=> \E q \in Proc : pc'[q] \in CommitPC
    BY <2>2, <1>4
  <2>4. committing' => outstanding' = 0
    BY <1>0, <1>4 DEF end_op, TypeOK
  <2> QED BY <2>1, <2>2, <2>3, <2>4 DEF CommitAlone, CommitPC
<1>8. PinnedUntilInstalled'
  <2>1. \A q \in Proc : pc[q] # "install" /\ pc'[q] # "install"
    BY <1>3, <1>4 DEF CommitPC
  <2> QED BY <2>1, <1>0 DEF end_op, PinnedUntilInstalled
<1>9. SleeperHasWaker'
  BY <1>0, <1>2, <1>4, <1>6 DEF end_op, SleeperHasWaker, TypeOK
<1>10. Reserved'
  <2>1. Credit' \subseteq Credit
    BY <1>0, <1>5 DEF end_op, Credit, Active, TypeOK
  <2>2. Cardinality(Credit) \in Nat /\ Cardinality(Credit') \in Nat
        /\ Cardinality(Credit') <= Cardinality(Credit)
    BY <2>1, CreditFinite, FS_Subset, FS_CardinalityType
  <2> QED BY <2>2, <1>0, LogAssumption DEF end_op, Reserved, TypeOK
<1>11. HeaderInv'
  <2>1. outstanding' = 0 => committing'
    BY <1>0, <1>4 DEF end_op, TypeOK
  <2>2. \A q \in Proc : pc'[q] = "finish" => lh = <<>>
    BY <1>3, <1>4 DEF CommitPC
  <2> QED BY <2>1, <2>2, <1>0, <1>1 DEF end_op, HeaderInv, disk
<1>12. CallInv'
  <2> SUFFICES ASSUME NEW q \in Proc
               PROVE  /\ IsFiniteSet(wrote'[q])
                      /\ q \notin Active' => wrote'[q] = {}
                      /\ q \in Active' => wrote'[q] \subseteq ToSet(lh')
                      /\ pc'[q] = "logging" =>
                           /\ arg'[q] \in Block \X Val
                           /\ Cardinality(wrote'[q] \cup {arg'[q][1]}) <= MAXOPBLOCKS
    BY DEF CallInv
  <2>1. CASE q = p
    <3>1. wrote'[p] = {}
      BY <1>0 DEF end_op, TypeOK
    <3> QED BY <3>1, <2>1, <1>4, <1>5, FS_EmptySet
  <2>2. CASE q # p
    <3>1. wrote'[q] = wrote[q] /\ arg'[q] = arg[q] /\ lh' = lh
          /\ (pc'[q] = "logging" => pc[q] = "logging")
      BY <2>2, <1>0, <1>4 DEF end_op, TypeOK
    <3> QED BY <3>1, <2>2, <1>0, <1>5 DEF CallInv
  <2> QED BY <2>1, <2>2
<1> QED BY <1>6, <1>7, <1>8, <1>9, <1>10, <1>11, <1>12 DEF IInv

\* Copying a block to the log changes only the log area and the cache.
LEMMA WriteLogStep == ASSUME IInv, NEW p \in Proc, write_log(p) PROVE IInv'
<1>0. /\ TypeOK /\ CommitAlone /\ PinnedUntilInstalled /\ SleeperHasWaker
      /\ Reserved /\ HeaderInv /\ CallInv
  BY DEF IInv
<1>1. lh[tail] \in Block /\ Bread(lh[tail]) \in Val
  BY <1>0 DEF write_log, Bread, TypeOK
<1>2. TypeOK'
  <2>1. dlog' \in [1..LOGSIZE -> Val] /\ buf' \in [Block -> Val \cup {None}]
    BY <1>0, <1>1 DEF write_log, TypeOK
  <2>2. tail' \in Nat \ {0}
    BY <1>0 DEF write_log, TypeOK
  <2> QED BY <2>1, <2>2, <1>0 DEF write_log, TypeOK
<1>3. Active' = Active /\ \A q \in Proc : pc[q] # "install"
  <2>1. pc[p] \in CommitPC /\ pc[p] # "install"
    BY DEF write_log, CommitPC
  <2>2. \A q \in Proc : pc[q] \in CommitPC => q = p
    BY <2>1, <1>0, Committer
  <2> QED BY <2>1, <2>2 DEF write_log, Active, CommitPC
<1>4. CommitAlone' /\ SleeperHasWaker'
  BY <1>0, <1>3 DEF write_log, CommitAlone, SleeperHasWaker
<1>5. PinnedUntilInstalled'
  BY <1>0, <1>3 DEF write_log, PinnedUntilInstalled
<1>6. Reserved'
  BY <1>0, <1>3 DEF write_log, Reserved, Credit
<1>7. HeaderInv' /\ CallInv'
  BY <1>0, <1>3 DEF write_log, HeaderInv, CallInv
<1> QED BY <1>2, <1>4, <1>5, <1>6, <1>7 DEF IInv

\* The commit point: the header on disk becomes the one in memory.
LEMMA WriteHeadStep == ASSUME IInv, NEW p \in Proc, write_head(p) PROVE IInv'
<1>0. /\ TypeOK /\ CommitAlone /\ PinnedUntilInstalled /\ SleeperHasWaker
      /\ Reserved /\ HeaderInv /\ CallInv
  BY DEF IInv
<1>1. TypeOK'
  BY <1>0 DEF write_head, TypeOK
<1>2. /\ pc[p] = "write_log" /\ pc'[p] = "install"
      /\ \A q \in Proc : q # p => pc'[q] = pc[q]
  BY <1>0 DEF write_head, TypeOK
<1>3. committing /\ Active = {} /\ \A q \in Proc : pc[q] \in CommitPC => q = p
  BY <1>0, <1>2, Committer DEF CommitPC
<1>4. Active' = Active
  BY <1>2 DEF Active
<1>5. CommitAlone'
  BY <1>0, <1>2, <1>3, <1>4 DEF write_head, CommitAlone, CommitPC
<1>6. SleeperHasWaker'
  BY <1>3 DEF write_head, SleeperHasWaker
<1>7. PinnedUntilInstalled'
  <2>1. \A q \in Proc : pc[q] # "install"
    BY <1>2, <1>3 DEF CommitPC
  <2>2. dirty = {lh[i] : i \in 1..Len(lh)}
    BY <2>1, <1>0 DEF write_head, PinnedUntilInstalled
  <2> QED BY <2>2 DEF write_head, PinnedUntilInstalled
<1>8. Reserved'
  BY <1>0, <1>4 DEF write_head, Reserved, Credit
<1>9. HeaderInv'
  <2>1. Len(lh) <= LOGSIZE
    BY <1>0, HeaderFits, LogAssumption
  <2> QED BY <2>1, <1>0, <1>2, <1>3 DEF write_head, HeaderInv, CommitPC
<1>10. CallInv'
  BY <1>0, <1>2, <1>4 DEF write_head, CallInv
<1> QED BY <1>1, <1>5, <1>6, <1>7, <1>8, <1>9, <1>10 DEF IInv

\* One block goes home and is unpinned.
LEMMA InstallTransStep == ASSUME IInv, NEW p \in Proc, install_trans(p) PROVE IInv'
<1>0. /\ TypeOK /\ CommitAlone /\ PinnedUntilInstalled /\ SleeperHasWaker
      /\ Reserved /\ HeaderInv /\ CallInv
  BY DEF IInv
<1>1. lh[tail] \in Block /\ dlog[tail] \in Val
  BY <1>0, HeaderFits, LogAssumption DEF install_trans, InstallOne, TypeOK
<1>2. TypeOK'
  BY <1>0, <1>1 DEF install_trans, InstallOne, TypeOK
<1>3. Active' = Active /\ pc[p] = "install" /\ committing
  BY <1>0, Committer DEF install_trans, Active, CommitPC
<1>4. CommitAlone' /\ SleeperHasWaker'
  BY <1>0, <1>3 DEF install_trans, CommitAlone, SleeperHasWaker
<1>5. PinnedUntilInstalled'
  <2>1. dirty = {lh[i] : i \in {j \in 1..Len(lh) : j >= tail}}
    BY <1>0, <1>3 DEF install_trans, PinnedUntilInstalled
  <2>2. dirty \ {lh[tail]} = {lh[i] : i \in {j \in 1..Len(lh) : j >= tail + 1}}
    BY <2>1, <1>0 DEF install_trans, InstallOne, HeaderInv, Distinct, TypeOK
  <2>3. \E q \in Proc : pc'[q] = "install"
    BY <1>3 DEF install_trans
  <2> QED BY <2>2, <2>3 DEF install_trans, InstallOne, PinnedUntilInstalled
<1>6. Reserved'
  BY <1>0, <1>3 DEF install_trans, InstallOne, Reserved, Credit
<1>7. HeaderInv' /\ CallInv'
  BY <1>0, <1>3 DEF install_trans, InstallOne, HeaderInv, CallInv
<1> QED BY <1>2, <1>4, <1>5, <1>6, <1>7 DEF IInv

\* The transaction is erased once every block has gone home.
LEMMA EraseStep == ASSUME IInv, NEW p \in Proc, erase(p) PROVE IInv'
<1>0. /\ TypeOK /\ CommitAlone /\ PinnedUntilInstalled /\ SleeperHasWaker
      /\ Reserved /\ HeaderInv /\ CallInv
  BY DEF IInv
<1>1. TypeOK'
  BY <1>0 DEF erase, EraseHead, TypeOK
<1>2. /\ pc[p] = "install" /\ pc'[p] = "finish"
      /\ \A q \in Proc : q # p => pc'[q] = pc[q]
  BY <1>0 DEF erase, TypeOK
<1>3. committing /\ Active = {} /\ \A q \in Proc : pc[q] \in CommitPC => q = p
  BY <1>0, <1>2, Committer DEF CommitPC
<1>4. Active' = {}
  BY <1>2, <1>3 DEF Active
<1>5. CommitAlone'
  BY <1>0, <1>2, <1>3, <1>4 DEF erase, CommitAlone, CommitPC
<1>6. SleeperHasWaker'
  BY <1>3 DEF erase, SleeperHasWaker
<1>7. PinnedUntilInstalled'
  <2>1. dirty = {}
    BY <1>0, <1>2 DEF erase, EraseHead, PinnedUntilInstalled, TypeOK
  <2> QED BY <2>1 DEF erase, EraseHead, PinnedUntilInstalled
<1>8. Reserved'
  <2>1. Cardinality(Credit') = 0
    BY <1>4, FS_EmptySet DEF Credit
  <2> QED BY <2>1, LogAssumption DEF erase, EraseHead, Reserved
<1>9. HeaderInv'
  BY <1>0, <1>3, <1>4, LogAssumption DEF erase, EraseHead, HeaderInv, Distinct
<1>10. CallInv'
  BY <1>0, <1>2, <1>3, <1>4 DEF erase, CallInv
<1> QED BY <1>1, <1>5, <1>6, <1>7, <1>8, <1>9, <1>10 DEF IInv

\* The end of end_op(): the commit is over and every sleeper is awake.
LEMMA FinishStep == ASSUME IInv, NEW p \in Proc, finish(p) PROVE IInv'
<1>0. /\ TypeOK /\ CommitAlone /\ PinnedUntilInstalled /\ SleeperHasWaker
      /\ Reserved /\ HeaderInv /\ CallInv
  BY DEF IInv
<1>1. /\ pc[p] = "finish" /\ pc'[p] = "idle" /\ pc' \in [Proc -> PC]
      /\ \A q \in Proc : pc'[q] # "sleeping"
      /\ \A q \in Proc : q # p => pc'[q] = IF pc[q] = "sleeping" THEN "begin" ELSE pc[q]
  BY <1>0 DEF finish, Wakeup, TypeOK
<1>2. TypeOK'
  BY <1>0, <1>1 DEF finish, TypeOK, disk
<1>3. /\ Active = {} /\ outstanding = 0 /\ lh = <<>>
      /\ \A q \in Proc : pc[q] \in CommitPC => q = p
  BY <1>0, <1>1, Committer DEF CommitPC, HeaderInv
<1>4. Active' = Active
  BY <1>1, <1>3 DEF Active
<1>5. CommitAlone'
  BY <1>0, <1>1, <1>3, <1>4 DEF finish, CommitAlone, CommitPC
<1>6. SleeperHasWaker'
  BY <1>1 DEF SleeperHasWaker
<1>7. PinnedUntilInstalled'
  BY <1>0, <1>3 DEF finish, PinnedUntilInstalled
<1>8. Reserved'
  BY <1>0, <1>4 DEF finish, Reserved, Credit
<1>9. HeaderInv'
  BY <1>0, <1>3, <1>4 DEF finish, HeaderInv, disk
<1>10. CallInv'
  BY <1>0, <1>1, <1>3, <1>4 DEF finish, CallInv
<1> QED BY <1>2, <1>5, <1>6, <1>7, <1>8, <1>9, <1>10 DEF IInv

\* bget() recycles a clean buffer.
LEMMA RecycleStep == ASSUME IInv, NEW b \in Block, Recycle(b) PROVE IInv'
<1>0. /\ TypeOK /\ CommitAlone /\ PinnedUntilInstalled /\ SleeperHasWaker
      /\ Reserved /\ HeaderInv /\ CallInv
  BY DEF IInv
<1>1. TypeOK'
  BY <1>0 DEF Recycle, TypeOK, disk
<1>2. Active' = Active
  BY DEF Recycle, Active
<1>3. CommitAlone' /\ SleeperHasWaker' /\ PinnedUntilInstalled'
  BY <1>0, <1>2 DEF Recycle, CommitAlone, SleeperHasWaker, PinnedUntilInstalled
<1>4. Reserved'
  BY <1>0, <1>2 DEF Recycle, Reserved, Credit
<1>5. HeaderInv' /\ CallInv'
  BY <1>0, <1>2 DEF Recycle, HeaderInv, CallInv, disk
<1> QED BY <1>1, <1>3, <1>4, <1>5 DEF IInv

\* A power failure clears memory and leaves a legal header on disk.
LEMMA CrashStep == ASSUME IInv, Crash PROVE IInv'
<1>0. /\ TypeOK /\ CommitAlone /\ PinnedUntilInstalled /\ SleeperHasWaker
      /\ Reserved /\ HeaderInv /\ CallInv
  BY DEF IInv
<1>1. TypeOK'
  <2>1. arg' \in [Proc -> (Block \X Val) \cup {NoArg}] /\ pc' \in [Proc -> PC]
        /\ wrote' \in [Proc -> SUBSET Block] /\ buf' \in [Block -> Val \cup {None}]
    BY DEF Crash
  <2>2. outstanding' \in Nat /\ tail' \in Nat \ {0} /\ lh' \in Seq(Block)
    BY DEF Crash
  <2>3. committing' \in BOOLEAN /\ mode' \in {"boot", "recover", "up"}
        /\ dirty' \in SUBSET Block
    BY DEF Crash
  <2>4. UNCHANGED <<home, dlog, dhead>>
    BY DEF Crash, disk
  <2> QED BY <2>1, <2>2, <2>3, <2>4, <1>0 DEF TypeOK
<1>2. Active' = {}
  BY DEF Crash, Active
<1>3. CommitAlone'
  BY <1>2, FS_EmptySet DEF Crash, CommitAlone
<1>4. SleeperHasWaker' /\ PinnedUntilInstalled'
  BY DEF Crash, SleeperHasWaker, PinnedUntilInstalled
<1>5. Reserved'
  <2>1. Cardinality(Credit') = 0
    BY <1>2, FS_EmptySet DEF Credit
  <2> QED BY <2>1, LogAssumption DEF Crash, Reserved
<1>6. HeaderInv'
  BY <1>0, <1>2 DEF Crash, HeaderInv, Distinct, disk
<1>7. CallInv'
  BY <1>2, FS_EmptySet DEF Crash, CallInv
<1> QED BY <1>1, <1>3, <1>4, <1>5, <1>6, <1>7 DEF IInv

\* Recovery: read the header, install it, erase it.
LEMMA RecoverStep ==
  ASSUME IInv, read_head \/ RecoverInstall \/ RecoverErase PROVE IInv'
<1>0. /\ TypeOK /\ CommitAlone /\ PinnedUntilInstalled /\ SleeperHasWaker
      /\ Reserved /\ HeaderInv /\ CallInv
  BY DEF IInv
<1>1. /\ mode # "up" /\ Active = {} /\ ~committing /\ dirty = {}
      /\ UNCHANGED <<outstanding, committing, pc, arg, wrote>>
      /\ outstanding = 0
  <2>1. mode # "up" /\ UNCHANGED <<outstanding, committing, pc, arg, wrote>>
    BY DEF read_head, RecoverInstall, RecoverErase
  <2>2. Active = {} /\ ~committing /\ dirty = {}
    BY <2>1, <1>0 DEF HeaderInv
  <2> QED BY <2>1, <2>2, <1>0, FS_EmptySet DEF CommitAlone
<1>2. TypeOK'
  <2>1. CASE read_head
    BY <2>1, <1>0 DEF read_head, TypeOK, disk
  <2>2. CASE RecoverInstall
    <3>1. lh[tail] \in Block /\ dlog[tail] \in Val
      BY <2>2, <1>0, HeaderFits, LogAssumption DEF RecoverInstall, InstallOne, TypeOK
    <3> QED BY <2>2, <3>1, <1>0 DEF RecoverInstall, InstallOne, TypeOK
  <2>3. CASE RecoverErase
    BY <2>3, <1>0 DEF RecoverErase, EraseHead, TypeOK
  <2> QED BY <2>1, <2>2, <2>3
<1>3. Active' = {}
  BY <1>1 DEF Active
<1>4. CommitAlone' /\ SleeperHasWaker'
  BY <1>0, <1>1, <1>3 DEF CommitAlone, SleeperHasWaker
<1>5. dirty' = {} /\ (mode' = "up" => lh' = <<>>)
  BY <1>1 DEF read_head, RecoverInstall, RecoverErase, InstallOne, EraseHead
<1>6. PinnedUntilInstalled'
  BY <1>5 DEF PinnedUntilInstalled
<1>7. \/ lh' = dhead /\ dhead' = dhead
      \/ lh' = lh /\ dhead' = dhead
      \/ lh' = <<>> /\ dhead' = <<>>
  BY DEF read_head, RecoverInstall, RecoverErase, InstallOne, EraseHead, disk
<1>8. Reserved'
  <2>1. Cardinality(Credit') = 0
    BY <1>3, FS_EmptySet DEF Credit
  <2>2. Len(lh) <= LOGSIZE /\ Len(dhead) <= LOGSIZE
    BY <1>0, HeaderFits, LogAssumption DEF HeaderInv
  <2>3. Len(lh') <= LOGSIZE /\ Len(lh') \in Nat
    BY <1>2, <1>7, <2>2, LogAssumption DEF TypeOK
  <2> QED BY <2>1, <2>3 DEF Reserved
<1>9. HeaderInv'
  <2>1. Distinct(lh') /\ Distinct(dhead') /\ Len(dhead') <= LOGSIZE
    BY <1>7, <1>0, LogAssumption DEF HeaderInv, Distinct
  <2>2. \A p \in Proc : pc'[p] # "finish"
    BY <1>0, <1>1 DEF CommitAlone
  <2> QED BY <2>1, <2>2, <1>1, <1>3, <1>5 DEF HeaderInv
<1>10. CallInv'
  <2>1. \A p \in Proc : pc[p] # "logging"
    BY <1>1 DEF Active
  <2> QED BY <2>1, <1>0, <1>1, <1>3 DEF CallInv
<1> QED BY <1>2, <1>4, <1>6, <1>8, <1>9, <1>10 DEF IInv

\* Every step of the log, of a power failure and of recovery preserves the
\* inductive invariant.
THEOREM NextIInv == IInv /\ [Next]_vars => IInv'
<1> SUFFICES ASSUME IInv, [Next]_vars PROVE IInv'
  OBVIOUS
<1>1. CASE \E p \in Proc : Enter(p) \/ raise_on(p)
  BY <1>1, EnterStep
<1>2. CASE \E p \in Proc, b \in Block, v \in Val : LogCheck(p, b, v)
  BY <1>2, LogCheckStep
<1>3. CASE \E p \in Proc : Step(p)
  <2> PICK p \in Proc : Step(p)
    BY <1>3
  <2> QED BY BeginOp, LogAppendStep, EndOpStep, WriteLogStep, WriteHeadStep,
             InstallTransStep, EraseStep, FinishStep DEF Step
<1>4. CASE (\E b \in Block : Recycle(b)) \/ Crash
  BY <1>4, RecycleStep, CrashStep
<1>5. CASE read_head \/ RecoverInstall \/ RecoverErase
  BY <1>5, RecoverStep
<1>6. CASE UNCHANGED vars
  <2> USE <1>6 DEF vars
  <2>1. Active' = Active
    BY DEF Active
  <2>2. Credit' = Credit
    BY <2>1 DEF Credit
  <2>3. TypeOK'
    BY DEF IInv, TypeOK
  <2>4. CommitAlone' /\ SleeperHasWaker'
    BY <2>1 DEF IInv, CommitAlone, SleeperHasWaker
  <2>5. PinnedUntilInstalled'
    BY PinnedFrame DEF IInv
  <2>6. Reserved'
    BY <2>2 DEF IInv, Reserved
  <2>7. HeaderInv' /\ CallInv'
    BY <2>1 DEF IInv, HeaderInv, CallInv, Distinct
  <2> QED BY <2>3, <2>4, <2>5, <2>6, <2>7 DEF IInv
<1> QED BY <1>1, <1>2, <1>3, <1>4, <1>5, <1>6 DEF Next

\* In every run of log.c, crashes included: the types hold, a commit runs
\* alone, a block is pinned from log_write() to install_trans(), a process
\* asleep in begin_op() has a waker, and the reservation is never overdrawn.
THEOREM Inductive == Spec => []IInv
BY InitIInv, NextIInv, PTL DEF Spec

\* The state of the log keeps its types.
THEOREM TypeCorrect == Spec => []TypeOK
<1>1. IInv => TypeOK
  BY DEF IInv
<1> QED BY Inductive, <1>1, PTL

\* commit() copies the transaction while no call is inside it, and alone.
THEOREM CommitsAlone == Spec => []CommitAlone
<1>1. IInv => CommitAlone
  BY DEF IInv
<1> QED BY Inductive, <1>1, PTL

\* bget() never takes the buffer of a block that is logged and not home.
THEOREM StaysPinned == Spec => []PinnedUntilInstalled
<1>1. IInv => PinnedUntilInstalled
  BY DEF IInv
<1> QED BY Inductive, <1>1, PTL

\* Nobody sleeps in begin_op() with nobody left to wake it.
THEOREM SleepersWakeable == Spec => []SleeperHasWaker
<1>1. IInv => SleeperHasWaker
  BY DEF IInv
<1> QED BY Inductive, <1>1, PTL

\* The room begin_op() promises to a call is there until the call ends.
THEOREM ReservationHolds == Spec => []Reserved
<1>1. IInv => Reserved
  BY DEF IInv
<1> QED BY Inductive, <1>1, PTL
=============================================================================
