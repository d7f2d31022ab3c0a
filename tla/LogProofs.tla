----------------------------- MODULE LogProofs -----------------------------
(***************************************************************************)
(* Proofs about the log, for any number of blocks, values and processes    *)
(* and any sizes of the log: that it implements the atomic disk whatever   *)
(* crashes happen, that it is clean when nothing is under way, and that    *)
(* the space which begin_op() reserves is enough.                          *)
(*                                                                         *)
(* The invariant LogInv says, for every place in commit() and in recovery, *)
(* where the last contents of each block are: in its pinned buffer, in the *)
(* log, or at home.                                                        *)
(***************************************************************************)
EXTENDS Log, FiniteSetTheorems, FunctionTheorems, TLAPS

USE Zenon

Injective(s) == \A i, j \in DOMAIN s : s[i] = s[j] => i = j

\* No block has two places in the log, in memory or on disk.
DistinctInv == Injective(lh) /\ Injective(head)

\* What the place of commit() or of recovery says about the rest.
PhaseInv ==
  /\ IF mode = "up" THEN ~At("read_head") /\ (committing <=> ~At("idle"))
     ELSE /\ writer.pc \in {"read_head", "install_trans", "clear_head"}
          /\ ~committing
          /\ \A p \in Proc : op[p].pc = "user"
  /\ outstanding = 0 \/ At("idle")
  /\ outstanding = 0 /\ At("idle") => lh = <<>>
  /\ writer.pc \in {"idle", "write_log", "write_head", "end"} => head = <<>>
  /\ writer.pc \in {"write_log", "write_head", "install_trans"} =>
       writer.tail < Len(lh)
  /\ writer.pc \in {"read_head", "clear_head", "end"} => lh = <<>>
  /\ At("install_trans") => head = lh

\* What commit() has copied so far, to the log and from the log.
CopyInv ==
  /\ At("write_log") => \A i \in 1..writer.tail : logged[i] = cache[lh[i]]
  /\ At("write_head") => \A i \in DOMAIN lh : logged[i] = cache[lh[i]]
  /\ At("install_trans") =>
       \A i \in 1..writer.tail : home[lh[i]] = logged[i]
  /\ At("clear_head") => \A i \in DOMAIN head : home[head[i]] = logged[i]

\* The buffer of b, if there is one, agrees with the disk and may go.
Clean(b) == cache[b] \in {Absent, home[b]} /\ pins[b] = 0

\* The i-th block of the log has been installed, or is being recovered.
AtHome(i) == mode = "recover" \/ (At("install_trans") /\ i <= writer.tail)

\* Buffers are clean except those of the blocks in the log that are not at
\* home yet: these are pinned, once.
CacheInv ==
  /\ \A b \in Block : ~InLog(b) => Clean(b)
  /\ \A i \in DOMAIN lh :
       IF AtHome(i) THEN Clean(lh[i])
       ELSE /\ cache[lh[i]] # Absent
            /\ pins[lh[i]] = 1
            /\ At("install_trans") => cache[lh[i]] = logged[i]

\* outstanding counts the active operations, and whoever sleeps in begin_op()
\* sleeps for one of them or for the commit.
OpInv ==
  /\ outstanding = Cardinality(Busy)
  /\ \A p \in Proc : op[p].pc = "sleep" => committing \/ outstanding > 0

LogInv == TypeOK /\ DistinctInv /\ PhaseInv /\ CopyInv /\ CacheInv /\ OpInv

-----------------------------------------------------------------------------
(* The three tables that steps change, and their types.                    *)

LEMMA IdleType ==
  ASSUME NEW pc \in {"idle", "read_head", "write_log", "write_head",
                     "install_trans", "clear_head", "end"}
  PROVE  /\ [Idle EXCEPT !.pc = pc] \in WriterRec
         /\ [Idle EXCEPT !.pc = pc].pc = pc
         /\ [Idle EXCEPT !.pc = pc].tail = 0
  BY DEF Idle, WriterRec

LEMMA OpType ==
  ASSUME NEW pc \in {"user", "begin_op", "sleep", "op", "commit"}
  PROVE  [pc |-> pc, wrote |-> {}] \in OpRec
  BY DEF OpRec

\* wakeup(&log) leaves active operations alone, and nobody asleep.
LEMMA WakeupType ==
  ASSUME NEW table \in [Proc -> OpRec]
  PROVE  /\ Wakeup(table) \in [Proc -> OpRec]
         /\ \A p \in Proc :
              /\ Wakeup(table)[p].pc # "sleep"
              /\ Wakeup(table)[p].wrote = table[p].wrote
              /\ table[p].pc # "sleep" => Wakeup(table)[p].pc = table[p].pc
              /\ Wakeup(table)[p].pc = "op" <=> table[p].pc = "op"
<1>1. ASSUME NEW p \in Proc PROVE [table[p] EXCEPT !.pc = "begin_op"] \in OpRec
  BY DEF OpRec
<1>2. Wakeup(table) \in [Proc -> OpRec]
  BY <1>1 DEF Wakeup
<1>3. ASSUME NEW p \in Proc, table[p].pc = "sleep"
      PROVE  Wakeup(table)[p].pc = "begin_op" /\ Wakeup(table)[p].wrote = table[p].wrote
  BY <1>3 DEF Wakeup, OpRec
<1>4. ASSUME NEW p \in Proc, table[p].pc # "sleep"
      PROVE  Wakeup(table)[p] = table[p]
  BY <1>4 DEF Wakeup
<1> QED
  BY <1>2, <1>3, <1>4

-----------------------------------------------------------------------------
\* A machine that boots with a fresh file system satisfies the invariant.
LEMMA InitInv == Init => LogInv
<1> SUFFICES ASSUME Init PROVE LogInv
  OBVIOUS
<1> USE LogAssumption DEF Init
<1>1. writer \in WriterRec /\ At("read_head")
  BY IdleType DEF At
<1>2. op \in [Proc -> OpRec] /\ \A p \in Proc : op[p].pc = "user"
  BY OpType
<1>3. DOMAIN lh = {} /\ DOMAIN head = {}
  BY SMT
<1>4. TypeOK
  <2>1. home \in [Block -> Contents] /\ logged \in [1..(nlog - 1) -> Contents]
    BY DEF Contents
  <2>2. cache \in [Block -> Contents \cup {Absent}] /\ pins \in [Block -> Nat]
    OBVIOUS
  <2>3. <<>> \in Seq(Block) /\ Len(<<>>) < nlog
    BY SMT
  <2> QED
    BY <1>1, <1>2, <2>1, <2>2, <2>3 DEF TypeOK
<1>5. DistinctInv
  BY <1>3 DEF DistinctInv, Injective
<1>6. PhaseInv /\ CopyInv
  BY <1>1, <1>2 DEF PhaseInv, CopyInv, At
<1>7. CacheInv
  BY <1>3 DEF CacheInv, Clean
<1>8. OpInv
  <2>1. Busy = {}
    BY <1>2 DEF Busy
  <2> QED
    BY <1>2, <2>1, FS_EmptySet DEF OpInv
<1> QED
  BY <1>4, <1>5, <1>6, <1>7, <1>8 DEF LogInv

-----------------------------------------------------------------------------
(* The steps of the buffer cache, and of operations up to log_write().     *)

\* Reading a block, or recycling the buffer of a block that is not pinned,
\* keeps the invariant: the last contents are never in a clean buffer only.
LEMMA CacheStep ==
  ASSUME LogInv, NEW b \in Block, Read(b) \/ Recycle(b)
  PROVE  LogInv'
<1> USE LogAssumption DEF LogInv
<1>1. /\ UNCHANGED <<disk, pins, lh, outstanding, committing, mode, writer, op>>
      /\ mode = "up"
      /\ cache' = [cache EXCEPT ![b] = home[b]] \/ cache' = [cache EXCEPT ![b] = Absent]
  BY DEF Read, Recycle
<1>2. ASSUME NEW i \in DOMAIN lh, ~AtHome(i) PROVE lh[i] # b
  BY SMT, <1>2 DEF CacheInv, TypeOK, Read, Recycle
<1>3. TypeOK'
  BY <1>1 DEF TypeOK, disk
<1>4. DistinctInv' /\ PhaseInv' /\ OpInv'
  BY <1>1 DEF DistinctInv, Injective, PhaseInv, OpInv, Busy, At, disk
<1>5. CopyInv'
  <2>1. ASSUME writer.pc \in {"write_log", "write_head"}, NEW i \in DOMAIN lh
        PROVE  lh[i] # b
    BY <1>1, <1>2, <2>1 DEF AtHome, At
  <2> QED
    BY SMTT(40), <1>1, <2>1 DEF CopyInv, PhaseInv, At, disk, TypeOK, WriterRec
<1>6. CacheInv'
  <2>1. Clean(b)'
    BY SMT, <1>1, <1>2 DEF CacheInv, Clean, InLog, TypeOK, disk
  <2>2. \A c \in Block \ {b} : cache'[c] = cache[c] /\ (Clean(c) => Clean(c)')
    BY <1>1 DEF TypeOK, Clean, disk
  <2>3. \A c \in Block : Clean(c) => Clean(c)'
    BY <2>1, <2>2
  <2>4. ASSUME NEW c \in Block, ~InLog(c)' PROVE Clean(c)'
    BY <1>1, <2>3, <2>4 DEF CacheInv, InLog
  <2>5. ASSUME NEW i \in DOMAIN lh, AtHome(i) PROVE Clean(lh[i])'
    BY SMT, <1>1, <2>3, <2>5 DEF CacheInv, TypeOK, Clean
  <2>6. ASSUME NEW i \in DOMAIN lh, ~AtHome(i)
        PROVE  /\ cache'[lh[i]] # Absent
               /\ pins'[lh[i]] = 1
               /\ At("install_trans") => cache'[lh[i]] = logged[i]
    BY SMT, <1>1, <1>2, <2>2, <2>6 DEF CacheInv, TypeOK
  <2> QED
    BY <1>1, <2>4, <2>5, <2>6 DEF CacheInv, AtHome, At, disk, Clean
<1> QED
  BY <1>3, <1>4, <1>5, <1>6

\* A process calls the file system, and may sleep in begin_op().
LEMMA CallStep ==
  ASSUME LogInv, NEW p \in Proc, FsCall(p) \/ begin_op_sleep(p)
  PROVE  LogInv'
<1> USE LogAssumption DEF LogInv
<1>1. /\ UNCHANGED <<disk, memory, writer, mode>> /\ mode = "up"
      /\ op[p].pc \in {"user", "begin_op"}
  BY DEF FsCall, begin_op_sleep
<1>2. PICK pc \in {"begin_op", "sleep"} :
        /\ op' = [op EXCEPT ![p] = [pc |-> pc, wrote |-> {}]]
        /\ pc = "sleep" => committing \/ LogFull
  BY DEF FsCall, begin_op_sleep, Goto
<1>3. op' \in [Proc -> OpRec]
  BY <1>2, OpType DEF TypeOK
<1>4. TypeOK'
  BY <1>1, <1>3 DEF TypeOK, disk, memory
<1>5. DistinctInv' /\ PhaseInv' /\ CopyInv' /\ CacheInv'
  BY <1>1 DEF DistinctInv, Injective, PhaseInv, CopyInv, CacheInv, Clean,
              InLog, AtHome, At, disk, memory
<1>6. OpInv'
  <2>1. Busy' = Busy
    BY <1>1, <1>2 DEF Busy, TypeOK
  <2>2. ~LogFull \/ outstanding > 0 \/ committing
    BY SMT, <1>1 DEF LogFull, PhaseInv, At, TypeOK
  <2> QED
    BY <1>1, <1>2, <2>1, <2>2 DEF OpInv, TypeOK, memory
<1> QED
  BY <1>4, <1>5, <1>6

\* begin_op() counts one more active operation.
LEMMA BeginStep ==
  ASSUME LogInv, NEW p \in Proc, begin_op(p)
  PROVE  LogInv'
<1> USE LogAssumption DEF LogInv
<1>1. /\ UNCHANGED <<disk, cache, pins, lh, committing, mode, writer>>
      /\ outstanding' = outstanding + 1
      /\ mode = "up" /\ ~committing /\ op[p].pc = "begin_op"
      /\ op' = [op EXCEPT ![p] = [pc |-> "op", wrote |-> {}]]
  BY DEF begin_op, Goto
<1>2. op' \in [Proc -> OpRec]
  BY <1>1, OpType DEF TypeOK
<1>3. TypeOK'
  BY SMT, <1>1, <1>2 DEF TypeOK, disk
<1>4. DistinctInv' /\ PhaseInv' /\ CopyInv' /\ CacheInv'
  BY SMT, <1>1 DEF DistinctInv, Injective, PhaseInv, CopyInv, CacheInv, Clean,
              InLog, AtHome, At, disk, TypeOK
<1>5. OpInv'
  <2>1. Busy' = Busy \cup {p} /\ p \notin Busy
    BY <1>1 DEF Busy, TypeOK
  <2>2. IsFiniteSet(Busy)
    BY FS_Subset DEF Busy
  <2>3. Cardinality(Busy') = Cardinality(Busy) + 1
    BY <2>1, <2>2, FS_AddElement
  <2> QED
    BY SMT, <1>1, <2>3 DEF OpInv, TypeOK
<1> QED
  BY <1>3, <1>4, <1>5

\* log_write() pins the buffer of a block when it enters the log.
LEMMA WriteStep ==
  ASSUME LogInv, NEW p \in Proc, NEW b \in Block, NEW v \in Value,
         log_write(p, b, v)
  PROVE  LogInv'
<1> USE LogAssumption DEF LogInv
<1>1. /\ UNCHANGED <<disk, outstanding, committing, mode, writer>>
      /\ mode = "up" /\ op[p].pc = "op" /\ ~TooBig
      /\ cache' = [cache EXCEPT ![b] = v]
      /\ lh' = IF InLog(b) THEN lh ELSE Append(lh, b)
      /\ pins' = IF InLog(b) THEN pins ELSE [pins EXCEPT ![b] = @ + 1]
      /\ op' = [op EXCEPT ![p].wrote = @ \cup {b}]
  BY DEF log_write, Pinned
<1>2. At("idle") /\ outstanding # 0
  <2>1. p \in Busy /\ IsFiniteSet(Busy)
    BY <1>1, FS_Subset DEF Busy
  <2>2. outstanding # 0
    BY <2>1, FS_EmptySet DEF OpInv
  <2> QED
    BY <2>2 DEF PhaseInv
<1>3. TypeOK'
  <2>1. [op[p] EXCEPT !.wrote = @ \cup {b}] \in OpRec
    BY DEF TypeOK, OpRec
  <2>2. op' \in [Proc -> OpRec]
    BY <1>1, <2>1 DEF TypeOK
  <2>3. lh' \in Seq(Block) /\ Len(lh') < nlog
    BY SMT, <1>1 DEF TypeOK, TooBig
  <2> QED
    BY SMTT(40), <1>1, <2>2, <2>3 DEF TypeOK, Contents, disk
<1>4. ASSUME NEW i \in DOMAIN lh'
      PROVE  \/ i \in DOMAIN lh /\ lh'[i] = lh[i]
             \/ i \notin DOMAIN lh /\ lh'[i] = b /\ ~InLog(b)
  BY SMTT(40), <1>1, <1>4 DEF TypeOK
<1>5. DistinctInv'
  <2>1. CASE InLog(b)
    BY <1>1, <2>1 DEF DistinctInv, Injective, disk
  <2>2. CASE ~InLog(b)
    <3>1. lh' = Append(lh, b) /\ DOMAIN lh' = 1..(Len(lh) + 1)
      BY SMT, <1>1, <2>2 DEF TypeOK
    <3>2. \A i \in 1..Len(lh) : lh'[i] = lh[i] /\ lh[i] # b
      BY SMT, <2>2, <3>1 DEF TypeOK, InLog
    <3>3. lh'[Len(lh) + 1] = b
      BY SMT, <3>1 DEF TypeOK
    <3>4. Injective(lh)'
      BY SMT, <3>1, <3>2, <3>3 DEF DistinctInv, Injective, TypeOK
    <3> QED
      BY <1>1, <3>4 DEF DistinctInv, Injective, disk
  <2> QED
    BY <2>1, <2>2
<1>6. PhaseInv' /\ CopyInv'
  <2>1. \A q \in Proc : op'[q].pc = op[q].pc
    BY <1>1 DEF TypeOK, OpRec
  <2> QED
    BY <1>1, <1>2, <2>1 DEF PhaseInv, CopyInv, At, disk
<1>7. CacheInv'
  <2>1. \A i : ~AtHome(i) /\ ~AtHome(i)'
    BY <1>1, <1>2 DEF AtHome, At
  <2>2. ASSUME NEW c \in Block, ~InLog(c)' PROVE Clean(c)'
    <3>1. c # b /\ ~InLog(c)
      <4>1. CASE InLog(b)
        BY <1>1, <2>2, <4>1 DEF InLog
      <4>2. CASE ~InLog(b)
        <5>1. lh' = Append(lh, b) /\ Len(lh) + 1 \in DOMAIN lh'
          BY SMT, <1>1, <4>2 DEF TypeOK
        <5>2. lh'[Len(lh) + 1] = b
          BY SMT, <5>1 DEF TypeOK
        <5>3. \A i \in DOMAIN lh : i \in DOMAIN lh' /\ lh'[i] = lh[i]
          BY SMT, <5>1 DEF TypeOK
        <5> QED
          BY <2>2, <5>1, <5>2, <5>3 DEF InLog
      <4> QED
        BY <4>1, <4>2
    <3> QED
      BY <1>1, <3>1 DEF CacheInv, Clean, TypeOK, disk
  <2>3. ASSUME NEW i \in DOMAIN lh' PROVE cache'[lh'[i]] # Absent
    BY SMTT(40), <1>1, <1>4, <2>1 DEF CacheInv, TypeOK
  <2>4. ASSUME NEW i \in DOMAIN lh' PROVE pins'[lh'[i]] = 1
    <3>1. CASE i \in DOMAIN lh /\ lh'[i] = lh[i]
      <4>1. ~InLog(b) => lh[i] # b
        BY <3>1 DEF InLog
      <4> QED
        BY SMTT(40), <1>1, <2>1, <3>1, <4>1 DEF CacheInv, TypeOK
    <3>2. CASE lh'[i] = b /\ ~InLog(b)
      BY SMTT(40), <1>1, <3>2 DEF CacheInv, TypeOK, Clean
    <3> QED
      BY <1>4, <3>1, <3>2
  <2> QED
    BY <1>1, <1>2, <2>1, <2>2, <2>3, <2>4 DEF CacheInv, At
<1>8. OpInv'
  <2>1. \A q \in Proc : op'[q].pc = op[q].pc
    BY <1>1 DEF TypeOK, OpRec
  <2>2. Busy' = Busy
    BY <2>1 DEF Busy
  <2> QED
    BY <1>1, <2>1, <2>2 DEF OpInv
<1> QED
  BY <1>3, <1>5, <1>6, <1>7, <1>8

-----------------------------------------------------------------------------
(* The end of an operation, and the commit.                                *)

\* end_op() with others active.
LEMMA EndStep ==
  ASSUME LogInv, NEW p \in Proc, end_op(p)
  PROVE  LogInv'
<1> USE LogAssumption DEF LogInv
<1> DEFINE left == [op EXCEPT ![p] = [pc |-> "user", wrote |-> {}]]
<1>1. /\ UNCHANGED <<disk, cache, pins, lh, committing, mode, writer>>
      /\ mode = "up" /\ op[p].pc = "op" /\ outstanding > 1
      /\ outstanding' = outstanding - 1
      /\ op' = Wakeup(left)
  BY DEF end_op
<1>2. left \in [Proc -> OpRec]
  BY OpType DEF TypeOK
<1> HIDE DEF left
<1>3. TypeOK'
  BY SMT, <1>1, <1>2, WakeupType DEF TypeOK, disk
<1>4. DistinctInv' /\ PhaseInv' /\ CopyInv' /\ CacheInv'
  BY SMT, <1>1 DEF DistinctInv, Injective, PhaseInv, CopyInv, CacheInv, Clean,
              InLog, AtHome, At, disk, TypeOK
<1>5. OpInv'
  <2>1. \A q \in Proc : op'[q].pc # "sleep"
    BY <1>1, <1>2, WakeupType
  <2>2. \A q \in Proc : op'[q].pc = "op" <=> q # p /\ op[q].pc = "op"
    BY <1>1, <1>2, WakeupType DEF left, TypeOK
  <2>3. Busy' = Busy \ {p} /\ p \in Busy
    BY <1>1, <2>2 DEF Busy
  <2>4. IsFiniteSet(Busy)
    BY FS_Subset DEF Busy
  <2>5. Cardinality(Busy') = Cardinality(Busy) - 1
    BY <2>3, <2>4, FS_RemoveElement
  <2> QED
    BY <1>1, <2>1, <2>5 DEF OpInv
<1> QED
  BY <1>3, <1>4, <1>5

\* end_op() of the last active operation starts the commit.
LEMMA EndLastStep ==
  ASSUME LogInv, NEW p \in Proc, end_op_last(p)
  PROVE  LogInv'
<1> USE LogAssumption DEF LogInv
<1> DEFINE pc == IF lh = <<>> THEN "end" ELSE "write_log"
<1>1. /\ UNCHANGED <<disk, cache, pins, lh, mode>>
      /\ mode = "up" /\ op[p].pc = "op" /\ outstanding = 1
      /\ outstanding' = 0 /\ committing' = TRUE
      /\ writer' = [Idle EXCEPT !.pc = pc]
      /\ op' = [op EXCEPT ![p] = [pc |-> "commit", wrote |-> {}]]
  BY DEF end_op_last, Goto
<1>2. writer' \in WriterRec /\ writer'.pc = pc /\ writer'.tail = 0
  BY <1>1, IdleType
<1>3. op' \in [Proc -> OpRec]
  BY <1>1, OpType DEF TypeOK
<1>4. At("idle")
  BY SMT, <1>1 DEF PhaseInv
<1>5. TypeOK'
  BY <1>1, <1>2, <1>3 DEF TypeOK, disk
<1>6. DistinctInv'
  BY <1>1 DEF DistinctInv, Injective, disk
<1>7. PhaseInv'
  BY SMT, <1>1, <1>2, <1>4 DEF PhaseInv, At, disk, TypeOK
<1>8. CopyInv'
  BY SMT, <1>1, <1>2 DEF CopyInv, At
<1>9. CacheInv'
  BY SMT, <1>1, <1>2, <1>4 DEF CacheInv, Clean, InLog, AtHome, At, disk
<1>10. OpInv'
  <2>1. Busy' = Busy \ {p} /\ p \in Busy
    BY <1>1 DEF Busy, TypeOK
  <2>2. IsFiniteSet(Busy)
    BY FS_Subset DEF Busy
  <2>3. Cardinality(Busy') = Cardinality(Busy) - 1
    BY <2>1, <2>2, FS_RemoveElement
  <2>4. outstanding = 1 /\ outstanding' = 0 /\ committing'
    BY <1>1
  <2>5. Cardinality(Busy) = 1
    BY <2>4 DEF OpInv
  <2>6. Cardinality(Busy') = 0
    BY SMT, <2>3, <2>5
  <2> QED
    BY <2>4, <2>6 DEF OpInv
<1> QED
  BY <1>5, <1>6, <1>7, <1>8, <1>9, <1>10

\* What Advance(pc) does to the place of the writer.
LEMMA AdvanceType ==
  ASSUME TypeOK, NEW pc \in {"write_head", "clear_head"}, Advance(pc)
  PROVE  /\ writer' \in WriterRec
         /\ Slot < Len(lh) => writer'.pc = writer.pc /\ writer'.tail = Slot
         /\ ~(Slot < Len(lh)) => writer'.pc = pc /\ writer'.tail = 0
<1>1. CASE Slot < Len(lh)
  <2>1. writer' = [writer EXCEPT !.tail = Slot]
    BY <1>1 DEF Advance
  <2>2. writer \in WriterRec /\ Slot \in Nat
    BY SMT DEF TypeOK, WriterRec, Slot
  <2>3. writer' \in WriterRec
    BY <2>1, <2>2 DEF WriterRec
  <2>4. writer'.pc = writer.pc /\ writer'.tail = Slot
    BY <2>1 DEF TypeOK, WriterRec
  <2> QED
    BY <1>1, <2>3, <2>4
<1>2. CASE ~(Slot < Len(lh))
  BY <1>2, IdleType DEF Advance
<1> QED
  BY <1>1, <1>2

\* write_log() copies a block from its pinned buffer to the log.
LEMMA WriteLogStep ==
  ASSUME LogInv, write_log
  PROVE  LogInv'
<1> USE LogAssumption DEF LogInv
<1>1. /\ UNCHANGED <<home, head, pins, lh, outstanding, committing, mode, op>>
      /\ At("write_log") /\ mode = "up" /\ writer.tail \in Nat
      /\ logged' = [logged EXCEPT ![Slot] = bread(lh[Slot])]
      /\ cache' = [cache EXCEPT ![lh[Slot]] = bread(lh[Slot])]
  BY DEF write_log, PhaseInv, At, TypeOK, WriterRec
<1>2. /\ Slot \in DOMAIN lh /\ lh[Slot] \in Block
      /\ Slot \in 1..(nlog - 1)
  BY SMT, <1>1 DEF Slot, PhaseInv, At, TypeOK
<1>3. \A i : ~AtHome(i)
  BY <1>1 DEF AtHome, At
<1>4. bread(lh[Slot]) = cache[lh[Slot]] /\ cache[lh[Slot]] \in Contents
  BY <1>2, <1>3 DEF CacheInv, bread, TypeOK
<1>5. cache' = cache
  BY <1>1, <1>2, <1>4 DEF TypeOK
<1>6. /\ writer' \in WriterRec
      /\ Slot < Len(lh) => writer'.pc = "write_log" /\ writer'.tail = Slot
      /\ ~(Slot < Len(lh)) => writer'.pc = "write_head" /\ writer'.tail = 0
  BY AdvanceType DEF write_log, At
<1>7. TypeOK'
  BY <1>1, <1>2, <1>4, <1>5, <1>6 DEF TypeOK
<1>8. DistinctInv' /\ OpInv'
  BY <1>1 DEF DistinctInv, Injective, OpInv, Busy
<1>9. PhaseInv'
  BY SMT, <1>1, <1>6 DEF PhaseInv, At, TypeOK, Slot
<1>10. CopyInv'
  <2>1. ASSUME NEW i \in 1..Slot PROVE logged'[i] = cache[lh[i]]
    <3>1. logged'[i] = IF i = Slot THEN cache[lh[Slot]] ELSE logged[i]
      BY SMT, <1>1, <1>2, <1>4 DEF TypeOK
    <3>2. i # Slot => i \in 1..writer.tail
      BY SMT, <1>1 DEF Slot
    <3> QED
      BY <1>1, <3>1, <3>2 DEF CopyInv
  <2>2. ~(Slot < Len(lh)) => DOMAIN lh = 1..Slot
    BY SMT, <1>2 DEF TypeOK
  <2> QED
    BY <1>1, <1>5, <1>6, <2>1, <2>2 DEF CopyInv, At
<1>11. CacheInv'
  BY <1>1, <1>3, <1>5, <1>6 DEF CacheInv, Clean, InLog, AtHome, At
<1> QED
  BY <1>7, <1>8, <1>9, <1>10, <1>11

\* write_head() is the moment of the commit.
LEMMA WriteHeadStep ==
  ASSUME LogInv, write_head
  PROVE  LogInv'
<1> USE LogAssumption DEF LogInv
<1>1. /\ UNCHANGED <<home, logged, memory, mode, op>>
      /\ At("write_head") /\ mode = "up" /\ head' = lh
      /\ writer' = [Idle EXCEPT !.pc = "install_trans"]
  BY DEF write_head, PhaseInv, At, TypeOK
<1>2. writer' \in WriterRec /\ writer'.pc = "install_trans" /\ writer'.tail = 0
  BY <1>1, IdleType
<1>3. TypeOK'
  BY <1>1, <1>2 DEF TypeOK, memory
<1>4. DistinctInv' /\ OpInv'
  BY <1>1 DEF DistinctInv, Injective, OpInv, Busy, memory
<1>5. PhaseInv'
  BY SMT, <1>1, <1>2 DEF PhaseInv, At, TypeOK, memory, WriterRec
<1>6. CopyInv'
  BY SMT, <1>1, <1>2 DEF CopyInv, At
<1>7. CacheInv'
  <2>1. \A i \in DOMAIN lh : ~AtHome(i) /\ ~AtHome(i)'
    BY SMT, <1>1, <1>2 DEF AtHome, At, TypeOK
  <2> QED
    BY <1>1, <1>2, <2>1 DEF CacheInv, CopyInv, Clean, InLog, At, memory
<1> QED
  BY <1>3, <1>4, <1>5, <1>6, <1>7

\* install_trans() copies a block from the log to its home, and its buffer is
\* not pinned any more; in recovery none is.
LEMMA InstallStep ==
  ASSUME LogInv, install_trans
  PROVE  LogInv'
<1> USE LogAssumption DEF LogInv
<1> DEFINE b == lh[Slot]
<1>1. /\ UNCHANGED <<logged, head, outstanding, committing, mode, op>>
      /\ At("install_trans") /\ head = lh /\ writer.tail \in Nat
      /\ home' = [home EXCEPT ![b] = logged[Slot]]
      /\ cache' = [cache EXCEPT ![b] = logged[Slot]]
      /\ pins' = Unpinned(b)
      /\ lh' = IF Slot < Len(lh) THEN lh ELSE <<>>
  BY DEF install_trans, PhaseInv, TypeOK, WriterRec
<1>2. /\ Slot \in DOMAIN lh /\ b \in Block
      /\ Slot \in 1..(nlog - 1)
      /\ DOMAIN lh = 1..Len(lh) /\ Len(lh) \in Nat
  BY SMT, <1>1 DEF Slot, PhaseInv, At, TypeOK
<1>3. /\ writer' \in WriterRec
      /\ Slot < Len(lh) => writer'.pc = "install_trans" /\ writer'.tail = Slot
      /\ ~(Slot < Len(lh)) => writer'.pc = "clear_head" /\ writer'.tail = 0
  BY AdvanceType DEF install_trans, At
<1>4. \A i \in DOMAIN lh : lh[i] \in Block /\ (lh[i] = b => i = Slot)
  BY SMT, <1>2 DEF DistinctInv, Injective, TypeOK
<1>5. logged[Slot] \in Contents
  BY <1>2 DEF TypeOK
<1>6. pins[b] = IF mode = "recover" THEN 0 ELSE 1
  BY SMT, <1>1, <1>2 DEF CacheInv, AtHome, Clean, Slot
<1>7. /\ home'[b] = logged[Slot] /\ cache'[b] = logged[Slot] /\ pins'[b] = 0
      /\ pins' \in [Block -> Nat]
  BY SMT, <1>1, <1>2, <1>6 DEF Unpinned, TypeOK
<1>8. \A c \in Block \ {b} :
        home'[c] = home[c] /\ cache'[c] = cache[c] /\ pins'[c] = pins[c]
  BY <1>1, <1>2 DEF Unpinned, TypeOK
<1> HIDE DEF b
<1>9. TypeOK'
  <2>1. home' \in [Block -> Contents] /\ cache' \in [Block -> Contents \cup {Absent}]
    BY <1>1, <1>2, <1>5 DEF TypeOK
  <2>2. lh' \in Seq(Block) /\ Len(lh') < nlog
    BY SMT, <1>1 DEF TypeOK
  <2> QED
    BY <1>1, <1>3, <1>7, <2>1, <2>2 DEF TypeOK
<1>10. DistinctInv'
  BY SMT, <1>1 DEF DistinctInv, Injective
<1>11. OpInv'
  BY <1>1 DEF OpInv, Busy
<1>12. PhaseInv'
  BY <1>1, <1>3 DEF PhaseInv, At, TypeOK
<1>13. CopyInv'
  <2>1. ASSUME NEW i \in 1..Slot PROVE home'[lh[i]] = logged[i]
    <3>1. CASE i = Slot
      BY <1>7, <3>1 DEF b
    <3>2. CASE i # Slot
      <4>1. i \in 1..writer.tail /\ i \in DOMAIN lh
        BY SMT, <1>1, <1>2, <3>2 DEF Slot
      <4> QED
        BY <1>1, <1>4, <1>8, <3>2, <4>1 DEF CopyInv
    <3> QED
      BY <3>1, <3>2
  <2>2. CASE Slot < Len(lh)
    BY <1>1, <1>3, <2>1, <2>2 DEF CopyInv, At
  <2>3. CASE ~(Slot < Len(lh))
    <3>1. DOMAIN lh = 1..Slot
      BY SMT, <1>2, <2>3
    <3> QED
      BY SMT, <1>1, <1>3, <2>1, <2>3, <3>1 DEF CopyInv, At
  <2> QED
    BY <2>2, <2>3
<1>14. CacheInv'
  <2> DEFINE CleanNext(c) == cache'[c] \in {Absent, home'[c]} /\ pins'[c] = 0
  <2>1. CleanNext(b)
    BY <1>7
  <2>2. \A c \in Block : Clean(c) => CleanNext(c)
    BY <1>8, <2>1 DEF Clean
  <2>3. ASSUME NEW i \in DOMAIN lh, i <= Slot \/ mode = "recover"
        PROVE  CleanNext(lh[i])
    <3>1. CASE i = Slot
      BY <2>1, <3>1 DEF b
    <3>2. CASE i # Slot
      <4>1. AtHome(i)
        BY SMT, <1>1, <1>2, <2>3, <3>2 DEF AtHome, Slot
      <4> QED
        BY <1>4, <2>2, <4>1 DEF CacheInv
    <3> QED
      BY <3>1, <3>2
  <2>4. ASSUME NEW i \in DOMAIN lh, i > Slot, mode = "up"
        PROVE  cache'[lh[i]] # Absent /\ pins'[lh[i]] = 1 /\ cache'[lh[i]] = logged[i]
    <3>1. ~AtHome(i)
      BY SMT, <1>1, <1>2, <2>4 DEF AtHome, Slot
    <3>2. lh[i] \in Block \ {b}
      BY SMT, <1>2, <1>4, <2>4
    <3> QED
      BY <1>1, <1>8, <3>1, <3>2 DEF CacheInv
  <2>5. ASSUME NEW c \in Block, ~InLog(c) PROVE CleanNext(c)
    BY <2>2, <2>5 DEF CacheInv
  <2>6. CASE Slot < Len(lh)
    <3>1. lh' = lh /\ \A i \in DOMAIN lh : AtHome(i)' <=> i <= Slot \/ mode = "recover"
      BY <1>1, <1>3, <2>6 DEF AtHome, At
    <3>2. \A i \in DOMAIN lh : mode = "recover" \/ mode = "up"
      BY DEF TypeOK
    <3>3. \A i \in DOMAIN lh : i <= Slot \/ i > Slot
      BY SMT, <1>2
    <3> QED
      BY SMT, <1>1, <2>3, <2>4, <2>5, <3>1, <3>2, <3>3 DEF CacheInv, Clean, InLog
  <2>7. CASE ~(Slot < Len(lh))
    <3>1. \A i \in DOMAIN lh : i <= Slot
      BY SMT, <1>2, <2>7
    <3>2. \A c \in Block : CleanNext(c)
      BY <2>3, <2>5, <3>1 DEF InLog
    <3>3. lh' = <<>>
      BY <1>1, <2>7
    <3> QED
      BY SMT, <3>2, <3>3 DEF CacheInv, Clean
  <2> QED
    BY <2>6, <2>7
<1> QED
  BY <1>9, <1>10, <1>11, <1>12, <1>13, <1>14

\* The header is cleared; after recovery the file system is up.
LEMMA ClearHeadStep ==
  ASSUME LogInv, clear_head
  PROVE  LogInv'
<1> USE LogAssumption DEF LogInv
<1> DEFINE pc == IF mode = "up" THEN "end" ELSE "idle"
<1>1. /\ UNCHANGED <<home, logged, memory, op>>
      /\ At("clear_head") /\ lh = <<>> /\ head' = lh /\ mode' = "up"
      /\ writer' = [Idle EXCEPT !.pc = pc]
  BY DEF clear_head, PhaseInv, At
<1>2. writer' \in WriterRec /\ writer'.pc = pc
  BY <1>1, IdleType
<1>3. TypeOK'
  BY <1>1, <1>2 DEF TypeOK, memory
<1>4. DistinctInv' /\ OpInv'
  BY <1>1 DEF DistinctInv, Injective, OpInv, Busy, memory
<1>5. PhaseInv' /\ CopyInv'
  BY SMT, <1>1, <1>2 DEF PhaseInv, CopyInv, At, memory
<1>6. CacheInv'
  BY SMT, <1>1 DEF CacheInv, Clean, InLog, memory
<1> QED
  BY <1>3, <1>4, <1>5, <1>6

\* The end of end_op() wakes everybody up.
LEMMA EndCommitStep ==
  ASSUME LogInv, end_commit
  PROVE  LogInv'
<1> USE LogAssumption DEF LogInv
<1> DEFINE table == [p \in Proc |-> IF op[p].pc = "commit"
                                   THEN [pc |-> "user", wrote |-> {}] ELSE op[p]]
<1>1. /\ UNCHANGED <<disk, cache, pins, lh, outstanding, mode>>
      /\ At("end") /\ mode = "up" /\ lh = <<>> /\ ~committing'
      /\ writer' = Idle /\ op' = Wakeup(table)
  BY DEF end_commit, PhaseInv, At, TypeOK
<1>2. writer' \in WriterRec /\ writer'.pc = "idle"
  BY <1>1 DEF Idle, WriterRec
<1>3. table \in [Proc -> OpRec] /\ \A p \in Proc : table[p].pc = "op" <=> op[p].pc = "op"
  BY OpType DEF TypeOK
<1> HIDE DEF table
<1>4. TypeOK'
  <2>1. committing' \in BOOLEAN
    BY DEF end_commit
  <2> QED
    BY <1>1, <1>2, <1>3, <2>1, WakeupType DEF TypeOK, disk
<1>5. DistinctInv' /\ PhaseInv' /\ CopyInv'
  BY <1>1, <1>2 DEF DistinctInv, Injective, PhaseInv, CopyInv, At, disk
<1>6. CacheInv'
  BY SMT, <1>1 DEF CacheInv, Clean, InLog, disk
<1>7. OpInv'
  <2>1. \A p \in Proc : op'[p].pc # "sleep" /\ (op'[p].pc = "op" <=> op[p].pc = "op")
    BY <1>1, <1>3, WakeupType
  <2> QED
    BY <1>1, <2>1 DEF OpInv, Busy
<1> QED
  BY <1>4, <1>5, <1>6, <1>7

\* Recovery starts with the header that the crash left.
LEMMA ReadHeadStep ==
  ASSUME LogInv, read_head
  PROVE  LogInv'
<1> USE LogAssumption DEF LogInv
<1> DEFINE pc == IF head = <<>> THEN "clear_head" ELSE "install_trans"
<1>1. /\ UNCHANGED <<disk, cache, pins, outstanding, committing, mode, op>>
      /\ At("read_head") /\ mode = "recover" /\ lh = <<>> /\ lh' = head
      /\ writer' = [Idle EXCEPT !.pc = pc]
  BY DEF read_head, PhaseInv, At, TypeOK
<1>2. writer' \in WriterRec /\ writer'.pc = pc /\ writer'.tail = 0
  BY <1>1, IdleType
<1>3. TypeOK'
  BY <1>1, <1>2 DEF TypeOK, disk
<1>4. DistinctInv' /\ OpInv'
  BY <1>1 DEF DistinctInv, Injective, OpInv, Busy, disk
<1>5. PhaseInv' /\ CopyInv'
  BY SMT, <1>1, <1>2 DEF PhaseInv, CopyInv, At, disk, TypeOK
<1>6. CacheInv'
  <2>1. \A b \in Block : Clean(b)
    BY SMT, <1>1 DEF CacheInv, InLog
  <2>2. \A i : AtHome(i)'
    BY <1>1 DEF AtHome
  <2> QED
    BY SMT, <1>1, <2>1, <2>2 DEF CacheInv, Clean, TypeOK, disk
<1> QED
  BY <1>3, <1>4, <1>5, <1>6

\* A crash loses the memory; a block write that it interrupts is one that
\* recovery does not need or does again.
LEMMA CrashStep ==
  ASSUME LogInv, Crash
  PROVE  LogInv'
<1> USE LogAssumption DEF LogInv
<1>1. /\ UNCHANGED head
      /\ cache' = [b \in Block |-> Absent] /\ pins' = [b \in Block |-> 0]
      /\ lh' = <<>> /\ outstanding' = 0 /\ committing' = FALSE
      /\ mode' = "recover" /\ writer' = [Idle EXCEPT !.pc = "read_head"]
      /\ op' = [p \in Proc |-> [pc |-> "user", wrote |-> {}]]
  BY DEF Crash
<1>2. writer' \in WriterRec /\ writer'.pc = "read_head"
  BY <1>1, IdleType
<1>3. op' \in [Proc -> OpRec] /\ \A p \in Proc : op'[p].pc = "user"
  BY <1>1, OpType
<1>4. home' \in [Block -> Contents] /\ logged' \in [1..(nlog - 1) -> Contents]
  BY DEF Crash, TypeOK, Contents
<1>5. TypeOK'
  <2>1. lh' \in Seq(Block) /\ Len(lh') < nlog
    BY SMT, <1>1
  <2>2. cache' \in [Block -> Contents \cup {Absent}] /\ pins' \in [Block -> Nat]
    BY <1>1
  <2> QED
    BY <1>1, <1>2, <1>3, <1>4, <2>1, <2>2 DEF TypeOK
<1>6. DistinctInv' /\ PhaseInv' /\ CopyInv'
  BY SMT, <1>1, <1>2, <1>3 DEF DistinctInv, Injective, PhaseInv, CopyInv, At
<1>7. CacheInv'
  BY SMT, <1>1 DEF CacheInv, Clean
<1>8. OpInv'
  <2>1. Busy' = {}
    BY <1>3 DEF Busy
  <2> QED
    BY <1>1, <1>3, <2>1, FS_EmptySet DEF OpInv
<1> QED
  BY <1>5, <1>6, <1>7, <1>8

-----------------------------------------------------------------------------
\* Every step preserves the invariant.
LEMMA NextInv == LogInv /\ [Next]_vars => LogInv'
<1> SUFFICES ASSUME LogInv, [Next]_vars PROVE LogInv'
  OBVIOUS
<1>1. CASE Commit
  BY <1>1, WriteLogStep, WriteHeadStep, InstallStep, ClearHeadStep, EndCommitStep,
     ReadHeadStep DEF Commit
<1>2. CASE Crash
  BY <1>2, CrashStep
<1>3. CASE \E b \in Block : Read(b) \/ Recycle(b)
  BY <1>3, CacheStep
<1>4. CASE \E p \in Proc : FsCall(p) \/ Operation(p)
  BY <1>4, CallStep, BeginStep, WriteStep, EndStep, EndLastStep DEF Operation
<1>5. CASE UNCHANGED vars
  BY ZenonT(60), <1>5 DEF vars, disk, memory, LogInv, TypeOK, DistinctInv, Injective, PhaseInv,
              CopyInv, CacheInv, Clean, InLog, AtHome, At, OpInv, Busy
<1> QED
  BY <1>1, <1>2, <1>3, <1>4, <1>5 DEF Next

\* The invariant holds in every state of every behaviour of the log.
THEOREM Invariance == Spec => []LogInv
  BY InitInv, NextInv, PTL DEF Spec

\* With no operation active and no commit under way everything is at home, no
\* buffer is pinned and nobody sleeps in begin_op() for ever.
THEOREM QuiescentClean == Spec => []QuiescentIsClean
<1>1. LogInv => QuiescentIsClean
  BY SMT DEF LogInv, QuiescentIsClean, PhaseInv, CacheInv, Clean, InLog, OpInv, At
<1> QED
  BY <1>1, Invariance, PTL

-----------------------------------------------------------------------------
(* The log implements the atomic disk.                                     *)

\* What recovery leaves in a block with a place in the header, and without.
LEMMA RecoveredValue ==
  ASSUME LogInv
  PROVE  /\ \A i \in DOMAIN head : Recovered[head[i]] = logged[i]
         /\ \A b \in Block : (\A i \in DOMAIN head : head[i] # b) => Recovered[b] = home[b]
<1> USE DEF LogInv
<1>1. ASSUME NEW i \in DOMAIN head PROVE Recovered[head[i]] = logged[i]
  <2>1. head[i] \in Block
    BY SMT DEF TypeOK
  <2>2. (CHOOSE j \in DOMAIN head : head[j] = head[i]) = i
    BY DEF DistinctInv, Injective
  <2> QED
    BY <2>1, <2>2 DEF Recovered
<1> QED
  BY <1>1 DEF Recovered

\* With an empty header recovery changes nothing.
LEMMA RecoveredHome ==
  ASSUME LogInv, head = <<>>
  PROVE  Recovered = [b \in Block |-> home[b]]
  BY SMT DEF Recovered

\* Steps of the buffer cache are invisible.
LEMMA CacheRefines ==
  ASSUME LogInv, NEW b \in Block, Read(b) \/ Recycle(b)
  PROVE  UNCHANGED Abstract!vars
<1> USE DEF LogInv
<1>1. UNCHANGED <<disk, mode, op, lh>> /\ mode = "up"
  BY DEF Read, Recycle
<1>2. Recovered' = Recovered /\ Busy' = Busy
  BY <1>1 DEF Recovered, Busy, disk
<1>3. Clean(b)
  <2>1. ASSUME NEW i \in DOMAIN lh, ~AtHome(i) PROVE lh[i] # b
    BY SMT, <2>1 DEF CacheInv, TypeOK, Read, Recycle
  <2> QED
    BY <2>1 DEF CacheInv, InLog
<1>4. ASSUME NEW c \in Block PROVE bread(c)' = bread(c)
  BY <1>1, <1>3 DEF bread, Clean, Read, Recycle, TypeOK, disk
<1>5. Current' = Current
  BY <1>1, <1>4 DEF Current
<1> QED
  BY <1>2, <1>5 DEF Abstract!vars

\* Steps that leave the disk, the buffers and the mode alone.
LEMMA SameContents ==
  ASSUME UNCHANGED <<disk, cache, mode>>
  PROVE  Recovered' = Recovered /\ Current' = Current
  BY DEF disk, Recovered, Current, bread

LEMMA CallRefines ==
  ASSUME LogInv, NEW p \in Proc, FsCall(p) \/ begin_op_sleep(p)
  PROVE  UNCHANGED Abstract!vars
<1>1. PICK pc \in {"begin_op", "sleep"} :
        op' = [op EXCEPT ![p] = [pc |-> pc, wrote |-> {}]]
  BY DEF FsCall, begin_op_sleep, Goto
<1>2. op[p].pc # "op"
  BY DEF FsCall, begin_op_sleep
<1>3. Busy' = Busy
  BY <1>1, <1>2 DEF Busy, LogInv, TypeOK
<1> QED
  BY <1>3, SameContents DEF FsCall, begin_op_sleep, memory, disk, Abstract!vars

\* An operation that is the first one to begin finds everything durable.
LEMMA BeginRefines ==
  ASSUME LogInv, NEW p \in Proc, begin_op(p)
  PROVE  Abstract!Begin(p)
<1> USE LogAssumption DEF LogInv
<1>1. p \notin Busy /\ Busy' = Busy \cup {p}
  BY DEF begin_op, Goto, Busy, TypeOK
<1>2. Recovered' = Recovered /\ Current' = Current
  BY SameContents DEF begin_op, disk
<1>3. ASSUME Busy = {} PROVE Recovered = Current
  <2>1. outstanding = 0
    BY <1>3, FS_EmptySet DEF OpInv
  <2>2. mode = "up" /\ head = <<>> /\ lh = <<>>
    BY <2>1 DEF begin_op, PhaseInv, At
  <2>3. \A b \in Block : bread(b) = home[b]
    BY SMT, <2>2 DEF CacheInv, InLog, Clean, bread
  <2> QED
    BY <2>2, <2>3, RecoveredHome DEF Current
<1> QED
  BY <1>1, <1>2, <1>3 DEF Abstract!Begin

LEMMA WriteRefines ==
  ASSUME LogInv, NEW p \in Proc, NEW b \in Block, NEW v \in Value,
         log_write(p, b, v)
  PROVE  Abstract!Write(p, b, v)
<1> USE LogAssumption DEF LogInv
<1>1. \A q \in Proc : op'[q].pc = op[q].pc
  BY DEF log_write, TypeOK, OpRec
<1>2. p \in Busy /\ Busy' = Busy
  BY <1>1 DEF Busy, log_write
<1>3. Recovered' = Recovered
  BY DEF log_write, Recovered, disk
<1>4. \A c \in Block : bread(c)' = IF c = b THEN v ELSE bread(c)
  BY DEF log_write, bread, TypeOK, disk
<1>5. Current' = [Current EXCEPT ![b] = v]
  BY <1>4 DEF Current, log_write
<1> QED
  BY <1>2, <1>3, <1>5 DEF Abstract!Write

LEMMA EndRefines ==
  ASSUME LogInv, NEW p \in Proc, end_op(p) \/ end_op_last(p)
  PROVE  Abstract!End(p)
<1> USE LogAssumption DEF LogInv
<1> DEFINE left == [op EXCEPT ![p] = [pc |-> "user", wrote |-> {}]]
<1>1. left \in [Proc -> OpRec]
  BY OpType DEF TypeOK
<1>2. ASSUME NEW q \in Proc PROVE op'[q].pc = "op" <=> q # p /\ op[q].pc = "op"
  <2>1. CASE end_op(p)
    BY <1>1, <2>1, WakeupType DEF end_op, TypeOK
  <2>2. CASE end_op_last(p)
    BY <2>2 DEF end_op_last, Goto, TypeOK
  <2> QED
    BY <2>1, <2>2
<1>3. p \in Busy /\ Busy' = Busy \ {p}
  BY <1>2 DEF Busy, end_op, end_op_last
<1>4. Recovered' = Recovered /\ Current' = Current
  BY SameContents DEF end_op, end_op_last, disk
<1> QED
  BY <1>3, <1>4 DEF Abstract!End

\* Copying to the log is invisible as long as the header is empty.
LEMMA WriteLogRefines ==
  ASSUME LogInv, write_log
  PROVE  UNCHANGED Abstract!vars
<1> USE LogAssumption DEF LogInv
<1>1. UNCHANGED <<home, head, mode, op>> /\ mode = "up" /\ head = <<>>
  BY DEF write_log, PhaseInv, At, TypeOK
<1>2. Recovered' = Recovered
  BY SMT, <1>1 DEF Recovered
<1>3. lh[Slot] \in Block
  BY SMT DEF write_log, PhaseInv, At, TypeOK, Slot, WriterRec
<1>4. ASSUME NEW c \in Block PROVE bread(c)' = bread(c)
  BY <1>1, <1>3 DEF write_log, bread, TypeOK
<1>5. Current' = Current /\ Busy' = Busy
  BY <1>1, <1>4 DEF Current, Busy
<1> QED
  BY <1>2, <1>5 DEF Abstract!vars

\* The write of the header makes durable what operations have written.
LEMMA WriteHeadRefines ==
  ASSUME LogInv, write_head
  PROVE  Abstract!Commit
<1> USE LogAssumption DEF LogInv
<1>1. /\ UNCHANGED <<home, logged, cache, mode, op>>
      /\ At("write_head") /\ mode = "up" /\ head' = lh /\ outstanding = 0
  BY DEF write_head, PhaseInv, At, TypeOK, memory
<1>2. Busy = {} /\ Busy' = Busy
  <2>1. IsFiniteSet(Busy)
    BY FS_Subset DEF Busy
  <2> QED
    BY <1>1, <2>1, FS_EmptySet DEF OpInv, Busy
<1>3. Current' = Current /\ Current = [b \in Block |-> bread(b)]
  BY <1>1 DEF Current, bread
<1>4. ASSUME NEW b \in Block PROVE Recovered'[b] = bread(b)
  <2>1. CASE InLog(b)
    <3>1. PICK i \in DOMAIN lh : lh[i] = b
      BY <2>1 DEF InLog
    <3>2. Recovered'[b] = logged[i]
      <4>1. (CHOOSE j \in DOMAIN lh : lh[j] = b) = i
        BY <3>1 DEF DistinctInv, Injective
      <4> QED
        BY <1>1, <3>1, <4>1 DEF Recovered
    <3>3. logged[i] = cache[b] /\ cache[b] # Absent
      BY <1>1, <3>1 DEF CopyInv, CacheInv, AtHome, At
    <3> QED
      BY <1>1, <3>1, <3>2, <3>3 DEF bread
  <2>2. CASE ~InLog(b)
    BY <1>1, <2>2 DEF InLog, Recovered, bread, CacheInv, Clean
  <2> QED
    BY <2>1, <2>2
<1>5. Recovered' = Current
  BY <1>3, <1>4 DEF Recovered
<1> QED
  BY <1>2, <1>3, <1>5 DEF Abstract!Commit

\* Installing a block is invisible: it is in the header, and its buffer has the
\* same contents.
LEMMA InstallRefines ==
  ASSUME LogInv, install_trans
  PROVE  UNCHANGED Abstract!vars
<1> USE LogAssumption DEF LogInv
<1> DEFINE b == lh[Slot]
<1>1. /\ UNCHANGED <<logged, head, mode, op>> /\ head = lh
      /\ home' = [home EXCEPT ![b] = logged[Slot]]
      /\ cache' = [cache EXCEPT ![b] = logged[Slot]]
  BY DEF install_trans, PhaseInv
<1>2. Slot \in DOMAIN lh /\ b \in Block /\ writer.tail \in Nat
  BY SMT DEF install_trans, Slot, PhaseInv, At, TypeOK, WriterRec
<1>3. Recovered' = Recovered
  <2>1. \A c \in Block : c # b => home'[c] = home[c]
    BY <1>1, <1>2 DEF TypeOK
  <2>2. \A c \in Block : (\A i \in DOMAIN head : head[i] # c) => c # b
    BY <1>1, <1>2
  <2> QED
    BY SMT, <1>1, <2>1, <2>2 DEF Recovered
<1>4. ASSUME mode = "up", NEW c \in Block PROVE bread(c)' = bread(c)
  <2>1. CASE c = b
    <3>1. ~AtHome(Slot)
      BY SMT, <1>2, <1>4 DEF AtHome, Slot
    <3>2. cache[b] # Absent /\ cache[b] = logged[Slot]
      BY <1>2, <3>1 DEF CacheInv, install_trans
    <3> QED
      BY <1>1, <1>2, <2>1, <3>2 DEF bread, TypeOK
  <2>2. CASE c # b
    BY <1>1, <1>2, <2>2 DEF bread, TypeOK
  <2> QED
    BY <2>1, <2>2
<1>5. Current' = Current /\ Busy' = Busy
  BY <1>1, <1>3, <1>4 DEF Current, Busy, TypeOK
<1> QED
  BY <1>3, <1>5 DEF Abstract!vars

\* Clearing the header is invisible: its blocks are at home.
LEMMA ClearHeadRefines ==
  ASSUME LogInv, clear_head
  PROVE  UNCHANGED Abstract!vars
<1> USE LogAssumption DEF LogInv
<1>1. /\ UNCHANGED <<home, logged, cache, op>> /\ mode' = "up"
      /\ At("clear_head") /\ lh = <<>> /\ head' = <<>>
  BY DEF clear_head, PhaseInv, At, memory
<1>2. Busy' = Busy
  BY <1>1 DEF Busy
<1>3. ASSUME NEW b \in Block PROVE Recovered[b] = home[b]
  <2>1. \A i \in DOMAIN head : home[head[i]] = logged[i]
    BY <1>1 DEF CopyInv
  <2>2. \A i \in DOMAIN head : Recovered[head[i]] = home[head[i]]
    BY SMT, <2>1, RecoveredValue
  <2>3. CASE \E i \in DOMAIN head : head[i] = b
    BY <2>2, <2>3
  <2>4. CASE \A i \in DOMAIN head : head[i] # b
    BY <2>4, RecoveredValue
  <2> QED
    BY <2>3, <2>4
<1>4. Recovered' = [b \in Block |-> home[b]]
  BY SMT, <1>1 DEF Recovered
<1>5. \A b \in Block : bread(b) = home[b] /\ bread(b)' = home[b]
  BY SMT, <1>1 DEF CacheInv, Clean, InLog, bread
<1>6. Recovered = [b \in Block |-> home[b]]
  BY <1>3 DEF Recovered
<1>7. Current = [b \in Block |-> home[b]] /\ Current' = [b \in Block |-> home[b]]
  BY <1>1, <1>5, <1>6 DEF Current
<1> QED
  BY <1>2, <1>4, <1>6, <1>7 DEF Abstract!vars

LEMMA EndCommitRefines ==
  ASSUME LogInv, end_commit
  PROVE  UNCHANGED Abstract!vars
<1> USE LogAssumption DEF LogInv
<1> DEFINE table == [p \in Proc |-> IF op[p].pc = "commit"
                                   THEN [pc |-> "user", wrote |-> {}] ELSE op[p]]
<1>1. table \in [Proc -> OpRec] /\ \A p \in Proc : table[p].pc = "op" <=> op[p].pc = "op"
  BY OpType DEF TypeOK
<1>2. op' = Wakeup(table)
  BY DEF end_commit
<1> HIDE DEF table
<1>3. Busy' = Busy
  BY <1>1, <1>2, WakeupType DEF Busy
<1> QED
  BY <1>3, SameContents DEF end_commit, disk, Abstract!vars

LEMMA ReadHeadRefines ==
  ASSUME LogInv, read_head
  PROVE  UNCHANGED Abstract!vars
<1>1. Busy' = Busy
  BY DEF read_head, Busy
<1> QED
  BY <1>1, SameContents DEF read_head, disk, Abstract!vars

\* A crash leaves what is durable, also when it tears a block.
LEMMA CrashRefines ==
  ASSUME LogInv, Crash
  PROVE  Abstract!Crash
<1> USE LogAssumption DEF LogInv
<1>1. Busy' = {} /\ mode' = "recover" /\ head' = head
  BY DEF Crash, Busy
<1>2. ASSUME NEW b \in Block PROVE Recovered'[b] = Recovered[b]
  <2>1. CASE \E i \in DOMAIN head : head[i] = b
    <3>1. ~At("write_log")
      BY SMT, <2>1 DEF PhaseInv, At
    <3>2. logged' = logged
      BY <3>1 DEF Crash
    <3> QED
      BY <1>1, <2>1, <3>2 DEF Recovered
  <2>2. CASE ~ \E i \in DOMAIN head : head[i] = b
    <3>1. home'[b] = home[b]
      <4>1. At("install_trans") => lh[Slot] # b /\ lh[Slot] \in Block
        BY SMT, <2>2 DEF PhaseInv, At, Slot, TypeOK, WriterRec
      <4> QED
        BY <4>1 DEF Crash, TypeOK
    <3> QED
      BY <1>1, <2>2, <3>1 DEF Recovered
  <2> QED
    BY <2>1, <2>2
<1>3. Recovered' = Recovered
  BY <1>2 DEF Recovered
<1>4. Current' = Recovered
  BY <1>1, <1>3 DEF Current
<1> QED
  BY <1>1, <1>3, <1>4 DEF Abstract!Crash

\* Every step of the log is a step of the atomic disk or invisible to it.
LEMMA StepRefines == LogInv /\ [Next]_vars => [Abstract!Next]_(Abstract!vars)
<1> SUFFICES ASSUME LogInv, [Next]_vars PROVE Abstract!Next \/ UNCHANGED Abstract!vars
  OBVIOUS
<1>1. CASE Commit
  BY <1>1, WriteLogRefines, WriteHeadRefines, InstallRefines, ClearHeadRefines,
     EndCommitRefines, ReadHeadRefines DEF Commit, Abstract!Next
<1>2. CASE Crash
  BY <1>2, CrashRefines DEF Abstract!Next
<1>3. CASE \E b \in Block : Read(b) \/ Recycle(b)
  BY <1>3, CacheRefines
<1>4. CASE \E p \in Proc : FsCall(p) \/ Operation(p)
  BY <1>4, CallRefines, BeginRefines, WriteRefines, EndRefines
  DEF Operation, Abstract!Next
<1>5. CASE UNCHANGED vars
  BY <1>5, SameContents DEF vars, disk, memory, Busy, Abstract!vars
<1> QED
  BY <1>1, <1>2, <1>3, <1>4, <1>5 DEF Next

\* The log implements the atomic disk: whatever steps of commit() and of the
\* recovery a crash separates, what survives are the contents of a moment at
\* which no operation was active.
THEOREM LogIsAtomic == Spec => AtomicDiskSpec
<1>1. Init => Abstract!Init
  <2> SUFFICES ASSUME Init PROVE Abstract!Init
    OBVIOUS
  <2>1. Recovered = [b \in Block |-> home[b]]
    BY SMT DEF Init, Recovered
  <2>2. Current = Recovered /\ Busy = {}
    BY DEF Init, Current, Busy
  <2> QED
    BY <2>1, <2>2 DEF Init, Abstract!Init
<1> QED
  BY <1>1, Invariance, StepRefines, PTL DEF Spec, AtomicDiskSpec, Abstract!Spec

\* Blocks are never torn: neither what recovery would leave, nor what
\* operations read.
THEOREM NeverTorn ==
  Spec => [](Recovered \in [Block -> Value] /\ Current \in [Block -> Value])
<1> DEFINE Whole == Recovered \in [Block -> Value] /\ Current \in [Block -> Value]
<1>1. Init => Whole
  <2> SUFFICES ASSUME Init PROVE Whole
    OBVIOUS
  <2>1. Recovered = [b \in Block |-> home[b]] /\ Current = Recovered
    BY SMT DEF Init, Recovered, Current
  <2> QED
    BY <2>1 DEF Init
<1>2. Whole /\ [Abstract!Next]_(Abstract!vars) => Whole'
  BY DEF Abstract!Next, Abstract!vars, Abstract!Commit, Abstract!Crash,
         Abstract!Begin, Abstract!End, Abstract!Write
<1> QED
  BY <1>1, <1>2, Invariance, StepRefines, PTL DEF Spec

-----------------------------------------------------------------------------
(* The space that begin_op() reserves.                                     *)

\* The pairs of an active operation and a block that it has written.
Written == {e \in Proc \X Block : e[2] \in op[e[1]].wrote}

\* The most blocks that the log can have: one operation alone, or the blocks
\* that leave room for two operations, all of which are then written.
MostBlocks ==
  LET shared == LOGSIZE - 2 * (MAXOPBLOCKS - OpBlocks)
  IN  IF shared > OpBlocks THEN shared ELSE OpBlocks

\* Every active operation can still write its blocks.
ReserveInv ==
  /\ \A p \in Proc :
       /\ IsFiniteSet(op[p].wrote) /\ Cardinality(op[p].wrote) <= OpBlocks
       /\ op[p].pc # "op" => op[p].wrote = {}
       /\ \A b \in op[p].wrote : InLog(b)
  /\ outstanding > 0 =>
       Len(lh) + outstanding * OpBlocks <= MostBlocks + Cardinality(Written)

\* A set of at most n elements can be numbered with 1..n.
LEMMA Numbering ==
  ASSUME NEW S, IsFiniteSet(S), NEW n \in Nat, Cardinality(S) <= n
  PROVE  \E f \in [S -> 1..n] : \A a, b \in S : f[a] = f[b] => a = b
<1>1. Cardinality(S) \in Nat /\ ExistsBijection(1..Cardinality(S), S)
  BY FS_CardinalityType
<1>2. ExistsBijection(S, 1..Cardinality(S))
  BY <1>1, Fun_ExistsBijSymmetric
<1>3. PICK f \in [S -> 1..Cardinality(S)] : \A a, b \in S : f[a] = f[b] => a = b
  BY <1>2 DEF ExistsBijection, Bijection, Injection, IsInjective
<1>4. 1..Cardinality(S) \subseteq 1..n
  BY SMT, <1>1
<1>5. f \in [S -> 1..n]
  BY <1>3, <1>4
<1> QED
  BY <1>3, <1>5

\* The active operations have written at most OpBlocks blocks each.
LEMMA WrittenBound ==
  ASSUME LogInv, ReserveInv
  PROVE  /\ IsFiniteSet(Written)
         /\ Cardinality(Written) \in Nat
         /\ Cardinality(Written) <= outstanding * OpBlocks
<1> USE LogAssumption
<1> DEFINE Numbers(p) == {f \in [op[p].wrote -> 1..OpBlocks] :
                            \A a, b \in op[p].wrote : f[a] = f[b] => a = b}
           number == [p \in Proc |-> CHOOSE f \in Numbers(p) : TRUE]
           place == [e \in Written |-> <<e[1], number[e[1]][e[2]]>>]
<1>1. \A p \in Proc : number[p] \in Numbers(p)
  <2>1. ASSUME NEW p \in Proc PROVE Numbers(p) # {}
    BY SMT, Numbering DEF ReserveInv
  <2> QED
    BY <2>1
<1> HIDE DEF number
<1>2. place \in Injection(Written, Busy \X (1..OpBlocks))
  <2>1. ASSUME NEW e \in Written
        PROVE  /\ e = <<e[1], e[2]>> /\ e[1] \in Proc /\ e[1] \in Busy
               /\ e[2] \in op[e[1]].wrote
               /\ number[e[1]][e[2]] \in 1..OpBlocks
    BY SMT, <1>1 DEF Written, ReserveInv, Busy
  <2>2. place \in [Written -> Busy \X (1..OpBlocks)]
    BY <2>1
  <2>3. ASSUME NEW e \in Written, NEW d \in Written, place[e] = place[d] PROVE e = d
    <3>1. e[1] = d[1] /\ number[e[1]][e[2]] = number[d[1]][d[2]]
      BY <2>3
    <3> HIDE DEF place
    <3>2. /\ e[2] \in op[e[1]].wrote /\ d[2] \in op[e[1]].wrote
          /\ number[e[1]] \in Numbers(e[1])
      BY <1>1, <2>1, <3>1
    <3>3. e[2] = d[2]
      BY <3>1, <3>2
    <3>4. e = <<e[1], e[2]>> /\ d = <<d[1], d[2]>>
      BY <2>1
    <3> QED
      BY <3>1, <3>3, <3>4, Zenon
  <2> QED
    BY <2>2, <2>3 DEF Injection, IsInjective
<1> HIDE DEF place
<1>3. IsFiniteSet(Busy) /\ Cardinality(Busy) = outstanding
  BY FS_Subset DEF Busy, LogInv, OpInv
<1>4. IsFiniteSet(1..OpBlocks) /\ Cardinality(1..OpBlocks) = OpBlocks
  BY SMT, FS_Interval
<1>5. /\ IsFiniteSet(Busy \X (1..OpBlocks))
      /\ Cardinality(Busy \X (1..OpBlocks)) = outstanding * OpBlocks
  BY <1>3, <1>4, FS_Product
<1>6. IsFiniteSet(Written) /\ Cardinality(Written) <= outstanding * OpBlocks
  BY SMT, <1>2, <1>5, FS_Injection
<1> QED
  BY <1>6, FS_CardinalityType

\* Without an active operation nothing is reserved.
LEMMA NothingReserved ==
  ASSUME LogInv, ReserveInv, outstanding = 0
  PROVE  \A p \in Proc : op[p].wrote = {}
<1>1. IsFiniteSet(Busy) /\ Cardinality(Busy) = 0
  BY LogAssumption, FS_Subset DEF Busy, LogInv, OpInv
<1>2. Busy = {}
  BY <1>1, FS_EmptySet
<1> QED
  BY <1>2 DEF Busy, ReserveInv

\* A step that leaves what is reserved as it is.
LEMMA ReserveSame ==
  ASSUME ReserveInv, TypeOK, lh' = lh, outstanding' = outstanding,
         \A p \in Proc : /\ op'[p].wrote = op[p].wrote
                         /\ op'[p].pc = op[p].pc \/ op[p].wrote = {}
  PROVE  ReserveInv'
<1>1. Written' = Written
  BY DEF Written
<1> QED
  BY <1>1 DEF ReserveInv, InLog

LEMMA ReserveIdle ==
  ASSUME outstanding' = 0, \A p \in Proc : op'[p].wrote = {}
  PROVE  ReserveInv'
  BY SMTT(40), LogAssumption, FS_EmptySet DEF ReserveInv

\* begin_op() lets an operation in if it can write MAXOPBLOCKS blocks even if
\* the others do.
LEMMA BeginReserves ==
  ASSUME LogInv, ReserveInv, NEW p \in Proc, begin_op(p)
  PROVE  ReserveInv'
<1> USE LogAssumption DEF LogInv
<1>1. /\ lh' = lh /\ outstanding' = outstanding + 1 /\ op[p].pc = "begin_op"
      /\ op' = [op EXCEPT ![p] = [pc |-> "op", wrote |-> {}]]
      /\ Len(lh) + (outstanding + 1) * MAXOPBLOCKS <= LOGSIZE
      /\ outstanding \in Nat /\ Len(lh) \in Nat
  BY SMT DEF begin_op, Goto, LogFull, TypeOK
<1>2. \A q \in Proc : op'[q].wrote = op[q].wrote /\ (q # p => op'[q] = op[q])
  BY <1>1 DEF ReserveInv, TypeOK
<1>3. Written' = Written
  BY <1>2 DEF Written
<1>4. Cardinality(Written) \in Nat
  BY WrittenBound
<1>5. Len(lh) + (outstanding + 1) * OpBlocks <= MostBlocks
  <2>1. CASE outstanding = 0
    <3>1. lh = <<>>
      BY <2>1 DEF begin_op, PhaseInv, At
    <3> QED
      BY SMT, <2>1, <3>1 DEF MostBlocks
  <2>2. CASE outstanding > 0
    <3> DEFINE d == MAXOPBLOCKS - OpBlocks
    <3>1. d \in Nat /\ MAXOPBLOCKS = OpBlocks + d
      BY SMT
    <3> HIDE DEF d
    <3>2. (outstanding + 1) * MAXOPBLOCKS
            = (outstanding + 1) * OpBlocks + 2 * d + (outstanding - 1) * d
      BY SMT, <1>1, <3>1
    <3>3. (outstanding - 1) * d >= 0
      BY SMT, <1>1, <2>2, <3>1
    <3>4. Len(lh) + (outstanding + 1) * OpBlocks <= LOGSIZE - 2 * d
      BY SMT, <1>1, <3>1, <3>2, <3>3
    <3> QED
      BY SMT, <1>1, <3>1, <3>4 DEF MostBlocks, d
  <2> QED
    BY SMT, <1>1, <2>1, <2>2
<1>6. \A q \in Proc : op'[q].pc # "op" => op'[q].wrote = {}
  BY <1>1, <1>2 DEF ReserveInv, TypeOK
<1> QED
  BY SMTT(40), <1>1, <1>2, <1>3, <1>4, <1>5, <1>6 DEF ReserveInv, InLog, MostBlocks

\* A block that is not in the log yet takes one of the operation's places; an
\* absorbed one takes none.
LEMMA WriteReserves ==
  ASSUME LogInv, ReserveInv, NEW p \in Proc, NEW b \in Block, NEW v \in Value,
         log_write(p, b, v)
  PROVE  ReserveInv'
<1> USE LogAssumption DEF LogInv
<1> DEFINE wrote == op[p].wrote \cup {b}
<1>1. /\ outstanding' = outstanding /\ outstanding \in Nat
      /\ lh' = IF InLog(b) THEN lh ELSE Append(lh, b)
      /\ lh \in Seq(Block) /\ Cardinality(wrote) <= OpBlocks
      /\ op[p].pc = "op"
  BY DEF log_write, TypeOK
<1>2. \A q \in Proc : op'[q].pc = op[q].pc
                      /\ op'[q].wrote = IF q = p THEN wrote ELSE op[q].wrote
  BY SMT DEF log_write, TypeOK
<1>3. Written' = Written \cup {<<p, b>>}
  <2>1. Written' = {e \in Proc \X Block : e[2] \in IF e[1] = p THEN wrote ELSE op[e[1]].wrote}
    BY <1>2 DEF Written
  <2> QED
    BY SMT, <2>1 DEF Written
<1>4. \A c : InLog(c) \/ c = b => InLog(c)'
  <2>1. CASE InLog(b)
    BY <1>1, <2>1 DEF InLog
  <2>2. CASE ~InLog(b)
    <3>1. /\ lh' = Append(lh, b) /\ Len(lh) \in Nat
          /\ DOMAIN lh' = 1..(Len(lh) + 1) /\ DOMAIN lh = 1..Len(lh)
          /\ lh'[Len(lh) + 1] = b /\ \A i \in 1..Len(lh) : lh'[i] = lh[i]
      BY SMT, <1>1, <2>2
    <3> QED
      BY SMT, <3>1 DEF InLog
  <2> QED
    BY <2>1, <2>2
<1>5. /\ IsFiniteSet(Written) /\ Cardinality(Written) \in Nat
      /\ IsFiniteSet(Written') /\ Cardinality(Written') \in Nat
      /\ Cardinality(Written) <= Cardinality(Written')
      /\ <<p, b>> \notin Written => Cardinality(Written') = Cardinality(Written) + 1
  <2>1. IsFiniteSet(Written) /\ Cardinality(Written) \in Nat
    BY WrittenBound
  <2>2. /\ IsFiniteSet(Written \cup {<<p, b>>})
        /\ Cardinality(Written \cup {<<p, b>>})
             = IF <<p, b>> \in Written THEN Cardinality(Written) ELSE Cardinality(Written) + 1
    BY <2>1, FS_AddElement, Zenon
  <2>3. /\ IsFiniteSet(Written')
        /\ Cardinality(Written')
             = IF <<p, b>> \in Written THEN Cardinality(Written) ELSE Cardinality(Written) + 1
    BY <1>3, <2>2, Zenon
  <2> QED
    BY SMT, <2>1, <2>3
<1>6. Len(lh') = Len(lh) \/ (Len(lh') = Len(lh) + 1 /\ <<p, b>> \notin Written)
  <2>1. <<p, b>> \in Written => InLog(b)
    BY DEF Written, ReserveInv
  <2> QED
    BY SMT, <1>1, <2>1
<1>7. IsFiniteSet(wrote)
  BY FS_AddElement DEF ReserveInv
<1>8. outstanding' > 0 =>
        Len(lh') + outstanding' * OpBlocks <= MostBlocks + Cardinality(Written')
  <2> DEFINE room == outstanding * OpBlocks
  <2>1. /\ room \in Nat /\ MostBlocks \in Int /\ Len(lh) \in Nat
        /\ outstanding > 0 => Len(lh) + room <= MostBlocks + Cardinality(Written)
    BY SMT, <1>1 DEF ReserveInv, MostBlocks
  <2>2. outstanding' * OpBlocks = room
    BY <1>1
  <2>3. /\ Cardinality(Written) \in Nat /\ Cardinality(Written') \in Nat
        /\ \/ /\ Len(lh') = Len(lh) /\ Cardinality(Written) <= Cardinality(Written')
           \/ /\ Len(lh') = Len(lh) + 1 /\ Cardinality(Written') = Cardinality(Written) + 1
    BY <1>5, <1>6, Zenon
  <2>4. outstanding' > 0 => outstanding > 0
    BY <1>1
  <2> DEFINE n == Len(lh)
             n1 == Len(lh')
             most == MostBlocks
             w == Cardinality(Written)
             w1 == Cardinality(Written')
  <2>5. outstanding > 0 => n1 + room <= most + w1
    <3>1. /\ room \in Nat /\ most \in Int /\ n \in Nat /\ w \in Nat /\ w1 \in Nat
          /\ outstanding > 0 => n + room <= most + w
          /\ \/ n1 = n /\ w <= w1
             \/ n1 = n + 1 /\ w1 = w + 1
      BY <2>1, <2>3
    <3> HIDE DEF n, n1, most, w, w1, room
    <3> QED
      BY SMT, <3>1
  <2> QED
    BY <2>2, <2>4, <2>5
<1>9. ASSUME NEW q \in Proc
      PROVE  /\ IsFiniteSet(op'[q].wrote) /\ Cardinality(op'[q].wrote) <= OpBlocks
             /\ op'[q].pc # "op" => op'[q].wrote = {}
             /\ \A c \in op'[q].wrote : InLog(c)'
  BY <1>1, <1>2, <1>4, <1>7 DEF ReserveInv
<1> QED
  BY <1>8, <1>9 DEF ReserveInv, MostBlocks

\* end_op() gives back the places that the operation has not used.
LEMMA EndReserves ==
  ASSUME LogInv, ReserveInv, NEW p \in Proc, end_op(p)
  PROVE  ReserveInv'
<1> USE LogAssumption DEF LogInv
<1> DEFINE mine == {p} \X op[p].wrote
<1>1. /\ outstanding' = outstanding - 1 /\ outstanding \in Nat /\ outstanding > 1
      /\ lh' = lh /\ Len(lh) \in Nat
  BY SMT DEF end_op, TypeOK
<1>2. \A q \in Proc : /\ op'[q].wrote = IF q = p THEN {} ELSE op[q].wrote
                      /\ op'[q].pc = op[q].pc \/ op'[q].wrote = {}
  <2>1. DEFINE table == [op EXCEPT ![p] = [pc |-> "user", wrote |-> {}]]
  <2>2. \A q \in Proc : op'[q] = IF table[q].pc = "sleep"
                                 THEN [table[q] EXCEPT !.pc = "begin_op"] ELSE table[q]
    BY DEF end_op, Wakeup
  <2>3. table[p] = [pc |-> "user", wrote |-> {}] /\ \A q \in Proc \ {p} : table[q] = op[q]
    BY DEF TypeOK
  <2>4. \A q \in Proc : op[q] \in OpRec
    BY DEF TypeOK
  <2> HIDE DEF table
  <2>5. op'[p] = [pc |-> "user", wrote |-> {}]
    <3>1. table[p].pc # "sleep"
      BY SMT, <2>3
    <3> QED
      BY <2>2, <2>3, <3>1, Zenon
  <2>6. ASSUME NEW q \in Proc \ {p}
        PROVE  /\ op'[q].wrote = op[q].wrote
               /\ op'[q].pc = op[q].pc \/ op'[q].wrote = {}
    <3>1. CASE op[q].pc = "sleep"
      <4>1. op'[q] = [op[q] EXCEPT !.pc = "begin_op"] /\ op[q].wrote = {}
        BY <2>2, <2>3, <3>1 DEF ReserveInv
      <4> QED
        BY <2>4, <4>1 DEF OpRec
    <3>2. CASE op[q].pc # "sleep"
      BY <2>2, <2>3, <3>2
    <3> QED
      BY <3>1, <3>2
  <2> QED
    BY SMT, <2>5, <2>6
<1>3. Written' = Written \ mine
  <2>1. Written' = {e \in Proc \X Block : e[2] \in IF e[1] = p THEN {} ELSE op[e[1]].wrote}
    BY <1>2 DEF Written
  <2> QED
    BY <2>1 DEF Written
<1>4. mine \subseteq Written
  BY DEF Written, TypeOK, OpRec
<1>5. IsFiniteSet(mine) /\ Cardinality(mine) <= OpBlocks /\ Cardinality(mine) \in Nat
  <2>1. IsFiniteSet({p}) /\ Cardinality({p}) = 1
    BY FS_Singleton
  <2>2. /\ IsFiniteSet(op[p].wrote) /\ Cardinality(op[p].wrote) <= OpBlocks
        /\ Cardinality(op[p].wrote) \in Nat
    BY FS_CardinalityType DEF ReserveInv
  <2>3. IsFiniteSet(mine) /\ Cardinality(mine) = 1 * Cardinality(op[p].wrote)
    BY <2>1, <2>2, FS_Product
  <2> QED
    BY SMT, <2>2, <2>3
<1>6. IsFiniteSet(Written) /\ Cardinality(Written) \in Nat
  BY WrittenBound
<1>7. Cardinality(Written') = Cardinality(Written) - Cardinality(mine)
  <2> HIDE DEF mine
  <2>1. Written \cap mine = mine
    BY <1>4
  <2>2. Cardinality(Written \ mine) = Cardinality(Written) - Cardinality(Written \cap mine)
    BY <1>6, FS_Difference, Zenon
  <2> QED
    BY <1>3, <2>1, <2>2, Zenon
<1>8. Len(lh') + outstanding' * OpBlocks <= MostBlocks + Cardinality(Written')
  <2>1. outstanding' * OpBlocks = outstanding * OpBlocks - OpBlocks
    BY SMT, <1>1
  <2>2. MostBlocks \in Int /\ outstanding * OpBlocks \in Nat
    BY SMT, <1>1 DEF MostBlocks
  <2>3. Len(lh) + outstanding * OpBlocks <= MostBlocks + Cardinality(Written)
    BY SMT, <1>1 DEF ReserveInv
  <2> DEFINE n == Len(lh)
             room == outstanding * OpBlocks
             most == MostBlocks
             w == Cardinality(Written)
             m == Cardinality(mine)
  <2>4. n + (room - OpBlocks) <= most + (w - m)
    <3>1. /\ n \in Nat /\ room \in Nat /\ most \in Int /\ w \in Nat
          /\ m \in Nat /\ m <= OpBlocks /\ n + room <= most + w
      BY <1>1, <1>5, <1>6, <2>2, <2>3
    <3> HIDE DEF n, room, most, w, m
    <3> QED
      BY SMT, <3>1
  <2>5. Len(lh') = n
    BY <1>1
  <2> QED
    BY <1>7, <2>1, <2>4, <2>5
<1>9. ASSUME NEW q \in Proc
      PROVE  /\ IsFiniteSet(op'[q].wrote) /\ Cardinality(op'[q].wrote) <= OpBlocks
             /\ op'[q].pc # "op" => op'[q].wrote = {}
             /\ \A c \in op'[q].wrote : InLog(c)'
  BY SMT, <1>1, <1>2, FS_EmptySet DEF ReserveInv, InLog
<1> QED
  BY <1>8, <1>9 DEF ReserveInv, MostBlocks

LEMMA NextReserves ==
  ASSUME LogInv, ReserveInv, [Next]_vars
  PROVE  ReserveInv'
<1> USE LogAssumption DEF LogInv
<1>1. ASSUME NEW p \in Proc, FsCall(p) \/ begin_op_sleep(p) PROVE ReserveInv'
  <2>1. PICK pc \in {"begin_op", "sleep"} : op' = [op EXCEPT ![p] = [pc |-> pc, wrote |-> {}]]
    BY <1>1 DEF FsCall, begin_op_sleep, Goto
  <2>2. op[p].wrote = {} /\ lh' = lh /\ outstanding' = outstanding
    BY <1>1 DEF FsCall, begin_op_sleep, ReserveInv, memory
  <2> QED
    BY <2>1, <2>2, ReserveSame DEF TypeOK
<1>2. ASSUME NEW b \in Block, Read(b) \/ Recycle(b) PROVE ReserveInv'
  <2>1. lh' = lh /\ outstanding' = outstanding /\ op' = op
    BY <1>2 DEF Read, Recycle
  <2> QED
    BY <2>1, ReserveSame
<1>3. CASE Commit
  <2>1. outstanding = 0 /\ outstanding' = 0
    BY <1>3 DEF Commit, write_log, write_head, install_trans, clear_head,
                end_commit, read_head, PhaseInv, At, memory
  <2>2. \A p \in Proc : op[p].wrote = {} /\ op[p] \in OpRec
    BY <2>1, NothingReserved DEF TypeOK
  <2>3. CASE op' = op
    BY <2>1, <2>2, <2>3, ReserveIdle
  <2>4. CASE end_commit
    <3> DEFINE table == [p \in Proc |-> IF op[p].pc = "commit"
                                       THEN [pc |-> "user", wrote |-> {}] ELSE op[p]]
    <3>1. \A p \in Proc : table[p] \in OpRec /\ table[p].wrote = {}
      BY <2>2 DEF OpRec
    <3>2. op' = Wakeup(table)
      BY <2>4 DEF end_commit
    <3> HIDE DEF table
    <3>3. ASSUME NEW p \in Proc PROVE op'[p].wrote = {}
      <4>1. op'[p] = table[p] \/ op'[p] = [table[p] EXCEPT !.pc = "begin_op"]
        BY <3>2 DEF Wakeup
      <4> QED
        BY <3>1, <4>1 DEF OpRec
    <3> QED
      BY <2>1, <3>3, ReserveIdle
  <2> QED
    BY <1>3, <2>3, <2>4 DEF Commit, write_log, write_head, install_trans,
                            clear_head, read_head
<1>4. ASSUME NEW p \in Proc, end_op_last(p) PROVE ReserveInv'
  <2>1. IsFiniteSet(Busy) /\ Cardinality(Busy) = 1
    BY <1>4, FS_Subset DEF Busy, OpInv, end_op_last
  <2>2. Busy = {p}
    <3>1. \E q : Busy = {q}
      BY <2>1, FS_Singleton
    <3> QED
      BY <1>4, <3>1 DEF Busy, end_op_last
  <2>3. \A q \in Proc : op'[q].wrote = {}
    BY <1>4, <2>2 DEF end_op_last, Goto, Busy, ReserveInv, TypeOK
  <2> QED
    BY <1>4, <2>3, ReserveIdle DEF end_op_last
<1>5. CASE Crash
  BY <1>5, ReserveIdle DEF Crash
<1>6. CASE UNCHANGED vars
  BY <1>6, ReserveSame DEF vars, memory
<1> QED
  BY <1>1, <1>2, <1>3, <1>4, <1>5, <1>6, BeginReserves, WriteReserves, EndReserves
     DEF Next, Operation

\* Whenever an operation is active it finds room in the log and its header,
\* so that log_write() does not panic: for any number of processes and any
\* sizes, as long as an operation writes fewer blocks than begin_op() counts
\* for it, the header in memory has room for more than one such operation,
\* and the log on disk is as long as the header allows (param.h and mkfs have
\* MAXOPBLOCKS = 10, LOGSIZE = 30 and nlog = LOGSIZE).
THEOREM ReservationIsEnough ==
  ASSUME OpBlocks < MAXOPBLOCKS, MAXOPBLOCKS < LOGSIZE, LOGSIZE <= nlog
  PROVE  Spec => []ReservationSuffices
<1>1. Init => ReserveInv
  <2> SUFFICES ASSUME Init PROVE ReserveInv
    OBVIOUS
  <2>1. outstanding = 0 /\ \A p \in Proc : op[p].wrote = {}
    BY DEF Init
  <2> QED
    BY SMT, <2>1, LogAssumption, FS_EmptySet DEF ReserveInv
<1>2. LogInv /\ ReserveInv /\ [Next]_vars => ReserveInv'
  BY NextReserves
<1>3. LogInv /\ ReserveInv => ReservationSuffices
  <2> SUFFICES ASSUME LogInv, ReserveInv, Busy # {} PROVE ~TooBig
    BY DEF ReservationSuffices
  <2>1. outstanding > 0 /\ outstanding \in Nat
    <3>1. IsFiniteSet(Busy) /\ Cardinality(Busy) = outstanding
      BY LogAssumption, FS_Subset DEF Busy, LogInv, OpInv
    <3>2. Cardinality(Busy) \in Nat /\ Cardinality(Busy) # 0
      BY <3>1, FS_CardinalityType, FS_EmptySet
    <3> QED
      BY SMT, <3>1, <3>2
  <2>2. /\ Cardinality(Written) \in Nat
        /\ Cardinality(Written) <= outstanding * OpBlocks
    BY WrittenBound
  <2>3. Len(lh) + outstanding * OpBlocks <= MostBlocks + Cardinality(Written)
    BY <2>1 DEF ReserveInv
  <2>4. Len(lh) \in Nat /\ MostBlocks \in Int /\ outstanding * OpBlocks \in Nat
    BY SMT, <2>1, LogAssumption DEF LogInv, TypeOK, MostBlocks
  <2>5. Len(lh) <= MostBlocks
    <3> DEFINE n == Len(lh)
               room == outstanding * OpBlocks
               most == MostBlocks
               w == Cardinality(Written)
    <3>1. /\ n \in Nat /\ room \in Nat /\ most \in Int /\ w \in Nat
          /\ w <= room /\ n + room <= most + w
      BY <2>2, <2>3, <2>4
    <3>2. n <= most
      <4> HIDE DEF n, room, most, w
      <4> QED
        BY SMT, <3>1
    <3> QED
      BY <3>2
  <2>6. MostBlocks <= LOGSIZE - 2
    BY SMT, LogAssumption DEF MostBlocks
  <2> QED
    BY SMT, <2>4, <2>5, <2>6, LogAssumption DEF TooBig
<1> QED
  BY <1>1, <1>2, <1>3, Invariance, PTL DEF Spec
=============================================================================
