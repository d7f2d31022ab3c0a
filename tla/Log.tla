-------------------------------- MODULE Log --------------------------------
(***************************************************************************)
(* The file system log (log.c) on top of the buffer cache (bio.c) and the  *)
(* disk: operations bracketed by begin_op() and end_op(), log_write(),     *)
(* the group commit of the last end_op(), and the recovery at boot.        *)
(*                                                                         *)
(* Every block write is a step of its own, and the machine may crash       *)
(* before, after and in the middle of each.  Of the cache the contents and *)
(* the pins of home blocks are modelled: a buffer that nobody refers to    *)
(* may be recycled at any time.  Log blocks and the header are only ever   *)
(* written through, so their buffers agree with the disk.                  *)
(***************************************************************************)
EXTENDS Integers, Sequences, FiniteSets

CONSTANTS
  Block,        \* home block numbers
  Value,        \* contents of a block
  Torn,         \* contents of a block whose write a crash interrupted
  Absent,       \* in place of the contents: the block has no buffer
  Proc,         \* processes that perform file system operations
  MAXOPBLOCKS,  \* blocks that begin_op() reserves (param.h: 10)
  LOGSIZE,      \* blocks in the in-memory header (param.h: MAXOPBLOCKS * 3)
  nlog,         \* blocks of the log on disk, with its header (mkfs: LOGSIZE)
  OpBlocks      \* distinct blocks that an operation really writes at most

ASSUME LogAssumption ==
  /\ MAXOPBLOCKS \in Nat /\ LOGSIZE \in Nat /\ nlog \in Nat \ {0}
  /\ MAXOPBLOCKS <= LOGSIZE
  /\ OpBlocks \in 0..MAXOPBLOCKS
  /\ IsFiniteSet(Proc)
  /\ Torn \notin Value /\ Absent \notin Value \cup {Torn}

VARIABLES
  home,         \* disk: the home blocks
  logged,       \* disk: the blocks of the log
  head,         \* disk: the header of the log, a sequence of block numbers
  cache,        \* buffers of home blocks
  pins,         \* pins[b]: bpin() minus bunpin() calls for b
  lh,           \* log.lh, the header in memory
  outstanding,  \* log.outstanding
  committing,   \* log.committing
  mode,         \* "recover" in initlog(), then "up"
  writer,       \* where commit() or recover_from_log() is
  op            \* op[p]: where process p is, and the blocks it has written

disk == <<home, logged, head>>
memory == <<cache, pins, lh, outstanding, committing>>
vars == <<disk, memory, mode, writer, op>>

Contents == Value \cup {Torn}

Idle == [pc |-> "idle", tail |-> 0]

WriterRec ==
  [pc: {"idle", "read_head", "write_log", "write_head", "install_trans",
        "clear_head", "end"},
   tail: Nat]

OpRec == [pc: {"user", "begin_op", "sleep", "op", "commit"}, wrote: SUBSET Block]

\* The variables hold values of their types.
TypeOK ==
  /\ home \in [Block -> Contents]
  /\ logged \in [1..(nlog - 1) -> Contents]
  /\ head \in Seq(Block) /\ Len(head) < nlog
  /\ cache \in [Block -> Contents \cup {Absent}]
  /\ pins \in [Block -> Nat]
  /\ lh \in Seq(Block) /\ Len(lh) < nlog
  /\ outstanding \in Nat
  /\ committing \in BOOLEAN
  /\ mode \in {"recover", "up"}
  /\ writer \in WriterRec
  /\ op \in [Proc -> OpRec]

\* A booting machine with a file system that mkfs has made.
Init ==
  /\ home \in [Block -> Value]
  /\ logged = [i \in 1..(nlog - 1) |-> Torn]
  /\ head = <<>>
  /\ cache = [b \in Block |-> Absent]
  /\ pins = [b \in Block |-> 0]
  /\ lh = <<>>
  /\ outstanding = 0
  /\ committing = FALSE
  /\ mode = "recover"
  /\ writer = [Idle EXCEPT !.pc = "read_head"]
  /\ op = [p \in Proc |-> [pc |-> "user", wrote |-> {}]]

Goto(p, pc) == op' = [op EXCEPT ![p] = [pc |-> pc, wrote |-> {}]]

\* wakeup(&log)
Wakeup(table) ==
  [p \in Proc |-> IF table[p].pc = "sleep"
                  THEN [table[p] EXCEPT !.pc = "begin_op"] ELSE table[p]]

-----------------------------------------------------------------------------
(* The buffer cache                                                        *)

\* What bread(b) returns.
bread(b) == IF cache[b] = Absent THEN home[b] ELSE cache[b]

\* A process reads b, outside of operations as well ...
Read(b) ==
  /\ mode = "up"
  /\ cache[b] = Absent
  /\ cache' = [cache EXCEPT ![b] = home[b]]
  /\ UNCHANGED <<disk, pins, lh, outstanding, committing, mode, writer, op>>

\* Mutant: bget() does not look at refcnt.
Recycle_pinned(b) ==
  /\ mode = "up"
  /\ cache[b] # Absent
  /\ cache' = [cache EXCEPT ![b] = Absent]
  /\ UNCHANGED <<disk, pins, lh, outstanding, committing, mode, writer, op>>

\* ... and the buffer of b is recycled by bget() for another block.
Recycle(b) ==
  /\ mode = "up"
  /\ cache[b] # Absent
  /\ pins[b] = 0
  /\ cache' = [cache EXCEPT ![b] = Absent]
  /\ UNCHANGED <<disk, pins, lh, outstanding, committing, mode, writer, op>>

-----------------------------------------------------------------------------
(* Operations                                                              *)

FsCall(p) ==
  /\ mode = "up"
  /\ op[p].pc = "user"
  /\ Goto(p, "begin_op")
  /\ UNCHANGED <<disk, memory, mode, writer>>

\* Mutant: the space of the operation that begins is not reserved.
LogFull_others == Len(lh) + outstanding * MAXOPBLOCKS > LOGSIZE

\* The log might run out of space if every operation wrote MAXOPBLOCKS.
LogFull == Len(lh) + (outstanding + 1) * MAXOPBLOCKS > LOGSIZE

begin_op(p) ==
  /\ mode = "up"
  /\ op[p].pc = "begin_op"
  /\ ~committing /\ ~LogFull
  /\ outstanding' = outstanding + 1
  /\ Goto(p, "op")
  /\ UNCHANGED <<disk, cache, pins, lh, committing, mode, writer>>

begin_op_sleep(p) ==
  /\ mode = "up"
  /\ op[p].pc = "begin_op"
  /\ committing \/ LogFull
  /\ Goto(p, "sleep")
  /\ UNCHANGED <<disk, memory, mode, writer>>

\* log_write() would panic.
TooBig == Len(lh) >= LOGSIZE \/ Len(lh) >= nlog - 1

InLog(b) == \E i \in DOMAIN lh : lh[i] = b

\* Mutant: the buffer is pinned by every log_write(), absorbed or not.
Pinned_again(b) == [pins EXCEPT ![b] = @ + 1]

\* bpin() once for each block of the transaction
Pinned(b) == IF InLog(b) THEN pins ELSE [pins EXCEPT ![b] = @ + 1]

\* The operation of p changes block b in its buffer and calls log_write().
log_write(p, b, v) ==
  /\ mode = "up"
  /\ op[p].pc = "op"
  /\ Cardinality(op[p].wrote \cup {b}) <= OpBlocks
  /\ ~TooBig
  /\ cache' = [cache EXCEPT ![b] = v]
  /\ lh' = IF InLog(b) THEN lh ELSE Append(lh, b)
  /\ pins' = Pinned(b)
  /\ op' = [op EXCEPT ![p].wrote = @ \cup {b}]
  /\ UNCHANGED <<disk, outstanding, committing, mode, writer>>

\* Others are still active: somebody may fit into the log now.
end_op(p) ==
  /\ mode = "up"
  /\ op[p].pc = "op"
  /\ outstanding > 1
  /\ outstanding' = outstanding - 1
  /\ op' = Wakeup([op EXCEPT ![p] = [pc |-> "user", wrote |-> {}]])
  /\ UNCHANGED <<disk, cache, pins, lh, committing, mode, writer>>

\* The last one commits.
end_op_last(p) ==
  /\ mode = "up"
  /\ op[p].pc = "op"
  /\ outstanding = 1
  /\ outstanding' = 0
  /\ committing' = TRUE
  /\ writer' = [Idle EXCEPT !.pc = IF lh = <<>> THEN "end" ELSE "write_log"]
  /\ Goto(p, "commit")
  /\ UNCHANGED <<disk, cache, pins, lh, mode>>

-----------------------------------------------------------------------------
(* commit() and recover_from_log()                                         *)

At(pc) == writer.pc = pc

\* The next block of the loops over log.lh, and what follows the last one.
Slot == writer.tail + 1

Advance(pc) ==
  writer' = IF Slot < Len(lh) THEN [writer EXCEPT !.tail = Slot]
            ELSE [Idle EXCEPT !.pc = pc]

write_log ==
  /\ At("write_log")
  /\ logged' = [logged EXCEPT ![Slot] = bread(lh[Slot])]
  /\ cache' = [cache EXCEPT ![lh[Slot]] = bread(lh[Slot])]
  /\ Advance("write_head")
  /\ UNCHANGED <<home, head, pins, lh, outstanding, committing, mode, op>>

write_head ==
  /\ At("write_head")
  /\ head' = lh
  /\ writer' = [Idle EXCEPT !.pc = "install_trans"]
  /\ UNCHANGED <<home, logged, memory, mode, op>>

\* bunpin(); nothing is pinned when the log is recovered.
Unpinned(b) == IF mode = "recover" THEN pins ELSE [pins EXCEPT ![b] = @ - 1]

\* A block is copied from the log to its home; after the last one log.lh.n is
\* set to 0.
install_trans ==
  LET b == lh[Slot] IN
  /\ At("install_trans")
  /\ home' = [home EXCEPT ![b] = logged[Slot]]
  /\ cache' = [cache EXCEPT ![b] = logged[Slot]]
  /\ pins' = Unpinned(b)
  /\ lh' = IF Slot < Len(lh) THEN lh ELSE <<>>
  /\ Advance("clear_head")
  /\ UNCHANGED <<logged, head, outstanding, committing, mode, op>>

clear_head ==
  /\ At("clear_head")
  /\ head' = lh
  /\ writer' = [Idle EXCEPT !.pc = IF mode = "up" THEN "end" ELSE "idle"]
  /\ mode' = "up"
  /\ UNCHANGED <<home, logged, memory, op>>

\* The end of end_op(), after commit()
end_commit ==
  /\ At("end")
  /\ committing' = FALSE
  /\ writer' = Idle
  /\ op' = Wakeup([p \in Proc |-> IF op[p].pc = "commit"
                                  THEN [pc |-> "user", wrote |-> {}]
                                  ELSE op[p]])
  /\ UNCHANGED <<disk, cache, pins, lh, outstanding, mode>>

read_head ==
  /\ At("read_head")
  /\ lh' = head
  /\ writer' = [Idle EXCEPT !.pc = IF head = <<>> THEN "clear_head"
                                   ELSE "install_trans"]
  /\ UNCHANGED <<disk, cache, pins, outstanding, committing, mode, op>>

\* The machine stops, possibly in the middle of a block write (the header
\* fits in one sector, which disks write entirely or not at all), and boots.
Crash ==
  /\ logged' \in {logged} \cup
       IF At("write_log") THEN {[logged EXCEPT ![Slot] = Torn]} ELSE {}
  /\ home' \in {home} \cup
       IF At("install_trans") THEN {[home EXCEPT ![lh[Slot]] = Torn]} ELSE {}
  /\ cache' = [b \in Block |-> Absent]
  /\ pins' = [b \in Block |-> 0]
  /\ lh' = <<>>
  /\ outstanding' = 0
  /\ committing' = FALSE
  /\ mode' = "recover"
  /\ writer' = [Idle EXCEPT !.pc = "read_head"]
  /\ op' = [p \in Proc |-> [pc |-> "user", wrote |-> {}]]
  /\ UNCHANGED head

-----------------------------------------------------------------------------
Commit ==
  \/ write_log \/ write_head \/ install_trans \/ clear_head \/ end_commit
  \/ read_head

Operation(p) ==
  \/ begin_op(p) \/ begin_op_sleep(p) \/ end_op(p) \/ end_op_last(p)
  \/ \E b \in Block, v \in Value : log_write(p, b, v)

Next ==
  \/ Commit \/ Crash
  \/ \E b \in Block : Read(b) \/ Recycle(b)
  \/ \E p \in Proc : FsCall(p) \/ Operation(p)

Spec == Init /\ [][Next]_vars

-----------------------------------------------------------------------------
(* Properties                                                              *)

\* The contents that recovery would leave: the log, if it is committed, over
\* the home blocks.
Recovered ==
  [b \in Block |-> IF \E i \in DOMAIN head : head[i] = b
                   THEN logged[CHOOSE i \in DOMAIN head : head[i] = b]
                   ELSE home[b]]

\* What operations read, and will read once the log is recovered.
Current == IF mode = "recover" THEN Recovered ELSE [b \in Block |-> bread(b)]

Busy == {p \in Proc : op[p].pc = "op"}

\* The log implements the atomic disk: a crash at any point, also in the
\* middle of a commit or of a recovery, leaves the contents of a moment when
\* no operation was active, and what operations read is what was written.
Abstract ==
  INSTANCE AtomicDisk WITH
    stable <- Recovered, current <- Current, busy <- Busy

AtomicDiskSpec == Abstract!Spec

\* What begin_op() reserves is enough: an active operation never finds the
\* log full (log_write() does not panic with "too big a transaction").
ReservationSuffices == Busy # {} => ~TooBig

\* When no operation is active and no commit under way, everything is at
\* home on disk, no buffer is left pinned, and nobody sleeps in begin_op():
\* who sleeps has somebody who will call wakeup(&log) (and the variables
\* always hold values of their types: the log never has more blocks than
\* its header).
QuiescentIsClean ==
  /\ TypeOK
  /\ mode = "up" /\ outstanding = 0 /\ ~committing =>
    /\ \A b \in Block : cache[b] \in {Absent, home[b]} /\ pins[b] = 0
    /\ head = <<>> /\ lh = <<>>
    /\ \A p \in Proc : op[p].pc # "sleep"
=============================================================================
