-------------------------------- MODULE Bio --------------------------------
(***************************************************************************)
(* The buffer cache (bio.c) with the sleep locks of its buffers            *)
(* (sleeplock.c), on top of the disk driver.                               *)
(*                                                                         *)
(* A step is a critical section of bcache.lock or of the spin lock inside  *)
(* a sleep lock.  A process uses one buffer at a time: bread(), any number *)
(* of bwrite()s, brelse().  (Buffers that stay in the cache with unwritten *)
(* changes, by bpin(), are the subject of module Log.)                     *)
(***************************************************************************)
EXTENDS VirtioDisk, Functions

VARIABLE lru    \* the buffers from bcache.head.next, most recently used first

bioVars == <<vars, lru>>

BufRec ==
  [blockno: Block \cup {None}, valid: BOOLEAN, disk: BOOLEAN, refcnt: Nat,
   lock: Proc \cup {None}, data: Value \cup {None}]

ProcRec == [pc: Pc, b: 0..NBUF, write: BOOLEAN, id: Desc]

\* The variables hold values of their types.
TypeOK ==
  /\ DriverTypeOK
  /\ buf \in [Buf -> BufRec]
  /\ proc \in [Proc -> ProcRec]
  /\ lru \in [Buf -> Buf] /\ Range(lru) = Buf

\* binit() puts each buffer in front of the ones before it.
Init ==
  /\ DriverInit
  /\ buf = [i \in Buf |-> [blockno |-> None, valid |-> FALSE, disk |-> FALSE,
                           refcnt |-> 0, lock |-> None, data |-> None]]
  /\ proc = [p \in Proc |-> [pc |-> "user", b |-> 0, write |-> FALSE, id |-> 0]]
  /\ lru = [i \in Buf |-> NBUF + 1 - i]

-----------------------------------------------------------------------------
\* Mutant: a buffer that nobody refers to is not found.
Caches_referenced(i, bn) == buf[i].blockno = bn /\ buf[i].refcnt > 0

Caches(i, bn) == buf[i].blockno = bn

\* p has a reference to buffer i and will lock it.
Refer(p, i) == proc' = [proc EXCEPT ![p].pc = "acquiresleep", ![p].b = i]

\* bget() finds the block in the cache.
bget(p, bn) ==
  /\ At(p, "user")
  /\ \E i \in Buf :
       /\ Caches(i, bn)
       /\ buf' = [buf EXCEPT ![i].refcnt = @ + 1]
       /\ Refer(p, i)
  /\ UNCHANGED <<driver, lru>>

\* Mutant: valid is not reset.
Recycled_valid(r, bn) == [r EXCEPT !.blockno = bn, !.refcnt = 1]

Recycled(r, bn) == [r EXCEPT !.blockno = bn, !.refcnt = 1, !.valid = FALSE]

\* bget() recycles the least recently used buffer without references.
bget_recycle(p, bn) ==
  /\ At(p, "user")
  /\ \A i \in Buf : ~Caches(i, bn)
  /\ \E k \in DOMAIN lru :
       /\ buf[lru[k]].refcnt = 0
       /\ \A j \in DOMAIN lru : j > k => buf[lru[j]].refcnt > 0
       /\ buf' = [buf EXCEPT ![lru[k]] = Recycled(@, bn)]
       /\ Refer(p, lru[k])
  /\ UNCHANGED <<driver, lru>>

\* acquiresleep() gets the lock, and bread() tests whether to read the block;
\* or it sleeps.
acquiresleep(p) ==
  /\ At(p, "acquiresleep")
  /\ LET i == proc[p].b IN
       \/ /\ buf[i].lock = None
          /\ buf' = [buf EXCEPT ![i].lock = p]
          /\ proc' = [proc EXCEPT ![p].pc = IF buf[i].valid THEN "use" ELSE "alloc",
                                  ![p].write = FALSE]
       \/ /\ buf[i].lock # None
          /\ proc' = Goto(p, "sleep_lock")
          /\ UNCHANGED buf
  /\ UNCHANGED <<driver, lru>>

\* The process changes its buffer and calls bwrite().
bwrite(p, v) ==
  /\ At(p, "use") /\ p \in Writer
  /\ buf' = [buf EXCEPT ![proc[p].b].data = v]
  /\ proc' = [proc EXCEPT ![p].pc = "alloc", ![p].write = TRUE]
  /\ UNCHANGED <<driver, lru>>

\* The processes when releasesleep() has woken the sleepers on buffer i.
Released(i) == Wakeup(proc, "sleep_lock", {i}, "acquiresleep")

\* releasesleep() in brelse().
brelse(p) ==
  /\ At(p, "use")
  /\ LET i == proc[p].b IN
       /\ buf' = [buf EXCEPT ![i].lock = None]
       /\ proc' = [Released(i) EXCEPT ![p].pc = "brelse"]
  /\ UNCHANGED <<driver, lru>>

\* Buffer i is unlinked, and linked again after the head of the list.
MostRecent(i) ==
  LET at == CHOOSE k \in Buf : lru[k] = i
  IN  [k \in Buf |-> IF k = 1 THEN i ELSE IF k <= at THEN lru[k - 1] ELSE lru[k]]

\* The rest of brelse(): the last user moves the buffer to the front.
brelse_end(p) ==
  /\ At(p, "brelse")
  /\ LET i == proc[p].b IN
       /\ buf' = [buf EXCEPT ![i].refcnt = @ - 1]
       /\ lru' = IF buf[i].refcnt = 1 THEN MostRecent(i) ELSE lru
  /\ proc' = [proc EXCEPT ![p] = [pc |-> "user", b |-> 0, write |-> FALSE, id |-> 0]]
  /\ UNCHANGED driver

Next ==
  \/ (Device \/ Interrupt) /\ UNCHANGED lru
  \/ \E p \in Proc :
       \/ virtio_disk_rw(p) /\ UNCHANGED lru
       \/ \E bn \in Uses[p] : bget(p, bn) \/ bget_recycle(p, bn)
       \/ acquiresleep(p)
       \/ \E v \in Value : bwrite(p, v)
       \/ brelse(p) \/ brelse_end(p)

Spec == Init /\ [][Next]_bioVars

-----------------------------------------------------------------------------
(* Properties. *)

\* No block is ever cached twice, so that two processes cannot change two
\* copies of it (bget() looks and recycles under one bcache.lock).
OneBuffer ==
  \A i, j \in Buf : buf[i].blockno = buf[j].blockno => i = j \/ buf[i].blockno = None

\* A buffer has as many references as there are processes between bget() and
\* the end of brelse() with it, and it is locked by the process that uses it:
\* it is not recycled under anybody, and never lost to the cache.
RefcntExact ==
  \A i \in Buf :
    /\ buf[i].refcnt = Cardinality({p \in Proc : proc[p].b = i})
    /\ \A p \in Proc : buf[i].lock = p <=>
         /\ proc[p].b = i
         /\ proc[p].pc \in {"use", "alloc", "sleep_free", "sleep_disk", "done"}

\* What keeps the cache coherent: one buffer per block, exact references.
BuffersExact == TypeOK /\ OneBuffer /\ RefcntExact

\* The requests under way.
Pending == {p \in Proc : proc[p].pc \in {"sleep_disk", "done"}}

\* A descriptor is free or in the chain of exactly one request under way: none
\* is given out twice, none is leaked, and "free_desc 2" does not happen.
DescExact ==
  /\ \A p \in Pending : LET r == info[proc[p].id] IN
       /\ r.b = proc[p].b /\ Cardinality(Chain(r)) = 3
       /\ Chain(r) \cap free = {}
       /\ \A q \in Pending \ {p} : Chain(r) \cap Chain(info[proc[q].id]) = {}
  /\ Cardinality(free) + 3 * Cardinality(Pending) = NUM

\* Whoever sleeps will be woken: for the disk, its request is with the device
\* or in the used ring, and then an interrupt is due or being handled; for
\* descriptors, somebody has some to free; for a buffer, somebody has locked
\* it.
SleepersAwaited ==
  /\ used # <<>> => irq \/ intr
  /\ \A p \in Proc :
       /\ At(p, "sleep_disk") => /\ buf[proc[p].b].disk
                                 /\ proc[p].id \in avail \cup Range(used)
       /\ At(p, "sleep_free") => Pending # {}
       /\ At(p, "sleep_lock") => buf[proc[p].b].lock # None

\* The contents of a block: those of its buffer when it has been read, or
\* those on the disk.
store ==
  [bn \in Block |->
     IF \E i \in Buf : Caches(i, bn) /\ buf[i].valid
     THEN buf[CHOOSE i \in Buf : Caches(i, bn) /\ buf[i].valid].data
     ELSE media[bn]]

\* The process between the return of bread() and brelse().
holder ==
  [bn \in Block |->
     LET ps == {p \in Proc : /\ proc[p].b # 0 /\ buf[proc[p].b].blockno = bn
                             /\ \/ At(p, "use")
                                \/ /\ proc[p].write
                                   /\ proc[p].pc \in {"alloc", "sleep_free",
                                                      "sleep_disk", "done"}}
     IN  IF ps = {} THEN None ELSE CHOOSE p \in ps : TRUE]

Abstract == INSTANCE BlockStore

\* To its users the cache is the disk with a lock on every block, whatever is
\* recycled and in whatever order the device answers.
BlockStoreSpec == Abstract!Spec
=============================================================================
