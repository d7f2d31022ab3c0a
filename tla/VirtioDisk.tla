----------------------------- MODULE VirtioDisk -----------------------------
(***************************************************************************)
(* The driver of the disk (virtio_disk.c) and the device: requests made of *)
(* three descriptors each, their completion by the device in any order,    *)
(* and the interrupt handler.                                              *)
(*                                                                         *)
(* A step of the driver is the stretch of virtio_disk_rw() between two     *)
(* calls of sleep().  The interrupt handler is one step per entry of the   *)
(* used ring, since the device goes on while it runs; vdisk_lock is held   *)
(* meanwhile.  The rings are a set and a queue: the device may complete    *)
(* what is in the avail ring in any order, and neither ring can hold more  *)
(* entries than there are descriptors.                                     *)
(***************************************************************************)
EXTENDS Naturals, Sequences, FiniteSets

CONSTANTS
  Proc,       \* processes
  Uses,       \* Uses[p]: the blocks that process p reads
  Writer,     \* the processes that also write them
  Block,      \* block numbers
  Value,      \* contents of a block
  Image,      \* the contents of the disk when the system boots (fs.img)
  NBUF,       \* buffers (param.h: 30)
  Nums,       \* numbers of descriptors the device may have (virtio.h: 8)
  None        \* no process, no block

\* A process holds one buffer at a time, so that with as many buffers as
\* processes bget() does not panic.
ASSUME VirtioAssumption ==
  /\ NBUF \in Nat /\ Nums \subseteq Nat \ 0..2
  /\ IsFiniteSet(Proc) /\ Cardinality(Proc) <= NBUF
  /\ None \notin Proc \cup Block
  /\ Writer \subseteq Proc /\ Uses \in [Proc -> SUBSET Block]
  /\ Image \in [Block -> Value]

VARIABLES
  free,       \* disk.free: the set of free descriptors
  info,       \* info[d]: the request whose chain of descriptors begins with d
  avail,      \* heads of the chains given to the device
  used,       \* heads of the chains the device has completed
  irq,        \* the device interrupts
  intr,       \* virtio_disk_intr() is between its acquire() and release()
  media,      \* the contents of the disk
  buf,        \* struct buf
  proc        \* the processes

driver == <<free, info, avail, used, irq, intr, media>>
vars == <<driver, buf, proc>>

Buf == 1..NBUF
Desc == DOMAIN info
NUM == Cardinality(Desc)

\* A request: its buffer, its direction and its chain of descriptors.
NoRequest == [b |-> 0, write |-> FALSE, chain |-> <<>>]

InfoRec == [b: 0..NBUF, write: BOOLEAN, chain: Seq(Desc)]

\* Where a process is: without a buffer; waiting for the lock of its buffer,
\* or asleep on it; using the locked buffer; in virtio_disk_rw() before it has
\* descriptors, asleep for them, asleep for the completion, or woken from
\* that; in brelse() with the lock released.
Pc == {"user", "acquiresleep", "sleep_lock", "use", "alloc", "sleep_free",
       "sleep_disk", "done", "brelse"}

DriverTypeOK ==
  /\ free \subseteq Desc
  /\ NUM \in Nums
  /\ info \in [Desc -> InfoRec]
  /\ avail \subseteq Desc
  /\ used \in Seq(Desc)
  /\ irq \in BOOLEAN /\ intr \in BOOLEAN
  /\ media \in [Block -> Value]

DriverInit ==
  /\ \E n \in Nums : info = [d \in 0..(n - 1) |-> NoRequest]
  /\ free = Desc
  /\ avail = {}
  /\ used = <<>>
  /\ irq = FALSE /\ intr = FALSE
  /\ media = Image

-----------------------------------------------------------------------------
At(p, pc) == proc[p].pc = pc

Goto(p, pc) == [proc EXCEPT ![p].pc = pc]

\* ps with the sleepers at pc whose buffer is in bs moved to another place.
Wakeup(ps, pc, bs, next) ==
  [p \in Proc |-> IF ps[p].pc = pc /\ ps[p].b \in bs
                  THEN [ps[p] EXCEPT !.pc = next] ELSE ps[p]]

\* alloc_desc() takes the first free descriptor.
First(ds) == CHOOSE d \in ds : \A e \in ds : d <= e

\* alloc3_desc() when there are three.
alloc3_desc ==
  LET i == First(free)
      j == First(free \ {i})
      k == First(free \ {i, j})
  IN  <<i, j, k>>

\* alloc3_desc() fails: it gives back what it got, which wakes the others
\* that wait for descriptors, and virtio_disk_rw() sleeps.
alloc3_desc_fails(p) ==
  /\ At(p, "alloc")
  /\ ~intr
  /\ Cardinality(free) < 3
  /\ proc' = IF free = {} THEN Goto(p, "sleep_free")
             ELSE [Wakeup(proc, "sleep_free", Buf, "alloc")
                     EXCEPT ![p].pc = "sleep_free"]
  /\ UNCHANGED <<driver, buf>>

\* The descriptors of a request.
Chain(r) == {r.chain[i] : i \in DOMAIN r.chain}

\* The request is put into the avail ring, and the process sleeps.
submit(p) ==
  /\ At(p, "alloc")
  /\ ~intr
  /\ Cardinality(free) >= 3
  /\ LET r == [b |-> proc[p].b, write |-> proc[p].write, chain |-> alloc3_desc]
     IN /\ free' = free \ Chain(r)
        /\ info' = [info EXCEPT ![r.chain[1]] = r]
        /\ avail' = avail \cup {r.chain[1]}
        /\ proc' = [proc EXCEPT ![p].pc = "sleep_disk", ![p].id = r.chain[1]]
  /\ buf' = [buf EXCEPT ![proc[p].b].disk = TRUE]
  /\ UNCHANGED <<used, irq, intr, media>>

\* The device carries out a request of its choice.
complete(d) ==
  /\ d \in avail
  /\ LET r == info[d] IN
       IF r.write
       THEN /\ media' = [media EXCEPT ![buf[r.b].blockno] = buf[r.b].data]
            /\ UNCHANGED buf
       ELSE /\ buf' = [buf EXCEPT ![r.b].data = media[buf[r.b].blockno]]
            /\ UNCHANGED media
  /\ avail' = avail \ {d}
  /\ used' = Append(used, d)
  /\ irq' = TRUE
  /\ UNCHANGED <<free, info, intr, proc>>

\* acquire(), and the acknowledgement of the interrupt.
virtio_disk_intr ==
  /\ irq /\ ~intr
  /\ intr' = TRUE
  /\ irq' = FALSE
  /\ UNCHANGED <<free, info, avail, used, media, buf, proc>>

\* Mutant: the handler looks at one entry only.
used_entry_once ==
  /\ intr
  /\ used # <<>>
  /\ LET b == info[Head(used)].b IN
       /\ buf' = [buf EXCEPT ![b].disk = FALSE]
       /\ proc' = Wakeup(proc, "sleep_disk", {b}, "done")
  /\ used' = Tail(used)
  /\ intr' = FALSE
  /\ UNCHANGED <<free, info, avail, irq, media>>

\* One entry of the used ring.
used_entry ==
  /\ intr
  /\ used # <<>>
  /\ LET b == info[Head(used)].b IN
       /\ buf' = [buf EXCEPT ![b].disk = FALSE]
       /\ proc' = Wakeup(proc, "sleep_disk", {b}, "done")
  /\ used' = Tail(used)
  /\ UNCHANGED <<free, info, avail, irq, intr, media>>

\* The handler has seen all entries.
intr_end ==
  /\ intr
  /\ used = <<>>
  /\ intr' = FALSE
  /\ UNCHANGED <<free, info, avail, used, irq, media, buf, proc>>

\* Mutant: only the head of the chain is freed.
free_chain_head(r) == free \cup {r.chain[1]}

free_chain(r) == free \cup Chain(r)

\* virtio_disk_rw() returns: the chain is freed, which wakes those who wait
\* for descriptors.  A buffer that has been read is valid (bread()).
done(p) ==
  /\ At(p, "done")
  /\ ~intr
  /\ LET r == info[proc[p].id] IN
       /\ free' = free_chain(r)
       /\ info' = [info EXCEPT ![proc[p].id] = NoRequest]
  /\ proc' = [Wakeup(proc, "sleep_free", Buf, "alloc") EXCEPT ![p].pc = "use"]
  /\ buf' = [buf EXCEPT ![proc[p].b].valid = TRUE]
  /\ UNCHANGED <<avail, used, irq, intr, media>>

virtio_disk_rw(p) == alloc3_desc_fails(p) \/ submit(p) \/ done(p)

Device == \E d \in Desc : complete(d)

Interrupt == virtio_disk_intr \/ used_entry \/ intr_end
=============================================================================
