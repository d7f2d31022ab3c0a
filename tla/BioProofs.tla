----------------------------- MODULE BioProofs -----------------------------
(***************************************************************************)
(* What modules Bio and VirtioDisk promise, for any number of processes,   *)
(* buffers, blocks and descriptors: the references, locks and descriptors  *)
(* are exact, whoever sleeps has somebody to wake it, and the cache        *)
(* implements a disk with a lock on every block.                           *)
(***************************************************************************)
EXTENDS Bio, FiniteSetTheorems, TLAPS

USE Zenon

\* The places where a process has the lock of its buffer, and those of them
\* in virtio_disk_rw().
InDisk == {"alloc", "sleep_free", "sleep_disk", "done"}

Locking == {"use", "alloc", "sleep_free", "sleep_disk", "done"}

\* There are descriptors 0 to n - 1; a process has a buffer, with a block in
\* it, unless it is outside of the cache.
PlaceInv ==
  /\ \E n \in Nums : Desc = 0..(n - 1)
  /\ \A p \in Proc : /\ At(p, "user") <=> proc[p].b = 0
                     /\ proc[p].b # 0 => buf[proc[p].b].blockno \in Block

\* The chain of a request under way begins with its descriptor.
ChainInv ==
  \A p \in Pending :
    LET r == info[proc[p].id]
    IN  /\ r.write = proc[p].write
        /\ Len(r.chain) = 3 /\ r.chain[1] = proc[p].id

\* The rings hold the requests that somebody sleeps for, each one once.
RingInv ==
  /\ \A d \in avail \cup Range(used) : \E p \in Proc : At(p, "sleep_disk") /\ proc[p].id = d
  /\ \A k, l \in DOMAIN used : used[k] = used[l] => k = l
  /\ avail \cap Range(used) = {}

\* A write that the device has not carried out yet.
Unwritten(p) ==
  /\ proc[p].write
  /\ \/ proc[p].pc \in {"alloc", "sleep_free"}
     \/ At(p, "sleep_disk") /\ proc[p].id \in avail

\* The device has carried out the request of p.
Answered(p) ==
  At(p, "done") \/ (At(p, "sleep_disk") /\ proc[p].id \in Range(used))

\* A buffer is valid when it has been read, and agrees with the disk then
\* unless it is being written; one whose request is complete agrees as well.
DataInv ==
  /\ \A i \in Buf : buf[i].valid =>
       /\ buf[i].blockno \in Block /\ buf[i].data \in Value
       /\ \/ buf[i].data = media[buf[i].blockno]
          \/ \E p \in Proc : proc[p].b = i /\ Unwritten(p)
  /\ \A p \in Proc :
       /\ At(p, "use") => buf[proc[p].b].valid
       /\ proc[p].pc \in InDisk => (buf[proc[p].b].valid <=> proc[p].write)
       /\ Answered(p) =>
            buf[proc[p].b].data = media[buf[proc[p].b].blockno]

BioInv ==
  /\ TypeOK /\ PlaceInv /\ OneBuffer /\ RefcntExact
  /\ ChainInv /\ DescExact /\ RingInv /\ SleepersAwaited /\ DataInv

-----------------------------------------------------------------------------
(* Facts that many steps use                                               *)

LEMMA ProcFacts ==
  ASSUME TypeOK, NEW p \in Proc
  PROVE  /\ proc[p] \in ProcRec
         /\ proc[p].pc \in Pc /\ proc[p].b \in 0..NBUF
         /\ proc[p].write \in BOOLEAN /\ proc[p].id \in Desc
         /\ proc[p].b # 0 => proc[p].b \in Buf
<1>1. /\ proc[p] \in ProcRec
      /\ proc[p].pc \in Pc /\ proc[p].b \in 0..NBUF
      /\ proc[p].write \in BOOLEAN /\ proc[p].id \in Desc
  BY DEF TypeOK, ProcRec
<1>2. \A b \in 0..NBUF : b # 0 => b \in Buf
  BY SMT, VirtioAssumption DEF Buf
<1> QED
  BY <1>1, <1>2, Zenon

LEMMA BufFacts ==
  ASSUME TypeOK, NEW i \in Buf
  PROVE  /\ i # 0 /\ i \in 0..NBUF /\ buf[i] \in BufRec
         /\ buf[i].refcnt \in Nat /\ buf[i].lock \in Proc \cup {None}
         /\ buf[i].valid \in BOOLEAN /\ buf[i].disk \in BOOLEAN
         /\ buf[i].blockno \in Block \cup {None}
         /\ buf[i].data \in Value \cup {None}
<1>1. /\ buf[i] \in BufRec
      /\ buf[i].refcnt \in Nat /\ buf[i].lock \in Proc \cup {None}
      /\ buf[i].valid \in BOOLEAN /\ buf[i].disk \in BOOLEAN
      /\ buf[i].blockno \in Block \cup {None}
      /\ buf[i].data \in Value \cup {None}
  BY DEF TypeOK, BufRec
<1>2. i # 0 /\ i \in 0..NBUF
  BY SMT, VirtioAssumption DEF Buf
<1> QED
  BY <1>1, <1>2

\* A process inside of the cache has a buffer with a block.
LEMMA BufferOf ==
  ASSUME BioInv, NEW p \in Proc, proc[p].pc # "user"
  PROVE  proc[p].b \in Buf /\ proc[p].b # 0 /\ buf[proc[p].b].blockno \in Block
<1>1. TypeOK /\ PlaceInv
  BY DEF BioInv
<1>2. proc[p].b # 0 /\ buf[proc[p].b].blockno \in Block
  BY <1>1 DEF PlaceInv, At
<1>3. proc[p].b \in Buf
  BY <1>1, <1>2, ProcFacts
<1> QED
  BY <1>2, <1>3

LEMMA LockIff ==
  ASSUME BioInv, NEW i \in Buf, NEW p \in Proc
  PROVE  buf[i].lock = p <=> proc[p].b = i /\ proc[p].pc \in Locking
  BY Zenon DEF BioInv, RefcntExact, Locking

\* One process has the lock of a buffer.
LEMMA OneLocker ==
  ASSUME BioInv, NEW p \in Proc, NEW q \in Proc, proc[p].b = proc[q].b,
         proc[p].pc \in Locking, proc[q].pc \in Locking
  PROVE  p = q
<1>1. TypeOK /\ PlaceInv /\ RefcntExact
  BY DEF BioInv
<1>2. proc[p].pc # "user"
  BY DEF Locking
<1>3. proc[p].b \in Buf
  BY <1>2, BufferOf
<1>4. buf[proc[p].b].lock = p /\ buf[proc[p].b].lock = q
  BY SMT, <1>3, LockIff
<1> QED
  BY <1>4

\* Those who wait for descriptors are woken.
LEMMA WokenFacts ==
  ASSUME TypeOK, NEW w, w = Wakeup(proc, "sleep_free", Buf, "alloc")
  PROVE  /\ w \in [Proc -> ProcRec]
         /\ \A q \in Proc :
              /\ w[q].b = proc[q].b /\ w[q].write = proc[q].write /\ w[q].id = proc[q].id
              /\ w[q].pc = IF proc[q].pc = "sleep_free" /\ proc[q].b \in Buf
                          THEN "alloc" ELSE proc[q].pc
<1>1. proc \in [Proc -> ProcRec] /\ "alloc" \in Pc
  BY DEF TypeOK, Pc
<1>2. ASSUME NEW q \in Proc
      PROVE  /\ w[q] \in ProcRec
             /\ w[q].b = proc[q].b /\ w[q].write = proc[q].write /\ w[q].id = proc[q].id
             /\ w[q].pc = IF proc[q].pc = "sleep_free" /\ proc[q].b \in Buf
                         THEN "alloc" ELSE proc[q].pc
  BY <1>1 DEF Wakeup, ProcRec
<1>3. w = [q \in Proc |-> w[q]]
  BY DEF Wakeup
<1> QED
  BY <1>2, <1>3

\* The references are those of the processes, as long as no process takes or
\* gives up a buffer.
LEMMA RefcntStep ==
  ASSUME BioInv,
         \A q \in Proc : proc'[q].b = proc[q].b,
         \A i \in Buf : buf'[i].refcnt = buf[i].refcnt,
         \A i \in Buf, q \in Proc :
           buf'[i].lock = q <=> proc'[q].b = i /\ proc'[q].pc \in Locking
  PROVE  RefcntExact'
<1>1. ASSUME NEW i \in Buf
      PROVE  buf'[i].refcnt = Cardinality({q \in Proc : proc'[q].b = i})
  <2>1. {q \in Proc : proc'[q].b = i} = {q \in Proc : proc[q].b = i}
    OBVIOUS
  <2>2. buf[i].refcnt = Cardinality({q \in Proc : proc[q].b = i})
    BY DEF BioInv, RefcntExact
  <2> QED
    BY <2>1, <2>2
<1>2. ASSUME NEW i \in Buf, NEW q \in Proc
      PROVE  buf'[i].lock = q <=> /\ proc'[q].b = i
                                  /\ proc'[q].pc \in {"use", "alloc", "sleep_free", "sleep_disk", "done"}
  BY DEF Locking
<1> QED
  BY <1>1, <1>2, Zenon DEF RefcntExact, Buf

\* The requests and their chains, as long as none is made or finished.
LEMMA ChainStep ==
  ASSUME BioInv, info' = info, free' = free, Pending' = Pending,
         \A p \in Pending : /\ proc'[p].b = proc[p].b /\ proc'[p].id = proc[p].id
                            /\ proc'[p].write = proc[p].write
  PROVE  ChainInv' /\ DescExact'
<1>1. ChainInv'
  BY ZenonT(60) DEF BioInv, ChainInv
<1>2. DescExact'
  <2>1. NUM' = NUM
    BY DEF NUM, Desc
  <2>2. Cardinality(free') + 3 * Cardinality(Pending') = NUM'
    BY <2>1 DEF BioInv, DescExact
  <2>3. ASSUME NEW p \in Pending'
        PROVE  /\ info'[proc'[p].id].b = proc'[p].b
               /\ Cardinality(Chain(info'[proc'[p].id])) = 3
               /\ Chain(info'[proc'[p].id]) \cap free' = {}
               /\ \A q \in Pending' \ {p} :
                    Chain(info'[proc'[p].id]) \cap Chain(info'[proc'[q].id]) = {}
    BY DEF BioInv, DescExact
  <2> QED
    BY <2>2, <2>3, Zenon DEF DescExact
<1> QED
  BY <1>1, <1>2

\* The rings, as long as neither they nor the sleepers change.
LEMMA RingStep ==
  ASSUME BioInv, avail' = avail, used' = used,
         \A p \in Proc : At(p, "sleep_disk") =>
           proc'[p].pc = "sleep_disk" /\ proc'[p].id = proc[p].id
  PROVE  RingInv'
<1>1. RingInv
  BY DEF BioInv
<1>2. ASSUME NEW d \in avail \cup Range(used)
      PROVE  \E p \in Proc : proc'[p].pc = "sleep_disk" /\ proc'[p].id = d
  BY <1>1, Zenon DEF RingInv
<1>3. Range(used') = Range(used)
  OBVIOUS
<1> QED
  BY <1>1, <1>2, <1>3, Zenon DEF RingInv, At

\* Descriptors are missing only while requests are under way.
LEMMA FreeOrPending ==
  ASSUME BioInv, Cardinality(free) < 3
  PROVE  Pending # {}
<1>1. NUM \in Nat \ 0..2
  BY VirtioAssumption DEF BioInv, TypeOK, DriverTypeOK
<1>2. Cardinality(free) + 3 * Cardinality(Pending) = NUM
  BY DEF BioInv, DescExact
<1>3. SUFFICES ASSUME Pending = {} PROVE FALSE
  OBVIOUS
<1>4. Cardinality(Pending) = 0
  BY <1>3, FS_EmptySet
<1>5. IsFiniteSet(free)
  <2>1. PICK n \in Nums : Desc = 0..(n - 1)
    BY DEF BioInv, PlaceInv
  <2>2. IsFiniteSet(Desc)
    <3>1. n \in Int
      BY SMT, VirtioAssumption
    <3> QED
      BY SMT, <2>1, <3>1, FS_Interval
  <2>3. free \subseteq Desc
    BY DEF BioInv, TypeOK, DriverTypeOK
  <2> QED
    BY <2>2, <2>3, FS_Subset
<1>6. Cardinality(free) \in Nat
  BY <1>5, FS_CardinalityType
<1> QED
  BY SMT, <1>1, <1>2, <1>4, <1>6

\* The data, as long as neither they nor the progress of requests change.
LEMMA DataStep ==
  ASSUME BioInv, media' = media,
         \A i \in Buf : /\ buf'[i].blockno = buf[i].blockno /\ buf'[i].valid = buf[i].valid
                        /\ buf'[i].data = buf[i].data,
         \A q \in Proc : proc'[q].b = proc[q].b /\ proc'[q].write = proc[q].write,
         \A q \in Proc : /\ (Unwritten(q)' <=> Unwritten(q)) /\ (Answered(q)' <=> Answered(q))
                         /\ proc'[q].pc = "use" <=> proc[q].pc = "use"
                         /\ proc'[q].pc \in InDisk <=> proc[q].pc \in InDisk
  PROVE  DataInv'
<1>a. TypeOK /\ PlaceInv /\ DataInv
  BY DEF BioInv
<1>1. ASSUME NEW i \in Buf, buf'[i].valid
      PROVE  /\ buf'[i].blockno \in Block /\ buf'[i].data \in Value
             /\ \/ buf'[i].data = media'[buf'[i].blockno]
                \/ \E q \in Proc : proc'[q].b = i /\ Unwritten(q)'
  <2>1. /\ buf[i].blockno \in Block /\ buf[i].data \in Value
        /\ \/ buf[i].data = media[buf[i].blockno]
           \/ \E q \in Proc : proc[q].b = i /\ Unwritten(q)
    BY <1>a, <1>1 DEF DataInv
  <2>2. ASSUME NEW q \in Proc, proc[q].b = i /\ Unwritten(q)
        PROVE  proc'[q].b = i /\ Unwritten(q)'
    BY <2>2
  <2>3. buf'[i].blockno = buf[i].blockno /\ buf'[i].data = buf[i].data
    OBVIOUS
  <2> QED
    BY <2>1, <2>2, <2>3
<1>2. ASSUME NEW q \in Proc
      PROVE  /\ proc'[q].pc = "use" => buf'[proc'[q].b].valid
             /\ proc'[q].pc \in InDisk => (buf'[proc'[q].b].valid <=> proc'[q].write)
             /\ Answered(q)' =>
                  buf'[proc'[q].b].data = media'[buf'[proc'[q].b].blockno]
  <2>1. CASE proc[q].pc = "user"
    BY <2>1 DEF InDisk, Answered, At
  <2>2. CASE proc[q].pc # "user"
    <3>1. proc[q].b \in Buf
      BY <2>2, BufferOf
    <3>2. /\ proc[q].pc = "use" => buf[proc[q].b].valid
          /\ proc[q].pc \in InDisk => (buf[proc[q].b].valid <=> proc[q].write)
          /\ Answered(q) => buf[proc[q].b].data = media[buf[proc[q].b].blockno]
      BY <1>a DEF DataInv, At
    <3>3. /\ proc'[q].b = proc[q].b /\ proc'[q].write = proc[q].write
          /\ buf'[proc[q].b].valid = buf[proc[q].b].valid
          /\ buf'[proc[q].b].data = buf[proc[q].b].data
          /\ buf'[proc[q].b].blockno = buf[proc[q].b].blockno
      BY <3>1
    <3>4. /\ Answered(q)' <=> Answered(q)
          /\ proc'[q].pc = "use" <=> proc[q].pc = "use"
          /\ proc'[q].pc \in InDisk <=> proc[q].pc \in InDisk
      OBVIOUS
    <3> QED
      BY <3>2, <3>3, <3>4
  <2> QED
    BY <2>1, <2>2
<1> QED
  BY <1>1, <1>2, Zenon DEF DataInv, At, Buf

\* The references to buffers, the rings and the data, when processes only go
\* to sleep for descriptors or are woken from that.
LEMMA Shuffle ==
  ASSUME BioInv, UNCHANGED <<free, info, avail, used, media, buf, lru>>,
         irq' \in BOOLEAN, intr' \in BOOLEAN, used # <<>> => irq' \/ intr',
         proc' \in [Proc -> ProcRec],
         \A q \in Proc :
           /\ proc'[q].b = proc[q].b /\ proc'[q].write = proc[q].write
           /\ proc'[q].id = proc[q].id
           /\ proc'[q].pc = proc[q].pc \/ ( /\ proc[q].pc \in {"alloc", "sleep_free"}
                                           /\ proc'[q].pc \in {"alloc", "sleep_free"})
           /\ proc'[q].pc = "sleep_free" => Pending # {}
  PROVE  BioInv'
<1>a. TypeOK /\ PlaceInv /\ OneBuffer /\ RefcntExact /\ RingInv /\ SleepersAwaited /\ DataInv
  BY DEF BioInv
<1>b. Desc' = Desc /\ NUM' = NUM /\ InfoRec' = InfoRec /\ ProcRec' = ProcRec
  BY DEF Desc, NUM, InfoRec, ProcRec
<1>c. Pending' = Pending
  BY DEF Pending
<1>1. TypeOK'
  BY <1>a, <1>b DEF TypeOK, DriverTypeOK
<1>2. PlaceInv'
  BY <1>a, <1>b DEF PlaceInv, At
<1>3. OneBuffer'
  BY <1>a DEF OneBuffer
<1>4. RefcntExact'
  <2>1. ASSUME NEW i \in Buf, NEW q \in Proc
        PROVE  buf'[i].lock = q <=> proc'[q].b = i /\ proc'[q].pc \in Locking
    <3>1. proc'[q].pc \in Locking <=> proc[q].pc \in Locking
      BY DEF Locking
    <3>2. buf'[i].lock = buf[i].lock /\ proc'[q].b = proc[q].b
      OBVIOUS
    <3>3. buf[i].lock = q <=> proc[q].b = i /\ proc[q].pc \in Locking
      BY LockIff
    <3> QED
      BY <3>1, <3>2, <3>3
  <2> QED
    BY <2>1, RefcntStep
<1>5. ChainInv' /\ DescExact'
  BY <1>c, ChainStep DEF Pending
<1>6. RingInv'
  BY RingStep DEF At
<1>7. SleepersAwaited'
  BY <1>a, <1>c DEF SleepersAwaited, At
<1>8. DataInv'
  <2>1. \A q \in Proc : (Unwritten(q)' <=> Unwritten(q)) /\ (Answered(q)' <=> Answered(q))
    BY DEF Unwritten, Answered, At
  <2>2. \A q \in Proc : /\ proc'[q].pc = "use" <=> proc[q].pc = "use"
                        /\ proc'[q].pc \in InDisk <=> proc[q].pc \in InDisk
    BY DEF InDisk
  <2> QED
    BY <2>1, <2>2, DataStep
<1> QED
  BY <1>1, <1>2, <1>3, <1>4, <1>5, <1>6, <1>7, <1>8 DEF BioInv

LEMMA alloc3_desc_failsInv ==
  ASSUME BioInv, NEW p \in Proc, alloc3_desc_fails(p), UNCHANGED lru
  PROVE  BioInv'
<1>a. TypeOK /\ SleepersAwaited
  BY DEF BioInv
<1>b. proc \in [Proc -> ProcRec] /\ irq \in BOOLEAN /\ intr \in BOOLEAN
  BY <1>a DEF TypeOK, DriverTypeOK
<1>c. "alloc" \in Pc /\ "sleep_free" \in Pc
  BY DEF Pc
<1>d. Pending # {}
  BY FreeOrPending DEF alloc3_desc_fails
<1>e. proc[p].pc = "alloc"
  BY DEF alloc3_desc_fails, At
<1>1. PICK ps \in [Proc -> ProcRec] :
        /\ proc' = [ps EXCEPT ![p].pc = "sleep_free"]
        /\ \A q \in Proc :
             /\ ps[q].b = proc[q].b /\ ps[q].write = proc[q].write /\ ps[q].id = proc[q].id
             /\ ps[q].pc = proc[q].pc \/ (proc[q].pc = "sleep_free" /\ ps[q].pc = "alloc")
  <2>1. CASE free = {}
    BY <1>b, <2>1 DEF alloc3_desc_fails, Goto
  <2>2. CASE free # {}
    <3> DEFINE w == Wakeup(proc, "sleep_free", Buf, "alloc")
    <3>1. /\ w \in [Proc -> ProcRec]
          /\ \A q \in Proc :
               /\ w[q].b = proc[q].b /\ w[q].write = proc[q].write /\ w[q].id = proc[q].id
               /\ w[q].pc = IF proc[q].pc = "sleep_free" /\ proc[q].b \in Buf
                           THEN "alloc" ELSE proc[q].pc
      BY <1>a, WokenFacts
    <3>2. proc' = [w EXCEPT ![p].pc = "sleep_free"]
      BY <2>2 DEF alloc3_desc_fails
    <3> HIDE DEF w
    <3> QED
      BY <3>1, <3>2
  <2> QED
    BY <2>1, <2>2
<1>2. /\ proc' \in [Proc -> ProcRec]
      /\ \A q \in Proc :
           /\ proc'[q].b = ps[q].b /\ proc'[q].write = ps[q].write /\ proc'[q].id = ps[q].id
           /\ proc'[q].pc = IF q = p THEN "sleep_free" ELSE ps[q].pc
  <2>1. proc' = [ps EXCEPT ![p].pc = "sleep_free"]
    BY <1>1
  <2> DEFINE r == [ps[p] EXCEPT !.pc = "sleep_free"]
  <2>2. ps[p] \in ProcRec
    OBVIOUS
  <2>3. /\ r \in ProcRec /\ r.pc = "sleep_free" /\ r.b = ps[p].b
        /\ r.write = ps[p].write /\ r.id = ps[p].id
    BY <2>2, <1>c DEF ProcRec
  <2>4. proc' = [ps EXCEPT ![p] = r]
    BY <2>1
  <2> HIDE DEF r
  <2> QED
    BY <2>3, <2>4
<1>3. ASSUME NEW q \in Proc
      PROVE  /\ proc'[q].b = proc[q].b /\ proc'[q].write = proc[q].write
             /\ proc'[q].id = proc[q].id
             /\ proc'[q].pc = proc[q].pc \/ ( /\ proc[q].pc \in {"alloc", "sleep_free"}
                                             /\ proc'[q].pc \in {"alloc", "sleep_free"})
             /\ proc'[q].pc = "sleep_free" => Pending # {}
  <2>1. /\ ps[q].b = proc[q].b /\ ps[q].write = proc[q].write /\ ps[q].id = proc[q].id
        /\ ps[q].pc = proc[q].pc \/ (proc[q].pc = "sleep_free" /\ ps[q].pc = "alloc")
    BY <1>1
  <2>2. /\ proc'[q].b = ps[q].b /\ proc'[q].write = ps[q].write /\ proc'[q].id = ps[q].id
        /\ proc'[q].pc = IF q = p THEN "sleep_free" ELSE ps[q].pc
    BY <1>2
  <2> QED
    BY <2>1, <2>2, <1>d, <1>e
<1>4. /\ UNCHANGED <<free, info, avail, used, media, buf, lru>>
      /\ irq' = irq /\ intr' = intr
  BY DEF alloc3_desc_fails, driver
<1>5. used # <<>> => irq' \/ intr'
  BY <1>a, <1>4 DEF SleepersAwaited
<1> QED
  BY <1>2, <1>3, <1>4, <1>5, <1>b, Shuffle

LEMMA IntrInv ==
  ASSUME BioInv, virtio_disk_intr \/ intr_end, UNCHANGED lru
  PROVE  BioInv'
<1>1. /\ UNCHANGED <<free, info, avail, used, media, buf, lru, proc>>
      /\ irq' \in BOOLEAN /\ intr' \in BOOLEAN
      /\ used # <<>> => irq' \/ intr'
  BY DEF virtio_disk_intr, intr_end, BioInv, TypeOK, DriverTypeOK
<1>2. proc' \in [Proc -> ProcRec]
  BY <1>1 DEF BioInv, TypeOK
<1>3. \A q \in Proc : proc'[q].pc = "sleep_free" => Pending # {}
  BY <1>1 DEF BioInv, SleepersAwaited, At
<1> QED
  BY <1>1, <1>2, <1>3, Shuffle

-----------------------------------------------------------------------------
(* The steps of the cache                                                  *)

\* One more process refers to buffer i, or one less.
LEMMA UserAdded ==
  ASSUME NEW i \in Buf, NEW p \in Proc, proc[p].b # i, proc'[p].b = i,
         \A q \in Proc : q # p => proc'[q].b = proc[q].b
  PROVE  /\ Cardinality({q \in Proc : proc[q].b = i}) \in Nat
         /\ Cardinality({q \in Proc : proc'[q].b = i})
            = Cardinality({q \in Proc : proc[q].b = i}) + 1
<1> DEFINE U == {q \in Proc : proc[q].b = i}
<1>1. {q \in Proc : proc'[q].b = i} = U \cup {p} /\ p \notin U
  OBVIOUS
<1>2. IsFiniteSet(U)
  BY VirtioAssumption, FS_Subset
<1> HIDE DEF U
<1>3. Cardinality(U \cup {p}) = Cardinality(U) + 1 /\ Cardinality(U) \in Nat
  BY <1>1, <1>2, FS_AddElement, FS_CardinalityType
<1> QED
  BY <1>1, <1>3 DEF U

LEMMA UserRemoved ==
  ASSUME NEW i \in Buf, NEW p \in Proc, proc[p].b = i, proc'[p].b # i,
         \A q \in Proc : q # p => proc'[q].b = proc[q].b
  PROVE  /\ Cardinality({q \in Proc : proc'[q].b = i}) \in Nat
         /\ Cardinality({q \in Proc : proc[q].b = i})
            = Cardinality({q \in Proc : proc'[q].b = i}) + 1
<1> DEFINE U == {q \in Proc : proc'[q].b = i}
<1>1. {q \in Proc : proc[q].b = i} = U \cup {p} /\ p \notin U
  OBVIOUS
<1>2. IsFiniteSet(U)
  BY VirtioAssumption, FS_Subset
<1> HIDE DEF U
<1>3. Cardinality(U \cup {p}) = Cardinality(U) + 1 /\ Cardinality(U) \in Nat
  BY <1>1, <1>2, FS_AddElement, FS_CardinalityType
<1> QED
  BY <1>1, <1>3 DEF U

\* The locks and references when no process comes or goes, or one buffer's
\* change is known.
LEMMA RefcntFrom ==
  ASSUME \A i \in Buf : buf'[i].refcnt = Cardinality({q \in Proc : proc'[q].b = i}),
         \A i \in Buf, q \in Proc :
           buf'[i].lock = q <=> proc'[q].b = i /\ proc'[q].pc \in Locking
  PROVE  RefcntExact'
<1>1. ASSUME NEW i \in Buf, NEW q \in Proc
      PROVE  buf'[i].lock = q <=> /\ proc'[q].b = i
                                  /\ proc'[q].pc \in {"use", "alloc", "sleep_free", "sleep_disk", "done"}
  BY DEF Locking
<1> QED
  BY <1>1, Zenon DEF RefcntExact, Buf

\* What a step of process p in the cache does: it leaves the driver alone, and
\* p has no request before or after it;
StepTyped(p) ==
  /\ proc[p].pc \notin InDisk /\ UNCHANGED driver
  /\ buf' \in [Buf -> BufRec] /\ proc' \in [Proc -> ProcRec]
  /\ lru' \in [Buf -> Buf] /\ Range(lru') = Buf
  /\ proc'[p].pc \notin {"sleep_free", "sleep_disk", "done"}

\* p is where its buffer allows it to be;
StepOwn(p) ==
  /\ proc'[p].pc = "user" <=> proc'[p].b = 0
  /\ proc'[p].pc = "use" => buf'[proc'[p].b].valid
  /\ proc'[p].pc = "alloc" => (buf'[proc'[p].b].valid <=> proc'[p].write)
  /\ proc'[p].b # 0 => buf'[proc'[p].b].blockno \in Block

\* the others stay, or are woken from waiting for a lock, and keep their
\* buffers;
StepOthers(p) ==
  \A q \in Proc : q # p =>
    /\ proc'[q].b = proc[q].b /\ proc'[q].write = proc[q].write
    /\ proc'[q].id = proc[q].id
    /\ proc'[q].pc = proc[q].pc \/ (proc[q].pc = "sleep_lock" /\ proc'[q].pc = "acquiresleep")
    /\ proc[q].b # 0 => buf'[proc[q].b].blockno = buf[proc[q].b].blockno
    /\ proc[q].pc \in Locking =>
         /\ buf'[proc[q].b].valid = buf[proc[q].b].valid
         /\ buf'[proc[q].b].data = buf[proc[q].b].data

\* references and locks are counted, and the data of a buffer changes only when
\* it is no longer valid or will be written.
StepCounts(p) ==
  \A i \in Buf :
    /\ buf'[i].disk = buf[i].disk
    /\ buf'[i].refcnt = Cardinality({q \in Proc : proc'[q].b = i})
    /\ buf'[i].lock = p <=> proc'[p].b = i /\ proc'[p].pc \in Locking
    /\ \A q \in Proc : q # p => (buf'[i].lock = q <=> buf[i].lock = q)

StepData(p) ==
  \A i \in Buf :
    \/ /\ buf'[i].blockno = buf[i].blockno /\ buf'[i].valid = buf[i].valid
       /\ buf'[i].data = buf[i].data
    \/ ~buf'[i].valid
    \/ /\ buf'[i].blockno \in Block /\ buf'[i].data \in Value
       /\ proc'[p].b = i /\ proc'[p].pc = "alloc" /\ proc'[p].write

StepLockers ==
  \A q \in Proc : proc'[q].pc = "sleep_lock" => buf'[proc'[q].b].lock # None

LEMMA CacheStep ==
  ASSUME BioInv, NEW p \in Proc, OneBuffer', StepTyped(p), StepOwn(p), StepOthers(p),
         StepCounts(p), StepData(p), StepLockers
  PROVE  BioInv'
<1>a. TypeOK /\ PlaceInv /\ SleepersAwaited /\ DataInv
  BY DEF BioInv
<1>b. /\ UNCHANGED <<free, info, avail, used, irq, intr, media>>
      /\ Desc' = Desc /\ NUM' = NUM /\ InfoRec' = InfoRec /\ ProcRec' = ProcRec
  BY DEF StepTyped, driver, Desc, NUM, InfoRec, ProcRec
<1>c. /\ proc[p].pc \notin {"alloc", "sleep_free", "sleep_disk", "done"}
      /\ proc'[p].pc \notin {"sleep_free", "sleep_disk", "done"}
  BY DEF StepTyped, InDisk
<1>d. ASSUME NEW q \in Proc, q # p
      PROVE  /\ proc'[q].b = proc[q].b /\ proc'[q].write = proc[q].write
             /\ proc'[q].id = proc[q].id
             /\ proc'[q].pc = proc[q].pc \/ (proc[q].pc = "sleep_lock" /\ proc'[q].pc = "acquiresleep")
  BY <1>d DEF StepOthers
<1>e. Pending' = Pending
  BY <1>c, <1>d DEF Pending
<1>f. ASSUME NEW q \in Proc, q # p
      PROVE  /\ (Unwritten(q)' <=> Unwritten(q)) /\ (Answered(q)' <=> Answered(q))
             /\ proc'[q].pc = "use" <=> proc[q].pc = "use"
             /\ proc'[q].pc = "user" <=> proc[q].pc = "user"
             /\ proc'[q].pc \in InDisk <=> proc[q].pc \in InDisk
             /\ proc'[q].pc \in Locking <=> proc[q].pc \in Locking
  <2>1. /\ proc'[q].write = proc[q].write /\ proc'[q].id = proc[q].id
        /\ proc'[q].pc = proc[q].pc \/ (proc[q].pc = "sleep_lock" /\ proc'[q].pc = "acquiresleep")
    BY <1>d, <1>f
  <2> QED
    BY <1>b, <2>1 DEF Unwritten, Answered, At, InDisk, Locking
<1>g. ~Unwritten(p) /\ ~Answered(p)'
  BY <1>c DEF Unwritten, Answered, At
<1>1. TypeOK'
  BY <1>a, <1>b DEF TypeOK, DriverTypeOK, StepTyped
<1>2. PlaceInv'
  <2>1. ASSUME NEW q \in Proc
        PROVE  /\ proc'[q].pc = "user" <=> proc'[q].b = 0
               /\ proc'[q].b # 0 => buf'[proc'[q].b].blockno \in Block
    <3>1. CASE q = p
      BY <3>1 DEF StepOwn
    <3>2. CASE q # p
      <4>1. proc'[q].b = proc[q].b /\ (proc'[q].pc = "user" <=> proc[q].pc = "user")
        BY <1>d, <1>f, <3>2
      <4>2. /\ proc[q].pc = "user" <=> proc[q].b = 0
            /\ proc[q].b # 0 => buf[proc[q].b].blockno \in Block
        BY <1>a DEF PlaceInv, At
      <4>3. proc[q].b # 0 => buf'[proc[q].b].blockno = buf[proc[q].b].blockno
        BY <3>2 DEF StepOthers
      <4> QED
        BY <4>1, <4>2, <4>3
    <3> QED
      BY <3>1, <3>2
  <2> QED
    BY <1>a, <1>b, <2>1 DEF PlaceInv, At
<1>3. RefcntExact'
  <2>1. ASSUME NEW i \in Buf, NEW q \in Proc
        PROVE  buf'[i].lock = q <=> proc'[q].b = i /\ proc'[q].pc \in Locking
    <3>1. CASE q = p
      BY <3>1 DEF StepCounts
    <3>2. CASE q # p
      <4>1. buf[i].lock = q <=> proc[q].b = i /\ proc[q].pc \in Locking
        BY LockIff
      <4>2. buf'[i].lock = q <=> buf[i].lock = q
        BY <3>2 DEF StepCounts
      <4> QED
        BY <1>d, <1>f, <3>2, <4>1, <4>2
    <3> QED
      BY <3>1, <3>2
  <2>2. \A i \in Buf : buf'[i].refcnt = Cardinality({q \in Proc : proc'[q].b = i})
    BY DEF StepCounts
  <2> QED
    BY <2>1, <2>2, RefcntFrom
<1>4. ChainInv' /\ DescExact'
  <2>1. \A q \in Pending : /\ proc'[q].b = proc[q].b /\ proc'[q].id = proc[q].id
                           /\ proc'[q].write = proc[q].write
    BY <1>c, <1>d DEF Pending
  <2> QED
    BY <1>b, <1>e, <2>1, ChainStep
<1>5. RingInv'
  <2>1. \A q \in Proc : At(q, "sleep_disk") =>
           proc'[q].pc = "sleep_disk" /\ proc'[q].id = proc[q].id
    BY <1>c, <1>d DEF At
  <2> QED
    BY <1>b, <2>1, RingStep
<1>6. SleepersAwaited'
  <2>1. ASSUME NEW q \in Proc, proc'[q].pc = "sleep_disk"
        PROVE  buf'[proc'[q].b].disk /\ proc'[q].id \in avail' \cup Range(used')
    <3>1. q # p /\ proc[q].pc = "sleep_disk"
      BY <1>c, <1>d, <2>1
    <3>2. proc'[q].b = proc[q].b /\ proc'[q].id = proc[q].id /\ proc[q].b \in Buf
      BY <1>d, <3>1, BufferOf
    <3>3. buf[proc[q].b].disk /\ proc[q].id \in avail \cup Range(used)
      BY <1>a, <3>1 DEF SleepersAwaited, At
    <3>4. buf'[proc[q].b].disk = buf[proc[q].b].disk
      BY <3>2 DEF StepCounts
    <3> QED
      BY <1>b, <3>2, <3>3, <3>4
  <2>2. ASSUME NEW q \in Proc, proc'[q].pc = "sleep_free"
        PROVE  Pending' # {}
    <3>1. proc[q].pc = "sleep_free"
      BY <1>c, <1>d, <2>2
    <3> QED
      BY <1>a, <1>e, <3>1 DEF SleepersAwaited, At
  <2>3. used' # <<>> => irq' \/ intr'
    BY <1>a, <1>b DEF SleepersAwaited
  <2>4. \A q \in Proc : proc'[q].pc = "sleep_lock" => buf'[proc'[q].b].lock # None
    BY DEF StepLockers
  <2> QED
    BY <2>1, <2>2, <2>3, <2>4 DEF SleepersAwaited, At
<1>7. DataInv'
  <2>1. ASSUME NEW i \in Buf, buf'[i].valid
        PROVE  /\ buf'[i].blockno \in Block /\ buf'[i].data \in Value
               /\ \/ buf'[i].data = media'[buf'[i].blockno]
                  \/ \E q \in Proc : proc'[q].b = i /\ Unwritten(q)'
    <3>1. CASE /\ buf'[i].blockno = buf[i].blockno /\ buf'[i].valid = buf[i].valid
               /\ buf'[i].data = buf[i].data
      <4>1. /\ buf[i].blockno \in Block /\ buf[i].data \in Value
            /\ \/ buf[i].data = media[buf[i].blockno]
               \/ \E q \in Proc : proc[q].b = i /\ Unwritten(q)
        BY <1>a, <2>1, <3>1 DEF DataInv
      <4>2. ASSUME NEW q \in Proc, proc[q].b = i /\ Unwritten(q)
            PROVE  proc'[q].b = i /\ Unwritten(q)'
        <5>1. q # p
          BY <1>g, <4>2
        <5> QED
          BY <1>d, <1>f, <4>2, <5>1
      <4> QED
        BY <1>b, <3>1, <4>1, <4>2
    <3>2. CASE /\ buf'[i].blockno \in Block /\ buf'[i].data \in Value
               /\ proc'[p].b = i /\ proc'[p].pc = "alloc" /\ proc'[p].write
      <4>1. Unwritten(p)'
        BY <3>2 DEF Unwritten
      <4> QED
        BY <3>2, <4>1
    <3> QED
      BY <2>1, <3>1, <3>2 DEF StepData
  <2>2. ASSUME NEW q \in Proc
        PROVE  /\ proc'[q].pc = "use" => buf'[proc'[q].b].valid
               /\ proc'[q].pc \in InDisk => (buf'[proc'[q].b].valid <=> proc'[q].write)
               /\ Answered(q)' =>
                    buf'[proc'[q].b].data = media'[buf'[proc'[q].b].blockno]
    <3>1. CASE q = p
      BY <1>c, <1>g, <3>1 DEF StepOwn, InDisk
    <3>2. CASE q # p /\ proc[q].pc \notin Locking
      BY <1>f, <3>2 DEF Answered, At, InDisk, Locking
    <3>3. CASE q # p /\ proc[q].pc \in Locking
      <4>1. proc[q].b # 0
        BY <3>3, BufferOf DEF Locking
      <4>2. /\ proc[q].pc = "use" => buf[proc[q].b].valid
            /\ proc[q].pc \in InDisk => (buf[proc[q].b].valid <=> proc[q].write)
            /\ Answered(q) => buf[proc[q].b].data = media[buf[proc[q].b].blockno]
        BY <1>a DEF DataInv, At
      <4>3. /\ buf'[proc[q].b].valid = buf[proc[q].b].valid
            /\ buf'[proc[q].b].data = buf[proc[q].b].data
            /\ buf'[proc[q].b].blockno = buf[proc[q].b].blockno
        BY <3>3, <4>1 DEF StepOthers
      <4> QED
        BY ZenonT(60), <1>b, <1>d, <1>f, <3>3, <4>2, <4>3
    <3> QED
      BY <3>1, <3>2, <3>3
  <2> QED
    BY <2>1, <2>2, Zenon DEF DataInv, At, Buf
<1> QED
  BY <1>1, <1>2, <1>3, <1>4, <1>5, <1>6, <1>7 DEF BioInv

LEMMA bgetInv ==
  ASSUME BioInv, NEW p \in Proc, NEW bn \in Block, bget(p, bn)
  PROVE  BioInv'
<1>a. /\ TypeOK /\ PlaceInv /\ OneBuffer /\ RefcntExact /\ SleepersAwaited /\ DataInv
      /\ buf \in [Buf -> BufRec] /\ proc \in [Proc -> ProcRec]
      /\ lru \in [Buf -> Buf] /\ Range(lru) = Buf
  BY DEF BioInv, TypeOK
<1>b. PICK i \in Buf : /\ buf[i].blockno = bn
                       /\ buf' = [buf EXCEPT ![i].refcnt = @ + 1]
                       /\ proc' = [proc EXCEPT ![p].pc = "acquiresleep", ![p].b = i]
  BY DEF bget, Caches, Refer
<1>c. proc[p].pc = "user" /\ UNCHANGED driver /\ lru' = lru /\ media' = media
  BY DEF bget, At, driver
<1>d. proc[p].b = 0 /\ i # 0 /\ i \in 0..NBUF /\ buf[i] \in BufRec /\ buf[i].refcnt \in Nat
  BY <1>a, <1>c, BufFacts DEF PlaceInv, At
<1>1. /\ buf' \in [Buf -> BufRec]
      /\ \A j \in Buf :
           /\ buf'[j].blockno = buf[j].blockno /\ buf'[j].valid = buf[j].valid
           /\ buf'[j].disk = buf[j].disk /\ buf'[j].lock = buf[j].lock
           /\ buf'[j].data = buf[j].data
           /\ buf'[j].refcnt = IF j = i THEN buf[j].refcnt + 1 ELSE buf[j].refcnt
  <2> DEFINE r == [buf[i] EXCEPT !.refcnt = @ + 1]
  <2>1. /\ r \in BufRec /\ r.blockno = buf[i].blockno /\ r.valid = buf[i].valid
        /\ r.disk = buf[i].disk /\ r.lock = buf[i].lock
        /\ r.data = buf[i].data /\ r.refcnt = buf[i].refcnt + 1
    BY SMT, <1>d DEF BufRec
  <2>2. buf' = [buf EXCEPT ![i] = r]
    BY <1>b
  <2> HIDE DEF r
  <2> QED
    BY <1>a, <2>1, <2>2
<1>2. /\ proc' \in [Proc -> ProcRec]
      /\ \A q \in Proc :
           /\ proc'[q].write = proc[q].write /\ proc'[q].id = proc[q].id
           /\ proc'[q].b = IF q = p THEN i ELSE proc[q].b
           /\ proc'[q].pc = IF q = p THEN "acquiresleep" ELSE proc[q].pc
  <2> DEFINE r == [proc[p] EXCEPT !.pc = "acquiresleep", !.b = i]
  <2>1. proc[p] \in ProcRec /\ "acquiresleep" \in Pc
    BY <1>a, ProcFacts DEF Pc
  <2>2. /\ r \in ProcRec /\ r.pc = "acquiresleep" /\ r.b = i
        /\ r.write = proc[p].write /\ r.id = proc[p].id
    BY <1>d, <2>1 DEF ProcRec
  <2>3. proc' = [proc EXCEPT ![p] = r]
    BY <1>b
  <2> HIDE DEF r
  <2> QED
    BY <1>a, <2>2, <2>3
<1>3. StepTyped(p)
  <2>1. proc[p].pc \notin InDisk
    BY <1>c DEF InDisk
  <2>2. proc'[p].pc \notin {"sleep_free", "sleep_disk", "done"}
    BY <1>2
  <2> QED
    BY <1>a, <1>c, <1>1, <1>2, <2>1, <2>2 DEF StepTyped
<1>4. StepOwn(p)
  BY SMT, <1>b, <1>d, <1>1, <1>2 DEF StepOwn
<1>5. StepOthers(p)
  <2>1. ASSUME NEW q \in Proc, proc[q].b # 0
        PROVE  proc[q].b \in Buf
    BY <1>a, <2>1, ProcFacts
  <2>2. ASSUME NEW q \in Proc, proc[q].pc \in Locking
        PROVE  proc[q].b \in Buf
    BY <2>2, BufferOf DEF Locking
  <2> QED
    BY <1>1, <1>2, <2>1, <2>2 DEF StepOthers
<1>6. StepCounts(p)
  <2>1. ASSUME NEW j \in Buf
        PROVE  buf'[j].refcnt = Cardinality({q \in Proc : proc'[q].b = j})
    <3>1. buf[j].refcnt = Cardinality({q \in Proc : proc[q].b = j})
      BY <1>a DEF RefcntExact
    <3>2. CASE j = i
      <4>1. Cardinality({q \in Proc : proc'[q].b = i})
              = Cardinality({q \in Proc : proc[q].b = i}) + 1
        BY <1>d, <1>2, UserAdded
      <4> QED
        BY <1>1, <3>1, <3>2, <4>1
    <3>3. CASE j # i
      <4>1. j # 0
        BY <1>a, BufFacts
      <4>2. {q \in Proc : proc'[q].b = j} = {q \in Proc : proc[q].b = j}
        BY <1>d, <1>2, <3>3, <4>1
      <4> QED
        BY <1>1, <3>1, <3>3, <4>2
    <3> QED
      BY <3>2, <3>3
  <2>2. ASSUME NEW j \in Buf
        PROVE  buf'[j].lock = p <=> proc'[p].b = j /\ proc'[p].pc \in Locking
    <3>1. buf[j].lock # p
      <4>1. proc[p].pc \notin Locking
        BY <1>c DEF Locking
      <4> QED
        BY <4>1, LockIff
    <3> QED
      BY <1>1, <1>2, <3>1 DEF Locking
  <2> QED
    BY <1>1, <2>1, <2>2 DEF StepCounts
<1>7. StepData(p)
  BY <1>1 DEF StepData
<1>8. StepLockers
  <2>1. ASSUME NEW q \in Proc, proc'[q].pc = "sleep_lock"
        PROVE  buf'[proc'[q].b].lock # None
    <3>1. proc[q].pc = "sleep_lock" /\ proc'[q].b = proc[q].b /\ proc[q].b \in Buf
      BY <1>2, <2>1, BufferOf
    <3>2. buf[proc[q].b].lock # None
      BY <1>a, <3>1 DEF SleepersAwaited, At
    <3> QED
      BY <1>1, <3>1, <3>2
  <2> QED
    BY <2>1 DEF StepLockers
<1>9. OneBuffer'
  BY SMT, <1>a, <1>1 DEF OneBuffer
<1> QED
  BY <1>3, <1>4, <1>5, <1>6, <1>7, <1>8, <1>9, CacheStep

LEMMA bget_recycleInv ==
  ASSUME BioInv, NEW p \in Proc, NEW bn \in Block, bget_recycle(p, bn)
  PROVE  BioInv'
<1>a. /\ TypeOK /\ PlaceInv /\ OneBuffer /\ RefcntExact /\ SleepersAwaited /\ DataInv
      /\ buf \in [Buf -> BufRec] /\ proc \in [Proc -> ProcRec]
      /\ lru \in [Buf -> Buf] /\ Range(lru) = Buf
  BY DEF BioInv, TypeOK
<1>b. PICK i \in Buf : /\ buf[i].refcnt = 0
                       /\ buf' = [buf EXCEPT ![i] = Recycled(@, bn)]
                       /\ proc' = [proc EXCEPT ![p].pc = "acquiresleep", ![p].b = i]
  BY <1>a DEF bget_recycle, Refer
<1>c. /\ proc[p].pc = "user" /\ UNCHANGED driver /\ lru' = lru
      /\ \A j \in Buf : buf[j].blockno # bn
  BY DEF bget_recycle, At, Caches
<1>d. proc[p].b = 0 /\ i # 0 /\ i \in 0..NBUF /\ buf[i] \in BufRec /\ buf[i].refcnt = 0
  <2>1. proc[p].b = 0
    BY <1>a, <1>c DEF PlaceInv, At
  <2>2. i # 0 /\ i \in 0..NBUF /\ buf[i] \in BufRec
    BY <1>a, BufFacts
  <2> QED
    BY <1>b, <2>1, <2>2
<1>e. ASSUME NEW q \in Proc
      PROVE  proc[q].b # i
  <2>1. IsFiniteSet({r \in Proc : proc[r].b = i})
    BY VirtioAssumption, FS_Subset
  <2>2. Cardinality({r \in Proc : proc[r].b = i}) = 0
    BY <1>a, <1>b DEF RefcntExact
  <2>3. {r \in Proc : proc[r].b = i} = {}
    BY <2>1, <2>2, FS_EmptySet
  <2> QED
    BY <2>3
<1>1. /\ buf' \in [Buf -> BufRec]
      /\ \A j \in Buf :
           /\ buf'[j].disk = buf[j].disk /\ buf'[j].lock = buf[j].lock
           /\ buf'[j].data = buf[j].data
           /\ buf'[j].blockno = IF j = i THEN bn ELSE buf[j].blockno
           /\ buf'[j].valid = IF j = i THEN FALSE ELSE buf[j].valid
           /\ buf'[j].refcnt = IF j = i THEN 1 ELSE buf[j].refcnt
  <2> DEFINE r == Recycled(buf[i], bn)
  <2>1. /\ r \in BufRec /\ r.blockno = bn /\ r.valid = FALSE
        /\ r.disk = buf[i].disk /\ r.lock = buf[i].lock
        /\ r.data = buf[i].data /\ r.refcnt = 1
    BY <1>d DEF BufRec, Recycled
  <2>2. buf' = [buf EXCEPT ![i] = r]
    BY <1>b
  <2> HIDE DEF r
  <2> QED
    BY <1>a, <2>1, <2>2
<1>2. /\ proc' \in [Proc -> ProcRec]
      /\ \A q \in Proc :
           /\ proc'[q].write = proc[q].write /\ proc'[q].id = proc[q].id
           /\ proc'[q].b = IF q = p THEN i ELSE proc[q].b
           /\ proc'[q].pc = IF q = p THEN "acquiresleep" ELSE proc[q].pc
  <2> DEFINE r == [proc[p] EXCEPT !.pc = "acquiresleep", !.b = i]
  <2>1. proc[p] \in ProcRec /\ "acquiresleep" \in Pc
    BY <1>a, ProcFacts DEF Pc
  <2>2. /\ r \in ProcRec /\ r.pc = "acquiresleep" /\ r.b = i
        /\ r.write = proc[p].write /\ r.id = proc[p].id
    BY <1>d, <2>1 DEF ProcRec
  <2>3. proc' = [proc EXCEPT ![p] = r]
    BY <1>b
  <2> HIDE DEF r
  <2> QED
    BY <1>a, <2>2, <2>3
<1>3. StepTyped(p)
  <2>1. proc[p].pc \notin InDisk
    BY <1>c DEF InDisk
  <2>2. proc'[p].pc \notin {"sleep_free", "sleep_disk", "done"}
    BY <1>2
  <2> QED
    BY <1>a, <1>c, <1>1, <1>2, <2>1, <2>2 DEF StepTyped
<1>4. StepOwn(p)
  <2>1. proc'[p].pc = "acquiresleep" /\ proc'[p].b = i /\ buf'[i].blockno = bn
    BY <1>1, <1>2
  <2> QED
    BY <1>d, <2>1 DEF StepOwn
<1>5. StepOthers(p)
  <2>1. ASSUME NEW q \in Proc, proc[q].b # 0
        PROVE  proc[q].b \in Buf
    BY <1>a, <2>1, ProcFacts
  <2>2. ASSUME NEW q \in Proc, proc[q].pc \in Locking
        PROVE  proc[q].b \in Buf
    BY <2>2, BufferOf DEF Locking
  <2> QED
    BY <1>1, <1>2, <1>e, <2>1, <2>2 DEF StepOthers
<1>6. StepCounts(p)
  <2>1. ASSUME NEW j \in Buf
        PROVE  buf'[j].refcnt = Cardinality({q \in Proc : proc'[q].b = j})
    <3>1. buf[j].refcnt = Cardinality({q \in Proc : proc[q].b = j})
      BY <1>a DEF RefcntExact
    <3>2. CASE j = i
      <4>1. Cardinality({q \in Proc : proc'[q].b = i})
              = Cardinality({q \in Proc : proc[q].b = i}) + 1
        BY <1>d, <1>2, UserAdded
      <4>2. Cardinality({q \in Proc : proc[q].b = i}) = 0
        BY <1>d, <3>1, <3>2
      <4>3. buf'[i].refcnt = 1
        BY <1>1
      <4> QED
        BY SMT, <3>2, <4>1, <4>2, <4>3
    <3>3. CASE j # i
      <4>1. j # 0
        BY <1>a, BufFacts
      <4>2. {q \in Proc : proc'[q].b = j} = {q \in Proc : proc[q].b = j}
        BY <1>d, <1>2, <3>3, <4>1
      <4> QED
        BY <1>1, <3>1, <3>3, <4>2
    <3> QED
      BY <3>2, <3>3
  <2>2. ASSUME NEW j \in Buf
        PROVE  buf'[j].lock = p <=> proc'[p].b = j /\ proc'[p].pc \in Locking
    <3>1. buf[j].lock # p
      <4>1. proc[p].pc \notin Locking
        BY <1>c DEF Locking
      <4> QED
        BY <4>1, LockIff
    <3> QED
      BY <1>1, <1>2, <3>1 DEF Locking
  <2> QED
    BY <1>1, <2>1, <2>2 DEF StepCounts
<1>7. StepData(p)
  BY <1>1 DEF StepData
<1>8. StepLockers
  <2>1. ASSUME NEW q \in Proc, proc'[q].pc = "sleep_lock"
        PROVE  buf'[proc'[q].b].lock # None
    <3>1. proc[q].pc = "sleep_lock" /\ proc'[q].b = proc[q].b /\ proc[q].b \in Buf
      BY <1>2, <2>1, BufferOf
    <3>2. buf[proc[q].b].lock # None
      BY <1>a, <3>1 DEF SleepersAwaited, At
    <3> QED
      BY <1>1, <3>1, <3>2
  <2> QED
    BY <2>1 DEF StepLockers
<1>9. OneBuffer'
  <2>1. SUFFICES ASSUME NEW j \in Buf, NEW k \in Buf, buf'[j].blockno = buf'[k].blockno
                 PROVE  j = k \/ buf'[j].blockno = None
    BY DEF OneBuffer
  <2>2. /\ buf'[j].blockno = IF j = i THEN bn ELSE buf[j].blockno
        /\ buf'[k].blockno = IF k = i THEN bn ELSE buf[k].blockno
    BY <1>1
  <2>3. buf[j].blockno # bn /\ buf[k].blockno # bn
    BY <1>c
  <2>4. buf[j].blockno = buf[k].blockno => j = k \/ buf[j].blockno = None
    BY <1>a DEF OneBuffer
  <2> QED
    BY <2>1, <2>2, <2>3, <2>4
<1> QED
  BY <1>3, <1>4, <1>5, <1>6, <1>7, <1>8, <1>9, CacheStep

\* acquiresleep() gets the lock.
LEMMA acquiresleepLocks ==
  ASSUME BioInv, NEW p \in Proc, acquiresleep(p), buf[proc[p].b].lock = None
  PROVE  BioInv'
<1> DEFINE i == proc[p].b
<1>a. /\ TypeOK /\ PlaceInv /\ OneBuffer /\ RefcntExact /\ SleepersAwaited /\ DataInv
      /\ buf \in [Buf -> BufRec] /\ proc \in [Proc -> ProcRec]
      /\ lru \in [Buf -> Buf] /\ Range(lru) = Buf
  BY DEF BioInv, TypeOK
<1>b. /\ buf' = [buf EXCEPT ![i].lock = p]
      /\ proc' = [proc EXCEPT ![p].pc = IF buf[i].valid THEN "use" ELSE "alloc",
                              ![p].write = FALSE]
  BY DEF acquiresleep
<1>c. proc[p].pc = "acquiresleep" /\ UNCHANGED driver /\ lru' = lru
  BY DEF acquiresleep, At
<1>d. i \in Buf /\ i # 0 /\ buf[i] \in BufRec /\ buf[i].blockno \in Block /\ buf[i].lock = None
  BY <1>a, <1>c, BufferOf, BufFacts
<1> HIDE DEF i
<1>1. /\ buf' \in [Buf -> BufRec]
      /\ \A j \in Buf :
           /\ buf'[j].blockno = buf[j].blockno
           /\ buf'[j].valid = buf[j].valid
           /\ buf'[j].disk = buf[j].disk
           /\ buf'[j].data = buf[j].data
           /\ buf'[j].refcnt = buf[j].refcnt
           /\ buf'[j].lock = IF j = i THEN p ELSE buf[j].lock
  <2> DEFINE r == [buf[i] EXCEPT !.lock = p]
  <2>1. /\ r \in BufRec
        /\ r.blockno = buf[i].blockno /\ r.valid = buf[i].valid /\ r.disk = buf[i].disk
        /\ r.data = buf[i].data /\ r.refcnt = buf[i].refcnt
        /\ r.lock = p
    BY <1>d DEF BufRec
  <2>2. buf' = [buf EXCEPT ![i] = r]
    BY <1>b
  <2> HIDE DEF r
  <2> QED
    BY <1>a, <2>1, <2>2
<1>2. /\ proc' \in [Proc -> ProcRec]
      /\ \A q \in Proc :
           /\ proc'[q].b = proc[q].b /\ proc'[q].id = proc[q].id
           /\ proc'[q].write = IF q = p THEN FALSE ELSE proc[q].write
           /\ q # p => proc'[q].pc = proc[q].pc
      /\ proc[p].b = i
      /\ \/ proc'[p].pc = "use" /\ buf[i].valid
         \/ proc'[p].pc = "alloc" /\ ~buf[i].valid
  <2> DEFINE to == IF buf[i].valid THEN "use" ELSE "alloc"
  <2> DEFINE r == [proc[p] EXCEPT !.pc = to, !.write = FALSE]
  <2>1. proc[p] \in ProcRec /\ to \in Pc /\ proc[p].b = i
    BY <1>a, ProcFacts DEF Pc, i
  <2>2. \/ to = "use" /\ buf[i].valid
        \/ to = "alloc" /\ ~buf[i].valid
    BY <1>a, <1>d, BufFacts
  <2>3. proc' = [proc EXCEPT ![p] = r]
    BY <1>b
  <2> HIDE DEF to
  <2>4. /\ r \in ProcRec /\ r.pc = to /\ r.b = proc[p].b
        /\ r.write = FALSE /\ r.id = proc[p].id
    BY <2>1 DEF ProcRec
  <2> HIDE DEF r
  <2> QED
    BY <1>a, <2>1, <2>2, <2>3, <2>4
<1>3. StepTyped(p)
  <2>1. proc[p].pc \notin InDisk
    BY <1>c DEF InDisk
  <2>2. proc'[p].pc \notin {"sleep_free", "sleep_disk", "done"}
    BY <1>2
  <2> QED
    BY <1>a, <1>c, <1>1, <1>2, <2>1, <2>2 DEF StepTyped
<1>4. StepOwn(p)
  <2>1. /\ proc'[p].b = i /\ buf'[i].blockno = buf[i].blockno /\ buf'[i].valid = buf[i].valid
        /\ proc'[p].write = FALSE
    BY <1>d, <1>1, <1>2
  <2> QED
    BY <1>d, <1>2, <2>1 DEF StepOwn
<1>5. StepOthers(p)
  <2>1. ASSUME NEW q \in Proc, proc[q].b # 0
        PROVE  proc[q].b \in Buf
    BY <1>a, <2>1, ProcFacts
  <2>2. ASSUME NEW q \in Proc, proc[q].pc \in Locking
        PROVE  proc[q].b \in Buf
    BY <2>2, BufferOf DEF Locking
  <2> QED
    BY <1>1, <1>2, <2>1, <2>2 DEF StepOthers
<1>6. StepCounts(p)
  <2>1. ASSUME NEW j \in Buf
        PROVE  buf'[j].refcnt = Cardinality({q \in Proc : proc'[q].b = j})
    <3>1. {q \in Proc : proc'[q].b = j} = {q \in Proc : proc[q].b = j}
      BY <1>2
    <3>2. buf[j].refcnt = Cardinality({q \in Proc : proc[q].b = j})
      BY <1>a DEF RefcntExact
    <3> QED
      BY <1>1, <3>1, <3>2
  <2>2. ASSUME NEW j \in Buf
        PROVE  buf'[j].lock = p <=> proc'[p].b = j /\ proc'[p].pc \in Locking
    <3>1. buf[j].lock # p
      <4>1. proc[p].pc \notin Locking
        BY <1>c DEF Locking
      <4> QED
        BY <4>1, LockIff
    <3> QED
      BY <1>1, <1>2, <3>1 DEF Locking
  <2>3. ASSUME NEW j \in Buf, NEW q \in Proc, q # p
        PROVE  buf'[j].lock = q <=> buf[j].lock = q
    BY ZenonT(60), <1>d, <1>1, <2>3, VirtioAssumption
  <2> QED
    BY <1>1, <2>1, <2>2, <2>3 DEF StepCounts
<1>7. StepData(p)
  BY <1>1 DEF StepData
<1>8. StepLockers
  <2>1. ASSUME NEW q \in Proc, proc'[q].pc = "sleep_lock"
        PROVE  buf'[proc'[q].b].lock # None
    <3>1. proc[q].pc = "sleep_lock" /\ proc'[q].b = proc[q].b /\ proc[q].b \in Buf
      BY <1>2, <2>1, BufferOf
    <3>2. buf[proc[q].b].lock # None
      BY <1>a, <3>1 DEF SleepersAwaited, At
    <3>3. p # None
      BY VirtioAssumption
    <3> QED
      BY <1>1, <3>1, <3>2, <3>3
  <2> QED
    BY <2>1 DEF StepLockers
<1>9. OneBuffer'
  BY SMT, <1>a, <1>1 DEF OneBuffer
<1> QED
  BY <1>3, <1>4, <1>5, <1>6, <1>7, <1>8, <1>9, CacheStep

\* acquiresleep() finds the lock taken.
LEMMA acquiresleepSleeps ==
  ASSUME BioInv, NEW p \in Proc, acquiresleep(p), buf[proc[p].b].lock # None
  PROVE  BioInv'
<1>a. /\ TypeOK /\ PlaceInv /\ OneBuffer /\ RefcntExact /\ SleepersAwaited /\ DataInv
      /\ buf \in [Buf -> BufRec] /\ proc \in [Proc -> ProcRec]
      /\ lru \in [Buf -> Buf] /\ Range(lru) = Buf
  BY DEF BioInv, TypeOK
<1>b. buf' = buf /\ proc' = [proc EXCEPT ![p].pc = "sleep_lock"]
  BY DEF acquiresleep, Goto
<1>c. proc[p].pc = "acquiresleep" /\ UNCHANGED driver /\ lru' = lru
  BY DEF acquiresleep, At
<1>d. proc[p].b \in Buf /\ proc[p].b # 0 /\ buf[proc[p].b].blockno \in Block
  BY <1>c, BufferOf
<1>1. buf' = buf
  BY <1>b
<1>2. /\ proc' \in [Proc -> ProcRec]
      /\ \A q \in Proc :
           /\ proc'[q].b = proc[q].b /\ proc'[q].id = proc[q].id
           /\ proc'[q].write = proc[q].write
           /\ proc'[q].pc = IF q = p THEN "sleep_lock" ELSE proc[q].pc
  <2> DEFINE r == [proc[p] EXCEPT !.pc = "sleep_lock"]
  <2>1. proc[p] \in ProcRec /\ "sleep_lock" \in Pc
    BY <1>a, ProcFacts DEF Pc
  <2>2. /\ r \in ProcRec /\ r.pc = "sleep_lock" /\ r.b = proc[p].b
        /\ r.write = proc[p].write /\ r.id = proc[p].id
    BY <2>1 DEF ProcRec
  <2>3. proc' = [proc EXCEPT ![p] = r]
    BY <1>b
  <2> HIDE DEF r
  <2> QED
    BY <1>a, <2>2, <2>3
<1>3. StepTyped(p)
  <2>1. proc[p].pc \notin InDisk
    BY <1>c DEF InDisk
  <2>2. proc'[p].pc \notin {"sleep_free", "sleep_disk", "done"}
    BY <1>2
  <2> QED
    BY <1>a, <1>c, <1>1, <1>2, <2>1, <2>2 DEF StepTyped
<1>4. StepOwn(p)
  BY <1>1, <1>d, <1>2 DEF StepOwn
<1>5. StepOthers(p)
  BY <1>1, <1>2 DEF StepOthers
<1>6. StepCounts(p)
  <2>1. ASSUME NEW j \in Buf
        PROVE  buf'[j].refcnt = Cardinality({q \in Proc : proc'[q].b = j})
    <3>1. {q \in Proc : proc'[q].b = j} = {q \in Proc : proc[q].b = j}
      BY <1>2
    <3>2. buf[j].refcnt = Cardinality({q \in Proc : proc[q].b = j})
      BY <1>a DEF RefcntExact
    <3> QED
      BY <1>1, <3>1, <3>2
  <2>2. ASSUME NEW j \in Buf
        PROVE  buf'[j].lock = p <=> proc'[p].b = j /\ proc'[p].pc \in Locking
    <3>1. buf[j].lock # p
      <4>1. proc[p].pc \notin Locking
        BY <1>c DEF Locking
      <4> QED
        BY <4>1, LockIff
    <3> QED
      BY <1>1, <1>2, <3>1 DEF Locking
  <2> QED
    BY <1>1, <2>1, <2>2 DEF StepCounts
<1>7. StepData(p)
  BY <1>1 DEF StepData
<1>8. StepLockers
  <2>1. ASSUME NEW q \in Proc, proc'[q].pc = "sleep_lock"
        PROVE  buf'[proc'[q].b].lock # None
    <3>1. CASE q = p
      BY <1>1, <1>2, <3>1
    <3>2. CASE q # p
      BY <1>a, <1>1, <1>2, <2>1, <3>2 DEF SleepersAwaited, At
    <3> QED
      BY <3>1, <3>2
  <2> QED
    BY <2>1 DEF StepLockers
<1>9. OneBuffer'
  BY <1>a, <1>1 DEF OneBuffer
<1> QED
  BY <1>3, <1>4, <1>5, <1>6, <1>7, <1>8, <1>9, CacheStep

LEMMA acquiresleepInv ==
  ASSUME BioInv, NEW p \in Proc, acquiresleep(p)
  PROVE  BioInv'
<1>1. CASE buf[proc[p].b].lock = None
  BY <1>1, acquiresleepLocks
<1>2. CASE buf[proc[p].b].lock # None
  BY <1>2, acquiresleepSleeps
<1> QED
  BY <1>1, <1>2

LEMMA bwriteInv ==
  ASSUME BioInv, NEW p \in Proc, NEW v \in Value, bwrite(p, v)
  PROVE  BioInv'
<1> DEFINE i == proc[p].b
<1>a. /\ TypeOK /\ PlaceInv /\ OneBuffer /\ RefcntExact /\ SleepersAwaited /\ DataInv
      /\ buf \in [Buf -> BufRec] /\ proc \in [Proc -> ProcRec]
      /\ lru \in [Buf -> Buf] /\ Range(lru) = Buf
  BY DEF BioInv, TypeOK
<1>b. /\ buf' = [buf EXCEPT ![i].data = v]
      /\ proc' = [proc EXCEPT ![p].pc = "alloc", ![p].write = TRUE]
  BY DEF bwrite
<1>c. proc[p].pc = "use" /\ UNCHANGED driver /\ lru' = lru
  BY DEF bwrite, At
<1>d. /\ i \in Buf /\ i # 0 /\ buf[i] \in BufRec /\ buf[i].blockno \in Block
      /\ buf[i].valid = TRUE
  <2>1. buf[i].valid
    BY <1>a, <1>c DEF DataInv, At
  <2>2. i \in Buf /\ i # 0 /\ buf[i].blockno \in Block
    BY <1>c, BufferOf
  <2>3. buf[i] \in BufRec /\ buf[i].valid \in BOOLEAN
    BY <1>a, <2>2, BufFacts
  <2> QED
    BY <2>1, <2>2, <2>3
<1>e. ASSUME NEW q \in Proc, q # p, proc[q].pc \in Locking
      PROVE  proc[q].b # i
  BY <1>c, <1>e, OneLocker DEF Locking
<1> HIDE DEF i
<1>1. /\ buf' \in [Buf -> BufRec]
      /\ \A j \in Buf :
           /\ buf'[j].blockno = buf[j].blockno
           /\ buf'[j].valid = buf[j].valid
           /\ buf'[j].disk = buf[j].disk
           /\ buf'[j].lock = buf[j].lock
           /\ buf'[j].refcnt = buf[j].refcnt
           /\ buf'[j].data = IF j = i THEN v ELSE buf[j].data
  <2> DEFINE r == [buf[i] EXCEPT !.data = v]
  <2>1. /\ r \in BufRec
        /\ r.blockno = buf[i].blockno /\ r.valid = buf[i].valid /\ r.disk = buf[i].disk
        /\ r.lock = buf[i].lock /\ r.refcnt = buf[i].refcnt
        /\ r.data = v
    BY <1>d DEF BufRec
  <2>2. buf' = [buf EXCEPT ![i] = r]
    BY <1>b
  <2> HIDE DEF r
  <2> QED
    BY <1>a, <2>1, <2>2
<1>2. /\ proc' \in [Proc -> ProcRec]
      /\ \A q \in Proc :
           /\ proc'[q].b = proc[q].b /\ proc'[q].id = proc[q].id
           /\ proc'[q].write = IF q = p THEN TRUE ELSE proc[q].write
           /\ proc'[q].pc = IF q = p THEN "alloc" ELSE proc[q].pc
      /\ proc[p].b = i
  <2> DEFINE r == [proc[p] EXCEPT !.pc = "alloc", !.write = TRUE]
  <2>1. proc[p] \in ProcRec /\ "alloc" \in Pc /\ proc[p].b = i
    BY <1>a, ProcFacts DEF Pc, i
  <2>2. /\ r \in ProcRec /\ r.pc = "alloc" /\ r.b = proc[p].b
        /\ r.write = TRUE /\ r.id = proc[p].id
    BY <2>1 DEF ProcRec
  <2>3. proc' = [proc EXCEPT ![p] = r]
    BY <1>b
  <2> HIDE DEF r
  <2> QED
    BY <1>a, <2>1, <2>2, <2>3
<1>3. StepTyped(p)
  <2>1. proc[p].pc \notin InDisk
    BY <1>c DEF InDisk
  <2>2. proc'[p].pc \notin {"sleep_free", "sleep_disk", "done"}
    BY <1>2
  <2> QED
    BY <1>a, <1>c, <1>1, <1>2, <2>1, <2>2 DEF StepTyped
<1>4. StepOwn(p)
  <2>1. /\ proc'[p].b = i /\ buf'[i].blockno = buf[i].blockno /\ buf'[i].valid = TRUE
        /\ proc'[p].write = TRUE /\ proc'[p].pc = "alloc"
    BY <1>d, <1>1, <1>2
  <2> QED
    BY <1>d, <2>1 DEF StepOwn
<1>5. StepOthers(p)
  <2>1. ASSUME NEW q \in Proc, proc[q].b # 0
        PROVE  proc[q].b \in Buf
    BY <1>a, <2>1, ProcFacts
  <2>2. ASSUME NEW q \in Proc, proc[q].pc \in Locking
        PROVE  proc[q].b \in Buf
    BY <2>2, BufferOf DEF Locking
  <2> QED
    BY <1>e, <1>1, <1>2, <2>1, <2>2 DEF StepOthers
<1>6. StepCounts(p)
  <2>1. ASSUME NEW j \in Buf
        PROVE  buf'[j].refcnt = Cardinality({q \in Proc : proc'[q].b = j})
    <3>1. {q \in Proc : proc'[q].b = j} = {q \in Proc : proc[q].b = j}
      BY <1>2
    <3>2. buf[j].refcnt = Cardinality({q \in Proc : proc[q].b = j})
      BY <1>a DEF RefcntExact
    <3> QED
      BY <1>1, <3>1, <3>2
  <2>2. ASSUME NEW j \in Buf
        PROVE  buf'[j].lock = p <=> proc'[p].b = j /\ proc'[p].pc \in Locking
    <3>1. buf[j].lock = p <=> proc[p].b = j
      BY <1>c, LockIff DEF Locking
    <3> QED
      BY <1>1, <1>2, <3>1 DEF Locking
  <2> QED
    BY <1>1, <2>1, <2>2 DEF StepCounts
<1>7. StepData(p)
  <2>1. ASSUME NEW j \in Buf, j = i
        PROVE  /\ buf'[j].blockno \in Block /\ buf'[j].data \in Value
               /\ proc'[p].b = j /\ proc'[p].pc = "alloc" /\ proc'[p].write
    BY <1>d, <1>1, <1>2, <2>1
  <2>2. ASSUME NEW j \in Buf, j # i
        PROVE  /\ buf'[j].blockno = buf[j].blockno /\ buf'[j].valid = buf[j].valid
               /\ buf'[j].data = buf[j].data
    BY <1>1, <2>2
  <2> QED
    BY <2>1, <2>2 DEF StepData
<1>8. StepLockers
  <2>1. ASSUME NEW q \in Proc, proc'[q].pc = "sleep_lock"
        PROVE  buf'[proc'[q].b].lock # None
    <3>1. proc[q].pc = "sleep_lock" /\ proc'[q].b = proc[q].b /\ proc[q].b \in Buf
      BY <1>2, <2>1, BufferOf
    <3>2. buf[proc[q].b].lock # None
      BY <1>a, <3>1 DEF SleepersAwaited, At
    <3> QED
      BY <1>1, <3>1, <3>2
  <2> QED
    BY <2>1 DEF StepLockers
<1>9. OneBuffer'
  BY SMT, <1>a, <1>1 DEF OneBuffer
<1> QED
  BY <1>3, <1>4, <1>5, <1>6, <1>7, <1>8, <1>9, CacheStep

LEMMA brelseInv ==
  ASSUME BioInv, NEW p \in Proc, brelse(p)
  PROVE  BioInv'
<1> DEFINE i == proc[p].b
<1> DEFINE w == Released(i)
<1>a. /\ TypeOK /\ PlaceInv /\ OneBuffer /\ RefcntExact /\ SleepersAwaited /\ DataInv
      /\ buf \in [Buf -> BufRec] /\ proc \in [Proc -> ProcRec]
      /\ lru \in [Buf -> Buf] /\ Range(lru) = Buf
  BY DEF BioInv, TypeOK
<1>b. /\ buf' = [buf EXCEPT ![i].lock = None]
      /\ proc' = [w EXCEPT ![p].pc = "brelse"]
  BY DEF brelse
<1>c. proc[p].pc = "use" /\ UNCHANGED driver /\ lru' = lru
  BY DEF brelse, At
<1>d. /\ i \in Buf /\ i # 0 /\ buf[i] \in BufRec /\ buf[i].blockno \in Block
  <2>1. i \in Buf /\ i # 0 /\ buf[i].blockno \in Block
    BY <1>c, BufferOf
  <2> QED
    BY <1>a, <2>1, BufFacts
<1>e. w \in [Proc -> ProcRec] /\
      \A q \in Proc : /\ w[q].b = proc[q].b /\ w[q].write = proc[q].write
                      /\ w[q].id = proc[q].id
                      /\ w[q].pc = IF proc[q].pc = "sleep_lock" /\ proc[q].b = i
                                  THEN "acquiresleep" ELSE proc[q].pc
  <2>1. "acquiresleep" \in Pc
    BY DEF Pc
  <2>2. ASSUME NEW q \in Proc
        PROVE  /\ w[q] \in ProcRec
               /\ w[q].b = proc[q].b /\ w[q].write = proc[q].write
               /\ w[q].id = proc[q].id
               /\ w[q].pc = IF proc[q].pc = "sleep_lock" /\ proc[q].b = i
                           THEN "acquiresleep" ELSE proc[q].pc
    BY <1>a, <2>1 DEF Released, Wakeup, ProcRec
  <2>3. w = [q \in Proc |-> w[q]]
    BY DEF Released, Wakeup
  <2> QED
    BY <2>2, <2>3
<1>f. proc[p].b = i
  OBVIOUS
<1> HIDE DEF i, w
<1>1. /\ buf' \in [Buf -> BufRec]
      /\ \A j \in Buf :
           /\ buf'[j].blockno = buf[j].blockno
           /\ buf'[j].valid = buf[j].valid
           /\ buf'[j].disk = buf[j].disk
           /\ buf'[j].data = buf[j].data
           /\ buf'[j].refcnt = buf[j].refcnt
           /\ buf'[j].lock = IF j = i THEN None ELSE buf[j].lock
  <2> DEFINE r == [buf[i] EXCEPT !.lock = None]
  <2>1. /\ r \in BufRec
        /\ r.blockno = buf[i].blockno /\ r.valid = buf[i].valid /\ r.disk = buf[i].disk
        /\ r.data = buf[i].data /\ r.refcnt = buf[i].refcnt
        /\ r.lock = None
    BY <1>d DEF BufRec
  <2>2. buf' = [buf EXCEPT ![i] = r]
    BY <1>b
  <2> HIDE DEF r
  <2> QED
    BY <1>a, <2>1, <2>2
<1>2. /\ proc' \in [Proc -> ProcRec]
      /\ \A q \in Proc :
           /\ proc'[q].b = proc[q].b /\ proc'[q].id = proc[q].id
           /\ proc'[q].write = proc[q].write
           /\ proc'[q].pc = IF q = p THEN "brelse"
                           ELSE IF proc[q].pc = "sleep_lock" /\ proc[q].b = i
                                THEN "acquiresleep" ELSE proc[q].pc
  <2> DEFINE r == [w[p] EXCEPT !.pc = "brelse"]
  <2>1. w[p] \in ProcRec /\ "brelse" \in Pc
    BY <1>e DEF Pc
  <2>2. /\ r \in ProcRec /\ r.pc = "brelse" /\ r.b = w[p].b
        /\ r.write = w[p].write /\ r.id = w[p].id
    BY <2>1 DEF ProcRec
  <2>3. proc' = [w EXCEPT ![p] = r]
    BY <1>b
  <2> HIDE DEF r
  <2> QED
    BY <1>e, <2>2, <2>3
<1>3. StepTyped(p)
  <2>1. proc[p].pc \notin InDisk
    BY <1>c DEF InDisk
  <2>2. proc'[p].pc \notin {"sleep_free", "sleep_disk", "done"}
    BY <1>2
  <2> QED
    BY <1>a, <1>c, <1>1, <1>2, <2>1, <2>2 DEF StepTyped
<1>4. StepOwn(p)
  <2>1. /\ proc'[p].b = i /\ buf'[i].blockno = buf[i].blockno /\ proc'[p].pc = "brelse"
    BY <1>d, <1>f, <1>1, <1>2
  <2> QED
    BY <1>d, <2>1 DEF StepOwn
<1>5. StepOthers(p)
  <2>1. ASSUME NEW q \in Proc, proc[q].b # 0
        PROVE  proc[q].b \in Buf
    BY <1>a, <2>1, ProcFacts
  <2>2. ASSUME NEW q \in Proc, proc[q].pc \in Locking
        PROVE  proc[q].b \in Buf
    BY <2>2, BufferOf DEF Locking
  <2> QED
    BY <1>1, <1>2, <2>1, <2>2 DEF StepOthers
<1>6. StepCounts(p)
  <2>1. ASSUME NEW j \in Buf
        PROVE  buf'[j].refcnt = Cardinality({q \in Proc : proc'[q].b = j})
    <3>1. {q \in Proc : proc'[q].b = j} = {q \in Proc : proc[q].b = j}
      BY <1>2
    <3>2. buf[j].refcnt = Cardinality({q \in Proc : proc[q].b = j})
      BY <1>a DEF RefcntExact
    <3> QED
      BY <1>1, <3>1, <3>2
  <2>2. ASSUME NEW j \in Buf, NEW q \in Proc
        PROVE  /\ buf'[j].lock # p
               /\ q # p => (buf'[j].lock = q <=> buf[j].lock = q)
    <3>1. buf[j].lock = p <=> j = i
      BY <1>c, <1>f, LockIff DEF Locking
    <3>2. p # None /\ q # None
      BY VirtioAssumption
    <3> QED
      BY <1>1, <3>1, <3>2
  <2>3. ~(proc'[p].pc \in Locking)
    BY <1>2 DEF Locking
  <2> QED
    BY <1>1, <2>1, <2>2, <2>3 DEF StepCounts
<1>7. StepData(p)
  BY <1>1 DEF StepData
<1>8. StepLockers
  <2>1. ASSUME NEW q \in Proc, proc'[q].pc = "sleep_lock"
        PROVE  buf'[proc'[q].b].lock # None
    <3>1. proc[q].pc = "sleep_lock" /\ proc'[q].b = proc[q].b /\ proc[q].b # i
      BY <1>2, <2>1
    <3>2. proc[q].b \in Buf
      BY <3>1, BufferOf
    <3>3. buf[proc[q].b].lock # None
      BY <1>a, <3>1 DEF SleepersAwaited, At
    <3> QED
      BY <1>1, <3>1, <3>2, <3>3
  <2> QED
    BY <2>1 DEF StepLockers
<1>9. OneBuffer'
  BY SMT, <1>a, <1>1 DEF OneBuffer
<1> QED
  BY <1>3, <1>4, <1>5, <1>6, <1>7, <1>8, <1>9, CacheStep

\* The list stays a list of all buffers.
LEMMA MostRecentFacts ==
  ASSUME TypeOK, NEW i \in Buf
  PROVE  MostRecent(i) \in [Buf -> Buf] /\ Range(MostRecent(i)) = Buf
<1> DEFINE at == CHOOSE k \in Buf : lru[k] = i
<1> DEFINE m == [k \in Buf |-> IF k = 1 THEN i ELSE IF k <= at THEN lru[k - 1] ELSE lru[k]]
<1>1. lru \in [Buf -> Buf] /\ Range(lru) = Buf
  BY DEF TypeOK
<1>2. ASSUME NEW j \in Buf
      PROVE  \E k \in Buf : lru[k] = j
  BY <1>1 DEF Range
<1>3. at \in Buf /\ lru[at] = i
  BY <1>2
<1>4. MostRecent(i) = m
  BY DEF MostRecent
<1> HIDE DEF at
<1>5. Buf \subseteq Nat /\ \A k \in Buf : k >= 1 /\ k <= NBUF
  BY SMT, VirtioAssumption DEF Buf
<1>6. \A k \in Nat : k >= 1 /\ k <= NBUF => k \in Buf
  BY SMT, VirtioAssumption DEF Buf
<1>7. ASSUME NEW k \in Buf
      PROVE  m[k] \in Buf
  <2>1. k # 1 => k - 1 \in Buf
    BY SMT, <1>5, <1>6, VirtioAssumption
  <2> QED
    BY <1>1, <2>1
<1>8. m \in [Buf -> Buf]
  BY <1>7
<1>9. ASSUME NEW j \in Buf
      PROVE  \E k \in Buf : m[k] = j
  <2>1. PICK k \in Buf : lru[k] = j
    BY <1>2
  <2>2. CASE k = at
    <3>1. 1 \in Buf /\ m[1] = i
      BY SMT, <1>5, <1>6, VirtioAssumption
    <3> QED
      BY <1>3, <2>1, <2>2, <3>1
  <2>3. CASE k < at
    <3>1. k + 1 \in Buf /\ k + 1 # 1 /\ k + 1 <= at /\ (k + 1) - 1 = k
      BY SMT, <1>3, <1>5, <1>6, <2>3, VirtioAssumption
    <3>2. m[k + 1] = lru[k]
      BY <3>1
    <3> QED
      BY <2>1, <3>1, <3>2
  <2>4. CASE k > at
    <3>1. k # 1 /\ ~(k <= at)
      BY SMT, <1>3, <1>5, <2>4
    <3>2. m[k] = lru[k]
      BY <3>1
    <3> QED
      BY <2>1, <3>2
  <2>5. k \in Nat /\ at \in Nat
    BY <1>3, <1>5
  <2> QED
    BY SMT, <2>2, <2>3, <2>4, <2>5
<1> HIDE DEF m
<1>10. Range(m) = Buf
  BY <1>8, <1>9 DEF Range
<1> QED
  BY <1>4, <1>8, <1>10

LEMMA brelse_endInv ==
  ASSUME BioInv, NEW p \in Proc, brelse_end(p)
  PROVE  BioInv'
<1> DEFINE i == proc[p].b
<1>a. /\ TypeOK /\ PlaceInv /\ OneBuffer /\ RefcntExact /\ SleepersAwaited /\ DataInv
      /\ buf \in [Buf -> BufRec] /\ proc \in [Proc -> ProcRec]
      /\ lru \in [Buf -> Buf] /\ Range(lru) = Buf
  BY DEF BioInv, TypeOK
<1>b. /\ buf' = [buf EXCEPT ![i].refcnt = @ - 1]
      /\ proc' = [proc EXCEPT ![p] = [pc |-> "user", b |-> 0, write |-> FALSE, id |-> 0]]
      /\ lru' = IF buf[i].refcnt = 1 THEN MostRecent(i) ELSE lru
  BY DEF brelse_end
<1>c. proc[p].pc = "brelse" /\ UNCHANGED driver
  BY DEF brelse_end, At
<1>d. /\ i \in Buf /\ i # 0 /\ buf[i] \in BufRec
  <2>1. i \in Buf /\ i # 0
    BY <1>c, BufferOf
  <2> QED
    BY <1>a, <2>1, BufFacts
<1>e. proc[p].b = i
  OBVIOUS
<1> HIDE DEF i
<1>2. /\ proc' \in [Proc -> ProcRec]
      /\ \A q \in Proc :
           /\ q # p => proc'[q].write = proc[q].write /\ proc'[q].id = proc[q].id
           /\ proc'[q].b = IF q = p THEN 0 ELSE proc[q].b
           /\ proc'[q].pc = IF q = p THEN "user" ELSE proc[q].pc
  <2> DEFINE r == [pc |-> "user", b |-> 0, write |-> FALSE, id |-> 0]
  <2>1. "user" \in Pc /\ 0 \in 0..NBUF /\ FALSE \in BOOLEAN
    BY SMT, VirtioAssumption DEF Pc
  <2>2. 0 \in Desc
    <3>1. PICK n \in Nums : Desc = 0..(n - 1)
      BY <1>a DEF PlaceInv
    <3>2. n \in Nat \ 0..2
      BY VirtioAssumption
    <3> QED
      BY SMT, <3>1, <3>2
  <2>3. r \in ProcRec /\ r.pc = "user" /\ r.b = 0
    BY <2>1, <2>2 DEF ProcRec
  <2>4. proc' = [proc EXCEPT ![p] = r]
    BY <1>b
  <2> HIDE DEF r
  <2> QED
    BY <1>a, <2>3, <2>4
<1>f. /\ Cardinality({q \in Proc : proc'[q].b = i}) \in Nat
      /\ buf[i].refcnt = Cardinality({q \in Proc : proc'[q].b = i}) + 1
  <2>1. buf[i].refcnt = Cardinality({q \in Proc : proc[q].b = i})
    BY <1>a, <1>d DEF RefcntExact
  <2>2. \A q \in Proc : q # p => proc'[q].b = proc[q].b
    BY <1>2
  <2>3. proc'[p].b # i
    BY <1>d, <1>2
  <2>4. /\ Cardinality({q \in Proc : proc'[q].b = i}) \in Nat
        /\ Cardinality({q \in Proc : proc[q].b = i})
            = Cardinality({q \in Proc : proc'[q].b = i}) + 1
    BY <1>d, <1>e, <2>2, <2>3, UserRemoved
  <2> QED
    BY <2>1, <2>4
<1>1. /\ buf' \in [Buf -> BufRec]
      /\ \A j \in Buf :
           /\ buf'[j].blockno = buf[j].blockno
           /\ buf'[j].valid = buf[j].valid
           /\ buf'[j].disk = buf[j].disk
           /\ buf'[j].lock = buf[j].lock
           /\ buf'[j].data = buf[j].data
           /\ buf'[j].refcnt = IF j = i THEN Cardinality({q \in Proc : proc'[q].b = i})
                               ELSE buf[j].refcnt
  <2> DEFINE c == Cardinality({q \in Proc : proc'[q].b = i})
  <2> DEFINE r == [buf[i] EXCEPT !.refcnt = @ - 1]
  <2>1. c \in Nat /\ buf[i].refcnt = c + 1
    BY <1>f
  <2> HIDE DEF c
  <2>2. buf[i].refcnt - 1 = c
    BY SMT, <2>1
  <2>3. /\ r \in BufRec
        /\ r.blockno = buf[i].blockno /\ r.valid = buf[i].valid /\ r.disk = buf[i].disk
        /\ r.lock = buf[i].lock /\ r.data = buf[i].data
        /\ r.refcnt = c
    BY <1>d, <2>1, <2>2 DEF BufRec
  <2>4. buf' = [buf EXCEPT ![i] = r]
    BY <1>b
  <2> HIDE DEF r
  <2> QED
    BY <1>a, <2>3, <2>4 DEF c
<1>g. lru' \in [Buf -> Buf] /\ Range(lru') = Buf
  <2>1. CASE buf[i].refcnt = 1
    <3>1. lru' = MostRecent(i)
      BY <1>b, <2>1
    <3> QED
      BY <1>a, <1>d, <3>1, MostRecentFacts
  <2>2. CASE buf[i].refcnt # 1
    <3>1. lru' = lru
      BY <1>b, <2>2
    <3> QED
      BY <1>a, <3>1
  <2> QED
    BY <2>1, <2>2
<1>3. StepTyped(p)
  <2>1. proc[p].pc \notin InDisk
    BY <1>c DEF InDisk
  <2>2. proc'[p].pc \notin {"sleep_free", "sleep_disk", "done"}
    BY <1>2
  <2> QED
    BY <1>a, <1>c, <1>g, <1>1, <1>2, <2>1, <2>2 DEF StepTyped
<1>4. StepOwn(p)
  <2>1. proc'[p].b = 0 /\ proc'[p].pc = "user"
    BY <1>2
  <2> QED
    BY <2>1 DEF StepOwn
<1>5. StepOthers(p)
  <2>1. ASSUME NEW q \in Proc, proc[q].b # 0
        PROVE  proc[q].b \in Buf
    BY <1>a, <2>1, ProcFacts
  <2>2. ASSUME NEW q \in Proc, proc[q].pc \in Locking
        PROVE  proc[q].b \in Buf
    BY <2>2, BufferOf DEF Locking
  <2> QED
    BY <1>1, <1>2, <2>1, <2>2 DEF StepOthers
<1>6. StepCounts(p)
  <2>1. ASSUME NEW j \in Buf
        PROVE  buf'[j].refcnt = Cardinality({q \in Proc : proc'[q].b = j})
    <3>1. CASE j = i
      BY <1>1, <3>1
    <3>2. CASE j # i
      <4>1. j # 0
        BY <1>a, BufFacts
      <4>2. {q \in Proc : proc'[q].b = j} = {q \in Proc : proc[q].b = j}
        BY <1>e, <1>2, <3>2, <4>1
      <4>3. buf[j].refcnt = Cardinality({q \in Proc : proc[q].b = j})
        BY <1>a DEF RefcntExact
      <4> QED
        BY <1>1, <3>2, <4>2, <4>3
    <3> QED
      BY <3>1, <3>2
  <2>2. ASSUME NEW j \in Buf
        PROVE  buf'[j].lock = p <=> proc'[p].b = j /\ proc'[p].pc \in Locking
    <3>1. buf[j].lock # p
      <4>1. proc[p].pc \notin Locking
        BY <1>c DEF Locking
      <4> QED
        BY <4>1, LockIff
    <3> QED
      BY <1>1, <1>2, <3>1 DEF Locking
  <2> QED
    BY <1>1, <2>1, <2>2 DEF StepCounts
<1>7. StepData(p)
  BY <1>1 DEF StepData
<1>8. StepLockers
  <2>1. ASSUME NEW q \in Proc, proc'[q].pc = "sleep_lock"
        PROVE  buf'[proc'[q].b].lock # None
    <3>1. q # p /\ proc[q].pc = "sleep_lock" /\ proc'[q].b = proc[q].b
      BY <1>2, <2>1
    <3>2. proc[q].b \in Buf
      BY <3>1, BufferOf
    <3>3. buf[proc[q].b].lock # None
      BY <1>a, <3>1 DEF SleepersAwaited, At
    <3> QED
      BY <1>1, <3>1, <3>2, <3>3
  <2> QED
    BY <2>1 DEF StepLockers
<1>9. OneBuffer'
  <2>1. \A j \in Buf : buf'[j].blockno = buf[j].blockno
    BY <1>1
  <2> QED
    BY <1>a, <2>1 DEF OneBuffer
<1> QED
  BY <1>3, <1>4, <1>5, <1>6, <1>7, <1>8, <1>9, CacheStep

-----------------------------------------------------------------------------
(* The steps of the driver, the device and the interrupt handler           *)

LEMMA Least ==
  ASSUME NEW S \in SUBSET Nat, S # {}
  PROVE  \E d \in S : \A e \in S : d <= e
<1> DEFINE R == OpToRel(<, Nat)
<1>1. IsWellFoundedOn(R, Nat)
  BY NatLessThanWellFounded
<1>2. \A x, y \in Nat : x < y => <<x, y>> \in R
  BY DEF OpToRel
<1> HIDE DEF R
<1>3. PICK d \in S : \A e \in S : ~(<<e, d>> \in R)
  BY <1>1, WFMin
<1>4. ASSUME NEW e \in S PROVE d <= e
  <2>1. d \in Nat /\ e \in Nat
    OBVIOUS
  <2>2. ~(e < d)
    BY <1>2, <1>3, <2>1
  <2> QED
    BY SMT, <2>1, <2>2
<1> QED
  BY <1>4

LEMMA FirstFacts ==
  ASSUME NEW ds \in SUBSET Nat, ds # {}
  PROVE  First(ds) \in ds
  BY Least DEF First

\* The descriptors are finitely many natural numbers.
LEMMA DescFacts ==
  ASSUME BioInv
  PROVE  /\ Desc \subseteq Nat /\ free \subseteq Desc
         /\ IsFiniteSet(free) /\ Cardinality(free) \in Nat
<1>1. PICK n \in Nums : Desc = 0..(n - 1)
  BY DEF BioInv, PlaceInv
<1>2. n \in Int
  BY SMT, VirtioAssumption
<1>3. IsFiniteSet(Desc) /\ Desc \subseteq Nat
  BY SMT, <1>1, <1>2, FS_Interval
<1>4. free \subseteq Desc
  BY DEF BioInv, TypeOK, DriverTypeOK
<1> QED
  BY <1>3, <1>4, FS_Subset, FS_CardinalityType

\* alloc3_desc() gets three different descriptors, and they are no longer
\* free.
LEMMA Alloc3Facts ==
  ASSUME BioInv, Cardinality(free) >= 3
  PROVE  \E i, j, k \in free :
           /\ i # j /\ i # k /\ j # k
           /\ alloc3_desc = <<i, j, k>>
           /\ Cardinality(free \ {i, j, k}) = Cardinality(free) - 3
<1> DEFINE i == First(free)
           j == First(free \ {i})
           k == First(free \ {i, j})
<1>1. free \subseteq Nat /\ IsFiniteSet(free) /\ Cardinality(free) \in Nat
  BY DescFacts
<1>2. i \in free
  <2>1. free # {}
    BY SMT, FS_EmptySet
  <2> QED
    BY <1>1, <2>1, FirstFacts
<1>3. alloc3_desc = <<i, j, k>>
  BY DEF alloc3_desc
<1> HIDE DEF i
<1>4. /\ IsFiniteSet(free \ {i})
      /\ Cardinality(free \ {i}) = Cardinality(free) - 1
  BY <1>1, <1>2, FS_RemoveElement
<1>5. j \in free \ {i}
  <2>1. Cardinality(free \ {i}) # 0
    BY SMT, <1>1, <1>4
  <2>2. free \ {i} # {}
    BY <2>1, FS_EmptySet
  <2>3. free \ {i} \in SUBSET Nat
    BY <1>1
  <2> QED
    BY <2>2, <2>3, FirstFacts
<1> HIDE DEF j
<1>6. /\ IsFiniteSet(free \ {i, j})
      /\ Cardinality(free \ {i, j}) = Cardinality(free) - 2
  <2>1. (free \ {i}) \ {j} = free \ {i, j}
    OBVIOUS
  <2>2. /\ IsFiniteSet((free \ {i}) \ {j})
        /\ Cardinality((free \ {i}) \ {j}) = Cardinality(free \ {i}) - 1
    BY <1>4, <1>5, FS_RemoveElement
  <2> QED
    BY SMT, <1>1, <1>4, <2>1, <2>2
<1>7. k \in free \ {i, j}
  <2>1. Cardinality(free \ {i, j}) # 0
    BY SMT, <1>1, <1>6
  <2>2. free \ {i, j} # {}
    BY <2>1, FS_EmptySet
  <2>3. free \ {i, j} \in SUBSET Nat
    BY <1>1
  <2> QED
    BY <2>2, <2>3, FirstFacts
<1> HIDE DEF k
<1>8. Cardinality(free \ {i, j, k}) = Cardinality(free) - 3
  <2>1. (free \ {i, j}) \ {k} = free \ {i, j, k}
    OBVIOUS
  <2>2. Cardinality((free \ {i, j}) \ {k}) = Cardinality(free \ {i, j}) - 1
    BY <1>6, <1>7, FS_RemoveElement
  <2>3. Cardinality(free \ {i, j, k}) = Cardinality(free \ {i, j}) - 1
    BY <2>1, <2>2
  <2> QED
    BY SMT, <1>1, <1>6, <2>3
<1> QED
  BY <1>2, <1>3, <1>5, <1>7, <1>8

\* The descriptor of a request is not free, and belongs to no other request.
LEMMA Heads ==
  ASSUME BioInv, NEW p \in Pending
  PROVE  /\ p \in Proc /\ proc[p].id \in Desc
         /\ proc[p].id \in Chain(info[proc[p].id])
         /\ proc[p].id \notin free
         /\ \A q \in Pending : proc[q].id = proc[p].id => q = p
<1>1. TypeOK /\ ChainInv /\ DescExact
  BY DEF BioInv
<1>2. p \in Proc
  BY DEF Pending
<1>3. proc[p].id \in Desc
  BY <1>1, <1>2, ProcFacts
<1>4. ASSUME NEW q \in Pending
      PROVE  proc[q].id \in Chain(info[proc[q].id])
  <2> DEFINE ch == info[proc[q].id].chain
  <2>1. Len(ch) = 3 /\ ch[1] = proc[q].id
    BY <1>1 DEF ChainInv
  <2>2. ch \in Seq(Desc)
    <3>1. q \in Proc
      BY DEF Pending
    <3>2. info[proc[q].id] \in InfoRec
      BY <1>1, <3>1, ProcFacts DEF TypeOK, DriverTypeOK
    <3> QED
      BY <3>2 DEF InfoRec
  <2> HIDE DEF ch
  <2>3. 1 \in DOMAIN ch
    BY SMT, <2>1, <2>2
  <2> QED
    BY <2>1, <2>3 DEF Chain, ch
<1>5. proc[p].id \notin free
  BY <1>1, <1>4 DEF DescExact
<1>6. ASSUME NEW q \in Pending, proc[q].id = proc[p].id
      PROVE  q = p
  <2>1. SUFFICES ASSUME q # p PROVE FALSE
    OBVIOUS
  <2>2. Chain(info[proc[p].id]) \cap Chain(info[proc[q].id]) = {}
    BY <1>1, <2>1 DEF DescExact
  <2> QED
    BY <1>4, <1>6, <2>2
<1> QED
  BY <1>2, <1>3, <1>4, <1>5, <1>6

\* The requests in the rings are under way.
LEMMA RingHeads ==
  ASSUME BioInv, NEW d \in avail \cup Range(used)
  PROVE  /\ d \in Desc /\ d \notin free
         /\ \E p \in Proc : /\ p \in Pending /\ proc[p].pc = "sleep_disk" /\ proc[p].id = d
                            /\ info[d].b = proc[p].b /\ info[d].write = proc[p].write
<1>1. PICK p \in Proc : proc[p].pc = "sleep_disk" /\ proc[p].id = d
  BY DEF BioInv, RingInv, At
<1>2. p \in Pending
  BY <1>1 DEF Pending
<1>3. d \in Desc /\ d \notin free
  BY <1>1, <1>2, Heads
<1>4. info[proc[p].id].b = proc[p].b
  BY <1>2 DEF BioInv, DescExact
<1>5. info[proc[p].id].write = proc[p].write
  BY <1>2 DEF BioInv, ChainInv
<1> QED
  BY <1>1, <1>2, <1>3, <1>4, <1>5

LEMMA submitInv ==
  ASSUME BioInv, NEW p \in Proc, submit(p), UNCHANGED lru
  PROVE  BioInv'
<1>a. /\ TypeOK /\ PlaceInv /\ OneBuffer /\ RefcntExact /\ ChainInv /\ DescExact
      /\ RingInv /\ SleepersAwaited /\ DataInv
      /\ buf \in [Buf -> BufRec] /\ proc \in [Proc -> ProcRec]
      /\ info \in [Desc -> InfoRec] /\ avail \subseteq Desc
  BY DEF BioInv, TypeOK, DriverTypeOK
<1>b. /\ proc[p].pc = "alloc" /\ Cardinality(free) >= 3
      /\ UNCHANGED <<used, irq, intr, media>>
      /\ buf' = [buf EXCEPT ![proc[p].b].disk = TRUE]
  BY DEF submit, At
<1>c. PICK c1, c2, c3 \in free :
        /\ c1 # c2 /\ c1 # c3 /\ c2 # c3
        /\ alloc3_desc = <<c1, c2, c3>>
        /\ Cardinality(free \ {c1, c2, c3}) = Cardinality(free) - 3
  BY <1>b, Alloc3Facts
<1> DEFINE r == [b |-> proc[p].b, write |-> proc[p].write, chain |-> <<c1, c2, c3>>]
<1> DEFINE ch == <<c1, c2, c3>>
<1>d. /\ r.b = proc[p].b /\ r.write = proc[p].write /\ r.chain = ch
      /\ Len(ch) = 3 /\ ch[1] = c1
  OBVIOUS
<1>e. Chain(r) = {c1, c2, c3}
  <2>1. DOMAIN ch = {1, 2, 3} /\ ch[1] = c1 /\ ch[2] = c2 /\ ch[3] = c3
    BY SMT
  <2> HIDE DEF ch
  <2> QED
    BY <1>d, <2>1 DEF Chain
<1>f. /\ free' = free \ Chain(r)
      /\ info' = [info EXCEPT ![c1] = r]
      /\ avail' = avail \cup {c1}
      /\ proc' = [proc EXCEPT ![p].pc = "sleep_disk", ![p].id = c1]
  <2>1. r = [b |-> proc[p].b, write |-> proc[p].write, chain |-> alloc3_desc]
    BY <1>c
  <2>2. r.chain[1] = c1
    BY <1>d
  <2> HIDE DEF r
  <2> QED
    BY <2>1, <2>2 DEF submit
<1>g. /\ c1 \in Desc /\ c2 \in Desc /\ c3 \in Desc /\ proc[p].b \in Buf /\ proc[p].b # 0
      /\ proc[p].b \in 0..NBUF /\ proc[p].write \in BOOLEAN /\ proc[p] \in ProcRec
      /\ buf[proc[p].b] \in BufRec
  <2>1. c1 \in Desc /\ c2 \in Desc /\ c3 \in Desc
    BY DescFacts
  <2>2. proc[p].b \in Buf /\ proc[p].b # 0
    BY <1>b, BufferOf
  <2>3. proc[p].b \in 0..NBUF /\ proc[p].write \in BOOLEAN /\ proc[p] \in ProcRec
    BY <1>a, ProcFacts
  <2> QED
    BY <1>a, <2>1, <2>2, <2>3
<1>h. r \in InfoRec
  <2>1. <<c1, c2, c3>> \in Seq(Desc)
    BY SMT, <1>g
  <2> QED
    BY <1>g, <2>1 DEF InfoRec
<1> HIDE DEF r, ch
<1>1. /\ buf' \in [Buf -> BufRec]
      /\ \A j \in Buf :
           /\ buf'[j].blockno = buf[j].blockno /\ buf'[j].valid = buf[j].valid
           /\ buf'[j].lock = buf[j].lock /\ buf'[j].data = buf[j].data
           /\ buf'[j].refcnt = buf[j].refcnt
           /\ buf'[j].disk = IF j = proc[p].b THEN TRUE ELSE buf[j].disk
  <2> DEFINE t == [buf[proc[p].b] EXCEPT !.disk = TRUE]
  <2> DEFINE s == buf[proc[p].b]
  <2>1. /\ t \in BufRec /\ t.blockno = s.blockno /\ t.valid = s.valid /\ t.lock = s.lock
        /\ t.data = s.data /\ t.refcnt = s.refcnt /\ t.disk = TRUE
    BY <1>g DEF BufRec
  <2>2. buf' = [buf EXCEPT ![proc[p].b] = t]
    BY <1>b
  <2> HIDE DEF t
  <2> QED
    BY <1>a, <2>1, <2>2
<1>2. /\ proc' \in [Proc -> ProcRec]
      /\ \A q \in Proc :
           /\ proc'[q].b = proc[q].b /\ proc'[q].write = proc[q].write
           /\ proc'[q].id = IF q = p THEN c1 ELSE proc[q].id
           /\ proc'[q].pc = IF q = p THEN "sleep_disk" ELSE proc[q].pc
  <2> DEFINE t == [proc[p] EXCEPT !.pc = "sleep_disk", !.id = c1]
  <2>1. "sleep_disk" \in Pc
    BY DEF Pc
  <2>2. /\ t \in ProcRec /\ t.pc = "sleep_disk" /\ t.b = proc[p].b
        /\ t.write = proc[p].write /\ t.id = c1
    BY <1>g, <2>1 DEF ProcRec
  <2>3. proc' = [proc EXCEPT ![p] = t]
    BY <1>f
  <2> HIDE DEF t
  <2> QED
    BY <1>a, <2>2, <2>3
<1>3. /\ Desc' = Desc /\ NUM' = NUM /\ InfoRec' = InfoRec /\ ProcRec' = ProcRec
      /\ info' \in [Desc -> InfoRec] /\ info'[c1] = r
      /\ \A d \in Desc : d # c1 => info'[d] = info[d]
  <2>1. /\ info' \in [Desc -> InfoRec] /\ info'[c1] = r
        /\ \A d \in Desc : d # c1 => info'[d] = info[d]
    BY <1>a, <1>f, <1>g, <1>h
  <2>2. DOMAIN info' = DOMAIN info
    BY <1>f
  <2> QED
    BY <2>1, <2>2 DEF Desc, NUM, InfoRec, ProcRec
<1>4. /\ p \notin Pending /\ Pending' = Pending \cup {p}
      /\ \A q \in Pending : /\ q # p /\ q \in Proc /\ proc[q].id \in Desc /\ proc[q].id # c1
                             /\ info'[proc'[q].id] = info[proc[q].id]
                             /\ proc'[q].id = proc[q].id
                             /\ proc'[q].b = proc[q].b /\ proc'[q].write = proc[q].write
  <2>1. p \notin Pending /\ Pending' = Pending \cup {p}
    BY <1>b, <1>2 DEF Pending
  <2>2. ASSUME NEW q \in Pending
        PROVE  q # p /\ q \in Proc /\ proc[q].id \in Desc /\ proc[q].id # c1
    BY <2>1, Heads
  <2> QED
    BY <1>2, <1>3, <2>1, <2>2
<1>5. TypeOK'
  <2>1. free' \subseteq Desc /\ avail' \subseteq Desc
    BY <1>a, <1>f, <1>g, DescFacts
  <2> QED
    BY <1>a, <1>b, <1>1, <1>2, <1>3, <2>1 DEF TypeOK, DriverTypeOK
<1>6. PlaceInv'
  <2>1. ASSUME NEW q \in Proc
        PROVE  /\ proc'[q].pc = "user" <=> proc'[q].b = 0
               /\ proc'[q].b # 0 => buf'[proc'[q].b].blockno \in Block
    <3>1. /\ proc[q].pc = "user" <=> proc[q].b = 0
          /\ proc[q].b # 0 => buf[proc[q].b].blockno \in Block
      BY <1>a DEF PlaceInv, At
    <3>2. proc[q].b # 0 => proc[q].b \in Buf
      BY <1>a, ProcFacts
    <3>3. proc'[q].b # 0 => buf'[proc'[q].b].blockno \in Block
      <4>1. proc'[q].b = proc[q].b
        BY <1>2
      <4>2. \A j \in Buf : buf'[j].blockno = buf[j].blockno
        BY <1>1
      <4> QED
        BY <3>1, <3>2, <4>1, <4>2
    <3>4. proc'[q].pc = "user" <=> proc[q].pc = "user"
      BY <1>b, <1>2
    <3> QED
      BY <1>2, <3>1, <3>3, <3>4
  <2> QED
    BY <1>a, <1>3, <2>1 DEF PlaceInv, At
<1>7. OneBuffer'
  <2>1. \A j \in Buf : buf'[j].blockno = buf[j].blockno
    BY <1>1
  <2> QED
    BY <1>a, <2>1 DEF OneBuffer
<1>8. RefcntExact'
  <2>1. ASSUME NEW j \in Buf, NEW q \in Proc
        PROVE  buf'[j].lock = q <=> proc'[q].b = j /\ proc'[q].pc \in Locking
    <3>1. buf[j].lock = q <=> proc[q].b = j /\ proc[q].pc \in Locking
      BY LockIff
    <3>2. proc'[q].pc \in Locking <=> proc[q].pc \in Locking
      BY <1>b, <1>2 DEF Locking
    <3> QED
      BY <1>1, <1>2, <3>1, <3>2
  <2>2. \A j \in Buf : buf'[j].refcnt = buf[j].refcnt
    BY <1>1
  <2>3. \A q \in Proc : proc'[q].b = proc[q].b
    BY <1>2
  <2> QED
    BY <2>1, <2>2, <2>3, RefcntStep
<1>9. ChainInv'
  <2>1. ASSUME NEW q \in Pending'
        PROVE  /\ info'[proc'[q].id].write = proc'[q].write
               /\ Len(info'[proc'[q].id].chain) = 3
               /\ info'[proc'[q].id].chain[1] = proc'[q].id
    <3>1. CASE q = p
      <4>1. proc'[p].id = c1 /\ proc'[p].write = proc[p].write /\ info'[c1] = r
        BY <1>2, <1>3
      <4> QED
        BY <1>d, <3>1, <4>1
    <3>2. CASE q \in Pending
      BY <1>a, <1>4, <3>2 DEF ChainInv
    <3> QED
      BY <1>4, <3>1, <3>2
  <2> QED
    BY <2>1, Zenon DEF ChainInv
<1>10. DescExact'
  <2>1. proc'[p].id = c1 /\ proc'[p].b = proc[p].b /\ info'[c1] = r
    BY <1>2, <1>3
  <2>2. Cardinality({c1, c2, c3}) = 3
    <3>1. IsFiniteSet({c1}) /\ Cardinality({c1}) = 1
      BY FS_Singleton
    <3>2. IsFiniteSet({c1} \cup {c2}) /\ Cardinality({c1} \cup {c2}) = 1 + 1
      BY <1>c, <3>1, FS_AddElement
    <3>3. Cardinality(({c1} \cup {c2}) \cup {c3}) = (1 + 1) + 1
      BY <1>c, <3>2, FS_AddElement
    <3>4. ({c1} \cup {c2}) \cup {c3} = {c1, c2, c3}
      OBVIOUS
    <3> QED
      BY SMT, <3>3, <3>4
  <2>3. ASSUME NEW q \in Pending
        PROVE  /\ info[proc[q].id].b = proc[q].b
               /\ Cardinality(Chain(info[proc[q].id])) = 3
               /\ Chain(info[proc[q].id]) \cap free = {}
               /\ \A o \in Pending \ {q} :
                    Chain(info[proc[q].id]) \cap Chain(info[proc[o].id]) = {}
    BY <1>a DEF DescExact
  <2>4. ASSUME NEW q \in Pending'
        PROVE  /\ info'[proc'[q].id].b = proc'[q].b
               /\ Cardinality(Chain(info'[proc'[q].id])) = 3
               /\ Chain(info'[proc'[q].id]) \cap free' = {}
               /\ \A o \in Pending' \ {q} :
                    Chain(info'[proc'[q].id]) \cap Chain(info'[proc'[o].id]) = {}
    <3>1. CASE q = p
      <4>1. info'[proc'[q].id].b = proc'[q].b
        BY <1>d, <2>1, <3>1
      <4>2. Chain(info'[proc'[q].id]) = {c1, c2, c3}
        BY <1>e, <2>1, <3>1
      <4>3. {c1, c2, c3} \cap free' = {}
        BY <1>e, <1>f
      <4>4. ASSUME NEW o \in Pending' \ {q}
            PROVE  {c1, c2, c3} \cap Chain(info'[proc'[o].id]) = {}
        <5>1. o \in Pending
          BY <1>4, <3>1
        <5>2. Chain(info[proc[o].id]) \cap free = {}
          BY <2>3, <5>1
        <5>3. info'[proc'[o].id] = info[proc[o].id]
          BY <1>4, <5>1
        <5> QED
          BY <5>2, <5>3
      <4> QED
        BY <2>2, <4>1, <4>2, <4>3, <4>4
    <3>2. CASE q \in Pending
      <4>1. /\ info'[proc'[q].id] = info[proc[q].id] /\ proc'[q].b = proc[q].b
        BY <1>4, <3>2
      <4>2. /\ info[proc[q].id].b = proc[q].b
            /\ Cardinality(Chain(info[proc[q].id])) = 3
            /\ Chain(info[proc[q].id]) \cap free = {}
        BY <2>3, <3>2
      <4>3. free' \subseteq free
        BY <1>f
      <4>4. ASSUME NEW o \in Pending' \ {q}
            PROVE  Chain(info[proc[q].id]) \cap Chain(info'[proc'[o].id]) = {}
        <5>1. CASE o = p
          <6>1. Chain(info'[proc'[o].id]) = {c1, c2, c3}
            BY <1>e, <2>1, <5>1
          <6> QED
            BY <4>2, <6>1
        <5>2. CASE o # p
          <6>1. o \in Pending \ {q}
            BY <1>4, <5>2
          <6>2. info'[proc'[o].id] = info[proc[o].id]
            BY <1>4, <6>1
          <6> QED
            BY <2>3, <3>2, <6>1, <6>2
        <5> QED
          BY <5>1, <5>2
      <4>5. Chain(info[proc[q].id]) \cap free' = {}
        BY <4>2, <4>3
      <4> QED
        BY <4>1, <4>2, <4>4, <4>5
    <3> QED
      BY <1>4, <3>1, <3>2
  <2>5. Cardinality(free') + 3 * Cardinality(Pending') = NUM'
    <3> DEFINE m == Cardinality(Pending)
               n == Cardinality(free)
    <3>1. IsFiniteSet(Pending)
      BY VirtioAssumption, FS_Subset DEF Pending
    <3>2. m \in Nat /\ Cardinality(Pending \cup {p}) = m + 1
      BY <1>4, <3>1, FS_AddElement, FS_CardinalityType
    <3>3. n \in Nat /\ n + 3 * m = NUM
      BY <1>a, DescFacts DEF DescExact
    <3>4. Cardinality(free') = n - 3
      BY <1>c, <1>e, <1>f
    <3>5. Cardinality(Pending') = m + 1
      BY <1>4, <3>2
    <3> HIDE DEF m, n
    <3> QED
      BY SMT, <1>3, <3>2, <3>3, <3>4, <3>5
  <2> QED
    BY <2>4, <2>5, Zenon DEF DescExact
<1>11. c1 \notin avail \cup Range(used)
  BY RingHeads
<1>12. RingInv'
  <2>1. Range(used') = Range(used) /\ used' = used
    BY <1>b
  <2>2. ASSUME NEW d \in avail' \cup Range(used')
        PROVE  \E q \in Proc : proc'[q].pc = "sleep_disk" /\ proc'[q].id = d
    <3>1. CASE d = c1
      BY <1>2, <3>1
    <3>2. CASE d \in avail \cup Range(used)
      <4>1. PICK q \in Proc : proc[q].pc = "sleep_disk" /\ proc[q].id = d
        BY <1>a, <3>2 DEF RingInv, At
      <4>2. q # p
        BY <1>b, <4>1
      <4> QED
        BY <1>2, <4>1, <4>2
    <3> QED
      BY <1>f, <2>1, <3>1, <3>2
  <2>3. \A k, l \in DOMAIN used' : used'[k] = used'[l] => k = l
    BY <1>a, <2>1 DEF RingInv
  <2>4. avail' \cap Range(used') = {}
    BY <1>a, <1>f, <1>11, <2>1 DEF RingInv
  <2> QED
    BY <2>2, <2>3, <2>4 DEF RingInv, At
<1>13. SleepersAwaited'
  <2>1. ASSUME NEW q \in Proc, proc'[q].pc = "sleep_disk"
        PROVE  buf'[proc'[q].b].disk /\ proc'[q].id \in avail' \cup Range(used')
    <3>1. CASE q = p
      <4>1. proc'[p].b = proc[p].b /\ proc'[p].id = c1
        BY <1>2
      <4>2. buf'[proc[p].b].disk = TRUE
        BY <1>g, <1>1
      <4>3. c1 \in avail'
        BY <1>f
      <4> QED
        BY <3>1, <4>1, <4>2, <4>3
    <3>2. CASE q # p
      <4>1. proc[q].pc = "sleep_disk" /\ proc'[q].b = proc[q].b /\ proc'[q].id = proc[q].id
        BY <1>2, <2>1, <3>2
      <4>2. buf[proc[q].b].disk /\ proc[q].id \in avail \cup Range(used)
        BY <1>a, <4>1 DEF SleepersAwaited, At
      <4>3. proc[q].b \in Buf
        BY <4>1, BufferOf
      <4>4. used' = used /\ avail \subseteq avail'
        BY <1>b, <1>f
      <4> QED
        BY <1>1, <4>1, <4>2, <4>3, <4>4
    <3> QED
      BY <3>1, <3>2
  <2>2. Pending' # {}
    BY <1>4
  <2>3. used' # <<>> => irq' \/ intr'
    BY <1>a, <1>b DEF SleepersAwaited
  <2>4. ASSUME NEW q \in Proc, proc'[q].pc = "sleep_lock"
        PROVE  buf'[proc'[q].b].lock # None
    <3>1. proc[q].pc = "sleep_lock" /\ proc'[q].b = proc[q].b
      BY <1>2, <2>4
    <3>2. proc[q].b \in Buf
      BY <3>1, BufferOf
    <3>3. buf[proc[q].b].lock # None
      BY <1>a, <3>1 DEF SleepersAwaited, At
    <3> QED
      BY ZenonT(60), <1>1, <3>1, <3>2, <3>3
  <2> QED
    BY <2>1, <2>2, <2>3, <2>4 DEF SleepersAwaited, At
<1>14. DataInv'
  <2>1. ASSUME NEW q \in Proc
        PROVE  /\ (Unwritten(q)' <=> Unwritten(q)) /\ (Answered(q)' <=> Answered(q))
               /\ proc'[q].pc = "use" <=> proc[q].pc = "use"
               /\ proc'[q].pc \in InDisk <=> proc[q].pc \in InDisk
    <3>1. CASE q = p
      <4>1. proc'[p].pc = "sleep_disk" /\ proc'[p].id = c1 /\ proc'[p].write = proc[p].write
        BY <1>2
      <4>2. c1 \in avail' /\ c1 \notin Range(used')
        BY <1>b, <1>f, <1>11
      <4> QED
        BY <1>b, <3>1, <4>1, <4>2 DEF Unwritten, Answered, At, InDisk
    <3>2. CASE q # p
      <4>1. proc'[q].pc = proc[q].pc /\ proc'[q].id = proc[q].id /\ proc'[q].write = proc[q].write
        BY <1>2, <3>2
      <4>2. proc[q].pc = "sleep_disk" => (proc[q].id \in avail' <=> proc[q].id \in avail)
        <5>1. ASSUME proc[q].pc = "sleep_disk" PROVE proc[q].id # c1
          BY <1>4, <5>1 DEF Pending
        <5> QED
          BY <1>f, <5>1
      <4>3. used' = used
        BY <1>b
      <4> QED
        BY <4>1, <4>2, <4>3 DEF Unwritten, Answered, At
    <3> QED
      BY <3>1, <3>2
  <2> QED
    BY <1>a, <1>b, <1>1, <1>2, <2>1, DataStep
<1> QED
  BY <1>5, <1>6, <1>7, <1>8, <1>9, <1>10, <1>12, <1>13, <1>14 DEF BioInv

LEMMA completeInv ==
  ASSUME BioInv, NEW d, complete(d), UNCHANGED lru
  PROVE  BioInv'
<1>a. /\ TypeOK /\ PlaceInv /\ OneBuffer /\ RefcntExact /\ ChainInv /\ DescExact
      /\ RingInv /\ SleepersAwaited /\ DataInv
      /\ buf \in [Buf -> BufRec] /\ proc \in [Proc -> ProcRec]
      /\ media \in [Block -> Value] /\ avail \subseteq Desc /\ used \in Seq(Desc)
  BY DEF BioInv, TypeOK, DriverTypeOK
<1>b. /\ d \in avail /\ avail' = avail \ {d} /\ used' = Append(used, d) /\ irq' = TRUE
      /\ UNCHANGED <<free, info, intr, proc, lru>>
  BY DEF complete
<1>c. PICK p \in Proc : /\ p \in Pending /\ proc[p].pc = "sleep_disk" /\ proc[p].id = d
                        /\ info[d].b = proc[p].b /\ info[d].write = proc[p].write
  BY <1>b, RingHeads
<1> DEFINE i == proc[p].b
           bn == buf[i].blockno
<1>d. /\ i \in Buf /\ bn \in Block /\ buf[i] \in BufRec /\ proc[p].write \in BOOLEAN
      /\ buf[i].valid <=> proc[p].write
  <2>1. i \in Buf /\ bn \in Block
    BY <1>c, BufferOf
  <2>2. buf[i].valid <=> proc[p].write
    BY <1>a, <1>c DEF DataInv, InDisk
  <2>3. proc[p].write \in BOOLEAN
    BY <1>a, ProcFacts
  <2> QED
    BY <1>a, <2>1, <2>2, <2>3
<1>e. buf[i].valid => buf[i].data \in Value
  BY <1>a, <1>d DEF DataInv
<1> HIDE DEF i, bn
<1>1. /\ buf' \in [Buf -> BufRec] /\ media' \in [Block -> Value]
      /\ \A j \in Buf :
           /\ buf'[j].blockno = buf[j].blockno /\ buf'[j].valid = buf[j].valid
           /\ buf'[j].lock = buf[j].lock /\ buf'[j].refcnt = buf[j].refcnt
           /\ buf'[j].disk = buf[j].disk
           /\ j # i => buf'[j].data = buf[j].data
      /\ \A b \in Block : b # bn => media'[b] = media[b]
      /\ buf'[i].data = media'[bn]
  <2>1. CASE proc[p].write
    <3>1. /\ buf' = buf /\ media' = [media EXCEPT ![bn] = buf[i].data]
      BY <1>c, <2>1 DEF complete, i, bn
    <3>2. buf[i].data \in Value
      BY <1>d, <1>e, <2>1
    <3>3. /\ media' \in [Block -> Value] /\ media'[bn] = buf[i].data
          /\ \A b \in Block : b # bn => media'[b] = media[b]
      BY <1>a, <1>d, <3>1, <3>2
    <3>4. buf' = buf
      BY <3>1
    <3> QED
      BY <1>a, <3>3, <3>4
  <2>2. CASE ~proc[p].write
    <3>1. media' = media /\ buf' = [buf EXCEPT ![i].data = media[bn]]
      BY <1>c, <2>2 DEF complete, i, bn
    <3> DEFINE t == [buf[i] EXCEPT !.data = media[bn]]
    <3>2. media[bn] \in Value
      BY <1>a, <1>d
    <3>3. /\ t \in BufRec /\ t.blockno = buf[i].blockno /\ t.valid = buf[i].valid
          /\ t.lock = buf[i].lock /\ t.data = media[bn] /\ t.refcnt = buf[i].refcnt
          /\ t.disk = buf[i].disk
      BY <1>d, <3>2 DEF BufRec
    <3>4. buf' = [buf EXCEPT ![i] = t]
      BY <3>1
    <3>5. media' = media
      BY <3>1
    <3> HIDE DEF t
    <3> QED
      BY <1>a, <1>d, <3>3, <3>4, <3>5
  <2> QED
    BY <2>1, <2>2
<1>2. Pending' = Pending /\ Desc' = Desc /\ NUM' = NUM /\ InfoRec' = InfoRec /\ ProcRec' = ProcRec
  BY <1>b DEF Pending, Desc, NUM, InfoRec, ProcRec
<1>3. /\ used' \in Seq(Desc) /\ used' # <<>>
      /\ DOMAIN used = 1..Len(used) /\ DOMAIN used' = 1..(Len(used) + 1)
      /\ used'[Len(used) + 1] = d
      /\ \A k \in DOMAIN used : used'[k] = used[k]
      /\ Len(used) \in Nat
  <2>1. d \in Desc
    BY <1>a, <1>b
  <2> QED
    BY SMT, <1>a, <1>b, <2>1
<1>4. Range(used') = Range(used) \cup {d}
  <2>1. \A k \in DOMAIN used' : k \in DOMAIN used \/ k = Len(used) + 1
    BY SMT, <1>3
  <2>2. \A k \in DOMAIN used : k \in DOMAIN used'
    BY SMT, <1>3
  <2>3. Len(used) + 1 \in DOMAIN used'
    BY SMT, <1>3
  <2> QED
    BY <1>3, <2>1, <2>2, <2>3 DEF Range
<1>5. TypeOK'
  <2>1. avail' \subseteq Desc
    BY <1>a, <1>b
  <2> QED
    BY <1>a, <1>b, <1>1, <1>2, <1>3, <2>1 DEF TypeOK, DriverTypeOK
<1>6. PlaceInv'
  <2>1. ASSUME NEW q \in Proc
        PROVE  /\ proc'[q].pc = "user" <=> proc'[q].b = 0
               /\ proc'[q].b # 0 => buf'[proc'[q].b].blockno \in Block
    <3>1. /\ proc[q].pc = "user" <=> proc[q].b = 0
          /\ proc[q].b # 0 => buf[proc[q].b].blockno \in Block
      BY <1>a DEF PlaceInv, At
    <3>2. proc[q].b # 0 => proc[q].b \in Buf
      BY <1>a, ProcFacts
    <3>3. \A j \in Buf : buf'[j].blockno = buf[j].blockno
      BY <1>1
    <3>4. proc' = proc
      BY <1>b
    <3> QED
      BY <3>1, <3>2, <3>3, <3>4
  <2> QED
    BY <1>a, <1>2, <2>1 DEF PlaceInv, At
<1>7. OneBuffer'
  <2>1. \A j \in Buf : buf'[j].blockno = buf[j].blockno
    BY <1>1
  <2> QED
    BY <1>a, <2>1 DEF OneBuffer
<1>8. RefcntExact'
  <2>1. ASSUME NEW j \in Buf, NEW q \in Proc
        PROVE  buf'[j].lock = q <=> proc'[q].b = j /\ proc'[q].pc \in Locking
    <3>1. buf[j].lock = q <=> proc[q].b = j /\ proc[q].pc \in Locking
      BY LockIff
    <3>2. proc' = proc
      BY <1>b
    <3> QED
      BY <1>1, <3>1, <3>2
  <2>2. \A j \in Buf : buf'[j].refcnt = buf[j].refcnt
    BY <1>1
  <2>3. \A q \in Proc : proc'[q].b = proc[q].b
    BY <1>b
  <2> QED
    BY <2>1, <2>2, <2>3, RefcntStep
<1>9. ChainInv' /\ DescExact'
  <2>1. info' = info /\ free' = free /\ proc' = proc
    BY <1>b
  <2> QED
    BY <1>2, <2>1, ChainStep
<1>10. RingInv'
  <2>1. ASSUME NEW e \in avail' \cup Range(used')
        PROVE  \E q \in Proc : proc'[q].pc = "sleep_disk" /\ proc'[q].id = e
    <3>1. e \in avail \cup Range(used)
      BY <1>b, <1>4
    <3>2. proc' = proc
      BY <1>b
    <3> QED
      BY <1>a, <3>1, <3>2 DEF RingInv, At
  <2>2. ASSUME NEW k \in DOMAIN used', NEW l \in DOMAIN used', used'[k] = used'[l]
        PROVE  k = l
    <3>1. d \notin Range(used)
      BY <1>a, <1>b DEF RingInv
    <3>2. \A m \in DOMAIN used : used[m] # d
      BY <3>1 DEF Range
    <3>3. \A m, n \in DOMAIN used : used[m] = used[n] => m = n
      BY <1>a DEF RingInv
    <3>4. \A m \in DOMAIN used' : m \in DOMAIN used \/ m = Len(used) + 1
      BY SMT, <1>3
    <3> QED
      BY <1>3, <2>2, <3>2, <3>3, <3>4
  <2>3. avail' \cap Range(used') = {}
    BY <1>a, <1>b, <1>4 DEF RingInv
  <2> QED
    BY <2>1, <2>2, <2>3 DEF RingInv, At
<1>11. SleepersAwaited'
  <2>1. ASSUME NEW q \in Proc
        PROVE  /\ proc'[q].pc = "sleep_disk" =>
                    buf'[proc'[q].b].disk /\ proc'[q].id \in avail' \cup Range(used')
               /\ proc'[q].pc = "sleep_free" => Pending' # {}
               /\ proc'[q].pc = "sleep_lock" => buf'[proc'[q].b].lock # None
    <3>1. /\ proc[q].pc = "sleep_disk" =>
               buf[proc[q].b].disk /\ proc[q].id \in avail \cup Range(used)
          /\ proc[q].pc = "sleep_free" => Pending # {}
          /\ proc[q].pc = "sleep_lock" => buf[proc[q].b].lock # None
      BY <1>a DEF SleepersAwaited, At
    <3>2. proc' = proc /\ avail' \cup Range(used') = avail \cup Range(used)
      BY <1>b, <1>4
    <3>3. proc[q].pc # "user" => proc[q].b \in Buf
      BY BufferOf
    <3>4. \A j \in Buf : buf'[j].disk = buf[j].disk /\ buf'[j].lock = buf[j].lock
      BY <1>1
    <3> QED
      BY <1>2, <3>1, <3>2, <3>3, <3>4
  <2> QED
    BY <1>b, <2>1 DEF SleepersAwaited, At
<1>12. ASSUME NEW q \in Proc, q # p
       PROVE  (Unwritten(q)' <=> Unwritten(q)) /\ (Answered(q)' <=> Answered(q))
  <2>1. proc[q].pc = "sleep_disk" => proc[q].id # d
    <3>1. ASSUME proc[q].pc = "sleep_disk" PROVE q \in Pending
      BY <3>1 DEF Pending
    <3> QED
      BY <1>c, <1>12, <3>1, Heads
  <2>2. proc' = proc
    BY <1>b
  <2> QED
    BY <1>b, <1>4, <2>1, <2>2 DEF Unwritten, Answered, At
<1>13. DataInv'
  <2>1. ASSUME NEW j \in Buf, buf'[j].valid
        PROVE  /\ buf'[j].blockno \in Block /\ buf'[j].data \in Value
               /\ \/ buf'[j].data = media'[buf'[j].blockno]
                  \/ \E q \in Proc : proc'[q].b = j /\ Unwritten(q)'
    <3>1. buf[j].valid /\ buf'[j].blockno = buf[j].blockno
      BY <1>1, <2>1
    <3>2. /\ buf[j].blockno \in Block /\ buf[j].data \in Value
          /\ \/ buf[j].data = media[buf[j].blockno]
             \/ \E q \in Proc : proc[q].b = j /\ Unwritten(q)
      BY <1>a, <3>1 DEF DataInv
    <3>3. CASE j = i
      <4>1. buf[j].blockno = bn
        BY <3>3 DEF bn
      <4> QED
        BY ZenonT(60), <1>1, <3>1, <3>2, <3>3, <4>1
    <3>4. CASE j # i
      <4>1. buf[j].blockno # bn
        BY <1>a, <1>d, <3>2, <3>4, VirtioAssumption DEF OneBuffer, bn
      <4>2. buf'[j].data = buf[j].data /\ media'[buf[j].blockno] = media[buf[j].blockno]
        BY <1>1, <3>2, <3>4, <4>1
      <4>3. ASSUME NEW q \in Proc, proc[q].b = j /\ Unwritten(q)
            PROVE  proc'[q].b = j /\ Unwritten(q)'
        <5>1. q # p /\ proc' = proc
          BY <1>b, <3>4, <4>3 DEF i
        <5> QED
          BY <1>12, <4>3, <5>1
      <4> QED
        BY <3>1, <3>2, <4>2, <4>3
    <3> QED
      BY <3>3, <3>4
  <2>2. ASSUME NEW q \in Proc
        PROVE  /\ proc'[q].pc = "use" => buf'[proc'[q].b].valid
               /\ proc'[q].pc \in InDisk => (buf'[proc'[q].b].valid <=> proc'[q].write)
    <3>1. /\ proc[q].pc = "use" => buf[proc[q].b].valid
          /\ proc[q].pc \in InDisk => (buf[proc[q].b].valid <=> proc[q].write)
      BY <1>a DEF DataInv, At
    <3>2. proc[q].pc \in InDisk \/ proc[q].pc = "use" => proc[q].b \in Buf
      BY BufferOf DEF InDisk
    <3>3. proc' = proc
      BY <1>b
    <3>4. \A j \in Buf : buf'[j].valid = buf[j].valid
      BY <1>1
    <3> QED
      BY <3>1, <3>2, <3>3, <3>4
  <2>3. ASSUME NEW q \in Proc, Answered(q)'
        PROVE  buf'[proc'[q].b].data = media'[buf'[proc'[q].b].blockno]
    <3>1. proc' = proc
      BY <1>b
    <3>2. CASE q = p
      <4>1. proc[q].b = i /\ buf'[i].blockno = bn /\ buf'[i].data = media'[bn]
        BY <1>d, <1>1, <3>2 DEF i, bn
      <4> QED
        BY <3>1, <4>1
    <3>3. CASE q # p
      <4>1. Answered(q) /\ proc[q].pc \in Locking /\ proc[p].pc \in Locking
        BY <1>c, <1>12, <2>3, <3>3 DEF Answered, At, Locking
      <4>2. proc[q].b # i
        BY <3>3, <4>1, OneLocker DEF i
      <4>3. proc[q].b \in Buf /\ buf[proc[q].b].blockno \in Block
        BY <4>1, BufferOf DEF Locking
      <4>4. buf[proc[q].b].blockno # bn
        BY <1>a, <1>d, <4>2, <4>3, VirtioAssumption DEF OneBuffer, bn
      <4>5. buf[proc[q].b].data = media[buf[proc[q].b].blockno]
        BY <1>a, <4>1 DEF DataInv
      <4> QED
        BY <1>1, <3>1, <4>2, <4>3, <4>4, <4>5
    <3> QED
      BY <3>2, <3>3
  <2> QED
    BY <2>1, <2>2, <2>3, Zenon DEF DataInv, At, Buf
<1> QED
  BY <1>5, <1>6, <1>7, <1>8, <1>9, <1>10, <1>11, <1>13 DEF BioInv

LEMMA used_entryInv ==
  ASSUME BioInv, used_entry, UNCHANGED lru
  PROVE  BioInv'
<1> DEFINE h == Head(used)
<1>a. /\ TypeOK /\ PlaceInv /\ OneBuffer /\ RefcntExact /\ ChainInv /\ DescExact
      /\ RingInv /\ SleepersAwaited /\ DataInv
      /\ buf \in [Buf -> BufRec] /\ proc \in [Proc -> ProcRec] /\ used \in Seq(Desc)
  BY DEF BioInv, TypeOK, DriverTypeOK
<1>b. /\ intr /\ used # <<>> /\ used' = Tail(used)
      /\ buf' = [buf EXCEPT ![info[h].b].disk = FALSE]
      /\ proc' = Wakeup(proc, "sleep_disk", {info[h].b}, "done")
      /\ UNCHANGED <<free, info, avail, irq, intr, media, lru>>
  BY DEF used_entry
<1>c. /\ used' \in Seq(Desc) /\ Len(used) \in Nat \ {0}
      /\ DOMAIN used = 1..Len(used) /\ DOMAIN used' = 1..(Len(used) - 1)
      /\ h = used[1] /\ \A k \in DOMAIN used' : used'[k] = used[k + 1]
  <2>1. used \in Seq(Desc) /\ used # <<>> /\ used' = Tail(used)
    BY <1>a, <1>b
  <2> HIDE DEF h
  <2>2. /\ Tail(used) \in Seq(Desc) /\ Len(used) \in Nat \ {0}
        /\ Len(Tail(used)) = Len(used) - 1
        /\ DOMAIN used = 1..Len(used) /\ Head(used) = used[1]
    BY SMT, <2>1
  <2>3. /\ DOMAIN Tail(used) = 1..(Len(used) - 1)
        /\ \A k \in 1..(Len(used) - 1) : Tail(used)[k] = used[k + 1]
    BY SMT, <2>1
  <2> QED
    BY <2>1, <2>2, <2>3 DEF h
<1>d. /\ Range(used) = Range(used') \cup {h} /\ h \notin Range(used')
      /\ \A k, l \in DOMAIN used' : used'[k] = used'[l] => k = l
  <2> HIDE DEF h
  <2>1. \A k, l \in DOMAIN used : used[k] = used[l] => k = l
    BY <1>a DEF RingInv
  <2>2. \A k \in DOMAIN used' : k \in Nat /\ k + 1 \in DOMAIN used /\ k + 1 # 1
    BY SMT, <1>c
  <2>3. 1 \in DOMAIN used
    BY SMT, <1>c
  <2>4. \A k \in DOMAIN used : k # 1 => k - 1 \in DOMAIN used' /\ (k - 1) + 1 = k
    BY SMT, <1>c
  <2>5. \A k \in DOMAIN used : k # 1 => used[k] = used'[k - 1]
    BY <1>c, <2>4
  <2>6. \A k \in DOMAIN used' : used'[k] # h
    BY <1>c, <2>1, <2>2, <2>3
  <2>7. ASSUME NEW k \in DOMAIN used', NEW l \in DOMAIN used', used'[k] = used'[l]
        PROVE  k = l
    <3>1. k + 1 = l + 1
      BY <1>c, <2>1, <2>2, <2>7
    <3> QED
      BY SMT, <2>2, <3>1
  <2>8. \A x \in Range(used) : x \in Range(used') \cup {h}
    BY SMT, <1>c, <2>4, <2>5 DEF Range
  <2>9. \A x \in Range(used') \cup {h} : x \in Range(used)
    BY <1>c, <2>2, <2>3 DEF Range
  <2>10. h \notin Range(used')
    BY <2>6 DEF Range
  <2> QED
    BY <2>7, <2>8, <2>9, <2>10
<1> HIDE DEF h
<1>e. PICK p \in Proc : /\ p \in Pending /\ proc[p].pc = "sleep_disk" /\ proc[p].id = h
                        /\ info[h].b = proc[p].b /\ info[h].write = proc[p].write
  BY <1>d, RingHeads
<1> DEFINE i == proc[p].b
<1>f. i \in Buf /\ buf[i] \in BufRec
  <2>1. i \in Buf
    BY <1>e, BufferOf
  <2> QED
    BY <1>a, <2>1
<1>g. ASSUME NEW q \in Proc, proc[q].pc = "sleep_disk"
      PROVE  proc[q].b = i <=> q = p
  BY <1>e, <1>g, OneLocker DEF Locking
<1>h. info[h].b = i
  BY <1>e
<1>i. ASSUME NEW q \in Proc, q # p, proc[q].pc = "sleep_disk"
      PROVE  proc[q].id # h
  <2>1. q \in Pending
    BY <1>i DEF Pending
  <2> QED
    BY <1>e, <1>i, <2>1, Heads
<1>1. /\ buf' \in [Buf -> BufRec]
      /\ \A j \in Buf :
           /\ buf'[j].blockno = buf[j].blockno /\ buf'[j].valid = buf[j].valid
           /\ buf'[j].lock = buf[j].lock /\ buf'[j].data = buf[j].data
           /\ buf'[j].refcnt = buf[j].refcnt
           /\ j # i => buf'[j].disk = buf[j].disk
  <2> HIDE DEF i
  <2> DEFINE t == [buf[i] EXCEPT !.disk = FALSE]
  <2>1. /\ t \in BufRec /\ t.blockno = buf[i].blockno /\ t.valid = buf[i].valid
        /\ t.lock = buf[i].lock /\ t.data = buf[i].data /\ t.refcnt = buf[i].refcnt
    BY <1>f DEF BufRec
  <2>2. buf' = [buf EXCEPT ![i] = t]
    BY <1>b, <1>h
  <2> HIDE DEF t
  <2> QED
    BY <1>a, <2>1, <2>2
<1>2. /\ proc' \in [Proc -> ProcRec]
      /\ \A q \in Proc :
           /\ proc'[q].b = proc[q].b /\ proc'[q].write = proc[q].write
           /\ proc'[q].id = proc[q].id
           /\ proc'[q].pc = IF q = p THEN "done" ELSE proc[q].pc
  <2> HIDE DEF i
  <2>1. "done" \in Pc
    BY DEF Pc
  <2>2. ASSUME NEW q \in Proc
        PROVE  /\ proc'[q] \in ProcRec
               /\ proc'[q].b = proc[q].b /\ proc'[q].write = proc[q].write
               /\ proc'[q].id = proc[q].id
               /\ proc'[q].pc = IF proc[q].pc = "sleep_disk" /\ proc[q].b = i
                               THEN "done" ELSE proc[q].pc
    BY <1>a, <1>b, <1>h, <2>1 DEF Wakeup, ProcRec
  <2>3. proc' = [q \in Proc |-> proc'[q]]
    BY <1>b DEF Wakeup
  <2>4. proc' \in [Proc -> ProcRec]
    BY <2>2, <2>3
  <2>5. ASSUME NEW q \in Proc
        PROVE  (proc[q].pc = "sleep_disk" /\ proc[q].b = i) <=> q = p
    BY <1>e, <1>g DEF i
  <2> QED
    BY <2>2, <2>4, <2>5
<1>3. Pending' = Pending /\ Desc' = Desc /\ NUM' = NUM /\ InfoRec' = InfoRec /\ ProcRec' = ProcRec
  <2>1. Pending' = Pending
    BY <1>2, <1>e DEF Pending
  <2> QED
    BY <1>b, <2>1 DEF Desc, NUM, InfoRec, ProcRec
<1>j. proc[p].b = i
  OBVIOUS
<1> HIDE DEF i
<1>5. TypeOK'
  BY <1>a, <1>b, <1>c, <1>1, <1>2, <1>3 DEF TypeOK, DriverTypeOK
<1>6. PlaceInv'
  <2>1. ASSUME NEW q \in Proc
        PROVE  /\ proc'[q].pc = "user" <=> proc'[q].b = 0
               /\ proc'[q].b # 0 => buf'[proc'[q].b].blockno \in Block
    <3>1. /\ proc[q].pc = "user" <=> proc[q].b = 0
          /\ proc[q].b # 0 => buf[proc[q].b].blockno \in Block
      BY <1>a DEF PlaceInv, At
    <3>2. proc[q].b # 0 => proc[q].b \in Buf
      BY <1>a, ProcFacts
    <3>3. \A j \in Buf : buf'[j].blockno = buf[j].blockno
      BY <1>1
    <3>4. proc'[q].b = proc[q].b /\ (proc'[q].pc = "user" <=> proc[q].pc = "user")
      BY <1>2, <1>e
    <3> QED
      BY <3>1, <3>2, <3>3, <3>4
  <2> QED
    BY <1>a, <1>3, <2>1 DEF PlaceInv, At
<1>7. OneBuffer'
  <2>1. \A j \in Buf : buf'[j].blockno = buf[j].blockno
    BY <1>1
  <2> QED
    BY <1>a, <2>1 DEF OneBuffer
<1>8. RefcntExact'
  <2>1. ASSUME NEW j \in Buf, NEW q \in Proc
        PROVE  buf'[j].lock = q <=> proc'[q].b = j /\ proc'[q].pc \in Locking
    <3>1. buf[j].lock = q <=> proc[q].b = j /\ proc[q].pc \in Locking
      BY LockIff
    <3>2. proc'[q].b = proc[q].b /\ (proc'[q].pc \in Locking <=> proc[q].pc \in Locking)
      BY <1>2, <1>e DEF Locking
    <3> QED
      BY <1>1, <3>1, <3>2
  <2>2. \A j \in Buf : buf'[j].refcnt = buf[j].refcnt
    BY <1>1
  <2>3. \A q \in Proc : proc'[q].b = proc[q].b
    BY <1>2
  <2> QED
    BY <2>1, <2>2, <2>3, RefcntStep
<1>9. ChainInv' /\ DescExact'
  <2>1. info' = info /\ free' = free
    BY <1>b
  <2>2. \A q \in Pending : /\ proc'[q].b = proc[q].b /\ proc'[q].id = proc[q].id
                           /\ proc'[q].write = proc[q].write
    BY <1>2 DEF Pending
  <2> QED
    BY <1>3, <2>1, <2>2, ChainStep
<1>10. RingInv'
  <2>1. ASSUME NEW e \in avail' \cup Range(used')
        PROVE  \E q \in Proc : proc'[q].pc = "sleep_disk" /\ proc'[q].id = e
    <3>1. e \in avail \cup Range(used) /\ e # h
      BY <1>a, <1>b, <1>d DEF RingInv
    <3>2. PICK q \in Proc : proc[q].pc = "sleep_disk" /\ proc[q].id = e
      BY <1>a, <3>1 DEF RingInv, At
    <3>3. q # p
      BY <1>e, <3>1, <3>2
    <3> QED
      BY <1>2, <3>2, <3>3
  <2>2. avail' \cap Range(used') = {}
    BY <1>a, <1>b, <1>d DEF RingInv
  <2> QED
    BY <1>d, <2>1, <2>2 DEF RingInv, At
<1>11. SleepersAwaited'
  <2>1. ASSUME NEW q \in Proc, proc'[q].pc = "sleep_disk"
        PROVE  buf'[proc'[q].b].disk /\ proc'[q].id \in avail' \cup Range(used')
    <3>1. /\ q # p /\ proc[q].pc = "sleep_disk"
          /\ proc'[q].b = proc[q].b /\ proc'[q].id = proc[q].id
      BY <1>2, <2>1
    <3>2. buf[proc[q].b].disk /\ proc[q].id \in avail \cup Range(used)
      BY <1>a, <3>1 DEF SleepersAwaited, At
    <3>3. proc[q].b \in Buf /\ proc[q].b # i /\ proc[q].id # h
      BY <1>g, <1>i, <3>1, BufferOf
    <3>4. buf'[proc[q].b].disk = buf[proc[q].b].disk
      BY <1>1, <3>3
    <3>5. proc[q].id \in avail' \cup Range(used')
      BY <1>b, <1>d, <3>2, <3>3
    <3> QED
      BY <3>1, <3>2, <3>4, <3>5
  <2>2. ASSUME NEW q \in Proc
        PROVE  /\ proc'[q].pc = "sleep_free" => Pending' # {}
               /\ proc'[q].pc = "sleep_lock" => buf'[proc'[q].b].lock # None
    <3>1. /\ proc[q].pc = "sleep_free" => Pending # {}
          /\ proc[q].pc = "sleep_lock" => buf[proc[q].b].lock # None
      BY <1>a DEF SleepersAwaited, At
    <3>2. /\ proc'[q].b = proc[q].b
          /\ proc'[q].pc = "sleep_free" => proc[q].pc = "sleep_free"
          /\ proc'[q].pc = "sleep_lock" => proc[q].pc = "sleep_lock"
      BY <1>2
    <3>3. proc[q].pc = "sleep_lock" => proc[q].b \in Buf
      BY BufferOf
    <3>4. \A j \in Buf : buf'[j].lock = buf[j].lock
      BY <1>1
    <3> QED
      BY <1>3, <3>1, <3>2, <3>3, <3>4
  <2>3. intr'
    BY <1>b
  <2> QED
    BY <2>1, <2>2, <2>3 DEF SleepersAwaited, At
<1>12. DataInv'
  <2>1. ASSUME NEW q \in Proc
        PROVE  /\ (Unwritten(q)' <=> Unwritten(q)) /\ (Answered(q)' <=> Answered(q))
               /\ proc'[q].pc = "use" <=> proc[q].pc = "use"
               /\ proc'[q].pc \in InDisk <=> proc[q].pc \in InDisk
    <3>1. CASE q = p
      <4>1. h \in Range(used) /\ h \notin avail
        BY <1>a, <1>d DEF RingInv
      <4>2. proc'[p].pc = "done"
        BY <1>2
      <4> QED
        BY <1>e, <3>1, <4>1, <4>2 DEF Unwritten, Answered, At, InDisk
    <3>2. CASE q # p
      <4>1. proc'[q].pc = proc[q].pc /\ proc'[q].id = proc[q].id /\ proc'[q].write = proc[q].write
        BY <1>2, <3>2
      <4>2. avail' = avail
        BY <1>b
      <4>3. proc[q].pc = "sleep_disk" => (proc[q].id \in Range(used') <=> proc[q].id \in Range(used))
        BY <1>d, <1>i, <3>2
      <4> QED
        BY <4>1, <4>2, <4>3 DEF Unwritten, Answered, At
    <3> QED
      BY <3>1, <3>2
  <2>2. media' = media
    BY <1>b
  <2> QED
    BY <1>1, <1>2, <2>1, <2>2, DataStep
<1> QED
  BY <1>5, <1>6, <1>7, <1>8, <1>9, <1>10, <1>11, <1>12 DEF BioInv

LEMMA doneInv ==
  ASSUME BioInv, NEW p \in Proc, done(p), UNCHANGED lru
  PROVE  BioInv'
<1> DEFINE i == proc[p].b
           d == proc[p].id
           w == Wakeup(proc, "sleep_free", Buf, "alloc")
<1>a. /\ TypeOK /\ PlaceInv /\ OneBuffer /\ RefcntExact /\ ChainInv /\ DescExact
      /\ RingInv /\ SleepersAwaited /\ DataInv
      /\ buf \in [Buf -> BufRec] /\ proc \in [Proc -> ProcRec]
      /\ info \in [Desc -> InfoRec] /\ media \in [Block -> Value]
  BY DEF BioInv, TypeOK, DriverTypeOK
<1>b. /\ proc[p].pc = "done"
      /\ UNCHANGED <<avail, used, irq, intr, media, lru>>
      /\ free' = free \cup Chain(info[d])
      /\ info' = [info EXCEPT ![d] = NoRequest]
      /\ buf' = [buf EXCEPT ![i].valid = TRUE]
      /\ proc' = [w EXCEPT ![p].pc = "use"]
  BY DEF done, At, free_chain
<1>p. proc[p].pc = "done" /\ media' = media /\ avail' = avail /\ used' = used
  BY <1>b
<1>c. p \in Pending
  BY <1>p DEF Pending
<1>d. /\ i \in Buf /\ i # 0 /\ buf[i] \in BufRec /\ buf[i].blockno \in Block
      /\ d \in Desc /\ buf[i].data = media[buf[i].blockno]
  <2>1. i \in Buf /\ i # 0 /\ buf[i].blockno \in Block
    BY <1>b, BufferOf
  <2>2. d \in Desc
    BY <1>c, Heads
  <2>3. buf[i].data = media[buf[i].blockno]
    BY <1>a, <1>b DEF DataInv, Answered, At
  <2> QED
    BY <1>a, <2>1, <2>2, <2>3
<1>e. buf[i].data \in Value
  BY <1>a, <1>d
<1>f. /\ w \in [Proc -> ProcRec]
      /\ \A q \in Proc :
           /\ w[q].b = proc[q].b /\ w[q].write = proc[q].write /\ w[q].id = proc[q].id
           /\ w[q].pc = IF proc[q].pc = "sleep_free" /\ proc[q].b \in Buf
                       THEN "alloc" ELSE proc[q].pc
  BY <1>a, WokenFacts
<1>g. proc[p].b = i /\ proc[p].id = d
  OBVIOUS
<1>h. \A q \in Proc : proc[q].pc = "sleep_free" => proc[q].b \in Buf
  BY BufferOf
<1> HIDE DEF i, d, w
<1>1. /\ buf' \in [Buf -> BufRec]
      /\ \A j \in Buf :
           /\ buf'[j].blockno = buf[j].blockno /\ buf'[j].disk = buf[j].disk
           /\ buf'[j].lock = buf[j].lock /\ buf'[j].data = buf[j].data
           /\ buf'[j].refcnt = buf[j].refcnt
           /\ buf'[j].valid = IF j = i THEN TRUE ELSE buf[j].valid
  <2> DEFINE t == [buf[i] EXCEPT !.valid = TRUE]
  <2>1. /\ t \in BufRec /\ t.blockno = buf[i].blockno /\ t.disk = buf[i].disk
        /\ t.lock = buf[i].lock /\ t.data = buf[i].data /\ t.refcnt = buf[i].refcnt
        /\ t.valid = TRUE
    BY <1>d DEF BufRec
  <2>2. buf' = [buf EXCEPT ![i] = t]
    BY <1>b
  <2> HIDE DEF t
  <2> QED
    BY <1>a, <2>1, <2>2
<1>2. /\ proc' \in [Proc -> ProcRec]
      /\ \A q \in Proc :
           /\ proc'[q].b = proc[q].b /\ proc'[q].write = proc[q].write
           /\ proc'[q].id = proc[q].id
           /\ proc'[q].pc = IF q = p THEN "use"
                           ELSE IF proc[q].pc = "sleep_free" THEN "alloc" ELSE proc[q].pc
  <2> DEFINE t == [w[p] EXCEPT !.pc = "use"]
  <2>1. w[p] \in ProcRec /\ "use" \in Pc
    BY <1>f DEF Pc
  <2>2. /\ t \in ProcRec /\ t.pc = "use" /\ t.b = w[p].b
        /\ t.write = w[p].write /\ t.id = w[p].id
    BY <2>1 DEF ProcRec
  <2>3. proc' = [w EXCEPT ![p] = t]
    BY <1>b
  <2> HIDE DEF t
  <2> QED
    BY <1>f, <1>h, <2>2, <2>3
<1>3. /\ Desc' = Desc /\ NUM' = NUM /\ InfoRec' = InfoRec /\ ProcRec' = ProcRec
      /\ info' \in [Desc -> InfoRec]
      /\ \A e \in Desc : e # d => info'[e] = info[e]
  <2>1. NoRequest \in InfoRec
    <3>1. 0 \in 0..NBUF /\ <<>> \in Seq(Desc)
      BY SMT, VirtioAssumption
    <3> QED
      BY <3>1 DEF NoRequest, InfoRec
  <2>2. /\ info' \in [Desc -> InfoRec]
        /\ \A e \in Desc : e # d => info'[e] = info[e]
    BY <1>a, <1>b, <2>1
  <2>3. DOMAIN info' = DOMAIN info
    BY <1>b
  <2> QED
    BY <2>2, <2>3 DEF Desc, NUM, InfoRec, ProcRec
<1>4. /\ Pending' = Pending \ {p}
      /\ \A q \in Pending : q # p =>
           /\ q \in Proc /\ proc[q].id \in Desc /\ proc[q].id # d
           /\ info'[proc'[q].id] = info[proc[q].id] /\ proc'[q].id = proc[q].id
           /\ proc'[q].b = proc[q].b /\ proc'[q].write = proc[q].write
  <2>1. Pending' = Pending \ {p}
    <3>1. \A q \in Proc : proc'[q].pc \in {"sleep_disk", "done"} <=>
                           q # p /\ proc[q].pc \in {"sleep_disk", "done"}
      BY <1>2
    <3> QED
      BY <3>1 DEF Pending
  <2>2. ASSUME NEW q \in Pending, q # p
        PROVE  q \in Proc /\ proc[q].id \in Desc /\ proc[q].id # d
    BY <1>c, <1>g, <2>2, Heads
  <2> QED
    BY <1>2, <1>3, <2>1, <2>2
<1>5. /\ Chain(info[d]) \subseteq Desc /\ Cardinality(Chain(info[d])) = 3
      /\ Chain(info[d]) \cap free = {}
      /\ \A q \in Pending \ {p} : Chain(info[d]) \cap Chain(info[proc[q].id]) = {}
  <2>1. info[d].chain \in Seq(Desc)
    BY <1>a, <1>d DEF InfoRec
  <2>2. Chain(info[d]) \subseteq Desc
    BY SMT, <2>1 DEF Chain
  <2> QED
    BY <1>a, <1>c, <1>g, <2>2 DEF DescExact
<1>6. TypeOK'
  <2>1. free' \subseteq Desc
    BY <1>b, <1>5, DescFacts
  <2> QED
    BY <1>a, <1>b, <1>1, <1>2, <1>3, <2>1 DEF TypeOK, DriverTypeOK
<1>7. PlaceInv'
  <2>1. ASSUME NEW q \in Proc
        PROVE  /\ proc'[q].pc = "user" <=> proc'[q].b = 0
               /\ proc'[q].b # 0 => buf'[proc'[q].b].blockno \in Block
    <3>1. /\ proc[q].pc = "user" <=> proc[q].b = 0
          /\ proc[q].b # 0 => buf[proc[q].b].blockno \in Block
      BY <1>a DEF PlaceInv, At
    <3>2. proc[q].b # 0 => proc[q].b \in Buf
      BY <1>a, ProcFacts
    <3>3. \A j \in Buf : buf'[j].blockno = buf[j].blockno
      BY <1>1
    <3>4. proc'[q].b = proc[q].b /\ (proc'[q].pc = "user" <=> proc[q].pc = "user")
      BY <1>p, <1>2
    <3> QED
      BY <3>1, <3>2, <3>3, <3>4
  <2> QED
    BY <1>a, <1>3, <2>1 DEF PlaceInv, At
<1>8. OneBuffer'
  <2>1. \A j \in Buf : buf'[j].blockno = buf[j].blockno
    BY <1>1
  <2> QED
    BY <1>a, <2>1 DEF OneBuffer
<1>9. RefcntExact'
  <2>1. ASSUME NEW j \in Buf, NEW q \in Proc
        PROVE  buf'[j].lock = q <=> proc'[q].b = j /\ proc'[q].pc \in Locking
    <3>1. buf[j].lock = q <=> proc[q].b = j /\ proc[q].pc \in Locking
      BY LockIff
    <3>2. proc'[q].b = proc[q].b /\ (proc'[q].pc \in Locking <=> proc[q].pc \in Locking)
      BY <1>b, <1>2 DEF Locking
    <3> QED
      BY <1>1, <3>1, <3>2
  <2>2. \A j \in Buf : buf'[j].refcnt = buf[j].refcnt
    BY <1>1
  <2>3. \A q \in Proc : proc'[q].b = proc[q].b
    BY <1>2
  <2> QED
    BY <2>1, <2>2, <2>3, RefcntStep
<1>10. ChainInv'
  <2>1. ASSUME NEW q \in Pending'
        PROVE  /\ info'[proc'[q].id].write = proc'[q].write
               /\ Len(info'[proc'[q].id].chain) = 3
               /\ info'[proc'[q].id].chain[1] = proc'[q].id
    BY ZenonT(60), <1>a, <1>4 DEF ChainInv
  <2> QED
    BY <2>1, Zenon DEF ChainInv
<1>11. DescExact'
  <2>1. ASSUME NEW q \in Pending'
        PROVE  /\ info'[proc'[q].id].b = proc'[q].b
               /\ Cardinality(Chain(info'[proc'[q].id])) = 3
               /\ Chain(info'[proc'[q].id]) \cap free' = {}
               /\ \A o \in Pending' \ {q} :
                    Chain(info'[proc'[q].id]) \cap Chain(info'[proc'[o].id]) = {}
    <3>1. /\ q \in Pending /\ q # p
          /\ info'[proc'[q].id] = info[proc[q].id] /\ proc'[q].b = proc[q].b
      BY <1>4
    <3>2. /\ info[proc[q].id].b = proc[q].b
          /\ Cardinality(Chain(info[proc[q].id])) = 3
          /\ Chain(info[proc[q].id]) \cap free = {}
          /\ \A o \in Pending \ {q} :
               Chain(info[proc[q].id]) \cap Chain(info[proc[o].id]) = {}
      BY <1>a, <3>1 DEF DescExact
    <3>3. Chain(info[d]) \cap Chain(info[proc[q].id]) = {}
      BY <1>5, <3>1
    <3>4. Chain(info[proc[q].id]) \cap free' = {}
      BY <1>b, <3>2, <3>3
    <3>5. ASSUME NEW o \in Pending' \ {q}
          PROVE  Chain(info[proc[q].id]) \cap Chain(info'[proc'[o].id]) = {}
      <4>1. o \in Pending \ {q} /\ info'[proc'[o].id] = info[proc[o].id]
        BY <1>4
      <4> QED
        BY <3>2, <4>1
    <3> QED
      BY <3>1, <3>2, <3>4, <3>5
  <2>2. Cardinality(free') + 3 * Cardinality(Pending') = NUM'
    <3> DEFINE m == Cardinality(Pending)
               n == Cardinality(free)
    <3>1. IsFiniteSet(Pending)
      BY VirtioAssumption, FS_Subset DEF Pending
    <3>2. m \in Nat /\ Cardinality(Pending \ {p}) = m - 1
      BY <1>c, <3>1, FS_RemoveElement, FS_CardinalityType
    <3>3. n \in Nat /\ n + 3 * m = NUM
      BY <1>a, DescFacts DEF DescExact
    <3>4. Cardinality(free') = n + 3
      <4>1. IsFiniteSet(free) /\ IsFiniteSet(Desc)
        <5>1. PICK k \in Nums : Desc = 0..(k - 1)
          BY <1>a DEF PlaceInv
        <5>2. k \in Int
          BY SMT, VirtioAssumption
        <5> QED
          BY SMT, <5>1, <5>2, FS_Interval, DescFacts
      <4>2. IsFiniteSet(Chain(info[d]))
        BY <1>5, <4>1, FS_Subset
      <4>3. Cardinality(free \cup Chain(info[d]))
              = Cardinality(free) + Cardinality(Chain(info[d])) - Cardinality(free \cap Chain(info[d]))
        BY <4>1, <4>2, FS_Union
      <4>4. Cardinality(free \cap Chain(info[d])) = 0
        <5>1. free \cap Chain(info[d]) = {}
          BY <1>5
        <5> QED
          BY <5>1, FS_EmptySet
      <4> QED
        BY SMT, <1>b, <1>5, <3>3, <4>3, <4>4
    <3>5. Cardinality(Pending') = m - 1
      BY <1>4, <3>2
    <3> HIDE DEF m, n
    <3> QED
      BY SMT, <1>3, <3>2, <3>3, <3>4, <3>5
  <2> QED
    BY <2>1, <2>2, Zenon DEF DescExact
<1>12. RingInv'
  <2>1. avail' = avail /\ used' = used
    BY <1>b
  <2>2. \A q \in Proc : At(q, "sleep_disk") =>
           proc'[q].pc = "sleep_disk" /\ proc'[q].id = proc[q].id
    BY <1>b, <1>2 DEF At
  <2> QED
    BY <2>1, <2>2, RingStep
<1>13. SleepersAwaited'
  <2>1. ASSUME NEW q \in Proc
        PROVE  /\ proc'[q].pc = "sleep_disk" =>
                    buf'[proc'[q].b].disk /\ proc'[q].id \in avail' \cup Range(used')
               /\ proc'[q].pc # "sleep_free"
               /\ proc'[q].pc = "sleep_lock" => buf'[proc'[q].b].lock # None
    <3>1. /\ proc[q].pc = "sleep_disk" =>
               buf[proc[q].b].disk /\ proc[q].id \in avail \cup Range(used)
          /\ proc[q].pc = "sleep_lock" => buf[proc[q].b].lock # None
      BY <1>a DEF SleepersAwaited, At
    <3>2. /\ proc'[q].b = proc[q].b /\ proc'[q].id = proc[q].id
          /\ proc'[q].pc # "sleep_free"
          /\ proc'[q].pc = "sleep_disk" => proc[q].pc = "sleep_disk"
          /\ proc'[q].pc = "sleep_lock" => proc[q].pc = "sleep_lock"
      BY <1>2
    <3>3. proc[q].pc # "user" => proc[q].b \in Buf
      BY BufferOf
    <3>4. \A j \in Buf : buf'[j].disk = buf[j].disk /\ buf'[j].lock = buf[j].lock
      BY <1>1
    <3>5. avail' = avail /\ used' = used
      BY <1>b
    <3> QED
      BY <3>1, <3>2, <3>3, <3>4, <3>5
  <2>2. used' # <<>> => irq' \/ intr'
    BY <1>a, <1>b DEF SleepersAwaited
  <2> QED
    BY <2>1, <2>2 DEF SleepersAwaited, At
<1>14. DataInv'
  <2>1. ASSUME NEW q \in Proc, q # p
        PROVE  /\ (Unwritten(q)' <=> Unwritten(q)) /\ (Answered(q)' <=> Answered(q))
               /\ proc'[q].pc = "use" <=> proc[q].pc = "use"
               /\ proc'[q].pc \in InDisk <=> proc[q].pc \in InDisk
    <3>1. /\ proc'[q].pc = IF proc[q].pc = "sleep_free" THEN "alloc" ELSE proc[q].pc
          /\ proc'[q].id = proc[q].id /\ proc'[q].write = proc[q].write
      BY <1>2, <2>1
    <3>2. avail' = avail /\ used' = used
      BY <1>b
    <3> QED
      BY <3>1, <3>2 DEF Unwritten, Answered, At, InDisk
  <2>2. ~Unwritten(p) /\ ~Answered(p)' /\ proc'[p].pc = "use" /\ media' = media
    BY <1>p, <1>2 DEF Unwritten, Answered, At
  <2>3. ASSUME NEW j \in Buf, buf'[j].valid
        PROVE  /\ buf'[j].blockno \in Block /\ buf'[j].data \in Value
               /\ \/ buf'[j].data = media'[buf'[j].blockno]
                  \/ \E q \in Proc : proc'[q].b = j /\ Unwritten(q)'
    <3>1. buf'[j].blockno = buf[j].blockno /\ buf'[j].data = buf[j].data
      BY <1>1
    <3>2. CASE j = i
      BY <1>d, <1>e, <2>2, <3>1, <3>2
    <3>3. CASE j # i
      <4>1. buf[j].valid
        BY <1>1, <2>3, <3>3
      <4>2. /\ buf[j].blockno \in Block /\ buf[j].data \in Value
            /\ \/ buf[j].data = media[buf[j].blockno]
               \/ \E q \in Proc : proc[q].b = j /\ Unwritten(q)
        BY <1>a, <4>1 DEF DataInv
      <4>3. ASSUME NEW q \in Proc, proc[q].b = j /\ Unwritten(q)
            PROVE  proc'[q].b = j /\ Unwritten(q)'
        <5>1. q # p /\ proc'[q].b = proc[q].b
          BY <1>2, <2>2, <4>3
        <5> QED
          BY <2>1, <4>3, <5>1
      <4> QED
        BY <2>2, <3>1, <4>2, <4>3
    <3> QED
      BY <3>2, <3>3
  <2>4. ASSUME NEW q \in Proc
        PROVE  /\ proc'[q].pc = "use" => buf'[proc'[q].b].valid
               /\ proc'[q].pc \in InDisk => (buf'[proc'[q].b].valid <=> proc'[q].write)
               /\ Answered(q)' =>
                    buf'[proc'[q].b].data = media'[buf'[proc'[q].b].blockno]
    <3>1. CASE q = p
      <4>1. proc'[p].b = i /\ buf'[i].valid = TRUE
        BY <1>d, <1>g, <1>1, <1>2
      <4> QED
        BY <2>2, <3>1, <4>1 DEF InDisk
    <3>2. CASE q # p /\ proc[q].pc \notin Locking
      BY <2>1, <3>2 DEF Answered, At, InDisk, Locking
    <3>3. CASE q # p /\ proc[q].pc \in Locking
      <4>1. proc[q].b # i
        <5>1. proc[p].pc \in Locking
          BY <1>b DEF Locking
        <5> QED
          BY <1>g, <3>3, <5>1, OneLocker
      <4>2. proc[q].b \in Buf
        BY <3>3, BufferOf DEF Locking
      <4>3. /\ proc[q].pc = "use" => buf[proc[q].b].valid
            /\ proc[q].pc \in InDisk => (buf[proc[q].b].valid <=> proc[q].write)
            /\ Answered(q) => buf[proc[q].b].data = media[buf[proc[q].b].blockno]
        BY <1>a DEF DataInv, At
      <4>4. /\ proc'[q].b = proc[q].b /\ proc'[q].write = proc[q].write
            /\ buf'[proc[q].b].valid = buf[proc[q].b].valid
            /\ buf'[proc[q].b].data = buf[proc[q].b].data
            /\ buf'[proc[q].b].blockno = buf[proc[q].b].blockno
        BY <1>1, <1>2, <4>1, <4>2
      <4> QED
        BY <2>1, <2>2, <3>3, <4>3, <4>4
    <3> QED
      BY <3>1, <3>2, <3>3
  <2> QED
    BY <2>3, <2>4, Zenon DEF DataInv, At, Buf
<1> QED
  BY <1>6, <1>7, <1>8, <1>9, <1>10, <1>11, <1>12, <1>13, <1>14 DEF BioInv

LEMMA InitInv == Init => BioInv
<1> SUFFICES ASSUME Init
             PROVE  BioInv
  OBVIOUS
<1>1. PICK n \in Nums : info = [d \in 0..(n - 1) |-> NoRequest]
  BY DEF Init, DriverInit
<1>2. n \in Nat \ 0..2 /\ NBUF \in Nat /\ Image \in [Block -> Value]
  BY VirtioAssumption
<1>3. Desc = 0..(n - 1) /\ NUM = n
  <2>1. Desc = 0..(n - 1)
    BY <1>1 DEF Desc
  <2>2. Cardinality(0..(n - 1)) = n
    BY SMT, <1>2, FS_Interval
  <2> QED
    BY <2>1, <2>2 DEF NUM
<1>4. /\ free = Desc /\ avail = {} /\ used = <<>> /\ irq = FALSE /\ intr = FALSE
      /\ media = Image
      /\ buf = [i \in Buf |-> [blockno |-> None, valid |-> FALSE, disk |-> FALSE,
                               refcnt |-> 0, lock |-> None, data |-> None]]
      /\ proc = [p \in Proc |-> [pc |-> "user", b |-> 0, write |-> FALSE, id |-> 0]]
      /\ lru = [i \in Buf |-> NBUF + 1 - i]
  BY DEF Init, DriverInit
<1>5. /\ \A i \in Buf : /\ buf[i].blockno = None /\ buf[i].valid = FALSE
                        /\ buf[i].refcnt = 0 /\ buf[i].lock = None
      /\ \A p \in Proc : proc[p].pc = "user" /\ proc[p].b = 0
  BY <1>4
<1>6. Pending = {}
  BY <1>5 DEF Pending
<1>7. TypeOK
  <2>1. DriverTypeOK
    <3>1. NoRequest \in InfoRec
      <4>1. 0 \in 0..NBUF /\ <<>> \in Seq(Desc)
        BY SMT, <1>2
      <4> QED
        BY <4>1 DEF NoRequest, InfoRec
    <3>2. info \in [Desc -> InfoRec]
      BY <1>1, <1>3, <3>1
    <3>3. used \in Seq(Desc) /\ NUM \in Nums
      BY SMT, <1>3, <1>4
    <3>4. free \subseteq Desc /\ avail \subseteq Desc /\ media \in [Block -> Value]
      BY <1>2, <1>4
    <3>5. irq \in BOOLEAN /\ intr \in BOOLEAN
      BY <1>4
    <3> QED
      BY <3>2, <3>3, <3>4, <3>5 DEF DriverTypeOK
  <2>2. buf \in [Buf -> BufRec]
    BY <1>4 DEF BufRec
  <2>3. proc \in [Proc -> ProcRec]
    <3>1. 0 \in Desc /\ 0 \in 0..NBUF /\ "user" \in Pc
      BY SMT, <1>2, <1>3 DEF Pc
    <3> QED
      BY <1>4, <3>1 DEF ProcRec
  <2>4. lru \in [Buf -> Buf] /\ Range(lru) = Buf
    <3>1. lru \in [Buf -> Buf]
      BY SMT, <1>2, <1>4 DEF Buf
    <3>2. ASSUME NEW i \in Buf
          PROVE  i \in Range(lru)
      <4>1. NBUF + 1 - i \in Buf /\ NBUF + 1 - (NBUF + 1 - i) = i
        BY SMT, <1>2 DEF Buf
      <4> QED
        BY <1>4, <4>1 DEF Range
    <3> QED
      BY <3>1, <3>2 DEF Range
  <2> QED
    BY <2>1, <2>2, <2>3, <2>4 DEF TypeOK
<1>8. PlaceInv
  BY <1>3, <1>5 DEF PlaceInv, At
<1>9. OneBuffer
  BY <1>5 DEF OneBuffer
<1>10. RefcntExact
  <2>1. ASSUME NEW i \in Buf
        PROVE  /\ buf[i].refcnt = Cardinality({p \in Proc : proc[p].b = i})
               /\ \A p \in Proc : buf[i].lock # p /\ proc[p].b # i
    <3>1. \A p \in Proc : proc[p].b # i
      BY SMT, <1>2, <1>5 DEF Buf
    <3>2. {p \in Proc : proc[p].b = i} = {}
      BY <3>1
    <3> QED
      BY <1>5, <3>1, <3>2, FS_EmptySet, VirtioAssumption
  <2> QED
    BY <2>1, Zenon DEF RefcntExact
<1>11. ChainInv /\ DescExact
  <2>1. Cardinality(free) + 3 * Cardinality(Pending) = NUM
    BY SMT, <1>2, <1>3, <1>4, <1>6, FS_EmptySet DEF NUM
  <2> QED
    BY <1>6, <2>1 DEF ChainInv, DescExact
<1>12. RingInv /\ SleepersAwaited
  <2>1. Range(used) = {} /\ DOMAIN used = {}
    BY SMT, <1>4 DEF Range
  <2> QED
    BY <1>4, <1>5, <2>1 DEF RingInv, SleepersAwaited, At
<1>13. DataInv
  BY <1>5 DEF DataInv, At, Answered, InDisk
<1> QED
  BY <1>7, <1>8, <1>9, <1>10, <1>11, <1>12, <1>13 DEF BioInv

LEMMA StutterInv ==
  ASSUME BioInv, UNCHANGED bioVars
  PROVE  BioInv'
<1>1. UNCHANGED <<free, info, avail, used, irq, intr, media, buf, proc, lru>>
  BY DEF bioVars, vars, driver
<1>2. /\ irq' \in BOOLEAN /\ intr' \in BOOLEAN /\ proc' \in [Proc -> ProcRec]
      /\ used # <<>> => irq' \/ intr'
  BY <1>1 DEF BioInv, TypeOK, DriverTypeOK, SleepersAwaited
<1>3. \A q \in Proc : proc'[q].pc = "sleep_free" => Pending # {}
  BY <1>1 DEF BioInv, SleepersAwaited, At
<1> QED
  BY <1>1, <1>2, <1>3, Shuffle

LEMMA NextInv == BioInv /\ [Next]_bioVars => BioInv'
<1> SUFFICES ASSUME BioInv, [Next]_bioVars
             PROVE  BioInv'
  OBVIOUS
<1>1. CASE Device /\ UNCHANGED lru
  BY <1>1, completeInv DEF Device
<1>2. CASE Interrupt /\ UNCHANGED lru
  BY <1>2, IntrInv, used_entryInv DEF Interrupt
<1>3. ASSUME NEW p \in Proc, virtio_disk_rw(p), UNCHANGED lru
      PROVE  BioInv'
  BY <1>3, alloc3_desc_failsInv, submitInv, doneInv DEF virtio_disk_rw
<1>4. ASSUME NEW p \in Proc, NEW bn \in Uses[p], bget(p, bn) \/ bget_recycle(p, bn)
      PROVE  BioInv'
  <2>1. bn \in Block
    BY VirtioAssumption
  <2> QED
    BY <1>4, <2>1, bgetInv, bget_recycleInv
<1>5. ASSUME NEW p \in Proc, acquiresleep(p)
      PROVE  BioInv'
  BY <1>5, acquiresleepInv
<1>6. ASSUME NEW p \in Proc, NEW v \in Value, bwrite(p, v)
      PROVE  BioInv'
  BY <1>6, bwriteInv
<1>7. ASSUME NEW p \in Proc, brelse(p) \/ brelse_end(p)
      PROVE  BioInv'
  BY <1>7, brelseInv, brelse_endInv
<1>8. CASE UNCHANGED bioVars
  BY <1>8, StutterInv
<1> QED
  BY <1>1, <1>2, <1>3, <1>4, <1>5, <1>6, <1>7, <1>8 DEF Next

\* The inductive invariant: the cache, its locks, the descriptors, the rings and
\* the contents of the buffers agree with each other in every state.
THEOREM Invariance == Spec => []BioInv
  BY InitInv, NextInv, PTL DEF Spec

\* Whatever the order of bget(), acquiresleep(), brelse() and the interrupts,
\* no block is cached twice, and the reference count and the lock of a buffer
\* are those of the processes that use it.
THEOREM CacheIsCoherent == Spec => []BuffersExact
<1>1. BioInv => BuffersExact
  BY DEF BioInv, BuffersExact
<1> QED
  BY <1>1, Invariance, PTL

\* alloc3_desc() and free_chain() neither give a descriptor out twice nor lose
\* one, however many requests are under way.
THEOREM DescriptorsAreExact == Spec => []DescExact
<1>1. BioInv => DescExact
  BY DEF BioInv
<1> QED
  BY <1>1, Invariance, PTL

\* No wakeup() of virtio_disk_intr(), free_desc() or releasesleep() is lost:
\* what a sleeping process waits for is under way.
THEOREM NoLostWakeup == Spec => []SleepersAwaited
<1>1. BioInv => SleepersAwaited
  BY DEF BioInv
<1> QED
  BY <1>1, Invariance, PTL

-----------------------------------------------------------------------------
(* The cache implements a disk with a lock on every block                  *)

\* Buffer i has the contents of block bn; p has locked block bn and read it.
Holds(i, bn) == buf[i].blockno = bn /\ buf[i].valid

Holding(p) == At(p, "use") \/ (proc[p].write /\ proc[p].pc \in InDisk)

Owns(p, bn) == proc[p].b # 0 /\ buf[proc[p].b].blockno = bn /\ Holding(p)

\* What the abstract state is, without the choices in its definition.
View ==
  \A bn \in Block :
    /\ \A i \in Buf : Holds(i, bn) => store[bn] = buf[i].data
    /\ (\A i \in Buf : ~Holds(i, bn)) => store[bn] = media[bn]
    /\ \A p \in Proc : Owns(p, bn) => holder[bn] = p
    /\ (\A p \in Proc : ~Owns(p, bn)) => holder[bn] = None

LEMMA ViewFacts == BioInv => View
<1> SUFFICES ASSUME BioInv, NEW bn \in Block
             PROVE  /\ \A i \in Buf : Holds(i, bn) => store[bn] = buf[i].data
                    /\ (\A i \in Buf : ~Holds(i, bn)) => store[bn] = media[bn]
                    /\ \A p \in Proc : Owns(p, bn) => holder[bn] = p
                    /\ (\A p \in Proc : ~Owns(p, bn)) => holder[bn] = None
  BY Zenon DEF View
<1>1. bn # None /\ OneBuffer
  BY VirtioAssumption DEF BioInv
<1>2. ASSUME NEW i \in Buf, NEW j \in Buf, buf[i].blockno = bn, buf[j].blockno = bn
      PROVE  i = j
  BY <1>1, <1>2 DEF OneBuffer
<1>3. store[bn] = IF \E i \in Buf : Holds(i, bn)
                  THEN buf[CHOOSE i \in Buf : Holds(i, bn)].data ELSE media[bn]
  BY DEF store, Holds, Caches
<1>4. ASSUME NEW i \in Buf, Holds(i, bn)
      PROVE  store[bn] = buf[i].data
  <2> DEFINE j == CHOOSE k \in Buf : Holds(k, bn)
  <2>1. j \in Buf /\ Holds(j, bn)
    BY <1>4
  <2>2. store[bn] = buf[j].data
    BY <1>3, <1>4
  <2> HIDE DEF j
  <2>3. j = i
    BY <1>2, <1>4, <2>1 DEF Holds
  <2> QED
    BY <2>2, <2>3
<1>5. holder[bn] = LET ps == {p \in Proc : Owns(p, bn)}
                   IN  IF ps = {} THEN None ELSE CHOOSE p \in ps : TRUE
  BY DEF holder, Owns, Holding, InDisk
<1>6. ASSUME NEW p \in Proc, Owns(p, bn)
      PROVE  holder[bn] = p
  <2> DEFINE ps == {q \in Proc : Owns(q, bn)}
             q == CHOOSE q \in ps : TRUE
  <2>1. p \in ps
    BY <1>6
  <2>2. holder[bn] = q
    BY <1>5, <2>1
  <2>3. q \in Proc /\ Owns(q, bn)
    BY <2>1
  <2> HIDE DEF ps, q
  <2>4. ASSUME NEW o \in Proc, Owns(o, bn)
        PROVE  proc[o].pc \in Locking /\ proc[o].b \in Buf /\ buf[proc[o].b].blockno = bn
    <3>1. proc[o].pc \in Locking
      BY <2>4 DEF Owns, Holding, At, Locking, InDisk
    <3>2. proc[o].pc # "user"
      BY <3>1 DEF Locking
    <3> QED
      BY <2>4, <3>1, <3>2, BufferOf DEF Owns
  <2>5. proc[p].b = proc[q].b
    BY <1>2, <1>6, <2>3, <2>4
  <2>6. p = q
    BY <1>6, <2>3, <2>4, <2>5, OneLocker
  <2> QED
    BY <2>2, <2>6
<1> QED
  BY <1>3, <1>4, <1>5, <1>6

\* The contents and the holder of a block that a step does not concern.
LEMMA SameStore ==
  ASSUME View, View', NEW bn \in Block,
         \A i \in Buf : Holds(i, bn)' <=> Holds(i, bn),
         \A i \in Buf : Holds(i, bn) => buf'[i].data = buf[i].data,
         (\A i \in Buf : ~Holds(i, bn)) => media'[bn] = media[bn]
  PROVE  store'[bn] = store[bn]
  BY DEF View

LEMMA SameHolder ==
  ASSUME View, View', NEW bn \in Block,
         \A p \in Proc : Owns(p, bn)' <=> Owns(p, bn)
  PROVE  holder'[bn] = holder[bn]
  BY DEF View

LEMMA HolderFunctional == holder = [bn \in Block |-> holder[bn]]
<1> DEFINE ps(bn) == {p \in Proc : /\ proc[p].b # 0 /\ buf[proc[p].b].blockno = bn
                                   /\ \/ At(p, "use")
                                      \/ /\ proc[p].write
                                         /\ proc[p].pc \in {"alloc", "sleep_free",
                                                            "sleep_disk", "done"}}
           h(bn) == IF ps(bn) = {} THEN None ELSE CHOOSE p \in ps(bn) : TRUE
<1>1. holder = [bn \in Block |-> h(bn)]
  BY DEF holder
<1> HIDE DEF h
<1> QED
  BY <1>1

LEMMA Functional ==
  /\ store = [bn \in Block |-> store[bn]] /\ store' = [bn \in Block |-> store'[bn]]
  /\ holder = [bn \in Block |-> holder[bn]] /\ holder' = [bn \in Block |-> holder'[bn]]
<1>1. store = [bn \in Block |-> store[bn]]
  BY Zenon DEF store
<1>2. store' = [bn \in Block |-> store'[bn]]
  BY Zenon DEF store
<1>3. (holder = [bn \in Block |-> holder[bn]])'
  BY HolderFunctional, PTL
<1> QED
  BY <1>1, <1>2, <1>3, HolderFunctional

\* Nobody sees a step that leaves the contents and the holders alone.
LEMMA Unseen ==
  ASSUME \A bn \in Block : store'[bn] = store[bn] /\ holder'[bn] = holder[bn]
  PROVE  UNCHANGED Abstract!vars
<1>1. store = [bn \in Block |-> store[bn]] /\ store' = [bn \in Block |-> store'[bn]]
  BY Functional
<1>2. holder = [bn \in Block |-> holder[bn]] /\ holder' = [bn \in Block |-> holder'[bn]]
  BY Functional
<1>3. store' = store
  BY <1>1
<1>4. holder' = holder
  BY <1>2
<1> QED
  BY <1>3, <1>4 DEF Abstract!vars

\* p goes on holding what it holds, and no more.
Keeps(p) ==
  /\ Holding(p)' <=> Holding(p)
  /\ Holding(p) => /\ proc'[p].b = proc[p].b
                   /\ buf'[proc[p].b].blockno = buf[proc[p].b].blockno

LEMMA KeptHolder ==
  ASSUME View, View', \A p \in Proc : Keeps(p), NEW bn \in Block
  PROVE  holder'[bn] = holder[bn]
<1>1. ASSUME NEW p \in Proc
      PROVE  Owns(p, bn)' <=> Owns(p, bn)
  BY DEF Owns, Keeps
<1> QED
  BY <1>1, SameHolder

LEMMA Quiet ==
  ASSUME View, View', \A p \in Proc : Keeps(p), media' = media,
         \A i \in Buf : /\ buf'[i].blockno = buf[i].blockno
                        /\ buf'[i].valid = buf[i].valid /\ buf'[i].data = buf[i].data
  PROVE  UNCHANGED Abstract!vars
<1>1. ASSUME NEW bn \in Block
      PROVE  store'[bn] = store[bn]
  <2>1. \A i \in Buf : Holds(i, bn)' <=> Holds(i, bn)
    BY DEF Holds
  <2> QED
    BY <2>1, SameStore
<1> QED
  BY <1>1, KeptHolder, Unseen

LEMMA TakeStep ==
  ASSUME NEW p \in Proc, NEW b \in Block, holder[b] = None, holder'[b] = p,
         \A c \in Block : store'[c] = store[c] /\ (c # b => holder'[c] = holder[c])
  PROVE  Abstract!Next
<1>1. store = [bn \in Block |-> store[bn]] /\ store' = [bn \in Block |-> store'[bn]]
  BY Functional
<1>2. holder = [bn \in Block |-> holder[bn]] /\ holder' = [bn \in Block |-> holder'[bn]]
  BY Functional
<1>3. store' = store
  BY <1>1
<1>4. holder' = [holder EXCEPT ![b] = p]
  BY <1>2
<1>5. p # None
  BY VirtioAssumption
<1>6. Abstract!Both' = [Abstract!Both EXCEPT !.holder[b] = p]
  BY SMT, <1>3, <1>4 DEF Abstract!Both
<1>7. Abstract!Both' # Abstract!Both
  BY <1>5 DEF Abstract!Both
<1> QED
  BY <1>6, <1>7 DEF Abstract!Next, Abstract!Take, Abstract!Both

LEMMA GiveStep ==
  ASSUME NEW p \in Proc, NEW b \in Block, holder[b] = p, holder'[b] = None,
         \A c \in Block : store'[c] = store[c] /\ (c # b => holder'[c] = holder[c])
  PROVE  Abstract!Next
<1>1. store = [bn \in Block |-> store[bn]] /\ store' = [bn \in Block |-> store'[bn]]
  BY Functional
<1>2. holder = [bn \in Block |-> holder[bn]] /\ holder' = [bn \in Block |-> holder'[bn]]
  BY Functional
<1>3. store' = store
  BY <1>1
<1>4. holder' = [holder EXCEPT ![b] = None]
  BY <1>2
<1>5. p # None
  BY VirtioAssumption
<1>6. Abstract!Both' = [Abstract!Both EXCEPT !.holder[b] = None]
  BY SMT, <1>3, <1>4 DEF Abstract!Both
<1>7. Abstract!Both' # Abstract!Both
  BY <1>5 DEF Abstract!Both
<1> QED
  BY <1>6, <1>7 DEF Abstract!Next, Abstract!Give, Abstract!Both

\* A process may write back what it read, which is not seen.
LEMMA ChangeStep ==
  ASSUME NEW p \in Proc, NEW b \in Block, NEW v \in Value, holder[b] = p, store'[b] = v,
         \A c \in Block : holder'[c] = holder[c] /\ (c # b => store'[c] = store[c])
  PROVE  Abstract!Next \/ UNCHANGED Abstract!vars
<1>1. store = [bn \in Block |-> store[bn]] /\ store' = [bn \in Block |-> store'[bn]]
  BY Functional
<1>2. holder = [bn \in Block |-> holder[bn]] /\ holder' = [bn \in Block |-> holder'[bn]]
  BY Functional
<1>3. store' = [store EXCEPT ![b] = v]
  BY <1>1
<1>4. holder' = holder
  BY <1>2
<1>5. CASE store[b] = v
  BY <1>5, Unseen
<1>6. CASE store[b] # v
  <2>1. Abstract!Both' = [Abstract!Both EXCEPT !.store[b] = v]
    BY SMT, <1>3, <1>4 DEF Abstract!Both
  <2>2. Abstract!Both' # Abstract!Both
    BY <1>6 DEF Abstract!Both
  <2> QED
    BY SMT, <2>1, <2>2 DEF Abstract!Next, Abstract!Change, Abstract!Both
<1> QED
  BY <1>5, <1>6

LEMMA alloc3_desc_failsRefines ==
  ASSUME BioInv, View, View', NEW p \in Proc, alloc3_desc_fails(p)
  PROVE  UNCHANGED Abstract!vars
<1>a. TypeOK /\ buf \in [Buf -> BufRec] /\ proc \in [Proc -> ProcRec]
  BY DEF BioInv, TypeOK
<1> DEFINE w == Wakeup(proc, "sleep_free", Buf, "alloc")
<1>b. /\ w \in [Proc -> ProcRec]
      /\ \A q \in Proc :
           /\ w[q].b = proc[q].b /\ w[q].write = proc[q].write
           /\ w[q].pc = IF proc[q].pc = "sleep_free" /\ proc[q].b \in Buf
                       THEN "alloc" ELSE proc[q].pc
  BY <1>a, WokenFacts
<1>c. /\ proc[p].pc = "alloc" /\ media' = media /\ buf' = buf
      /\ \/ proc' = [proc EXCEPT ![p].pc = "sleep_free"]
         \/ proc' = [w EXCEPT ![p].pc = "sleep_free"]
  BY DEF alloc3_desc_fails, At, Goto, driver
<1> HIDE DEF w
<1>1. \A q \in Proc :
        /\ proc'[q].b = proc[q].b /\ proc'[q].write = proc[q].write
        /\ \/ proc'[q].pc = proc[q].pc
           \/ /\ proc'[q].pc \in {"alloc", "sleep_free"}
              /\ proc[q].pc \in {"alloc", "sleep_free"}
  <2>1. CASE proc' = [proc EXCEPT ![p].pc = "sleep_free"]
    <3>1. /\ proc'[p].b = proc[p].b /\ proc'[p].write = proc[p].write
          /\ proc'[p].pc = "sleep_free"
          /\ \A q \in Proc : q # p => proc'[q] = proc[q]
      BY <1>a, <2>1 DEF ProcRec
    <3>2. proc[p].pc = "alloc"
      BY <1>c
    <3> QED
      BY <3>1, <3>2
  <2>2. CASE proc' = [w EXCEPT ![p].pc = "sleep_free"]
    <3>1. /\ proc'[p].b = w[p].b /\ proc'[p].write = w[p].write
          /\ proc'[p].pc = "sleep_free"
          /\ \A q \in Proc : q # p => proc'[q] = w[q]
      BY <1>b, <2>2 DEF ProcRec
    <3>2. proc[p].pc = "alloc"
      BY <1>c
    <3> QED
      BY <1>b, <3>1, <3>2
  <2> QED
    BY <1>c, <2>1, <2>2
<1>2. buf' = buf /\ media' = media
  BY <1>c
<1>3. ASSUME NEW q \in Proc
      PROVE  Keeps(q)
  BY <1>1, <1>2 DEF Keeps, Holding, At, InDisk
<1> QED
  BY <1>2, <1>3, Quiet

LEMMA submitRefines ==
  ASSUME BioInv, View, View', NEW p \in Proc, submit(p)
  PROVE  UNCHANGED Abstract!vars
<1>a. TypeOK /\ buf \in [Buf -> BufRec] /\ proc \in [Proc -> ProcRec]
  BY DEF BioInv, TypeOK
<1>1. media' = media
  BY DEF submit
<1>2. \A j \in Buf : /\ buf'[j].blockno = buf[j].blockno /\ buf'[j].valid = buf[j].valid
                     /\ buf'[j].data = buf[j].data
  BY <1>a DEF submit, BufRec
<1>3. \A q \in Proc :
        /\ proc'[q].b = proc[q].b /\ proc'[q].write = proc[q].write
        /\ proc'[q].pc = IF q = p THEN "sleep_disk" ELSE proc[q].pc
  BY <1>a DEF submit, ProcRec
<1>4. proc[p].pc = "alloc"
  BY DEF submit, At
<1>5. \A q \in Proc : Holding(q) => proc[q].b \in Buf
  BY BufferOf DEF Holding, At, InDisk
<1>6. ASSUME NEW q \in Proc
      PROVE  Keeps(q)
  <2>1. Holding(q)' <=> Holding(q)
    BY <1>3, <1>4 DEF Holding, At, InDisk
  <2> QED
    BY <1>2, <1>3, <1>5, <2>1 DEF Keeps
<1> QED
  BY <1>1, <1>2, <1>6, Quiet

LEMMA InterruptRefines ==
  ASSUME BioInv, View, View', Interrupt
  PROVE  UNCHANGED Abstract!vars
<1>a. TypeOK /\ buf \in [Buf -> BufRec] /\ proc \in [Proc -> ProcRec]
  BY DEF BioInv, TypeOK
<1>1. CASE virtio_disk_intr \/ intr_end
  <2>1. buf' = buf /\ proc' = proc /\ media' = media
    BY <1>1 DEF virtio_disk_intr, intr_end
  <2>2. \A q \in Proc : Keeps(q)
    BY <2>1 DEF Keeps, Holding, At
  <2> QED
    BY <2>1, <2>2, Quiet
<1>2. CASE used_entry
  <2> DEFINE b == info[Head(used)].b
  <2>1. /\ buf' = [buf EXCEPT ![b].disk = FALSE] /\ media' = media
        /\ proc' = Wakeup(proc, "sleep_disk", {b}, "done")
    BY <1>2 DEF used_entry
  <2> HIDE DEF b
  <2>2. \A j \in Buf : /\ buf'[j].blockno = buf[j].blockno /\ buf'[j].valid = buf[j].valid
                       /\ buf'[j].data = buf[j].data
    BY <1>a, <2>1 DEF BufRec
  <2>3. ASSUME NEW q \in Proc
        PROVE  /\ proc'[q].b = proc[q].b /\ proc'[q].write = proc[q].write
               /\ \/ proc'[q].pc = proc[q].pc
                  \/ proc[q].pc = "sleep_disk" /\ proc'[q].pc = "done"
    BY <1>a, <2>1 DEF Wakeup, ProcRec
  <2>4. \A q \in Proc : Holding(q) => proc[q].b \in Buf
    BY BufferOf DEF Holding, At, InDisk
  <2>5. ASSUME NEW q \in Proc
        PROVE  Keeps(q)
    <3>1. Holding(q)' <=> Holding(q)
      BY <2>3 DEF Holding, At, InDisk
    <3> QED
      BY <2>2, <2>3, <2>4, <3>1 DEF Keeps
  <2>6. media' = media
    BY <2>1
  <2> QED
    BY <2>2, <2>5, <2>6, Quiet
<1> QED
  BY <1>1, <1>2 DEF Interrupt

LEMMA bgetRefines ==
  ASSUME BioInv, View, View', NEW p \in Proc, NEW bn, bget(p, bn)
  PROVE  UNCHANGED Abstract!vars
<1>a. TypeOK /\ buf \in [Buf -> BufRec] /\ proc \in [Proc -> ProcRec]
  BY DEF BioInv, TypeOK
<1>b. PICK i \in Buf : /\ buf' = [buf EXCEPT ![i].refcnt = @ + 1]
                     /\ proc' = [proc EXCEPT ![p].pc = "acquiresleep", ![p].b = i]
  BY DEF bget, Refer
<1>1. media' = media /\ proc[p].pc = "user"
  BY DEF bget, driver, At
<1>2. \A j \in Buf : /\ buf'[j].blockno = buf[j].blockno /\ buf'[j].valid = buf[j].valid
                     /\ buf'[j].data = buf[j].data
  BY <1>a, <1>b DEF BufRec
<1>3. \A q \in Proc : /\ q # p => proc'[q] = proc[q]
                      /\ proc'[p].pc = "acquiresleep"
  BY <1>a, <1>b DEF ProcRec
<1>4. \A q \in Proc : Holding(q) => proc[q].b \in Buf
  BY BufferOf DEF Holding, At, InDisk
<1>5. ASSUME NEW q \in Proc
      PROVE  Keeps(q)
  <2>1. ~Holding(p) /\ ~Holding(p)'
    BY <1>1, <1>3 DEF Holding, At, InDisk
  <2>2. q # p => (Holding(q)' <=> Holding(q))
    BY <1>3 DEF Holding, At
  <2> QED
    BY <1>2, <1>3, <1>4, <2>1, <2>2 DEF Keeps
<1> QED
  BY <1>1, <1>2, <1>5, Quiet

LEMMA brelse_endRefines ==
  ASSUME BioInv, View, View', NEW p \in Proc, brelse_end(p)
  PROVE  UNCHANGED Abstract!vars
<1>a. TypeOK /\ buf \in [Buf -> BufRec] /\ proc \in [Proc -> ProcRec]
  BY DEF BioInv, TypeOK
<1>1. media' = media /\ proc[p].pc = "brelse"
  BY DEF brelse_end, driver, At
<1>2. \A j \in Buf : /\ buf'[j].blockno = buf[j].blockno /\ buf'[j].valid = buf[j].valid
                     /\ buf'[j].data = buf[j].data
  BY <1>a DEF brelse_end, BufRec
<1>3. \A q \in Proc : /\ q # p => proc'[q] = proc[q]
                      /\ proc'[p].pc = "user"
  BY <1>a DEF brelse_end
<1>4. \A q \in Proc : Holding(q) => proc[q].b \in Buf
  BY BufferOf DEF Holding, At, InDisk
<1>5. ASSUME NEW q \in Proc
      PROVE  Keeps(q)
  <2>1. ~Holding(p) /\ ~Holding(p)'
    BY <1>1, <1>3 DEF Holding, At, InDisk
  <2>2. q # p => (Holding(q)' <=> Holding(q))
    BY <1>3 DEF Holding, At
  <2> QED
    BY <1>2, <1>3, <1>4, <2>1, <2>2 DEF Keeps
<1> QED
  BY <1>1, <1>2, <1>5, Quiet

\* A buffer that is recycled agrees with the disk, and nobody holds it.
LEMMA bget_recycleRefines ==
  ASSUME BioInv, View, View', NEW p \in Proc, NEW bn \in Block, bget_recycle(p, bn)
  PROVE  UNCHANGED Abstract!vars
<1>a. TypeOK /\ buf \in [Buf -> BufRec] /\ proc \in [Proc -> ProcRec]
  BY DEF BioInv, TypeOK
<1>b. \A k \in DOMAIN lru : lru[k] \in Buf
  BY <1>a DEF TypeOK
<1>c. PICK i \in Buf :
        /\ buf[i].refcnt = 0
        /\ buf' = [buf EXCEPT ![i] = Recycled(@, bn)]
        /\ proc' = [proc EXCEPT ![p].pc = "acquiresleep", ![p].b = i]
  BY <1>b DEF bget_recycle, Refer
<1>1. media' = media /\ proc[p].pc = "user" /\ \A j \in Buf : buf[j].blockno # bn
  BY DEF bget_recycle, driver, At, Caches
<1>2. buf'[i].valid = FALSE /\ \A j \in Buf : j # i => buf'[j] = buf[j]
  BY <1>a, <1>c DEF BufRec, Recycled
<1>3. \A q \in Proc : /\ q # p => proc'[q] = proc[q]
                      /\ proc'[p].pc = "acquiresleep"
  BY <1>a, <1>c DEF ProcRec
<1>4. ASSUME NEW q \in Proc
      PROVE  proc[q].b # i
  <2>1. Cardinality({o \in Proc : proc[o].b = i}) = 0
    BY <1>c DEF BioInv, RefcntExact
  <2>2. IsFiniteSet({o \in Proc : proc[o].b = i})
    BY VirtioAssumption, FS_Subset
  <2>3. {o \in Proc : proc[o].b = i} = {}
    BY <2>1, <2>2, FS_EmptySet
  <2> QED
    BY <2>3
<1>5. \A q \in Proc : Holding(q) => proc[q].b \in Buf
  BY BufferOf DEF Holding, At, InDisk
<1>6. ASSUME NEW q \in Proc
      PROVE  Keeps(q)
  <2>1. ~Holding(p) /\ ~Holding(p)'
    BY <1>1, <1>3 DEF Holding, At, InDisk
  <2>2. q # p => (Holding(q)' <=> Holding(q))
    BY <1>3 DEF Holding, At
  <2> QED
    BY <1>2, <1>3, <1>4, <1>5, <2>1, <2>2 DEF Keeps
<1>7. ASSUME NEW c \in Block
      PROVE  store'[c] = store[c]
  <2>1. ~Holds(i, c)'
    BY <1>2 DEF Holds
  <2>2. ASSUME NEW j \in Buf, j # i
        PROVE  (Holds(j, c)' <=> Holds(j, c)) /\ buf'[j].data = buf[j].data
    BY <1>2, <2>2 DEF Holds
  <2>3. CASE Holds(i, c)
    <3>1. buf[i].data = media[c]
      BY <1>c, <1>4, <2>3 DEF BioInv, DataInv, Holds
    <3>2. store[c] = media[c]
      BY <1>c, <2>3, <3>1 DEF View
    <3>3. \A j \in Buf : j # i => ~Holds(j, c)
      BY <1>c, <2>3, VirtioAssumption DEF BioInv, OneBuffer, Holds
    <3>4. \A j \in Buf : ~Holds(j, c)'
      BY <2>1, <2>2, <3>3
    <3>5. store'[c] = media'[c]
      BY <3>4 DEF View
    <3> QED
      BY <1>1, <3>2, <3>5
  <2>4. CASE ~Holds(i, c)
    <3>1. \A j \in Buf : Holds(j, c)' <=> Holds(j, c)
      BY <2>1, <2>2, <2>4
    <3>2. \A j \in Buf : Holds(j, c) => buf'[j].data = buf[j].data
      BY <2>2, <2>4
    <3> QED
      BY <1>1, <3>1, <3>2, SameStore
  <2> QED
    BY <2>3, <2>4
<1> QED
  BY <1>6, <1>7, KeptHolder, Unseen

\* The device reads into a buffer that is not valid yet, and writes from one
\* that is.
LEMMA completeRefines ==
  ASSUME BioInv, View, View', NEW d, complete(d)
  PROVE  UNCHANGED Abstract!vars
<1>a. TypeOK /\ buf \in [Buf -> BufRec] /\ proc \in [Proc -> ProcRec]
  BY DEF BioInv, TypeOK
<1>b. PICK p \in Proc : proc[p].pc = "sleep_disk" /\ proc[p].id = d
  BY DEF complete, BioInv, RingInv, At
<1> DEFINE i == proc[p].b
           r == info[d]
<1>c. i \in Buf /\ buf[i].blockno \in Block
  BY <1>b, BufferOf
<1>d. r.b = i /\ (r.write <=> proc[p].write)
  <2>1. p \in Pending
    BY <1>b DEF Pending
  <2> QED
    BY <1>b, <2>1 DEF BioInv, DescExact, ChainInv
<1>e. buf[i].valid <=> r.write
  <2>1. proc[p].pc \in InDisk
    BY <1>b DEF InDisk
  <2> QED
    BY <1>d, <2>1 DEF BioInv, DataInv
<1>f. /\ proc' = proc
      /\ \/ /\ r.write /\ buf' = buf
            /\ media' = [media EXCEPT ![buf[r.b].blockno] = buf[r.b].data]
         \/ /\ ~r.write /\ media' = media
            /\ buf' = [buf EXCEPT ![r.b].data = media[buf[r.b].blockno]]
  BY DEF complete
<1> HIDE DEF i, r
<1>1. \A j \in Buf : buf'[j].blockno = buf[j].blockno /\ buf'[j].valid = buf[j].valid
  BY SMT, <1>a, <1>f DEF BufRec
<1>2. \A q \in Proc : Holding(q) => proc[q].b \in Buf
  BY BufferOf DEF Holding, At, InDisk
<1>3. proc' = proc
  BY <1>f
<1>4. ASSUME NEW q \in Proc
      PROVE  Keeps(q)
  <2>1. Holding(q)' <=> Holding(q)
    BY <1>3 DEF Holding, At
  <2> QED
    BY <1>1, <1>2, <1>3, <2>1 DEF Keeps
<1>5. ASSUME NEW c \in Block
      PROVE  store'[c] = store[c]
  <2>1. \A j \in Buf : Holds(j, c)' <=> Holds(j, c)
    BY <1>1 DEF Holds
  <2>2. CASE r.write
    <3>1. buf' = buf /\ media' = [media EXCEPT ![buf[i].blockno] = buf[i].data]
      BY <1>d, <1>f, <2>2
    <3>2. Holds(i, buf[i].blockno)
      BY <1>e, <2>2 DEF Holds
    <3>3. (\A j \in Buf : ~Holds(j, c)) => c # buf[i].blockno
      BY <1>c, <3>2
    <3>4. media \in [Block -> Value]
      BY <1>a DEF TypeOK, DriverTypeOK
    <3>5. (\A j \in Buf : ~Holds(j, c)) => media'[c] = media[c]
      BY <3>1, <3>3, <3>4
    <3>6. \A j \in Buf : buf'[j].data = buf[j].data
      BY <3>1
    <3> QED
      BY <2>1, <3>5, <3>6, SameStore
  <2>3. CASE ~r.write
    <3>1. media' = media /\ \A j \in Buf : j # i => buf'[j].data = buf[j].data
      BY <1>a, <1>d, <1>f, <2>3
    <3>2. ~Holds(i, c)
      BY <1>e, <2>3 DEF Holds
    <3>3. \A j \in Buf : Holds(j, c) => buf'[j].data = buf[j].data
      BY <3>1, <3>2
    <3> QED
      BY <2>1, <3>1, <3>3, SameStore
  <2> QED
    BY <2>2, <2>3
<1> QED
  BY <1>4, <1>5, KeptHolder, Unseen

\* A process gets to hold a block: the lock of the buffer excludes the others.
LEMMA Taken ==
  ASSUME BioInv, View, View', NEW p \in Proc, NEW i \in Buf, proc[p].b = i,
         proc'[p].b = i, ~Holding(p), Holding(p)', buf[i].blockno \in Block,
         \A q \in Proc : Holding(q) => proc[q].b # i,
         \A q \in Proc : q # p => proc'[q].b = proc[q].b,
         \A q \in Proc : q # p => (Holding(q)' <=> Holding(q)),
         \A j \in Buf : buf'[j].blockno = buf[j].blockno,
         \A c \in Block : store'[c] = store[c]
  PROVE  Abstract!Next
<1>1. PICK bn \in Block : bn = buf[i].blockno
  OBVIOUS
<1>a. TypeOK
  BY DEF BioInv
<1>2. i # 0
  BY <1>a, BufFacts
<1>3. \A q \in Proc : Holding(q) => proc[q].b \in Buf
  BY BufferOf DEF Holding, At, InDisk
<1>4. ASSUME NEW q \in Proc
      PROVE  ~Owns(q, bn)
  <2>1. SUFFICES ASSUME Owns(q, bn)
                 PROVE  FALSE
    OBVIOUS
  <2>2. Holding(q) /\ proc[q].b \in Buf /\ proc[q].b # i /\ buf[proc[q].b].blockno = bn
    BY <1>3, <2>1 DEF Owns
  <2> QED
    BY ZenonT(60), <1>1, <2>2, VirtioAssumption DEF BioInv, OneBuffer
<1>5. holder[bn] = None
  BY <1>4 DEF View
<1>6. Owns(p, bn)'
  BY <1>1, <1>2 DEF Owns
<1>7. holder'[bn] = p
  BY <1>6 DEF View
<1>8. ASSUME NEW c \in Block, c # bn
      PROVE  holder'[c] = holder[c]
  <2>1. ASSUME NEW q \in Proc
        PROVE  Owns(q, c)' <=> Owns(q, c)
    <3>1. CASE q = p
      <4>1. ~Owns(p, c)
        BY DEF Owns
      <4>2. ~Owns(p, c)'
        BY <1>1, <1>8 DEF Owns
      <4> QED
        BY <3>1, <4>1, <4>2
    <3>2. CASE q # p
      <4>1. proc'[q].b = proc[q].b /\ (Holding(q)' <=> Holding(q))
        BY <3>2
      <4>2. Holding(q) => buf'[proc[q].b].blockno = buf[proc[q].b].blockno
        BY <1>3
      <4> QED
        BY <4>1, <4>2 DEF Owns
    <3> QED
      BY <3>1, <3>2
  <2> QED
    BY <2>1, SameHolder
<1> QED
  BY <1>5, <1>7, <1>8, TakeStep

LEMMA acquiresleepRefines ==
  ASSUME BioInv, View, View', NEW p \in Proc, acquiresleep(p)
  PROVE  Abstract!Next \/ UNCHANGED Abstract!vars
<1>a. TypeOK /\ buf \in [Buf -> BufRec] /\ proc \in [Proc -> ProcRec]
  BY DEF BioInv, TypeOK
<1>b. proc[p].pc = "acquiresleep" /\ media' = media
  BY DEF acquiresleep, At, driver
<1>c. PICK i \in Buf : proc[p].b = i /\ buf[i].blockno \in Block
  BY <1>b, BufferOf
<1>1. \A j \in Buf : /\ buf'[j].blockno = buf[j].blockno /\ buf'[j].valid = buf[j].valid
                     /\ buf'[j].data = buf[j].data
  <2>1. buf' = buf \/ buf' = [buf EXCEPT ![i].lock = p]
    BY <1>c DEF acquiresleep
  <2> QED
    BY SMT, <1>a, <2>1 DEF BufRec
<1>2. \A q \in Proc : q # p => proc'[q] = proc[q]
  <2>1. CASE buf[i].lock = None
    <3>1. proc' = [proc EXCEPT ![p].pc = IF buf[i].valid THEN "use" ELSE "alloc",
                              ![p].write = FALSE]
      BY <1>c, <2>1 DEF acquiresleep
    <3> QED
      BY <1>a, <3>1
  <2>2. CASE buf[i].lock # None
    BY <1>a, <1>c, <2>2 DEF acquiresleep, Goto
  <2> QED
    BY <2>1, <2>2
<1>3. \A q \in Proc : q # p => (Holding(q)' <=> Holding(q))
  BY <1>2 DEF Holding, At
<1>4. \A q \in Proc : Holding(q) => proc[q].b \in Buf
  BY BufferOf DEF Holding, At, InDisk
<1>5. ~Holding(p)
  BY <1>b DEF Holding, At, InDisk
<1>6. CASE Holding(p)'
  <2>1. buf[i].lock = None
    <3>1. SUFFICES ASSUME buf[i].lock # None
                   PROVE  FALSE
      OBVIOUS
    <3>2. proc'[p].pc = "sleep_lock"
      BY <1>a, <1>c, <3>1 DEF acquiresleep, Goto, ProcRec
    <3> QED
      BY <1>6, <3>2 DEF Holding, At, InDisk
  <2>2. ASSUME NEW q \in Proc, Holding(q)
        PROVE  proc[q].b # i
    <3>1. SUFFICES ASSUME proc[q].b = i
                   PROVE  FALSE
      OBVIOUS
    <3>2. proc[q].pc \in Locking
      BY <2>2 DEF Holding, At, InDisk, Locking
    <3>3. buf[i].lock = q
      BY <3>1, <3>2, LockIff
    <3> QED
      BY <2>1, <3>3, VirtioAssumption
  <2>3. proc'[p].b = i
    <3>1. proc' = [proc EXCEPT ![p].pc = IF buf[i].valid THEN "use" ELSE "alloc",
                              ![p].write = FALSE]
      BY <1>c, <2>1 DEF acquiresleep
    <3> QED
      BY <1>a, <1>c, <3>1 DEF ProcRec
  <2>4. ASSUME NEW c \in Block
        PROVE  store'[c] = store[c]
    <3>1. \A j \in Buf : Holds(j, c)' <=> Holds(j, c)
      BY <1>1 DEF Holds
    <3> QED
      BY <1>b, <1>1, <3>1, SameStore
  <2>5. \A q \in Proc : q # p => proc'[q].b = proc[q].b
    BY <1>2
  <2>6. \A j \in Buf : buf'[j].blockno = buf[j].blockno
    BY <1>1
  <2>7. Abstract!Next
    BY <1>c, <1>3, <1>5, <1>6, <2>2, <2>3, <2>4, <2>5, <2>6, Taken
  <2> QED
    BY <2>7
<1>7. CASE ~Holding(p)'
  <2>1. ASSUME NEW q \in Proc
        PROVE  Keeps(q)
    BY <1>1, <1>2, <1>3, <1>4, <1>5, <1>7 DEF Keeps
  <2> QED
    BY <1>b, <1>1, <2>1, Quiet
<1> QED
  BY <1>6, <1>7

LEMMA doneRefines ==
  ASSUME BioInv, View, View', NEW p \in Proc, done(p)
  PROVE  Abstract!Next \/ UNCHANGED Abstract!vars
<1>a. TypeOK /\ buf \in [Buf -> BufRec] /\ proc \in [Proc -> ProcRec]
  BY DEF BioInv, TypeOK
<1>b. proc[p].pc = "done" /\ media' = media
  BY DEF done, At
<1>c. PICK i \in Buf : proc[p].b = i /\ buf[i].blockno \in Block
  BY <1>b, BufferOf
<1> DEFINE w == Wakeup(proc, "sleep_free", Buf, "alloc")
<1>d. /\ w \in [Proc -> ProcRec]
      /\ \A q \in Proc :
           /\ w[q].b = proc[q].b /\ w[q].write = proc[q].write
           /\ w[q].pc = IF proc[q].pc = "sleep_free" /\ proc[q].b \in Buf
                       THEN "alloc" ELSE proc[q].pc
  BY <1>a, WokenFacts
<1>e. proc' = [w EXCEPT ![p].pc = "use"] /\ buf' = [buf EXCEPT ![i].valid = TRUE]
  BY <1>c DEF done
<1> HIDE DEF w
<1>1. \A j \in Buf : /\ buf'[j].blockno = buf[j].blockno /\ buf'[j].data = buf[j].data
                     /\ buf'[j].valid = IF j = i THEN TRUE ELSE buf[j].valid
  BY <1>a, <1>e DEF BufRec
<1>2. \A q \in Proc :
        /\ proc'[q].b = proc[q].b /\ proc'[q].write = proc[q].write
        /\ \/ q = p /\ proc'[q].pc = "use"
           \/ q # p /\ proc'[q].pc = proc[q].pc
           \/ q # p /\ proc[q].pc = "sleep_free" /\ proc'[q].pc = "alloc"
  <2>1. /\ proc'[p].b = w[p].b /\ proc'[p].write = w[p].write /\ proc'[p].pc = "use"
        /\ \A q \in Proc : q # p => proc'[q] = w[q]
    BY <1>d, <1>e DEF ProcRec
  <2> QED
    BY <1>d, <2>1
<1>3. \A q \in Proc : q # p => (Holding(q)' <=> Holding(q))
  BY <1>2 DEF Holding, At, InDisk
<1>4. \A q \in Proc : Holding(q) => proc[q].b \in Buf
  BY BufferOf DEF Holding, At, InDisk
<1>5. Holding(p)' /\ (Holding(p) <=> buf[i].valid)
  <2>1. Holding(p)'
    BY <1>2 DEF Holding, At
  <2>2. proc[p].pc \in InDisk
    BY <1>b DEF InDisk
  <2>3. buf[i].valid <=> proc[p].write
    BY <1>c, <2>2 DEF BioInv, DataInv
  <2> QED
    BY <1>b, <2>1, <2>2, <2>3 DEF Holding, At
<1>6. CASE Holding(p)
  <2>1. \A j \in Buf : /\ buf'[j].blockno = buf[j].blockno /\ buf'[j].data = buf[j].data
                       /\ buf'[j].valid = buf[j].valid
    <3>1. buf[i].valid = TRUE
      BY <1>a, <1>5, <1>6 DEF BufRec
    <3> QED
      BY <1>1, <3>1
  <2>2. ASSUME NEW q \in Proc
        PROVE  Keeps(q)
    <3>1. Holding(q)' <=> Holding(q)
      BY <1>3, <1>5, <1>6
    <3>2. proc'[q].b = proc[q].b
      BY <1>2
    <3> QED
      BY <1>4, <2>1, <3>1, <3>2 DEF Keeps
  <2> QED
    BY <1>b, <2>1, <2>2, Quiet
<1>7. CASE ~Holding(p)
  <2>1. ASSUME NEW q \in Proc, Holding(q)
        PROVE  proc[q].b # i
    <3>1. proc[q].pc \in Locking /\ proc[p].pc \in Locking
      BY <1>b, <2>1 DEF Holding, At, InDisk, Locking
    <3> QED
      BY <1>c, <1>7, <2>1, <3>1, OneLocker
  <2>2. ASSUME NEW c \in Block
        PROVE  store'[c] = store[c]
    <3>1. ASSUME NEW j \in Buf, j # i
          PROVE  Holds(j, c)' <=> Holds(j, c)
      BY <1>1, <3>1 DEF Holds
    <3>2. ~Holds(i, c) /\ (Holds(i, c)' <=> buf[i].blockno = c)
      BY <1>1, <1>5, <1>7 DEF Holds
    <3>3. CASE buf[i].blockno = c
      <4>1. store'[c] = buf'[i].data
        BY <3>2, <3>3 DEF View
      <4>2. buf[i].data = media[c]
        BY <1>b, <1>c, <3>3 DEF BioInv, DataInv, Answered, At
      <4>3. \A j \in Buf : ~Holds(j, c)
        <5>1. \A j \in Buf : j # i => buf[j].blockno # c
          BY <3>3, VirtioAssumption DEF BioInv, OneBuffer
        <5> QED
          BY <3>2, <5>1 DEF Holds
      <4>4. store[c] = media[c]
        BY <4>3 DEF View
      <4>5. buf'[i].data = buf[i].data
        BY <1>1
      <4> QED
        BY <4>1, <4>2, <4>4, <4>5
    <3>4. CASE buf[i].blockno # c
      <4>1. \A j \in Buf : Holds(j, c)' <=> Holds(j, c)
        BY <3>1, <3>2, <3>4
      <4>2. \A j \in Buf : buf'[j].data = buf[j].data
        BY <1>1
      <4> QED
        BY <1>b, <4>1, <4>2, SameStore
    <3> QED
      BY <3>3, <3>4
  <2>3. \A q \in Proc : proc'[q].b = proc[q].b
    BY <1>2
  <2>4. \A j \in Buf : buf'[j].blockno = buf[j].blockno
    BY <1>1
  <2>5. Abstract!Next
    BY <1>c, <1>3, <1>5, <1>7, <2>1, <2>2, <2>3, <2>4, Taken
  <2> QED
    BY <2>5
<1> QED
  BY <1>6, <1>7

LEMMA bwriteRefines ==
  ASSUME BioInv, View, View', NEW p \in Proc, NEW v \in Value, bwrite(p, v)
  PROVE  Abstract!Next \/ UNCHANGED Abstract!vars
<1>a. TypeOK /\ buf \in [Buf -> BufRec] /\ proc \in [Proc -> ProcRec]
  BY DEF BioInv, TypeOK
<1>b. proc[p].pc = "use" /\ media' = media
  BY DEF bwrite, At, driver
<1>c. PICK i \in Buf : proc[p].b = i /\ i # 0 /\ buf[i].blockno \in Block
  BY <1>b, BufferOf
<1>d. PICK bn \in Block : bn = buf[i].blockno
  BY <1>c
<1>e. /\ buf' = [buf EXCEPT ![i].data = v]
      /\ proc' = [proc EXCEPT ![p].pc = "alloc", ![p].write = TRUE]
  BY <1>c DEF bwrite
<1>1. /\ \A j \in Buf : buf'[j].blockno = buf[j].blockno /\ buf'[j].valid = buf[j].valid
      /\ \A j \in Buf : j # i => buf'[j].data = buf[j].data
      /\ buf'[i].data = v
  BY <1>a, <1>e DEF BufRec
<1>2. /\ \A q \in Proc : q # p => proc'[q] = proc[q]
      /\ proc'[p].b = proc[p].b /\ proc'[p].pc = "alloc" /\ proc'[p].write = TRUE
  BY <1>a, <1>e DEF ProcRec
<1>3. \A q \in Proc : Holding(q) => proc[q].b \in Buf
  BY BufferOf DEF Holding, At, InDisk
<1>4. Holding(p) /\ Holding(p)'
  BY <1>b, <1>2 DEF Holding, At, InDisk
<1>5. ASSUME NEW q \in Proc
      PROVE  Keeps(q)
  <2>1. q # p => (Holding(q)' <=> Holding(q))
    BY <1>2 DEF Holding, At
  <2> QED
    BY <1>1, <1>2, <1>3, <1>4, <2>1 DEF Keeps
<1>6. holder[bn] = p
  <2>1. Owns(p, bn)
    BY <1>c, <1>d, <1>4 DEF Owns
  <2> QED
    BY <2>1 DEF View
<1>7. Holds(i, bn)'
  <2>1. buf[i].valid
    BY <1>b, <1>c DEF BioInv, DataInv, At
  <2> QED
    BY <1>d, <1>1, <2>1 DEF Holds
<1>8. store'[bn] = v
  BY <1>1, <1>7 DEF View
<1>9. ASSUME NEW c \in Block, c # bn
      PROVE  store'[c] = store[c]
  <2>1. \A j \in Buf : Holds(j, c)' <=> Holds(j, c)
    BY <1>1 DEF Holds
  <2>2. \A j \in Buf : Holds(j, c) => buf'[j].data = buf[j].data
    BY <1>d, <1>1, <1>9 DEF Holds
  <2> QED
    BY <1>b, <2>1, <2>2, SameStore
<1>10. \A c \in Block : holder'[c] = holder[c]
  BY <1>5, KeptHolder
<1> QED
  BY <1>6, <1>8, <1>9, <1>10, ChangeStep

LEMMA brelseRefines ==
  ASSUME BioInv, View, View', NEW p \in Proc, brelse(p)
  PROVE  Abstract!Next
<1>a. TypeOK /\ buf \in [Buf -> BufRec] /\ proc \in [Proc -> ProcRec]
  BY DEF BioInv, TypeOK
<1>b. proc[p].pc = "use" /\ media' = media
  BY DEF brelse, At, driver
<1>c. PICK i \in Buf : proc[p].b = i /\ i # 0 /\ buf[i].blockno \in Block
  BY <1>b, BufferOf
<1>d. PICK bn \in Block : bn = buf[i].blockno
  BY <1>c
<1>e. buf' = [buf EXCEPT ![i].lock = None] /\ proc' = [Released(i) EXCEPT ![p].pc = "brelse"]
  BY <1>c DEF brelse
<1>1. \A j \in Buf : /\ buf'[j].blockno = buf[j].blockno /\ buf'[j].valid = buf[j].valid
                     /\ buf'[j].data = buf[j].data
  BY <1>a, <1>e DEF BufRec
<1>2. ASSUME NEW q \in Proc, q # p
      PROVE  /\ proc'[q].b = proc[q].b /\ proc'[q].write = proc[q].write
             /\ \/ proc'[q].pc = proc[q].pc
                \/ proc[q].pc = "sleep_lock" /\ proc'[q].pc = "acquiresleep"
  <2>1. proc'[q] = Released(i)[q]
    BY <1>e, <1>2 DEF Released, Wakeup
  <2> QED
    BY <1>a, <2>1 DEF Released, Wakeup, ProcRec
<1>3. \A q \in Proc : Holding(q) => proc[q].b \in Buf
  BY BufferOf DEF Holding, At, InDisk
<1>4. Holding(p) /\ ~Holding(p)'
  <2>1. Released(i)[p] = proc[p]
    BY <1>a, <1>b DEF Released, Wakeup
  <2>2. proc'[p] = [Released(i)[p] EXCEPT !.pc = "brelse"]
    BY <1>e DEF Released, Wakeup
  <2>3. proc'[p].pc = "brelse"
    BY <1>a, <2>1, <2>2 DEF ProcRec
  <2> QED
    BY <1>b, <2>3 DEF Holding, At, InDisk
<1>5. ASSUME NEW q \in Proc, q # p
      PROVE  Holding(q)' <=> Holding(q)
  BY <1>2, <1>5 DEF Holding, At, InDisk
<1>6. Owns(p, bn) /\ holder[bn] = p
  <2>1. Owns(p, bn)
    BY <1>c, <1>d, <1>4 DEF Owns
  <2> QED
    BY <2>1 DEF View
<1>7. ASSUME NEW c \in Block, NEW q \in Proc, q # p
      PROVE  Owns(q, c)' <=> Owns(q, c)
  <2>1. proc'[q].b = proc[q].b /\ (Holding(q)' <=> Holding(q))
    BY <1>2, <1>5, <1>7
  <2>2. Holding(q) => buf'[proc[q].b].blockno = buf[proc[q].b].blockno
    BY <1>1, <1>3
  <2> QED
    BY <2>1, <2>2 DEF Owns
<1>8. \A c \in Block : ~Owns(p, c)'
  BY <1>4 DEF Owns
<1>9. holder'[bn] = None
  <2>1. ASSUME NEW q \in Proc, q # p, Owns(q, bn)
        PROVE  FALSE
    BY <1>6, <2>1 DEF View
  <2>2. \A q \in Proc : ~Owns(q, bn)'
    BY <1>7, <1>8, <2>1
  <2> QED
    BY <2>2 DEF View
<1>10. ASSUME NEW c \in Block, c # bn
       PROVE  holder'[c] = holder[c]
  <2>1. ~Owns(p, c)
    BY <1>c, <1>d, <1>10 DEF Owns
  <2>2. \A q \in Proc : Owns(q, c)' <=> Owns(q, c)
    BY <1>7, <1>8, <2>1
  <2> QED
    BY <2>2, SameHolder
<1>11. ASSUME NEW c \in Block
       PROVE  store'[c] = store[c]
  <2>1. \A j \in Buf : Holds(j, c)' <=> Holds(j, c)
    BY <1>1 DEF Holds
  <2> QED
    BY <1>b, <1>1, <2>1, SameStore
<1> QED
  BY <1>6, <1>9, <1>10, <1>11, GiveStep

\* Every step of the cache, the driver and the device is a call of the block
\* store or invisible to its users.
LEMMA StepRefines ==
  BioInv /\ BioInv' /\ [Next]_bioVars => [Abstract!Next]_(Abstract!vars)
<1> SUFFICES ASSUME BioInv, BioInv', [Next]_bioVars
             PROVE  Abstract!Next \/ UNCHANGED Abstract!vars
  OBVIOUS
<1>a. View
  BY ViewFacts
<1>b. (BioInv => View)'
  BY ViewFacts, PTL
<1>c. View'
  BY <1>b
<1>1. CASE Device
  BY <1>a, <1>c, <1>1, completeRefines DEF Device
<1>2. CASE Interrupt
  BY <1>a, <1>c, <1>2, InterruptRefines
<1>3. ASSUME NEW p \in Proc, virtio_disk_rw(p)
      PROVE  Abstract!Next \/ UNCHANGED Abstract!vars
  BY <1>a, <1>c, <1>3, alloc3_desc_failsRefines, submitRefines, doneRefines
  DEF virtio_disk_rw
<1>4. ASSUME NEW p \in Proc, NEW bn \in Uses[p], bget(p, bn) \/ bget_recycle(p, bn)
      PROVE  UNCHANGED Abstract!vars
  <2>1. bn \in Block
    BY VirtioAssumption
  <2> QED
    BY <1>a, <1>c, <1>4, <2>1, bgetRefines, bget_recycleRefines
<1>5. ASSUME NEW p \in Proc, acquiresleep(p)
      PROVE  Abstract!Next \/ UNCHANGED Abstract!vars
  BY <1>a, <1>c, <1>5, acquiresleepRefines
<1>6. ASSUME NEW p \in Proc, NEW v \in Value, bwrite(p, v)
      PROVE  Abstract!Next \/ UNCHANGED Abstract!vars
  BY <1>a, <1>c, <1>6, bwriteRefines
<1>7. ASSUME NEW p \in Proc, brelse(p) \/ brelse_end(p)
      PROVE  Abstract!Next \/ UNCHANGED Abstract!vars
  BY <1>a, <1>c, <1>7, brelseRefines, brelse_endRefines
<1>8. CASE UNCHANGED bioVars
  <2>1. buf' = buf /\ proc' = proc /\ media' = media
    BY <1>8 DEF bioVars, vars, driver
  <2>2. \A q \in Proc : Keeps(q)
    BY <2>1 DEF Keeps, Holding, At
  <2> QED
    BY <1>a, <1>c, <2>1, <2>2, Quiet
<1> QED
  BY <1>1, <1>2, <1>3, <1>4, <1>5, <1>6, <1>7, <1>8 DEF Next

\* To its users the buffer cache is the disk with a lock on every block: between
\* bread() and brelse() nobody else has the block, and what bread() returns is
\* what was last written, whatever bget() recycles and in whatever order the
\* device answers.
THEOREM CacheIsADisk == Spec => BlockStoreSpec
<1>1. Init => Abstract!Init
  <2> SUFFICES ASSUME Init
               PROVE  Abstract!Init
    OBVIOUS
  <2>1. View
    BY InitInv, ViewFacts
  <2>2. /\ \A i \in Buf : buf[i].valid = FALSE
        /\ \A p \in Proc : proc[p].b = 0
        /\ media = Image
    BY DEF Init, DriverInit
  <2>3. \A c \in Block : store[c] = media[c]
    BY <2>1, <2>2 DEF View, Holds
  <2>4. \A c \in Block : holder[c] = None
    BY <2>1, <2>2 DEF View, Owns
  <2>5. store \in [Block -> Value]
    BY <2>2, <2>3, Functional, VirtioAssumption
  <2>6. holder = [c \in Block |-> None]
    BY <2>4, HolderFunctional
  <2> QED
    BY <2>5, <2>6 DEF Abstract!Init
<1> QED
  BY <1>1, Invariance, StepRefines, PTL DEF Spec, BlockStoreSpec, Abstract!Spec
=============================================================================
