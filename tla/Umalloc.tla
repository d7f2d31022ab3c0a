------------------------------ MODULE Umalloc -------------------------------
(***************************************************************************)
(* The allocator of user programs, umalloc.c.  An address counts units of  *)
(* sizeof(Header); a header is [size, ptr].  Addresses that are headers no *)
(* longer are not in hd.  Requests are far below 2^31 bytes.               *)
(***************************************************************************)
EXTENDS Integers, FiniteSets

CONSTANTS
    Requests,   \* the values of nbytes
    HSIZE,      \* sizeof(Header)
    NALLOC,     \* the fewest units morecore asks for (4096)
    HEAP,       \* where the heap starts
    LIMIT       \* sbrk fails beyond this address

VARIABLES
    hd,       \* [header addresses -> [size, ptr]]
    freep,    \* 0 before the first malloc
    brk,      \* the end of the heap
    live,     \* [header addresses of allocated blocks -> nbytes]
    gaps,     \* units the program took with sbrk itself
    refused   \* history: the units of a request that has just failed, or 0

vars == <<hd, freep, brk, live, gaps, refused>>

base == 1
Heap == [hd |-> hd, freep |-> freep, brk |-> brk]
SetHeap(h) == hd' = h.hd /\ freep' = h.freep /\ brk' = h.brk

Init ==
    /\ hd = [a \in {base} |-> [size |-> 0, ptr |-> 0]]
    /\ freep = 0
    /\ brk = HEAP
    /\ live = [a \in {} |-> 0]
    /\ gaps = {}
    /\ refused = 0

Without(f, a) == [x \in DOMAIN f \ {a} |-> f[x]]
With(f, a, v) == [x \in DOMAIN f \cup {a} |-> IF x = a THEN v ELSE f[x]]

\* Where bp belongs between p and its successor; p >= next is the end of the ring.
Here(p, next, bp) == (bp > p /\ bp < next) \/ (p >= next /\ (bp > p \/ bp < next))

RECURSIVE FindPlace(_, _, _)
FindPlace(h, p, bp) ==
    IF Here(p, h.hd[p].ptr, bp) THEN p ELSE FindPlace(h, h.hd[p].ptr, bp)

\* Mutant: a block is joined with its upper neighbour whatever lies between.
JoinUp_gap(f, bp, next) ==
    IF bp < next
    THEN Without([f EXCEPT ![bp] = [size |-> @.size + f[next].size, ptr |-> f[next].ptr]], next)
    ELSE [f EXCEPT ![bp].ptr = next]

JoinUp(f, bp, next) ==
    IF bp + f[bp].size = next
    THEN Without([f EXCEPT ![bp] = [size |-> @.size + f[next].size, ptr |-> f[next].ptr]], next)
    ELSE [f EXCEPT ![bp].ptr = next]

JoinDown(f, p, bp) ==
    IF p + f[p].size = bp
    THEN Without([f EXCEPT ![p] = [size |-> @.size + f[bp].size, ptr |-> f[bp].ptr]], bp)
    ELSE [f EXCEPT ![p].ptr = bp]

free(h, bp) ==
    LET At(p) == [h EXCEPT !.hd = JoinDown(JoinUp(h.hd, bp, h.hd[p].ptr), p, bp), !.freep = p]
    IN  At(FindPlace(h, h.freep, bp))

\* morecore returns [h, ok]
morecore(h, nu) ==
    LET n == IF nu < NALLOC THEN NALLOC ELSE nu
        More(bp) == [h |-> free([h EXCEPT !.hd = With(@, bp, [size |-> n, ptr |-> 0]),
                                          !.brk = @ + n], bp), ok |-> TRUE]
    IN  IF h.brk + n > LIMIT THEN [h |-> h, ok |-> FALSE] ELSE More(h.brk)

\* The block found at p: taken out of the list, or its tail cut off.  Returns [h, r].
Take(h, prevp, p, nunits) ==
    LET a == p + h.hd[p].size - nunits
    IN  IF h.hd[p].size = nunits
        THEN [h |-> [h EXCEPT !.hd[prevp].ptr = h.hd[p].ptr, !.freep = prevp], r |-> p]
        ELSE [h |-> [h EXCEPT !.hd = With([@ EXCEPT ![p].size = @ - nunits], a,
                                          [size |-> nunits, ptr |-> 0]),
                              !.freep = prevp], r |-> a]

\* malloc's loop; r is the header of the block, 0 if there is no memory.
RECURSIVE Search(_, _, _, _)
Search(h, prevp, p, nunits) ==
    LET Next(g, q) == Search(g, q, g.hd[q].ptr, nunits)
        More(m) == IF ~m.ok THEN [h |-> m.h, r |-> 0] ELSE Next(m.h, m.h.freep)
    IN  IF h.hd[p].size >= nunits THEN Take(h, prevp, p, nunits)
        ELSE IF p = h.freep THEN More(morecore(h, nunits))
        ELSE Next(h, p)

Units(nbytes) == ((nbytes + HSIZE - 1) \div HSIZE) + 1

malloc(h, nbytes) ==
    LET First(g) == Search(g, g.freep, g.hd[g.freep].ptr, Units(nbytes))
    IN  First(IF h.freep = 0 THEN [h EXCEPT !.hd[base].ptr = base, !.freep = base] ELSE h)

-----------------------------------------------------------------------------
(* A program *)

Malloc(nbytes) ==
    /\ \E m \in {malloc(Heap, nbytes)} :
          /\ SetHeap(m.h)
          /\ live' = IF m.r = 0 THEN live ELSE With(live, m.r, nbytes)
          /\ refused' = IF m.r = 0 THEN Units(nbytes) ELSE 0
    /\ UNCHANGED gaps

Free(a) ==
    /\ a \in DOMAIN live
    /\ SetHeap(free(Heap, a))
    /\ live' = Without(live, a)
    /\ refused' = 0
    /\ UNCHANGED gaps

\* The program calls sbrk itself; the allocator's memory is then not contiguous.
Sbrk ==
    /\ gaps = {} /\ brk < LIMIT
    /\ gaps' = {brk}
    /\ brk' = brk + 1
    /\ refused' = 0
    /\ UNCHANGED <<hd, freep, live>>

Next ==
    \/ \E n \in Requests : Malloc(n)
    \/ \E a \in DOMAIN live : Free(a)
    \/ Sbrk

Spec == Init /\ [][Next]_vars

-----------------------------------------------------------------------------
(* Properties *)

FreeBlocks == DOMAIN hd \ (DOMAIN live \cup {base})
Extent(a) == a .. a + hd[a].size - 1

\* Every unit of the heap is in exactly one block, allocated or free, or in
\* memory the program took itself; an allocated block has room for what was
\* asked for; the free blocks and base form one ring in the order of their
\* addresses, with no two that touch; and malloc() fails only if none fits.
HeapExact ==
    /\ \A u \in HEAP .. brk - 1 :
          Cardinality({a \in DOMAIN hd : u \in Extent(a)}) + (IF u \in gaps THEN 1 ELSE 0) = 1
    /\ \A a \in DOMAIN live : (hd[a].size - 1) * HSIZE >= live[a]
    /\ freep # 0 =>
          /\ freep \in FreeBlocks \cup {base}
          /\ \A a \in FreeBlocks \cup {base} :
                LET above == {b \in FreeBlocks : b > a}
                IN  hd[a].ptr = IF above = {} THEN base
                                ELSE CHOOSE b \in above : \A c \in above : b <= c
    /\ \A a, b \in FreeBlocks : a + hd[a].size # b
    /\ refused # 0 => \A a \in FreeBlocks : hd[a].size < refused
=============================================================================
