---------------------------- MODULE AddressSpace ----------------------------
(***************************************************************************)
(* What fork, exec, sbrk and copyout promise about user memory, without    *)
(* page tables or physical pages: an address space is a size and a row of  *)
(* pages, and a call either does all of its work or changes nothing.       *)
(***************************************************************************)
EXTENDS Integers, Sequences

CONSTANTS
    Procs,       \* process-table slots
    InitProc,    \* the slot of the first process
    InitCode,    \* its program: fewer bytes than a page
    PGSIZE,      \* bytes in a page
    ALIGN,       \* alignment of the user stack pointer
    Execs,       \* exec calls: [img: sequence of segments, args: sequence of strings]
    Increments,  \* arguments of sbrk
    Writes       \* copyout calls: [va, src]

VARIABLE space   \* [Procs -> [live, sz, sp, pages: Seq([data, perm])]]

NoSpace == [live |-> FALSE, sz |-> 0, sp |-> 0, pages |-> <<>>]

PagesOf(n) == (n + PGSIZE - 1) \div PGSIZE

ZeroPage(perm) == [data |-> [i \in 0 .. PGSIZE - 1 |-> 0], perm |-> perm]

Byte(s, va) == s.pages[va \div PGSIZE + 1].data[va % PGSIZE]

(***************************************************************************)
(* The image exec builds: every page up to the end of the last segment has *)
(* the permissions of the first segment that reaches it and holds the      *)
(* file's bytes or zero; then the guard page and one stack page.           *)
(***************************************************************************)
Reaches(img, k, page) == img[k].vaddr + img[k].memsz > page * PGSIZE

SegEnd(img) ==
    IF img = <<>> THEN 0
    ELSE CHOOSE e \in {img[k].vaddr + img[k].memsz : k \in DOMAIN img} :
            \A k \in DOMAIN img : img[k].vaddr + img[k].memsz <= e

ImagePage(img, page) ==
    LET first == CHOOSE k \in DOMAIN img :
                    Reaches(img, k, page) /\ \A j \in 1 .. k - 1 : ~Reaches(img, j, page)
        At(va) == {k \in DOMAIN img :
                     va >= img[k].vaddr /\ va < img[k].vaddr + Len(img[k].bytes)}
        Last(S) == CHOOSE k \in S : \A j \in S : j <= k
    IN  [perm |-> {"R", "U"} \cup img[first].flags,
         data |-> [i \in 0 .. PGSIZE - 1 |->
                     LET va == page * PGSIZE + i
                     IN  IF At(va) = {} THEN 0
                         ELSE img[Last(At(va))].bytes[va - img[Last(At(va))].vaddr + 1]]]

\* argv is at sp: one cell per argument, pointing to its bytes and a 0, then a 0.
ArgsOnStack(s, args, base) ==
    /\ s.sp >= base /\ s.sp % ALIGN = 0
    /\ Byte(s, s.sp + Len(args)) = 0
    /\ \A k \in DOMAIN args :
          LET a == Byte(s, s.sp + k - 1)
          IN  /\ a > s.sp + Len(args) /\ a + Len(args[k]) < s.sz
              /\ \A i \in DOMAIN args[k] : Byte(s, a + i - 1) = args[k][i]
              /\ Byte(s, a + Len(args[k])) = 0

IsImage(s, img, args) ==
    LET text == PagesOf(SegEnd(img))
    IN  /\ s.live
        /\ s.sz = (text + 2) * PGSIZE
        /\ Len(s.pages) = text + 2
        /\ \A k \in 1 .. text : s.pages[k] = ImagePage(img, k - 1)
        /\ s.pages[text + 1] = ZeroPage({"R", "W"})
        /\ s.pages[text + 2].perm = {"R", "W", "U"}
        /\ ArgsOnStack(s, args, (text + 1) * PGSIZE)

-----------------------------------------------------------------------------
(* The calls, as relations between the spaces before and after. *)

Fork(old, new, p, q) ==
    /\ old[p].live /\ ~old[q].live
    /\ new = [old EXCEPT ![q] = old[p]]

Exit(old, new, p) == new = [old EXCEPT ![p] = NoSpace]

Exec(old, new, p, img, args) ==
    /\ old[p].live
    /\ IsImage(new[p], img, args)
    /\ new = [old EXCEPT ![p] = new[p]]

\* sbrk(n): new pages are zero; memory that is kept keeps its contents.
Sbrk(old, new, p, n) ==
    LET sz == old[p].sz + n
        pages == old[p].pages
    IN  /\ old[p].live /\ sz >= 0
        /\ new = [old EXCEPT
              ![p].sz = sz,
              ![p].pages = [k \in 1 .. PagesOf(sz) |->
                               IF k <= Len(pages) THEN pages[k] ELSE ZeroPage({"R", "U", "W"})]]

\* copyout(va, src) writes src up to the first page the user may not write.
Write(old, new, p, va, src) ==
    LET s == old[p]
        CanWrite(a) == /\ a \div PGSIZE < Len(s.pages)
                       /\ {"U", "W"} \subseteq s.pages[a \div PGSIZE + 1].perm
        Written(a) == a >= va /\ a < va + Len(src) /\ \A b \in va .. a : CanWrite(b)
    IN  /\ s.live
        /\ new = [old EXCEPT ![p].pages =
              [k \in DOMAIN s.pages |-> [s.pages[k] EXCEPT !.data =
                  [i \in 0 .. PGSIZE - 1 |->
                      LET a == (k - 1) * PGSIZE + i
                      IN  IF Written(a) THEN src[a - va + 1] ELSE s.pages[k].data[i]]]]]

\* userinit: one page that holds initcode, padded with zeros.
Init ==
    space = [q \in Procs |->
        IF q # InitProc THEN NoSpace
        ELSE [live |-> TRUE, sz |-> PGSIZE, sp |-> PGSIZE,
              pages |-> <<[perm |-> {"R", "W", "X", "U"},
                           data |-> [i \in 0 .. PGSIZE - 1 |->
                                       IF i < Len(InitCode) THEN InitCode[i + 1] ELSE 0]]>>]]

Next ==
    \E old \in {space}, new \in {space'}, p \in Procs :
        \/ \E q \in Procs : Fork(old, new, p, q)
        \/ Exit(old, new, p)
        \/ \E e \in Execs : Exec(old, new, p, e.img, e.args)
        \/ \E n \in Increments : Sbrk(old, new, p, n)
        \/ \E w \in Writes : Write(old, new, p, w.va, w.src)

Spec == Init /\ [][Next]_space
=============================================================================
