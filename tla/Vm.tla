--------------------------------- MODULE Vm ---------------------------------
(***************************************************************************)
(* Physical pages and user page tables: kalloc.c, the user half of vm.c,   *)
(* exec.c, and what fork, growproc, allocproc and freeproc (proc.c) do to  *)
(* memory.  A C function that changes memory is an operator from a memory  *)
(* m to [m, r]: the memory afterwards and what the function returns.  A    *)
(* page table is what it is in the code: pages of PTEs that point to pages.*)
(*                                                                         *)
(* A system call is one step: a page table is private to its process, and  *)
(* all that another CPU can do to a call in progress is to take or return  *)
(* pages.  The step Others changes how many pages the rest of the kernel   *)
(* holds, so that a call can run out of memory at each of its allocations. *)
(***************************************************************************)
EXTENDS Integers, Sequences, FiniteSets

CONSTANTS
    Procs, InitProc, InitCode, Execs, Increments, Writes,   \* see AddressSpace
    PGSIZE,    \* bytes in a page (4096)
    ALIGN,     \* alignment of the user stack pointer (16)
    FAN,       \* PTEs in a page-table page (512)
    NPAGES,    \* pages between end and PHYSTOP
    MaxHeld    \* bound on the pages that the rest of the kernel holds

VARIABLES
    mem,    \* [free, page, ok]: see Memory below
    proc,   \* [Procs -> [pt, sz, tf, sp]]: the memory fields of struct proc
    held    \* pages other kernel code (pipealloc) holds

vars == <<mem, proc, held>>

-----------------------------------------------------------------------------
(* Layout *)

Pages      == 1 .. NPAGES
Trampoline == NPAGES + 1          \* a page of kernel text: never allocated
MAXVA      == FAN * FAN * FAN * PGSIZE
TRAMPOLINE == MAXVA - PGSIZE
TRAPFRAME  == TRAMPOLINE - PGSIZE
USERSTACK  == 1

PGROUNDUP(n) == ((n + PGSIZE - 1) \div PGSIZE) * PGSIZE
PGROUNDDOWN(n) == (n \div PGSIZE) * PGSIZE
PX(level, va) == ((va \div PGSIZE) \div FAN ^ level) % FAN

\* PTE_V is pa # 0; a PTE with no permissions points to a lower table.
NoPte      == [pa |-> 0, perm |-> {}]
EmptyTable == [i \in 0 .. FAN - 1 |-> NoPte]
Fill(b)    == [i \in 0 .. PGSIZE - 1 |-> b]

Panic(m) == [m EXCEPT !.ok = FALSE]
Ret(m, r) == [m |-> m, r |-> r]

-----------------------------------------------------------------------------
(* kalloc.c.  free[pa]: how often pa is on the free list.  Which free page *)
(* kalloc returns is of no consequence; the model takes the lowest.        *)

\* After kinit, every page of freerange is free.
kinit == [free |-> [pa \in Pages |-> 1], page |-> [pa \in Pages |-> Fill(1)], ok |-> TRUE]

kfree(m, pa) ==
    IF pa \notin Pages THEN Panic(m)
    ELSE [m EXCEPT !.free[pa] = @ + 1, !.page[pa] = Fill(1)]

kalloc(m) ==
    LET avail == {pa \in Pages : m.free[pa] > 0}
        pa == CHOOSE x \in avail : \A y \in avail : x <= y
    IN  IF avail = {} THEN Ret(m, 0)
        ELSE Ret([m EXCEPT !.free[pa] = @ - 1, !.page[pa] = Fill(5)], pa)

-----------------------------------------------------------------------------
(* vm.c *)

\* walk returns the page that holds va's PTE (its index is PX(0, va)), or 0.
RECURSIVE WalkFrom(_, _, _, _, _)
WalkFrom(m, t, va, alloc, level) ==
    LET Down(n, child) == WalkFrom(n, child, va, alloc, level - 1)
        Alloc(k) == IF k.r = 0 THEN Ret(m, 0)
                    ELSE Down([k.m EXCEPT !.page[k.r] = EmptyTable,
                                          !.page[t][PX(level, va)] = [pa |-> k.r, perm |-> {}]],
                              k.r)
    IN  IF level = 0 THEN Ret(m, t)
        ELSE IF m.page[t][PX(level, va)].pa # 0 THEN Down(m, m.page[t][PX(level, va)].pa)
        ELSE IF ~alloc THEN Ret(m, 0)
        ELSE Alloc(kalloc(m))

walk(m, pagetable, va, alloc) ==
    IF va >= MAXVA THEN Ret(Panic(m), 0) ELSE WalkFrom(m, pagetable, va, alloc, 2)

PteIn(m, t, va) == IF t = 0 THEN NoPte ELSE m.page[t][PX(0, va)]
Pte(m, pagetable, va) == PteIn(m, walk(m, pagetable, va, FALSE).r, va)

UserPage(pte) == IF "U" \in pte.perm THEN pte.pa ELSE 0

\* Mutant: a page without PTE_U is found as well.
walkaddr_kernel(m, pagetable, va) == IF va >= MAXVA THEN 0 ELSE Pte(m, pagetable, va).pa

walkaddr(m, pagetable, va) == IF va >= MAXVA THEN 0 ELSE UserPage(Pte(m, pagetable, va))

\* Every call modelled here maps one page.
mappages(m, pagetable, va, pa, perm) ==
    LET At(w) == IF w.r = 0 THEN Ret(w.m, -1)
                 ELSE IF va % PGSIZE # 0 \/ PteIn(w.m, w.r, va).pa # 0 THEN Ret(Panic(w.m), 0)
                 ELSE Ret([w.m EXCEPT !.page[w.r][PX(0, va)] = [pa |-> pa, perm |-> perm]], 0)
    IN  At(walk(m, pagetable, va, TRUE))

RECURSIVE uvmunmap(_, _, _, _, _)
uvmunmap(m, pagetable, va, npages, do_free) ==
    LET Clear(n, t) == [n EXCEPT !.page[t][PX(0, va)] = NoPte]
        At(t, pte) == IF va % PGSIZE # 0 \/ pte.pa = 0 \/ pte.perm = {} THEN Panic(m)
                      ELSE uvmunmap(Clear(IF do_free THEN kfree(m, pte.pa) ELSE m, t),
                                    pagetable, va + PGSIZE, npages - 1, do_free)
        Found(t) == At(t, PteIn(m, t, va))
    IN  IF npages = 0 THEN m ELSE Found(walk(m, pagetable, va, FALSE).r)

uvmcreate(m) ==
    LET Got(k) == IF k.r = 0 THEN k ELSE Ret([k.m EXCEPT !.page[k.r] = EmptyTable], k.r)
    IN  Got(kalloc(m))

uvmdealloc(m, pagetable, oldsz, newsz) ==
    IF newsz >= oldsz THEN Ret(m, oldsz)
    ELSE Ret(uvmunmap(m, pagetable, PGROUNDUP(newsz),
                      (PGROUNDUP(oldsz) - PGROUNDUP(newsz)) \div PGSIZE, TRUE), newsz)

\* Mutant: the page that could not be mapped is not given back.
Unmapped_leak(n, pa) == n

\* The page pa for which mappages failed, in uvmalloc and uvmcopy.
Unmapped(n, pa) == kfree(n, pa)

\* The loop of uvmalloc at address a, started at the rounded-up oldsz.
RECURSIVE GrowFrom(_, _, _, _, _, _)
GrowFrom(m, pagetable, a, oldsz, newsz, perm) ==
    LET Fail(n) == Ret(uvmdealloc(n, pagetable, a, oldsz).m, 0)
        Mapped(mp, pa) == IF mp.r # 0 THEN Fail(Unmapped(mp.m, pa))
                          ELSE GrowFrom(mp.m, pagetable, a + PGSIZE, oldsz, newsz, perm)
        Got(k) == IF k.r = 0 THEN Fail(m)
                  ELSE Mapped(mappages([k.m EXCEPT !.page[k.r] = Fill(0)], pagetable, a, k.r, perm),
                              k.r)
    IN  IF a >= newsz THEN Ret(m, newsz) ELSE Got(kalloc(m))

uvmalloc(m, pagetable, oldsz, newsz, xperm) ==
    IF newsz < oldsz THEN Ret(m, oldsz)
    ELSE GrowFrom(m, pagetable, PGROUNDUP(oldsz), PGROUNDUP(oldsz), newsz, {"R", "U"} \cup xperm)

\* The loop of freewalk at entry i of table t.
RECURSIVE FreeFrom(_, _, _)
FreeFrom(m, t, i) ==
    LET At(pte) == IF pte.pa = 0 THEN m
                   ELSE IF pte.perm # {} THEN Panic(m)
                   ELSE [FreeFrom(m, pte.pa, 0) EXCEPT !.page[t][i] = NoPte]
    IN  IF i = FAN THEN kfree(m, t) ELSE FreeFrom(At(m.page[t][i]), t, i + 1)

freewalk(m, pagetable) == FreeFrom(m, pagetable, 0)

uvmfree(m, pagetable, sz) ==
    freewalk(uvmunmap(m, pagetable, 0, PGROUNDUP(sz) \div PGSIZE, TRUE), pagetable)

\* Mutant: every page of the child is writable.
Inherited_writable(pte) == {"R", "W", "U"}

\* The flags of a child's page are the parent's.
Inherited(pte) == pte.perm

\* The loop of uvmcopy at address i.
RECURSIVE CopyFrom(_, _, _, _, _)
CopyFrom(m, old, new, i, sz) ==
    LET Err(n) == Ret(uvmunmap(n, new, 0, i \div PGSIZE, TRUE), -1)
        Mapped(mp, pa) == IF mp.r # 0 THEN Err(Unmapped(mp.m, pa))
                          ELSE CopyFrom(mp.m, old, new, i + PGSIZE, sz)
        Got(k, pte) == IF k.r = 0 THEN Err(m)
                       ELSE Mapped(mappages([k.m EXCEPT !.page[k.r] = m.page[pte.pa]],
                                            new, i, k.r, Inherited(pte)), k.r)
        At(pte) == IF pte.pa = 0 THEN Ret(Panic(m), -1) ELSE Got(kalloc(m), pte)
    IN  IF i >= sz THEN Ret(m, 0) ELSE At(Pte(m, old, i))

uvmcopy(m, old, new, sz) == CopyFrom(m, old, new, 0, sz)

uvmclear(m, pagetable, va) ==
    LET At(t) == IF t = 0 THEN Panic(m) ELSE [m EXCEPT !.page[t][PX(0, va)].perm = @ \ {"U"}]
    IN  At(walk(m, pagetable, va, FALSE).r)

\* The bytes of [va, va + len) that are on va's page.
OnPage(va, len) == LET room == PGSIZE - (va % PGSIZE) IN IF room > len THEN len ELSE room

RECURSIVE copyout(_, _, _, _)
copyout(m, pagetable, dstva, src) ==
    LET n == OnPage(dstva, Len(src))
        off == dstva % PGSIZE
        Copied(pa) == [m EXCEPT !.page[pa] = [i \in 0 .. PGSIZE - 1 |->
                          IF i >= off /\ i < off + n THEN src[i - off + 1] ELSE @[i]]]
        At(pte) == IF ~({"U", "W"} \subseteq pte.perm) THEN Ret(m, -1)
                   ELSE copyout(Copied(pte.pa), pagetable, PGROUNDDOWN(dstva) + PGSIZE,
                                SubSeq(src, n + 1, Len(src)))
    IN  IF src = <<>> THEN Ret(m, 0)
        ELSE IF dstva >= MAXVA THEN Ret(m, -1)
        ELSE At(Pte(m, pagetable, PGROUNDDOWN(dstva)))

\* copyin and copyinstr return [r, dst]; dst is what was copied before r.
Joined(bytes, rest) == [r |-> rest.r, dst |-> bytes \o rest.dst]
PageBytes(m, pa, va, n) == [i \in 1 .. n |-> m.page[pa][(va % PGSIZE) + i - 1]]

RECURSIVE copyin(_, _, _, _)
copyin(m, pagetable, srcva, len) ==
    LET n == OnPage(srcva, len)
        At(pa0) == IF pa0 = 0 THEN [r |-> -1, dst |-> <<>>]
                   ELSE Joined(PageBytes(m, pa0, srcva, n),
                            copyin(m, pagetable, PGROUNDDOWN(srcva) + PGSIZE, len - n))
    IN  IF len = 0 THEN [r |-> 0, dst |-> <<>>]
        ELSE At(walkaddr(m, pagetable, PGROUNDDOWN(srcva)))

RECURSIVE copyinstr(_, _, _, _)
copyinstr(m, pagetable, srcva, max) ==
    LET n == OnPage(srcva, max)
        First(S) == CHOOSE i \in S : \A j \in S : i <= j
        Scan(p, nuls) ==
            IF nuls # {} THEN [r |-> 0, dst |-> SubSeq(p, 1, First(nuls))]
            ELSE Joined(p, copyinstr(m, pagetable, PGROUNDDOWN(srcva) + PGSIZE, max - n))
        Nuls(p) == Scan(p, {i \in 1 .. n : p[i] = 0})
        At(pa0) == IF pa0 = 0 THEN [r |-> -1, dst |-> <<>>] ELSE Nuls(PageBytes(m, pa0, srcva, n))
    IN  IF max = 0 THEN [r |-> -1, dst |-> <<>>]
        ELSE At(walkaddr(m, pagetable, PGROUNDDOWN(srcva)))

-----------------------------------------------------------------------------
(* proc.c: trapframe and page table of a process *)

Unused == [pt |-> 0, sz |-> 0, tf |-> 0, sp |-> 0]

proc_pagetable(m, tf) ==
    LET MappedBoth(b, pt) ==
            IF b.r = 0 THEN Ret(b.m, pt)
            ELSE Ret(uvmfree(uvmunmap(b.m, pt, TRAMPOLINE, 1, FALSE), pt, 0), 0)
        Mapped(a, pt) ==
            IF a.r # 0 THEN Ret(uvmfree(a.m, pt, 0), 0)
            ELSE MappedBoth(mappages(a.m, pt, TRAPFRAME, tf, {"R", "W"}), pt)
        Created(c) == IF c.r = 0 THEN c
                      ELSE Mapped(mappages(c.m, c.r, TRAMPOLINE, Trampoline, {"R", "X"}), c.r)
    IN  Created(uvmcreate(m))

proc_freepagetable(m, pagetable, sz) ==
    uvmfree(uvmunmap(uvmunmap(m, pagetable, TRAMPOLINE, 1, FALSE),
                     pagetable, TRAPFRAME, 1, FALSE),
            pagetable, sz)

freeproc(m, p) ==
    LET a == IF p.tf # 0 THEN kfree(m, p.tf) ELSE m
    IN  IF p.pt # 0 THEN proc_freepagetable(a, p.pt, p.sz) ELSE a

\* allocproc from `found:` on: r is the new proc, Unused when memory ran out.
allocproc(m) ==
    LET Table(pt, tf) == IF pt.r = 0 THEN Ret(freeproc(pt.m, [Unused EXCEPT !.tf = tf]), Unused)
                         ELSE Ret(pt.m, [Unused EXCEPT !.tf = tf, !.pt = pt.r])
        Frame(k) == IF k.r = 0 THEN Ret(m, Unused) ELSE Table(proc_pagetable(k.m, k.r), k.r)
    IN  Frame(kalloc(m))

uvmfirst(m, pagetable) ==
    LET code == [i \in 0 .. PGSIZE - 1 |-> IF i < Len(InitCode) THEN InitCode[i + 1] ELSE 0]
        Got(k) == mappages([k.m EXCEPT !.page[k.r] = code], pagetable, 0, k.r,
                           {"R", "W", "X", "U"}).m
    IN  Got(kalloc(m))

userinit ==
    LET First(a) == Ret(uvmfirst(a.m, a.r.pt), [a.r EXCEPT !.sz = PGSIZE, !.sp = PGSIZE])
    IN  First(allocproc(kinit))

-----------------------------------------------------------------------------
(* exec.c *)

\* loadseg from offset i of the segment.
RECURSIVE loadseg(_, _, _, _)
loadseg(m, pagetable, seg, i) ==
    LET n == IF seg.filesz - i < PGSIZE THEN seg.filesz - i ELSE PGSIZE
        At(pa) == IF pa = 0 THEN Ret(Panic(m), -1)
                  ELSE IF i + n > Len(seg.bytes) THEN Ret(m, -1)
                  ELSE loadseg([m EXCEPT !.page[pa] = [j \in 0 .. PGSIZE - 1 |->
                                   IF j < n THEN seg.bytes[i + j + 1] ELSE @[j]]],
                               pagetable, seg, i + PGSIZE)
    IN  IF i >= seg.filesz THEN Ret(m, 0) ELSE At(walkaddr(m, pagetable, seg.vaddr + i))

\* The loop over the program headers: r is sz, ok whether no `goto bad` was taken.
RECURSIVE LoadFrom(_, _, _, _)
LoadFrom(m, pagetable, segs, sz) ==
    LET Stop(n, s, ok) == [m |-> n, r |-> s, ok |-> ok]
        Loaded(l, sz1) == IF l.r # 0 THEN Stop(l.m, sz1, FALSE)
                          ELSE LoadFrom(l.m, pagetable, Tail(segs), sz1)
        Grown(a) == IF a.r = 0 THEN Stop(a.m, sz, FALSE)
                    ELSE Loaded(loadseg(a.m, pagetable, Head(segs), 0), a.r)
        Load(seg) == IF seg.memsz < seg.filesz \/ seg.vaddr % PGSIZE # 0 THEN Stop(m, sz, FALSE)
                     ELSE Grown(uvmalloc(m, pagetable, sz, seg.vaddr + seg.memsz, seg.flags))
    IN  IF segs = <<>> THEN Stop(m, sz, TRUE) ELSE Load(Head(segs))

\* Pushing the next argument and, after the last, the array of pointers; r is sp, 0 for bad.
RECURSIVE PushFrom(_, _, _, _, _, _)
PushFrom(m, pagetable, args, ustack, sp, stackbase) ==
    LET last == args = <<>>
        str == (IF last THEN ustack ELSE Head(args)) \o <<0>>
        sp1 == (sp - Len(str)) - ((sp - Len(str)) % ALIGN)
        Out(o) == IF o.r # 0 THEN Ret(o.m, 0)
                  ELSE IF last THEN Ret(o.m, sp1)
                  ELSE PushFrom(o.m, pagetable, Tail(args), Append(ustack, sp1), sp1, stackbase)
    IN  IF sp1 < stackbase THEN Ret(m, 0) ELSE Out(copyout(m, pagetable, sp1, str))

exec(m, p, img, args) ==
    LET Bad(n, pt, sz) == Ret(proc_freepagetable(n, pt, sz), p)
        Pushed(ps, pt, sz) ==
            IF ps.r = 0 THEN Bad(ps.m, pt, sz)
            ELSE Ret(proc_freepagetable(ps.m, p.pt, p.sz),
                     [p EXCEPT !.pt = pt, !.sz = sz, !.sp = ps.r])
        Stack(st, pt, sz) ==
            IF st.r = 0 THEN Bad(st.m, pt, sz)
            ELSE Pushed(PushFrom(uvmclear(st.m, pt, st.r - (USERSTACK + 1) * PGSIZE), pt,
                                 args, <<>>, st.r, st.r - USERSTACK * PGSIZE),
                        pt, st.r)
        Loaded(ld, pt, sz) ==
            IF ~ld.ok THEN Bad(ld.m, pt, ld.r)
            ELSE Stack(uvmalloc(ld.m, pt, sz, sz + (USERSTACK + 1) * PGSIZE, {"W"}), pt, sz)
        Program(ld, pt) == Loaded(ld, pt, PGROUNDUP(ld.r))
        Table(pt) == IF pt.r = 0 THEN Ret(pt.m, p) ELSE Program(LoadFrom(pt.m, pt.r, img, 0), pt.r)
    IN  Table(proc_pagetable(m, p.tf))

\* The argument pages of sys_exec: r is the pages taken, ok whether all were.
RECURSIVE ArgPages(_, _, _)
ArgPages(m, n, taken) ==
    LET Got(k) == IF k.r = 0 THEN [m |-> m, r |-> taken, ok |-> FALSE]
                  ELSE ArgPages(k.m, n - 1, Append(taken, k.r))
    IN  IF n = 0 THEN [m |-> m, r |-> taken, ok |-> TRUE] ELSE Got(kalloc(m))

RECURSIVE FreeAll(_, _)
FreeAll(m, pages) == IF pages = <<>> THEN m ELSE FreeAll(kfree(m, Head(pages)), Tail(pages))

-----------------------------------------------------------------------------
(* System calls *)

Live(p) == proc[p].pt # 0

Init ==
    /\ mem = userinit.m
    /\ proc = [p \in Procs |-> IF p = InitProc THEN userinit.r ELSE Unused]
    /\ held = {}

fork(p, np) ==
    /\ Live(p) /\ ~Live(np)
    /\ \E a \in {allocproc(mem)} :
          \/ a.r = Unused /\ mem' = a.m /\ UNCHANGED proc
          \/ /\ a.r # Unused
             /\ \E c \in {uvmcopy(a.m, proc[p].pt, a.r.pt, proc[p].sz)} :
                   \/ c.r < 0 /\ mem' = freeproc(c.m, a.r) /\ UNCHANGED proc
                   \/ /\ c.r = 0 /\ mem' = c.m
                      /\ proc' = [proc EXCEPT ![np] =
                                     [a.r EXCEPT !.sz = proc[p].sz, !.sp = proc[p].sp]]
    /\ UNCHANGED held

\* wait() frees a zombie; init never exits.
Reap(p) ==
    /\ Live(p) /\ p # InitProc
    /\ mem' = freeproc(mem, proc[p])
    /\ proc' = [proc EXCEPT ![p] = Unused]
    /\ UNCHANGED held

sys_exec(p, img, args) ==
    /\ Live(p)
    /\ \E a \in {ArgPages(mem, Len(args), <<>>)} :
          \/ ~a.ok /\ mem' = FreeAll(a.m, a.r) /\ UNCHANGED proc
          \/ /\ a.ok
             /\ \E e \in {exec(a.m, proc[p], img, args)} :
                   mem' = FreeAll(e.m, a.r) /\ proc' = [proc EXCEPT ![p] = e.r]
    /\ UNCHANGED held

\* growproc; sz + n is an unsigned sum, and a sum below 0 wraps to above sz.
\* User memory stays below the trapframe: physical memory runs out long before.
growproc(p, n) ==
    LET sz == proc[p].sz
        sum == IF sz + n < 0 THEN 2 * MAXVA + sz + n ELSE sz + n
    IN  /\ Live(p) /\ sz + n <= TRAPFRAME
        /\ \/ /\ n > 0
              /\ \E a \in {uvmalloc(mem, proc[p].pt, sz, sum, {"W"})} :
                    mem' = a.m /\ proc' = IF a.r = 0 THEN proc ELSE [proc EXCEPT ![p].sz = a.r]
           \/ /\ n < 0
              /\ \E d \in {uvmdealloc(mem, proc[p].pt, sz, sum)} :
                    mem' = d.m /\ proc' = [proc EXCEPT ![p].sz = d.r]
        /\ UNCHANGED held

\* A system call that copies src out to the user's va (read, fstat, wait, ...).
Copyout(p, va, src) ==
    /\ Live(p)
    /\ mem' = copyout(mem, proc[p].pt, va, src).m
    /\ UNCHANGED <<proc, held>>

\* The rest of the kernel takes a page (pipealloc) or returns one (pipeclose).
Others ==
    /\ \/ \E k \in {kalloc(mem)} :
             /\ Cardinality(held) < MaxHeld /\ k.r # 0
             /\ mem' = k.m
             /\ held' = held \cup {k.r}
       \/ \E pa \in held :
             /\ \A x \in held : x <= pa
             /\ mem' = kfree(mem, pa)
             /\ held' = held \ {pa}
    /\ UNCHANGED proc

Next ==
    \/ \E p \in Procs :
        \/ \E q \in Procs : fork(p, q)
        \/ Reap(p)
        \/ \E e \in Execs : sys_exec(p, e.img, e.args)
        \/ \E n \in Increments : growproc(p, n)
        \/ \E w \in Writes : Copyout(p, w.va, w.src)
    \/ Others

Spec == Init /\ [][Next]_vars

-----------------------------------------------------------------------------
(* Properties *)

\* The table pages of a page table, by following PTEs without permissions.
RECURSIVE TablesFrom(_, _)
TablesFrom(t, level) ==
    {t} \cup (IF level = 0 THEN {}
              ELSE UNION {TablesFrom(mem.page[t][i].pa, level - 1) :
                             i \in {j \in 0 .. FAN - 1 : mem.page[t][j].pa # 0}})

\* Every page of physical memory has exactly one owner: the free list, the
\* process whose page table it is the root of, one PTE of one process, or other
\* kernel code; a trapframe is mapped by its own process.  So a call that fails
\* in the middle (uvmalloc, uvmcopy, exec, proc_pagetable) neither leaks a page
\* nor frees or maps one twice, and no panic of vm.c is reached.
PagesExact ==
    LET Tables(p) == IF Live(p) THEN TablesFrom(proc[p].pt, 2) ELSE {}
        ptes == UNION {{p} \X Tables(p) \X (0 .. FAN - 1) : p \in Procs}
        Ptes(pa) == {x \in ptes : mem.page[x[2]][x[3]].pa = pa}
    IN  /\ mem.ok
        /\ \A pa \in Pages :
              mem.free[pa] + Cardinality(Ptes(pa)) + Cardinality({p \in Procs : proc[p].pt = pa})
                + (IF pa \in held THEN 1 ELSE 0) = 1
        /\ \A p \in Procs : Live(p) =>
              /\ Pte(mem, proc[p].pt, TRAPFRAME).pa = proc[p].tf
              /\ Pte(mem, proc[p].pt, TRAMPOLINE).pa = Trampoline

\* The address space of a process, read through its page table.
SpaceOf(p) ==
    [live |-> Live(p), sz |-> proc[p].sz, sp |-> proc[p].sp,
     pages |-> [k \in 1 .. PGROUNDUP(proc[p].sz) \div PGSIZE |->
                   LET pte == Pte(mem, proc[p].pt, (k - 1) * PGSIZE)
                   IN  [data |-> mem.page[pte.pa], perm |-> pte.perm]]]

Spaces == [p \in Procs |-> SpaceOf(p)]

AS == INSTANCE AddressSpace WITH space <- Spaces

\* Through page tables and physical pages, fork, exec, sbrk and copyout do what
\* AddressSpace says: a child is a private copy, a new image is exactly the
\* file's segments, a guard page and a stack with the arguments, memory kept by
\* sbrk keeps its contents, and a call that fails changes no address space.
AddressSpaceSpec == AS!Spec

\* copyin and copyinstr return exactly the user's bytes, across page boundaries,
\* and fail on the first byte that is not the user's: beyond the size's last
\* page, in the stack guard, in the trapframe or beyond MAXVA.
CopyExact ==
    \A p \in {q \in Procs : Live(q)} : \E s \in {SpaceOf(p)} :
        \A va \in 0 .. MAXVA, len \in {1, PGSIZE + 1} :
            LET User(a) == a \div PGSIZE < Len(s.pages) /\ "U" \in s.pages[a \div PGSIZE + 1].perm
                Bytes(n) == [i \in 1 .. n |-> s.pages[(va + i - 1) \div PGSIZE + 1]
                                                 .data[(va + i - 1) % PGSIZE]]
                all == \A i \in 0 .. len - 1 : User(va + i)
                c == copyin(mem, proc[p].pt, va, len)
                z == copyinstr(mem, proc[p].pt, va, len)
                Str(n) == /\ \A i \in 0 .. n - 1 : User(va + i)
                          /\ Bytes(n)[n] = 0 /\ \A i \in 1 .. n - 1 : Bytes(n)[i] # 0
            IN  /\ (c.r = 0) <=> all
                /\ all => c.dst = Bytes(len)
                /\ (z.r = 0) <=> \E n \in 1 .. len : Str(n)
                /\ \A n \in 1 .. len : Str(n) => z.dst = Bytes(n)
=============================================================================
