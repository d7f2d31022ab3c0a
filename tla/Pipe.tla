-------------------------------- MODULE Pipe --------------------------------
(***************************************************************************)
(* Pipes (pipe.c), the file table that counts the references to their two  *)
(* ends (file.c), and the system calls by which processes make, share,     *)
(* use and drop them (sysfile.c; fork(), exit() and kill() in proc.c).     *)
(*                                                                         *)
(* A step is a critical section of ftable.lock or of pi->lock, except that *)
(* pipewrite() is one step per byte: it looks at killed() before each, and *)
(* kill() does not wait for pi->lock.  What a process does to its own      *)
(* descriptors belongs to the step before or after.  There is one page of  *)
(* memory for pipes, which is used again after it has been freed.          *)
(***************************************************************************)
EXTENDS Integers, Sequences, FiniteSets

CONSTANTS
  Proc,       \* processes
  None,       \* no process, no file, no byte
  NFILE,      \* struct files in ftable
  NOFILE,     \* descriptors per process
  PIPESIZE,   \* bytes in pi->data (512)
  UINT,       \* number of values of an unsigned int (2^32)
  Byte,       \* the bytes that are written
  MaxKilled,  \* bound: processes that have been killed and have not exited
  Count       \* the numbers of bytes that reads and writes ask for

File == 1..NFILE
FD == 1..NOFILE

ASSUME PipeAssumption ==
  /\ NFILE \in Nat /\ NOFILE \in Nat /\ MaxKilled \in Nat /\ Count \subseteq Nat
  /\ PIPESIZE \in Nat \ {0} /\ UINT \in Nat
  /\ PIPESIZE < UINT /\ UINT % PIPESIZE = 0
  /\ IsFiniteSet(Proc) /\ None \notin Proc /\ None \notin File /\ None \notin {"read", "write"}

VARIABLES
  file,       \* ftable.file
  page,       \* the page of the pipe is allocated
  pi,         \* its contents, a struct pipe
  lock,       \* the process in the loop of pipewrite(), holding pi->lock
  proc,       \* the processes
  cut         \* history: bytes were stored without a wakeup() since

vars == <<file, page, pi, lock, proc, cut>>

Pc == {"unused", "user", "pipealloc", "kalloc", "exit", "fileclose", "pipeclose",
       "pipewrite", "copyin", "piperead", "sleep_nread", "sleep_nwrite"}

\* type, readable and writable of a file: FD_NONE or an end of the pipe
End == {None, "read", "write"}

\* f: *f0 and *f1 of pipealloc(), of which f[0] also is the file that close()
\* or exit() closes; end: the copy ff in fileclose()
Local == {0, 1}

ProcRec == [pc: Pc, ofile: [FD -> File \cup {None}], f: [Local -> File \cup {None}],
            end: End, i: Nat, n: Nat, killed: BOOLEAN, exiting: BOOLEAN]

NewProc == [pc |-> "unused", ofile |-> [fd \in FD |-> None], f |-> [k \in Local |-> None],
            end |-> None, i |-> 0, n |-> 0, killed |-> FALSE, exiting |-> FALSE]

\* The number of bytes in the buffer.
Used == (pi.nwrite + UINT - pi.nread) % UINT

\* The variables hold values of their types; the counters of the pipe never
\* are more than the size of its buffer apart.
TypeOK ==
  /\ file \in [File -> [ref: Nat, end: End]]
  /\ page \in BOOLEAN
  /\ pi \in [data: [0..(PIPESIZE - 1) -> Byte \cup {None}], nread: 0..(UINT - 1),
             nwrite: 0..(UINT - 1), readopen: BOOLEAN, writeopen: BOOLEAN]
  /\ Used <= PIPESIZE
  /\ lock \in Proc \cup {None}
  /\ proc \in [Proc -> ProcRec]
  /\ cut \in BOOLEAN

\* What kfree() and kalloc() leave in a page.
NoPipe == [data |-> [k \in 0..(PIPESIZE - 1) |-> None],
           nread |-> 0, nwrite |-> 0, readopen |-> FALSE, writeopen |-> FALSE]

\* No process has open files yet.
Init ==
  /\ file = [f \in File |-> [ref |-> 0, end |-> None]]
  /\ page = FALSE
  /\ pi = NoPipe
  /\ lock = None
  /\ proc = [p \in Proc |-> NewProc]
  /\ cut = FALSE

-----------------------------------------------------------------------------
(* Helpers. *)

At(p, pc) == proc[p].pc = pc

\* A process that has been killed makes no system call any more: usertrap()
\* calls exit() for it.
InUser(p) == At(p, "user") /\ ~proc[p].killed

\* r with its pc moved on, for a system call that goes on or returns.
Goto(r, pc) == [r EXCEPT !.pc = pc]

Return(r) == [r EXCEPT !.pc = "user", !.i = 0, !.n = 0, !.end = None]

\* fileclose() returns: to pipealloc() or sys_pipe() that have another file to
\* close, to the loop of exit(), which frees the slot in the end, or to user
\* space.
Closed(r) ==
  IF \E k \in Local : r.f[k] # None THEN [r EXCEPT !.pc = "fileclose", !.end = None]
  ELSE IF ~r.exiting THEN Return(r)
  ELSE IF \E fd \in FD : r.ofile[fd] # None THEN [r EXCEPT !.pc = "exit", !.end = None]
  ELSE NewProc

\* r made RUNNABLE: it will acquire pi->lock again and test its condition
\* again.
Woken(r) ==
  CASE r.pc = "sleep_nread"  -> Goto(r, "piperead")
    [] r.pc = "sleep_nwrite" -> Goto(r, "pipewrite")
    [] OTHER                 -> r

Wakeup(ps, sleep) ==
  [q \in Proc |-> IF ps[q].pc = sleep THEN Woken(ps[q]) ELSE ps[q]]

-----------------------------------------------------------------------------
(* The file table. *)

Free == {f \in File : file[f].ref = 0}

\* filealloc() takes the first free file of the table.
FirstFree(f) == f \in Free /\ \A g \in Free : f <= g

Got(r, k, f, pc) == [r EXCEPT !.f = [@ EXCEPT ![k] = f], !.pc = pc]

\* filealloc() for *f0.  If it fails the system call changes nothing.
sys_pipe(p) ==
  /\ InUser(p)
  /\ \E f \in File :
       /\ FirstFree(f)
       /\ file' = [file EXCEPT ![f].ref = 1]
       /\ proc' = [proc EXCEPT ![p] = Got(@, 0, f, "pipealloc")]
  /\ UNCHANGED <<page, pi, lock, cut>>

\* filealloc() for *f1, or goto bad.
pipealloc(p) ==
  /\ At(p, "pipealloc")
  /\ \/ \E f \in File :
          /\ FirstFree(f)
          /\ file' = [file EXCEPT ![f].ref = 1]
          /\ proc' = [proc EXCEPT ![p] = Got(@, 1, f, "kalloc")]
     \/ /\ Free = {}
        /\ proc' = [proc EXCEPT ![p].pc = "fileclose"]
        /\ UNCHANGED file
  /\ UNCHANGED <<page, pi, lock, cut>>

\* kalloc() fails, and pipealloc() closes both files.
kalloc_fails(p) ==
  /\ At(p, "kalloc")
  /\ page
  /\ proc' = [proc EXCEPT ![p].pc = "fileclose"]
  /\ UNCHANGED <<file, page, pi, lock, cut>>

\* The pipe is set up and its ends get descriptors.  If there are no two free
\* ones, or copyout() fails, sys_pipe() closes both files again.
kalloc(p) ==
  /\ At(p, "kalloc")
  /\ ~page
  /\ page' = TRUE
  /\ pi' = [pi EXCEPT !.nread = 0, !.nwrite = 0,
                      !.readopen = TRUE, !.writeopen = TRUE]
  /\ LET r == proc[p]
         rf == r.f[0]
         wf == r.f[1]
     IN /\ file' = [file EXCEPT ![rf].end = "read", ![wf].end = "write"]
        /\ \/ \E fd0, fd1 \in FD :
                /\ fd0 < fd1 /\ r.ofile[fd0] = None /\ r.ofile[fd1] = None
                /\ \A fd \in 1..fd1 : r.ofile[fd] = None => fd \in {fd0, fd1}
                /\ proc' = [proc EXCEPT ![p] = Return(
                     [r EXCEPT !.f = NewProc.f,
                               !.ofile = [@ EXCEPT ![fd0] = rf, ![fd1] = wf]])]
           \/ proc' = [proc EXCEPT ![p].pc = "fileclose"]
  /\ UNCHANGED <<lock, cut>>

Refs(r, f) == Cardinality({fd \in FD : r.ofile[fd] = f})

\* fork() by a process that has no pipes.
spawn(np) ==
  /\ At(np, "unused")
  /\ proc' = [proc EXCEPT ![np].pc = "user"]
  /\ UNCHANGED <<file, page, pi, lock, cut>>

\* fork() calls filedup() for every descriptor that it copies.
fork(p, np) ==
  /\ InUser(p)
  /\ At(np, "unused")
  /\ file' = [f \in File |-> [file[f] EXCEPT !.ref = @ + Refs(proc[p], f)]]
  /\ proc' = [proc EXCEPT ![np] = [NewProc EXCEPT !.pc = "user",
                                                  !.ofile = proc[p].ofile]]
  /\ UNCHANGED <<page, pi, lock, cut>>

\* Mutant: the type of a free file is not reset.
Unreferenced_typed(f) == [f EXCEPT !.ref = 0]

\* f when its last reference is gone.
Unreferenced(f) == [f EXCEPT !.ref = 0, !.end = None]

\* The critical section of fileclose(f[k]) and the test of ff.type after it,
\* where r is the record of p.
Fileclose(p, r, k) ==
  LET f == r.f[k]
      last == file[f].ref = 1
      rest == [r EXCEPT !.f = [@ EXCEPT ![k] = None]]
  IN /\ file' = [file EXCEPT ![f] = IF last THEN Unreferenced(@)
                                     ELSE [@ EXCEPT !.ref = file[f].ref - 1]]
     /\ proc' = [proc EXCEPT ![p] =
          IF last /\ file[f].end # None
          THEN [rest EXCEPT !.pc = "pipeclose", !.end = file[f].end]
          ELSE Closed(rest)]
     /\ UNCHANGED <<page, pi, lock, cut>>

\* r that closes its descriptor fd.
Closing(r, fd) ==
  [r EXCEPT !.f = [@ EXCEPT ![0] = r.ofile[fd]], !.ofile = [@ EXCEPT ![fd] = None]]

sys_close(p, fd) ==
  /\ InUser(p)
  /\ proc[p].ofile[fd] # None
  /\ Fileclose(p, Closing(proc[p], fd), 0)

\* The loop of exit() at its next open descriptor.
ExitLoop(p, r) ==
  \E fd \in FD :
    /\ r.ofile[fd] # None
    /\ \A e \in FD : r.ofile[e] # None => fd <= e
    /\ Fileclose(p, Closing(r, fd), 0)

\* exit(), called by the process or, when it has been killed, by usertrap().
exit(p) ==
  /\ At(p, "user")
  /\ \/ ExitLoop(p, [NewProc EXCEPT !.ofile = proc[p].ofile, !.exiting = TRUE])
     \/ /\ \A fd \in FD : proc[p].ofile[fd] = None
        /\ proc' = [proc EXCEPT ![p] = NewProc]
        /\ UNCHANGED <<file, page, pi, lock, cut>>

exit_next(p) ==
  /\ At(p, "exit")
  /\ ExitLoop(p, proc[p])

\* The next file of a failing pipe().
fileclose(p) ==
  /\ At(p, "fileclose")
  /\ Fileclose(p, proc[p], IF proc[p].f[0] # None THEN 0 ELSE 1)

-----------------------------------------------------------------------------
(* The pipe. *)

Empty == pi.nread = pi.nwrite

Full == pi.nwrite = (pi.nread + PIPESIZE) % UINT

Unused(r) == ~r.readopen /\ ~r.writeopen

\* pipeclose(), with kfree() when both ends are closed.
pipeclose(p) ==
  /\ At(p, "pipeclose")
  /\ lock = None
  /\ LET w == proc[p].end = "write"
         after == [pi EXCEPT !.readopen = @ /\ w, !.writeopen = @ /\ ~w]
     IN /\ page' = ~Unused(after)
        /\ pi' = IF page' THEN after ELSE NoPipe
        /\ proc' = Wakeup([proc EXCEPT ![p] = Closed(@)],
                          IF w THEN "sleep_nread" ELSE "sleep_nwrite")
        /\ cut' = (cut /\ page' /\ ~w)
  /\ UNCHANGED <<file, lock>>

Opened(p, fd, e) == \E f \in File : proc[p].ofile[fd] = f /\ file[f].end = e

\* sys_write() up to the acquire() of pipewrite().
filewrite(p, fd, n) ==
  /\ InUser(p)
  /\ Opened(p, fd, "write")
  /\ lock = None
  /\ lock' = p
  /\ proc' = [proc EXCEPT ![p] = [@ EXCEPT !.pc = "copyin", !.n = n]]
  /\ UNCHANGED <<file, page, pi, cut>>

\* sleep() in pipewrite() returns with the lock.
pipewrite(p) ==
  /\ At(p, "pipewrite")
  /\ lock = None
  /\ lock' = p
  /\ proc' = [proc EXCEPT ![p].pc = "copyin"]
  /\ UNCHANGED <<file, page, pi, cut>>

\* The loop of pipewrite() at its head.
InLoop(p) == At(p, "copyin") /\ proc[p].i < proc[p].n

\* The read end is closed or the writer has been killed: -1, and no wakeup.
pipewrite_fails(p) ==
  /\ InLoop(p)
  /\ ~pi.readopen \/ proc[p].killed
  /\ lock' = None
  /\ proc' = [proc EXCEPT ![p] = Return(@)]
  /\ cut' = (cut \/ proc[p].i > 0)
  /\ UNCHANGED <<file, page, pi>>

CanWrite(p) == InLoop(p) /\ pi.readopen /\ ~proc[p].killed

\* Mutant: the readers are not woken.
WakeReaders_none(ps) == ps

WakeReaders(ps) == Wakeup(ps, "sleep_nread")

\* Wake the readers and sleep until there is room.
pipewrite_full(p) ==
  /\ CanWrite(p)
  /\ Full
  /\ lock' = None
  /\ proc' = WakeReaders([proc EXCEPT ![p].pc = "sleep_nwrite"])
  /\ cut' = FALSE
  /\ UNCHANGED <<file, page, pi>>

\* Mutant: ++pi->nwrite instead of pi->nwrite++.
WriteIndex_next == (pi.nwrite + 1) % PIPESIZE

WriteIndex == pi.nwrite % PIPESIZE

pipewrite_byte(p, b) ==
  /\ CanWrite(p)
  /\ ~Full
  /\ pi' = [pi EXCEPT !.data[WriteIndex] = b,
                      !.nwrite = (@ + 1) % UINT]
  /\ proc' = [proc EXCEPT ![p].i = @ + 1]
  /\ UNCHANGED <<file, page, lock, cut>>

\* All bytes are written, or copyin() has failed.
pipewrite_end(p) ==
  /\ At(p, "copyin")
  /\ proc[p].i < proc[p].n => CanWrite(p) /\ ~Full
  /\ lock' = None
  /\ proc' = Wakeup([proc EXCEPT ![p] = Return(@)], "sleep_nread")
  /\ cut' = FALSE
  /\ UNCHANGED <<file, page, pi>>

WakeWriters(ps) == Wakeup(ps, "sleep_nwrite")

\* The critical section of piperead(): its first loop tests and sleeps, the
\* second one takes k bytes; copyout() may fail for the last of them.
Piperead(p, n) ==
  /\ lock = None
  /\ \/ /\ Empty /\ pi.writeopen
        /\ proc' = [proc EXCEPT ![p] = IF @.killed THEN Return(@)
                                       ELSE [@ EXCEPT !.pc = "sleep_nread", !.n = n]]
        /\ UNCHANGED pi
     \/ /\ ~Empty \/ ~pi.writeopen
        /\ \E k \in 0..n :
             /\ k <= Used
             /\ k = 0 => n = 0 \/ Empty
             /\ pi' = [pi EXCEPT !.nread = (@ + k) % UINT]
        /\ proc' = WakeWriters([proc EXCEPT ![p] = Return(@)])
  /\ UNCHANGED <<file, page, lock, cut>>

fileread(p, fd, n) ==
  /\ InUser(p)
  /\ Opened(p, fd, "read")
  /\ Piperead(p, n)

\* sleep() in piperead() returns.
piperead(p) ==
  /\ At(p, "piperead")
  /\ Piperead(p, proc[p].n)

\* kill() makes a sleeper RUNNABLE.  On a process in exit() it has no effect.
kill(p) ==
  /\ ~At(p, "unused") /\ ~proc[p].killed /\ ~proc[p].exiting
  /\ Cardinality({q \in Proc : proc[q].killed}) < MaxKilled
  /\ proc' = [proc EXCEPT ![p] = Woken([@ EXCEPT !.killed = TRUE])]
  /\ UNCHANGED <<file, page, pi, lock, cut>>

Next ==
  \E p \in Proc :
    \/ sys_pipe(p) \/ pipealloc(p) \/ kalloc(p) \/ kalloc_fails(p)
    \/ spawn(p) \/ exit(p) \/ exit_next(p) \/ kill(p) \/ fileclose(p) \/ pipeclose(p)
    \/ \E np \in Proc : fork(p, np)
    \/ \E fd \in FD : sys_close(p, fd)
    \/ \E fd \in FD, n \in Count : filewrite(p, fd, n) \/ fileread(p, fd, n)
    \/ pipewrite(p) \/ pipewrite_fails(p) \/ pipewrite_full(p) \/ pipewrite_end(p)
    \/ \E b \in Byte : pipewrite_byte(p, b)
    \/ piperead(p)

Spec == Init /\ [][Next]_vars

-----------------------------------------------------------------------------
(* Properties. *)

\* The reference count of a file is the number of descriptors for it, and of
\* system calls under way that have still to close it (pipealloc(), close(),
\* exit()): no file is freed early and none is leaked, whatever fails.
RefsExact ==
  \A f \in File :
    file[f].ref =
      Cardinality({d \in Proc \X FD : proc[d[1]].ofile[d[2]] = f})
      + Cardinality({d \in Proc \X Local : proc[d[1]].f[d[2]] = f})

IsOpen(e) == IF e = "write" THEN pi.writeopen ELSE pi.readopen

\* An end of the pipe is open exactly as long as some file refers to it or
\* the pipeclose() of its last file has not come yet, and the page is freed
\* with the last end: end of file is reported exactly when no writer is left,
\* and no page is leaked.
EndsOpen ==
  /\ \A e \in End \ {None} :
       IsOpen(e) <=> \/ \E f \in File : file[f].ref > 0 /\ file[f].end = e
                     \/ \E p \in Proc : At(p, "pipeclose") /\ proc[p].end = e
  /\ page <=> pi.readopen \/ pi.writeopen

\* A process in pipewrite() or piperead(), asleep there, or about to call
\* pipeclose(), finds the pipe allocated and its own end open: no use of a
\* freed page, and no wakeup() on a channel of a pipe that is gone.
PipeInUse ==
  \A p \in Proc :
    /\ proc[p].pc \in {"pipewrite", "copyin", "sleep_nwrite"} => page /\ pi.writeopen
    /\ proc[p].pc \in {"piperead", "sleep_nread"} => page /\ pi.readopen
    /\ At(p, "pipeclose") => page /\ IsOpen(proc[p].end)

\* Files, ends and the page live exactly as long as somebody uses them.
LifetimesExact == TypeOK /\ RefsExact /\ EndsOpen /\ PipeInUse

\* A sleeping writer has a full pipe with a reader in front of it, a sleeping
\* reader an empty one with a writer, unless a writer is just filling it: no
\* wakeup is lost.  The exception is a writer that has been killed between
\* two bytes, because pipewrite() then returns without waking the readers.
NoLostWakeup ==
  \A p \in Proc :
    /\ At(p, "sleep_nwrite") => Full /\ pi.readopen
    /\ At(p, "sleep_nread") => pi.writeopen /\ (Empty \/ lock # None \/ cut)

\* Readers and writers are never asleep at the same time, not even after a
\* writer has been killed: the ends do not wait for each other.
NoMutualSleep ==
  ~ \E p, q \in Proc : At(p, "sleep_nread") /\ At(q, "sleep_nwrite")

\* No end of the pipe is left asleep: neither by a lost wakeup nor by the other.
SleepersServed == NoLostWakeup /\ NoMutualSleep

\* The bytes from nread to nwrite, oldest first.
queue ==
  IF page THEN [k \in 1..Used |-> pi.data[((pi.nread + k - 1) % UINT) % PIPESIZE]]
  ELSE <<>>

C == INSTANCE Channel WITH
       Capacity <- PIPESIZE, reading <- pi.readopen, writing <- pi.writeopen

\* The pipe is a first-in first-out channel of PIPESIZE bytes, also when the
\* counters nread and nwrite wrap around.
ChannelSpec == C!Spec
=============================================================================
