-------------------------------- MODULE Proc --------------------------------
(***************************************************************************)
(* The life of processes: fork(), exit(), wait(), kill(), sleep() and      *)
(* wakeup() with the two kinds of locks they use, wait_lock and the lock   *)
(* of each process, and the readers of the process tree getppid() and      *)
(* getptable().                                                            *)
(*                                                                         *)
(* One step is one critical section of a process lock, or one access made  *)
(* under wait_lock only.  Loops over the process table take one step per   *)
(* slot.  There is a CPU for every process: with fewer CPUs a process is   *)
(* delayed between two steps, which it may be here as well; which process  *)
(* a CPU picks, and preemption, are the subject of module Sched.           *)
(***************************************************************************)
EXTENDS Integers

CONSTANTS
  NPROC,        \* slots of the process table (param.h: 64)
  Calls,        \* the system calls made, besides exit() and the wait() of init
  KillPids,     \* arguments that kill() is called with
  MaxPid        \* bound: no pid above it is handed out

ASSUME ProcAssumption ==
  /\ NPROC \in Nat \ {0}
  /\ KillPids \subseteq Nat
  /\ MaxPid \in Nat

Slot == 0..(NPROC - 1)
None == -1
initproc == 0                               \* userinit() gets the first slot

VARIABLES
  proc,         \* the process table
  plock,        \* plock[p]: the process whose thread holds p->lock
  wait_lock,    \* the process that holds wait_lock
  nextpid,
  thread        \* where the kernel thread of each process is

vars == <<proc, plock, wait_lock, nextpid, thread>>

ProcState == {"UNUSED", "USED", "SLEEPING", "RUNNABLE", "RUNNING", "ZOMBIE"}

\* A channel is the slot whose address wait() sleeps on, Other for every
\* other sleep(), or None.
Other == NPROC

ProcRec ==
  [state: ProcState,
   chan: Slot \cup {Other, None},
   killed: BOOLEAN,
   pid: Nat,
   parent: Slot \cup {None}]

(***************************************************************************)
(* pc is the system call and the place in it; i and j are the loop         *)
(* variables of its outer and inner loop over the table; arg is np in      *)
(* fork(), the argument of kill(), and the value read from p->parent in    *)
(* getppid() and getptable(); havekids is the local of wait().             *)
(***************************************************************************)
Place ==
  {"user", "fork", "fork_parent", "fork_start",
   "exit", "reparent", "reparent_wakeup", "exit_wakeup", "exit_zombie",
   "wait", "wait_scan", "wait_sleep", "kill",
   "getppid", "getptable", "getptable_pid"}

ThreadRec ==
  [pc: Place, i: 0..NPROC, j: Slot, arg: Int, havekids: BOOLEAN]

\* The variables hold values of their types.
TypeOK ==
  /\ proc \in [Slot -> ProcRec]
  /\ plock \in [Slot -> Slot \cup {None}]
  /\ wait_lock \in Slot \cup {None}
  /\ nextpid \in Nat
  /\ thread \in [Slot -> ThreadRec]

UnusedProc ==
  [state |-> "UNUSED", chan |-> None, killed |-> FALSE, pid |-> 0,
   parent |-> None]

UserMode ==
  [pc |-> "user", i |-> 0, j |-> 0, arg |-> 0, havekids |-> FALSE]

Init ==
  /\ proc = [p \in Slot |->
               IF p = initproc
               THEN [UnusedProc EXCEPT !.state = "RUNNABLE", !.pid = 1]
               ELSE UnusedProc]
  /\ plock = [p \in Slot |-> None]
  /\ wait_lock = None
  /\ nextpid = 2
  /\ thread = [p \in Slot |-> UserMode]

-----------------------------------------------------------------------------
Free(p) == plock[p] = None

At(p, pc) == proc[p].state = "RUNNING" /\ thread[p].pc = pc

\* In user mode, about to make a system call: usertrap() has just found that
\* the process is not killed.
InUser(p) == At(p, "user") /\ Free(p) /\ ~proc[p].killed

Goto(p, pc) == thread' = [thread EXCEPT ![p].pc = pc]

Call(p, pc, arg) ==
  thread' = [thread EXCEPT ![p] = [UserMode EXCEPT !.pc = pc, !.arg = arg]]

Return(p) == thread' = [thread EXCEPT ![p] = UserMode]

-----------------------------------------------------------------------------
(* scheduler(), sleep() and wakeup()                                       *)

\* scheduler() runs p; where p slept, sleep() clears p->chan and releases
\* p->lock before it acquires its lock again (the next step of p).
Run(p) ==
  /\ proc[p].state = "RUNNABLE"
  /\ Free(p)
  /\ proc' = [proc EXCEPT ![p].state = "RUNNING", ![p].chan = None]
  /\ UNCHANGED <<plock, wait_lock, nextpid, thread>>

\* sleep() and exit() change the state under p->lock and keep that lock
\* across swtch(); scheduler() releases it once p's stack is no longer used.
Switched(p) ==
  /\ plock[p] = p
  /\ proc[p].state \in {"SLEEPING", "ZOMBIE"}
  /\ plock' = [plock EXCEPT ![p] = None]
  /\ UNCHANGED <<proc, wait_lock, nextpid, thread>>

\* sleep() on something that is not modelled here, and the interrupt or the
\* process that calls wakeup() for it.
Sleep(p) ==
  /\ InUser(p)
  /\ proc' = [proc EXCEPT ![p].state = "SLEEPING", ![p].chan = Other]
  /\ plock' = [plock EXCEPT ![p] = p]
  /\ UNCHANGED <<wait_lock, nextpid, thread>>

Wake(p) ==
  /\ proc[p].state = "SLEEPING"
  /\ proc[p].chan = Other
  /\ Free(p)
  /\ proc' = [proc EXCEPT ![p].state = "RUNNABLE"]
  /\ UNCHANGED <<plock, wait_lock, nextpid, thread>>

\* Slot q of the loop of wakeup(chan) called by p, which is myproc().
Woken(p, q, chan) ==
  /\ q # p => Free(q)
  /\ proc' = IF q # p /\ proc[q].state = "SLEEPING" /\ proc[q].chan = chan
             THEN [proc EXCEPT ![q].state = "RUNNABLE"] ELSE proc

-----------------------------------------------------------------------------
(* fork()                                                                  *)

Fork(p) ==
  /\ InUser(p)
  /\ Call(p, "fork", None)
  /\ UNCHANGED <<proc, plock, wait_lock, nextpid>>

\* allocproc() passes over a slot that is in use, and fails after the last.
ForkSkip(p) ==
  /\ At(p, "fork")
  /\ thread[p].i < NPROC
  /\ Free(thread[p].i)
  /\ proc[thread[p].i].state # "UNUSED"
  /\ thread' = [thread EXCEPT ![p].i = @ + 1]
  /\ UNCHANGED <<proc, plock, wait_lock, nextpid>>

ForkNone(p) ==
  /\ At(p, "fork")
  /\ thread[p].i = NPROC
  /\ Return(p)
  /\ UNCHANGED <<proc, plock, wait_lock, nextpid>>

\* It takes a free slot; killed is left as it was.
ForkAlloc(p) ==
  LET np == thread[p].i IN
  /\ At(p, "fork")
  /\ np < NPROC
  /\ Free(np)
  /\ proc[np].state = "UNUSED"
  /\ nextpid <= MaxPid
  /\ proc' = [proc EXCEPT ![np].state = "USED", ![np].pid = nextpid]
  /\ nextpid' = nextpid + 1
  /\ Call(p, "fork_parent", np)
  /\ UNCHANGED <<plock, wait_lock>>

\* Memory runs out in allocproc() or uvmcopy(): freeproc() before the lock
\* of the slot is released.  Once pids are used up every fork() fails so.
ForkFail(p) ==
  LET np == thread[p].i IN
  /\ At(p, "fork")
  /\ np < NPROC
  /\ Free(np)
  /\ proc[np].state = "UNUSED"
  /\ proc' = [proc EXCEPT ![np] = UnusedProc]
  /\ nextpid' = IF nextpid <= MaxPid THEN nextpid + 1 ELSE nextpid
  /\ Return(p)
  /\ UNCHANGED <<plock, wait_lock>>

ForkParent(p) ==
  /\ At(p, "fork_parent")
  /\ wait_lock = None
  /\ proc' = [proc EXCEPT ![thread[p].arg].parent = p]
  /\ Goto(p, "fork_start")
  /\ UNCHANGED <<plock, wait_lock, nextpid>>

ForkStart(p) ==
  /\ At(p, "fork_start")
  /\ Free(thread[p].arg)
  /\ proc' = [proc EXCEPT ![thread[p].arg].state = "RUNNABLE"]
  /\ Return(p)
  /\ UNCHANGED <<plock, wait_lock, nextpid>>

-----------------------------------------------------------------------------
(* exit()                                                                  *)

\* A system call, or usertrap() for a killed process.  initproc must not
\* exit.  The metrics, open files and cwd of the process come first.
Exit(p) ==
  /\ At(p, "user")
  /\ Free(p)
  /\ p # initproc
  /\ Call(p, "exit", None)
  /\ UNCHANGED <<proc, plock, wait_lock, nextpid>>

ExitLock(p) ==
  /\ At(p, "exit")
  /\ wait_lock = None
  /\ wait_lock' = p
  /\ Goto(p, "reparent")
  /\ UNCHANGED <<proc, plock, nextpid>>

\* Mutant: children that are zombies already are not given to init.
ReparentSkip_zombie(p) ==
  /\ At(p, "reparent")
  /\ thread[p].i < NPROC
  /\ proc[thread[p].i].parent # p \/ proc[thread[p].i].state = "ZOMBIE"
  /\ thread' = [thread EXCEPT ![p].i = @ + 1]
  /\ UNCHANGED <<proc, plock, wait_lock, nextpid>>

\* reparent() gives a child to init and calls wakeup(initproc).
ReparentSkip(p) ==
  /\ At(p, "reparent")
  /\ thread[p].i < NPROC
  /\ proc[thread[p].i].parent # p
  /\ thread' = [thread EXCEPT ![p].i = @ + 1]
  /\ UNCHANGED <<proc, plock, wait_lock, nextpid>>

\* Mutant: init is not woken up.
Reparent_silent(p) ==
  /\ At(p, "reparent")
  /\ thread[p].i < NPROC
  /\ proc[thread[p].i].parent = p
  /\ proc' = [proc EXCEPT ![thread[p].i].parent = initproc]
  /\ UNCHANGED <<plock, wait_lock, nextpid, thread>>

Reparent(p) ==
  /\ At(p, "reparent")
  /\ thread[p].i < NPROC
  /\ proc[thread[p].i].parent = p
  /\ proc' = [proc EXCEPT ![thread[p].i].parent = initproc]
  /\ Goto(p, "reparent_wakeup")
  /\ UNCHANGED <<plock, wait_lock, nextpid>>

\* The inner loop ends with slot NPROC - 1 and the caller goes on at pc.
NextSlot(p, pc, i) ==
  thread' = IF thread[p].j + 1 < NPROC
            THEN [thread EXCEPT ![p].j = @ + 1]
            ELSE [thread EXCEPT ![p].j = 0, ![p].pc = pc, ![p].i = i]

ReparentWakeup(p) ==
  /\ At(p, "reparent_wakeup")
  /\ Woken(p, thread[p].j, initproc)
  /\ NextSlot(p, "reparent", thread[p].i + 1)
  /\ UNCHANGED <<plock, wait_lock, nextpid>>

ReparentEnd(p) ==
  /\ At(p, "reparent")
  /\ thread[p].i = NPROC
  /\ Call(p, "exit_wakeup", None)
  /\ UNCHANGED <<proc, plock, wait_lock, nextpid>>

\* wakeup(p->parent)
ExitWakeup(p) ==
  /\ At(p, "exit_wakeup")
  /\ Woken(p, thread[p].j, proc[p].parent)
  /\ NextSlot(p, "exit_zombie", 0)
  /\ UNCHANGED <<plock, wait_lock, nextpid>>

ExitZombie(p) ==
  /\ At(p, "exit_zombie")
  /\ Free(p)
  /\ proc' = [proc EXCEPT ![p].state = "ZOMBIE"]
  /\ plock' = [plock EXCEPT ![p] = p]
  /\ wait_lock' = None
  /\ UNCHANGED <<nextpid, thread>>

-----------------------------------------------------------------------------
(* wait()                                                                  *)

Wait(p) ==
  /\ InUser(p)
  /\ Call(p, "wait", None)
  /\ UNCHANGED <<proc, plock, wait_lock, nextpid>>

WaitLock(p) ==
  /\ At(p, "wait")
  /\ wait_lock = None
  /\ wait_lock' = p
  /\ Call(p, "wait_scan", None)
  /\ UNCHANGED <<proc, plock, nextpid>>

\* The slot of the scan is not a child, or a child that has not exited.
WaitSkip(p) ==
  LET pp == thread[p].i IN
  /\ At(p, "wait_scan")
  /\ pp < NPROC
  /\ proc[pp].parent = p => Free(pp) /\ proc[pp].state # "ZOMBIE"
  /\ thread' = [thread EXCEPT ![p].i = @ + 1,
                              ![p].havekids = @ \/ proc[pp].parent = p]
  /\ UNCHANGED <<proc, plock, wait_lock, nextpid>>

\* It is an exited child, off its stack: freeproc(pp).
AtZombie(p) ==
  LET pp == thread[p].i IN
  /\ At(p, "wait_scan")
  /\ pp < NPROC
  /\ proc[pp].parent = p
  /\ Free(pp)
  /\ proc[pp].state = "ZOMBIE"

WaitReap(p) ==
  LET pp == thread[p].i IN
  /\ AtZombie(p)
  /\ proc' = [proc EXCEPT ![pp] = UnusedProc]
  /\ thread' = [thread EXCEPT ![p] = UserMode, ![pp] = UserMode]
  /\ wait_lock' = None
  /\ UNCHANGED <<plock, nextpid>>

\* Mutant: the test addr != 0 is left out, so that wait(0) fails as well.
WaitFail_null(p) ==
  /\ AtZombie(p)
  /\ Return(p)
  /\ wait_lock' = None
  /\ UNCHANGED <<proc, plock, nextpid>>

\* copyout() of the exit status fails: the zombie stays.  (init.c calls
\* wait(0), which copies nothing.)
WaitFail(p) ==
  /\ AtZombie(p)
  /\ p # initproc
  /\ Return(p)
  /\ wait_lock' = None
  /\ UNCHANGED <<proc, plock, nextpid>>

\* After the scan: no children, or killed(p).
WaitNone(p) ==
  /\ At(p, "wait_scan")
  /\ thread[p].i = NPROC
  /\ Free(p)
  /\ ~thread[p].havekids \/ proc[p].killed
  /\ Return(p)
  /\ wait_lock' = None
  /\ UNCHANGED <<proc, plock, nextpid>>

WaitBlock(p) ==
  /\ At(p, "wait_scan")
  /\ thread[p].i = NPROC
  /\ Free(p)
  /\ thread[p].havekids /\ ~proc[p].killed
  /\ Call(p, "wait_sleep", None)
  /\ UNCHANGED <<proc, plock, wait_lock, nextpid>>

\* sleep(p, &wait_lock): p->lock is taken before wait_lock is released; when
\* it returns wait_lock has been acquired again and the scan starts over.
WaitSleep(p) ==
  /\ At(p, "wait_sleep")
  /\ Free(p)
  /\ proc' = [proc EXCEPT ![p].state = "SLEEPING", ![p].chan = p]
  /\ plock' = [plock EXCEPT ![p] = p]
  /\ wait_lock' = None
  /\ Call(p, "wait", None)
  /\ UNCHANGED nextpid

-----------------------------------------------------------------------------
(* kill()                                                                  *)

Kill(p, pid) ==
  /\ InUser(p)
  /\ Call(p, "kill", pid)
  /\ UNCHANGED <<proc, plock, wait_lock, nextpid>>

KillSkip(p) ==
  /\ At(p, "kill")
  /\ thread[p].i < NPROC
  /\ Free(thread[p].i)
  /\ proc[thread[p].i].pid # thread[p].arg
  /\ thread' = [thread EXCEPT ![p].i = @ + 1]
  /\ UNCHANGED <<proc, plock, wait_lock, nextpid>>

KillFound(p) ==
  LET q == thread[p].i IN
  /\ At(p, "kill")
  /\ q < NPROC
  /\ Free(q)
  /\ proc[q].pid = thread[p].arg
  /\ proc' = [proc EXCEPT ![q].killed = TRUE,
                          ![q].state = IF @ = "SLEEPING" THEN "RUNNABLE" ELSE @]
  /\ Return(p)
  /\ UNCHANGED <<plock, wait_lock, nextpid>>

KillNone(p) ==
  /\ At(p, "kill")
  /\ thread[p].i = NPROC
  /\ Return(p)
  /\ UNCHANGED <<proc, plock, wait_lock, nextpid>>

-----------------------------------------------------------------------------
(* getppid() and getptable() read p->parent, then the pid it points to.    *)

GetPpid(p) ==
  /\ InUser(p)
  /\ proc[p].parent # None
  /\ Call(p, "getppid", proc[p].parent)
  /\ UNCHANGED <<proc, plock, wait_lock, nextpid>>

GetPpidReturn(p) ==
  /\ At(p, "getppid")
  /\ Return(p)
  /\ UNCHANGED <<proc, plock, wait_lock, nextpid>>

GetPtable(p) ==
  /\ InUser(p)
  /\ Call(p, "getptable", None)
  /\ UNCHANGED <<proc, plock, wait_lock, nextpid>>

\* A slot that is not in use, or has no parent (yet), takes one step; for the
\* others the lock of the slot is held while the parent's pid is read.
GetPtableSkip(p) ==
  LET q == thread[p].i IN
  /\ At(p, "getptable")
  /\ q < NPROC
  /\ Free(q)
  /\ proc[q].state = "UNUSED" \/ proc[q].parent = None
  /\ thread' = [thread EXCEPT ![p].i = @ + 1]
  /\ UNCHANGED <<proc, plock, wait_lock, nextpid>>

GetPtableParent(p) ==
  LET q == thread[p].i IN
  /\ At(p, "getptable")
  /\ q < NPROC
  /\ Free(q)
  /\ proc[q].state # "UNUSED"
  /\ proc[q].parent # None
  /\ plock' = [plock EXCEPT ![q] = p]
  /\ thread' = [thread EXCEPT ![p].pc = "getptable_pid",
                              ![p].arg = proc[q].parent]
  /\ UNCHANGED <<proc, wait_lock, nextpid>>

\* The entry is copied out, or copyout() fails and the call returns.
GetPtablePid(p) ==
  LET q == thread[p].i IN
  /\ At(p, "getptable_pid")
  /\ plock' = [plock EXCEPT ![q] = None]
  /\ \/ thread' = [thread EXCEPT ![p].pc = "getptable", ![p].i = q + 1,
                                 ![p].arg = None]
     \/ Return(p)
  /\ UNCHANGED <<proc, wait_lock, nextpid>>

\* The loop ends after the last slot, or when the buffer is full (it has room
\* for one entry, that of init, at least).
GetPtableEnd(p) ==
  /\ At(p, "getptable")
  /\ thread[p].i > 0
  /\ Return(p)
  /\ UNCHANGED <<proc, plock, wait_lock, nextpid>>

-----------------------------------------------------------------------------
ForkSteps(p) ==
  \/ ForkSkip(p) \/ ForkNone(p) \/ ForkAlloc(p) \/ ForkFail(p)
  \/ ForkParent(p) \/ ForkStart(p)

ExitSteps(p) ==
  \/ ExitLock(p) \/ ReparentSkip(p) \/ Reparent(p) \/ ReparentWakeup(p)
  \/ ReparentEnd(p) \/ ExitWakeup(p) \/ ExitZombie(p)

WaitSteps(p) ==
  \/ WaitLock(p) \/ WaitSkip(p) \/ WaitReap(p) \/ WaitFail(p)
  \/ WaitNone(p) \/ WaitBlock(p) \/ WaitSleep(p)

KillSteps(p) == KillSkip(p) \/ KillFound(p) \/ KillNone(p)

ReadSteps(p) ==
  \/ GetPpidReturn(p)
  \/ GetPtableSkip(p) \/ GetPtableParent(p) \/ GetPtablePid(p)
  \/ GetPtableEnd(p)

SysCall(p) ==
  \/ "fork" \in Calls /\ Fork(p)
  \/ Exit(p)
  \/ ("wait" \in Calls \/ p = initproc) /\ Wait(p)
  \/ "sleep" \in Calls /\ Sleep(p)
  \/ "kill" \in Calls /\ \E pid \in KillPids : Kill(p, pid)
  \/ "getppid" \in Calls /\ GetPpid(p)
  \/ "getptable" \in Calls /\ GetPtable(p)

Next ==
  \E p \in Slot :
    \/ Run(p) \/ Switched(p) \/ Wake(p) \/ SysCall(p)
    \/ ForkSteps(p) \/ ExitSteps(p) \/ WaitSteps(p) \/ KillSteps(p)
    \/ ReadSteps(p)

Spec == Init /\ [][Next]_vars

-----------------------------------------------------------------------------
(* Safety                                                                  *)

Living == {"SLEEPING", "RUNNABLE", "RUNNING"}

\* There is always somebody to reap a process: the parent of a process is
\* alive (it has not exited, and its slot is not free or reused), whatever
\* forks and exits interleave; and only a slot that fork() is still filling,
\* and init, have no parent.
ParentAlive ==
  \A p \in Slot :
    /\ proc[p].parent # None => proc[proc[p].parent].state \in Living
    /\ p # initproc /\ proc[p].state \in Living \cup {"ZOMBIE"} =>
         proc[p].parent # None

\* No lost wakeup: nobody sleeps in wait() while one of its children is a
\* zombie, except init in the moment in which a process that holds wait_lock
\* has given it the zombie and is on its way to wake it.
NoMissedExit ==
  \A p, z \in Slot :
    /\ proc[p].state = "SLEEPING" /\ proc[p].chan = p
    /\ proc[z].state = "ZOMBIE" /\ proc[z].parent = p
    => /\ p = initproc
       /\ wait_lock # None
       /\ thread[wait_lock].pc = "reparent_wakeup"
       /\ thread[wait_lock].j <= initproc

\* What wait() has found out in its scan remains true until it sleeps or
\* returns: no scanned child has exited, and if it has seen no children then
\* there are none ("Return -1 if this process has no children").
WaitScanValid ==
  \A p \in Slot, q \in Slot :
    /\ \/ thread[p].pc = "wait_scan" /\ q < thread[p].i
       \/ thread[p].pc = "wait_sleep"
    /\ proc[q].parent = p
    => /\ proc[q].state # "ZOMBIE"
       /\ thread[p].pc = "wait_scan" => thread[p].havekids

\* wait() never misses a child that exits: not before its sleep, nor in it.
WaitSound == TypeOK /\ NoMissedExit /\ WaitScanValid

\* The entry that getptable() copies out for a process names its parent: the
\* slot that p->parent pointed to is neither freed nor reused before its pid
\* is read, although getptable() does not hold wait_lock.
PtableParentAlive ==
  \A p \in Slot : thread[p].pc = "getptable_pid" =>
    proc[thread[p].arg].state \in Living

\* p->parent is alive whenever exit(), wait() or getptable() follows it.
ParentsAlive == ParentAlive /\ PtableParentAlive

\* killed says that the process has been killed, so a process that has just
\* been allocated does not have it set.
BornNotKilled ==
  [][\A p \in Slot :
       proc[p].state = "UNUSED" /\ proc'[p].state = "USED" =>
         ~proc'[p].killed]_vars

-----------------------------------------------------------------------------
(* Liveness                                                                *)

\* Threads that are in the kernel go on when they can, RUNNABLE processes
\* get a CPU and switches complete.  init.c calls wait() over and over (it
\* forks only in between), hence the strong fairness of that call.
Fairness ==
  \A p \in Slot :
    /\ WF_vars(Run(p))
    /\ WF_vars(Switched(p))
    /\ WF_vars(ForkSteps(p))
    /\ WF_vars(ExitSteps(p))
    /\ WF_vars(WaitSteps(p))
    /\ SF_vars(p = initproc /\ Wait(p))

FairSpec == Spec /\ Fairness

\* Every process that exits as a child of init is reaped, and the children
\* of a process that exits become children of init.
ZombieReaped ==
  \A z \in Slot :
    proc[z].state = "ZOMBIE" /\ proc[z].parent = initproc
      ~> proc[z].state = "UNUSED"
=============================================================================
