------------------------------- MODULE Sched -------------------------------
(***************************************************************************)
(* The scheduler of the kernel: the per-CPU loop scheduler() with its      *)
(* three policies, the process states and process locks it works on, and   *)
(* the operations that race with it (fork, exit, wait, sleep, wakeup,      *)
(* yield, setpriority, setscheduler, the clock interrupt).                 *)
(*                                                                         *)
(* One step is one critical section of a process lock: acquire(&p->lock),  *)
(* the accesses to p, release(&p->lock).  A lock that is held from one     *)
(* step to the next (the candidate of an FCFS or priority scan, the lock   *)
(* carried across swtch()) is recorded in plock.  The scan of the process  *)
(* table takes one step per slot, so every CPU may act between two slots.  *)
(*                                                                         *)
(* Of the operations around the scheduler only the critical section that   *)
(* moves a process state is kept.  Their own protocols have modules of     *)
(* their own: wait_lock, channels, pids and parents (Proc) and the time    *)
(* accounting (Accounting).                                                *)
(***************************************************************************)
EXTENDS Integers

CONSTANTS
  NPROC,            \* slots of the process table (param.h: 64)
  NCPU,             \* harts (Makefile: CPUS, 3 by default)
  DefaultPriority,  \* priority given by allocproc() (10)
  Priorities,       \* priorities that setpriority() is called with
  Policies,         \* policies that setscheduler() is called with
  MaxTicks          \* bound: ticks is not counted beyond it

ASSUME SchedAssumption ==
  /\ NPROC \in Nat \ {0}
  /\ NCPU \in Nat \ {0}
  /\ DefaultPriority \in Int
  /\ Priorities \subseteq Int
  /\ Policies \subseteq 0..2
  /\ MaxTicks \in Nat

Slot == 0..(NPROC - 1)
CPU == 0..(NCPU - 1)
None == -1                                  \* no process, no lock holder

SCHED_ROUND_ROBIN == 0
SCHED_FCFS == 1
SCHED_PRIORITY == 2

initproc == 0                               \* userinit() gets the first slot

VARIABLES
  proc,         \* the process table
  plock,        \* plock[p]: the CPU that holds p->lock
  cpu,          \* struct cpu and the locals of its scheduler() thread
  ticks,
  sched_mode

vars == <<proc, plock, cpu, ticks, sched_mode>>

ProcState == {"UNUSED", "USED", "SLEEPING", "RUNNABLE", "RUNNING", "ZOMBIE"}

\* child is the local np of fork() between its two critical sections.
ProcRec ==
  [state: ProcState,
   priority: Int,
   creation_time: Nat,
   child: Slot \cup {None}]

(***************************************************************************)
(* pc of a CPU: "top" and "scan" are in scheduler(), where policy, i and   *)
(* cand are the branch taken, the slot scanned next and min_p or high_p.   *)
(* "resume" is the process just after swtch() gave it the CPU, still with  *)
(* its own lock; "run" is the process without a process lock; "back" is    *)
(* scheduler() just after the process called sched().  resched: the        *)
(* process is about to call yield().                                       *)
(***************************************************************************)
CpuRec ==
  [proc: Slot \cup {None},
   pc: {"top", "scan", "resume", "run", "back"},
   policy: 0..2,
   i: 0..NPROC,
   cand: Slot \cup {None},
   resched: BOOLEAN]

\* The variables hold values of their types.
TypeOK ==
  /\ proc \in [Slot -> ProcRec]
  /\ plock \in [Slot -> CPU \cup {None}]
  /\ cpu \in [CPU -> CpuRec]
  /\ ticks \in Nat
  /\ sched_mode \in 0..2

-----------------------------------------------------------------------------
(* Boot: CPU 0 has run procinit() and userinit(), every CPU is about to    *)
(* enter the loop of scheduler().                                          *)

UnusedProc ==
  [state |-> "UNUSED", priority |-> 0, creation_time |-> 0, child |-> None]

IdleCpu ==
  [proc |-> None, pc |-> "top", policy |-> SCHED_ROUND_ROBIN, i |-> 0,
   cand |-> None, resched |-> FALSE]

Init ==
  /\ proc = [p \in Slot |->
               IF p = initproc
               THEN [UnusedProc EXCEPT !.state = "RUNNABLE",
                                       !.priority = DefaultPriority]
               ELSE UnusedProc]
  /\ plock = [p \in Slot |-> None]
  /\ cpu = [c \in CPU |-> IdleCpu]
  /\ ticks = 0
  /\ sched_mode = SCHED_ROUND_ROBIN

-----------------------------------------------------------------------------
(* Where a CPU is.                                                         *)

Free(p) == plock[p] = None

\* The process on CPU c runs its own code, in user mode or in the kernel
\* without a process lock.
InProcess(c) == cpu[c].pc = "run" /\ ~cpu[c].resched

\* It is free to make a new system call.
InUser(c) == InProcess(c) /\ proc[cpu[c].proc].child = None

\* CPU c holds no process lock and can take an interrupt.
Interruptible(c) ==
  \/ InProcess(c)
  \/ cpu[c].pc = "top"
  \/ cpu[c].pc = "scan" /\ cpu[c].cand = None

-----------------------------------------------------------------------------
(* scheduler()                                                             *)

\* One round of the outer loop begins.  The tests of sched_mode are made one
\* after the other; the branch taken is that of the last value read (a round
\* in which none of them holds does nothing).
Top(c) ==
  /\ cpu[c].pc = "top"
  /\ cpu' = [cpu EXCEPT ![c] = [@ EXCEPT !.pc = "scan", !.policy = sched_mode]]
  /\ UNCHANGED <<proc, plock, ticks, sched_mode>>

\* The round ends without a process to switch to.
ScanEnd(c) ==
  /\ cpu[c].pc = "scan"
  /\ cpu[c].i = NPROC
  /\ cpu[c].cand = None
  /\ cpu' = [cpu EXCEPT ![c] = IdleCpu]
  /\ UNCHANGED <<proc, plock, ticks, sched_mode>>

\* The next slot of a scan can be locked.
AtSlot(c) ==
  /\ cpu[c].pc = "scan"
  /\ cpu[c].i < NPROC
  /\ Free(cpu[c].i)

\* Make p the process of CPU c and swtch() to it, its lock held.
Dispatch(c, p) ==
  /\ proc' = [proc EXCEPT ![p].state = "RUNNING"]
  /\ plock' = [plock EXCEPT ![p] = c]
  /\ cpu' = [cpu EXCEPT
               ![c] = [@ EXCEPT !.proc = p, !.pc = "resume", !.cand = None]]
  /\ UNCHANGED <<ticks, sched_mode>>

\* Round robin runs the first RUNNABLE process it meets ...
RRDispatch(c) ==
  /\ AtSlot(c)
  /\ cpu[c].policy = SCHED_ROUND_ROBIN
  /\ proc[cpu[c].i].state = "RUNNABLE"
  /\ Dispatch(c, cpu[c].i)

\* Mutant: the first RUNNABLE process found stays the candidate.
Better_first(policy, p, q) == FALSE

\* ... FCFS keeps the oldest one it has met, priority the one with the
\* smallest priority value and among those the oldest.
Better(policy, p, q) ==
  \/ /\ policy = SCHED_FCFS
     /\ proc[p].creation_time < proc[q].creation_time
  \/ /\ policy = SCHED_PRIORITY
     /\ \/ proc[p].priority < proc[q].priority
        \/ /\ proc[p].priority = proc[q].priority
           /\ proc[p].creation_time < proc[q].creation_time

Wanted(c, p) ==
  /\ proc[p].state = "RUNNABLE"
  /\ cpu[c].cand # None => Better(cpu[c].policy, p, cpu[c].cand)

\* The slot is not taken: its lock is released again.
Skip(c) ==
  /\ AtSlot(c)
  /\ ~Wanted(c, cpu[c].i)
  /\ cpu' = [cpu EXCEPT ![c].i = @ + 1]
  /\ UNCHANGED <<proc, plock, ticks, sched_mode>>

\* The slot becomes the candidate: its lock is kept, that of the old
\* candidate released.
KeepLocks(c) ==
  [p \in Slot |-> IF p = cpu[c].i THEN c
                  ELSE IF p = cpu[c].cand THEN None ELSE plock[p]]

Keep(c) ==
  /\ AtSlot(c)
  /\ cpu[c].policy # SCHED_ROUND_ROBIN
  /\ Wanted(c, cpu[c].i)
  /\ plock' = KeepLocks(c)
  /\ cpu' = [cpu EXCEPT ![c] = [@ EXCEPT !.cand = cpu[c].i, !.i = cpu[c].i + 1]]
  /\ UNCHANGED <<proc, ticks, sched_mode>>

\* The scan is over and the candidate, still locked, is run.
Pick(c) ==
  /\ cpu[c].pc = "scan"
  /\ cpu[c].i = NPROC
  /\ cpu[c].cand # None
  /\ Dispatch(c, cpu[c].cand)

\* Mutant: forkret() forgets to release the lock.
Resume_locked(c) ==
  /\ cpu[c].pc = "resume"
  /\ cpu' = [cpu EXCEPT ![c].pc = "run"]
  /\ UNCHANGED <<proc, plock, ticks, sched_mode>>

\* swtch() returned into forkret(), or into sched() called by yield() or
\* sleep(): each releases the lock.
Resume(c) ==
  /\ cpu[c].pc = "resume"
  /\ plock' = [plock EXCEPT ![cpu[c].proc] = None]
  /\ cpu' = [cpu EXCEPT ![c].pc = "run"]
  /\ UNCHANGED <<proc, ticks, sched_mode>>

\* Mutant: every policy starts a new round.
Back_restart(c) ==
  /\ cpu[c].pc = "back"
  /\ plock' = [plock EXCEPT ![cpu[c].proc] = None]
  /\ cpu' = [cpu EXCEPT ![c] = IdleCpu]
  /\ UNCHANGED <<proc, ticks, sched_mode>>

\* The process switched back: round robin goes on with the next slot, the
\* other policies start a new round.
Back(c) ==
  /\ cpu[c].pc = "back"
  /\ plock' = [plock EXCEPT ![cpu[c].proc] = None]
  /\ cpu' = IF cpu[c].policy = SCHED_ROUND_ROBIN
            THEN [cpu EXCEPT
                    ![c] = [@ EXCEPT !.proc = None, !.pc = "scan",
                                !.i = cpu[c].i + 1]]
            ELSE [cpu EXCEPT ![c] = IdleCpu]
  /\ UNCHANGED <<proc, ticks, sched_mode>>

-----------------------------------------------------------------------------
(* What the process on a CPU does.                                         *)

MakeRunnable(p) == [proc EXCEPT ![p].state = "RUNNABLE"]

\* Mutant: the lock is released before swtch().
SwitchOut_early(c) ==
  /\ Free(cpu[c].proc)
  /\ cpu' = [cpu EXCEPT ![c] = [@ EXCEPT !.pc = "back", !.resched = FALSE]]
  /\ UNCHANGED plock

\* sched(): the lock of the process goes to scheduler() on the same CPU.
SwitchOut(c) ==
  /\ Free(cpu[c].proc)
  /\ plock' = [plock EXCEPT ![cpu[c].proc] = c]
  /\ cpu' = [cpu EXCEPT ![c] = [@ EXCEPT !.pc = "back", !.resched = FALSE]]

\* A timer interrupt on CPU c, or setpriority() or setscheduler(), makes
\* the process call yield().  On CPU 0 the timer runs clockintr() first.
CallsYield(c) ==
  /\ cpu[c].pc = "run"
  /\ cpu[c].resched \/ c # 0

Yield(c) ==
  /\ CallsYield(c)
  /\ sched_mode # SCHED_FCFS
  /\ proc' = MakeRunnable(cpu[c].proc)
  /\ SwitchOut(c)
  /\ UNCHANGED <<ticks, sched_mode>>

YieldFCFS(c) ==
  /\ CallsYield(c)
  /\ sched_mode = SCHED_FCFS
  /\ Free(cpu[c].proc)
  /\ cpu' = [cpu EXCEPT ![c].resched = FALSE]
  /\ UNCHANGED <<proc, plock, ticks, sched_mode>>

Sleep(c) ==
  /\ InUser(c)
  /\ proc' = [proc EXCEPT ![cpu[c].proc].state = "SLEEPING"]
  /\ SwitchOut(c)
  /\ UNCHANGED <<ticks, sched_mode>>

\* exit() never returns; initproc must not call it.
Exit(c) ==
  /\ InUser(c)
  /\ cpu[c].proc # initproc
  /\ proc' = [proc EXCEPT ![cpu[c].proc].state = "ZOMBIE"]
  /\ SwitchOut(c)
  /\ UNCHANGED <<ticks, sched_mode>>

\* The slot of wakeup() or kill() that finds p asleep: run by a process or,
\* for wakeup(), by an interrupt handler (as clockintr() does for &ticks).
Wakeup(c, p) ==
  /\ Interruptible(c)
  /\ proc[p].state = "SLEEPING"
  /\ Free(p)
  /\ proc' = MakeRunnable(p)
  /\ UNCHANGED <<plock, cpu, ticks, sched_mode>>

\* Mutant: the slot is not marked USED before its lock is released.
ForkAlloc_unmarked(c, np) ==
  /\ InUser(c)
  /\ proc[np].state = "UNUSED"
  /\ Free(np)
  /\ proc' = [proc EXCEPT ![cpu[c].proc].child = np]
  /\ UNCHANGED <<plock, cpu, ticks, sched_mode>>

\* fork(): allocproc() fills a free slot, then the child is started.  The
\* scan for the slot may miss one that is freed behind it: any will do.
ForkAlloc(c, np) ==
  /\ InUser(c)
  /\ proc[np].state = "UNUSED"
  /\ Free(np)
  /\ proc' = [proc EXCEPT
                ![np] = [@ EXCEPT !.state = "USED", !.creation_time = ticks,
                                  !.priority = DefaultPriority],
                ![cpu[c].proc].child = np]
  /\ UNCHANGED <<plock, cpu, ticks, sched_mode>>

ForkStart(c) ==
  LET p == cpu[c].proc
      np == proc[p].child IN
  /\ InProcess(c)
  /\ np # None
  /\ Free(np)
  /\ proc' = [MakeRunnable(np) EXCEPT ![p].child = None]
  /\ UNCHANGED <<plock, cpu, ticks, sched_mode>>

\* wait() finds the zombie z and frees it with freeproc().
Reap(c, z) ==
  /\ InUser(c)
  /\ proc[z].state = "ZOMBIE"
  /\ Free(z)
  /\ proc' = [proc EXCEPT
                ![z] = [@ EXCEPT !.state = "UNUSED", !.creation_time = ticks]]
  /\ UNCHANGED <<plock, cpu, ticks, sched_mode>>

SetPriority(c, p, priority) ==
  /\ InUser(c)
  /\ proc[p].state # "UNUSED"
  /\ Free(p)
  /\ proc' = [proc EXCEPT ![p].priority = priority]
  /\ cpu' = [cpu EXCEPT ![c].resched = (sched_mode = SCHED_PRIORITY)]
  /\ UNCHANGED <<plock, ticks, sched_mode>>

SetScheduler(c, policy) ==
  /\ InUser(c)
  /\ sched_mode' = policy
  /\ cpu' = [cpu EXCEPT ![c].resched = TRUE]
  /\ UNCHANGED <<proc, plock, ticks>>

\* The timer interrupt on CPU 0 counts a tick; the trap handler then makes
\* the interrupted process, if there is one, call yield().
ClockIntr ==
  /\ Interruptible(0)
  /\ ticks' = IF ticks < MaxTicks THEN ticks + 1 ELSE ticks
  /\ cpu' = [cpu EXCEPT ![0].resched = (cpu[0].proc # None)]
  /\ UNCHANGED <<proc, plock, sched_mode>>

-----------------------------------------------------------------------------
Scheduler(c) ==
  \/ Top(c) \/ ScanEnd(c) \/ RRDispatch(c) \/ Skip(c) \/ Keep(c) \/ Pick(c)
  \/ Resume(c) \/ Back(c)

SysCall(c) ==
  \/ Sleep(c) \/ Exit(c) \/ ForkStart(c)
  \/ \E p \in Slot : ForkAlloc(c, p) \/ Reap(c, p)
  \/ \E p \in Slot, v \in Priorities : SetPriority(c, p, v)
  \/ \E m \in Policies : SetScheduler(c, m)

Next ==
  \/ ClockIntr
  \/ \E c \in CPU :
       \/ Scheduler(c) \/ SysCall(c) \/ Yield(c) \/ YieldFCFS(c)
       \/ \E p \in Slot : Wakeup(c, p)

Spec == Init /\ [][Next]_vars

-----------------------------------------------------------------------------
(* Safety                                                                  *)

Holds(c) == {p \in Slot : plock[p] = c}

\* The slot whose lock CPU c acquires next, if it is at an acquire().
WaitsFor(c) ==
  IF cpu[c].pc = "scan" /\ cpu[c].i < NPROC THEN {cpu[c].i}
  ELSE IF cpu[c].pc = "run" THEN Slot
  ELSE {}

\* Lock order: scheduler() is the only code that holds a process lock while
\* it acquires another, and it acquires them in the order of the table.  So
\* no two CPUs can wait for each other's candidate, whatever policies they
\* are scanning for.
LockOrder ==
  \A c \in CPU : \A p \in Holds(c), q \in WaitsFor(c) : p < q

\* What sched() and scheduler() rely on at a swtch(), in both directions:
\* the CPU holds the lock of the process that is switched and no other one,
\* and a process that switches out is no longer RUNNING ("sched locks",
\* "sched p->lock" and "sched running" never panic).  Everywhere else in a
\* process no process lock is held.
SwtchLocks ==
  \A c \in CPU :
    /\ cpu[c].pc \in {"resume", "back"} => Holds(c) = {cpu[c].proc}
    /\ cpu[c].pc = "back" => proc[cpu[c].proc].state # "RUNNING"
    /\ cpu[c].pc \in {"run", "top"} => Holds(c) = {}

\* Process locks are acquired in the order of the table, and sched() and
\* scheduler() switch with exactly the lock they rely on.
LockDiscipline == LockOrder /\ SwtchLocks

\* No kernel stack is used by two CPUs: c->proc is never the same process on
\* two CPUs, not even between the store of the new state in yield(), sleep()
\* or exit() and the end of the swtch() that leaves the stack.
OneCpu ==
  \A c, d \in CPU : c # d /\ cpu[c].proc # None => cpu[c].proc # cpu[d].proc

\* A process is RUNNING exactly while a CPU runs it, and a slot that is free
\* or being filled by fork() is on no CPU: wait() cannot free a process that
\* is still on its way through exit() and sched().
RunningOnCpu ==
  /\ \A p \in Slot : proc[p].state = "RUNNING"
       <=> \E c \in CPU : cpu[c].proc = p /\ cpu[c].pc \in {"resume", "run"}
  /\ \A c \in CPU : cpu[c].proc # None =>
       proc[cpu[c].proc].state \notin {"UNUSED", "USED"}

\* A process and its kernel stack are on at most one CPU, on exactly one while
\* RUNNING, and on none when wait() or fork() may free or fill the slot.
StacksExclusive == OneCpu /\ RunningOnCpu

\* The child that fork() starts is still the one it allocated: USED, and
\* nobody else's.
ChildUsed ==
  /\ \A p \in Slot : proc[p].child # None =>
       proc[proc[p].child].state = "USED"
  /\ \A p, q \in Slot : p # q /\ proc[p].child # None =>
       proc[p].child # proc[q].child

-----------------------------------------------------------------------------
(* Liveness                                                                *)

\* Scheduling fairness: the harts execute, timers fire, and the code that
\* an interrupt or a switch makes a CPU run is run.  What processes do with
\* their time (system calls) is not fair: they may compute for ever.
Fairness ==
  /\ \A c \in CPU : WF_vars(Scheduler(c))
  /\ \A c \in CPU : WF_vars(Yield(c) \/ YieldFCFS(c))
  /\ WF_vars(ClockIntr)

\* Under round robin every process that is RUNNABLE gets a CPU, even if all
\* others compute for ever.
NoStarvation ==
  \A p \in Slot : proc[p].state = "RUNNABLE" ~> proc[p].state = "RUNNING"

=============================================================================
