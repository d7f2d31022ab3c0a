----------------------------- MODULE Accounting -----------------------------
(***************************************************************************)
(* The time accounting of the process monitor: the time stamps and         *)
(* counters that allocproc(), freeproc(), fork(), yield(), sleep(),        *)
(* wakeup(), kill(), scheduler(), update_time() and exit() keep in struct  *)
(* proc, and the metrics that exit() adds up and setscheduler() resets.    *)
(*                                                                         *)
(* One step is one critical section of a lock.  The choice of the process  *)
(* to run (module Sched) is left open: any free CPU may run any RUNNABLE   *)
(* process.  Time is what CPU 0 counts in ticks; the other CPUs act        *)
(* between ticks++ and any slot of the update_time() loop that follows.    *)
(***************************************************************************)
EXTENDS Integers

CONSTANTS
  NPROC,        \* slots of the process table
  NCPU,         \* harts
  UINT,         \* range of a C unsigned int (2^32)
  Policies,     \* policies that setscheduler() is called with
  Starts,       \* values of ticks to start from
  MaxTicks,     \* bound: CPU 0 stops counting there
  MaxForks      \* bound: number of successful allocproc() calls

ASSUME AccountingAssumption ==
  /\ NPROC \in Nat \ {0}
  /\ NCPU \in Nat \ {0}
  /\ UINT \in Nat \ {0, 1}
  /\ Policies \subseteq 0..2
  /\ Starts \subseteq 0..(UINT - 1)
  /\ MaxTicks \in Nat
  /\ MaxForks \in Nat

Slot == 0..(NPROC - 1)
CPU == 0..(NCPU - 1)
None == -1
initproc == 0
SCHED_FCFS == 1

U(x) == x % UINT                            \* unsigned arithmetic

VARIABLES
  proc,         \* the process table, as far as accounting is concerned
  running,      \* running[c]: the process on CPU c
  clock,        \* the slot update_time() is at on CPU 0, or None
  ticks,
  sched_mode,
  metrics,      \* the totals that metrics_lock protects
  forks         \* successful allocproc() calls, for the bound

vars == <<proc, running, clock, ticks, sched_mode, metrics, forks>>

ProcState == {"UNUSED", "USED", "SLEEPING", "RUNNABLE", "RUNNING", "ZOMBIE"}

Uint == 0..(UINT - 1)

\* exiting: exit() has added the process to the metrics.  policy: the
\* argument of setscheduler() between the reset and the store, then Yielding
\* until its call of yield().
Yielding == -2

ProcRec ==
  [state: ProcState,
   creation_time: Uint,
   run_time: Uint,
   last_runnable_time: Uint,
   total_waiting_time: Uint,
   exiting: BOOLEAN,
   policy: 0..2 \cup {None, Yielding}]

\* The variables hold values of their types.
TypeOK ==
  /\ proc \in [Slot -> ProcRec]
  /\ running \in [CPU -> Slot \cup {None}]
  /\ clock \in 0..NPROC \cup {None}
  /\ ticks \in Uint
  /\ sched_mode \in 0..2
  /\ metrics \in [turnaround: Nat, waiting: Nat, finished: Nat]
  /\ forks \in Nat

NoMetrics == [turnaround |-> 0, waiting |-> 0, finished |-> 0]

UnusedProc ==
  [state |-> "UNUSED", creation_time |-> 0, run_time |-> 0,
   last_runnable_time |-> 0, total_waiting_time |-> 0,
   exiting |-> FALSE, policy |-> None]

\* After userinit(), or much later, when only init is left and has just been
\* woken and the metrics have just been reset.
Init ==
  /\ ticks \in Starts
  /\ proc = [p \in Slot |-> IF p = initproc
                            THEN [UnusedProc EXCEPT !.state = "RUNNABLE",
                                                    !.last_runnable_time = ticks]
                            ELSE UnusedProc]
  /\ running = [c \in CPU |-> None]
  /\ clock = None
  /\ sched_mode = 0
  /\ metrics = NoMetrics
  /\ forks = 0

-----------------------------------------------------------------------------
\* CPU c is not in the clock interrupt.
Acts(c) == c = 0 => clock = None

\* CPU c runs a process that is free to make a new system call.
InUser(c) ==
  /\ Acts(c)
  /\ running[c] # None
  /\ ~proc[running[c]].exiting
  /\ proc[running[c]].policy = None

\* Every place that makes a process RUNNABLE notes the time.
MakeRunnable(p) ==
  [proc EXCEPT ![p].state = "RUNNABLE", ![p].last_runnable_time = ticks]

\* Mutant: a wait is counted only if ticks has grown.
WaitingTime_grown(p) ==
  IF proc[p].last_runnable_time > 0 /\ ticks > proc[p].last_runnable_time
  THEN U(proc[p].total_waiting_time + U(ticks - proc[p].last_runnable_time))
  ELSE proc[p].total_waiting_time

\* The waiting time added when scheduler() gives p a CPU; the time stamp 0
\* is taken for "never made RUNNABLE".
WaitingTime(p) ==
  IF proc[p].last_runnable_time > 0
  THEN U(proc[p].total_waiting_time + U(ticks - proc[p].last_runnable_time))
  ELSE proc[p].total_waiting_time

Dispatch(c, p) ==
  /\ Acts(c)
  /\ running[c] = None
  /\ proc[p].state = "RUNNABLE"
  /\ proc' = [proc EXCEPT ![p].state = "RUNNING",
                          ![p].total_waiting_time = WaitingTime(p)]
  /\ running' = [running EXCEPT ![c] = p]
  /\ UNCHANGED <<clock, ticks, sched_mode, metrics, forks>>

\* A timer interrupt, or setscheduler(), calls yield().
Yielded(table, p) ==
  [table EXCEPT ![p].policy = IF @ = Yielding THEN None ELSE @]

Yield(c) ==
  /\ Acts(c)
  /\ running[c] # None
  /\ sched_mode # SCHED_FCFS
  /\ proc' = Yielded(MakeRunnable(running[c]), running[c])
  /\ running' = [running EXCEPT ![c] = None]
  /\ UNCHANGED <<clock, ticks, sched_mode, metrics, forks>>

YieldFCFS(c) ==
  /\ Acts(c)
  /\ running[c] # None
  /\ sched_mode = SCHED_FCFS
  /\ proc' = Yielded(proc, running[c])
  /\ UNCHANGED <<running, clock, ticks, sched_mode, metrics, forks>>

\* exit() may sleep too, while it closes files.
Sleep(c) ==
  /\ Acts(c)
  /\ running[c] # None
  /\ proc[running[c]].policy = None
  /\ proc' = [proc EXCEPT ![running[c]].state = "SLEEPING"]
  /\ running' = [running EXCEPT ![c] = None]
  /\ UNCHANGED <<clock, ticks, sched_mode, metrics, forks>>

\* wakeup() or kill(), by a process or in an interrupt.  Channels are not
\* modelled: any sleeper may be one that clockintr() wakes with &ticks.
Wakeup(p) ==
  /\ proc[p].state = "SLEEPING"
  /\ proc' = MakeRunnable(p)
  /\ UNCHANGED <<running, clock, ticks, sched_mode, metrics, forks>>

\* allocproc() and freeproc()
Allocated(p) ==
  [proc[p] EXCEPT !.state = "USED", !.creation_time = ticks, !.run_time = 0,
                  !.total_waiting_time = 0, !.last_runnable_time = 0]

Freed(r) ==
  [r EXCEPT !.state = "UNUSED", !.creation_time = ticks, !.run_time = 0,
            !.exiting = FALSE]

Fork(c, np) ==
  /\ InUser(c)
  /\ forks < MaxForks
  /\ proc[np].state = "UNUSED"
  /\ proc' = [proc EXCEPT ![np] = Allocated(np)]
  /\ forks' = forks + 1
  /\ UNCHANGED <<running, clock, ticks, sched_mode, metrics>>

\* Memory runs out, in allocproc() or in uvmcopy(): the slot is freed before
\* its lock is released.
ForkFail(c, np) ==
  /\ InUser(c)
  /\ proc[np].state = "UNUSED"
  /\ \E r \in {proc[np], Allocated(np)} : proc' = [proc EXCEPT ![np] = Freed(r)]
  /\ UNCHANGED <<running, clock, ticks, sched_mode, metrics, forks>>

\* The second critical section of fork(), by the process that allocated np.
ForkStart(c, np) ==
  /\ Acts(c)
  /\ running[c] # None
  /\ proc[np].state = "USED"
  /\ proc' = MakeRunnable(np)
  /\ UNCHANGED <<running, clock, ticks, sched_mode, metrics, forks>>

\* exit() adds its process to the metrics first ...
Exit(c) ==
  LET p == proc[running[c]] IN
  /\ InUser(c)
  /\ running[c] # initproc
  /\ metrics' = [turnaround |-> metrics.turnaround + U(ticks - p.creation_time),
                 waiting |-> metrics.waiting + p.total_waiting_time,
                 finished |-> metrics.finished + 1]
  /\ proc' = [proc EXCEPT ![running[c]].exiting = TRUE]
  /\ UNCHANGED <<running, clock, ticks, sched_mode, forks>>

\* ... and becomes a zombie much later.
ExitZombie(c) ==
  /\ Acts(c)
  /\ running[c] # None
  /\ proc[running[c]].exiting
  /\ proc' = [proc EXCEPT ![running[c]].state = "ZOMBIE"]
  /\ running' = [running EXCEPT ![c] = None]
  /\ UNCHANGED <<clock, ticks, sched_mode, metrics, forks>>

\* freeproc() called by wait()
Reap(c, z) ==
  /\ InUser(c)
  /\ proc[z].state = "ZOMBIE"
  /\ proc' = [proc EXCEPT ![z] = Freed(proc[z])]
  /\ UNCHANGED <<running, clock, ticks, sched_mode, metrics, forks>>

\* Mutant: the sum of the waiting times is not reset.
SetScheduler_partial(c, policy) ==
  /\ InUser(c)
  /\ metrics' = [NoMetrics EXCEPT !.waiting = metrics.waiting]
  /\ proc' = [proc EXCEPT ![running[c]].policy = policy]
  /\ UNCHANGED <<running, clock, ticks, sched_mode, forks>>

\* setscheduler() resets the metrics under metrics_lock; the policy is
\* stored once that lock has been released.
SetScheduler(c, policy) ==
  /\ InUser(c)
  /\ metrics' = NoMetrics
  /\ proc' = [proc EXCEPT ![running[c]].policy = policy]
  /\ UNCHANGED <<running, clock, ticks, sched_mode, forks>>

SetSchedulerStore(c) ==
  /\ Acts(c)
  /\ running[c] # None
  /\ proc[running[c]].policy \in Policies
  /\ sched_mode' = proc[running[c]].policy
  /\ proc' = [proc EXCEPT ![running[c]].policy = Yielding]
  /\ UNCHANGED <<running, clock, ticks, metrics, forks>>

\* clockintr() on CPU 0: ticks++, then update_time() slot by slot.
ClockIntr ==
  /\ clock = None
  /\ ticks # MaxTicks
  /\ ticks' = U(ticks + 1)
  /\ clock' = 0
  /\ UNCHANGED <<proc, running, sched_mode, metrics, forks>>

UpdateTime ==
  /\ clock \in Slot
  /\ proc' = IF proc[clock].state = "RUNNING"
             THEN [proc EXCEPT ![clock].run_time = U(@ + 1)] ELSE proc
  /\ clock' = clock + 1
  /\ UNCHANGED <<running, ticks, sched_mode, metrics, forks>>

ClockEnd ==
  /\ clock = NPROC
  /\ clock' = None
  /\ UNCHANGED <<proc, running, ticks, sched_mode, metrics, forks>>

-----------------------------------------------------------------------------
Next ==
  \/ ClockIntr \/ UpdateTime \/ ClockEnd
  \/ \E p \in Slot : Wakeup(p)
  \/ \E c \in CPU :
       \/ Yield(c) \/ YieldFCFS(c) \/ Sleep(c) \/ Exit(c) \/ ExitZombie(c)
       \/ SetSchedulerStore(c)
       \/ \E m \in Policies : SetScheduler(c, m)
       \/ \E p \in Slot : \/ Dispatch(c, p) \/ Reap(c, p)
                          \/ Fork(c, p) \/ ForkFail(c, p) \/ ForkStart(c, p)

Spec == Init /\ [][Next]_vars

-----------------------------------------------------------------------------
Alive(p) == proc[p].state # "UNUSED"

\* The totals reported by getmetrics() are consistent whatever exits and
\* resets interleave: nobody waited longer than it lived, and with no
\* finished process there is no time.
MetricsConsistent ==
  /\ metrics.waiting <= metrics.turnaround
  /\ metrics.finished = 0 => metrics = NoMetrics
=============================================================================
