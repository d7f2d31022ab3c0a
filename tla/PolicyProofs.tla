---------------------------- MODULE PolicyProofs ----------------------------
(***************************************************************************)
(* Proofs of what the three policies of scheduler() promise, for any       *)
(* number of processes and CPUs.                                           *)
(*                                                                         *)
(* FCFS and priority (module SchedScan): the candidate of a scan is the    *)
(* best of the slots passed, because its own keys cannot change while its  *)
(* lock is held and those of a process that stays RUNNABLE do not change.  *)
(*                                                                         *)
(* Round robin (module SchedRR): the CPUs that gave q a turn while p was   *)
(* waiting are all between q and p in the circular order of the table, and *)
(* none of them can pass p.                                                *)
(***************************************************************************)
EXTENDS SchedScan, SchedRR, SchedProofs, FiniteSetTheorems

-----------------------------------------------------------------------------
(* What a step does to the scan of a CPU                                   *)

\* A round starts with the first slot.
TopInv == \A c \in CPU : cpu[c].pc = "top" => cpu[c].i = 0

\* The part of cpu[c] that the scan uses.
SameScan(c) ==
  /\ cpu'[c].pc = cpu[c].pc /\ cpu'[c].policy = cpu[c].policy
  /\ cpu'[c].i = cpu[c].i /\ cpu'[c].cand = cpu[c].cand

\* The ways in which a step moves the scan of CPU c.
Starts(c) ==
  /\ cpu[c].pc = "top" /\ cpu'[c].pc = "scan" /\ cpu'[c].policy = sched_mode
  /\ cpu'[c].i = cpu[c].i /\ cpu'[c].cand = cpu[c].cand
  /\ UNCHANGED proc

Passes(c) ==
  /\ cpu[c].pc = "scan" /\ cpu[c].i \in Slot
  /\ ~Wanted(c, cpu[c].i)
  /\ cpu'[c].pc = "scan" /\ cpu'[c].policy = cpu[c].policy
  /\ cpu'[c].i = cpu[c].i + 1 /\ cpu'[c].cand = cpu[c].cand
  /\ UNCHANGED proc

Takes(c) ==
  /\ cpu[c].pc = "scan" /\ cpu[c].i \in Slot
  /\ cpu[c].policy # SCHED_ROUND_ROBIN
  /\ Wanted(c, cpu[c].i)
  /\ cpu'[c].pc = "scan" /\ cpu'[c].policy = cpu[c].policy
  /\ cpu'[c].i = cpu[c].i + 1 /\ cpu'[c].cand = cpu[c].i
  /\ UNCHANGED proc

Ends(c) ==
  /\ cpu[c].pc \in {"scan", "back"} /\ cpu'[c] = IdleCpu
  /\ cpu[c].pc = "scan" => cpu[c].i = NPROC
  /\ cpu[c].pc = "back" => cpu[c].policy # SCHED_ROUND_ROBIN

Runs(c, p) ==
  /\ cpu[c].pc = "scan" /\ proc[p].state = "RUNNABLE"
  /\ cpu[c].policy = SCHED_ROUND_ROBIN => p = cpu[c].i
  /\ cpu'[c].pc = "resume" /\ cpu'[c].policy = cpu[c].policy /\ cpu'[c].i = cpu[c].i
  /\ proc' = [proc EXCEPT ![p].state = "RUNNING"]

Leaves(c) ==
  /\ cpu[c].pc \in {"resume", "run"} /\ cpu'[c].pc \in {"run", "back"}
  /\ cpu'[c].policy = cpu[c].policy /\ cpu'[c].i = cpu[c].i

GoesOn(c) ==
  /\ cpu[c].pc = "back" /\ cpu[c].policy = SCHED_ROUND_ROBIN
  /\ cpu[c].i < NPROC
  /\ cpu'[c].pc = "scan" /\ cpu'[c].policy = SCHED_ROUND_ROBIN
  /\ cpu'[c].i = cpu[c].i + 1

ScanMove(c) ==
  \/ SameScan(c) \/ Starts(c) \/ Passes(c) \/ Takes(c) \/ Ends(c)
  \/ (\E p \in Slot : Runs(c, p)) \/ Leaves(c) \/ GoesOn(c)

\* The keys of a process do not change while its lock is held, nor does its
\* creation time while it is RUNNABLE.
KeysKept ==
  \A p \in Slot :
    /\ plock[p] # None => /\ proc'[p].priority = proc[p].priority
                          /\ proc'[p].creation_time = proc[p].creation_time
    /\ proc'[p].state = "RUNNABLE" /\ proc[p].state = "RUNNABLE" =>
         proc'[p].creation_time = proc[p].creation_time

\* A process gets a CPU only by the scan of a CPU.
TurnsGiven ==
  \A q \in Slot : Dispatched(q) => \E c \in CPU : Runs(c, q)

Moved == (\A c \in CPU : ScanMove(c)) /\ KeysKept /\ TurnsGiven

-----------------------------------------------------------------------------
(* FCFS and priority                                                       *)

ScanInv ==
  /\ TopInv
  /\ since \in [CPU -> SUBSET Slot]
  /\ \A c \in CPU : cpu[c].pc = "scan" /\ cpu[c].policy # SCHED_ROUND_ROBIN =>
       \A p \in since[c] : proc[p].state = "RUNNABLE"
  /\ CandidateIsBest

-----------------------------------------------------------------------------
(* Round robin                                                             *)

\* CPU c has been at slot q and has not yet come to slot p.
After(c, q) ==
  \/ cpu[c].i > q
  \/ cpu[c].i = q /\ cpu[c].pc \in {"resume", "run", "back"}

UpTo(c, p) ==
  \/ cpu[c].i < p
  \/ cpu[c].i = p /\ cpu[c].pc \in {"top", "scan"}

Between(p, q) ==
  {c \in CPU : IF q < p THEN After(c, q) /\ UpTo(c, p) ELSE After(c, q) \/ UpTo(c, p)}

RoundRobin ==
  sched_mode = SCHED_ROUND_ROBIN /\ \A c \in CPU : cpu[c].policy = SCHED_ROUND_ROBIN

RRInv ==
  /\ TopInv
  /\ RoundRobin
  /\ passed \in [Slot -> [Slot -> Nat]]
  /\ \A p, q \in Slot :
       /\ proc[p].state # "RUNNABLE" => passed[p][q] = 0
       /\ p # q => passed[p][q] <= Cardinality(Between(p, q))
       /\ passed[p][p] = 0

-----------------------------------------------------------------------------
(* Every step moves the scans in one of these ways                         *)

LEMMA MovedBy ==
  ASSUME NEW c \in CPU, ScanMove(c), \A d \in CPU : d # c => cpu'[d] = cpu[d],
         KeysKept, TurnsGiven
  PROVE  Moved
<1>1. ASSUME NEW d \in CPU PROVE ScanMove(d)
  BY <1>1 DEF ScanMove, SameScan
<1> QED
  BY <1>1 DEF Moved

\* A step that leaves the process table alone.
LEMMA TableSame ==
  ASSUME proc' = proc
  PROVE  KeysKept /\ TurnsGiven
BY DEF KeysKept, TurnsGiven, Dispatched

\* A step that changes the state of one process, to something else than RUNNING.
LEMMA StateChange ==
  ASSUME TypeOK, NEW p \in Slot, NEW s \in ProcState, s # "RUNNING",
         proc' = [proc EXCEPT ![p].state = s]
  PROVE  KeysKept /\ TurnsGiven
<1>1. \A q \in Slot : /\ proc'[q].priority = proc[q].priority
                      /\ proc'[q].creation_time = proc[q].creation_time
                      /\ proc'[q].state = IF q = p THEN s ELSE proc[q].state
  BY DEF TypeOK, ProcRec
<1> QED
  BY <1>1 DEF KeysKept, TurnsGiven, Dispatched

LEMMA SchedulerMoves ==
  ASSUME SchedInv, NEW c \in CPU, Scheduler(c)
  PROVE  Moved
<1>0. /\ cpu \in [CPU -> CpuRec] /\ cpu[c] \in CpuRec
      /\ TypeOK /\ CpuInv /\ CandInv
      /\ NPROC \in Nat /\ cpu[c].i \in 0..NPROC
  BY SchedAssumption DEF SchedInv, TypeOK, CpuRec
<1>1. CASE Top(c)
  <2>1. Starts(c) /\ proc' = proc /\ \A d \in CPU : d # c => cpu'[d] = cpu[d]
    BY <1>0, <1>1 DEF Top, Starts, CpuRec
  <2> QED
    BY <2>1, TableSame, MovedBy DEF ScanMove
<1>2. CASE ScanEnd(c)
  <2>1. Ends(c) /\ proc' = proc /\ \A d \in CPU : d # c => cpu'[d] = cpu[d]
    BY <1>0, <1>2 DEF ScanEnd, Ends
  <2> QED
    BY <2>1, TableSame, MovedBy DEF ScanMove
<1>3. ASSUME NEW p \in Slot, Dispatch(c, p), cpu[c].pc = "scan", proc[p].state = "RUNNABLE",
             cpu[c].policy = SCHED_ROUND_ROBIN => p = cpu[c].i
      PROVE  Moved
  <2>1. Runs(c, p) /\ \A d \in CPU : d # c => cpu'[d] = cpu[d]
    BY <1>0, <1>3 DEF Dispatch, Runs, CpuRec
  <2>2. \A q \in Slot : /\ proc'[q].priority = proc[q].priority
                        /\ proc'[q].creation_time = proc[q].creation_time
                        /\ q # p => proc'[q].state = proc[q].state
    BY <1>0, <1>3 DEF Dispatch, TypeOK, ProcRec
  <2>3. KeysKept /\ TurnsGiven
    BY <2>1, <2>2 DEF KeysKept, TurnsGiven, Dispatched
  <2> QED
    BY <2>1, <2>3, MovedBy DEF ScanMove
<1>4. CASE RRDispatch(c)
  <2>1. cpu[c].i \in Slot
    BY <1>0, <1>4 DEF RRDispatch, AtSlot, Slot
  <2> QED
    BY <1>3, <1>4, <2>1 DEF RRDispatch, AtSlot
<1>5. CASE Pick(c)
  <2>1. cpu[c].cand \in Slot /\ proc[cpu[c].cand].state = "RUNNABLE"
        /\ cpu[c].policy # SCHED_ROUND_ROBIN
    BY <1>0, <1>5 DEF Pick, CandInv, CpuRec
  <2> QED
    BY <1>3, <1>5, <2>1 DEF Pick
<1>6. CASE Skip(c)
  <2>1. Passes(c) /\ proc' = proc /\ \A d \in CPU : d # c => cpu'[d] = cpu[d]
    BY <1>0, <1>6 DEF Skip, AtSlot, Passes, CpuRec, Slot
  <2> QED
    BY <2>1, TableSame, MovedBy DEF ScanMove
<1>7. CASE Keep(c)
  <2>1. Takes(c) /\ proc' = proc /\ \A d \in CPU : d # c => cpu'[d] = cpu[d]
    BY <1>0, <1>7 DEF Keep, AtSlot, Takes, CpuRec, Slot
  <2> QED
    BY <2>1, TableSame, MovedBy DEF ScanMove
<1>8. CASE Resume(c)
  <2>1. Leaves(c) /\ proc' = proc /\ \A d \in CPU : d # c => cpu'[d] = cpu[d]
    BY <1>0, <1>8 DEF Resume, Leaves, CpuRec
  <2> QED
    BY <2>1, TableSame, MovedBy DEF ScanMove
<1>9. CASE Back(c)
  <2>1. (GoesOn(c) \/ Ends(c)) /\ proc' = proc /\ \A d \in CPU : d # c => cpu'[d] = cpu[d]
    <3>1. CASE cpu[c].policy = SCHED_ROUND_ROBIN
      <4>1. cpu[c].i < NPROC
        BY <1>0, <1>9, <3>1 DEF Back, CpuInv
      <4> QED
        BY <1>0, <1>9, <3>1, <4>1 DEF Back, GoesOn, CpuRec
    <3>2. CASE cpu[c].policy # SCHED_ROUND_ROBIN
      BY <1>0, <1>9, <3>2 DEF Back, Ends
    <3> QED
      BY <3>1, <3>2
  <2> QED
    BY <2>1, TableSame, MovedBy DEF ScanMove
<1> QED
  BY <1>1, <1>2, <1>4, <1>5, <1>6, <1>7, <1>8, <1>9 DEF Scheduler

\* Yield, sleep and exit.
LEMMA SwitchOutMoves ==
  ASSUME SchedInv, NEW c \in CPU, cpu[c].pc = "run", SwitchOut(c),
         NEW s \in {"RUNNABLE", "SLEEPING", "ZOMBIE"},
         proc' = [proc EXCEPT ![cpu[c].proc].state = s]
  PROVE  Moved
<1>1. cpu \in [CPU -> CpuRec] /\ cpu[c].proc \in Slot /\ TypeOK
  BY DEF SchedInv, TypeOK, CpuInv, CpuRec
<1>2. Leaves(c) /\ \A d \in CPU : d # c => cpu'[d] = cpu[d]
  BY <1>1 DEF SwitchOut, Leaves, CpuRec
<1>3. KeysKept /\ TurnsGiven
  BY <1>1, StateChange DEF ProcState
<1> QED
  BY <1>2, <1>3, MovedBy DEF ScanMove

\* A step that at most sets resched.
LEMMA StandsStill ==
  ASSUME SchedInv, NEW c \in CPU, NEW b \in BOOLEAN,
         cpu' = [cpu EXCEPT ![c].resched = b] \/ cpu' = cpu, KeysKept, TurnsGiven
  PROVE  Moved
<1>1. cpu \in [CPU -> CpuRec]
  BY DEF SchedInv, TypeOK
<1>2. SameScan(c) /\ \A d \in CPU : d # c => cpu'[d] = cpu[d]
  BY <1>1 DEF SameScan, CpuRec
<1> QED
  BY <1>2, MovedBy DEF ScanMove

LEMMA SysCallMoves ==
  ASSUME SchedInv, NEW c \in CPU, SysCall(c)
  PROVE  Moved
<1>0. TypeOK /\ cpu[c].pc = "run" /\ cpu[c].proc \in Slot
  BY DEF SchedInv, TypeOK, CpuInv, CpuRec, SysCall, Sleep, Exit, ForkStart, ForkAlloc, Reap,
    SetPriority, SetScheduler, InUser, InProcess
<1>1. CASE Sleep(c)
  BY <1>0, <1>1, SwitchOutMoves DEF Sleep
<1>2. CASE Exit(c)
  BY <1>0, <1>2, SwitchOutMoves DEF Exit
<1>3. CASE ForkStart(c)
  <2> DEFINE p == cpu[c].proc
             np == proc[p].child
  <2>1. np \in Slot
    BY <1>0, <1>3 DEF ForkStart, TypeOK, ProcRec
  <2>2. \A q \in Slot : /\ proc'[q].priority = proc[q].priority
                        /\ proc'[q].creation_time = proc[q].creation_time
                        /\ proc'[q].state = IF q = np THEN "RUNNABLE" ELSE proc[q].state
    BY <1>0, <1>3, <2>1 DEF ForkStart, MakeRunnable, TypeOK, ProcRec
  <2>3. KeysKept /\ TurnsGiven
    BY <2>2 DEF KeysKept, TurnsGiven, Dispatched
  <2> QED
    BY <1>3, <2>3, StandsStill DEF ForkStart
<1>4. ASSUME NEW np \in Slot, ForkAlloc(c, np) PROVE Moved
  <2>1. \A q \in Slot : q # np =>
           /\ proc'[q].priority = proc[q].priority
           /\ proc'[q].creation_time = proc[q].creation_time
           /\ proc'[q].state = proc[q].state
    BY <1>0, <1>4 DEF ForkAlloc, TypeOK, ProcRec
  <2>2. proc'[np].state = "USED" /\ plock[np] = None
    BY <1>0, <1>4 DEF ForkAlloc, Free, TypeOK, ProcRec
  <2>3. KeysKept /\ TurnsGiven
    BY <2>1, <2>2 DEF KeysKept, TurnsGiven, Dispatched
  <2> QED
    BY <1>4, <2>3, StandsStill DEF ForkAlloc
<1>5. ASSUME NEW z \in Slot, Reap(c, z) PROVE Moved
  <2>1. \A q \in Slot : q # z => proc'[q] = proc[q]
    BY <1>0, <1>5 DEF Reap, TypeOK
  <2>2. proc'[z].state = "UNUSED" /\ plock[z] = None
    BY <1>0, <1>5 DEF Reap, Free, TypeOK, ProcRec
  <2>3. KeysKept /\ TurnsGiven
    BY <2>1, <2>2 DEF KeysKept, TurnsGiven, Dispatched
  <2> QED
    BY <1>5, <2>3, StandsStill DEF Reap
<1>6. ASSUME NEW p \in Slot, NEW v \in Priorities, SetPriority(c, p, v) PROVE Moved
  <2>1. \A q \in Slot : /\ q # p => proc'[q].priority = proc[q].priority
                        /\ proc'[q].creation_time = proc[q].creation_time
                        /\ proc'[q].state = proc[q].state
    BY <1>0, <1>6 DEF SetPriority, TypeOK, ProcRec
  <2>2. plock[p] = None
    BY <1>6 DEF SetPriority, Free
  <2>3. KeysKept /\ TurnsGiven
    BY <2>1, <2>2 DEF KeysKept, TurnsGiven, Dispatched
  <2> QED
    BY <1>6, <2>3, StandsStill DEF SetPriority
<1>7. ASSUME NEW m \in Policies, SetScheduler(c, m) PROVE Moved
  BY <1>7, TableSame, StandsStill DEF SetScheduler
<1> QED
  BY <1>1, <1>2, <1>3, <1>4, <1>5, <1>6, <1>7 DEF SysCall

LEMMA NextMoves ==
  ASSUME SchedInv, Next
  PROVE  Moved
<1>1. CASE ClockIntr
  <2>1. 0 \in CPU
    BY SchedAssumption DEF CPU
  <2> QED
    BY <1>1, <2>1, TableSame, StandsStill DEF ClockIntr
<1>2. ASSUME NEW c \in CPU, Yield(c) PROVE Moved
  BY <1>2, SwitchOutMoves DEF Yield, CallsYield, MakeRunnable
<1>3. ASSUME NEW c \in CPU, YieldFCFS(c) PROVE Moved
  BY <1>3, TableSame, StandsStill DEF YieldFCFS
<1>4. ASSUME NEW c \in CPU, NEW p \in Slot, Wakeup(c, p) PROVE Moved
  <2>1. KeysKept /\ TurnsGiven
    BY <1>4, StateChange DEF Wakeup, MakeRunnable, SchedInv, ProcState
  <2> QED
    BY <1>4, <2>1, StandsStill DEF Wakeup
<1> QED
  BY <1>1, <1>2, <1>3, <1>4, SchedulerMoves, SysCallMoves DEF Next

\* Every step starts a round with the first slot.
LEMMA TopStep ==
  ASSUME TopInv, Moved
  PROVE  TopInv'
BY DEF TopInv, Moved, ScanMove, SameScan, Starts, Passes, Takes, Ends, Runs, Leaves, GoesOn,
  IdleCpu

LEMMA InvStep ==
  SchedInv /\ [Next]_vars => SchedInv'
BY TypeStep, RestStep DEF SchedInv, Rest

-----------------------------------------------------------------------------
(* FCFS and priority                                                       *)

\* A candidate that is locked and a process that stays RUNNABLE keep their
\* order.
LEMMA OrderKept ==
  ASSUME TypeOK, KeysKept, NEW p \in Slot, NEW q \in Slot, NEW m,
         proc[p].state = "RUNNABLE", StillRunnable(p), plock[q] # None
  PROVE  Precedes(m, p, q)' <=> Precedes(m, p, q)
BY DEF KeysKept, StillRunnable, Precedes

LEMMA ScanStep ==
  ASSUME SchedInv, ScanInv, ScanNext
  PROVE  ScanInv'
<1>1. TypeOK /\ LockInv /\ CandInv /\ Next /\ Moved /\ TopInv
  BY NextMoves DEF SchedInv, ScanInv, ScanNext
<1>2. /\ since' = [c \in CPU |-> Since(c)] /\ since \in [CPU -> SUBSET Slot]
      /\ KeysKept /\ \A c \in CPU : ScanMove(c)
  BY <1>1 DEF ScanNext, ScanInv, Moved
<1>3. TopInv'
  BY <1>1, TopStep
<1>4. since' \in [CPU -> SUBSET Slot]
  BY <1>2 DEF Since, Runnable
<1>5. ASSUME NEW c \in CPU, cpu'[c].pc = "scan", cpu'[c].policy # SCHED_ROUND_ROBIN,
             NEW p \in since'[c]
      PROVE  /\ proc'[p].state = "RUNNABLE" /\ p \in Slot
             /\ \/ Starts(c)
                \/ SameScan(c) /\ cpu[c].pc = "scan" /\ cpu[c].policy # SCHED_ROUND_ROBIN
                   /\ p \in since[c] /\ StillRunnable(p)
                \/ (Passes(c) \/ Takes(c)) /\ cpu[c].policy # SCHED_ROUND_ROBIN
                   /\ p \in since[c]
  <2>1. p \in Since(c) /\ p \in Slot
    BY <1>2, <1>4, <1>5
  <2>2. CASE cpu[c].pc = "top"
    <3>1. Starts(c)
      BY <1>2, <1>5, <2>2 DEF ScanMove, SameScan, Starts, Passes, Takes, Ends, Runs, Leaves, GoesOn
    <3>2. proc' = proc /\ p \in Runnable
      BY <1>5, <2>1, <2>2, <3>1 DEF Since, Starts
    <3> QED
      BY <2>1, <3>1, <3>2 DEF Runnable
  <2>3. CASE cpu[c].pc # "top"
    <3>1. p \in since[c] /\ StillRunnable(p)
      BY <1>5, <2>1, <2>3 DEF Since
    <3>2. SameScan(c) \/ Passes(c) \/ Takes(c)
      BY <1>2, <1>5, <2>3 DEF ScanMove, Starts, Ends, Runs, Leaves, GoesOn, IdleCpu
    <3>3. cpu[c].policy = cpu'[c].policy /\ (SameScan(c) => cpu[c].pc = "scan")
      BY <1>5, <3>2 DEF SameScan, Passes, Takes
    <3> QED
      BY <1>5, <2>1, <3>1, <3>2, <3>3 DEF StillRunnable
  <2> QED
    BY <2>2, <2>3
<1>6. ASSUME NEW c \in CPU, cpu'[c].pc = "scan", cpu'[c].policy # SCHED_ROUND_ROBIN,
             NEW p \in since'[c], p < cpu'[c].i
      PROVE  cpu'[c].cand # None /\ ~Precedes(cpu[c].policy, p, cpu[c].cand)'
  <2>1. p \in Slot /\ cpu[c] \in CpuRec
    BY <1>1, <1>5, <1>6 DEF TypeOK
  <2>2. CASE Starts(c)
    BY <1>1, <1>6, <2>1, <2>2 DEF Starts, TopInv, Slot
  <2>3. CASE SameScan(c)
    <3>1. /\ cpu[c].pc = "scan" /\ cpu[c].policy # SCHED_ROUND_ROBIN /\ p \in since[c]
          /\ StillRunnable(p) /\ p < cpu[c].i /\ cpu'[c].cand = cpu[c].cand
          /\ cpu'[c].policy = cpu[c].policy
      <4>1. cpu[c].i \in Int /\ ~Starts(c)
        BY <2>1, <2>3 DEF CpuRec, SameScan, Starts
      <4>2. ~Passes(c) /\ ~Takes(c)
        BY <2>3, <4>1 DEF SameScan, Passes, Takes
      <4>3. /\ cpu[c].pc = "scan" /\ cpu[c].policy # SCHED_ROUND_ROBIN
            /\ p \in since[c] /\ StillRunnable(p)
        BY <1>5, <1>6, <4>1, <4>2
      <4> QED
        BY <1>6, <2>3, <4>3 DEF SameScan
    <3>2. /\ cpu[c].cand # None /\ ~Precedes(cpu[c].policy, p, cpu[c].cand)
          /\ proc[p].state = "RUNNABLE"
      BY <3>1 DEF ScanInv, CandidateIsBest
    <3>3. cpu[c].cand \in Slot /\ plock[cpu[c].cand] = c /\ c # None
      BY <1>1, <2>1, <3>1, <3>2, SchedAssumption DEF CpuRec, LockInv, HoldsLock, CPU, None
    <3>4. PICK q \in Slot : q = cpu[c].cand
      BY <3>3
    <3>5. PICK m \in 0..2 : m = cpu[c].policy
      BY <2>1 DEF CpuRec
    <3>6. Precedes(m, p, q)' <=> Precedes(m, p, q)
      BY <1>1, <1>2, <2>1, <3>1, <3>2, <3>3, <3>4, OrderKept
    <3>7. cpu'[c].cand = q /\ cpu'[c].policy = m
      BY <3>1, <3>4, <3>5
    <3> QED
      BY <3>2, <3>3, <3>4, <3>5, <3>6, <3>7
  <2>4. CASE Passes(c) \/ Takes(c)
    <3> DEFINE s == cpu[c].i
               m == cpu[c].policy
               q == cpu[c].cand
    <3>1. /\ s \in Slot /\ proc' = proc /\ cpu[c].pc = "scan"
          /\ cpu'[c].i = s + 1 /\ cpu'[c].policy = m
          /\ \/ cpu'[c].cand = q /\ ~Wanted(c, s)
             \/ cpu'[c].cand = s /\ Wanted(c, s)
      BY <2>4 DEF Passes, Takes
    <3>2. m \in {SCHED_FCFS, SCHED_PRIORITY} /\ p \in since[c] /\ proc[p].state = "RUNNABLE"
      <4>1. m # SCHED_ROUND_ROBIN /\ p \in since[c]
        BY <1>5, <1>6, <2>4, <3>1 DEF Starts, SameScan, Slot
      <4> QED
        BY <2>1, <3>1, <4>1 DEF ScanInv, CpuRec, SCHED_FCFS, SCHED_PRIORITY, SCHED_ROUND_ROBIN
    <3>3. p < s \/ p = s
      BY <1>6, <2>1, <3>1 DEF Slot
    <3>4. p < s => q # None /\ ~Precedes(m, p, q)
      BY <3>1, <3>2 DEF ScanInv, CandidateIsBest, SCHED_ROUND_ROBIN, SCHED_FCFS, SCHED_PRIORITY
    <3>5. q \in Slot \cup {None} /\ None \notin Slot
      BY <2>1 DEF CpuRec, None, Slot
    <3>6. \A r \in Slot : proc[r].priority \in Int /\ proc[r].creation_time \in Int
      BY <1>1 DEF TypeOK, ProcRec
    <3>7. /\ cpu'[c].cand # None
          /\ ~Precedes(m, p, cpu'[c].cand)
      <4>1. CASE cpu'[c].cand = q /\ ~Wanted(c, s)
        <5>1. q # None /\ ~Precedes(m, p, q)
          BY <3>2, <3>3, <3>4, <4>1
            DEF Wanted, Better, Precedes, SCHED_FCFS, SCHED_PRIORITY
        <5> QED
          BY <4>1, <5>1
      <4>2. CASE cpu'[c].cand = s /\ Wanted(c, s)
        <5>1. p < s => q \in Slot /\ Better(m, s, q) /\ ~Precedes(m, p, q)
          BY <3>4, <3>5, <4>2 DEF Wanted
        <5>2. ~Precedes(m, p, s)
          BY <2>1, <3>1, <3>2, <3>3, <3>6, <5>1
            DEF Better, Precedes, SCHED_FCFS, SCHED_PRIORITY
        <5> QED
          BY <3>1, <3>5, <4>2, <5>2
      <4> QED
        BY <3>1, <4>1, <4>2
    <3> QED
      BY <3>1, <3>7 DEF Precedes
  <2> QED
    BY <1>5, <1>6, <2>2, <2>3, <2>4
<1>7. CandidateIsBest'
  BY <1>6 DEF CandidateIsBest
<1>8. (\A c \in CPU : cpu[c].pc = "scan" /\ cpu[c].policy # SCHED_ROUND_ROBIN =>
         \A p \in since[c] : proc[p].state = "RUNNABLE")'
  BY <1>5
<1> QED
  BY <1>3, <1>4, <1>7, <1>8 DEF ScanInv

\* The candidate of an FCFS or priority scan is at least as good as every
\* process that scheduler() has passed in the table and that has been RUNNABLE
\* with the same priority since the scan began, and there is a candidate if
\* there is such a process, for any number of CPUs that scan, wake, fork, exit
\* and call setpriority() and setscheduler() meanwhile.
THEOREM CandidatesAreBest == ScanSpec => []CandidateIsBest
<1>1. ScanInit => ScanInv /\ Init
  <2> SUFFICES ASSUME ScanInit PROVE ScanInv /\ Init
    OBVIOUS
  <2>1. \A c \in CPU : cpu[c].pc = "top" /\ cpu[c].i = 0
    BY DEF ScanInit, Init, IdleCpu
  <2> QED
    BY <2>1 DEF ScanInit, ScanInv, TopInv, CandidateIsBest
<1>2. SchedInv /\ ScanInv /\ [ScanNext]_ScanVars => ScanInv'
  <2> SUFFICES ASSUME SchedInv, ScanInv, [ScanNext]_ScanVars PROVE ScanInv'
    OBVIOUS
  <2>1. CASE UNCHANGED ScanVars
    BY <2>1 DEF ScanVars, vars, ScanInv, TopInv, CandidateIsBest, Precedes
  <2> QED
    BY <2>1, ScanStep
<1>3. [ScanNext]_ScanVars => [Next]_vars
  BY DEF ScanNext, ScanVars
<1>4. ScanInv => CandidateIsBest
  BY DEF ScanInv
<1> QED
  BY <1>1, <1>2, <1>3, <1>4, InitInv, InvStep, PTL DEF ScanSpec

-----------------------------------------------------------------------------
(* Round robin                                                             *)

LEMMA RoundRobinStep ==
  ASSUME Policies \subseteq {SCHED_ROUND_ROBIN}, RoundRobin, Moved, Next
  PROVE  RoundRobin'
<1>1. sched_mode' = SCHED_ROUND_ROBIN
  BY DEF RoundRobin, Next, ClockIntr, Yield, YieldFCFS, Wakeup, Scheduler, Top, ScanEnd,
    RRDispatch, Dispatch, Skip, Keep, Pick, Resume, Back, SysCall, Sleep, Exit, ForkStart,
    ForkAlloc, Reap, SetPriority, SetScheduler
<1>2. ASSUME NEW c \in CPU PROVE cpu'[c].policy = SCHED_ROUND_ROBIN
  BY <1>2 DEF RoundRobin, Moved, ScanMove, SameScan, Starts, Passes, Takes, Ends, Runs, Leaves,
    GoesOn, IdleCpu
<1> QED
  BY <1>1, <1>2 DEF RoundRobin

\* No CPU passes a process that waits: it would run it.
LEMMA StaysBetween ==
  ASSUME SchedInv, RoundRobin, Moved, NEW p \in Slot, NEW q \in Slot, p # q,
         proc[p].state = "RUNNABLE", proc'[p].state = "RUNNABLE"
  PROVE  Between(p, q) \subseteq Between(p, q)'
<1> SUFFICES ASSUME NEW c \in Between(p, q)
             PROVE  c \in Between(p, q)'
  OBVIOUS
<1>1. /\ c \in CPU /\ cpu[c].i \in 0..NPROC /\ NPROC \in Nat
      /\ cpu[c].pc \in {"top", "scan", "resume", "run", "back"}
      /\ cpu[c].policy = SCHED_ROUND_ROBIN /\ cpu[c].cand = None
      /\ p \in 0..(NPROC - 1) /\ q \in 0..(NPROC - 1)
  BY SchedAssumption DEF Between, SchedInv, TypeOK, CpuRec, RoundRobin, CandInv, Slot
<1>2. IF q < p THEN After(c, q) /\ UpTo(c, p) ELSE After(c, q) \/ UpTo(c, p)
  BY DEF Between
<1>3. \/ (After(c, q) => After(c, q)') /\ (UpTo(c, p) => UpTo(c, p)')
      \/ p < q /\ UpTo(c, p)'
  <2>1. ScanMove(c)
    BY <1>1 DEF Moved
  <2>2. CASE SameScan(c)
    BY <2>2 DEF SameScan, After, UpTo
  <2>3. CASE Starts(c)
    BY <2>3 DEF Starts, After, UpTo
  <2>4. CASE Passes(c)
    <3>1. cpu[c].i # p
      BY <1>1, <2>4 DEF Passes, Wanted
    <3> QED
      BY <1>1, <2>4, <3>1 DEF Passes, After, UpTo
  <2>5. CASE Takes(c)
    BY <1>1, <2>5 DEF Takes
  <2>6. CASE Ends(c)
    <3>1. cpu[c].i = NPROC /\ cpu[c].pc = "scan" /\ cpu'[c].i = 0 /\ cpu'[c].pc = "top"
      BY <1>1, <2>6 DEF Ends, IdleCpu
    <3>2. ~UpTo(c, p)
      BY <1>1, <3>1 DEF UpTo
    <3>3. UpTo(c, p)'
      BY <1>1, <3>1 DEF UpTo
    <3> QED
      BY <1>1, <1>2, <3>2, <3>3
  <2>7. ASSUME NEW r \in Slot, Runs(c, r)
        PROVE  (After(c, q) => After(c, q)') /\ (UpTo(c, p) => UpTo(c, p)')
    <3>1. r # p /\ r = cpu[c].i
      BY <1>1, <2>7 DEF Runs, SchedInv, TypeOK, ProcRec
    <3> QED
      BY <1>1, <2>7, <3>1 DEF Runs, After, UpTo
  <2>8. CASE Leaves(c)
    BY <1>1, <2>8 DEF Leaves, After, UpTo
  <2>9. CASE GoesOn(c)
    BY <1>1, <2>9 DEF GoesOn, After, UpTo
  <2> QED
    BY <2>1, <2>2, <2>3, <2>4, <2>5, <2>6, <2>7, <2>8, <2>9 DEF ScanMove
<1>4. IF q < p THEN After(c, q)' /\ UpTo(c, p)' ELSE After(c, q)' \/ UpTo(c, p)'
  BY <1>1, <1>2, <1>3
<1> QED
  BY <1>1, <1>4 DEF Between

\* A CPU that gives q a turn comes from before q and is past it afterwards.
LEMMA ComesBetween ==
  ASSUME SchedInv, RoundRobin, NEW c \in CPU, NEW p \in Slot, NEW q \in Slot, p # q,
         Runs(c, q)
  PROVE  c \notin Between(p, q) /\ c \in Between(p, q)'
<1>1. /\ cpu[c].i = q /\ cpu[c].pc = "scan" /\ cpu'[c].i = q /\ cpu'[c].pc = "resume"
      /\ p \in Int /\ q \in Int
  BY SchedAssumption DEF Runs, RoundRobin, Slot
<1>2. ~After(c, q) /\ (p < q => ~UpTo(c, p))
  BY <1>1 DEF After, UpTo
<1>3. After(c, q)' /\ (q < p => UpTo(c, p)')
  BY <1>1 DEF After, UpTo
<1> QED
  BY <1>1, <1>2, <1>3 DEF Between

LEMMA BetweenFinite ==
  ASSUME NEW p, NEW q
  PROVE  /\ IsFiniteSet(Between(p, q)) /\ Cardinality(Between(p, q)) \in Nat
         /\ Cardinality(Between(p, q)) <= NCPU
<1>1. IsFiniteSet(CPU) /\ Cardinality(CPU) = NCPU
  BY SchedAssumption, FS_Interval DEF CPU
<1>2. Between(p, q) \subseteq CPU
  BY DEF Between
<1> QED
  BY <1>1, <1>2, FS_Subset, FS_CardinalityType

LEMMA RRStep ==
  ASSUME Policies \subseteq {SCHED_ROUND_ROBIN}, SchedInv, RRInv, RRNext
  PROVE  RRInv'
<1>1. /\ Next /\ Moved /\ TopInv /\ RoundRobin /\ passed \in [Slot -> [Slot -> Nat]]
      /\ passed' = [p \in Slot |-> [q \in Slot |-> Passed(p, q)]]
  BY NextMoves DEF RRInv, RRNext
<1>2. TopInv' /\ RoundRobin'
  BY <1>1, TopStep, RoundRobinStep
<1>3. ASSUME NEW p \in Slot, NEW q \in Slot PROVE passed'[p][q] = Passed(p, q) /\ Passed(p, q) \in Nat
  BY <1>1 DEF Passed
<1>4. passed' \in [Slot -> [Slot -> Nat]]
  BY <1>1, <1>3
<1>5. ASSUME NEW p \in Slot, NEW q \in Slot, Dispatched(q)
      PROVE  \E c \in CPU : /\ Runs(c, q) /\ proc'[q].state = "RUNNING"
                            /\ p # q => proc'[p].state = proc[p].state
  <2>1. PICK c \in CPU : Runs(c, q)
    BY <1>1, <1>5 DEF Moved, TurnsGiven
  <2>2. proc'[q].state = "RUNNING" /\ (p # q => proc'[p].state = proc[p].state)
    BY <2>1 DEF Runs, SchedInv, TypeOK, ProcRec
  <2> QED
    BY <2>1, <2>2
<1>6. ASSUME NEW p \in Slot, NEW q \in Slot
      PROVE  /\ proc'[p].state # "RUNNABLE" => passed'[p][q] = 0
             /\ passed'[p][p] = 0
             /\ p # q => passed'[p][q] <= Cardinality(Between(p, q)')
  <2>1. proc'[p].state # "RUNNABLE" => passed'[p][q] = 0
    BY <1>3 DEF Passed
  <2>2. passed'[p][p] = 0
    BY <1>3, <1>5 DEF Passed, RRInv
  <2>3. ASSUME p # q PROVE passed'[p][q] <= Cardinality(Between(p, q)')
    <3>1. /\ IsFiniteSet(Between(p, q)) /\ Cardinality(Between(p, q)) \in Nat
          /\ passed[p][q] \in Nat /\ passed[p][q] <= Cardinality(Between(p, q))
      BY <1>1, <2>3, BetweenFinite DEF RRInv
    <3>2. IsFiniteSet(CPU) /\ Between(p, q)' \subseteq CPU
      BY SchedAssumption, FS_Interval DEF CPU, Between
    <3>3. IsFiniteSet(Between(p, q)') /\ Cardinality(Between(p, q)') \in Nat
      BY <3>2, FS_Subset, FS_CardinalityType
    <3>4. CASE proc'[p].state # "RUNNABLE"
      BY <2>1, <3>3, <3>4
    <3>5. CASE proc'[p].state = "RUNNABLE" /\ proc[p].state # "RUNNABLE"
      <4>1. ~Dispatched(q)
        BY <1>5, <2>3, <3>5
      <4>2. passed'[p][q] = 0
        BY <1>3, <3>5, <4>1 DEF Passed, RRInv
      <4> QED
        BY <3>3, <4>2
    <3>6. CASE proc'[p].state = "RUNNABLE" /\ proc[p].state = "RUNNABLE"
      <4>1. Between(p, q) \subseteq Between(p, q)'
        BY <1>1, <2>3, <3>6, StaysBetween
      <4>2. CASE Dispatched(q)
        <5>1. PICK c \in CPU : Runs(c, q)
          BY <1>5, <4>2
        <5>2. c \notin Between(p, q) /\ c \in Between(p, q)'
          BY <1>1, <2>3, <5>1, ComesBetween
        <5>3. Cardinality(Between(p, q) \cup {c}) = Cardinality(Between(p, q)) + 1
          BY <3>1, <5>2, FS_AddElement
        <5>4. Cardinality(Between(p, q) \cup {c}) <= Cardinality(Between(p, q)')
          <6>1. Between(p, q) \cup {c} \in SUBSET (Between(p, q)')
            BY <4>1, <5>2
          <6> QED
            BY <3>3, <6>1, FS_Subset
        <5>5. passed'[p][q] <= passed[p][q] + 1
          BY <1>3, <3>1, <3>6 DEF Passed
        <5>6. passed'[p][q] \in Nat
          BY <1>3
        <5> QED
          BY <3>1, <3>3, <5>3, <5>4, <5>5, <5>6
      <4>3. CASE ~Dispatched(q)
        <5>1. passed'[p][q] = passed[p][q]
          BY <1>3, <3>6, <4>3 DEF Passed
        <5>2. Cardinality(Between(p, q)) <= Cardinality(Between(p, q)')
          BY <3>3, <4>1, FS_Subset
        <5> QED
          BY <3>1, <3>3, <5>1, <5>2
      <4> QED
        BY <4>2, <4>3
    <3> QED
      BY <3>4, <3>5, <3>6
  <2> QED
    BY <2>1, <2>2, <2>3
<1> QED
  BY <1>2, <1>4, <1>6 DEF RRInv

\* While only round robin is chosen, no process is given a CPU more than NCPU
\* times while another one waits in state RUNNABLE: scheduler() on each CPU
\* meets the waiting process before it comes back to the same slot.
THEOREM BypassIsBounded ==
  ASSUME Policies \subseteq {SCHED_ROUND_ROBIN}
  PROVE  RRSpec => []BoundedBypass
<1>1. RRInit => RRInv /\ Init
  <2> SUFFICES ASSUME RRInit PROVE RRInv /\ Init
    OBVIOUS
  <2>1. TopInv /\ RoundRobin
    BY DEF RRInit, Init, IdleCpu, TopInv, RoundRobin
  <2>2. passed \in [Slot -> [Slot -> Nat]] /\ \A p, q \in Slot : passed[p][q] = 0
    BY DEF RRInit
  <2>3. \A p, q \in Slot : passed[p][q] <= Cardinality(Between(p, q))
    BY <2>2, BetweenFinite
  <2> QED
    BY <2>1, <2>2, <2>3 DEF RRInit, RRInv
<1>2. SchedInv /\ RRInv /\ [RRNext]_RRVars => RRInv'
  <2> SUFFICES ASSUME SchedInv, RRInv, [RRNext]_RRVars PROVE RRInv'
    OBVIOUS
  <2>1. CASE UNCHANGED RRVars
    BY <2>1 DEF RRVars, vars, RRInv, TopInv, RoundRobin, Between, After, UpTo
  <2> QED
    BY <2>1, RRStep
<1>3. [RRNext]_RRVars => [Next]_vars
  BY DEF RRNext, RRVars
<1>4. RRInv => BoundedBypass
  <2> SUFFICES ASSUME RRInv, NEW p \in Slot, NEW q \in Slot
               PROVE  passed[p][q] <= NCPU
    BY DEF BoundedBypass
  <2>1. /\ passed[p][q] \in Nat
        /\ p # q => passed[p][q] <= Cardinality(Between(p, q))
        /\ p = q => passed[p][q] = 0
    BY DEF RRInv
  <2> QED
    BY <2>1, BetweenFinite, SchedAssumption
<1> QED
  BY <1>1, <1>2, <1>3, <1>4, InitInv, InvStep, PTL DEF RRSpec

=============================================================================
