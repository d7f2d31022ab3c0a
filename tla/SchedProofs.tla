---------------------------- MODULE SchedProofs ----------------------------
(***************************************************************************)
(* Proofs of the safety properties of module Sched, for any number of      *)
(* processes and CPUs, any priorities and any sequence of policies.        *)
(*                                                                         *)
(* None of the properties is inductive by itself.  The invariant SchedInv  *)
(* adds to them where each process lock is held: by a scan that keeps a    *)
(* candidate and on the two sides of swtch(), and nowhere else.            *)
(***************************************************************************)
EXTENDS Sched, TLAPS

\* CPU c holds p->lock: p is the candidate of its scan or is being switched.
HoldsLock(c, p) ==
  \/ cpu[c].pc = "scan" /\ cpu[c].cand = p
  \/ cpu[c].pc \in {"resume", "back"} /\ cpu[c].proc = p

LockInv ==
  \A c \in CPU, p \in Slot : plock[p] = c <=> HoldsLock(c, p)

\* What the place of a CPU says about the CPU and its process.
CpuInv ==
  \A c \in CPU :
    /\ cpu[c].proc # None <=> cpu[c].pc \in {"resume", "run", "back"}
    /\ cpu[c].pc \in {"resume", "run"} => proc[cpu[c].proc].state = "RUNNING"
    /\ cpu[c].pc = "back" =>
         proc[cpu[c].proc].state \in {"RUNNABLE", "SLEEPING", "ZOMBIE"}
    /\ cpu[c].proc # None /\ cpu[c].policy = SCHED_ROUND_ROBIN =>
         cpu[c].i < NPROC

\* What is known of the candidate of a scan.
CandInv ==
  \A c \in CPU : cpu[c].cand # None =>
    /\ cpu[c].pc = "scan"
    /\ cpu[c].policy # SCHED_ROUND_ROBIN
    /\ cpu[c].cand < cpu[c].i
    /\ proc[cpu[c].cand].state = "RUNNABLE"

\* Whoever is RUNNING is on a CPU.
RunInv ==
  \A p \in Slot : proc[p].state = "RUNNING" =>
    \E c \in CPU : cpu[c].proc = p /\ cpu[c].pc \in {"resume", "run"}

SchedInv ==
  TypeOK /\ LockInv /\ CpuInv /\ CandInv /\ RunInv /\ OneCpu /\ ChildUsed

-----------------------------------------------------------------------------
\* The kernel boots in a state that satisfies the invariant.
LEMMA InitInv == Init => SchedInv
<1> SUFFICES ASSUME Init PROVE SchedInv
  OBVIOUS
<1> USE SchedAssumption DEF Init, None, IdleCpu, SCHED_ROUND_ROBIN
<1>1. TypeOK
  <2>1. UnusedProc \in ProcRec
    BY DEF UnusedProc, ProcRec, ProcState
  <2>2. [UnusedProc EXCEPT !.state = "RUNNABLE", !.priority = DefaultPriority]
          \in ProcRec
    BY DEF UnusedProc, ProcRec, ProcState
  <2>3. IdleCpu \in CpuRec
    BY DEF CpuRec
  <2> QED
    BY <2>1, <2>2, <2>3 DEF TypeOK
<1>2. \A p \in Slot : /\ proc[p].state \in {"UNUSED", "RUNNABLE"}
                      /\ proc[p].child = None
  BY DEF UnusedProc
<1>3. LockInv /\ CpuInv /\ CandInv /\ OneCpu
  <2>1. \A c \in CPU : /\ cpu[c].proc = None /\ cpu[c].cand = None
                       /\ cpu[c].pc = "top"
    OBVIOUS
  <2>2. \A c \in CPU, p \in Slot : plock[p] # c
    BY DEF CPU
  <2> QED
    BY <2>1, <2>2 DEF LockInv, HoldsLock, CpuInv, CandInv, OneCpu
<1>4. RunInv /\ ChildUsed
  BY <1>2 DEF RunInv, ChildUsed
<1> QED
  BY <1>1, <1>3, <1>4 DEF SchedInv

\* Every step of the kernel preserves the types.
LEMMA TypeStep == SchedInv /\ [Next]_vars => TypeOK'
<1> SUFFICES ASSUME SchedInv, [Next]_vars PROVE TypeOK'
  OBVIOUS
<1> USE SchedAssumption DEF SchedInv, TypeOK
<1>1. ASSUME NEW c \in CPU, Scheduler(c) PROVE TypeOK'
  <2>1. CASE Top(c)
    <3>1. [cpu[c] EXCEPT !.pc = "scan", !.policy = sched_mode] \in CpuRec
      BY DEF CpuRec
    <3> QED
      BY <2>1, <3>1 DEF Top
  <2>2. CASE ScanEnd(c)
    <3>1. IdleCpu \in CpuRec
      BY DEF IdleCpu, None, SCHED_ROUND_ROBIN, CpuRec
    <3> QED
      BY <2>2, <3>1 DEF ScanEnd
  <2>3. ASSUME NEW p \in Slot, Dispatch(c, p) PROVE TypeOK'
    <3>1. [cpu[c] EXCEPT !.proc = p, !.pc = "resume", !.cand = None] \in CpuRec
      BY DEF CpuRec
    <3>2. [proc[p] EXCEPT !.state = "RUNNING"] \in ProcRec
      BY DEF ProcRec, ProcState
    <3> QED
      BY <2>3, <3>1, <3>2 DEF Dispatch
  <2>4. cpu[c] \in CpuRec
    OBVIOUS
  <2>5. CASE RRDispatch(c)
    <3>1. cpu[c].i \in Slot
      BY <2>4, <2>5 DEF RRDispatch, AtSlot, Slot, CpuRec
    <3> QED
      BY <2>3, <2>5, <3>1 DEF RRDispatch
  <2>6. CASE Pick(c)
    <3>1. cpu[c].cand \in Slot
      BY <2>4, <2>6 DEF Pick, CpuRec
    <3> QED
      BY <2>3, <2>6, <3>1 DEF Pick
  <2>7. CASE Skip(c)
    <3>1. cpu[c].i + 1 \in 0..NPROC
      BY <2>4, <2>7 DEF Skip, AtSlot, CpuRec
    <3>2. [cpu[c] EXCEPT !.i = cpu[c].i + 1] \in CpuRec
      BY <2>4, <3>1 DEF CpuRec
    <3> QED
      BY <2>7, <3>2 DEF Skip
  <2>8. CASE Keep(c)
    <3>1. [cpu[c] EXCEPT !.cand = cpu[c].i, !.i = cpu[c].i + 1] \in CpuRec
      <4>1. cpu[c].i \in Slot /\ cpu[c].i + 1 \in 0..NPROC
        BY <2>4, <2>8 DEF Keep, AtSlot, Slot, CpuRec
      <4> QED
        BY <2>4, <4>1 DEF CpuRec
    <3>2. plock' \in [Slot -> CPU \cup {None}]
      BY <2>8 DEF Keep, KeepLocks
    <3> QED
      BY <2>8, <3>1, <3>2 DEF Keep
  <2>9. CASE Resume(c)
    <3>1. [cpu[c] EXCEPT !.pc = "run"] \in CpuRec
      BY DEF CpuRec
    <3> QED
      BY <2>9, <3>1 DEF Resume
  <2>10. CASE Back(c)
    <3>1. cpu' \in [CPU -> CpuRec]
      <4>1. CASE cpu[c].policy = SCHED_ROUND_ROBIN
        <5>1. cpu[c].i + 1 \in 0..NPROC
          BY <2>4, <2>10, <4>1 DEF Back, CpuInv, CpuRec
        <5>2. [cpu[c] EXCEPT !.proc = None, !.pc = "scan", !.i = cpu[c].i + 1]
                \in CpuRec
          BY <2>4, <5>1 DEF CpuRec
        <5> QED
          BY <2>10, <4>1, <5>2 DEF Back
      <4>2. CASE cpu[c].policy # SCHED_ROUND_ROBIN
        <5>1. IdleCpu \in CpuRec
          BY DEF IdleCpu, None, SCHED_ROUND_ROBIN, CpuRec
        <5> QED
          BY <2>10, <4>2, <5>1 DEF Back
      <4> QED
        BY <4>1, <4>2
    <3> QED
      BY <2>10, <3>1 DEF Back
  <2> QED
    BY <1>1, <2>1, <2>2, <2>5, <2>6, <2>7, <2>8, <2>9, <2>10 DEF Scheduler
<1>2. ASSUME NEW c \in CPU, Yield(c) \/ YieldFCFS(c) \/ Sleep(c) \/ Exit(c)
      PROVE  TypeOK'
  <2>1. ASSUME NEW st \in ProcState, SwitchOut(c),
               proc' = [proc EXCEPT ![cpu[c].proc].state = st],
               UNCHANGED <<ticks, sched_mode>>
        PROVE  TypeOK'
    <3>1. [cpu[c] EXCEPT !.pc = "back", !.resched = FALSE] \in CpuRec
      BY DEF CpuRec
    <3>2. \A p \in Slot : [proc[p] EXCEPT !.state = st] \in ProcRec
      BY DEF ProcRec
    <3> QED
      BY <2>1, <3>1, <3>2 DEF SwitchOut
  <2>2. CASE Yield(c)
    BY <2>1, <2>2 DEF Yield, MakeRunnable, ProcState
  <2>3. CASE Sleep(c)
    BY <2>1, <2>3 DEF Sleep, ProcState
  <2>4. CASE Exit(c)
    BY <2>1, <2>4 DEF Exit, ProcState
  <2>5. CASE YieldFCFS(c)
    <3>1. [cpu[c] EXCEPT !.resched = FALSE] \in CpuRec
      BY DEF CpuRec
    <3> QED
      BY <2>5, <3>1 DEF YieldFCFS
  <2> QED
    BY <1>2, <2>2, <2>3, <2>4, <2>5
<1>3. ASSUME NEW c \in CPU, NEW p \in Slot,
             Wakeup(c, p) \/ ForkAlloc(c, p) \/ Reap(c, p)
      PROVE  TypeOK'
  <2>1. CASE Wakeup(c, p)
    <3>1. [proc[p] EXCEPT !.state = "RUNNABLE"] \in ProcRec
      BY DEF ProcRec, ProcState
    <3> QED
      BY <2>1, <3>1 DEF Wakeup, MakeRunnable
  <2>2. CASE ForkAlloc(c, p)
    <3> DEFINE r == [proc[p] EXCEPT !.state = "USED", !.creation_time = ticks,
                                    !.priority = DefaultPriority]
               t == [proc EXCEPT ![p] = r]
    <3>1. t \in [Slot -> ProcRec]
      BY DEF ProcRec, ProcState
    <3>2. proc' = [t EXCEPT ![cpu[c].proc].child = p]
      BY <2>2 DEF ForkAlloc
    <3>3. proc' \in [Slot -> ProcRec]
      <4> HIDE DEF t
      <4> QED
        BY <3>1, <3>2 DEF ProcRec
    <3> QED
      BY <2>2, <3>3 DEF ForkAlloc
  <2>3. CASE Reap(c, p)
    <3>1. [proc[p] EXCEPT !.state = "UNUSED", !.creation_time = ticks] \in ProcRec
      BY DEF ProcRec, ProcState
    <3> QED
      BY <2>3, <3>1 DEF Reap
  <2> QED
    BY <1>3, <2>1, <2>2, <2>3
<1>4. ASSUME NEW c \in CPU, ForkStart(c) PROVE TypeOK'
  <2> DEFINE p == cpu[c].proc
             t == [proc EXCEPT ![proc[p].child].state = "RUNNABLE"]
  <2>1. t \in [Slot -> ProcRec]
    <3> HIDE DEF p
    <3> QED
      BY DEF ProcRec, ProcState
  <2>2. proc' = [t EXCEPT ![p].child = None]
    BY <1>4 DEF ForkStart, MakeRunnable
  <2>3. proc' \in [Slot -> ProcRec]
    <3> HIDE DEF t, p
    <3> QED
      BY <2>1, <2>2 DEF ProcRec
  <2> QED
    BY <1>4, <2>3 DEF ForkStart
<1>5. ASSUME NEW c \in CPU, NEW p \in Slot, NEW v \in Priorities,
             SetPriority(c, p, v)
      PROVE  TypeOK'
  <2>1. [proc[p] EXCEPT !.priority = v] \in ProcRec
    BY DEF ProcRec
  <2>2. [cpu[c] EXCEPT !.resched = (sched_mode = SCHED_PRIORITY)] \in CpuRec
    BY DEF CpuRec
  <2> QED
    BY <1>5, <2>1, <2>2 DEF SetPriority
<1>6. ASSUME NEW c \in CPU, NEW m \in Policies, SetScheduler(c, m)
      PROVE  TypeOK'
  <2>1. [cpu[c] EXCEPT !.resched = TRUE] \in CpuRec
    BY DEF CpuRec
  <2> QED
    BY <1>6, <2>1 DEF SetScheduler
<1>7. CASE ClockIntr
  <2>1. 0 \in CPU
    BY DEF CPU
  <2>2. [cpu[0] EXCEPT !.resched = (cpu[0].proc # None)] \in CpuRec
    BY <2>1 DEF CpuRec
  <2> QED
    BY <1>7, <2>1, <2>2 DEF ClockIntr
<1>8. CASE UNCHANGED vars
  BY <1>8 DEF vars
<1> QED
  BY <1>1, <1>2, <1>3, <1>4, <1>5, <1>6, <1>7, <1>8 DEF Next, SysCall

\* Process states, children, locks and CPUs.  The conjuncts of the invariant other than the types.
Rest == LockInv /\ CpuInv /\ CandInv /\ RunInv /\ OneCpu /\ ChildUsed

\* A process is switched to with its lock held (both uses in scheduler()).
LEMMA DispatchStep ==
  ASSUME SchedInv, NEW c \in CPU, NEW p \in Slot, Dispatch(c, p),
         cpu[c].pc = "scan", proc[p].state = "RUNNABLE",
         plock[p] \in {None, c}, \A q \in Slot : plock[q] = c => q = p,
         cpu[c].policy = SCHED_ROUND_ROBIN => cpu[c].i < NPROC
  PROVE  Rest'
<1>1. /\ cpu'[c].proc = p /\ cpu'[c].pc = "resume" /\ cpu'[c].cand = None
      /\ cpu'[c].policy = cpu[c].policy /\ cpu'[c].i = cpu[c].i
      /\ \A d \in CPU : d # c => cpu'[d] = cpu[d]
  BY DEF SchedInv, TypeOK, Dispatch, CpuRec
<1>2. /\ proc'[p].state = "RUNNING"
      /\ \A q \in Slot : /\ proc'[q].child = proc[q].child
                         /\ q # p => proc'[q].state = proc[q].state
  BY DEF SchedInv, TypeOK, Dispatch, ProcRec
<1>3. plock'[p] = c /\ \A q \in Slot : q # p => plock'[q] = plock[q]
  BY DEF SchedInv, TypeOK, Dispatch
<1>4. \A d \in CPU : cpu[d].proc \in Slot \cup {None} /\ cpu[d].cand \in Slot \cup {None}
  BY DEF SchedInv, TypeOK, CpuRec
<1>5. \A d \in CPU : cpu[d].proc # p /\ (d # c => cpu[d].cand # p)
  BY DEF SchedInv, LockInv, HoldsLock, CpuInv, CandInv, None, Slot, CPU
<1>6. c # None /\ p # None
  BY DEF None, Slot, CPU
<1>7. LockInv'
  BY <1>1, <1>3, <1>5, <1>6 DEF SchedInv, LockInv, HoldsLock, CandInv
<1>8. CpuInv'
  BY <1>1, <1>2, <1>4, <1>5, <1>6 DEF SchedInv, CpuInv
<1>9. CandInv'
  BY <1>1, <1>2, <1>4, <1>5 DEF SchedInv, CandInv
<1>10. RunInv'
  BY <1>1, <1>2, <1>5 DEF SchedInv, RunInv
<1>11. OneCpu'
  BY <1>1, <1>5 DEF SchedInv, OneCpu
<1>12. ChildUsed'
  BY <1>2 DEF SchedInv, ChildUsed, TypeOK, ProcRec
<1> QED
  BY <1>7, <1>8, <1>9, <1>10, <1>11, <1>12 DEF Rest

\* A process leaves its CPU with its lock held (sched()).
LEMMA SwitchOutStep ==
  ASSUME SchedInv, NEW c \in CPU, SwitchOut(c), cpu[c].pc = "run",
         NEW st \in {"RUNNABLE", "SLEEPING", "ZOMBIE"},
         proc' = [proc EXCEPT ![cpu[c].proc].state = st]
  PROVE  Rest'
<1> DEFINE p == cpu[c].proc
<1>0. p \in Slot /\ p # None /\ c # None /\ plock[p] = None
  BY DEF SchedInv, TypeOK, CpuRec, CpuInv, SwitchOut, Free, None, Slot, CPU
<1>1. /\ cpu'[c].proc = p /\ cpu'[c].pc = "back" /\ cpu'[c].cand = cpu[c].cand
      /\ cpu'[c].policy = cpu[c].policy /\ cpu'[c].i = cpu[c].i
      /\ \A d \in CPU : d # c => cpu'[d] = cpu[d]
  BY DEF SchedInv, TypeOK, SwitchOut, CpuRec
<1>2. /\ proc'[p].state = st
      /\ \A q \in Slot : /\ proc'[q].child = proc[q].child
                         /\ q # p => proc'[q].state = proc[q].state
  BY <1>0 DEF SchedInv, TypeOK, ProcRec
<1>3. plock'[p] = c /\ \A q \in Slot : q # p => plock'[q] = plock[q]
  BY <1>0 DEF SchedInv, TypeOK, SwitchOut
<1>4. \A d \in CPU : cpu[d].proc \in Slot \cup {None} /\ cpu[d].cand \in Slot \cup {None}
  BY DEF SchedInv, TypeOK, CpuRec
<1>5. proc[p].state = "RUNNING"
  BY DEF SchedInv, CpuInv
<1>6. \A d \in CPU : cpu[d].cand # p /\ (d # c => cpu[d].proc # p)
  BY <1>0, <1>5 DEF SchedInv, CandInv, OneCpu
<1> HIDE DEF p
<1>7. LockInv'
  BY <1>0, <1>1, <1>3, <1>4, <1>6 DEF SchedInv, LockInv, HoldsLock, CandInv, None, p
<1>8. CpuInv'
  BY <1>0, <1>1, <1>2, <1>4, <1>6 DEF SchedInv, CpuInv, p
<1>9. CandInv'
  BY <1>0, <1>1, <1>2, <1>4, <1>6 DEF SchedInv, CandInv, p
<1>10. RunInv'
  BY <1>0, <1>1, <1>2, <1>6 DEF SchedInv, RunInv, p
<1>11. OneCpu'
  BY <1>1 DEF SchedInv, OneCpu, p
<1>12. ChildUsed'
  BY <1>0, <1>2, <1>5 DEF SchedInv, ChildUsed, TypeOK, ProcRec
<1> QED
  BY <1>7, <1>8, <1>9, <1>10, <1>11, <1>12 DEF Rest

\* A CPU moves on in its scan, or only asks its process to yield(): no lock
\* and no process state changes.
LEMMA QuietStep ==
  ASSUME SchedInv, NEW c \in CPU, UNCHANGED plock,
         \A q \in Slot : /\ proc'[q].state = proc[q].state
                         /\ proc'[q].child = proc[q].child,
         \A d \in CPU : d # c => cpu'[d] = cpu[d],
         cpu'[c].proc = cpu[c].proc, cpu'[c].cand = cpu[c].cand,
         \/ /\ cpu'[c].pc = cpu[c].pc /\ cpu'[c].policy = cpu[c].policy
            /\ cpu'[c].i = cpu[c].i
         \/ /\ cpu[c].pc \in {"top", "scan"} /\ cpu'[c].pc \in {"top", "scan"}
            /\ cpu[c].cand # None => /\ cpu'[c].pc = cpu[c].pc
                                     /\ cpu'[c].policy = cpu[c].policy
                                     /\ cpu'[c].i = cpu[c].i + 1
  PROVE  Rest'
<1>1. /\ \A d \in CPU : /\ cpu[d].proc \in Slot \cup {None}
                        /\ cpu[d].cand \in Slot \cup {None}
                        /\ cpu[d].i \in 0..NPROC
      /\ \A q \in Slot : proc[q].child \in Slot \cup {None}
  BY DEF SchedInv, TypeOK, CpuRec, ProcRec
<1>2. LockInv'
  BY <1>1 DEF SchedInv, LockInv, HoldsLock, CandInv, None, Slot
<1>3. CpuInv'
  BY <1>1 DEF SchedInv, CpuInv
<1>4. CandInv'
  <2>1. \A d \in CPU : cpu[d].cand # None => cpu[d].cand \in Slot /\ cpu[d].cand \in Int
    BY <1>1 DEF Slot
  <2> QED
    BY <1>1, <2>1 DEF SchedInv, CandInv
<1>5. RunInv'
  BY DEF SchedInv, RunInv
<1>6. OneCpu'
  BY DEF SchedInv, OneCpu
<1>7. ChildUsed'
  BY <1>1 DEF SchedInv, ChildUsed
<1> QED
  BY <1>2, <1>3, <1>4, <1>5, <1>6, <1>7 DEF Rest

\* The scan of a CPU finds a new candidate.
LEMMA KeepStep == ASSUME SchedInv, NEW c \in CPU, Keep(c) PROVE Rest'
<1> DEFINE p == cpu[c].i
<1>1. /\ \A d \in CPU : /\ cpu[d].proc \in Slot \cup {None}
                        /\ cpu[d].cand \in Slot \cup {None}
                        /\ cpu[d].i \in 0..NPROC
  BY DEF SchedInv, TypeOK, CpuRec
<1>2. p \in Slot /\ p # None /\ c # None /\ p < p + 1
  BY <1>1, SchedAssumption DEF Keep, AtSlot, Slot, CPU, None
<1>3. /\ cpu'[c].proc = cpu[c].proc /\ cpu'[c].pc = "scan"
      /\ cpu'[c].cand = p /\ cpu'[c].policy = cpu[c].policy
      /\ cpu'[c].i = p + 1
      /\ \A d \in CPU : d # c => cpu'[d] = cpu[d]
  BY DEF SchedInv, TypeOK, Keep, AtSlot, CpuRec
<1>4. /\ plock[p] = None /\ proc[p].state = "RUNNABLE" /\ cpu[c].pc = "scan"
      /\ cpu[c].policy # SCHED_ROUND_ROBIN
      /\ UNCHANGED proc
  BY DEF Keep, AtSlot, Free, Wanted
<1>5. /\ plock'[p] = c
      /\ \A q \in Slot : q # p => plock'[q] = IF q = cpu[c].cand THEN None
                                              ELSE plock[q]
  BY <1>2 DEF Keep, KeepLocks
<1>6. \A d \in CPU : d # None /\ ~HoldsLock(d, p)
  BY <1>2, <1>4 DEF SchedInv, LockInv, CPU, None
<1>7. cpu[c].cand # None =>
        \A d \in CPU : d # c => ~HoldsLock(d, cpu[c].cand)
  BY <1>1, <1>4 DEF SchedInv, LockInv, HoldsLock
<1> HIDE DEF p
<1>8. LockInv'
  <2> SUFFICES ASSUME NEW d \in CPU, NEW q \in Slot
               PROVE  plock'[q] = d <=> HoldsLock(d, q)'
    BY DEF LockInv
  <2>1. CASE d = c
    BY <1>2, <1>3, <1>4, <1>5, <1>6, <2>1 DEF SchedInv, LockInv, HoldsLock
  <2>2. CASE d # c
    <3>1. HoldsLock(d, q)' <=> HoldsLock(d, q)
      BY <1>3, <2>2 DEF HoldsLock
    <3> QED
      BY <1>1, <1>2, <1>5, <1>6, <1>7, <2>2, <3>1 DEF SchedInv, LockInv, None, Slot
  <2> QED
    BY <2>1, <2>2
<1>9. CpuInv'
  BY <1>1, <1>3, <1>4 DEF SchedInv, CpuInv
<1>10. CandInv'
  BY <1>2, <1>3, <1>4 DEF SchedInv, CandInv
<1>11. RunInv' /\ OneCpu' /\ ChildUsed'
  BY <1>3, <1>4 DEF SchedInv, RunInv, OneCpu, ChildUsed
<1> QED
  BY <1>8, <1>9, <1>10, <1>11 DEF Rest

\* The lock of the switched process is released: by the process that got the
\* CPU, or by scheduler() that got it back.
LEMMA ReleaseStep ==
  ASSUME SchedInv, NEW c \in CPU, Resume(c) \/ Back(c) PROVE Rest'
<1> DEFINE p == cpu[c].proc
<1>1. /\ \A d \in CPU : /\ cpu[d].proc \in Slot \cup {None}
                        /\ cpu[d].cand \in Slot \cup {None}
                        /\ d # None
  BY DEF SchedInv, TypeOK, CpuRec, CPU, None
<1>2. /\ p \in Slot /\ p # None /\ cpu[c].cand = None /\ plock[p] = c
      /\ cpu[c].pc \in {"resume", "back"}
  BY <1>1 DEF SchedInv, Resume, Back, CpuInv, CandInv, LockInv, HoldsLock
<1>3. /\ cpu'[c].cand = None
      /\ \/ /\ cpu[c].pc = "resume" /\ cpu'[c].pc = "run"
            /\ cpu'[c].proc = p /\ cpu'[c].policy = cpu[c].policy
            /\ cpu'[c].i = cpu[c].i
         \/ /\ cpu[c].pc = "back" /\ cpu'[c].pc \in {"top", "scan"}
            /\ cpu'[c].proc = None
      /\ \A d \in CPU : d # c => cpu'[d] = cpu[d]
  <2>1. CASE Resume(c)
    BY <1>2, <2>1 DEF SchedInv, TypeOK, Resume, CpuRec
  <2>2. CASE Back(c) /\ cpu[c].policy = SCHED_ROUND_ROBIN
    BY <1>2, <2>2 DEF SchedInv, TypeOK, Back, CpuRec
  <2>3. CASE Back(c) /\ cpu[c].policy # SCHED_ROUND_ROBIN
    BY <2>3 DEF SchedInv, TypeOK, Back, IdleCpu
  <2> QED
    BY <2>1, <2>2, <2>3
<1>4. /\ plock'[p] = None
      /\ \A q \in Slot : q # p => plock'[q] = plock[q]
      /\ UNCHANGED proc
  BY <1>2 DEF SchedInv, TypeOK, Resume, Back
<1>5. \A d \in CPU : d # c => ~HoldsLock(d, p)
  BY <1>2 DEF SchedInv, LockInv
<1>7. LockInv'
  <2> SUFFICES ASSUME NEW d \in CPU, NEW q \in Slot
               PROVE  plock'[q] = d <=> HoldsLock(d, q)'
    BY DEF LockInv
  <2>1. CASE d = c
    <3>1. ~HoldsLock(d, q)'
      BY <1>2, <1>3, <2>1 DEF HoldsLock, None, Slot
    <3>2. plock[q] = c => q = p
      BY <1>2 DEF SchedInv, LockInv, HoldsLock
    <3> QED
      BY <1>1, <1>4, <2>1, <3>1, <3>2
  <2>2. CASE d # c
    <3>1. HoldsLock(d, q)' <=> HoldsLock(d, q)
      BY <1>3, <2>2 DEF HoldsLock
    <3> QED
      BY <1>1, <1>4, <1>5, <2>2, <3>1 DEF SchedInv, LockInv
  <2> QED
    BY <2>1, <2>2
<1> HIDE DEF p
<1>8. CpuInv'
  BY <1>1, <1>2, <1>3, <1>4 DEF SchedInv, CpuInv, p
<1>9. CandInv'
  BY <1>3, <1>4 DEF SchedInv, CandInv
<1>10. RunInv'
  <2> SUFFICES ASSUME NEW q \in Slot, proc'[q].state = "RUNNING"
               PROVE  \E d \in CPU : /\ cpu'[d].proc = q
                                     /\ cpu'[d].pc \in {"resume", "run"}
    BY DEF RunInv
  <2>1. PICK d \in CPU : cpu[d].proc = q /\ cpu[d].pc \in {"resume", "run"}
    BY <1>4 DEF SchedInv, RunInv
  <2>2. cpu'[d].proc = q /\ cpu'[d].pc \in {"resume", "run"}
    BY <1>3, <2>1 DEF p
  <2> QED
    BY <2>2
<1>11. OneCpu' /\ ChildUsed'
  BY <1>2, <1>3, <1>4 DEF SchedInv, OneCpu, ChildUsed, p
<1> QED
  BY <1>7, <1>8, <1>9, <1>10, <1>11 DEF Rest

\* One process that is on no CPU, and whose lock is free, changes its state
\* (wakeup(), fork() and wait() from elsewhere).
LEMMA OtherStep ==
  ASSUME SchedInv, UNCHANGED <<cpu, plock>>, NEW p \in Slot, Free(p),
         proc[p].state # "RUNNING", proc'[p].state # "RUNNING",
         \A q \in Slot : q # p => proc'[q].state = proc[q].state,
         ChildUsed'
  PROVE  Rest'
<1>1. \A d \in CPU : /\ cpu[d].proc \in Slot \cup {None}
                     /\ cpu[d].cand \in Slot \cup {None}
                     /\ d # None
  BY DEF SchedInv, TypeOK, CpuRec, CPU, None
<1>2. \A d \in CPU : ~HoldsLock(d, p)
  BY <1>1 DEF SchedInv, LockInv, Free
<1>3. \A d \in CPU : cpu[d].proc # p /\ cpu[d].cand # p
  BY <1>1, <1>2 DEF SchedInv, HoldsLock, CpuInv, CandInv, None, Slot
<1>4. LockInv' /\ OneCpu'
  BY DEF SchedInv, LockInv, HoldsLock, OneCpu
<1>5. CpuInv'
  BY <1>1, <1>3 DEF SchedInv, CpuInv
<1>6. CandInv'
  BY <1>1, <1>3 DEF SchedInv, CandInv
<1>7. RunInv'
  BY DEF SchedInv, RunInv
<1> QED
  BY <1>4, <1>5, <1>6, <1>7 DEF Rest

\* wakeup() or kill() makes a sleeping process RUNNABLE.
LEMMA WakeupStep ==
  ASSUME SchedInv, NEW c \in CPU, NEW p \in Slot, Wakeup(c, p) PROVE Rest'
<1>1. /\ proc'[p].state = "RUNNABLE"
      /\ \A q \in Slot : /\ proc'[q].child = proc[q].child
                         /\ q # p => proc'[q].state = proc[q].state
  BY DEF SchedInv, TypeOK, ProcRec, Wakeup, MakeRunnable
<1>2. proc[p].state = "SLEEPING" /\ Free(p) /\ UNCHANGED <<cpu, plock>>
  BY DEF Wakeup
<1>3. ChildUsed'
  BY <1>1, <1>2 DEF SchedInv, ChildUsed, TypeOK, ProcRec
<1> QED
  BY <1>1, <1>2, <1>3, OtherStep

\* wait() frees a zombie that is off its CPU.
LEMMA ReapStep ==
  ASSUME SchedInv, NEW c \in CPU, NEW p \in Slot, Reap(c, p) PROVE Rest'
<1>1. /\ proc'[p].state = "UNUSED"
      /\ \A q \in Slot : /\ proc'[q].child = proc[q].child
                         /\ q # p => proc'[q].state = proc[q].state
  BY DEF SchedInv, TypeOK, ProcRec, Reap
<1>2. proc[p].state = "ZOMBIE" /\ Free(p) /\ UNCHANGED <<cpu, plock>>
  BY DEF Reap
<1>3. ChildUsed'
  BY <1>1, <1>2 DEF SchedInv, ChildUsed, TypeOK, ProcRec
<1> QED
  BY <1>1, <1>2, <1>3, OtherStep

\* fork() runs on a CPU, so its process is RUNNING and not the child.
LEMMA ForkAllocStep ==
  ASSUME SchedInv, NEW c \in CPU, NEW np \in Slot, ForkAlloc(c, np) PROVE Rest'
<1> DEFINE p == cpu[c].proc
<1>1. p \in Slot /\ proc[p].state = "RUNNING"
  BY DEF SchedInv, TypeOK, CpuRec, ForkAlloc, InUser, InProcess, CpuInv
<1>2. proc[np].state = "UNUSED" /\ Free(np) /\ UNCHANGED <<cpu, plock>>
  BY DEF ForkAlloc
<1>3. np # p
  BY <1>1, <1>2
<1>4. /\ proc'[np].state = "USED" /\ proc'[np].child = proc[np].child
      /\ proc'[p].child = np /\ proc'[p].state = proc[p].state
      /\ \A q \in Slot : q # np /\ q # p => proc'[q] = proc[q]
  BY <1>1, <1>3 DEF SchedInv, TypeOK, ProcRec, ForkAlloc
<1>5. \A q \in Slot : proc[q].child \in Slot \cup {None}
  BY DEF SchedInv, TypeOK, ProcRec
<1> HIDE DEF p
<1>6. ChildUsed'
  <2>1. \A q \in Slot : proc[q].child # np
    BY <1>2, <1>5 DEF SchedInv, ChildUsed, None, Slot
  <2>2. \A q \in Slot : q # p => proc'[q].child = proc[q].child
    BY <1>4
  <2>3. \A q \in Slot : q # np => proc'[q].state = proc[q].state
    BY <1>4
  <2>4. \A q \in Slot : proc'[q].child # None => proc'[proc'[q].child].state = "USED"
    BY <1>4, <1>5, <2>1, <2>2, <2>3 DEF SchedInv, ChildUsed
  <2>5. \A q, r \in Slot : q # r /\ proc'[q].child # None =>
          proc'[q].child # proc'[r].child
    BY <1>1, <1>4, <2>1, <2>2 DEF SchedInv, ChildUsed
  <2> QED
    BY <2>4, <2>5 DEF ChildUsed
<1> QED
  BY <1>1, <1>2, <1>4, <1>6, OtherStep

\* The second critical section of fork() makes the child RUNNABLE.
LEMMA ForkStartStep ==
  ASSUME SchedInv, NEW c \in CPU, ForkStart(c) PROVE Rest'
<1> DEFINE p == cpu[c].proc
           np == proc[p].child
<1>1. p \in Slot /\ proc[p].state = "RUNNING"
  BY DEF SchedInv, TypeOK, CpuRec, ForkStart, InProcess, CpuInv
<1>2. /\ np \in Slot /\ np # None /\ proc[np].state = "USED" /\ Free(np)
      /\ UNCHANGED <<cpu, plock>>
  BY <1>1 DEF SchedInv, TypeOK, ProcRec, ForkStart, ChildUsed
<1>3. np # p
  BY <1>1, <1>2
<1>4. /\ proc'[np].state = "RUNNABLE" /\ proc'[np].child = proc[np].child
      /\ proc'[p].child = None /\ proc'[p].state = proc[p].state
      /\ \A q \in Slot : q # np /\ q # p => proc'[q] = proc[q]
  BY <1>1, <1>2, <1>3 DEF SchedInv, TypeOK, ProcRec, ForkStart, MakeRunnable
<1>5. \A q \in Slot : /\ proc[q].child \in Slot \cup {None}
                      /\ q # p => proc[q].child # np
  BY <1>1, <1>2 DEF SchedInv, TypeOK, ProcRec, ChildUsed
<1> HIDE DEF p, np
<1>6. ChildUsed'
  <2>1. \A q \in Slot : q # p => proc'[q].child = proc[q].child
    BY <1>4
  <2>2. \A q \in Slot : q # np => proc'[q].state = proc[q].state
    BY <1>4
  <2> QED
    BY <1>4, <1>5, <2>1, <2>2 DEF SchedInv, ChildUsed
<1> QED
  BY <1>1, <1>2, <1>4, <1>6, OtherStep

\* Every step preserves the rest of the invariant.
LEMMA RestStep == SchedInv /\ [Next]_vars => Rest'
<1> SUFFICES ASSUME SchedInv, [Next]_vars PROVE Rest'
  OBVIOUS
<1>1. ASSUME NEW c \in CPU, Scheduler(c) PROVE Rest'
  <2>0. /\ cpu[c].cand \in Slot \cup {None} /\ cpu[c].i \in 0..NPROC
        /\ c # None
    BY DEF SchedInv, TypeOK, CpuRec, CPU, None
  <2>1. CASE Top(c)
    <3>1. /\ cpu'[c].proc = cpu[c].proc /\ cpu'[c].cand = cpu[c].cand
          /\ cpu[c].pc = "top" /\ cpu'[c].pc = "scan"
          /\ \A d \in CPU : d # c => cpu'[d] = cpu[d]
      BY <2>1 DEF SchedInv, TypeOK, CpuRec, Top
    <3>2. cpu[c].cand = None
      BY <3>1 DEF SchedInv, CandInv
    <3> QED
      BY <2>1, <3>1, <3>2, QuietStep DEF Top
  <2>2. CASE ScanEnd(c)
    <3>1. /\ cpu'[c].proc = None /\ cpu'[c].cand = None /\ cpu'[c].pc = "top"
          /\ cpu[c].pc = "scan" /\ cpu[c].cand = None
          /\ \A d \in CPU : d # c => cpu'[d] = cpu[d]
      BY <2>2 DEF SchedInv, TypeOK, ScanEnd, IdleCpu
    <3>2. cpu[c].proc = None
      BY <3>1 DEF SchedInv, CpuInv
    <3> QED
      BY <2>2, <3>1, <3>2, QuietStep DEF ScanEnd
  <2>3. CASE RRDispatch(c)
    <3>1. /\ cpu[c].i \in Slot /\ cpu[c].i < NPROC
          /\ plock[cpu[c].i] = None /\ cpu[c].pc = "scan"
      BY <2>0, <2>3, SchedAssumption DEF RRDispatch, AtSlot, Free, Slot
    <3>2. cpu[c].cand = None
      BY <2>3 DEF RRDispatch, SchedInv, CandInv
    <3>3. \A q \in Slot : plock[q] # c
      BY <3>1, <3>2 DEF SchedInv, LockInv, HoldsLock, Slot, None
    <3> QED
      BY <2>3, <3>1, <3>3, DispatchStep DEF RRDispatch
  <2>4. CASE Skip(c)
    <3>1. /\ cpu'[c].proc = cpu[c].proc /\ cpu'[c].cand = cpu[c].cand
          /\ cpu[c].pc = "scan" /\ cpu'[c].pc = "scan"
          /\ cpu'[c].policy = cpu[c].policy /\ cpu'[c].i = cpu[c].i + 1
          /\ \A d \in CPU : d # c => cpu'[d] = cpu[d]
      BY <2>4 DEF SchedInv, TypeOK, CpuRec, Skip, AtSlot
    <3> QED
      BY <2>4, <3>1, QuietStep DEF Skip
  <2>5. CASE Keep(c)
    BY <2>5, KeepStep
  <2>6. CASE Pick(c)
    <3>1. /\ cpu[c].cand \in Slot /\ cpu[c].pc = "scan"
          /\ cpu[c].policy # SCHED_ROUND_ROBIN
          /\ proc[cpu[c].cand].state = "RUNNABLE"
      BY <2>0, <2>6 DEF Pick, SchedInv, CandInv
    <3>2. \A q \in Slot : plock[q] = c <=> q = cpu[c].cand
      BY <3>1 DEF SchedInv, LockInv, HoldsLock
    <3> QED
      BY <2>6, <3>1, <3>2, DispatchStep DEF Pick
  <2>7. CASE Resume(c) \/ Back(c)
    BY <2>7, ReleaseStep
  <2> QED
    BY <1>1, <2>1, <2>2, <2>3, <2>4, <2>5, <2>6, <2>7 DEF Scheduler
<1>2. ASSUME NEW c \in CPU, Yield(c) \/ Sleep(c) \/ Exit(c) PROVE Rest'
  BY <1>2, SwitchOutStep
     DEF Yield, Sleep, Exit, CallsYield, InUser, InProcess, MakeRunnable
<1>3. ASSUME NEW c \in CPU, UNCHANGED plock,
             NEW b, cpu' = [cpu EXCEPT ![c].resched = b],
             \A q \in Slot : /\ proc'[q].state = proc[q].state
                             /\ proc'[q].child = proc[q].child
      PROVE  Rest'
  <2>1. /\ cpu'[c].proc = cpu[c].proc /\ cpu'[c].cand = cpu[c].cand
        /\ cpu'[c].pc = cpu[c].pc /\ cpu'[c].policy = cpu[c].policy
        /\ cpu'[c].i = cpu[c].i
        /\ \A d \in CPU : d # c => cpu'[d] = cpu[d]
    BY <1>3 DEF SchedInv, TypeOK, CpuRec
  <2> QED
    BY <1>3, <2>1, QuietStep
<1>4. ASSUME NEW c \in CPU, YieldFCFS(c) PROVE Rest'
  BY <1>3, <1>4 DEF YieldFCFS
<1>5. ASSUME NEW c \in CPU, NEW p \in Slot, NEW v \in Priorities,
             SetPriority(c, p, v)
      PROVE  Rest'
  <2>1. \A q \in Slot : /\ proc'[q].state = proc[q].state
                        /\ proc'[q].child = proc[q].child
    BY <1>5 DEF SetPriority, SchedInv, TypeOK, ProcRec
  <2> QED
    BY <1>3, <1>5, <2>1 DEF SetPriority
<1>6. ASSUME NEW c \in CPU, NEW m \in Policies, SetScheduler(c, m) PROVE Rest'
  BY <1>3, <1>6 DEF SetScheduler
<1>7. CASE ClockIntr
  <2>1. 0 \in CPU
    BY SchedAssumption DEF CPU
  <2> QED
    BY <1>3, <1>7, <2>1 DEF ClockIntr
<1>8. CASE UNCHANGED vars
  BY <1>8 DEF vars, SchedInv, Rest, LockInv, HoldsLock, CpuInv, CandInv,
              RunInv, OneCpu, ChildUsed
<1> QED
  BY <1>1, <1>2, <1>4, <1>5, <1>6, <1>7, <1>8, WakeupStep, ReapStep,
     ForkAllocStep, ForkStartStep DEF Next, SysCall

\* Init establishes the invariant and every step keeps it.
THEOREM Invariance == Spec => []SchedInv
<1>1. SchedInv /\ [Next]_vars => SchedInv'
  BY TypeStep, RestStep DEF SchedInv, Rest
<1> QED
  BY <1>1, InitInv, PTL DEF Spec

\* Type correctness of the scheduler, the locks and the process table.
THEOREM TypeCorrect == Spec => []TypeOK
<1>1. SchedInv => TypeOK
  BY DEF SchedInv
<1> QED
  BY <1>1, Invariance, PTL

\* No kernel stack is ever used by two CPUs: the lock held across swtch()
\* keeps every other scheduler() away from a process that is still leaving
\* its CPU.
THEOREM StackExclusive == Spec => []OneCpu
<1>1. SchedInv => OneCpu
  BY DEF SchedInv
<1> QED
  BY <1>1, Invariance, PTL

\* The scans of scheduler(), which hold one process lock while they wait for
\* another, always wait for a later slot: they cannot deadlock.
THEOREM LocksOrdered == Spec => []LockOrder
<1>1. SchedInv => LockOrder
  <2> SUFFICES ASSUME SchedInv, NEW c \in CPU, NEW p \in Slot, plock[p] = c,
                      NEW q \in WaitsFor(c)
               PROVE  p < q
    BY DEF LockOrder, Holds
  <2>1. HoldsLock(c, p)
    BY DEF SchedInv, LockInv
  <2>2. cpu[c].pc = "scan" /\ cpu[c].cand = p /\ q = cpu[c].i
    BY <2>1 DEF HoldsLock, WaitsFor
  <2> QED
    BY <2>2 DEF SchedInv, CandInv, None, Slot
<1> QED
  BY <1>1, Invariance, PTL

\* At every swtch() exactly the lock of the switched process is held, so the
\* checks at the start of sched() never panic.
THEOREM SwtchDiscipline == Spec => []SwtchLocks
<1>1. SchedInv => SwtchLocks
  <2> SUFFICES ASSUME SchedInv, NEW c \in CPU
               PROVE  /\ cpu[c].pc \in {"resume", "back"} =>
                           Holds(c) = {cpu[c].proc}
                      /\ cpu[c].pc = "back" =>
                           proc[cpu[c].proc].state # "RUNNING"
                      /\ cpu[c].pc \in {"run", "top"} => Holds(c) = {}
    BY DEF SwtchLocks
  <2>1. \A p \in Slot : plock[p] = c <=> HoldsLock(c, p)
    BY DEF SchedInv, LockInv
  <2>2. cpu[c].pc \in {"resume", "back"} => cpu[c].proc \in Slot
    BY DEF SchedInv, CpuInv, TypeOK, CpuRec
  <2>3. cpu[c].pc = "back" => proc[cpu[c].proc].state # "RUNNING"
    BY DEF SchedInv, CpuInv
  <2> QED
    BY <2>1, <2>2, <2>3 DEF HoldsLock, Holds
<1> QED
  BY <1>1, Invariance, PTL

\* A process is RUNNING exactly while a CPU runs it, and no slot that is free
\* or being filled is on a CPU.
THEOREM RunningExact == Spec => []RunningOnCpu
<1>1. SchedInv => RunningOnCpu
  BY DEF SchedInv, RunningOnCpu, RunInv, CpuInv, TypeOK, CpuRec, None, Slot
<1> QED
  BY <1>1, Invariance, PTL

\* Between the two critical sections of fork() nobody takes its child away.
THEOREM ForkKeepsChild == Spec => []ChildUsed
<1>1. SchedInv => ChildUsed
  BY DEF SchedInv
<1> QED
  BY <1>1, Invariance, PTL

\* A scan cannot deadlock with another, and the checks of sched() never panic: locks
\* are taken in the order of the table and exactly one is held across swtch().
THEOREM LocksDisciplined == Spec => []LockDiscipline
<1>1. LockOrder /\ SwtchLocks => LockDiscipline
  BY DEF LockDiscipline
<1> QED
  BY <1>1, LocksOrdered, SwtchDiscipline, PTL

\* No stack is used by two CPUs, and RUNNING means on exactly one of them.
THEOREM StacksAreExclusive == Spec => []StacksExclusive
<1>1. OneCpu /\ RunningOnCpu => StacksExclusive
  BY DEF StacksExclusive
<1> QED
  BY <1>1, StackExclusive, RunningExact, PTL
=============================================================================
